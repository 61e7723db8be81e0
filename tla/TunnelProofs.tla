---------------------------- MODULE TunnelProofs ----------------------------
(****************************************************************************)
(* Theorems about Tunnel, for every number of concurrent start calls and of  *)
(* supervisors and every restart budget.                                     *)
(****************************************************************************)
EXTENDS Tunnel, TLAPS

\* The count is back at zero whenever a tunnel is Running: a revival, which counts up,
\* leaves Running, and only a URL, which resets the count, leads back.
CountInv == state = "Running" => restart_attempts = 0

Shape == TypeOK /\ CountInv

USE DEF inner, calls, tasks, outside, Live

-----------------------------------------------------------------------------
(* Shape, and the restart count                                              *)

\* Dropping the one handle kills its process and leaves the others as they are.
LEMMA WithoutChildShape == Shape => WithoutChild \in [Sups -> {"none", "up", "dead"}]
  BY NamesDiffer DEF Shape, TypeOK, WithoutChild

\* The variables have their types at boot.
LEMMA ShapeInit == Init => Shape
<1> SUFFICES ASSUME Init
             PROVE  Shape
  OBVIOUS
<1>1. /\ user_stopped \in BOOLEAN /\ autostart \in BOOLEAN /\ usable \in BOOLEAN
      /\ stopping \in BOOLEAN /\ clean_stop \in BOOLEAN
  BY Zenon DEF Init
<1>2. eager \in BOOLEAN
  BY <1>1, Zenon DEF Init
<1>3. start \in [Callers -> {"off", "due", "probe", "commit", "save"}]
  BY DEF Init, AfterBoot
<1>4. QED
  BY <1>1, <1>2, <1>3 DEF Init, Shape, TypeOK, CountInv

\* Every critical section of the tunnel and of its tasks keeps the types.
LEMMA ShapeStep == Shape /\ [Next]_vars => Shape'
<1> SUFFICES ASSUME Shape, [Next]_vars
             PROVE  Shape'
  OBVIOUS
<1> USE WithoutChildShape, NamesDiffer, RestartsAreNat DEF Shape, TypeOK, CountInv, Goto
<1>1. ASSUME NEW c \in Callers, StartEnter(c) PROVE Shape'
  BY <1>1 DEF StartEnter
<1>2. ASSUME NEW c \in Callers, StartStep(c) PROVE Shape'
  BY ZenonT(60), <1>2 DEF StartStep, GateClosed, StartOnline, StartOffline, StartCommit, StartSave
<1>3. ASSUME NEW c \in Callers, StartDropped(c) PROVE Shape'
  BY <1>3 DEF StartDropped
<1>4. CASE DogCheck
  BY <1>4 DEF DogCheck
<1>5. CASE StopEnter
  BY <1>5 DEF StopEnter
<1>6. CASE StopSave
  BY <1>6 DEF StopSave
<1>7. ASSUME NEW s \in Sups, SupStep(s) PROVE Shape'
  <2>1. CASE SupSpawn(s)
    BY <2>1 DEF SupSpawn
  <2>2. CASE SupSpawnFails(s)
    BY <2>2 DEF SupSpawnFails
  <2>3. CASE SupReadUrl(s)
    BY <2>3 DEF SupReadUrl
  <2>4. CASE SupEnds(s)
    BY <2>4 DEF SupEnds, Ended
  <2>5. CASE SupStore(s)
    BY <2>5 DEF SupStore
  <2>6. QED
    BY <1>7, <2>1, <2>2, <2>3, <2>4, <2>5 DEF SupStep
<1>8. ASSUME NEW s \in Sups, CloudflaredTellsUrl(s) PROVE Shape'
  BY <1>8 DEF CloudflaredTellsUrl
<1>9. ASSUME NEW s \in Sups, CloudflaredExits(s) PROVE Shape'
  BY <1>9 DEF CloudflaredExits
<1>10. CASE UsableChanges
  <2>1. usable' \in BOOLEAN
    BY <1>10, Zenon DEF UsableChanges
  <2>2. QED
    BY <1>10, <2>1 DEF UsableChanges
<1>11. CASE Restart
  <2>1. /\ user_stopped' \in BOOLEAN /\ stopping' \in BOOLEAN /\ clean_stop' \in BOOLEAN
        /\ usable' \in BOOLEAN
    BY <1>11, Zenon DEF Restart
  <2>2. autostart' \in BOOLEAN
    BY <1>11 DEF Restart
  <2>3. eager' \in BOOLEAN
    BY <1>11, <2>2, Zenon DEF Restart
  <2>4. start' \in [Callers -> {"off", "due", "probe", "commit", "save"}]
    BY <1>11 DEF Restart, AfterBoot
  <2>5. QED
    BY <1>11, <2>1, <2>2, <2>3, <2>4 DEF Restart
<1>12. CASE UNCHANGED vars
  BY <1>12 DEF vars
<1>13. QED
  BY <1>1, <1>2, <1>3, <1>4, <1>5, <1>6, <1>7, <1>8, <1>9, <1>10, <1>11, <1>12 DEF Next

\* Every variable keeps its shape, and no tunnel is ever revived twice in a row without
\* having come up in between: the supervisor's restart budget is never exhausted.
THEOREM TypeCorrect == Spec => []TypeOK
<1>1. Shape => TypeOK
  BY DEF Shape
<1>2. QED
  BY ShapeInit, ShapeStep, <1>1, PTL DEF Spec

-----------------------------------------------------------------------------
(* Processes and supervisors                                                 *)

\* Dropping the only handle leaves no cloudflared alive but those about to be stored.
LEMMA NothingLeft ==
  Shape /\ NoStrayTunnel => \A s \in Sups : WithoutChild[s] = "up" => sup[s] = "store"
  BY NamesDiffer DEF Shape, TypeOK, NoStrayTunnel, WithoutChild

\* No step lets go of a cloudflared that is alive: a handle that is dropped kills its own.
LEMMA NoStrayStep == Shape /\ NoStrayTunnel /\ [Next]_vars => NoStrayTunnel'
<1> SUFFICES ASSUME Shape, NoStrayTunnel, [Next]_vars
             PROVE  NoStrayTunnel'
  OBVIOUS
<1> USE NothingLeft, WithoutChildShape DEF Shape, TypeOK, NoStrayTunnel
<1>1. ASSUME NEW c \in Callers, StartEnter(c) PROVE NoStrayTunnel'
  BY <1>1 DEF StartEnter
<1>2. ASSUME NEW c \in Callers, StartStep(c) PROVE NoStrayTunnel'
  BY <1>2 DEF StartStep, GateClosed, StartOnline, StartOffline, StartCommit, StartSave
<1>3. ASSUME NEW c \in Callers, StartDropped(c) PROVE NoStrayTunnel'
  BY <1>3 DEF StartDropped
<1>4. CASE DogCheck
  BY <1>4 DEF DogCheck
<1>5. CASE StopEnter
  BY <1>5 DEF StopEnter
<1>6. CASE StopSave
  BY <1>6 DEF StopSave
<1>7. ASSUME NEW s \in Sups, SupStep(s) PROVE NoStrayTunnel'
  <2>1. CASE SupSpawn(s)
    BY <2>1 DEF SupSpawn
  <2>2. CASE SupSpawnFails(s)
    BY <2>2 DEF SupSpawnFails
  <2>3. CASE SupReadUrl(s)
    BY <2>3 DEF SupReadUrl
  <2>4. CASE SupEnds(s)
    BY <2>4 DEF SupEnds, Ended
  <2>5. CASE SupStore(s)
    BY <2>5 DEF SupStore
  <2>6. QED
    BY <1>7, <2>1, <2>2, <2>3, <2>4, <2>5 DEF SupStep
<1>8. ASSUME NEW s \in Sups, CloudflaredTellsUrl(s) PROVE NoStrayTunnel'
  BY <1>8 DEF CloudflaredTellsUrl
<1>9. ASSUME NEW s \in Sups, CloudflaredExits(s) PROVE NoStrayTunnel'
  BY <1>9 DEF CloudflaredExits
<1>10. CASE UsableChanges
  BY <1>10 DEF UsableChanges
<1>11. CASE Restart
  BY <1>11 DEF Restart
<1>12. CASE UNCHANGED vars
  BY <1>12 DEF vars
<1>13. QED
  BY <1>1, <1>2, <1>3, <1>4, <1>5, <1>6, <1>7, <1>8, <1>9, <1>10, <1>11, <1>12 DEF Next

\* Every cloudflared alive is in the one handle that stop kills, or in the hands of the
\* supervisor that is about to store it there.
THEOREM EveryTunnelIsHeld == Spec => []NoStrayTunnel
<1>1. Init => NoStrayTunnel
  BY DEF Init, NoStrayTunnel
<1>2. QED
  BY ShapeInit, ShapeStep, NoStrayStep, <1>1, PTL DEF Spec

\* No step leaves a live tunnel without the supervisor that would see it die.
LEMMA SupervisedStep == Shape /\ LiveIsSupervised /\ [Next]_vars => LiveIsSupervised'
<1> SUFFICES ASSUME Shape, LiveIsSupervised, [Next]_vars
             PROVE  LiveIsSupervised'
  OBVIOUS
<1> USE DEF Shape, TypeOK, LiveIsSupervised
<1>1. ASSUME NEW c \in Callers, StartEnter(c) PROVE LiveIsSupervised'
  BY <1>1 DEF StartEnter
<1>2. ASSUME NEW c \in Callers, StartStep(c) PROVE LiveIsSupervised'
  <2>1. CASE StartCommit(c)
    BY <2>1 DEF StartCommit
  <2>2. CASE ~StartCommit(c)
    BY <1>2, <2>2 DEF StartStep, GateClosed, StartOnline, StartOffline, StartSave
  <2>3. QED
    BY <2>1, <2>2
<1>3. ASSUME NEW c \in Callers, StartDropped(c) PROVE LiveIsSupervised'
  BY <1>3 DEF StartDropped
<1>4. CASE DogCheck
  BY <1>4 DEF DogCheck
<1>5. CASE StopEnter
  BY <1>5 DEF StopEnter
<1>6. CASE StopSave
  BY <1>6 DEF StopSave
<1>7. ASSUME NEW s \in Sups, SupStep(s) PROVE LiveIsSupervised'
  <2>1. CASE SupSpawn(s)
    BY <2>1 DEF SupSpawn
  <2>2. CASE SupSpawnFails(s)
    BY <2>2 DEF SupSpawnFails
  <2>3. CASE SupReadUrl(s)
    BY <2>3 DEF SupReadUrl
  <2>4. CASE SupEnds(s)
    BY <2>4 DEF SupEnds, Ended
  <2>5. CASE SupStore(s)
    BY <2>5 DEF SupStore
  <2>6. QED
    BY <1>7, <2>1, <2>2, <2>3, <2>4, <2>5 DEF SupStep
<1>8. ASSUME NEW s \in Sups, CloudflaredTellsUrl(s) PROVE LiveIsSupervised'
  BY <1>8 DEF CloudflaredTellsUrl
<1>9. ASSUME NEW s \in Sups, CloudflaredExits(s) PROVE LiveIsSupervised'
  BY <1>9 DEF CloudflaredExits
<1>10. CASE UsableChanges
  BY <1>10 DEF UsableChanges
<1>11. CASE Restart
  BY <1>11 DEF Restart
<1>12. CASE UNCHANGED vars
  BY <1>12 DEF vars
<1>13. QED
  BY <1>1, <1>2, <1>3, <1>4, <1>5, <1>6, <1>7, <1>8, <1>9, <1>10, <1>11, <1>12 DEF Next

\* A tunnel shown as Starting or Running has a supervisor.
THEOREM LiveTunnelIsSupervised == Spec => []LiveIsSupervised
<1>1. Init => LiveIsSupervised
  BY DEF Init, LiveIsSupervised
<1>2. QED
  BY ShapeInit, ShapeStep, SupervisedStep, <1>1, PTL DEF Spec

-----------------------------------------------------------------------------
(* The file                                                                  *)

\* No start is under way while the last stop stands: the write of "enabled" that ends one
\* would undo it.
CleanStopInv == clean_stop => \A c \in Callers : ~Starting(c)

\* A start that enters ends the stop's standing, so none overwrites what the stop has saved.
LEMMA RememberedStep ==
  Shape /\ CleanStopInv /\ StopIsRemembered /\ [Next]_vars => CleanStopInv' /\ StopIsRemembered'
<1> SUFFICES ASSUME Shape, CleanStopInv, StopIsRemembered, [Next]_vars
             PROVE  CleanStopInv' /\ StopIsRemembered'
  OBVIOUS
<1> USE DEF Shape, TypeOK, CleanStopInv, StopIsRemembered, Starting, Goto
<1>1. ASSUME NEW c \in Callers, StartEnter(c) PROVE CleanStopInv' /\ StopIsRemembered'
  BY <1>1 DEF StartEnter
<1>2. ASSUME NEW c \in Callers, StartStep(c) PROVE CleanStopInv' /\ StopIsRemembered'
  <2>1. CASE GateClosed(c)
    BY <2>1 DEF GateClosed
  <2>2. CASE StartOnline(c)
    BY <2>2 DEF StartOnline
  <2>3. CASE StartOffline(c)
    BY <2>3 DEF StartOffline
  <2>4. CASE StartCommit(c)
    BY <2>4 DEF StartCommit
  <2>5. CASE StartSave(c)
    BY <2>5 DEF StartSave
  <2>6. QED
    BY <1>2, <2>1, <2>2, <2>3, <2>4, <2>5 DEF StartStep
<1>3. ASSUME NEW c \in Callers, StartDropped(c) PROVE CleanStopInv' /\ StopIsRemembered'
  BY <1>3 DEF StartDropped
<1>4. CASE DogCheck
  BY <1>4 DEF DogCheck
<1>5. CASE StopEnter
  BY <1>5 DEF StopEnter
<1>6. CASE StopSave
  BY <1>6 DEF StopSave
<1>7. ASSUME NEW s \in Sups, SupStep(s) PROVE CleanStopInv' /\ StopIsRemembered'
  BY <1>7 DEF SupStep, SupSpawn, SupSpawnFails, SupStore, SupReadUrl, SupEnds
<1>8. ASSUME NEW s \in Sups, CloudflaredTellsUrl(s) PROVE CleanStopInv' /\ StopIsRemembered'
  BY <1>8 DEF CloudflaredTellsUrl
<1>9. ASSUME NEW s \in Sups, CloudflaredExits(s) PROVE CleanStopInv' /\ StopIsRemembered'
  BY <1>9 DEF CloudflaredExits
<1>10. CASE UsableChanges
  BY <1>10 DEF UsableChanges
<1>11. CASE Restart
  BY <1>11 DEF Restart
<1>12. CASE UNCHANGED vars
  BY <1>12 DEF vars
<1>13. QED
  BY <1>1, <1>2, <1>3, <1>4, <1>5, <1>6, <1>7, <1>8, <1>9, <1>10, <1>11, <1>12 DEF Next

\* A stop that no start overlapped and whose write did not fail outlives the daemon.
THEOREM StopOutlivesDaemon == Spec => []StopIsRemembered
<1>1. Init => CleanStopInv /\ StopIsRemembered
  BY DEF Init, CleanStopInv, StopIsRemembered
<1>2. QED
  BY ShapeInit, ShapeStep, RememberedStep, <1>1, PTL DEF Spec

-----------------------------------------------------------------------------
(* That an eager daemon's tunnel comes up again, as far as it can be proved: *)
(* what KeptAlive needs besides fairness                                     *)

\* What the watchdog of an eager daemon does about its tunnel.
DogStep == DogCheck \/ StartEnter(Dog) \/ StartStep(Dog)

\* The watchdog's case: the tunnel is down, though it is wanted and could be up.
Down == eager /\ state \notin Live /\ ~user_stopped /\ usable

\* How many steps the watchdog is from showing the tunnel as live.
DogLeft ==
  CASE start[Dog] = "save" -> 5 [] start[Dog] = "off"   -> 4 [] start[Dog] = "due" -> 3
    [] start[Dog] = "probe" -> 2 [] OTHER -> 1

\* While the tunnel is down and no boot task is due, nobody sets the watchdog back, and each
\* step of its own takes it nearer.
WatchdogGetsOnStep ==
  Down /\ Down' /\ start'[Boot] # "due" =>
    IF DogStep THEN DogLeft' < DogLeft ELSE start'[Dog] = start[Dog]

WatchdogGetsOn == [][WatchdogGetsOnStep]_vars

\* The watchdog is never sent round again while the tunnel is down: what other callers,
\* supervisors and processes do leaves it where it is, and a start that finds the conditions
\* for a tunnel goes through with it.
THEOREM WatchdogComesThrough == Spec => WatchdogGetsOn
<1>1. Shape /\ [Next]_vars => [WatchdogGetsOnStep]_vars
  <2> SUFFICES ASSUME Shape, Next, Down, Down', start'[Boot] # "due"
               PROVE  IF DogStep THEN DogLeft' < DogLeft ELSE start'[Dog] = start[Dog]
    BY DEF WatchdogGetsOnStep
  <2> USE NamesDiffer DEF Shape, TypeOK, Callers, Down, Goto
  <2>1. /\ Dog \in Callers /\ Dog \notin Calls /\ Boot \in Callers
        /\ start \in [Callers -> {"off", "due", "probe", "commit", "save"}]
    OBVIOUS
  <2>2. CASE DogCheck
    BY <2>1, <2>2 DEF DogCheck, DogLeft, DogStep
  <2>3. CASE StartEnter(Dog)
    BY <2>1, <2>3 DEF StartEnter, DogLeft, DogStep
  <2>4. CASE StartStep(Dog)
    <3>0. DogStep
      BY <2>4 DEF DogStep
    <3>1. CASE GateClosed(Dog) \/ StartOffline(Dog)
      BY <3>1 DEF GateClosed, StartOffline
    <3>2. CASE StartOnline(Dog)
      BY <2>1, <3>0, <3>2 DEF StartOnline, DogLeft
    <3>3. CASE StartCommit(Dog)
      BY <2>1, <3>0, <3>3 DEF StartCommit, DogLeft
    <3>4. CASE StartSave(Dog)
      BY <2>1, <3>0, <3>4 DEF StartSave, DogLeft
    <3>5. QED
      BY <2>4, <3>1, <3>2, <3>3, <3>4 DEF StartStep
  <2>5. CASE ~DogStep
    <3>1. ASSUME NEW c \in Callers, StartEnter(c) \/ StartStep(c) \/ StartDropped(c)
          PROVE  start'[Dog] = start[Dog]
      <4>1. c # Dog
        BY <2>1, <2>5, <3>1 DEF DogStep, StartDropped
      <4>2. QED
        BY <2>1, <3>1, <4>1 DEF StartEnter, StartStep, GateClosed, StartOnline, StartOffline,
                                StartCommit, StartSave, StartDropped
    <3>2. ASSUME StopEnter \/ StopSave \/ UsableChanges
          PROVE  start'[Dog] = start[Dog]
      BY <3>2 DEF StopEnter, StopSave, UsableChanges
    <3>3. ASSUME NEW s \in Sups, SupStep(s) \/ CloudflaredTellsUrl(s) \/ CloudflaredExits(s)
          PROVE  start'[Dog] = start[Dog]
      BY <3>3 DEF SupStep, SupSpawn, SupSpawnFails, SupStore, SupReadUrl, SupEnds,
                  CloudflaredTellsUrl, CloudflaredExits
    <3>4. ~Restart
      BY <2>1 DEF Restart, AfterBoot
    <3>5. QED
      BY <2>5, <3>1, <3>2, <3>3, <3>4 DEF Next, DogStep
  <2>6. QED
    BY <2>2, <2>3, <2>4, <2>5 DEF DogStep
<1>2. QED
  BY <1>1, ShapeInit, ShapeStep, PTL DEF Spec, WatchdogGetsOn

\* Whoever reads, or is about to, has spawned a process to read from.
ReadersHaveProc ==
  \A s \in Sups : sup[s] \in {"store", "read"} => proc[s] \in {"up", "dead"}

\* A supervisor takes its process off the list only with itself.
LEMMA ReadersStep == Shape /\ ReadersHaveProc /\ [Next]_vars => ReadersHaveProc'
<1> SUFFICES ASSUME Shape, ReadersHaveProc, [Next]_vars
             PROVE  ReadersHaveProc'
  OBVIOUS
<1> USE WithoutChildShape DEF Shape, TypeOK, ReadersHaveProc
<1>0. \A s \in Sups : WithoutChild[s] \in {proc[s], "dead"}
  BY NamesDiffer DEF WithoutChild
<1>1. ASSUME NEW c \in Callers, StartEnter(c) \/ StartDropped(c) PROVE ReadersHaveProc'
  BY <1>1 DEF StartEnter, StartDropped
<1>2. ASSUME NEW c \in Callers, StartStep(c) PROVE ReadersHaveProc'
  BY <1>2 DEF StartStep, GateClosed, StartOnline, StartOffline, StartCommit, StartSave
<1>3. CASE DogCheck \/ StopSave \/ UsableChanges
  BY <1>3 DEF DogCheck, StopSave, UsableChanges
<1>4. CASE StopEnter
  BY <1>0, <1>4 DEF StopEnter
<1>5. ASSUME NEW s \in Sups, SupStep(s) PROVE ReadersHaveProc'
  <2>1. CASE SupSpawn(s)
    BY <1>0, <2>1 DEF SupSpawn
  <2>2. CASE SupSpawnFails(s)
    BY <1>0, <2>2 DEF SupSpawnFails
  <2>3. CASE SupReadUrl(s)
    BY <2>3 DEF SupReadUrl
  <2>4. CASE SupEnds(s)
    BY <1>0, <2>4 DEF SupEnds, Ended
  <2>5. CASE SupStore(s)
    BY <1>0, <2>5 DEF SupStore
  <2>6. QED
    BY <1>5, <2>1, <2>2, <2>3, <2>4, <2>5 DEF SupStep
<1>6. ASSUME NEW s \in Sups, CloudflaredTellsUrl(s) \/ CloudflaredExits(s) PROVE ReadersHaveProc'
  BY <1>6 DEF CloudflaredTellsUrl, CloudflaredExits
<1>7. CASE Restart
  BY <1>7 DEF Restart
<1>8. CASE UNCHANGED vars
  BY <1>8 DEF vars
<1>9. QED
  BY <1>1, <1>2, <1>3, <1>4, <1>5, <1>6, <1>7, <1>8 DEF Next

\* A supervisor reads from a process, and has something to do about it unless that runs and
\* has not told its URL: then it is the one that the handle is of.
SupsMakeWay ==
  \A s \in Sups : sup[s] = "read" => out[s] = "url" \/ Ended(s) \/ (proc[s] = "up" /\ child = s)

\* No supervisor of an earlier tunnel lingers: all but the one that owns the running process
\* have their next step to take, so that a start which waits for one to be free gets it.
THEOREM SupervisorsMakeWay == Spec => []SupsMakeWay
<1>1. Init => ReadersHaveProc
  BY DEF Init, ReadersHaveProc
<1>2. Shape /\ ReadersHaveProc /\ NoStrayTunnel => SupsMakeWay
  BY DEF ReadersHaveProc, NoStrayTunnel, SupsMakeWay, Ended
<1>3. QED
  BY <1>1, <1>2, ShapeInit, ShapeStep, ReadersStep, EveryTunnelIsHeld, PTL DEF Spec

=============================================================================
