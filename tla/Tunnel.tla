------------------------------- MODULE Tunnel -------------------------------
(****************************************************************************)
(* The public tunnel of a daemon (unhosted-core/src/tunnel.rs): cloudflared  *)
(* as a child process, one supervisor task per successful start, the stop    *)
(* call, the boot task and the watchdog of an eager daemon (lib.rs), and the *)
(* file that remembers across restarts what the user wanted.                 *)
(*                                                                          *)
(* One mutex guards Inner; an action is one critical section with the        *)
(* lock-free code before it, where that has no effect anybody can see.  The  *)
(* spawn of cloudflared has, and the write of the autostart file, which may  *)
(* fail: they are steps of their own.                                        *)
(*                                                                          *)
(* Abstracted: the stage inside Starting, the URL and the error texts.       *)
(* "usable" stands for the three outside conditions together: cloudflared    *)
(* can be found, Cloudflare answers the preflight, and (for the boot task    *)
(* and the watchdog) an LLM is reachable.  A process that is killed is dead  *)
(* at once, but what it has written to stderr can still be read.             *)
(****************************************************************************)
EXTENDS Naturals

CONSTANTS
  Calls,             \* start calls that can be in progress together
  Sups,              \* supervisor tasks that can be alive together
  MaxAutoRestarts,   \* MAX_AUTO_RESTARTS
  Boot, Dog,         \* the boot task and the watchdog, which call start themselves
  NoOne              \* no supervisor

ASSUME NamesDiffer == Boot \notin Calls /\ Dog \notin Calls /\ Boot # Dog /\ NoOne \notin Sups
ASSUME RestartsAreNat == MaxAutoRestarts \in Nat

VARIABLES
  state,             \* tag of TunnelState
  child,             \* the supervisor whose process Inner.child is the handle of
  restart_attempts,
  user_stopped,
  autostart,         \* the file says "enabled"
  eager,             \* this daemon was booted eager: it has a watchdog
  start,             \* program counter of each caller of start
  stopping,          \* a stop has released the lock and not yet written the file
  sup,               \* program counter of each supervisor
  proc,              \* its cloudflared
  out,               \* that process's URL line: not written, not read, or read
  usable,            \* the outside conditions for a tunnel hold
  clean_stop        \* history: the last stop overlaps no start, none followed it, its write did not fail

inner   == <<state, child, restart_attempts, user_stopped>>
calls   == <<start, stopping, clean_stop>>
tasks   == <<sup, proc, out>>
outside == <<autostart, eager, usable>>
vars    == <<inner, calls, tasks, outside>>

Callers == Calls \union {Boot, Dog}
Live    == {"Starting", "Running"}

Goto(c, pc) == start' = [start EXCEPT ![c] = pc]

\* A call to start has passed its first check and not yet returned.
Starting(c) == start[c] \in {"probe", "commit", "save"}

\* Dropping a handle kills its process.
WithoutChild == IF child = NoOne THEN proc ELSE [proc EXCEPT ![child] = "dead"]

\* The boot task of an eager daemon is about to call start.
AfterBoot(e) == [c \in Callers |-> IF c = Boot /\ e THEN "due" ELSE "off"]

-----------------------------------------------------------------------------
Init ==
  /\ state = "Idle" /\ child = NoOne
  /\ restart_attempts = 0 /\ user_stopped = FALSE
  /\ autostart \in BOOLEAN /\ eager \in {autostart, TRUE} /\ usable \in BOOLEAN
  /\ start = AfterBoot(eager)
  /\ stopping = FALSE /\ clean_stop = FALSE
  /\ sup = [s \in Sups |-> "off"]
  /\ proc = [s \in Sups |-> "none"]
  /\ out = [s \in Sups |-> "quiet"]

-----------------------------------------------------------------------------
(* start                                                                     *)

DogCheckIdleOnly ==   \* defect: takes a Failed tunnel for one that is being dealt with
  /\ eager /\ start[Dog] = "off"
  /\ state = "Idle" /\ ~user_stopped
  /\ Goto(Dog, "due")
  /\ UNCHANGED <<inner, stopping, clean_stop, tasks, outside>>

\* The watchdog finds the tunnel down and not stopped by the user.
DogCheck ==
  /\ eager /\ start[Dog] = "off"
  /\ state \notin Live /\ ~user_stopped
  /\ Goto(Dog, "due")
  /\ UNCHANGED <<inner, stopping, clean_stop, tasks, outside>>

\* No LLM to publish: the boot task and the watchdog do not call start after all.
GateClosed(c) ==
  /\ start[c] = "due" /\ ~usable
  /\ Goto(c, "off")
  /\ UNCHANGED <<inner, stopping, clean_stop, tasks, outside>>

\* First critical section: a live tunnel is left alone, else an earlier stop is
\* forgotten; without a cloudflared to run start fails here.
StartEnter(c) ==
  /\ start[c] = (IF c \in Calls THEN "off" ELSE "due")
  /\ IF state \in Live
     THEN Goto(c, "off") /\ UNCHANGED user_stopped
     ELSE /\ user_stopped' = FALSE
          /\ Goto(c, "probe") \/ (~usable /\ Goto(c, "off"))
  /\ clean_stop' = (clean_stop /\ state \in Live)
  /\ UNCHANGED <<state, child, restart_attempts, stopping, tasks, outside>>

\* has_internet, without the lock.
StartOnline(c) ==
  /\ start[c] = "probe" /\ usable
  /\ Goto(c, "commit")
  /\ UNCHANGED <<inner, stopping, clean_stop, tasks, outside>>

\* ... and its failure, written over whatever the state is by now.
StartOffline(c) ==
  /\ start[c] = "probe" /\ ~usable
  /\ state' = "Failed"
  /\ Goto(c, "off")
  /\ UNCHANGED <<child, restart_attempts, user_stopped, stopping, clean_stop, tasks, outside>>

\* Second critical section: the state is checked again, user_stopped is not.
StartCommit(c) ==
  /\ start[c] = "commit"
  /\ \/ /\ state \in Live
        /\ Goto(c, "off")
        /\ UNCHANGED <<state, sup>>
     \/ /\ state \notin Live
        /\ state' = "Starting"
        /\ \E s \in Sups : sup[s] = "off" /\ sup' = [sup EXCEPT ![s] = "spawn"]
        /\ Goto(c, "save")
  /\ UNCHANGED <<child, restart_attempts, user_stopped, stopping, clean_stop, proc, out, outside>>

\* save_autostart only logs its failure: the file may then be as it was, or cut, which reads
\* as disabled.
StartSave(c) ==
  /\ start[c] = "save"
  /\ autostart' \in BOOLEAN
  /\ Goto(c, "off")
  /\ UNCHANGED <<inner, stopping, clean_stop, tasks, eager, usable>>

\* The HTTP caller of start hangs up while the handler waits.
StartDropped(c) ==
  /\ c \in Calls /\ start[c] \in {"probe", "commit"}
  /\ Goto(c, "off")
  /\ UNCHANGED <<inner, stopping, clean_stop, tasks, outside>>

-----------------------------------------------------------------------------
(* stop                                                                      *)

StopEnter ==
  /\ ~stopping /\ stopping' = TRUE
  /\ proc' = WithoutChild /\ child' = NoOne
  /\ state' = "Idle"
  /\ restart_attempts' = 0 /\ user_stopped' = TRUE
  /\ clean_stop' = (\A c \in Callers : ~Starting(c))
  /\ UNCHANGED <<start, sup, out, outside>>

StopForgets ==   \* defect: the choice is not written down
  /\ stopping /\ stopping' = FALSE
  /\ UNCHANGED <<inner, start, clean_stop, tasks, outside>>

\* Written, or cut, which reads the same; or the file cannot be written and stays as it is,
\* and the stop is acknowledged all the same.
StopSave ==
  /\ stopping /\ stopping' = FALSE
  /\ \/ autostart' = FALSE /\ UNCHANGED clean_stop
     \/ clean_stop' = FALSE /\ UNCHANGED autostart
  /\ UNCHANGED <<inner, start, tasks, eager, usable>>

-----------------------------------------------------------------------------
(* supervisor_loop                                                           *)

\* Spawn cloudflared, without the lock: until it is stored, its handle is the supervisor's.
SupSpawn(s) ==
  /\ sup[s] = "spawn"
  /\ proc' = [proc EXCEPT ![s] = "up"]
  /\ out' = [out EXCEPT ![s] = "quiet"]
  /\ sup' = [sup EXCEPT ![s] = "store"]
  /\ UNCHANGED <<inner, calls, outside>>

SupStoreKillsNone(s) ==   \* defect: the process of the handle that is replaced runs on
  /\ sup[s] = "store"
  /\ child' = s
  /\ state' = IF state = "Idle" THEN "Starting" ELSE state
  /\ sup' = [sup EXCEPT ![s] = "read"]
  /\ UNCHANGED <<restart_attempts, user_stopped, calls, proc, out, outside>>

\* Store the handle; one that it replaces kills its process.  An Idle tunnel is shown as
\* Starting, whoever made it Idle.
SupStore(s) ==
  /\ sup[s] = "store"
  /\ child' = s
  /\ proc' = [WithoutChild EXCEPT ![s] = proc[s]]
  /\ state' = IF state = "Idle" THEN "Starting" ELSE state
  /\ sup' = [sup EXCEPT ![s] = "read"]
  /\ UNCHANGED <<restart_attempts, user_stopped, calls, out, outside>>

SupSpawnFails(s) ==
  /\ sup[s] = "spawn" /\ ~usable
  /\ state' = "Failed"
  /\ proc' = WithoutChild /\ child' = NoOne
  /\ sup' = [sup EXCEPT ![s] = "off"]
  /\ UNCHANGED <<restart_attempts, user_stopped, calls, out, outside>>

SupReadUrlKeepsCount(s) ==   \* defect: a tunnel that came up leaves the count as it was
  /\ sup[s] = "read" /\ out[s] = "url"
  /\ state' = "Running"
  /\ out' = [out EXCEPT ![s] = "quiet"]
  /\ UNCHANGED <<child, restart_attempts, user_stopped, calls, sup, proc, outside>>

\* A line with the URL: Running, whatever the state was, and the count starts anew.
SupReadUrl(s) ==
  /\ sup[s] = "read" /\ out[s] = "url"
  /\ state' = "Running"
  /\ restart_attempts' = 0
  /\ out' = [out EXCEPT ![s] = "quiet"]
  /\ UNCHANGED <<child, user_stopped, calls, sup, proc, outside>>

Ended(s) == sup[s] = "read" /\ proc[s] = "dead" /\ out[s] # "url"

SupEndsOnlyRunning(s) ==   \* defect: a process that ends before its URL changes no state
  /\ Ended(s)
  /\ child' = NoOne
  /\ proc' = [WithoutChild EXCEPT ![s] = "none"]
  /\ sup' = [sup EXCEPT ![s] = "off"]
  /\ state' = IF state = "Running" THEN "Failed" ELSE state
  /\ UNCHANGED <<restart_attempts, user_stopped, calls, out, outside>>

\* stderr is closed.  The handle is dropped, whoever's process it holds by now; a Running
\* tunnel is revived after a delay while the count allows, a Starting one has Failed.
SupEnds(s) ==
  /\ Ended(s)
  /\ child' = NoOne
  /\ proc' = [WithoutChild EXCEPT ![s] = "none"]
  /\ out' = [out EXCEPT ![s] = "quiet"]
  /\ LET revive == state = "Running" /\ restart_attempts < MaxAutoRestarts
     IN  /\ restart_attempts' = restart_attempts + (IF revive THEN 1 ELSE 0)
         /\ sup' = [sup EXCEPT ![s] = IF revive THEN "spawn" ELSE "off"]
         /\ state' = IF revive THEN "Starting" ELSE IF state \in Live THEN "Failed" ELSE state
  /\ UNCHANGED <<user_stopped, calls, outside>>

-----------------------------------------------------------------------------
(* cloudflared, the outside world and the daemon's life                      *)

CloudflaredTellsUrl(s) ==
  /\ proc[s] = "up" /\ out[s] = "quiet"
  /\ out' = [out EXCEPT ![s] = "url"]
  /\ UNCHANGED <<inner, calls, sup, proc, outside>>

CloudflaredExits(s) ==
  /\ proc[s] = "up"
  /\ proc' = [proc EXCEPT ![s] = "dead"]
  /\ UNCHANGED <<inner, calls, sup, out, outside>>

UsableChanges ==
  /\ usable' = ~usable
  /\ UNCHANGED <<inner, calls, tasks, autostart, eager>>

\* The daemon goes down, and cloudflared with it, and boots again: eager if the file or
\* the operator (--eager-tunnel, UNHOSTED_EAGER_TUNNEL) says so.
\* A write that was under way may have left the file empty, which reads as disabled.
Restart ==
  /\ autostart' \in {autostart} \union
       (IF stopping \/ \E c \in Callers : start[c] = "save" THEN {FALSE} ELSE {})
  /\ eager' \in {autostart', TRUE}
  /\ state' = "Idle" /\ child' = NoOne
  /\ restart_attempts' = 0 /\ user_stopped' = FALSE
  /\ start' = AfterBoot(eager')
  /\ stopping' = FALSE /\ clean_stop' = FALSE
  /\ sup' = [s \in Sups |-> "off"]
  /\ proc' = [s \in Sups |-> "none"]
  /\ out' = [s \in Sups |-> "quiet"]
  /\ UNCHANGED usable

-----------------------------------------------------------------------------
StartStep(c) ==
  \/ GateClosed(c) \/ StartOnline(c) \/ StartOffline(c) \/ StartCommit(c) \/ StartSave(c)

SupStep(s) ==
  \/ SupSpawn(s) \/ SupSpawnFails(s) \/ SupStore(s) \/ SupReadUrl(s) \/ SupEnds(s)

Next ==
  \/ \E c \in Callers : StartEnter(c) \/ StartStep(c) \/ StartDropped(c)
  \/ DogCheck
  \/ StopEnter \/ StopSave
  \/ \E s \in Sups : SupStep(s) \/ CloudflaredTellsUrl(s) \/ CloudflaredExits(s)
  \/ UsableChanges
  \/ Restart

\* The runtime schedules every task: waits and probes have time limits, the watchdog comes
\* round every 30 s.  No user has to call, no process has to die or to publish a URL.
Fairness ==
  /\ \A c \in Callers : WF_vars(StartStep(c))
  /\ \A c \in {Boot, Dog} : WF_vars(StartEnter(c))
  /\ WF_vars(DogCheck) /\ WF_vars(StopSave)
  /\ \A s \in Sups : WF_vars(SupStep(s))

Spec == Init /\ [][Next]_vars

FairSpec == Spec /\ Fairness

-----------------------------------------------------------------------------
(* Properties                                                                *)

\* Every variable keeps its shape.  restart_attempts never passes one: a revived tunnel
\* either comes up, which resets the count, or ends the supervision.
TypeOK ==
  /\ state \in {"Idle", "Starting", "Running", "Failed"}
  /\ child \in Sups \union {NoOne}
  /\ restart_attempts \in 0 .. 1
  /\ user_stopped \in BOOLEAN /\ autostart \in BOOLEAN /\ eager \in BOOLEAN
  /\ start \in [Callers -> {"off", "due", "probe", "commit", "save"}]
  /\ stopping \in BOOLEAN /\ usable \in BOOLEAN /\ clean_stop \in BOOLEAN
  /\ sup \in [Sups -> {"off", "spawn", "store", "read"}]
  /\ proc \in [Sups -> {"none", "up", "dead"}]
  /\ out \in [Sups -> {"quiet", "url"}]

\* A tunnel shown as Starting or Running has a supervisor that will see its process end:
\* no overlap of starts, stops and deaths strands it there.
LiveIsSupervised == state \in Live => \E s \in Sups : sup[s] # "off"

\* No cloudflared is out of reach, however many supervisors are alive: the one handle is its
\* handle, which stop kills, or its supervisor is about to store it.  A stop that comes
\* before the store kills nothing; the tunnel is then shown as Starting (StopIsFinal).
NoStrayTunnel == \A s \in Sups : proc[s] = "up" => child = s \/ sup[s] = "store"

\* A stop outlives the daemon: the daemon will not publish itself at its next boot once the
\* stop has returned, unless a start overlapped it or its write failed, which is only logged.
StopIsRemembered ==
  clean_stop /\ ~stopping => ~autostart

\* An eager daemon's tunnel that is down comes up again, unless the user stops it, the
\* outside conditions fail or the daemon is restarted (it is then not eager, or its boot
\* task is due).
KeptAlive ==
  (eager /\ state \notin Live)
    ~> (state \in Live \/ user_stopped \/ ~usable \/ ~eager \/ start[Boot] = "due")

\* What stop's comment promises: the supervisor sees the Idle state and does not revive.
\* A tunnel the user has stopped, with no start in progress, is not shown as live again.
NoRevivalStep ==
  state = "Idle" /\ user_stopped /\ (\A c \in Callers : ~Starting(c)) => state' \notin Live

StopIsFinal == [][NoRevivalStep]_vars

=============================================================================
