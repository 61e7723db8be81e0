---------------------------- MODULE ModelRuntime ----------------------------
(****************************************************************************)
(* The supervised llama-server of one machine: load, unload, snapshot and   *)
(* delete of unhosted-core/src/model_manager.rs.                            *)
(*                                                                          *)
(* One mutex guards the runtime state and the handle of the child process.  *)
(* load looks the file up without it, then holds it while it kills the old  *)
(* child and spawns the new one; every successful load leaves a supervisor  *)
(* task behind, which recognises its own load only by the file name (and    *)
(* the port, the same for all loads).  delete checks under the mutex and    *)
(* removes the file after it has released it.                               *)
(*                                                                          *)
(* An action is one critical section with the code that runs before it.     *)
(* Abstracted: what /health answers, and who else listens on the port, are  *)
(* nondeterministic; time is counted in polls of /health.                   *)
(****************************************************************************)
EXTENDS Naturals

CONSTANTS
  Files,     \* model file names
  LmStudio,  \* those found in LM Studio's tree, which is never written
  Loads,     \* load calls whose handler or supervisor can be alive together
  MaxPolls,  \* polls of /health that fit in HEALTH_WAIT_BUDGET
  None       \* neither a file nor a load

ASSUME FilesAssumption == LmStudio \subseteq Files /\ None \notin Files
ASSUME LoadsAssumption == None \notin Loads
ASSUME MaxPollsIsNat   == MaxPolls \in Nat

VARIABLES
  library,     \* files in the models dir
  state,       \* tag of Inner.runtime
  model,       \* its file, None when Idle or Failed
  child,       \* Inner.child: the file the process was started on, or None
  exited,      \* that process has exited and nobody has noticed
  loader,      \* program counter of each load handler
  target,      \* the file of each load, for its handler and its supervisor
  supervisor,  \* program counter of each load's supervisor
  polls,       \* unanswered polls of each supervisor
  deleting,    \* files a delete has found not loaded and has not removed yet
  overtaken,   \* history: those of them loaded since
  spawner      \* history: the load that spawned the child

runtime == <<state, model, child, exited, spawner>>
loads   == <<loader, target>>
watch   == <<supervisor, polls>>
deletes == <<deleting, overtaken>>
vars    == <<library, runtime, loads, watch, deletes>>

RuntimeStates == {"Idle", "Starting", "Running", "Failed"}

\* The file backs the running (or starting) child.
Loaded(f) == state \in {"Starting", "Running"} /\ model = f

Init ==
  /\ library \in SUBSET Files
  /\ state = "Idle" /\ model = None
  /\ child = None /\ exited = FALSE /\ spawner = None
  /\ loader = [l \in Loads |-> "off"]
  /\ target = [l \in Loads |-> None]
  /\ supervisor = [l \in Loads |-> "off"]
  /\ polls = [l \in Loads |-> 0]
  /\ deleting = {} /\ overtaken = {}

NoChild == child' = None /\ exited' = FALSE /\ spawner' = None
Become(s, f) == state' = s /\ model' = f

-----------------------------------------------------------------------------
(* load                                                                      *)

\* The file is found, in the library or in LM Studio's tree.
LoadResolve(l, f) ==
  /\ loader[l] = "off" /\ supervisor[l] = "off"
  /\ f \in library \union LmStudio
  /\ loader' = [loader EXCEPT ![l] = "resolved"]
  /\ target' = [target EXCEPT ![l] = f]
  /\ UNCHANGED <<library, runtime, watch, deletes>>

\* The old child is killed and waited for, the new one spawned and supervised.
LoadSpawn(l) ==
  /\ loader[l] = "resolved"
  /\ child' = target[l] /\ exited' = FALSE /\ spawner' = l
  /\ Become("Starting", target[l])
  /\ loader' = [loader EXCEPT ![l] = "off"]
  /\ supervisor' = [supervisor EXCEPT ![l] = "check"]
  /\ polls' = [polls EXCEPT ![l] = 0]
  /\ overtaken' = overtaken \union (deleting \intersect {target[l]})
  /\ UNCHANGED <<library, target, deleting>>

\* There is no child and the port is taken, or the spawn fails, or the client hangs up
\* while the old child is being killed: that child is gone and the state is left alone.
LoadEndsEarly(l) ==
  /\ loader[l] = "resolved"
  /\ NoChild
  /\ loader' = [loader EXCEPT ![l] = "off"]
  /\ UNCHANGED <<library, state, model, target, watch, deletes>>

-----------------------------------------------------------------------------
(* The supervisor of a load, one iteration after another                     *)

StillOursByHandle(l) ==   \* defect: goes by the handle, which may be gone
  state = "Starting" /\ spawner = l

StillOurs(l) == state = "Starting" /\ model = target[l]

SupervisorGoto(l, pc) == supervisor' = [supervisor EXCEPT ![l] = pc]

SupervisorStandsDown(l) ==
  /\ supervisor[l] = "check" /\ ~StillOurs(l)
  /\ SupervisorGoto(l, "off")
  /\ UNCHANGED <<library, runtime, loads, polls, deletes>>

\* The child died during startup.
SupervisorSeesExit(l) ==
  /\ supervisor[l] = "check" /\ StillOurs(l)
  /\ child # None /\ exited
  /\ NoChild
  /\ Become("Failed", None)
  /\ SupervisorGoto(l, "off")
  /\ UNCHANGED <<library, loads, polls, deletes>>

SupervisorExpiresKeepsChild(l) ==   \* defect: gives up without killing the child
  /\ supervisor[l] = "check" /\ StillOurs(l)
  /\ ~exited
  /\ polls[l] = MaxPolls
  /\ Become("Failed", None)
  /\ SupervisorGoto(l, "off")
  /\ UNCHANGED <<library, child, exited, spawner, loads, polls, deletes>>

\* The budget is used up: kill the child, whichever load spawned it.
SupervisorExpires(l) ==
  /\ supervisor[l] = "check" /\ StillOurs(l)
  /\ ~exited
  /\ polls[l] = MaxPolls
  /\ NoChild
  /\ Become("Failed", None)
  /\ SupervisorGoto(l, "off")
  /\ UNCHANGED <<library, loads, polls, deletes>>

SupervisorPollsOnceMore(l) ==   \* defect: compares with <= and polls past the deadline
  /\ supervisor[l] = "check" /\ StillOurs(l)
  /\ ~exited
  /\ polls[l] <= MaxPolls
  /\ SupervisorGoto(l, "get")
  /\ UNCHANGED <<library, runtime, loads, polls, deletes>>

SupervisorPolls(l) ==
  /\ supervisor[l] = "check" /\ StillOurs(l)
  /\ ~exited
  /\ polls[l] < MaxPolls
  /\ SupervisorGoto(l, "get")
  /\ UNCHANGED <<library, runtime, loads, polls, deletes>>

SupervisorUnansweredUncounted(l) ==   \* defect: starts the budget again after a request
  /\ supervisor[l] = "get"
  /\ polls' = [polls EXCEPT ![l] = 0]
  /\ SupervisorGoto(l, "check")
  /\ UNCHANGED <<library, runtime, loads, deletes>>

SupervisorUnanswered(l) ==
  /\ supervisor[l] = "get"
  /\ polls' = [polls EXCEPT ![l] = @ + 1]
  /\ SupervisorGoto(l, "check")
  /\ UNCHANGED <<library, runtime, loads, deletes>>

SupervisorAnsweredUnchecked(l) ==   \* defect: does not look again after the request
  /\ supervisor[l] = "get"
  /\ Become("Running", target[l])
  /\ SupervisorGoto(l, "off")
  /\ UNCHANGED <<library, child, exited, spawner, loads, polls, deletes>>

\* /health answered: Running, if the state is still Starting with this file.
SupervisorAnswered(l) ==
  /\ supervisor[l] = "get"
  /\ state' = IF StillOurs(l) THEN "Running" ELSE state
  /\ SupervisorGoto(l, "off")
  /\ UNCHANGED <<library, model, child, exited, spawner, loads, polls, deletes>>

Supervise(l) ==
  \/ SupervisorStandsDown(l)
  \/ SupervisorSeesExit(l)
  \/ SupervisorExpires(l)
  \/ SupervisorPolls(l)
  \/ SupervisorUnanswered(l)
  \/ SupervisorAnswered(l)

-----------------------------------------------------------------------------
(* unload, snapshot, delete and the world                                    *)

Unload ==
  /\ NoChild
  /\ Become("Idle", None)
  /\ UNCHANGED <<library, loads, watch, deletes>>

\* The client hangs up while unload waits for the child it has taken to die.
UnloadDropped ==
  /\ child # None
  /\ NoChild
  /\ UNCHANGED <<library, state, model, loads, watch, deletes>>

\* A poll of the UI reaps a dead child.
Snapshot ==
  /\ child # None /\ exited
  /\ NoChild
  /\ Become("Failed", None)
  /\ UNCHANGED <<library, loads, watch, deletes>>

DeleteCheckRunning(f) ==   \* defect: forgets that a starting child has the file open
  /\ ~(state = "Running" /\ model = f)
  /\ deleting' = deleting \union {f}
  /\ UNCHANGED <<library, runtime, loads, watch, overtaken>>

DeleteCheck(f) ==
  /\ ~Loaded(f)
  /\ deleting' = deleting \union {f}
  /\ UNCHANGED <<library, runtime, loads, watch, overtaken>>

DeleteRemove(f) ==
  /\ f \in deleting
  /\ library' = library \ {f}
  /\ deleting' = deleting \ {f}
  /\ overtaken' = overtaken \ {f}
  /\ UNCHANGED <<runtime, loads, watch>>

\* A finished download is renamed into the library.
Downloaded(f) ==
  /\ f \notin library
  /\ library' = library \union {f}
  /\ UNCHANGED <<runtime, loads, watch, deletes>>

\* llama-server crashes, is killed for memory, or gives up on its model.
ServerExits ==
  /\ child # None /\ ~exited
  /\ exited' = TRUE
  /\ UNCHANGED <<library, state, model, child, spawner, loads, watch, deletes>>

Next ==
  \/ \E l \in Loads, f \in Files : LoadResolve(l, f)
  \/ \E l \in Loads : LoadSpawn(l) \/ LoadEndsEarly(l)
  \/ \E l \in Loads : Supervise(l)
  \/ Unload \/ UnloadDropped \/ Snapshot \/ ServerExits
  \/ \E f \in Files : DeleteCheck(f) \/ DeleteRemove(f) \/ Downloaded(f)

Spec == Init /\ [][Next]_vars

\* A supervisor is a spawned task whose sleeps and requests have timeouts; the mutex is
\* fair and nobody holds it for ever.
FairSpec == Spec /\ \A l \in Loads : WF_vars(Supervise(l))

-----------------------------------------------------------------------------
(* Properties                                                                *)

\* Every variable keeps its shape; the budget of a supervisor is never overdrawn, and an
\* exited process is one whose handle is held.
TypeOK ==
  /\ library \subseteq Files
  /\ state \in RuntimeStates
  /\ model \in Files \union {None}
  /\ child \in Files \union {None}
  /\ spawner \in Loads \union {None}
  /\ exited \in BOOLEAN /\ (exited => child # None)
  /\ loader \in [Loads -> {"off", "resolved"}]
  /\ target \in [Loads -> Files \union {None}]
  /\ supervisor \in [Loads -> {"off", "check", "get"}]
  /\ polls \in [Loads -> 0 .. MaxPolls]
  /\ overtaken \subseteq deleting /\ deleting \subseteq Files

\* A llama-server the manager owns is never hidden: the state is Starting or Running,
\* with the file that server was loaded with, however loads, switches, unloads,
\* supervisors and hang-ups of clients interleave.
OwnedServerIsShown ==
  child # None => state \in {"Starting", "Running"} /\ model = child

\* "A newer load()/unload() replaced us -- stand down": nothing but a load leads out of
\* Idle or Failed, whatever supervisors of earlier loads are still polling.
NothingRevives ==
  [][(state \in {"Idle", "Failed"} => state' \in {"Idle", "Failed", "Starting"})]_vars

\* A Starting runtime has a supervisor that takes it for its own.
StartingIsWatched ==
  state = "Starting" => \E l \in Loads : supervisor[l] # "off" /\ target[l] = model

\* A load ends: a file does not stay Starting for ever, even when it is loaded again and
\* again, or a load or unload was abandoned half-way.
StartingEnds ==
  \A f \in Files : (state = "Starting" /\ model = f) ~> (state # "Starting" \/ model # f)

\* delete refuses a file that backs the running or starting child; only a load that
\* began between its check and the removal can lose its file.
DeleteSparesLoaded ==
  [][\A f \in library \ library' : Loaded(f) => f \in overtaken]_vars

\* What "didn't become healthy within HEALTH_WAIT_BUDGET" and "a newer load() replaced
\* us -- stand down" say: a live llama-server is only killed as unhealthy when its own
\* load has used up its own budget.
BudgetIsGranted ==
  [][child # None /\ ~exited /\ state' = "Failed" => polls[spawner] = MaxPolls]_vars
=============================================================================
