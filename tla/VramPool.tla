------------------------------ MODULE VramPool ------------------------------
(****************************************************************************)
(* The VRAM-pool manager of one machine (unhosted-core/src/vram_pool.rs).    *)
(*                                                                          *)
(* One mutex guards PoolInner (the pool's state, the handles of the two     *)
(* child processes and the user_stopped flag).  It is taken and released    *)
(* many times by tasks that run side by side:                               *)
(*   - start handlers, which bring the orchestrator role up;                *)
(*   - layer-host handlers, which bring the hosting role up;                *)
(*   - stop, one critical section;                                          *)
(*   - for every successful start a model-load poller and a supervisor, for *)
(*     every successful hosting a supervisor of its own.                    *)
(* An action is one critical section together with the lock-free code       *)
(* before it: what a task computes between two critical sections is seen by *)
(* no other task.                                                           *)
(*                                                                          *)
(* Abstracted: a plan is reduced to whether it lists this machine as a      *)
(* layer host; the progress stage inside Starting, error texts, ports and   *)
(* addresses are left out; "the port answers" and "/v1/models answers" are  *)
(* nondeterministic (another program may own the port); wall-clock time is  *)
(* counted in polls.                                                        *)
(****************************************************************************)
EXTENDS Naturals

CONSTANTS
  Starts,    \* start calls whose handler or background tasks can be alive together
  Hosts,     \* layer-host calls that can be alive together
  MaxPolls   \* polls of /v1/models that fit in MODEL_LOAD_TIMEOUT

ASSUME MaxPollsIsNat == MaxPolls \in Nat

VARIABLES
  state,         \* tag of PoolInner.state
  rpc_child,     \* handle of the local rpc-server process
  llama_child,   \* handle of the local llama-server process
  user_stopped,  \* set by stop, cleared by the next start
  starter,       \* program counter of each start handler
  host,          \* program counter of each layer-host handler
  poller,        \* program counter of each start's model-load poller
  polls,         \* unanswered polls of each poller
  supervisor,    \* starts whose pool supervisor is still running
  hostWatch,     \* hostings whose supervisor is still running
  serial         \* history: since the last stop, calls came one at a time and ran to their end

inner    == <<state, rpc_child, llama_child, user_stopped>>
handlers == <<starter, host>>
watchers == <<poller, polls, supervisor, hostWatch>>
vars     == <<inner, handlers, watchers, serial>>

PoolStates == {"Idle", "Starting", "Running", "Failed", "Hosting"}

\* An Option<Child>: no handle, a live process, or one that has exited unnoticed.
Child == {"none", "up", "dead"}

StarterPC == {"off", "spawnRpc", "waitRpc", "toOrch", "spawnLlama"}
HostPC    == {"off", "spawn", "wait"}
PollerPC  == {"off", "check", "get", "expired", "commit"}

-----------------------------------------------------------------------------
(* Helpers                                                                   *)

\* Some call that changes the pool has begun and not yet returned.
InFlight == \/ \E t \in Starts : starter[t] # "off"
            \/ \E h \in Hosts : host[h] # "off"

\* The identity t can be given to a new start call: the tasks of the earlier one are gone.
Unused(t) == starter[t] = "off" /\ poller[t] = "off" /\ t \notin supervisor

Goto(t, pc)     == starter' = [starter EXCEPT ![t] = pc]
HostGoto(h, pc) == host' = [host EXCEPT ![h] = pc]
PollGoto(t, pc) == poller' = [poller EXCEPT ![t] = pc]

-----------------------------------------------------------------------------
Init ==
  /\ state = "Idle"
  /\ rpc_child = "none"
  /\ llama_child = "none"
  /\ user_stopped = FALSE
  /\ starter = [t \in Starts |-> "off"]
  /\ host = [h \in Hosts |-> "off"]
  /\ poller = [t \in Starts |-> "off"]
  /\ polls = [t \in Starts |-> 0]
  /\ supervisor = {}
  /\ hostWatch = {}
  /\ serial = TRUE

-----------------------------------------------------------------------------
(* start: the orchestrator role                                              *)

\* First critical section of start.  A start of a Starting or Running pool returns the
\* current state and changes nothing.  Afterwards a missing binary or a failed spawn of
\* rpc-server returns an error ("off") and leaves the state Starting; a plan that
\* lists "local" goes on to keep the rpc-server it spawned, any other skips that.
StartEnter(t) ==
  /\ Unused(t)
  /\ state \notin {"Starting", "Running"}
  /\ user_stopped' = FALSE
  /\ state' = "Starting"
  /\ \E pc \in {"off", "spawnRpc", "toOrch"} : Goto(t, pc)
  /\ serial' = (serial /\ ~InFlight)
  /\ UNCHANGED <<rpc_child, llama_child, host, watchers>>

\* The spawned rpc-server becomes the pool's; a handle it replaces kills its process.
StartSpawnRpc(t) ==
  /\ starter[t] = "spawnRpc"
  /\ rpc_child' = "up"
  /\ state' = "Starting"
  /\ Goto(t, "waitRpc")
  /\ UNCHANGED <<llama_child, user_stopped, host, watchers, serial>>

\* rpc-server did not bind its port within RPC_SERVER_BIND_TIMEOUT.
StartBindTimeout(t) ==
  /\ starter[t] = "waitRpc"
  /\ rpc_child' = "none"
  /\ state' = "Failed"
  /\ Goto(t, "off")
  /\ UNCHANGED <<llama_child, user_stopped, host, watchers, serial>>

\* The port answers, or no local rpc-server is wanted: on to the orchestrator.  Nothing
\* is checked again here, whatever happened to the pool during the wait.
StartToOrchestrator(t) ==
  /\ starter[t] \in {"waitRpc", "toOrch"}
  /\ state' = "Starting"
  /\ Goto(t, "spawnLlama")
  /\ UNCHANGED <<rpc_child, llama_child, user_stopped, host, watchers, serial>>

\* llama-server is spawned and kept; the poller and the supervisor start; start returns.
StartSpawnLlama(t) ==
  /\ starter[t] = "spawnLlama"
  /\ llama_child' = "up"
  /\ state' = "Starting"
  /\ Goto(t, "off")
  /\ PollGoto(t, "check")
  /\ polls' = [polls EXCEPT ![t] = 0]
  /\ supervisor' = supervisor \union {t}
  /\ UNCHANGED <<rpc_child, user_stopped, host, hostWatch, serial>>

\* llama-server cannot be spawned: start returns the error and cleans nothing up.
StartSpawnLlamaFails(t) ==
  /\ starter[t] = "spawnLlama"
  /\ Goto(t, "off")
  /\ UNCHANGED <<inner, host, watchers, serial>>

\* The caller hangs up: the server drops the handler at whatever it awaits, the bind or a
\* lock.  A child it has spawned and not yet handed over dies with it (kill_on_drop).
StartDropped(t) ==
  /\ starter[t] # "off"
  /\ Goto(t, "off")
  /\ serial' = FALSE
  /\ UNCHANGED <<inner, host, watchers>>

-----------------------------------------------------------------------------
(* stop                                                                      *)

StopKeepsRpc ==   \* defect: forgets to take the rpc-server's handle
  /\ llama_child' = "none"
  /\ state' = "Idle"
  /\ user_stopped' = TRUE
  /\ serial' = ~InFlight
  /\ UNCHANGED <<rpc_child, handlers, watchers>>

Stop ==
  /\ llama_child' = "none"
  /\ rpc_child' = "none"
  /\ state' = "Idle"
  /\ user_stopped' = TRUE
  /\ serial' = ~InFlight
  /\ UNCHANGED <<handlers, watchers>>

-----------------------------------------------------------------------------
(* start_as_layer_host: the hosting role                                     *)

\* The check is a critical section of its own: the state may change before the next one.
HostEnter(h) ==
  /\ host[h] = "off" /\ h \notin hostWatch
  /\ state \in {"Idle", "Failed"}
  /\ HostGoto(h, "spawn")
  /\ serial' = (serial /\ ~InFlight)
  /\ UNCHANGED <<inner, starter, watchers>>

HostSpawn(h) ==
  /\ host[h] = "spawn"
  /\ rpc_child' = "up"
  /\ user_stopped' = FALSE
  /\ HostGoto(h, "wait")
  /\ UNCHANGED <<state, llama_child, starter, watchers, serial>>

HostSpawnFails(h) ==
  /\ host[h] = "spawn"
  /\ HostGoto(h, "off")
  /\ UNCHANGED <<inner, starter, watchers, serial>>

HostBindTimeout(h) ==
  /\ host[h] = "wait"
  /\ rpc_child' = "none"
  /\ HostGoto(h, "off")
  /\ UNCHANGED <<state, llama_child, user_stopped, starter, watchers, serial>>

\* The port answers: Hosting, without a second look at the state or at the child.
HostBound(h) ==
  /\ host[h] = "wait"
  /\ state' = "Hosting"
  /\ HostGoto(h, "off")
  /\ hostWatch' = hostWatch \union {h}
  /\ UNCHANGED <<rpc_child, llama_child, user_stopped, starter, poller, polls,
                 supervisor, serial>>

HostDropped(h) ==
  /\ host[h] # "off"
  /\ HostGoto(h, "off")
  /\ serial' = FALSE
  /\ UNCHANGED <<inner, starter, watchers>>

-----------------------------------------------------------------------------
(* spawn_model_load_poller                                                   *)

PollerCheckNoDeadline(t) ==   \* defect: never gives up on the model
  /\ poller[t] = "check"
  /\ PollGoto(t, IF state \in {"Idle", "Failed", "Running"} \/ user_stopped
                 THEN "off" ELSE "get")
  /\ UNCHANGED <<inner, handlers, polls, supervisor, hostWatch, serial>>

PollerCheckIgnoresStop(t) ==   \* defect: does not look whether the pool was stopped
  /\ poller[t] = "check"
  /\ PollGoto(t, IF state \in {"Failed", "Running"} THEN "off"
                 ELSE IF polls[t] = MaxPolls THEN "expired" ELSE "get")
  /\ UNCHANGED <<inner, handlers, polls, supervisor, hostWatch, serial>>

\* Top of the loop: leave if the pool is settled or stopped, else give up or ask again.
PollerCheck(t) ==
  /\ poller[t] = "check"
  /\ PollGoto(t, IF state \in {"Idle", "Failed", "Running"} \/ user_stopped THEN "off"
                 ELSE IF polls[t] = MaxPolls THEN "expired" ELSE "get")
  /\ UNCHANGED <<inner, handlers, polls, supervisor, hostWatch, serial>>

\* MODEL_LOAD_TIMEOUT has passed: kill what the pool holds now and mark it Failed.
PollerExpires(t) ==
  /\ poller[t] = "expired"
  /\ llama_child' = "none"
  /\ rpc_child' = "none"
  /\ state' = "Failed"
  /\ PollGoto(t, "off")
  /\ UNCHANGED <<user_stopped, handlers, polls, supervisor, hostWatch, serial>>

PollerNotReadyUncounted(t) ==   \* defect: the clock restarts with every poll
  /\ poller[t] = "get"
  /\ PollGoto(t, "check")
  /\ UNCHANGED <<inner, handlers, polls, supervisor, hostWatch, serial>>

\* No answer, or not a success: sleep and go round.
PollerNotReady(t) ==
  /\ poller[t] = "get"
  /\ polls' = [polls EXCEPT ![t] = @ + 1]
  /\ PollGoto(t, "check")
  /\ UNCHANGED <<inner, handlers, supervisor, hostWatch, serial>>

\* /v1/models answers: read the plan of a Starting pool and let go of the lock.
PollerReady(t) ==
  /\ poller[t] = "get"
  /\ PollGoto(t, IF state = "Starting" THEN "commit" ELSE "off")
  /\ UNCHANGED <<inner, handlers, polls, supervisor, hostWatch, serial>>

\* The lock is taken anew and the state overwritten, whatever it is by now.
PollerCommit(t) ==
  /\ poller[t] = "commit"
  /\ state' = "Running"
  /\ PollGoto(t, "off")
  /\ UNCHANGED <<rpc_child, llama_child, user_stopped, handlers, polls, supervisor,
                 hostWatch, serial>>

-----------------------------------------------------------------------------
(* spawn_pool_supervisor and spawn_layer_host_supervisor                     *)

SupervisionDoneOnceRunning ==   \* defect: takes the supervisor for a watch over the load
  user_stopped \/ state \in {"Idle", "Failed", "Running"}

SupervisionDone == user_stopped \/ state \in {"Idle", "Failed"}

SupervisorExits(t) ==
  /\ t \in supervisor
  /\ SupervisionDone
  /\ supervisor' = supervisor \ {t}
  /\ UNCHANGED <<inner, handlers, poller, polls, hostWatch, serial>>

SomeChildDeadIfBoth == llama_child = "dead" /\ rpc_child = "dead"   \* defect: needs both

SomeChildDead == llama_child = "dead" \/ rpc_child = "dead"

\* A child has exited: kill the survivor and mark the pool Failed.
SupervisorFails(t) ==
  /\ t \in supervisor
  /\ ~SupervisionDone
  /\ SomeChildDead
  /\ llama_child' = "none"
  /\ rpc_child' = "none"
  /\ state' = "Failed"
  /\ supervisor' = supervisor \ {t}
  /\ UNCHANGED <<user_stopped, handlers, poller, polls, hostWatch, serial>>

HostingDone == state # "Hosting" \/ user_stopped \/ rpc_child = "none"

HostSupervisorExits(h) ==
  /\ h \in hostWatch
  /\ HostingDone
  /\ hostWatch' = hostWatch \ {h}
  /\ UNCHANGED <<inner, handlers, poller, polls, supervisor, serial>>

HostSupervisorFails(h) ==
  /\ h \in hostWatch
  /\ ~HostingDone
  /\ rpc_child = "dead"
  /\ rpc_child' = "none"
  /\ state' = "Failed"
  /\ hostWatch' = hostWatch \ {h}
  /\ UNCHANGED <<llama_child, user_stopped, handlers, poller, polls, supervisor, serial>>

-----------------------------------------------------------------------------
(* The processes themselves                                                  *)

RpcServerExits ==
  /\ rpc_child = "up"
  /\ rpc_child' = "dead"
  /\ UNCHANGED <<state, llama_child, user_stopped, handlers, watchers, serial>>

LlamaServerExits ==
  /\ llama_child = "up"
  /\ llama_child' = "dead"
  /\ UNCHANGED <<state, rpc_child, user_stopped, handlers, watchers, serial>>

-----------------------------------------------------------------------------
StartStep(t) ==
  \/ StartSpawnRpc(t) \/ StartBindTimeout(t) \/ StartToOrchestrator(t)
  \/ StartSpawnLlama(t) \/ StartSpawnLlamaFails(t)

HostStep(h) == HostSpawn(h) \/ HostSpawnFails(h) \/ HostBindTimeout(h) \/ HostBound(h)

PollerStep(t) ==
  \/ PollerCheck(t) \/ PollerExpires(t) \/ PollerNotReady(t)
  \/ PollerReady(t) \/ PollerCommit(t)

SupervisorStep(t)     == SupervisorExits(t) \/ SupervisorFails(t)
HostSupervisorStep(h) == HostSupervisorExits(h) \/ HostSupervisorFails(h)

Next ==
  \/ \E t \in Starts : \/ StartEnter(t) \/ StartStep(t) \/ StartDropped(t)
                       \/ PollerStep(t) \/ SupervisorStep(t)
  \/ \E h \in Hosts : \/ HostEnter(h) \/ HostStep(h) \/ HostDropped(h)
                      \/ HostSupervisorStep(h)
  \/ Stop
  \/ RpcServerExits \/ LlamaServerExits

\* The runtime keeps scheduling every spawned task, and every wait of a handler ends:
\* the bind wait and the poll loop have deadlines.  Nobody has to call, stop or hang up,
\* and no child has to die.
Fairness ==
  /\ \A t \in Starts : WF_vars(StartStep(t)) /\ WF_vars(PollerStep(t))
                       /\ WF_vars(SupervisorStep(t))
  /\ \A h \in Hosts : WF_vars(HostStep(h)) /\ WF_vars(HostSupervisorStep(h))

Spec == Init /\ [][Next]_vars

FairSpec == Spec /\ Fairness

-----------------------------------------------------------------------------
(* Properties                                                                *)

\* Every variable keeps its shape; a poller never polls past its deadline.
TypeOK ==
  /\ state \in PoolStates
  /\ rpc_child \in Child
  /\ llama_child \in Child
  /\ user_stopped \in BOOLEAN
  /\ starter \in [Starts -> StarterPC]
  /\ host \in [Hosts -> HostPC]
  /\ poller \in [Starts -> PollerPC]
  /\ polls \in [Starts -> 0 .. MaxPolls]
  /\ supervisor \subseteq Starts
  /\ hostWatch \subseteq Hosts
  /\ serial \in BOOLEAN

\* "A dying child cancels the pool" needs somebody to see it die.  As long as calls are
\* made one at a time, a pool that owns a llama-server shows it (Starting or Running) and
\* a supervisor that will not give up is watching, whatever the pollers and supervisors
\* left over from earlier pools do.
ServerIsSupervised ==
  serial /\ llama_child # "none" =>
    /\ state \in {"Starting", "Running"}
    /\ ~user_stopped
    /\ supervisor # {}

\* An Idle machine runs no child process, except the rpc-server of a layer-host call that
\* is still waiting for it to bind.
IdleOwnsNothing ==
  serial /\ state = "Idle" =>
    /\ llama_child = "none"
    /\ rpc_child # "none" => \E h \in Hosts : host[h] = "wait"

\* Nothing runs, nobody is calling, and no poller has made up its mind yet; supervisors
\* and pollers of earlier pools may still be about.
Stopped ==
  /\ state = "Idle"
  /\ ~InFlight
  /\ \A t \in Starts : poller[t] \notin {"expired", "commit"}

\* A stopped pool is not revived: only a new start or layer-host call leads out of it,
\* whatever the tasks that the stopped pool left behind go on to do.
StoppedStep == Stopped => Stopped' \/ InFlight' \/ state' = "Starting"

StoppedStaysStopped == [][StoppedStep]_vars

\* Loading a model ends: while a poller is at work the pool does not stay Starting for
\* ever, it gets to Running or Failed, or somebody stops it.
LoadEnds ==
  \A t \in Starts :
    (poller[t] # "off" /\ state = "Starting") ~> (state # "Starting" \/ user_stopped)

\* The death of a llama-server is noticed, and its handle given up, unless calls overlap or
\* are cut off; and so is the death of the rpc-server of a hosting machine.
DeathsAreNoticed ==
  /\ (serial /\ llama_child = "dead") ~> (llama_child # "dead" \/ ~serial)
  /\ (serial /\ state = "Hosting" /\ rpc_child = "dead")
       ~> (state # "Hosting" \/ rpc_child # "dead" \/ ~serial)

\* What the comment at the end of start_as_layer_host says without that condition: "If
\* rpc-server exits unexpectedly, transition to Failed".
HostDeathsAreNoticed ==
  (state = "Hosting" /\ rpc_child = "dead")
    ~> (state # "Hosting" \/ rpc_child # "dead" \/ user_stopped)

\* What the documentation of PoolState::Running says: "Both children up".  A Running
\* pool at least holds the handle of the llama-server it tells the router to use.
RunningHasServer == state = "Running" => llama_child # "none"

\* What the documentation of PoolState::Hosting says: "Runs `rpc-server` on `port`".  Even
\* when calls come one at a time the machine holds the rpc-server that it shows.
HostingHasServer == serial /\ state = "Hosting" => rpc_child # "none"

=============================================================================
