----------------------------- MODULE PoolCluster -----------------------------
(****************************************************************************)
(* VRAM-pool control across machines: the start and stop handlers of        *)
(* unhosted-core/src/lib.rs, the plan of vram_pool.rs and the layer-host    *)
(* handlers of the machines they call.                                      *)
(*                                                                          *)
(* A start asks the remote layer hosts of its plan one after the other,     *)
(* each with a signed HTTP request, and only then starts its own pool; when *)
(* one refuses, or its own pool does, it tells those it has asked to stop.  *)
(* A stop reads the plan, stops its own pool and tells the plan's hosts.    *)
(* Nothing is locked between these steps, and a request whose connection    *)
(* breaks may still be carried out.                                         *)
(*                                                                          *)
(* Abstracted: of each machine's pool (module VramPool) its state, the plan *)
(* or orchestrator in it, and whom its rpc-server works for are kept; a     *)
(* poller of an earlier start (VramPool's races) is left out.  The models,  *)
(* ports and addresses of a plan are left out; "local" is the machine's own *)
(* name.                                                                    *)
(****************************************************************************)
EXTENDS Naturals, Sequences

CONSTANTS
  Machines,
  NoOne,
  Handlers,     \* start and stop handlers that can run together
  HomeOf,       \* the machine each of them runs on
  PeersOf,      \* the registry of each machine: the peers it is paired with
  Requests,     \* bound: the lists of names a user gives in --peers
  Installed,    \* the llama.cpp binaries of each machine: <<where, name>>
  PathHasRpc,   \* machines whose llama-server on PATH was built with RPC
  MaxBroken     \* bound: calls whose connection breaks

ASSUME NoOneIsNoMachine == NoOne \notin Machines
ASSUME HandlersHaveHomes == HomeOf \in [Handlers -> Machines]
\* A machine that is paired with itself calls itself by another name than "local": left out.
ASSUME PeersAreMachines ==
  PeersOf \in [Machines -> SUBSET Machines] /\ \A m \in Machines : m \notin PeersOf[m]
ASSUME InstalledAreBinaries ==
  Installed \in [Machines -> SUBSET ({"tap", "path"} \X {"llama-server", "rpc-server"})]
ASSUME RequestsAreNames == Requests \subseteq Seq(Machines)
ASSUME MaxBrokenIsNat == MaxBroken \in Nat

VARIABLES
  role,      \* tag of each machine's PoolState
  plan,      \* layer hosts of the plan in it, while it is Starting or Running
  rpc,       \* the machine each machine's rpc-server works for
  handler,   \* what each start or stop handler has got to
  calls,     \* requests to layer hosts that are not answered for good
  broken,    \* connections broken so far
  strayed,   \* history: orchestrators whose calls overlapped or broke, or whose pool failed
  crossed    \* history: machines that have been in two roles, or claimed by two, at a time

pools == <<role, plan, rpc>>
clusterVars  == <<pools, handler, calls, broken, strayed, crossed>>

\* Starting and Running are one: no handler here tells them apart.
Roles == {"Idle", "Active", "Failed", "Hosting"}

HostList == Seq(Machines)

\* started is what a rollback will undo; todo the hosts still to be asked or told.
Handler == [pc : {"off", "ask", "asking", "spawn", "stop", "tell", "telling"},
            plan : HostList, todo : HostList, started : HostList]

Off == [pc |-> "off", plan |-> << >>, todo |-> << >>, started |-> << >>]

\* A request; live while its handler waits for the answer.
Call == [kind : {"start", "stop"}, by : Handlers, to : Machines,
         at : {"sent", "spawn", "bind", "accepted", "refused"}, live : BOOLEAN]

ClusterTypeOK ==
  /\ role \in [Machines -> Roles]
  /\ plan \in [Machines -> HostList]
  /\ rpc \in [Machines -> Machines \union {NoOne}]
  /\ handler \in [Handlers -> Handler]
  /\ calls \subseteq Call
  /\ broken \in 0 .. MaxBroken
  /\ strayed \subseteq Machines /\ crossed \subseteq Machines

-----------------------------------------------------------------------------
(* probe() and plan()                                                        *)

\* The tap's build is preferred to the one on PATH.
Resolve(m, name) == IF <<"tap", name>> \in Installed[m] THEN "tap"
                    ELSE IF <<"path", name>> \in Installed[m] THEN "path" ELSE "none"

\* A tap build has RPC; another is asked for its --help.
RpcFlag(m) == \/ Resolve(m, "llama-server") = "tap"
              \/ Resolve(m, "llama-server") = "path" /\ m \in PathHasRpc

Ready(m) == Resolve(m, "rpc-server") # "none" /\ RpcFlag(m)

Elements(s) == {s[i] : i \in DOMAIN s}

\* The CLI looks the names up in the registry, and takes each peer it finds to be capable.
Candidates(m, requested) == Elements(requested) \intersect PeersOf[m]

\* plan() refuses a name that was not found; without names this machine must do alone.
CanPlan(m, requested) ==
  IF requested = << >> THEN Ready(m) ELSE Elements(requested) \subseteq Candidates(m, requested)

MakePlan(m, requested) == IF requested = << >> THEN << m >> ELSE requested

\* The hosts that are not "local": a plan is of this machine alone, or of peers.
Remote(m, hosts) == IF hosts = << m >> THEN << >> ELSE hosts

-----------------------------------------------------------------------------
ClusterInit ==
  /\ role = [m \in Machines |-> "Idle"]
  /\ plan = [m \in Machines |-> << >>]
  /\ rpc = [m \in Machines |-> NoOne]
  /\ handler = [x \in Handlers |-> Off]
  /\ calls = {}
  /\ broken = 0
  /\ strayed = {} /\ crossed = {}

Become(m, r, p) == role' = [role EXCEPT ![m] = r] /\ plan' = [plan EXCEPT ![m] = p]

Serve(m, o) == rpc' = [rpc EXCEPT ![m] = o]

Update(x, h) == handler' = [handler EXCEPT ![x] = h]

HandlerGoto(x, pc) == Update(x, [handler[x] EXCEPT !.pc = pc])

At(x, pc) == handler[x].pc = pc

Busy(m) == \E x \in Handlers : HomeOf[x] = m /\ ~At(x, "off")

Orchestrates(m) == Busy(m) \/ role[m] = "Active"

\* Bound: a machine of which the properties no longer speak gets no further calls.
Trusted(m) == m \notin strayed \union crossed

\* Tell these hosts to stop.
Undo(x, hosts) == Update(x, [Off EXCEPT !.pc = "tell", !.todo = hosts])

-----------------------------------------------------------------------------
(* vram_pool_start_handler                                                   *)

\* The handler takes the remote hosts from the plan it is sent.
Begin(x, p) ==
  /\ At(x, "off")
  /\ Update(x, [Off EXCEPT !.pc = "ask", !.plan = p, !.todo = Remote(HomeOf[x], p)])
  /\ strayed' = IF Orchestrates(HomeOf[x]) THEN strayed \union {HomeOf[x]} ELSE strayed
  /\ UNCHANGED <<pools, calls, broken>>

\* `unhosted vram-pool start`: a bad request fails before it is sent.
Start(x, requested) ==
  LET m == HomeOf[x] IN
    /\ Trusted(m) /\ CanPlan(m, requested)
    /\ Begin(x, MakePlan(m, requested))

\* ask_peer_to_host: sent to the peer if the registry still has it.
Ask(x) ==
  /\ At(x, "ask") /\ handler[x].todo # << >>
  /\ calls' = calls \union {[kind |-> "start", by |-> x, to |-> Head(handler[x].todo),
                             at |-> "sent", live |-> TRUE]}
  /\ HandlerGoto(x, "asking")
  /\ UNCHANGED <<pools, broken, strayed>>

Answer(x, at) == \E c \in calls : /\ c.by = x /\ c.live /\ c.at = at
                                  /\ calls' = calls \ {c}

Accepted(x) ==
  /\ At(x, "asking") /\ Answer(x, "accepted")
  /\ Update(x, [handler[x] EXCEPT !.pc = "ask", !.todo = Tail(@),
                                  !.started = Append(@, Head(handler[x].todo))])
  /\ UNCHANGED <<pools, broken, strayed>>

RefusedKeepsHosts(x) ==   \* defect: a refusal is returned without the rollback
  /\ At(x, "asking") /\ Answer(x, "refused")
  /\ Update(x, Off)
  /\ UNCHANGED <<pools, broken, strayed>>

RefusedAsksAgain(x) ==   \* defect: a refusal is taken for "not yet"
  /\ At(x, "asking") /\ Answer(x, "refused")
  /\ HandlerGoto(x, "ask")
  /\ UNCHANGED <<pools, broken, strayed>>

RefusedTellsAll(x) ==   \* defect: the rollback takes the hosts from the plan
  /\ At(x, "asking") /\ Answer(x, "refused")
  /\ Undo(x, Remote(HomeOf[x], handler[x].plan))
  /\ UNCHANGED <<pools, broken, strayed>>

\* One host says no: those before it are told to stop.
Refused(x) ==
  /\ At(x, "asking") /\ Answer(x, "refused")
  /\ Undo(x, handler[x].started)
  /\ UNCHANGED <<pools, broken, strayed>>

\* All hosts serve: PoolManager::start.  A pool that is active already is left as it is, and
\* the call succeeds.
StartLocal(x) ==
  LET m == HomeOf[x] IN
  /\ At(x, "ask") /\ handler[x].todo = << >>
  /\ IF role[m] = "Active"
     THEN Update(x, Off) /\ UNCHANGED pools
     ELSE /\ Become(m, "Active", handler[x].plan)
          /\ HandlerGoto(x, "spawn")
          /\ UNCHANGED rpc
  /\ UNCHANGED <<calls, broken, strayed>>

\* The children are up; the state is written whatever became of it meanwhile.
LocalStarted(x) ==
  LET m == HomeOf[x] IN
  /\ At(x, "spawn") /\ Resolve(m, "llama-server") # "none"
  /\ Become(m, "Active", handler[x].plan)
  /\ IF m \in Elements(handler[x].plan) THEN Serve(m, m) ELSE UNCHANGED rpc
  /\ Update(x, Off)
  /\ UNCHANGED <<calls, broken, strayed>>

\* There is no llama-server, or a child cannot be spawned, and the state stays Starting; or
\* the local rpc-server does not bind.
LocalFails(x) ==
  LET m == HomeOf[x] IN
  /\ At(x, "spawn")
  /\ \/ UNCHANGED pools /\ strayed' = strayed \union {m}
     \/ /\ m \in Elements(handler[x].plan)
        /\ Become(m, "Failed", << >>) /\ Serve(m, NoOne)
        /\ UNCHANGED strayed
  /\ Undo(x, handler[x].started)
  /\ UNCHANGED <<calls, broken>>

-----------------------------------------------------------------------------
(* vram_pool_stop_handler, and the telling it shares with the rollback       *)

\* The hosts are those of the plan as it is before the stop.
StopPlan(x) ==
  LET m == HomeOf[x] IN
  /\ At(x, "off") /\ Trusted(m)
  /\ Update(x, [Off EXCEPT !.pc = "stop",
                  !.todo = IF role[m] = "Active"
                           THEN Remote(m, plan[m]) ELSE << >>])
  /\ strayed' = IF Busy(m) THEN strayed \union {m} ELSE strayed
  /\ UNCHANGED <<pools, calls, broken>>

StopLocal(x) ==
  LET m == HomeOf[x] IN
  /\ At(x, "stop")
  /\ Become(m, "Idle", << >>) /\ Serve(m, NoOne)
  /\ HandlerGoto(x, "tell")
  /\ UNCHANGED <<calls, broken, strayed>>

Tell(x) ==
  /\ At(x, "tell") /\ handler[x].todo # << >>
  /\ calls' = calls \union {[kind |-> "stop", by |-> x, to |-> Head(handler[x].todo),
                             at |-> "sent", live |-> TRUE]}
  /\ HandlerGoto(x, "telling")
  /\ UNCHANGED <<pools, broken, strayed>>

\* Whatever the host answers, the next one is told.
Told(x) ==
  /\ At(x, "telling")
  /\ Answer(x, "accepted") \/ Answer(x, "refused")
  /\ Update(x, [handler[x] EXCEPT !.pc = "tell", !.todo = Tail(@)])
  /\ UNCHANGED <<pools, broken, strayed>>

ToldAll(x) ==
  /\ At(x, "tell") /\ handler[x].todo = << >>
  /\ Update(x, Off)
  /\ UNCHANGED <<pools, calls, broken, strayed>>

-----------------------------------------------------------------------------
(* The layer-host handlers, on the machine that is called                    *)

Advance(c, at) == calls' = (calls \ {c}) \union {[c EXCEPT !.at = at]}

OrchestratorOf(c) == HomeOf[c.by]

\* The signature must be that of a paired peer.
FromPeer(c) == OrchestratorOf(c) \in PeersOf[c.to]

LayerHostEnter(c) ==
  /\ c \in calls /\ c.kind = "start" /\ c.at = "sent"
  /\ Advance(c, IF /\ FromPeer(c) /\ role[c.to] \in {"Idle", "Failed"}
                   /\ Resolve(c.to, "rpc-server") # "none"
                THEN "spawn" ELSE "refused")
  /\ UNCHANGED <<pools, handler, broken, strayed>>

\* The child replaces, and so kills, the one the machine had.
LayerHostSpawn(c) ==
  /\ c \in calls /\ c.at = "spawn"
  /\ Advance(c, "bind")
  /\ Serve(c.to, OrchestratorOf(c))
  /\ UNCHANGED <<role, plan, handler, broken, strayed>>

LayerHostSpawnFails(c) ==
  /\ c \in calls /\ c.at = "spawn"
  /\ Advance(c, "refused")
  /\ UNCHANGED <<pools, handler, broken, strayed>>

LayerHostBound(c) ==
  /\ c \in calls /\ c.at = "bind"
  /\ Advance(c, "accepted")
  /\ Become(c.to, "Hosting", << >>)
  /\ UNCHANGED <<rpc, handler, broken, strayed>>

LayerHostBindTimeout(c) ==
  /\ c \in calls /\ c.at = "bind"
  /\ Advance(c, "refused")
  /\ Serve(c.to, NoOne)
  /\ UNCHANGED <<role, plan, handler, broken, strayed>>

\* A stop of a paired peer stops whatever the machine's pool is doing.
LayerHostStop(c) ==
  /\ c \in calls /\ c.kind = "stop" /\ c.at = "sent"
  /\ IF FromPeer(c)
     THEN Advance(c, "accepted") /\ Become(c.to, "Idle", << >>) /\ Serve(c.to, NoOne)
     ELSE Advance(c, "refused") /\ UNCHANGED pools
  /\ UNCHANGED <<handler, broken, strayed>>

-----------------------------------------------------------------------------
(* What happens by itself                                                    *)

\* The model does not load in time, or a child of the pool dies: the plan is gone.
PoolFails(m) ==
  /\ role[m] = "Active" /\ ~Busy(m)
  /\ Become(m, "Failed", << >>) /\ Serve(m, NoOne)
  /\ strayed' = strayed \union {m}
  /\ UNCHANGED <<handler, calls, broken>>

HostingFails(m) ==
  /\ role[m] = "Hosting"
  /\ Become(m, "Failed", << >>) /\ Serve(m, NoOne)
  /\ UNCHANGED <<handler, calls, broken, strayed>>

\* The connection of a call breaks before its answer is read.  The request may be lost with
\* it, or be carried out without anybody waiting.
Break(x, lost) ==
  \E c \in calls :
    /\ c.by = x /\ c.live
    /\ calls' = (calls \ {c}) \union
                  (IF lost \/ c.at \in {"accepted", "refused"} THEN {}
                   ELSE {[c EXCEPT !.live = FALSE]})
    /\ strayed' = strayed \union {HomeOf[x]}

AskBreaks(x) ==
  /\ At(x, "asking") /\ broken < MaxBroken
  /\ \E lost \in BOOLEAN : Break(x, lost)
  /\ broken' = broken + 1
  /\ Undo(x, handler[x].started)
  /\ UNCHANGED pools

TellBreaks(x) ==
  /\ At(x, "telling") /\ broken < MaxBroken
  /\ \E lost \in BOOLEAN : Break(x, lost)
  /\ broken' = broken + 1
  /\ Update(x, [handler[x] EXCEPT !.pc = "tell", !.todo = Tail(@)])
  /\ UNCHANGED pools

\* The user's client hangs up, and the handler is dropped where it waits.
HangUp(x) ==
  /\ ~At(x, "off") /\ broken < MaxBroken
  /\ IF \E c \in calls : c.by = x /\ c.live
     THEN \E lost \in BOOLEAN : Break(x, lost)
     ELSE strayed' = strayed \union {HomeOf[x]} /\ UNCHANGED calls
  /\ broken' = broken + 1
  /\ Update(x, Off)
  /\ UNCHANGED pools

\* A request nobody waits for is over once it is answered, or when the host's server
\* notices the hang-up and drops its handler.
Forgotten(c) ==
  /\ c \in calls /\ ~c.live
  /\ calls' = calls \ {c}
  /\ UNCHANGED <<pools, handler, broken, strayed>>

-----------------------------------------------------------------------------
HandlerStep(x) ==
  \/ Ask(x) \/ Accepted(x) \/ Refused(x)
  \/ StartLocal(x) \/ LocalStarted(x) \/ LocalFails(x)
  \/ StopLocal(x) \/ Tell(x) \/ Told(x) \/ ToldAll(x)

LayerHostStep(c) == \/ LayerHostEnter(c) \/ LayerHostSpawn(c) \/ LayerHostSpawnFails(c)
               \/ LayerHostBound(c) \/ LayerHostBindTimeout(c) \/ LayerHostStop(c)

Step ==
  \/ \E x \in Handlers : \/ \E requested \in Requests : Start(x, requested)
                         \/ StopPlan(x) \/ HandlerStep(x)
                         \/ AskBreaks(x) \/ TellBreaks(x) \/ HangUp(x)
  \/ \E c \in calls : LayerHostStep(c) \/ Forgotten(c)
  \/ \E m \in Machines : PoolFails(m) \/ HostingFails(m)

\* The orchestrators h works for, or is counted on by, or will be stopped by too late: a stop
\* or rollback still has h to tell, though another handler or a broken call came between.
Claims(h) ==
  {o \in Machines \ {h} :
     \/ rpc[h] = o
     \/ role[o] = "Active" /\ h \in Elements(plan[o])
     \/ \E x \in Handlers :
          /\ HomeOf[x] = o
          /\ \/ h \in Elements(handler[x].started)
             \/ /\ o \in strayed /\ handler[x].pc \in {"stop", "tell", "telling"}
                /\ h \in Elements(handler[x].todo)
     \/ \E c \in calls : /\ c.to = h /\ OrchestratorOf(c) = o
                         /\ IF c.kind = "stop" THEN o \in strayed /\ c.at = "sent"
                            ELSE c.at \in {"spawn", "bind", "accepted"}}

Crossing(m) == \/ Claims(m) # {} /\ Orchestrates(m)
               \/ \E o, p \in Claims(m) : o # p

Watch ==
  crossed' = crossed \union {m \in Machines : Crossing(m)'}
                     \union {m \in Machines : role[m] = "Hosting" /\ role'[m] = "Failed"}

ClusterNext == Step /\ Watch

ClusterSpec == ClusterInit /\ [][ClusterNext]_clusterVars

\* Handlers go on whenever they can.  A machine that is called need not answer: the client
\* that calls it has no time limit, and a connection that is kept alive does not break.
ClusterFairness == \A x \in Handlers : WF_clusterVars(HandlerStep(x) /\ Watch)

ClusterFairSpec == ClusterSpec /\ ClusterFairness

-----------------------------------------------------------------------------
(* Properties                                                                *)

\* What the orchestrator will still tell to stop: the hosts of its active pool, and those a
\* handler of its own has asked, is asking or has to tell.
Answerable(o) ==
  (IF role[o] = "Active" THEN Elements(plan[o]) ELSE {})
    \union UNION {Elements(handler[x].started) \union Elements(handler[x].todo) :
                    x \in {y \in Handlers : HomeOf[y] = o}}

\* No machine hosts for nobody: the orchestrator an rpc-server works for still knows of it.
\* (Until a connection breaks, a client hangs up, the orchestrator's calls overlap or its
\* pool fails by itself.)
NoOrphanedHost ==
  \A h \in Machines :
    rpc[h] \notin {NoOne, h} /\ rpc[h] \notin strayed \union crossed => h \in Answerable(rpc[h])

\* A step that stops what a machine does for somebody else than the caller.
StopStep ==
  \A h \in Machines :
    (\E c \in calls : /\ LayerHostStop(c) /\ c.to = h /\ OrchestratorOf(c) \notin strayed
                     /\ rpc[h] \notin {NoOne, OrchestratorOf(c)})
      => h \in crossed

\* The rollback or stop of one orchestrator does not end what a machine does for another.
\* (Until something else has ended or overlapped what the machine did.)
StopsHitTheirOwn == [][StopStep]_clusterVars

\* "Orchestrator and layer-host roles can't coexist on one machine", says the comment above
\* start_as_layer_host.
RolesDoNotCoexist == \A m \in Machines : role[m] = "Active" => rpc[m] \in {NoOne, m}

\* The handler waits for a layer host that has its request and has not answered it.
WaitsForHost(x) == \E c \in calls : c.by = x /\ c.live /\ c.at \notin {"accepted", "refused"}

\* A start or stop of the user ends, whichever machines call each other at the same time, or
\* else waits for ever for one host that never answers: nothing else holds it up.
HandlersEnd == \A x \in Handlers : ~At(x, "off") ~> (At(x, "off") \/ []WaitsForHost(x))
=============================================================================
