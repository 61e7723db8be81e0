----------------------------- MODULE PoolsProofs -----------------------------
(****************************************************************************)
(* Theorems about VramPool, the pool of one machine, and about PoolCluster, *)
(* where several machines start and stop each other's layer hosts: for any  *)
(* sets of calls and any number of polls, and for any machines, handlers,   *)
(* pairings and lists of hosts.  The two share no state.                    *)
(****************************************************************************)
EXTENDS VramPool, PoolCluster, TLAPS

-----------------------------------------------------------------------------
(* VramPool                                                                  *)

\* A poller that is about to ask has a poll left.
PollLeft == \A t \in Starts : poller[t] = "get" => polls[t] < MaxPolls

\* Type correctness, with what makes the poll counter stay in its range.
TypeInv == TypeOK /\ PollLeft

\* The variables have their types at boot.
LEMMA TypeInvInit == Init => TypeInv
<1> SUFFICES ASSUME Init
             PROVE  TypeInv
  OBVIOUS
<1>1. user_stopped \in BOOLEAN /\ serial \in BOOLEAN
  BY Zenon DEF Init
<1>2. /\ state \in PoolStates /\ rpc_child \in Child /\ llama_child \in Child
      /\ starter \in [Starts -> StarterPC] /\ host \in [Hosts -> HostPC]
      /\ poller \in [Starts -> PollerPC] /\ supervisor \subseteq Starts
      /\ hostWatch \subseteq Hosts
  BY DEF Init, PoolStates, Child, StarterPC, HostPC, PollerPC
<1>3. polls \in [Starts -> 0 .. MaxPolls]
  BY MaxPollsIsNat DEF Init
<1>4. PollLeft
  BY DEF Init, PollLeft
<1>5. QED
  BY <1>1, <1>2, <1>3, <1>4 DEF TypeInv, TypeOK

\* Every critical section of the manager and of its tasks keeps the types.
LEMMA TypeInvStep == TypeInv /\ [Next]_vars => TypeInv'
<1> SUFFICES ASSUME TypeInv, [Next]_vars
             PROVE  TypeInv'
  OBVIOUS
<1> USE MaxPollsIsNat DEF TypeInv, TypeOK, PollLeft, PoolStates, Child, StarterPC, HostPC, PollerPC
<1>1. ASSUME NEW t \in Starts, StartEnter(t)
         PROVE  TypeInv'
  BY ZenonT(60), <1>1 DEF StartEnter, inner, handlers, watchers, Goto, Unused, InFlight
<1>2. ASSUME NEW t \in Starts, StartSpawnRpc(t)
         PROVE  TypeInv'
  BY <1>2 DEF StartSpawnRpc, inner, handlers, watchers, Goto
<1>3. ASSUME NEW t \in Starts, StartBindTimeout(t)
         PROVE  TypeInv'
  BY <1>3 DEF StartBindTimeout, inner, handlers, watchers, Goto
<1>4. ASSUME NEW t \in Starts, StartToOrchestrator(t)
         PROVE  TypeInv'
  BY <1>4 DEF StartToOrchestrator, inner, handlers, watchers, Goto
<1>5. ASSUME NEW t \in Starts, StartSpawnLlama(t)
         PROVE  TypeInv'
  BY <1>5 DEF StartSpawnLlama, inner, handlers, watchers, Goto, PollGoto
<1>6. ASSUME NEW t \in Starts, StartSpawnLlamaFails(t)
         PROVE  TypeInv'
  BY <1>6 DEF StartSpawnLlamaFails, inner, handlers, watchers, Goto
<1>7. ASSUME NEW t \in Starts, StartDropped(t)
         PROVE  TypeInv'
  BY <1>7 DEF StartDropped, inner, handlers, watchers, Goto
<1>8. ASSUME Stop
         PROVE  TypeInv'
  BY <1>8 DEF Stop, inner, handlers, watchers, InFlight
<1>9. ASSUME NEW h \in Hosts, HostEnter(h)
         PROVE  TypeInv'
  BY <1>9 DEF HostEnter, inner, handlers, watchers, HostGoto, InFlight
<1>10. ASSUME NEW h \in Hosts, HostSpawn(h)
         PROVE  TypeInv'
  BY <1>10 DEF HostSpawn, inner, handlers, watchers, HostGoto
<1>11. ASSUME NEW h \in Hosts, HostSpawnFails(h)
         PROVE  TypeInv'
  BY <1>11 DEF HostSpawnFails, inner, handlers, watchers, HostGoto
<1>12. ASSUME NEW h \in Hosts, HostBindTimeout(h)
         PROVE  TypeInv'
  BY <1>12 DEF HostBindTimeout, inner, handlers, watchers, HostGoto
<1>13. ASSUME NEW h \in Hosts, HostBound(h)
         PROVE  TypeInv'
  BY <1>13 DEF HostBound, inner, handlers, watchers, HostGoto
<1>14. ASSUME NEW h \in Hosts, HostDropped(h)
         PROVE  TypeInv'
  BY <1>14 DEF HostDropped, inner, handlers, watchers, HostGoto
<1>15. ASSUME NEW t \in Starts, PollerCheck(t)
         PROVE  TypeInv'
  BY <1>15 DEF PollerCheck, inner, handlers, watchers, PollGoto
<1>16. ASSUME NEW t \in Starts, PollerExpires(t)
         PROVE  TypeInv'
  BY <1>16 DEF PollerExpires, inner, handlers, watchers, PollGoto
<1>17. ASSUME NEW t \in Starts, PollerNotReady(t)
         PROVE  TypeInv'
  BY <1>17 DEF PollerNotReady, inner, handlers, watchers, PollGoto
<1>18. ASSUME NEW t \in Starts, PollerReady(t)
         PROVE  TypeInv'
  BY <1>18 DEF PollerReady, inner, handlers, watchers, PollGoto
<1>19. ASSUME NEW t \in Starts, PollerCommit(t)
         PROVE  TypeInv'
  BY <1>19 DEF PollerCommit, inner, handlers, watchers, PollGoto
<1>20. ASSUME NEW t \in Starts, SupervisorExits(t)
         PROVE  TypeInv'
  BY <1>20 DEF SupervisorExits, inner, handlers, watchers, SupervisionDone
<1>21. ASSUME NEW t \in Starts, SupervisorFails(t)
         PROVE  TypeInv'
  BY <1>21 DEF SupervisorFails, inner, handlers, watchers, SupervisionDone, SomeChildDead
<1>22. ASSUME NEW h \in Hosts, HostSupervisorExits(h)
         PROVE  TypeInv'
  BY <1>22 DEF HostSupervisorExits, inner, handlers, watchers, HostingDone
<1>23. ASSUME NEW h \in Hosts, HostSupervisorFails(h)
         PROVE  TypeInv'
  BY <1>23 DEF HostSupervisorFails, inner, handlers, watchers, HostingDone
<1>24. ASSUME RpcServerExits
         PROVE  TypeInv'
  BY <1>24 DEF RpcServerExits, inner, handlers, watchers
<1>25. ASSUME LlamaServerExits
         PROVE  TypeInv'
  BY <1>25 DEF LlamaServerExits, inner, handlers, watchers
<1>26. CASE UNCHANGED vars
  BY <1>26 DEF vars, inner, handlers, watchers
<1>27. QED
  BY <1>1, <1>2, <1>3, <1>4, <1>5, <1>6, <1>7, <1>8, <1>9,
     <1>10, <1>11, <1>12, <1>13, <1>14, <1>15, <1>16, <1>17, <1>18,
     <1>19, <1>20, <1>21, <1>22, <1>23, <1>24, <1>25, <1>26
  DEF Next, StartStep, HostStep, PollerStep, SupervisorStep, HostSupervisorStep

\* The variables have their types (and a poller keeps to its deadline), in every state.
THEOREM TypeCorrect == Spec => []TypeOK
<1>1. TypeInv => TypeOK
  BY DEF TypeInv
<1>2. QED
  BY TypeInvInit, TypeInvStep, <1>1, PTL DEF Spec

-----------------------------------------------------------------------------
(* One call at a time                                                        *)

\* No two calls are in progress.
OneCall ==
  /\ \A t, u \in Starts : starter[t] # "off" /\ starter[u] # "off" => t = u
  /\ \A g, h \in Hosts : host[g] # "off" /\ host[h] # "off" => g = h
  /\ \A t \in Starts, h \in Hosts : starter[t] = "off" \/ host[h] = "off"

\* A call in progress finds no llama-server left over, and a start has not been stopped.
CleanSlate ==
  /\ \A t \in Starts : starter[t] # "off" => llama_child = "none" /\ ~user_stopped
  /\ \A h \in Hosts : host[h] # "off" => llama_child = "none"

\* ServerIsSupervised alone is not inductive: that a start's llama-server gets the pool
\* to itself rests on what holds while the call is still on its way.
SerialInv == serial => OneCall /\ CleanSlate

PoolInv == TypeInv /\ SerialInv /\ ServerIsSupervised /\ IdleOwnsNothing

\* The inductive invariant holds at boot: the pool is idle and owns nothing.
LEMMA PoolInvInit == Init => PoolInv
<1> SUFFICES ASSUME Init
             PROVE  PoolInv
  OBVIOUS
<1>1. TypeInv
  BY TypeInvInit
<1>2. OneCall /\ CleanSlate
  BY DEF Init, OneCall, CleanSlate
<1>3. ServerIsSupervised /\ IdleOwnsNothing
  BY DEF Init, ServerIsSupervised, IdleOwnsNothing
<1>4. QED
  BY <1>1, <1>2, <1>3 DEF PoolInv, SerialInv

\* While calls come one at a time, no step starts a second one beside a call that is on its
\* way, and a call on its way keeps the clean slate it found.
LEMMA SerialInvStep ==
  TypeInv /\ SerialInv /\ ServerIsSupervised /\ [Next]_vars => SerialInv'
<1> SUFFICES ASSUME TypeOK, SerialInv, ServerIsSupervised, [Next]_vars
             PROVE  SerialInv'
  BY DEF TypeInv
<1> USE DEF SerialInv, OneCall, CleanSlate, ServerIsSupervised
<1>1. ASSUME NEW t \in Starts, StartEnter(t)
         PROVE  SerialInv'
  BY <1>1 DEF StartEnter, inner, handlers, watchers, Goto, Unused, InFlight, TypeOK
<1>2. ASSUME NEW t \in Starts, StartSpawnRpc(t)
         PROVE  SerialInv'
  BY <1>2 DEF StartSpawnRpc, inner, handlers, watchers, Goto, TypeOK
<1>3. ASSUME NEW t \in Starts, StartBindTimeout(t)
         PROVE  SerialInv'
  BY <1>3 DEF StartBindTimeout, inner, handlers, watchers, Goto, TypeOK
<1>4. ASSUME NEW t \in Starts, StartToOrchestrator(t)
         PROVE  SerialInv'
  BY <1>4 DEF StartToOrchestrator, inner, handlers, watchers, Goto, TypeOK
<1>5. ASSUME NEW t \in Starts, StartSpawnLlama(t)
         PROVE  SerialInv'
  BY <1>5 DEF StartSpawnLlama, inner, handlers, watchers, Goto, PollGoto, TypeOK
<1>6. ASSUME NEW t \in Starts, StartSpawnLlamaFails(t)
         PROVE  SerialInv'
  BY <1>6 DEF StartSpawnLlamaFails, inner, handlers, watchers, Goto, TypeOK
<1>7. ASSUME NEW t \in Starts, StartDropped(t)
         PROVE  SerialInv'
  BY <1>7 DEF StartDropped, inner, handlers, watchers, Goto, TypeOK
<1>8. ASSUME Stop
         PROVE  SerialInv'
  BY <1>8 DEF Stop, inner, handlers, watchers, InFlight, TypeOK
<1>9. ASSUME NEW h \in Hosts, HostEnter(h)
         PROVE  SerialInv'
  BY <1>9 DEF HostEnter, inner, handlers, watchers, HostGoto, InFlight, TypeOK
<1>10. ASSUME NEW h \in Hosts, HostSpawn(h)
         PROVE  SerialInv'
  BY <1>10 DEF HostSpawn, inner, handlers, watchers, HostGoto, TypeOK
<1>11. ASSUME NEW h \in Hosts, HostSpawnFails(h)
         PROVE  SerialInv'
  BY <1>11 DEF HostSpawnFails, inner, handlers, watchers, HostGoto, TypeOK
<1>12. ASSUME NEW h \in Hosts, HostBindTimeout(h)
         PROVE  SerialInv'
  BY <1>12 DEF HostBindTimeout, inner, handlers, watchers, HostGoto, TypeOK
<1>13. ASSUME NEW h \in Hosts, HostBound(h)
         PROVE  SerialInv'
  BY <1>13 DEF HostBound, inner, handlers, watchers, HostGoto, TypeOK
<1>14. ASSUME NEW h \in Hosts, HostDropped(h)
         PROVE  SerialInv'
  BY <1>14 DEF HostDropped, inner, handlers, watchers, HostGoto, TypeOK
<1>15. ASSUME NEW t \in Starts, PollerCheck(t)
         PROVE  SerialInv'
  BY <1>15 DEF PollerCheck, inner, handlers, watchers, PollGoto, TypeOK
<1>16. ASSUME NEW t \in Starts, PollerExpires(t)
         PROVE  SerialInv'
  BY <1>16 DEF PollerExpires, inner, handlers, watchers, PollGoto, TypeOK
<1>17. ASSUME NEW t \in Starts, PollerNotReady(t)
         PROVE  SerialInv'
  BY <1>17 DEF PollerNotReady, inner, handlers, watchers, PollGoto, TypeOK
<1>18. ASSUME NEW t \in Starts, PollerReady(t)
         PROVE  SerialInv'
  BY <1>18 DEF PollerReady, inner, handlers, watchers, PollGoto, TypeOK
<1>19. ASSUME NEW t \in Starts, PollerCommit(t)
         PROVE  SerialInv'
  BY <1>19 DEF PollerCommit, inner, handlers, watchers, PollGoto, TypeOK
<1>20. ASSUME NEW t \in Starts, SupervisorExits(t)
         PROVE  SerialInv'
  BY <1>20 DEF SupervisorExits, inner, handlers, watchers, SupervisionDone, TypeOK
<1>21. ASSUME NEW t \in Starts, SupervisorFails(t)
         PROVE  SerialInv'
  BY <1>21 DEF SupervisorFails, inner, handlers, watchers, SupervisionDone, SomeChildDead, TypeOK
<1>22. ASSUME NEW h \in Hosts, HostSupervisorExits(h)
         PROVE  SerialInv'
  BY <1>22 DEF HostSupervisorExits, inner, handlers, watchers, HostingDone, TypeOK
<1>23. ASSUME NEW h \in Hosts, HostSupervisorFails(h)
         PROVE  SerialInv'
  BY <1>23 DEF HostSupervisorFails, inner, handlers, watchers, HostingDone, TypeOK
<1>24. ASSUME RpcServerExits
         PROVE  SerialInv'
  BY <1>24 DEF RpcServerExits, inner, handlers, watchers, TypeOK
<1>25. ASSUME LlamaServerExits
         PROVE  SerialInv'
  BY <1>25 DEF LlamaServerExits, inner, handlers, watchers, TypeOK
<1>26. CASE UNCHANGED vars
  BY <1>26 DEF vars, inner, handlers, watchers, TypeOK
<1>27. QED
  BY <1>1, <1>2, <1>3, <1>4, <1>5, <1>6, <1>7, <1>8, <1>9,
     <1>10, <1>11, <1>12, <1>13, <1>14, <1>15, <1>16, <1>17, <1>18,
     <1>19, <1>20, <1>21, <1>22, <1>23, <1>24, <1>25, <1>26
  DEF Next, StartStep, HostStep, PollerStep, SupervisorStep, HostSupervisorStep

\* No step leaves the llama-server the pool owns hidden or unwatched while calls are serial.
LEMMA ServerIsSupervisedStep ==
  TypeInv /\ SerialInv /\ ServerIsSupervised /\ [Next]_vars => ServerIsSupervised'
<1> SUFFICES ASSUME TypeOK, SerialInv, ServerIsSupervised, [Next]_vars
             PROVE  ServerIsSupervised'
  BY DEF TypeInv
<1> USE DEF SerialInv, OneCall, CleanSlate, ServerIsSupervised
<1>1. ASSUME NEW t \in Starts, StartEnter(t)
         PROVE  ServerIsSupervised'
  BY <1>1 DEF StartEnter, inner, handlers, watchers, Goto, Unused, InFlight, TypeOK
<1>2. ASSUME NEW t \in Starts, StartSpawnRpc(t)
         PROVE  ServerIsSupervised'
  BY <1>2 DEF StartSpawnRpc, inner, handlers, watchers, Goto, TypeOK
<1>3. ASSUME NEW t \in Starts, StartBindTimeout(t)
         PROVE  ServerIsSupervised'
  BY <1>3 DEF StartBindTimeout, inner, handlers, watchers, Goto, TypeOK
<1>4. ASSUME NEW t \in Starts, StartToOrchestrator(t)
         PROVE  ServerIsSupervised'
  BY <1>4 DEF StartToOrchestrator, inner, handlers, watchers, Goto, TypeOK
<1>5. ASSUME NEW t \in Starts, StartSpawnLlama(t)
         PROVE  ServerIsSupervised'
  BY <1>5 DEF StartSpawnLlama, inner, handlers, watchers, Goto, PollGoto, TypeOK
<1>6. ASSUME NEW t \in Starts, StartSpawnLlamaFails(t)
         PROVE  ServerIsSupervised'
  BY <1>6 DEF StartSpawnLlamaFails, inner, handlers, watchers, Goto, TypeOK
<1>7. ASSUME NEW t \in Starts, StartDropped(t)
         PROVE  ServerIsSupervised'
  BY <1>7 DEF StartDropped, inner, handlers, watchers, Goto, TypeOK
<1>8. ASSUME Stop
         PROVE  ServerIsSupervised'
  BY <1>8 DEF Stop, inner, handlers, watchers, InFlight, TypeOK
<1>9. ASSUME NEW h \in Hosts, HostEnter(h)
         PROVE  ServerIsSupervised'
  BY <1>9 DEF HostEnter, inner, handlers, watchers, HostGoto, InFlight, TypeOK
<1>10. ASSUME NEW h \in Hosts, HostSpawn(h)
         PROVE  ServerIsSupervised'
  BY <1>10 DEF HostSpawn, inner, handlers, watchers, HostGoto, TypeOK
<1>11. ASSUME NEW h \in Hosts, HostSpawnFails(h)
         PROVE  ServerIsSupervised'
  BY <1>11 DEF HostSpawnFails, inner, handlers, watchers, HostGoto, TypeOK
<1>12. ASSUME NEW h \in Hosts, HostBindTimeout(h)
         PROVE  ServerIsSupervised'
  BY <1>12 DEF HostBindTimeout, inner, handlers, watchers, HostGoto, TypeOK
<1>13. ASSUME NEW h \in Hosts, HostBound(h)
         PROVE  ServerIsSupervised'
  BY <1>13 DEF HostBound, inner, handlers, watchers, HostGoto, TypeOK
<1>14. ASSUME NEW h \in Hosts, HostDropped(h)
         PROVE  ServerIsSupervised'
  BY <1>14 DEF HostDropped, inner, handlers, watchers, HostGoto, TypeOK
<1>15. ASSUME NEW t \in Starts, PollerCheck(t)
         PROVE  ServerIsSupervised'
  BY <1>15 DEF PollerCheck, inner, handlers, watchers, PollGoto, TypeOK
<1>16. ASSUME NEW t \in Starts, PollerExpires(t)
         PROVE  ServerIsSupervised'
  BY <1>16 DEF PollerExpires, inner, handlers, watchers, PollGoto, TypeOK
<1>17. ASSUME NEW t \in Starts, PollerNotReady(t)
         PROVE  ServerIsSupervised'
  BY <1>17 DEF PollerNotReady, inner, handlers, watchers, PollGoto, TypeOK
<1>18. ASSUME NEW t \in Starts, PollerReady(t)
         PROVE  ServerIsSupervised'
  BY <1>18 DEF PollerReady, inner, handlers, watchers, PollGoto, TypeOK
<1>19. ASSUME NEW t \in Starts, PollerCommit(t)
         PROVE  ServerIsSupervised'
  BY <1>19 DEF PollerCommit, inner, handlers, watchers, PollGoto, TypeOK
<1>20. ASSUME NEW t \in Starts, SupervisorExits(t)
         PROVE  ServerIsSupervised'
  BY <1>20 DEF SupervisorExits, inner, handlers, watchers, SupervisionDone, TypeOK
<1>21. ASSUME NEW t \in Starts, SupervisorFails(t)
         PROVE  ServerIsSupervised'
  BY <1>21 DEF SupervisorFails, inner, handlers, watchers, SupervisionDone, SomeChildDead, TypeOK
<1>22. ASSUME NEW h \in Hosts, HostSupervisorExits(h)
         PROVE  ServerIsSupervised'
  BY <1>22 DEF HostSupervisorExits, inner, handlers, watchers, HostingDone, TypeOK
<1>23. ASSUME NEW h \in Hosts, HostSupervisorFails(h)
         PROVE  ServerIsSupervised'
  BY <1>23 DEF HostSupervisorFails, inner, handlers, watchers, HostingDone, TypeOK
<1>24. ASSUME RpcServerExits
         PROVE  ServerIsSupervised'
  BY <1>24 DEF RpcServerExits, inner, handlers, watchers, TypeOK
<1>25. ASSUME LlamaServerExits
         PROVE  ServerIsSupervised'
  BY <1>25 DEF LlamaServerExits, inner, handlers, watchers, TypeOK
<1>26. CASE UNCHANGED vars
  BY <1>26 DEF vars, inner, handlers, watchers, TypeOK
<1>27. QED
  BY <1>1, <1>2, <1>3, <1>4, <1>5, <1>6, <1>7, <1>8, <1>9,
     <1>10, <1>11, <1>12, <1>13, <1>14, <1>15, <1>16, <1>17, <1>18,
     <1>19, <1>20, <1>21, <1>22, <1>23, <1>24, <1>25, <1>26
  DEF Next, StartStep, HostStep, PollerStep, SupervisorStep, HostSupervisorStep

\* While calls are serial, no step leaves an Idle pool with a child that no call waits for.
LEMMA IdleOwnsNothingStep ==
  TypeInv /\ IdleOwnsNothing /\ [Next]_vars => IdleOwnsNothing'
<1> SUFFICES ASSUME TypeOK, IdleOwnsNothing, [Next]_vars
             PROVE  IdleOwnsNothing'
  BY DEF TypeInv
<1> USE DEF IdleOwnsNothing
<1>1. ASSUME NEW t \in Starts, StartEnter(t)
         PROVE  IdleOwnsNothing'
  BY <1>1 DEF StartEnter, inner, handlers, watchers, Goto, Unused, InFlight, TypeOK
<1>2. ASSUME NEW t \in Starts, StartSpawnRpc(t)
         PROVE  IdleOwnsNothing'
  BY <1>2 DEF StartSpawnRpc, inner, handlers, watchers, Goto, TypeOK
<1>3. ASSUME NEW t \in Starts, StartBindTimeout(t)
         PROVE  IdleOwnsNothing'
  BY <1>3 DEF StartBindTimeout, inner, handlers, watchers, Goto, TypeOK
<1>4. ASSUME NEW t \in Starts, StartToOrchestrator(t)
         PROVE  IdleOwnsNothing'
  BY <1>4 DEF StartToOrchestrator, inner, handlers, watchers, Goto, TypeOK
<1>5. ASSUME NEW t \in Starts, StartSpawnLlama(t)
         PROVE  IdleOwnsNothing'
  BY <1>5 DEF StartSpawnLlama, inner, handlers, watchers, Goto, PollGoto, TypeOK
<1>6. ASSUME NEW t \in Starts, StartSpawnLlamaFails(t)
         PROVE  IdleOwnsNothing'
  BY <1>6 DEF StartSpawnLlamaFails, inner, handlers, watchers, Goto, TypeOK
<1>7. ASSUME NEW t \in Starts, StartDropped(t)
         PROVE  IdleOwnsNothing'
  BY <1>7 DEF StartDropped, inner, handlers, watchers, Goto, TypeOK
<1>8. ASSUME Stop
         PROVE  IdleOwnsNothing'
  BY <1>8 DEF Stop, inner, handlers, watchers, InFlight, TypeOK
<1>9. ASSUME NEW h \in Hosts, HostEnter(h)
         PROVE  IdleOwnsNothing'
  BY <1>9 DEF HostEnter, inner, handlers, watchers, HostGoto, InFlight, TypeOK
<1>10. ASSUME NEW h \in Hosts, HostSpawn(h)
         PROVE  IdleOwnsNothing'
  BY <1>10 DEF HostSpawn, inner, handlers, watchers, HostGoto, TypeOK
<1>11. ASSUME NEW h \in Hosts, HostSpawnFails(h)
         PROVE  IdleOwnsNothing'
  BY <1>11 DEF HostSpawnFails, inner, handlers, watchers, HostGoto, TypeOK
<1>12. ASSUME NEW h \in Hosts, HostBindTimeout(h)
         PROVE  IdleOwnsNothing'
  BY <1>12 DEF HostBindTimeout, inner, handlers, watchers, HostGoto, TypeOK
<1>13. ASSUME NEW h \in Hosts, HostBound(h)
         PROVE  IdleOwnsNothing'
  BY <1>13 DEF HostBound, inner, handlers, watchers, HostGoto, TypeOK
<1>14. ASSUME NEW h \in Hosts, HostDropped(h)
         PROVE  IdleOwnsNothing'
  BY <1>14 DEF HostDropped, inner, handlers, watchers, HostGoto, TypeOK
<1>15. ASSUME NEW t \in Starts, PollerCheck(t)
         PROVE  IdleOwnsNothing'
  BY <1>15 DEF PollerCheck, inner, handlers, watchers, PollGoto, TypeOK
<1>16. ASSUME NEW t \in Starts, PollerExpires(t)
         PROVE  IdleOwnsNothing'
  BY <1>16 DEF PollerExpires, inner, handlers, watchers, PollGoto, TypeOK
<1>17. ASSUME NEW t \in Starts, PollerNotReady(t)
         PROVE  IdleOwnsNothing'
  BY <1>17 DEF PollerNotReady, inner, handlers, watchers, PollGoto, TypeOK
<1>18. ASSUME NEW t \in Starts, PollerReady(t)
         PROVE  IdleOwnsNothing'
  BY <1>18 DEF PollerReady, inner, handlers, watchers, PollGoto, TypeOK
<1>19. ASSUME NEW t \in Starts, PollerCommit(t)
         PROVE  IdleOwnsNothing'
  BY <1>19 DEF PollerCommit, inner, handlers, watchers, PollGoto, TypeOK
<1>20. ASSUME NEW t \in Starts, SupervisorExits(t)
         PROVE  IdleOwnsNothing'
  BY <1>20 DEF SupervisorExits, inner, handlers, watchers, SupervisionDone, TypeOK
<1>21. ASSUME NEW t \in Starts, SupervisorFails(t)
         PROVE  IdleOwnsNothing'
  BY <1>21 DEF SupervisorFails, inner, handlers, watchers, SupervisionDone, SomeChildDead, TypeOK
<1>22. ASSUME NEW h \in Hosts, HostSupervisorExits(h)
         PROVE  IdleOwnsNothing'
  BY <1>22 DEF HostSupervisorExits, inner, handlers, watchers, HostingDone, TypeOK
<1>23. ASSUME NEW h \in Hosts, HostSupervisorFails(h)
         PROVE  IdleOwnsNothing'
  BY <1>23 DEF HostSupervisorFails, inner, handlers, watchers, HostingDone, TypeOK
<1>24. ASSUME RpcServerExits
         PROVE  IdleOwnsNothing'
  BY <1>24 DEF RpcServerExits, inner, handlers, watchers, TypeOK
<1>25. ASSUME LlamaServerExits
         PROVE  IdleOwnsNothing'
  BY <1>25 DEF LlamaServerExits, inner, handlers, watchers, TypeOK
<1>26. CASE UNCHANGED vars
  BY <1>26 DEF vars, inner, handlers, watchers, TypeOK
<1>27. QED
  BY <1>1, <1>2, <1>3, <1>4, <1>5, <1>6, <1>7, <1>8, <1>9,
     <1>10, <1>11, <1>12, <1>13, <1>14, <1>15, <1>16, <1>17, <1>18,
     <1>19, <1>20, <1>21, <1>22, <1>23, <1>24, <1>25, <1>26
  DEF Next, StartStep, HostStep, PollerStep, SupervisorStep, HostSupervisorStep

\* The conjuncts are inductive together: each step lemma uses the others.
LEMMA PoolInvStep == PoolInv /\ [Next]_vars => PoolInv'
  BY TypeInvStep, SerialInvStep, ServerIsSupervisedStep, IdleOwnsNothingStep DEF PoolInv

\* The inductive invariant of the pool, from which its theorems follow.
LEMMA PoolInvHolds == Spec => []PoolInv
  BY PoolInvInit, PoolInvStep, PTL DEF Spec

\* While calls come one at a time, a llama-server the pool owns is shown and watched.
THEOREM ServerSupervised == Spec => []ServerIsSupervised
<1>1. PoolInv => ServerIsSupervised
  BY DEF PoolInv
<1>2. QED
  BY PoolInvHolds, <1>1, PTL

\* While calls come one at a time, an Idle machine keeps no child process.
THEOREM IdleMachineOwnsNothing == Spec => []IdleOwnsNothing
<1>1. PoolInv => IdleOwnsNothing
  BY DEF PoolInv
<1>2. QED
  BY PoolInvHolds, <1>1, PTL

-----------------------------------------------------------------------------
(* A stopped pool stays stopped                                              *)

\* No task left over from an earlier pool leads out of a stopped pool: what does is a call.
LEMMA StoppedStepHolds == TypeOK /\ [Next]_vars => [StoppedStep]_vars
<1> SUFFICES ASSUME TypeOK, [Next]_vars, Stopped
             PROVE  Stopped' \/ InFlight' \/ state' = "Starting"
  BY DEF StoppedStep
<1> USE DEF InFlight, Stopped, TypeOK
<1>1. ASSUME NEW t \in Starts, StartEnter(t)
         PROVE  Stopped' \/ InFlight' \/ state' = "Starting"
  BY <1>1 DEF StartEnter, inner, handlers, watchers, Goto, Unused, InFlight
<1>2. ASSUME NEW t \in Starts, StartSpawnRpc(t)
         PROVE  Stopped' \/ InFlight' \/ state' = "Starting"
  BY <1>2 DEF StartSpawnRpc, inner, handlers, watchers, Goto
<1>3. ASSUME NEW t \in Starts, StartBindTimeout(t)
         PROVE  Stopped' \/ InFlight' \/ state' = "Starting"
  BY <1>3 DEF StartBindTimeout, inner, handlers, watchers, Goto
<1>4. ASSUME NEW t \in Starts, StartToOrchestrator(t)
         PROVE  Stopped' \/ InFlight' \/ state' = "Starting"
  BY <1>4 DEF StartToOrchestrator, inner, handlers, watchers, Goto
<1>5. ASSUME NEW t \in Starts, StartSpawnLlama(t)
         PROVE  Stopped' \/ InFlight' \/ state' = "Starting"
  BY <1>5 DEF StartSpawnLlama, inner, handlers, watchers, Goto, PollGoto
<1>6. ASSUME NEW t \in Starts, StartSpawnLlamaFails(t)
         PROVE  Stopped' \/ InFlight' \/ state' = "Starting"
  BY <1>6 DEF StartSpawnLlamaFails, inner, handlers, watchers, Goto
<1>7. ASSUME NEW t \in Starts, StartDropped(t)
         PROVE  Stopped' \/ InFlight' \/ state' = "Starting"
  BY <1>7 DEF StartDropped, inner, handlers, watchers, Goto
<1>8. ASSUME Stop
         PROVE  Stopped' \/ InFlight' \/ state' = "Starting"
  BY <1>8 DEF Stop, inner, handlers, watchers, InFlight
<1>9. ASSUME NEW h \in Hosts, HostEnter(h)
         PROVE  Stopped' \/ InFlight' \/ state' = "Starting"
  BY <1>9 DEF HostEnter, inner, handlers, watchers, HostGoto, InFlight
<1>10. ASSUME NEW h \in Hosts, HostSpawn(h)
         PROVE  Stopped' \/ InFlight' \/ state' = "Starting"
  BY <1>10 DEF HostSpawn, inner, handlers, watchers, HostGoto
<1>11. ASSUME NEW h \in Hosts, HostSpawnFails(h)
         PROVE  Stopped' \/ InFlight' \/ state' = "Starting"
  BY <1>11 DEF HostSpawnFails, inner, handlers, watchers, HostGoto
<1>12. ASSUME NEW h \in Hosts, HostBindTimeout(h)
         PROVE  Stopped' \/ InFlight' \/ state' = "Starting"
  BY <1>12 DEF HostBindTimeout, inner, handlers, watchers, HostGoto
<1>13. ASSUME NEW h \in Hosts, HostBound(h)
         PROVE  Stopped' \/ InFlight' \/ state' = "Starting"
  BY <1>13 DEF HostBound, inner, handlers, watchers, HostGoto
<1>14. ASSUME NEW h \in Hosts, HostDropped(h)
         PROVE  Stopped' \/ InFlight' \/ state' = "Starting"
  BY <1>14 DEF HostDropped, inner, handlers, watchers, HostGoto
<1>15. ASSUME NEW t \in Starts, PollerCheck(t)
         PROVE  Stopped' \/ InFlight' \/ state' = "Starting"
  BY <1>15 DEF PollerCheck, inner, handlers, watchers, PollGoto
<1>16. ASSUME NEW t \in Starts, PollerExpires(t)
         PROVE  Stopped' \/ InFlight' \/ state' = "Starting"
  BY <1>16 DEF PollerExpires, inner, handlers, watchers, PollGoto
<1>17. ASSUME NEW t \in Starts, PollerNotReady(t)
         PROVE  Stopped' \/ InFlight' \/ state' = "Starting"
  BY <1>17 DEF PollerNotReady, inner, handlers, watchers, PollGoto
<1>18. ASSUME NEW t \in Starts, PollerReady(t)
         PROVE  Stopped' \/ InFlight' \/ state' = "Starting"
  BY <1>18 DEF PollerReady, inner, handlers, watchers, PollGoto
<1>19. ASSUME NEW t \in Starts, PollerCommit(t)
         PROVE  Stopped' \/ InFlight' \/ state' = "Starting"
  BY <1>19 DEF PollerCommit, inner, handlers, watchers, PollGoto
<1>20. ASSUME NEW t \in Starts, SupervisorExits(t)
         PROVE  Stopped' \/ InFlight' \/ state' = "Starting"
  BY <1>20 DEF SupervisorExits, inner, handlers, watchers, SupervisionDone
<1>21. ASSUME NEW t \in Starts, SupervisorFails(t)
         PROVE  Stopped' \/ InFlight' \/ state' = "Starting"
  BY <1>21 DEF SupervisorFails, inner, handlers, watchers, SupervisionDone, SomeChildDead
<1>22. ASSUME NEW h \in Hosts, HostSupervisorExits(h)
         PROVE  Stopped' \/ InFlight' \/ state' = "Starting"
  BY <1>22 DEF HostSupervisorExits, inner, handlers, watchers, HostingDone
<1>23. ASSUME NEW h \in Hosts, HostSupervisorFails(h)
         PROVE  Stopped' \/ InFlight' \/ state' = "Starting"
  BY <1>23 DEF HostSupervisorFails, inner, handlers, watchers, HostingDone
<1>24. ASSUME RpcServerExits
         PROVE  Stopped' \/ InFlight' \/ state' = "Starting"
  BY <1>24 DEF RpcServerExits, inner, handlers, watchers
<1>25. ASSUME LlamaServerExits
         PROVE  Stopped' \/ InFlight' \/ state' = "Starting"
  BY <1>25 DEF LlamaServerExits, inner, handlers, watchers
<1>26. CASE UNCHANGED vars
  BY <1>26 DEF vars, inner, handlers, watchers
<1>27. QED
  BY <1>1, <1>2, <1>3, <1>4, <1>5, <1>6, <1>7, <1>8, <1>9,
     <1>10, <1>11, <1>12, <1>13, <1>14, <1>15, <1>16, <1>17, <1>18,
     <1>19, <1>20, <1>21, <1>22, <1>23, <1>24, <1>25, <1>26
  DEF Next, StartStep, HostStep, PollerStep, SupervisorStep, HostSupervisorStep

\* The action property the runs check, for every value of the constants.
THEOREM StoppedPoolStaysStopped == Spec => StoppedStaysStopped
  BY TypeCorrect, StoppedStepHolds, PTL DEF Spec, StoppedStaysStopped

-----------------------------------------------------------------------------
(* Loading a model and noticing a death, as far as they can be proved: what  *)
(* LoadEnds and DeathsAreNoticed need besides fairness                       *)

\* A start call that is under way has no poller yet: it spawns its poller as it returns.
StartersComeFirst == \A t \in Starts : starter[t] # "off" => poller[t] = "off"

\* Whoever starts a poller is done as a handler.
LEMMA StartersFirst == TypeOK /\ StartersComeFirst /\ [Next]_vars => StartersComeFirst'
<1> SUFFICES ASSUME TypeOK, StartersComeFirst, [Next]_vars
             PROVE  StartersComeFirst'
  OBVIOUS
<1> USE DEF StartersComeFirst, TypeOK, inner, handlers, watchers
<1>1. ASSUME NEW t \in Starts, StartEnter(t) \/ StartStep(t) \/ StartDropped(t)
      PROVE  StartersComeFirst'
  BY <1>1 DEF StartEnter, StartStep, StartSpawnRpc, StartBindTimeout, StartToOrchestrator,
              StartSpawnLlama, StartSpawnLlamaFails, StartDropped, Unused, Goto, PollGoto
<1>2. ASSUME NEW t \in Starts, PollerStep(t) \/ SupervisorStep(t)
      PROVE  StartersComeFirst'
  BY <1>2 DEF PollerStep, PollerCheck, PollerExpires, PollerNotReady, PollerReady, PollerCommit,
              PollGoto, SupervisorStep, SupervisorExits, SupervisorFails
<1>3. ASSUME NEW h \in Hosts, HostEnter(h) \/ HostStep(h) \/ HostDropped(h) \/ HostSupervisorStep(h)
      PROVE  StartersComeFirst'
  BY <1>3 DEF HostEnter, HostStep, HostSpawn, HostSpawnFails, HostBindTimeout, HostBound,
              HostDropped, HostSupervisorStep, HostSupervisorExits, HostSupervisorFails
<1>4. CASE Stop \/ RpcServerExits \/ LlamaServerExits
  BY <1>4 DEF Stop, RpcServerExits, LlamaServerExits
<1>5. CASE UNCHANGED vars
  BY <1>5 DEF vars
<1>6. QED
  BY <1>1, <1>2, <1>3, <1>4, <1>5 DEF Next

\* A bound on the steps a poller has left.
LoadLeft(t) ==
  CASE poller[t] = "check" -> 2 * (MaxPolls - polls[t]) + 2
    [] poller[t] = "get"   -> 2 * (MaxPolls - polls[t]) + 1
    [] OTHER               -> 1

\* While the pool is Starting and nobody has stopped it, a poller at work stays at work, no
\* step gives it more time, and each of its own takes some of what it has.
LoadGetsOnStep ==
  \A t \in Starts : poller[t] # "off" /\ state = "Starting" /\ ~user_stopped =>
    \/ state' # "Starting" \/ user_stopped'
    \/ /\ poller'[t] # "off"
       /\ \/ UNCHANGED <<poller[t], polls[t]>> /\ ~PollerStep(t)
          \/ LoadLeft(t)' < LoadLeft(t)

LoadGetsOn == [][LoadGetsOnStep]_vars

\* A pool that loads a model is watched by a poller whose time only runs out, whatever starts,
\* stops and hangs up meanwhile: what LoadEnds needs besides fairness.
THEOREM LoadComesToAnEnd == Spec => LoadGetsOn
<1>1. TypeInv /\ StartersComeFirst /\ Next => LoadGetsOnStep
  <2> SUFFICES ASSUME TypeInv, StartersComeFirst, Next, NEW t \in Starts,
                      poller[t] # "off", state = "Starting", ~user_stopped,
                      state' = "Starting", ~user_stopped'
               PROVE  /\ poller'[t] # "off"
                      /\ \/ UNCHANGED <<poller[t], polls[t]>> /\ ~PollerStep(t)
                         \/ LoadLeft(t)' < LoadLeft(t)
    BY DEF LoadGetsOnStep
  <2>1. /\ poller[t] \in {"check", "get", "expired", "commit"} /\ poller \in [Starts -> PollerPC]
        /\ polls[t] \in 0 .. MaxPolls /\ polls \in [Starts -> 0 .. MaxPolls] /\ MaxPolls \in Nat
        /\ poller[t] = "get" => polls[t] < MaxPolls
        /\ starter[t] = "off"
    BY MaxPollsIsNat DEF TypeInv, TypeOK, PollerPC, PollLeft, StartersComeFirst
  <2>2. ASSUME poller'[t] = poller[t], polls'[t] = polls[t]
        PROVE  /\ poller'[t] # "off" /\ UNCHANGED <<poller[t], polls[t]>>
               /\ ~PollerStep(t)
    <3>1. ASSUME PollerStep(t) PROVE poller'[t] # poller[t]
      BY <2>1, <3>1 DEF PollerStep, PollerCheck, PollerExpires, PollerNotReady, PollerReady,
                        PollerCommit, PollGoto
    <3>2. QED
      BY <2>2, <3>1
  <2>3. ASSUME PollerStep(t)
        PROVE  poller'[t] # "off" /\ LoadLeft(t)' < LoadLeft(t)
    <3>1. CASE PollerCheck(t)
      BY <2>1, <3>1 DEF PollerCheck, PollGoto, LoadLeft
    <3>2. CASE PollerNotReady(t)
      BY <2>1, <3>2 DEF PollerNotReady, PollGoto, LoadLeft
    <3>3. CASE PollerReady(t)
      BY <2>1, <3>3 DEF PollerReady, PollGoto, LoadLeft
    <3>4. ~PollerExpires(t) /\ ~PollerCommit(t)
      BY DEF PollerExpires, PollerCommit
    <3>5. QED
      BY <2>3, <3>1, <3>2, <3>3, <3>4 DEF PollerStep
  <2>4. ASSUME NEW u \in Starts, StartEnter(u) \/ StartStep(u) \/ StartDropped(u) \/ SupervisorStep(u)
        PROVE  poller'[t] = poller[t] /\ polls'[t] = polls[t]
    BY <2>1, <2>4 DEF StartEnter, StartStep, StartSpawnRpc, StartBindTimeout, StartToOrchestrator,
                      StartSpawnLlama, StartSpawnLlamaFails, StartDropped, PollGoto, watchers,
                      SupervisorStep, SupervisorExits, SupervisorFails
  <2>5. ASSUME NEW u \in Starts, u # t, PollerStep(u)
        PROVE  poller'[t] = poller[t] /\ polls'[t] = polls[t]
    BY <2>1, <2>5 DEF PollerStep, PollerCheck, PollerExpires, PollerNotReady, PollerReady,
                      PollerCommit, PollGoto
  <2>6. ASSUME \/ Stop \/ RpcServerExits \/ LlamaServerExits
               \/ \E h \in Hosts : HostEnter(h) \/ HostStep(h) \/ HostDropped(h) \/ HostSupervisorStep(h)
        PROVE  poller'[t] = poller[t] /\ polls'[t] = polls[t]
    BY <2>6 DEF Stop, RpcServerExits, LlamaServerExits, watchers, HostEnter, HostStep, HostSpawn,
                HostSpawnFails, HostBindTimeout, HostBound, HostDropped, HostSupervisorStep,
                HostSupervisorExits, HostSupervisorFails
  <2>7. QED
    BY <2>2, <2>3, <2>4, <2>5, <2>6 DEF Next
<1>2. Init => StartersComeFirst
  BY DEF Init, StartersComeFirst
<1>3. TypeInv => TypeOK
  BY DEF TypeInv
<1>4. QED
  BY <1>1, <1>2, <1>3, StartersFirst, TypeInvInit, TypeInvStep, PTL DEF Spec, LoadGetsOn

\* As long as calls come one at a time, a machine that hosts is not told to leave and has a
\* supervisor for the rpc-server it holds; a layer-host call on its way finds no hosting, and
\* once it has spawned its rpc-server no stop that it has not noticed.
HostingIsWatched ==
  serial =>
    /\ state = "Hosting" /\ rpc_child # "none" => ~user_stopped /\ hostWatch # {}
    /\ \A h \in Hosts : host[h] # "off" => state # "Hosting"
    /\ \A h \in Hosts : host[h] = "wait" => ~user_stopped

\* No step leaves the rpc-server of a hosting machine unwatched while calls are serial.
LEMMA HostingIsWatchedStep ==
  TypeOK /\ SerialInv /\ HostingIsWatched /\ [Next]_vars => HostingIsWatched'
<1> SUFFICES ASSUME TypeOK, SerialInv, HostingIsWatched, [Next]_vars
             PROVE  HostingIsWatched'
  OBVIOUS
<1> USE DEF HostingIsWatched, TypeOK, SerialInv, OneCall, InFlight, inner, handlers, watchers
<1>1. ASSUME NEW t \in Starts, StartEnter(t) PROVE HostingIsWatched'
  BY <1>1 DEF StartEnter, Goto, Unused
<1>2. ASSUME NEW t \in Starts, StartSpawnRpc(t) PROVE HostingIsWatched'
  BY <1>2 DEF StartSpawnRpc, Goto
<1>3. ASSUME NEW t \in Starts, StartBindTimeout(t) PROVE HostingIsWatched'
  BY <1>3 DEF StartBindTimeout, Goto
<1>4. ASSUME NEW t \in Starts, StartToOrchestrator(t) PROVE HostingIsWatched'
  BY <1>4 DEF StartToOrchestrator, Goto
<1>5. ASSUME NEW t \in Starts, StartSpawnLlama(t) PROVE HostingIsWatched'
  BY <1>5 DEF StartSpawnLlama, Goto, PollGoto
<1>6. ASSUME NEW t \in Starts, StartSpawnLlamaFails(t) PROVE HostingIsWatched'
  BY <1>6 DEF StartSpawnLlamaFails, Goto
<1>7. ASSUME NEW t \in Starts, StartDropped(t) PROVE HostingIsWatched'
  BY <1>7 DEF StartDropped, Goto
<1>8. ASSUME Stop PROVE HostingIsWatched'
  BY <1>8 DEF Stop
<1>9. ASSUME NEW h \in Hosts, HostEnter(h) PROVE HostingIsWatched'
  BY <1>9 DEF HostEnter, HostGoto, InFlight
<1>10. ASSUME NEW h \in Hosts, HostSpawn(h) PROVE HostingIsWatched'
  BY <1>10 DEF HostSpawn, HostGoto
<1>11. ASSUME NEW h \in Hosts, HostSpawnFails(h) PROVE HostingIsWatched'
  BY <1>11 DEF HostSpawnFails, HostGoto
<1>12. ASSUME NEW h \in Hosts, HostBindTimeout(h) PROVE HostingIsWatched'
  BY <1>12 DEF HostBindTimeout, HostGoto
<1>13. ASSUME NEW h \in Hosts, HostBound(h) PROVE HostingIsWatched'
  BY <1>13 DEF HostBound, HostGoto
<1>14. ASSUME NEW h \in Hosts, HostDropped(h) PROVE HostingIsWatched'
  BY <1>14 DEF HostDropped, HostGoto
<1>15. ASSUME NEW t \in Starts, PollerCheck(t) PROVE HostingIsWatched'
  BY <1>15 DEF PollerCheck, PollGoto
<1>16. ASSUME NEW t \in Starts, PollerExpires(t) PROVE HostingIsWatched'
  BY <1>16 DEF PollerExpires, PollGoto
<1>17. ASSUME NEW t \in Starts, PollerNotReady(t) PROVE HostingIsWatched'
  BY <1>17 DEF PollerNotReady, PollGoto
<1>18. ASSUME NEW t \in Starts, PollerReady(t) PROVE HostingIsWatched'
  BY <1>18 DEF PollerReady, PollGoto
<1>19. ASSUME NEW t \in Starts, PollerCommit(t) PROVE HostingIsWatched'
  BY <1>19 DEF PollerCommit, PollGoto
<1>20. ASSUME NEW t \in Starts, SupervisorExits(t) PROVE HostingIsWatched'
  BY <1>20 DEF SupervisorExits, SupervisionDone
<1>21. ASSUME NEW t \in Starts, SupervisorFails(t) PROVE HostingIsWatched'
  BY <1>21 DEF SupervisorFails, SupervisionDone, SomeChildDead
<1>22. ASSUME NEW h \in Hosts, HostSupervisorExits(h) PROVE HostingIsWatched'
  BY <1>22 DEF HostSupervisorExits, HostingDone
<1>23. ASSUME NEW h \in Hosts, HostSupervisorFails(h) PROVE HostingIsWatched'
  BY <1>23 DEF HostSupervisorFails, HostingDone
<1>24. ASSUME RpcServerExits PROVE HostingIsWatched'
  BY <1>24 DEF RpcServerExits
<1>25. ASSUME LlamaServerExits PROVE HostingIsWatched'
  BY <1>25 DEF LlamaServerExits
<1>26. CASE UNCHANGED vars
  BY <1>26 DEF vars
<1>27. QED
  BY <1>1, <1>2, <1>3, <1>4, <1>5, <1>6, <1>7, <1>8, <1>9, <1>10, <1>11, <1>12, <1>13, <1>14, <1>15, <1>16, <1>17, <1>18, <1>19, <1>20, <1>21, <1>22, <1>23, <1>24, <1>25, <1>26
  DEF Next, StartStep, HostStep, PollerStep, SupervisorStep, HostSupervisorStep

\* The host's side of ServerSupervised: one call at a time, a machine that hosts and still
\* holds its rpc-server has a supervisor that has not been told to leave.
THEOREM HostingWatched == Spec => []HostingIsWatched
<1>1. Init => HostingIsWatched
  BY DEF Init, HostingIsWatched
<1>2. PoolInv => TypeOK /\ SerialInv
  BY DEF PoolInv, TypeInv
<1>3. QED
  BY <1>1, <1>2, HostingIsWatchedStep, PoolInvHolds, PTL DEF Spec

\* A dead child has supervisors that will see it; each of them, when it looks, gives the
\* handle up, and none of them leaves without.
DeathsGetOnStep ==
  /\ serial /\ llama_child = "dead" =>
       /\ supervisor # {} /\ ~SupervisionDone /\ SomeChildDead
       /\ \A t \in supervisor : SupervisorStep(t) => llama_child' = "none"
       /\ llama_child' # "dead" \/ ~serial' \/ supervisor \subseteq supervisor'
  /\ serial /\ state = "Hosting" /\ rpc_child = "dead" =>
       /\ hostWatch # {} /\ ~HostingDone
       /\ \A h \in hostWatch : HostSupervisorStep(h) => rpc_child' = "none"
       /\ state' # "Hosting" \/ rpc_child' # "dead" \/ ~serial' \/ hostWatch \subseteq hostWatch'

DeathsGetOn == [][DeathsGetOnStep]_vars

\* Whoever leaves the watch over a dead llama-server has given its handle up.
LEMMA LlamaDeathGetsOn ==
  ASSUME TypeOK, ServerIsSupervised, Next, serial, llama_child = "dead"
  PROVE  /\ supervisor # {} /\ ~SupervisionDone /\ SomeChildDead
         /\ \A t \in supervisor : SupervisorStep(t) => llama_child' = "none"
         /\ llama_child' # "dead" \/ ~serial' \/ supervisor \subseteq supervisor'
<1>1. supervisor # {} /\ ~SupervisionDone /\ SomeChildDead
  BY DEF ServerIsSupervised, SupervisionDone, SomeChildDead
<1>2. ASSUME NEW t, SupervisorStep(t)
      PROVE  llama_child' = "none"
  BY <1>1, <1>2 DEF SupervisorStep, SupervisorExits, SupervisorFails
<1>3. ASSUME ~\E t \in Starts : SupervisorStep(t)
      PROVE  supervisor \subseteq supervisor'
  BY <1>3 DEF Next, StartEnter, StartStep, StartSpawnRpc, StartBindTimeout, StartToOrchestrator,
    StartSpawnLlama, StartSpawnLlamaFails, StartDropped, Stop, HostEnter, HostStep, HostSpawn,
    HostSpawnFails, HostBindTimeout, HostBound, HostDropped, PollerStep, PollerCheck,
    PollerExpires, PollerNotReady, PollerReady, PollerCommit, HostSupervisorStep,
    HostSupervisorExits, HostSupervisorFails, RpcServerExits, LlamaServerExits, watchers
<1>4. QED
  BY <1>1, <1>2, <1>3

\* Whoever leaves the watch over the dead rpc-server of a hosting machine has given it up.
LEMMA RpcDeathGetsOn ==
  ASSUME TypeOK, HostingIsWatched, Next, serial, state = "Hosting", rpc_child = "dead"
  PROVE  /\ hostWatch # {} /\ ~HostingDone
         /\ \A h \in hostWatch : HostSupervisorStep(h) => rpc_child' = "none"
         /\ state' # "Hosting" \/ rpc_child' # "dead" \/ ~serial' \/ hostWatch \subseteq hostWatch'
<1>1. hostWatch # {} /\ ~HostingDone
  BY DEF HostingIsWatched, HostingDone
<1>2. ASSUME NEW h, HostSupervisorStep(h)
      PROVE  rpc_child' = "none"
  BY <1>1, <1>2 DEF HostSupervisorStep, HostSupervisorExits, HostSupervisorFails
<1>3. ASSUME ~\E h \in Hosts : HostSupervisorStep(h)
      PROVE  hostWatch \subseteq hostWatch'
  BY <1>3 DEF Next, StartEnter, StartStep, StartSpawnRpc, StartBindTimeout, StartToOrchestrator,
    StartSpawnLlama, StartSpawnLlamaFails, StartDropped, Stop, HostEnter, HostStep, HostSpawn,
    HostSpawnFails, HostBindTimeout, HostBound, HostDropped, PollerStep, PollerCheck,
    PollerExpires, PollerNotReady, PollerReady, PollerCommit, SupervisorStep,
    SupervisorExits, SupervisorFails, RpcServerExits, LlamaServerExits, watchers
<1>4. QED
  BY <1>1, <1>2, <1>3

\* While calls come one at a time a dead child is watched by supervisors that stay until one
\* of them has acted on it: what DeathsAreNoticed needs besides fairness.
THEOREM DeathsComeToNotice == Spec => DeathsGetOn
<1>1. PoolInv /\ HostingIsWatched /\ [Next]_vars => [DeathsGetOnStep]_vars
  BY LlamaDeathGetsOn, RpcDeathGetsOn DEF PoolInv, TypeInv, DeathsGetOnStep
<1>2. QED
  BY <1>1, PoolInvHolds, HostingWatched, PTL DEF Spec, DeathsGetOn

-----------------------------------------------------------------------------
(* PoolCluster: what holds while the calls of a machine do not overlap, nor  *)
(* break, nor its pool fails by itself                                       *)
(*                                                                           *)
(* That an orchestrator still knows of its hosts is not inductive.  What is: *)
(* that it holds exactly the hosts a list of its handler, the plan of its    *)
(* pool or a call on its way stands for (Held), that these and no others     *)
(* work for it, that a host it has started serves layers and so refuses to   *)
(* be started again, and hence that no list has a host twice.  All of it     *)
(* rests on what the calls and handlers do among themselves (CallInv).       *)
(* Each kind of step has an effect on calls, machine and hosts; the steps    *)
(* are shown to have theirs, and the invariant to survive each.              *)

StopPhases == {"stop", "tell", "telling"}

\* A live call is the one its handler waits for; one that nobody waits for is a stray's.
CallsAreWaitedFor ==
  /\ \A c \in calls : c.live =>
       /\ At(c.by, IF c.kind = "start" THEN "asking" ELSE "telling")
       /\ c.to = Head(handler[c.by].todo)
  /\ \A c \in calls : ~c.live => OrchestratorOf(c) \in strayed
  /\ \A c, d \in calls : c.live /\ d.live /\ c.by = d.by => c = d

\* What a host may have answered depends on who asked for what.
Answered(c) ==
  /\ c.at \in {"spawn", "bind", "accepted"} => FromPeer(c)
  /\ c.kind = "stop" => c.at \notin {"spawn", "bind"}
  /\ c.kind = "stop" /\ c.at = "refused" => ~FromPeer(c)

AnswersArePeers ==
  /\ \A c \in calls : Answered(c)
  /\ \A h \in Machines : rpc[h] \in {NoOne, h} \union PeersOf[h]

\* The lists of a handler are parts of its plan.
Planned(o, h) ==
  /\ h.pc = "off" => h = Off
  /\ h.pc \in {"ask", "asking", "spawn"} => Remote(o, h.plan) = h.started \o h.todo
  /\ h.pc = "spawn" => h.todo = << >>
  /\ h.pc \in {"asking", "telling"} => h.todo # << >>
  /\ h.pc \in StopPhases => h.started = << >>

ListsArePlanned == \A x \in Handlers : Planned(HomeOf[x], handler[x])

\* Until its calls overlap, a machine runs one handler at a time, and its pool is not active
\* before that handler spawns it, nor after it has stopped it.
OneAtATime ==
  /\ \A x, y \in Handlers :
       HomeOf[x] = HomeOf[y] /\ HomeOf[x] \notin strayed /\ ~At(x, "off") /\ ~At(y, "off") => x = y
  /\ \A x \in Handlers :
       HomeOf[x] \notin strayed /\ handler[x].pc \notin {"off", "stop", "spawn"}
         => role[HomeOf[x]] # "Active"

CrossingIsSeen == \A m \in Machines : Crossing(m) => m \in crossed

CallInv == ClusterTypeOK /\ CallsAreWaitedFor /\ AnswersArePeers /\ ListsArePlanned
             /\ OneAtATime /\ CrossingIsSeen

\* What the orchestrator counts on, or has still to tell.
PoolHolds(o) == IF ~Busy(o) /\ role[o] = "Active" THEN Elements(Remote(o, plan[o])) ELSE {}

HandlerHolds(x) ==
  Elements(handler[x].started) \union
    (IF handler[x].pc \in {"stop", "tell"} THEN Elements(handler[x].todo)
     ELSE IF handler[x].pc = "telling" THEN Elements(Tail(handler[x].todo)) ELSE {})

CallHolds(c) ==
  c.live /\ IF c.kind = "start" THEN c.at \in {"bind", "accepted"} ELSE c.at \in {"sent", "refused"}

Held(o) ==
  PoolHolds(o)
    \union (UNION {HandlerHolds(x) : x \in {y \in Handlers : HomeOf[y] = o}})
    \union {c.to : c \in {d \in calls : OrchestratorOf(d) = o /\ CallHolds(d)}}

\* Whoever works for an orchestrator is held by it.
ServantsAreHeld ==
  \A h, o \in Machines :
    rpc[h] = o /\ o \notin {h} \union strayed \union crossed => h \in Held(o)

\* Whoever is held is another machine and works for the orchestrator, unless something else
\* came between.
HeldServe ==
  \A o \in Machines \ strayed, h \in Machines :
    h \in Held(o) => h # o /\ (h \in crossed \/ rpc[h] = o)

\* And it serves layers, once its answer is there.
StartedAreHosting ==
  /\ \A x \in Handlers : HomeOf[x] \notin strayed =>
       \A h \in Elements(handler[x].started) \ crossed : role[h] = "Hosting"
  /\ \A c \in calls : c.kind = "start" /\ c.at = "accepted" /\ OrchestratorOf(c) \notin strayed
                        /\ c.to \notin crossed => role[c.to] = "Hosting"

\* No element of the list is in it twice, but for these.
NoneTwice(s, but) == \A i, j \in DOMAIN s : s[i] = s[j] /\ i # j => s[i] \in but

\* No host is asked for twice, and so none is told twice.
AskedOnce ==
  /\ \A x \in Handlers : HomeOf[x] \notin strayed =>
       /\ NoneTwice(handler[x].started, crossed)
       /\ handler[x].pc \in StopPhases => NoneTwice(handler[x].todo, crossed)
  /\ \A m \in Machines \ strayed :
       ~Busy(m) /\ role[m] = "Active" => NoneTwice(Remote(m, plan[m]), crossed)
  /\ \A c \in calls :
       /\ c.kind = "start" /\ c.at \in {"spawn", "bind", "accepted"}
       /\ OrchestratorOf(c) \notin strayed
       /\ c.to \in Elements(handler[c.by].started)
       => c.to \in crossed

ClusterInv == CallInv /\ ServantsAreHeld /\ HeldServe /\ StartedAreHosting /\ AskedOnce

-----------------------------------------------------------------------------
(* Lists of hosts                                                            *)

\* What a list holds when it is taken apart, or a machine is added to it.
LEMMA ElementsOfParts ==
  ASSUME NEW s \in Seq(Machines)
  PROVE  /\ Elements(s) \subseteq Machines
         /\ Elements(<< >>) = {}
         /\ s # << >> => /\ Head(s) \in Machines /\ Tail(s) \in Seq(Machines)
                         /\ Elements(s) = {Head(s)} \union Elements(Tail(s))
         /\ \A h \in Machines : /\ Append(s, h) \in Seq(Machines)
                                /\ Elements(Append(s, h)) = Elements(s) \union {h}
<1>1. Elements(s) \subseteq Machines /\ Elements(<< >>) = {}
  BY DEF Elements
<1>2. ASSUME s # << >>
      PROVE  /\ Head(s) \in Machines /\ Tail(s) \in Seq(Machines)
             /\ Elements(s) = {Head(s)} \union Elements(Tail(s))
  <2>1. Len(s) \in Nat \ {0} /\ Head(s) = s[1] /\ Tail(s) \in Seq(Machines)
        /\ Len(Tail(s)) = Len(s) - 1 /\ \A i \in 1 .. Len(s) - 1 : Tail(s)[i] = s[i + 1]
    BY <1>2
  <2>2. ASSUME NEW i \in 1 .. Len(s)
        PROVE  s[i] = Head(s) \/ s[i] \in Elements(Tail(s))
    <3>1. CASE i = 1
      BY <2>1, <3>1
    <3>2. CASE i # 1
      <4>1. i - 1 \in 1 .. Len(Tail(s)) /\ Tail(s)[i - 1] = s[i]
        BY <2>1, <3>2
      <4>2. i - 1 \in DOMAIN Tail(s)
        BY <2>1, <4>1
      <4>3. QED
        BY <4>1, <4>2 DEF Elements
    <3>3. QED
      BY <3>1, <3>2
  <2>3. ASSUME NEW i \in 1 .. Len(Tail(s))
        PROVE  Tail(s)[i] \in Elements(s)
    <3>1. i + 1 \in 1 .. Len(s) /\ Tail(s)[i] = s[i + 1]
      BY <2>1
    <3>2. QED
      BY <3>1 DEF Elements
  <2>4. QED
    BY <2>1, <2>2, <2>3 DEF Elements
<1>3. ASSUME NEW h \in Machines
      PROVE  /\ Append(s, h) \in Seq(Machines)
             /\ Elements(Append(s, h)) = Elements(s) \union {h}
  <2>1. /\ Append(s, h) \in Seq(Machines) /\ Len(Append(s, h)) = Len(s) + 1
        /\ \A i \in 1 .. Len(s) : Append(s, h)[i] = s[i]
        /\ Append(s, h)[Len(s) + 1] = h /\ Len(s) \in Nat
    OBVIOUS
  <2>2. DOMAIN Append(s, h) = 1 .. Len(s) + 1 /\ DOMAIN s = 1 .. Len(s)
    BY <2>1
  <2>3. \A i \in 1 .. Len(s) : i \in 1 .. Len(s) + 1
    BY <2>1
  <2>4. \A i \in 1 .. Len(s) + 1 : i \in 1 .. Len(s) \/ i = Len(s) + 1
    BY <2>1
  <2>5. Len(s) + 1 \in 1 .. Len(s) + 1
    BY <2>1
  <2> HIDE DEF Elements
  <2>6. \A e : e \in Elements(s) <=> \E i \in 1 .. Len(s) : e = s[i]
    BY <2>2, Zenon DEF Elements
  <2>7. \A e : e \in Elements(Append(s, h)) <=> \E i \in 1 .. Len(s) + 1 : e = Append(s, h)[i]
    BY <2>2, Zenon DEF Elements
  <2>8. QED
    BY <2>1, <2>3, <2>4, <2>5, <2>6, <2>7
<1>4. QED
  BY <1>1, <1>2, <1>3

\* A list that names no machine twice, but for a few, keeps to that when it is taken apart
\* or added to.
LEMMA TwiceInParts ==
  ASSUME NEW s \in Seq(Machines), NEW but, NoneTwice(s, but)
  PROVE  /\ s # << >> => /\ NoneTwice(Tail(s), but)
                         /\ Head(s) \in Elements(Tail(s)) => Head(s) \in but
         /\ \A h \in Machines :
              (h \in Elements(s) => h \in but) => NoneTwice(Append(s, h), but)
         /\ NoneTwice(<< >>, but)
<1>1. ASSUME s # << >>
      PROVE  /\ NoneTwice(Tail(s), but)
             /\ Head(s) \in Elements(Tail(s)) => Head(s) \in but
  <2>1. Len(s) \in Nat \ {0} /\ Head(s) = s[1] /\ Tail(s) \in Seq(Machines)
        /\ Len(Tail(s)) = Len(s) - 1 /\ \A i \in 1 .. Len(s) - 1 : Tail(s)[i] = s[i + 1]
    BY <1>1
  <2>2. DOMAIN s = 1 .. Len(s) /\ DOMAIN Tail(s) = 1 .. Len(s) - 1
    BY <2>1
  <2>3. QED
    BY <2>1, <2>2 DEF NoneTwice, Elements
<1>2. ASSUME NEW h \in Machines, h \in Elements(s) => h \in but
      PROVE  NoneTwice(Append(s, h), but)
  BY <1>2 DEF NoneTwice, Elements
<1>3. QED
  BY <1>1, <1>2 DEF NoneTwice

\* Moving the head of the second list to the end of the first leaves what they are together.
LEMMA ConcatShift ==
  ASSUME NEW s \in Seq(Machines), NEW t \in Seq(Machines)
  PROVE  /\ << >> \o t = t /\ s \o << >> = s
         /\ t # << >> => Append(s, Head(t)) \o Tail(t) = s \o t
<1>1. << >> \o t = t /\ s \o << >> = s
  OBVIOUS
<1>2. ASSUME t # << >>
      PROVE  Append(s, Head(t)) \o Tail(t) = s \o t
  <2> DEFINE u == Append(s, Head(t))
  <2>1. /\ Len(t) \in Nat \ {0} /\ Len(s) \in Nat /\ Head(t) = t[1] /\ Tail(t) \in Seq(Machines)
        /\ Len(Tail(t)) = Len(t) - 1 /\ \A i \in 1 .. Len(t) - 1 : Tail(t)[i] = t[i + 1]
    BY <1>2
  <2>2. /\ u \in Seq(Machines) /\ Len(u) = Len(s) + 1 /\ u[Len(s) + 1] = t[1]
        /\ \A i \in 1 .. Len(s) : u[i] = s[i]
    BY <1>2, <2>1
  <2> HIDE DEF u
  <2>3. u \o Tail(t) \in Seq(Machines) /\ s \o t \in Seq(Machines)
        /\ Len(u \o Tail(t)) = Len(s) + Len(t) /\ Len(s \o t) = Len(s) + Len(t)
    BY <2>1, <2>2
  <2>4. ASSUME NEW i \in 1 .. Len(s) + Len(t)
        PROVE  (u \o Tail(t))[i] = (s \o t)[i]
    <3>1. CASE i <= Len(s)
      BY <2>1, <2>2, <3>1
    <3>2. CASE i = Len(s) + 1
      BY <2>1, <2>2, <3>2
    <3>3. CASE i > Len(s) + 1
      <4> DEFINE j == i - Len(s) - 1
      <4>1. j \in 1 .. Len(t) - 1 /\ i = Len(u) + j /\ i = Len(s) + (j + 1) /\ j + 1 \in 1 .. Len(t)
        BY <2>1, <2>2, <3>3
      <4> HIDE DEF j
      <4>2. (u \o Tail(t))[Len(u) + j] = Tail(t)[j]
        BY <2>1, <2>2, <4>1
      <4>3. (s \o t)[Len(s) + (j + 1)] = t[j + 1]
        BY <2>1, <4>1
      <4>4. QED
        BY <2>1, <4>1, <4>2, <4>3
    <3>4. i <= Len(s) \/ i = Len(s) + 1 \/ i > Len(s) + 1
      BY <2>1
    <3>5. QED
      BY <3>1, <3>2, <3>3, <3>4
  <2>5. QED
    BY <2>3, <2>4 DEF u
<1>3. QED
  BY <1>1, <1>2

-----------------------------------------------------------------------------
(* What the steps do                                                         *)

\* What x's machine holds when x is left as q, while no other handler of it runs.
Leaves(x, q) ==
  IF q.pc # "off"
  THEN Elements(q.started) \union (IF q.pc \in StopPhases THEN Elements(q.todo) ELSE {})
  ELSE IF role'[HomeOf[x]] = "Active" THEN Elements(Remote(HomeOf[x], plan'[HomeOf[x]])) ELSE {}

\* The handler x sends these calls, reads the answer it waits for, or waits no more.
SendEffect(x, q, new) ==
  /\ \A c \in new : /\ c.by = x /\ c.live /\ c.at = "sent" /\ c.to = Head(q.todo)
                    /\ q.pc = IF c.kind = "start" THEN "asking" ELSE "telling"
  /\ \A c, d \in new : c = d
  /\ q.pc \in {"asking", "telling"} => new # {}
  /\ calls' \subseteq Call
  /\ new \subseteq calls' /\ \A c \in calls : c.by # x => c \in calls'
  /\ \A c \in calls' :
       \/ c \in new
       \/ c \in calls /\ (c.by = x => ~c.live)
       \/ /\ ~c.live /\ c.by = x /\ HomeOf[x] \in strayed'
          /\ \E d \in calls : c.by = d.by /\ c.to = d.to /\ c.kind = d.kind /\ c.at = d.at

\* A step of the handler x, which leaves it as q, having sent these calls.
HandlerEffect(x, q, new) ==
  /\ q \in Handler /\ Planned(HomeOf[x], q)
  /\ handler' = [handler EXCEPT ![x] = q]
  /\ SendEffect(x, q, new)
  /\ broken' \in 0 .. MaxBroken
  /\ strayed \subseteq strayed' /\ strayed' \subseteq strayed \union {HomeOf[x]}

\* What it may do to the machine it runs on.
HomeEffect(x, q) ==
  LET o == HomeOf[x] IN
  /\ role' \in [Machines -> Roles] /\ plan' \in [Machines -> HostList]
  /\ rpc' \in [Machines -> Machines \union {NoOne}]
  /\ \A m \in Machines \ {o} : role'[m] = role[m] /\ plan'[m] = plan[m] /\ rpc'[m] = rpc[m]
  /\ rpc'[o] \in {rpc[o], NoOne, o}
  /\ At(x, "off") => UNCHANGED pools /\ (o \in strayed' \/ ~Busy(o))
  /\ o \notin strayed' /\ q.pc \notin {"off", "stop", "spawn"} => role'[o] # "Active"

\* And what becomes of the hosts.
HostsEffect(x, q) ==
  LET o == HomeOf[x] IN
  o \notin strayed' =>
    /\ Leaves(x, q) \subseteq Held(o)
    /\ \A h \in Held(o) \ Leaves(x, q) : rpc[h] # o
    /\ \A h \in Elements(q.started) :
         \/ h \in Elements(handler[x].started)
         \/ \E c \in calls : c.kind = "start" /\ c.at = "accepted" /\ OrchestratorOf(c) = o /\ c.to = h
    /\ NoneTwice(q.started, crossed)
    /\ q.pc \in StopPhases => NoneTwice(q.todo, crossed)
    /\ q.pc = "off" /\ role'[o] = "Active" => NoneTwice(Remote(o, plan'[o]), crossed)

\* A step of the machine that is called.
CallEffect(c, at) ==
  /\ c \in calls /\ Answered([c EXCEPT !.at = at])
  /\ at \in {"spawn", "bind", "accepted", "refused"}
  /\ calls' = (calls \ {c}) \union {[c EXCEPT !.at = at]}
  /\ UNCHANGED <<handler, broken, strayed>>
  /\ role' \in [Machines -> Roles] /\ plan' \in [Machines -> HostList]
  /\ rpc' \in [Machines -> Machines \union {NoOne}]
  /\ \A m \in Machines \ {c.to} : role'[m] = role[m] /\ plan'[m] = plan[m] /\ rpc'[m] = rpc[m]
  /\ role'[c.to] = "Active" => role[c.to] = "Active"
  /\ rpc'[c.to] \in {rpc[c.to], NoOne} \union {o \in PeersOf[c.to] : o = OrchestratorOf(c)}

\* A step that nobody called for; it may end a request that nobody waits for.
WorldEffect(m) ==
  /\ calls' \subseteq calls /\ \A c \in calls : c.live => c \in calls'
  /\ UNCHANGED <<handler, broken>>
  /\ strayed \subseteq strayed' /\ strayed' \subseteq strayed \union {m}
  /\ role' \in [Machines -> Roles] /\ plan' \in [Machines -> HostList]
  /\ rpc' \in [Machines -> Machines \union {NoOne}]
  /\ \A n \in Machines \ {m} : role'[n] = role[n] /\ plan'[n] = plan[n] /\ rpc'[n] = rpc[n]
  /\ role'[m] = "Active" => role[m] = "Active"
  /\ rpc'[m] \in {rpc[m], NoOne}

-----------------------------------------------------------------------------
(* The calls and the handlers                                                *)

\* Machines are only added to those that crossed roles, and every one that does is added.
LEMMA WatchTyped ==
  ASSUME crossed \subseteq Machines, Watch
  PROVE  crossed' \subseteq Machines /\ crossed \subseteq crossed' /\ CrossingIsSeen'
  BY DEF Watch, CrossingIsSeen

\* A step of a handler keeps what CallInv says of calls, handlers and lists.
LEMMA HandlerBase ==
  ASSUME CallInv, Watch, NEW x \in Handlers, NEW q, NEW new,
         HandlerEffect(x, q, new), HomeEffect(x, q)
  PROVE  CallInv'
<1> DEFINE o == HomeOf[x]
<1>1. /\ handler \in [Handlers -> Handler] /\ o \in Machines /\ calls \subseteq Call
      /\ strayed \subseteq Machines /\ crossed \subseteq Machines
  BY HandlersHaveHomes DEF CallInv, ClusterTypeOK
<1>2. /\ handler' \in [Handlers -> Handler] /\ handler'[x] = q
      /\ \A y \in Handlers \ {x} : handler'[y] = handler[y]
  BY <1>1 DEF HandlerEffect, SendEffect
<1>3. \A c \in Call : c.by \in Handlers
  BY DEF Call
<1>4. crossed' \subseteq Machines /\ CrossingIsSeen'
  BY <1>1, WatchTyped
<1>5. ClusterTypeOK'
  <2>1. strayed' \subseteq Machines
    BY <1>1 DEF HandlerEffect, SendEffect
  <2>2. QED
    BY <1>2, <1>4, <2>1 DEF ClusterTypeOK, HandlerEffect, SendEffect, HomeEffect
<1>6. CallsAreWaitedFor'
  <2>1. calls' \subseteq Call /\ CallsAreWaitedFor
    BY DEF HandlerEffect, SendEffect, CallInv
  <2>2. ASSUME NEW c \in calls', c.live
        PROVE  c \in new \/ (c \in calls /\ c.by # x /\ c.by \in Handlers)
    BY <1>3, <2>1, <2>2 DEF HandlerEffect, SendEffect
  <2>3. ASSUME NEW c \in calls', c.live
        PROVE  /\ handler'[c.by].pc = IF c.kind = "start" THEN "asking" ELSE "telling"
               /\ c.to = Head(handler'[c.by].todo)
    BY <1>2, <2>1, <2>2, <2>3 DEF HandlerEffect, SendEffect, CallsAreWaitedFor, At
  <2>4. ASSUME NEW c \in calls', ~c.live
        PROVE  OrchestratorOf(c) \in strayed'
    BY <2>1, <2>4 DEF HandlerEffect, SendEffect, CallsAreWaitedFor, OrchestratorOf
  <2>5. ASSUME NEW c \in calls', NEW d \in calls', c.live, d.live, c.by = d.by
        PROVE  c = d
    BY <2>1, <2>2, <2>5 DEF HandlerEffect, SendEffect, CallsAreWaitedFor
  <2>6. QED
    BY <2>3, <2>4, <2>5 DEF CallsAreWaitedFor, At, OrchestratorOf
<1>7. AnswersArePeers'
  <2>1. ASSUME NEW c \in calls'
        PROVE  Answered(c)
    BY DEF HandlerEffect, SendEffect, CallInv, AnswersArePeers, Answered, FromPeer, OrchestratorOf
  <2>2. \A h \in Machines : rpc'[h] \in {NoOne, h} \union PeersOf[h]
    BY DEF HomeEffect, CallInv, AnswersArePeers
  <2>3. QED
    BY <2>1, <2>2 DEF AnswersArePeers, Answered, FromPeer, OrchestratorOf
<1>8. ListsArePlanned'
  BY <1>2 DEF HandlerEffect, CallInv, ListsArePlanned
<1>9. OneAtATime'
  <2>1. OneAtATime /\ strayed \subseteq strayed'
    BY DEF CallInv, HandlerEffect
  <2>2. ASSUME NEW y \in Handlers \ {x}, HomeOf[y] = o, o \notin strayed', q.pc # "off" \/ ~At(x, "off")
        PROVE  At(y, "off")
    BY <1>1, <2>1, <2>2 DEF HomeEffect, OneAtATime, Busy
  <2>3. ASSUME NEW y \in Handlers, HomeOf[y] \notin strayed', handler'[y].pc \notin {"off", "stop", "spawn"}
        PROVE  role'[HomeOf[y]] # "Active"
    <3>1. CASE y = x
      BY <1>2, <2>3, <3>1 DEF HomeEffect
    <3>2. CASE y # x /\ HomeOf[y] # o
      BY <1>2, <2>1, <2>3, <3>2, HandlersHaveHomes DEF HomeEffect, OneAtATime
    <3>3. CASE y # x /\ HomeOf[y] = o
      <4>1. At(x, "off")
        BY <1>2, <2>2, <2>3, <3>3 DEF At
      <4>2. role' = role
        BY <4>1 DEF HomeEffect, pools
      <4>3. QED
        BY <1>2, <2>1, <2>3, <3>3, <4>2 DEF OneAtATime
    <3>4. QED
      BY <3>1, <3>2, <3>3
  <2>4. ASSUME NEW y \in Handlers, NEW z \in Handlers, HomeOf[y] = HomeOf[z], HomeOf[y] \notin strayed',
               handler'[y].pc # "off", handler'[z].pc # "off"
        PROVE  y = z
    BY <1>2, <2>1, <2>2, <2>4 DEF OneAtATime, At
  <2>5. QED
    BY <2>3, <2>4 DEF OneAtATime, At
<1>10. QED
  BY <1>4, <1>5, <1>6, <1>7, <1>8, <1>9 DEF CallInv

\* So does a step of a call on the machine that it reached.
LEMMA CallBase ==
  ASSUME CallInv, Watch, NEW c \in calls, NEW at, CallEffect(c, at)
  PROVE  CallInv'
<1> DEFINE new == [c EXCEPT !.at = at]
<1>1. /\ calls \subseteq Call /\ strayed \subseteq Machines /\ crossed \subseteq Machines
  BY DEF CallInv, ClusterTypeOK
<1>2. /\ new \in Call /\ new.by = c.by /\ new.to = c.to /\ new.kind = c.kind /\ new.live = c.live
      /\ new.at = at
  BY <1>1 DEF Call, CallEffect
<1>3. calls' = (calls \ {c}) \union {new} /\ Answered(new)
  BY DEF CallEffect
<1> HIDE DEF new
<1>4. crossed' \subseteq Machines /\ CrossingIsSeen'
  BY <1>1, WatchTyped
<1>5. handler' = handler /\ strayed' = strayed /\ broken' = broken
  BY DEF CallEffect
<1>6. ClusterTypeOK'
  BY <1>1, <1>2, <1>3, <1>4, <1>5 DEF ClusterTypeOK, CallEffect, CallInv
<1>7. CallsAreWaitedFor'
  BY <1>2, <1>3, <1>5 DEF CallsAreWaitedFor, CallInv, At, OrchestratorOf
<1>8. AnswersArePeers'
  <2>1. \A d \in calls' : Answered(d)
    BY <1>3 DEF CallInv, AnswersArePeers
  <2>2. \A h \in Machines : rpc'[h] \in {NoOne, h} \union PeersOf[h]
    BY DEF CallEffect, CallInv, AnswersArePeers
  <2>3. QED
    BY <2>1, <2>2 DEF AnswersArePeers, Answered, FromPeer, OrchestratorOf
<1>9. ListsArePlanned'
  BY <1>5 DEF CallInv, ListsArePlanned
<1>10. OneAtATime'
  BY <1>5, HandlersHaveHomes DEF CallInv, OneAtATime, At, CallEffect
<1>11. QED
  BY <1>4, <1>6, <1>7, <1>8, <1>9, <1>10 DEF CallInv

\* So does a pool or a host that fails, or a handler of a host that is forgotten.
LEMMA WorldBase ==
  ASSUME CallInv, Watch, NEW m \in Machines, WorldEffect(m)
  PROVE  CallInv'
<1>1. /\ calls \subseteq Call /\ strayed \subseteq Machines /\ crossed \subseteq Machines
  BY DEF CallInv, ClusterTypeOK
<1>2. crossed' \subseteq Machines /\ CrossingIsSeen'
  BY <1>1, WatchTyped
<1>3. ClusterTypeOK'
  BY <1>1, <1>2 DEF ClusterTypeOK, WorldEffect, CallInv
<1>4. CallsAreWaitedFor'
  BY DEF CallsAreWaitedFor, CallInv, At, OrchestratorOf, WorldEffect
<1>5. AnswersArePeers'
  BY DEF WorldEffect, CallInv, AnswersArePeers, Answered, FromPeer, OrchestratorOf
<1>6. ListsArePlanned'
  BY DEF CallInv, ListsArePlanned, WorldEffect
<1>7. OneAtATime'
  BY HandlersHaveHomes DEF CallInv, OneAtATime, At, WorldEffect
<1>8. QED
  BY <1>2, <1>3, <1>4, <1>5, <1>6, <1>7 DEF CallInv

-----------------------------------------------------------------------------
(* What a machine holds, while its calls do not overlap                      *)

\* Without a handler under way, an orchestrator holds what its plan names while it is active.
LEMMA HeldWhenIdle ==
  ASSUME CallInv, NEW o \in Machines \ strayed, ~Busy(o)
  PROVE  Held(o) = IF role[o] = "Active" THEN Elements(Remote(o, plan[o])) ELSE {}
<1>1. \A x \in Handlers : HomeOf[x] = o => HandlerHolds(x) = {}
  <2>1. ASSUME NEW x \in Handlers, HomeOf[x] = o
        PROVE  HandlerHolds(x) = {}
    <3>1. handler[x] = Off
      BY <2>1 DEF CallInv, ListsArePlanned, Planned, Busy, At
    <3>2. handler[x].pc = "off" /\ handler[x].started = << >>
      BY <3>1 DEF Off
    <3>3. QED
      BY <3>2 DEF HandlerHolds, Elements
  <2>2. QED
    BY <2>1
<1>2. \A c \in calls : OrchestratorOf(c) = o => ~CallHolds(c)
  <2>1. \A c \in calls : c.by \in Handlers
    BY DEF CallInv, ClusterTypeOK, Call
  <2>2. QED
    BY <2>1 DEF CallInv, CallsAreWaitedFor, OrchestratorOf, CallHolds, Busy, At
<1>3. QED
  BY <1>1, <1>2, Zenon DEF Held, PoolHolds

\* With one under way, it holds what that handler keeps, and what its live call may start.
LEMMA HeldWhenBusy ==
  ASSUME CallInv, NEW x \in Handlers, HomeOf[x] \notin strayed, ~At(x, "off")
  PROVE  /\ handler[x].pc \notin {"asking", "telling"} => Held(HomeOf[x]) = HandlerHolds(x)
         /\ \A c \in calls : c.live /\ c.by = x =>
              Held(HomeOf[x]) = HandlerHolds(x) \union (IF CallHolds(c) THEN {c.to} ELSE {})
<1> DEFINE o == HomeOf[x]
<1>1. /\ \A c \in calls : c.by \in Handlers
      /\ CallsAreWaitedFor /\ OneAtATime /\ ListsArePlanned
  BY DEF CallInv, ClusterTypeOK, Call
<1>2. PoolHolds(o) = {}
  BY DEF PoolHolds, Busy
<1>3. ASSUME NEW y \in Handlers \ {x}, HomeOf[y] = o
      PROVE  At(y, "off") /\ HandlerHolds(y) = {}
  <2>1. At(y, "off")
    BY <1>1, <1>3 DEF OneAtATime
  <2>2. handler[y] = Off
    BY <1>1, <2>1 DEF ListsArePlanned, Planned, At
  <2>3. handler[y].pc = "off" /\ handler[y].started = << >>
    BY <2>2 DEF Off
  <2>4. QED
    BY <2>1, <2>3 DEF HandlerHolds, Elements
<1>4. UNION {HandlerHolds(y) : y \in {z \in Handlers : HomeOf[z] = o}} = HandlerHolds(x)
  BY <1>3, Zenon
<1>5. \A c \in calls : OrchestratorOf(c) = o /\ CallHolds(c) => c.by = x /\ c.live
  BY <1>1, <1>3 DEF CallsAreWaitedFor, OrchestratorOf, CallHolds, At
<1>6. Held(o) = HandlerHolds(x) \union {c.to : c \in {d \in calls : OrchestratorOf(d) = o /\ CallHolds(d)}}
  <2> DEFINE H == UNION {HandlerHolds(y) : y \in {z \in Handlers : HomeOf[z] = o}}
             C == {c.to : c \in {d \in calls : OrchestratorOf(d) = o /\ CallHolds(d)}}
  <2>1. Held(o) = PoolHolds(o) \union H \union C
    BY DEF Held
  <2>2. H = HandlerHolds(x)
    BY <1>4
  <2> HIDE DEF H, C
  <2>3. Held(o) = HandlerHolds(x) \union C
    BY <1>2, <2>1, <2>2
  <2>4. QED
    BY <2>3 DEF C
<1>7. ASSUME handler[x].pc \notin {"asking", "telling"}
      PROVE  Held(o) = HandlerHolds(x)
  <2>1. \A c \in calls : ~(OrchestratorOf(c) = o /\ CallHolds(c))
    BY <1>1, <1>5, <1>7 DEF CallsAreWaitedFor, At
  <2>2. QED
    BY <1>6, <2>1
<1>8. ASSUME NEW c \in calls, c.live, c.by = x
      PROVE  Held(o) = HandlerHolds(x) \union (IF CallHolds(c) THEN {c.to} ELSE {})
  <2>1. \A d \in calls : OrchestratorOf(d) = o /\ CallHolds(d) => d = c
    BY <1>1, <1>5, <1>8 DEF CallsAreWaitedFor
  <2>2. OrchestratorOf(c) = o
    BY <1>8 DEF OrchestratorOf
  <2>3. {d.to : d \in {e \in calls : OrchestratorOf(e) = o /\ CallHolds(e)}} =
          IF CallHolds(c) THEN {c.to} ELSE {}
    BY <2>1, <2>2
  <2>4. QED
    BY <1>6, <2>3
<1>9. QED
  BY <1>7, <1>8

\* The same, phase by phase.
LEMMA HeldByPhase ==
  ASSUME CallInv, NEW x \in Handlers, HomeOf[x] \notin strayed
  PROVE  LET h == handler[x]
             held == Held(HomeOf[x]) IN
         /\ h.pc \in {"ask", "spawn"} => held = Elements(h.started)
         /\ h.pc \in {"stop", "tell"} => held = Elements(h.todo)
         /\ \A c \in calls : c.live /\ c.by = x /\ c.kind = "start" =>
              held = Elements(h.started) \union (IF c.at \in {"bind", "accepted"} THEN {c.to} ELSE {})
         /\ \A c \in calls : c.live /\ c.by = x /\ c.kind = "stop" =>
              held = Elements(Tail(h.todo)) \union (IF c.at \in {"sent", "refused"} THEN {c.to} ELSE {})
<1> DEFINE h == handler[x]
           held == Held(HomeOf[x])
<1>1. CallsAreWaitedFor /\ Planned(HomeOf[x], h) /\ Elements(<< >>) = {}
  BY DEF CallInv, ListsArePlanned, Elements
<1>2. CASE h.pc \in {"ask", "spawn"}
  BY <1>1, <1>2, HeldWhenBusy DEF HandlerHolds, At, CallsAreWaitedFor
<1>3. CASE h.pc \in {"stop", "tell"}
  <2>1. h.started = << >>
    BY <1>1, <1>3 DEF Planned, StopPhases
  <2>2. QED
    BY <1>1, <1>3, <2>1, HeldWhenBusy DEF HandlerHolds, At, CallsAreWaitedFor
<1>4. ASSUME NEW c \in calls, c.live, c.by = x, c.kind = "start"
      PROVE  held = Elements(h.started) \union (IF c.at \in {"bind", "accepted"} THEN {c.to} ELSE {})
  <2>1. h.pc = "asking"
    BY <1>1, <1>4 DEF CallsAreWaitedFor, At
  <2>2. QED
    BY <1>4, <2>1, HeldWhenBusy DEF HandlerHolds, At, CallHolds
<1>5. ASSUME NEW c \in calls, c.live, c.by = x, c.kind = "stop"
      PROVE  held = Elements(Tail(h.todo)) \union (IF c.at \in {"sent", "refused"} THEN {c.to} ELSE {})
  <2>1. h.pc = "telling"
    BY <1>1, <1>5 DEF CallsAreWaitedFor, At
  <2>2. h.started = << >>
    BY <1>1, <2>1 DEF Planned, StopPhases
  <2>3. QED
    BY <1>1, <1>5, <2>1, <2>2, HeldWhenBusy DEF HandlerHolds, At, CallHolds
<1>6. QED
  BY <1>1, <1>2, <1>3, <1>4, <1>5 DEF CallsAreWaitedFor, At

-----------------------------------------------------------------------------
(* The steps of handlers                                                     *)

\* A handler that sends nothing leaves the calls as they are.
LEMMA SendsNothing ==
  ASSUME CallInv, NEW x \in Handlers, handler[x].pc \notin {"asking", "telling"}, calls' = calls,
         NEW q, q.pc \notin {"asking", "telling"}
  PROVE  SendEffect(x, q, {})
<1>1. \A c \in calls : c.by = x => ~c.live
  BY DEF CallInv, CallsAreWaitedFor, At
<1>2. QED
  BY <1>1 DEF SendEffect, CallInv, ClusterTypeOK

\* A handler that reads an answer has no call any more.
LEMMA ReadsAnswer ==
  ASSUME CallInv, NEW x \in Handlers, NEW c \in calls, c.by = x, c.live, calls' = calls \ {c},
         NEW q, q.pc \notin {"asking", "telling"}
  PROVE  SendEffect(x, q, {})
<1>1. \A d \in calls : d.by = x /\ d # c => ~d.live
  BY DEF CallInv, CallsAreWaitedFor
<1>2. QED
  BY <1>1 DEF SendEffect, CallInv, ClusterTypeOK

\* A handler that sends has the one call that it sent.
LEMMA SendsOne ==
  ASSUME CallInv, NEW x \in Handlers, handler[x].pc \notin {"asking", "telling"},
         NEW kind \in {"start", "stop"}, NEW q, q.todo \in Seq(Machines), q.todo # << >>,
         q.pc = IF kind = "start" THEN "asking" ELSE "telling",
         calls' = calls \union {[kind |-> kind, by |-> x, to |-> Head(q.todo),
                                 at |-> "sent", live |-> TRUE]}
  PROVE  \E new : SendEffect(x, q, new)
<1> DEFINE c == [kind |-> kind, by |-> x, to |-> Head(q.todo), at |-> "sent", live |-> TRUE]
<1>1. c \in Call
  BY ElementsOfParts DEF Call
<1>2. /\ c.kind = kind /\ c.by = x /\ c.to = Head(q.todo) /\ c.at = "sent" /\ c.live
      /\ calls' = calls \union {c}
  OBVIOUS
<1> HIDE DEF c
<1>3. \A d \in calls : d.by = x => ~d.live
  BY DEF CallInv, CallsAreWaitedFor, At
<1>4. SendEffect(x, q, {c})
  BY <1>1, <1>2, <1>3 DEF SendEffect, CallInv, ClusterTypeOK
<1>5. QED
  BY <1>4

\* A handler whose connection breaks has no call it waits for, and its machine has strayed.
LEMMA Breaks ==
  ASSUME CallInv, NEW x \in Handlers, NEW lost \in BOOLEAN, Break(x, lost), NEW q, q.pc \notin {"asking", "telling"}
  PROVE  SendEffect(x, q, {}) /\ strayed' = strayed \union {HomeOf[x]}
<1>1. PICK c \in calls :
        /\ c.by = x /\ c.live
        /\ calls' = (calls \ {c}) \union
                      (IF lost \/ c.at \in {"accepted", "refused"} THEN {}
                       ELSE {[c EXCEPT !.live = FALSE]})
  BY DEF Break
<1>2. calls \subseteq Call /\ strayed' = strayed \union {HomeOf[x]}
  BY DEF CallInv, ClusterTypeOK, Break
<1> DEFINE dead == [c EXCEPT !.live = FALSE]
<1>3. /\ dead \in Call /\ ~dead.live
      /\ dead.by = c.by /\ dead.to = c.to /\ dead.kind = c.kind /\ dead.at = c.at
  BY <1>2 DEF Call
<1>4. calls' \subseteq (calls \ {c}) \union {dead} /\ calls \ {c} \subseteq calls'
  BY <1>1
<1> HIDE DEF dead
<1>5. \A d \in calls : d.by = x /\ d # c => ~d.live
  BY <1>1 DEF CallInv, CallsAreWaitedFor
<1>6. QED
  BY <1>1, <1>2, <1>3, <1>4, <1>5 DEF SendEffect

\* What is known of a handler and its machine before a step.
Facts(x) ==
  LET o == HomeOf[x]
      h == handler[x] IN
  /\ o \in Machines /\ h \in Handler /\ Planned(o, h) /\ handler \in [Handlers -> Handler]
  /\ h.plan \in Seq(Machines) /\ h.todo \in Seq(Machines) /\ h.started \in Seq(Machines)
  /\ role \in [Machines -> Roles] /\ plan \in [Machines -> HostList] /\ plan[o] \in Seq(Machines)
  /\ rpc \in [Machines -> Machines \union {NoOne}]
  /\ broken \in 0 .. MaxBroken /\ MaxBroken \in Nat
  /\ o \notin strayed /\ h.pc \notin {"off", "stop", "spawn"} => role[o] # "Active"

\* What the invariant says of one handler, gathered.
LEMMA FactsKnown ==
  ASSUME CallInv, NEW x \in Handlers
  PROVE  Facts(x)
<1>1. handler[x] \in Handler /\ HomeOf[x] \in Machines /\ plan[HomeOf[x]] \in Seq(Machines)
  BY HandlersHaveHomes DEF CallInv, ClusterTypeOK, HostList
<1>2. QED
  BY <1>1, MaxBrokenIsNat DEF CallInv, ClusterTypeOK, ListsArePlanned, OneAtATime, Facts, Handler, HostList

\* A step that leaves all pools alone does to its own machine what a handler may.
LEMMA PoolsStay ==
  ASSUME CallInv, NEW x \in Handlers, UNCHANGED pools, NEW q,
         At(x, "off") => HomeOf[x] \in strayed' \/ ~Busy(HomeOf[x]),
         HomeOf[x] \notin strayed' /\ q.pc \notin {"off", "stop", "spawn"} => role[HomeOf[x]] # "Active"
  PROVE  HomeEffect(x, q)
  BY FactsKnown DEF Facts, pools, HomeEffect

\* So does one that changes the pool of its own machine.
LEMMA PoolChanges ==
  ASSUME CallInv, NEW x \in Handlers, ~At(x, "off"), NEW q,
         NEW r \in Roles, NEW p \in Seq(Machines), Become(HomeOf[x], r, p),
         rpc' = rpc \/ Serve(HomeOf[x], NoOne) \/ Serve(HomeOf[x], HomeOf[x]),
         HomeOf[x] \notin strayed' /\ q.pc \notin {"off", "stop", "spawn"} => r # "Active"
  PROVE  /\ HomeEffect(x, q)
         /\ role'[HomeOf[x]] = r /\ plan'[HomeOf[x]] = p
<1> DEFINE o == HomeOf[x]
<1>1. Facts(x)
  BY FactsKnown
<1>2. /\ role' = [role EXCEPT ![o] = r] /\ plan' = [plan EXCEPT ![o] = p]
      /\ rpc' = rpc \/ rpc' = [rpc EXCEPT ![o] = NoOne] \/ rpc' = [rpc EXCEPT ![o] = o]
  BY DEF Become, Serve
<1>3. /\ o \in Machines /\ role \in [Machines -> Roles] /\ plan \in [Machines -> HostList]
      /\ rpc \in [Machines -> Machines \union {NoOne}] /\ p \in HostList
  BY <1>1 DEF Facts, HostList
<1>4. /\ role' \in [Machines -> Roles] /\ role'[o] = r /\ plan' \in [Machines -> HostList] /\ plan'[o] = p
      /\ \A m \in Machines \ {o} : role'[m] = role[m] /\ plan'[m] = plan[m]
  BY <1>2, <1>3
<1>5. /\ rpc' \in [Machines -> Machines \union {NoOne}] /\ rpc'[o] \in {rpc[o], NoOne, o}
      /\ \A m \in Machines \ {o} : rpc'[m] = rpc[m]
  BY <1>2, <1>3
<1>6. QED
  BY <1>4, <1>5 DEF HomeEffect

\* The plan of a request names peers, or this machine alone.
LEMMA PlanTyped ==
  ASSUME NEW m \in Machines, NEW requested \in Requests
  PROVE  /\ MakePlan(m, requested) \in Seq(Machines)
         /\ Remote(m, MakePlan(m, requested)) \in Seq(Machines)
<1>1. requested \in Seq(Machines) /\ << m >> \in Seq(Machines) /\ << >> \in Seq(Machines)
  BY RequestsAreNames
<1>2. QED
  BY <1>1 DEF MakePlan, Remote

Points == {"off", "ask", "asking", "spawn", "stop", "tell", "telling"}

\* The parts of a handler, and those of one that is off.
LEMMA HandlerTyped ==
  /\ Handler = [pc : Points, plan : Seq(Machines), todo : Seq(Machines), started : Seq(Machines)]
  /\ << >> \in Seq(Machines)
  /\ Off \in Handler /\ Off.pc = "off" /\ Off.plan = << >> /\ Off.todo = << >> /\ Off.started = << >>
<1>1. << >> \in Seq(Machines) /\ "off" \in Points
  BY DEF Points
<1>2. Handler = [pc : Points, plan : Seq(Machines), todo : Seq(Machines), started : Seq(Machines)]
  BY DEF Handler, HostList, Points
<1>3. QED
  BY <1>1, <1>2 DEF Off

\* A handler that only goes on.
LEMMA PcChange ==
  ASSUME NEW h \in Handler, NEW pc \in Points
  PROVE  LET q == [h EXCEPT !.pc = pc] IN
         /\ q \in Handler
         /\ q.pc = pc /\ q.plan = h.plan /\ q.todo = h.todo /\ q.started = h.started
  BY HandlerTyped

\* A handler that goes on with another list of peers to call.
LEMMA TodoChange ==
  ASSUME NEW h \in Handler, NEW pc \in Points, NEW t \in Seq(Machines)
  PROVE  LET q == [h EXCEPT !.pc = pc, !.todo = t] IN
         /\ q \in Handler
         /\ q.pc = pc /\ q.plan = h.plan /\ q.todo = t /\ q.started = h.started
  BY HandlerTyped

\* A handler that goes on with a plan and the peers of it.
LEMMA PlanChange ==
  ASSUME NEW h \in Handler, NEW pc \in Points,
         NEW p \in Seq(Machines), NEW t \in Seq(Machines)
  PROVE  LET q == [h EXCEPT !.pc = pc, !.plan = p, !.todo = t] IN
         /\ q \in Handler
         /\ q.pc = pc /\ q.plan = p /\ q.todo = t /\ q.started = h.started
  BY HandlerTyped

\* Where a handler may be.
LEMMA PointsNamed == {"off", "ask", "asking", "spawn", "stop", "tell", "telling"} \subseteq Points
  BY DEF Points

\* A start of the pool does what a handler may.
LEMMA StartSteps ==
  ASSUME ClusterInv, NEW x \in Handlers, NEW requested \in Requests, Start(x, requested)
  PROVE  \E q, new : HandlerEffect(x, q, new) /\ HomeEffect(x, q) /\ HostsEffect(x, q)
<1> DEFINE o == HomeOf[x]
           p == MakePlan(o, requested)
           q == [Off EXCEPT !.pc = "ask", !.plan = p, !.todo = Remote(o, p)]
<1>0. CallInv /\ Facts(x)
  BY FactsKnown DEF ClusterInv
<1>1. /\ At(x, "off") /\ handler' = [handler EXCEPT ![x] = q]
      /\ strayed' = IF Orchestrates(o) THEN strayed \union {o} ELSE strayed
      /\ UNCHANGED <<pools, calls, broken>>
  BY DEF Start, Begin, Update
<1>2. p \in Seq(Machines) /\ Remote(o, p) \in Seq(Machines)
  BY <1>0, PlanTyped DEF Facts
<1> HIDE DEF p
<1>3. /\ q \in Handler
      /\ q.pc = "ask" /\ q.plan = p /\ q.todo = Remote(o, p) /\ q.started = << >>
  BY <1>2, HandlerTyped, PointsNamed, PlanChange
<1> HIDE DEF q
<1>4. Planned(o, q)
  BY <1>2, <1>3, ConcatShift DEF Planned, StopPhases
<1>5. HandlerEffect(x, q, {})
  BY <1>0, <1>1, <1>3, <1>4, SendsNothing DEF HandlerEffect, At, Facts
<1>6. HomeEffect(x, q)
  BY <1>0, <1>1, PoolsStay DEF Orchestrates, Facts
<1>7. HostsEffect(x, q)
  <2>1. ASSUME o \notin strayed'
        PROVE  Held(o) = {}
    <3>1. ~Orchestrates(o) /\ o \in Machines \ strayed
      BY <1>0, <1>1, <2>1 DEF Facts
    <3>2. QED
      BY <1>0, <3>1, HeldWhenIdle DEF Orchestrates
  <2>2. Elements(q.started) = {} /\ NoneTwice(q.started, crossed)
    BY <1>3 DEF Elements, NoneTwice
  <2>3. QED
    BY <1>3, <2>1, <2>2 DEF HostsEffect, Leaves, StopPhases
<1>8. QED
  BY <1>5, <1>6, <1>7

\* A stop of the pool does what a handler may.
LEMMA StopPlanSteps ==
  ASSUME ClusterInv, NEW x \in Handlers, StopPlan(x)
  PROVE  \E q, new : HandlerEffect(x, q, new) /\ HomeEffect(x, q) /\ HostsEffect(x, q)
<1> DEFINE o == HomeOf[x]
           todo == IF role[o] = "Active" THEN Remote(o, plan[o]) ELSE << >>
           q == [Off EXCEPT !.pc = "stop", !.todo = todo]
<1>0. CallInv /\ Facts(x)
  BY FactsKnown DEF ClusterInv
<1>1. /\ At(x, "off") /\ handler' = [handler EXCEPT ![x] = q]
      /\ strayed' = IF Busy(o) THEN strayed \union {o} ELSE strayed
      /\ UNCHANGED <<pools, calls, broken>>
  BY DEF StopPlan, Update
<1>2. todo \in Seq(Machines)
  BY <1>0 DEF Facts, Remote
<1>3. role[o] # "Active" => Elements(todo) = {} /\ NoneTwice(todo, crossed)
  BY DEF Elements, NoneTwice
<1>4. role[o] = "Active" => todo = Remote(o, plan[o])
  OBVIOUS
<1> HIDE DEF todo
<1>5. /\ q \in Handler
      /\ q.pc = "stop" /\ q.todo = todo /\ q.started = << >>
  BY <1>2, HandlerTyped, PointsNamed, TodoChange
<1> HIDE DEF q
<1>6. Planned(o, q)
  BY <1>5 DEF Planned, StopPhases
<1>7. HandlerEffect(x, q, {})
  BY <1>0, <1>1, <1>5, <1>6, SendsNothing DEF HandlerEffect, At, Facts
<1>8. HomeEffect(x, q)
  BY <1>0, <1>1, <1>5, PoolsStay DEF Facts
<1>9. HostsEffect(x, q)
  <2>1. SUFFICES ASSUME o \notin strayed'
                 PROVE  /\ Held(o) = Elements(todo)
                        /\ NoneTwice(todo, crossed)
    <3>1. Elements(q.started) = {} /\ NoneTwice(q.started, crossed)
      BY <1>5 DEF Elements, NoneTwice
    <3>2. QED
      BY <1>5, <2>1, <3>1 DEF HostsEffect, Leaves, StopPhases
  <2>2. ~Busy(o) /\ o \in Machines \ strayed
    BY <1>0, <1>1, <2>1 DEF Facts
  <2>3. Held(o) = IF role[o] = "Active" THEN Elements(Remote(o, plan[o])) ELSE {}
    BY <1>0, <2>2, HeldWhenIdle
  <2>4. role[o] = "Active" => NoneTwice(Remote(o, plan[o]), crossed)
    BY <2>2 DEF ClusterInv, AskedOnce
  <2>5. QED
    BY <1>3, <1>4, <2>3, <2>4
<1>10. QED
  BY <1>7, <1>8, <1>9

\* The three effects together.
Effect(x) == \E q, new : HandlerEffect(x, q, new) /\ HomeEffect(x, q) /\ HostsEffect(x, q)

\* A handler that goes on to tell the hosts it has started.
LEMMA UndoEffect ==
  ASSUME ClusterInv, NEW x \in Handlers, Undo(x, handler[x].started),
         NEW new, \A q : q.pc \notin {"asking", "telling"} => SendEffect(x, q, new),
         broken' \in 0 .. MaxBroken,
         strayed' = strayed \/ strayed' = strayed \union {HomeOf[x]},
         \A q : q.pc = "tell" => HomeEffect(x, q),
         HomeOf[x] \notin strayed' => Held(HomeOf[x]) = Elements(handler[x].started)
  PROVE  Effect(x)
<1> DEFINE o == HomeOf[x]
           h == handler[x]
           q == [Off EXCEPT !.pc = "tell", !.todo = h.started]
<1>0. CallInv /\ Facts(x)
  BY FactsKnown DEF ClusterInv
<1>1. handler' = [handler EXCEPT ![x] = q]
  BY DEF Undo, Update
<1>2. q \in Handler /\ q.pc = "tell" /\ q.todo = h.started /\ q.started = << >>
  BY <1>0, HandlerTyped, PointsNamed, TodoChange DEF Facts
<1> HIDE DEF q
<1>3. Planned(o, q)
  BY <1>2 DEF Planned, StopPhases
<1>4. HandlerEffect(x, q, new)
  BY <1>1, <1>2, <1>3 DEF HandlerEffect
<1>5. HostsEffect(x, q)
  <2>1. Elements(q.started) = {} /\ NoneTwice(q.started, crossed)
    BY <1>2 DEF Elements, NoneTwice
  <2>2. o \notin strayed' => NoneTwice(h.started, crossed)
    BY DEF ClusterInv, AskedOnce
  <2>3. QED
    BY <1>2, <2>1, <2>2 DEF HostsEffect, Leaves, StopPhases
<1>6. QED
  BY <1>2, <1>4, <1>5 DEF Effect

\* A handler that ends, or is dropped.
LEMMA EndEffect ==
  ASSUME ClusterInv, NEW x \in Handlers, Update(x, Off),
         NEW new, \A q : q.pc \notin {"asking", "telling"} => SendEffect(x, q, new),
         broken' \in 0 .. MaxBroken,
         strayed' = strayed \/ strayed' = strayed \union {HomeOf[x]},
         \A q : q.pc = "off" => HomeEffect(x, q),
         HomeOf[x] \notin strayed' =>
           /\ Held(HomeOf[x]) = Leaves(x, Off)
           /\ role'[HomeOf[x]] = "Active" => NoneTwice(Remote(HomeOf[x], plan'[HomeOf[x]]), crossed)
  PROVE  Effect(x)
<1>1. Off \in Handler /\ Off.pc = "off" /\ Off.started = << >>
  BY HandlerTyped
<1>2. Planned(HomeOf[x], Off)
  BY <1>1 DEF Planned, StopPhases
<1>3. HandlerEffect(x, Off, new)
  BY <1>1, <1>2 DEF HandlerEffect, Update
<1>4. HostsEffect(x, Off)
  <2>1. Elements(Off.started) = {} /\ NoneTwice(Off.started, crossed)
    BY <1>1 DEF Elements, NoneTwice
  <2>2. QED
    BY <1>1, <2>1 DEF HostsEffect, StopPhases
<1>5. QED
  BY <1>1, <1>3, <1>4 DEF Effect

\* So does asking the next peer to host,
LEMMA AskEffect ==
  ASSUME ClusterInv, NEW x \in Handlers, Ask(x)
  PROVE  Effect(x)
<1> DEFINE o == HomeOf[x]
           h == handler[x]
           q == [h EXCEPT !.pc = "asking"]
<1>0. CallInv /\ Facts(x)
  BY FactsKnown DEF ClusterInv
<1>1. /\ h.pc = "ask" /\ h.todo # << >> /\ handler' = [handler EXCEPT ![x] = q]
      /\ calls' = calls \union {[kind |-> "start", by |-> x, to |-> Head(h.todo),
                                 at |-> "sent", live |-> TRUE]}
      /\ UNCHANGED <<pools, broken, strayed>>
  BY DEF Ask, At, HandlerGoto, Update
<1>2. q \in Handler /\ q.pc = "asking" /\ q.plan = h.plan /\ q.todo = h.todo /\ q.started = h.started
  BY <1>0, PcChange, PointsNamed DEF Facts
<1> HIDE DEF q
<1>3. Planned(o, q)
  BY <1>0, <1>1, <1>2 DEF Planned, Facts, StopPhases
<1>4. PICK new : SendEffect(x, q, new)
  BY <1>0, <1>1, <1>2, SendsOne DEF Facts
<1>5. HandlerEffect(x, q, new)
  BY <1>0, <1>1, <1>2, <1>3, <1>4 DEF HandlerEffect, Facts
<1>6. HomeEffect(x, q)
  BY <1>0, <1>1, <1>2, PoolsStay DEF Facts, At
<1>7. HostsEffect(x, q)
  <2>1. o \notin strayed => Held(o) = Elements(h.started) /\ NoneTwice(h.started, crossed)
    BY <1>0, <1>1, HeldByPhase DEF ClusterInv, AskedOnce
  <2>2. QED
    BY <1>1, <1>2, <2>1 DEF HostsEffect, Leaves, StopPhases
<1>8. QED
  BY <1>5, <1>6, <1>7 DEF Effect

\* telling the next one to stop,
LEMMA TellEffect ==
  ASSUME ClusterInv, NEW x \in Handlers, Tell(x)
  PROVE  Effect(x)
<1> DEFINE o == HomeOf[x]
           h == handler[x]
           q == [h EXCEPT !.pc = "telling"]
<1>0. CallInv /\ Facts(x)
  BY FactsKnown DEF ClusterInv
<1>1. /\ h.pc = "tell" /\ h.todo # << >> /\ handler' = [handler EXCEPT ![x] = q]
      /\ calls' = calls \union {[kind |-> "stop", by |-> x, to |-> Head(h.todo),
                                 at |-> "sent", live |-> TRUE]}
      /\ UNCHANGED <<pools, broken, strayed>>
  BY DEF Tell, At, HandlerGoto, Update
<1>2. q \in Handler /\ q.pc = "telling" /\ q.plan = h.plan /\ q.todo = h.todo /\ q.started = h.started
  BY <1>0, PcChange, PointsNamed DEF Facts
<1> HIDE DEF q
<1>3. Planned(o, q) /\ h.started = << >>
  BY <1>0, <1>1, <1>2 DEF Planned, Facts, StopPhases
<1>4. PICK new : SendEffect(x, q, new)
  BY <1>0, <1>1, <1>2, SendsOne DEF Facts
<1>5. HandlerEffect(x, q, new)
  BY <1>0, <1>1, <1>2, <1>3, <1>4 DEF HandlerEffect, Facts
<1>6. HomeEffect(x, q)
  BY <1>0, <1>1, <1>2, PoolsStay DEF Facts, At
<1>7. HostsEffect(x, q)
  <2>1. o \notin strayed => /\ Held(o) = Elements(h.todo)
                            /\ NoneTwice(h.todo, crossed) /\ NoneTwice(h.started, crossed)
    BY <1>0, <1>1, HeldByPhase DEF ClusterInv, AskedOnce, StopPhases
  <2>2. Elements(h.started) = {}
    BY <1>3 DEF Elements
  <2>3. QED
    BY <1>1, <1>2, <2>1, <2>2 DEF HostsEffect, Leaves, StopPhases
<1>8. QED
  BY <1>5, <1>6, <1>7 DEF Effect

\* The answer that a handler reads is the one to the call it waits for.
LEMMA AnswerRead ==
  ASSUME CallInv, NEW x \in Handlers, NEW at, Answer(x, at)
  PROVE  /\ \A q : q.pc \notin {"asking", "telling"} => SendEffect(x, q, {})
         /\ \E c \in calls : /\ c.by = x /\ c.live /\ c.at = at /\ OrchestratorOf(c) = HomeOf[x]
                             /\ c.to = Head(handler[x].todo)
                             /\ c.kind = IF At(x, "telling") THEN "stop" ELSE "start"
<1>1. PICK c \in calls : c.by = x /\ c.live /\ c.at = at /\ calls' = calls \ {c}
  BY DEF Answer
<1>2. /\ At(x, IF c.kind = "start" THEN "asking" ELSE "telling") /\ c.to = Head(handler[x].todo)
      /\ c.kind \in {"start", "stop"}
  BY <1>1 DEF CallInv, CallsAreWaitedFor, ClusterTypeOK, Call
<1>3. c.kind = IF At(x, "telling") THEN "stop" ELSE "start"
  BY <1>2 DEF At
<1>4. \A q : q.pc \notin {"asking", "telling"} => SendEffect(x, q, {})
  BY <1>1, ReadsAnswer
<1>5. QED
  BY <1>1, <1>2, <1>3, <1>4 DEF OrchestratorOf

\* a peer that accepts,
LEMMA AcceptedEffect ==
  ASSUME ClusterInv, NEW x \in Handlers, Accepted(x)
  PROVE  Effect(x)
<1> DEFINE o == HomeOf[x]
           h == handler[x]
           todo == Tail(h.todo)
           started == Append(h.started, Head(h.todo))
           q == [h EXCEPT !.pc = "ask", !.todo = todo, !.started = started]
<1>0. CallInv /\ Facts(x)
  BY FactsKnown DEF ClusterInv
<1>1. /\ h.pc = "asking" /\ Answer(x, "accepted") /\ handler' = [handler EXCEPT ![x] = q]
      /\ UNCHANGED <<pools, broken, strayed>>
  BY DEF Accepted, At, Update
<1>2. h.todo # << >> /\ Remote(o, h.plan) = h.started \o h.todo
      /\ h.todo \in Seq(Machines) /\ h.started \in Seq(Machines)
  BY <1>0, <1>1 DEF Facts, Planned
<1>3. /\ todo \in Seq(Machines) /\ Head(h.todo) \in Machines /\ started \in Seq(Machines)
      /\ Elements(started) = Elements(h.started) \union {Head(h.todo)}
      /\ started \o todo = h.started \o h.todo
  BY <1>2, ElementsOfParts, ConcatShift
<1>4. /\ q \in Handler /\ q.pc = "ask" /\ q.plan = h.plan /\ q.todo = todo /\ q.started = started
  <2>1. h \in Handler /\ "ask" \in Points
    BY <1>0, PointsNamed DEF Facts
  <2> HIDE DEF h, todo, started
  <2>2. QED
    BY <1>3, <2>1, HandlerTyped
<1> HIDE DEF q
<1>5. Planned(o, q)
  BY <1>2, <1>3, <1>4 DEF Planned, StopPhases
<1>6. SendEffect(x, q, {})
  BY <1>0, <1>1, <1>4, AnswerRead
<1>7. HandlerEffect(x, q, {})
  BY <1>0, <1>1, <1>4, <1>5, <1>6 DEF HandlerEffect, Facts
<1>8. HomeEffect(x, q)
  BY <1>0, <1>1, <1>4, PoolsStay DEF Facts, At
<1>9. PICK c \in calls : /\ c.by = x /\ c.live /\ c.at = "accepted" /\ OrchestratorOf(c) = o
                         /\ c.to = Head(h.todo) /\ c.kind = "start"
  BY <1>0, <1>1, AnswerRead DEF At
<1>10. HostsEffect(x, q)
  <2>1. SUFFICES ASSUME o \notin strayed
                 PROVE  /\ Held(o) = Elements(h.started) \union {Head(h.todo)}
                        /\ NoneTwice(Append(h.started, Head(h.todo)), crossed)
    BY <1>1, <1>3, <1>4, <1>9, <2>1 DEF HostsEffect, Leaves, StopPhases
  <2>2. Held(o) = Elements(h.started) \union {Head(h.todo)}
    BY <1>0, <1>9, <2>1, HeldByPhase
  <2>3. NoneTwice(h.started, crossed)
    BY <2>1 DEF ClusterInv, AskedOnce
  <2>4. Head(h.todo) \in Elements(h.started) => Head(h.todo) \in crossed
    BY <1>9, <2>1 DEF ClusterInv, AskedOnce
  <2>5. QED
    BY <1>2, <1>3, <2>2, <2>3, <2>4, TwiceInParts
<1>11. QED
  BY <1>7, <1>8, <1>10 DEF Effect

\* one that refuses, whose predecessors are then told to stop,
LEMMA RefusedEffect ==
  ASSUME ClusterInv, NEW x \in Handlers, Refused(x)
  PROVE  Effect(x)
<1>0. CallInv /\ Facts(x)
  BY FactsKnown DEF ClusterInv
<1>1. /\ handler[x].pc = "asking" /\ Answer(x, "refused") /\ Undo(x, handler[x].started)
      /\ UNCHANGED <<pools, broken, strayed>>
  BY DEF Refused, At
<1>2. \A q : q.pc \notin {"asking", "telling"} => SendEffect(x, q, {})
  BY <1>0, <1>1, AnswerRead
<1>3. PICK c \in calls : c.by = x /\ c.live /\ c.at = "refused" /\ c.kind = "start"
  BY <1>0, <1>1, AnswerRead DEF At
<1>4. HomeOf[x] \notin strayed => Held(HomeOf[x]) = Elements(handler[x].started)
  BY <1>0, <1>3, HeldByPhase
<1>5. \A q : q.pc = "tell" => HomeEffect(x, q)
  BY <1>0, <1>1, PoolsStay DEF Facts, At
<1>6. QED
  BY <1>0, <1>1, <1>2, <1>4, <1>5, UndoEffect DEF Facts

\* spawning the local server,
LEMMA StartLocalEffect ==
  ASSUME ClusterInv, NEW x \in Handlers, StartLocal(x)
  PROVE  Effect(x)
<1> DEFINE o == HomeOf[x]
           h == handler[x]
<1>0. CallInv /\ Facts(x)
  BY FactsKnown DEF ClusterInv
<1>1. h.pc = "ask" /\ h.todo = << >> /\ UNCHANGED <<calls, broken, strayed>>
  BY DEF StartLocal, At
<1>2. \A q : q.pc \notin {"asking", "telling"} => SendEffect(x, q, {})
  BY <1>0, <1>1, SendsNothing
<1>3. CASE role[o] = "Active"
  <2>1. Update(x, Off) /\ UNCHANGED pools /\ o \in strayed
    BY <1>0, <1>1, <1>3 DEF StartLocal, Facts
  <2>2. \A q : q.pc = "off" => HomeEffect(x, q)
    BY <1>0, <1>1, <2>1, PoolsStay DEF At
  <2>3. QED
    BY <1>0, <1>1, <1>2, <2>1, <2>2, EndEffect DEF Facts
<1>4. CASE role[o] # "Active"
  <2> DEFINE q == [h EXCEPT !.pc = "spawn"]
  <2>1. Become(o, "Active", h.plan) /\ rpc' = rpc /\ handler' = [handler EXCEPT ![x] = q]
    BY <1>4 DEF StartLocal, HandlerGoto, Update
  <2>2. q \in Handler /\ q.pc = "spawn" /\ q.plan = h.plan /\ q.todo = h.todo /\ q.started = h.started
    BY <1>0, PcChange, PointsNamed DEF Facts
  <2> HIDE DEF q
  <2>3. Planned(o, q)
    BY <1>0, <1>1, <2>2 DEF Planned, Facts, StopPhases
  <2>4. HandlerEffect(x, q, {})
    BY <1>0, <1>1, <1>2, <2>1, <2>2, <2>3 DEF HandlerEffect, Facts
  <2>5. HomeEffect(x, q)
    BY <1>0, <1>1, <2>1, <2>2, PoolChanges DEF Facts, At, Roles
  <2>6. HostsEffect(x, q)
    <3>1. o \notin strayed => Held(o) = Elements(h.started) /\ NoneTwice(h.started, crossed)
      BY <1>0, <1>1, HeldByPhase DEF ClusterInv, AskedOnce
    <3>2. QED
      BY <1>1, <2>2, <3>1 DEF HostsEffect, Leaves, StopPhases
  <2>7. QED
    BY <2>4, <2>5, <2>6 DEF Effect
<1>5. QED
  BY <1>3, <1>4

\* its start,
LEMMA LocalStartedEffect ==
  ASSUME ClusterInv, NEW x \in Handlers, LocalStarted(x)
  PROVE  Effect(x)
<1> DEFINE o == HomeOf[x]
           h == handler[x]
<1>0. CallInv /\ Facts(x)
  BY FactsKnown DEF ClusterInv
<1>1. /\ h.pc = "spawn" /\ Become(o, "Active", h.plan) /\ Update(x, Off)
      /\ rpc' = rpc \/ Serve(o, o)
      /\ UNCHANGED <<calls, broken, strayed>>
  BY DEF LocalStarted, At
<1>2. \A q : q.pc \notin {"asking", "telling"} => SendEffect(x, q, {})
  BY <1>0, <1>1, SendsNothing
<1>3. \A q : q.pc = "off" =>
        HomeEffect(x, q) /\ role'[o] = "Active" /\ plan'[o] = h.plan
  BY <1>0, <1>1, PoolChanges DEF Facts, At, Roles
<1>4. role'[o] = "Active" /\ plan'[o] = h.plan
  BY <1>3, HandlerTyped
<1>5. Remote(o, h.plan) = h.started
  BY <1>0, <1>1, ConcatShift DEF Facts, Planned
<1>6. o \notin strayed => Held(o) = Elements(h.started) /\ NoneTwice(h.started, crossed)
  BY <1>0, <1>1, HeldByPhase DEF ClusterInv, AskedOnce
<1>7. o \notin strayed => Held(o) = Leaves(x, Off)
  BY <1>4, <1>5, <1>6, HandlerTyped DEF Leaves
<1>8. QED
  BY <1>0, <1>1, <1>2, <1>3, <1>4, <1>5, <1>6, <1>7, EndEffect DEF Facts

\* its failure,
LEMMA LocalFailsEffect ==
  ASSUME ClusterInv, NEW x \in Handlers, LocalFails(x)
  PROVE  Effect(x)
<1> DEFINE o == HomeOf[x]
           h == handler[x]
<1>0. CallInv /\ Facts(x)
  BY FactsKnown DEF ClusterInv
<1>1. /\ h.pc = "spawn" /\ Undo(x, h.started) /\ UNCHANGED <<calls, broken>>
      /\ \/ UNCHANGED pools /\ strayed' = strayed \union {o}
         \/ Become(o, "Failed", << >>) /\ Serve(o, NoOne) /\ strayed' = strayed
  BY DEF LocalFails, At
<1>2. \A q : q.pc \notin {"asking", "telling"} => SendEffect(x, q, {})
  BY <1>0, <1>1, SendsNothing
<1>3. \A q : q.pc = "tell" => HomeEffect(x, q)
  <2>1. CASE UNCHANGED pools /\ strayed' = strayed \union {o}
    BY <1>0, <1>1, <2>1, PoolsStay DEF At
  <2>2. CASE Become(o, "Failed", << >>) /\ Serve(o, NoOne)
    BY <1>0, <1>1, <2>2, PoolChanges, HandlerTyped DEF At, Roles
  <2>3. QED
    BY <1>1, <2>1, <2>2
<1>4. o \notin strayed => Held(o) = Elements(h.started)
  BY <1>0, <1>1, HeldByPhase
<1>5. QED
  BY <1>0, <1>1, <1>2, <1>3, <1>4, UndoEffect DEF Facts

\* the end of the local server,
LEMMA StopLocalEffect ==
  ASSUME ClusterInv, NEW x \in Handlers, StopLocal(x)
  PROVE  Effect(x)
<1> DEFINE o == HomeOf[x]
           h == handler[x]
           q == [h EXCEPT !.pc = "tell"]
<1>0. CallInv /\ Facts(x)
  BY FactsKnown DEF ClusterInv
<1>1. /\ h.pc = "stop" /\ Become(o, "Idle", << >>) /\ Serve(o, NoOne)
      /\ handler' = [handler EXCEPT ![x] = q]
      /\ UNCHANGED <<calls, broken, strayed>>
  BY DEF StopLocal, At, HandlerGoto, Update
<1>2. q \in Handler /\ q.pc = "tell" /\ q.plan = h.plan /\ q.todo = h.todo /\ q.started = h.started
  BY <1>0, PcChange, PointsNamed DEF Facts
<1> HIDE DEF q
<1>3. Planned(o, q) /\ h.started = << >>
  BY <1>0, <1>1, <1>2 DEF Planned, Facts, StopPhases
<1>4. HandlerEffect(x, q, {})
  BY <1>0, <1>1, <1>2, <1>3, SendsNothing DEF HandlerEffect, Facts
<1>5. HomeEffect(x, q)
  BY <1>0, <1>1, <1>2, PoolChanges, HandlerTyped DEF At, Roles
<1>6. HostsEffect(x, q)
  <2>1. o \notin strayed => /\ Held(o) = Elements(h.todo)
                            /\ NoneTwice(h.todo, crossed) /\ NoneTwice(h.started, crossed)
    BY <1>0, <1>1, HeldByPhase DEF ClusterInv, AskedOnce, StopPhases
  <2>2. Elements(h.started) = {}
    BY <1>3 DEF Elements
  <2>3. QED
    BY <1>1, <1>2, <2>1, <2>2 DEF HostsEffect, Leaves, StopPhases
<1>7. QED
  BY <1>4, <1>5, <1>6 DEF Effect

\* The handler goes on to the next host it has to tell.
LEMMA NextTold ==
  ASSUME CallInv, NEW x \in Handlers, At(x, "telling")
  PROVE  LET h == handler[x]
             q == [h EXCEPT !.pc = "tell", !.todo = Tail(@)] IN
         /\ q \in Handler /\ Planned(HomeOf[x], q)
         /\ q.pc = "tell" /\ q.todo = Tail(h.todo) /\ q.started = << >> /\ h.started = << >>
<1> DEFINE h == handler[x]
           todo == Tail(h.todo)
           q == [h EXCEPT !.pc = "tell", !.todo = todo]
<1>1. h.todo # << >> /\ h.started = << >> /\ h \in Handler /\ h.todo \in Seq(Machines)
  BY FactsKnown DEF Facts, Planned, StopPhases, At
<1>2. todo \in Seq(Machines) /\ "tell" \in Points
  BY <1>1, ElementsOfParts, PointsNamed
<1>3. q \in Handler /\ q.pc = "tell" /\ q.todo = todo /\ q.started = h.started
  <2> HIDE DEF h, todo
  <2>1. QED
    BY <1>1, <1>2, HandlerTyped
<1>4. Planned(HomeOf[x], q)
  <2> HIDE DEF q
  <2>1. QED
    BY <1>1, <1>3 DEF Planned, StopPhases
<1>5. QED
  BY <1>1, <1>3, <1>4

\* a peer that was told,
LEMMA ToldEffect ==
  ASSUME ClusterInv, NEW x \in Handlers, Told(x)
  PROVE  Effect(x)
<1> DEFINE o == HomeOf[x]
           h == handler[x]
           q == [h EXCEPT !.pc = "tell", !.todo = Tail(@)]
<1>0. CallInv /\ Facts(x)
  BY FactsKnown DEF ClusterInv
<1>1. /\ h.pc = "telling" /\ handler' = [handler EXCEPT ![x] = q]
      /\ UNCHANGED <<pools, broken, strayed>>
  BY DEF Told, At, Update
<1>2. PICK at \in {"accepted", "refused"} : Answer(x, at)
  BY DEF Told
<1>3. /\ q \in Handler /\ Planned(o, q)
      /\ q.pc = "tell" /\ q.todo = Tail(h.todo) /\ q.started = << >> /\ h.started = << >>
  BY <1>0, <1>1, NextTold DEF At
<1> HIDE DEF q
<1>4. HandlerEffect(x, q, {})
  BY <1>0, <1>1, <1>2, <1>3, AnswerRead DEF HandlerEffect, Facts
<1>5. HomeEffect(x, q)
  BY <1>0, <1>1, <1>3, PoolsStay DEF Facts, At
<1>6. PICK c \in calls : /\ c.by = x /\ c.live /\ c.at = at /\ OrchestratorOf(c) = o
                         /\ c.to = Head(h.todo) /\ c.kind = "stop"
  BY <1>0, <1>1, <1>2, AnswerRead DEF At
<1>7. HostsEffect(x, q)
  <2>1. SUFFICES ASSUME o \notin strayed
                 PROVE  /\ Elements(Tail(h.todo)) \subseteq Held(o)
                        /\ \A m \in Held(o) \ Elements(Tail(h.todo)) : rpc[m] # o
                        /\ NoneTwice(Tail(h.todo), crossed)
    <3>1. Elements(q.started) = {} /\ NoneTwice(q.started, crossed)
      BY <1>3 DEF Elements, NoneTwice
    <3>2. QED
      BY <1>1, <1>3, <2>1, <3>1 DEF HostsEffect, Leaves, StopPhases
  <2>2. Held(o) = Elements(Tail(h.todo)) \union (IF at = "refused" THEN {c.to} ELSE {})
    BY <1>0, <1>2, <1>6, <2>1, HeldByPhase
  <2>3. ASSUME at = "refused"
        PROVE  rpc[c.to] # o
    <3>1. ~FromPeer(c) /\ c.to \in Machines
      BY <1>0, <1>6, <2>3 DEF CallInv, AnswersArePeers, Answered, ClusterTypeOK, Call
    <3>2. rpc[c.to] \in {NoOne, c.to} \union PeersOf[c.to] /\ o \notin PeersOf[c.to]
      BY <1>0, <1>6, <3>1 DEF CallInv, AnswersArePeers, FromPeer
    <3>3. c.to # o /\ o # NoOne
      BY <1>0, <2>1, <2>2, <2>3, <3>1, NoOneIsNoMachine DEF ClusterInv, HeldServe, Facts
    <3>4. QED
      BY <3>2, <3>3
  <2>4. NoneTwice(Tail(h.todo), crossed)
    <3>1. NoneTwice(h.todo, crossed) /\ h.todo # << >> /\ h.todo \in Seq(Machines)
      BY <1>0, <1>1, <2>1 DEF ClusterInv, AskedOnce, Facts, Planned, StopPhases
    <3>2. QED
      BY <3>1, TwiceInParts
  <2>5. QED
    BY <2>2, <2>3, <2>4
<1>8. QED
  BY <1>4, <1>5, <1>7 DEF Effect

\* the last of them,
LEMMA ToldAllEffect ==
  ASSUME ClusterInv, NEW x \in Handlers, ToldAll(x)
  PROVE  Effect(x)
<1> DEFINE o == HomeOf[x]
           h == handler[x]
<1>0. CallInv /\ Facts(x)
  BY FactsKnown DEF ClusterInv
<1>1. /\ h.pc = "tell" /\ h.todo = << >> /\ Update(x, Off)
      /\ UNCHANGED <<pools, calls, broken, strayed>>
  BY DEF ToldAll, At
<1>2. \A q : q.pc \notin {"asking", "telling"} => SendEffect(x, q, {})
  BY <1>0, <1>1, SendsNothing
<1>3. \A q : q.pc = "off" => HomeEffect(x, q)
  BY <1>0, <1>1, PoolsStay DEF At
<1>4. ASSUME o \notin strayed
      PROVE  Held(o) = Leaves(x, Off) /\ role'[o] # "Active"
  <2>1. Held(o) = {}
    BY <1>0, <1>1, <1>4, HeldByPhase DEF Elements
  <2>2. role'[o] # "Active"
    BY <1>0, <1>1, <1>4 DEF Facts, pools
  <2>3. QED
    BY <2>1, <2>2, HandlerTyped DEF Leaves
<1>5. QED
  BY <1>0, <1>1, <1>2, <1>3, <1>4, EndEffect DEF Facts

\* a request to host whose connection breaks,
LEMMA AskBreaksEffect ==
  ASSUME ClusterInv, NEW x \in Handlers, AskBreaks(x)
  PROVE  Effect(x)
<1>0. CallInv /\ Facts(x)
  BY FactsKnown DEF ClusterInv
<1>1. PICK lost \in BOOLEAN : Break(x, lost)
  BY DEF AskBreaks
<1>2. /\ handler[x].pc = "asking" /\ Undo(x, handler[x].started) /\ UNCHANGED pools
      /\ broken' \in 0 .. MaxBroken
  BY <1>0 DEF AskBreaks, At, Facts
<1>3. /\ \A q : q.pc \notin {"asking", "telling"} => SendEffect(x, q, {})
      /\ strayed' = strayed \union {HomeOf[x]}
  BY <1>0, <1>1, Breaks DEF Break
<1>4. \A q : q.pc = "tell" => HomeEffect(x, q)
  BY <1>0, <1>2, <1>3, PoolsStay
<1>5. QED
  BY <1>2, <1>3, <1>4, UndoEffect

\* a request to stop whose connection breaks,
LEMMA TellBreaksEffect ==
  ASSUME ClusterInv, NEW x \in Handlers, TellBreaks(x)
  PROVE  Effect(x)
<1> DEFINE q == [handler[x] EXCEPT !.pc = "tell", !.todo = Tail(@)]
<1>0. CallInv /\ Facts(x)
  BY FactsKnown DEF ClusterInv
<1>1. PICK lost \in BOOLEAN : Break(x, lost)
  BY DEF TellBreaks
<1>2. /\ At(x, "telling") /\ handler' = [handler EXCEPT ![x] = q] /\ UNCHANGED pools
      /\ broken' \in 0 .. MaxBroken
  BY <1>0 DEF TellBreaks, Update, Facts
<1>3. q \in Handler /\ Planned(HomeOf[x], q) /\ q.pc = "tell"
  BY <1>0, <1>2, NextTold
<1> HIDE DEF q
<1>4. SendEffect(x, q, {}) /\ strayed' = strayed \union {HomeOf[x]}
  BY <1>0, <1>1, <1>3, Breaks DEF Break
<1>5. HandlerEffect(x, q, {}) /\ HostsEffect(x, q)
  BY <1>2, <1>3, <1>4 DEF HandlerEffect, HostsEffect
<1>6. HomeEffect(x, q)
  BY <1>0, <1>2, <1>4, PoolsStay
<1>7. QED
  BY <1>5, <1>6 DEF Effect

\* and a client that hangs up.
LEMMA HangUpEffect ==
  ASSUME ClusterInv, NEW x \in Handlers, HangUp(x)
  PROVE  Effect(x)
<1>0. CallInv /\ Facts(x)
  BY FactsKnown DEF ClusterInv
<1>1. /\ Update(x, Off) /\ UNCHANGED pools /\ broken' \in 0 .. MaxBroken
  BY <1>0 DEF HangUp, Facts
<1>2. /\ \A q : q.pc \notin {"asking", "telling"} => SendEffect(x, q, {})
      /\ strayed' = strayed \union {HomeOf[x]}
  <2>1. CASE \E c \in calls : c.by = x /\ c.live
    <3>1. PICK lost \in BOOLEAN : Break(x, lost)
      BY <2>1 DEF HangUp
    <3>2. QED
      BY <1>0, <3>1, Breaks DEF Break
  <2>2. CASE ~\E c \in calls : c.by = x /\ c.live
    BY <1>0, <2>2 DEF HangUp, SendEffect, CallInv, ClusterTypeOK
  <2>3. QED
    BY <2>1, <2>2
<1>3. \A q : q.pc = "off" => HomeEffect(x, q)
  BY <1>0, <1>1, <1>2, PoolsStay
<1>4. QED
  BY <1>1, <1>2, <1>3, EndEffect

\* Every step of a handler is of this kind.
LEMMA HandlerSteps ==
  ASSUME ClusterInv, NEW x \in Handlers,
         \/ \E requested \in Requests : Start(x, requested)
         \/ StopPlan(x) \/ HandlerStep(x) \/ AskBreaks(x) \/ TellBreaks(x) \/ HangUp(x)
  PROVE  Effect(x)
<1>1. ASSUME NEW requested \in Requests, Start(x, requested)
      PROVE  Effect(x)
  BY <1>1, StartSteps DEF Effect
<1>2. CASE StopPlan(x)
  BY <1>2, StopPlanSteps DEF Effect
<1>3. CASE HandlerStep(x)
  BY <1>3, AskEffect, AcceptedEffect, RefusedEffect, StartLocalEffect, LocalStartedEffect,
     LocalFailsEffect, StopLocalEffect, TellEffect, ToldEffect, ToldAllEffect DEF HandlerStep
<1>4. CASE AskBreaks(x) \/ TellBreaks(x) \/ HangUp(x)
  BY <1>4, AskBreaksEffect, TellBreaksEffect, HangUpEffect
<1>5. QED
  BY <1>1, <1>2, <1>3, <1>4

-----------------------------------------------------------------------------
(* What a machine holds after a step                                         *)

HeldAsPlanned ==
  /\ \A o \in Machines \ strayed : ~Busy(o) =>
       Held(o) = IF role[o] = "Active" THEN Elements(Remote(o, plan[o])) ELSE {}
  /\ \A x \in Handlers : HomeOf[x] \notin strayed =>
       LET h == handler[x]
           held == Held(HomeOf[x]) IN
       /\ h.pc \in {"ask", "spawn"} => held = Elements(h.started)
       /\ h.pc \in {"stop", "tell"} => held = Elements(h.todo)
       /\ \A c \in calls : c.live /\ c.by = x /\ c.kind = "start" =>
            held = Elements(h.started) \union (IF c.at \in {"bind", "accepted"} THEN {c.to} ELSE {})
       /\ \A c \in calls : c.live /\ c.by = x /\ c.kind = "stop" =>
            held = Elements(Tail(h.todo)) \union (IF c.at \in {"sent", "refused"} THEN {c.to} ELSE {})

\* What each orchestrator holds is as planned,
LEMMA HeldKnown == CallInv => HeldAsPlanned
  BY HeldWhenIdle, HeldByPhase DEF HeldAsPlanned

\* after a step as well.
LEMMA HeldKnownNext == CallInv' => HeldAsPlanned'
  BY HeldKnown, PTL

\* Whom the invariants speak of, in a state and in the next one.
Typed ==
  /\ \A c \in calls : /\ c.by \in Handlers /\ c.to \in Machines /\ OrchestratorOf(c) \in Machines
                      /\ c.live \in BOOLEAN
  /\ \A o \in Machines : o # NoOne
  /\ \A x \in Handlers : HomeOf[x] \in Machines
  /\ \A x \in Handlers : /\ handler[x].started \in Seq(Machines)
                         /\ Elements(handler[x].started) \subseteq Machines

\* The parts of the state have their types,
LEMMA TypedKnown == CallInv => Typed
<1> SUFFICES ASSUME CallInv PROVE Typed
  OBVIOUS
<1>1. \A c \in calls : /\ c.by \in Handlers /\ c.to \in Machines /\ HomeOf[c.by] \in Machines
                       /\ c.live \in BOOLEAN
  BY HandlersHaveHomes DEF CallInv, ClusterTypeOK, Call
<1>2. ASSUME NEW x \in Handlers
      PROVE  handler[x].started \in Seq(Machines) /\ Elements(handler[x].started) \subseteq Machines
  <2>1. handler[x].started \in Seq(Machines)
    BY FactsKnown DEF Facts
  <2>2. QED
    BY <2>1, ElementsOfParts
<1>3. QED
  BY <1>1, <1>2, HandlersHaveHomes, NoOneIsNoMachine DEF Typed, OrchestratorOf

\* after a step as well.
LEMMA TypedNext == CallInv' => Typed'
  BY TypedKnown, PTL

\* A handler's step changes nothing that another orchestrator holds.
LEMMA HeldElsewhere ==
  ASSUME CallInv, NEW x \in Handlers, NEW q, NEW new, HandlerEffect(x, q, new), HomeEffect(x, q),
         NEW o \in Machines \ {HomeOf[x]}
  PROVE  Held(o)' = Held(o)
<1>1. /\ handler \in [Handlers -> Handler]
      /\ \A y \in Handlers \ {x} : handler'[y] = handler[y]
  BY DEF CallInv, ClusterTypeOK, HandlerEffect
<1>2. \A y \in Handlers : HomeOf[y] = o => y # x /\ HandlerHolds(y)' = HandlerHolds(y)
  BY <1>1 DEF HandlerHolds
<1>3. PoolHolds(o)' = PoolHolds(o)
  <2>1. Busy(o)' <=> Busy(o)
    BY <1>1 DEF Busy, At
  <2>2. role'[o] = role[o] /\ plan'[o] = plan[o]
    BY DEF HomeEffect
  <2>3. QED
    BY <2>1, <2>2 DEF PoolHolds
<1>4. \A c : c \in calls' /\ c.by # x <=> c \in calls /\ c.by # x
  BY DEF HandlerEffect, SendEffect
<1>5. {c \in calls' : OrchestratorOf(c) = o /\ CallHolds(c)} =
        {c \in calls : OrchestratorOf(c) = o /\ CallHolds(c)}
  BY <1>4 DEF OrchestratorOf
<1>6. UNION {HandlerHolds(y)' : y \in {z \in Handlers : HomeOf[z] = o}} =
        UNION {HandlerHolds(y) : y \in {z \in Handlers : HomeOf[z] = o}}
  BY <1>2
<1>7. QED
  BY <1>3, <1>5, <1>6, Zenon DEF Held, OrchestratorOf, CallHolds

\* What its own orchestrator holds is what the step leaves it.
LEMMA HeldHere ==
  ASSUME CallInv, CallInv', NEW x \in Handlers, NEW q, NEW new, HandlerEffect(x, q, new),
         HomeEffect(x, q), HomeOf[x] \notin strayed'
  PROVE  Held(HomeOf[x])' = Leaves(x, q)
<1> DEFINE o == HomeOf[x]
<1>1. /\ handler' \in [Handlers -> Handler] /\ handler'[x] = q /\ q \in Handler /\ Planned(o, q)
      /\ \A y \in Handlers \ {x} : handler'[y] = handler[y]
  BY DEF CallInv, ClusterTypeOK, HandlerEffect
<1>2. HeldAsPlanned' /\ o \in Machines
  BY HeldKnownNext, HandlersHaveHomes
<1>3. CASE q.pc = "off"
  <2>1. ~Busy(o)'
    <3>1. \A y \in Handlers \ {x} : HomeOf[y] = o => At(y, "off")
      BY DEF HomeEffect, Busy, CallInv, OneAtATime, HandlerEffect
    <3>2. QED
      BY <1>1, <1>3, <3>1 DEF Busy, At
  <2>2. QED
    BY <1>2, <1>3, <2>1 DEF HeldAsPlanned, Leaves
<1>4. CASE q.pc \in {"ask", "spawn"}
  <2>1. handler'[x].pc \in {"ask", "spawn"} => Held(o)' = Elements(handler'[x].started)
    BY <1>2, SMTT(60) DEF HeldAsPlanned
  <2>2. Held(o)' = Elements(q.started)
    BY <1>1, <1>4, <2>1
  <2>3. q.pc # "off" /\ q.pc \notin StopPhases
    BY <1>4 DEF StopPhases
  <2>4. QED
    BY <2>2, <2>3 DEF Leaves
<1>5. CASE q.pc \in {"stop", "tell"}
  <2>1. Elements(q.started) = {}
    BY <1>1, <1>5 DEF Planned, StopPhases, Elements
  <2>2. handler'[x].pc \in {"stop", "tell"} => Held(o)' = Elements(handler'[x].todo)
    BY <1>2, SMTT(60) DEF HeldAsPlanned
  <2>3. Held(o)' = Elements(q.todo)
    BY <1>1, <1>5, <2>2
  <2>4. q.pc # "off" /\ q.pc \in StopPhases
    BY <1>5 DEF StopPhases
  <2>5. QED
    BY <2>1, <2>3, <2>4 DEF Leaves
<1>6. CASE q.pc = "asking"
  <2>1. PICK c \in calls' : c.by = x /\ c.live /\ c.at = "sent" /\ c.kind = "start"
    BY <1>6 DEF HandlerEffect, SendEffect
  <2>2. Held(o)' = Elements(q.started) \union (IF c.at \in {"bind", "accepted"} THEN {c.to} ELSE {})
    BY <1>1, <1>2, <2>1 DEF HeldAsPlanned
  <2>3. QED
    BY <1>6, <2>1, <2>2 DEF Leaves, StopPhases
<1>7. CASE q.pc = "telling"
  <2>1. PICK c \in calls' : /\ c.by = x /\ c.live /\ c.at = "sent" /\ c.kind = "stop"
                            /\ c.to = Head(q.todo)
    <3>1. PICK c \in new : TRUE
      BY <1>7 DEF HandlerEffect, SendEffect
    <3>2. c \in calls' /\ c.kind \in {"start", "stop"}
      BY <3>1 DEF HandlerEffect, SendEffect, Call
    <3>3. QED
      BY <1>7, <3>1, <3>2 DEF HandlerEffect, SendEffect
  <2>2. Held(o)' = Elements(Tail(q.todo)) \union {Head(q.todo)}
    BY <1>1, <1>2, <2>1 DEF HeldAsPlanned
  <2>3. q.todo \in Seq(Machines) /\ q.todo # << >> /\ Elements(q.started) = {}
    BY <1>1, <1>7 DEF Handler, HostList, Planned, StopPhases, Elements
  <2>4. Elements(q.todo) = {Head(q.todo)} \union Elements(Tail(q.todo))
    BY <2>3, ElementsOfParts
  <2>5. QED
    BY <1>7, <2>2, <2>3, <2>4 DEF Leaves, StopPhases
<1>8. q.pc \in Points
  BY <1>1, HandlerTyped
<1>9. QED
  BY <1>3, <1>4, <1>5, <1>6, <1>7, <1>8 DEF Points

\* Who has a claim on a host: who it serves, who started it, whose call is on it.
LEMMA ClaimsKnown ==
  ASSUME NEW h \in Machines, NEW o \in Machines, o # h
  PROVE  /\ rpc[h] = o => o \in Claims(h)
         /\ \A x \in Handlers : HomeOf[x] = o /\ h \in Elements(handler[x].started) => o \in Claims(h)
         /\ \A c \in calls : c.to = h /\ OrchestratorOf(c) = o =>
              /\ c.kind # "stop" /\ c.at \in {"spawn", "bind", "accepted"} => o \in Claims(h)
              /\ c.kind = "stop" /\ c.at = "sent" /\ o \in strayed => o \in Claims(h)
  BY Zenon DEF Claims

\* A machine on which two have a claim, or one while it orchestrates, crossed roles.
LEMMA ClaimsCross ==
  ASSUME CallInv, NEW h \in Machines, NEW o \in Claims(h)
  PROVE  /\ Orchestrates(h) => h \in crossed
         /\ \A p \in Claims(h) : p # o => h \in crossed
  BY DEF CallInv, CrossingIsSeen, Crossing

\* The handler at x touches its own machine only while no other counts on that machine.
LEMMA HomeIsCrossed ==
  ASSUME CallInv, NEW x \in Handlers, NEW q, HomeEffect(x, q),
         NEW o \in Claims(HomeOf[x]), ~UNCHANGED pools
  PROVE  HomeOf[x] \in crossed
<1>1. ~At(x, "off") /\ HomeOf[x] \in Machines
  BY HandlersHaveHomes DEF HomeEffect
<1>2. QED
  BY <1>1, ClaimsCross DEF Orchestrates, Busy

\* An orchestrator holds the hosts that its handlers started or may be starting.
LEMMA HoldsKnown ==
  ASSUME NEW o \in Machines
  PROVE  /\ \A x \in Handlers : HomeOf[x] = o => Elements(handler[x].started) \subseteq Held(o)
         /\ \A c \in calls : OrchestratorOf(c) = o /\ CallHolds(c) => c.to \in Held(o)
<1>1. \A x \in Handlers : Elements(handler[x].started) \subseteq HandlerHolds(x)
  BY DEF HandlerHolds
<1>2. QED
  BY <1>1 DEF Held

\* A handler's step keeps the invariant.
LEMMA HandlerKeeps ==
  ASSUME ClusterInv, Watch, NEW x \in Handlers, Effect(x)
  PROVE  ClusterInv'
<1> DEFINE o == HomeOf[x]
<1>0. PICK q, new : HandlerEffect(x, q, new) /\ HomeEffect(x, q) /\ HostsEffect(x, q)
  BY DEF Effect
<1>1. CallInv /\ Typed /\ o \in Machines
  BY TypedKnown, HandlersHaveHomes DEF ClusterInv
<1>2. CallInv' /\ Typed'
  BY <1>0, <1>1, HandlerBase, TypedNext
<1>3. /\ crossed \subseteq crossed' /\ strayed \subseteq strayed' /\ strayed' \subseteq strayed \union {o}
      /\ \A m \in Machines \ {o} : role'[m] = role[m] /\ plan'[m] = plan[m] /\ rpc'[m] = rpc[m]
      /\ rpc'[o] \in {rpc[o], NoOne, o}
      /\ handler'[x] = q /\ q \in Handler /\ Planned(o, q)
      /\ \A y \in Handlers \ {x} : handler'[y] = handler[y]
  BY <1>0, <1>1 DEF HandlerEffect, HomeEffect, Watch, CallInv, ClusterTypeOK
<1>4. \A p \in Machines \ {o} : Held(p)' = Held(p)
  BY <1>0, <1>1, HeldElsewhere
<1>5. o \notin strayed' => /\ Held(o)' = Leaves(x, q) /\ Leaves(x, q) \subseteq Held(o)
                           /\ \A h \in Held(o) \ Leaves(x, q) : rpc[h] # o
  BY <1>0, <1>1, <1>2, HeldHere DEF HostsEffect
<1>6. ASSUME NEW p \in Claims(o), p # o
      PROVE  o \in crossed' \/ UNCHANGED pools
  BY <1>0, <1>1, <1>3, <1>6, HomeIsCrossed
<1>7. ServantsAreHeld'
  <2>1. SUFFICES ASSUME NEW h \in Machines, NEW p \in Machines, rpc'[h] = p,
                        p \notin {h} \union strayed' \union crossed'
                 PROVE  h \in Held(p)'
    BY DEF ServantsAreHeld
  <2>2. rpc[h] = p
    BY <1>1, <1>3, <2>1 DEF Typed
  <2>3. h \in Held(p)
    BY <1>3, <2>1, <2>2 DEF ClusterInv, ServantsAreHeld
  <2>4. QED
    BY <1>4, <1>5, <2>1, <2>2, <2>3
<1>8. HeldServe'
  <2>1. SUFFICES ASSUME NEW p \in Machines, p \notin strayed', NEW h \in Machines, h \in Held(p)'
                 PROVE  h # p /\ (h \in crossed' \/ rpc'[h] = p)
    BY DEF HeldServe
  <2>2. h \in Held(p) /\ p \notin strayed
    BY <1>3, <1>4, <1>5, <2>1
  <2>3. h # p /\ (h \in crossed \/ rpc[h] = p)
    BY <2>1, <2>2 DEF ClusterInv, HeldServe
  <2>5. CASE h # o
    BY <1>3, <2>3, <2>5
  <2>6. CASE h = o /\ rpc[h] = p
    BY <1>1, <1>6, <2>3, <2>6, ClaimsKnown DEF pools
  <2>7. QED
    BY <1>3, <2>3, <2>5, <2>6
<1>9. StartedAreHosting'
  <2>1. ASSUME NEW y \in Handlers, HomeOf[y] \notin strayed',
               NEW h \in Elements(handler'[y].started), h \notin crossed'
        PROVE  role'[h] = "Hosting"
    <3>1. h \in Machines
      BY <1>2, <2>1 DEF Typed
    <3>2. CASE y = x
      <4>1. h \in Elements(q.started) /\ o \notin strayed /\ o \notin strayed'
        BY <1>3, <2>1, <3>2
      <4>2. q.pc # "off"
        BY <1>3, <4>1 DEF Planned, Off, Elements
      <4>3. h \in Held(o)
        BY <1>5, <4>1, <4>2 DEF Leaves
      <4>4. h # o
        BY <1>1, <3>1, <4>1, <4>3 DEF ClusterInv, HeldServe
      <4>5. role[h] = "Hosting"
        BY <1>0, <1>3, <2>1, <4>1 DEF HostsEffect, ClusterInv, StartedAreHosting
      <4>6. QED
        BY <1>3, <3>1, <4>4, <4>5
    <3>3. CASE y # x
      <4> DEFINE p == HomeOf[y]
      <4>1. h \in Elements(handler[y].started) /\ p \notin strayed /\ p \in Machines /\ h \notin crossed
        BY <1>1, <1>3, <2>1, <3>3 DEF Typed
      <4>2. role[h] = "Hosting" /\ h # p
        BY <3>1, <4>1, HoldsKnown DEF ClusterInv, StartedAreHosting, HeldServe
      <4>3. CASE h = o
        BY <1>6, <2>1, <4>1, <4>2, <4>3, <3>1, ClaimsKnown DEF pools
      <4>4. CASE h # o
        BY <1>3, <3>1, <4>2, <4>4
      <4>5. QED
        BY <4>3, <4>4
    <3>4. QED
      BY <3>2, <3>3
  <2>2. ASSUME NEW c \in calls', c.kind = "start", c.at = "accepted", OrchestratorOf(c) \notin strayed',
               c.to \notin crossed'
        PROVE  role'[c.to] = "Hosting"
    <3> DEFINE p == OrchestratorOf(c)
    <3>1. c \in calls
      BY <1>0, <2>2 DEF HandlerEffect, SendEffect, OrchestratorOf
    <3>2. c.to \in Machines /\ p \in Machines /\ p \notin strayed /\ c.to \notin crossed
      BY <1>1, <1>3, <2>2, <3>1 DEF Typed
    <3>3. c.live
      BY <1>1, <3>1, <3>2 DEF CallInv, CallsAreWaitedFor
    <3>4. role[c.to] = "Hosting" /\ c.to # p
      BY <2>2, <3>1, <3>2, <3>3, HoldsKnown DEF ClusterInv, StartedAreHosting, HeldServe, CallHolds
    <3>5. CASE c.to = o
      BY <1>6, <2>2, <3>1, <3>2, <3>4, <3>5, ClaimsKnown DEF pools
    <3>6. CASE c.to # o
      BY <1>3, <3>2, <3>4, <3>6
    <3>7. QED
      BY <3>5, <3>6
  <2>3. QED
    BY <2>1, <2>2 DEF StartedAreHosting, OrchestratorOf
<1>10. AskedOnce'
  <2>1. \A s : NoneTwice(s, crossed) => NoneTwice(s, crossed')
    BY <1>3 DEF NoneTwice
  <2>2. ASSUME NEW y \in Handlers, HomeOf[y] \notin strayed'
        PROVE  /\ NoneTwice(handler'[y].started, crossed')
               /\ handler'[y].pc \in StopPhases => NoneTwice(handler'[y].todo, crossed')
    <3>1. CASE y = x
      BY <1>0, <1>3, <2>1, <2>2, <3>1 DEF HostsEffect
    <3>2. CASE y # x
      BY <1>3, <2>1, <2>2, <3>2 DEF ClusterInv, AskedOnce
    <3>3. QED
      BY <3>1, <3>2
  <2>3. ASSUME NEW m \in Machines \ strayed', ~Busy(m)', role'[m] = "Active"
        PROVE  NoneTwice(Remote(m, plan'[m]), crossed')
    <3>1. CASE m = o
      <4>1. q.pc = "off"
        BY <1>3, <2>3, <3>1 DEF Busy, At
      <4>2. QED
        BY <1>0, <2>1, <2>3, <3>1, <4>1 DEF HostsEffect
    <3>2. CASE m # o
      <4>1. ~Busy(m)
        BY <1>3, <2>3, <3>2 DEF Busy, At
      <4>2. QED
        BY <1>3, <2>1, <2>3, <3>2, <4>1 DEF ClusterInv, AskedOnce
    <3>3. QED
      BY <3>1, <3>2
  <2>4. ASSUME NEW c \in calls', c.kind = "start", c.at \in {"spawn", "bind", "accepted"},
               OrchestratorOf(c) \notin strayed', c.to \in Elements(handler'[c.by].started)
        PROVE  c.to \in crossed'
    <3>1. c \in calls
      BY <1>0, <2>4 DEF HandlerEffect, SendEffect, OrchestratorOf
    <3>2. c.by # x /\ c.by \in Handlers
      BY <1>0, <1>1, <1>3, <2>4, <3>1
      DEF HandlerEffect, SendEffect, OrchestratorOf, CallInv, CallsAreWaitedFor, Typed
    <3>3. QED
      BY <1>3, <2>4, <3>1, <3>2 DEF ClusterInv, AskedOnce
  <2>5. QED
    BY <2>2, <2>3, <2>4 DEF AskedOnce, OrchestratorOf
<1>11. QED
  BY <1>2, <1>7, <1>8, <1>9, <1>10 DEF ClusterInv

-----------------------------------------------------------------------------
(* The steps of the machines that are called                                 *)

\* What a step of a called machine does to whom it works for.
ServedEffect(c, at) ==
  LET t == c.to
      o == OrchestratorOf(c)
      holds == CallHolds([c EXCEPT !.at = at]) IN
  /\ UNCHANGED pools \/ t \in crossed \/ o \in Claims(t)
  /\ (role'[t] = role[t] /\ plan'[t] = plan[t]) \/ role'[t] # "Active"
  /\ rpc'[t] \in {rpc[t], NoOne, o}
  /\ c.live => \/ (holds <=> CallHolds(c)) /\ rpc'[t] = rpc[t]
               \/ holds /\ rpc'[t] = o
               \/ ~holds /\ CallHolds(c) /\ rpc'[t] = NoOne
  /\ role'[t] = role[t] \/ role'[t] = "Hosting" \/ c.kind = "stop"
  /\ c.kind = "start" /\ at = "accepted" => role'[t] = "Hosting"
  /\ c.kind = "start" /\ at = "spawn" => role[t] # "Hosting"
  /\ c.kind = "start" /\ at \in {"bind", "accepted"} => c.at \in {"spawn", "bind"}
  /\ c.kind = "stop" => c.at = "sent" /\ at \in {"accepted", "refused"}
  /\ c.kind = "start" => at = "refused" \/ holds \/ ~CallHolds(c)

\* A peer that stops a machine works with it, or comes too late.
LEMMA StopperClaims ==
  ASSUME ClusterInv, NEW c \in calls, c.kind = "stop", c.at = "sent", FromPeer(c)
  PROVE  c.to \in crossed \/ OrchestratorOf(c) \in Claims(c.to)
<1> DEFINE o == OrchestratorOf(c)
           t == c.to
<1>1. o \in Machines /\ t \in Machines /\ o # t
  BY TypedKnown, PeersAreMachines DEF ClusterInv, Typed, FromPeer
<1>2. CASE o \in strayed
  BY <1>1, <1>2, ClaimsKnown
<1>3. CASE o \notin strayed
  <2>1. c.live
    BY <1>3 DEF ClusterInv, CallInv, CallsAreWaitedFor
  <2>2. t \in Held(o)
    BY <1>1, <2>1, HoldsKnown DEF CallHolds
  <2>3. t \in crossed \/ rpc[t] = o
    BY <1>1, <1>3, <2>2 DEF ClusterInv, HeldServe
  <2>4. QED
    BY <1>1, <2>3, ClaimsKnown
<1>4. QED
  BY <1>2, <1>3

\* A peer that has a machine spawn its rpc-server works with it.
LEMMA StarterClaims ==
  ASSUME ClusterInv, NEW c \in calls, c.at \in {"spawn", "bind"}
  PROVE  /\ c.kind = "start" /\ FromPeer(c) /\ OrchestratorOf(c) # c.to
         /\ OrchestratorOf(c) \in Claims(c.to)
<1>1. FromPeer(c) /\ c.kind # "stop" /\ c.kind \in {"start", "stop"}
  BY DEF ClusterInv, CallInv, AnswersArePeers, Answered, ClusterTypeOK, Call
<1>2. OrchestratorOf(c) \in Machines /\ c.to \in Machines /\ OrchestratorOf(c) # c.to
  BY <1>1, TypedKnown, PeersAreMachines DEF ClusterInv, Typed, FromPeer
<1>3. QED
  BY <1>1, <1>2, ClaimsKnown

\* A request as it stands after a step.
LEMMA AdvancedTyped ==
  ASSUME CallInv, NEW c \in calls, NEW at
  PROVE  LET d == [c EXCEPT !.at = at] IN
         /\ d.by = c.by /\ d.to = c.to /\ d.kind = c.kind /\ d.live = c.live /\ d.at = at
         /\ OrchestratorOf(d) = OrchestratorOf(c)
         /\ FromPeer(d) <=> FromPeer(c)
         /\ CallHolds(d) <=> /\ c.live
                             /\ IF c.kind = "start" THEN at \in {"bind", "accepted"}
                                ELSE at \in {"sent", "refused"}
<1>1. c \in Call
  BY DEF CallInv, ClusterTypeOK
<1> DEFINE d == [c EXCEPT !.at = at]
<1>2. d.by = c.by /\ d.to = c.to /\ d.kind = c.kind /\ d.live = c.live /\ d.at = at
  BY <1>1 DEF Call
<1> HIDE DEF d
<1>3. QED
  BY <1>2 DEF d, OrchestratorOf, FromPeer, CallHolds

\* Each step of a call on its host is one of those that CallEffect and ServedEffect describe.
LEMMA CallSteps ==
  ASSUME ClusterInv, NEW c \in calls, LayerHostStep(c)
  PROVE  \E at : CallEffect(c, at) /\ ServedEffect(c, at)
<1> DEFINE t == c.to
           o == OrchestratorOf(c)
<1>0. /\ CallInv /\ t \in Machines /\ o \in Machines /\ c.live \in BOOLEAN
      /\ c.kind \in {"start", "stop"} /\ Answered(c)
      /\ role \in [Machines -> Roles] /\ plan \in [Machines -> HostList]
      /\ rpc \in [Machines -> Machines \union {NoOne}]
      /\ << >> \in HostList /\ "Hosting" \in Roles /\ "Idle" \in Roles
  BY TypedKnown, HandlerTyped
  DEF ClusterInv, CallInv, AnswersArePeers, ClusterTypeOK, Typed, Call, Roles, HostList
<1>1. ASSUME LayerHostEnter(c)
      PROVE  \E at : CallEffect(c, at) /\ ServedEffect(c, at)
  <2> DEFINE at == IF /\ FromPeer(c) /\ role[t] \in {"Idle", "Failed"}
                      /\ Resolve(t, "rpc-server") # "none"
                   THEN "spawn" ELSE "refused"
  <2>1. /\ c.kind = "start" /\ c.at = "sent"
        /\ calls' = (calls \ {c}) \union {[c EXCEPT !.at = at]}
        /\ UNCHANGED <<pools, handler, broken, strayed>>
    BY <1>1 DEF LayerHostEnter, Advance
  <2>2. at \in {"spawn", "refused"} /\ (at = "spawn" => FromPeer(c) /\ role[t] # "Hosting")
    OBVIOUS
  <2> HIDE DEF at
  <2>3. CallEffect(c, at)
    BY <1>0, <2>1, <2>2, AdvancedTyped DEF CallEffect, Answered, pools
  <2>4. ServedEffect(c, at)
    BY <1>0, <2>1, <2>2, AdvancedTyped DEF ServedEffect, CallHolds, pools
  <2>5. QED
    BY <2>3, <2>4
<1>2. ASSUME LayerHostSpawn(c)
      PROVE  CallEffect(c, "bind") /\ ServedEffect(c, "bind")
  <2>1. /\ c.at = "spawn" /\ calls' = (calls \ {c}) \union {[c EXCEPT !.at = "bind"]}
        /\ rpc' = [rpc EXCEPT ![t] = o]
        /\ UNCHANGED <<role, plan, handler, broken, strayed>>
    BY <1>2 DEF LayerHostSpawn, Advance, Serve
  <2>2. c.kind = "start" /\ FromPeer(c) /\ o # t /\ o \in Claims(t) /\ o \in PeersOf[t]
    BY <2>1, StarterClaims DEF FromPeer
  <2>3. CallEffect(c, "bind")
    BY <1>0, <2>1, <2>2, AdvancedTyped DEF CallEffect, Answered
  <2>4. ServedEffect(c, "bind")
    BY <1>0, <2>1, <2>2, AdvancedTyped DEF ServedEffect, CallHolds
  <2>5. QED
    BY <2>3, <2>4
<1>3. ASSUME LayerHostSpawnFails(c)
      PROVE  CallEffect(c, "refused") /\ ServedEffect(c, "refused")
  <2>1. /\ c.at = "spawn" /\ calls' = (calls \ {c}) \union {[c EXCEPT !.at = "refused"]}
        /\ UNCHANGED <<pools, handler, broken, strayed>>
    BY <1>3 DEF LayerHostSpawnFails, Advance
  <2>2. c.kind = "start"
    BY <2>1, StarterClaims
  <2>3. CallEffect(c, "refused")
    BY <1>0, <2>1, <2>2, AdvancedTyped DEF CallEffect, Answered, pools
  <2>4. ServedEffect(c, "refused")
    BY <1>0, <2>1, <2>2, AdvancedTyped DEF ServedEffect, CallHolds, pools
  <2>5. QED
    BY <2>3, <2>4
<1>4. ASSUME LayerHostBound(c)
      PROVE  CallEffect(c, "accepted") /\ ServedEffect(c, "accepted")
  <2>1. /\ c.at = "bind" /\ calls' = (calls \ {c}) \union {[c EXCEPT !.at = "accepted"]}
        /\ role' = [role EXCEPT ![t] = "Hosting"] /\ plan' = [plan EXCEPT ![t] = << >>]
        /\ UNCHANGED <<rpc, handler, broken, strayed>>
    BY <1>4 DEF LayerHostBound, Advance, Become
  <2>2. c.kind = "start" /\ FromPeer(c) /\ o # t /\ o \in Claims(t)
    BY <2>1, StarterClaims
  <2>3. CallEffect(c, "accepted")
    BY <1>0, <2>1, <2>2, AdvancedTyped DEF CallEffect, Answered
  <2>4. ServedEffect(c, "accepted")
    BY <1>0, <2>1, <2>2, AdvancedTyped DEF ServedEffect, CallHolds
  <2>5. QED
    BY <2>3, <2>4
<1>5. ASSUME LayerHostBindTimeout(c)
      PROVE  CallEffect(c, "refused") /\ ServedEffect(c, "refused")
  <2>1. /\ c.at = "bind" /\ calls' = (calls \ {c}) \union {[c EXCEPT !.at = "refused"]}
        /\ rpc' = [rpc EXCEPT ![t] = NoOne]
        /\ UNCHANGED <<role, plan, handler, broken, strayed>>
    BY <1>5 DEF LayerHostBindTimeout, Advance, Serve
  <2>2. c.kind = "start" /\ FromPeer(c) /\ o # t /\ o \in Claims(t)
    BY <2>1, StarterClaims
  <2>3. CallEffect(c, "refused")
    BY <1>0, <2>1, <2>2, AdvancedTyped DEF CallEffect, Answered
  <2>4. ServedEffect(c, "refused")
    BY <1>0, <2>1, <2>2, AdvancedTyped DEF ServedEffect, CallHolds
  <2>5. QED
    BY <2>3, <2>4
<1>6. ASSUME LayerHostStop(c), FromPeer(c)
      PROVE  CallEffect(c, "accepted") /\ ServedEffect(c, "accepted")
  <2>1. /\ c.kind = "stop" /\ c.at = "sent"
        /\ calls' = (calls \ {c}) \union {[c EXCEPT !.at = "accepted"]}
        /\ role' = [role EXCEPT ![t] = "Idle"] /\ plan' = [plan EXCEPT ![t] = << >>]
        /\ rpc' = [rpc EXCEPT ![t] = NoOne]
        /\ UNCHANGED <<handler, broken, strayed>>
    BY <1>6 DEF LayerHostStop, Advance, Become, Serve
  <2>2. t \in crossed \/ o \in Claims(t)
    BY <1>6, <2>1, StopperClaims
  <2>3. CallEffect(c, "accepted")
    BY <1>0, <1>6, <2>1, AdvancedTyped DEF CallEffect, Answered
  <2>4. ServedEffect(c, "accepted")
    BY <1>0, <2>1, <2>2, AdvancedTyped DEF ServedEffect, CallHolds
  <2>5. QED
    BY <2>3, <2>4
<1>7. ASSUME LayerHostStop(c), ~FromPeer(c)
      PROVE  CallEffect(c, "refused") /\ ServedEffect(c, "refused")
  <2>1. /\ c.kind = "stop" /\ c.at = "sent"
        /\ calls' = (calls \ {c}) \union {[c EXCEPT !.at = "refused"]}
        /\ UNCHANGED <<pools, handler, broken, strayed>>
    BY <1>7 DEF LayerHostStop, Advance
  <2>2. CallEffect(c, "refused")
    BY <1>0, <1>7, <2>1, AdvancedTyped DEF CallEffect, Answered, pools
  <2>3. ServedEffect(c, "refused")
    BY <1>0, <2>1, AdvancedTyped DEF ServedEffect, CallHolds, pools
  <2>4. QED
    BY <2>2, <2>3
<1>8. QED
  BY <1>1, <1>2, <1>3, <1>4, <1>5, <1>6, <1>7 DEF LayerHostStep

\* What the machines hold after such a step.
LEMMA HeldCalled ==
  ASSUME ClusterInv, NEW c \in calls, NEW at, CallEffect(c, at), ServedEffect(c, at),
         NEW p \in Machines
  PROVE  LET holds == CallHolds([c EXCEPT !.at = at]) IN
         /\ \A h \in Held(p)' : h \in Held(p) \/ (p = OrchestratorOf(c) /\ h = c.to /\ holds)
         /\ p = OrchestratorOf(c) /\ holds => c.to \in Held(p)'
         /\ p \notin crossed => \A h \in Held(p) :
              \/ h \in Held(p)'
              \/ p = OrchestratorOf(c) /\ h = c.to /\ CallHolds(c) /\ ~holds
<1> DEFINE d == [c EXCEPT !.at = at]
           H == UNION {HandlerHolds(x) : x \in {y \in Handlers : HomeOf[y] = p}}
           C == {e.to : e \in {f \in calls : OrchestratorOf(f) = p /\ CallHolds(f)}}
           D == {e.to : e \in {f \in calls' : OrchestratorOf(f) = p /\ CallHolds(f)}}
<1>1. /\ d.to = c.to /\ OrchestratorOf(d) = OrchestratorOf(c) /\ calls' = (calls \ {c}) \union {d}
      /\ handler' = handler
  BY AdvancedTyped DEF ClusterInv, CallEffect
<1>2. Held(p) = PoolHolds(p) \union H \union C
  BY DEF Held
<1>3. Held(p)' = PoolHolds(p)' \union H \union D
  BY <1>1 DEF Held, HandlerHolds, OrchestratorOf, CallHolds
<1>4. PoolHolds(p)' \subseteq PoolHolds(p) /\ (p \notin crossed => PoolHolds(p)' = PoolHolds(p))
  <2>1. Busy(p)' <=> Busy(p)
    BY <1>1 DEF Busy, At
  <2>2. CASE role'[p] = role[p] /\ plan'[p] = plan[p]
    BY <2>1, <2>2 DEF PoolHolds
  <2>3. CASE ~(role'[p] = role[p] /\ plan'[p] = plan[p])
    <3>1. p = c.to /\ role'[p] # "Active"
      BY <2>3 DEF CallEffect, ServedEffect
    <3>2. PoolHolds(p)' = {}
      BY <3>1 DEF PoolHolds
    <3>3. role[p] = "Active" => p \in crossed
      BY <2>3, <3>1, ClaimsCross DEF ServedEffect, Orchestrates, pools, ClusterInv
    <3>4. QED
      BY <3>2, <3>3 DEF PoolHolds
  <2>4. QED
    BY <2>2, <2>3
<1>5. \A h : h \in D => h \in C \/ (p = OrchestratorOf(c) /\ h = c.to /\ CallHolds(d))
  <2> HIDE DEF d
  <2>1. QED
    BY <1>1
<1>6. p = OrchestratorOf(c) /\ CallHolds(d) => c.to \in D
  <2> HIDE DEF d
  <2>1. QED
    BY <1>1
<1>7. \A h : h \in C => h \in D \/ (p = OrchestratorOf(c) /\ h = c.to /\ CallHolds(c) /\ ~CallHolds(d))
  <2> HIDE DEF d
  <2>1. d \in calls' /\ \A e \in calls : e = c \/ e \in calls'
    BY <1>1
  <2>2. ASSUME NEW e \in calls, OrchestratorOf(e) = p, CallHolds(e)
        PROVE  e.to \in D \/ (p = OrchestratorOf(c) /\ e.to = c.to /\ CallHolds(c) /\ ~CallHolds(d))
    <3>1. CASE e = c
      BY <1>1, <2>1, <2>2, <3>1
    <3>2. CASE e # c
      BY <2>1, <2>2, <3>2
    <3>3. QED
      BY <3>1, <3>2
  <2>3. QED
    BY <2>2
<1> HIDE DEF H, C, D, d
<1>8. QED
  BY <1>2, <1>3, <1>4, <1>5, <1>6, <1>7 DEF d

\* A call's step keeps the invariant.
LEMMA CallKeeps ==
  ASSUME ClusterInv, Watch, NEW c \in calls, NEW at, CallEffect(c, at), ServedEffect(c, at)
  PROVE  ClusterInv'
<1> DEFINE t == c.to
           o == OrchestratorOf(c)
           d == [c EXCEPT !.at = at]
<1>1. /\ CallInv /\ Typed /\ t \in Machines /\ o \in Machines /\ c.by \in Handlers
      /\ HomeOf[c.by] = o /\ c.kind \in {"start", "stop"}
  BY TypedKnown DEF ClusterInv, CallInv, ClusterTypeOK, Call, Typed, OrchestratorOf
<1>2. CallInv' /\ HeldAsPlanned'
  BY <1>1, CallBase, HeldKnownNext
<1>3. /\ crossed \subseteq crossed' /\ strayed' = strayed /\ handler' = handler
      /\ calls' = (calls \ {c}) \union {d}
      /\ \A m \in Machines \ {t} : role'[m] = role[m] /\ plan'[m] = plan[m] /\ rpc'[m] = rpc[m]
  BY DEF CallEffect, Watch
<1>4. /\ d.by = c.by /\ d.to = c.to /\ d.kind = c.kind /\ d.live = c.live /\ d.at = at
      /\ OrchestratorOf(d) = o /\ (FromPeer(d) <=> FromPeer(c))
      /\ CallHolds(d) <=> /\ c.live
                          /\ IF c.kind = "start" THEN at \in {"bind", "accepted"}
                             ELSE at \in {"sent", "refused"}
  BY <1>1, AdvancedTyped
<1>5. /\ rpc'[t] \in {rpc[t], NoOne, o}
      /\ c.live => \/ (CallHolds(d) <=> CallHolds(c)) /\ rpc'[t] = rpc[t]
                   \/ CallHolds(d) /\ rpc'[t] = o
                   \/ ~CallHolds(d) /\ CallHolds(c) /\ rpc'[t] = NoOne
  BY DEF ServedEffect
<1>6. ASSUME NEW p \in Machines
      PROVE  /\ \A h \in Held(p)' : h \in Held(p) \/ (p = o /\ h = t /\ CallHolds(d))
             /\ p = o /\ CallHolds(d) => t \in Held(p)'
             /\ p \notin crossed => \A h \in Held(p) :
                  h \in Held(p)' \/ (p = o /\ h = t /\ CallHolds(c) /\ ~CallHolds(d))
  BY HeldCalled
<1>7. ASSUME NEW p \in Claims(t), p # o
      PROVE  t \in crossed \/ UNCHANGED pools
  BY <1>1, <1>7, ClaimsCross DEF ServedEffect
<1>8. o \notin strayed => c.live
  BY <1>1 DEF CallInv, CallsAreWaitedFor
<1>9. Answered(d)
  BY DEF CallEffect
<1> HIDE DEF d
<1>10. ServantsAreHeld'
  <2>1. SUFFICES ASSUME NEW h \in Machines, NEW p \in Machines, rpc'[h] = p,
                        p \notin {h} \union strayed \union crossed'
                 PROVE  h \in Held(p)'
    BY <1>3 DEF ServantsAreHeld
  <2>2. CASE rpc[h] = p
    <3>1. h \in Held(p)
      BY <1>3, <2>1, <2>2 DEF ClusterInv, ServantsAreHeld
    <3>2. h \in Held(p)' \/ (p = o /\ h = t /\ CallHolds(c) /\ ~CallHolds(d))
      BY <1>3, <1>6, <2>1, <3>1
    <3>3. QED
      BY <1>1, <1>5, <1>8, <2>1, <3>2 DEF Typed
  <2>3. CASE rpc[h] # p
    BY <1>1, <1>3, <1>5, <1>6, <1>8, <2>1, <2>3 DEF Typed
  <2>4. QED
    BY <2>2, <2>3
<1>11. HeldServe'
  <2>1. SUFFICES ASSUME NEW p \in Machines, p \notin strayed, NEW h \in Machines, h \in Held(p)'
                 PROVE  h # p /\ (h \in crossed' \/ rpc'[h] = p)
    BY <1>3 DEF HeldServe
  <2>2. CASE h \notin Held(p)
    <3>1. p = o /\ h = t /\ CallHolds(d) /\ ~CallHolds(c)
      BY <1>1, <1>6, <2>1, <2>2, HoldsKnown
    <3>2. rpc'[t] = o
      BY <1>5, <1>8, <2>1, <3>1
    <3>3. c.kind = "start"
      BY <1>1, <1>4, <3>1 DEF ServedEffect, CallHolds
    <3>4. o # t
      BY <1>1, <1>4, <1>9, <3>1, <3>3, PeersAreMachines DEF Answered, FromPeer
    <3>5. QED
      BY <3>1, <3>2, <3>4
  <2>3. CASE h \in Held(p)
    <3>1. h # p /\ (h \in crossed \/ rpc[h] = p)
      BY <2>1, <2>3 DEF ClusterInv, HeldServe
    <3>2. CASE h \in crossed \/ h # t \/ rpc'[h] = rpc[h]
      BY <1>3, <3>1, <3>2
    <3>3. CASE h \notin crossed /\ h = t /\ rpc'[t] # rpc[t]
      <4>1. p \in Claims(t)
        BY <2>1, <3>1, <3>3, ClaimsKnown
      <4>2. p = o /\ rpc'[t] = NoOne
        BY <1>5, <1>7, <3>1, <3>3, <4>1 DEF pools
      <4>3. c.live /\ ~CallHolds(d) /\ CallHolds(c)
        BY <1>1, <1>5, <1>8, <2>1, <3>1, <3>3, <4>2 DEF Typed
      <4>4. d \in calls' /\ d.live /\ d.by = c.by /\ d.kind = c.kind /\ d.to = t
        BY <1>3, <1>4, <4>3
      <4>5. CASE c.kind = "start"
        <5>1. t \in Elements(handler[c.by].started)
          BY <1>1, <1>2, <1>3, <1>4, <2>1, <3>3, <4>2, <4>3, <4>4, <4>5 DEF HeldAsPlanned
        <5>2. c.at \in {"bind", "accepted"}
          BY <4>3, <4>5 DEF CallHolds
        <5>3. QED
          BY <2>1, <3>3, <4>2, <4>5, <5>1, <5>2 DEF ClusterInv, AskedOnce
      <4>6. CASE c.kind = "stop"
        <5>1. t \in Elements(Tail(handler[c.by].todo))
          BY <1>1, <1>2, <1>3, <1>4, <2>1, <3>3, <4>2, <4>3, <4>4, <4>6 DEF HeldAsPlanned
        <5>2. At(c.by, "telling") /\ t = Head(handler[c.by].todo)
          BY <1>1, <4>3, <4>6 DEF CallInv, CallsAreWaitedFor
        <5>3. /\ handler[c.by].todo \in Seq(Machines) /\ handler[c.by].todo # << >>
              /\ NoneTwice(handler[c.by].todo, crossed)
          BY <1>1, <2>1, <4>2, <5>2, FactsKnown DEF Facts, Planned, At, ClusterInv, AskedOnce, StopPhases
        <5>4. QED
          BY <3>3, <5>1, <5>2, <5>3, TwiceInParts
      <4>7. QED
        BY <1>1, <4>5, <4>6
    <3>4. QED
      BY <3>1, <3>2, <3>3
  <2>4. QED
    BY <2>2, <2>3
<1>12. StartedAreHosting'
  <2>1. ASSUME NEW y \in Handlers, HomeOf[y] \notin strayed,
               NEW h \in Elements(handler[y].started), h \notin crossed'
        PROVE  role'[h] = "Hosting"
    <3> DEFINE p == HomeOf[y]
    <3>1. h \in Machines /\ p \in Machines /\ h \notin crossed
      BY <1>1, <1>3, <2>1 DEF Typed
    <3>2. role[h] = "Hosting" /\ h # p
      BY <2>1, <3>1, HoldsKnown DEF ClusterInv, StartedAreHosting, HeldServe
    <3>3. CASE h # t \/ role'[h] = role[h] \/ role'[h] = "Hosting"
      BY <1>3, <3>1, <3>2, <3>3
    <3>4. CASE h = t /\ role'[t] # role[t] /\ role'[t] # "Hosting"
      <4>1. c.kind = "stop" /\ p \in Claims(t)
        BY <2>1, <3>1, <3>2, <3>4, ClaimsKnown DEF ServedEffect
      <4>2. p = o
        BY <1>7, <3>1, <3>4, <4>1 DEF pools
      <4>3. c.live /\ At(c.by, "telling")
        BY <1>1, <1>8, <2>1, <4>1, <4>2 DEF CallInv, CallsAreWaitedFor
      <4>4. handler[y].started # << >> /\ handler[y].pc # "off"
        <5>1. Elements(<< >>) = {} /\ Off.started = << >>
          BY HandlerTyped DEF Elements
        <5>2. handler[y].pc = "off" => handler[y] = Off
          BY <1>1 DEF CallInv, ListsArePlanned, Planned
        <5>3. QED
          BY <2>1, <5>1, <5>2
      <4>5. y = c.by
        BY <1>1, <2>1, <4>2, <4>3, <4>4 DEF CallInv, OneAtATime, At
      <4>6. QED
        BY <1>1, <4>3, <4>4, <4>5 DEF CallInv, ListsArePlanned, Planned, At, StopPhases
    <3>5. QED
      BY <3>3, <3>4
  <2>2. ASSUME NEW e \in calls', e.kind = "start", e.at = "accepted", OrchestratorOf(e) \notin strayed,
               e.to \notin crossed'
        PROVE  role'[e.to] = "Hosting"
    <3> DEFINE p == OrchestratorOf(e)
    <3>1. CASE e = d
      BY <1>4, <2>2, <3>1 DEF ServedEffect
    <3>2. CASE e \in calls
      <4>1. e.to \in Machines /\ p \in Machines /\ e.to \notin crossed /\ e.by \in Handlers /\ p = HomeOf[e.by]
        BY <1>1, <1>3, <2>2, <3>2 DEF Typed, OrchestratorOf
      <4>2. e.live
        BY <1>1, <2>2, <3>2 DEF CallInv, CallsAreWaitedFor
      <4>3. role[e.to] = "Hosting" /\ e.to # p
        BY <2>2, <3>2, <4>1, <4>2, HoldsKnown DEF ClusterInv, StartedAreHosting, HeldServe, CallHolds
      <4>4. CASE e.to # t \/ role'[e.to] = role[e.to] \/ role'[e.to] = "Hosting"
        BY <1>3, <4>1, <4>3, <4>4
      <4>5. CASE e.to = t /\ role'[t] # role[t] /\ role'[t] # "Hosting"
        <5>1. c.kind = "stop" /\ p \in Claims(t)
          BY <2>2, <3>2, <4>1, <4>3, <4>5, ClaimsKnown DEF ServedEffect
        <5>2. p = o
          BY <1>7, <4>1, <4>5, <5>1 DEF pools
        <5>3. At(c.by, "telling") /\ At(e.by, "asking")
          BY <1>1, <1>8, <2>2, <3>2, <4>2, <5>1, <5>2 DEF CallInv, CallsAreWaitedFor
        <5>4. QED
          BY <1>1, <2>2, <4>1, <5>2, <5>3 DEF CallInv, OneAtATime, At
      <4>6. QED
        BY <4>4, <4>5
    <3>3. QED
      BY <1>3, <3>1, <3>2
  <2>3. QED
    BY <1>3, <2>1, <2>2 DEF StartedAreHosting, OrchestratorOf
<1>13. AskedOnce'
  <2>1. \A s : NoneTwice(s, crossed) => NoneTwice(s, crossed')
    BY <1>3 DEF NoneTwice
  <2>2. ASSUME NEW y \in Handlers, HomeOf[y] \notin strayed
        PROVE  /\ NoneTwice(handler[y].started, crossed')
               /\ handler[y].pc \in StopPhases => NoneTwice(handler[y].todo, crossed')
    BY <2>1, <2>2 DEF ClusterInv, AskedOnce
  <2>3. ASSUME NEW m \in Machines \ strayed, ~Busy(m)', role'[m] = "Active"
        PROVE  NoneTwice(Remote(m, plan'[m]), crossed')
    <3>1. ~Busy(m)
      BY <1>3, <2>3 DEF Busy, At
    <3>2. role[m] = "Active" /\ plan'[m] = plan[m]
      BY <1>3, <2>3 DEF ServedEffect
    <3>3. QED
      BY <2>1, <2>3, <3>1, <3>2 DEF ClusterInv, AskedOnce
  <2>4. ASSUME NEW e \in calls', e.kind = "start", e.at \in {"spawn", "bind", "accepted"},
               OrchestratorOf(e) \notin strayed, e.to \in Elements(handler[e.by].started)
        PROVE  e.to \in crossed'
    <3>1. CASE e \in calls
      BY <1>3, <2>4, <3>1 DEF ClusterInv, AskedOnce
    <3>2. CASE e = d
      <4>1. t \in Elements(handler[c.by].started) /\ o \notin strayed /\ c.kind = "start" /\ at = e.at
        BY <1>4, <2>4, <3>2
      <4>2. CASE at = "spawn"
        BY <1>1, <1>3, <1>4, <3>2, <4>1, <4>2 DEF ServedEffect, ClusterInv, StartedAreHosting
      <4>3. CASE at # "spawn"
        <5>1. c.at \in {"spawn", "bind", "accepted"}
          BY <2>4, <4>1, <4>3 DEF ServedEffect
        <5>2. QED
          BY <1>3, <1>4, <3>2, <4>1, <5>1 DEF ClusterInv, AskedOnce
      <4>4. QED
        BY <4>2, <4>3
    <3>3. QED
      BY <1>3, <3>1, <3>2
  <2>5. QED
    BY <1>3, <2>2, <2>3, <2>4 DEF AskedOnce, OrchestratorOf
<1>14. QED
  BY <1>2, <1>10, <1>11, <1>12, <1>13 DEF ClusterInv

-----------------------------------------------------------------------------
(* What happens by itself                                                    *)

\* A machine changes by itself only when its pool or its hosting fails.
FailEffect(m) ==
  \/ UNCHANGED pools
  \/ role[m] = "Active" /\ role'[m] = "Failed" /\ rpc'[m] = NoOne /\ m \in strayed'
  \/ role[m] = "Hosting" /\ role'[m] = "Failed" /\ rpc'[m] = NoOne /\ m \in crossed'

\* What fails or is forgotten is as WorldEffect and FailEffect describe it.
LEMMA WorldSteps ==
  ASSUME ClusterInv, Watch
  PROVE  /\ \A c \in calls : Forgotten(c) => WorldEffect(c.to) /\ FailEffect(c.to)
         /\ \A m \in Machines : PoolFails(m) \/ HostingFails(m) => WorldEffect(m) /\ FailEffect(m)
<1>1. /\ role \in [Machines -> Roles] /\ plan \in [Machines -> HostList]
      /\ rpc \in [Machines -> Machines \union {NoOne}]
      /\ << >> \in HostList /\ "Failed" \in Roles
  BY HandlerTyped DEF ClusterInv, CallInv, ClusterTypeOK, Roles, HostList
<1>2. ASSUME NEW c \in calls, Forgotten(c)
      PROVE  WorldEffect(c.to) /\ FailEffect(c.to)
  BY <1>1, <1>2 DEF Forgotten, WorldEffect, FailEffect, pools
<1>3. ASSUME NEW m \in Machines, PoolFails(m)
      PROVE  WorldEffect(m) /\ FailEffect(m)
  BY <1>1, <1>3 DEF PoolFails, Become, Serve, WorldEffect, FailEffect, pools
<1>4. ASSUME NEW m \in Machines, HostingFails(m)
      PROVE  WorldEffect(m) /\ FailEffect(m)
  <2>1. role[m] = "Hosting" /\ role' = [role EXCEPT ![m] = "Failed"]
    BY <1>4 DEF HostingFails, Become
  <2>2. m \in crossed'
    BY <1>1, <2>1 DEF Watch
  <2>3. QED
    BY <1>1, <1>4, <2>1, <2>2 DEF HostingFails, Become, Serve, WorldEffect, FailEffect, pools
<1>5. QED
  BY <1>2, <1>3, <1>4

\* A failure keeps the invariant.
LEMMA WorldKeeps ==
  ASSUME ClusterInv, Watch, NEW m \in Machines, WorldEffect(m), FailEffect(m)
  PROVE  ClusterInv'
<1>1. CallInv /\ Typed
  BY TypedKnown DEF ClusterInv
<1>2. CallInv'
  BY <1>1, WorldBase
<1>3. /\ crossed \subseteq crossed' /\ handler' = handler
      /\ strayed \subseteq strayed' /\ strayed' \subseteq strayed \union {m}
      /\ \A n \in Machines \ {m} : role'[n] = role[n] /\ plan'[n] = plan[n] /\ rpc'[n] = rpc[n]
      /\ calls' \subseteq calls /\ \A c \in calls : c.live => c \in calls'
  BY DEF WorldEffect, Watch
<1>4. ASSUME NEW p \in Machines \ strayed'
      PROVE  Held(p)' = Held(p)
  <2>1. PoolHolds(p)' = PoolHolds(p)
    <3>1. Busy(p)' <=> Busy(p)
      BY <1>3 DEF Busy, At
    <3>2. CASE p # m \/ UNCHANGED pools
      BY <1>3, <3>1, <3>2 DEF PoolHolds, pools
    <3>3. CASE p = m /\ ~UNCHANGED pools
      BY <1>4, <3>3 DEF PoolHolds, FailEffect
    <3>4. QED
      BY <3>2, <3>3
  <2>2. {c \in calls' : OrchestratorOf(c) = p /\ CallHolds(c)} =
          {c \in calls : OrchestratorOf(c) = p /\ CallHolds(c)}
    BY <1>3 DEF CallHolds
  <2>3. QED
    BY <1>3, <2>1, <2>2 DEF Held, HandlerHolds, OrchestratorOf, CallHolds
<1>5. ServantsAreHeld'
  <2>1. SUFFICES ASSUME NEW h \in Machines, NEW p \in Machines, rpc'[h] = p,
                        p \notin {h} \union strayed' \union crossed'
                 PROVE  h \in Held(p)'
    BY DEF ServantsAreHeld
  <2>2. rpc[h] = p
    BY <1>1, <1>3, <2>1 DEF FailEffect, Typed, pools
  <2>3. h \in Held(p)
    BY <1>3, <2>1, <2>2 DEF ClusterInv, ServantsAreHeld
  <2>4. QED
    BY <1>4, <2>1, <2>3
<1>6. HeldServe'
  <2>1. SUFFICES ASSUME NEW p \in Machines, p \notin strayed', NEW h \in Machines, h \in Held(p)'
                 PROVE  h # p /\ (h \in crossed' \/ rpc'[h] = p)
    BY DEF HeldServe
  <2>2. h # p /\ (h \in crossed \/ rpc[h] = p)
    BY <1>3, <1>4, <2>1 DEF ClusterInv, HeldServe
  <2>3. CASE h \in crossed \/ h # m \/ UNCHANGED pools
    BY <1>3, <2>2, <2>3 DEF pools
  <2>4. CASE h \notin crossed /\ h = m /\ role[m] = "Active"
    BY <1>1, <2>1, <2>2, <2>4, ClaimsKnown, ClaimsCross DEF Orchestrates
  <2>5. CASE h = m /\ m \in crossed'
    BY <2>2, <2>5
  <2>6. QED
    BY <2>3, <2>4, <2>5 DEF FailEffect
<1>7. \A h \in Machines : role[h] = "Hosting" /\ h \notin crossed' => role'[h] = "Hosting"
  BY <1>3 DEF FailEffect, pools
<1>8. StartedAreHosting'
  <2>1. ASSUME NEW y \in Handlers, HomeOf[y] \notin strayed',
               NEW h \in Elements(handler[y].started), h \notin crossed'
        PROVE  role'[h] = "Hosting"
    BY <1>1, <1>3, <1>7, <2>1 DEF ClusterInv, StartedAreHosting, Typed
  <2>2. ASSUME NEW c \in calls', c.kind = "start", c.at = "accepted", OrchestratorOf(c) \notin strayed',
               c.to \notin crossed'
        PROVE  role'[c.to] = "Hosting"
    BY <1>1, <1>3, <1>7, <2>2 DEF ClusterInv, StartedAreHosting, Typed
  <2>3. QED
    BY <1>3, <2>1, <2>2 DEF StartedAreHosting, OrchestratorOf
<1>9. AskedOnce'
  <2>1. \A s : NoneTwice(s, crossed) => NoneTwice(s, crossed')
    BY <1>3 DEF NoneTwice
  <2>2. ASSUME NEW y \in Handlers, HomeOf[y] \notin strayed'
        PROVE  /\ NoneTwice(handler[y].started, crossed')
               /\ handler[y].pc \in StopPhases => NoneTwice(handler[y].todo, crossed')
    BY <1>3, <2>1, <2>2 DEF ClusterInv, AskedOnce
  <2>3. ASSUME NEW n \in Machines \ strayed', ~Busy(n)', role'[n] = "Active"
        PROVE  NoneTwice(Remote(n, plan'[n]), crossed')
    <3>1. ~Busy(n)
      BY <1>3, <2>3 DEF Busy, At
    <3>2. role[n] = "Active" /\ plan'[n] = plan[n]
      BY <1>3, <2>3 DEF FailEffect, pools
    <3>3. QED
      BY <1>3, <2>1, <2>3, <3>1, <3>2 DEF ClusterInv, AskedOnce
  <2>4. ASSUME NEW c \in calls', c.kind = "start", c.at \in {"spawn", "bind", "accepted"},
               OrchestratorOf(c) \notin strayed', c.to \in Elements(handler[c.by].started)
        PROVE  c.to \in crossed'
    BY <1>3, <2>4 DEF ClusterInv, AskedOnce
  <2>5. QED
    BY <1>3, <2>2, <2>3, <2>4 DEF AskedOnce, OrchestratorOf
<1>10. QED
  BY <1>2, <1>5, <1>6, <1>8, <1>9 DEF ClusterInv

-----------------------------------------------------------------------------
(* The theorems                                                              *)

\* The invariant holds at first,
LEMMA ClusterStarts == ClusterInit => ClusterInv
<1> SUFFICES ASSUME ClusterInit PROVE ClusterInv
  OBVIOUS
<1>1. /\ \A x \in Handlers : handler[x] = Off
      /\ \A m \in Machines : role[m] = "Idle" /\ plan[m] = << >> /\ rpc[m] = NoOne
      /\ calls = {} /\ broken = 0 /\ strayed = {} /\ crossed = {}
  BY DEF ClusterInit
<1>2. /\ Off \in Handler /\ Off.pc = "off" /\ Off.todo = << >> /\ Off.started = << >>
      /\ << >> \in HostList /\ Elements(<< >>) = {} /\ \A but : NoneTwice(<< >>, but)
  BY HandlerTyped DEF HostList, Elements, NoneTwice
<1>3. ClusterTypeOK
  <2>1. "Idle" \in Roles /\ 0 \in 0 .. MaxBroken
    BY MaxBrokenIsNat DEF Roles
  <2>2. QED
    BY <1>1, <1>2, <2>1 DEF ClusterInit, ClusterTypeOK
<1>4. CallsAreWaitedFor /\ AnswersArePeers /\ ListsArePlanned
  BY <1>1, <1>2 DEF CallsAreWaitedFor, AnswersArePeers, ListsArePlanned, Planned, StopPhases
<1>5. OneAtATime
  BY <1>1, <1>2, HandlersHaveHomes DEF OneAtATime, At
<1>6. \A m \in Machines : Claims(m) = {} /\ ~Busy(m)
  BY <1>1, <1>2, NoOneIsNoMachine DEF Claims, Busy, At
<1>7. CrossingIsSeen
  BY <1>6 DEF CrossingIsSeen, Crossing
<1>8. \A o \in Machines : Held(o) = {}
  BY <1>1, <1>2 DEF Held, PoolHolds, HandlerHolds
<1>9. ServantsAreHeld /\ HeldServe
  BY <1>1, <1>8, NoOneIsNoMachine DEF ServantsAreHeld, HeldServe
<1>10. StartedAreHosting /\ AskedOnce
  BY <1>1, <1>2 DEF StartedAreHosting, AskedOnce, StopPhases
<1>11. QED
  BY <1>3, <1>4, <1>5, <1>7, <1>9, <1>10 DEF ClusterInv, CallInv

\* is kept by every step,
LEMMA ClusterGoesOn == ClusterInv /\ [ClusterNext]_clusterVars => ClusterInv'
<1> SUFFICES ASSUME ClusterInv, [ClusterNext]_clusterVars PROVE ClusterInv'
  OBVIOUS
<1>1. ASSUME NEW x \in Handlers, Watch,
             \/ \E requested \in Requests : Start(x, requested)
             \/ StopPlan(x) \/ HandlerStep(x) \/ AskBreaks(x) \/ TellBreaks(x) \/ HangUp(x)
      PROVE  ClusterInv'
  BY <1>1, HandlerSteps, HandlerKeeps
<1>2. ASSUME NEW c \in calls, Watch, LayerHostStep(c)
      PROVE  ClusterInv'
  BY <1>2, CallSteps, CallKeeps
<1>3. ASSUME NEW c \in calls, Watch, Forgotten(c)
      PROVE  ClusterInv'
  <2>1. c.to \in Machines
    BY TypedKnown DEF ClusterInv, Typed
  <2>2. QED
    BY <1>3, <2>1, WorldSteps, WorldKeeps
<1>4. ASSUME NEW m \in Machines, Watch, PoolFails(m) \/ HostingFails(m)
      PROVE  ClusterInv'
  BY <1>4, WorldSteps, WorldKeeps
<1>5. CASE UNCHANGED clusterVars
  BY <1>5 DEF clusterVars, pools, ClusterInv, CallInv, ClusterTypeOK, CallsAreWaitedFor, At, OrchestratorOf,
     AnswersArePeers, Answered, FromPeer, ListsArePlanned, OneAtATime, CrossingIsSeen, Crossing, Claims,
     Orchestrates, Busy, ServantsAreHeld, HeldServe, Held, PoolHolds, HandlerHolds, CallHolds,
     StartedAreHosting, AskedOnce
<1>6. QED
  BY <1>1, <1>2, <1>3, <1>4, <1>5 DEF ClusterNext, Step

\* and so always holds.
LEMMA ClusterAlways == ClusterSpec => []ClusterInv
  BY ClusterStarts, ClusterGoesOn, PTL DEF ClusterSpec

\* The variables of PoolCluster keep their types.
THEOREM ClusterTypeCorrect == ClusterSpec => []ClusterTypeOK
<1>1. ClusterInv => ClusterTypeOK
  BY DEF ClusterInv, CallInv
<1>2. QED
  BY <1>1, ClusterAlways, PTL

\* No machine hosts for an orchestrator that has forgotten it, until that orchestrator's calls
\* overlap or break or its pool fails: whatever machines start and stop each other's hosts.
THEOREM NoHostIsOrphaned == ClusterSpec => []NoOrphanedHost
<1>1. ASSUME ClusterInv, NEW o \in Machines, NEW h \in Held(o)
      PROVE  h \in Answerable(o)
  <2>1. ASSUME NEW x \in Handlers, HomeOf[x] = o,
               h \in Elements(handler[x].started) \union Elements(handler[x].todo)
        PROVE  h \in Answerable(o)
    BY <2>1, Zenon DEF Answerable
  <2>2. ASSUME NEW x \in Handlers
        PROVE  /\ handler[x].todo \in Seq(Machines)
               /\ handler[x].pc \in {"asking", "telling"} => handler[x].todo # << >>
    BY <1>1, FactsKnown DEF ClusterInv, Facts, Planned
  <2>3. CASE h \in PoolHolds(o)
    BY <2>3 DEF PoolHolds, Remote, Elements, Answerable
  <2>4. ASSUME NEW x \in Handlers, HomeOf[x] = o, h \in HandlerHolds(x)
        PROVE  h \in Answerable(o)
    <3>1. handler[x].pc = "telling" => Elements(Tail(handler[x].todo)) \subseteq Elements(handler[x].todo)
      BY <2>2, ElementsOfParts
    <3>2. QED
      BY <2>1, <2>4, <3>1 DEF HandlerHolds
  <2>5. ASSUME NEW c \in calls, OrchestratorOf(c) = o, CallHolds(c), h = c.to
        PROVE  h \in Answerable(o)
    <3>1. /\ c.by \in Handlers /\ HomeOf[c.by] = o /\ h = Head(handler[c.by].todo)
          /\ handler[c.by].pc \in {"asking", "telling"}
      BY <1>1, <2>5, TypedKnown
      DEF ClusterInv, CallInv, CallsAreWaitedFor, Typed, CallHolds, At, OrchestratorOf
    <3>2. h \in Elements(handler[c.by].todo)
      BY <2>2, <3>1, ElementsOfParts
    <3>3. QED
      BY <2>1, <3>1, <3>2
  <2>6. QED
    BY <1>1, <2>3, <2>4, <2>5 DEF Held
<1>2. ClusterInv => NoOrphanedHost
  <2>1. SUFFICES ASSUME ClusterInv, NEW h \in Machines, rpc[h] \notin {NoOne, h},
                        rpc[h] \notin strayed \union crossed
                 PROVE  h \in Answerable(rpc[h])
    BY DEF NoOrphanedHost
  <2>2. rpc[h] \in Machines
    BY <2>1 DEF ClusterInv, CallInv, ClusterTypeOK
  <2>3. h \in Held(rpc[h])
    BY <2>1, <2>2 DEF ClusterInv, ServantsAreHeld
  <2>4. QED
    BY <1>1, <2>1, <2>2, <2>3
<1>3. QED
  BY <1>2, ClusterAlways, PTL

\* Until then no stop or rollback ends what a machine does for another orchestrator.
THEOREM StopsAreMeant == ClusterSpec => StopsHitTheirOwn
<1>1. ClusterInv => StopStep
  <2>1. SUFFICES ASSUME ClusterInv, NEW h \in Machines,
                        NEW c \in calls, LayerHostStop(c), c.to = h, OrchestratorOf(c) \notin strayed,
                        rpc[h] \notin {NoOne, OrchestratorOf(c)}
                 PROVE  h \in crossed
    BY DEF StopStep
  <2>2. c.kind = "stop" /\ c.at = "sent"
    BY <2>1 DEF LayerHostStop
  <2>3. c.live /\ OrchestratorOf(c) \in Machines
    BY <2>1, TypedKnown DEF ClusterInv, CallInv, CallsAreWaitedFor, Typed
  <2>4. h \in Held(OrchestratorOf(c))
    BY <2>1, <2>2, <2>3, HoldsKnown DEF CallHolds
  <2>5. QED
    BY <2>1, <2>3, <2>4 DEF ClusterInv, HeldServe
<1>2. QED
  BY <1>1, ClusterAlways, PTL DEF StopsHitTheirOwn, ClusterSpec

-----------------------------------------------------------------------------
(* That handlers end, as far as it can be proved.  A handler that waits has  *)
(* the call it waits for; no step gives a handler under way more to do, and  *)
(* each step of its own, or of its call on the host, leaves less.            *)

WaitersHaveCalls ==
  \A x \in Handlers : handler[x].pc \in {"asking", "telling"} => \E c \in calls : c.by = x /\ c.live

\* A bound on the steps a handler has left: each host that it asks it may have to tell as well.
Left(h) ==
  CASE h.pc = "ask"     -> 4 * Len(h.todo) + 2 * Len(h.started) + 3
    [] h.pc = "asking"  -> 4 * Len(h.todo) + 2 * Len(h.started) + 2
    [] h.pc = "spawn"   -> 2 * Len(h.started) + 2
    [] h.pc = "stop"    -> 2 * Len(h.todo) + 2
    [] h.pc = "tell"    -> 2 * Len(h.todo) + 1
    [] h.pc = "telling" -> 2 * Len(h.todo)
    [] OTHER            -> 0

\* A bound on those of a call until it is answered.
Unanswered(c) ==
  CASE c.at = "sent" -> 3 [] c.at = "spawn" -> 2 [] c.at = "bind" -> 1 [] OTHER -> 0

\* Whatever step is taken, nothing gets further from its end, and whoever takes it nearer.
HandlersGetOnStep ==
  /\ \A x \in Handlers : ~At(x, "off") => handler'[x] = handler[x] \/ Left(handler'[x]) < Left(handler[x])
  /\ \A x \in Handlers : HandlerStep(x) => handler'[x] # handler[x]
  /\ \A c \in calls : c.live /\ handler'[c.by] = handler[c.by] =>
       \E d \in calls' : d.by = c.by /\ d.live /\ (d = c \/ Unanswered(d) < Unanswered(c))
  /\ \A c \in calls : LayerHostStep(c) => c \notin calls'

HandlersGetOn == [][HandlersGetOnStep]_clusterVars

\* The bounds are numbers, and what they are at each point.
LEMMA LeftKnown ==
  ASSUME NEW h \in Handler
  PROVE  /\ Len(h.todo) \in Nat /\ Len(h.started) \in Nat /\ Left(h) \in Nat
         /\ h.pc = "off" => Left(h) = 0
         /\ h.pc = "ask" => Left(h) = 4 * Len(h.todo) + 2 * Len(h.started) + 3
         /\ h.pc = "asking" => Left(h) = 4 * Len(h.todo) + 2 * Len(h.started) + 2
         /\ h.pc = "spawn" => Left(h) = 2 * Len(h.started) + 2
         /\ h.pc = "stop" => Left(h) = 2 * Len(h.todo) + 2
         /\ h.pc = "tell" => Left(h) = 2 * Len(h.todo) + 1
         /\ h.pc = "telling" => Left(h) = 2 * Len(h.todo)
<1>1. h.todo \in Seq(Machines) /\ h.started \in Seq(Machines)
  BY HandlerTyped
<1> DEFINE t == Len(h.todo)
           s == Len(h.started)
<1>2. t \in Nat /\ s \in Nat
  BY <1>1
<1>3. /\ h.pc = "off" => Left(h) = 0
      /\ h.pc = "ask" => Left(h) = 4 * t + 2 * s + 3
      /\ h.pc = "asking" => Left(h) = 4 * t + 2 * s + 2
      /\ h.pc = "spawn" => Left(h) = 2 * s + 2
      /\ h.pc = "stop" => Left(h) = 2 * t + 2
      /\ h.pc = "tell" => Left(h) = 2 * t + 1
      /\ h.pc = "telling" => Left(h) = 2 * t
  BY DEF Left
<1>4. h.pc \in Points
  BY HandlerTyped
<1> HIDE DEF t, s
<1>5. Left(h) \in Nat
  BY <1>2, <1>3, <1>4 DEF Points
<1>6. QED
  BY <1>2, <1>3, <1>5 DEF t, s

\* A list that is not empty is longer than its tail.
LEMMA TailShorter ==
  ASSUME NEW s \in Seq(Machines), s # << >>
  PROVE  Tail(s) \in Seq(Machines) /\ Head(s) \in Machines /\ Len(s) = Len(Tail(s)) + 1
  OBVIOUS

\* A handler that is left as q.
LEMMA Updated ==
  ASSUME CallInv, NEW x \in Handlers, NEW q, Update(x, q)
  PROVE  handler'[x] = q
  BY DEF Update, CallInv, ClusterTypeOK

\* What is left to do for a handler that goes on with the same lists, or to tell these hosts.
LEMMA LeftAfter ==
  /\ \A h \in Handler, pc \in Points :
       LET q == [h EXCEPT !.pc = pc] IN
       q \in Handler /\ q.pc = pc /\ Len(q.todo) = Len(h.todo) /\ Len(q.started) = Len(h.started)
  /\ \A s \in Seq(Machines) : Left([Off EXCEPT !.pc = "tell", !.todo = s]) = 2 * Len(s) + 1
  /\ Left(Off) = 0
<1>1. /\ Off \in Handler /\ Off.pc = "off" /\ "tell" \in Points
  BY HandlerTyped, PointsNamed
<1>2. ASSUME NEW s \in Seq(Machines)
      PROVE  Left([Off EXCEPT !.pc = "tell", !.todo = s]) = 2 * Len(s) + 1
  <2> DEFINE q == [Off EXCEPT !.pc = "tell", !.todo = s]
  <2>1. q \in Handler /\ q.pc = "tell" /\ q.todo = s
    BY <1>1, HandlerTyped
  <2> HIDE DEF q
  <2>2. Left(q) = 2 * Len(s) + 1
    BY <2>1, LeftKnown
  <2>3. QED
    BY <2>2 DEF q
<1>3. Left(Off) = 0
  BY <1>1, LeftKnown
<1>4. QED
  BY <1>2, <1>3, PcChange

\* Each step of a handler under way leaves it less to do.
LEMMA HandlerGetsOn ==
  ASSUME CallInv, NEW x \in Handlers, ~At(x, "off"),
         HandlerStep(x) \/ AskBreaks(x) \/ TellBreaks(x) \/ HangUp(x)
  PROVE  Left(handler'[x]) < Left(handler[x])
<1> DEFINE h == handler[x]
           t == Len(h.todo)
           n == Len(h.started)
<1>1. /\ h \in Handler /\ h.todo \in Seq(Machines) /\ h.started \in Seq(Machines)
      /\ h.pc = "spawn" => h.todo = << >>
      /\ h.pc \in {"asking", "telling"} => h.todo # << >>
      /\ h.pc \in Points /\ h.pc # "off"
  BY FactsKnown, HandlerTyped DEF Facts, Planned, At
<1>2. /\ t \in Nat /\ n \in Nat
      /\ h.pc = "ask" => Left(h) = 4 * t + 2 * n + 3
      /\ h.pc = "asking" => Left(h) = 4 * t + 2 * n + 2
      /\ h.pc = "spawn" => Left(h) = 2 * n + 2
      /\ h.pc = "stop" => Left(h) = 2 * t + 2
      /\ h.pc = "tell" => Left(h) = 2 * t + 1
      /\ h.pc = "telling" => Left(h) = 2 * t
  BY <1>1, LeftKnown
<1>3. h.todo # << >> => /\ Tail(h.todo) \in Seq(Machines) /\ Head(h.todo) \in Machines
                        /\ t = Len(Tail(h.todo)) + 1 /\ Len(Tail(h.todo)) \in Nat
  BY <1>1, TailShorter
<1>4. \A pc \in Points : HandlerGoto(x, pc) =>
        \E q \in Handler : handler'[x] = q /\ q.pc = pc /\ Len(q.todo) = t /\ Len(q.started) = n
  BY <1>1, Updated, LeftAfter DEF HandlerGoto
<1>5. \A s \in Seq(Machines) : Undo(x, s) => Left(handler'[x]) = 2 * Len(s) + 1
  BY Updated, LeftAfter DEF Undo
<1>6. Undo(x, h.started) => Left(handler'[x]) = 2 * n + 1
  BY <1>1, <1>5
<1>7. Update(x, Off) => Left(handler'[x]) = 0
  BY Updated, LeftAfter
<1>8. {"ask", "asking", "spawn", "tell", "telling"} \subseteq Points
  BY PointsNamed
<1>9. CASE Ask(x)
  <2>1. h.pc = "ask" /\ HandlerGoto(x, "asking")
    BY <1>9 DEF Ask, At
  <2> HIDE DEF h, t, n
  <2>2. PICK q \in Handler : handler'[x] = q /\ q.pc = "asking" /\ Len(q.todo) = t /\ Len(q.started) = n
    BY <1>4, <1>8, <2>1
  <2>3. Left(q) = 4 * t + 2 * n + 2
    BY <2>2, LeftKnown
  <2>4. QED
    BY <1>2, <2>1, <2>2, <2>3 DEF h
<1>10. CASE Accepted(x)
  <2> DEFINE todo == Tail(h.todo)
             started == Append(h.started, Head(h.todo))
             q == [h EXCEPT !.pc = "ask", !.todo = todo, !.started = started]
  <2>1. h.pc = "asking" /\ handler'[x] = q
    BY <1>10, Updated DEF Accepted, At
  <2>2. started \in Seq(Machines) /\ Len(started) = n + 1
    BY <1>1, <1>3, <2>1
  <2>3. todo \in Seq(Machines) /\ t = Len(todo) + 1 /\ Len(todo) \in Nat
    BY <1>1, <1>3, <2>1
  <2> HIDE DEF h, t, n, todo, started
  <2>4. q \in Handler /\ q.pc = "ask" /\ q.todo = todo /\ q.started = started
    BY <1>1, <1>8, <2>2, <2>3, HandlerTyped DEF h
  <2> HIDE DEF q
  <2>5. Left(q) = 4 * Len(todo) + 2 * Len(started) + 3
    BY <2>4, LeftKnown
  <2>6. Left(q) < Left(h)
    BY <1>2, <2>1, <2>2, <2>3, <2>5
  <2>7. QED
    BY <2>1, <2>6 DEF h
<1>11. CASE Refused(x) \/ AskBreaks(x)
  <2>1. h.pc = "asking" /\ Undo(x, h.started)
    BY <1>11 DEF Refused, AskBreaks, At
  <2> HIDE DEF h, t, n
  <2>2. QED
    BY <1>2, <1>6, <2>1 DEF h
<1>12. CASE StartLocal(x)
  <2>1. h.pc = "ask" /\ (Update(x, Off) \/ HandlerGoto(x, "spawn"))
    BY <1>12 DEF StartLocal, At
  <2> HIDE DEF h, t, n
  <2>2. ASSUME HandlerGoto(x, "spawn")
        PROVE  Left(handler'[x]) = 2 * n + 2
    <3>1. PICK q \in Handler : handler'[x] = q /\ q.pc = "spawn" /\ Len(q.started) = n
      BY <1>4, <1>8, <2>2
    <3>2. Left(q) = 2 * n + 2
      BY <3>1, LeftKnown
    <3>3. QED
      BY <3>1, <3>2
  <2>3. QED
    BY <1>2, <1>7, <2>1, <2>2 DEF h
<1>13. CASE LocalStarted(x)
  <2>1. h.pc = "spawn" /\ Update(x, Off)
    BY <1>13 DEF LocalStarted, At
  <2> HIDE DEF h, t, n
  <2>2. QED
    BY <1>2, <1>7, <2>1 DEF h
<1>14. CASE LocalFails(x)
  <2>1. h.pc = "spawn" /\ Undo(x, h.started)
    BY <1>14 DEF LocalFails, At
  <2> HIDE DEF h, t, n
  <2>2. QED
    BY <1>2, <1>6, <2>1 DEF h
<1>15. CASE StopLocal(x)
  <2>1. h.pc = "stop" /\ HandlerGoto(x, "tell")
    BY <1>15 DEF StopLocal, At
  <2> HIDE DEF h, t, n
  <2>2. PICK q \in Handler : handler'[x] = q /\ q.pc = "tell" /\ Len(q.todo) = t /\ Len(q.started) = n
    BY <1>4, <1>8, <2>1
  <2>3. Left(q) = 2 * t + 1
    BY <2>2, LeftKnown
  <2>4. QED
    BY <1>2, <2>1, <2>2, <2>3 DEF h
<1>16. CASE Tell(x)
  <2>1. h.pc = "tell" /\ HandlerGoto(x, "telling")
    BY <1>16 DEF Tell, At
  <2> HIDE DEF h, t, n
  <2>2. PICK q \in Handler : handler'[x] = q /\ q.pc = "telling" /\ Len(q.todo) = t /\ Len(q.started) = n
    BY <1>4, <1>8, <2>1
  <2>3. Left(q) = 2 * t
    BY <2>2, LeftKnown
  <2>4. QED
    BY <1>2, <2>1, <2>2, <2>3 DEF h
<1>17. CASE Told(x) \/ TellBreaks(x)
  <2> DEFINE todo == Tail(h.todo)
             q == [h EXCEPT !.pc = "tell", !.todo = todo]
  <2>1. h.pc = "telling" /\ handler'[x] = q
    BY <1>17, Updated DEF Told, TellBreaks, At
  <2>2. todo \in Seq(Machines) /\ t = Len(todo) + 1 /\ Len(todo) \in Nat
    BY <1>1, <1>3, <2>1
  <2> HIDE DEF h, t, n, todo
  <2>3. q \in Handler /\ q.pc = "tell" /\ q.todo = todo
    BY <1>1, <1>8, <2>2, HandlerTyped DEF h
  <2> HIDE DEF q
  <2>4. Left(q) = 2 * Len(todo) + 1
    BY <2>3, LeftKnown
  <2>5. QED
    BY <1>2, <2>1, <2>2, <2>4 DEF h
<1>18. CASE ToldAll(x)
  <2>1. h.pc = "tell" /\ Update(x, Off)
    BY <1>18 DEF ToldAll, At
  <2> HIDE DEF h, t, n
  <2>2. QED
    BY <1>2, <1>7, <2>1 DEF h
<1>19. CASE HangUp(x)
  <2>1. h.pc = "telling" => t > 0
    BY <1>1, <1>3
  <2>2. Update(x, Off)
    BY <1>19 DEF HangUp
  <2> HIDE DEF h, t, n
  <2>3. Left(h) > 0
    BY <1>1, <1>2, <2>1 DEF Points
  <2>4. QED
    BY <1>7, <2>2, <2>3 DEF h
<1>20. QED
  BY <1>9, <1>10, <1>11, <1>12, <1>13, <1>14, <1>15, <1>16, <1>17, <1>18, <1>19 DEF HandlerStep

\* Each step on the host brings the call's answer nearer, and moves no handler.
LEMMA CallGetsOn ==
  ASSUME CallInv, NEW c \in calls, LayerHostStep(c)
  PROVE  /\ handler' = handler
         /\ \E d : /\ d.by = c.by /\ d.live = c.live /\ Unanswered(d) < Unanswered(c)
                   /\ calls' = (calls \ {c}) \union {d}
<1>1. \E at : /\ handler' = handler
              /\ calls' = (calls \ {c}) \union {[c EXCEPT !.at = at]}
              /\ \/ c.at = "sent" /\ at \in {"spawn", "accepted", "refused"}
                 \/ c.at = "spawn" /\ at \in {"bind", "refused"}
                 \/ c.at = "bind" /\ at \in {"accepted", "refused"}
  <2>1. ASSUME LayerHostEnter(c)
        PROVE  /\ c.at = "sent" /\ handler' = handler
               /\ Advance(c, "spawn") \/ Advance(c, "refused")
    BY <2>1 DEF LayerHostEnter
  <2>2. LayerHostSpawn(c) => c.at = "spawn" /\ handler' = handler /\ Advance(c, "bind")
    BY DEF LayerHostSpawn
  <2>3. LayerHostSpawnFails(c) => c.at = "spawn" /\ handler' = handler /\ Advance(c, "refused")
    BY DEF LayerHostSpawnFails
  <2>4. LayerHostBound(c) => c.at = "bind" /\ handler' = handler /\ Advance(c, "accepted")
    BY DEF LayerHostBound
  <2>5. LayerHostBindTimeout(c) => c.at = "bind" /\ handler' = handler /\ Advance(c, "refused")
    BY DEF LayerHostBindTimeout
  <2>6. ASSUME LayerHostStop(c)
        PROVE  /\ c.at = "sent" /\ handler' = handler
               /\ Advance(c, "accepted") \/ Advance(c, "refused")
    BY <2>6 DEF LayerHostStop
  <2>7. QED
    BY <2>1, <2>2, <2>3, <2>4, <2>5, <2>6 DEF LayerHostStep, Advance
<1>2. PICK at : /\ handler' = handler
                /\ calls' = (calls \ {c}) \union {[c EXCEPT !.at = at]}
                /\ \/ c.at = "sent" /\ at \in {"spawn", "accepted", "refused"}
                   \/ c.at = "spawn" /\ at \in {"bind", "refused"}
                   \/ c.at = "bind" /\ at \in {"accepted", "refused"}
  BY <1>1
<1> DEFINE d == [c EXCEPT !.at = at]
<1>3. d.by = c.by /\ d.live = c.live /\ d.at = at
  BY AdvancedTyped
<1> HIDE DEF d
<1>4. Unanswered(d) < Unanswered(c)
  BY <1>2, <1>3 DEF Unanswered
<1>5. QED
  BY <1>2, <1>3, <1>4 DEF d

\* A handler that waits has its call at first,
LEMMA WaitersStart == ClusterInit => WaitersHaveCalls
  BY HandlerTyped DEF ClusterInit, WaitersHaveCalls

\* and after every step.
LEMMA WaitersGoOn ==
  ClusterInv /\ WaitersHaveCalls /\ [ClusterNext]_clusterVars => WaitersHaveCalls'
<1> SUFFICES ASSUME ClusterInv, WaitersHaveCalls, [ClusterNext]_clusterVars,
                    NEW y \in Handlers, handler'[y].pc \in {"asking", "telling"}
             PROVE  \E c \in calls' : c.by = y /\ c.live
  BY DEF WaitersHaveCalls
<1>1. CallInv /\ handler \in [Handlers -> Handler]
  BY DEF ClusterInv, CallInv, ClusterTypeOK
<1>2. ASSUME handler'[y] = handler[y]
      PROVE  \E c \in calls : c.by = y /\ c.live
  BY <1>2 DEF WaitersHaveCalls
<1>3. ASSUME NEW x \in Handlers, Effect(x)
      PROVE  \E c \in calls' : c.by = y /\ c.live
  <2>1. PICK q, new : HandlerEffect(x, q, new)
    BY <1>3 DEF Effect
  <2>2. /\ handler' = [handler EXCEPT ![x] = q]
        /\ \A c \in new : c \in calls' /\ c.by = x /\ c.live
        /\ q.pc \in {"asking", "telling"} => new # {}
        /\ \A c \in calls : c.by # x => c \in calls'
    BY <2>1 DEF HandlerEffect, SendEffect
  <2>3. CASE y = x
    BY <1>1, <2>2, <2>3
  <2>4. CASE y # x
    BY <1>1, <1>2, <2>2, <2>4
  <2>5. QED
    BY <2>3, <2>4
<1>4. ASSUME NEW c \in calls, LayerHostStep(c)
      PROVE  \E d \in calls' : d.by = y /\ d.live
  BY <1>1, <1>2, <1>4, CallGetsOn
<1>5. ASSUME NEW m, WorldEffect(m)
      PROVE  \E c \in calls' : c.by = y /\ c.live
  BY <1>2, <1>5 DEF WorldEffect
<1>6. CASE UNCHANGED clusterVars
  BY <1>2, <1>6 DEF clusterVars
<1>7. QED
  BY <1>3, <1>4, <1>5, <1>6, HandlerSteps, WorldSteps DEF ClusterNext, Step

\* A start or stop that waits has a call of its own out, which is on its way, at its host or
\* answered: none is lost with the handler still waiting for it.  Whether the host ever answers
\* is another matter.
THEOREM NobodyWaitsInVain == ClusterSpec => []WaitersHaveCalls
  BY WaitersStart, WaitersGoOn, ClusterAlways, PTL DEF ClusterSpec

\* However machines call each other, no step sends a start or stop back, and every step that
\* it or its host takes brings its end nearer.
THEOREM HandlersComeOn == ClusterSpec => HandlersGetOn
<1>1. ClusterInv /\ ClusterNext => HandlersGetOnStep
  <2> SUFFICES ASSUME ClusterInv, ClusterNext PROVE HandlersGetOnStep
    OBVIOUS
  <2>1. CallInv /\ handler \in [Handlers -> Handler] /\ \A h \in Handler : Left(h) \in Nat
    BY LeftKnown DEF ClusterInv, CallInv, ClusterTypeOK
  <2>2. ASSUME NEW x \in Handlers, HandlerStep(x)
        PROVE  ~At(x, "off") /\ handler'[x] # handler[x]
    <3>1. ~At(x, "off")
      BY <2>2 DEF HandlerStep, Ask, Accepted, Refused, StartLocal, LocalStarted, LocalFails,
                  StopLocal, Tell, Told, ToldAll, At
    <3>2. QED
      BY <2>1, <2>2, <3>1, HandlerGetsOn
  <2>3. ASSUME NEW c \in calls, LayerHostStep(c)
        PROVE  c \notin calls'
    <3>1. PICK d : Unanswered(d) < Unanswered(c) /\ calls' = (calls \ {c}) \union {d}
      BY <2>1, <2>3, CallGetsOn
    <3>2. Unanswered(c) \in Nat
      BY DEF Unanswered
    <3>3. QED
      BY <3>1, <3>2
  <2> DEFINE Nearer(x) == ~At(x, "off") => handler'[x] = handler[x] \/ Left(handler'[x]) < Left(handler[x])
             Stays(c) == c.live /\ handler'[c.by] = handler[c.by] =>
               \E d \in calls' : d.by = c.by /\ d.live /\ (d = c \/ Unanswered(d) < Unanswered(c))
  <2>4. ASSUME NEW x \in Handlers,
               \/ \E requested \in Requests : Start(x, requested)
               \/ StopPlan(x) \/ HandlerStep(x) \/ AskBreaks(x) \/ TellBreaks(x) \/ HangUp(x)
        PROVE  (\A y \in Handlers : Nearer(y)) /\ \A c \in calls : Stays(c)
    <3>1. PICK q, new : HandlerEffect(x, q, new)
      BY <2>4, HandlerSteps DEF Effect
    <3>2. /\ \A y \in Handlers \ {x} : handler'[y] = handler[y]
          /\ \A c \in calls : c.by # x => c \in calls'
      BY <2>1, <3>1 DEF HandlerEffect, SendEffect
    <3>3. ~At(x, "off") => Left(handler'[x]) < Left(handler[x])
      BY <2>1, <2>4, HandlerGetsOn DEF Start, Begin, StopPlan
    <3>4. \A c \in calls : c.live /\ c.by = x => ~At(x, "off")
      BY <2>1 DEF CallInv, CallsAreWaitedFor, At
    <3>5. \A c \in calls : c.live /\ c.by = x => handler'[x] # handler[x]
      BY <2>1, <3>3, <3>4
    <3>6. QED
      BY <3>2, <3>3, <3>5
  <2>5. ASSUME NEW c \in calls, LayerHostStep(c)
        PROVE  (\A y \in Handlers : Nearer(y)) /\ \A e \in calls : Stays(e)
    BY <2>1, <2>5, CallGetsOn
  <2>6. ASSUME NEW m, WorldEffect(m)
        PROVE  (\A y \in Handlers : Nearer(y)) /\ \A c \in calls : Stays(c)
    BY <2>6 DEF WorldEffect
  <2> HIDE DEF Nearer, Stays
  <2>7. (\A y \in Handlers : Nearer(y)) /\ \A c \in calls : Stays(c)
    BY <2>4, <2>5, <2>6, WorldSteps DEF ClusterNext, Step
  <2>8. QED
    BY <2>2, <2>3, <2>7 DEF HandlersGetOnStep, Nearer, Stays
<1>2. ClusterInv /\ [ClusterNext]_clusterVars => [HandlersGetOnStep]_clusterVars
  BY <1>1
<1>3. QED
  BY <1>2, ClusterAlways, PTL DEF ClusterSpec, HandlersGetOn
=============================================================================
