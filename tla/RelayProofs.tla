----------------------------- MODULE RelayProofs -----------------------------
(****************************************************************************)
(* Theorems about Relay, for any finite set of sockets, any keys and        *)
(* addresses and any caps.                                                  *)
(****************************************************************************)
EXTENDS Relay, FiniteSetTheorems, TLAPS

-----------------------------------------------------------------------------
(* Types                                                                     *)

\* What a task knows once it has got that far: where the socket comes from, which key it
\* proved, and whom it is about to tell.
Known ==
  \A c \in Conns :
    /\ conn[c] # "closed" => ip[c] \in Ips
    /\ conn[c] \in {"open", "punching", "leaving"} => key[c] \in Keys
    /\ conn[c] = "punching" => match[c] \in Msg

TypeInv == TypeOK /\ Known

\* The tables have their types, and hold only known sockets, when the relay starts.
LEMMA TypeInvInit == Init => TypeInv
  BY DEF Init, TypeInv, TypeOK, Known, ConnPC

\* Every step of a socket task keeps the types of the tables.
LEMMA TypeInvStep == TypeInv /\ [Next]_vars => TypeInv'
<1> SUFFICES ASSUME TypeInv, [Next]_vars
             PROVE  TypeInv'
  OBVIOUS
<1> USE NoOneIsNone DEF TypeInv, TypeOK, Known, ConnPC, Msg, Pairs
<1>1. ASSUME NEW c \in Conns, NEW i \in Ips, Admit(c, i)
      PROVE  TypeInv'
  BY <1>1 DEF Admit, Goto, sockets, punches
<1>2. ASSUME NEW c \in Conns, ReserveSlot(c)
      PROVE  TypeInv'
  BY <1>2 DEF ReserveSlot, Goto, sockets, punches
<1>3. ASSUME NEW c \in Conns, NEW k \in Keys, Register(c, k)
      PROVE  TypeInv'
  BY <1>3 DEF Register, Goto, sockets, punches
<1>4. ASSUME NEW c \in Conns, RegisterFails(c)
      PROVE  TypeInv'
  BY <1>4 DEF RegisterFails, Goto, sockets, punches
<1>5. ASSUME NEW c \in Conns, Unregister(c)
      PROVE  TypeInv'
  BY <1>5 DEF Unregister, Goto, sockets, punches
<1>6. ASSUME NEW c \in Conns, ReleaseSlot(c)
      PROVE  TypeInv'
  <2>1. ip[c] \in Ips /\ ipCount[ip[c]] \in Nat
    BY <1>6 DEF ReleaseSlot
  <2>2. (IF ipCount[ip[c]] = 0 THEN 0 ELSE ipCount[ip[c]] - 1) \in Nat
    BY <2>1
  <2>3. ipCount' \in [Ips -> Nat]
    BY <1>6, <2>1, <2>2 DEF ReleaseSlot
  <2>4. QED
    BY <1>6, <2>3 DEF ReleaseSlot, Goto
<1>7. ASSUME NEW c \in Conns, NEW k \in Keys, PunchRequest(c, k)
      PROVE  TypeInv'
  <2> DEFINE fresh == [p \in Pairs |-> IF p \in stale THEN NoOne ELSE half[p]]
  <2>1. fresh \in [Pairs -> Ips \union {NoOne}]
    OBVIOUS
  <2>2. key[c] \in Keys /\ ip[c] \in Ips
    BY <1>7 DEF PunchRequest
  <2>3. <<k, key[c]>> \in Pairs /\ <<key[c], k>> \in Pairs
    BY <2>2
  <2>4. CASE fresh[<<k, key[c]>>] # NoOne
    <3>1. /\ half' = [fresh EXCEPT ![<<k, key[c]>>] = NoOne]
          /\ match' = [match EXCEPT ![c] = [peer |-> k, addr |-> fresh[<<k, key[c]>>]]]
          /\ conn' = [conn EXCEPT ![c] = "punching"]
          /\ stale' = {} /\ UNCHANGED <<ip, key, sessions, ipCount, told>>
      BY <1>7, <2>4 DEF PunchRequest, Goto
    <3>2. [peer |-> k, addr |-> fresh[<<k, key[c]>>]] \in Msg
      BY <2>1, <2>3, <2>4
    <3> HIDE DEF fresh
    <3>3. half' \in [Pairs -> Ips \union {NoOne}]
      BY <2>1, <3>1
    <3>4. match' \in [Conns -> Msg \union {NoOne}] /\ match'[c] \in Msg
      BY <3>1, <3>2
    <3>5. QED
      BY <1>7, <3>1, <3>3, <3>4 DEF PunchRequest
  <2>5. CASE fresh[<<k, key[c]>>] = NoOne
    <3>1. /\ half' = [fresh EXCEPT ![<<key[c], k>>] = ip[c]]
          /\ stale' = {} /\ UNCHANGED <<conn, match, ip, key, sessions, ipCount, told>>
      BY <1>7, <2>5 DEF PunchRequest
    <3> HIDE DEF fresh
    <3>2. half' \in [Pairs -> Ips \union {NoOne}]
      BY <2>1, <2>2, <3>1
    <3>3. QED
      BY <3>1, <3>2
  <2>6. QED
    BY <2>4, <2>5
<1>8. ASSUME NEW c \in Conns, PunchTell(c)
      PROVE  TypeInv'
  <2>1. key[c] \in Keys /\ ip[c] \in Ips /\ match[c] \in Msg
    BY <1>8 DEF PunchTell
  <2>2. [peer |-> key[c], addr |-> ip[c]] \in Msg
    BY <2>1
  <2>3. told' \in [Conns -> Msg \union {NoOne}]
    BY <1>8, <2>1, <2>2 DEF PunchTell
  <2>4. match' \in [Conns -> Msg \union {NoOne}]
        /\ \A d \in Conns : conn'[d] = "punching" => match'[d] \in Msg
    BY <1>8 DEF PunchTell, Goto
  <2>5. QED
    BY <1>8, <2>3, <2>4 DEF PunchTell, Goto
<1>9. ASSUME NEW p \in Pairs, HalfExpires(p)
      PROVE  TypeInv'
  BY <1>9 DEF HalfExpires, sockets, punches
<1>10. ASSUME Restart
      PROVE  TypeInv'
  BY <1>10 DEF Restart, sockets, punches
<1>11. CASE UNCHANGED vars
  BY <1>11 DEF vars, sockets, punches
<1>12. QED
  BY <1>1, <1>2, <1>3, <1>4, <1>5, <1>6, <1>7, <1>8, <1>9, <1>10, <1>11 DEF Next

\* The variables have their types, in every state.
THEOREM TypeCorrect == Spec => []TypeOK
<1>1. TypeInv => TypeOK
  BY DEF TypeInv
<1>2. QED
  BY TypeInvInit, TypeInvStep, <1>1, PTL DEF Spec

-----------------------------------------------------------------------------
(* Sessions                                                                  *)

\* A task removes or replaces only its own session, so each entry stays that of a socket
\* that registered under its key.
LEMMA SessionsStep ==
  TypeInv /\ SessionsAreTheirSockets /\ [Next]_vars => SessionsAreTheirSockets'
<1> SUFFICES ASSUME TypeOK, Known, SessionsAreTheirSockets, [Next]_vars
             PROVE  SessionsAreTheirSockets'
  BY DEF TypeInv
<1> USE NoOneIsNone DEF TypeOK, Known, ConnPC, SessionsAreTheirSockets, Registered
<1>1. ASSUME NEW c \in Conns, NEW i \in Ips, Admit(c, i)
      PROVE  SessionsAreTheirSockets'
  BY <1>1 DEF Admit, Goto, sockets, punches
<1>2. ASSUME NEW c \in Conns, ReserveSlot(c)
      PROVE  SessionsAreTheirSockets'
  BY <1>2 DEF ReserveSlot, Goto, sockets, punches
<1>3. ASSUME NEW c \in Conns, NEW k \in Keys, Register(c, k)
      PROVE  SessionsAreTheirSockets'
  BY <1>3 DEF Register, Goto, sockets, punches
<1>4. ASSUME NEW c \in Conns, RegisterFails(c)
      PROVE  SessionsAreTheirSockets'
  BY <1>4 DEF RegisterFails, Goto, sockets, punches
<1>5. ASSUME NEW c \in Conns, Unregister(c)
      PROVE  SessionsAreTheirSockets'
  BY <1>5 DEF Unregister, Goto, sockets, punches
<1>6. ASSUME NEW c \in Conns, ReleaseSlot(c)
      PROVE  SessionsAreTheirSockets'
  BY <1>6 DEF ReleaseSlot, Goto, sockets, punches
<1>7. ASSUME NEW c \in Conns, NEW k \in Keys, PunchRequest(c, k)
      PROVE  SessionsAreTheirSockets'
  BY <1>7 DEF PunchRequest, Goto, sockets, punches
<1>8. ASSUME NEW c \in Conns, PunchTell(c)
      PROVE  SessionsAreTheirSockets'
  BY <1>8 DEF PunchTell, Goto, sockets, punches
<1>9. ASSUME NEW p \in Pairs, HalfExpires(p)
      PROVE  SessionsAreTheirSockets'
  BY <1>9 DEF HalfExpires, sockets, punches
<1>10. ASSUME Restart
      PROVE  SessionsAreTheirSockets'
  BY <1>10 DEF Restart, sockets, punches
<1>11. CASE UNCHANGED vars
  BY <1>11 DEF vars, sockets, punches
<1>12. QED
  BY <1>1, <1>2, <1>3, <1>4, <1>5, <1>6, <1>7, <1>8, <1>9, <1>10, <1>11 DEF Next

\* A stored session belongs to the socket that proved its key and still serves it, and
\* every such socket has its session stored.
THEOREM SessionsBelongToSockets == Spec => []SessionsAreTheirSockets
<1>1. Init => SessionsAreTheirSockets
  BY NoOneIsNone DEF Init, SessionsAreTheirSockets, Registered
<1>2. QED
  BY TypeInvInit, TypeInvStep, SessionsStep, <1>1, PTL DEF Spec

\* A step ends a session only as its own socket leaves, or with every other in a restart.
LEMMA SessionStepHolds ==
  TypeInv /\ SessionsAreTheirSockets /\ [Next]_vars => [SessionStep]_vars
<1> SUFFICES ASSUME TypeOK, Known, SessionsAreTheirSockets, [Next]_vars
             PROVE  SessionStep
  BY DEF TypeInv
<1> USE NoOneIsNone DEF TypeOK, Known, ConnPC, SessionsAreTheirSockets, Registered,
                        SessionStep
<1>1. ASSUME NEW c \in Conns, NEW i \in Ips, Admit(c, i)
      PROVE  SessionStep
  BY <1>1 DEF Admit, Goto, sockets, punches
<1>2. ASSUME NEW c \in Conns, ReserveSlot(c)
      PROVE  SessionStep
  BY <1>2 DEF ReserveSlot, Goto, sockets, punches
<1>3. ASSUME NEW c \in Conns, NEW k \in Keys, Register(c, k)
      PROVE  SessionStep
  BY <1>3 DEF Register, Goto, sockets, punches
<1>4. ASSUME NEW c \in Conns, RegisterFails(c)
      PROVE  SessionStep
  BY <1>4 DEF RegisterFails, Goto, sockets, punches
<1>5. ASSUME NEW c \in Conns, Unregister(c)
      PROVE  SessionStep
  BY <1>5 DEF Unregister, Goto, sockets, punches
<1>6. ASSUME NEW c \in Conns, ReleaseSlot(c)
      PROVE  SessionStep
  BY <1>6 DEF ReleaseSlot, Goto, sockets, punches
<1>7. ASSUME NEW c \in Conns, NEW k \in Keys, PunchRequest(c, k)
      PROVE  SessionStep
  BY <1>7 DEF PunchRequest, Goto, sockets, punches
<1>8. ASSUME NEW c \in Conns, PunchTell(c)
      PROVE  SessionStep
  BY <1>8 DEF PunchTell, Goto, sockets, punches
<1>9. ASSUME NEW p \in Pairs, HalfExpires(p)
      PROVE  SessionStep
  BY <1>9 DEF HalfExpires, sockets, punches
<1>10. ASSUME Restart
      PROVE  SessionStep
  BY <1>10 DEF Restart, sockets, punches
<1>11. CASE UNCHANGED vars
  BY <1>11 DEF vars, sockets, punches
<1>12. QED
  BY <1>1, <1>2, <1>3, <1>4, <1>5, <1>6, <1>7, <1>8, <1>9, <1>10, <1>11 DEF Next

\* Only its own socket, or a restart, ends a session.
THEOREM NoSessionIsStolen == Spec => SessionsAreNotStolen
<1>1. Init => SessionsAreTheirSockets
  BY NoOneIsNone DEF Init, SessionsAreTheirSockets, Registered
<1>2. QED
  BY TypeInvInit, TypeInvStep, SessionsStep, SessionStepHolds, <1>1, PTL
     DEF Spec, SessionsAreNotStolen

-----------------------------------------------------------------------------
(* Hole punching                                                             *)

\* A punch request either waits or takes the half that waits: never two halves of a pair.
LEMMA OneHalfStep == TypeInv /\ OneHalfPerPair /\ [Next]_vars => OneHalfPerPair'
<1> SUFFICES ASSUME TypeOK, Known, OneHalfPerPair, [Next]_vars
             PROVE  OneHalfPerPair'
  BY DEF TypeInv
<1> USE NoOneIsNone DEF TypeOK, Known, ConnPC, OneHalfPerPair, Pairs
<1>1. ASSUME NEW c \in Conns, NEW i \in Ips, Admit(c, i)
      PROVE  OneHalfPerPair'
  BY <1>1 DEF Admit, Goto, sockets, punches
<1>2. ASSUME NEW c \in Conns, ReserveSlot(c)
      PROVE  OneHalfPerPair'
  BY <1>2 DEF ReserveSlot, Goto, sockets, punches
<1>3. ASSUME NEW c \in Conns, NEW k \in Keys, Register(c, k)
      PROVE  OneHalfPerPair'
  BY <1>3 DEF Register, Goto, sockets, punches
<1>4. ASSUME NEW c \in Conns, RegisterFails(c)
      PROVE  OneHalfPerPair'
  BY <1>4 DEF RegisterFails, Goto, sockets, punches
<1>5. ASSUME NEW c \in Conns, Unregister(c)
      PROVE  OneHalfPerPair'
  BY <1>5 DEF Unregister, Goto, sockets, punches
<1>6. ASSUME NEW c \in Conns, ReleaseSlot(c)
      PROVE  OneHalfPerPair'
  BY <1>6 DEF ReleaseSlot, Goto, sockets, punches
<1>7. ASSUME NEW c \in Conns, NEW k \in Keys, PunchRequest(c, k)
      PROVE  OneHalfPerPair'
  <2> DEFINE fresh == [p \in Pairs |-> IF p \in stale THEN NoOne ELSE half[p]]
  <2>1. \A a, b \in Keys :
          /\ a # b => fresh[<<a, b>>] = NoOne \/ fresh[<<b, a>>] = NoOne
          /\ <<a, b>> \in Pairs
    OBVIOUS
  <2>2. DOMAIN fresh = Pairs
    OBVIOUS
  <2>3. key[c] \in Keys
    BY <1>7 DEF PunchRequest
  <2>4. CASE fresh[<<k, key[c]>>] # NoOne
    <3>1. half' = [fresh EXCEPT ![<<k, key[c]>>] = NoOne]
      BY <1>7, <2>4 DEF PunchRequest
    <3> HIDE DEF fresh
    <3>2. QED
      BY <2>1, <2>2, <2>3, <3>1
  <2>5. CASE fresh[<<k, key[c]>>] = NoOne
    <3>1. half' = [fresh EXCEPT ![<<key[c], k>>] = ip[c]]
      BY <1>7, <2>5 DEF PunchRequest
    <3> HIDE DEF fresh
    <3>2. QED
      BY <2>1, <2>2, <2>3, <2>5, <3>1
  <2>6. QED
    BY <2>4, <2>5
<1>8. ASSUME NEW c \in Conns, PunchTell(c)
      PROVE  OneHalfPerPair'
  BY <1>8 DEF PunchTell, Goto, sockets, punches
<1>9. ASSUME NEW p \in Pairs, HalfExpires(p)
      PROVE  OneHalfPerPair'
  BY <1>9 DEF HalfExpires, sockets, punches
<1>10. ASSUME Restart
      PROVE  OneHalfPerPair'
  BY <1>10 DEF Restart, sockets, punches
<1>11. CASE UNCHANGED vars
  BY <1>11 DEF vars, sockets, punches
<1>12. QED
  BY <1>1, <1>2, <1>3, <1>4, <1>5, <1>6, <1>7, <1>8, <1>9, <1>10, <1>11 DEF Next

\* Two peers never wait for each other.
THEOREM PeersDoNotWaitForEachOther == Spec => []OneHalfPerPair
<1>1. Init => OneHalfPerPair
  BY DEF Init, OneHalfPerPair, Pairs
<1>2. QED
  BY TypeInvInit, TypeInvStep, OneHalfStep, <1>1, PTL DEF Spec

-----------------------------------------------------------------------------
(* Slots                                                                     *)

\* The sockets of one address are finitely many, so they can be counted.
LEMMA SlotsFinite == \A i \in Ips : IsFiniteSet(Slots(i))
  BY ConnsFinite, FS_Subset DEF Slots

\* The share is an inductive invariant only together with the exactness of the count:
\* the code compares the count, not the sockets, with the cap.
SlotInv == SlotsMatchSockets /\ \A i \in Ips : ipCount[i] <= MaxPerIp

\* Reserving a slot and dropping its guard move the count and the sockets together.
LEMMA SlotStep == TypeInv /\ SlotInv /\ [Next]_vars => SlotInv'
<1> SUFFICES ASSUME TypeOK, Known, SlotInv, [Next]_vars
             PROVE  SlotInv'
  BY DEF TypeInv
<1> USE NoOneIsNone, CapsAreNat DEF TypeOK, Known, ConnPC, SlotInv, SlotsMatchSockets
<1>1. ASSUME NEW c \in Conns, NEW i \in Ips, Admit(c, i)
      PROVE  SlotInv'
  <2>1. ipCount' = ipCount /\ \A j \in Ips : Slots(j)' = Slots(j)
    BY <1>1 DEF Admit, Goto, Slots, HoldsSlot, sockets, punches
  <2>2. QED
    BY <2>1
<1>2. ASSUME NEW c \in Conns, ReserveSlot(c)
      PROVE  SlotInv'
  <2>1. CASE ipCount[ip[c]] >= MaxPerIp
    <3>1. ipCount' = ipCount /\ \A i \in Ips : Slots(i)' = Slots(i)
      BY <1>2, <2>1 DEF ReserveSlot, Goto, Slots, HoldsSlot
    <3>2. QED
      BY <3>1
  <2>2. CASE ~(ipCount[ip[c]] >= MaxPerIp)
    <3>1. PICK j \in Ips : j = ip[c]
      BY <1>2 DEF ReserveSlot
    <3>2. /\ ip' = ip /\ conn[c] = "admitted"
          /\ conn' = [conn EXCEPT ![c] = "hello"]
          /\ ipCount' = [ipCount EXCEPT ![j] = @ + 1]
      BY <1>2, <2>2, <3>1 DEF ReserveSlot, Goto
    <3>3. /\ \A i \in Ips \ {j} : Slots(i)' = Slots(i)
          /\ Slots(j)' = Slots(j) \union {c} /\ c \notin Slots(j)
      BY <3>1, <3>2 DEF Slots, HoldsSlot
    <3>4. Cardinality(Slots(j)') = Cardinality(Slots(j)) + 1
      BY ZenonT(60), <3>3, SlotsFinite, FS_AddElement
    <3>5. ipCount[j] \in Nat /\ ipCount[j] = Cardinality(Slots(j))
      OBVIOUS
    <3>6. ipCount'[j] = ipCount[j] + 1 /\ \A i \in Ips \ {j} : ipCount'[i] = ipCount[i]
      BY <3>2
    <3>7. \A i \in Ips : ipCount'[i] = Cardinality(Slots(i)')
      BY <3>3, <3>4, <3>5, <3>6
    <3>8. \A i \in Ips : ipCount'[i] <= MaxPerIp
      BY <2>2, <3>1, <3>5, <3>6
    <3>9. QED
      BY <3>7, <3>8
  <2>3. QED
    BY <2>1, <2>2
<1>3. ASSUME NEW c \in Conns, NEW k \in Keys, Register(c, k)
      PROVE  SlotInv'
  <2>1. ipCount' = ipCount /\ \A i \in Ips : Slots(i)' = Slots(i)
    BY <1>3 DEF Register, Goto, Slots, HoldsSlot, sockets, punches
  <2>2. QED
    BY <2>1
<1>4. ASSUME NEW c \in Conns, RegisterFails(c)
      PROVE  SlotInv'
  <2>1. ipCount' = ipCount /\ \A i \in Ips : Slots(i)' = Slots(i)
    BY <1>4 DEF RegisterFails, Goto, Slots, HoldsSlot, sockets, punches
  <2>2. QED
    BY <2>1
<1>5. ASSUME NEW c \in Conns, Unregister(c)
      PROVE  SlotInv'
  <2>1. ipCount' = ipCount /\ \A i \in Ips : Slots(i)' = Slots(i)
    BY <1>5 DEF Unregister, Goto, Slots, HoldsSlot, sockets, punches
  <2>2. QED
    BY <2>1
<1>6. ASSUME NEW c \in Conns, ReleaseSlot(c)
      PROVE  SlotInv'
  <2>1. PICK j \in Ips : j = ip[c]
    BY <1>6 DEF ReleaseSlot
  <2>2. /\ HoldsSlot(c)
        /\ conn' = [conn EXCEPT ![c] = "closed"] /\ ip' = [ip EXCEPT ![c] = NoOne]
        /\ ipCount' = [ipCount EXCEPT ![j] = IF @ = 0 THEN 0 ELSE @ - 1]
    BY <1>6, <2>1 DEF ReleaseSlot, Goto, HoldsSlot
  <2>3. /\ \A i \in Ips \ {j} : Slots(i)' = Slots(i)
        /\ Slots(j)' = Slots(j) \ {c} /\ c \in Slots(j)
    BY <2>1, <2>2 DEF Slots, HoldsSlot
  <2>4. Cardinality(Slots(j)') = Cardinality(Slots(j)) - 1
    BY <2>3, SlotsFinite, FS_RemoveElement
  <2>5. Cardinality(Slots(j)) # 0
    BY <2>3, SlotsFinite, FS_EmptySet
  <2>6. ipCount[j] \in Nat /\ ipCount[j] = Cardinality(Slots(j))
    OBVIOUS
  <2>7. ipCount'[j] = ipCount[j] - 1 /\ \A i \in Ips \ {j} : ipCount'[i] = ipCount[i]
    BY <2>2, <2>5, <2>6
  <2>8. \A i \in Ips : ipCount'[i] = Cardinality(Slots(i)')
    BY <2>3, <2>4, <2>6, <2>7
  <2>9. \A i \in Ips : ipCount'[i] <= MaxPerIp
    BY <2>6, <2>7
  <2>10. QED
    BY <2>8, <2>9
<1>7. ASSUME NEW c \in Conns, NEW k \in Keys, PunchRequest(c, k)
      PROVE  SlotInv'
  <2>1. ipCount' = ipCount /\ \A i \in Ips : Slots(i)' = Slots(i)
    BY <1>7 DEF PunchRequest, Goto, Slots, HoldsSlot, sockets, punches
  <2>2. QED
    BY <2>1
<1>8. ASSUME NEW c \in Conns, PunchTell(c)
      PROVE  SlotInv'
  <2>1. ipCount' = ipCount /\ \A i \in Ips : Slots(i)' = Slots(i)
    BY <1>8 DEF PunchTell, Goto, Slots, HoldsSlot, sockets, punches
  <2>2. QED
    BY <2>1
<1>9. ASSUME NEW p \in Pairs, HalfExpires(p)
      PROVE  SlotInv'
  <2>1. ipCount' = ipCount /\ \A i \in Ips : Slots(i)' = Slots(i)
    BY <1>9 DEF HalfExpires, Slots, HoldsSlot, sockets, punches
  <2>2. QED
    BY <2>1
<1>10. ASSUME Restart
      PROVE  SlotInv'
  <2>1. ipCount' = [i \in Ips |-> 0] /\ \A i \in Ips : Slots(i)' = {}
    BY <1>10 DEF Restart, Slots, HoldsSlot
  <2>2. \A i \in Ips : Cardinality(Slots(i)') = 0
    BY <2>1, FS_EmptySet
  <2>3. QED
    BY <2>1, <2>2
<1>11. CASE UNCHANGED vars
  <2>1. ipCount' = ipCount /\ \A i \in Ips : Slots(i)' = Slots(i)
    BY <1>11 DEF vars, Slots, HoldsSlot, sockets, punches
  <2>2. QED
    BY <2>1
<1>12. QED
  BY <1>1, <1>2, <1>3, <1>4, <1>5, <1>6, <1>7, <1>8, <1>9, <1>10, <1>11 DEF Next

\* The count of an address is exact, and within its share, in every reachable state.
LEMMA SlotInvHolds == Spec => []SlotInv
<1>1. Init => SlotInv
  <2> SUFFICES ASSUME Init
               PROVE  SlotInv
    OBVIOUS
  <2>1. \A i \in Ips : Slots(i) = {} /\ ipCount[i] = 0
    BY DEF Init, Slots, HoldsSlot
  <2>2. QED
    BY <2>1, FS_EmptySet, CapsAreNat DEF SlotInv, SlotsMatchSockets
<1>2. QED
  BY TypeInvInit, TypeInvStep, SlotStep, <1>1, PTL DEF Spec

\* The per-address count is exact: no way through handle_socket leaks a slot or gives one
\* back twice.
THEOREM SlotsAreExact == Spec => []SlotsMatchSockets
<1>1. SlotInv => SlotsMatchSockets
  BY DEF SlotInv
<1>2. QED
  BY SlotInvHolds, <1>1, PTL

\* Hence no address gets more than its share of sockets.
THEOREM NoAddressExceedsItsShare == Spec => []ShareHonoured
<1>1. SlotInv => ShareHonoured
  BY DEF SlotInv, SlotsMatchSockets, ShareHonoured
<1>2. QED
  BY SlotInvHolds, <1>1, PTL

=============================================================================
