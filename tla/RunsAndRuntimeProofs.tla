---------------------- MODULE RunsAndRuntimeProofs ----------------------
(****************************************************************************)
(* Theorems about Runs, which brings a request to a machine, and about       *)
(* ModelRuntime, which runs the server that answers there: for every set of  *)
(* machines, requests and lists of peers, of files and of loads, and every   *)
(* health budget.  The two share no state.                                   *)
(****************************************************************************)
EXTENDS Runs, ModelRuntime, FiniteSetTheorems, TLAPS

-----------------------------------------------------------------------------
(* Runs: what holds of requests, gauges and turns                            *)

\* A call is for the target that its request was given.
CallsAreAimed == \A c \in calls : c.to = request[c.of].target

\* Of a request that is not begun there is no call, and nobody was asked.
NothingBeforeStart ==
  \A r \in Requests : At(r, "off") => /\ \A c \in calls : c.of # r
                                      /\ \A a \in asked : a[1] # r

\* The chats of a daemon whose handler has not returned.
InHandler(m) ==
  {r \in Requests : KindOf[r] = "chat" /\ HomeOf[r] = m
                      /\ request[r].pc \notin {"off", "stream", "done"}}

\* The gauge never loses a chat that is in progress, though it may keep one that is over.
GaugeCovers == \A m \in Machines : active[m] >= Cardinality(InHandler(m))

\* The turns, counted from 0, that have come round once more than the others: those from the
\* one that was first to the one before the next.
Ahead(first, next, i) == IF first <= next THEN first <= i /\ i < next ELSE i < next \/ first <= i

Round(m) == Len(Targets(m))

\* What the turns of a list of k targets have come to when the next is this one.
GoneRound(k, next, count) ==
  \E first \in 0 .. k - 1, v \in Nat :
    \A i \in 1 .. k : count[i] = IF Ahead(first, next, i - 1) THEN v + 1 ELSE v

TurnsGoRound == \A m \in Machines : GoneRound(Round(m), counter[m] % Round(m), turns[m])

Aiming == CallsAreAimed /\ NothingBeforeStart /\ AskedWhereSent /\ RefusedOnlyByItself

RunsInv == RunsTypeOK /\ Aiming /\ GaugeCovers /\ TurnsGoRound

-----------------------------------------------------------------------------
(* What the steps do to the request they are about                           *)

\* A step of the handler of r, which leaves it as q.
HandlerEffect(r, q) ==
  /\ UNCHANGED <<world, routing>>
  /\ breaks' \in 0 .. MaxBreaks
  /\ q \in Request /\ request' = [request EXCEPT ![r] = q]
  /\ request[r].pc # "off" /\ q.pc # "off" /\ q.target = request[r].target
  /\ q.reply = "failed" => request[r].reply = "failed" \/ <<r, HomeOf[r]>> \in asked'
  /\ asked' = asked \/ asked' = asked \union {<<r, HomeOf[r]>>}
  /\ calls' \subseteq Call
  /\ \A c \in calls' : \/ c.of = r /\ c.to = request[r].target
                       \/ \E d \in calls : c.of = d.of /\ c.to = d.to
  /\ IF request[r].pc \notin {"stream", "done"} /\ q.pc \in {"stream", "done"}
     THEN active' = active \/ Return(r)
     ELSE active' = active /\ (request[r].pc \in {"stream", "done"} => q.pc \in {"stream", "done"})

\* The steps of peers, and of the relay.
PeerEffect(c) ==
  /\ UNCHANGED <<world, routing, request, active>>
  /\ breaks' \in 0 .. MaxBreaks
  /\ c \in calls
  /\ asked' = asked \/ asked' = asked \union {<<c.of, c.to>>}
  /\ calls' \subseteq Call
  /\ \A e \in calls' : \E d \in calls : e.of = d.of /\ e.to = d.to

\* What is known of the request that a step is about.
About(r) == request[r] \in Request /\ breaks \in 0 .. MaxBreaks /\ MaxBreaks \in Nat /\ calls \subseteq Call

\* The parts of a request, and of what it is about.
LEMMA Known == ASSUME RunsTypeOK, NEW r \in Requests PROVE About(r)
<1>1. request[r] \in Request
  BY Zenon DEF RunsTypeOK
<1>2. QED
  BY <1>1, Bounds DEF RunsTypeOK, About

\* A request that only goes on.
LEMMA PhaseChanges ==
  ASSUME NEW q \in Request, NEW pc \in Phases
  PROVE  /\ [q EXCEPT !.pc = pc] \in Request
         /\ [q EXCEPT !.pc = pc].pc = pc
         /\ [q EXCEPT !.pc = pc].target = q.target
         /\ [q EXCEPT !.pc = pc].reply = q.reply
  BY DEF Request

\* A request that is answered.
LEMMA Ends ==
  ASSUME NEW q \in Request, NEW reply \in Replies
  PROVE  /\ [q EXCEPT !.pc = "done", !.reply = reply] \in Request
         /\ [q EXCEPT !.pc = "done", !.reply = reply].pc = "done"
         /\ [q EXCEPT !.pc = "done", !.reply = reply].target = q.target
         /\ [q EXCEPT !.pc = "done", !.reply = reply].reply = reply
<1>1. "done" \in Phases
  BY DEF Phases
<1>2. QED
  BY <1>1 DEF Request

\* A call that is sent is the request's own, to its target; the others stay.
LEMMA SendTyped ==
  ASSUME NEW r \in Requests, About(r), NEW via \in Paths, Send(r, via)
  PROVE  /\ calls' \subseteq Call
         /\ \A c \in calls' : \/ c.of = r /\ c.to = request[r].target
                              \/ \E d \in calls : c.of = d.of /\ c.to = d.to
<1> DEFINE new == [of |-> r, to |-> request[r].target, via |-> via, at |-> "sent", live |-> TRUE]
<1>1. request[r].target \in Machines
  BY DEF About, Request
<1>2. "sent" \in Stages
  BY DEF Stages
<1>3. new \in Call /\ new.of = r /\ new.to = request[r].target
  BY <1>1, <1>2 DEF Call
<1>4. calls' = calls \union {new} /\ calls \subseteq Call
  BY DEF Send, About
<1> HIDE DEF new
<1>5. QED
  BY <1>3, <1>4

\* Taking calls away, and marking one as abandoned.
LEMMA CallsLeft ==
  ASSUME NEW r \in Requests, calls \subseteq Call, NEW c \in calls, NEW gone \in BOOLEAN,
         calls' = (calls \ {c}) \union (IF gone THEN {} ELSE {[c EXCEPT !.live = FALSE]})
  PROVE  /\ calls' \subseteq Call
         /\ \A e \in calls' : \E d \in calls : e.of = d.of /\ e.to = d.to
<1> DEFINE new == [c EXCEPT !.live = FALSE]
<1>1. new \in Call /\ new.of = c.of /\ new.to = c.to
  BY DEF Call
<1>2. calls' \subseteq (calls \ {c}) \union {new}
  OBVIOUS
<1> HIDE DEF new
<1>3. QED
  BY <1>1, <1>2

\* A step into a later phase, without an answer.
LEMMA PhaseStep ==
  ASSUME NEW r \in Requests, About(r), NEW pc \in Phases \ {"off"}, Goto(r, pc),
         UNCHANGED <<world, routing, asked>>, breaks' \in 0 .. MaxBreaks,
         request[r].pc \notin {"off", "stream", "done"},
         calls' \subseteq Call,
         \A c \in calls' : \/ c.of = r /\ c.to = request[r].target
                           \/ \E d \in calls : c.of = d.of /\ c.to = d.to,
         active' = active \/ (pc = "stream" /\ Return(r))
  PROVE  \E q \in Request : HandlerEffect(r, q)
<1> DEFINE q == [request[r] EXCEPT !.pc = pc]
<1>1. q \in Request /\ q.pc = pc /\ q.target = request[r].target /\ q.reply = request[r].reply
  BY PhaseChanges DEF About
<1>2. request' = [request EXCEPT ![r] = q]
  BY DEF Goto, Update
<1> HIDE DEF q
<1>3. HandlerEffect(r, q)
  BY <1>1, <1>2 DEF HandlerEffect
<1>4. QED
  BY <1>1, <1>3

\* The last step.
LEMMA EndStep ==
  ASSUME NEW r \in Requests, About(r), NEW reply \in Replies, Finish(r, reply),
         UNCHANGED <<world, routing>>, breaks' \in 0 .. MaxBreaks,
         request[r].pc \notin {"off", "done"},
         asked' = asked \/ asked' = asked \union {<<r, HomeOf[r]>>},
         reply = "failed" => <<r, HomeOf[r]>> \in asked',
         calls' \subseteq Call,
         \A c \in calls' : \E d \in calls : c.of = d.of /\ c.to = d.to,
         active' = active \/ (request[r].pc # "stream" /\ Return(r))
  PROVE  \E q \in Request : HandlerEffect(r, q)
<1> DEFINE q == [request[r] EXCEPT !.pc = "done", !.reply = reply]
<1>1. q \in Request /\ q.pc = "done" /\ q.target = request[r].target /\ q.reply = reply
  BY Ends DEF About
<1>2. request' = [request EXCEPT ![r] = q]
  BY DEF Finish, Update
<1> HIDE DEF q
<1>3. HandlerEffect(r, q)
  BY <1>1, <1>2 DEF HandlerEffect
<1>4. QED
  BY <1>1, <1>3

\* Every step of a handler, one after the other.
LEMMA HandlerSteps ==
  ASSUME RunsTypeOK, NEW r \in Requests, HandlerStep(r) \/ PeerBreaks(r) \/ StreamBreaks(r)
  PROVE  \E q \in Request : HandlerEffect(r, q)
<1>0. About(r) /\ calls \subseteq Call /\ breaks \in 0 .. MaxBreaks /\ MaxBreaks \in Nat
  BY Known DEF About
<1> USE <1>0 DEF At
<1>1. CASE DlpAllows(r)
  <2>1. Goto(r, "go") /\ request[r].pc = "dlp"
        /\ UNCHANGED <<world, routing, calls, active, breaks, asked>>
    BY <1>1 DEF DlpAllows
  <2>2. QED
    BY <2>1, PhaseStep DEF Phases
<1>2. CASE DlpBlocks(r)
  <2>1. Finish(r, "blocked") /\ request[r].pc = "dlp"
        /\ UNCHANGED <<world, routing, calls, active, breaks, asked>>
    BY <1>2 DEF DlpBlocks
  <2>2. QED
    BY <2>1, EndStep DEF Replies
<1>3. CASE Dispatch(r)
  <2>1. PICK pc \in {"local", "quic", "http"} :
          /\ Goto(r, pc) /\ request[r].pc = "go"
          /\ UNCHANGED <<world, routing, calls, active, breaks, asked>>
    BY <1>3 DEF Dispatch
  <2>2. QED
    BY <2>1, PhaseStep DEF Phases
<1>4. CASE QuicConnects(r)
  <2>1. Goto(r, "stream") /\ request[r].pc = "quic" /\ Send(r, "quic")
        /\ UNCHANGED <<world, routing, active, breaks, asked>>
    BY <1>4 DEF QuicConnects
  <2>2. QED
    BY <2>1, SendTyped, PhaseStep DEF Phases, Paths
<1>5. CASE QuicFails(r)
  <2>1. Goto(r, "http") /\ request[r].pc = "quic"
        /\ UNCHANGED <<world, routing, calls, active, breaks, asked>>
    BY <1>5 DEF QuicFails
  <2>2. QED
    BY <2>1, PhaseStep DEF Phases
<1>6. CASE PostToPeer(r)
  <2>1. Goto(r, "wait") /\ request[r].pc = "http" /\ Send(r, "http")
        /\ UNCHANGED <<world, routing, active, breaks, asked>>
    BY <1>6 DEF PostToPeer
  <2>2. QED
    BY <2>1, SendTyped, PhaseStep DEF Phases, Paths
<1>7. CASE PeerAccepts(r)
  <2>1. Goto(r, "stream") /\ request[r].pc = "wait" /\ Return(r)
        /\ UNCHANGED <<world, routing, calls, breaks, asked>>
    BY <1>7 DEF PeerAccepts
  <2>2. QED
    BY <2>1, PhaseStep DEF Phases
<1>8. CASE PeerRefuses(r)
  <2>1. /\ request[r].pc = "wait" /\ calls' \subseteq calls
        /\ UNCHANGED <<world, routing, active, breaks, asked>>
    BY <1>8 DEF PeerRefuses
  <2>2. PICK pc \in {"relay", "local"} : Goto(r, pc)
    BY <1>8 DEF PeerRefuses, Fallback
  <2>3. QED
    BY <2>1, <2>2, PhaseStep DEF Phases
<1>9. CASE RelayTakes(r)
  <2>1. request[r].pc = "relay" /\ UNCHANGED <<world, routing, active, breaks, asked>>
    BY <1>9 DEF RelayTakes
  <2>2. CASE Send(r, "relay") /\ Goto(r, "stream")
    BY <2>1, <2>2, SendTyped, PhaseStep DEF Phases, Paths
  <2>3. CASE Goto(r, "local") /\ UNCHANGED calls
    BY <2>1, <2>3, PhaseStep DEF Phases
  <2>4. QED
    BY <1>9, <2>2, <2>3 DEF RelayTakes
<1>10. CASE ServeLocally(r)
  <2>1. PICK outcome \in Outcomes(HomeOf[r], KindOf[r]) : Finish(r, outcome)
    BY <1>10 DEF ServeLocally
  <2>2. outcome \in {"tokens", "failed", "offline"}
    BY DEF Outcomes
  <2>3. outcome = "failed" => HasUpstream(HomeOf[r], KindOf[r])
    BY DEF Outcomes
  <2>4. asked' = IF HasUpstream(HomeOf[r], KindOf[r]) THEN asked \union {<<r, HomeOf[r]>>} ELSE asked
    BY <1>10 DEF ServeLocally, Ask
  <2>5. request[r].pc = "local" /\ Return(r) /\ UNCHANGED <<world, routing, calls, breaks>>
    BY <1>10 DEF ServeLocally
  <2>6. QED
    BY <2>1, <2>2, <2>3, <2>4, <2>5, EndStep DEF Replies
<1>11. CASE StreamEnds(r)
  <2>1. /\ request[r].pc = "stream" /\ calls' \subseteq calls
        /\ UNCHANGED <<world, routing, active, breaks, asked>>
    BY <1>11 DEF StreamEnds
  <2>2. PICK reply \in {"tokens", "notice", "cut"} : Finish(r, reply)
    BY <1>11 DEF StreamEnds
  <2>3. QED
    BY <2>1, <2>2, EndStep DEF Replies
<1>12. CASE PeerBreaks(r)
  <2>1. /\ request[r].pc = "wait" /\ breaks' \in 0 .. MaxBreaks
        /\ UNCHANGED <<world, routing, active, asked>>
    BY <1>12 DEF PeerBreaks
  <2>2. PICK pc \in {"relay", "local"} : Goto(r, pc)
    BY <1>12 DEF PeerBreaks, Fallback
  <2>3. PICK c \in calls, gone \in BOOLEAN :
          calls' = (calls \ {c}) \union (IF gone THEN {} ELSE {[c EXCEPT !.live = FALSE]})
    BY <1>12 DEF PeerBreaks, CallOf
  <2>4. QED
    BY <2>1, <2>2, <2>3, CallsLeft, PhaseStep DEF Phases
<1>13. CASE StreamBreaks(r)
  <2>1. /\ request[r].pc = "stream" /\ breaks' \in 0 .. MaxBreaks /\ Finish(r, "cut")
        /\ UNCHANGED <<world, routing, active, asked>>
    BY <1>13 DEF StreamBreaks
  <2>2. PICK c \in calls, gone \in BOOLEAN :
          calls' = (calls \ {c}) \union (IF gone THEN {} ELSE {[c EXCEPT !.live = FALSE]})
    BY <1>13 DEF StreamBreaks
  <2>3. QED
    BY <2>1, <2>2, CallsLeft, EndStep DEF Replies
<1>14. CASE RelayEnds(r)
  <2>1. /\ request[r].pc = "stream" /\ breaks' = breaks /\ Finish(r, "cut")
        /\ UNCHANGED <<world, routing, active, asked>>
    BY <1>14 DEF RelayEnds
  <2>2. PICK c \in calls, gone \in BOOLEAN :
          calls' = (calls \ {c}) \union (IF gone THEN {} ELSE {[c EXCEPT !.live = FALSE]})
    BY <1>14 DEF RelayEnds, CallOf
  <2>3. QED
    BY <2>1, <2>2, CallsLeft, EndStep DEF Replies
<1>15. QED
  BY <1>1, <1>2, <1>3, <1>4, <1>5, <1>6, <1>7, <1>8, <1>9, <1>10, <1>11, <1>12, <1>13, <1>14
     DEF HandlerStep

\* Every step of a call on a peer, and what the relay loses of one.
LEMMA PeerSteps ==
  ASSUME RunsTypeOK, NEW c \in calls, PeerStep(c) \/ AnswerFails(c) \/ RelayLoses(c)
  PROVE  PeerEffect(c)
<1>0. breaks \in 0 .. MaxBreaks /\ calls \subseteq Call /\ MaxBreaks \in Nat
  BY Bounds DEF RunsTypeOK
<1>1. ASSUME NEW at \in Stages, calls' = Advance(c, at)
      PROVE  /\ calls' \subseteq Call
             /\ \A e \in calls' : \E d \in calls : e.of = d.of /\ e.to = d.to
  <2> DEFINE new == [c EXCEPT !.at = at]
  <2>1. new \in Call /\ new.of = c.of /\ new.to = c.to
    BY <1>0 DEF Call
  <2>2. calls' \subseteq calls \union {new}
    BY <1>1 DEF Advance
  <2> HIDE DEF new
  <2>3. QED
    BY <1>0, <2>1, <2>2
<1>2. CASE Refuse(c)
  BY <1>0, <1>1, <1>2 DEF Refuse, PeerEffect, Stages
<1>3. CASE Serve(c)
  <2>1. PICK at \in {"refused", "tokens", "notice", "error"} : calls' = Advance(c, at)
    BY <1>3 DEF Serve
  <2>2. UNCHANGED <<world, routing, request, active, breaks>> /\ Ask(c.of, c.to)
    BY <1>3 DEF Serve
  <2>3. QED
    BY <1>0, <1>1, <2>1, <2>2 DEF Ask, PeerEffect, Stages
<1>4. CASE AnswerFails(c)
  BY <1>0, <1>1, <1>4 DEF AnswerFails, PeerEffect, Stages
<1>5. CASE RelayLoses(c)
  BY <1>0, <1>1, <1>5 DEF RelayLoses, PeerEffect, Stages
<1>6. QED
  BY <1>2, <1>3, <1>4, <1>5 DEF PeerStep

-----------------------------------------------------------------------------
(* The gauge                                                                 *)

\* The requests that are handled on a machine are finitely many,
LEMMA InHandlerFinite ==
  ASSUME NEW m \in Machines
  PROVE  IsFiniteSet(InHandler(m)) /\ Cardinality(InHandler(m)) \in Nat
<1>1. InHandler(m) \subseteq Requests
  BY DEF InHandler
<1>2. QED
  BY <1>1, RequestsAreFinite, FS_Subset, FS_CardinalityType

\* A handler that returns counts down a gauge that counts it.
LEMMA GaugeCountsIt ==
  ASSUME RunsTypeOK, GaugeCovers, NEW r \in Requests, KindOf[r] = "chat",
         request[r].pc \notin {"off", "stream", "done"}
  PROVE  active[HomeOf[r]] \in Nat \ {0}
<1> DEFINE m == HomeOf[r]
<1>1. m \in Machines /\ r \in InHandler(m)
  BY HomesAreMachines DEF InHandler
<1>2. Cardinality(InHandler(m)) # 0
  BY <1>1, InHandlerFinite, FS_EmptySet
<1>3. active[m] \in Nat /\ active[m] >= Cardinality(InHandler(m))
  BY <1>1, Zenon DEF RunsTypeOK, GaugeCovers
<1>4. QED
  BY <1>1, <1>2, <1>3, InHandlerFinite

\* after a step as well.
LEMMA InHandlerFinitePrime ==
  ASSUME NEW m \in Machines
  PROVE  IsFiniteSet(InHandler(m)') /\ Cardinality(InHandler(m)') \in Nat
<1>1. InHandler(m)' \subseteq Requests
  BY DEF InHandler
<1>2. QED
  BY <1>1, RequestsAreFinite, FS_Subset, FS_CardinalityType

\* The handler of r goes on: it leaves the set when it returns, and never comes back.
LEMMA HandlerGauge ==
  ASSUME RunsTypeOK, GaugeCovers, NEW r \in Requests, NEW q \in Request, HandlerEffect(r, q)
  PROVE  active' \in [Machines -> Nat] /\ GaugeCovers'
<1> DEFINE h == HomeOf[r]
<1>1. active \in [Machines -> Nat] /\ h \in Machines /\ request \in [Requests -> Request]
  BY HomesAreMachines DEF RunsTypeOK
<1>2. request' = [request EXCEPT ![r] = q] /\ request'[r] = q
  BY <1>1 DEF HandlerEffect
<1>3. \A m \in Machines : InHandler(m)' \subseteq InHandler(m)
  BY <1>1, <1>2 DEF HandlerEffect, InHandler
<1>4. \A m \in Machines : Cardinality(InHandler(m)') <= Cardinality(InHandler(m))
  BY <1>3, InHandlerFinite, FS_Subset
<1>5. CASE active' = active
  BY <1>1, <1>4, <1>5, InHandlerFinite, InHandlerFinitePrime DEF GaugeCovers
<1>6. CASE active' # active
  <2>1. /\ KindOf[r] = "chat" /\ active' = [active EXCEPT ![h] = @ - 1]
        /\ request[r].pc \notin {"off", "stream", "done"} /\ q.pc \in {"stream", "done"}
    BY <1>6 DEF HandlerEffect, Return
  <2>2. active[h] \in Nat \ {0}
    BY <2>1, GaugeCountsIt
  <2>3. r \in InHandler(h) /\ r \notin InHandler(h)'
    BY <1>1, <1>2, <2>1 DEF InHandler
  <2>4. InHandler(h)' \subseteq InHandler(h) \ {r}
    BY <1>1, <1>3, <2>3
  <2>5. IsFiniteSet(InHandler(h) \ {r})
        /\ Cardinality(InHandler(h) \ {r}) = Cardinality(InHandler(h)) - 1
    BY <1>1, <2>3, InHandlerFinite, FS_RemoveElement
  <2>6. Cardinality(InHandler(h)') <= Cardinality(InHandler(h)) - 1
    BY <2>4, <2>5, FS_Subset
  <2>7. active[h] >= Cardinality(InHandler(h))
    BY <1>1 DEF GaugeCovers
  <2>8. active'[h] = active[h] - 1 /\ \A m \in Machines \ {h} : active'[m] = active[m]
    BY <1>1, <2>1
  <2>9. active' \in [Machines -> Nat]
    BY <1>1, <2>1, <2>2
  <2>10. active'[h] >= Cardinality(InHandler(h)')
    BY <1>1, <2>2, <2>6, <2>7, <2>8, InHandlerFinite, InHandlerFinitePrime
  <2>11. \A m \in Machines \ {h} : active'[m] >= Cardinality(InHandler(m)')
    BY <1>1, <1>4, <2>8, InHandlerFinite, InHandlerFinitePrime DEF GaugeCovers
  <2>12. QED
    BY <2>9, <2>10, <2>11 DEF GaugeCovers
<1>7. QED
  BY <1>5, <1>6

-----------------------------------------------------------------------------
(* The turns                                                                 *)

\* The next turn after the n-th: the one after, or the first again.
LEMMA NextRemainder ==
  ASSUME NEW n \in Nat, NEW k \in Nat \ {0}
  PROVE  (n + 1) % k = IF (n % k) + 1 = k THEN 0 ELSE (n % k) + 1
<1> DEFINE q == n \div k    r == n % k
           p == (n + 1) \div k    s == (n + 1) % k
<1>1. q \in Nat /\ p \in Nat /\ r \in 0 .. k - 1 /\ s \in 0 .. k - 1
  OBVIOUS
<1>2. n = k * q + r /\ n + 1 = k * p + s
  OBVIOUS
<1> HIDE DEF q, r, p, s
<1>3. k * p - k * q = r + 1 - s
  BY <1>1, <1>2
<1>4. k * (p - q) = r + 1 - s
  BY <1>1, <1>3
<1>5. ASSUME NEW d \in Nat \ {0}
      PROVE  k * d >= k
  OBVIOUS
<1>6. p - q = 0 \/ p - q = 1
  <2>1. p - q <= 1
    <3>1. SUFFICES ASSUME p - q >= 2
                   PROVE  FALSE
      BY <1>1
    <3>2. k * (p - q) = k + k * (p - q - 1)
      BY <1>1
    <3>3. p - q - 1 \in Nat \ {0}
      BY <1>1, <3>1
    <3>4. k * (p - q - 1) >= k
      BY <1>5, <3>3
    <3>5. QED
      BY <1>1, <1>4, <3>2, <3>4
  <2>2. p - q >= 0
    <3>1. SUFFICES ASSUME q - p >= 1
                   PROVE  FALSE
      BY <1>1
    <3>2. k * (p - q) = 0 - k * (q - p)
      BY <1>1
    <3>3. k * (q - p) >= k
      BY <1>1, <1>5, <3>1
    <3>4. QED
      BY <1>1, <1>4, <3>2, <3>3
  <2>3. QED
    BY <1>1, <2>1, <2>2
<1>7. CASE p - q = 0
  BY <1>1, <1>4, <1>7 DEF r, s
<1>8. CASE p - q = 1
  BY <1>1, <1>4, <1>8 DEF r, s
<1>9. QED
  BY <1>6, <1>7, <1>8

\* The machines that take turns: the daemon itself and its peers.
LEMMA TargetsTyped ==
  ASSUME peers \in [Machines -> Seq(Machines)], NEW m \in Machines
  PROVE  /\ Targets(m) \in Seq(Machines)
         /\ Round(m) = Len(peers[m]) + 1 /\ Round(m) \in Nat \ {0}
         /\ DOMAIN Targets(m) = 1 .. Round(m)
  BY DEF Targets, Round

\* Whose turn it is.
LEMMA TurnTyped ==
  ASSUME RunsTypeOK, NEW m \in Machines
  PROVE  /\ counter[m] % Round(m) \in 0 .. Round(m) - 1
         /\ Turn(m) \in 1 .. Round(m) /\ Turn(m) = (counter[m] % Round(m)) + 1
         /\ NextTarget(m) \in Machines
<1>1. counter[m] \in Nat /\ peers \in [Machines -> Seq(Machines)]
  BY DEF RunsTypeOK
<1>2. Turn(m) = (counter[m] % Round(m)) + 1
  BY DEF Turn, Round
<1>0. Round(m) \in Nat \ {0}
  BY <1>1, TargetsTyped
<1>a. ASSUME NEW n \in Nat, NEW k \in Nat \ {0} PROVE n % k \in 0 .. k - 1
  OBVIOUS
<1>3. counter[m] % Round(m) \in 0 .. Round(m) - 1
  BY <1>0, <1>1, <1>a
<1>4. Turn(m) \in 1 .. Round(m)
  BY <1>0, <1>2, <1>3
<1>5. QED
  BY <1>1, <1>2, <1>3, <1>4, TargetsTyped DEF NextTarget

\* A turn is taken.
LEMMA TurnTaken ==
  ASSUME NEW k \in Nat \ {0}, NEW cur \in 0 .. k - 1, NEW count \in [1 .. k -> Nat],
         GoneRound(k, cur, count)
  PROVE  /\ GoneRound(k, IF cur + 1 = k THEN 0 ELSE cur + 1, [count EXCEPT ![cur + 1] = @ + 1])
         /\ [count EXCEPT ![cur + 1] = @ + 1] \in [1 .. k -> Nat]
<1> PICK first \in 0 .. k - 1, v \in Nat :
      \A i \in 1 .. k : count[i] = IF Ahead(first, cur, i - 1) THEN v + 1 ELSE v
  BY DEF GoneRound
<1> DEFINE new == IF cur + 1 = k THEN 0 ELSE cur + 1
           full == new = first
           w == IF full THEN v + 1 ELSE v
<1>1. ASSUME NEW i \in 1 .. k
      PROVE  [count EXCEPT ![cur + 1] = @ + 1][i] = IF Ahead(first, new, i - 1) THEN w + 1 ELSE w
  BY <1>1 DEF Ahead
<1>2. w \in Nat
  OBVIOUS
<1>3. [count EXCEPT ![cur + 1] = @ + 1] \in [1 .. k -> Nat]
  OBVIOUS
<1> HIDE DEF w
<1>4. GoneRound(k, new, [count EXCEPT ![cur + 1] = @ + 1])
  BY <1>1, <1>2, Zenon DEF GoneRound
<1>5. QED
  BY <1>3, <1>4

\* When no turn is taken, all stand alike, whichever is next.
LEMMA TurnsAnew ==
  ASSUME NEW k \in Nat \ {0}, NEW next \in 0 .. k - 1
  PROVE  GoneRound(k, next, [i \in 1 .. k |-> 0])
<1>1. \A i \in 1 .. k : ~Ahead(next, next, i - 1)
  BY DEF Ahead
<1>2. \A i \in 1 .. k :
        [j \in 1 .. k |-> 0][i] = IF Ahead(next, next, i - 1) THEN 0 + 1 ELSE 0
  BY <1>1
<1>3. 0 \in Nat
  OBVIOUS
<1>4. QED
  BY <1>2, <1>3, Zenon DEF GoneRound

-----------------------------------------------------------------------------
(* The invariant                                                             *)

\* The invariant holds at first.
LEMMA RunsInitInv == RunsInit => RunsInv
<1> SUFFICES ASSUME RunsInit
             PROVE  RunsInv
  OBVIOUS
<1>1. peers \in [Machines -> Seq(Machines)]
  <2>1. \A m \in Machines : peers[m] \in Seq(Machines \ {m})
    BY ListsArePeers DEF RunsInit
  <2>2. DOMAIN peers = Machines /\ peers = [m \in Machines |-> peers[m]]
    BY DEF RunsInit
  <2>3. \A m \in Machines : peers[m] \in Seq(Machines)
    <3>1. ASSUME NEW m \in Machines, NEW list \in Seq(Machines \ {m})
          PROVE  list \in Seq(Machines)
      <4>1. Len(list) \in Nat /\ list \in [1 .. Len(list) -> Machines]
        OBVIOUS
      <4>2. QED
        BY <4>1
    <3>2. QED
      BY <2>1, <3>1
  <2>4. QED
    BY <2>2, <2>3
<1>2. \A m \in Machines : turns[m] = [i \in 1 .. Round(m) |-> 0]
  BY <1>1, TargetsTyped DEF RunsInit
<1>3. request \in [Requests -> Request] /\ \A r \in Requests : request[r] = Fresh(r)
  BY HomesAreMachines DEF RunsInit, Fresh, Request, Phases, Replies
<1>4. RunsTypeOK
  <2>1. \A m \in Machines : turns[m] \in [1 .. Len(Targets(m)) -> Nat]
    <3>1. ASSUME NEW m \in Machines
          PROVE  [i \in 1 .. Round(m) |-> 0] \in [1 .. Round(m) -> Nat]
      OBVIOUS
    <3>2. QED
      BY <1>2, <3>1, Zenon DEF Round
  <2>2. DOMAIN turns = Machines
    BY DEF RunsInit
  <2>3. trusts \in [Machines -> SUBSET Machines]
    BY TrustsAreOfPeers DEF RunsInit
  <2>4. backend \in [Machines -> [DOMAIN Runtimes -> {"down", "empty", "model"}]]
    BY DEF RunsInit
  <2>5. QED
    BY <1>1, <1>3, <2>1, <2>2, <2>3, <2>4, Bounds DEF RunsInit, RunsTypeOK
<1>5. Aiming
  BY <1>3 DEF RunsInit, Aiming, CallsAreAimed, NothingBeforeStart, AskedWhereSent,
              RefusedOnlyByItself, Fresh
<1>6. GaugeCovers
  <2>1. \A m \in Machines : InHandler(m) = {}
    BY <1>3 DEF InHandler, Fresh
  <2>2. \A m \in Machines : active[m] = 0 /\ Cardinality(InHandler(m)) = 0
    BY <2>1, FS_EmptySet DEF RunsInit
  <2>3. QED
    BY <2>2 DEF GaugeCovers
<1>7. TurnsGoRound
  <2>1. \A m \in Machines : Round(m) \in Nat \ {0} /\ counter[m] % Round(m) \in 0 .. Round(m) - 1
    BY <1>1, <1>4, TargetsTyped, TurnTyped
  <2>2. QED
    BY <1>2, <2>1, TurnsAnew DEF TurnsGoRound
<1>8. QED
  BY <1>4, <1>5, <1>6, <1>7 DEF RunsInv

\* A step that leaves the lists, the turns and the counters alone.
LEMMA TurnsStay ==
  ASSUME TurnsGoRound, UNCHANGED routing
  PROVE  TurnsGoRound'
<1>1. peers' = peers /\ counter' = counter /\ turns' = turns
  BY DEF routing
<1>2. \A m \in Machines : Targets(m)' = Targets(m)
  BY <1>1 DEF Targets
<1>3. \A m \in Machines : Round(m)' = Round(m)
  BY <1>2, Zenon DEF Round
<1>4. QED
  BY <1>1, <1>3, Zenon DEF TurnsGoRound

\* A step of a request's handler keeps it.
LEMMA HandlerKeeps ==
  ASSUME RunsInv, NEW r \in Requests, NEW q \in Request, HandlerEffect(r, q)
  PROVE  RunsInv'
<1>1. RunsTypeOK /\ Aiming /\ GaugeCovers /\ TurnsGoRound
  BY DEF RunsInv
<1>2. request \in [Requests -> Request] /\ asked \subseteq Requests \X Machines
  BY <1>1 DEF RunsTypeOK
<1>3. /\ request' \in [Requests -> Request] /\ request'[r] = q
      /\ \A s \in Requests \ {r} : request'[s] = request[s]
  BY <1>2 DEF HandlerEffect
<1>4. RunsTypeOK'
  <2>1. active' \in [Machines -> Nat]
    BY <1>1, HandlerGauge
  <2>2. asked' \subseteq Requests \X Machines
    BY <1>2, HomesAreMachines DEF HandlerEffect
  <2>3. calls' \subseteq Call /\ breaks' \in 0 .. MaxBreaks
    BY DEF HandlerEffect
  <2>4. UNCHANGED <<trusts, backend, pool, linked, changes, peers, counter, turns>>
    BY DEF HandlerEffect, world, routing
  <2>5. QED
    BY <1>1, <1>3, <2>1, <2>2, <2>3, <2>4 DEF RunsTypeOK, Targets
<1>5. \A s \in Requests : request'[s].target = request[s].target
  BY <1>3 DEF HandlerEffect
<1>6. Aiming'
  <2>1. calls \subseteq Call /\ calls' \subseteq Call
    BY <1>1 DEF RunsTypeOK, HandlerEffect
  <2>2. \A c \in Call : c.of \in Requests
    BY DEF Call
  <2>3. CallsAreAimed'
    BY <1>1, <1>5, <2>1, <2>2 DEF Aiming, CallsAreAimed, HandlerEffect
  <2>4. AskedWhereSent'
    BY <1>1, <1>2, <1>5 DEF Aiming, AskedWhereSent, HandlerEffect
  <2>5. RefusedOnlyByItself'
    BY <1>1, <1>3 DEF Aiming, RefusedOnlyByItself, HandlerEffect
  <2>6. ASSUME NEW s \in Requests, request'[s].pc = "off"
        PROVE  (\A c \in calls' : c.of # s) /\ (\A a \in asked' : a[1] # s)
    <3>1. s # r /\ request[s].pc = "off"
      BY <1>3, <2>6 DEF HandlerEffect
    <3>2. (\A c \in calls : c.of # s) /\ (\A a \in asked : a[1] # s)
      BY <1>1, <3>1 DEF Aiming, NothingBeforeStart, At
    <3>3. QED
      BY <3>1, <3>2 DEF HandlerEffect
  <2>7. QED
    BY <2>3, <2>4, <2>5, <2>6 DEF Aiming, NothingBeforeStart, At
<1>7. GaugeCovers' /\ TurnsGoRound'
  BY <1>1, HandlerGauge, TurnsStay DEF HandlerEffect
<1>8. QED
  BY <1>4, <1>6, <1>7 DEF RunsInv

\* A step of a call on a peer keeps it, and so does the loss of one.
LEMMA PeerKeeps ==
  ASSUME RunsInv, NEW c \in calls, PeerEffect(c)
  PROVE  RunsInv'
<1>1. RunsTypeOK /\ Aiming /\ GaugeCovers /\ TurnsGoRound
  BY DEF RunsInv
<1>2. c.of \in Requests /\ c.to \in Machines /\ calls \subseteq Call
  BY <1>1 DEF RunsTypeOK, Call
<1>3. UNCHANGED <<trusts, backend, pool, linked, changes, peers, counter, turns, request, active>>
  BY DEF PeerEffect, world, routing
<1>4. RunsTypeOK'
  <2>1. asked' \subseteq Requests \X Machines
    BY <1>1, <1>2 DEF PeerEffect, RunsTypeOK
  <2>2. calls' \subseteq Call /\ breaks' \in 0 .. MaxBreaks
    BY DEF PeerEffect
  <2>3. QED
    BY <1>1, <1>3, <2>1, <2>2 DEF RunsTypeOK, Targets
<1>5. CallsAreAimed'
  BY <1>1, <1>3 DEF Aiming, CallsAreAimed, PeerEffect
<1>6. c.to = request[c.of].target
  BY <1>1 DEF Aiming, CallsAreAimed
<1>7. AskedWhereSent'
  <2>1. \A a \in asked' : a \in asked \/ a = <<c.of, c.to>>
    BY DEF PeerEffect
  <2>2. QED
    BY <1>1, <1>3, <1>6, <2>1 DEF Aiming, AskedWhereSent
<1>8. RefusedOnlyByItself'
  BY <1>1, <1>3 DEF Aiming, RefusedOnlyByItself, PeerEffect
<1>9. NothingBeforeStart'
  BY <1>1, <1>3 DEF Aiming, NothingBeforeStart, PeerEffect, At
<1>10. GaugeCovers' /\ TurnsGoRound'
  BY <1>1, <1>3, TurnsStay DEF GaugeCovers, InHandler, PeerEffect
<1>11. QED
  BY <1>4, <1>5, <1>7, <1>8, <1>9, <1>10 DEF RunsInv, Aiming

\* A request is begun: it has its turn, and the gauge counts it.
LEMMA StartKeeps ==
  ASSUME RunsInv, NEW r \in Requests, Start(r)
  PROVE  RunsInv'
<1> DEFINE m == HomeOf[r]
           t == NextTarget(m)
           pc == IF KindOf[r] = "chat" /\ m \in DlpOn THEN "dlp" ELSE "go"
           q == [request[r] EXCEPT !.target = t, !.pc = pc]
<1>1. RunsTypeOK /\ Aiming /\ GaugeCovers /\ TurnsGoRound /\ m \in Machines
  BY HomesAreMachines DEF RunsInv
<1>2. /\ request \in [Requests -> Request] /\ request[r] \in Request
      /\ active \in [Machines -> Nat] /\ counter \in [Machines -> Nat]
      /\ peers \in [Machines -> Seq(Machines)] /\ DOMAIN turns = Machines
  BY <1>1 DEF RunsTypeOK
<1>3. /\ request[r].pc = "off" /\ request' = [request EXCEPT ![r] = q]
      /\ counter' = [counter EXCEPT ![m] = @ + 1]
      /\ turns' = [turns EXCEPT ![m][Turn(m)] = @ + 1]
      /\ active' = IF KindOf[r] = "chat" THEN [active EXCEPT ![m] = @ + 1] ELSE active
      /\ UNCHANGED <<trusts, backend, pool, linked, changes, peers, calls, breaks, asked>>
  BY DEF Start, Update, At, world
<1>4. t \in Machines /\ Turn(m) \in 1 .. Round(m)
  BY <1>1, TurnTyped
<1>5. pc \in Phases \ {"off", "stream", "done"}
  BY DEF Phases
<1>6. q \in Request /\ q.pc = pc /\ q.reply = request[r].reply
  BY <1>2, <1>4, <1>5 DEF Request
<1> HIDE DEF q, pc
<1>7. /\ request' \in [Requests -> Request] /\ request'[r] = q
      /\ \A s \in Requests \ {r} : request'[s] = request[s]
  BY <1>2, <1>3, <1>6
<1>8. \A n \in Machines : Targets(n)' = Targets(n) /\ Round(n)' = Round(n)
  BY <1>3 DEF Targets, Round
<1>9. turns[m] \in [1 .. Round(m) -> Nat]
  BY <1>1 DEF RunsTypeOK, Round
<1>10. /\ DOMAIN turns' = Machines
       /\ turns'[m] = [turns[m] EXCEPT ![Turn(m)] = @ + 1]
       /\ \A n \in Machines \ {m} : turns'[n] = turns[n]
  BY <1>1, <1>2, <1>3
<1>11. RunsTypeOK'
  <2>1. turns'[m] \in [1 .. Round(m) -> Nat]
    <3>1. ASSUME NEW k, NEW f \in [1 .. k -> Nat], NEW i \in 1 .. k
          PROVE  [f EXCEPT ![i] = @ + 1] \in [1 .. k -> Nat]
      OBVIOUS
    <3>2. QED
      BY <1>4, <1>9, <1>10, <3>1
  <2>2. \A n \in Machines : turns'[n] \in [1 .. Len(Targets(n)') -> Nat]
    BY <1>1, <1>8, <1>10, <2>1 DEF RunsTypeOK, Round
  <2>3. counter' \in [Machines -> Nat] /\ active' \in [Machines -> Nat]
    BY <1>1, <1>2, <1>3
  <2>4. QED
    BY <1>1, <1>3, <1>7, <1>10, <2>2, <2>3 DEF RunsTypeOK
<1>12. Aiming'
  <2>1. (\A c \in calls : c.of # r) /\ (\A a \in asked : a[1] # r)
    BY <1>1, <1>3 DEF Aiming, NothingBeforeStart, At
  <2>2. calls \subseteq Call /\ asked \subseteq Requests \X Machines
    BY <1>1 DEF RunsTypeOK
  <2>3. \A c \in calls : c.of \in Requests \ {r}
    BY <2>1, <2>2 DEF Call
  <2>4. \A a \in asked : a[1] \in Requests \ {r}
    BY <2>1, <2>2
  <2>5. CallsAreAimed'
    BY <1>1, <1>3, <1>7, <2>3 DEF Aiming, CallsAreAimed
  <2>6. AskedWhereSent'
    BY <1>1, <1>3, <1>7, <2>4 DEF Aiming, AskedWhereSent
  <2>7. RefusedOnlyByItself'
    BY <1>1, <1>3, <1>6, <1>7 DEF Aiming, RefusedOnlyByItself
  <2>8. NothingBeforeStart'
    BY <1>1, <1>3, <1>5, <1>6, <1>7 DEF Aiming, NothingBeforeStart, At
  <2>9. QED
    BY <2>5, <2>6, <2>7, <2>8 DEF Aiming
<1>13. GaugeCovers'
  <2>1. ASSUME NEW n \in Machines, KindOf[r] # "chat" \/ n # m
        PROVE  InHandler(n)' = InHandler(n) /\ active'[n] = active[n]
    BY <1>2, <1>3, <1>7, <2>1 DEF InHandler
  <2>2. ASSUME KindOf[r] = "chat"
        PROVE  active'[m] >= Cardinality(InHandler(m)')
    <3>1. InHandler(m)' = InHandler(m) \union {r} /\ r \notin InHandler(m)
      BY <1>3, <1>5, <1>6, <1>7, <2>2 DEF InHandler
    <3>2. Cardinality(InHandler(m) \union {r}) = Cardinality(InHandler(m)) + 1
      BY <1>1, <3>1, InHandlerFinite, FS_AddElement
    <3>3. active'[m] = active[m] + 1 /\ active[m] \in Nat
      BY <1>1, <1>2, <1>3, <2>2
    <3>4. active[m] >= Cardinality(InHandler(m))
      BY <1>1 DEF GaugeCovers
    <3>5. QED
      BY <1>1, <3>1, <3>2, <3>3, <3>4, InHandlerFinite
  <2>3. ASSUME NEW n \in Machines
        PROVE  active'[n] >= Cardinality(InHandler(n)')
    <3>1. CASE KindOf[r] = "chat" /\ n = m
      BY <2>2, <3>1
    <3>2. CASE KindOf[r] # "chat" \/ n # m
      BY <1>1, <2>1, <3>2, Zenon DEF GaugeCovers
    <3>3. QED
      BY <3>1, <3>2
  <2>4. QED
    BY <2>3 DEF GaugeCovers
<1>14. TurnsGoRound'
  <2> DEFINE k == Round(m)
             cur == counter[m] % k
             next == IF cur + 1 = k THEN 0 ELSE cur + 1
  <2>1. k \in Nat \ {0} /\ cur \in 0 .. k - 1 /\ Turn(m) = cur + 1 /\ counter[m] \in Nat
    BY <1>1, <1>2, TargetsTyped, TurnTyped
  <2>2. counter'[m] % k = next
    BY <1>1, <1>2, <1>3, <2>1, NextRemainder
  <2>3. GoneRound(k, cur, turns[m]) /\ turns[m] \in [1 .. k -> Nat]
    BY <1>1, <1>9 DEF TurnsGoRound
  <2>4. turns'[m] = [turns[m] EXCEPT ![cur + 1] = @ + 1]
    BY <1>10, <2>1
  <2> HIDE DEF k, cur
  <2>5. GoneRound(k, next, [turns[m] EXCEPT ![cur + 1] = @ + 1])
    BY <2>1, <2>3, TurnTaken
  <2> HIDE DEF next
  <2>6. GoneRound(Round(m)', counter'[m] % Round(m)', turns'[m])
    <3>1. Round(m)' = k
      BY <1>1, <1>8 DEF k
    <3>2. QED
      BY <2>2, <2>4, <2>5, <3>1
  <2>7. ASSUME NEW n \in Machines \ {m}
        PROVE  GoneRound(Round(n)', counter'[n] % Round(n)', turns'[n])
    <3>1. counter'[n] = counter[n] /\ turns'[n] = turns[n] /\ Round(n)' = Round(n)
      BY <1>2, <1>3, <1>8, <1>10
    <3>2. GoneRound(Round(n), counter[n] % Round(n), turns[n])
      BY <1>1 DEF TurnsGoRound
    <3>3. QED
      BY <3>1, <3>2
  <2>8. QED
    BY <2>6, <2>7, Zenon DEF TurnsGoRound
<1>15. QED
  BY <1>11, <1>12, <1>13, <1>14 DEF RunsInv

\* The world around changes no request; a list that is replaced has its turns begun anew,
\* wherever the counter stands.
LEMMA WorldKeeps ==
  ASSUME RunsInv, UNCHANGED <<request, calls, active, breaks, asked>>, RunsTypeOK', TurnsGoRound'
  PROVE  RunsInv'
<1>1. Aiming'
  BY DEF RunsInv, Aiming, CallsAreAimed, NothingBeforeStart, AskedWhereSent, RefusedOnlyByItself, At
<1>2. \A m \in Machines : InHandler(m)' = InHandler(m)
  BY DEF InHandler
<1>3. GaugeCovers'
  BY <1>2 DEF RunsInv, GaugeCovers
<1>4. QED
  BY <1>1, <1>3 DEF RunsInv

\* A new list of peers keeps it.
LEMMA ReloadKeeps ==
  ASSUME RunsInv, NEW m \in Machines, NEW list \in ListsOf[m], Reload(m, list)
  PROVE  RunsInv'
<1>1. RunsTypeOK /\ TurnsGoRound
  BY DEF RunsInv
<1>2. /\ peers' = [peers EXCEPT ![m] = list]
      /\ turns' = [turns EXCEPT ![m] = [i \in 1 .. Len(list) + 1 |-> 0]]
      /\ changes < MaxChanges /\ changes' = changes + 1
      /\ UNCHANGED <<counter, trusts, backend, pool, linked, request, calls, active, breaks, asked>>
  BY DEF Reload, Changing
<1>3. list \in Seq(Machines)
  <2>1. list \in Seq(Machines \ {m})
    BY ListsArePeers
  <2>2. Len(list) \in Nat /\ list \in [1 .. Len(list) -> Machines]
    BY <2>1
  <2>3. QED
    BY <2>2
<1>4. peers \in [Machines -> Seq(Machines)] /\ DOMAIN turns = Machines /\ counter \in [Machines -> Nat]
  BY <1>1 DEF RunsTypeOK
<1>5. /\ peers' \in [Machines -> Seq(Machines)] /\ peers'[m] = list
      /\ \A n \in Machines \ {m} : peers'[n] = peers[n]
  BY <1>2, <1>3, <1>4
<1>6. /\ \A n \in Machines \ {m} : Targets(n)' = Targets(n)
      /\ \A n \in Machines \ {m} : Round(n)' = Round(n)
  BY <1>5 DEF Targets, Round
<1>7. Round(m)' = Len(list) + 1 /\ Round(m)' \in Nat \ {0}
  BY <1>3, <1>5 DEF Targets, Round
<1>8. /\ DOMAIN turns' = Machines
      /\ turns'[m] = [i \in 1 .. Len(list) + 1 |-> 0]
      /\ \A n \in Machines \ {m} : turns'[n] = turns[n]
  BY <1>2, <1>4
<1>9. RunsTypeOK'
  <2>1. [i \in 1 .. Len(list) + 1 |-> 0] \in [1 .. Len(list) + 1 -> Nat]
    OBVIOUS
  <2>2. turns'[m] \in [1 .. Round(m)' -> Nat]
    BY <1>7, <1>8, <2>1, Zenon
  <2>3. \A n \in Machines \ {m} : turns[n] \in [1 .. Round(n) -> Nat]
    BY <1>1 DEF RunsTypeOK, Round
  <2>4. ASSUME NEW n \in Machines PROVE turns'[n] \in [1 .. Round(n)' -> Nat]
    BY <1>6, <1>8, <2>2, <2>3, Zenon
  <2>5. \A n \in Machines : turns'[n] \in [1 .. Len(Targets(n)') -> Nat]
    BY <2>4 DEF Round
  <2>6. changes' \in 0 .. MaxChanges
    BY <1>1, <1>2, Bounds DEF RunsTypeOK
  <2>7. QED
    BY <1>1, <1>2, <1>5, <1>8, <2>5, <2>6 DEF RunsTypeOK
<1>10. TurnsGoRound'
  <2>1. counter[m] % Round(m)' \in 0 .. Round(m)' - 1
    <3>1. ASSUME NEW n \in Nat, NEW k \in Nat \ {0} PROVE n % k \in 0 .. k - 1
      OBVIOUS
    <3>2. QED
      BY <1>4, <1>7, <3>1
  <2>2. GoneRound(Round(m)', counter'[m] % Round(m)', turns'[m])
    BY <1>2, <1>7, <1>8, <2>1, TurnsAnew
  <2>3. ASSUME NEW n \in Machines \ {m}
        PROVE  GoneRound(Round(n)', counter'[n] % Round(n)', turns'[n])
    <3>1. counter' = counter /\ turns'[n] = turns[n] /\ Round(n)' = Round(n)
      BY <1>2, <1>6, <1>8
    <3>2. GoneRound(Round(n), counter[n] % Round(n), turns[n])
      BY <1>1 DEF TurnsGoRound
    <3>3. QED
      BY <3>1, <3>2
  <2>4. QED
    BY <2>2, <2>3, Zenon DEF TurnsGoRound
<1>11. QED
  BY <1>2, <1>9, <1>10, WorldKeeps

\* Every step keeps it,
LEMMA RunsNextKeeps == RunsInv /\ [RunsNext]_runsVars => RunsInv'
<1> SUFFICES ASSUME RunsInv, [RunsNext]_runsVars
             PROVE  RunsInv'
  OBVIOUS
<1>0. RunsTypeOK /\ TurnsGoRound
  BY DEF RunsInv
<1>1. ASSUME UNCHANGED <<request, calls, active, breaks, asked, routing, trusts>>,
             changes' \in 0 .. MaxChanges,
             backend' \in [Machines -> [DOMAIN Runtimes -> {"down", "empty", "model"}]],
             pool' \subseteq Machines, linked' \subseteq Machines
      PROVE  RunsInv'
  <2>1. RunsTypeOK'
    BY <1>0, <1>1 DEF RunsTypeOK, Targets, routing
  <2>2. TurnsGoRound'
    BY <1>0, <1>1, TurnsStay
  <2>3. QED
    BY <1>1, <2>1, <2>2, WorldKeeps
<1>2. /\ backend \in [Machines -> [DOMAIN Runtimes -> {"down", "empty", "model"}]]
      /\ pool \subseteq Machines /\ linked \subseteq Machines
      /\ changes \in 0 .. MaxChanges /\ MaxChanges \in Nat
  BY <1>0, Bounds DEF RunsTypeOK
<1>3. ASSUME Changing PROVE changes' \in 0 .. MaxChanges
  BY <1>2, <1>3 DEF Changing
<1>4. ASSUME NEW m \in Machines, NEW i \in DOMAIN Runtimes, RuntimeChanges(m, i)
      PROVE  RunsInv'
  <2>1. backend' \in [Machines -> [DOMAIN Runtimes -> {"down", "empty", "model"}]]
    BY <1>2, <1>4 DEF RuntimeChanges
  <2>2. QED
    BY <1>1, <1>2, <1>3, <1>4, <2>1 DEF RuntimeChanges
<1>5. ASSUME NEW m \in Machines, PoolChanges(m)
      PROVE  RunsInv'
  BY <1>1, <1>2, <1>3, <1>5 DEF PoolChanges
<1>6. ASSUME NEW m \in Machines, LinkChanges(m)
      PROVE  RunsInv'
  BY <1>1, <1>2, <1>3, <1>6 DEF LinkChanges
<1>7. ASSUME NEW r \in Requests, HandlerStep(r) \/ PeerBreaks(r) \/ StreamBreaks(r)
      PROVE  RunsInv'
  BY <1>0, <1>7, HandlerSteps, HandlerKeeps
<1>8. ASSUME NEW c \in calls, PeerStep(c) \/ AnswerFails(c) \/ RelayLoses(c)
      PROVE  RunsInv'
  BY <1>0, <1>8, PeerSteps, PeerKeeps
<1>9. ASSUME UNCHANGED runsVars
      PROVE  RunsInv'
  BY <1>1, <1>2, <1>9 DEF runsVars, world, routing
<1>10. QED
  BY <1>4, <1>5, <1>6, <1>7, <1>8, <1>9, ReloadKeeps, StartKeeps DEF RunsNext

\* and so it always holds.
LEMMA RunsInvariance == RunsSpec => []RunsInv
<1>1. QED
  BY RunsInitInv, RunsNextKeeps, PTL DEF RunsSpec

\* TurnsGoRound says where the turns stand; that they are even is all a client may count on.
LEMMA RoundIsEven ==
  ASSUME RunsTypeOK, TurnsGoRound
  PROVE  TurnsAreEven
<1> SUFFICES ASSUME NEW m \in Machines, NEW i \in DOMAIN Targets(m), NEW j \in DOMAIN Targets(m)
             PROVE  turns[m][i] <= turns[m][j] + 1
  BY DEF TurnsAreEven
<1>1. DOMAIN Targets(m) = 1 .. Round(m)
  BY TargetsTyped DEF RunsTypeOK
<1>2. PICK first \in 0 .. Round(m) - 1, v \in Nat :
        \A n \in 1 .. Round(m) :
          turns[m][n] = IF Ahead(first, counter[m] % Round(m), n - 1) THEN v + 1 ELSE v
  BY DEF TurnsGoRound, GoneRound
<1>3. turns[m][i] \in {v, v + 1} /\ turns[m][j] \in {v, v + 1}
  BY <1>1, <1>2
<1>4. QED
  BY <1>2, <1>3

-----------------------------------------------------------------------------
(* Runs: that requests come to an end                                        *)

\* The calls whose answers the handler of r would still take.
Awaited(r) == {c \in calls : c.of = r /\ c.live}

Waiting == {"wait", "stream"}

\* What a handler that waits for a status, or for the rest of an answer, can make something
\* of, now or when the peer has answered: a stream may not be waiting for a status.
Answerable(c, pc) ==
  \/ pc = "wait" /\ c.via = "http" /\ c.at \in {"sent", "refused", "tokens", "error"}
  \/ pc = "stream" /\ c.at \in {"sent", "tokens", "notice", "error"} /\ (c.at = "sent" => c.via # "http")

\* What it waits for in vain, unless the session of its own daemon ends: the relay has lost it.
InVain(c, pc) == pc = "stream" /\ c.via = "relay" /\ c.at = "lost"

\* A handler that waits has exactly one call, which the peer answers or the relay has lost,
\* and one that does not has none.
AwaitsRightly(r) ==
  IF request[r].pc \in Waiting
  THEN \E c \in Awaited(r) :
         Awaited(r) = {c} /\ (Answerable(c, request[r].pc) \/ InVain(c, request[r].pc))
  ELSE Awaited(r) = {}

AnswersAreAwaited == \A r \in Requests : AwaitsRightly(r)

\* A bound on the steps a handler has left, path after path.
StepsLeft(pc) ==
  CASE pc = "dlp" -> 8 [] pc = "go" -> 7 [] pc = "quic" -> 6 [] pc = "http" -> 5 [] pc = "wait" -> 4
    [] pc = "relay" -> 3 [] pc = "local" -> 2 [] pc = "stream" -> 1 [] OTHER -> 0

\* A bound on what can still become of a call before its handler takes it.
Unanswered(c) == CASE c.at = "sent" -> 3 [] c.at = "tokens" -> 2 [] c.at = "lost" -> 0 [] OTHER -> 1

\* Whatever step is taken, no request gets further from its end, and the one whose handler
\* takes it gets nearer; a call is answered once or lost, and a lost one is not moved on.
RequestsGetOnStep ==
  /\ \A r \in Requests : ~At(r, "off") =>
       request'[r] = request[r] \/ StepsLeft(request'[r].pc) < StepsLeft(request[r].pc)
  /\ \A r \in Requests : HandlerStep(r) => request'[r] # request[r]
  /\ \A c \in calls : c.live /\ request'[c.of] = request[c.of] =>
       \E d \in calls' : d.of = c.of /\ d.via = c.via /\ d.live /\ (d = c \/ Unanswered(d) < Unanswered(c))
  /\ \A c \in calls : PeerStep(c) => c \notin calls'

RequestsGetOn == [][RequestsGetOnStep]_runsVars

\* A handler gives up this call, which the peer may still be at.
Drops(c, gone) == calls' = (calls \ {c}) \union (IF gone THEN {} ELSE {[c EXCEPT !.live = FALSE]})

\* A handler's step: it goes on to a later point, and sends a call, or takes the answer of
\* its own as it comes, or has done with it.
Moves(r, pc, next) ==
  /\ \A s \in Requests \ {r} : request'[s] = request[s]
  /\ pc # "off" /\ pc # "done" /\ next # "off" /\ StepsLeft(next) < StepsLeft(pc)
  /\ \/ pc \notin Waiting /\ next \notin Waiting /\ calls' = calls
     \/ pc \notin Waiting /\ next = "wait" /\ Send(r, "http")
     \/ pc \notin Waiting /\ next = "stream" /\ \E via \in {"quic", "relay"} : Send(r, via)
     \/ pc = "wait" /\ next = "stream" /\ calls' = calls
          /\ CallOf(r, "http", {"tokens", "error"}) # {}
     \/ pc \in Waiting /\ next \notin Waiting
          /\ \E c \in Awaited(r), gone \in BOOLEAN : Drops(c, gone)

\* A handler's step is of one of these kinds.
LEMMA HandlerMoves ==
  ASSUME RunsTypeOK, NEW r \in Requests, HandlerStep(r) \/ PeerBreaks(r) \/ StreamBreaks(r)
  PROVE  Moves(r, request[r].pc, request'[r].pc)
<1>0. request \in [Requests -> Request] /\ request[r] \in Request
  BY Zenon DEF RunsTypeOK
<1>1. ASSUME NEW pc \in Phases, Goto(r, pc)
      PROVE  request'[r].pc = pc /\ \A s \in Requests \ {r} : request'[s] = request[s]
  <2>1. request' = [request EXCEPT ![r] = [request[r] EXCEPT !.pc = pc]]
    BY <1>1 DEF Goto, Update
  <2>2. QED
    BY <1>0, <2>1, PhaseChanges
<1>2. ASSUME NEW reply \in Replies, Finish(r, reply)
      PROVE  request'[r].pc = "done" /\ \A s \in Requests \ {r} : request'[s] = request[s]
  <2> DEFINE q == [request[r] EXCEPT !.pc = "done", !.reply = reply]
  <2>1. q.pc = "done"
    BY <1>0, Ends, Zenon
  <2>2. request' = [request EXCEPT ![r] = q]
    BY <1>2 DEF Finish, Update
  <2> HIDE DEF q
  <2>3. QED
    BY <1>0, <2>1, <2>2
<1> USE DEF At, Moves, Waiting, StepsLeft, Phases, Replies
<1>3. CASE DlpAllows(r)
  BY <1>1, <1>3 DEF DlpAllows
<1>4. CASE DlpBlocks(r)
  BY <1>2, <1>4 DEF DlpBlocks
<1>5. CASE Dispatch(r)
  <2>1. PICK pc \in {"local", "quic", "http"} : Goto(r, pc)
    BY <1>5 DEF Dispatch
  <2>2. request'[r].pc = pc /\ \A s \in Requests \ {r} : request'[s] = request[s]
    BY <1>1, <2>1
  <2>3. QED
    BY <1>5, <2>2 DEF Dispatch
<1>6. CASE QuicConnects(r)
  BY <1>1, <1>6 DEF QuicConnects
<1>7. CASE QuicFails(r)
  BY <1>1, <1>7 DEF QuicFails
<1>8. CASE PostToPeer(r)
  BY <1>1, <1>8 DEF PostToPeer
<1>9. CASE PeerAccepts(r)
  BY <1>1, <1>9 DEF PeerAccepts
<1>10. CASE PeerRefuses(r)
  <2>1. PICK pc \in {"relay", "local"} : Goto(r, pc)
    BY <1>10 DEF PeerRefuses, Fallback
  <2>2. PICK c \in Awaited(r), gone \in BOOLEAN : Drops(c, gone)
    BY <1>10 DEF PeerRefuses, CallOf, Awaited, Drops
  <2>3. request[r].pc = "wait"
    BY <1>10 DEF PeerRefuses
  <2>4. QED
    BY <1>1, <2>1, <2>2, <2>3
<1>11. CASE PeerBreaks(r)
  <2>1. PICK pc \in {"relay", "local"} : Goto(r, pc)
    BY <1>11 DEF PeerBreaks, Fallback
  <2>2. PICK c \in Awaited(r), gone \in BOOLEAN : Drops(c, gone)
    BY <1>11 DEF PeerBreaks, CallOf, Awaited, Drops
  <2>3. request[r].pc = "wait"
    BY <1>11 DEF PeerBreaks
  <2>4. QED
    BY <1>1, <2>1, <2>2, <2>3
<1>12. CASE RelayTakes(r)
  <2>1. request[r].pc = "relay"
    BY <1>12 DEF RelayTakes
  <2>2. CASE Send(r, "relay") /\ Goto(r, "stream")
    BY <1>1, <2>1, <2>2
  <2>3. CASE Goto(r, "local") /\ UNCHANGED calls
    BY <1>1, <2>1, <2>3
  <2>4. QED
    BY <1>12, <2>2, <2>3 DEF RelayTakes
<1>13. CASE ServeLocally(r)
  <2>1. PICK outcome \in Replies : Finish(r, outcome)
    BY <1>13 DEF ServeLocally, Outcomes
  <2>2. request[r].pc = "local" /\ calls' = calls
    BY <1>13 DEF ServeLocally
  <2>3. QED
    BY <1>2, <2>1, <2>2
<1>14. CASE StreamEnds(r)
  <2>1. PICK c \in Awaited(r), gone \in BOOLEAN :
          /\ Drops(c, gone) /\ c.at \in {"tokens", "notice", "error"}
          /\ Finish(r, IF c.at = "error" THEN "cut" ELSE c.at)
    BY <1>14 DEF StreamEnds, Awaited, Drops
  <2>2. PICK reply \in Replies : Finish(r, reply)
    BY <2>1
  <2>3. request[r].pc = "stream"
    BY <1>14 DEF StreamEnds
  <2>4. QED
    BY <1>2, <2>1, <2>2, <2>3
<1>15. CASE StreamBreaks(r)
  <2>1. PICK c \in Awaited(r), gone \in BOOLEAN : Drops(c, gone)
    BY <1>15 DEF StreamBreaks, Awaited, Drops
  <2>2. request[r].pc = "stream" /\ Finish(r, "cut")
    BY <1>15 DEF StreamBreaks
  <2>3. QED
    BY <1>2, <2>1, <2>2
<1>16. CASE RelayEnds(r)
  <2>1. PICK c \in Awaited(r), gone \in BOOLEAN : Drops(c, gone)
    BY <1>16 DEF RelayEnds, CallOf, Awaited, Drops
  <2>2. request[r].pc = "stream" /\ Finish(r, "cut")
    BY <1>16 DEF RelayEnds
  <2>3. QED
    BY <1>2, <2>1, <2>2
<1>17. QED
  BY <1>3, <1>4, <1>5, <1>6, <1>7, <1>8, <1>9, <1>10, <1>11, <1>12, <1>13, <1>14, <1>15, <1>16
     DEF HandlerStep

\* What becomes of a call: it is moved on, or lost, or forgotten when it is abandoned.
LEMMA PeerMoves ==
  ASSUME RunsTypeOK, NEW c \in calls, PeerStep(c) \/ AnswerFails(c) \/ RelayLoses(c)
  PROVE  /\ request' = request
         /\ \E at \in Stages :
              /\ calls' = Advance(c, at)
              /\ \/ c.at = "sent" /\ at \in {"refused", "tokens", "notice", "error"}
                 \/ c.at = "tokens" /\ at = "error"
                 \/ c.via = "relay" /\ c.at \in {"sent", "tokens", "notice", "error"} /\ at = "lost"
              /\ c.via # "http" => at # "refused"
              /\ c.via = "http" => at # "notice"
<1>1. CASE Refuse(c)
  BY <1>1 DEF Refuse, Accepted, Stages
<1>2. CASE Serve(c)
  <2>1. PICK at : /\ calls' = Advance(c, at)
                  /\ \E outcome \in Outcomes(c.to, KindOf[c.of]) :
                       at = CASE outcome = "tokens" -> "tokens"
                              [] c.via = "http" -> "refused"
                              [] c.via = "relay" /\ outcome = "failed" -> "error"
                              [] OTHER -> "notice"
    BY <1>2 DEF Serve
  <2>2. /\ at \in {"refused", "tokens", "notice", "error"}
        /\ c.via # "http" => at # "refused"
        /\ c.via = "http" => at # "notice"
    BY <2>1
  <2>3. QED
    BY <1>2, <2>1, <2>2 DEF Serve, Stages
<1>3. CASE AnswerFails(c)
  BY <1>3 DEF AnswerFails, Stages
<1>4. CASE RelayLoses(c)
  BY <1>4 DEF RelayLoses, Stages
<1>5. QED
  BY <1>1, <1>2, <1>3, <1>4 DEF PeerStep

\* A call that is moved on is awaited as before, and one that is abandoned is not.
LEMMA AwaitedAdvance ==
  ASSUME calls \subseteq Call, NEW c \in calls, NEW at \in Stages, calls' = Advance(c, at)
  PROVE  /\ \A r : c.of # r => Awaited(r)' = Awaited(r)
         /\ ~c.live => Awaited(c.of)' = Awaited(c.of)
         /\ c.live => /\ c \in Awaited(c.of)
                      /\ \E d \in Call : /\ Awaited(c.of)' = (Awaited(c.of) \ {c}) \union {d}
                                         /\ d \in calls' /\ d.of = c.of /\ d.via = c.via /\ d.live
                                         /\ d.at = at
<1> DEFINE d == [c EXCEPT !.at = at]
<1>1. d \in Call /\ d.of = c.of /\ d.via = c.via /\ d.live = c.live /\ d.at = at
  BY DEF Call
<1>2. calls' = (calls \ {c}) \union (IF c.live THEN {d} ELSE {})
  BY DEF Advance
<1> HIDE DEF d
<1>3. \A r : c.of # r => Awaited(r)' = Awaited(r)
  BY <1>1, <1>2 DEF Awaited
<1>4. ~c.live => Awaited(c.of)' = Awaited(c.of)
  BY <1>2 DEF Awaited
<1>5. c.live => c \in Awaited(c.of) /\ Awaited(c.of)' = (Awaited(c.of) \ {c}) \union {d} /\ d \in calls'
  BY <1>1, <1>2 DEF Awaited
<1>6. QED
  BY <1>1, <1>3, <1>4, <1>5

\* A handler's step awaits its own call only.
LEMMA AwaitedMoves ==
  ASSUME calls \subseteq Call, NEW r \in Requests, NEW pc, NEW next, Moves(r, pc, next)
  PROVE  /\ \A s : s # r => Awaited(s)' = Awaited(s)
         /\ \/ pc \notin Waiting /\ next \notin Waiting /\ Awaited(r)' = Awaited(r)
            \/ pc \notin Waiting /\ next \in Waiting
                 /\ \E c : Awaited(r)' = Awaited(r) \union {c} /\ c.at = "sent" /\ Answerable(c, next)
            \/ pc = "wait" /\ next = "stream" /\ Awaited(r)' = Awaited(r)
                 /\ \E c \in Awaited(r) : c.at \in {"tokens", "error"}
            \/ pc \in Waiting /\ next \notin Waiting
                 /\ \E c \in Awaited(r) : Awaited(r)' = Awaited(r) \ {c}
<1>1. CASE calls' = calls
  <2>1. \A s : Awaited(s)' = Awaited(s)
    BY <1>1 DEF Awaited
  <2>2. CASE pc \notin Waiting /\ next \notin Waiting
    BY <2>1, <2>2
  <2>3. CASE pc = "wait" /\ next = "stream" /\ CallOf(r, "http", {"tokens", "error"}) # {}
    <3>1. \E c \in Awaited(r) : c.at \in {"tokens", "error"}
      BY <2>3 DEF CallOf, Awaited
    <3>2. QED
      BY <2>1, <2>3, <3>1
  <2>4. CASE \E c \in Awaited(r), gone \in BOOLEAN : Drops(c, gone)
    <3>1. PICK c \in Awaited(r), gone \in BOOLEAN : Drops(c, gone)
      BY <2>4
    <3>2. c \in Call /\ c \in calls /\ c.live
      BY <3>1 DEF Awaited
    <3>3. [c EXCEPT !.live = FALSE].live = FALSE
      BY <3>2 DEF Call
    <3>4. c \notin calls'
      BY <3>1, <3>2, <3>3 DEF Drops
    <3>5. QED
      BY <1>1, <3>2, <3>4
  <2>5. CASE \E via \in Paths : Send(r, via) /\ pc \notin Waiting
                                  /\ (IF via = "http" THEN next = "wait" ELSE next = "stream")
    <3>1. PICK via \in Paths : /\ Send(r, via) /\ pc \notin Waiting
                               /\ IF via = "http" THEN next = "wait" ELSE next = "stream"
      BY <2>5
    <3> DEFINE c == [of |-> r, to |-> request[r].target, via |-> via, at |-> "sent", live |-> TRUE]
    <3>2. c \in calls
      BY <1>1, <3>1 DEF Send
    <3>3. c \in Awaited(r) /\ c.at = "sent" /\ Answerable(c, next)
      BY <3>1, <3>2 DEF Awaited, Answerable
    <3>4. QED
      BY <2>1, <3>1, <3>3 DEF Waiting
  <2>6. QED
    BY <2>2, <2>3, <2>4, <2>5 DEF Moves, Paths
<1>2. CASE \E via \in Paths : Send(r, via) /\ pc \notin Waiting
                                /\ (IF via = "http" THEN next = "wait" ELSE next = "stream")
  <2>1. PICK via \in Paths : /\ Send(r, via) /\ pc \notin Waiting
                             /\ IF via = "http" THEN next = "wait" ELSE next = "stream"
    BY <1>2
  <2> DEFINE c == [of |-> r, to |-> request[r].target, via |-> via, at |-> "sent", live |-> TRUE]
  <2>2. c.of = r /\ c.live /\ c.at = "sent" /\ c.via = via
    OBVIOUS
  <2>3. calls' = calls \union {c}
    BY <2>1 DEF Send
  <2>4. Answerable(c, next)
    BY <2>1, <2>2 DEF Answerable
  <2> HIDE DEF c
  <2>5. Awaited(r)' = Awaited(r) \union {c} /\ \A s : s # r => Awaited(s)' = Awaited(s)
    BY <2>2, <2>3 DEF Awaited
  <2>6. QED
    BY <2>1, <2>2, <2>4, <2>5 DEF Waiting
<1>3. CASE pc \in Waiting /\ next \notin Waiting /\ \E c \in Awaited(r), gone \in BOOLEAN : Drops(c, gone)
  <2>1. PICK c \in Awaited(r), gone \in BOOLEAN : Drops(c, gone)
    BY <1>3
  <2> DEFINE d == [c EXCEPT !.live = FALSE]
  <2>2. c \in Call /\ c.of = r
    BY <2>1 DEF Awaited
  <2>3. ~d.live
    BY <2>2 DEF Call
  <2>4. calls' = (calls \ {c}) \union (IF gone THEN {} ELSE {d})
    BY <2>1 DEF Drops
  <2> HIDE DEF d
  <2>5. Awaited(r)' = Awaited(r) \ {c} /\ \A s : s # r => Awaited(s)' = Awaited(s)
    BY <2>2, <2>3, <2>4 DEF Awaited
  <2>6. QED
    BY <1>3, <2>1, <2>5
<1>4. QED
  BY <1>1, <1>2, <1>3 DEF Moves, Paths


\* At first no handler waits, and nothing is awaited;
LEMMA AwaitedInit == RunsInit => AnswersAreAwaited
<1>1. ASSUME RunsInit, NEW r \in Requests PROVE AwaitsRightly(r)
  <2>1. request[r].pc = "off" /\ calls = {}
    BY <1>1 DEF RunsInit, Fresh
  <2>2. QED
    BY <2>1 DEF AwaitsRightly, Awaited, Waiting
<1>2. QED
  BY <1>1 DEF AnswersAreAwaited

\* a handler's step leaves each request with what it waits for,
LEMMA AwaitedByHandlers ==
  ASSUME RunsTypeOK, AnswersAreAwaited, NEW r \in Requests,
         HandlerStep(r) \/ PeerBreaks(r) \/ StreamBreaks(r)
  PROVE  AnswersAreAwaited'
<1> DEFINE pc == request[r].pc
           next == request'[r].pc
<1>1. Moves(r, pc, next) /\ calls \subseteq Call
  BY HandlerMoves DEF RunsTypeOK
<1> HIDE DEF pc, next
<1>2. /\ \A s : s # r => Awaited(s)' = Awaited(s)
      /\ \/ pc \notin Waiting /\ next \notin Waiting /\ Awaited(r)' = Awaited(r)
         \/ pc \notin Waiting /\ next \in Waiting
              /\ \E c : Awaited(r)' = Awaited(r) \union {c} /\ c.at = "sent" /\ Answerable(c, next)
         \/ pc = "wait" /\ next = "stream" /\ Awaited(r)' = Awaited(r)
              /\ \E c \in Awaited(r) : c.at \in {"tokens", "error"}
         \/ pc \in Waiting /\ next \notin Waiting
              /\ \E c \in Awaited(r) : Awaited(r)' = Awaited(r) \ {c}
  BY <1>1, AwaitedMoves
<1>3. AwaitsRightly(r)
  BY DEF AnswersAreAwaited
<1>4. AwaitsRightly(r)'
  <2>1. CASE pc \notin Waiting
    BY <1>2, <1>3, <2>1 DEF AwaitsRightly, pc, next, Waiting
  <2>2. CASE pc \in Waiting
    <3>1. PICK d \in Awaited(r) : Awaited(r) = {d} /\ (Answerable(d, pc) \/ InVain(d, pc))
      BY <1>3, <2>2 DEF AwaitsRightly, pc
    <3>2. CASE next \notin Waiting
      BY <1>2, <2>2, <3>1, <3>2 DEF AwaitsRightly, next, Waiting
    <3>3. CASE next \in Waiting
      <4>1. pc = "wait" /\ next = "stream" /\ Awaited(r)' = {d} /\ d.at \in {"tokens", "error"}
        BY <1>2, <2>2, <3>1, <3>3
      <4>2. Answerable(d, next)
        BY <3>1, <4>1 DEF Answerable, InVain
      <4>3. QED
        BY <4>1, <4>2 DEF AwaitsRightly, next, Waiting
    <3>4. QED
      BY <3>2, <3>3
  <2>3. QED
    BY <2>1, <2>2
<1>5. ASSUME NEW s \in Requests, s # r PROVE AwaitsRightly(s)'
  <2>1. request'[s] = request[s] /\ Awaited(s)' = Awaited(s) /\ AwaitsRightly(s)
    BY <1>1, <1>2, <1>5 DEF Moves, AnswersAreAwaited
  <2>2. QED
    BY <2>1 DEF AwaitsRightly
<1>6. QED
  BY <1>4, <1>5 DEF AnswersAreAwaited

\* and so does a peer's.
LEMMA AwaitedByPeers ==
  ASSUME RunsTypeOK, AnswersAreAwaited, NEW c \in calls, PeerStep(c) \/ AnswerFails(c) \/ RelayLoses(c)
  PROVE  AnswersAreAwaited'
<1>1. calls \subseteq Call /\ c.of \in Requests
  BY DEF RunsTypeOK, Call
<1>2. PICK at \in Stages :
        /\ calls' = Advance(c, at)
        /\ \/ c.at = "sent" /\ at \in {"refused", "tokens", "notice", "error"}
           \/ c.at = "tokens" /\ at = "error"
           \/ c.via = "relay" /\ c.at \in {"sent", "tokens", "notice", "error"} /\ at = "lost"
        /\ c.via # "http" => at # "refused"
        /\ c.via = "http" => at # "notice"
  BY PeerMoves
<1>3. request' = request
  BY PeerMoves
<1>4. ASSUME NEW s \in Requests, Awaited(s)' = Awaited(s)
      PROVE  AwaitsRightly(s)'
  BY <1>3, <1>4 DEF AwaitsRightly, AnswersAreAwaited
<1>5. CASE c.live
  <2>1. c \in Awaited(c.of) /\ AwaitsRightly(c.of)
    BY <1>1, <1>5 DEF Awaited, AnswersAreAwaited
  <2>2. /\ request[c.of].pc \in Waiting /\ Awaited(c.of) = {c}
        /\ Answerable(c, request[c.of].pc) \/ InVain(c, request[c.of].pc)
    BY <2>1 DEF AwaitsRightly
  <2>3. PICK d \in Call : /\ Awaited(c.of)' = (Awaited(c.of) \ {c}) \union {d}
                          /\ d.of = c.of /\ d.via = c.via /\ d.live /\ d.at = at
    BY <1>1, <1>2, <1>5, AwaitedAdvance
  <2>4. Answerable(d, request[c.of].pc) \/ InVain(d, request[c.of].pc)
    BY <1>2, <2>2, <2>3 DEF Answerable, InVain
  <2>5. AwaitsRightly(c.of)'
    BY <1>3, <2>2, <2>3, <2>4 DEF AwaitsRightly
  <2>6. \A s : c.of # s => Awaited(s)' = Awaited(s)
    BY <1>1, <1>2, AwaitedAdvance
  <2>7. QED
    BY <1>4, <2>5, <2>6 DEF AnswersAreAwaited
<1>6. CASE ~c.live
  <2>1. \A s : Awaited(s)' = Awaited(s)
    BY <1>1, <1>2, <1>6, AwaitedAdvance
  <2>2. QED
    BY <1>4, <2>1 DEF AnswersAreAwaited
<1>7. QED
  BY <1>5, <1>6

\* Nor does any other step leave a request waiting for nothing at all.
LEMMA AwaitedByAll == RunsInv /\ AnswersAreAwaited /\ [RunsNext]_runsVars => AnswersAreAwaited'
<1> SUFFICES ASSUME RunsInv, AnswersAreAwaited, [RunsNext]_runsVars
             PROVE  AnswersAreAwaited'
  OBVIOUS
<1>1. RunsTypeOK
  BY DEF RunsInv
<1>2. ASSUME UNCHANGED <<request, calls>> PROVE AnswersAreAwaited'
  BY <1>2 DEF AnswersAreAwaited, AwaitsRightly, Awaited
<1>3. ASSUME NEW r \in Requests, Start(r) PROVE AnswersAreAwaited'
  <2>1. /\ request[r].pc = "off" /\ request'[r].pc \in {"dlp", "go"} /\ calls' = calls
        /\ \A s \in Requests \ {r} : request'[s] = request[s]
    BY <1>1, <1>3 DEF Start, At, Update, RunsTypeOK, Request
  <2>2. QED
    BY <2>1 DEF AnswersAreAwaited, AwaitsRightly, Awaited, Waiting
<1>4. ASSUME NEW m \in Machines,
             \/ \E i \in DOMAIN Runtimes : RuntimeChanges(m, i)
             \/ PoolChanges(m) \/ LinkChanges(m)
             \/ \E list \in ListsOf[m] : Reload(m, list)
      PROVE  AnswersAreAwaited'
  BY <1>2, <1>4 DEF RuntimeChanges, PoolChanges, LinkChanges, Reload
<1>5. CASE UNCHANGED runsVars
  BY <1>2, <1>5 DEF runsVars
<1>6. QED
  BY <1>1, <1>3, <1>4, <1>5, AwaitedByHandlers, AwaitedByPeers DEF RunsNext

\* A request that waits has exactly one call.  Either its handler can make something of what
\* the peer answers, if it does: a call that a peer may refuse is never waited for as a stream.
\* Or the relay has lost the call, because the peer was not linked, and only the end of its own
\* daemon's session ends the wait.  A handler that goes over to the next path, or is done, has
\* given up the call before.
THEOREM EachWaitHasItsCall == RunsSpec => []AnswersAreAwaited
<1>1. QED
  BY AwaitedInit, AwaitedByAll, RunsInvariance, PTL DEF RunsSpec

\* A begun request is never sent back to a path that it has tried, whatever fails, and its
\* call comes nearer to an answer, or is lost by the relay, with each step that is taken on it.
\* That such a step is taken is not said: a peer need not answer, and of a lost call there is
\* none.
THEOREM RequestsComeOn == RunsSpec => RequestsGetOn
<1>1. RunsInv /\ RunsNext => RequestsGetOnStep
  <2> SUFFICES ASSUME RunsInv, RunsNext PROVE RequestsGetOnStep
    OBVIOUS
  <2>1. RunsTypeOK /\ calls \subseteq Call
    BY DEF RunsInv, RunsTypeOK
  <2>2. ASSUME NEW r \in Requests, HandlerStep(r) \/ PeerBreaks(r) \/ StreamBreaks(r)
        PROVE  /\ StepsLeft(request'[r].pc) < StepsLeft(request[r].pc)
               /\ request'[r] # request[r]
               /\ \A s \in Requests \ {r} : request'[s] = request[s]
               /\ \A c \in calls : c.of # r => c \in calls'
    <3>1. Moves(r, request[r].pc, request'[r].pc)
      BY <2>1, <2>2, HandlerMoves
    <3>2. StepsLeft(request[r].pc) \in 0 .. 8 /\ StepsLeft(request'[r].pc) \in 0 .. 8
      BY DEF StepsLeft
    <3>3. request'[r] # request[r]
      BY <3>1, <3>2 DEF Moves
    <3>4. \A c \in calls : c.of # r => c \in calls'
      <4>1. CASE calls' = calls
        BY <4>1
      <4>2. CASE \E via \in {"http", "quic", "relay"} : Send(r, via)
        BY <4>2 DEF Send
      <4>3. CASE \E c \in Awaited(r), gone \in BOOLEAN : Drops(c, gone)
        BY <4>3 DEF Awaited, Drops
      <4>4. QED
        BY <3>1, <4>1, <4>2, <4>3 DEF Moves
    <3>5. QED
      BY <3>1, <3>3, <3>4 DEF Moves
  <2>3. ASSUME NEW c \in calls, PeerStep(c) \/ AnswerFails(c) \/ RelayLoses(c)
        PROVE  /\ request' = request /\ c \notin calls'
               /\ \A e \in calls : e # c => e \in calls'
               /\ c.live => \E d \in calls' : /\ d.of = c.of /\ d.via = c.via /\ d.live
                                              /\ Unanswered(d) < Unanswered(c)
    <3>1. PICK at \in Stages :
            /\ calls' = Advance(c, at)
            /\ \/ c.at = "sent" /\ at \in {"refused", "tokens", "notice", "error"}
               \/ c.at = "tokens" /\ at = "error"
               \/ c.via = "relay" /\ c.at \in {"sent", "tokens", "notice", "error"} /\ at = "lost"
      BY <2>1, <2>3, PeerMoves
    <3>2. [c EXCEPT !.at = at].at = at /\ c.at # at
      BY <2>1, <3>1 DEF Call
    <3>3. c \notin calls' /\ \A e \in calls : e # c => e \in calls'
      BY <3>1, <3>2 DEF Advance
    <3>4. c.live => \E d \in calls' : d.of = c.of /\ d.via = c.via /\ d.live /\ d.at = at
      BY <2>1, <3>1, AwaitedAdvance
    <3>5. \A d : d.at = at => Unanswered(d) < Unanswered(c)
      BY <3>1 DEF Unanswered
    <3>6. QED
      BY <2>1, <2>3, <3>3, <3>4, <3>5, PeerMoves
  <2>4. ASSUME NEW r \in Requests, HandlerStep(r) PROVE request'[r] # request[r]
    BY <2>2, <2>4
  <2>5. ASSUME NEW c \in calls, PeerStep(c) PROVE c \notin calls'
    BY <2>3, <2>5
  <2>6. /\ \A r \in Requests : ~At(r, "off") =>
             request'[r] = request[r] \/ StepsLeft(request'[r].pc) < StepsLeft(request[r].pc)
        /\ \A c \in calls : c.live /\ request'[c.of] = request[c.of] =>
             \E d \in calls' : /\ d.of = c.of /\ d.via = c.via /\ d.live
                               /\ d = c \/ Unanswered(d) < Unanswered(c)
    <3>1. CASE \E r \in Requests : HandlerStep(r) \/ PeerBreaks(r) \/ StreamBreaks(r)
      BY <2>2, <3>1
    <3>2. CASE \E c \in calls : PeerStep(c) \/ AnswerFails(c) \/ RelayLoses(c)
      BY <2>3, <3>2
    <3>3. CASE \E r \in Requests : Start(r)
      <4>1. PICK r \in Requests : Start(r)
        BY <3>3
      <4>2. request[r].pc = "off" /\ calls' = calls /\ \A s \in Requests \ {r} : request'[s] = request[s]
        BY <2>1, <4>1 DEF Start, At, Update, RunsTypeOK
      <4>3. QED
        BY <4>2 DEF At
    <3>4. CASE UNCHANGED <<request, calls>>
      BY <3>4
    <3>5. QED
      BY <3>1, <3>2, <3>3, <3>4 DEF RunsNext, RuntimeChanges, PoolChanges, LinkChanges, Reload
  <2>7. QED
    BY <2>4, <2>5, <2>6 DEF RequestsGetOnStep
<1>2. QED
  BY <1>1, RunsInvariance, PTL DEF RunsSpec, RequestsGetOn

-----------------------------------------------------------------------------
(* What is shown                                                             *)

\* Every variable keeps its type: no request is in a phase the handlers do not know, and no
\* gauge goes below zero, for a handler that returns is counted.
THEOREM RunsTypeCorrect == RunsSpec => []RunsTypeOK
<1>1. RunsInv => RunsTypeOK
  BY DEF RunsInv
<1>2. QED
  BY <1>1, RunsInvariance, PTL

\* A request is passed on once at most: whoever was asked for an answer is the daemon of the
\* client or the one target it gave the request, whatever paths failed before, and whatever
\* calls are still under way.
THEOREM OnlyTheTargetIsAsked == RunsSpec => []AskedWhereSent
<1>1. RunsInv => AskedWhereSent
  BY DEF RunsInv, Aiming
<1>2. QED
  BY <1>1, RunsInvariance, PTL

\* No client is told that its request failed on the word of a peer: a runtime of the daemon's
\* own machine was asked first.
THEOREM FailureIsOnesOwn == RunsSpec => []RefusedOnlyByItself
<1>1. RunsInv => RefusedOnlyByItself
  BY DEF RunsInv, Aiming
<1>2. QED
  BY <1>1, RunsInvariance, PTL

\* However many requests share the router, and however long the list, no target is ahead of
\* another by more than one turn until the list is replaced.
THEOREM TurnsStayEven == RunsSpec => []TurnsAreEven
<1>1. RunsInv => TurnsAreEven
  BY RoundIsEven DEF RunsInv
<1>2. QED
  BY <1>1, RunsInvariance, PTL

-----------------------------------------------------------------------------
(* ModelRuntime: what holds of the runtime and its supervisors               *)

\* A supervisor asks /health only while it has budget left for the answer.
AsksWithinBudget == \A l \in Loads : supervisor[l] = "get" => polls[l] < MaxPolls

Shape == TypeOK /\ AsksWithinBudget

\* A file that a delete has checked, and that is loaded all the same, was loaded since.
DeletesAreOvertaken == \A f \in deleting : Loaded(f) => f \in overtaken

RuntimeInv ==
  /\ Shape
  /\ OwnedServerIsShown
  /\ StartingIsWatched
  /\ DeletesAreOvertaken

USE DEF runtime, loads, watch, deletes, NoChild, Become, SupervisorGoto

-----------------------------------------------------------------------------
(* Types                                                                     *)

\* The variables have their types at boot.
LEMMA ShapeInit == Init => Shape
<1> SUFFICES ASSUME Init
             PROVE  Shape
  OBVIOUS
<1>1. exited \in BOOLEAN
  BY Zenon DEF Init
<1>2. QED
  BY <1>1, MaxPollsIsNat DEF Init, Shape, TypeOK, AsksWithinBudget, RuntimeStates

\* Every critical section of the runtime keeps the types.
LEMMA ShapeStep == Shape /\ [Next]_vars => Shape'
<1> SUFFICES ASSUME Shape, [Next]_vars
             PROVE  Shape'
  OBVIOUS
<1> USE MaxPollsIsNat, FilesAssumption DEF Shape, TypeOK, AsksWithinBudget, RuntimeStates
<1>1. ASSUME NEW l \in Loads, NEW f \in Files, LoadResolve(l, f) PROVE Shape'
  BY <1>1 DEF LoadResolve
<1>2. ASSUME NEW l \in Loads, LoadSpawn(l) PROVE Shape'
  <2>1. exited' \in BOOLEAN
    BY <1>2, Zenon DEF LoadSpawn
  <2>2. target[l] \in Files \union {None}
    OBVIOUS
  <2>3. QED
    BY <1>2, <2>1, <2>2 DEF LoadSpawn
<1>3. ASSUME NEW l \in Loads, LoadEndsEarly(l) PROVE Shape'
  BY <1>3 DEF LoadEndsEarly
<1>4. ASSUME NEW l \in Loads, Supervise(l) PROVE Shape'
  <2>1. CASE SupervisorStandsDown(l)
    BY <2>1 DEF SupervisorStandsDown
  <2>2. CASE SupervisorSeesExit(l)
    BY <2>2 DEF SupervisorSeesExit
  <2>3. CASE SupervisorExpires(l)
    BY <2>3 DEF SupervisorExpires
  <2>4. CASE SupervisorPolls(l)
    BY <2>4 DEF SupervisorPolls
  <2>5. CASE SupervisorUnanswered(l)
    BY <2>5 DEF SupervisorUnanswered
  <2>6. CASE SupervisorAnswered(l)
    BY <2>6 DEF SupervisorAnswered
  <2>7. QED
    BY <1>4, <2>1, <2>2, <2>3, <2>4, <2>5, <2>6 DEF Supervise
<1>5. CASE Unload \/ UnloadDropped \/ Snapshot \/ ServerExits
  BY <1>5 DEF Unload, UnloadDropped, Snapshot, ServerExits
<1>6. ASSUME NEW f \in Files, DeleteCheck(f) \/ DeleteRemove(f) \/ Downloaded(f) PROVE Shape'
  BY <1>6 DEF DeleteCheck, DeleteRemove, Downloaded
<1>7. CASE UNCHANGED vars
  BY <1>7 DEF vars
<1>8. QED
  BY <1>1, <1>2, <1>3, <1>4, <1>5, <1>6, <1>7 DEF Next

\* Every variable keeps its shape, and no supervisor overdraws its health budget, for
\* every number of loads and every budget.
THEOREM TypeCorrect == Spec => []TypeOK
<1>1. Shape => TypeOK
  BY DEF Shape
<1>2. QED
  BY <1>1, ShapeInit, ShapeStep, PTL DEF Spec

-----------------------------------------------------------------------------
(* What the state says of the child                                          *)

\* No step hides a llama-server the runtime owns behind Idle or Failed.
LEMMA ShownStep == Shape /\ OwnedServerIsShown /\ [Next]_vars => OwnedServerIsShown'
<1> SUFFICES ASSUME Shape, OwnedServerIsShown, [Next]_vars
             PROVE  OwnedServerIsShown'
  OBVIOUS
<1> USE DEF OwnedServerIsShown
<1>1. ASSUME NEW l \in Loads, NEW f \in Files, LoadResolve(l, f) PROVE OwnedServerIsShown'
  BY <1>1 DEF LoadResolve
<1>2. ASSUME NEW l \in Loads, LoadSpawn(l) PROVE OwnedServerIsShown'
  BY <1>2 DEF LoadSpawn
<1>3. ASSUME NEW l \in Loads, LoadEndsEarly(l) PROVE OwnedServerIsShown'
  BY <1>3 DEF LoadEndsEarly
<1>4. ASSUME NEW l \in Loads, Supervise(l) PROVE OwnedServerIsShown'
  BY <1>4 DEF Supervise, SupervisorStandsDown, SupervisorSeesExit, SupervisorExpires,
              SupervisorPolls, SupervisorUnanswered, SupervisorAnswered, StillOurs
<1>5. CASE Unload \/ UnloadDropped \/ Snapshot \/ ServerExits
  BY <1>5 DEF Unload, UnloadDropped, Snapshot, ServerExits
<1>6. ASSUME NEW f \in Files, DeleteCheck(f) \/ DeleteRemove(f) \/ Downloaded(f)
      PROVE  OwnedServerIsShown'
  BY <1>6 DEF DeleteCheck, DeleteRemove, Downloaded
<1>7. CASE UNCHANGED vars
  BY <1>7 DEF vars
<1>8. QED
  BY <1>1, <1>2, <1>3, <1>4, <1>5, <1>6, <1>7 DEF Next

\* No step leaves Starting without a supervisor of that file that will end it.
LEMMA WatchedStep == Shape /\ StartingIsWatched /\ [Next]_vars => StartingIsWatched'
<1> SUFFICES ASSUME Shape, StartingIsWatched, [Next]_vars, state' = "Starting"
             PROVE  \E w \in Loads : supervisor'[w] # "off" /\ target'[w] = model'
  BY DEF StartingIsWatched
<1>1. ASSUME NEW l \in Loads, LoadSpawn(l)
      PROVE  \E w \in Loads : supervisor'[w] # "off" /\ target'[w] = model'
  BY <1>1 DEF LoadSpawn, Shape, TypeOK
<1>2. CASE \A l \in Loads : ~LoadSpawn(l)
  \* No other step makes the runtime Starting, so it has a supervisor, and loses it only
  \* if that supervisor finds that the load is not its own, or makes the runtime Running.
  <2>1. state = "Starting" /\ model' = model
    BY <1>2 DEF Next, vars, LoadResolve, LoadEndsEarly, Supervise, SupervisorStandsDown,
                SupervisorSeesExit, SupervisorExpires, SupervisorPolls,
                SupervisorUnanswered, SupervisorAnswered, Unload, UnloadDropped, Snapshot,
                ServerExits, DeleteCheck, DeleteRemove, Downloaded
  <2>2. PICK w \in Loads : supervisor[w] # "off" /\ target[w] = model
    BY <2>1 DEF StartingIsWatched
  <2>3. supervisor'[w] # "off" /\ target'[w] = target[w]
    <3>1. ASSUME NEW l \in Loads, NEW f \in Files, LoadResolve(l, f)
          PROVE  supervisor'[w] # "off" /\ target'[w] = target[w]
      BY <3>1, <2>2 DEF LoadResolve, Shape, TypeOK
    <3>2. ASSUME NEW l \in Loads, LoadEndsEarly(l)
          PROVE  supervisor'[w] # "off" /\ target'[w] = target[w]
      BY <3>2, <2>2 DEF LoadEndsEarly
    <3>3. ASSUME NEW l \in Loads, Supervise(l)
          PROVE  supervisor'[w] # "off" /\ target'[w] = target[w]
      BY <3>3, <2>1, <2>2
         DEF Supervise, SupervisorStandsDown, SupervisorSeesExit, SupervisorExpires,
             SupervisorPolls, SupervisorUnanswered, SupervisorAnswered, StillOurs,
             Shape, TypeOK
    <3>4. CASE Unload \/ UnloadDropped \/ Snapshot \/ ServerExits
      BY <3>4, <2>2 DEF Unload, UnloadDropped, Snapshot, ServerExits
    <3>5. ASSUME NEW f \in Files, DeleteCheck(f) \/ DeleteRemove(f) \/ Downloaded(f)
          PROVE  supervisor'[w] # "off" /\ target'[w] = target[w]
      BY <3>5, <2>2 DEF DeleteCheck, DeleteRemove, Downloaded
    <3>6. CASE UNCHANGED vars
      BY <3>6, <2>2 DEF vars
    <3>7. QED
      BY <1>2, <3>1, <3>2, <3>3, <3>4, <3>5, <3>6 DEF Next
  <2>4. QED
    BY <2>1, <2>2, <2>3
<1>3. QED
  BY <1>1, <1>2

\* A file is loaded between the check of its delete and the removal only by a load that
\* started after the check.
LEMMA DeletesStep == Shape /\ DeletesAreOvertaken /\ [Next]_vars => DeletesAreOvertaken'
<1> SUFFICES ASSUME Shape, DeletesAreOvertaken, [Next]_vars
             PROVE  DeletesAreOvertaken'
  OBVIOUS
<1> USE DEF DeletesAreOvertaken, Loaded
<1>1. ASSUME NEW l \in Loads, NEW f \in Files, LoadResolve(l, f) PROVE DeletesAreOvertaken'
  BY <1>1 DEF LoadResolve
<1>2. ASSUME NEW l \in Loads, LoadSpawn(l) PROVE DeletesAreOvertaken'
  BY <1>2 DEF LoadSpawn
<1>3. ASSUME NEW l \in Loads, LoadEndsEarly(l) PROVE DeletesAreOvertaken'
  BY <1>3 DEF LoadEndsEarly
<1>4. ASSUME NEW l \in Loads, Supervise(l) PROVE DeletesAreOvertaken'
  BY <1>4 DEF Supervise, SupervisorStandsDown, SupervisorSeesExit, SupervisorExpires,
              SupervisorPolls, SupervisorUnanswered, SupervisorAnswered, StillOurs
<1>5. CASE Unload \/ UnloadDropped \/ Snapshot \/ ServerExits
  BY <1>5 DEF Unload, UnloadDropped, Snapshot, ServerExits
<1>6. ASSUME NEW f \in Files, DeleteCheck(f) \/ DeleteRemove(f) \/ Downloaded(f)
      PROVE  DeletesAreOvertaken'
  BY <1>6 DEF DeleteCheck, DeleteRemove, Downloaded
<1>7. CASE UNCHANGED vars
  BY <1>7 DEF vars
<1>8. QED
  BY <1>1, <1>2, <1>3, <1>4, <1>5, <1>6, <1>7 DEF Next

\* The inductive invariant of the runtime, from which its theorems follow.
LEMMA RuntimeInvariant == Spec => []RuntimeInv
<1>1. Init => RuntimeInv
  BY ShapeInit
     DEF Init, RuntimeInv, OwnedServerIsShown, StartingIsWatched, DeletesAreOvertaken
<1>2. RuntimeInv /\ [Next]_vars => RuntimeInv'
  BY ShapeStep, ShownStep, WatchedStep, DeletesStep DEF RuntimeInv
<1>3. QED
  BY <1>1, <1>2, PTL DEF Spec

\* The manager never owns a llama-server that it shows as Idle or Failed, or with another
\* file than the one that server was started on.
THEOREM OwnedServersAreShown == Spec => []OwnedServerIsShown
<1>1. RuntimeInv => OwnedServerIsShown
  BY DEF RuntimeInv
<1>2. QED
  BY <1>1, RuntimeInvariant, PTL

\* A Starting runtime always has a supervisor that takes it for its own, so it does not
\* depend on the user to leave that state.
THEOREM StartingStaysWatched == Spec => []StartingIsWatched
<1>1. RuntimeInv => StartingIsWatched
  BY DEF RuntimeInv
<1>2. QED
  BY <1>1, RuntimeInvariant, PTL

\* Whatever supervisors of earlier loads are still polling, only a load leads out of Idle
\* or Failed.
THEOREM OnlyLoadsRevive == Spec => NothingRevives
<1> DEFINE Quiet == state \in {"Idle", "Failed"}
           Step  == Quiet => state' \in {"Idle", "Failed", "Starting"}
<1>1. RuntimeInv /\ [Next]_vars => Step
  BY DEF Next, vars, LoadResolve, LoadSpawn, LoadEndsEarly, Supervise, SupervisorStandsDown,
         SupervisorSeesExit, SupervisorExpires, SupervisorPolls, SupervisorUnanswered,
         SupervisorAnswered, StillOurs, Unload, UnloadDropped, Snapshot, ServerExits,
         DeleteCheck, DeleteRemove, Downloaded
<1>2. RuntimeInv /\ [Next]_vars => [Step]_vars
  BY <1>1
<1>3. QED
  BY <1>2, RuntimeInvariant, PTL DEF Spec, NothingRevives

\* delete never removes the file of a loaded model, except when the load came in between
\* its check and the removal.
THEOREM DeletesSpareLoaded == Spec => DeleteSparesLoaded
<1> DEFINE Step == \A f \in library \ library' : Loaded(f) => f \in overtaken
<1>1. RuntimeInv /\ [Next]_vars => Step
  BY DEF Next, vars, LoadResolve, LoadSpawn, LoadEndsEarly, Supervise, SupervisorStandsDown,
         SupervisorSeesExit, SupervisorExpires, SupervisorPolls, SupervisorUnanswered,
         SupervisorAnswered, Unload, UnloadDropped, Snapshot, ServerExits,
         DeleteCheck, DeleteRemove, Downloaded, RuntimeInv, DeletesAreOvertaken
<1>2. RuntimeInv /\ [Next]_vars => [Step]_vars
  BY <1>1
<1>3. QED
  BY <1>2, RuntimeInvariant, PTL DEF Spec, DeleteSparesLoaded

\* A supervisor that takes what is Starting for its own load.
Watches(l) == supervisor[l] # "off" /\ StillOurs(l)

\* How many iterations its budget leaves it, each of them in two halves.
PollsLeft(l) == 2 * (MaxPolls - polls[l]) + (IF supervisor[l] = "check" THEN 1 ELSE 0)

\* While a load is Starting, a supervisor that watches it goes on to watch it, nothing gives
\* it more time, and each step of its own takes some of what it has.
StartingGetsOnStep ==
  \A l \in Loads : Watches(l) =>
    \/ state' # "Starting" \/ model' # model
    \/ /\ Watches(l)'
       /\ \/ UNCHANGED <<supervisor[l], polls[l]>> /\ ~Supervise(l)
          \/ PollsLeft(l)' < PollsLeft(l)

StartingGetsOn == [][StartingGetsOnStep]_vars

\* A load whose handler is at work has no supervisor yet.
HandlersComeFirst == \A l \in Loads : loader[l] = "resolved" => supervisor[l] = "off"

\* Handler and supervisor of a load follow each other.
LEMMA FirstHandlers == Shape /\ HandlersComeFirst /\ [Next]_vars => HandlersComeFirst'
<1> SUFFICES ASSUME Shape, HandlersComeFirst, [Next]_vars
             PROVE  HandlersComeFirst'
  OBVIOUS
<1> USE DEF HandlersComeFirst, Shape, TypeOK
<1>1. ASSUME NEW l \in Loads, NEW f \in Files, LoadResolve(l, f) PROVE HandlersComeFirst'
  BY <1>1 DEF LoadResolve
<1>2. ASSUME NEW l \in Loads, LoadSpawn(l) PROVE HandlersComeFirst'
  BY <1>2 DEF LoadSpawn
<1>3. ASSUME NEW l \in Loads, LoadEndsEarly(l) PROVE HandlersComeFirst'
  BY <1>3 DEF LoadEndsEarly
<1>4. ASSUME NEW l \in Loads, Supervise(l) PROVE HandlersComeFirst'
  BY <1>4 DEF Supervise, SupervisorStandsDown, SupervisorSeesExit, SupervisorExpires,
              SupervisorPolls, SupervisorUnanswered, SupervisorAnswered
<1>5. CASE Unload \/ UnloadDropped \/ Snapshot \/ ServerExits
  BY <1>5 DEF Unload, UnloadDropped, Snapshot, ServerExits
<1>6. ASSUME NEW f \in Files, DeleteCheck(f) \/ DeleteRemove(f) \/ Downloaded(f)
      PROVE  HandlersComeFirst'
  BY <1>6 DEF DeleteCheck, DeleteRemove, Downloaded
<1>7. CASE UNCHANGED vars
  BY <1>7 DEF vars
<1>8. QED
  BY <1>1, <1>2, <1>3, <1>4, <1>5, <1>6, <1>7 DEF Next

\* A load that is Starting is watched by a supervisor whose budget only shrinks, however often
\* its file is loaded again and whatever handlers are abandoned: what StartingEnds needs
\* besides fairness.
THEOREM StartingComesToAnEnd == Spec => StartingGetsOn
<1>1. Shape /\ HandlersComeFirst /\ Next => StartingGetsOnStep
  <2> SUFFICES ASSUME Shape, HandlersComeFirst, Next,
                      NEW l \in Loads, Watches(l), state' = "Starting", model' = model
               PROVE  /\ Watches(l)'
                      /\ \/ UNCHANGED <<supervisor[l], polls[l]>> /\ ~Supervise(l)
                         \/ PollsLeft(l)' < PollsLeft(l)
    BY DEF StartingGetsOnStep
  <2>1. /\ supervisor[l] \in {"check", "get"} /\ supervisor \in [Loads -> {"off", "check", "get"}]
        /\ polls[l] \in 0 .. MaxPolls /\ polls \in [Loads -> 0 .. MaxPolls] /\ MaxPolls \in Nat
        /\ state = "Starting" /\ model = target[l] /\ loader[l] # "resolved"
        /\ target \in [Loads -> Files \union {None}]
    BY MaxPollsIsNat DEF Watches, StillOurs, Shape, TypeOK, HandlersComeFirst
  <2>2. ASSUME supervisor'[l] = supervisor[l], polls'[l] = polls[l], target'[l] = target[l]
        PROVE  /\ Watches(l)' /\ UNCHANGED <<supervisor[l], polls[l]>>
               /\ ~Supervise(l)
    <3>1. Watches(l)' /\ UNCHANGED <<supervisor[l], polls[l]>>
      BY <2>1, <2>2 DEF Watches, StillOurs
    <3>2. ASSUME Supervise(l) PROVE supervisor'[l] # supervisor[l]
      BY <2>1, <3>2 DEF Supervise, SupervisorStandsDown, SupervisorSeesExit, SupervisorExpires,
                        SupervisorPolls, SupervisorUnanswered, SupervisorAnswered, StillOurs
    <3>3. QED
      BY <2>2, <3>1, <3>2
  <2>3. ASSUME Supervise(l)
        PROVE  Watches(l)' /\ PollsLeft(l)' < PollsLeft(l)
    <3>1. CASE SupervisorPolls(l)
      BY <2>1, <3>1 DEF SupervisorPolls, Watches, StillOurs, PollsLeft
    <3>2. CASE SupervisorUnanswered(l)
      BY <2>1, <3>2 DEF SupervisorUnanswered, Watches, StillOurs, PollsLeft, Shape, AsksWithinBudget
    <3>3. ~SupervisorStandsDown(l) /\ ~SupervisorSeesExit(l) /\ ~SupervisorExpires(l) /\ ~SupervisorAnswered(l)
      BY <2>1 DEF SupervisorStandsDown, SupervisorSeesExit, SupervisorExpires, SupervisorAnswered, StillOurs
    <3>4. QED
      BY <2>3, <3>1, <3>2, <3>3 DEF Supervise
  <2>4. ASSUME NEW k \in Loads, k # l,
               LoadSpawn(k) \/ LoadEndsEarly(k) \/ Supervise(k) \/ \E f \in Files : LoadResolve(k, f)
        PROVE  supervisor'[l] = supervisor[l] /\ polls'[l] = polls[l] /\ target'[l] = target[l]
    BY <2>1, <2>4 DEF LoadSpawn, LoadEndsEarly, LoadResolve, Supervise, SupervisorStandsDown,
                      SupervisorSeesExit, SupervisorExpires, SupervisorPolls,
                      SupervisorUnanswered, SupervisorAnswered
  <2>5. ~LoadSpawn(l) /\ ~LoadEndsEarly(l) /\ \A f \in Files : ~LoadResolve(l, f)
    BY <2>1 DEF LoadSpawn, LoadEndsEarly, LoadResolve
  <2>6. ASSUME \/ Unload \/ UnloadDropped \/ Snapshot \/ ServerExits
               \/ \E f \in Files : DeleteCheck(f) \/ DeleteRemove(f) \/ Downloaded(f)
        PROVE  supervisor'[l] = supervisor[l] /\ polls'[l] = polls[l] /\ target'[l] = target[l]
    BY <2>6 DEF Unload, UnloadDropped, Snapshot, ServerExits, DeleteCheck, DeleteRemove, Downloaded
  <2>7. QED
    BY <2>2, <2>3, <2>4, <2>5, <2>6 DEF Next
<1>2. Init => HandlersComeFirst
  BY DEF Init, HandlersComeFirst
<1>3. RuntimeInv => Shape
  BY DEF RuntimeInv
<1>4. QED
  BY <1>1, <1>2, <1>3, FirstHandlers, RuntimeInvariant, PTL DEF Spec, StartingGetsOn
=============================================================================
