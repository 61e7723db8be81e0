-------------------------- MODULE RelayCallsProofs --------------------------
(****************************************************************************)
(* Theorems about RelayCalls, for every number of calls and of chunks.      *)
(*                                                                          *)
(* The invariant follows one call from end to end.  Between the chunks the  *)
(* caller has got, the messages in down, those in up and the count of the   *)
(* forwarder nothing is missing -- as long as the caller's entry is in      *)
(* pending and the parts of the way that are counted are connected.  What   *)
(* makes it hold across sessions: an entry that is in pending while the     *)
(* client is off belongs to a call that never left (NotAskedWhenOff).       *)
(****************************************************************************)
EXTENDS RelayCalls, TLAPS

\* Nothing of the call has left, or is on its way.
Quiet(c) ==
  /\ ask[c] = "none" /\ server[c] = "none"
  /\ up[c] = << >> /\ down[c] = << >> /\ got[c] = << >>

\* Where the caller is tells what can be in pending and on the way.
CallerPart(c) ==
  /\ caller[c] \in {"new", "cloned"} => c \notin pending /\ outcome[c] = "none"
  /\ caller[c] \in {"new", "cloned", "inserted"} => Quiet(c)
  /\ caller[c] \in {"inserted", "waiting"} /\ outcome[c] = "none" => c \in pending
  /\ c \in pending => outcome[c] = "none"
  /\ handle[c] = "live" => client["asking"] = "on"

\* The forwarder exists once the request has arrived, and what it sends is numbered.
ServerPart(c) ==
  /\ server[c] = "none" => up[c] = << >> /\ down[c] = << >> /\ got[c] = << >> /\ sent[c] = 0
  /\ server[c] = "none" <=> answer[c] = NoAnswer
  /\ ask[c] # "none" => server[c] = "none"
  /\ ask[c] = "down" => client["asked"] = "on"
  /\ server[c] = "live" => client["asked"] = "on" /\ sent[c] < Last(c)
  /\ \A i \in 1 .. Len(up[c]) : up[c][i] \in 1 .. Last(c)
  /\ \A i \in 1 .. Len(down[c]) : down[c][i] \in 1 .. Last(c)

NotAskedWhenOff(c) == client["asking"] = "off" /\ c \in pending => Quiet(c)

\* Nothing is missing on the connected part of the way.
DownInOrder(c) ==
  c \in pending => \A i \in 1 .. Len(down[c]) : down[c][i] = Len(got[c]) + i

UpInOrder(c) ==
  c \in pending /\ RelayReaches("asking") =>
    \A i \in 1 .. Len(up[c]) : up[c][i] = Len(got[c]) + Len(down[c]) + i

NoneLost(c) ==
  c \in pending /\ RelayReaches("asking") /\ session["asked"] /\ server[c] = "live" =>
    sent[c] = Len(got[c]) + Len(down[c]) + Len(up[c])

Gapless(c) == DownInOrder(c) /\ UpInOrder(c) /\ NoneLost(c)

CallInv(c) == CallerPart(c) /\ ServerPart(c) /\ NotAskedWhenOff(c) /\ Gapless(c)

Inv == TypeOK /\ \A c \in Calls : CallInv(c)

-----------------------------------------------------------------------------
(* Typing                                                                    *)

\* An answer has an ending exactly when there is one.
LEMMA AnswersAreTyped ==
  \A a \in Answers \union {NoAnswer} :
    a.chunks \in Nat /\ (a.last # "none" <=> a # NoAnswer) /\ a.last \in {"none", "end", "error"}
BY MaxChunksIsNat DEF Answers, NoAnswer

\* What ClientEnds and RelayDrops leave of the queues of a lost socket.
LEMMA EmptyQueues == [c \in Calls |-> << >>] \in [Calls -> Seq(Nat)]
<1>1. << >> \in Seq(Nat)
  OBVIOUS
<1> QED BY <1>1

\* The invariant holds before any daemon has connected.
LEMMA InitInv == Init => Inv
<1> SUFFICES ASSUME Init PROVE Inv  OBVIOUS
<1>1. TypeOK
  BY DEF Init, TypeOK, Last, NoAnswer, Daemons
<1>2. ASSUME NEW c \in Calls PROVE CallInv(c)
  BY <1>2 DEF Init, CallInv, CallerPart, ServerPart, NotAskedWhenOff, Gapless, DownInOrder,
             UpInOrder, NoneLost, Quiet, NoAnswer
<1> QED BY <1>1, <1>2 DEF Inv

\* Every action keeps the shape of the variables.
LEMMA NextTyped ==
  ASSUME Inv, [Next]_vars
  PROVE  TypeOK'
<1> USE AnswersAreTyped DEF TypeOK, links, callers, servers, queues, received, Daemons
<1>0. TypeOK
  BY DEF Inv
<1>1. ASSUME NEW d \in Daemons, Connect(d) PROVE TypeOK'
  BY <1>0, <1>1 DEF Connect, Last
<1>2. ASSUME NEW d \in Daemons, RelayDrops(d) PROVE TypeOK'
  <2>1. session' \in [Daemons -> BOOLEAN]
    BY <1>0, <1>2 DEF RelayDrops
  <2>2. ask' \in [Calls -> {"none", "up", "down"}]
    BY <1>0, <1>2 DEF RelayDrops
  <2>3. up' = up \/ up' = [c \in Calls |-> << >>]
    BY <1>2 DEF RelayDrops
  <2>4. up' \in [Calls -> Seq(Nat)]
    BY <1>0, <2>3, EmptyQueues
  <2> QED BY <1>0, <1>2, <2>1, <2>2, <2>4 DEF RelayDrops, Last
<1>3. ASSUME NEW d \in Daemons, ClientEnds(d) PROVE TypeOK'
  <2>1. client' \in [Daemons -> {"off", "on", "ended", "cleared"}]
    BY <1>0, <1>3 DEF ClientEnds
  <2>2. /\ handle' \in [Calls -> {"none", "live", "stale"}]
        /\ server' \in [Calls -> {"none", "live", "stale", "over"}]
        /\ ask' \in [Calls -> {"none", "up", "down"}]
    BY <1>0, <1>3 DEF ClientEnds
  <2>3. down' = down \/ down' = [c \in Calls |-> << >>]
    BY <1>3 DEF ClientEnds
  <2>4. down' \in [Calls -> Seq(Nat)]
    BY <1>0, <2>3, EmptyQueues
  <2> QED BY <1>0, <1>3, <2>1, <2>2, <2>4 DEF ClientEnds, Last
<1>4. ASSUME NEW d \in Daemons, ClearSlot(d) PROVE TypeOK'
  BY <1>0, <1>4 DEF ClearSlot, Last
<1>5. ASSUME NEW d \in Daemons, Drain(d) PROVE TypeOK'
  BY <1>0, <1>5 DEF Drain, Last
<1>6. ASSUME NEW c \in Calls, CloneHandle(c) PROVE TypeOK'
  BY <1>0, <1>6 DEF CloneHandle, Last
<1>7. ASSUME NEW c \in Calls, Insert(c) PROVE TypeOK'
  BY <1>0, <1>7 DEF Insert, Last
<1>8. ASSUME NEW c \in Calls, Send(c) PROVE TypeOK'
  BY <1>0, <1>8 DEF Send, Last
<1>9. ASSUME NEW c \in Calls, SendStale(c) PROVE TypeOK'
  BY <1>0, <1>9 DEF SendStale, Last
<1>10. ASSUME NEW c \in Calls, ForwardAsk(c) PROVE TypeOK'
  BY <1>0, <1>10 DEF ForwardAsk, Last
<1>11. ASSUME NEW c \in Calls, ForwardAnswer(c) PROVE TypeOK'
  <2>1. Tail(up[c]) \in Seq(Nat) /\ Head(up[c]) \in Nat
    BY <1>0, <1>11 DEF ForwardAnswer
  <2>2. Append(down[c], Head(up[c])) \in Seq(Nat)
    BY <1>0, <2>1
  <2> QED BY <1>0, <1>11, <2>1, <2>2 DEF ForwardAnswer, Last
<1>12. ASSUME NEW c \in Calls, Serve(c) PROVE TypeOK'
  <2>1. server[c] = "none" /\ sent[c] = 0
    BY <1>12 DEF Serve, Inv, CallInv, ServerPart
  <2> QED BY <1>0, <1>12, <2>1 DEF Serve, Last
<1>13. ASSUME NEW c \in Calls, Answer(c) PROVE TypeOK'
  <2>1. sent[c] < Last(c) /\ Last(c) \in Nat
    BY SMTT(30), <1>0, <1>13 DEF Answer, Inv, CallInv, ServerPart, Last
  <2>2. Append(up[c], sent[c] + 1) \in Seq(Nat)
    BY <1>0
  <2> QED BY SMTT(30), <1>0, <1>13, <2>1, <2>2 DEF Answer, Last
<1>14. ASSUME NEW c \in Calls, AnswerStale(c) PROVE TypeOK'
  BY <1>0, <1>14 DEF AnswerStale, Last
<1>15. ASSUME NEW c \in Calls, Receive(c) PROVE TypeOK'
  <2>1. Tail(down[c]) \in Seq(Nat) /\ Head(down[c]) \in Nat
    BY <1>0, <1>15 DEF Receive
  <2>2. Append(got[c], Head(down[c])) \in Seq(Nat)
    BY <1>0, <2>1
  <2>3. answer[c].last \in {"none", "end", "error"}
    BY <1>0
  <2> QED BY ZenonT(60), <1>0, <1>15, <2>1, <2>2, <2>3 DEF Receive, Last
<1>16. CASE UNCHANGED vars
  BY <1>0, <1>16 DEF vars, Last
<1> QED
  BY <1>1, <1>2, <1>3, <1>4, <1>5, <1>6, <1>7, <1>8, <1>9, <1>10, <1>11, <1>12, <1>13, <1>14,
     <1>15, <1>16 DEF Next

-----------------------------------------------------------------------------
(* The invariant of a call                                                   *)

\* A step that touches neither the links nor anything of call c keeps its invariant.
LEMMA Untouched ==
  ASSUME NEW c \in Calls, CallInv(c), UNCHANGED links,
         UNCHANGED <<caller[c], handle[c], server[c], sent[c], answer[c]>>,
         UNCHANGED <<ask[c], up[c], down[c], got[c], outcome[c]>>,
         (c \in pending) <=> (c \in pending')
  PROVE  CallInv(c)'
<1> USE DEF CallInv, links
<1>1. CallerPart(c)' /\ NotAskedWhenOff(c)'
  BY DEF CallerPart, NotAskedWhenOff, Quiet
<1>2. ServerPart(c)'
  BY DEF ServerPart, Last
<1>3. Gapless(c)'
  BY DEF Gapless, DownInOrder, UpInOrder, NoneLost, RelayReaches
<1> QED BY <1>1, <1>2, <1>3

\* A call of which nothing has left, or nobody waits for, has no gap.
LEMMA NothingToMiss ==
  ASSUME NEW c \in Calls, (c \notin pending \/ Quiet(c))'
  PROVE  Gapless(c)'
<1>1. CASE c \notin pending'
  BY <1>1 DEF Gapless, DownInOrder, UpInOrder, NoneLost
<1>2. CASE Quiet(c)'
  <2>1. Len(up'[c]) = 0 /\ Len(down'[c]) = 0 /\ server'[c] # "live"
    BY <1>2 DEF Quiet
  <2> QED BY <2>1 DEF Gapless, DownInOrder, UpInOrder, NoneLost
<1> QED BY <1>1, <1>2

\* A step that changes no queue and connects nothing opens no gap.
LEMMA StillGapless ==
  ASSUME NEW c \in Calls, Gapless(c),
         UNCHANGED <<up[c], down[c], got[c], sent[c]>>,
         c \in pending' => c \in pending,
         RelayReaches("asking")' => RelayReaches("asking"),
         RelayReaches("asking")' /\ session'["asked"] /\ server'[c] = "live" =>
           session["asked"] /\ server[c] = "live"
  PROVE  Gapless(c)'
BY DEF Gapless, DownInOrder, UpInOrder, NoneLost

\* The positions of a message before and after it moves one queue further.
LEMMA Sums ==
  \A g, d, n \in Nat :
    /\ (g + d) + 1 = g + (d + 1)
    /\ (g + d) + (n + 1) = (g + (d + 1)) + n
    /\ (g + d) + n = (g + (d + 1)) + (n - 1)
    /\ ((g + d) + n) + 1 = (g + d) + (n + 1)
    /\ g + (n + 1) = (g + 1) + n
    /\ g + d = (g + 1) + (d - 1)
OBVIOUS

\* Every action keeps the invariant of every call.
LEMMA NextCallInv ==
  ASSUME Inv, [Next]_vars, NEW c \in Calls
  PROVE  CallInv(c)'
<1> USE DEF links, callers, servers, queues, received
<1>0. TypeOK /\ CallInv(c) /\ TypeOK'
  BY NextTyped DEF Inv
<1>1. ASSUME NEW d \in Daemons, Connect(d) PROVE CallInv(c)'
  <2>1. UNCHANGED <<caller[c], handle[c], server[c], sent[c], answer[c]>>
    BY <1>1 DEF Connect
  <2>2. UNCHANGED <<ask[c], up[c], down[c], got[c], outcome[c]>> /\ pending' = pending
    BY <1>1 DEF Connect
  <2>3. CallerPart(c)' /\ ServerPart(c)' /\ NotAskedWhenOff(c)'
    BY <1>0, <1>1, <2>1, <2>2
    DEF Connect, CallInv, CallerPart, ServerPart, NotAskedWhenOff, Quiet, Last, TypeOK, Daemons
  <2>4. Gapless(c)'
    <3>1. CASE d = "asking"
      <4>1. c \in pending => Quiet(c)
        BY <1>0, <1>1, <3>1 DEF Connect, CallInv, NotAskedWhenOff
      <4>2. (c \notin pending \/ Quiet(c))'
        BY <2>1, <2>2, <4>1 DEF Quiet
      <4> QED BY <4>2, NothingToMiss
    <3>2. CASE d = "asked"
      <4>1. server[c] # "live"
        BY <1>0, <1>1, <3>2 DEF Connect, CallInv, ServerPart
      <4>2. RelayReaches("asking")' <=> RelayReaches("asking")
        BY <1>0, <1>1, <3>2 DEF Connect, RelayReaches, TypeOK, Daemons
      <4> QED BY <1>0, <2>1, <2>2, <4>1, <4>2 DEF Gapless, DownInOrder, UpInOrder, NoneLost,
          CallInv
    <3> QED BY <3>1, <3>2 DEF Daemons
  <2> QED BY <2>3, <2>4 DEF CallInv
<1>2. ASSUME NEW d \in Daemons, RelayDrops(d) PROVE CallInv(c)'
  <2>1. UNCHANGED <<caller[c], handle[c], server[c], sent[c], answer[c]>>
    BY <1>2 DEF RelayDrops
  <2>2. UNCHANGED <<client, pending, down[c], got[c], outcome[c]>>
    BY <1>2 DEF RelayDrops
  <2>3. /\ ask'[c] = ask[c] \/ ask'[c] = "none"
        /\ \/ up'[c] = up[c] /\ (d # "asking" => up'[c] = << >>)
           \/ up'[c] = << >>
    BY <1>0, <1>2 DEF RelayDrops, TypeOK
  <2>4. CallerPart(c)' /\ ServerPart(c)' /\ NotAskedWhenOff(c)'
    BY <1>0, <2>1, <2>2, <2>3
    DEF CallInv, CallerPart, ServerPart, NotAskedWhenOff, Quiet, Last
  <2>5. Gapless(c)'
    <3>1. CASE d = "asking"
      <4>1. ~RelayReaches("asking")'
        BY <1>0, <1>2, <3>1 DEF RelayDrops, RelayReaches, TypeOK, Daemons
      <4> QED BY <1>0, <2>2, <4>1 DEF Gapless, DownInOrder, UpInOrder, NoneLost, CallInv
    <3>2. CASE d = "asked"
      <4>1. up'[c] = << >>
        BY <2>3, <3>2
      <4>2. ~session'["asked"] /\ session'["asking"] = session["asking"]
        BY <1>0, <1>2, <3>2 DEF RelayDrops, TypeOK, Daemons
      <4>3. Len(up'[c]) = 0
        BY <4>1
      <4>4. UpInOrder(c)'
        BY <4>3 DEF UpInOrder
      <4>5. NoneLost(c)'
        BY <4>2 DEF NoneLost
      <4> QED BY <1>0, <2>2, <4>4, <4>5 DEF Gapless, DownInOrder, CallInv
    <3> QED BY <3>1, <3>2 DEF Daemons
  <2> QED BY <2>4, <2>5 DEF CallInv
<1>3. ASSUME NEW d \in Daemons, ClientEnds(d) PROVE CallInv(c)'
  <2>1. UNCHANGED <<session, caller[c], sent[c], answer[c], up[c], pending, got[c], outcome[c]>>
    BY <1>3 DEF ClientEnds
  <2>2. CASE d = "asking"
    <3>1. UNCHANGED <<ask[c], server[c]>> /\ down'[c] = << >> /\ Len(down'[c]) = 0
      BY <1>3, <2>2 DEF ClientEnds
    <3>2. /\ handle'[c] = handle[c] \/ handle'[c] = "stale"
          /\ handle'[c] # "live"
      BY <1>0, <1>3, <2>2 DEF ClientEnds, TypeOK
    <3>3. client'["asking"] = "ended" /\ client'["asked"] = client["asked"]
      BY <1>0, <1>3, <2>2 DEF ClientEnds, TypeOK, Daemons
    <3>4. CallerPart(c)' /\ NotAskedWhenOff(c)'
      BY <1>0, <2>1, <3>1, <3>2, <3>3 DEF CallInv, CallerPart, NotAskedWhenOff, Quiet
    <3>5. ServerPart(c)'
      BY <1>0, <2>1, <3>1, <3>3 DEF CallInv, ServerPart, Last
    <3>6. Gapless(c)'
      BY <3>1, <3>3 DEF Gapless, DownInOrder, UpInOrder, NoneLost, RelayReaches
    <3> QED BY <3>4, <3>5, <3>6 DEF CallInv
  <2>3. CASE d = "asked"
    <3>1. UNCHANGED <<handle[c], down[c]>> /\ (ask'[c] = ask[c] \/ ask'[c] = "none")
      BY <1>0, <1>3, <2>3 DEF ClientEnds, TypeOK
    <3>2. /\ ask'[c] # "down" /\ server'[c] # "live"
          /\ server[c] = "none" => server'[c] = "none"
          /\ server'[c] = "none" => server[c] = "none"
      BY <1>3, <2>3 DEF ClientEnds
    <3>3. client'["asking"] = client["asking"]
      BY <1>0, <1>3, <2>3 DEF ClientEnds, TypeOK, Daemons
    <3>4. CallerPart(c)' /\ NotAskedWhenOff(c)'
      BY <1>0, <2>1, <3>1, <3>2, <3>3 DEF CallInv, CallerPart, NotAskedWhenOff, Quiet
    <3>5. ServerPart(c)'
      BY <1>0, <2>1, <3>1, <3>2, <3>3 DEF CallInv, ServerPart, Last
    <3>6. Gapless(c)'
      BY <1>0, <2>1, <3>1, <3>2, <3>3, StillGapless DEF CallInv, RelayReaches
    <3> QED BY <3>4, <3>5, <3>6 DEF CallInv
  <2> QED BY <2>2, <2>3 DEF Daemons
<1>4. ASSUME NEW d \in Daemons, ClearSlot(d) PROVE CallInv(c)'
  <2>1. UNCHANGED <<caller[c], handle[c], server[c], sent[c], answer[c]>>
    BY <1>4 DEF ClearSlot
  <2>2. UNCHANGED <<session, ask[c], up[c], down[c], got[c], outcome[c], pending>>
    BY <1>4 DEF ClearSlot
  <2>3. \A e \in Daemons :
          client'[e] = client[e] \/ (client[e] = "ended" /\ client'[e] = "cleared")
    BY <1>0, <1>4 DEF ClearSlot, TypeOK
  <2>4. CallerPart(c)' /\ NotAskedWhenOff(c)'
    BY <1>0, <2>1, <2>2, <2>3 DEF CallInv, CallerPart, NotAskedWhenOff, Quiet, Daemons
  <2>5. ServerPart(c)'
    BY <1>0, <2>1, <2>2, <2>3 DEF CallInv, ServerPart, Last, Daemons
  <2>6. Gapless(c)'
    BY <1>0, <2>1, <2>2, <2>3, StillGapless DEF CallInv, RelayReaches, Daemons
  <2> QED BY <2>4, <2>5, <2>6 DEF CallInv
<1>5. ASSUME NEW d \in Daemons, Drain(d) PROVE CallInv(c)'
  <2>1. UNCHANGED <<caller[c], handle[c], server[c], sent[c], answer[c]>>
    BY <1>5 DEF Drain
  <2>2. UNCHANGED <<session, ask[c], up[c], down[c], got[c]>>
    BY <1>5 DEF Drain
  <2>3. CASE d = "asking"
    <3>1. c \notin pending' /\ outcome'[c] = IF c \in pending THEN "error" ELSE outcome[c]
      BY <1>0, <1>5, <2>3 DEF Drain, TypeOK
    <3>2. client["asking"] = "cleared" /\ client'["asked"] = client["asked"]
      BY <1>0, <1>5, <2>3 DEF Drain, TypeOK, Daemons
    <3>3. CallerPart(c)' /\ ServerPart(c)' /\ NotAskedWhenOff(c)'
      BY <1>0, <2>1, <2>2, <3>1, <3>2
      DEF CallInv, CallerPart, ServerPart, NotAskedWhenOff, Quiet, Last
    <3> QED BY <3>1, <3>3, NothingToMiss DEF CallInv
  <2>4. CASE d = "asked"
    <3>1. UNCHANGED <<outcome[c], pending>>
      BY <1>5, <2>4 DEF Drain
    <3>2. client["asked"] = "cleared" /\ client'["asking"] = client["asking"]
      BY <1>0, <1>5, <2>4 DEF Drain, TypeOK, Daemons
    <3>3. CallerPart(c)' /\ ServerPart(c)' /\ NotAskedWhenOff(c)'
      BY <1>0, <2>1, <2>2, <3>1, <3>2
      DEF CallInv, CallerPart, ServerPart, NotAskedWhenOff, Quiet, Last
    <3>4. Gapless(c)'
      BY <1>0, <2>1, <2>2, <3>1, <3>2, StillGapless DEF CallInv, RelayReaches
    <3> QED BY <3>3, <3>4 DEF CallInv
  <2> QED BY <2>3, <2>4 DEF Daemons
<1>6. ASSUME NEW e \in Calls, CloneHandle(e) PROVE CallInv(c)'
  <2>1. CASE e # c
    BY <1>0, <1>6, <2>1, Untouched DEF CloneHandle, TypeOK
  <2>2. CASE e = c
    <3>1. /\ caller[c] = "new" /\ caller'[c] = "cloned"
          /\ handle'[c] = "live" => client["asking"] = "on"
      BY <1>0, <1>6, <2>2 DEF CloneHandle, TypeOK
    <3> QED BY <1>0, <1>6, <3>1
        DEF CloneHandle, CallInv, CallerPart, ServerPart, NotAskedWhenOff, Gapless, DownInOrder,
            UpInOrder, NoneLost, Quiet, Last,
            RelayReaches
  <2> QED BY <2>1, <2>2
<1>7. ASSUME NEW e \in Calls, Insert(e) PROVE CallInv(c)'
  <2>1. CASE e # c
    BY ZenonT(60), <1>0, <1>7, <2>1, Untouched DEF Insert, TypeOK
  <2>2. CASE e = c
    <3>1. /\ caller[c] = "cloned" /\ caller'[c] = "inserted" /\ c \in pending'
          /\ Quiet(c) /\ Quiet(c)'
      BY <1>0, <1>7, <2>2 DEF Insert, TypeOK, CallInv, CallerPart, Quiet
    <3> QED BY <1>0, <1>7, <3>1
        DEF Insert, CallInv, CallerPart, ServerPart, NotAskedWhenOff, Gapless, DownInOrder,
            UpInOrder, NoneLost, Quiet, Last
  <2> QED BY <2>1, <2>2
<1>8. ASSUME NEW e \in Calls, Send(e) PROVE CallInv(c)'
  <2>1. CASE e # c
    BY <1>0, <1>8, <2>1, Untouched DEF Send, TypeOK
  <2>2. CASE e = c
    <3>1. /\ caller[c] = "inserted" /\ caller'[c] = "waiting" /\ Quiet(c)
          /\ client["asking"] = "on"
      BY <1>0, <1>8, <2>2 DEF Send, TypeOK, CallInv, CallerPart
    <3> QED BY <1>0, <1>8, <3>1
        DEF Send, CallInv, CallerPart, ServerPart, NotAskedWhenOff, Gapless, DownInOrder,
            UpInOrder, NoneLost, Quiet, Last
  <2> QED BY <2>1, <2>2
<1>9. ASSUME NEW e \in Calls, SendStale(e) PROVE CallInv(c)'
  <2>1. CASE e # c
    BY <1>0, <1>9, <2>1, Untouched DEF SendStale, TypeOK
  <2>2. CASE e = c
    <3>1. /\ caller[c] = "inserted" /\ caller'[c] \in {"failed", "waiting"} /\ Quiet(c)
          /\ handle[c] = "stale"
      BY <1>0, <1>9, <2>2 DEF SendStale, TypeOK, CallInv, CallerPart
    <3> QED BY <1>0, <1>9, <3>1
        DEF SendStale, CallInv, CallerPart, ServerPart, NotAskedWhenOff, Gapless, DownInOrder,
            UpInOrder, NoneLost, Quiet, Last
  <2> QED BY <2>1, <2>2
<1>10. ASSUME NEW e \in Calls, ForwardAsk(e) PROVE CallInv(c)'
  <2>1. CASE e # c
    BY <1>0, <1>10, <2>1, Untouched DEF ForwardAsk, TypeOK
  <2>2. CASE e = c
    <3>1. ask[c] = "up" /\ ask'[c] \in {"down", "none"} /\ server[c] = "none"
      BY <1>0, <1>10, <2>2 DEF ForwardAsk, TypeOK, CallInv, ServerPart
    <3>2. UNCHANGED <<links, caller[c], handle[c], server[c], sent[c], answer[c], up[c], down[c]>>
      BY <1>10 DEF ForwardAsk
    <3>3. UNCHANGED <<pending, got[c], outcome[c]>> /\ (ask'[c] = "down" => client["asked"] = "on")
      BY <1>0, <1>10, <2>2 DEF ForwardAsk, RelayReaches, TypeOK
    <3>4. CallerPart(c)' /\ NotAskedWhenOff(c)'
      BY <1>0, <3>1, <3>2, <3>3 DEF CallInv, CallerPart, NotAskedWhenOff, Quiet
    <3>5. ServerPart(c)'
      BY <1>0, <3>1, <3>2, <3>3 DEF CallInv, ServerPart, Last
    <3>6. Gapless(c)'
      BY <1>0, <3>2, <3>3, StillGapless DEF CallInv, RelayReaches
    <3> QED BY <3>4, <3>5, <3>6 DEF CallInv
  <2> QED BY <2>1, <2>2
<1>11. ASSUME NEW e \in Calls, ForwardAnswer(e) PROVE CallInv(c)'
  <2>1. CASE e # c
    BY <1>0, <1>11, <2>1, Untouched DEF ForwardAnswer, TypeOK
  <2>2. CASE e = c
    <3> DEFINE m == Head(up[c])
    <3>1. /\ up[c] # << >> /\ up'[c] = Tail(up[c])
          /\ UNCHANGED <<links, caller, handle, servers, ask, received>>
          /\ down'[c] = IF RelayReaches("asking") THEN Append(down[c], m) ELSE down[c]
      BY <1>0, <1>11, <2>2 DEF ForwardAnswer, TypeOK
    <3>2. /\ up[c] \in Seq(Nat) /\ down[c] \in Seq(Nat) /\ got[c] \in Seq(Nat)
          /\ Len(up[c]) > 0 /\ m = up[c][1] /\ Len(up'[c]) = Len(up[c]) - 1
          /\ \A i \in 1 .. Len(up'[c]) : up'[c][i] = up[c][i + 1]
      <4>1. up[c] \in Seq(Nat) /\ down[c] \in Seq(Nat) /\ got[c] \in Seq(Nat)
        BY <1>0 DEF TypeOK
      <4>2. Len(up[c]) > 0 /\ m = up[c][1]
        BY <3>1, <4>1
      <4>3. Len(up'[c]) = Len(up[c]) - 1
        BY <3>1, <4>1
      <4>4. \A i \in 1 .. Len(up'[c]) : up'[c][i] = up[c][i + 1]
        BY <3>1, <4>1
      <4> QED BY <4>1, <4>2, <4>3, <4>4
    <3>3. CASE RelayReaches("asking")
      <4>1. /\ Len(down'[c]) = Len(down[c]) + 1 /\ down'[c][Len(down[c]) + 1] = m
            /\ \A i \in 1 .. Len(down[c]) : down'[c][i] = down[c][i]
        BY <3>1, <3>2, <3>3
      <4>2. CallerPart(c)' /\ NotAskedWhenOff(c)'
        BY <1>0, <3>1, <3>2 DEF CallInv, CallerPart, NotAskedWhenOff, Quiet
      <4>3. ServerPart(c)'
        BY SMTT(30), <1>0, <3>1, <3>2, <4>1 DEF CallInv, ServerPart, Last
      <4>4. Gapless(c)'
        <5>0. Gapless(c) /\ Len(up[c]) \in Nat /\ Len(down[c]) \in Nat /\ Len(got[c]) \in Nat
          BY <1>0, <3>2 DEF CallInv
        <5>1. pending' = pending /\ got' = got /\ sent'[c] = sent[c] /\ server'[c] = server[c]
          BY <3>1
        <5>2. DownInOrder(c)'
          <6> SUFFICES ASSUME c \in pending, NEW i \in 1 .. Len(down'[c])
                       PROVE  down'[c][i] = Len(got[c]) + i
            BY <5>1 DEF DownInOrder
          <6>1. CASE i = Len(down[c]) + 1
            <7>1. 1 \in 1 .. Len(up[c])
              BY <3>2, <5>0
            <7>2. up[c][1] = Len(got[c]) + Len(down[c]) + 1
              BY <3>3, <5>0, <7>1 DEF Gapless, UpInOrder
            <7>3. (Len(got[c]) + Len(down[c])) + 1 = Len(got[c]) + (Len(down[c]) + 1)
              BY <5>0, Sums, Zenon
            <7>4. down'[c][i] = up[c][1]
              BY <3>2, <4>1, <6>1, Zenon
            <7> QED BY <6>1, <7>2, <7>3, <7>4, Zenon
          <6>2. CASE i # Len(down[c]) + 1
            <7>1. i \in 1 .. Len(down[c])
              BY <4>1, <5>0, <6>2
            <7> QED BY <4>1, <5>0, <7>1 DEF Gapless, DownInOrder
          <6> QED BY <6>1, <6>2
        <5>3. UpInOrder(c)'
          <6> SUFFICES ASSUME c \in pending, NEW i \in 1 .. Len(up'[c])
                       PROVE  up'[c][i] = Len(got[c]) + Len(down'[c]) + i
            BY <5>1 DEF UpInOrder
          <6>1. i + 1 \in 1 .. Len(up[c]) /\ up'[c][i] = up[c][i + 1]
            BY <3>2, <5>0
          <6>2. up[c][i + 1] = Len(got[c]) + Len(down[c]) + (i + 1)
            BY <3>3, <5>0, <6>1 DEF Gapless, UpInOrder
          <6>3. i \in Nat
            BY <3>2, <5>0
          <6>4. (Len(got[c]) + Len(down[c])) + (i + 1) = (Len(got[c]) + (Len(down[c]) + 1)) + i
            BY <5>0, <6>3, Sums, Zenon
          <6> QED BY <4>1, <6>1, <6>2, <6>4, Zenon
        <5>4. NoneLost(c)'
          <6> SUFFICES ASSUME c \in pending, session["asked"], server[c] = "live"
                       PROVE  sent[c] = Len(got[c]) + Len(down'[c]) + Len(up'[c])
            BY <3>1, <5>1 DEF NoneLost
          <6>1. sent[c] = Len(got[c]) + Len(down[c]) + Len(up[c])
            BY <3>3, <5>0 DEF Gapless, NoneLost
          <6>2. (Len(got[c]) + Len(down[c])) + Len(up[c])
                  = (Len(got[c]) + (Len(down[c]) + 1)) + (Len(up[c]) - 1)
            BY <5>0, Sums, Zenon
          <6> QED BY <3>2, <4>1, <6>1, <6>2, Zenon
        <5> QED BY <5>2, <5>3, <5>4 DEF Gapless
      <4> QED BY <4>2, <4>3, <4>4 DEF CallInv
    <3>4. CASE ~RelayReaches("asking")
      <4>1. CallerPart(c)' /\ NotAskedWhenOff(c)'
        BY <1>0, <3>1, <3>2 DEF CallInv, CallerPart, NotAskedWhenOff, Quiet
      <4>2. ServerPart(c)'
        BY <1>0, <3>1, <3>2, <3>4 DEF CallInv, ServerPart, Last
      <4>3. Gapless(c)'
        BY <1>0, <3>1, <3>4 DEF CallInv, Gapless, DownInOrder, UpInOrder, NoneLost, RelayReaches
      <4> QED BY <4>1, <4>2, <4>3 DEF CallInv
    <3> QED BY <3>3, <3>4
  <2> QED BY <2>1, <2>2
<1>12. ASSUME NEW e \in Calls, Serve(e) PROVE CallInv(c)'
  <2>1. CASE e # c
    BY <1>0, <1>12, <2>1, Untouched DEF Serve, TypeOK
  <2>2. CASE e = c
    <3>1. /\ ask[c] = "down" /\ ask'[c] = "none" /\ server[c] = "none" /\ server'[c] = "live"
          /\ up[c] = << >> /\ down[c] = << >> /\ got[c] = << >> /\ sent[c] = 0
      BY <1>0, <1>12, <2>2 DEF Serve, TypeOK, CallInv, ServerPart
    <3>2. answer'[c] \in Answers /\ answer'[c] # NoAnswer /\ answer'[c].chunks \in Nat
      BY <1>0, <1>12, <2>2, AnswersAreTyped DEF Serve, TypeOK, Answers, NoAnswer
    <3>3. client["asked"] = "on"
      BY <1>0, <3>1 DEF CallInv, ServerPart
    <3> QED BY <1>0, <1>12, <3>1, <3>2, <3>3
        DEF Serve, CallInv, CallerPart, ServerPart, NotAskedWhenOff, Gapless, DownInOrder,
            UpInOrder, NoneLost, Quiet, Last,
            RelayReaches
  <2> QED BY <2>1, <2>2
<1>13. ASSUME NEW e \in Calls, Answer(e) PROVE CallInv(c)'
  <2>1. CASE e # c
    BY <1>0, <1>13, <2>1, Untouched DEF Answer, TypeOK
  <2>2. CASE e = c
    <3>1. /\ server[c] = "live" /\ sent'[c] = sent[c] + 1
          /\ server'[c] = IF sent[c] + 1 = Last(c) THEN "over" ELSE "live"
          /\ up'[c] = IF session["asked"] THEN Append(up[c], sent[c] + 1) ELSE up[c]
      BY <1>0, <1>13, <2>2 DEF Answer, ReachesRelay, TypeOK
    <3>2. UNCHANGED <<links, callers, answer, ask, down, received>>
      BY <1>13 DEF Answer
    <3>3. /\ sent[c] \in Nat /\ Last(c) \in Nat /\ sent[c] < Last(c) /\ answer[c] # NoAnswer
          /\ up[c] \in Seq(Nat) /\ Len(up[c]) \in Nat
          /\ Len(down[c]) \in Nat /\ Len(got[c]) \in Nat
      <4>1. answer[c].chunks \in Nat /\ sent[c] \in Nat /\ up[c] \in Seq(Nat)
        BY <1>0, AnswersAreTyped DEF TypeOK
      <4>2. Last(c) \in Nat
        BY <4>1 DEF Last
      <4>3. sent[c] < Last(c) /\ answer[c] # NoAnswer
        BY <1>0, <3>1 DEF CallInv, ServerPart
      <4>4. down[c] \in Seq(Nat) /\ got[c] \in Seq(Nat)
        BY <1>0 DEF TypeOK
      <4> QED BY <4>1, <4>2, <4>3, <4>4
    <3>4. CallerPart(c)' /\ NotAskedWhenOff(c)'
      BY <1>0, <3>1, <3>2 DEF CallInv, CallerPart, NotAskedWhenOff, Quiet
    <3>5. CASE session["asked"]
      <4>1. /\ up'[c] = Append(up[c], sent[c] + 1) /\ Len(up'[c]) = Len(up[c]) + 1
            /\ up'[c][Len(up[c]) + 1] = sent[c] + 1
            /\ \A i \in 1 .. Len(up[c]) : up'[c][i] = up[c][i]
        BY <3>1, <3>3, <3>5
      <4>2. ServerPart(c)'
        BY <1>0, <3>1, <3>2, <3>3, <4>1 DEF CallInv, ServerPart, Last
      <4>3. DownInOrder(c)'
        BY <1>0, <3>2 DEF CallInv, Gapless, DownInOrder
      <4>4. ASSUME c \in pending, RelayReaches("asking")
            PROVE  sent[c] = Len(got[c]) + Len(down[c]) + Len(up[c])
        BY <1>0, <3>1, <3>5, <4>4 DEF CallInv, Gapless, NoneLost
      <4>5. (Len(got[c]) + Len(down[c]) + Len(up[c])) + 1
              = Len(got[c]) + Len(down[c]) + (Len(up[c]) + 1)
        BY <3>3, Sums, ZenonT(60)
      <4>6. UpInOrder(c)'
        <5> SUFFICES ASSUME c \in pending, RelayReaches("asking"), NEW i \in 1 .. Len(up'[c])
                     PROVE  up'[c][i] = Len(got[c]) + Len(down[c]) + i
          BY <3>2 DEF UpInOrder, RelayReaches
        <5>1. CASE i = Len(up[c]) + 1
          BY <4>1, <4>4, <4>5, <5>1, Zenon
        <5>2. CASE i # Len(up[c]) + 1
          <6>1. i \in 1 .. Len(up[c])
            BY <3>3, <4>1, <5>2
          <6> QED BY <1>0, <4>1, <6>1 DEF CallInv, Gapless, UpInOrder
        <5> QED BY <5>1, <5>2
      <4>7. NoneLost(c)'
        <5> SUFFICES ASSUME c \in pending, RelayReaches("asking")
                     PROVE  sent'[c] = Len(got[c]) + Len(down[c]) + Len(up'[c])
          BY <3>2 DEF NoneLost, RelayReaches
        <5> QED BY <3>1, <4>1, <4>4, <4>5, Zenon
      <4> QED BY <3>4, <4>2, <4>3, <4>6, <4>7 DEF CallInv, Gapless
    <3>6. CASE ~session["asked"]
      <4>1. up'[c] = up[c]
        BY <3>1, <3>6
      <4>2. ServerPart(c)'
        BY <1>0, <3>1, <3>2, <3>3, <4>1 DEF CallInv, ServerPart, Last
      <4>3. Gapless(c)'
        BY <1>0, <3>2, <3>6, <4>1 DEF CallInv, Gapless, DownInOrder, UpInOrder, NoneLost,
            RelayReaches
      <4> QED BY <3>4, <4>2, <4>3 DEF CallInv
    <3> QED BY <3>5, <3>6
  <2> QED BY <2>1, <2>2
<1>14. ASSUME NEW e \in Calls, AnswerStale(e) PROVE CallInv(c)'
  <2>1. CASE e # c
    BY <1>0, <1>14, <2>1, Untouched DEF AnswerStale, TypeOK
  <2>2. CASE e = c
    <3>1. /\ server[c] = "stale" /\ server'[c] = "over"
          /\ UNCHANGED <<links, callers, sent, answer, queues, received>>
      BY <1>0, <1>14, <2>2 DEF AnswerStale, TypeOK
    <3>2. CallerPart(c)' /\ ServerPart(c)' /\ NotAskedWhenOff(c)'
      BY <1>0, <3>1 DEF CallInv, CallerPart, ServerPart, NotAskedWhenOff, Quiet, Last
    <3>3. Gapless(c)'
      BY <1>0, <3>1, StillGapless DEF CallInv, RelayReaches
    <3> QED BY <3>2, <3>3 DEF CallInv
  <2> QED BY <2>1, <2>2
<1>15. ASSUME NEW e \in Calls, Receive(e) PROVE CallInv(c)'
  <2>1. CASE e # c
    <3>1. /\ UNCHANGED <<links, caller, handle, servers, ask, up>>
          /\ down'[c] = down[c]
      BY <1>0, <1>15, <2>1 DEF Receive, TypeOK
    <3>2. UNCHANGED <<got[c], outcome[c]>> /\ ((c \in pending) <=> (c \in pending'))
      <4>1. CASE e \notin pending
        BY <1>15, <4>1 DEF Receive
      <4>2. CASE e \in pending /\ Head(down[e]) # Last(e)
        <5>1. /\ got' = [got EXCEPT ![e] = Append(@, Head(down[e]))]
              /\ UNCHANGED <<pending, outcome>>
          BY <1>15, <4>2 DEF Receive
        <5>2. got \in [Calls -> Seq(Nat)]
          BY <1>0 DEF TypeOK
        <5> QED BY <2>1, <5>1, <5>2
      <4>3. CASE e \in pending /\ Head(down[e]) = Last(e)
        <5>1. /\ pending' = pending \ {e} /\ got' = got
              /\ outcome' = [outcome EXCEPT ![e] = answer[e].last]
          BY <1>15, <4>3 DEF Receive
        <5>2. outcome \in [Calls -> {"none", "end", "error"}]
          BY <1>0 DEF TypeOK
        <5> QED BY <2>1, <5>1, <5>2
      <4> QED BY <4>1, <4>2, <4>3
    <3> QED BY <1>0, <3>1, <3>2, Untouched
  <2>2. CASE e = c
    <3>1. /\ down[c] # << >> /\ down'[c] = Tail(down[c])
          /\ UNCHANGED <<links, callers, servers, ask, up>>
      BY <1>0, <1>15, <2>2 DEF Receive, TypeOK
    <3>2. /\ down[c] \in Seq(Nat) /\ got[c] \in Seq(Nat)
          /\ Len(got[c]) \in Nat /\ Len(down[c]) \in Nat /\ Len(up[c]) \in Nat
          /\ Len(down[c]) > 0 /\ Len(down'[c]) = Len(down[c]) - 1
          /\ \A i \in 1 .. Len(down'[c]) :
               i + 1 \in 1 .. Len(down[c]) /\ down'[c][i] = down[c][i + 1]
      BY <1>0, <3>1 DEF TypeOK
    <3>3. ServerPart(c)'
      BY <1>0, <3>1, <3>2 DEF CallInv, ServerPart, Last
    <3>4. server[c] # "none" /\ caller[c] \in {"waiting", "failed"}
      BY <1>0, <3>1 DEF CallInv, CallerPart, ServerPart, Quiet, TypeOK
    <3>5. CASE c \notin pending
      <4>1. UNCHANGED received
        BY <1>15, <2>2, <3>5 DEF Receive
      <4>2. CallerPart(c)' /\ NotAskedWhenOff(c)'
        BY <1>0, <3>1, <3>4, <4>1 DEF CallInv, CallerPart, NotAskedWhenOff, Quiet
      <4> QED BY <3>3, <3>5, <4>1, <4>2, NothingToMiss DEF CallInv
    <3>6. CASE c \in pending /\ Head(down[c]) = Last(c)
      <4>1. c \notin pending' /\ outcome'[c] = answer[c].last
        <5>1. /\ pending' = pending \ {c}
              /\ outcome' = [outcome EXCEPT ![c] = answer[c].last]
          BY <1>15, <2>2, <3>6 DEF Receive
        <5> QED BY <1>0, <5>1 DEF TypeOK
      <4>2. answer[c].last # "none"
        BY <1>0, <3>4, AnswersAreTyped DEF CallInv, ServerPart, TypeOK
      <4>3. CallerPart(c)' /\ NotAskedWhenOff(c)'
        BY <1>0, <3>1, <3>4, <4>1, <4>2 DEF CallInv, CallerPart, NotAskedWhenOff, Quiet
      <4> QED BY <3>3, <4>1, <4>3, NothingToMiss DEF CallInv
    <3>7. CASE c \in pending /\ Head(down[c]) # Last(c)
      <4>1. got'[c] = Append(got[c], Head(down[c])) /\ UNCHANGED <<pending, outcome>>
        BY ZenonT(60), <1>0, <1>15, <2>2, <3>7 DEF Receive, TypeOK
      <4>2. Len(got'[c]) = Len(got[c]) + 1
        BY <1>0, <3>2, <4>1
      <4>3. CallerPart(c)'
        BY <1>0, <3>1, <3>4, <4>1 DEF CallInv, CallerPart
      <4>4. NotAskedWhenOff(c)'
        BY <1>0, <3>1, <3>4, <4>1 DEF CallInv, NotAskedWhenOff, Quiet
      <4>5. DownInOrder(c)'
        <5> SUFFICES ASSUME c \in pending, NEW i \in 1 .. Len(down'[c])
                     PROVE  down'[c][i] = Len(got'[c]) + i
          BY <4>1 DEF DownInOrder
        <5>1. i \in Nat /\ i + 1 \in 1 .. Len(down[c]) /\ down'[c][i] = down[c][i + 1]
          BY <3>2
        <5>2. down[c][i + 1] = Len(got[c]) + (i + 1)
          BY <1>0, <5>1 DEF CallInv, Gapless, DownInOrder
        <5>3. Len(got[c]) + (i + 1) = (Len(got[c]) + 1) + i
          BY <3>2, <5>1, Sums, Zenon
        <5> QED BY <4>2, <5>1, <5>2, <5>3, Zenon
      <4>6. Len(got[c]) + Len(down[c]) = Len(got'[c]) + Len(down'[c])
        <5>1. Len(got[c]) + Len(down[c]) = (Len(got[c]) + 1) + (Len(down[c]) - 1)
          BY <3>2, Sums, Zenon
        <5> QED BY <3>2, <4>2, <5>1, Zenon
      <4>7. UpInOrder(c)'
        <5> SUFFICES ASSUME c \in pending, RelayReaches("asking"), NEW i \in 1 .. Len(up[c])
                     PROVE  up[c][i] = Len(got'[c]) + Len(down'[c]) + i
          BY <3>1, <4>1 DEF UpInOrder, RelayReaches
        <5>1. up[c][i] = Len(got[c]) + Len(down[c]) + i
          BY <1>0 DEF CallInv, Gapless, UpInOrder
        <5> QED BY <4>6, <5>1, Zenon
      <4>8. NoneLost(c)'
        <5> SUFFICES ASSUME c \in pending, RelayReaches("asking"), session["asked"],
                            server[c] = "live"
                     PROVE  sent[c] = Len(got'[c]) + Len(down'[c]) + Len(up[c])
          BY <3>1, <4>1 DEF NoneLost, RelayReaches
        <5>1. sent[c] = Len(got[c]) + Len(down[c]) + Len(up[c])
          BY <1>0 DEF CallInv, Gapless, NoneLost
        <5> QED BY <4>6, <5>1, Zenon
      <4> QED BY <3>3, <4>3, <4>4, <4>5, <4>7, <4>8 DEF CallInv, Gapless
    <3> QED BY <3>5, <3>6, <3>7
  <2> QED BY <2>1, <2>2
<1>16. CASE UNCHANGED vars
  BY <1>0, <1>16, Untouched DEF vars
<1> QED
  BY <1>1, <1>2, <1>3, <1>4, <1>5, <1>6, <1>7, <1>8, <1>9, <1>10, <1>11, <1>12, <1>13, <1>14,
     <1>15, <1>16 DEF Next

-----------------------------------------------------------------------------
(* Theorems                                                                  *)

\* The invariant of every call holds throughout: what a caller has got, what is in down and
\* in up, and what the forwarder has sent fit together.
THEOREM InvHolds == Spec => []Inv
<1>1. Inv /\ [Next]_vars => Inv'
  <2> SUFFICES ASSUME Inv, [Next]_vars PROVE Inv'
    OBVIOUS
  <2>1. TypeOK'
    BY NextTyped
  <2>2. ASSUME NEW c \in Calls PROVE CallInv(c)'
    BY NextCallInv
  <2> QED BY <2>1, <2>2 DEF Inv
<1> QED
  BY <1>1, InitInv, PTL DEF Spec

\* For any number of calls and any length of their answers every variable keeps its shape
\* and no forwarder counts past the end of its answer.
THEOREM TypeCorrect == Spec => []TypeOK
<1>1. Inv => TypeOK
  BY DEF Inv
<1> QED
  BY <1>1, InvHolds, PTL

\* For any number of calls, whatever sessions end and whenever either side notices: who
\* waits without an outcome is in pending, where an answer or the next drain finds it.
THEOREM WaitersReachable == Spec => []WaitersAreReachable
<1>1. Inv => WaitersAreReachable
  BY DEF Inv, CallInv, CallerPart, WaitersAreReachable
<1> QED
  BY <1>1, InvHolds, PTL

\* No call has an answer to begin with.
LEMMA InitMaps == Init => Replies!Init
BY DEF Init, NoAnswer, Replies!Init, Replies!NoAnswer

\* The next message for a caller that is in pending is the one after those it has got.
LEMMA HeadIsNext ==
  ASSUME Inv, NEW c \in Calls, c \in pending, down[c] # << >>
  PROVE  /\ Head(down[c]) = Len(got[c]) + 1 /\ Head(down[c]) \in 1 .. Last(c)
         /\ outcome[c] = "none" /\ answer[c] # NoAnswer
         /\ Len(got[c]) \in Nat /\ answer[c].chunks \in Nat
<1>1. TypeOK /\ CallInv(c)
  BY DEF Inv
<1>2. down[c] \in Seq(Nat) /\ Len(got[c]) \in Nat /\ answer[c].chunks \in Nat
  BY <1>1, AnswersAreTyped DEF TypeOK
<1>3. 1 \in 1 .. Len(down[c]) /\ Head(down[c]) = down[c][1]
  BY <1>2
<1>4. down[c][1] = Len(got[c]) + 1
  BY <1>1, <1>3 DEF CallInv, Gapless, DownInOrder
<1>5. down[c][1] \in 1 .. Last(c)
  BY <1>1, <1>3 DEF CallInv, ServerPart
<1>6. outcome[c] = "none" /\ answer[c] # NoAnswer
  BY <1>1 DEF CallInv, CallerPart, ServerPart
<1> QED BY <1>2, <1>3, <1>4, <1>5, <1>6

\* Serve begins an answer, Receive delivers or finishes it, a drain fails the calls in
\* pending, and everything else is invisible to the callers.
LEMMA StepMaps ==
  ASSUME Inv, [Next]_vars
  PROVE  [Replies!Next]_(Replies!vars)
<1> USE DEF Replies!vars
<1>0. TypeOK
  BY DEF Inv
<1>1. ASSUME NEW c \in Calls, Serve(c) PROVE Replies!Next
  <2>1. answer[c] = Replies!NoAnswer
    BY <1>1 DEF Serve, Inv, CallInv, ServerPart, NoAnswer, Replies!NoAnswer
  <2>2. Replies!Begin(c)
    BY <1>1, <2>1 DEF Serve, received, Replies!Begin
  <2> QED BY <2>2 DEF Replies!Next
<1>2. ASSUME NEW c \in Calls, Receive(c) PROVE [Replies!Next]_(Replies!vars)
  <2>1. CASE c \notin pending
    BY <1>2, <2>1 DEF Receive, servers, received
  <2>2. CASE c \in pending /\ Head(down[c]) # Last(c)
    <3>1. /\ outcome[c] = "none" /\ Head(down[c]) = Len(got[c]) + 1
          /\ Len(got[c]) < answer[c].chunks
      BY <1>2, <2>2, HeadIsNext DEF Receive, Last
    <3>2. /\ got' = [got EXCEPT ![c] = Append(@, Head(down[c]))]
          /\ UNCHANGED <<answer, outcome>>
      BY <1>2, <2>2 DEF Receive, servers
    <3>3. Replies!Deliver(c)
      BY <3>1, <3>2 DEF Replies!Deliver
    <3> QED BY <3>3 DEF Replies!Next
  <2>3. CASE c \in pending /\ Head(down[c]) = Last(c)
    <3>1. /\ outcome[c] = "none" /\ answer[c] # NoAnswer
          /\ Len(got[c]) = answer[c].chunks
      BY <1>2, <2>3, HeadIsNext DEF Receive, Last
    <3>2. answer[c].last # "none"
      BY <1>0, <3>1, AnswersAreTyped DEF TypeOK
    <3>3. /\ outcome' = [outcome EXCEPT ![c] = answer[c].last]
          /\ UNCHANGED <<answer, got>>
      BY <1>2, <2>3 DEF Receive, servers
    <3>4. Replies!Finish(c)
      BY <3>1, <3>2, <3>3 DEF Replies!Finish
    <3> QED BY <3>4 DEF Replies!Next
  <2> QED BY <2>1, <2>2, <2>3
<1>3. ASSUME NEW d \in Daemons, Drain(d) PROVE [Replies!Next]_(Replies!vars)
  <2>1. CASE d = "asking"
    <3>1. pending \in SUBSET Calls /\ \A c \in pending : outcome[c] = "none"
      BY <1>0 DEF TypeOK, Inv, CallInv, CallerPart
    <3>2. Replies!Fail(pending)
      BY <1>3, <2>1, <3>1 DEF Drain, servers, Replies!Fail
    <3> QED BY <3>1, <3>2 DEF Replies!Next
  <2>2. CASE d # "asking"
    BY <1>3, <2>2 DEF Drain, servers
  <2> QED BY <2>1, <2>2
<1>4. ASSUME NEW d \in Daemons,
             Connect(d) \/ RelayDrops(d) \/ ClientEnds(d) \/ ClearSlot(d)
      PROVE  UNCHANGED <<answer, got, outcome>>
  BY <1>4 DEF Connect, RelayDrops, ClientEnds, ClearSlot, servers, received
<1>5. ASSUME NEW c \in Calls, CloneHandle(c) \/ Insert(c) \/ Send(c) \/ SendStale(c)
      PROVE  UNCHANGED <<answer, got, outcome>>
  BY <1>5 DEF CloneHandle, Insert, Send, SendStale, servers, received
<1>6. ASSUME NEW c \in Calls, ForwardAsk(c) \/ ForwardAnswer(c) \/ Answer(c) \/ AnswerStale(c)
      PROVE  UNCHANGED <<answer, got, outcome>>
  BY <1>6 DEF ForwardAsk, ForwardAnswer, Answer, AnswerStale, servers, received
<1>7. CASE UNCHANGED vars
  BY <1>7 DEF vars, servers, received
<1> QED
  BY <1>1, <1>2, <1>3, <1>4, <1>5, <1>6, <1>7 DEF Next

\* For any number of calls and any interleaving of theirs with broken sessions, what the
\* callers see is a behaviour of ReplyStream: chunks in order, each once, none left out,
\* and an end only after the last of them.
THEOREM RepliesImplementStreams == Spec => RepliesAreStreams
<1> QED
  BY InvHolds, InitMaps, StepMaps, PTL DEF Spec, RepliesAreStreams, Replies!Spec

-----------------------------------------------------------------------------
(* That answers arrive, as far as it can be proved: what AnswersArrive needs *)
(* besides fairness                                                          *)

\* The steps that a call waits for.
CallStep(c) == ForwardAsk(c) \/ Serve(c) \/ Answer(c) \/ ForwardAnswer(c) \/ Receive(c)

\* A bound on how many of them are left: each message of the answer takes three.
Left(c) ==
  CASE ask[c] = "up"   -> 3 * MaxChunks + 5
    [] ask[c] = "down" -> 3 * MaxChunks + 4
    [] OTHER -> (IF server[c] = "live" THEN 3 * (Last(c) - sent[c]) ELSE 0)
                  + 2 * Len(up[c]) + Len(down[c])

\* While all sockets hold, a caller whose answer is to come keeps its entry and what is on its
\* way, and every step that is taken for it brings the end nearer.
AnswersGetOnStep ==
  \A c \in Calls : c \in pending /\ Coming(c) /\ Steady /\ Steady' =>
    \/ outcome'[c] # "none"
    \/ /\ c \in pending' /\ Coming(c)'
       /\ IF CallStep(c) THEN Left(c)' < Left(c) ELSE Left(c)' = Left(c)

AnswersGetOn == [][AnswersGetOnStep]_vars

\* The message is in the queue.
Has(q, n) == \E i \in 1 .. Len(q) : q[i] = n

\* What is in a queue and not its head is in its tail.
LEMMA TailHas ==
  ASSUME NEW q \in Seq(Nat), NEW n, q # << >>, Has(q, n), Head(q) # n
  PROVE  Has(Tail(q), n)
<1>1. PICK i \in 1 .. Len(q) : q[i] = n
  BY DEF Has
<1>2. i # 1 /\ Len(Tail(q)) = Len(q) - 1
  BY <1>1
<1>3. i - 1 \in 1 .. Len(Tail(q)) /\ Tail(q)[i - 1] = n
  BY <1>1, <1>2
<1> QED BY <1>3 DEF Has

\* What is in a queue, or put into it, is there afterwards.
LEMMA AppendHas ==
  ASSUME NEW q \in Seq(Nat), NEW m \in Nat, NEW n, Has(q, n) \/ m = n
  PROVE  Has(Append(q, m), n)
<1> DEFINE r == Append(q, m)
<1>1. /\ Len(r) = Len(q) + 1 /\ r[Len(q) + 1] = m
      /\ \A i \in 1 .. Len(q) : r[i] = q[i] /\ i \in 1 .. Len(r)
      /\ Len(q) + 1 \in 1 .. Len(r)
  OBVIOUS
<1> HIDE DEF r
<1>2. Has(r, n)
  BY <1>1 DEF Has
<1> QED BY <1>2 DEF r

\* What taking the head of a queue leaves, and what putting something in makes.
LEMMA QueueKnown ==
  ASSUME NEW q \in Seq(Nat)
  PROVE  /\ Len(q) \in Nat /\ \A m \in Nat : Append(q, m) \in Seq(Nat) /\ Len(Append(q, m)) = Len(q) + 1
         /\ q # << >> => /\ Len(q) # 0 /\ Head(q) \in Nat /\ Tail(q) \in Seq(Nat)
                         /\ Len(Tail(q)) = Len(q) - 1
OBVIOUS

\* The queues of a call that is still asked are empty, and so is its forwarder's account; each
\* of its numbers is one.
LEMMA CallKnown ==
  ASSUME TypeOK, NEW c \in Calls, CallInv(c)
  PROVE  /\ ask[c] \in {"none", "up", "down"} /\ sent[c] \in Nat /\ MaxChunks \in Nat
         /\ up[c] \in Seq(Nat) /\ down[c] \in Seq(Nat) /\ Last(c) \in Nat
         /\ ask[c] # "none" => /\ server[c] = "none" /\ sent[c] = 0
                               /\ Len(up[c]) = 0 /\ Len(down[c]) = 0
         /\ up[c] # << >> \/ down[c] # << >> => ask[c] = "none" /\ answer[c] # NoAnswer
         /\ server[c] = "live" => ask[c] = "none" /\ sent[c] < Last(c)
<1>1. answer[c].chunks \in Nat
  BY AnswersAreTyped DEF TypeOK
<1>2. \A q \in Seq(Nat) : q = << >> => Len(q) = 0
  OBVIOUS
<1> QED BY <1>1, <1>2, MaxChunksIsNat DEF TypeOK, CallInv, ServerPart, Last

\* Each step that a call waits for is one of those that it has left, and brings its answer on
\* or ends it.
LEMMA CallStepsCount ==
  ASSUME Inv, NEW c \in Calls, c \in pending, Coming(c), Steady, CallStep(c)
  PROVE  \/ outcome'[c] # "none"
         \/ c \in pending' /\ Coming(c)' /\ Left(c)' < Left(c)
<1> DEFINE n == Last(c)
           U == Len(up[c])
           W == Len(down[c])
<1>1. TypeOK /\ CallInv(c)
  BY DEF Inv
<1>2. CASE ForwardAsk(c)
  <2>1. ask[c] = "up" /\ ask'[c] = "down" /\ pending' = pending
    BY <1>1, <1>2 DEF ForwardAsk, Steady, RelayReaches, Daemons, TypeOK, received
  <2> QED BY <1>1, <2>1, CallKnown DEF Coming, Left
<1>3. CASE Serve(c)
  <2>1. /\ ask[c] = "down" /\ ask'[c] = "none" /\ server'[c] = "live" /\ pending' = pending
        /\ UNCHANGED <<sent, up, down>> /\ answer'[c] \in Answers
    BY <1>1, <1>3 DEF Serve, TypeOK, received
  <2>2. answer'[c].chunks \in 0 .. MaxChunks
    BY <2>1 DEF Answers
  <2>3. sent[c] = 0 /\ U = 0 /\ W = 0
    BY <1>1, <2>1, CallKnown
  <2>4. Left(c)' = 3 * (answer'[c].chunks + 1)
    BY <1>1, <2>1, <2>2, <2>3, CallKnown DEF Left, Last
  <2>5. Left(c) = 3 * MaxChunks + 4
    BY <2>1 DEF Left
  <2> QED BY <2>1, <2>2, <2>4, <2>5, MaxChunksIsNat DEF Coming
<1>4. CASE Answer(c)
  <2>1. /\ server[c] = "live" /\ sent'[c] = sent[c] + 1 /\ n' = n
        /\ server'[c] = IF sent[c] + 1 = n THEN "over" ELSE "live"
        /\ up'[c] = Append(up[c], sent[c] + 1)
        /\ UNCHANGED <<ask, down, pending>>
    BY <1>1, <1>4 DEF Answer, Steady, ReachesRelay, Daemons, TypeOK, received, Last
  <2>2. ask[c] = "none" /\ sent[c] < n /\ sent[c] \in Nat /\ n \in Nat /\ U \in Nat /\ W \in Nat
    BY <1>1, <2>1, CallKnown
  <2>3. up[c] \in Seq(Nat)
    BY <1>1 DEF TypeOK
  <2>4. Len(up'[c]) = U + 1
    BY <2>1, <2>2, <2>3
  <2>5. sent[c] + 1 = n => Has(up'[c], n)
    BY <2>1, <2>2, <2>3, AppendHas
  <2>6. Coming(c)'
    BY <2>1, <2>5 DEF Coming, Has
  <2>7. Left(c) = 3 * (n - sent[c]) + 2 * U + W
    BY <2>1, <2>2 DEF Left
  <2>8. Left(c)' = (IF sent[c] + 1 = n THEN 0 ELSE 3 * (n - (sent[c] + 1))) + 2 * (U + 1) + W
    BY <2>1, <2>2, <2>4 DEF Left
  <2> HIDE DEF n, U, W
  <2>9. Left(c)' < Left(c)
    BY <2>2, <2>7, <2>8
  <2> QED BY <2>1, <2>6, <2>9
<1>5. CASE ForwardAnswer(c)
  <2>1. /\ up[c] # << >> /\ up'[c] = Tail(up[c]) /\ down'[c] = Append(down[c], Head(up[c]))
        /\ UNCHANGED <<ask, pending, server, sent, answer>>
    BY <1>1, <1>5 DEF ForwardAnswer, Steady, RelayReaches, Daemons, TypeOK, received, servers
  <2>2. ask[c] = "none" /\ n' = n /\ up[c] \in Seq(Nat) /\ down[c] \in Seq(Nat)
    BY <1>1, <2>1, CallKnown DEF Last
  <2>3. /\ U \in Nat /\ U # 0 /\ W \in Nat /\ Len(up'[c]) = U - 1 /\ Head(up[c]) \in Nat
        /\ Len(down'[c]) = W + 1
    BY <2>1, <2>2, QueueKnown
  <2>4. Coming(c)'
    <3>1. CASE Has(up[c], n) /\ Head(up[c]) # n
      <4>1. Has(up'[c], n)
        BY <2>1, <2>2, <3>1, TailHas
      <4> QED BY <2>2, <4>1 DEF Coming, Has
    <3>2. CASE Has(down[c], n) \/ Head(up[c]) = n
      <4>1. Has(down'[c], n)
        BY <2>1, <2>2, <2>3, <3>2, AppendHas
      <4> QED BY <2>2, <4>1 DEF Coming, Has
    <3>3. CASE server[c] = "live"
      BY <2>1, <3>3 DEF Coming
    <3> QED BY <2>2, <3>1, <3>2, <3>3 DEF Coming, Has
  <2> DEFINE k == IF server[c] = "live" THEN 3 * (n - sent[c]) ELSE 0
  <2>5. k \in Nat /\ Left(c) = k + 2 * U + W /\ Left(c)' = k + 2 * (U - 1) + (W + 1)
    <3>1. Left(c) = k + 2 * U + W
      BY <2>2 DEF Left
    <3>2. Left(c)' = k + 2 * (U - 1) + (W + 1)
      BY <2>1, <2>2, <2>3 DEF Left
    <3>3. k \in Nat
      BY <1>1, CallKnown
    <3> QED BY <3>1, <3>2, <3>3
  <2> HIDE DEF n, U, W, k
  <2>6. Left(c)' < Left(c)
    BY <2>3, <2>5
  <2> QED BY <2>1, <2>4, <2>6
<1>6. CASE Receive(c)
  <2>1. down[c] # << >> /\ down'[c] = Tail(down[c]) /\ UNCHANGED <<ask, up, server, sent, answer>>
    BY <1>1, <1>6 DEF Receive, TypeOK, servers
  <2>2. /\ ask[c] = "none" /\ n' = n /\ down[c] \in Seq(Nat) /\ up[c] \in Seq(Nat)
        /\ answer[c] # NoAnswer
    BY <1>1, <2>1, CallKnown DEF Last
  <2>3. CASE Head(down[c]) = n
    <3>1. outcome'[c] = answer[c].last
      BY <1>1, <1>6, <2>3 DEF Receive, TypeOK
    <3>2. answer[c].last # "none"
      BY <1>1, <2>2, AnswersAreTyped DEF TypeOK
    <3> QED BY <3>1, <3>2
  <2>4. CASE Head(down[c]) # n
    <3>1. pending' = pending
      BY <1>6, <2>4 DEF Receive
    <3>2. Coming(c)'
      <4>1. CASE Has(down[c], n)
        <5>1. Has(down'[c], n)
          BY <2>1, <2>2, <2>4, <4>1, TailHas
        <5> QED BY <2>2, <5>1 DEF Coming, Has
      <4> QED BY <2>1, <2>2, <3>1, <4>1 DEF Coming, Has
    <3>3. U \in Nat /\ W \in Nat /\ W # 0 /\ Len(down'[c]) = W - 1
      BY <2>1, <2>2, QueueKnown
    <3> DEFINE k == IF server[c] = "live" THEN 3 * (n - sent[c]) ELSE 0
    <3>4. k \in Nat /\ Left(c) = k + 2 * U + W /\ Left(c)' = k + 2 * U + (W - 1)
      <4>1. Left(c) = k + 2 * U + W
        BY <2>2 DEF Left
      <4>2. Left(c)' = k + 2 * U + (W - 1)
        BY <2>1, <2>2, <3>3 DEF Left
      <4>3. k \in Nat
        BY <1>1, CallKnown
      <4> QED BY <4>1, <4>2, <4>3
    <3> HIDE DEF n, U, W, k
    <3>5. Left(c)' < Left(c)
      BY <3>3, <3>4
    <3> QED BY <3>1, <3>2, <3>5
  <2> QED BY <2>3, <2>4
<1> QED BY <1>2, <1>3, <1>4, <1>5, <1>6 DEF CallStep

\* What else happens while the sockets hold leaves alone what is on its way for a call.
LEMMA OthersLeaveAlone ==
  ASSUME Inv, NEW c \in Calls, c \in pending, Coming(c), Steady, Steady', Next, ~CallStep(c)
  PROVE  c \in pending' /\ Coming(c)' /\ Left(c)' = Left(c)
<1>1. TypeOK /\ CallInv(c)
  BY DEF Inv
<1>2. ASSUME UNCHANGED <<ask[c], up[c], down[c], sent[c], answer[c]>>, c \in pending',
             server'[c] = server[c] \/ (server[c] = "stale" /\ server'[c] = "over")
      PROVE  c \in pending' /\ Coming(c)' /\ Left(c)' = Left(c)
  BY <1>2 DEF Coming, Left, Last
<1>3. ASSUME NEW d \in Daemons
      PROVE  ~Connect(d) /\ ~RelayDrops(d) /\ ~ClientEnds(d) /\ ~ClearSlot(d) /\ ~Drain(d)
  BY <1>1 DEF Steady, Connect, RelayDrops, ClientEnds, ClearSlot, Drain, TypeOK
<1>4. ~CloneHandle(c) /\ ~Insert(c) /\ ~Send(c) /\ ~SendStale(c)
  <2>1. ~Quiet(c)
    <3>1. ASSUME Quiet(c) PROVE Len(up[c]) = 0 /\ Len(down[c]) = 0
      BY <3>1 DEF Quiet
    <3> QED BY <3>1 DEF Coming, Quiet
  <2> QED BY <1>1, <2>1 DEF CallInv, CallerPart, CloneHandle, Insert, Send, SendStale
<1>5. ASSUME NEW e \in Calls, e # c,
             CloneHandle(e) \/ Insert(e) \/ Send(e) \/ SendStale(e) \/ AnswerStale(e)
      PROVE  UNCHANGED <<ask[c], up[c], down[c], sent[c], answer[c], server[c]>> /\ c \in pending'
  BY <1>1, <1>5 DEF CloneHandle, Insert, Send, SendStale, AnswerStale, servers, queues, received, TypeOK
<1>6. ASSUME NEW e \in Calls, e # c, CallStep(e)
      PROVE  UNCHANGED <<ask[c], up[c], down[c], sent[c], answer[c], server[c]>> /\ c \in pending'
  <2>1. CASE ForwardAsk(e)
    BY <1>1, <1>6, <2>1 DEF ForwardAsk, servers, received, TypeOK
  <2>2. CASE Serve(e)
    BY <1>1, <1>6, <2>2 DEF Serve, received, TypeOK
  <2>3. CASE Answer(e)
    BY <1>1, <1>6, <2>3 DEF Answer, received, TypeOK
  <2>4. CASE ForwardAnswer(e)
    BY <1>1, <1>6, <2>4 DEF ForwardAnswer, servers, received, TypeOK
  <2>5. CASE Receive(e)
    <3>1. c \in pending'
      BY <1>6, <2>5 DEF Receive, received
    <3> QED BY <1>1, <1>6, <2>5, <3>1 DEF Receive, servers, TypeOK
  <2> QED BY <1>6, <2>1, <2>2, <2>3, <2>4, <2>5 DEF CallStep
<1>7. CASE AnswerStale(c)
  BY <1>1, <1>2, <1>7 DEF AnswerStale, queues, received, TypeOK
<1> QED BY <1>2, <1>3, <1>4, <1>5, <1>6, <1>7 DEF Next, CallStep

\* For any number of calls and any length of their answers: as long as the sockets hold, an
\* answer that is to come goes on coming, and its end gets nearer with each step, until the
\* caller has it.  Calls do not hold each other up.
THEOREM AnswersComeOn == Spec => AnswersGetOn
<1>1. Inv /\ [Next]_vars => [AnswersGetOnStep]_vars
  <2> SUFFICES ASSUME Inv, Next PROVE AnswersGetOnStep
    OBVIOUS
  <2> QED BY CallStepsCount, OthersLeaveAlone DEF AnswersGetOnStep
<1> QED BY <1>1, InvHolds, PTL DEF Spec, AnswersGetOn

=============================================================================
