----------------------------- MODULE RelayCalls -----------------------------
(****************************************************************************)
(* Requests and answers between two daemons over the relay: the client of   *)
(* the asking daemon and the client of the asked one (both                  *)
(* unhosted-core/src/relay_client.rs), the relay's Forward between them     *)
(* (unhosted-relay/src/main.rs) and the asked daemon's dispatcher (lib.rs). *)
(*                                                                          *)
(* A client has one socket at a time.  Its run_once reads the socket; its   *)
(* callers and forwarders write through clones of out_tx, which die with    *)
(* the session they were cloned in.  A caller finds its answers through     *)
(* pending, which is drained when a session ends.  The three locks (out_tx, *)
(* pending, state) are never held together.  The client and the relay       *)
(* notice at different times that a socket is gone; until then each writes  *)
(* to nobody.                                                               *)
(*                                                                          *)
(* Abstracted: a socket and the channels at its ends are one queue for each *)
(* call, since nothing relates the messages of two calls; a chunk is its    *)
(* number, and the end or error of an answer has the number after the last  *)
(* chunk.  Module Relay has the relay's session table.                      *)
(****************************************************************************)
EXTENDS Naturals, Sequences

CONSTANTS
  Calls,     \* calls of the asking daemon, each under an id of its own
  MaxChunks  \* chunks of the longest answer

ASSUME MaxChunksIsNat == MaxChunks \in Nat

VARIABLES
  client,   \* each daemon's client: how far its session is from its end
  session,  \* the relay has a session for the daemon
  caller,   \* how far each call_with_kind has got
  handle,   \* its clone of out_tx: of the session that is on, or of one that has ended
  pending,  \* RelayClient::pending of the asking daemon
  ask,      \* where the ReqStart is: on its way up to the relay, or down from it
  server,   \* the forwarder of the asked daemon, by its clone of out_tx
  sent,     \* the messages of the answer that it has taken
  up,       \* messages from the asked daemon to the relay
  down,     \* messages from the relay to the asking daemon
  answer,   \* what the asked daemon answers
  got,      \* the chunks that reached the caller
  outcome   \* how the answer ended for the caller

links    == <<client, session>>
callers  == <<caller, handle>>
servers  == <<server, sent, answer>>
queues   == <<ask, up, down>>
received == <<pending, got, outcome>>
vars     == <<links, callers, servers, queues, received>>

Daemons == {"asking", "asked"}

NoAnswer == [chunks |-> 0, last |-> "none"]

Answers == [chunks : 0 .. MaxChunks, last : {"end", "error"}]

\* The number of the message that ends the answer.
Last(c) == answer[c].chunks + 1

\* A message that reaches d's session at the relay, or its socket, gets through.
RelayReaches(d)  == session[d] /\ client[d] = "on"
ReachesRelay(d)  == session[d]

Init ==
  /\ client = [d \in Daemons |-> "off"]
  /\ session = [d \in Daemons |-> FALSE]
  /\ caller = [c \in Calls |-> "new"]
  /\ handle = [c \in Calls |-> "none"]
  /\ pending = {}
  /\ ask = [c \in Calls |-> "none"]
  /\ server = [c \in Calls |-> "none"]
  /\ sent = [c \in Calls |-> 0]
  /\ up = [c \in Calls |-> << >>]
  /\ down = [c \in Calls |-> << >>]
  /\ answer = [c \in Calls |-> NoAnswer]
  /\ got = [c \in Calls |-> << >>]
  /\ outcome = [c \in Calls |-> "none"]

-----------------------------------------------------------------------------
(* Sessions                                                                  *)

\* A client registers; the relay refuses while it still has the daemon's old session.
Connect(d) ==
  /\ client[d] = "off" /\ ~session[d]
  /\ client' = [client EXCEPT ![d] = "on"]
  /\ session' = [session EXCEPT ![d] = TRUE]
  /\ UNCHANGED <<callers, servers, queues, received>>

\* The relay's task for the socket ends: what the daemon has sent and the relay has not
\* read is lost.
RelayDrops(d) ==
  /\ session[d]
  /\ session' = [session EXCEPT ![d] = FALSE]
  /\ IF d = "asking"
       THEN /\ ask' = [c \in Calls |-> IF ask[c] = "up" THEN "none" ELSE ask[c]]
            /\ up' = up
       ELSE /\ up' = [c \in Calls |-> << >>]
            /\ ask' = ask
  /\ UNCHANGED <<client, callers, servers, down, received>>

\* run_once leaves its read loop and aborts the writer: every clone of out_tx is dead.  (They
\* are as dead when the writer fails first; what is still read then could have been before.)
ClientEnds(d) ==
  /\ client[d] = "on"
  /\ client' = [client EXCEPT ![d] = "ended"]
  /\ IF d = "asking"
       THEN /\ handle' = [c \in Calls |-> IF handle[c] = "live" THEN "stale" ELSE handle[c]]
            /\ down' = [c \in Calls |-> << >>]
            /\ UNCHANGED <<ask, server>>
       ELSE /\ server' = [c \in Calls |-> IF server[c] = "live" THEN "stale" ELSE server[c]]
            /\ ask' = [c \in Calls |-> IF ask[c] = "down" THEN "none" ELSE ask[c]]
            /\ UNCHANGED <<handle, down>>
  /\ UNCHANGED <<session, caller, sent, answer, up, received>>

\* out_tx becomes None.
ClearSlot(d) ==
  /\ client[d] = "ended"
  /\ client' = [client EXCEPT ![d] = "cleared"]
  /\ UNCHANGED <<session, callers, servers, queues, received>>

DrainLater(d) ==   \* defect: waiters are kept for the next session to answer
  /\ client[d] = "cleared"
  /\ client' = [client EXCEPT ![d] = "off"]
  /\ UNCHANGED <<session, callers, servers, queues, received>>

DrainSilently(d) ==   \* defect: clears the map as it clears the punch waiters
  /\ client[d] = "cleared"
  /\ client' = [client EXCEPT ![d] = "off"]
  /\ pending' = IF d = "asking" THEN {} ELSE pending
  /\ UNCHANGED <<session, callers, servers, queues, got, outcome>>

\* Every waiter gets an error, and the client begins to wait for its next attempt.
Drain(d) ==
  /\ client[d] = "cleared"
  /\ client' = [client EXCEPT ![d] = "off"]
  /\ IF d = "asking"
       THEN /\ outcome' = [c \in Calls |-> IF c \in pending THEN "error" ELSE outcome[c]]
            /\ pending' = {}
       ELSE UNCHANGED <<outcome, pending>>
  /\ UNCHANGED <<session, callers, servers, queues, got>>

-----------------------------------------------------------------------------
(* The asking daemon: call_with_kind                                         *)

CloneHandle(c) ==
  /\ caller[c] = "new" /\ client["asking"] \in {"on", "ended"}
  /\ caller' = [caller EXCEPT ![c] = "cloned"]
  /\ handle' = [handle EXCEPT ![c] = IF client["asking"] = "on" THEN "live" ELSE "stale"]
  /\ UNCHANGED <<links, servers, queues, received>>

Insert(c) ==
  /\ caller[c] = "cloned"
  /\ caller' = [caller EXCEPT ![c] = "inserted"]
  /\ pending' = pending \union {c}
  /\ UNCHANGED <<links, handle, servers, queues, got, outcome>>

Send(c) ==
  /\ caller[c] = "inserted" /\ handle[c] = "live"
  /\ caller' = [caller EXCEPT ![c] = "waiting"]
  /\ ask' = [ask EXCEPT ![c] = IF ReachesRelay("asking") THEN "up" ELSE "none"]
  /\ UNCHANGED <<links, handle, servers, up, down, received>>

\* The writer of that session is gone: the call returns an error and leaves its entry in
\* pending.  Or the aborted writer has not been dropped yet and nobody will send it.
SendStale(c) ==
  /\ caller[c] = "inserted" /\ handle[c] = "stale"
  /\ \E pc \in {"failed", "waiting"} : caller' = [caller EXCEPT ![c] = pc]
  /\ UNCHANGED <<links, handle, servers, queues, received>>

-----------------------------------------------------------------------------
(* The relay: Forward                                                        *)

\* If the asked daemon is offline the asking one gets an error frame, which names no call
\* and which it only logs.
ForwardAsk(c) ==
  /\ ask[c] = "up"
  /\ ask' = [ask EXCEPT ![c] = IF RelayReaches("asked") THEN "down" ELSE "none"]
  /\ UNCHANGED <<links, callers, servers, up, down, received>>

ForwardAnswer(c) ==
  /\ up[c] # << >>
  /\ up' = [up EXCEPT ![c] = Tail(@)]
  /\ down' = IF RelayReaches("asking") THEN [down EXCEPT ![c] = Append(@, Head(up[c]))] ELSE down
  /\ UNCHANGED <<links, callers, servers, ask, received>>

-----------------------------------------------------------------------------
(* The asked daemon: ReqStart, its handler and its forwarder                 *)

\* The request is handed to a task that will send a ({chunks}, end) or ({chunks}, error).
Serve(c) ==
  /\ ask[c] = "down"
  /\ ask' = [ask EXCEPT ![c] = "none"]
  /\ server' = [server EXCEPT ![c] = "live"]
  /\ \E a \in Answers : answer' = [answer EXCEPT ![c] = a]
  /\ UNCHANGED <<links, callers, sent, up, down, received>>

AnswerPastEnd(c) ==   \* defect: the forwarder does not stop after RespEnd or Err
  /\ server[c] = "live"
  /\ sent' = [sent EXCEPT ![c] = @ + 1]
  /\ up' = [up EXCEPT ![c] = IF ReachesRelay("asked") THEN Append(@, sent'[c]) ELSE @]
  /\ UNCHANGED <<links, callers, server, answer, ask, down, received>>

AnswerByDrop(c) ==   \* defect: ends the answer by dropping the channel, without RespEnd
  /\ server[c] = "live"
  /\ sent' = [sent EXCEPT ![c] = @ + 1]
  /\ server' = [server EXCEPT ![c] = IF sent'[c] = Last(c) THEN "over" ELSE @]
  /\ up' = [up EXCEPT ![c] = IF ReachesRelay("asked") /\ sent'[c] # Last(c)
                               THEN Append(@, sent'[c]) ELSE @]
  /\ UNCHANGED <<links, callers, answer, ask, down, received>>

\* The forwarder passes the next message on, and stops after the last.
Answer(c) ==
  /\ server[c] = "live"
  /\ sent' = [sent EXCEPT ![c] = @ + 1]
  /\ server' = [server EXCEPT ![c] = IF sent'[c] = Last(c) THEN "over" ELSE @]
  /\ up' = [up EXCEPT ![c] = IF ReachesRelay("asked") THEN Append(@, sent'[c]) ELSE @]
  /\ UNCHANGED <<links, callers, answer, ask, down, received>>

\* The session of the request is over: the forwarder stops at its next message.
AnswerStale(c) ==
  /\ server[c] = "stale"
  /\ server' = [server EXCEPT ![c] = "over"]
  /\ UNCHANGED <<links, callers, sent, answer, queues, received>>

-----------------------------------------------------------------------------
(* The asking daemon: RespChunk, RespEnd and Err                             *)

\* A message for a call that is not in pending (any more) is ignored.
Receive(c) ==
  /\ down[c] # << >>
  /\ down' = [down EXCEPT ![c] = Tail(@)]
  /\ CASE c \notin pending -> UNCHANGED received
       [] c \in pending /\ Head(down[c]) # Last(c) ->
            /\ got' = [got EXCEPT ![c] = Append(@, Head(down[c]))]
            /\ UNCHANGED <<pending, outcome>>
       [] c \in pending /\ Head(down[c]) = Last(c) ->
            /\ pending' = pending \ {c}
            /\ outcome' = [outcome EXCEPT ![c] = answer[c].last]
            /\ got' = got
  /\ UNCHANGED <<links, callers, servers, ask, up>>

Next ==
  \/ \E d \in Daemons : Connect(d) \/ RelayDrops(d) \/ ClientEnds(d) \/ ClearSlot(d) \/ Drain(d)
  \/ \E c \in Calls :
       \/ CloneHandle(c) \/ Insert(c) \/ Send(c) \/ SendStale(c)
       \/ ForwardAsk(c) \/ ForwardAnswer(c)
       \/ Serve(c) \/ Answer(c) \/ AnswerStale(c)
       \/ Receive(c)

\* Tasks are scheduled and sockets that stay up deliver.  Nobody has to connect, to stay
\* connected or to call; nor has the asked daemon's handler to answer: it waits for its own
\* runtime without a time limit (run_local), and the forwarder for what the handler sends.
Fairness ==
  /\ \A d \in Daemons : WF_vars(ClearSlot(d)) /\ WF_vars(Drain(d))
  /\ \A c \in Calls :
       /\ WF_vars(Insert(c)) /\ WF_vars(Send(c) \/ SendStale(c))
       /\ WF_vars(ForwardAsk(c)) /\ WF_vars(ForwardAnswer(c))
       /\ WF_vars(Serve(c)) /\ WF_vars(Receive(c))

Spec == Init /\ [][Next]_vars

FairSpec == Spec /\ Fairness

-----------------------------------------------------------------------------
(* Properties                                                                *)

\* Every variable keeps its shape; no message is numbered past the end of its answer.
TypeOK ==
  /\ client \in [Daemons -> {"off", "on", "ended", "cleared"}]
  /\ session \in [Daemons -> BOOLEAN]
  /\ caller \in [Calls -> {"new", "cloned", "inserted", "waiting", "failed"}]
  /\ handle \in [Calls -> {"none", "live", "stale"}]
  /\ pending \subseteq Calls
  /\ ask \in [Calls -> {"none", "up", "down"}]
  /\ server \in [Calls -> {"none", "live", "stale", "over"}]
  /\ answer \in [Calls -> Answers \union {NoAnswer}]
  /\ sent \in [Calls -> Nat] /\ \A c \in Calls : sent[c] <= Last(c)
  /\ up \in [Calls -> Seq(Nat)] /\ down \in [Calls -> Seq(Nat)] /\ got \in [Calls -> Seq(Nat)]
  /\ outcome \in [Calls -> {"none", "end", "error"}]

\* A caller that is still waiting can still be reached, by its answer or by the next
\* drain: no overlap of a call with the end of a session takes its entry away and leaves
\* it waiting.
WaitersAreReachable ==
  \A c \in Calls : caller[c] = "waiting" /\ outcome[c] = "none" => c \in pending

\* Whatever sockets break, on whichever side and at whatever time it is noticed, a caller
\* gets a gapless beginning of the answer, and an end only after all of it.
Replies == INSTANCE ReplyStream WITH Calls <- Calls, Answers <- Answers,
                                   answer <- answer, got <- got, outcome <- outcome

RepliesAreStreams == Replies!Spec

Steady == \A d \in Daemons : session[d] /\ client[d] = "on"

\* The end of the answer is still to come: its messages or the request are on their way.
Coming(c) ==
  \/ ask[c] # "none" \/ server[c] = "live"
  \/ \E i \in 1 .. Len(up[c]) : up[c][i] = Last(c)
  \/ \E i \in 1 .. Len(down[c]) : down[c][i] = Last(c)

\* All that the asked daemon's handler has sent has arrived, and the caller waits for more.
Silent(c) == server[c] = "live" /\ ask[c] = "none" /\ up[c] = << >> /\ down[c] = << >>

\* While all sockets hold, a request that is on its way is answered to the end, unless the
\* handler that has it falls silent for ever; then the caller has all that was sent.
AnswersArrive ==
  \A c \in Calls :
    (c \in pending /\ Coming(c)) ~> (outcome[c] # "none" \/ ~Steady \/ []Silent(c))

Asked(c) == caller[c] = "waiting" /\ handle[c] = "live" /\ session["asking"]

\* What the documentation of call says: the receiver it returns yields "Chunk ... End |
\* Error".  At least while the session that the call was made in lasts.
CallsEnd == \A c \in Calls : Asked(c) ~> (outcome[c] # "none" \/ ~Asked(c))
=============================================================================
