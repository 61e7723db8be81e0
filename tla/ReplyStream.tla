---------------------------- MODULE ReplyStream ----------------------------
(****************************************************************************)
(* What a call over the relay promises its caller (RelayClient::call): the  *)
(* chunks of the peer's answer, each once, in order and without a gap, then *)
(* the end that the peer gave it.  An error may cut it short; an answer     *)
(* that is cut short is never taken for a complete one.                     *)
(****************************************************************************)
EXTENDS Naturals, Sequences

CONSTANTS
  Calls,
  Answers   \* records of a number of chunks and how the answer ends: "end" or "error"

VARIABLES
  answer,   \* what the peer answers
  got,      \* the chunks the caller has got, by their number
  outcome   \* how the answer ended for the caller

vars == <<answer, got, outcome>>

NoAnswer == [chunks |-> 0, last |-> "none"]

Init ==
  /\ answer = [c \in Calls |-> NoAnswer]
  /\ got = [c \in Calls |-> << >>]
  /\ outcome = [c \in Calls |-> "none"]

Begin(c) ==
  /\ answer[c] = NoAnswer
  /\ \E a \in Answers : answer' = [answer EXCEPT ![c] = a]
  /\ UNCHANGED <<got, outcome>>

Deliver(c) ==
  /\ outcome[c] = "none"
  /\ Len(got[c]) < answer[c].chunks
  /\ got' = [got EXCEPT ![c] = Append(@, Len(@) + 1)]
  /\ UNCHANGED <<answer, outcome>>

Finish(c) ==
  /\ outcome[c] = "none"
  /\ answer[c].last # "none" /\ Len(got[c]) = answer[c].chunks
  /\ outcome' = [outcome EXCEPT ![c] = answer[c].last]
  /\ UNCHANGED <<answer, got>>

\* The connection is lost: the calls in D get an error.
Fail(D) ==
  /\ \A c \in D : outcome[c] = "none"
  /\ outcome' = [c \in Calls |-> IF c \in D THEN "error" ELSE outcome[c]]
  /\ UNCHANGED <<answer, got>>

Next ==
  \/ \E c \in Calls : Begin(c) \/ Deliver(c) \/ Finish(c)
  \/ \E D \in SUBSET Calls : Fail(D)

Spec == Init /\ [][Next]_vars
=============================================================================
