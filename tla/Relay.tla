-------------------------------- MODULE Relay --------------------------------
(****************************************************************************)
(* The relay server (unhosted-relay/src/main.rs): which sockets it admits,  *)
(* which public key each registered socket speaks for, and how it brings    *)
(* the two halves of a hole punch together.                                 *)
(*                                                                          *)
(* Every socket is served by a task of its own.  sessions, ip_sessions and  *)
(* pending_punches are three maps behind three mutexes, never held          *)
(* together, so an action is one critical section on one of the maps and    *)
(* the other sockets' tasks move in between.                                *)
(*                                                                          *)
(* Abstracted: the challenge signature (a socket either proves a key or     *)
(* fails to register); the external address of a punch is the IP of the     *)
(* socket that asked; the clock of a pending half is whether its 30 s are   *)
(* over.  The payloads that Forward carries do not touch these maps.        *)
(****************************************************************************)
EXTENDS Naturals, FiniteSets

CONSTANTS
  Conns,        \* sockets
  Keys,         \* public keys of the peers
  Ips,          \* source addresses
  MaxSessions,  \* MAX_SESSIONS
  MaxPerIp,     \* MAX_SESSIONS_PER_IP
  NoOne         \* neither a socket, a key nor an address

ASSUME ConnsFinite == IsFiniteSet(Conns)
ASSUME CapsAreNat  == MaxSessions \in Nat /\ MaxPerIp \in Nat
ASSUME NoOneIsNone == NoOne \notin Conns /\ NoOne \notin Keys /\ NoOne \notin Ips

VARIABLES
  conn,      \* how far each socket's task has got
  ip,        \* the address each socket comes from
  key,       \* the public key it registered
  sessions,  \* public key -> the socket whose channel is stored for it
  ipCount,   \* sockets counted for each address
  half,      \* <<asker, target>> -> external address of a half punch that waits
  stale,     \* the halves whose 30 s are over
  match,     \* the counterpart's address a task holds between its two critical sections
  told       \* the last PunchTarget sent to each socket

sockets == <<conn, ip, key>>
punches == <<half, stale, match, told>>
vars    == <<sockets, sessions, ipCount, punches>>

Pairs == Keys \X Keys
Msg   == [peer : Keys, addr : Ips]

\* closed -> admitted -> hello -> open (<-> punching) -> leaving -> closed
\*                           \-> failing -> closed
ConnPC == {"closed", "admitted", "hello", "failing", "open", "punching", "leaving"}

-----------------------------------------------------------------------------
(* Helpers                                                                   *)

Goto(c, pc) == conn' = [conn EXCEPT ![c] = pc]

Registered(c) == conn[c] \in {"open", "punching"}

\* The sockets of address i that have a slot: from hello to the end of the clean-up.
HoldsSlot(c) == conn[c] \notin {"closed", "admitted"}
Slots(i)     == {c \in Conns : ip[c] = i /\ HoldsSlot(c)}

Live == {k \in Keys : sessions[k] # NoOne}

-----------------------------------------------------------------------------
Init ==
  /\ conn = [c \in Conns |-> "closed"]
  /\ ip = [c \in Conns |-> NoOne]
  /\ key = [c \in Conns |-> NoOne]
  /\ sessions = [k \in Keys |-> NoOne]
  /\ ipCount = [i \in Ips |-> 0]
  /\ half = [p \in Pairs |-> NoOne]
  /\ stale = {}
  /\ match = [c \in Conns |-> NoOne]
  /\ told = [c \in Conns |-> NoOne]

-----------------------------------------------------------------------------
(* Admission                                                                 *)

\* A socket arrives: the cap on all sessions is looked up under the sessions lock.
Admit(c, i) ==
  /\ conn[c] = "closed"
  /\ Cardinality(Live) < MaxSessions
  /\ Goto(c, "admitted")
  /\ ip' = [ip EXCEPT ![c] = i]
  /\ UNCHANGED <<key, sessions, ipCount, punches>>

ReserveSlotOneMore(c) ==   \* defect: off by one against the share
  /\ conn[c] = "admitted"
  /\ ipCount[ip[c]] <= MaxPerIp
  /\ Goto(c, "hello")
  /\ ipCount' = [ipCount EXCEPT ![ip[c]] = @ + 1]
  /\ UNCHANGED <<ip, key, sessions, punches>>

\* Then a slot is taken from the address's share, or the socket is turned away.
ReserveSlot(c) ==
  /\ conn[c] = "admitted"
  /\ IF ipCount[ip[c]] >= MaxPerIp
     THEN /\ Goto(c, "closed")
          /\ ip' = [ip EXCEPT ![c] = NoOne]
          /\ UNCHANGED ipCount
     ELSE /\ Goto(c, "hello")
          /\ ipCount' = [ipCount EXCEPT ![ip[c]] = @ + 1]
          /\ UNCHANGED ip
  /\ UNCHANGED <<key, sessions, punches>>

RegisterReplacing(c, k) ==   \* defect: the newer socket takes the key over
  /\ conn[c] = "hello"
  /\ Goto(c, "open")
  /\ key' = [key EXCEPT ![c] = k]
  /\ sessions' = [sessions EXCEPT ![k] = c]
  /\ UNCHANGED <<ip, ipCount, punches>>

\* The client proves key k: the session is stored, unless the key has one already.
Register(c, k) ==
  /\ conn[c] = "hello"
  /\ IF sessions[k] # NoOne
     THEN Goto(c, "failing") /\ UNCHANGED <<key, sessions>>
     ELSE /\ Goto(c, "open")
          /\ key' = [key EXCEPT ![c] = k]
          /\ sessions' = [sessions EXCEPT ![k] = c]
  /\ UNCHANGED <<ip, ipCount, punches>>

\* The socket closes, or what it sends is no valid registration.
RegisterFails(c) ==
  /\ conn[c] = "hello"
  /\ Goto(c, "failing")
  /\ UNCHANGED <<ip, key, sessions, ipCount, punches>>

-----------------------------------------------------------------------------
(* Departure                                                                 *)

UnregisterForgets(c) ==   \* defect: leaves the dead socket's session behind
  /\ conn[c] = "open"
  /\ Goto(c, "leaving")
  /\ UNCHANGED <<ip, key, sessions, ipCount, punches>>

\* The read loop ends: the session stored under this socket's key is removed.
Unregister(c) ==
  /\ conn[c] = "open"
  /\ Goto(c, "leaving")
  /\ sessions' = [sessions EXCEPT ![key[c]] = NoOne]
  /\ UNCHANGED <<ip, key, ipCount, punches>>

ReleaseSlotOfRegistered(c) ==   \* defect: a failed registration keeps its slot
  /\ conn[c] \in {"failing", "leaving"}
  /\ Goto(c, "closed")
  /\ ipCount' = IF conn[c] = "leaving" THEN [ipCount EXCEPT ![ip[c]] = @ - 1] ELSE ipCount
  /\ ip' = [ip EXCEPT ![c] = NoOne]
  /\ key' = [key EXCEPT ![c] = NoOne]
  /\ told' = [told EXCEPT ![c] = NoOne]
  /\ UNCHANGED <<sessions, half, stale, match>>

\* The address gets its slot back (saturating_sub), after either way out.
ReleaseSlot(c) ==
  /\ conn[c] \in {"failing", "leaving"}
  /\ Goto(c, "closed")
  /\ ipCount' = [ipCount EXCEPT ![ip[c]] = IF @ = 0 THEN 0 ELSE @ - 1]
  /\ ip' = [ip EXCEPT ![c] = NoOne]
  /\ key' = [key EXCEPT ![c] = NoOne]
  /\ told' = [told EXCEPT ![c] = NoOne]
  /\ UNCHANGED <<sessions, half, stale, match>>

-----------------------------------------------------------------------------
(* Hole punching                                                             *)

PunchAlwaysRecords(c, k) ==   \* defect: records its half without looking for the other
  /\ conn[c] = "open"
  /\ half' = [p \in Pairs |-> IF p = <<key[c], k>> THEN ip[c]
                              ELSE IF p \in stale THEN NoOne ELSE half[p]]
  /\ stale' = {}
  /\ UNCHANGED <<sockets, sessions, ipCount, match, told>>

PunchTakesOwnHalf(c, k) ==   \* defect: takes the address from under the wrong key
  /\ conn[c] = "open"
  /\ LET mine   == <<key[c], k>>
         theirs == <<k, key[c]>>
     IN  IF half[theirs] # NoOne
         THEN /\ match' = [match EXCEPT ![c] = [peer |-> k, addr |-> half[mine]]]
              /\ half' = [half EXCEPT ![theirs] = NoOne]
              /\ Goto(c, "punching")
         ELSE half' = [half EXCEPT ![mine] = ip[c]] /\ UNCHANGED <<match, conn>>
  /\ UNCHANGED <<ip, key, sessions, ipCount, stale, told>>

\* PunchRequest naming k: drop the stale halves, then either take the half with which k
\* waits for this key, or leave one of our own.
PunchRequest(c, k) ==
  /\ conn[c] = "open"
  /\ LET mine   == <<key[c], k>>
         theirs == <<k, key[c]>>
         fresh  == [p \in Pairs |-> IF p \in stale THEN NoOne ELSE half[p]]
     IN  IF fresh[theirs] # NoOne
         THEN /\ half' = [fresh EXCEPT ![theirs] = NoOne]
              /\ match' = [match EXCEPT ![c] = [peer |-> k, addr |-> fresh[theirs]]]
              /\ Goto(c, "punching")
         ELSE /\ half' = [fresh EXCEPT ![mine] = ip[c]]
              /\ UNCHANGED <<match, conn>>
  /\ stale' = {}
  /\ UNCHANGED <<ip, key, sessions, ipCount, told>>

\* With the pending map released, look the peer's session up and tell both sides.  The
\* peer may have gone by now, or have come back on another socket.
PunchTell(c) ==
  /\ conn[c] = "punching"
  /\ LET peer == sessions[match[c].peer]
         mine == [peer |-> key[c], addr |-> ip[c]]
         told1 == [told EXCEPT ![c] = match[c]]
     IN  told' = IF peer = NoOne THEN told1 ELSE [told1 EXCEPT ![peer] = mine]
  /\ match' = [match EXCEPT ![c] = NoOne]
  /\ Goto(c, "open")
  /\ UNCHANGED <<ip, key, sessions, ipCount, half, stale>>

\* Thirty seconds pass for a waiting half.
HalfExpires(p) ==
  /\ half[p] # NoOne /\ p \notin stale
  /\ stale' = stale \union {p}
  /\ UNCHANGED <<sockets, sessions, ipCount, half, match, told>>

-----------------------------------------------------------------------------
\* The relay restarts: nothing is persisted, every socket is cut.
Restart ==
  /\ conn' = [c \in Conns |-> "closed"]
  /\ ip' = [c \in Conns |-> NoOne]
  /\ key' = [c \in Conns |-> NoOne]
  /\ sessions' = [k \in Keys |-> NoOne]
  /\ ipCount' = [i \in Ips |-> 0]
  /\ half' = [p \in Pairs |-> NoOne]
  /\ stale' = {}
  /\ match' = [c \in Conns |-> NoOne]
  /\ told' = [c \in Conns |-> NoOne]

Next ==
  \/ \E c \in Conns :
       \/ \E i \in Ips : Admit(c, i)
       \/ ReserveSlot(c)
       \/ \E k \in Keys : Register(c, k)
       \/ RegisterFails(c)
       \/ Unregister(c)
       \/ ReleaseSlot(c)
       \/ \E k \in Keys : PunchRequest(c, k)
       \/ PunchTell(c)
  \/ \E p \in Pairs : HalfExpires(p)
  \/ Restart

Spec == Init /\ [][Next]_vars

-----------------------------------------------------------------------------
(* Properties                                                                *)

TypeOK ==
  /\ conn \in [Conns -> ConnPC]
  /\ ip \in [Conns -> Ips \union {NoOne}]
  /\ key \in [Conns -> Keys \union {NoOne}]
  /\ sessions \in [Keys -> Conns \union {NoOne}]
  /\ ipCount \in [Ips -> Nat]
  /\ half \in [Pairs -> Ips \union {NoOne}]
  /\ stale \subseteq Pairs
  /\ match \in [Conns -> Msg \union {NoOne}]
  /\ told \in [Conns -> Msg \union {NoOne}]

\* The count kept for an address is the number of its sockets between the Hello and the
\* end of their clean-up: no way out of handle_socket keeps a slot or gives one back
\* twice, so the saturating subtraction never has anything to hide.
SlotsMatchSockets == \A i \in Ips : ipCount[i] = Cardinality(Slots(i))

\* No address ever has more than MaxPerIp of those sockets.
ShareHonoured == \A i \in Ips : Cardinality(Slots(i)) <= MaxPerIp

\* A key's session is the channel of a socket that proved this key and still serves it,
\* and every such socket is reachable: the clean-up, which removes by key, never takes
\* the session of a client that has come back away.
SessionsAreTheirSockets ==
  /\ \A k \in Keys : sessions[k] # NoOne =>
       Registered(sessions[k]) /\ key[sessions[k]] = k
  /\ \A c \in Conns : Registered(c) => sessions[key[c]] = c

\* Two peers never wait for each other: of the halves <<a, b>> and <<b, a>> at most one
\* is pending, whichever order, repetition, expiry or reconnection the requests see.
OneHalfPerPair ==
  \A a, b \in Keys : a # b => half[<<a, b>>] = NoOne \/ half[<<b, a>>] = NoOne

\* Nobody but its own socket ends a session (and a restart, which ends all of them).
SessionStep ==
  \A k \in Keys :
    sessions[k] # NoOne /\ sessions'[k] # sessions[k] =>
      sessions'[k] = NoOne /\ conn'[sessions[k]] \in {"leaving", "closed"}

SessionsAreNotStolen == [][SessionStep]_vars

\* What the comment at handle_socket promises: the cap on the total number of sessions
\* is enforced.
SessionCapHolds == Cardinality(Live) <= MaxSessions

=============================================================================
