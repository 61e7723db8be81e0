--------------------------------- MODULE Runs ---------------------------------
(****************************************************************************)
(* How a prompt finds a model: POST /v1/run and POST /v1/chat/completions.  *)
(*                                                                          *)
(* The daemon that a client asks takes turns between itself and its peers.  *)
(* A peer is tried over QUIC (run only, when it is switched on), then over  *)
(* HTTP, then over the relay (run only); when none will do the daemon asks  *)
(* the model runtime of its own machine, the first of several that is live. *)
(* A daemon that is asked by a peer uses its own runtime, and no peer.      *)
(*                                                                          *)
(* The paths fail at different moments: HTTP reports the peer's status      *)
(* before the answer begins; QUIC and the relay are taken at their word as  *)
(* soon as the request is written, so what goes wrong after that is part of *)
(* the answer.  Meanwhile runtimes come and go, the list of peers is        *)
(* replaced, links to the relay come and go, and connections break.         *)
(*                                                                          *)
(* Abstracted: an answer is its kind; a request body is nothing but its     *)
(* request; the daemon's clients are its own user.  No two daemons share a  *)
(* machine.                                                                 *)
(****************************************************************************)
EXTENDS Naturals, Sequences, FiniteSets

CONSTANTS
  Machines,
  Requests,      \* bound: requests of clients, each made once
  HomeOf,        \* the daemon each of them is sent to
  KindOf,        \* "run" or "chat"
  ListsOf,       \* bound: the lists of peers that each router is given, best first
  Trusts,        \* bound: who may have whose key at first
  Runtimes,      \* runtimes of a machine in the order they are tried
  QuicOn,        \* daemons started with UNHOSTED_QUIC_RUN
  DlpOn,         \* daemons with a DLP endpoint
  MaxChanges,    \* bound: changes of runtimes, links and lists
  MaxBreaks      \* bound: connections that break

ASSUME RequestsAreFinite == IsFiniteSet(Requests)
ASSUME HomesAreMachines == HomeOf \in [Requests -> Machines]
ASSUME KindsAreKinds == KindOf \in [Requests -> {"run", "chat"}]
ASSUME ListsArePeers ==
  DOMAIN ListsOf = Machines /\ \A m \in Machines : ListsOf[m] \subseteq Seq(Machines \ {m})
ASSUME TrustsAreOfPeers == Trusts \subseteq [Machines -> SUBSET Machines]
ASSUME RuntimesAreListed == \A i \in DOMAIN Runtimes : i \in Nat \ {0}
ASSUME SwitchesAreMachines == QuicOn \subseteq Machines /\ DlpOn \subseteq Machines
ASSUME Bounds == MaxChanges \in Nat /\ MaxBreaks \in Nat

VARIABLES
  peers,     \* the router's targets but the first, which is the daemon itself
  counter,   \* how many targets the router has given out
  trusts,    \* the peers whose keys each registry holds
  backend,   \* what each runtime of each machine is: down, empty, or with a chat model
  pool,      \* machines whose VRAM pool is running
  linked,    \* daemons registered with the relay
  request,   \* what each request has got to
  calls,     \* requests on their way to peers, and the answers to them
  active,    \* the gauge of chat completions in progress
  changes, breaks,
  turns,     \* history: how often the target of each turn was given out since the list was replaced
  asked      \* history: <<request, machine>> whose runtime was asked for an answer

world    == <<trusts, backend, pool, linked, changes>>
routing  == <<peers, counter, turns>>
runsVars == <<world, routing, request, calls, active, breaks, asked>>

\* done: the answer has been given, whole or not.
Phases  == {"off", "dlp", "go", "quic", "http", "relay", "wait", "local", "stream", "done"}
Replies == {"none", "tokens", "notice", "offline", "failed", "blocked", "cut"}

Request == [pc : Phases, target : Machines, reply : Replies]

Fresh(r) == [pc |-> "off", target |-> HomeOf[r], reply |-> "none"]

\* A call to a peer, and what has come back: a refusing status, or an answer that is
\* generated, a notice that something failed, or an error in place of the rest.  What the
\* relay has lost does not come back, and nobody is told.
Paths  == {"quic", "http", "relay"}
Stages == {"sent", "refused", "tokens", "notice", "error", "lost"}

Call == [of : Requests, to : Machines, via : Paths, at : Stages, live : BOOLEAN]

\* build_targets: the daemon itself, then its peers.
Targets(m) == <<m>> \o peers[m]

RunsTypeOK ==
  /\ DOMAIN turns = Machines
  /\ peers \in [Machines -> Seq(Machines)]
  /\ counter \in [Machines -> Nat]
  /\ trusts \in [Machines -> SUBSET Machines]
  /\ backend \in [Machines -> [DOMAIN Runtimes -> {"down", "empty", "model"}]]
  /\ pool \subseteq Machines /\ linked \subseteq Machines
  /\ request \in [Requests -> Request]
  /\ calls \subseteq Call
  /\ active \in [Machines -> Nat]
  /\ changes \in 0 .. MaxChanges /\ breaks \in 0 .. MaxBreaks
  /\ \A m \in Machines : turns[m] \in [1 .. Len(Targets(m)) -> Nat]
  /\ asked \subseteq Requests \X Machines

\* Trust need not be mutual: an answer to pair/accept may have been lost.
RunsInit ==
  /\ peers \in [Machines -> UNION {ListsOf[m] : m \in Machines}]
  /\ \A m \in Machines : peers[m] \in ListsOf[m]
  /\ counter = [m \in Machines |-> 0]
  /\ trusts \in Trusts
  /\ backend = [m \in Machines |-> [i \in DOMAIN Runtimes |-> "model"]]
  /\ pool = {} /\ linked = Machines
  /\ request = [r \in Requests |-> Fresh(r)]
  /\ calls = {}
  /\ active = [m \in Machines |-> 0]
  /\ changes = 0 /\ breaks = 0
  /\ turns = [m \in Machines |-> [i \in 1 .. Len(peers[m]) + 1 |-> 0]]
  /\ asked = {}

-----------------------------------------------------------------------------
(* The world around                                                          *)

Changing == changes < MaxChanges /\ changes' = changes + 1

RuntimeChanges(m, i) ==
  /\ Changing
  /\ \E s \in {"down", "empty", "model"} \ {backend[m][i]} :
       backend' = [backend EXCEPT ![m][i] = s]
  /\ UNCHANGED <<trusts, pool, linked, routing, request, calls, active, breaks, asked>>

PoolChanges(m) ==
  /\ Changing
  /\ pool' = IF m \in pool THEN pool \ {m} ELSE pool \union {m}
  /\ UNCHANGED <<trusts, backend, linked, routing, request, calls, active, breaks, asked>>

\* A client of the relay drains its pending calls before it connects again.
LinkChanges(m) ==
  /\ Changing
  /\ m \in linked \/ \A c \in calls : ~(c.via = "relay" /\ c.live /\ HomeOf[c.of] = m)
  /\ linked' = IF m \in linked THEN linked \ {m} ELSE linked \union {m}
  /\ UNCHANGED <<trusts, backend, pool, routing, request, calls, active, breaks, asked>>

\* replace_peers: the counter keeps advancing.
Reload(m, list) ==
  /\ Changing
  /\ list \in ListsOf[m] \ {peers[m]}
  /\ peers' = [peers EXCEPT ![m] = list]
  /\ turns' = [turns EXCEPT ![m] = [i \in 1 .. Len(list) + 1 |-> 0]]
  /\ UNCHANGED <<counter, trusts, backend, pool, linked, request, calls, active, breaks, asked>>

-----------------------------------------------------------------------------
(* Which runtime                                                             *)

\* try_backend: a runtime that lists its models is taken, whether it has any or not.
Live(m) == {i \in DOMAIN Runtimes : backend[m][i] # "down"}

\* select_live: the first that is live.
SelectLive(m) == CHOOSE i \in Live(m) : \A j \in Live(m) : i <= j

\* Only chats go through the pool.
HasUpstream(m, kind) == Live(m) # {} \/ (kind = "chat" /\ m \in pool)

\* An empty runtime, or one that is busy or dying, answers with an error; a pool does as well.
Outcomes(m, kind) ==
  IF ~HasUpstream(m, kind) THEN {"offline"}
  ELSE IF kind = "chat" /\ m \in pool THEN {"tokens", "failed"}
  ELSE IF backend[m][SelectLive(m)] = "model" THEN {"tokens", "failed"} ELSE {"failed"}

Ask(r, m) == asked' = IF HasUpstream(m, KindOf[r]) THEN asked \union {<<r, m>>} ELSE asked

-----------------------------------------------------------------------------
(* run_handler and chat_completions_handler, on the daemon that is asked     *)

\* Router::next.
Turn(m) == (counter[m] % Len(Targets(m))) + 1

NextTarget(m) == Targets(m)[Turn(m)]

At(r, pc) == request[r].pc = pc

Update(r, q) == request' = [request EXCEPT ![r] = q]

Goto(r, pc) == Update(r, [request[r] EXCEPT !.pc = pc])

Finish(r, reply) == Update(r, [request[r] EXCEPT !.pc = "done", !.reply = reply])

\* ActiveGuard is dropped when the handler returns, and an answer may still be streaming.
Return(r) == active' = IF KindOf[r] = "chat" THEN [active EXCEPT ![HomeOf[r]] = @ - 1] ELSE active

StartCountsPeersOnly(r) ==   \* defect: the counter stays when the turn is the daemon's own
  LET m == HomeOf[r]
      t == NextTarget(m) IN
  /\ At(r, "off")
  /\ counter' = [counter EXCEPT ![m] = IF t = m /\ peers[m] # << >> THEN @ + 2 ELSE @ + 1]
  /\ turns' = [turns EXCEPT ![m][Turn(m)] = @ + 1]
  /\ active' = IF KindOf[r] = "chat" THEN [active EXCEPT ![m] = @ + 1] ELSE active
  /\ Update(r, [request[r] EXCEPT !.target = t,
                  !.pc = IF KindOf[r] = "chat" /\ m \in DlpOn THEN "dlp" ELSE "go"])
  /\ UNCHANGED <<world, peers, calls, breaks, asked>>

\* The client's request is taken, given a target, and counted.
Start(r) ==
  LET m == HomeOf[r]
      t == NextTarget(m) IN
  /\ At(r, "off")
  /\ counter' = [counter EXCEPT ![m] = @ + 1]
  /\ turns' = [turns EXCEPT ![m][Turn(m)] = @ + 1]
  /\ active' = IF KindOf[r] = "chat" THEN [active EXCEPT ![m] = @ + 1] ELSE active
  /\ Update(r, [request[r] EXCEPT !.target = t,
                  !.pc = IF KindOf[r] = "chat" /\ m \in DlpOn THEN "dlp" ELSE "go"])
  /\ UNCHANGED <<world, peers, calls, breaks, asked>>

\* The policy service allows, or it fails and the daemon is set to let that pass.
DlpAllows(r) ==
  /\ At(r, "dlp") /\ Goto(r, "go")
  /\ UNCHANGED <<world, routing, calls, active, breaks, asked>>

\* The early return comes before the guard that counts the chat out.
DlpBlocks(r) ==
  /\ At(r, "dlp") /\ Finish(r, "blocked")
  /\ UNCHANGED <<world, routing, calls, active, breaks, asked>>

Trusted(r) == request[r].target \in trusts[HomeOf[r]]

Dispatch(r) ==
  /\ At(r, "go")
  /\ Goto(r, IF request[r].target = HomeOf[r] THEN "local"
             ELSE IF KindOf[r] = "run" /\ Trusted(r) /\ HomeOf[r] \in QuicOn THEN "quic"
             ELSE "http")
  /\ UNCHANGED <<world, routing, calls, active, breaks, asked>>

Send(r, via) ==
  calls' = calls \union {[of |-> r, to |-> request[r].target, via |-> via,
                          at |-> "sent", live |-> TRUE]}

\* The handshake succeeds when each side's registry holds the other's key.  The answer then
\* begins, whatever it will be.
QuicConnects(r) ==
  /\ At(r, "quic") /\ HomeOf[r] \in trusts[request[r].target]
  /\ Send(r, "quic")
  /\ Goto(r, "stream")
  /\ UNCHANGED <<world, routing, active, breaks, asked>>

QuicFails(r) ==
  /\ At(r, "quic")
  /\ Goto(r, "http")
  /\ UNCHANGED <<world, routing, calls, active, breaks, asked>>

PostToPeer(r) ==
  /\ At(r, "http")
  /\ Send(r, "http")
  /\ Goto(r, "wait")
  /\ UNCHANGED <<world, routing, active, breaks, asked>>

\* The call of r over this path has come to this.
CallOf(r, via, ats) == {c \in calls : c.of = r /\ c.via = via /\ c.live /\ c.at \in ats}

\* The peer's status is good: its answer is passed on as it comes.
PeerAccepts(r) ==
  /\ At(r, "wait") /\ CallOf(r, "http", {"tokens", "error"}) # {}
  /\ Goto(r, "stream")
  /\ Return(r)
  /\ UNCHANGED <<world, routing, calls, breaks, asked>>

\* Over to the relay, when the peer has a key and the relay is there; chats have no relay.
Fallback(r) ==
  Goto(r, IF KindOf[r] = "run" /\ Trusted(r) /\ HomeOf[r] \in linked THEN "relay" ELSE "local")

PeerRefusesIsFinal(r) ==   \* defect: the peer's status is passed on to the client
  /\ At(r, "wait")
  /\ \E c \in CallOf(r, "http", {"refused"}) : calls' = calls \ {c}
  /\ Finish(r, "failed") /\ Return(r)
  /\ UNCHANGED <<world, routing, breaks, asked>>

PeerRefusesIsRetried(r) ==   \* defect: the same path is tried again
  /\ At(r, "wait")
  /\ \E c \in CallOf(r, "http", {"refused"}) : calls' = calls \ {c}
  /\ Goto(r, "http")
  /\ UNCHANGED <<world, routing, active, breaks, asked>>

PeerRefuses(r) ==
  /\ At(r, "wait")
  /\ \E c \in CallOf(r, "http", {"refused"}) : calls' = calls \ {c}
  /\ Fallback(r)
  /\ UNCHANGED <<world, routing, active, breaks, asked>>

\* The connection breaks, or is never made; the peer may still be at it.
PeerBreaks(r) ==
  /\ At(r, "wait") /\ breaks < MaxBreaks /\ breaks' = breaks + 1
  /\ \E c \in CallOf(r, "http", {"sent"}), gone \in BOOLEAN :
       calls' = (calls \ {c}) \union (IF gone THEN {} ELSE {[c EXCEPT !.live = FALSE]})
  /\ Fallback(r)
  /\ UNCHANGED <<world, routing, active, asked>>

\* RelayClient::call succeeds as soon as the frame is handed to the writer.
RelayTakes(r) ==
  /\ At(r, "relay")
  /\ IF HomeOf[r] \in linked
     THEN Send(r, "relay") /\ Goto(r, "stream")
     ELSE Goto(r, "local") /\ UNCHANGED calls
  /\ UNCHANGED <<world, routing, active, breaks, asked>>

\* run_local and proxy_chat_local.
ServeLocally(r) ==
  /\ At(r, "local")
  /\ Ask(r, HomeOf[r])
  /\ \E outcome \in Outcomes(HomeOf[r], KindOf[r]) : Finish(r, outcome)
  /\ Return(r)
  /\ UNCHANGED <<world, routing, calls, breaks>>

\* The rest of a peer's answer.
StreamEnds(r) ==
  /\ At(r, "stream")
  /\ \E c \in calls :
       /\ c.of = r /\ c.live /\ c.at \in {"tokens", "notice", "error"}
       /\ calls' = calls \ {c}
       /\ Finish(r, IF c.at = "error" THEN "cut" ELSE c.at)
  /\ UNCHANGED <<world, routing, active, breaks, asked>>

StreamBreaks(r) ==
  /\ At(r, "stream") /\ breaks < MaxBreaks /\ breaks' = breaks + 1
  /\ \E c \in calls, gone \in BOOLEAN :
       /\ c.of = r /\ c.live
       /\ calls' = (calls \ {c}) \union
                     (IF gone \/ c.at # "sent" THEN {} ELSE {[c EXCEPT !.live = FALSE]})
  /\ Finish(r, "cut")
  /\ UNCHANGED <<world, routing, active, asked>>

\* The daemon's own session with the relay is over, and every call that waits gets an error.
RelayEnds(r) ==
  /\ At(r, "stream") /\ HomeOf[r] \notin linked
  /\ \E c \in CallOf(r, "relay", Stages), gone \in BOOLEAN :
       calls' = (calls \ {c}) \union
                  (IF gone \/ c.at # "sent" THEN {} ELSE {[c EXCEPT !.live = FALSE]})
  /\ Finish(r, "cut")
  /\ UNCHANGED <<world, routing, active, breaks, asked>>

-----------------------------------------------------------------------------
(* The peer that is called                                                   *)

Advance(c, at) == (calls \ {c}) \union (IF c.live THEN {[c EXCEPT !.at = at]} ELSE {})

\* classify: a run is signed when the caller has the peer's key, a chat never is; what is not
\* signed passes only from the machine itself.
Accepted(c) ==
  LET o == HomeOf[c.of] IN
  \/ c.via # "http"
  \/ KindOf[c.of] = "run" /\ c.to \in trusts[o] /\ o \in trusts[c.to]

Refuse(c) ==
  /\ c \in calls /\ c.at = "sent" /\ ~Accepted(c)
  /\ calls' = Advance(c, "refused")
  /\ UNCHANGED <<world, routing, request, active, breaks, asked>>

\* What goes over the relay gets there, and back, while both daemons are linked.
Reaches(c) ==
  c.via = "relay" => c.to \in linked /\ (c.live => HomeOf[c.of] \in linked)

ServeOnward(c) ==   \* defect: the header that marks a forwarded request is not looked at
  LET t == NextTarget(c.to) IN
  /\ c \in calls /\ c.at = "sent" /\ Accepted(c) /\ Reaches(c)
  /\ Ask(c.of, t)
  /\ counter' = [counter EXCEPT ![c.to] = @ + 1]
  /\ calls' = Advance(c, "tokens")
  /\ UNCHANGED <<world, peers, turns, request, active, breaks>>

\* A forwarded request is served by the peer's own runtime.  Over HTTP its status tells how
\* that went; over the relay and QUIC "offline" is text like any other, and a failed runtime
\* is an error event over the one and text over the other.
Serve(c) ==
  /\ c \in calls /\ c.at = "sent" /\ Accepted(c) /\ Reaches(c)
  /\ Ask(c.of, c.to)
  /\ \E outcome \in Outcomes(c.to, KindOf[c.of]) :
       calls' = Advance(c, CASE outcome = "tokens" -> "tokens"
                             [] c.via = "http" -> "refused"
                             [] c.via = "relay" /\ outcome = "failed" -> "error"
                             [] OTHER -> "notice")
  /\ UNCHANGED <<world, routing, request, active, breaks>>

\* The peer goes down before the answer is whole.
AnswerFails(c) ==
  /\ c \in calls /\ c.at = "tokens" /\ c.via # "relay" /\ breaks < MaxBreaks
  /\ breaks' = breaks + 1
  /\ calls' = Advance(c, "error")
  /\ UNCHANGED <<world, routing, request, active, asked>>

\* The peer is not linked: of a request the relay says so in a frame that names no call, of
\* the rest of an answer it says nothing.
RelayLoses(c) ==
  /\ c \in calls /\ c.via = "relay" /\ c.to \notin linked
  /\ c.at \in {"sent", "tokens", "notice", "error"}
  /\ calls' = Advance(c, "lost")
  /\ UNCHANGED <<world, routing, request, active, breaks, asked>>

-----------------------------------------------------------------------------
HandlerStep(r) ==
  \/ DlpAllows(r) \/ DlpBlocks(r) \/ Dispatch(r)
  \/ QuicConnects(r) \/ QuicFails(r) \/ PostToPeer(r) \/ PeerAccepts(r) \/ PeerRefuses(r)
  \/ RelayTakes(r) \/ ServeLocally(r) \/ StreamEnds(r) \/ RelayEnds(r)

PeerStep(c) == Refuse(c) \/ Serve(c)

RunsNext ==
  \/ \E m \in Machines : \/ \E i \in DOMAIN Runtimes : RuntimeChanges(m, i)
                         \/ PoolChanges(m) \/ LinkChanges(m)
                         \/ \E list \in ListsOf[m] : Reload(m, list)
  \/ \E r \in Requests : Start(r) \/ HandlerStep(r) \/ PeerBreaks(r) \/ StreamBreaks(r)
  \/ \E c \in calls : PeerStep(c) \/ AnswerFails(c) \/ RelayLoses(c)

RunsSpec == RunsInit /\ [][RunsNext]_runsVars

\* A handler waits for a runtime, which has no time limit on this machine or on a peer's, or
\* for what the relay has lost.
Waits(r) ==
  \/ At(r, "local")
  \/ At(r, "wait") /\ CallOf(r, "http", {"sent"}) # {}
  \/ /\ At(r, "stream")
     /\ \E via \in Paths : /\ CallOf(r, via, {"sent", "tokens", "lost"}) # {}
                           /\ via = "relay" => HomeOf[r] \in linked

\* A handler goes on when it need not wait: the QUIC handshake and the policy service have time
\* limits, and what has been sent back arrives.  No runtime has to answer, and no peer, not even
\* to the connect.
Fairness == \A r \in Requests : WF_runsVars(HandlerStep(r) /\ ~Waits(r))

RunsFairSpec == RunsSpec /\ Fairness

-----------------------------------------------------------------------------
(* Properties                                                                *)

\* A request is passed on once at most: no machine is asked but the daemon of the client and
\* the target it gave the request, however many paths were tried.
AskedWhereSent ==
  \A a \in asked : a[2] \in {HomeOf[a[1]], request[a[1]].target}

\* A client is told that its request failed only after a runtime of the daemon's own machine
\* was asked, whatever a peer has answered before.
RefusedOnlyByItself ==
  \A r \in Requests :
    request[r].reply = "failed" => <<r, HomeOf[r]>> \in asked

\* Requests that run together, of both kinds, share the turns: no target gets two more than
\* another while the list stays.
TurnsAreEven ==
  \A m \in Machines : \A i, j \in DOMAIN Targets(m) : turns[m][i] <= turns[m][j] + 1

\* Every request that is begun is answered, though paths fail and fall back, or it waits for
\* ever in one place: for a runtime, or for what the relay has lost.
RequestsEnd == \A r \in Requests : ~At(r, "off") ~> (At(r, "done") \/ []Waits(r))

\* "The active gauge stays accurate even if proxy_chat_* panics or returns an error path",
\* says the comment at ActiveGuard: when no chat is in progress the gauge is zero.
GaugeComesBack ==
  \A m \in Machines :
    (\A r \in Requests : HomeOf[r] = m => request[r].pc \in {"off", "done"}) => active[m] = 0

\* "If absent, requests are accepted", says the comment at AUTH_HEADER of the signature.
UnsignedIsAccepted == \A c \in calls : c.at = "sent" /\ KindOf[c.of] = "chat" => Accepted(c)

\* "The daemon falls back to the next backend instead of trying to talk to an empty one", says
\* the comment at LiveUpstream.
EmptyIsSkipped ==
  \A m \in Machines :
    (\E i \in DOMAIN Runtimes : backend[m][i] = "model") => backend[m][SelectLive(m)] = "model"

\* "Returned with HTTP 503 from request handlers", says the comment at offline_error_json: no
\* client gets the notice as if it were an answer.
NoticeIsNoAnswer == \A r \in Requests : request[r].reply # "notice"
=============================================================================
