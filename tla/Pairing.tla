------------------------------- MODULE Pairing -------------------------------
(****************************************************************************)
(* Pairing: how a daemon comes to trust a peer, and to forget it.           *)
(*                                                                          *)
(* One machine offers: it issues a one-time token and hands it over in an   *)
(* offer, or behind a short code kept by the relay.  Another accepts: it    *)
(* presents the token, over HTTP or, when that does not get through, over   *)
(* the relay; the offerer spends the token and stores the acceptor, and     *)
(* answers; the acceptor stores the offerer.  Requests and answers get      *)
(* lost, saves fail, and daemons restart in between.                        *)
(*                                                                          *)
(* Each daemon keeps its peers three times: in the registry, which decides  *)
(* whom it trusts, in peers.toml, and in the router.                        *)
(*                                                                          *)
(* Abstracted: a token or code expires at any time; keys are the machines'  *)
(* names; an address is its kind, which is what discovered_is_better        *)
(* compares; priorities, models and the texts of offers are left out.  A    *)
(* write of peers.toml is one step: nobody reads it half written.  A daemon *)
(* that cannot read it does not start, and nothing more is said of it.      *)
(****************************************************************************)
EXTENDS Naturals

CONSTANTS
  Machines,
  Names,
  NameOf,      \* names need not differ: the default is the host name
  NoOne,
  Offerers,    \* bound: machines whose users offer to pair
  Tokens,      \* bound: tokens ever issued
  Codes,       \* the relay's code space
  Attempts,    \* calls of pair/connect, pair/use-code or `unhosted pair accept`
  HomeOf,      \* the machine each of them runs on
  HowOf,       \* "ui" for a handler of that machine's daemon, "cli" for the command line
  BindOf,      \* kind of the address each daemon listens on
  Relayed,     \* daemons started with --relay
  OnLan,       \* pairs of machines that see each other by mDNS
  Seen,        \* kinds of addresses that mDNS reports, and that users type
  Clis,        \* bound: runs of `unhosted peer`
  CliHome,     \* the machine each of them edits the file of
  Burst,       \* CODE_LOOKUP_BURST
  MaxFaults    \* bound: lost messages, failed saves and restarts

Places == {"loopback", "private", "public", "any", "linklocal"}

ASSUME NamesAreGiven == NameOf \in [Machines -> Names]
ASSUME NoOneIsNoMachine == NoOne \notin Machines
ASSUME BindsArePlaces == BindOf \in [Machines -> Places] /\ Seen \subseteq Places
ASSUME AttemptsHaveHomes == HomeOf \in [Attempts -> Machines] /\ HowOf \in [Attempts -> {"ui", "cli"}]
ASSUME ClisHaveHomes == CliHome \in [Clis -> Machines]
ASSUME Bounds == Burst \in Nat /\ MaxFaults \in Nat

VARIABLES
  registry,   \* PeerRegistry in memory
  file,       \* peers.toml
  torn,       \* machines whose peers.toml is cut off and cannot be parsed
  cli,        \* what each `unhosted peer` has loaded
  routes,     \* the router's peers
  tokens,     \* pairing_tokens of each daemon
  offers,     \* the offer made with each token
  posting,    \* tokens whose offers are on their way to the relay
  codes,      \* the token of the offer behind each code
  lookups,    \* code_rate: lookups of each machine in this window
  attempt,    \* what each attempt has got to
  accepts,    \* requests to pair/accept
  faults,
  given,      \* history: the requests for which an offerer stored the acceptor
  kept,       \* history: <<attempt, token>> for which an acceptor stored the offerer
  unpaired,   \* history: <<machine, name>> unpaired with success and not paired since
  revived     \* history: those of them that a command line has written back

peers   == <<registry, file, torn, cli, routes, unpaired, revived>>
secrets == <<tokens, offers, posting, codes, lookups>>
talks   == <<attempt, accepts, given, kept>>
vars    == <<peers, secrets, talks, faults>>

NoPeer == [key |-> NoOne, at |-> "none"]
Peer   == [key : Machines \union {NoOne}, at : Places]
Book   == [Names -> Peer \union {NoPeer}]
NoPeers == [n \in Names |-> NoPeer]

NotRun == [pc |-> "off", book |-> NoPeers]
Over   == [pc |-> "over", book |-> NoPeers]

NoOffer == [by |-> NoOne, relay |-> FALSE]
Offer   == [by : Machines, relay : BOOLEAN]

Idle == [pc |-> "off", token |-> NoOne, code |-> NoOne]
Attempt == [pc : {"off", "code", "direct", "relay", "save"},
            token : Tokens \union {NoOne}, code : Codes \union {NoOne}]

\* live while its attempt waits for the answer; gone when nobody will give one.
Accept == [by : Attempts, token : Tokens, via : {"direct", "relay"},
           at : {"sent", "taken", "ok", "no", "gone"}, live : BOOLEAN]

TypeOK ==
  /\ registry \in [Machines -> Book] /\ file \in [Machines -> Book]
  /\ routes \in [Machines -> Book]
  /\ torn \subseteq Machines
  /\ cli \in [Clis -> [pc : {"off", "edit", "over"}, book : Book]]
  /\ tokens \in [Machines -> SUBSET Tokens]
  /\ offers \in [Tokens -> Offer \union {NoOffer}]
  /\ posting \subseteq Tokens
  /\ codes \in [Codes -> Tokens \union {NoOne}]
  /\ lookups \in [Machines -> 0 .. Burst]
  /\ attempt \in [Attempts -> Attempt]
  /\ accepts \subseteq Accept
  /\ faults \in 0 .. MaxFaults
  /\ given \subseteq [by : Attempts, token : Tokens, via : {"direct", "relay"}, saved : BOOLEAN]
  /\ kept \subseteq Attempts \X Tokens
  /\ unpaired \subseteq Machines \X Names /\ revived \subseteq Machines \X Names

Init ==
  /\ registry = [m \in Machines |-> NoPeers]
  /\ file = registry /\ routes = registry /\ torn = {}
  /\ cli = [k \in Clis |-> NotRun]
  /\ tokens = [m \in Machines |-> {}]
  /\ offers = [t \in Tokens |-> NoOffer]
  /\ posting = {}
  /\ codes = [c \in Codes |-> NoOne]
  /\ lookups = [m \in Machines |-> 0]
  /\ attempt = [x \in Attempts |-> Idle]
  /\ accepts = {}
  /\ faults = 0
  /\ given = {} /\ kept = {} /\ unpaired = {} /\ revived = {}

-----------------------------------------------------------------------------
(* PeerRegistry, and the handlers that change it                             *)

\* A step that may go wrong, for one of the faults left.
Fault(bad) == /\ bad => faults < MaxFaults
              /\ faults' = IF bad THEN faults + 1 ELSE faults

\* What is left of a list whose text was cut off: whole peers, and one without its key.
CutOff(book) ==
  {[n \in Names |-> IF n \in whole THEN book[n]
                    ELSE IF n = last THEN [book[n] EXCEPT !.key = NoOne] ELSE NoPeer] :
     whole \in SUBSET {n \in Names : book[n] # NoPeer}, last \in Names}

\* std::fs::write empties the file first: a write that fails before leaves it alone, one that
\* fails after leaves the beginning of the text.
Write(m, book, saved) ==
  \/ saved /\ file' = [file EXCEPT ![m] = book] /\ torn' = torn \ {m}
  \/ ~saved /\ UNCHANGED <<file, torn>>
  \/ /\ ~saved
     /\ \E part \in CutOff(book) : file' = [file EXCEPT ![m] = part]
     /\ torn' = torn \ {m}
  \/ ~saved /\ file' = [file EXCEPT ![m] = NoPeers] /\ torn' = torn \union {m}

\* The new list is in memory before it is saved; the router gets it only when it was.
Save(m, book, saved) ==
  /\ registry' = [registry EXCEPT ![m] = book]
  /\ Write(m, book, saved)
  /\ routes' = IF saved THEN [routes EXCEPT ![m] = book] ELSE routes
  /\ Fault(~saved)
  /\ UNCHANGED cli

\* The name is not an unpaired one any more.
Readmit(m, n) == unpaired' = unpaired \ {<<m, n>>} /\ revived' = revived \ {<<m, n>>}

\* A peer of the same name is replaced.
AddPeer(m, n, p, saved) ==
  /\ Save(m, [registry[m] EXCEPT ![n] = p], saved)
  /\ Readmit(m, n)

\* POST /v1/peers: a click on a discovered peer, with which no key comes.
Register(m, o, saved) ==
  /\ <<m, o>> \in OnLan
  /\ \E at \in Seen : AddPeer(m, NameOf[o], [key |-> NoOne, at |-> at], saved)
  /\ UNCHANGED <<secrets, talks>>

\* An unpair that was saved is remembered.
Forgotten(m, n, saved) ==
  IF saved THEN unpaired' = unpaired \union {<<m, n>>} /\ revived' = revived \ {<<m, n>>}
  ELSE UNCHANGED <<unpaired, revived>>

UnpairKeepsRoute(m, n, saved) ==   \* defect: the router is not told
  /\ registry[m][n] # NoPeer
  /\ registry' = [registry EXCEPT ![m][n] = NoPeer]
  /\ Write(m, registry'[m], saved)
  /\ UNCHANGED <<routes, cli>>
  /\ Fault(~saved)
  /\ Forgotten(m, n, saved)
  /\ UNCHANGED <<secrets, talks>>

\* An unpair whose save fails has still changed the memory, and cannot be tried again.
Unpair(m, n, saved) ==
  /\ registry[m][n] # NoPeer
  /\ Save(m, [registry[m] EXCEPT ![n] = NoPeer], saved)
  /\ Forgotten(m, n, saved)
  /\ UNCHANGED <<secrets, talks>>

Rank(place) == CASE place = "loopback" -> 5
                 [] place = "private" -> 4
                 [] place \in {"public", "any"} -> 3
                 [] OTHER -> 1

\* A trusted peer was seen at another address that is no worse.
Better(old, new) == old # new /\ Rank(new) >= Rank(old)

\* status_handler: here the router gets the change even when it could not be saved.
AutoRestore(m, n, saved) ==
  LET p == registry[m][n] IN
  /\ p.key # NoOne /\ <<m, p.key>> \in OnLan
  /\ \E at \in Seen :
       /\ Better(p.at, at)
       /\ registry' = [registry EXCEPT ![m][n].at = at]
  /\ Write(m, registry'[m], saved)
  /\ routes' = [routes EXCEPT ![m] = registry'[m]]
  /\ Fault(~saved)
  /\ UNCHANGED <<cli, unpaired, revived, secrets, talks>>

\* handle_peer, in a process of its own: it loads the file, edits its copy and saves that,
\* and nothing keeps the daemon from saving in between.  The daemon reads the file when it
\* starts.
CliLoad(k) ==
  /\ cli[k].pc = "off" /\ CliHome[k] \notin torn
  /\ cli' = [cli EXCEPT ![k] = [pc |-> "edit", book |-> file[CliHome[k]]]]
  /\ UNCHANGED <<registry, file, torn, routes, unpaired, revived, secrets, talks, faults>>

\* The names that the daemon has unpaired meanwhile come back with the copy.
BroughtBack(k) == {u \in unpaired : u[1] = CliHome[k] /\ cli[k].book[u[2]] # NoPeer}

CliSave(k, book, saved) ==
  /\ Write(CliHome[k], book, saved)
  /\ cli' = [cli EXCEPT ![k] = Over]
  /\ Fault(~saved)
  /\ UNCHANGED <<registry, routes, secrets, talks>>

\* Any name, at any address.
CliAdd(k, n, saved) ==
  /\ cli[k].pc = "edit"
  /\ \E at \in Seen : CliSave(k, [cli[k].book EXCEPT ![n] = [key |-> NoOne, at |-> at]], saved)
  /\ unpaired' = unpaired \ {<<CliHome[k], n>>}
  /\ revived' = (revived \union BroughtBack(k)) \ {<<CliHome[k], n>>}

CliRemove(k, n, saved) ==
  /\ cli[k].pc = "edit" /\ cli[k].book[n] # NoPeer
  /\ CliSave(k, [cli[k].book EXCEPT ![n] = NoPeer], saved)
  /\ UNCHANGED unpaired
  /\ revived' = revived \union (BroughtBack(k) \ {<<CliHome[k], n>>})

\* There is no peer of the name, or the peers are only listed.
CliEnds(k) ==
  /\ cli[k].pc = "edit"
  /\ cli' = [cli EXCEPT ![k] = Over]
  /\ UNCHANGED <<registry, file, torn, routes, unpaired, revived, secrets, talks, faults>>

-----------------------------------------------------------------------------
(* Offers and codes                                                          *)

Issue(m, t, relay) ==
  /\ offers[t] = NoOffer
  /\ offers' = [offers EXCEPT ![t] = [by |-> m, relay |-> relay]]
  /\ tokens' = [tokens EXCEPT ![m] = @ \union {t}]

\* The offer names the relay when the daemon is registered with it.
MakeOffer(m, t) ==
  /\ m \in Offerers
  /\ \E registered \in BOOLEAN : (registered => m \in Relayed) /\ Issue(m, t, registered)
  /\ UNCHANGED <<peers, posting, codes, lookups, talks, faults>>

ShortOffer(m, t) ==
  /\ m \in Offerers \intersect Relayed
  /\ Issue(m, t, TRUE)
  /\ posting' = posting \union {t}
  /\ UNCHANGED <<peers, codes, lookups, talks, faults>>

\* The relay picks a code that is free.
CreateCode(t, c) ==
  /\ t \in posting /\ codes[c] = NoOne
  /\ codes' = [codes EXCEPT ![c] = t]
  /\ posting' = posting \ {t}
  /\ UNCHANGED <<peers, tokens, offers, lookups, talks, faults>>

\* The request is lost, or the relay finds no free code.
PostFails(t) ==
  /\ t \in posting
  /\ posting' = posting \ {t}
  /\ Fault(TRUE)
  /\ UNCHANGED <<peers, tokens, offers, codes, lookups, talks>>

TokenExpires(m, t) ==
  /\ t \in tokens[m]
  /\ tokens' = [tokens EXCEPT ![m] = @ \ {t}]
  /\ UNCHANGED <<peers, offers, posting, codes, lookups, talks, faults>>

CodeExpires(c) ==
  /\ codes[c] # NoOne
  /\ codes' = [codes EXCEPT ![c] = NoOne]
  /\ UNCHANGED <<peers, tokens, offers, posting, lookups, talks, faults>>

WindowEnds(m) ==
  /\ lookups[m] # 0
  /\ lookups' = [lookups EXCEPT ![m] = 0]
  /\ UNCHANGED <<peers, tokens, offers, posting, codes, talks, faults>>

-----------------------------------------------------------------------------
(* The acceptor                                                              *)

Update(x, a) == attempt' = [attempt EXCEPT ![x] = a]

At(x, pc) == attempt[x].pc = pc

Present(x, t, via, others) ==
  accepts' = others \union {[by |-> x, token |-> t, via |-> via, at |-> "sent", live |-> TRUE]}

\* advertised_addr: a daemon on loopback offers the loopback address, where the acceptor
\* finds its own daemon, if anything.
Receivers(r) ==
  LET o == offers[r.token].by IN
  IF r.via = "relay" \/ BindOf[o] # "loopback" THEN {o}
  ELSE {HomeOf[r.by]} \intersect {m \in Machines : BindOf[m] \in {"loopback", "any"}}

\* do_pair_connect, or `unhosted pair accept`: the token is presented over HTTP.
Connect(x, t) ==
  /\ At(x, "off") /\ offers[t] # NoOffer /\ offers[t].by # HomeOf[x]
  /\ Update(x, [Idle EXCEPT !.pc = "direct", !.token = t])
  /\ Present(x, t, "direct", accepts)
  /\ UNCHANGED <<peers, secrets, given, kept, faults>>

UseCode(x, c) ==
  /\ At(x, "off") /\ HowOf[x] = "ui" /\ HomeOf[x] \in Relayed
  /\ Update(x, [Idle EXCEPT !.pc = "code", !.code = c])
  /\ UNCHANGED <<peers, secrets, accepts, given, kept, faults>>

\* consume_code_handler: a lookup above the burst is refused, a code is good for one lookup.
\* Lookups are counted up to the burst, since all above are alike.
Lookup(x, answered) ==
  LET m == HomeOf[x]
      t == codes[attempt[x].code] IN
  /\ At(x, "code")
  /\ lookups' = [lookups EXCEPT ![m] = IF @ >= Burst THEN @ ELSE @ + 1]
  /\ IF lookups[m] < Burst /\ t # NoOne
     THEN /\ codes' = [codes EXCEPT ![attempt[x].code] = NoOne]
          /\ IF answered /\ offers[t].by # m
             THEN /\ Update(x, [Idle EXCEPT !.pc = "direct", !.token = t])
                  /\ Present(x, t, "direct", accepts)
             ELSE Update(x, Idle) /\ UNCHANGED accepts
     ELSE Update(x, Idle) /\ UNCHANGED <<codes, accepts>>
  /\ Fault(~answered)
  /\ UNCHANGED <<peers, tokens, offers, posting, given, kept>>

\* The offerer's HTTP status or its relay error is final.
Rejected(x) ==
  \E r \in accepts :
    /\ r.by = x /\ r.live /\ r.at = "no"
    /\ accepts' = accepts \ {r}
    /\ Update(x, Idle)
    /\ UNCHANGED <<peers, secrets, given, kept, faults>>

Confirmed(x) ==
  \E r \in accepts :
    /\ r.by = x /\ r.live /\ r.at = "ok"
    /\ accepts' = accepts \ {r}
    /\ Update(x, [attempt[x] EXCEPT !.pc = "save"])
    /\ UNCHANGED <<peers, secrets, given, kept, faults>>

\* No answer in time: the request may be lost, or be carried out all the same.  Only the
\* daemon goes on to the relay, when the offer and its own configuration name it.
NoAnswer(x, lost) ==
  \E r \in accepts :
    LET others == (accepts \ {r}) \union
                    (IF lost \/ r.at \in {"ok", "no", "gone"} THEN {}
                     ELSE {[r EXCEPT !.live = FALSE]}) IN
    /\ r.by = x /\ r.live
    /\ \/ /\ r.via = "direct" /\ HowOf[x] = "ui"
          /\ offers[r.token].relay /\ HomeOf[x] \in Relayed
          /\ Present(x, r.token, "relay", others)
          /\ Update(x, [attempt[x] EXCEPT !.pc = "relay"])
       \/ accepts' = others /\ Update(x, Idle)
    /\ Fault(r.at # "gone" /\ Receivers(r) # {})
    /\ UNCHANGED <<peers, secrets, given, kept>>

\* The address kept is the one the offerer's daemon listens on.
Keep(x, saved) ==
  LET t == attempt[x].token
      o == offers[t].by IN
  /\ At(x, "save")
  /\ AddPeer(HomeOf[x], NameOf[o], [key |-> o, at |-> BindOf[o]], saved)
  /\ Update(x, Idle)
  /\ kept' = kept \union {<<x, t>>}
  /\ UNCHANGED <<secrets, accepts, given>>

-----------------------------------------------------------------------------
(* The offerer: pair_accept_handler and dispatch_inbound_pair_accept         *)

Advance(r, at) == (accepts \ {r}) \union
                    (IF at \in {"ok", "no"} /\ ~r.live THEN {} ELSE {[r EXCEPT !.at = at]})

TakeTokenLooks(r) ==   \* defect: the token is looked up and not removed
  \E m \in Receivers(r) :
    /\ r \in accepts /\ r.at = "sent"
    /\ accepts' = Advance(r, IF r.token \in tokens[m] THEN "taken" ELSE "no")
    /\ UNCHANGED <<peers, secrets, attempt, given, kept, faults>>

TakeToken(r) ==
  \E m \in Receivers(r) :
    /\ r \in accepts /\ r.at = "sent"
    /\ accepts' = Advance(r, IF r.token \in tokens[m] THEN "taken" ELSE "no")
    /\ tokens' = [tokens EXCEPT ![m] = @ \ {r.token}]
    /\ UNCHANGED <<peers, offers, posting, codes, lookups, attempt, given, kept, faults>>

\* The command line gives the address of the URL it talks to its daemon at.
Given(r) == [key |-> HomeOf[r.by],
             at |-> IF HowOf[r.by] = "cli" THEN "loopback" ELSE BindOf[HomeOf[r.by]]]

Note(r, saved) ==
  given' = given \union {[by |-> r.by, token |-> r.token, via |-> r.via, saved |-> saved]}

StorePeerAnyway(r, saved) ==   \* defect: the error of the save is not returned
  LET o == offers[r.token].by IN
  /\ r \in accepts /\ r.at = "taken"
  /\ AddPeer(o, NameOf[HomeOf[r.by]], Given(r), saved)
  /\ accepts' = Advance(r, "ok")
  /\ Note(r, saved)
  /\ UNCHANGED <<secrets, attempt, kept>>

StorePeer(r, saved) ==
  LET o == offers[r.token].by IN
  /\ r \in accepts /\ r.at = "taken"
  /\ AddPeer(o, NameOf[HomeOf[r.by]], Given(r), saved)
  /\ accepts' = Advance(r, IF saved THEN "ok" ELSE "no")
  /\ Note(r, saved)
  /\ UNCHANGED <<secrets, attempt, kept>>

-----------------------------------------------------------------------------
\* The daemon starts with the peers of the file; tokens, and what it was doing, are gone.
Restart(m) ==
  LET dropped == {x \in Attempts : HomeOf[x] = m /\ HowOf[x] = "ui"}
      halfway == {r \in accepts : r.at = "taken" /\ offers[r.token].by = m} IN
  /\ Fault(TRUE) /\ m \notin torn
  /\ registry' = [registry EXCEPT ![m] = file[m]]
  /\ routes' = [routes EXCEPT ![m] = file[m]]
  /\ tokens' = [tokens EXCEPT ![m] = {}]
  /\ attempt' = [x \in Attempts |-> IF x \in dropped THEN Idle ELSE attempt[x]]
  /\ accepts' = {[r EXCEPT !.live = @ /\ r.by \notin dropped,
                           !.at = IF r \in halfway THEN "gone" ELSE @] : r \in accepts}
                  \ [by : Attempts, token : Tokens, via : {"direct", "relay"},
                     at : {"ok", "no", "gone"}, live : {FALSE}]
  /\ UNCHANGED <<file, torn, cli, unpaired, revived, offers, posting, codes, lookups, given, kept>>

\* The relay keeps its codes in memory.
RelayRestarts ==
  /\ Fault(TRUE)
  /\ codes' = [c \in Codes |-> NoOne]
  /\ lookups' = [m \in Machines |-> 0]
  /\ UNCHANGED <<peers, tokens, offers, posting, talks>>

AttemptStep(x) ==
  \/ Rejected(x) \/ Confirmed(x)
  \/ \E good \in BOOLEAN : Lookup(x, good) \/ NoAnswer(x, good) \/ Keep(x, good)

Next ==
  \/ \E m \in Machines, o \in Machines, saved \in BOOLEAN : Register(m, o, saved)
  \/ \E m \in Machines, n \in Names, saved \in BOOLEAN :
       Unpair(m, n, saved) \/ AutoRestore(m, n, saved)
  \/ \E k \in Clis : CliLoad(k) \/ CliEnds(k)
  \/ \E k \in Clis, n \in Names, saved \in BOOLEAN : CliAdd(k, n, saved) \/ CliRemove(k, n, saved)
  \/ \E m \in Machines, t \in Tokens :
       MakeOffer(m, t) \/ ShortOffer(m, t) \/ TokenExpires(m, t)
  \/ \E t \in Tokens : PostFails(t) \/ \E c \in Codes : CreateCode(t, c)
  \/ \E c \in Codes : CodeExpires(c)
  \/ \E m \in Machines : WindowEnds(m) \/ Restart(m)
  \/ RelayRestarts
  \/ \E x \in Attempts : \/ \E t \in Tokens : Connect(x, t)
                         \/ \E c \in Codes : UseCode(x, c)
                         \/ AttemptStep(x)
  \/ \E r \in accepts : TakeToken(r) \/ \E saved \in BOOLEAN : StorePeer(r, saved)

Spec == Init /\ [][Next]_vars

-----------------------------------------------------------------------------
(* Properties                                                                *)

\* A token pairs the offerer with one acceptor, once: not over HTTP and again over the relay
\* when the answer was lost, nor with everyone it was passed on to.
TokenPairsOnce == \A p, q \in given : p.token = q.token => p = q

\* An acceptor that trusts the offerer is trusted in turn, and still is when the offerer
\* restarts: it was saved there before the acceptor heard of it.
PairedBothWays ==
  \A k \in kept : \E p \in given : p.by = k[1] /\ p.token = k[2] /\ p.saved

\* A peer that was unpaired with success is trusted and routed to no more, not after a
\* restart either, until it is paired or added again, or a command line that had loaded the
\* file before the unpair writes its copy over the daemon's.
UnpairSticks ==
  \A u \in unpaired \ revived : /\ registry[u[1]][u[2]] = NoPeer /\ file[u[1]][u[2]] = NoPeer
                                /\ routes[u[1]][u[2]] = NoPeer

\* "If you unpair, the peer's pubkey is removed; future requests fail.  That's it." (design/0004):
\* a peer that was unpaired with success is not trusted before it is paired again.
UnpairIsAll ==
  \A u \in unpaired : registry[u[1]][u[2]].key = NoOne

\* "relay - works behind NAT, via the relay", says the reply to an offer that names the relay:
\* nobody is turned away who presents such an offer while its token is good.
RelayOfferReaches ==
  \A r \in accepts :
    r.at = "no" /\ offers[r.token].relay /\ HowOf[r.by] = "ui" /\ HomeOf[r.by] \in Relayed
      => r.token \notin tokens[offers[r.token].by]
=============================================================================
