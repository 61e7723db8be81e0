---------------------------- MODULE PairingProofs ----------------------------
(***************************************************************************)
(* Theorems about Pairing, for every set of machines, names, tokens, codes *)
(* and attempts, whoever sees whom, and any number of faults.              *)
(***************************************************************************)
EXTENDS Pairing, TLAPS

\* Whatever refers to a token refers to one that was offered.
OffersStand ==
  /\ \A t \in posting : offers[t] # NoOffer
  /\ \A c \in Codes : codes[c] # NoOne => offers[codes[c]] # NoOffer
  /\ \A r \in accepts : offers[r.token] # NoOffer
  /\ \A x \in Attempts :
       /\ attempt[x].pc = "code" => attempt[x].code \in Codes
       /\ attempt[x].pc \in {"direct", "relay", "save"} =>
            attempt[x].token \in Tokens /\ offers[attempt[x].token] # NoOffer

\* An attempt waits for one request at a time, and for its own token.
OneRequestEach ==
  /\ \A r \in accepts : r.live => /\ attempt[r.by].pc \in {"direct", "relay"}
                                  /\ attempt[r.by].token = r.token
  /\ \A r, s \in accepts : r.live /\ s.live /\ r.by = s.by => r = s

PeersTyped ==
  /\ registry \in [Machines -> Book] /\ file \in [Machines -> Book]
  /\ routes \in [Machines -> Book]
  /\ torn \subseteq Machines
  /\ cli \in [Clis -> [pc : {"off", "edit", "over"}, book : Book]]
  /\ unpaired \subseteq Machines \X Names /\ revived \subseteq Machines \X Names

SecretsTyped ==
  /\ tokens \in [Machines -> SUBSET Tokens]
  /\ offers \in [Tokens -> Offer \union {NoOffer}]
  /\ posting \subseteq Tokens
  /\ codes \in [Codes -> Tokens \union {NoOne}]
  /\ lookups \in [Machines -> 0 .. Burst]

Stores == [by : Attempts, token : Tokens, via : {"direct", "relay"}, saved : BOOLEAN]

TalksTyped ==
  /\ attempt \in [Attempts -> Attempt]
  /\ accepts \subseteq Accept
  /\ given \subseteq Stores /\ kept \subseteq Attempts \X Tokens

FaultsTyped == faults \in 0 .. MaxFaults

Shape ==
  /\ PeersTyped /\ SecretsTyped /\ TalksTyped /\ FaultsTyped
  /\ OffersStand /\ OneRequestEach

\* A token is with the daemon that issued it, or in the hands of one request, or spent.
TokensHaveOnePlace ==
  /\ \A m \in Machines : \A t \in tokens[m] : offers[t].by = m
  /\ \A r \in accepts : r.at = "taken" => \A m \in Machines : r.token \notin tokens[m]
  /\ \A r, s \in accepts : r.at = "taken" /\ s.at = "taken" /\ r.token = s.token => r = s
  /\ \A p \in given : /\ offers[p.token] # NoOffer
                      /\ \A m \in Machines : p.token \notin tokens[m]
                      /\ \A r \in accepts : r.at = "taken" => r.token # p.token

Stored(x, t) == \E p \in given : p.by = x /\ p.token = t /\ p.saved

\* Good news is true: where an acceptor is told, or believes, that it was stored, it was.
ConfirmationsAreTrue ==
  /\ \A r \in accepts : r.at = "ok" => Stored(r.by, r.token)
  /\ \A x \in Attempts : attempt[x].pc = "save" => Stored(x, attempt[x].token)

USE DEF NoPeer, NoOffer

-----------------------------------------------------------------------------
(* The shape of the state                                                    *)

\* The variables have their types at first, and nothing was offered.
LEMMA ShapeInit == Init => Shape
<1>1. NoPeers \in Book
  BY DEF NoPeers, Book
<1>2. Init => PeersTyped
  BY <1>1 DEF Init, PeersTyped, NotRun
<1>3. Init => SecretsTyped /\ TalksTyped /\ FaultsTyped /\ OffersStand /\ OneRequestEach
  BY NoOneIsNoMachine, Bounds
     DEF Init, SecretsTyped, TalksTyped, FaultsTyped, OffersStand, OneRequestEach, Attempt, Idle
<1>4. QED
  BY <1>2, <1>3 DEF Shape

\* The parts of the shape are the types.
LEMMA ShapeIsTyped == Shape => TypeOK
BY DEF Shape, PeersTyped, SecretsTyped, TalksTyped, FaultsTyped, Stores, TypeOK

\* A step that may go wrong uses up one fault.
LEMMA FaultsCount ==
  ASSUME FaultsTyped, NEW bad, Fault(bad)
  PROVE  FaultsTyped'
BY Bounds DEF FaultsTyped, Fault

\* Handlers of the daemon and the command line that change peers change nothing else.
LEMMA PeersOnly ==
  ASSUME \/ \E m \in Machines, o \in Machines, saved \in BOOLEAN : Register(m, o, saved)
         \/ \E m \in Machines, n \in Names, saved \in BOOLEAN :
              Unpair(m, n, saved) \/ AutoRestore(m, n, saved)
         \/ \E k \in Clis : CliLoad(k) \/ CliEnds(k)
         \/ \E k \in Clis, n \in Names, saved \in BOOLEAN : CliAdd(k, n, saved) \/ CliRemove(k, n, saved)
  PROVE  UNCHANGED <<secrets, talks>> /\ (UNCHANGED faults \/ \E bad : Fault(bad))
BY ZenonT(60) DEF Register, AddPeer, Save, Unpair, AutoRestore, CliLoad, CliEnds, CliAdd,
                  CliRemove, CliSave

\* What is left of a list that was cut off is a list, with no peer that was not in it.
LEMMA CutOffIsPart ==
  ASSUME NEW book \in Book, NEW part \in CutOff(book)
  PROVE  part \in Book /\ \A n \in Names : book[n] = NoPeer => part[n] = NoPeer
<1>1. PICK whole \in SUBSET {n \in Names : book[n] # NoPeer}, last \in Names :
        part = [n \in Names |-> IF n \in whole THEN book[n]
                               ELSE IF n = last THEN [book[n] EXCEPT !.key = NoOne] ELSE NoPeer]
  BY DEF CutOff
<1>2. ASSUME NEW n \in Names
      PROVE  /\ [book[n] EXCEPT !.key = NoOne] \in Peer \union {NoPeer}
             /\ book[n] = NoPeer => [book[n] EXCEPT !.key = NoOne] = NoPeer
  BY DEF Book, Peer
<1>3. ASSUME NEW n \in Names
      PROVE  part[n] \in Peer \union {NoPeer} /\ (book[n] = NoPeer => part[n] = NoPeer)
  BY <1>1, <1>2 DEF Book
<1>4. part = [n \in Names |-> part[n]]
  BY <1>1
<1>5. QED
  BY <1>3, <1>4 DEF Book

\* A write changes the file of one machine; what is in it then was in the list that is written,
\* or, when the write has failed, in the file before.
LEMMA Written ==
  ASSUME PeersTyped, NEW m \in Machines, NEW book \in Book, NEW saved, Write(m, book, saved)
  PROVE  /\ file' \in [Machines -> Book] /\ torn' \subseteq Machines
         /\ \A k \in Machines \ {m} : file'[k] = file[k]
         /\ \A n \in Names :
              book[n] = NoPeer /\ (saved \/ file[m][n] = NoPeer) => file'[m][n] = NoPeer
<1>1. file \in [Machines -> Book] /\ torn \subseteq Machines
  BY DEF PeersTyped
<1>2. NoPeers \in Book /\ \A n \in Names : NoPeers[n] = NoPeer
  BY DEF NoPeers, Book
<1>3. CASE saved /\ file' = [file EXCEPT ![m] = book] /\ torn' = torn \ {m}
  BY <1>1, <1>3
<1>4. CASE ~saved /\ UNCHANGED <<file, torn>>
  BY <1>1, <1>4
<1>5. CASE ~saved /\ torn' = torn \ {m} /\ \E part \in CutOff(book) : file' = [file EXCEPT ![m] = part]
  <2>1. PICK part \in CutOff(book) : file' = [file EXCEPT ![m] = part]
    BY <1>5
  <2>2. part \in Book /\ \A n \in Names : book[n] = NoPeer => part[n] = NoPeer
    BY <2>1, CutOffIsPart
  <2>3. QED
    BY <1>1, <1>5, <2>1, <2>2
<1>6. CASE ~saved /\ file' = [file EXCEPT ![m] = NoPeers] /\ torn' = torn \union {m}
  BY <1>1, <1>2, <1>6
<1>7. QED
  BY <1>3, <1>4, <1>5, <1>6 DEF Write

\* What is saved for a peer is a peer.
LEMMA SaveTyped ==
  ASSUME PeersTyped, NEW m \in Machines, NEW book \in Book, NEW saved, Save(m, book, saved),
         unpaired' \subseteq Machines \X Names, revived' \subseteq Machines \X Names
  PROVE  PeersTyped'
<1>1. file' \in [Machines -> Book] /\ torn' \subseteq Machines
  BY Written DEF Save
<1>2. QED
  BY <1>1 DEF PeersTyped, Save

\* So is what add_peer stores under a name.
LEMMA AddPeerTyped ==
  ASSUME PeersTyped, NEW m \in Machines, NEW n \in Names, NEW p \in Peer, NEW saved,
         AddPeer(m, n, p, saved)
  PROVE  PeersTyped'
<1>1. [registry[m] EXCEPT ![n] = p] \in Book
  BY DEF PeersTyped, Book
<1>2. unpaired' \subseteq Machines \X Names /\ revived' \subseteq Machines \X Names
  BY DEF AddPeer, Readmit, PeersTyped
<1>3. QED
  BY <1>1, <1>2, SaveTyped DEF AddPeer

\* The command line writes its copy, with one name put into it or taken out.
LEMMA CliBooks ==
  ASSUME PeersTyped, NEW k \in Clis, NEW n \in Names, NEW saved \in BOOLEAN,
         CliAdd(k, n, saved) \/ CliRemove(k, n, saved)
  PROVE  \E book \in Book :
           /\ CliSave(k, book, saved)
           /\ \A l \in Names : book[l] # NoPeer => \/ cli[k].book[l] # NoPeer
                                                   \/ l = n /\ CliAdd(k, n, saved)
           /\ CliAdd(k, n, saved) \/ book[n] = NoPeer
<1>0. cli[k].book \in Book
  BY DEF PeersTyped
<1>1. ASSUME CliAdd(k, n, saved)
      PROVE  \E book \in Book :
               /\ CliSave(k, book, saved)
               /\ \A l \in Names : book[l] # NoPeer => cli[k].book[l] # NoPeer \/ l = n
  <2>1. PICK at \in Seen : CliSave(k, [cli[k].book EXCEPT ![n] = [key |-> NoOne, at |-> at]], saved)
    BY <1>1 DEF CliAdd
  <2>2. [key |-> NoOne, at |-> at] \in Peer
    BY BindsArePlaces DEF Peer
  <2>3. [cli[k].book EXCEPT ![n] = [key |-> NoOne, at |-> at]] \in Book
    BY <1>0, <2>2 DEF Book
  <2>4. QED
    BY <1>0, <2>1, <2>3 DEF Book
<1>2. ASSUME CliRemove(k, n, saved)
      PROVE  \E book \in Book :
               /\ CliSave(k, book, saved)
               /\ \A l \in Names : book[l] # NoPeer => cli[k].book[l] # NoPeer
               /\ book[n] = NoPeer
  <2>1. [cli[k].book EXCEPT ![n] = NoPeer] \in Book
    BY <1>0 DEF Book
  <2>2. QED
    BY <1>0, <1>2, <2>1 DEF CliRemove, Book
<1>3. QED
  BY <1>1, <1>2

\* A token that was offered leads to the machine that offered it.
LEMMA OfferersAreMachines ==
  ASSUME Shape, NEW t \in Tokens, offers[t] # NoOffer
  PROVE  offers[t].by \in Machines
BY DEF Shape, SecretsTyped, Offer

\* A request carries an offered token of an attempt.
LEMMA RequestsRefer ==
  ASSUME Shape, NEW r \in accepts
  PROVE  /\ r.by \in Attempts /\ r.token \in Tokens /\ HomeOf[r.by] \in Machines
         /\ offers[r.token].by \in Machines
<1>1. r \in Accept
  BY DEF Shape, TalksTyped
<1>2. r.by \in Attempts /\ r.token \in Tokens
  BY <1>1 DEF Accept
<1>3. offers[r.token] # NoOffer
  BY DEF Shape, OffersStand
<1>4. QED
  BY <1>2, <1>3, OfferersAreMachines, AttemptsHaveHomes

\* So does an attempt that has one.
LEMMA AttemptsRefer ==
  ASSUME Shape, NEW x \in Attempts, attempt[x].pc \in {"direct", "relay", "save"}
  PROVE  attempt[x].token \in Tokens /\ offers[attempt[x].token].by \in Machines
BY OfferersAreMachines DEF Shape, OffersStand

\* Every step leaves registries, files and routers with peers in them.
LEMMA PeersStep == Shape /\ [Next]_vars => PeersTyped'
<1> SUFFICES ASSUME Shape, [Next]_vars
             PROVE  PeersTyped'
  OBVIOUS
<1>0. PeersTyped
  BY DEF Shape
<1>1. ASSUME NEW m \in Machines, NEW o \in Machines, NEW saved \in BOOLEAN, Register(m, o, saved)
      PROVE  PeersTyped'
  <2>1. PICK at \in Seen : AddPeer(m, NameOf[o], [key |-> NoOne, at |-> at], saved)
    BY <1>1 DEF Register
  <2>2. [key |-> NoOne, at |-> at] \in Peer /\ NameOf[o] \in Names
    BY NamesAreGiven, BindsArePlaces DEF Peer
  <2>3. QED
    BY <1>0, <2>1, <2>2, AddPeerTyped
<1>2. ASSUME NEW m \in Machines, NEW n \in Names, NEW saved \in BOOLEAN, Unpair(m, n, saved)
      PROVE  PeersTyped'
  <2>1. [registry[m] EXCEPT ![n] = NoPeer] \in Book
    BY <1>0 DEF PeersTyped, Book
  <2>2. unpaired' \subseteq Machines \X Names /\ revived' \subseteq Machines \X Names
    BY <1>0, <1>2 DEF PeersTyped, Unpair, Forgotten
  <2>3. QED
    BY <1>0, <1>2, <2>1, <2>2, SaveTyped DEF Unpair
<1>3. ASSUME NEW m \in Machines, NEW n \in Names, NEW saved \in BOOLEAN, AutoRestore(m, n, saved)
      PROVE  PeersTyped'
  <2>1. PICK at \in Seen : registry' = [registry EXCEPT ![m][n].at = at]
    BY <1>3 DEF AutoRestore
  <2>2. registry[m][n] \in Peer
    BY <1>0, <1>3 DEF AutoRestore, PeersTyped, Book
  <2>3. [registry[m][n] EXCEPT !.at = at] \in Peer
    BY <2>2, BindsArePlaces DEF Peer
  <2>4. registry' = [registry EXCEPT ![m] = [registry[m] EXCEPT ![n] = [registry[m][n] EXCEPT !.at = at]]]
    BY <2>1
  <2>5. [registry[m] EXCEPT ![n] = [registry[m][n] EXCEPT !.at = at]] \in Book
    BY <1>0, <2>3 DEF PeersTyped, Book
  <2>6. registry' \in [Machines -> Book]
    BY <1>0, <2>4, <2>5 DEF PeersTyped
  <2>7. Write(m, registry'[m], saved) /\ registry'[m] \in Book
    BY <1>3, <2>6 DEF AutoRestore
  <2>8. file' \in [Machines -> Book] /\ torn' \subseteq Machines
    BY <1>0, <2>7, Written
  <2>9. routes' \in [Machines -> Book]
    BY <1>0, <1>3, <2>6 DEF PeersTyped, AutoRestore
  <2>10. QED
    BY <1>0, <1>3, <2>6, <2>8, <2>9 DEF PeersTyped, AutoRestore
<1>4. ASSUME NEW k \in Clis, CliLoad(k) \/ CliEnds(k) PROVE PeersTyped'
  <2>1. NoPeers \in Book /\ file[CliHome[k]] \in Book
    BY <1>0, ClisHaveHomes DEF NoPeers, Book, PeersTyped
  <2>2. cli' \in [Clis -> [pc : {"off", "edit", "over"}, book : Book]]
    BY <1>0, <1>4, <2>1 DEF PeersTyped, CliLoad, CliEnds, Over
  <2>3. QED
    BY <1>0, <1>4, <2>2 DEF PeersTyped, CliLoad, CliEnds
<1>5. ASSUME NEW k \in Clis, NEW n \in Names, NEW saved \in BOOLEAN,
             CliAdd(k, n, saved) \/ CliRemove(k, n, saved)
      PROVE  PeersTyped'
  <2>1. PICK book \in Book : CliSave(k, book, saved)
    BY <1>0, <1>5, CliBooks
  <2>2. file' \in [Machines -> Book] /\ torn' \subseteq Machines
    BY <1>0, <2>1, Written, ClisHaveHomes DEF CliSave
  <2>3. NoPeers \in Book
    BY DEF NoPeers, Book
  <2>4. cli' \in [Clis -> [pc : {"off", "edit", "over"}, book : Book]]
    BY <1>0, <2>1, <2>3 DEF PeersTyped, CliSave, Over
  <2>5. unpaired' \subseteq Machines \X Names /\ revived' \subseteq Machines \X Names
    BY <1>0, <1>5 DEF PeersTyped, CliAdd, CliRemove, BroughtBack
  <2>6. QED
    BY <1>0, <2>1, <2>2, <2>4, <2>5 DEF PeersTyped, CliSave
<1>6. ASSUME NEW x \in Attempts, NEW saved \in BOOLEAN, Keep(x, saved) PROVE PeersTyped'
  <2>1. offers[attempt[x].token].by \in Machines
    BY <1>6, AttemptsRefer DEF Keep, At
  <2>2. [key |-> offers[attempt[x].token].by, at |-> BindOf[offers[attempt[x].token].by]] \in Peer
    BY <2>1, BindsArePlaces DEF Peer
  <2>3. QED
    BY <1>0, <1>6, <2>1, <2>2, AddPeerTyped, AttemptsHaveHomes, NamesAreGiven DEF Keep
<1>7. ASSUME NEW r \in accepts, NEW saved \in BOOLEAN, StorePeer(r, saved) PROVE PeersTyped'
  <2>1. HomeOf[r.by] \in Machines /\ offers[r.token].by \in Machines
    BY RequestsRefer
  <2>2. Given(r) \in Peer
    BY <2>1, BindsArePlaces DEF Given, Peer, Places
  <2>3. QED
    BY <1>0, <1>7, <2>1, <2>2, AddPeerTyped, NamesAreGiven DEF StorePeer
<1>8. ASSUME NEW m \in Machines, Restart(m) PROVE PeersTyped'
  BY <1>0, <1>8 DEF PeersTyped, Restart
<1>9. CASE UNCHANGED peers
  BY <1>0, <1>9 DEF PeersTyped, peers
<1>10. QED
  BY ZenonT(60), <1>1, <1>2, <1>3, <1>4, <1>5, <1>6, <1>7, <1>8, <1>9
     DEF Next, AttemptStep, vars, MakeOffer, ShortOffer, TokenExpires, PostFails, CreateCode,
         CodeExpires, WindowEnds, RelayRestarts, Connect, UseCode, Rejected, Confirmed, Lookup,
         NoAnswer, TakeToken

\* Every step keeps the types of tokens, offers and codes.
LEMMA SecretsStep == Shape /\ [Next]_vars => SecretsTyped'
<1> SUFFICES ASSUME Shape, [Next]_vars
             PROVE  SecretsTyped'
  OBVIOUS
<1>0. SecretsTyped
  BY DEF Shape
<1> USE DEF SecretsTyped
<1>1. ASSUME NEW m \in Machines, NEW t \in Tokens, NEW relay \in BOOLEAN, Issue(m, t, relay)
      PROVE  tokens' \in [Machines -> SUBSET Tokens] /\ offers' \in [Tokens -> Offer \union {NoOffer}]
  BY <1>0, <1>1 DEF Issue, Offer
<1>2. ASSUME NEW m \in Machines, NEW t \in Tokens, MakeOffer(m, t) PROVE SecretsTyped'
  BY <1>0, <1>1, <1>2 DEF MakeOffer
<1>3. ASSUME NEW m \in Machines, NEW t \in Tokens, ShortOffer(m, t) PROVE SecretsTyped'
  BY <1>0, <1>1, <1>3 DEF ShortOffer
<1>4. ASSUME NEW m \in Machines, NEW t \in Tokens, TokenExpires(m, t) PROVE SecretsTyped'
  BY <1>0, <1>4 DEF TokenExpires
<1>5. ASSUME NEW t \in Tokens, PostFails(t) PROVE SecretsTyped'
  BY <1>0, <1>5 DEF PostFails
<1>6. ASSUME NEW t \in Tokens, NEW c \in Codes, CreateCode(t, c) PROVE SecretsTyped'
  BY <1>0, <1>6 DEF CreateCode
<1>7. ASSUME NEW c \in Codes, CodeExpires(c) PROVE SecretsTyped'
  BY <1>0, <1>7 DEF CodeExpires
<1>8. ASSUME NEW m \in Machines, WindowEnds(m) PROVE SecretsTyped'
  BY <1>0, <1>8, Bounds DEF WindowEnds
<1>9. CASE RelayRestarts
  BY <1>0, <1>9, Bounds DEF RelayRestarts
<1>10. ASSUME NEW x \in Attempts, NEW good \in BOOLEAN, Lookup(x, good) PROVE SecretsTyped'
  <2>1. lookups' \in [Machines -> 0 .. Burst]
    BY <1>0, <1>10, Bounds, AttemptsHaveHomes DEF Lookup
  <2>2. codes' \in [Codes -> Tokens \union {NoOne}]
    BY <1>0, <1>10 DEF Lookup
  <2>3. QED
    BY <1>0, <1>10, <2>1, <2>2 DEF Lookup
<1>11. ASSUME NEW r \in accepts, TakeToken(r) PROVE SecretsTyped'
  BY <1>0, <1>11 DEF TakeToken
<1>12. ASSUME NEW m \in Machines, Restart(m) PROVE SecretsTyped'
  BY <1>0, <1>12 DEF Restart
<1>13. CASE UNCHANGED secrets
  BY <1>0, <1>13 DEF secrets
<1>14. QED
  BY <1>2, <1>3, <1>4, <1>5, <1>6, <1>7, <1>8, <1>9, <1>10, <1>11, <1>12, <1>13, PeersOnly
     DEF Next, AttemptStep, vars, Connect, UseCode, Rejected, Confirmed, NoAnswer, Keep, StorePeer

\* A request that advances is the same request.
LEMMA AdvanceTyped ==
  ASSUME TalksTyped, NEW r \in accepts, NEW at \in {"sent", "taken", "ok", "no", "gone"},
         accepts' = Advance(r, at)
  PROVE  accepts' \subseteq Accept
BY DEF TalksTyped, Advance, Accept

\* A token is presented by the attempt that has it.
LEMMA PresentTyped ==
  ASSUME NEW x \in Attempts, NEW t \in Tokens, NEW via \in {"direct", "relay"},
         NEW others \in SUBSET Accept, Present(x, t, via, others)
  PROVE  accepts' \subseteq Accept
<1>1. [by |-> x, token |-> t, via |-> via, at |-> "sent", live |-> TRUE] \in Accept
  BY DEF Accept
<1>2. QED
  BY <1>1 DEF Present

\* Every step keeps the types of attempts and requests.
LEMMA TalksStep == Shape /\ [Next]_vars => TalksTyped'
<1> SUFFICES ASSUME Shape, [Next]_vars
             PROVE  TalksTyped'
  OBVIOUS
<1>0. TalksTyped /\ Idle \in Attempt
  BY DEF Shape, Idle, Attempt
<1>1. ASSUME NEW x \in Attempts, NEW t \in Tokens, Connect(x, t)
      PROVE  TalksTyped'
  <2>1. [Idle EXCEPT !.pc = "direct", !.token = t] \in Attempt
    BY DEF Idle, Attempt
  <2>2. accepts' \subseteq Accept
    BY <1>0, <1>1, PresentTyped DEF Connect, TalksTyped
  <2>3. QED
    BY <1>0, <1>1, <2>1, <2>2 DEF Connect, Update, TalksTyped
<1>2. ASSUME NEW x \in Attempts, NEW c \in Codes, UseCode(x, c) PROVE TalksTyped'
  <2>1. [Idle EXCEPT !.pc = "code", !.code = c] \in Attempt
    BY DEF Idle, Attempt
  <2>2. QED
    BY <1>0, <1>2, <2>1 DEF UseCode, Update, TalksTyped
<1>3. ASSUME NEW x \in Attempts, NEW good \in BOOLEAN, Lookup(x, good) PROVE TalksTyped'
  <2> DEFINE t == codes[attempt[x].code]
  <2>1. CASE Update(x, Idle) /\ UNCHANGED accepts
    BY <1>0, <1>3, <2>1 DEF Lookup, Update, TalksTyped
  <2>2. CASE Update(x, [Idle EXCEPT !.pc = "direct", !.token = t]) /\ Present(x, t, "direct", accepts)
             /\ t # NoOne
    <3>1. t \in Tokens
      BY <1>3, <2>2 DEF Lookup, Shape, SecretsTyped, OffersStand, At
    <3>2. [Idle EXCEPT !.pc = "direct", !.token = t] \in Attempt
      BY <3>1 DEF Idle, Attempt
    <3>3. accepts' \subseteq Accept
      BY <1>0, <2>2, <3>1, PresentTyped DEF TalksTyped
    <3>4. QED
      BY <1>0, <1>3, <2>2, <3>2, <3>3 DEF Lookup, Update, TalksTyped
  <2>3. QED
    BY <1>3, <2>1, <2>2 DEF Lookup
<1>4. ASSUME NEW x \in Attempts, Rejected(x) \/ Confirmed(x) PROVE TalksTyped'
  <2>1. [attempt[x] EXCEPT !.pc = "save"] \in Attempt
    BY <1>0 DEF TalksTyped, Attempt
  <2>2. QED
    BY <1>0, <1>4, <2>1 DEF Rejected, Confirmed, Update, TalksTyped
<1>5. ASSUME NEW x \in Attempts, NEW lost \in BOOLEAN, NoAnswer(x, lost) PROVE TalksTyped'
  <2>1. PICK r \in accepts :
          LET others == (accepts \ {r}) \union
                          (IF lost \/ r.at \in {"ok", "no", "gone"} THEN {}
                           ELSE {[r EXCEPT !.live = FALSE]}) IN
          /\ r.by = x /\ r.live
          /\ \/ /\ r.via = "direct" /\ HowOf[x] = "ui"
                /\ offers[r.token].relay /\ HomeOf[x] \in Relayed
                /\ Present(x, r.token, "relay", others)
                /\ Update(x, [attempt[x] EXCEPT !.pc = "relay"])
             \/ accepts' = others /\ Update(x, Idle)
    BY <1>5 DEF NoAnswer
  <2> DEFINE others == (accepts \ {r}) \union
                          (IF lost \/ r.at \in {"ok", "no", "gone"} THEN {}
                           ELSE {[r EXCEPT !.live = FALSE]})
  <2>2. others \in SUBSET Accept
    BY <1>0 DEF TalksTyped, Accept
  <2>3. [attempt[x] EXCEPT !.pc = "relay"] \in Attempt
    BY <1>0 DEF TalksTyped, Attempt
  <2>4. accepts' \subseteq Accept
    BY <2>1, <2>2, PresentTyped, RequestsRefer
  <2>5. attempt' \in [Attempts -> Attempt]
    BY <1>0, <2>1, <2>3 DEF Update, TalksTyped
  <2>6. QED
    BY <1>0, <1>5, <2>4, <2>5 DEF NoAnswer, TalksTyped
<1>6. ASSUME NEW x \in Attempts, NEW saved \in BOOLEAN, Keep(x, saved) PROVE TalksTyped'
  <2>1. attempt[x].token \in Tokens
    BY <1>6, AttemptsRefer DEF Keep, At
  <2>2. QED
    BY <1>0, <1>6, <2>1 DEF Keep, Update, TalksTyped
<1>7. ASSUME NEW r \in accepts, TakeToken(r) PROVE TalksTyped'
  BY <1>0, <1>7, AdvanceTyped DEF TakeToken, TalksTyped
<1>8. ASSUME NEW r \in accepts, NEW saved \in BOOLEAN, StorePeer(r, saved) PROVE TalksTyped'
  <2>1. accepts' \subseteq Accept
    BY <1>0, <1>8, AdvanceTyped DEF StorePeer
  <2>2. r \in Accept
    BY <1>0 DEF TalksTyped
  <2>3. [by |-> r.by, token |-> r.token, via |-> r.via, saved |-> saved] \in Stores
    BY <2>2 DEF Stores, Accept
  <2>4. QED
    BY <1>0, <1>8, <2>1, <2>3 DEF StorePeer, Note, talks, TalksTyped
<1>9. ASSUME NEW m \in Machines, Restart(m) PROVE TalksTyped'
  <2>1. \A r \in accepts : \A l \in BOOLEAN, at \in {"sent", "taken", "ok", "no", "gone"} :
          [r EXCEPT !.live = l, !.at = at] \in Accept
    BY <1>0 DEF TalksTyped, Accept
  <2>2. \A r \in accepts : r.live \in BOOLEAN /\ r.at \in {"sent", "taken", "ok", "no", "gone"}
    BY <1>0 DEF TalksTyped, Accept
  <2> DEFINE dropped == {x \in Attempts : HomeOf[x] = m /\ HowOf[x] = "ui"}
             halfway == {r \in accepts : r.at = "taken" /\ offers[r.token].by = m}
             after(r) == [r EXCEPT !.live = @ /\ r.by \notin dropped,
                                   !.at = IF r \in halfway THEN "gone" ELSE @]
  <2>3. accepts' \subseteq Accept
    <3>1. accepts' \subseteq {after(r) : r \in accepts}
      BY <1>9 DEF Restart
    <3>2. ASSUME NEW r \in accepts PROVE after(r) \in Accept
      <4>1. after(r) = [r EXCEPT !.live = r.live /\ r.by \notin dropped,
                                 !.at = IF r \in halfway THEN "gone" ELSE r.at]
        OBVIOUS
      <4>2. (r.live /\ r.by \notin dropped) \in BOOLEAN
        OBVIOUS
      <4>3. (IF r \in halfway THEN "gone" ELSE r.at) \in {"sent", "taken", "ok", "no", "gone"}
        BY <2>2
      <4>4. QED
        BY <2>1, <4>1, <4>2, <4>3
    <3>3. QED
      BY ZenonT(60), <3>1, <3>2
  <2>4. attempt' \in [Attempts -> Attempt]
    BY <1>0, <1>9 DEF Restart, TalksTyped
  <2>5. QED
    BY <1>0, <1>9, <2>3, <2>4 DEF Restart, TalksTyped
<1>10. CASE UNCHANGED talks
  BY <1>0, <1>10 DEF talks, TalksTyped
<1>11. QED
  BY <1>1, <1>2, <1>3, <1>4, <1>5, <1>6, <1>7, <1>8, <1>9, <1>10, PeersOnly
     DEF Next, AttemptStep, vars, MakeOffer, ShortOffer, TokenExpires, PostFails, CreateCode,
         CodeExpires, WindowEnds, RelayRestarts

\* No step uses up more faults than there may be.
LEMMA FaultsStep == Shape /\ [Next]_vars => FaultsTyped'
<1> SUFFICES ASSUME Shape, [Next]_vars
             PROVE  FaultsTyped'
  OBVIOUS
<1>1. FaultsTyped
  BY DEF Shape
<1>2. CASE UNCHANGED faults
  BY <1>1, <1>2 DEF FaultsTyped
<1>3. CASE \E bad : Fault(bad)
  BY <1>1, <1>3, FaultsCount
<1>4. CASE Fault(TRUE)
  BY <1>3, <1>4
<1>5. ASSUME NEW good \in BOOLEAN, Fault(~good) PROVE FaultsTyped'
  BY <1>3, <1>5
<1>6. ASSUME NEW x \in Attempts, NEW lost \in BOOLEAN, NoAnswer(x, lost) PROVE FaultsTyped'
  BY <1>3, <1>6 DEF NoAnswer
<1>7. QED
  BY ZenonT(60), <1>2, <1>3, <1>4, <1>5, <1>6, PeersOnly
     DEF Next, AttemptStep, vars, talks, MakeOffer, ShortOffer, TokenExpires, PostFails,
         CreateCode, CodeExpires, WindowEnds, RelayRestarts, Connect, UseCode, Rejected,
         Confirmed, Lookup, Keep, AddPeer, Save, TakeToken, StorePeer, Restart

\* An offer, once made, stays as it is.
LEMMA OffersStay ==
  ASSUME Shape, [Next]_vars
  PROVE  \A t \in Tokens : offers[t] # NoOffer => offers'[t] = offers[t]
<1>1. SecretsTyped
  BY DEF Shape
<1>2. ASSUME NEW m \in Machines, NEW t \in Tokens, NEW relay, Issue(m, t, relay)
      PROVE  \A u \in Tokens : offers[u] # NoOffer => offers'[u] = offers[u]
  BY <1>1, <1>2 DEF Issue, SecretsTyped
<1>3. ASSUME NEW m \in Machines, NEW t \in Tokens, MakeOffer(m, t) \/ ShortOffer(m, t)
      PROVE  \A u \in Tokens : offers[u] # NoOffer => offers'[u] = offers[u]
  BY <1>2, <1>3 DEF MakeOffer, ShortOffer
<1>4. CASE UNCHANGED offers
  BY <1>4
<1>5. CASE UNCHANGED secrets
  BY <1>5 DEF secrets
<1>6. QED
  BY <1>3, <1>4, <1>5, PeersOnly
     DEF Next, AttemptStep, vars, TokenExpires, PostFails,
         CreateCode, CodeExpires, WindowEnds, RelayRestarts, Connect, UseCode, Rejected,
         Confirmed, Lookup, NoAnswer, Keep, TakeToken, StorePeer, Restart

\* What a daemon posts at the relay, and what is behind the relay's codes, was offered.
LEMMA PostedStand ==
  ASSUME Shape, [Next]_vars
  PROVE  /\ \A t \in posting' : offers'[t] # NoOffer
         /\ \A c \in Codes : codes'[c] # NoOne => offers'[codes'[c]] # NoOffer
<1>0. /\ posting \subseteq Tokens /\ codes \in [Codes -> Tokens \union {NoOne}]
      /\ \A t \in posting : offers[t] # NoOffer
      /\ \A c \in Codes : codes[c] # NoOne => offers[codes[c]] # NoOffer
      /\ \A t \in Tokens : offers[t] # NoOffer => offers'[t] # NoOffer
  BY OffersStay DEF Shape, SecretsTyped, OffersStand
<1> DEFINE Goal == /\ \A t \in posting' : offers'[t] # NoOffer
                   /\ \A c \in Codes : codes'[c] # NoOne => offers'[codes'[c]] # NoOffer
<1>1. ASSUME NEW m \in Machines, NEW t \in Tokens, ShortOffer(m, t) PROVE Goal
  <2>1. offers'[t] # NoOffer /\ posting' = posting \union {t} /\ codes' = codes
    BY <1>1, NoOneIsNoMachine DEF ShortOffer, Issue, Shape, SecretsTyped
  <2>2. QED
    BY <1>0, <2>1
<1>2. ASSUME NEW t \in Tokens, NEW c \in Codes, CreateCode(t, c) PROVE Goal
  BY <1>0, <1>2 DEF CreateCode
<1>3. CASE posting' \subseteq posting /\ \A c \in Codes : codes'[c] \in {codes[c], NoOne}
  BY <1>0, <1>3
<1>4. ASSUME NEW x \in Attempts, NEW good \in BOOLEAN, Lookup(x, good) PROVE Goal
  <2>1. \A c \in Codes : codes'[c] \in {codes[c], NoOne}
    BY <1>0, <1>4 DEF Lookup
  <2>2. posting' = posting
    BY <1>4 DEF Lookup
  <2>3. QED
    BY <1>3, <2>1, <2>2
<1>5. ASSUME NEW c \in Codes, CodeExpires(c) PROVE Goal
  BY <1>0, <1>3, <1>5 DEF CodeExpires
<1>6. CASE RelayRestarts
  BY <1>3, <1>6 DEF RelayRestarts
<1>7. ASSUME NEW t \in Tokens, PostFails(t) PROVE Goal
  BY <1>3, <1>7 DEF PostFails
<1>8. CASE UNCHANGED <<posting, codes>>
  BY <1>3, <1>8
<1>9. Goal
  BY <1>1, <1>2, <1>4, <1>5, <1>6, <1>7, <1>8, PeersOnly
     DEF Next, AttemptStep, vars, secrets, MakeOffer, TokenExpires, WindowEnds, Connect, UseCode,
         Rejected, Confirmed, NoAnswer, Keep, TakeToken, StorePeer, Restart
<1>10. QED
  BY <1>9

\* The fields of a request, as far as a change of one leaves the others.
LEMMA Accepts ==
  ASSUME Shape, NEW r \in accepts, NEW live, NEW at
  PROVE  /\ r.live \in BOOLEAN
         /\ [r EXCEPT !.at = at] = [by |-> r.by, token |-> r.token, via |-> r.via, at |-> at, live |-> r.live]
         /\ [r EXCEPT !.live = live] = [by |-> r.by, token |-> r.token, via |-> r.via, at |-> r.at, live |-> live]
         /\ [r EXCEPT !.live = live, !.at = at] = [by |-> r.by, token |-> r.token, via |-> r.via, at |-> at, live |-> live]
         /\ r = [by |-> r.by, token |-> r.token, via |-> r.via, at |-> r.at, live |-> r.live]
<1>1. r \in Accept
  BY DEF Shape, TalksTyped
<1>2. r = [by |-> r.by, token |-> r.token, via |-> r.via, at |-> r.at, live |-> r.live]
  BY <1>1 DEF Accept
<1>3. r.live \in BOOLEAN
  BY <1>1 DEF Accept
<1>4. [r EXCEPT !.at = at] = [by |-> r.by, token |-> r.token, via |-> r.via, at |-> at, live |-> r.live]
  BY <1>1 DEF Accept
<1>5. [r EXCEPT !.live = live] = [by |-> r.by, token |-> r.token, via |-> r.via, at |-> r.at, live |-> live]
  BY <1>1 DEF Accept
<1>6. [r EXCEPT !.live = live, !.at = at] =
        [by |-> r.by, token |-> r.token, via |-> r.via, at |-> at, live |-> live]
  <2> DEFINE q == [r EXCEPT !.live = live]
  <2>1. [r EXCEPT !.live = live, !.at = at] = [q EXCEPT !.at = at]
    BY <1>1 DEF Accept
  <2>2. q = [by |-> r.by, token |-> r.token, via |-> r.via, at |-> r.at, live |-> live]
    BY <1>5
  <2> HIDE DEF q
  <2>3. [q EXCEPT !.at = at] = [by |-> r.by, token |-> r.token, via |-> r.via, at |-> at, live |-> live]
    BY <2>2
  <2>4. QED
    BY <2>1, <2>3
<1>7. QED
  BY <1>2, <1>3, <1>4, <1>5, <1>6

\* What a restart of m makes of a request.
After(m, q) ==
  [by |-> q.by, token |-> q.token, via |-> q.via,
   at |-> IF q.at = "taken" /\ offers[q.token].by = m THEN "gone" ELSE q.at,
   live |-> q.live /\ ~(HomeOf[q.by] = m /\ HowOf[q.by] = "ui")]

\* A restart keeps requests, or some of them: no more of them are live or taken, and none is
\* answered by it.
LEMMA RestartKeeps ==
  ASSUME Shape, NEW m \in Machines, Restart(m), NEW r \in accepts'
  PROVE  \E q \in accepts :
           /\ r.by = q.by /\ r.token = q.token /\ r.via = q.via
           /\ r.live => q.live /\ attempt'[q.by] = attempt[q.by]
           /\ r.at \in {q.at, "gone"}
           /\ r = After(m, q)
<1> DEFINE dropped == {x \in Attempts : HomeOf[x] = m /\ HowOf[x] = "ui"}
           halfway == {q \in accepts : q.at = "taken" /\ offers[q.token].by = m}
           after(q) == [q EXCEPT !.live = @ /\ q.by \notin dropped,
                                 !.at = IF q \in halfway THEN "gone" ELSE @]
<1>1. PICK q \in accepts : r = after(q)
  BY DEF Restart
<1>2. after(q) = [q EXCEPT !.live = q.live /\ q.by \notin dropped,
                           !.at = IF q \in halfway THEN "gone" ELSE q.at]
  OBVIOUS
<1>3. r = [by |-> q.by, token |-> q.token, via |-> q.via,
           at |-> IF q \in halfway THEN "gone" ELSE q.at, live |-> q.live /\ q.by \notin dropped]
  BY ZenonT(60), <1>1, <1>2, Accepts
<1>4. r = After(m, q)
  BY <1>3, RequestsRefer DEF After
<1>5. q.by \notin dropped => attempt'[q.by] = attempt[q.by]
  BY RequestsRefer DEF Restart
<1>6. /\ r.by = q.by /\ r.token = q.token /\ r.via = q.via
      /\ r.live => q.live /\ attempt'[q.by] = attempt[q.by]
      /\ r.at \in {q.at, "gone"}
  BY <1>3, <1>5
<1>7. QED
  BY <1>4, <1>6

\* A request to pair is about the token of an attempt, or was there before.
LEMMA RequestsStand ==
  ASSUME Shape, [Next]_vars
  PROVE  \A r \in accepts' : r.token \in Tokens /\ offers'[r.token] # NoOffer
<1>0. /\ \A r \in accepts : r.token \in Tokens /\ offers[r.token] # NoOffer
      /\ \A t \in Tokens : offers[t] # NoOffer => offers'[t] # NoOffer
  BY OffersStay, RequestsRefer DEF Shape, OffersStand
<1>1. CASE \A r \in accepts' : \/ \E q \in accepts : r.token = q.token
                               \/ r.token \in Tokens /\ offers[r.token] # NoOffer
  BY <1>0, <1>1
<1>2. ASSUME NEW x \in Attempts, NEW t \in Tokens, Connect(x, t)
      PROVE  \A r \in accepts' : r \in accepts \/ (r.token \in Tokens /\ offers[r.token] # NoOffer)
  BY <1>2 DEF Connect, Present
<1>3. ASSUME NEW x \in Attempts, NEW good \in BOOLEAN, Lookup(x, good)
      PROVE  \A r \in accepts' : r \in accepts \/ (r.token \in Tokens /\ offers[r.token] # NoOffer)
  <2>1. At(x, "code") /\ attempt[x].code \in Codes
    BY <1>3 DEF Lookup, At, Shape, OffersStand
  <2>2. CASE codes[attempt[x].code] # NoOne
    <3>1. codes[attempt[x].code] \in Tokens /\ offers[codes[attempt[x].code]] # NoOffer
      BY <2>1, <2>2 DEF Shape, SecretsTyped, OffersStand
    <3>2. QED
      BY <1>3, <3>1 DEF Lookup, Present
  <2>3. CASE codes[attempt[x].code] = NoOne
    BY <1>3, <2>3 DEF Lookup
  <2>4. QED
    BY <2>2, <2>3
<1>4. ASSUME NEW x \in Attempts, Rejected(x) \/ Confirmed(x)
      PROVE  accepts' \subseteq accepts
  BY <1>4 DEF Rejected, Confirmed
<1>5. ASSUME NEW x \in Attempts, NEW lost \in BOOLEAN, NoAnswer(x, lost)
      PROVE  \A r \in accepts' : \E q \in accepts : r.token = q.token
  <2>1. PICK q \in accepts :
          \A r \in accepts' : r \in accepts \/ r = [q EXCEPT !.live = FALSE] \/ r.token = q.token
    BY <1>5 DEF NoAnswer, Present
  <2>2. [q EXCEPT !.live = FALSE].token = q.token
    BY ZenonT(60), Accepts
  <2>3. QED
    BY <2>1, <2>2
<1>6. ASSUME NEW r \in accepts, NEW at, accepts' = Advance(r, at)
      PROVE  \A s \in accepts' : \E q \in accepts : s.token = q.token
  BY <1>6, Accepts DEF Advance
<1>7. ASSUME NEW m \in Machines, Restart(m)
      PROVE  \A r \in accepts' : \E q \in accepts : r.token = q.token
  BY <1>7, RestartKeeps
<1>8. CASE UNCHANGED accepts
  BY <1>1, <1>8
<1>9. ASSUME NEW r \in accepts, TakeToken(r) \/ \E saved \in BOOLEAN : StorePeer(r, saved)
      PROVE  \A s \in accepts' : \E q \in accepts : s.token = q.token
  BY <1>6, <1>9 DEF TakeToken, StorePeer
<1>10. QED
  BY <1>1, <1>2, <1>3, <1>4, <1>5, <1>7, <1>8, <1>9, PeersOnly
     DEF Next, AttemptStep, vars, talks, MakeOffer, ShortOffer, TokenExpires, PostFails,
         CreateCode, CodeExpires, WindowEnds, RelayRestarts, UseCode, Keep

\* An attempt that looks up a code has one, and one that presents a token, too.
LEMMA AttemptsStand ==
  ASSUME Shape, [Next]_vars, NEW x \in Attempts
  PROVE  /\ attempt'[x].pc = "code" => attempt'[x].code \in Codes
         /\ attempt'[x].pc \in {"direct", "relay", "save"} =>
              attempt'[x].token \in Tokens /\ offers'[attempt'[x].token] # NoOffer
<1>0. /\ attempt \in [Attempts -> Attempt]
      /\ \A y \in Attempts :
           /\ attempt[y].pc = "code" => attempt[y].code \in Codes
           /\ attempt[y].pc \in {"direct", "relay", "save"} =>
                attempt[y].token \in Tokens /\ offers[attempt[y].token] # NoOffer
      /\ \A t \in Tokens : offers[t] # NoOffer => offers'[t] # NoOffer
  BY OffersStay DEF Shape, TalksTyped, OffersStand
<1> DEFINE Goal == /\ attempt'[x].pc = "code" => attempt'[x].code \in Codes
                   /\ attempt'[x].pc \in {"direct", "relay", "save"} =>
                        attempt'[x].token \in Tokens /\ offers'[attempt'[x].token] # NoOffer
<1>1. CASE attempt'[x] = attempt[x] \/ attempt'[x] = Idle
  <2>1. CASE attempt'[x] = attempt[x]
    BY <1>0, <2>1
  <2>2. CASE attempt'[x] = Idle
    BY <2>2 DEF Idle
  <2>3. QED
    BY <1>1, <2>1, <2>2
<1>2. ASSUME NEW y \in Attempts, NEW t \in Tokens, Connect(y, t)
      PROVE  Goal
  BY <1>0, <1>1, <1>2 DEF Connect, Update, Idle
<1>3. ASSUME NEW y \in Attempts, NEW c \in Codes, UseCode(y, c) PROVE Goal
  BY <1>0, <1>1, <1>3 DEF UseCode, Update, Idle
<1>4. ASSUME NEW y \in Attempts, NEW good \in BOOLEAN, Lookup(y, good) PROVE Goal
  <2>1. attempt[y].code \in Codes
    BY <1>4, <1>0 DEF Lookup, At
  <2> DEFINE t == codes[attempt[y].code]
  <2>2. CASE Update(y, [Idle EXCEPT !.pc = "direct", !.token = t]) /\ t # NoOne
    <3>1. t \in Tokens /\ offers[t] # NoOffer
      BY <2>1, <2>2 DEF Shape, SecretsTyped, OffersStand
    <3>2. offers'[t] # NoOffer
      BY <1>0, <3>1
    <3>3. CASE x = y
      <4>1. attempt'[x] = [Idle EXCEPT !.pc = "direct", !.token = t]
        BY <1>0, <2>2, <3>3 DEF Update
      <4>2. attempt'[x].pc = "direct" /\ attempt'[x].token = t
        BY <4>1 DEF Idle
      <4>3. QED
        BY <3>1, <3>2, <4>2
    <3>4. CASE x # y
      BY <1>0, <1>1, <2>2, <3>4 DEF Update
    <3>5. QED
      BY <3>3, <3>4
  <2>3. CASE Update(y, Idle)
    BY <1>0, <1>1, <2>3 DEF Update
  <2>4. QED
    BY <1>4, <2>2, <2>3 DEF Lookup
<1>5. ASSUME NEW y \in Attempts, Rejected(y) PROVE Goal
  BY <1>0, <1>1, <1>5 DEF Rejected, Update
<1>6. ASSUME NEW y \in Attempts, NEW pc \in {"relay", "save"},
             attempt[y].pc \in {"direct", "relay"}, Update(y, [attempt[y] EXCEPT !.pc = pc])
      PROVE  Goal
  <2>1. CASE x = y
    <3>1. attempt'[x].pc = pc /\ attempt'[x].token = attempt[x].token
      BY <1>0, <1>6, <2>1 DEF Update, Attempt
    <3>2. QED
      BY <1>0, <1>6, <2>1, <3>1
  <2>2. CASE x # y
    BY <1>0, <1>1, <1>6, <2>2 DEF Update
  <2>3. QED
    BY <2>1, <2>2
<1>7. ASSUME NEW y \in Attempts, Confirmed(y) PROVE Goal
  BY <1>6, <1>7 DEF Confirmed, Shape, OneRequestEach
<1>8. ASSUME NEW y \in Attempts, NEW lost \in BOOLEAN, NoAnswer(y, lost) PROVE Goal
  <2>1. attempt[y].pc \in {"direct", "relay"}
    BY <1>8 DEF NoAnswer, Shape, OneRequestEach
  <2>2. Update(y, [attempt[y] EXCEPT !.pc = "relay"]) \/ Update(y, Idle)
    BY <1>8 DEF NoAnswer
  <2>3. CASE Update(y, Idle)
    BY <1>0, <1>1, <2>3 DEF Update
  <2>4. QED
    BY <1>6, <2>1, <2>2, <2>3
<1>9. ASSUME NEW y \in Attempts, NEW saved \in BOOLEAN, Keep(y, saved) PROVE Goal
  BY <1>0, <1>1, <1>9 DEF Keep, Update
<1>10. ASSUME NEW m \in Machines, Restart(m) PROVE Goal
  BY <1>0, <1>1, <1>10 DEF Restart
<1>11. CASE UNCHANGED attempt
  BY <1>1, <1>11
<1>12. Goal
  BY <1>2, <1>3, <1>4, <1>5, <1>7, <1>8, <1>9, <1>10, <1>11, PeersOnly
     DEF Next, AttemptStep, vars, talks, MakeOffer, ShortOffer, TokenExpires, PostFails,
         CreateCode, CodeExpires, WindowEnds, RelayRestarts, TakeToken, StorePeer
<1>13. QED
  BY <1>12

\* While an attempt waits for an answer it keeps its token and makes no second request.
LEMMA OneRequestStep == Shape /\ [Next]_vars => OneRequestEach'
<1> SUFFICES ASSUME Shape, [Next]_vars
             PROVE  OneRequestEach'
  OBVIOUS
<1>0. OneRequestEach /\ attempt \in [Attempts -> Attempt]
  BY DEF Shape, TalksTyped
<1>1. CASE /\ \A r \in accepts' : r.live => \E q \in accepts :
                q.live /\ r.by = q.by /\ r.token = q.token /\ attempt'[q.by] = attempt[q.by]
           /\ \A r, s \in accepts' : r.live /\ s.live /\ r.by = s.by => r = s
  BY <1>0, <1>1 DEF OneRequestEach
<1>2. ASSUME NEW x \in Attempts, \A r \in accepts : r.live => r.by # x,
             NEW t \in Tokens, NEW a, attempt' = [attempt EXCEPT ![x] = a],
             a.pc = "direct", a.token = t, Present(x, t, "direct", accepts)
      PROVE  OneRequestEach'
  <2>1. \A r \in accepts : r.live => attempt'[r.by] = attempt[r.by]
    BY <1>0, <1>2, RequestsRefer
  <2>2. attempt'[x] = a
    BY <1>0, <1>2
  <2> DEFINE new == [by |-> x, token |-> t, via |-> "direct", at |-> "sent", live |-> TRUE]
  <2>3. accepts' = accepts \union {new} /\ new.by = x /\ new.token = t
    BY <1>2 DEF Present
  <2> HIDE DEF new
  <2>4. QED
    BY <1>0, <1>2, <2>1, <2>2, <2>3 DEF OneRequestEach
<1>3. ASSUME NEW x \in Attempts, NEW t \in Tokens, Connect(x, t)
      PROVE  OneRequestEach'
  <2>1. \A r \in accepts : r.live => r.by # x
    BY <1>0, <1>3 DEF Connect, At, OneRequestEach
  <2> DEFINE a == [Idle EXCEPT !.pc = "direct", !.token = t]
  <2>2. a.pc = "direct" /\ a.token = t
    BY DEF Idle
  <2>3. attempt' = [attempt EXCEPT ![x] = a] /\ Present(x, t, "direct", accepts)
    BY <1>3 DEF Connect, Update
  <2> HIDE DEF a
  <2>4. QED
    BY <1>2, <2>1, <2>2, <2>3
<1>4. ASSUME NEW x \in Attempts, NEW a, attempt' = [attempt EXCEPT ![x] = a],
             \A r \in accepts : r.live => r.by # x, accepts' = accepts
      PROVE  OneRequestEach'
  BY <1>0, <1>1, <1>4, RequestsRefer DEF OneRequestEach
<1>5. ASSUME NEW x \in Attempts, NEW c \in Codes, UseCode(x, c) PROVE OneRequestEach'
  <2>1. \A r \in accepts : r.live => r.by # x
    BY <1>0, <1>5 DEF UseCode, At, OneRequestEach
  <2>2. QED
    BY <1>4, <1>5, <2>1 DEF UseCode, Update
<1>6. ASSUME NEW x \in Attempts, NEW good \in BOOLEAN, Lookup(x, good) PROVE OneRequestEach'
  <2> DEFINE t == codes[attempt[x].code]
             a == [Idle EXCEPT !.pc = "direct", !.token = t]
  <2>1. (\A r \in accepts : r.live => r.by # x) /\ attempt[x].code \in Codes
    BY <1>0, <1>6 DEF Lookup, At, OneRequestEach, Shape, OffersStand
  <2>2. CASE Update(x, a) /\ Present(x, t, "direct", accepts) /\ t # NoOne
    <3>1. t \in Tokens
      BY <2>1, <2>2 DEF Shape, SecretsTyped
    <3>2. a.pc = "direct" /\ a.token = t
      BY DEF Idle
    <3>3. attempt' = [attempt EXCEPT ![x] = a]
      BY <2>2 DEF Update
    <3> HIDE DEF a, t
    <3>4. QED
      BY <1>2, <2>1, <2>2, <3>1, <3>2, <3>3
  <2>3. CASE Update(x, Idle) /\ UNCHANGED accepts
    BY <1>4, <2>1, <2>3 DEF Update
  <2>4. QED
    BY <1>6, <2>2, <2>3 DEF Lookup
<1>7. ASSUME NEW x \in Attempts, NEW a, attempt' = [attempt EXCEPT ![x] = a],
             NEW q \in accepts, q.by = x, q.live,
             \A r \in accepts' : r.live => r \in accepts \ {q}
      PROVE  OneRequestEach'
  <2>1. \A r \in accepts : r.live /\ r # q => attempt'[r.by] = attempt[r.by]
    BY <1>0, <1>7, RequestsRefer DEF OneRequestEach
  <2>2. QED
    BY <1>0, <1>1, <1>7, <2>1 DEF OneRequestEach
<1>8. ASSUME NEW x \in Attempts, Rejected(x) \/ Confirmed(x) PROVE OneRequestEach'
  BY <1>7, <1>8 DEF Rejected, Confirmed, Update
<1>9. ASSUME NEW x \in Attempts, NEW lost \in BOOLEAN, NoAnswer(x, lost) PROVE OneRequestEach'
  <2>1. PICK q \in accepts :
          LET others == (accepts \ {q}) \union
                          (IF lost \/ q.at \in {"ok", "no", "gone"} THEN {}
                           ELSE {[q EXCEPT !.live = FALSE]}) IN
          /\ q.by = x /\ q.live
          /\ \/ /\ q.via = "direct" /\ HowOf[x] = "ui"
                /\ offers[q.token].relay /\ HomeOf[x] \in Relayed
                /\ Present(x, q.token, "relay", others)
                /\ Update(x, [attempt[x] EXCEPT !.pc = "relay"])
             \/ accepts' = others /\ Update(x, Idle)
    BY <1>9 DEF NoAnswer
  <2> DEFINE others == (accepts \ {q}) \union
                          (IF lost \/ q.at \in {"ok", "no", "gone"} THEN {}
                           ELSE {[q EXCEPT !.live = FALSE]})
  <2>2. [q EXCEPT !.live = FALSE].live = FALSE
    <3>1. [q EXCEPT !.live = FALSE] =
            [by |-> q.by, token |-> q.token, via |-> q.via, at |-> q.at, live |-> FALSE]
      BY Accepts
    <3>2. QED
      BY <3>1
  <2>3. \A r \in others : r.live => r \in accepts \ {q}
    BY <2>2
  <2>4. CASE accepts' = others /\ Update(x, Idle)
    BY <1>7, <2>1, <2>3, <2>4 DEF Update
  <2>5. CASE Present(x, q.token, "relay", others) /\ Update(x, [attempt[x] EXCEPT !.pc = "relay"])
    <3> DEFINE new == [by |-> x, token |-> q.token, via |-> "relay", at |-> "sent", live |-> TRUE]
    <3>1. accepts' = others \union {new} /\ new.by = x /\ new.token = q.token
      BY <2>5 DEF Present
    <3>2. attempt'[x].pc = "relay" /\ attempt'[x].token = attempt[x].token
      BY <1>0, <2>5 DEF Update, Attempt
    <3>3. attempt[x].token = q.token
      BY <1>0, <2>1 DEF OneRequestEach
    <3>4. \A r \in accepts : r.live /\ r # q => attempt'[r.by] = attempt[r.by] /\ r.by # x
      BY <1>0, <2>1, <2>5, RequestsRefer DEF Update, OneRequestEach
    <3> HIDE DEF new, others
    <3>5. \A r \in accepts' : r.live => r = new \/ (r \in accepts \ {q})
      BY <2>3, <3>1
    <3>6. \A r \in accepts' : r.live => attempt'[r.by].pc \in {"direct", "relay"} /\ attempt'[r.by].token = r.token
      BY <1>0, <3>1, <3>2, <3>3, <3>4, <3>5 DEF OneRequestEach
    <3>7. \A r, s \in accepts' : r.live /\ s.live /\ r.by = s.by => r = s
      BY <1>0, <3>1, <3>4, <3>5 DEF OneRequestEach
    <3>8. QED
      BY <3>6, <3>7 DEF OneRequestEach
  <2>6. QED
    BY <2>1, <2>4, <2>5
<1>10. ASSUME NEW x \in Attempts, NEW saved \in BOOLEAN, Keep(x, saved) PROVE OneRequestEach'
  <2>1. \A r \in accepts : r.live => r.by # x
    BY <1>0, <1>10 DEF Keep, At, OneRequestEach
  <2>2. QED
    BY <1>4, <1>10, <2>1 DEF Keep, Update
<1>11. ASSUME NEW r \in accepts, NEW at, accepts' = Advance(r, at), attempt' = attempt
       PROVE  OneRequestEach'
  <2> DEFINE new == [r EXCEPT !.at = at]
  <2>1. new.by = r.by /\ new.token = r.token /\ new.live = r.live
    BY ZenonT(60), Accepts
  <2>2. accepts' \subseteq (accepts \ {r}) \union {new}
    BY <1>11 DEF Advance
  <2> HIDE DEF new
  <2>3. QED
    BY <1>0, <1>11, <2>1, <2>2 DEF OneRequestEach
<1>12. ASSUME NEW r \in accepts, TakeToken(r) \/ \E saved \in BOOLEAN : StorePeer(r, saved)
       PROVE  OneRequestEach'
  BY <1>11, <1>12 DEF TakeToken, StorePeer
<1>13. ASSUME NEW m \in Machines, Restart(m) PROVE OneRequestEach'
  <2>1. \A r \in accepts' : r.live => \E q \in accepts :
          q.live /\ r.by = q.by /\ r.token = q.token /\ attempt'[q.by] = attempt[q.by]
    BY <1>13, RestartKeeps
  <2>2. ASSUME NEW r \in accepts', NEW s \in accepts', r.live, s.live, r.by = s.by
        PROVE  r = s
    <3>1. PICK p \in accepts : p.live /\ r.by = p.by /\ r = After(m, p)
      BY <1>13, <2>2, RestartKeeps
    <3>2. PICK q \in accepts : q.live /\ s.by = q.by /\ s = After(m, q)
      BY <1>13, <2>2, RestartKeeps
    <3>3. QED
      BY <1>0, <2>2, <3>1, <3>2 DEF OneRequestEach
  <2>3. QED
    BY <1>1, <2>1, <2>2
<1>14. CASE UNCHANGED <<attempt, accepts>>
  BY <1>0, <1>14 DEF OneRequestEach
<1>15. QED
  BY <1>3, <1>5, <1>6, <1>8, <1>9, <1>10, <1>12, <1>13, <1>14, PeersOnly
     DEF Next, AttemptStep, vars, talks, MakeOffer, ShortOffer, TokenExpires, PostFails,
         CreateCode, CodeExpires, WindowEnds, RelayRestarts

\* Every step keeps the shape.
LEMMA ShapeStep == Shape /\ [Next]_vars => Shape'
<1> SUFFICES ASSUME Shape, [Next]_vars
             PROVE  Shape'
  OBVIOUS
<1>1. OffersStand'
  BY PostedStand, RequestsStand, AttemptsStand DEF OffersStand
<1>2. QED
  BY <1>1, PeersStep, SecretsStep, TalksStep, FaultsStep, OneRequestStep DEF Shape

\* Every variable has its type, whatever messages are lost and whoever restarts.
THEOREM TypeCorrect == Spec => []TypeOK
<1>1. QED
  BY ShapeInit, ShapeStep, ShapeIsTyped, PTL DEF Spec

-----------------------------------------------------------------------------
(* A token pairs once                                                        *)

TokenInv == TokensHaveOnePlace /\ TokenPairsOnce

\* Nothing is lost when tokens disappear and requests that hold one do not become more.
LEMMA FewerTokens ==
  ASSUME TokenInv, offers' = offers, given' = given,
         \A m \in Machines : tokens'[m] \subseteq tokens[m],
         \A r \in accepts' : r.at = "taken" =>
           \E q \in accepts : q.at = "taken" /\ q.token = r.token,
         \A r, s \in accepts' : r.at = "taken" /\ s.at = "taken" /\ r.token = s.token => r = s
  PROVE  TokenInv'
<1>1. \A m \in Machines : \A t \in tokens'[m] : offers'[t].by = m
  BY DEF TokenInv, TokensHaveOnePlace
<1>2. \A r \in accepts' : r.at = "taken" => \A m \in Machines : r.token \notin tokens'[m]
  BY DEF TokenInv, TokensHaveOnePlace
<1>3. \A p \in given' : /\ offers'[p.token] # NoOffer
                        /\ \A m \in Machines : p.token \notin tokens'[m]
                        /\ \A r \in accepts' : r.at = "taken" => r.token # p.token
  <2>1. SUFFICES ASSUME NEW p \in given
                 PROVE  /\ offers[p.token] # NoOffer
                        /\ \A m \in Machines : p.token \notin tokens'[m]
                        /\ \A r \in accepts' : r.at = "taken" => r.token # p.token
    OBVIOUS
  <2>2. /\ offers[p.token] # NoOffer
        /\ \A m \in Machines : p.token \notin tokens[m]
        /\ \A q \in accepts : q.at = "taken" => q.token # p.token
    BY DEF TokenInv, TokensHaveOnePlace
  <2>3. QED
    BY <2>2
<1>4. TokenPairsOnce'
  BY DEF TokenInv, TokenPairsOnce
<1>5. QED
  BY <1>1, <1>2, <1>3, <1>4 DEF TokenInv, TokensHaveOnePlace

\* A request that is not taken may come and go.
LEMMA OtherRequests ==
  ASSUME TokenInv, offers' = offers, given' = given, tokens' = tokens,
         \A r \in accepts' : r.at = "taken" => r \in accepts
  PROVE  TokenInv'
<1>1. \A r, s \in accepts' : r.at = "taken" /\ s.at = "taken" /\ r.token = s.token => r = s
  BY DEF TokenInv, TokensHaveOnePlace
<1>2. QED
  BY <1>1, FewerTokens

\* At first there is no token.
LEMMA TokenInit == Init => TokenInv
BY DEF Init, TokenInv, TokensHaveOnePlace, TokenPairsOnce

\* No step lets a second request take a token, or spends it twice.
LEMMA TokenStep == Shape /\ TokenInv /\ [Next]_vars => TokenInv'
<1> SUFFICES ASSUME Shape, TokenInv, [Next]_vars
             PROVE  TokenInv'
  OBVIOUS
<1>1. ASSUME NEW m \in Machines, NEW t \in Tokens, NEW relay, Issue(m, t, relay),
             accepts' = accepts, given' = given
      PROVE  TokenInv'
  <2>1. /\ \A r \in accepts : r.token # t
        /\ \A p \in given : p.token # t
        /\ \A k \in Machines : t \notin tokens[k]
    <3>1. offers[t] = NoOffer
      BY <1>1 DEF Issue
    <3>2. \A k \in Machines : t \notin tokens[k]
      BY <3>1, NoOneIsNoMachine DEF TokenInv, TokensHaveOnePlace
    <3>3. QED
      BY <3>1, <3>2 DEF Shape, OffersStand, TokenInv, TokensHaveOnePlace
  <2>2. offers' = [offers EXCEPT ![t] = [by |-> m, relay |-> relay]]
        /\ tokens' = [tokens EXCEPT ![m] = @ \union {t}]
    BY <1>1 DEF Issue
  <2>3. /\ \A k \in Machines : tokens'[k] \subseteq tokens[k] \union {t}
        /\ \A k \in Machines : t \in tokens'[k] => k = m
        /\ offers'[t].by = m /\ \A u \in Tokens \ {t} : offers'[u] = offers[u]
    BY <2>1, <2>2 DEF Shape, SecretsTyped
  <2>4. \A k \in Machines : \A u \in tokens'[k] : offers'[u].by = k
    BY <2>3 DEF Shape, SecretsTyped, TokenInv, TokensHaveOnePlace
  <2>5. \A p \in given : p.token \in Tokens
    BY DEF Shape, TalksTyped, Stores
  <2>6. TokenPairsOnce'
    BY <1>1 DEF TokenInv, TokenPairsOnce
  <2>7. \A r \in accepts' : r.at = "taken" => \A k \in Machines : r.token \notin tokens'[k]
    BY <1>1, <2>1, <2>3 DEF TokenInv, TokensHaveOnePlace
  <2>8. \A r, s \in accepts' : r.at = "taken" /\ s.at = "taken" /\ r.token = s.token => r = s
    BY <1>1 DEF TokenInv, TokensHaveOnePlace
  <2>9. ASSUME NEW p \in given
        PROVE  /\ offers'[p.token] # NoOffer
               /\ \A k \in Machines : p.token \notin tokens'[k]
               /\ \A r \in accepts' : r.at = "taken" => r.token # p.token
    <3>1. p.token \in Tokens \ {t}
      BY <2>1, <2>5
    <3>2. offers'[p.token] = offers[p.token] /\ \A k \in Machines : p.token \notin tokens'[k]
      BY <2>3, <3>1 DEF TokenInv, TokensHaveOnePlace
    <3> QED BY <1>1, <3>2 DEF TokenInv, TokensHaveOnePlace
  <2>10. TokensHaveOnePlace'
    BY <1>1, <2>4, <2>7, <2>8, <2>9 DEF TokensHaveOnePlace
  <2>11. QED
    BY <2>6, <2>10 DEF TokenInv
<1>2. ASSUME NEW m \in Machines, NEW t \in Tokens, MakeOffer(m, t) \/ ShortOffer(m, t)
      PROVE  TokenInv'
  BY <1>1, <1>2 DEF MakeOffer, ShortOffer, talks
<1>3. ASSUME NEW m \in Machines, NEW t \in Tokens, TokenExpires(m, t) PROVE TokenInv'
  <2>1. \A k \in Machines : tokens'[k] \subseteq tokens[k]
    BY <1>3 DEF TokenExpires, Shape, SecretsTyped
  <2>2. offers' = offers /\ given' = given /\ accepts' = accepts
    BY <1>3 DEF TokenExpires, talks
  <2>3. QED
    BY <2>1, <2>2, FewerTokens DEF TokenInv, TokensHaveOnePlace
<1>4. ASSUME NEW x \in Attempts, NEW t, NEW via, Present(x, t, via, accepts)
      PROVE  \A r \in accepts' : r.at = "taken" => r \in accepts
  BY <1>4 DEF Present
<1>5. ASSUME NEW x \in Attempts, NEW t \in Tokens, Connect(x, t)
      PROVE  TokenInv'
  BY <1>4, <1>5, OtherRequests DEF Connect, secrets
<1>6. ASSUME NEW x \in Attempts, NEW good \in BOOLEAN, Lookup(x, good) PROVE TokenInv'
  <2>1. UNCHANGED accepts \/ \E t : Present(x, t, "direct", accepts)
    BY <1>6 DEF Lookup
  <2>2. \A r \in accepts' : r.at = "taken" => r \in accepts
    BY <1>4, <2>1
  <2>3. QED
    BY <1>6, <2>2, OtherRequests DEF Lookup
<1>7. ASSUME NEW x \in Attempts, Rejected(x) \/ Confirmed(x) PROVE TokenInv'
  <2>1. accepts' \subseteq accepts
    BY <1>7 DEF Rejected, Confirmed
  <2>2. QED
    BY <1>7, <2>1, OtherRequests DEF Rejected, Confirmed, secrets
<1>8. ASSUME NEW x \in Attempts, NEW lost \in BOOLEAN, NoAnswer(x, lost) PROVE TokenInv'
  <2>1. PICK q \in accepts :
          \A r \in accepts' : \/ r \in accepts \ {q}
                              \/ r = [q EXCEPT !.live = FALSE]
                              \/ r.at = "sent"
    BY <1>8 DEF NoAnswer, Present
  <2> DEFINE new == [q EXCEPT !.live = FALSE]
  <2>2. new.token = q.token /\ new.at = q.at
    BY Accepts
  <2>3. \A r \in accepts' : r.at = "taken" => r \in accepts \ {q} \/ r = new
    BY <2>1
  <2> HIDE DEF new
  <2>4. \A r \in accepts' : r.at = "taken" => \E p \in accepts : p.at = "taken" /\ p.token = r.token
    BY <2>2, <2>3
  <2>5. \A r, s \in accepts' : r.at = "taken" /\ s.at = "taken" /\ r.token = s.token => r = s
    BY <2>2, <2>3 DEF TokenInv, TokensHaveOnePlace
  <2>6. offers' = offers /\ given' = given /\ tokens' = tokens
    BY <1>8 DEF NoAnswer, secrets
  <2>7. QED
    BY <2>4, <2>5, <2>6, FewerTokens
<1>9. ASSUME NEW x \in Attempts, NEW saved \in BOOLEAN, Keep(x, saved) PROVE TokenInv'
  BY <1>9, OtherRequests DEF Keep, secrets
<1>10. ASSUME NEW r \in accepts, NEW m \in Machines, r.at = "sent",
              accepts' = Advance(r, IF r.token \in tokens[m] THEN "taken" ELSE "no"),
              tokens' = [tokens EXCEPT ![m] = @ \ {r.token}],
              offers' = offers, given' = given
       PROVE  TokenInv'
  <2> DEFINE new == [r EXCEPT !.at = IF r.token \in tokens[m] THEN "taken" ELSE "no"]
  <2>1. new.token = r.token /\ new.at = IF r.token \in tokens[m] THEN "taken" ELSE "no"
    BY ZenonT(60), Accepts
  <2>2. accepts' \subseteq (accepts \ {r}) \union {new}
    BY <1>10 DEF Advance
  <2> HIDE DEF new
  <2>3. \A k \in Machines : tokens'[k] \subseteq tokens[k]
    BY <1>10 DEF Shape, SecretsTyped
  <2>4. CASE r.token \notin tokens[m]
    <3>1. \A q \in accepts' : q.at = "taken" => q \in accepts
      BY <2>1, <2>2, <2>4
    <3>2. \A q, s \in accepts' : q.at = "taken" /\ s.at = "taken" /\ q.token = s.token => q = s
      BY <3>1 DEF TokenInv, TokensHaveOnePlace
    <3>3. QED
      BY <1>10, <2>3, <3>1, <3>2, FewerTokens
  <2>5. CASE r.token \in tokens[m]
    <3>1. \A q \in accepts : q.at = "taken" => q.token # r.token
      BY <2>5 DEF TokenInv, TokensHaveOnePlace
    <3>2. \A k \in Machines : r.token \notin tokens'[k]
      BY <1>10, <2>5 DEF Shape, SecretsTyped, TokenInv, TokensHaveOnePlace
    <3>3. \A p \in given : p.token # r.token
      BY <2>5 DEF TokenInv, TokensHaveOnePlace
    <3>4. \A q \in accepts' : q.at = "taken" => q = new \/ q \in accepts
      BY <2>2
    <3>5. QED
      <4>1. \A k \in Machines : \A t \in tokens'[k] : offers'[t].by = k
        BY <1>10, <2>3 DEF TokenInv, TokensHaveOnePlace
      <4>2. \A q \in accepts' : q.at = "taken" => \A k \in Machines : q.token \notin tokens'[k]
        BY <2>1, <2>3, <3>2, <3>4 DEF TokenInv, TokensHaveOnePlace
      <4>3. \A q, s \in accepts' : q.at = "taken" /\ s.at = "taken" /\ q.token = s.token => q = s
        BY <2>1, <3>1, <3>4 DEF TokenInv, TokensHaveOnePlace
      <4>4. \A p \in given' : /\ offers'[p.token] # NoOffer
                              /\ \A k \in Machines : p.token \notin tokens'[k]
                              /\ \A q \in accepts' : q.at = "taken" => q.token # p.token
        BY <1>10, <2>1, <2>3, <3>3, <3>4 DEF TokenInv, TokensHaveOnePlace
      <4>5. TokenPairsOnce'
        BY <1>10 DEF TokenInv, TokenPairsOnce
      <4>6. QED
        BY <4>1, <4>2, <4>3, <4>4, <4>5 DEF TokenInv, TokensHaveOnePlace
  <2>6. QED
    BY <2>4, <2>5
<1>11. ASSUME NEW r \in accepts, TakeToken(r) PROVE TokenInv'
  <2>1. PICK m \in Receivers(r) :
          /\ r.at = "sent"
          /\ accepts' = Advance(r, IF r.token \in tokens[m] THEN "taken" ELSE "no")
          /\ tokens' = [tokens EXCEPT ![m] = @ \ {r.token}]
    BY <1>11 DEF TakeToken
  <2>2. m \in Machines
    BY RequestsRefer DEF Receivers
  <2>3. offers' = offers /\ given' = given
    BY <1>11 DEF TakeToken
  <2>4. QED
    BY <1>10, <2>1, <2>2, <2>3
<1>12. ASSUME NEW r \in accepts, NEW saved \in BOOLEAN, StorePeer(r, saved) PROVE TokenInv'
  <2> DEFINE at == IF saved THEN "ok" ELSE "no"
             done == [r EXCEPT !.at = at]
             note == [by |-> r.by, token |-> r.token, via |-> r.via, saved |-> saved]
  <2>1. r.at = "taken" /\ tokens' = tokens /\ offers' = offers /\ given' = given \union {note}
    BY <1>12 DEF StorePeer, secrets, Note
  <2>2. note.token = r.token
    OBVIOUS
  <2>3. done.at # "taken"
    <3>1. done.at = at
      BY ZenonT(60), Accepts
    <3>2. QED
      BY <3>1
  <2>4. accepts' \subseteq (accepts \ {r}) \union {done}
    BY <1>12 DEF StorePeer, Advance
  <2> HIDE DEF at, done, note
  <2>5. \A q \in accepts' : q.at = "taken" => q \in accepts /\ q.token # r.token
    BY <2>1, <2>3, <2>4 DEF TokenInv, TokensHaveOnePlace
  <2>6. \A p \in given : p.token # r.token
    BY <2>1 DEF TokenInv, TokensHaveOnePlace
  <2>7. \A m \in Machines : r.token \notin tokens[m]
    BY <2>1 DEF TokenInv, TokensHaveOnePlace
  <2>8. offers[r.token] # NoOffer
    BY DEF Shape, OffersStand
  <2>9. QED
    BY <2>1, <2>2, <2>5, <2>6, <2>7, <2>8 DEF TokenInv, TokensHaveOnePlace, TokenPairsOnce
<1>13. ASSUME NEW m \in Machines, Restart(m) PROVE TokenInv'
  <2>1. \A k \in Machines : tokens'[k] \subseteq tokens[k]
    BY <1>13 DEF Restart, Shape, SecretsTyped
  <2>2. \A r \in accepts' : r.at = "taken" =>
          \E q \in accepts : q.at = "taken" /\ q.token = r.token /\ r = After(m, q)
    BY <1>13, RestartKeeps
  <2>3. \A r, s \in accepts' : r.at = "taken" /\ s.at = "taken" /\ r.token = s.token => r = s
    BY <2>2 DEF TokenInv, TokensHaveOnePlace
  <2>4. offers' = offers /\ given' = given
    BY <1>13 DEF Restart
  <2>5. QED
    BY <2>1, <2>2, <2>3, <2>4, FewerTokens
<1>14. CASE UNCHANGED <<tokens, offers, accepts, given>>
  BY <1>14, OtherRequests
<1>15. QED
  BY <1>2, <1>3, <1>5, <1>6, <1>7, <1>8, <1>9, <1>11, <1>12, <1>13, <1>14, PeersOnly
     DEF Next, AttemptStep, vars, talks, secrets, PostFails, CreateCode, CodeExpires, WindowEnds,
         RelayRestarts, UseCode

\* A token pairs its offerer with one acceptor and once, over whichever way, however often
\* and by whomever it is presented.
THEOREM TokensPairOnce == Spec => []TokenPairsOnce
<1>1. TokenInv => TokenPairsOnce
  BY DEF TokenInv
<1>2. QED
  BY <1>1, ShapeInit, ShapeStep, TokenInit, TokenStep, PTL DEF Spec

-----------------------------------------------------------------------------
(* Who trusts by a token is trusted                                          *)

Mutual == ConfirmationsAreTrue /\ PairedBothWays

\* At first nobody has been told anything.
LEMMA MutualInit == Init => Mutual
BY DEF Init, Mutual, ConfirmationsAreTrue, PairedBothWays, Idle

\* Where there is no new good news, nothing can become untrue.
LEMMA NoNews ==
  ASSUME Mutual, given \subseteq given', kept' = kept,
         \A r \in accepts' : r.at = "ok" =>
           \E q \in accepts : q.at = "ok" /\ q.by = r.by /\ q.token = r.token,
         \A x \in Attempts : attempt'[x].pc = "save" => attempt'[x] = attempt[x]
  PROVE  Mutual'
<1>1. \A x, t : Stored(x, t) => Stored(x, t)'
  BY DEF Stored
<1>2. \A r \in accepts' : r.at = "ok" => Stored(r.by, r.token)'
  BY <1>1 DEF Mutual, ConfirmationsAreTrue
<1>3. \A x \in Attempts : attempt'[x].pc = "save" => Stored(x, attempt[x].token)'
  BY <1>1 DEF Mutual, ConfirmationsAreTrue
<1>4. PairedBothWays'
  BY DEF Mutual, PairedBothWays
<1>5. QED
  BY <1>2, <1>3, <1>4 DEF Mutual, ConfirmationsAreTrue, Stored

\* An acceptor is told that it was stored only when it was, and believes nothing else.
LEMMA MutualStep == Shape /\ Mutual /\ [Next]_vars => Mutual'
<1> SUFFICES ASSUME Shape, Mutual, [Next]_vars
             PROVE  Mutual'
  OBVIOUS
<1>0. attempt \in [Attempts -> Attempt]
  BY DEF Shape, TalksTyped
<1>1. ASSUME NEW x \in Attempts, NEW a, attempt' = [attempt EXCEPT ![x] = a], a.pc # "save"
      PROVE  \A y \in Attempts : attempt'[y].pc = "save" => attempt'[y] = attempt[y]
  BY <1>0, <1>1
<1>2. ASSUME NEW x \in Attempts, Update(x, Idle)
      PROVE  \A y \in Attempts : attempt'[y].pc = "save" => attempt'[y] = attempt[y]
  BY <1>0, <1>2 DEF Update, Idle
<1>3. ASSUME NEW x \in Attempts, NEW t, NEW via, NEW others, Present(x, t, via, others)
      PROVE  \A r \in accepts' : r.at = "ok" => r \in others
  BY <1>3 DEF Present
<1>4. ASSUME NEW x \in Attempts, NEW t \in Tokens, Connect(x, t)
      PROVE  Mutual'
  <2>1. [Idle EXCEPT !.pc = "direct", !.token = t].pc # "save"
    BY DEF Idle
  <2>2. \A r \in accepts' : r.at = "ok" => r \in accepts
    BY <1>3, <1>4 DEF Connect
  <2>3. QED
    BY <1>1, <1>4, <2>1, <2>2, NoNews DEF Connect, Update
<1>5. ASSUME NEW x \in Attempts, NEW c \in Codes, UseCode(x, c) PROVE Mutual'
  <2>1. [Idle EXCEPT !.pc = "code", !.code = c].pc # "save"
    BY DEF Idle
  <2>2. QED
    BY <1>1, <1>5, <2>1, NoNews DEF UseCode, Update
<1>6. ASSUME NEW x \in Attempts, NEW good \in BOOLEAN, Lookup(x, good) PROVE Mutual'
  <2> DEFINE t == codes[attempt[x].code]
             a == [Idle EXCEPT !.pc = "direct", !.token = t]
  <2>1. (Update(x, a) /\ Present(x, t, "direct", accepts)) \/ (Update(x, Idle) /\ UNCHANGED accepts)
    BY <1>6 DEF Lookup
  <2>2. a.pc # "save"
    BY DEF Idle
  <2> HIDE DEF a, t
  <2>3. \A y \in Attempts : attempt'[y].pc = "save" => attempt'[y] = attempt[y]
    BY <1>1, <1>2, <2>1, <2>2 DEF Update
  <2>4. \A r \in accepts' : r.at = "ok" => r \in accepts
    BY <1>3, <2>1
  <2>5. given' = given /\ kept' = kept
    BY <1>6 DEF Lookup
  <2>6. QED
    BY <2>3, <2>4, <2>5, NoNews
<1>7. ASSUME NEW x \in Attempts, Rejected(x) PROVE Mutual'
  BY <1>2, <1>7, NoNews DEF Rejected
<1>8. ASSUME NEW x \in Attempts, Confirmed(x) PROVE Mutual'
  <2>1. PICK r \in accepts : /\ r.by = x /\ r.live /\ r.at = "ok" /\ accepts' = accepts \ {r}
                             /\ attempt' = [attempt EXCEPT ![x] = [attempt[x] EXCEPT !.pc = "save"]]
    BY <1>8 DEF Confirmed, Update
  <2>2. given' = given /\ kept' = kept
    BY <1>8 DEF Confirmed
  <2>3. Stored(x, attempt[x].token)
    BY <2>1 DEF Mutual, ConfirmationsAreTrue, Shape, OneRequestEach
  <2>4. attempt'[x].token = attempt[x].token /\ \A y \in Attempts \ {x} : attempt'[y] = attempt[y]
    BY <1>0, <2>1 DEF Attempt
  <2>5. \A y \in Attempts : attempt'[y].pc = "save" => Stored(y, attempt'[y].token)
    BY <2>3, <2>4 DEF Mutual, ConfirmationsAreTrue
  <2>6. \A q \in accepts' : q.at = "ok" => Stored(q.by, q.token)
    BY <2>1 DEF Mutual, ConfirmationsAreTrue
  <2>7. QED
    BY <2>2, <2>5, <2>6 DEF Mutual, ConfirmationsAreTrue, PairedBothWays, Stored
<1>9. ASSUME NEW x \in Attempts, NEW lost \in BOOLEAN, NoAnswer(x, lost) PROVE Mutual'
  <2>1. PICK q \in accepts :
          LET others == (accepts \ {q}) \union
                          (IF lost \/ q.at \in {"ok", "no", "gone"} THEN {}
                           ELSE {[q EXCEPT !.live = FALSE]}) IN
          \/ /\ Present(x, q.token, "relay", others)
             /\ Update(x, [attempt[x] EXCEPT !.pc = "relay"])
          \/ accepts' = others /\ Update(x, Idle)
    BY <1>9 DEF NoAnswer
  <2> DEFINE others == (accepts \ {q}) \union
                          (IF lost \/ q.at \in {"ok", "no", "gone"} THEN {}
                           ELSE {[q EXCEPT !.live = FALSE]})
  <2>2. [q EXCEPT !.live = FALSE].at = q.at
    BY Accepts
  <2>3. \A r \in others : r.at = "ok" => r \in accepts
    BY <2>2
  <2>4. [attempt[x] EXCEPT !.pc = "relay"].pc # "save"
    BY <1>0 DEF Attempt
  <2>5. (Present(x, q.token, "relay", others) /\ Update(x, [attempt[x] EXCEPT !.pc = "relay"]))
          \/ (accepts' = others /\ Update(x, Idle))
    BY <2>1
  <2> HIDE DEF others
  <2>6. \A r \in accepts' : r.at = "ok" => r \in accepts
    BY <1>3, <2>3, <2>5
  <2>7. \A y \in Attempts : attempt'[y].pc = "save" => attempt'[y] = attempt[y]
    BY <1>1, <1>2, <2>4, <2>5 DEF Update
  <2>8. given' = given /\ kept' = kept
    BY <1>9 DEF NoAnswer
  <2>9. QED
    BY <2>6, <2>7, <2>8, NoNews
<1>10. ASSUME NEW x \in Attempts, NEW saved \in BOOLEAN, Keep(x, saved) PROVE Mutual'
  <2>1. Stored(x, attempt[x].token)
    BY <1>10 DEF Keep, At, Mutual, ConfirmationsAreTrue
  <2>2. /\ given' = given /\ accepts' = accepts /\ kept' = kept \union {<<x, attempt[x].token>>}
        /\ Update(x, Idle)
    BY <1>10 DEF Keep
  <2>3. \A y \in Attempts : attempt'[y].pc = "save" => attempt'[y] = attempt[y]
    BY <1>2, <2>2
  <2>4. \A k \in kept' : \E p \in given : p.by = k[1] /\ p.token = k[2] /\ p.saved
    BY <2>1, <2>2 DEF Stored, Mutual, PairedBothWays
  <2>5. QED
    BY <2>2, <2>3, <2>4 DEF Mutual, ConfirmationsAreTrue, PairedBothWays, Stored
<1>11. ASSUME NEW r \in accepts, TakeToken(r) PROVE Mutual'
  <2>1. PICK at \in {"taken", "no"} : accepts' = Advance(r, at)
    BY <1>11 DEF TakeToken
  <2>2. [r EXCEPT !.at = at].at = at
    BY ZenonT(60), Accepts
  <2>3. \A q \in accepts' : q.at = "ok" => q \in accepts
    BY <2>1, <2>2 DEF Advance
  <2>4. QED
    BY <1>11, <2>3, NoNews DEF TakeToken
<1>12. ASSUME NEW r \in accepts, NEW saved \in BOOLEAN, StorePeer(r, saved) PROVE Mutual'
  <2> DEFINE at == IF saved THEN "ok" ELSE "no"
             done == [r EXCEPT !.at = at]
             note == [by |-> r.by, token |-> r.token, via |-> r.via, saved |-> saved]
  <2>1. attempt' = attempt /\ kept' = kept /\ given' = given \union {note}
    BY <1>12 DEF StorePeer, Note
  <2>2. done.by = r.by /\ done.token = r.token /\ done.at = at
    BY ZenonT(60), Accepts
  <2>3. note.by = r.by /\ note.token = r.token /\ note.saved = saved
    OBVIOUS
  <2>4. accepts' \subseteq (accepts \ {r}) \union {done}
    BY <1>12 DEF StorePeer, Advance
  <2>5. at = "ok" => saved
    OBVIOUS
  <2> HIDE DEF at, done, note
  <2>6. \A x, t : Stored(x, t) => Stored(x, t)'
    BY <2>1 DEF Stored
  <2>7. \A q \in accepts' : q.at = "ok" => Stored(q.by, q.token)'
    <3>1. done.at = "ok" => Stored(done.by, done.token)'
      BY <2>1, <2>2, <2>3, <2>5 DEF Stored
    <3>2. QED
      BY <2>4, <2>6, <3>1 DEF Mutual, ConfirmationsAreTrue
  <2>8. \A x \in Attempts : attempt[x].pc = "save" => Stored(x, attempt[x].token)'
    BY <2>1, <2>6 DEF Mutual, ConfirmationsAreTrue
  <2>9. PairedBothWays'
    BY <2>1 DEF Mutual, PairedBothWays
  <2>10. QED
    BY <2>1, <2>7, <2>8, <2>9 DEF Mutual, ConfirmationsAreTrue, Stored
<1>13. ASSUME NEW m \in Machines, Restart(m) PROVE Mutual'
  <2>1. \A r \in accepts' : r.at = "ok" =>
          \E q \in accepts : q.at = "ok" /\ q.by = r.by /\ q.token = r.token
    BY <1>13, RestartKeeps
  <2>2. \A x \in Attempts : attempt'[x] \in {attempt[x], Idle}
    BY <1>13 DEF Restart
  <2>3. \A x \in Attempts : attempt'[x].pc = "save" => attempt'[x] = attempt[x]
    BY <2>2 DEF Idle
  <2>4. QED
    BY <1>13, <2>1, <2>3, NoNews DEF Restart
<1>14. CASE UNCHANGED talks
  BY <1>14, NoNews DEF talks
<1>15. QED
  BY <1>4, <1>5, <1>6, <1>7, <1>8, <1>9, <1>10, <1>11, <1>12, <1>13, <1>14, PeersOnly
     DEF Next, AttemptStep, vars, MakeOffer, ShortOffer, TokenExpires, PostFails, CreateCode,
         CodeExpires, WindowEnds, RelayRestarts

\* An acceptor stores an offerer only if the offerer has stored it, and saved that, before:
\* no lost answer or restart makes an acceptor trust alone.
THEOREM AcceptorsAreTrusted == Spec => []PairedBothWays
<1>1. Mutual => PairedBothWays
  BY DEF Mutual
<1>2. QED
  BY <1>1, ShapeInit, ShapeStep, MutualInit, MutualStep, PTL DEF Spec

-----------------------------------------------------------------------------
(* An unpaired peer stays unpaired                                           *)

\* A peer is taken off the list of the unpaired in the step that adds it.
LEMMA AddedIsNotUnpaired ==
  ASSUME PeersTyped, UnpairSticks, NEW m \in Machines, NEW n \in Names, NEW p \in Peer, NEW saved,
         AddPeer(m, n, p, saved)
  PROVE  UnpairSticks'
<1> DEFINE book == [registry[m] EXCEPT ![n] = p]
<1>1. book \in Book /\ \A l \in Names \ {n} : book[l] = registry[m][l]
  BY DEF PeersTyped, Book
<1>2. registry' = [registry EXCEPT ![m] = book] /\ Write(m, book, saved)
      /\ routes' = IF saved THEN [routes EXCEPT ![m] = book] ELSE routes
  BY DEF AddPeer, Save
<1> HIDE DEF book
<1>3. unpaired' \ revived' = (unpaired \ revived) \ {<<m, n>>}
  BY DEF AddPeer, Readmit
<1>4. QED
  BY <1>1, <1>2, <1>3, Written DEF UnpairSticks, PeersTyped

\* No step brings back a peer that was unpaired, in any of the three places.
LEMMA UnpairedStep == Shape /\ UnpairSticks /\ [Next]_vars => UnpairSticks'
<1> SUFFICES ASSUME Shape, UnpairSticks, [Next]_vars
             PROVE  UnpairSticks'
  OBVIOUS
<1>0. PeersTyped
  BY DEF Shape
<1>1. ASSUME NEW m \in Machines, NEW o \in Machines, NEW saved \in BOOLEAN, Register(m, o, saved)
      PROVE  UnpairSticks'
  <2>1. PICK at \in Seen : AddPeer(m, NameOf[o], [key |-> NoOne, at |-> at], saved)
    BY <1>1 DEF Register
  <2>2. [key |-> NoOne, at |-> at] \in Peer /\ NameOf[o] \in Names
    BY NamesAreGiven, BindsArePlaces DEF Peer
  <2>3. QED
    BY <1>0, <2>1, <2>2, AddedIsNotUnpaired
<1>2. ASSUME NEW m \in Machines, NEW n \in Names, NEW saved \in BOOLEAN, Unpair(m, n, saved)
      PROVE  UnpairSticks'
  <2> DEFINE book == [registry[m] EXCEPT ![n] = NoPeer]
  <2>1. book \in Book /\ book[n] = NoPeer /\ \A l \in Names \ {n} : book[l] = registry[m][l]
    BY <1>0 DEF PeersTyped, Book
  <2>2. registry' = [registry EXCEPT ![m] = book] /\ Write(m, book, saved)
        /\ routes' = IF saved THEN [routes EXCEPT ![m] = book] ELSE routes
    BY <1>2 DEF Unpair, Save
  <2> HIDE DEF book
  <2>3. unpaired' \ revived' \subseteq (unpaired \ revived) \union (IF saved THEN {<<m, n>>} ELSE {})
    BY <1>2 DEF Unpair, Forgotten
  <2>4. \A l \in Names : registry[m][l] = NoPeer => book[l] = NoPeer
    BY <2>1
  <2>5. QED
    BY <1>0, <2>1, <2>2, <2>3, <2>4, Written DEF UnpairSticks, PeersTyped
<1>3. ASSUME NEW m \in Machines, NEW n \in Names, NEW saved \in BOOLEAN, AutoRestore(m, n, saved)
      PROVE  UnpairSticks'
  <2>1. PICK at \in Seen : registry' = [registry EXCEPT ![m][n].at = at]
    BY <1>3 DEF AutoRestore
  <2>2. registry[m][n] # NoPeer /\ unpaired' = unpaired /\ revived' = revived
    BY <1>3 DEF AutoRestore
  <2>3. \A k \in Machines, l \in Names : registry[k][l] = NoPeer => registry'[k][l] = NoPeer
    BY <1>0, <2>1, <2>2 DEF PeersTyped, Book
  <2>4. PeersTyped'
    BY PeersStep
  <2>5. Write(m, registry'[m], saved) /\ registry'[m] \in Book
    BY <1>3, <2>4 DEF AutoRestore, PeersTyped
  <2>6. \A k \in Machines, l \in Names :
          registry'[k][l] = NoPeer /\ file[k][l] = NoPeer => file'[k][l] = NoPeer
    BY <1>0, <2>5, Written
  <2>7. \A k \in Machines : routes'[k] \in {routes[k], registry'[k]}
    BY <1>0, <1>3 DEF AutoRestore, PeersTyped
  <2>8. QED
    BY <1>0, <2>2, <2>3, <2>6, <2>7 DEF UnpairSticks, PeersTyped
<1>4. ASSUME NEW k \in Clis, CliLoad(k) \/ CliEnds(k) PROVE UnpairSticks'
  BY <1>4 DEF CliLoad, CliEnds, UnpairSticks
<1>5. ASSUME NEW k \in Clis, NEW n \in Names, NEW saved \in BOOLEAN,
             CliAdd(k, n, saved) \/ CliRemove(k, n, saved)
      PROVE  UnpairSticks'
  <2> DEFINE m == CliHome[k]
  <2>1. PICK book \in Book :
          /\ CliSave(k, book, saved)
          /\ \A l \in Names : book[l] # NoPeer => \/ cli[k].book[l] # NoPeer
                                                  \/ l = n /\ CliAdd(k, n, saved)
          /\ CliAdd(k, n, saved) \/ book[n] = NoPeer
    BY <1>0, <1>5, CliBooks
  <2>2. m \in Machines /\ Write(m, book, saved) /\ UNCHANGED <<registry, routes>>
    BY <2>1, ClisHaveHomes DEF CliSave
  <2>3. ASSUME NEW l \in Names, <<m, l>> \in unpaired' \ revived'
        PROVE  <<m, l>> \in unpaired \ revived /\ book[l] = NoPeer
    <3>1. CASE CliAdd(k, n, saved)
      BY <2>1, <2>3, <3>1 DEF CliAdd, BroughtBack
    <3>2. CASE CliRemove(k, n, saved) /\ ~CliAdd(k, n, saved)
      BY <2>1, <2>3, <3>2 DEF CliRemove, BroughtBack
    <3>3. QED
      BY <1>5, <3>1, <3>2
  <2>4. unpaired' \ revived' \subseteq unpaired \ revived
    BY <1>5 DEF CliAdd, CliRemove
  <2> HIDE DEF m
  <2>5. /\ \A j \in Machines \ {m} : file'[j] = file[j]
        /\ \A l \in Names : book[l] = NoPeer /\ file[m][l] = NoPeer => file'[m][l] = NoPeer
    BY <1>0, <2>2, Written
  <2>6. QED
    BY <1>0, <2>2, <2>3, <2>4, <2>5 DEF UnpairSticks, PeersTyped
<1>6. ASSUME NEW x \in Attempts, NEW saved \in BOOLEAN, Keep(x, saved) PROVE UnpairSticks'
  <2>1. offers[attempt[x].token].by \in Machines
    BY <1>6, AttemptsRefer DEF Keep, At
  <2>2. [key |-> offers[attempt[x].token].by, at |-> BindOf[offers[attempt[x].token].by]] \in Peer
    BY <2>1, BindsArePlaces DEF Peer
  <2>3. QED
    BY <1>0, <1>6, <2>1, <2>2, AddedIsNotUnpaired, AttemptsHaveHomes, NamesAreGiven DEF Keep
<1>7. ASSUME NEW r \in accepts, NEW saved \in BOOLEAN, StorePeer(r, saved) PROVE UnpairSticks'
  <2>1. HomeOf[r.by] \in Machines /\ offers[r.token].by \in Machines
    BY RequestsRefer
  <2>2. Given(r) \in Peer
    BY <2>1, BindsArePlaces DEF Given, Peer, Places
  <2>3. QED
    BY <1>0, <1>7, <2>1, <2>2, AddedIsNotUnpaired, NamesAreGiven DEF StorePeer
<1>8. ASSUME NEW m \in Machines, Restart(m) PROVE UnpairSticks'
  BY <1>0, <1>8 DEF Restart, UnpairSticks, PeersTyped
<1>9. CASE UNCHANGED peers
  BY <1>9 DEF UnpairSticks, peers
<1>10. QED
  BY <1>1, <1>2, <1>3, <1>4, <1>5, <1>6, <1>7, <1>8, <1>9
     DEF Next, AttemptStep, vars, MakeOffer, ShortOffer, TokenExpires, PostFails, CreateCode,
         CodeExpires, WindowEnds, RelayRestarts, Connect, UseCode, Rejected, Confirmed, Lookup,
         NoAnswer, TakeToken

\* An unpaired peer stays out of registry, file and router, through restarts, failed writes
\* that cut the file off, corrections of addresses and pairings with others, until it is added
\* again, or a command line that had loaded the file before the unpair writes its copy back.
THEOREM UnpairedStaysOut == Spec => []UnpairSticks
<1>1. Init => UnpairSticks
  BY DEF Init, UnpairSticks
<1>2. QED
  BY <1>1, ShapeInit, ShapeStep, UnpairedStep, PTL DEF Spec
=============================================================================
