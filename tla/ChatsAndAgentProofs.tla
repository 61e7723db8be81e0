------------------------ MODULE ChatsAndAgentProofs ------------------------
(***************************************************************************)
(* Theorems about Chats and Agent, two components of one daemon.           *)
(*                                                                         *)
(* Chats: for every set of chats, saves and operations by hand, every cap, *)
(* and any number of faults and changes.                                   *)
(*                                                                         *)
(* Agent: for every set of runs, whatever caps they ask for and whatever   *)
(* they may call, all capacities of the ring, lengths of the seed and      *)
(* numbers of lost events.                                                 *)
(***************************************************************************)
EXTENDS Chats, Agent, FiniteSetTheorems, FunctionTheorems, SequenceTheorems, TLAPS


\* What each chat is in memory and in the file: the acknowledged state, or a later one
\* that was refused.
StoreKept ==
  \A c \in ChatIds : /\ chats[c] \in {acked[c]} \union tried[c]
                     /\ disk[c] \in {acked[c]} \union tried[c]

StoreTyped ==
  /\ clock \in Nat /\ short \subseteq 1 .. clock
  /\ chats \in [ChatIds -> 0 .. clock] /\ disk \in [ChatIds -> 0 .. clock]
  /\ acked \in [ChatIds -> 0 .. clock] /\ tried \in [ChatIds -> SUBSET (0 .. clock)]

\* Whoever is saved, and each summarizer, has a chat.
TasksTyped ==
  /\ save \in [Saves -> [pc : {"off", "saved", "cancelled", "done", "gone"},
                         chat : ChatIds \union {NoChat}, at : 0 .. clock]]
  /\ task \in [Saves -> [pc : {"none", "sleep", "ask", "store", "done"}, seen : 0 .. clock]]
  /\ inflight \in [ChatIds -> Saves \union {Nobody}]
  /\ \A r \in Saves : save[r].pc \in {"saved", "cancelled"} \/ task[r].pc # "none"
                        => save[r].chat \in ChatIds

\* Of two memories of one chat one was added by hand.
OneEach(list) ==
  \A i, j \in DOMAIN list :
    list[i].chat = list[j].chat /\ i # j => list[i].by \in Ops \/ list[j].by \in Ops

Lists == {list \in Seq(Memory) : Len(list) <= MemoryCap /\ OneEach(list)}

Places == {"idle", "read", "open", "written", "ended"}
Wholes == {"blank", "torn", "whole"}

\* Whoever holds a list of memories, a writer or a file, holds a good one.
MemoriesTyped ==
  /\ writer \in [Writers -> [at : Places, list : Lists, file : Writers \union {Nobody}]]
  /\ content \in [Writers -> [is : Wholes, list : Lists]]
  /\ file \in Writers \union {Nobody} /\ tmp \in Writers \union {Nobody}

PromptsTyped == recalled \subseteq wiped /\ wiped \subseteq Memory

BoundsTyped == enabled \in BOOLEAN /\ faults \in 0 .. MaxFaults /\ changes \in 0 .. MaxChanges

IInv == StoreTyped /\ TasksTyped /\ MemoriesTyped /\ PromptsTyped /\ BoundsTyped /\ StoreKept

-----------------------------------------------------------------------------
(* What is made of a good list is good                                       *)

\* A list without entries is good.
LEMMA EmptyIsGood == << >> \in Lists
BY CapsArePositive DEF Lists, OneEach

\* The length of what stays, computed as SubSeq does.
LEMMA RestLength ==
  ASSUME NEW n \in Nat, NEW over \in Nat, over < n \/ (over = 0 /\ n = 0)
  PROVE  (IF 1 + over <= n THEN n - (1 + over) + 1 ELSE 0) = n - over
<1>1. CASE over < n
  BY <1>1
<1>2. CASE over = 0 /\ n = 0
  BY <1>2
<1> QED BY <1>1, <1>2

\* Dropping the oldest entries of a list (the drain of add and upsert_for_chat) leaves a good
\* list, whatever its length was.
LEMMA CappedIsGood ==
  ASSUME NEW list \in Seq(Memory), OneEach(list)
  PROVE  Capped(list) \in Lists
<1> DEFINE over == IF Len(list) > MemoryCap THEN Len(list) - MemoryCap ELSE 0
           rest == SubSeq(list, 1 + over, Len(list))
<1>1. Len(list) \in Nat /\ DOMAIN list = 1 .. Len(list) /\ MemoryCap \in Nat /\ MemoryCap > 0
  BY LenProperties, CapsArePositive
<1>2. /\ over \in Nat /\ over <= Len(list) /\ Len(list) - over <= MemoryCap
      /\ over < Len(list) \/ (over = 0 /\ Len(list) = 0)
  <2>1. CASE Len(list) > MemoryCap
    <3>1. over = Len(list) - MemoryCap
      BY <2>1
    <3> HIDE DEF over, rest
    <3>2. over \in Nat
      BY <1>1, <2>1, <3>1
    <3>3. over <= Len(list) /\ Len(list) - over <= MemoryCap
      BY <1>1, <2>1, <3>1
    <3>4. over < Len(list)
      BY <1>1, <2>1, <3>1
    <3> QED BY <3>2, <3>3, <3>4
  <2>2. CASE ~(Len(list) > MemoryCap)
    <3>1. over = 0
      BY <2>2
    <3> HIDE DEF over, rest
    <3> QED BY <1>1, <2>2, <3>1
  <2> QED BY <2>1, <2>2
<1> HIDE DEF over
<1>3. \A i \in 1 + over .. Len(list) : list[i] \in Memory
  BY <1>1, <1>2, ElementOfSeq
<1>4. /\ rest \in Seq(Memory) /\ Len(rest) = Len(list) - over
      /\ \A i \in 1 .. Len(list) - over : rest[i] = list[over + i]
  <2>1. 1 + over \in Int /\ Len(list) \in Int
    BY <1>1, <1>2
  <2>2. /\ rest \in Seq(Memory)
        /\ Len(rest) = IF 1 + over <= Len(list) THEN Len(list) - (1 + over) + 1 ELSE 0
        /\ \A i \in 1 .. Len(list) - (1 + over) + 1 : rest[i] = list[1 + over + i - 1]
    BY <1>3, <2>1, SubSeqProperties
  <2> HIDE DEF rest
  <2>3. Len(rest) = Len(list) - over
    BY <1>1, <1>2, <2>2, RestLength
  <2>4. ASSUME NEW i \in 1 .. Len(list) - over
        PROVE  rest[i] = list[over + i]
    <3>1. Len(list) - (1 + over) + 1 = Len(list) - over /\ 1 + over + i - 1 = over + i
      BY <1>1, <1>2
    <3> QED BY <2>2, <3>1
  <2> QED BY <2>2, <2>3, <2>4
<1> HIDE DEF rest
<1>5. OneEach(rest)
  <2>1. DOMAIN rest = 1 .. Len(list) - over
    BY <1>4, LenProperties
  <2>2. SUFFICES ASSUME NEW i \in DOMAIN rest, NEW j \in DOMAIN rest,
                        rest[i].chat = rest[j].chat, i # j
                 PROVE  rest[i].by \in Ops \/ rest[j].by \in Ops
    BY DEF OneEach
  <2>3. rest[i] = list[over + i] /\ rest[j] = list[over + j]
    BY <1>4, <2>1
  <2>4. over + i \in DOMAIN list /\ over + j \in DOMAIN list /\ over + i # over + j
    BY <1>1, <1>2, <2>1, <2>2
  <2> QED BY <2>2, <2>3, <2>4 DEF OneEach
<1>6. Capped(list) = rest
  BY DEF Capped, over, rest
<1> QED BY <1>2, <1>4, <1>5, <1>6 DEF Lists

\* add appends a memory that is made by hand, or of a chat that has none.
LEMMA AddIsGood ==
  ASSUME NEW list \in Lists, NEW memory \in Memory,
         memory.by \in Ops \/ \A i \in DOMAIN list : list[i].chat # memory.chat
  PROVE  Add(list, memory) \in Lists
<1> DEFINE long == Append(list, memory)
<1>1. list \in Seq(Memory) /\ OneEach(list) /\ Len(list) \in Nat /\ DOMAIN list = 1 .. Len(list)
  BY LenProperties DEF Lists
<1>2. long \in Seq(Memory) /\ DOMAIN long = 1 .. Len(list) + 1
  BY <1>1, LenProperties
<1>3. \A i \in DOMAIN long : long[i] = IF i = Len(list) + 1 THEN memory ELSE list[i]
  BY <1>1, <1>2
<1> HIDE DEF long
<1>4. OneEach(long)
  <2>1. SUFFICES ASSUME NEW i \in DOMAIN long, NEW j \in DOMAIN long,
                        long[i].chat = long[j].chat, i # j
                 PROVE  long[i].by \in Ops \/ long[j].by \in Ops
    BY DEF OneEach
  <2>2. CASE i = Len(list) + 1
    <3>1. j \in DOMAIN list /\ long[i] = memory /\ long[j] = list[j]
      BY <1>1, <1>2, <1>3, <2>1, <2>2
    <3> QED BY <2>1, <3>1
  <2>3. CASE j = Len(list) + 1
    <3>1. i \in DOMAIN list /\ long[j] = memory /\ long[i] = list[i]
      BY <1>1, <1>2, <1>3, <2>1, <2>3
    <3> QED BY <2>1, <3>1
  <2>4. CASE i # Len(list) + 1 /\ j # Len(list) + 1
    <3>1. i \in DOMAIN list /\ j \in DOMAIN list /\ long[i] = list[i] /\ long[j] = list[j]
      BY <1>1, <1>2, <1>3, <2>4
    <3> QED BY <1>1, <2>1, <3>1 DEF OneEach
  <2> QED BY <2>2, <2>3, <2>4
<1>5. Capped(long) \in Lists
  BY <1>2, <1>4, CappedIsGood
<1> QED BY <1>5 DEF Add, long

\* What holds at 0, and at each number of 1 .. k if at the one before it, holds up to k.
\* (The library's induction theorems are about operators, which the provers cannot
\* instantiate; this one is about a set, and rests on a least 1 .. i that is missed.)
LEMMA UpTo ==
  ASSUME NEW k \in Nat, NEW S, 0 \in S, \A i \in 1 .. k : i - 1 \in S => i \in S
  PROVE  0 .. k \subseteq S
<1> DEFINE Missed == {i \in 0 .. k : i \notin S}
           T == {1 .. i : i \in Missed}
           R == StrictSubsetOrdering(1 .. k)
<1>1. SUFFICES ASSUME Missed # {} PROVE FALSE
  OBVIOUS
<1>2. T \subseteq FiniteSubsetsOf(1 .. k)
  <2>1. SUFFICES ASSUME NEW i \in 0 .. k PROVE 1 .. i \in FiniteSubsetsOf(1 .. k)
    OBVIOUS
  <2>2. IsFiniteSet(1 .. i)
    BY FS_Interval
  <2>3. QED BY <2>2 DEF FiniteSubsetsOf
<1>3. PICK x \in T : \A y \in T : ~ (<<y, x>> \in R)
  <2>1. IsWellFoundedOn(R, FiniteSubsetsOf(1 .. k))
    BY FS_StrictSubsetOrderingWellFounded
  <2>2. T # {}
    BY <1>1
  <2> HIDE DEF T, R
  <2>3. QED BY <2>1, <2>2, <1>2, WFMin
<1>4. PICK m \in Missed : x = 1 .. m
  OBVIOUS
<1>5. m \in 1 .. k /\ m - 1 \in Missed
  OBVIOUS
<1>6. 1 .. (m - 1) \in T
  BY <1>5
<1>7. <<1 .. (m - 1), 1 .. m>> \in R
  <2>1. 1 .. (m - 1) \subseteq 1 .. m /\ 1 .. m \subseteq 1 .. k /\ 1 .. (m - 1) \subseteq 1 .. k
    BY <1>5
  <2>2. m \in 1 .. m /\ m \notin 1 .. (m - 1)
    BY <1>5
  <2>3. QED BY <2>1, <2>2 DEF StrictSubsetOrdering
<1>8. QED BY <1>3, <1>4, <1>6, <1>7

\* Of the places of a list there is a first one.
LEMMA FirstPlace ==
  ASSUME NEW n \in Nat, NEW places \in SUBSET (1 .. n), places # {}
  PROVE  \E i \in places : \A k \in places : i <= k
<1> DEFINE Before == {i \in 0 .. n : \A k \in places : i < k}
<1>1. SUFFICES ASSUME \A i \in places : \E k \in places : ~(i <= k) PROVE FALSE
  OBVIOUS
<1>2. 0 \in Before
  OBVIOUS
<1>3. ASSUME NEW i \in 1 .. n, i - 1 \in Before PROVE i \in Before
  <2>1. \A k \in places : i <= k
    BY <1>3
  <2>2. i \notin places
    BY <1>1, <2>1
  <2>3. \A k \in places : i < k
    BY <2>1, <2>2
  <2> QED BY <2>3
<1> HIDE DEF Before
<1>4. 0 .. n \subseteq Before
  BY <1>2, <1>3, UpTo
<1>5. PICK i \in places : TRUE
  OBVIOUS
<1>6. i \in Before
  BY <1>4
<1> QED BY <1>6 DEF Before

\* upsert_for_chat puts a chat's memory where its earlier one was, or appends it.
LEMMA UpsertIsGood ==
  ASSUME NEW list \in Lists, NEW memory \in Memory
  PROVE  UpsertForChat(list, memory) \in Lists
<1> DEFINE same == {i \in DOMAIN list : list[i].chat = memory.chat}
           first == CHOOSE j \in same : \A k \in same : j <= k
           new == [memory EXCEPT !.by = list[first].by]
<1>1. CASE same = {}
  <2>1. Add(list, memory) \in Lists
    BY <1>1, AddIsGood
  <2> QED BY <1>1, <2>1 DEF UpsertForChat
<1>2. CASE same # {}
  <2>1. list \in Seq(Memory) /\ OneEach(list) /\ Len(list) \in Nat /\ DOMAIN list = 1 .. Len(list)
    BY LenProperties DEF Lists
  <2>2. first \in same
    <3>1. same \in SUBSET (1 .. Len(list))
      BY <2>1
    <3> HIDE DEF same
    <3>2. \E n \in same : \A k \in same : n <= k
      BY <1>2, <2>1, <3>1, FirstPlace
    <3> QED BY <3>2
  <2> HIDE DEF first
  <2>3. first \in 1 .. Len(list) /\ list[first] \in Memory /\ list[first].chat = memory.chat
    BY <2>1, <2>2, ElementOfSeq
  <2>4. new \in Memory /\ new.chat = list[first].chat /\ new.by = list[first].by
    BY <2>3 DEF Memory
  <2> HIDE DEF new
  <2> DEFINE now == [list EXCEPT ![first] = new]
  <2>5. /\ now \in Seq(Memory) /\ Len(now) = Len(list)
        /\ \A j \in 1 .. Len(list) : now[j] = IF j = first THEN new ELSE list[j]
    BY <2>1, <2>3, <2>4, ExceptSeq
  <2> HIDE DEF now
  <2>6. DOMAIN now = DOMAIN list /\ \A j \in DOMAIN list : now[j].chat = list[j].chat /\ now[j].by = list[j].by
    BY <2>1, <2>4, <2>5, LenProperties
  <2>7. now \in Lists
    BY <2>1, <2>5, <2>6 DEF Lists, OneEach
  <2>8. UpsertForChat(list, memory) = now
    BY <1>2 DEF UpsertForChat, first, new, now
  <2> QED BY <2>7, <2>8
<1> QED BY <1>1, <1>2

\* remove takes one memory out.
LEMMA WithoutIsGood ==
  ASSUME NEW list \in Lists, NEW i \in DOMAIN list
  PROVE  Without(list, i) \in Lists
<1> DEFINE before == SubSeq(list, 1, i - 1)
           after == SubSeq(list, i + 1, Len(list))
           n == Len(list)
<1>1. list \in Seq(Memory) /\ OneEach(list) /\ n \in Nat /\ DOMAIN list = 1 .. n /\ n <= MemoryCap
  BY LenProperties DEF Lists
<1>2. i \in 1 .. n /\ \A k \in 1 .. n : list[k] \in Memory
  BY <1>1, ElementOfSeq
<1>3. /\ before \in Seq(Memory) /\ Len(before) = i - 1
      /\ \A k \in 1 .. i - 1 : before[k] = list[k]
  <2>1. 1 \in Int /\ i - 1 \in Int /\ \A k \in 1 .. i - 1 : list[k] \in Memory
    BY <1>1, <1>2
  <2>2. /\ before \in Seq(Memory)
        /\ Len(before) = IF 1 <= i - 1 THEN i - 1 - 1 + 1 ELSE 0
        /\ \A k \in 1 .. i - 1 - 1 + 1 : before[k] = list[1 + k - 1]
    BY <2>1, SubSeqProperties
  <2> HIDE DEF before
  <2>3. i - 1 - 1 + 1 = i - 1 /\ \A k \in 1 .. i - 1 : 1 + k - 1 = k
    BY <1>2
  <2>4. Len(before) = i - 1
    BY <1>2, <2>2
  <2>5. ASSUME NEW k \in 1 .. i - 1
        PROVE  before[k] = list[k]
    BY <2>2, <2>3
  <2> QED BY <2>2, <2>4, <2>5
<1>4. /\ after \in Seq(Memory) /\ Len(after) = n - i
      /\ \A k \in 1 .. n - i : after[k] = list[i + k]
  <2>1. i + 1 \in Int /\ n \in Int /\ \A k \in i + 1 .. n : list[k] \in Memory
    BY <1>1, <1>2
  <2>2. /\ after \in Seq(Memory)
        /\ Len(after) = IF i + 1 <= n THEN n - (i + 1) + 1 ELSE 0
        /\ \A k \in 1 .. n - (i + 1) + 1 : after[k] = list[i + 1 + k - 1]
    BY SMTT(30), <2>1, SubSeqProperties
  <2> HIDE DEF after
  <2>3. n - (i + 1) + 1 = n - i /\ \A k \in 1 .. n - i : i + 1 + k - 1 = i + k
    BY <1>1, <1>2
  <2>4. Len(after) = n - i
    BY <1>1, <1>2, <2>2
  <2>5. ASSUME NEW k \in 1 .. n - i
        PROVE  after[k] = list[i + k]
    BY <2>2, <2>3
  <2> QED BY <2>2, <2>4, <2>5
<1> HIDE DEF before, after, n
<1> DEFINE rest == before \o after
           From(k) == IF k < i THEN k ELSE k + 1
<1>5. /\ rest \in Seq(Memory) /\ Len(rest) = n - 1
      /\ \A k \in 1 .. n - 1 : rest[k] = list[From(k)]
  <2>1. /\ rest \in Seq(Memory) /\ Len(rest) = (i - 1) + (n - i)
        /\ \A k \in 1 .. (i - 1) + (n - i) :
             rest[k] = IF k <= i - 1 THEN before[k] ELSE after[k - (i - 1)]
    <3>1. /\ rest \in Seq(Memory) /\ Len(rest) = Len(before) + Len(after)
          /\ \A k \in 1 .. Len(before) + Len(after) :
               rest[k] = IF k <= Len(before) THEN before[k] ELSE after[k - Len(before)]
      BY <1>3, <1>4, ConcatProperties
    <3> QED BY <1>3, <1>4, <3>1
  <2> HIDE DEF rest
  <2>2. (i - 1) + (n - i) = n - 1
    BY <1>1, <1>2
  <2>3. ASSUME NEW k \in 1 .. n - 1
        PROVE  rest[k] = list[From(k)]
    <3>1. rest[k] = IF k <= i - 1 THEN before[k] ELSE after[k - (i - 1)]
      BY <2>1, <2>2
    <3>2. CASE k < i
      <4>1. k <= i - 1 /\ k \in 1 .. i - 1 /\ From(k) = k
        BY <1>1, <1>2, <3>2
      <4> QED BY <1>3, <3>1, <4>1
    <3>3. CASE ~(k < i)
      <4>1. ~(k <= i - 1) /\ k - (i - 1) \in 1 .. n - i /\ i + (k - (i - 1)) = k + 1 /\ From(k) = k + 1
        BY <1>1, <1>2, <3>3
      <4> QED BY <1>4, <3>1, <4>1
    <3> QED BY <3>2, <3>3
  <2> QED BY <2>1, <2>2, <2>3
<1>6. \A k \in 1 .. n - 1 : From(k) \in 1 .. n
  BY <1>1, <1>2
<1>7. \A k, l \in 1 .. n - 1 : k # l => From(k) # From(l)
  BY <1>1, <1>2
<1> HIDE DEF rest, From
<1>8. DOMAIN rest = 1 .. n - 1
  BY <1>5, LenProperties
<1>9. OneEach(rest)
  BY <1>1, <1>5, <1>6, <1>7, <1>8 DEF OneEach
<1>10. Len(rest) <= MemoryCap
  BY <1>1, <1>5, CapsArePositive
<1>11. Without(list, i) = rest
  BY DEF Without, RemoveAt, rest, before, after
<1> QED BY <1>5, <1>9, <1>10, <1>11 DEF Lists

-----------------------------------------------------------------------------
(* The store                                                                 *)

\* What ChatStore's operations make of the chats and the file: a write that fails leaves the
\* file at what was acknowledged, or refused, before.
LEMMA WriteKeeps ==
  ASSUME StoreTyped, StoreKept, clock' \in Nat, clock <= clock', short' \subseteq 1 .. clock',
         NEW new \in [ChatIds -> 0 .. clock'],
         Write(new) \/ WriteFails(new)
  PROVE  StoreTyped' /\ StoreKept'
<1>1. 0 .. clock \subseteq 0 .. clock'
  BY DEF StoreTyped
<1>2. CASE Write(new)
  <2>1. chats' \in [ChatIds -> 0 .. clock'] /\ disk' \in [ChatIds -> 0 .. clock']
    BY <1>2 DEF Write
  <2>2. acked' \in [ChatIds -> 0 .. clock'] /\ tried' \in [ChatIds -> SUBSET (0 .. clock')]
    BY <1>1, <1>2 DEF Write, StoreTyped
  <2>3. ASSUME NEW c \in ChatIds
        PROVE  new[c] \in {acked'[c]} \union tried'[c]
    <3>1. CASE new[c] # chats[c]
      BY <1>2, <3>1 DEF Write
    <3>2. CASE new[c] = chats[c]
      BY <1>2, <3>2 DEF Write, StoreKept
    <3> QED BY <3>1, <3>2
  <2> QED BY <1>2, <2>1, <2>2, <2>3 DEF Write, StoreTyped, StoreKept
<1>3. CASE WriteFails(new)
  <2>1. disk' = disk /\ acked' = acked /\ chats' = new
        /\ tried' = [c \in ChatIds |-> IF new[c] # chats[c] THEN tried[c] \union {new[c]} ELSE tried[c]]
    BY <1>3 DEF WriteFails
  <2>2. StoreTyped'
    <3>1. disk' \in [ChatIds -> 0 .. clock'] /\ acked' \in [ChatIds -> 0 .. clock']
      BY <1>1, <2>1 DEF StoreTyped
    <3>2. tried' \in [ChatIds -> SUBSET (0 .. clock')]
      BY <1>1, <2>1 DEF StoreTyped
    <3> QED BY <2>1, <3>1, <3>2 DEF StoreTyped
  <2>3. ASSUME NEW c \in ChatIds
        PROVE  chats'[c] \in {acked'[c]} \union tried'[c] /\ disk'[c] \in {acked'[c]} \union tried'[c]
    <3>1. CASE new[c] # chats[c]
      BY <2>1, <3>1 DEF StoreKept
    <3>2. CASE new[c] = chats[c]
      BY <2>1, <3>2 DEF StoreKept
    <3> QED BY <3>1, <3>2
  <2> QED BY <2>2, <2>3 DEF StoreKept
<1> QED BY <1>2, <1>3

\* A restart reads the file.
LEMMA RestartKeeps ==
  ASSUME StoreTyped, StoreKept, chats' = disk, UNCHANGED <<disk, clock, short, acked, tried>>
  PROVE  StoreTyped' /\ StoreKept'
BY DEF StoreTyped, StoreKept

\* A step of something else leaves the store and the clock.
LEMMA StoreFrame ==
  ASSUME StoreTyped, StoreKept, UNCHANGED store
  PROVE  StoreTyped' /\ StoreKept' /\ clock' \in Nat /\ clock <= clock'
BY DEF StoreTyped, StoreKept, store

\* The store through every step, and the clock never goes back.
LEMMA StoreStep ==
  ASSUME StoreTyped, StoreKept, [Next]_vars
  PROVE  StoreTyped' /\ StoreKept' /\ clock' \in Nat /\ clock <= clock'
<1>0. clock \in Nat /\ clock <= clock
  BY DEF StoreTyped
<1>1. ASSUME NEW r \in Saves, NEW c \in ChatIds, NEW few \in BOOLEAN, Upsert(r, c, few)
      PROVE  StoreTyped' /\ StoreKept' /\ clock' \in Nat /\ clock <= clock'
  <2> DEFINE new == [chats EXCEPT ![c] = clock + 1]
  <2>1. clock' = clock + 1 /\ (Write(new) \/ WriteFails(new))
    BY <1>1 DEF Upsert
  <2>2. clock' \in Nat /\ clock <= clock' /\ short' \subseteq 1 .. clock'
    <3>1. short' \subseteq short \union {clock + 1}
      BY <1>1 DEF Upsert
    <3> QED BY <1>0, <2>1, <3>1 DEF StoreTyped
  <2>3. clock + 1 \in 0 .. clock' /\ 0 .. clock \subseteq 0 .. clock'
    BY <1>0, <2>1
  <2>4. new \in [ChatIds -> 0 .. clock']
    BY <2>3 DEF StoreTyped
  <2> HIDE DEF new
  <2> QED BY <2>1, <2>2, <2>4, WriteKeeps
<1>2. ASSUME NEW gone \in SUBSET ChatIds, Delete(gone)
      PROVE  StoreTyped' /\ StoreKept' /\ clock' \in Nat /\ clock <= clock'
  <2> DEFINE new == [c \in ChatIds |-> IF c \in gone THEN 0 ELSE chats[c]]
  <2>1. clock' = clock /\ short' \subseteq 1 .. clock' /\ (Write(new) \/ WriteFails(new))
    BY <1>2 DEF Delete, StoreTyped
  <2>2. 0 \in 0 .. clock'
    BY <1>0, <2>1
  <2>3. new \in [ChatIds -> 0 .. clock']
    BY <2>1, <2>2 DEF StoreTyped
  <2> HIDE DEF new
  <2> QED BY <1>0, <2>1, <2>3, WriteKeeps
<1>3. CASE Restart
  BY <1>0, <1>3, RestartKeeps DEF Restart
<1>4. ASSUME NEW r \in Saves, Schedule(r) \/ Task(r)
      PROVE  UNCHANGED store
  BY <1>4 DEF Schedule, Task, NotScheduled, CancelPrevious, Spawn, Wake, NoSummary, Summary,
              Summarize, TaskEnds, Begin
<1>5. ASSUME NEW o \in Ops, ByHand(o)
      PROVE  UNCHANGED store
  BY <1>5 DEF ByHand, AddByHand, RemoveByHand, Clear, Begin
<1>6. ASSUME NEW w \in Writers, SaveStep(w)
      PROVE  UNCHANGED store
  BY <1>6 DEF SaveStep, Open, Fill, Rename
<1>7. CASE Prompt \/ Switch
  <2>1. UNCHANGED store
    BY <1>7 DEF Prompt, Switch
  <2> QED BY <2>1, StoreFrame
<1>8. CASE UNCHANGED vars
  <2>1. UNCHANGED store
    BY <1>8 DEF vars
  <2> QED BY <2>1, StoreFrame
<1> QED BY <1>1, <1>2, <1>3, <1>4, <1>5, <1>6, <1>7, <1>8, StoreFrame DEF Next

-----------------------------------------------------------------------------
(* The summarizers                                                           *)

SaveRecords == [pc : {"off", "saved", "cancelled", "done", "gone"},
                chat : ChatIds \union {NoChat}, at : 0 .. clock]
TaskRecords == [pc : {"none", "sleep", "ask", "store", "done"}, seen : 0 .. clock]

\* What was typed stays so while the clock goes on.
LEMMA TasksFrame ==
  ASSUME TasksTyped, clock \in Nat, clock' \in Nat, clock <= clock',
         UNCHANGED <<save, task, inflight>>
  PROVE  TasksTyped'
<1>1. 0 .. clock \subseteq 0 .. clock'
  OBVIOUS
<1> QED BY <1>1 DEF TasksTyped

\* A request that goes on keeps its chat; it is scheduled with a chat.
LEMMA SaveGoesOn ==
  ASSUME TasksTyped, NEW r \in Saves, NEW pc \in {"cancelled", "done"},
         save[r].chat \in ChatIds \/ pc = "done",
         save' = [save EXCEPT ![r].pc = pc], UNCHANGED clock
  PROVE  /\ save' \in [Saves -> SaveRecords']
         /\ \A s \in Saves : save'[s].chat = save[s].chat
         /\ \A s \in Saves : save'[s].pc \in {"saved", "cancelled"} => save[s].chat \in ChatIds
<1>1. save \in [Saves -> SaveRecords] /\ SaveRecords' = SaveRecords
  BY DEF TasksTyped, SaveRecords
<1>2. \A s \in Saves : save'[s] = IF s = r THEN [save[s] EXCEPT !.pc = pc] ELSE save[s]
  BY <1>1
<1>3. [save[r] EXCEPT !.pc = pc] \in SaveRecords
  BY <1>1 DEF SaveRecords
<1>4. [save[r] EXCEPT !.pc = pc].chat = save[r].chat /\ [save[r] EXCEPT !.pc = pc].pc = pc
  BY <1>1 DEF SaveRecords
<1>5. save' \in [Saves -> SaveRecords]
  BY <1>1, <1>3
<1>6. \A s \in Saves : save'[s].chat = save[s].chat
  BY <1>2, <1>4
<1>7. \A s \in Saves : save'[s].pc \in {"saved", "cancelled"} => save[s].chat \in ChatIds
  BY <1>2, <1>4 DEF TasksTyped
<1> QED BY <1>1, <1>5, <1>6, <1>7

\* A summarizer that goes on has had a chat from the start.
LEMMA TaskGoesOn ==
  ASSUME TasksTyped, NEW r \in Saves, NEW now \in TaskRecords,
         save[r].chat \in ChatIds,
         task' = [task EXCEPT ![r] = now], UNCHANGED clock
  PROVE  /\ task' \in [Saves -> TaskRecords']
         /\ \A s \in Saves : task'[s].pc # "none" => save[s].chat \in ChatIds
<1>1. task \in [Saves -> TaskRecords] /\ TaskRecords' = TaskRecords
  BY DEF TasksTyped, TaskRecords
<1>2. \A s \in Saves : task'[s] = IF s = r THEN now ELSE task[s]
  BY <1>1
<1> QED BY <1>1, <1>2 DEF TasksTyped

\* A step of a request or a summarizer leaves what the three maps promise together.
LEMMA TasksTogether ==
  ASSUME save' \in [Saves -> SaveRecords'], task' \in [Saves -> TaskRecords'],
         inflight' \in [ChatIds -> Saves \union {Nobody}],
         \A s \in Saves : save'[s].chat = save[s].chat,
         \A s \in Saves : save'[s].pc \in {"saved", "cancelled"} => save[s].chat \in ChatIds,
         \A s \in Saves : task'[s].pc # "none" => save[s].chat \in ChatIds
  PROVE  TasksTyped'
BY DEF TasksTyped, SaveRecords, TaskRecords

\* Saving a chat, whether the write succeeds or not.
LEMMA UpsertTasks ==
  ASSUME StoreTyped, TasksTyped, NEW r \in Saves, NEW c \in ChatIds, NEW few \in BOOLEAN, Upsert(r, c, few)
  PROVE  TasksTyped'
<1>1. /\ clock \in Nat /\ clock' = clock + 1 /\ UNCHANGED <<task, inflight>> /\ save[r].pc = "off"
      /\ \/ save' = [save EXCEPT ![r] = [pc |-> "saved", chat |-> c, at |-> clock + 1]]
         \/ save' = [save EXCEPT ![r].pc = "done"]
  BY DEF Upsert, StoreTyped
<1>2. 0 .. clock \subseteq 0 .. clock' /\ clock + 1 \in 0 .. clock'
  BY <1>1
<1>3. save \in [Saves -> SaveRecords'] /\ task' \in [Saves -> TaskRecords']
  BY <1>1, <1>2 DEF TasksTyped, SaveRecords, TaskRecords
<1>4. CASE save' = [save EXCEPT ![r] = [pc |-> "saved", chat |-> c, at |-> clock + 1]]
  <2> DEFINE now == [pc |-> "saved", chat |-> c, at |-> clock + 1]
  <2>1. now \in SaveRecords' /\ now.chat = c /\ now.pc = "saved"
    BY <1>2 DEF SaveRecords
  <2> HIDE DEF now
  <2>2. save' \in [Saves -> SaveRecords'] /\ \A s \in Saves : save'[s] = IF s = r THEN now ELSE save[s]
    BY <1>3, <1>4, <2>1 DEF now
  <2> QED BY <1>1, <1>3, <2>1, <2>2 DEF TasksTyped, SaveRecords, TaskRecords
<1>5. CASE save' = [save EXCEPT ![r].pc = "done"]
  <2> DEFINE now == [save[r] EXCEPT !.pc = "done"]
  <2>1. now \in SaveRecords' /\ now.chat = save[r].chat /\ now.pc = "done"
    BY <1>3 DEF SaveRecords
  <2> HIDE DEF now
  <2>2. save' \in [Saves -> SaveRecords'] /\ \A s \in Saves : save'[s] = IF s = r THEN now ELSE save[s]
    BY <1>3, <1>5, <2>1 DEF now
  <2> QED BY <1>1, <1>3, <2>1, <2>2 DEF TasksTyped, SaveRecords, TaskRecords
<1> QED BY <1>1, <1>4, <1>5

\* An abort ends a summarizer that waits or asks, and no other.
LEMMA AbortTyped ==
  ASSUME TasksTyped, NEW r \in Saves \union {Nobody}
  PROVE  /\ Aborted(r) \in [Saves -> TaskRecords]
         /\ \A s \in Saves : Aborted(r)[s].pc # "none" => task[s].pc # "none"
<1>1. task \in [Saves -> TaskRecords]
  BY DEF TasksTyped, TaskRecords
<1>2. CASE r # Nobody /\ task[r].pc \in {"sleep", "ask"}
  <2> DEFINE now == [task[r] EXCEPT !.pc = "done"]
  <2>1. r \in Saves
    BY <1>2
  <2>2. now \in TaskRecords
    BY <1>1, <2>1 DEF TaskRecords
  <2>3. Aborted(r) = [task EXCEPT ![r] = now]
    BY <1>2 DEF Aborted
  <2> HIDE DEF now
  <2> QED BY <1>1, <1>2, <2>1, <2>2, <2>3
<1>3. CASE ~(r # Nobody /\ task[r].pc \in {"sleep", "ask"})
  BY <1>1, <1>3 DEF Aborted
<1> QED BY <1>2, <1>3

\* The steps of schedule_chat_summarize.
LEMMA ScheduleTasks ==
  ASSUME StoreTyped, TasksTyped, NEW r \in Saves, Schedule(r)
  PROVE  TasksTyped'
<1>0. UNCHANGED clock
  BY DEF Schedule, NotScheduled, CancelPrevious, Spawn, store
<1>1. /\ save \in [Saves -> SaveRecords] /\ task \in [Saves -> TaskRecords]
      /\ SaveRecords' = SaveRecords /\ TaskRecords' = TaskRecords
      /\ inflight \in [ChatIds -> Saves \union {Nobody}]
      /\ \A s \in Saves : task[s].pc # "none" => save[s].chat \in ChatIds
  BY <1>0 DEF TasksTyped, SaveRecords, TaskRecords
<1>2. CASE NotScheduled(r)
  BY <1>0, <1>1, <1>2, SaveGoesOn, TasksTogether DEF NotScheduled
<1>3. CASE CancelPrevious(r)
  <2>1. save[r].chat \in ChatIds
    BY <1>3 DEF CancelPrevious, TasksTyped
  <2>2. /\ save' = [save EXCEPT ![r].pc = "cancelled"]
        /\ inflight' = [inflight EXCEPT ![save[r].chat] = Nobody]
        /\ task' = task \/ task' = Aborted(inflight[save[r].chat])
    BY <1>3 DEF CancelPrevious
  <2>3. inflight[save[r].chat] \in Saves \union {Nobody}
    BY <1>1, <2>1
  <2>4. /\ task' \in [Saves -> TaskRecords]
        /\ \A s \in Saves : task'[s].pc # "none" => task[s].pc # "none"
    BY <1>1, <2>2, <2>3, AbortTyped
  <2>5. inflight' \in [ChatIds -> Saves \union {Nobody}]
    BY <1>1, <2>2
  <2>6. /\ save' \in [Saves -> SaveRecords']
        /\ \A s \in Saves : save'[s].chat = save[s].chat
        /\ \A s \in Saves : save'[s].pc \in {"saved", "cancelled"} => save[s].chat \in ChatIds
    BY <1>0, <2>1, <2>2, SaveGoesOn
  <2> QED BY <1>1, <2>4, <2>5, <2>6, TasksTogether
<1>4. CASE Spawn(r)
  <2>1. save[r].chat \in ChatIds
    BY <1>4 DEF Spawn, TasksTyped
  <2>2. /\ save' = [save EXCEPT ![r].pc = "done"]
        /\ inflight' = [inflight EXCEPT ![save[r].chat] = r]
        /\ task' = [task EXCEPT ![r].pc = "sleep"]
    BY <1>4 DEF Spawn
  <2> DEFINE now == [task[r] EXCEPT !.pc = "sleep"]
  <2>3. now \in TaskRecords
    BY <1>1 DEF TaskRecords
  <2>4. task' = [task EXCEPT ![r] = now]
    BY <2>2
  <2> HIDE DEF now
  <2>5. /\ task' \in [Saves -> TaskRecords']
        /\ \A s \in Saves : task'[s].pc # "none" => save[s].chat \in ChatIds
    BY <1>0, <2>1, <2>3, <2>4, TaskGoesOn
  <2>6. inflight' \in [ChatIds -> Saves \union {Nobody}]
    BY <1>1, <2>2
  <2>7. /\ save' \in [Saves -> SaveRecords']
        /\ \A s \in Saves : save'[s].chat = save[s].chat
        /\ \A s \in Saves : save'[s].pc \in {"saved", "cancelled"} => save[s].chat \in ChatIds
    BY <1>0, <2>1, <2>2, SaveGoesOn
  <2> QED BY <2>5, <2>6, <2>7, TasksTogether
<1> QED BY <1>2, <1>3, <1>4 DEF Schedule

\* The steps of a summarizer.
LEMMA SummarizerTasks ==
  ASSUME StoreTyped, TasksTyped, NEW r \in Saves, Task(r)
  PROVE  TasksTyped'
<1>0. UNCHANGED <<clock, save>> /\ clock \in Nat /\ clock <= clock
  BY DEF Task, Wake, NoSummary, Summary, Summarize, TaskEnds, Begin, store, StoreTyped
<1>1. /\ save \in [Saves -> SaveRecords] /\ task \in [Saves -> TaskRecords]
      /\ SaveRecords' = SaveRecords /\ TaskRecords' = TaskRecords
      /\ inflight \in [ChatIds -> Saves \union {Nobody}]
  BY <1>0 DEF TasksTyped, SaveRecords, TaskRecords
<1>2. \A s \in Saves : save'[s].pc \in {"saved", "cancelled"} => save[s].chat \in ChatIds
  BY <1>0 DEF TasksTyped
<1>3. CASE Summarize(r)
  <2>1. UNCHANGED <<save, task, inflight>>
    BY <1>3 DEF Summarize, Begin
  <2> QED BY <1>0, <2>1, TasksFrame
<1>4. ASSUME task[r].pc # "none",
             NEW now \in TaskRecords, task' = [task EXCEPT ![r] = now],
             inflight' = inflight \/ inflight' = [inflight EXCEPT ![save[r].chat] = Nobody]
      PROVE  TasksTyped'
  <2>1. save[r].chat \in ChatIds
    BY <1>4 DEF TasksTyped
  <2>2. /\ task' \in [Saves -> TaskRecords']
        /\ \A s \in Saves : task'[s].pc # "none" => save[s].chat \in ChatIds
    BY <1>0, <1>4, <2>1, TaskGoesOn
  <2>3. inflight' \in [ChatIds -> Saves \union {Nobody}]
    BY <1>1, <1>4
  <2> QED BY <1>0, <1>1, <1>2, <2>2, <2>3, TasksTogether
<1>5. \A pc \in {"done", "store"} : [task[r] EXCEPT !.pc = pc] \in TaskRecords
  BY <1>1 DEF TaskRecords
<1>6. CASE Wake(r)
  <2> DEFINE c == save[r].chat
             now == IF ~enabled \/ NotWorthIt(c) THEN [task[r] EXCEPT !.pc = "done"]
                    ELSE [pc |-> "ask", seen |-> chats[c]]
  <2>1. task[r].pc # "none" /\ UNCHANGED inflight /\ task' = [task EXCEPT ![r] = now]
    BY <1>6 DEF Wake
  <2>2. chats[c] \in 0 .. clock
    BY <2>1 DEF TasksTyped, StoreTyped
  <2>3. now \in TaskRecords
    BY <1>5, <2>2 DEF TaskRecords
  <2> HIDE DEF now
  <2> QED BY <1>4, <2>1, <2>3
<1>7. CASE NoSummary(r) \/ TaskEnds(r)
  <2> DEFINE now == [task[r] EXCEPT !.pc = "done"]
  <2>1. /\ task[r].pc # "none" /\ inflight' = [inflight EXCEPT ![save[r].chat] = Nobody]
        /\ task' = [task EXCEPT ![r] = now]
    BY <1>7 DEF NoSummary, TaskEnds, Forget
  <2>2. now \in TaskRecords
    BY <1>5
  <2> HIDE DEF now
  <2> QED BY <1>4, <2>1, <2>2
<1>8. CASE Summary(r)
  <2> DEFINE now == [task[r] EXCEPT !.pc = "store"]
  <2>1. task[r].pc # "none" /\ UNCHANGED inflight /\ task' = [task EXCEPT ![r] = now]
    BY <1>8 DEF Summary
  <2>2. now \in TaskRecords
    BY <1>5
  <2> HIDE DEF now
  <2> QED BY <1>4, <2>1, <2>2
<1> QED BY <1>3, <1>6, <1>7, <1>8 DEF Task

\* A restart ends every request and every summarizer.
LEMMA RestartTasks ==
  ASSUME TasksTyped, Restart
  PROVE  TasksTyped'
<1>1. /\ save \in [Saves -> SaveRecords] /\ task \in [Saves -> TaskRecords]
      /\ SaveRecords' = SaveRecords /\ TaskRecords' = TaskRecords
  BY DEF TasksTyped, SaveRecords, TaskRecords, Restart
<1>2. inflight' \in [ChatIds -> Saves \union {Nobody}]
  BY DEF Restart
<1>3. ASSUME NEW s \in Saves
      PROVE  /\ save'[s] \in SaveRecords /\ save'[s].chat = save[s].chat
             /\ save'[s].pc \notin {"saved", "cancelled"}
  <2>1. save'[s] = IF save[s].pc = "off" THEN save[s] ELSE [save[s] EXCEPT !.pc = "gone"]
    BY DEF Restart
  <2> QED BY <1>1, <2>1 DEF SaveRecords
<1>4. ASSUME NEW s \in Saves
      PROVE  task'[s] \in TaskRecords /\ (task'[s].pc # "none" => task[s].pc # "none")
  <2>1. task'[s] = IF task[s].pc = "none" THEN task[s] ELSE [task[s] EXCEPT !.pc = "done"]
    BY DEF Restart
  <2> QED BY <1>1, <2>1 DEF TaskRecords
<1>5. save' \in [Saves -> SaveRecords]
  BY <1>3 DEF Restart
<1>6. task' \in [Saves -> TaskRecords]
  BY <1>4 DEF Restart
<1>7. \A s \in Saves : task'[s].pc # "none" => save[s].chat \in ChatIds
  BY <1>4 DEF TasksTyped
<1> QED BY <1>1, <1>2, <1>3, <1>5, <1>6, <1>7, TasksTogether

-----------------------------------------------------------------------------
(* The memories                                                              *)

WriterRecords == [at : Places, list : Lists, file : Writers \union {Nobody}]
FileRecords   == [is : Wholes, list : Lists]

\* A step of something else leaves the memories.
LEMMA MemoriesFrame ==
  ASSUME MemoriesTyped, UNCHANGED <<writer, content, file, tmp>>
  PROVE  MemoriesTyped'
BY DEF MemoriesTyped

\* What load gives is good: the file's list, or none.
LEMMA LoadIsGood ==
  ASSUME MemoriesTyped
  PROVE  Load \in Lists
<1>1. CASE file = Nobody
  BY <1>1, EmptyIsGood DEF Load
<1>2. CASE file # Nobody
  BY <1>2 DEF Load, MemoriesTyped
<1> QED BY <1>1, <1>2

\* The files and writers that a crash or a rename leaves.
LEMMA BlankIsGood == Blank \in FileRecords /\ Torn \in FileRecords
BY EmptyIsGood DEF Blank, Torn, FileRecords, Wholes

\* A writer that has not begun, or has ended, and one that has made its list.
LEMMA IdleIsGood ==
  /\ Idle \in WriterRecords /\ Ended \in WriterRecords
  /\ \A list \in Lists : [Idle EXCEPT !.at = "read", !.list = list] \in WriterRecords
BY EmptyIsGood DEF Idle, Ended, WriterRecords, Places

\* A file that is dropped leaves the others as they are.
LEMMA TidiedTyped ==
  ASSUME NEW now \in [Writers -> FileRecords]
  PROVE  Tidied(now) \in [Writers -> FileRecords]
BY BlankIsGood DEF Tidied

\* A change begins with a good list made of what was loaded.
LEMMA BeginTyped ==
  ASSUME MemoriesTyped, NEW w \in Writers, NEW list \in Lists, Begin(w, list)
  PROVE  MemoriesTyped'
<1> DEFINE now == [Idle EXCEPT !.at = "read", !.list = list]
<1>1. now \in WriterRecords
  BY IdleIsGood
<1>2. writer' = [writer EXCEPT ![w] = now] /\ UNCHANGED <<content, file, tmp>>
  BY DEF Begin
<1> HIDE DEF now
<1> QED BY <1>1, <1>2 DEF MemoriesTyped, WriterRecords

\* A summarizer's change: the memory that it makes is of its chat.
LEMMA SummarizeTyped ==
  ASSUME StoreTyped, TasksTyped, MemoriesTyped, NEW r \in Saves, Summarize(r)
  PROVE  MemoriesTyped'
<1> DEFINE memory == [by |-> r, chat |-> save[r].chat, at |-> task[r].seen]
<1>1. save[r].chat \in ChatIds /\ task[r].seen \in 0 .. clock
  BY DEF Summarize, TasksTyped
<1>2. memory \in Memory
  BY <1>1 DEF Memory, Writers, StoreTyped
<1> HIDE DEF memory
<1>3. UpsertForChat(Load, memory) \in Lists
  BY <1>2, LoadIsGood, UpsertIsGood
<1>4. Begin(r, UpsertForChat(Load, memory)) /\ r \in Writers
  BY DEF Summarize, memory, Writers
<1> QED BY <1>3, <1>4, BeginTyped

\* The user's changes: add, remove, wipe.
LEMMA ByHandTyped ==
  ASSUME MemoriesTyped, NEW o \in Ops, ByHand(o)
  PROVE  MemoriesTyped'
<1>1. Load \in Lists /\ o \in Writers
  BY LoadIsGood DEF Writers
<1>2. ASSUME NEW c \in ChatIds \union {NoChat}, AddByHand(o, c)
      PROVE  MemoriesTyped'
  <2> DEFINE memory == [by |-> o, chat |-> c, at |-> 0]
  <2>1. memory \in Memory /\ memory.by \in Ops
    BY <1>1 DEF Memory
  <2> HIDE DEF memory
  <2>2. Add(Load, memory) \in Lists
    BY <1>1, <2>1, AddIsGood
  <2>3. Begin(o, Add(Load, memory))
    BY <1>2 DEF AddByHand, memory
  <2> QED BY <1>1, <2>2, <2>3, BeginTyped
<1>3. CASE RemoveByHand(o)
  <2>1. PICK i \in DOMAIN Load : Begin(o, Without(Load, i))
    BY <1>3 DEF RemoveByHand
  <2>2. Without(Load, i) \in Lists
    BY <1>1, WithoutIsGood
  <2> QED BY <1>1, <2>1, <2>2, BeginTyped
<1>4. CASE Clear(o)
  BY <1>1, <1>4, EmptyIsGood, BeginTyped DEF Clear
<1> QED BY <1>2, <1>3, <1>4 DEF ByHand

\* The three steps of a save.
LEMMA SaveStepTyped ==
  ASSUME MemoriesTyped, NEW w \in Writers, SaveStep(w)
  PROVE  MemoriesTyped'
<1>1. /\ writer \in [Writers -> WriterRecords] /\ content \in [Writers -> FileRecords]
      /\ file \in Writers \union {Nobody} /\ tmp \in Writers \union {Nobody}
  BY DEF MemoriesTyped, WriterRecords, FileRecords
<1>2. ASSUME writer' \in [Writers -> WriterRecords], content' \in [Writers -> FileRecords],
             file' \in Writers \union {Nobody}, tmp' \in Writers \union {Nobody}
      PROVE  MemoriesTyped'
  BY <1>2 DEF MemoriesTyped, WriterRecords, FileRecords
<1>3. CASE Open(w)
  <2>1. /\ tmp' \in Writers /\ file' = file /\ content' = [content EXCEPT ![tmp'] = Blank]
        /\ writer' = [writer EXCEPT ![w].at = "open", ![w].file = tmp']
    BY <1>1, <1>3 DEF Open
  <2> DEFINE now == [writer[w] EXCEPT !.at = "open", !.file = tmp']
  <2>2. now \in WriterRecords
    BY <1>1, <2>1 DEF WriterRecords, Places
  <2>3. writer' = [writer EXCEPT ![w] = now]
    BY <1>1, <2>1
  <2> HIDE DEF now
  <2>4. writer' \in [Writers -> WriterRecords]
    BY <1>1, <2>2, <2>3
  <2>5. content' \in [Writers -> FileRecords]
    BY <1>1, <2>1, BlankIsGood
  <2> QED BY <1>1, <1>2, <2>1, <2>4, <2>5
<1>4. CASE Fill(w)
  <2> DEFINE mine == [is |-> "whole", list |-> writer[w].list]
             f == writer[w].file
             now == [writer[w] EXCEPT !.at = "written"]
  <2>1. mine \in FileRecords
    BY <1>1 DEF WriterRecords, FileRecords, Wholes
  <2> HIDE DEF mine
  <2>2. PICK filled \in {mine, Torn} : content' = [content EXCEPT ![f] = filled]
    <3>1. \E filled \in IF content[f] = Blank THEN {mine} ELSE {mine, Torn} :
            content' = [content EXCEPT ![f] = filled]
      BY <1>4 DEF Fill, mine
    <3> QED BY <3>1
  <2>3. writer' = [writer EXCEPT ![w] = now] /\ UNCHANGED <<file, tmp>>
    BY <1>4 DEF Fill
  <2>4. now \in WriterRecords
    BY <1>1 DEF WriterRecords, Places
  <2> HIDE DEF now
  <2>5. writer' \in [Writers -> WriterRecords]
    BY <1>1, <2>3, <2>4
  <2>6. content' \in [Writers -> FileRecords]
    BY <1>1, <2>1, <2>2, BlankIsGood
  <2> QED BY <1>1, <1>2, <2>3, <2>5, <2>6
<1>5. CASE Rename(w)
  <2>1. /\ writer' = [writer EXCEPT ![w] = Ended] /\ content' = Tidied(content)
        /\ IF tmp = Nobody THEN UNCHANGED <<file, tmp>> ELSE file' = tmp /\ tmp' = Nobody
    BY <1>5 DEF Rename
  <2>2. writer' \in [Writers -> WriterRecords]
    BY <1>1, <2>1, IdleIsGood
  <2>3. content' \in [Writers -> FileRecords]
    BY <1>1, <2>1, TidiedTyped
  <2> QED BY <1>1, <1>2, <2>1, <2>2, <2>3
<1> QED BY <1>3, <1>4, <1>5 DEF SaveStep

\* A restart ends the writers where they are.
LEMMA RestartMemories ==
  ASSUME MemoriesTyped, Restart
  PROVE  MemoriesTyped'
<1>1. content \in [Writers -> FileRecords]
  BY DEF MemoriesTyped, FileRecords
<1>2. /\ writer' = [w \in Writers |-> IF writer[w].at = "idle" THEN Idle ELSE Ended]
      /\ content' = Tidied(content) /\ UNCHANGED <<file, tmp>>
  BY DEF Restart
<1>3. writer' \in [Writers -> WriterRecords]
  BY <1>2, IdleIsGood
<1>4. content' \in [Writers -> FileRecords]
  BY <1>1, <1>2, TidiedTyped
<1> QED BY <1>2, <1>3, <1>4 DEF MemoriesTyped, WriterRecords, FileRecords

\* What was wiped were memories, and a prompt is given some of them.
LEMMA PromptsStep ==
  ASSUME MemoriesTyped, PromptsTyped, [Next]_vars
  PROVE  PromptsTyped'
<1>1. ASSUME NEW w \in Writers, Rename(w)
      PROVE  PromptsTyped'
  <2> DEFINE there == {Load[i] : i \in DOMAIN Load}
  <2>1. Load \in Seq(Memory)
    BY LoadIsGood DEF Lists
  <2>2. there \subseteq Memory
    BY <2>1, LenProperties, ElementOfSeq
  <2>3. UNCHANGED recalled /\ (wiped' = wiped \/ wiped' = wiped \union there)
    BY <1>1 DEF Rename
  <2> HIDE DEF there
  <2> QED BY <2>2, <2>3 DEF PromptsTyped
<1>2. CASE Prompt
  <2>1. UNCHANGED wiped
    BY <1>2 DEF Prompt, memories
  <2>2. \E given : recalled' = recalled \union (given \intersect wiped)
    BY <1>2 DEF Prompt
  <2> QED BY <2>1, <2>2 DEF PromptsTyped
<1>3. ASSUME UNCHANGED <<wiped, recalled>>
      PROVE  PromptsTyped'
  BY <1>3 DEF PromptsTyped
<1>4. ASSUME NEW r \in Saves,
             (\E c \in ChatIds, few \in BOOLEAN : Upsert(r, c, few)) \/ Schedule(r) \/ Task(r)
      PROVE  UNCHANGED <<wiped, recalled>>
  BY <1>4 DEF Upsert, Schedule, Task, NotScheduled, CancelPrevious, Spawn, Wake, NoSummary,
              Summary, Summarize, TaskEnds, Begin, memories
<1>5. ASSUME NEW o \in Ops, ByHand(o)
      PROVE  UNCHANGED <<wiped, recalled>>
  BY <1>5 DEF ByHand, AddByHand, RemoveByHand, Clear, Begin
<1>6. ASSUME NEW w \in Writers, Open(w) \/ Fill(w)
      PROVE  UNCHANGED <<wiped, recalled>>
  BY <1>6 DEF Open, Fill
<1>7. ASSUME NEW gone \in SUBSET ChatIds, Delete(gone)
      PROVE  UNCHANGED <<wiped, recalled>>
  BY <1>7 DEF Delete, memories
<1>8. CASE Switch \/ Restart \/ UNCHANGED vars
  <2>1. UNCHANGED <<wiped, recalled>>
    BY <1>8 DEF Switch, Restart, memories, vars
  <2> QED BY <1>3, <2>1
<1> QED BY <1>1, <1>2, <1>3, <1>4, <1>5, <1>6, <1>7, <1>8 DEF Next, SaveStep

\* The bounds hold what they count.
LEMMA BoundsStep ==
  ASSUME BoundsTyped, [Next]_vars
  PROVE  BoundsTyped'
<1>0. MaxFaults \in Nat /\ MaxChanges \in Nat
  BY Bounds
<1>1. ASSUME NEW new, Write(new) \/ WriteFails(new)
      PROVE  faults' \in 0 .. MaxFaults
  BY <1>0, <1>1 DEF Write, WriteFails, Fault, BoundsTyped
<1>2. ASSUME NEW r \in Saves, NEW c \in ChatIds, NEW few \in BOOLEAN, Upsert(r, c, few)
      PROVE  BoundsTyped'
  <2>1. faults' \in 0 .. MaxFaults
    BY <1>1, <1>2 DEF Upsert
  <2> QED BY <1>2, <2>1 DEF Upsert, BoundsTyped
<1>3. ASSUME NEW gone \in SUBSET ChatIds, Delete(gone)
      PROVE  BoundsTyped'
  <2>1. faults' \in 0 .. MaxFaults
    BY <1>1, <1>3 DEF Delete
  <2>2. changes' \in 0 .. MaxChanges /\ enabled' = enabled
    BY <1>0, <1>3 DEF Delete, Change, BoundsTyped
  <2> QED BY <2>1, <2>2 DEF BoundsTyped
<1>4. CASE Switch
  <2>1. changes' \in 0 .. MaxChanges
    BY <1>0, <1>4 DEF Switch, Change, BoundsTyped
  <2> QED BY <1>4, <2>1 DEF Switch, BoundsTyped
<1>5. CASE Restart
  <2>1. faults' \in 0 .. MaxFaults
    BY <1>0, <1>5 DEF Restart, Fault, BoundsTyped
  <2> QED BY <1>5, <2>1 DEF Restart, BoundsTyped
<1>6. ASSUME UNCHANGED <<enabled, faults, changes>>
      PROVE  BoundsTyped'
  BY <1>6 DEF BoundsTyped
<1>7. ASSUME NEW r \in Saves, Schedule(r) \/ Task(r)
      PROVE  UNCHANGED <<enabled, faults, changes>>
  BY <1>7 DEF Schedule, Task, NotScheduled, CancelPrevious, Spawn, Wake, NoSummary,
              Summary, Summarize, TaskEnds, Begin, bounds
<1>8. ASSUME NEW o \in Ops, ByHand(o)
      PROVE  UNCHANGED <<enabled, faults, changes>>
  BY <1>8 DEF ByHand, AddByHand, RemoveByHand, Clear, Begin, bounds
<1>9. ASSUME NEW w \in Writers, SaveStep(w)
      PROVE  UNCHANGED <<enabled, faults, changes>>
  BY <1>9 DEF SaveStep, Open, Fill, Rename, bounds
<1>10. CASE Prompt \/ UNCHANGED vars
  <2>1. UNCHANGED <<enabled, faults, changes>>
    BY <1>10 DEF Prompt, bounds, vars
  <2> QED BY <1>6, <2>1
<1> QED BY <1>2, <1>3, <1>4, <1>5, <1>6, <1>7, <1>8, <1>9, <1>10 DEF Next

\* The memories through every step.
LEMMA MemoriesStep ==
  ASSUME StoreTyped, TasksTyped, MemoriesTyped, [Next]_vars
  PROVE  MemoriesTyped'
<1>1. ASSUME NEW r \in Saves, NEW c \in ChatIds, NEW few \in BOOLEAN, Upsert(r, c, few)
      PROVE  UNCHANGED <<writer, content, file, tmp>>
  BY <1>1 DEF Upsert, memories
<1>2. ASSUME NEW gone \in SUBSET ChatIds, Delete(gone)
      PROVE  UNCHANGED <<writer, content, file, tmp>>
  BY <1>2 DEF Delete, memories
<1>3. ASSUME NEW r \in Saves, Schedule(r)
      PROVE  UNCHANGED <<writer, content, file, tmp>>
  BY <1>3 DEF Schedule, NotScheduled, CancelPrevious, Spawn, memories
<1>4. ASSUME NEW r \in Saves, Task(r)
      PROVE  MemoriesTyped'
  <2>1. CASE Summarize(r)
    BY <2>1, SummarizeTyped
  <2>2. CASE Wake(r) \/ NoSummary(r) \/ Summary(r) \/ TaskEnds(r)
    <3>1. UNCHANGED <<writer, content, file, tmp>>
      BY <2>2 DEF Wake, NoSummary, Summary, TaskEnds, memories
    <3> QED BY <3>1, MemoriesFrame
  <2> QED BY <1>4, <2>1, <2>2 DEF Task
<1>5. CASE Prompt \/ Switch \/ UNCHANGED vars
  <2>1. UNCHANGED <<writer, content, file, tmp>>
    BY <1>5 DEF Prompt, Switch, memories, vars
  <2> QED BY <2>1, MemoriesFrame
<1> QED BY <1>1, <1>2, <1>3, <1>4, <1>5, ByHandTyped, SaveStepTyped, RestartMemories,
           MemoriesFrame DEF Next

\* The summarizers through every step.
LEMMA TasksStep ==
  ASSUME StoreTyped, StoreKept, TasksTyped, [Next]_vars
  PROVE  TasksTyped'
<1>1. clock \in Nat /\ clock' \in Nat /\ clock <= clock'
  BY StoreStep DEF StoreTyped
<1>2. ASSUME NEW gone \in SUBSET ChatIds, Delete(gone)
      PROVE  UNCHANGED <<save, task, inflight>>
  BY <1>2 DEF Delete
<1>3. ASSUME NEW o \in Ops, ByHand(o)
      PROVE  UNCHANGED <<save, task, inflight>>
  BY <1>3 DEF ByHand, AddByHand, RemoveByHand, Clear, Begin
<1>4. ASSUME NEW w \in Writers, SaveStep(w)
      PROVE  UNCHANGED <<save, task, inflight>>
  BY <1>4 DEF SaveStep, Open, Fill, Rename
<1>5. CASE Prompt \/ Switch \/ UNCHANGED vars
  <2>1. UNCHANGED <<save, task, inflight>>
    BY <1>5 DEF Prompt, Switch, vars
  <2> QED BY <1>1, <2>1, TasksFrame
<1> QED BY <1>1, <1>2, <1>3, <1>4, <1>5, UpsertTasks, ScheduleTasks, SummarizerTasks,
           RestartTasks, TasksFrame DEF Next

-----------------------------------------------------------------------------
(* The invariant                                                             *)

\* The invariant holds when the daemon starts.
LEMMA InitEstablishes == Init => IInv
<1> SUFFICES ASSUME Init PROVE IInv
  OBVIOUS
<1>1. StoreTyped /\ StoreKept
  BY DEF Init, StoreTyped, StoreKept
<1>2. TasksTyped
  BY DEF Init, TasksTyped
<1>3. MemoriesTyped
  <2>1. Idle \in WriterRecords /\ Blank \in FileRecords
    BY IdleIsGood, BlankIsGood
  <2> QED BY <2>1 DEF Init, MemoriesTyped, WriterRecords, FileRecords
<1>4. PromptsTyped /\ BoundsTyped
  BY Bounds DEF Init, PromptsTyped, BoundsTyped
<1> QED BY <1>1, <1>2, <1>3, <1>4 DEF IInv

\* Every step keeps it.
LEMMA StepKeeps == IInv /\ [Next]_vars => IInv'
BY StoreStep, TasksStep, MemoriesStep, PromptsStep, BoundsStep DEF IInv

\* So it holds at any time.
LEMMA AlwaysIInv == Spec => []IInv
BY InitEstablishes, StepKeeps, PTL DEF Spec

-----------------------------------------------------------------------------
(* Theorems                                                                  *)

\* It says of every variable what its type is.
LEMMA TypesOfParts == IInv => TypeOK
<1> SUFFICES ASSUME IInv PROVE TypeOK
  OBVIOUS
<1>1. Lists \subseteq Seq(Memory)
  BY DEF Lists
<1>2. writer \in [Writers -> [at : Places, list : Seq(Memory), file : Writers \union {Nobody}]]
  <2>1. WriterRecords \subseteq [at : Places, list : Seq(Memory), file : Writers \union {Nobody}]
    BY <1>1 DEF WriterRecords
  <2> QED BY <2>1 DEF IInv, MemoriesTyped, WriterRecords
<1>3. content \in [Writers -> [is : Wholes, list : Seq(Memory)]]
  <2>1. FileRecords \subseteq [is : Wholes, list : Seq(Memory)]
    BY <1>1 DEF FileRecords
  <2> QED BY <2>1 DEF IInv, MemoriesTyped, FileRecords
<1> QED BY <1>2, <1>3 DEF TypeOK, IInv, StoreTyped, TasksTyped, MemoriesTyped, PromptsTyped,
                          BoundsTyped, Places, Wholes

\* Every variable keeps its type, in particular each request that is scheduled, and each
\* summarizer, has a chat.
THEOREM TypeCorrect == Spec => []TypeOK
BY AlwaysIInv, TypesOfParts, PTL

\* Whatever writes of chats.json fail, and whenever the daemon restarts, the file holds for each
\* chat what the last acknowledged change made of it, or what a later refused one would have.
THEOREM AcknowledgedKept == Spec => []AcknowledgedIsKept
<1>1. IInv => AcknowledgedIsKept
  BY DEF IInv, StoreKept, AcknowledgedIsKept
<1> QED BY <1>1, AlwaysIInv, PTL

\* However many summarizers and handlers read, change and replace memories.json without a lock,
\* it never holds more than MEMORY_CAP, nor two memories of one chat that summarizers began: each
\* of them makes a good list of a good list, and a file is replaced whole or counts as none.
THEOREM OneMemoryEach == Spec => []OneMemoryPerChat
<1>1. IInv => OneMemoryPerChat
  <2> SUFFICES ASSUME IInv PROVE OneMemoryPerChat
    OBVIOUS
  <2>1. Load \in Lists
    BY LoadIsGood DEF IInv
  <2> QED BY <2>1 DEF Lists, OneEach, OneMemoryPerChat
<1> QED BY <1>1, AlwaysIInv, PTL

-----------------------------------------------------------------------------
(* Cancelling leaves no chat unread: what SavedIsRead rests on               *)

\* A chat that is there is as new as any save of it; when it was deleted meanwhile, it is newer
\* or not there.
SavesAreOlder ==
  \A r \in Saves : save[r].pc \in {"saved", "cancelled", "done"} /\ save[r].chat # NoChat =>
    chats[save[r].chat] = 0 \/ chats[save[r].chat] >= save[r].at

\* The handle kept of a chat is of a summarizer of that chat.
HandlesFit == \A c \in ChatIds : inflight[c] # Nobody => save[inflight[c]].chat = c

\* A request gets its chat when it saves it, and its summarizer when it is through.
InTurn ==
  \A r \in Saves : /\ save[r].pc = "off" => save[r].chat = NoChat
                   /\ task[r].pc # "none" => save[r].pc \in {"done", "gone"}

ReadersFit == SavesAreOlder /\ HandlesFit /\ InTurn

\* Somebody has yet to read the chat: a summarizer, or a save that is about to spawn one.
ToBeRead(c) ==
  \E r \in Saves : save[r].chat = c /\ (save[r].pc = "cancelled" \/ task[r].pc = "sleep")

\* A bound on the steps that are left until the summarizer of a save, itself at at, reads.
StepsLeft(pc, at) ==
  CASE pc = "off" -> 4 [] pc = "saved" -> 3 [] pc = "cancelled" -> 2
    [] pc \in {"done", "gone"} /\ at = "sleep" -> 1 [] OTHER -> 0

\* No step takes a chat's last reader away: it stops for another, or has read the chat as it
\* is, unless memory is off, the chat deleted or too short, or the daemon ends.  Nobody's turn
\* gets further away, and each of the steps that FairSpec is fair to brings the request's own nearer.
ReadersGetOnStep ==
  /\ \A c \in ChatIds : ToBeRead(c) =>
       \/ ToBeRead(c)'
       \/ \E s \in Saves : save[s].chat = c /\ task'[s].seen = chats[c]
       \/ ~enabled \/ NotWorthIt(c) \/ \A r \in Saves : save[r].chat = c => save'[r].pc = "gone"
  /\ \A r \in Saves : StepsLeft(save'[r].pc, task'[r].pc) <= StepsLeft(save[r].pc, task[r].pc)
  /\ \A r \in Saves : CancelPrevious(r) \/ Spawn(r) \/ Wake(r) =>
       StepsLeft(save'[r].pc, task'[r].pc) < StepsLeft(save[r].pc, task[r].pc)

ReadersGetOn == [][ReadersGetOnStep]_vars

\* A request that goes on changes its place only.
LEMMA PlaceOfSave ==
  ASSUME TasksTyped, NEW r \in Saves, NEW pc \in {"cancelled", "done"},
         save' = [save EXCEPT ![r].pc = pc]
  PROVE  \A s \in Saves : /\ save'[s].chat = save[s].chat /\ save'[s].at = save[s].at
                          /\ save'[s].pc = IF s = r THEN pc ELSE save[s].pc
<1>1. save \in [Saves -> SaveRecords]
  BY DEF TasksTyped, SaveRecords
<1>2. \A s \in Saves : save'[s] = IF s = r THEN [save[s] EXCEPT !.pc = pc] ELSE save[s]
  BY <1>1
<1> QED BY <1>1, <1>2 DEF SaveRecords

\* So does a summarizer.
LEMMA PlaceOfTask ==
  ASSUME TasksTyped, NEW r \in Saves, NEW pc, task' = [task EXCEPT ![r].pc = pc]
  PROVE  \A s \in Saves : task'[s].pc = IF s = r THEN pc ELSE task[s].pc
<1>1. task \in [Saves -> TaskRecords]
  BY DEF TasksTyped, TaskRecords
<1>2. \A s \in Saves : task'[s] = IF s = r THEN [task[s] EXCEPT !.pc = pc] ELSE task[s]
  BY <1>1
<1> QED BY <1>1, <1>2 DEF TaskRecords

\* What each of the steps that FairSpec is fair to does to its request.
LEMMA TurnTaken ==
  ASSUME TasksTyped, NEW s \in Saves
  PROVE  /\ CancelPrevious(s) => save[s].pc = "saved" /\ save'[s].pc = "cancelled"
         /\ Spawn(s) => save[s].pc = "cancelled" /\ save'[s].pc = "done"
         /\ Wake(s) => UNCHANGED save /\ task[s].pc = "sleep" /\ task'[s].pc # "sleep"
<1>1. CancelPrevious(s) => save[s].pc = "saved" /\ save'[s].pc = "cancelled"
  BY PlaceOfSave DEF CancelPrevious
<1>2. Spawn(s) => save[s].pc = "cancelled" /\ save'[s].pc = "done"
  BY PlaceOfSave DEF Spawn
<1>3. ASSUME Wake(s) PROVE UNCHANGED save /\ task[s].pc = "sleep" /\ task'[s].pc # "sleep"
  <2>1. /\ UNCHANGED save /\ task[s].pc = "sleep"
        /\ task'[s] = IF ~enabled \/ NotWorthIt(save[s].chat)
                      THEN [task[s] EXCEPT !.pc = "done"]
                      ELSE [pc |-> "ask", seen |-> chats[save[s].chat]]
    BY <1>3 DEF Wake, TasksTyped
  <2>2. task[s] \in TaskRecords
    BY DEF TasksTyped, TaskRecords
  <2> QED BY <2>1, <2>2 DEF TaskRecords
<1> QED BY <1>1, <1>2, <1>3

\* When no chat was saved anew, nothing of it depends on more than where each has got.
LEMMA FitTogether ==
  ASSUME ReadersFit, TasksTyped, TasksTyped',
         \A s \in Saves : /\ save'[s].chat = save[s].chat /\ save'[s].at = save[s].at
                          /\ save'[s].pc = "off" => save[s].pc = "off"
                          /\ task'[s].pc # "none" => save'[s].pc \in {"done", "gone"},
         \A c \in ChatIds : inflight'[c] # Nobody => save[inflight'[c]].chat = c,
         \/ \A s \in Saves : save'[s].pc \in {"off", "gone"}
         \/ /\ \A s \in Saves : save'[s].pc \in {"saved", "cancelled", "done"}
                                  => save[s].pc \in {"saved", "cancelled", "done"}
            /\ \A c \in ChatIds : chats'[c] \in {0, chats[c]}
  PROVE  ReadersFit'
<1>1. SavesAreOlder'
  <2> SUFFICES ASSUME NEW s \in Saves, save'[s].pc \in {"saved", "cancelled", "done"},
                      save'[s].chat # NoChat
               PROVE  chats'[save'[s].chat] = 0 \/ chats'[save'[s].chat] >= save'[s].at
    BY DEF SavesAreOlder
  <2>1. save'[s].chat \in ChatIds /\ save[s].chat = save'[s].chat /\ save[s].at = save'[s].at
    BY DEF TasksTyped
  <2>2. save[s].pc \in {"saved", "cancelled", "done"} /\ chats'[save[s].chat] \in {0, chats[save[s].chat]}
    BY <2>1
  <2>3. chats[save[s].chat] = 0 \/ chats[save[s].chat] >= save[s].at
    BY <2>1, <2>2 DEF ReadersFit, SavesAreOlder
  <2> QED BY <2>1, <2>2, <2>3
<1>2. HandlesFit'
  <2> SUFFICES ASSUME NEW c \in ChatIds, inflight'[c] # Nobody PROVE save'[inflight'[c]].chat = c
    BY DEF HandlesFit
  <2>1. inflight'[c] \in Saves
    BY DEF TasksTyped
  <2> QED BY <2>1
<1>3. InTurn'
  BY DEF ReadersFit, InTurn
<1> QED BY <1>1, <1>2, <1>3 DEF ReadersFit

\* Saving a chat makes it newer than every save there was.
LEMMA UpsertFits ==
  ASSUME IInv, ReadersFit, NEW r \in Saves, NEW c \in ChatIds, NEW few \in BOOLEAN, Upsert(r, c, few)
  PROVE  /\ ReadersFit' /\ ReadersGetOnStep
<1> DEFINE now == [pc |-> "saved", chat |-> c, at |-> clock + 1]
           failed == [save[r] EXCEPT !.pc = "done"]
<1>1. /\ StoreTyped /\ TasksTyped /\ TasksTyped' /\ save[r].pc = "off" /\ clock' = clock + 1
      /\ UNCHANGED <<task, inflight>>
      /\ chats' = [chats EXCEPT ![c] = clock + 1]
      /\ save' = [save EXCEPT ![r] = now] \/ save' = [save EXCEPT ![r] = failed]
  BY UpsertTasks DEF IInv, Upsert, Write, WriteFails
<1>2. save \in [Saves -> SaveRecords] /\ clock \in Nat /\ chats \in [ChatIds -> 0 .. clock]
  BY <1>1 DEF TasksTyped, SaveRecords, StoreTyped
<1>3. /\ failed.pc = "done" /\ failed.chat = NoChat
      /\ now.pc = "saved" /\ now.chat = c /\ now.at = clock + 1
      /\ save[r].chat = NoChat /\ NoChat \notin ChatIds
  BY <1>1, <1>2, Apart DEF SaveRecords, ReadersFit, InTurn
<1>4. task[r].pc = "none"
  BY <1>1 DEF ReadersFit, InTurn
<1> HIDE DEF now, failed
<1>5. /\ save'[r] \in {now, failed}
      /\ \A s \in Saves : s # r => save'[s] = save[s]
      /\ \A d \in ChatIds : chats'[d] = IF d = c THEN clock + 1 ELSE chats[d]
  BY <1>1, <1>2
<1>6. SavesAreOlder'
  <2> SUFFICES ASSUME NEW s \in Saves, save'[s].pc \in {"saved", "cancelled", "done"},
                      save'[s].chat # NoChat
               PROVE  chats'[save'[s].chat] = 0 \/ chats'[save'[s].chat] >= save'[s].at
    BY DEF SavesAreOlder
  <2>1. CASE s = r
    <3>1. save'[s].chat = c /\ save'[s].at = clock + 1
      BY <1>3, <1>5, <2>1
    <3> QED BY <1>2, <1>5, <3>1
  <2>2. CASE s # r
    <3>1. save'[s] = save[s] /\ save[s].chat \in ChatIds /\ save[s].at \in 0 .. clock
      BY <1>2, <1>5, <2>2 DEF SaveRecords
    <3>2. chats[save[s].chat] = 0 \/ chats[save[s].chat] >= save[s].at
      BY <3>1 DEF ReadersFit, SavesAreOlder
    <3> QED BY <1>2, <1>5, <3>1, <3>2
  <2> QED BY <2>1, <2>2
<1>7. HandlesFit'
  <2> SUFFICES ASSUME NEW d \in ChatIds, inflight'[d] # Nobody PROVE save'[inflight'[d]].chat = d
    BY DEF HandlesFit
  <2>1. inflight'[d] \in Saves /\ save[inflight'[d]].chat = d
    BY <1>1 DEF TasksTyped, ReadersFit, HandlesFit
  <2>2. inflight'[d] # r
    BY <1>3, <2>1
  <2> QED BY <1>5, <2>1, <2>2
<1>8. InTurn'
  <2> SUFFICES ASSUME NEW s \in Saves
               PROVE  /\ save'[s].pc = "off" => save'[s].chat = NoChat
                      /\ task'[s].pc # "none" => save'[s].pc \in {"done", "gone"}
    BY DEF InTurn
  <2>1. task'[s] = task[s]
    BY <1>1
  <2> QED BY <1>3, <1>4, <1>5, <2>1 DEF ReadersFit, InTurn
<1>9. \A d \in ChatIds : ToBeRead(d) => ToBeRead(d)'
  <2> SUFFICES ASSUME NEW d \in ChatIds, ToBeRead(d) PROVE ToBeRead(d)'
    OBVIOUS
  <2>1. PICK w \in Saves : save[w].chat = d /\ (save[w].pc = "cancelled" \/ task[w].pc = "sleep")
    BY DEF ToBeRead
  <2>2. w # r
    BY <1>3, <2>1
  <2> QED BY <1>1, <1>5, <2>1, <2>2 DEF ToBeRead
<1>10. ASSUME NEW s \in Saves
       PROVE  /\ StepsLeft(save'[s].pc, task'[s].pc) <= StepsLeft(save[s].pc, task[s].pc)
              /\ ~(CancelPrevious(s) \/ Spawn(s) \/ Wake(s))
  <2>1. ~(CancelPrevious(s) \/ Spawn(s) \/ Wake(s))
    BY <1>1, <1>2 DEF CancelPrevious, Spawn, Wake, store
  <2> QED BY <1>1, <1>3, <1>5, <2>1 DEF StepsLeft
<1> QED BY <1>6, <1>7, <1>8, <1>9, <1>10 DEF ReadersFit, ReadersGetOnStep

\* A step of a request that is scheduled.
LEMMA ScheduleFits ==
  ASSUME IInv, ReadersFit, NEW r \in Saves, Schedule(r)
  PROVE  ReadersFit' /\ ReadersGetOnStep
<1>1. /\ StoreTyped /\ TasksTyped /\ TasksTyped' /\ UNCHANGED chats
      /\ task \in [Saves -> TaskRecords] /\ inflight \in [ChatIds -> Saves \union {Nobody}]
  BY ScheduleTasks DEF IInv, Schedule, NotScheduled, CancelPrevious, Spawn, store, TasksTyped,
                       TaskRecords
<1>2. chats \in [ChatIds -> 0 .. clock] /\ clock \in Nat /\ \A c \in ChatIds : chats'[c] \in {0, chats[c]}
  BY <1>1 DEF StoreTyped
<1>3. CASE NotScheduled(r)
  <2>1. /\ save[r].pc = "saved" /\ save' = [save EXCEPT ![r].pc = "done"]
        /\ UNCHANGED <<task, inflight>>
    BY <1>3 DEF NotScheduled
  <2>2. \A s \in Saves : /\ save'[s].chat = save[s].chat /\ save'[s].at = save[s].at
                         /\ save'[s].pc = IF s = r THEN "done" ELSE save[s].pc
    BY <1>1, <2>1, PlaceOfSave
  <2>3. ReadersFit'
    <3>1. \A s \in Saves : task'[s].pc # "none" => save'[s].pc \in {"done", "gone"}
      BY <2>1, <2>2 DEF ReadersFit, InTurn
    <3>2. \A c \in ChatIds : inflight'[c] # Nobody => save[inflight'[c]].chat = c
      BY <2>1 DEF ReadersFit, HandlesFit
    <3> QED BY <1>1, <1>2, <2>1, <2>2, <3>1, <3>2, FitTogether
  <2>4. task[r].pc = "none"
    BY <2>1 DEF ReadersFit, InTurn
  <2>5. \A c \in ChatIds : ToBeRead(c) => ToBeRead(c)'
    BY <2>1, <2>2, <2>4 DEF ToBeRead
  <2>6. ASSUME NEW s \in Saves
        PROVE  /\ StepsLeft(save'[s].pc, task'[s].pc) <= StepsLeft(save[s].pc, task[s].pc)
               /\ CancelPrevious(s) \/ Spawn(s) \/ Wake(s) => FALSE
    <3>1. StepsLeft(save'[s].pc, task'[s].pc) <= StepsLeft(save[s].pc, task[s].pc)
      BY <2>1, <2>2, <2>4 DEF StepsLeft
    <3>2. ~CancelPrevious(s) /\ ~Spawn(s) /\ ~Wake(s)
      BY <1>1, <2>1, <2>2, TurnTaken
    <3> QED BY <3>1, <3>2
  <2> QED BY <2>3, <2>5, <2>6 DEF ReadersGetOnStep
<1>4. CASE CancelPrevious(r)
  <2>1. /\ save[r].pc = "saved" /\ save' = [save EXCEPT ![r].pc = "cancelled"]
        /\ save[r].chat \in ChatIds
        /\ inflight' = [inflight EXCEPT ![save[r].chat] = Nobody]
        /\ \/ task' = task
           \/ /\ inflight[save[r].chat] # Nobody
              /\ task' = [task EXCEPT ![inflight[save[r].chat]].pc = "done"]
              /\ task[inflight[save[r].chat]].pc \in {"sleep", "ask"}
    BY <1>1, <1>4 DEF CancelPrevious, Aborted, TasksTyped
  <2>2. \A s \in Saves : /\ save'[s].chat = save[s].chat /\ save'[s].at = save[s].at
                         /\ save'[s].pc = IF s = r THEN "cancelled" ELSE save[s].pc
    BY <1>1, <2>1, PlaceOfSave
  <2>3. ASSUME NEW s \in Saves
        PROVE  \/ task'[s].pc = task[s].pc
               \/ save[s].chat = save[r].chat /\ task[s].pc # "none" /\ task'[s].pc = "done"
    <3>1. CASE task' = task
      BY <3>1
    <3>2. CASE task' # task
      <4> DEFINE old == inflight[save[r].chat]
      <4>1. /\ old \in Saves /\ save[old].chat = save[r].chat /\ task[old].pc # "none"
            /\ task' = [task EXCEPT ![old].pc = "done"]
        BY <1>1, <2>1, <3>2 DEF ReadersFit, HandlesFit
      <4> HIDE DEF old
      <4>2. \A q \in Saves : task'[q].pc = IF q = old THEN "done" ELSE task[q].pc
        BY <1>1, <4>1, PlaceOfTask
      <4> QED BY <4>1, <4>2
    <3> QED BY <3>1, <3>2
  <2>4. ReadersFit'
    <3>1. \A s \in Saves : task'[s].pc # "none" => save'[s].pc \in {"done", "gone"}
      BY <2>1, <2>2, <2>3 DEF ReadersFit, InTurn
    <3>2. \A c \in ChatIds : inflight'[c] # Nobody => save[inflight'[c]].chat = c
      BY <1>1, <2>1 DEF ReadersFit, HandlesFit
    <3> QED BY <1>1, <1>2, <2>1, <2>2, <3>1, <3>2, FitTogether
  <2>5. ASSUME NEW c \in ChatIds, ToBeRead(c) PROVE ToBeRead(c)'
    <3>1. PICK w \in Saves : save[w].chat = c /\ (save[w].pc = "cancelled" \/ task[w].pc = "sleep")
      BY <2>5 DEF ToBeRead
    <3>2. CASE save[r].chat = c
      BY <2>2, <3>2 DEF ToBeRead
    <3>3. CASE save[r].chat # c
      <4>1. w # r /\ task'[w].pc = task[w].pc
        BY <2>3, <3>1, <3>3
      <4> QED BY <2>2, <3>1, <4>1 DEF ToBeRead
    <3> QED BY <3>2, <3>3
  <2>6. ASSUME NEW s \in Saves
        PROVE  /\ StepsLeft(save'[s].pc, task'[s].pc) <= StepsLeft(save[s].pc, task[s].pc)
               /\ s = r => StepsLeft(save'[s].pc, task'[s].pc) < StepsLeft(save[s].pc, task[s].pc)
    <3>1. CASE s = r
      BY <2>1, <2>2, <3>1 DEF StepsLeft
    <3>2. CASE s # r
      BY <2>2, <2>3, <3>2 DEF StepsLeft
    <3> QED BY <3>1, <3>2
  <2>7. ASSUME NEW s \in Saves, CancelPrevious(s) \/ Spawn(s) \/ Wake(s) PROVE s = r
    <3>1. save'[r].pc = "cancelled" /\ save[r].pc = "saved"
      BY <2>1, <2>2
    <3>2. ~Wake(s)
      BY <1>1, <3>1, TurnTaken
    <3>3. save'[s].pc # save[s].pc
      BY <1>1, <2>7, <3>2, TurnTaken
    <3> QED BY <2>2, <3>3
  <2> QED BY <2>4, <2>5, <2>6, <2>7 DEF ReadersGetOnStep
<1>5. CASE Spawn(r)
  <2>1. /\ save[r].pc = "cancelled" /\ save' = [save EXCEPT ![r].pc = "done"]
        /\ save[r].chat \in ChatIds
        /\ inflight' = [inflight EXCEPT ![save[r].chat] = r]
        /\ task' = [task EXCEPT ![r].pc = "sleep"]
    BY <1>1, <1>5 DEF Spawn, TasksTyped
  <2>2. \A s \in Saves : /\ save'[s].chat = save[s].chat /\ save'[s].at = save[s].at
                         /\ save'[s].pc = IF s = r THEN "done" ELSE save[s].pc
    BY <1>1, <2>1, PlaceOfSave
  <2>3. \A s \in Saves : task'[s].pc = IF s = r THEN "sleep" ELSE task[s].pc
    BY <1>1, <2>1, PlaceOfTask
  <2>4. ReadersFit'
    <3>1. \A s \in Saves : task'[s].pc # "none" => save'[s].pc \in {"done", "gone"}
      BY <2>1, <2>2, <2>3 DEF ReadersFit, InTurn
    <3>2. \A c \in ChatIds : inflight'[c] # Nobody => save[inflight'[c]].chat = c
      BY <1>1, <2>1 DEF ReadersFit, HandlesFit
    <3> QED BY <1>1, <1>2, <2>1, <2>2, <3>1, <3>2, FitTogether
  <2>5. \A c \in ChatIds : ToBeRead(c) => ToBeRead(c)'
    BY <2>2, <2>3 DEF ToBeRead
  <2>6. ASSUME NEW s \in Saves
        PROVE  /\ StepsLeft(save'[s].pc, task'[s].pc) <= StepsLeft(save[s].pc, task[s].pc)
               /\ s = r => StepsLeft(save'[s].pc, task'[s].pc) < StepsLeft(save[s].pc, task[s].pc)
    BY <2>1, <2>2, <2>3 DEF StepsLeft
  <2>7. ASSUME NEW s \in Saves, CancelPrevious(s) \/ Spawn(s) \/ Wake(s) PROVE s = r
    <3>1. save'[r].pc = "done"
      BY <2>2
    <3>2. ~Wake(s)
      BY <1>1, <2>1, <3>1, TurnTaken
    <3>3. save'[s].pc # save[s].pc
      BY <1>1, <2>7, <3>2, TurnTaken
    <3> QED BY <2>2, <3>3
  <2> QED BY <2>4, <2>5, <2>6, <2>7 DEF ReadersGetOnStep
<1> QED BY <1>3, <1>4, <1>5 DEF Schedule

\* A step of a summarizer: what it has read, when its wait is over, is the chat as it is.
LEMMA SummarizerFits ==
  ASSUME IInv, ReadersFit, NEW r \in Saves, Task(r)
  PROVE  ReadersFit' /\ ReadersGetOnStep
<1>1. /\ StoreTyped /\ TasksTyped /\ TasksTyped' /\ UNCHANGED <<chats, enabled, save>>
      /\ task \in [Saves -> TaskRecords] /\ inflight \in [ChatIds -> Saves \union {Nobody}]
  <2>1. UNCHANGED <<chats, enabled, save>>
    BY DEF Task, Wake, NoSummary, Summary, Summarize, TaskEnds, Begin, store
  <2> QED BY <2>1, SummarizerTasks DEF IInv, TasksTyped, TaskRecords
<1>2. chats \in [ChatIds -> 0 .. clock] /\ clock \in Nat /\ \A c \in ChatIds : chats'[c] \in {0, chats[c]}
  BY <1>1 DEF StoreTyped
<1>3. /\ task[r].pc # "none" /\ save[r].chat \in ChatIds /\ save[r].pc \in {"done", "gone"}
      /\ \A s \in Saves : s # r => task'[s] = task[s]
      /\ \A c \in ChatIds : inflight'[c] \in {inflight[c], Nobody}
  <2>1. task[r].pc # "none"
    BY DEF Task, Wake, NoSummary, Summary, Summarize, TaskEnds
  <2>2. save[r].chat \in ChatIds /\ save[r].pc \in {"done", "gone"}
    BY <1>1, <2>1 DEF TasksTyped, ReadersFit, InTurn
  <2>3. \A s \in Saves : s # r => task'[s] = task[s]
    BY <1>1 DEF Task, Wake, NoSummary, Summary, Summarize, TaskEnds, Begin
  <2>4. \A c \in ChatIds : inflight'[c] \in {inflight[c], Nobody}
    BY <1>1 DEF Task, Wake, NoSummary, Summary, Summarize, TaskEnds, Begin, Forget
  <2> QED BY <2>1, <2>2, <2>3, <2>4
<1>4. ReadersFit'
  <2>1. \A s \in Saves : task'[s].pc # "none" => save'[s].pc \in {"done", "gone"}
    BY <1>1, <1>3 DEF ReadersFit, InTurn
  <2>2. \A c \in ChatIds : inflight'[c] # Nobody => save[inflight'[c]].chat = c
    BY <1>3 DEF ReadersFit, HandlesFit
  <2> QED BY <1>1, <1>2, <2>1, <2>2, FitTogether
<1>5. \/ task[r].pc = "sleep" /\ Wake(r)
      \/ task[r].pc # "sleep" /\ task'[r].pc # "sleep" /\ ~Wake(r)
  <2>1. CASE Wake(r)
    BY <2>1 DEF Wake
  <2>2. CASE NoSummary(r) \/ TaskEnds(r)
    <3>1. task'[r].pc = "done" /\ task[r].pc \in {"ask", "store"}
      BY <1>1, <2>2, PlaceOfTask DEF NoSummary, TaskEnds
    <3> QED BY <3>1 DEF Wake
  <2>3. CASE Summary(r)
    <3>1. task'[r].pc = "store" /\ task[r].pc = "ask"
      BY <1>1, <2>3, PlaceOfTask DEF Summary
    <3> QED BY <3>1 DEF Wake
  <2>4. CASE Summarize(r)
    BY <2>4 DEF Summarize, Begin, Wake
  <2> QED BY <2>1, <2>2, <2>3, <2>4 DEF Task
<1>6. task'[r].pc # "sleep" /\
      (task[r].pc = "sleep" => ~enabled \/ NotWorthIt(save[r].chat) \/ task'[r].seen = chats[save[r].chat])
  <2>1. CASE Wake(r)
    <3>1. CASE ~enabled \/ NotWorthIt(save[r].chat)
      <4>1. task' = [task EXCEPT ![r] = [@ EXCEPT !.pc = "done"]]
        BY <2>1, <3>1 DEF Wake
      <4>2. task' = [task EXCEPT ![r].pc = "done"]
        BY <4>1
      <4>3. task'[r].pc = "done"
        BY <1>1, <4>2, PlaceOfTask
      <4> QED BY <3>1, <4>3
    <3>2. CASE ~(~enabled \/ NotWorthIt(save[r].chat))
      <4>1. task'[r] = [pc |-> "ask", seen |-> chats[save[r].chat]]
        BY <1>1, <2>1, <3>2 DEF Wake
      <4> QED BY <4>1
    <3> QED BY <3>1, <3>2
  <2> QED BY <1>5, <2>1
<1>7. ASSUME NEW c \in ChatIds, ToBeRead(c)
      PROVE  \/ ToBeRead(c)'
             \/ \E s \in Saves : save[s].chat = c /\ task'[s].seen = chats[c]
             \/ ~enabled \/ NotWorthIt(c)
  <2>1. PICK w \in Saves : save[w].chat = c /\ (save[w].pc = "cancelled" \/ task[w].pc = "sleep")
    BY <1>7 DEF ToBeRead
  <2>2. CASE w = r
    BY <1>3, <1>6, <2>1, <2>2
  <2>3. CASE w # r
    BY <1>1, <1>3, <2>1, <2>3 DEF ToBeRead
  <2> QED BY <2>2, <2>3
<1>8. ASSUME NEW s \in Saves
      PROVE  /\ StepsLeft(save'[s].pc, task'[s].pc) <= StepsLeft(save[s].pc, task[s].pc)
             /\ Wake(s) => StepsLeft(save'[s].pc, task'[s].pc) < StepsLeft(save[s].pc, task[s].pc)
  <2>1. CASE s = r
    BY <1>1, <1>3, <1>5, <1>6, <2>1 DEF StepsLeft
  <2>2. CASE s # r
    <3>1. ~Wake(s)
      BY <1>1, <1>3, <2>2, TurnTaken
    <3> QED BY <1>1, <1>3, <2>2, <3>1 DEF StepsLeft
  <2> QED BY <2>1, <2>2
<1>9. \A s \in Saves : ~CancelPrevious(s) /\ ~Spawn(s)
  BY <1>1, TurnTaken
<1> QED BY <1>4, <1>7, <1>8, <1>9 DEF ReadersGetOnStep

\* A step that is none of theirs leaves them where they are; it may delete chats.
LEMMA OthersFit ==
  ASSUME TasksTyped, TasksTyped', ReadersFit, UNCHANGED <<save, task, inflight>>,
         \A c \in ChatIds : chats'[c] \in {0, chats[c]}
  PROVE  ReadersFit' /\ ReadersGetOnStep
<1>1. ReadersFit'
  BY FitTogether DEF ReadersFit, HandlesFit, InTurn
<1>2. \A c \in ChatIds : ToBeRead(c) => ToBeRead(c)'
  BY DEF ToBeRead
<1>3. \A s \in Saves : StepsLeft(save'[s].pc, task'[s].pc) <= StepsLeft(save[s].pc, task[s].pc)
  BY DEF StepsLeft
<1>4. \A s \in Saves : ~(CancelPrevious(s) \/ Spawn(s) \/ Wake(s))
  BY TurnTaken
<1> QED BY <1>1, <1>2, <1>3, <1>4 DEF ReadersGetOnStep

\* A restart ends them all.
LEMMA RestartFits ==
  ASSUME IInv, ReadersFit, Restart
  PROVE  ReadersFit' /\ ReadersGetOnStep
<1>1. /\ TasksTyped /\ TasksTyped'
      /\ save \in [Saves -> SaveRecords] /\ task \in [Saves -> TaskRecords]
  BY RestartTasks DEF IInv, TasksTyped, SaveRecords, TaskRecords
<1>2. ASSUME NEW s \in Saves
      PROVE  /\ save'[s].chat = save[s].chat /\ save'[s].at = save[s].at
             /\ save'[s].pc = IF save[s].pc = "off" THEN "off" ELSE "gone"
  <2>1. save'[s] = IF save[s].pc = "off" THEN save[s] ELSE [save[s] EXCEPT !.pc = "gone"]
    BY DEF Restart
  <2> QED BY <1>1, <2>1 DEF SaveRecords
<1>3. ASSUME NEW s \in Saves
      PROVE  task'[s].pc = IF task[s].pc = "none" THEN "none" ELSE "done"
  <2>1. task'[s] = IF task[s].pc = "none" THEN task[s] ELSE [task[s] EXCEPT !.pc = "done"]
    BY DEF Restart
  <2> QED BY <1>1, <2>1 DEF TaskRecords
<1>4. ReadersFit'
  <2>1. \A s \in Saves : task'[s].pc # "none" => save'[s].pc \in {"done", "gone"}
    BY <1>2, <1>3 DEF ReadersFit, InTurn
  <2>2. \A c \in ChatIds : inflight'[c] = Nobody
    BY DEF Restart
  <2> QED BY <1>1, <1>2, <2>1, <2>2, FitTogether
<1>5. \A c \in ChatIds : \A s \in Saves : save[s].chat = c => save'[s].pc = "gone"
  BY <1>2, Apart DEF ReadersFit, InTurn
<1>6. \A s \in Saves : StepsLeft(save'[s].pc, task'[s].pc) <= StepsLeft(save[s].pc, task[s].pc)
  BY <1>2, <1>3 DEF StepsLeft
<1>7. ASSUME NEW s \in Saves PROVE ~(CancelPrevious(s) \/ Spawn(s) \/ Wake(s))
  <2>1. faults' = faults + 1 /\ faults \in Nat
    BY DEF Restart, Fault, IInv, BoundsTyped
  <2> QED BY <2>1 DEF CancelPrevious, Spawn, Wake, bounds
<1> QED BY <1>4, <1>5, <1>6, <1>7 DEF ReadersGetOnStep

\* Every step, and the beginning.
LEMMA ReadersStep ==
  ASSUME IInv, ReadersFit, [Next]_vars
  PROVE  ReadersFit' /\ ReadersGetOnStep
<1>1. TasksTyped /\ TasksTyped'
  BY StepKeeps DEF IInv
<1>2. ASSUME NEW gone \in SUBSET ChatIds, Delete(gone)
      PROVE  UNCHANGED <<save, task, inflight>> /\ \A c \in ChatIds : chats'[c] \in {0, chats[c]}
  BY <1>2 DEF Delete, Write, WriteFails
<1>3. ASSUME NEW o \in Ops, ByHand(o)
      PROVE  UNCHANGED <<save, task, inflight, chats>>
  <2>1. PICK list : Begin(o, list)
    BY <1>3 DEF ByHand, AddByHand, RemoveByHand, Clear
  <2> QED BY <2>1 DEF Begin, store
<1>4. ASSUME NEW w \in Writers, SaveStep(w)
      PROVE  UNCHANGED <<save, task, inflight, chats>>
  BY <1>4 DEF SaveStep, Open, Fill, Rename, store
<1>5. CASE Prompt \/ Switch \/ UNCHANGED vars
  <2>1. UNCHANGED <<save, task, inflight, chats>>
    BY <1>5 DEF Prompt, Switch, vars, store
  <2> QED BY <1>1, <2>1, OthersFit
<1> QED BY <1>1, <1>2, <1>3, <1>4, <1>5, UpsertFits, ScheduleFits, SummarizerFits, RestartFits,
           OthersFit DEF Next

\* So the parts of it hold at any time.
LEMMA AlwaysReadersFit == Spec => []ReadersFit
<1>1. Init => ReadersFit
  BY DEF Init, ReadersFit, SavesAreOlder, HandlesFit, InTurn
<1>2. IInv /\ ReadersFit /\ [Next]_vars => ReadersFit'
  BY ReadersStep
<1> QED BY <1>1, <1>2, AlwaysIInv, PTL DEF Spec

\* However saves of a chat cancel each other's summarizers, somebody is left who has yet to read
\* the chat until somebody has read it as it is: a save stops for a later one only.  And from
\* the steps that FairSpec is fair to, each brings its request nearer to reading while no step
\* takes any request back: SavedIsRead's measure.
THEOREM ReadersComeOn == Spec => ReadersGetOn
<1>1. IInv /\ ReadersFit /\ [Next]_vars => [ReadersGetOnStep]_vars
  BY ReadersStep
<1> QED BY <1>1, AlwaysIInv, AlwaysReadersFit, PTL DEF Spec, ReadersGetOn

\* As long as a chat is there, it is as any save of it that was acknowledged left it, or newer,
\* whatever was deleted and saved since: whoever reads it then has read that save.
THEOREM ReadIsNoOlder == Spec => []SavesAreOlder
BY AlwaysReadersFit, PTL DEF ReadersFit

-----------------------------------------------------------------------------
(* AgentTools: induction over data                                          *)

\* f starts at a and goes on from each value to the next as step says.
Iterates(f, k, S, a, step) ==
  f \in [0 .. k -> S] /\ f[0] = a /\ \A i \in 1 .. k : f[i] = step[<<i, f[i - 1]>>]

\* What is written as a recursive function over 0 .. k is one, when each step stays in a set.
LEMMA SomeIterates ==
  ASSUME NEW k \in Nat, NEW S, NEW a \in S, NEW step \in [(1 .. k) \X S -> S]
  PROVE  \E f : Iterates(f, k, S, a, step)
<1> DEFINE Good == {j \in 0 .. k : \E f : Iterates(f, j, S, a, step)}
<1>1. 0 \in Good
  <2>1. Iterates([i \in 0 .. 0 |-> a], 0, S, a, step)
    BY DEF Iterates
  <2>2. QED BY <2>1
<1>2. ASSUME NEW i \in 1 .. k, i - 1 \in Good
      PROVE  i \in Good
  <2>1. PICK f : Iterates(f, i - 1, S, a, step)
    BY <1>2
  <2>2. f \in [0 .. (i - 1) -> S] /\ f[0] = a /\ \A j \in 1 .. (i - 1) : f[j] = step[<<j, f[j - 1]>>]
    BY <2>1 DEF Iterates
  <2> DEFINE g == [j \in 0 .. i |-> IF j = i THEN step[<<i, f[i - 1]>>] ELSE f[j]]
  <2>3. f[i - 1] \in S /\ step[<<i, f[i - 1]>>] \in S
    BY <2>2
  <2>4. g \in [0 .. i -> S]
    BY <2>2, <2>3
  <2>5. g[0] = a /\ g[i] = step[<<i, f[i - 1]>>] /\ \A j \in 0 .. (i - 1) : g[j] = f[j]
    BY <2>2
  <2>6. \A j \in 1 .. i : g[j] = step[<<j, g[j - 1]>>]
    <3> HIDE DEF g
    <3>1. SUFFICES ASSUME NEW j \in 1 .. i PROVE g[j] = step[<<j, g[j - 1]>>]
      OBVIOUS
    <3>2. g[j - 1] = f[j - 1]
      BY <2>5
    <3>3. CASE j = i
      BY <3>2, <3>3, <2>5
    <3>4. CASE j # i
      <4>1. j \in 1 .. (i - 1) /\ j \in 0 .. (i - 1)
        BY <3>4
      <4>2. QED BY <4>1, <3>2, <2>5, <2>2
    <3>5. QED BY <3>3, <3>4
  <2> HIDE DEF g
  <2>7. Iterates(g, i, S, a, step)
    BY <2>4, <2>5, <2>6 DEF Iterates
  <2>8. QED BY <2>7
<1>3. k \in Good
  <2> HIDE DEF Good
  <2>1. 0 .. k \subseteq Good
    BY <1>1, <1>2, UpTo
  <2>2. QED BY <2>1
<1>4. QED BY <1>3

\* A list of numbers has an order: the place of each is how many come before it, the
\* smaller ones, and of the equal ones those that stand before it.
LEMMA SomeOrder ==
  ASSUME NEW n \in Nat, NEW names \in [1 .. n -> Nat]
  PROVE  \E p \in Bijection(1 .. n, 1 .. n) :
           \A i, j \in 1 .. n : i < j => names[p[i]] <= names[p[j]]
<1> DEFINE D == 1 .. n
           Less(i, j) == names[i] < names[j] \/ (names[i] = names[j] /\ i < j)
           Before(j) == {i \in D : Less(i, j)}
           rank == [j \in D |-> Cardinality(Before(j)) + 1]
<1>1. IsFiniteSet(D) /\ Cardinality(D) = n
  BY FS_Interval
<1>2. \A j \in D : IsFiniteSet(Before(j)) /\ Cardinality(Before(j)) \in Nat
  <2>1. SUFFICES ASSUME NEW j \in D PROVE IsFiniteSet(Before(j)) /\ Cardinality(Before(j)) \in Nat
    OBVIOUS
  <2>2. Before(j) \in SUBSET D
    OBVIOUS
  <2> HIDE DEF Before, D
  <2>3. QED BY <1>1, <2>2, FS_Subset, FS_CardinalityType
<1>3. ASSUME NEW i \in D, NEW j \in D, Less(i, j)
      PROVE  rank[i] < rank[j]
  <2>1. Before(i) \subseteq Before(j)
    BY <1>3
  <2>2. i \in Before(j) /\ i \notin Before(i)
    BY <1>3
  <2>3. Cardinality(Before(i)) < Cardinality(Before(j))
    <3> HIDE DEF Before, D
    <3>1. /\ IsFiniteSet(Before(i)) /\ IsFiniteSet(Before(j))
          /\ Cardinality(Before(i)) \in Nat /\ Cardinality(Before(j)) \in Nat
      BY <1>2
    <3>2. /\ Cardinality(Before(i)) <= Cardinality(Before(j))
          /\ Cardinality(Before(j)) = Cardinality(Before(i)) => Before(j) = Before(i)
      BY <3>1, <2>1, FS_Subset
    <3>3. QED BY <3>1, <3>2, <2>2
  <2>4. Cardinality(Before(i)) \in Nat /\ Cardinality(Before(j)) \in Nat
    BY <1>2
  <2> HIDE DEF Before
  <2>5. QED BY <2>3, <2>4
<1>4. \A j \in D : rank[j] \in 1 .. n
  <2>1. SUFFICES ASSUME NEW j \in D PROVE Cardinality(Before(j)) + 1 \in 1 .. n
    OBVIOUS
  <2>2. Before(j) \in SUBSET D /\ j \notin Before(j)
    OBVIOUS
  <2>3. Cardinality(Before(j)) <= n /\ (n = Cardinality(Before(j)) => D = Before(j))
    <3> HIDE DEF Before, D
    <3>1. QED BY <1>1, <2>2, FS_Subset
  <2>4. Cardinality(Before(j)) \in Nat
    BY <1>2
  <2> HIDE DEF Before, D
  <2>5. QED BY <2>2, <2>3, <2>4
<1>5. rank \in [D -> D]
  <2> HIDE DEF Before
  <2>1. QED BY <1>4
<1>6. \A i, j \in D : rank[i] = rank[j] => i = j
  <2>1. SUFFICES ASSUME NEW i \in D, NEW j \in D, i # j PROVE rank[i] # rank[j]
    OBVIOUS
  <2>2. Less(i, j) \/ Less(j, i)
    BY <2>1
  <2>3. rank[i] \in D /\ rank[j] \in D
    BY <1>5
  <2> HIDE DEF Less, rank
  <2>4. QED BY <2>2, <2>3, <1>3
<1>7. rank \in Bijection(D, D)
  <2> HIDE DEF rank, D
  <2>1. rank \in Injection(D, D)
    BY <1>5, <1>6, Fun_IsInj
  <2>2. rank \in Surjection(D, D)
    BY <2>1, <1>1, FS_Injection
  <2>3. QED BY <2>1, <2>2, Fun_IsBij
<1> DEFINE p == Inverse(rank, D, D)
<1>8. p \in Bijection(D, D) /\ \A i \in D : p[i] \in D /\ rank[p[i]] = i
  <2> HIDE DEF rank, D
  <2>1. Inverse(rank, D, D) \in Bijection(D, D)
    BY <1>7, Fun_BijInverse
  <2>2. Range(rank) = D
    BY <1>7, Fun_BijectionProperties, Fun_SurjectionProperties
  <2>3. \A i \in D : rank[p[i]] = i
    BY <2>2, <1>5, Fun_InverseProperties
  <2>4. p \in [D -> D]
    BY <2>1, Fun_BijectionProperties
  <2> HIDE DEF p
  <2>5. QED BY <2>1, <2>3, <2>4 DEF p
<1>9. \A i, j \in D : i < j => names[p[i]] <= names[p[j]]
  <2> HIDE DEF p
  <2>1. SUFFICES ASSUME NEW i \in D, NEW j \in D, i < j, names[p[j]] < names[p[i]]
                 PROVE  FALSE
    <3>1. \A i \in D : names[p[i]] \in Nat
      BY <1>8
    <3> HIDE DEF D
    <3>2. QED BY <3>1
  <2>2. p[i] \in D /\ p[j] \in D /\ rank[p[i]] = i /\ rank[p[j]] = j
    BY <1>8
  <2>3. Less(p[j], p[i])
    BY <2>1
  <2> HIDE DEF Less, rank
  <2>4. QED BY <2>1, <2>2, <2>3, <1>3
<1> HIDE DEF p
<1>10. QED BY <1>8, <1>9

\* A list that is sorted has the same elements, each as often as before.
LEMMA SortedIsWhole ==
  ASSUME NEW n \in Nat, NEW names \in [1 .. n -> Nat]
  PROVE  /\ Sorted(names) \in [1 .. n -> Nat] /\ Len(Sorted(names)) = n
         /\ Range(Sorted(names)) = Range(names)
<1> DEFINE Ordered(p) == \A i, j \in DOMAIN names : i < j => names[p[i]] <= names[p[j]]
           order == CHOOSE p \in Bijection(DOMAIN names, DOMAIN names) : Ordered(p)
<1>1. DOMAIN names = 1 .. n
  OBVIOUS
<1>2. \E p \in Bijection(DOMAIN names, DOMAIN names) : Ordered(p)
  BY <1>1, SomeOrder
<1>3. order \in Bijection(1 .. n, 1 .. n)
  <2> HIDE DEF Ordered
  <2>1. QED BY <1>1, <1>2
<1>4. Sorted(names) = [i \in 1 .. n |-> names[order[i]]]
  BY <1>1 DEF Sorted
<1> HIDE DEF order
<1>5. order \in [1 .. n -> 1 .. n] /\ \A t \in 1 .. n : \E s \in 1 .. n : order[s] = t
  BY <1>3 DEF Bijection, Injection, Surjection
<1>6. Sorted(names) \in [1 .. n -> Nat] /\ Len(Sorted(names)) = n
  BY <1>4, <1>5
<1>7. Range(Sorted(names)) \subseteq Range(names)
  BY <1>4, <1>5 DEF Range
<1>8. Range(names) \subseteq Range(Sorted(names))
  <2>1. SUFFICES ASSUME NEW t \in 1 .. n PROVE names[t] \in Range(Sorted(names))
    BY DEF Range
  <2>2. PICK s \in 1 .. n : order[s] = t
    BY <1>5
  <2>3. Sorted(names)[s] = names[t]
    BY <1>4, <2>2
  <2>4. QED BY <2>3, <1>6 DEF Range
<1>9. QED BY <1>6, <1>7, <1>8

-----------------------------------------------------------------------------
(* The walk of a search                                                     *)

\* No element of a sequence comes twice.
Once(s) == \A i, j \in DOMAIN s : s[i] = s[j] => i = j

\* What is appended is the one element more.
LEMMA AppendedOnce ==
  ASSUME NEW S, NEW s \in Seq(S), NEW e \in S, Once(s), e \notin Range(s)
  PROVE  /\ Append(s, e) \in Seq(S) /\ Once(Append(s, e))
         /\ Range(Append(s, e)) = Range(s) \union {e}
<1> DEFINE t == Append(s, e)
<1>1. /\ t \in Seq(S) /\ Len(t) = Len(s) + 1 /\ t[Len(s) + 1] = e
      /\ \A i \in 1 .. Len(s) : t[i] = s[i]
  BY AppendProperties
<1>2. Len(s) \in Nat /\ DOMAIN s = 1 .. Len(s) /\ DOMAIN t = 1 .. Len(s) + 1
  BY <1>1, LenProperties
<1> HIDE DEF t
<1>3. Range(t) = Range(s) \union {e}
  <2>1. \A i \in DOMAIN t : t[i] \in Range(s) \union {e}
    <3>1. SUFFICES ASSUME NEW i \in DOMAIN t PROVE t[i] \in Range(s) \union {e}
      OBVIOUS
    <3>2. i \in DOMAIN s \/ i = Len(s) + 1
      BY <1>2
    <3>3. QED BY <3>2, <1>1, <1>2 DEF Range
  <2>2. \A i \in DOMAIN s : s[i] \in Range(t)
    <3>1. SUFFICES ASSUME NEW i \in DOMAIN s PROVE s[i] \in Range(t)
      OBVIOUS
    <3>2. i \in DOMAIN t /\ t[i] = s[i]
      BY <1>1, <1>2
    <3>3. QED BY <3>2 DEF Range
  <2>3. e \in Range(t)
    <3>1. Len(s) + 1 \in DOMAIN t
      BY <1>2
    <3>2. QED BY <3>1, <1>1 DEF Range
  <2>4. QED BY <2>1, <2>2, <2>3 DEF Range
<1>4. Once(t)
  <2>1. SUFFICES ASSUME NEW i \in DOMAIN t, NEW j \in DOMAIN t, t[i] = t[j] PROVE i = j
    BY DEF Once
  <2>2. \A k \in DOMAIN s : t[k] \in Range(s)
    BY <1>1, <1>2 DEF Range
  <2>3. \A k \in DOMAIN t : k \in DOMAIN s \/ k = Len(s) + 1
    BY <1>2
  <2>4. QED BY <2>1, <2>2, <2>3, <1>1, <1>2 DEF Once
<1>5. QED BY <1>1, <1>3, <1>4 DEF t

\* Two sequences without a common element, one after the other.
LEMMA JoinedOnce ==
  ASSUME NEW S, NEW s \in Seq(S), NEW t \in Seq(S), Once(s), Once(t), Range(s) \intersect Range(t) = {}
  PROVE  /\ s \o t \in Seq(S) /\ Once(s \o t)
         /\ Range(s \o t) = Range(s) \union Range(t)
<1> DEFINE u == s \o t
<1>1. /\ u \in Seq(S) /\ Len(u) = Len(s) + Len(t)
      /\ \A i \in 1 .. Len(s) + Len(t) : u[i] = IF i <= Len(s) THEN s[i] ELSE t[i - Len(s)]
  BY ConcatProperties
<1>2. /\ Len(s) \in Nat /\ DOMAIN s = 1 .. Len(s) /\ Len(t) \in Nat /\ DOMAIN t = 1 .. Len(t)
      /\ DOMAIN u = 1 .. Len(s) + Len(t)
  BY <1>1, LenProperties
<1>3. Range(u) = Range(s) \union Range(t)
  BY RangeConcatenation
<1> HIDE DEF u
<1>4. Once(u)
  <2>1. SUFFICES ASSUME NEW i \in DOMAIN u, NEW j \in DOMAIN u, u[i] = u[j] PROVE i = j
    BY DEF Once
  <2>2. \A k \in DOMAIN u : \/ k \in DOMAIN s /\ u[k] = s[k] /\ u[k] \in Range(s)
                            \/ k \notin DOMAIN s /\ k - Len(s) \in DOMAIN t
                                 /\ u[k] = t[k - Len(s)] /\ u[k] \in Range(t)
    <3>1. SUFFICES ASSUME NEW k \in DOMAIN u
                   PROVE  \/ k \in DOMAIN s /\ u[k] = s[k] /\ u[k] \in Range(s)
                          \/ k \notin DOMAIN s /\ k - Len(s) \in DOMAIN t
                               /\ u[k] = t[k - Len(s)] /\ u[k] \in Range(t)
      OBVIOUS
    <3>2. \/ k \in DOMAIN s /\ u[k] = s[k]
          \/ k \notin DOMAIN s /\ k - Len(s) \in DOMAIN t /\ u[k] = t[k - Len(s)]
      <4>1. CASE k <= Len(s)
        <5>1. k \in 1 .. Len(s) /\ k \in 1 .. Len(s) + Len(t)
          BY <4>1, <1>2
        <5>2. u[k] = s[k]
          BY <5>1, <4>1, <1>1, <1>2
        <5>3. k \in DOMAIN s
          BY <5>1, <1>2
        <5>4. QED BY <5>2, <5>3
      <4>2. CASE ~ (k <= Len(s))
        <5>1. k - Len(s) \in 1 .. Len(t) /\ k \notin 1 .. Len(s)
          BY <4>2, <1>2
        <5>2. QED BY <5>1, <4>2, <1>1, <1>2
      <4>3. QED BY <4>1, <4>2
    <3>3. QED BY <3>2 DEF Range
  <2>3. CASE i \in DOMAIN s /\ j \in DOMAIN s
    BY <2>1, <2>2, <2>3 DEF Once
  <2>4. CASE i \notin DOMAIN s /\ j \notin DOMAIN s
    <3>1. i - Len(s) = j - Len(s)
      BY <2>1, <2>2, <2>4 DEF Once
    <3>2. QED BY <3>1, <1>2
  <2>5. QED BY <2>1, <2>2, <2>3, <2>4
<1>5. QED BY <1>1, <1>3, <1>4 DEF u

\* A walk, whatever it has come to.
WalkRecords(tree, top) ==
  [queue : Seq(Dirs(tree, top)), matches : Seq(Nat \X Nat), scanned : Nat, skipped : Nat,
   cut : BOOLEAN, left : BOOLEAN]

\* A walk that was not cut, when the directories visited are done and the entries known
\* have been seen: each directory that is known was visited or waits, and no two times;
\* and each hit of what was seen was found, and no two times.
Finds(top, w, visited, known) ==
  /\ ~w.cut /\ ~w.left
  /\ Once(w.queue) /\ Range(w.queue) \intersect visited = {}
  /\ visited \union Range(w.queue) = {top} \union DirsOf(known)
  /\ Once(w.matches) /\ Range(w.matches) = HitsOf(known)

\* The lines of a file that are still taken.
Taken(w, e) == AtMost(e.hits, GrepMaxMatches - Len(w.matches))
TakenLines(w, e) == [i \in 1 .. Taken(w, e) |-> <<e.name, i>>]

\* What Scan does: it takes the lines there is room for, and says so when that is not all.
LEMMA ScanSets ==
  ASSUME NEW tree, NEW top, NEW w \in WalkRecords(tree, top), NEW e, IsEntry(e), ~Full(w)
  PROVE  /\ TakenLines(w, e) \in Seq(Nat \X Nat) /\ Once(TakenLines(w, e))
         /\ Range(TakenLines(w, e)) = {<<e.name, i>> : i \in 1 .. Taken(w, e)}
         /\ Scan(w, e) \in WalkRecords(tree, top)
         /\ Scan(w, e).queue = w.queue /\ Scan(w, e).left = w.left
         /\ Scan(w, e).matches = w.matches \o TakenLines(w, e)
         /\ w.cut => Scan(w, e).cut
         /\ ~Scan(w, e).cut => Taken(w, e) = e.hits
<1> DEFINE n == Taken(w, e)
           lines == TakenLines(w, e)
<1>1. w.matches \in Seq(Nat \X Nat) /\ Len(w.matches) \in Nat /\ w.scanned \in Nat /\ w.cut \in BOOLEAN
  BY LenProperties DEF WalkRecords
<1>2. GrepMaxMatches \in Nat \ {0} /\ e.hits \in Nat /\ e.name \in Nat
  BY ToolCapsArePositive DEF IsEntry
<1>3. Len(w.matches) < GrepMaxMatches
  <2>1. ~ (Len(w.matches) >= GrepMaxMatches)
    BY DEF Full
  <2>2. QED BY <2>1, <1>1, <1>2
<1>4. n \in Nat /\ n <= e.hits /\ (Len(w.matches) + n < GrepMaxMatches => n = e.hits)
  BY <1>1, <1>2, <1>3 DEF AtMost, Taken
<1>5. lines = [i \in 1 .. n |-> <<e.name, i>>]
  BY DEF TakenLines
<1>6. lines \in Seq(Nat \X Nat) /\ DOMAIN lines = 1 .. n
  <2> HIDE DEF n, lines
  <2>1. QED BY <1>4, <1>2, <1>5
<1>7. Once(lines) /\ Range(lines) = {<<e.name, i>> : i \in 1 .. n}
  <2> HIDE DEF n, lines
  <2>1. QED BY <1>5 DEF Once, Range
<1> HIDE DEF lines
<1>8. w.matches \o lines \in Seq(Nat \X Nat)
  BY <1>1, <1>6, ConcatProperties
<1> DEFINE all == w.matches \o lines
           cut == w.cut \/ Len(w.matches) + n >= GrepMaxMatches
<1>9. Scan(w, e) = [w EXCEPT !.matches = all, !.scanned = w.scanned + 1, !.cut = cut]
  BY DEF Scan, lines, TakenLines, Taken
<1>10. cut \in BOOLEAN /\ (w.cut => cut) /\ (~cut => n = e.hits)
  <2> HIDE DEF n
  <2>1. cut \in BOOLEAN
    OBVIOUS
  <2>2. ~cut => Len(w.matches) + n < GrepMaxMatches
    BY <1>1, <1>2, <1>4
  <2>3. QED BY <2>1, <2>2, <1>4
<1>11. all \in Seq(Nat \X Nat)
  BY <1>8
<1> HIDE DEF n, all, cut
<1>12. /\ Scan(w, e) \in WalkRecords(tree, top)
       /\ Scan(w, e).queue = w.queue /\ Scan(w, e).left = w.left
       /\ Scan(w, e).matches = all /\ Scan(w, e).cut = cut
  <2> DEFINE count == w.scanned + 1
  <2>1. count \in Nat
    BY <1>1
  <2> HIDE DEF count
  <2>2. Scan(w, e) = [w EXCEPT !.matches = all, !.scanned = count, !.cut = cut]
    BY <1>9 DEF count
  <2>3. QED BY <1>10, <1>11, <2>1, <2>2 DEF WalkRecords
<1>13. QED BY <1>4, <1>6, <1>7, <1>10, <1>12 DEF n, lines, all

Readable(e) == ~e.denied /\ e.kind = "file" /\ ~e.big /\ e.text
LinesOf(e) == {<<e.name, i>> : i \in 1 .. e.hits}

\* What one entry more adds to the directories and to the hits.
LEMMA OneMore ==
  ASSUME NEW known, NEW e
  PROVE  /\ ~e.denied /\ e.kind = "dir" => DirsOf(known \union {e}) = DirsOf(known) \union {e.dir}
         /\ ~ (~e.denied /\ e.kind = "dir") => DirsOf(known \union {e}) = DirsOf(known)
         /\ Readable(e) => HitsOf(known \union {e}) = HitsOf(known) \union LinesOf(e)
         /\ ~ Readable(e) => HitsOf(known \union {e}) = HitsOf(known)
<1>1. ~e.denied /\ e.kind = "dir" => DirsOf(known \union {e}) = DirsOf(known) \union {e.dir}
  BY DEF DirsOf
<1>2. ~ (~e.denied /\ e.kind = "dir") => DirsOf(known \union {e}) = DirsOf(known)
  BY DEF DirsOf
<1>3. \A k : \A l : l \in HitsOf(k) <=> \E f \in k : Readable(f) /\ l \in LinesOf(f)
  BY DEF HitsOf, Readable, LinesOf
<1>4. Readable(e) => HitsOf(known \union {e}) = HitsOf(known) \union LinesOf(e)
  BY <1>3
<1>5. ~ Readable(e) => HitsOf(known \union {e}) = HitsOf(known)
  <2>1. SUFFICES ASSUME ~ Readable(e), NEW l
                 PROVE  l \in HitsOf(known \union {e}) <=> l \in HitsOf(known)
    OBVIOUS
  <2>2. QED BY <1>3, <2>1
<1>6. QED BY <1>1, <1>2, <1>4, <1>5

\* In a tree an entry that is new has a name, and leads to a directory, that is new.
LEMMA NewIsNew ==
  ASSUME NEW tree, NEW top, IsTree(tree, top), NEW known, known \subseteq Within(tree),
         NEW e \in Within(tree), e \notin known
  PROVE  /\ IsEntry(e)
         /\ LinesOf(e) \intersect HitsOf(known) = {}
         /\ e.kind = "dir" => e.dir \notin {top} \union DirsOf(known)
         /\ e.kind = "dir" /\ ~e.denied => e.dir \in Dirs(tree, top)
<1>1. IsEntry(e)
  BY DEF IsTree
<1>2. ASSUME NEW f \in known, f.name = e.name
      PROVE  FALSE
  <2>1. PICK d \in DOMAIN tree : \E i \in DOMAIN tree[d] : tree[d][i] = f
    BY DEF Within, Range
  <2>2. PICK c \in DOMAIN tree : \E j \in DOMAIN tree[c] : tree[c][j] = e
    BY DEF Within, Range
  <2>3. PICK i \in DOMAIN tree[d], j \in DOMAIN tree[c] : tree[d][i] = f /\ tree[c][j] = e
    BY <2>1, <2>2
  <2>4. d = c /\ i = j
    BY <2>3, <1>2 DEF IsTree
  <2>5. QED BY <2>3, <2>4
<1>3. LinesOf(e) \intersect HitsOf(known) = {}
  <2>1. \A l \in LinesOf(e) : l[1] = e.name
    BY DEF LinesOf
  <2>2. \A l \in HitsOf(known) : \E f \in known : l[1] = f.name
    BY DEF HitsOf
  <2>3. QED BY <2>1, <2>2, <1>2
<1>4. e.kind = "dir" => e.dir \notin {top} \union DirsOf(known)
  <2>1. SUFFICES ASSUME e.kind = "dir" PROVE e.dir # top /\ e.dir \notin DirsOf(known)
    OBVIOUS
  <2>2. e.dir # top
    BY <2>1 DEF IsTree
  <2>3. ASSUME NEW f \in known, f.kind = "dir", f.dir = e.dir PROVE FALSE
    <3>1. f = e
      BY <2>1, <2>3 DEF IsTree
    <3>2. QED BY <3>1
  <2>4. QED BY <2>2, <2>3 DEF DirsOf
<1>5. e.kind = "dir" /\ ~e.denied => e.dir \in Dirs(tree, top)
  BY DEF Dirs, DirsOf
<1>6. QED BY <1>1, <1>3, <1>4, <1>5

\* One entry visited: what was found is what is known, the entry with it.
LEMMA VisitFinds ==
  ASSUME NEW tree, NEW top, IsTree(tree, top), NEW cfg,
         NEW w \in WalkRecords(tree, top), NEW e \in Within(tree)
  PROVE  /\ Visit(cfg, w, e) \in WalkRecords(tree, top)
         /\ w.cut => Visit(cfg, w, e).cut
         /\ \A visited, known :
              /\ known \subseteq Within(tree) /\ e \notin known
              /\ Finds(top, w, visited, known) /\ ~Visit(cfg, w, e).cut
              => Finds(top, Visit(cfg, w, e), visited, known \union {e})
<1> DEFINE v == Visit(cfg, w, e)
           Goal == /\ v \in WalkRecords(tree, top)
                   /\ w.cut => v.cut
                   /\ \A visited, known :
                        /\ known \subseteq Within(tree) /\ e \notin known
                        /\ Finds(top, w, visited, known) /\ ~v.cut
                        => Finds(top, v, visited, known \union {e})
<1>0. SUFFICES Goal
  OBVIOUS
<1>1. IsEntry(e) /\ w.left \in BOOLEAN /\ w.cut \in BOOLEAN
  BY DEF IsTree, WalkRecords
<1>2. e.denied \in BOOLEAN /\ e.big \in BOOLEAN /\ e.text \in BOOLEAN /\ e.kind \in {"file", "dir", "link", "other"}
  BY <1>1 DEF IsEntry
\* An entry that adds nothing.
<1>3. ASSUME v \in WalkRecords(tree, top), v.cut = w.cut, v.left = w.left,
             v.queue = w.queue, v.matches = w.matches,
             ~ (~e.denied /\ e.kind = "dir"), ~ Readable(e)
      PROVE  Goal
  <2>1. \A known : DirsOf(known \union {e}) = DirsOf(known) /\ HitsOf(known \union {e}) = HitsOf(known)
    BY <1>3, OneMore
  <2> HIDE DEF v
  <2>2. QED BY <1>3, <2>1 DEF Finds
<1>4. Skip(w) \in WalkRecords(tree, top) /\ Skip(w).cut = w.cut /\ Skip(w).left = w.left
      /\ Skip(w).queue = w.queue /\ Skip(w).matches = w.matches
  <2> DEFINE count == w.skipped + 1
  <2>1. count \in Nat
    BY DEF WalkRecords
  <2>2. Skip(w) = [w EXCEPT !.skipped = count]
    BY DEF Skip
  <2> HIDE DEF count
  <2>3. QED BY <2>1, <2>2 DEF WalkRecords
<1>5. CASE w.left
  <2>1. v = w
    BY <1>5 DEF Visit
  <2> HIDE DEF v
  <2>2. QED BY <2>1, <1>5 DEF Finds
<1>6. CASE ~w.left /\ Full(w)
  <2>1. v = [w EXCEPT !.cut = TRUE, !.left = TRUE]
    BY <1>6 DEF Visit
  <2> HIDE DEF v
  <2>2. v \in WalkRecords(tree, top) /\ v.cut
    BY <2>1 DEF WalkRecords
  <2>3. QED BY <2>2
<1>7. CASE ~w.left /\ ~Full(w) /\ e.denied
  <2>1. v = Skip(w)
    BY <1>7 DEF Visit
  <2> HIDE DEF v
  <2>2. ~ Readable(e)
    BY <1>7 DEF Readable
  <2>3. QED BY <2>1, <2>2, <1>3, <1>4, <1>7
<1>8. CASE ~w.left /\ ~Full(w) /\ ~e.denied /\ e.kind \in {"link", "other"}
  <2>1. v = w \/ v = Skip(w)
    BY <1>8 DEF Visit
  <2> HIDE DEF v
  <2>2. ~ Readable(e)
    BY <1>8 DEF Readable
  <2>3. QED BY <2>1, <2>2, <1>3, <1>4, <1>8
<1>9. CASE ~w.left /\ ~Full(w) /\ ~e.denied /\ e.kind = "file" /\ (e.big \/ ~e.text)
  <2>1. v = Skip(w)
    BY <1>9 DEF Visit
  <2> HIDE DEF v
  <2>2. ~ Readable(e)
    BY <1>9 DEF Readable
  <2>3. QED BY <2>1, <2>2, <1>3, <1>4, <1>9
<1>10. CASE ~w.left /\ ~Full(w) /\ ~e.denied /\ e.kind = "dir"
  <2>1. v = [w EXCEPT !.queue = Append(w.queue, e.dir)]
    BY <1>10 DEF Visit
  <2> HIDE DEF v
  <2>2. e.dir \in Dirs(tree, top)
    BY <1>10 DEF Dirs, DirsOf
  <2>3. w.queue \in Seq(Dirs(tree, top))
    BY DEF WalkRecords
  <2>4. Append(w.queue, e.dir) \in Seq(Dirs(tree, top))
    BY <2>2, <2>3, AppendProperties
  <2> DEFINE longer == Append(w.queue, e.dir)
  <2>5. longer \in Seq(Dirs(tree, top)) /\ v = [w EXCEPT !.queue = longer]
    BY <2>1, <2>4
  <2> HIDE DEF longer
  <2>6. /\ v \in WalkRecords(tree, top) /\ v.cut = w.cut /\ v.left = w.left
        /\ v.queue = longer /\ v.matches = w.matches
    BY <2>5 DEF WalkRecords
  <2>7. ASSUME NEW visited, NEW known, known \subseteq Within(tree), e \notin known,
               Finds(top, w, visited, known), ~v.cut
        PROVE  Finds(top, v, visited, known \union {e})
    <3>1. e.dir \notin {top} \union DirsOf(known)
      BY <2>7, <1>10, NewIsNew
    <3>2. e.dir \notin visited /\ e.dir \notin Range(w.queue)
      BY <3>1, <2>7 DEF Finds
    <3>3. Once(w.queue)
      BY <2>7 DEF Finds
    <3>4. Once(longer) /\ Range(longer) = Range(w.queue) \union {e.dir}
      BY <2>2, <2>3, <3>2, <3>3, AppendedOnce DEF longer
    <3>5. DirsOf(known \union {e}) = DirsOf(known) \union {e.dir} /\ HitsOf(known \union {e}) = HitsOf(known)
      <4>1. ~ Readable(e)
        BY <1>10 DEF Readable
      <4>2. QED BY <4>1, <1>10, OneMore
    <3>6. QED BY <2>6, <2>7, <3>2, <3>4, <3>5 DEF Finds
  <2>8. QED BY <2>6, <2>7
<1>11. CASE ~w.left /\ ~Full(w) /\ ~e.denied /\ e.kind = "file" /\ ~ (e.big \/ ~e.text)
  <2>1. v = Scan(w, e)
    BY <1>11 DEF Visit
  <2> DEFINE n == Taken(w, e)
             lines == TakenLines(w, e)
  <2>2. /\ lines \in Seq(Nat \X Nat) /\ Once(lines)
        /\ Range(lines) = {<<e.name, i>> : i \in 1 .. n}
        /\ v \in WalkRecords(tree, top) /\ v.queue = w.queue /\ v.left = w.left
        /\ v.matches = w.matches \o lines
        /\ w.cut => v.cut
        /\ ~v.cut => n = e.hits
    BY <2>1, <1>1, <1>11, ScanSets
  <2> HIDE DEF v, n, lines
  <2>3. ASSUME NEW visited, NEW known, known \subseteq Within(tree), e \notin known,
               Finds(top, w, visited, known), ~v.cut
        PROVE  Finds(top, v, visited, known \union {e})
    <3>1. Range(lines) = LinesOf(e)
      BY <2>2, <2>3 DEF LinesOf
    <3>2. LinesOf(e) \intersect HitsOf(known) = {}
      BY <2>3, NewIsNew
    <3>3. Once(w.matches) /\ Range(w.matches) = HitsOf(known) /\ w.matches \in Seq(Nat \X Nat)
      BY <2>3 DEF Finds, WalkRecords
    <3>4. Range(w.matches) \intersect Range(lines) = {}
      BY <3>1, <3>2, <3>3
    <3>5. Once(v.matches) /\ Range(v.matches) = HitsOf(known) \union LinesOf(e)
      BY <2>2, <3>1, <3>3, <3>4, JoinedOnce
    <3>6. DirsOf(known \union {e}) = DirsOf(known) /\ HitsOf(known \union {e}) = HitsOf(known) \union LinesOf(e)
      <4>1. Readable(e)
        BY <1>11 DEF Readable
      <4>2. QED BY <4>1, <1>11, OneMore
    <3>7. QED BY <2>2, <2>3, <3>5, <3>6 DEF Finds
  <2>4. QED BY <2>2, <2>3
<1>12. QED BY <1>1, <1>2, <1>5, <1>6, <1>7, <1>8, <1>9, <1>10, <1>11

\* What Visits is: the recursion that defines it does define a function.
LEMMA VisitsAre ==
  ASSUME NEW tree, NEW top, IsTree(tree, top), NEW cfg,
         NEW w \in WalkRecords(tree, top), NEW entries \in Seq(Within(tree))
  PROVE  /\ Visits(cfg, w, entries) \in [0 .. Len(entries) -> WalkRecords(tree, top)]
         /\ Visits(cfg, w, entries)[0] = w
         /\ \A i \in 1 .. Len(entries) :
              Visits(cfg, w, entries)[i] = Visit(cfg, Visits(cfg, w, entries)[i - 1], entries[i])
<1> DEFINE k == Len(entries)
           S == WalkRecords(tree, top)
           step == [p \in (1 .. k) \X S |-> Visit(cfg, p[2], entries[p[1]])]
<1>1. k \in Nat /\ \A i \in 1 .. k : entries[i] \in Within(tree)
  BY LenProperties, ElementOfSeq
<1>2. \A i \in 1 .. k : \A x \in S : Visit(cfg, x, entries[i]) \in S
  BY <1>1, VisitFinds
<1> HIDE DEF k, S
<1>3. step \in [(1 .. k) \X S -> S]
  BY <1>2
<1>4. \A i \in 1 .. k : \A x \in S : step[<<i, x>>] = Visit(cfg, x, entries[i])
  OBVIOUS
<1>5. w \in S
  BY DEF S
<1> HIDE DEF step
<1>6. PICK f : Iterates(f, k, S, w, step)
  BY <1>1, <1>3, <1>5, SomeIterates
<1>7. \A i \in 1 .. k : f[i] = Visit(cfg, f[i - 1], entries[i])
  <2>1. \A i \in 1 .. k : f[i - 1] \in S
    BY <1>1, <1>6 DEF Iterates
  <2>2. QED BY <2>1, <1>4, <1>6 DEF Iterates
<1>8. f = [i \in 0 .. k |-> IF i = 0 THEN w ELSE Visit(cfg, f[i - 1], entries[i])]
  <2>1. \A i \in 0 .. k : f[i] = IF i = 0 THEN w ELSE Visit(cfg, f[i - 1], entries[i])
    <3>1. \A i \in 0 .. k : i = 0 \/ i \in 1 .. k
      BY <1>1
    <3>2. \A i \in 1 .. k : i # 0
      OBVIOUS
    <3>3. QED BY <3>1, <3>2, <1>6, <1>7 DEF Iterates
  <2>2. QED BY <2>1, <1>6 DEF Iterates
<1>9. /\ Visits(cfg, w, entries)
           = [i \in 0 .. k |-> IF i = 0 THEN w ELSE Visit(cfg, Visits(cfg, w, entries)[i - 1], entries[i])]
  <2>1. \E g : g = [i \in 0 .. Len(entries) |-> IF i = 0 THEN w ELSE Visit(cfg, g[i - 1], entries[i])]
    BY <1>8 DEF k
  <2>2. QED BY Zenon, <2>1 DEF Visits, k
<1> DEFINE v == Visits(cfg, w, entries)
<1> HIDE DEF v
<1>10. v = [i \in 0 .. k |-> IF i = 0 THEN w ELSE Visit(cfg, v[i - 1], entries[i])]
  BY <1>9 DEF v
<1>11. /\ DOMAIN v = 0 .. k /\ v[0] = w
       /\ \A i \in 1 .. k : v[i] = Visit(cfg, v[i - 1], entries[i])
  <2>1. DOMAIN v = 0 .. k
    BY <1>10
  <2>2. v[0] = w
    BY <1>10, <1>1
  <2>3. \A i \in 1 .. k : i \in 0 .. k /\ i # 0
    BY <1>1
  <2>4. QED BY <1>10, <2>1, <2>2, <2>3
<1>12. \A i \in 0 .. k : v[i] \in S
  <2> DEFINE Good == {i \in 0 .. k : v[i] \in S}
  <2>1. 0 \in Good
    BY <1>1, <1>5, <1>11
  <2>2. \A i \in 1 .. k : i - 1 \in Good => i \in Good
    BY <1>1, <1>2, <1>11
  <2> HIDE DEF Good
  <2>3. 0 .. k \subseteq Good
    BY <2>1, <2>2, <1>1, UpTo
  <2>4. QED BY <2>3 DEF Good
<1>13. v = [i \in 0 .. k |-> v[i]]
  BY <1>10
<1>14. v \in [0 .. k -> S]
  BY <1>12, <1>13
<1>15. QED BY <1>11, <1>14 DEF v, k, S

\* A whole directory visited.
LEMMA VisitsFind ==
  ASSUME NEW tree, NEW top, IsTree(tree, top), NEW cfg,
         NEW w \in WalkRecords(tree, top), NEW entries \in Seq(Within(tree)), Once(entries)
  PROVE  LET v == Visits(cfg, w, entries)[Len(entries)]
         IN  /\ v \in WalkRecords(tree, top)
             /\ w.cut => v.cut
             /\ \A visited, known :
                  /\ known \subseteq Within(tree) /\ known \intersect Range(entries) = {}
                  /\ Finds(top, w, visited, known) /\ ~v.cut
                  => Finds(top, v, visited, known \union Range(entries))
<1> DEFINE k == Len(entries)
           S == WalkRecords(tree, top)
           v == Visits(cfg, w, entries)
           seen(i) == {entries[j] : j \in 1 .. i}
<1>1. k \in Nat /\ DOMAIN entries = 1 .. k /\ \A i \in 1 .. k : entries[i] \in Within(tree)
  BY LenProperties, ElementOfSeq
<1>2. /\ \A i \in 0 .. k : v[i] \in S
      /\ v[0] = w /\ \A i \in 1 .. k : v[i] = Visit(cfg, v[i - 1], entries[i])
  <2>1. v \in [0 .. k -> S]
    BY VisitsAre
  <2>2. v[0] = w
    BY VisitsAre
  <2>3. \A i \in 1 .. k : v[i] = Visit(cfg, v[i - 1], entries[i])
    BY VisitsAre
  <2> HIDE DEF v, k, S
  <2>4. QED BY <2>1, <2>2, <2>3
<1>3. seen(0) = {} /\ seen(k) = Range(entries)
  BY <1>1 DEF Range
<1>4. \A i \in 1 .. k : i - 1 \in 0 .. k /\ seen(i) = seen(i - 1) \union {entries[i]} /\ entries[i] \notin seen(i - 1)
  <2>1. SUFFICES ASSUME NEW i \in 1 .. k
                 PROVE  /\ i - 1 \in 0 .. k
                        /\ seen(i) = seen(i - 1) \union {entries[i]} /\ entries[i] \notin seen(i - 1)
    OBVIOUS
  <2>2. i - 1 \in 0 .. k /\ 1 .. i = (1 .. (i - 1)) \union {i} /\ i \notin 1 .. (i - 1)
    BY <1>1
  <2>3. seen(i) = seen(i - 1) \union {entries[i]}
    BY <2>2
  <2>4. \A j \in 1 .. (i - 1) : j \in DOMAIN entries /\ j # i
    BY <1>1
  <2>5. entries[i] \notin seen(i - 1)
    BY <2>4, <1>1 DEF Once
  <2>6. QED BY <2>2, <2>3, <2>5
<1>5. \A i \in 1 .. k : v[i - 1].cut => v[i].cut
  <2>1. SUFFICES ASSUME NEW i \in 1 .. k, v[i - 1].cut PROVE v[i].cut
    OBVIOUS
  <2>2. v[i - 1] \in S /\ v[i] = Visit(cfg, v[i - 1], entries[i]) /\ entries[i] \in Within(tree)
    BY <1>1, <1>2, <1>4
  <2> HIDE DEF v
  <2>3. Visit(cfg, v[i - 1], entries[i]).cut
    BY <2>1, <2>2, VisitFinds
  <2>4. QED BY <2>2, <2>3
<1>6. w.cut => v[k].cut
  <2>1. SUFFICES ASSUME w.cut PROVE v[k].cut
    OBVIOUS
  <2> DEFINE Good == {i \in 0 .. k : v[i].cut}
  <2>2. 0 \in Good
    BY <2>1, <1>1, <1>2
  <2>3. \A i \in 1 .. k : i - 1 \in Good => i \in Good
    BY <1>1, <1>5
  <2> HIDE DEF Good
  <2>4. 0 .. k \subseteq Good
    BY <2>2, <2>3, <1>1, UpTo
  <2>5. QED BY <2>4, <1>1 DEF Good
<1>7. ASSUME NEW visited, NEW known,
             known \subseteq Within(tree), known \intersect Range(entries) = {},
             Finds(top, w, visited, known)
      PROVE  v[k].cut \/ Finds(top, v[k], visited, known \union Range(entries))
  <2> DEFINE Good == {i \in 0 .. k : v[i].cut \/ Finds(top, v[i], visited, known \union seen(i))}
  <2>1. 0 \in Good
    <3>1. known \union seen(0) = known
      BY <1>3
    <3>2. 0 \in 0 .. k /\ v[0] = w
      BY <1>1, <1>2
    <3> HIDE DEF seen, v, k
    <3>3. Finds(top, v[0], visited, known \union seen(0))
      BY <3>1, <3>2, <1>7
    <3>4. QED BY <3>2, <3>3
  <2>2. ASSUME NEW i \in 1 .. k, i - 1 \in Good
        PROVE  i \in Good
    <3> DEFINE before == known \union seen(i - 1)
    <3>1. before \subseteq Within(tree)
      <4>1. \A j \in 1 .. (i - 1) : j \in 1 .. k
        BY <1>1
      <4>2. QED BY <4>1, <1>1, <1>7
    <3>2. entries[i] \notin before
      <4>1. entries[i] \in Range(entries)
        BY <1>1 DEF Range
      <4>2. QED BY <4>1, <1>4, <1>7
    <3>3. known \union seen(i) = before \union {entries[i]}
      BY <1>4
    <3>4. CASE v[i - 1].cut
      BY <3>4, <1>5
    <3>5. CASE Finds(top, v[i - 1], visited, before)
      <4>1. v[i - 1] \in S /\ v[i] = Visit(cfg, v[i - 1], entries[i]) /\ v[i].cut \in BOOLEAN
        BY <1>1, <1>2, <1>4 DEF WalkRecords
      <4> HIDE DEF v, before, seen
      <4> DEFINE x == v[i - 1]
                 e == entries[i]
      <4>2. x \in WalkRecords(tree, top) /\ e \in Within(tree) /\ e \notin before /\ Finds(top, x, visited, before)
        BY <4>1, <3>2, <3>5, <1>1
      <4> HIDE DEF x, e
      <4>3. ~Visit(cfg, x, e).cut => Finds(top, Visit(cfg, x, e), visited, before \union {e})
        BY <4>2, <3>1, VisitFinds
      <4>4. v[i].cut \/ Finds(top, v[i], visited, before \union {entries[i]})
        BY <4>1, <4>3 DEF x, e
      <4>5. i \in 0 .. k
        BY <1>1
      <4>6. QED BY <4>4, <4>5, <3>3
    <3> HIDE DEF v, seen
    <3>6. QED BY <2>2, <3>4, <3>5
  <2> HIDE DEF Good
  <2>3. 0 .. k \subseteq Good
    BY <2>1, <2>2, <1>1, UpTo
  <2>4. k \in Good
    BY <2>3, <1>1
  <2>5. v[k].cut \/ Finds(top, v[k], visited, known \union seen(k))
    BY <2>4 DEF Good
  <2>6. QED BY <2>5, <1>3
<1>8. v[k] \in S
  BY <1>1, <1>2
<1>9. QED BY <1>6, <1>7, <1>8

\* The last of a sequence taken off.
LEMMA TakenOff ==
  ASSUME NEW S, NEW s \in Seq(S), s # << >>, Once(s)
  PROVE  /\ Last(s) \in S /\ Last(s) \in Range(s)
         /\ Front(s) \in Seq(S) /\ Once(Front(s))
         /\ Range(Front(s)) = Range(s) \ {Last(s)}
<1>1. Len(s) \in Nat \ {0} /\ DOMAIN s = 1 .. Len(s)
  BY EmptySeq, LenProperties
<1> DEFINE n == Len(s) - 1
           t == Front(s)
<1>2. n \in Nat /\ 1 .. Len(s) = (1 .. n) \union {Len(s)} /\ Len(s) \notin 1 .. n
  BY <1>1
<1>3. t = SubSeq(s, 1, n)
  BY DEF Front
<1>4. \A i \in 1 .. n : s[i] \in S
  BY <1>2, ElementOfSeq
<1>5. t \in Seq(S) /\ Len(t) = n /\ \A i \in 1 .. n : t[i] = s[i]
  <2> HIDE DEF t, n
  <2>1. /\ SubSeq(s, 1, n) \in Seq(S) /\ Len(SubSeq(s, 1, n)) = (IF 1 <= n THEN n - 1 + 1 ELSE 0)
        /\ \A i \in 1 .. n - 1 + 1 : SubSeq(s, 1, n)[i] = s[1 + i - 1]
    BY <1>2, <1>4, SubSeqProperties
  <2>2. n - 1 + 1 = n /\ (~ (1 <= n) => n = 0) /\ \A i \in 1 .. n : 1 + i - 1 = i
    BY <1>2
  <2>3. QED BY <1>3, <2>1, <2>2
<1>6. DOMAIN t = 1 .. n
  BY <1>5, LenProperties
<1>7. Last(s) = s[Len(s)] /\ Last(s) \in S /\ Last(s) \in Range(s)
  BY <1>1, ElementOfSeq DEF Last, Range
<1> HIDE DEF n, t
<1>8. Once(t)
  BY <1>1, <1>2, <1>5, <1>6 DEF Once
<1>9. Range(t) = Range(s) \ {Last(s)}
  <2>1. Range(t) = {s[i] : i \in 1 .. n}
    BY <1>5, <1>6 DEF Range
  <2>2. Range(s) = {s[i] : i \in 1 .. n} \union {s[Len(s)]}
    BY <1>1, <1>2 DEF Range
  <2>3. \A i \in 1 .. n : s[i] # s[Len(s)]
    BY <1>1, <1>2 DEF Once
  <2>4. QED BY <2>1, <2>2, <2>3, <1>7
<1>10. QED BY <1>5, <1>7, <1>8, <1>9 DEF t

\* What the searched directories lead to is searched, and nothing else needs to be.
LEMMA SearchedIsLeast ==
  ASSUME NEW tree, NEW top
  PROVE  /\ Searched(tree, top) \subseteq Dirs(tree, top)
         /\ \A ds \in SUBSET Searched(tree, top) :
              {top} \union DirsOf(Held(tree, ds)) \subseteq Searched(tree, top)
         /\ \A ds \in SUBSET Dirs(tree, top) :
              {top} \union DirsOf(Held(tree, ds)) \subseteq ds => Searched(tree, top) \subseteq ds
<1>1. \A a, b : a \subseteq b => DirsOf(Held(tree, a)) \subseteq DirsOf(Held(tree, b))
  <2>1. \A a, b : a \subseteq b => Held(tree, a) \subseteq Held(tree, b)
    BY DEF Held
  <2>2. \A a, b : a \subseteq b => DirsOf(a) \subseteq DirsOf(b)
    BY DEF DirsOf
  <2>3. QED BY <2>1, <2>2
<1>2. \A a : {top} \union DirsOf(Held(tree, a)) \subseteq Dirs(tree, top)
  <2>1. \A a : Held(tree, a) \subseteq Within(tree)
    BY DEF Held, Within
  <2>2. QED BY <2>1 DEF Dirs, DirsOf
<1>3. ASSUME NEW ds \in SUBSET Searched(tree, top)
      PROVE  {top} \union DirsOf(Held(tree, ds)) \subseteq Searched(tree, top)
  <2>1. SUFFICES ASSUME NEW d \in {top} \union DirsOf(Held(tree, ds)),
                        NEW c \in SUBSET Dirs(tree, top), Closed(tree, top, c)
                 PROVE  d \in c
    BY <1>2 DEF Searched
  <2>2. ds \subseteq c
    BY <2>1 DEF Searched
  <2>3. DirsOf(Held(tree, ds)) \subseteq DirsOf(Held(tree, c))
    BY <1>1, <2>2
  <2>4. QED BY <2>1, <2>3 DEF Closed
<1>4. QED BY <1>3 DEF Searched, Closed

\* A walk after n directories: some of those to search are done, n of them unless none
\* is left, and what they hold is what was seen.
Wanders(tree, top, w, n) ==
  \/ w.cut
  \/ \E visited \in SUBSET Searched(tree, top) :
       /\ IsFiniteSet(visited)
       /\ Finds(top, w, visited, Held(tree, visited))
       /\ w.queue = << >> \/ Cardinality(visited) = n

LEMMA WalkOneFinds ==
  ASSUME NEW tree, NEW top, IsTree(tree, top), NEW cfg,
         NEW w \in WalkRecords(tree, top), NEW n \in Nat, Wanders(tree, top, w, n)
  PROVE  /\ WalkOne(cfg, tree, w) \in WalkRecords(tree, top)
         /\ Wanders(tree, top, WalkOne(cfg, tree, w), n + 1)
<1> DEFINE new == WalkOne(cfg, tree, w)
           d == Last(w.queue)
           rest == [w EXCEPT !.queue = Front(w.queue), !.left = FALSE]
<1>1. w.queue \in Seq(Dirs(tree, top)) /\ w.cut \in BOOLEAN
  BY DEF WalkRecords
<1>2. CASE w.queue = << >>
  <2>1. new = w
    BY <1>2 DEF WalkOne
  <2>2. QED BY <2>1, <1>2 DEF Wanders
<1>3. CASE w.queue # << >> /\ Full(w)
  <2>1. new = [w EXCEPT !.queue = << >>, !.cut = TRUE]
    BY <1>3 DEF WalkOne
  <2> HIDE DEF new
  <2>2. << >> \in Seq(Dirs(tree, top))
    BY EmptySeq
  <2>3. new \in WalkRecords(tree, top) /\ new.cut
    BY <2>1, <2>2 DEF WalkRecords
  <2>4. QED BY <2>3 DEF Wanders, new
<1>4. CASE w.queue # << >> /\ ~Full(w)
  <2>1. new = IF d \notin DOMAIN tree THEN rest ELSE Visits(cfg, rest, tree[d])[Len(tree[d])]
    BY <1>4 DEF WalkOne
  <2>2. Front(w.queue) \in Seq(Dirs(tree, top))
    <3>1. Len(w.queue) \in Nat /\ \A i \in 1 .. Len(w.queue) - 1 : w.queue[i] \in Dirs(tree, top)
      <4>1. Len(w.queue) \in Nat
        BY <1>1, LenProperties
      <4>2. \A i \in 1 .. Len(w.queue) - 1 : i \in 1 .. Len(w.queue)
        BY <4>1
      <4>3. QED BY <1>1, <4>1, <4>2, ElementOfSeq
    <3>2. QED BY <3>1, SubSeqProperties DEF Front
  <2> DEFINE front == Front(w.queue)
  <2>3. rest = [w EXCEPT !.queue = front, !.left = FALSE]
    OBVIOUS
  <2>4. /\ rest \in WalkRecords(tree, top) /\ rest.cut = w.cut /\ ~rest.left
        /\ rest.queue = front /\ rest.matches = w.matches
    <3> HIDE DEF rest, front
    <3>1. front \in Seq(Dirs(tree, top))
      BY <2>2 DEF front
    <3>2. QED BY <2>3, <3>1 DEF WalkRecords
  <2> HIDE DEF rest, new, d
  <2>5. ASSUME d \in DOMAIN tree
        PROVE  /\ tree[d] \in Seq(Within(tree)) /\ Once(tree[d])
               /\ Range(tree[d]) \subseteq Within(tree)
               /\ \A ds : d \notin ds => Held(tree, ds) \intersect Range(tree[d]) = {}
    <3>1. tree[d] \in Seq(Within(tree)) /\ Once(tree[d])
      BY <2>5 DEF IsTree, Once
    <3>2. Range(tree[d]) \subseteq Within(tree)
      BY <2>5 DEF Within
    <3>3. ASSUME NEW ds, d \notin ds, NEW e \in Held(tree, ds), e \in Range(tree[d])
          PROVE  FALSE
      <4>1. PICK f \in ds \intersect DOMAIN tree : e \in Range(tree[f])
        BY <3>3 DEF Held
      <4>2. PICK i \in DOMAIN tree[f] : tree[f][i] = e
        BY <4>1 DEF Range
      <4>3. PICK j \in DOMAIN tree[d] : tree[d][j] = e
        BY <3>3 DEF Range
      <4>4. f = d
        BY <4>1, <4>2, <4>3, <2>5 DEF IsTree
      <4>5. QED BY <4>4, <4>1, <3>3
    <3>4. QED BY <3>1, <3>2, <3>3
  <2>6. /\ new \in WalkRecords(tree, top)
        /\ rest.cut => new.cut
    <3>1. CASE d \notin DOMAIN tree
      BY <3>1, <2>1, <2>4
    <3>2. CASE d \in DOMAIN tree
      BY <3>2, <2>1, <2>4, <2>5, VisitsFind
    <3>3. QED BY <3>1, <3>2
  <2>7. CASE w.cut
    BY <2>4, <2>6, <2>7 DEF Wanders, new
  <2>8. CASE ~w.cut
    <3>1. PICK visited \in SUBSET Searched(tree, top) :
            /\ IsFiniteSet(visited)
            /\ Finds(top, w, visited, Held(tree, visited))
            /\ Cardinality(visited) = n
      BY <2>8, <1>4 DEF Wanders
    <3> DEFINE more == visited \union {d}
    <3>2. /\ Once(w.queue) /\ Range(w.queue) \intersect visited = {}
          /\ visited \union Range(w.queue) = {top} \union DirsOf(Held(tree, visited))
          /\ Once(w.matches) /\ Range(w.matches) = HitsOf(Held(tree, visited))
      BY <3>1 DEF Finds
    <3>3. d \in Range(w.queue) /\ Once(front) /\ Range(front) = Range(w.queue) \ {d}
      BY <1>1, <1>4, <3>2, TakenOff DEF d
    <3>4. d \notin visited /\ d \in Searched(tree, top)
      BY <3>2, <3>3, SearchedIsLeast
    <3>5. Finds(top, rest, more, Held(tree, visited))
      BY <2>4, <2>8, <3>2, <3>3 DEF Finds
    <3>6. new.cut \/ Finds(top, new, more, Held(tree, more))
      <4>1. CASE d \notin DOMAIN tree
        <5>1. Held(tree, more) = Held(tree, visited)
          BY <4>1 DEF Held
        <5>2. QED BY <5>1, <4>1, <2>1, <3>5
      <4>2. CASE d \in DOMAIN tree
        <5>1. Held(tree, more) = Held(tree, visited) \union Range(tree[d])
          BY <4>2 DEF Held
        <5>2. Held(tree, visited) \subseteq Within(tree)
          BY DEF Held, Within
        <5>3. Held(tree, visited) \intersect Range(tree[d]) = {}
          BY <4>2, <2>5, <3>4
        <5>4. new = Visits(cfg, rest, tree[d])[Len(tree[d])]
          BY <4>2, <2>1
        <5>5. tree[d] \in Seq(Within(tree)) /\ Once(tree[d])
          BY <4>2, <2>5
        <5> HIDE DEF more
        <5>6. ~new.cut => Finds(top, new, more, Held(tree, visited) \union Range(tree[d]))
          BY <5>2, <5>3, <5>4, <5>5, <3>5, <2>4, VisitsFind
        <5>7. new.cut \/ ~new.cut
          OBVIOUS
        <5>8. QED BY <5>1, <5>6, <5>7
      <4>3. QED BY <4>1, <4>2
    <3>7. IsFiniteSet(more) /\ Cardinality(more) = n + 1 /\ more \in SUBSET Searched(tree, top)
      BY <3>1, <3>4, FS_AddElement
    <3> HIDE DEF more
    <3>8. QED BY <2>6, <3>6, <3>7 DEF Wanders, new
  <2>9. QED BY <1>1, <2>7, <2>8
<1>5. QED BY <1>2, <1>3, <1>4

\* What Walks is: the recursion that defines it does define a function.
LEMMA WalksAre ==
  ASSUME NEW tree, NEW top, IsTree(tree, top), NEW cfg
  PROVE  /\ Cardinality(Within(tree)) \in Nat
         /\ \A i \in 0 .. Cardinality(Within(tree)) + 1 :
              /\ Walks(cfg, tree, top)[i] \in WalkRecords(tree, top)
              /\ Wanders(tree, top, Walks(cfg, tree, top)[i], i)
<1> DEFINE k == Cardinality(Within(tree)) + 1
           S == WalkRecords(tree, top)
           start == Walk0(top)
           T == {w \in S : \E n \in Nat : Wanders(tree, top, w, n)}
           step == [p \in (1 .. k) \X T |-> WalkOne(cfg, tree, p[2])]
<1>1. Cardinality(Within(tree)) \in Nat /\ k \in Nat
  BY FS_CardinalityType DEF IsTree
<1>2. start \in S /\ Wanders(tree, top, start, 0)
  <2>1. top \in Dirs(tree, top)
    BY DEF Dirs
  <2>2. <<top>> \in Seq(Dirs(tree, top)) /\ << >> \in Seq(Nat \X Nat)
    BY <2>1, EmptySeq
  <2>3. start \in S
    BY <2>2 DEF Walk0, WalkRecords
  <2>4. Held(tree, {}) = {}
    BY DEF Held
  <2>5. DirsOf({}) = {} /\ HitsOf({}) = {}
    BY DEF DirsOf, HitsOf
  <2>6. Once(<<top>>) /\ Range(<<top>>) = {top}
    BY DEF Once, Range
  <2>7. Once(<< >>) /\ Range(<< >>) = {}
    BY DEF Once, Range
  <2>8. start.queue = <<top>> /\ start.matches = << >> /\ ~start.cut /\ ~start.left
    BY DEF Walk0
  <2> HIDE DEF start
  <2>9. Finds(top, start, {}, Held(tree, {}))
    BY <2>4, <2>5, <2>6, <2>7, <2>8 DEF Finds
  <2>10. IsFiniteSet({}) /\ Cardinality({}) = 0
    BY FS_EmptySet
  <2>11. QED BY <2>3, <2>9, <2>10 DEF Wanders
<1> HIDE DEF start
<1>3. start \in T
  BY <1>2
<1>4. \A x \in T : WalkOne(cfg, tree, x) \in T
  BY WalkOneFinds
<1> HIDE DEF k, T
<1>5. step \in [(1 .. k) \X T -> T]
  BY <1>4
<1>6. \A i \in 1 .. k : \A x \in T : step[<<i, x>>] = WalkOne(cfg, tree, x)
  OBVIOUS
<1> HIDE DEF step
<1>7. PICK f : Iterates(f, k, T, start, step)
  BY <1>1, <1>3, <1>5, SomeIterates
<1>8. f = [i \in 0 .. k |-> IF i = 0 THEN start ELSE WalkOne(cfg, tree, f[i - 1])]
  <2>1. \A i \in 1 .. k : f[i - 1] \in T
    BY <1>1, <1>7 DEF Iterates
  <2>2. \A i \in 1 .. k : f[i] = WalkOne(cfg, tree, f[i - 1])
    BY <2>1, <1>6, <1>7 DEF Iterates
  <2>3. \A i \in 0 .. k : f[i] = IF i = 0 THEN start ELSE WalkOne(cfg, tree, f[i - 1])
    <3>1. \A i \in 0 .. k : i = 0 \/ i \in 1 .. k
      BY <1>1
    <3>2. \A i \in 1 .. k : i # 0
      OBVIOUS
    <3>3. QED BY <3>1, <3>2, <2>2, <1>7 DEF Iterates
  <2>4. QED BY <2>3, <1>7 DEF Iterates
<1> DEFINE v == Walks(cfg, tree, top)
<1>9. v = [i \in 0 .. k |-> IF i = 0 THEN start ELSE WalkOne(cfg, tree, v[i - 1])]
  <2>1. \E g : g = [i \in 0 .. Cardinality(Within(tree)) + 1 |->
                      IF i = 0 THEN Walk0(top) ELSE WalkOne(cfg, tree, g[i - 1])]
    BY <1>8 DEF k, start
  <2>2. QED BY Zenon, <2>1 DEF Walks, k, start
<1> HIDE DEF v
<1>10. v[0] = start /\ \A i \in 1 .. k : v[i] = WalkOne(cfg, tree, v[i - 1])
  <2>1. v[0] = start
    BY <1>9, <1>1
  <2>2. \A i \in 1 .. k : i \in 0 .. k /\ i # 0
    BY <1>1
  <2>3. QED BY <1>9, <2>1, <2>2
<1>11. \A i \in 0 .. k : v[i] \in S /\ Wanders(tree, top, v[i], i)
  <2> DEFINE Good == {i \in 0 .. k : v[i] \in S /\ Wanders(tree, top, v[i], i)}
  <2> HIDE DEF S
  <2>1. 0 \in Good
    BY <1>1, <1>2, <1>10
  <2>2. ASSUME NEW i \in 1 .. k, i - 1 \in Good
        PROVE  i \in Good
    <3>1. i - 1 \in Nat /\ i \in 0 .. k /\ i - 1 + 1 = i
      BY <1>1
    <3> DEFINE x == v[i - 1]
    <3>2. x \in S /\ Wanders(tree, top, x, i - 1) /\ v[i] = WalkOne(cfg, tree, x)
      BY <2>2, <1>10
    <3> HIDE DEF x
    <3>3. v[i] \in S /\ Wanders(tree, top, v[i], i - 1 + 1)
      BY <3>1, <3>2, WalkOneFinds DEF S
    <3>4. QED BY <3>1, <3>3
  <2> HIDE DEF Good
  <2>3. 0 .. k \subseteq Good
    BY <2>1, <2>2, <1>1, UpTo
  <2>4. QED BY <2>3 DEF Good
<1>12. QED BY <1>1, <1>11 DEF k, S, v

\* The directories of a tree are its top and at most one for each entry.
LEMMA DirsBounded ==
  ASSUME NEW tree, NEW top, IsTree(tree, top)
  PROVE  /\ IsFiniteSet(Dirs(tree, top))
         /\ Cardinality(Dirs(tree, top)) <= Cardinality(Within(tree)) + 1
<1> DEFINE E == {e \in Within(tree) : ~e.denied /\ e.kind = "dir"}
           f == [e \in E |-> e.dir]
<1>1. IsFiniteSet(Within(tree)) /\ E \in SUBSET Within(tree)
  BY DEF IsTree
<1>2. DirsOf(Within(tree)) = Range(f)
  BY DEF DirsOf, Range
<1>3. f \in Surjection(E, Range(f))
  <2>1. f \in [E -> Range(f)]
    BY DEF Range
  <2> HIDE DEF f, E
  <2>2. QED BY <2>1, Fun_RangeProperties
<1> HIDE DEF E, f
<1>4. IsFiniteSet(E) /\ Cardinality(E) <= Cardinality(Within(tree))
  BY <1>1, FS_Subset
<1>5. IsFiniteSet(Range(f)) /\ Cardinality(Range(f)) <= Cardinality(E)
  BY <1>3, <1>4, FS_Surjection
<1>6. /\ IsFiniteSet(Range(f) \union {top})
      /\ Cardinality(Range(f) \union {top}) = IF top \in Range(f) THEN Cardinality(Range(f)) ELSE Cardinality(Range(f)) + 1
  BY <1>5, FS_AddElement
<1>7. Dirs(tree, top) = Range(f) \union {top}
  BY <1>2 DEF Dirs
<1>8. Cardinality(E) \in Nat /\ Cardinality(Within(tree)) \in Nat /\ Cardinality(Range(f)) \in Nat
  BY <1>1, <1>4, <1>5, FS_CardinalityType
<1>9. QED BY <1>4, <1>5, <1>6, <1>7, <1>8

\* A sequence without repetition has as many elements as places.
LEMMA OnceCounts ==
  ASSUME NEW S, NEW s \in Seq(S), Once(s)
  PROVE  Cardinality(Range(s)) = Len(s)
<1> DEFINE D == 1 .. Len(s)
<1>1. Len(s) \in Nat /\ s \in [D -> S] /\ DOMAIN s = D
  BY LenProperties
<1>2. IsFiniteSet(D) /\ Cardinality(D) = Len(s)
  BY <1>1, FS_Interval
<1> HIDE DEF D
<1>3. s \in Injection(D, S)
  BY <1>1, Fun_IsInj DEF Once
<1>4. s \in Bijection(D, Range(s))
  BY <1>3, Fun_InjMeansBijImage
<1>5. ExistsBijection(D, Range(s))
  BY <1>4 DEF ExistsBijection
<1>6. QED BY <1>2, <1>5, FS_Bijection

\* grep_files: a search that does not say it was cut has every hit, and none twice.
LEMMA GrepIsWhole ==
  ASSUME NEW tree, NEW top, IsTree(tree, top), NEW cfg, NEW path,
         Grep(cfg, path, tree, top).error = "none", ~Grep(cfg, path, tree, top).cut
  PROVE  LET shown == Grep(cfg, path, tree, top).shown
         IN  Range(shown) = Found(tree, top) /\ Cardinality(Range(shown)) = Len(shown)
<1> DEFINE k == Cardinality(Within(tree)) + 1
           end == Walks(cfg, tree, top)[k]
           refusal == Refusal(cfg, path, {"inside", "root"})
           out == Grep(cfg, path, tree, top)
<1>1. out = IF refusal # "none" THEN Failed(refusal) ELSE Gives(end.matches, end.cut)
  BY DEF Grep
<1>2. k - 1 \in Nat /\ k \in 0 .. k /\ Cardinality(Within(tree)) = k - 1
  BY WalksAre
<1>3. end \in WalkRecords(tree, top) /\ Wanders(tree, top, end, k)
  BY <1>2, WalksAre
<1> HIDE DEF end, k, refusal
<1>4. out.shown = end.matches /\ ~end.cut
  <2>1. refusal = "none"
    BY <1>1 DEF Failed
  <2>2. QED BY <2>1, <1>1 DEF Gives
<1>5. PICK visited \in SUBSET Searched(tree, top) :
        /\ IsFiniteSet(visited)
        /\ Finds(top, end, visited, Held(tree, visited))
        /\ end.queue = << >> \/ Cardinality(visited) = k
  BY <1>3, <1>4 DEF Wanders
<1>6. /\ end.queue \in Seq(Dirs(tree, top)) /\ Range(end.queue) \intersect visited = {}
      /\ visited \union Range(end.queue) = {top} \union DirsOf(Held(tree, visited))
      /\ Once(end.matches) /\ Range(end.matches) = HitsOf(Held(tree, visited))
      /\ Once(end.queue)
  BY <1>3, <1>5 DEF Finds, WalkRecords
<1>7. visited \union Range(end.queue) \in SUBSET Dirs(tree, top)
  BY <1>6, SearchedIsLeast
<1>8. end.queue = << >>
  <2>1. SUFFICES ASSUME end.queue # << >> PROVE FALSE
    OBVIOUS
  <2>2. PICK d : d \in Range(end.queue)
    BY <1>6, <2>1, TakenOff
  <2>3. d \notin visited /\ visited \union {d} \in SUBSET Dirs(tree, top)
    BY <1>6, <1>7, <2>2
  <2>4. Cardinality(visited \union {d}) = k + 1
    BY <1>5, <2>1, <2>3, FS_AddElement
  <2>5. IsFiniteSet(Dirs(tree, top)) /\ Cardinality(Dirs(tree, top)) <= k
    BY <1>2, DirsBounded
  <2>6. Cardinality(visited \union {d}) <= Cardinality(Dirs(tree, top)) /\ Cardinality(Dirs(tree, top)) \in Nat
    BY <2>3, <2>5, FS_Subset, FS_CardinalityType
  <2>7. QED BY <2>4, <2>5, <2>6, <1>2
<1>9. Range(end.queue) = {}
  BY <1>8 DEF Range
<1>10. visited = Searched(tree, top)
  BY <1>6, <1>7, <1>9, SearchedIsLeast
<1>11. Range(end.matches) = Found(tree, top)
  BY <1>6, <1>10 DEF Found
<1>12. Cardinality(Range(end.matches)) = Len(end.matches)
  BY <1>3, <1>6, OnceCounts DEF WalkRecords
<1>13. QED BY <1>4, <1>11, <1>12

\* list_dir: a listing that does not say it was cut has every entry.
LEMMA ListIsWhole ==
  ASSUME NEW entries, IsListing(entries), NEW cfg, NEW path,
         ListDir(cfg, path, entries).error = "none", ~ListDir(cfg, path, entries).cut
  PROVE  LET shown == ListDir(cfg, path, entries).shown
         IN  Range(shown) = {entries[i].name : i \in DOMAIN entries} /\ Len(shown) = Len(entries)
<1> DEFINE n == AtMost(Len(entries), ListMax)
           names == [i \in 1 .. n |-> entries[i].name]
           refusal == Refusal(cfg, path, {"inside", "root"})
           out == ListDir(cfg, path, entries)
<1>1. out = IF refusal # "none" THEN Failed(refusal)
            ELSE IF path.kind # "dir" THEN Failed("not a directory")
            ELSE Gives(Sorted(names), Len(entries) > ListMax)
  BY DEF ListDir
<1>2. Len(entries) \in Nat /\ DOMAIN entries = 1 .. Len(entries) /\ \A i \in 1 .. Len(entries) : entries[i].name \in Nat
  <2>1. entries \in Seq(Range(entries)) /\ \A e \in Range(entries) : IsEntry(e)
    BY DEF IsListing
  <2>2. Len(entries) \in Nat /\ DOMAIN entries = 1 .. Len(entries)
    BY <2>1, LenProperties
  <2>3. QED BY <2>1, <2>2 DEF Range, IsEntry
<1> HIDE DEF refusal, names
<1>3. out.shown = Sorted(names) /\ ~(Len(entries) > ListMax)
  <2> DEFINE all == Gives(Sorted(names), Len(entries) > ListMax)
  <2>1. \A why : Failed(why).error = why
    BY DEF Failed
  <2>2. all.shown = Sorted(names) /\ all.cut = (Len(entries) > ListMax)
    BY DEF Gives
  <2>3. out.error = "none" /\ ~out.cut
    OBVIOUS
  <2> HIDE DEF all, out
  <2>4. out = all
    BY <1>1, <2>1, <2>3 DEF all
  <2>5. QED BY <2>2, <2>3, <2>4 DEF out
<1>4. n = Len(entries)
  BY <1>2, <1>3, ToolCapsArePositive DEF AtMost
<1>5. names \in [1 .. n -> Nat] /\ Range(names) = {entries[i].name : i \in DOMAIN entries}
  BY <1>2, <1>4 DEF names, Range
<1> HIDE DEF n
<1>6. Range(Sorted(names)) = Range(names) /\ Len(Sorted(names)) = n
  BY <1>2, <1>4, <1>5, SortedIsWhole
<1>7. QED BY <1>3, <1>4, <1>5, <1>6

\* read_file: a file that is not said to be cut is all that was there to read.
LEMMA ReadIsWhole ==
  ASSUME NEW f \in Files, NEW cfg, NEW path,
         ReadFile(cfg, path, f).error = "none", ~ReadFile(cfg, path, f).cut
  PROVE  Range(ReadFile(cfg, path, f).shown) \ {0} = 1 .. AtMost(f.size, f.left)
<1> DEFINE n == AtMost(f.size, MaxBytes)
           bytes == [i \in 1 .. n |-> IF i <= f.left THEN i ELSE 0]
           refusal == Refusal(cfg, path, {"inside"})
           out == ReadFile(cfg, path, f)
<1>1. out = IF refusal # "none" THEN Failed(refusal)
            ELSE IF path.kind # "file" THEN Failed("not a regular file")
            ELSE IF ~f.text \/ (f.size > MaxBytes /\ f.splits) THEN Failed("not utf-8")
            ELSE Gives(bytes, f.size > MaxBytes)
  BY DEF ReadFile
<1>2. f.size \in Nat /\ f.left \in Nat /\ MaxBytes \in Nat
  BY ToolCapsArePositive DEF Files
<1> HIDE DEF refusal, bytes
<1>3. out.shown = bytes /\ ~(f.size > MaxBytes)
  <2> DEFINE all == Gives(bytes, f.size > MaxBytes)
  <2>1. \A why : Failed(why).error = why
    BY DEF Failed
  <2>2. all.shown = bytes /\ all.cut = (f.size > MaxBytes)
    BY DEF Gives
  <2>3. out.error = "none" /\ ~out.cut
    OBVIOUS
  <2> HIDE DEF all, out
  <2>4. out = all
    BY <1>1, <2>1, <2>3 DEF all
  <2>5. QED BY <2>2, <2>3, <2>4 DEF out
<1>4. n = f.size
  BY <1>2, <1>3 DEF AtMost
<1> HIDE DEF n
<1>5. Range(bytes) \ {0} = {i \in 1 .. f.size : i <= f.left}
  <2>1. Range(bytes) = {IF i <= f.left THEN i ELSE 0 : i \in 1 .. f.size}
    BY <1>4 DEF Range, bytes
  <2>2. \A i \in 1 .. f.size : i # 0
    OBVIOUS
  <2>3. QED BY <2>1, <2>2
<1>6. {i \in 1 .. f.size : i <= f.left} = 1 .. AtMost(f.size, f.left)
  BY <1>2 DEF AtMost
<1>7. QED BY <1>3, <1>5, <1>6

-----------------------------------------------------------------------------
(* Agent: what a run keeps                                                  *)

Roles    == {"system", "user", "assistant", "tool"}
Messages == [role : Roles, count : Nat]
Whys     == {"not", "tool_error", "dlp_blocked", "max_steps", "max_seconds", "max_tokens", "final_answer"}
Exits    == {0, 2}
StepsOf(r) == 0 .. Limits[r].steps
TodosOf(r) == 0 .. Limits[r].calls
CallsOf(r) == ToolCalls[r] \union {NoCall}

\* What run r may be, with a result out of outs.
RunOf(r, outs) ==
  [pc : Pcs, step : StepsOf(r), tokens : Nat, todo : TodosOf(r), done : Nat, call : CallsOf(r),
   out : outs, messages : Seq(Messages), emitted : Nat, sending : BOOLEAN, stopped : Whys,
   exit : Exits]

\* Whatever caps are asked for, a run has at least one step and one call.
LEMMA LimitsKnown ==
  ASSUME NEW r \in Runs
  PROVE  /\ Limits[r].steps \in Nat \ {0} /\ Limits[r].calls \in Nat \ {0}
         /\ 0 \in StepsOf(r) /\ 0 \in TodosOf(r) /\ NoCall \in CallsOf(r)
         /\ \A c \in ToolCalls[r] : c \in CallsOf(r)
<1>1. HardSteps \in Nat \ {0} /\ HardCalls \in Nat \ {0}
  BY CapsOfRuns
<1>2. Asked[r].steps \in Nat /\ Asked[r].calls \in Nat
  BY AskedIsAsked
<1>3. Limits[r].steps = Clamp(Asked[r].steps, 1, HardSteps)
      /\ Limits[r].calls = Clamp(Asked[r].calls, 1, HardCalls)
  BY DEF Limits
<1>4. Limits[r].steps \in Nat \ {0} /\ Limits[r].calls \in Nat \ {0}
  BY <1>1, <1>2, <1>3 DEF Clamp, AtMost
<1>5. QED
  BY <1>4 DEF StepsOf, TodosOf, CallsOf

\* The parts of a conversation.
LEMMA MessagesKnown ==
  /\ System \in Messages /\ User \in Messages /\ << >> \in Seq(Messages)
  /\ <<System, User>> \in Seq(Messages)
  /\ \A n \in Nat : /\ Assistant(n) \in Messages /\ Tool(n) \in Messages
                    /\ Assistant(n).role = "assistant" /\ Assistant(n).count = n
                    /\ Tool(n).role = "tool"
  /\ System.role = "system" /\ User.role = "user"
  BY DEF System, User, Assistant, Tool, Messages, Roles

\* A run that has not begun.
LEMMA IdleRunTyped ==
  ASSUME NEW r \in Runs
  PROVE  /\ IdleRun \in RunOf(r, {IdleRun.out})
         /\ IdleRun.pc = "idle" /\ IdleRun.step = 0 /\ IdleRun.emitted = 0 /\ ~IdleRun.sending
         /\ IdleRun.messages = << >> /\ IdleRun.todo = 0
<1>1. "idle" \in Pcs /\ "not" \in Whys /\ 0 \in Exits
  BY DEF Pcs, Whys, Exits
<1>2. QED
  BY <1>1, LimitsKnown, MessagesKnown DEF IdleRun, RunOf

-----------------------------------------------------------------------------
(* Agent: conversations                                                     *)

Opened(said) ==
  said \in Seq(Messages) /\ Len(said) >= 2 /\ said[1] = System /\ said[2] = User

Fed(said, i, n) == \A k \in 1 .. n : said[i + k] = Tool(k)

NextOf(r, said, i) == i + Due(r, said[i]) + 1

\* Between two answers of the model all calls of the first are answered.
Settled(r, said, step) ==
  /\ Opened(said)
  /\ \A i \in Answers(said) : /\ NextOf(r, said, i) \in Answers(said) \union {Len(said) + 1}
                              /\ Fed(said, i, Due(r, said[i]))
  /\ Cardinality(Answers(said)) = step

\* While calls are executed this holds of all answers but the last, of which as many are
\* answered as are done.
Answering(r, said, step, done, todo) ==
  /\ Opened(said)
  /\ \E last \in Answers(said) :
       /\ last + done = Len(said) /\ Due(r, said[last]) = done + todo
       /\ Fed(said, last, done)
       /\ \A i \in Answers(said) \ {last} : /\ NextOf(r, said, i) \in Answers(said)
                                            /\ Fed(said, i, Due(r, said[i]))
  /\ Cardinality(Answers(said)) = step + 1

\* A conversation, and one with one more message, which is an answer of the model or not.
LEMMA SaidKnown ==
  ASSUME NEW said \in Seq(Messages), NEW m \in Messages
  PROVE  LET t == Append(said, m) IN
         /\ IsFiniteSet(Answers(said)) /\ Cardinality(Answers(said)) \in Nat
         /\ Answers(said) \subseteq 1 .. Len(said) /\ Len(said) \in Nat
         /\ \A i \in 1 .. Len(said) : said[i] \in Messages /\ said[i].count \in Nat
         /\ t \in Seq(Messages) /\ Len(t) = Len(said) + 1 /\ t[Len(said) + 1] = m
         /\ \A i \in 1 .. Len(said) : t[i] = said[i]
         /\ m.role = "assistant" => /\ Answers(t) = Answers(said) \union {Len(said) + 1}
                                    /\ Cardinality(Answers(t)) = Cardinality(Answers(said)) + 1
         /\ m.role # "assistant" => Answers(t) = Answers(said)
<1> DEFINE t == Append(said, m)
<1>1. /\ Len(said) \in Nat /\ DOMAIN said = 1 .. Len(said)
      /\ \A i \in 1 .. Len(said) : said[i] \in Messages
  OBVIOUS
<1>2. /\ t \in Seq(Messages) /\ Len(t) = Len(said) + 1 /\ t[Len(said) + 1] = m
      /\ DOMAIN t = 1 .. Len(said) + 1
      /\ \A i \in 1 .. Len(said) : t[i] = said[i]
  BY <1>1
<1> HIDE DEF t
<1>3. Answers(said) \subseteq 1 .. Len(said)
  BY <1>1 DEF Answers
<1>4. IsFiniteSet(Answers(said)) /\ Cardinality(Answers(said)) \in Nat
  <2>1. IsFiniteSet(1 .. Len(said))
    BY <1>1, FS_Interval
  <2>2. IsFiniteSet(Answers(said))
    BY <1>3, <2>1, FS_Subset
  <2>3. QED
    BY <2>2, FS_CardinalityType
<1>5. \A i \in 1 .. Len(said) : said[i].count \in Nat
  BY <1>1 DEF Messages
<1>6. ASSUME m.role = "assistant"
      PROVE  /\ Answers(t) = Answers(said) \union {Len(said) + 1}
             /\ Cardinality(Answers(t)) = Cardinality(Answers(said)) + 1
  <2>1. Answers(t) = Answers(said) \union {Len(said) + 1}
    BY <1>1, <1>2, <1>6 DEF Answers
  <2>2. Len(said) + 1 \notin Answers(said)
    BY <1>1, <1>3
  <2>3. QED
    BY <1>4, <2>1, <2>2, FS_AddElement
<1>7. ASSUME m.role # "assistant"
      PROVE  Answers(t) = Answers(said)
  BY <1>1, <1>2, <1>7 DEF Answers
<1>8. QED
  BY <1>1, <1>2, <1>3, <1>4, <1>5, <1>6, <1>7 DEF t

\* How many calls of an answer with n calls are executed.
LEMMA DueKnown ==
  ASSUME NEW r \in Runs, NEW n \in Nat
  PROVE  /\ AtMost(n, Limits[r].calls) \in TodosOf(r)
         /\ n # 0 => AtMost(n, Limits[r].calls) > 0
         /\ Due(r, Assistant(n)) = AtMost(n, Limits[r].calls)
         /\ \A m : m.count = n => Due(r, m) \in Nat
<1>1. Limits[r].calls \in Nat \ {0}
  BY LimitsKnown
<1>2. QED
  BY <1>1 DEF AtMost, TodosOf, Due, Assistant

\* The model answers with calls.
LEMMA AnswerOpens ==
  ASSUME NEW r \in Runs, NEW said, NEW step \in Nat, Settled(r, said, step), NEW n \in Nat
  PROVE  Answering(r, Append(said, Assistant(n)), step, 0, AtMost(n, Limits[r].calls))
<1> DEFINE t == Append(said, Assistant(n))
           last == Len(said) + 1
<1>1. Assistant(n) \in Messages /\ Assistant(n).role = "assistant" /\ said \in Seq(Messages)
  BY MessagesKnown DEF Settled, Opened
<1>2. /\ t \in Seq(Messages) /\ Len(t) = last /\ t[last] = Assistant(n) /\ Len(said) \in Nat
      /\ \A i \in 1 .. Len(said) : t[i] = said[i] /\ said[i].count \in Nat
      /\ Answers(t) = Answers(said) \union {last} /\ Answers(said) \subseteq 1 .. Len(said)
      /\ Cardinality(Answers(t)) = step + 1
  BY <1>1, SaidKnown DEF Settled
<1>3. AtMost(n, Limits[r].calls) \in Nat /\ Due(r, t[last]) = AtMost(n, Limits[r].calls)
  BY <1>2, DueKnown DEF TodosOf
<1> HIDE DEF t
<1>4. Opened(t)
  BY <1>2 DEF Settled, Opened
<1>5. ASSUME NEW i \in Answers(t) \ {last}
      PROVE  NextOf(r, t, i) \in Answers(t) /\ Fed(t, i, Due(r, t[i]))
  <2>1. i \in Answers(said) /\ t[i] = said[i] /\ i \in 1 .. Len(said) /\ Due(r, said[i]) \in Nat
    BY <1>2, <1>5, DueKnown
  <2>2. NextOf(r, said, i) \in Answers(said) \union {last} /\ Fed(said, i, Due(r, said[i]))
    BY <2>1 DEF Settled
  <2>3. NextOf(r, t, i) = NextOf(r, said, i) /\ NextOf(r, said, i) <= last
    BY <1>2, <2>1, <2>2 DEF NextOf
  <2>4. \A k \in 1 .. Due(r, said[i]) : i + k \in 1 .. Len(said)
    BY <1>2, <2>1, <2>3 DEF NextOf
  <2>5. QED
    BY <1>2, <2>1, <2>2, <2>3, <2>4 DEF Fed
<1>6. Fed(t, last, 0)
  BY DEF Fed
<1>7. QED
  BY <1>2, <1>3, <1>4, <1>5, <1>6 DEF Answering, t

\* A result joins it.
LEMMA FeedFollows ==
  ASSUME NEW r \in Runs, NEW said, NEW step \in Nat, NEW done \in Nat, NEW todo \in Nat \ {0},
         Answering(r, said, step, done, todo)
  PROVE  Answering(r, Append(said, Tool(done + 1)), step, done + 1, todo - 1)
<1> DEFINE t == Append(said, Tool(done + 1))
<1>1. Tool(done + 1) \in Messages /\ Tool(done + 1).role # "assistant" /\ said \in Seq(Messages)
  BY MessagesKnown DEF Answering, Opened
<1>2. /\ t \in Seq(Messages) /\ Len(t) = Len(said) + 1 /\ t[Len(said) + 1] = Tool(done + 1)
      /\ Len(said) \in Nat /\ \A i \in 1 .. Len(said) : t[i] = said[i] /\ said[i].count \in Nat
      /\ Answers(t) = Answers(said) /\ Answers(said) \subseteq 1 .. Len(said)
  BY <1>1, SaidKnown
<1> HIDE DEF t
<1>3. PICK last \in Answers(said) :
        /\ last + done = Len(said) /\ Due(r, said[last]) = done + todo
        /\ Fed(said, last, done)
        /\ \A i \in Answers(said) \ {last} : /\ NextOf(r, said, i) \in Answers(said)
                                             /\ Fed(said, i, Due(r, said[i]))
  BY DEF Answering
<1>4. Opened(t)
  BY <1>2 DEF Answering, Opened
<1>5. last + (done + 1) = Len(t) /\ Due(r, t[last]) = (done + 1) + (todo - 1)
  <2>1. last \in 1 .. Len(said) /\ t[last] = said[last]
    BY <1>2, <1>3
  <2>2. Due(r, t[last]) = done + todo
    BY <1>3, <2>1
  <2>3. last \in Nat /\ last + done = Len(said)
    BY <1>2, <1>3, <2>1
  <2>4. last + (done + 1) = Len(said) + 1
    BY <2>3
  <2>5. done + todo = (done + 1) + (todo - 1)
    OBVIOUS
  <2>6. QED
    BY <1>2, <2>2, <2>4, <2>5
<1>6. Fed(t, last, done + 1)
  <2>1. ASSUME NEW k \in 1 .. done
        PROVE  t[last + k] = Tool(k)
    <3>1. last + k \in 1 .. Len(said)
      BY <1>2, <1>3
    <3>2. QED
      BY <1>2, <1>3, <3>1 DEF Fed
  <2>2. t[last + (done + 1)] = Tool(done + 1)
    BY <1>2, <1>3
  <2>3. QED
    BY <2>1, <2>2 DEF Fed
<1>7. ASSUME NEW i \in Answers(t) \ {last}
      PROVE  NextOf(r, t, i) \in Answers(t) /\ Fed(t, i, Due(r, t[i]))
  <2>1. t[i] = said[i] /\ i \in 1 .. Len(said) /\ Due(r, said[i]) \in Nat
    BY <1>2, <1>7, DueKnown
  <2>2. NextOf(r, said, i) \in Answers(said) /\ Fed(said, i, Due(r, said[i]))
    BY <1>2, <1>3, <1>7
  <2>3. NextOf(r, t, i) = NextOf(r, said, i) /\ NextOf(r, said, i) <= Len(said)
    BY <1>2, <2>1, <2>2 DEF NextOf
  <2>4. \A k \in 1 .. Due(r, said[i]) : i + k \in 1 .. Len(said)
    BY <1>2, <2>1, <2>3 DEF NextOf
  <2>5. QED
    BY <1>2, <2>1, <2>2, <2>3, <2>4 DEF Fed
<1>8. Cardinality(Answers(t)) = step + 1
  BY <1>2 DEF Answering
<1>9. QED
  BY <1>2, <1>4, <1>5, <1>6, <1>7, <1>8 DEF Answering, t

\* The last call is answered.
LEMMA LastSettles ==
  ASSUME NEW r \in Runs, NEW said, NEW step \in Nat, NEW done \in Nat, Answering(r, said, step, done, 0)
  PROVE  Settled(r, said, step + 1)
<1>1. said \in Seq(Messages) /\ Answers(said) \subseteq 1 .. Len(said) /\ Len(said) \in Nat
  BY MessagesKnown, SaidKnown DEF Answering, Opened
<1>2. PICK last \in Answers(said) :
        /\ last + done = Len(said) /\ Due(r, said[last]) = done
        /\ Fed(said, last, done)
        /\ \A i \in Answers(said) \ {last} : /\ NextOf(r, said, i) \in Answers(said)
                                             /\ Fed(said, i, Due(r, said[i]))
  BY DEF Answering
<1>3. NextOf(r, said, last) = Len(said) + 1
  BY <1>1, <1>2 DEF NextOf
<1>4. QED
  BY <1>2, <1>3 DEF Answering, Settled

-----------------------------------------------------------------------------
(* Agent: the inductive invariant                                           *)

Calling == {"calls", "tool", "cited", "gate"}
Over    == {"told", "gone"}   \* what the run kept is dropped, and with it how many events it told

\* What the code of a run relies on where it is: below the cap of steps while it is in
\* one, with a call to execute while it executes calls.
RunFits(r, h) ==
  /\ h \in RunOf(r, {h.out})
  /\ h.pc \in {"idle", "refused", "goal"} => h.step = 0
  /\ h.pc \in {"chat"} \union Calling => h.step < Limits[r].steps
  /\ h.pc \in Calling => h.todo > 0
  /\ h.sending => h.pc \notin Over /\ h.emitted > 0

\* The conversation that it has so far.
Talks(r, h) ==
  /\ h.pc \in {"loop", "chat"} => Settled(r, h.messages, h.step)
  /\ h.pc \in Calling => Answering(r, h.messages, h.step, h.done, h.todo)

\* The ring tells a run's events in their order, each once, and none that is to come.
RingInOrder ==
  /\ ring \in Seq(Events) /\ Len(ring) <= RingMax
  /\ \A i, j \in DOMAIN ring : i < j /\ ring[i].run = ring[j].run => ring[i].n < ring[j].n
  /\ \A i \in DOMAIN ring :
       run[ring[i].run].pc \notin Over => ring[i].n <= run[ring[i].run].emitted

\* Events i and j of a stream are one event, told twice.
Again(heard, i, j) == i < j /\ heard[i] = heard[j]

Ordered(heard) ==
  \A i, j \in DOMAIN heard : i < j /\ heard[i].run = heard[j].run => heard[i].n <= heard[j].n

AgainOnce(heard) ==
  \A i, j, k, l \in DOMAIN heard :
    Again(heard, i, j) /\ Again(heard, k, l) /\ heard[i].run = heard[k].run => i = k /\ j = l

\* What a stream was told.  One that knows already of the event which a run is broadcasting
\* was told of no event of that run twice: it read that event in the ring, when it began.
Heard(runs, heard) ==
  /\ Ordered(heard) /\ AgainOnce(heard)
  /\ \A i \in DOMAIN heard :
       LET h == runs[heard[i].run]
       IN  /\ h.pc \notin Over => heard[i].n <= h.emitted
           /\ h.sending /\ heard[i].n = h.emitted =>
                \A k, l \in DOMAIN heard :
                  Again(heard, k, l) => heard[k].run # heard[i].run

Streams == [at : {"none", "seeded", "live"}, heard : Seq(Events), lags : 0 .. MaxLags]

AgentInv ==
  /\ host \in Hosts
  /\ DOMAIN run = Runs
  /\ \A r \in Runs : RunFits(r, run[r]) /\ Talks(r, run[r])
  /\ RingInOrder
  /\ stream \in Streams /\ Heard(run, stream.heard)

-----------------------------------------------------------------------------
(* Agent: the steps of a run                                                *)

\* Run r has become q, and told an event of it in the ring.
EmitStep(r, q) ==
  /\ run' = [run EXCEPT ![r] = q]
  /\ q.emitted = run[r].emitted + 1 /\ q.sending
  /\ run[r].pc \notin Over /\ ~run[r].sending
  /\ ring' = LastOf(Append(ring, [run |-> r, n |-> q.emitted]), RingMax)
  /\ UNCHANGED stream

\* Run r has become q, and told of nothing.
QuietStep(r, q) ==
  /\ run' = [run EXCEPT ![r] = q]
  /\ ~q.sending /\ (q.emitted = run[r].emitted \/ q.pc \in Over)
  /\ run[r].pc \notin Over
  /\ UNCHANGED feed

RunStep(r) ==
  /\ \E q : /\ RunFits(r, q) /\ Talks(r, q)
            /\ EmitStep(r, q) \/ QuietStep(r, q)
  /\ UNCHANGED host

\* A step that emits, to a run that fits where it goes.
LEMMA EmitsSteps ==
  ASSUME NEW r \in Runs, RunFits(r, run[r]), ~run[r].sending, run[r].pc \notin Over,
         NEW new, new \in RunOf(r, {new.out}), RunFits(r, new), Talks(r, new), new.pc \notin Over,
         Emits(r, new)
  PROVE  RunStep(r)
<1> DEFINE n == run[r].emitted + 1
           q == [new EXCEPT !.emitted = n, !.sending = TRUE]
           outs == {new.out}
<1>1. n = run[r].emitted + 1 /\ n \in Nat \ {0} /\ new \in RunOf(r, outs)
  BY DEF RunFits, RunOf
<1> HIDE DEF n, outs
<1>2. /\ q \in RunOf(r, outs) /\ q.pc = new.pc /\ q.step = new.step /\ q.todo = new.todo
      /\ q.done = new.done /\ q.messages = new.messages /\ q.emitted = n /\ q.sending
      /\ q.out = new.out
  BY <1>1 DEF RunOf
<1>3. /\ run' = [run EXCEPT ![r] = q] /\ UNCHANGED <<host, stream>>
      /\ ring' = LastOf(Append(ring, [run |-> r, n |-> n]), RingMax)
  BY DEF Emits, n
<1> HIDE DEF q
<1>4. RunFits(r, q)
  BY <1>1, <1>2 DEF RunFits, outs
<1>5. Talks(r, q)
  BY <1>2 DEF Talks
<1>6. EmitStep(r, q)
  BY <1>1, <1>2, <1>3 DEF EmitStep
<1>7. QED
  BY <1>3, <1>4, <1>5, <1>6 DEF RunStep

\* A step that tells of nothing.
LEMMA GoesSteps ==
  ASSUME NEW r \in Runs, run[r].pc \notin Over,
         NEW new, RunFits(r, new), Talks(r, new), ~new.sending,
         new.emitted = run[r].emitted \/ new.pc \in Over,
         Goes(r, new)
  PROVE  RunStep(r)
  BY DEF Goes, RunStep, QuietStep

\* Whatever a run ends for, its end is told.
LEMMA FinishSteps ==
  ASSUME NEW r \in Runs, RunFits(r, run[r]), ~run[r].sending, run[r].pc \notin Over,
         NEW why \in Whys, Finish(r, why)
  PROVE  RunStep(r)
<1> DEFINE new == [IdleRun EXCEPT !.pc = "done", !.stopped = why]
           outs == {IdleRun.out}
           pc == "done"
<1>1. "done" \in Pcs /\ "done" \notin {"idle", "refused", "goal", "loop", "chat"} \union Calling \union Over
  BY DEF Pcs, Calling, Over
<1>2. /\ new \in RunOf(r, {IdleRun.out}) /\ new.pc = "done" /\ new.out = IdleRun.out
  BY <1>1, IdleRunTyped DEF RunOf, IdleRun
<1>3. new.sending = FALSE
  BY DEF IdleRun
<1>4. Emits(r, new)
  BY DEF Finish
<1> HIDE DEF new
<1>5. RunFits(r, new) /\ Talks(r, new)
  BY <1>1, <1>2, <1>3 DEF RunFits, Talks
<1>6. QED
  BY <1>1, <1>2, <1>4, <1>5, EmitsSteps

\* A call has come to an end.
LEMMA ReportSteps ==
  ASSUME NEW r \in Runs, RunFits(r, run[r]), Talks(r, run[r]), ~run[r].sending, run[r].pc \in Calling,
         NEW c \in CallsOf(r), NEW out, Report(r, c, out)
  PROVE  RunStep(r)
<1> DEFINE new == [run[r] EXCEPT !.pc = "gate", !.call = c, !.out = out]
<1>1. /\ "gate" \in Pcs /\ "gate" \in Calling /\ "gate" \notin {"idle", "refused", "goal", "loop", "chat"}
      /\ "gate" \notin Over /\ run[r].pc \notin Over
  BY DEF Pcs, Calling, Over
<1>2. /\ new \in RunOf(r, {out}) /\ new.pc = "gate" /\ new.step = run[r].step
      /\ new.todo = run[r].todo /\ new.done = run[r].done /\ new.messages = run[r].messages
      /\ new.out = out
  BY <1>1 DEF RunFits, RunOf
<1>3. new.sending = run[r].sending
  BY DEF RunFits, RunOf
<1>4. Emits(r, new)
  BY DEF Report
<1> HIDE DEF new
<1>5. RunFits(r, new) /\ Talks(r, new)
  BY <1>1, <1>2, <1>3 DEF RunFits, Talks
<1>6. QED
  BY <1>1, <1>2, <1>4, <1>5, EmitsSteps

\* A run starts.
LEMMA StartSteps ==
  ASSUME NEW r \in Runs, RunFits(r, run[r]), Talks(r, run[r]), Start(r)
  PROVE  RunStep(r)
<1>1. PICK pc \in {"goal", "refused"} : Emits(r, [run[r] EXCEPT !.pc = pc])
  BY DEF Start
<1> DEFINE new == [run[r] EXCEPT !.pc = pc]
<1>2. /\ run[r].pc = "idle" /\ run[r].pc \notin Over /\ run[r].step = 0
      /\ pc \in Pcs /\ pc \notin {"loop", "chat"} \union Calling \union Over
  BY <1>1 DEF Start, At, RunFits, Pcs, Over, Calling
<1>3. /\ new \in RunOf(r, {run[r].out}) /\ new.out = run[r].out /\ new.pc = pc /\ new.step = 0
      /\ ~new.sending /\ ~run[r].sending
  BY <1>2 DEF Start, At, RunFits, RunOf
<1>4. Emits(r, new)
  BY <1>1
<1> HIDE DEF new
<1>5. RunFits(r, new) /\ Talks(r, new)
  BY <1>1, <1>2, <1>3 DEF RunFits, Talks
<1>6. QED
  BY <1>2, <1>3, <1>4, <1>5, EmitsSteps

\* The goal is let through: the conversation begins.
LEMMA BeginSteps ==
  ASSUME NEW r \in Runs, RunFits(r, run[r]), BeginRun(r)
  PROVE  RunStep(r)
<1> DEFINE new == [run[r] EXCEPT !.pc = "loop", !.messages = <<System, User>>]
<1>1. /\ run[r].pc = "goal" /\ run[r].pc \notin Over /\ run[r].step = 0 /\ ~run[r].sending
      /\ "loop" \in Pcs /\ "loop" \notin {"idle", "refused", "goal", "chat"} \union Calling \union Over
  BY DEF BeginRun, At, RunFits, Pcs, Over, Calling
<1>2. /\ new \in RunOf(r, {run[r].out}) /\ new.out = run[r].out /\ new.pc = "loop" /\ new.step = 0
      /\ new.messages = <<System, User>> /\ new.emitted = run[r].emitted /\ ~new.sending
  BY <1>1, MessagesKnown DEF RunFits, RunOf
<1>3. Goes(r, new)
  BY DEF BeginRun
<1> HIDE DEF new
<1>4. Answers(<<System, User>>) = {}
  BY DEF Answers, System, User
<1>5. Settled(r, <<System, User>>, 0)
  BY <1>4, MessagesKnown, FS_EmptySet DEF Settled, Opened
<1>6. RunFits(r, new) /\ Talks(r, new)
  BY <1>1, <1>2, <1>5 DEF RunFits, Talks
<1>7. QED
  BY <1>1, <1>2, <1>3, <1>6, GoesSteps

\* The model is asked.
LEMMA AskSteps ==
  ASSUME NEW r \in Runs, RunFits(r, run[r]), Talks(r, run[r]), Ask(r)
  PROVE  RunStep(r)
<1> DEFINE new == [run[r] EXCEPT !.pc = "chat"]
<1>1. /\ run[r].pc = "loop" /\ run[r].pc \notin Over /\ run[r].step < Limits[r].steps
      /\ "chat" \in Pcs /\ "chat" \notin {"idle", "refused", "goal", "loop"} \union Calling \union Over
  BY DEF Ask, At, Pcs, Over, Calling
<1>2. /\ new \in RunOf(r, {run[r].out}) /\ new.out = run[r].out /\ new.pc = "chat"
      /\ new.step = run[r].step /\ new.messages = run[r].messages /\ new.emitted = run[r].emitted
      /\ new.sending = run[r].sending /\ ~run[r].sending
  BY <1>1 DEF Ask, At, RunFits, RunOf
<1>3. Goes(r, new)
  BY DEF Ask
<1> HIDE DEF new
<1>4. RunFits(r, new) /\ Talks(r, new)
  BY <1>1, <1>2 DEF RunFits, Talks
<1>5. QED
  BY <1>1, <1>2, <1>3, <1>4, GoesSteps

\* It answers, in prose or with calls.
LEMMA AnswerSteps ==
  ASSUME NEW r \in Runs, RunFits(r, run[r]), Talks(r, run[r]), Answer(r)
  PROVE  RunStep(r)
<1>1. /\ run[r].pc = "chat" /\ run[r].pc \notin Over /\ ~run[r].sending
      /\ run[r].step < Limits[r].steps /\ Settled(r, run[r].messages, run[r].step)
      /\ run[r].step \in Nat /\ run[r].tokens \in Nat /\ run[r].messages \in Seq(Messages)
  BY DEF Answer, At, RunFits, RunOf, StepsOf, Talks, Over
<1>2. PICK used \in 0 .. MaxUsage, n \in 0 .. Limits[r].calls + Surplus :
        LET new == [run[r] EXCEPT !.tokens = @ + used, !.messages = Append(@, Assistant(n))]
        IN  IF n = 0 THEN Finish(r, "final_answer")
            ELSE Goes(r, [new EXCEPT !.pc = "calls", !.todo = AtMost(n, Limits[r].calls),
                                     !.done = 0])
  BY DEF Answer
<1>3. CASE n = 0
  BY <1>1, <1>2, <1>3, FinishSteps DEF Whys
<1>4. CASE n # 0
  <2> DEFINE said == Append(run[r].messages, Assistant(n))
             todo == AtMost(n, Limits[r].calls)
             tokens == run[r].tokens + used
             new == [[run[r] EXCEPT !.tokens = tokens, !.messages = said]
                       EXCEPT !.pc = "calls", !.todo = todo, !.done = 0]
  <2>1. Goes(r, new)
    BY <1>2, <1>4
  <2>2. n \in Nat /\ used \in Nat
    BY <1>2, RunBounds, LimitsKnown
  <2>3. todo \in TodosOf(r) /\ todo > 0
    BY <1>4, <2>2, DueKnown
  <2>4. Answering(r, said, run[r].step, 0, todo)
    BY <1>1, <2>2, AnswerOpens
  <2>5. said \in Seq(Messages) /\ tokens \in Nat /\ "calls" \in Pcs
    BY <1>1, <2>2, <2>4 DEF Answering, Opened, Pcs
  <2> HIDE DEF said, todo, tokens
  <2>6. /\ new \in RunOf(r, {run[r].out}) /\ new.out = run[r].out /\ new.pc = "calls"
        /\ new.step = run[r].step /\ new.messages = said /\ new.emitted = run[r].emitted
        /\ new.sending = run[r].sending /\ new.todo = todo /\ new.done = 0
    BY <1>1, <2>2, <2>3, <2>5 DEF RunFits, RunOf
  <2> HIDE DEF new
  <2>7. RunFits(r, new)
    BY <1>1, <2>3, <2>6 DEF RunFits, Calling, Over
  <2>8. Talks(r, new)
    BY <2>4, <2>6 DEF Talks
  <2>9. QED
    BY <1>1, <2>1, <2>6, <2>7, <2>8, GoesSteps
<1>5. QED
  BY <1>3, <1>4

\* A call is executed, at once or after a wait, or has been recorded.
LEMMA CallSteps ==
  ASSUME NEW r \in Runs, RunFits(r, run[r]), Talks(r, run[r]),
         Call(r) \/ Return(r) \/ Cited(r)
  PROVE  RunStep(r)
<1>1. /\ run[r].pc \in Calling /\ ~run[r].sending /\ run[r].call \in CallsOf(r)
      /\ \A c \in ToolCalls[r] : c \in CallsOf(r)
  BY LimitsKnown DEF Call, Return, Cited, At, RunFits, RunOf, Calling
<1>2. \E c \in CallsOf(r) : \E out : Report(r, c, out)
  <2>1. CASE Call(r)
    BY <1>1, <2>1 DEF Call
  <2>2. CASE Return(r)
    BY <1>1, <2>2 DEF Return
  <2>3. CASE Cited(r)
    BY <1>1, <2>3 DEF Cited
  <2>4. QED
    BY <2>1, <2>2, <2>3
<1>3. QED
  BY <1>1, <1>2, ReportSteps

\* A call is waited for, or recorded: the run stays among its calls.
LEMMA StillCalling ==
  ASSUME NEW r \in Runs, RunFits(r, run[r]), Talks(r, run[r]), run[r].pc \in Calling,
         NEW new, new \in RunOf(r, {new.out}), new.pc \in Calling, new.step = run[r].step,
         new.messages = run[r].messages, new.todo = run[r].todo, new.done = run[r].done,
         new.sending = run[r].sending, new.emitted = run[r].emitted
  PROVE  RunFits(r, new) /\ Talks(r, new)
  BY DEF RunFits, Talks, Over, Calling

\* A call is waited for.
LEMMA WaitSteps ==
  ASSUME NEW r \in Runs, RunFits(r, run[r]), Talks(r, run[r]), CallAndWait(r)
  PROVE  RunStep(r)
<1>1. PICK c \in ToolCalls[r] : Goes(r, [run[r] EXCEPT !.pc = "tool", !.call = c])
  BY DEF CallAndWait
<1> DEFINE new == [run[r] EXCEPT !.pc = "tool", !.call = c]
<1>2. /\ run[r].pc \in Calling /\ run[r].pc \notin Over /\ ~run[r].sending
      /\ "tool" \in Calling /\ c \in CallsOf(r)
  BY LimitsKnown DEF CallAndWait, At, Calling, Over
<1>3. Goes(r, new)
  BY <1>1
<1>4. /\ new \in RunOf(r, {new.out}) /\ new.pc = "tool"
      /\ new.step = run[r].step /\ new.messages = run[r].messages
      /\ new.todo = run[r].todo /\ new.done = run[r].done
      /\ new.sending = run[r].sending /\ new.emitted = run[r].emitted
  BY <1>2 DEF RunFits, RunOf, Calling, Pcs
<1> HIDE DEF new
<1>5. QED
  BY <1>2, <1>3, <1>4, StillCalling, GoesSteps

\* A citation is recorded, or lacks an argument.
LEMMA CiteSteps ==
  ASSUME NEW r \in Runs, RunFits(r, run[r]), Talks(r, run[r]), Cite(r)
  PROVE  RunStep(r)
<1>1. PICK c \in ToolCalls[r] :
        IF c.complete THEN Emits(r, [run[r] EXCEPT !.pc = "cited", !.call = c])
        ELSE Report(r, c, Failed("missing argument"))
  BY DEF Cite
<1>2. /\ run[r].pc \in Calling /\ run[r].pc \notin Over /\ ~run[r].sending /\ c \in CallsOf(r)
  BY LimitsKnown DEF Cite, At, Calling, Over
<1>3. CASE ~c.complete
  BY <1>1, <1>2, <1>3, ReportSteps
<1>4. CASE c.complete
  <2> DEFINE new == [run[r] EXCEPT !.pc = "cited", !.call = c]
  <2>1. "cited" \in Calling /\ "cited" \notin Over
    BY DEF Calling, Over
  <2>2. Emits(r, new)
    BY <1>1, <1>4
  <2>3. /\ new \in RunOf(r, {new.out}) /\ new.pc = "cited"
        /\ new.step = run[r].step /\ new.messages = run[r].messages
        /\ new.todo = run[r].todo /\ new.done = run[r].done
        /\ new.sending = run[r].sending /\ new.emitted = run[r].emitted
    BY <1>2 DEF RunFits, RunOf, Calling, Pcs
  <2> HIDE DEF new
  <2>4. QED
    BY <1>2, <2>1, <2>2, <2>3, StillCalling, EmitsSteps
<1>5. QED
  BY <1>3, <1>4

\* A result joins the conversation; after the last one the next step begins.
LEMMA FeedSteps ==
  ASSUME NEW r \in Runs, RunFits(r, run[r]), Talks(r, run[r]), Feed(r)
  PROVE  RunStep(r)
<1> DEFINE said == Append(run[r].messages, Tool(run[r].done + 1))
           done == run[r].done + 1
           todo == run[r].todo - 1
           out == Failed("none")
           new == [run[r] EXCEPT !.messages = said, !.done = done, !.todo = todo,
                                 !.call = NoCall, !.out = out]
           q == [new EXCEPT !.pc = "calls"]
           l == [new EXCEPT !.pc = "loop", !.step = run[r].step + 1]
<1>1. /\ run[r].pc = "gate" /\ run[r].pc \in Calling /\ run[r].pc \notin Over /\ ~run[r].sending
      /\ run[r].step \in Nat /\ run[r].step < Limits[r].steps /\ Limits[r].steps \in Nat
      /\ Limits[r].calls \in Nat
      /\ run[r].done \in Nat /\ run[r].todo \in Nat \ {0} /\ run[r].todo <= Limits[r].calls
      /\ Answering(r, run[r].messages, run[r].step, run[r].done, run[r].todo)
  BY LimitsKnown DEF Feed, At, RunFits, RunOf, StepsOf, TodosOf, Talks, Over, Calling
<1>2. Answering(r, said, run[r].step, done, todo)
  BY <1>1, FeedFollows
<1>3. /\ said \in Seq(Messages) /\ done \in Nat /\ todo \in TodosOf(r) /\ run[r].step + 1 \in StepsOf(r)
      /\ NoCall \in CallsOf(r) /\ {"calls", "loop"} \subseteq Pcs
  <2>1. said \in Seq(Messages)
    BY <1>2 DEF Answering, Opened
  <2>2. done \in Nat /\ todo \in TodosOf(r) /\ run[r].step + 1 \in StepsOf(r)
    BY <1>1 DEF TodosOf, StepsOf
  <2>3. QED
    BY <2>1, <2>2, LimitsKnown DEF Pcs
<1>4. Goes(r, IF todo > 0 THEN q ELSE l)
  <2>1. new.todo = todo /\ new.step = run[r].step
    BY DEF RunFits, RunOf
  <2>2. QED
    BY <2>1 DEF Feed
<1> HIDE DEF said, done, todo, out
<1>5. /\ q \in RunOf(r, {out}) /\ q.out = out /\ q.pc = "calls" /\ q.step = run[r].step
      /\ q.messages = said /\ q.emitted = run[r].emitted /\ q.sending = run[r].sending
      /\ q.todo = todo /\ q.done = done
  BY <1>1, <1>3 DEF RunFits, RunOf
<1>6. /\ l \in RunOf(r, {out}) /\ l.out = out /\ l.pc = "loop" /\ l.step = run[r].step + 1
      /\ l.messages = said /\ l.emitted = run[r].emitted /\ l.sending = run[r].sending
  BY <1>1, <1>3 DEF RunFits, RunOf
<1> HIDE DEF q, l
<1>7. CASE todo > 0
  <2>1. RunFits(r, q)
    BY <1>1, <1>5, <1>7 DEF RunFits, Calling, Over
  <2>2. Talks(r, q)
    BY <1>2, <1>5 DEF Talks
  <2>3. QED
    BY <1>1, <1>4, <1>5, <1>7, <2>1, <2>2, GoesSteps
<1>8. CASE ~(todo > 0)
  <2>1. Settled(r, said, run[r].step + 1)
    <3>1. todo = 0
      BY <1>3, <1>8, LimitsKnown DEF TodosOf
    <3>2. QED
      BY <1>1, <1>2, <1>3, <3>1, LastSettles
  <2>2. RunFits(r, l)
    BY <1>1, <1>6 DEF RunFits, Calling, Over
  <2>3. Talks(r, l)
    BY <1>6, <2>1 DEF Talks, Calling
  <2>4. QED
    BY <1>1, <1>4, <1>6, <1>8, <2>2, <2>3, GoesSteps
<1>9. QED
  BY <1>7, <1>8

\* A run whose handler has ended, or was dropped, keeps nothing.
LEMMA OverFits ==
  ASSUME NEW r \in Runs, NEW new, new \in RunOf(r, {new.out}), new.pc \in Over, ~new.sending
  PROVE  RunFits(r, new) /\ Talks(r, new)
  BY DEF RunFits, Talks, Over, Calling

\* The client has its response, or has hung up.
LEMMA EndSteps ==
  ASSUME NEW r \in Runs, Told(r) \/ HangUp(r)
  PROVE  RunStep(r)
<1>1. run[r].pc \notin Over /\ {"told", "gone"} = Over /\ Over \subseteq Pcs
  BY DEF Told, HangUp, Waiting, At, Over, Pcs
<1>2. CASE Told(r)
  <2> DEFINE exit == IF run[r].stopped = "final_answer" THEN 0 ELSE 2
             new == [IdleRun EXCEPT !.pc = "told", !.exit = exit]
  <2>1. exit \in Exits
    BY DEF Exits
  <2>2. Goes(r, new)
    BY <1>2 DEF Told
  <2> HIDE DEF exit
  <2>3. new \in RunOf(r, {new.out}) /\ new.pc = "told" /\ new.sending = FALSE
    BY <1>1, <2>1, IdleRunTyped DEF RunOf, IdleRun
  <2> HIDE DEF new
  <2>4. QED
    BY <1>1, <2>2, <2>3, OverFits, GoesSteps
<1>3. CASE HangUp(r)
  <2> DEFINE new == [IdleRun EXCEPT !.pc = "gone"]
  <2>1. Goes(r, new)
    BY <1>3 DEF HangUp
  <2>2. new \in RunOf(r, {new.out}) /\ new.pc = "gone" /\ new.sending = FALSE
    BY <1>1, IdleRunTyped DEF RunOf, IdleRun
  <2> HIDE DEF new
  <2>3. QED
    BY <1>1, <2>1, <2>2, OverFits, GoesSteps
<1>4. QED
  BY <1>2, <1>3

Finishes(r) ==
  \/ Refuse(r) \/ GoalBlocked(r) \/ OutOfSteps(r) \/ OutOfTime(r) \/ OutOfTokens(r)
  \/ ChatFails(r) \/ NoChoices(r) \/ ResultBlocked(r)

\* A run is refused, blocked, at a cap, or without an answer.
LEMMA FinishesSteps ==
  ASSUME NEW r \in Runs, RunFits(r, run[r]), Finishes(r)
  PROVE  RunStep(r)
<1>1. run[r].pc \notin Over /\ ~run[r].sending
  BY DEF Finishes, Refuse, GoalBlocked, OutOfSteps, OutOfTime, OutOfTokens, ChatFails, NoChoices,
         ResultBlocked, At, Over
<1>2. PICK why \in Whys : Finish(r, why)
  BY DEF Finishes, Refuse, GoalBlocked, OutOfSteps, OutOfTime, OutOfTokens, ChatFails, NoChoices,
         ResultBlocked, Whys
<1>3. QED
  BY <1>1, <1>2, FinishSteps

\* Every step of a run is one of the two kinds, or the broadcast of an event.
LEMMA RunSteps ==
  ASSUME NEW r \in Runs, RunFits(r, run[r]), Talks(r, run[r]), RunNext(r)
  PROVE  RunStep(r) \/ Send(r) \/ SendLost(r)
<1>1. \/ Start(r) \/ BeginRun(r) \/ Ask(r) \/ Answer(r) \/ CallAndWait(r) \/ Cite(r) \/ Feed(r)
      \/ Finishes(r) \/ (Call(r) \/ Return(r) \/ Cited(r)) \/ (Told(r) \/ HangUp(r))
      \/ Send(r) \/ SendLost(r)
  BY DEF RunNext, Finishes
<1>2. QED
  BY <1>1, StartSteps, BeginSteps, AskSteps, AnswerSteps, WaitSteps, CiteSteps, FeedSteps,
     FinishesSteps, CallSteps, EndSteps

-----------------------------------------------------------------------------
(* Agent: the feed                                                          *)

\* The parts of the events of a sequence.
LEMMA EventsTyped ==
  ASSUME NEW s \in Seq(Events)
  PROVE  /\ Len(s) \in Nat /\ DOMAIN s = 1 .. Len(s)
         /\ \A i \in DOMAIN s : s[i] \in Events /\ s[i].run \in Runs /\ s[i].n \in Nat
<1>1. Len(s) \in Nat /\ DOMAIN s = 1 .. Len(s) /\ \A i \in DOMAIN s : s[i] \in Events
  OBVIOUS
<1>2. \A e \in Events : e.run \in Runs /\ e.n \in Nat
  BY DEF Events
<1>3. QED
  BY <1>1, <1>2

\* The last events of a ring are in the order of the ring.
LEMMA LastOfIsEnd ==
  ASSUME NEW s \in Seq(Events), NEW n \in Nat
  PROVE  LET l == LastOf(s, n) IN
         /\ l \in Seq(Events) /\ Len(l) <= n /\ DOMAIN l = 1 .. Len(l) /\ Len(l) \in Nat
         /\ \E k \in Nat : \A i \in DOMAIN l : i + k \in DOMAIN s /\ l[i] = s[i + k]
<1> DEFINE kept == AtMost(n, Len(s))
           m == Len(s) - kept + 1
           l == LastOf(s, n)
<1>1. /\ kept \in Nat /\ kept <= n /\ kept <= Len(s) /\ Len(s) \in Nat /\ DOMAIN s = 1 .. Len(s)
      /\ m \in Nat /\ m >= 1 /\ Len(s) - m + 1 = kept /\ (m <= Len(s) <=> kept > 0)
      /\ \A i \in m .. Len(s) : s[i] \in Events
  BY DEF AtMost
<1>2. l = SubSeq(s, m, Len(s))
  BY DEF LastOf
<1> HIDE DEF kept, m, l
<1>3. /\ l \in Seq(Events) /\ Len(l) = kept
      /\ \A i \in 1 .. kept : l[i] = s[m + i - 1]
  BY <1>1, <1>2, SubSeqProperties
<1>4. \A i \in 1 .. kept : i + (m - 1) \in DOMAIN s /\ l[i] = s[i + (m - 1)]
  <2> TAKE i \in 1 .. kept
  <2>1. i + (m - 1) \in 1 .. Len(s) /\ m + i - 1 = i + (m - 1)
    BY <1>1
  <2>2. QED
    BY <1>1, <1>3, <2>1
<1>5. m - 1 \in Nat /\ DOMAIN l = 1 .. kept
  BY <1>1, <1>3
<1>6. QED
  BY <1>1, <1>3, <1>4, <1>5 DEF l

\* A step that tells of nothing new: a run that goes on has told what it had told.
Silent ==
  \A x \in Runs :
    /\ run'[x].pc \notin Over => run[x].pc \notin Over /\ run'[x].emitted = run[x].emitted
    /\ run'[x].sending => run[x].sending /\ run'[x].emitted = run[x].emitted

\* A step without an event tells of nothing new,
LEMMA QuietIsSilent ==
  ASSUME DOMAIN run = Runs, NEW r \in Runs, NEW q, QuietStep(r, q)
  PROVE  Silent
  BY DEF QuietStep, Silent

\* and neither does the broadcast of one that the ring has.
LEMMA SendingKept ==
  ASSUME DOMAIN run = Runs, NEW r \in Runs, RunFits(r, run[r]), Talks(r, run[r]), Sent(r)
  PROVE  /\ Silent /\ ~run'[r].sending /\ DOMAIN run' = Runs
         /\ RunFits(r, run'[r]) /\ Talks(r, run'[r])
         /\ \A x \in Runs \ {r} : run'[x] = run[x]
<1>1. run' = [run EXCEPT ![r].sending = FALSE]
  BY DEF Sent
<1>2. /\ run'[r] = [run[r] EXCEPT !.sending = FALSE] /\ DOMAIN run' = Runs
      /\ \A x \in Runs \ {r} : run'[x] = run[x]
  BY <1>1
<1>3. /\ run'[r] \in RunOf(r, {run[r].out}) /\ run'[r].out = run[r].out /\ run'[r].pc = run[r].pc
      /\ run'[r].step = run[r].step /\ run'[r].messages = run[r].messages
      /\ run'[r].todo = run[r].todo /\ run'[r].done = run[r].done
      /\ run'[r].emitted = run[r].emitted /\ run'[r].sending = FALSE
  BY <1>2 DEF RunFits, RunOf
<1>4. RunFits(r, run'[r]) /\ Talks(r, run'[r])
  BY <1>3 DEF RunFits, Talks
<1>5. Silent
  BY <1>2, <1>3 DEF Silent
<1>6. QED
  BY <1>2, <1>3, <1>4, <1>5

\* Such a step leaves the ring in order.
LEMMA SilentRing ==
  ASSUME RingInOrder, Silent, UNCHANGED ring
  PROVE  RingInOrder'
<1>1. \A i \in DOMAIN ring : ring[i].run \in Runs
  BY EventsTyped DEF RingInOrder
<1>2. QED
  BY <1>1 DEF RingInOrder, Silent

\* So does an event: it is later than all of its run.
LEMMA EmitRing ==
  ASSUME RingInOrder, DOMAIN run = Runs, \A x \in Runs : RunFits(x, run[x]),
         NEW r \in Runs, NEW q, EmitStep(r, q)
  PROVE  RingInOrder'
<1> DEFINE e == [run |-> r, n |-> q.emitted]
           t == Append(ring, e)
<1>1. /\ run[r].emitted \in Nat /\ q.emitted = run[r].emitted + 1 /\ run[r].pc \notin Over
      /\ run'[r] = q /\ \A x \in Runs \ {r} : run'[x] = run[x]
      /\ ring' = LastOf(t, RingMax)
  BY DEF EmitStep, RunFits, RunOf
<1>2. e \in Events /\ e.run = r /\ e.n = q.emitted
  BY <1>1 DEF Events
<1> HIDE DEF e
<1>3. /\ Len(ring) \in Nat /\ DOMAIN ring = 1 .. Len(ring)
      /\ \A i \in DOMAIN ring : ring[i] \in Events /\ ring[i].run \in Runs /\ ring[i].n \in Nat
      /\ t \in Seq(Events) /\ DOMAIN t = 1 .. Len(ring) + 1 /\ t[Len(ring) + 1] = e
      /\ \A i \in DOMAIN ring : t[i] = ring[i]
  <2>1. ring \in Seq(Events)
    BY DEF RingInOrder
  <2>2. QED
    BY <1>2, <2>1, EventsTyped
<1> HIDE DEF t
<1>4. \A i \in DOMAIN ring : ring[i].run = r => ring[i].n < e.n
  BY <1>1, <1>2, <1>3 DEF RingInOrder
<1>5. \A i, j \in DOMAIN t : i < j /\ t[i].run = t[j].run => t[i].n < t[j].n
  <2> SUFFICES ASSUME NEW i \in DOMAIN t, NEW j \in DOMAIN t, i < j, t[i].run = t[j].run
               PROVE  t[i].n < t[j].n
    OBVIOUS
  <2>1. i \in DOMAIN ring /\ t[i] = ring[i]
    BY <1>3
  <2>2. CASE j \in DOMAIN ring
    BY <1>3, <2>1, <2>2 DEF RingInOrder
  <2>3. CASE j = Len(ring) + 1
    BY <1>2, <1>3, <1>4, <2>1, <2>3
  <2>4. QED
    BY <1>3, <2>2, <2>3
<1>6. \A i \in DOMAIN t : run'[t[i].run].pc \notin Over => t[i].n <= run'[t[i].run].emitted
  <2> SUFFICES ASSUME NEW i \in DOMAIN t, run'[t[i].run].pc \notin Over
               PROVE  t[i].n <= run'[t[i].run].emitted
    OBVIOUS
  <2>1. CASE i = Len(ring) + 1
    BY <1>1, <1>2, <1>3, <2>1
  <2>2. CASE i \in DOMAIN ring /\ ring[i].run = r
    BY <1>1, <1>2, <1>3, <1>4, <2>2
  <2>3. CASE i \in DOMAIN ring /\ ring[i].run # r
    BY <1>1, <1>3, <2>3 DEF RingInOrder
  <2>4. QED
    BY <1>3, <2>1, <2>2, <2>3
<1> DEFINE l == LastOf(t, RingMax)
<1>7. /\ l \in Seq(Events) /\ Len(l) <= RingMax /\ DOMAIN l = 1 .. Len(l)
      /\ \E k \in Nat : \A i \in DOMAIN l : i + k \in DOMAIN t /\ l[i] = t[i + k]
  <2>1. RingMax \in Nat
    BY CapsOfRuns
  <2>2. QED
    BY <1>3, <2>1, LastOfIsEnd
<1>8. ring' = l
  BY <1>1
<1> HIDE DEF l
<1>9. PICK k \in Nat : \A i \in DOMAIN l : i + k \in DOMAIN t /\ l[i] = t[i + k]
  BY <1>7
<1>10. ASSUME NEW i \in DOMAIN l, NEW j \in DOMAIN l, i < j, l[i].run = l[j].run
       PROVE  l[i].n < l[j].n
  <2>1. i + k < j + k
    BY <1>7, <1>10
  <2>2. QED
    BY <1>5, <1>9, <1>10, <2>1
<1>11. \A i \in DOMAIN l : run'[l[i].run].pc \notin Over => l[i].n <= run'[l[i].run].emitted
  BY <1>6, <1>9
<1>12. QED
  BY <1>7, <1>8, <1>10, <1>11 DEF RingInOrder

\* What a stream was told stays as it is when nothing new is told,
LEMMA SilentHeard ==
  ASSUME NEW heard \in Seq(Events), Heard(run, heard), Silent
  PROVE  Heard(run', heard)
  BY EventsTyped DEF Heard, Silent

\* or when an event is told in the ring only: no stream can know of it.
LEMMA EmitHeard ==
  ASSUME NEW heard \in Seq(Events), Heard(run, heard), DOMAIN run = Runs,
         \A x \in Runs : RunFits(x, run[x]), NEW r \in Runs, NEW q, EmitStep(r, q)
  PROVE  Heard(run', heard)
<1>1. /\ run[r].emitted \in Nat /\ q.emitted = run[r].emitted + 1 /\ run[r].pc \notin Over
      /\ run'[r] = q /\ \A x \in Runs \ {r} : run'[x] = run[x]
  BY DEF EmitStep, RunFits, RunOf
<1>2. ASSUME NEW i \in DOMAIN heard
      PROVE  LET h == run'[heard[i].run]
             IN  /\ h.pc \notin Over => heard[i].n <= h.emitted
                 /\ h.sending /\ heard[i].n = h.emitted =>
                      \A k, l \in DOMAIN heard :
                        Again(heard, k, l) => heard[k].run # heard[i].run
  <2>1. heard[i].run \in Runs /\ heard[i].n \in Nat
    BY EventsTyped
  <2>2. CASE heard[i].run = r
    <3>1. heard[i].n <= run[r].emitted
      BY <1>1, <2>2 DEF Heard
    <3>2. heard[i].n < q.emitted
      BY <1>1, <2>1, <3>1
    <3>3. QED
      BY <1>1, <2>1, <2>2, <3>2
  <2>3. CASE heard[i].run # r
    <3>1. run'[heard[i].run] = run[heard[i].run]
      BY <1>1, <2>1, <2>3
    <3>2. QED
      BY <3>1 DEF Heard
  <2>4. QED
    BY <2>2, <2>3
<1>3. QED
  BY <1>2 DEF Heard

\* What is read in the ring is read once.
LEMMA SeedHeard ==
  ASSUME RingInOrder, NEW heard, heard = Recent, UNCHANGED run
  PROVE  heard \in Seq(Events) /\ Heard(run', heard)
<1>1. PICK k \in Nat : \A i \in DOMAIN heard : i + k \in DOMAIN ring /\ heard[i] = ring[i + k]
  BY RunBounds, LastOfIsEnd DEF Recent, RingInOrder
<1>2. heard \in Seq(Events)
  BY RunBounds, LastOfIsEnd DEF Recent, RingInOrder
<1>3. \A i, j \in DOMAIN heard :
        i < j /\ heard[i].run = heard[j].run => heard[i].n < heard[j].n
  <2> SUFFICES ASSUME NEW i \in DOMAIN heard, NEW j \in DOMAIN heard, i < j,
                      heard[i].run = heard[j].run
               PROVE  heard[i].n < heard[j].n
    OBVIOUS
  <2>1. i + k < j + k
    BY <1>2, EventsTyped
  <2>2. QED
    BY <1>1, <2>1 DEF RingInOrder
<1>4. \A i, j \in DOMAIN heard : ~Again(heard, i, j)
  BY <1>2, <1>3, EventsTyped DEF Again
<1>5. Ordered(heard) /\ AgainOnce(heard)
  BY <1>2, <1>3, <1>4, EventsTyped DEF Ordered, AgainOnce
<1>6. \A i \in DOMAIN heard :
        run[heard[i].run].pc \notin Over => heard[i].n <= run[heard[i].run].emitted
  BY <1>1 DEF RingInOrder
<1>7. QED
  BY <1>2, <1>4, <1>5, <1>6 DEF Heard

\* What is broadcast follows what was told; it is told twice only if it was read in the
\* ring, and then no event of the run was told twice before it.
LEMMA SendHeard ==
  ASSUME NEW heard \in Seq(Events), Heard(run, heard), DOMAIN run = Runs,
         NEW r \in Runs, RunFits(r, run[r]), Talks(r, run[r]), run[r].sending, Sent(r)
  PROVE  LET t == Append(heard, [run |-> r, n |-> run[r].emitted])
         IN  t \in Seq(Events) /\ Heard(run', t)
<1> DEFINE e == [run |-> r, n |-> run[r].emitted]
           t == Append(heard, e)
           last == Len(heard) + 1
<1>1. run[r].emitted \in Nat \ {0} /\ run[r].pc \notin Over
  BY DEF RunFits, RunOf
<1>2. e \in Events /\ e.run = r /\ e.n = run[r].emitted
  BY <1>1 DEF Events
<1>3. /\ Silent /\ ~run'[r].sending /\ run'[r].emitted = run[r].emitted
      /\ \A x \in Runs \ {r} : run'[x] = run[x]
  <2>1. Silent /\ ~run'[r].sending /\ \A x \in Runs \ {r} : run'[x] = run[x]
    BY SendingKept
  <2>2. run'[r].emitted = run[r].emitted
    BY DEF Sent, RunFits, RunOf
  <2>3. QED
    BY <2>1, <2>2
<1> HIDE DEF e
<1>4. /\ last \in Nat /\ DOMAIN heard = 1 .. Len(heard)
      /\ \A i \in DOMAIN heard : heard[i].run \in Runs /\ heard[i].n \in Nat /\ i < last
      /\ t \in Seq(Events) /\ DOMAIN t = (DOMAIN heard) \union {last} /\ t[last] = e
      /\ \A i \in DOMAIN heard : t[i] = heard[i]
  BY <1>2, EventsTyped
<1> HIDE DEF t, last
<1>5. \A i \in DOMAIN heard : heard[i].run = r => heard[i].n <= e.n
  BY <1>1, <1>2 DEF Heard
<1>6. ASSUME NEW i \in DOMAIN heard, heard[i] = e, NEW k \in DOMAIN heard, NEW l \in DOMAIN heard,
             Again(heard, k, l)
      PROVE  heard[k].run # r
  BY <1>2, <1>6 DEF Heard
<1>7. \A i, j \in DOMAIN t :
        Again(t, i, j) => /\ i \in DOMAIN heard
                          /\ \/ j \in DOMAIN heard /\ Again(heard, i, j)
                             \/ j = last /\ heard[i] = e
  <2> SUFFICES ASSUME NEW i \in DOMAIN t, NEW j \in DOMAIN t, Again(t, i, j)
               PROVE  /\ i \in DOMAIN heard
                      /\ \/ j \in DOMAIN heard /\ Again(heard, i, j)
                         \/ j = last /\ heard[i] = e
    OBVIOUS
  <2>1. i < j /\ t[i] = t[j]
    BY DEF Again
  <2>2. i \in DOMAIN heard
    BY <1>4, <2>1
  <2>3. QED
    BY <1>4, <2>1, <2>2 DEF Again
<1>8. Ordered(t)
  <2> SUFFICES ASSUME NEW i \in DOMAIN t, NEW j \in DOMAIN t, i < j, t[i].run = t[j].run
               PROVE  t[i].n <= t[j].n
    BY DEF Ordered
  <2>1. i \in DOMAIN heard /\ t[i] = heard[i]
    BY <1>4
  <2>2. CASE j \in DOMAIN heard
    BY <1>4, <2>1, <2>2 DEF Heard, Ordered
  <2>3. CASE j = last
    BY <1>2, <1>4, <1>5, <2>1, <2>3
  <2>4. QED
    BY <1>4, <2>2, <2>3
<1>9. AgainOnce(t)
  <2> SUFFICES ASSUME NEW i \in DOMAIN t, NEW j \in DOMAIN t, NEW k \in DOMAIN t, NEW l \in DOMAIN t,
                      Again(t, i, j), Again(t, k, l), t[i].run = t[k].run
               PROVE  i = k /\ j = l
    BY DEF AgainOnce
  <2>1. /\ i \in DOMAIN heard /\ k \in DOMAIN heard /\ t[i] = heard[i] /\ t[k] = heard[k]
        /\ \/ j \in DOMAIN heard /\ Again(heard, i, j)
           \/ j = last /\ heard[i] = e
        /\ \/ l \in DOMAIN heard /\ Again(heard, k, l)
           \/ l = last /\ heard[k] = e
    BY <1>4, <1>7
  <2>2. CASE Again(heard, i, j) /\ j \in DOMAIN heard /\ Again(heard, k, l) /\ l \in DOMAIN heard
    BY <2>1, <2>2 DEF Heard, AgainOnce
  <2>3. CASE j = last /\ heard[i] = e /\ Again(heard, k, l) /\ l \in DOMAIN heard
    BY <1>2, <1>6, <2>1, <2>3
  <2>4. CASE l = last /\ heard[k] = e /\ Again(heard, i, j) /\ j \in DOMAIN heard
    BY <1>2, <1>6, <2>1, <2>4
  <2>5. CASE j = last /\ heard[i] = e /\ l = last /\ heard[k] = e
    <3>1. ~Again(heard, i, k) /\ ~Again(heard, k, i)
      BY <1>2, <1>6, <2>1, <2>5
    <3>2. QED
      BY <1>4, <2>1, <2>5, <3>1 DEF Again
  <2>6. QED
    BY <2>1, <2>2, <2>3, <2>4, <2>5
<1>10. ASSUME NEW i \in DOMAIN t
       PROVE  LET h == run'[t[i].run]
              IN  /\ h.pc \notin Over => t[i].n <= h.emitted
                  /\ h.sending /\ t[i].n = h.emitted =>
                       \A k, l \in DOMAIN t : Again(t, k, l) => t[k].run # t[i].run
  <2>1. CASE t[i].run = r
    <3>1. i \in DOMAIN heard \/ t[i] = e
      BY <1>4
    <3>2. t[i].n <= e.n
      BY <1>1, <1>2, <1>4, <1>5, <2>1, <3>1
    <3>3. t[i].n <= run'[r].emitted
      BY <1>2, <1>3, <3>2
    <3>4. QED
      BY <1>3, <2>1, <3>3
  <2>2. CASE t[i].run # r
    <3>1. i \in DOMAIN heard /\ t[i] = heard[i] /\ run'[t[i].run] = run[t[i].run]
      BY <1>2, <1>3, <1>4, <2>2
    <3>2. ASSUME NEW k \in DOMAIN t, NEW l \in DOMAIN t, Again(t, k, l),
                 run[heard[i].run].sending, heard[i].n = run[heard[i].run].emitted
          PROVE  t[k].run # t[i].run
      <4>1. /\ k \in DOMAIN heard /\ t[k] = heard[k]
            /\ \/ l \in DOMAIN heard /\ Again(heard, k, l)
               \/ l = last /\ heard[k] = e
        BY <1>4, <1>7, <3>2
      <4>2. QED
        BY <1>2, <2>2, <3>1, <3>2, <4>1 DEF Heard
    <3>3. QED
      BY <3>1, <3>2 DEF Heard
  <2>3. QED
    BY <2>1, <2>2
<1>11. Heard(run', t)
  BY <1>8, <1>9, <1>10 DEF Heard
<1>12. QED
  BY <1>4, <1>11 DEF t, e

-----------------------------------------------------------------------------
(* Agent: what holds of every state                                         *)

\* The invariant holds at first.
LEMMA AgentStarts == AgentInit => AgentInv
<1> SUFFICES ASSUME AgentInit
             PROVE  AgentInv
  OBVIOUS
<1>1. ASSUME NEW r \in Runs
      PROVE  run[r] = IdleRun /\ RunFits(r, run[r]) /\ Talks(r, run[r])
  <2>1. run[r] = IdleRun
    BY DEF AgentInit
  <2>2. "idle" \notin {"loop", "chat"} \union Calling
    BY DEF Calling
  <2>3. QED
    BY <2>1, <2>2, IdleRunTyped DEF RunFits, Talks
<1>2. << >> \in Seq(Events) /\ Len(<< >>) = 0 /\ DOMAIN << >> = {}
  OBVIOUS
<1>3. RingInOrder
  BY <1>2, CapsOfRuns DEF AgentInit, RingInOrder
<1>4. stream \in Streams /\ stream.heard = << >>
  BY <1>2, RunBounds DEF AgentInit, Streams
<1>5. Heard(run, << >>)
  BY <1>2 DEF Heard, Ordered, AgainOnce
<1>6. QED
  BY <1>1, <1>3, <1>4, <1>5 DEF AgentInit, AgentInv

\* Each step of a run leaves the other runs as they are.
LEMMA StepOfRun ==
  ASSUME AgentInv, NEW r \in Runs, RunStep(r)
  PROVE  AgentInv'
<1>1. PICK q : /\ RunFits(r, q) /\ Talks(r, q)
               /\ EmitStep(r, q) \/ QuietStep(r, q)
  BY DEF RunStep
<1>2. /\ DOMAIN run = Runs /\ RingInOrder /\ stream \in Streams /\ Heard(run, stream.heard)
      /\ \A x \in Runs : RunFits(x, run[x]) /\ Talks(x, run[x])
      /\ stream.heard \in Seq(Events)
  BY DEF AgentInv, Streams
<1>3. run' = [run EXCEPT ![r] = q] /\ stream' = stream /\ host' = host
  BY <1>1 DEF RunStep, EmitStep, QuietStep, feed
<1>4. DOMAIN run' = Runs /\ \A x \in Runs : RunFits(x, run'[x]) /\ Talks(x, run'[x])
  BY <1>1, <1>2, <1>3
<1>5. CASE EmitStep(r, q)
  <2>1. RingInOrder' /\ Heard(run', stream.heard)
    BY <1>2, <1>5, EmitRing, EmitHeard
  <2>2. QED
    BY <1>2, <1>3, <1>4, <2>1 DEF AgentInv
<1>6. CASE QuietStep(r, q)
  <2>1. Silent /\ ring' = ring
    BY <1>2, <1>6, QuietIsSilent DEF QuietStep, feed
  <2>2. RingInOrder' /\ Heard(run', stream.heard)
    BY <1>2, <2>1, SilentRing, SilentHeard
  <2>3. QED
    BY <1>2, <1>3, <1>4, <2>2 DEF AgentInv
<1>7. QED
  BY <1>1, <1>5, <1>6

\* A broadcast reaches the stream, or is lost.
LEMMA StepOfBroadcast ==
  ASSUME AgentInv, NEW r \in Runs, Send(r) \/ SendLost(r)
  PROVE  AgentInv'
<1>1. /\ DOMAIN run = Runs /\ RingInOrder /\ stream \in Streams /\ Heard(run, stream.heard)
      /\ \A x \in Runs : RunFits(x, run[x]) /\ Talks(x, run[x])
      /\ stream.heard \in Seq(Events) /\ host \in Hosts
  BY DEF AgentInv, Streams
<1>2. Sent(r) /\ run[r].sending /\ host' = host /\ ring' = ring
  BY DEF Send, SendLost, Sent
<1>3. /\ Silent /\ DOMAIN run' = Runs
      /\ \A x \in Runs : RunFits(x, run'[x]) /\ Talks(x, run'[x])
  <2>1. /\ Silent /\ DOMAIN run' = Runs /\ RunFits(r, run'[r]) /\ Talks(r, run'[r])
        /\ \A x \in Runs \ {r} : run'[x] = run[x]
    BY <1>1, <1>2, SendingKept
  <2>2. QED
    BY <1>1, <2>1
<1>4. RingInOrder'
  BY <1>1, <1>2, <1>3, SilentRing
<1>5. stream' \in Streams /\ Heard(run', stream'.heard)
  <2> DEFINE t == Append(stream.heard, [run |-> r, n |-> run[r].emitted])
  <2>1. t \in Seq(Events) /\ Heard(run', t)
    BY <1>1, <1>2, SendHeard
  <2>2. Heard(run', stream.heard)
    BY <1>1, <1>3, SilentHeard
  <2> HIDE DEF t
  <2>3. CASE Send(r) /\ stream.at = "live"
    <3>1. stream' = [stream EXCEPT !.heard = t]
      BY <2>3 DEF Send, t
    <3>2. stream' \in Streams /\ stream'.heard = t
      BY <1>1, <2>1, <3>1 DEF Streams
    <3>3. QED
      BY <2>1, <3>2
  <2>4. CASE Send(r) /\ stream.at # "live"
    BY <1>1, <2>2, <2>4 DEF Send
  <2>5. CASE SendLost(r)
    <3>1. stream' = [stream EXCEPT !.lags = @ + 1] /\ stream.lags < MaxLags
      BY <2>5 DEF SendLost
    <3>2. stream' \in Streams /\ stream'.heard = stream.heard
      BY <1>1, <3>1, RunBounds DEF Streams
    <3>3. QED
      BY <2>2, <3>2
  <2>6. QED
    BY <2>3, <2>4, <2>5
<1>6. QED
  BY <1>1, <1>2, <1>3, <1>4, <1>5 DEF AgentInv

\* A stream begins, or subscribes.
LEMMA StepOfStream ==
  ASSUME AgentInv, Seed \/ Subscribe
  PROVE  AgentInv'
<1>1. /\ DOMAIN run = Runs /\ RingInOrder /\ stream \in Streams /\ Heard(run, stream.heard)
      /\ UNCHANGED <<host, run, ring>>
  BY DEF AgentInv, Seed, Subscribe
<1>2. RingInOrder'
  BY <1>1 DEF RingInOrder
<1>3. stream' \in Streams /\ Heard(run', stream'.heard)
  <2>1. CASE Seed
    <3> DEFINE heard == Recent
    <3>1. stream' = [stream EXCEPT !.at = "seeded", !.heard = heard]
      BY <2>1 DEF Seed
    <3>2. heard \in Seq(Events) /\ Heard(run', heard)
      BY <1>1, SeedHeard
    <3> HIDE DEF heard
    <3>3. stream' \in Streams /\ stream'.heard = heard
      BY <1>1, <3>1, <3>2 DEF Streams
    <3>4. QED
      BY <3>2, <3>3
  <2>2. CASE Subscribe
    <3>1. stream' = [stream EXCEPT !.at = "live"]
      BY <2>2 DEF Subscribe
    <3>2. stream' \in Streams /\ stream'.heard = stream.heard
      BY <1>1, <3>1 DEF Streams
    <3>3. QED
      BY <1>1, <3>2
  <2>3. QED
    BY <2>1, <2>2
<1>4. QED
  BY <1>1, <1>2, <1>3 DEF AgentInv

\* Every step keeps the invariant,
LEMMA AgentSteps == AgentInv /\ [AgentNext]_agentVars => AgentInv'
<1> SUFFICES ASSUME AgentInv, [AgentNext]_agentVars
             PROVE  AgentInv'
  OBVIOUS
<1>1. CASE Seed \/ Subscribe
  BY <1>1, StepOfStream
<1>2. ASSUME NEW r \in Runs, RunNext(r)
      PROVE  AgentInv'
  <2>1. RunFits(r, run[r]) /\ Talks(r, run[r])
    BY DEF AgentInv
  <2>2. RunStep(r) \/ Send(r) \/ SendLost(r)
    BY <1>2, <2>1, RunSteps
  <2>3. QED
    BY <2>2, StepOfRun, StepOfBroadcast
<1>3. CASE UNCHANGED agentVars
  BY <1>3 DEF AgentInv, RingInOrder, agentVars, feed
<1>4. QED
  BY <1>1, <1>2, <1>3 DEF AgentNext

\* and so it always holds.
LEMMA AgentAlways == AgentSpec => []AgentInv
<1>1. QED
  BY AgentStarts, AgentSteps, PTL DEF AgentSpec

\* The daemon's runs, the ring of the audit feed and its stream are what they are declared
\* to be: a run stays within the caps on steps and on calls of its request, and the ring
\* within its capacity.
THEOREM AgentTypeCorrect == AgentSpec => []AgentTypeOK
<1>1. AgentInv => AgentTypeOK
  <2> SUFFICES ASSUME AgentInv
               PROVE  AgentTypeOK
    OBVIOUS
  <2>1. ASSUME NEW r \in Runs
        PROVE  /\ run[r].pc \in Pcs /\ run[r].call \in ToolCalls[r] \union {NoCall}
               /\ run[r].step \in 0 .. Limits[r].steps /\ run[r].tokens \in Nat
               /\ run[r].todo \in 0 .. Limits[r].calls
               /\ run[r].sending \in BOOLEAN /\ run[r].exit \in {0, 2}
    <3>1. run[r] \in RunOf(r, {run[r].out})
      BY DEF AgentInv, RunFits
    <3>2. QED
      BY <3>1 DEF RunOf, CallsOf, StepsOf, TodosOf, Exits
  <2>2. QED
    BY <2>1 DEF AgentInv, RingInOrder, Streams, AgentTypeOK
<1>2. QED
  BY <1>1, AgentAlways, PTL

\* A stream of the audit feed never tells a run's events in another order than they
\* happened, and tells at most one of them twice, although the ring that it begins with
\* and the broadcast that it goes on with are read one after the other, without a lock.
THEOREM StreamsKeepOrder == AgentSpec => []StreamKeepsOrder
<1>1. AgentInv => StreamKeepsOrder
  <2> SUFFICES ASSUME AgentInv
               PROVE  StreamKeepsOrder
    OBVIOUS
  <2> DEFINE heard == stream.heard
             twice == {p \in (DOMAIN heard) \X (DOMAIN heard) :
                         p[1] < p[2] /\ heard[p[1]] = heard[p[2]]}
  <2>1. Ordered(heard) /\ AgainOnce(heard)
    BY DEF AgentInv, Heard
  <2> HIDE DEF heard
  <2>2. ASSUME NEW p \in twice, NEW q \in twice, heard[p[1]].run = heard[q[1]].run
        PROVE  p = q
    <3>1. /\ p = <<p[1], p[2]>> /\ p[1] \in DOMAIN heard /\ p[2] \in DOMAIN heard
          /\ Again(heard, p[1], p[2])
      BY DEF Again
    <3>2. /\ q = <<q[1], q[2]>> /\ q[1] \in DOMAIN heard /\ q[2] \in DOMAIN heard
          /\ Again(heard, q[1], q[2])
      BY DEF Again
    <3>3. p[1] = q[1] /\ p[2] = q[2]
      BY <2>1, <2>2, <3>1, <3>2 DEF AgainOnce
    <3>4. QED
      BY <3>1, <3>2, <3>3
  <2>3. \A i, j \in DOMAIN heard : i < j /\ heard[i].run = heard[j].run => heard[i].n <= heard[j].n
    BY <2>1 DEF Ordered
  <2>4. QED
    BY <2>2, <2>3 DEF StreamKeepsOrder, heard
<1>2. QED
  BY <1>1, AgentAlways, PTL

\* What the model is sent is whole: each of its answers is followed by the results of
\* those of its calls that are executed, each once, in order, and by nothing else before
\* the next answer, however many calls there were and whatever became of them.
THEOREM ConversationsAreWhole == AgentSpec => []ConversationIsWhole
<1>1. AgentInv => ConversationIsWhole
  <2> SUFFICES ASSUME AgentInv, NEW r \in Runs, run[r].pc = "chat"
               PROVE  LET said == run[r].messages
                      IN  /\ Len(said) >= 2 /\ said[1] = System /\ said[2] = User
                          /\ \A i \in Answers(said) :
                               LET next == i + Due(r, said[i]) + 1
                               IN  /\ next \in Answers(said) \union {Len(said) + 1}
                                   /\ \A k \in 1 .. Due(r, said[i]) : said[i + k] = Tool(k)
                          /\ Cardinality(Answers(said)) = run[r].step
    BY DEF ConversationIsWhole
  <2>1. Settled(r, run[r].messages, run[r].step)
    BY DEF AgentInv, Talks
  <2>2. QED
    BY <2>1 DEF Settled, Opened, NextOf, Fed
<1>2. QED
  BY <1>1, AgentAlways, PTL

-----------------------------------------------------------------------------
(* Agent: results                                                           *)

\* Whole as a result is that follows no links, and of a tree when it is a search.
WholeResult(c, out) == Whole(c, out, FALSE) /\ (c.tool = "grep" => IsTree(c.tree, c.top))

\* Whatever tool was called: a result that does not say it was cut is whole.
LEMMA OutcomeIsWhole ==
  ASSUME NEW r \in Runs, NEW c \in ToolCalls[r], c.complete,
         Outcome(c).error = "none", ~Outcome(c).cut
  PROVE  WholeResult(c, Outcome(c))
<1>1. CASE c.tool = "grep"
  <2>1. Outcome(c) = Grep(host.fs, c.path, c.tree, c.top)
    BY <1>1 DEF Outcome, KnownTools
  <2>2. IsTree(c.tree, c.top)
    BY <1>1, ToolCallsAreTyped
  <2>3. QED
    BY <1>1, <2>1, <2>2, GrepIsWhole DEF Whole, WholeResult
<1>2. CASE c.tool = "list_dir"
  <2>1. Outcome(c) = ListDir(host.fs, c.path, c.entries)
    BY <1>2 DEF Outcome, KnownTools
  <2>2. IsListing(c.entries)
    BY <1>2, ToolCallsAreTyped
  <2>3. QED
    BY <1>2, <2>1, <2>2, ListIsWhole DEF Whole, WholeResult
<1>3. CASE c.tool = "read_file"
  <2>1. Outcome(c) = ReadFile(host.fs, c.path, c.file)
    BY <1>3 DEF Outcome, KnownTools
  <2>2. c.file \in Files
    BY <1>3, ToolCallsAreTyped
  <2>3. QED
    BY <1>3, <2>1, <2>2, ReadIsWhole DEF Whole, WholeResult
<1>4. CASE c.tool \notin {"grep", "list_dir", "read_file"}
  BY <1>4 DEF Whole, WholeResult
<1>5. QED
  BY <1>1, <1>2, <1>3, <1>4

\* What a run knows of its call: that it waits for one of those that wait, that it records
\* a citation, and that the result it has is whole, if it does not say otherwise.
CallKept(h) ==
  /\ h.pc = "tool" => Awaits(h.call)
  /\ h.pc = "cited" => h.call.tool = "cite"
  /\ h.pc = "gate" /\ h.call.complete /\ h.out.error = "none" /\ ~h.out.cut => WholeResult(h.call, h.out)

\* A call that is reported has a whole result.
LEMMA ReportKeepsCall ==
  ASSUME NEW r \in Runs, RunFits(r, run[r]), DOMAIN run = Runs, NEW c, NEW out, Report(r, c, out),
         c.complete /\ out.error = "none" /\ ~out.cut => WholeResult(c, out)
  PROVE  CallKept(run'[r])
<1> DEFINE n == run[r].emitted + 1
           q == [[run[r] EXCEPT !.pc = "gate", !.call = c, !.out = out] EXCEPT !.emitted = n, !.sending = TRUE]
<1>1. run'[r] = q
  BY DEF Report, Emits
<1> HIDE DEF n
<1>2. q.pc = "gate" /\ q.call = c /\ q.out = out
  BY DEF RunFits, RunOf
<1> HIDE DEF q
<1>3. QED
  BY <1>1, <1>2 DEF CallKept

\* A step that leads elsewhere than to a call says nothing of one.
LEMMA ElsewhereKept ==
  ASSUME NEW h, h.pc \notin {"tool", "cited", "gate"}
  PROVE  CallKept(h)
  BY DEF CallKept

\* Where the steps of a run lead that report no call.
LEMMA OthersKeepCall ==
  ASSUME NEW r \in Runs, RunFits(r, run[r]), DOMAIN run = Runs,
         \/ Start(r) \/ BeginRun(r) \/ Ask(r) \/ Answer(r) \/ Feed(r)
         \/ Finishes(r) \/ Told(r) \/ HangUp(r)
  PROVE  CallKept(run'[r])
<1>1. SUFFICES run'[r].pc \notin {"tool", "cited", "gate"}
  BY ElsewhereKept
<1>2. ASSUME NEW why, Finish(r, why)
      PROVE  run'[r].pc = "done"
  <2> DEFINE n == run[r].emitted + 1
  <2>1. run'[r] = [[IdleRun EXCEPT !.pc = "done", !.stopped = why] EXCEPT !.emitted = n, !.sending = TRUE]
    BY <1>2 DEF Finish, Emits
  <2> HIDE DEF n
  <2>2. QED
    BY <2>1 DEF IdleRun
<1>3. ASSUME NEW q, Goes(r, q)
      PROVE  run'[r] = q
  BY <1>3 DEF Goes
<1>4. CASE Start(r)
  <2>1. PICK pc \in {"goal", "refused"} : Emits(r, [run[r] EXCEPT !.pc = pc])
    BY <1>4 DEF Start
  <2> DEFINE n == run[r].emitted + 1
  <2>2. run'[r] = [[run[r] EXCEPT !.pc = pc] EXCEPT !.emitted = n, !.sending = TRUE]
    BY <2>1 DEF Emits
  <2> HIDE DEF n
  <2>3. run'[r].pc = pc
    BY <2>2 DEF RunFits, RunOf
  <2>4. QED
    BY <2>3
<1>5. CASE BeginRun(r)
  <2>1. run'[r] = [run[r] EXCEPT !.pc = "loop", !.messages = <<System, User>>]
    BY <1>3, <1>5 DEF BeginRun
  <2>2. run'[r].pc = "loop"
    BY <2>1 DEF RunFits, RunOf
  <2>3. QED
    BY <2>2
<1>6. CASE Ask(r)
  <2>1. run'[r] = [run[r] EXCEPT !.pc = "chat"]
    BY <1>3, <1>6 DEF Ask
  <2>2. run'[r].pc = "chat"
    BY <2>1 DEF RunFits, RunOf
  <2>3. QED
    BY <2>2
<1>7. CASE Answer(r)
  <2>1. PICK used \in 0 .. MaxUsage, m \in 0 .. Limits[r].calls + Surplus :
          \/ Finish(r, "final_answer")
          \/ Goes(r, [[run[r] EXCEPT !.tokens = run[r].tokens + used,
                                     !.messages = Append(run[r].messages, Assistant(m))]
                        EXCEPT !.pc = "calls", !.todo = AtMost(m, Limits[r].calls), !.done = 0])
    BY <1>7 DEF Answer
  <2> DEFINE tokens == run[r].tokens + used
             said == Append(run[r].messages, Assistant(m))
             todo == AtMost(m, Limits[r].calls)
             q == [[run[r] EXCEPT !.tokens = tokens, !.messages = said]
                     EXCEPT !.pc = "calls", !.todo = todo, !.done = 0]
  <2>2. Finish(r, "final_answer") \/ Goes(r, q)
    BY <2>1
  <2> HIDE DEF tokens, said, todo
  <2>3. q.pc = "calls"
    BY DEF RunFits, RunOf
  <2> HIDE DEF q
  <2>4. QED
    BY <1>2, <1>3, <2>2, <2>3
<1>8. CASE Feed(r)
  <2> DEFINE said == Append(run[r].messages, Tool(run[r].done + 1))
             done == run[r].done + 1
             todo == run[r].todo - 1
             out == Failed("none")
             new == [run[r] EXCEPT !.messages = said, !.done = done, !.todo = todo,
                                   !.call = NoCall, !.out = out]
             next == new.step + 1
             q == [new EXCEPT !.pc = "calls"]
             l == [new EXCEPT !.pc = "loop", !.step = next]
  <2>1. Goes(r, q) \/ Goes(r, l)
    BY <1>8 DEF Feed
  <2> HIDE DEF said, done, todo, out, next
  <2>2. q.pc = "calls" /\ l.pc = "loop"
    BY DEF RunFits, RunOf
  <2> HIDE DEF q, l
  <2>3. QED
    BY <1>3, <2>1, <2>2
<1>9. CASE Finishes(r)
  <2>1. \E why : Finish(r, why)
    BY <1>9 DEF Finishes, Refuse, GoalBlocked, OutOfSteps, OutOfTime, OutOfTokens, ChatFails,
                NoChoices, ResultBlocked
  <2>2. QED
    BY <1>2, <2>1
<1>10. CASE Told(r)
  <2> DEFINE exit == IF run[r].stopped = "final_answer" THEN 0 ELSE 2
  <2>1. run'[r] = [IdleRun EXCEPT !.pc = "told", !.exit = exit]
    BY <1>3, <1>10 DEF Told
  <2> HIDE DEF exit
  <2>2. run'[r].pc = "told"
    BY <2>1 DEF IdleRun
  <2>3. QED
    BY <2>2
<1>11. CASE HangUp(r)
  <2>1. run'[r] = [IdleRun EXCEPT !.pc = "gone"]
    BY <1>3, <1>11 DEF HangUp
  <2>2. run'[r].pc = "gone"
    BY <2>1 DEF IdleRun
  <2>3. QED
    BY <2>2
<1>12. QED
  BY <1>4, <1>5, <1>6, <1>7, <1>8, <1>9, <1>10, <1>11

\* A call begins, or has come to an end.
LEMMA CallsKeepCall ==
  ASSUME NEW r \in Runs, RunFits(r, run[r]), DOMAIN run = Runs, CallKept(run[r]),
         Call(r) \/ CallAndWait(r) \/ Return(r) \/ Cite(r) \/ Cited(r)
  PROVE  CallKept(run'[r])
<1>1. CASE Call(r)
  <2>1. PICK c \in ToolCalls[r] : Report(r, c, Outcome(c))
    BY <1>1 DEF Call
  <2>2. QED
    BY <2>1, OutcomeIsWhole, ReportKeepsCall
<1>2. CASE CallAndWait(r)
  <2>1. PICK c \in ToolCalls[r] : Awaits(c) /\ Goes(r, [run[r] EXCEPT !.pc = "tool", !.call = c])
    BY <1>2 DEF CallAndWait
  <2>2. run'[r] = [run[r] EXCEPT !.pc = "tool", !.call = c]
    BY <2>1 DEF Goes
  <2>3. run'[r].pc = "tool" /\ run'[r].call = c
    BY <2>2 DEF RunFits, RunOf
  <2>4. QED
    BY <2>1, <2>3 DEF CallKept
<1>3. CASE Return(r)
  <2>1. run[r].pc = "tool" /\ Report(r, run[r].call, Outcome(run[r].call))
    BY <1>3 DEF Return, At
  <2>2. Awaits(run[r].call)
    BY <2>1 DEF CallKept
  <2>3. WholeResult(run[r].call, Outcome(run[r].call))
    BY <2>2 DEF Awaits, Whole, WholeResult
  <2>4. QED
    BY <2>1, <2>3, ReportKeepsCall
<1>4. CASE Cite(r)
  <2>1. PICK c \in ToolCalls[r] :
          /\ c.tool = "cite"
          /\ IF c.complete THEN Emits(r, [run[r] EXCEPT !.pc = "cited", !.call = c])
             ELSE Report(r, c, Failed("missing argument"))
    BY <1>4 DEF Cite
  <2>2. CASE ~c.complete
    BY <2>1, <2>2, ReportKeepsCall
  <2>3. CASE c.complete
    <3> DEFINE n == run[r].emitted + 1
               q == [[run[r] EXCEPT !.pc = "cited", !.call = c] EXCEPT !.emitted = n, !.sending = TRUE]
    <3>1. run'[r] = q
      BY <2>1, <2>3 DEF Emits
    <3> HIDE DEF n
    <3>2. q.pc = "cited" /\ q.call = c
      BY DEF RunFits, RunOf
    <3> HIDE DEF q
    <3>3. QED
      BY <2>1, <3>1, <3>2 DEF CallKept
  <2>4. QED
    BY <2>2, <2>3
<1>5. CASE Cited(r)
  <2>1. run[r].pc = "cited" /\ Report(r, run[r].call, Gives(<<0>>, FALSE))
    BY <1>5 DEF Cited, At
  <2>2. WholeResult(run[r].call, Gives(<<0>>, FALSE))
    BY <2>1 DEF CallKept, Whole, WholeResult
  <2>3. QED
    BY <2>1, <2>2, ReportKeepsCall
<1>6. QED
  BY <1>1, <1>2, <1>3, <1>4, <1>5

CallsKept == \A r \in Runs : CallKept(run[r])

\* Every step keeps it.
LEMMA StepsKeepCalls == AgentInv /\ CallsKept /\ [AgentNext]_agentVars => CallsKept'
<1> SUFFICES ASSUME AgentInv, CallsKept, [AgentNext]_agentVars, NEW x \in Runs
             PROVE  CallKept(run'[x])
  BY DEF CallsKept, CallKept
<1>1. DOMAIN run = Runs /\ CallKept(run[x]) /\ \A r \in Runs : RunFits(r, run[r])
  BY DEF AgentInv, CallsKept
<1>2. CASE Seed \/ Subscribe \/ UNCHANGED agentVars
  BY <1>1, <1>2 DEF Seed, Subscribe, agentVars
<1>3. ASSUME NEW r \in Runs, RunNext(r)
      PROVE  CallKept(run'[x])
  <2>1. RunFits(r, run[r]) /\ Talks(r, run[r]) /\ CallKept(run[r])
    BY DEF AgentInv, CallsKept
  <2>2. CASE Send(r) \/ SendLost(r)
    <3>1. run' = [run EXCEPT ![r].sending = FALSE]
      BY <2>2 DEF Send, SendLost, Sent
    <3>2. CASE x = r
      <4>1. run'[x] = [run[x] EXCEPT !.sending = FALSE]
        BY <1>1, <3>1, <3>2
      <4>2. run'[x].pc = run[x].pc /\ run'[x].call = run[x].call /\ run'[x].out = run[x].out
        BY <1>1, <4>1 DEF RunFits, RunOf
      <4>3. QED
        BY <1>1, <4>2 DEF CallKept
    <3>3. CASE x # r
      <4>1. run'[x] = run[x]
        BY <1>1, <3>1, <3>3
      <4>2. QED
        BY <1>1, <4>1
    <3>4. QED
      BY <3>2, <3>3
  <2>3. CASE ~ (Send(r) \/ SendLost(r))
    <3>1. CASE x = r
      <4>1. \/ Start(r) \/ BeginRun(r) \/ Ask(r) \/ Answer(r) \/ Feed(r)
            \/ Finishes(r) \/ Told(r) \/ HangUp(r)
            \/ Call(r) \/ CallAndWait(r) \/ Return(r) \/ Cite(r) \/ Cited(r)
        BY <1>3, <2>3 DEF RunNext, Finishes
      <4>2. QED
        BY <1>1, <2>1, <3>1, <4>1, OthersKeepCall, CallsKeepCall
    <3>2. CASE x # r
      <4>1. RunStep(r)
        BY <1>3, <2>1, <2>3, RunSteps
      <4>2. PICK q : run' = [run EXCEPT ![r] = q]
        BY <4>1 DEF RunStep, EmitStep, QuietStep
      <4>3. run'[x] = run[x]
        BY <1>1, <3>2, <4>2
      <4>4. QED
        BY <1>1, <4>3
    <3>3. QED
      BY <3>1, <3>2
  <2>4. QED
    BY <2>2, <2>3
<1>4. QED
  BY <1>2, <1>3 DEF AgentNext

\* Following links makes no difference to a tree that has none.
LEMMA LinklessIsItself ==
  ASSUME NEW tree, NEW top, IsTree(tree, top), ~HasLinks(tree)
  PROVE  Followed(tree) = tree
<1>1. ASSUME NEW d \in DOMAIN tree
      PROVE  [i \in DOMAIN tree[d] |-> LeadsTo(tree, tree[d][i])] = tree[d]
  <2>1. tree[d] \in Seq(Within(tree))
    BY DEF IsTree
  <2>2. tree[d] = [i \in DOMAIN tree[d] |-> tree[d][i]]
    BY <2>1
  <2>3. \A i \in DOMAIN tree[d] : LeadsTo(tree, tree[d][i]) = tree[d][i]
    BY DEF HasLinks, LeadsTo
  <2> QED BY <2>2, <2>3
<1>2. tree = [d \in DOMAIN tree |-> tree[d]]
  BY DEF IsTree
<1> QED BY <1>1, <1>2 DEF Followed

\* A result of a file tool that does not say it was cut leaves nothing out: a search has every
\* hit of every file that it may read, and none twice, whatever the tree and wherever its caps
\* are; a listing has every entry, and a file all that was there to read, zeros aside.  Only what
\* links lead to that the host opted into following is missing from a search.
THEOREM UncutResultsAreWhole == AgentSpec => []UncutIsWhole
<1>1. AgentInit => CallsKept
  <2> SUFFICES ASSUME AgentInit, NEW r \in Runs
               PROVE  CallKept(run[r])
    BY DEF CallsKept
  <2>1. run[r].pc = "idle"
    BY DEF AgentInit, IdleRun
  <2>2. QED
    BY <2>1, ElsewhereKept
<1>2. CallsKept => UncutIsWhole
  <2> SUFFICES ASSUME CallsKept, NEW r \in Runs, Uncut(r),
                      ~Whole(run[r].call, run[r].out, host.fs.links)
               PROVE  /\ run[r].call.tool = "grep" /\ host.fs.links /\ HasLinks(run[r].call.tree)
                      /\ Whole(run[r].call, run[r].out, FALSE)
    BY DEF UncutIsWhole
  <2>1. WholeResult(run[r].call, run[r].out)
    BY DEF CallsKept, CallKept, Uncut
  <2>2. run[r].call.tool = "grep" /\ host.fs.links
    BY <2>1 DEF Whole, WholeResult
  <2>3. IsTree(run[r].call.tree, run[r].call.top)
    BY <2>1, <2>2 DEF WholeResult
  <2>4. CASE ~HasLinks(run[r].call.tree)
    <3>1. Followed(run[r].call.tree) = run[r].call.tree
      BY <2>2, <2>3, <2>4, LinklessIsItself
    <3> QED BY <2>1, <2>2, <3>1 DEF Whole, WholeResult
  <2> QED BY <2>1, <2>2, <2>4 DEF WholeResult
<1>3. QED
  BY <1>1, <1>2, AgentAlways, StepsKeepCalls, PTL DEF AgentSpec
============================================================================
