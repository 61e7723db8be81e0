--------------------------- MODULE DownloadsProofs ---------------------------
(****************************************************************************)
(* Theorems about Downloads, for every set of downloads, files and inodes    *)
(* and every number of chunks.                                               *)
(****************************************************************************)
EXTENDS Downloads, TLAPS

\* A download that has begun knows its file, and one that fetches has a handle.
Equipped ==
  \A d \in Downloads :
    /\ dl[d].pc # "off" => dl[d].file \in Files
    /\ dl[d].pc \in {"fetch", "report"} => dl[d].handle \in Inodes

\* What a cancel can reach, and what it has reached, are origin downloads at work.
Cancellable ==
  /\ \A d \in doomed : Working(d) /\ dl[d].kind = "origin"
  /\ task # None => Working(task) /\ dl[task].kind = "origin"

Shape == TypeOK /\ Equipped /\ Cancellable

-----------------------------------------------------------------------------
(* Sequences of chunks                                                       *)

\* set_len gives a file of the length asked for.
LEMMA SetLenType ==
  ASSUME NEW s \in Seq({"ok", "bad"}), NEW n \in Nat
  PROVE  /\ SetLen(s, n) \in [1 .. n -> {"ok", "bad"}]
         /\ SetLen(s, n) \in Seq({"ok", "bad"}) /\ Len(SetLen(s, n)) = n
<1>1. \A k \in 1 .. n : (IF k <= Len(s) THEN s[k] ELSE "bad") \in {"ok", "bad"}
  OBVIOUS
<1>2. SetLen(s, n) \in [1 .. n -> {"ok", "bad"}]
  BY <1>1 DEF SetLen
<1>3. QED
  BY <1>2

\* Writing a chunk below the last one keeps a file within its chunks.
LEMMA WriteType ==
  ASSUME NEW s \in Seq({"ok", "bad"}), NEW n \in Nat, NEW q \in {"ok", "bad"},
         n < Chunks, Len(s) <= Chunks
  PROVE  Write(s, n, q) \in Seq({"ok", "bad"}) /\ Len(Write(s, n, q)) <= Chunks
<1> DEFINE m == IF Len(s) > n THEN Len(s) ELSE n + 1
<1>1. m \in Nat /\ m <= Chunks
  BY ChunksArePositive
<1>2. SetLen(s, m) \in [1 .. m -> {"ok", "bad"}]
  BY <1>1, SetLenType
<1>3. Write(s, n, q) = [SetLen(s, m) EXCEPT ![n + 1] = q]
  BY DEF Write
<1> HIDE DEF m
<1>4. Write(s, n, q) \in [1 .. m -> {"ok", "bad"}]
  BY <1>2, <1>3
<1>5. Len(Write(s, n, q)) = m /\ Write(s, n, q) \in Seq({"ok", "bad"})
  BY <1>1, <1>4
<1>6. QED
  BY <1>1, <1>5

-----------------------------------------------------------------------------
(* What a step does to a download                                            *)

\* The record of a download that does not run is a download.
LEMMA OffType == Off \in Download
  BY ChunksArePositive DEF Off, Download, PC

\* A step of one download changes the record of no other.
LEMMA BecomesLemma ==
  ASSUME Shape, NEW d \in Downloads, NEW r \in Download, Becomes(d, r)
  PROVE  /\ dl' \in [Downloads -> Download]
         /\ \A e \in Downloads \ {d} : dl'[e] = dl[e]
         /\ dl'[d] = IF d \in doomed THEN Off ELSE r
         /\ doomed' = doomed \ {d}
  BY OffType DEF Shape, TypeOK, Becomes

\* A step of a download to a well-formed record keeps the types.
LEMMA StepShape ==
  ASSUME Shape, NEW d \in Downloads, NEW r \in Download, Step(d, r),
         r.pc # "off" => r.file \in Files,
         r.pc \in {"fetch", "report"} => r.handle \in Inodes,
         Working(d) => r = Off \/ (r.pc \notin {"off", "begin"} /\ r.kind = dl[d].kind)
  PROVE  /\ dl' \in [Downloads -> Download]
         /\ doomed' \subseteq Downloads
         /\ task' \in Downloads \union {None}
         /\ Equipped'
         /\ Cancellable'
<1>1. /\ dl' \in [Downloads -> Download]
      /\ \A e \in Downloads \ {d} : dl'[e] = dl[e]
      /\ dl'[d] = IF d \in doomed THEN Off ELSE r
      /\ doomed' = doomed \ {d}
  BY BecomesLemma DEF Step
<1>2. task' = IF task = d /\ dl'[d] = Off THEN None ELSE task
  BY DEF Step
<1>3. doomed' \subseteq Downloads /\ task' \in Downloads \union {None}
  BY <1>1, <1>2 DEF Shape, TypeOK
<1>4. Equipped'
  BY <1>1 DEF Equipped, Shape, Off
<1>5. Cancellable'
  <2>1. \A e \in doomed' : e \in Downloads \ {d}
    BY <1>1 DEF Shape, TypeOK
  <2>2. \A e \in doomed' : Working(e)' /\ dl'[e].kind = "origin"
    BY <1>1, <2>1 DEF Shape, Cancellable, Working
  <2>3. task' # None => Working(task)' /\ dl'[task'].kind = "origin"
    BY <1>1, <1>2 DEF Shape, TypeOK, Cancellable, Working, Off
  <2>4. QED
    BY <2>2, <2>3 DEF Cancellable
<1>6. QED
  BY <1>1, <1>3, <1>4, <1>5

\* Moves that only change the program counter.
LEMMA GotoShape ==
  ASSUME Shape, NEW d \in Downloads, NEW p \in PC, Goto(d, p), dl[d].pc # "off",
         p \in {"fetch", "report"} => dl[d].handle \in Inodes,
         p \notin {"off", "begin"}
  PROVE  /\ dl' \in [Downloads -> Download]
         /\ doomed' \subseteq Downloads
         /\ task' \in Downloads \union {None}
         /\ Equipped'
         /\ Cancellable'
<1> DEFINE r == [dl[d] EXCEPT !.pc = p]
<1>1. r \in Download /\ r.pc = p /\ r.file = dl[d].file /\ r.handle = dl[d].handle
      /\ r.kind = dl[d].kind
  BY DEF Shape, TypeOK, Download
<1>2. Step(d, r) /\ dl[d].file \in Files
  BY DEF Goto, Shape, Equipped
<1> HIDE DEF r
<1>3. QED
  BY <1>1, <1>2, StepShape

\* A download that ends keeps the types.
LEMMA LeaveShape ==
  ASSUME Shape, NEW d \in Downloads, Leave(d)
  PROVE  /\ dl' \in [Downloads -> Download]
         /\ doomed' \subseteq Downloads
         /\ task' \in Downloads \union {None}
         /\ Equipped'
         /\ Cancellable'
<1>1. Step(d, Off) /\ Off.pc = "off"
  BY DEF Leave, Off
<1>2. QED
  BY <1>1, OffType, StepShape

-----------------------------------------------------------------------------
(* Types                                                                     *)

\* The variables have their types at boot.
LEMMA ShapeInit == Init => Shape
<1> SUFFICES ASSUME Init
             PROVE  Shape
  OBVIOUS
<1>1. disturbed \in BOOLEAN
  BY Zenon DEF Init
<1>2. dl \in [Downloads -> Download]
  BY OffType DEF Init
<1>3. QED
  BY <1>1, <1>2, ChunksArePositive DEF Init, Shape, TypeOK, Equipped, Cancellable, Off, Working

\* Every step of a download and every call of the user keeps the types.
LEMMA ShapeStep == Shape /\ [Next]_vars => Shape'
<1> SUFFICES ASSUME Shape, [Next]_vars
             PROVE  Shape'
  OBVIOUS
<1> USE NoneIsNothing DEF Show, disk, shown
<1>1. ASSUME NEW d \in Downloads, NEW k \in {"origin", "pull"}, NEW f \in Files, Ask(d, k, f)
      PROVE  Shape'
  <2> DEFINE r == [Off EXCEPT !.pc = "begin", !.kind = k, !.file = f]
  <2>1. r \in Download /\ r.pc = "begin" /\ r.file = f
    BY OffType DEF Download, Off, PC
  <2>2. Step(d, r) /\ ~Working(d)
    BY <1>1 DEF Ask, At, Working
  <2> HIDE DEF r
  <2>3. QED
    BY <1>1, <2>1, <2>2, StepShape DEF Ask, Shape, TypeOK
<1>2. ASSUME NEW d \in Downloads, OriginBegin(d)
      PROVE  Shape'
  <2> DEFINE r == [dl[d] EXCEPT !.pc = "probe"]
  <2>1. r \in Download /\ r.pc = "probe" /\ r.file = dl[d].file /\ r.kind = "origin"
    BY ZenonT(60), <1>2 DEF OriginBegin, Shape, TypeOK, Download, PC
  <2>2. Becomes(d, r) /\ dl[d].file \in Files /\ ~Working(d)
    BY <1>2 DEF OriginBegin, Begin, At, Working, Shape, Equipped
  <2> HIDE DEF r
  <2>3. /\ dl' \in [Downloads -> Download] /\ dl'[d] = r /\ doomed' = doomed
        /\ \A e \in Downloads \ {d} : dl'[e] = dl[e]
    BY <2>1, <2>2, BecomesLemma DEF Shape, Cancellable
  <2>4. disturbed' \in BOOLEAN
    BY <1>2, Zenon DEF OriginBegin, Begin
  <2>5. Equipped' /\ Cancellable'
    BY ZenonT(60), <1>2, <2>1, <2>2, <2>3
       DEF OriginBegin, Shape, TypeOK, Equipped, Cancellable, Working
  <2>6. QED
    BY <1>2, <2>2, <2>3, <2>4, <2>5 DEF OriginBegin, Begin, File, Shape, TypeOK
<1>3. ASSUME NEW d \in Downloads, PullBegin(d)
      PROVE  Shape'
  <2>1. disturbed' \in BOOLEAN
    BY <1>3, Zenon DEF PullBegin, Begin
  <2>2. /\ dl[d].pc = "begin" /\ Goto(d, "open") /\ dl[d].file \in Files
        /\ "open" \in PC
    BY <1>3 DEF PullBegin, Begin, At, Shape, Equipped, PC
  <2>3. QED
    BY <1>3, <2>1, <2>2, GotoShape DEF PullBegin, Begin, File, Shape, TypeOK
<1>4. ASSUME NEW d \in Downloads, OriginRefused(d)
      PROVE  Shape'
  BY <1>4, LeaveShape DEF OriginRefused, Shape, TypeOK
<1>5. ASSUME NEW d \in Downloads, PullRefused(d)
      PROVE  Shape'
  <2>1. disturbed' \in BOOLEAN
    BY <1>5, Zenon DEF PullRefused
  <2>2. QED
    BY <1>5, <2>1, LeaveShape DEF PullRefused, At, File, Shape, TypeOK, Equipped
<1>6. ASSUME NEW f \in Files, PullOfOwned(f)
      PROVE  Shape'
  <2>1. disturbed' \in BOOLEAN
    BY <1>6, Zenon DEF PullOfOwned
  <2>2. QED
    BY <1>6, <2>1 DEF PullOfOwned, tasks, Shape, TypeOK, Equipped, Cancellable, Working
<1>7. ASSUME NEW d \in Downloads, Probe(d) \/ Report(d)
      PROVE  Shape'
  <2>1. /\ "measure" \in PC /\ "fetch" \in PC /\ dl[d].pc \in {"probe", "report"}
        /\ dl[d].file \in Files
        /\ dl[d].pc = "report" => dl[d].handle \in Inodes
    BY <1>7 DEF Probe, Report, At, PC, Shape, Equipped
  <2>2. CASE Probe(d)
    BY <2>1, <2>2, GotoShape DEF Probe, At, File, Shape, TypeOK
  <2>3. CASE Report(d)
    BY <2>1, <2>3, GotoShape DEF Report, At, File, Shape, TypeOK
  <2>4. QED
    BY <1>7, <2>2, <2>3
<1>8. ASSUME NEW d \in Downloads, Measure(d)
      PROVE  Shape'
  <2>1. dl[d].pc = "measure" /\ dl[d].file \in Files /\ dl[d] \in Download
    BY <1>8 DEF Measure, At, Shape, TypeOK, Equipped
  <2> DEFINE i == part[dl[d].file]
             held == IF i = None THEN 0 ELSE Len(content[i])
             n == IF held = Chunks THEN Chunks - 1 ELSE held
             r == [dl[d] EXCEPT !.pc = "open", !.next = n]
  <2>2. held \in 0 .. Chunks
    BY <2>1, ChunksArePositive DEF Shape, TypeOK
  <2>3. n \in 0 .. Chunks
    BY <2>2, ChunksArePositive
  <2>4. Step(d, r)
    BY <1>8 DEF Measure, File
  <2> HIDE DEF n, held, i
  <2>5. r \in Download /\ r.pc = "open" /\ r.file \in Files /\ r.kind = dl[d].kind
    BY <2>1, <2>3 DEF Download, PC
  <2> HIDE DEF r
  <2>6. QED
    BY <1>8, <2>4, <2>5, StepShape DEF Measure, Shape, TypeOK
<1>9. ASSUME NEW d \in Downloads, Open(d)
      PROVE  Shape'
  <2>1. dl[d].pc = "open" /\ dl[d].file \in Files /\ dl[d] \in Download
    BY <1>9 DEF Open, At, Shape, TypeOK, Equipped
  <2>2. PICK i \in Inodes :
          /\ part' = [part EXCEPT ![dl[d].file] = i]
          /\ content' = [content EXCEPT ![i] =
               SetLen(IF i = part[dl[d].file] THEN content[i] ELSE << >>, dl[d].next)]
          /\ Step(d, [dl[d] EXCEPT !.pc = "fetch", !.handle = i])
    BY <1>9 DEF Open, File
  <2> DEFINE r == [dl[d] EXCEPT !.pc = "fetch", !.handle = i]
             s == IF i = part[dl[d].file] THEN content[i] ELSE << >>
  <2>3. r \in Download /\ r.pc = "fetch" /\ r.file \in Files /\ r.handle = i
        /\ r.kind = dl[d].kind /\ Step(d, r)
    BY <2>1, <2>2 DEF Download, PC
  <2>4. s \in Seq({"ok", "bad"}) /\ dl[d].next \in 0 .. Chunks /\ dl[d].next \in Nat
    BY <2>1, ChunksArePositive DEF Shape, TypeOK, Download
  <2>5. content' = [content EXCEPT ![i] = SetLen(s, dl[d].next)]
    BY <2>2
  <2> HIDE DEF r, s
  <2>6. /\ SetLen(s, dl[d].next) \in Seq({"ok", "bad"})
        /\ Len(SetLen(s, dl[d].next)) = dl[d].next
    BY <2>4, SetLenType
  <2>7. content' \in [Inodes -> Seq({"ok", "bad"})] /\ \A j \in Inodes : Len(content'[j]) <= Chunks
    BY <2>4, <2>5, <2>6 DEF Shape, TypeOK
  <2>8. part' \in [Files -> Inodes \union {None}]
    BY <2>2 DEF Shape, TypeOK
  <2>9. QED
    BY <1>9, <2>3, <2>7, <2>8, StepShape DEF Open, Shape, TypeOK
<1>10. ASSUME NEW d \in Downloads, Fetch(d)
       PROVE  Shape'
  <2>1. /\ dl[d].pc = "fetch" /\ dl[d].file \in Files /\ dl[d] \in Download
        /\ dl[d].handle \in Inodes /\ dl[d].next \in Nat /\ dl[d].next < Chunks
    BY <1>10, ChunksArePositive DEF Fetch, At, Shape, TypeOK, Equipped, Download
  <2>2. PICK q \in {"ok", "bad"} :
          content' = [content EXCEPT ![dl[d].handle] = Write(@, dl[d].next, q)]
    BY <1>10 DEF Fetch
  <2> DEFINE s == content[dl[d].handle]
             r == [dl[d] EXCEPT !.pc = "report", !.next = dl[d].next + 1]
  <2>3. s \in Seq({"ok", "bad"}) /\ Len(s) <= Chunks
    BY <2>1 DEF Shape, TypeOK
  <2>4. content' = [content EXCEPT ![dl[d].handle] = Write(s, dl[d].next, q)]
    BY <2>1, <2>2 DEF Shape, TypeOK
  <2>5. r \in Download /\ r.pc = "report" /\ r.file \in Files /\ r.handle \in Inodes
        /\ r.kind = dl[d].kind
    <3>1. dl[d].next + 1 \in 0 .. Chunks
      BY <2>1, ChunksArePositive
    <3>2. QED
      BY <2>1, <3>1 DEF Download, PC
  <2>6. Step(d, r)
    BY <1>10 DEF Fetch
  <2> HIDE DEF r, s
  <2>7. /\ Write(s, dl[d].next, q) \in Seq({"ok", "bad"})
        /\ Len(Write(s, dl[d].next, q)) <= Chunks
    BY <2>1, <2>3, WriteType
  <2>8. content' \in [Inodes -> Seq({"ok", "bad"})] /\ \A j \in Inodes : Len(content'[j]) <= Chunks
    BY <2>1, <2>4, <2>7 DEF Shape, TypeOK
  <2>9. QED
    BY <1>10, <2>5, <2>6, <2>8, StepShape DEF Fetch, Shape, TypeOK
<1>11. ASSUME NEW d \in Downloads, Verify(d) \/ PullFails(d)
       PROVE  Shape'
  <2>1. dl[d].pc \notin {"off", "begin"} /\ dl[d].file \in Files /\ dl[d] \in Download
    BY <1>11 DEF Verify, PullFails, At, Shape, TypeOK, Equipped
  <2> DEFINE r(p) == [dl[d] EXCEPT !.pc = p, !.handle = None]
  <2>2. ASSUME NEW p \in {"rename", "failed"}
        PROVE  /\ r(p) \in Download /\ r(p).pc = p /\ r(p).file \in Files
               /\ r(p).kind = dl[d].kind
    BY <2>1 DEF Download, PC
  <2>3. Step(d, r("rename")) \/ Step(d, r("failed"))
    BY <1>11 DEF Verify, PullFails
  <2> HIDE DEF r
  <2>4. part' \in [Files -> Inodes \union {None}]
    BY <1>11 DEF Verify, PullFails, Shape, TypeOK
  <2>5. /\ dl' \in [Downloads -> Download]
        /\ doomed' \subseteq Downloads
        /\ task' \in Downloads \union {None}
        /\ Equipped'
        /\ Cancellable'
    BY <2>2, <2>3, StepShape
  <2>6. QED
    BY <1>11, <2>4, <2>5 DEF Verify, PullFails, Shape, TypeOK
<1>12. ASSUME NEW d \in Downloads, Rename(d)
       PROVE  Shape'
  <2>1. dl[d].pc = "rename" /\ dl[d].file \in Files /\ "finish" \in PC /\ Goto(d, "finish")
    BY <1>12 DEF Rename, At, Shape, Equipped, PC
  <2>2. part' \in [Files -> Inodes \union {None}] /\ library' \in [Files -> Inodes \union {None}]
    BY <1>12, <2>1 DEF Rename, File, Shape, TypeOK
  <2>3. QED
    BY <1>12, <2>1, <2>2, GotoShape DEF Rename, Shape, TypeOK
<1>13. ASSUME NEW d \in Downloads, Finish(d) \/ OriginFails(d) \/ PullReportsFailure(d)
       PROVE  Shape'
  <2>1. dl[d].file \in Files /\ Leave(d)
    BY <1>13 DEF Finish, OriginFails, PullReportsFailure, At, Shape, Equipped
  <2>2. part' \in [Files -> Inodes \union {None}] /\ slotFile' \in Files
    BY <1>13, <2>1 DEF Finish, OriginFails, PullReportsFailure, File, Shape, TypeOK
  <2>3. QED
    BY <1>13, <2>1, <2>2, LeaveShape
       DEF Finish, OriginFails, PullReportsFailure, Shape, TypeOK
<1>14. ASSUME NEW d \in Downloads, Stops(d)
       PROVE  Shape'
  BY <1>14, LeaveShape DEF Stops, Shape, TypeOK
<1>15. ASSUME NEW f \in Files, Delete(f)
       PROVE  Shape'
  BY <1>15 DEF Delete, tasks, Shape, TypeOK, Equipped, Cancellable, Working
<1>16. CASE Cancel
  <2>1. disturbed' \in BOOLEAN
    BY <1>16, Zenon DEF Cancel
  <2>2. part' \in [Files -> Inodes \union {None}]
    BY <1>16 DEF Cancel, Shape, TypeOK
  <2>3. QED
    BY <1>16, <2>1, <2>2 DEF Cancel, Shape, TypeOK, Equipped, Cancellable, Working
<1>17. CASE Restart
  <2>1. disturbed' \in BOOLEAN
    BY <1>17, Zenon DEF Restart
  <2>2. dl' \in [Downloads -> Download]
    BY <1>17, OffType DEF Restart
  <2>3. QED
    BY <1>17, <2>1, <2>2 DEF Restart, Shape, TypeOK, Equipped, Cancellable, Working, Off
<1>18. CASE UNCHANGED vars
  BY <1>18 DEF vars, tasks, Shape, TypeOK, Equipped, Cancellable, Working
<1>19. QED
  BY <1>1, <1>2, <1>3, <1>4, <1>5, <1>6, <1>7, <1>8, <1>9, <1>10, <1>11, <1>12, <1>13,
     <1>14, <1>15, <1>16, <1>17, <1>18 DEF Next

\* Every variable keeps its shape, and no .part file grows past the chunks of its file,
\* however many downloads write to it.
THEOREM TypeCorrect == Spec => []TypeOK
<1>1. Shape => TypeOK
  BY DEF Shape
<1>2. QED
  BY <1>1, ShapeInit, ShapeStep, PTL DEF Spec

-----------------------------------------------------------------------------
(* The slot                                                                  *)

\* A cancel is undisturbed history only once the task it told to stop is gone.
Calm == SlotIsTruthful /\ (~disturbed => doomed = {})

\* The download at work goes on, and the slot goes on showing it.
LEMMA CalmGoesOn ==
  ASSUME Shape, Calm, NEW d \in Downloads, NEW r \in Download, Step(d, r), Working(d),
         r.pc \notin {"off", "begin"}, r.file = dl[d].file,
         disturbed' = disturbed, ~disturbed => shown' = shown
  PROVE  Calm'
<1> SUFFICES ASSUME ~disturbed
             PROVE  Calm'
  BY DEF Calm, SlotIsTruthful
<1>1. doomed = {} /\ shown' = shown
  BY DEF Calm
<1>2. dl'[d] = r /\ doomed' = {} /\ \A e \in Downloads \ {d} : dl'[e] = dl[e]
  BY <1>1, BecomesLemma DEF Step
<1>3. \A e \in Downloads : (Working(e)' <=> Working(e)) /\ dl'[e].file = dl[e].file
  BY <1>2 DEF Working
<1>4. QED
  BY <1>1, <1>2, <1>3 DEF Calm, SlotIsTruthful, File, shown

\* The download at work ends, and the slot no longer shows one.
LEMMA CalmEnds ==
  ASSUME Shape, Calm, NEW d \in Downloads, Leave(d), Working(d),
         disturbed' = disturbed, slot' # "Downloading"
  PROVE  Calm'
<1> SUFFICES ASSUME ~disturbed
             PROVE  Calm'
  BY DEF Calm, SlotIsTruthful
<1>1. dl'[d] = Off /\ doomed' = {} /\ \A e \in Downloads \ {d} : dl'[e] = dl[e]
  BY BecomesLemma, OffType DEF Leave, Step, Calm
<1>2. \A e \in Downloads : ~Working(e)'
  BY <1>1 DEF Working, Off, Calm, SlotIsTruthful
<1>3. QED
  BY <1>1, <1>2 DEF Calm, SlotIsTruthful

\* A download that has not the slot asks for it, or is refused.
LEMMA CalmWaits ==
  ASSUME Shape, Calm, NEW d \in Downloads, NEW r \in Download, Step(d, r), ~Working(d),
         r.pc \in {"off", "begin"}, ~disturbed' => ~disturbed /\ shown' = shown
  PROVE  Calm'
<1> SUFFICES ASSUME ~disturbed'
             PROVE  Calm'
  BY DEF Calm, SlotIsTruthful
<1>1. ~disturbed /\ shown' = shown /\ doomed = {}
  BY DEF Calm
<1>2. dl'[d] = r /\ doomed' = {} /\ \A e \in Downloads \ {d} : dl'[e] = dl[e]
  BY <1>1, BecomesLemma DEF Step
<1>3. \A e \in Downloads : (Working(e)' <=> Working(e)) /\ (Working(e) => dl'[e] = dl[e])
  BY <1>2 DEF Working
<1>4. QED
  BY <1>1, <1>2, <1>3 DEF Calm, SlotIsTruthful, File, shown

\* A download takes the slot: nobody else is at work, or something was disturbed before.
LEMMA CalmBegins ==
  ASSUME Shape, Calm, NEW d \in Downloads, NEW r \in Download, Becomes(d, r), Begin(d),
         r.pc \notin {"off", "begin"}, r.file = dl[d].file
  PROVE  Calm'
<1> SUFFICES ASSUME ~disturbed'
             PROVE  Calm'
  BY DEF Calm, SlotIsTruthful
<1>1. \A e \in Downloads : ~Working(e)
  BY DEF Begin, Calm, SlotIsTruthful
<1>2. doomed = {}
  BY <1>1 DEF Shape, TypeOK, Cancellable
<1>3. dl'[d] = r /\ doomed' = {} /\ \A e \in Downloads \ {d} : dl'[e] = dl[e]
  BY <1>2, BecomesLemma
<1>4. Working(d)' /\ \A e \in Downloads \ {d} : ~Working(e)'
  BY <1>1, <1>3 DEF Working
<1>5. slot' = "Downloading" /\ slotFile' = dl'[d].file
  BY <1>3 DEF Begin, Show, File
<1>6. QED
  BY <1>3, <1>4, <1>5 DEF Calm, SlotIsTruthful, File

\* Undisturbed, the slot and the download that works keep agreeing.
LEMMA CalmStep == Shape /\ Calm /\ [Next]_vars => Calm'
<1> SUFFICES ASSUME Shape, Calm, [Next]_vars
             PROVE  Calm'
  OBVIOUS
<1> USE DEF Show, shown
<1>1. ASSUME NEW d \in Downloads, NEW k \in {"origin", "pull"}, NEW f \in Files, Ask(d, k, f)
      PROVE  Calm'
  <2> DEFINE r == [Off EXCEPT !.pc = "begin", !.kind = k, !.file = f]
  <2>1. r \in Download /\ r.pc = "begin" /\ Step(d, r) /\ ~Working(d)
    BY <1>1, OffType DEF Ask, At, Working, Download, Off, PC
  <2> HIDE DEF r
  <2>2. QED
    BY <1>1, <2>1, CalmWaits DEF Ask
<1>2. ASSUME NEW d \in Downloads, OriginBegin(d) \/ PullBegin(d)
      PROVE  Calm'
  <2> DEFINE r(p) == [dl[d] EXCEPT !.pc = p]
  <2>1. ASSUME NEW p \in {"probe", "open"}
        PROVE  r(p) \in Download /\ r(p).pc = p /\ r(p).file = dl[d].file
    BY DEF Shape, TypeOK, Download, PC
  <2>2. (Becomes(d, r("probe")) \/ Becomes(d, r("open"))) /\ Begin(d)
    BY <1>2 DEF OriginBegin, PullBegin, Goto, Step
  <2> HIDE DEF r
  <2>3. QED
    BY <2>1, <2>2, CalmBegins
<1>3. ASSUME NEW d \in Downloads, OriginRefused(d) \/ PullRefused(d)
      PROVE  Calm'
  <2>1. /\ Step(d, Off) /\ ~Working(d) /\ Off.pc = "off"
    BY <1>3 DEF OriginRefused, PullRefused, Leave, At, Working, Off
  <2>2. CASE OriginRefused(d)
    BY <2>1, <2>2, CalmWaits, OffType DEF OriginRefused
  <2>3. CASE PullRefused(d)
    \* A pull refused by a free slot shows its failure; no download is at work then.
    <3> SUFFICES ASSUME ~disturbed'
                 PROVE  Calm'
      BY DEF Calm, SlotIsTruthful
    <3>1. ~disturbed /\ slot # "Downloading" /\ slot' = "Failed" /\ doomed = {}
      BY <2>3 DEF PullRefused, Calm
    <3>2. dl'[d] = Off /\ doomed' = {} /\ \A e \in Downloads \ {d} : dl'[e] = dl[e]
      BY <2>1, <3>1, BecomesLemma, OffType DEF Step
    <3>3. \A e \in Downloads : ~Working(e)'
      BY <3>1, <3>2 DEF Calm, SlotIsTruthful, Working, Off
    <3>4. QED
      BY <3>1, <3>2, <3>3 DEF Calm, SlotIsTruthful
  <2>4. QED
    BY <1>3, <2>2, <2>3
<1>4. ASSUME NEW f \in Files, PullOfOwned(f)
      PROVE  Calm'
  BY <1>4 DEF PullOfOwned, tasks, Calm, SlotIsTruthful, Working, File
<1>5. ASSUME NEW d \in Downloads, Probe(d) \/ Report(d) \/ Rename(d)
      PROVE  Calm'
  <2> DEFINE r(p) == [dl[d] EXCEPT !.pc = p]
  <2>1. ASSUME NEW p \in {"measure", "fetch", "finish"}
        PROVE  r(p) \in Download /\ r(p).pc = p /\ r(p).file = dl[d].file
    BY DEF Shape, TypeOK, Download, PC
  <2>2. Working(d)
    BY <1>5 DEF Probe, Report, Rename, At, Working
  <2>3. ~disturbed => slot = "Downloading" /\ slotFile = dl[d].file
    BY <2>2 DEF Calm, SlotIsTruthful, File
  <2>4. /\ Step(d, r("measure")) \/ Step(d, r("fetch")) \/ Step(d, r("finish"))
        /\ disturbed' = disturbed
        /\ ~disturbed => shown' = shown
    BY <1>5, <2>3 DEF Probe, Report, Rename, Goto, File
  <2> HIDE DEF r
  <2>5. QED
    BY <2>1, <2>2, <2>4, CalmGoesOn
<1>6. ASSUME NEW d \in Downloads,
             Measure(d) \/ Open(d) \/ Fetch(d) \/ Verify(d) \/ PullFails(d)
      PROVE  Calm'
  <2>1. Working(d) /\ disturbed' = disturbed /\ shown' = shown /\ dl[d] \in Download
    BY <1>6 DEF Measure, Open, Fetch, Verify, PullFails, At, Working, Shape, TypeOK
  <2>2. PICK p \in {"open", "fetch", "report", "rename", "failed"},
             h \in Inodes \union {None}, n \in 0 .. Chunks :
          Step(d, [dl[d] EXCEPT !.pc = p, !.handle = h, !.next = n])
    <3>1. CASE Measure(d)
      <4> DEFINE i == part[dl[d].file]
                 held == IF i = None THEN 0 ELSE Len(content[i])
                 n == IF held = Chunks THEN Chunks - 1 ELSE held
      <4>1. held \in 0 .. Chunks
        BY <2>1, <3>1, ChunksArePositive DEF Measure, At, Shape, TypeOK, Equipped
      <4>2. n \in 0 .. Chunks
        BY <4>1, ChunksArePositive
      <4>3. Step(d, [dl[d] EXCEPT !.pc = "open", !.next = n])
        BY <3>1 DEF Measure, File
      <4> HIDE DEF n
      <4>4. [dl[d] EXCEPT !.pc = "open", !.next = n]
              = [dl[d] EXCEPT !.pc = "open", !.handle = dl[d].handle, !.next = n]
        BY <2>1 DEF Download
      <4>5. QED
        BY <2>1, <4>2, <4>3, <4>4 DEF Download
    <3>2. CASE Open(d)
      <4>1. PICK i \in Inodes : Step(d, [dl[d] EXCEPT !.pc = "fetch", !.handle = i])
        BY <3>2 DEF Open
      <4>2. [dl[d] EXCEPT !.pc = "fetch", !.handle = i]
              = [dl[d] EXCEPT !.pc = "fetch", !.handle = i, !.next = dl[d].next]
        BY <2>1 DEF Download
      <4>3. QED
        BY <2>1, <4>1, <4>2 DEF Download
    <3>3. CASE Fetch(d)
      <4>1. dl[d].next + 1 \in 0 .. Chunks
        BY <2>1, <3>3, ChunksArePositive DEF Fetch, Download
      <4>2. Step(d, [dl[d] EXCEPT !.pc = "report", !.next = dl[d].next + 1])
        BY <3>3 DEF Fetch
      <4>3. [dl[d] EXCEPT !.pc = "report", !.next = dl[d].next + 1]
              = [dl[d] EXCEPT !.pc = "report", !.handle = dl[d].handle, !.next = dl[d].next + 1]
        BY <2>1 DEF Download
      <4>4. QED
        BY <2>1, <4>1, <4>2, <4>3 DEF Download
    <3>4. CASE Verify(d) \/ PullFails(d)
      <4>1. PICK p \in {"rename", "failed"} :
              Step(d, [dl[d] EXCEPT !.pc = p, !.handle = None])
        BY <3>4 DEF Verify, PullFails
      <4>2. [dl[d] EXCEPT !.pc = p, !.handle = None]
              = [dl[d] EXCEPT !.pc = p, !.handle = None, !.next = dl[d].next]
        BY <2>1 DEF Download
      <4>3. Step(d, [dl[d] EXCEPT !.pc = p, !.handle = None, !.next = dl[d].next])
        BY <4>1, <4>2
      <4>4. /\ p \in {"open", "fetch", "report", "rename", "failed"}
            /\ None \in Inodes \union {None} /\ dl[d].next \in 0 .. Chunks
        BY <2>1 DEF Download
      <4>5. QED
        BY <4>3, <4>4, Zenon
    <3>5. QED
      BY <1>6, <3>1, <3>2, <3>3, <3>4
  <2> DEFINE r == [dl[d] EXCEPT !.pc = p, !.handle = h, !.next = n]
  <2>3. /\ r \in Download /\ r.pc \notin {"off", "begin"} /\ r.file = dl[d].file
        /\ Step(d, r)
    BY <2>1, <2>2 DEF Download, PC
  <2> HIDE DEF r
  <2>4. QED
    BY <2>1, <2>3, CalmGoesOn
<1>7. ASSUME NEW d \in Downloads, Finish(d) \/ OriginFails(d) \/ PullReportsFailure(d)
      PROVE  Calm'
  <2>1. Working(d) /\ Leave(d) /\ disturbed' = disturbed /\ slot' # "Downloading"
    BY <1>7 DEF Finish, OriginFails, PullReportsFailure, At, Working
  <2>2. QED
    BY <2>1, CalmEnds
<1>8. ASSUME NEW d \in Downloads, Stops(d)
      PROVE  Calm'
  BY <1>8 DEF Stops, Calm, SlotIsTruthful
<1>9. ASSUME NEW f \in Files, Delete(f)
      PROVE  Calm'
  BY <1>9 DEF Delete, tasks, Calm, SlotIsTruthful, Working, File
<1>10. CASE Cancel
  BY <1>10 DEF Cancel, Calm, SlotIsTruthful
<1>11. CASE Restart
  BY <1>11 DEF Restart, Calm, SlotIsTruthful, Working, Off
<1>12. CASE UNCHANGED vars
  BY <1>12 DEF vars, tasks, Calm, SlotIsTruthful, Working, File
<1>13. QED
  BY <1>1, <1>2, <1>3, <1>4, <1>5, <1>6, <1>7, <1>8, <1>9, <1>10, <1>11, <1>12 DEF Next

\* At boot the slot is empty and no download works.
LEMMA CalmInit == Init => Calm
  BY DEF Init, Calm, SlotIsTruthful, Working, Off

\* The user's one slot tells the truth, and one download runs at a time, until a cancel
\* or a refused pull frees the slot of a live download.
THEOREM OneAtATime == Spec => []SlotIsTruthful
<1>1. Init => Shape /\ Calm
  BY ShapeInit, CalmInit
<1>2. Shape /\ Calm /\ [Next]_vars => Shape' /\ Calm'
  BY ShapeStep, CalmStep
<1>3. Calm => SlotIsTruthful
  BY DEF Calm
<1>4. QED
  BY <1>1, <1>2, <1>3, PTL DEF Spec

-----------------------------------------------------------------------------
(* The library                                                               *)

\* A .part shares its inode with no library file and with no other .part.
Apart ==
  \A f, g \in Files : part[f] # None => /\ part[f] # library[g]
                                        /\ f # g => part[f] # part[g]

\* A download at work writes to the file that is under the name, and what it has verified
\* is still there when it renames it.
HasItsPart(d) ==
  /\ dl[d].pc \in {"fetch", "report"} => dl[d].handle = part[dl[d].file]
  /\ dl[d].pc = "rename" =>
       part[dl[d].file] # None /\ Verified(content[part[dl[d].file]])

WorkersHaveTheirPart == ~disturbed => \A d \in Downloads : HasItsPart(d)

\* No step gives the inode of a .part a second name.
LEMMA ApartStep == Shape /\ Apart /\ [Next]_vars => Apart'
<1> SUFFICES ASSUME Shape, Apart, [Next]_vars
             PROVE  Apart'
  OBVIOUS
<1> USE NoneIsNothing DEF Apart, disk
<1>1. CASE UNCHANGED <<part, library>>
  BY <1>1
<1>2. ASSUME NEW d \in Downloads, Open(d)
      PROVE  Apart'
  <2>1. dl[d].file \in Files
    BY <1>2 DEF Open, At, Shape, Equipped
  <2>2. PICK i \in Inodes :
          /\ IF part[dl[d].file] = None THEN Free(i) ELSE i = part[dl[d].file]
          /\ part' = [part EXCEPT ![dl[d].file] = i]
          /\ library' = library
    BY <1>2 DEF Open, File
  <2>3. QED
    BY <2>1, <2>2 DEF Free, Shape, TypeOK
<1>3. ASSUME NEW d \in Downloads, Rename(d)
      PROVE  Apart'
  <2>1. dl[d].file \in Files
    BY <1>3 DEF Rename, At, Shape, Equipped
  <2>2. QED
    BY <1>3, <2>1 DEF Rename, File, Shape, TypeOK
<1>4. ASSUME NEW d \in Downloads, OriginFails(d) \/ PullFails(d)
      PROVE  Apart'
  BY <1>4 DEF OriginFails, PullFails, Shape, TypeOK
<1>5. CASE Cancel
  BY <1>5 DEF Cancel, Shape, TypeOK
<1>6. ASSUME NEW f \in Files, Delete(f)
      PROVE  Apart'
  BY <1>6 DEF Delete, Shape, TypeOK
<1>7. QED
  BY <1>1, <1>2, <1>3, <1>4, <1>5, <1>6
     DEF Next, vars, Ask, OriginBegin, PullBegin, Begin, OriginRefused, PullRefused,
         PullOfOwned, Probe, Measure, Fetch, Report, Verify, Finish, PullReportsFailure,
         Stops, Restart

\* The only download at work moves on: the others stay as they are, not at work.
LEMMA OnlyWorkerMoves ==
  ASSUME Shape, Calm, ~disturbed, NEW d \in Downloads, NEW r \in Download, Step(d, r),
         Working(d)
  PROVE  dl'[d] = r /\ \A e \in Downloads \ {d} : dl'[e] = dl[e] /\ ~Working(e)
  BY BecomesLemma DEF Calm, SlotIsTruthful, Step

\* Undisturbed, the download that works keeps the .part it opened, in each of its steps.
LEMMA PartStep ==
  Shape /\ Calm /\ WorkersHaveTheirPart /\ [Next]_vars => WorkersHaveTheirPart'
<1> SUFFICES ASSUME Shape, Calm, WorkersHaveTheirPart, [Next]_vars, ~disturbed'
             PROVE  \A e \in Downloads : HasItsPart(e)'
  BY DEF WorkersHaveTheirPart
<1> USE DEF HasItsPart, disk
<1>0. ~disturbed => \A e \in Downloads : HasItsPart(e)
  BY DEF WorkersHaveTheirPart
<1>1. ASSUME NEW d \in Downloads, NEW k \in {"origin", "pull"}, NEW f \in Files, Ask(d, k, f)
      PROVE  \A e \in Downloads : HasItsPart(e)'
  <2> DEFINE r == [Off EXCEPT !.pc = "begin", !.kind = k, !.file = f]
  <2>1. r \in Download /\ r.pc = "begin" /\ Step(d, r) /\ ~disturbed
    BY <1>1, OffType DEF Ask, Download, Off, PC
  <2> HIDE DEF r
  <2>2. dl'[d] = r /\ \A e \in Downloads \ {d} : dl'[e] = dl[e]
    BY <2>1, BecomesLemma DEF Step, Calm
  <2>3. QED
    BY <1>0, <1>1, <2>1, <2>2 DEF Ask
<1>2. ASSUME NEW d \in Downloads, OriginBegin(d) \/ PullBegin(d)
      PROVE  \A e \in Downloads : HasItsPart(e)'
  \* Nobody was at work, so the download that begins is the only one to look at.
  <2> DEFINE r(p) == [dl[d] EXCEPT !.pc = p]
  <2>1. ASSUME NEW p \in {"probe", "open"}
        PROVE  r(p) \in Download /\ r(p).pc = p
    BY DEF Shape, TypeOK, Download, PC
  <2>2. PICK p \in {"probe", "open"} : Becomes(d, r(p))
    BY <1>2 DEF OriginBegin, PullBegin, Goto, Step
  <2>3. \A e \in Downloads : ~Working(e)
    BY <1>2 DEF OriginBegin, PullBegin, Begin, Calm, SlotIsTruthful
  <2> HIDE DEF r
  <2>4. /\ dl'[d] \in {Off, r(p)} /\ r(p).pc = p
        /\ \A e \in Downloads \ {d} : dl'[e] = dl[e]
    BY <2>1, <2>2, BecomesLemma
  <2>5. QED
    BY <2>3, <2>4 DEF Working, Off
<1>3. ASSUME NEW d \in Downloads, Leave(d), UNCHANGED content,
             UNCHANGED part \/ (Working(d) /\ part' = [part EXCEPT ![dl[d].file] = None]),
             disturbed' = disturbed \/ ~disturbed
      PROVE  \A e \in Downloads : HasItsPart(e)'
  <2>1. /\ ~disturbed
        /\ dl'[d] = Off /\ \A e \in Downloads \ {d} : dl'[e] = dl[e]
    BY <1>3, BecomesLemma, OffType DEF Leave, Step
  <2>2. ASSUME NEW e \in Downloads \ {d}
        PROVE  HasItsPart(e)'
    <3>1. CASE UNCHANGED part
      BY <1>0, <1>3, <2>1, <3>1
    <3>2. CASE Working(d)
      BY <2>1, <3>2 DEF Calm, SlotIsTruthful, Working
    <3>3. QED
      BY <1>3, <3>1, <3>2
  <2>3. QED
    BY <2>1, <2>2 DEF Off
<1>4. ASSUME NEW d \in Downloads, NEW p \in {"measure", "fetch", "finish"}, Goto(d, p),
             Working(d), disturbed' = disturbed,
             p = "fetch" => dl[d].pc = "report" /\ UNCHANGED <<part, content>>
      PROVE  \A e \in Downloads : HasItsPart(e)'
  <2> DEFINE r == [dl[d] EXCEPT !.pc = p]
  <2>1. r \in Download /\ r.pc = p /\ r.file = dl[d].file /\ r.handle = dl[d].handle
    BY DEF Shape, TypeOK, Download, PC
  <2>2. Step(d, r)
    BY <1>4 DEF Goto
  <2> HIDE DEF r
  <2>3. dl'[d] = r /\ \A e \in Downloads \ {d} : dl'[e] = dl[e] /\ ~Working(e)
    BY <1>4, <2>1, <2>2, OnlyWorkerMoves
  <2>4. QED
    BY <1>0, <1>4, <2>1, <2>3 DEF Working
<1>5. ASSUME NEW d \in Downloads, Measure(d)
      PROVE  \A e \in Downloads : HasItsPart(e)'
  <2>1. Working(d) /\ ~disturbed /\ dl[d] \in Download /\ dl[d].file \in Files
    BY <1>5 DEF Measure, At, Working, Shape, TypeOK, Equipped
  <2> DEFINE i == part[dl[d].file]
             held == IF i = None THEN 0 ELSE Len(content[i])
             n == IF held = Chunks THEN Chunks - 1 ELSE held
             r == [dl[d] EXCEPT !.pc = "open", !.next = n]
  <2>2. held \in 0 .. Chunks
    BY <2>1, ChunksArePositive DEF Shape, TypeOK
  <2>3. n \in 0 .. Chunks
    BY <2>2, ChunksArePositive
  <2>4. Step(d, r)
    BY <1>5 DEF Measure, File
  <2> HIDE DEF n, held, i
  <2>5. r \in Download /\ r.pc = "open"
    BY <2>1, <2>3 DEF Download, PC
  <2> HIDE DEF r
  <2>6. dl'[d] = r /\ \A e \in Downloads \ {d} : dl'[e] = dl[e] /\ ~Working(e)
    BY <2>1, <2>4, <2>5, OnlyWorkerMoves
  <2>7. QED
    BY <2>5, <2>6 DEF Working
<1>6. ASSUME NEW d \in Downloads, Open(d)
      PROVE  \A e \in Downloads : HasItsPart(e)'
  <2>1. Working(d) /\ ~disturbed /\ dl[d] \in Download /\ dl[d].file \in Files
    BY <1>6 DEF Open, At, Working, Shape, TypeOK, Equipped
  <2>2. PICK i \in Inodes : /\ part' = [part EXCEPT ![dl[d].file] = i]
                            /\ Step(d, [dl[d] EXCEPT !.pc = "fetch", !.handle = i])
    BY <1>6 DEF Open, File
  <2> DEFINE r == [dl[d] EXCEPT !.pc = "fetch", !.handle = i]
  <2>3. r \in Download /\ r.pc = "fetch" /\ r.handle = i /\ r.file = dl[d].file
    BY <2>1 DEF Download, PC
  <2>4. Step(d, r)
    BY <2>2
  <2> HIDE DEF r
  <2>5. dl'[d] = r /\ \A e \in Downloads \ {d} : dl'[e] = dl[e] /\ ~Working(e)
    BY <2>1, <2>3, <2>4, OnlyWorkerMoves
  <2>6. QED
    BY <2>1, <2>2, <2>3, <2>5 DEF Working, Shape, TypeOK
<1>7. ASSUME NEW d \in Downloads, Fetch(d)
      PROVE  \A e \in Downloads : HasItsPart(e)'
  <2>1. /\ Working(d) /\ ~disturbed /\ dl[d] \in Download /\ dl[d].pc = "fetch"
        /\ dl[d].next + 1 \in 0 .. Chunks /\ part' = part
    BY <1>7, ChunksArePositive DEF Fetch, At, Working, Shape, TypeOK, Download
  <2> DEFINE r == [dl[d] EXCEPT !.pc = "report", !.next = dl[d].next + 1]
  <2>2. /\ r \in Download /\ r.pc = "report" /\ r.handle = dl[d].handle
        /\ r.file = dl[d].file
    BY <2>1 DEF Download, PC
  <2>3. Step(d, r)
    BY <1>7 DEF Fetch
  <2> HIDE DEF r
  <2>4. dl'[d] = r /\ \A e \in Downloads \ {d} : dl'[e] = dl[e] /\ ~Working(e)
    BY <2>1, <2>2, <2>3, OnlyWorkerMoves
  <2>5. QED
    BY <1>0, <2>1, <2>2, <2>4 DEF Working
<1>8. ASSUME NEW d \in Downloads, Verify(d) \/ PullFails(d)
      PROVE  \A e \in Downloads : HasItsPart(e)'
  <2>1. Working(d) /\ ~disturbed /\ dl[d] \in Download
    BY <1>8 DEF Verify, PullFails, At, Working, Shape, TypeOK
  <2> DEFINE r(p) == [dl[d] EXCEPT !.pc = p, !.handle = None]
  <2>2. ASSUME NEW p \in {"rename", "failed"}
        PROVE  r(p) \in Download /\ r(p).pc = p /\ r(p).file = dl[d].file
    BY <2>1 DEF Download, PC
  <2>3. \/ /\ Step(d, r("rename")) /\ UNCHANGED <<part, content>>
           /\ part[dl[d].file] # None /\ Verified(content[part[dl[d].file]])
        \/ Step(d, r("failed"))
    BY <1>8 DEF Verify, PullFails, File
  <2> HIDE DEF r
  <2>4. /\ \/ dl'[d] = r("rename") /\ Step(d, r("rename"))
           \/ dl'[d] = r("failed")
        /\ \A e \in Downloads \ {d} : dl'[e] = dl[e] /\ ~Working(e)
    BY <2>1, <2>2, <2>3, OnlyWorkerMoves
  <2>5. \/ /\ dl'[d] = r("rename") /\ UNCHANGED <<part, content>>
           /\ part[dl[d].file] # None /\ Verified(content[part[dl[d].file]])
        \/ dl'[d] = r("failed")
    BY <2>1, <2>2, <2>3, OnlyWorkerMoves
  <2>6. QED
    BY <2>2, <2>4, <2>5 DEF Working
<1>9. CASE Restart
  BY <1>9 DEF Restart, Off
<1>10. CASE UNCHANGED <<dl, part, content, disturbed>>
  BY <1>0, <1>10
<1>11. ASSUME NEW d \in Downloads,
              OriginRefused(d) \/ PullRefused(d) \/ Finish(d) \/ OriginFails(d)
                \/ PullReportsFailure(d) \/ Stops(d)
       PROVE  \A e \in Downloads : HasItsPart(e)'
  <2>1. /\ Leave(d) /\ UNCHANGED content
        /\ UNCHANGED part \/ (Working(d) /\ part' = [part EXCEPT ![dl[d].file] = None])
        /\ disturbed' = disturbed \/ ~disturbed
    BY <1>11 DEF OriginRefused, PullRefused, Finish, OriginFails, PullReportsFailure, Stops,
                 At, Working, File
  <2>2. QED
    BY <1>3, <2>1
<1>12. ASSUME NEW d \in Downloads, Probe(d) \/ Report(d) \/ Rename(d)
       PROVE  \A e \in Downloads : HasItsPart(e)'
  <2>1. PICK p \in {"measure", "fetch", "finish"} :
          /\ Goto(d, p) /\ Working(d) /\ disturbed' = disturbed
          /\ p = "fetch" => dl[d].pc = "report" /\ UNCHANGED <<part, content>>
    BY <1>12 DEF Probe, Report, Rename, At, Working
  <2>2. QED
    BY <1>4, <2>1
<1>13. ASSUME NEW f \in Files, PullOfOwned(f)
       PROVE  \A e \in Downloads : HasItsPart(e)'
  BY <1>0, <1>13 DEF PullOfOwned, tasks
<1>14. QED
  BY <1>1, <1>2, <1>5, <1>6, <1>7, <1>8, <1>9, <1>10, <1>11, <1>12, <1>13
     DEF Next, vars, tasks, Delete, Cancel

\* The inductive invariant of the downloads, from which their theorems follow.
LEMMA LibraryInvariant == Spec => [](Shape /\ Calm /\ Apart /\ WorkersHaveTheirPart)
<1>1. Init => Apart /\ WorkersHaveTheirPart
  BY DEF Init, Apart, WorkersHaveTheirPart, HasItsPart, Off
<1>2. QED
  BY <1>1, ShapeInit, CalmInit, ShapeStep, CalmStep, ApartStep, PartStep, PTL DEF Spec

\* What a step puts into the library is a file whose digest has just been checked.
LEMMA LibraryStepHolds ==
  ASSUME Shape, Apart, WorkersHaveTheirPart, [Next]_vars
  PROVE  LibraryStep
<1> SUFFICES ASSUME ~disturbed, NEW f \in Files, library'[f] # None
             PROVE  IF library'[f] = library[f]
                    THEN content'[library[f]] = content[library[f]]
                    ELSE Verified(content'[library'[f]])
  BY DEF LibraryStep
<1> USE NoneIsNothing DEF disk
<1>1. CASE UNCHANGED <<library, content>>
  BY <1>1
<1>2. ASSUME NEW d \in Downloads, Open(d)
      PROVE  library' = library /\ content'[library[f]] = content[library[f]]
  <2>1. dl[d].file \in Files /\ library' = library
    BY <1>2 DEF Open, At, Shape, Equipped
  <2>2. PICK i \in Inodes :
          /\ IF part[dl[d].file] = None THEN Free(i) ELSE i = part[dl[d].file]
          /\ content' = [content EXCEPT ![i] =
               SetLen(IF i = part[dl[d].file] THEN content[i] ELSE << >>, dl[d].next)]
    BY <1>2 DEF Open, File
  <2>3. i # library[f]
    BY <2>1, <2>2 DEF Free, Apart
  <2>4. library[f] \in Inodes
    BY <2>1 DEF Shape, TypeOK
  <2>5. QED
    BY <2>1, <2>2, <2>3, <2>4 DEF Shape, TypeOK
<1>3. ASSUME NEW d \in Downloads, Fetch(d)
      PROVE  library' = library /\ content'[library[f]] = content[library[f]]
  <2>1. /\ dl[d].file \in Files /\ library' = library /\ dl[d].handle \in Inodes
        /\ dl[d].handle = part[dl[d].file]
    BY <1>3 DEF Fetch, At, Shape, Equipped, WorkersHaveTheirPart, HasItsPart
  <2>2. dl[d].handle # library[f] /\ library[f] \in Inodes
    BY <2>1 DEF Apart, Shape, TypeOK
  <2>3. QED
    BY <1>3, <2>1, <2>2 DEF Fetch, Shape, TypeOK
<1>4. ASSUME NEW d \in Downloads, Rename(d)
      PROVE  /\ content' = content
             /\ library'[f] # library[f] => Verified(content[library'[f]])
  BY <1>4 DEF Rename, At, File, Shape, TypeOK, Equipped, WorkersHaveTheirPart, HasItsPart
<1>5. ASSUME NEW g \in Files, Delete(g)
      PROVE  content' = content /\ library'[f] = library[f]
  BY <1>5 DEF Delete, Shape, TypeOK
<1>6. QED
  BY <1>1, <1>2, <1>3, <1>4, <1>5
     DEF Next, vars, Ask, OriginBegin, PullBegin, Begin, OriginRefused, PullRefused,
         PullOfOwned, Probe, Measure, Report, Verify, Finish, OriginFails, PullFails,
         PullReportsFailure, Stops, Cancel, Restart

\* Only complete files with the pinned digest enter the library, and nobody writes to one
\* that is there, until a cancel or a refused pull frees the slot of a live download.
THEOREM VerifiedFilesOnly == Spec => OnlyVerifiedFilesEnter
<1>1. Shape /\ Calm /\ Apart /\ WorkersHaveTheirPart /\ [Next]_vars => [LibraryStep]_vars
  BY LibraryStepHolds
<1>2. QED
  BY <1>1, LibraryInvariant, PTL DEF Spec, OnlyVerifiedFilesEnter
=============================================================================
