-------------------------------- MODULE Chats --------------------------------
(***************************************************************************)
(* The chats a daemon keeps and the memories it makes of them.             *)
(*                                                                         *)
(* Chats are kept by ChatStore, which changes its list and writes the file *)
(* under one lock.  Each save of a chat starts, when memory is switched    *)
(* on, a summarizer in place of the chat's earlier one: it waits, asks the *)
(* model runtime, and records the summary.  Memories are only a file:      *)
(* whoever changes them (a summarizer, a handler) reads it whole and       *)
(* replaces it, under no lock, through one temporary file.  A prompt is    *)
(* given those of them that suit it.                                       *)
(*                                                                         *)
(* Abstracted: a chat is the moment it was last saved at, and whether it   *)
(* had too few messages then; a memory is whom it was made by and of what; *)
(* how well it suits a prompt is any number.                               *)
(* Names stand for files, known by who created them, so that two writers   *)
(* of the temporary file may hold the same one, also when it was renamed.  *)
(***************************************************************************)
EXTENDS Naturals, SequencesExt

CONSTANTS
  ChatIds,
  Saves,          \* bound: requests that save a chat; each starts one summarizer at most
  Ops,            \* bound: requests that change the memories by hand
  NoChat, Nobody,
  MemoryCap,      \* MEMORY_CAP
  TopK,           \* MEMORY_TOP_K
  MaxScore,       \* bound: how well a memory suits a prompt
  MaxFaults,      \* bound: writes of the chats that fail, restarts of the daemon
  MaxChanges      \* bound: chats deleted, memory switched on or off

ASSUME CapsArePositive == MemoryCap \in Nat \ {0} /\ TopK \in Nat
ASSUME Apart == NoChat \notin ChatIds /\ Nobody \notin Saves \union Ops /\ Saves \intersect Ops = {}
ASSUME Bounds == {MaxScore, MaxFaults, MaxChanges} \subseteq Nat

VARIABLES
  chats,     \* ChatStore: when each chat was last saved; 0 when there is none
  disk,      \* chats.json: the same
  clock,
  short,     \* the moments at which a chat was saved with fewer than two messages
  enabled,   \* memory-enabled.txt
  save,      \* the requests that save a chat
  task,      \* the summarizers, by the request that spawned them
  inflight,  \* summarize_inflight: the summarizer whose handle is kept, per chat
  writer,    \* where whoever changes the memories is
  content,   \* what each file holds
  file, tmp, \* memories.json and memories.json.tmp: the file that each names, if any
  faults, changes,
  acked,     \* history: what each chat was at the last change that succeeded
  tried,     \* history: what later changes that failed would have made of it
  wiped,     \* history: the memories that were there when they were cleared
  recalled   \* history: those of them that a prompt was given afterwards

store    == <<chats, disk, clock, short, acked, tried>>
memories == <<writer, content, file, tmp, wiped>>
bounds   == <<faults, changes>>
vars     == <<store, enabled, save, task, inflight, memories, bounds, recalled>>

Writers == Saves \union Ops

\* by: its id; at: which state of the chat it is of.
Memory == [by : Writers, chat : ChatIds \union {NoChat}, at : Nat]

Blank == [is |-> "blank", list |-> << >>]
Torn  == [is |-> "torn", list |-> << >>]

Idle  == [at |-> "idle", list |-> << >>, file |-> Nobody]
Ended == [Idle EXCEPT !.at = "ended"]

TypeOK ==
  /\ chats \in [ChatIds -> 0 .. clock] /\ disk \in [ChatIds -> 0 .. clock]
  /\ clock \in Nat /\ short \subseteq 1 .. clock /\ enabled \in BOOLEAN
  /\ save \in [Saves -> [pc : {"off", "saved", "cancelled", "done", "gone"},
                         chat : ChatIds \union {NoChat}, at : 0 .. clock]]
  /\ task \in [Saves -> [pc : {"none", "sleep", "ask", "store", "done"}, seen : 0 .. clock]]
  /\ inflight \in [ChatIds -> Saves \union {Nobody}]
  /\ writer \in [Writers -> [at : {"idle", "read", "open", "written", "ended"},
                             list : Seq(Memory), file : Writers \union {Nobody}]]
  /\ content \in [Writers -> [is : {"blank", "torn", "whole"}, list : Seq(Memory)]]
  /\ {file, tmp} \subseteq Writers \union {Nobody}
  /\ faults \in 0 .. MaxFaults /\ changes \in 0 .. MaxChanges
  /\ acked \in [ChatIds -> 0 .. clock] /\ tried \in [ChatIds -> SUBSET (0 .. clock)]
  /\ recalled \subseteq wiped /\ wiped \subseteq Memory

Init ==
  /\ chats = [c \in ChatIds |-> 0] /\ disk = chats /\ clock = 0 /\ short = {}
  /\ enabled \in BOOLEAN
  /\ save = [r \in Saves |-> [pc |-> "off", chat |-> NoChat, at |-> 0]]
  /\ task = [r \in Saves |-> [pc |-> "none", seen |-> 0]]
  /\ inflight = [c \in ChatIds |-> Nobody]
  /\ writer = [w \in Writers |-> Idle]
  /\ content = [w \in Writers |-> Blank] /\ file = Nobody /\ tmp = Nobody
  /\ faults = 0 /\ changes = 0
  /\ acked = chats /\ tried = [c \in ChatIds |-> {}]
  /\ wiped = {} /\ recalled = {}

-----------------------------------------------------------------------------
(* ChatStore                                                                 *)

Fault  == faults < MaxFaults /\ faults' = faults + 1
Change == changes < MaxChanges /\ changes' = changes + 1

WritesTheOld(new) ==   \* defect: the file is written before the list is changed
  /\ chats' = new /\ disk' = chats
  /\ acked' = [c \in ChatIds |-> IF new[c] # chats[c] THEN new[c] ELSE acked[c]]
  /\ tried' = [c \in ChatIds |-> IF new[c] # chats[c] THEN {} ELSE tried[c]]
  /\ UNCHANGED faults

\* write_atomic: what is in memory replaces the file, or the file is left as it was.
Write(new) ==
  /\ chats' = new /\ disk' = new
  /\ acked' = [c \in ChatIds |-> IF new[c] # chats[c] THEN new[c] ELSE acked[c]]
  /\ tried' = [c \in ChatIds |-> IF new[c] # chats[c] THEN {} ELSE tried[c]]
  /\ UNCHANGED faults

WriteFails(new) ==
  /\ Fault
  /\ chats' = new
  /\ tried' = [c \in ChatIds |-> IF new[c] # chats[c] THEN tried[c] \union {new[c]} ELSE tried[c]]
  /\ UNCHANGED <<disk, acked>>

\* upsert, called by chats_upsert_handler; few: the chat has fewer than two messages.
Upsert(r, c, few) ==
  LET new == [chats EXCEPT ![c] = clock + 1] IN
  /\ save[r].pc = "off"
  /\ clock' = clock + 1
  /\ short' = IF few THEN short \union {clock + 1} ELSE short
  /\ \/ Write(new) /\ save' = [save EXCEPT ![r] = [pc |-> "saved", chat |-> c, at |-> clock + 1]]
     \/ WriteFails(new) /\ save' = [save EXCEPT ![r].pc = "done"]
  /\ UNCHANGED <<enabled, task, inflight, memories, changes, recalled>>

\* delete, and clear.
Delete(gone) ==
  LET new == [c \in ChatIds |-> IF c \in gone THEN 0 ELSE chats[c]] IN
  /\ Change /\ \E c \in gone : chats[c] # 0
  /\ Write(new) \/ WriteFails(new)
  /\ UNCHANGED <<clock, short, enabled, save, task, inflight, memories, recalled>>

-----------------------------------------------------------------------------
(* schedule_chat_summarize                                                   *)

\* Is memory on, and has the chat two messages?
Wanted(r) == enabled /\ save[r].at \notin short

NotScheduled(r) ==
  /\ save[r].pc = "saved" /\ ~Wanted(r)
  /\ save' = [save EXCEPT ![r].pc = "done"]
  /\ UNCHANGED <<store, enabled, task, inflight, memories, bounds, recalled>>

\* A task is stopped where it awaits, and nowhere else.
Aborted(r) ==
  IF r # Nobody /\ task[r].pc \in {"sleep", "ask"} THEN [task EXCEPT ![r].pc = "done"] ELSE task

\* The chat's handle is taken out of the map, and its task aborted.
CancelPrevious(r) ==
  LET c == save[r].chat IN
  /\ save[r].pc = "saved" /\ Wanted(r)
  /\ task' = IF inflight[c] = Nobody THEN task ELSE Aborted(inflight[c])
  /\ inflight' = [inflight EXCEPT ![c] = Nobody]
  /\ save' = [save EXCEPT ![r].pc = "cancelled"]
  /\ UNCHANGED <<store, enabled, memories, bounds, recalled>>

SpawnThenCancels(r) ==   \* defect: the map is emptied and its task aborted last
  LET c == save[r].chat IN
  /\ save[r].pc = "cancelled"
  /\ task' = [task EXCEPT ![r].pc = "done"]
  /\ inflight' = [inflight EXCEPT ![c] = Nobody]
  /\ save' = [save EXCEPT ![r].pc = "done"]
  /\ UNCHANGED <<store, enabled, memories, bounds, recalled>>

Spawn(r) ==
  /\ save[r].pc = "cancelled"
  /\ task' = [task EXCEPT ![r].pc = "sleep"]
  /\ inflight' = [inflight EXCEPT ![save[r].chat] = r]
  /\ save' = [save EXCEPT ![r].pc = "done"]
  /\ UNCHANGED <<store, enabled, memories, bounds, recalled>>

-----------------------------------------------------------------------------
(* The summarizer                                                            *)

\* The chat is not there any more, or has too few messages now.
NotWorthIt(c) == chats[c] \in {0} \union short

\* The wait is over: is memory still on, and the chat worth a summary?
Wake(r) ==
  LET c == save[r].chat IN
  /\ task[r].pc = "sleep"
  /\ task' = [task EXCEPT ![r] = IF ~enabled \/ NotWorthIt(c)
                                 THEN [@ EXCEPT !.pc = "done"]
                                 ELSE [pc |-> "ask", seen |-> chats[c]]]
  /\ UNCHANGED <<store, enabled, save, inflight, memories, bounds, recalled>>

Forget(r) == inflight' = [inflight EXCEPT ![save[r].chat] = Nobody]

\* The runtime is not there, or gives no summary.
NoSummary(r) ==
  /\ task[r].pc = "ask"
  /\ task' = [task EXCEPT ![r].pc = "done"]
  /\ Forget(r)
  /\ UNCHANGED <<store, enabled, save, memories, bounds, recalled>>

Summary(r) ==
  /\ task[r].pc = "ask"
  /\ task' = [task EXCEPT ![r].pc = "store"]
  /\ UNCHANGED <<store, enabled, save, inflight, memories, bounds, recalled>>

\* The handle that is taken out is the chat's, whosever it is.
TaskEnds(r) ==
  /\ task[r].pc = "store" /\ writer[r].at = "ended"
  /\ task' = [task EXCEPT ![r].pc = "done"]
  /\ Forget(r)
  /\ UNCHANGED <<store, enabled, save, memories, bounds, recalled>>

-----------------------------------------------------------------------------
(* Memories: load, save, and what is changed in between                      *)

\* What cannot be read or parsed counts as no memories.
Load == IF file = Nobody THEN << >> ELSE content[file].list

\* The oldest go first when there are too many.
Capped(list) == SubSeq(list, 1 + (IF Len(list) > MemoryCap THEN Len(list) - MemoryCap ELSE 0),
                       Len(list))

Add(list, memory) == Capped(Append(list, memory))

UpsertAdds(list, memory) ==   \* defect: the chat's earlier memory is not looked for
  Add(list, memory)

\* upsert_for_chat: the chat's first memory is replaced, and keeps its id and its place.
UpsertForChat(list, memory) ==
  LET same == {i \in DOMAIN list : list[i].chat = memory.chat} IN
  IF same = {} THEN Add(list, memory)
  ELSE LET i == CHOOSE j \in same : \A k \in same : j <= k IN
       [list EXCEPT ![i] = [memory EXCEPT !.by = list[i].by]]

\* remove: an id is given once, so that what has it is one memory.
Without(list, i) == RemoveAt(list, i)

Begin(w, list) ==
  /\ writer[w].at = "idle"
  /\ writer' = [writer EXCEPT ![w] = [Idle EXCEPT !.at = "read", !.list = list]]
  /\ UNCHANGED <<store, enabled, save, task, inflight, content, file, tmp,
                 wiped, bounds, recalled>>

Summarize(r) ==
  /\ task[r].pc = "store"
  /\ Begin(r, UpsertForChat(Load, [by |-> r, chat |-> save[r].chat, at |-> task[r].seen]))

\* memory_add_handler: what is added by hand is of the chat it says, or of none, and takes
\* no other's place.
AddByHand(o, c) == Begin(o, Add(Load, [by |-> o, chat |-> c, at |-> 0]))

RemoveByHand(o) ==
  \E i \in DOMAIN Load : Begin(o, Without(Load, i))

Clear(o) == Begin(o, << >>)

\* A file that has no name and is not held by a writer is gone.
Tidied(now) ==
  [f \in Writers |-> IF f \in {file', tmp'} \union {writer'[w].file : w \in Writers}
                     THEN now[f] ELSE Blank]

\* fs::write creates or empties the temporary file.
Open(w) ==
  /\ writer[w].at = "read"
  /\ tmp' = IF tmp = Nobody THEN w ELSE tmp
  /\ content' = [content EXCEPT ![tmp'] = Blank]
  /\ writer' = [writer EXCEPT ![w].at = "open", ![w].file = tmp']
  /\ UNCHANGED <<store, enabled, save, task, inflight, file, wiped, bounds, recalled>>

\* Over what another has written meanwhile, something may stay of that.
Fill(w) ==
  LET mine == [is |-> "whole", list |-> writer[w].list]
      f    == writer[w].file IN
  /\ writer[w].at = "open"
  /\ \E now \in IF content[f] = Blank THEN {mine} ELSE {mine, Torn} :
       content' = [content EXCEPT ![f] = now]
  /\ writer' = [writer EXCEPT ![w].at = "written"]
  /\ UNCHANGED <<store, enabled, save, task, inflight, file, tmp, wiped, bounds, recalled>>

\* fs::rename takes whatever the temporary name stands for; there may be nothing.
Rename(w) ==
  /\ writer[w].at = "written"
  /\ IF tmp = Nobody THEN UNCHANGED <<file, tmp>> ELSE file' = tmp /\ tmp' = Nobody
  /\ writer' = [writer EXCEPT ![w] = Ended]
  /\ content' = Tidied(content)
  /\ wiped' = IF tmp # Nobody /\ w \in Ops /\ writer[w].list = << >>
              THEN wiped \union {Load[i] : i \in DOMAIN Load} ELSE wiped
  /\ UNCHANGED <<store, enabled, save, task, inflight, bounds, recalled>>

-----------------------------------------------------------------------------
(* Prompts                                                                   *)

\* The best first; which of equals is the newer is left open.
Rankings(list, score) ==
  LET hits == {i \in DOMAIN list : score[i] > 0} IN
  {ranks \in SetToSeqs(hits) :
     \A m, n \in DOMAIN ranks : m < n => score[ranks[m]] >= score[ranks[n]]}

\* retrieve: by the embeddings, when the embedder works and a memory has one, else by the
\* words shared; either leaves out what scores too little.  A prompt without words, and
\* without an embedding, gets the newest.
Retrieve(list, ranks) ==
  [n \in 1 .. IF Len(ranks) < TopK THEN Len(ranks) ELSE TopK |-> list[ranks[n]]]

\* inject_memory_context.
Prompt ==
  /\ enabled
  /\ \E score \in [DOMAIN Load -> 0 .. MaxScore] : \E ranks \in Rankings(Load, score) :
       LET given == Retrieve(Load, ranks) IN
       recalled' = recalled \union ({given[n] : n \in DOMAIN given} \intersect wiped)
  /\ UNCHANGED <<store, enabled, save, task, inflight, memories, bounds>>

Switch ==
  /\ Change
  /\ enabled' = ~enabled
  /\ UNCHANGED <<store, save, task, inflight, memories, faults, recalled>>

\* The daemon ends at any moment, and is started again: the files are what is left.
Restart ==
  /\ Fault
  /\ chats' = disk
  /\ save' = [r \in Saves |-> IF save[r].pc = "off" THEN save[r] ELSE [save[r] EXCEPT !.pc = "gone"]]
  /\ task' = [r \in Saves |-> IF task[r].pc = "none" THEN task[r] ELSE [task[r] EXCEPT !.pc = "done"]]
  /\ inflight' = [c \in ChatIds |-> Nobody]
  /\ writer' = [w \in Writers |-> IF writer[w].at = "idle" THEN Idle ELSE Ended]
  /\ UNCHANGED <<disk, clock, short, acked, tried, enabled, file, tmp, wiped, changes, recalled>>
  /\ content' = Tidied(content)

-----------------------------------------------------------------------------
Schedule(r) == NotScheduled(r) \/ CancelPrevious(r) \/ Spawn(r)
Task(r)     == Wake(r) \/ NoSummary(r) \/ Summary(r) \/ Summarize(r) \/ TaskEnds(r)
ByHand(o)   == (\E c \in ChatIds \union {NoChat} : AddByHand(o, c)) \/ RemoveByHand(o) \/ Clear(o)
SaveStep(w) == Open(w) \/ Fill(w) \/ Rename(w)

Next ==
  \/ \E r \in Saves, c \in ChatIds, few \in BOOLEAN : Upsert(r, c, few)
  \/ \E r \in Saves : Schedule(r) \/ Task(r)
  \/ \E gone \in SUBSET ChatIds : Delete(gone)
  \/ \E o \in Ops : ByHand(o)
  \/ \E w \in Writers : SaveStep(w)
  \/ Prompt \/ Switch \/ Restart

Spec == Init /\ [][Next]_vars

\* The runtime runs its tasks: a handler goes on, and a wait of thirty seconds ends.  Nothing
\* is assumed of the model, which may never answer.
Fairness == \A r \in Saves : WF_vars(CancelPrevious(r) \/ Spawn(r)) /\ WF_vars(Wake(r))

FairSpec == Spec /\ Fairness

-----------------------------------------------------------------------------
(* Properties                                                                *)

\* What a restart finds in chats.json is, for every chat, what the last change that was
\* acknowledged made of it, or a later one that was refused would have.
AcknowledgedIsKept == \A c \in ChatIds : disk[c] \in {acked[c]} \union tried[c]

\* However summarizers of a chat and others meet in the file, it never holds too many
\* memories, and of two memories of one chat one was added by hand, which takes no other's
\* place: summarizers stack none.
OneMemoryPerChat ==
  /\ Len(Load) <= MemoryCap
  /\ \A i, j \in DOMAIN Load :
       Load[i].chat = Load[j].chat /\ i # j => Load[i].by \in Ops \/ Load[j].by \in Ops

\* A save that schedules a summarizer is followed by a summarizer that reads the chat as it
\* was then or newer: cancelling never leaves a chat without one.  Unless memory is switched
\* off, the chat deleted or cut to fewer than two messages, or the daemon ended.
SavedIsRead ==
  \A r \in Saves :
    save[r].pc = "cancelled" ~>
      \/ \E s \in Saves : save[s].chat = save[r].chat /\ task[s].seen >= save[r].at
      \/ ~enabled \/ save[r].pc = "gone" \/ \E c \in ChatIds : c = save[r].chat /\ NotWorthIt(c)

\* "Every chat ends up with exactly one rolling summary", says upsert_for_chat, "replacing any
\* existing entry with the same chat_id": no two memories are of one chat.
OneSummary ==
  \A i, j \in DOMAIN Load : Load[i].chat = Load[j].chat /\ i # j => Load[i].chat = NoChat

\* "Cancel any in-flight summarizer for this chat", says schedule_chat_summarize: of those that
\* wait or ask there is one at most.
OneSummarizerPerChat ==
  \A r, s \in Saves :
    (task[r].pc \in {"sleep", "ask"} /\ task[s].pc \in {"sleep", "ask"} /\ r # s)
      => save[r].chat # save[s].chat

\* "Without the rename dance, a crash or sudden shutdown mid-write would corrupt the JSON", says
\* save: with it, what memories.json names is whole.
MemoriesAreWhole == file # Nobody => content[file].is = "whole"

\* "Drop every entry", says clear, "used by the wipe memory UI action": no prompt that follows is
\* given a memory that was there.
WipedIsGone == recalled = {}
=============================================================================
