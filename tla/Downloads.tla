------------------------------ MODULE Downloads ------------------------------
(****************************************************************************)
(* Model downloads of one machine: the origin path of                       *)
(* unhosted-core/src/model_manager.rs (start_download, cancel_download,     *)
(* download_verified) and the pull from a peer of lib.rs                    *)
(* (models_download_handler, pull_model_from_peer).                         *)
(*                                                                          *)
(* Every download of a file works on the same path, "<file>.part".  A mutex *)
(* guards the one download slot that the user sees, not the files: a task   *)
(* opens, removes, reads and renames by path, and writes through the handle *)
(* it opened.  So the file system is modelled with inodes: a name leads to  *)
(* an inode, and a handle keeps its inode when the name is removed.         *)
(*                                                                          *)
(* An action is one file operation or one critical section of the slot, with*)
(* the network request before it.  A request may bring right or wrong bytes *)
(* or fail.  Only catalog files are modelled: their digest is pinned and    *)
(* their last chunk is shorter than the others.                             *)
(****************************************************************************)
EXTENDS Naturals, Sequences

CONSTANTS
  Downloads,  \* downloads that can be alive together
  Files,      \* catalog files
  Inodes,     \* inodes of the models dir
  Chunks,     \* chunks of a file
  None        \* no download, no file, no inode

ASSUME ChunksArePositive == Chunks \in Nat \ {0}
ASSUME NoneIsNothing     == None \notin Downloads \union Files \union Inodes

VARIABLES
  slot,       \* tag of Inner.download
  slotFile,   \* its file, None when Idle
  task,       \* Inner.download_task: the origin download it can abort, or None
  part,       \* inode of "<file>.part"
  library,    \* inode of the file in the library
  content,    \* chunks in each inode: "ok", or "bad" for wrong bytes and for holes
  dl,         \* each download: program counter, kind, file, inode written to, next chunk
  doomed,     \* cancelled origin downloads that have not stopped yet
  disturbed   \* history: a cancel or a refused pull has freed the slot of a live download

shown == <<slot, slotFile>>
disk  == <<part, library, content>>
tasks == <<task, dl, doomed>>
vars  == <<shown, disk, tasks, disturbed>>

PC == {"off", "begin", "probe", "measure", "open", "fetch", "report", "rename", "finish",
       "failed"}

Download == [pc : PC, kind : {"origin", "pull"}, file : Files \union {None},
             handle : Inodes \union {None}, next : 0 .. Chunks]

Off == [pc |-> "off", kind |-> "origin", file |-> None, handle |-> None, next |-> 0]

Init ==
  /\ slot = "Idle" /\ slotFile = None /\ task = None
  /\ part = [f \in Files |-> None]
  /\ library = [f \in Files |-> None]
  /\ content = [i \in Inodes |-> << >>]
  /\ dl = [d \in Downloads |-> Off]
  /\ doomed = {}
  /\ disturbed = FALSE

\* The download has the slot, or had it when it began.
Working(d) == dl[d].pc \notin {"off", "begin"}

At(d, pcs) == dl[d].pc \in pcs
File(d)    == dl[d].file

Free(i) == /\ \A f \in Files : part[f] # i /\ library[f] # i
           /\ \A d \in Downloads : dl[d].handle # i

Show(s, f) == slot' = s /\ slotFile' = f

\* d becomes r; a cancelled download stops at its next await, whatever it did.
Becomes(d, r) ==
  /\ dl' = [dl EXCEPT ![d] = IF d \in doomed THEN Off ELSE r]
  /\ doomed' = doomed \ {d}

\* The handle of a task that is over aborts nothing and is forgotten.
Step(d, r) ==
  /\ Becomes(d, r)
  /\ task' = IF task = d /\ dl'[d] = Off THEN None ELSE task

Goto(d, p) == Step(d, [dl[d] EXCEPT !.pc = p])
Leave(d)   == Step(d, Off)

\* What set_len and a write at a position do to the chunks of a file.
SetLen(s, n)   == [k \in 1 .. n |-> IF k <= Len(s) THEN s[k] ELSE "bad"]
Write(s, n, q) == [SetLen(s, IF Len(s) > n THEN Len(s) ELSE n + 1) EXCEPT ![n + 1] = q]

\* The bytes have the pinned digest.
Verified(s) == s = [k \in 1 .. Chunks |-> "ok"]

-----------------------------------------------------------------------------
(* Beginning                                                                 *)

\* The handler, or the pull it spawned, finds that the file is not in the library.
Ask(d, k, f) ==
  /\ At(d, {"off"})
  /\ library[f] = None
  /\ Step(d, [Off EXCEPT !.pc = "begin", !.kind = k, !.file = f])
  /\ UNCHANGED <<shown, disk, disturbed>>

\* The slot is taken, and what was disturbed is over once no other download is at work.
Begin(d) ==
  /\ At(d, {"begin"})
  /\ slot # "Downloading"
  /\ Show("Downloading", File(d))
  /\ disturbed' = (disturbed /\ \E e \in Downloads : Working(e))
  /\ UNCHANGED disk

OriginBegin(d) ==
  /\ dl[d].kind = "origin"
  /\ Begin(d)
  /\ task' = d
  /\ Becomes(d, [dl[d] EXCEPT !.pc = "probe"])

PullBeginUnchecked(d) ==   \* defect: takes the slot whoever has it
  /\ At(d, {"begin"}) /\ dl[d].kind = "pull"
  /\ Show("Downloading", File(d))
  /\ Goto(d, "open")
  /\ UNCHANGED <<disk, disturbed>>

PullBegin(d) ==
  /\ dl[d].kind = "pull"
  /\ Begin(d)
  /\ Goto(d, "open")

\* Another download is running: start_download returns an error.
OriginRefused(d) ==
  /\ At(d, {"begin"}) /\ dl[d].kind = "origin"
  /\ slot = "Downloading"
  /\ Leave(d)
  /\ UNCHANGED <<shown, disk, disturbed>>

\* The peer does not answer or has lost the model, or another download is running: the
\* pull reports its failure in the slot, whoever has it.
PullRefused(d) ==
  /\ At(d, {"begin"}) /\ dl[d].kind = "pull"
  /\ Show("Failed", File(d))
  /\ disturbed' = (disturbed \/ slot = "Downloading")
  /\ Leave(d)
  /\ UNCHANGED disk

\* A pull of a file that is in the library already fails before it begins.
PullOfOwned(f) ==
  /\ library[f] # None
  /\ Show("Failed", f)
  /\ disturbed' = (disturbed \/ slot = "Downloading")
  /\ UNCHANGED <<disk, tasks>>

-----------------------------------------------------------------------------
(* Working                                                                   *)

\* The origin told the size; progress is reported without a look at the slot.
Probe(d) ==
  /\ At(d, {"probe"})
  /\ Show("Downloading", File(d))
  /\ Goto(d, "measure")
  /\ UNCHANGED <<disk, disturbed>>

\* How many whole chunks an existing .part holds; the last, shorter one is not whole.
Measure(d) ==
  /\ At(d, {"measure"})
  /\ LET i    == part[File(d)]
         held == IF i = None THEN 0 ELSE Len(content[i])
     IN  Step(d, [dl[d] EXCEPT !.pc = "open",
                               !.next = IF held = Chunks THEN Chunks - 1 ELSE held])
  /\ UNCHANGED <<shown, disk, disturbed>>

\* Open or create the .part and cut it to the chunks to be kept (none, for a pull).
Open(d) ==
  /\ At(d, {"open"})
  /\ \E i \in Inodes :
       /\ IF part[File(d)] = None THEN Free(i) ELSE i = part[File(d)]
       /\ part' = [part EXCEPT ![File(d)] = i]
       /\ content' = [content EXCEPT ![i] =
            SetLen(IF i = part[File(d)] THEN content[i] ELSE << >>, dl[d].next)]
       /\ Step(d, [dl[d] EXCEPT !.pc = "fetch", !.handle = i])
  /\ UNCHANGED <<shown, library, disturbed>>

FetchOneMore(d) ==   \* defect: counts the chunks up to and including the last number
  /\ At(d, {"fetch"})
  /\ dl[d].next <= Chunks
  /\ content' = [content EXCEPT ![dl[d].handle] = Write(@, dl[d].next, "ok")]
  /\ Step(d, [dl[d] EXCEPT !.pc = "report", !.next = @ + 1])
  /\ UNCHANGED <<shown, part, library, disturbed>>

Fetch(d) ==
  /\ At(d, {"fetch"})
  /\ dl[d].next < Chunks
  /\ \E q \in {"ok", "bad"} :
       content' = [content EXCEPT ![dl[d].handle] = Write(@, dl[d].next, q)]
  /\ Step(d, [dl[d] EXCEPT !.pc = "report", !.next = @ + 1])
  /\ UNCHANGED <<shown, part, library, disturbed>>

\* The origin path takes the slot without a look, a pull only if it still shows its file.
Report(d) ==
  /\ At(d, {"report"})
  /\ IF dl[d].kind = "origin" THEN Show("Downloading", File(d)) ELSE UNCHANGED shown
  /\ Goto(d, "fetch")
  /\ UNCHANGED <<disk, disturbed>>

VerifySize(d) ==   \* defect: the size-only check of earlier releases
  /\ At(d, {"fetch"})
  /\ dl[d].next = Chunks
  /\ part[File(d)] # None /\ Len(content[part[File(d)]]) = Chunks
  /\ Step(d, [dl[d] EXCEPT !.pc = "rename", !.handle = None])
  /\ UNCHANGED <<shown, disk, disturbed>>

\* Read back what is now under the name, and find the digest right.
Verify(d) ==
  /\ At(d, {"fetch"})
  /\ dl[d].next = Chunks
  /\ part[File(d)] # None /\ Verified(content[part[File(d)]])
  /\ Step(d, [dl[d] EXCEPT !.pc = "rename", !.handle = None])
  /\ UNCHANGED <<shown, disk, disturbed>>

\* Rename what is now under the name.
Rename(d) ==
  /\ At(d, {"rename"})
  /\ part[File(d)] # None
  /\ library' = [library EXCEPT ![File(d)] = part[File(d)]]
  /\ part' = [part EXCEPT ![File(d)] = None]
  /\ Goto(d, "finish")
  /\ UNCHANGED <<shown, content, disturbed>>

Finish(d) ==
  /\ At(d, {"finish"})
  /\ Show("Completed", File(d))
  /\ Leave(d)
  /\ UNCHANGED <<disk, disturbed>>

\* A request or a file operation fails, or the digest is wrong.  The origin path removes
\* what is under the name and reports in one critical section.
OriginFails(d) ==
  /\ dl[d].kind = "origin"
  /\ At(d, {"probe", "measure", "open", "fetch", "rename"})
  /\ part' = [part EXCEPT ![File(d)] = None]
  /\ Show("Failed", File(d))
  /\ Leave(d)
  /\ UNCHANGED <<library, content, disturbed>>

\* A pull removes it after a bad chunk or digest, and not when a file operation fails.
PullFails(d) ==
  /\ dl[d].kind = "pull"
  /\ At(d, {"open", "fetch", "rename"})
  /\ \/ part' = part
     \/ At(d, {"fetch"}) /\ part' = [part EXCEPT ![File(d)] = None]
  /\ Step(d, [dl[d] EXCEPT !.pc = "failed", !.handle = None])
  /\ UNCHANGED <<shown, library, content, disturbed>>

PullReportsFailure(d) ==
  /\ At(d, {"failed"})
  /\ Show("Failed", File(d))
  /\ Leave(d)
  /\ UNCHANGED <<disk, disturbed>>

-----------------------------------------------------------------------------
(* Cancelling, deleting and restarting                                       *)

\* The origin task, if there is one, is told to stop; a pull is not.  The .part of the
\* file shown is removed.
Cancel ==
  /\ slot = "Downloading"
  /\ doomed' = doomed \union ({task} \ {None})
  /\ task' = None
  /\ part' = [part EXCEPT ![slotFile] = None]
  /\ Show("Idle", None)
  /\ disturbed' = TRUE
  /\ UNCHANGED <<library, content, dl>>

\* A cancelled task is dropped at its await.
Stops(d) ==
  /\ d \in doomed
  /\ Leave(d)
  /\ UNCHANGED <<shown, disk, disturbed>>

\* The user deletes a library file (ModelRuntime has the details).
Delete(f) ==
  /\ library[f] # None
  /\ library' = [library EXCEPT ![f] = None]
  /\ UNCHANGED <<shown, part, content, tasks, disturbed>>

\* The daemon is killed and started again: only the files remain.
Restart ==
  /\ Show("Idle", None)
  /\ task' = None
  /\ dl' = [d \in Downloads |-> Off]
  /\ doomed' = {}
  /\ disturbed' = FALSE
  /\ UNCHANGED disk

Next ==
  \/ \E d \in Downloads, k \in {"origin", "pull"}, f \in Files : Ask(d, k, f)
  \/ \E d \in Downloads :
       \/ OriginBegin(d) \/ OriginRefused(d) \/ PullBegin(d) \/ PullRefused(d)
       \/ Probe(d) \/ Measure(d) \/ Open(d) \/ Fetch(d) \/ Report(d)
       \/ Verify(d) \/ Rename(d) \/ Finish(d)
       \/ OriginFails(d) \/ PullFails(d) \/ PullReportsFailure(d) \/ Stops(d)
  \/ \E f \in Files : PullOfOwned(f) \/ Delete(f)
  \/ Cancel \/ Restart

Spec == Init /\ [][Next]_vars

-----------------------------------------------------------------------------
(* Properties                                                                *)

\* Every variable keeps its shape; no file is longer than its chunks.
TypeOK ==
  /\ slot \in {"Idle", "Downloading", "Completed", "Failed"}
  /\ slotFile \in Files \union {None}
  /\ slot = "Downloading" => slotFile # None
  /\ task \in Downloads \union {None}
  /\ part \in [Files -> Inodes \union {None}]
  /\ library \in [Files -> Inodes \union {None}]
  /\ content \in [Inodes -> Seq({"ok", "bad"})]
  /\ \A i \in Inodes : Len(content[i]) <= Chunks
  /\ dl \in [Downloads -> Download]
  /\ doomed \subseteq Downloads
  /\ disturbed \in BOOLEAN

\* "One at a time": while no live download has lost the slot, the slot says Downloading
\* exactly when a download is at work, only one is, and it is the one shown.
SlotIsTruthful ==
  ~disturbed =>
    /\ slot = "Downloading" <=> \E d \in Downloads : Working(d)
    /\ \A d \in Downloads : Working(d) => File(d) = slotFile
    /\ \A d, e \in Downloads : Working(d) /\ Working(e) => d = e

\* While no live download has lost the slot, a file that enters the library is complete
\* and has the pinned digest, and a file that is there is not written to, whatever earlier
\* downloads, failures and restarts left in the .part.
LibraryStep ==
  ~disturbed =>
    \A f \in Files : library'[f] # None =>
      IF library'[f] = library[f] THEN content'[library[f]] = content[library[f]]
                                  ELSE Verified(content'[library'[f]])

OnlyVerifiedFilesEnter == [][LibraryStep]_vars

\* What the documentation of pull_model_from_peer says of the library file: "verify the
\* whole-file digest, and atomically rename into place ... the hashes decide".
LibraryIsVerified ==
  \A f \in Files : library[f] # None => Verified(content[library[f]])
=============================================================================
