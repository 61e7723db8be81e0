----------------------------- MODULE AgentTools -----------------------------
(***************************************************************************)
(* What the tools of the agent loop return: files read, directories        *)
(* listed, trees searched, commit histories and web pages, each cut at its *)
(* cap.  A host's configuration says which roots may be read and whether   *)
(* symbolic links are followed.                                            *)
(*                                                                         *)
(* Abstracted: a path is what the checks ask of it (where it leads, of     *)
(* what kind it is, whether a deny pattern matches); a file is how many    *)
(* bytes it has, of text or not, and on how many lines the pattern occurs; *)
(* a directory is its entries in the order in which the file system gives  *)
(* them, an entry's name being a number.                                   *)
(***************************************************************************)
EXTENDS Naturals, SequencesExt

CONSTANTS
  MaxBytes,       \* max_bytes of the configuration
  ListMax,        \* LIST_DIR_MAX_ENTRIES
  GrepMaxMatches, \* GREP_MAX_MATCHES
  GrepMaxFiles,   \* GREP_MAX_FILES
  LogMax,         \* GIT_LOG_MAX_ENTRIES
  FetchMax        \* DEFAULT_MAX_BYTES of web_fetch

ASSUME ToolCapsArePositive ==
  {MaxBytes, ListMax, GrepMaxMatches, GrepMaxFiles, LogMax, FetchMax} \subseteq Nat \ {0}

\* A result: the error it is instead, whether it says it was cut, and what it shows.
Failed(why) == [error |-> why, cut |-> FALSE, shown |-> << >>]
Gives(shown, cut) == [error |-> "none", cut |-> cut, shown |-> shown]

-----------------------------------------------------------------------------
(* The sandbox every file tool asks, in the order in which it asks          *)

\* load: no file is no access; the roots are resolved once.
Configs == [roots : BOOLEAN, links : BOOLEAN]   \* some root is given; follow_symlinks

Paths == [absolute : BOOLEAN, link : BOOLEAN, exists : BOOLEAN,
          at : {"inside", "root", "outside"}, denied : BOOLEAN, kind : {"file", "dir", "other"}]

\* is_strictly_under; a root itself may be listed and searched, not read.
Under(path, places) == path.at \in places

Refusals(cfg, path, places) ==
  << <<~cfg.roots,                "not configured">>,
     <<~path.absolute,            "not absolute">>,
     <<path.link /\ ~cfg.links,   "symlink refused">>,
     <<~path.exists,              "not found">>,
     <<~Under(path, places),      "outside">>,
     <<path.denied,               "denied">> >>

\* The reason of the first check that refuses, if any does.
FirstOf(checks) ==
  LET first == SelectInSeq(checks, LAMBDA c : c[1])
  IN  IF first = 0 THEN "none" ELSE checks[first][2]

Refusal(cfg, path, places) == FirstOf(Refusals(cfg, path, places))

-----------------------------------------------------------------------------
(* read_file                                                                *)

AtMost(a, b) == IF a <= b THEN a ELSE b

\* size: when it was looked at; left: when it was read, for it may have shrunk;
\* splits: the cap falls within a character.
Files == [size : 0 .. MaxBytes + 1, left : 0 .. MaxBytes + 1, text : BOOLEAN, splits : BOOLEAN]

\* The buffer keeps its length when the file has shrunk: zeros stand for the rest.
ReadFile(cfg, path, file) ==
  LET refusal == Refusal(cfg, path, {"inside"})
      toRead  == AtMost(file.size, MaxBytes)
      cut     == file.size > MaxBytes
  IN  IF refusal # "none" THEN Failed(refusal)
      ELSE IF path.kind # "file" THEN Failed("not a regular file")
      ELSE IF ~file.text \/ (cut /\ file.splits) THEN Failed("not utf-8")
      ELSE Gives([i \in 1 .. toRead |-> IF i <= file.left THEN i ELSE 0], cut)

-----------------------------------------------------------------------------
(* list_dir: the first entries that the file system gives, then sorted      *)

Entry(name, kind, denied, big, text, hits, dir) ==
  [name |-> name, kind |-> kind, denied |-> denied, big |-> big, text |-> text,
   hits |-> hits, dir |-> dir]

IsEntry(e) ==
  /\ e.name \in Nat /\ e.hits \in Nat
  /\ e.kind \in {"file", "dir", "link", "other"}
  /\ {e.denied, e.big, e.text} \subseteq BOOLEAN

IsListing(entries) ==
  entries \in Seq(Range(entries)) /\ \A e \in Range(entries) : IsEntry(e)

\* sort_by: some order of the names in which none comes before a smaller one.
Sorted(names) ==
  LET order == CHOOSE p \in Bijection(DOMAIN names, DOMAIN names) :
                 \A i, j \in DOMAIN names : i < j => names[p[i]] <= names[p[j]]
  IN  [i \in DOMAIN names |-> names[order[i]]]

ListDir(cfg, path, entries) ==
  LET refusal == Refusal(cfg, path, {"inside", "root"})
      names   == [i \in 1 .. AtMost(Len(entries), ListMax) |-> entries[i].name]
  IN  IF refusal # "none" THEN Failed(refusal)
      ELSE IF path.kind # "dir" THEN Failed("not a directory")
      ELSE Gives(Sorted(names), Len(entries) > ListMax)

-----------------------------------------------------------------------------
(* grep_files: directories are walked last found first                      *)

\* tree: what each directory holds; those not in its domain cannot be read.
Within(tree) == UNION {Range(tree[d]) : d \in DOMAIN tree}

\* What a file system is: a path names one entry, which is in one place of one directory,
\* and a directory but the top is one entry.
IsTree(tree, top) ==
  /\ IsFiniteSet(Within(tree)) /\ \A e \in Within(tree) : IsEntry(e)
  /\ tree \in [DOMAIN tree -> Seq(Within(tree))]
  /\ \A d, f \in DOMAIN tree : \A i \in DOMAIN tree[d], j \in DOMAIN tree[f] :
       tree[d][i].name = tree[f][j].name => d = f /\ i = j
  /\ \A e, f \in {k \in Within(tree) : k.kind = "dir"} : e.dir # top /\ (e.dir = f.dir => e = f)

Walk0(top) == [queue |-> <<top>>, matches |-> << >>, scanned |-> 0, skipped |-> 0,
               cut |-> FALSE, left |-> FALSE]   \* left: the loop over the entries was

Full(w) == Len(w.matches) >= GrepMaxMatches \/ w.scanned >= GrepMaxFiles

ScanForgetsToSay(w, e) ==   \* defect: the matches are cut within a file, and it is not said
  LET n == AtMost(e.hits, GrepMaxMatches - Len(w.matches))
  IN  [w EXCEPT !.matches = w.matches \o [i \in 1 .. n |-> <<e.name, i>>],
                !.scanned = w.scanned + 1]

\* The lines of one file, up to the cap on matches.
Scan(w, e) ==
  LET n == AtMost(e.hits, GrepMaxMatches - Len(w.matches))
  IN  [w EXCEPT !.matches = w.matches \o [i \in 1 .. n |-> <<e.name, i>>],
                !.scanned = w.scanned + 1,
                !.cut = w.cut \/ Len(w.matches) + n >= GrepMaxMatches]

Skip(w) == [w EXCEPT !.skipped = w.skipped + 1]

\* A link is of no kind that is walked, whether links are to be followed or not.
Visit(cfg, w, e) ==
  CASE w.left -> w
    [] ~w.left /\ Full(w) -> [w EXCEPT !.cut = TRUE, !.left = TRUE]
    [] ~w.left /\ ~Full(w) /\ e.denied -> Skip(w)
    [] ~w.left /\ ~Full(w) /\ ~e.denied /\ e.kind = "link" -> IF cfg.links THEN w ELSE Skip(w)
    [] ~w.left /\ ~Full(w) /\ ~e.denied /\ e.kind = "dir" ->
         [w EXCEPT !.queue = Append(w.queue, e.dir)]
    [] ~w.left /\ ~Full(w) /\ ~e.denied /\ e.kind = "other" -> w
    [] ~w.left /\ ~Full(w) /\ ~e.denied /\ e.kind = "file" ->
         IF e.big \/ ~e.text THEN Skip(w) ELSE Scan(w, e)

\* The entries of a directory, one after the other: after each of them.
Visits(cfg, w, entries) ==
  LET visit[i \in 0 .. Len(entries)] == IF i = 0 THEN w ELSE Visit(cfg, visit[i - 1], entries[i])
  IN  visit

\* One directory.
WalkOne(cfg, tree, w) ==
  LET d    == Last(w.queue)
      rest == [w EXCEPT !.queue = Front(w.queue), !.left = FALSE]
  IN  IF w.queue = << >> THEN w
      ELSE IF Full(w) THEN [w EXCEPT !.queue = << >>, !.cut = TRUE]
      ELSE IF d \notin DOMAIN tree THEN rest
      ELSE Visits(cfg, rest, tree[d])[Len(tree[d])]

\* After each of the directories; each of them but the top is an entry.
Walks(cfg, tree, top) ==
  LET walk[n \in 0 .. Cardinality(Within(tree)) + 1] ==
        IF n = 0 THEN Walk0(top) ELSE WalkOne(cfg, tree, walk[n - 1])
  IN  walk

Grep(cfg, path, tree, top) ==
  LET refusal == Refusal(cfg, path, {"inside", "root"})
      end     == Walks(cfg, tree, top)[Cardinality(Within(tree)) + 1]
  IN  IF refusal # "none" THEN Failed(refusal) ELSE Gives(end.matches, end.cut)

\* What a search of a tree has to find, however it walks: every hit of the files that are
\* neither denied, too big nor binary, under the directories that are not denied.
DirsOf(entries) == {e.dir : e \in {k \in entries : ~k.denied /\ k.kind = "dir"}}
HitsOf(entries) ==
  UNION {{<<e.name, i>> : i \in 1 .. e.hits} :
           e \in {k \in entries : ~k.denied /\ k.kind = "file" /\ ~k.big /\ k.text}}

\* What the directories ds hold.
Held(tree, ds) == UNION {Range(tree[d]) : d \in ds \intersect DOMAIN tree}

\* The least set of directories that has the top, and what its members hold.
Dirs(tree, top) == {top} \union DirsOf(Within(tree))
Closed(tree, top, ds) == {top} \union DirsOf(Held(tree, ds)) \subseteq ds
Searched(tree, top) ==
  {d \in Dirs(tree, top) : \A ds \in SUBSET Dirs(tree, top) : Closed(tree, top, ds) => d \in ds}

Found(tree, top) == HitsOf(Held(tree, Searched(tree, top)))

\* The tree as it is for who follows links: each is what it leads to, a directory that can be
\* read or else a file.
LeadsTo(tree, e) ==
  IF e.kind = "link" THEN [e EXCEPT !.kind = IF e.dir \in DOMAIN tree THEN "dir" ELSE "file"] ELSE e
Followed(tree) == [d \in DOMAIN tree |-> [i \in DOMAIN tree[d] |-> LeadsTo(tree, tree[d][i])]]

HasLinks(tree) == \E d \in DOMAIN tree : \E i \in DOMAIN tree[d] : tree[d][i].kind = "link"

-----------------------------------------------------------------------------
(* git_log: git itself is told the cap, so more than it never come          *)

\* run: how the subprocess ends; within: whether the filter is inside the roots.
Logs == [repository : BOOLEAN, run : {"ends", "fails", "late"}, within : BOOLEAN,
         commits : 0 .. LogMax + 1]

GitLog(cfg, path, log, asked) ==
  LET refusal == Refusal(cfg, path, {"inside", "root"})
      capped  == IF asked = 0 THEN 1 ELSE AtMost(asked, LogMax)
      lines   == AtMost(log.commits, capped)
  IN  IF refusal # "none" THEN Failed(refusal)
      ELSE IF ~log.repository THEN Failed("not a repository")
      ELSE IF ~log.within THEN Failed("outside")
      ELSE IF log.run # "ends" THEN Failed(log.run)
      ELSE Gives([i \in 1 .. lines |-> i], lines >= capped /\ lines > capped)

-----------------------------------------------------------------------------
(* web_fetch                                                                *)

Pages == [url : {"https", "http", "none"}, host : {"public", "private", "unknown"},
          reply : {"ok", "status", "late", "breaks"}, chunks : Seq(1 .. FetchMax + 1),
          type : {"html", "text", "binary"}]

\* The host is private when any of the addresses it resolves to is.
FetchRefusals(page) ==
  << <<page.url = "none",     "invalid url">>,
     <<page.url # "https",    "scheme">>,
     <<page.host = "unknown", "dns">>,
     <<page.host = "private", "host">> >>

\* The body, chunk by chunk, up to the cap.
Body(page, cap) ==
  FoldLeft(LAMBDA b, n : IF b.cut THEN b
                         ELSE IF b.bytes + n > cap THEN [bytes |-> cap, cut |-> TRUE]
                         ELSE [bytes |-> b.bytes + n, cut |-> FALSE],
           [bytes |-> 0, cut |-> FALSE], page.chunks)

\* extract_text: nothing of a binary body.
ExtractText(page, bytes) == IF page.type = "binary" THEN << >> ELSE [i \in 1 .. bytes |-> i]

Fetch(page, asked) ==
  LET refusal == FirstOf(FetchRefusals(page))
      body    == Body(page, AtMost(asked, FetchMax))
  IN  IF refusal # "none" THEN Failed(refusal)
      ELSE IF page.reply # "ok" THEN Failed(page.reply)
      ELSE Gives(ExtractText(page, body.bytes), body.cut)
=============================================================================
