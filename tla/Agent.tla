-------------------------------- MODULE Agent --------------------------------
(***************************************************************************)
(* The agent loop of a daemon and the audit feed that tells of it.         *)
(*                                                                         *)
(* A run asks the model, executes the tool calls of its answer one after   *)
(* the other, appends their results to the conversation and asks again,    *)
(* until the model answers in prose or a cap is reached.  Data loss        *)
(* prevention, when it is configured, is asked about the goal and about    *)
(* every result.  Its client may hang up: the handler is then dropped at   *)
(* whatever it waits for.                                                  *)
(*                                                                         *)
(* An event is appended to a ring, under its lock, and then broadcast,     *)
(* without it: two steps.  A stream of the feed takes the last events of   *)
(* the ring, and then subscribes to the broadcast: two steps as well.      *)
(* What is broadcast to it is told at once, or lost.                       *)
(*                                                                         *)
(* Abstracted: goals, prompts, answers and timestamps; a message is who    *)
(* it is from and which call it answers.  Tokens are counted in units.     *)
(***************************************************************************)
EXTENDS AgentTools

CONSTANTS
  Runs,
  Asked,      \* Asked[r]: the caps that the caller of run r asks for
  HardSteps, HardCalls, HardTokens,   \* HARD_MAX_STEPS, ..._TOOL_CALLS_PER_STEP, ..._TOKENS
  MaxUsage,   \* bound: tokens that one answer of the model may use
  Surplus,    \* bound: tool calls of an answer beyond those that are executed
  ToolCalls,  \* ToolCalls[r]: what the model may call: a tool, its arguments, what they lead to
  NoCall,
  Hosts,      \* configurations: [dlp : BOOLEAN, fs : Configs]
  RingMax,    \* RING_DEFAULT
  SeedMax,    \* how many events a stream begins with: 50
  MaxLags     \* bound: events that a subscriber loses because it fell behind

ASSUME CapsOfRuns == {HardSteps, HardCalls, HardTokens, RingMax} \subseteq Nat \ {0}
ASSUME RunBounds == {MaxUsage, Surplus, SeedMax, MaxLags} \subseteq Nat
ASSUME AskedIsAsked == Asked \in [Runs -> [steps : Nat, calls : Nat, tokens : Nat]]

ASSUME ToolCallsAreTyped ==
  \A r \in Runs : \A c \in ToolCalls[r] :
    /\ c.complete \in BOOLEAN
    /\ c.complete /\ c.tool \in {"read_file", "list_dir", "grep", "git_log"} => c.path \in Paths
    /\ c.complete /\ c.tool = "read_file" => c.file \in Files
    /\ c.complete /\ c.tool = "list_dir" => IsListing(c.entries)
    /\ c.complete /\ c.tool = "grep" => IsTree(c.tree, c.top)
    /\ c.complete /\ c.tool = "git_log" => c.log \in Logs
    /\ c.complete /\ c.tool = "web_fetch" => c.page \in Pages

VARIABLES
  host,   \* the daemon's configuration
  run,    \* the runs
  ring,   \* the audit feed's ring of events, oldest first
  stream  \* one stream of the feed

feed == <<ring, stream>>
agentVars == <<host, run, feed>>

Clamp(n, low, high) == IF n < low THEN low ELSE AtMost(n, high)

\* AgentRunRequest::clamped.
Limits == [r \in Runs |-> [steps  |-> Clamp(Asked[r].steps, 1, HardSteps),
                           calls  |-> Clamp(Asked[r].calls, 1, HardCalls),
                           tokens |-> Clamp(Asked[r].tokens, 1, HardTokens)]]

System == [role |-> "system", count |-> 0]
User   == [role |-> "user", count |-> 0]
Assistant(n) == [role |-> "assistant", count |-> n]   \* n: the tool calls that it makes
Tool(k)      == [role |-> "tool", count |-> k]        \* k: which of them it answers

IdleRun == [pc |-> "idle", step |-> 0, tokens |-> 0, todo |-> 0, done |-> 0,
         call |-> NoCall, out |-> Failed("none"), messages |-> << >>, emitted |-> 0,
         sending |-> FALSE, stopped |-> "not", exit |-> 0]

Pcs == {"idle", "refused", "goal", "loop", "chat", "calls", "tool", "cited", "gate",
        "done", "told", "gone"}

Events == [run : Runs, n : Nat \ {0}]

AgentTypeOK ==
  /\ host \in Hosts
  /\ DOMAIN run = Runs
  /\ \A r \in Runs : /\ run[r].pc \in Pcs /\ run[r].call \in ToolCalls[r] \union {NoCall}
                     /\ run[r].step \in 0 .. Limits[r].steps /\ run[r].tokens \in Nat
                     /\ run[r].todo \in 0 .. Limits[r].calls
                     /\ run[r].sending \in BOOLEAN /\ run[r].exit \in {0, 2}
  /\ ring \in Seq(Events) /\ Len(ring) <= RingMax
  /\ stream.at \in {"none", "seeded", "live"} /\ stream.lags \in 0 .. MaxLags
  /\ stream.heard \in Seq(Events)

AgentInit ==
  /\ host \in Hosts
  /\ run = [r \in Runs |-> IdleRun]
  /\ ring = << >>
  /\ stream = [at |-> "none", heard |-> << >>, lags |-> 0]

-----------------------------------------------------------------------------
(* The audit feed                                                           *)

LastOf(events, n) == SubSeq(events, Len(events) - AtMost(n, Len(events)) + 1, Len(events))

\* emit, first half; new: run r as the step that emits leaves it.
Emits(r, new) ==
  LET n == run[r].emitted + 1
  IN  /\ run' = [run EXCEPT ![r] = [new EXCEPT !.emitted = n, !.sending = TRUE]]
      /\ ring' = LastOf(Append(ring, [run |-> r, n |-> n]), RingMax)
      /\ UNCHANGED <<host, stream>>

Sent(r) == run' = [run EXCEPT ![r].sending = FALSE] /\ UNCHANGED <<host, ring>>

\* emit, second half.
Send(r) ==
  /\ run[r].sending
  /\ stream' = IF stream.at # "live" THEN stream
               ELSE [stream EXCEPT !.heard = Append(@, [run |-> r, n |-> run[r].emitted])]
  /\ Sent(r)

\* The broadcast overwrites what a subscriber that fell behind has not read.
SendLost(r) ==
  /\ run[r].sending
  /\ stream.at = "live" /\ stream.lags < MaxLags
  /\ stream' = [stream EXCEPT !.lags = @ + 1]
  /\ Sent(r)

\* recent.
Recent == LastOf(ring, SeedMax)

SeedAfterSubscribing ==   \* defect: the broadcast is heard before the ring is read
  /\ \/ stream.at = "none" /\ stream' = [stream EXCEPT !.at = "live"]
     \/ /\ stream.at = "live"
        /\ stream.heard # << >>
        /\ stream' = [stream EXCEPT !.heard = @ \o Recent]
  /\ UNCHANGED <<host, run, ring>>

Seed ==
  /\ stream.at = "none"
  /\ stream' = [stream EXCEPT !.at = "seeded", !.heard = Recent]
  /\ UNCHANGED <<host, run, ring>>

\* subscribe.
Subscribe ==
  /\ stream.at = "seeded"
  /\ stream' = [stream EXCEPT !.at = "live"]
  /\ UNCHANGED <<host, run, ring>>

-----------------------------------------------------------------------------
(* A run.  Its own code goes on only when what it emits is sent.            *)

At(r, pc) == run[r].pc = pc /\ ~run[r].sending

Goes(r, new) ==
  /\ run' = [run EXCEPT ![r] = new]
  /\ UNCHANGED <<host, feed>>

\* finish; what the run kept is dropped with it.
Finish(r, why) == Emits(r, [IdleRun EXCEPT !.pc = "done", !.stopped = why])

KnownTools == {"web_fetch", "search_memory", "list_models", "read_file", "list_dir", "grep",
               "cite", "git_log"}

\* What the model is offered is what its caller named; what it calls is not held against it.
Start(r) ==
  /\ At(r, "idle")
  /\ \E named \in {KnownTools, {"unknown"}} :
       Emits(r, [run[r] EXCEPT !.pc = IF named \subseteq KnownTools THEN "goal" ELSE "refused"])

Refuse(r) == At(r, "refused") /\ Finish(r, "tool_error")

BeginRun(r) ==
  /\ At(r, "goal")
  /\ Goes(r, [run[r] EXCEPT !.pc = "loop", !.messages = <<System, User>>])

GoalBlocked(r) == At(r, "goal") /\ host.dlp /\ Finish(r, "dlp_blocked")

\* The caps, in the order in which they are asked; the clock only here.
OutOfSteps(r) ==
  /\ At(r, "loop") /\ run[r].step = Limits[r].steps
  /\ Finish(r, "max_steps")

OutOfTime(r) ==
  /\ At(r, "loop") /\ run[r].step < Limits[r].steps
  /\ Finish(r, "max_seconds")

OutOfTokens(r) ==
  /\ At(r, "loop") /\ run[r].step < Limits[r].steps
  /\ run[r].tokens >= Limits[r].tokens
  /\ Finish(r, "max_tokens")

Ask(r) ==
  /\ At(r, "loop") /\ run[r].step < Limits[r].steps
  /\ run[r].tokens < Limits[r].tokens
  /\ Goes(r, [run[r] EXCEPT !.pc = "chat"])

ChatFails(r) == At(r, "chat") /\ Finish(r, "tool_error")

NoChoices(r) == At(r, "chat") /\ Finish(r, "tool_error")

\* The calls of an answer beyond the cap are dropped; the message keeps them.
Answer(r) ==
  /\ At(r, "chat")
  /\ \E used \in 0 .. MaxUsage, n \in 0 .. Limits[r].calls + Surplus :
       LET new == [run[r] EXCEPT !.tokens = @ + used, !.messages = Append(@, Assistant(n))]
       IN  IF n = 0 THEN Finish(r, "final_answer")
           ELSE Goes(r, [new EXCEPT !.pc = "calls", !.todo = AtMost(n, Limits[r].calls),
                                    !.done = 0])

\* execute_tool.
Outcome(c) ==
  CASE ~c.complete             -> Failed("missing argument")
    [] c.complete /\ c.tool = "read_file" -> ReadFile(host.fs, c.path, c.file)
    [] c.complete /\ c.tool = "list_dir"  -> ListDir(host.fs, c.path, c.entries)
    [] c.complete /\ c.tool = "grep"      -> Grep(host.fs, c.path, c.tree, c.top)
    [] c.complete /\ c.tool = "git_log"   -> GitLog(host.fs, c.path, c.log, c.asked)
    [] c.complete /\ c.tool = "web_fetch" ->   \* that it was cut is not told
         LET page == Fetch(c.page, FetchMax)
         IN  IF page.error = "none" /\ page.shown = << >> THEN Gives(<<0>>, FALSE)
             ELSE [page EXCEPT !.cut = FALSE]
    [] c.complete /\ c.tool = "list_models" -> IF c.up THEN Gives(<<0>>, FALSE) ELSE Failed("upstream")
    [] c.complete /\ c.tool = "search_memory" -> Gives(<<0>>, FALSE)   \* a placeholder
    [] c.complete /\ c.tool \notin KnownTools -> Failed("unknown tool")

Awaits(c) == c.complete /\ c.tool \in {"web_fetch", "git_log", "list_models"}

\* The call c of run r has come to an end: its event, then data loss prevention.
Report(r, c, out) == Emits(r, [run[r] EXCEPT !.pc = "gate", !.call = c, !.out = out])

Call(r) ==
  /\ At(r, "calls")
  /\ \E c \in ToolCalls[r] : /\ c.tool # "cite" /\ ~Awaits(c)
                          /\ Report(r, c, Outcome(c))

CallAndWait(r) ==
  /\ At(r, "calls")
  /\ \E c \in ToolCalls[r] : Awaits(c) /\ Goes(r, [run[r] EXCEPT !.pc = "tool", !.call = c])

Return(r) == At(r, "tool") /\ Report(r, run[r].call, Outcome(run[r].call))

\* cite is not executed: it is recorded, with an event of its own.
Cite(r) ==
  /\ At(r, "calls")
  /\ \E c \in ToolCalls[r] :
       /\ c.tool = "cite"
       /\ IF c.complete THEN Emits(r, [run[r] EXCEPT !.pc = "cited", !.call = c])
          ELSE Report(r, c, Failed("missing argument"))

Cited(r) == At(r, "cited") /\ Report(r, run[r].call, Gives(<<0>>, FALSE))

FeedIfText(r) ==   \* defect: a call that gave no text is not answered
  /\ At(r, "gate")
  /\ LET new == [run[r] EXCEPT
                   !.messages = IF run[r].out.error # "none" THEN @ ELSE Append(@, Tool(run[r].done + 1)),
                   !.done = @ + 1, !.todo = @ - 1, !.call = NoCall, !.out = Failed("none")]
     IN  Goes(r, IF new.todo > 0 THEN [new EXCEPT !.pc = "calls"]
                 ELSE [new EXCEPT !.pc = "loop", !.step = @ + 1])

\* The result joins the conversation; an error only as an empty text.
Feed(r) ==
  /\ At(r, "gate")
  /\ LET new == [run[r] EXCEPT !.messages = Append(@, Tool(run[r].done + 1)),
                               !.done = @ + 1, !.todo = @ - 1,
                               !.call = NoCall, !.out = Failed("none")]
     IN  Goes(r, IF new.todo > 0 THEN [new EXCEPT !.pc = "calls"]
                 ELSE [new EXCEPT !.pc = "loop", !.step = @ + 1])

ResultBlocked(r) == At(r, "gate") /\ host.dlp /\ Finish(r, "dlp_blocked")

\* The client, a command line, has the response.
Told(r) ==
  /\ At(r, "done")
  /\ Goes(r, [IdleRun EXCEPT !.pc = "told", !.exit = IF run[r].stopped = "final_answer" THEN 0 ELSE 2])

\* What a handler that is dropped was waiting for.
Waiting(r) ==
  \/ At(r, "goal") /\ host.dlp
  \/ At(r, "chat")
  \/ At(r, "tool")
  \/ At(r, "gate") /\ host.dlp

HangUp(r) ==
  /\ Waiting(r)
  /\ Goes(r, [IdleRun EXCEPT !.pc = "gone"])

RunNext(r) ==
  \/ Start(r) \/ Refuse(r) \/ BeginRun(r) \/ GoalBlocked(r)
  \/ OutOfSteps(r) \/ OutOfTime(r) \/ OutOfTokens(r) \/ Ask(r)
  \/ ChatFails(r) \/ NoChoices(r) \/ Answer(r)
  \/ Call(r) \/ CallAndWait(r) \/ Return(r) \/ Cite(r) \/ Cited(r)
  \/ Feed(r) \/ ResultBlocked(r) \/ Told(r) \/ HangUp(r)
  \/ Send(r) \/ SendLost(r)

AgentNext == Seed \/ Subscribe \/ \E r \in Runs : RunNext(r)

AgentSpec == AgentInit /\ [][AgentNext]_agentVars

-----------------------------------------------------------------------------
(* Properties                                                               *)

\* A stream never tells a run's events in another order than they happened: one may come
\* twice, the one that was being emitted when the stream began, and no other.  The ring
\* and the broadcast are written and read by different hands, without a common lock.
StreamKeepsOrder ==
  LET heard == stream.heard
      twice == {p \in (DOMAIN heard) \X (DOMAIN heard) :
                  p[1] < p[2] /\ heard[p[1]] = heard[p[2]]}
  IN  /\ \A i, j \in DOMAIN heard :
           i < j /\ heard[i].run = heard[j].run => heard[i].n <= heard[j].n
      /\ \A p, q \in twice : heard[p[1]].run = heard[q[1]].run => p = q

\* What lib.rs says of the seed of a stream: a subscriber does not miss what just
\* happened.  Between two events of a run that it is told, it is told all of them,
\* unless it fell behind.
NothingIsMissed ==
  stream.lags = 0 =>
    \A r \in Runs :
      LET told == {e.n : e \in {d \in Range(stream.heard) : d.run = r}}
      IN  \A i, j \in told : i .. j \subseteq told

Answers(said) == {i \in DOMAIN said : said[i].role = "assistant"}

\* How many calls of an answer are executed.
Due(r, answer) == AtMost(answer.count, Limits[r].calls)

\* What the model is sent: whatever was cited, failed, dropped or empty on the way, each
\* of its answers is followed by the results of the calls of it that are executed, each
\* once and in the order of the calls, and by nothing else before the next answer.
ConversationIsWhole ==
  \A r \in Runs : run[r].pc = "chat" =>
    LET said == run[r].messages
    IN  /\ Len(said) >= 2 /\ said[1] = System /\ said[2] = User
        /\ \A i \in Answers(said) :
             LET next == i + Due(r, said[i]) + 1
             IN  /\ next \in Answers(said) \union {Len(said) + 1}
                 /\ \A k \in 1 .. Due(r, said[i]) : said[i + k] = Tool(k)
        /\ Cardinality(Answers(said)) = run[r].step

\* What is all that a call asks for: every hit of every file it may read, wherever the walk
\* found it and whichever cap it came near, once; every entry of a directory; all that was there
\* of a file when it was read.  The zeros that stand for what a file has lost since its size was
\* looked at are not counted.  Of git_log and web_fetch nothing is said: git_log never says that
\* it was cut, and of a page the text is taken.
Whole(c, out, links) ==
  CASE c.tool = "grep" -> /\ Range(out.shown) = Found(IF links THEN Followed(c.tree) ELSE c.tree, c.top)
                          /\ Cardinality(Range(out.shown)) = Len(out.shown)
    [] c.tool = "list_dir"  -> /\ Range(out.shown) = {c.entries[i].name : i \in DOMAIN c.entries}
                               /\ Len(out.shown) = Len(c.entries)
    [] c.tool = "read_file" -> Range(out.shown) \ {0} = 1 .. AtMost(c.file.size, c.file.left)
    [] OTHER -> TRUE

Uncut(r) ==
  run[r].pc = "gate" /\ run[r].call.complete /\ run[r].out.error = "none" /\ ~run[r].out.cut

\* A result of a file tool that does not say it was cut leaves nothing out.  But for links that
\* the host opted into following: a search passes them over all the same, and finds what it
\* would find if it had not.
UncutIsWhole ==
  \A r \in Runs : Uncut(r) =>
    LET c == run[r].call IN
    \/ Whole(c, run[r].out, host.fs.links)
    \/ /\ c.tool = "grep" /\ host.fs.links /\ HasLinks(c.tree)
       /\ Whole(c, run[r].out, FALSE)

\* "Symlinks under the tree are skipped unless the operator explicitly opted into
\* follow_symlinks", says grep_files: with it, what links lead to is searched as well.
LinksAreFollowed == \A r \in Runs : Uncut(r) => Whole(run[r].call, run[r].out, host.fs.links)
=============================================================================
