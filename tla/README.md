# Formal verification of unhosted-core

TLA+ modules, TLC runs and TLAPS proofs for the daemon (`crates/unhosted-core`), its agent
(`crates/unhosted-agent`) and the relay server (`crates/unhosted-relay`). Each module is a
translation of the Rust source, action by action; the abstraction it makes is stated at its
head. `PROJECT.json` maps every definition to the lines it stands for, and lists the runs, the
theorems, the findings and the hazards.

    tlc -config VramPool.cfg MCVramPool.tla        # model-check one instance
    tlapm PoolsProofs.tla                          # check the proofs

## 1. The system

A daemon runs on each of a user's machines. It serves an OpenAI-like API, routes inference to a
local `llama-server` or to paired peers, manages models and child processes, and can be reached
through a relay or a cloudflared tunnel. It is one tokio process: HTTP handlers, background
tasks and supervisors run side by side and share state behind mutexes that are released at
every wait. A handler is dropped at its next await when its client hangs up.

| component | source | state | operations | what makes it correct |
|---|---|---|---|---|
| VRAM pool manager | `vram_pool.rs` | `PoolInner`: state, two child handles, `user_stopped` | start, stop, start_as_layer_host; poller and supervisors per start | a process that runs is shown and watched; a stopped pool stays stopped; loading ends; deaths are noticed |
| pool control across machines | `lib.rs` 4080-4360 | the plan, the peers' pools | probe and plan, start (ask hosts in turn, roll back), stop (tell the last plan's hosts), layer-host start and stop | no host is left hosting for nobody; one orchestrator's stop does not end another's pool; nothing but a silent host holds a call up |
| relay server | `unhosted-relay/src/main.rs` | sessions, per-address counts, pending punches, codes, code rates | register, Forward, PunchRequest, clean-up; create and consume a code | a key's session is its own socket's; caps hold; two peers never wait for each other; a code is used once |
| relay client | `relay_client.rs` | out_tx, pending, pending_punches, state | call, try_punch, run_once with its reader, writer and forwarders, drain and backoff | replies are gapless streams; a waiter can always be reached; a call ends |
| tunnel | `tunnel.rs`, boot in `lib.rs` | state, one child handle, restart count, `user_stopped`, autostart file | start, stop, supervisor, watchdog, boot | every cloudflared can be reached by a stop or is about to be; a stop outlives a restart; a live tunnel is supervised; a dropped one comes back |
| model runtime | `model_manager.rs` 499-835 | runtime state, child handle, library | load, unload, snapshot, delete, health supervisor | the state never hides a server; Starting ends; a loaded file is not deleted |
| model downloads | `model_manager.rs`, `lib.rs` 2850-2900, 5040-5110, `swarm.rs` | the download slot, its task, `.part` files, the library | download from origin, pull from a peer, cancel, delete | one at a time; only verified files enter the library |
| run routing | `router.rs`, `upstream.rs`, `lib.rs` 4584-4740 | peer list, counter, gauge | next, replace_peers; QUIC, HTTP, relay, local in turn | every request ends, or waits for one machine or one lost call; it is passed on once at most; turns stay even; a client hears of failure only after the own runtime was asked |
| pairing | `peer.rs`, `lib.rs` 1520-2195, 4416-4530, relay codes | offer tokens, codes, registry, its file, the router's list | offer, code, accept over HTTP or relay, register, unpair, auto-restore; `unhosted peer` in a process of its own | a token is spent once; whoever trusts by a token is trusted; an unpaired peer stays out |
| chats and memories | `chats.rs`, `memory.rs`, `lib.rs` 3133-3196 | stores and files, summarizer handles | upsert, delete, debounced summary, add, remove, wipe, retrieve | an acknowledged change survives; summarizers stack no memories of a chat; a saved chat is read |
| agent loop and its tools | `agent.rs`, `agent_fs.rs`, `web_fetch.rs`, `audit.rs` | messages, budgets, the audit ring | turns with tool calls, file tools, fetch, events | the conversation is whole; what is not marked as cut is complete; a stream keeps the order |
| authentication, transport, discovery, DLP, metrics | `auth.rs`, `transport.rs`, `discovery.rs`, `dlp.rs`, `metrics.rs` | see `PROJECT.json` | as guards and paths of the modules above | |
| connectors, settings, manifests, voice, HTTP surface, web UI | see `PROJECT.json` | | not modelled | |

How they interact: handlers in `lib.rs` call the managers (pool, tunnel, models) directly;
managers talk to their children through process handles and localhost HTTP; daemons talk to
each other over signed HTTP, QUIC or the relay; the relay holds one channel per registered
daemon. What is hard is nearly always the same: a critical section decides, the lock is
released for a wait, and a later critical section acts on the decision.

## 2. Modules

An action is one critical section together with the lock-free code before it that no other
task can see. Waits, timers and answers of other programs are nondeterministic.

| module | models | lines of thought |
|---|---|---|
| `VramPool` | the pool manager of one machine | `state`, `rpc_child`, `llama_child` and `user_stopped` are `PoolInner`; `starter`, `host`, `poller` are the program counters of the tasks between their critical sections; `supervisor`, `hostWatch` the supervisors alive. `StartDropped` and `HostDropped` are a client that hangs up. `serial` is a history variable: since the last stop calls have come one at a time and returned. |
| `Relay` | sessions and hole punching of the relay server | `conn` is how far `handle_socket` has got for each socket, `sessions`, `ipCount`, `half` are the three maps behind three mutexes, `match` what a task carries between `PunchRequest` and `PunchTell`. |
| `Tunnel` | the tunnel with its supervisors, watchdog, boot and file | `child` names the supervisor whose process the one handle refers to; `proc` are the real processes, so a process without a handle can be said. A supervisor that has spawned is in `store` until it has the lock to put its process into the handle. `StartSave` and `StopSave` write the file after the lock, and may fail, which the code logs and passes over. |
| `ModelRuntime` | load, unload, snapshot, delete | `target` is all a supervisor knows of its load: the file. `deleting` holds the files between a delete's check and its removal. |
| `Downloads` | both download paths over a file system | inodes and names are separate: a task writes through the handle it opened, and verifies, renames and removes by path. |
| `ReplyStream` | abstract | what `RelayClient::call` promises: the chunks of the answer in order and once each, then its end; an error may cut it short at any time. |
| `RelayCalls` | both clients, the relay between them, the asked daemon | a session's two ends are separate (`client`, `session`) because they notice a broken socket at different times; `handle` and `server` are clones of `out_tx`, alive or of a session that is over; `up` and `down` are the channels and sockets in each direction, per call. |
| `PoolCluster` | several machines' pools under their orchestrators | `handler` is a start or stop handler between its requests, `calls` the signed requests on their way (one whose connection broke may still be carried out), `role` and `plan` what each machine's own pool is, `rpc` whom its rpc-server works for. `strayed` and `crossed` are history: orchestrators whose calls overlapped or broke or whose pool failed, and machines that were in two roles, or claimed by two, at a time. |
| `Pairing` | offers, codes, tokens, peers | a daemon keeps its peers three times, `registry`, `file`, `routes`; `attempt` is a pair/connect, use-code or CLI accept, `accepts` its requests; `given` and `kept` are what the two sides have stored for a token. A write of the file can fail before it begins, or leave the file empty or cut (`torn` if it cannot be parsed). `cli` is what a run of `unhosted peer` has loaded and will save; `revived` is history: unpaired names that it has written back. A daemon restarts with `file`. |
| `Runs` | /v1/run and /v1/chat/completions | `request` is the handler, with the paths it has left; `calls` what is asked of peers, among them those that the relay has lost because a side is not linked; `peers` and `counter` the router, `turns` its history; `runtime` what is live on each machine |
| `Chats` | ChatStore, summarizers, the memory file | `chats` and `disk` are the store and its file, `short` the saves with fewer than two messages, which are not summarized; a memory added by hand is of a chat or of none; `task`, `inflight` the summarizers and the map of handles; `writer` is load, change and the three steps of a save, over files that are known by their creator so that a name and what it stands for differ |
| `AgentTools` | the tools' results | operators: `read_file`, `list_dir`, `grep_files`, `git_log`, `fetch` with their refusals and caps. `IsTree` is what is assumed of a file system that is searched: a path names one entry, of one directory, and a tree does not change while it is walked. `Followed` is the tree as it is for who follows links |
| `Agent` | the agent loop and the audit feed | `run` with its conversation and budgets, `ring` and `stream`; emitting an event is two steps (ring, then broadcast), and so is the beginning of a stream (copy, then subscribe) |

`MC*` modules hold the symmetry sets and views of an instance; `*Proofs` the theorems. Three of
these serve two components each: `PoolsProofs` (`VramPool` and `PoolCluster`),
`RunsAndRuntimeProofs` (`Runs` and `ModelRuntime`) and `ChatsAndAgentProofs` (`Chats` and
`Agent`); prefixes such as `Cluster` and `Agent` keep the names apart that both would use.
`RelayCalls` is to `Relay` what one pair of sockets is to the table: it keeps of the relay only
whether each side has a session, which `Relay` shows to be that side's own socket. `PoolCluster`
keeps of `VramPool` a machine's role, and `Runs` of the relay what `ReplyStream` promises of it.
`Agent` extends `AgentTools`: every call it executes is one of its operators.

## 3. What the runs show

| run | instance | shows |
|---|---|---|
| `VramPool` | 2 starts, 2 hostings, 1 poll; 281,589 states | `ServerIsSupervised` and `IdleOwnsNothing` as long as calls come one at a time, whatever is left over from earlier pools; `StoppedStaysStopped` and `LoadEnds` whatever overlaps, `DeathsAreNoticed` while nothing does |
| `Relay` | 3 sockets, 2 keys, 2 addresses, both caps 2; 664,279 states up to symmetry | `SlotsMatchSockets`, `ShareHonoured`, `SessionsAreTheirSockets`, `OneHalfPerPair`, `SessionsAreNotStolen` |
| `Tunnel` | 1 caller beside boot task and watchdog, 2 supervisors; 952,976 states | `LiveIsSupervised`, `NoStrayTunnel`, `StopIsRemembered`, `KeptAlive` |
| `ModelRuntime` | 2 loads, 2 files (one of LM Studio's), 2 polls; 116,508 states | `OwnedServerIsShown`, `StartingIsWatched`, `NothingRevives`, `StartingEnds`, `DeleteSparesLoaded` |
| `Downloads` | 2 downloads, 2 files, 2 inodes, 2 chunks; 691,952 states | `SlotIsTruthful`, `OnlyVerifiedFilesEnter` while no live download has lost the slot |
| `RelayCalls` | 2 calls, answers of up to 1 chunk and an end | `WaitersAreReachable`, `RepliesAreStreams` (the refinement of `ReplyStream`), `AnswersArrive` |
| `PoolCluster` | 3 machines, 2 handlers at different orchestrators, 1 broken connection; 365,416 states | `NoOrphanedHost`, `StopsHitTheirOwn`, `HandlersEnd` |
| `Pairing` | 1 offerer, 2 acceptors of the same name, 1 token, 1 code, 1 run of `unhosted peer`, 2 faults; 1,662,268 states | `TokenPairsOnce`, `PairedBothWays`, `UnpairSticks` |
| `Runs` | 3 machines, 2 runs and a chat, 2 lists of peers, 2 runtimes; 164,370 states | `AskedWhereSent`, `RefusedOnlyByItself`, `TurnsAreEven`, `RequestsEnd` |
| `Chats` | 2 chats, 2 saves, 1 change by hand, cap 2, 1 fault; 2,703,004 states | `AcknowledgedIsKept`, `OneMemoryPerChat`, `SavedIsRead` |
| `Agent` | 1 run of 2 steps of up to 3 calls, some 90 tool calls over directories of two levels, 1 stream; 2,667,098 states | `StreamKeepsOrder`, `ConversationIsWhole`, `UncutIsWhole` |
| `DownloadsVerified` | as `Downloads` | the violation of `LibraryIsVerified`, below |

The type invariant of every module with a next-state relation is proved (section 4) and so is
not among the invariants of the runs.

Why the bounds are enough. Interference here is between a task and the tasks of an earlier call
of the same kind: two of each are needed and, since a task never looks for a third, a third
adds only repetitions. `Relay` has three sockets so that two can compete for one key while a
third comes from the other address. Counted time (polls) needs one value before and one at the
limit, which one poll gives; two, in `ModelRuntime`, also give one in between. `VramPool` has two
hostings for the same reason as it has two starts: with one, the death of any rpc-server is
noticed, and only the second shows that calls must not overlap for that (see below). `Downloads` has two chunks because the last one is
short, and two inodes because a `.part` that was removed while it is written is one and its
successor the other. In `RelayCalls` an answer of a chunk and an end is two messages, enough to
lose the first and keep the second. `PoolCluster` needs two orchestrators that share a host, and
lists of one and two hosts so that a refusal comes before, at and after the last. `Pairing`
needs two acceptors with one name, who compete for a token and for a place in the registry, and
two faults: a lost reply and the restart or failed save that follows it; one run of `unhosted peer`
overlaps everything the daemon saves. In `Runs` a run and a
chat share the counter while the list changes its length, and a third request makes a peer a
daemon that is asked itself. `Chats` has a cap of two and three writers, so that the cap is
reached and a memory of a chat is both replaced and dropped. `Agent` enumerates tool calls
rather than many steps: a step's effect on the conversation is the same in every step, while
the caps bite at particular directories. For the properties with a theorem the bounds do not matter.

### Sentences that the code refutes

One run looks for a violation and is listed as a finding, since a file that no one verified
becomes a model: `DownloadsVerified` refutes "the hashes decide": a cancelled pull goes on, and
renames the next download's unfinished `.part` into the library. The others are kept as
configurations that a reader can run; TLC shows the behaviour.

| configuration (or definition) | sentence | what happens |
|---|---|---|
| `VramPoolRunning.cfg` | Running: "Both children up" | the poller writes Running from a health answer that a stop has overtaken: Running without a server, with nobody left to correct it |
| `VramPoolHosting.cfg` | Hosting: "Runs `rpc-server` on `port`" | the poller of a pool that was stopped reaches its deadline and kills the rpc-server of the layer-host call that came after, once its port had answered and before the call writes Hosting: the state shows Hosting and no rpc-server runs |
| `VramPoolHostDies.cfg` | "If rpc-server exits unexpectedly, transition to Failed" (`start_as_layer_host`) | of two overlapping layer-host calls one reaches Hosting after a stop, and its supervisor leaves; the other then spawns its rpc-server, and its caller hangs up: nobody watches it |
| `RelayCap.cfg` | "Enforce connection caps" | sockets that arrive together pass the look-up of the total and all register |
| `TunnelStop.cfg` | "sees state==Idle here and won't revive" | a stop before the supervisor's spawn or in its delay: it spawns and turns Idle into Starting |
| `ModelRuntimeBudget.cfg` | "A newer load()/unload() replaced us — stand down" | a second load of the same file looks the same to the first one's supervisor, which kills it at its own deadline |
| `RelayCallsEnd.cfg` | "`Chunk` … `End` or `Error`" | a request for an offline peer is answered by an error frame that names no call: the caller waits as long as its session lasts |
| `PairingUnpair.cfg` | "If you unpair, the peer's pubkey is removed; future requests fail. That's it." (`design/0004-trusted-mode.md` 96) | `unhosted peer` loads the file, the daemon unpairs and saves, the command saves its copy: after a restart the peer, with its key, is back |
| `PairingRelayOffer.cfg` | "relay — works behind NAT" (reply of the offer handler) | an offerer bound to loopback names that address: the acceptor's request reaches the acceptor's own machine, whose refusal is final, and the relay is not tried |
| `PoolClusterRoles.cfg` | "Orchestrator and layer-host roles can't coexist on one machine" | start and start_as_layer_host meet between the check and the state they write |
| `AuditSeed.cfg` | "so a fresh subscriber doesn't miss what just happened" (`lib.rs` 914) | an event between the copy of the ring and the subscription is in neither |
| `ChatsOneSummary.cfg` | "Every chat ends up with exactly one rolling summary" (`upsert_for_chat`, `memory.rs` 172) | `memory_add_handler` passes on the chat id it is given, and `add` pushes without replacing: two memories of one chat |
| `AgentLinks.cfg` | "Symlinks under the tree are skipped unless the operator explicitly opted into follow_symlinks" (`agent_fs.rs` 551) | the kind of an entry is that of the link itself, so one that passes this test is neither file nor directory for the next: a linked file's hit is missing from a search that says it is complete |
| `GaugeComesBack` in `Runs` | "The active gauge stays accurate" | a request refused by DLP leaves before the guard exists that would count it down |
| `EmptyIsSkipped`, `UnsignedIsAccepted`, `NoticeIsNoAnswer` in `Runs` | comments at `LiveUpstream`, `AUTH_HEADER`, `offline_error_json` | a live but empty backend is chosen; an unsigned chat is refused by a peer; the offline notice comes with status 200 as a text |
| `WipedIsGone`, `MemoriesAreWhole`, `OneSummarizerPerChat` in `Chats` | comments of `clear`, `save`, `schedule_chat_summarize` | a writer that had loaded before the wipe writes the old memories back; two writers of the one temporary file tear it; two saves of a chat each spawn after both cancelled |

The conditions in the passing properties (`serial`, `~disturbed`, `strayed`, `crossed`, `revived`,
and the exceptions that `OneMemoryPerChat`, `UncutIsWhole`, `HandlersEnd` and `RequestsEnd` name)
are the other side of these: they say how far the promise goes, and the runs above show that it goes no
further.

Other differences between the code and what is said of it, met while modelling and part of the
models where a variable tells them: two punches to one peer share a waiter; `unhosted peer`
and a running daemon save whole files over each other, so that each can undo what the other has
done since it loaded; a failed write can leave `peers.toml` empty or cut, and a daemon that cannot
parse it does not start; an unpair whose save failed cannot be
repeated (404) while the router still routes; a start on an active pool succeeds with the old
plan and leaves the hosts it has just asked; a lost reply to a layer host leaves it hosting;
`git_log` never reports that it was cut, as it asks git for no more than it shows; surplus tool
calls stay without a result; a tool is run whether or not the request allowed it
(`agent.rs` 66 calls the list an allow-list); of a failed tool the model is fed an empty result and
never the text of the error (`agent.rs` 946-950), although `design/0012-agent-runtime.md` 206 has it
become a message "containing the error" (contents are abstracted in `Agent`, and no property depends on
it); `list_dir` cuts in reading order and sorts then.

### Fairness

Weak fairness of every step that the runtime takes by itself: a handler that can proceed, a
poller or supervisor whose sleep is over, a supervisor whose pipe has closed, a socket task, a
clean-up. The tokio scheduler polls every ready task and timers fire. The requests that pollers,
health supervisors and the tunnel's probes send have time limits of their own, so the steps after
them are enabled whether they are answered or not; so have the bind waits, the QUIC
handshake and the policy service.

Other requests have no limit, and nobody is assumed to answer them. The daemon's common client
(`state.http`, `lib.rs` 340-346), by which pool handlers ask their layer hosts, limits neither
request nor connect; `run_peer` limits only its connect; `run_local` and the relay's callers nothing.
In `PoolCluster` only the handlers' own steps are fair, never those of the machine that was
asked: `HandlersEnd` says that a handler ends or waits for ever for one host that has its request.
In `Runs` a handler goes on when it need not wait (`Waits`): `RequestsEnd` says that a request ends or
waits for ever for a runtime, here or at the peer that was asked, or for a call that the relay has
lost. In `RelayCalls` a socket that stays up delivers, but no client has to connect or to
stay connected, and the asked daemon need not answer: `AnswersArrive` says that the answer arrives
unless that daemon falls silent for ever, and that the caller then has all it sent. In `Chats` a
handler goes on and a summarizer's wait of thirty seconds ends; the model it asks may never answer.

Nothing is assumed of users, peers, children, the network or Cloudflare: calls, hang-ups, deaths,
broken sockets, restarts, answers and the delivery of a URL line are never fair. `Relay`,
`Downloads`, `Pairing` and `Agent` state safety only, under `Spec` without fairness.

## 4. What is proved

The theorems hold for every value of the constants that meets the module's assumptions (bounds
are naturals, sentinel values are distinct, `Conns` is finite). Each follows from an inductive
invariant; the property alone is too weak for the reasons given.

* `PoolsProofs`, of `VramPool`: `TypeCorrect`, `ServerSupervised`, `IdleMachineOwnsNothing`,
  `StoppedPoolStaysStopped`. The invariant `PoolInv` says, for each program counter of a start
  or hosting handler, what the state and the two handles can be while calls come one at a time:
  the property only speaks of pools that own a server, and the spawn must find a pool that has
  been Starting all along.
* `PoolsProofs` also proves of `VramPool` what `LoadEnds` and `DeathsAreNoticed` need besides
  fairness. `LoadComesToAnEnd`: as long as the pool is Starting its poller stays, has always a
  step to take, and nothing gives it more time (`LoadLeft`): a start that is under way has no
  poller yet, so none is started twice. `DeathsComeToNotice`: a dead child has supervisors, each
  of which finds it and gives the handle up when it looks, and none leaves before. For the
  llama-server that is `ServerSupervised`; for a machine that hosts it is `HostingWatched`,
  which needs that a layer-host call on its way finds no hosting. The attempt corrected the
  property: `DeathsAreNoticed` used to say of a hosting machine, without a condition, what holds
  only while calls come one at a time, and the run, with one hosting, could not tell.
* `RelayProofs`: all five safety invariants and `SessionsAreNotStolen`. `TypeInv` adds to the
  types where a matched half and a key are present; `SlotInv` adds that the slots are a finite
  set whose cardinality moves by one with each step that takes or gives back a slot.
* `TunnelProofs`: `TypeCorrect` (which includes that `restart_attempts` never passes 1, so the
  cap `MAX_AUTO_RESTARTS` is never reached), `EveryTunnelIsHeld`,
  `LiveTunnelIsSupervised`, `StopOutlivesDaemon`. Between spawning and storing there is a wait, so a
  stop need not reach a cloudflared that is alive: `EveryTunnelIsHeld` says that such a one is in the
  hands of the supervisor that is about to store it, and any other in the handle. `StopOutlivesDaemon`
  is about a stop that no start overlaps and whose write does not fail: the code acknowledges the
  others just the same. `CountInv` relates the count to whether the tunnel is up; `CleanStopInv` says
  that no start is under way while a stop that none overlapped has still to write. What `KeptAlive` needs besides fairness is proved too.
  `WatchdogComesThrough`: while the tunnel is down though it is wanted and could be up, nobody
  sets the eager daemon's watchdog back, and each step of its own takes it nearer (`DogLeft`);
  the boot task's one start is set apart. `SupervisorsMakeWay`: every supervisor but the running
  tunnel's has its next step to take, so the start finds one free.
* `RunsAndRuntimeProofs`, of `ModelRuntime`: the three state invariants as `RuntimeInv` (with: a delete in progress
  whose file is loaded has been overtaken), and `OnlyLoadsRevive` and `DeletesSpareLoaded` as
  consequences of one step from it.
* `DownloadsProofs`: `OneAtATime` and `VerifiedFilesOnly`. `Calm` adds to `SlotIsTruthful` that
  no cancelled task is about; `Apart` that no inode has two names; `WorkersHaveTheirPart` that
  the download at work holds the very inode its `.part` name leads to, and that it has been
  verified by the time of the rename.
* `RelayCallsProofs`: `TypeCorrect`, `WaitersReachable` and `RepliesImplementStreams`, the
  refinement. The invariant follows one call from end to end: what the caller has got, what is
  in `down`, what is in `up` and what the forwarder has sent are consecutive (`DownInOrder`,
  `UpInOrder`, `NoneLost`) as far as the way is connected and the caller's entry is in
  `pending`. What carries it across sessions is `NotAskedWhenOff`: an entry that is in
  `pending` while the client is off belongs to a call that has never left. `AnswersComeOn` is what
  `AnswersArrive` needs besides fairness: while all sockets hold, an answer that is to come goes on
  coming, each step taken for its call leaves fewer (`Left`, three for a message of the answer),
  and the steps of other calls leave it alone. It does not say that the asked daemon sends more.
* `PairingProofs`: `TypeCorrect`, `TokensPairOnce`, `AcceptorsAreTrusted`, `UnpairedStaysOut`.
  The argument is `TokensHaveOnePlace`: a token is with the daemon that issued it, or in the
  hands of one request, or spent; so removing it from the set, which the accept handler does
  first, is what makes the acceptance unique whatever comes again over the other path. That an
  acceptor is trusted rests on `OneRequestEach` (an attempt waits for one request at a time, and
  for its own token) and on good news being sent after the save. `UnpairSticks` needs that a
  name which was unpaired with success is in none of the three copies, and that each step that
  puts a name into one (register, auto-restore, a restart) takes it from another or
  from a new acceptance; a write that fails leaves some of the names and adds none. The copy that
  `unhosted peer` has loaded may hold such a name still: when it saves it the name is `revived`, and
  the property ends there.
* `ChatsAndAgentProofs`, of `Chats`: `TypeCorrect`, `AcknowledgedKept`, `OneMemoryEach`. The first needs that the
  list in memory, too, is at the acknowledged state or a refused later one, because the next
  write takes it to the file. The last says that every list anyone holds is good (of two memories
  of a chat one was added by hand, and `MEMORY_CAP` at most), the writers' and the files', named or not: then it does not
  matter whose list a rename puts in place. Lemmas show that `Add`, `UpsertForChat` and
  `Without` make good lists of good ones. Of `SavedIsRead` all but its fairness: `ReadersComeOn`
  says that a chat which is to be read keeps somebody who will read it (`ToBeRead`) until somebody
  has read it as it is, unless memory is off, the chat is deleted or too short, or the daemon ends; and that no
  step takes a request further from reading, and its own take it nearer (`StepsLeft`).
  `ReadIsNoOlder`: a chat that is there is at least as new as any save of it, so reading it as it
  is reads that save. The invariant is that the handle kept of a chat is of that chat
  (`HandlesFit`): a save cancels nobody else's summarizer.
* `RunsAndRuntimeProofs`, of `Runs`: `RunsTypeCorrect`, `OnlyTheTargetIsAsked`,
  `FailureIsOnesOwn`, `TurnsStayEven`. `Aiming` follows a request from its draw to its calls:
  what is asked of a machine is what the handler has tried, before it tries its own. The turns
  are even because those that have come round once more than the others are always an interval
  on the circle of targets, from the first of the list's life to the one before the next
  (`TurnsGoRound`); the counter goes on when the list is replaced, so the interval may begin
  anywhere and pass the end, and the proof is arithmetic modulo the length of the list. That the
  gauge never falls below the chats in progress (`GaugeCovers`) is proved beside it; that it
  comes back to them is one of the sentences above that the code refutes.
* `RunsAndRuntimeProofs` further proves of `RequestsEnd` and `StartingEnds` all but their
  fairness. `EachWaitHasItsCall`: a request that waits has exactly one call; either its handler can
  make something of the answer, or the relay has lost the call, since the peer was not linked, and
  only the end of its own daemon's session ends the wait; whatever it goes on to has given up the
  one before. `RequestsComeOn`: no path is tried twice (`StepsLeft`), and a step taken on a call
  brings it nearer to its answer, or the relay loses it. That such a step is taken is not said. `StartingComesToAnEnd`: a load that is Starting is watched by a
  supervisor whose budget only shrinks.
* `PoolsProofs`, of `PoolCluster`: `ClusterTypeCorrect`, `NoHostIsOrphaned`, `StopsAreMeant`.
  That an orchestrator still knows of its hosts is not inductive. What is: it *holds* exactly the
  machines which a list of its handler, the plan of its pool or a call on its way stands for
  (`Held`), whoever works for it is held (`ServantsAreHeld`), and whoever is held works for it
  (`HeldServe`) and hosts (`StartedAreHosting`), so that it refuses to be asked again and no list
  names it twice (`AskedOnce`). `CallInv` says who waits for which call and which lists a
  handler has at each point. Each step is first shown to have the effect of its kind (of a
  handler, of a call on its host, of a failure), and then each kind of effect to keep the
  invariant, so interleavings are dealt with once. The attempt corrected the model: two handlers
  on one machine can leave a stop that arrives late, on a host which another orchestrator has
  taken meanwhile, and `Claims` now counts such an orchestrator; and a machine that is paired with
  itself would be "another" host of its own, which the assumption `PeersAreMachines` leaves out.
* `PoolsProofs` further proves of `HandlersEnd` all but its fairness. `NobodyWaitsInVain`: a handler
  that waits has a call of its own on its way, at its host or answered, though the host need not answer. `HandlersComeOn`: no step gives a handler more to do, and each step
  of its own, or of its call on the host, leaves less, by the measures `Left` (which reckons with a
  rollback of every host that is still to be asked) and `Unanswered`. So a start or stop whose
  hosts answer ends, however many machines call each other.
* `ChatsAndAgentProofs`, of `Agent` (under `AgentSpec`): `AgentTypeCorrect`, `StreamsKeepOrder`,
  `ConversationsAreWhole`. `AgentInv` was checked on the run's instance before it was proved. A
  conversation is *settled* while the model is asked: each answer in it is followed by the
  results of its calls. It is *answering* while calls are executed: so are all answers but the
  last, which has as many results as calls are done (`Talks`). The
  ring tells a run's events strictly in order, since a run emits one at a time (`RingInOrder`).
  A stream may be told an event twice only if it began between that event's two steps, ring and
  broadcast; so one that knows the event which is being broadcast has been told no event of that
  run twice so far (`Heard`), and at most one can ever be.

* `ChatsAndAgentProofs`, of `AgentTools`: `UncutResultsAreWhole`, for every file, every directory
  and every tree. Links that the host opted into following are named as what is missing all the same
  (`LinklessIsItself`: where there are none, the tree that follows them is the tree itself); the zeros
  that stand for what a file lost while it was read are not counted, and `git_log`, which never says
  that it cut, and `web_fetch`, whose text is an extract, are not spoken of. A search that does not say it was cut has walked the least set of directories
  that has the top and, with a directory, the directories in it that are not denied (`Searched`),
  and shows each of their hits once. The proof goes along the walk: what has been found, what is
  in the queue and what the directories already walked hold are kept in step (`WalkOneFinds`,
  `VisitFinds`), a directory is never queued twice, so the walk is over after as many as there are
  entries, and one more for the top (`DirsBounded`, `WalksAre`). The three caps are then three ways
  of setting `cut`, and the one that falls within a file is the one the mutant forgets.
  `SortedIsWhole` says that a listing loses and doubles nothing when it is sorted; that there is
  an order at all is `SomeOrder`. `CallsKeepCall` and its like carry a result through the steps of
  the run up to where it enters the conversation.

Induction over data is needed for that, though the library's induction theorems, which take an
operator as a parameter, cannot be used with the provers at hand. `UpTo` says the same of a set
and is first-order: of the intervals `1 .. i` whose end is missed one would be least, since the
finite subsets of `1 .. k` are well-founded. From it `SomeIterates` shows that the function
which is defined by recursion on `0 .. k` exists. So `Visits` and `Walks` are recursive
functions with a bounded domain, and `Sorted` chooses an order instead of naming an algorithm.

Only model-checked: the liveness properties `LoadEnds`, `DeathsAreNoticed`, `KeptAlive`,
`StartingEnds`, `AnswersArrive`, `HandlersEnd`, `RequestsEnd`, `SavedIsRead`. TLAPS cannot reason
about ENABLED, on which weak fairness rests. Everything else about them is proved, as above: that
whoever is waited for is there, stays there, and comes nearer with each step. `SavedIsRead` also
rests on there being finitely many saves: each save of a chat starts the wait of thirty seconds
again, so one that is saved more often than that is not read until this ends.

## 5. What is left out, and the plan

Left out inside the modelled components, because no property speaks of it: texts of errors,
progress stages and byte counts, ports, URLs, counters of metrics. Outside of them, see the
components marked `not_modelled` in `PROJECT.json`; those without a plan are wrappers of one
external call, settings handled whole by one request, or clients that hold no shared state.

The web page, the desktop shell and the HTTP surface hold no state that two actors share.
Embeddings, signatures, TLS and mDNS are libraries: their answers are any that the code
provides for.

Planned, in order:

1. `Punch`: `Relay` composed with `try_punch` at both ends (one waiter per peer, timeouts, late
   targets).
2. The replay guard of `auth.rs` at its limit of nonces, with its clock.
3. The connectors. (The critique gates are a scan of the final answer whose findings are advisory and
   change no state of a run: nothing of them is left to model.)
4. Operator modules checked against reference definitions: the layer plan `plan()`, chunk
   manifests.

No theorem is planned besides those of the new modules. That `VramPool`, with its states mapped to the four roles, takes the steps that `PoolCluster` keeps
of it says little, since nearly every change of role is one that `PoolCluster` allows.
