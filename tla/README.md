# Parachute in TLA+

Parachute is a sidecar that stands between an AI agent and the outside world:
it inspects tool calls, lets a human approve the risky ones, brokers
credentials, restricts egress and records what happened in a signed,
hash-chained telemetry stream. This directory holds TLA+ models of the parts
of it where concurrency, failures and restarts decide whether it is correct,
their TLC instances, and proofs checked by TLAPS.

    tlc -config ApprovalQueue_persistent.cfg MCApprovalQueue   # a run
    tlapm ApprovalQueue_proofs.tla                             # a proof

`PROJECT.json` lists the components, the runs, a mutant for every property
(a plausible bug that the property must catch), the source lines behind every
definition, the disagreements found between code and documentation, the
hazards of the code and the main theorems.

## 1. Inventory

| Component | State | Operations | Interacts with | Hard behaviour | Correct when |
|---|---|---|---|---|---|
| Approval queue (`internal/approval`) | map of pending commands, one channel and `sync.Once` each | Add, Wait, Approve, Deny, Remove, List, 30 s cleanup | store, MCP gateway, request proxy, dashboard, relay | verdict, timer, context and ticker race for a channel; restart with rows but no entries | each request has one justified answer; no waiter is orphaned; nothing leaks |
| Approval store (`internal/storage`) | SQLite tables `pending_commands`, `audit_log` | Add, UpdateStatus, GetStatus, LogEvent, 30 s cleanup | queue, main's shutdown | two locks in GetStatus, failing statements, crash between row and log | a decided row is final; the log agrees with it |
| Collector and chain state (`internal/telemetry`) | head of the chain in memory and on disk, bounded channel, batch | Record, export loop, Close, Advance, Sync, Load | every component that reports events, exporters, main | two critical sections in Record, full queue, failing writes, shutdown under load, crash with unsaved head | nothing queued is reordered, and lost only behind a failed write; the saved head lags boundedly |
| Spool and HTTP exporter (`internal/telemetry/exporters`) | JSONL file, offset file | Export; uploadPending with batches and offset | collector, Parachute Pro | reader and writer without a lock, torn lines, lost answers, crash between truncate and write | records arrive, in order, and twice only after a fault |
| SDR format (`pkg/sdr`) | none | canonical JSON, Sign, ValidateChain | collector, verify tool | none (pure) | ValidateChain accepts what was recorded |
| MCP gateway (`internal/mcp`) | policies, upstreams, counters | HandleJSONRPC, handleToolsCall, handleApproval, handleResourcesRead, both routes, forward | queue, interceptor, collector, upstream servers | the handler's nil result means both "answered" and "go on"; six places count and report | every call is counted, its verdict reported, and it ends; a call goes upstream only when it is allowed |
| SSE broker (`internal/mcp/sse.go`) | clients, replay buffer, next id | Publish, Subscribe, Unsubscribe, replay | agents' event streams | reconnect overlaps the old stream, slow clients, ids drawn outside the lock | no send on a closed channel; a stream never repeats or goes back; what it has queued it writes |
| Credential broker (`internal/broker`) | cache of Pro's answers | Resolve, the gateway's decision table | Parachute Pro, upstream APIs | concurrent misses, expiry, fail-open and fail-closed | nothing denied is forwarded in enforce mode; answers do not outlive their time |
| Request proxy (`internal/proxy/proxy.go`) | none of its own | content check, two tool-call gates, forward, stream and WebSocket copy | queue, interceptor, upstream | a gate per kind of body, each with its approval; two copy loops per connection | what goes upstream was let pass or approved; a tunnel that loses an end is given up unless a write hangs |
| Forward proxy, egress (`internal/proxy/forward.go`, `internal/egress`) | listener, rules and allow lists | accept, CONNECT tunnel, HTTP forward, shutdown | collector, broker's host table | three checks under two modes; one direction ends before the other | a denial that is enforced is reported and the other way round, and its host is not dialled |
| Interceptor (`internal/interceptor`), policy engines (`internal/policy`, unused) | compiled patterns | Check, ExtractAllCommands, NormalizeToolInvoke | gateways | wrappers, separators, quotes and substitutions within each other | a line gets the verdict of the simple commands in it |
| Middleware (`internal/middleware`) | rate-limit windows | Auth, Handler, cleanup | dashboard and operators' API | windows that open with a request; cleanup against use | less than twice the rate in any window's length |
| Audit log (`internal/audit`) | none (the hash chain is not used) | Log | everything | none | - |
| Relay, dashboard, notifier | connection flag; none | approve and deny from outside; webhooks | queue | placeholder connection | as the queue's operators |
| Integrations, configuration, metrics, license | tables, counters | defaults, route classes, lookups | gateways | which definition wins | as the components that use them |
| main (`cmd/parachute`) | - | wiring, ordered shutdown | all | servers outlive store and collector | shutdown ends and leaves nothing queued |

## 2. Modules

| Module | What it is |
|---|---|
| `ApprovalStore` | the two tables and the five writing statements, each able to fail |
| `ApprovalQueue` | the queue with its handlers, operators, tickers, time and restarts; extends `ApprovalStore` |
| `ApprovalPromise` | what the queue promises, without the queue: the abstract specification |
| `SDRCollector` | Record, the chain, the bounded queue, the export loop, shutdown, restart |
| `SpoolUploader` | the JSONL file between its writer and the uploader |
| `CommandCheck` | pure: what the interceptor makes of a command line |
| `ToolPolicy` | pure: what the gates read out of a tool call, and the MCP policy; extends `CommandCheck` |
| `RateLimiter` | the windows of the rate limiter, with the clock |
| `ToolGateway` | MCP gateway and request proxy with operators, limiter, the queue's promise and restarts; extends `ToolPolicy` and `RateLimiter`, instantiates `ApprovalPromise` |
| `EgressPolicy` | pure but for the configuration: defaults, egress rules, managed hosts, route classes, sources of credentials |
| `BrokerGateway` | the credential broker's handler, Pro and the cache of its answers; extends `EgressPolicy` |
| `ForwardProxy` | the forward proxy, its checks and redirects, and both kinds of tunnels; extends `EgressPolicy` |
| `SSEBroker` | publishers, the replay buffer and the event streams |
| `Listeners` | broker, forward proxy and event streams of one process, interleaving freely; extends the three |
| `MCApprovalQueue`, `MCSDRCollector`, `MCToolGateway`, `MCListeners` | instances for TLC; `SpoolUploader` is its own |
| `ApprovalQueue_proofs`, `SDRCollector_proofs`, `SpoolUploader_proofs`, `CommandCheck_proofs`, `ToolGateway_proofs`, `ForwardProxy_proofs`, `SSEBroker_proofs`, `Listeners_proofs` | theorems about the module of that name; those about `RateLimiter` are in `ToolGateway_proofs`, those about `BrokerGateway` in `Listeners_proofs` |

Definitions marked "Wrong on purpose" are the mutants; no specification uses
them.

### ApprovalQueue and ApprovalStore

An action is one critical section, one channel operation or one return. A
handler (`phase[id]`) walks through `Add` (`AddToMemory`, `AddToStore`), the
webhooks and `Wait` (`WaitLookup`, then either the `select` with `Receive`,
`ContextDone`, `TimerFires`, or the store with `WaitStatus` and
`WaitMarkExpired`, which are two steps because GetStatus changes locks between
them). A call of `Approve` or `Deny` (`op[o]`) is `CallLookup`, `CallStore`,
`CallLog`, `CallSend`, `CallRemove`; the two functions differ in the verdict
only. `chan[id]` is the channel together with its `sync.Once`. Time is the set
`late` of requests whose `ExpiresAt` has passed; nothing else depends on the
clock. `CrashRestart` keeps the tables and `late` and forgets memory. With
`Persistent = FALSE` the same module is `NewQueue`.

`asked` is a history variable: who asked for what. `ApprovalPromise` uses it to
say when an answer is justified. A closed channel reads as a denial in Wait,
so the promise allows "denied" for a late request that nobody denied.

### SDRCollector

`Link`, `Advance` and `Enqueue` are the three critical sections of
RecordWithParent, `Receive`, `Tick`, `CloseQueue` and `Drain` the branches of
exportLoop, `Signal` and `CloseCollector` main's part. A record is its hash and
the hash it links to, hashes are numbers in the order of their making. `Save`
is syncLocked: it writes the file atomically or fails and changes nothing.
`Export` is `flush` with the exporter under it: the batch is written, or the
write fails after some of its records (`broken`), and from then on every export
fails, because a `bufio.Writer` keeps its first error. `flush` throws that error
away and the loop goes on, so the rest of the batch and all later ones are gone;
the history variable `lost` remembers them. `failed` counts the saves that have
failed in a row. `Restart` may come at any moment and stands for an exit, a kill
and a panic that nothing recovers (the forward proxy's connections have no
recover); the next process takes the head from the file, or starts at genesis
when it cannot read it, and has a sound writer again. The
export loop closes the queue while callers still run, because main shuts the
servers down after the collector.

### SpoolUploader

The file is a sequence of cells, three to a line: two halves of a record and a
newline. That is enough for a line to be cut before, inside and after its JSON
and for the offset to be right, one short or past the end. `Write` moves all of
the buffer or, with `Torn`, any prefix of it into the file. `Scan` is one round
of the scanner's loop with its bookkeeping, `Truncate` and `SaveOffset` are the
two halves of os.WriteFile. Crashes, answers lost after Pro has the batch, and
failed saves are counted in `faults`; a batch that does not reach Pro costs no
fault, it can happen at any time. Pro is `got`, the batches with which it heard of
a record for the first time, in their order; a copy of what it has changes nothing
but `again`.

### CommandCheck and ToolPolicy

A command is a sequence of tokens: words, and the characters the code looks at
(quotes, backslash, separators, brackets, wrappers). The scans of the code are
folds over the tokens, with the state the code keeps: what is open, how deep,
whether the last character was a backslash. `ExtractAllCommands` unfolds the
recursion of the code, which ends at depth two because a substitution holds no
closing bracket or no backtick. Patterns are words, anchored to the start of
the text or not. `SeesEveryCommand` says of each sequence of simple commands in
the constant `Scripts`, joined to a line and dressed in wrappers and
substitutions, that it gets the verdict of its commands; a run looks at it once,
as `PolicySeesEveryCommand` of `ToolGateway`. `ToolPolicy` holds the code's several readings of a tool call:
five formats of `NormalizeToolInvoke`, the parser of other bodies, and the lists
of command tools and argument fields, which differ, as they are.

### ToolGateway and RateLimiter

A request is a handler of its own (`at[r]`): at its gate, waiting for an
approval, looking for its route, upstream, streaming, done, or dead with its
process. `Intercept` is the request proxy's handler up to the forwarding, with
the content check and both tool-call gates; `HandleJSONRPC`, `handleToolsCall`
and `handleResourcesRead` are those of MCP. `answer[r]` is the HTTP status
written so far: in MCP a refusal writes one and returns nil, and the caller goes
on to the route. `Routes` is any upstream where the code takes the first of a Go
map. The queue takes part as `ApprovalPromise`, instantiated over the requests:
a held request asks, an operator rules, the queue answers, as `ApprovalQueue` is
shown to do. An operator's call is `ApiCall`, behind `Auth` and the limiter's
`LetThrough`; the limiter's window is [count, start] and opens with a request.

### EgressPolicy, BrokerGateway, ForwardProxy and SSEBroker

`cfg` is the configuration after `Load`; nothing writes it. Hosts are sequences of
labels with a port, patterns may be wild and, because one of the three lists is not put
in lower case, upper. `BrokerGateway` lets Pro rule at one instant and its answer arrive
at a later one, or never, so that answers overtake each other on their way to the cache;
a ruling remembers its time and the key it was for. A credential may go along when the
integration redirects (`UpstreamRedirects`). `ForwardProxy` makes the checks of a
request's head one step (they read nothing that changes) and that of its body another,
`ReadBody`, since a body that breaks off is not checked. Each of a tunnel's two
goroutines is reading from its own end, writing to the other, or has stopped, and each
end is open, gone or closed; `UpWaits` and `DownWaits` are the writes that nothing in
this program can end. `SSEBroker` splits `Publish` where the code does, before the lock,
and keeps for each event its id and the place at which it entered the buffer. The three
meet in `Listeners`: a step of one leaves the variables of the others and the
configuration alone.

## 3. What is checked

Safety and liveness, all with TLC; each property has a mutant.

| Run | Instance | Shows |
|---|---|---|
| `ApprovalQueue_persistent` | 1 request, 2 operators, faults, 1 crash | `ApprovedWasAsked`, `NoOrphanedWaiter`, `ListedIsUndecided`, `AuditMatchesRow`, `RowIsFinal`, `OneVerdictPerChannel`, `KeepsPromise` (refinement), `HandlersReturn`, `EntriesLeave`, `RowsResolve` |
| `ApprovalQueue_memory` | 2 requests, 2 operators, no store | `KeepsPromise` |
| `SDRCollector_pipeline` | 2 callers, queue 2, batch 2, save every 2, 3 records, failing exports, saves and loads, 1 restart | `SpoolInOrder`, `CloseExportsAll`, `DiskLag`, `EveryRecordIsAccounted`, `ForksAreBounded`, `CloseReturns`, `RecordsAreExported` |
| `SpoolUploader_spool` | 4 records, batches of 2, torn writes, 2 faults | `OffsetFollowsPro`, `FirstCopiesInOrder`, `NoNeedlessCopies`, `RecordsArrive` |
| `ToolGateway_gates` | 2 requests, one of fourteen kinds and one call that is held, 1 operator, rate 2 in a window of 1 tick, clock to 4, 1 restart; command lines of one or two of eight simple commands and of three of three plain ones, in every dress | `UpstreamWasCleared`, `CallsAreCounted`, `VerdictIsReported`, `BurstIsBounded`, `PolicySeesEveryCommand`, `RequestsEnd` |
| `Listeners_all` | 2 broker calls under 6 configurations, 1 connection under 5, 2 streams of one client with 2 publishers | `ForwardedWasGranted`, `CallsEnd`; `DenialsAreEnforced`, `TunnelsEnd`; `RegisteredIsOpen`, `InBufferOrder`, `EventsArrive` |

Bounds. Requests to the queue are independent of each other except through a common tick
of the cleanup and through operators, so two of them show every interaction; two
operators are the fewest that race; a second crash finds nothing a first one does not,
because a restart forgets all but the tables. In the collector a queue of two with
batches of two fills, overflows and splits, records from two callers fork the chain, and
of three records a failed write can take a part of a batch and everything behind it; one
restart separates "behind the file" from "ahead of it". In the uploader four records
make two batches with a remainder possible in each, and two faults let one happen while
the first is being repaired. In the gateway the messages are one of each kind the
handlers tell apart; two requests let one be counted, answered or restarted while the
other waits. Windows of one tick open at 0, 2 and 4, and with a rate of two a window
holds two requests, so three pass within one window's length across a border (2 * Rate -
1: two at tick 2 after one at tick 1) and a fourth must not; `ClockBound` lets the clock
pass 1 only while no agent's request is in flight: no property relates these requests to
the limiter. Command lines of three simple commands have a first, a last and
one in between. In the broker two calls are the fewest whose answers overtake each
other; an answer without a lifetime, one that outlives a tick and a clock of three ticks
let a cached answer be used, expire and be replaced; where the broker only records,
nothing is refused and one call is enough (`OneIfRecorded`). `ForwardedWasGranted`
speaks of mode pro only, and the run asks Pro under one cache key: that an answer is
used for its own key alone rests on the theorem `GrantsHold`. Two streams under one
correlation id overlap; a buffer of two and a channel of one both overflow with three
events. `MCListeners` lets one listener run per behaviour (`part`), with the files that
matter to it: every step of `Listeners` is a step of one part, and no property relates
two of them. `PartsBehave` proves that the free interleaving shows each part nothing but
a behaviour of its own specification. Deadlock checking is off only where the instance
really stops: when records, requests, connections or events are used up.

Fairness. Goroutines are scheduled and timers fire, so every step of a handler that has
begun, of a call that has begun, of a ticker and of the export loop is weakly fair, each
one separately. Nothing makes a request arrive, an operator decide, a signal come or the
process crash. `RowsResolve` needs a cleanup statement that does not fail for ever: a
failing tick is a stutter of the model. `CloseReturns` and `RecordsAreExported` ask the
export loop and main to be scheduled; an export that fails counts as one that has ended.
`RecordsArrive` needs Pro to answer again and again: strong fairness of `SendAnswered`,
since an attempt may fail any number of times in between. `RequestsEnd` needs a handler
to run, the MCP client's 30 seconds to end and the queue to answer, which `KeepsPromise`
includes; it does not ask the upstream of the request proxy for anything, whose client
has no timeout, and says so. `CallsEnd` rests on the timeouts of both HTTP clients (30
and 60 seconds), not on Pro or an integration answering. `TunnelsEnd` asks for a read to
return on an end that is gone or closed, and for a write to fail on an end that this
program has closed. For nothing more: no read and no write of a tunnel has a deadline
(`forward.go:257-264`, `proxy.go:272`, `291`), so that a goroutine is not stuck in a
write for ever is the premise of the property, not an assumption of fairness. Nor has
the reading of a body (`forward.go:329`) or the writing of an answer (`forward.go:461`),
and no property promises that `ReadBody` or `Exchanged` comes to an end. `EventsArrive`
asks for the stream's goroutine alone: a stream whose channel was replaced is held until
a write fails, so only what it has queued is promised.

Disagreements, each a run that TLC must find violated:

- `ApprovalQueue_nilentry`: Approve and Deny dereference a missing entry when
  the row is pending and memory is empty (`approval.go:171`, `207`), the case
  their own comment means to serve.
- `ApprovalQueue_lostapproval`: in memory, an approval between Add and Wait is
  answered as an expiry.
- `SDRCollector_fork`: reading and advancing the head, and queueing, are
  separate steps, so concurrent callers leave a spool that `ValidateChain`
  rejects. `ForksAreBounded` says how bad it can get: as many records on one
  parent as there are callers.
- `SDRCollector_latecall`: a Record in flight at shutdown sends on the closed
  queue.
- `SpoolUploader_torn`: the uploader counts the unterminated end of the file
  as a line; a batch of more than 64 KB that is being written loses a record.
- `ToolGateway_refused`: a call the MCP gateway refuses is answered and then
  forwarded all the same, because the handler's nil means both. That is why
  `UpstreamWasCleared` speaks of the request proxy only.

What is deliberately not claimed:

- That the row and the handler's answer agree. They may differ for good (an
  approval before the insert, a failing store, two operators who disagree): the
  channel decides for the handler, the row for the log.
- That a denial by Pro takes effect at once. An older answer that arrives later
  replaces it in the cache; `ForwardedWasGranted` bounds how old a ruling may be
  when it is used: its lifetime and one timeout.
- That a limiter lets at most `Rate` through per window's length: its windows
  open with a request, and 2 * Rate - 1 pass across their border. `BurstIsBounded`
  says that no more do.
- That every queued record reaches the spool. Once a write of the spool has failed
  (a full disk), the collector loses everything it takes until it is restarted, and
  nobody is told: `flush` discards the error (`collector.go:227`). `SpoolInOrder`
  says what is left: the spool has no hole, and a writer that has not failed has
  lost nothing. `CloseExportsAll` says the same of the flush at shutdown.
- That a tunnel with a stalled peer ends. With one end gone, a goroutine that writes
  to a peer that takes nothing and another that reads from the same silent peer
  keep a tunnel of either kind for ever.
- That a publisher of events never waits for a slow client. `Publish` sends with a
  `default` (`sse.go:60`), and so it is one step of the model: its not waiting is
  modelled, not checked.
- That a redirect leads where the checks allow. The HTTP clients of the forward
  proxy and of the broker follow redirects by themselves, and nothing looks at where
  they lead; `docs/pii-detection.md:64` says of the list of domains "Only allowed
  domains reachable", which is so for the host that is asked for.
- That the upstream of the request proxy ever answers, or that a client's stream
  misses nothing between its replay and its subscription: the code provides for
  neither.
- That `PolicySeesEveryCommand` holds for more than the dresses it speaks of:
  pipes, `&`, subshells in brackets, a newline inside of a wrapper and `&&` or `||`
  inside of `$(...)` are not looked through by the code, and are left out by
  `Dressed`; so is a pattern that is itself a character the code looks at.

Seen while modelling, and at odds with a document, though no run is about it:

- A managed host that is configured with its port (`mock-github:9090` in
  `demo/parachute.broker-demo.yaml:15`) never matches, since the lookup strips the
  port: the forward proxy does not block it. `docs/credential-broker.md:35-36` says
  that in `enforce` mode it "blocks direct access to any host listed in a broker
  integration". `hostMap` and `Match` model it; `Mock` of `MCListeners` is such a host.
- An enabled broker in mode `off` still runs, injects credentials and forwards what
  Pro denies, and in mode `record` it injects credentials too.
  `docs/credential-broker.md:96` says "`off` disables, `record` logs only, `enforce`
  blocks and injects". `IsRefused` and `Decide` of `BrokerGateway` model it.

Seen while modelling, without a document to hold them against: three lists of
command tools and four of argument fields differ from gate to gate;
the broker's cache tells calls apart by integration and route class, coarser
than method and path;
a read that is allowed and a call that is approved end at `c.Next()` with 404;
with a token configured and no user, `Auth` lets a wrong token pass.

## 4. What is proved

For every value of the constants that satisfies the ASSUMEs of the modules:
types and, where something is counted, finite sets (`Callers`, `Requests`).
Sets of operators, streams, publishers, connections, calls and clients need not
be finite, and the configuration may be any.

`ApprovalQueue_proofs`:

- `TypeCorrect`: TypeOK. `CallTypes` and `CallStepEffect` state once what a
  step of a call does to `op`.
- `ApprovalsAreAsked`: `ApprovedWasAsked`, by `AskedInv`. The invariant alone
  is not inductive: a verdict travels from the call through the channel or the
  row to the handler, so the call that carries it (`CarriedWasAsked`), the
  channel, the row and the answer each need their clause.
- `WaitersAreServed`: `NoOrphanedWaiter`, by `RemovalIsDecided` (a call about
  to remove has found the channel decided) and the type invariant.
- `ChannelsAreDecidedOnce`, `RowsAreFinal`: action properties, from the type
  invariant and, for rows, from `NoRowYet` (a request that has not inserted its
  row has none, so the insert overwrites nothing).
- `AuditAgreesWithRows`: `AuditMatchesRow`, by `LogIsDue`: between the update
  and the insert of the log exactly one call owes the log this verdict.
- `DecidedLeaveTheList`: `ListedIsUndecided`, by `NewIsFresh`.
- `EarlyExpiriesWereDecided`: what `ApprovalQueue_lostapproval` shows is the only
  way to lose an answer. A request that is answered "expired" before its time was
  decided by an operator; time, the ticker, a crash and a failing store do not do
  it. By `ExpiryInv`: an entry that is missing between Add and Wait was decided or
  is late (`MissingIsExcused`), and what the timer or the store expires is late
  (`ExpiringIsLate`).
- `PromiseIsKept`: every step of the queue is a step of `ApprovalPromise` or
  leaves its variables alone, under the refinement mapping of `Promise`.

`SDRCollector_proofs`:

- `TypeCorrect`: TypeOK with the bounds of queue and batch.
- `OrderIsKept`: `SpoolInOrder`. `ExportTakes` says what an export adds to spool and
  losses together, whether it fails or not; `AppendToSecond`, `MoveFirst` and
  `RecordsAssociate` are the facts about concatenation that queueing and batching
  rest on.
- `CloseLosesNothing`: `CloseExportsAll`, by `Drained`: once the loop is done
  the queue is closed and queue and batch are empty, and stay so. What is not in
  the spool then was lost to a failed write.
- `DiskFollowsChain`: `DiskLag`, with any number of failed saves and with a process
  that started at genesis because it could not read its file.
- `OneCallerIsAChain`: what `SDRCollector_fork` refutes holds for one caller that
  has neither dropped a record nor been restarted (`Unforked`), whatever the
  batches, the saves and the shutdown do. By `ChainInv`: what was sent is a valid
  chain, and while the queue is open the caller's record continues its end
  (`Continues`); the spool is a beginning of what was sent, by `SpoolInOrder`, also
  when the writer has failed. All three conditions are needed: two callers fork, a dropped record
  is a gap, and a restart goes on from the head on disk. `AppendKeepsChain` is the
  fact about chains it rests on.
- `ServingCallsReturn`: what `SDRCollector_latecall` refutes holds until main
  has been told to stop: no call of Record meets a closed queue before that.
- `RecordsAreAccounted`: `EveryRecordIsAccounted`; the set of callers with a
  record in hand gains one with Advance and loses one with Enqueue, which counts
  it.
- `ForksAreNarrow`: `ForksAreBounded`, by `ForkInv`. Children of a record and
  the callers that still hold it (`Holders`) are together no more than the
  callers; a caller joins only while the record is the head, when it has no child
  yet (`HeadIsFree`), and a head that was replaced never comes back in the same
  process because every hash in use has been made before (`HashesAreMade`).

`SpoolUploader_proofs`, by one inductive invariant. Its core says where an offset
may stand (`AtMark`): behind a newline, behind a cell of a torn record or one past
an unterminated end; and what is whole and untorn before it (`ReadBefore`: in the
batch or received, for the loop's position; `SentBefore`: received, for the offset
on disk and for the position once Pro has answered). That needs to know which
lines are whole (`FileOK`): the buffer continues the file line by line, and both
a cut record and the one spoilt by it are in `torn`.

- `SpoolIsTyped`: TypeOK.
- `OffsetWaitsForPro`: `OffsetFollowsPro`, from `SentBefore`.
- `UntornLogIsExported`: what `SpoolUploader_torn` refutes holds where no batch
  outgrows the writer's buffer (`~Torn`, hence `torn` stays empty:
  `TearsNeedTorn`): everything behind the offset is with Pro. Crashes, lost answers
  and failed saves do not break it.
- `CopiesNeedFaults`: `NoNeedlessCopies`, by `FaultlessOK`: without a fault record
  r is the r-th triple of cells (`InPlace`), what Pro has ends where the offset
  stands and what the batch has begins there (`SentOnce`).
- `ProHearsInOrder`: `FirstCopiesInOrder`, by `OrderOK`: records stand in the file
  in their order (`SortedOK`, `EndsAreTorn`), a record enters the batch when all older ones are
  in it, received or torn (`BatchInOrder`), and so it reaches Pro (`GotInOrder`).

`ToolGateway_proofs` begins with the limiter alone, `BurstsHold`:
`BurstIsBounded` by `LimiterInv`. The bound
compares requests that are 2 * Rate - 1 apart, across the border of a window that
no variable remembers, so the invariant says where windows begin in `passed`:
each opens at most Rate requests after the one before it and more than a window's
length later (`WindowsFollow`), and the open one holds the last `count` of them
(`WindowOK`), all in the order of time. The rest is by one invariant `IInv`,
which says of each request what its place in the handler implies (`PlaceOK`: its
message, what the queue answered, what was reported) and includes the limiter's:

- `TypeCorrect`: TypeOK.
- `OnlyClearedGoUpstream`: `UpstreamWasCleared`. A request on its way to the
  upstream was let pass or answered "approved", and the queue answers that only
  when an operator asked for it.
- `AccountHolds`: `CallsAreCounted`; the sets of calls that wait before and after
  a step differ by the request whose handler moved, and the counters by as much.
- `VerdictsAreTold`: `VerdictIsReported`.
- `GatewayBurstsHold`: `BurstIsBounded` in the composition: a restart forgets
  the windows and begins to count again.
- `CommandsAreSeen`: `PolicySeesEveryCommand`, from the theorem of
  `CommandCheck_proofs`, with its hypotheses.

`CommandCheck_proofs`:

- `EveryCommandIsSeen`: `SeesEveryCommand` for scripts of any number of simple
  commands of any length. Its hypotheses are about the constants: a set `W` of
  words, none of which is a character the code looks at (`Syntax`); patterns that are
  words too, and not the "echo" that a dress brings with it; and scripts that are
  non-empty sequences of `Commands(W)`: a word, followed by words, by a backslash
  and what it hides, and by quoted text. The `Lines` of `ToolGateway_gates` are
  some of these, with the words ls, git, x, mkfs, sudo and echo. `Commands(W)` is
  the smallest such set, and `CommandsAreThere` shows that it is one.

  The folds become scans by a step function, whose states add up over
  concatenation (`After`). The two cutting scans carry each simple command whole
  (`Whole`), so they cut a line exactly between its commands and not at all
  inside of backticks or brackets (`IsLine`). The texts the policy is asked about are
  therefore the commands, and texts that show nothing but them (`Seen`): the
  commands' verdict is found, and no other. The inductions, over the length of a line
  and over the commands in it, are done by hand over the set of the lengths, or of
  the sequences, for which the claim holds (`NatInduct`, `SeqInduct`).

`ForwardProxy_proofs`:

- `DenialsHold`: `DenialsAreEnforced`, by `DenialInv`: what a connection has
  before it is read (`FreshBeforeRead`) and what it must have passed to be
  dialling or beyond (`PassedTheChecks`).
- `NothingStaysOpen`: the types, and that nothing leaks: both ends of a
  connection that is over are closed, whoever ended it (`EndsReleased`). That what
  has not been dialled has no far end makes it inductive.

`SSEBroker_proofs`:

- `RegisteredStaysOpen`: `RegisteredIsOpen`, by `RegisteredInv`: a channel is
  registered only under the id its own stream asked for, once that stream has
  subscribed (`RegisteredWhereAsked`), and a closed channel's stream has subscribed,
  so it never subscribes again (`ClosedWasOpened`).
- `StreamsKeepOrder`: `InBufferOrder`, by `OrderInv`. What a stream has written,
  will replay and finds in its channel is, in this order, one increasing sequence of
  places in the buffer (`StreamInPlace`), so is the buffer (`BufferInPlace`), and
  an id that was drawn is in the hands of a publisher or was put into the buffer
  (`HeldOrCommitted`). What `eventsSince`
  returns is defined by recursion over the buffer; that it is an increasing part
  of it is an induction, done by hand over the least index that fails.
- `StreamsAreTyped`: the types, with the bounds of buffer and channels.

`Listeners_proofs`, about the broker by `BrokerInv` and about the three together:

- `GrantsHold`: `ForwardedWasGranted`. Cached answers are dated
  (`CacheIsDated`: an entry expires no later than a timeout and its lifetime after
  its ruling, and is filed under the key it was made for), rulings on their way
  are fresh (`RulingsAreFresh`) and waits are short (`WaitsAreShort`); overtaking
  answers replace each other in the cache, but neither gets a longer life by it.
- `CallsAreTyped`: the types and `WaitsAreShort`.
- `PartsBehave`: a behaviour of the composition is one of each part. That is no
  refinement of an abstraction but the reason why proofs and runs of one part
  speak of the process that runs them all.
- `ListenersAreTyped`, `ListenersAreSafe`: the types and the four invariants of
  the parts hold together.

Only model-checked: all liveness properties and the liveness half of
`KeepsPromise` (TLAPS does not reason about ENABLED here).

## 5. What is not modelled

Contents of records, parameters and reasons; hashes and signatures; how text is
matched by regular expressions; HTTP itself, bodies and headers other than those
that carry credentials. The heartbeat, the approval notifier, the audit logger,
the metrics other than the MCP gateway's and the license keep no state another
part reads. The relay's connection is a placeholder; its messages would be calls of
Approve and Deny, which the queue's model takes from anybody. The command-line
tools are sequential and the demonstrations are not part of the program.

Not used by the program, and left out for that: the policy engines of
`internal/policy`, the hash chain of `internal/audit`, the CSRF manager and the
fail-closed authentication of `internal/middleware`, the forward proxy's own fiber
handler, the exporter's Close. `main` registers the classifier of GitHub alone, so
those of Linear and Slack are left out too. `Publish` of the SSE broker is
called by tests only; it is modelled because the streams it feeds are served.

A second request with the same id (ids are 8 characters of a UUID), lines over
1 MB and the store's read-only queries are left out.

## 6. Plan

What is left, in order:

1. Collector and spool in one: that a record that is accounted for as exported
   reaches Pro or is torn, as an abstract specification both implement.
2. The store under running servers at shutdown, with its statements failing from
   the moment it is closed, composed with `SDRCollector`'s shutdown.
