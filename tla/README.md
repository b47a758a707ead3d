# Event Reactor in TLA+

Event Reactor (`er`) receives events over HTTP and Google Cloud Pub/Sub, decides
for each configured *reactor* with a CEL expression whether it cares, and runs
that reactor's *provider* (an HTTP call, a command, a mail, a log line). This
directory holds TLA+ models of it, the TLC runs that check them on small
instances, and TLAPS proofs of the properties that matter most for instances of
any size. Paths such as `adapter.go` are below `src/pkg/` of the repository.

- [How to run it](#how-to-run-it)
- [Inventory](#inventory): the parts of the program
- [Modules](#modules): which module models which part
- [Runs](#runs): what is checked, and the bounds
- [Fairness](#fairness)
- [Proofs](#proofs)
- [Where code and documents disagree](#where-code-and-documents-disagree)
- [Not modelled](#not-modelled)
- [Plan](#plan)

## How to run it

    tlc -workers 2 -config MCAdapter.cfg MCAdapter     # one run; PROJECT.json lists all
    tlapm AdapterProofs.tla                            # one proof module

`PROJECT.json` maps every definition to the lines it models, and names for every
property of a run a *mutant*: a definition, marked `Fault:` in the module, that
breaks the model the way a plausible bug would break the code. With the mutant in
the place of the definition TLC finds the property violated. A mutant is never
part of a next-state relation and no proof uses one.

## Inventory

What happens to an event: the HTTP handlers (`api/api.go`) or the Pub/Sub
listener (`listener/pubsub`) turn it into a `message.Event`; `adapter.HandleEvent`
matches it against each reactor (`matcher`), starts a goroutine per match, which
resolves the reactor's inputs (`reactor.go`), fetches an auth token (`auth`), looks
the provider up in the registry and executes it; the results come back to the
handler, which answers, or to the listener, which acks. `runServer` (`cmd/root.go`)
starts the HTTP server and the listeners in one `errgroup` and ends them together.

| Component | State it keeps | Operations | Talks to | What is hard | What makes it correct |
|---|---|---|---|---|---|
| Adapter, `adapter/adapter.go` | per call: wait group, mutex, slice of results, a context per reactor | `HandleEvent`, `executeReactor` | called by the handlers and listeners, many at once; calls matcher, inputs, auth, registry, providers | goroutines that end together append to one slice; five early returns; a panic is recovered nowhere | each due reactor has exactly one result; the call returns when, and only when, all have; tokens do not mix |
| Matcher, `matcher/matcher.go` | the map of compiled programs, an `RWMutex` | `Compile`, `Match` | called by the loop of `HandleEvent` | two callers miss and both write; the lock is not held while compiling | no concurrent map access; a caller gets the program of its own expression; nothing is forgotten |
| Pub/Sub listener, `listener/pubsub/pubsub.go` | none of its own; the service keeps leases | `Start`, `dispatch` | the Pub/Sub client calls it back; it calls the handler given by `runServer` | crash before the ack, expired lease, panics, unconvertible messages that come back for ever, shutdown in the middle | a message is acked only after its reactors reported; none is lost; all are handled in the end |
| Server run, `cmd/root.go`, `api.Start` | errgroup and its context, HTTP server, listeners | `runServer`, `Start`, shutdown | signals; all the above | one part fails while others run; requests that outlast the shutdown timeout; messages that never end | an exit without an error cut nothing off; no listener ends unnoticed or is missing; a failure stops the others; a cancelled server exits |
| Event normalisation, `message/message.go` | none | `FromPubSubPush`, `FromPubSubMessage`, `FromCloudEvent`'s helpers, `FromGenericPayload` | handlers and listener | the same event by six routes, missing and empty fields | the event does not depend on the route |
| HTTP handlers, `api/api.go` | none | `handleEvent`, `handleCloudEvent`, `handleWebhook` with its signature, health | normalisation, adapter | Pub/Sub envelopes are guessed from the shape of the body | as above; attributes agree with fields |
| Reactor inputs, `reactor/reactor.go`, `config/config.go` | none | `UnmarshalYAML`, accessors, `ResolveInputs` | adapter | an input with several sources; map order | documented priority; all or nothing |
| SMTP provider, `reactor/providers/providers.go` | per call: attempt counter, timer, session | `Execute`, `sendMail`, `trySend` | mail server | retries after a lost reply; cancellation against timer; limits of `maxRetries`; a server that falls silent | success means delivery; no duplicates; the call ends |
| Other providers | none | `Execute` | network, processes | context cancelled before or while they run; a command whose child keeps its output open | an error or a result (part of Adapter) |
| Config, `config/config.go` | none after loading | `Load`, `Parse`, `validate`, `applyDefaults`, accessors | start-up, reload, MCP, test commands | three callers check what they loaded in code of their own | what the server starts with, the checking commands accept |
| Reload, `reload/reload.go` | last time, debounce, watcher | `Watch`, `handleChange` | fsnotify, a callback; *no command creates one* | events dropped by the debounce; files replaced under the watch | an invalid file is never applied; no other change is lost |
| Rate limiter, `ratelimit/ratelimit.go` | tokens, last time, mutex | `Allow` | *no command uses it* | fractions, cap, time that passes in denied calls | no window admits too much; no caller starves |
| Circuit breaker, `circuitbreaker/circuitbreaker.go` | state, failures, last failure, mutex | `Allow`, `RecordSuccess`, `RecordFailure`, `State` | *no command uses it* | overlapping calls, late outcomes, several probes | open exactly after `threshold` failures in a row; not for ever |
| Auth handlers, `auth/auth.go` | the registry, fixed at start-up | `NewRegistry`, `GetToken` | start-up, adapter | five types with required fields, of which two have tokens to give | a bad one is found before anything runs; no foreign token |
| Listener factory, `listener/factory.go` | none | `Build` | `runServer` | nil means that the HTTP server serves the type | a type that nothing serves is refused |
| MCP server, `mcp/` | the scanner's position | `ServeStdio`, six tools | a client over pipes, a signal | one goroutine; the cancellation is seen between lines; lines that get no answer | answers in turn and once; nothing begun after the signal; a dry run tells what the server would do |
| Test commands, `cmd/test.go` | none | `match`, `template`, `config`, `reactor` | config, matcher, inputs | they repeat what the adapter and the MCP tools do | they say what the tools say |
| Generic listener, `listener/generic` | HTTP server | `Start` | *the factory never builds it* | as the HTTP server | - |
| Templates, observability, docs generator, version | - | - | - | none over time | - |

The hazards, each at the line where it bites, are listed in `PROJECT.json` with
the properties that would catch them.

## Modules

    FanOut  <---implements---  Adapter  <--- AdapterProofs
      ^                           ^--------- MCAdapter
      | instance, one call per slot
    PubSub  <--- PubSubProofs, MCPubSub

    Memo     <---implements---  MatcherCache  <--- MatcherProofs

    Startup  <---  Supervisor  <--- SupervisorProofs, MCSupervisor
       ^---------  Mcp         <--- McpProofs, MCMcp

    Smtp  <--- SmtpProofs, MCSmtp
    Ingest, Inputs  <--- EventProofs    (Inputs <--- MCInputs)
    RateLimiter, CircuitBreaker, Reload  <--- LibraryProofs

LibraryProofs and EventProofs extend several modules that share nothing. So that
the names do not clash, the specifications of these modules carry a prefix
(`LimiterSpec`, `BreakerSpec`, `WatcherSpec`, `IngestSpec`), with `Init`, `Next` and
`IInv` alike; Inputs keeps the plain names.

**FanOut** is the abstract specification of `HandleEvent`: an event is due at a
set of reactors, each reports one result, the call returns when all have. It knows
no goroutines. **Adapter** is the detailed one, and implements it.

**Adapter** (`adapter.go`). A call is a slot in which `HandleEvent` runs one event
after the other. `next` is the loop variable, `Skip` its `continue`s, `Spawn` is
`wg.Add(1)` with the `go` statement and `Return` is `wg.Wait()` with the return.
`pc[c][r]` walks the goroutine of reactor `r` through `executeReactor`; every early
return is `Fail`. `append` is two actions: `LockResults` reads the slice (`snap`),
`AppendResult` writes it back with one more element, so that without the mutex a
result can be lost. `header` is the token in the goroutine's own context and `seen`
what the provider was called with. What the expressions yield, whether inputs
resolve and whether a provider fails is free; a provider that honours its context
fails when it is already cancelled; `Panic` kills the process, since nothing on
that goroutine recovers, and a provider of `MayHang` may never return. The types of
the auth handlers decide which of them have a token to give (`Issuers`).

**MatcherCache** (`matcher.go`). `Compile` and `Match` as a sequence of steps on
Go's `RWMutex`, modelled as the library implements it: a writer first takes the
inner mutex, then keeps new readers out while it waits for those that are in. **Memo**
is what a caller may rely on: a table that answers each caller in one step, with the
program of its own expression or the error, and forgets nothing.

**PubSub** (`listener/pubsub/pubsub.go`, `cmd/root.go:165-175`). `Start` to `Stop`
is one life of the listener; `Pull` hands a message to a slot, and `Dispatch` is the
stages of the callback: conversion with its nack, the call of `HandleEvent` as an
instance of FanOut with the slots as its calls, and the ack. `HandlerPanics` is a
panic on the callback's goroutine, recovered and nacked; `ProviderPanics` is one on
a goroutine of the adapter, which ends the process. The service is external: it
redelivers what is not acked, leases expire (`LeaseExpires`), acks are sent some
time after they are made (`FlushAck`) and are lost with the process. Goroutines
that `HandleEvent` had started when it panicked run on after the nack (`orphans`):
they report, or panic themselves, while the message may be in another slot.

**Startup** (`config.go`, `auth.go`, `factory.go`, the set-up of `runServer`). What a
configuration must be like to be loaded, compiled and started with, as functions of
it: a configuration is the kinds of its reactors and listeners, the fields of its
auth handlers and the paths of its health endpoints. `startError` is the first thing
that keeps the server from starting, including gin's panic at two handlers of one
path, which gin has joined to its base path by then.

**Supervisor** (`cmd/root.go`, `api.go:67-102`, `pubsub.go:49-113`). The errgroup,
the two goroutines of `api.Start` (`serve` and `start`) and one goroutine per
background listener, from `SetUp`, which asks Startup, to exit. Requests and messages
are in progress or not; `MessageHangs` makes one that never ends. A listener whose
`Receive` has failed is draining (`fatal`) until its callbacks have returned, and only
then does its `Start` return the error that cancels the others.

**Mcp** (`mcp/stdio.go`, `mcp/mcp.go`, `cmd/test.go`). `ServeStdio` is four actions,
`Scan`, `CheckContext`, `Handle` and `Write`, between which the client writes more
lines or hangs up, stdout breaks and the signal comes. A line is its kind and, for
`tools/call`, what its arguments hold; each tool is an operator on these, and beside
it stands the `er test` command that does the same with files. Both look at a
configuration through Startup. `serves` is the measure of both: how far a running
server gets with the reactor, from `HandleEvent`'s `continue`s to each early return
of `executeReactor`.

**Ingest** (`message/message.go`, the handlers of `api/api.go`). One CloudEvent with
any of its context attributes own, empty or missing, and the event that each route
makes of it; a decoder is modelled by what it does with each kind of data. A webhook
comes with any secrets in the configuration and any signatures; one that is not
admitted fails.

**Inputs** (`config.go:120-257`, `reactor.go:98-205`). A YAML node is its kind and
what it holds at each special key: nothing, a null, something of another type, or
what fits, which then works or fails. A node with one misfit, or with nothing but
nulls, falls back to the plain map it is; `UnmarshalYAML`, the accessors and
`resolveInput` are operators, and `Resolve` is one iteration over the map, in any
order. The source of a value is looked for a second time in the node itself, by the
documented ranks (`Wins`), and never in what the code made of it.

**Smtp** (`providers.go:283-540`). One call of the provider. An action per SMTP
command; a failing command ends the attempt, and after the end of the data the
server may have accepted the message (`copies`) although the client sees an error
(`lostReply`). The wait between two attempts is a `select` between the timer and
the cancellation, and takes either when both are ready. The loop of `sendMail` is
entered only if `maxRetries` allows an attempt; if it did not, the call would return
no error. The server may fall silent with a session open (`FallSilent`), and nothing in the code bounds that. The dialler is
the default one, which is given the context; an `SMTPDialer` of the tests is not. A
`QUIT` that is refused counts as a lost reply: the message was accepted before it.

**Reload** (`reload/reload.go`). `Watch` with its debounce as a clock that stops at
`Debounce`, against editors that truncate and write, replace the file, or change
it before the watch begins. The watch may fail at its start, and the kernel's queue
may overflow (`Notify`), of which `Watch` only logs the error.

**RateLimiter** (`ratelimit/ratelimit.go`) and **CircuitBreaker**
(`circuitbreaker/circuitbreaker.go`): each method holds its mutex from start to
end and is one action. The limiter counts in exact fractions where the code has a
`float64`, and is observed by a window that opens at any time. The breaker is
observed by two history variables that no action reads, the outcomes of the last
calls to end (`ended`) and the time since one failed (`quiet`).

## Runs

Every run ends within a few minutes on two workers.

| Run | Instance | What it shows |
|---|---|---|
| `adapter` (MCAdapter) | one call at a time, 5 reactors: with a token, may panic or hang, disabled, no token to be had, no provider | no orphaned goroutine, no lost result, no foreign token, every call returns unless a provider holds it; Adapter implements FanOut |
| `matcher` | 3 callers, 2 valid expressions and an invalid one | no concurrent map access, own program, every call returns; MatcherCache implements Memo |
| `pubsub` (MCPubSub) | 3 messages (one unconvertible), 2 slots, 2 reactors, any 2 faults, a handler's panic with goroutines left behind among them | acked implies reported, unconvertible is kept, no message forgotten, every convertible message acked in the end |
| `pubsub_fail_on_error` | the same without faults | *violation*: see the divergences |
| `rate_limiter` | 3 tokens, 3/5 token per tick, a window of up to 8 tokens | no window admits more than the burst and what accrues in it; a caller that keeps asking gets through |
| `circuit_breaker` | 3 callers, threshold 3, timeout 4 ticks | open exactly when the last threshold outcomes were failures; as long as they are, no call begins before the timeout has passed since the last; not open for ever |
| `reload` | 2 valid configurations and a broken one, 3 edits, debounce 2 ticks, a watch that may fail and a queue that may overflow | the last good contents read are the active ones; changes are lost to the debounce or to the lack of an event only; the watcher settles |
| `smtp` | all inputs, `maxRetries` in {-1, 0, 2, 11} | success means delivery whatever `maxRetries` is given, no duplicates unless a reply is lost, a late attempt sends nothing, the call ends unless the server falls silent |
| `supervisor` (MCSupervisor) | 2 connections, 2 listeners, configurations with a defect of each kind in any part | the three checks of a configuration agree; clean exit cut nothing off, no listener ended unnoticed or missing, a part that fails stops the others and a cancelled server exits, unless a message hangs |
| `ingest` | every combination of attributes, seven kinds of data, six routes in any order, any secrets and signatures | push and pull agree on all but two kinds of data; all routes agree on a complete event; attributes agree with fields |
| `inputs` (MCInputs) | 2 inputs with up to two sources each, up to two paths, null keys and keys of another type | documented priority, or a plain map at a key of another type; all or nothing |
| `mcp` (MCMcp) | up to 3 lines: each kind the loop tells apart, each tool with each outcome | answers in turn and once, nothing begun after the signal, dry runs show inputs just when the server would resolve them, requests are answered or the server ends |

Why the bounds are enough:

- **adapter**: calls share nothing but the process (the configuration is constant),
  so one slot shows all there is between goroutines; a second event in the same
  slot shows that nothing is left of the first. Five reactors give each early
  return its own reactor and let four goroutines meet at the mutex; the error races
  need two. The proofs are for any number of calls and reactors. An expression
  that fails to evaluate is one that does not match, as in the code.
- **matcher**: a writer that drains two readers, or one reader while another one
  queues, needs three callers.
- **pubsub**: one message that repeats for ever next to two others, both slots busy,
  and two faults: a redelivery that itself meets a fault. `MaxFaults` also makes
  `EventuallyAcked` meaningful: a process that is killed for ever acks nothing.
- **rate_limiter**: 3/5 is no whole number of tokens and does not divide the burst;
  `MaxWindow` = 40 fractions is more than two refills of the whole bucket.
- **circuit_breaker**: as many callers as the threshold, so that all failures may
  come from calls that began while the breaker was closed; time above the timeout,
  failures above the threshold and outcomes before the last three need not be told
  apart.
- **reload**: three edits are a change, one in its debounce window and one after.
- **smtp**: the limits (below zero, above ten) and two attempts after the first.
- **supervisor**: two of everything, so that one of it fails or ends while the other
  is at work. The configurations combine one defect of each kind in each part; the
  types `http` and `cloudevents` are left to `webhook`, which `Build` treats alike, and
  one pair of health paths, of which one lacks its slash, stands for all the sound ones.
- **ingest**: each kind of data is one that some decoder treats in a way of its own;
  secrets are none, one, two, and ones that are empty.
- **mcp**: three lines are one in hand, one answered before it and one waiting. With
  them the client pipelines past every kind of line that gets no answer.
- **inputs**: two sources decide every pair of the priority order; each order of
  two keys is taken. MCInputs leaves nodes with three and more sources out. A misfit
  is tried beside each source, the secret too, for it undoes them all.

Deadlock is checked in `matcher`, `pubsub`, `rate_limiter` and `circuit_breaker`.
The other systems really stop: a process exits (`Supervisor`, `Mcp`), a call ends
(`Smtp`), the watch stops and the edits are used up (`Reload`), all routes are taken
(`Ingest`), the inputs are resolved (`Inputs`), and a call whose provider never
returns waits for ever (`Adapter`, where `EveryCallReturns` says that this is the
only way to get stuck).

## Fairness

- *Adapter, MatcherCache*: weak fairness of every goroutine, which the Go scheduler
  gives. `Execute` of a provider outside `MayHang` ends; `exec` and `smtp` are of the
  kind that may hang, on a child's output pipe and on a silent peer. `Lock` of the
  matcher has strong fairness: `sync.Mutex` hands itself over to a waiter in starvation mode.
- *PubSub*: the process is started again, callbacks run, the client sends its
  acks. The service starves no message (strong fairness of each message's `Pull`),
  which is a promise of the service and not of this code. Reactors report in the end:
  here no provider hangs. No fault is ever forced.
- *RateLimiter, CircuitBreaker, Reload*: time passes. A caller of the breaker ends
  its call; an editor that truncated a file writes it; editors need do nothing else.
- *Smtp*: timers fire, and a command is answered or its connection breaks as long as
  the server is not silent. The code sets a deadline for dialling only.
- *Supervisor*: goroutines run, the shutdown timer fires, a message that does not hang
  is handled in the end, and a pull that is cancelled stops. Nothing is assumed of
  requests: one may never end.
- *Mcp*: the loop runs, and the client reads what is written to it, for a pipe that is
  full blocks the loop. It need not write, hang up or send a signal.
- *Ingest, Inputs*: none; they have no liveness property.

## Proofs

All theorems hold for every value of the constants under the `ASSUME` of the
module (types, mostly). Each proof module shows an invariant `IInv` inductive: it
holds initially, every action keeps it, it implies the properties. TLC found each
`IInv` to hold on the instance of its run before it was proved. With the refinements,
every invariant and every action property that a run checks is a theorem.

- **AdapterProofs** — `IInv` has five parts per call: the wait group counts the live
  goroutines, and a call that is not running has none; the loop has started
  exactly the due reactors it has passed; only the holder of the mutex is between
  the read and the write of `append`, and what it read is still there; goroutines
  that have appended have exactly one result, the others none; the header of a
  goroutine past its authentication is its own. `NoLostResult` alone is not
  inductive: it needs the mutex part to know that a write overwrites nothing, and
  `NoOrphans` needs the counting. Theorems: `TypeCorrect` (no negative wait
  group), `NoOrphansHolds`, `NoLostResultHolds`, `OwnTokenHolds`, and
  `KeepsPromise`: Adapter implements FanOut, where `Return` refines because a wait
  group at zero means that everything due has reported. The constants are only
  assumed to be typed and the reactors to be `1..NumReactors`.
- **MatcherProofs** — the lock knows who is where, the cache holds programs under
  their own expressions, each caller carries its own: `NoConcurrentMapAccess`,
  `OwnProgram`, and the action property `CacheMonotone`, which no run checks on its
  own because Memo says it too. `KeepsPromise`:
  MatcherCache implements Memo. The one step of a call is the lookup that hits, the
  write of a program (even if another caller has written the same one meanwhile,
  which leaves `known` as it is) or the error; the lemma `QuietStep` shows that the
  lock and the delivery of the result are stutters.
- **PubSubProofs** — a slot in the stage "ack" holds a message all of whose reactors
  have reported, which follows from FanOut's `Return`: `AckedIsReported`,
  `UnconvertibleIsKept`, `NoMessageForgotten`, for any number of faults. Goroutines
  that outlive their call only add to what has been reported, on messages that could
  be converted (`OrphanInv`).
- **LibraryProofs** — RateLimiter: a potential, for the tokens admitted in the window
  and those in the bucket never exceed the burst and what accrued (`WindowBound`).
  CircuitBreaker: neither property is inductive, for they speak of outcomes and the
  code keeps a counter; the link is `CountsFailuresInARow`, by which the counter is
  the length of the run of failures at the end of the history. It gives
  `OpenIffThreshold` and, with the timer equal to the time since the last failure, the
  action property `NoEarlyProbe`. Reload: every change of the file leaves an event, a
  read under way or a mark that it was missed (the lemma `NotifyMarks`), which carries
  `NoOtherLoss` over every step; `LastGoodIsActive` is inductive beside it, and the two
  give `QuietIsCurrent`.
- **SmtpProofs** — attempts, copies and result agree: `SuccessIsDelivered`,
  `DeliveredOnce`, `LateAttemptSendsNothing`, for any set of `maxRetries`. The lemma
  `ParseType` is where the two clamps count: without the lower one the loop could be
  passed by and the call report success, without the upper one the attempts had no
  bound.
- **SupervisorProofs** — errgroup, HTTP server and listeners agree: `CleanExit`,
  `NoPartDead`, which needs to know that a server whose accept loop has ended for good
  was cancelled; and `ChecksAgree`, since the configuration does not change after the
  set-up has judged it. For any set of configurations.
- **EventProofs** — Inputs: the map holds the values of the inputs the loop has passed
  (`AllOrNothing`), and `ResolvedByPriority`, by way of lemmas that relate the nested
  conditions of `resolveInput` to the ranks of the sources, and that a node which
  falls back to a plain map resolves to it. The run stops at two
  sources; the theorem is for any. Ingest: an event that has arrived by a route is the
  one that the route's handler makes of the CloudEvent (`IngestIInv`); the routes are
  then compared with each other, two and two, over every combination of attributes:
  `PushPullAgree`, `RoutesAgree`, `AttributesMatchFields`.
- **McpProofs** — `IInv` adds to the properties that no answer to the line in hand is
  out and that the response in hand is the one `handleRequest` makes of it (`InHand`),
  that every answer is that of its own line (`OwnAnswer`), and that a line past the
  check after the signal was begun before it (`BegunInTime`). `AnsweredInTurn` alone is
  not inductive, because it does not know whether the line in hand has been answered;
  nor is `NothingBegunAfterCancel`, which sees only answers. `DryRunIsFaithful` follows
  by lemmas about the operators: each tool answers as the command beside it
  does, and `test_reactor` resolves inputs just when the server would.

Only model-checked: the eleven liveness properties, since liveness under fairness and
ENABLED are beyond the prover.

## Where code and documents disagree

One run states what a comment says, and TLC refutes it:

- `pubsub_fail_on_error`: `config.go:110-111` describes `failOnError` as failing
  the pipeline and as true by default. The handler in `cmd/root.go:169` drops the
  results, nothing reads the setting, and a message whose reactor failed is acked.

Met on the way, with the model that shows it where there is one:

- `message.go:95-96` says that push and pull give equivalent events. A message
  without data is pulled as an event with `{}` and its attributes; pushed, it is an
  error (`"data": ""`) or a generic event without id, source and attributes (no
  `data` field). The three bytes whose base64 reads `null` are an error when pulled
  and an event when pushed. `PushPullAgree` exempts just these two.
- `api.go:133` answers with `len(results)`, which counts reactors that failed before
  their provider executed; `docs/api.md:28-29` says "matched and executed".
- `pubsub.go:116-118` says that `dispatch` recovers so that one bad message cannot
  tear the pull down; a provider panics on a goroutine of the adapter
  (`adapter.go:74`), where nothing recovers, and ends the process (PubSub's
  `ProviderPanics`).
- `circuitbreaker.go:32-33` says the breaker resets after `resetTimeout`; a call
  admitted earlier that succeeds late closes it at once (`circuitbreaker.go:75`).
- `docs/design/configuration.md:191` says changes are applied automatically; no
  command creates a `Watcher`, and a write in place (truncate, write) is read at
  its first event, so that the empty file, which loads, may stay active.
- `docs/api.md:140` promises every event an id; `FromGenericPayload`
  (`message.go:138`) makes none.
- `config.go:126` lists `template` before `expr`; `reactor.go:152` looks at `expr`
  first, as `docs/design/configuration.md` says.
- `config.go:160` says that scalars keep their type; `config.go:166` makes strings of
  them, so that `maxRetries: 3` is no number to the SMTP provider.
- `Retry` of a reactor is documented and read nowhere.
- `er test config` (`docs/cli.md:83`) and `validate_config` accept configurations
  with which the server does not start: an auth handler without its fields, a
  listener type that nothing serves, or one path for both health endpoints, at which
  gin panics (`api.go:57-58`). This is why `ChecksAgree` is
  about loading and compiling only.
- `er test reactor` is to "dry-run or execute" (`cmd/test.go:162`); with
  `--dry-run=false` it resolves the inputs and executes nothing (`cmd/test.go:215`).
  Neither it nor `test_reactor` looks at `disabled`, at the token or at the provider, so
  that both show inputs for a reactor whose provider would never be called
  (`adapter.go:54-57`, `105-138`).
- `root.go:160-161` says that a failure of one part stops the others. A listener whose
  `Receive` has failed first waits for its callbacks; while one hangs in a provider
  nothing is cancelled, and the HTTP server runs on beside a listener that pulls no
  more. `FailureStopsAll` exempts just this.
- `config.go:161` says that maps are parsed for special keys, and
  `docs/design/configuration.md` gives their priority. One special key of another type
  (`config.go:174`) turns the whole input into a plain map, without an error, and a
  `secretKeyRef` beside it is not looked at. `ResolvedByPriority` says so.
- `list_providers` never lists one: `mcpCmd` makes a registry (`cmd/root.go:183`) and
  does not fill it.
- A request that is no JSON is logged and never answered (`stdio.go:92`); a
  notification with a method that is not known is answered with an error
  (`stdio.go:168`). After a signal `er mcp` waits for the client to write or to hang
  up (`stdio.go:77-79`), which `CancelledEnds` states.
- Of several `webhookSecrets` for a source only the first counts, and one that is
  empty turns the check off (`api.go:257-264`, Ingest's `Admits`).
- The http provider drops the error of reading the response (`providers.go:99`): a
  response that was cut off is a success.

## Not modelled

- **Templates, observability, docs generator, version, entry point**: text
  formatting, the making of a logger, a build tool.
- **Generic listener**: the factory never builds it, only its own tests do. Its
  `Start` is that of the HTTP server but for the port, which it binds first; its
  handler is Ingest's `Bare`.
- **Config fields that nothing refuses** (ports, log levels, timeouts): assignments.
- **What the HTTP responses say, and the health endpoints**, which answer with a
  constant.
- **What echo, http, exec and log produce**: Adapter knows that a provider succeeds,
  fails, panics or hangs. The token endpoints behind three types of auth handlers do
  not exist in this code: their `GetToken` returns an error.
- **The texts of MCP answers**, and JSON-RPC's ids beyond being there or not.
- `float64` rounding in the rate limiter, the text of mails, and how CEL, text
  templates and JSON compute what they compute.

## Plan

The modules were written in this order, what everything else calls first: FanOut and
Adapter; MatcherCache; PubSub over FanOut; Supervisor; Smtp, Ingest and Inputs; the
packages no command uses yet (RateLimiter, CircuitBreaker, Reload); then Startup,
which Supervisor and Mcp share, and Mcp. What is left:

1. Adapter with the steps of MatcherCache in its loop, in the place of the free
   verdicts, still implementing FanOut; with Memo in the place of MatcherCache first.
2. PubSub with providers that hang: the messages that share a stuck client.
3. PubSub shown to implement an abstract subscription (delivered, reported, acked),
   as Adapter and MatcherCache are shown to implement theirs.
4. The responses of the HTTP handlers, once what they count is settled.
