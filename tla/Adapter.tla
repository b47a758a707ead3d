------------------------------- MODULE Adapter -------------------------------
(***************************************************************************)
(* The adapter (pkg/adapter): HandleEvent walks the configured reactors in *)
(* order, starts one goroutine for each enabled reactor whose match        *)
(* expression holds, and waits for all of them.  A goroutine runs          *)
(* executeReactor (resolve the inputs, obtain the auth token, look the     *)
(* provider up, execute it) and appends its result to a slice under a      *)
(* mutex.                                                                  *)
(*                                                                         *)
(* A call is a slot in which HandleEvent runs, one event after another:    *)
(* an HTTP request or a Pub/Sub callback.  The calls share the process,    *)
(* the configuration and the two registries, which never change after      *)
(* start-up and are therefore constants.                                   *)
(***************************************************************************)
EXTENDS Naturals, Sequences, FiniteSets

CONSTANTS
  Calls,         \* slots in which HandleEvent may run concurrently
  NumReactors,   \* len(cfg.Reactors)
  Disabled,      \* the reactors with rc.Disabled
  NoAuth,        \* the empty rc.Auth, and the absent Authorization header
  AuthOf,        \* rc.Auth of each reactor, or NoAuth
  HandlerType,   \* the auth registry: the type of the handler of each name
  ProviderOf,    \* rc.Provider of each reactor
  Registered,    \* the names in the provider registry
  CtxAware,      \* the providers that give up when the context is cancelled
  MayPanic,      \* the providers whose Execute may panic
  MayHang        \* the providers whose Execute may wait for ever

Reactors == 1..NumReactors

\* The handlers whose GetToken has a token: those of the other types report that
\* they are not implemented yet.
Issuers == {h \in DOMAIN HandlerType : HandlerType[h] \in {"static-token", "github-token"}}

ASSUME ConfigAssumption ==
  /\ NumReactors \in Nat
  /\ Disabled \subseteq Reactors
  /\ NoAuth \notin DOMAIN HandlerType
  /\ DOMAIN AuthOf = Reactors
  /\ DOMAIN ProviderOf = Reactors

VARIABLES
  phase,      \* of each call: "idle", "running" or "returned"
  verdict,    \* of each call and reactor: what the match expression yields
  next,       \* of each call: the reactor the loop of HandleEvent is at
  wg,         \* of each call: the counter of its wait group
  mu,         \* of each call: the goroutine that holds the mutex, or 0
  results,    \* of each call: the slice of results
  cancelled,  \* the calls whose context has been cancelled
  pc,         \* of each goroutine: where executeReactor is
  header,     \* of each goroutine: the Authorization header in its context
  res,        \* of each goroutine: the error of its result, "none" if it has none
  snap,       \* of each goroutine: the slice it read before appending
  seen        \* of each goroutine: the header Execute was called with

callVars == <<phase, verdict, next>>
goVars == <<header, res, snap, seen>>
vars == <<phase, verdict, next, wg, mu, results, cancelled, pc, header, res,
          snap, seen>>

\* An expression that fails to evaluate counts as one that is false.
Verdicts == {"match", "noMatch"}
Errors == {"inputs", "token", "noProvider", "execution"}
Outcomes == Errors \cup {"none"}
NotInvoked == "notInvoked"
Result == [reactor : Reactors, error : Outcomes]
PCs == {"none", "resolve", "auth", "lookup", "start", "running", "hung", "report",
        "append", "done", "exit"}

PerGoroutine(v) == [c \in Calls |-> [r \in Reactors |-> v]]

Init ==
  /\ phase = [c \in Calls |-> "idle"]
  /\ verdict = PerGoroutine("noMatch")
  /\ next = [c \in Calls |-> 1]
  /\ wg = [c \in Calls |-> 0]
  /\ mu = [c \in Calls |-> 0]
  /\ results = [c \in Calls |-> <<>>]
  /\ cancelled = {}
  /\ pc = PerGoroutine("none")
  /\ header = PerGoroutine(NoAuth)
  /\ res = PerGoroutine("none")
  /\ snap = PerGoroutine(<<>>)
  /\ seen = PerGoroutine(NotInvoked)

\* The reactors that the event of call c has to reach.
Due(c) == {r \in Reactors : r \notin Disabled /\ verdict[c][r] = "match"}

\* The goroutines of call c that have been started and have not ended.
Live(c) == {r \in Reactors : pc[c][r] \notin {"none", "exit"}}

-----------------------------------------------------------------------------
\* HandleEvent, on the goroutine of its caller.

\* An event arrives; its content decides what every match expression yields.
HandleEvent(c) ==
  /\ phase[c] # "running"
  /\ phase' = [phase EXCEPT ![c] = "running"]
  /\ \E v \in [Reactors -> Verdicts] : verdict' = [verdict EXCEPT ![c] = v]
  /\ next' = [next EXCEPT ![c] = 1]
  /\ wg' = [wg EXCEPT ![c] = 0]
  /\ mu' = [mu EXCEPT ![c] = 0]
  /\ results' = [results EXCEPT ![c] = <<>>]
  /\ cancelled' = cancelled \ {c}
  /\ pc' = [pc EXCEPT ![c] = [r \in Reactors |-> "none"]]
  /\ header' = [header EXCEPT ![c] = [r \in Reactors |-> NoAuth]]
  /\ res' = [res EXCEPT ![c] = [r \in Reactors |-> "none"]]
  /\ snap' = [snap EXCEPT ![c] = [r \in Reactors |-> <<>>]]
  /\ seen' = [seen EXCEPT ![c] = [r \in Reactors |-> NotInvoked]]

\* Fault: break instead of continue.
SkipBreaks(c) ==
  /\ phase[c] = "running"
  /\ next[c] \in Reactors \ Due(c)
  /\ next' = [next EXCEPT ![c] = NumReactors + 1]
  /\ UNCHANGED <<phase, verdict, wg, mu, results, cancelled, pc, goVars>>

\* The reactor is disabled, or its expression is false or fails: continue.
Skip(c) ==
  /\ phase[c] = "running"
  /\ next[c] \in Reactors \ Due(c)
  /\ next' = [next EXCEPT ![c] = @ + 1]
  /\ UNCHANGED <<phase, verdict, wg, mu, results, cancelled, pc, goVars>>

\* wg.Add(1) and the go statement, which hands rc over by value.
Spawn(c) ==
  /\ phase[c] = "running"
  /\ next[c] \in Due(c)
  /\ wg' = [wg EXCEPT ![c] = @ + 1]
  /\ pc' = [pc EXCEPT ![c][next[c]] = "resolve"]
  /\ next' = [next EXCEPT ![c] = @ + 1]
  /\ UNCHANGED <<phase, verdict, mu, results, cancelled, goVars>>

\* Fault: the results are returned without wg.Wait().
ReturnWithoutWait(c) ==
  /\ phase[c] = "running"
  /\ next[c] > NumReactors
  /\ phase' = [phase EXCEPT ![c] = "returned"]
  /\ UNCHANGED <<verdict, next, wg, mu, results, cancelled, pc, goVars>>

\* wg.Wait() lets the call go on, and it returns its results.
Return(c) ==
  /\ phase[c] = "running"
  /\ next[c] > NumReactors
  /\ wg[c] = 0
  /\ phase' = [phase EXCEPT ![c] = "returned"]
  /\ UNCHANGED <<verdict, next, wg, mu, results, cancelled, pc, goVars>>

\* The HTTP client goes away, or the server shuts its listeners down.
CancelContext(c) ==
  /\ phase[c] = "running"
  /\ c \notin cancelled
  /\ cancelled' = cancelled \cup {c}
  /\ UNCHANGED <<callVars, wg, mu, results, pc, goVars>>

-----------------------------------------------------------------------------
\* executeReactor, on the goroutine of reactor r of call c.

Goto(c, r, from, to) ==
  /\ pc[c][r] = from
  /\ pc' = [pc EXCEPT ![c][r] = to]
  /\ UNCHANGED <<callVars, cancelled>>

\* An early return of executeReactor: the result carries the error.
Fail(c, r, from, error) ==
  /\ Goto(c, r, from, "report")
  /\ res' = [res EXCEPT ![c][r] = error]
  /\ UNCHANGED <<wg, mu, results, header, snap, seen>>

\* Whether the inputs resolve depends on the event and the environment.
ResolveInputs(c, r) ==
  \/ /\ Goto(c, r, "resolve", "auth")
     /\ UNCHANGED <<wg, mu, results, goVars>>
  \/ Fail(c, r, "resolve", "inputs")

\* Fault: the context with the token replaces the one all reactors share.
InjectAuthShared(c, r) ==
  \/ /\ AuthOf[r] = NoAuth
     /\ Goto(c, r, "auth", "lookup")
     /\ UNCHANGED <<wg, mu, results, goVars>>
  \/ /\ AuthOf[r] # NoAuth
     /\ AuthOf[r] \notin Issuers
     /\ Fail(c, r, "auth", "token")
  \/ /\ AuthOf[r] \in Issuers
     /\ Goto(c, r, "auth", "lookup")
     /\ header' = [header EXCEPT ![c] = [q \in Reactors |-> AuthOf[r]]]
     /\ UNCHANGED <<wg, mu, results, res, snap, seen>>

\* Fault: a token that cannot be had is asked for again, for ever.
InjectAuthRetries(c, r) ==
  \/ /\ AuthOf[r] \in Issuers \cup {NoAuth}
     /\ Goto(c, r, "auth", "lookup")
     /\ header' = [header EXCEPT ![c][r] = AuthOf[r]]
     /\ UNCHANGED <<wg, mu, results, res, snap, seen>>
  \/ /\ AuthOf[r] \notin Issuers \cup {NoAuth}
     /\ Goto(c, r, "auth", "resolve")
     /\ UNCHANGED <<wg, mu, results, goVars>>

\* Without the handler in the registry, and with one that has no token to give,
\* the reactor fails.
InjectAuth(c, r) ==
  \/ /\ AuthOf[r] = NoAuth
     /\ Goto(c, r, "auth", "lookup")
     /\ UNCHANGED <<wg, mu, results, goVars>>
  \/ /\ AuthOf[r] # NoAuth
     /\ AuthOf[r] \notin Issuers
     /\ Fail(c, r, "auth", "token")
  \/ /\ AuthOf[r] \in Issuers
     /\ Goto(c, r, "auth", "lookup")
     /\ header' = [header EXCEPT ![c][r] = AuthOf[r]]
     /\ UNCHANGED <<wg, mu, results, res, snap, seen>>

LookupProvider(c, r) ==
  \/ /\ ProviderOf[r] \in Registered
     /\ Goto(c, r, "lookup", "start")
     /\ UNCHANGED <<wg, mu, results, goVars>>
  \/ /\ ProviderOf[r] \notin Registered
     /\ Fail(c, r, "lookup", "noProvider")

\* A provider that honours a context that is already cancelled does nothing.
StartExecute(c, r) ==
  \/ /\ ProviderOf[r] \in CtxAware /\ c \in cancelled
     /\ Fail(c, r, "start", "execution")
  \/ /\ ~ (ProviderOf[r] \in CtxAware /\ c \in cancelled)
     /\ Goto(c, r, "start", "running")
     /\ seen' = [seen EXCEPT ![c][r] = header[c][r]]
     /\ UNCHANGED <<wg, mu, results, header, res, snap>>

\* The provider returns, with an error or without; or it waits for something that
\* never comes, and nothing limits how long: the context is cancelled to no avail.
FinishExecute(c, r) ==
  \/ /\ Goto(c, r, "running", "report")
     /\ UNCHANGED <<wg, mu, results, goVars>>
  \/ Fail(c, r, "running", "execution")
  \/ /\ ProviderOf[r] \in MayHang
     /\ Goto(c, r, "running", "hung")
     /\ UNCHANGED <<wg, mu, results, goVars>>

\* Nothing recovers a panic on the goroutine of a reactor: the process dies
\* and is started again with nothing in memory.
Panic(c, r) ==
  /\ ProviderOf[r] \in MayPanic
  /\ pc[c][r] = "running"
  /\ phase' = [d \in Calls |-> "idle"]
  /\ verdict' = PerGoroutine("noMatch")
  /\ next' = [d \in Calls |-> 1]
  /\ wg' = [d \in Calls |-> 0]
  /\ mu' = [d \in Calls |-> 0]
  /\ results' = [d \in Calls |-> <<>>]
  /\ cancelled' = {}
  /\ pc' = PerGoroutine("none")
  /\ header' = PerGoroutine(NoAuth)
  /\ res' = PerGoroutine("none")
  /\ snap' = PerGoroutine(<<>>)
  /\ seen' = PerGoroutine(NotInvoked)

\* Fault: append without mu.Lock().
LockResultsUnguarded(c, r) ==
  /\ Goto(c, r, "report", "append")
  /\ snap' = [snap EXCEPT ![c][r] = results[c]]
  /\ UNCHANGED <<wg, mu, results, header, res, seen>>

\* mu.Lock(), and the read of results that append starts with.
LockResults(c, r) ==
  /\ mu[c] = 0
  /\ Goto(c, r, "report", "append")
  /\ mu' = [mu EXCEPT ![c] = r]
  /\ snap' = [snap EXCEPT ![c][r] = results[c]]
  /\ UNCHANGED <<wg, results, header, res, seen>>

\* The write of results that append ends with, and mu.Unlock().
AppendResult(c, r) ==
  /\ Goto(c, r, "append", "done")
  /\ results' = [results EXCEPT
       ![c] = Append(snap[c][r], [reactor |-> r, error |-> res[c][r]])]
  /\ mu' = [mu EXCEPT ![c] = 0]
  /\ snap' = [snap EXCEPT ![c][r] = <<>>]
  /\ UNCHANGED <<wg, header, res, seen>>

\* The deferred wg.Done(), and the end of the goroutine.
Done(c, r) ==
  /\ Goto(c, r, "done", "exit")
  /\ wg' = [wg EXCEPT ![c] = @ - 1]
  /\ UNCHANGED <<mu, results, goVars>>

Goroutine(c, r) ==
  \/ ResolveInputs(c, r)
  \/ InjectAuth(c, r)
  \/ LookupProvider(c, r)
  \/ StartExecute(c, r)
  \/ FinishExecute(c, r)
  \/ LockResults(c, r)
  \/ AppendResult(c, r)
  \/ Done(c, r)

Next ==
  \/ \E c \in Calls :
       \/ HandleEvent(c)
       \/ Skip(c)
       \/ Spawn(c)
       \/ Return(c)
       \/ CancelContext(c)
       \/ \E r \in Reactors : Goroutine(c, r) \/ Panic(c, r)

\* The Go scheduler runs every runnable goroutine, and a provider call ends unless
\* it hangs.  Events, cancellations and panics are the environment's choice.
Fairness ==
  \A c \in Calls :
    /\ WF_vars(Skip(c) \/ Spawn(c) \/ Return(c))
    /\ \A r \in Reactors : WF_vars(Goroutine(c, r))

Spec == Init /\ [][Next]_vars /\ Fairness

-----------------------------------------------------------------------------
\* The variables have their types: in particular a wait group's counter is never
\* negative, with which the Go runtime panics (adapter.go:73-75).
TypeOK ==
  /\ phase \in [Calls -> {"idle", "running", "returned"}]
  /\ verdict \in [Calls -> [Reactors -> Verdicts]]
  /\ next \in [Calls -> 1..(NumReactors + 1)]
  /\ wg \in [Calls -> Nat]
  /\ mu \in [Calls -> Reactors \cup {0}]
  /\ results \in [Calls -> Seq(Result)]
  /\ cancelled \subseteq Calls
  /\ pc \in [Calls -> [Reactors -> PCs]]
  /\ header \in [Calls -> [Reactors -> Issuers \cup {NoAuth}]]
  /\ res \in [Calls -> [Reactors -> Outcomes]]
  /\ snap \in [Calls -> [Reactors -> Seq(Result)]]
  /\ seen \in [Calls -> [Reactors -> Issuers \cup {NoAuth, NotInvoked}]]

\* A call that is not running has no goroutine left behind: a caller that has
\* the results can release the event (adapter.go:83 waits for all of them).
NoOrphans == \A c \in Calls : phase[c] # "running" => Live(c) = {}

\* The slice holds the result of r, and no other result of r.
OneResult(c, r) ==
  \E k \in DOMAIN results[c] :
    /\ results[c][k] = [reactor |-> r, error |-> res[c][r]]
    /\ \A j \in DOMAIN results[c] : results[c][j].reactor = r => j = k

NoResult(c, r) == \A j \in DOMAIN results[c] : results[c][j].reactor # r

\* A goroutine that has left the critical section has exactly one result in
\* the slice, its own, whatever the others do (adapter.go:77-79).
NoLostResult ==
  \A c \in Calls, r \in Reactors :
    pc[c][r] \in {"done", "exit"} => OneResult(c, r)

\* A provider is called with the token of the handler its own reactor names,
\* and with none if it names none: the contexts of concurrent reactors do not
\* mix, and a reactor whose token failed never executes (adapter.go:106-127).
OwnToken ==
  \A c \in Calls, r \in Reactors :
    seen[c][r] # NotInvoked => seen[c][r] = AuthOf[r]

Promise == INSTANCE FanOut WITH
  due <- [c \in Calls |-> IF phase[c] = "idle" THEN {} ELSE Due(c)]

\* HandleEvent keeps the promise of FanOut: one result for each due reactor, and
\* a return when, and only when, the last one has reported (adapter.go:44-85).
ImplementsFanOut == Promise!Spec

\* Every call returns, however its reactors fail, unless the process dies or one of
\* its providers hangs: then the results of all of them wait (adapter.go:83).
EveryCallReturns ==
  \A c \in Calls :
    phase[c] = "running" ~> (phase[c] # "running" \/ \E r \in Reactors : pc[c][r] = "hung")

-----------------------------------------------------------------------------
\* The inductive invariant of the proofs (AdapterProofs).

\* The wait group counts the live goroutines; only a running call has any.
WaitGroupInv(c) ==
  /\ wg[c] = Cardinality(Live(c))
  /\ phase[c] # "running" => Live(c) = {}
  /\ phase[c] = "returned" => next[c] = NumReactors + 1

\* The loop has started exactly the due reactors it has passed.
SpawnInv(c) ==
  /\ phase[c] # "idle" =>
       \A r \in Reactors : pc[c][r] # "none" <=> r \in Due(c) /\ r < next[c]
  /\ phase[c] = "idle" => results[c] = <<>> /\ \A r \in Reactors : pc[c][r] = "none"

\* Only the holder of the mutex is between the read and the write of append,
\* and what it has read is still what the slice holds.
MutexInv(c) ==
  \A r \in Reactors :
    /\ pc[c][r] = "append" <=> mu[c] = r
    /\ mu[c] = r => snap[c][r] = results[c]

\* Goroutines that have appended have one result, the others none.
ResultsInv(c) ==
  \A r \in Reactors :
    IF pc[c][r] \in {"done", "exit"} THEN OneResult(c, r) ELSE NoResult(c, r)

\* The token in the context of a goroutine that got past its authentication
\* is the one of its own reactor.
TokenInv(c) ==
  \A r \in Reactors :
    /\ pc[c][r] \in {"lookup", "start", "running"} => header[c][r] = AuthOf[r]
    /\ seen[c][r] # NotInvoked => seen[c][r] = AuthOf[r]
    /\ pc[c][r] \in {"none", "resolve", "auth"} => header[c][r] = NoAuth

CallInv(c) ==
  /\ WaitGroupInv(c)
  /\ SpawnInv(c)
  /\ MutexInv(c)
  /\ ResultsInv(c)
  /\ TokenInv(c)

\* All of it, for every call: how HandleEvent and its goroutines share the wait
\* group, the mutex and the slice (adapter.go:44-154).
IInv == TypeOK /\ \A c \in Calls : CallInv(c)
=============================================================================
