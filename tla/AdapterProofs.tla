---------------------------- MODULE AdapterProofs ----------------------------
(***************************************************************************)
(* Proofs about Adapter for every set of calls, every list of reactors and *)
(* every pair of registries: the inductive invariant IInv, the safety      *)
(* properties it implies, and that HandleEvent keeps the promise of        *)
(* FanOut.                                                                 *)
(***************************************************************************)
EXTENDS Adapter, FiniteSetTheorems, TLAPS

\* Where a goroutine is before it takes the mutex.
Before == {"resolve", "auth", "lookup", "start", "running", "hung", "report"}

\* The goroutines of a call are finitely many.
LEMMA LiveFinite ==
  ASSUME NEW c
  PROVE  IsFiniteSet(Live(c))
<1>1. IsFiniteSet(Reactors)
  BY ConfigAssumption, FS_Interval DEF Reactors
<1>2. QED
  BY <1>1, FS_Subset DEF Live

\* While a goroutine has not ended, its wait group is not at zero.
LEMMA LiveCounted ==
  ASSUME NEW c, NEW r \in Live(c), WaitGroupInv(c)
  PROVE  wg[c] \in Nat \ {0}
<1>1. Cardinality(Live(c)) \in Nat /\ Cardinality(Live(c)) # 0
  BY LiveFinite, FS_EmptySet, FS_CardinalityType
<1>2. QED
  BY <1>1 DEF WaitGroupInv

\* The initial state has every type of TypeOK and nothing in progress.
LEMMA InitIInv == Init => IInv
<1> USE ConfigAssumption
<1> SUFFICES ASSUME Init PROVE IInv
  OBVIOUS
<1>1. TypeOK
  BY DEF Init, TypeOK, PerGoroutine, Verdicts, PCs, Outcomes, Reactors
<1>2. ASSUME NEW c \in Calls PROVE CallInv(c)
  <2>1. Live(c) = {}
    BY DEF Init, Live, PerGoroutine
  <2>2. WaitGroupInv(c)
    BY <2>1, FS_EmptySet DEF Init, WaitGroupInv
  <2>3. SpawnInv(c) /\ MutexInv(c) /\ ResultsInv(c) /\ TokenInv(c)
    BY DEF Init, SpawnInv, MutexInv, ResultsInv, TokenInv, NoResult,
           PerGoroutine, Reactors
  <2>4. QED BY <2>2, <2>3 DEF CallInv
<1>3. QED BY <1>1, <1>2 DEF IInv

-----------------------------------------------------------------------------
\* Types.

\* A goroutine that moves keeps the types of what Goto says of the state.
LEMMA GotoType ==
  ASSUME TypeOK, NEW c \in Calls, NEW r \in Reactors, NEW from, NEW to \in PCs,
         Goto(c, r, from, to)
  PROVE  /\ phase' \in [Calls -> {"idle", "running", "returned"}]
         /\ verdict' \in [Calls -> [Reactors -> Verdicts]]
         /\ next' \in [Calls -> 1..(NumReactors + 1)]
         /\ cancelled' \subseteq Calls
         /\ pc' \in [Calls -> [Reactors -> PCs]]
<1>1. pc' \in [Calls -> [Reactors -> PCs]]
  BY DEF Goto, TypeOK
<1>2. QED
  BY <1>1 DEF Goto, TypeOK, callVars

\* So does an early return of executeReactor.
LEMMA FailType ==
  ASSUME TypeOK, NEW c \in Calls, NEW r \in Reactors, NEW from,
         NEW error \in Errors, Fail(c, r, from, error)
  PROVE  TypeOK'
<1>1. Goto(c, r, from, "report") /\ "report" \in PCs
  BY DEF Fail, PCs
<1>2. res' \in [Calls -> [Reactors -> Outcomes]]
  BY DEF Fail, TypeOK, Outcomes
<1>3. UNCHANGED <<wg, mu, results, header, snap, seen>>
  BY DEF Fail
<1>4. QED
  BY <1>1, <1>2, <1>3, GotoType DEF TypeOK

\* No step leaves the types of TypeOK.  Only Done needs more than the types:
\* the wait group of a goroutine that has not ended is positive.
LEMMA TypeStep == IInv /\ [Next]_vars => TypeOK'
<1> USE ConfigAssumption
<1> SUFFICES ASSUME IInv, [Next]_vars PROVE TypeOK'
  OBVIOUS
<1>a. TypeOK
  BY DEF IInv
<1>1. ASSUME NEW c \in Calls, HandleEvent(c) PROVE TypeOK'
  BY <1>a, <1>1 DEF HandleEvent, TypeOK, Reactors, Outcomes, PCs
<1>2. ASSUME NEW c \in Calls, Skip(c) PROVE TypeOK'
  <2>1. next[c] \in 1..NumReactors /\ next[c] + 1 \in 1..(NumReactors + 1)
    BY <1>2 DEF Skip, Reactors
  <2>2. next' \in [Calls -> 1..(NumReactors + 1)]
    BY <1>a, <1>2, <2>1 DEF Skip, TypeOK
  <2>3. UNCHANGED <<phase, verdict, wg, mu, results, cancelled, pc, goVars>>
    BY <1>2 DEF Skip
  <2>4. QED BY <1>a, <2>2, <2>3 DEF TypeOK, goVars
<1>3. ASSUME NEW c \in Calls, Spawn(c) PROVE TypeOK'
  <2>1. next[c] \in Reactors /\ next[c] + 1 \in 1..(NumReactors + 1)
    BY <1>3 DEF Spawn, Due, Reactors
  <2>2. next' \in [Calls -> 1..(NumReactors + 1)]
    BY <1>a, <1>3, <2>1 DEF Spawn, TypeOK
  <2>3. wg' \in [Calls -> Nat]
    BY <1>a, <1>3 DEF Spawn, TypeOK
  <2>4. pc' \in [Calls -> [Reactors -> PCs]]
    BY <1>a, <1>3, <2>1 DEF Spawn, TypeOK, PCs
  <2>5. UNCHANGED <<phase, verdict, mu, results, cancelled, goVars>>
    BY <1>3 DEF Spawn
  <2>6. QED BY <1>a, <2>2, <2>3, <2>4, <2>5 DEF TypeOK, goVars
<1>4. ASSUME NEW c \in Calls, Return(c) PROVE TypeOK'
  BY <1>a, <1>4 DEF Return, TypeOK, goVars
<1>5. ASSUME NEW c \in Calls, CancelContext(c) PROVE TypeOK'
  BY <1>a, <1>5 DEF CancelContext, TypeOK, callVars, goVars
<1>6. ASSUME NEW c \in Calls, NEW r \in Reactors, Panic(c, r) PROVE TypeOK'
  BY <1>6 DEF Panic, PerGoroutine, TypeOK, Reactors, Verdicts, Outcomes, PCs
<1>7. ASSUME NEW c \in Calls, NEW r \in Reactors, ResolveInputs(c, r)
      PROVE  TypeOK'
  <2>1. CASE Goto(c, r, "resolve", "auth") /\ UNCHANGED <<wg, mu, results, goVars>>
    <3>1. "auth" \in PCs
      BY DEF PCs
    <3>2. QED BY <1>a, <2>1, <3>1, GotoType DEF TypeOK, goVars
  <2>2. CASE Fail(c, r, "resolve", "inputs")
    BY <1>a, <2>2, FailType DEF Errors
  <2>3. QED BY <1>7, <2>1, <2>2 DEF ResolveInputs
<1>8. ASSUME NEW c \in Calls, NEW r \in Reactors, InjectAuth(c, r) PROVE TypeOK'
  <2>0. "lookup" \in PCs
    BY DEF PCs
  <2>1. CASE Goto(c, r, "auth", "lookup") /\ UNCHANGED <<wg, mu, results, goVars>>
    BY <1>a, <2>0, <2>1, GotoType DEF TypeOK, goVars
  <2>2. CASE Fail(c, r, "auth", "token")
    BY <1>a, <2>2, FailType DEF Errors
  <2>3. CASE /\ AuthOf[r] \in Issuers
             /\ Goto(c, r, "auth", "lookup")
             /\ header' = [header EXCEPT ![c][r] = AuthOf[r]]
             /\ UNCHANGED <<wg, mu, results, res, snap, seen>>
    <3>1. header' \in [Calls -> [Reactors -> Issuers \cup {NoAuth}]]
      BY <1>a, <2>3 DEF TypeOK
    <3>2. QED BY <1>a, <2>0, <2>3, <3>1, GotoType DEF TypeOK
  <2>4. QED BY <1>8, <2>1, <2>2, <2>3 DEF InjectAuth
<1>9. ASSUME NEW c \in Calls, NEW r \in Reactors, LookupProvider(c, r)
      PROVE  TypeOK'
  <2>1. CASE Goto(c, r, "lookup", "start") /\ UNCHANGED <<wg, mu, results, goVars>>
    <3>1. "start" \in PCs
      BY DEF PCs
    <3>2. QED BY <1>a, <2>1, <3>1, GotoType DEF TypeOK, goVars
  <2>2. CASE Fail(c, r, "lookup", "noProvider")
    BY <1>a, <2>2, FailType DEF Errors
  <2>3. QED BY <1>9, <2>1, <2>2 DEF LookupProvider
<1>10. ASSUME NEW c \in Calls, NEW r \in Reactors, StartExecute(c, r)
       PROVE  TypeOK'
  <2>1. CASE /\ Goto(c, r, "start", "running")
             /\ seen' = [seen EXCEPT ![c][r] = header[c][r]]
             /\ UNCHANGED <<wg, mu, results, header, res, snap>>
    <3>1. "running" \in PCs
      BY DEF PCs
    <3>2. seen' \in [Calls -> [Reactors -> Issuers \cup {NoAuth, NotInvoked}]]
      BY <1>a, <2>1 DEF TypeOK
    <3>3. QED BY <1>a, <2>1, <3>1, <3>2, GotoType DEF TypeOK
  <2>2. CASE Fail(c, r, "start", "execution")
    BY <1>a, <2>2, FailType DEF Errors
  <2>3. QED BY <1>10, <2>1, <2>2 DEF StartExecute
<1>11. ASSUME NEW c \in Calls, NEW r \in Reactors, FinishExecute(c, r)
       PROVE  TypeOK'
  <2>1. ASSUME NEW to \in {"report", "hung"}, Goto(c, r, "running", to),
               UNCHANGED <<wg, mu, results, goVars>>
        PROVE  TypeOK'
    <3>1. to \in PCs
      BY DEF PCs
    <3>2. QED BY <1>a, <2>1, <3>1, GotoType DEF TypeOK, goVars
  <2>2. CASE Fail(c, r, "running", "execution")
    BY <1>a, <2>2, FailType DEF Errors
  <2>3. QED BY <1>11, <2>1, <2>2 DEF FinishExecute
<1>12. ASSUME NEW c \in Calls, NEW r \in Reactors, LockResults(c, r)
       PROVE  TypeOK'
  <2>1. Goto(c, r, "report", "append") /\ "append" \in PCs
    BY <1>12 DEF LockResults, PCs
  <2>2. /\ mu' \in [Calls -> Reactors \cup {0}]
        /\ snap' \in [Calls -> [Reactors -> Seq(Result)]]
    BY <1>a, <1>12 DEF LockResults, TypeOK
  <2>3. UNCHANGED <<wg, results, header, res, seen>>
    BY <1>12 DEF LockResults
  <2>4. QED BY <1>a, <2>1, <2>2, <2>3, GotoType DEF TypeOK
<1>13. ASSUME NEW c \in Calls, NEW r \in Reactors, AppendResult(c, r)
       PROVE  TypeOK'
  <2>1. Goto(c, r, "append", "done") /\ "done" \in PCs
    BY <1>13 DEF AppendResult, PCs
  <2>2. [reactor |-> r, error |-> res[c][r]] \in Result
    BY <1>a DEF TypeOK, Result
  <2>3. Append(snap[c][r], [reactor |-> r, error |-> res[c][r]]) \in Seq(Result)
    BY <1>a, <2>2 DEF TypeOK
  <2>4. results' \in [Calls -> Seq(Result)]
    BY <1>a, <1>13, <2>3 DEF AppendResult, TypeOK
  <2>5. mu' \in [Calls -> Reactors \cup {0}]
    BY <1>a, <1>13 DEF AppendResult, TypeOK
  <2>6. snap' \in [Calls -> [Reactors -> Seq(Result)]]
    <3>1. <<>> \in Seq(Result)
      OBVIOUS
    <3>2. QED BY <1>a, <1>13, <3>1 DEF AppendResult, TypeOK
  <2>7. UNCHANGED <<wg, header, res, seen>>
    BY <1>13 DEF AppendResult
  <2>8. QED BY <1>a, <2>1, <2>4, <2>5, <2>6, <2>7, GotoType DEF TypeOK
<1>14. ASSUME NEW c \in Calls, NEW r \in Reactors, Done(c, r) PROVE TypeOK'
  <2>1. Goto(c, r, "done", "exit") /\ "exit" \in PCs
    BY <1>14 DEF Done, PCs
  <2>2. r \in Live(c)
    BY <2>1 DEF Goto, Live
  <2>3. wg[c] - 1 \in Nat
    BY <2>2, LiveCounted DEF IInv, CallInv
  <2>4. wg' \in [Calls -> Nat]
    BY <1>a, <1>14, <2>3 DEF Done, TypeOK
  <2>5. QED BY <1>a, <1>14, <2>1, <2>4, GotoType DEF Done, TypeOK, goVars
<1>15. CASE UNCHANGED vars
  BY <1>a, <1>15 DEF vars, TypeOK
<1>16. QED
  BY <1>1, <1>2, <1>3, <1>4, <1>5, <1>6, <1>7, <1>8, <1>9, <1>10, <1>11,
     <1>12, <1>13, <1>14, <1>15 DEF Next, Goroutine

-----------------------------------------------------------------------------
\* The step leaves everything of call d alone.
Same(d) ==
  /\ phase'[d] = phase[d] /\ verdict'[d] = verdict[d] /\ next'[d] = next[d]
  /\ wg'[d] = wg[d] /\ mu'[d] = mu[d] /\ results'[d] = results[d]
  /\ pc'[d] = pc[d] /\ header'[d] = header[d] /\ res'[d] = res[d]
  /\ snap'[d] = snap[d] /\ seen'[d] = seen[d]

\* A step that leaves everything of a call alone leaves its invariant true.
LEMMA Frame ==
  ASSUME NEW d \in Calls, CallInv(d),
         Same(d)
  PROVE  CallInv(d)'
<1>1. Live(d)' = Live(d) /\ Due(d)' = Due(d)
  BY DEF Same, Live, Due
<1>2. WaitGroupInv(d)'
  BY <1>1 DEF Same, CallInv, WaitGroupInv
<1>3. SpawnInv(d)'
  BY <1>1 DEF Same, CallInv, SpawnInv
<1>4. ResultsInv(d)'
  BY DEF Same, CallInv, ResultsInv, OneResult, NoResult
<1>5. MutexInv(d)' /\ TokenInv(d)'
  BY DEF Same, CallInv, MutexInv, TokenInv
<1>6. QED BY <1>2, <1>3, <1>4, <1>5 DEF CallInv

\* A goroutine that has not reached the mutex moves, within its own call and
\* before the mutex: the wait group, the loop, the mutex and the slice do not
\* notice.
LEMMA QuietStep ==
  ASSUME TypeOK, NEW c \in Calls, NEW r \in Reactors, CallInv(c),
         NEW from \in Before, NEW to \in Before, Goto(c, r, from, to),
         wg'[c] = wg[c], mu'[c] = mu[c], results'[c] = results[c],
         snap'[c] = snap[c],
         \A q \in Reactors \ {r} : res'[c][q] = res[c][q]
  PROVE  WaitGroupInv(c)' /\ SpawnInv(c)' /\ MutexInv(c)' /\ ResultsInv(c)'
<1>1. /\ pc[c][r] = from
      /\ \A q \in Reactors : pc'[c][q] = IF q = r THEN to ELSE pc[c][q]
      /\ phase' = phase /\ next' = next /\ verdict' = verdict
  BY DEF Goto, TypeOK, callVars
<1>2. Due(c)' = Due(c)
  BY <1>1 DEF Due
<1>3. Live(c)' = Live(c)
  BY <1>1 DEF Live, Before
<1>4. WaitGroupInv(c)'
  BY <1>1, <1>3 DEF CallInv, WaitGroupInv
<1>5. SpawnInv(c)'
  BY <1>1, <1>2 DEF CallInv, SpawnInv, Before
<1>6. MutexInv(c)'
  BY <1>1 DEF CallInv, MutexInv, Before
<1>7. ResultsInv(c)'
  <2>1. ASSUME NEW q \in Reactors PROVE pc[c][q] \in {"done", "exit"} <=> pc'[c][q] \in {"done", "exit"}
    BY <1>1 DEF Before
  <2>2. ASSUME NEW q \in Reactors, pc[c][q] \in {"done", "exit"}, OneResult(c, q)
        PROVE  OneResult(c, q)'
    BY <1>1, <2>2 DEF Before, OneResult
  <2>3. ASSUME NEW q \in Reactors, NoResult(c, q) PROVE NoResult(c, q)'
    BY <2>3 DEF NoResult
  <2>4. QED BY <2>1, <2>2, <2>3 DEF CallInv, ResultsInv
<1>8. QED BY <1>4, <1>5, <1>6, <1>7
\* No step of one call disturbs another: the calls share no variable of
\* HandleEvent.  (A panic ends them all and is treated on its own.)
LEMMA OtherCalls ==
  ASSUME TypeOK, NEW c \in Calls, NEW d \in Calls \ {c}, CallInv(d),
         \/ HandleEvent(c) \/ Skip(c) \/ Spawn(c) \/ Return(c) \/ CancelContext(c)
         \/ \E r \in Reactors : Goroutine(c, r)
  PROVE  CallInv(d)'
<1> SUFFICES Same(d)
  BY Frame
<1> USE DEF TypeOK, Same
<1>1. CASE HandleEvent(c)
  BY <1>1 DEF HandleEvent
<1>2. CASE Skip(c)
  BY <1>2 DEF Skip, goVars
<1>3. CASE Spawn(c)
  BY <1>3 DEF Spawn, goVars
<1>4. CASE Return(c)
  BY <1>4 DEF Return, goVars
<1>5. CASE CancelContext(c)
  BY <1>5 DEF CancelContext, callVars, goVars
<1>6. ASSUME NEW r \in Reactors, Goroutine(c, r) PROVE Same(d)
  <2> USE DEF Goto, Fail, callVars, goVars
  <2>1. CASE ResolveInputs(c, r)
    BY <2>1 DEF ResolveInputs
  <2>2. CASE InjectAuth(c, r)
    BY <2>2 DEF InjectAuth
  <2>3. CASE LookupProvider(c, r)
    BY <2>3 DEF LookupProvider
  <2>4. CASE StartExecute(c, r)
    BY <2>4 DEF StartExecute
  <2>5. CASE FinishExecute(c, r)
    BY <2>5 DEF FinishExecute
  <2>6. CASE LockResults(c, r)
    BY <2>6 DEF LockResults
  <2>7. CASE AppendResult(c, r)
    BY <2>7 DEF AppendResult
  <2>8. CASE Done(c, r)
    BY <2>8 DEF Done
  <2>9. QED
    BY <1>6, <2>1, <2>2, <2>3, <2>4, <2>5, <2>6, <2>7, <2>8 DEF Goroutine
<1>7. QED BY <1>1, <1>2, <1>3, <1>4, <1>5, <1>6
-----------------------------------------------------------------------------
\* What the steps of HandleEvent do to their own call.

LEMMA HandleEventStep ==
  ASSUME TypeOK, NEW c \in Calls, HandleEvent(c)
  PROVE  CallInv(c)'
<1>1. /\ phase'[c] = "running" /\ next'[c] = 1 /\ wg'[c] = 0 /\ mu'[c] = 0
      /\ results'[c] = <<>>
      /\ \A r \in Reactors : /\ pc'[c][r] = "none" /\ header'[c][r] = NoAuth
                             /\ seen'[c][r] = NotInvoked
  BY DEF TypeOK, HandleEvent
<1>2. Live(c)' = {}
  BY <1>1 DEF Live
<1>3. WaitGroupInv(c)'
  BY <1>1, <1>2, FS_EmptySet DEF WaitGroupInv
<1>4. SpawnInv(c)'
  BY <1>1 DEF SpawnInv, Reactors
<1>5. MutexInv(c)' /\ ResultsInv(c)' /\ TokenInv(c)'
  BY <1>1 DEF MutexInv, ResultsInv, NoResult, TokenInv, Reactors
<1>6. QED BY <1>3, <1>4, <1>5 DEF CallInv

LEMMA SkipStep ==
  ASSUME TypeOK, NEW c \in Calls, CallInv(c), Skip(c)
  PROVE  CallInv(c)'
<1>1. /\ next'[c] = next[c] + 1 /\ next[c] \in Nat /\ next[c] \notin Due(c)
      /\ phase[c] = "running"
      /\ UNCHANGED <<phase, verdict, wg, mu, results, pc, header, res, snap, seen>>
  BY ConfigAssumption DEF TypeOK, Skip, goVars
<1>2. Due(c)' = Due(c) /\ Live(c)' = Live(c)
  BY <1>1 DEF Due, Live
<1>3. WaitGroupInv(c)'
  BY <1>1, <1>2 DEF CallInv, WaitGroupInv
<1>4. SpawnInv(c)'
  <2>1. \A r \in Due(c) : r < next[c] <=> r < next[c] + 1
    BY <1>1, ConfigAssumption DEF Due, Reactors
  <2>2. QED BY <1>1, <1>2, <2>1 DEF CallInv, SpawnInv
<1>5. MutexInv(c)' /\ ResultsInv(c)' /\ TokenInv(c)'
  BY <1>1 DEF CallInv, MutexInv, ResultsInv, OneResult, NoResult, TokenInv
<1>6. QED BY <1>3, <1>4, <1>5 DEF CallInv

\* The wait group is raised before the goroutine exists, so it still counts
\* every live goroutine when the go statement has run.
LEMMA SpawnStep ==
  ASSUME TypeOK, NEW c \in Calls, CallInv(c), Spawn(c)
  PROVE  CallInv(c)'
<1> DEFINE n == next[c]
<1>1. /\ n \in Due(c) /\ n \in Reactors /\ n \in Nat /\ phase[c] = "running"
      /\ next'[c] = n + 1 /\ wg'[c] = wg[c] + 1
      /\ \A q \in Reactors : pc'[c][q] = IF q = n THEN "resolve" ELSE pc[c][q]
      /\ UNCHANGED <<phase, verdict, mu, results, header, res, snap, seen>>
  BY ConfigAssumption DEF TypeOK, Spawn, Due, goVars
<1>2. pc[c][n] = "none"
  BY <1>1 DEF CallInv, SpawnInv
<1>3. Due(c)' = Due(c)
  BY <1>1 DEF Due
<1>4. WaitGroupInv(c)'
  <2>1. Live(c)' = Live(c) \cup {n} /\ n \notin Live(c)
    BY <1>1, <1>2 DEF Live
  <2>2. Cardinality(Live(c)') = Cardinality(Live(c)) + 1
    BY <2>1, LiveFinite, FS_AddElement
  <2>3. QED BY <1>1, <2>2 DEF CallInv, WaitGroupInv
<1>5. SpawnInv(c)'
  <2>1. \A r \in Due(c) : r < n + 1 <=> r < n \/ r = n
    BY <1>1, ConfigAssumption DEF Due, Reactors
  <2>2. QED BY <1>1, <1>2, <1>3, <2>1 DEF CallInv, SpawnInv
<1>6. MutexInv(c)'
  BY <1>1, <1>2 DEF CallInv, MutexInv
<1>7. ResultsInv(c)'
  BY <1>1, <1>2 DEF CallInv, ResultsInv, OneResult, NoResult
<1>8. TokenInv(c)'
  BY <1>1, <1>2 DEF CallInv, TokenInv
<1>9. QED BY <1>4, <1>5, <1>6, <1>7, <1>8 DEF CallInv

LEMMA ReturnStep ==
  ASSUME TypeOK, NEW c \in Calls, CallInv(c), Return(c)
  PROVE  CallInv(c)'
<1>1. /\ phase[c] = "running" /\ phase'[c] = "returned" /\ wg[c] = 0
      /\ next[c] = NumReactors + 1
      /\ UNCHANGED <<verdict, next, wg, mu, results, pc, header, res, snap, seen>>
  BY ConfigAssumption DEF TypeOK, Return, goVars
<1>2. Due(c)' = Due(c) /\ Live(c)' = Live(c)
  BY <1>1 DEF Due, Live
<1>3. Live(c) = {}
  BY <1>1, LiveFinite, FS_EmptySet DEF CallInv, WaitGroupInv
<1>4. WaitGroupInv(c)'
  BY <1>1, <1>2, <1>3 DEF CallInv, WaitGroupInv
<1>5. SpawnInv(c)'
  BY <1>1, <1>2 DEF CallInv, SpawnInv
<1>6. MutexInv(c)' /\ ResultsInv(c)' /\ TokenInv(c)'
  BY <1>1 DEF CallInv, MutexInv, ResultsInv, OneResult, NoResult, TokenInv
<1>7. QED BY <1>4, <1>5, <1>6 DEF CallInv
-----------------------------------------------------------------------------
\* What the steps of executeReactor do to their own call.

\* An early return keeps the invariant; the goroutine has no token left to use.
LEMMA FailStep ==
  ASSUME TypeOK, NEW c \in Calls, NEW r \in Reactors, CallInv(c),
         NEW from \in Before, NEW error, Fail(c, r, from, error)
  PROVE  CallInv(c)'
<1>1. /\ Goto(c, r, from, "report") /\ "report" \in Before
      /\ \A q \in Reactors \ {r} : res'[c][q] = res[c][q]
      /\ UNCHANGED <<wg, mu, results, header, snap, seen>>
  BY DEF Fail, Before, TypeOK
<1>2. \A q \in Reactors : pc'[c][q] = IF q = r THEN "report" ELSE pc[c][q]
  BY <1>1 DEF Goto, TypeOK
<1>3. TokenInv(c)'
  BY <1>1, <1>2 DEF CallInv, TokenInv
<1>4. QED BY <1>1, <1>3, QuietStep DEF CallInv

\* A goroutine that goes on to its next step before the mutex.
LEMMA AdvanceStep ==
  ASSUME TypeOK, NEW c \in Calls, NEW r \in Reactors, CallInv(c),
         NEW from \in Before, NEW to \in Before, Goto(c, r, from, to),
         UNCHANGED <<wg, mu, results, res, snap>>, TokenInv(c)'
  PROVE  CallInv(c)'
BY QuietStep DEF CallInv

LEMMA ExecuteReactorStep ==
  ASSUME TypeOK, NEW c \in Calls, NEW r \in Reactors, CallInv(c),
         \/ ResolveInputs(c, r) \/ InjectAuth(c, r) \/ LookupProvider(c, r)
         \/ StartExecute(c, r) \/ FinishExecute(c, r)
  PROVE  CallInv(c)'
<1>0. {"resolve", "auth", "lookup", "start", "running", "hung", "report"} \subseteq Before
  BY DEF Before
<1>1. ASSUME NEW from, NEW to, Goto(c, r, from, to)
      PROVE  \A q \in Reactors : pc'[c][q] = IF q = r THEN to ELSE pc[c][q]
  BY <1>1 DEF Goto, TypeOK
<1>2. CASE ResolveInputs(c, r)
  <2>1. CASE Goto(c, r, "resolve", "auth") /\ UNCHANGED <<wg, mu, results, goVars>>
    <3>1. TokenInv(c)'
      BY <1>1, <2>1 DEF CallInv, TokenInv, Goto, goVars
    <3>2. QED BY <1>0, <2>1, <3>1, AdvanceStep DEF goVars
  <2>2. QED BY <1>0, <1>2, <2>1, FailStep DEF ResolveInputs
<1>3. CASE InjectAuth(c, r)
  <2>1. CASE /\ AuthOf[r] = NoAuth
             /\ Goto(c, r, "auth", "lookup")
             /\ UNCHANGED <<wg, mu, results, goVars>>
    <3>1. header[c][r] = NoAuth
      BY <2>1 DEF CallInv, TokenInv, Goto
    <3>2. TokenInv(c)'
      BY <1>1, <2>1, <3>1 DEF CallInv, TokenInv, goVars
    <3>3. QED BY <1>0, <2>1, <3>2, AdvanceStep DEF goVars
  <2>2. CASE /\ Goto(c, r, "auth", "lookup")
             /\ header' = [header EXCEPT ![c][r] = AuthOf[r]]
             /\ UNCHANGED <<wg, mu, results, res, snap, seen>>
    <3>1. \A q \in Reactors : header'[c][q] = IF q = r THEN AuthOf[r] ELSE header[c][q]
      BY <2>2 DEF TypeOK
    <3>2. TokenInv(c)'
      BY <1>1, <2>2, <3>1 DEF CallInv, TokenInv
    <3>3. QED BY <1>0, <2>2, <3>2, AdvanceStep
  <2>3. QED BY <1>0, <1>3, <2>1, <2>2, FailStep DEF InjectAuth
<1>4. CASE LookupProvider(c, r)
  <2>1. CASE Goto(c, r, "lookup", "start") /\ UNCHANGED <<wg, mu, results, goVars>>
    <3>1. TokenInv(c)'
      BY <1>1, <2>1 DEF CallInv, TokenInv, Goto, goVars
    <3>2. QED BY <1>0, <2>1, <3>1, AdvanceStep DEF goVars
  <2>2. QED BY <1>0, <1>4, <2>1, FailStep DEF LookupProvider
<1>5. CASE StartExecute(c, r)
  <2>1. CASE /\ Goto(c, r, "start", "running")
             /\ seen' = [seen EXCEPT ![c][r] = header[c][r]]
             /\ UNCHANGED <<wg, mu, results, header, res, snap>>
    <3>1. header[c][r] = AuthOf[r]
      BY <2>1 DEF CallInv, TokenInv, Goto
    <3>2. \A q \in Reactors : seen'[c][q] = IF q = r THEN AuthOf[r] ELSE seen[c][q]
      BY <2>1, <3>1 DEF TypeOK
    <3>3. TokenInv(c)'
      BY <1>1, <2>1, <3>1, <3>2 DEF CallInv, TokenInv
    <3>4. QED BY <1>0, <2>1, <3>3, AdvanceStep
  <2>2. QED BY <1>0, <1>5, <2>1, FailStep DEF StartExecute
<1>6. CASE FinishExecute(c, r)
  <2>1. ASSUME NEW to \in {"report", "hung"}, Goto(c, r, "running", to),
               UNCHANGED <<wg, mu, results, goVars>>
        PROVE  CallInv(c)'
    <3>1. TokenInv(c)'
      BY <1>1, <2>1 DEF CallInv, TokenInv, Goto, goVars
    <3>2. to \in Before
      BY <1>0
    <3>3. QED BY <1>0, <2>1, <3>1, <3>2, AdvanceStep DEF goVars
  <2>2. QED BY <1>0, <1>6, <2>1, FailStep DEF FinishExecute
<1>7. QED BY <1>2, <1>3, <1>4, <1>5, <1>6

\* The mutex is free, so no other goroutine is between its read and its write,
\* and what this one reads stays what the slice holds until it writes.
LEMMA LockResultsStep ==
  ASSUME TypeOK, NEW c \in Calls, NEW r \in Reactors, CallInv(c), LockResults(c, r)
  PROVE  CallInv(c)'
<1>1. /\ pc[c][r] = "report" /\ mu[c] = 0 /\ mu'[c] = r
      /\ \A q \in Reactors : pc'[c][q] = IF q = r THEN "append" ELSE pc[c][q]
      /\ snap'[c][r] = results[c]
      /\ UNCHANGED <<phase, verdict, next, wg, results, header, res, seen>>
  BY DEF LockResults, Goto, TypeOK, callVars
<1>2. Due(c)' = Due(c) /\ Live(c)' = Live(c)
  BY <1>1 DEF Due, Live
<1>3. WaitGroupInv(c)' /\ SpawnInv(c)'
  BY <1>1, <1>2 DEF CallInv, WaitGroupInv, SpawnInv
<1>4. MutexInv(c)'
  <2>1. \A q \in Reactors : q # 0
    BY ConfigAssumption DEF Reactors
  <2>2. QED BY <1>1, <2>1 DEF CallInv, MutexInv
<1>5. ResultsInv(c)'
  BY <1>1 DEF CallInv, ResultsInv, OneResult, NoResult
<1>6. TokenInv(c)'
  BY <1>1 DEF CallInv, TokenInv
<1>7. QED BY <1>3, <1>4, <1>5, <1>6 DEF CallInv

\* The slice it writes is the one it read with its own result at the end.
LEMMA AppendResultStep ==
  ASSUME TypeOK, NEW c \in Calls, NEW r \in Reactors, CallInv(c), AppendResult(c, r)
  PROVE  CallInv(c)'
<1> DEFINE own == [reactor |-> r, error |-> res[c][r]]
<1>1. /\ pc[c][r] = "append" /\ mu'[c] = 0
      /\ \A q \in Reactors : pc'[c][q] = IF q = r THEN "done" ELSE pc[c][q]
      /\ UNCHANGED <<phase, verdict, next, wg, header, res, seen>>
  BY DEF AppendResult, Goto, TypeOK, callVars
<1>2. mu[c] = r /\ snap[c][r] = results[c]
  BY <1>1 DEF CallInv, MutexInv
<1>3. results[c] \in Seq(Result) /\ own \in Result
  BY DEF TypeOK, Result
<1>4. results'[c] = Append(results[c], own)
  BY <1>2 DEF AppendResult, TypeOK
<1>5. Due(c)' = Due(c) /\ Live(c)' = Live(c)
  BY <1>1 DEF Due, Live
<1>6. WaitGroupInv(c)' /\ SpawnInv(c)'
  BY <1>1, <1>5 DEF CallInv, WaitGroupInv, SpawnInv
<1>7. MutexInv(c)'
  <2>1. \A q \in Reactors : q # 0
    BY ConfigAssumption DEF Reactors
  <2>2. QED BY <1>1, <1>2, <2>1 DEF CallInv, MutexInv
<1>8. ResultsInv(c)'
  <2> DEFINE n == Len(results[c])
  <2>1. /\ n \in Nat /\ DOMAIN results[c] = 1..n /\ DOMAIN results'[c] = 1..(n + 1)
        /\ results'[c][n + 1] = own
        /\ \A k \in 1..n : results'[c][k] = results[c][k]
    BY <1>3, <1>4
  <2> HIDE DEF n
  <2>2. NoResult(c, r)
    BY <1>1 DEF CallInv, ResultsInv
  <2>3. OneResult(c, r)'
    BY <1>1, <2>1, <2>2 DEF OneResult, NoResult
  <2>4. ASSUME NEW q \in Reactors \ {r}, OneResult(c, q) PROVE OneResult(c, q)'
    <3>1. PICK k \in DOMAIN results[c] :
            /\ results[c][k] = [reactor |-> q, error |-> res[c][q]]
            /\ \A j \in DOMAIN results[c] : results[c][j].reactor = q => j = k
      BY <2>4 DEF OneResult
    <3>2. own.reactor # q
      OBVIOUS
    <3>3. \A j \in DOMAIN results'[c] : results'[c][j].reactor = q => j = k
      BY <2>1, <3>1, <3>2
    <3>4. QED BY <1>1, <2>1, <3>1, <3>3 DEF OneResult
  <2>5. ASSUME NEW q \in Reactors \ {r}, NoResult(c, q) PROVE NoResult(c, q)'
    BY <2>1, <2>5 DEF NoResult
  <2>6. QED BY <1>1, <2>3, <2>4, <2>5 DEF CallInv, ResultsInv
<1>9. TokenInv(c)'
  BY <1>1 DEF CallInv, TokenInv
<1>10. QED BY <1>6, <1>7, <1>8, <1>9 DEF CallInv

\* The wait group goes down by the goroutine that ends.
LEMMA DoneStep ==
  ASSUME TypeOK, NEW c \in Calls, NEW r \in Reactors, CallInv(c), Done(c, r)
  PROVE  CallInv(c)'
<1>1. /\ pc[c][r] = "done" /\ wg'[c] = wg[c] - 1
      /\ \A q \in Reactors : pc'[c][q] = IF q = r THEN "exit" ELSE pc[c][q]
      /\ UNCHANGED <<phase, verdict, next, mu, results, header, res, snap, seen>>
  BY DEF Done, Goto, TypeOK, callVars, goVars
<1>2. Due(c)' = Due(c)
  BY <1>1 DEF Due
<1>3. WaitGroupInv(c)'
  <2>1. r \in Live(c) /\ Live(c)' = Live(c) \ {r}
    BY <1>1 DEF Live
  <2>2. Cardinality(Live(c)') = Cardinality(Live(c)) - 1
    BY <2>1, LiveFinite, FS_RemoveElement
  <2>3. QED BY <1>1, <2>1, <2>2 DEF CallInv, WaitGroupInv
<1>4. SpawnInv(c)'
  BY <1>1, <1>2 DEF CallInv, SpawnInv
<1>5. MutexInv(c)' /\ TokenInv(c)'
  BY <1>1 DEF CallInv, MutexInv, TokenInv
<1>6. ResultsInv(c)'
  BY <1>1 DEF CallInv, ResultsInv, OneResult, NoResult
<1>7. QED BY <1>3, <1>4, <1>5, <1>6 DEF CallInv
-----------------------------------------------------------------------------
\* The inductive invariant.

\* The goroutine of a reactor, taken as a whole.
LEMMA GoroutineStep ==
  ASSUME TypeOK, NEW c \in Calls, NEW r \in Reactors, CallInv(c), Goroutine(c, r)
  PROVE  CallInv(c)'
BY ExecuteReactorStep, LockResultsStep, AppendResultStep, DoneStep DEF Goroutine

LEMMA InitIInvNext == Init' => IInv'
BY InitIInv, PTL

\* A process that dies comes back in the initial state.
LEMMA PanicStep ==
  ASSUME NEW c, NEW r, Panic(c, r)
  PROVE  IInv'
<1>1. Init'
  BY DEF Panic, Init, PerGoroutine
<1>2. QED BY <1>1, InitIInvNext

LEMMA IInvStep == IInv /\ [Next]_vars => IInv'
<1> SUFFICES ASSUME IInv, [Next]_vars PROVE IInv'
  OBVIOUS
<1>a. TypeOK /\ \A d \in Calls : CallInv(d)
  BY DEF IInv
<1>b. TypeOK'
  BY TypeStep
<1>1. CASE \E c \in Calls, r \in Reactors : Panic(c, r)
  BY <1>1, PanicStep
<1>2. ASSUME NEW c \in Calls,
             \/ HandleEvent(c) \/ Skip(c) \/ Spawn(c) \/ Return(c) \/ CancelContext(c)
             \/ \E r \in Reactors : Goroutine(c, r)
      PROVE  IInv'
  <2>1. ASSUME NEW d \in Calls \ {c} PROVE CallInv(d)'
    BY <1>a, <1>2, OtherCalls
  <2>2. CallInv(c)'
    <3>1. ASSUME CancelContext(c) PROVE CallInv(c)'
      <4>1. Same(c)
        BY <3>1 DEF CancelContext, Same, callVars, goVars
      <4>2. QED BY <1>a, <4>1, Frame
    <3>2. QED
      BY <1>a, <1>2, <3>1, HandleEventStep, SkipStep, SpawnStep, ReturnStep,
         GoroutineStep
  <2>3. QED BY <1>b, <2>1, <2>2 DEF IInv
<1>3. CASE UNCHANGED vars
  <2>1. ASSUME NEW d \in Calls PROVE CallInv(d)'
    <3>1. Same(d)
      BY <1>3 DEF vars, Same
    <3>2. QED BY <1>a, <3>1, Frame
  <2>2. QED BY <1>b, <2>1 DEF IInv
<1>4. QED BY <1>1, <1>2, <1>3 DEF Next

\* IInv holds in every reachable state, whatever the configuration is.
THEOREM Invariance == Spec => []IInv
<1>1. QED BY InitIInv, IInvStep, PTL DEF Spec

\* Every variable keeps its type; the wait group in particular never goes
\* below zero, which would panic in sync.WaitGroup.
THEOREM TypeCorrect == Spec => []TypeOK
<1>1. IInv => TypeOK
  BY DEF IInv
<1>2. QED BY <1>1, Invariance, PTL

\* When HandleEvent has returned, no goroutine of the call is left behind.
THEOREM NoOrphansHolds == Spec => []NoOrphans
<1>1. IInv => NoOrphans
  BY DEF IInv, CallInv, WaitGroupInv, NoOrphans
<1>2. QED BY <1>1, Invariance, PTL

\* No result that a goroutine has appended is ever lost or doubled.
THEOREM NoLostResultHolds == Spec => []NoLostResult
<1>1. IInv => NoLostResult
  BY DEF IInv, CallInv, ResultsInv, NoLostResult
<1>2. QED BY <1>1, Invariance, PTL

\* Every provider is called with the token its own reactor asks for.
THEOREM OwnTokenHolds == Spec => []OwnToken
<1>1. IInv => OwnToken
  BY DEF IInv, CallInv, TokenInv, OwnToken
<1>2. QED BY <1>1, Invariance, PTL

-----------------------------------------------------------------------------
\* HandleEvent implements FanOut.

\* What FanOut calls due.
due == [c \in Calls |-> IF phase[c] = "idle" THEN {} ELSE Due(c)]

\* A call that has started no goroutine that is still alive, and has passed
\* every reactor, holds a result of exactly the due ones.
LEMMA AllReported ==
  ASSUME TypeOK, NEW c \in Calls, CallInv(c), phase[c] = "running",
         next[c] > NumReactors, wg[c] = 0
  PROVE  Due(c) = Promise!Reported(c)
<1>1. Live(c) = {}
  BY LiveFinite, FS_EmptySet DEF CallInv, WaitGroupInv
<1>2. \A r \in Reactors : r < next[c]
  BY ConfigAssumption DEF Reactors, TypeOK
<1>3. ASSUME NEW r \in Due(c) PROVE r \in Promise!Reported(c)
  <2>1. r \in Reactors /\ pc[c][r] # "none"
    BY <1>2 DEF CallInv, SpawnInv, Due
  <2>2. pc[c][r] = "exit"
    BY <1>1, <2>1 DEF Live
  <2>3. PICK k \in DOMAIN results[c] : results[c][k] = [reactor |-> r, error |-> res[c][r]]
    BY <2>1, <2>2 DEF CallInv, ResultsInv, OneResult
  <2>4. QED BY <2>3 DEF Promise!Reported
<1>4. ASSUME NEW k \in DOMAIN results[c] PROVE results[c][k].reactor \in Due(c)
  <2> DEFINE q == results[c][k].reactor
  <2>1. q \in Reactors
    <3>1. results[c] \in Seq(Result)
      BY DEF TypeOK
    <3>2. results[c][k] \in Result
      BY <3>1
    <3>3. QED BY <3>2 DEF Result
  <2>2. pc[c][q] \in {"done", "exit"}
    BY <2>1 DEF CallInv, ResultsInv, NoResult
  <2>3. QED BY <2>1, <2>2 DEF CallInv, SpawnInv
<1>5. QED BY <1>3, <1>4 DEF Promise!Reported

\* Appending a result is a report of a due reactor that had not reported.
LEMMA AppendReports ==
  ASSUME TypeOK, NEW c \in Calls, NEW r \in Reactors, CallInv(c), AppendResult(c, r)
  PROVE  Promise!Report(c, r)
<1>1. pc[c][r] = "append" /\ UNCHANGED <<phase, verdict>>
  BY DEF AppendResult, Goto, callVars
<1>2. phase[c] = "running"
  BY <1>1 DEF CallInv, WaitGroupInv, Live
<1>3. r \in Due(c) /\ due[c] = Due(c)
  BY <1>1, <1>2 DEF CallInv, SpawnInv, due
<1>4. NoResult(c, r)
  BY <1>1 DEF CallInv, ResultsInv
<1>5. r \notin Promise!Reported(c)
  BY <1>4 DEF NoResult, Promise!Reported
<1>6. snap[c][r] = results[c]
  BY <1>1 DEF CallInv, MutexInv
<1>7. res[c][r] \in Outcomes
  BY DEF TypeOK
<1>8. results' = [results EXCEPT ![c] = Append(@, [reactor |-> r, error |-> res[c][r]])]
  BY <1>6 DEF AppendResult
<1>9. due' = due
  BY <1>1 DEF due, Due
<1>10. QED BY <1>1, <1>2, <1>3, <1>5, <1>7, <1>8, <1>9 DEF Promise!Report, due

LEMMA PromiseInit == Init => Promise!Init
BY DEF Init, Promise!Init

\* Every step of the adapter is a step of FanOut, or changes nothing of what
\* FanOut talks about.
LEMMA PromiseStep == IInv /\ IInv' /\ [Next]_vars => [Promise!Next]_(Promise!vars)
<1> SUFFICES ASSUME IInv, IInv', [Next]_vars
             PROVE  Promise!Next \/ UNCHANGED <<phase, due, results>>
  BY DEF Promise!vars, due
<1>a. TypeOK /\ \A d \in Calls : CallInv(d)
  BY DEF IInv
<1>b. ASSUME UNCHANGED <<phase, verdict, results>>
      PROVE  UNCHANGED <<phase, due, results>>
  BY <1>b DEF due, Due
<1>1. ASSUME NEW c \in Calls, HandleEvent(c) PROVE Promise!Next
  <2>1. Due(c)' \in SUBSET Reactors
    BY DEF Due
  <2>2. /\ phase[c] # "running"
        /\ phase' = [phase EXCEPT ![c] = "running"]
        /\ results' = [results EXCEPT ![c] = <<>>]
    BY <1>1 DEF HandleEvent
  <2>3. \A d \in Calls \ {c} : verdict'[d] = verdict[d] /\ phase'[d] = phase[d]
    BY <1>a, <1>1 DEF HandleEvent, TypeOK
  <2>4. phase'[c] = "running"
    BY <1>a, <2>2 DEF TypeOK
  <2>5. \A d \in Calls \ {c} : Due(d)' = Due(d)
    BY <2>3 DEF Due
  <2>6. due' = [due EXCEPT ![c] = Due(c)']
    BY <2>3, <2>4, <2>5 DEF due
  <2>7. Promise!Begin(c)
    BY <2>1, <2>2, <2>6 DEF Promise!Begin, due
  <2>8. QED BY <2>7 DEF Promise!Next
<1>2. ASSUME NEW c \in Calls, Skip(c) \/ Spawn(c) \/ CancelContext(c)
      PROVE  UNCHANGED <<phase, due, results>>
  BY <1>b, <1>2 DEF Skip, Spawn, CancelContext, callVars
<1>3. ASSUME NEW c \in Calls, Return(c) PROVE Promise!Next
  <2>1. /\ phase[c] = "running" /\ next[c] > NumReactors /\ wg[c] = 0
        /\ phase' = [phase EXCEPT ![c] = "returned"]
        /\ UNCHANGED <<verdict, results>>
    BY <1>3 DEF Return
  <2>2. due[c] = Promise!Reported(c)
    BY <1>a, <2>1, AllReported DEF due
  <2>3. due' = due
    BY <1>a, <2>1 DEF due, Due, TypeOK
  <2>4. Promise!Return(c)
    BY <2>1, <2>2, <2>3 DEF Promise!Return, due
  <2>5. QED BY <2>4 DEF Promise!Next
<1>4. ASSUME NEW c \in Calls, NEW r \in Reactors, Panic(c, r) PROVE Promise!Next
  <2>1. Promise!Crash
    BY <1>4 DEF Panic, Promise!Crash
  <2>2. QED BY <2>1 DEF Promise!Next
<1>5. ASSUME NEW c \in Calls, NEW r \in Reactors, AppendResult(c, r)
      PROVE  Promise!Next
  BY <1>a, <1>5, AppendReports DEF Promise!Next
<1>6. ASSUME NEW c \in Calls, NEW r \in Reactors, Goroutine(c, r),
             ~ AppendResult(c, r)
      PROVE  UNCHANGED <<phase, due, results>>
  <2> USE DEF Goto, Fail, callVars
  <2>1. CASE ResolveInputs(c, r) \/ InjectAuth(c, r) \/ LookupProvider(c, r)
    BY <1>b, <2>1 DEF ResolveInputs, InjectAuth, LookupProvider
  <2>2. CASE StartExecute(c, r) \/ FinishExecute(c, r)
    BY <1>b, <2>2 DEF StartExecute, FinishExecute
  <2>3. CASE LockResults(c, r) \/ Done(c, r)
    BY <1>b, <2>3 DEF LockResults, Done
  <2>4. QED BY <1>6, <2>1, <2>2, <2>3 DEF Goroutine
<1>7. CASE UNCHANGED vars
  BY <1>b, <1>7 DEF vars
<1>8. QED BY <1>1, <1>2, <1>3, <1>4, <1>5, <1>6, <1>7 DEF Next

\* HandleEvent keeps the promise of FanOut, whatever the configuration is.
THEOREM KeepsPromise == Spec => ImplementsFanOut
<1>1. QED
  BY PromiseInit, PromiseStep, Invariance, PTL DEF Spec, ImplementsFanOut, Promise!Spec
=============================================================================
