---------------------------- MODULE MatcherProofs ----------------------------
(***************************************************************************)
(* Proofs about MatcherCache for any number of callers and expressions.    *)
(***************************************************************************)
EXTENDS MatcherCache, TLAPS

LEMMA InitIInv == Init => IInv
BY MatcherAssumption
   DEF Init, IInv, TypeOK, LockInv, CacheSound, ProgramInv, OwnProgram, PCs,
       Reading, Writing, Verdicts

\* Every step keeps the lock's account of who is where.
LEMMA LockStep == IInv /\ [Next]_vars => TypeOK' /\ LockInv'
<1> SUFFICES ASSUME IInv, [Next]_vars PROVE TypeOK' /\ LockInv'
  OBVIOUS
<1> USE MatcherAssumption DEF IInv, TypeOK, LockInv, PCs, Verdicts, Reading,
        Writing, Goto, ReturnFrom, lock
<1>1. ASSUME NEW p \in Callers, Call(p) PROVE TypeOK' /\ LockInv'
  BY <1>1 DEF Call
<1>2. ASSUME NEW p \in Callers, RLock(p) PROVE TypeOK' /\ LockInv'
  BY <1>2 DEF RLock
<1>3. ASSUME NEW p \in Callers, ReadCache(p) PROVE TypeOK' /\ LockInv'
  BY <1>3 DEF ReadCache, ProgramInv
<1>4. ASSUME NEW p \in Callers, RUnlock(p) PROVE TypeOK' /\ LockInv'
  BY <1>4 DEF RUnlock, Deliver
<1>5. ASSUME NEW p \in Callers, CompileExpr(p) PROVE TypeOK' /\ LockInv'
  BY <1>5 DEF CompileExpr
<1>6. ASSUME NEW p \in Callers, Lock(p) PROVE TypeOK' /\ LockInv'
  BY <1>6 DEF Lock
<1>7. ASSUME NEW p \in Callers, Drain(p) PROVE TypeOK' /\ LockInv'
  BY <1>7 DEF Drain
<1>8. ASSUME NEW p \in Callers, WriteCache(p) PROVE TypeOK' /\ LockInv'
  BY <1>8 DEF WriteCache
<1>9. ASSUME NEW p \in Callers, Unlock(p) PROVE TypeOK' /\ LockInv'
  BY <1>9 DEF Unlock
<1>10. ASSUME NEW p \in Callers, Eval(p) PROVE TypeOK' /\ LockInv'
  BY <1>10 DEF Eval
<1>11. CASE UNCHANGED vars
  BY <1>11 DEF vars
<1>12. QED
  BY <1>1, <1>2, <1>3, <1>4, <1>5, <1>6, <1>7, <1>8, <1>9, <1>10, <1>11
     DEF Next, Proceed

\* Every step keeps programs with their own expressions.
LEMMA ProgramStep ==
  IInv /\ [Next]_vars => CacheSound' /\ ProgramInv' /\ OwnProgram'
<1> SUFFICES ASSUME IInv, [Next]_vars
             PROVE  CacheSound' /\ ProgramInv' /\ OwnProgram'
  OBVIOUS
<1> DEFINE Goal == CacheSound' /\ ProgramInv' /\ OwnProgram'
<1> USE MatcherAssumption DEF IInv, TypeOK, CacheSound, ProgramInv, OwnProgram,
        PCs, Goto, ReturnFrom
<1>1. ASSUME NEW p \in Callers, Call(p) PROVE Goal
  BY <1>1 DEF Call
<1>2. ASSUME NEW p \in Callers, RLock(p) PROVE Goal
  BY <1>2 DEF RLock
<1>3. ASSUME NEW p \in Callers, ReadCache(p) PROVE Goal
  BY <1>3 DEF ReadCache
<1>4. ASSUME NEW p \in Callers, RUnlock(p) PROVE Goal
  BY <1>4 DEF RUnlock, Deliver
<1>5. ASSUME NEW p \in Callers, CompileExpr(p) PROVE Goal
  BY <1>5 DEF CompileExpr, Verdicts
<1>6. ASSUME NEW p \in Callers, Lock(p) PROVE Goal
  BY <1>6 DEF Lock
<1>7. ASSUME NEW p \in Callers, Drain(p) PROVE Goal
  BY <1>7 DEF Drain
<1>8. ASSUME NEW p \in Callers, WriteCache(p) PROVE Goal
  BY <1>8 DEF WriteCache
<1>9. ASSUME NEW p \in Callers, Unlock(p) PROVE Goal
  BY <1>9 DEF Unlock, LockInv
<1>10. ASSUME NEW p \in Callers, Eval(p) PROVE Goal
  BY <1>10 DEF Eval
<1>11. CASE UNCHANGED vars
  BY <1>11 DEF vars
<1>12. QED
  BY <1>1, <1>2, <1>3, <1>4, <1>5, <1>6, <1>7, <1>8, <1>9, <1>10, <1>11
     DEF Next, Proceed

LEMMA IInvStep == IInv /\ [Next]_vars => IInv'
BY LockStep, ProgramStep DEF IInv

\* IInv holds in every reachable state.
THEOREM Invariance == Spec => []IInv
<1>1. QED BY InitIInv, IInvStep, PTL DEF Spec

\* The map is never written while another goroutine is in it.
THEOREM NoConcurrentMapAccessHolds == Spec => []NoConcurrentMapAccess
<1>1. IInv => NoConcurrentMapAccess
  BY MatcherAssumption
     DEF IInv, TypeOK, LockInv, NoConcurrentMapAccess, Reading, Writing
<1>2. QED BY <1>1, Invariance, PTL

\* Every caller gets the program, or the error, of its own expression.
THEOREM OwnProgramHolds == Spec => []OwnProgram
<1>1. IInv => OwnProgram
  BY DEF IInv
<1>2. QED BY <1>1, Invariance, PTL

\* A program once compiled stays in the cache, although callers that missed it at
\* the same time write it again.
THEOREM CacheMonotoneHolds == Spec => CacheMonotone
<1>1. IInv /\ [Next]_vars => \A e \in Exprs : cache[e] # None => cache'[e] = cache[e]
  <2> SUFFICES ASSUME IInv, [Next]_vars, NEW e \in Exprs, cache[e] # None
               PROVE  cache'[e] = cache[e]
    OBVIOUS
  <2>1. ASSUME NEW p \in Callers, WriteCache(p) PROVE cache'[e] = cache[e]
    BY <2>1 DEF WriteCache, Goto, IInv, TypeOK, CacheSound, ProgramInv
  <2>2. CASE UNCHANGED cache
    BY <2>2
  <2>3. QED
    BY <2>1, <2>2
       DEF Next, Proceed, Call, RLock, ReadCache, RUnlock, CompileExpr, Lock, Drain,
           Unlock, Eval, vars
<1>2. QED BY <1>1, Invariance, PTL DEF Spec, CacheMonotone

-----------------------------------------------------------------------------
(* The refinement of Memo.                                                 *)

known == {e \in Exprs : cache[e] # None}
answer == [p \in Callers |-> answerOf(p)]

LEMMA PromiseInit == Init => Promise!Init
BY DEF Init, Promise!Init, answerOf

\* A step of one caller changes no other caller's answer.
LEMMA AnswerOfOne ==
  ASSUME TypeOK, NEW p \in Callers, NEW to,
         pc' = [pc EXCEPT ![p] = to],
         \A q \in Callers \ {p} :
           op'[q] = op[q] /\ expr'[q] = expr[q] /\ prg'[q] = prg[q] /\ ret'[q] = ret[q]
  PROVE  answer' = [answer EXCEPT ![p] = answerOf(p)']
<1>1. \A q \in Callers \ {p} : answerOf(q)' = answerOf(q)
  BY DEF answerOf, TypeOK
<1>2. QED BY <1>1 DEF answer

LEMMA AskStep == ASSUME IInv, NEW p \in Callers, Call(p) PROVE Promise!Ask(p)
<1>1. /\ pc[p] = "idle" /\ pc' = [pc EXCEPT ![p] = "rlock"] /\ cache' = cache
      /\ \E e \in Exprs : expr' = [expr EXCEPT ![p] = e]
  BY DEF Call, Goto
<1>2. answer' = [answer EXCEPT ![p] = answerOf(p)']
  BY <1>1, AnswerOfOne DEF Call, IInv, TypeOK
<1>3. answerOf(p)' = None
  BY <1>1 DEF answerOf, IInv, TypeOK
<1>4. expr[p] = None \/ answer[p] # None
  BY <1>1, MatcherAssumption DEF answer, answerOf, IInv, TypeOK, ProgramInv
<1>5. QED BY <1>1, <1>2, <1>3, <1>4 DEF Promise!Ask, answer

\* The lookup that hits answers; the lookup that misses does not.
LEMMA ReadStep ==
  ASSUME IInv, NEW p \in Callers, ReadCache(p)
  PROVE  Promise!Answer(p) \/ UNCHANGED <<known, expr, answer>>
<1>1. /\ pc[p] = "read" /\ expr[p] \in Exprs
      /\ UNCHANGED <<cache, op, expr, ret>>
      /\ pc' = [pc EXCEPT ![p] = IF cache[expr[p]] # None THEN "hit" ELSE "miss"]
      /\ prg' = [prg EXCEPT ![p] = cache[expr[p]]]
  BY DEF ReadCache, Goto, IInv, TypeOK, ProgramInv, PCs
<1>2. answer' = [answer EXCEPT ![p] = answerOf(p)'] /\ answerOf(p) = None
  BY <1>1, AnswerOfOne DEF IInv, TypeOK, answerOf
<1>3. CASE cache[expr[p]] # None
  <2>1. answerOf(p)' = expr[p] /\ expr[p] \notin Invalid /\ expr[p] \in known
    BY <1>1, <1>3 DEF IInv, TypeOK, CacheSound, answerOf, known
  <2>2. known' = known /\ known = known \cup {expr[p]}
    BY <1>1, <2>1 DEF known
  <2>3. QED
    BY <1>1, <1>2, <2>1, <2>2, MatcherAssumption DEF Promise!Answer, answer, known
<1>4. CASE cache[expr[p]] = None
  <2>1. answerOf(p)' = None
    BY <1>1, <1>4 DEF IInv, TypeOK, answerOf
  <2>2. QED BY <1>1, <1>2, <2>1 DEF answer, known
<1>5. QED BY <1>3, <1>4

\* The write answers, though another caller may have written the entry before.
LEMMA WriteStep ==
  ASSUME IInv, NEW p \in Callers, WriteCache(p)
  PROVE  Promise!Answer(p)
<1>1. /\ pc[p] = "write" /\ expr[p] \in Exprs \ Invalid /\ prg[p] = expr[p]
      /\ UNCHANGED <<op, expr, prg, ret>>
      /\ pc' = [pc EXCEPT ![p] = "unlock"]
      /\ cache' = [cache EXCEPT ![expr[p]] = expr[p]]
  BY DEF WriteCache, Goto, IInv, TypeOK, ProgramInv, PCs
<1>2. answer' = [answer EXCEPT ![p] = answerOf(p)'] /\ answerOf(p) = None
  BY <1>1, AnswerOfOne DEF IInv, TypeOK, answerOf
<1>3. answerOf(p)' = expr[p]
  BY <1>1 DEF IInv, TypeOK, answerOf
<1>4. known' = known \cup {expr[p]}
  BY <1>1, MatcherAssumption DEF IInv, TypeOK, known
<1>5. QED
  BY <1>1, <1>2, <1>3, <1>4, MatcherAssumption DEF Promise!Answer, answer, known

\* An expression that does not compile is answered at once, a valid one later.
LEMMA CompileStep ==
  ASSUME IInv, NEW p \in Callers, CompileExpr(p)
  PROVE  Promise!Answer(p) \/ UNCHANGED <<known, expr, answer>>
<1>1. /\ pc[p] = "compile" /\ expr[p] \in Exprs
      /\ UNCHANGED <<cache, op, expr>>
  BY DEF CompileExpr, ReturnFrom, Goto, IInv, TypeOK, ProgramInv, PCs
<1>2. answerOf(p) = None /\ known' = known
  BY <1>1 DEF answerOf, known
<1>3. CASE expr[p] \in Invalid
  <2>1. /\ pc' = [pc EXCEPT ![p] = "idle"] /\ ret' = [ret EXCEPT ![p] = "error"]
        /\ prg' = prg
    BY <1>3 DEF CompileExpr, ReturnFrom, Goto
  <2>2. answer' = [answer EXCEPT ![p] = answerOf(p)']
    BY <1>1, <2>1, AnswerOfOne DEF IInv, TypeOK
  <2>3. answerOf(p)' = "error"
    BY <1>1, <1>3, <2>1 DEF IInv, TypeOK, answerOf
  <2>4. QED
    BY <1>1, <1>2, <1>3, <2>2, <2>3, MatcherAssumption DEF Promise!Answer, answer, known
<1>4. CASE expr[p] \notin Invalid
  <2>1. /\ pc' = [pc EXCEPT ![p] = "lock"] /\ ret' = ret
        /\ prg' = [prg EXCEPT ![p] = expr[p]]
    BY <1>4 DEF CompileExpr, ReturnFrom, Goto
  <2>2. answer' = [answer EXCEPT ![p] = answerOf(p)']
    BY <1>1, <2>1, AnswerOfOne DEF IInv, TypeOK
  <2>3. answerOf(p)' = None
    BY <2>1 DEF IInv, TypeOK, answerOf
  <2>4. QED BY <1>1, <1>2, <2>2, <2>3 DEF answer
<1>5. QED BY <1>3, <1>4

\* The steps of the lock, and the delivery of an answer, are no steps of Memo.
LEMMA QuietStep ==
  ASSUME IInv, NEW p \in Callers,
         RLock(p) \/ RUnlock(p) \/ Lock(p) \/ Drain(p) \/ Unlock(p) \/ Eval(p)
  PROVE  UNCHANGED <<known, expr, answer>>
<1>1. UNCHANGED <<cache, expr, op, prg>>
  BY DEF RLock, RUnlock, Lock, Drain, Unlock, Eval, lock
<1>2. \A q \in Callers : answerOf(q)' = answerOf(q)
  <2> USE <1>1 DEF IInv, TypeOK, ProgramInv, answerOf, Goto, ReturnFrom, PCs
  <2>1. CASE RLock(p) \/ Lock(p) \/ Drain(p)
    BY <2>1 DEF RLock, Lock, Drain
  <2>2. CASE RUnlock(p)
    BY <2>2 DEF RUnlock, Deliver
  <2>3. CASE Unlock(p)
    BY <2>3 DEF Unlock, LockInv
  <2>4. CASE Eval(p)
    BY <2>4 DEF Eval
  <2>5. QED BY <2>1, <2>2, <2>3, <2>4
<1>3. QED BY <1>1, <1>2 DEF known, answer

LEMMA PromiseStep == IInv /\ [Next]_vars => [Promise!Next]_(Promise!vars)
<1> SUFFICES ASSUME IInv, [Next]_vars
             PROVE  Promise!Next \/ UNCHANGED <<known, expr, answer>>
  BY DEF Promise!vars, known, answer
<1>1. CASE UNCHANGED vars
  BY <1>1 DEF vars, known, answer, answerOf
<1>2. ASSUME NEW p \in Callers, Call(p) \/ Proceed(p)
      PROVE  Promise!Next \/ UNCHANGED <<known, expr, answer>>
  BY <1>2, AskStep, ReadStep, WriteStep, CompileStep, QuietStep
     DEF Proceed, Promise!Next
<1>3. QED BY <1>1, <1>2 DEF Next

\* To its callers the matcher is a memo table that answers in one step.
THEOREM KeepsPromise == Spec => ImplementsMemo
<1>1. QED
  BY PromiseInit, PromiseStep, Invariance, PTL DEF Spec, ImplementsMemo, Promise!Spec
=============================================================================
