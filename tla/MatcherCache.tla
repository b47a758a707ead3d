---------------------------- MODULE MatcherCache ----------------------------
(***************************************************************************)
(* The matcher (pkg/matcher): CEL programs compiled on demand and cached   *)
(* in a map that every goroutine of the process shares, under a            *)
(* sync.RWMutex that is not held while an expression is compiled.          *)
(*                                                                         *)
(* The mutex is the one of the Go library: a writer first takes the inner  *)
(* mutex of the lock, then keeps new readers out and waits for those that  *)
(* are in; when it unlocks, the readers that queued up are let in before   *)
(* the next writer.                                                        *)
(***************************************************************************)
EXTENDS FiniteSets

CONSTANTS
  Callers,   \* the goroutines that call Compile or Match
  Exprs,     \* the expressions they may ask for
  Invalid,   \* those that do not compile
  None       \* no caller, no expression

\* What Match returns: true or false, or an error.
Verdicts == {"answer", "error"}

ASSUME MatcherAssumption ==
  /\ Invalid \subseteq Exprs
  /\ None \notin Callers \cup Exprs \cup Verdicts

VARIABLES
  cache,    \* m.cache: of each expression the one its program was compiled from
  readers,  \* the callers that hold the read lock
  writer,   \* the caller that holds or waits for the write lock, or None
  queued,   \* the callers whose RLock waits for the writer
  pc,       \* of each caller: where it is in Compile
  op,       \* of each caller: "compile" or "match"
  expr,     \* of each caller: the expression it asked for
  prg,      \* of each caller: the program it has, or None
  ret       \* of each caller: what its last call returned

lock == <<readers, writer, queued>>
vars == <<cache, readers, writer, queued, pc, op, expr, prg, ret>>

PCs == {"idle", "rlock", "queued", "read", "hit", "miss", "compile", "lock",
        "drain", "write", "unlock", "eval"}

Init ==
  /\ cache = [e \in Exprs |-> None]
  /\ readers = {}
  /\ writer = None
  /\ queued = {}
  /\ pc = [p \in Callers |-> "idle"]
  /\ op = [p \in Callers |-> "compile"]
  /\ expr = [p \in Callers |-> None]
  /\ prg = [p \in Callers |-> None]
  /\ ret = [p \in Callers |-> None]

Goto(p, from, to) ==
  /\ pc[p] = from
  /\ pc' = [pc EXCEPT ![p] = to]

\* The call ends and the goroutine goes on with the value.
ReturnFrom(p, from, value) ==
  /\ Goto(p, from, "idle")
  /\ ret' = [ret EXCEPT ![p] = value]

\* Compile(e), or Match(e) on an expression that is not empty.
Call(p) ==
  /\ Goto(p, "idle", "rlock")
  /\ \E e \in Exprs : expr' = [expr EXCEPT ![p] = e]
  /\ \E o \in {"compile", "match"} : op' = [op EXCEPT ![p] = o]
  /\ prg' = [prg EXCEPT ![p] = None]
  /\ ret' = [ret EXCEPT ![p] = None]
  /\ UNCHANGED <<cache, lock>>

RLock(p) ==
  \/ /\ writer = None
     /\ Goto(p, "rlock", "read")
     /\ readers' = readers \cup {p}
     /\ UNCHANGED <<cache, writer, queued, op, expr, prg, ret>>
  \/ /\ writer # None
     /\ Goto(p, "rlock", "queued")
     /\ queued' = queued \cup {p}
     /\ UNCHANGED <<cache, readers, writer, op, expr, prg, ret>>

\* Fault: a miss is taken for a hit on the last program compiled.
ReadAnyCache(p) ==
  \E e \in Exprs :
    /\ Goto(p, "read", IF cache[e] # None THEN "hit" ELSE "miss")
    /\ prg' = [prg EXCEPT ![p] = cache[e]]
    /\ UNCHANGED <<cache, lock, op, expr, ret>>

\* The lookup in the map.
ReadCache(p) ==
  /\ Goto(p, "read", IF cache[expr[p]] # None THEN "hit" ELSE "miss")
  /\ prg' = [prg EXCEPT ![p] = cache[expr[p]]]
  /\ UNCHANGED <<cache, lock, op, expr, ret>>

\* What a caller does with the program that Compile returns.
Deliver(p, from) ==
  \/ /\ op[p] = "compile"
     /\ ReturnFrom(p, from, prg[p])
  \/ /\ op[p] = "match"
     /\ Goto(p, from, "eval")
     /\ UNCHANGED ret

\* RUnlock, on the path of a hit and on the path of a miss.
RUnlock(p) ==
  /\ readers' = readers \ {p}
  /\ \/ Deliver(p, "hit")
     \/ /\ Goto(p, "miss", "compile")
        /\ UNCHANGED ret
  /\ UNCHANGED <<cache, writer, queued, op, expr, prg>>

\* Fault: an expression that does not compile is tried again.
CompileAgain(p) ==
  /\ IF expr[p] \in Invalid
     THEN Goto(p, "compile", "rlock") /\ UNCHANGED prg
     ELSE /\ Goto(p, "compile", "lock")
          /\ prg' = [prg EXCEPT ![p] = expr[p]]
  /\ UNCHANGED <<cache, lock, op, expr, ret>>

\* env.Compile and env.Program, with no lock held.
CompileExpr(p) ==
  \/ /\ expr[p] \in Invalid
     /\ ReturnFrom(p, "compile", "error")
     /\ UNCHANGED <<cache, lock, op, expr, prg>>
  \/ /\ expr[p] \notin Invalid
     /\ Goto(p, "compile", "lock")
     /\ prg' = [prg EXCEPT ![p] = expr[p]]
     /\ UNCHANGED <<cache, lock, op, expr, ret>>

\* Fault: RLock around the write.
LockShared(p) ==
  /\ writer = None
  /\ Goto(p, "lock", "write")
  /\ readers' = readers \cup {p}
  /\ UNCHANGED <<cache, writer, queued, op, expr, prg, ret>>

\* Lock(): the inner mutex, and from then on no new reader gets in.
Lock(p) ==
  /\ writer = None
  /\ Goto(p, "lock", "drain")
  /\ writer' = p
  /\ UNCHANGED <<cache, readers, queued, op, expr, prg, ret>>

\* Lock() returns when the readers that were in have left.
Drain(p) ==
  /\ readers = {}
  /\ Goto(p, "drain", "write")
  /\ UNCHANGED <<cache, lock, op, expr, prg, ret>>

\* Fault: the program is compiled, and returned, but not kept.
WriteNothing(p) ==
  /\ Goto(p, "write", "unlock")
  /\ UNCHANGED <<cache, lock, op, expr, prg, ret>>

\* The assignment to the map.
WriteCache(p) ==
  /\ Goto(p, "write", "unlock")
  /\ cache' = [cache EXCEPT ![expr[p]] = prg[p]]
  /\ UNCHANGED <<lock, op, expr, prg, ret>>

\* Unlock(): the queued readers are let in, then the next writer.
Unlock(p) ==
  /\ pc[p] = "unlock"
  /\ writer' = None
  /\ readers' = queued
  /\ queued' = {}
  /\ pc' = [q \in Callers |->
              IF q = p THEN (IF op[p] = "match" THEN "eval" ELSE "idle")
              ELSE IF q \in queued THEN "read" ELSE pc[q]]
  /\ ret' = IF op[p] = "match" THEN ret ELSE [ret EXCEPT ![p] = prg[p]]
  /\ UNCHANGED <<cache, op, expr, prg>>

\* Match evaluates the program on the event; the event decides the verdict.
Eval(p) ==
  /\ \E v \in Verdicts : ReturnFrom(p, "eval", v)
  /\ UNCHANGED <<cache, lock, op, expr, prg>>

\* The steps of a call, once it has begun.
Proceed(p) ==
  \/ RLock(p)
  \/ ReadCache(p)
  \/ RUnlock(p)
  \/ CompileExpr(p)
  \/ Lock(p)
  \/ Drain(p)
  \/ WriteCache(p)
  \/ Unlock(p)
  \/ Eval(p)

Next == \E p \in Callers : Call(p) \/ Proceed(p)

\* Every runnable goroutine runs, and the inner mutex of the RWMutex does not
\* starve a waiter for ever (sync.Mutex hands itself over in starvation mode).
Fairness == \A p \in Callers : WF_vars(Proceed(p)) /\ SF_vars(Lock(p))

Spec == Init /\ [][Next]_vars /\ Fairness

-----------------------------------------------------------------------------
\* The variables have their types.
TypeOK ==
  /\ cache \in [Exprs -> Exprs \cup {None}]
  /\ readers \subseteq Callers
  /\ writer \in Callers \cup {None}
  /\ queued \subseteq Callers
  /\ pc \in [Callers -> PCs]
  /\ op \in [Callers -> {"compile", "match"}]
  /\ expr \in [Callers -> Exprs \cup {None}]
  /\ prg \in [Callers -> Exprs \cup {None}]
  /\ ret \in [Callers -> Exprs \cup Verdicts \cup {None}]

\* The map is never written while another goroutine reads or writes it: the Go
\* runtime ends a process in which that happens (matcher.go:49-68).
NoConcurrentMapAccess ==
  \A p, q \in Callers :
    pc[p] = "write" /\ p # q => pc[q] \notin {"read", "write"}

\* The cache holds programs of valid expressions only, each under its own
\* expression, although callers fill it without knowing of one another.
CacheSound == \A e \in Exprs : cache[e] # None => cache[e] = e /\ e \notin Invalid

\* A caller is given the program of the expression it asked for, or an error
\* if that does not compile; a reactor never runs on another one's expression.
OwnProgram ==
  \A p \in Callers :
    ret[p] # None /\ expr[p] # None =>
      IF expr[p] \in Invalid THEN ret[p] = "error"
      ELSE op[p] = "compile" => ret[p] = expr[p]

\* An expression that has been compiled is never forgotten: callers that come
\* after do not compile it again.
CacheMonotone ==
  [][\A e \in Exprs : cache[e] # None => cache'[e] = cache[e]]_vars

\* The answer a caller has: at the lookup that hits, at the write of what it has
\* compiled, or at the error; Match keeps the program until it has its verdict.
answerOf(p) ==
  IF pc[p] \in {"hit", "unlock", "eval"} THEN prg[p]
  ELSE IF pc[p] # "idle" THEN None
  ELSE IF op[p] = "compile" \/ expr[p] \in Invalid THEN ret[p] ELSE prg[p]

Promise == INSTANCE Memo WITH
  known <- {e \in Exprs : cache[e] # None},
  wanted <- expr,
  answer <- [p \in Callers |-> answerOf(p)]

\* To its callers the matcher is as good as one step: between the lookup that
\* misses and the write nobody is given a program that is not his own or not yet
\* kept, whoever else writes the same entry meanwhile (matcher.go:44-72).
ImplementsMemo == Promise!Spec

\* Every call returns: nobody waits for a lock that is never given back.
EveryCallReturns == \A p \in Callers : pc[p] # "idle" ~> pc[p] = "idle"

-----------------------------------------------------------------------------
\* The inductive invariant of the proofs (MatcherProofs).

Reading == {"read", "hit", "miss"}
Writing == {"drain", "write", "unlock"}

\* The lock knows exactly who is where, and the write excludes the readers.
LockInv ==
  /\ \A p \in Callers :
       /\ p \in readers <=> pc[p] \in Reading
       /\ p \in queued <=> pc[p] = "queued"
       /\ writer = p <=> pc[p] \in Writing
       /\ pc[p] \in {"write", "unlock"} => readers = {}
  /\ writer = None => queued = {}

\* A caller past the lookup has the program of its own expression.
ProgramInv ==
  \A p \in Callers :
    /\ pc[p] \in PCs \ {"idle"} => expr[p] \in Exprs /\ ret[p] = None
    /\ pc[p] \in {"hit", "eval", "lock", "drain", "write", "unlock"} =>
         prg[p] = expr[p] /\ expr[p] \notin Invalid
    /\ pc[p] = "eval" => op[p] = "match"
    /\ pc[p] = "idle" /\ expr[p] # None =>
         /\ ret[p] # None
         /\ op[p] = "match" /\ expr[p] \notin Invalid => prg[p] = expr[p]
    /\ expr[p] = None => op[p] = "compile" /\ ret[p] = None

\* All of it: the lock, the cache and what the callers carry with them between
\* the critical sections (matcher.go:48-90).
IInv == TypeOK /\ LockInv /\ CacheSound /\ ProgramInv /\ OwnProgram
=============================================================================
