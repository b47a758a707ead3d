--------------------------- MODULE CircuitBreaker ---------------------------
(***************************************************************************)
(* The circuit breaker of pkg/circuitbreaker, and the callers around it:   *)
(* each asks Allow, makes its call if it may, and records how it ended.    *)
(* Every method holds the mutex from start to end and is one action; the   *)
(* calls overlap, and may end long after the breaker has changed state.    *)
(***************************************************************************)
EXTENDS Naturals

CONSTANTS
  Callers,        \* the goroutines that call through the breaker
  Threshold,      \* b.threshold
  ResetTimeout    \* b.resetTimeout, in ticks

ASSUME BreakerAssumption ==
  /\ Threshold \in Nat \ {0}
  /\ ResetTimeout \in Nat

VARIABLES
  state,         \* b.state, "Closed" or "Open"; HalfOpen is never stored
  failures,      \* b.failures; above Threshold it need not be told apart
  sinceFailure,  \* the time since b.lastFailure, up to just over ResetTimeout
  calling,       \* the callers whose call is in progress
  \* What happened, for the properties; no action reads it:
  ended,         \* how the last Threshold calls to end ended, the newest first
  quiet          \* the time since a call last failed, up to just over ResetTimeout

history == <<ended, quiet>>
breakerVars == <<state, failures, sinceFailure, calling, history>>

Least(a, b) == IF a < b THEN a ELSE b
Later(t) == Least(t + 1, ResetTimeout + 1)

BreakerInit ==
  /\ state = "Closed"
  /\ failures = 0
  /\ sinceFailure = ResetTimeout + 1
  /\ calling = {}
  /\ ended = [i \in 1..Threshold |-> "none"]
  /\ quiet = ResetTimeout + 1

currentState ==
  IF state = "Open" /\ sinceFailure > ResetTimeout THEN "HalfOpen" ELSE state

BreakerTick ==
  /\ sinceFailure' = Later(sinceFailure)
  /\ quiet' = Later(quiet)
  /\ UNCHANGED <<state, failures, calling, ended>>

\* Fault: an open breaker lets everybody through.
AllowAlways(c) ==
  /\ c \notin calling
  /\ calling' = calling \cup {c}
  /\ UNCHANGED <<state, failures, sinceFailure, history>>

\* Allow returns true and the call begins; if it returns false there is none.
BreakerAllow(c) ==
  /\ c \notin calling
  /\ currentState \in {"Closed", "HalfOpen"}
  /\ calling' = calling \cup {c}
  /\ UNCHANGED <<state, failures, sinceFailure, history>>

\* The caller's call ends with the given outcome, and is remembered.
EndCall(c, outcome) ==
  /\ c \in calling
  /\ calling' = calling \ {c}
  /\ ended' = [i \in 1..Threshold |-> IF i = 1 THEN outcome ELSE ended[i - 1]]
  /\ quiet' = IF outcome = "failed" THEN 0 ELSE quiet

\* Fault: only a probe's success resets the count; in a closed breaker failures add up.
ResetOpenOnly(c) ==
  /\ EndCall(c, "ok")
  /\ failures' = IF state = "Open" THEN 0 ELSE failures
  /\ state' = "Closed"
  /\ UNCHANGED sinceFailure

RecordSuccess(c) ==
  /\ EndCall(c, "ok")
  /\ failures' = 0
  /\ state' = "Closed"
  /\ UNCHANGED sinceFailure

\* Fault: the timer starts when the breaker opens, and no later failure restarts it.
TimeOpeningOnly(c) ==
  /\ EndCall(c, "failed")
  /\ failures' = Least(failures + 1, Threshold)
  /\ sinceFailure' = IF state = "Closed" THEN 0 ELSE sinceFailure
  /\ state' = IF failures + 1 >= Threshold THEN "Open" ELSE state

RecordFailure(c) ==
  /\ EndCall(c, "failed")
  /\ failures' = Least(failures + 1, Threshold)
  /\ sinceFailure' = 0
  /\ state' = IF failures + 1 >= Threshold THEN "Open" ELSE state

BreakerNext ==
  \/ BreakerTick
  \/ \E c \in Callers : BreakerAllow(c) \/ RecordSuccess(c) \/ RecordFailure(c)

\* Time passes, and every call ends, well or badly.
BreakerFairness ==
  /\ WF_breakerVars(BreakerTick)
  /\ \A c \in Callers : WF_breakerVars(RecordSuccess(c) \/ RecordFailure(c))

BreakerSpec == BreakerInit /\ [][BreakerNext]_breakerVars /\ BreakerFairness

-----------------------------------------------------------------------------
\* The variables have their types.
BreakerTypeOK ==
  /\ state \in {"Closed", "Open"}
  /\ failures \in 0..Threshold
  /\ sinceFailure \in 0..(ResetTimeout + 1)
  /\ calling \subseteq Callers
  /\ ended \in [1..Threshold -> {"none", "ok", "failed"}]
  /\ quiet \in 0..(ResetTimeout + 1)

\* The last Threshold calls to end all failed.
Tripped == \A i \in 1..Threshold : ended[i] = "failed"

\* The breaker is open exactly when the last Threshold calls to end all failed,
\* however the calls overlapped and whatever state they were let through in.
OpenIffThreshold == state = "Open" <=> Tripped

\* As long as the last Threshold calls to end all failed, a call begins only when
\* more than the timeout has passed since the last of them: a failed probe, like
\* any late failure, keeps everybody out for the whole timeout again.
NoEarlyProbe ==
  [][Tripped /\ ~ (calling' \subseteq calling) => quiet > ResetTimeout]_breakerVars

\* The breaker does not stay open for ever: once it is open, only the calls
\* already in progress can put its timeout off.
NeverOpenForEver == []<>(currentState # "Open")

\* The count is that of the failures that ended last, in a row.
CountsFailuresInARow ==
  /\ \A i \in 1..failures : ended[i] = "failed"
  /\ failures < Threshold => ended[failures + 1] # "failed"

\* The inductive invariant of the proofs (LibraryProofs).
BreakerIInv ==
  /\ BreakerTypeOK
  /\ CountsFailuresInARow
  /\ state = "Open" <=> failures = Threshold
  /\ sinceFailure = quiet
=============================================================================
