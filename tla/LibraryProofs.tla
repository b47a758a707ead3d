---------------------------- MODULE LibraryProofs ----------------------------
(***************************************************************************)
(* Proofs about the packages that stand on their own and that no command   *)
(* uses yet: the rate limiter, the circuit breaker and the watcher of the  *)
(* configuration file, for all values of their constants.                  *)
(***************************************************************************)
EXTENDS RateLimiter, CircuitBreaker, Reload, TLAPS

-----------------------------------------------------------------------------
(* pkg/ratelimit: every rate, size of the bucket and length of the window. *)

LEMMA LimiterFullType == Full \in Nat
BY LimiterAssumption DEF Full

LEMMA LimiterInitIInv == LimiterInit => LimiterIInv
<1> SUFFICES ASSUME LimiterInit PROVE LimiterIInv
  OBVIOUS
<1> USE LimiterAssumption
<1>1. /\ tokens = Full /\ accrued = 0 /\ decision = "none" /\ open = FALSE
      /\ admitted = 0 /\ earned = 0
  BY DEF LimiterInit
<1>2. LimiterTypeOK
  <2>1. open \in BOOLEAN
    BY <1>1
  <2>2. tokens \in 0..Full /\ accrued \in Nat /\ admitted \in Nat /\ earned \in Nat
    BY <1>1, LimiterFullType
  <2>3. QED BY <1>1, <2>1, <2>2 DEF LimiterTypeOK
<1>3. admitted * Unit = 0
  BY <1>1
<1>4. Level(tokens + accrued) = Full
  BY <1>1, LimiterFullType DEF Level
<1>5. QED
  BY <1>1, <1>2, <1>3, <1>4, LimiterFullType DEF LimiterIInv, Potential

\* Time that passes is paid for by what accrues in it, or the window closes.
LEMMA LimiterTickStep == LimiterIInv /\ LimiterTick => LimiterIInv'
<1> SUFFICES ASSUME LimiterIInv, LimiterTick PROVE LimiterIInv'
  OBVIOUS
<1> USE LimiterAssumption
<1>1. 0 * Unit = 0 /\ Rate \in Nat /\ Full \in Nat
  BY LimiterFullType
<1>2. LimiterTypeOK'
  <2>1. accrued' \in Nat
    BY <1>1 DEF LimiterIInv, LimiterTypeOK, LimiterTick
  <2>2. CASE open /\ earned + Rate <= MaxWindow
    <3>1. open' = open /\ admitted' = admitted /\ earned' = earned + Rate
      BY <2>2 DEF LimiterTick
    <3>2. QED BY <1>1, <2>1, <2>2, <3>1 DEF LimiterIInv, LimiterTypeOK, LimiterTick,
          Full
  <2>3. CASE ~ (open /\ earned + Rate <= MaxWindow)
    <3>1. open' = FALSE /\ admitted' = 0 /\ earned' = 0
      BY <2>3 DEF LimiterTick
    <3>2. open' \in BOOLEAN
      BY <3>1
    <3>3. QED BY <2>1, <3>1, <3>2 DEF LimiterIInv, LimiterTypeOK, LimiterTick,
          Full
  <2>4. QED BY <2>2, <2>3
<1>3. /\ accrued' \in {accrued, accrued + Rate}
      /\ Level(tokens' + accrued') <= Level(tokens + accrued) + Rate
      /\ Level(tokens' + accrued') <= Full
  BY <1>1 DEF LimiterIInv, LimiterTypeOK, LimiterTick, Level
<1>4. CASE open /\ earned + Rate <= MaxWindow
  <2>1. earned' = earned + Rate /\ admitted' = admitted
    BY <1>4 DEF LimiterTick
  <2> DEFINE spent == admitted * Unit
  <2>2. spent \in Int
    BY DEF LimiterIInv, LimiterTypeOK
  <2>3. spent + Level(tokens + accrued) <= Full + earned
    BY DEF LimiterIInv, Potential
  <2>4. Level(tokens + accrued) \in Int /\ Level(tokens' + accrued') \in Int
    BY <1>1, <1>3 DEF LimiterIInv, LimiterTypeOK, Level, LimiterTick
  <2> HIDE DEF spent
  <2>5. spent + Level(tokens' + accrued') <= Full + earned'
    BY <1>1, <1>3, <2>1, <2>2, <2>3, <2>4 DEF LimiterIInv, LimiterTypeOK
  <2>6. Potential'
    BY <2>1, <2>5 DEF Potential, Level, Full, spent
  <2>7. QED BY <1>2, <2>6 DEF LimiterIInv
<1>5. CASE ~ (open /\ earned + Rate <= MaxWindow)
  <2>1. admitted' = 0 /\ earned' = 0
    BY <1>5 DEF LimiterTick
  <2>2. admitted' * Unit = 0
    BY <2>1
  <2>3. Level(tokens' + accrued') <= Full + earned'
    BY <1>1, <1>3, <2>1
  <2>4. Level(tokens' + accrued') \in Int
    BY <1>1, <1>3 DEF LimiterIInv, LimiterTypeOK, Level, LimiterTick
  <2>5. Potential'
    BY <2>2, <2>3, <2>4 DEF Potential, Level, Full
  <2>6. QED BY <1>2, <2>5 DEF LimiterIInv
<1>6. QED BY <1>4, <1>5

\* An event is admitted against a whole token of what is in the bucket.
LEMMA LimiterAllowStep == LimiterIInv /\ LimiterAllow => LimiterIInv'
<1> SUFFICES ASSUME LimiterIInv, LimiterAllow PROVE LimiterIInv'
  OBVIOUS
<1> USE LimiterAssumption
<1> DEFINE level == Level(tokens + accrued)
           spent == admitted * Unit
<1>1. Unit \in Nat \ {0} /\ Full \in Nat /\ spent \in Int
  BY LimiterFullType DEF LimiterIInv, LimiterTypeOK
<1>2. level \in 0..Full
  BY <1>1 DEF LimiterIInv, LimiterTypeOK, Level
<1>3. spent + level <= Full + earned
  BY DEF LimiterIInv, Potential
<1>4. (admitted + 1) * Unit = spent + Unit
  BY <1>1 DEF LimiterIInv, LimiterTypeOK
<1>5. UNCHANGED <<open, earned>> /\ accrued' = 0
  BY DEF LimiterAllow
<1>6. CASE level < Unit
  <2>1. tokens' = level /\ decision' = "denied" /\ admitted' = admitted
    BY <1>6 DEF LimiterAllow
  <2>2. LimiterTypeOK'
    BY <1>1, <1>2, <1>5, <2>1 DEF LimiterIInv, LimiterTypeOK, Full
  <2>3. Level(tokens' + accrued') = level
    BY <1>1, <1>2, <1>5, <2>1 DEF Level
  <2>4. Potential'
    BY <1>3, <1>5, <2>1, <2>3 DEF Potential, Level, Full
  <2>5. QED BY <2>2, <2>4 DEF LimiterIInv
<1>7. CASE ~ (level < Unit)
  <2>1. /\ tokens' = level - Unit /\ decision' = "allowed"
        /\ admitted' = IF open THEN admitted + 1 ELSE admitted
    BY <1>7 DEF LimiterAllow
  <2>2. tokens' \in 0..Full
    BY <1>1, <1>2, <1>7, <2>1
  <2>3. LimiterTypeOK'
    BY <1>5, <2>1, <2>2 DEF LimiterIInv, LimiterTypeOK, Full
  <2>4. Level(tokens' + accrued') = level - Unit
    BY <1>1, <1>2, <1>5, <1>7, <2>1 DEF Level
  <2>5. admitted' * Unit \in {spent, spent + Unit}
    BY <1>4, <2>1
  <2> DEFINE spent2 == admitted' * Unit
  <2> HIDE DEF level, spent, spent2
  <2>6. earned \in Nat
    BY DEF LimiterIInv, LimiterTypeOK
  <2>7. spent2 + (level - Unit) <= Full + earned
    BY <1>1, <1>2, <1>3, <2>5, <2>6 DEF spent2
  <2>8. Potential'
    BY <1>5, <2>4, <2>7 DEF Potential, Level, Full, spent2
  <2>9. QED BY <2>3, <2>8 DEF LimiterIInv
<1>8. QED BY <1>6, <1>7

LEMMA LimiterIInvStep == LimiterIInv /\ [LimiterNext]_limiterVars => LimiterIInv'
<1> SUFFICES ASSUME LimiterIInv, [LimiterNext]_limiterVars PROVE LimiterIInv'
  OBVIOUS
<1> USE LimiterAssumption
<1>1. CASE OpenWindow
  BY <1>1 DEF OpenWindow, LimiterIInv, LimiterTypeOK, Potential,
        Level, Full
<1>2. CASE UNCHANGED limiterVars
  BY <1>2 DEF limiterVars, LimiterIInv, LimiterTypeOK, Potential,
        Level, Full
<1>3. QED BY <1>1, <1>2, LimiterTickStep, LimiterAllowStep DEF LimiterNext

\* What is admitted in a window, and what is left in the bucket, is paid for.
THEOREM LimiterInvariance == LimiterSpec => []LimiterIInv
<1>1. QED BY LimiterInitIInv, LimiterIInvStep, PTL DEF LimiterSpec

\* No window of time admits more than a full bucket and what accrues in it.
THEOREM WindowBoundHolds == LimiterSpec => []WindowBound
<1>1. LimiterIInv => WindowBound
  <2> SUFFICES ASSUME LimiterIInv PROVE WindowBound
    OBVIOUS
  <2> DEFINE spent == admitted * Unit
  <2>1. spent \in Int /\ Full \in Nat /\ Level(tokens + accrued) \in Nat
    BY LimiterAssumption, LimiterFullType DEF LimiterIInv, LimiterTypeOK, Level
  <2>2. spent + Level(tokens + accrued) <= Full + earned /\ earned \in Nat
    BY DEF LimiterIInv, LimiterTypeOK, Potential
  <2> HIDE DEF spent
  <2>3. spent <= Full + earned
    BY <2>1, <2>2
  <2>4. QED BY <2>3 DEF WindowBound, spent
<1>2. QED BY <1>1, LimiterInvariance, PTL

-----------------------------------------------------------------------------
(* pkg/circuitbreaker: any callers, threshold and timeout.                 *)

LEMMA BreakerInitIInv == BreakerInit => BreakerIInv
BY BreakerAssumption
   DEF BreakerInit, BreakerIInv, BreakerTypeOK, CountsFailuresInARow

\* What was remembered moves back by one, and the outcome comes in front of it.
LEMMA EndCallRemembers ==
  ASSUME BreakerTypeOK, NEW c \in Callers, NEW o \in {"ok", "failed"}, EndCall(c, o)
  PROVE  /\ ended' \in [1..Threshold -> {"none", "ok", "failed"}]
         /\ ended'[1] = o
         /\ \A i \in 1..Threshold : i # 1 => ended'[i] = ended[i - 1]
         /\ calling' \subseteq calling
<1> USE BreakerAssumption DEF BreakerTypeOK
<1>1. ended' = [i \in 1..Threshold |-> IF i = 1 THEN o ELSE ended[i - 1]]
  BY DEF EndCall
<1>2. \A i \in 1..Threshold : i # 1 => i - 1 \in 1..Threshold
  OBVIOUS
<1>3. 1 \in 1..Threshold
  OBVIOUS
<1>4. calling' \subseteq calling
  BY DEF EndCall
<1>5. QED BY <1>1, <1>2, <1>3, <1>4

LEMMA RecordSuccessStep ==
  ASSUME BreakerIInv, NEW c \in Callers, RecordSuccess(c)
  PROVE  BreakerIInv'
<1> USE BreakerAssumption
<1>1. EndCall(c, "ok") /\ failures' = 0 /\ state' = "Closed" /\ UNCHANGED sinceFailure
  BY DEF RecordSuccess
<1>2. quiet' = quiet
  BY <1>1 DEF EndCall
<1>3. /\ ended' \in [1..Threshold -> {"none", "ok", "failed"}] /\ ended'[1] = "ok"
      /\ calling' \subseteq calling
  BY <1>1, EndCallRemembers DEF BreakerIInv
<1>4. BreakerTypeOK'
  BY <1>1, <1>2, <1>3 DEF BreakerIInv, BreakerTypeOK
<1>5. CountsFailuresInARow'
  BY <1>1, <1>3 DEF CountsFailuresInARow
<1>6. QED BY <1>1, <1>2, <1>4, <1>5 DEF BreakerIInv

LEMMA RecordFailureStep ==
  ASSUME BreakerIInv, NEW c \in Callers, RecordFailure(c)
  PROVE  BreakerIInv'
<1> USE BreakerAssumption
<1>1. /\ EndCall(c, "failed") /\ failures' = Least(failures + 1, Threshold)
      /\ sinceFailure' = 0
      /\ state' = IF failures + 1 >= Threshold THEN "Open" ELSE state
  BY DEF RecordFailure
<1>2. quiet' = 0
  BY <1>1 DEF EndCall
<1>3. /\ ended' \in [1..Threshold -> {"none", "ok", "failed"}] /\ ended'[1] = "failed"
      /\ \A i \in 1..Threshold : i # 1 => ended'[i] = ended[i - 1]
      /\ calling' \subseteq calling
  BY <1>1, EndCallRemembers DEF BreakerIInv
<1>4. BreakerTypeOK'
  BY <1>1, <1>2, <1>3 DEF BreakerIInv, BreakerTypeOK, Least
<1>5. \A i \in 1..failures' : ended'[i] = "failed"
  <2> SUFFICES ASSUME NEW i \in 1..failures', i # 1 PROVE ended'[i] = "failed"
    BY <1>3
  <2>1. i \in 1..Threshold /\ i - 1 \in 1..failures
    BY <1>1 DEF BreakerIInv, BreakerTypeOK, Least
  <2>2. QED BY <1>3, <2>1 DEF BreakerIInv, CountsFailuresInARow
<1>6. failures' < Threshold => ended'[failures' + 1] # "failed"
  <2> SUFFICES ASSUME failures' < Threshold PROVE ended'[failures' + 1] # "failed"
    OBVIOUS
  <2>1. /\ failures < Threshold /\ failures' = failures + 1
        /\ failures' + 1 \in 1..Threshold /\ failures' + 1 # 1
        /\ (failures' + 1) - 1 = failures + 1
    BY <1>1 DEF BreakerIInv, BreakerTypeOK, Least
  <2>2. QED BY <1>3, <2>1 DEF BreakerIInv, CountsFailuresInARow
<1>7. state' = "Open" <=> failures' = Threshold
  BY <1>1 DEF BreakerIInv, BreakerTypeOK, Least
<1>8. QED BY <1>1, <1>2, <1>4, <1>5, <1>6, <1>7 DEF BreakerIInv, CountsFailuresInARow

LEMMA BreakerIInvStep == BreakerIInv /\ [BreakerNext]_breakerVars => BreakerIInv'
<1> SUFFICES ASSUME BreakerIInv, [BreakerNext]_breakerVars PROVE BreakerIInv'
  OBVIOUS
<1> USE BreakerAssumption
<1>1. CASE BreakerTick
  BY <1>1 DEF BreakerTick, Later, Least, BreakerIInv, BreakerTypeOK, CountsFailuresInARow
<1>2. ASSUME NEW c \in Callers, BreakerAllow(c) PROVE BreakerIInv'
  BY <1>2 DEF BreakerAllow, history, BreakerIInv, BreakerTypeOK, CountsFailuresInARow
<1>3. CASE UNCHANGED breakerVars
  BY <1>3 DEF breakerVars, history, BreakerIInv, BreakerTypeOK, CountsFailuresInARow
<1>4. QED
  BY <1>1, <1>2, <1>3, RecordSuccessStep, RecordFailureStep DEF BreakerNext

\* The invariant holds in every reachable state.
THEOREM BreakerInvariance == BreakerSpec => []BreakerIInv
<1>1. QED BY BreakerInitIInv, BreakerIInvStep, PTL DEF BreakerSpec

\* Of what ended last, exactly a full count of failures opens the breaker.
LEMMA OpenWhenTripped == BreakerIInv => OpenIffThreshold
<1> SUFFICES ASSUME BreakerIInv PROVE OpenIffThreshold
  OBVIOUS
<1> USE BreakerAssumption DEF BreakerIInv, BreakerTypeOK, CountsFailuresInARow
<1>1. failures = Threshold => Tripped
  BY DEF Tripped
<1>2. failures < Threshold => ~ Tripped
  <2> SUFFICES ASSUME failures < Threshold PROVE ~ Tripped
    OBVIOUS
  <2>1. failures + 1 \in 1..Threshold /\ ended[failures + 1] # "failed"
    OBVIOUS
  <2>2. QED BY <2>1 DEF Tripped
<1>3. failures = Threshold \/ failures < Threshold
  OBVIOUS
<1>4. QED BY <1>1, <1>2, <1>3 DEF OpenIffThreshold

\* The breaker is open exactly when the last Threshold calls to end all failed.
THEOREM OpenIffThresholdHolds == BreakerSpec => []OpenIffThreshold
<1>1. QED BY OpenWhenTripped, BreakerInvariance, PTL

\* What NoEarlyProbe says of one step.
Waits == Tripped /\ ~ (calling' \subseteq calling) => quiet > ResetTimeout

\* No call begins within the timeout after the last failure that keeps it open.
THEOREM NoEarlyProbeHolds == BreakerSpec => NoEarlyProbe
<1>1. ASSUME BreakerIInv, [BreakerNext]_breakerVars PROVE [Waits]_breakerVars
  <2> SUFFICES ASSUME Tripped, ~ (calling' \subseteq calling) PROVE quiet > ResetTimeout
    BY DEF Waits
  <2>1. state = "Open"
    BY <1>1, OpenWhenTripped DEF OpenIffThreshold
  <2>2. ASSUME NEW c \in Callers, RecordSuccess(c) \/ RecordFailure(c)
        PROVE  calling' \subseteq calling
    BY <2>2 DEF RecordSuccess, RecordFailure, EndCall
  <2>3. PICK c \in Callers : BreakerAllow(c)
    BY <1>1, <2>2 DEF BreakerNext, BreakerTick, breakerVars
  <2>4. sinceFailure > ResetTimeout
    BY <2>1, <2>3 DEF BreakerAllow, currentState
  <2>5. QED BY <1>1, <2>4 DEF BreakerIInv
<1>2. QED BY <1>1, BreakerInvariance, PTL DEF BreakerSpec, NoEarlyProbe, Waits

-----------------------------------------------------------------------------
(* pkg/reload: any configurations, kinds of editors, debounce and edits.   *)

LEMMA WatcherInitIInv == WatcherInit => WatcherIInv
<1> SUFFICES ASSUME WatcherInit PROVE WatcherIInv
  OBVIOUS
<1> USE ReloadAssumption
<1>1. WatcherTypeOK
  <2>1. truncated \in BOOLEAN /\ loading \in BOOLEAN /\ missed \in BOOLEAN
    BY DEF WatcherInit
  <2>2. QED BY <2>1 DEF WatcherInit, WatcherTypeOK, Contents
<1>2. NoOtherLoss /\ LastGoodIsActive
  BY DEF WatcherInit, NoOtherLoss, LastGoodIsActive
<1>3. QED BY <1>1, <1>2 DEF WatcherIInv

\* A change of the file leaves a mark: an event that waits, or missed.
LEMMA NotifyMarks ==
  ASSUME WatcherTypeOK, Notify
  PROVE  /\ pending' \in Nat /\ missed' \in BOOLEAN
         /\ pending' > 0 \/ missed'
<1>1. CASE watching = "on"
  <2>1. /\ missed' \in {missed, TRUE}
        /\ pending' = pending + 1 \/ (pending' = pending /\ pending > 0)
    BY <1>1 DEF Notify
  <2>2. missed' \in BOOLEAN
    BY <2>1 DEF WatcherTypeOK
  <2>3. QED BY <2>1, <2>2 DEF WatcherTypeOK
<1>2. CASE watching # "on"
  <2>1. missed' = TRUE /\ pending' = pending
    BY <1>2 DEF Notify
  <2>2. missed' \in BOOLEAN /\ missed'
    BY <2>1
  <2>3. QED BY <2>1, <2>2 DEF WatcherTypeOK
<1>3. QED BY <1>1, <1>2

LEMMA WatcherTypeStep == WatcherTypeOK /\ [WatcherNext]_watcherVars => WatcherTypeOK'
<1> SUFFICES ASSUME WatcherTypeOK, [WatcherNext]_watcherVars PROVE WatcherTypeOK'
  OBVIOUS
<1> USE ReloadAssumption
<1> USE DEF WatcherTypeOK, Contents, file
<1>1. CASE Truncate
  <2>1. truncated' \in BOOLEAN /\ loading' \in BOOLEAN
    BY <1>1 DEF Truncate
  <2>2. QED BY <1>1, <2>1, NotifyMarks DEF Truncate
<1>2. ASSUME NEW c \in Configs \cup Broken, Write(c) PROVE WatcherTypeOK'
  <2>1. truncated' \in BOOLEAN /\ loading' \in BOOLEAN
    BY <1>2 DEF Write
  <2>2. QED BY <1>2, <2>1, NotifyMarks DEF Write
<1>3. ASSUME NEW c \in Configs \cup Broken, Replace(c) PROVE WatcherTypeOK'
  <2>1. truncated' \in BOOLEAN /\ loading' \in BOOLEAN /\ missed' \in BOOLEAN
    BY <1>3 DEF Replace
  <2>2. QED BY <1>3, <2>1 DEF Replace
<1>4. CASE WatcherTick
  BY <1>4 DEF WatcherTick
<1>5. CASE Watch
  BY <1>5 DEF Watch
<1>6. CASE TakeEvent
  <2>1. truncated' \in BOOLEAN /\ loading' \in BOOLEAN /\ missed' \in BOOLEAN
    BY <1>6 DEF TakeEvent
  <2>2. QED BY <1>6, <2>1 DEF TakeEvent
<1>7. CASE LoadConfig
  <2>1. truncated' \in BOOLEAN /\ loading' \in BOOLEAN /\ missed' \in BOOLEAN
    BY <1>7 DEF LoadConfig
  <2>2. QED BY <1>7, <2>1 DEF LoadConfig
<1>8. CASE Stop
  BY <1>8 DEF Stop
<1>9. CASE UNCHANGED watcherVars
  BY <1>9 DEF watcherVars
<1>10. QED
  BY <1>1, <1>2, <1>3, <1>4, <1>5, <1>6, <1>7, <1>8, <1>9 DEF WatcherNext

LEMMA WatcherIInvStep == WatcherIInv /\ [WatcherNext]_watcherVars => WatcherIInv'
<1> SUFFICES ASSUME WatcherIInv, [WatcherNext]_watcherVars
             PROVE  NoOtherLoss' /\ LastGoodIsActive'
  BY WatcherTypeStep DEF WatcherIInv
<1> USE ReloadAssumption
<1> DEFINE Goal == NoOtherLoss' /\ LastGoodIsActive'
<1> USE DEF WatcherIInv, NoOtherLoss, LastGoodIsActive, file
<1>1. CASE Truncate
  BY <1>1, NotifyMarks DEF Truncate
<1>2. ASSUME NEW c \in Configs \cup Broken, Write(c) PROVE Goal
  BY <1>2, NotifyMarks DEF Write
<1>3. ASSUME NEW c \in Configs \cup Broken, Replace(c) PROVE Goal
  BY <1>3 DEF Replace
<1>4. CASE WatcherTick
  BY <1>4 DEF WatcherTick
<1>5. CASE Watch
  BY <1>5 DEF Watch
<1>6. CASE TakeEvent
  BY <1>6 DEF TakeEvent
<1>7. CASE LoadConfig
  BY <1>7 DEF LoadConfig
<1>8. CASE Stop
  BY <1>8 DEF Stop
<1>9. CASE UNCHANGED watcherVars
  BY <1>9 DEF watcherVars
<1>10. QED
  BY <1>1, <1>2, <1>3, <1>4, <1>5, <1>6, <1>7, <1>8, <1>9 DEF WatcherNext

\* The file, what was read of it and what is active agree in every reachable state.
THEOREM WatcherInvariance == WatcherSpec => []WatcherIInv
<1>1. QED
  BY WatcherInitIInv, WatcherIInvStep, PTL DEF WatcherSpec

\* A change is lost to the debounce or for lack of an event, and in no other way.
THEOREM NoOtherLossHolds == WatcherSpec => []NoOtherLoss
<1>1. WatcherIInv => NoOtherLoss
  BY DEF WatcherIInv
<1>2. QED BY <1>1, WatcherInvariance, PTL

\* The active configuration loads, and is the last that did.
THEOREM LastGoodIsActiveHolds == WatcherSpec => []LastGoodIsActive
<1>1. WatcherIInv => LastGoodIsActive
  BY DEF WatcherIInv
<1>2. QED BY <1>1, WatcherInvariance, PTL

\* A watcher that is quiet and has missed nothing runs with the file as it is.
THEOREM QuietIsCurrentHolds == WatcherSpec => []QuietIsCurrent
<1>1. WatcherIInv => QuietIsCurrent
  BY DEF WatcherIInv, WatcherTypeOK, NoOtherLoss, LastGoodIsActive,
        QuietIsCurrent
<1>2. QED BY <1>1, WatcherInvariance, PTL
==============================================================================
