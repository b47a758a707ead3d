----------------------------- MODULE RateLimiter -----------------------------
(***************************************************************************)
(* The token bucket of pkg/ratelimit.  Allow reads the clock, refills the  *)
(* bucket and takes a token, all under its mutex: one action.  Tokens are  *)
(* counted in fractions, Unit of them to a token, where the code has a     *)
(* float64; Rate of them accrue with every tick of the clock.              *)
(*                                                                         *)
(* The window is an observer: it opens at any moment, and counts what is   *)
(* admitted and what accrues until it closes.                              *)
(***************************************************************************)
EXTENDS Integers

CONSTANTS
  Unit,        \* the fractions of one token
  Rate,        \* the fractions that accrue in a tick: rate
  Burst,       \* the size of the bucket in tokens: burst
  MaxWindow    \* bound: the window closes before more than this accrues in it

ASSUME LimiterAssumption ==
  /\ Unit \in Nat \ {0}
  /\ Rate \in Nat
  /\ Burst \in Nat
  /\ MaxWindow \in Nat

VARIABLES
  tokens,     \* l.tokens, in fractions
  accrued,    \* elapsed * l.rate: what has accrued since l.lastTime
  decision,   \* what the last Allow returned: "none", "allowed" or "denied"
  open,       \* whether the window is open
  admitted,   \* the tokens taken in the window
  earned      \* what has accrued in the window

limiterVars == <<tokens, accrued, decision, open, admitted, earned>>

Full == Burst * Unit

\* What the next Allow finds in the bucket.
Level(t) == IF t > Full THEN Full ELSE t

LimiterInit ==
  /\ tokens = Full
  /\ accrued = 0
  /\ decision = "none"
  /\ open = FALSE
  /\ admitted = 0
  /\ earned = 0

\* Time passes.  More than a full bucket need not be told apart.
LimiterTick ==
  /\ accrued' = IF accrued >= Full THEN accrued ELSE accrued + Rate
  /\ IF open /\ earned + Rate <= MaxWindow
     THEN earned' = earned + Rate /\ UNCHANGED <<open, admitted>>
     ELSE open' = FALSE /\ admitted' = 0 /\ earned' = 0
  /\ UNCHANGED <<tokens, decision>>

\* Fault: the refill is not capped at the size of the bucket.
AllowUncapped ==
  LET level == tokens + accrued
  IN  /\ accrued' = 0
      /\ IF level < Unit
         THEN tokens' = level /\ decision' = "denied" /\ UNCHANGED admitted
         ELSE /\ tokens' = level - Unit
              /\ decision' = "allowed"
              /\ admitted' = IF open THEN admitted + 1 ELSE admitted
      /\ UNCHANGED <<open, earned>>

\* Fault: whole tokens only are kept when the event is denied.
AllowTruncates ==
  LET level == Level(tokens + accrued)
  IN  /\ accrued' = 0
      /\ IF level < Unit
         THEN tokens' = 0 /\ decision' = "denied" /\ UNCHANGED admitted
         ELSE /\ tokens' = level - Unit
              /\ decision' = "allowed"
              /\ admitted' = IF open THEN admitted + 1 ELSE admitted
      /\ UNCHANGED <<open, earned>>

LimiterAllow ==
  LET level == Level(tokens + accrued)
  IN  /\ accrued' = 0
      /\ IF level < Unit
         THEN tokens' = level /\ decision' = "denied" /\ UNCHANGED admitted
         ELSE /\ tokens' = level - Unit
              /\ decision' = "allowed"
              /\ admitted' = IF open THEN admitted + 1 ELSE admitted
      /\ UNCHANGED <<open, earned>>

OpenWindow ==
  /\ ~ open
  /\ open' = TRUE
  /\ UNCHANGED <<tokens, accrued, decision, admitted, earned>>

LimiterNext == LimiterTick \/ LimiterAllow \/ OpenWindow

\* Time passes, and somebody goes on asking.
LimiterSpec ==
  /\ LimiterInit /\ [][LimiterNext]_limiterVars
  /\ WF_limiterVars(LimiterTick) /\ WF_limiterVars(LimiterAllow)

-----------------------------------------------------------------------------
\* The variables have their types.
LimiterTypeOK ==
  /\ tokens \in 0..Full
  /\ accrued \in Nat
  /\ decision \in {"none", "allowed", "denied"}
  /\ open \in BOOLEAN
  /\ admitted \in Nat
  /\ earned \in Nat
  /\ ~ open => admitted = 0 /\ earned = 0

\* In no window of time are more events admitted than a full bucket and what
\* accrues in that time pay for, wherever the window begins.
WindowBound == admitted * Unit <= Full + earned

\* Asking too often does not cost the caller what has accrued: whoever asks
\* again and again is admitted again and again.
PollersGetThrough == []<>(decision = "allowed")

\* The inductive form of WindowBound: what is left in the bucket counts too.
Potential == admitted * Unit + Level(tokens + accrued) <= Full + earned

\* All of it: what the bucket of Allow holds and may yet collect is bounded along
\* with what it has given away (ratelimit.go:29-47).
LimiterIInv == LimiterTypeOK /\ Potential
=============================================================================
