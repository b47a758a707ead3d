------------------------------- MODULE FanOut -------------------------------
(***************************************************************************)
(* What Adapter.HandleEvent promises its caller, with no goroutine, lock   *)
(* or wait group in sight: an event is due at a set of reactors, each of   *)
(* them reports exactly one result, in any order, and the call returns     *)
(* when, and only when, the last one has reported.  If the process dies    *)
(* the calls in progress are forgotten.                                    *)
(***************************************************************************)
EXTENDS Naturals, Sequences

CONSTANTS Calls,     \* the slots in which HandleEvent may be running
          Reactors,  \* the configured reactors
          Outcomes   \* what the error field of a result may say

VARIABLES phase,     \* "idle", "running" or "returned"
          due,       \* the reactors the event of the call must reach
          results    \* the results collected so far

vars == <<phase, due, results>>

Reported(c) == {results[c][k].reactor : k \in DOMAIN results[c]}

Init ==
  /\ phase = [c \in Calls |-> "idle"]
  /\ due = [c \in Calls |-> {}]
  /\ results = [c \in Calls |-> <<>>]

Begin(c) ==
  /\ phase[c] # "running"
  /\ phase' = [phase EXCEPT ![c] = "running"]
  /\ \E D \in SUBSET Reactors : due' = [due EXCEPT ![c] = D]
  /\ results' = [results EXCEPT ![c] = <<>>]

Report(c, r) ==
  /\ phase[c] = "running"
  /\ r \in due[c] \ Reported(c)
  /\ \E e \in Outcomes :
       results' = [results EXCEPT ![c] = Append(@, [reactor |-> r, error |-> e])]
  /\ UNCHANGED <<phase, due>>

Return(c) ==
  /\ phase[c] = "running"
  /\ due[c] = Reported(c)
  /\ phase' = [phase EXCEPT ![c] = "returned"]
  /\ UNCHANGED <<due, results>>

Crash ==
  /\ phase' = [c \in Calls |-> "idle"]
  /\ due' = [c \in Calls |-> {}]
  /\ results' = [c \in Calls |-> <<>>]

Next ==
  \/ \E c \in Calls :
       \/ Begin(c)
       \/ \E r \in Reactors : Report(c, r)
       \/ Return(c)
  \/ Crash

Spec == Init /\ [][Next]_vars
=============================================================================
