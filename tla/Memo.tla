-------------------------------- MODULE Memo --------------------------------
(***************************************************************************)
(* What the matcher promises the goroutines that share it, with no lock,   *)
(* map or step of a lookup in sight: each of them is answered in one step, *)
(* with the program of the expression it asked for or with the error that  *)
(* this expression has, and no expression is forgotten once it is known.   *)
(***************************************************************************)
CONSTANTS
  Callers,   \* the goroutines that ask
  Exprs,     \* the expressions they may ask for
  Invalid,   \* those that do not compile
  None       \* no expression, no answer

VARIABLES
  known,     \* the expressions whose programs are at hand
  wanted,    \* of each caller: the expression it asked for last
  answer     \* of each caller: the program it was given, by its expression, or "error"

vars == <<known, wanted, answer>>

Init ==
  /\ known = {}
  /\ wanted = [p \in Callers |-> None]
  /\ answer = [p \in Callers |-> None]

\* A caller asks for one expression at a time.
Ask(p) ==
  /\ wanted[p] = None \/ answer[p] # None
  /\ \E e \in Exprs : wanted' = [wanted EXCEPT ![p] = e]
  /\ answer' = [answer EXCEPT ![p] = None]
  /\ UNCHANGED known

Answer(p) ==
  /\ wanted[p] # None /\ answer[p] = None
  /\ IF wanted[p] \in Invalid
     THEN answer' = [answer EXCEPT ![p] = "error"] /\ UNCHANGED known
     ELSE /\ answer' = [answer EXCEPT ![p] = wanted[p]]
          /\ known' = known \cup {wanted[p]}
  /\ UNCHANGED wanted

Next == \E p \in Callers : Ask(p) \/ Answer(p)

Spec == Init /\ [][Next]_vars
=============================================================================
