------------------------------ MODULE MCInputs ------------------------------
(***************************************************************************)
(* The nodes of Inputs that have two special keys at most, and two paths.  *)
(***************************************************************************)
EXTENDS Inputs, FiniteSets

None == [key \in SpecialKeys |-> "absent"]

\* One or two keys, of which one fits.
Holdings ==
  {[None EXCEPT ![key] = what] : key \in SpecialKeys, what \in {"null", "misfit", "fits"}}
  \cup {[None EXCEPT ![key] = "fits", ![other] = what] :
          key \in SpecialKeys, other \in SpecialKeys, what \in {"null", "misfit", "fits"}}

MCNodes ==
  {[kind |-> kind, holds |-> None, secretKeyRef |-> FALSE, propertyPaths |-> << >>,
    text |-> [t \in Texts |-> "empty"]] : kind \in Scalars \cup {"null", "list", "map"}}
  \cup { n \in [kind : {"map"}, holds : Holdings, secretKeyRef : BOOLEAN,
                propertyPaths : {<< >>, <<"fails">>, <<"works">>, <<"fails", "works">>},
                text : [Texts -> {"empty", "works", "fails"}]] :
           /\ n.holds["valueFrom"] # "fits" => ~n.secretKeyRef
           /\ n.holds["payloadValue"] # "fits" => n.propertyPaths = << >>
           /\ \A t \in Texts : n.holds[t] # "fits" => n.text[t] = "empty" }
=============================================================================
