------------------------------- MODULE Inputs -------------------------------
(***************************************************************************)
(* The inputs of a reactor: how the YAML of the config becomes InputValues *)
(* (UnmarshalYAML) and how ResolveInputs turns them, for one event, into   *)
(* what the provider is given.  An input may name several sources at once. *)
(* The inputs are a Go map: they are resolved in an order that differs     *)
(* from event to event.  What a file, a CEL expression or a template holds *)
(* is left out: it works for this event or it does not.                    *)
(***************************************************************************)
EXTENDS Sequences, Naturals

CONSTANTS
  Keys,         \* the names of the inputs
  Nodes         \* the YAML nodes an input can have, a subset of YamlNodes

VARIABLES
  yaml,         \* the node of each input
  iv,           \* its InputValue, once the config is loaded
  pending,      \* the keys that the loop of ResolveInputs has yet to visit
  resolved,     \* its map
  outcome       \* what ResolveInputs returned: "none" until it does

vars == <<yaml, iv, pending, resolved, outcome>>

Texts == {"fromFile", "fromEnv", "expr", "template"}
SpecialKeys == Texts \cup {"valueFrom", "payloadValue"}
Scalars == {"string", "int", "bool"}

\* A node: its kind, and what a mapping holds at each special key: nothing, a null,
\* something of another type than the key's, or what fits it.  A text is empty, or it
\* works, or it does not: the file cannot be read, the variable is not in the
\* environment, the expression or the template fails.
YamlNodes ==
  [kind : Scalars \cup {"null", "list", "map"},
   holds : [SpecialKeys -> {"absent", "null", "misfit", "fits"}],
   secretKeyRef : BOOLEAN, propertyPaths : Seq({"works", "fails"}),
   text : [Texts -> {"empty", "works", "fails"}]]

ASSUME InputsAssumption == Nodes \subseteq YamlNodes

\* value: the type a static value has; a complex one has no value of its own.
InputValues ==
  [value : Scalars \cup {"nil", "list", "map", "complex"}, keys : SUBSET SpecialKeys,
   secretKeyRef : BOOLEAN, propertyPaths : Seq({"works", "fails"}),
   text : [Texts -> {"empty", "works", "fails"}]]

Static(type) ==
  [value |-> type, keys |-> {}, secretKeyRef |-> FALSE, propertyPaths |-> << >>,
   text |-> [t \in Texts |-> "empty"]]

Init ==
  /\ yaml \in [Keys -> Nodes]
  /\ iv = [k \in Keys |-> Static("nil")]
  /\ pending = {} /\ resolved = << >> /\ outcome = "none"

-----------------------------------------------------------------------------
(* Loading the config.                                                     *)

\* The special keys that decode, to something that is not nil.
Fitting(node) == {key \in SpecialKeys : node.holds[key] = "fits"}

\* A special key of another type: decoding the mapping as a complex input fails.
Misfit(node) == \E key \in SpecialKeys : node.holds[key] = "misfit"

Complex(node) ==
  [value |-> "complex", keys |-> Fitting(node), secretKeyRef |-> node.secretKeyRef,
   propertyPaths |-> node.propertyPaths, text |-> node.text]

\* Every scalar decodes into a string; yaml.v3 does not call UnmarshalYAML for a null.
Plain(node) ==
  Static(IF node.kind \in Scalars THEN "string"
         ELSE IF node.kind = "null" THEN "nil" ELSE node.kind)

\* Fault: the error of decoding is overlooked, and the keys that decode count.
UnmarshalPartly(node) ==
  IF node.kind = "map" /\ Fitting(node) # {}
  THEN Complex(node)
  ELSE Plain(node)

\* A mapping that decodes, with one special key at least that is not null, is complex;
\* any other is kept as the map it is.
UnmarshalYAML(node) ==
  IF node.kind = "map" /\ Fitting(node) # {} /\ ~Misfit(node)
  THEN Complex(node)
  ELSE Plain(node)

Load ==
  /\ outcome = "none" /\ pending = {}
  /\ iv' = [k \in Keys |-> UnmarshalYAML(yaml[k])]
  /\ pending' = Keys
  /\ outcome' = "loaded"
  /\ UNCHANGED <<yaml, resolved>>

-----------------------------------------------------------------------------
(* Resolving.                                                              *)

\* The accessors of InputValue: "empty" stands for Go's "".
Text(v, key) == IF key \in v.keys THEN v.text[key] ELSE "empty"
SecretRef(v) == "valueFrom" \in v.keys /\ v.secretKeyRef
PayloadPaths(v) == IF "payloadValue" \in v.keys THEN v.propertyPaths ELSE << >>

\* The first path that evaluates.
evalPaths(paths) ==
  IF paths[1] = "works" THEN "path1"
  ELSE IF \E i \in DOMAIN paths : paths[i] = "works" THEN "path2" ELSE "error"

\* A variable that is not in the environment is the empty string.
evalText(key, text) ==
  IF text = "works" THEN key ELSE IF key = "fromEnv" THEN "emptyString" ELSE "error"

evalStatic(v) == IF v.value = "complex" THEN "nil" ELSE v.value

\* Fault: the order that the comment at InputValue gives.
resolveTemplateFirst(v) ==
  IF SecretRef(v) THEN "error"
  ELSE IF PayloadPaths(v) # << >> THEN evalPaths(PayloadPaths(v))
  ELSE IF Text(v, "fromFile") # "empty" THEN evalText("fromFile", Text(v, "fromFile"))
  ELSE IF Text(v, "fromEnv") # "empty" THEN evalText("fromEnv", Text(v, "fromEnv"))
  ELSE IF Text(v, "template") # "empty" THEN evalText("template", Text(v, "template"))
  ELSE IF Text(v, "expr") # "empty" THEN evalText("expr", Text(v, "expr"))
  ELSE evalStatic(v)

resolveInput(v) ==
  IF SecretRef(v) THEN "error"
  ELSE IF PayloadPaths(v) # << >> THEN evalPaths(PayloadPaths(v))
  ELSE IF Text(v, "fromFile") # "empty" THEN evalText("fromFile", Text(v, "fromFile"))
  ELSE IF Text(v, "fromEnv") # "empty" THEN evalText("fromEnv", Text(v, "fromEnv"))
  ELSE IF Text(v, "expr") # "empty" THEN evalText("expr", Text(v, "expr"))
  ELSE IF Text(v, "template") # "empty" THEN evalText("template", Text(v, "template"))
  ELSE evalStatic(v)

\* The map with one more input.
With(k, value) ==
  [x \in DOMAIN resolved \cup {k} |-> IF x = k THEN value ELSE resolved[x]]

\* Fault: an input that fails is left out.
ResolveOthers(k) ==
  /\ outcome = "loaded" /\ k \in pending
  /\ pending' = pending \ {k}
  /\ resolved' = IF resolveInput(iv[k]) = "error" THEN resolved
                 ELSE With(k, resolveInput(iv[k]))
  /\ UNCHANGED <<yaml, iv, outcome>>

\* One turn of the loop.  The first error ends it.
Resolve(k) ==
  /\ outcome = "loaded" /\ k \in pending
  /\ IF resolveInput(iv[k]) = "error"
     THEN outcome' = "error" /\ UNCHANGED <<pending, resolved>>
     ELSE /\ pending' = pending \ {k}
          /\ resolved' = With(k, resolveInput(iv[k]))
          /\ UNCHANGED outcome
  /\ UNCHANGED <<yaml, iv>>

Return ==
  /\ outcome = "loaded" /\ pending = {}
  /\ outcome' = "resolved"
  /\ UNCHANGED <<yaml, iv, pending, resolved>>

Next == Load \/ (\E k \in Keys : Resolve(k)) \/ Return

Spec == Init /\ [][Next]_vars

-----------------------------------------------------------------------------
(* Properties.                                                             *)

\* The variables have their types.
TypeOK ==
  /\ yaml \in [Keys -> Nodes] /\ iv \in [Keys -> InputValues]
  /\ pending \subseteq Keys /\ DOMAIN resolved \subseteq Keys
  /\ outcome \in {"none", "loaded", "resolved", "error"}

\* The sources in the order of docs/design/configuration.md, and whether a node
\* has something to say of one.
Rank == [valueFrom |-> 1, payloadValue |-> 2, fromFile |-> 3, fromEnv |-> 4, expr |-> 5,
         template |-> 6]

Given(node, key) ==
  /\ node.kind = "map" /\ node.holds[key] = "fits"
  /\ key = "valueFrom" => node.secretKeyRef
  /\ key = "payloadValue" => node.propertyPaths # << >>
  /\ key \in Texts => node.text[key] # "empty"

\* A source of the node that comes before all its others.
Wins(node, key) ==
  /\ Given(node, key)
  /\ \A other \in SpecialKeys : Given(node, other) => Rank[key] <= Rank[other]

\* A value can be the result of the source it is said to come from.
ComesFrom(key, value) ==
  /\ key # "valueFrom"
  /\ key = "payloadValue" => value \in {"path1", "path2"}
  /\ key = "fromEnv" => value \in {"fromEnv", "emptyString"}
  /\ key \in {"fromFile", "expr", "template"} => value = key

\* What an input resolved to comes from its first source by the documented
\* priority, and from no later one when that fails (reactor.go:117-163,
\* config.go:162-190, 203-257): for a secret there is no value at all.  Without a
\* source the value is static; and so it is when one special key is of another type,
\* for then the other sources count for nothing either, be it a secret.
ResolvedByPriority ==
  \A k \in DOMAIN resolved :
    IF yaml[k].kind = "map" /\ Misfit(yaml[k])
    THEN resolved[k] = "map"
    ELSE /\ \A key \in SpecialKeys : Wins(yaml[k], key) => ComesFrom(key, resolved[k])
         /\ \/ \E key \in SpecialKeys : Given(yaml[k], key)
            \/ resolved[k] \in {"nil", "string", "list", "map"}

\* Whether ResolveInputs fails does not depend on the order the map is walked in:
\* it fails when some input does, and else every input is in the map, so that a
\* provider never runs with an input missing.
AllOrNothing ==
  /\ outcome = "error" => \E k \in Keys : resolveInput(iv[k]) = "error"
  /\ outcome = "resolved" =>
       /\ DOMAIN resolved = Keys
       /\ \A k \in Keys : resolved[k] = resolveInput(iv[k])

\* The inductive invariant of the proofs (EventProofs): the map holds the values
\* of the inputs the loop has passed, made from the nodes of the config.
IInv ==
  /\ TypeOK
  /\ outcome = "none" => pending = {} /\ DOMAIN resolved = {}
  /\ outcome # "none" => iv = [k \in Keys |-> UnmarshalYAML(yaml[k])]
  /\ outcome \in {"loaded", "resolved"} => DOMAIN resolved = Keys \ pending
  /\ outcome = "resolved" => pending = {}
  /\ outcome = "error" => \E k \in Keys : resolveInput(iv[k]) = "error"
  /\ \A k \in DOMAIN resolved :
       resolved[k] = resolveInput(iv[k]) /\ resolved[k] # "error"
=============================================================================
