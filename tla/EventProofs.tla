----------------------------- MODULE EventProofs -----------------------------
(***************************************************************************)
(* Proofs about what one event goes through: how it is made of what comes  *)
(* in by each route (Ingest), and what the inputs of a reactor become for  *)
(* it (Inputs), for every kind of data, every set of keys and of YAML      *)
(* nodes.                                                                  *)
(***************************************************************************)
EXTENDS Ingest, Inputs, TLAPS

-----------------------------------------------------------------------------
(* Ingest.                                                                 *)

LEMMA IngestInitIInv == IngestInit => IngestIInv
BY DEF IngestInit, IngestIInv

\* What the routes make of a message does not change while it is on its way.
LEMMA SentStays == ASSUME sent' = sent PROVE Outcomes' = Outcomes
<1>1. /\ Present' = Present /\ ceAttributes' = ceAttributes
      /\ \A a \in Context : Value(a)' = Value(a)
  BY DEF Present, ceAttributes, Value
<1>2. XEventType' = XEventType /\ XGitHubEvent' = XGitHubEvent
  BY DEF XEventType, XGitHubEvent, Value
<1>3. FromPubSubMessage' = FromPubSubMessage /\ FromPubSubPush' = FromPubSubPush
  BY <1>1
     DEF FromPubSubMessage, FromPubSubPush, FromPubSub, applyCloudEventAttributes, Value
<1>4. Pushed' = Pushed /\ Generic' = Generic
  BY <1>3 DEF Pushed, Generic
<1>5. Binary' = Binary
  BY DEF Binary, BinaryTyped, BinaryUntyped, Value
<1>6. Structured' = Structured
  BY DEF Structured, Present, Value
<1>7. Webhook' = Webhook
  BY <1>2 DEF Webhook, WebhookEvent
<1>8. QED BY <1>3, <1>4, <1>5, <1>6, <1>7 DEF Outcomes

\* An event arrives by one route and leaves the others alone.
LEMMA ArriveKeeps ==
  ASSUME IngestIInv, NEW r \in Routes, NEW ev \in Outcomes[r], Arrive(r, ev)
  PROVE  IngestIInv'
<1>1. /\ sent' = sent /\ arrived' = arrived \cup {r}
      /\ event' = [event EXCEPT ![r] = ev]
  BY DEF Arrive
<1>2. Outcomes' = Outcomes
  BY <1>1, SentStays
<1>3. QED BY <1>1, <1>2 DEF IngestIInv

LEMMA IngestIInvStep == IngestIInv /\ [IngestNext]_ingestVars => IngestIInv'
<1> SUFFICES ASSUME IngestIInv, [IngestNext]_ingestVars PROVE IngestIInv'
  OBVIOUS
<1>1. /\ Pushed \in Outcomes["push"] /\ FromPubSubMessage \in Outcomes["pull"]
      /\ Binary \in Outcomes["binary"] /\ Structured \in Outcomes["structured"]
      /\ Generic \in Outcomes["bare"]
      /\ Webhook \in Outcomes["webhook"] /\ Failed \in Outcomes["webhook"]
  BY DEF Outcomes
<1>2. CASE IngestNext
  BY <1>1, <1>2, ArriveKeeps
     DEF IngestNext, Pull, Push, Bare, PostBinary, PostStructured, PostWebhook, Routes
<1>3. CASE UNCHANGED ingestVars
  <2>1. sent' = sent /\ arrived' = arrived /\ event' = event
    BY <1>3 DEF ingestVars
  <2>2. Outcomes' = Outcomes
    BY <2>1, SentStays
  <2>3. QED BY <2>1, <2>2 DEF IngestIInv
<1>4. QED BY <1>2, <1>3

\* An event is what its own route makes of what was sent, in every reachable state.
THEOREM IngestInvariance == IngestSpec => []IngestIInv
<1>1. QED BY IngestInitIInv, IngestIInvStep, PTL DEF IngestSpec

\* A message that is pushed and pulled makes one and the same event.
THEOREM PushPullAgreeHolds == IngestSpec => []PushPullAgree
<1>1. IngestIInv => PushPullAgree
  <2> SUFFICES ASSUME IngestIInv, "push" \in arrived, "pull" \in arrived,
                      sent.body \notin {"empty", "base64null"}
               PROVE  event["push"] = event["pull"]
    BY DEF PushPullAgree
  <2>1. event["push"] = Pushed /\ event["pull"] = FromPubSubMessage
    BY DEF IngestIInv, Outcomes
  <2>2. decodeData(sent.body) = decodeStringData(sent.body)
    BY DEF decodeData, decodeStringData
  <2>3. QED BY <2>1, <2>2 DEF Pushed, FromPubSubMessage, FromPubSubPush
<1>2. QED BY <1>1, IngestInvariance, PTL

\* A complete event is the same by every route that carries its context.
THEOREM RoutesAgreeHolds == IngestSpec => []RoutesAgree
<1> DEFINE Whole == /\ \A a \in Context : sent.attrs[a] = "own"
                    /\ sent.body \in {"object", "attributed"}
           AsSent(ev) == /\ ev.id = "own" /\ ev.source = "own" /\ ev.type = "own"
                         /\ ev.payload = sent.body /\ ev.err = FALSE
<1>1. ASSUME Whole PROVE \A a \in Context : Value(a) = "own" /\ a \in Present
  BY <1>1 DEF Value, Present
<1>2. ASSUME Whole
      PROVE  AsSent(Pushed) /\ AsSent(FromPubSubMessage)
  BY <1>1, <1>2
     DEF Pushed, FromPubSubMessage, FromPubSubPush, FromPubSub, decodeData,
         decodeStringData, Unmarshal, applyCloudEventAttributes, NoEvent, Or, Context
<1>3. ASSUME Whole
      PROVE  AsSent(Binary) /\ AsSent(Structured)
  BY <1>1, <1>3 DEF Binary, BinaryTyped, Structured, Unmarshal, Or, Context
<1>4. IngestIInv => RoutesAgree
  <2> SUFFICES ASSUME IngestIInv, Whole,
                      NEW r \in arrived \cap {"push", "pull", "binary", "structured"},
                      NEW q \in arrived \cap {"push", "pull", "binary", "structured"}
               PROVE  \A f \in {"id", "source", "type", "payload", "err"} :
                        event[r][f] = event[q][f]
    BY DEF RoutesAgree
  <2>1. {event[r], event[q]} \subseteq {Pushed, FromPubSubMessage, Binary, Structured}
    BY DEF IngestIInv, Outcomes
  <2>2. AsSent(event[r]) /\ AsSent(event[q])
    BY <1>2, <1>3, <2>1
  <2>3. QED BY <2>2
<1>5. QED BY <1>4, IngestInvariance, PTL

\* Attributes that are made of the context say what its values do.
LEMMA ContextSays ==
  ASSUME NEW names, NEW f \in names
  PROVE  LET attributes == {<<a, Value(a)>> : a \in names}
         IN /\ \A p \in attributes : p[1] = f => p[2] = Value(f)
            /\ \E p \in attributes : p[1] = f
<1> DEFINE attributes == {<<a, Value(a)>> : a \in names}
<1>1. \A p \in attributes : p[2] = Value(p[1])
  OBVIOUS
<1>2. <<f, Value(f)>> \in attributes /\ <<f, Value(f)>>[1] = f
  OBVIOUS
<1> HIDE DEF attributes
<1>3. (\A p \in attributes : p[1] = f => p[2] = Value(f)) /\ \E p \in attributes : p[1] = f
  BY <1>1, <1>2
<1>4. QED BY <1>3 DEF attributes

\* Over HTTP the attributes say what the fields of the event do.
THEOREM AttributesMatchFieldsHolds == IngestSpec => []AttributesMatchFields
<1> DEFINE Says(ev, f, field) ==
             /\ \A p \in ev.attributes : p[1] = f => p[2] = field
             /\ field # "none" => \E p \in ev.attributes : p[1] = f
           Matches(ev) == Says(ev, "source", ev.source) /\ Says(ev, "type", ev.type)
<1>1. Matches(Failed)
  BY DEF Failed, NoEvent
<1>2. Matches(BinaryTyped)
  <2>1. CASE Unmarshal(sent.body) = "error"
    BY <1>1, <2>1 DEF BinaryTyped
  <2>2. CASE Unmarshal(sent.body) # "error"
    <3>1. /\ BinaryTyped.source = Value("source") /\ BinaryTyped.type = Value("type")
          /\ BinaryTyped.attributes = {<<a, Value(a)>> : a \in Context \ {"id"}}
      BY <2>2 DEF BinaryTyped
    <3>2. {"source", "type"} \subseteq Context \ {"id"}
      BY DEF Context
    <3>3. Says(BinaryTyped, "source", Value("source"))
      BY <3>1, <3>2, ContextSays
    <3>4. Says(BinaryTyped, "type", Value("type"))
      BY <3>1, <3>2, ContextSays
    <3>5. QED BY <3>1, <3>3, <3>4
  <2>3. QED BY <2>1, <2>2
<1>3. Matches(BinaryUntyped)
  <2>1. CASE Unmarshal(sent.body) = "error"
    BY <1>1, <2>1 DEF BinaryUntyped
  <2>2. CASE Unmarshal(sent.body) # "error"
    <3>1. /\ BinaryUntyped.source = "none" /\ BinaryUntyped.type = "none"
          /\ BinaryUntyped.attributes = {}
      BY <2>2 DEF BinaryUntyped, NoEvent
    <3>2. QED BY <3>1
  <2>3. QED BY <2>1, <2>2
<1>4. Matches(Structured)
  <2>1. /\ Structured.source = Value("source") /\ Structured.type = Value("type")
        /\ Structured.attributes = {<<a, Value(a)>> : a \in Present \ {"id"}}
    BY DEF Structured
  <2>2. ASSUME NEW f \in {"source", "type"} PROVE Says(Structured, f, Value(f))
    <3>1. CASE f \in Present \ {"id"}
      BY <2>1, <3>1, ContextSays
    <3>2. CASE f \notin Present \ {"id"}
      <4>1. Value(f) = "none"
        BY <3>2 DEF Value, Present, Context
      <4>2. \A p \in Structured.attributes : p[1] \in Present \ {"id"}
        BY <2>1
      <4>3. QED BY <3>2, <4>1, <4>2
    <3>3. QED BY <3>1, <3>2
  <2>3. QED BY <2>1, <2>2
<1>5. Matches(Webhook)
  <2> DEFINE kind == Or(XEventType, XGitHubEvent)
  <2>1. CASE Unmarshal(sent.body) = "error"
    BY <1>1, <2>1 DEF Webhook, WebhookEvent
  <2>2. CASE Unmarshal(sent.body) # "error"
    <3>1. /\ Webhook.source = "hook" /\ Webhook.type = kind
          /\ Webhook.attributes = {<<"source", "hook">>, <<"content-type", "json">>}
                                   \cup {<<"type", t>> : t \in {kind} \ {"none"}}
      BY <2>2 DEF Webhook, WebhookEvent
    <3> HIDE DEF kind
    <3>2. <<"source", "hook">> \in Webhook.attributes
      BY <3>1
    <3>3. kind # "none" => <<"type", kind>> \in Webhook.attributes
      BY <3>1
    <3>4. \A p \in Webhook.attributes :
             (p[1] = "source" => p[2] = "hook") /\ (p[1] = "type" => p[2] = kind)
      BY <3>1
    <3>5. <<"source", "hook">>[1] = "source" /\ <<"type", kind>>[1] = "type"
      OBVIOUS
    <3>6. Says(Webhook, "source", "hook")
      BY <3>2, <3>4, <3>5
    <3>7. Says(Webhook, "type", kind)
      BY <3>3, <3>4, <3>5
    <3>8. QED BY <3>1, <3>6, <3>7
  <2>3. QED BY <2>1, <2>2
<1>6. IngestIInv => AttributesMatchFields
  <2> SUFFICES ASSUME IngestIInv, NEW r \in arrived \cap {"binary", "structured", "webhook"}
               PROVE  \A f \in {"source", "type"} : Says(event[r], f, event[r][f])
    BY DEF AttributesMatchFields
  <2>1. event[r] \in {BinaryTyped, BinaryUntyped, Structured, Webhook, Failed}
    BY DEF IngestIInv, Outcomes, Binary
  <2>2. Matches(event[r])
    BY <1>1, <1>2, <1>3, <1>4, <1>5, <2>1
  <2>3. QED BY <2>2
<1>7. QED BY <1>6, IngestInvariance, PTL

-----------------------------------------------------------------------------
(* Inputs: what UnmarshalYAML makes of one node, and which source          *)
(* resolveInput takes; then the loop over the map.                         *)

\* UnmarshalYAML makes an InputValue of every node.
LEMMA UnmarshalType ==
  ASSUME NEW node \in YamlNodes PROVE UnmarshalYAML(node) \in InputValues
  <1>1. ASSUME NEW type \in Scalars \cup {"nil", "list", "map"}
        PROVE Static(type) \in InputValues
    BY DEF Static, InputValues, Scalars
  <1>2. Complex(node) \in InputValues
    BY DEF Complex, Fitting, YamlNodes, InputValues
  <1>3. Plain(node) \in InputValues
    <2> DEFINE type == IF node.kind \in Scalars THEN "string"
                       ELSE IF node.kind = "null" THEN "nil" ELSE node.kind
    <2>1. type \in Scalars \cup {"nil", "list", "map"}
      BY DEF YamlNodes, Scalars
    <2>2. Plain(node) = Static(type)
      BY Zenon DEF Plain
    <2> QED
      BY <1>1, <2>1, <2>2
  <1> QED
    BY <1>2, <1>3 DEF UnmarshalYAML

\* The sources an InputValue has are those its node gives it.
LEMMA SourcesKept ==
  ASSUME NEW node \in YamlNodes, node.kind = "map", Fitting(node) # {}, ~Misfit(node)
  PROVE  LET v == UnmarshalYAML(node)
         IN /\ SecretRef(v) <=> Given(node, "valueFrom")
            /\ PayloadPaths(v) # << >> <=> Given(node, "payloadValue")
            /\ \A key \in Texts : Text(v, key) # "empty" <=> Given(node, key)
  <1> DEFINE v == UnmarshalYAML(node)
  <1>1. /\ v.keys = Fitting(node) /\ v.secretKeyRef = node.secretKeyRef
        /\ v.propertyPaths = node.propertyPaths /\ v.text = node.text
    BY DEF UnmarshalYAML, Complex
  <1> HIDE DEF v
  <1>2. SecretRef(v) <=> Given(node, "valueFrom")
    BY <1>1 DEF SecretRef, Given, Texts, Fitting, SpecialKeys
  <1>3. PayloadPaths(v) # << >> <=> Given(node, "payloadValue")
    BY <1>1 DEF PayloadPaths, Given, Texts, Fitting, SpecialKeys
  <1>4. ASSUME NEW key \in Texts PROVE Text(v, key) # "empty" <=> Given(node, key)
    BY <1>1 DEF Text, Given, Texts, Fitting, SpecialKeys
  <1> QED
    BY <1>2, <1>3, <1>4 DEF v

\* resolveInput takes the first source of a node by the documented priority: its
\* value comes from that source or there is none (reactor.go:117-163).
LEMMA TakesFirst ==
  ASSUME NEW node \in YamlNodes, NEW key \in SpecialKeys, Wins(node, key),
         ~Misfit(node), resolveInput(UnmarshalYAML(node)) # "error"
  PROVE  ComesFrom(key, resolveInput(UnmarshalYAML(node)))
  <1> DEFINE v == UnmarshalYAML(node)
  <1>1. node.kind = "map" /\ Fitting(node) # {} /\ Given(node, key)
    BY DEF Wins, Given, Fitting
  <1>2. /\ SecretRef(v) <=> Given(node, "valueFrom")
        /\ PayloadPaths(v) # << >> <=> Given(node, "payloadValue")
        /\ \A text \in Texts : Text(v, text) # "empty" <=> Given(node, text)
    BY <1>1, SourcesKept
  <1>4. resolveInput(v) # "error"
    OBVIOUS
  <1> SUFFICES ComesFrom(key, resolveInput(v))
    OBVIOUS
  <1> HIDE DEF v
  <1>3. \A other \in SpecialKeys : Given(node, other) => Rank[key] <= Rank[other]
    BY DEF Wins
  <1>5. CASE key = "valueFrom"
    BY <1>1, <1>2, <1>4, <1>5 DEF resolveInput
  <1>6. CASE key = "payloadValue"
    BY <1>1, <1>2, <1>4, <1>6 DEF resolveInput, evalPaths, ComesFrom
  <1>7. CASE key = "fromFile"
    <2>1. ~Given(node, "valueFrom") /\ ~Given(node, "payloadValue")
      BY <1>3, <1>7 DEF Rank, SpecialKeys
    <2> QED
      BY <1>1, <1>2, <1>4, <1>7, <2>1 DEF resolveInput, evalText, ComesFrom, Texts
  <1>8. CASE key = "fromEnv"
    <2>1. /\ ~Given(node, "valueFrom") /\ ~Given(node, "payloadValue")
          /\ ~Given(node, "fromFile")
      BY <1>3, <1>8 DEF Rank, SpecialKeys, Texts
    <2> QED
      BY <1>1, <1>2, <1>4, <1>8, <2>1 DEF resolveInput, evalText, ComesFrom, Texts
  <1>9. CASE key = "expr"
    <2>1. /\ ~Given(node, "valueFrom") /\ ~Given(node, "payloadValue")
          /\ ~Given(node, "fromFile") /\ ~Given(node, "fromEnv")
      BY <1>3, <1>9 DEF Rank, SpecialKeys, Texts
    <2> QED
      BY <1>1, <1>2, <1>4, <1>9, <2>1 DEF resolveInput, evalText, ComesFrom, Texts
  <1>10. CASE key = "template"
    <2>1. /\ ~Given(node, "valueFrom") /\ ~Given(node, "payloadValue")
          /\ ~Given(node, "fromFile") /\ ~Given(node, "fromEnv") /\ ~Given(node, "expr")
      BY <1>3, <1>10 DEF Rank, SpecialKeys, Texts
    <2> QED
      BY <1>1, <1>2, <1>4, <1>10, <2>1 DEF resolveInput, evalText, ComesFrom, Texts
  <1> QED
    BY <1>5, <1>6, <1>7, <1>8, <1>9, <1>10 DEF SpecialKeys, Texts

\* A static value is what it is resolved to.
LEMMA StaticStays ==
  ASSUME NEW type, type # "complex"
  PROVE  resolveInput(Static(type)) = type
  <1> DEFINE v == Static(type)
  <1>1. v.keys = {} /\ v.value = type
    BY DEF Static
  <1> HIDE DEF v
  <1>2. ~SecretRef(v) /\ PayloadPaths(v) = << >>
    BY <1>1 DEF SecretRef, PayloadPaths
  <1>3. \A key : Text(v, key) = "empty"
    BY <1>1 DEF Text
  <1>4. resolveInput(v) = type
    BY <1>1, <1>2, <1>3 DEF resolveInput, evalStatic
  <1> QED
    BY <1>4 DEF v

\* A node with a special key of another type resolves to the map it is, and one
\* without a source to a static value (config.go:172-189).
LEMMA WithoutSource ==
  ASSUME NEW node \in YamlNodes
  PROVE  LET value == resolveInput(UnmarshalYAML(node))
         IN /\ node.kind = "map" /\ Misfit(node) => value = "map"
            /\ (\A key \in SpecialKeys : ~Given(node, key))
                 => value \in {"nil", "string", "list", "map"}
  <1> DEFINE type == IF node.kind \in Scalars THEN "string"
                     ELSE IF node.kind = "null" THEN "nil" ELSE node.kind
             value == resolveInput(UnmarshalYAML(node))
  <1>1. type \in {"nil", "string", "list", "map"} /\ (node.kind = "map" => type = "map")
    BY DEF YamlNodes, Scalars
  <1>2. Plain(node) = Static(type)
    BY Zenon DEF Plain
  <1> HIDE DEF type
  <1>3. resolveInput(Plain(node)) = type
    BY <1>1, <1>2, StaticStays
  <1>4. node.kind = "map" /\ Misfit(node) => value = "map"
    BY <1>1, <1>3 DEF UnmarshalYAML
  <1>5. ASSUME \A key \in SpecialKeys : ~Given(node, key)
        PROVE  value \in {"nil", "string", "list", "map"}
    <2>1. CASE node.kind = "map" /\ Fitting(node) # {} /\ ~Misfit(node)
      <3> DEFINE v == UnmarshalYAML(node)
      <3>1. /\ ~SecretRef(v) /\ PayloadPaths(v) = << >>
            /\ \A key \in Texts : Text(v, key) = "empty"
        BY <1>5, <2>1, SourcesKept DEF SpecialKeys
      <3>2. v.value = "complex"
        BY <2>1 DEF UnmarshalYAML, Complex
      <3> HIDE DEF v
      <3>3. resolveInput(v) = "nil"
        BY <3>1, <3>2 DEF resolveInput, evalStatic, Texts
      <3> QED
        BY <3>3 DEF v
    <2>2. CASE ~(node.kind = "map" /\ Fitting(node) # {} /\ ~Misfit(node))
      BY <1>1, <1>3, <2>2 DEF UnmarshalYAML
    <2> QED
      BY <2>1, <2>2
  <1> QED
    BY <1>4, <1>5

LEMMA InputsInitIInv == Init => IInv
  <1> SUFFICES ASSUME Init PROVE IInv
    OBVIOUS
  <1>1. Static("nil") \in InputValues
    BY DEF Static, InputValues, Scalars
  <1>2. iv \in [Keys -> InputValues]
    BY <1>1 DEF Init
  <1>3. DOMAIN resolved = {}
    BY DEF Init
  <1> QED
    BY <1>2, <1>3 DEF Init, IInv, TypeOK

LEMMA InputsIInvStep == IInv /\ [Next]_vars => IInv'
  <1> SUFFICES ASSUME IInv, [Next]_vars PROVE IInv'
    OBVIOUS
  <1>1. CASE Load
    <2>1. \A k \in Keys : UnmarshalYAML(yaml[k]) \in InputValues
      BY UnmarshalType, InputsAssumption DEF IInv, TypeOK
    <2>2. iv' \in [Keys -> InputValues]
      BY <1>1, <2>1 DEF Load
    <2> QED
      BY <1>1, <2>2 DEF Load, IInv, TypeOK
  <1>2. ASSUME NEW k \in Keys, Resolve(k) PROVE IInv'
    <2>1. CASE resolveInput(iv[k]) = "error"
      BY <1>2, <2>1 DEF Resolve, IInv, TypeOK
    <2>2. CASE resolveInput(iv[k]) # "error"
      <3>1. /\ outcome = "loaded" /\ outcome' = outcome /\ k \in pending
            /\ pending' = pending \ {k} /\ iv' = iv /\ yaml' = yaml
            /\ resolved' = With(k, resolveInput(iv[k]))
        BY <1>2, <2>2 DEF Resolve
      <3>2. DOMAIN resolved' = DOMAIN resolved \cup {k}
        BY <3>1 DEF With
      <3>3. ASSUME NEW x \in DOMAIN resolved'
            PROVE resolved'[x] = resolveInput(iv[x]) /\ resolved'[x] # "error"
        BY <2>2, <3>1, <3>2, <3>3 DEF With, IInv
      <3> QED
        BY <3>1, <3>2, <3>3 DEF IInv, TypeOK
    <2> QED
      BY <2>1, <2>2
  <1>3. CASE Return
    BY <1>3 DEF Return, IInv, TypeOK
  <1>4. CASE UNCHANGED vars
    BY <1>4 DEF vars, IInv, TypeOK
  <1> QED
    BY <1>1, <1>2, <1>3, <1>4 DEF Next

\* The invariant holds in every reachable state.
THEOREM InputsInvariance == Spec => []IInv
  <1>1. QED
    BY InputsInitIInv, InputsIInvStep, PTL DEF Spec

\* What an input resolves to comes from its first source by the priority; without
\* one, or with a special key of another type, it is static.
THEOREM ResolvedByPriorityHolds == Spec => []ResolvedByPriority
  <1>1. IInv => ResolvedByPriority
    <2> SUFFICES ASSUME IInv, NEW k \in DOMAIN resolved
                 PROVE  IF yaml[k].kind = "map" /\ Misfit(yaml[k])
                        THEN resolved[k] = "map"
                        ELSE /\ \A key \in SpecialKeys :
                                  Wins(yaml[k], key) => ComesFrom(key, resolved[k])
                             /\ \/ \E key \in SpecialKeys : Given(yaml[k], key)
                                \/ resolved[k] \in {"nil", "string", "list", "map"}
      BY DEF ResolvedByPriority
    <2>1. outcome # "none" /\ k \in Keys /\ yaml[k] \in YamlNodes
      BY InputsAssumption DEF IInv, TypeOK
    <2>2. resolved[k] = resolveInput(UnmarshalYAML(yaml[k])) /\ resolved[k] # "error"
      BY <2>1 DEF IInv
    <2>3. ASSUME ~(yaml[k].kind = "map" /\ Misfit(yaml[k])), NEW key \in SpecialKeys,
                 Wins(yaml[k], key)
          PROVE  ComesFrom(key, resolved[k])
      <3>1. ~Misfit(yaml[k])
        BY <2>3 DEF Wins, Given
      <3> QED
        BY <2>1, <2>2, <2>3, <3>1, TakesFirst
    <2> QED
      BY <2>1, <2>2, <2>3, WithoutSource
  <1>2. QED
    BY <1>1, InputsInvariance, PTL

\* ResolveInputs fails if an input does, else every input is in its map.
THEOREM AllOrNothingHolds == Spec => []AllOrNothing
  <1>1. IInv => AllOrNothing
    BY DEF IInv, AllOrNothing
  <1>2. QED
    BY <1>1, InputsInvariance, PTL
=============================================================================
