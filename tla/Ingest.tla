------------------------------- MODULE Ingest -------------------------------
(***************************************************************************)
(* How one CloudEvent becomes a message.Event by each of the routes it can *)
(* take: as a Pub/Sub message that is pushed to /events or pulled by the   *)
(* listener, posted to /cloudevents in binary or structured mode, posted   *)
(* bare to /events, or posted to /webhook.  The reactors match on the      *)
(* event alone, so what differs here decides which reactors run.  A map of *)
(* strings is a set of pairs, Go's "" is "none", and the time of an event  *)
(* is left out.                                                            *)
(***************************************************************************)

EXTENDS Sequences

CONSTANT Bodies       \* the kinds of data producers send, of DataKinds

DataKinds == {"object", "attributed", "array", "text", "null", "empty", "base64null"}

ASSUME IngestAssumption == Bodies \subseteq DataKinds

VARIABLES
  sent,      \* external: what the producer has to say
  event,     \* by route: what the handler or the listener made of it
  arrived    \* the routes it has come by

ingestVars == <<sent, event, arrived>>

Context == {"id", "source", "type", "specversion"}
Routes == {"push", "pull", "binary", "structured", "bare", "webhook"}

\* The value of a context attribute: absent, there but empty, or the producer's.
\* github: a webhook's type comes in X-GitHub-Event.  data: what the service puts
\* in a push envelope when there is no data.
Messages == [attrs : [Context -> {"absent", "empty", "own"}], body : Bodies,
             github : BOOLEAN, data : {"absent", "emptyString"}]

\* Event: the text of a field is the producer's ("own") or says where it comes from.
NoEvent == [id |-> "none", source |-> "none", type |-> "none", attributes |-> {},
            payload |-> "nil", err |-> FALSE]

\* return Event{}, err
Failed == [NoEvent EXCEPT !.err = TRUE]

IngestInit ==
  /\ sent \in Messages
  /\ event = [r \in Routes |-> NoEvent]
  /\ arrived = {}

-----------------------------------------------------------------------------
(* What was sent, as each transport carries it.                            *)

Present == {a \in Context : sent.attrs[a] # "absent"}

\* A header, or a key of a map of strings: "" when there is none.
Value(a) == IF sent.attrs[a] = "own" THEN "own" ELSE "none"

CeKey == [id |-> "ce-id", source |-> "ce-source", type |-> "ce-type",
          specversion |-> "ce-specversion"]

ceAttributes == {<<CeKey[a], Value(a)>> : a \in Present}

\* json.Unmarshal of the bytes into a map[string]any: null is a nil map.
Unmarshal(body) ==
  IF body \in {"object", "attributed"} THEN body
  ELSE IF body = "null" THEN "nilMap" ELSE "error"

-----------------------------------------------------------------------------
(* pkg/message.                                                            *)

Or(new, old) == IF new # "none" THEN new ELSE old

\* Fault: the source of the event is not taken over.
applyWithoutSource(ev) ==
  [ev EXCEPT !.type = Or(Value("type"), @), !.id = Or(Value("id"), @)]

applyCloudEventAttributes(ev) ==
  [ev EXCEPT !.type = Or(Value("type"), @),
             !.source = Or(Value("source"), @),
             !.id = Or(Value("id"), @)]

decodeData(body) == IF body = "empty" THEN "emptyMap" ELSE Unmarshal(body)

\* Base64 of a JSON text is no JSON text, but for the three bytes whose base64
\* reads null.  The empty string is no JSON text and decodes to none.
decodeStringData(body) == IF body = "base64null" THEN "nilMap" ELSE Unmarshal(body)

FromPubSub(payload) ==
  IF payload = "error" THEN Failed
  ELSE applyCloudEventAttributes(
         [NoEvent EXCEPT !.id = "message", !.source = "pubsub",
                         !.attributes = ceAttributes, !.payload = payload])

\* Fault: an empty map of attributes is left nil and the rest is not reached.
PullNilAttributes ==
  IF ceAttributes = {} THEN Failed ELSE FromPubSub(decodeData(sent.body))

FromPubSubMessage == FromPubSub(decodeData(sent.body))

FromPubSubPush == FromPubSub(decodeStringData(sent.body))

FromGenericPayload(payload) ==
  [NoEvent EXCEPT !.payload = payload,
                  !.attributes = IF payload = "attributed" THEN {<<"label", "json">>}
                                 ELSE {}]

-----------------------------------------------------------------------------
(* The listener and the handlers of pkg/api.                               *)

Arrive(route, ev) ==
  /\ route \notin arrived
  /\ arrived' = arrived \cup {route}
  /\ event' = [event EXCEPT ![route] = ev]
  /\ UNCHANGED sent

Pull == Arrive("pull", FromPubSubMessage)

\* handleEvent with a push envelope: a message without a data field is generic.
Pushed ==
  IF sent.body = "empty" /\ sent.data = "absent"
  THEN FromGenericPayload("envelope") ELSE FromPubSubPush

Push == Arrive("push", Pushed)

\* handleEvent with the data alone.
Generic ==
  LET payload == Unmarshal(sent.body)
  IN IF payload = "error" THEN Failed ELSE FromGenericPayload(payload)

Bare == Arrive("bare", Generic)

\* The body of a structured event.  An attribute that is there but empty is a
\* string as well.  Data that is null or missing leaves the whole body.
Structured ==
  [ id |-> IF "id" \in Present THEN Value("id") ELSE "uuid",
    source |-> Value("source"), type |-> Value("type"),
    attributes |-> {<<a, Value(a)>> : a \in Present \ {"id"}},
    payload |-> IF sent.body \in {"object", "attributed", "array"} THEN sent.body
                ELSE IF sent.body = "text" THEN "string" ELSE "envelope",
    err |-> FALSE ]

BinaryTyped ==
  LET payload == Unmarshal(sent.body)
  IN IF payload = "error" THEN Failed
     ELSE [ id |-> Or(Value("id"), "uuid"), source |-> Value("source"),
            type |-> Value("type"),
            attributes |-> {<<a, Value(a)>> : a \in Context \ {"id"}},
            payload |-> payload, err |-> FALSE ]

\* A request whose Ce-Type header is missing or empty is taken for a structured
\* one: its body is the data, which has no context of its own, nor a data field.
BinaryUntyped ==
  LET payload == Unmarshal(sent.body)
  IN IF payload = "error" THEN Failed
     ELSE [NoEvent EXCEPT !.id = "uuid", !.payload = payload]

Binary == IF Value("type") # "none" THEN BinaryTyped ELSE BinaryUntyped

PostBinary == Arrive("binary", Binary)

PostStructured == Arrive("structured", Structured)

WebhookEvent(type, typeAttribute) ==
  LET payload == Unmarshal(sent.body)
  IN IF payload = "error" THEN Failed
     ELSE [ id |-> "uuid", source |-> "hook", type |-> type,
            attributes |-> {<<"source", "hook">>, <<"content-type", "json">>}
                           \cup {<<"type", t>> : t \in {typeAttribute} \ {"none"}},
            payload |-> payload, err |-> FALSE ]

XEventType == IF sent.github THEN "none" ELSE Value("type")
XGitHubEvent == IF sent.github THEN Value("type") ELSE "none"

\* Fault: the attributes are made before the fallback to X-GitHub-Event.
WebhookEarlyAttributes == WebhookEvent(Or(XEventType, XGitHubEvent), XEventType)

Webhook ==
  WebhookEvent(Or(XEventType, XGitHubEvent), Or(XEventType, XGitHubEvent))

\* The entries of the webhook's source, in the order of the configuration: an
\* empty secret is one whose environment variable is not set.
Secrets == {<<>>, <<"none">>, <<"key">>, <<"old", "key">>, <<"none", "key">>}

\* A signature: the secret that made it, or no text of hex digits at all.
Signatures == {"none", "key", "old", "malformed"}

\* The first entry of the source is the one that counts.
webhookSecret(secrets) == IF secrets = <<>> THEN "none" ELSE Head(secrets)

validateHMAC(signature, secret) == signature = secret

\* X-Signature-256 is read only when there is no X-Hub-Signature-256.
Admits(secrets, hub, other) ==
  LET secret == webhookSecret(secrets)
  IN secret # "none" => validateHMAC(Or(hub, other), secret)

PostWebhook ==
  \E secrets \in Secrets, hub, other \in Signatures :
    Arrive("webhook", IF Admits(secrets, hub, other) THEN Webhook ELSE Failed)

IngestNext == Pull \/ Push \/ Bare \/ PostBinary \/ PostStructured \/ PostWebhook

IngestSpec == IngestInit /\ [][IngestNext]_ingestVars

-----------------------------------------------------------------------------
(* Properties.                                                             *)

\* A Pub/Sub message makes one and the same event whether it is pushed to /events
\* or pulled by the listener, or neither way accepts it: two code paths that
\* share only applyCloudEventAttributes (message.go:57-118, api.go:116-121).  The
\* two kinds of data on which the code does diverge are named: a message without
\* data, and the three bytes whose base64 text is a JSON text.
PushPullAgree ==
  {"push", "pull"} \subseteq arrived /\ sent.body \notin {"empty", "base64null"}
    => event["push"] = event["pull"]

\* An event with all its context attributes and an object for its data has the
\* same id, source, type and payload by every route that carries the context, so
\* a match expression on these does not depend on the producer's transport.
RoutesAgree ==
  (/\ \A a \in Context : sent.attrs[a] = "own"
   /\ sent.body \in {"object", "attributed"})
  => \A r, q \in arrived \cap {"push", "pull", "binary", "structured"} :
       \A f \in {"id", "source", "type", "payload", "err"} : event[r][f] = event[q][f]

\* An expression may ask for the type and the source as attributes or as fields
\* of the event: over HTTP both say the same (api.go:157-161, 183-190, 238-251).
AttributesMatchFields ==
  \A r \in arrived \cap {"binary", "structured", "webhook"} :
    \A f \in {"source", "type"} :
      /\ \A p \in event[r].attributes : p[1] = f => p[2] = event[r][f]
      /\ event[r][f] # "none" => \E p \in event[r].attributes : p[1] = f

-----------------------------------------------------------------------------
\* The inductive invariant of the proofs (EventProofs).

\* What each route can make of what was sent: the webhook's sender may be refused.
Outcomes ==
  [ push |-> {Pushed}, pull |-> {FromPubSubMessage}, binary |-> {Binary},
    structured |-> {Structured}, bare |-> {Generic}, webhook |-> {Webhook, Failed} ]

\* The variables have their types, and an event is what its own route makes of
\* what was sent, by whatever routes it has come before.
IngestIInv ==
  /\ sent \in Messages
  /\ arrived \subseteq Routes
  /\ DOMAIN event = Routes
  /\ \A r \in arrived : event[r] \in Outcomes[r]
=============================================================================
