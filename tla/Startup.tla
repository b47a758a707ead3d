------------------------------- MODULE Startup -------------------------------
(***************************************************************************)
(* What a configuration must be like for er run server to start with it,   *)
(* and what the other readers of a configuration, er test config and the   *)
(* MCP tool validate_config, say of it.  Functions of the configuration    *)
(* alone: Supervisor starts with them, Mcp answers with them.  The fields  *)
(* that cannot be refused (ports, log levels, inputs) are left out.        *)
(***************************************************************************)

CONSTANT Listeners      \* the entries of the section listeners

\* A reactor: without a name, a provider or an expression; with an expression
\* that does not compile; or sound.
ReactorKinds == {"incomplete", "badMatch", "sound"}

\* A listener: without a name or a type; of type pubsub but without a project or
\* a subscription; of a type nobody knows; or of the type that its kind says.
ListenerKinds == {"incomplete", "pubsubIncomplete", "unknown", "pubsub", "webhook",
                  "cloudevents", "http"}

\* The fields that the constructor of each type of auth handler insists on.
Required ==
  [ t \in {"static-token", "github-token", "github-app", "oauth2-client-credentials",
           "service-account"} |->
      CASE t \in {"static-token", "github-token"} -> {"token"}
        [] t = "github-app" -> {"appId", "installationId", "privateKeyPath"}
        [] t = "oauth2-client-credentials" -> {"tokenUrl", "clientId", "clientSecret"}
        [] t = "service-account" -> {"keyFile"} ]

Handlers == [type : DOMAIN Required \cup {"unknown"},
             fields : SUBSET UNION {Required[t] : t \in DOMAIN Required}]

\* "healthz" is a path without its slash; gin joins it to its base path.
Paths == {"unset", "/health/live", "/health/ready", "/healthz", "healthz"}

Configurations ==
  [ file : {"missing", "malformed", "yaml"}, reactors : SUBSET ReactorKinds,
    listeners : [Listeners -> ListenerKinds], handlers : SUBSET Handlers,
    liveness : Paths, readiness : Paths ]

-----------------------------------------------------------------------------
(* pkg/config, and the two commands that look at a configuration only.     *)

applyDefaults(cfg) ==
  [ cfg EXCEPT !.liveness = IF @ = "unset" THEN "/health/live" ELSE @,
               !.readiness = IF @ = "unset" THEN "/health/ready" ELSE @ ]

validate(cfg) ==
  /\ "incomplete" \notin cfg.reactors
  /\ \A l \in Listeners : cfg.listeners[l] # "incomplete"

Parse(cfg) == cfg.file = "yaml" /\ validate(cfg)

Load(cfg) == cfg.file # "missing" /\ Parse(cfg)

Compiles(cfg) == "badMatch" \notin cfg.reactors

testConfig(cfg) == Load(cfg) /\ Compiles(cfg)

\* Fault: the tool takes an expression that does not compile for a missing one.
validateParsed(cfg) == Parse(cfg)

validateConfig(cfg) == Parse(cfg) /\ Compiles(cfg)

-----------------------------------------------------------------------------
(* runServer before anything runs.                                         *)

newHandler(h) == h.type \in DOMAIN Required /\ Required[h.type] \subseteq h.fields

NewRegistry(cfg) == \A h \in cfg.handlers : newHandler(h)

HttpTypes == {"webhook", "cloudevents", "http"}

\* Fault: a type that is not known is left to the HTTP server.
BuildAnything(kind) ==
  CASE kind = "pubsub" -> "background"
    [] kind = "pubsubIncomplete" -> "error"
    [] OTHER -> "nil"

Build(kind) ==
  CASE kind = "pubsub" -> "background"
    [] kind \in HttpTypes -> "nil"
    [] OTHER -> "error"

joined(path) == IF path = "healthz" THEN "/healthz" ELSE path

\* gin panics at two handlers of one path.
registerRoutes(cfg) ==
  LET paths == applyDefaults(cfg)
  IN joined(paths.liveness) # joined(paths.readiness)

\* The first thing that keeps the server from starting.
startError(cfg) ==
  IF ~Load(cfg) THEN "loading"
  ELSE IF ~Compiles(cfg) THEN "compiling"
  ELSE IF ~NewRegistry(cfg) THEN "auth"
  ELSE IF \E l \in Listeners : Build(cfg.listeners[l]) = "error" THEN "building"
  ELSE IF ~registerRoutes(cfg) THEN "panic" ELSE "nil"
=============================================================================
