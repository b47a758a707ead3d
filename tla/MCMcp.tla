-------------------------------- MODULE MCMcp --------------------------------
(***************************************************************************)
(* The lines of Mcp: one of each kind that the loop tells apart, and calls *)
(* of the tools with each of their outcomes.                               *)
(***************************************************************************)
EXTENDS Mcp

Sound == [ file |-> "yaml", reactors |-> {"sound"}, listeners |-> [l \in Listeners |-> "http"],
           handlers |-> {}, liveness |-> "unset", readiness |-> "unset" ]

Call == [ decode |-> TRUE, tool |-> "unknown", typed |-> TRUE, cfg |-> Sound,
          found |-> TRUE, match |-> "true", works |-> TRUE,
          disabled |-> FALSE, token |-> TRUE, provider |-> TRUE ]

Requests == [text : {"initialize", "unknown", "empty", "garbage", "tooLong"}, id : {TRUE},
             params : {Call}]

Initialized == [text |-> "notifications/initialized", id |-> FALSE, params |-> Call]

Reactor == [Call EXCEPT !.tool = "test_reactor"]

Calls ==
  {Call, [Call EXCEPT !.decode = FALSE]}
  \cup {[Call EXCEPT !.tool = "validate_config", !.cfg.reactors = r] : r \in {{}, {"badMatch"}}}
  \cup {[Call EXCEPT !.tool = "test_cel_expression", !.match = "error"]}
  \cup {[Call EXCEPT !.tool = "render_template", !.typed = FALSE]}
  \cup {[Call EXCEPT !.tool = "test_reactor", !.match = p[1], !.works = p[2]] :
           p \in {<<"true", TRUE>>, <<"true", FALSE>>, <<"false", TRUE>>, <<"error", TRUE>>}}
  \cup {[Reactor EXCEPT !.disabled = TRUE], [Reactor EXCEPT !.token = FALSE],
        [Reactor EXCEPT !.provider = FALSE]}

MCLines ==
  Requests \cup {Initialized}
  \cup {[text |-> "tools/call", id |-> TRUE, params |-> p] : p \in Calls}
=============================================================================
