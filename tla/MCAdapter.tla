------------------------------ MODULE MCAdapter ------------------------------
EXTENDS Adapter

\* A reactor that executes with a token, one without auth whose provider may
\* panic or hang, one that is disabled, one whose handler cannot issue tokens, and one
\* whose provider does not exist.
MC_AuthOf == <<"slack", NoAuth, "slack", "app", NoAuth>>
MC_HandlerType ==
  [h \in {"slack", "app"} |-> IF h = "slack" THEN "static-token" ELSE "github-app"]
MC_ProviderOf == <<"http", "custom", "http", "http", "htpp">>
=============================================================================
