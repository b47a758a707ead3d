---------------------------- MODULE MCSupervisor ----------------------------
(***************************************************************************)
(* Configurations with any combination of one defect of each kind and one  *)
(* sound choice of each part; the listeners vary among the sound ones.     *)
(***************************************************************************)
EXTENDS Supervisor

Complete == {[type |-> t, fields |-> Required[t]] : t \in DOMAIN Required}

Lacking == { h \in [type : DOMAIN Required, fields : {Required[t] : t \in DOMAIN Required}] :
               ~(Required[h.type] \subseteq h.fields) }

MCConfigs ==
  { c \in
    [ file : {"missing", "malformed", "yaml"},
      reactors : {{"sound"}} \cup {{"sound", kind} : kind \in {"incomplete", "badMatch"}},
      listeners : [Listeners -> ListenerKinds \ {"http", "cloudevents"}],
      handlers : {Complete, Complete \cup {[type |-> "unknown", fields |-> {"token"}]}}
                 \cup {{h} : h \in Lacking},
      liveness : Paths, readiness : {"unset", "/healthz"} ] :
      \* of the sound paths, one without its slash and a default
      registerRoutes(c) => c.liveness = "healthz" /\ c.readiness = "unset" }
=============================================================================
