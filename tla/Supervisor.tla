----------------------------- MODULE Supervisor -----------------------------
(***************************************************************************)
(* How er run server starts and ends (runServer): the HTTP server and the  *)
(* background listeners run in one errgroup, whose context is cancelled by *)
(* a signal or by the first of them to fail.  The HTTP server is the two   *)
(* goroutines of api's Start; each listener is pubsub's Start.  What a     *)
(* request or a message does meanwhile is the business of Adapter and      *)
(* PubSub: here it is in progress or it is not, and it may hang for ever   *)
(* in a provider.  The configuration is checked by Startup.  net/http,     *)
(* errgroup and the Pub/Sub client are external.                           *)
(***************************************************************************)
EXTENDS Startup

CONSTANTS
  Conns,        \* the connections that can carry a request at one time
  Configs       \* the configurations that users write

ASSUME SupervisorAssumption == Configs \subseteq Configurations

VARIABLES
  cfg,          \* the configuration the server is given
  process,      \* "setup", "running", "exited"
  err,          \* the first error, that runServer returns
  signalled,    \* SIGINT or SIGTERM has come
  serve,        \* ListenAndServe: "new", "listening", "failed", "closed"
  start,        \* srv.Start: "select", "shutdown", "returned"
  deadline,     \* shutdownCtx is done
  requests,     \* the connections with a request in progress
  listener,     \* of each: "starting", "receiving", "draining", "returned"
  fatal,        \* the listeners whose Receive has met an error
  handling,     \* the listeners with a message in progress
  hung          \* those whose message never ends

group == <<cfg, process, err, signalled>>
server == <<serve, start, deadline, requests>>
pull == <<listener, fatal, handling, hung>>
vars == <<group, server, pull>>

Init ==
  /\ cfg \in Configs
  /\ process = "setup" /\ err = "nil" /\ signalled = FALSE
  /\ serve = "new" /\ start = "select" /\ deadline = FALSE /\ requests = {}
  /\ listener = [l \in Listeners |-> "starting"]
  /\ fatal = {} /\ handling = {} /\ hung = {}

\* The context that srv.Start and the listeners run under.
Cancelled == signalled \/ err # "nil"

\* The listeners that runServer starts; the HTTP server stands in for the others.
Background == {l \in Listeners : Build(cfg.listeners[l]) = "background"}

\* A function of the group returns: the first error stays and cancels the rest.
Returns(e) == err' = IF err = "nil" THEN e ELSE err

-----------------------------------------------------------------------------
(* runServer.                                                              *)

\* The config, the match expressions, the auth handlers, the listeners and the
\* routes are all checked before anything runs.
SetUp ==
  /\ process = "setup"
  /\ err' = startError(cfg)
  /\ process' = IF startError(cfg) = "nil" THEN "running" ELSE "exited"
  /\ UNCHANGED <<cfg, signalled, server, pull>>

Signal ==
  /\ process = "running" /\ ~signalled
  /\ signalled' = TRUE
  /\ UNCHANGED <<cfg, process, err, server, pull>>

\* g.Wait: what is still in progress ends with the process.
Wait ==
  /\ process = "running"
  /\ start = "returned" /\ \A l \in Background : listener[l] = "returned"
  /\ process' = "exited"
  /\ UNCHANGED <<cfg, err, signalled, server, pull>>

-----------------------------------------------------------------------------
(* The HTTP server.                                                        *)

\* ListenAndServe binds the port, or reports to errCh that it cannot; once
\* Shutdown has begun it does neither.
Listen ==
  /\ process = "running" /\ serve = "new"
  /\ serve' = "listening" \/ serve' = "failed"
  /\ UNCHANGED <<group, start, deadline, requests, pull>>

AcceptFails ==
  /\ process = "running" /\ serve = "listening"
  /\ serve' = "failed"
  /\ UNCHANGED <<group, start, deadline, requests, pull>>

Request(c) ==
  /\ process = "running" /\ serve = "listening" /\ c \notin requests
  /\ requests' = requests \cup {c}
  /\ UNCHANGED <<group, serve, start, deadline, pull>>

RequestEnds(c) ==
  /\ process = "running" /\ c \in requests
  /\ requests' = requests \ {c}
  /\ UNCHANGED <<group, serve, start, deadline, pull>>

\* The select takes errCh: Start returns, and leaves the requests alone.
ServeFailed ==
  /\ process = "running" /\ start = "select" /\ serve = "failed"
  /\ start' = "returned" /\ Returns("serve")
  /\ UNCHANGED <<cfg, process, signalled, serve, deadline, requests, pull>>

\* The select takes ctx.Done: no connection is accepted any more.
Shutdown ==
  /\ process = "running" /\ start = "select" /\ Cancelled
  /\ start' = "shutdown"
  /\ serve' = IF serve = "failed" THEN serve ELSE "closed"
  /\ UNCHANGED <<group, deadline, requests, pull>>

Deadline ==
  /\ process = "running" /\ start = "shutdown" /\ ~deadline
  /\ deadline' = TRUE
  /\ UNCHANGED <<group, serve, start, requests, pull>>

\* Fault: Close in the place of Shutdown.
CloseAtOnce ==
  /\ process = "running" /\ start = "shutdown"
  /\ start' = "returned"
  /\ UNCHANGED <<group, serve, deadline, requests, pull>>

\* Fault: Shutdown is given a context without a deadline.
AwaitRequests ==
  /\ process = "running" /\ start = "shutdown" /\ requests = {}
  /\ start' = "returned"
  /\ UNCHANGED <<group, serve, deadline, requests, pull>>

\* Shutdown returns when no request is in progress, or with an error when its
\* time is over.
ShutdownReturns ==
  /\ process = "running" /\ start = "shutdown"
  /\ \/ requests = {} /\ UNCHANGED err
     \/ deadline /\ Returns("deadline")
  /\ start' = "returned"
  /\ UNCHANGED <<cfg, process, signalled, serve, deadline, requests, pull>>

-----------------------------------------------------------------------------
(* A background listener.                                                  *)

\* The client is created and the pull begins, or Start returns the error.
Connect(l) ==
  /\ process = "running" /\ listener[l] = "starting"
  /\ \/ listener' = [listener EXCEPT ![l] = "receiving"] /\ UNCHANGED err
     \/ listener' = [listener EXCEPT ![l] = "returned"] /\ Returns("listener")
  /\ UNCHANGED <<cfg, process, signalled, server, fatal, handling, hung>>

Message(l) ==
  /\ process = "running" /\ listener[l] = "receiving" /\ l \notin handling
  /\ handling' = handling \cup {l}
  /\ UNCHANGED <<group, server, listener, fatal, hung>>

\* A provider that waits for something that never comes, its context cancelled or
\* not: a mail server that fell silent, a command whose child keeps its output open.
MessageHangs(l) ==
  /\ process = "running" /\ l \in handling
  /\ hung' = hung \cup {l}
  /\ UNCHANGED <<group, server, listener, fatal, handling>>

MessageEnds(l) ==
  /\ process = "running" /\ l \in handling \ hung
  /\ handling' = handling \ {l}
  /\ UNCHANGED <<group, server, listener, fatal, hung>>

\* Receive stops pulling: it has met an error, or the context is cancelled.
Drain(l) ==
  /\ process = "running" /\ listener[l] = "receiving"
  /\ \/ fatal' = fatal \cup {l}
     \/ Cancelled /\ UNCHANGED fatal
  /\ listener' = [listener EXCEPT ![l] = "draining"]
  /\ UNCHANGED <<group, server, handling, hung>>

\* Fault: the error is logged and not returned.
ReturnNothing(l) ==
  /\ process = "running" /\ listener[l] = "draining" /\ l \notin handling
  /\ listener' = [listener EXCEPT ![l] = "returned"]
  /\ UNCHANGED <<group, server, fatal, handling, hung>>

\* Fault: the error is returned once the others have ended.
ReturnLast(l) ==
  /\ process = "running" /\ listener[l] = "draining" /\ l \notin handling /\ Cancelled
  /\ listener' = [listener EXCEPT ![l] = "returned"]
  /\ UNCHANGED <<group, server, fatal, handling, hung>>

\* Receive returns after its callbacks.  Start returns its error, unless the
\* context is cancelled by now: then it takes the end for a clean one.
Return(l) ==
  /\ process = "running" /\ listener[l] = "draining" /\ l \notin handling
  /\ listener' = [listener EXCEPT ![l] = "returned"]
  /\ IF l \in fatal /\ ~Cancelled THEN Returns("listener") ELSE UNCHANGED err
  /\ UNCHANGED <<cfg, process, signalled, server, fatal, handling, hung>>

-----------------------------------------------------------------------------
Next ==
  \/ SetUp \/ Signal \/ Wait
  \/ Listen \/ AcceptFails \/ ServeFailed \/ Shutdown \/ Deadline \/ ShutdownReturns
  \/ \E c \in Conns : Request(c) \/ RequestEnds(c)
  \/ \E l \in Background : \/ Connect(l) \/ Message(l) \/ MessageHangs(l) \/ MessageEnds(l)
                           \/ Drain(l) \/ Return(l)

\* The goroutines run, the shutdown timer fires, and a message that does not hang
\* is handled in the end.  Nothing is assumed of the requests: one may never end.
\* Once the context is cancelled the streaming pull stops; before that it need not.
Fairness ==
  /\ WF_vars(SetUp) /\ WF_vars(Wait) /\ WF_vars(Listen)
  /\ WF_vars(ServeFailed) /\ WF_vars(Shutdown) /\ WF_vars(Deadline)
  /\ WF_vars(ShutdownReturns)
  /\ \A l \in Listeners :
       /\ WF_vars(l \in Background /\ Connect(l)) /\ WF_vars(MessageEnds(l))
       /\ WF_vars(Return(l)) /\ WF_vars(Cancelled /\ Drain(l))

Spec == Init /\ [][Next]_vars /\ Fairness

-----------------------------------------------------------------------------
\* The variables have their types.
TypeOK ==
  /\ cfg \in Configs
  /\ process \in {"setup", "running", "exited"}
  /\ err \in {"nil", "loading", "compiling", "auth", "building", "panic", "serve", "deadline",
             "listener"}
  /\ signalled \in BOOLEAN /\ deadline \in BOOLEAN
  /\ serve \in {"new", "listening", "failed", "closed"}
  /\ start \in {"select", "shutdown", "returned"}
  /\ requests \subseteq Conns
  /\ listener \in [Listeners -> {"starting", "receiving", "draining", "returned"}]
  /\ fatal \subseteq Background /\ handling \subseteq Background /\ hung \subseteq handling

\* An exit without an error follows a signal, never a failure of the server or of
\* a listener alone (pubsub.go:108 drops errors), and has cut nothing off: no
\* request and no message was in progress.  Messages are not cut off by any exit.
CleanExit ==
  process = "exited" =>
    handling = {} /\ (err = "nil" => signalled /\ requests = {})

\* What the configuration lists as a listener is served, by the HTTP server or by a
\* goroutine of its own (factory.go:12-19).
Served(l) ==
  IF cfg.listeners[l] \in HttpTypes
  THEN serve \in {"new", "listening"}
  ELSE cfg.listeners[l] = "pubsub" /\ listener[l] \in {"starting", "receiving"}

\* It has failed, and the goroutine that will return its error waits for errCh or
\* for the callbacks of Receive.
Failing(l) ==
  IF cfg.listeners[l] \in HttpTypes
  THEN serve = "failed" /\ start = "select"
  ELSE cfg.listeners[l] = "pubsub" /\ listener[l] = "draining" /\ l \in fatal

\* As long as nothing has cancelled the context every listener of the configuration
\* is served, or has an error that is still to be returned: none has ended
\* unnoticed, and none is of a kind that nothing serves.
NoPartDead ==
  process = "running" /\ ~Cancelled =>
    start = "select" /\ \A l \in Listeners : Served(l) \/ Failing(l)

\* A failure of one part stops the others (root.go:160-161): a server that failed
\* cancels the context, and so does a listener, unless its message hangs in a
\* provider.  Receive waits for that message, and half a server runs on.
FailureStopsAll ==
  /\ serve = "failed" ~> Cancelled
  /\ \A l \in Listeners : l \in fatal ~> Cancelled \/ l \in hung

\* Three pieces of code load and compile a configuration on their own
\* (root.go:95-115, test.go:117-141, mcp.go:145-172), and agree: what the server
\* runs with, er test config and validate_config accept, and what it refuses to
\* load or compile they refuse.  The server goes on to refuse more than they do.
ChecksAgree ==
  /\ process = "running" => testConfig(cfg) /\ validateConfig(cfg)
  /\ err \in {"loading", "compiling"} => ~testConfig(cfg) /\ ~validateConfig(cfg)

\* Once the context is cancelled the process exits, unless a message hangs in a
\* provider: a request that never ends does not keep it (api.go:89), a message
\* that never ends does.
CancelledExits == Cancelled ~> process = "exited" \/ hung # {}

\* The inductive invariant of the proofs (SupervisorProofs).
IInv ==
  /\ TypeOK
  /\ CleanExit
  /\ NoPartDead
  /\ ChecksAgree
  /\ process = "setup" =>
       /\ handling = {} /\ hung = {} /\ requests = {} /\ ~Cancelled /\ start = "select"
       /\ \A l \in Listeners : listener[l] = "starting"
  /\ start = "returned" /\ err = "nil" => requests = {} /\ serve \in {"failed", "closed"}
  /\ start = "returned" => Cancelled
  /\ start = "shutdown" => Cancelled /\ serve \in {"failed", "closed"}
  /\ \A l \in handling : listener[l] \in {"receiving", "draining"}
  /\ serve = "closed" => Cancelled
  /\ \A l \in Listeners : listener[l] = "draining" => l \in fatal \/ Cancelled
=============================================================================
