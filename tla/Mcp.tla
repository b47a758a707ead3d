--------------------------------- MODULE Mcp ---------------------------------
(***************************************************************************)
(* er mcp: ServeStdio reads a request per line, handles it and writes the  *)
(* response, one after the other on a single goroutine; the tools look at  *)
(* a configuration, an expression, a template or a reactor and keep        *)
(* nothing.  The client writes and hangs up when it likes, a signal        *)
(* cancels the context at any step, and stdout may break.  Texts are left  *)
(* out: what they hold decodes, evaluates and resolves, or does not.       *)
(***************************************************************************)
EXTENDS Startup, Naturals, Sequences

CONSTANTS
  Lines,        \* the lines that clients write
  MaxLines      \* a bound on how many

Tools == {"list_providers", "validate_config", "test_cel_expression", "render_template",
          "test_reactor", "list_event_sources"}

Methods == {"initialize", "notifications/initialized", "tools/list", "tools/call", "ping"}

\* The params of tools/call.  typed: the arguments have the types that the tool
\* asserts.  found: the configuration has the reactor.  match: what the expression
\* says of the event.  works: the template renders, or the inputs resolve.  Of the
\* reactor besides: it is disabled; its token can be had, if it needs one; it names a
\* provider that there is.
Params == [decode : BOOLEAN, tool : Tools \cup {"unknown"}, typed : BOOLEAN,
           cfg : Configurations, found : BOOLEAN, match : {"true", "false", "error"},
           works : BOOLEAN, disabled : BOOLEAN, token : BOOLEAN, provider : BOOLEAN]

\* A line: empty, no JSON object, beyond the buffer of 1 MB, or a request.
LineKinds == [text : {"empty", "garbage", "tooLong", "unknown"} \cup Methods,
              id : BOOLEAN, params : Params]

ASSUME McpAssumption == Lines \subseteq LineKinds /\ MaxLines \in Nat

VARIABLES
  lines,        \* external: what the client has written
  closed,       \* external: it has hung up
  broken,       \* external: a write to stdout fails
  cancelled,    \* ctx is done
  scanned,      \* the lines that Scan has returned
  pc,           \* "scan", "check", "handle", "write", "ended"
  resp,         \* the code of the response in hand
  out,          \* the responses written, each with the line it answers
  ret,          \* what ServeStdio returned: "none" until it does
  begun         \* history: the last line begun before the cancellation

vars == <<lines, closed, broken, cancelled, scanned, pc, resp, out, ret, begun>>

world == <<lines, closed, broken, cancelled, begun>>

Init ==
  /\ lines = << >> /\ closed = FALSE /\ broken = FALSE /\ cancelled = FALSE
  /\ scanned = 0 /\ pc = "scan" /\ resp = "none" /\ out = << >> /\ ret = "none"
  /\ begun = 0

-----------------------------------------------------------------------------
(* The tools (mcp.go).                                                     *)

\* Fault: the inputs are resolved whether the event matches or not.
testUnmatched(p) ==
  IF ~p.typed \/ ~Parse(p.cfg) \/ ~p.found \/ p.match = "error" \/ ~p.works
  THEN "error" ELSE "inputs"

testReactor(p) ==
  IF ~p.typed \/ ~Parse(p.cfg) \/ ~p.found \/ p.match = "error" THEN "error"
  ELSE IF p.match = "false" THEN "noMatch"
  ELSE IF p.works THEN "inputs" ELSE "error"

validateConfigTool(p) == IF p.typed /\ validateConfig(p.cfg) THEN "text" ELSE "error"

testCELExpression(p) ==
  IF ~p.typed \/ p.match = "error" THEN "error"
  ELSE IF p.match = "true" THEN "match" ELSE "noMatch"

renderTemplate(p) == IF p.typed /\ p.works THEN "text" ELSE "error"

CallTool(p) ==
  IF p.tool \in {"list_providers", "list_event_sources"} THEN "text"
  ELSE IF p.tool = "validate_config" THEN validateConfigTool(p)
  ELSE IF p.tool = "test_cel_expression" THEN testCELExpression(p)
  ELSE IF p.tool = "render_template" THEN renderTemplate(p)
  ELSE IF p.tool = "test_reactor" THEN testReactor(p) ELSE "error"

-----------------------------------------------------------------------------
(* The er test commands (cmd/test.go), which do the same with files.  typed: the *)
(* event's file is there and is an object.                                 *)

testMatchCmd(p) ==
  IF ~p.typed \/ p.match = "error" THEN "error"
  ELSE IF p.match = "true" THEN "match" ELSE "noMatch"

testTemplateCmd(p) == IF p.typed /\ p.works THEN "text" ELSE "error"

testConfigCmd(p) == IF p.typed /\ testConfig(p.cfg) THEN "text" ELSE "error"

\* With --dry-run=false as well, no provider is called.
testReactorCmd(p) ==
  IF ~Load(p.cfg) \/ ~p.typed \/ ~p.found \/ p.match = "error" THEN "error"
  ELSE IF p.match = "false" THEN "noMatch" ELSE IF p.works THEN "inputs" ELSE "error"

-----------------------------------------------------------------------------
(* ServeStdio (stdio.go).                                                  *)

\* Fault: a tool that is not there is taken for a notification.
handleKnown(line) ==
  IF line.text \in {"initialize", "tools/list", "ping"} THEN "result"
  ELSE IF line.text = "tools/call" /\ line.params.tool # "unknown"
  THEN CallTool(line.params) ELSE "none"

\* A method that is not known is an error even where the line, without an id, is a
\* notification; the one notification that is known is never answered.
handleRequest(line) ==
  IF line.text \in {"initialize", "tools/list", "ping"} THEN "result"
  ELSE IF line.text = "notifications/initialized" THEN "none"
  ELSE IF line.text # "tools/call" THEN "methodNotFound"
  ELSE IF line.params.decode THEN CallTool(line.params) ELSE "invalidParams"

End(r) == pc' = "ended" /\ ret' = r

\* Scan waits for a line or for the end of the input.  A line that does not fit
\* the buffer ends the loop as well, with an error.
Scan ==
  /\ pc = "scan"
  /\ IF scanned < Len(lines)
     THEN IF lines[scanned + 1].text = "tooLong"
          THEN End("tooLong") /\ UNCHANGED scanned
          ELSE scanned' = scanned + 1 /\ pc' = "check" /\ UNCHANGED ret
     ELSE closed /\ End("nil") /\ UNCHANGED scanned
  /\ UNCHANGED <<world, resp, out>>

\* Fault: the context is not looked at.
CheckNothing ==
  /\ pc = "check"
  /\ pc' = "handle"
  /\ UNCHANGED <<world, scanned, resp, out, ret>>

\* The select after Scan: the line in hand is dropped.
CheckContext ==
  /\ pc = "check"
  /\ IF cancelled THEN End("cancelled") ELSE pc' = "handle" /\ UNCHANGED ret
  /\ UNCHANGED <<world, scanned, resp, out>>

\* The line is decoded and handled.  What is no JSON is logged only.
Handle ==
  /\ pc = "handle"
  /\ resp' = IF lines[scanned].text \in {"empty", "garbage"} THEN "none"
             ELSE handleRequest(lines[scanned])
  /\ pc' = IF resp' = "none" THEN "scan" ELSE "write"
  /\ UNCHANGED <<world, scanned, out, ret>>

Write ==
  /\ pc = "write"
  /\ IF broken THEN End("writeFailed") /\ UNCHANGED out
     ELSE /\ out' = Append(out, [line |-> scanned, id |-> lines[scanned].id, code |-> resp])
          /\ pc' = "scan" /\ UNCHANGED ret
  /\ resp' = "none"
  /\ UNCHANGED <<world, scanned>>

-----------------------------------------------------------------------------
(* The client and the signal.                                              *)

ClientWrites(line) ==
  /\ pc # "ended" /\ ~closed /\ Len(lines) < MaxLines
  /\ lines' = Append(lines, line)
  /\ UNCHANGED <<closed, broken, cancelled, scanned, pc, resp, out, ret, begun>>

HangUp ==
  /\ pc # "ended" /\ ~closed
  /\ closed' = TRUE
  /\ UNCHANGED <<lines, broken, cancelled, scanned, pc, resp, out, ret, begun>>

StdoutBreaks ==
  /\ pc # "ended" /\ ~broken
  /\ broken' = TRUE
  /\ UNCHANGED <<lines, closed, cancelled, scanned, pc, resp, out, ret, begun>>

\* mcpCmd's NotifyContext: the signal does nothing but this.
Cancel ==
  /\ pc # "ended" /\ ~cancelled
  /\ cancelled' = TRUE
  /\ begun' = IF pc = "check" THEN scanned - 1 ELSE scanned
  /\ UNCHANGED <<lines, closed, broken, scanned, pc, resp, out, ret>>

Server == Scan \/ CheckContext \/ Handle \/ Write

Next ==
  \/ Server
  \/ (\E line \in Lines : ClientWrites(line))
  \/ HangUp \/ StdoutBreaks \/ Cancel

\* The goroutine runs, and the client reads what is written to it: a pipe that is
\* full blocks Write for ever.  It need not write, hang up or send a signal.
Spec == Init /\ [][Next]_vars /\ WF_vars(Server)

-----------------------------------------------------------------------------
(* Properties.                                                             *)

\* A client waits for an answer to it.
Expects(line) ==
  line.id /\ line.text \in (Methods \ {"notifications/initialized"}) \cup {"unknown"}

\* The client may pipeline: answers come in the order of the requests, each at most
\* once, and none is passed over, whatever lines stand between them.  Only the
\* request in hand when the server ends may be left without one (stdio.go:77-110).
AnsweredInTurn ==
  /\ \A i, j \in DOMAIN out : i < j => out[i].line < out[j].line
  /\ \A k \in 1..scanned : Expects(lines[k]) =>
       (\E i \in DOMAIN out : out[i].line = k) \/ (k = scanned /\ pc # "scan")

\* A request that the server had not begun when the signal came is not carried
\* out, although the loop may have been waiting for it ever since (stdio.go:78-82).
NothingBegunAfterCancel ==
  cancelled => \A i \in DOMAIN out : out[i].line <= begun

\* How far a running server gets with a reactor at an event: HandleEvent passes over
\* it, executeReactor ends early, or the provider is called.
serves(p) ==
  IF p.disabled THEN "disabled"
  ELSE IF p.match # "true" THEN "skipped"
  ELSE IF ~p.works THEN "inputs failed"
  ELSE IF ~p.token THEN "no token"
  ELSE IF ~p.provider THEN "no provider" ELSE "executed"

\* The server has resolved the inputs by then.
Resolved == {"no token", "no provider", "executed"}

\* A dry run tells of the server what it claims to: it shows inputs just when the
\* server would resolve them, and no match only when the server would pass the
\* reactor over, if it is not disabled.  And a tool says what its er test command
\* says.  Up to three implementations of one sequence (mcp.go:145-281,
\* test.go:40-213, adapter.go:54-103); what the server looks at besides, whether the
\* reactor is disabled, has a token and a provider, neither tool nor command does.
DryRunIsFaithful ==
  \A i \in DOMAIN out :
    LET line == lines[out[i].line]
        p == line.params
        code == out[i].code
    IN line.text = "tools/call" /\ p.decode =>
         /\ p.tool = "test_cel_expression" => code = testMatchCmd(p)
         /\ p.tool = "render_template" => code = testTemplateCmd(p)
         /\ p.tool = "validate_config" => code = testConfigCmd(p)
         /\ p.tool = "test_reactor" =>
              /\ code = testReactorCmd(p)
              /\ code = "inputs" => serves(p) \in Resolved \cup {"disabled"}
              /\ code = "noMatch" => serves(p) \in {"skipped", "disabled"}
              /\ serves(p) \in Resolved /\ p.found /\ p.typed /\ testConfig(p.cfg)
                   => code = "inputs"

\* Every request is answered, or the server ends: by the end of the input, a line
\* that is too long (stdio.go:75, 112), a broken stdout or the signal.
AnsweredOrEnded ==
  \A k \in 1..MaxLines :
    (k <= Len(lines) /\ Expects(lines[k]))
      ~> (pc = "ended" \/ \E i \in DOMAIN out : out[i].line = k)

\* After the signal the server ends as soon as the client says anything more, or
\* hangs up.  While the client does neither, it does not end (stdio.go:77-79).
CancelledEnds == (cancelled /\ (closed \/ scanned < Len(lines))) ~> pc = "ended"

-----------------------------------------------------------------------------
\* The inductive invariant of the proofs (McpProofs).

Codes == {"none", "result", "methodNotFound", "invalidParams", "text", "match",
          "noMatch", "inputs", "error"}

Busy == {"check", "handle", "write"}

\* The variables have their types.
TypeOK ==
  /\ lines \in Seq(Lines) /\ scanned \in 0..Len(lines)
  /\ closed \in BOOLEAN /\ broken \in BOOLEAN /\ cancelled \in BOOLEAN
  /\ pc \in Busy \cup {"scan", "ended"}
  /\ ret \in {"none", "nil", "tooLong", "cancelled", "writeFailed"}
  /\ resp \in Codes
  /\ out \in Seq([line : Nat \ {0}, id : BOOLEAN, code : Codes])
  /\ begun \in Nat

\* The line in hand is the last one scanned, no answer to it is out, and its
\* response stays in hand just until Write.
InHand ==
  /\ pc \in Busy => scanned > 0
  /\ IF pc = "write" THEN resp # "none" /\ resp = handleRequest(lines[scanned])
     ELSE resp = "none"
  /\ \A i \in DOMAIN out : out[i].line <= scanned /\ (pc \in Busy => out[i].line # scanned)

\* Every answer is what handleRequest says of its own line.
OwnAnswer == \A i \in DOMAIN out : out[i].code = handleRequest(lines[out[i].line])

\* A line that gets past the check after the signal was begun before it.
BegunInTime == cancelled /\ pc \in {"handle", "write"} => scanned <= begun

IInv ==
  /\ TypeOK /\ InHand /\ OwnAnswer /\ BegunInTime
  /\ AnsweredInTurn /\ NothingBegunAfterCancel
=============================================================================
