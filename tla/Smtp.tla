-------------------------------- MODULE Smtp --------------------------------
(***************************************************************************)
(* One call of the smtp provider: SMTP.Execute parses the inputs, sendMail *)
(* tries up to maxRetries + 1 times with a wait between two tries, and     *)
(* trySend is one SMTP session.  The session's commands take no context:   *)
(* a cancellation stops the waits and the dialling and nothing else.  The  *)
(* mail server and the network are external: a command may fail, the       *)
(* server may accept the message although its reply is lost, and it may    *)
(* fall silent with the session open.                                      *)
(***************************************************************************)
EXTENDS Integers

CONSTANT Retries    \* the values of the maxRetries input

ASSUME SmtpAssumption == Retries \subseteq Int

VARIABLES
  pc,          \* where the call is: the next SMTP command, or see below
  inputs,      \* what the provider was given
  params,      \* smtpParams
  attempts,    \* the attempts sendMail reports
  fired,       \* timer.C has a value
  cancelled,   \* ctx.Done() is closed
  result,      \* what Execute returned: "none" until it does
  copies,      \* external: the copies of the message the server accepted
  silent,      \* external: the server holds the session open and answers no more
  late,        \* history: the attempt began after the cancellation
  lostReply    \* history: an attempt failed after the server had accepted

vars == <<pc, inputs, params, attempts, fired, cancelled, result, copies, silent,
          late, lostReply>>

Commands == {"tls", "auth", "mail", "rcpt", "data", "write"}

Inputs == [valid : BOOLEAN, username : BOOLEAN, password : BOOLEAN,
           header : BOOLEAN, startTLS : {"unset", "true", "false"},
           maxRetries : Retries]

Params == [startTLS : BOOLEAN, auth : BOOLEAN, maxRetries : 0..10]

\* Fault: maxRetries is used as it is given.
parseUnclamped(in) ==
  [ startTLS |-> IF in.startTLS = "unset" THEN in.username ELSE in.startTLS = "true",
    auth |-> in.username /\ (in.password \/ in.header),
    maxRetries |-> in.maxRetries ]

\* valid: host, from, to, subject and body are there and no header has a line
\* break.  The Authorization header of the context stands in for a password.
parseSMTPInput(in) ==
  [ startTLS |-> IF in.startTLS = "unset" THEN in.username ELSE in.startTLS = "true",
    auth |-> in.username /\ (in.password \/ in.header),
    maxRetries |-> IF in.maxRetries < 0 THEN 0
                   ELSE IF in.maxRetries > 10 THEN 10 ELSE in.maxRetries ]

Init ==
  /\ pc = "execute"
  /\ inputs \in Inputs
  /\ params = [startTLS |-> FALSE, auth |-> FALSE, maxRetries |-> 0]
  /\ attempts = 0 /\ fired = FALSE /\ cancelled = FALSE
  /\ result = "none"
  /\ copies = 0 /\ silent = FALSE /\ late = FALSE /\ lostReply = FALSE

-----------------------------------------------------------------------------
(* sendMail.                                                               *)

\* The loop of sendMail runs as long as attempt <= maxRetries, from 0 on: were it
\* not entered at all, lastErr would be nil and the call a success.
Execute ==
  /\ pc = "execute"
  /\ params' = parseSMTPInput(inputs)
  /\ IF inputs.valid /\ 0 <= params'.maxRetries
     THEN pc' = "dial" /\ attempts' = 1 /\ UNCHANGED result
     ELSE /\ pc' = "done" /\ UNCHANGED attempts
          /\ result' = IF inputs.valid THEN "ok" ELSE "rejected"
  /\ late' = cancelled
  /\ UNCHANGED <<inputs, fired, cancelled, copies, silent, lostReply>>

\* An error of the network, of any command, is transient, and so are a failed
\* dial and a failed StartTLS whatever the reason; a failed Auth never is, nor
\* is a reply of the server ("refused") or the end of the connection.
smtpIsTransient(err) == err \in {"dial", "tls", "network"}

\* Fault: the attempt is made again without being counted.
FailsUncounted(err) ==
  IF smtpIsTransient(err)
  THEN pc' = "waiting" /\ fired' = FALSE /\ UNCHANGED <<attempts, result>>
  ELSE pc' = "done" /\ result' = "failed" /\ UNCHANGED <<attempts, fired>>

\* trySend returned err: wait for another attempt, or give up.
Fails(err) ==
  IF smtpIsTransient(err) /\ attempts <= params.maxRetries
  THEN pc' = "waiting" /\ attempts' = attempts + 1 /\ fired' = FALSE /\ UNCHANGED result
  ELSE pc' = "done" /\ result' = "failed" /\ UNCHANGED <<attempts, fired>>

TimerFires ==
  /\ pc = "waiting" /\ ~fired
  /\ fired' = TRUE
  /\ UNCHANGED <<pc, inputs, params, attempts, cancelled, result, copies, silent, late, lostReply>>

\* The select of the wait takes either of two ready channels: an attempt can
\* begin after the cancellation.
WakeTimer ==
  /\ pc = "waiting" /\ fired
  /\ pc' = "dial" /\ late' = cancelled
  /\ UNCHANGED <<inputs, params, attempts, fired, cancelled, result, copies, silent, lostReply>>

WakeCancelled ==
  /\ pc = "waiting" /\ cancelled
  /\ pc' = "done" /\ result' = "failed"
  /\ UNCHANGED <<inputs, params, attempts, fired, cancelled, copies, silent, late, lostReply>>

-----------------------------------------------------------------------------
(* trySend.                                                                *)

afterGreeting ==
  IF params.startTLS THEN "tls" ELSE IF params.auth THEN "auth" ELSE "mail"

after(command) ==
  CASE command = "tls" -> IF params.auth THEN "auth" ELSE "mail"
    [] command = "auth" -> "mail"
    [] command = "mail" -> "rcpt"
    [] command = "rcpt" -> "data"
    [] command = "data" -> "write"
    [] command = "write" -> "close"

errorsOf(command) ==
  CASE command = "tls" -> {"tls"}
    [] command = "auth" -> {"auth"}
    [] OTHER -> {"network", "refused"}

\* Fault: the dialler is not given the context.
DialAnyway ==
  /\ pc = "dial"
  /\ \/ pc' = "greeting" /\ UNCHANGED <<attempts, fired, result>>
     \/ Fails("dial")
  /\ UNCHANGED <<inputs, params, cancelled, copies, silent, late, lostReply>>

Dial ==
  /\ pc = "dial"
  /\ \/ ~cancelled /\ pc' = "greeting" /\ UNCHANGED <<attempts, fired, result>>
     \/ Fails("dial")
  /\ UNCHANGED <<inputs, params, cancelled, copies, silent, late, lostReply>>

\* smtp.NewClient reads the server's greeting.
Greet ==
  /\ pc = "greeting" /\ ~silent
  /\ \/ pc' = afterGreeting /\ UNCHANGED <<attempts, fired, result>>
     \/ \E err \in errorsOf("greeting") : Fails(err)
  /\ UNCHANGED <<inputs, params, cancelled, copies, silent, late, lostReply>>

\* rcpt stands for all the recipients: the first that is refused ends the
\* attempt.  After a failed write the closing dot cannot be sent either.
Command ==
  /\ pc \in Commands /\ ~silent
  /\ \/ pc' = after(pc) /\ UNCHANGED <<attempts, fired, result>>
     \/ \E err \in errorsOf(pc) : Fails(err)
  /\ UNCHANGED <<inputs, params, cancelled, copies, silent, late, lostReply>>

\* Fault: an error of the closing dot is taken for the end of the session.
CloseUnchecked ==
  /\ pc = "close" /\ ~silent
  /\ \E accepted \in {0, 1} : copies' = copies + accepted
  /\ pc' = "quit"
  /\ UNCHANGED <<inputs, params, attempts, fired, cancelled, result, silent, late, lostReply>>

\* w.Close ends the message and waits for the server's answer to it.
Close ==
  /\ pc = "close" /\ ~silent
  /\ \/ /\ pc' = "quit" /\ copies' = copies + 1
        /\ UNCHANGED <<attempts, fired, result, lostReply>>
     \/ \E err \in errorsOf(pc), accepted \in {0, 1} :
          /\ copies' = copies + accepted
          /\ lostReply' = (lostReply \/ accepted = 1)
          /\ Fails(err)
  /\ UNCHANGED <<inputs, params, cancelled, silent, late>>

\* Fault: the loop goes on after a success.
QuitAndRetry ==
  /\ pc = "quit" /\ ~silent
  /\ Fails("network")
  /\ UNCHANGED <<inputs, params, cancelled, copies, silent, late, lostReply>>

\* The error of QUIT is the attempt's, though the server has the message.
Quit ==
  /\ pc = "quit" /\ ~silent
  /\ \/ pc' = "done" /\ result' = "ok" /\ UNCHANGED <<attempts, fired, lostReply>>
     \/ \E err \in errorsOf(pc) : lostReply' = TRUE /\ Fails(err)
  /\ UNCHANGED <<inputs, params, cancelled, copies, silent, late>>

-----------------------------------------------------------------------------
\* No deadline is set on the connection: the command that waits for an answer
\* waits for ever, whatever becomes of the context.
FallSilent ==
  /\ pc \in Commands \cup {"greeting", "close", "quit"} /\ ~silent
  /\ silent' = TRUE
  /\ UNCHANGED <<pc, inputs, params, attempts, fired, cancelled, result, copies, late,
                 lostReply>>

Cancel ==
  /\ ~cancelled /\ pc # "done"
  /\ cancelled' = TRUE
  /\ UNCHANGED <<pc, inputs, params, attempts, fired, result, copies, silent, late, lostReply>>

Next ==
  \/ Execute \/ TimerFires \/ WakeTimer \/ WakeCancelled
  \/ Dial \/ Greet \/ Command \/ Close \/ Quit
  \/ FallSilent \/ Cancel

\* The goroutine runs, timers fire, and while the server is not silent a command
\* is answered or its connection breaks.
Fairness ==
  /\ WF_vars(Execute) /\ WF_vars(TimerFires) /\ WF_vars(WakeTimer)
  /\ WF_vars(Dial) /\ WF_vars(Greet) /\ WF_vars(Command)
  /\ WF_vars(Close) /\ WF_vars(Quit)

Spec == Init /\ [][Next]_vars /\ Fairness
-----------------------------------------------------------------------------
\* The variables have their types.
TypeOK ==
  /\ pc \in Commands \cup {"execute", "dial", "greeting", "close", "quit", "waiting", "done"}
  /\ inputs \in Inputs /\ params \in Params
  /\ attempts \in 0..11
  /\ fired \in BOOLEAN /\ cancelled \in BOOLEAN
  /\ silent \in BOOLEAN /\ late \in BOOLEAN /\ lostReply \in BOOLEAN
  /\ result \in {"none", "rejected", "failed", "ok"}
  /\ copies \in Nat

\* Only Execute's end makes a result, and an attempt in progress is counted and
\* within the retries allowed.
Counted ==
  /\ pc = "done" <=> result # "none"
  /\ pc = "execute" <=> attempts = 0 /\ result = "none"
  /\ attempts <= params.maxRetries + 1

\* A call that reports success has delivered, whatever maxRetries it is given, and
\* no attempt delivers twice: the ten retries allowed bound the copies too.
SuccessIsDelivered ==
  /\ result = "ok" => copies > 0
  /\ copies <= attempts /\ attempts <= 11

\* The retries neither duplicate a message nor report the failure of one that
\* was delivered, unless a reply of the server that followed its acceptance
\* was lost: then the call may do either.
DeliveredOnce ==
  ~lostReply => copies = IF pc = "quit" \/ result = "ok" THEN 1 ELSE 0

\* An attempt that begins after the context is cancelled never gets as far as
\* the server, although the wait may let it begin.
LateAttemptSendsNothing ==
  late => pc \in {"dial", "waiting", "done"}

\* Every call of the provider returns, unless a server that falls silent in the
\* middle of a session holds it: only the dialling and the waits are bounded.
EveryCallEnds == <>(pc = "done" \/ silent)

\* The inductive invariant of the proofs (SmtpProofs).
IInv ==
  /\ TypeOK
  /\ Counted
  /\ SuccessIsDelivered
  /\ DeliveredOnce
  /\ LateAttemptSendsNothing
  /\ late => cancelled
  /\ pc = "quit" => copies > 0
  /\ pc # "quit" /\ pc # "done" /\ pc # "waiting" => copies < attempts \/ pc = "execute"
  /\ pc = "waiting" => copies < attempts
=============================================================================
