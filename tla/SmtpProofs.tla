----------------------------- MODULE SmtpProofs -----------------------------
(***************************************************************************)
(* Proofs about Smtp, for every set of maxRetries values: the inductive    *)
(* invariant IInv and the properties it contains.  An attempt's outcome    *)
(* reaches the variables through Fails alone, so the lemmas say first what *)
(* Fails does; each action then only has its own part to show.             *)
(***************************************************************************)
EXTENDS Smtp, TLAPS

\* parseSMTPInput clamps maxRetries: whatever the input, smtpParams are sound.
LEMMA ParseType ==
  ASSUME NEW in \in Inputs PROVE parseSMTPInput(in) \in Params
  <1> DEFINE p == parseSMTPInput(in)
  <1>1. in.maxRetries \in Int
    BY SmtpAssumption DEF Inputs
  <1>2. p.maxRetries \in 0..10
    BY <1>1 DEF parseSMTPInput
  <1>3. in.username \in BOOLEAN /\ in.password \in BOOLEAN /\ in.header \in BOOLEAN
    BY DEF Inputs
  <1>4. p.startTLS \in BOOLEAN
    BY <1>3, Zenon DEF parseSMTPInput
  <1>5. p.auth \in BOOLEAN
    BY <1>3, Zenon DEF parseSMTPInput
  <1>6. p = [startTLS |-> p.startTLS, auth |-> p.auth, maxRetries |-> p.maxRetries]
    BY DEF parseSMTPInput
  <1> HIDE DEF p
  <1>7. p \in Params
    BY <1>2, <1>4, <1>5, <1>6 DEF Params
  <1> QED
    BY <1>7 DEF p

\* What Fails leaves behind: a further attempt, counted and allowed, or the end.
Outcome ==
  \/ /\ pc' = "waiting" /\ attempts' = attempts + 1
     /\ result' = "none" /\ attempts <= params.maxRetries
  \/ pc' = "done" /\ result' = "failed" /\ attempts' = attempts

LEMMA FailsOutcome ==
  ASSUME NEW err, TypeOK, Fails(err), result = "none"
  PROVE Outcome /\ fired' \in BOOLEAN
  <1>1. fired \in BOOLEAN
    BY DEF TypeOK
  <1>2. fired' \in BOOLEAN
    BY <1>1 DEF Fails
  <1>3. Outcome
    BY DEF Fails, Outcome
  <1> QED
    BY <1>2, <1>3

LEMMA InitIInv == Init => IInv
  <1> SUFFICES ASSUME Init PROVE IInv
    OBVIOUS
  <1>1. params \in Params
    BY DEF Init, Params
  <1>2. inputs \in Inputs
    BY DEF Init
  <1>3. /\ params \in Params /\ inputs \in Inputs
        /\ pc = "execute" /\ result = "none" /\ attempts = 0 /\ copies = 0
        /\ fired \in BOOLEAN /\ cancelled \in BOOLEAN /\ late \in BOOLEAN
        /\ silent \in BOOLEAN /\ lostReply \in BOOLEAN
    BY <1>1, <1>2 DEF Init
  <1>4. TypeOK
    BY <1>3 DEF TypeOK
  <1> QED
    BY <1>1, <1>4 DEF Init, Params, IInv, Counted, SuccessIsDelivered, DeliveredOnce,
                LateAttemptSendsNothing

LEMMA StepIInv == IInv /\ [Next]_vars => IInv'
  <1> SUFFICES ASSUME IInv, [Next]_vars PROVE IInv'
    OBVIOUS
  <1> USE DEF IInv, Counted, SuccessIsDelivered, DeliveredOnce,
              LateAttemptSendsNothing
  <1>t. TypeOK /\ params.maxRetries \in 0..10
    BY DEF TypeOK, Params
  <1>1. CASE Execute
    <2>1. params' \in Params
      BY <1>1, <1>t, ParseType DEF Execute, TypeOK
    <2>2. params'.maxRetries \in 0..10
      BY <2>1 DEF Params
    <2>3. late' \in BOOLEAN
      BY <1>1, <1>t DEF Execute, TypeOK
    <2>4. TypeOK'
      BY <1>1, <1>t, <2>1, <2>2, <2>3 DEF Execute, TypeOK, Commands
    <2> QED
      BY <1>1, <1>t, <2>2, <2>4 DEF Execute, TypeOK, Commands
  <1>2. CASE TimerFires \/ WakeTimer \/ WakeCancelled
    <2>1. late' \in BOOLEAN /\ fired' \in BOOLEAN
      BY <1>2, <1>t DEF TimerFires, WakeTimer, WakeCancelled, TypeOK
    <2>2. TypeOK'
      BY <1>2, <1>t, <2>1 DEF TimerFires, WakeTimer, WakeCancelled, TypeOK, Commands
    <2> QED
      BY <1>2, <1>t, <2>2 DEF TimerFires, WakeTimer, WakeCancelled, TypeOK, Commands
  <1>3. CASE Dial \/ Greet \/ Command
    <2>1. /\ UNCHANGED <<inputs, params, cancelled, copies, silent, late, lostReply>>
          /\ pc \in Commands \cup {"dial", "greeting"}
      BY <1>3 DEF Dial, Greet, Command
    <2>2. ASSUME NEW err, Fails(err) PROVE IInv'
      <3>1. /\ result = "none" /\ pc # "done" /\ pc # "execute" /\ pc # "quit"
            /\ copies < attempts /\ (lostReply \/ copies = 0)
        BY <2>1 DEF Commands
      <3>2. Outcome /\ fired' \in BOOLEAN
        BY <1>t, <2>2, <3>1, FailsOutcome
      <3>3. TypeOK'
        BY <1>t, <2>1, <3>1, <3>2 DEF TypeOK, Outcome
      <3> QED
        BY <1>t, <2>1, <3>1, <3>2, <3>3 DEF TypeOK, Outcome
    <2>3. ASSUME UNCHANGED <<attempts, fired, result>>,
                 pc' \in Commands \cup {"greeting", "close"},
                 pc = "dial" => ~cancelled, ~late
          PROVE IInv'
      <3>1. TypeOK'
        BY <1>t, <2>1, <2>3 DEF TypeOK, Commands
      <3> QED
        BY <1>t, <2>1, <2>3, <3>1 DEF TypeOK, Commands
    <2>4. CASE Dial
      <3>1. ~cancelled => ~late
        OBVIOUS
      <3> QED
        BY <2>2, <2>3, <2>4, <3>1 DEF Dial
    <2>5. CASE Greet
      <3>1. afterGreeting \in Commands
        BY DEF afterGreeting, Commands
      <3> QED
        BY <2>2, <2>3, <2>5, <3>1 DEF Greet
    <2>6. CASE Command
      <3>1. after(pc) \in Commands \cup {"close"} /\ pc \in Commands
        BY <2>6 DEF Command, after, Commands
      <3>2. pc # "dial" /\ ~late
        BY <3>1 DEF Commands
      <3> QED
        BY <2>2, <2>3, <2>6, <3>1, <3>2 DEF Command
    <2> QED
      BY <1>3, <2>4, <2>5, <2>6
  <1>4. CASE Close
    <2>1. /\ pc = "close" /\ result = "none" /\ copies < attempts
          /\ attempts \in 1..11 /\ ~late /\ (lostReply \/ copies = 0)
          /\ UNCHANGED <<inputs, params, cancelled, silent, late>>
      BY <1>4, <1>t DEF Close, TypeOK
    <2>2. CASE /\ pc' = "quit" /\ copies' = copies + 1
               /\ UNCHANGED <<attempts, fired, result, lostReply>>
      <3>1. TypeOK'
        BY <1>t, <2>1, <2>2 DEF TypeOK
      <3> QED
        BY <1>t, <2>1, <2>2, <3>1 DEF TypeOK
    <2>3. ASSUME NEW err, NEW accepted \in {0, 1}, copies' = copies + accepted,
                 lostReply' = (lostReply \/ accepted = 1), Fails(err)
          PROVE IInv'
      <3>1. Outcome /\ fired' \in BOOLEAN
        BY <1>t, <2>1, <2>3, FailsOutcome
      <3>2. lostReply' \in BOOLEAN
        BY <2>3, Zenon
      <3>3. copies' \in Nat /\ copies' <= attempts
        BY <1>t, <2>1, <2>3 DEF TypeOK
      <3>4. CASE accepted = 1
        <4>1. lostReply'
          BY <2>3, <3>4
        <4> QED
          BY <1>t, <2>1, <3>1, <3>2, <3>3, <4>1 DEF TypeOK, Outcome
      <3>5. CASE accepted = 0
        <4>1. copies' = copies
          BY <1>t, <2>3, <3>5 DEF TypeOK
        <4>2. lostReply' \/ copies' = 0
          BY <2>1, <2>3, <4>1
        <4> QED
          BY <1>t, <2>1, <3>1, <3>2, <3>3, <4>2 DEF TypeOK, Outcome
      <3> QED
        BY <3>4, <3>5
    <2> QED
      BY <1>4, <2>2, <2>3 DEF Close
  <1>5. CASE Quit
    <2>1. /\ pc = "quit" /\ result = "none" /\ copies \in Nat \ {0} /\ copies <= attempts
          /\ attempts \in 1..11 /\ ~late
          /\ UNCHANGED <<inputs, params, cancelled, copies, silent, late>>
      BY <1>5, <1>t DEF Quit, TypeOK
    <2>2. CASE pc' = "done" /\ result' = "ok" /\ UNCHANGED <<attempts, fired, lostReply>>
      <3>1. TypeOK'
        BY <1>t, <2>1, <2>2 DEF TypeOK
      <3> QED
        BY <1>t, <2>1, <2>2, <3>1 DEF TypeOK
    <2>3. ASSUME NEW err, lostReply' = TRUE, Fails(err) PROVE IInv'
      <3>1. Outcome /\ fired' \in BOOLEAN
        BY <1>t, <2>1, <2>3, FailsOutcome
      <3> QED
        BY <1>t, <2>1, <2>3, <3>1 DEF TypeOK, Outcome
    <2> QED
      BY <1>5, <2>2, <2>3 DEF Quit
  <1>6. CASE FallSilent \/ Cancel
    <2>1. silent' \in BOOLEAN /\ cancelled' \in BOOLEAN
      BY <1>6, <1>t DEF FallSilent, Cancel, TypeOK
    <2> QED
      BY <1>6, <1>t, <2>1 DEF FallSilent, Cancel, TypeOK, Commands
  <1>7. CASE UNCHANGED vars
    BY <1>7, <1>t DEF vars, TypeOK
  <1> QED
    BY <1>1, <1>2, <1>3, <1>4, <1>5, <1>6, <1>7 DEF Next

\* The invariant holds in every reachable state.
THEOREM Invariance == Spec => []IInv
  <1>1. QED
    BY InitIInv, StepIInv, PTL DEF Spec

\* A call that reports success has delivered, and no attempt delivers twice, of
\* which there are eleven at most, for any integer given as maxRetries.
THEOREM SuccessIsDeliveredHolds == Spec => []SuccessIsDelivered
  <1>1. IInv => SuccessIsDelivered
    BY DEF IInv
  <1>2. QED
    BY <1>1, Invariance, PTL

\* Only a reply lost after the server accepted duplicates or disowns a message.
THEOREM DeliveredOnceHolds == Spec => []DeliveredOnce
  <1>1. IInv => DeliveredOnce
    BY DEF IInv
  <1>2. QED
    BY <1>1, Invariance, PTL

\* An attempt begun after the cancellation ends at its dial.
THEOREM LateAttemptSendsNothingHolds == Spec => []LateAttemptSendsNothing
  <1>1. IInv => LateAttemptSendsNothing
    BY DEF IInv
  <1>2. QED
    BY <1>1, Invariance, PTL
=============================================================================
