------------------------------ MODULE McpProofs ------------------------------
(***************************************************************************)
(* Proofs about Mcp for any lines, any number of them, and any moment of   *)
(* the signal, of the hang-up and of the break of stdout.                  *)
(***************************************************************************)
EXTENDS Mcp, TLAPS

-----------------------------------------------------------------------------
(* What the operators return.                                              *)

LEMMA CallToolCode ==
  ASSUME NEW p PROVE CallTool(p) \in Codes \ {"none", "result", "methodNotFound"}
BY DEF CallTool, validateConfigTool, testCELExpression, renderTemplate, testReactor, Codes

LEMMA RequestCode == ASSUME NEW line PROVE handleRequest(line) \in Codes
BY CallToolCode DEF handleRequest, Codes

\* handleRequest returns a response to whatever a client waits for an answer to.
LEMMA ExpectedIsAnswered ==
  ASSUME NEW line, Expects(line)
  PROVE  handleRequest(line) # "none" /\ line.text \notin {"empty", "garbage"}
BY CallToolCode DEF handleRequest, Expects, Methods

\* The tools and the commands, which load and match in code of their own, agree.
LEMMA ToolsAgree ==
  ASSUME NEW p
  PROVE  /\ testCELExpression(p) = testMatchCmd(p)
         /\ renderTemplate(p) = testTemplateCmd(p)
         /\ validateConfigTool(p) = testConfigCmd(p)
         /\ testReactor(p) = testReactorCmd(p)
BY DEF testCELExpression, testMatchCmd, renderTemplate, testTemplateCmd,
       validateConfigTool, testConfigCmd, testReactor, testReactorCmd,
       validateConfig, testConfig, Load, Parse

\* The dry run and the server agree, of any reactor and any event.
LEMMA DryRunAgrees ==
  ASSUME NEW p, p.match \in {"true", "false", "error"}
  PROVE  /\ testReactor(p) = "inputs" => serves(p) \in Resolved \cup {"disabled"}
         /\ testReactor(p) = "noMatch" => serves(p) \in {"skipped", "disabled"}
         /\ serves(p) \in Resolved /\ p.found /\ p.typed /\ testConfig(p.cfg)
              => testReactor(p) = "inputs"
BY DEF testReactor, serves, Resolved, testConfig, Load

-----------------------------------------------------------------------------
(* The loop.                                                               *)

LEMMA InitIInv == Init => IInv
<1> SUFFICES ASSUME Init PROVE IInv
  OBVIOUS
<1>1. closed \in BOOLEAN /\ broken \in BOOLEAN /\ cancelled \in BOOLEAN
  BY Zenon DEF Init
<1>2. QED
  BY <1>1 DEF Init, IInv, TypeOK, InHand, OwnAnswer, BegunInTime, AnsweredInTurn,
              NothingBegunAfterCancel, Codes, Busy

\* The answers are to lines before the one in hand.
LEMMA AnswersBehind ==
  ASSUME IInv
  PROVE  /\ DOMAIN out = 1..Len(out) /\ Len(out) \in Nat
         /\ \A i \in DOMAIN out : out[i].line \in 1..scanned
         /\ pc \in Busy => \A i \in DOMAIN out : out[i].line \in 1..(scanned - 1)
         /\ \A i \in DOMAIN out : lines[out[i].line] \in Lines
<1>1. DOMAIN out = 1..Len(out) /\ Len(out) \in Nat
  BY DEF IInv, TypeOK
<1>2. \A i \in DOMAIN out : out[i] \in [line : Nat \ {0}, id : BOOLEAN, code : Codes]
  <2> DEFINE Answer == [line : Nat \ {0}, id : BOOLEAN, code : Codes]
  <2>1. out \in Seq(Answer)
    BY DEF IInv, TypeOK
  <2> SUFFICES \A i \in DOMAIN out : out[i] \in Answer
    OBVIOUS
  <2> HIDE DEF Answer
  <2>2. QED BY <2>1
<1>3. \A i \in DOMAIN out : out[i].line \in Nat \ {0}
  BY <1>2
<1>4. \A i \in DOMAIN out : out[i].line \in 1..scanned
  BY <1>3 DEF IInv, TypeOK, InHand
<1>5. pc \in Busy => \A i \in DOMAIN out : out[i].line \in 1..(scanned - 1)
  BY <1>3 DEF IInv, TypeOK, InHand
<1>6. \A i \in DOMAIN out : lines[out[i].line] \in Lines
  BY <1>4 DEF IInv, TypeOK
<1>7. QED BY <1>1, <1>4, <1>5, <1>6

\* Lines that are there stay as they are while the client writes more.
LEMMA WrittenStays ==
  ASSUME IInv, NEW line \in Lines, lines' = Append(lines, line)
  PROVE  /\ lines' \in Seq(Lines) /\ Len(lines') = Len(lines) + 1
         /\ \A k \in 1..Len(lines) : lines'[k] = lines[k]
BY DEF IInv, TypeOK

LEMMA ClientStep ==
  ASSUME IInv, NEW line \in Lines, ClientWrites(line)
  PROVE  IInv'
<1>1. /\ lines' \in Seq(Lines) /\ Len(lines') = Len(lines) + 1
      /\ \A k \in 1..Len(lines) : lines'[k] = lines[k]
      /\ UNCHANGED <<closed, broken, cancelled, scanned, pc, resp, out, ret, begun>>
  BY WrittenStays DEF ClientWrites
<1>2. \A i \in DOMAIN out : out[i].line \in 1..scanned
  BY AnswersBehind
<1>3. TypeOK' /\ BegunInTime' /\ NothingBegunAfterCancel'
  <2>1. Len(lines') \in Nat
    BY <1>1 DEF IInv, TypeOK
  <2>2. QED BY <1>1, <2>1 DEF IInv, TypeOK, BegunInTime, NothingBegunAfterCancel
<1>4. /\ \A k \in 1..scanned : lines'[k] = lines[k]
      /\ scanned > 0 => scanned \in 1..scanned
  BY <1>1 DEF IInv, TypeOK
<1>5. InHand'
  BY <1>1, <1>4 DEF IInv, TypeOK, InHand, Busy
<1>6. OwnAnswer' /\ AnsweredInTurn'
  BY <1>1, <1>2, <1>4 DEF IInv, OwnAnswer, AnsweredInTurn
<1>7. QED BY <1>3, <1>5, <1>6 DEF IInv

\* What the client and the signal do besides leaves the loop where it is.
LEMMA WorldStep ==
  ASSUME IInv, HangUp \/ StdoutBreaks \/ Cancel \/ UNCHANGED vars
  PROVE  IInv'
<1>1. UNCHANGED <<lines, scanned, pc, resp, out, ret>>
  BY DEF HangUp, StdoutBreaks, Cancel, vars
<1>2. TypeOK' /\ InHand' /\ OwnAnswer' /\ AnsweredInTurn'
  <2>1. begun' \in Nat
    BY DEF IInv, TypeOK, InHand, Busy, HangUp, StdoutBreaks, Cancel, vars
  <2>2. closed' \in BOOLEAN /\ broken' \in BOOLEAN /\ cancelled' \in BOOLEAN
    BY Zenon DEF IInv, TypeOK, HangUp, StdoutBreaks, Cancel, vars
  <2>3. QED BY <1>1, <2>1, <2>2 DEF IInv, TypeOK, InHand, OwnAnswer, AnsweredInTurn
<1>3. BegunInTime' /\ NothingBegunAfterCancel'
  <2>1. CASE Cancel
    BY <1>1, <2>1, AnswersBehind
       DEF IInv, TypeOK, InHand, Busy, BegunInTime, NothingBegunAfterCancel, Cancel
  <2>2. CASE UNCHANGED <<cancelled, begun>>
    BY <1>1, <2>2 DEF IInv, BegunInTime, NothingBegunAfterCancel
  <2>3. QED BY <2>1, <2>2 DEF HangUp, StdoutBreaks, vars
<1>4. QED BY <1>2, <1>3 DEF IInv

LEMMA ScanStep == ASSUME IInv, Scan PROVE IInv'
<1>1. CASE scanned' = scanned + 1
  BY <1>1, AnswersBehind DEF IInv, TypeOK, InHand, OwnAnswer, BegunInTime, AnsweredInTurn,
              NothingBegunAfterCancel, Scan, End, Busy, world
<1>2. CASE UNCHANGED scanned
  BY <1>2 DEF IInv, TypeOK, InHand, OwnAnswer, BegunInTime, AnsweredInTurn,
              NothingBegunAfterCancel, Scan, End, Busy, world
<1>3. QED BY <1>1, <1>2 DEF Scan

LEMMA CheckStep == ASSUME IInv, CheckContext PROVE IInv'
BY DEF IInv, TypeOK, InHand, OwnAnswer, BegunInTime, AnsweredInTurn,
       NothingBegunAfterCancel, CheckContext, End, Busy, world

LEMMA HandleStep == ASSUME IInv, Handle PROVE IInv'
<1>1. resp' \in Codes /\ (resp' # "none" => resp' = handleRequest(lines[scanned]))
  BY RequestCode DEF Handle, Codes
<1>2. Expects(lines[scanned]) => resp' # "none"
  BY ExpectedIsAnswered DEF Handle
<1>3. TypeOK' /\ InHand' /\ OwnAnswer' /\ BegunInTime' /\ NothingBegunAfterCancel'
  BY <1>1 DEF IInv, TypeOK, InHand, OwnAnswer, BegunInTime, NothingBegunAfterCancel,
              Handle, Busy, world
<1>4. AnsweredInTurn'
  BY <1>2 DEF IInv, TypeOK, AnsweredInTurn, Handle, world
<1>5. QED BY <1>3, <1>4 DEF IInv

LEMMA WriteStep == ASSUME IInv, Write PROVE IInv'
<1>1. CASE broken
  BY <1>1 DEF IInv, TypeOK, InHand, OwnAnswer, BegunInTime, AnsweredInTurn,
              NothingBegunAfterCancel, Write, End, Codes, Busy, world
<1>2. CASE ~broken
  <2> DEFINE answer == [line |-> scanned, id |-> lines[scanned].id, code |-> resp]
  <2>1. /\ out' = Append(out, answer) /\ pc = "write" /\ pc' = "scan" /\ resp' = "none"
        /\ UNCHANGED <<world, scanned, ret>>
    BY <1>2 DEF Write
  <2>2. answer \in [line : Nat \ {0}, id : BOOLEAN, code : Codes]
    <3>1. lines[scanned] \in Lines
      BY <2>1 DEF IInv, TypeOK, InHand, Busy
    <3>2. lines[scanned].id \in BOOLEAN
      BY <3>1, McpAssumption DEF LineKinds
    <3>3. QED BY <2>1, <3>2 DEF IInv, TypeOK, InHand, Busy
  <2>3. /\ out' \in Seq([line : Nat \ {0}, id : BOOLEAN, code : Codes])
        /\ Len(out') = Len(out) + 1 /\ DOMAIN out' = 1..Len(out')
        /\ DOMAIN out = 1..Len(out)
        /\ \A i \in DOMAIN out : out'[i] = out[i]
        /\ out'[Len(out')].line = scanned /\ out'[Len(out')].code = resp
    BY <2>1, <2>2 DEF IInv, TypeOK
  <2>4. TypeOK'
    BY <2>1, <2>3 DEF IInv, TypeOK, Codes, world
  <2>5. InHand' /\ OwnAnswer' /\ BegunInTime' /\ NothingBegunAfterCancel'
    BY <2>1, <2>3 DEF IInv, TypeOK, InHand, OwnAnswer, BegunInTime,
                      NothingBegunAfterCancel, Busy, world
  <2>6. AnsweredInTurn'
    <3>1. \A i \in DOMAIN out : out'[i].line \in 1..(scanned - 1)
      BY <2>1, <2>3, AnswersBehind DEF Busy
    <3>2. \A i, j \in DOMAIN out' : i < j => out'[i].line < out'[j].line
      <4> SUFFICES ASSUME NEW i \in DOMAIN out', NEW j \in DOMAIN out', i < j
                   PROVE  out'[i].line < out'[j].line
        OBVIOUS
      <4>1. i \in DOMAIN out
        BY <2>3, AnswersBehind
      <4>2. CASE j \in DOMAIN out
        BY <2>3, <4>1, <4>2 DEF IInv, AnsweredInTurn
      <4>3. CASE j = Len(out')
        BY <2>3, <3>1, <4>1, <4>3 DEF IInv, TypeOK
      <4>4. QED BY <2>3, <4>2, <4>3, AnswersBehind
    <3>3. ASSUME NEW k \in 1..scanned, Expects(lines[k])
          PROVE  \E i \in DOMAIN out' : out'[i].line = k
      <4>1. CASE k = scanned
        BY <2>3, <4>1, AnswersBehind
      <4>2. CASE k # scanned
        BY <2>3, <3>3, <4>2, AnswersBehind DEF IInv, AnsweredInTurn
      <4>3. QED BY <4>1, <4>2
    <3>4. QED BY <2>1, <3>2, <3>3 DEF AnsweredInTurn, world
  <2>7. QED BY <2>4, <2>5, <2>6 DEF IInv
<1>3. QED BY <1>1, <1>2

LEMMA IInvStep == IInv /\ [Next]_vars => IInv'
BY ClientStep, WorldStep, ScanStep, CheckStep, HandleStep, WriteStep DEF Next, Server

-----------------------------------------------------------------------------
\* The loop, the line in hand and the answers agree in every reachable state.
THEOREM Invariance == Spec => []IInv
<1>1. QED BY InitIInv, IInvStep, PTL DEF Spec

\* Answers come in the order of the requests, once each and none passed over.
THEOREM AnsweredInTurnHolds == Spec => []AnsweredInTurn
<1>1. IInv => AnsweredInTurn
  BY DEF IInv
<1>2. QED BY <1>1, Invariance, PTL

\* Nothing that the signal came before is carried out.
THEOREM NothingBegunAfterCancelHolds == Spec => []NothingBegunAfterCancel
<1>1. IInv => NothingBegunAfterCancel
  BY DEF IInv
<1>2. QED BY <1>1, Invariance, PTL

\* A dry run says what the server makes of match and inputs, and a tool what its
\* command says.
THEOREM DryRunIsFaithfulHolds == Spec => []DryRunIsFaithful
<1>1. IInv => DryRunIsFaithful
  <2> SUFFICES ASSUME IInv, NEW i \in DOMAIN out,
                      lines[out[i].line].text = "tools/call",
                      lines[out[i].line].params.decode
               PROVE  LET p == lines[out[i].line].params
                          code == out[i].code
                      IN /\ p.tool = "test_cel_expression" => code = testMatchCmd(p)
                         /\ p.tool = "render_template" => code = testTemplateCmd(p)
                         /\ p.tool = "validate_config" => code = testConfigCmd(p)
                         /\ p.tool = "test_reactor" =>
                              /\ code = testReactorCmd(p)
                              /\ code = "inputs" => serves(p) \in Resolved \cup {"disabled"}
                              /\ code = "noMatch" => serves(p) \in {"skipped", "disabled"}
                              /\ serves(p) \in Resolved /\ p.found /\ p.typed
                                   /\ testConfig(p.cfg) => code = "inputs"
    BY DEF DryRunIsFaithful
  <2> DEFINE p == lines[out[i].line].params
  <2>1. out[i].code = CallTool(p)
    BY DEF IInv, OwnAnswer, handleRequest
  <2>2. /\ p.tool = "test_cel_expression" => out[i].code = testCELExpression(p)
        /\ p.tool = "render_template" => out[i].code = renderTemplate(p)
        /\ p.tool = "validate_config" => out[i].code = validateConfigTool(p)
        /\ p.tool = "test_reactor" => out[i].code = testReactor(p)
    BY <2>1 DEF CallTool
  <2>3. p.match \in {"true", "false", "error"}
    <3>1. p \in Params
      BY AnswersBehind, McpAssumption DEF LineKinds
    <3>2. QED BY <3>1 DEF Params
  <2>4. QED BY <2>2, <2>3, ToolsAgree, DryRunAgrees
<1>2. QED BY <1>1, Invariance, PTL
=============================================================================
