---------------------------- MODULE PubSubProofs ----------------------------
(***************************************************************************)
(* Proofs about PubSub for every set of messages, reactors and slots, and  *)
(* any number of faults of any kind.                                       *)
(***************************************************************************)
EXTENDS PubSub, TLAPS

Results == Seq([reactor : Reactors, error : Outcomes])

\* The process is down with nothing in memory.
DownInv == proc = "down" => acks = {} /\ \A s \in Slots : stage[s] = "free"

\* What a report adds to a call.
LEMMA ReportEffect ==
  ASSUME TypeOK, NEW s \in Slots, NEW r \in Reactors, Adapter!Report(s, r)
  PROVE  /\ results' \in [Slots -> Results]
         /\ Adapter!Reported(s)' = Adapter!Reported(s) \cup {r}
         /\ \A t \in Slots \ {s} : results'[t] = results[t]
         /\ UNCHANGED <<phase, due>>
         /\ phase[s] = "running"
<1>1. PICK e \in Outcomes :
        results' = [results EXCEPT ![s] = Append(results[s], [reactor |-> r, error |-> e])]
  BY DEF Adapter!Report
<1> DEFINE x == [reactor |-> r, error |-> e]
           n == Len(results[s])
<1>2. results[s] \in Results /\ x \in [reactor : Reactors, error : Outcomes]
  BY DEF TypeOK, Results
<1>3. Append(results[s], x) \in Results
  BY <1>2 DEF Results
<1>4. results' \in [Slots -> Results]
  BY <1>1, <1>3 DEF TypeOK, Results
<1>5. results'[s] = Append(results[s], x)
  BY <1>1 DEF TypeOK
<1>6. /\ n \in Nat /\ DOMAIN results[s] = 1..n /\ DOMAIN results'[s] = 1..(n + 1)
      /\ results'[s][n + 1] = x
      /\ \A k \in 1..n : results'[s][k] = results[s][k]
  BY <1>2, <1>5 DEF Results
<1>7. Adapter!Reported(s)' = Adapter!Reported(s) \cup {r}
  <2> HIDE DEF n
  <2>1. 1..(n + 1) = 1..n \cup {n + 1}
    BY <1>6
  <2>2. x.reactor = r
    OBVIOUS
  <2> HIDE DEF x
  <2>3. QED BY <1>6, <2>1, <2>2 DEF Adapter!Reported
<1>8. QED BY <1>1, <1>4, <1>7 DEF Adapter!Report, TypeOK

LEMMA InitIInv == Init => IInv
<1> SUFFICES ASSUME Init PROVE IInv
  OBVIOUS
<1> USE PubSubAssumption DEF Init, Adapter!Init
<1>1. TypeOK
  BY DEF TypeOK
<1>2. SlotInv
  BY DEF SlotInv
<1>3. AckedIsReported /\ UnconvertibleIsKept /\ NoMessageForgotten
  BY DEF AckedIsReported, UnconvertibleIsKept, NoMessageForgotten
<1>4. OrphanInv
  BY DEF OrphanInv
<1>5. QED BY <1>1, <1>2, <1>3, <1>4 DEF IInv

LEMMA FaultType == ASSUME TypeOK, NEW kind, Fault(kind) PROVE faults' \in 0..MaxFaults
BY PubSubAssumption DEF TypeOK, Fault

\* What is remembered of a report keeps its type and takes nothing back.
LEMMA RememberEffect ==
  ASSUME TypeOK, NEW m \in Messages, NEW r \in Reactors, NEW error, Remember(m, r, error)
  PROVE  /\ reported' \in [Messages -> SUBSET Reactors]
         /\ succeeded' \in [Messages -> SUBSET Reactors]
         /\ reported'[m] = reported[m] \cup {r}
         /\ \A x \in Messages : reported[x] \subseteq reported'[x]
         /\ \A x \in Messages \ {m} : reported'[x] = reported[x]
<1>1. reported' = [reported EXCEPT ![m] = reported[m] \cup {r}]
  BY DEF Remember
<1>2. /\ reported' \in [Messages -> SUBSET Reactors]
      /\ reported'[m] = reported[m] \cup {r}
      /\ \A x \in Messages \ {m} : reported'[x] = reported[x]
  BY <1>1 DEF TypeOK
<1>3. succeeded' \in [Messages -> SUBSET Reactors]
  BY DEF Remember, TypeOK
<1>4. QED BY <1>2, <1>3

\* A call that panics leaves goroutines behind, all of them for its own message.
LEMMA AbandonEffect ==
  ASSUME TypeOK, NEW s \in Slots, slot[s] \in Messages, Abandon(s)
  PROVE  /\ orphans' \subseteq Messages \X Reactors
         /\ \A o \in orphans' : o \in orphans \/ o[1] = slot[s]
         /\ phase' = [phase EXCEPT ![s] = "idle"]
         /\ due' = [due EXCEPT ![s] = {}]
         /\ results' = [results EXCEPT ![s] = <<>>]
<1>1. PICK started \in SUBSET (due[s] \ Adapter!Reported(s)) :
        orphans' = orphans \cup {<<slot[s], r>> : r \in started}
  BY DEF Abandon
<1>2. started \subseteq Reactors
  BY DEF TypeOK
<1>3. QED BY <1>1, <1>2 DEF Abandon, TypeOK

LEMMA TypeStep == IInv /\ [Next]_vars => TypeOK'
<1> SUFFICES ASSUME IInv, [Next]_vars PROVE TypeOK'
  OBVIOUS
<1>a. TypeOK /\ SlotInv
  BY DEF IInv
<1> USE PubSubAssumption
<1>1. CASE Start
  BY <1>a, <1>1 DEF Start, call, TypeOK
<1>2. ASSUME NEW s \in Slots, NEW m \in Messages, Pull(s, m) PROVE TypeOK'
  BY <1>a, <1>2 DEF Pull, call, TypeOK
<1>3. ASSUME NEW m \in Messages, FlushAck(m) PROVE TypeOK'
  BY <1>a, <1>3 DEF FlushAck, call, TypeOK
<1>4. ASSUME NEW m \in Messages, LeaseExpires(m) PROVE TypeOK'
  <2>1. faults' \in 0..MaxFaults
    BY <1>a, <1>4, FaultType DEF LeaseExpires
  <2>2. QED BY <1>a, <1>4, <2>1 DEF LeaseExpires, call, TypeOK
<1>5. CASE Shutdown
  <2>1. faults' \in 0..MaxFaults
    BY <1>a, <1>5, FaultType DEF Shutdown
  <2>2. QED BY <1>a, <1>5, <2>1 DEF Shutdown, call, TypeOK
<1>6. CASE Stop
  BY <1>a, <1>6 DEF Stop, call, TypeOK
<1>7. ASSUME Die, NEW kind, Fault(kind) PROVE TypeOK'
  <2>1. faults' \in 0..MaxFaults
    BY <1>a, <1>7, FaultType
  <2>2. phase' \in [Slots -> {"idle", "running", "returned"}]
        /\ due' \in [Slots -> SUBSET Reactors] /\ results' \in [Slots -> Results]
    BY <1>7 DEF Die, Adapter!Crash, Results
  <2>3. status' \in [Messages -> {"pending", "leased", "acked"}]
    BY <1>a, <1>7 DEF Die, TypeOK
  <2>4. /\ proc' = "down" /\ slot' = [s \in Slots |-> None]
        /\ stage' = [s \in Slots |-> "free"] /\ acks' = {} /\ orphans' = {}
        /\ UNCHANGED <<reported, succeeded>>
    BY <1>7 DEF Die
  <2>5. QED BY <1>a, <2>1, <2>2, <2>3, <2>4 DEF TypeOK, Results
<1>8. ASSUME NEW s \in Slots, Reject(s) PROVE TypeOK'
  BY <1>a, <1>8 DEF Reject, Nack, Free, call, TypeOK
<1>9. ASSUME NEW s \in Slots, Handle(s) PROVE TypeOK'
  <2>1. /\ phase' \in [Slots -> {"idle", "running", "returned"}]
        /\ due' \in [Slots -> SUBSET Reactors]
        /\ results' \in [Slots -> Results]
    <3>1. PICK D \in SUBSET Reactors : due' = [due EXCEPT ![s] = D]
      BY <1>9 DEF Handle, Adapter!Begin
    <3>2. due' \in [Slots -> SUBSET Reactors]
      BY <1>a, <3>1 DEF TypeOK
    <3>3. <<>> \in Results
      BY DEF Results
    <3>4. QED BY <1>a, <1>9, <3>2, <3>3 DEF Handle, Adapter!Begin, TypeOK, Results
  <2>2. stage' \in [Slots -> {"free", "dispatch", "handler", "ack"}]
    BY <1>a, <1>9 DEF Handle, TypeOK
  <2>3. UNCHANGED <<status, proc, slot, orphans, acks, reported, succeeded, faults>>
    BY <1>9 DEF Handle
  <2>4. QED BY <1>a, <2>1, <2>2, <2>3 DEF TypeOK, Results
<1>10. ASSUME NEW s \in Slots, NEW r \in Reactors, Report(s, r) PROVE TypeOK'
  <2>1. results' \in [Slots -> Results] /\ UNCHANGED <<phase, due>>
    BY <1>a, <1>10, ReportEffect DEF Report
  <2>2. slot[s] \in Messages
    BY <1>a, <1>10 DEF Report, SlotInv
  <2>3. /\ reported' \in [Messages -> SUBSET Reactors]
        /\ succeeded' \in [Messages -> SUBSET Reactors]
    BY <1>a, <1>10, <2>2, RememberEffect DEF Report
  <2>4. UNCHANGED <<status, proc, slot, stage, orphans, acks, faults>>
    BY <1>10 DEF Report
  <2>5. QED BY <1>a, <2>1, <2>3, <2>4 DEF TypeOK, Results
<1>11. ASSUME NEW s \in Slots, HandlerReturns(s) PROVE TypeOK'
  <2>1. /\ phase' \in [Slots -> {"idle", "running", "returned"}]
        /\ stage' \in [Slots -> {"free", "dispatch", "handler", "ack"}]
        /\ UNCHANGED <<due, results>>
    BY <1>a, <1>11 DEF HandlerReturns, Adapter!Return, TypeOK
  <2>2. UNCHANGED <<status, proc, slot, orphans, acks, reported, succeeded, faults>>
    BY <1>11 DEF HandlerReturns
  <2>3. QED BY <1>a, <2>1, <2>2 DEF TypeOK
<1>12. ASSUME NEW s \in Slots, HandlerPanics(s) PROVE TypeOK'
  <2>1. faults' \in 0..MaxFaults
    BY <1>a, <1>12, FaultType DEF HandlerPanics
  <2>a. slot[s] \in Messages
    BY <1>a, <1>12 DEF HandlerPanics, SlotInv
  <2>b. /\ orphans' \subseteq Messages \X Reactors
        /\ phase' = [phase EXCEPT ![s] = "idle"]
        /\ due' = [due EXCEPT ![s] = {}]
        /\ results' = [results EXCEPT ![s] = <<>>]
    BY <1>a, <1>12, <2>a, AbandonEffect DEF HandlerPanics
  <2>2. results' \in [Slots -> Results]
    <3>1. <<>> \in Results
      BY DEF Results
    <3>2. QED BY <1>a, <2>b, <3>1 DEF TypeOK, Results
  <2>3. status' \in [Messages -> {"pending", "leased", "acked"}]
    BY <1>a, <1>12 DEF HandlerPanics, Nack, TypeOK
  <2>4. /\ slot' \in [Slots -> Messages \cup {None}]
        /\ stage' \in [Slots -> {"free", "dispatch", "handler", "ack"}]
    BY <1>a, <1>12 DEF HandlerPanics, Free, TypeOK
  <2>5. /\ phase' \in [Slots -> {"idle", "running", "returned"}]
        /\ due' \in [Slots -> SUBSET Reactors]
    BY <1>a, <2>b DEF TypeOK
  <2>6. UNCHANGED <<proc, acks, reported, succeeded>>
    BY <1>12 DEF HandlerPanics
  <2>7. QED BY <1>a, <2>1, <2>b, <2>2, <2>3, <2>4, <2>5, <2>6 DEF TypeOK, Results
<1>13. ASSUME NEW s \in Slots, Ack(s) PROVE TypeOK'
  <2>1. slot[s] \in Messages
    BY <1>a, <1>13 DEF Ack, SlotInv
  <2>2. QED BY <1>a, <1>13, <2>1 DEF Ack, Free, call, TypeOK
<1>14. CASE UNCHANGED vars
  BY <1>a, <1>14 DEF vars, call, TypeOK
<1>15. ASSUME NEW m \in Messages, NEW r \in Reactors, OrphanReports(m, r) PROVE TypeOK'
  <2>1. PICK error \in Outcomes : Remember(m, r, error)
    BY <1>15 DEF OrphanReports
  <2>2. /\ reported' \in [Messages -> SUBSET Reactors]
        /\ succeeded' \in [Messages -> SUBSET Reactors]
    BY <1>a, <2>1, RememberEffect
  <2>3. /\ orphans' \subseteq orphans
        /\ UNCHANGED <<status, proc, slot, stage, phase, due, results, acks, faults>>
    BY <1>15 DEF OrphanReports
  <2>4. QED BY <1>a, <2>2, <2>3 DEF TypeOK
<1>16. QED
  BY <1>1, <1>2, <1>3, <1>4, <1>5, <1>6, <1>7, <1>8, <1>9, <1>10, <1>11, <1>12,
     <1>13, <1>14, <1>15 DEF Next, Dispatch, Kill, ProviderPanics, OrphanPanics
-----------------------------------------------------------------------------
\* A slot whose message, stage and call a step leaves alone keeps its part of
\* SlotInv, because what has been reported is never taken back.
SlotOK(s) ==
  /\ stage[s] = "free" <=> slot[s] = None
  /\ stage[s] = "handler" <=> phase[s] = "running"
  /\ stage[s] \in {"handler", "ack"} =>
       /\ slot[s] \in Messages \ Bad
       /\ due[s] = DueOf[slot[s]]
       /\ Adapter!Reported(s) \subseteq reported[slot[s]]
  /\ stage[s] = "ack" => DueOf[slot[s]] \subseteq reported[slot[s]]

LEMMA SlotFrame ==
  ASSUME NEW s \in Slots, SlotOK(s), slot'[s] = slot[s], stage'[s] = stage[s],
         phase'[s] = phase[s], due'[s] = due[s], results'[s] = results[s],
         \A m \in Messages : reported[m] \subseteq reported'[m]
  PROVE  SlotOK(s)'
<1>1. Adapter!Reported(s)' = Adapter!Reported(s)
  BY DEF Adapter!Reported
<1>2. QED BY <1>1 DEF SlotOK

\* Every step keeps the callbacks in order.
LEMMA SlotStep == IInv /\ [Next]_vars => SlotInv'
<1> SUFFICES ASSUME IInv, [Next]_vars PROVE \A s \in Slots : SlotOK(s)'
  BY DEF SlotInv, SlotOK
<1>a. TypeOK /\ \A s \in Slots : SlotOK(s)
  BY DEF IInv, SlotInv, SlotOK
<1> USE PubSubAssumption
<1>b. ASSUME UNCHANGED <<slot, stage, phase, due, results>>,
             \A m \in Messages : reported[m] \subseteq reported'[m]
      PROVE  \A s \in Slots : SlotOK(s)'
  BY <1>a, <1>b, SlotFrame
<1>1. CASE \/ Start \/ Shutdown \/ Stop
           \/ \E m \in Messages : FlushAck(m) \/ LeaseExpires(m)
  BY <1>b, <1>1 DEF Start, Shutdown, Stop, FlushAck, LeaseExpires, call
<1>2. CASE Die
  <2>1. \A s \in Slots : /\ stage'[s] = "free" /\ slot'[s] = None
                         /\ phase'[s] = "idle"
    BY <1>2 DEF Die, Adapter!Crash
  <2>2. QED BY <2>1 DEF SlotOK
<1>3. ASSUME NEW s \in Slots, NEW m \in Messages, Pull(s, m)
      PROVE  \A t \in Slots : SlotOK(t)'
  <2>1. SlotOK(s)'
    BY <1>a, <1>3 DEF Pull, SlotOK, TypeOK, call
  <2>2. ASSUME NEW t \in Slots \ {s} PROVE SlotOK(t)'
    BY <1>a, <1>3, SlotFrame DEF Pull, TypeOK, call
  <2>3. QED BY <2>1, <2>2
<1>4. ASSUME NEW s \in Slots, Reject(s) PROVE \A t \in Slots : SlotOK(t)'
  <2>1. SlotOK(s)'
    BY <1>a, <1>4 DEF Reject, Free, SlotOK, TypeOK, call
  <2>2. ASSUME NEW t \in Slots \ {s} PROVE SlotOK(t)'
    BY <1>a, <1>4, SlotFrame DEF Reject, Free, TypeOK, call
  <2>3. QED BY <2>1, <2>2
<1>5. ASSUME NEW s \in Slots, Handle(s) PROVE \A t \in Slots : SlotOK(t)'
  <2>1. /\ stage[s] = "dispatch" /\ slot[s] \notin Bad /\ stage'[s] = "handler"
        /\ phase'[s] = "running" /\ results'[s] = <<>>
        /\ due'[s] = DueOf[slot[s]] /\ slot' = slot /\ reported' = reported
    BY <1>a, <1>5 DEF Handle, Adapter!Begin, TypeOK
  <2>2. slot[s] \in Messages
    BY <1>a, <2>1 DEF SlotOK, TypeOK
  <2>3. Adapter!Reported(s)' = {}
    BY <2>1 DEF Adapter!Reported
  <2>4. SlotOK(s)'
    BY <2>1, <2>2, <2>3 DEF SlotOK
  <2>5. ASSUME NEW t \in Slots \ {s} PROVE SlotOK(t)'
    <3>1. /\ slot'[t] = slot[t] /\ stage'[t] = stage[t] /\ phase'[t] = phase[t]
          /\ due'[t] = due[t] /\ results'[t] = results[t]
      BY <1>a, <1>5 DEF Handle, Adapter!Begin, TypeOK
    <3>2. QED BY <1>a, <2>1, <3>1, SlotFrame
  <2>6. QED BY <2>4, <2>5
<1>6. ASSUME NEW s \in Slots, NEW r \in Reactors, Report(s, r)
      PROVE  \A t \in Slots : SlotOK(t)'
  <2> DEFINE m == slot[s]
  <2>1. /\ stage[s] = "handler" /\ slot' = slot /\ stage' = stage
        /\ Adapter!Report(s, r)
        /\ \E error : Remember(m, r, error)
    BY <1>6 DEF Report
  <2>2. /\ Adapter!Reported(s)' = Adapter!Reported(s) \cup {r}
        /\ \A t \in Slots \ {s} : results'[t] = results[t]
        /\ UNCHANGED <<phase, due>>
    BY <1>a, <2>1, ReportEffect
  <2>3. m \in Messages
    BY <1>a, <2>1 DEF SlotOK
  <2>4. /\ reported'[m] = reported[m] \cup {r}
        /\ \A x \in Messages : reported[x] \subseteq reported'[x]
    BY <1>a, <2>1, <2>3, RememberEffect
  <2>5. SlotOK(s)'
    BY <1>a, <2>1, <2>2, <2>3, <2>4 DEF SlotOK
  <2>6. ASSUME NEW t \in Slots \ {s} PROVE SlotOK(t)'
    BY <1>a, <2>1, <2>2, <2>4, SlotFrame
  <2>7. QED BY <2>5, <2>6
<1>7. ASSUME NEW s \in Slots, HandlerReturns(s) PROVE \A t \in Slots : SlotOK(t)'
  <2>1. /\ stage[s] = "handler" /\ stage'[s] = "ack" /\ phase'[s] = "returned"
        /\ due[s] = Adapter!Reported(s)
        /\ UNCHANGED <<slot, due, results, reported>>
    BY <1>a, <1>7 DEF HandlerReturns, Adapter!Return, TypeOK
  <2>2. Adapter!Reported(s)' = Adapter!Reported(s)
    BY <2>1 DEF Adapter!Reported
  <2>3. slot[s] # None
    BY <1>a, <2>1 DEF SlotOK
  <2>4. SlotOK(s)'
    BY <1>a, <2>1, <2>2, <2>3 DEF SlotOK
  <2>5. ASSUME NEW t \in Slots \ {s} PROVE SlotOK(t)'
    <3>1. stage'[t] = stage[t] /\ phase'[t] = phase[t]
      BY <1>a, <1>7 DEF HandlerReturns, Adapter!Return, TypeOK
    <3>2. QED BY <1>a, <2>1, <3>1, SlotFrame
  <2>6. QED BY <2>4, <2>5
<1>8. ASSUME NEW s \in Slots, HandlerPanics(s) PROVE \A t \in Slots : SlotOK(t)'
  <2>1. /\ stage'[s] = "free" /\ slot'[s] = None /\ phase'[s] = "idle"
        /\ reported' = reported
    BY <1>a, <1>8 DEF HandlerPanics, Abandon, Free, TypeOK
  <2>2. SlotOK(s)'
    BY <2>1 DEF SlotOK
  <2>3. ASSUME NEW t \in Slots \ {s} PROVE SlotOK(t)'
    <3>1. /\ slot'[t] = slot[t] /\ stage'[t] = stage[t] /\ phase'[t] = phase[t]
          /\ due'[t] = due[t] /\ results'[t] = results[t]
      BY <1>a, <1>8 DEF HandlerPanics, Abandon, Free, TypeOK
    <3>2. QED BY <1>a, <2>1, <3>1, SlotFrame
  <2>4. QED BY <2>2, <2>3
<1>9. ASSUME NEW s \in Slots, Ack(s) PROVE \A t \in Slots : SlotOK(t)'
  <2>1. SlotOK(s)'
    BY <1>a, <1>9 DEF Ack, Free, SlotOK, TypeOK, call
  <2>2. ASSUME NEW t \in Slots \ {s} PROVE SlotOK(t)'
    BY <1>a, <1>9, SlotFrame DEF Ack, Free, TypeOK, call
  <2>3. QED BY <2>1, <2>2
<1>10. CASE UNCHANGED vars
  BY <1>b, <1>10 DEF vars, call
<1>11. ASSUME NEW m \in Messages, NEW r \in Reactors, OrphanReports(m, r)
       PROVE  \A s \in Slots : SlotOK(s)'
  <2>1. \A x \in Messages : reported[x] \subseteq reported'[x]
    BY <1>a, <1>11, RememberEffect DEF OrphanReports
  <2>2. QED BY <1>b, <1>11, <2>1 DEF OrphanReports
<1>12. QED
  BY <1>1, <1>2, <1>3, <1>4, <1>5, <1>6, <1>7, <1>8, <1>9, <1>10, <1>11
     DEF Next, Dispatch, Kill, ProviderPanics, OrphanPanics
-----------------------------------------------------------------------------
\* What the slots and the acks say of the messages.
MessageInv ==
  /\ AckedIsReported
  /\ UnconvertibleIsKept
  /\ NoMessageForgotten
  /\ OrphanInv
  /\ DownInv

LEMMA MessageStep == IInv /\ [Next]_vars => MessageInv'
<1> SUFFICES ASSUME IInv, [Next]_vars PROVE MessageInv'
  OBVIOUS
<1>a. TypeOK /\ MessageInv /\ \A s \in Slots : SlotOK(s)
  BY DEF IInv, MessageInv, DownInv, SlotInv, SlotOK
<1> USE PubSubAssumption DEF MessageInv, AckedIsReported, UnconvertibleIsKept,
        NoMessageForgotten, OrphanInv, DownInv
<1>1. CASE Start \/ Shutdown \/ Stop
  BY <1>a, <1>1 DEF Start, Shutdown, Stop, call
<1>2. CASE Die
  BY <1>a, <1>2 DEF Die
<1>3. ASSUME NEW s \in Slots, NEW m \in Messages, Pull(s, m) PROVE MessageInv'
  <2>1. /\ status'[m] = "leased" /\ slot'[s] = m /\ proc' = "running"
        /\ \A x \in Messages \ {m} : status'[x] = status[x]
        /\ \A t \in Slots \ {s} : slot'[t] = slot[t]
        /\ slot[s] = None /\ UNCHANGED <<acks, reported, orphans>>
        /\ status[m] = "pending"
    BY <1>a, <1>3 DEF Pull, TypeOK, SlotOK, call
  <2>2. QED BY <1>a, <2>1
<1>4. ASSUME NEW m \in Messages, FlushAck(m) PROVE MessageInv'
  <2>1. /\ m \in acks /\ acks' = acks \ {m}
        /\ \A x \in Messages \ {m} : status'[x] = status[x]
        /\ status'[m] \in {"acked", "pending"}
        /\ UNCHANGED <<proc, slot, stage, reported, orphans>>
    BY <1>a, <1>4 DEF FlushAck, TypeOK, call
  <2>2. m \notin Bad
    BY <1>a, <2>1
  <2>3. QED BY <1>a, <2>1, <2>2
<1>5. ASSUME NEW m \in Messages, LeaseExpires(m) PROVE MessageInv'
  <2>1. /\ status'[m] = "pending"
        /\ \A x \in Messages \ {m} : status'[x] = status[x]
        /\ UNCHANGED <<proc, slot, stage, acks, reported, orphans>>
    BY <1>a, <1>5 DEF LeaseExpires, TypeOK, call
  <2>2. QED BY <1>a, <2>1
<1>6. ASSUME NEW s \in Slots, Reject(s) \/ HandlerPanics(s) PROVE MessageInv'
  <2> DEFINE m == slot[s]
  <2>1. /\ stage[s] \in {"dispatch", "handler"} /\ Nack(m) /\ Free(s)
        /\ UNCHANGED <<proc, acks, reported>>
    BY <1>6 DEF Reject, HandlerPanics
  <2>2. m \in Messages
    BY <1>a, <2>1 DEF SlotOK, TypeOK
  <2>3. /\ status'[m] = IF status[m] = "leased" THEN "pending" ELSE status[m]
        /\ \A x \in Messages \ {m} : status'[x] = status[x]
    BY <1>a, <2>1, <2>2 DEF Nack, TypeOK
  <2>4. /\ \A t \in Slots \ {s} : slot'[t] = slot[t] /\ stage'[t] = stage[t]
        /\ stage'[s] = "free"
    BY <1>a, <2>1 DEF Free, TypeOK
  <2>5. OrphanInv'
    <3>1. CASE Reject(s)
      BY <1>a, <3>1 DEF Reject, call
    <3>2. CASE HandlerPanics(s)
      <4>1. stage[s] = "handler" /\ Abandon(s)
        BY <3>2 DEF HandlerPanics
      <4>2. m \notin Bad
        BY <1>a, <4>1 DEF SlotOK
      <4>3. \A o \in orphans' : o \in orphans \/ o[1] = m
        BY <1>a, <2>2, <4>1, AbandonEffect
      <4>4. QED BY <1>a, <4>2, <4>3
    <3>3. QED BY <1>6, <3>1, <3>2
  <2>6. QED BY <1>a, <2>1, <2>2, <2>3, <2>4, <2>5
<1>7. ASSUME NEW s \in Slots, Handle(s) \/ HandlerReturns(s) PROVE MessageInv'
  <2>1. /\ stage[s] # "free"
        /\ UNCHANGED <<status, proc, slot, acks, reported, orphans>>
    BY <1>7 DEF Handle, HandlerReturns
  <2>2. QED BY <1>a, <2>1
<1>8. ASSUME NEW s \in Slots, NEW r \in Reactors, Report(s, r) PROVE MessageInv'
  <2> DEFINE m == slot[s]
  <2>1. /\ stage[s] = "handler" /\ UNCHANGED <<status, proc, slot, stage, acks, orphans>>
        /\ \E error : Remember(m, r, error)
    BY <1>8 DEF Report
  <2>2. m \in Messages \ Bad
    BY <1>a, <2>1 DEF SlotOK
  <2>3. /\ \A x \in Messages : reported[x] \subseteq reported'[x]
        /\ \A x \in Bad : reported'[x] = reported[x]
    BY <1>a, <2>1, <2>2, RememberEffect
  <2>4. QED BY <1>a, <2>1, <2>3
<1>9. ASSUME NEW s \in Slots, Ack(s) PROVE MessageInv'
  <2> DEFINE m == slot[s]
  <2>1. /\ stage[s] = "ack" /\ acks' = acks \cup {m} /\ Free(s)
        /\ UNCHANGED <<status, proc, reported, orphans>>
    BY <1>9 DEF Ack, call
  <2>2. m \in Messages \ Bad /\ DueOf[m] \subseteq reported[m]
    BY <1>a, <2>1 DEF SlotOK
  <2>3. \A t \in Slots \ {s} : slot'[t] = slot[t]
    BY <1>a, <2>1 DEF Free, TypeOK
  <2>4. proc # "down"
    BY <1>a, <2>1
  <2>5. QED BY <1>a, <2>1, <2>2, <2>3, <2>4
<1>10. CASE UNCHANGED vars
  BY <1>a, <1>10 DEF vars, call
<1>11. ASSUME NEW m \in Messages, NEW r \in Reactors, OrphanReports(m, r)
       PROVE  MessageInv'
  <2>1. /\ <<m, r>> \in orphans /\ orphans' \subseteq orphans
        /\ UNCHANGED <<status, proc, slot, stage, acks>>
        /\ \E error : Remember(m, r, error)
    BY <1>11 DEF OrphanReports
  <2>2. m \notin Bad
    BY <1>a, <2>1
  <2>3. /\ \A x \in Messages : reported[x] \subseteq reported'[x]
        /\ \A x \in Bad : reported'[x] = reported[x]
    BY <1>a, <2>1, <2>2, RememberEffect
  <2>4. QED BY <1>a, <2>1, <2>3
<1>12. QED
  BY <1>1, <1>2, <1>3, <1>4, <1>5, <1>6, <1>7, <1>8, <1>9, <1>10, <1>11
     DEF Next, Dispatch, Kill, ProviderPanics, OrphanPanics

LEMMA IInvStep == IInv /\ [Next]_vars => IInv'
BY TypeStep, SlotStep, MessageStep DEF IInv, MessageInv, DownInv

\* IInv holds in every reachable state, however many faults there are.
THEOREM Invariance == Spec => []IInv
<1>1. QED BY InitIInv, IInvStep, PTL DEF Spec

\* Nothing is acked before every reactor it is due at has reported on it.
THEOREM AckedIsReportedHolds == Spec => []AckedIsReported
<1>1. IInv => AckedIsReported
  BY DEF IInv
<1>2. QED BY <1>1, Invariance, PTL

\* A message that cannot be converted is never acked and reaches no reactor.
THEOREM UnconvertibleIsKeptHolds == Spec => []UnconvertibleIsKept
<1>1. IInv => UnconvertibleIsKept
  BY DEF IInv
<1>2. QED BY <1>1, Invariance, PTL

\* A leased message has a callback at work on it or has just been acked.
THEOREM NoMessageForgottenHolds == Spec => []NoMessageForgotten
<1>1. IInv => NoMessageForgotten
  BY DEF IInv
<1>2. QED BY <1>1, Invariance, PTL
=============================================================================
