------------------------------- MODULE PubSub -------------------------------
(***************************************************************************)
(* The Pub/Sub pull listener (pkg/listener/pubsub) between a subscription  *)
(* that redelivers and the adapter behind it.  The client library hands    *)
(* each message it pulls to dispatch on a goroutine of its own, a slot;    *)
(* dispatch converts it, waits for HandleEvent, and acks or nacks.         *)
(*                                                                         *)
(* The adapter appears as its promise, the module FanOut, of which every   *)
(* slot is a call: AdapterProofs shows that HandleEvent keeps it.          *)
(***************************************************************************)
EXTENDS Naturals, Sequences, FiniteSets

CONSTANTS
  Messages,     \* the messages published to the subscription
  Bad,          \* those whose data is not a JSON object
  Reactors,     \* the configured reactors
  DueOf,        \* of each message: the reactors whose expression it matches
  Slots,        \* MaxOutstandingMessages of them
  None,         \* no message
  Faults,       \* the kinds of fault that can happen
  MaxFaults     \* bound: how many faults happen in a run

Outcomes == {"none", "execution"}
FaultKinds == {"kill", "panic", "handlerPanic", "lease", "shutdown"}

ASSUME PubSubAssumption ==
  /\ Bad \subseteq Messages
  /\ None \notin Messages
  /\ DueOf \in [Messages -> SUBSET Reactors]
  /\ Faults \subseteq FaultKinds
  /\ MaxFaults \in Nat

VARIABLES
  status,     \* of each message, at the service: "pending", "leased", "acked"
  proc,       \* the process: "down", "running", "stopping"
  slot,       \* of each slot: the message of its callback, or None
  stage,      \* of each slot: "free", "dispatch", "handler" or "ack"
  phase, due, results,   \* of each slot: the call of HandleEvent, as in FanOut
  orphans,    \* reactors still at work on a message whose callback has panicked
  acks,       \* the messages acked by dispatch and not yet by the client
  reported,   \* of each message: the reactors that have reported on it
  succeeded,  \* of each message: those that have reported no error
  faults      \* how many faults have happened

call == <<phase, due, results, orphans>>
vars == <<status, proc, slot, stage, call, acks, reported, succeeded, faults>>

Adapter == INSTANCE FanOut WITH Calls <- Slots

Init ==
  /\ status = [m \in Messages |-> "pending"]
  /\ proc = "down"
  /\ slot = [s \in Slots |-> None]
  /\ stage = [s \in Slots |-> "free"]
  /\ Adapter!Init
  /\ orphans = {}
  /\ acks = {}
  /\ reported = [m \in Messages |-> {}]
  /\ succeeded = [m \in Messages |-> {}]
  /\ faults = 0

Fault(kind) ==
  /\ kind \in Faults
  /\ faults < MaxFaults
  /\ faults' = faults + 1

Free(s) ==
  /\ slot' = [slot EXCEPT ![s] = None]
  /\ stage' = [stage EXCEPT ![s] = "free"]

\* The service takes the message back, unless it was acked or taken back before.
Nack(m) ==
  status' = [status EXCEPT ![m] = IF @ = "leased" THEN "pending" ELSE @]

-----------------------------------------------------------------------------
\* The subscription and the client library, as Start and dispatch use them.

\* Start: the client is created and the streaming pull opened.
Start ==
  /\ proc = "down"
  /\ proc' = "running"
  /\ UNCHANGED <<status, slot, stage, call, acks, reported, succeeded, faults>>

\* Receive starts a callback while fewer than MaxOutstandingMessages run.
Pull(s, m) ==
  /\ proc = "running"
  /\ stage[s] = "free"
  /\ status[m] = "pending"
  /\ status' = [status EXCEPT ![m] = "leased"]
  /\ slot' = [slot EXCEPT ![s] = m]
  /\ stage' = [stage EXCEPT ![s] = "dispatch"]
  /\ UNCHANGED <<proc, call, acks, reported, succeeded, faults>>

\* The client sends its acks in batches; the service may ignore the ack of a
\* lease that has expired in the meantime.
FlushAck(m) ==
  /\ m \in acks
  /\ acks' = acks \ {m}
  /\ \/ status' = [status EXCEPT ![m] = "acked"]
     \/ /\ status[m] = "pending"
        /\ UNCHANGED status
  /\ UNCHANGED <<proc, slot, stage, call, reported, succeeded, faults>>

\* A lease runs out while its callback is still at work: the service
\* delivers the message again, possibly next to the first delivery.
LeaseExpires(m) ==
  /\ status[m] = "leased"
  /\ Fault("lease")
  /\ status' = [status EXCEPT ![m] = "pending"]
  /\ UNCHANGED <<proc, slot, stage, call, acks, reported, succeeded>>

\* SIGTERM, or another part of the server fails: the context is cancelled.
Shutdown ==
  /\ proc = "running"
  /\ Fault("shutdown")
  /\ proc' = "stopping"
  /\ UNCHANGED <<status, slot, stage, call, acks, reported, succeeded>>

\* Receive returns once the callbacks have returned and the acks are sent; what else
\* is at work ends with the process.
Stop ==
  /\ proc = "stopping"
  /\ \A s \in Slots : stage[s] = "free"
  /\ acks = {}
  /\ proc' = "down" /\ orphans' = {}
  /\ UNCHANGED <<status, slot, stage, phase, due, results, acks, reported, succeeded, faults>>

\* The process dies: everything in memory is gone, and the leases run out.
Die ==
  /\ proc # "down"
  /\ proc' = "down"
  /\ slot' = [s \in Slots |-> None]
  /\ stage' = [s \in Slots |-> "free"]
  /\ Adapter!Crash
  /\ orphans' = {} /\ acks' = {}
  /\ status' = [m \in Messages |->
                  IF status[m] = "leased" THEN "pending" ELSE status[m]]
  /\ UNCHANGED <<reported, succeeded>>

Kill == Fault("kill") /\ Die

\* A provider panics.  It runs on a goroutine that HandleEvent started, where
\* the deferred recover of dispatch cannot catch it.
ProviderPanics(s, r) ==
  /\ stage[s] = "handler"
  /\ r \in due[s] \ Adapter!Reported(s)
  /\ Fault("panic")
  /\ Die

OrphanPanics == orphans # {} /\ Fault("panic") /\ Die

-----------------------------------------------------------------------------
\* dispatch, on the callback in slot s.

\* FromPubSubMessage fails: the message is nacked and dispatch returns.
Reject(s) ==
  /\ stage[s] = "dispatch"
  /\ slot[s] \in Bad
  /\ Nack(slot[s])
  /\ Free(s)
  /\ UNCHANGED <<proc, call, acks, reported, succeeded, faults>>

\* Fault: the message is acked as soon as it has been converted.
HandleAcked(s) ==
  /\ stage[s] = "dispatch"
  /\ slot[s] \notin Bad
  /\ stage' = [stage EXCEPT ![s] = "handler"]
  /\ Adapter!Begin(s)
  /\ due'[s] = DueOf[slot[s]]
  /\ acks' = acks \cup {slot[s]}
  /\ UNCHANGED <<status, proc, slot, orphans, reported, succeeded, faults>>

\* Fault: an unconvertible message goes on to the handler with no payload.
HandleAnyway(s) ==
  /\ stage[s] = "dispatch"
  /\ stage' = [stage EXCEPT ![s] = "handler"]
  /\ Adapter!Begin(s)
  /\ due'[s] = DueOf[slot[s]]
  /\ UNCHANGED <<status, proc, slot, orphans, acks, reported, succeeded, faults>>

\* The handler is called: HandleEvent begins.
Handle(s) ==
  /\ stage[s] = "dispatch"
  /\ slot[s] \notin Bad
  /\ stage' = [stage EXCEPT ![s] = "handler"]
  /\ Adapter!Begin(s)
  /\ due'[s] = DueOf[slot[s]]
  /\ UNCHANGED <<status, proc, slot, orphans, acks, reported, succeeded, faults>>

\* What r reports on m is remembered.
Remember(m, r, error) ==
  /\ reported' = [reported EXCEPT ![m] = @ \cup {r}]
  /\ succeeded' = [succeeded EXCEPT ![m] = IF error = "none" THEN @ \cup {r} ELSE @]

\* A reactor reports to HandleEvent.
Report(s, r) ==
  /\ stage[s] = "handler"
  /\ Adapter!Report(s, r)
  /\ Remember(slot[s], r, results'[s][Len(results'[s])].error)
  /\ UNCHANGED <<status, proc, slot, stage, orphans, acks, faults>>

\* The goroutines that HandleEvent has started run on when it panics, and append to
\* a slice that nobody reads.
OrphanReports(m, r) ==
  /\ <<m, r>> \in orphans
  /\ orphans' = orphans \ {<<m, r>>}
  /\ \E error \in Outcomes : Remember(m, r, error)
  /\ UNCHANGED <<status, proc, slot, stage, phase, due, results, acks, faults>>

\* HandleEvent returns; its results are thrown away (root.go:168).
HandlerReturns(s) ==
  /\ stage[s] = "handler"
  /\ Adapter!Return(s)
  /\ stage' = [stage EXCEPT ![s] = "ack"]
  /\ UNCHANGED <<status, proc, slot, orphans, acks, reported, succeeded, faults>>

\* HandleEvent panics in its loop: the call is gone, the goroutines that it has
\* started are not.
Abandon(s) ==
  /\ \E started \in SUBSET (due[s] \ Adapter!Reported(s)) :
       orphans' = orphans \cup {<<slot[s], r>> : r \in started}
  /\ phase' = [phase EXCEPT ![s] = "idle"]
  /\ due' = [due EXCEPT ![s] = {}]
  /\ results' = [results EXCEPT ![s] = <<>>]

\* Fault: the panic is recovered and the message is left as it is.
HandlerPanicsSilently(s) ==
  /\ stage[s] = "handler"
  /\ Fault("handlerPanic")
  /\ Free(s)
  /\ Abandon(s)
  /\ UNCHANGED <<status, proc, acks, reported, succeeded>>

\* The handler panics on the goroutine of the callback itself; the deferred
\* recover nacks the message and the callback ends.
HandlerPanics(s) ==
  /\ stage[s] = "handler"
  /\ Fault("handlerPanic")
  /\ Nack(slot[s])
  /\ Free(s)
  /\ Abandon(s)
  /\ UNCHANGED <<proc, acks, reported, succeeded>>

\* Fault: the message stays leased for ever, neither acked nor nacked.
AckForgotten(s) ==
  /\ stage[s] = "ack"
  /\ Free(s)
  /\ UNCHANGED <<status, proc, call, acks, reported, succeeded, faults>>

\* msg.Ack(), and dispatch returns.
Ack(s) ==
  /\ stage[s] = "ack"
  /\ acks' = acks \cup {slot[s]}
  /\ Free(s)
  /\ UNCHANGED <<status, proc, call, reported, succeeded, faults>>

Dispatch(s) ==
  \/ Reject(s)
  \/ Handle(s)
  \/ \E r \in Reactors : Report(s, r)
  \/ HandlerReturns(s)
  \/ Ack(s)

Next ==
  \/ Start
  \/ \E s \in Slots, m \in Messages : Pull(s, m)
  \/ \E m \in Messages : FlushAck(m) \/ LeaseExpires(m)
  \/ Shutdown
  \/ Stop
  \/ Kill
  \/ OrphanPanics
  \/ \E m \in Messages, r \in Reactors : OrphanReports(m, r)
  \/ \E s \in Slots :
       \/ Dispatch(s)
       \/ HandlerPanics(s)
       \/ \E r \in Reactors : ProviderPanics(s, r)

\* The process is started again after it ends, callbacks run, the client sends
\* its acks, and the service starves no message, however often another one is
\* nacked and delivered again.
Fairness ==
  /\ WF_vars(Start)
  /\ WF_vars(Stop)
  /\ \A s \in Slots : WF_vars(Dispatch(s))
  /\ \A m \in Messages :
       /\ WF_vars(FlushAck(m))
       /\ SF_vars(\E s \in Slots : Pull(s, m))

Spec == Init /\ [][Next]_vars /\ Fairness

-----------------------------------------------------------------------------
\* The variables have their types.
TypeOK ==
  /\ status \in [Messages -> {"pending", "leased", "acked"}]
  /\ proc \in {"down", "running", "stopping"}
  /\ slot \in [Slots -> Messages \cup {None}]
  /\ stage \in [Slots -> {"free", "dispatch", "handler", "ack"}]
  /\ phase \in [Slots -> {"idle", "running", "returned"}]
  /\ due \in [Slots -> SUBSET Reactors]
  /\ results \in [Slots -> Seq([reactor : Reactors, error : Outcomes])]
  /\ orphans \subseteq Messages \X Reactors
  /\ acks \subseteq Messages
  /\ reported \in [Messages -> SUBSET Reactors]
  /\ succeeded \in [Messages -> SUBSET Reactors]
  /\ faults \in 0..MaxFaults

\* "If the process exits before a message is acked, Pub/Sub redelivers it"
\* (pubsub.go:78-82): nothing is acked, not even on its way to the service,
\* before every reactor it is due at has reported on it.
AckedIsReported ==
  \A m \in Messages :
    status[m] = "acked" \/ m \in acks => DueOf[m] \subseteq reported[m]

\* A message that cannot be converted is never acked and reaches no reactor,
\* so the subscription can send it to its dead-letter topic.
UnconvertibleIsKept ==
  \A m \in Bad : status[m] # "acked" /\ m \notin acks /\ reported[m] = {}

\* No message is forgotten: as long as it is not acked, the service will deliver
\* it, or a callback is at work on it or has just acked it.
NoMessageForgotten ==
  \A m \in Messages :
    status[m] = "leased" => m \in acks \/ \E s \in Slots : slot[s] = m

\* Every convertible message is acked in the end, whatever reactors fail and
\* however often the process is stopped or killed, a finite number of times.
EventuallyAcked == \A m \in Messages \ Bad : <>(status[m] = "acked")

\* config.go:110-111: GetFailOnError "returns whether the reactor should fail
\* the pipeline on error.  Defaults to true": with the default, a message is
\* acked only if each reactor it is due at has succeeded.
FailureFailsPipeline ==
  \A m \in Messages : status[m] = "acked" => DueOf[m] \subseteq succeeded[m]

-----------------------------------------------------------------------------
\* The inductive invariant of the proofs (PubSubProofs).

\* A slot has a message as long as its callback runs, and its call of
\* HandleEvent is the one for that message.
SlotInv ==
  \A s \in Slots :
    /\ stage[s] = "free" <=> slot[s] = None
    /\ stage[s] = "handler" <=> phase[s] = "running"
    /\ stage[s] \in {"handler", "ack"} =>
         /\ slot[s] \in Messages \ Bad
         /\ due[s] = DueOf[slot[s]]
         /\ Adapter!Reported(s) \subseteq reported[slot[s]]
    /\ stage[s] = "ack" => DueOf[slot[s]] \subseteq reported[slot[s]]

\* Goroutines outlive only a call for a message that could be converted.
OrphanInv == \A o \in orphans : o[1] \notin Bad

\* All of it: what dispatch has in hand agrees with what the service believes,
\* in every slot (pubsub.go:83-148).
IInv ==
  /\ TypeOK
  /\ SlotInv
  /\ AckedIsReported
  /\ UnconvertibleIsKept
  /\ NoMessageForgotten
  /\ OrphanInv
  /\ proc = "down" => acks = {} /\ \A s \in Slots : stage[s] = "free"
=============================================================================
