-------------------------- MODULE SupervisorProofs --------------------------
(***************************************************************************)
(* Proofs about Supervisor, for any listeners and connections: the         *)
(* inductive invariant, one step per action, and what follows from it.     *)
(***************************************************************************)
EXTENDS Supervisor, TLAPS

LEMMA InitIInv == Init => IInv
  BY DEF Init, IInv, TypeOK, CleanExit, NoPartDead, Served, Failing, ChecksAgree, Cancelled

\* What runServer finds before it starts anything, for every configuration: one
\* that it starts with is accepted by the other two readers and leaves no listener
\* unbuilt, and one that it cannot load or compile is refused by them.
LEMMA StartupSound ==
  ASSUME NEW c
  PROVE  /\ startError(c) \in {"nil", "loading", "compiling", "auth", "building", "panic"}
         /\ startError(c) = "nil" =>
              /\ testConfig(c) /\ validateConfig(c)
              /\ \A l \in Listeners : c.listeners[l] \in HttpTypes \/ c.listeners[l] = "pubsub"
         /\ startError(c) \in {"loading", "compiling"} => ~testConfig(c) /\ ~validateConfig(c)
  <1>1. ASSUME NEW l \in Listeners, Build(c.listeners[l]) # "error"
        PROVE  c.listeners[l] \in HttpTypes \/ c.listeners[l] = "pubsub"
    BY <1>1 DEF Build
  <1>2. Load(c) => Parse(c)
    BY DEF Load
  <1>3. ~Load(c) => ~testConfig(c) /\ ~validateConfig(c)
    BY DEF testConfig, validateConfig, Load, Parse
  <1> QED
    BY <1>1, <1>2, <1>3 DEF startError, testConfig, validateConfig

\* A listener other than l is left as it was.
LEMMA OthersKept ==
  ASSUME TypeOK, NEW l \in Listeners, NEW s,
         listener' = [listener EXCEPT ![l] = s]
  PROVE  \A k \in Listeners : listener'[k] = IF k = l THEN s ELSE listener[k]
  BY DEF TypeOK

\* The steps of runServer.
LEMMA RunServerStep ==
  ASSUME IInv, SetUp \/ Signal \/ Wait PROVE IInv'
  <1> USE DEF IInv, TypeOK, CleanExit, NoPartDead, Served, Failing, ChecksAgree, Cancelled, Background, server,
              pull, Returns
  <1>1. CASE SetUp
    BY <1>1, StartupSound DEF SetUp, HttpTypes
  <1>2. CASE Signal
    BY <1>2 DEF Signal
  <1>3. CASE Wait
    <2>1. handling = {}
      BY <1>3 DEF Wait
    <2> QED
      BY <1>3, <2>1 DEF Wait
  <1> QED
    BY <1>1, <1>2, <1>3

\* The steps of the HTTP server.
LEMMA ServerStep ==
  ASSUME IInv,
         \/ Listen \/ AcceptFails \/ ServeFailed \/ Shutdown \/ Deadline
         \/ ShutdownReturns \/ \E c \in Conns : Request(c) \/ RequestEnds(c)
  PROVE  IInv'
  <1> USE DEF IInv, TypeOK, CleanExit, NoPartDead, Served, Failing, ChecksAgree, Cancelled, Background, group,
              pull, Returns
  <1>1. CASE Listen
    BY <1>1 DEF Listen
  <1>2. CASE AcceptFails
    BY <1>2 DEF AcceptFails
  <1>3. CASE ServeFailed
    BY <1>3 DEF ServeFailed
  <1>4. CASE Shutdown
    BY <1>4 DEF Shutdown
  <1>5. CASE Deadline
    BY <1>5 DEF Deadline
  <1>6. CASE ShutdownReturns
    BY <1>6 DEF ShutdownReturns
  <1>7. ASSUME NEW c \in Conns, Request(c) PROVE IInv'
    BY <1>7 DEF Request
  <1>8. ASSUME NEW c \in Conns, RequestEnds(c) PROVE IInv'
    BY <1>8 DEF RequestEnds
  <1> QED
    BY <1>1, <1>2, <1>3, <1>4, <1>5, <1>6, <1>7, <1>8

\* The steps of a listener.
LEMMA ListenerStep ==
  ASSUME IInv, NEW l \in Background,
         \/ Connect(l) \/ Message(l) \/ MessageHangs(l) \/ MessageEnds(l)
         \/ Drain(l) \/ Return(l)
  PROVE  IInv'
  <1> USE DEF IInv, TypeOK, CleanExit, NoPartDead, Served, Failing, ChecksAgree, Cancelled, Background, group,
              server, Returns
  <1>1. CASE Connect(l)
    BY <1>1, OthersKept DEF Connect
  <1>2. CASE Message(l)
    BY <1>2 DEF Message
  <1>3. CASE MessageHangs(l) \/ MessageEnds(l)
    BY <1>3 DEF MessageHangs, MessageEnds
  <1>4. CASE Drain(l)
    BY <1>4, OthersKept DEF Drain
  <1>5. CASE Return(l)
    BY <1>5, OthersKept DEF Return
  <1> QED
    BY <1>1, <1>2, <1>3, <1>4, <1>5

LEMMA StepIInv == IInv /\ [Next]_vars => IInv'
  <1> SUFFICES ASSUME IInv, [Next]_vars PROVE IInv'
    OBVIOUS
  <1>1. CASE UNCHANGED vars
    BY <1>1 DEF vars, group, server, pull, IInv, TypeOK, CleanExit, NoPartDead,
                 Served, Failing, ChecksAgree, Cancelled, Background
  <1> QED
    BY <1>1, RunServerStep, ServerStep, ListenerStep DEF Next

\* The invariant holds in every reachable state.
THEOREM Invariance == Spec => []IInv
  <1>1. QED
    BY InitIInv, StepIInv, PTL DEF Spec

\* An exit without an error has cut nothing off.
THEOREM CleanExitHolds == Spec => []CleanExit
  <1>1. IInv => CleanExit
    BY DEF IInv
  <1>2. QED
    BY <1>1, Invariance, PTL

\* No listener of the configuration is missing, or has ended unnoticed.
THEOREM NoPartDeadHolds == Spec => []NoPartDead
  <1>1. IInv => NoPartDead
    BY DEF IInv
  <1>2. QED
    BY <1>1, Invariance, PTL

\* The readers of a configuration agree.
THEOREM ChecksAgreeHolds == Spec => []ChecksAgree
  <1>1. IInv => ChecksAgree
    BY DEF IInv
  <1>2. QED
    BY <1>1, Invariance, PTL
=============================================================================
