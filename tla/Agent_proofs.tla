---------------------------- MODULE Agent_proofs ----------------------------
(***************************************************************************)
(* Proofs about Agent, for every set of ECU types, ports and delays: type  *)
(* correctness, and that a connection shown, a port held and a process     *)
(* that has exited mean what they should.                                  *)
(***************************************************************************)
EXTENDS Agent, TLAPS

\* Doubling under the cap stays between the two delays.
LEMMA NextRetryDelayBounds ==
  ASSUME NEW current \in MinRetryDelay .. MaxRetryDelay, NEW failed \in BOOLEAN
  PROVE  NextRetryDelay(current, failed) \in MinRetryDelay .. MaxRetryDelay
  <1>1. CASE failed
    <2>1. NextRetryDelay(current, failed) =
            IF 2 * current > MaxRetryDelay THEN MaxRetryDelay ELSE 2 * current
      BY <1>1, Zenon DEF NextRetryDelay
    <2> QED BY <2>1, DelaysAssumption, SMT
  <1>2. CASE ~failed
    <2>1. NextRetryDelay(current, failed) = MinRetryDelay
      BY <1>2, Zenon DEF NextRetryDelay
    <2> QED BY <2>1, DelaysAssumption, SMT
  <1> QED BY <1>1, <1>2, Zenon

\* The initial values have their types.
LEMMA TypeInit == Init => TypeOK
  <1> SUFFICES ASSUME Init PROVE TypeOK
    OBVIOUS
  <1>1. delay \in MinRetryDelay .. MaxRetryDelay
    BY DelaysAssumption DEF Init
  <1>2. serialPorts \in Seq(Ports)
    BY DEF Init
  <1> QED BY <1>1, <1>2, Zenon DEF Init, TypeOK, EcuTypes

\* Every step keeps the types.
LEMMA TypeStep == TypeOK /\ [Next]_vars => TypeOK'
  <1> SUFFICES ASSUME TypeOK, [Next]_vars PROVE TypeOK'
    OBVIOUS
  <1> USE DEF TypeOK, attempt, choices, process
  <1>1. CASE AttemptBegins
    BY <1>1 DEF AttemptBegins, EcuTypes
  <1>2. CASE NoPortsFound
    BY <1>2 DEF NoPortsFound, Fails
  <1>3. CASE PortsFound
    <2>1. adapters \in Seq(Ports)
      BY PortsAssumption
    <2>2. Head(adapters) \in Ports
      BY <1>3, <2>1 DEF PortsFound
    <2> QED BY <1>3, <2>1, <2>2 DEF PortsFound
  <1>4. CASE AdoptPort
    BY <1>4 DEF AdoptPort
  <1>5. CASE FactoryRefuses
    BY <1>5 DEF FactoryRefuses, Fails
  <1>6. CASE FakeConnects
    BY <1>6 DEF FakeConnects
  <1>7. CASE OpenFails
    BY <1>7 DEF OpenFails, Fails
  <1>8. CASE PortOpens
    <2>1. /\ heldPort' = portname /\ connected' = FALSE /\ pc' = "handshaking"
          /\ UNCHANGED <<sessionEcu, portname, outcome, reached, delay, choices,
                         serialPorts, error, adapters, process>>
      BY <1>8, Zenon DEF PortOpens
    <2> QED BY <2>1
  <1>9. CASE HandshakeSucceeds
    BY <1>9 DEF HandshakeSucceeds
  <1>10. CASE HandshakeFails
    BY <1>10 DEF HandshakeFails, Fails
  <1>11. CASE Close
    BY <1>11 DEF Close
  <1>12. CASE Report
    <2>1. (outcome # "cancelled") \in BOOLEAN
      OBVIOUS
    <2>2. delay' \in MinRetryDelay .. MaxRetryDelay
      BY <1>12, <2>1, NextRetryDelayBounds DEF Report
    <2> QED BY <1>12, <2>2 DEF Report
  <1>13. CASE WaitOver
    BY <1>13 DEF WaitOver
  <1>14. CASE EventLoopStops
    BY <1>14 DEF EventLoopStops
  <1>15. CASE Session
    <2>1. CASE SessionIdentifies
      BY <2>1 DEF SessionIdentifies
    <2>2. CASE CommandTaken
      BY <2>2 DEF CommandTaken
    <2>3. CASE SessionFails
      BY <2>3 DEF SessionFails, Fails
    <2>4. CASE SessionCancelled
      BY <2>4 DEF SessionCancelled
    <2> QED BY <1>15, <2>1, <2>2, <2>3, <2>4 DEF Session
  <1>16. CASE \E t \in EcuTypes \ {NoType} : SelectEcu(t)
    BY <1>16 DEF SelectEcu
  <1>17. CASE \E p \in Ports : SelectPort(p)
    BY <1>17 DEF SelectPort
  <1>18. CASE \E c \in Commands : PostCommand(c)
    BY <1>18 DEF PostCommand
  <1>19. CASE AdaptersChange
    BY <1>19 DEF AdaptersChange
  <1>20. CASE Signal \/ WebStops \/ BleStops \/ Exit
    <2>1. CASE Signal
      BY <2>1 DEF Signal
    <2>2. CASE WebStops
      <3>1. /\ webUp' \in BOOLEAN
            /\ UNCHANGED <<pc, attempt, delay, choices, serialPorts, connected,
                           error, adapters, ctxDone, bleUp, exited>>
        BY <2>2, Zenon DEF WebStops
      <3> QED BY <3>1
    <2>3. CASE BleStops
      <3>1. /\ bleUp' \in BOOLEAN
            /\ UNCHANGED <<pc, attempt, delay, choices, serialPorts, connected,
                           error, adapters, ctxDone, webUp, exited>>
        BY <2>3, Zenon DEF BleStops
      <3> QED BY <3>1
    <2>4. CASE Exit
      BY <2>4 DEF Exit
    <2> QED BY <1>20, <2>1, <2>2, <2>3, <2>4
  <1>21. CASE UNCHANGED vars
    BY <1>21 DEF vars
  <1> QED
    BY <1>1, <1>2, <1>3, <1>4, <1>5, <1>6, <1>7, <1>8, <1>9, <1>10, <1>11,
       <1>12, <1>13, <1>14, <1>15, <1>16, <1>17, <1>18, <1>19, <1>20, <1>21
       DEF Next, EventLoop

\* The agent's variables keep their types; in particular the backoff never
\* leaves MinRetryDelay .. MaxRetryDelay.
THEOREM TypeCorrect == Spec => []TypeOK
  BY TypeInit, TypeStep, PTL DEF Spec

(***************************************************************************)
(* Sessions                                                                *)
(***************************************************************************)

\* The three session invariants are not inductive by themselves: that a
\* connection holds its port has to be known from the handshake on, before
\* Connected is set.
SessionInv ==
  /\ ConnectedHasSession
  /\ PortIsReleased
  /\ pc = "handshaking" \/ (pc = "serving" /\ sessionEcu # Fake)
       => heldPort = portname /\ heldPort # NoPort
  /\ exited => pc = "stopped" /\ ~webUp /\ ~bleUp

\* The session invariant holds before the first attempt.
LEMMA SessionInit == Init => SessionInv
  BY DEF Init, SessionInv, ConnectedHasSession, PortIsReleased

\* An adapter found under a name has a name.
LEMMA AdapterNames ==
  ASSUME TypeOK, NEW i \in 1 .. Len(adapters)
  PROVE  adapters[i] # NoPort
  <1>1. adapters \in Seq(Ports)
    BY PortsAssumption DEF TypeOK
  <1>2. adapters[i] \in Ports
    BY <1>1
  <1> QED BY <1>2, PortsAssumption

\* Every step keeps the session invariant.
LEMMA SessionStep == TypeOK /\ SessionInv /\ [Next]_vars => SessionInv'
  <1> SUFFICES ASSUME TypeOK, SessionInv, [Next]_vars PROVE SessionInv'
    OBVIOUS
  <1> USE DEF SessionInv, ConnectedHasSession, PortIsReleased, attempt, choices,
              process
  <1>0. ASSUME UNCHANGED <<pc, sessionEcu, portname, heldPort, connected, webUp,
                          bleUp, exited>>
        PROVE  SessionInv'
    BY <1>0, Zenon
  <1>1. CASE AttemptBegins
    BY <1>1, Zenon DEF AttemptBegins
  <1>2. CASE NoPortsFound \/ FactoryRefuses
    <2>1. CASE NoPortsFound
      BY <2>1, Zenon DEF NoPortsFound, Fails
    <2>2. CASE FactoryRefuses
      BY <2>2, Zenon DEF FactoryRefuses, Fails
    <2> QED BY <1>2, <2>1, <2>2
  <1>3. CASE PortsFound
    BY <1>3, Zenon DEF PortsFound
  <1>4. CASE AdoptPort
    BY <1>4, Zenon DEF AdoptPort
  <1>5. CASE FakeConnects
    BY <1>5, Zenon DEF FakeConnects
  <1>6. CASE OpenFails
    BY <1>6, Zenon DEF OpenFails, Fails
  <1>7. CASE PortOpens
    <2>1. portname # NoPort
      BY <1>7, AdapterNames DEF PortOpens
    <2> QED BY <1>7, <2>1, Zenon DEF PortOpens
  <1>8. CASE HandshakeSucceeds
    BY <1>8, Zenon DEF HandshakeSucceeds
  <1>9. CASE HandshakeFails
    BY <1>9, Zenon DEF HandshakeFails, Fails
  <1>10. CASE Close
    BY <1>10, Zenon DEF Close
  <1>11. CASE Report
    BY <1>11, Zenon DEF Report
  <1>12. CASE WaitOver \/ EventLoopStops
    <2>1. CASE WaitOver
      BY <2>1, Zenon DEF WaitOver
    <2>2. CASE EventLoopStops
      BY <2>2, Zenon DEF EventLoopStops
    <2> QED BY <1>12, <2>1, <2>2
  <1>13. CASE SessionIdentifies
    BY <1>13, Zenon DEF SessionIdentifies
  <1>14. CASE CommandTaken
    BY <1>14, Zenon DEF CommandTaken
  <1>15. CASE SessionFails
    BY <1>15, Zenon DEF SessionFails, Fails
  <1>16. CASE SessionCancelled
    BY <1>16, Zenon DEF SessionCancelled
  <1>17. CASE \E t \in EcuTypes \ {NoType} : SelectEcu(t)
    BY <1>0, <1>17 DEF SelectEcu
  <1>18. CASE \E p \in Ports : SelectPort(p)
    BY <1>0, <1>18 DEF SelectPort
  <1>19. CASE \E c \in Commands : PostCommand(c)
    BY <1>0, <1>19 DEF PostCommand
  <1>20. CASE AdaptersChange
    BY <1>0, <1>20 DEF AdaptersChange
  <1>21. CASE Signal
    BY <1>21, Zenon DEF Signal
  <1>22. CASE WebStops
    BY <1>22, Zenon DEF WebStops
  <1>23. CASE BleStops
    BY <1>23, Zenon DEF BleStops
  <1>24. CASE Exit
    BY <1>24, Zenon DEF Exit
  <1>25. CASE UNCHANGED vars
    BY <1>25, Zenon DEF vars
  <1> QED
    BY <1>1, <1>2, <1>3, <1>4, <1>5, <1>6, <1>7, <1>8, <1>9, <1>10, <1>11,
       <1>12, <1>13, <1>14, <1>15, <1>16, <1>17, <1>18, <1>19, <1>20, <1>21,
       <1>22, <1>23, <1>24, <1>25, Zenon DEF Next, EventLoop, Session

\* The session invariant holds in every reachable state.
LEMMA SessionCorrect == Spec => []SessionInv
  BY TypeCorrect, SessionInit, SessionStep, PTL DEF Spec

\* Connected is shown only while a handler runs on the port it chose.
THEOREM ConnectionsAreReal == Spec => []ConnectedHasSession
  <1>1. SessionInv => ConnectedHasSession
    BY DEF SessionInv
  <1> QED BY <1>1, SessionCorrect, PTL

\* Every way out of an attempt gives its port back.
THEOREM PortsAreReleased == Spec => []PortIsReleased
  <1>1. SessionInv => PortIsReleased
    BY DEF SessionInv
  <1> QED BY <1>1, SessionCorrect, PTL

\* The process exits with no session, no open port and no goroutine left.
THEOREM ExitsAreClean == Spec => []ExitIsClean
  <1>1. SessionInv => ExitIsClean
    BY Zenon DEF SessionInv, ExitIsClean, ConnectedHasSession, PortIsReleased
  <1> QED BY <1>1, SessionCorrect, PTL
=============================================================================
