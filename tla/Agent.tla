------------------------------- MODULE Agent -------------------------------
(***************************************************************************)
(* The agent process (cmd/rover-mems): the event loop that makes one       *)
(* connection attempt after another with a growing delay, the choice of    *)
(* the serial port, the life of an ECU session (Factory, Connect, ReadData,*)
(* deferred Close), the shared fields of ecu.State they go through, and    *)
(* the shutdown of main's goroutines.  The web handlers change the         *)
(* selected ECU type, serial port and user command at any moment.          *)
(*                                                                         *)
(* A session is seen from outside here: what its handler does on the wire  *)
(* is MEMS1x's subject.                                                    *)
(***************************************************************************)
EXTENDS Integers, Sequences

CONSTANTS
  SerialTypes,    \* the registered ECU types that need a serial port
  Fake,           \* the type "fake"
  UnknownType,    \* a type nobody registered; POST /ecu takes any name
  NoType,         \* EcuType == ""
  Ports,          \* serial device names
  NoPort,         \* SelectedSerialPort == ""
  AdapterLists,   \* the port lists getPorts can find
  Commands, NoCommand,
  MinRetryDelay, MaxRetryDelay

EcuTypes == SerialTypes \cup {Fake, UnknownType, NoType}

ASSUME TypesAssumption ==
  /\ Fake \notin SerialTypes /\ UnknownType \notin SerialTypes
  /\ NoType \notin SerialTypes
  /\ Fake # UnknownType /\ Fake # NoType /\ UnknownType # NoType

ASSUME PortsAssumption ==
  /\ NoPort \notin Ports
  /\ AdapterLists \subseteq Seq(Ports)
  /\ NoCommand \notin Commands

ASSUME DelaysAssumption ==
  /\ MinRetryDelay \in Nat \ {0} /\ MaxRetryDelay \in Nat
  /\ MinRetryDelay <= MaxRetryDelay

VARIABLES
  pc,           \* where the event loop is
  sessionEcu,   \* the ECU type this attempt read from the state
  portname,     \* the port this attempt uses
  heldPort,     \* the serial port the handler has open
  outcome,      \* how the attempt ended: "none", "error" or "cancelled"
  delay,        \* the retry delay, in seconds
  reached,      \* this attempt's Connect succeeded
  ecuType, selectedPort, serialPorts, userCommand, connected, \* ecu.State
  error,        \* ecu.State.Error is set
  adapters,     \* the ports present now
  chosenPort,   \* the port of the last POST /serialPort
  ctxDone,      \* SIGINT or SIGTERM received
  webUp, bleUp, \* main's two other goroutines
  exited        \* main has returned

attempt == <<sessionEcu, portname, heldPort, outcome, reached>>
choices == <<ecuType, selectedPort, chosenPort, userCommand>>
process == <<ctxDone, webUp, bleUp, exited>>
vars == <<pc, attempt, delay, choices, serialPorts, connected, error, adapters,
          process>>

Init ==
  /\ pc = "top" /\ sessionEcu = NoType /\ portname = NoPort
  /\ heldPort = NoPort /\ outcome = "none" /\ reached = FALSE
  /\ delay = MinRetryDelay
  /\ ecuType \in EcuTypes /\ selectedPort \in Ports \cup {NoPort}
  /\ chosenPort = NoPort
  /\ userCommand = NoCommand /\ serialPorts = <<>>
  /\ connected = FALSE /\ error = FALSE
  /\ adapters \in AdapterLists
  /\ ctxDone = FALSE /\ webUp = TRUE /\ bleUp \in BOOLEAN /\ exited = FALSE

(***************************************************************************)
(* One connection attempt                                                  *)
(***************************************************************************)

Fails == outcome' = "error" /\ UNCHANGED <<sessionEcu, portname, heldPort, reached>>

AttemptBegins ==
  /\ pc = "top" /\ ~ctxDone
  /\ connected' = FALSE
  /\ sessionEcu' = ecuType /\ reached' = FALSE
  /\ portname' = NoPort /\ UNCHANGED heldPort
  /\ \/ ecuType = NoType /\ pc' = "reporting" /\ outcome' = "error"
     \/ ecuType = Fake /\ pc' = "connecting" /\ outcome' = "none"
     \/ /\ ecuType \notin {NoType, Fake}
        /\ pc' = "discovering" /\ outcome' = "none"
  /\ UNCHANGED <<delay, choices, serialPorts, error, adapters, process>>

\* getPorts fails or finds nothing.
NoPortsFound ==
  /\ pc = "discovering"
  /\ pc' = "reporting" /\ Fails
  /\ UNCHANGED <<delay, choices, serialPorts, connected, error, adapters, process>>

\* Publishes the list and reads the selection under one lock.  With nothing
\* selected the first port found is used and, later, written back.
PortsFound ==
  /\ pc = "discovering" /\ adapters # <<>>
  /\ serialPorts' = adapters
  /\ \/ selectedPort # NoPort /\ portname' = selectedPort /\ pc' = "connecting"
     \/ selectedPort = NoPort /\ portname' = Head(adapters) /\ pc' = "adopting"
  /\ UNCHANGED <<sessionEcu, heldPort, outcome, reached, delay, choices,
                 connected, error, adapters, process>>

\* The write-back, under a second lock.
AdoptPort ==
  /\ pc = "adopting"
  /\ selectedPort' = portname
  /\ pc' = "connecting"
  /\ UNCHANGED <<attempt, delay, ecuType, chosenPort, userCommand, serialPorts,
                 connected, error, adapters, process>>

\* Factory knows no such type: there is no handler to close.
FactoryRefuses ==
  /\ pc = "connecting" /\ sessionEcu = UnknownType
  /\ pc' = "reporting" /\ Fails
  /\ UNCHANGED <<delay, choices, serialPorts, connected, error, adapters, process>>

FakeConnects ==
  /\ pc = "connecting" /\ sessionEcu = Fake
  /\ connected' = TRUE /\ reached' = TRUE /\ pc' = "serving"
  /\ UNCHANGED <<sessionEcu, portname, heldPort, outcome, delay, choices,
                 serialPorts, error, adapters, process>>

OpenFails ==
  /\ pc = "connecting" /\ sessionEcu \in SerialTypes
  /\ pc' = "closing" /\ Fails
  /\ UNCHANGED <<delay, choices, serialPorts, connected, error, adapters, process>>

PortOpens ==
  /\ pc = "connecting" /\ sessionEcu \in SerialTypes
  /\ \E i \in 1 .. Len(adapters) : adapters[i] = portname
  /\ heldPort' = portname /\ connected' = FALSE /\ pc' = "handshaking"
  /\ UNCHANGED <<sessionEcu, portname, outcome, reached, delay, choices,
                 serialPorts, error, adapters, process>>

\* The handlers' Connect never looks at its context: the wake-up runs to its
\* own end, whatever happens to the process.
HandshakeSucceeds ==
  /\ pc = "handshaking"
  /\ reached' = TRUE /\ pc' = "serving"
  /\ UNCHANGED <<sessionEcu, portname, heldPort, outcome, delay, choices,
                 serialPorts, connected, error, adapters, process>>

HandshakeFails ==
  /\ pc = "handshaking"
  /\ pc' = "closing" /\ Fails
  /\ UNCHANGED <<delay, choices, serialPorts, connected, error, adapters, process>>

SessionIdentifies ==
  /\ pc = "serving" /\ ~connected
  /\ connected' = TRUE
  /\ UNCHANGED <<pc, attempt, delay, choices, serialPorts, error, adapters,
                 process>>

CommandTaken ==
  /\ pc = "serving" /\ userCommand # NoCommand
  /\ userCommand' = NoCommand
  /\ UNCHANGED <<pc, attempt, delay, ecuType, selectedPort, chosenPort,
                 serialPorts, connected, error, adapters, process>>

\* Timeout or read error.  The fake ECU's loop has neither.
SessionFails ==
  /\ pc = "serving" /\ sessionEcu # Fake
  /\ pc' = "closing" /\ Fails
  /\ UNCHANGED <<delay, choices, serialPorts, connected, error, adapters, process>>

\* Only the handlers with a port check their context.
SerialSessionCancelled ==
  /\ pc = "serving" /\ ctxDone /\ sessionEcu # Fake
  /\ pc' = "closing" /\ outcome' = "cancelled"
  /\ UNCHANGED <<sessionEcu, portname, heldPort, reached, delay, choices,
                 serialPorts, connected, error, adapters, process>>

SessionCancelled ==
  /\ pc = "serving" /\ ctxDone
  /\ pc' = "closing" /\ outcome' = "cancelled"
  /\ UNCHANGED <<sessionEcu, portname, heldPort, reached, delay, choices,
                 serialPorts, connected, error, adapters, process>>

\* The deferred Close of the handler forgets to clear the flag.
CloseKeepingConnected ==
  /\ pc = "closing"
  /\ heldPort' = NoPort /\ pc' = "reporting"
  /\ UNCHANGED <<sessionEcu, portname, outcome, reached, delay, choices,
                 serialPorts, connected, error, adapters, process>>

\* The deferred Close forgets the port.
CloseKeepingPort ==
  /\ pc = "closing"
  /\ connected' = FALSE /\ pc' = "reporting"
  /\ UNCHANGED <<sessionEcu, portname, heldPort, outcome, reached, delay,
                 choices, serialPorts, error, adapters, process>>

\* The deferred Close of the handler.
Close ==
  /\ pc = "closing"
  /\ connected' = FALSE /\ heldPort' = NoPort /\ pc' = "reporting"
  /\ UNCHANGED <<sessionEcu, portname, outcome, reached, delay, choices,
                 serialPorts, error, adapters, process>>

(***************************************************************************)
(* Between attempts                                                        *)
(***************************************************************************)

\* Resets after every attempt.
NextRetryDelayReset(current, failed) == MinRetryDelay

\* Doubles without a cap.
NextRetryDelayUncapped(current, failed) ==
  IF ~failed THEN MinRetryDelay ELSE 2 * current

NextRetryDelay(current, failed) ==
  IF ~failed THEN MinRetryDelay
  ELSE IF 2 * current > MaxRetryDelay THEN MaxRetryDelay ELSE 2 * current

\* attemptConnection: a cancelled attempt is not a failure, any other error is
\* shown and lengthens the delay.
Report ==
  /\ pc = "reporting"
  /\ LET failed == outcome # "cancelled" IN
       /\ error' = (error \/ failed)
       /\ delay' = NextRetryDelay(delay, failed)
  /\ pc' = "waiting"
  /\ UNCHANGED <<attempt, choices, serialPorts, connected, adapters, process>>

WaitOver ==
  /\ pc = "waiting"
  /\ pc' = "top"
  /\ UNCHANGED <<attempt, delay, choices, serialPorts, connected, error,
                 adapters, process>>

EventLoopStops ==
  /\ pc \in {"top", "waiting"} /\ ctxDone
  /\ pc' = "stopped"
  /\ UNCHANGED <<attempt, delay, choices, serialPorts, connected, error,
                 adapters, process>>

EventLoop ==
  \/ AttemptBegins \/ NoPortsFound \/ PortsFound \/ AdoptPort
  \/ FactoryRefuses \/ FakeConnects \/ OpenFails \/ PortOpens
  \/ HandshakeSucceeds \/ HandshakeFails
  \/ Close \/ Report \/ WaitOver \/ EventLoopStops

Session == SessionIdentifies \/ CommandTaken \/ SessionFails \/ SessionCancelled

(***************************************************************************)
(* The web handlers, the hardware and the other goroutines                 *)
(***************************************************************************)

SelectEcu(t) ==
  /\ webUp
  /\ ecuType' = t
  /\ UNCHANGED <<pc, attempt, delay, selectedPort, chosenPort, userCommand,
                 serialPorts, connected, error, adapters, process>>

SelectPort(p) ==
  /\ webUp
  /\ selectedPort' = p /\ chosenPort' = p
  /\ UNCHANGED <<pc, attempt, delay, ecuType, userCommand, serialPorts,
                 connected, error, adapters, process>>

PostCommand(c) ==
  /\ webUp
  /\ userCommand' = c
  /\ UNCHANGED <<pc, attempt, delay, ecuType, selectedPort, chosenPort,
                 serialPorts, connected, error, adapters, process>>

AdaptersChange ==
  /\ adapters' \in AdapterLists
  /\ UNCHANGED <<pc, attempt, delay, choices, serialPorts, connected, error,
                 process>>

Signal ==
  /\ ~ctxDone /\ ctxDone' = TRUE
  /\ UNCHANGED <<pc, attempt, delay, choices, serialPorts, connected, error,
                 adapters, webUp, bleUp, exited>>

\* The server's graceful shutdown takes at most five seconds.
WebStops ==
  /\ webUp /\ ctxDone /\ webUp' = FALSE
  /\ UNCHANGED <<pc, attempt, delay, choices, serialPorts, connected, error,
                 adapters, ctxDone, bleUp, exited>>

\* On shutdown, or at any time when the adapter cannot be driven.
BleStops ==
  /\ bleUp /\ bleUp' = FALSE
  /\ UNCHANGED <<pc, attempt, delay, choices, serialPorts, connected, error,
                 adapters, ctxDone, webUp, exited>>

\* wg.Wait is missing: main returns with the event loop.
ExitAtOnce ==
  /\ pc = "stopped" /\ ~exited
  /\ exited' = TRUE
  /\ UNCHANGED <<pc, attempt, delay, choices, serialPorts, connected, error,
                 adapters, ctxDone, webUp, bleUp>>

\* main returns after wg.Wait.
Exit ==
  /\ pc = "stopped" /\ ~webUp /\ ~bleUp /\ ~exited
  /\ exited' = TRUE
  /\ UNCHANGED <<pc, attempt, delay, choices, serialPorts, connected, error,
                 adapters, ctxDone, webUp, bleUp>>

(***************************************************************************)
(* Specification                                                           *)
(***************************************************************************)

Next ==
  \/ EventLoop \/ Session
  \/ \E t \in EcuTypes \ {NoType} : SelectEcu(t)
  \/ \E p \in Ports : SelectPort(p)
  \/ \E c \in Commands : PostCommand(c)
  \/ AdaptersChange \/ Signal \/ WebStops \/ BleStops \/ Exit

Spec == Init /\ [][Next]_vars

\* A session on a port that is gone.  Its reads fail or return nothing, and
\* every handler gives up on either.
Orphaned ==
  /\ sessionEcu # Fake
  /\ ~ \E i \in 1 .. Len(adapters) : adapters[i] = heldPort

\* The goroutines run on; Connect ends in bounded time; ReadData checks its
\* context on every pass and gives up on a port that is gone.
FairSpec ==
  /\ Spec
  /\ WF_vars(EventLoop) /\ WF_vars(SessionCancelled)
  /\ WF_vars(Orphaned /\ SessionFails)
  /\ WF_vars(WebStops) /\ WF_vars(ctxDone /\ BleStops) /\ WF_vars(Exit)

(***************************************************************************)
(* Properties                                                              *)
(***************************************************************************)

\* The values the agent's variables range over.
TypeOK ==
  /\ pc \in {"top", "discovering", "adopting", "connecting", "handshaking",
             "serving", "closing", "reporting", "waiting", "stopped"}
  /\ sessionEcu \in EcuTypes /\ ecuType \in EcuTypes
  /\ portname \in Ports \cup {NoPort} /\ heldPort \in Ports \cup {NoPort}
  /\ selectedPort \in Ports \cup {NoPort} /\ chosenPort \in Ports \cup {NoPort}
  /\ outcome \in {"none", "error", "cancelled"}
  /\ delay \in MinRetryDelay .. MaxRetryDelay
  /\ reached \in BOOLEAN /\ connected \in BOOLEAN /\ error \in BOOLEAN
  /\ userCommand \in Commands \cup {NoCommand}
  /\ serialPorts \in Seq(Ports) /\ adapters \in AdapterLists
  /\ ctxDone \in BOOLEAN /\ webUp \in BOOLEAN /\ bleUp \in BOOLEAN
  /\ exited \in BOOLEAN

\* The dashboard never shows a connection that no session stands behind: while
\* Connected is set a handler is running (or being closed) and, unless it is
\* the fake one, it holds the port the attempt chose.
ConnectedHasSession ==
  connected =>
    /\ pc \in {"serving", "closing"}
    /\ sessionEcu # Fake => heldPort = portname /\ heldPort # NoPort

\* A port is open only inside a session: every way out of an attempt, failing
\* handshakes included, gives it back before the next attempt opens one.
PortIsReleased ==
  heldPort # NoPort => pc \in {"handshaking", "serving", "closing"}

\* main returns only when the session is closed and both goroutines have
\* finished: requests in flight are not severed.
ExitIsClean ==
  exited => ~connected /\ heldPort = NoPort /\ ~webUp /\ ~bleUp

\* A signal ends the process, wherever the attempt is.
ShutdownCompletes == ctxDone ~> exited

\* With no adapter plugged in the agent stops re-enumerating once a second:
\* the delay reaches its cap and stays there.
NoAdapterBacksOff ==
  <>[](adapters = <<>> /\ ecuType # Fake /\ sessionEcu # Fake /\ ~ctxDone)
    => <>[](delay = MaxRetryDelay)

\* "minRetryDelay is the wait after a connection attempt that reached the ECU".
ReachedEcuRetriesSoon == pc = "waiting" /\ reached => delay = MinRetryDelay

\* The selected port "can be changed via web UI": what the last POST
\* /serialPort was told is set stays set until the next one.
ChosenPortIsKept == chosenPort # NoPort => selectedPort = chosenPort
=============================================================================
