------------------------------- MODULE MEMS1x -------------------------------
(***************************************************************************)
(* One MEMS 1.x session (internal/ecu/mems1x): the request/response loop   *)
(* of ReadData on a half-duplex K-line, the one-slot user command of       *)
(* ecu.State that the web handlers fill while the loop runs, and, as the   *)
(* environment, the wire and the engine ECU at its other end.  A MEMS 1.9  *)
(* session runs the same loop after its own wake-up.                       *)
(*                                                                         *)
(* Bytes are numbers.  A user command is named by the byte it is sent as,  *)
(* which commandNames makes a bijection.  The 10 ms sleeps are left out:   *)
(* readLoops counts empty reads, so a late answer and a timeout race       *)
(* freely.                                                                 *)
(***************************************************************************)
EXTENDS Integers, Sequences, FiniteSets

CONSTANTS
  UserCommands,   \* the command bytes of the userCommands table
  PacketSizes,    \* the values the ECU puts in a data frame's size byte
  DataBytes,      \* the values of the bytes the ECU reports or acknowledges with
  Echo,           \* TRUE iff the adapter echoes what is transmitted
  ReadLoopsLimit, \* empty reads before the loop gives up (200 in the code)
  MaxPosts,       \* bound: user commands posted in a behaviour
  MaxLost         \* bound: bytes the wire loses in a behaviour

CA == 202   \* 0xCA, first byte of the handshake
S75 == 117  \* 0x75
F4 == 244   \* 0xF4, select diagnostic mode
D0 == 208   \* 0xD0, read the ECU ID
D80 == 128  \* 0x80, first live data frame
D7D == 125  \* 0x7D, second live data frame

Byte == 0 .. 255
Protocol == {CA, S75, F4, D0, D80, D7D}
Requests == Protocol \cup UserCommands

NoCommand == 256       \* UserCommand == ""
UnknownCommand == 257  \* a name userCommands does not hold
Slots == UserCommands \cup {NoCommand, UnknownCommand}

ASSUME ParametersAssumption ==
  /\ UserCommands \subseteq Byte \ Protocol
  /\ PacketSizes \subseteq Byte \ {0}
  /\ DataBytes \subseteq Byte
  /\ Echo \in BOOLEAN
  /\ ReadLoopsLimit \in Nat \ {0}
  /\ MaxPosts \in Nat /\ MaxLost \in Nat

VARIABLES
  pc,            \* "init", "read", "handle", or how the session ended
  buffer,        \* bytes received and not yet processed
  readLoops,     \* consecutive reads that returned nothing
  gotKlineEcho,  \* the echo of the last byte sent has been discarded
  lastKlineByte, \* the last byte sent
  userCommand,   \* ecu.State.UserCommand
  connected,     \* ecu.State.Connected
  alert,         \* the command the last "ECU accepted ..." alert names
  ctxDone,       \* the agent is shutting down
  line,          \* bytes on the wire towards the agent
  ecuInbox,      \* commands the ECU has received and not answered
  ecuStage,      \* how far the ECU has been taken through CA 75 F4 D0
  ecuOn,         \* FALSE once the ignition is off: the ECU answers no more
  posted,        \* posted[c]: times the user asked for command c
  executed,      \* executed[c]: times the ECU carried out command c
  lost           \* bytes the wire has lost

agent == <<pc, buffer, readLoops, gotKlineEcho, lastKlineByte>>
state == <<userCommand, connected, alert>>
ecu == <<ecuInbox, ecuStage, ecuOn, executed>>
vars == <<agent, state, ecu, ctxDone, line, posted, lost>>

Ended == {"cancelled", "ioerror", "timeout"}

(***************************************************************************)
(* What the agent sends                                                    *)
(***************************************************************************)

\* A walk that skips the extra F4 step.
NextInWalkWithoutF4(previous) ==
  CASE previous = CA  -> S75
    [] previous = S75 -> D0
    [] previous = D80 -> D7D
    [] OTHER -> D80

\* The fixed init/poll walk: CA 75 F4 D0, then 80 and 7D alternating.
NextInWalk(previous) ==
  CASE previous = CA  -> S75
    [] previous = S75 -> F4
    [] previous = F4  -> D0
    [] previous = D80 -> D7D
    [] OTHER -> D80

\* A pending command the table knows pre-empts the walk; the slot is emptied
\* whatever it holds.
NextCommand(previous) ==
  IF userCommand \in UserCommands THEN userCommand ELSE NextInWalk(previous)

\* A transmission is electrically echoed at once.  A write error is only
\* logged, so the echo bookkeeping is armed in every case.
Send(data) ==
  /\ gotKlineEcho' = FALSE
  /\ lastKlineByte' = data
  /\ line' = IF Echo THEN Append(line, data) ELSE line
  /\ ecuInbox' = IF ecuOn THEN Append(ecuInbox, data) ELSE ecuInbox

\* Leaves the command in the slot.
AnswerKeepingCommand(previous) ==
  /\ Send(NextCommand(previous))
  /\ UNCHANGED userCommand
  /\ buffer' = <<>>
  /\ pc' = "read"

\* Empties the slot only of a command the table knows.
AnswerKeepingUnknown(previous) ==
  /\ Send(NextCommand(previous))
  /\ userCommand' = IF userCommand \in UserCommands THEN NoCommand ELSE userCommand
  /\ buffer' = <<>>
  /\ pc' = "read"

\* m.send(sp, m.nextCommand(previous)); buffer = nil
Answer(previous) ==
  /\ Send(NextCommand(previous))
  /\ userCommand' = NoCommand
  /\ buffer' = <<>>
  /\ pc' = "read"

(***************************************************************************)
(* The read loop                                                           *)
(***************************************************************************)

Start ==
  /\ pc = "init"
  /\ pc' = "read"
  /\ Send(CA)
  /\ UNCHANGED <<buffer, readLoops, state, ecuStage, ecuOn, executed, ctxDone,
                 posted, lost>>

\* Does not count the empty reads.
ReadUncounted ==
  /\ pc = "read" /\ readLoops < ReadLoopsLimit /\ ~ctxDone
  /\ \E n \in 0 .. Len(line) :
       /\ buffer' = buffer \o SubSeq(line, 1, n)
       /\ line' = SubSeq(line, n + 1, Len(line))
       /\ readLoops' = IF n > 0 THEN 0 ELSE readLoops
  /\ pc' = IF buffer' = <<>> THEN "read" ELSE "handle"
  /\ UNCHANGED <<gotKlineEcho, lastKlineByte, state, ecu, ctxDone, posted, lost>>

\* One pass of the loop up to the read: whatever has arrived by then, possibly
\* nothing, is appended to the buffer.
Read ==
  /\ pc = "read" /\ readLoops < ReadLoopsLimit /\ ~ctxDone
  /\ \E n \in 0 .. Len(line) :
       /\ buffer' = buffer \o SubSeq(line, 1, n)
       /\ line' = SubSeq(line, n + 1, Len(line))
       /\ readLoops' = IF n > 0 THEN 0 ELSE readLoops + 1
  /\ pc' = IF buffer' = <<>> THEN "read" ELSE "handle"
  /\ UNCHANGED <<gotKlineEcho, lastKlineByte, state, ecu, ctxDone, posted, lost>>

Timeout ==
  /\ pc = "read" /\ readLoops >= ReadLoopsLimit
  /\ pc' = "timeout"
  /\ UNCHANGED <<buffer, readLoops, gotKlineEcho, lastKlineByte, state, ecu,
                 ctxDone, line, posted, lost>>

Cancelled ==
  /\ pc = "read" /\ readLoops < ReadLoopsLimit /\ ctxDone
  /\ pc' = "cancelled"
  /\ UNCHANGED <<buffer, readLoops, gotKlineEcho, lastKlineByte, state, ecu,
                 ctxDone, line, posted, lost>>

\* A read error that is not a timeout: the adapter was unplugged.
ReadFails ==
  /\ pc = "read" /\ readLoops < ReadLoopsLimit /\ ~ctxDone
  /\ pc' = "ioerror"
  /\ UNCHANGED <<buffer, readLoops, gotKlineEcho, lastKlineByte, state, ecu,
                 ctxDone, line, posted, lost>>

EchoFirst == ~gotKlineEcho /\ Head(buffer) = lastKlineByte

ConsumeEcho ==
  /\ pc = "handle" /\ EchoFirst
  /\ gotKlineEcho' = TRUE
  /\ buffer' = Tail(buffer)
  /\ pc' = "read"
  /\ UNCHANGED <<readLoops, lastKlineByte, state, ecu, ctxDone, line, posted,
                 lost>>

\* One byte short of a data frame.
CompleteOneShort(reply) ==
  LET first == Head(reply) IN
  \/ first \in {CA, S75}
  \/ first \in UserCommands /\ Len(reply) >= 2
  \/ first = F4 /\ Len(reply) >= 2 /\ reply[2] = 0
  \/ first = D0 /\ Len(reply) >= 5
  \/ first \in {D80, D7D} /\ Len(reply) >= 2 /\ Len(reply) >= reply[2]

\* Enough of a reply has arrived for the loop to act on it.
Complete(reply) ==
  LET first == Head(reply) IN
  \/ first \in {CA, S75}
  \/ first \in UserCommands /\ Len(reply) >= 2
  \/ first = F4 /\ Len(reply) >= 2 /\ reply[2] = 0
  \/ first = D0 /\ Len(reply) >= 5
  \/ first \in {D80, D7D} /\ Len(reply) >= 2 /\ Len(reply) >= reply[2] + 1

\* Names the pending command instead of the acknowledged one.
CommandAcceptedNamingPending ==
  /\ pc = "handle" /\ ~EchoFirst
  /\ Head(buffer) \in UserCommands /\ Complete(buffer)
  /\ alert' = userCommand
  /\ Answer(Head(buffer))
  /\ UNCHANGED <<readLoops, connected, ecuStage, ecuOn, executed, ctxDone,
                 posted, lost>>

CommandAccepted ==
  /\ pc = "handle" /\ ~EchoFirst
  /\ Head(buffer) \in UserCommands /\ Complete(buffer)
  /\ alert' = Head(buffer)
  /\ Answer(Head(buffer))
  /\ UNCHANGED <<readLoops, connected, ecuStage, ecuOn, executed, ctxDone,
                 posted, lost>>

HandshakeReply ==
  /\ pc = "handle" /\ ~EchoFirst
  /\ Head(buffer) \in {CA, S75, F4} /\ Complete(buffer)
  /\ Answer(Head(buffer))
  /\ UNCHANGED <<readLoops, connected, alert, ecuStage, ecuOn, executed,
                 ctxDone, posted, lost>>

Identified ==
  /\ pc = "handle" /\ ~EchoFirst
  /\ Head(buffer) = D0 /\ Complete(buffer)
  /\ connected' = TRUE
  /\ Answer(D0)
  /\ UNCHANGED <<readLoops, alert, ecuStage, ecuOn, executed, ctxDone, posted,
                 lost>>

DataFrame ==
  /\ pc = "handle" /\ ~EchoFirst
  /\ Head(buffer) \in {D80, D7D} /\ Complete(buffer)
  /\ Answer(Head(buffer))
  /\ UNCHANGED <<readLoops, connected, alert, ecuStage, ecuOn, executed,
                 ctxDone, posted, lost>>

\* An incomplete reply or an unrecognised first byte: nothing is dropped, the
\* loop waits for more.
AwaitMore ==
  /\ pc = "handle" /\ ~EchoFirst /\ ~Complete(buffer)
  /\ pc' = "read"
  /\ UNCHANGED <<buffer, readLoops, gotKlineEcho, lastKlineByte, state, ecu,
                 ctxDone, line, posted, lost>>

Loop ==
  \/ Start \/ Read \/ Timeout \/ Cancelled \/ ConsumeEcho \/ CommandAccepted
  \/ HandshakeReply \/ Identified \/ DataFrame \/ AwaitMore

(***************************************************************************)
(* The web handlers and the process                                        *)
(***************************************************************************)

\* POST /command/:name overwrites whatever is pending, known or not.
SetUserCommand(c) ==
  /\ posted[c] < MaxPosts
  /\ userCommand' = c
  /\ posted' = [posted EXCEPT ![c] = @ + 1]
  /\ UNCHANGED <<agent, connected, alert, ecu, ctxDone, line, lost>>

Shutdown ==
  /\ ~ctxDone
  /\ ctxDone' = TRUE
  /\ UNCHANGED <<agent, state, ecu, line, posted, lost>>

(***************************************************************************)
(* The ECU and the wire                                                    *)
(***************************************************************************)

\* Any byte may stand in a reply's data, a request's too.
Replies(c) ==
  CASE c \in {CA, S75} -> {<<c>>}
    [] c = F4 -> {<<c, 0>>}
    [] c = D0 -> {<<c>> \o id : id \in [1 .. 4 -> DataBytes]}
    [] c \in {D80, D7D} ->
         UNION {{<<c, s>> \o data : data \in [1 .. s - 1 -> DataBytes]} : s \in PacketSizes}
    [] OTHER -> {<<c, d>> : d \in DataBytes}

\* The ECU follows CA 75 F4 D0 one stage at a time.
StageAfter(stage, c) ==
  IF <<stage, c>> \in {<<0, CA>>, <<1, S75>>, <<2, F4>>, <<3, D0>>}
  THEN stage + 1 ELSE stage

EcuAnswers ==
  /\ ecuOn /\ ecuInbox # <<>>
  /\ \E r \in Replies(Head(ecuInbox)) : line' = line \o r
  /\ ecuStage' = StageAfter(ecuStage, Head(ecuInbox))
  /\ executed' = IF Head(ecuInbox) \in UserCommands
                 THEN [executed EXCEPT ![Head(ecuInbox)] = @ + 1] ELSE executed
  /\ ecuInbox' = Tail(ecuInbox)
  /\ UNCHANGED <<agent, state, ecuOn, ctxDone, posted, lost>>

IgnitionOff ==
  /\ ecuOn
  /\ ecuOn' = FALSE
  /\ ecuInbox' = <<>>
  /\ UNCHANGED <<agent, state, ecuStage, executed, ctxDone, line, posted, lost>>

LoseByte ==
  /\ lost < MaxLost
  /\ lost' = lost + 1
  /\ \/ /\ \E i \in 1 .. Len(line) :
              line' = SubSeq(line, 1, i - 1) \o SubSeq(line, i + 1, Len(line))
        /\ UNCHANGED ecuInbox
     \/ /\ ecuInbox # <<>>
        /\ ecuInbox' = Tail(ecuInbox)
        /\ UNCHANGED line
  /\ UNCHANGED <<agent, state, ecuStage, ecuOn, executed, ctxDone, posted>>

(***************************************************************************)
(* Specification                                                           *)
(***************************************************************************)

\* The slot may still hold a command posted before this session.
InitAt(first) ==
  /\ pc = first /\ buffer = <<>> /\ readLoops = 0
  /\ gotKlineEcho = FALSE /\ lastKlineByte = 0
  /\ userCommand \in Slots
  /\ connected = FALSE /\ alert = NoCommand
  /\ ctxDone = FALSE
  /\ ecuInbox = <<>> /\ ecuStage = 0 /\ ecuOn = TRUE
  /\ posted = [c \in UserCommands \cup {UnknownCommand} |->
                 IF c = userCommand THEN 1 ELSE 0]
  /\ executed = [c \in UserCommands |-> 0]
  /\ lost = 0

Init == InitAt("init") /\ line = <<>>

Next ==
  \/ Loop \/ ReadFails
  \/ \E c \in UserCommands \cup {UnknownCommand} : SetUserCommand(c)
  \/ Shutdown
  \/ EcuAnswers \/ IgnitionOff \/ LoseByte

Spec == Init /\ [][Next]_vars

\* The loop's goroutine always runs on.  Nothing is promised of the ECU, the
\* wire or the user.
FairSpec == Spec /\ WF_vars(Loop)

(***************************************************************************)
(* Properties                                                              *)
(***************************************************************************)

\* The dashboard shows "connected" only after the ECU itself has been taken
\* through CA, 75, F4 and D0 in that order, whatever commands the user posted
\* meanwhile and whatever bytes the ECU's answers hold.  A reply has no checksum
\* and no length but its size byte, so once a byte is missing the next may be
\* taken for the reply to anything: this is said of a wire that lost none.
ConnectedMeansIdentified == lost = 0 /\ connected => ecuStage = 4

\* "Strictly request/response": as long as the wire has lost nothing, the loop
\* transmits only when the previous reply has been taken off the wire in full
\* and no command is outstanding, so it never talks over the ECU on the single
\* wire.
NeverTalksOverTheEcu ==
  [][lost = 0 /\ Len(ecuInbox') > Len(ecuInbox)
       => ecuInbox = <<>> /\ line = <<>>]_vars

\* An actuator test or a clear-faults runs at most as often as the user asked
\* for it: no interleaving of POST /command with the loop duplicates one.
NoCommandRepeated == \A c \in UserCommands : executed[c] <= posted[c]

\* "ECU accepted c" is shown only if the ECU has carried out c, whatever the
\* acknowledgements of other commands hold, on a wire that lost nothing.
AlertIsTruthful == lost = 0 /\ alert # NoCommand => executed[alert] > 0

\* "A dead/unplugged ECU surfaces as a timeout instead of hanging": once the
\* ignition is off the session ends.
DeadEcuEndsSession == ~ecuOn ~> pc \in Ended

\* A pending command, known or not, does not stay in the slot of a session
\* that runs on: it is taken by the next reply or the session ends.
PendingCommandIsTaken ==
  userCommand # NoCommand ~> (userCommand = NoCommand \/ pc \in Ended)
=============================================================================
