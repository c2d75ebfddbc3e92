------------------------------ MODULE Sessions ------------------------------
(***************************************************************************)
(* The sessions with framed protocols.  ecu.Factory makes the handler of   *)
(* the type the user selected, and one session runs at a time, so in a     *)
(* behaviour one handler moves and all of them share what KLine holds.     *)
(***************************************************************************)
EXTENDS KLine

Mems2J == INSTANCE MEMS2J
Mems3 == INSTANCE MEMS3
Rc5 == INSTANCE RC5
Fake == INSTANCE FakeECU

MCPoll == <<"faults", "data">>

Loop ==
  \/ handler = "2J" /\ Mems2J!Loop
  \/ handler = "3" /\ Mems3!Loop
  \/ handler = "rc5" /\ Rc5!Loop
  \/ handler = "fake" /\ Fake!Loop

\* What the adapter may do to a session.
PortFails ==
  \/ handler = "2J" /\ Mems2J!WakeUpFails
  \/ handler = "3" /\ Mems3!ReadFails
  \/ handler = "rc5" /\ (Rc5!WakePatternFails \/ Rc5!WakeReadFails \/ Rc5!ReadFails)

Factory == \E type \in {"2J", "3", "rc5", "fake"} : Init(type)

Next == Loop \/ PortFails \/ Environment

Spec == Factory /\ [][Next]_vars

\* The session's goroutine runs on.  Nothing is promised of the ECU, the wire,
\* the adapter or the user.
FairSpec == Spec /\ WF_vars(Loop)

(***************************************************************************)
(* Properties                                                              *)
(***************************************************************************)

\* The steps that write to the port, whether their bytes are echoed or not.
Transmits ==
  \/ handler = "2J" /\ (Mems2J!WakeUp \/ Mems2J!HandleFrame \/ Mems2J!HandleGarbled)
  \/ handler = "3" /\ (Mems3!Start \/ Mems3!HandleReply)
  \/ handler = "rc5" /\ (Rc5!WakePattern \/ Rc5!SendNextCommand)

\* What such a step has asked for: the echo at the end of the line shows it, and
\* so does an ECU that had nothing to answer.
AskedFor(name) ==
  \/ Echo /\ line' # <<>> /\ line'[Len(line')][1].name = name
  \/ inbox = <<>> /\ inbox' # <<>> /\ Head(inbox').name = name

PollsNext == \E i \in DOMAIN Poll : AskedFor(Poll[i])
LeftAlone ==
  handler \in {"2J", "3"} /\ ecuOn /\ drops = 0 /\ \A c \in Posts : posted[c] = 0

\* "A half-duplex bus": as long as the wire has lost nothing, a request goes
\* out only when the reply to the one before has been taken off the wire in
\* full, whatever the user posts and whatever the ECU refuses.
OneRequestAtATime ==
  [][Transmits /\ lost = 0 =>
       /\ inbox = <<>> /\ \A i \in DOMAIN line : line[i] = Zero
       /\ IF pc = "handle" THEN Len(buffer) = 2 ELSE buffer = <<>>]_vars

\* "Once authenticated it polls faults then the data PIDs": left alone by the
\* user and the ECU, a 2J or 3 session asks for nothing behind the security
\* access before the ECU has let it in, even if the wire damages a reply.
UnlockedBeforePolling ==
  [][Transmits /\ PollsNext /\ LeftAlone => access = "granted"]_vars

\* A command runs at most as often as the user asked for it, and an alert says
\* that one is done only when it is.
CommandsAreHonest ==
  /\ \A c \in Posts : executed[c] <= posted[c]
  /\ alert # NoCommand => executed[alert] > 0

\* "A refused ping means the session dropped, so we restart from requestSeed":
\* a 2J or 3 session the ECU has shut out is let in again or ends; it does not
\* go on asking for ever.
ResumesPolling ==
  (handler \in {"2J", "3"} /\ access # "granted") ~> (access = "granted" \/ pc \in Over)

\* A session whose ECU has gone ends, and a command does not stay pending in
\* one that runs on.
SessionMovesOn ==
  /\ (~ecuOn) ~> (pc \in Over)
  /\ (userCommand # NoCommand) ~> (userCommand = NoCommand \/ pc \in Over)
=============================================================================
