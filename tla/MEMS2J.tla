------------------------------- MODULE MEMS2J -------------------------------
(***************************************************************************)
(* A MEMS 2J session (internal/ecu/mems2j): the wake-up of Connect, the    *)
(* read loop, the security access and what starts it again when the ECU    *)
(* has dropped the session.  Bytes reach the loop through a serial.Reader  *)
(* (module SerialReader): a port that fails is only silent here.           *)
(***************************************************************************)
EXTENDS KLine

\* Two of the thirteen entries of the table: those whose reply raises an alert.
\* The others are sent the same way, and the reply to them leads to a ping.
UserCommands == Commands \cap {"clearfaults", "learnimmo"}

(***************************************************************************)
(* What the agent sends                                                    *)
(***************************************************************************)

\* Takes a refused ping for any other frame it does not know.
NextAfterUnlessRefused(frame) ==
  LET next(name) ==
        CASE name = "init" -> "diag"
          [] name = "diag" -> "seed"
          [] name \in {"ping", "clearfaults"} -> "faults"
          [] name = "learnimmo" -> Poll[2]
          [] name = "seed" -> "key"
          [] \E i \in 1 .. Len(Poll) - 1 : Poll[i] = name ->
               Poll[(CHOOSE i \in DOMAIN Poll : Poll[i] = name) + 1]
          [] OTHER -> "ping"
  IN  IF frame.kind = "reply" THEN next(frame.name) ELSE "ping"

\* A refused ping means that the session dropped: security access again.  Any
\* other refusal, or a frame nobody knows, falls back to ping.
NextAfter(frame) ==
  LET next(name) ==
        CASE name = "init" -> "diag"
          [] name = "diag" -> "seed"
          [] name \in {"ping", "clearfaults"} -> "faults"
          [] name = "learnimmo" -> Poll[2]
          [] name = "seed" -> "key"
          [] \E i \in 1 .. Len(Poll) - 1 : Poll[i] = name ->
               Poll[(CHOOSE i \in DOMAIN Poll : Poll[i] = name) + 1]
          [] OTHER -> "ping"
  IN  IF frame.kind = "reply" THEN next(frame.name)
      ELSE IF frame = Refusal("ping") THEN "seed" ELSE "ping"

\* Every framed request is remembered, to tell its echo.
SendCommand(name, arg) == Transmit(name, arg) /\ lastSent' = Request(name, arg)

\* takeUserCommand empties the slot whatever it holds.
SendNextCommand(frame) ==
  LET name == IF userCommand \in UserCommands THEN userCommand ELSE NextAfter(frame)
  IN  /\ userCommand' = NoCommand
      /\ SendCommand(name, IF name = "key" THEN key' ELSE 0)

(***************************************************************************)
(* Connect and the loop                                                    *)
(***************************************************************************)

\* The wake pulse, then the init frame, which is not remembered.
WakeUp ==
  /\ pc = "init" /\ pc' = "read"
  /\ \E noise \in {<<>>, <<Zero>>} :
       line' = noise \o (IF Echo THEN Cells(Request("init", 0)) ELSE <<>>)
  /\ inbox' = IF ecuOn THEN <<[name |-> "init", arg |-> 0]>> ELSE <<>>
  /\ UNCHANGED <<buffer, idle, lastSent, key, chosen, shared, surroundings>>

WakeUpFails == pc = "init" /\ End("failed")

Read ==
  /\ Running
  /\ \E n \in 0 .. Len(line) : Arrive(n) /\ buffer' = WithoutZeros(Received(n))
  /\ pc' = IF buffer' = <<>> THEN "read" ELSE "handle"
  /\ UNCHANGED <<lastSent, key, chosen, shared, inbox, surroundings>>

\* Only the echoes of framed requests are told.
IsEchoOfRequest == Whole(buffer) /\ Frame(buffer) = lastSent

IsEcho == Whole(buffer) /\ Frame(buffer) \in {lastSent, Request("init", 0)}

SkipEcho == pc = "handle" /\ IsEcho /\ Discard(2)

\* parseResponse, the rest of the buffer forgotten, and the next request.
Handle(frame) ==
  LET replyTo(name) == frame.kind = "reply" /\ frame.name = name IN
  /\ connected' = (connected \/ replyTo("init"))
  /\ alert' = IF replyTo("clearfaults") \/ replyTo("learnimmo") THEN frame.name ELSE alert
  /\ key' = CASE replyTo("seed") /\ frame.arg # 0 -> GenerateKey(frame.arg)
              [] replyTo("seed") /\ frame.arg = 0 -> 0
              [] OTHER -> key
  /\ buffer' = <<>> /\ pc' = "read"
  /\ SendNextCommand(frame)
  /\ UNCHANGED <<idle, chosen, surroundings>>

HandleFrame ==
  /\ pc = "handle" /\ Whole(buffer) /\ ~IsEcho
  /\ Handle(Frame(buffer))

\* What the loop may take a damaged frame for: the checksum is not verified,
\* so a reply that lost a data byte still passes as that reply.
TakenFor(cells) ==
  IF Head(cells)[2] = "head" /\ Frame(cells).kind = "reply"
  THEN IF Frame(cells).name = "seed" THEN {Reply("seed", s) : s \in Seeds \cup {0}}
       ELSE {Frame(cells)}
  ELSE {}

\* What is left of a ping or pong, 3E 3F or 7E 7F, stands for a length that no
\* frame fills.
NeverFills(cells) ==
  Head(cells) \in {Cells(Request("ping", 0))[2], Cells(Reply("ping", 0))[2]}

\* The first byte of a damaged frame stands for its length: more is waited
\* for, or it passes as a reply, or as a frame nobody knows.
HandleGarbled ==
  /\ pc = "handle" /\ Garbled(buffer) /\ ~NeverFills(buffer)
  /\ \E frame \in TakenFor(buffer) \cup {NoFrame} : Handle(frame)

Loop ==
  \/ WakeUp \/ Read \/ Timeout \/ Cancelled \/ SkipEcho \/ HandleFrame
  \/ HandleGarbled \/ AwaitMore
=============================================================================
