-------------------------------- MODULE RC5 --------------------------------
(***************************************************************************)
(* An RC5 airbag session (internal/ecu/rc5): the wake-up of Connect, which *)
(* waits for the ECU's answer, and the poll that alternates ping and fault *)
(* list.  sendNextCommand reads the user command under the lock and clears *)
(* it under the lock again, the two apart.                                 *)
(***************************************************************************)
EXTENDS KLine

UserCommands == Commands \cap {"clearfaults"}

(***************************************************************************)
(* Connect                                                                 *)
(***************************************************************************)

\* The wake pattern is three breaks, any of which the adapter may fail.
WakePattern ==
  /\ pc = "init" /\ pc' = "waking"
  /\ line' \in {<<>>, <<Zero>>}
  /\ inbox' = IF ecuOn THEN <<[name |-> "init", arg |-> 0]>> ELSE <<>>
  /\ UNCHANGED <<buffer, idle, lastSent, key, chosen, shared, surroundings>>

WakePatternFails == pc = "init" /\ End("failed")

\* Every pass counts here, whether it read something or not.
ReadWaking ==
  /\ pc = "waking" /\ idle < InitLoopsLimit
  /\ \E n \in 0 .. Len(line) :
       /\ line' = SubSeq(line, n + 1, Len(line))
       /\ buffer' = WithoutZeros(Received(n))
  /\ idle' = idle + 1
  /\ pc' = IF Len(buffer') < 2 THEN "waking" ELSE "checking"
  /\ UNCHANGED <<lastSent, key, chosen, shared, inbox, surroundings>>

WakeTimeout == pc = "waking" /\ idle >= InitLoopsLimit /\ End("failed")

WakeReadFails == pc = "waking" /\ idle < InitLoopsLimit /\ End("failed")

IsWokeReply == Whole(buffer) /\ Frame(buffer) = Reply("init", 0)

\* The wrong ECU or the wrong baud rate.
WrongReply == pc = "checking" /\ ~IsWokeReply /\ End("failed")

\* What came after the answer is forgotten.  ReadData's first request is
\* chosen once it has slept.
Woke ==
  /\ pc = "checking" /\ IsWokeReply
  /\ connected' = TRUE
  /\ buffer' = <<>> /\ idle' = 0
  /\ pc' = "choosing" /\ chosen' = "ping"
  /\ UNCHANGED <<lastSent, key, userCommand, alert, line, inbox, surroundings>>

(***************************************************************************)
(* ReadData                                                                *)
(***************************************************************************)

\* sendNextCommand: a command its table knows pre-empts what was due...
ChooseCommand ==
  /\ pc = "choosing" /\ pc' = "sending"
  /\ chosen' = IF userCommand \in UserCommands THEN userCommand ELSE chosen
  /\ UNCHANGED <<buffer, idle, lastSent, key, shared, line, inbox, surroundings>>

\* ... and the slot is emptied of whatever it holds by then.
SendNextCommand ==
  /\ pc = "sending" /\ pc' = "read"
  /\ userCommand' = NoCommand
  /\ Transmit(chosen, 0) /\ chosen' = "none"
  /\ UNCHANGED <<buffer, idle, lastSent, key, connected, alert, surroundings>>

Read ==
  /\ Running
  /\ \E n \in 0 .. Len(line) : Arrive(n) /\ buffer' = Received(n)
  /\ pc' = IF buffer' = <<>> THEN "read" ELSE "handle"
  /\ UNCHANGED <<lastSent, key, chosen, shared, inbox, surroundings>>

ReadFails == Running /\ End("ioerror")

SkipEcho ==
  /\ pc = "handle" /\ Whole(buffer) /\ Frame(buffer).kind = "echo"
  /\ Discard(2)

\* A pong and a cleared list lead to the fault list, a fault list to ping.
HandleReply ==
  LET reply == Frame(buffer) IN
  /\ pc = "handle" /\ Whole(buffer) /\ reply.kind = "reply" /\ reply.name # "init"
  /\ alert' = IF reply.name = "clearfaults" THEN reply.name ELSE alert
  /\ buffer' = SubSeq(buffer, 3, Len(buffer))
  /\ pc' = "choosing"
  /\ chosen' = IF reply.name = "faults" THEN "ping" ELSE "faults"
  /\ UNCHANGED <<idle, lastSent, key, userCommand, connected, line, inbox, surroundings>>

\* Frames the loop does not know stay at the front of the buffer, as damaged
\* ones do.
AwaitForEver ==
  /\ pc = "handle" /\ Whole(buffer)
  /\ Frame(buffer).kind = "refusal" \/ IsWokeReply
  /\ pc' = "read"
  /\ UNCHANGED <<buffer, idle, lastSent, key, chosen, shared, line, inbox, surroundings>>

Loop ==
  \/ WakePattern \/ ReadWaking \/ WakeTimeout \/ WrongReply \/ Woke
  \/ ChooseCommand \/ SendNextCommand
  \/ Read \/ Timeout \/ Cancelled \/ SkipEcho \/ HandleReply
  \/ AwaitForEver \/ AwaitMore
=============================================================================
