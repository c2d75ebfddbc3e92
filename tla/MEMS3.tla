------------------------------- MODULE MEMS3 -------------------------------
(***************************************************************************)
(* A MEMS 3 session (internal/ecu/mems3): ReadData's request/response      *)
(* loop, the security access it goes through, and the user command that    *)
(* pre-empts its walk.  The ECU's replies do not carry the agent's address *)
(* header; a frame that does is the echo of a request.                     *)
(***************************************************************************)
EXTENDS KLine

UserCommands == Commands \cap {"clearfaults"}

(***************************************************************************)
(* What the agent sends                                                    *)
(***************************************************************************)

\* A table that goes from the diagnostic mode straight to polling.
NextWithoutSecurityAccess(name) ==
  CASE name = "init" -> "diag"
    [] name = "diag" -> "faults"
    [] name \in {"ping", "clearfaults"} -> "faults"
    [] \E i \in 1 .. Len(Poll) - 1 : Poll[i] = name ->
         Poll[(CHOOSE i \in DOMAIN Poll : Poll[i] = name) + 1]
    [] OTHER -> "ping"

\* nextAfterResponse, with the ping of a reply it does not hold.
NextAfterResponse(name) ==
  CASE name = "init" -> "diag"
    [] name = "diag" -> "seed"
    [] name \in {"ping", "clearfaults"} -> "faults"
    [] \E i \in 1 .. Len(Poll) - 1 : Poll[i] = name ->
         Poll[(CHOOSE i \in DOMAIN Poll : Poll[i] = name) + 1]
    [] OTHER -> "ping"

\* Leaves an accepted command in the slot.
TakeLeavingCommand ==
  userCommand' = IF userCommand \in UserCommands THEN userCommand ELSE NoCommand

\* takeUserCommand empties the slot whatever it holds.
TakeUserCommand == userCommand' = NoCommand

\* A seed of 0 means the ECU is unlocked already: no key is sent.
SendNextCommand(reply) ==
  /\ TakeUserCommand
  /\ CASE userCommand \in UserCommands -> Transmit(userCommand, 0)
       [] userCommand \notin UserCommands /\ reply.name = "seed" /\ reply.arg # 0 ->
            Transmit("key", key')
       [] OTHER -> Transmit(NextAfterResponse(reply.name), 0)

(***************************************************************************)
(* The loop                                                                *)
(***************************************************************************)

Start ==
  /\ pc = "init" /\ pc' = "read"
  /\ Transmit("init", 0)
  /\ UNCHANGED <<buffer, idle, lastSent, key, chosen, shared, surroundings>>

Read ==
  /\ Running
  /\ \E n \in 0 .. Len(line) : Arrive(n) /\ buffer' = Received(n)
  /\ pc' = IF buffer' = <<>> THEN "read" ELSE "handle"
  /\ UNCHANGED <<lastSent, key, chosen, shared, inbox, surroundings>>

\* A read error that is not a timeout: the adapter was unplugged.
ReadFails == Running /\ End("ioerror")

SkipEcho ==
  /\ pc = "handle" /\ Whole(buffer) /\ Frame(buffer).kind = "echo"
  /\ Discard(2)

\* handleFrame, the rest of the buffer forgotten, and the next request.
HandleReply ==
  LET reply == Frame(buffer) IN
  /\ pc = "handle" /\ Whole(buffer) /\ reply.kind = "reply"
  /\ connected' = (connected \/ reply.name = "init")
  /\ alert' = IF reply.name = "clearfaults" THEN reply.name ELSE alert
  /\ key' = CASE reply.name = "seed" /\ reply.arg # 0 -> GenerateKey(reply.arg)
              [] reply.name = "seed" /\ reply.arg = 0 -> 0
              [] OTHER -> key
  /\ buffer' = <<>> /\ pc' = "read"
  /\ SendNextCommand(reply)
  /\ UNCHANGED <<idle, lastSent, chosen, surroundings>>

\* No refusal is known: it is burned, and nothing is sent in answer.
BurnRefusal ==
  /\ pc = "handle" /\ Whole(buffer) /\ Frame(buffer).kind = "refusal"
  /\ Discard(2)

\* A damaged frame's length is whatever byte stands in its place: more is
\* waited for, or some of the buffer is burned.  Nothing is sent, so that no
\* reply comes that could complete a damaged one.
BurnGarbled ==
  /\ pc = "handle" /\ Garbled(buffer)
  /\ \E n \in 1 .. Len(buffer) : Discard(n)

Loop ==
  \/ Start \/ Read \/ Timeout \/ Cancelled \/ SkipEcho \/ HandleReply
  \/ BurnRefusal \/ BurnGarbled \/ AwaitMore
=============================================================================
