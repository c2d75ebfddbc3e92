------------------------------- MODULE KLine -------------------------------
(***************************************************************************)
(* What the sessions with framed protocols (MEMS 2J, MEMS 3, RC5) and the  *)
(* fake ECU have around them: the fields of ecu.State they share with the  *)
(* web handlers, the half-duplex K-line, and the ECU at its other end.     *)
(*                                                                         *)
(* A frame is a record, and travels as two cells, its head and its tail:   *)
(* enough for a read to end inside a frame and for the wire to damage one. *)
(* A reply has the name of the request it answers.  Sleeps are left out:   *)
(* idle counts the reads that returned nothing, so a late answer and a     *)
(* timeout race freely.                                                    *)
(***************************************************************************)
EXTENDS KeyRounds, Sequences, Functions

CONSTANTS
  Commands,       \* the user commands some handler's table holds
  Poll,           \* the requests polled, in order, the fault list first
  Seeds,          \* the seeds the ECU may challenge with
  Echo,           \* TRUE iff the adapter echoes what is transmitted
  ReadLoopsLimit, \* empty reads before a loop gives up
  InitLoopsLimit, \* reads before the RC5's wake-up gives up
  MaxPosts,       \* bound: commands posted
  MaxFaults,      \* bound: cells the wire loses and sessions the ECU drops
  MaxBacklog      \* bound: unprocessed cells on top of which the ECU answers

NoCommand == ""            \* UserCommand == ""
UnknownCommand == "bogus"  \* a name in no handler's table
Posts == Commands \cup {UnknownCommand}

\* What is sent besides user commands, and "none" for nothing.
Steps == {"none", "init", "diag", "seed", "key", "ping"} \cup {Poll[i] : i \in DOMAIN Poll}

ASSUME KLineAssumption ==
  /\ {"clearfaults", "learnimmo"} \subseteq Commands
  /\ Posts \cap (Steps \cup {NoCommand}) = {} /\ UnknownCommand \notin Commands
  /\ Poll \in Seq(STRING \ {"none", "init", "diag", "seed", "key", "ping"})
  /\ Len(Poll) > 1 /\ Poll[1] = "faults"
  /\ \A i, j \in DOMAIN Poll : Poll[i] = Poll[j] => i = j
  /\ Seeds \subseteq Word \ {0}
  /\ Echo \in BOOLEAN
  /\ {ReadLoopsLimit, InitLoopsLimit} \subseteq Nat \ {0}
  /\ {MaxPosts, MaxFaults, MaxBacklog} \subseteq Nat

VARIABLES
  handler,      \* the ECU type the session was made for
  pc,           \* where its loop is, or how the session ended
  buffer,       \* cells received and not yet processed
  idle,         \* consecutive reads that returned nothing
  lastSent,     \* 2J: the last framed request sent
  key,          \* 2J and 3: the key derived from the last seed
  chosen,       \* rc5: the request about to be sent
  userCommand,  \* ecu.State.UserCommand
  connected,    \* ecu.State.Connected
  alert,        \* the command the last alert says is done
  ctxDone,      \* the agent is shutting down
  line,         \* cells on the wire towards the agent
  inbox,        \* the request the ECU has received and not answered, if any
  ecuOn,        \* FALSE once the ignition is off
  access,       \* how far the ECU has let the agent in
  seed,         \* the seed the ECU last challenged with
  posted,       \* posted[c]: times the user asked for command c
  executed,     \* executed[c]: times command c was carried out
  lost, drops   \* cells lost, sessions dropped

session == <<pc, buffer, idle, lastSent, key, chosen>>
shared == <<userCommand, connected, alert>>
ecu == <<inbox, ecuOn, access, seed, executed, drops>>
surroundings == <<handler, ctxDone, ecuOn, access, seed, executed, drops, posted, lost>>
vars == <<handler, session, shared, ctxDone, line, ecu, posted, lost>>

Over == {"timeout", "cancelled", "ioerror", "failed"}

(***************************************************************************)
(* Frames                                                                  *)
(***************************************************************************)

Request(name, arg) == [kind |-> "echo", name |-> name, arg |-> arg]
Reply(name, arg) == [kind |-> "reply", name |-> name, arg |-> arg]
Refusal(name) == [kind |-> "refusal", name |-> name, arg |-> 0]
NoFrame == Request("none", 0)

Cells(frame) == <<<<frame, "head">>, <<frame, "tail">>>>
Zero == <<NoFrame, "zero">>  \* a 0x00 byte, which a break pulse reads back as

Frame(cells) == Head(cells)[1]
Whole(cells) == Len(cells) > 1 /\ SubSeq(cells, 1, 2) = Cells(Frame(cells))
Incomplete(cells) == Len(cells) = 1 /\ Head(cells)[2] = "head"
Garbled(cells) == cells # <<>> /\ ~Whole(cells) /\ ~Incomplete(cells)

(***************************************************************************)
(* What the loops share                                                    *)
(***************************************************************************)

Running == pc = "read" /\ idle < ReadLoopsLimit /\ ~ctxDone

\* Does not count the empty reads.
ArriveUncounted(n) ==
  /\ line' = SubSeq(line, n + 1, Len(line))
  /\ idle' = IF n > 0 THEN 0 ELSE idle

\* n more cells have arrived by the time of the read, possibly none.
Arrive(n) ==
  /\ line' = SubSeq(line, n + 1, Len(line))
  /\ idle' = IF n > 0 THEN 0 ELSE idle + 1

Received(n) == buffer \o SubSeq(line, 1, n)

\* The zeros a break pulse leaves at the front are cut off.
WithoutZeros(cells) ==
  IF cells # <<>> /\ Head(cells) = Zero THEN Tail(cells) ELSE cells

\* A transmission is electrically echoed at once; a write error is only logged.
\* An ECU that has a request to answer misses another.
Transmit(name, arg) ==
  /\ line' = IF Echo THEN line \o Cells(Request(name, arg)) ELSE line
  /\ inbox' = IF ecuOn /\ inbox = <<>> THEN <<[name |-> name, arg |-> arg]>> ELSE inbox

\* The session ends: the port is closed, and what the session held is gone.
End(how) ==
  /\ pc' = how
  /\ buffer' = <<>> /\ idle' = 0 /\ lastSent' = NoFrame /\ key' = 0
  /\ chosen' = "none" /\ line' = <<>> /\ inbox' = <<>>
  /\ UNCHANGED <<shared, surroundings>>

Timeout == pc = "read" /\ idle >= ReadLoopsLimit /\ End("timeout")
Cancelled == pc = "read" /\ idle < ReadLoopsLimit /\ ctxDone /\ End("cancelled")

\* Nothing is dropped, the loop waits for more.
AwaitMore ==
  /\ pc = "handle" /\ ~Whole(buffer)
  /\ pc' = "read"
  /\ UNCHANGED <<buffer, idle, lastSent, key, chosen, shared, line, inbox, surroundings>>

\* The first n cells of the buffer are dropped.
Discard(n) ==
  /\ buffer' = SubSeq(buffer, n + 1, Len(buffer))
  /\ pc' = "read"
  /\ UNCHANGED <<idle, lastSent, key, chosen, shared, line, inbox, surroundings>>

(***************************************************************************)
(* The web handlers and the process                                        *)
(***************************************************************************)

\* POST /command/:name overwrites whatever is pending, known or not.
SetUserCommand(c) ==
  /\ FoldFunction(+, 0, posted) < MaxPosts
  /\ userCommand' = c
  /\ posted' = [posted EXCEPT ![c] = @ + 1]
  /\ UNCHANGED <<handler, session, connected, alert, ctxDone, line, ecu, lost>>

Shutdown ==
  /\ ~ctxDone /\ ctxDone' = TRUE
  /\ UNCHANGED <<handler, session, shared, line, ecu, posted, lost>>

(***************************************************************************)
(* The ECU and the wire                                                    *)
(***************************************************************************)

\* The ECU answers a request with a frame and moves to an access level.  An RC5
\* wants no security access; a wrong ECU answers its wake pattern with something
\* else.
Answer(frame, level) ==
  /\ line' = line \o Cells(frame)
  /\ access' = level

Accept(name, level) == Answer(Reply(name, 0), level)

EcuAnswers ==
  /\ ecuOn /\ inbox # <<>> /\ Len(buffer) + Len(line) <= MaxBacklog
  /\ access = "asleep" => Head(inbox).name = "init"
  /\ inbox' = <<>>
  /\ LET name == Head(inbox).name
         granted == access = "granted"
     IN
     \/ /\ name = "init"
        /\ Accept(name, IF handler = "rc5" \/ granted THEN "granted" ELSE "awake")
        /\ UNCHANGED <<seed, executed>>
     \/ /\ name = "init" /\ handler = "rc5"
        /\ Answer(Refusal(name), access)
        /\ UNCHANGED <<seed, executed>>
     \/ /\ name = "diag"
        /\ Accept(name, IF granted THEN access ELSE "diag")
        /\ UNCHANGED <<seed, executed>>
     \/ /\ name = "seed"
        /\ seed' \in IF granted THEN {0} ELSE Seeds
        /\ Answer(Reply(name, seed'), access)
        /\ UNCHANGED executed
     \/ /\ name = "key"
        /\ \/ (granted \/ Head(inbox).arg = EcuKey(seed)) /\ Accept(name, "granted")
           \/ (granted \/ Head(inbox).arg # EcuKey(seed)) /\ Answer(Refusal(name), access)
        /\ UNCHANGED <<seed, executed>>
     \/ /\ name \in {"ping"} \cup {Poll[i] : i \in DOMAIN Poll}
        /\ IF granted THEN Accept(name, access) ELSE Answer(Refusal(name), access)
        /\ UNCHANGED <<seed, executed>>
     \/ /\ name \in Commands
        /\ \/ Accept(name, access) /\ executed' = [executed EXCEPT ![name] = @ + 1]
           \/ Answer(Refusal(name), access) /\ UNCHANGED executed
        /\ UNCHANGED seed
  /\ UNCHANGED <<handler, session, shared, ctxDone, ecuOn, drops, posted, lost>>

\* The ECU closes the diagnostic session on its side.
EcuDrops ==
  /\ handler \in {"2J", "3"} /\ access = "granted" /\ lost + drops < MaxFaults
  /\ access' = "awake" /\ drops' = drops + 1
  /\ UNCHANGED <<handler, session, shared, ctxDone, line, inbox, ecuOn, seed,
                 executed, posted, lost>>

IgnitionOff ==
  /\ handler # "fake" /\ ecuOn
  /\ ecuOn' = FALSE /\ access' = "asleep" /\ inbox' = <<>>
  /\ UNCHANGED <<handler, session, shared, ctxDone, line, seed, executed, drops,
                 posted, lost>>

LoseCell ==
  /\ lost + drops < MaxFaults /\ lost' = lost + 1
  /\ \/ /\ \E i \in 1 .. Len(line) :
              line' = SubSeq(line, 1, i - 1) \o SubSeq(line, i + 1, Len(line))
        /\ UNCHANGED inbox
     \/ /\ inbox # <<>> /\ inbox' = <<>>
        /\ UNCHANGED line
  /\ UNCHANGED <<handler, session, shared, ctxDone, ecuOn, access, seed,
                 executed, drops, posted>>

\* What goes on around a session while it runs.
Environment ==
  /\ pc \notin Over
  /\ \/ \E c \in Posts : SetUserCommand(c)
     \/ Shutdown \/ EcuAnswers \/ EcuDrops \/ IgnitionOff \/ LoseCell

\* The slot may still hold a command posted before this session, and the ECU
\* may still be unlocked from the session before it.
Init(type) ==
  /\ handler = type
  /\ pc = "init" /\ buffer = <<>> /\ idle = 0
  /\ lastSent = NoFrame /\ key = 0 /\ chosen = "none"
  /\ userCommand \in Posts \cup {NoCommand}
  /\ connected = FALSE /\ alert = NoCommand /\ ctxDone = FALSE
  /\ line = <<>> /\ inbox = <<>> /\ ecuOn = TRUE /\ seed = 0
  /\ access \in IF type \in {"2J", "3"} THEN {"asleep", "granted"} ELSE {"asleep"}
  /\ posted = [c \in Posts |-> IF c = userCommand THEN 1 ELSE 0]
  /\ executed = [c \in Posts |-> 0]
  /\ lost = 0 /\ drops = 0
=============================================================================
