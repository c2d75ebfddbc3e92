--------------------------- MODULE MEMS19_proofs ---------------------------
(***************************************************************************)
(* Four arguments about a MEMS 1.x or 1.9 session, for any commands, data  *)
(* frames, keywords and junk, in the second and the third any junk that    *)
(* holds no sync byte.                                                     *)
(*                                                                         *)
(* Commands: no interleaving of POST /command with the session carries out *)
(* a command more often than the user asked for it, whatever the wire      *)
(* loses (CommandInv).                                                     *)
(*                                                                         *)
(* The handshake: as long as nothing was lost, what the ECU has said and   *)
(* the session has not looked at ends in the keywords, and holds no other  *)
(* sync byte (HandshakeInv).  So the challenge is right.                   *)
(*                                                                         *)
(* Turns: as long as nothing was lost, one of the loop's request, its      *)
(* echo and the ECU's reply is under way, and what has arrived tells       *)
(* which (LinkInv).  So the loop never talks over the ECU, and what it     *)
(* tells the dashboard is so, whatever bytes the replies hold.             *)
(*                                                                         *)
(* Losses: whatever was lost, of the bytes that are requests the wire      *)
(* holds at most an echo and a reply's first byte, and no more than one of *)
(* them before the ECU has answered (LossyInv).  So what the dashboard is  *)
(* told is so, unless a reply's data hold the byte of a request.           *)
(***************************************************************************)
EXTENDS MEMS19, FiniteSetTheorems, SequenceTheorems, TLAPS

\* The places where command c waits for the ECU.
Waiting(c) == {i \in 1 .. Len(ecuInbox) : ecuInbox[i] = c}

Pending(c) == IF userCommand = c THEN 1 ELSE 0

CommandTypes ==
  /\ userCommand \in Slots
  /\ ecuInbox \in Seq(Byte)
  /\ posted \in [UserCommands \cup {UnknownCommand} -> Nat]
  /\ executed \in [UserCommands -> Nat]

\* What was posted is pending, on its way, carried out, or lost.
CommandsAccounted ==
  \A c \in UserCommands :
    executed[c] + Cardinality(Waiting(c)) + Pending(c) <= posted[c]

CommandInv == CommandTypes /\ CommandsAccounted

commandVars == <<userCommand, ecuInbox, posted, executed>>

(***************************************************************************)
(* Counting in a sequence                                                  *)
(***************************************************************************)

Places(s, c) == {i \in 1 .. Len(s) : s[i] = c}

\* A sequence has finitely many places.
LEMMA PlacesFinite ==
  ASSUME NEW s \in Seq(Byte), NEW c
  PROVE  IsFiniteSet(Places(s, c)) /\ Cardinality(Places(s, c)) \in Nat
<1>1. IsFiniteSet(1 .. Len(s))
  BY FS_Interval, Len(s) \in Int
<1>2. Places(s, c) \in SUBSET (1 .. Len(s))
  BY DEF Places
<1>3. IsFiniteSet(Places(s, c))
  BY <1>1, <1>2, FS_Subset
<1> QED
  BY <1>3, FS_CardinalityType

\* A transmission adds one place, of the byte sent.
LEMMA PlacesAppend ==
  ASSUME NEW s \in Seq(Byte), NEW d \in Byte, NEW c
  PROVE  Cardinality(Places(Append(s, d), c))
           = Cardinality(Places(s, c)) + IF d = c THEN 1 ELSE 0
<1> DEFINE n == Len(s) + 1
<1>1. n \notin Places(s, c)
  BY DEF Places
<1>2. CASE d = c
  <2>1. Places(Append(s, d), c) = Places(s, c) \cup {n}
    BY <1>2 DEF Places
  <2> QED
    BY <2>1, <1>1, <1>2, PlacesFinite, FS_AddElement
<1>3. CASE d # c
  <2>1. Places(Append(s, d), c) = Places(s, c)
    BY <1>3 DEF Places
  <2>2. Cardinality(Places(s, c)) \in Nat
    BY PlacesFinite
  <2> QED
    BY <2>1, <2>2, <1>3
<1> QED
  BY <1>2, <1>3

\* Taking the first byte takes its place away.
LEMMA PlacesTail ==
  ASSUME NEW s \in Seq(Byte), s # <<>>, NEW c
  PROVE  Cardinality(Places(Tail(s), c)) + (IF Head(s) = c THEN 1 ELSE 0)
           <= Cardinality(Places(s, c))
<1> DEFINE T == Places(Tail(s), c)
           R == Places(s, c) \ {1}
           f == [i \in T |-> i + 1]
<1>1. Len(s) \in Nat /\ Len(s) > 0 /\ Tail(s) \in Seq(Byte) /\ Len(Tail(s)) = Len(s) - 1
  OBVIOUS
<1>2. ASSUME NEW i \in T PROVE i + 1 \in R
  BY <1>1 DEF Places
<1>3. f \in Injection(T, R)
  <2>1. f \in [T -> R]
    BY <1>2
  <2>2. \A a, b \in T : f[a] = f[b] => a = b
    BY DEF Places
  <2> QED
    BY <2>1, <2>2 DEF Injection, IsInjective
<1>4. IsFiniteSet(R) /\ Cardinality(R) = IF 1 \in Places(s, c)
                                           THEN Cardinality(Places(s, c)) - 1
                                           ELSE Cardinality(Places(s, c))
  BY PlacesFinite, FS_RemoveElement
<1>5. Cardinality(T) <= Cardinality(R)
  BY <1>3, <1>4, FS_Injection
<1>6. 1 \in Places(s, c) <=> Head(s) = c
  BY <1>1 DEF Places
<1>7. Cardinality(T) \in Nat /\ Cardinality(Places(s, c)) \in Nat
  BY <1>1, PlacesFinite
<1> HIDE DEF R
<1> QED
  BY <1>4, <1>5, <1>6, <1>7

(***************************************************************************)
(* The invariant                                                           *)
(***************************************************************************)

\* At most one command is posted before the session.
LEMMA CommandInit == Init19 => CommandInv
<1> SUFFICES ASSUME Init19 PROVE CommandInv
  OBVIOUS
<1>1. /\ userCommand \in Slots /\ ecuInbox = <<>>
      /\ posted = [c \in UserCommands \cup {UnknownCommand} |->
                     IF c = userCommand THEN 1 ELSE 0]
      /\ executed = [c \in UserCommands |-> 0]
  BY DEF Init19, InitAt
<1>2. CommandTypes
  BY <1>1 DEF CommandTypes
<1>3. ASSUME NEW c \in UserCommands
      PROVE  executed[c] + Cardinality(Waiting(c)) + Pending(c) <= posted[c]
  <2>1. Waiting(c) = {}
    BY <1>1 DEF Waiting
  <2>2. Cardinality(Waiting(c)) = 0
    BY <2>1, FS_EmptySet
  <2> QED
    BY <1>1, <2>2 DEF Pending
<1> QED
  BY <1>2, <1>3 DEF CommandInv, CommandsAccounted

\* The walk is never a user command.
LEMMA WalkIsProtocol ==
  ASSUME NEW previous PROVE NextInWalk(previous) \in Protocol
BY DEF NextInWalk, Protocol, CA, S75, F4, D0, D80, D7D

\* An answer moves the pending command on, or sends a byte of the walk.
LEMMA AnswerKeepsCommands ==
  ASSUME CommandInv, NEW previous, Answer(previous), UNCHANGED <<posted, executed>>
  PROVE  CommandInv'
<1> DEFINE data == NextCommand(previous)
<1>1. Protocol \subseteq Byte /\ UserCommands \cap Protocol = {} /\ UserCommands \subseteq Byte
  BY ParametersAssumption DEF Protocol, Byte, CA, S75, F4, D0, D80, D7D
<1>2. data \in Byte
  BY <1>1, WalkIsProtocol DEF NextCommand
<1>3. data \in UserCommands => data = userCommand
  BY <1>1, WalkIsProtocol DEF NextCommand
<1>4. /\ ecuInbox' = IF ecuOn THEN Append(ecuInbox, data) ELSE ecuInbox
      /\ userCommand' = NoCommand
  BY DEF Answer, Send
<1> HIDE DEF data
<1>5. CommandTypes'
  <2>1. ecuInbox' \in Seq(Byte)
    BY <1>2, <1>4 DEF CommandInv, CommandTypes
  <2> QED
    BY <1>4, <2>1 DEF CommandInv, CommandTypes, Slots
<1>6. ASSUME NEW c \in UserCommands
      PROVE  executed'[c] + Cardinality(Waiting(c))' + Pending(c)' <= posted'[c]
  <2>1. c # NoCommand
    BY <1>1 DEF Byte, NoCommand
  <2>2. Waiting(c) = Places(ecuInbox, c) /\ Waiting(c)' = Places(ecuInbox', c)
    BY DEF Waiting, Places
  <2>3. Cardinality(Waiting(c)) \in Nat
    BY <2>2, PlacesFinite DEF CommandInv, CommandTypes
  <2>4. Cardinality(Waiting(c))' = Cardinality(Waiting(c)) + (IF ecuOn /\ data = c THEN 1 ELSE 0)
    <3>1. CASE ecuOn
      BY <3>1, <1>2, <1>4, <2>2, PlacesAppend DEF CommandInv, CommandTypes
    <3>2. CASE ~ecuOn
      BY <3>2, <1>4, <2>2, <2>3
    <3> QED
      BY <3>1, <3>2
  <2>5. data = c => userCommand = c
    BY <1>3
  <2>6. executed[c] \in Nat /\ posted[c] \in Nat
    BY DEF CommandInv, CommandTypes
  <2>7. executed[c] + Cardinality(Waiting(c)) + Pending(c) <= posted[c]
    BY DEF CommandInv, CommandsAccounted
  <2>8. Pending(c)' = 0
    BY <1>4, <2>1 DEF Pending
  <2> QED
    BY <2>3, <2>4, <2>5, <2>6, <2>7, <2>8 DEF Pending
<1> QED
  BY <1>5, <1>6 DEF CommandInv, CommandsAccounted

\* Sending the first byte adds no user command.
LEMMA StartKeepsCommands ==
  ASSUME CommandInv, Start PROVE CommandInv'
<1>1. CA \in Byte /\ CA \notin UserCommands
  BY ParametersAssumption DEF Byte, CA, Protocol
<1>2. /\ ecuInbox' = IF ecuOn THEN Append(ecuInbox, CA) ELSE ecuInbox
      /\ UNCHANGED <<userCommand, posted, executed>>
  BY DEF Start, Send, state
<1>3. CommandTypes'
  BY <1>1, <1>2 DEF CommandInv, CommandTypes
<1>4. ASSUME NEW c \in UserCommands
      PROVE  executed'[c] + Cardinality(Waiting(c))' + Pending(c)' <= posted'[c]
  <2>1. Waiting(c) = Places(ecuInbox, c) /\ Waiting(c)' = Places(ecuInbox', c)
    BY DEF Waiting, Places
  <2>2. Cardinality(Waiting(c)) \in Nat
    BY <2>1, PlacesFinite DEF CommandInv, CommandTypes
  <2>3. Cardinality(Waiting(c))' = Cardinality(Waiting(c))
    <3>1. CASE ecuOn
      BY <3>1, <1>1, <1>2, <2>1, <2>2, PlacesAppend DEF CommandInv, CommandTypes
    <3>2. CASE ~ecuOn
      BY <3>2, <1>2, <2>1
    <3> QED
      BY <3>1, <3>2
  <2> QED
    BY <1>2, <2>3 DEF CommandInv, CommandsAccounted, Pending
<1> QED
  BY <1>3, <1>4 DEF CommandInv, CommandsAccounted

\* A posted command replaces the pending one.
LEMMA PostKeepsCommands ==
  ASSUME CommandInv, NEW d \in UserCommands \cup {UnknownCommand}, SetUserCommand(d)
  PROVE  CommandInv'
<1>1. /\ userCommand' = d
      /\ posted' = [posted EXCEPT ![d] = @ + 1]
      /\ UNCHANGED <<ecuInbox, executed>>
  BY DEF SetUserCommand, ecu
<1>2. CommandTypes'
  BY <1>1 DEF CommandInv, CommandTypes, Slots
<1>3. ASSUME NEW c \in UserCommands
      PROVE  executed'[c] + Cardinality(Waiting(c))' + Pending(c)' <= posted'[c]
  <2>1. Waiting(c)' = Waiting(c)
    BY <1>1 DEF Waiting
  <2>2. Cardinality(Waiting(c)) \in Nat
    BY PlacesFinite DEF CommandInv, CommandTypes, Waiting, Places
  <2>3. executed[c] \in Nat /\ posted[c] \in Nat
    BY DEF CommandInv, CommandTypes
  <2>4. executed[c] + Cardinality(Waiting(c)) + Pending(c) <= posted[c]
    BY DEF CommandInv, CommandsAccounted
  <2>5. posted'[c] = IF c = d THEN posted[c] + 1 ELSE posted[c]
    BY <1>1 DEF CommandInv, CommandTypes
  <2> QED
    BY <1>1, <2>1, <2>2, <2>3, <2>4, <2>5 DEF Pending
<1> QED
  BY <1>2, <1>3 DEF CommandInv, CommandsAccounted

\* What the ECU takes off its inbox it carries out at most once; what the wire
\* loses it does not.
LEMMA InboxKeepsCommands ==
  ASSUME CommandInv, EcuAnswers \/ IgnitionOff \/ LoseByte
  PROVE  CommandInv'
<1>1. /\ UNCHANGED <<userCommand, posted>>
      /\ \/ /\ ecuInbox # <<>> /\ ecuInbox' = Tail(ecuInbox)
            /\ executed' = IF Head(ecuInbox) \in UserCommands
                           THEN [executed EXCEPT ![Head(ecuInbox)] = @ + 1] ELSE executed
         \/ ecuInbox # <<>> /\ ecuInbox' = Tail(ecuInbox) /\ UNCHANGED executed
         \/ ecuInbox' = <<>> /\ UNCHANGED executed
         \/ (UNCHANGED ecuInbox /\ UNCHANGED executed)
  BY DEF EcuAnswers, IgnitionOff, LoseByte, state
<1>2. CommandTypes'
  <2>1. ecuInbox' \in Seq(Byte)
    <3>1. ecuInbox \in Seq(Byte) /\ <<>> \in Seq(Byte)
      BY DEF CommandInv, CommandTypes
    <3>2. ecuInbox # <<>> => Tail(ecuInbox) \in Seq(Byte)
      BY <3>1
    <3>3. ecuInbox' \in {<<>>, ecuInbox} \/ (ecuInbox # <<>> /\ ecuInbox' = Tail(ecuInbox))
      BY <1>1
    <3> QED
      BY <3>1, <3>2, <3>3
  <2>2. executed' \in [UserCommands -> Nat]
    BY <1>1 DEF CommandInv, CommandTypes
  <2> QED
    BY <1>1, <2>1, <2>2 DEF CommandInv, CommandTypes
<1>3. ASSUME NEW c \in UserCommands
      PROVE  executed'[c] + Cardinality(Waiting(c))' + Pending(c)' <= posted'[c]
  <2>1. Waiting(c) = Places(ecuInbox, c) /\ Waiting(c)' = Places(ecuInbox', c)
    BY DEF Waiting, Places
  <2>2. Cardinality(Waiting(c)) \in Nat /\ Cardinality(Waiting(c))' \in Nat
    BY <1>2, <2>1, PlacesFinite DEF CommandInv, CommandTypes
  <2>3. executed[c] \in Nat /\ posted[c] \in Nat
    BY DEF CommandInv, CommandTypes
  <2>4. executed[c] + Cardinality(Waiting(c)) + Pending(c) <= posted[c]
    BY DEF CommandInv, CommandsAccounted
  <2>5. Pending(c)' = Pending(c) /\ posted' = posted /\ Pending(c) \in Nat
    BY <1>1 DEF Pending
  <2>6. executed'[c] + Cardinality(Waiting(c))' <= executed[c] + Cardinality(Waiting(c))
    <3>1. ASSUME ecuInbox # <<>>, ecuInbox' = Tail(ecuInbox)
          PROVE  Cardinality(Waiting(c))' + (IF Head(ecuInbox) = c THEN 1 ELSE 0)
                   <= Cardinality(Waiting(c))
      BY <2>1, <3>1, PlacesTail DEF CommandInv, CommandTypes
    <3>2. CASE /\ ecuInbox # <<>> /\ ecuInbox' = Tail(ecuInbox)
               /\ executed' = IF Head(ecuInbox) \in UserCommands
                              THEN [executed EXCEPT ![Head(ecuInbox)] = @ + 1] ELSE executed
      <4>1. executed'[c] = executed[c] + (IF Head(ecuInbox) = c THEN 1 ELSE 0)
        BY <3>2 DEF CommandInv, CommandTypes
      <4> QED
        BY <4>1, <3>1, <3>2, <2>2, <2>3
    <3>3. CASE ecuInbox # <<>> /\ ecuInbox' = Tail(ecuInbox) /\ UNCHANGED executed
      BY <3>1, <3>3, <2>2, <2>3
    <3>4. CASE ecuInbox' = <<>> /\ UNCHANGED executed
      <4>1. Waiting(c)' = {}
        BY <3>4 DEF Waiting
      <4>2. Cardinality(Waiting(c))' = 0
        BY <4>1, FS_EmptySet
      <4> QED
        BY <4>2, <3>4, <2>2, <2>3
    <3>5. CASE UNCHANGED ecuInbox /\ UNCHANGED executed
      BY <3>5, <2>1, <2>2, <2>3
    <3> QED
      BY <1>1, <3>2, <3>3, <3>4, <3>5
  <2>7. executed'[c] \in Nat
    BY <1>2 DEF CommandTypes
  <2> QED
    BY <2>2, <2>3, <2>4, <2>5, <2>6, <2>7
<1> QED
  BY <1>2, <1>3 DEF CommandInv, CommandsAccounted

\* Steps that touch no command.
LEMMA QuietKeepsCommands ==
  ASSUME CommandInv, UNCHANGED commandVars PROVE CommandInv'
BY DEF CommandInv, CommandTypes, CommandsAccounted, Waiting, Pending, commandVars

\* Every step of the session, of its users and of its surroundings.
LEMMA CommandStep == CommandInv /\ [Next19]_vars19 => CommandInv'
<1> SUFFICES ASSUME CommandInv, [Next19]_vars19 PROVE CommandInv'
  OBVIOUS
<1> USE DEF commandVars, state, ecu, wakeVars
<1>1. CASE Connect
  <2>1. UNCHANGED commandVars
    BY <1>1 DEF Connect, Open, SendAddress, ReadKeywords, KeywordsDeadline,
         SendChallenge, ReadAcknowledge, AcknowledgeDeadline, HandOver
  <2> QED
    BY <2>1, QuietKeepsCommands
<1>2. CASE ConnectFails \/ HandshakeFails \/ EcuSendsKeywords \/ EcuAcknowledges
  <2>1. UNCHANGED commandVars
    BY <1>2 DEF ConnectFails, HandshakeFails, EcuSendsKeywords, EcuAcknowledges
  <2> QED
    BY <2>1, QuietKeepsCommands
<1>3. CASE Loop
  <2>1. CASE Start
    BY <2>1, StartKeepsCommands
  <2>2. CASE CommandAccepted \/ HandshakeReply \/ Identified \/ DataFrame
    <3>1. PICK previous : Answer(previous) /\ UNCHANGED <<posted, executed>>
      BY <2>2 DEF CommandAccepted, HandshakeReply, Identified, DataFrame
    <3> QED
      BY <3>1, AnswerKeepsCommands
  <2>3. CASE Read \/ Timeout \/ Cancelled \/ ConsumeEcho \/ AwaitMore
    <3>1. UNCHANGED commandVars
      BY <2>3 DEF Read, Timeout, Cancelled, ConsumeEcho, AwaitMore
    <3> QED
      BY <3>1, QuietKeepsCommands
  <2> QED
    BY <1>3, <2>1, <2>2, <2>3 DEF Loop
<1>4. CASE Surroundings
  <2>1. CASE ReadFails \/ Shutdown
    <3>1. UNCHANGED commandVars
      BY <2>1 DEF ReadFails, Shutdown
    <3> QED
      BY <3>1, QuietKeepsCommands
  <2>2. CASE LoseByte
    BY <2>2, InboxKeepsCommands
  <2>3. CASE \E c \in UserCommands \cup {UnknownCommand} : SetUserCommand(c)
    BY <2>3, PostKeepsCommands
  <2> QED
    BY <1>4, <2>1, <2>2, <2>3 DEF Surroundings
<1>5. CASE OpenEcuAnswers \/ EcuGoesOff
  BY <1>5, InboxKeepsCommands DEF OpenEcuAnswers, EcuGoesOff
<1>6. CASE UNCHANGED vars19
  <2>1. UNCHANGED commandVars
    BY <1>6 DEF vars19, vars
  <2> QED
    BY <2>1, QuietKeepsCommands
<1> QED
  BY <1>1, <1>2, <1>3, <1>4, <1>5, <1>6 DEF Next19

\* An actuator test or a clear-faults runs at most as often as it was posted,
\* in every session of a MEMS 1.x or 1.9.
THEOREM CommandsNotRepeated == Spec19 => []NoCommandRepeated
<1>1. CommandInv => NoCommandRepeated
  <2> SUFFICES ASSUME CommandInv, NEW c \in UserCommands PROVE executed[c] <= posted[c]
    BY DEF NoCommandRepeated
  <2>1. Cardinality(Waiting(c)) \in Nat
    BY PlacesFinite DEF CommandInv, CommandTypes, Waiting, Places
  <2>2. executed[c] \in Nat /\ posted[c] \in Nat /\ Pending(c) \in Nat
    BY DEF CommandInv, CommandTypes, Pending
  <2>3. executed[c] + Cardinality(Waiting(c)) + Pending(c) <= posted[c]
    BY DEF CommandInv, CommandsAccounted
  <2> QED
    BY <2>1, <2>2, <2>3
<1> QED
  BY <1>1, CommandInit, CommandStep, PTL DEF Spec19

(***************************************************************************)
(* What is on its way to the agent                                         *)
(***************************************************************************)

\* The bytes received and those still on the line.
Wire == buffer \o line

\* Reading moves bytes from the line to the buffer, and takes none away.
LEMMA ReadingMoves ==
  ASSUME NEW s \in Seq(Byte), NEW t \in Seq(Byte), NEW n \in 0 .. Len(t)
  PROVE  /\ s \o SubSeq(t, 1, n) \in Seq(Byte)
         /\ SubSeq(t, n + 1, Len(t)) \in Seq(Byte)
         /\ Len(s \o SubSeq(t, 1, n)) = Len(s) + n
         /\ Len(SubSeq(t, n + 1, Len(t))) = Len(t) - n
         /\ (s \o SubSeq(t, 1, n)) \o SubSeq(t, n + 1, Len(t)) = s \o t
<1>1. Len(t) \in Nat /\ n \in Nat /\ \A i \in 1 .. Len(t) : t[i] \in Byte
  <2>1. Len(t) \in Nat
    BY LenProperties
  <2> QED
    BY <2>1, ElementOfSeq
<1>2. /\ SubSeq(t, 1, n) \in Seq(Byte) /\ Len(SubSeq(t, 1, n)) = n
      /\ \A i \in 1 .. n : SubSeq(t, 1, n)[i] = t[i]
  <2>1. \A i \in 1 .. n : t[i] \in Byte
    BY <1>1
  <2>2. /\ SubSeq(t, 1, n) \in Seq(Byte)
        /\ Len(SubSeq(t, 1, n)) = IF 1 <= n THEN n - 1 + 1 ELSE 0
        /\ \A i \in 1 .. n - 1 + 1 : SubSeq(t, 1, n)[i] = t[1 + i - 1]
    BY <2>1, SubSeqProperties
  <2> QED
    BY <2>2
<1>3. /\ SubSeq(t, n + 1, Len(t)) \in Seq(Byte) /\ Len(SubSeq(t, n + 1, Len(t))) = Len(t) - n
      /\ \A i \in 1 .. Len(t) - n : SubSeq(t, n + 1, Len(t))[i] = t[n + i]
  <2>1. \A i \in n + 1 .. Len(t) : t[i] \in Byte
    BY <1>1
  <2>2. /\ SubSeq(t, n + 1, Len(t)) \in Seq(Byte)
        /\ Len(SubSeq(t, n + 1, Len(t))) = IF n + 1 <= Len(t) THEN Len(t) - (n + 1) + 1 ELSE 0
        /\ \A i \in 1 .. Len(t) - (n + 1) + 1 : SubSeq(t, n + 1, Len(t))[i] = t[n + 1 + i - 1]
    BY <1>1, <2>1, SubSeqProperties
  <2> QED
    BY <1>1, <2>2
<1> DEFINE p == SubSeq(t, 1, n)
           r == SubSeq(t, n + 1, Len(t))
<1> HIDE DEF p, r
<1>4. p \in Seq(Byte) /\ Len(p) = n /\ \A i \in 1 .. n : p[i] = t[i]
  BY <1>2 DEF p
<1>5. r \in Seq(Byte) /\ Len(r) = Len(t) - n /\ \A i \in 1 .. Len(t) - n : r[i] = t[n + i]
  BY <1>3 DEF r
<1>6. p \o r = t
  <2>1. /\ p \o r \in Seq(Byte) /\ Len(p \o r) = Len(t)
        /\ \A i \in 1 .. Len(t) : (p \o r)[i] = IF i <= n THEN p[i] ELSE r[i - n]
    BY <1>1, <1>4, <1>5, ConcatProperties
  <2>2. ASSUME NEW i \in 1 .. Len(t) PROVE (p \o r)[i] = t[i]
    <3>1. CASE i <= n
      BY <3>1, <2>1, <1>4
    <3>2. CASE i > n
      <4>1. i - n \in 1 .. Len(t) - n /\ n + (i - n) = i
        BY <3>2, <1>1
      <4> QED
        BY <4>1, <3>2, <2>1, <1>5
    <3> QED
      <4>1. i \in Nat /\ n \in Nat
        BY <1>1
      <4>2. i <= n \/ i > n
        BY <4>1
      <4> QED
        BY <4>2, <3>1, <3>2
  <2> QED
    BY <2>1, <2>2, SeqEqual
<1>7. (s \o p) \o r = s \o t
  <2>1. (s \o p) \o r = s \o (p \o r)
    BY <1>4, <1>5, ConcatAssociative
  <2> QED
    BY <2>1, <1>6
<1>8. s \o p \in Seq(Byte) /\ Len(s \o p) = Len(s) + n
  BY <1>4, ConcatProperties
<1> QED
  BY <1>5, <1>7, <1>8 DEF p, r

\* What is stripped is leading zeros.
LEMMA StrippedIs ==
  ASSUME NEW s \in Seq(Byte)
  PROVE  \E c \in 0 .. Len(s) :
           /\ Stripped(s) = SubSeq(s, c + 1, Len(s))
           /\ \A j \in 1 .. c : s[j] = 0
<1> DEFINE zeros == {i \in 1 .. Len(s) : \A j \in 1 .. i : s[j] = 0}
           c == Cardinality(zeros)
<1>1. Len(s) \in Nat
  BY LenProperties
<1>2. IsFiniteSet(1 .. Len(s)) /\ Cardinality(1 .. Len(s)) = Len(s)
  BY <1>1, FS_Interval
<1>3. zeros \in SUBSET (1 .. Len(s))
  OBVIOUS
<1>4. IsFiniteSet(zeros) /\ c \in Nat /\ c <= Len(s)
  BY <1>2, <1>3, FS_Subset, FS_CardinalityType
<1>5. ASSUME NEW j \in 1 .. c PROVE s[j] = 0
  <2> SUFFICES ASSUME s[j] # 0 PROVE FALSE
    OBVIOUS
  <2>1. j \in Nat /\ j >= 1 /\ j <= c
    BY <1>4
  <2>2. zeros \in SUBSET (1 .. j - 1)
    BY <1>1, <2>1
  <2>3. IsFiniteSet(1 .. j - 1) /\ Cardinality(1 .. j - 1) = j - 1
    <3>1. PICK k \in Nat : k = j - 1
      BY <2>1
    <3>2. 1 \in Int /\ k \in Int
      BY <3>1
    <3>3. IsFiniteSet(1 .. k) /\ Cardinality(1 .. k) = IF 1 > k THEN 0 ELSE k - 1 + 1
      BY <3>2, FS_Interval
    <3> QED
      BY <3>1, <3>3
  <2>4. c <= j - 1
    BY <2>2, <2>3, FS_Subset
  <2> QED
    BY <2>1, <2>4, <1>4
<1>6. Stripped(s) = SubSeq(s, c + 1, Len(s))
  BY DEF Stripped
<1>7. c \in 0 .. Len(s)
  BY <1>1, <1>4
<1> QED
  BY <1>5, <1>6, <1>7

\* What a read of the handshake leaves of the wire w: all but leading zeros.
Follows(w, v) ==
  \E c \in 0 .. Len(w) :
    /\ Len(v) = Len(w) - c
    /\ \A i \in 1 .. Len(v) : v[i] = w[i + c]
    /\ \A j \in 1 .. c : w[j] = 0

\* Two sequences, the first in front of the second.
LEMMA InFront ==
  ASSUME NEW s \in Seq(Byte), NEW t \in Seq(Byte)
  PROVE  /\ s \o t \in Seq(Byte) /\ Len(s \o t) = Len(s) + Len(t)
         /\ Len(s) \in Nat /\ Len(t) \in Nat
         /\ \A i \in 1 .. Len(s) : (s \o t)[i] = s[i]
         /\ \A i \in 1 .. Len(t) : (s \o t)[Len(s) + i] = t[i]
<1>1. /\ s \o t \in Seq(Byte) /\ Len(s \o t) = Len(s) + Len(t)
      /\ \A i \in 1 .. Len(s) + Len(t) : (s \o t)[i] = IF i <= Len(s) THEN s[i] ELSE t[i - Len(s)]
  BY ConcatProperties
<1>2. Len(s) \in Nat /\ Len(t) \in Nat
  BY LenProperties
<1>3. ASSUME NEW i \in 1 .. Len(t) PROVE (s \o t)[Len(s) + i] = t[i]
  <2>1. Len(s) + i \in 1 .. Len(s) + Len(t) /\ ~(Len(s) + i <= Len(s)) /\ Len(s) + i - Len(s) = i
    BY <1>2
  <2> QED
    BY <2>1, <1>1
<1>4. ASSUME NEW i \in 1 .. Len(s) PROVE (s \o t)[i] = s[i]
  BY <1>1, <1>2
<1> QED
  BY <1>1, <1>2, <1>3, <1>4

\* What is left of w when the first c bytes, zeros, are stripped off its part
\* in the buffer.
LEMMA StrippedFollows ==
  ASSUME NEW b \in Seq(Byte), NEW t \in Seq(Byte), NEW c \in 0 .. Len(b),
         \A j \in 1 .. c : b[j] = 0
  PROVE  /\ SubSeq(b, c + 1, Len(b)) \in Seq(Byte)
         /\ Follows(b \o t, SubSeq(b, c + 1, Len(b)) \o t)
<1>1. Len(b) \in Nat /\ Len(t) \in Nat /\ \A i \in 1 .. Len(b) : b[i] \in Byte
  BY LenProperties, ElementOfSeq
<1>2. PICK m \in Nat, n \in Nat : m = Len(b) /\ n = Len(t)
  BY <1>1
<1>3. c \in Nat /\ c <= m
  BY <1>2
<1> DEFINE r == SubSeq(b, c + 1, Len(b))
<1>4. r \in Seq(Byte) /\ Len(r) = m - c /\ \A i \in 1 .. m - c : r[i] = b[i + c]
  <2>1. \A i \in c + 1 .. Len(b) : b[i] \in Byte
    BY <1>1, <1>2, <1>3
  <2>2. /\ r \in Seq(Byte)
        /\ Len(r) = IF c + 1 <= Len(b) THEN Len(b) - (c + 1) + 1 ELSE 0
        /\ \A i \in 1 .. Len(b) - (c + 1) + 1 : r[i] = b[c + 1 + i - 1]
    BY <1>1, <1>3, <2>1, SubSeqProperties
  <2> HIDE DEF r
  <2>3. \A i \in Nat : c + 1 + i - 1 = i + c
    BY <1>3
  <2> QED
    BY <2>2, <2>3, <1>2, <1>3
<1> HIDE DEF r
<1> DEFINE w == b \o t
           v == r \o t
<1>5. /\ Len(w) = m + n
      /\ \A i \in 1 .. m : w[i] = b[i]
      /\ \A i \in 1 .. n : w[m + i] = t[i]
  BY <1>2, InFront
<1>6. /\ Len(v) = m - c + n
      /\ \A i \in 1 .. m - c : v[i] = r[i]
      /\ \A i \in 1 .. n : v[m - c + i] = t[i]
  <2>1. PICK d \in Nat : d = Len(r) /\ d = m - c
    <3>1. m - c \in Nat
      BY <1>2, <1>3
    <3> QED
      BY <3>1, <1>4
  <2>2. /\ Len(v) = Len(r) + Len(t)
        /\ \A i \in 1 .. Len(r) : v[i] = r[i]
        /\ \A i \in 1 .. Len(t) : v[Len(r) + i] = t[i]
    BY <1>4, InFront
  <2> HIDE DEF v
  <2>3. /\ Len(v) = d + n
        /\ \A i \in 1 .. d : v[i] = r[i]
        /\ \A i \in 1 .. n : v[d + i] = t[i]
    BY <2>1, <2>2, <1>2
  <2> QED
    BY <2>1, <2>3
<1> HIDE DEF w, v
<1>7. \A j \in 1 .. c : w[j] = 0
  BY <1>3, <1>5
<1>8. ASSUME NEW i \in 1 .. Len(v) PROVE v[i] = w[i + c]
  <2>1. i \in Nat /\ i >= 1 /\ i <= m - c + n
    BY <1>2, <1>3, <1>6
  <2>2. CASE i <= m - c
    <3>1. i \in 1 .. m - c /\ i + c \in 1 .. m
      BY <2>1, <2>2, <1>2, <1>3
    <3>2. v[i] = r[i] /\ r[i] = b[i + c] /\ w[i + c] = b[i + c]
      BY <3>1, <1>4, <1>5, <1>6
    <3> QED
      BY <3>2
  <2>3. CASE i > m - c
    <3>1. PICK k \in 1 .. n : i = m - c + k
      <4>1. i - (m - c) \in 1 .. n /\ i = m - c + (i - (m - c))
        BY <2>1, <2>3, <1>2, <1>3
      <4> QED
        BY <4>1
    <3>2. v[m - c + k] = t[k] /\ w[m + k] = t[k]
      BY <3>1, <1>5, <1>6
    <3>3. i + c = m + k
      BY <3>1, <1>2, <1>3
    <3> QED
      BY <3>1, <3>2, <3>3
  <2> QED
    BY <2>1, <2>2, <2>3, <1>2, <1>3
<1>9. c \in 0 .. Len(w) /\ Len(v) = Len(w) - c
  BY <1>2, <1>3, <1>5, <1>6
<1>10. Follows(w, v)
  BY <1>7, <1>8, <1>9 DEF Follows
<1> QED
  BY <1>4, <1>10 DEF r, w, v

\* A read of the handshake.
LEMMA HandshakeRead ==
  ASSUME NEW s \in Seq(Byte), NEW t \in Seq(Byte), NEW n \in 1 .. Len(t)
  PROVE  /\ Stripped(s \o SubSeq(t, 1, n)) \in Seq(Byte)
         /\ SubSeq(t, n + 1, Len(t)) \in Seq(Byte)
         /\ Follows(s \o t, Stripped(s \o SubSeq(t, 1, n)) \o SubSeq(t, n + 1, Len(t)))
<1> DEFINE b == s \o SubSeq(t, 1, n)
           r == SubSeq(t, n + 1, Len(t))
<1>1. n \in 0 .. Len(t)
  OBVIOUS
<1>2. b \in Seq(Byte) /\ r \in Seq(Byte) /\ b \o r = s \o t
  BY <1>1, ReadingMoves
<1> HIDE DEF b, r
<1>3. PICK c \in 0 .. Len(b) : /\ Stripped(b) = SubSeq(b, c + 1, Len(b))
                               /\ \A j \in 1 .. c : b[j] = 0
  BY <1>2, StrippedIs
<1>4. Stripped(b) \in Seq(Byte) /\ Follows(b \o r, Stripped(b) \o r)
  BY <1>2, <1>3, StrippedFollows
<1> QED
  BY <1>2, <1>4 DEF b, r

(***************************************************************************)
(* The handshake of 1.9                                                    *)
(***************************************************************************)

\* The wire ends in this ECU's keywords, and holds no sync byte before them.
Heard(w) ==
  /\ Len(w) >= 3 /\ w[Len(w) - 2] = Sync /\ w[Len(w)] = keyword
  /\ \A i \in 1 .. Len(w) - 3 : w[i] # Sync

NoSync(w) == \A i \in 1 .. Len(w) : w[i] # Sync

\* While nothing is lost: what a session has of the keywords, and its answer.
HandshakeInv ==
  /\ lost \in Nat
  /\ lost = 0 =>
       /\ pc \in {"open", "address"} => wake = "asleep" /\ buffer = <<>>
       /\ pc = "address" => line = <<>>
       /\ pc = "keywords" =>
            /\ buffer \in Seq(Byte) /\ line \in Seq(Byte)
            /\ KeywordsAt(buffer) = {}
            /\ \/ wake = "asleep"
               \/ wake = "addressed" /\ NoSync(Wire)
               \/ wake = "woken" /\ keyword \in Keywords /\ Heard(Wire)
       /\ pc = "w4" =>
            \/ wake = "asleep"
            \/ /\ wake = "woken" /\ line = <<>>
               /\ keyword \in Keywords /\ challenge = 255 - keyword

\* Stripping zeros takes no sync byte away and adds none.
LEMMA FollowsNoSync ==
  ASSUME NEW w \in Seq(Byte), NEW v \in Seq(Byte), Follows(w, v), NoSync(w)
  PROVE  NoSync(v)
<1>1. PICK c \in 0 .. Len(w) : Len(v) = Len(w) - c /\ \A i \in 1 .. Len(v) : v[i] = w[i + c]
  BY DEF Follows
<1>2. Len(w) \in Nat /\ Len(v) \in Nat
  BY LenProperties
<1>3. \A i \in 1 .. Len(v) : i + c \in 1 .. Len(w)
  BY <1>1, <1>2
<1> QED
  BY <1>1, <1>3 DEF NoSync

\* A wire that ends in the keywords still does once leading zeros are taken.
LEMMA FollowsHeard ==
  ASSUME NEW w \in Seq(Byte), NEW v \in Seq(Byte), Follows(w, v), Heard(w)
  PROVE  Heard(v)
<1>1. PICK c \in 0 .. Len(w) : /\ Len(v) = Len(w) - c
                               /\ \A i \in 1 .. Len(v) : v[i] = w[i + c]
                               /\ \A j \in 1 .. c : w[j] = 0
  BY DEF Follows
<1>2. PICK m \in Nat, n \in Nat : m = Len(w) /\ n = Len(v)
  <2>1. Len(w) \in Nat /\ Len(v) \in Nat
    BY LenProperties
  <2> QED
    BY <2>1
<1>3. c \in Nat /\ n = m - c /\ m >= 3 /\ w[m - 2] = Sync /\ w[m] = keyword
  BY <1>1, <1>2 DEF Heard
<1>4. m - 2 > c
  <2>1. m - 2 \in Nat /\ m - 2 >= 1
    BY <1>2, <1>3
  <2>2. m - 2 <= c => w[m - 2] = 0
    BY <2>1, <1>1, <1>3
  <2> QED
    BY <2>1, <2>2, <1>3 DEF Sync
<1>5. n >= 3 /\ n - 2 \in 1 .. n /\ n \in 1 .. n /\ n - 2 + c = m - 2 /\ n + c = m
  BY <1>2, <1>3, <1>4
<1>6. v[n - 2] = Sync /\ v[n] = keyword
  BY <1>1, <1>2, <1>3, <1>5
<1>7. ASSUME NEW i \in 1 .. n - 3 PROVE v[i] # Sync
  <2>1. i \in 1 .. n /\ i + c \in 1 .. m - 3
    BY <1>2, <1>3, <1>4
  <2> QED
    BY <2>1, <1>1, <1>2 DEF Heard
<1> QED
  BY <1>2, <1>5, <1>6, <1>7 DEF Heard

\* The keywords of a buffer are complete only with all that was heard in it.
LEMMA HeardIsComplete ==
  ASSUME NEW b \in Seq(Byte), NEW t \in Seq(Byte), Heard(b \o t), KeywordsAt(b) # {}
  PROVE  t = <<>> /\ SecondKeyword(b) = keyword
<1>1. PICK m \in Nat, n \in Nat : m = Len(b) /\ n = Len(t)
  <2>1. Len(b) \in Nat /\ Len(t) \in Nat
    BY LenProperties
  <2> QED
    BY <2>1
<1> DEFINE w == b \o t
<1>2. Len(w) = m + n /\ \A i \in 1 .. m : w[i] = b[i]
  BY <1>1, InFront
<1> HIDE DEF w
<1>3. Heard(w)
  BY DEF w
<1>4. ASSUME NEW i \in KeywordsAt(b) PROVE i = m - 2 /\ n = 0
  <2>1. i \in Nat /\ i >= 1 /\ i <= m - 2 /\ b[i] = Sync
    BY <1>1 DEF KeywordsAt
  <2>2. i \in 1 .. m /\ w[i] = Sync
    BY <2>1, <1>1, <1>2
  <2>3. ~(i \in 1 .. m + n - 3)
    BY <2>2, <1>2, <1>3 DEF Heard
  <2> QED
    BY <2>1, <2>3, <1>1
<1>5. n = 0 /\ KeywordsAt(b) = {m - 2}
  BY <1>4
<1>6. t = <<>>
  BY <1>1, <1>5, EmptySeq
<1>7. SecondKeyword(b) = b[m - 2 + 2]
  <2>1. \A i : i \in {m - 2} /\ (\A j \in {m - 2} : i <= j) <=> i = m - 2
    BY <1>1
  <2>2. (CHOOSE i \in KeywordsAt(b) : \A j \in KeywordsAt(b) : i <= j) = m - 2
    BY <1>1, <1>5
  <2> QED
    BY <2>2 DEF SecondKeyword
<1>8. m >= 3 /\ m - 2 + 2 = m /\ m \in 1 .. m
  BY <1>1, <1>2, <1>3, <1>5 DEF Heard
<1>9. b[m] = keyword
  BY <1>1, <1>2, <1>3, <1>5, <1>8 DEF Heard
<1> QED
  BY <1>6, <1>7, <1>8, <1>9

\* A buffer with all that was heard in it has the keywords.
LEMMA HeardHasKeywords ==
  ASSUME NEW b \in Seq(Byte), Heard(b)
  PROVE  KeywordsAt(b) # {}
<1>1. Len(b) \in Nat /\ Len(b) >= 3 /\ b[Len(b) - 2] = Sync
  BY LenProperties DEF Heard
<1>2. Len(b) - 2 \in 1 .. Len(b) - 2
  BY <1>1
<1>3. Len(b) - 2 \in KeywordsAt(b)
  BY <1>1, <1>2 DEF KeywordsAt
<1> QED
  BY <1>3

\* There are no keywords in what holds no sync byte.
LEMMA NoKeywordsWithoutSync ==
  ASSUME NEW b \in Seq(Byte), NEW t \in Seq(Byte), NoSync(b \o t)
  PROVE  KeywordsAt(b) = {}
<1>1. /\ Len(b) \in Nat /\ Len(t) \in Nat /\ Len(b \o t) = Len(b) + Len(t)
      /\ \A i \in 1 .. Len(b) : (b \o t)[i] = b[i]
  BY InFront
<1>2. ASSUME NEW i \in KeywordsAt(b) PROVE FALSE
  <2>1. i \in 1 .. Len(b) /\ i \in 1 .. Len(b) + Len(t) /\ b[i] = Sync
    BY <1>1 DEF KeywordsAt
  <2> QED
    BY <2>1, <1>1 DEF NoSync
<1> QED
  BY <1>2

handshakeVars == <<pc, buffer, line, lost, challenge, wake, keyword>>

\* Where the handshake is about the keywords.
Greeting == {"open", "address", "keywords", "w4"}

\* The invariant speaks of a session in the handshake that has lost nothing.
LEMMA HandshakeVacuous ==
  ASSUME HandshakeInv, lost' \in {lost, lost + 1},
         lost' = 0 => pc' \notin Greeting
  PROVE  HandshakeInv'
BY DEF HandshakeInv, Greeting

\* A session starts with nothing heard.
LEMMA HandshakeInit == Init19 => HandshakeInv
BY DEF Init19, InitAt, HandshakeInv

\* The address is sent, and perhaps read back as junk.
LEMMA HandshakeAddress ==
  ASSUME Sync \notin Junk, HandshakeInv, SendAddress PROVE HandshakeInv'
<1>1. /\ pc = "address" /\ pc' = "keywords" /\ UNCHANGED <<buffer, lost>>
      /\ wake' \in {wake, "addressed"}
  BY DEF SendAddress
<1>2. SUFFICES ASSUME lost = 0 PROVE HandshakeInv'
  BY <1>1 DEF HandshakeInv
<1>3. wake = "asleep" /\ buffer = <<>> /\ line = <<>>
  BY <1>1, <1>2 DEF HandshakeInv
<1>4. PICK n \in 0 .. MaxJunk : \E noise \in [1 .. n -> Junk] : line' = line \o noise
  BY DEF SendAddress
<1>5. PICK noise \in [1 .. n -> Junk] : line' = line \o noise
  BY <1>4
<1>6. noise \in Seq(Byte) /\ NoSync(noise)
  <2>1. n \in Nat /\ Junk \subseteq Byte
    BY WakeUpAssumption
  <2>2. noise \in [1 .. n -> Byte]
    BY <2>1
  <2>3. noise \in Seq(Byte) /\ Len(noise) = n
    BY <2>1, <2>2
  <2> QED
    BY <2>1, <2>3 DEF NoSync
<1>7. line' = noise
  BY <1>3, <1>5, <1>6, ConcatEmptySeq
<1>8. buffer' \in Seq(Byte) /\ Wire' = noise
  BY <1>1, <1>3, <1>6, <1>7, EmptySeq, ConcatEmptySeq DEF Wire
<1>9. KeywordsAt(buffer') = {}
  <2>1. Len(buffer') = 0
    BY <1>1, <1>3, EmptySeq
  <2> QED
    BY <2>1 DEF KeywordsAt
<1>10. wake' \in {"asleep", "addressed"} /\ NoSync(Wire)'
  BY <1>1, <1>3, <1>6, <1>8 DEF NoSync
<1> QED
  BY <1>1, <1>2, <1>6, <1>7, <1>8, <1>9, <1>10 DEF HandshakeInv

\* A part of what has arrived is read; with the keywords in it, all of it was.
LEMMA HandshakeReads ==
  ASSUME HandshakeInv, ReadKeywords PROVE HandshakeInv'
<1>1. pc = "keywords" /\ UNCHANGED <<lost, wake, keyword>>
  BY DEF ReadKeywords, wakeVars
<1>2. SUFFICES ASSUME lost = 0 PROVE HandshakeInv'
  BY <1>1 DEF HandshakeInv
<1>3. /\ buffer \in Seq(Byte) /\ line \in Seq(Byte)
      /\ \/ wake = "asleep"
         \/ wake = "addressed" /\ NoSync(Wire)
         \/ wake = "woken" /\ keyword \in Keywords /\ Heard(Wire)
  BY <1>1, <1>2 DEF HandshakeInv
<1>4. PICK n \in 1 .. Len(line) :
        /\ buffer' = Stripped(buffer \o SubSeq(line, 1, n))
        /\ line' = SubSeq(line, n + 1, Len(line))
  BY DEF ReadKeywords
<1>5. /\ buffer' \in Seq(Byte) /\ line' \in Seq(Byte)
      /\ Follows(Wire, Wire')
  BY <1>3, <1>4, HandshakeRead DEF Wire
<1>6. PICK b \in Seq(Byte), t \in Seq(Byte) : b = buffer' /\ t = line'
  BY <1>5
<1>7. Wire \in Seq(Byte) /\ b \o t \in Seq(Byte) /\ Wire' = b \o t
  BY <1>3, <1>6, InFront DEF Wire
<1>8. wake = "addressed" => NoSync(b \o t)
  BY <1>3, <1>5, <1>7, FollowsNoSync
<1>9. wake = "woken" => keyword \in Keywords /\ Heard(b \o t)
  BY <1>3, <1>5, <1>7, FollowsHeard
<1>10. CASE KeywordsAt(b) = {}
  <2>1. pc' = "keywords"
    BY <1>1, <1>6, <1>10 DEF ReadKeywords
  <2>2. Heard(Wire)' <=> Heard(b \o t)
    BY <1>1, <1>7 DEF Heard
  <2>3. NoSync(Wire)' <=> NoSync(b \o t)
    BY <1>7 DEF NoSync
  <2>4. KeywordsAt(buffer)' = {}
    BY <1>6, <1>10 DEF KeywordsAt
  <2> QED
    BY <1>1, <1>2, <1>3, <1>5, <1>8, <1>9, <2>1, <2>2, <2>3, <2>4 DEF HandshakeInv
<1>11. CASE KeywordsAt(b) # {}
  <2>1. pc' = "w4" /\ challenge' = 255 - SecondKeyword(b)
    BY <1>6, <1>11 DEF ReadKeywords
  <2>2. wake # "addressed"
    BY <1>8, <1>11, NoKeywordsWithoutSync
  <2>3. wake = "woken" => t = <<>> /\ SecondKeyword(b) = keyword
    BY <1>9, <1>11, HeardIsComplete
  <2> QED
    BY <1>1, <1>2, <1>3, <1>6, <1>9, <2>1, <2>2, <2>3 DEF HandshakeInv
<1> QED
  BY <1>10, <1>11

\* At a deadline with nothing on the line, a woken ECU would have been heard.
LEMMA HandshakeDeadline ==
  ASSUME HandshakeInv, KeywordsDeadline PROVE HandshakeInv'
<1>1. pc = "keywords" /\ pc' = "w4" /\ UNCHANGED <<buffer, line, keyword>> /\ Deadline
  BY DEF KeywordsDeadline
<1>2. CASE lost' = lost + 1
  BY <1>2 DEF HandshakeInv
<1>3. CASE UNCHANGED lost /\ line = <<>>
  <2> SUFFICES ASSUME lost = 0 PROVE HandshakeInv'
    BY <1>3 DEF HandshakeInv
  <2>1. /\ buffer \in Seq(Byte) /\ KeywordsAt(buffer) = {}
        /\ wake \in {"asleep", "addressed", "woken"}
        /\ wake = "woken" => Heard(Wire)
    BY <1>1 DEF HandshakeInv
  <2>2. Wire = buffer
    BY <1>3, <2>1, ConcatEmptySeq DEF Wire
  <2>3. wake # "woken"
    BY <2>1, <2>2, HeardHasKeywords
  <2>4. lost' = lost + 1 \/ wake' = "asleep"
    BY <1>1, <2>1, <2>3 DEF Deadline
  <2> QED
    BY <1>1, <1>3, <2>4 DEF HandshakeInv
<1> QED
  BY <1>1, <1>2, <1>3 DEF Deadline

\* The ECU says its keywords on a wire with no sync byte.
LEMMA HandshakeKeywords ==
  ASSUME HandshakeInv, EcuSendsKeywords PROVE HandshakeInv'
<1>1. wake = "addressed" /\ wake' = "woken" /\ UNCHANGED <<pc, buffer, lost, challenge>>
  BY DEF EcuSendsKeywords, agent
<1>2. PICK first \in Keywords, second \in Keywords :
        line' = line \o <<Sync, first, second>> /\ keyword' = second
  BY DEF EcuSendsKeywords
<1>3. SUFFICES ASSUME lost = 0, pc = "keywords" PROVE HandshakeInv'
  BY <1>1 DEF HandshakeInv
<1>4. buffer \in Seq(Byte) /\ line \in Seq(Byte) /\ KeywordsAt(buffer) = {} /\ NoSync(Wire)
  BY <1>1, <1>3 DEF HandshakeInv
<1>5. PICK k \in Seq(Byte) : /\ k = <<Sync, first, second>>
                             /\ Len(k) = 3 /\ k[1] = Sync /\ k[3] = second
  <2>1. Sync \in Byte /\ first \in Byte /\ second \in Byte
    BY WakeUpAssumption DEF Sync, Byte
  <2>2. <<Sync, first, second>> \in Seq(Byte)
    BY <2>1
  <2>3. Len(<<Sync, first, second>>) = 3 /\ <<Sync, first, second>>[1] = Sync
        /\ <<Sync, first, second>>[3] = second
    OBVIOUS
  <2> QED
    BY <2>2, <2>3
<1>6. line' \in Seq(Byte) /\ Wire \in Seq(Byte) /\ Wire' = Wire \o k
  <2>1. line' \in Seq(Byte) /\ Wire \in Seq(Byte)
    BY <1>2, <1>4, <1>5, InFront DEF Wire
  <2>2. buffer \o (line \o k) = (buffer \o line) \o k
    BY <1>4, <1>5, ConcatAssociative
  <2> QED
    BY <2>1, <2>2, <1>1, <1>2, <1>5 DEF Wire
<1>7. PICK m \in Nat : m = Len(Wire)
  BY <1>6, LenProperties
<1> DEFINE v == Wire \o k
<1>8. /\ Len(v) = m + 3
      /\ \A i \in 1 .. m : v[i] = Wire[i]
      /\ \A i \in 1 .. 3 : v[m + i] = k[i]
  BY <1>5, <1>6, <1>7, InFront
<1> HIDE DEF v
<1>9. Len(v) - 2 = m + 1 /\ Len(v) - 3 = m /\ v[m + 1] = Sync /\ v[m + 3] = second
  BY <1>5, <1>7, <1>8
<1>10. \A i \in 1 .. m : v[i] # Sync
  BY <1>4, <1>7, <1>8 DEF NoSync
<1>11. Wire' = v /\ keyword' = second
  BY <1>2, <1>6 DEF v
<1>12. Heard(Wire)'
  BY <1>7, <1>8, <1>9, <1>10, <1>11 DEF Heard
<1>13. KeywordsAt(buffer)' = {}
  BY <1>1, <1>4 DEF KeywordsAt
<1> QED
  BY <1>1, <1>2, <1>3, <1>4, <1>6, <1>12, <1>13 DEF HandshakeInv

\* Steps that touch nothing of the handshake.
LEMMA HandshakeQuiet ==
  ASSUME HandshakeInv, UNCHANGED handshakeVars PROVE HandshakeInv'
BY DEF HandshakeInv, handshakeVars, Wire, Heard, NoSync, KeywordsAt

\* Every step of the session, of its users and of its surroundings.
LEMMA HandshakeStep ==
  ASSUME Sync \notin Junk
  PROVE  HandshakeInv /\ [Next19]_vars19 => HandshakeInv'
<1> SUFFICES ASSUME HandshakeInv, [Next19]_vars19 PROVE HandshakeInv'
  OBVIOUS
<1>1. CASE Connect
  <2>1. CASE Open
    BY <2>1 DEF Open, FlushInput, HandshakeInv, wakeVars
  <2>2. CASE SendAddress
    BY <2>2, HandshakeAddress
  <2>3. CASE ReadKeywords
    BY <2>3, HandshakeReads
  <2>4. CASE KeywordsDeadline
    BY <2>4, HandshakeDeadline
  <2>5. CASE SendChallenge \/ ReadAcknowledge \/ HandOver
    <3>1. lost' = lost /\ pc' \notin Greeting
      BY <2>5 DEF SendChallenge, ReadAcknowledge, HandOver, Greeting
    <3> QED
      BY <3>1, HandshakeVacuous
  <2>6. CASE AcknowledgeDeadline
    <3>1. lost' \in {lost, lost + 1} /\ pc' \notin Greeting
      BY <2>6 DEF AcknowledgeDeadline, Deadline, Greeting
    <3> QED
      BY <3>1, HandshakeVacuous
  <2> QED
    BY <1>1, <2>1, <2>2, <2>3, <2>4, <2>5, <2>6 DEF Connect
<1>2. CASE ConnectFails \/ HandshakeFails
  <2>1. lost' \in {lost, lost + 1} /\ pc' \notin Greeting
    BY <1>2 DEF ConnectFails, HandshakeFails, Deadline, Greeting
  <2> QED
    BY <2>1, HandshakeVacuous
<1>3. CASE Loop
  <2>1. lost' = lost /\ pc' \notin Greeting
    BY <1>3 DEF Loop, Start, Read, Timeout, Cancelled, ConsumeEcho, CommandAccepted,
         HandshakeReply, Identified, DataFrame, AwaitMore, Answer, Greeting
  <2> QED
    BY <2>1, HandshakeVacuous
<1>4. CASE Surroundings /\ UNCHANGED wakeVars
  <2>1. CASE ReadFails
    <3>1. lost' = lost /\ pc' \notin Greeting
      BY <2>1 DEF ReadFails, Greeting
    <3> QED
      BY <3>1, HandshakeVacuous
  <2>2. CASE LoseByte
    <3>1. lost' = lost + 1
      BY <2>2 DEF LoseByte
    <3> QED
      BY <3>1 DEF HandshakeInv
  <2>3. CASE Shutdown \/ \E c \in UserCommands \cup {UnknownCommand} : SetUserCommand(c)
    <3>1. UNCHANGED handshakeVars
      BY <1>4, <2>3 DEF Shutdown, SetUserCommand, agent, wakeVars, handshakeVars
    <3> QED
      BY <3>1, HandshakeQuiet
  <2> QED
    BY <1>4, <2>1, <2>2, <2>3 DEF Surroundings
<1>5. CASE EcuSendsKeywords
  BY <1>5, HandshakeKeywords
<1>6. CASE EcuAcknowledges \/ OpenEcuAnswers
  <2>1. wake \in {"challenged", "open"} /\ lost' = lost /\ pc' = pc
    BY <1>6 DEF EcuAcknowledges, OpenEcuAnswers, EcuAnswers, agent
  <2>2. lost = 0 => pc \notin Greeting
    BY <2>1 DEF HandshakeInv, Greeting
  <2> QED
    BY <2>1, <2>2, HandshakeVacuous
<1>7. CASE EcuGoesOff
  BY <1>7 DEF EcuGoesOff, IgnitionOff, agent, HandshakeInv, KeywordsAt
<1>8. CASE UNCHANGED vars19
  <2>1. UNCHANGED handshakeVars
    BY <1>8 DEF vars19, vars, agent, wakeVars, handshakeVars
  <2> QED
    BY <2>1, HandshakeQuiet
<1> QED
  BY <1>1, <1>2, <1>3, <1>4, <1>5, <1>6, <1>7, <1>8 DEF Next19

\* The session answers an ECU that has said its keywords with the complement of
\* the second, for any keywords, any number of junk bytes none of which is the
\* sync byte, and however the bytes arrive, unless the wire has lost or delayed
\* something.  The restriction on the junk is the property's own hypothesis.
THEOREM ChallengesAreComplements == Spec19 => ChallengeIsTheComplement
<1>1. CASE Sync \notin Junk
  <2>1. HandshakeInv => (pc = "w4" /\ pc' = "acknowledge" /\ wake = "woken" /\ lost = 0
                           => challenge = 255 - keyword)
    BY DEF HandshakeInv
  <2>2. HandshakeInv /\ [Next19]_vars19 => HandshakeInv'
    BY <1>1, HandshakeStep
  <2> QED
    BY <2>1, <2>2, HandshakeInit, PTL DEF Spec19, ChallengeIsTheComplement
<1>2. CASE Sync \in Junk
  <2>1. Sync \notin Junk /\ pc = "w4" /\ pc' = "acknowledge" /\ wake = "woken" /\ lost = 0
          => challenge = 255 - keyword
    BY <1>2
  <2> QED
    BY <2>1, PTL DEF Spec19, ChallengeIsTheComplement
<1> QED
  BY <1>1, <1>2

(***************************************************************************)
(* The loop on an intact wire                                              *)
(***************************************************************************)

\* The wire without the echo that is still to be taken off it.
Rest == IF Echo /\ ~gotKlineEcho THEN Tail(Wire) ELSE Wire

\* The handshake, and the stage the ECU is in when it is asked for the next.
Walk == {<<0, CA>>, <<1, S75>>, <<2, F4>>, <<3, D0>>}

\* The last byte sent waits for the ECU, or the ECU has gone off.
Unanswered ==
  /\ ecuInbox \in {<<>>, <<lastKlineByte>>}
  /\ ecuOn => ecuInbox = <<lastKlineByte>>
  /\ \A k \in 0 .. 3 : <<k, lastKlineByte>> \in Walk => ecuStage = k

\* The ECU has answered it.
Answered ==
  /\ ecuInbox = <<>>
  /\ \A k \in 0 .. 3 : <<k, lastKlineByte>> \in Walk => ecuStage = k + 1
  /\ lastKlineByte \in UserCommands => executed[lastKlineByte] > 0

\* Without an echo the loop takes the first reply for one, and waits.
Silent == ~Echo /\ gotKlineEcho /\ buffer = <<>> /\ line = <<>> /\ ecuInbox = <<>>

\* Request and response: nothing but one of them is anywhere.
Exchange ==
  /\ lastKlineByte \in Requests
  /\ ~Echo => lastKlineByte = CA /\ ~gotKlineEcho
  /\ Echo /\ ~gotKlineEcho => Wire # <<>> /\ Wire[1] = lastKlineByte
  /\ \/ Rest = <<>> /\ Unanswered
     \/ Rest \in Replies(lastKlineByte) /\ Answered

Linked ==
  /\ buffer \in Seq(Byte) /\ line \in Seq(Byte) /\ gotKlineEcho \in BOOLEAN
  /\ pc = "handle" => buffer # <<>>
  /\ Silent \/ Exchange

\* What the dashboard shows is so.
Truths ==
  /\ connected => ecuStage = 4
  /\ alert # NoCommand => alert \in UserCommands /\ executed[alert] > 0

Connecting == {"open", "address", "keywords", "w4", "acknowledge", "drain", "init"}

\* No byte of the acknowledgement is on the wire.
Unacknowledged ==
  /\ buffer \in Seq(Byte) /\ line \in Seq(Byte)
  /\ \A i \in 1 .. Len(Wire) : Wire[i] # Acknowledge

\* An ECU that the loop takes over says nothing unasked, and the loop and the
\* ECU take turns.
TakeTurns ==
  /\ pc \in Connecting => ecuInbox = <<>> /\ ecuStage = 0 /\ gotKlineEcho = FALSE
  /\ pc = "acknowledge" =>
       wake \in {"asleep", "open"} \/ (wake = "challenged" /\ Unacknowledged)
  /\ pc \in {"drain", "init", "read", "handle"} => wake \in {"asleep", "woken", "open"}
  /\ pc = "init" => buffer = <<>> /\ line = <<>>
  /\ pc \in {"read", "handle"} => Linked
  /\ Truths

\* The invariant of a session that has lost nothing.
LinkInv == HandshakeInv /\ CommandInv /\ (lost = 0 => TakeTurns)

\* What an ECU reports is bytes.
LEMMA DataIsBytes ==
  ASSUME NEW m \in Nat, NEW z \in [1 .. m -> DataBytes]
  PROVE  z \in Seq(Byte) /\ Len(z) = m
<1>1. z \in [1 .. m -> Byte]
  BY ParametersAssumption
<1>2. z \in Seq(Byte)
  BY <1>1, SeqDef
<1>3. DOMAIN z = 1 .. Len(z) /\ Len(z) \in Nat
  BY <1>2, LenProperties
<1>4. 1 .. Len(z) = 1 .. m => Len(z) = m
  BY <1>3, SMT
<1> QED
  BY <1>1, <1>2, <1>3, <1>4

\* What the ECU sends begins with the command, and is complete only in full.
LEMMA ReplyIs ==
  ASSUME NEW b \in Requests, NEW r \in Replies(b)
  PROVE  /\ r \in Seq(Byte) /\ r # <<>> /\ r[1] = b
         /\ \A p \in Seq(Byte) :
              p # <<>> /\ Len(p) <= Len(r) /\ (\A i \in 1 .. Len(p) : p[i] = r[i]) /\ Complete(p)
                => Len(p) = Len(r)
<1>1. b \in Byte
  BY ParametersAssumption DEF Requests, Protocol, Byte, CA, S75, F4, D0, D80, D7D
<1>2. UserCommands \cap Protocol = {}
  BY ParametersAssumption
<1>3. CASE b \in {CA, S75}
  <2>1. r = <<b>>
    <3>1. b \notin {F4, D0, D80, D7D}
      BY <1>3 DEF CA, S75, F4, D0, D80, D7D
    <3>2. Replies(b) = {<<b>>}
      BY <1>3, <3>1 DEF Replies
    <3> QED
      BY <3>2
  <2>2. r \in Seq(Byte) /\ Len(r) = 1 /\ r[1] = b
    BY <1>1, <2>1
  <2>3. PICK k \in Nat : k = Len(r) /\ k = 1
    BY <2>2
  <2>4. ASSUME NEW p \in Seq(Byte), p # <<>>, Len(p) <= Len(r) PROVE Len(p) = Len(r)
    <3>1. PICK n \in Nat : n = Len(p)
      BY LenProperties
    <3>2. n # 0
      BY <2>4, <3>1, EmptySeq
    <3>3. n <= k
      BY <2>3, <2>4, <3>1
    <3>4. n = k
      BY <2>3, <3>2, <3>3
    <3> QED
      BY <2>3, <3>1, <3>4
  <2>5. r # <<>>
    <3>1. Len(<<>>) = 0
      BY EmptySeq
    <3>2. k # 0
      BY <2>3
    <3> QED
      BY <2>3, <3>1, <3>2
  <2> QED
    BY <2>2, <2>4, <2>5
<1>4. CASE b = D0
  <2>1. PICK id \in [1 .. 4 -> DataBytes] : r = <<b>> \o id
    <3>1. b \notin {CA, S75, F4, D80, D7D}
      BY <1>4 DEF CA, S75, F4, D0, D80, D7D
    <3>2. Replies(b) = {<<b>> \o id : id \in [1 .. 4 -> DataBytes]}
      BY <1>4, <3>1 DEF Replies
    <3> QED
      BY <3>2
  <2>2. id \in Seq(Byte) /\ Len(id) = 4
    BY DataIsBytes
  <2>3. r \in Seq(Byte) /\ Len(r) = 5 /\ r[1] = b
    <3>1. PICK h \in Seq(Byte) : h = <<b>> /\ Len(h) = 1 /\ h[1] = b
      <4>1. <<b>> \in Seq(Byte) /\ Len(<<b>>) = 1 /\ <<b>>[1] = b
        BY <1>1
      <4> QED
        BY <4>1
    <3>2. /\ h \o id \in Seq(Byte) /\ Len(h \o id) = Len(h) + Len(id)
          /\ \A i \in 1 .. Len(h) : (h \o id)[i] = h[i]
      BY <2>2, <3>1, InFront
    <3> QED
      BY <2>1, <2>2, <3>1, <3>2
  <2>4. ASSUME NEW p \in Seq(Byte), p # <<>>, Len(p) <= 5, p[1] = b, Complete(p)
        PROVE  Len(p) = 5
    <3>1. Head(p) = D0 /\ Len(p) \in Nat
      BY <1>4, <2>4
    <3>2. D0 \notin UserCommands
      BY <1>2 DEF Protocol
    <3>3. PICK n \in Nat : n = Len(p)
      BY <3>1
    <3>4. n >= 5
      BY <2>4, <3>1, <3>2, <3>3 DEF Complete, CA, S75, F4, D0, D80, D7D
    <3> QED
      BY <2>4, <3>3, <3>4
  <2>5. \A p \in Seq(Byte) : p # <<>> => Len(p) >= 1 /\ 1 \in 1 .. Len(p)
    BY EmptySeq
  <2>6. r # <<>>
    <3>1. Len(r) # 0
      BY <2>3
    <3> QED
      BY <3>1, EmptySeq
  <2>7. \A p \in Seq(Byte) :
          p # <<>> /\ Len(p) <= 5 /\ p[1] = b /\ Complete(p) => Len(p) = 5
    BY <2>4
  <2> HIDE DEF Complete
  <2> QED
    BY <2>3, <2>5, <2>6, <2>7
<1>5. CASE b \in {D80, D7D}
  <2>1. PICK s \in PacketSizes : \E data \in [1 .. s - 1 -> DataBytes] : r = <<b, s>> \o data
    <3>1. b \notin {CA, S75, F4, D0}
      BY <1>5 DEF CA, S75, F4, D0, D80, D7D
    <3>2. Replies(b) = UNION {{<<b, s>> \o data : data \in [1 .. s - 1 -> DataBytes]} :
                                s \in PacketSizes}
      BY <1>5, <3>1 DEF Replies
    <3> QED
      BY <3>2
  <2>2. s \in Byte /\ s \in Nat /\ s >= 1
    BY ParametersAssumption DEF Byte
  <2>3. PICK m \in Nat : m = s - 1
    BY <2>2
  <2>4. PICK z \in [1 .. m -> DataBytes] : r = <<b, s>> \o z /\ z \in Seq(Byte) /\ Len(z) = m
    BY <2>1, <2>3, DataIsBytes
  <2>5. <<b, s>> \in Seq(Byte) /\ Len(<<b, s>>) = 2 /\ <<b, s>>[1] = b /\ <<b, s>>[2] = s
    BY <1>1, <2>2
  <2>6. r = <<b, s>> \o z
    BY <2>4
  <2>7. PICK h \in Seq(Byte) : h = <<b, s>> /\ Len(h) = 2 /\ h[1] = b /\ h[2] = s
    BY <2>5
  <2>8. /\ h \o z \in Seq(Byte) /\ Len(h \o z) = Len(h) + Len(z)
        /\ \A i \in 1 .. Len(h) : (h \o z)[i] = h[i]
    BY <2>4, <2>7, InFront
  <2>9. r \in Seq(Byte) /\ Len(r) = s + 1 /\ r[1] = b /\ r[2] = s
    BY <2>2, <2>3, <2>4, <2>6, <2>7, <2>8
  <2>10. ASSUME NEW p \in Seq(Byte), p # <<>>, Len(p) <= Len(r),
                \A i \in 1 .. Len(p) : p[i] = r[i], Complete(p)
         PROVE  Len(p) = Len(r)
    <3>1. Len(p) \in Nat /\ Len(p) >= 1
      BY <2>10, EmptySeq
    <3>2. Head(p) = b
      BY <2>9, <2>10, <3>1
    <3>3. b \notin UserCommands
      BY <1>2, <1>5 DEF Protocol
    <3>4. Len(p) >= 2 /\ Len(p) >= p[2] + 1
      BY <1>5, <2>10, <3>2, <3>3 DEF Complete, CA, S75, F4, D0, D80, D7D
    <3>5. p[2] = s
      BY <2>9, <2>10, <3>1, <3>4
    <3> QED
      BY <2>2, <2>9, <2>10, <3>1, <3>4, <3>5
  <2>11. r # <<>>
    BY <2>2, <2>9, EmptySeq
  <2> QED
    BY <2>9, <2>10, <2>11
<1>6. CASE b \in UserCommands \cup {F4}
  <2>1. b \notin {CA, S75, D0, D80, D7D}
    BY <1>2, <1>6 DEF Protocol, CA, S75, F4, D0, D80, D7D
  <2>2. PICK d \in Byte : r = <<b, d>>
    <3>1. DataBytes \subseteq Byte /\ 0 \in Byte
      BY ParametersAssumption DEF Byte
    <3>2. Replies(b) = {<<b, 0>>} \/ Replies(b) = {<<b, d>> : d \in DataBytes}
      BY <2>1 DEF Replies
    <3> QED
      BY <3>1, <3>2
  <2>4. r \in Seq(Byte) /\ Len(r) = 2 /\ r[1] = b
    BY <1>1, <2>2
  <2>5. ASSUME NEW p \in Seq(Byte), p # <<>>, Len(p) <= 2, p[1] = b, Complete(p)
        PROVE  Len(p) = 2
    <3>1. Head(p) = b /\ Len(p) \in Nat
      BY <2>5
    <3>2. PICK n \in Nat : n = Len(p)
      BY <3>1
    <3>3. n >= 2
      BY <2>1, <2>5, <3>1, <3>2 DEF Complete
    <3> QED
      BY <2>5, <3>2, <3>3
  <2>6. \A p \in Seq(Byte) : p # <<>> => Len(p) >= 1 /\ 1 \in 1 .. Len(p)
    BY EmptySeq
  <2>7. \A p \in Seq(Byte) :
          p # <<>> /\ Len(p) <= 2 /\ p[1] = b /\ Complete(p) => Len(p) = 2
    BY <2>5
  <2>8. r # <<>>
    <3>1. Len(r) # 0
      BY <2>4
    <3> QED
      BY <3>1, EmptySeq
  <2> HIDE DEF Complete
  <2> QED
    BY <2>4, <2>6, <2>7, <2>8
<1> QED
  BY <1>3, <1>4, <1>5, <1>6 DEF Requests, Protocol

\* A session starts with nothing under way.
LEMMA LinkInit == Init19 => LinkInv
<1> SUFFICES ASSUME Init19 PROVE LinkInv
  OBVIOUS
<1>1. HandshakeInv /\ CommandInv
  BY HandshakeInit, CommandInit
<1>2. Truths
  BY DEF Init19, InitAt, Truths
<1>3. TakeTurns
  BY <1>2 DEF Init19, InitAt, TakeTurns
<1> QED
  BY <1>1, <1>3 DEF LinkInv

\* When the loop acts on a reply, it has been taken off the wire in full, and
\* the ECU has nothing to do.
LEMMA TurnIsTheLoops ==
  ASSUME Linked, pc = "handle", ~EchoFirst, Complete(buffer)
  PROVE  /\ Echo /\ gotKlineEcho = TRUE /\ line = <<>> /\ Head(buffer) = lastKlineByte
         /\ lastKlineByte \in Requests /\ Answered
<1>1. buffer \in Seq(Byte) /\ line \in Seq(Byte) /\ buffer # <<>> /\ Exchange
  BY DEF Linked, Silent
<1>2. PICK b : b = lastKlineByte
  OBVIOUS
<1>3. PICK s \in Seq(Byte), t \in Seq(Byte) : s = buffer /\ t = line
  BY <1>1
<1>4. PICK m \in Nat, n \in Nat : m = Len(s) /\ n = Len(t)
  BY LenProperties
<1>5. m >= 1 /\ Head(s) = s[1]
  BY <1>1, <1>3, <1>4, EmptySeq
<1>6. PICK w \in Seq(Byte) : w = s \o t /\ Len(w) = m + n /\ \A i \in 1 .. m : w[i] = s[i]
  BY <1>4, InFront
<1>7. w = Wire /\ w[1] = Head(s) /\ w # <<>>
  <2>1. w = Wire /\ w[1] = Head(s)
    BY <1>3, <1>5, <1>6 DEF Wire
  <2>2. Len(w) # 0
    BY <1>4, <1>5, <1>6
  <2> QED
    BY <2>1, <2>2, EmptySeq
<1>8. gotKlineEcho = TRUE \/ Head(s) # b
  BY <1>2, <1>3 DEF EchoFirst, Linked
<1>9. b \in Requests
  BY <1>1, <1>2 DEF Exchange
<1>10. Echo /\ gotKlineEcho = TRUE
  <2>1. CASE Echo
    BY <2>1, <1>1, <1>2, <1>7, <1>8 DEF Exchange
  <2>2. CASE ~Echo
    <3>1. w \in Replies(b) /\ ~gotKlineEcho
      BY <2>2, <1>1, <1>2, <1>7 DEF Exchange, Rest
    <3>2. w[1] = b
      BY <3>1, <1>9, ReplyIs
    <3> QED
      BY <3>1, <3>2, <1>7, <1>8
  <2> QED
    BY <2>1, <2>2
<1>11. w \in Replies(b) /\ Answered
  BY <1>1, <1>2, <1>7, <1>10 DEF Exchange, Rest
<1>12. w[1] = b
  BY <1>9, <1>11, ReplyIs
<1>13. Len(s) = Len(w)
  <2>1. Len(s) <= Len(w) /\ (\A i \in 1 .. Len(s) : s[i] = w[i]) /\ s # <<>> /\ Complete(s)
    BY <1>1, <1>3, <1>4, <1>6
  <2> QED
    BY <2>1, <1>9, <1>11, ReplyIs
<1>14. n = 0
  BY <1>4, <1>6, <1>13
<1>15. line = <<>>
  BY <1>3, <1>4, <1>14, EmptySeq
<1> QED
  BY <1>2, <1>3, <1>7, <1>9, <1>10, <1>11, <1>12, <1>15

\* The next request continues the handshake, or is no part of it.
LEMMA NextIsNext ==
  ASSUME NEW b \in Requests, userCommand \in Slots
  PROVE  /\ NextCommand(b) \in Requests
         /\ \A k \in 0 .. 3 : <<k, NextCommand(b)>> \in Walk => k > 0 /\ <<k - 1, b>> \in Walk
<1>1. UserCommands \cap Protocol = {}
  BY ParametersAssumption
<1>2. CASE userCommand \in UserCommands
  <2>1. NextCommand(b) = userCommand
    BY <1>2 DEF NextCommand
  <2>2. \A k \in 0 .. 3 : <<k, userCommand>> \notin Walk
    BY <1>1, <1>2 DEF Walk, Protocol
  <2> QED
    BY <1>2, <2>1, <2>2 DEF Requests
<1>3. CASE userCommand \notin UserCommands
  <2>1. NextCommand(b) = NextInWalk(b)
    BY <1>3 DEF NextCommand
  <2>2. \/ b = CA /\ NextInWalk(b) = S75
        \/ b = S75 /\ NextInWalk(b) = F4
        \/ b = F4 /\ NextInWalk(b) = D0
        \/ NextInWalk(b) \in {D80, D7D}
    BY DEF NextInWalk, CA, S75, F4, D0, D80, D7D
  <2>3. NextInWalk(b) \in Requests
    BY <2>2 DEF Requests, Protocol
  <2>4. \A k \in 0 .. 3 : <<k, NextInWalk(b)>> \in Walk => k > 0 /\ <<k - 1, b>> \in Walk
    BY <2>2 DEF Walk, CA, S75, F4, D0, D80, D7D
  <2> QED
    BY <2>1, <2>3, <2>4
<1> QED
  BY <1>2, <1>3

\* A transmission on a quiet wire: the echo, and a request for the ECU.
LEMMA SendLinks ==
  ASSUME NEW d \in Requests, Send(d), line = <<>>, ecuInbox = <<>>, buffer' = <<>>, pc' = "read",
         UNCHANGED <<ecuOn, ecuStage>>, Echo \/ d = CA,
         \A k \in 0 .. 3 : <<k, d>> \in Walk => ecuStage = k
  PROVE  Linked'
<1>1. d \in Byte
  BY ParametersAssumption DEF Requests, Protocol, Byte, CA, S75, F4, D0, D80, D7D
<1>2. /\ gotKlineEcho' = FALSE /\ lastKlineByte' = d
      /\ line' = IF Echo THEN <<d>> ELSE <<>>
      /\ ecuInbox' = IF ecuOn THEN <<d>> ELSE <<>>
  BY DEF Send
<1>3. line' \in Seq(Byte) /\ buffer' \in Seq(Byte)
  BY <1>1, <1>2
<1>4. Wire' = line'
  BY <1>3, ConcatEmptySeq DEF Wire
<1>5. Echo => Wire' # <<>> /\ Wire'[1] = d /\ Tail(Wire') = <<>>
  BY <1>2, <1>4
<1>6. Rest' = <<>>
  BY <1>2, <1>4, <1>5 DEF Rest
<1>7. Unanswered'
  BY <1>2 DEF Unanswered
<1>8. Exchange'
  BY <1>2, <1>5, <1>6, <1>7 DEF Exchange
<1> QED
  BY <1>2, <1>3, <1>8 DEF Linked

\* The loop's answer to a reply.
LEMMA AnswerLinks ==
  ASSUME Linked, userCommand \in Slots, pc = "handle", ~EchoFirst, Complete(buffer),
         Answer(Head(buffer)), UNCHANGED <<ecuOn, ecuStage>>
  PROVE  Linked'
<1>1. /\ Echo /\ line = <<>> /\ Head(buffer) = lastKlineByte
      /\ lastKlineByte \in Requests /\ Answered
  BY TurnIsTheLoops
<1> DEFINE d == NextCommand(lastKlineByte)
<1>2. /\ d \in Requests
      /\ \A k \in 0 .. 3 : <<k, d>> \in Walk => k > 0 /\ <<k - 1, lastKlineByte>> \in Walk
  BY <1>1, NextIsNext
<1>3. Send(d) /\ buffer' = <<>> /\ pc' = "read"
  BY <1>1 DEF Answer
<1> HIDE DEF d
<1>4. ASSUME NEW k \in 0 .. 3, <<k, d>> \in Walk PROVE ecuStage = k
  <2>1. k - 1 \in 0 .. 3 /\ <<k - 1, lastKlineByte>> \in Walk
    BY <1>2, <1>4
  <2>2. ecuStage = k - 1 + 1
    BY <2>1, <1>1 DEF Answered
  <2> QED
    BY <2>2
<1>5. ecuInbox = <<>>
  BY <1>1 DEF Answered
<1> QED
  BY <1>1, <1>2, <1>3, <1>4, <1>5, SendLinks

\* The tail of two sequences is the tail of the first and the second.
LEMMA TailOfConcat ==
  ASSUME NEW s \in Seq(Byte), s # <<>>, NEW t \in Seq(Byte)
  PROVE  /\ Tail(s \o t) = Tail(s) \o t /\ Tail(s) \in Seq(Byte)
         /\ (s \o t)[1] = s[1] /\ s \o t # <<>>
<1>1. PICK m \in Nat, n \in Nat : m = Len(s) /\ n = Len(t)
  BY LenProperties
<1>2. m >= 1
  BY <1>1, EmptySeq
<1> DEFINE h == Tail(s)
           w == s \o t
           u == Tail(w)
           v == h \o t
<1>3. h \in Seq(Byte) /\ Len(h) = m - 1 /\ \A i \in 1 .. m - 1 : h[i] = s[i + 1]
  <2>1. /\ h \in Seq(Byte) /\ Len(h) = Len(s) - 1
        /\ \A i \in 1 .. Len(h) : h[i] = s[i + 1]
    BY HeadTailProperties
  <2> HIDE DEF h
  <2> QED
    BY <2>1, <1>1
<1>4. /\ w \in Seq(Byte) /\ Len(w) = m + n
      /\ \A i \in 1 .. m : w[i] = s[i]
      /\ \A i \in 1 .. n : w[m + i] = t[i]
  BY <1>1, InFront
<1> HIDE DEF h, w
<1>5. Len(w) # 0 /\ w # <<>>
  <2>1. Len(w) # 0
    BY <1>2, <1>4
  <2> QED
    BY <2>1, EmptySeq
<1>6. /\ u \in Seq(Byte) /\ Len(u) = m + n - 1
      /\ \A i \in 1 .. m + n - 1 : u[i] = w[i + 1]
  <2>1. /\ u \in Seq(Byte) /\ Len(u) = Len(w) - 1
        /\ \A i \in 1 .. Len(u) : u[i] = w[i + 1]
    BY <1>4, <1>5, HeadTailProperties
  <2> HIDE DEF u
  <2> QED
    BY <2>1, <1>4
<1>7. /\ v \in Seq(Byte) /\ Len(v) = m - 1 + n
      /\ \A i \in 1 .. m - 1 : v[i] = h[i]
      /\ \A i \in 1 .. n : v[m - 1 + i] = t[i]
  <2>1. /\ v \in Seq(Byte) /\ Len(v) = Len(h) + Len(t)
        /\ \A i \in 1 .. Len(h) : v[i] = h[i]
        /\ \A i \in 1 .. Len(t) : v[Len(h) + i] = t[i]
    BY <1>3, InFront
  <2> HIDE DEF v
  <2> QED
    BY <2>1, <1>1, <1>3
<1> HIDE DEF u, v
<1>8. Len(u) = Len(v)
  BY <1>2, <1>3, <1>6, <1>7
<1>9. ASSUME NEW i \in 1 .. Len(u) PROVE u[i] = v[i]
  <2>1. i \in Nat /\ i >= 1 /\ i <= m + n - 1
    BY <1>2, <1>6
  <2>2. CASE i <= m - 1
    <3>1. i \in 1 .. m - 1 /\ i + 1 \in 1 .. m /\ i \in 1 .. m + n - 1
      BY <2>1, <2>2, <1>2
    <3> QED
      BY <3>1, <1>3, <1>4, <1>6, <1>7
  <2>3. CASE i > m - 1
    <3>1. PICK k \in 1 .. n : i = m - 1 + k
      <4>1. i - (m - 1) \in 1 .. n /\ i = m - 1 + (i - (m - 1))
        BY <2>1, <2>3, <1>2
      <4> QED
        BY <4>1
    <3>2. i + 1 = m + k
      BY <3>1, <1>1
    <3>3. u[i] = w[m + k]
      BY <2>1, <3>2, <1>6
    <3>4. w[m + k] = t[k] /\ v[i] = t[k]
      BY <3>1, <1>4, <1>7
    <3> QED
      BY <3>3, <3>4
  <2> QED
    BY <2>1, <2>2, <2>3, <1>1
<1>10. u = v
  BY <1>6, <1>7, <1>8, <1>9, SeqEqual
<1>11. w[1] = s[1]
  BY <1>2, <1>4
<1> QED
  BY <1>3, <1>5, <1>10, <1>11 DEF h, w, u, v

\* Steps of the handshake up to the challenge.
LEMMA GreetingTurns ==
  ASSUME TakeTurns, pc \in Connecting, pc' \in Greeting,
         UNCHANGED <<gotKlineEcho, state, ecu>>
  PROVE  TakeTurns'
BY DEF TakeTurns, Connecting, Greeting, Truths, state, ecu

\* The session has ended.
LEMMA EndTurns ==
  ASSUME TakeTurns, pc' \in Ended, UNCHANGED <<state, ecu>>
  PROVE  TakeTurns'
BY DEF TakeTurns, Connecting, Ended, Truths, state, ecu

\* The challenge is no acknowledgement, and there is nothing else on the wire.
LEMMA ChallengeTurns ==
  ASSUME HandshakeInv, lost = 0, TakeTurns, 255 - Acknowledge \notin Keywords, SendChallenge
  PROVE  TakeTurns'
<1>1. /\ pc = "w4" /\ pc' = "acknowledge" /\ buffer' = <<>>
      /\ line' = IF Echo THEN Append(line, challenge) ELSE line
      /\ wake' = IF wake = "woken" /\ challenge = 255 - keyword THEN "challenged" ELSE wake
      /\ UNCHANGED <<gotKlineEcho, state, ecu>>
  BY DEF SendChallenge
<1>2. /\ ecuInbox' = <<>> /\ ecuStage' = 0 /\ gotKlineEcho' = FALSE /\ Truths'
  BY <1>1 DEF TakeTurns, Connecting, Truths, state, ecu
<1>3. CASE wake = "asleep"
  BY <1>1, <1>2, <1>3 DEF TakeTurns
<1>4. CASE wake = "woken" /\ line = <<>> /\ keyword \in Keywords /\ challenge = 255 - keyword
  <2>1. challenge \in Byte /\ challenge # Acknowledge
    <3>1. keyword \in Byte /\ keyword # 255 - Acknowledge
      BY <1>4, WakeUpAssumption
    <3> QED
      BY <3>1, <1>4 DEF Byte, Acknowledge
  <2>2. line' \in {<<>>, <<challenge>>}
    BY <1>1, <1>4
  <2>3. line' \in Seq(Byte) /\ buffer' \in Seq(Byte)
    <3>1. <<>> \in Seq(Byte) /\ <<challenge>> \in Seq(Byte)
      BY <2>1, EmptySeq
    <3> QED
      BY <1>1, <2>2, <3>1
  <2>4. Wire' = line'
    BY <1>1, <2>3, ConcatEmptySeq DEF Wire
  <2>5. \A i \in 1 .. Len(Wire') : Wire'[i] # Acknowledge
    BY <2>1, <2>2, <2>4
  <2>6. Unacknowledged'
    BY <2>3, <2>5 DEF Unacknowledged
  <2> QED
    BY <1>1, <1>2, <1>4, <2>6 DEF TakeTurns
<1> QED
  BY <1>1, <1>3, <1>4 DEF HandshakeInv

\* What is read before the ECU acknowledges does not look like it.
LEMMA AcknowledgeTurns ==
  ASSUME TakeTurns, ReadAcknowledge PROVE TakeTurns'
<1>1. /\ pc = "acknowledge" /\ pc' \in {"acknowledge", "drain"}
      /\ UNCHANGED <<gotKlineEcho, state, ecu, wake>>
  BY DEF ReadAcknowledge, wakeVars
<1>2. /\ ecuInbox' = <<>> /\ ecuStage' = 0 /\ gotKlineEcho' = FALSE /\ Truths'
  BY <1>1 DEF TakeTurns, Connecting, Truths, state, ecu
<1>3. CASE wake \in {"asleep", "open"}
  BY <1>1, <1>2, <1>3 DEF TakeTurns
<1>4. CASE wake = "challenged" /\ Unacknowledged
  <2>1. buffer \in Seq(Byte) /\ line \in Seq(Byte)
    BY <1>4 DEF Unacknowledged
  <2>2. PICK n \in 1 .. Len(line) :
          /\ buffer' = Stripped(buffer \o SubSeq(line, 1, n))
          /\ line' = SubSeq(line, n + 1, Len(line))
    BY DEF ReadAcknowledge
  <2>3. buffer' \in Seq(Byte) /\ line' \in Seq(Byte) /\ Follows(Wire, Wire')
    BY <2>1, <2>2, HandshakeRead DEF Wire
  <2>4. PICK b \in Seq(Byte), t \in Seq(Byte) : b = buffer' /\ t = line'
    BY <2>3
  <2> DEFINE v == b \o t
             w == Wire
  <2>5. /\ v \in Seq(Byte) /\ Len(v) = Len(b) + Len(t) /\ Len(b) \in Nat /\ Len(t) \in Nat
        /\ \A i \in 1 .. Len(b) : v[i] = b[i]
    BY InFront
  <2>6. w \in Seq(Byte) /\ Len(w) \in Nat
    BY <2>1, InFront, LenProperties DEF Wire
  <2>7. v = Wire'
    BY <2>4 DEF Wire
  <2> HIDE DEF v
  <2>8. PICK c \in 0 .. Len(w) : Len(v) = Len(w) - c /\ \A i \in 1 .. Len(v) : v[i] = w[i + c]
    BY <2>3, <2>7 DEF Follows
  <2>9. \A i \in 1 .. Len(v) : i + c \in 1 .. Len(w)
    BY <2>5, <2>6, <2>8
  <2>10. \A i \in 1 .. Len(v) : v[i] # Acknowledge
    BY <1>4, <2>8, <2>9 DEF Unacknowledged
  <2>11. Unacknowledged'
    BY <2>3, <2>7, <2>10 DEF Unacknowledged
  <2>12. \A i \in 1 .. Len(b) : b[i] # Acknowledge
    BY <2>5, <2>10
  <2>13. \A i \in DOMAIN buffer' : buffer'[i] # Acknowledge
    <3>1. DOMAIN b = 1 .. Len(b)
      BY LenProperties
    <3> QED
      BY <2>4, <2>12, <3>1
  <2>14. pc' = "acknowledge"
    BY <1>1, <2>13 DEF ReadAcknowledge
  <2> QED
    BY <1>1, <1>2, <1>4, <2>11, <2>14 DEF TakeTurns
<1> QED
  BY <1>1, <1>3, <1>4 DEF TakeTurns

\* An ECU that was waited for in vain sleeps.
LEMMA DeadlineTurns ==
  ASSUME HandshakeInv, lost = 0, TakeTurns, AcknowledgeDeadline \/ HandshakeFails, lost' = 0
  PROVE  TakeTurns'
<1>1. /\ pc \in {"keywords", "w4", "acknowledge"} /\ pc' = "drain"
      /\ wake' = IF wake \in {"addressed", "challenged"} THEN "asleep" ELSE wake
      /\ UNCHANGED <<gotKlineEcho, state, ecu>>
  BY DEF AcknowledgeDeadline, HandshakeFails, Deadline
<1>2. wake \in {"asleep", "addressed", "woken", "challenged", "open"}
  BY <1>1 DEF HandshakeInv, TakeTurns
<1> QED
  BY <1>1, <1>2 DEF TakeTurns, Connecting, Truths, state, ecu

\* What is left is dropped.
LEMMA HandOverTurns ==
  ASSUME TakeTurns, HandOver PROVE TakeTurns'
BY DEF TakeTurns, HandOver, Connecting, Truths, state, ecu

\* The first byte.
LEMMA StartTurns ==
  ASSUME TakeTurns, Start, UNCHANGED wakeVars PROVE TakeTurns'
<1>1. /\ pc = "init" /\ pc' = "read" /\ Send(CA)
      /\ UNCHANGED <<buffer, state, ecuStage, ecuOn, executed, wake>>
  BY DEF Start, wakeVars
<1>2. /\ ecuInbox = <<>> /\ ecuStage = 0 /\ buffer = <<>> /\ line = <<>>
      /\ wake \in {"asleep", "woken", "open"} /\ Truths
  BY <1>1 DEF TakeTurns, Connecting
<1>3. CA \in Requests
  BY DEF Requests, Protocol
<1>4. \A k \in 0 .. 3 : <<k, CA>> \in Walk => ecuStage = k
  BY <1>2 DEF Walk, CA, S75, F4, D0
<1>5. Linked'
  BY <1>1, <1>2, <1>3, <1>4, SendLinks
<1>6. Truths'
  BY <1>1, <1>2 DEF Truths, state
<1> QED
  BY <1>1, <1>2, <1>5, <1>6 DEF TakeTurns, Connecting

\* The loop reads a part of what has arrived.
LEMMA ReadTurns ==
  ASSUME TakeTurns, Read, UNCHANGED wakeVars PROVE TakeTurns'
<1>1. /\ pc = "read" /\ pc' = IF buffer' = <<>> THEN "read" ELSE "handle"
      /\ UNCHANGED <<gotKlineEcho, lastKlineByte, state, ecu, wake>>
  BY DEF Read, wakeVars
<1>2. /\ wake \in {"asleep", "woken", "open"} /\ Linked /\ Truths
  BY <1>1 DEF TakeTurns
<1>3. PICK n \in 0 .. Len(line) :
        buffer' = buffer \o SubSeq(line, 1, n) /\ line' = SubSeq(line, n + 1, Len(line))
  BY DEF Read
<1>4. buffer' \in Seq(Byte) /\ line' \in Seq(Byte) /\ Wire' = Wire
  BY <1>2, <1>3, ReadingMoves DEF Linked, Wire
<1>5. Silent => Silent'
  <2> SUFFICES ASSUME Silent PROVE Silent'
    OBVIOUS
  <2>1. Wire' = <<>>
    BY <1>2, <1>4, ConcatEqualIffEmpty DEF Silent, Linked, Wire
  <2>2. buffer' = <<>> /\ line' = <<>>
    BY <1>4, <2>1, ConcatEqualIffEmpty DEF Wire
  <2> QED
    BY <1>1, <2>2 DEF Silent, ecu
<1>6. Exchange => Exchange'
  BY <1>1, <1>4 DEF Exchange, Rest, Unanswered, Answered, ecu
<1>7. Linked'
  BY <1>1, <1>2, <1>4, <1>5, <1>6 DEF Linked
<1>8. Truths'
  BY <1>1, <1>2 DEF Truths, state, ecu
<1> QED
  BY <1>1, <1>2, <1>7, <1>8 DEF TakeTurns, Connecting

\* The echo, or what is taken for one, is taken off.
LEMMA EchoTurns ==
  ASSUME TakeTurns, ConsumeEcho, UNCHANGED wakeVars PROVE TakeTurns'
<1>1. /\ pc = "handle" /\ pc' = "read" /\ EchoFirst /\ gotKlineEcho' = TRUE
      /\ buffer' = Tail(buffer)
      /\ UNCHANGED <<lastKlineByte, state, ecu, wake, line>>
  BY DEF ConsumeEcho, wakeVars
<1>2. /\ wake \in {"asleep", "woken", "open"} /\ Linked /\ Truths
  BY <1>1 DEF TakeTurns
<1>3. buffer \in Seq(Byte) /\ line \in Seq(Byte) /\ buffer # <<>> /\ Exchange /\ ~gotKlineEcho
  BY <1>1, <1>2 DEF Linked, Silent, EchoFirst
<1>4. buffer' \in Seq(Byte) /\ Wire' = Tail(Wire) /\ Wire # <<>> /\ Wire \in Seq(Byte)
  <2>1. Tail(buffer \o line) = Tail(buffer) \o line /\ Tail(buffer) \in Seq(Byte)
    BY <1>3, TailOfConcat
  <2>2. buffer \o line # <<>> /\ buffer \o line \in Seq(Byte)
    BY <1>3, ConcatEqualIffEmpty, ConcatProperties
  <2> QED
    BY <2>1, <2>2, <1>1 DEF Wire
<1>5. ASSUME Echo PROVE Linked'
  <2>1. Rest' = Rest
    BY <1>1, <1>3, <1>4, <1>5 DEF Rest
  <2>2. Exchange'
    BY <1>1, <1>3, <1>5, <2>1 DEF Exchange, Unanswered, Answered, ecu
  <2> QED
    BY <1>1, <1>4, <1>3, <2>2 DEF Linked
<1>6. ASSUME ~Echo PROVE Linked'
  <2>1. lastKlineByte = CA /\ Wire \in Replies(CA) /\ ecuInbox = <<>>
    BY <1>3, <1>4, <1>6 DEF Exchange, Rest, Answered
  <2>2. Wire = <<CA>>
    <3>1. CA \notin {F4, D0, D80, D7D}
      BY DEF CA, F4, D0, D80, D7D
    <3> QED
      BY <2>1, <3>1 DEF Replies
  <2>3. Tail(Wire) = <<>>
    BY <2>2
  <2>4. buffer' = <<>> /\ line' = <<>>
    BY <1>1, <1>3, <1>4, <2>3, ConcatEqualIffEmpty DEF Wire
  <2> QED
    BY <1>1, <1>3, <1>4, <1>6, <2>1, <2>4 DEF Linked, Silent, ecu
<1>7. Linked'
  BY <1>5, <1>6
<1>8. Truths'
  BY <1>1, <1>2 DEF Truths, state, ecu
<1> QED
  BY <1>1, <1>2, <1>7, <1>8 DEF TakeTurns, Connecting

\* The loop acts on a reply: what it tells the dashboard is so, and it is its turn.
LEMMA ReplyTurns ==
  ASSUME TakeTurns, userCommand \in Slots, UNCHANGED wakeVars,
         CommandAccepted \/ HandshakeReply \/ Identified \/ DataFrame
  PROVE  TakeTurns'
<1>1. /\ pc = "handle" /\ ~EchoFirst /\ Complete(buffer) /\ Answer(Head(buffer))
      /\ UNCHANGED <<ecuStage, ecuOn, executed, wake>>
      /\ connected' = connected \/ Head(buffer) = D0
      /\ alert' = alert \/ (Head(buffer) \in UserCommands /\ alert' = Head(buffer))
  BY DEF CommandAccepted, HandshakeReply, Identified, DataFrame, wakeVars
<1>2. /\ wake \in {"asleep", "woken", "open"} /\ Linked /\ Truths
  BY <1>1 DEF TakeTurns
<1>3. Linked' /\ pc' = "read"
  BY <1>1, <1>2, AnswerLinks DEF Answer
<1>4. Head(buffer) = lastKlineByte /\ Answered
  BY <1>1, <1>2, TurnIsTheLoops
<1>5. Head(buffer) = D0 => ecuStage = 4
  <2>1. <<3, D0>> \in Walk /\ 3 \in 0 .. 3
    BY DEF Walk
  <2> QED
    BY <1>4, <2>1 DEF Answered
<1>6. Head(buffer) \in UserCommands => executed[Head(buffer)] > 0
  BY <1>4 DEF Answered
<1>7. Truths'
  BY <1>1, <1>2, <1>5, <1>6 DEF Truths
<1> QED
  BY <1>1, <1>2, <1>3, <1>7 DEF TakeTurns, Connecting

\* The ECU answers what it was asked.
LEMMA EcuTurns ==
  ASSUME TakeTurns, CommandInv, OpenEcuAnswers PROVE TakeTurns'
<1>1. /\ ecuOn /\ ecuInbox # <<>> /\ ecuInbox' = Tail(ecuInbox)
      /\ ecuStage' = StageAfter(ecuStage, Head(ecuInbox))
      /\ executed' = IF Head(ecuInbox) \in UserCommands
                     THEN [executed EXCEPT ![Head(ecuInbox)] = @ + 1] ELSE executed
      /\ UNCHANGED <<agent, state, ecuOn, wake>>
  BY DEF OpenEcuAnswers, EcuAnswers, wakeVars
<1>2. pc \notin Connecting
  BY <1>1 DEF TakeTurns
<1>3. Truths'
  <2>1. connected => ecuStage' = 4
    BY <1>1 DEF TakeTurns, Truths, StageAfter
  <2>2. \A c \in UserCommands : executed[c] > 0 => executed'[c] > 0
    BY <1>1 DEF CommandInv, CommandTypes
  <2> QED
    BY <1>1, <2>1, <2>2 DEF TakeTurns, Truths, state
<1>4. ASSUME Linked PROVE Linked'
  <2>1. buffer \in Seq(Byte) /\ line \in Seq(Byte) /\ Exchange
    BY <1>1, <1>4 DEF Linked, Silent
  <2>2. PICK b \in Requests : b = lastKlineByte
    BY <2>1 DEF Exchange
  <2>3. Rest = <<>> /\ Unanswered
    BY <1>1, <2>1 DEF Exchange, Answered
  <2>4. Head(ecuInbox) = b /\ Tail(ecuInbox) = <<>>
    <3>1. ecuInbox = <<b>>
      BY <1>1, <2>2, <2>3 DEF Unanswered
    <3> QED
      BY <3>1
  <2>5. PICK r \in Replies(b) : line' = line \o r
    BY <2>4 DEF OpenEcuAnswers, EcuAnswers
  <2>6. r \in Seq(Byte)
    BY ReplyIs
  <2>7. /\ line' \in Seq(Byte) /\ buffer' = buffer /\ Wire \in Seq(Byte)
        /\ Wire' = Wire \o r
    <3>1. line \o r \in Seq(Byte) /\ buffer \o line \in Seq(Byte)
      BY <2>1, <2>6, ConcatProperties
    <3>2. (buffer \o line) \o r = buffer \o (line \o r)
      BY <2>1, <2>6, ConcatAssociative
    <3> QED
      BY <1>1, <2>5, <3>1, <3>2 DEF Wire, agent
  <2>8. Echo /\ ~gotKlineEcho => Wire' # <<>> /\ Wire'[1] = b /\ Tail(Wire') = r
    <3> SUFFICES ASSUME Echo, ~gotKlineEcho PROVE Wire' # <<>> /\ Wire'[1] = b /\ Tail(Wire') = r
      OBVIOUS
    <3>1. Wire # <<>> /\ Wire[1] = b /\ Tail(Wire) = <<>>
      BY <2>1, <2>2, <2>3 DEF Exchange, Rest
    <3>2. Tail(Wire \o r) = Tail(Wire) \o r /\ (Wire \o r)[1] = Wire[1] /\ Wire \o r # <<>>
      BY <2>6, <2>7, <3>1, TailOfConcat
    <3> QED
      BY <2>6, <2>7, <3>1, <3>2, ConcatEmptySeq
  <2>9. Rest' = r
    <3>1. CASE Echo /\ ~gotKlineEcho
      BY <1>1, <2>8, <3>1 DEF Rest, agent
    <3>2. CASE ~(Echo /\ ~gotKlineEcho)
      <4>1. Wire = <<>>
        BY <2>3, <3>2 DEF Rest
      <4>2. Wire' = r
        BY <2>6, <2>7, <4>1, ConcatEmptySeq
      <4> QED
        BY <1>1, <3>2, <4>2 DEF Rest, agent
    <3> QED
      BY <3>1, <3>2
  <2>10. ASSUME NEW k \in 0 .. 3, <<k, b>> \in Walk PROVE ecuStage' = k + 1
    <3>1. ecuStage = k
      BY <2>2, <2>3, <2>10 DEF Unanswered
    <3> QED
      BY <1>1, <2>4, <2>10, <3>1 DEF StageAfter, Walk
  <2>11. b \in UserCommands => executed'[b] > 0
    BY <1>1, <2>4 DEF CommandInv, CommandTypes
  <2>12. Answered'
    BY <1>1, <2>2, <2>4, <2>10, <2>11 DEF Answered, agent
  <2>13. Exchange'
    BY <1>1, <2>1, <2>2, <2>5, <2>8, <2>9, <2>12 DEF Exchange, agent
  <2> QED
    BY <1>1, <1>4, <2>7, <2>13 DEF Linked, agent
<1> QED
  BY <1>1, <1>2, <1>3, <1>4 DEF TakeTurns, Connecting, agent

\* The ignition is turned off.
LEMMA OffTurns ==
  ASSUME TakeTurns, EcuGoesOff PROVE TakeTurns'
<1>1. /\ wake' = "asleep" /\ ecuOn' = FALSE /\ ecuInbox' = <<>>
      /\ UNCHANGED <<agent, state, ecuStage, executed, line>>
  BY DEF EcuGoesOff, IgnitionOff
<1>2. Exchange => Exchange'
  BY <1>1 DEF Exchange, Rest, Wire, Unanswered, Answered, agent
<1>3. Linked => Linked'
  BY <1>1, <1>2 DEF Linked, Silent, agent
<1> QED
  BY <1>1, <1>3 DEF TakeTurns, Connecting, Truths, agent, state

linkVars == <<agent, connected, alert, ecu, line, wake>>

\* Steps that touch nothing the invariant is about.
LEMMA QuietTurns ==
  ASSUME TakeTurns, UNCHANGED linkVars PROVE TakeTurns'
<1>1. Linked => Linked'
  BY DEF linkVars, Linked, Silent, Exchange, Rest, Wire, Unanswered, Answered, agent, ecu
<1>2. Unacknowledged => Unacknowledged'
  BY DEF linkVars, Unacknowledged, Wire, agent
<1> QED
  BY <1>1, <1>2 DEF TakeTurns, Connecting, Truths, linkVars, agent, ecu

\* Every step that loses nothing.
LEMMA TurnStep ==
  ASSUME HandshakeInv, CommandInv, lost = 0, TakeTurns, lost' = 0, [Next19]_vars19,
         255 - Acknowledge \notin Keywords
  PROVE  TakeTurns'
<1>1. CASE Connect
  <2>1. CASE Open \/ SendAddress \/ ReadKeywords \/ KeywordsDeadline
    <3>1. pc \in Connecting /\ pc' \in Greeting /\ UNCHANGED <<gotKlineEcho, state, ecu>>
      BY <2>1 DEF Open, SendAddress, ReadKeywords, KeywordsDeadline, Connecting, Greeting
    <3> QED
      BY <3>1, GreetingTurns
  <2>2. CASE SendChallenge
    BY <2>2, ChallengeTurns
  <2>3. CASE ReadAcknowledge
    BY <2>3, AcknowledgeTurns
  <2>4. CASE AcknowledgeDeadline
    BY <2>4, DeadlineTurns
  <2>5. CASE HandOver
    BY <2>5, HandOverTurns
  <2> QED
    BY <1>1, <2>1, <2>2, <2>3, <2>4, <2>5 DEF Connect
<1>2. CASE HandshakeFails
  BY <1>2, DeadlineTurns
<1>3. CASE ConnectFails
  <2>1. pc' \in Ended /\ UNCHANGED <<state, ecu>>
    BY <1>3 DEF ConnectFails, Ended
  <2> QED
    BY <2>1, EndTurns
<1>4. CASE Loop /\ UNCHANGED wakeVars
  <2>1. CASE Start
    BY <1>4, <2>1, StartTurns
  <2>2. CASE Read
    BY <1>4, <2>2, ReadTurns
  <2>3. CASE Timeout \/ Cancelled
    <3>1. pc' \in Ended /\ UNCHANGED <<state, ecu>>
      BY <2>3 DEF Timeout, Cancelled, Ended
    <3> QED
      BY <3>1, EndTurns
  <2>4. CASE ConsumeEcho
    BY <1>4, <2>4, EchoTurns
  <2>5. CASE CommandAccepted \/ HandshakeReply \/ Identified \/ DataFrame
    BY <1>4, <2>5, ReplyTurns DEF CommandInv, CommandTypes
  <2>6. CASE AwaitMore
    <3>1. /\ pc = "handle" /\ pc' = "read"
          /\ UNCHANGED <<buffer, gotKlineEcho, lastKlineByte, state, ecu, line, wake>>
      BY <1>4, <2>6 DEF AwaitMore, wakeVars
    <3>2. Linked => Linked'
      BY <3>1 DEF Linked, Silent, Exchange, Rest, Wire, Unanswered, Answered, ecu
    <3> QED
      BY <3>1, <3>2 DEF TakeTurns, Connecting, Truths, state, ecu
  <2> QED
    BY <1>4, <2>1, <2>2, <2>3, <2>4, <2>5, <2>6 DEF Loop
<1>5. CASE Surroundings /\ UNCHANGED wakeVars
  <2>1. CASE ReadFails
    <3>1. pc' \in Ended /\ UNCHANGED <<state, ecu>>
      BY <2>1 DEF ReadFails, Ended
    <3> QED
      BY <3>1, EndTurns
  <2>2. CASE Shutdown \/ \E c \in UserCommands \cup {UnknownCommand} : SetUserCommand(c)
    <3>1. UNCHANGED linkVars
      BY <1>5, <2>2 DEF Shutdown, SetUserCommand, linkVars, state, wakeVars
    <3> QED
      BY <3>1, QuietTurns
  <2>3. CASE LoseByte
    <3>1. lost' = lost + 1
      BY <2>3 DEF LoseByte
    <3> QED
      BY <3>1
  <2> QED
    BY <1>5, <2>1, <2>2, <2>3 DEF Surroundings
<1>6. CASE EcuSendsKeywords \/ EcuAcknowledges
  <2>1. /\ \/ wake = "addressed" /\ wake' = "woken"
           \/ wake = "challenged" /\ wake' = "open"
        /\ UNCHANGED <<agent, state, ecu>>
    BY <1>6 DEF EcuSendsKeywords, EcuAcknowledges
  <2>2. pc \notin {"drain", "init", "read", "handle"} /\ (pc = "acknowledge" => wake' = "open")
    BY <2>1 DEF TakeTurns
  <2> QED
    BY <2>1, <2>2 DEF TakeTurns, Connecting, Truths, agent, state, ecu
<1>7. CASE OpenEcuAnswers
  BY <1>7, EcuTurns
<1>8. CASE EcuGoesOff
  BY <1>8, OffTurns
<1>9. CASE UNCHANGED vars19
  <2>1. UNCHANGED linkVars
    BY <1>9 DEF vars19, vars, linkVars, state, wakeVars
  <2> QED
    BY <2>1, QuietTurns
<1> QED
  BY <1>1, <1>2, <1>3, <1>4, <1>5, <1>6, <1>7, <1>8, <1>9 DEF Next19

\* The wire never gets back what it has lost.
LEMMA LossesStay ==
  ASSUME lost \in Nat, [Next19]_vars19 PROVE lost' \in {lost, lost + 1}
BY DEF Next19, Connect, Open, SendAddress, ReadKeywords, KeywordsDeadline, SendChallenge,
     ReadAcknowledge, AcknowledgeDeadline, HandOver, Deadline, ConnectFails, HandshakeFails, Loop,
     Start, Read, Timeout, Cancelled, ConsumeEcho, CommandAccepted, HandshakeReply, Identified,
     DataFrame, AwaitMore, Surroundings, ReadFails, Shutdown, LoseByte, SetUserCommand,
     EcuSendsKeywords, EcuAcknowledges, OpenEcuAnswers, EcuAnswers, EcuGoesOff, IgnitionOff,
     vars19, vars

\* Every step of session, ECU, wire and user keeps the turns.
LEMMA LinkStep ==
  ASSUME 255 - Acknowledge \notin Keywords, Sync \notin Junk
  PROVE  LinkInv /\ [Next19]_vars19 => LinkInv'
<1> SUFFICES ASSUME LinkInv, [Next19]_vars19 PROVE LinkInv'
  OBVIOUS
<1>1. HandshakeInv' /\ CommandInv'
  BY HandshakeStep, CommandStep DEF LinkInv
<1>2. ASSUME lost' = 0 PROVE TakeTurns'
  <2>1. lost = 0
    BY <1>2, LossesStay DEF LinkInv, HandshakeInv
  <2> QED
    BY <1>2, <2>1, TurnStep DEF LinkInv
<1> QED
  BY <1>1, <1>2 DEF LinkInv

\* "Strictly request/response": on a wire that has lost nothing, the loop sends
\* only when the ECU has nothing to answer and nothing it said is on the wire,
\* for any commands and frame sizes, any junk without a sync byte, and any
\* keywords but one.  The complement of that keyword is the acknowledgement
\* itself: the session takes its own echo for the ECU's, and starts the loop
\* while the ECU has yet to acknowledge.
THEOREM NeverOverTheEcu ==
  ASSUME 255 - Acknowledge \notin Keywords, Sync \notin Junk
  PROVE  Spec19 => NeverTalksOverTheEcu
<1>1. ASSUME LinkInv, [Next19]_vars19, lost = 0, Len(ecuInbox') > Len(ecuInbox)
      PROVE  ecuInbox = <<>> /\ line = <<>>
  <2>1. ecuInbox \in Seq(Byte) /\ TakeTurns
    BY <1>1 DEF LinkInv, CommandInv, CommandTypes
  <2>2. ecuInbox' # ecuInbox /\ ecuInbox' # <<>> /\ (ecuInbox # <<>> => ecuInbox' # Tail(ecuInbox))
    <3>1. Len(ecuInbox) \in Nat /\ (ecuInbox # <<>> => Len(Tail(ecuInbox)) = Len(ecuInbox) - 1)
      BY <2>1, LenProperties, HeadTailProperties
    <3>2. Len(<<>>) = 0
      BY EmptySeq
    <3> QED
      BY <1>1, <3>1, <3>2
  <2>3. CASE Start
    <3>1. pc = "init"
      BY <2>3 DEF Start
    <3> QED
      BY <2>1, <3>1 DEF TakeTurns, Connecting
  <2>4. CASE CommandAccepted \/ HandshakeReply \/ Identified \/ DataFrame
    <3>1. pc = "handle" /\ ~EchoFirst /\ Complete(buffer)
      BY <2>4 DEF CommandAccepted, HandshakeReply, Identified, DataFrame
    <3>2. Linked
      BY <2>1, <3>1 DEF TakeTurns
    <3> QED
      BY <3>1, <3>2, TurnIsTheLoops DEF Answered
  <2>5. CASE ~Start /\ ~(CommandAccepted \/ HandshakeReply \/ Identified \/ DataFrame)
    <3>1. \/ ecuInbox' \in {ecuInbox, <<>>}
          \/ ecuInbox # <<>> /\ ecuInbox' = Tail(ecuInbox)
      BY <1>1, <2>5 DEF Next19, Connect, Open, SendAddress, ReadKeywords, KeywordsDeadline,
           SendChallenge, ReadAcknowledge, AcknowledgeDeadline, HandOver, ConnectFails,
           HandshakeFails, Loop, Read, Timeout, Cancelled, ConsumeEcho, AwaitMore, Surroundings,
           ReadFails, Shutdown, LoseByte, SetUserCommand, EcuSendsKeywords, EcuAcknowledges,
           OpenEcuAnswers, EcuAnswers, EcuGoesOff, IgnitionOff, vars19, vars, ecu
    <3> QED
      BY <2>2, <3>1
  <2> QED
    BY <2>3, <2>4, <2>5
<1>2. LinkInv /\ [Next19]_vars19 =>
        (lost = 0 /\ Len(ecuInbox') > Len(ecuInbox) => ecuInbox = <<>> /\ line = <<>>)
  BY <1>1
<1>3. LinkInv /\ [Next19]_vars19 => LinkInv'
  BY LinkStep
<1>4. [][Next19]_vars19 /\ []LinkInv => NeverTalksOverTheEcu
  <2>1. [Next19]_vars19 /\ LinkInv =>
          [lost = 0 /\ Len(ecuInbox') > Len(ecuInbox) => ecuInbox = <<>> /\ line = <<>>]_vars
    BY <1>2
  <2> QED
    BY <2>1, PTL DEF NeverTalksOverTheEcu
<1> QED
  BY <1>3, <1>4, LinkInit, PTL DEF Spec19

\* On a wire that has lost nothing the dashboard is told "connected" only of an
\* ECU that was taken through the whole handshake, in the order of the stages,
\* whatever the user posts meanwhile and whatever bytes the ECU answers, under
\* the same hypotheses.
THEOREM ConnectionsAreIdentified ==
  ASSUME 255 - Acknowledge \notin Keywords, Sync \notin Junk
  PROVE  Spec19 => []ConnectedMeansIdentified
<1>1. LinkInv => ConnectedMeansIdentified
  BY DEF LinkInv, TakeTurns, Truths, ConnectedMeansIdentified
<1>2. LinkInv /\ [Next19]_vars19 => LinkInv'
  BY LinkStep
<1> QED
  BY <1>1, <1>2, LinkInit, PTL DEF Spec19

\* On a wire that has lost nothing the dashboard is told of a command only what
\* the ECU has carried out, whatever the user posts and however late the answer
\* comes, under the same hypotheses.
THEOREM AlertsAreTruthful ==
  ASSUME 255 - Acknowledge \notin Keywords, Sync \notin Junk
  PROVE  Spec19 => []AlertIsTruthful
<1>1. LinkInv => AlertIsTruthful
  BY DEF LinkInv, TakeTurns, Truths, AlertIsTruthful
<1>2. LinkInv /\ [Next19]_vars19 => LinkInv'
  BY LinkStep
<1> QED
  BY <1>1, <1>2, LinkInit, PTL DEF Spec19

(***************************************************************************)
(* The loop on a wire that loses bytes                                     *)
(***************************************************************************)

\* Whatever else the ECU says, it is told from a request.
NothingPassesForARequest ==
  (DataBytes \cup PacketSizes \cup Keywords \cup {0, Sync, Acknowledge}) \cap Requests = {}

\* The places of requests: echoes, and the first bytes of replies.
Calls(s) == {i \in 1 .. Len(s) : s[i] \in Requests}

AtMostOne(S) == \A i, j \in S : i = j
AtMostTwo(S) == \A i, j, k \in S : i = j \/ j = k \/ i = k

\* The ECU has not answered the last byte sent, if it has heard it at all: only
\* the echo can have come back.
Owed ==
  /\ ecuInbox \in {<<>>, <<lastKlineByte>>}
  /\ \A k \in 0 .. 3 : <<k, lastKlineByte>> \in Walk => ecuStage = k
  /\ AtMostOne(Calls(Wire)) /\ (gotKlineEcho => Calls(Wire) = {})

\* It has: of the echo and the reply two may be there, or one if one was taken.
Paid == Answered /\ AtMostTwo(Calls(Wire)) /\ (gotKlineEcho => AtMostOne(Calls(Wire)))

\* Every request on the wire is the last byte sent or the reply to it.
OneCallOut ==
  /\ buffer \in Seq(Byte) /\ line \in Seq(Byte) /\ gotKlineEcho \in BOOLEAN
  /\ pc = "handle" => buffer # <<>>
  /\ lastKlineByte \in Requests
  /\ \A i \in Calls(Wire) : Wire[i] = lastKlineByte
  /\ Owed \/ Paid

LossyInv ==
  /\ CommandInv
  /\ pc \in Connecting => ecuInbox = <<>> /\ ecuStage = 0 /\ gotKlineEcho = FALSE
  /\ pc = "init" => buffer = <<>> /\ line \in Seq(Byte) /\ Calls(line) = {}
  /\ pc \in {"read", "handle"} => OneCallOut
  /\ Truths

\* The requests among two sequences are those of the first and of the second.
LEMMA CallsOfBoth ==
  ASSUME NEW s \in Seq(Byte), NEW t \in Seq(Byte)
  PROVE  /\ \A i \in Calls(s) :
              i \in Nat /\ i <= Len(s) /\ i \in Calls(s \o t) /\ (s \o t)[i] = s[i]
         /\ \A i \in Calls(t) : Len(s) + i \in Calls(s \o t) /\ (s \o t)[Len(s) + i] = t[i]
         /\ \A i \in Calls(s \o t) :
              \/ i \in Calls(s) /\ (s \o t)[i] = s[i]
              \/ i - Len(s) \in Calls(t) /\ (s \o t)[i] = t[i - Len(s)]
<1>1. PICK m \in Nat, n \in Nat : m = Len(s) /\ n = Len(t)
  BY LenProperties
<1> DEFINE w == s \o t
<1>2. /\ Len(w) = m + n
      /\ \A i \in 1 .. m : w[i] = s[i]
      /\ \A i \in 1 .. n : w[m + i] = t[i]
  BY <1>1, InFront
<1> HIDE DEF w
<1>3. ASSUME NEW i \in Calls(s) PROVE i \in Nat /\ i <= m /\ i \in Calls(w) /\ w[i] = s[i]
  BY <1>1, <1>2, <1>3 DEF Calls
<1>4. ASSUME NEW i \in Calls(t) PROVE m + i \in Calls(w) /\ w[m + i] = t[i]
  BY <1>1, <1>2, <1>4 DEF Calls
<1>5. ASSUME NEW i \in Calls(w)
      PROVE  \/ i \in Calls(s) /\ w[i] = s[i]
             \/ i - m \in Calls(t) /\ w[i] = t[i - m]
  <2>1. i \in 1 .. m + n /\ w[i] \in Requests
    BY <1>2, <1>5 DEF Calls
  <2>2. CASE i <= m
    <3>1. i \in 1 .. m
      BY <2>1, <2>2, <1>1
    <3> QED
      BY <2>1, <3>1, <1>1, <1>2 DEF Calls
  <2>3. CASE i > m
    <3>1. PICK k \in 1 .. n : k = i - m /\ m + k = i
      <4>1. i - m \in 1 .. n /\ m + (i - m) = i
        BY <2>1, <2>3, <1>1
      <4> QED
        BY <4>1
    <3> QED
      BY <2>1, <3>1, <1>1, <1>2 DEF Calls
  <2> QED
    BY <2>1, <2>2, <2>3, <1>1
<1> QED
  BY <1>1, <1>3, <1>4, <1>5 DEF w

\* Each request of v has a place of its own in w.
Thins(v, w) ==
  \E f \in [Calls(v) -> Calls(w)] :
    /\ \A i, j \in Calls(v) : f[i] = f[j] => i = j
    /\ \A i \in Calls(v) : v[i] = w[f[i]]

\* So v has no more of them.
LEMMA ThinnedKeeps ==
  ASSUME NEW v, NEW w, Thins(v, w)
  PROVE  /\ Calls(w) = {} => Calls(v) = {}
         /\ AtMostOne(Calls(w)) => AtMostOne(Calls(v))
         /\ AtMostTwo(Calls(w)) => AtMostTwo(Calls(v))
         /\ \A b : (\A i \in Calls(w) : w[i] = b) => \A i \in Calls(v) : v[i] = b
<1>1. PICK f \in [Calls(v) -> Calls(w)] :
        /\ \A i, j \in Calls(v) : f[i] = f[j] => i = j
        /\ \A i \in Calls(v) : v[i] = w[f[i]]
  BY DEF Thins
<1>2. \A i \in Calls(v) : f[i] \in Calls(w)
  OBVIOUS
<1>3. Calls(w) = {} => Calls(v) = {}
  BY <1>2
<1>4. AtMostOne(Calls(w)) => AtMostOne(Calls(v))
  BY <1>1, <1>2 DEF AtMostOne
<1>5. AtMostTwo(Calls(w)) => AtMostTwo(Calls(v))
  BY <1>1, <1>2 DEF AtMostTwo
<1>6. ASSUME NEW b, \A i \in Calls(w) : w[i] = b PROVE \A i \in Calls(v) : v[i] = b
  BY <1>1, <1>2, <1>6
<1> QED
  BY <1>3, <1>4, <1>5, <1>6

\* What is said behind w without a request leaves its requests alone.
LEMMA IdleThins ==
  ASSUME NEW w \in Seq(Byte), NEW t \in Seq(Byte), Calls(t) = {}
  PROVE  Thins(w \o t, w)
<1>1. \A i \in Calls(w \o t) : i \in Calls(w) /\ (w \o t)[i] = w[i]
  BY CallsOfBoth
<1> DEFINE f == [i \in Calls(w \o t) |-> i]
<1>2. /\ f \in [Calls(w \o t) -> Calls(w)]
      /\ \A i, j \in Calls(w \o t) : f[i] = f[j] => i = j
      /\ \A i \in Calls(w \o t) : (w \o t)[i] = w[f[i]]
  BY <1>1
<1> QED
  BY <1>2 DEF Thins

\* What is said behind the line is said behind the wire.
LEMMA SaidBehind ==
  ASSUME buffer \in Seq(Byte), line \in Seq(Byte), NEW t \in Seq(Byte),
         buffer' = buffer, line' = line \o t
  PROVE  Wire \in Seq(Byte) /\ line' \in Seq(Byte) /\ Wire' = Wire \o t
<1>1. line \o t \in Seq(Byte) /\ buffer \o line \in Seq(Byte)
  BY ConcatProperties
<1>2. (buffer \o line) \o t = buffer \o (line \o t)
  BY ConcatAssociative
<1> QED
  BY <1>1, <1>2 DEF Wire

\* A wire with fewer requests, none of them new.
LEMMA ThinnedOut ==
  ASSUME OneCallOut, Thins(Wire', Wire), buffer' \in Seq(Byte), line' \in Seq(Byte),
         pc' = "handle" => buffer' # <<>>,
         ecuInbox' \in {ecuInbox, <<>>},
         UNCHANGED <<gotKlineEcho, lastKlineByte, ecuStage, executed>>
  PROVE  OneCallOut'
<1>1. /\ Calls(Wire) = {} => Calls(Wire') = {}
      /\ AtMostOne(Calls(Wire)) => AtMostOne(Calls(Wire'))
      /\ AtMostTwo(Calls(Wire)) => AtMostTwo(Calls(Wire'))
      /\ \A b : (\A i \in Calls(Wire) : Wire[i] = b) => \A i \in Calls(Wire') : Wire'[i] = b
  BY ThinnedKeeps
<1>2. \A i \in Calls(Wire') : Wire'[i] = lastKlineByte
  BY <1>1 DEF OneCallOut
<1>3. Owed => Owed'
  BY <1>1 DEF Owed
<1>4. Paid => Paid'
  BY <1>1 DEF Paid, Answered
<1> QED
  BY <1>2, <1>3, <1>4 DEF OneCallOut

\* A byte sent when no request is left on the line.
LEMMA SendOwes ==
  ASSUME NEW d \in Requests, Send(d), line \in Seq(Byte), Calls(line) = {}, ecuInbox = <<>>,
         buffer' = <<>>, pc' = "read", UNCHANGED ecuStage,
         \A k \in 0 .. 3 : <<k, d>> \in Walk => ecuStage = k
  PROVE  OneCallOut'
<1>1. d \in Byte
  BY ParametersAssumption DEF Requests, Protocol, Byte, CA, S75, F4, D0, D80, D7D
<1>2. /\ gotKlineEcho' = FALSE /\ lastKlineByte' = d
      /\ line' = line \o (IF Echo THEN <<d>> ELSE <<>>)
      /\ ecuInbox' \in {<<>>, <<d>>}
  <2>1. Append(line, d) = line \o <<d>> /\ line \o <<>> = line
    BY <1>1, ConcatEmptySeq, AppendIsConcat
  <2> QED
    BY <2>1 DEF Send
<1>3. PICK e \in Seq(Byte) :
        e = (IF Echo THEN <<d>> ELSE <<>>) /\ \A i \in Calls(e) : i = 1 /\ e[i] = d
  <2>1. <<d>> \in Seq(Byte) /\ Len(<<d>>) = 1 /\ <<d>>[1] = d
    BY <1>1
  <2>2. <<>> \in Seq(Byte) /\ Len(<<>>) = 0
    BY EmptySeq
  <2>3. \A i \in Calls(<<d>>) : i = 1 /\ <<d>>[i] = d
    BY <2>1 DEF Calls
  <2>4. Calls(<<>>) = {}
    BY <2>2 DEF Calls
  <2> QED
    BY <2>1, <2>2, <2>3, <2>4
<1>4. PICK m \in Nat : m = Len(line)
  BY LenProperties
<1>5. PICK w \in Seq(Byte) : w = line \o e
  BY ConcatProperties
<1>6. Wire' = w /\ line' = w
  <2>1. line' = w
    BY <1>2, <1>3, <1>5
  <2>2. <<>> \o w = w
    BY ConcatEmptySeq
  <2> QED
    BY <2>1, <2>2 DEF Wire
<1>7. \A i \in Calls(w) : i - m \in Calls(e) /\ w[i] = e[i - m]
  <2>1. \A i \in Calls(line \o e) :
          \/ i \in Calls(line) /\ (line \o e)[i] = line[i]
          \/ i - Len(line) \in Calls(e) /\ (line \o e)[i] = e[i - Len(line)]
    BY CallsOfBoth
  <2> QED
    BY <2>1, <1>4, <1>5
<1>8. ASSUME NEW i \in Calls(w) PROVE i = m + 1 /\ w[i] = d
  <2>1. i \in Int
    BY DEF Calls
  <2>2. i - m = 1 /\ w[i] = d
    BY <1>3, <1>7
  <2> QED
    BY <2>1, <2>2
<1>9. AtMostOne(Calls(w))
  BY <1>8 DEF AtMostOne
<1>10. Owed'
  BY <1>2, <1>6, <1>9 DEF Owed
<1> QED
  BY <1>2, <1>6, <1>8, <1>10, EmptySeq DEF OneCallOut

\* The ECU's reply holds one request, its first byte.
LEMMA ReplyCallsOnce ==
  ASSUME NothingPassesForARequest, NEW b \in Requests, NEW r \in Replies(b)
  PROVE  r \in Seq(Byte) /\ \A i \in Calls(r) : i = 1 /\ r[i] = b
<1>1. r \in Seq(Byte) /\ r # <<>> /\ r[1] = b
  BY ReplyIs
<1>2. \A x \in DataBytes \cup PacketSizes \cup {0} : x \notin Requests
  BY DEF NothingPassesForARequest
<1>3. PICK n \in Nat : n = Len(r)
  BY <1>1, LenProperties
<1> SUFFICES ASSUME NEW i \in 2 .. n PROVE r[i] \notin Requests
  BY <1>1, <1>3 DEF Calls
<1>4. b \in Byte
  BY ParametersAssumption DEF Requests, Protocol, Byte, CA, S75, F4, D0, D80, D7D
<1>5. CASE b \in {CA, S75}
  <2>1. b \notin {F4, D0, D80, D7D}
    BY <1>5 DEF CA, S75, F4, D0, D80, D7D
  <2>2. r = <<b>>
    BY <1>5, <2>1 DEF Replies
  <2>3. Len(r) = 1
    BY <2>2
  <2> QED
    BY <2>3, <1>3
<1>6. CASE b = D0
  <2>1. b \notin {CA, S75, F4, D80, D7D}
    BY <1>6 DEF CA, S75, F4, D0, D80, D7D
  <2>2. Replies(b) = {<<b>> \o id : id \in [1 .. 4 -> DataBytes]}
    BY <1>6, <2>1 DEF Replies
  <2>3. PICK id \in [1 .. 4 -> DataBytes] : r = <<b>> \o id
    BY <2>2
  <2>4. \A k \in 1 .. 4 : id[k] \notin Requests
    BY <1>2
  <2>5. id \in Seq(Byte) /\ Len(id) = 4
    BY DataIsBytes
  <2>6. PICK h \in Seq(Byte) : h = <<b>> /\ Len(h) = 1
    <3>1. <<b>> \in Seq(Byte) /\ Len(<<b>>) = 1
      BY <1>4
    <3> QED
      BY <3>1
  <2>7. n = 1 + 4 /\ \A k \in 1 .. 4 : r[1 + k] = id[k]
    <3>1. /\ Len(h \o id) = Len(h) + Len(id)
          /\ \A k \in 1 .. Len(id) : (h \o id)[Len(h) + k] = id[k]
      BY <2>5, InFront
    <3>2. r = h \o id
      BY <2>3, <2>6
    <3> QED
      BY <3>1, <3>2, <2>5, <2>6, <1>3
  <2>8. i - 1 \in 1 .. 4 /\ 1 + (i - 1) = i
    BY <2>7
  <2> QED
    BY <2>4, <2>7, <2>8
<1>7. CASE b \in {D80, D7D}
  <2>1. b \notin {CA, S75, F4, D0}
    BY <1>7 DEF CA, S75, F4, D0, D80, D7D
  <2>2. Replies(b) = UNION {{<<b, s>> \o data : data \in [1 .. s - 1 -> DataBytes]} :
                              s \in PacketSizes}
    BY <1>7, <2>1 DEF Replies
  <2>3. PICK s \in PacketSizes : \E data \in [1 .. s - 1 -> DataBytes] : r = <<b, s>> \o data
    BY <2>2
  <2>4. s \in Byte /\ s \in Nat /\ s >= 1 /\ s \notin Requests
    BY <1>2, ParametersAssumption DEF Byte
  <2>5. PICK m \in Nat : m = s - 1
    BY <2>4
  <2>6. PICK z \in [1 .. m -> DataBytes] : r = <<b, s>> \o z
    BY <2>3, <2>5
  <2>7. z \in Seq(Byte) /\ Len(z) = m /\ \A k \in 1 .. m : z[k] \notin Requests
    BY <1>2, DataIsBytes
  <2>8. PICK h \in Seq(Byte) : h = <<b, s>> /\ Len(h) = 2 /\ h[2] = s
    <3>1. <<b, s>> \in Seq(Byte) /\ Len(<<b, s>>) = 2 /\ <<b, s>>[2] = s
      BY <1>4, <2>4
    <3> QED
      BY <3>1
  <2>9. /\ n = 2 + m /\ \A k \in 1 .. m : r[2 + k] = z[k]
        /\ \A k \in 1 .. 2 : r[k] = h[k]
    BY <2>6, <2>7, <2>8, <1>3, InFront
  <2>10. CASE i = 2
    BY <2>4, <2>8, <2>9, <2>10
  <2>11. CASE i # 2
    <3>1. i - 2 \in 1 .. m /\ 2 + (i - 2) = i
      BY <2>9, <2>11
    <3>2. r[2 + (i - 2)] = z[i - 2]
      BY <3>1, <2>9
    <3> QED
      BY <3>1, <3>2, <2>7
  <2> QED
    BY <2>10, <2>11
<1>8. CASE b \in UserCommands \cup {F4}
  <2>1. b \notin {CA, S75, D0, D80, D7D}
    BY <1>8, ParametersAssumption DEF Protocol, CA, S75, F4, D0, D80, D7D
  <2>2. Replies(b) = {<<b, 0>>} \/ Replies(b) = {<<b, d>> : d \in DataBytes}
    BY <2>1 DEF Replies
  <2>3. PICK d \in DataBytes \cup {0} : r = <<b, d>>
    BY <2>2
  <2>4. Len(r) = 2 /\ r[2] = d
    BY <2>3
  <2>5. i = 2
    BY <2>4, <1>3
  <2> QED
    BY <2>4, <2>5, <1>2
<1> QED
  BY <1>5, <1>6, <1>7, <1>8 DEF Requests, Protocol

\* A reply behind what was owed pays it.
LEMMA ReplyPays ==
  ASSUME NothingPassesForARequest, OneCallOut, ecuInbox # <<>>,
         NEW r \in Replies(Head(ecuInbox)), line' = line \o r, ecuInbox' = Tail(ecuInbox),
         ecuStage' = StageAfter(ecuStage, Head(ecuInbox)),
         Head(ecuInbox) \in UserCommands => executed'[Head(ecuInbox)] > 0,
         UNCHANGED agent
  PROVE  OneCallOut'
<1>1. Owed
  BY DEF OneCallOut, Paid, Answered
<1>2. PICK b \in Requests : b = lastKlineByte
  BY DEF OneCallOut
<1>3. ecuInbox = <<b>> /\ Head(ecuInbox) = b /\ Tail(ecuInbox) = <<>>
  <2>1. ecuInbox = <<b>>
    BY <1>1, <1>2 DEF Owed
  <2> QED
    BY <2>1
<1>4. r \in Seq(Byte) /\ \A i \in Calls(r) : i = 1 /\ r[i] = b
  BY <1>3, ReplyCallsOnce
<1>5. buffer \in Seq(Byte) /\ line \in Seq(Byte) /\ buffer' = buffer
  BY DEF OneCallOut, agent
<1>6. Wire \in Seq(Byte) /\ line' \in Seq(Byte) /\ Wire' = Wire \o r
  BY <1>4, <1>5, SaidBehind
<1>7. PICK v \in Seq(Byte), w \in Seq(Byte) : v = Wire /\ w = v \o r /\ Wire' = w
  <2>1. Wire \o r \in Seq(Byte)
    BY <1>4, <1>6, ConcatProperties
  <2> QED
    BY <1>6, <2>1
<1>8. PICK m \in Nat : m = Len(v)
  BY LenProperties
<1>9. ASSUME NEW i \in Calls(w)
      PROVE  w[i] = b /\ (i \in Calls(v) \/ i = m + 1)
  <2>1. \/ i \in Calls(v) /\ (v \o r)[i] = v[i]
        \/ i - Len(v) \in Calls(r) /\ (v \o r)[i] = r[i - Len(v)]
    BY <1>4, <1>7, <1>9, CallsOfBoth
  <2>2. CASE i \in Calls(v) /\ (v \o r)[i] = v[i]
    BY <2>2, <1>2, <1>7 DEF OneCallOut
  <2>3. CASE i - Len(v) \in Calls(r) /\ (v \o r)[i] = r[i - Len(v)]
    <3>1. i - m = 1 /\ w[i] = b
      BY <2>3, <1>4, <1>7, <1>8
    <3>2. i \in Int
      BY DEF Calls
    <3> QED
      BY <3>1, <3>2
  <2> QED
    BY <2>1, <2>2, <2>3
<1>10. AtMostTwo(Calls(w)) /\ (gotKlineEcho => AtMostOne(Calls(w)))
  <2>1. AtMostOne(Calls(v)) /\ (gotKlineEcho => Calls(v) = {})
    BY <1>1, <1>7 DEF Owed
  <2> QED
    BY <2>1, <1>9 DEF AtMostOne, AtMostTwo
<1>11. Answered'
  <2>1. ASSUME NEW k \in 0 .. 3, <<k, b>> \in Walk PROVE ecuStage' = k + 1
    <3>1. ecuStage = k
      BY <1>1, <1>2, <2>1 DEF Owed
    <3> QED
      BY <1>3, <2>1, <3>1 DEF StageAfter, Walk
  <2> QED
    BY <1>2, <1>3, <2>1 DEF Answered, agent
<1>12. Paid'
  BY <1>7, <1>10, <1>11 DEF Paid, agent
<1>13. \A i \in Calls(Wire') : Wire'[i] = lastKlineByte'
  BY <1>2, <1>7, <1>9 DEF agent
<1> QED
  BY <1>5, <1>6, <1>12, <1>13 DEF OneCallOut, agent

\* The echo, or the reply when there is none, is taken off.
LEMMA EchoPays ==
  ASSUME OneCallOut, ConsumeEcho PROVE OneCallOut'
<1>1. /\ pc' = "read" /\ gotKlineEcho' = TRUE /\ buffer' = Tail(buffer) /\ buffer # <<>>
      /\ ~gotKlineEcho /\ Head(buffer) = lastKlineByte
      /\ UNCHANGED <<lastKlineByte, ecu, line>>
  BY DEF ConsumeEcho, EchoFirst, OneCallOut
<1>2. buffer \in Seq(Byte) /\ line \in Seq(Byte)
  BY DEF OneCallOut
<1>3. /\ buffer' \in Seq(Byte) /\ Wire' = Tail(Wire)
      /\ Wire # <<>> /\ Wire \in Seq(Byte) /\ Wire[1] = Head(buffer)
  <2>1. /\ Tail(buffer \o line) = Tail(buffer) \o line /\ Tail(buffer) \in Seq(Byte)
        /\ (buffer \o line)[1] = buffer[1] /\ buffer \o line # <<>>
    BY <1>1, <1>2, TailOfConcat
  <2>2. buffer \o line \in Seq(Byte) /\ Head(buffer) = buffer[1]
    BY <1>2, ConcatProperties
  <2> QED
    BY <2>1, <2>2, <1>1 DEF Wire
<1>4. PICK w \in Seq(Byte) : w = Wire /\ w # <<>> /\ w[1] \in Requests
  BY <1>1, <1>3 DEF OneCallOut
<1> DEFINE u == Tail(w)
<1>5. PICK n \in Nat :
        n = Len(w) /\ n >= 1 /\ Len(u) = n - 1 /\ \A i \in 1 .. n - 1 : u[i] = w[i + 1]
  <2>1. Len(w) \in Nat /\ Len(w) # 0
    BY <1>4, LenProperties, EmptySeq
  <2>2. Len(u) = Len(w) - 1 /\ \A i \in 1 .. Len(u) : u[i] = w[i + 1]
    BY <1>4, HeadTailProperties
  <2> HIDE DEF u
  <2> QED
    BY <2>1, <2>2
<1>6. Wire' = u
  BY <1>3, <1>4
<1> HIDE DEF u
<1>7. 1 \in Calls(w)
  BY <1>4, <1>5 DEF Calls
<1>8. \A i \in Calls(u) : i \in Nat /\ i >= 1 /\ i + 1 \in Calls(w) /\ u[i] = w[i + 1]
  BY <1>5 DEF Calls
<1>9. AtMostOne(Calls(w)) => Calls(u) = {}
  <2> SUFFICES ASSUME AtMostOne(Calls(w)), NEW i \in Calls(u) PROVE FALSE
    OBVIOUS
  <2>1. i + 1 = 1 /\ i \in Nat /\ i >= 1
    BY <1>7, <1>8 DEF AtMostOne
  <2> QED
    BY <2>1
<1>10. AtMostTwo(Calls(w)) => AtMostOne(Calls(u))
  <2> SUFFICES ASSUME AtMostTwo(Calls(w)), NEW i \in Calls(u), NEW j \in Calls(u) PROVE i = j
    BY DEF AtMostOne
  <2>1. i + 1 = 1 \/ i + 1 = j + 1 \/ 1 = j + 1
    BY <1>7, <1>8 DEF AtMostTwo
  <2>2. i \in Nat /\ i >= 1 /\ j \in Nat /\ j >= 1
    BY <1>8
  <2> QED
    BY <2>1, <2>2
<1>11. \A i \in Calls(Wire') : Wire'[i] = lastKlineByte'
  BY <1>1, <1>4, <1>6, <1>8 DEF OneCallOut
<1>12. Owed => Owed'
  BY <1>1, <1>4, <1>6, <1>9 DEF Owed, ecu, AtMostOne
<1>13. Paid => Paid'
  BY <1>1, <1>4, <1>6, <1>10 DEF Paid, Answered, ecu, AtMostOne, AtMostTwo
<1> QED
  BY <1>1, <1>2, <1>3, <1>11, <1>12, <1>13 DEF OneCallOut

\* The loop acts on a reply only if the ECU has answered, and no request is left.
LEMMA ReplyWasPaid ==
  ASSUME OneCallOut, pc = "handle", ~EchoFirst, Complete(buffer)
  PROVE  Head(buffer) = lastKlineByte /\ lastKlineByte \in Requests /\ Answered /\ Calls(line) = {}
<1>1. PICK s \in Seq(Byte), t \in Seq(Byte) : s = buffer /\ t = line /\ s # <<>>
  BY DEF OneCallOut
<1>2. Head(s) \in Requests
  BY <1>1 DEF Complete, Requests, Protocol
<1>3. PICK m \in Nat : m = Len(s) /\ m >= 1 /\ Head(s) = s[1]
  <2>1. Len(s) \in Nat /\ Len(s) # 0
    BY <1>1, LenProperties, EmptySeq
  <2> QED
    BY <2>1
<1>4. 1 \in Calls(s)
  BY <1>2, <1>3 DEF Calls
<1> DEFINE w == s \o t
<1>5. /\ 1 \in Calls(w) /\ w[1] = Head(s)
      /\ \A i \in Calls(t) : m + i \in Calls(w)
  BY <1>3, <1>4, CallsOfBoth
<1>6. w = Wire
  BY <1>1 DEF Wire
<1> HIDE DEF w
<1>7. Head(s) = lastKlineByte
  BY <1>5, <1>6 DEF OneCallOut
<1>8. gotKlineEcho
  BY <1>1, <1>7 DEF EchoFirst
<1>9. Paid /\ AtMostOne(Calls(w))
  BY <1>5, <1>6, <1>8 DEF OneCallOut, Owed, Paid
<1>10. Calls(t) = {}
  <2> SUFFICES ASSUME NEW i \in Calls(t) PROVE FALSE
    OBVIOUS
  <2>1. m + i = 1
    BY <1>5, <1>9 DEF AtMostOne
  <2>2. i \in Nat /\ i >= 1
    BY DEF Calls
  <2> QED
    BY <2>1, <2>2, <1>3
<1> QED
  BY <1>1, <1>7, <1>9, <1>10 DEF OneCallOut, Paid

\* One byte of the line is lost.
LEMMA LossThins ==
  ASSUME NEW s \in Seq(Byte), NEW t \in Seq(Byte), NEW i \in 1 .. Len(t)
  PROVE  LET u == SubSeq(t, 1, i - 1) \o SubSeq(t, i + 1, Len(t))
         IN  u \in Seq(Byte) /\ Thins(s \o u, s \o t)
<1>1. PICK m \in Nat, n \in Nat : m = Len(s) /\ n = Len(t)
  BY LenProperties
<1>2. i \in Nat /\ 1 <= i /\ i <= n /\ i - 1 \in 0 .. Len(t) /\ i \in 0 .. Len(t)
  BY <1>1
<1> DEFINE p == SubSeq(t, 1, i - 1)
           q == SubSeq(t, i + 1, Len(t))
           u == p \o q
<1>3. p \in Seq(Byte) /\ Len(p) = i - 1 /\ \A j \in 1 .. i - 1 : p[j] = t[j]
  <2>1. \A j \in 1 .. i - 1 : t[j] \in Byte
    BY <1>1, <1>2, ElementOfSeq
  <2>2. /\ SubSeq(t, 1, i - 1) \in Seq(Byte)
        /\ Len(SubSeq(t, 1, i - 1)) = IF 1 <= i - 1 THEN i - 1 - 1 + 1 ELSE 0
        /\ \A j \in 1 .. i - 1 - 1 + 1 : SubSeq(t, 1, i - 1)[j] = t[1 + j - 1]
    BY <1>2, <2>1, SubSeqProperties
  <2> QED
    BY <1>2, <2>2
<1>4. q \in Seq(Byte) /\ Len(q) = n - i /\ \A j \in 1 .. n - i : q[j] = t[i + j]
  <2>1. \A j \in i + 1 .. Len(t) : t[j] \in Byte
    BY <1>1, <1>2, ElementOfSeq
  <2>2. /\ SubSeq(t, i + 1, Len(t)) \in Seq(Byte)
        /\ Len(SubSeq(t, i + 1, Len(t))) = IF i + 1 <= Len(t) THEN Len(t) - (i + 1) + 1 ELSE 0
        /\ \A j \in 1 .. Len(t) - (i + 1) + 1 : SubSeq(t, i + 1, Len(t))[j] = t[i + 1 + j - 1]
    BY <1>1, <1>2, <2>1, SubSeqProperties
  <2> QED
    BY <1>1, <1>2, <2>2
<1> HIDE DEF p, q
<1>5. /\ u \in Seq(Byte) /\ Len(u) = n - 1
      /\ \A j \in 1 .. i - 1 : u[j] = t[j]
      /\ \A j \in i .. n - 1 : u[j] = t[j + 1]
  <2>1. /\ u \in Seq(Byte) /\ Len(u) = Len(p) + Len(q)
        /\ \A j \in 1 .. Len(p) : u[j] = p[j]
        /\ \A j \in 1 .. Len(q) : u[Len(p) + j] = q[j]
    BY <1>3, <1>4, InFront
  <2> HIDE DEF u
  <2>2. Len(u) = n - 1 /\ \A j \in 1 .. i - 1 : u[j] = t[j]
    BY <2>1, <1>1, <1>2, <1>3, <1>4
  <2>3. ASSUME NEW j \in i .. n - 1 PROVE u[j] = t[j + 1]
    <3>1. PICK k \in 1 .. n - i : k = j - (i - 1) /\ i - 1 + k = j /\ i + k = j + 1
      <4>1. /\ j - (i - 1) \in 1 .. n - i /\ i - 1 + (j - (i - 1)) = j
            /\ i + (j - (i - 1)) = j + 1
        BY <1>1, <1>2
      <4> QED
        BY <4>1
    <3>2. u[i - 1 + k] = q[k] /\ q[k] = t[i + k]
      BY <2>1, <1>3, <1>4
    <3> QED
      BY <3>1, <3>2
  <2> QED
    BY <2>1, <2>2, <2>3
<1> HIDE DEF u
<1> DEFINE v == s \o u
           w == s \o t
<1>6. /\ Len(v) = m + (n - 1)
      /\ \A j \in 1 .. m : v[j] = s[j]
      /\ \A j \in 1 .. n - 1 : v[m + j] = u[j]
  <2>1. /\ Len(v) = Len(s) + Len(u)
        /\ \A j \in 1 .. Len(s) : v[j] = s[j]
        /\ \A j \in 1 .. Len(u) : v[Len(s) + j] = u[j]
    BY <1>5, InFront
  <2>2. PICK d \in Nat : d = n - 1 /\ d = Len(u)
    <3>1. n - 1 \in Nat
      BY <1>1, <1>2
    <3> QED
      BY <3>1, <1>5
  <2> HIDE DEF v
  <2> QED
    BY <2>1, <2>2, <1>1
<1>7. /\ Len(w) = m + n
      /\ \A j \in 1 .. m : w[j] = s[j]
      /\ \A j \in 1 .. n : w[m + j] = t[j]
  BY <1>1, InFront
<1> HIDE DEF v, w
<1> DEFINE f == [j \in Calls(v) |-> IF j < m + i THEN j ELSE j + 1]
<1>8. ASSUME NEW j \in Calls(v)
      PROVE  j \in Nat /\ f[j] \in Calls(w) /\ v[j] = w[f[j]]
  <2>1. j \in Nat /\ 1 <= j /\ j <= m + (n - 1) /\ v[j] \in Requests
    BY <1>1, <1>6, <1>8 DEF Calls
  <2>2. f[j] = IF j < m + i THEN j ELSE j + 1
    BY <1>8
  <2> HIDE DEF f
  <2>3. f[j] \in 1 .. Len(w)
    BY <1>1, <1>2, <1>7, <2>1, <2>2
  <2>4. v[j] = w[f[j]]
    <3>1. CASE j <= m
      BY <3>1, <1>1, <1>2, <1>6, <1>7, <2>1, <2>2
    <3>2. CASE j > m
      <4>1. PICK k \in 1 .. n - 1 : m + k = j
        <5>1. j - m \in 1 .. n - 1 /\ m + (j - m) = j
          BY <3>2, <1>1, <1>2, <2>1
        <5> QED
          BY <5>1
      <4>2. v[j] = u[k]
        BY <4>1, <1>6
      <4>3. CASE k < i
        <5>1. f[j] = m + k /\ k \in 1 .. n /\ k \in 1 .. i - 1
          BY <4>1, <4>3, <1>1, <1>2, <2>2
        <5> QED
          BY <4>2, <5>1, <1>5, <1>7
      <4>4. CASE k >= i
        <5>1. f[j] = m + (k + 1) /\ k + 1 \in 1 .. n /\ k \in i .. n - 1
          BY <4>1, <4>4, <1>1, <1>2, <2>2
        <5> QED
          BY <4>2, <5>1, <1>5, <1>7
      <4> QED
        BY <4>3, <4>4, <1>2
    <3> QED
      BY <3>1, <3>2, <1>1, <2>1
  <2> QED
    BY <2>1, <2>3, <2>4 DEF Calls
<1>9. ASSUME NEW j \in Calls(v), NEW k \in Calls(v), f[j] = f[k] PROVE j = k
  <2>1. j \in Nat /\ k \in Nat
    BY <1>8
  <2>2. /\ f[j] = IF j < m + i THEN j ELSE j + 1
        /\ f[k] = IF k < m + i THEN k ELSE k + 1
    OBVIOUS
  <2> HIDE DEF f
  <2> QED
    BY <2>1, <2>2, <1>1, <1>2, <1>9
<1>10. Thins(v, w)
  <2>1. f \in [Calls(v) -> Calls(w)]
    BY <1>8
  <2> HIDE DEF f
  <2> QED
    BY <2>1, <1>8, <1>9 DEF Thins
<1> QED
  BY <1>5, <1>10 DEF u, v, w, p, q

\* A session starts with nothing on the line, or will empty it.
LEMMA LossyInit == Init19 => LossyInv
<1>1. Calls(<<>>) = {} /\ <<>> \in Seq(Byte)
  <2>1. Len(<<>>) = 0 /\ <<>> \in Seq(Byte)
    BY EmptySeq
  <2> QED
    BY <2>1 DEF Calls
<1> QED
  BY <1>1, CommandInit DEF Init19, InitAt, LossyInv, Truths

\* The loop asks for the next thing.
LEMMA ReplyOwes ==
  ASSUME LossyInv, UNCHANGED wakeVars,
         CommandAccepted \/ HandshakeReply \/ Identified \/ DataFrame
  PROVE  pc' = "read" /\ OneCallOut' /\ Truths'
<1>1. /\ pc = "handle" /\ ~EchoFirst /\ Complete(buffer) /\ Answer(Head(buffer))
      /\ UNCHANGED <<ecuStage, executed>>
      /\ connected' = connected \/ Head(buffer) = D0
      /\ alert' = alert \/ (Head(buffer) \in UserCommands /\ alert' = Head(buffer))
  BY DEF CommandAccepted, HandshakeReply, Identified, DataFrame
<1>2. OneCallOut /\ Truths /\ userCommand \in Slots
  BY <1>1 DEF LossyInv, CommandInv, CommandTypes
<1>3. Head(buffer) = lastKlineByte /\ lastKlineByte \in Requests /\ Answered /\ Calls(line) = {}
  BY <1>1, <1>2, ReplyWasPaid
<1> DEFINE d == NextCommand(lastKlineByte)
<1>4. /\ d \in Requests
      /\ \A k \in 0 .. 3 : <<k, d>> \in Walk => k > 0 /\ <<k - 1, lastKlineByte>> \in Walk
  BY <1>2, <1>3, NextIsNext
<1>5. Send(d) /\ buffer' = <<>> /\ pc' = "read"
  BY <1>1, <1>3 DEF Answer
<1> HIDE DEF d
<1>6. ASSUME NEW k \in 0 .. 3, <<k, d>> \in Walk PROVE ecuStage = k
  <2>1. k - 1 \in 0 .. 3 /\ <<k - 1, lastKlineByte>> \in Walk
    BY <1>4, <1>6
  <2>2. ecuStage = k - 1 + 1
    BY <2>1, <1>3 DEF Answered
  <2> QED
    BY <2>2
<1>7. OneCallOut'
  BY <1>1, <1>2, <1>3, <1>4, <1>5, <1>6, SendOwes DEF OneCallOut, Answered
<1>8. Head(buffer) = D0 => ecuStage = 4
  <2>1. <<3, D0>> \in Walk /\ 3 \in 0 .. 3
    BY DEF Walk
  <2> QED
    BY <1>3, <2>1 DEF Answered
<1>9. Head(buffer) \in UserCommands => executed[Head(buffer)] > 0
  BY <1>3 DEF Answered
<1>10. Truths'
  BY <1>1, <1>2, <1>8, <1>9 DEF Truths
<1> QED
  BY <1>5, <1>7, <1>10

\* What is said on the line without a request leaves the loop's account alone.
LEMMA IdleTalk ==
  ASSUME OneCallOut, NEW t \in Seq(Byte), Calls(t) = {}, line' = line \o t, UNCHANGED <<agent, ecu>>
  PROVE  OneCallOut'
<1>1. Wire \in Seq(Byte) /\ line' \in Seq(Byte) /\ Wire' = Wire \o t
  BY SaidBehind DEF OneCallOut, agent
<1>2. Thins(Wire', Wire)
  BY <1>1, IdleThins
<1> QED
  BY <1>1, <1>2, ThinnedOut DEF OneCallOut, agent, ecu

\* The wire loses a byte.
LEMMA LossStep ==
  ASSUME LoseByte
  PROVE  /\ OneCallOut => OneCallOut'
         /\ line \in Seq(Byte) /\ Calls(line) = {} => line' \in Seq(Byte) /\ Calls(line') = {}
<1>1. UNCHANGED <<agent, ecuStage, executed>>
  BY DEF LoseByte
<1>2. CASE \E i \in 1 .. Len(line) :
             line' = SubSeq(line, 1, i - 1) \o SubSeq(line, i + 1, Len(line)) /\ UNCHANGED ecuInbox
  <2>1. PICK i \in 1 .. Len(line) :
          line' = SubSeq(line, 1, i - 1) \o SubSeq(line, i + 1, Len(line)) /\ UNCHANGED ecuInbox
    BY <1>2
  <2>2. ASSUME OneCallOut PROVE OneCallOut'
    <3>1. line' \in Seq(Byte) /\ Thins(Wire', Wire)
      BY <1>1, <2>1, <2>2, LossThins DEF OneCallOut, Wire, agent
    <3> QED
      BY <1>1, <2>1, <2>2, <3>1, ThinnedOut DEF OneCallOut, agent
  <2>3. ASSUME line \in Seq(Byte), Calls(line) = {} PROVE line' \in Seq(Byte) /\ Calls(line') = {}
    <3>1. <<>> \in Seq(Byte)
      BY EmptySeq
    <3>2. line' \in Seq(Byte) /\ Thins(<<>> \o line', <<>> \o line)
      BY <2>1, <2>3, <3>1, LossThins
    <3>3. <<>> \o line' = line' /\ <<>> \o line = line
      BY <2>3, <3>2, ConcatEmptySeq
    <3>4. Thins(line', line)
      BY <3>2, <3>3
    <3> QED
      BY <2>3, <3>2, <3>4, ThinnedKeeps
  <2> QED
    BY <2>2, <2>3
<1>3. CASE ecuInbox # <<>> /\ ecuInbox' = Tail(ecuInbox) /\ UNCHANGED line
  <2>1. ASSUME OneCallOut PROVE OneCallOut'
    <3>1. ecuInbox = <<lastKlineByte>>
      BY <1>3, <2>1 DEF OneCallOut, Owed, Paid, Answered
    <3>2. ecuInbox' = <<>>
      BY <1>3, <3>1
    <3> QED
      BY <1>1, <1>3, <2>1, <3>2 DEF OneCallOut, Owed, Paid, Answered, Wire, agent
  <2> QED
    BY <1>3, <2>1
<1> QED
  BY <1>2, <1>3 DEF LoseByte

lossyVars == <<agent, connected, alert, ecu, line>>

\* Every step of session, ECU, wire and user keeps the account.
LEMMA LossyStep ==
  ASSUME NothingPassesForARequest, LossyInv, [Next19]_vars19 PROVE LossyInv'
<1>1. CommandInv'
  BY CommandStep DEF LossyInv
<1>2. CASE Connect \/ HandshakeFails \/ ConnectFails
  <2>1. UNCHANGED <<gotKlineEcho, state, ecu>>
    BY <1>2 DEF Connect, Open, SendAddress, ReadKeywords, KeywordsDeadline, SendChallenge,
         ReadAcknowledge, AcknowledgeDeadline, HandOver, HandshakeFails, ConnectFails
  <2>2. pc \in Connecting \ {"init"} /\ pc' \notin {"read", "handle"}
    BY <1>2 DEF Connect, Open, SendAddress, ReadKeywords, KeywordsDeadline, SendChallenge,
         ReadAcknowledge, AcknowledgeDeadline, HandOver, HandshakeFails, ConnectFails, Connecting
  <2>3. pc' = "init" => buffer' = <<>> /\ line' = <<>>
    BY <1>2 DEF Connect, Open, SendAddress, ReadKeywords, KeywordsDeadline, SendChallenge,
         ReadAcknowledge, AcknowledgeDeadline, HandOver, HandshakeFails, ConnectFails
  <2>4. Calls(<<>>) = {} /\ <<>> \in Seq(Byte)
    <3>1. Len(<<>>) = 0 /\ <<>> \in Seq(Byte)
      BY EmptySeq
    <3> QED
      BY <3>1 DEF Calls
  <2> QED
    BY <1>1, <2>1, <2>2, <2>3, <2>4 DEF LossyInv, Truths, state, ecu
<1>3. CASE Loop /\ UNCHANGED wakeVars
  <2>1. CASE Start
    <3>1. /\ pc = "init" /\ pc' = "read" /\ Send(CA)
          /\ UNCHANGED <<buffer, state, ecuStage, executed>>
      BY <2>1 DEF Start
    <3>2. /\ ecuInbox = <<>> /\ ecuStage = 0 /\ Truths
          /\ buffer = <<>> /\ line \in Seq(Byte) /\ Calls(line) = {}
      BY <3>1 DEF LossyInv, Connecting
    <3>3. CA \in Requests
      BY DEF Requests, Protocol
    <3>4. \A k \in 0 .. 3 : <<k, CA>> \in Walk => ecuStage = k
      BY <3>2 DEF Walk, CA, S75, F4, D0
    <3>5. OneCallOut'
      BY <3>1, <3>2, <3>3, <3>4, SendOwes
    <3> QED
      BY <1>1, <3>1, <3>2, <3>5 DEF LossyInv, Truths, Connecting, state
  <2>2. CASE Read
    <3>1. /\ pc = "read" /\ pc' = IF buffer' = <<>> THEN "read" ELSE "handle"
          /\ UNCHANGED <<gotKlineEcho, lastKlineByte, state, ecu>>
      BY <2>2 DEF Read
    <3>2. PICK n \in 0 .. Len(line) :
            buffer' = buffer \o SubSeq(line, 1, n) /\ line' = SubSeq(line, n + 1, Len(line))
      BY <2>2 DEF Read
    <3>3. OneCallOut /\ Truths
      BY <3>1 DEF LossyInv
    <3>4. buffer' \in Seq(Byte) /\ line' \in Seq(Byte) /\ Wire' = Wire
      BY <3>2, <3>3, ReadingMoves DEF OneCallOut, Wire
    <3>5. OneCallOut'
      BY <3>1, <3>3, <3>4 DEF OneCallOut, Owed, Paid, Answered, ecu
    <3> QED
      BY <1>1, <3>1, <3>3, <3>5 DEF LossyInv, Truths, Connecting, state, ecu
  <2>3. CASE Timeout \/ Cancelled
    <3>1. pc' \in Ended /\ UNCHANGED <<state, ecu>>
      BY <2>3 DEF Timeout, Cancelled, Ended
    <3> QED
      BY <1>1, <3>1 DEF LossyInv, Truths, Connecting, Ended, state, ecu
  <2>4. CASE ConsumeEcho
    <3>1. pc = "handle" /\ pc' = "read" /\ UNCHANGED <<state, ecu>>
      BY <2>4 DEF ConsumeEcho
    <3>2. OneCallOut'
      BY <2>4, <3>1, EchoPays DEF LossyInv
    <3> QED
      BY <1>1, <3>1, <3>2 DEF LossyInv, Truths, Connecting, state, ecu
  <2>5. CASE CommandAccepted \/ HandshakeReply \/ Identified \/ DataFrame
    <3>1. pc' = "read" /\ OneCallOut' /\ Truths'
      BY <1>3, <2>5, ReplyOwes
    <3> QED
      BY <1>1, <3>1 DEF LossyInv, Connecting
  <2>6. CASE AwaitMore
    <3>1. /\ pc = "handle" /\ pc' = "read"
          /\ UNCHANGED <<buffer, gotKlineEcho, lastKlineByte, state, ecu, line>>
      BY <2>6 DEF AwaitMore
    <3>2. OneCallOut'
      BY <3>1 DEF LossyInv, OneCallOut, Owed, Paid, Answered, Wire, ecu
    <3> QED
      BY <1>1, <3>1, <3>2 DEF LossyInv, Truths, Connecting, state, ecu
  <2> QED
    BY <1>3, <2>1, <2>2, <2>3, <2>4, <2>5, <2>6 DEF Loop
<1>4. CASE Surroundings /\ UNCHANGED wakeVars
  <2>1. CASE ReadFails
    <3>1. pc' \in Ended /\ UNCHANGED <<state, ecu>>
      BY <2>1 DEF ReadFails, Ended
    <3> QED
      BY <1>1, <3>1 DEF LossyInv, Truths, Connecting, Ended, state, ecu
  <2>2. CASE Shutdown \/ \E c \in UserCommands \cup {UnknownCommand} : SetUserCommand(c)
    <3>1. UNCHANGED lossyVars
      BY <2>2 DEF Shutdown, SetUserCommand, lossyVars, state
    <3> QED
      BY <1>1, <3>1 DEF lossyVars, LossyInv, OneCallOut, Owed, Paid, Answered, Wire, Truths,
           agent, ecu
  <2>3. CASE LoseByte
    <3>1. /\ UNCHANGED <<agent, state, ecuStage, executed>>
          /\ ecuInbox = <<>> => ecuInbox' = <<>>
      BY <2>3 DEF LoseByte
    <3> QED
      BY <1>1, <2>3, <3>1, LossStep DEF LossyInv, Connecting, Truths, agent, state
  <2> QED
    BY <1>4, <2>1, <2>2, <2>3 DEF Surroundings
<1>5. CASE EcuSendsKeywords \/ EcuAcknowledges
  <2>1. ASSUME line \in Seq(Byte)
        PROVE  \E t \in Seq(Byte) : line' = line \o t /\ Calls(t) = {}
    <3>1. \A x \in Keywords \cup {Sync, Acknowledge} : x \in Byte /\ x \notin Requests
      BY WakeUpAssumption DEF NothingPassesForARequest, Sync, Acknowledge, Byte
    <3>2. CASE EcuSendsKeywords
      <4>1. PICK first \in Keywords, second \in Keywords : line' = line \o <<Sync, first, second>>
        BY <3>2 DEF EcuSendsKeywords
      <4>2. /\ <<Sync, first, second>> \in Seq(Byte) /\ Len(<<Sync, first, second>>) = 3
            /\ \A i \in 1 .. 3 : <<Sync, first, second>>[i] \notin Requests
        BY <3>1
      <4> QED
        BY <4>1, <4>2 DEF Calls
    <3>3. CASE EcuAcknowledges
      <4>1. line' = line \o <<Acknowledge>>
        BY <2>1, <3>1, <3>3, AppendIsConcat DEF EcuAcknowledges
      <4>2. /\ <<Acknowledge>> \in Seq(Byte) /\ Len(<<Acknowledge>>) = 1
            /\ \A i \in 1 .. 1 : <<Acknowledge>>[i] \notin Requests
        BY <3>1
      <4> QED
        BY <4>1, <4>2 DEF Calls
    <3> QED
      BY <1>5, <3>2, <3>3
  <2>2. UNCHANGED <<agent, state, ecu>>
    BY <1>5 DEF EcuSendsKeywords, EcuAcknowledges
  <2>3. OneCallOut => OneCallOut'
    <3> SUFFICES ASSUME OneCallOut PROVE OneCallOut'
      OBVIOUS
    <3>1. PICK t \in Seq(Byte) : line' = line \o t /\ Calls(t) = {}
      BY <2>1 DEF OneCallOut
    <3> QED
      BY <2>2, <3>1, IdleTalk
  <2>4. line \in Seq(Byte) /\ Calls(line) = {} => line' \in Seq(Byte) /\ Calls(line') = {}
    <3> SUFFICES ASSUME line \in Seq(Byte), Calls(line) = {}
                 PROVE  line' \in Seq(Byte) /\ Calls(line') = {}
      OBVIOUS
    <3>1. PICK t \in Seq(Byte) : line' = line \o t /\ Calls(t) = {}
      BY <2>1
    <3>2. line \o t \in Seq(Byte) /\ Thins(line \o t, line)
      BY <3>1, IdleThins, ConcatProperties
    <3> QED
      BY <3>1, <3>2, ThinnedKeeps
  <2> QED
    BY <1>1, <2>2, <2>3, <2>4 DEF LossyInv, Truths, agent, state, ecu
<1>6. CASE OpenEcuAnswers
  <2>1. /\ ecuInbox # <<>> /\ ecuInbox' = Tail(ecuInbox)
        /\ ecuStage' = StageAfter(ecuStage, Head(ecuInbox))
        /\ executed' = IF Head(ecuInbox) \in UserCommands
                       THEN [executed EXCEPT ![Head(ecuInbox)] = @ + 1] ELSE executed
        /\ UNCHANGED <<agent, state>>
    BY <1>6 DEF OpenEcuAnswers, EcuAnswers
  <2>2. PICK r \in Replies(Head(ecuInbox)) : line' = line \o r
    BY <1>6 DEF OpenEcuAnswers, EcuAnswers
  <2>3. executed \in [UserCommands -> Nat]
    BY DEF LossyInv, CommandInv, CommandTypes
  <2>4. \A c \in UserCommands : executed[c] > 0 => executed'[c] > 0
    BY <2>1, <2>3
  <2>5. Head(ecuInbox) \in UserCommands => executed'[Head(ecuInbox)] > 0
    BY <2>1, <2>3
  <2>6. OneCallOut => OneCallOut'
    BY <2>1, <2>2, <2>5, ReplyPays
  <2>7. Truths'
    BY <2>1, <2>4 DEF LossyInv, Truths, StageAfter, state
  <2>8. pc \notin Connecting
    BY <2>1 DEF LossyInv
  <2> QED
    BY <1>1, <2>1, <2>6, <2>7, <2>8 DEF LossyInv, Connecting, agent
<1>7. CASE EcuGoesOff
  <2>1. ecuInbox' = <<>> /\ UNCHANGED <<agent, state, ecuStage, executed, line>>
    BY <1>7 DEF EcuGoesOff, IgnitionOff
  <2>2. OneCallOut => OneCallOut'
    BY <2>1 DEF OneCallOut, Owed, Paid, Answered, Wire, agent
  <2> QED
    BY <1>1, <2>1, <2>2 DEF LossyInv, Truths, agent, state
<1>8. CASE UNCHANGED vars19
  <2>1. UNCHANGED lossyVars
    BY <1>8 DEF vars19, vars, lossyVars, state
  <2> QED
    BY <1>1, <2>1 DEF lossyVars, LossyInv, OneCallOut, Owed, Paid, Answered, Wire, Truths,
         agent, ecu
<1> QED
  BY <1>2, <1>3, <1>4, <1>5, <1>6, <1>7, <1>8 DEF Next19

\* However many bytes the wire loses and however late the ECU says its keywords,
\* the dashboard is told the truth as long as no byte of the ECU's but the first
\* of a reply is that of a request.  Where an answer's data may be one, a single
\* lost byte is enough to make the dashboard show what is not so.
THEOREM OnlyDataMisleads ==
  ASSUME NothingPassesForARequest
  PROVE  Spec19 => []((connected => ecuStage = 4) /\ (alert # NoCommand => executed[alert] > 0))
<1>1. LossyInv => (connected => ecuStage = 4) /\ (alert # NoCommand => executed[alert] > 0)
  BY DEF LossyInv, Truths
<1>2. LossyInv /\ [Next19]_vars19 => LossyInv'
  BY LossyStep
<1> QED
  BY <1>1, <1>2, LossyInit, PTL DEF Spec19
=============================================================================
