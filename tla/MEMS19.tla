------------------------------- MODULE MEMS19 -------------------------------
(***************************************************************************)
(* A MEMS 1.9 session (internal/ecu/mems19): Connect wakes the ECU with    *)
(* its address at 5 baud, answers its keywords with the complement of the  *)
(* second, and hands the port to the loop of MEMS 1.x, whether the         *)
(* handshake went well or not.  A MEMS 1.x session is one that starts      *)
(* awake.                                                                  *)
(*                                                                         *)
(* readUntil's deadlines are steps.  An answer that comes after one is a   *)
(* fault of the wire like a lost byte, and counts as one.                  *)
(***************************************************************************)
EXTENDS MEMS1x

CONSTANTS
  Keywords,  \* the values of the ECU's two keyword bytes
  Junk,      \* the bytes the bit-banged address may be read back as
  MaxJunk    \* bound: how many of them

ASSUME WakeUpAssumption ==
  /\ Keywords \subseteq Byte
  /\ Junk \subseteq Byte /\ MaxJunk \in Nat

Sync == 85           \* 0x55
Acknowledge == 233   \* 0xE9, the complement of the address
Fallback == 124      \* 0x7C
NoKeyword == 256

VARIABLES
  challenge,  \* what to answer the keywords with
  wake,       \* the ECU: "asleep", "addressed", "woken", "challenged" or "open"
  keyword     \* the second keyword the ECU has sent

wakeVars == <<challenge, wake, keyword>>
vars19 == <<vars, wakeVars>>

(***************************************************************************)
(* The bytes read                                                          *)
(***************************************************************************)

\* Leading framing bytes are stripped.
Stripped(bytes) ==
  LET starts == {i \in 1 .. Len(bytes) : \A j \in 1 .. i : bytes[j] = 0}
  IN  SubSeq(bytes, Cardinality(starts) + 1, Len(bytes))

\* Looks for the keywords at the start only.
KeywordsAtStart(bytes) ==
  IF Len(bytes) >= 3 /\ bytes[1] = Sync THEN {1} ELSE {}

\* keywordFrame: the places of a sync byte that two more have followed.
KeywordsAt(bytes) == {i \in 1 .. Len(bytes) - 2 : bytes[i] = Sync}

\* The second keyword, after the first such place.
SecondKeyword(bytes) ==
  bytes[(CHOOSE i \in KeywordsAt(bytes) : \A j \in KeywordsAt(bytes) : i <= j) + 2]

(***************************************************************************)
(* Connect                                                                 *)
(***************************************************************************)

\* Drops what an earlier session has left on the line.
FlushInput == line' = <<>>

Open ==
  /\ pc = "open" /\ pc' = "address"
  /\ FlushInput
  /\ UNCHANGED <<buffer, readLoops, gotKlineEcho, lastKlineByte, state, ecu,
                 ctxDone, posted, lost, wakeVars>>

\* send5BaudWakeup; the line is read back as framing errors, whose value is the
\* driver's, or not at all.
SendAddress ==
  /\ pc = "address" /\ pc' = "keywords"
  /\ \E n \in 0 .. MaxJunk : \E noise \in [1 .. n -> Junk] : line' = line \o noise
  /\ wake' = IF ecuOn THEN "addressed" ELSE wake
  /\ UNCHANGED <<buffer, readLoops, gotKlineEcho, lastKlineByte, state, ecu,
                 ctxDone, posted, lost, challenge, keyword>>

\* The port cannot be opened, it takes no read timeout, before the wake-up or
\* after it, or its adapter cannot break the line.
ConnectFails ==
  /\ pc \in {"open", "address", "drain"} /\ pc' = "ioerror"
  /\ UNCHANGED <<buffer, readLoops, gotKlineEcho, lastKlineByte, state, ecu,
                 ctxDone, line, posted, lost, wakeVars>>

ReadKeywords ==
  /\ pc = "keywords"
  /\ \E n \in 1 .. Len(line) :
       /\ buffer' = Stripped(buffer \o SubSeq(line, 1, n))
       /\ line' = SubSeq(line, n + 1, Len(line))
  /\ IF KeywordsAt(buffer') # {}
     THEN pc' = "w4" /\ challenge' = 255 - SecondKeyword(buffer')
     ELSE UNCHANGED <<pc, challenge>>
  /\ UNCHANGED <<readLoops, gotKlineEcho, lastKlineByte, state, ecu, ctxDone,
                 posted, lost, wake, keyword>>

\* The two seconds are over: the ECU does not answer any more, or it is late.
Deadline ==
  \/ /\ line = <<>>
     /\ wake' = IF wake \in {"addressed", "challenged"} THEN "asleep" ELSE wake
     /\ UNCHANGED lost
  \/ /\ lost < MaxLost /\ lost' = lost + 1
     /\ UNCHANGED wake

KeywordsDeadline ==
  /\ pc = "keywords" /\ pc' = "w4"
  /\ Deadline
  /\ challenge' = Fallback
  /\ UNCHANGED <<buffer, readLoops, gotKlineEcho, lastKlineByte, state, ecu,
                 ctxDone, line, posted, keyword>>

\* The complement of its second keyword opens the ECU.
SendChallenge ==
  /\ pc = "w4" /\ pc' = "acknowledge"
  /\ buffer' = <<>>
  /\ line' = IF Echo THEN Append(line, challenge) ELSE line
  /\ wake' = IF wake = "woken" /\ challenge = 255 - keyword THEN "challenged" ELSE wake
  /\ UNCHANGED <<readLoops, gotKlineEcho, lastKlineByte, state, ecu, ctxDone,
                 posted, lost, challenge, keyword>>

ReadAcknowledge ==
  /\ pc = "acknowledge"
  /\ \E n \in 1 .. Len(line) :
       /\ buffer' = Stripped(buffer \o SubSeq(line, 1, n))
       /\ line' = SubSeq(line, n + 1, Len(line))
  /\ pc' = IF \E i \in DOMAIN buffer' : buffer'[i] = Acknowledge THEN "drain" ELSE pc
  /\ UNCHANGED <<readLoops, gotKlineEcho, lastKlineByte, state, ecu, ctxDone,
                 posted, lost, wakeVars>>

AcknowledgeDeadline ==
  /\ pc = "acknowledge" /\ pc' = "drain"
  /\ Deadline
  /\ UNCHANGED <<buffer, readLoops, gotKlineEcho, lastKlineByte, state, ecu,
                 ctxDone, line, posted, challenge, keyword>>

\* A read or the write of the challenge fails: only the handshake is given up,
\* and what the ECU had begun to say is late as well.
HandshakeFails ==
  /\ pc \in {"keywords", "w4", "acknowledge"} /\ pc' = "drain"
  /\ Deadline
  /\ UNCHANGED <<buffer, readLoops, gotKlineEcho, lastKlineByte, state, ecu,
                 ctxDone, line, posted, challenge, keyword>>

\* The leftovers are drained, and the loop of MEMS 1.x takes over.
HandOver ==
  /\ pc = "drain" /\ pc' = "init"
  /\ line' = <<>> /\ buffer' = <<>> /\ challenge' = Fallback
  /\ UNCHANGED <<readLoops, gotKlineEcho, lastKlineByte, state, ecu, ctxDone,
                 posted, lost, wake, keyword>>

Connect ==
  \/ Open \/ SendAddress \/ ReadKeywords \/ KeywordsDeadline \/ SendChallenge
  \/ ReadAcknowledge \/ AcknowledgeDeadline \/ HandOver

(***************************************************************************)
(* The ECU                                                                 *)
(***************************************************************************)

EcuSendsKeywords ==
  /\ ecuOn /\ wake = "addressed" /\ wake' = "woken"
  /\ \E first, second \in Keywords :
       line' = line \o <<Sync, first, second>> /\ keyword' = second
  /\ UNCHANGED <<agent, state, ecu, ctxDone, posted, lost, challenge>>

EcuAcknowledges ==
  /\ ecuOn /\ wake = "challenged" /\ wake' = "open" /\ keyword' = NoKeyword
  /\ line' = Append(line, Acknowledge)
  /\ UNCHANGED <<agent, state, ecu, ctxDone, posted, lost, challenge>>

\* Only an ECU that is open answers requests.
OpenEcuAnswers == wake = "open" /\ EcuAnswers /\ UNCHANGED wakeVars

EcuGoesOff == IgnitionOff /\ wake' = "asleep" /\ keyword' = NoKeyword /\ UNCHANGED challenge

(***************************************************************************)
(* Specification                                                           *)
(***************************************************************************)

\* A 1.9 finds on the line what a failed session has left, keywords even.
Init19 ==
  /\ challenge = Fallback /\ keyword = NoKeyword
  /\ \/ InitAt("init") /\ line = <<>> /\ wake = "open"
     \/ InitAt("open") /\ line \in {<<>>, <<Sync, 0, 0>>} /\ wake = "asleep"

\* What the 1.x loop, its users and the wire do leaves the wake-up alone.
Surroundings ==
  \/ ReadFails \/ Shutdown \/ LoseByte
  \/ \E c \in UserCommands \cup {UnknownCommand} : SetUserCommand(c)

Next19 ==
  \/ Connect \/ ConnectFails \/ HandshakeFails
  \/ Loop /\ UNCHANGED wakeVars
  \/ pc \notin Ended /\ Surroundings /\ UNCHANGED wakeVars
  \/ EcuSendsKeywords \/ EcuAcknowledges \/ OpenEcuAnswers \/ EcuGoesOff

Spec19 == Init19 /\ [][Next19]_vars19

\* The agent's goroutine runs on, through Connect and the loop.
FairSpec19 == Spec19 /\ WF_vars19(Connect \/ (Loop /\ UNCHANGED wakeVars))

(***************************************************************************)
(* Properties                                                              *)
(***************************************************************************)

\* "Sending that back tells the ECU we understood its keywords": whatever an
\* earlier session left on the line and however the bytes arrive, the challenge
\* is the complement of the second keyword of this ECU, unless the wire lost or
\* delayed something, or the address is read back with a byte that looks like
\* the sync byte.  Other "junk depending on adapter and driver" is passed over;
\* a 55 among it is taken for the frame, and the two bytes after it for the
\* keywords.
ChallengeIsTheComplement ==
  [][Sync \notin Junk /\ pc = "w4" /\ pc' = "acknowledge" /\ wake = "woken" /\ lost = 0
       => challenge = 255 - keyword]_vars19
=============================================================================
