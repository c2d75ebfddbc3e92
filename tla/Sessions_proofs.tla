-------------------------- MODULE Sessions_proofs --------------------------
(***************************************************************************)
(* Three things hold of every MEMS 2J, MEMS 3, RC5 or fake session, for    *)
(* any commands, poll list, seeds and limits, and two invariants carry     *)
(* them.                                                                   *)
(*                                                                         *)
(* HonestInv says what each cell on its way may be: a user command is      *)
(* carried out at most as often as it was posted, none is reported that    *)
(* was not carried out, and no reply is on its way that only a session the *)
(* ECU has let in would get.  The last part gives AccessComesFirst.        *)
(*                                                                         *)
(* TurnInv says how many frames are on their way while the wire has lost   *)
(* nothing: at most one request's echo and its answer, and none while a    *)
(* session is about to send.  It gives RequestsTakeTurns.                  *)
(*                                                                         *)
(* Each is kept by the steps that the handlers have in common, by those of *)
(* users, ECU and wire, and by each handler's own.  A handler's module is  *)
(* instantiated with KLine's own constants and variables, so what it has   *)
(* of KLine is KLine's.                                                    *)
(***************************************************************************)
EXTENDS Sessions, SequenceTheorems, TLAPS

(***************************************************************************)
(* What KLine holds, and the steps that the handlers have in common        *)
(***************************************************************************)

Names == Commands \cup Steps
Keys == {0} \cup {GenerateKey(s) : s \in Seeds}

Requests == [name : Names, arg : Keys]

\* What lies behind the security access.
Behind == {"ping"} \cup {Poll[i] : i \in DOMAIN Poll}

\* The ECU is there, has dropped nobody, and has not let the session in.
ShutOut == handler \in {"2J", "3"} /\ ecuOn /\ drops = 0 /\ access # "granted"

\* What travels on the line.  A reply is honest: a user command it answers has
\* been carried out, and what lies behind the security access it answers only
\* to those it has let in.
Frames ==
  [kind : {"echo", "refusal"}, name : Names, arg : Keys]
    \cup [kind : {"reply"}, name : Names, arg : Seeds \cup {0}]
HonestFrames ==
  {f \in Frames :
     /\ f.kind = "reply" /\ f.name \in Commands => executed[f.name] > 0
     /\ f.kind = "reply" /\ f.name \in Behind => ~ShutOut}
HonestCells == HonestFrames \X {"head", "tail", "zero"}

\* Command c is pending, or chosen to be sent.
Wanted(c) == IF userCommand = c \/ chosen = c THEN 1 ELSE 0

\* The ECU has been asked for command c and has not answered.
Asked(c) == IF inbox # <<>> /\ inbox[1].name = c THEN 1 ELSE 0

HonestTypes ==
  /\ userCommand \in Posts \cup {NoCommand} /\ alert \in Posts \cup {NoCommand}
  /\ chosen \in Names /\ (handler # "rc5" => chosen = "none")
  /\ key \in Keys
  /\ inbox \in {<<>>} \cup {<<m>> : m \in Requests}
  /\ posted \in [Posts -> Nat] /\ executed \in [Posts -> Nat]
  /\ drops \in Nat
  /\ line \in Seq(HonestCells) /\ buffer \in Seq(HonestCells)

\* What was posted is wanted, asked for, carried out, or lost.
Accounts == \A c \in Posts : executed[c] + Asked(c) + Wanted(c) <= posted[c]

AlertIsDue == alert # NoCommand => executed[alert] > 0

HonestInv == HonestTypes /\ Accounts /\ AlertIsDue

(***************************************************************************)
(* Names, frames and cells                                                 *)
(***************************************************************************)

\* A request of the walk is not a user command, nor is an empty slot.
LEMMA NamesApart ==
  /\ Commands \cap Steps = {} /\ Posts \cap Steps = {} /\ NoCommand \notin Posts
  /\ Commands \subseteq Posts /\ Commands \subseteq Names
  /\ {"none", "init", "diag", "seed", "key", "ping"} \subseteq Steps
  /\ {"clearfaults", "learnimmo"} \subseteq Commands
  /\ \A i \in DOMAIN Poll : Poll[i] \in Steps
  /\ \A i \in 1 .. Len(Poll) : Poll[i] \in Steps
  /\ "faults" \in Steps
<1>1. DOMAIN Poll = 1 .. Len(Poll) /\ 1 \in DOMAIN Poll
  BY KLineAssumption
<1> QED
  BY <1>1, KLineAssumption DEF Posts, Steps, Names

\* What lies behind the security access is neither a user command nor a step
\* that leads there.
LEMMA BehindIsApart ==
  /\ Behind \cap Commands = {}
  /\ Behind \cap {"none", "init", "diag", "seed", "key"} = {}
<1>1. \A i \in DOMAIN Poll : Poll[i] \notin {"none", "init", "diag", "seed", "key", "ping"}
  BY KLineAssumption
<1> QED
  BY <1>1, NamesApart DEF Behind

\* A frame's cells are honest if it is.
LEMMA CellsAreHonest ==
  ASSUME NEW f \in HonestFrames
  PROVE  Cells(f) \in Seq(HonestCells)
BY DEF Cells, HonestCells

\* Honest cells make an honest frame.
LEMMA FrameIsHonest ==
  ASSUME NEW s \in Seq(HonestCells), s # <<>>
  PROVE  Frame(s) \in HonestFrames
<1>1. Head(s) \in HonestCells
  BY HeadTailProperties
<1> QED
  BY <1>1 DEF Frame, HonestCells

\* A piece of a sequence.
LEMMA PiecesAreHonest ==
  ASSUME NEW S, NEW s \in Seq(S), NEW m \in Int, NEW n \in Int, m >= 1, n <= Len(s)
  PROVE  SubSeq(s, m, n) \in Seq(S)
<1>1. \A i \in m .. n : s[i] \in S
  OBVIOUS
<1> QED
  BY <1>1, SubSeqProperties

\* Requests are honest frames.
LEMMA RequestsAreHonest ==
  ASSUME NEW name \in Names, NEW arg \in Keys
  PROVE  Request(name, arg) \in HonestFrames
BY DEF Request, HonestFrames, Frames

\* A zero byte of the wake-up, and the frame nobody sent.
LEMMA ZeroIsHonest == Zero \in HonestCells /\ NoFrame \in HonestFrames
<1>1. "none" \in Names /\ 0 \in Keys
  BY NamesApart DEF Names, Keys
<1> QED
  BY <1>1, RequestsAreHonest DEF Zero, NoFrame, HonestCells

\* Neither carrying out a command nor letting a session in takes honesty away.
LEMMA HonestyGrows ==
  ASSUME HonestTypes, executed' \in [Posts -> Nat], ShutOut' => ShutOut,
         \A c \in Posts : executed'[c] >= executed[c]
  PROVE  /\ HonestFrames \subseteq HonestFrames'
         /\ HonestCells \subseteq HonestCells'
         /\ line \in Seq(HonestCells') /\ buffer \in Seq(HonestCells')
<1>1. ASSUME NEW f \in HonestFrames PROVE f \in HonestFrames'
  <2>1. ASSUME f.kind = "reply", f.name \in Commands PROVE executed'[f.name] > 0
    <3>1. f.name \in Posts /\ executed[f.name] > 0
      BY <2>1 DEF HonestFrames, Posts
    <3>2. executed[f.name] \in Nat /\ executed'[f.name] \in Nat
      BY <3>1 DEF HonestTypes
    <3> QED
      BY <3>1, <3>2
  <2> QED
    BY <2>1 DEF HonestFrames
<1>2. HonestCells \subseteq HonestCells'
  BY <1>1 DEF HonestCells
<1>3. line \in Seq(HonestCells) /\ buffer \in Seq(HonestCells)
  BY DEF HonestTypes
<1> HIDE DEF HonestCells
<1> QED
  BY <1>1, <1>2, <1>3, SeqMonotonic

(***************************************************************************)
(* Steps of every handler                                                  *)
(***************************************************************************)

\* Cells that arrive, are kept or are dropped.
LEMMA ArrivalKeepsHonest ==
  ASSUME HonestInv, line' \in Seq(HonestCells), buffer' \in Seq(HonestCells),
         UNCHANGED <<handler, ecuOn, drops, access, userCommand, alert, chosen, inbox, key, posted, executed>>
  PROVE  HonestInv'
<1>1. HonestCells' = HonestCells
  BY DEF HonestCells, HonestFrames, ShutOut
<1> QED
  BY <1>1 DEF HonestInv, HonestTypes, Accounts, AlertIsDue, Wanted, Asked

\* The end of a session.
LEMMA EndKeepsHonest ==
  ASSUME HonestInv, NEW how, End(how)
  PROVE  HonestInv'
<1>1. /\ buffer' = <<>> /\ line' = <<>> /\ inbox' = <<>> /\ chosen' = "none" /\ key' = 0
      /\ UNCHANGED <<handler, ecuOn, drops, access, userCommand, alert, posted, executed>>
  BY DEF End, shared, surroundings
<1>2. HonestCells' = HonestCells
  BY <1>1 DEF HonestCells, HonestFrames, ShutOut
<1>3. "none" \in Names /\ "none" \notin Posts
  BY NamesApart DEF Names
<1>4. HonestTypes'
  <2>1. line' \in Seq(HonestCells') /\ buffer' \in Seq(HonestCells')
    BY <1>1
  <2> QED
    BY <1>1, <1>3, <2>1 DEF HonestInv, HonestTypes, Keys
<1>5. ASSUME NEW c \in Posts PROVE executed'[c] + Asked(c)' + Wanted(c)' <= posted'[c]
  <2>1. executed[c] \in Nat /\ posted[c] \in Nat
    BY DEF HonestInv, HonestTypes
  <2>2. executed[c] + Asked(c) + Wanted(c) <= posted[c]
    BY DEF HonestInv, Accounts
  <2>3. Asked(c)' = 0 /\ Asked(c) \in {0, 1}
    BY <1>1 DEF Asked
  <2>4. Wanted(c)' <= Wanted(c) /\ Wanted(c) \in {0, 1} /\ Wanted(c)' \in {0, 1}
    BY <1>1, <1>3 DEF Wanted
  <2> QED
    BY <1>1, <2>1, <2>2, <2>3, <2>4
<1> QED
  BY <1>1, <1>4, <1>5 DEF HonestInv, Accounts, AlertIsDue

\* A transmission: of a command that is wanted, and then no longer, or of a
\* step of the walk.
LEMMA SendKeepsHonest ==
  ASSUME HonestInv, NEW name \in Names, NEW arg \in Keys, Transmit(name, arg),
         name \in Commands => name \in {userCommand, chosen} /\ userCommand' = NoCommand,
         userCommand' \in {userCommand, NoCommand}, chosen' = "none", key' \in Keys,
         buffer' \in Seq(HonestCells),
         alert' \in Posts \cup {NoCommand}, alert' # NoCommand => executed[alert'] > 0,
         UNCHANGED <<handler, ecuOn, drops, access, posted, executed>>
  PROVE  HonestInv'
<1>1. HonestCells' = HonestCells
  BY DEF HonestCells, HonestFrames, ShutOut
<1>2. line' \in Seq(HonestCells)
  <2>1. Cells(Request(name, arg)) \in Seq(HonestCells)
    BY RequestsAreHonest, CellsAreHonest
  <2>2. line \in Seq(HonestCells)
    BY DEF HonestInv, HonestTypes
  <2>3. line \o Cells(Request(name, arg)) \in Seq(HonestCells)
    BY <2>1, <2>2, ConcatProperties
  <2> QED
    BY <2>2, <2>3 DEF Transmit
<1>3. inbox' \in {inbox, <<[name |-> name, arg |-> arg]>>} /\ (inbox # <<>> => inbox' = inbox)
  BY DEF Transmit
<1>4. "none" \in Names /\ "none" \notin Posts /\ NoCommand \notin Posts
  BY NamesApart DEF Names
<1>5. HonestTypes'
  <2>1. inbox' \in {<<>>} \cup {<<m>> : m \in Requests}
    BY <1>3 DEF HonestInv, HonestTypes, Requests
  <2> QED
    BY <1>1, <1>2, <1>4, <2>1 DEF HonestInv, HonestTypes
<1>6. ASSUME NEW c \in Posts PROVE executed'[c] + Asked(c)' + Wanted(c)' <= posted'[c]
  <2>1. executed[c] \in Nat /\ posted[c] \in Nat
    BY DEF HonestInv, HonestTypes
  <2>2. executed[c] + Asked(c) + Wanted(c) <= posted[c]
    BY DEF HonestInv, Accounts
  <2>3. Asked(c)' + Wanted(c)' <= Asked(c) + Wanted(c)
    <3>1. CASE inbox' = inbox
      BY <3>1, <1>4 DEF Asked, Wanted
    <3>2. CASE inbox' # inbox
      <4>1. inbox = <<>> /\ inbox'[1].name = name
        BY <3>2, <1>3
      <4>2. CASE name = c
        <5>1. name \in Commands
          BY <4>2, NamesApart DEF Names
        <5> QED
          BY <4>1, <4>2, <5>1, <1>4 DEF Asked, Wanted
      <4>3. CASE name # c
        BY <4>1, <4>3, <1>4 DEF Asked, Wanted
      <4> QED
        BY <4>2, <4>3
    <3> QED
      BY <3>1, <3>2
  <2>4. {Asked(c), Wanted(c), Asked(c)', Wanted(c)'} \subseteq {0, 1}
    BY DEF Asked, Wanted
  <2> QED
    BY <2>1, <2>2, <2>3, <2>4
<1> QED
  BY <1>5, <1>6 DEF HonestInv, Accounts, AlertIsDue

\* A wake-up, which is on the line before anything else.
LEMMA WakeKeepsHonest ==
  ASSUME HonestInv, line' \in Seq(HonestCells),
         inbox' \in {<<>>, <<[name |-> "init", arg |-> 0]>>},
         UNCHANGED <<handler, ecuOn, drops, access, userCommand, alert, chosen, key, buffer, posted, executed>>
  PROVE  HonestInv'
<1>1. HonestCells' = HonestCells
  BY DEF HonestCells, HonestFrames, ShutOut
<1>2. "init" \in Names /\ "init" \notin Posts /\ 0 \in Keys
  BY NamesApart DEF Names, Keys
<1>3. HonestTypes'
  BY <1>1, <1>2 DEF HonestInv, HonestTypes, Requests
<1>4. ASSUME NEW c \in Posts PROVE executed'[c] + Asked(c)' + Wanted(c)' <= posted'[c]
  <2>1. executed[c] \in Nat /\ posted[c] \in Nat
    BY DEF HonestInv, HonestTypes
  <2>2. executed[c] + Asked(c) + Wanted(c) <= posted[c]
    BY DEF HonestInv, Accounts
  <2>3. Asked(c)' = 0
    BY <1>2 DEF Asked
  <2>4. Wanted(c)' = Wanted(c) /\ Asked(c) \in {0, 1} /\ Wanted(c) \in {0, 1}
    BY DEF Asked, Wanted
  <2> QED
    BY <2>1, <2>2, <2>3, <2>4
<1> QED
  BY <1>3, <1>4 DEF HonestInv, Accounts, AlertIsDue

(***************************************************************************)
(* Steps of the users, the ECU and the wire                                *)
(***************************************************************************)

\* A posted command replaces the pending one.
LEMMA PostKeepsHonest ==
  ASSUME HonestInv, NEW d \in Posts, SetUserCommand(d)
  PROVE  HonestInv'
<1>1. /\ userCommand' = d /\ posted' = [posted EXCEPT ![d] = @ + 1]
      /\ UNCHANGED <<handler, ecuOn, drops, access, alert, chosen, key, inbox, line, buffer, executed>>
  BY DEF SetUserCommand, session, ecu
<1>2. HonestCells' = HonestCells
  BY <1>1 DEF HonestCells, HonestFrames, ShutOut
<1>3. HonestTypes'
  BY <1>1, <1>2 DEF HonestInv, HonestTypes
<1>4. ASSUME NEW c \in Posts PROVE executed'[c] + Asked(c)' + Wanted(c)' <= posted'[c]
  <2>1. executed[c] \in Nat /\ posted[c] \in Nat
    BY DEF HonestInv, HonestTypes
  <2>2. executed[c] + Asked(c) + Wanted(c) <= posted[c]
    BY DEF HonestInv, Accounts
  <2>3. posted'[c] = IF c = d THEN posted[c] + 1 ELSE posted[c]
    BY <1>1 DEF HonestInv, HonestTypes
  <2>4. Asked(c)' = Asked(c) /\ Wanted(c)' <= Wanted(c) + (IF c = d THEN 1 ELSE 0)
    BY <1>1 DEF Asked, Wanted
  <2>5. {Asked(c), Wanted(c), Wanted(c)'} \subseteq {0, 1}
    BY DEF Asked, Wanted
  <2> QED
    BY <1>1, <2>1, <2>2, <2>3, <2>4, <2>5
<1> QED
  BY <1>1, <1>3, <1>4 DEF HonestInv, Accounts, AlertIsDue

\* The ECU goes, drops the session or misses a request.
LEMMA MissedKeepsHonest ==
  ASSUME HonestInv, inbox' \in {inbox, <<>>}, ShutOut' => ShutOut, drops' \in Nat,
         UNCHANGED <<handler, userCommand, alert, chosen, key, line, buffer, posted, executed>>
  PROVE  HonestInv'
<1>1. line' \in Seq(HonestCells') /\ buffer' \in Seq(HonestCells')
  <2>1. /\ executed' \in [Posts -> Nat]
        /\ \A c \in Posts : executed'[c] >= executed[c]
    BY DEF HonestInv, HonestTypes
  <2> QED
    BY <2>1, HonestyGrows DEF HonestInv
<1>2. HonestTypes'
  BY <1>1 DEF HonestInv, HonestTypes
<1>3. ASSUME NEW c \in Posts PROVE executed'[c] + Asked(c)' + Wanted(c)' <= posted'[c]
  <2>1. executed[c] \in Nat /\ posted[c] \in Nat
    BY DEF HonestInv, HonestTypes
  <2>2. executed[c] + Asked(c) + Wanted(c) <= posted[c]
    BY DEF HonestInv, Accounts
  <2>3. Asked(c)' \in {0, Asked(c)} /\ Wanted(c)' = Wanted(c) /\ {Asked(c), Wanted(c)} \subseteq {0, 1}
    BY DEF Asked, Wanted
  <2> QED
    BY <2>1, <2>2, <2>3
<1> QED
  BY <1>2, <1>3 DEF HonestInv, Accounts, AlertIsDue

\* An answer to a request that is no user command, or that refuses one.
LEMMA AnswerKeepsHonest ==
  ASSUME HonestInv, NEW f \in HonestFrames', line' = line \o Cells(f), inbox' = <<>>,
         ShutOut' => ShutOut,
         UNCHANGED <<handler, drops, userCommand, alert, chosen, key, buffer, posted, executed>>
  PROVE  HonestInv'
<1>1. line \in Seq(HonestCells') /\ buffer \in Seq(HonestCells')
  <2>1. /\ executed' \in [Posts -> Nat]
        /\ \A c \in Posts : executed'[c] >= executed[c]
    BY DEF HonestInv, HonestTypes
  <2> QED
    BY <2>1, HonestyGrows DEF HonestInv
<1>2. line' \in Seq(HonestCells')
  <2>1. Cells(f) \in Seq(HonestCells')
    BY DEF Cells, HonestCells
  <2> QED
    BY <1>1, <2>1, ConcatProperties
<1>3. HonestTypes'
  BY <1>1, <1>2 DEF HonestInv, HonestTypes
<1>4. ASSUME NEW c \in Posts PROVE executed'[c] + Asked(c)' + Wanted(c)' <= posted'[c]
  <2>1. executed[c] \in Nat /\ posted[c] \in Nat
    BY DEF HonestInv, HonestTypes
  <2>2. executed[c] + Asked(c) + Wanted(c) <= posted[c]
    BY DEF HonestInv, Accounts
  <2>3. Asked(c)' = 0 /\ Wanted(c)' = Wanted(c) /\ {Asked(c), Wanted(c)} \subseteq {0, 1}
    BY DEF Asked, Wanted
  <2> QED
    BY <2>1, <2>2, <2>3
<1> QED
  BY <1>3, <1>4 DEF HonestInv, Accounts, AlertIsDue

\* A user command that was asked for is carried out, and reported.
LEMMA ExecutionKeepsHonest ==
  ASSUME HonestInv, inbox # <<>>, NEW c \in Commands, inbox[1].name = c,
         line' = line \o Cells(Reply(c, 0)), inbox' = <<>>,
         executed' = [executed EXCEPT ![c] = @ + 1], ShutOut' => ShutOut,
         UNCHANGED <<handler, drops, userCommand, alert, chosen, key, buffer, posted>>
  PROVE  HonestInv'
<1>1. c \in Posts /\ c \in Names /\ executed \in [Posts -> Nat]
  BY NamesApart DEF HonestInv, HonestTypes
<1>2. executed' \in [Posts -> Nat] /\ executed'[c] = executed[c] + 1
  BY <1>1
<1>3. \A d \in Posts : executed'[d] = executed[d] + (IF d = c THEN 1 ELSE 0)
  BY <1>1
<1>4. \A d \in Posts : executed'[d] >= executed[d]
  BY <1>1, <1>3
<1>5. line \in Seq(HonestCells') /\ buffer \in Seq(HonestCells')
  BY <1>2, <1>4, HonestyGrows DEF HonestInv
<1>6. Reply(c, 0) \in HonestFrames'
  BY <1>1, <1>2, NamesApart DEF Reply, HonestFrames, Frames, Behind
<1>7. Cells(Reply(c, 0)) \in Seq(HonestCells')
  BY <1>6 DEF Cells, HonestCells
<1>8. line' \in Seq(HonestCells')
  BY <1>5, <1>7, ConcatProperties
<1>9. HonestTypes'
  BY <1>2, <1>5, <1>8 DEF HonestInv, HonestTypes
<1>10. ASSUME NEW d \in Posts PROVE executed'[d] + Asked(d)' + Wanted(d)' <= posted'[d]
  <2>1. executed[d] \in Nat /\ posted[d] \in Nat
    BY DEF HonestInv, HonestTypes
  <2>2. executed[d] + Asked(d) + Wanted(d) <= posted[d]
    BY DEF HonestInv, Accounts
  <2>3. Asked(d)' = 0 /\ Wanted(d)' = Wanted(d) /\ Wanted(d) \in {0, 1}
    BY DEF Asked, Wanted
  <2>4. Asked(d) = IF d = c THEN 1 ELSE 0
    BY DEF Asked
  <2> QED
    BY <1>3, <2>1, <2>2, <2>3, <2>4
<1>11. AlertIsDue'
  <2>1. CASE alert = NoCommand
    BY <2>1 DEF AlertIsDue
  <2>2. CASE alert \in Posts /\ alert # NoCommand
    <3>1. executed[alert] > 0 /\ executed[alert] \in Nat /\ executed'[alert] \in Nat
      BY <1>2, <2>2 DEF HonestInv, HonestTypes, AlertIsDue
    <3> QED
      BY <1>4, <2>2, <3>1 DEF AlertIsDue
  <2> QED
    BY <2>1, <2>2 DEF HonestInv, HonestTypes
<1> QED
  BY <1>9, <1>10, <1>11 DEF HonestInv, Accounts

\* The ECU: it reports a command only if it carries it out, and answers what
\* lies behind the security access only if it has let the session in.
LEMMA EcuKeepsHonest == ASSUME HonestInv, EcuAnswers PROVE HonestInv'
<1> DEFINE name == Head(inbox).name
<1>1. /\ inbox # <<>> /\ inbox' = <<>> /\ name = inbox[1].name
      /\ UNCHANGED <<handler, drops, userCommand, alert, chosen, key, buffer, posted>>
  BY DEF EcuAnswers, session, shared, HonestInv, HonestTypes
<1>2. name \in Names
  BY <1>1 DEF HonestInv, HonestTypes, Requests
<1>3. 0 \in Keys /\ 0 \in Seeds \cup {0}
  BY DEF Keys
<1>4. Refusal(name) \in HonestFrames'
  BY <1>2, <1>3 DEF Refusal, HonestFrames, Frames
<1>5. ASSUME name \notin Commands, NEW arg \in Seeds \cup {0}, name \in Behind => ~ShutOut'
      PROVE  Reply(name, arg) \in HonestFrames'
  BY <1>2, <1>5 DEF Reply, HonestFrames, Frames
<1>14. (access = "granted" => access' = "granted") /\ (ShutOut' => ShutOut)
  <2>1. access = "granted" => access' = "granted"
    BY DEF EcuAnswers, Accept, Answer
  <2> QED
    BY <2>1 DEF EcuAnswers, ShutOut
<1>6. {"init", "diag", "seed", "key", "ping"} \cap Commands = {}
  BY NamesApart
<1>7. \A i \in DOMAIN Poll : Poll[i] \notin Commands
  BY NamesApart
<1>8. CASE /\ name \in Commands
           /\ line' = line \o Cells(Reply(name, 0))
           /\ executed' = [executed EXCEPT ![name] = @ + 1]
  BY <1>1, <1>8, <1>14, ExecutionKeepsHonest
<1>9. CASE UNCHANGED executed /\ \E f \in HonestFrames' : line' = line \o Cells(f)
  BY <1>1, <1>9, <1>14, AnswerKeepsHonest
<1>10. CASE name \notin Commands
  <2>1. UNCHANGED executed
    BY <1>10 DEF EcuAnswers
  <2>2. CASE name \notin Behind
    <3>1. \E arg \in Seeds \cup {0} :
            line' \in {line \o Cells(Reply(name, arg)), line \o Cells(Refusal(name))}
      BY <1>3, <1>10 DEF EcuAnswers, Accept, Answer
    <3> QED
      BY <1>4, <1>5, <1>9, <1>10, <2>1, <2>2, <3>1
  <2>3. CASE name \in Behind
    <3>1. name \notin {"init", "diag", "seed", "key"}
      BY <2>3, KLineAssumption DEF Behind
    <3>2. \/ access' = "granted" /\ line' = line \o Cells(Reply(name, 0))
          \/ line' = line \o Cells(Refusal(name))
      BY <1>10, <3>1 DEF EcuAnswers, Accept, Answer
    <3>3. access' = "granted" => ~ShutOut'
      BY DEF ShutOut
    <3> QED
      BY <1>3, <1>4, <1>5, <1>9, <1>10, <2>1, <3>2, <3>3
  <2> QED
    BY <2>2, <2>3
<1>11. CASE name \in Commands
  <2>1. name \notin {"init", "diag", "seed", "key", "ping"} \cup {Poll[i] : i \in DOMAIN Poll}
    BY <1>6, <1>7, <1>11
  <2>2. \/ /\ line' = line \o Cells(Reply(name, 0))
           /\ executed' = [executed EXCEPT ![name] = @ + 1]
        \/ line' = line \o Cells(Refusal(name)) /\ UNCHANGED executed
    BY <2>1 DEF EcuAnswers, Accept, Answer
  <2> QED
    BY <1>4, <1>8, <1>9, <1>11, <2>2
<1> QED
  BY <1>10, <1>11

\* Everything around a session.
LEMMA EnvironmentKeepsHonest == ASSUME HonestInv, Environment PROVE HonestInv'
<1>1. CASE \E c \in Posts : SetUserCommand(c)
  BY <1>1, PostKeepsHonest
<1>2. CASE Shutdown
  <2>1. UNCHANGED <<handler, ecuOn, drops, access, userCommand, alert, chosen, inbox, key, posted,
                    executed, line, buffer>>
    BY <1>2 DEF Shutdown, session, shared, ecu
  <2> QED
    BY <2>1, ArrivalKeepsHonest DEF HonestInv, HonestTypes
<1>6. CASE EcuDrops
  <2>1. UNCHANGED <<handler, userCommand, alert, chosen, inbox, key, posted, executed, line, buffer>>
    BY <1>6 DEF EcuDrops, session, shared
  <2>2. ~ShutOut' /\ drops' \in Nat
    BY <1>6 DEF EcuDrops, ShutOut, HonestInv, HonestTypes
  <2> QED
    BY <2>1, <2>2, MissedKeepsHonest
<1>3. CASE EcuAnswers
  BY <1>3, EcuKeepsHonest
<1>4. CASE IgnitionOff
  <2>1. /\ inbox' = <<>> /\ ~ShutOut'
        /\ UNCHANGED <<handler, drops, userCommand, alert, chosen, key, line, buffer, posted, executed>>
    BY <1>4 DEF IgnitionOff, session, shared, ShutOut
  <2> QED
    BY <2>1, MissedKeepsHonest DEF HonestInv, HonestTypes
<1>5. CASE LoseCell
  <2>1. UNCHANGED <<handler, ecuOn, drops, access, userCommand, alert, chosen, key, buffer, posted, executed>>
    BY <1>5 DEF LoseCell, session, shared
  <2>2. CASE inbox' = <<>> /\ UNCHANGED line
    BY <2>1, <2>2, MissedKeepsHonest DEF ShutOut, HonestInv, HonestTypes
  <2>3. CASE /\ UNCHANGED inbox
             /\ \E i \in 1 .. Len(line) :
                  line' = SubSeq(line, 1, i - 1) \o SubSeq(line, i + 1, Len(line))
    <3>1. PICK i \in 1 .. Len(line) :
            line' = SubSeq(line, 1, i - 1) \o SubSeq(line, i + 1, Len(line))
      BY <2>3
    <3>2. line \in Seq(HonestCells) /\ Len(line) \in Nat
      BY DEF HonestInv, HonestTypes
    <3>3. SubSeq(line, 1, i - 1) \in Seq(HonestCells) /\ SubSeq(line, i + 1, Len(line)) \in Seq(HonestCells)
      BY <3>2, PiecesAreHonest
    <3>4. line' \in Seq(HonestCells) /\ buffer' \in Seq(HonestCells)
      BY <2>1, <3>1, <3>3, ConcatProperties DEF HonestInv, HonestTypes
    <3> QED
      BY <2>1, <2>3, <3>4, ArrivalKeepsHonest
  <2> QED
    BY <1>5, <2>2, <2>3 DEF LoseCell
<1> QED
  BY <1>1, <1>2, <1>3, <1>4, <1>5, <1>6 DEF Environment

(***************************************************************************)
(* A session starts with at most one command wanted.                       *)
(***************************************************************************)
\* At most one command is posted before the session, and nothing is on the line.
LEMMA InitIsHonest == ASSUME NEW type, Init(type) PROVE HonestInv
<1>1. "none" \in Names /\ "none" \notin Posts /\ NoCommand \notin Posts /\ 0 \in Keys
  BY NamesApart DEF Names, Keys
<1>2. HonestTypes
  BY <1>1 DEF Init, HonestTypes
<1>3. ASSUME NEW c \in Posts PROVE executed[c] + Asked(c) + Wanted(c) <= posted[c]
  BY <1>1 DEF Init, Asked, Wanted
<1> QED
  BY <1>2, <1>3 DEF HonestInv, Accounts, AlertIsDue, Init

(***************************************************************************)
(* The handlers' steps                                                     *)
(***************************************************************************)

\* What is read from the line.
LEMMA ReadIsHonest ==
  ASSUME HonestInv, NEW n \in 0 .. Len(line)
  PROVE  /\ SubSeq(line, n + 1, Len(line)) \in Seq(HonestCells)
         /\ buffer \o SubSeq(line, 1, n) \in Seq(HonestCells)
<1>1. line \in Seq(HonestCells) /\ buffer \in Seq(HonestCells) /\ Len(line) \in Nat
  BY DEF HonestInv, HonestTypes
<1>2. SubSeq(line, n + 1, Len(line)) \in Seq(HonestCells) /\ SubSeq(line, 1, n) \in Seq(HonestCells)
  BY <1>1, PiecesAreHonest
<1> QED
  BY <1>1, <1>2, ConcatProperties

\* What is left of the buffer.
LEMMA RestIsHonest ==
  ASSUME HonestInv, NEW n \in Nat
  PROVE  SubSeq(buffer, n + 1, Len(buffer)) \in Seq(HonestCells)
<1>1. buffer \in Seq(HonestCells) /\ Len(buffer) \in Nat
  BY DEF HonestInv, HonestTypes
<1> QED
  BY <1>1, PiecesAreHonest

(***************************************************************************)
(* MEMS 2J                                                                 *)
(***************************************************************************)

\* What MEMS2J has of KLine, under its own name.
LEMMA Common2J ==
  /\ \A name, arg : Mems2J!Transmit(name, arg) <=> Transmit(name, arg)
  /\ \A name, arg : Mems2J!Request(name, arg) = Request(name, arg)
  /\ \A name, arg : Mems2J!Reply(name, arg) = Reply(name, arg)
  /\ \A f : Mems2J!Cells(f) = Cells(f)
  /\ \A s : Mems2J!Frame(s) = Frame(s)
  /\ \A s : Mems2J!Whole(s) <=> Whole(s)
  /\ \A how : Mems2J!End(how) <=> End(how)
  /\ \A k : Mems2J!GenerateKey(k) = GenerateKey(k)
  /\ Mems2J!NoFrame = NoFrame /\ Mems2J!Zero = Zero /\ Mems2J!NoCommand = NoCommand
  /\ Mems2J!surroundings = surroundings /\ Mems2J!shared = shared
<1>1. /\ \A name, arg : Mems2J!Transmit(name, arg) <=> Transmit(name, arg)
      /\ \A name, arg : Mems2J!Request(name, arg) = Request(name, arg)
      /\ \A name, arg : Mems2J!Reply(name, arg) = Reply(name, arg)
      /\ \A f : Mems2J!Cells(f) = Cells(f)
  BY DEF Mems2J!Transmit, Transmit, Mems2J!Cells, Cells, Mems2J!Request, Request,
         Mems2J!Reply, Reply
<1>2. /\ \A s : Mems2J!Frame(s) = Frame(s)
      /\ \A s : Mems2J!Whole(s) <=> Whole(s)
  BY DEF Mems2J!Frame, Frame, Mems2J!Whole, Whole, Mems2J!Cells, Cells
<1>3. /\ Mems2J!NoFrame = NoFrame /\ Mems2J!Zero = Zero /\ Mems2J!NoCommand = NoCommand
      /\ Mems2J!surroundings = surroundings /\ Mems2J!shared = shared
  BY DEF Mems2J!NoFrame, NoFrame, Mems2J!Zero, Zero, Mems2J!Request, Request,
         Mems2J!NoCommand, NoCommand, Mems2J!surroundings, surroundings,
         Mems2J!shared, shared
<1>4. \A how : Mems2J!End(how) <=> End(how)
  BY <1>3 DEF Mems2J!End, End, Mems2J!surroundings, surroundings, Mems2J!shared, shared
<1>5. \A k : Mems2J!GenerateKey(k) = GenerateKey(k)
  BY DEF Mems2J!GenerateKey, GenerateKey, Mems2J!Loops, Loops, Mems2J!Bit, Bit,
         Mems2J!Round, Round
<1> QED
  BY <1>1, <1>2, <1>3, <1>4, <1>5

\* The walk asks for no user command.
LEMMA WalkIsSteps2J ==
  ASSUME NEW f \in Frames PROVE Mems2J!NextAfter(f) \in Steps
<1>1. ASSUME NEW i \in 1 .. Len(Poll) - 1, Poll[i] = f.name
      PROVE  Poll[(CHOOSE j \in DOMAIN Poll : Poll[j] = f.name) + 1] \in Steps
  <2>1. \A j \in DOMAIN Poll : Poll[j] = f.name => j = i
    BY <1>1, KLineAssumption
  <2>2. i \in DOMAIN Poll /\ i + 1 \in DOMAIN Poll
    BY KLineAssumption
  <2>3. (CHOOSE j \in DOMAIN Poll : Poll[j] = f.name) = i
    BY <1>1, <2>1, <2>2
  <2> QED
    BY <2>2, <2>3, NamesApart
<1>2. Poll[2] \in Steps
  <2>1. 2 \in DOMAIN Poll
    BY KLineAssumption
  <2> QED
    BY <2>1, NamesApart
<1> QED
  BY <1>1, <1>2, NamesApart, Zenon DEF Mems2J!NextAfter

\* A frame that is handled: the key it leads to, the alert and the request.
LEMMA Handle2J ==
  ASSUME HonestInv, handler = "2J", NEW f \in HonestFrames, Mems2J!Handle(f)
  PROVE  HonestInv'
<1> DEFINE name == IF userCommand \in Mems2J!UserCommands THEN userCommand
                   ELSE Mems2J!NextAfter(f)
           arg == IF name = "key" THEN key' ELSE 0
<1>1. /\ userCommand' = NoCommand /\ Transmit(name, arg)
      /\ buffer' = <<>> /\ UNCHANGED <<handler, ecuOn, drops, access, posted, executed, chosen>>
  <2>1. Mems2J!SendNextCommand(f) /\ buffer' = <<>>
    BY DEF Mems2J!Handle
  <2>2. userCommand' = NoCommand /\ Mems2J!Transmit(name, arg)
    BY <2>1, Common2J DEF Mems2J!SendNextCommand, Mems2J!SendCommand
  <2>3. Transmit(name, arg)
    BY <2>2, Common2J
  <2>4. UNCHANGED <<handler, ecuOn, drops, access, posted, executed, chosen>>
    BY DEF Mems2J!Handle, Mems2J!surroundings
  <2> QED
    BY <2>1, <2>2, <2>3, <2>4
<1>2. f \in Frames
  BY DEF HonestFrames
<1>3. Mems2J!UserCommands \subseteq Commands
  BY DEF Mems2J!UserCommands
<1>4. name \in Names /\ (name \in Commands => name = userCommand)
  BY <1>2, <1>3, WalkIsSteps2J, NamesApart DEF Names
<1>5. key' \in Keys
  <2>1. f.kind = "reply" => f.arg \in Seeds \cup {0}
    BY <1>2 DEF Frames
  <2>2. CASE f.kind = "reply" /\ f.name = "seed"
    <3>1. key' = IF f.arg # 0 THEN GenerateKey(f.arg) ELSE 0
      BY <2>2, Common2J DEF Mems2J!Handle
    <3> QED
      BY <2>1, <2>2, <3>1 DEF Keys
  <2>3. CASE ~(f.kind = "reply" /\ f.name = "seed")
    <3>1. key' = key
      BY <2>3 DEF Mems2J!Handle
    <3> QED
      BY <3>1 DEF HonestInv, HonestTypes
  <2> QED
    BY <2>2, <2>3
<1>6. arg \in Keys
  BY <1>5 DEF Keys
<1>7. alert' \in Posts \cup {NoCommand} /\ (alert' # NoCommand => executed[alert'] > 0)
  <2>1. CASE f.kind = "reply" /\ f.name \in {"clearfaults", "learnimmo"}
    <3>1. alert' = f.name
      BY <2>1 DEF Mems2J!Handle
    <3>2. f.name \in Commands /\ f.name \in Posts
      BY <2>1, NamesApart
    <3> QED
      BY <2>1, <3>1, <3>2 DEF HonestFrames
  <2>2. CASE ~(f.kind = "reply" /\ f.name \in {"clearfaults", "learnimmo"})
    <3>1. alert' = alert
      BY <2>2 DEF Mems2J!Handle
    <3> QED
      BY <3>1 DEF HonestInv, HonestTypes, AlertIsDue
  <2> QED
    BY <2>1, <2>2
<1>8. chosen' = "none" /\ buffer' \in Seq(HonestCells)
  BY <1>1 DEF HonestInv, HonestTypes
<1> HIDE DEF name, arg
<1> QED
  BY <1>1, <1>4, <1>5, <1>6, <1>7, <1>8, SendKeepsHonest

\* What a damaged frame is taken for is no less honest than the frame.
LEMMA TakenIsHonest ==
  ASSUME HonestInv, buffer # <<>>, NEW f \in Mems2J!TakenFor(buffer)
  PROVE  f \in HonestFrames
<1>1. Frame(buffer) \in HonestFrames
  BY FrameIsHonest DEF HonestInv, HonestTypes
<1>2. f = Frame(buffer) \/ \E s \in Seeds \cup {0} : f = Reply("seed", s)
  BY Common2J DEF Mems2J!TakenFor
<1>3. ASSUME NEW s \in Seeds \cup {0} PROVE Reply("seed", s) \in HonestFrames
  BY NamesApart, BehindIsApart DEF Reply, HonestFrames, Frames, Names
<1> QED
  BY <1>1, <1>2, <1>3

\* Every step of a MEMS 2J session.
LEMMA Step2J ==
  ASSUME HonestInv, handler = "2J", Mems2J!Loop \/ Mems2J!WakeUpFails
  PROVE  HonestInv'
<1>1. CASE Mems2J!WakeUp
  <2>1. PICK noise \in {<<>>, <<Zero>>} :
          line' = noise \o (IF Echo THEN Cells(Request("init", 0)) ELSE <<>>)
    BY <1>1, Common2J DEF Mems2J!WakeUp
  <2>2. noise \in Seq(HonestCells)
    <3>1. <<>> \in Seq(HonestCells)
      OBVIOUS
    <3>2. Zero \in HonestCells => <<Zero>> \in Seq(HonestCells)
      OBVIOUS
    <3> QED
      BY <3>1, <3>2, ZeroIsHonest
  <2>3. Cells(Request("init", 0)) \in Seq(HonestCells)
    BY RequestsAreHonest, CellsAreHonest, NamesApart DEF Names, Keys
  <2>4. (IF Echo THEN Cells(Request("init", 0)) ELSE <<>>) \in Seq(HonestCells)
    BY <2>3
  <2>5. line' \in Seq(HonestCells)
    BY <2>1, <2>2, <2>4, ConcatProperties
  <2>6. /\ inbox' \in {<<>>, <<[name |-> "init", arg |-> 0]>>}
        /\ UNCHANGED <<handler, ecuOn, drops, access, userCommand, alert, chosen, key, buffer, posted, executed>>
    BY <1>1 DEF Mems2J!WakeUp, Mems2J!shared, Mems2J!surroundings
  <2> QED
    BY <2>5, <2>6, WakeKeepsHonest
<1>2. CASE Mems2J!Read
  <2>1. PICK n \in 0 .. Len(line) :
          /\ line' = SubSeq(line, n + 1, Len(line))
          /\ buffer' \in {buffer \o SubSeq(line, 1, n), Tail(buffer \o SubSeq(line, 1, n))}
          /\ buffer \o SubSeq(line, 1, n) # <<>> \/ buffer' = <<>>
    BY <1>2 DEF Mems2J!Read, Mems2J!Arrive, Mems2J!Received, Mems2J!WithoutZeros
  <2>2. line' \in Seq(HonestCells) /\ buffer \o SubSeq(line, 1, n) \in Seq(HonestCells)
    BY <2>1, ReadIsHonest
  <2>3. buffer' \in Seq(HonestCells)
    BY <2>1, <2>2, HeadTailProperties
  <2>4. UNCHANGED <<handler, ecuOn, drops, access, userCommand, alert, chosen, inbox, key, posted, executed>>
    BY <1>2 DEF Mems2J!Read, Mems2J!shared, Mems2J!surroundings
  <2> QED
    BY <2>2, <2>3, <2>4, ArrivalKeepsHonest
<1>3. CASE Mems2J!Timeout \/ Mems2J!Cancelled \/ Mems2J!WakeUpFails
  <2>1. \E how : End(how)
    BY <1>3, Common2J DEF Mems2J!Timeout, Mems2J!Cancelled, Mems2J!WakeUpFails
  <2> QED
    BY <2>1, EndKeepsHonest
<1>4. CASE Mems2J!SkipEcho \/ Mems2J!AwaitMore
  <2>1. buffer' \in {buffer, SubSeq(buffer, 3, Len(buffer))}
    BY <1>4 DEF Mems2J!SkipEcho, Mems2J!AwaitMore, Mems2J!Discard
  <2>2. UNCHANGED <<handler, ecuOn, drops, access, userCommand, alert, chosen, inbox, key, posted, executed, line>>
    BY <1>4 DEF Mems2J!SkipEcho, Mems2J!AwaitMore, Mems2J!Discard, Mems2J!shared,
         Mems2J!surroundings
  <2>3. SubSeq(buffer, 3, Len(buffer)) \in Seq(HonestCells)
    BY RestIsHonest, 2 + 1 = 3
  <2>4. line \in Seq(HonestCells) /\ buffer \in Seq(HonestCells)
    BY DEF HonestInv, HonestTypes
  <2>5. line' \in Seq(HonestCells) /\ buffer' \in Seq(HonestCells)
    BY <2>1, <2>2, <2>3, <2>4
  <2> QED
    BY <2>2, <2>5, ArrivalKeepsHonest
<1>5. CASE Mems2J!HandleFrame
  <2>1. buffer # <<>> /\ buffer \in Seq(HonestCells) /\ Mems2J!Handle(Frame(buffer))
    BY <1>5, Common2J DEF Mems2J!HandleFrame, Whole, HonestInv, HonestTypes
  <2> QED
    BY <2>1, FrameIsHonest, Handle2J
<1>6. CASE Mems2J!HandleGarbled
  <2>1. PICK f \in Mems2J!TakenFor(buffer) \cup {NoFrame} : Mems2J!Handle(f)
    BY <1>6, Common2J DEF Mems2J!HandleGarbled
  <2>2. CASE f = NoFrame
    BY <2>1, <2>2, ZeroIsHonest, Handle2J
  <2>3. CASE f \in Mems2J!TakenFor(buffer)
    <3>1. buffer # <<>>
      BY <1>6 DEF Mems2J!HandleGarbled, Mems2J!Garbled
    <3> QED
      BY <2>1, <2>3, <3>1, TakenIsHonest, Handle2J
  <2> QED
    BY <2>1, <2>2, <2>3
<1> QED
  BY <1>1, <1>2, <1>3, <1>4, <1>5, <1>6 DEF Mems2J!Loop

(***************************************************************************)
(* MEMS 3                                                                  *)
(***************************************************************************)

\* What MEMS3 has of KLine.
LEMMA Common3 ==
  /\ \A name, arg : Mems3!Transmit(name, arg) <=> Transmit(name, arg)
  /\ \A s : Mems3!Frame(s) = Frame(s)
  /\ \A how : Mems3!End(how) <=> End(how)
  /\ \A k : Mems3!GenerateKey(k) = GenerateKey(k)
  /\ Mems3!NoCommand = NoCommand
<1>1. \A name, arg : Mems3!Transmit(name, arg) <=> Transmit(name, arg)
  BY DEF Mems3!Transmit, Transmit, Mems3!Cells, Cells, Mems3!Request, Request
<1>2. (\A s : Mems3!Frame(s) = Frame(s)) /\ Mems3!NoCommand = NoCommand
  BY DEF Mems3!Frame, Frame, Mems3!NoCommand, NoCommand
<1>3. \A how : Mems3!End(how) <=> End(how)
  BY DEF Mems3!End, End, Mems3!surroundings, surroundings, Mems3!shared, shared,
         Mems3!NoFrame, NoFrame, Mems3!Request, Request
<1>4. \A k : Mems3!GenerateKey(k) = GenerateKey(k)
  BY DEF Mems3!GenerateKey, GenerateKey, Mems3!Loops, Loops, Mems3!Bit, Bit,
         Mems3!Round, Round
<1> QED
  BY <1>1, <1>2, <1>3, <1>4

\* The walk asks for no user command.
LEMMA WalkIsSteps3 ==
  ASSUME NEW name PROVE Mems3!NextAfterResponse(name) \in Steps
<1>1. ASSUME NEW i \in 1 .. Len(Poll) - 1, Poll[i] = name
      PROVE  Poll[(CHOOSE j \in DOMAIN Poll : Poll[j] = name) + 1] \in Steps
  <2>1. \A j \in DOMAIN Poll : Poll[j] = name => j = i
    BY <1>1, KLineAssumption
  <2>2. i \in DOMAIN Poll /\ i + 1 \in DOMAIN Poll
    BY KLineAssumption
  <2>3. (CHOOSE j \in DOMAIN Poll : Poll[j] = name) = i
    BY <1>1, <2>1, <2>2
  <2> QED
    BY <2>2, <2>3, NamesApart
<1> QED
  BY <1>1, NamesApart, Zenon DEF Mems3!NextAfterResponse

\* A frame that is handled: the key, the alert and the request it leads to.
LEMMA Handle3 ==
  ASSUME HonestInv, handler = "3", Frame(buffer) \in HonestFrames, Mems3!HandleReply
  PROVE  HonestInv'
<1> DEFINE f == Frame(buffer)
<1>1. /\ f.kind = "reply" /\ f \in Frames
      /\ f.arg \in Seeds \cup {0}
      /\ f.name \in Commands => executed[f.name] > 0
  BY Common3 DEF Mems3!HandleReply, HonestFrames, Frames
<1>2. /\ key' = IF f.name = "seed" THEN IF f.arg # 0 THEN GenerateKey(f.arg) ELSE 0 ELSE key
      /\ alert' = IF f.name = "clearfaults" THEN f.name ELSE alert
      /\ buffer' = <<>> /\ Mems3!SendNextCommand(f)
      /\ UNCHANGED <<handler, ecuOn, drops, access, posted, executed, chosen>>
  BY Common3 DEF Mems3!HandleReply, Mems3!surroundings
<1>3. key' \in Keys
  <2>1. key \in Keys
    BY DEF HonestInv, HonestTypes
  <2> QED
    BY <1>1, <1>2, <2>1 DEF Keys
<1>4. alert' \in Posts \cup {NoCommand} /\ (alert' # NoCommand => executed[alert'] > 0)
  BY <1>1, <1>2, NamesApart DEF HonestInv, HonestTypes, AlertIsDue
<1>5. chosen' = "none" /\ buffer' \in Seq(HonestCells)
  BY <1>2 DEF HonestInv, HonestTypes
<1>6. userCommand' = NoCommand
  BY <1>2, Common3 DEF Mems3!SendNextCommand, Mems3!TakeUserCommand
<1>7. PICK name, arg : /\ Transmit(name, arg) /\ arg \in {0, key'}
                       /\ name \in Steps \/ (name \in Commands /\ name = userCommand)
  <2>1. CASE userCommand \in Mems3!UserCommands
    <3>1. Mems3!Transmit(userCommand, 0)
      BY <1>2, <2>1 DEF Mems3!SendNextCommand
    <3> QED
      BY <2>1, <3>1, Common3 DEF Mems3!UserCommands
  <2>2. CASE userCommand \notin Mems3!UserCommands /\ f.name = "seed" /\ f.arg # 0
    <3>1. Mems3!Transmit("key", key')
      BY <1>2, <2>2 DEF Mems3!SendNextCommand
    <3> QED
      BY <3>1, Common3, NamesApart
  <2>3. CASE userCommand \notin Mems3!UserCommands /\ ~(f.name = "seed" /\ f.arg # 0)
    <3>1. Mems3!Transmit(Mems3!NextAfterResponse(f.name), 0)
      BY <1>2, <2>3 DEF Mems3!SendNextCommand
    <3> QED
      BY <3>1, Common3, WalkIsSteps3
  <2> QED
    BY <2>1, <2>2, <2>3
<1>8. name \in Names /\ arg \in Keys /\ (name \in Commands => name = userCommand)
  BY <1>3, <1>7, NamesApart DEF Names, Keys
<1> QED
  BY <1>2, <1>3, <1>4, <1>5, <1>6, <1>7, <1>8, SendKeepsHonest

\* Every step of a MEMS 3 session.
LEMMA Step3 ==
  ASSUME HonestInv, handler = "3", Mems3!Loop \/ Mems3!ReadFails
  PROVE  HonestInv'
<1> USE DEF Mems3!shared, Mems3!surroundings
<1>0. line \in Seq(HonestCells) /\ buffer \in Seq(HonestCells) /\ Len(buffer) \in Nat
  BY DEF HonestInv, HonestTypes
<1>1. CASE Mems3!Start
  <2>1. /\ Transmit("init", 0)
        /\ UNCHANGED <<handler, ecuOn, drops, access, userCommand, alert, chosen, key, buffer, posted, executed>>
    BY <1>1, Common3 DEF Mems3!Start
  <2>2. "init" \in Names /\ "init" \notin Commands /\ 0 \in Keys
    BY NamesApart DEF Names, Keys
  <2>3. chosen' = "none" /\ key' \in Keys /\ buffer' \in Seq(HonestCells)
        /\ alert' \in Posts \cup {NoCommand} /\ (alert' # NoCommand => executed[alert'] > 0)
    BY <2>1 DEF HonestInv, HonestTypes, AlertIsDue
  <2> QED
    BY <2>1, <2>2, <2>3, SendKeepsHonest
<1>2. CASE Mems3!Read
  <2>1. PICK n \in 0 .. Len(line) :
          /\ line' = SubSeq(line, n + 1, Len(line))
          /\ buffer' = buffer \o SubSeq(line, 1, n)
    BY <1>2 DEF Mems3!Read, Mems3!Arrive, Mems3!Received
  <2>2. UNCHANGED <<handler, ecuOn, drops, access, userCommand, alert, chosen, inbox, key, posted, executed>>
    BY <1>2 DEF Mems3!Read
  <2> QED
    BY <2>1, <2>2, ReadIsHonest, ArrivalKeepsHonest
<1>3. CASE Mems3!Timeout \/ Mems3!Cancelled \/ Mems3!ReadFails
  <2>1. \E how : End(how)
    BY <1>3, Common3 DEF Mems3!Timeout, Mems3!Cancelled, Mems3!ReadFails
  <2> QED
    BY <2>1, EndKeepsHonest
<1>4. CASE Mems3!SkipEcho \/ Mems3!BurnRefusal \/ Mems3!BurnGarbled
  <2>1. \E n \in Nat : Mems3!Discard(n)
    BY <1>0, <1>4 DEF Mems3!SkipEcho, Mems3!BurnRefusal, Mems3!BurnGarbled
  <2>2. PICK n \in Nat : Mems3!Discard(n)
    BY <2>1
  <2>3. /\ buffer' = SubSeq(buffer, n + 1, Len(buffer))
        /\ UNCHANGED <<handler, ecuOn, drops, access, userCommand, alert, chosen, inbox, key, posted, executed, line>>
    BY <2>2 DEF Mems3!Discard
  <2> QED
    BY <1>0, <2>3, RestIsHonest, ArrivalKeepsHonest
<1>5. CASE Mems3!AwaitMore
  <2>1. UNCHANGED <<handler, ecuOn, drops, access, userCommand, alert, chosen, inbox, key, posted, executed, line, buffer>>
    BY <1>5 DEF Mems3!AwaitMore
  <2> QED
    BY <1>0, <2>1, ArrivalKeepsHonest
<1>6. CASE Mems3!HandleReply
  <2>1. buffer # <<>>
    BY <1>6 DEF Mems3!HandleReply, Mems3!Whole
  <2>2. Frame(buffer) \in HonestFrames
    BY <1>0, <2>1, FrameIsHonest
  <2> QED
    BY <1>6, <2>2, Handle3
<1> QED
  BY <1>1, <1>2, <1>3, <1>4, <1>5, <1>6 DEF Mems3!Loop

(***************************************************************************)
(* RC5                                                                     *)
(***************************************************************************)

\* What RC5 has of KLine.
LEMMA CommonRc5 ==
  /\ \A name, arg : Rc5!Transmit(name, arg) <=> Transmit(name, arg)
  /\ \A s : Rc5!Frame(s) = Frame(s)
  /\ \A how : Rc5!End(how) <=> End(how)
  /\ Rc5!NoCommand = NoCommand /\ Rc5!Zero = Zero
<1>1. \A name, arg : Rc5!Transmit(name, arg) <=> Transmit(name, arg)
  BY DEF Rc5!Transmit, Transmit, Rc5!Cells, Cells, Rc5!Request, Request
<1>2. (\A s : Rc5!Frame(s) = Frame(s)) /\ Rc5!NoCommand = NoCommand /\ Rc5!Zero = Zero
  BY DEF Rc5!Frame, Frame, Rc5!NoCommand, NoCommand, Rc5!Zero, Zero, Rc5!NoFrame,
         NoFrame, Rc5!Request, Request
<1>3. \A how : Rc5!End(how) <=> End(how)
  BY DEF Rc5!End, End, Rc5!surroundings, surroundings, Rc5!shared, shared,
         Rc5!NoFrame, NoFrame, Rc5!Request, Request
<1> QED
  BY <1>1, <1>2, <1>3

\* A request is chosen: the pending command, which stays in its slot, or a step
\* of the walk.
LEMMA ChoiceKeepsHonest ==
  ASSUME HonestInv, handler = "rc5",
         chosen' \in Steps \/ (chosen' \in Commands /\ chosen' \in {userCommand, chosen}),
         alert' \in Posts \cup {NoCommand}, alert' # NoCommand => executed[alert'] > 0,
         buffer' \in Seq(HonestCells),
         UNCHANGED <<handler, ecuOn, drops, access, userCommand, inbox, key, line, posted, executed>>
  PROVE  HonestInv'
<1>1. HonestCells' = HonestCells
  BY DEF HonestCells, HonestFrames, ShutOut
<1>2. chosen' \in Names
  BY DEF Names
<1>3. HonestTypes'
  BY <1>1, <1>2 DEF HonestInv, HonestTypes
<1>4. ASSUME NEW c \in Posts PROVE executed'[c] + Asked(c)' + Wanted(c)' <= posted'[c]
  <2>1. executed[c] \in Nat /\ posted[c] \in Nat
    BY DEF HonestInv, HonestTypes
  <2>2. executed[c] + Asked(c) + Wanted(c) <= posted[c]
    BY DEF HonestInv, Accounts
  <2>3. Asked(c)' = Asked(c) /\ {Asked(c), Wanted(c), Wanted(c)'} \subseteq {0, 1}
    BY DEF Asked, Wanted
  <2>4. Wanted(c)' <= Wanted(c)
    BY NamesApart DEF Wanted
  <2> QED
    BY <2>1, <2>2, <2>3, <2>4
<1> QED
  BY <1>3, <1>4 DEF HonestInv, Accounts, AlertIsDue

\* Every step of an RC5 session.
LEMMA StepRc5 ==
  ASSUME HonestInv, handler = "rc5",
         Rc5!Loop \/ Rc5!WakePatternFails \/ Rc5!WakeReadFails \/ Rc5!ReadFails
  PROVE  HonestInv'
<1> USE DEF Rc5!shared, Rc5!surroundings
<1>0. /\ line \in Seq(HonestCells) /\ buffer \in Seq(HonestCells)
      /\ alert \in Posts \cup {NoCommand} /\ (alert # NoCommand => executed[alert] > 0)
      /\ key \in Keys /\ chosen \in Names
  BY DEF HonestInv, HonestTypes, AlertIsDue
<1>1. CASE Rc5!WakePattern
  <2>1. line' \in {<<>>, <<Zero>>}
    BY <1>1, CommonRc5 DEF Rc5!WakePattern
  <2>2. <<Zero>> \in Seq(HonestCells) /\ <<>> \in Seq(HonestCells)
    <3>1. Zero \in HonestCells => <<Zero>> \in Seq(HonestCells)
      OBVIOUS
    <3> QED
      BY <3>1, ZeroIsHonest
  <2>3. line' \in Seq(HonestCells)
    BY <2>1, <2>2
  <2>4. /\ inbox' \in {<<>>, <<[name |-> "init", arg |-> 0]>>}
        /\ UNCHANGED <<handler, ecuOn, drops, access, userCommand, alert, chosen, key, buffer, posted, executed>>
    BY <1>1 DEF Rc5!WakePattern
  <2> QED
    BY <2>3, <2>4, WakeKeepsHonest
<1>2. CASE Rc5!ReadWaking
  <2>1. PICK n \in 0 .. Len(line) :
          /\ line' = SubSeq(line, n + 1, Len(line))
          /\ buffer' \in {buffer \o SubSeq(line, 1, n), Tail(buffer \o SubSeq(line, 1, n))}
          /\ buffer \o SubSeq(line, 1, n) # <<>> \/ buffer' = <<>>
    BY <1>2 DEF Rc5!ReadWaking, Rc5!Received, Rc5!WithoutZeros
  <2>2. line' \in Seq(HonestCells) /\ buffer \o SubSeq(line, 1, n) \in Seq(HonestCells)
    BY <2>1, ReadIsHonest
  <2>3. buffer' \in Seq(HonestCells)
    BY <2>1, <2>2, HeadTailProperties
  <2>4. UNCHANGED <<handler, ecuOn, drops, access, userCommand, alert, chosen, inbox, key, posted, executed>>
    BY <1>2 DEF Rc5!ReadWaking
  <2> QED
    BY <2>2, <2>3, <2>4, ArrivalKeepsHonest
<1>3. CASE Rc5!WakeTimeout \/ Rc5!WrongReply \/ Rc5!Timeout \/ Rc5!Cancelled
           \/ Rc5!WakePatternFails \/ Rc5!WakeReadFails \/ Rc5!ReadFails
  <2>1. \E how : End(how)
    BY <1>3, CommonRc5 DEF Rc5!WakeTimeout, Rc5!WrongReply, Rc5!Timeout, Rc5!Cancelled,
         Rc5!WakePatternFails, Rc5!WakeReadFails, Rc5!ReadFails
  <2> QED
    BY <2>1, EndKeepsHonest
<1>4. CASE Rc5!Woke
  <2>1. /\ chosen' = "ping" /\ buffer' = <<>>
        /\ UNCHANGED <<handler, ecuOn, drops, access, userCommand, alert, inbox, key, line, posted, executed>>
    BY <1>4 DEF Rc5!Woke
  <2>2. chosen' \in Steps /\ buffer' \in Seq(HonestCells)
    BY <2>1, NamesApart
  <2> QED
    BY <1>0, <2>1, <2>2, ChoiceKeepsHonest
<1>5. CASE Rc5!ChooseCommand
  <2>1. /\ chosen' = IF userCommand \in Rc5!UserCommands THEN userCommand ELSE chosen
        /\ UNCHANGED <<handler, ecuOn, drops, access, userCommand, alert, inbox, key, line, buffer, posted, executed>>
    BY <1>5 DEF Rc5!ChooseCommand
  <2>2. chosen' \in Steps \/ (chosen' \in Commands /\ chosen' \in {userCommand, chosen})
    BY <1>0, <2>1 DEF Names, Rc5!UserCommands
  <2> QED
    BY <1>0, <2>1, <2>2, ChoiceKeepsHonest
<1>6. CASE Rc5!SendNextCommand
  <2>1. /\ userCommand' = NoCommand /\ Transmit(chosen, 0) /\ chosen' = "none"
        /\ UNCHANGED <<handler, ecuOn, drops, access, alert, key, buffer, posted, executed>>
    BY <1>6, CommonRc5 DEF Rc5!SendNextCommand
  <2>2. 0 \in Keys
    BY DEF Keys
  <2> QED
    BY <1>0, <2>1, <2>2, SendKeepsHonest
<1>7. CASE Rc5!Read
  <2>1. PICK n \in 0 .. Len(line) :
          /\ line' = SubSeq(line, n + 1, Len(line))
          /\ buffer' = buffer \o SubSeq(line, 1, n)
    BY <1>7 DEF Rc5!Read, Rc5!Arrive, Rc5!Received
  <2>2. UNCHANGED <<handler, ecuOn, drops, access, userCommand, alert, chosen, inbox, key, posted, executed>>
    BY <1>7 DEF Rc5!Read
  <2> QED
    BY <2>1, <2>2, ReadIsHonest, ArrivalKeepsHonest
<1>8. CASE Rc5!SkipEcho
  <2>1. /\ buffer' = SubSeq(buffer, 2 + 1, Len(buffer))
        /\ UNCHANGED <<handler, ecuOn, drops, access, userCommand, alert, chosen, inbox, key, posted, executed, line>>
    BY <1>8 DEF Rc5!SkipEcho, Rc5!Discard
  <2> QED
    BY <1>0, <2>1, RestIsHonest, ArrivalKeepsHonest
<1>9. CASE Rc5!HandleReply
  <2>1. buffer # <<>>
    BY <1>9 DEF Rc5!HandleReply, Rc5!Whole
  <2>2. Frame(buffer) \in HonestFrames
    BY <1>0, <2>1, FrameIsHonest
  <2>3. /\ alert' = IF Frame(buffer).name = "clearfaults" THEN "clearfaults" ELSE alert
        /\ Frame(buffer).kind = "reply" /\ chosen' \in {"ping", "faults"}
        /\ buffer' = SubSeq(buffer, 3, Len(buffer))
        /\ UNCHANGED <<handler, ecuOn, drops, access, userCommand, inbox, key, line, posted, executed>>
    BY <1>9, CommonRc5 DEF Rc5!HandleReply
  <2>4. alert' \in Posts \cup {NoCommand} /\ (alert' # NoCommand => executed[alert'] > 0)
    BY <1>0, <2>2, <2>3, NamesApart DEF HonestFrames
  <2>5. buffer' \in Seq(HonestCells)
    BY <2>3, RestIsHonest, 2 + 1 = 3
  <2>6. chosen' \in Steps
    BY <2>3, NamesApart
  <2> QED
    BY <2>3, <2>4, <2>5, <2>6, ChoiceKeepsHonest
<1>10. CASE Rc5!AwaitForEver \/ Rc5!AwaitMore
  <2>1. UNCHANGED <<handler, ecuOn, drops, access, userCommand, alert, chosen, inbox, key, posted, executed, line, buffer>>
    BY <1>10 DEF Rc5!AwaitForEver, Rc5!AwaitMore
  <2> QED
    BY <1>0, <2>1, ArrivalKeepsHonest
<1> QED
  BY <1>1, <1>2, <1>3, <1>4, <1>5, <1>6, <1>7, <1>8, <1>9, <1>10 DEF Rc5!Loop

(***************************************************************************)
(* The fake ECU                                                            *)
(***************************************************************************)

\* Every step of the fake ECU's session, which carries a command out by itself
\* as it takes it from the slot.
LEMMA StepFake ==
  ASSUME HonestInv, handler = "fake", Fake!Loop
  PROVE  HonestInv'
<1>0. /\ line \in Seq(HonestCells) /\ buffer \in Seq(HonestCells)
      /\ chosen = "none" /\ userCommand \in Posts \cup {NoCommand}
      /\ executed \in [Posts -> Nat]
  BY DEF HonestInv, HonestTypes
<1>1. CASE Fake!Connect
  <2>1. UNCHANGED <<handler, ecuOn, drops, access, userCommand, alert, chosen, inbox, key, posted, executed, line, buffer>>
    BY <1>1 DEF Fake!Connect, Fake!surroundings
  <2> QED
    BY <1>0, <2>1, ArrivalKeepsHonest
<1>2. CASE Fake!Cancelled
  <2>1. \E how : End(how)
    BY <1>2 DEF Fake!Cancelled, Fake!End, End, Fake!surroundings, surroundings,
         Fake!shared, shared, Fake!NoFrame, NoFrame, Fake!Request, Request
  <2> QED
    BY <2>1, EndKeepsHonest
<1>3. CASE Fake!Tick
  <2> DEFINE c == userCommand
  <2>1. /\ c \in Posts /\ userCommand' = NoCommand /\ alert' = c
        /\ executed' = [executed EXCEPT ![c] = @ + 1]
        /\ UNCHANGED <<handler, ecuOn, drops, access, chosen, inbox, key, line, buffer, posted>>
    BY <1>0, <1>3 DEF Fake!Tick, Fake!NoCommand, NoCommand, Fake!session
  <2>2. /\ executed' \in [Posts -> Nat]
        /\ \A d \in Posts : executed'[d] = executed[d] + (IF d = c THEN 1 ELSE 0)
    BY <1>0, <2>1
  <2>3. line \in Seq(HonestCells') /\ buffer \in Seq(HonestCells')
    <3>1. ASSUME NEW d \in Posts PROVE executed'[d] >= executed[d]
      <4>1. executed[d] \in Nat
        BY <1>0
      <4>2. executed'[d] = executed[d] \/ executed'[d] = executed[d] + 1
        BY <2>2, <4>1
      <4> QED
        BY <4>1, <4>2
    <3> QED
      BY <2>1, <2>2, <3>1, HonestyGrows DEF HonestInv, ShutOut
  <2>4. HonestTypes'
    BY <2>1, <2>2, <2>3 DEF HonestInv, HonestTypes
  <2>5. ASSUME NEW d \in Posts PROVE executed'[d] + Asked(d)' + Wanted(d)' <= posted'[d]
    <3>1. executed[d] \in Nat /\ posted[d] \in Nat
      BY DEF HonestInv, HonestTypes
    <3>2. executed[d] + Asked(d) + Wanted(d) <= posted[d]
      BY DEF HonestInv, Accounts
    <3>3. Wanted(d) = (IF d = c THEN 1 ELSE 0) /\ Wanted(d)' = 0
      BY <1>0, <2>1, NamesApart DEF Wanted
    <3>4. Asked(d)' = Asked(d) /\ Asked(d) \in {0, 1}
      BY <2>1 DEF Asked
    <3> QED
      BY <2>1, <2>2, <3>1, <3>2, <3>3, <3>4
  <2>6. AlertIsDue'
    BY <1>0, <2>1, <2>2 DEF AlertIsDue
  <2> QED
    BY <2>4, <2>5, <2>6 DEF HonestInv, Accounts
<1> QED
  BY <1>1, <1>2, <1>3 DEF Fake!Loop

(***************************************************************************)
(* The sessions                                                            *)
(***************************************************************************)

\* Every step of a session, of its users and of its surroundings.
LEMMA HonestStep == HonestInv /\ [Next]_vars => HonestInv'
<1> SUFFICES ASSUME HonestInv, [Next]_vars PROVE HonestInv'
  OBVIOUS
<1>1. CASE Loop \/ PortFails
  BY <1>1, Step2J, Step3, StepRc5, StepFake DEF Loop, PortFails
<1>2. CASE Environment
  BY <1>2, EnvironmentKeepsHonest
<1>3. CASE UNCHANGED vars
  <2>1. UNCHANGED <<handler, ecuOn, drops, access, userCommand, alert, chosen, inbox, key, posted, executed, line, buffer>>
    BY <1>3 DEF vars, session, shared, ecu
  <2>2. line' \in Seq(HonestCells) /\ buffer' \in Seq(HonestCells)
    BY <2>1 DEF HonestInv, HonestTypes
  <2> QED
    BY <2>1, <2>2, ArrivalKeepsHonest
<1> QED
  BY <1>1, <1>2, <1>3 DEF Next

\* In every session, of any of the four handlers, a user command runs at most
\* as often as it was posted, and is reported only if it ran.
THEOREM SessionsAreHonest == Spec => []CommandsAreHonest
<1>1. Factory => HonestInv
  BY InitIsHonest DEF Factory
<1>2. HonestInv => CommandsAreHonest
  <2> SUFFICES ASSUME HonestInv PROVE CommandsAreHonest
    OBVIOUS
  <2>1. ASSUME NEW c \in Posts PROVE executed[c] <= posted[c]
    <3>1. executed[c] \in Nat /\ posted[c] \in Nat
      BY DEF HonestInv, HonestTypes
    <3>2. {Asked(c), Wanted(c)} \subseteq {0, 1}
      BY DEF Asked, Wanted
    <3>3. executed[c] + Asked(c) + Wanted(c) <= posted[c]
      BY DEF HonestInv, Accounts
    <3> QED
      BY <3>1, <3>2, <3>3
  <2> QED
    BY <2>1 DEF CommandsAreHonest, HonestInv, AlertIsDue
<1> QED
  BY <1>1, <1>2, HonestStep, PTL DEF Spec

(***************************************************************************)
(* Who transmits                                                           *)
(***************************************************************************)

\* What a frame put on the line leaves at its end.
LEMMA LastOfSent ==
  ASSUME NEW S, NEW l \in Seq(S), NEW f
  PROVE  /\ Len(l \o Cells(f)) = Len(l) + 2 /\ Len(l) \in Nat
         /\ (l \o Cells(f))[Len(l \o Cells(f))] = <<f, "tail">>
<1>1. PICK c : c = Cells(f)
  OBVIOUS
<1>2. Len(c) = 2 /\ c[2] = <<f, "tail">> /\ c \in Seq({<<f, "head">>, <<f, "tail">>})
  BY <1>1 DEF Cells
<1>3. l \in Seq(S \cup {<<f, "head">>, <<f, "tail">>}) /\ c \in Seq(S \cup {<<f, "head">>, <<f, "tail">>})
  BY <1>2, SeqMonotonic
<1>4. PICK m \in Nat : m = Len(l)
  OBVIOUS
<1>5. Len(l \o c) = m + 2
  <2>1. PICK T : T = S \cup {<<f, "head">>, <<f, "tail">>}
    OBVIOUS
  <2>2. l \in Seq(T) /\ c \in Seq(T)
    BY <1>3, <2>1
  <2>3. Len(l \o c) = Len(l) + Len(c)
    BY <2>2, ConcatProperties
  <2> QED
    BY <1>2, <1>4, <2>3
<1>6. (l \o c)[m + 2] = c[2]
  <2>1. m + 2 \in 1 .. Len(l) + Len(c) /\ ~(m + 2 <= Len(l)) /\ (m + 2) - Len(l) = 2
    BY <1>2, <1>4
  <2>2. (l \o c)[m + 2] = c[(m + 2) - Len(l)]
    BY <1>3, <2>1, ConcatProperties
  <2> QED
    BY <2>1, <2>2
<1> QED
  BY <1>1, <1>2, <1>4, <1>5, <1>6

\* What a step is seen to ask for is what it transmits.
LEMMA TransmittedName ==
  ASSUME HonestInv, NEW name, NEW arg, Transmit(name, arg), NEW asked, AskedFor(asked)
  PROVE  asked = name
<1>1. line \in Seq(HonestCells)
  BY DEF HonestInv, HonestTypes
<1>2. CASE Echo /\ line'[Len(line')][1].name = asked
  <2>1. line' = line \o Cells(Request(name, arg))
    BY <1>2 DEF Transmit
  <2>2. line'[Len(line')] = <<Request(name, arg), "tail">>
    BY <1>1, <2>1, LastOfSent
  <2> QED
    BY <1>2, <2>2 DEF Request
<1>3. CASE inbox = <<>> /\ inbox' # <<>> /\ Head(inbox').name = asked
  <2>1. inbox' = <<[name |-> name, arg |-> arg]>>
    BY <1>3 DEF Transmit
  <2> QED
    BY <1>3, <2>1
<1> QED
  BY <1>2, <1>3 DEF AskedFor

(***************************************************************************)
(* Security access before polling                                          *)
(***************************************************************************)

\* To a session that is left alone and was not let in, no reply is to be had
\* that leads on to polling.
LEMMA NothingBehindYet ==
  ASSUME HonestInv, LeftAlone, access # "granted"
  PROVE  /\ userCommand \notin Commands
         /\ \A f \in HonestFrames : f.kind = "reply" => f.name \notin Commands \cup Behind
<1>1. ASSUME NEW c \in Commands PROVE userCommand # c /\ ~(executed[c] > 0)
  <2>1. c \in Posts
    BY NamesApart
  <2>2. executed[c] \in Nat /\ posted[c] = 0 /\ executed[c] + Asked(c) + Wanted(c) <= posted[c]
    BY <2>1 DEF HonestInv, HonestTypes, Accounts, LeftAlone
  <2>3. Asked(c) \in {0, 1} /\ Wanted(c) \in {0, 1} /\ (userCommand = c => Wanted(c) = 1)
    BY DEF Asked, Wanted
  <2> QED
    BY <2>2, <2>3
<1>2. ShutOut
  BY DEF LeftAlone, ShutOut
<1> QED
  BY <1>1, <1>2 DEF HonestFrames

\* A 2J frame that is not such a reply leads to no request that is polled.
LEMMA NextIsNotPolled2J ==
  ASSUME NEW f \in Frames, f.kind = "reply" => f.name \notin Commands \cup Behind
  PROVE  Mems2J!NextAfter(f) \in {"ping", "seed", "diag", "key"}
<1>1. \A i \in 1 .. Len(Poll) - 1 : i \in DOMAIN Poll
  BY KLineAssumption
<1>2. CASE f.kind = "reply"
  <2>1. /\ f.name \notin {"ping", "clearfaults", "learnimmo"}
        /\ \A i \in 1 .. Len(Poll) - 1 : Poll[i] # f.name
    BY <1>1, <1>2, NamesApart DEF Behind
  <2> QED
    BY <1>2, <2>1, Zenon DEF Mems2J!NextAfter
<1>3. CASE f.kind # "reply"
  BY <1>3, Zenon DEF Mems2J!NextAfter
<1> QED
  BY <1>2, <1>3

\* The same of a MEMS 3 reply.
LEMMA NextIsNotPolled3 ==
  ASSUME NEW name, name \notin Commands \cup Behind
  PROVE  Mems3!NextAfterResponse(name) \in {"ping", "seed", "diag"}
<1>1. \A i \in 1 .. Len(Poll) - 1 : i \in DOMAIN Poll
  BY KLineAssumption
<1>2. /\ name \notin {"ping", "clearfaults"}
      /\ \A i \in 1 .. Len(Poll) - 1 : Poll[i] # name
  BY <1>1, NamesApart DEF Behind
<1> QED
  BY <1>2, Zenon DEF Mems3!NextAfterResponse

\* What is not polled.
LEMMA WalkIsNotPolled ==
  ASSUME NEW i \in DOMAIN Poll
  PROVE  Poll[i] \notin {"none", "init", "diag", "seed", "key", "ping"}
BY KLineAssumption

\* No step of a session that is left alone polls before the ECU has let it in.
LEMMA AccessFirst ==
  ASSUME HonestInv, [Next]_vars, Transmits, PollsNext, LeftAlone
  PROVE  access = "granted"
<1> SUFFICES ASSUME access # "granted" PROVE FALSE
  OBVIOUS
<1>0. /\ userCommand \notin Commands
      /\ \A f \in HonestFrames : f.kind = "reply" => f.name \notin Commands \cup Behind
      /\ HonestFrames \subseteq Frames
  BY NothingBehindYet DEF HonestFrames
<1>1. PICK i \in DOMAIN Poll : AskedFor(Poll[i])
  BY DEF PollsNext
<1>2. Poll[i] \notin {"none", "init", "diag", "seed", "key", "ping"}
  BY <1>1, WalkIsNotPolled
<1>3. ASSUME handler = "2J", NEW f \in HonestFrames, Mems2J!Handle(f) PROVE FALSE
  <2> DEFINE name == IF userCommand \in Mems2J!UserCommands THEN userCommand
                     ELSE Mems2J!NextAfter(f)
             arg == IF name = "key" THEN key' ELSE 0
  <2>1. Mems2J!SendNextCommand(f)
    BY <1>3 DEF Mems2J!Handle
  <2>2. Mems2J!Transmit(name, arg)
    BY <2>1 DEF Mems2J!SendNextCommand, Mems2J!SendCommand
  <2>3. Transmit(name, arg)
    BY <2>2, Common2J
  <2>4. name \in {"ping", "seed", "diag", "key"}
    BY <1>0, NextIsNotPolled2J DEF Mems2J!UserCommands
  <2> HIDE DEF name, arg
  <2> QED
    BY <2>3, <2>4, <1>1, <1>2, TransmittedName
<1>4. CASE handler = "2J" /\ Mems2J!HandleFrame
  <2>1. buffer # <<>> /\ buffer \in Seq(HonestCells) /\ Mems2J!Handle(Frame(buffer))
    BY <1>4, Common2J DEF Mems2J!HandleFrame, Whole, HonestInv, HonestTypes
  <2> QED
    BY <1>3, <1>4, <2>1, FrameIsHonest
<1>5. CASE handler = "2J" /\ Mems2J!HandleGarbled
  <2>1. PICK f \in Mems2J!TakenFor(buffer) \cup {NoFrame} : Mems2J!Handle(f)
    BY <1>5, Common2J DEF Mems2J!HandleGarbled
  <2>2. f \in HonestFrames
    BY <1>5, <2>1, TakenIsHonest, ZeroIsHonest DEF Mems2J!HandleGarbled, Mems2J!Garbled
  <2> QED
    BY <1>3, <1>5, <2>1, <2>2
<1>6. CASE handler = "2J" /\ Mems2J!WakeUp
  <2>1. PICK noise \in {<<>>, <<Zero>>} :
          line' = noise \o (IF Echo THEN Cells(Request("init", 0)) ELSE <<>>)
    BY <1>6, Common2J DEF Mems2J!WakeUp
  <2>2. noise \in Seq({Zero})
    <3>1. <<>> \in Seq({Zero}) /\ <<Zero>> \in Seq({Zero})
      OBVIOUS
    <3> QED
      BY <2>1, <3>1
  <2>3. CASE Echo /\ line'[Len(line')][1].name = Poll[i]
    <3>1. line'[Len(line')] = <<Request("init", 0), "tail">>
      BY <2>1, <2>2, <2>3, LastOfSent
    <3> QED
      BY <1>2, <2>3, <3>1 DEF Request
  <2>4. CASE inbox' # <<>> /\ Head(inbox').name = Poll[i]
    <3>1. inbox' = <<[name |-> "init", arg |-> 0]>>
      BY <1>6, <2>4 DEF Mems2J!WakeUp
    <3> QED
      BY <1>2, <2>4, <3>1
  <2> QED
    BY <1>1, <2>3, <2>4 DEF AskedFor
<1>7. CASE handler = "3" /\ Mems3!Start
  <2>1. Transmit("init", 0)
    BY <1>7, Common3 DEF Mems3!Start
  <2> QED
    BY <2>1, <1>1, <1>2, TransmittedName
<1>8. CASE handler = "3" /\ Mems3!HandleReply
  <2> DEFINE f == Frame(buffer)
  <2>1. buffer # <<>> /\ f.kind = "reply" /\ Mems3!SendNextCommand(f)
    BY <1>8, Common3 DEF Mems3!HandleReply, Mems3!Whole
  <2>2. f \in HonestFrames
    BY <2>1, FrameIsHonest DEF HonestInv, HonestTypes
  <2>3. Mems3!NextAfterResponse(f.name) \in {"ping", "seed", "diag"}
    BY <1>0, <2>1, <2>2, NextIsNotPolled3
  <2>4. \E name \in {"ping", "seed", "diag", "key"} : \E arg : Mems3!Transmit(name, arg)
    <3>1. userCommand \notin Mems3!UserCommands
      BY <1>0 DEF Mems3!UserCommands
    <3>2. CASE f.name = "seed" /\ f.arg # 0
      BY <2>1, <3>1, <3>2 DEF Mems3!SendNextCommand
    <3>3. CASE ~(f.name = "seed" /\ f.arg # 0)
      <4>1. Mems3!Transmit(Mems3!NextAfterResponse(f.name), 0)
        BY <2>1, <3>1, <3>3 DEF Mems3!SendNextCommand
      <4> QED
        BY <2>3, <4>1
    <3> QED
      BY <3>2, <3>3
  <2> QED
    BY <2>4, Common3, <1>1, <1>2, TransmittedName
<1>9. handler \in {"2J", "3"}
  BY DEF LeftAlone
<1> QED
  BY <1>4, <1>5, <1>6, <1>7, <1>8, <1>9 DEF Transmits

\* "Once authenticated it polls": for any poll list, seeds, limits and losses, a
\* 2J or MEMS 3 session that neither the user nor the ECU interferes with asks
\* for nothing behind the security access before the ECU has let it in.
THEOREM AccessComesFirst == Spec => UnlockedBeforePolling
<1>1. HonestInv /\ [Next]_vars =>
        (Transmits /\ PollsNext /\ LeftAlone => access = "granted")
  BY AccessFirst
<1>2. Factory => HonestInv
  BY InitIsHonest DEF Factory
<1>3. [][Next]_vars /\ []HonestInv => UnlockedBeforePolling
  <2>1. [Next]_vars /\ HonestInv =>
          [Transmits /\ PollsNext /\ LeftAlone => access = "granted"]_vars
    BY <1>1
  <2> QED
    BY <2>1, PTL DEF UnlockedBeforePolling
<1> QED
  BY <1>2, <1>3, HonestStep, PTL DEF Spec

(***************************************************************************)
(* One request at a time: what is on its way                               *)
(***************************************************************************)

\* A frame stands in full at places i and j of w.
FrameAt(w, i, j) == w[i] = <<w[i][1], "head">> /\ w[j] = <<w[i][1], "tail">>

\* w is at most the echo of one request and the ECU's answer to it; while the
\* request waits in the ECU's box, only the echo.  A session that tells its
\* echoes by what it sent has sent what is in own.
Exchange(w, box, own) ==
  /\ Len(w) \in {0, 2, 4}
  /\ Len(w) > 0 => FrameAt(w, 1, 2) /\ (w[1][1].kind = "echo" /\ own # {} => w[1][1] \in own)
  /\ Len(w) > 2 => FrameAt(w, 3, 4) /\ w[1][1].kind = "echo" /\ w[3][1].kind # "echo"
  /\ box # <<>> => Len(w) < 4 /\ (Len(w) > 0 => w[1][1].kind = "echo")

Own == IF handler = "2J" THEN {lastSent, Request("init", 0)} ELSE {}

\* The byte a wake pulse reads back as is still in front of the exchange.
Pulse ==
  /\ <<handler, pc>> \in {<<"2J", "read">>, <<"rc5", "waking">>}
  /\ buffer = <<>> /\ line # <<>> /\ Head(line) = Zero
  /\ Exchange(Tail(line), inbox, Own)

Resting == {"init", "choosing", "sending"}
Reading == {"read", "handle", "waking", "checking"}

\* While nothing is lost: a session that is about to send has nothing under
\* way, and one that listens has one exchange.
Turns ==
  /\ pc \in Resting => buffer = <<>> /\ line = <<>> /\ inbox = <<>>
  /\ pc \in Reading => Exchange(buffer \o line, inbox, Own) \/ Pulse
  /\ pc = "checking" => Len(buffer) > 1

TurnInv == HonestInv /\ lost \in Nat /\ (lost = 0 => Turns)

\* Two sequences, the first in front of the second.
LEMMA InFront ==
  ASSUME NEW S, NEW s \in Seq(S), NEW t \in Seq(S)
  PROVE  /\ s \o t \in Seq(S) /\ Len(s \o t) = Len(s) + Len(t)
         /\ Len(s) \in Nat /\ Len(t) \in Nat
         /\ \A i \in 1 .. Len(s) : (s \o t)[i] = s[i]
         /\ \A i \in 1 .. Len(t) : (s \o t)[Len(s) + i] = t[i]
<1>1. /\ s \o t \in Seq(S) /\ Len(s \o t) = Len(s) + Len(t)
      /\ \A i \in 1 .. Len(s) + Len(t) : (s \o t)[i] = IF i <= Len(s) THEN s[i] ELSE t[i - Len(s)]
  BY ConcatProperties
<1>2. Len(s) \in Nat /\ Len(t) \in Nat
  BY LenProperties
<1>3. ASSUME NEW i \in 1 .. Len(t) PROVE (s \o t)[Len(s) + i] = t[i]
  <2>1. Len(s) + i \in 1 .. Len(s) + Len(t) /\ ~(Len(s) + i <= Len(s)) /\ Len(s) + i - Len(s) = i
    BY <1>2
  <2> QED
    BY <2>1, <1>1
<1>4. ASSUME NEW i \in 1 .. Len(s) PROVE (s \o t)[i] = s[i]
  BY <1>1, <1>2
<1> QED
  BY <1>1, <1>2, <1>3, <1>4

\* What is behind the first sequence.
LEMMA DropFront ==
  ASSUME NEW S, NEW x \in Seq(S), NEW y \in Seq(S), NEW k \in Nat, k = Len(x) + 1
  PROVE  SubSeq(x \o y, k, Len(x \o y)) = y
<1> PICK m \in Nat : m = Len(x)
  BY LenProperties
<1> k = m + 1
  OBVIOUS
<1>1. PICK n \in Nat : n = Len(y)
  BY LenProperties
<1>2. PICK w \in Seq(S) : w = x \o y
  BY ConcatProperties
<1>3. Len(w) = m + n /\ \A i \in 1 .. n : w[m + i] = y[i]
  <2>1. /\ Len(x \o y) = Len(x) + Len(y)
        /\ \A i \in 1 .. Len(y) : (x \o y)[Len(x) + i] = y[i]
    BY InFront
  <2>2. /\ Len(w) = Len(x) + Len(y)
        /\ \A i \in 1 .. Len(y) : w[Len(x) + i] = y[i]
    BY <1>2, <2>1
  <2> QED
    BY <1>1, <2>2
<1>4. PICK v : v = SubSeq(w, m + 1, m + n)
  OBVIOUS
<1>5. v \in Seq(S) /\ Len(v) = n /\ \A i \in 1 .. n : v[i] = w[m + i]
  <2>1. \A i \in m + 1 .. m + n : w[i] \in S
    BY <1>3, ElementOfSeq
  <2>2. /\ v \in Seq(S)
        /\ Len(v) = IF m + 1 <= m + n THEN m + n - (m + 1) + 1 ELSE 0
        /\ \A i \in 1 .. m + n - (m + 1) + 1 : v[i] = w[m + 1 + i - 1]
    BY <1>4, <2>1, SubSeqProperties
  <2>3. m + n - (m + 1) + 1 = n /\ (m + 1 <= m + n <=> n > 0)
    OBVIOUS
  <2>4. \A i \in 1 .. n : v[i] = w[m + i]
    <3>1. \A i \in 1 .. n : m + 1 + i - 1 = m + i
      OBVIOUS
    <3> QED
      BY <2>2, <2>3, <3>1
  <2>5. Len(v) = n
    BY <2>2, <2>3
  <2> QED
    BY <2>2, <2>4, <2>5
<1>6. v = y
  BY <1>1, <1>3, <1>5, SeqEqual
<1> QED
  BY <1>2, <1>3, <1>4, <1>6

\* The first place of a sequence, and what is behind it.
LEMMA TailOfConcat ==
  ASSUME NEW S, NEW a \in Seq(S), NEW b \in Seq(S), a # <<>>
  PROVE  a \o b # <<>> /\ Head(a \o b) = Head(a) /\ Tail(a \o b) = Tail(a) \o b
<1>1. PICK m \in Nat, n \in Nat : m = Len(a) /\ n = Len(b) /\ m > 0
  BY LenProperties, EmptySeq
<1>2. PICK w \in Seq(S) : w = a \o b
  BY ConcatProperties
<1>3. /\ Len(w) = m + n /\ \A i \in 1 .. m : w[i] = a[i]
      /\ \A i \in 1 .. n : w[m + i] = b[i]
  <2>1. /\ Len(w) = Len(a) + Len(b) /\ \A i \in 1 .. Len(a) : w[i] = a[i]
        /\ \A i \in 1 .. Len(b) : w[Len(a) + i] = b[i]
    BY <1>2, InFront
  <2> QED
    BY <1>1, <2>1
<1>4. w # <<>> /\ Head(w) = w[1] /\ Head(a) = a[1]
  <2>1. w # <<>>
    BY <1>1, <1>3, EmptySeq
  <2> QED
    BY <2>1
<1>5. Head(w) = Head(a)
  BY <1>1, <1>3, <1>4
<1>6. PICK t \in Seq(S), r \in Seq(S) : t = Tail(a) /\ r = Tail(w)
  BY <1>4, HeadTailProperties
<1>7. Len(t) = m - 1 /\ Len(r) = m + n - 1
  BY <1>1, <1>3, <1>4, <1>6, HeadTailProperties
<1>8. (\A i \in 1 .. m - 1 : t[i] = a[i + 1]) /\ (\A i \in 1 .. m + n - 1 : r[i] = w[i + 1])
  <2>1. /\ \A i \in 1 .. Len(Tail(a)) : Tail(a)[i] = a[i + 1]
        /\ \A i \in 1 .. Len(Tail(w)) : Tail(w)[i] = w[i + 1]
    BY <1>4, HeadTailProperties
  <2> QED
    BY <1>6, <1>7, <2>1
<1>9. PICK k \in Nat : k = m - 1
  <2>1. m - 1 \in Nat
    BY <1>1
  <2> QED
    BY <2>1
<1>10. PICK u \in Seq(S) : u = t \o b
  BY ConcatProperties
<1>11. /\ Len(u) = k + n /\ \A i \in 1 .. k : u[i] = t[i]
       /\ \A i \in 1 .. n : u[k + i] = b[i]
  <2>1. /\ Len(u) = Len(t) + Len(b) /\ \A i \in 1 .. Len(t) : u[i] = t[i]
        /\ \A i \in 1 .. Len(b) : u[Len(t) + i] = b[i]
    BY <1>10, InFront
  <2> QED
    BY <1>1, <1>7, <1>9, <2>1
<1>12. ASSUME NEW i \in 1 .. k + n PROVE u[i] = r[i]
  <2>1. r[i] = w[i + 1]
    BY <1>8, <1>9
  <2>2. CASE i <= k
    <3>1. u[i] = a[i + 1] /\ w[i + 1] = a[i + 1]
      BY <1>3, <1>8, <1>9, <1>11, <2>2
    <3> QED
      BY <2>1, <3>1
  <2>3. CASE i > k
    <3>1. PICK j \in 1 .. n : i = k + j
      <4>1. i - k \in 1 .. n /\ i = k + (i - k)
        BY <2>3
      <4> QED
        BY <4>1
    <3>2. u[i] = b[j]
      BY <1>11, <3>1
    <3>3. i + 1 = m + j
      BY <1>9, <3>1
    <3>4. w[i + 1] = b[j]
      BY <1>3, <3>3
    <3> QED
      BY <2>1, <3>2, <3>4
  <2> QED
    BY <2>2, <2>3
<1>13. Len(u) = Len(r)
  BY <1>7, <1>9, <1>11
<1>14. u = r
  BY <1>11, <1>12, <1>13, SeqEqual
<1> QED
  BY <1>2, <1>4, <1>5, <1>6, <1>10, <1>14

\* What has arrived and what has not, wherever the read cuts it.
LEMMA WireIsCut ==
  ASSUME NEW S, NEW a \in Seq(S), NEW b \in Seq(S), NEW n \in 0 .. Len(b)
  PROVE  /\ SubSeq(b, 1, n) \in Seq(S) /\ SubSeq(b, n + 1, Len(b)) \in Seq(S)
         /\ SubSeq(b, 1, n) \o SubSeq(b, n + 1, Len(b)) = b
         /\ a \o SubSeq(b, 1, n) \in Seq(S)
<1>1. Len(b) \in Nat
  BY LenProperties
<1>2. SubSeq(b, 1, n) \in Seq(S) /\ SubSeq(b, n + 1, Len(b)) \in Seq(S)
  <2>1. n \in Int /\ 1 \in Int /\ n <= Len(b) /\ n + 1 \in Int /\ n + 1 >= 1 /\ Len(b) \in Int
    BY <1>1
  <2> QED
    BY <2>1, PiecesAreHonest
<1>3. SubSeq(b, 1, n) \o SubSeq(b, n + 1, Len(b)) = b
  <2>1. 1 \in 1 .. Len(b) + 1 /\ n \in 1 - 1 .. Len(b) /\ Len(b) \in n .. Len(b)
    BY <1>1
  <2>2. SubSeq(b, 1, n) \o SubSeq(b, n + 1, Len(b)) = SubSeq(b, 1, Len(b))
    BY <2>1, ConcatAdjacentSubSeq
  <2> QED
    BY <2>2, SubSeqFull
<1>4. a \o SubSeq(b, 1, n) \in Seq(S)
  BY <1>2, ConcatProperties
<1> QED
  BY <1>2, <1>3, <1>4

\* It is the same together.
LEMMA WireStays ==
  ASSUME NEW S, NEW a \in Seq(S), NEW b \in Seq(S), NEW n \in 0 .. Len(b)
  PROVE  (a \o SubSeq(b, 1, n)) \o SubSeq(b, n + 1, Len(b)) = a \o b
<1>1. PICK p \in Seq(S), q \in Seq(S) :
        p = SubSeq(b, 1, n) /\ q = SubSeq(b, n + 1, Len(b)) /\ p \o q = b
  <2>1. /\ SubSeq(b, 1, n) \in Seq(S) /\ SubSeq(b, n + 1, Len(b)) \in Seq(S)
        /\ SubSeq(b, 1, n) \o SubSeq(b, n + 1, Len(b)) = b
    BY WireIsCut
  <2> QED
    BY <2>1
<1>2. (a \o p) \o q = a \o (p \o q)
  BY ConcatAssociative
<1> QED
  BY <1>1, <1>2

\* Two cells are dropped from what has arrived.
LEMMA WireDrops ==
  ASSUME NEW S, NEW a \in Seq(S), NEW b \in Seq(S), Len(a) > 1
  PROVE  SubSeq(a, 3, Len(a)) \o b = SubSeq(a \o b, 3, Len(a \o b))
<1>1. Len(a) \in Nat /\ 2 \in 0 .. Len(a) /\ 2 + 1 = 3
  BY LenProperties
<1>2. PICK x \in Seq(S), r \in Seq(S) :
        x = SubSeq(a, 1, 2) /\ r = SubSeq(a, 3, Len(a)) /\ x \o r = a
  <2>1. /\ SubSeq(a, 1, 2) \in Seq(S) /\ SubSeq(a, 2 + 1, Len(a)) \in Seq(S)
        /\ SubSeq(a, 1, 2) \o SubSeq(a, 2 + 1, Len(a)) = a
    BY <1>1, WireIsCut
  <2> QED
    BY <1>1, <2>1
<1>3. 3 = Len(x) + 1
  <2>1. \A i \in 1 .. 2 : a[i] \in S
    BY <1>1, ElementOfSeq
  <2>2. Len(SubSeq(a, 1, 2)) = IF 1 <= 2 THEN 2 - 1 + 1 ELSE 0
    BY <2>1, SubSeqProperties
  <2> QED
    BY <1>2, <2>2
<1>4. 3 \in Nat
  OBVIOUS
<1>5. PICK y \in Seq(S) : y = r \o b
  BY ConcatProperties
<1>6. a \o b = x \o y
  <2>1. (x \o r) \o b = x \o (r \o b)
    BY ConcatAssociative
  <2> QED
    BY <1>2, <1>5, <2>1
<1>7. SubSeq(x \o y, 3, Len(x \o y)) = y
  BY <1>3, <1>4, DropFront, Zenon
<1> QED
  BY <1>2, <1>5, <1>6, <1>7

(***************************************************************************)
(* One exchange                                                            *)
(***************************************************************************)

\* A frame's cells.
LEMMA CellsAre ==
  ASSUME NEW f
  PROVE  /\ Cells(f) \in Seq({<<f, "head">>, <<f, "tail">>}) /\ Len(Cells(f)) = 2
         /\ Cells(f)[1] = <<f, "head">> /\ Cells(f)[2] = <<f, "tail">>
BY DEF Cells

\* Nothing, or the echo of a request, is the beginning of an exchange.
LEMMA ExchangeBegins ==
  ASSUME NEW box, NEW own, NEW f, f.kind = "echo", own # {} => f \in own
  PROVE  Exchange(<<>>, box, own) /\ Exchange(Cells(f), box, own)
<1>1. Exchange(<<>>, box, own)
  BY EmptySeq DEF Exchange
<1>2. PICK c : c = Cells(f)
  OBVIOUS
<1>3. Len(c) = 2 /\ c[1] = <<f, "head">> /\ c[2] = <<f, "tail">> /\ c[1][1] = f
  <2>1. Len(c) = 2 /\ c[1] = <<f, "head">> /\ c[2] = <<f, "tail">>
    BY <1>2, CellsAre
  <2> QED
    BY <2>1
<1>4. Exchange(c, box, own)
  BY <1>3 DEF Exchange, FrameAt
<1> QED
  BY <1>1, <1>2, <1>4

\* The ECU answers what it has in its box.
LEMMA ExchangeAnswered ==
  ASSUME NEW S, NEW w \in Seq(S), NEW box, NEW own, Exchange(w, box, own), box # <<>>,
         NEW f, f.kind # "echo"
  PROVE  Exchange(w \o Cells(f), <<>>, own)
<1>1. PICK T : T = S \cup {<<f, "head">>, <<f, "tail">>}
  OBVIOUS
<1>2. PICK c \in Seq(T) : /\ c = Cells(f) /\ Len(c) = 2
                          /\ c[1] = <<f, "head">> /\ c[2] = <<f, "tail">>
  <2>1. {<<f, "head">>, <<f, "tail">>} \subseteq T
    BY <1>1
  <2>2. Cells(f) \in Seq({<<f, "head">>, <<f, "tail">>})
    BY CellsAre
  <2>3. Cells(f) \in Seq(T)
    BY <2>1, <2>2, SeqMonotonic
  <2> QED
    BY <2>3, CellsAre
<1>3. w \in Seq(T)
  <2>1. S \subseteq T
    BY <1>1
  <2> QED
    BY <2>1, SeqMonotonic
<1>4. PICK n \in Nat : n = Len(w) /\ n \in {0, 2}
  <2>1. PICK n \in Nat : n = Len(w)
    BY LenProperties
  <2>2. n \in {0, 2, 4} /\ ~(n = 4)
    <3>1. n \in {0, 2, 4}
      BY <2>1 DEF Exchange
    <3>2. n < 4
      BY <2>1 DEF Exchange
    <3> QED
      BY <3>1, <3>2
  <2>3. n \in {0, 2}
    BY <2>2
  <2> QED
    BY <2>1, <2>3
<1>5. PICK v : v = w \o c
  OBVIOUS
<1>6. /\ Len(v) = n + 2
      /\ \A i \in 1 .. n : v[i] = w[i]
      /\ v[n + 1] = c[1] /\ v[n + 2] = c[2]
  <2>1. /\ Len(v) = Len(w) + Len(c)
        /\ \A i \in 1 .. Len(w) : v[i] = w[i]
        /\ \A i \in 1 .. Len(c) : v[Len(w) + i] = c[i]
    BY <1>2, <1>3, <1>5, InFront
  <2>2. 1 \in 1 .. Len(c) /\ 2 \in 1 .. Len(c)
    BY <1>2
  <2> QED
    BY <1>2, <1>4, <2>1, <2>2
<1>7. CASE n = 0
  <2>1. Len(v) = 2 /\ v[1] = <<f, "head">> /\ v[2] = <<f, "tail">>
    BY <1>2, <1>6, <1>7
  <2>2. v[1][1] = f
    BY <2>1
  <2> QED
    BY <1>2, <1>5, <2>1, <2>2 DEF Exchange, FrameAt
<1>8. CASE n = 2
  <2>1. /\ Len(v) = 4 /\ v[1] = w[1] /\ v[2] = w[2]
        /\ v[3] = <<f, "head">> /\ v[4] = <<f, "tail">>
    <3>1. 1 \in 1 .. n /\ 2 \in 1 .. n /\ n + 1 = 3 /\ n + 2 = 4
      BY <1>8
    <3> QED
      BY <1>2, <1>6, <3>1
  <2>2. v[3][1] = f
    BY <2>1
  <2>3. /\ FrameAt(w, 1, 2) /\ w[1][1].kind = "echo"
        /\ w[1][1].kind = "echo" /\ own # {} => w[1][1] \in own
    BY <1>4, <1>8 DEF Exchange
  <2> QED
    BY <1>2, <1>5, <2>1, <2>2, <2>3 DEF Exchange, FrameAt
<1> QED
  BY <1>4, <1>7, <1>8

\* The request is forgotten.
LEMMA ExchangeMissed ==
  ASSUME NEW w, NEW box, NEW own, Exchange(w, box, own)
  PROVE  Exchange(w, <<>>, own)
BY DEF Exchange

\* The first frame of an exchange is dropped.
LEMMA ExchangeRest ==
  ASSUME NEW S, NEW w \in Seq(S), NEW box, NEW own, Exchange(w, box, own), Len(w) > 1
  PROVE  Exchange(SubSeq(w, 3, Len(w)), box, own)
<1>1. PICK n \in Nat : n = Len(w) /\ n \in {2, 4}
  <2>1. PICK n \in Nat : n = Len(w)
    BY LenProperties
  <2>2. n \in {0, 2, 4} /\ ~(n = 0)
    <3>1. Len(w) \in {0, 2, 4}
      BY DEF Exchange
    <3> QED
      BY <2>1, <3>1
  <2>3. n \in {2, 4}
    BY <2>2
  <2> QED
    BY <2>1, <2>3
<1>2. PICK v : v = SubSeq(w, 3, Len(w))
  OBVIOUS
<1>3. Len(v) = n - 2 /\ \A i \in 1 .. n - 2 : v[i] = w[3 + i - 1]
  <2>1. \A i \in 3 .. Len(w) : w[i] \in S
    BY <1>1, ElementOfSeq
  <2>2. /\ Len(v) = IF 3 <= Len(w) THEN Len(w) - 3 + 1 ELSE 0
        /\ \A i \in 1 .. Len(w) - 3 + 1 : v[i] = w[3 + i - 1]
    BY <1>1, <1>2, <2>1, SubSeqProperties
  <2>3. n - 3 + 1 = n - 2
    BY <1>1
  <2> QED
    BY <1>1, <2>2, <2>3
<1>4. CASE n = 2
  <2>1. Len(v) = 0
    BY <1>3, <1>4
  <2> QED
    BY <1>2, <2>1 DEF Exchange
<1>5. CASE n = 4
  <2>1. Len(v) = 2 /\ v[1] = w[3] /\ v[2] = w[4]
    <3>1. 1 \in 1 .. n - 2 /\ 2 \in 1 .. n - 2 /\ 3 + 1 - 1 = 3 /\ 3 + 2 - 1 = 4
      BY <1>5
    <3> QED
      BY <1>3, <1>5, <3>1
  <2>2. box = <<>> /\ FrameAt(w, 3, 4) /\ w[3][1].kind # "echo"
    BY <1>1, <1>5 DEF Exchange
  <2>3. FrameAt(v, 1, 2) /\ v[1][1].kind # "echo"
    BY <2>1, <2>2 DEF FrameAt
  <2>4. Exchange(v, box, own)
    BY <2>1, <2>2, <2>3 DEF Exchange
  <2> QED
    BY <1>2, <2>4
<1> QED
  BY <1>1, <1>4, <1>5

\* What of an exchange has arrived is in order; its first frame, once whole, is
\* the session's own or the last that was on its way.
LEMMA ExchangeFront ==
  ASSUME NEW S, NEW a \in Seq(S), NEW b \in Seq(S), NEW box, NEW own,
         Exchange(a \o b, box, own), a # <<>>
  PROVE  /\ ~Garbled(a) /\ Head(a) # Zero
         /\ Whole(a) => /\ Len(a) > 1 /\ Len(a \o b) > 1
                        /\ Frame(a).kind = "echo" /\ own # {} => Frame(a) \in own
                        /\ Frame(a).kind # "echo" => Len(a) = 2 /\ b = <<>> /\ box = <<>>
<1>1. PICK m \in Nat, k \in Nat : m = Len(a) /\ k = Len(b) /\ m > 0
  BY LenProperties, EmptySeq
<1>2. PICK w \in Seq(S) : w = a \o b
  BY ConcatProperties
<1>3. PICK n \in Nat : n = Len(w) /\ n = m + k /\ n \in {2, 4}
  <2>1. Len(w) = m + k
    BY <1>1, <1>2, InFront
  <2>2. m + k \in Nat /\ m + k # 0
    BY <1>1
  <2> QED
    BY <1>2, <2>1, <2>2 DEF Exchange
<1>4. \A i \in 1 .. m : a[i] = w[i]
  BY <1>1, <1>2, InFront
<1>5. PICK f : f = w[1][1]
  OBVIOUS
<1>6. FrameAt(w, 1, 2) /\ (f.kind = "echo" /\ own # {} => f \in own)
  BY <1>2, <1>3, <1>5 DEF Exchange
<1>7. a[1] = <<f, "head">> /\ (m > 1 => a[2] = <<f, "tail">>)
  BY <1>1, <1>4, <1>5, <1>6 DEF FrameAt
<1>8. Head(a) = <<f, "head">> /\ Frame(a) = f
  BY <1>7 DEF Frame
<1>9. Head(a) # Zero
  BY <1>8 DEF Zero
<1>10. ~Garbled(a)
  <2>1. CASE m = 1
    <3>1. Incomplete(a)
      BY <1>1, <1>8, <2>1 DEF Incomplete
    <3> QED
      BY <3>1 DEF Garbled
  <2>2. CASE m > 1
    <3>1. PICK c : c = Cells(f)
      OBVIOUS
    <3>2. PICK v : v = SubSeq(a, 1, 2)
      OBVIOUS
    <3>3. \A i \in 1 .. 2 : a[i] \in S
      BY <1>1, <2>2, ElementOfSeq
    <3>4. v \in Seq(S) /\ Len(v) = 2 /\ v[1] = a[1] /\ v[2] = a[2]
      <4>1. /\ v \in Seq(S) /\ Len(v) = IF 1 <= 2 THEN 2 - 1 + 1 ELSE 0
            /\ \A i \in 1 .. 2 - 1 + 1 : v[i] = a[1 + i - 1]
        BY <3>2, <3>3, SubSeqProperties
      <4> QED
        BY <4>1
    <3>5. c \in Seq(S) /\ Len(c) = 2 /\ c[1] = a[1] /\ c[2] = a[2]
      <4>1. {<<f, "head">>, <<f, "tail">>} \subseteq S
        <5>1. a[1] \in S /\ a[2] \in S
          BY <3>3
        <5> QED
          BY <1>7, <2>2, <5>1
      <4>2. c \in Seq({<<f, "head">>, <<f, "tail">>})
        BY <3>1, CellsAre
      <4>3. c \in Seq(S)
        BY <4>1, <4>2, SeqMonotonic
      <4>4. Len(c) = 2 /\ c[1] = <<f, "head">> /\ c[2] = <<f, "tail">>
        BY <3>1, CellsAre
      <4> QED
        BY <1>7, <2>2, <4>3, <4>4
    <3>6. v = c
      <4>1. Len(v) = Len(c) /\ \A i \in 1 .. Len(v) : v[i] = c[i]
        BY <3>4, <3>5
      <4> QED
        BY <3>4, <3>5, <4>1, SeqEqual
    <3>7. Whole(a)
      BY <1>1, <1>8, <2>2, <3>1, <3>2, <3>6 DEF Whole
    <3> QED
      BY <3>7 DEF Garbled
  <2> QED
    BY <1>1, <2>1, <2>2
<1>11. ASSUME Whole(a) PROVE m > 1
  BY <1>1, <1>11 DEF Whole
<1>12. ASSUME f.kind # "echo" PROVE n = 2 /\ box = <<>>
  <2>1. ~(n > 2)
    BY <1>2, <1>3, <1>5, <1>12 DEF Exchange
  <2>2. n > 0
    BY <1>3
  <2> QED
    BY <1>2, <1>3, <1>5, <1>12, <2>1, <2>2 DEF Exchange
<1>13. ASSUME Whole(a), f.kind # "echo" PROVE m = 2 /\ b = <<>> /\ box = <<>>
  <2>1. m = 2 /\ k = 0
    BY <1>3, <1>11, <1>12, <1>13
  <2> QED
    BY <1>1, <1>12, <1>13, <2>1, EmptySeq
<1> QED
  BY <1>1, <1>2, <1>3, <1>6, <1>8, <1>9, <1>10, <1>11, <1>13

(***************************************************************************)
(* What keeps an exchange                                                  *)
(***************************************************************************)

\* A read moves cells from the line to the buffer.
LEMMA ReadInTurn ==
  ASSUME HonestInv, Exchange(buffer \o line, inbox, Own), NEW n \in 0 .. Len(line),
         line' = SubSeq(line, n + 1, Len(line)), buffer' = buffer \o SubSeq(line, 1, n),
         UNCHANGED <<handler, inbox, lastSent>>
  PROVE  Exchange(buffer' \o line', inbox', Own')
<1>1. line \in Seq(HonestCells) /\ buffer \in Seq(HonestCells)
  BY DEF HonestInv, HonestTypes
<1>2. (buffer \o SubSeq(line, 1, n)) \o SubSeq(line, n + 1, Len(line)) = buffer \o line
  BY <1>1, WireStays
<1>3. buffer' \o line' = buffer \o line /\ inbox' = inbox /\ Own' = Own
  BY <1>2 DEF Own
<1> QED
  BY <1>3

\* There is no zero to cut off in front of an exchange.
LEMMA StrippedInTurn ==
  ASSUME HonestInv, Exchange(buffer \o line, inbox, Own), NEW n \in 0 .. Len(line),
         line' = SubSeq(line, n + 1, Len(line)), buffer' = WithoutZeros(Received(n)),
         UNCHANGED <<handler, inbox, lastSent>>
  PROVE  Exchange(buffer' \o line', inbox', Own')
<1>1. line \in Seq(HonestCells) /\ buffer \in Seq(HonestCells)
  BY DEF HonestInv, HonestTypes
<1>2. PICK a, b : a = buffer \o SubSeq(line, 1, n) /\ b = SubSeq(line, n + 1, Len(line))
  OBVIOUS
<1>3. a \in Seq(HonestCells) /\ b \in Seq(HonestCells) /\ a \o b = buffer \o line
  <2>1. (buffer \o SubSeq(line, 1, n)) \o SubSeq(line, n + 1, Len(line)) = buffer \o line
    BY <1>1, WireStays
  <2> QED
    BY <1>2, <2>1, ReadIsHonest
<1>4. a # <<>> => Head(a) # Zero
  <2> SUFFICES ASSUME a # <<>> PROVE Head(a) # Zero
    OBVIOUS
  <2>1. Exchange(a \o b, inbox, Own)
    BY <1>3
  <2> QED
    BY <1>3, <2>1, ExchangeFront
<1>5. buffer' = buffer \o SubSeq(line, 1, n)
  BY <1>2, <1>4 DEF Received, WithoutZeros
<1> QED
  BY <1>5, ReadInTurn

\* The pulse is read and cut off, or nothing is read.
LEMMA PulseInTurn ==
  ASSUME HonestInv, Pulse, NEW n \in 0 .. Len(line),
         line' = SubSeq(line, n + 1, Len(line)), buffer' = WithoutZeros(Received(n)),
         UNCHANGED <<handler, inbox, lastSent>>
  PROVE  \/ buffer' = <<>> /\ line' = line
         \/ Exchange(buffer' \o line', inbox', Own')
<1>1. line \in Seq(HonestCells) /\ buffer = <<>> /\ line # <<>> /\ Head(line) = Zero
  BY DEF HonestInv, HonestTypes, Pulse
<1>2. PICK a, b : a = SubSeq(line, 1, n) /\ b = SubSeq(line, n + 1, Len(line))
  OBVIOUS
<1>3. a \in Seq(HonestCells) /\ b \in Seq(HonestCells) /\ a \o b = line
  <2>1. /\ SubSeq(line, 1, n) \in Seq(HonestCells)
        /\ SubSeq(line, n + 1, Len(line)) \in Seq(HonestCells)
        /\ SubSeq(line, 1, n) \o SubSeq(line, n + 1, Len(line)) = line
    BY <1>1, WireIsCut
  <2> QED
    BY <1>2, <2>1
<1>4. Received(n) = a
  BY <1>1, <1>2, <1>3, ConcatEmptySeq DEF Received
<1>5. CASE a = <<>>
  <2>1. buffer' = <<>>
    BY <1>4, <1>5 DEF WithoutZeros
  <2>2. line' = line
    BY <1>2, <1>3, <1>5, ConcatEmptySeq
  <2> QED
    BY <2>1, <2>2
<1>6. CASE a # <<>>
  <2>1. Head(line) = Head(a) /\ Tail(line) = Tail(a) \o b
    BY <1>3, <1>6, TailOfConcat
  <2>2. buffer' = Tail(a)
    BY <1>1, <1>4, <1>6, <2>1 DEF WithoutZeros
  <2>3. buffer' \o line' = Tail(line) /\ inbox' = inbox /\ Own' = Own
    BY <1>2, <2>1, <2>2 DEF Own
  <2> QED
    BY <2>3 DEF Pulse
<1> QED
  BY <1>5, <1>6

\* The first frame, once whole, is dropped.
LEMMA DropInTurn ==
  ASSUME HonestInv, Exchange(buffer \o line, inbox, Own), Whole(buffer),
         buffer' = SubSeq(buffer, 3, Len(buffer)), UNCHANGED <<handler, line, inbox, lastSent>>
  PROVE  Exchange(buffer' \o line', inbox', Own')
<1>1. line \in Seq(HonestCells) /\ buffer \in Seq(HonestCells)
  BY DEF HonestInv, HonestTypes
<1>2. PICK w \in Seq(HonestCells) : w = buffer \o line
  BY <1>1, ConcatProperties
<1>3. Len(buffer) > 1 /\ buffer # <<>>
  BY <1>1, EmptySeq DEF Whole
<1>4. Len(w) > 1
  BY <1>1, <1>2, <1>3, ExchangeFront
<1>5. SubSeq(buffer, 3, Len(buffer)) \o line = SubSeq(w, 3, Len(w))
  BY <1>1, <1>2, <1>3, WireDrops
<1>6. Exchange(SubSeq(w, 3, Len(w)), inbox, Own)
  BY <1>2, <1>4, ExchangeRest
<1> QED
  BY <1>5, <1>6 DEF Own

\* A request goes out on a wire with nothing under way.
LEMMA SendInTurn ==
  ASSUME NEW name, NEW arg, Transmit(name, arg), line = <<>>, inbox = <<>>,
         buffer' = <<>>, handler = "2J" => Request(name, arg) \in Own', handler' = handler
  PROVE  Exchange(buffer' \o line', inbox', Own')
<1>1. PICK f : f = Request(name, arg) /\ f.kind = "echo"
  BY DEF Request
<1>2. Own' # {} => f \in Own'
  BY <1>1 DEF Own
<1>3. Exchange(<<>>, inbox', Own') /\ Exchange(Cells(f), inbox', Own')
  BY <1>1, <1>2, ExchangeBegins
<1>4. PICK c : c = Cells(f) /\ c \in Seq({<<f, "head">>, <<f, "tail">>})
  BY CellsAre
<1>5. line' = c \/ line' = <<>>
  BY <1>1, <1>4, ConcatEmptySeq DEF Transmit
<1>6. <<>> \o c = c /\ <<>> \o <<>> = <<>>
  BY <1>4, ConcatEmptySeq
<1> QED
  BY <1>3, <1>4, <1>5, <1>6

\* A session that handles a frame which is no echo of its own has the whole
\* exchange before it, and a damaged frame it never sees.
LEMMA HandlesInTurn ==
  ASSUME HonestInv, Turns, pc \in {"handle", "checking"}
  PROVE  /\ Exchange(buffer \o line, inbox, Own)
         /\ ~Garbled(buffer)
         /\ Whole(buffer) =>
              /\ Frame(buffer).kind = "echo" /\ Own # {} => Frame(buffer) \in Own
              /\ Frame(buffer).kind # "echo" =>
                   Len(buffer) = 2 /\ line = <<>> /\ inbox = <<>>
<1>1. line \in Seq(HonestCells) /\ buffer \in Seq(HonestCells)
  BY DEF HonestInv, HonestTypes
<1>2. Exchange(buffer \o line, inbox, Own)
  BY DEF Turns, Reading, Pulse
<1>3. CASE buffer = <<>>
  <2>1. Len(buffer) = 0
    BY <1>3, EmptySeq
  <2> QED
    BY <1>2, <1>3, <2>1 DEF Garbled, Whole
<1>4. CASE buffer # <<>>
  BY <1>1, <1>2, <1>4, ExchangeFront
<1> QED
  BY <1>3, <1>4

(***************************************************************************)
(* The steps of the handlers                                               *)
(***************************************************************************)

\* A session that listens, or is over.
LEMMA ListensInTurn ==
  /\ pc' \in Reading \ {"checking"} /\ Exchange(buffer' \o line', inbox', Own') => Turns'
  /\ pc' \in Over => Turns'
BY DEF Turns, Reading, Resting, Over

\* The end of a session.
LEMMA EndsInTurn ==
  ASSUME NEW how \in Over, End(how) PROVE Turns'
BY ListensInTurn DEF End

\* The wake-up: a request, if the handler sends one, with or without the byte
\* that its pulse reads back as.
LEMMA WakesInTurn ==
  ASSUME NEW f, f.kind = "echo" /\ (Own' # {} => f \in Own'),
         NEW sent \in {<<>>, Cells(f)}, NEW noise \in {<<>>, <<Zero>>}, line' = noise \o sent,
         <<handler', pc'>> \in {<<"2J", "read">>, <<"rc5", "waking">>}, buffer' = <<>>
  PROVE  Turns'
<1>1. Exchange(sent, inbox', Own')
  <2>1. Exchange(<<>>, inbox', Own') /\ Exchange(Cells(f), inbox', Own')
    BY ExchangeBegins
  <2> QED
    BY <2>1
<1>2. PICK S : S = {<<f, "head">>, <<f, "tail">>, Zero}
  OBVIOUS
<1>3. sent \in Seq(S)
  <2>1. {<<f, "head">>, <<f, "tail">>} \subseteq S
    BY <1>2
  <2>2. Cells(f) \in Seq({<<f, "head">>, <<f, "tail">>})
    BY CellsAre
  <2>3. Cells(f) \in Seq(S)
    BY <2>1, <2>2, SeqMonotonic
  <2>4. <<>> \in Seq(S)
    OBVIOUS
  <2> QED
    BY <2>3, <2>4
<1>4. CASE noise = <<>>
  <2>1. line' = sent
    BY <1>3, <1>4, ConcatEmptySeq
  <2>2. buffer' \o line' = sent
    BY <1>3, <2>1, ConcatEmptySeq
  <2>3. pc' \in Reading \ {"checking"}
    BY DEF Reading
  <2> QED
    BY <1>1, <2>2, <2>3, ListensInTurn
<1>5. CASE noise = <<Zero>>
  <2>1. PICK z : z = <<Zero>>
    OBVIOUS
  <2>2. z \in Seq(S) /\ z # <<>> /\ Head(z) = Zero /\ Tail(z) = <<>>
    <3>1. Zero \in S => <<Zero>> \in Seq(S)
      OBVIOUS
    <3> QED
      BY <1>2, <2>1, <3>1
  <2>3. z \o sent # <<>> /\ Head(z \o sent) = Zero /\ Tail(z \o sent) = Tail(z) \o sent
    BY <1>3, <2>2, TailOfConcat
  <2>4. Tail(z \o sent) = sent
    BY <1>3, <2>2, <2>3, ConcatEmptySeq
  <2>5. Pulse'
    BY <1>1, <1>5, <2>1, <2>3, <2>4 DEF Pulse
  <2> QED
    BY <2>5 DEF Turns, Reading, Resting
<1> QED
  BY <1>4, <1>5

\* Every step of a MEMS 2J session.
LEMMA TurnStep2J ==
  ASSUME HonestInv, Turns, handler = "2J", Mems2J!Loop \/ Mems2J!WakeUpFails
  PROVE  Turns'
<1>0. "read" \in Reading \ {"checking"} /\ "handle" \in Reading \ {"checking"}
  BY DEF Reading
<1>1. CASE Mems2J!WakeUp
  <2>1. /\ pc = "init" /\ pc' = "read" /\ UNCHANGED <<handler, buffer, lastSent>>
        /\ \E noise \in {<<>>, <<Zero>>} :
             line' = noise \o (IF Echo THEN Cells(Request("init", 0)) ELSE <<>>)
    BY <1>1, Common2J DEF Mems2J!WakeUp, Mems2J!surroundings
  <2>2. PICK f : f = Request("init", 0) /\ f.kind = "echo"
    <3>1. Request("init", 0).kind = "echo"
      BY DEF Request
    <3> QED
      BY <3>1
  <2>3. PICK noise \in {<<>>, <<Zero>>}, sent \in {<<>>, Cells(f)} : line' = noise \o sent
    BY <2>1, <2>2
  <2>4. f \in Own' /\ buffer' = <<>>
    BY <2>1, <2>2 DEF Own, Turns, Resting
  <2> QED
    BY <2>1, <2>2, <2>3, <2>4, WakesInTurn
<1>2. CASE Mems2J!Read
  <2>1. PICK n \in 0 .. Len(line) :
          line' = SubSeq(line, n + 1, Len(line)) /\ buffer' = WithoutZeros(Received(n))
    BY <1>2, Common2J DEF Mems2J!Read, Mems2J!Arrive, Mems2J!Received, Mems2J!WithoutZeros,
         Received, WithoutZeros
  <2>2. /\ pc = "read" /\ pc' \in {"read", "handle"} /\ (buffer' = <<>> => pc' = "read")
        /\ UNCHANGED <<handler, inbox, lastSent>>
    BY <1>2 DEF Mems2J!Read, Mems2J!Running, Mems2J!surroundings
  <2>3. CASE Exchange(buffer \o line, inbox, Own)
    <3>1. Exchange(buffer' \o line', inbox', Own')
      BY <2>1, <2>2, <2>3, StrippedInTurn
    <3> QED
      BY <1>0, <2>2, <3>1, ListensInTurn
  <2>4. CASE Pulse
    <3>1. CASE buffer' = <<>> /\ line' = line
      <4>1. Pulse'
        BY <2>2, <2>4, <3>1 DEF Pulse, Own
      <4> QED
        BY <2>2, <3>1, <4>1 DEF Turns, Reading, Resting
    <3>2. CASE Exchange(buffer' \o line', inbox', Own')
      BY <1>0, <2>2, <3>2, ListensInTurn
    <3> QED
      BY <2>1, <2>2, <2>4, <3>1, <3>2, PulseInTurn
  <2> QED
    BY <2>2, <2>3, <2>4 DEF Turns, Reading
<1>3. CASE Mems2J!Timeout \/ Mems2J!Cancelled \/ Mems2J!WakeUpFails
  <2>1. \E how \in Over : End(how)
    BY <1>3, Common2J DEF Mems2J!Timeout, Mems2J!Cancelled, Mems2J!WakeUpFails, Over
  <2> QED
    BY <2>1, EndsInTurn
<1>4. ASSUME pc = "handle"
      PROVE  /\ Exchange(buffer \o line, inbox, Own) /\ ~Garbled(buffer)
             /\ Whole(buffer) =>
                  /\ Frame(buffer).kind = "echo" => Frame(buffer) \in Own
                  /\ Frame(buffer).kind # "echo" =>
                       Len(buffer) = 2 /\ line = <<>> /\ inbox = <<>>
  BY <1>4, HandlesInTurn DEF Own
<1>5. CASE Mems2J!SkipEcho
  <2>1. /\ pc = "handle" /\ Whole(buffer) /\ pc' = "read"
        /\ buffer' = SubSeq(buffer, 3, Len(buffer))
        /\ UNCHANGED <<handler, line, inbox, lastSent>>
    BY <1>5, Common2J DEF Mems2J!SkipEcho, Mems2J!IsEcho, Mems2J!Discard, Mems2J!surroundings
  <2>2. Exchange(buffer' \o line', inbox', Own')
    BY <1>4, <2>1, DropInTurn
  <2> QED
    BY <1>0, <2>1, <2>2, ListensInTurn
<1>6. CASE Mems2J!AwaitMore
  <2>1. pc = "handle" /\ pc' = "read" /\ UNCHANGED <<handler, buffer, line, inbox, lastSent>>
    BY <1>6 DEF Mems2J!AwaitMore, Mems2J!surroundings
  <2>2. Exchange(buffer' \o line', inbox', Own')
    BY <1>4, <2>1 DEF Own
  <2> QED
    BY <1>0, <2>1, <2>2, ListensInTurn
<1>7. CASE Mems2J!HandleFrame
  <2>1. /\ pc = "handle" /\ Whole(buffer) /\ Frame(buffer) \notin {lastSent, Request("init", 0)}
        /\ Mems2J!Handle(Frame(buffer))
    BY <1>7, Common2J DEF Mems2J!HandleFrame, Mems2J!IsEcho
  <2>2. line = <<>> /\ inbox = <<>>
    BY <1>4, <2>1 DEF Own
  <2>3. \E name, arg : Transmit(name, arg) /\ lastSent' = Request(name, arg)
    BY <2>1, Common2J DEF Mems2J!Handle, Mems2J!SendNextCommand, Mems2J!SendCommand
  <2>4. buffer' = <<>> /\ pc' = "read" /\ handler' = handler
    BY <2>1 DEF Mems2J!Handle, Mems2J!surroundings
  <2>5. Exchange(buffer' \o line', inbox', Own')
    BY <2>2, <2>3, <2>4, SendInTurn DEF Own
  <2> QED
    BY <1>0, <2>4, <2>5, ListensInTurn
<1>8. CASE Mems2J!HandleGarbled
  <2>1. pc = "handle" /\ Garbled(buffer)
    BY <1>8, Common2J DEF Mems2J!HandleGarbled, Mems2J!Garbled, Garbled, Mems2J!Incomplete,
         Incomplete
  <2> QED
    BY <1>4, <2>1
<1> QED
  BY <1>1, <1>2, <1>3, <1>5, <1>6, <1>7, <1>8 DEF Mems2J!Loop

\* Every step of a MEMS 3 session.
LEMMA TurnStep3 ==
  ASSUME HonestInv, Turns, handler = "3", Mems3!Loop \/ Mems3!ReadFails
  PROVE  Turns'
<1>0. "read" \in Reading \ {"checking"} /\ "handle" \in Reading \ {"checking"}
  BY DEF Reading
<1>a. \A s : Mems3!Whole(s) <=> Whole(s)
  BY DEF Mems3!Whole, Whole, Mems3!Cells, Cells, Mems3!Frame, Frame
<1>1. CASE Mems3!Start
  <2>1. /\ pc = "init" /\ pc' = "read" /\ UNCHANGED <<handler, buffer>>
        /\ Transmit("init", 0)
    BY <1>1, Common3 DEF Mems3!Start, Mems3!surroundings
  <2>2. buffer = <<>> /\ line = <<>> /\ inbox = <<>>
    BY <2>1 DEF Turns, Resting
  <2>3. Exchange(buffer' \o line', inbox', Own')
    BY <2>1, <2>2, SendInTurn
  <2> QED
    BY <1>0, <2>1, <2>3, ListensInTurn
<1>2. CASE Mems3!Read
  <2>1. PICK n \in 0 .. Len(line) :
          line' = SubSeq(line, n + 1, Len(line)) /\ buffer' = buffer \o SubSeq(line, 1, n)
    BY <1>2 DEF Mems3!Read, Mems3!Arrive, Mems3!Received
  <2>2. pc = "read" /\ pc' \in {"read", "handle"} /\ UNCHANGED <<handler, inbox, lastSent>>
    BY <1>2 DEF Mems3!Read, Mems3!Running, Mems3!surroundings
  <2>3. Exchange(buffer \o line, inbox, Own)
    BY <2>2 DEF Turns, Reading, Pulse
  <2>4. Exchange(buffer' \o line', inbox', Own')
    BY <2>1, <2>2, <2>3, ReadInTurn
  <2> QED
    BY <1>0, <2>2, <2>4, ListensInTurn
<1>3. CASE Mems3!Timeout \/ Mems3!Cancelled \/ Mems3!ReadFails
  <2>1. \E how \in Over : End(how)
    BY <1>3, Common3 DEF Mems3!Timeout, Mems3!Cancelled, Mems3!ReadFails, Over
  <2> QED
    BY <2>1, EndsInTurn
<1>4. ASSUME pc = "handle"
      PROVE  /\ Exchange(buffer \o line, inbox, Own) /\ ~Garbled(buffer)
             /\ Whole(buffer) /\ Frame(buffer).kind # "echo" =>
                  Len(buffer) = 2 /\ line = <<>> /\ inbox = <<>>
  BY <1>4, HandlesInTurn
<1>5. CASE Mems3!SkipEcho \/ Mems3!BurnRefusal
  <2>1. /\ pc = "handle" /\ Whole(buffer) /\ pc' = "read"
        /\ buffer' = SubSeq(buffer, 3, Len(buffer))
        /\ UNCHANGED <<handler, line, inbox, lastSent>>
    BY <1>5, <1>a DEF Mems3!SkipEcho, Mems3!BurnRefusal, Mems3!Discard, Mems3!surroundings
  <2>2. Exchange(buffer' \o line', inbox', Own')
    BY <1>4, <2>1, DropInTurn
  <2> QED
    BY <1>0, <2>1, <2>2, ListensInTurn
<1>6. CASE Mems3!AwaitMore
  <2>1. pc = "handle" /\ pc' = "read" /\ UNCHANGED <<handler, buffer, line, inbox, lastSent>>
    BY <1>6 DEF Mems3!AwaitMore, Mems3!surroundings
  <2>2. Exchange(buffer' \o line', inbox', Own')
    BY <1>4, <2>1 DEF Own
  <2> QED
    BY <1>0, <2>1, <2>2, ListensInTurn
<1>7. CASE Mems3!HandleReply
  <2>1. /\ pc = "handle" /\ Whole(buffer) /\ Frame(buffer).kind = "reply"
        /\ buffer' = <<>> /\ pc' = "read" /\ handler' = handler
        /\ Mems3!SendNextCommand(Frame(buffer))
    BY <1>7, <1>a, Common3 DEF Mems3!HandleReply, Mems3!surroundings
  <2>2. line = <<>> /\ inbox = <<>>
    BY <1>4, <2>1
  <2>3. \E name, arg : Mems3!Transmit(name, arg)
    <3> HIDE DEF Mems3!Transmit
    <3> QED
      BY <2>1, Zenon DEF Mems3!SendNextCommand
  <2>4. Exchange(buffer' \o line', inbox', Own')
    BY <2>1, <2>2, <2>3, Common3, SendInTurn
  <2> QED
    BY <1>0, <2>1, <2>4, ListensInTurn
<1>8. CASE Mems3!BurnGarbled
  <2>1. pc = "handle" /\ Garbled(buffer)
    BY <1>8, <1>a DEF Mems3!BurnGarbled, Mems3!Garbled, Garbled, Mems3!Incomplete, Incomplete
  <2> QED
    BY <1>4, <2>1
<1> QED
  BY <1>1, <1>2, <1>3, <1>5, <1>6, <1>7, <1>8 DEF Mems3!Loop

\* Every step of an RC5 session.
LEMMA TurnStepRc5 ==
  ASSUME HonestInv, Turns, handler = "rc5",
         Rc5!Loop \/ Rc5!WakePatternFails \/ Rc5!WakeReadFails \/ Rc5!ReadFails
  PROVE  Turns'
<1>0. {"read", "handle", "waking"} \subseteq Reading \ {"checking"}
  BY DEF Reading
<1>a. \A s : Rc5!Whole(s) <=> Whole(s)
  BY DEF Rc5!Whole, Whole, Rc5!Cells, Cells, Rc5!Frame, Frame
<1>1. CASE Rc5!WakePattern
  <2>1. /\ pc = "init" /\ pc' = "waking" /\ UNCHANGED <<handler, buffer>>
        /\ line' \in {<<>>, <<Zero>>}
    BY <1>1, CommonRc5 DEF Rc5!WakePattern, Rc5!surroundings
  <2>2. PICK f : f = Request("init", 0) /\ f.kind = "echo"
    <3>1. Request("init", 0).kind = "echo"
      BY DEF Request
    <3> QED
      BY <3>1
  <2>3. PICK noise \in {<<>>, <<Zero>>} : line' = noise \o <<>>
    <3>1. <<>> \o <<>> = <<>> /\ <<Zero>> \o <<>> = <<Zero>>
      OBVIOUS
    <3> QED
      BY <2>1, <3>1
  <2>4. Own' = {} /\ buffer' = <<>>
    BY <2>1 DEF Own, Turns, Resting
  <2> QED
    BY <2>1, <2>2, <2>3, <2>4, WakesInTurn
<1>2. CASE Rc5!ReadWaking
  <2>1. PICK n \in 0 .. Len(line) :
          line' = SubSeq(line, n + 1, Len(line)) /\ buffer' = WithoutZeros(Received(n))
    BY <1>2, CommonRc5 DEF Rc5!ReadWaking, Rc5!Received, Rc5!WithoutZeros, Received, WithoutZeros
  <2>2. /\ pc = "waking" /\ pc' = (IF Len(buffer') < 2 THEN "waking" ELSE "checking")
        /\ UNCHANGED <<handler, inbox, lastSent>>
    BY <1>2 DEF Rc5!ReadWaking, Rc5!surroundings
  <2>3. buffer' \in Seq(HonestCells)
    <3>1. buffer \o SubSeq(line, 1, n) \in Seq(HonestCells)
      BY ReadIsHonest
    <3>2. \/ buffer' = buffer \o SubSeq(line, 1, n)
          \/ /\ buffer \o SubSeq(line, 1, n) # <<>>
             /\ buffer' = Tail(buffer \o SubSeq(line, 1, n))
      BY <2>1 DEF WithoutZeros, Received
    <3> QED
      BY <3>1, <3>2, HeadTailProperties
  <2>4. Len(buffer') \in Nat /\ (buffer' = <<>> => Len(buffer') = 0)
    BY <2>3, EmptySeq
  <2>5. ASSUME Exchange(buffer' \o line', inbox', Own') PROVE Turns'
    BY <2>2, <2>4, <2>5 DEF Turns, Reading, Resting
  <2>6. CASE Exchange(buffer \o line, inbox, Own)
    BY <2>1, <2>2, <2>5, <2>6, StrippedInTurn
  <2>7. CASE Pulse
    <3>1. CASE buffer' = <<>> /\ line' = line
      <4>1. pc' = "waking"
        BY <2>2, <2>4, <3>1
      <4>2. Pulse'
        BY <2>2, <2>7, <3>1, <4>1 DEF Pulse, Own
      <4> QED
        BY <4>1, <4>2 DEF Turns, Reading, Resting
    <3> QED
      BY <2>1, <2>2, <2>5, <2>7, <3>1, PulseInTurn
  <2> QED
    BY <2>2, <2>6, <2>7 DEF Turns, Reading
<1>3. CASE \/ Rc5!Timeout \/ Rc5!Cancelled \/ Rc5!WakeTimeout \/ Rc5!WrongReply
           \/ Rc5!WakePatternFails \/ Rc5!WakeReadFails \/ Rc5!ReadFails
  <2>1. \E how \in Over : End(how)
    BY <1>3, CommonRc5 DEF Rc5!Timeout, Rc5!Cancelled, Rc5!WakeTimeout, Rc5!WrongReply,
         Rc5!WakePatternFails, Rc5!WakeReadFails, Rc5!ReadFails, Over
  <2> QED
    BY <2>1, EndsInTurn
<1>4. ASSUME pc \in {"handle", "checking"}
      PROVE  /\ Exchange(buffer \o line, inbox, Own)
             /\ Whole(buffer) /\ Frame(buffer).kind # "echo" =>
                  Len(buffer) = 2 /\ line = <<>> /\ inbox = <<>>
  BY <1>4, HandlesInTurn
<1>5. CASE Rc5!Woke
  <2>1. /\ pc = "checking" /\ pc' = "choosing" /\ UNCHANGED <<handler, line, inbox>>
        /\ buffer' = <<>> /\ Whole(buffer) /\ Frame(buffer) = Rc5!Reply("init", 0)
    BY <1>5, <1>a, CommonRc5 DEF Rc5!Woke, Rc5!IsWokeReply, Rc5!surroundings
  <2>2. Frame(buffer).kind # "echo"
    BY <2>1 DEF Rc5!Reply
  <2>3. line = <<>> /\ inbox = <<>>
    BY <1>4, <2>1, <2>2
  <2> QED
    BY <2>1, <2>3 DEF Turns, Reading, Resting
<1>6. CASE Rc5!ChooseCommand
  <2>1. /\ pc = "choosing" /\ pc' = "sending" /\ UNCHANGED <<buffer, line, inbox>>
    BY <1>6 DEF Rc5!ChooseCommand
  <2> QED
    BY <2>1 DEF Turns, Reading, Resting
<1>7. CASE Rc5!SendNextCommand
  <2>1. /\ pc = "sending" /\ pc' = "read" /\ UNCHANGED <<handler, buffer>>
        /\ \E name : Transmit(name, 0)
    BY <1>7, CommonRc5 DEF Rc5!SendNextCommand, Rc5!surroundings
  <2>2. buffer = <<>> /\ line = <<>> /\ inbox = <<>>
    BY <2>1 DEF Turns, Resting
  <2>3. Exchange(buffer' \o line', inbox', Own')
    BY <2>1, <2>2, SendInTurn
  <2> QED
    BY <1>0, <2>1, <2>3, ListensInTurn
<1>8. CASE Rc5!Read
  <2>1. PICK n \in 0 .. Len(line) :
          line' = SubSeq(line, n + 1, Len(line)) /\ buffer' = buffer \o SubSeq(line, 1, n)
    BY <1>8 DEF Rc5!Read, Rc5!Arrive, Rc5!Received
  <2>2. pc = "read" /\ pc' \in {"read", "handle"} /\ UNCHANGED <<handler, inbox, lastSent>>
    BY <1>8 DEF Rc5!Read, Rc5!Running, Rc5!surroundings
  <2>3. Exchange(buffer \o line, inbox, Own)
    BY <2>2 DEF Turns, Reading, Pulse
  <2>4. Exchange(buffer' \o line', inbox', Own')
    BY <2>1, <2>2, <2>3, ReadInTurn
  <2> QED
    BY <1>0, <2>2, <2>4, ListensInTurn
<1>9. CASE Rc5!SkipEcho
  <2>1. /\ pc = "handle" /\ Whole(buffer) /\ pc' = "read"
        /\ buffer' = SubSeq(buffer, 3, Len(buffer))
        /\ UNCHANGED <<handler, line, inbox, lastSent>>
    BY <1>9, <1>a DEF Rc5!SkipEcho, Rc5!Discard, Rc5!surroundings
  <2>2. Exchange(buffer' \o line', inbox', Own')
    BY <1>4, <2>1, DropInTurn
  <2> QED
    BY <1>0, <2>1, <2>2, ListensInTurn
<1>10. CASE Rc5!HandleReply
  <2>1. /\ pc = "handle" /\ Whole(buffer) /\ Frame(buffer).kind = "reply"
        /\ buffer' = SubSeq(buffer, 3, Len(buffer)) /\ pc' = "choosing"
        /\ UNCHANGED <<line, inbox>>
    BY <1>10, <1>a, CommonRc5 DEF Rc5!HandleReply
  <2>2. Len(buffer) = 2 /\ line = <<>> /\ inbox = <<>>
    BY <1>4, <2>1
  <2>3. buffer' = <<>>
    <3>1. PICK k \in Int : k = Len(buffer) /\ k < 3
      BY <2>2
    <3> QED
      BY <2>1, <3>1, SubSeqEmpty
  <2> QED
    BY <2>1, <2>2, <2>3 DEF Turns, Reading, Resting
<1>11. CASE Rc5!AwaitForEver \/ Rc5!AwaitMore
  <2>1. pc = "handle" /\ pc' = "read" /\ UNCHANGED <<handler, buffer, line, inbox, lastSent>>
    BY <1>11 DEF Rc5!AwaitForEver, Rc5!AwaitMore, Rc5!surroundings
  <2>2. Exchange(buffer' \o line', inbox', Own')
    BY <1>4, <2>1 DEF Own
  <2> QED
    BY <1>0, <2>1, <2>2, ListensInTurn
<1> QED
  BY <1>1, <1>2, <1>3, <1>5, <1>6, <1>7, <1>8, <1>9, <1>10, <1>11 DEF Rc5!Loop

\* Every step of the fake ECU's session, which has no wire.
LEMMA TurnStepFake ==
  ASSUME HonestInv, Turns, handler = "fake", Fake!Loop
  PROVE  Turns'
<1>1. CASE Fake!Connect
  <2>1. /\ pc = "init" /\ pc' = "read"
        /\ UNCHANGED <<handler, buffer, line, inbox>>
    BY <1>1 DEF Fake!Connect, Fake!surroundings
  <2>2. PICK f : f = Request("init", 0) /\ f.kind = "echo"
    <3>1. Request("init", 0).kind = "echo"
      BY DEF Request
    <3> QED
      BY <3>1
  <2>3. Own' = {} /\ buffer' = <<>> /\ line' = <<>>
    BY <2>1 DEF Own, Turns, Resting
  <2>4. Exchange(<<>>, inbox', Own')
    BY <2>2, <2>3, ExchangeBegins
  <2>5. Exchange(buffer' \o line', inbox', Own')
    <3>1. <<>> \o <<>> = <<>>
      OBVIOUS
    <3> QED
      BY <2>3, <2>4, <3>1
  <2> QED
    BY <2>1, <2>5, ListensInTurn DEF Reading
<1>2. CASE Fake!Cancelled
  <2>1. pc' \in Over
    BY <1>2 DEF Fake!Cancelled, Fake!End, Over
  <2> QED
    BY <2>1, ListensInTurn
<1>3. CASE Fake!Tick
  <2>1. UNCHANGED <<handler, pc, buffer, lastSent, line, inbox>>
    BY <1>3 DEF Fake!Tick, Fake!session
  <2> QED
    BY <2>1 DEF Turns, Pulse, Own
<1> QED
  BY <1>1, <1>2, <1>3 DEF Fake!Loop

(***************************************************************************)
(* The surroundings, and the property                                      *)
(***************************************************************************)

\* The ECU answers the request under way.
LEMMA AnswersInTurn ==
  ASSUME HonestInv, Turns, EcuAnswers PROVE Turns'
<1>1. PICK f : line' = line \o Cells(f) /\ f.kind # "echo"
  <2>1. \E n, a, v : Answer(Reply(n, a), v) \/ Answer(Refusal(n), v)
    BY DEF EcuAnswers, Accept
  <2>2. PICK n, a, v : Answer(Reply(n, a), v) \/ Answer(Refusal(n), v)
    BY <2>1
  <2>3. Reply(n, a).kind = "reply" /\ Refusal(n).kind = "refusal"
    BY DEF Reply, Refusal
  <2> QED
    BY <2>2, <2>3 DEF Answer
<1>2. inbox # <<>> /\ inbox' = <<>> /\ UNCHANGED <<handler, pc, buffer, lastSent>>
  BY DEF EcuAnswers, session
<1>3. Own' = Own
  BY <1>2 DEF Own
<1>4. line \in Seq(HonestCells) /\ buffer \in Seq(HonestCells)
  BY DEF HonestInv, HonestTypes
<1>5. pc \notin Resting /\ (pc = "checking" => Len(buffer) > 1)
  BY <1>2 DEF Turns
<1>6. ASSUME pc \in Reading PROVE Exchange(buffer' \o line', inbox', Own') \/ Pulse'
  <2>1. CASE Exchange(buffer \o line, inbox, Own)
    <3>1. PICK S : S = HonestCells \cup {<<f, "head">>, <<f, "tail">>}
      OBVIOUS
    <3>2. PICK c \in Seq(S), l \in Seq(S), b \in Seq(S) : c = Cells(f) /\ l = line /\ b = buffer
      <4>1. HonestCells \subseteq S /\ {<<f, "head">>, <<f, "tail">>} \subseteq S
        BY <3>1
      <4>2. line \in Seq(S) /\ buffer \in Seq(S)
        BY <1>4, <4>1, SeqMonotonic
      <4>3. Cells(f) \in Seq({<<f, "head">>, <<f, "tail">>})
        BY CellsAre
      <4>4. Cells(f) \in Seq(S)
        BY <4>1, <4>3, SeqMonotonic
      <4> QED
        BY <4>2, <4>4
    <3>3. (b \o l) \o c = b \o (l \o c)
      BY ConcatAssociative
    <3>4. b \o l \in Seq(S)
      BY ConcatProperties
    <3>5. Exchange((b \o l) \o c, <<>>, Own)
      BY <1>1, <1>2, <2>1, <3>2, <3>4, ExchangeAnswered
    <3> QED
      BY <1>1, <1>2, <1>3, <3>2, <3>3, <3>5
  <2>2. CASE Pulse
    <3>1. line # <<>> /\ Head(line) = Zero /\ Exchange(Tail(line), inbox, Own)
      BY <2>2 DEF Pulse
    <3>2. PICK S : S = HonestCells \cup {<<f, "head">>, <<f, "tail">>}
      OBVIOUS
    <3>3. PICK c \in Seq(S), l \in Seq(S) : c = Cells(f) /\ l = line
      <4>1. HonestCells \subseteq S /\ {<<f, "head">>, <<f, "tail">>} \subseteq S
        BY <3>2
      <4>2. line \in Seq(S)
        BY <1>4, <4>1, SeqMonotonic
      <4>3. Cells(f) \in Seq({<<f, "head">>, <<f, "tail">>})
        BY CellsAre
      <4>4. Cells(f) \in Seq(S)
        BY <4>1, <4>3, SeqMonotonic
      <4> QED
        BY <4>2, <4>4
    <3>4. l \o c # <<>> /\ Head(l \o c) = Head(l) /\ Tail(l \o c) = Tail(l) \o c
      BY <3>1, <3>3, TailOfConcat
    <3>5. Tail(l) \in Seq(S)
      BY <3>1, <3>3, HeadTailProperties
    <3>6. Exchange(Tail(l) \o c, <<>>, Own)
      BY <1>1, <1>2, <3>1, <3>3, <3>5, ExchangeAnswered
    <3> QED
      BY <1>1, <1>2, <1>3, <2>2, <3>1, <3>3, <3>4, <3>6 DEF Pulse
  <2> QED
    BY <1>6, <2>1, <2>2 DEF Turns
<1> QED
  BY <1>2, <1>5, <1>6 DEF Turns

\* What goes on around a session, except that a cell is lost.
LEMMA SurroundingsInTurn ==
  ASSUME HonestInv, Turns, Environment, ~LoseCell PROVE Turns'
<1>1. CASE (\E c \in Posts : SetUserCommand(c)) \/ Shutdown \/ EcuDrops
  <2>1. UNCHANGED <<handler, pc, buffer, lastSent, line, inbox>>
    BY <1>1 DEF SetUserCommand, Shutdown, EcuDrops, session, ecu
  <2> QED
    BY <2>1 DEF Turns, Pulse, Own
<1>2. CASE IgnitionOff
  <2>1. inbox' = <<>> /\ UNCHANGED <<handler, pc, buffer, lastSent, line>>
    BY <1>2 DEF IgnitionOff, session
  <2>2. Own' = Own
    BY <2>1 DEF Own
  <2>3. \A w : Exchange(w, inbox, Own) => Exchange(w, inbox', Own')
    BY <2>1, <2>2, ExchangeMissed
  <2> QED
    BY <2>1, <2>2, <2>3 DEF Turns, Pulse
<1>3. CASE EcuAnswers
  BY <1>3, AnswersInTurn
<1> QED
  BY <1>1, <1>2, <1>3 DEF Environment

\* Nothing else takes from the wire.
LEMMA OnlyTheWireLoses == [Next]_vars => lost' = lost \/ LoseCell
<1> SUFFICES ASSUME [Next]_vars PROVE lost' = lost \/ LoseCell
  OBVIOUS
<1>1. CASE handler = "2J" /\ (Mems2J!Loop \/ Mems2J!WakeUpFails)
  BY <1>1 DEF Mems2J!Loop, Mems2J!WakeUpFails, Mems2J!WakeUp, Mems2J!Read, Mems2J!Timeout,
       Mems2J!Cancelled, Mems2J!End, Mems2J!SkipEcho, Mems2J!Discard, Mems2J!AwaitMore,
       Mems2J!HandleFrame, Mems2J!HandleGarbled, Mems2J!Handle, Mems2J!surroundings
<1>2. CASE handler = "3" /\ (Mems3!Loop \/ Mems3!ReadFails)
  BY <1>2 DEF Mems3!Loop, Mems3!ReadFails, Mems3!Start, Mems3!Read, Mems3!Timeout,
       Mems3!Cancelled, Mems3!End, Mems3!SkipEcho, Mems3!BurnRefusal, Mems3!BurnGarbled,
       Mems3!Discard, Mems3!AwaitMore, Mems3!HandleReply, Mems3!surroundings
<1>3. CASE handler = "rc5" /\ (Rc5!Loop \/ Rc5!WakePatternFails \/ Rc5!WakeReadFails \/ Rc5!ReadFails)
  BY <1>3 DEF Rc5!Loop, Rc5!WakePatternFails, Rc5!WakeReadFails, Rc5!ReadFails, Rc5!WakePattern,
       Rc5!ReadWaking, Rc5!WakeTimeout, Rc5!WrongReply, Rc5!Woke, Rc5!ChooseCommand,
       Rc5!SendNextCommand, Rc5!Read, Rc5!Timeout, Rc5!Cancelled, Rc5!End, Rc5!SkipEcho,
       Rc5!Discard, Rc5!HandleReply, Rc5!AwaitForEver, Rc5!AwaitMore, Rc5!surroundings
<1>4. CASE handler = "fake" /\ Fake!Loop
  BY <1>4 DEF Fake!Loop, Fake!Connect, Fake!Tick, Fake!Cancelled, Fake!End, Fake!surroundings
<1>5. CASE Environment
  BY <1>5 DEF Environment, SetUserCommand, Shutdown, EcuAnswers, EcuDrops, IgnitionOff
<1>6. CASE UNCHANGED vars
  BY <1>6 DEF vars
<1> QED
  BY <1>1, <1>2, <1>3, <1>4, <1>5, <1>6 DEF Next, Loop, PortFails

\* Every step.
LEMMA TurnStep == TurnInv /\ [Next]_vars => TurnInv'
<1> SUFFICES ASSUME TurnInv, [Next]_vars PROVE TurnInv'
  OBVIOUS
<1>1. HonestInv /\ HonestInv' /\ lost \in Nat
  BY HonestStep DEF TurnInv
<1>2. CASE LoseCell
  <2>1. lost' = lost + 1
    BY <1>2 DEF LoseCell
  <2> QED
    BY <1>1, <2>1 DEF TurnInv
<1>3. CASE ~LoseCell
  <2>1. lost' = lost
    BY <1>3, OnlyTheWireLoses
  <2>2. ASSUME Turns PROVE Turns'
    <3>1. CASE Loop \/ PortFails
      BY <1>1, <2>2, <3>1, TurnStep2J, TurnStep3, TurnStepRc5, TurnStepFake DEF Loop, PortFails
    <3>2. CASE Environment
      BY <1>1, <1>3, <2>2, <3>2, SurroundingsInTurn
    <3>3. CASE UNCHANGED vars
      <4>1. UNCHANGED <<handler, pc, buffer, lastSent, line, inbox>>
        BY <3>3 DEF vars, session, ecu
      <4> QED
        BY <2>2, <4>1 DEF Turns, Pulse, Own
    <3> QED
      BY <3>1, <3>2, <3>3 DEF Next
  <2> QED
    BY <1>1, <2>1, <2>2 DEF TurnInv
<1> QED
  BY <1>2, <1>3

\* A transmission finds nothing else under way.
LEMMA SendsInTurn ==
  ASSUME TurnInv, [Next]_vars, Transmits, lost = 0
  PROVE  /\ inbox = <<>> /\ line = <<>>
         /\ IF pc = "handle" THEN Len(buffer) = 2 ELSE buffer = <<>>
<1>1. HonestInv /\ Turns
  BY DEF TurnInv
<1>2. ASSUME pc \in Resting PROVE pc # "handle" /\ buffer = <<>> /\ line = <<>> /\ inbox = <<>>
  BY <1>1, <1>2 DEF Turns, Resting
<1>3. CASE handler = "2J" /\ Mems2J!WakeUp
  <2>1. pc \in Resting
    BY <1>3 DEF Mems2J!WakeUp, Resting
  <2> QED
    BY <1>2, <2>1
<1>4. CASE handler = "2J" /\ Mems2J!HandleFrame
  <2>1. pc = "handle" /\ Whole(buffer) /\ Frame(buffer) \notin {lastSent, Request("init", 0)}
    BY <1>4, Common2J DEF Mems2J!HandleFrame, Mems2J!IsEcho
  <2>2. Own = {lastSent, Request("init", 0)}
    BY <1>4 DEF Own
  <2> QED
    BY <1>1, <2>1, <2>2, HandlesInTurn
<1>5. CASE handler = "2J" /\ Mems2J!HandleGarbled
  <2>1. pc = "handle" /\ Garbled(buffer)
    BY <1>5, Common2J DEF Mems2J!HandleGarbled, Mems2J!Garbled, Garbled, Mems2J!Incomplete,
         Incomplete
  <2> QED
    BY <1>1, <2>1, HandlesInTurn
<1>6. CASE handler = "3" /\ Mems3!Start
  <2>1. pc \in Resting
    BY <1>6 DEF Mems3!Start, Resting
  <2> QED
    BY <1>2, <2>1
<1>7. CASE handler = "3" /\ Mems3!HandleReply
  <2>1. pc = "handle" /\ Whole(buffer) /\ Frame(buffer).kind = "reply"
    BY <1>7, Common3 DEF Mems3!HandleReply, Mems3!Whole, Whole, Mems3!Cells, Cells
  <2> QED
    BY <1>1, <2>1, HandlesInTurn
<1>8. CASE handler = "rc5" /\ (Rc5!WakePattern \/ Rc5!SendNextCommand)
  <2>1. pc \in Resting
    BY <1>8 DEF Rc5!WakePattern, Rc5!SendNextCommand, Resting
  <2> QED
    BY <1>2, <2>1
<1> QED
  BY <1>2, <1>3, <1>4, <1>5, <1>6, <1>7, <1>8 DEF Transmits

\* "A half-duplex bus": on a wire that has lost nothing, no session of any of
\* the handlers transmits while an earlier request or its reply is under way.
THEOREM RequestsTakeTurns == Spec => OneRequestAtATime
<1>1. Factory => TurnInv
  <2> SUFFICES ASSUME NEW type, Init(type) PROVE TurnInv
    BY DEF Factory
  <2>1. HonestInv /\ lost = 0
    BY InitIsHonest DEF Init
  <2>2. Turns
    BY DEF Init, Turns, Reading
  <2> QED
    BY <2>1, <2>2 DEF TurnInv
<1>2. TurnInv /\ [Next]_vars =>
        (Transmits /\ lost = 0 =>
           /\ inbox = <<>> /\ \A i \in DOMAIN line : line[i] = Zero
           /\ IF pc = "handle" THEN Len(buffer) = 2 ELSE buffer = <<>>)
  <2> SUFFICES ASSUME TurnInv, [Next]_vars, Transmits, lost = 0
               PROVE  /\ inbox = <<>> /\ \A i \in DOMAIN line : line[i] = Zero
                      /\ IF pc = "handle" THEN Len(buffer) = 2 ELSE buffer = <<>>
    OBVIOUS
  <2>1. /\ inbox = <<>> /\ line = <<>>
        /\ IF pc = "handle" THEN Len(buffer) = 2 ELSE buffer = <<>>
    BY SendsInTurn
  <2>2. DOMAIN line = {}
    BY <2>1
  <2> QED
    BY <2>1, <2>2
<1>3. [][Next]_vars /\ []TurnInv => OneRequestAtATime
  <2>1. [Next]_vars /\ TurnInv =>
          [Transmits /\ lost = 0 =>
             /\ inbox = <<>> /\ \A i \in DOMAIN line : line[i] = Zero
             /\ IF pc = "handle" THEN Len(buffer) = 2 ELSE buffer = <<>>]_vars
    BY <1>2
  <2> QED
    BY <2>1, PTL DEF OneRequestAtATime
<1> QED
  BY <1>1, <1>3, TurnStep, PTL DEF Spec
=============================================================================
