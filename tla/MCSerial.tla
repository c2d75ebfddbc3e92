------------------------------ MODULE MCSerial ------------------------------
(***************************************************************************)
(* What lies around the framed and the 1.x sessions for TLC, in one run:   *)
(* the reader between a port and its session, the decoders of the 0x80     *)
(* frame of MEMS 1.x and of the value replies of MEMS 2J and 3, and        *)
(* GenerateKey.  They share no state; in a behaviour one of them moves and *)
(* the others stay as they start.                                          *)
(***************************************************************************)
EXTENDS SerialReader, MEMS1xFrames, KwpFrames, SecurityKey

VARIABLE part  \* the one that moves

MCReply == CHOOSE row \in Rows3 : TRUE

MCInit ==
  /\ part \in {"reader", "1.x", "kwp", "key"}
  /\ Init
  /\ FrameInit /\ (part = "1.x" \/ size = 0)
  /\ KwpInit /\ (part = "kwp" \/ (reply = MCReply /\ length = 2))
  /\ \E value \in IF part = "key" THEN Seeds ELSE {0} : KeyStart(value)

MCNext ==
  \/ part = "reader" /\ Next /\ UNCHANGED <<part, frameVars, kwpVars, keyVars>>
  \/ part = "1.x" /\ FrameNext /\ UNCHANGED <<part, vars, kwpVars, keyVars>>
  \/ part = "kwp" /\ ParseReply /\ UNCHANGED <<part, vars, frameVars, keyVars>>
  \/ part = "key" /\ Mix /\ UNCHANGED <<part, vars, frameVars, kwpVars>>

\* The fairness of SerialReader, when it is the part that moves.
MCFairSpec ==
  /\ MCInit /\ [][MCNext]_<<part, vars, frameVars, kwpVars, keyVars>>
  /\ \A n \in Cycles : WF_vars(part = "reader" /\ Goroutine(n))
  /\ \A c \in Callers : WF_vars(part = "reader" /\ (StopEnters(c) \/ StopCloses(c)))
=============================================================================
