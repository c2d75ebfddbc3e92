---------------------------- MODULE MEMS1xFrames ----------------------------
(***************************************************************************)
(* The two live data frames of MEMS 1.x and the bytes their decoders read. *)
(* The loop hands parseData80 or parseData7D its buffer once as many bytes *)
(* as the size byte announces have followed the command byte; the decoders *)
(* drop the command byte, refuse a frame below 15 bytes, and read fixed    *)
(* offsets, the later ones only if the size byte says so.  An offset that  *)
(* is not there is a runtime panic, which ends the agent.                  *)
(***************************************************************************)
EXTENDS Integers, FiniteSets

CONSTANTS
  Kinds,     \* the data frames the ECU is asked for: "80", "7D"
  MaxSize,   \* largest size byte (255)
  MaxExtra   \* bound: bytes the last read may bring beyond the frame

ASSUME FramesAssumption ==
  /\ Kinds \subseteq {"80", "7D"}
  /\ MaxSize \in Nat /\ MaxExtra \in Nat

Base == 15  \* shortest frame decoded, the command byte not counted

\* Rows of an optional field: the offsets read if the size byte is at least
\* the threshold.
Optional80 ==
  {<<16, {15}>>, <<17, {16}>>, <<19, {18}>>, <<21, {19, 20}>>, <<22, {21}>>,
   <<23, {22}>>, <<25, {23, 24}>>}

Optional7D == {<<16, {15}>>, <<21, {20}>>, <<22, {22}>>, <<31, {31}>>}

Base80 == (1 .. 10) \cup {12, 13, 14}
Base7D == {1, 2} \cup (4 .. 14)

Reads80(size) ==
  Base80 \cup UNION {row[2] : row \in {r \in Optional80 : size >= r[1]}}

Reads7D(size) ==
  Base7D \cup UNION {row[2] : row \in {r \in Optional7D : size >= r[1]}}

Reads(kind, size) == IF kind = "80" THEN Reads80(size) ELSE Reads7D(size)

VARIABLES
  kind,     \* which frame is being received
  size,     \* its size byte
  got,      \* bytes in the buffer, the command byte included
  outcome   \* "receiving", "decoded", "short" or "panic"

frameVars == <<kind, size, got, outcome>>

FrameInit ==
  /\ kind \in Kinds /\ size \in 0 .. MaxSize
  /\ got = 2 /\ outcome = "receiving"

\* len(buffer) >= packetSize + 1
Complete == got >= size + 1

\* A read brings n more bytes, at most MaxExtra of them beyond the frame.
Receive(n) ==
  /\ outcome = "receiving" /\ ~Complete
  /\ got + n <= size + 1 + MaxExtra
  /\ got' = got + n
  /\ UNCHANGED <<kind, size, outcome>>

\* Decodes a frame of any length.
ParseUnchecked ==
  /\ outcome = "receiving" /\ Complete
  /\ outcome' = IF \A offset \in Reads(kind, size) : offset < got - 1
                THEN "decoded" ELSE "panic"
  /\ UNCHANGED <<kind, size, got>>

\* data = data[1:]; a short frame is skipped, any other is decoded in full.
Parse ==
  /\ outcome = "receiving" /\ Complete
  /\ outcome' = IF got - 1 < Base THEN "short"
                ELSE IF \A offset \in Reads(kind, size) : offset < got - 1
                THEN "decoded" ELSE "panic"
  /\ UNCHANGED <<kind, size, got>>

FrameNext == \/ \E n \in 1 .. MaxSize + MaxExtra : Receive(n)
        \/ Parse

FrameSpec == FrameInit /\ [][FrameNext]_frameVars

(***************************************************************************)
(* Properties                                                              *)
(***************************************************************************)

\* No data frame, short or with any size byte, takes the agent down: "a
\* short/corrupt frame [was an] index-out-of-range panic in the ECU goroutine".
NoFramePanics == outcome # "panic"

\* A decoded frame was read within what its size byte announces (or the
\* fifteen bytes every frame must have): no field is made of a byte that
\* belongs to something else.
ReadsWithinFrame ==
  outcome = "decoded" =>
    \A offset \in Reads(kind, size) : offset < size \/ offset < Base
=============================================================================
