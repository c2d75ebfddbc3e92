----------------------------- MODULE KwpFrames -----------------------------
(***************************************************************************)
(* The replies of MEMS 2J and MEMS 3 that carry values, and the bytes of   *)
(* the payload that are read for them.  The frame's own length byte says   *)
(* how long a payload is, and nothing relates it to the reply's header: an *)
(* offset that is not there is a runtime panic, which ends the agent.      *)
(***************************************************************************)
EXTENDS Integers

CONSTANT MaxLength  \* bound: the longest payload considered (255)

\* A reply of this header is decoded if it has so many bytes.
Row(handler, header, atLeast, reads) ==
  [handler |-> handler, header |-> header, atLeast |-> atLeast, reads |-> reads]

\* Takes the second 16-bit field for granted.
Rows2JUnguarded ==
  {Row("2J", header, 4, 2 .. 3) :
     header \in {"67 01", "61 01", "61 02", "61 03", "61 05", "61 07", "61 08",
                 "61 09", "61 0B", "61 12", "61 21", "61 25"}}
  \cup {Row("2J", header, 4, 2 .. 5) : header \in {"61 0A", "61 0C", "61 3A"}}
  \cup {Row("2J", "61 10", 6, 4 .. 5)}
  \cup {Row("2J", header, 3, {2}) : header \in {"61 0D", "61 0F", "61 11", "61 13"}}

Rows2J ==
  {Row("2J", header, 4, 2 .. 3) :
     header \in {"67 01", "61 01", "61 02", "61 03", "61 05", "61 07", "61 08",
                 "61 09", "61 0B", "61 12", "61 21", "61 25"}}
  \cup {Row("2J", header, 6, 2 .. 5) : header \in {"61 0A", "61 0C", "61 3A"}}
  \cup {Row("2J", "61 10", 6, 4 .. 5)}
  \cup {Row("2J", header, 3, {2}) : header \in {"61 0D", "61 0F", "61 11", "61 13"}}

Rows3 ==
  {Row("3", header, 4, 2 .. 3) : header \in {"67 01", "61 21"}}
  \cup {Row("3", header, 6, 2 .. 5) : header \in {"61 0A", "61 0B"}}
  \cup {Row("3", "61 00", 12, {2, 3, 6, 7, 10, 11}),
        Row("3", "61 06", 12, {2, 3, 8, 9, 10, 11})}

VARIABLES
  reply,    \* the row of the reply received
  length,   \* the bytes of its payload
  decoded   \* "no" yet, "yes", "skipped" or "panic"

kwpVars == <<reply, length, decoded>>

KwpInit == reply \in Rows2J \cup Rows3 /\ length \in 2 .. MaxLength /\ decoded = "no"

\* What is too short is not taken for this reply.
ParseReply ==
  /\ decoded = "no"
  /\ decoded' = CASE length < reply.atLeast -> "skipped"
                  [] length >= reply.atLeast /\ (\A offset \in reply.reads : offset < length) -> "yes"
                  [] OTHER -> "panic"
  /\ UNCHANGED <<reply, length>>

\* "A truncated data PID is rejected rather than" read past its end: whatever
\* length from two bytes on an ECU announces for a reply that carries values, it
\* does not take the agent down.  (The fault reply is none of them: 58 alone,
\* a payload of one byte, is cut at two and panics, mems3.go:424.)
NoReplyPanics == decoded # "panic"
=============================================================================
