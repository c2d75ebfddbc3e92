------------------------ MODULE StatusStream_proofs ------------------------
(***************************************************************************)
(* Proofs about StatusStream, for every size of the ring and any number of *)
(* dashboards: the ring always holds the newest lines, and no connection   *)
(* is sent a line twice or out of order.                                   *)
(***************************************************************************)
EXTENDS StatusStream, TLAPS

\* The last n elements of a sequence, one by one.
LEMMA LastOfElements ==
  ASSUME NEW S, NEW s \in Seq(S), NEW n \in 0 .. Len(s)
  PROVE  /\ LastOf(n, s) \in Seq(S)
         /\ Len(LastOf(n, s)) = n
         /\ \A i \in 1 .. n : LastOf(n, s)[i] = s[Len(s) - n + i]
  BY DEF LastOf

\* What LogLinesSince returns: the newest lines, none of them at or before the
\* cursor.
LEMMA LinesAfterCursor ==
  ASSUME TypeOK, RingHoldsTheLatest, NEW c \in 0 .. logSeq
  PROVE  LET lines == LogLinesSince(c) IN
         /\ lines \in Seq(Nat \X Nat)
         /\ Len(lines) <= logSeq - c
         /\ \A i \in 1 .. Len(lines) : lines[i][2] = logSeq - Len(lines) + i
  <1> DEFINE oldest == logSeq - Len(logLines)
             from == IF c < oldest THEN oldest ELSE IF c > logSeq THEN logSeq ELSE c
  <1>1. logLines \in Seq(Nat \X Nat) /\ Len(logLines) \in Nat /\ logSeq \in Nat
    BY BoundsAssumption DEF TypeOK
  <1>2. oldest \in 0 .. logSeq
    BY <1>1, BoundsAssumption DEF RingHoldsTheLatest
  <1>3. from \in oldest .. logSeq /\ c <= from
    BY <1>1, <1>2
  <1>4. logSeq - from \in 0 .. Len(logLines)
    BY <1>1, <1>2, <1>3
  <1>5. CASE from = logSeq
    <2>1. LogLinesSince(c) = <<>>
      BY <1>5 DEF LogLinesSince
    <2> QED BY <2>1, <1>1
  <1>6. CASE from # logSeq
    <2>1. LogLinesSince(c) = LastOf(logSeq - from, logLines)
      BY <1>6 DEF LogLinesSince
    <2> DEFINE k == logSeq - from
    <2>2. /\ LastOf(k, logLines) \in Seq(Nat \X Nat)
          /\ Len(LastOf(k, logLines)) = k
          /\ \A i \in 1 .. k : LastOf(k, logLines)[i] = logLines[Len(logLines) - k + i]
      BY <1>1, <1>4, LastOfElements
    <2>3. ASSUME NEW i \in 1 .. k
          PROVE  LastOf(k, logLines)[i][2] = logSeq - k + i
      <3>1. Len(logLines) - k + i \in 1 .. Len(logLines)
        BY <1>1, <1>4
      <3>2. logLines[Len(logLines) - k + i] = <<run, logSeq - Len(logLines) + (Len(logLines) - k + i)>>
        BY <3>1 DEF RingHoldsTheLatest
      <3>3. logSeq - Len(logLines) + (Len(logLines) - k + i) = logSeq - k + i
        BY <1>1, <1>4
      <3> QED BY <2>2, <3>2, <3>3
    <2>4. k <= logSeq - c
      BY <1>1, <1>2, <1>3
    <2> HIDE DEF k
    <2> QED BY <2>1, <2>2, <2>3, <2>4 DEF k
  <1> QED BY <1>5, <1>6

\* The inductive invariant: what a connection was sent is in order and not
\* beyond its cursor, and what it will be sent lies after it.
Inv ==
  /\ TypeOK
  /\ RingHoldsTheLatest
  /\ NoLineSentTwice
  /\ \A b \in Browsers : open[b] =>
       \A i \in 1 .. Len(sent[b]) : sent[b][i][2] <= logCursor[b]

\* The invariant holds initially.
LEMMA InvInit == Init => Inv
  BY BoundsAssumption DEF Init, Inv, TypeOK, RingHoldsTheLatest, NoLineSentTwice

\* Logging keeps the ring full of the newest lines.
LEMMA AppendLogKeepsRing ==
  ASSUME TypeOK, RingHoldsTheLatest, AppendLog
  PROVE  RingHoldsTheLatest' /\ logLines' \in Seq(Nat \X Nat)
  <1> DEFINE all == Append(logLines, <<run, logSeq + 1>>)
  <1>1. /\ logLines \in Seq(Nat \X Nat) /\ Len(logLines) \in Nat
        /\ logSeq \in Nat /\ run \in Nat
    BY BoundsAssumption DEF TypeOK
  <1>2. <<run, logSeq + 1>> \in Nat \X Nat
    BY <1>1
  <1>3. all \in Seq(Nat \X Nat) /\ Len(all) = Len(logLines) + 1
    BY <1>1, <1>2
  <1>4. \A i \in 1 .. Len(all) : all[i] = <<run, logSeq + 1 - Len(all) + i>>
    <2> TAKE i \in 1 .. Len(all)
    <2>1. CASE i = Len(all)
      BY <2>1, <1>1, <1>3
    <2>2. CASE i # Len(all)
      <3>1. i \in 1 .. Len(logLines) /\ all[i] = logLines[i]
        BY <2>2, <1>1, <1>3
      <3>2. logSeq + 1 - Len(all) + i = logSeq - Len(logLines) + i
        BY <1>1, <1>3
      <3> QED BY <3>1, <3>2 DEF RingHoldsTheLatest
    <2> QED BY <2>1, <2>2
  <1>5. logSeq' = logSeq + 1 /\ run' = run
    BY DEF AppendLog
  <1>6. CASE Len(all) > MaxLogLines
    <2>1. logLines' = LastOf(MaxLogLines, all)
      BY <1>6 DEF AppendLog
    <2>2. Len(logLines) = MaxLogLines /\ logSeq >= MaxLogLines
      BY <1>1, <1>3, <1>6, BoundsAssumption DEF RingHoldsTheLatest
    <2>3. MaxLogLines \in 0 .. Len(all)
      BY <1>3, <1>6, BoundsAssumption
    <2>4. /\ logLines' \in Seq(Nat \X Nat) /\ Len(logLines') = MaxLogLines
          /\ \A i \in 1 .. MaxLogLines : logLines'[i] = all[Len(all) - MaxLogLines + i]
      BY <1>3, <2>1, <2>3, LastOfElements
    <2>5. ASSUME NEW i \in 1 .. MaxLogLines
          PROVE  logLines'[i] = <<run, logSeq + 1 - MaxLogLines + i>>
      <3>1. Len(all) - MaxLogLines + i \in 1 .. Len(all)
        BY <2>3, <1>3, BoundsAssumption
      <3>2. logSeq + 1 - Len(all) + (Len(all) - MaxLogLines + i) = logSeq + 1 - MaxLogLines + i
        BY <1>1, <1>3, BoundsAssumption
      <3> QED BY <2>4, <3>1, <3>2, <1>4
    <2>6. Len(logLines') = IF logSeq' < MaxLogLines THEN logSeq' ELSE MaxLogLines
      BY <2>2, <2>4, <1>1, <1>5, BoundsAssumption
    <2>7. \A i \in 1 .. Len(logLines') :
            logLines'[i] = <<run', logSeq' - Len(logLines') + i>>
      <3> TAKE i \in 1 .. Len(logLines')
      <3>1. logSeq' - Len(logLines') = logSeq + 1 - MaxLogLines
        BY <2>4, <1>1, <1>5, BoundsAssumption
      <3>2. logLines'[i] = <<run, logSeq + 1 - MaxLogLines + i>>
        BY <2>4, <2>5
      <3> QED BY <3>1, <3>2, <1>5
    <2> QED BY <2>4, <2>6, <2>7 DEF RingHoldsTheLatest
  <1>7. CASE ~(Len(all) > MaxLogLines)
    <2>1. logLines' = all
      BY <1>7 DEF AppendLog
    <2>2. Len(all) = IF logSeq + 1 < MaxLogLines THEN logSeq + 1 ELSE MaxLogLines
      BY <1>1, <1>3, <1>7, BoundsAssumption DEF RingHoldsTheLatest
    <2> HIDE DEF all
    <2>3. \A i \in 1 .. Len(logLines') :
            logLines'[i] = <<run', logSeq' - Len(logLines') + i>>
      <3> TAKE i \in 1 .. Len(logLines')
      <3>1. i \in 1 .. Len(all) /\ logLines'[i] = all[i]
        BY <2>1
      <3>2. logSeq' - Len(logLines') = logSeq + 1 - Len(all)
        <4>1. Len(logLines') = Len(all)
          BY <2>1
        <4>2. logSeq' = logSeq + 1
          BY <1>5
        <4> QED BY <4>1, <4>2, <1>1, <1>3
      <3>3. all[i] = <<run, logSeq + 1 - Len(all) + i>>
        BY <3>1, <1>4
      <3> QED BY <3>1, <3>2, <3>3, <1>5
    <2>4. Len(logLines') = IF logSeq' < MaxLogLines THEN logSeq' ELSE MaxLogLines
      BY <2>1, <2>2, <1>5
    <2> QED BY <2>1, <2>3, <2>4, <1>3 DEF RingHoldsTheLatest
  <1> QED BY <1>6, <1>7

\* Where an element of a concatenation comes from.
LEMMA ConcatElement ==
  ASSUME NEW S, NEW s \in Seq(S), NEW t \in Seq(S), NEW i \in 1 .. Len(s \o t)
  PROVE  \/ i \in 1 .. Len(s) /\ (s \o t)[i] = s[i]
         \/ /\ i - Len(s) \in 1 .. Len(t)
            /\ (s \o t)[i] = t[i - Len(s)]
  OBVIOUS

\* Lines numbered in order up to c stay in order when the lines numbered
\* hi - Len(t) + 1 .. hi, all above c, are appended.
LEMMA ConcatOrdered ==
  ASSUME NEW s \in Seq(Nat \X Nat), NEW t \in Seq(Nat \X Nat),
         NEW c \in Nat, NEW hi \in Nat,
         Len(t) <= hi - c,
         \A i \in 1 .. Len(t) : t[i][2] = hi - Len(t) + i,
         \A i \in 1 .. Len(s) : s[i][2] <= c,
         \A i, j \in 1 .. Len(s) : i < j => s[i][2] < s[j][2]
  PROVE  /\ \A i \in 1 .. Len(s \o t) : (s \o t)[i][2] <= hi
         /\ \A i, j \in 1 .. Len(s \o t) : i < j => (s \o t)[i][2] < (s \o t)[j][2]
  <1> DEFINE u == s \o t
  <1>1. u \in Seq(Nat \X Nat) /\ Len(u) = Len(s) + Len(t) /\ Len(s) \in Nat /\ Len(t) \in Nat
    OBVIOUS
  <1>2. \A i \in 1 .. Len(u) :
          \/ i \in 1 .. Len(s) /\ u[i] = s[i]
          \/ i - Len(s) \in 1 .. Len(t) /\ u[i] = t[i - Len(s)]
    BY ConcatElement
  <1>3. \A i \in 1 .. Len(s) : s[i][2] \in Nat
    OBVIOUS
  <1>4. \A i \in 1 .. Len(s) : s[i][2] <= hi - Len(t)
    BY <1>1, <1>3
  <1> HIDE DEF u
  <1>5. \A i \in 1 .. Len(u) : u[i][2] <= hi
    <2> TAKE i \in 1 .. Len(u)
    <2>1. CASE i \in 1 .. Len(s) /\ u[i] = s[i]
      <3>1. s[i][2] \in Nat /\ s[i][2] <= hi - Len(t) /\ u[i][2] = s[i][2]
        BY <2>1, <1>3, <1>4
      <3>2. \A v \in Nat : v <= hi - Len(t) => v <= hi
        BY <1>1
      <3> QED BY <3>1, <3>2, Zenon
    <2>2. CASE i - Len(s) \in 1 .. Len(t) /\ u[i] = t[i - Len(s)]
      <3>1. u[i][2] = hi - Len(t) + (i - Len(s)) /\ i - Len(s) \in 1 .. Len(t)
        BY <2>2
      <3>3. hi - Len(t) + (i - Len(s)) \in Int /\ i - Len(s) <= Len(t) /\ i - Len(s) \in Int
        BY <3>1, <1>1
      <3>4. hi - Len(t) + (i - Len(s)) <= hi
        BY <3>3, <1>1
      <3> QED BY <3>1, <3>4, Zenon
    <2> QED BY <2>1, <2>2, <1>2
  <1>6. \A i, j \in 1 .. Len(u) : i < j => u[i][2] < u[j][2]
    <2> SUFFICES ASSUME NEW i \in 1 .. Len(u), NEW j \in 1 .. Len(u), i < j
                 PROVE  u[i][2] < u[j][2]
      OBVIOUS
    <2>1. CASE j \in 1 .. Len(s) /\ u[j] = s[j]
      <3>1. i \in 1 .. Len(s)
        BY <2>1, <1>1
      <3>2. u[i] = s[i]
        BY <3>1, <1>1, <1>2
      <3> QED BY <2>1, <3>1, <3>2
    <2>2. CASE j - Len(s) \in 1 .. Len(t) /\ u[j] = t[j - Len(s)]
      <3>1. u[j][2] = hi - Len(t) + (j - Len(s))
        BY <2>2
      <3>2. CASE i \in 1 .. Len(s) /\ u[i] = s[i]
        <4>1. u[i][2] \in Nat /\ u[i][2] <= hi - Len(t)
          BY <3>2, <1>3, <1>4
        <4>2. j - Len(s) \in 1 .. Len(t)
          BY <2>2
        <4>3. hi - Len(t) < hi - Len(t) + (j - Len(s)) /\ hi - Len(t) \in Int
          BY <4>2, <1>1
        <4>4. \A v \in Nat : v <= hi - Len(t) => v < hi - Len(t) + (j - Len(s))
          BY <4>2, <4>3, <1>1
        <4>5. u[i][2] < hi - Len(t) + (j - Len(s))
          BY <4>1, <4>4, Zenon
        <4> QED BY <3>1, <4>5, Zenon
      <3>3. CASE i - Len(s) \in 1 .. Len(t) /\ u[i] = t[i - Len(s)]
        <4>1. u[i][2] = hi - Len(t) + (i - Len(s))
          BY <3>3
        <4> QED BY <4>1, <3>1, <1>1
      <3> QED BY <3>2, <3>3, <1>2
    <2> QED BY <2>1, <2>2, <1>2
  <1> QED BY <1>5, <1>6 DEF u

\* A poll sends one connection lines that all lie after its cursor.
LEMMA WsIterationKeepsInv ==
  ASSUME Inv, NEW b \in Browsers, WsIteration(b)
  PROVE  Inv'
  <1> DEFINE lines == LogLinesSince(logCursor[b])
  <1>0. TypeOK /\ RingHoldsTheLatest /\ NoLineSentTwice
    BY DEF Inv
  <1>1. open[b] /\ logCursor[b] \in 0 .. logSeq /\ logSeq \in 0 .. MaxLines
        /\ logSeq \in Nat /\ logCursor[b] \in Nat /\ sent[b] \in Seq(Nat \X Nat)
    BY <1>0, BoundsAssumption DEF WsIteration, TypeOK
  <1>2. /\ lines \in Seq(Nat \X Nat) /\ Len(lines) <= logSeq - logCursor[b]
        /\ \A i \in 1 .. Len(lines) : lines[i][2] = logSeq - Len(lines) + i
    BY <1>0, <1>1, LinesAfterCursor
  <1>3. /\ sent' = [sent EXCEPT ![b] = @ \o lines]
        /\ logCursor' = [logCursor EXCEPT ![b] = logSeq]
        /\ UNCHANGED <<run, logLines, logSeq, alertSeq, open>>
    BY DEF WsIteration, server
  <1> HIDE DEF lines
  <1>4. sent'[b] = sent[b] \o lines
    BY <1>0, <1>3 DEF TypeOK
  <1>5. sent' \in [Browsers -> Seq(Nat \X Nat)]
    <2>1. sent[b] \o lines \in Seq(Nat \X Nat)
      BY <1>1, <1>2
    <2> QED BY <2>1, <1>0, <1>3 DEF TypeOK
  <1>6. TypeOK'
    BY <1>0, <1>1, <1>3, <1>5 DEF TypeOK
  <1>7. RingHoldsTheLatest'
    BY <1>0, <1>3 DEF RingHoldsTheLatest
  <1>8. /\ \A i \in 1 .. Len(sent[b]) : sent[b][i][2] <= logCursor[b]
        /\ \A i, j \in 1 .. Len(sent[b]) : i < j => sent[b][i][2] < sent[b][j][2]
    BY <1>0, <1>1 DEF Inv, NoLineSentTwice
  <1>9. /\ \A i \in 1 .. Len(sent[b] \o lines) : (sent[b] \o lines)[i][2] <= logSeq
        /\ \A i, j \in 1 .. Len(sent[b] \o lines) :
             i < j => (sent[b] \o lines)[i][2] < (sent[b] \o lines)[j][2]
    BY <1>1, <1>2, <1>8, ConcatOrdered
  <1>10. \A i \in 1 .. Len(sent'[b]) : sent'[b][i][2] <= logSeq
    BY <1>4, <1>9
  <1>11. \A i, j \in 1 .. Len(sent'[b]) : i < j => sent'[b][i][2] < sent'[b][j][2]
    BY <1>4, <1>9
  <1>12. ASSUME NEW a \in Browsers, a # b
         PROVE  sent'[a] = sent[a] /\ logCursor'[a] = logCursor[a]
    BY <1>3, <1>12 DEF Inv, TypeOK
  <1>13. logCursor'[b] = logSeq
    BY <1>3 DEF Inv, TypeOK
  <1>14. NoLineSentTwice'
    <2> SUFFICES ASSUME NEW a \in Browsers, open'[a],
                        NEW i \in 1 .. Len(sent'[a]), NEW j \in 1 .. Len(sent'[a]), i < j
                 PROVE  sent'[a][i][2] < sent'[a][j][2]
      BY DEF NoLineSentTwice
    <2>1. CASE a = b
      BY <2>1, <1>11
    <2>2. CASE a # b
      BY <2>2, <1>12, <1>3 DEF Inv, NoLineSentTwice
    <2> QED BY <2>1, <2>2
  <1>15. \A a \in Browsers : open'[a] =>
           \A i \in 1 .. Len(sent'[a]) : sent'[a][i][2] <= logCursor'[a]
    <2> SUFFICES ASSUME NEW a \in Browsers, open'[a], NEW i \in 1 .. Len(sent'[a])
                 PROVE  sent'[a][i][2] <= logCursor'[a]
      OBVIOUS
    <2>1. CASE a = b
      BY <2>1, <1>10, <1>13
    <2>2. CASE a # b
      BY <2>2, <1>12, <1>3 DEF Inv
    <2> QED BY <2>1, <2>2
  <1> QED BY <1>6, <1>7, <1>14, <1>15 DEF Inv

\* Every step keeps the invariant.
LEMMA InvStep == Inv /\ [Next]_vars => Inv'
  <1> SUFFICES ASSUME Inv, [Next]_vars PROVE Inv'
    OBVIOUS
  <1> USE DEF Inv, server, connection, page
  <1>1. CASE AppendLog
    <2>1. RingHoldsTheLatest' /\ logLines' \in Seq(Nat \X Nat)
      BY <1>1, AppendLogKeepsRing
    <2>2. logSeq \in 0 .. MaxLines /\ logSeq < MaxLines /\ logSeq' = logSeq + 1
      BY <1>1 DEF AppendLog, TypeOK
    <2>3. UNCHANGED <<run, alertSeq, open, logCursor, sent>>
      BY <1>1 DEF AppendLog
    <2>4. TypeOK'
      BY <2>1, <2>2, <2>3, BoundsAssumption DEF TypeOK
    <2>5. NoLineSentTwice'
      BY <2>3 DEF NoLineSentTwice
    <2> QED BY <2>1, <2>3, <2>4, <2>5
  <1>2. CASE SetAlert
    <2>1. UNCHANGED <<run, logLines, logSeq, open, logCursor, sent>>
      BY <1>2 DEF SetAlert
    <2>2. alertSeq' \in 0 .. MaxAlerts
      BY <1>2, BoundsAssumption DEF SetAlert, TypeOK
    <2> QED BY <2>1, <2>2 DEF TypeOK, RingHoldsTheLatest, NoLineSentTwice
  <1>3. CASE Restart
    <2>1. /\ run' = run + 1 /\ run <= MaxRestarts
          /\ logLines' = <<>> /\ logSeq' = 0 /\ alertSeq' = 0
          /\ open' = [b \in Browsers |-> b \notin Browsers /\ open[b]]
          /\ UNCHANGED <<logCursor, sent>>
      BY <1>3 DEF Restart, Closed
    <2>2. \A b \in Browsers : ~open'[b]
      BY <2>1
    <2>3. open' \in [Browsers -> BOOLEAN]
      BY <2>1
    <2>4. TypeOK'
      BY <2>1, <2>2, <2>3, BoundsAssumption DEF TypeOK
    <2>5. RingHoldsTheLatest'
      BY <2>1, BoundsAssumption DEF RingHoldsTheLatest
    <2> QED BY <2>2, <2>4, <2>5 DEF NoLineSentTwice
  <1>4. ASSUME NEW b \in Browsers, Connect(b) PROVE Inv'
    <2>1. /\ open' = [open EXCEPT ![b] = TRUE]
          /\ logCursor' = [logCursor EXCEPT ![b] = 0]
          /\ sent' = [sent EXCEPT ![b] = <<>>]
          /\ UNCHANGED <<run, logLines, logSeq, alertSeq>>
      BY <1>4 DEF Connect
    <2>2. sent'[b] = <<>> /\ logCursor'[b] = 0 /\ logSeq >= 0
      BY <2>1 DEF TypeOK
    <2>3. ASSUME NEW a \in Browsers, a # b
          PROVE  sent'[a] = sent[a] /\ logCursor'[a] = logCursor[a] /\ open'[a] = open[a]
      BY <2>1, <2>3 DEF TypeOK
    <2>4. TypeOK'
      BY <2>1, BoundsAssumption DEF TypeOK
    <2>5. RingHoldsTheLatest'
      BY <2>1 DEF RingHoldsTheLatest
    <2>6. NoLineSentTwice'
      BY <2>2, <2>3 DEF NoLineSentTwice
    <2>7. \A a \in Browsers : open'[a] =>
            \A i \in 1 .. Len(sent'[a]) : sent'[a][i][2] <= logCursor'[a]
      BY <2>2, <2>3
    <2> QED BY <2>4, <2>5, <2>6, <2>7
  <1>5. ASSUME NEW b \in Browsers, Disconnect(b) PROVE Inv'
    <2>1. /\ open' = [a \in Browsers |-> a \notin {b} /\ open[a]]
          /\ UNCHANGED <<run, logLines, logSeq, alertSeq, logCursor, sent>>
      BY <1>5 DEF Disconnect, Closed
    <2>2. \A a \in Browsers : open'[a] => open[a]
      BY <2>1
    <2>3. open' \in [Browsers -> BOOLEAN]
      BY <2>1, Zenon
    <2> QED BY <2>1, <2>2, <2>3 DEF TypeOK, RingHoldsTheLatest, NoLineSentTwice
  <1>6. ASSUME NEW b \in Browsers, WsIteration(b) PROVE Inv'
    BY <1>6, WsIterationKeepsInv
  <1>7. ASSUME NEW b \in Browsers, Render(b) PROVE Inv'
    <2>1. UNCHANGED <<run, logLines, logSeq, alertSeq, open, logCursor, sent>>
      BY <1>7 DEF Render
    <2> QED BY <2>1 DEF TypeOK, RingHoldsTheLatest, NoLineSentTwice
  <1>8. CASE UNCHANGED vars
    BY <1>8 DEF vars, TypeOK, RingHoldsTheLatest, NoLineSentTwice
  <1> QED BY <1>1, <1>2, <1>3, <1>4, <1>5, <1>6, <1>7, <1>8 DEF Next

\* The invariant holds in every reachable state.
LEMMA InvCorrect == Spec => []Inv
  BY InvInit, InvStep, PTL DEF Spec

\* The variables keep their types, and no cursor passes the end of the log.
THEOREM TypeCorrect == Spec => []TypeOK
  <1>1. Inv => TypeOK
    BY DEF Inv
  <1> QED BY <1>1, InvCorrect, PTL

\* The ring holds the newest lines of the running process, whatever its size.
THEOREM RingIsExact == Spec => []RingHoldsTheLatest
  <1>1. Inv => RingHoldsTheLatest
    BY DEF Inv
  <1> QED BY <1>1, InvCorrect, PTL

\* No connection is sent a line twice or out of order.
THEOREM LinesAreSentOnce == Spec => []NoLineSentTwice
  <1>1. Inv => NoLineSentTwice
    BY DEF Inv
  <1> QED BY <1>1, InvCorrect, PTL

\* While the cursor is inside the ring, LogLinesSince returns all the lines after
\* it.
LEMMA NoLineMissing ==
  ASSUME TypeOK, RingHoldsTheLatest, NEW c \in 0 .. logSeq, logSeq - c <= MaxLogLines
  PROVE  LogLinesSince(c) \in Seq(Nat \X Nat) /\ Len(LogLinesSince(c)) = logSeq - c
  <1>1. logLines \in Seq(Nat \X Nat) /\ Len(logLines) \in Nat /\ logSeq \in Nat
    BY BoundsAssumption DEF TypeOK
  <1>2. logSeq - Len(logLines) <= c
    BY <1>1, BoundsAssumption DEF RingHoldsTheLatest
  <1>3. CASE c = logSeq
    <2>1. LogLinesSince(c) = <<>>
      BY <1>1, <1>2, <1>3 DEF LogLinesSince
    <2> QED BY <1>1, <1>3, <2>1
  <1>4. CASE c # logSeq
    <2>1. LogLinesSince(c) = LastOf(logSeq - c, logLines)
      BY <1>1, <1>2, <1>4 DEF LogLinesSince
    <2>2. logSeq - c \in 0 .. Len(logLines)
      BY <1>1, <1>2
    <2>3. PICK k \in 0 .. Len(logLines) : k = logSeq - c
      BY <2>2
    <2>4. LastOf(k, logLines) \in Seq(Nat \X Nat) /\ Len(LastOf(k, logLines)) = k
      BY <1>1, LastOfElements
    <2> QED BY <2>1, <2>3, <2>4
  <1> QED BY <1>3, <1>4

\* A poll sends every line logged since the previous one, unless more were
\* logged than the ring holds.
THEOREM OnlyAnOverrunLeavesAGap == Spec => GapsOnlyOnOverrun
  <1> DEFINE gapless ==
        \A b \in Browsers :
          open[b] /\ open'[b] /\ sent'[b] # sent[b] /\ logSeq - logCursor[b] <= MaxLogLines
            => Len(sent'[b]) - Len(sent[b]) = logSeq - logCursor[b]
  <1>1. Inv /\ [Next]_vars => [gapless]_vars
    <2> SUFFICES ASSUME Inv, Next, NEW b \in Browsers,
                        open[b], open'[b], sent'[b] # sent[b],
                        logSeq - logCursor[b] <= MaxLogLines
                 PROVE  Len(sent'[b]) - Len(sent[b]) = logSeq - logCursor[b]
      OBVIOUS
    <2>1. /\ TypeOK /\ RingHoldsTheLatest /\ sent[b] \in Seq(Nat \X Nat)
          /\ logCursor[b] \in 0 .. logSeq /\ logSeq \in Nat
      BY BoundsAssumption DEF Inv, TypeOK
    <2>2. WsIteration(b)
      <3>1. CASE AppendLog \/ SetAlert \/ \E a \in Browsers : Render(a)
        BY <3>1 DEF AppendLog, SetAlert, Render, connection
      <3>2. CASE Restart
        BY <3>2 DEF Restart, Closed
      <3>3. ASSUME NEW a \in Browsers, Disconnect(a) PROVE FALSE
        BY <3>3 DEF Disconnect, Closed
      <3>4. ASSUME NEW a \in Browsers, Connect(a) PROVE FALSE
        <4>1. a # b /\ sent' = [sent EXCEPT ![a] = <<>>]
          BY <3>4 DEF Connect
        <4> QED BY <2>1, <4>1 DEF TypeOK
      <3>5. ASSUME NEW a \in Browsers, WsIteration(a), a # b PROVE FALSE
        <4>1. sent'[b] = sent[b]
          BY <2>1, <3>5 DEF WsIteration, TypeOK
        <4> QED BY <4>1
      <3> QED BY <3>1, <3>2, <3>3, <3>4, <3>5 DEF Next
    <2>3. PICK lines \in Seq(Nat \X Nat) :
            lines = LogLinesSince(logCursor[b]) /\ Len(lines) = logSeq - logCursor[b]
      BY <2>1, NoLineMissing
    <2>4. sent'[b] = sent[b] \o lines
      BY <2>1, <2>2, <2>3 DEF WsIteration, TypeOK
    <2>5. Len(sent[b] \o lines) = Len(sent[b]) + Len(lines) /\ Len(sent[b]) \in Nat
      BY <2>1
    <2> QED BY <2>1, <2>3, <2>4, <2>5
  <1> QED BY <1>1, InvCorrect, PTL DEF Spec, GapsOnlyOnOverrun
=============================================================================
