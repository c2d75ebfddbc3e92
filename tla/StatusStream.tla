---------------------------- MODULE StatusStream ----------------------------
(***************************************************************************)
(* What the dashboards see of ecu.State over /ws: the ring of debug lines  *)
(* with a cursor per connection, and the alert with its sequence number.   *)
(* A dashboard polls, renders the answer, and reconnects when its          *)
(* WebSocket closes; the agent may be restarted under it.  The error       *)
(* banner works like the alert's.                                          *)
(*                                                                         *)
(* The n-th line (alert) of the k-th agent process is <<k, n>>.            *)
(***************************************************************************)
EXTENDS Integers, Sequences, FiniteSets

CONSTANTS
  Browsers,       \* open dashboards
  MaxLogLines,    \* lines the ring retains (100 in the code)
  MaxLines,       \* bound: lines a process logs
  MaxAlerts,      \* bound: alerts a process raises
  MaxRestarts,    \* bound: restarts of the agent
  MaxDisconnects  \* bound: connections each dashboard loses, restarts apart

ASSUME BoundsAssumption ==
  /\ MaxLogLines \in Nat \ {0}
  /\ MaxLines \in Nat /\ MaxAlerts \in Nat
  /\ MaxRestarts \in Nat /\ MaxDisconnects \in Nat

VARIABLES
  run,         \* which agent process this is
  logLines,    \* State.LogLines
  logSeq,      \* State.logSeq
  alertSeq,    \* State.alertSeq; the alert itself is <<run, alertSeq>>
  open,        \* open[b]: dashboard b has a WebSocket
  logCursor,   \* logCursor[b]: wsHandler's cursor for that connection
  sent,        \* sent[b]: the lines written to that connection
  reply,       \* reply[b]: answers written and not yet rendered
  lastAlertSeq,\* lastAlertSeq[b]: the dashboard's memory of alertSeq
  shownAlert,  \* shownAlert[b]: the alert its banner showed last
  disconnects  \* disconnects[b]: connections lost

server == <<run, logLines, logSeq, alertSeq>>
connection == <<open, logCursor, sent, reply>>
page == <<lastAlertSeq, shownAlert>>
vars == <<server, connection, page, disconnects>>

NoAlert == <<0, 0>>
Alert == IF alertSeq = 0 THEN NoAlert ELSE <<run, alertSeq>>

Init ==
  /\ run = 1 /\ logLines = <<>> /\ logSeq = 0 /\ alertSeq = 0
  /\ open = [b \in Browsers |-> FALSE]
  /\ logCursor = [b \in Browsers |-> 0]
  /\ sent = [b \in Browsers |-> <<>>]
  /\ reply = [b \in Browsers |-> <<>>]
  /\ lastAlertSeq = [b \in Browsers |-> 0]
  /\ shownAlert = [b \in Browsers |-> NoAlert]
  /\ disconnects = [b \in Browsers |-> 0]

(***************************************************************************)
(* The agent                                                               *)
(***************************************************************************)

\* The last n elements of a sequence at least that long.
LastOf(n, s) == SubSeq(s, Len(s) - n + 1, Len(s))

\* Keeps one line too few once the ring is full.
AppendLogTrimmingTwo ==
  /\ logSeq < MaxLines
  /\ logSeq' = logSeq + 1
  /\ logLines' =
       LET all == Append(logLines, <<run, logSeq + 1>>) IN
       IF Len(all) > MaxLogLines THEN LastOf(MaxLogLines - 1, all) ELSE all
  /\ UNCHANGED <<run, alertSeq, connection, page, disconnects>>

\* appendLog pushes the line and trims the ring to its newest lines.
AppendLog ==
  /\ logSeq < MaxLines
  /\ logSeq' = logSeq + 1
  /\ logLines' =
       LET all == Append(logLines, <<run, logSeq + 1>>) IN
       IF Len(all) > MaxLogLines THEN LastOf(MaxLogLines, all) ELSE all
  /\ UNCHANGED <<run, alertSeq, connection, page, disconnects>>

\* SetAlert: the sequence number tells it from a repeat of the same text.
SetAlert ==
  /\ alertSeq < MaxAlerts
  /\ alertSeq' = alertSeq + 1
  /\ UNCHANGED <<run, logLines, logSeq, connection, page, disconnects>>

\* Slices one line too early.
LogLinesSinceInclusive(c) ==
  LET oldest == logSeq - Len(logLines)
      from == IF c < oldest THEN oldest ELSE IF c > logSeq THEN logSeq ELSE c
  IN  IF from = logSeq THEN <<>>
      ELSE LastOf(IF from > oldest THEN logSeq - from + 1 ELSE logSeq - from, logLines)

\* Slices one line too late.
LogLinesSinceExclusive(c) ==
  LET oldest == logSeq - Len(logLines)
      from == IF c < oldest THEN oldest ELSE IF c > logSeq THEN logSeq ELSE c
  IN  IF from = logSeq THEN <<>> ELSE LastOf(logSeq - from - 1, logLines)

\* The retained lines after cursor c, which is clamped into the ring.
LogLinesSince(c) ==
  LET oldest == logSeq - Len(logLines)
      from == IF c < oldest THEN oldest ELSE IF c > logSeq THEN logSeq ELSE c
  IN  IF from = logSeq THEN <<>> ELSE LastOf(logSeq - from, logLines)

\* wsIteration: one poll is answered with a snapshot and the new lines, and
\* the connection's cursor moves to the end of the log.
WsIteration(b) ==
  /\ open[b] /\ reply[b] = <<>>
  /\ LET lines == LogLinesSince(logCursor[b]) IN
       /\ reply' = [reply EXCEPT ![b] =
                      <<[alert |-> Alert, alertSeq |-> alertSeq]>>]
       /\ sent' = [sent EXCEPT ![b] = @ \o lines]
  /\ logCursor' = [logCursor EXCEPT ![b] = logSeq]
  /\ UNCHANGED <<server, open, page, disconnects>>

Closed(bs) ==
  /\ open' = [b \in Browsers |-> b \notin bs /\ open[b]]
  /\ reply' = [b \in Browsers |-> IF b \in bs THEN <<>> ELSE reply[b]]
  /\ UNCHANGED <<logCursor, sent, page>>

\* A read or write deadline passes or the network fails; an answer on its way
\* is lost.
Disconnect(b) ==
  /\ open[b] /\ disconnects[b] < MaxDisconnects
  /\ Closed({b})
  /\ disconnects' = [disconnects EXCEPT ![b] = @ + 1]
  /\ UNCHANGED server

\* The process ends and a new one starts with a fresh State.
Restart ==
  /\ run <= MaxRestarts
  /\ run' = run + 1
  /\ logLines' = <<>> /\ logSeq' = 0 /\ alertSeq' = 0
  /\ Closed(Browsers)
  /\ UNCHANGED disconnects

(***************************************************************************)
(* The dashboard                                                           *)
(***************************************************************************)

\* Goes on from where the last connection was.
ConnectKeepingCursor(b) ==
  /\ ~open[b]
  /\ open' = [open EXCEPT ![b] = TRUE]
  /\ sent' = [sent EXCEPT ![b] = <<>>]
  /\ UNCHANGED <<server, logCursor, reply, page, disconnects>>

\* connect(): the page is not reloaded, the server's cursor starts over.
Connect(b) ==
  /\ ~open[b]
  /\ open' = [open EXCEPT ![b] = TRUE]
  /\ logCursor' = [logCursor EXCEPT ![b] = 0]
  /\ sent' = [sent EXCEPT ![b] = <<>>]
  /\ UNCHANGED <<server, reply, page, disconnects>>

\* Shows only the first alert.
RenderOnce(b) ==
  /\ reply[b] # <<>>
  /\ LET d == Head(reply[b]) IN
       IF d.alert # NoAlert /\ lastAlertSeq[b] = 0
       THEN /\ lastAlertSeq' = [lastAlertSeq EXCEPT ![b] = d.alertSeq]
            /\ shownAlert' = [shownAlert EXCEPT ![b] = d.alert]
       ELSE UNCHANGED page
  /\ reply' = [reply EXCEPT ![b] = <<>>]
  /\ UNCHANGED <<server, open, logCursor, sent, disconnects>>

\* render(): a new sequence number raises the banner.  The page also appends
\* the lines of the answer to its log, which are the ones in sent.
Render(b) ==
  /\ reply[b] # <<>>
  /\ LET d == Head(reply[b]) IN
       IF d.alert # NoAlert /\ d.alertSeq # lastAlertSeq[b]
       THEN /\ lastAlertSeq' = [lastAlertSeq EXCEPT ![b] = d.alertSeq]
            /\ shownAlert' = [shownAlert EXCEPT ![b] = d.alert]
       ELSE UNCHANGED page
  /\ reply' = [reply EXCEPT ![b] = <<>>]
  /\ UNCHANGED <<server, open, logCursor, sent, disconnects>>

(***************************************************************************)
(* Specification                                                           *)
(***************************************************************************)

Next ==
  \/ AppendLog \/ SetAlert \/ Restart
  \/ \E b \in Browsers : Connect(b) \/ Disconnect(b) \/ WsIteration(b) \/ Render(b)

Spec == Init /\ [][Next]_vars

\* An open page keeps reconnecting and polling by its timers.
FairSpec ==
  /\ Spec
  /\ \A b \in Browsers :
       WF_vars(Connect(b)) /\ WF_vars(WsIteration(b)) /\ WF_vars(Render(b))

(***************************************************************************)
(* Properties                                                              *)
(***************************************************************************)

\* The values the variables range over; a connection's cursor never points
\* past the log.
TypeOK ==
  /\ run \in 1 .. MaxRestarts + 1
  /\ logSeq \in 0 .. MaxLines /\ alertSeq \in 0 .. MaxAlerts
  /\ logLines \in Seq(Nat \X Nat)
  /\ open \in [Browsers -> BOOLEAN]
  /\ logCursor \in [Browsers -> 0 .. MaxLines]
  /\ sent \in [Browsers -> Seq(Nat \X Nat)]
  /\ \A b \in Browsers : open[b] => logCursor[b] <= logSeq

\* The ring holds the newest lines of this process, in order and none missing,
\* and is full as soon as enough were logged.
RingHoldsTheLatest ==
  /\ Len(logLines) = IF logSeq < MaxLogLines THEN logSeq ELSE MaxLogLines
  /\ \A i \in 1 .. Len(logLines) :
       logLines[i] = <<run, logSeq - Len(logLines) + i>>

\* On one connection no line is sent twice or out of order, however polling,
\* logging and the sliding ring interleave.
NoLineSentTwice ==
  \A b \in Browsers : open[b] =>
    \A i, j \in 1 .. Len(sent[b]) : i < j => sent[b][i][2] < sent[b][j][2]

\* A poll leaves a gap only if more lines than the ring holds were logged
\* since the previous poll of the connection.
GapsOnlyOnOverrun ==
  [][\A b \in Browsers :
       open[b] /\ open'[b] /\ sent'[b] # sent[b] /\ logSeq - logCursor[b] <= MaxLogLines
         => Len(sent'[b]) - Len(sent[b]) = logSeq - logCursor[b]]_vars

\* The last alert of a process reaches every dashboard, through any
\* disconnections and lost answers, and two dashboards polling at once do not
\* take it from each other.  After a restart a dashboard may take the new
\* process's alert for the old one's, which had the same number.
LastAlertReachesEveryone ==
  \A b \in Browsers : <>[](run > 1 \/ shownAlert[b] = Alert)
=============================================================================
