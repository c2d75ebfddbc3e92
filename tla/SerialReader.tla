---------------------------- MODULE SerialReader ----------------------------
(***************************************************************************)
(* serial.Reader: the goroutine that turns a blocking serial port into a   *)
(* buffered channel, and the Start/Stop protocol around it.  A session     *)
(* (MEMS2J) calls Start, polls Read, and calls Stop before it closes its   *)
(* port; other goroutines may call Stop at any time.                       *)
(*                                                                         *)
(* The n-th Start makes done channel n and goroutine n; done channel 0 is  *)
(* NewReader's.  The n-th port's bytes are <<n, 1>>, <<n, 2>>, ...         *)
(***************************************************************************)
EXTENDS Integers, Sequences

CONSTANTS
  MaxCycles,  \* bound: Start/Stop cycles
  Capacity,   \* room in the channel (1024 in the code)
  MaxBytes,   \* bound: bytes each port produces
  MaxStops,   \* bound: calls of Stop each caller makes in a cycle
  Stoppers    \* goroutines other than the session's that call Stop

Cycles == 1 .. MaxCycles
Owner == 0

ASSUME ParametersAssumption ==
  /\ MaxCycles \in Nat \ {0} /\ Capacity \in Nat \ {0}
  /\ MaxBytes \in Nat /\ MaxStops \in Nat \ {0}
  /\ Owner \notin Stoppers

Callers == {Owner} \cup Stoppers

VARIABLES
  owner,     \* where the session is: "idle", "draining", "running",
             \* "stopped", or "crashed" with the whole process
  cycle,     \* the current Start, 0 before the first
  channel,   \* r.channel
  done,      \* r.done
  once,      \* r.once: "fresh", "busy" or "used"
  closed,    \* the done channels that are closed
  caller,    \* caller[c]: "out", "entering" or "closing" of Stop
  grabbed,   \* grabbed[c]: the done channel Stop read under the lock
  stops,     \* stops[c]: calls of Stop in this cycle
  goroutine, \* goroutine[n]: "none", "checking", "reading", "pushing", "exited"
  pending,   \* pending[n]: bytes goroutine n has read and not pushed
  produced,  \* produced[n]: bytes port n has delivered
  received,  \* <<cycle, byte>> pairs in the order Read returned them
  overlap,   \* history: some Start found a caller inside Stop
  lingering  \* history: some Start found an earlier goroutine not yet gone

session == <<owner, cycle>>
signal == <<done, once, closed>>
stop == <<caller, grabbed, stops>>
readers == <<goroutine, pending, produced>>
history == <<overlap, lingering>>
vars == <<session, channel, signal, stop, readers, received, history>>

Init ==
  /\ owner = "idle" /\ cycle = 0
  /\ channel = <<>> /\ done = 0 /\ once = "fresh" /\ closed = {}
  /\ caller = [c \in Callers |-> "out"] /\ grabbed = [c \in Callers |-> 0]
  /\ stops = [c \in Callers |-> 0]
  /\ goroutine = [n \in Cycles |-> "none"]
  /\ pending = [n \in Cycles |-> <<>>] /\ produced = [n \in Cycles |-> 0]
  /\ received = <<>> /\ overlap = FALSE /\ lingering = FALSE

(***************************************************************************)
(* Start, Read and Stop                                                    *)
(***************************************************************************)

StartCalled ==
  /\ owner \in {"idle", "stopped"} /\ caller[Owner] = "out" /\ cycle < MaxCycles
  /\ owner' = "draining"
  /\ UNCHANGED <<cycle, channel, signal, stop, readers, received, history>>

\* drain discards one byte at a time, without a lock.
Drain ==
  /\ owner = "draining" /\ channel # <<>>
  /\ channel' = Tail(channel)
  /\ UNCHANGED <<session, signal, stop, readers, received, history>>

\* The channel is empty at this moment: Start replaces what Stop works on,
\* whoever is inside, and launches the goroutine, whether the one before it is
\* gone or not.
Arm ==
  /\ owner = "draining" /\ channel = <<>>
  /\ owner' = "running" /\ cycle' = cycle + 1
  /\ done' = cycle + 1 /\ once' = "fresh"
  /\ goroutine' = [goroutine EXCEPT ![cycle + 1] = "checking"]
  /\ stops' = [c \in Callers |-> 0]
  /\ overlap' = (overlap \/ \E c \in Callers : caller[c] # "out")
  /\ lingering' =
       (lingering \/ \E n \in Cycles : goroutine[n] \notin {"none", "exited"})
  /\ UNCHANGED <<channel, closed, caller, grabbed, pending, produced,
                 received>>

\* One byte taken by Read.
ReadByte ==
  /\ owner = "running" /\ caller[Owner] = "out" /\ channel # <<>>
  /\ received' = Append(received, <<cycle, Head(channel)>>)
  /\ channel' = Tail(channel)
  /\ UNCHANGED <<session, signal, stop, readers, history>>

\* Closes without going through r.once.
StopEntersUnguarded(c) ==
  /\ caller[c] = "entering"
  /\ once' = "busy"
  /\ caller' = [caller EXCEPT ![c] = "closing"]
  /\ UNCHANGED <<session, channel, done, closed, grabbed, stops, readers,
                 received, history>>

\* Stop reads &r.once and r.done under the lock ...
StopCalled(c) ==
  /\ owner # "crashed" /\ caller[c] = "out" /\ stops[c] < MaxStops
  /\ c = Owner => owner \in {"running", "stopped"}
  /\ caller' = [caller EXCEPT ![c] = "entering"]
  /\ grabbed' = [grabbed EXCEPT ![c] = done]
  /\ stops' = [stops EXCEPT ![c] = @ + 1]
  /\ owner' = IF c = Owner THEN "stopped" ELSE owner
  /\ UNCHANGED <<cycle, channel, signal, readers, received, history>>

\* ... and enters once.Do without it: one caller closes, the others wait.
StopEnters(c) ==
  /\ caller[c] = "entering"
  /\ \/ /\ once = "fresh"
        /\ once' = "busy"
        /\ caller' = [caller EXCEPT ![c] = "closing"]
     \/ /\ once = "used"
        /\ caller' = [caller EXCEPT ![c] = "out"]
        /\ UNCHANGED once
  /\ UNCHANGED <<session, channel, done, closed, grabbed, stops, readers,
                 received, history>>

\* close(done).  Closing a closed channel panics, and so does leaving a Once
\* whose mutex Start has zeroed meanwhile: every goroutine is gone.
StopCloses(c) ==
  /\ caller[c] = "closing"
  /\ IF grabbed[c] \in closed \/ once # "busy"
     THEN /\ owner' = "crashed"
          /\ caller' = [d \in Callers |-> "out"]
          /\ goroutine' = [n \in Cycles |-> "exited"]
          /\ UNCHANGED <<once, closed>>
     ELSE /\ caller' = [caller EXCEPT ![c] = "out"]
          /\ closed' = closed \cup {grabbed[c]} /\ once' = "used"
          /\ UNCHANGED <<owner, goroutine>>
  /\ UNCHANGED <<cycle, channel, done, grabbed, stops, pending, produced,
                 received, history>>

(***************************************************************************)
(* The reader goroutine                                                    *)
(***************************************************************************)

CheckDone(n) ==
  /\ goroutine[n] = "checking"
  /\ goroutine' = [goroutine EXCEPT ![n] = IF n \in closed THEN "exited" ELSE "reading"]
  /\ UNCHANGED <<session, channel, signal, stop, pending, produced, received, history>>

\* sp.Read returns k bytes; none on a timeout.
PortDelivers(n) ==
  /\ goroutine[n] = "reading"
  /\ \E k \in 0 .. MaxBytes - produced[n] :
       /\ pending' = [pending EXCEPT ![n] = [i \in 1 .. k |-> <<n, produced[n] + i>>]]
       /\ produced' = [produced EXCEPT ![n] = @ + k]
  /\ goroutine' = [goroutine EXCEPT ![n] = "pushing"]
  /\ UNCHANGED <<session, channel, signal, stop, received, history>>

\* A hard read error: unplugged, or closed by the session after Stop.
PortFails(n) ==
  /\ goroutine[n] = "reading"
  /\ goroutine' = [goroutine EXCEPT ![n] = "exited"]
  /\ UNCHANGED <<session, channel, signal, stop, pending, produced, received, history>>

Push(n) ==
  /\ goroutine[n] = "pushing" /\ pending[n] # <<>> /\ Len(channel) < Capacity
  /\ channel' = Append(channel, Head(pending[n]))
  /\ pending' = [pending EXCEPT ![n] = Tail(@)]
  /\ UNCHANGED <<session, signal, stop, goroutine, produced, received, history>>

\* A plain send would block here on a full channel for good.
PushNeverStops(n) ==
  /\ goroutine[n] = "pushing" /\ pending[n] # <<>> /\ n \in closed
  /\ Len(channel) < Capacity
  /\ goroutine' = [goroutine EXCEPT ![n] = "exited"]
  /\ UNCHANGED <<session, channel, signal, stop, pending, produced, received, history>>

\* The select's other case.  With both ready Go picks either.
PushStops(n) ==
  /\ goroutine[n] = "pushing" /\ pending[n] # <<>> /\ n \in closed
  /\ goroutine' = [goroutine EXCEPT ![n] = "exited"]
  /\ UNCHANGED <<session, channel, signal, stop, pending, produced, received, history>>

\* Drops what does not fit.
PushedOrDropped(n) ==
  /\ goroutine[n] = "pushing"
  /\ pending[n] = <<>> \/ Len(channel) = Capacity
  /\ goroutine' = [goroutine EXCEPT ![n] = "checking"]
  /\ pending' = [pending EXCEPT ![n] = <<>>]
  /\ UNCHANGED <<session, channel, signal, stop, produced, received, history>>

Pushed(n) ==
  /\ goroutine[n] = "pushing" /\ pending[n] = <<>>
  /\ goroutine' = [goroutine EXCEPT ![n] = "checking"]
  /\ UNCHANGED <<session, channel, signal, stop, pending, produced, received, history>>

Goroutine(n) ==
  \/ CheckDone(n) \/ PortDelivers(n) \/ PortFails(n)
  \/ Push(n) \/ PushStops(n) \/ Pushed(n)

(***************************************************************************)
(* Specification                                                           *)
(***************************************************************************)

Next ==
  \/ StartCalled \/ Drain \/ Arm \/ ReadByte
  \/ \E c \in Callers : StopCalled(c) \/ StopEnters(c) \/ StopCloses(c)
  \/ \E n \in Cycles : Goroutine(n)

Spec == Init /\ [][Next]_vars

\* Goroutines run on, and a call of Stop once begun is finished.
FairSpec ==
  /\ Spec
  /\ \A n \in Cycles : WF_vars(Goroutine(n))
  /\ \A c \in Callers : WF_vars(StopEnters(c) \/ StopCloses(c))

(***************************************************************************)
(* Properties                                                              *)
(***************************************************************************)

\* What Read has returned.
Returned == [i \in 1 .. Len(received) |-> received[i][2]]

\* s has port n's bytes after `from' up to `to', each once and in order, and
\* between them any bytes of other ports.
Holds(s, n, from, to) ==
  LET own == {i \in 1 .. Len(s) : s[i][1] = n}
  IN  /\ \A i, j \in own : i < j => s[i][2] < s[j][2]
      /\ {s[i][2] : i \in own} = from + 1 .. to

\* Until somebody stops it, the bytes of the port are received in order and
\* without a gap, however the goroutine, the full channel and the session
\* interleave.  Bytes of an earlier port may come between them (NoStaleBytes),
\* but only if some Start found the goroutine of an earlier one not yet gone:
\* otherwise a session receives its own port's bytes and nothing else.
PortIsReceived ==
  /\ owner = "running" /\ cycle \notin closed =>
       Holds(Returned \o channel \o pending[cycle], cycle, 0, produced[cycle])
  /\ ~lingering => \A i \in 1 .. Len(received) : received[i][2][1] = received[i][1]

\* "A new session cannot read the old one's bytes": Start drains the channel.
\* But a goroutine that was told to stop may be between its port and the
\* channel, and with room in it the select may pick the send.
NoStaleBytes == \A i \in 1 .. Len(received) : received[i][2][1] = received[i][1]

\* "Safe to call multiple times", from several goroutines at once and again
\* before the next Start: no channel is closed twice and no Once is left that
\* was not entered.  Of a Stop that overlaps a Start this says nothing.
StopIsSafeApart == overlap \/ owner # "crashed"

\* "... and safe to call concurrently with Start": the process does not panic.
\* But Start replaces a Once that a caller of Stop may be inside of.
StopIsSafe == owner # "crashed"

\* A stopped session leaves no goroutine behind: the reader exits even when
\* the channel is full and nobody reads it any more.  A Stop that overlapped a
\* Start may have used the new Once up to close the old channel.
StoppedReaderExits ==
  \A n \in Cycles :
    (owner = "stopped" /\ cycle = n) ~> (goroutine[n] = "exited" \/ overlap)
=============================================================================
