---------------------------- MODULE SnapshotFeed ----------------------------
(***************************************************************************)
(* How the companion stores feed their WebSocket listeners: a store's      *)
(* subscriber list, the buffered channel of each subscriber, and the       *)
(* handler of /ws/nowplaying, /ws/navigation or /ws/notifications at its   *)
(* other end.  A change is made under the store's lock and sent after it,  *)
(* so changes, subscriptions and sends interleave.                         *)
(*                                                                         *)
(* The n-th change of the store is the number n; what it holds is the      *)
(* subject of NowPlaying and Navigation.                                   *)
(***************************************************************************)
EXTENDS Integers, Sequences, SequencesExt

CONSTANTS
  Writers,         \* BLE write handlers that may run at once
  Listeners,       \* WebSocket connections
  Capacity,        \* room in a subscriber's channel (8 in the code)
  MaxChanges       \* bound: changes of the store

VARIABLES
  feed,      \* "state" (nowplaying, navigation) or "alerts" (notification)
  store,     \* the changes made so far
  subs,      \* Store.subs
  channel,   \* channel[l]: the subscriber's ch
  writer,    \* writer[w]: "idle", "copying" or "sending"
  message,   \* message[w]: the snapshot writer w sends
  targets,   \* targets[w]: its copy of subs, without those already served
  listener,  \* listener[l]: "away", "connected", "listening" or "left"
  joined,    \* joined[l]: the store when l subscribed
  seen,      \* seen[l]: what was written to the WebSocket
  pushed,    \* pushed[l]: how many of those came through the channel
  dropped    \* dropped[l]: a send found the channel full

writing == <<writer, message, targets>>
listening == <<listener, joined, seen, pushed>>
vars == <<feed, store, subs, channel, writing, listening, dropped>>

Init ==
  /\ feed \in {"state", "alerts"}
  /\ store = 0 /\ subs = <<>>
  /\ channel = [l \in Listeners |-> <<>>]
  /\ writer = [w \in Writers |-> "idle"]
  /\ message = [w \in Writers |-> 0]
  /\ targets = [w \in Writers |-> <<>>]
  /\ listener = [l \in Listeners |-> "away"]
  /\ joined = [l \in Listeners |-> 0]
  /\ seen = [l \in Listeners |-> <<>>]
  /\ pushed = [l \in Listeners |-> 0]
  /\ dropped = [l \in Listeners |-> FALSE]

(***************************************************************************)
(* A write handler: change, copy the list, send                            *)
(***************************************************************************)

\* The notification store's HandleAlert gives up its lock in between.
ChangeThenCopy(w) ==
  /\ writer[w] = "idle" /\ store < MaxChanges
  /\ store' = store + 1
  /\ message' = [message EXCEPT ![w] = store + 1]
  /\ writer' = [writer EXCEPT ![w] = "copying"]
  /\ UNCHANGED <<feed, subs, channel, targets, listening, dropped>>

\* A state store's change; an alert is recorded and the subscribers are copied
\* under one lock.
Change(w) ==
  /\ writer[w] = "idle" /\ store < MaxChanges
  /\ store' = store + 1
  /\ message' = [message EXCEPT ![w] = store + 1]
  /\ \/ /\ feed = "state"
        /\ writer' = [writer EXCEPT ![w] = "copying"]
        /\ UNCHANGED targets
     \/ /\ feed = "alerts"
        /\ writer' = [writer EXCEPT ![w] = "sending"]
        /\ targets' = [targets EXCEPT ![w] = subs]
  /\ UNCHANGED <<feed, subs, channel, listening, dropped>>

\* notify copies the list under a lock of its own.
CopySubs(w) ==
  /\ writer[w] = "copying"
  /\ targets' = [targets EXCEPT ![w] = subs]
  /\ writer' = [writer EXCEPT ![w] = "sending"]
  /\ UNCHANGED <<feed, store, subs, channel, message, listening, dropped>>

Put(w, l) ==
  /\ channel' = [channel EXCEPT ![l] =
                   IF Len(@) < Capacity THEN Append(@, message[w]) ELSE @]
  /\ dropped' = [dropped EXCEPT ![l] = @ \/ Len(channel[l]) = Capacity]

\* Ranges over the list itself: a removal meanwhile shifts it.
SendFromList(w) ==
  LET served == Len(targets[w]) IN
  /\ writer[w] = "sending" /\ targets[w] # <<>>
  /\ targets' = [targets EXCEPT ![w] = Tail(@)]
  /\ IF served <= Len(subs) THEN Put(w, subs[Len(subs) - served + 1])
     ELSE UNCHANGED <<channel, dropped>>
  /\ UNCHANGED <<feed, store, subs, writer, message, listening>>

\* The non-blocking send to the next subscriber of the copy, which may have
\* unsubscribed meanwhile.
Send(w) ==
  /\ writer[w] = "sending" /\ targets[w] # <<>>
  /\ Put(w, Head(targets[w]))
  /\ targets' = [targets EXCEPT ![w] = Tail(@)]
  /\ UNCHANGED <<feed, store, subs, writer, message, listening>>

Sent(w) ==
  /\ writer[w] = "sending" /\ targets[w] = <<>>
  /\ writer' = [writer EXCEPT ![w] = "idle"]
  /\ UNCHANGED <<feed, store, subs, channel, message, targets, listening, dropped>>

(***************************************************************************)
(* A WebSocket handler                                                     *)
(***************************************************************************)

\* Upgrades and, for the state feeds, writes the current snapshot.
Connect(l) ==
  /\ listener[l] = "away"
  /\ listener' = [listener EXCEPT ![l] = "connected"]
  /\ seen' = [seen EXCEPT ![l] = IF feed = "state" THEN <<store>> ELSE <<>>]
  /\ UNCHANGED <<feed, store, subs, channel, writing, joined, pushed, dropped>>

Subscribe(l) ==
  /\ listener[l] = "connected"
  /\ listener' = [listener EXCEPT ![l] = "listening"]
  /\ subs' = Append(subs, l)
  /\ joined' = [joined EXCEPT ![l] = store]
  /\ UNCHANGED <<feed, store, channel, writing, seen, pushed, dropped>>

Receive(l) ==
  /\ listener[l] = "listening" /\ channel[l] # <<>>
  /\ seen' = [seen EXCEPT ![l] = Append(@, Head(channel[l]))]
  /\ pushed' = [pushed EXCEPT ![l] = @ + 1]
  /\ channel' = [channel EXCEPT ![l] = Tail(@)]
  /\ UNCHANGED <<feed, store, subs, writing, listener, joined, dropped>>

\* Keeps what came before the listener only.
LeaveTruncating(l) ==
  /\ listener[l] = "listening"
  /\ listener' = [listener EXCEPT ![l] = "left"]
  /\ subs' = SubSeq(subs, 1, SelectInSeq(subs, LAMBDA s : s = l) - 1)
  /\ UNCHANGED <<feed, store, channel, writing, joined, seen, pushed, dropped>>

\* The peer is gone or the agent shuts down: the deferred unsubscribe.
Leave(l) ==
  /\ listener[l] = "listening"
  /\ listener' = [listener EXCEPT ![l] = "left"]
  /\ subs' = RemoveFirst(subs, l)
  /\ UNCHANGED <<feed, store, channel, writing, joined, seen, pushed, dropped>>

(***************************************************************************)
(* Specification                                                           *)
(***************************************************************************)

Next ==
  \/ \E w \in Writers : Change(w) \/ CopySubs(w) \/ Send(w) \/ Sent(w)
  \/ \E l \in Listeners : Connect(l) \/ Subscribe(l) \/ Receive(l) \/ Leave(l)

Spec == Init /\ [][Next]_vars

\* A handler once begun runs to its end; a listener keeps reading.
WriterGoesOn(w) == CopySubs(w) \/ Send(w) \/ Sent(w)

FairSpec ==
  /\ Spec
  /\ \A w \in Writers : WF_vars(WriterGoesOn(w))
  /\ \A l \in Listeners : WF_vars(Receive(l))

(***************************************************************************)
(* Properties                                                              *)
(***************************************************************************)

\* What came or will come to listener l through its channel.
Pushes(l) == SubSeq(seen[l], Len(seen[l]) - pushed[l] + 1, Len(seen[l])) \o channel[l]

\* "Receives a Snapshot whenever metadata or art changes": while one write
\* handler runs at a time, a subscriber whose channel never was full gets from
\* its first push on every change once and in order, whoever subscribes and
\* unsubscribes around it.
NothingSkipped ==
  \A l \in Listeners : ~dropped[l] =>
    \A i \in 1 .. Len(Pushes(l)) - 1 : Pushes(l)[i + 1] = Pushes(l)[i] + 1

\* While one write handler runs at a time, the last change reaches everyone who
\* subscribed before it and keeps up.
LastChangeArrives ==
  \A l \in Listeners :
    (listener[l] = "listening" /\ store > joined[l])
      ~> \/ listener[l] = "left" \/ dropped[l]
         \/ (seen[l] # <<>> /\ Last(seen[l]) = store)

\* "Only alerts posted while connected are delivered."
OnlyWhileConnected ==
  feed = "alerts" =>
    \A l \in Listeners : \A i \in 1 .. Len(Pushes(l)) : Pushes(l)[i] > joined[l]
=============================================================================
