--------------------------- MODULE Relays_proofs ---------------------------
(***************************************************************************)
(* Proofs about the stores' feeds (SnapshotFeed) and the head-unit relay   *)
(* (HeadUnit), as MCCompanion instantiates them, for any number of write   *)
(* handlers, listeners and frontends and any room in the channels.         *)
(*                                                                         *)
(* What a listener got and will get is one sequence, Pushes(l): receiving  *)
(* moves an element inside it, and only a send adds one.  The proofs ask   *)
(* of every step whether it is a send.                                     *)
(***************************************************************************)
EXTENDS MCCompanion, SequenceTheorems, TLAPS

(***************************************************************************)
(* Sequences                                                               *)
(***************************************************************************)

\* No element twice.
Distinct(s) == \A i, j \in 1 .. Len(s) : s[i] = s[j] => i = j

\* Appending a new element leaves no element twice.
LEMMA AppendDistinct ==
  ASSUME NEW S, NEW s \in Seq(S), NEW e \in S, Distinct(s), \A i \in 1 .. Len(s) : s[i] # e
  PROVE  Distinct(Append(s, e)) /\ Append(s, e) \in Seq(S)
<1>1. /\ Append(s, e) \in Seq(S) /\ Len(Append(s, e)) = Len(s) + 1 /\ Len(s) \in Nat
      /\ \A i \in 1 .. Len(s) : Append(s, e)[i] = s[i]
      /\ Append(s, e)[Len(s) + 1] = e
  BY AppendProperties
<1> QED
  BY <1>1 DEF Distinct

\* The tail of a sequence without duplicates is one without its head.
LEMMA TailDistinct ==
  ASSUME NEW S, NEW s \in Seq(S), s # <<>>, Distinct(s)
  PROVE  /\ Distinct(Tail(s)) /\ Tail(s) \in Seq(S) /\ Head(s) \in S
         /\ \A i \in 1 .. Len(Tail(s)) : Tail(s)[i] # Head(s) /\ Tail(s)[i] = s[i + 1]
         /\ \A i \in 1 .. Len(s) : s[i] # Head(s) => \E j \in 1 .. Len(Tail(s)) : Tail(s)[j] = s[i]
<1>1. /\ Len(s) \in Nat \ {0} /\ Len(Tail(s)) = Len(s) - 1 /\ Head(s) = s[1]
      /\ \A i \in 1 .. Len(Tail(s)) : Tail(s)[i] = s[i + 1]
      /\ Tail(s) \in Seq(S) /\ Head(s) \in S
  BY HeadTailProperties, EmptySeq
<1>2. \A i \in 1 .. Len(s) : i # 1 => i - 1 \in 1 .. Len(Tail(s)) /\ Tail(s)[i - 1] = s[i]
  BY <1>1
<1>3. \A i \in 1 .. Len(s) : s[i] # Head(s) => \E j \in 1 .. Len(Tail(s)) : Tail(s)[j] = s[i]
  BY <1>1, <1>2
<1> QED
  BY <1>1, <1>3 DEF Distinct

\* RemoveAt shifts the elements behind by one.
LEMMA RemoveElement ==
  ASSUME NEW S, NEW s \in Seq(S), NEW k \in 1 .. Len(s), NEW r, r = Feeds!RemoveAt(s, k)
  PROVE  /\ r \in Seq(S) /\ Len(r) = Len(s) - 1
         /\ \A i \in 1 .. Len(s) - 1 : r[i] = IF i < k THEN s[i] ELSE s[i + 1]
<1> DEFINE x == SubSeq(s, 1, k - 1)
           y == SubSeq(s, k + 1, Len(s))
<1>1. x \in Seq(S) /\ Len(x) = k - 1 /\ \A i \in 1 .. k - 1 : x[i] = s[i]
  OBVIOUS
<1>2. y \in Seq(S) /\ Len(y) = Len(s) - k /\ \A i \in 1 .. Len(s) - k : y[i] = s[k + i]
  OBVIOUS
<1>3. r = x \o y /\ Len(s) \in Nat
  BY DEF Feeds!RemoveAt
<1> HIDE DEF x, y
<1>4. /\ r \in Seq(S) /\ Len(r) = Len(x) + Len(y)
      /\ \A i \in 1 .. Len(x) + Len(y) : r[i] = IF i <= Len(x) THEN x[i] ELSE y[i - Len(x)]
  <2>1. x \in Seq(S) /\ y \in Seq(S)
    BY <1>1, <1>2
  <2> QED
    BY <1>3, <2>1, ConcatProperties
<1>5. ASSUME NEW i \in 1 .. Len(s) - 1 PROVE r[i] = IF i < k THEN s[i] ELSE s[i + 1]
  <2>1. CASE i < k
    BY <1>1, <1>2, <1>3, <1>4, <2>1
  <2>2. CASE i >= k
    <3>1. i - (k - 1) \in 1 .. Len(s) - k /\ k + (i - (k - 1)) = i + 1
      BY <1>3, <2>2
    <3>2. r[i] = y[i - (k - 1)]
      BY <1>1, <1>2, <1>3, <1>4, <2>2
    <3> QED
      BY <1>2, <1>3, <2>2, <3>1, <3>2
  <2> QED
    BY <2>1, <2>2
<1>6. Len(r) = Len(s) - 1
  BY <1>1, <1>2, <1>3, <1>4
<1> QED
  BY <1>4, <1>5, <1>6

\* q has the elements of s except e.
HoldsAllBut(q, s, e) ==
  /\ \A i \in 1 .. Len(q) : q[i] # e /\ \E j \in 1 .. Len(s) : s[j] = q[i]
  /\ \A i \in 1 .. Len(s) : s[i] # e => \E j \in 1 .. Len(q) : q[j] = s[i]

\* Removing an element that occurs once leaves the others.
LEMMA RemoveDistinct ==
  ASSUME NEW S, NEW s \in Seq(S), Distinct(s), NEW k \in 1 .. Len(s), NEW e, s[k] = e,
         NEW q, q = Feeds!RemoveFirst(s, e)
  PROVE  q \in Seq(S) /\ Distinct(q) /\ HoldsAllBut(q, s, e)
<1>1. q = Feeds!RemoveAt(s, k)
  <2>1. {i \in 1 .. Len(s) : s[i] = e} = {k}
    BY DEF Distinct
  <2>2. Feeds!Min({k}) = k
    BY DEF Feeds!Min
  <2>3. Feeds!SelectInSeq(s, LAMBDA v : v = e) = k
    BY <2>1, <2>2 DEF Feeds!SelectInSeq
  <2> QED
    BY <2>3 DEF Feeds!RemoveFirst
<1>2. /\ q \in Seq(S) /\ Len(q) = Len(s) - 1 /\ Len(s) \in Nat
      /\ \A i \in 1 .. Len(s) - 1 : q[i] = IF i < k THEN s[i] ELSE s[i + 1]
  <2>1. Len(s) \in Nat
    OBVIOUS
  <2>2. q \in Seq(S) /\ Len(q) = Len(s) - 1
    BY <1>1, RemoveElement, ZenonT(30)
  <2>3. ASSUME NEW i \in 1 .. Len(s) - 1 PROVE q[i] = IF i < k THEN s[i] ELSE s[i + 1]
    BY <1>1, RemoveElement, ZenonT(30)
  <2> QED
    BY <2>1, <2>2, <2>3
<1>3. Distinct(q)
  <2>1. SUFFICES ASSUME NEW i \in 1 .. Len(q), NEW j \in 1 .. Len(q), q[i] = q[j] PROVE i = j
    BY DEF Distinct
  <2>2. PICK a1 \in 1 .. Len(s) : q[i] = s[a1] /\ a1 = IF i < k THEN i ELSE i + 1
    BY <1>2
  <2>3. PICK a2 \in 1 .. Len(s) : q[j] = s[a2] /\ a2 = IF j < k THEN j ELSE j + 1
    BY <1>2
  <2>4. a1 = a2
    BY <2>1, <2>2, <2>3 DEF Distinct
  <2> QED
    BY <1>2, <2>2, <2>3, <2>4
<1>4. \A i \in 1 .. Len(q) : q[i] # e /\ \E j \in 1 .. Len(s) : s[j] = q[i]
  BY <1>2 DEF Distinct
<1>5. ASSUME NEW i \in 1 .. Len(s), i # k PROVE \E j \in 1 .. Len(q) : q[j] = s[i]
  <2>1. CASE i < k
    BY <1>2, <2>1
  <2>2. CASE i > k
    <3>1. i - 1 \in 1 .. Len(q) /\ q[i - 1] = s[i]
      BY <1>2, <2>2
    <3> QED
      BY <3>1
  <2> QED
    BY <1>5, <2>1, <2>2
<1> QED
  BY <1>2, <1>3, <1>4, <1>5 DEF HoldsAllBut

\* A sequence is its head and its tail.
LEMMA HeadAndTail ==
  ASSUME NEW S, NEW s \in Seq(S), s # <<>>
  PROVE  /\ s = <<Head(s)>> \o Tail(s) /\ <<Head(s)>> \in Seq(S) /\ Tail(s) \in Seq(S)
         /\ Head(s) \in S /\ Head(s) = s[1] /\ Len(s) \in Nat \ {0}
<1>1. Len(s) \in Nat \ {0}
  BY EmptySeq
<1>2. s = SubSeq(s, 1, Len(s))
  BY SubSeqFull
<1>3. SubSeq(s, 1, Len(s)) = <<s[1]>> \o SubSeq(s, 2, Len(s))
  BY <1>1, SubSeqRecursiveFirst
<1>4. Tail(s) = SubSeq(s, 2, Len(s)) /\ Head(s) = s[1]
  BY TailIsSubSeq
<1>5. Head(s) \in S /\ Tail(s) \in Seq(S)
  BY HeadTailProperties
<1> QED
  BY <1>1, <1>2, <1>3, <1>4, <1>5

\* Concatenation is associative.
LEMMA Regroup ==
  ASSUME NEW S, NEW x \in Seq(S), NEW y \in Seq(S), NEW z \in Seq(S)
  PROVE  (x \o y) \o z = x \o (y \o z)
OBVIOUS

\* An element put in the channel is the next behind what was received.
LEMMA PutInChannel ==
  ASSUME NEW S, NEW v \in Seq(S), NEW c \in Seq(S), NEW m \in S
  PROVE  v \o Append(c, m) = Append(v \o c, m)
<1> DEFINE y == <<m>>
<1>1. Append(c, m) = c \o y /\ y \in Seq(S)
  BY AppendIsConcat
<1>2. v \o c \in Seq(S)
  BY ConcatProperties
<1>3. Append(v \o c, m) = (v \o c) \o y
  BY <1>2, AppendIsConcat
<1> HIDE DEF y
<1>4. (v \o c) \o y = v \o (c \o y)
  BY <1>1, Regroup
<1> QED
  BY <1>1, <1>3, <1>4, Zenon

\* Receiving an element leaves received and channel together as they were.
LEMMA TakeFromChannel ==
  ASSUME NEW S, NEW s \in Seq(S), NEW c \in Seq(S), c # <<>>, NEW k \in Nat, k <= Len(s)
  PROVE  /\ Append(s, Head(c)) \in Seq(S) /\ Len(Append(s, Head(c))) = Len(s) + 1
         /\ SubSeq(Append(s, Head(c)), Len(s) - k + 1, Len(s) + 1) \o Tail(c)
              = SubSeq(s, Len(s) - k + 1, Len(s)) \o c
<1> DEFINE h == Head(c)
           t == Append(s, h)
           m == Len(s) - k + 1
           v == SubSeq(s, m, Len(s))
<1>1. /\ c = <<h>> \o Tail(c) /\ h \in S /\ Tail(c) \in Seq(S) /\ <<h>> \in Seq(S)
      /\ Len(s) \in Nat /\ m \in Nat \ {0} /\ m <= Len(s) + 1
  BY HeadAndTail
<1>2. /\ t \in Seq(S) /\ Len(t) = Len(s) + 1 /\ t[Len(s) + 1] = h
      /\ \A i \in 1 .. Len(s) : t[i] = s[i]
  BY <1>1, AppendProperties
<1> HIDE DEF t, m, h
<1>3. v \in Seq(S) /\ Len(v) = Len(s) - m + 1 /\ \A i \in 1 .. Len(s) - m + 1 : v[i] = s[m + i - 1]
  <2>1. \A i \in m .. Len(s) : s[i] \in S
    BY <1>1
  <2> QED
    BY <1>1, <2>1, SubSeqProperties, Z3
<1>4. SubSeq(t, m, Len(s)) = v
  <2>1. \A i \in m .. Len(s) : t[i] = s[i] /\ t[i] \in S
    BY <1>1, <1>2
  <2>2. /\ SubSeq(t, m, Len(s)) \in Seq(S) /\ Len(SubSeq(t, m, Len(s))) = Len(v)
        /\ \A i \in 1 .. Len(s) - m + 1 : SubSeq(t, m, Len(s))[i] = t[m + i - 1]
    BY <1>1, <1>3, <2>1, SubSeqProperties, Z3
  <2>3. \A i \in 1 .. Len(s) - m + 1 : m + i - 1 \in m .. Len(s)
    BY <1>1
  <2> HIDE DEF v
  <2> QED
    BY <1>1, <1>3, <2>1, <2>2, <2>3, SeqEqual
<1> HIDE DEF v
<1> DEFINE y == <<h>>
           z == Tail(c)
<1>5. SubSeq(t, m, Len(t)) = v \o y
  <2>1. m \in 1 .. Len(t) /\ Len(t) \in m .. Len(t) /\ Len(t) - 1 = Len(s) /\ t[Len(t)] = h
    BY <1>1, <1>2
  <2>2. SubSeq(t, m, Len(t)) = SubSeq(t, m, Len(t) - 1) \o <<t[Len(t)]>>
    BY <1>2, <2>1, SubSeqRecursiveSecond
  <2> QED
    BY <1>4, <2>1, <2>2
<1>6. SubSeq(t, m, Len(t)) \o z = v \o c
  <2>1. y \in Seq(S) /\ z \in Seq(S) /\ c = y \o z
    BY <1>1
  <2> HIDE DEF y, z
  <2> QED
    <3>1. v \in Seq(S)
      BY <1>3
    <3>2. (v \o y) \o z = v \o (y \o z)
      BY <2>1, <3>1, Regroup
    <3>3. v \o (y \o z) = v \o c
      BY <2>1, Zenon
    <3>4. (v \o y) \o z = v \o c
      BY <3>2, <3>3, Zenon
    <3> QED
      BY <1>5, <3>4, Zenon
<1> QED
  BY <1>2, <1>6 DEF t, v, m, h, z

(***************************************************************************)
(* The feeds                                                               *)
(***************************************************************************)

\* SnapshotFeed's, of listener l.
Pushes(l) == Feeds!Pushes(l)

\* The feed's types.
FeedTypes ==
  /\ feed \in {"state", "alerts"} /\ store \in Nat
  /\ subs \in Seq(Listeners) /\ channel \in [Listeners -> Seq(Nat)]
  /\ writer \in [Writers -> {"idle", "copying", "sending"}]
  /\ message \in [Writers -> Nat] /\ targets \in [Writers -> Seq(Listeners)]
  /\ listener \in [Listeners -> {"away", "connected", "listening", "left"}]
  /\ joined \in [Listeners -> Nat] /\ seen \in [Listeners -> Seq(Nat)]
  /\ pushed \in [Listeners -> Nat] /\ dropped \in [Listeners -> BOOLEAN]

\* What a WebSocket was sent starts with what it was sent on connecting.
PushesAreSeen == \A l \in Listeners : pushed[l] <= Len(seen[l])

\* A send finds room or is dropped.
ChannelsHold == \A l \in Listeners : Len(channel[l]) <= Capacity

\* The subscriber list holds the listening handlers, each once.
SubscribersListen ==
  /\ Distinct(subs)
  /\ \A i \in 1 .. Len(subs) : listener[subs[i]] = "listening"
  /\ \A l \in Listeners : listener[l] = "listening" => \E i \in 1 .. Len(subs) : subs[i] = l

\* A writer's copy of the list holds nobody twice and nobody who has yet to
\* subscribe; it is empty unless the writer sends.
TargetsSubscribed ==
  \A w \in Writers :
    /\ Distinct(targets[w]) /\ (writer[w] # "sending" => targets[w] = <<>>)
    /\ \A i \in 1 .. Len(targets[w]) : listener[targets[w][i]] \in {"listening", "left"}

\* Who has not subscribed was sent nothing.
NewcomersGotNothing ==
  \A l \in Listeners :
    listener[l] \in {"away", "connected"} => pushed[l] = 0 /\ channel[l] = <<>>

\* The invariant of the feeds.
FeedInv ==
  /\ FeedTypes /\ PushesAreSeen /\ ChannelsHold /\ SubscribersListen /\ TargetsSubscribed
  /\ NewcomersGotNothing

\* An alert on its way is later than the subscriptions of those it is sent to.
AlertsAreLater ==
  /\ \A l \in Listeners : joined[l] <= store
  /\ feed = "alerts" =>
       \A w \in Writers :
         /\ writer[w] # "copying"
         /\ \A i \in 1 .. Len(targets[w]) : joined[targets[w][i]] < message[w]

\* The invariant about alerts.
AlertInv == FeedInv /\ AlertsAreLater /\ OnlyWhileConnected

\* Writer w has yet to send its message to listener l.
Awaits(w, l) ==
  \/ writer[w] = "copying" /\ listener[l] = "listening"
  \/ \E i \in 1 .. Len(targets[w]) : targets[w][i] = l

\* The last push to a listener is the last change, or the one before it while
\* the last is still to be sent to it.
UpToDate ==
  \A w \in Writers :
    /\ writer[w] # "idle" => message[w] = store
    /\ \A l \in Listeners :
         ~dropped[l] /\ Pushes(l) # <<>> /\ (listener[l] = "listening" \/ Awaits(w, l)) =>
           Pushes(l)[Len(Pushes(l))] = IF Awaits(w, l) THEN store - 1 ELSE store

\* The invariant about changes.
SkipInv == FeedInv /\ UpToDate /\ NothingSkipped

\* The invariant holds at first.
LEMMA FeedInit == Feeds!Init => FeedInv
<1> SUFFICES ASSUME Feeds!Init PROVE FeedInv
  OBVIOUS
<1>1. FeedTypes
  BY DEF Feeds!Init, FeedTypes
<1>2. ChannelsHold
  BY EmptySeq, RelaysAssumption DEF Feeds!Init, ChannelsHold
<1>3. PushesAreSeen /\ SubscribersListen /\ TargetsSubscribed /\ NewcomersGotNothing
  BY DEF Feeds!Init, PushesAreSeen, SubscribersListen, TargetsSubscribed, NewcomersGotNothing, Distinct
<1> QED
  BY <1>1, <1>2, <1>3 DEF FeedInv

\* The listed are listeners.
LEMMA ListedAreListeners ==
  ASSUME FeedTypes
  PROVE  /\ Len(subs) \in Nat /\ \A i \in 1 .. Len(subs) : subs[i] \in Listeners
         /\ \A w \in Writers : \A i \in 1 .. Len(targets[w]) : targets[w][i] \in Listeners
<1>1. subs \in Seq(Listeners) /\ \A w \in Writers : targets[w] \in Seq(Listeners)
  BY DEF FeedTypes
<1> QED
  BY <1>1, ElementOfSeq, LenProperties

\* Who may be sent to stays so while the copies stay.
LEMMA TargetsFollow ==
  ASSUME FeedTypes, TargetsSubscribed, UNCHANGED <<writer, targets>>,
         \A l \in Listeners :
           listener[l] \in {"listening", "left"} => listener'[l] \in {"listening", "left"}
  PROVE  TargetsSubscribed'
BY ListedAreListeners DEF TargetsSubscribed, Distinct

\* A copy of subscribers may replace a writer's targets.
LEMMA TargetsStep ==
  ASSUME FeedTypes, TargetsSubscribed, NEW w \in Writers,
         NEW t \in Seq(Listeners), Distinct(t), UNCHANGED listener,
         \A i \in 1 .. Len(t) : listener[t[i]] \in {"listening", "left"},
         targets' = [targets EXCEPT ![w] = t],
         writer'[w] = "sending" \/ t = <<>>,
         \A v \in Writers : v # w => writer'[v] = writer[v]
  PROVE  TargetsSubscribed'
<1> SUFFICES ASSUME NEW v \in Writers
             PROVE  /\ Distinct(targets'[v]) /\ (writer'[v] # "sending" => targets'[v] = <<>>)
                    /\ \A i \in 1 .. Len(targets'[v]) :
                         listener[targets'[v][i]] \in {"listening", "left"}
  BY DEF TargetsSubscribed, Distinct
<1>1. targets'[v] = IF v = w THEN t ELSE targets[v]
  BY DEF FeedTypes
<1>2. CASE v = w
  BY <1>1, <1>2
<1>3. CASE v # w
  BY <1>1, <1>3 DEF TargetsSubscribed
<1> QED
  BY <1>2, <1>3

\* A change keeps the invariant and pushes nothing ...
LEMMA ChangeKeeps ==
  ASSUME FeedInv, NEW w \in Writers, Feeds!Change(w)
  PROVE  FeedInv' /\ \A l \in Listeners : Pushes(l)' = Pushes(l)
<1> USE DEF FeedInv
<1>1. /\ store' = store + 1 /\ writer[w] = "idle"
      /\ message' = [message EXCEPT ![w] = store + 1]
      /\ UNCHANGED <<feed, subs, channel, listener, joined, seen, pushed, dropped>>
  BY DEF Feeds!Change, Feeds!listening
<1>2. \/ writer' = [writer EXCEPT ![w] = "copying"] /\ targets' = [targets EXCEPT ![w] = <<>>]
      \/ writer' = [writer EXCEPT ![w] = "sending"] /\ targets' = [targets EXCEPT ![w] = subs]
  <2>1. targets[w] = <<>>
    BY <1>1 DEF TargetsSubscribed
  <2>2. [targets EXCEPT ![w] = <<>>] = targets
    BY <2>1 DEF FeedTypes
  <2> QED
    BY <2>2 DEF Feeds!Change
<1>3. store + 1 \in Nat /\ <<>> \in Seq(Listeners) /\ subs \in Seq(Listeners)
  BY DEF FeedTypes
<1>4. FeedTypes'
  <2>1. store' \in Nat /\ message' \in [Writers -> Nat]
    BY <1>1, <1>3 DEF FeedTypes
  <2>2. targets' \in [Writers -> Seq(Listeners)]
    BY <1>2, <1>3 DEF FeedTypes
  <2>3. writer' \in [Writers -> {"idle", "copying", "sending"}]
    BY <1>2 DEF FeedTypes
  <2> QED
    BY <1>1, <2>1, <2>2, <2>3 DEF FeedTypes
<1>5. PushesAreSeen' /\ ChannelsHold' /\ SubscribersListen' /\ NewcomersGotNothing'
  BY <1>1 DEF PushesAreSeen, ChannelsHold, SubscribersListen, NewcomersGotNothing, Distinct
<1>6. TargetsSubscribed'
  <2>1. \A v \in Writers : v # w => writer'[v] = writer[v]
    BY <1>2 DEF FeedTypes
  <2>2. CASE targets' = [targets EXCEPT ![w] = <<>>]
    <3> DEFINE t == <<>>
    <3>1. /\ t \in Seq(Listeners) /\ Distinct(t) /\ t = <<>>
          /\ \A i \in 1 .. Len(t) : listener[t[i]] \in {"listening", "left"}
      BY DEF Distinct
    <3>2. targets' = [targets EXCEPT ![w] = t]
      BY <2>2
    <3> HIDE DEF t
    <3> QED
      BY <1>1, <2>1, <3>1, <3>2, TargetsStep
  <2>3. CASE writer' = [writer EXCEPT ![w] = "sending"] /\ targets' = [targets EXCEPT ![w] = subs]
    <3>1. writer'[w] = "sending"
      BY <2>3 DEF FeedTypes
    <3> QED
      BY <1>1, <1>3, <2>1, <2>3, <3>1, TargetsStep DEF SubscribersListen
  <2> QED
    BY <1>2, <2>2, <2>3
<1>7. \A l \in Listeners : Pushes(l)' = Pushes(l)
  BY <1>1 DEF Pushes, Feeds!Pushes
<1> QED
  BY <1>4, <1>5, <1>6, <1>7

\* ... nor do the copy and the end of the sends.
LEMMA CopySubsKeeps ==
  ASSUME FeedInv, NEW w \in Writers, Feeds!CopySubs(w) \/ Feeds!Sent(w)
  PROVE  FeedInv' /\ \A l \in Listeners : Pushes(l)' = Pushes(l)
<1> USE DEF FeedInv
<1>1. UNCHANGED <<feed, store, subs, channel, message, listener, joined, seen, pushed, dropped>>
  BY DEF Feeds!CopySubs, Feeds!Sent, Feeds!listening
<1>2. \/ writer' = [writer EXCEPT ![w] = "sending"] /\ targets' = [targets EXCEPT ![w] = subs]
      \/ writer' = [writer EXCEPT ![w] = "idle"] /\ targets' = [targets EXCEPT ![w] = <<>>]
  BY DEF Feeds!CopySubs, Feeds!Sent, FeedTypes
<1>3. <<>> \in Seq(Listeners) /\ subs \in Seq(Listeners)
  BY DEF FeedTypes
<1>4. FeedTypes'
  <2>1. targets' \in [Writers -> Seq(Listeners)]
    BY <1>2, <1>3 DEF FeedTypes
  <2>2. writer' \in [Writers -> {"idle", "copying", "sending"}]
    BY <1>2 DEF FeedTypes
  <2> QED
    BY <1>1, <2>1, <2>2 DEF FeedTypes
<1>5. PushesAreSeen' /\ ChannelsHold' /\ SubscribersListen' /\ NewcomersGotNothing'
  BY <1>1 DEF PushesAreSeen, ChannelsHold, SubscribersListen, NewcomersGotNothing, Distinct
<1>6. TargetsSubscribed'
  <2>1. \A v \in Writers : v # w => writer'[v] = writer[v]
    BY <1>2 DEF FeedTypes
  <2>2. CASE targets' = [targets EXCEPT ![w] = <<>>]
    <3> DEFINE t == <<>>
    <3>1. /\ t \in Seq(Listeners) /\ Distinct(t) /\ t = <<>>
          /\ \A i \in 1 .. Len(t) : listener[t[i]] \in {"listening", "left"}
      BY DEF Distinct
    <3>2. targets' = [targets EXCEPT ![w] = t]
      BY <2>2
    <3> HIDE DEF t
    <3> QED
      BY <1>1, <2>1, <3>1, <3>2, TargetsStep
  <2>3. CASE writer' = [writer EXCEPT ![w] = "sending"] /\ targets' = [targets EXCEPT ![w] = subs]
    <3>1. writer'[w] = "sending"
      BY <2>3 DEF FeedTypes
    <3> QED
      BY <1>1, <1>3, <2>1, <2>3, <3>1, TargetsStep DEF SubscribersListen
  <2> QED
    BY <1>2, <2>2, <2>3
<1>7. \A l \in Listeners : Pushes(l)' = Pushes(l)
  BY <1>1 DEF Pushes, Feeds!Pushes
<1> QED
  BY <1>4, <1>5, <1>6, <1>7

\* What is pushed are changes.
LEMMA PushesAreNumbers ==
  ASSUME FeedInv, NEW l \in Listeners
  PROVE  /\ SubSeq(seen[l], Len(seen[l]) - pushed[l] + 1, Len(seen[l])) \in Seq(Nat)
         /\ channel[l] \in Seq(Nat) /\ Pushes(l) \in Seq(Nat)
<1>1. /\ seen[l] \in Seq(Nat) /\ Len(seen[l]) \in Nat /\ channel[l] \in Seq(Nat)
      /\ pushed[l] \in Nat /\ pushed[l] <= Len(seen[l])
  BY DEF FeedInv, FeedTypes, PushesAreSeen
<1>2. \A i \in Len(seen[l]) - pushed[l] + 1 .. Len(seen[l]) : seen[l][i] \in Nat
  BY <1>1
<1>3. SubSeq(seen[l], Len(seen[l]) - pushed[l] + 1, Len(seen[l])) \in Seq(Nat)
  BY <1>1, <1>2, SubSeqProperties
<1> QED
  BY <1>1, <1>3, ConcatProperties DEF Pushes, Feeds!Pushes

\* A send that finds room appends to what is pushed.
LEMMA PushAppends ==
  ASSUME FeedInv, NEW l \in Listeners, NEW m \in Nat, channel'[l] = Append(channel[l], m),
         UNCHANGED <<seen, pushed>>
  PROVE  Pushes(l)' = Append(Pushes(l), m)
<1>1. PICK v \in Seq(Nat) : v = SubSeq(seen[l], Len(seen[l]) - pushed[l] + 1, Len(seen[l]))
  BY PushesAreNumbers
<1>2. PICK c \in Seq(Nat) : c = channel[l]
  BY PushesAreNumbers
<1>3. v \o Append(c, m) = Append(v \o c, m)
  BY PutInChannel
<1>4. Pushes(l) = v \o c /\ Pushes(l)' = v \o Append(c, m)
  BY <1>1, <1>2 DEF Pushes, Feeds!Pushes
<1> QED
  BY <1>3, <1>4

\* A send keeps the invariant and appends its message to the pushes of the
\* next target, unless it is dropped.
LEMMA SendKeeps ==
  ASSUME FeedInv, NEW w \in Writers, Feeds!Send(w)
  PROVE  /\ FeedInv'
         /\ \A l \in Listeners :
              \/ Pushes(l)' = Pushes(l)
              \/ l = Head(targets[w]) /\ Pushes(l)' = Append(Pushes(l), message[w])
         /\ \A l \in Listeners :
              l = Head(targets[w]) /\ ~dropped'[l] => Pushes(l)' = Append(Pushes(l), message[w])
<1> USE DEF FeedInv, FeedTypes
<1>0. PICK h \in Listeners : h = Head(targets[w])
  <2>1. targets[w] \in Seq(Listeners) /\ targets[w] # <<>>
    BY DEF Feeds!Send
  <2> QED
    BY <2>1, HeadTailProperties
<1>1. /\ writer[w] = "sending" /\ targets[w] # <<>>
      /\ channel' = [channel EXCEPT ![h] = IF Len(@) < Capacity THEN Append(@, message[w]) ELSE @]
      /\ dropped' = [dropped EXCEPT ![h] = @ \/ Len(channel[h]) = Capacity]
      /\ targets' = [targets EXCEPT ![w] = Tail(@)]
      /\ UNCHANGED <<feed, store, subs, writer, message, listener, joined, seen, pushed>>
  BY <1>0 DEF Feeds!Send, Feeds!Put, Feeds!listening
<1>2. /\ h \in Listeners /\ Tail(targets[w]) \in Seq(Listeners) /\ Distinct(Tail(targets[w]))
      /\ \A i \in 1 .. Len(Tail(targets[w])) : \E k \in 1 .. Len(targets[w]) : Tail(targets[w])[i] = targets[w][k]
      /\ h = targets[w][1] /\ 1 \in 1 .. Len(targets[w])
  <2>1. targets[w] \in Seq(Listeners) /\ targets[w] # <<>> /\ Distinct(targets[w])
    BY <1>1 DEF TargetsSubscribed
  <2>2. /\ Tail(targets[w]) \in Seq(Listeners) /\ Len(Tail(targets[w])) = Len(targets[w]) - 1
        /\ \A i \in 1 .. Len(Tail(targets[w])) : Tail(targets[w])[i] = targets[w][i + 1]
        /\ Len(targets[w]) \in Nat \ {0}
    BY <2>1, HeadTailProperties, EmptySeq
  <2>3. \A i \in 1 .. Len(Tail(targets[w])) : i + 1 \in 1 .. Len(targets[w])
    BY <2>2
  <2> QED
    BY <1>0, <2>1, <2>2, <2>3, TailDistinct, HeadAndTail
<1>3. channel[h] \in Seq(Nat) /\ message[w] \in Nat /\ Append(channel[h], message[w]) \in Seq(Nat)
  BY <1>2, AppendProperties
<1>4. FeedTypes'
  BY <1>1, <1>2, <1>3
<1>5. PushesAreSeen' /\ SubscribersListen'
  BY <1>1 DEF PushesAreSeen, SubscribersListen, Distinct
<1>6. NewcomersGotNothing'
  <2>1. listener[h] \in {"listening", "left"}
    BY <1>2 DEF TargetsSubscribed
  <2> QED
    BY <1>1, <1>2, <2>1 DEF NewcomersGotNothing
<1>7. TargetsSubscribed'
  <2> DEFINE t == Tail(targets[w])
  <2>1. \A i \in 1 .. Len(t) : listener[t[i]] \in {"listening", "left"}
    BY <1>2 DEF TargetsSubscribed
  <2>2. targets' = [targets EXCEPT ![w] = t] /\ t \in Seq(Listeners) /\ Distinct(t)
    BY <1>1, <1>2
  <2> HIDE DEF t
  <2> QED
    BY <1>1, <2>1, <2>2, TargetsStep
<1>13. ChannelsHold'
  <2>1. channel[h] \in Seq(Nat) /\ Len(channel[h]) \in Nat /\ Len(Append(channel[h], message[w])) = Len(channel[h]) + 1
    BY <1>3, AppendProperties
  <2>2. ASSUME NEW l \in Listeners PROVE Len(channel'[l]) <= Capacity
    <3>1. channel'[l] = IF l = h /\ Len(channel[h]) < Capacity THEN Append(channel[h], message[w]) ELSE channel[l]
      BY <1>1
    <3> QED
      BY <2>1, <3>1, RelaysAssumption DEF ChannelsHold
  <2> QED
    BY <2>2 DEF ChannelsHold
<1>8. ASSUME NEW l \in Listeners, channel'[l] = channel[l] PROVE Pushes(l)' = Pushes(l)
  BY <1>1, <1>8 DEF Pushes, Feeds!Pushes
<1>9. ASSUME channel'[h] = Append(channel[h], message[w])
      PROVE  Pushes(h)' = Append(Pushes(h), message[w])
  BY <1>1, <1>3, <1>9, PushAppends
<1>10. \A l \in Listeners : l # h => channel'[l] = channel[l]
  BY <1>1
<1>11. channel'[h] = channel[h] \/ channel'[h] = Append(channel[h], message[w])
  BY <1>1, <1>2
<1>12. ~dropped'[h] => channel'[h] = Append(channel[h], message[w])
  <2> SUFFICES ASSUME ~dropped'[h] PROVE channel'[h] = Append(channel[h], message[w])
    OBVIOUS
  <2>1. Len(channel[h]) # Capacity
    BY <1>1, <1>2
  <2>2. channel'[h] = IF Len(channel[h]) < Capacity THEN Append(channel[h], message[w]) ELSE channel[h]
    BY <1>1
  <2>3. Len(channel[h]) <= Capacity
    BY DEF ChannelsHold
  <2> QED
    BY <2>1, <2>2, <2>3, RelaysAssumption
<1> QED
  BY <1>0, <1>4, <1>5, <1>6, <1>7, <1>8, <1>9, <1>10, <1>11, <1>12, <1>13

\* The steps of a listener keep the invariant and push nothing: connecting,
LEMMA ConnectKeeps ==
  ASSUME FeedInv, NEW l \in Listeners, Feeds!Connect(l)
  PROVE  FeedInv' /\ \A k \in Listeners : Pushes(k)' = Pushes(k)
<1> USE DEF FeedInv
<1>1. /\ listener[l] = "away" /\ listener' = [listener EXCEPT ![l] = "connected"]
      /\ seen' = [seen EXCEPT ![l] = IF feed = "state" THEN <<store>> ELSE <<>>]
      /\ UNCHANGED <<feed, store, subs, channel, writer, message, targets, joined, pushed, dropped>>
  BY DEF Feeds!Connect, Feeds!writing
<1>0. \A k \in Listeners : listener'[k] = IF k = l THEN "connected" ELSE listener[k]
  BY <1>1 DEF FeedTypes
<1>2. PICK s \in Seq(Nat) : s = (IF feed = "state" THEN <<store>> ELSE <<>>)
  <2>1. <<store>> \in Seq(Nat) /\ <<>> \in Seq(Nat)
    BY DEF FeedTypes
  <2> QED
    BY <2>1, Zenon
<1>3. FeedTypes'
  BY <1>1, <1>2 DEF FeedTypes
<1>4. pushed[l] = 0 /\ channel[l] = <<>>
  BY <1>1 DEF NewcomersGotNothing
<1>5. PushesAreSeen'
  <2>1. ASSUME NEW k \in Listeners PROVE pushed'[k] <= Len(seen'[k])
    <3>1. CASE k = l
      <4>1. seen'[k] = s /\ Len(s) \in Nat
        BY <1>1, <1>2, <3>1 DEF FeedTypes
      <4> QED
        BY <1>1, <1>4, <3>1, <4>1
    <3>2. CASE k # l
      BY <1>1, <3>2 DEF FeedTypes, PushesAreSeen
    <3> QED
      BY <3>1, <3>2
  <2> QED
    BY <2>1 DEF PushesAreSeen
<1>6. ChannelsHold' /\ NewcomersGotNothing'
  BY <1>1 DEF ChannelsHold, NewcomersGotNothing, FeedTypes
<1>7. SubscribersListen'
  BY <1>0, <1>1, ListedAreListeners DEF SubscribersListen, Distinct
<1>8. TargetsSubscribed'
  BY <1>0, <1>1, TargetsFollow
<1>9. ASSUME NEW k \in Listeners PROVE Pushes(k)' = Pushes(k)
  <2>1. CASE k # l
    <3>1. seen'[k] = seen[k] /\ pushed'[k] = pushed[k] /\ channel'[k] = channel[k]
      BY <1>1, <2>1 DEF FeedTypes
    <3> QED
      BY <3>1 DEF Pushes, Feeds!Pushes
  <2>2. CASE k = l
    <3>1. pushed[k] = 0 /\ pushed'[k] = 0 /\ channel'[k] = channel[k]
      BY <1>1, <1>4, <2>2
    <3>2. Len(seen[k]) \in Nat /\ Len(seen'[k]) \in Nat
      <4>1. seen[k] \in Seq(Nat) /\ seen'[k] \in Seq(Nat)
        BY <1>3 DEF FeedTypes
      <4> QED
        BY <4>1, LenProperties
    <3>3. /\ SubSeq(seen[k], Len(seen[k]) - pushed[k] + 1, Len(seen[k])) = <<>>
          /\ SubSeq(seen'[k], Len(seen'[k]) - pushed'[k] + 1, Len(seen'[k])) = <<>>
      BY <3>1, <3>2, SubSeqEmpty
    <3> QED
      BY <3>1, <3>3 DEF Pushes, Feeds!Pushes
  <2> QED
    BY <2>1, <2>2
<1> QED
  BY <1>3, <1>5, <1>6, <1>7, <1>8, <1>9

\* subscribing,
LEMMA SubscribeKeeps ==
  ASSUME FeedInv, NEW l \in Listeners, Feeds!Subscribe(l)
  PROVE  FeedInv' /\ \A k \in Listeners : Pushes(k)' = Pushes(k)
<1> USE DEF FeedInv
<1>1. /\ listener[l] = "connected" /\ listener' = [listener EXCEPT ![l] = "listening"]
      /\ subs' = Append(subs, l) /\ joined' = [joined EXCEPT ![l] = store]
      /\ UNCHANGED <<feed, store, channel, writer, message, targets, seen, pushed, dropped>>
  BY DEF Feeds!Subscribe, Feeds!writing
<1>0. \A k \in Listeners : listener'[k] = IF k = l THEN "listening" ELSE listener[k]
  BY <1>1 DEF FeedTypes
<1>2. /\ subs' \in Seq(Listeners) /\ Len(subs') = Len(subs) + 1 /\ Len(subs) \in Nat
      /\ subs'[Len(subs) + 1] = l /\ \A i \in 1 .. Len(subs) : subs'[i] = subs[i]
  BY <1>1, AppendProperties DEF FeedTypes
<1>3. FeedTypes'
  BY <1>1, <1>2 DEF FeedTypes
<1>4. PushesAreSeen' /\ ChannelsHold' /\ NewcomersGotNothing'
  BY <1>1 DEF PushesAreSeen, ChannelsHold, NewcomersGotNothing, FeedTypes
<1>5. \A i \in 1 .. Len(subs) : subs[i] # l
  BY <1>1 DEF SubscribersListen
<1>6. SubscribersListen'
  <2>1. Distinct(subs')
    BY <1>1, <1>5, AppendDistinct DEF SubscribersListen, FeedTypes
  <2>2. ASSUME NEW i \in 1 .. Len(subs') PROVE listener'[subs'[i]] = "listening"
    <3>1. CASE i = Len(subs) + 1
      BY <1>1, <1>2, <3>1 DEF FeedTypes
    <3>2. CASE i \in 1 .. Len(subs)
      <4>1. subs'[i] = subs[i] /\ subs[i] # l /\ subs[i] \in Listeners /\ listener[subs[i]] = "listening"
        BY <1>2, <1>5, <3>2, ListedAreListeners DEF SubscribersListen
      <4> QED
        BY <1>0, <4>1
    <3> QED
      BY <1>2, <3>1, <3>2
  <2>3. ASSUME NEW k \in Listeners, listener'[k] = "listening"
        PROVE  \E i \in 1 .. Len(subs') : subs'[i] = k
    <3>1. CASE k = l
      BY <1>2, <3>1
    <3>2. CASE k # l
      <4>1. PICK i \in 1 .. Len(subs) : subs[i] = k
        BY <1>1, <2>3, <3>2 DEF SubscribersListen, FeedTypes
      <4> QED
        BY <1>2, <4>1
    <3> QED
      BY <3>1, <3>2
  <2> QED
    BY <2>1, <2>2, <2>3 DEF SubscribersListen, Distinct
<1>7. TargetsSubscribed'
  BY <1>0, <1>1, TargetsFollow
<1>8. \A k \in Listeners : Pushes(k)' = Pushes(k)
  BY <1>1 DEF Pushes, Feeds!Pushes
<1> QED
  BY <1>3, <1>4, <1>6, <1>7, <1>8

\* receiving,
LEMMA ReceiveKeeps ==
  ASSUME FeedInv, NEW l \in Listeners, Feeds!Receive(l)
  PROVE  FeedInv' /\ \A k \in Listeners : Pushes(k)' = Pushes(k)
<1> USE DEF FeedInv
<1>1. /\ listener[l] = "listening" /\ channel[l] # <<>>
      /\ seen' = [seen EXCEPT ![l] = Append(@, Head(channel[l]))]
      /\ pushed' = [pushed EXCEPT ![l] = @ + 1]
      /\ channel' = [channel EXCEPT ![l] = Tail(@)]
      /\ UNCHANGED <<feed, store, subs, writer, message, targets, listener, joined, dropped>>
  BY DEF Feeds!Receive, Feeds!writing
<1>2. PICK c \in Seq(Nat) : c = channel[l] /\ c # <<>>
  BY <1>1 DEF FeedTypes
<1>3. PICK s \in Seq(Nat) : s = seen[l]
  BY DEF FeedTypes
<1>4. PICK k \in Nat : k = pushed[l] /\ k <= Len(s)
  BY <1>3 DEF FeedTypes, PushesAreSeen
<1>5. PICK t : t = Append(s, Head(c))
  OBVIOUS
<1>6. /\ t \in Seq(Nat) /\ Len(t) = Len(s) + 1
      /\ SubSeq(t, Len(s) - k + 1, Len(s) + 1) \o Tail(c)
           = SubSeq(s, Len(s) - k + 1, Len(s)) \o c
  BY <1>2, <1>4, <1>5, TakeFromChannel
<1>7. /\ seen' = [seen EXCEPT ![l] = t] /\ pushed' = [pushed EXCEPT ![l] = k + 1]
      /\ channel' = [channel EXCEPT ![l] = Tail(c)]
  BY <1>1, <1>2, <1>3, <1>4, <1>5
<1>8. Tail(c) \in Seq(Nat) /\ Len(Tail(c)) = Len(c) - 1 /\ Len(c) \in Nat /\ Len(s) \in Nat
  BY <1>2, HeadTailProperties
<1>9. FeedTypes'
  <2>1. seen' \in [Listeners -> Seq(Nat)]
    BY <1>6, <1>7 DEF FeedTypes
  <2>2. channel' \in [Listeners -> Seq(Nat)]
    BY <1>7, <1>8 DEF FeedTypes
  <2>3. pushed' \in [Listeners -> Nat]
    BY <1>7 DEF FeedTypes
  <2> QED
    BY <1>1, <2>1, <2>2, <2>3 DEF FeedTypes
<1>10. ASSUME NEW i \in Listeners
       PROVE  /\ pushed'[i] <= Len(seen'[i]) /\ Len(channel'[i]) <= Capacity
              /\ Pushes(i)' = Pushes(i)
  <2>1. CASE i # l
    <3>1. seen'[i] = seen[i] /\ pushed'[i] = pushed[i] /\ channel'[i] = channel[i]
      BY <1>1, <2>1 DEF FeedTypes
    <3> QED
      BY <3>1 DEF PushesAreSeen, ChannelsHold, Pushes, Feeds!Pushes
  <2>2. CASE i = l
    <3>1. seen'[i] = t /\ pushed'[i] = k + 1 /\ channel'[i] = Tail(c)
      BY <1>7, <2>2 DEF FeedTypes
    <3>2. k + 1 <= Len(t)
      BY <1>4, <1>6, <1>8
    <3>3. Len(c) <= Capacity
      BY <1>2 DEF ChannelsHold
    <3>4. Pushes(i) = SubSeq(s, Len(s) - k + 1, Len(s)) \o c
      BY <1>2, <1>3, <1>4, <2>2 DEF Pushes, Feeds!Pushes
    <3>5. Len(t) - (k + 1) + 1 = Len(s) - k + 1
      BY <1>6, <1>8
    <3>6. Pushes(i)' = SubSeq(t, Len(s) - k + 1, Len(s) + 1) \o Tail(c)
      BY <1>6, <3>1, <3>5 DEF Pushes, Feeds!Pushes
    <3>7. Pushes(i)' = Pushes(i)
      BY <1>6, <3>4, <3>6, Zenon
    <3>8. Len(channel'[i]) <= Capacity
      BY <1>8, <3>1, <3>3, RelaysAssumption
    <3> QED
      BY <3>1, <3>2, <3>7, <3>8
  <2> QED
    BY <2>1, <2>2
<1>11. NewcomersGotNothing'
  BY <1>1 DEF NewcomersGotNothing, FeedTypes
<1>12. SubscribersListen' /\ TargetsSubscribed'
  BY <1>1 DEF SubscribersListen, TargetsSubscribed, Distinct
<1> QED
  BY <1>9, <1>10, <1>11, <1>12 DEF PushesAreSeen, ChannelsHold

\* and leaving.
LEMMA LeaveKeeps ==
  ASSUME FeedInv, NEW l \in Listeners, Feeds!Leave(l)
  PROVE  FeedInv' /\ \A k \in Listeners : Pushes(k)' = Pushes(k)
<1> USE DEF FeedInv
<1>1. /\ listener[l] = "listening" /\ listener' = [listener EXCEPT ![l] = "left"]
      /\ subs' = Feeds!RemoveFirst(subs, l)
      /\ UNCHANGED <<feed, store, channel, writer, message, targets, joined, seen, pushed, dropped>>
  BY DEF Feeds!Leave, Feeds!writing
<1>0. \A k \in Listeners : listener'[k] = IF k = l THEN "left" ELSE listener[k]
  BY <1>1 DEF FeedTypes
<1>2. PICK s \in Seq(Listeners) : s = subs
  BY DEF FeedTypes
<1>9. PICK q : q = subs'
  OBVIOUS
<1>10. q \in Seq(Listeners) /\ Distinct(q) /\ HoldsAllBut(q, s, l)
  <2>1. q = Feeds!RemoveFirst(s, l) /\ Distinct(s)
    BY <1>1, <1>2, <1>9 DEF SubscribersListen
  <2>2. PICK k \in 1 .. Len(s) : s[k] = l
    BY <1>1, <1>2 DEF SubscribersListen
  <2> QED
    BY <2>1, <2>2, RemoveDistinct
<1>3. /\ subs' \in Seq(Listeners) /\ Distinct(subs')
      /\ \A i \in 1 .. Len(subs') : subs'[i] # l /\ \E j \in 1 .. Len(subs) : subs[j] = subs'[i]
      /\ \A i \in 1 .. Len(subs) : subs[i] # l => \E j \in 1 .. Len(subs') : subs'[j] = subs[i]
  BY <1>2, <1>9, <1>10 DEF HoldsAllBut
<1>4. FeedTypes'
  BY <1>1, <1>3 DEF FeedTypes
<1>5. PushesAreSeen' /\ ChannelsHold' /\ NewcomersGotNothing'
  BY <1>1 DEF PushesAreSeen, ChannelsHold, NewcomersGotNothing, FeedTypes
<1>6. SubscribersListen'
  <2>1. ASSUME NEW i \in 1 .. Len(subs') PROVE listener'[subs'[i]] = "listening"
    <3>1. PICK j \in 1 .. Len(subs) : subs[j] = subs'[i] /\ subs[j] # l
      BY <1>3
    <3> QED
      BY <1>0, <3>1, ListedAreListeners DEF SubscribersListen
  <2>2. ASSUME NEW m \in Listeners, listener'[m] = "listening"
        PROVE  \E i \in 1 .. Len(subs') : subs'[i] = m
    <3>1. m # l /\ listener[m] = "listening"
      BY <1>1, <2>2 DEF FeedTypes
    <3>2. PICK i \in 1 .. Len(subs) : subs[i] = m
      BY <3>1 DEF SubscribersListen
    <3> QED
      BY <1>3, <3>1, <3>2
  <2> QED
    BY <1>3, <2>1, <2>2 DEF SubscribersListen, Distinct
<1>7. TargetsSubscribed'
  BY <1>0, <1>1, TargetsFollow
<1>8. \A i \in Listeners : Pushes(i)' = Pushes(i)
  BY <1>1 DEF Pushes, Feeds!Pushes
<1> QED
  BY <1>4, <1>5, <1>6, <1>7, <1>8

\* Every step keeps the invariant, and only a send adds to what is pushed.
LEMMA FeedStep ==
  ASSUME FeedInv, [Feeds!Next]_(Feeds!vars)
  PROVE  /\ FeedInv'
         /\ \/ \E w \in Writers : Feeds!Send(w)
            \/ \A l \in Listeners : Pushes(l)' = Pushes(l)
<1>1. ASSUME NEW w \in Writers, Feeds!Change(w) \/ Feeds!CopySubs(w) \/ Feeds!Sent(w)
      PROVE  FeedInv' /\ \A l \in Listeners : Pushes(l)' = Pushes(l)
  BY <1>1, ChangeKeeps, CopySubsKeeps
<1>2. ASSUME NEW w \in Writers, Feeds!Send(w) PROVE FeedInv'
  BY <1>2, SendKeeps
<1>3. ASSUME NEW l \in Listeners,
             Feeds!Connect(l) \/ Feeds!Subscribe(l) \/ Feeds!Receive(l) \/ Feeds!Leave(l)
      PROVE  FeedInv' /\ \A k \in Listeners : Pushes(k)' = Pushes(k)
  BY <1>3, ConnectKeeps, SubscribeKeeps, ReceiveKeeps, LeaveKeeps
<1>4. ASSUME UNCHANGED Feeds!vars
      PROVE  FeedInv' /\ \A l \in Listeners : Pushes(l)' = Pushes(l)
  <2>1. UNCHANGED <<feed, store, subs, channel, writer, message, targets, listener, joined,
                    seen, pushed, dropped>>
    BY <1>4 DEF Feeds!vars, Feeds!writing, Feeds!listening
  <2> QED
    BY <2>1 DEF FeedInv, FeedTypes, PushesAreSeen, ChannelsHold, SubscribersListen,
                TargetsSubscribed, NewcomersGotNothing, Distinct, Pushes, Feeds!Pushes
<1> QED
  BY <1>1, <1>2, <1>3, <1>4 DEF Feeds!Next

(***************************************************************************)
(* Alerts                                                                  *)
(***************************************************************************)

\* Nothing is pushed at first ...
LEMMA NothingPushedAtFirst == Feeds!Init => \A l \in Listeners : Pushes(l) = <<>>
<1>1. SubSeq(<<>>, 1, 0) = <<>> /\ <<>> \o <<>> = <<>>
  BY SubSeqEmpty, ConcatEmptySeq, EmptySeq
<1>2. Len(<<>>) - 0 + 1 = 1 /\ Len(<<>>) = 0
  OBVIOUS
<1> QED
  BY <1>1, <1>2 DEF Feeds!Init, Pushes, Feeds!Pushes

\* ... nor to who has not subscribed.
LEMMA NewcomersPushNothing ==
  ASSUME FeedInv, NEW l \in Listeners, listener[l] \in {"away", "connected"}
  PROVE  Pushes(l) = <<>>
<1>1. pushed[l] = 0 /\ channel[l] = <<>> /\ Len(seen[l]) \in Nat
  BY LenProperties DEF FeedInv, NewcomersGotNothing, FeedTypes
<1>2. SubSeq(seen[l], Len(seen[l]) - 0 + 1, Len(seen[l])) = <<>>
  BY <1>1, SubSeqEmpty
<1> QED
  BY <1>1, <1>2 DEF Pushes, Feeds!Pushes

\* The invariant about alerts holds at first ...
LEMMA AlertInit == Feeds!Init => AlertInv
<1> SUFFICES ASSUME Feeds!Init PROVE AlertInv
  OBVIOUS
<1>1. FeedInv
  BY FeedInit
<1>2. AlertsAreLater
  BY DEF Feeds!Init, AlertsAreLater
<1>3. \A l \in Listeners : Pushes(l) = <<>>
  BY NothingPushedAtFirst
<1>4. OnlyWhileConnected
  BY <1>3, EmptySeq DEF OnlyWhileConnected, Feeds!OnlyWhileConnected, Pushes
<1> QED
  BY <1>1, <1>2, <1>4 DEF AlertInv

\* AlertsAreLater holds on after a step of a writer ...
LEMMA WriterKeepsLater ==
  ASSUME FeedInv, AlertsAreLater, NEW w \in Writers,
         Feeds!Change(w) \/ Feeds!CopySubs(w) \/ Feeds!Send(w) \/ Feeds!Sent(w)
  PROVE  AlertsAreLater' /\ UNCHANGED <<feed, joined>>
<1> USE DEF FeedInv
<1>1. UNCHANGED <<feed, joined, listener>>
  BY DEF Feeds!Change, Feeds!CopySubs, Feeds!Send, Feeds!Sent, Feeds!listening
<1>2. store' >= store /\ store' \in Nat /\ store \in Nat
  <2>1. store \in Nat /\ store' \in {store, store + 1}
    BY DEF Feeds!Change, Feeds!CopySubs, Feeds!Send, Feeds!Sent, FeedTypes
  <2> QED
    BY <2>1
<1>3. \A l \in Listeners : joined'[l] <= store' /\ joined[l] \in Nat
  BY <1>1, <1>2 DEF AlertsAreLater, FeedTypes
<1>4. \A v \in Writers : v # w =>
        writer'[v] = writer[v] /\ targets'[v] = targets[v] /\ message'[v] = message[v]
  BY DEF Feeds!Change, Feeds!CopySubs, Feeds!Send, Feeds!Sent, FeedTypes
<1>5. ASSUME feed = "alerts"
      PROVE  /\ writer'[w] # "copying"
             /\ \A i \in 1 .. Len(targets'[w]) : joined[targets'[w][i]] < message'[w]
  <2>1. CASE Feeds!Change(w)
    <3>1. /\ writer'[w] = "sending" /\ targets'[w] = subs /\ message'[w] = store + 1
      BY <1>5, <2>1 DEF Feeds!Change, FeedTypes
    <3>2. \A i \in 1 .. Len(subs) : joined[subs[i]] <= store /\ joined[subs[i]] \in Nat
      BY <1>3, ListedAreListeners DEF AlertsAreLater, FeedTypes
    <3> QED
      BY <1>2, <3>1, <3>2
  <2>2. CASE Feeds!CopySubs(w)
    BY <1>5, <2>2 DEF Feeds!CopySubs, AlertsAreLater
  <2>3. CASE Feeds!Send(w)
    <3>1. /\ writer'[w] = "sending" /\ targets'[w] = Tail(targets[w]) /\ message'[w] = message[w]
          /\ targets[w] # <<>> /\ targets[w] \in Seq(Listeners)
      BY <2>3 DEF Feeds!Send, FeedTypes
    <3>2. /\ Len(Tail(targets[w])) = Len(targets[w]) - 1 /\ Len(targets[w]) \in Nat \ {0}
          /\ \A i \in 1 .. Len(Tail(targets[w])) : Tail(targets[w])[i] = targets[w][i + 1]
      BY <3>1, HeadTailProperties, EmptySeq
    <3>3. \A i \in 1 .. Len(Tail(targets[w])) : i + 1 \in 1 .. Len(targets[w])
      BY <3>2
    <3> QED
      BY <1>5, <3>1, <3>2, <3>3 DEF AlertsAreLater
  <2>4. CASE Feeds!Sent(w)
    BY <1>5, <2>4 DEF Feeds!Sent, AlertsAreLater, FeedTypes
  <2> QED
    BY <2>1, <2>2, <2>3, <2>4
<1> QED
  BY <1>1, <1>3, <1>4, <1>5 DEF AlertsAreLater

\* ... and of a listener.
LEMMA ListenerKeepsLater ==
  ASSUME FeedInv, AlertsAreLater, NEW l \in Listeners,
         Feeds!Connect(l) \/ Feeds!Subscribe(l) \/ Feeds!Receive(l) \/ Feeds!Leave(l)
  PROVE  /\ AlertsAreLater' /\ UNCHANGED feed
         /\ \A k \in Listeners : joined'[k] # joined[k] => Pushes(k) = <<>>
<1> USE DEF FeedInv
<1>1. UNCHANGED <<feed, store, writer, targets, message>>
  BY DEF Feeds!Connect, Feeds!Subscribe, Feeds!Receive, Feeds!Leave, Feeds!writing
<1>2. \/ UNCHANGED joined
      \/ listener[l] = "connected" /\ joined' = [joined EXCEPT ![l] = store]
  BY DEF Feeds!Connect, Feeds!Subscribe, Feeds!Receive, Feeds!Leave
<1>3. \A k \in Listeners : joined'[k] # joined[k] => k = l /\ listener[l] = "connected"
  BY <1>2 DEF FeedTypes
<1>4. \A k \in Listeners : joined'[k] <= store'
  <2>1. \A k \in Listeners : joined'[k] \in {joined[k], store}
    BY <1>2 DEF FeedTypes
  <2>2. store \in Nat /\ \A k \in Listeners : joined[k] <= store
    BY DEF AlertsAreLater, FeedTypes
  <2> QED
    BY <1>1, <2>1, <2>2
<1>5. \A w \in Writers : \A i \in 1 .. Len(targets[w]) :
        joined'[targets[w][i]] = joined[targets[w][i]]
  BY <1>3, ListedAreListeners DEF TargetsSubscribed
<1>6. AlertsAreLater'
  BY <1>1, <1>4, <1>5 DEF AlertsAreLater
<1>7. listener[l] = "connected" => Pushes(l) = <<>>
  BY NewcomersPushNothing
<1> QED
  BY <1>1, <1>3, <1>6, <1>7

\* ... and after every step.
LEMMA AlertStep == AlertInv /\ [Feeds!Next]_(Feeds!vars) => AlertInv'
<1> SUFFICES ASSUME AlertInv, [Feeds!Next]_(Feeds!vars) PROVE AlertInv'
  OBVIOUS
<1>0. FeedInv /\ FeedInv'
  BY FeedStep DEF AlertInv
<1>1. CASE UNCHANGED Feeds!vars
  <2>1. UNCHANGED <<feed, store, channel, writer, message, targets, joined, seen, pushed>>
    BY <1>1 DEF Feeds!vars, Feeds!writing, Feeds!listening
  <2> QED
    BY <1>0, <2>1 DEF AlertInv, AlertsAreLater, OnlyWhileConnected, Feeds!OnlyWhileConnected,
                      Feeds!Pushes
<1>2. ASSUME NEW w \in Writers, Feeds!Send(w) PROVE AlertInv'
  <2>1. AlertsAreLater' /\ UNCHANGED <<feed, joined>>
    BY <1>0, <1>2, WriterKeepsLater DEF AlertInv
  <2>2. ASSUME feed = "alerts", NEW l \in Listeners, NEW i \in 1 .. Len(Pushes(l)')
        PROVE  Pushes(l)'[i] > joined[l]
    <3>1. PICK p \in Seq(Nat) : p = Pushes(l)
      BY <1>0, PushesAreNumbers
    <3>2. \A j \in 1 .. Len(p) : p[j] > joined[l]
      BY <2>2, <3>1 DEF AlertInv, OnlyWhileConnected, Feeds!OnlyWhileConnected, Pushes
    <3>3. CASE Pushes(l)' = Pushes(l)
      BY <2>2, <3>1, <3>2, <3>3
    <3>4. CASE l = Head(targets[w]) /\ Pushes(l)' = Append(Pushes(l), message[w])
      <4>1. PICK m \in Nat : m = message[w]
        BY <1>0 DEF FeedInv, FeedTypes
      <4>2. Pushes(l)' = Append(p, m)
        BY <3>1, <3>4, <4>1
      <4>3. m > joined[l]
        <5>1. targets[w] # <<>> /\ targets[w] \in Seq(Listeners)
          BY <1>0, <1>2 DEF Feeds!Send, FeedInv, FeedTypes
        <5>2. 1 \in 1 .. Len(targets[w]) /\ targets[w][1] = l
          BY <3>4, <5>1, HeadTailProperties, EmptySeq
        <5>3. joined[l] \in Nat /\ joined[l] < m
          BY <1>0, <2>2, <4>1, <5>2 DEF AlertInv, AlertsAreLater, FeedInv, FeedTypes
        <5> QED
          BY <5>3
      <4>4. /\ Len(Append(p, m)) = Len(p) + 1 /\ Len(p) \in Nat
            /\ \A j \in 1 .. Len(p) : Append(p, m)[j] = p[j]
            /\ Append(p, m)[Len(p) + 1] = m
        BY AppendProperties
      <4> QED
        BY <2>2, <3>2, <4>2, <4>3, <4>4
    <3> QED
      BY <1>0, <1>2, <3>3, <3>4, SendKeeps
  <2>3. OnlyWhileConnected'
    BY <2>1, <2>2 DEF OnlyWhileConnected, Feeds!OnlyWhileConnected, Pushes
  <2> QED
    BY <1>0, <2>1, <2>3 DEF AlertInv
<1>3. ASSUME \A l \in Listeners : Pushes(l)' = Pushes(l), UNCHANGED feed, AlertsAreLater',
             \A l \in Listeners : joined'[l] # joined[l] => Pushes(l) = <<>>
      PROVE  AlertInv'
  <2>1. ASSUME feed = "alerts", NEW l \in Listeners, NEW i \in 1 .. Len(Pushes(l))
        PROVE  Pushes(l)[i] > joined'[l]
    <3>1. Pushes(l) # <<>>
      BY <2>1
    <3>2. joined'[l] = joined[l]
      BY <1>3, <3>1
    <3> QED
      BY <2>1, <3>2 DEF AlertInv, OnlyWhileConnected, Feeds!OnlyWhileConnected, Pushes
  <2>2. OnlyWhileConnected'
    BY <1>3, <2>1 DEF OnlyWhileConnected, Feeds!OnlyWhileConnected, Pushes
  <2> QED
    BY <1>0, <1>3, <2>2 DEF AlertInv
<1>4. ASSUME NEW w \in Writers, Feeds!Change(w) \/ Feeds!CopySubs(w) \/ Feeds!Sent(w)
      PROVE  AlertInv'
  <2>1. \A l \in Listeners : Pushes(l)' = Pushes(l)
    BY <1>0, <1>4, ChangeKeeps, CopySubsKeeps
  <2>2. AlertsAreLater' /\ UNCHANGED <<feed, joined>>
    BY <1>0, <1>4, WriterKeepsLater DEF AlertInv
  <2> QED
    BY <1>3, <2>1, <2>2
<1>5. ASSUME NEW k \in Listeners,
             Feeds!Connect(k) \/ Feeds!Subscribe(k) \/ Feeds!Receive(k) \/ Feeds!Leave(k)
      PROVE  AlertInv'
  <2>1. \A l \in Listeners : Pushes(l)' = Pushes(l)
    BY <1>0, <1>5, ConnectKeeps, SubscribeKeeps, ReceiveKeeps, LeaveKeeps
  <2>2. /\ AlertsAreLater' /\ UNCHANGED feed
        /\ \A l \in Listeners : joined'[l] # joined[l] => Pushes(l) = <<>>
    BY <1>0, <1>5, ListenerKeepsLater DEF AlertInv
  <2> QED
    BY <1>3, <2>1, <2>2
<1> QED
  BY <1>1, <1>2, <1>4, <1>5 DEF Feeds!Next

\* "Only alerts posted while connected are delivered", with any number of write
\* handlers and listeners: what a listener of the notification feed is sent was
\* posted after it subscribed.
THEOREM AlertsOnlyWhileConnected == Feeds!Spec => []OnlyWhileConnected
<1>1. AlertInv => OnlyWhileConnected
  BY DEF AlertInv
<1> QED
  BY <1>1, AlertInit, AlertStep, PTL DEF Feeds!Spec

(***************************************************************************)
(* Changes                                                                 *)
(***************************************************************************)

\* The invariant about changes holds at first.
LEMMA SkipInit == Feeds!Init => SkipInv
<1> SUFFICES ASSUME Feeds!Init PROVE SkipInv
  OBVIOUS
<1>1. FeedInv
  BY FeedInit
<1>2. \A l \in Listeners : Pushes(l) = <<>>
  BY NothingPushedAtFirst
<1>3. UpToDate
  BY <1>2 DEF Feeds!Init, UpToDate
<1>4. NothingSkipped
  BY <1>2 DEF NothingSkipped, Feeds!NothingSkipped, Pushes
<1> QED
  BY <1>1, <1>3, <1>4 DEF SkipInv

\* A send ends the wait of the listener it is for, and of nobody else.
LEMMA SendEndsOneWait ==
  ASSUME FeedInv, NEW w \in Writers, Feeds!Send(w)
  PROVE  \E h \in Listeners :
           /\ h = Head(targets[w]) /\ Awaits(w, h) /\ ~Awaits(w, h)'
           /\ \A l \in Listeners : l # h => (Awaits(w, l)' <=> Awaits(w, l))
<1>1. PICK s \in Seq(Listeners) : s = targets[w]
  BY DEF FeedInv, FeedTypes
<1>2. /\ UNCHANGED <<listener, writer>> /\ writer[w] = "sending"
      /\ s # <<>> /\ targets'[w] = Tail(s) /\ Distinct(s)
  BY <1>1 DEF Feeds!Send, Feeds!listening, FeedInv, FeedTypes, TargetsSubscribed
<1>3. PICK h \in Listeners : h = Head(s)
  BY <1>2, HeadTailProperties
<1>4. /\ \A i \in 1 .. Len(Tail(s)) : Tail(s)[i] # h /\ Tail(s)[i] = s[i + 1]
      /\ \A i \in 1 .. Len(s) : s[i] # h => \E j \in 1 .. Len(Tail(s)) : Tail(s)[j] = s[i]
  BY <1>2, <1>3, TailDistinct
<1>5. Len(s) \in Nat \ {0} /\ Len(Tail(s)) = Len(s) - 1 /\ s[1] = h
  BY <1>2, <1>3, HeadTailProperties, EmptySeq
<1>6. /\ \A i \in 1 .. Len(Tail(s)) : i + 1 \in 1 .. Len(s)
      /\ 1 \in 1 .. Len(s)
  BY <1>5
<1>7. \A l \in Listeners :
        /\ Awaits(w, l) <=> \E i \in 1 .. Len(s) : s[i] = l
        /\ Awaits(w, l)' <=> \E i \in 1 .. Len(Tail(s)) : Tail(s)[i] = l
  BY <1>1, <1>2 DEF Awaits
<1>8. /\ Awaits(w, h) /\ ~Awaits(w, h)'
      /\ \A l \in Listeners : l # h => (Awaits(w, l)' <=> Awaits(w, l))
  BY <1>4, <1>5, <1>6, <1>7
<1> QED
  BY <1>1, <1>3, <1>8

\* A step that pushes nothing and changes nothing keeps everyone up to date if
\* nobody it matters to starts or stops to await a message.
LEMMA StaysUpToDate ==
  ASSUME SkipInv, UNCHANGED <<store, message, dropped>>, FeedInv',
         \A l \in Listeners : Pushes(l)' = Pushes(l),
         \A w \in Writers : writer'[w] # "idle" => writer[w] # "idle",
         \A w \in Writers, l \in Listeners :
           Pushes(l) # <<>> /\ (listener'[l] = "listening" \/ Awaits(w, l)') =>
             /\ listener[l] = "listening" \/ Awaits(w, l)
             /\ Awaits(w, l)' <=> Awaits(w, l)
  PROVE  SkipInv'
<1>1. UpToDate'
  BY DEF SkipInv, UpToDate
<1>2. NothingSkipped'
  BY DEF SkipInv, NothingSkipped, Feeds!NothingSkipped, Pushes
<1> QED
  BY <1>1, <1>2 DEF SkipInv

\* A listener's step keeps everyone up to date,
LEMMA ListenersStayUpToDate ==
  ASSUME SkipInv, NEW k \in Listeners,
         Feeds!Connect(k) \/ Feeds!Subscribe(k) \/ Feeds!Receive(k) \/ Feeds!Leave(k)
  PROVE  SkipInv'
<1>1. FeedInv' /\ \A l \in Listeners : Pushes(l)' = Pushes(l)
  BY ConnectKeeps, SubscribeKeeps, ReceiveKeeps, LeaveKeeps DEF SkipInv
<1>2. UNCHANGED <<store, message, dropped, writer, targets>>
  BY DEF Feeds!Connect, Feeds!Subscribe, Feeds!Receive, Feeds!Leave, Feeds!writing
<1>3. \A l \in Listeners :
        \/ listener'[l] = listener[l]
        \/ listener'[l] # "listening"
        \/ listener[l] = "connected"
  BY DEF Feeds!Connect, Feeds!Subscribe, Feeds!Receive, Feeds!Leave, SkipInv, FeedInv, FeedTypes
<1>4. ASSUME NEW w \in Writers, NEW l \in Listeners, Pushes(l) # <<>>,
             listener'[l] = "listening" \/ Awaits(w, l)'
      PROVE  /\ listener[l] = "listening" \/ Awaits(w, l)
             /\ Awaits(w, l)' <=> Awaits(w, l)
  <2>1. listener[l] # "connected"
    BY <1>4, NewcomersPushNothing DEF SkipInv
  <2>2. CASE listener'[l] = listener[l]
    BY <1>2, <1>4, <2>2 DEF Awaits
  <2>3. CASE listener'[l] # "listening"
    <3>1. \E i \in 1 .. Len(targets[w]) : targets[w][i] = l
      BY <1>2, <1>4, <2>3 DEF Awaits
    <3> QED
      BY <1>2, <3>1 DEF Awaits
  <2> QED
    BY <1>3, <2>1, <2>2, <2>3
<1> QED
  BY <1>1, <1>2, <1>4, StaysUpToDate

\* so do a writer's copy and the end of its sends,
LEMMA WritersStayUpToDate ==
  ASSUME SkipInv, \A v, w \in Writers : v = w,
         NEW w \in Writers, Feeds!CopySubs(w) \/ Feeds!Sent(w)
  PROVE  SkipInv'
<1>1. FeedInv /\ FeedInv' /\ \A l \in Listeners : Pushes(l)' = Pushes(l)
  BY CopySubsKeeps DEF SkipInv
<1>2. UNCHANGED <<store, message, dropped, listener, subs>>
  BY DEF Feeds!CopySubs, Feeds!Sent, Feeds!listening
<1>3. ASSUME NEW l \in Listeners PROVE Awaits(w, l)' <=> Awaits(w, l)
  <2>1. CASE Feeds!CopySubs(w)
    <3>1. writer[w] = "copying" /\ targets[w] = <<>> /\ writer'[w] = "sending" /\ targets'[w] = subs
      BY <1>1, <2>1 DEF Feeds!CopySubs, FeedInv, FeedTypes, TargetsSubscribed
    <3>2. listener[l] = "listening" <=> \E i \in 1 .. Len(subs) : subs[i] = l
      BY <1>1 DEF FeedInv, SubscribersListen
    <3> QED
      BY <1>2, <3>1, <3>2 DEF Awaits
  <2>2. CASE Feeds!Sent(w)
    <3>1. writer[w] = "sending" /\ targets[w] = <<>> /\ writer'[w] = "idle" /\ targets'[w] = <<>>
      BY <1>1, <2>2 DEF Feeds!Sent, FeedInv, FeedTypes
    <3> QED
      BY <3>1 DEF Awaits
  <2> QED
    BY <2>1, <2>2
<1>4. \A v \in Writers : v = w
  OBVIOUS
<1>5. writer[w] # "idle"
  BY DEF Feeds!CopySubs, Feeds!Sent
<1>6. \A v \in Writers : writer'[v] # "idle" => writer[v] # "idle"
  BY <1>4, <1>5
<1>7. \A v \in Writers, l \in Listeners :
        Pushes(l) # <<>> /\ (listener'[l] = "listening" \/ Awaits(v, l)') =>
          /\ listener[l] = "listening" \/ Awaits(v, l)
          /\ Awaits(v, l)' <=> Awaits(v, l)
  BY <1>2, <1>3, <1>4
<1> QED
  BY <1>1, <1>2, <1>6, <1>7, StaysUpToDate

\* a change, which all listeners now await,
LEMMA ChangeIsAwaited ==
  ASSUME SkipInv, \A v, w \in Writers : v = w, NEW w \in Writers, Feeds!Change(w)
  PROVE  SkipInv'
<1>1. FeedInv /\ FeedInv' /\ \A l \in Listeners : Pushes(l)' = Pushes(l)
  BY ChangeKeeps DEF SkipInv
<1>2. /\ UNCHANGED <<dropped, listener, subs>> /\ store' = store + 1 /\ store \in Nat
      /\ message'[w] = store + 1
      /\ writer[w] = "idle" /\ targets[w] = <<>>
      /\ \/ writer'[w] = "copying" /\ targets'[w] = <<>>
         \/ writer'[w] = "sending" /\ targets'[w] = subs
  BY <1>1 DEF Feeds!Change, Feeds!listening, FeedInv, FeedTypes, TargetsSubscribed
<1>3. ASSUME NEW l \in Listeners
      PROVE  ~Awaits(w, l) /\ (Awaits(w, l)' <=> listener[l] = "listening")
  <2>1. listener[l] = "listening" <=> \E i \in 1 .. Len(subs) : subs[i] = l
    BY <1>1 DEF FeedInv, SubscribersListen
  <2> QED
    BY <1>2, <2>1 DEF Awaits
<1>4. ASSUME NEW l \in Listeners, ~dropped[l], Pushes(l) # <<>>, listener[l] = "listening"
      PROVE  Pushes(l)[Len(Pushes(l))] = store
  BY <1>3, <1>4 DEF SkipInv, UpToDate
<1>5. UpToDate'
  <2> SUFFICES ASSUME NEW v \in Writers
               PROVE  /\ writer'[v] # "idle" => message'[v] = store'
                      /\ \A l \in Listeners :
                           ~dropped'[l] /\ Pushes(l)' # <<>>
                             /\ (listener'[l] = "listening" \/ Awaits(v, l)') =>
                               Pushes(l)'[Len(Pushes(l)')]
                                 = IF Awaits(v, l)' THEN store' - 1 ELSE store'
    BY DEF UpToDate
  <2>1. v = w
    OBVIOUS
  <2>2. store' - 1 = store
    BY <1>2
  <2> QED
    BY <1>1, <1>2, <1>3, <1>4, <2>1, <2>2
<1>6. NothingSkipped'
  BY <1>1, <1>2 DEF SkipInv, NothingSkipped, Feeds!NothingSkipped, Pushes
<1> QED
  BY <1>1, <1>5, <1>6 DEF SkipInv

\* and a send, which ends the wait of one.
LEMMA SendBringsUpToDate ==
  ASSUME SkipInv, \A v, w \in Writers : v = w, NEW w \in Writers, Feeds!Send(w)
  PROVE  SkipInv'
<1>1. FeedInv /\ FeedInv'
  BY SendKeeps DEF SkipInv
<1>2. /\ UNCHANGED <<store, message, listener, writer>> /\ writer[w] = "sending"
      /\ targets[w] # <<>> /\ targets'[w] = Tail(targets[w])
      /\ \A l \in Listeners : dropped[l] => dropped'[l]
  BY <1>1 DEF Feeds!Send, Feeds!Put, Feeds!listening, FeedInv, FeedTypes
<1>3. PICK h \in Listeners :
        /\ h = Head(targets[w]) /\ Awaits(w, h) /\ ~Awaits(w, h)'
        /\ \A l \in Listeners : l # h => (Awaits(w, l)' <=> Awaits(w, l))
  BY <1>1, SendEndsOneWait
<1>4. PICK m \in Nat : m = store /\ m = message[w]
  BY <1>1, <1>2 DEF SkipInv, UpToDate, FeedInv, FeedTypes
<1>5. PICK p \in Seq(Nat) : p = Pushes(h)
  BY <1>1, PushesAreNumbers
<1>6. /\ Append(p, m) \in Seq(Nat) /\ Len(Append(p, m)) = Len(p) + 1 /\ Len(p) \in Nat
      /\ \A j \in 1 .. Len(p) : Append(p, m)[j] = p[j]
      /\ Append(p, m)[Len(p) + 1] = m
  BY AppendProperties
<1>7. ~dropped'[h] => Pushes(h)' = Append(p, m)
  BY <1>1, <1>3, <1>4, <1>5, SendKeeps
<1>8. \A l \in Listeners : l # h => Pushes(l)' = Pushes(l)
  BY <1>1, <1>3, SendKeeps
<1>9. ~dropped[h] /\ p # <<>> => p[Len(p)] = m - 1
  BY <1>3, <1>4, <1>5 DEF SkipInv, UpToDate
<1>10. UpToDate'
  <2> SUFFICES ASSUME NEW v \in Writers
               PROVE  /\ writer'[v] # "idle" => message'[v] = store'
                      /\ \A l \in Listeners :
                           ~dropped'[l] /\ Pushes(l)' # <<>>
                             /\ (listener'[l] = "listening" \/ Awaits(v, l)') =>
                               Pushes(l)'[Len(Pushes(l)')]
                                 = IF Awaits(v, l)' THEN store' - 1 ELSE store'
    BY DEF UpToDate
  <2>1. v = w
    OBVIOUS
  <2>2. ASSUME NEW l \in Listeners, ~dropped'[l], Pushes(l)' # <<>>,
               listener'[l] = "listening" \/ Awaits(w, l)'
        PROVE  Pushes(l)'[Len(Pushes(l)')] = IF Awaits(w, l)' THEN store' - 1 ELSE store'
    <3>1. CASE l = h
      BY <1>2, <1>3, <1>4, <1>6, <1>7, <2>2, <3>1
    <3>2. CASE l # h
      BY <1>2, <1>3, <1>8, <2>2, <3>2 DEF SkipInv, UpToDate
    <3> QED
      BY <3>1, <3>2
  <2>3. writer'[w] # "idle" => message'[w] = store'
    BY <1>2 DEF SkipInv, UpToDate
  <2> QED
    BY <2>1, <2>2, <2>3
<1>11. NothingSkipped'
  <2> SUFFICES ASSUME NEW l \in Listeners, ~dropped'[l]
               PROVE  \A i \in 1 .. Len(Pushes(l)') - 1 : Pushes(l)'[i + 1] = Pushes(l)'[i] + 1
    BY DEF NothingSkipped, Feeds!NothingSkipped, Pushes
  <2>1. ~dropped[l] /\ \A i \in 1 .. Len(Pushes(l)) - 1 : Pushes(l)[i + 1] = Pushes(l)[i] + 1
    BY <1>2 DEF SkipInv, NothingSkipped, Feeds!NothingSkipped, Pushes
  <2>2. CASE l = h
    <3>1. \A i \in 1 .. Len(p) - 1 : p[i + 1] = p[i] + 1
      BY <1>5, <2>1, <2>2
    <3>2. Pushes(l)' = Append(p, m)
      BY <1>7, <2>2
    <3>3. ASSUME NEW i \in 1 .. Len(p) PROVE Append(p, m)[i + 1] = Append(p, m)[i] + 1
      <4>1. CASE i = Len(p)
        <5>1. p # <<>> /\ p[Len(p)] = m - 1
          BY <1>9, <2>1, <2>2, <3>3
        <5> QED
          BY <1>6, <4>1, <5>1
      <4>2. CASE i # Len(p)
        <5>1. i \in 1 .. Len(p) - 1 /\ i + 1 \in 1 .. Len(p)
          BY <1>6, <4>2
        <5> QED
          BY <1>6, <3>1, <5>1
      <4> QED
        BY <4>1, <4>2
    <3> QED
      BY <1>6, <3>2, <3>3
  <2>3. CASE l # h
    BY <1>8, <2>1, <2>3
  <2> QED
    BY <2>2, <2>3
<1> QED
  BY <1>1, <1>10, <1>11 DEF SkipInv

\* With one writer, the invariant about changes is kept.
LEMMA SkipStep ==
  ASSUME \A v, w \in Writers : v = w, SkipInv, [Feeds!Next]_(Feeds!vars)
  PROVE  SkipInv'
<1>1. CASE UNCHANGED Feeds!vars
  <2>1. FeedInv'
    BY FeedStep DEF SkipInv
  <2>2. UNCHANGED <<store, channel, writer, message, targets, listener, seen, pushed, dropped>>
    BY <1>1 DEF Feeds!vars, Feeds!writing, Feeds!listening
  <2>3. /\ \A l \in Listeners : Pushes(l)' = Pushes(l)
        /\ \A w \in Writers, l \in Listeners : Awaits(w, l)' <=> Awaits(w, l)
    BY <2>2 DEF Pushes, Feeds!Pushes, Awaits
  <2> QED
    BY <2>1, <2>2, <2>3, StaysUpToDate
<1> QED
  BY <1>1, ListenersStayUpToDate, WritersStayUpToDate, ChangeIsAwaited, SendBringsUpToDate
     DEF Feeds!Next

\* "Receives a Snapshot whenever metadata or art changes": with one write handler
\* at a time and any number of listeners, a subscriber whose channel never was
\* full gets every change from its first push on, once and in order.
THEOREM OneWriterSkipsNothing ==
  ASSUME \A v, w \in Writers : v = w
  PROVE  Feeds!Spec => []NothingSkipped
<1>1. SkipInv => NothingSkipped
  BY DEF SkipInv
<1>2. SkipInv /\ [Feeds!Next]_(Feeds!vars) => SkipInv'
  BY SkipStep
<1> QED
  BY <1>1, <1>2, SkipInit, PTL DEF Feeds!Spec

\* The feed's types, and with them the subscriber list: the handlers that
\* listen, each once.
THEOREM FeedsAreServed == Feeds!Spec => []FeedInv
<1>1. FeedInv /\ [Feeds!Next]_(Feeds!vars) => FeedInv'
  BY FeedStep
<1> QED
  BY <1>1, FeedInit, PTL DEF Feeds!Spec

(***************************************************************************)
(* Changes, from several write handlers at once                            *)
(***************************************************************************)

\* Change n came or will come to listener l through its channel.
WasPushed(l, n) == \E i \in 1 .. Len(Pushes(l)) : Pushes(l)[i] = n

\* No two handlers are busy with the same change.
ChangesDiffer ==
  \A w \in Writers :
    /\ message[w] <= store
    /\ \A v \in Writers :
         writer[v] # "idle" /\ writer[w] # "idle" /\ message[v] = message[w] => v = w

\* What is pushed has happened, once each, and is not what a handler has yet to
\* send to the same listener.
PushedOnce ==
  \A l \in Listeners :
    /\ Distinct(Pushes(l)) /\ \A i \in 1 .. Len(Pushes(l)) : Pushes(l)[i] <= store
    /\ \A w \in Writers : Awaits(w, l) => ~WasPushed(l, message[w])

\* Each change since a listener's subscription was pushed to it or is still to
\* be, unless its channel was full.
NothingLost ==
  \A l \in Listeners :
    listener[l] = "listening" /\ ~dropped[l] =>
      \A n \in joined[l] + 1 .. store :
        WasPushed(l, n) \/ \E w \in Writers : Awaits(w, l) /\ message[w] = n

\* The invariant with several write handlers.
OnceInv == FeedInv /\ ChangesDiffer /\ PushedOnce /\ NothingLost

\* The invariant holds at first.
LEMMA OnceInit == Feeds!Init => OnceInv
<1> SUFFICES ASSUME Feeds!Init PROVE OnceInv
  OBVIOUS
<1>1. FeedInv
  BY FeedInit
<1>2. \A l \in Listeners : Pushes(l) = <<>>
  BY NothingPushedAtFirst
<1>3. ChangesDiffer
  BY DEF Feeds!Init, ChangesDiffer
<1>4. PushedOnce
  <2>1. Len(<<>>) = 0
    OBVIOUS
  <2> QED
    BY <1>2, <2>1 DEF PushedOnce, Distinct, WasPushed
<1>5. NothingLost
  BY DEF Feeds!Init, NothingLost
<1> QED
  BY <1>1, <1>3, <1>4, <1>5 DEF OnceInv

\* Who awaits a message awaits it of a busy handler.
LEMMA AwaitedAreBusy ==
  ASSUME FeedInv, NEW w \in Writers, NEW l \in Listeners, Awaits(w, l)
  PROVE  writer[w] # "idle"
<1>1. targets[w] # <<>> => writer[w] = "sending"
  BY DEF FeedInv, TargetsSubscribed
<1>2. Len(<<>>) = 0
  OBVIOUS
<1> QED
  BY <1>1, <1>2 DEF Awaits

\* A step that pushes nothing and changes nothing keeps the invariant if those
\* who listen on go on to await what they did, and only newcomers more.
LEMMA StaysOnce ==
  ASSUME OnceInv, UNCHANGED <<store, message, dropped>>, FeedInv',
         \A l \in Listeners : Pushes(l)' = Pushes(l),
         \A w \in Writers : writer'[w] # "idle" => writer[w] # "idle",
         \A w \in Writers, l \in Listeners : Awaits(w, l)' => Awaits(w, l) \/ Pushes(l) = <<>>,
         \A l \in Listeners :
           listener'[l] = "listening" =>
             \/ joined'[l] = store
             \/ /\ listener[l] = "listening" /\ joined'[l] = joined[l]
                /\ \A w \in Writers : Awaits(w, l) => Awaits(w, l)'
  PROVE  OnceInv'
<1>1. \A l \in Listeners : \A n : WasPushed(l, n)' <=> WasPushed(l, n)
  BY DEF WasPushed
<1>2. ChangesDiffer'
  BY DEF OnceInv, ChangesDiffer
<1>3. PushedOnce'
  <2>1. \A l \in Listeners : Pushes(l) = <<>> => \A n : ~WasPushed(l, n)
    <3>1. Len(<<>>) = 0
      OBVIOUS
    <3> QED
      BY <3>1 DEF WasPushed
  <2>2. ASSUME NEW l \in Listeners, NEW w \in Writers, Awaits(w, l)'
        PROVE  ~WasPushed(l, message[w])'
    BY <1>1, <2>1, <2>2 DEF OnceInv, PushedOnce
  <2>3. ASSUME NEW l \in Listeners
        PROVE  /\ Distinct(Pushes(l)')
               /\ \A i \in 1 .. Len(Pushes(l)') : Pushes(l)'[i] <= store'
    BY DEF OnceInv, PushedOnce
  <2> QED
    BY <2>2, <2>3 DEF PushedOnce, Distinct
<1>4. NothingLost'
  <2> SUFFICES ASSUME NEW l \in Listeners, listener'[l] = "listening", ~dropped'[l],
                      NEW n \in joined'[l] + 1 .. store'
               PROVE  WasPushed(l, n)' \/ \E w \in Writers : Awaits(w, l)' /\ message'[w] = n
    BY DEF NothingLost
  <2>1. store \in Nat
    BY DEF OnceInv, FeedInv, FeedTypes
  <2>2. joined'[l] # store
    BY <2>1
  <2>3. /\ listener[l] = "listening" /\ joined'[l] = joined[l]
        /\ \A w \in Writers : Awaits(w, l) => Awaits(w, l)'
    BY <2>2
  <2>4. WasPushed(l, n) \/ \E w \in Writers : Awaits(w, l) /\ message[w] = n
    BY <2>3 DEF OnceInv, NothingLost
  <2> QED
    BY <1>1, <2>3, <2>4
<1> QED
  BY <1>2, <1>3, <1>4 DEF OnceInv

\* A listener's step keeps the invariant,
LEMMA ListenersKeepOnce ==
  ASSUME OnceInv, NEW k \in Listeners,
         Feeds!Connect(k) \/ Feeds!Subscribe(k) \/ Feeds!Receive(k) \/ Feeds!Leave(k)
  PROVE  OnceInv'
<1>1. FeedInv /\ FeedInv' /\ \A l \in Listeners : Pushes(l)' = Pushes(l)
  BY ConnectKeeps, SubscribeKeeps, ReceiveKeeps, LeaveKeeps DEF OnceInv
<1>2. UNCHANGED <<store, message, dropped, writer, targets>>
  BY DEF Feeds!Connect, Feeds!Subscribe, Feeds!Receive, Feeds!Leave, Feeds!writing
<1>3. \A l \in Listeners :
        \/ listener'[l] = listener[l] /\ joined'[l] = joined[l]
        \/ listener'[l] # "listening"
        \/ listener[l] = "connected" /\ joined'[l] = store
  BY <1>1 DEF Feeds!Connect, Feeds!Subscribe, Feeds!Receive, Feeds!Leave, FeedInv, FeedTypes
<1>4. ASSUME NEW w \in Writers, NEW l \in Listeners, Awaits(w, l)'
      PROVE  Awaits(w, l) \/ Pushes(l) = <<>>
  BY <1>1, <1>2, <1>3, <1>4, NewcomersPushNothing DEF Awaits
<1>5. ASSUME NEW l \in Listeners, listener'[l] = "listening"
      PROVE  \/ joined'[l] = store
             \/ /\ listener[l] = "listening" /\ joined'[l] = joined[l]
                /\ \A w \in Writers : Awaits(w, l) => Awaits(w, l)'
  BY <1>2, <1>3, <1>5 DEF Awaits
<1> QED
  BY <1>1, <1>2, <1>4, <1>5, StaysOnce

\* so do a writer's copy and the end of its sends,
LEMMA WritersKeepOnce ==
  ASSUME OnceInv, NEW w \in Writers, Feeds!CopySubs(w) \/ Feeds!Sent(w)
  PROVE  OnceInv'
<1>1. FeedInv /\ FeedInv' /\ \A l \in Listeners : Pushes(l)' = Pushes(l)
  BY CopySubsKeeps DEF OnceInv
<1>2. UNCHANGED <<store, message, dropped, listener, joined, subs>>
  BY DEF Feeds!CopySubs, Feeds!Sent, Feeds!listening
<1>3. \A v \in Writers : v # w => writer'[v] = writer[v] /\ targets'[v] = targets[v]
  BY <1>1 DEF Feeds!CopySubs, Feeds!Sent, FeedInv, FeedTypes
<1>4. ASSUME NEW l \in Listeners PROVE Awaits(w, l)' <=> Awaits(w, l)
  <2>1. CASE Feeds!CopySubs(w)
    <3>1. /\ writer[w] = "copying" /\ targets[w] = <<>> /\ writer'[w] = "sending"
          /\ targets'[w] = subs
      BY <1>1, <2>1 DEF Feeds!CopySubs, FeedInv, FeedTypes, TargetsSubscribed
    <3>2. listener[l] = "listening" <=> \E i \in 1 .. Len(subs) : subs[i] = l
      BY <1>1 DEF FeedInv, SubscribersListen
    <3> QED
      BY <1>2, <3>1, <3>2 DEF Awaits
  <2>2. CASE Feeds!Sent(w)
    <3>1. writer[w] = "sending" /\ targets[w] = <<>> /\ writer'[w] = "idle" /\ targets'[w] = <<>>
      BY <1>1, <2>2 DEF Feeds!Sent, FeedInv, FeedTypes
    <3> QED
      BY <3>1 DEF Awaits
  <2> QED
    BY <2>1, <2>2
<1>5. \A v \in Writers, l \in Listeners : Awaits(v, l)' <=> Awaits(v, l)
  BY <1>2, <1>3, <1>4 DEF Awaits
<1>6. writer[w] # "idle"
  BY DEF Feeds!CopySubs, Feeds!Sent
<1>7. \A v \in Writers : writer'[v] # "idle" => writer[v] # "idle"
  BY <1>3, <1>6
<1> QED
  BY <1>1, <1>2, <1>5, <1>7, StaysOnce

\* a change, which is new to everyone and which all listeners await,
LEMMA ChangeKeepsOnce ==
  ASSUME OnceInv, NEW w \in Writers, Feeds!Change(w)
  PROVE  OnceInv'
<1>1. FeedInv /\ FeedInv' /\ \A l \in Listeners : Pushes(l)' = Pushes(l)
  BY ChangeKeeps DEF OnceInv
<1>2. /\ UNCHANGED <<dropped, listener, joined, subs>> /\ store' = store + 1 /\ store \in Nat
      /\ message'[w] = store + 1 /\ writer[w] = "idle" /\ targets[w] = <<>>
      /\ \/ writer'[w] = "copying" /\ targets'[w] = <<>>
         \/ writer'[w] = "sending" /\ targets'[w] = subs
  BY <1>1 DEF Feeds!Change, Feeds!listening, FeedInv, FeedTypes, TargetsSubscribed
<1>3. \A v \in Writers :
        /\ message[v] \in Nat
        /\ v # w => /\ writer'[v] = writer[v] /\ targets'[v] = targets[v]
                    /\ message'[v] = message[v]
  BY <1>1 DEF Feeds!Change, FeedInv, FeedTypes
<1>4. ASSUME NEW l \in Listeners
      PROVE  ~Awaits(w, l) /\ (Awaits(w, l)' <=> listener[l] = "listening")
  <2>1. listener[l] = "listening" <=> \E i \in 1 .. Len(subs) : subs[i] = l
    BY <1>1 DEF FeedInv, SubscribersListen
  <2> QED
    BY <1>2, <2>1 DEF Awaits
<1>5. \A v \in Writers, l \in Listeners : v # w => (Awaits(v, l)' <=> Awaits(v, l))
  BY <1>2, <1>3 DEF Awaits
<1>6. \A l \in Listeners : \A n : WasPushed(l, n)' <=> WasPushed(l, n)
  BY <1>1 DEF WasPushed
<1>7. \A v \in Writers : message[v] <= store
  BY DEF OnceInv, ChangesDiffer
<1>8. ChangesDiffer'
  <2>1. \A v \in Writers : message'[v] <= store' /\ (v # w => message'[v] # message'[w])
    BY <1>2, <1>3, <1>7
  <2>2. ASSUME NEW u \in Writers, NEW v \in Writers, writer'[u] # "idle", writer'[v] # "idle",
               message'[u] = message'[v]
        PROVE  u = v
    <3>1. CASE u = w \/ v = w
      BY <2>1, <2>2, <3>1
    <3>2. CASE u # w /\ v # w
      BY <1>3, <2>2, <3>2 DEF OnceInv, ChangesDiffer
    <3> QED
      BY <3>1, <3>2
  <2> QED
    BY <2>1, <2>2 DEF ChangesDiffer
<1>9. PushedOnce'
  <2> SUFFICES ASSUME NEW l \in Listeners
               PROVE  /\ Distinct(Pushes(l)')
                      /\ \A i \in 1 .. Len(Pushes(l)') : Pushes(l)'[i] <= store'
                      /\ \A v \in Writers : Awaits(v, l)' => ~WasPushed(l, message[v])'
    BY DEF PushedOnce, Distinct
  <2>1. /\ Distinct(Pushes(l)) /\ \A i \in 1 .. Len(Pushes(l)) : Pushes(l)[i] <= store
        /\ \A v \in Writers : Awaits(v, l) => ~WasPushed(l, message[v])
    BY DEF OnceInv, PushedOnce
  <2>2. PICK p \in Seq(Nat) : p = Pushes(l)
    BY <1>1, PushesAreNumbers
  <2>3. \A i \in 1 .. Len(p) : p[i] \in Nat /\ p[i] <= store
    BY <2>1, <2>2, ElementOfSeq
  <2>4. \A i \in 1 .. Len(p) : p[i] <= store' /\ p[i] # store + 1
    BY <1>2, <2>3
  <2>5. ~WasPushed(l, store + 1)
    BY <2>2, <2>4 DEF WasPushed
  <2>6. ASSUME NEW v \in Writers, Awaits(v, l)' PROVE ~WasPushed(l, message[v])'
    BY <1>2, <1>3, <1>5, <1>6, <2>1, <2>5, <2>6
  <2> QED
    BY <1>1, <2>1, <2>2, <2>4, <2>6
<1>10. NothingLost'
  <2> SUFFICES ASSUME NEW l \in Listeners, listener'[l] = "listening", ~dropped'[l],
                      NEW n \in joined'[l] + 1 .. store'
               PROVE  WasPushed(l, n)' \/ \E v \in Writers : Awaits(v, l)' /\ message'[v] = n
    BY DEF NothingLost
  <2>1. CASE n = store + 1
    BY <1>2, <1>4, <2>1
  <2>2. CASE n # store + 1
    <3>1. joined[l] \in Nat
      BY <1>1 DEF FeedInv, FeedTypes
    <3>2. n \in joined[l] + 1 .. store
      BY <1>2, <2>2, <3>1
    <3>3. WasPushed(l, n) \/ \E v \in Writers : Awaits(v, l) /\ message[v] = n
      BY <1>2, <3>2 DEF OnceInv, NothingLost
    <3>4. \A v \in Writers : Awaits(v, l) => Awaits(v, l)' /\ message'[v] = message[v]
      BY <1>3, <1>4, <1>5
    <3> QED
      BY <1>6, <3>3, <3>4
  <2> QED
    BY <2>1, <2>2
<1> QED
  BY <1>1, <1>8, <1>9, <1>10 DEF OnceInv

\* and a send, which ends the wait of one.
LEMMA SendKeepsOnce ==
  ASSUME OnceInv, NEW w \in Writers, Feeds!Send(w)
  PROVE  OnceInv'
<1>1. FeedInv /\ FeedInv'
  BY SendKeeps DEF OnceInv
<1>2. UNCHANGED <<store, message, listener, joined, writer>>
  BY DEF Feeds!Send, Feeds!listening
<1>3. /\ \A l \in Listeners : dropped[l] => dropped'[l]
      /\ \A v \in Writers : v # w => targets'[v] = targets[v]
  BY <1>1 DEF Feeds!Send, Feeds!Put, FeedInv, FeedTypes
<1>4. PICK h \in Listeners :
        /\ h = Head(targets[w]) /\ Awaits(w, h) /\ ~Awaits(w, h)'
        /\ \A l \in Listeners : l # h => (Awaits(w, l)' <=> Awaits(w, l))
  BY <1>1, SendEndsOneWait
<1>5. \A v \in Writers, l \in Listeners :
        IF v = w /\ l = h THEN Awaits(v, l) /\ ~Awaits(v, l)'
        ELSE Awaits(v, l)' <=> Awaits(v, l)
  BY <1>2, <1>3, <1>4 DEF Awaits
<1>6. PICK m \in Nat : m = message[w]
  BY <1>1 DEF FeedInv, FeedTypes
<1>7. \A l \in Listeners : l # h => Pushes(l)' = Pushes(l)
  BY <1>1, <1>4, SendKeeps
<1>8. /\ Pushes(h)' = Pushes(h) \/ Pushes(h)' = Append(Pushes(h), m)
      /\ ~dropped'[h] => Pushes(h)' = Append(Pushes(h), m)
  BY <1>1, <1>4, <1>6, SendKeeps
<1>9. PICK p \in Seq(Nat) : p = Pushes(h)
  BY <1>1, PushesAreNumbers
<1>10. /\ Append(p, m) \in Seq(Nat) /\ Len(Append(p, m)) = Len(p) + 1 /\ Len(p) \in Nat
       /\ \A j \in 1 .. Len(p) : Append(p, m)[j] = p[j]
       /\ Append(p, m)[Len(p) + 1] = m
  BY AppendProperties
<1>11. ~WasPushed(h, m) /\ Distinct(p) /\ m <= store /\ \A i \in 1 .. Len(p) : p[i] <= store
  BY <1>4, <1>6, <1>9 DEF OnceInv, PushedOnce, ChangesDiffer
<1>12. \A l \in Listeners : \A n : l # h => (WasPushed(l, n)' <=> WasPushed(l, n))
  BY <1>7 DEF WasPushed
<1>13. ASSUME NEW n
       PROVE  /\ WasPushed(h, n)' => WasPushed(h, n) \/ n = m
              /\ WasPushed(h, n) => WasPushed(h, n)'
              /\ ~dropped'[h] => WasPushed(h, m)'
  <2>1. CASE Pushes(h)' = Append(p, m)
    <3>1. \A i \in 1 .. Len(p) + 1 : i = Len(p) + 1 \/ i \in 1 .. Len(p)
      BY <1>10
    <3>2. Len(p) + 1 \in 1 .. Len(p) + 1 /\ 1 .. Len(p) \subseteq 1 .. Len(p) + 1
      BY <1>10
    <3> QED
      BY <1>9, <1>10, <2>1, <3>1, <3>2 DEF WasPushed
  <2>2. CASE Pushes(h)' = Pushes(h) /\ dropped'[h]
    BY <2>2 DEF WasPushed
  <2> QED
    BY <1>8, <1>9, <2>1, <2>2
<1>14. ChangesDiffer'
  BY <1>2 DEF OnceInv, ChangesDiffer
<1>15. PushedOnce'
  <2> SUFFICES ASSUME NEW l \in Listeners
               PROVE  /\ Distinct(Pushes(l)')
                      /\ \A i \in 1 .. Len(Pushes(l)') : Pushes(l)'[i] <= store'
                      /\ \A v \in Writers : Awaits(v, l)' => ~WasPushed(l, message[v])'
    BY DEF PushedOnce, Distinct
  <2>1. CASE l # h
    BY <1>2, <1>5, <1>7, <1>12, <2>1 DEF OnceInv, PushedOnce
  <2>2. CASE l = h
    <3>1. Distinct(Append(p, m))
      <4>1. \A i \in 1 .. Len(p) : p[i] # m
        BY <1>9, <1>11 DEF WasPushed
      <4> QED
        BY <1>11, <4>1, AppendDistinct
    <3>2. Distinct(Pushes(l)') /\ \A i \in 1 .. Len(Pushes(l)') : Pushes(l)'[i] <= store'
      <4>1. \A i \in 1 .. Len(p) + 1 : Append(p, m)[i] <= store
        BY <1>10, <1>11
      <4> QED
        BY <1>2, <1>8, <1>9, <1>10, <1>11, <2>2, <3>1, <4>1
    <3>3. ASSUME NEW v \in Writers, Awaits(v, l)' PROVE ~WasPushed(l, message[v])'
      <4>1. v # w /\ Awaits(v, h)
        BY <1>5, <2>2, <3>3
      <4>2. message[v] # m
        BY <1>1, <1>4, <1>6, <4>1, AwaitedAreBusy DEF OnceInv, ChangesDiffer
      <4>3. ~WasPushed(h, message[v])
        BY <4>1 DEF OnceInv, PushedOnce
      <4> QED
        BY <1>2, <1>13, <2>2, <4>2, <4>3
    <3> QED
      BY <3>2, <3>3
  <2> QED
    BY <2>1, <2>2
<1>16. NothingLost'
  <2> SUFFICES ASSUME NEW l \in Listeners, listener'[l] = "listening", ~dropped'[l],
                      NEW n \in joined'[l] + 1 .. store'
               PROVE  WasPushed(l, n)' \/ \E v \in Writers : Awaits(v, l)' /\ message'[v] = n
    BY DEF NothingLost
  <2>1. WasPushed(l, n) \/ \E v \in Writers : Awaits(v, l) /\ message[v] = n
    BY <1>2, <1>3 DEF OnceInv, NothingLost
  <2>2. CASE WasPushed(l, n)
    BY <1>12, <1>13, <2>2
  <2>3. ASSUME NEW v \in Writers, Awaits(v, l), message[v] = n
        PROVE  WasPushed(l, n)' \/ (Awaits(v, l)' /\ message'[v] = n)
    BY <1>2, <1>5, <1>6, <1>13, <2>3
  <2> QED
    BY <2>1, <2>2, <2>3
<1> QED
  BY <1>1, <1>14, <1>15, <1>16 DEF OnceInv

\* The invariant is kept with any number of write handlers.
LEMMA OnceStep == OnceInv /\ [Feeds!Next]_(Feeds!vars) => OnceInv'
<1> SUFFICES ASSUME OnceInv, [Feeds!Next]_(Feeds!vars) PROVE OnceInv'
  OBVIOUS
<1>1. CASE UNCHANGED Feeds!vars
  <2>1. FeedInv'
    BY FeedStep DEF OnceInv
  <2>2. UNCHANGED <<store, channel, writer, message, targets, listener, joined, seen, pushed,
                    dropped>>
    BY <1>1 DEF Feeds!vars, Feeds!writing, Feeds!listening
  <2>3. /\ \A l \in Listeners : Pushes(l)' = Pushes(l)
        /\ \A w \in Writers, l \in Listeners : Awaits(w, l)' <=> Awaits(w, l)
    BY <2>2 DEF Pushes, Feeds!Pushes, Awaits
  <2> QED
    BY <2>1, <2>2, <2>3, StaysOnce
<1> QED
  BY <1>1, ListenersKeepOnce, WritersKeepOnce, ChangeKeepsOnce, SendKeepsOnce DEF Feeds!Next

\* With any number of write handlers at once, of the state stores or of the
\* notification store: nothing is pushed twice to a listener, and each change
\* made since it subscribed was pushed to it or is on its way, unless a send
\* found its channel full.  What several handlers cost is the order.
THEOREM ChangesArriveOnce ==
  Feeds!Spec => []((\A l \in Listeners : Distinct(Pushes(l))) /\ NothingLost)
<1>1. OnceInv => (\A l \in Listeners : Distinct(Pushes(l))) /\ NothingLost
  BY DEF OnceInv, PushedOnce
<1> QED
  BY <1>1, OnceInit, OnceStep, PTL DEF Feeds!Spec

(***************************************************************************)
(* Catalogs in frames                                                      *)
(***************************************************************************)

\* What \div computes.
LEMMA Division ==
  ASSUME NEW a1 \in Nat, NEW m \in Nat \ {0}
  PROVE  /\ a1 \div m \in Nat /\ m * (a1 \div m) <= a1 /\ a1 < m * (a1 \div m) + m
<1>1. a1 = m * (a1 \div m) + (a1 % m) /\ a1 % m \in 0 .. m - 1 /\ a1 \div m \in Int
  OBVIOUS
<1>2. a1 \div m >= 0
  OBVIOUS
<1> QED
  BY <1>1, <1>2

\* Multiplication is monotonic.
LEMMA Products ==
  ASSUME NEW m \in Nat, NEW x \in Int, NEW y \in Int, x <= y
  PROVE  m * x <= m * y
<1> QED
  OBVIOUS

\* The number of frames of a catalog.
FrameCount(n) == (CatalogLengths[n] + MaxFragmentPayload - 1) \div MaxFragmentPayload

\* The first k bytes of the n-th catalog.
Prefix(n, k) == [i \in 1 .. k |-> <<n, i>>]

\* The frames of a catalog hold it, the last one too short to be left out.
LEMMA FramesCover ==
  ASSUME NEW n \in HeadUnits!Catalogs
  PROVE  /\ FrameCount(n) \in Nat \ {0} /\ CatalogLengths[n] \in Nat \ {0}
         /\ FrameCount(n) * MaxFragmentPayload >= CatalogLengths[n]
         /\ \A k \in 0 .. FrameCount(n) - 1 : k * MaxFragmentPayload \in Nat /\ k * MaxFragmentPayload < CatalogLengths[n]
<1> DEFINE M == MaxFragmentPayload
           size == CatalogLengths[n]
<1>1. size \in Nat \ {0} /\ M \in Nat \ {0}
  BY RelaysAssumption DEF HeadUnits!Catalogs
<1>2. /\ FrameCount(n) \in Nat /\ M * FrameCount(n) <= size + M - 1 /\ size + M - 1 < M * FrameCount(n) + M
  <2>1. size + M - 1 \in Nat
    BY <1>1
  <2> HIDE DEF M, size
  <2>2. FrameCount(n) = (size + M - 1) \div M
    BY DEF FrameCount, M, size
  <2> QED
    BY <1>1, <2>1, <2>2, Division
<1> HIDE DEF M, size
<1>3. PICK c \in Nat : c = FrameCount(n)
  BY <1>2
<1>4. PICK p \in Int : p = M * c
  BY <1>1
<1>5. c # 0
  <2>1. ASSUME c = 0 PROVE FALSE
    <3>1. M * c = 0
      BY <1>1, <2>1
    <3> QED
      BY <1>1, <1>2, <1>3, <3>1
  <2> QED
    BY <2>1
<1>6. c * M = M * c
  BY <1>1
<1>7. c * M >= size
  BY <1>1, <1>2, <1>3, <1>4, <1>6
<1>8. ASSUME NEW k \in 0 .. c - 1 PROVE k * M \in Nat /\ k * M < size
  <2>1. k \in Nat /\ k <= c - 1 /\ k * M = M * k /\ M * k \in Nat
    BY <1>1, <1>3
  <2>2. M * k <= M * (c - 1)
    BY <1>1, <1>3, <2>1, Products
  <2>3. M * (c - 1) = M * c - M
    BY <1>1
  <2> QED
    BY <1>1, <1>2, <1>3, <1>4, <2>1, <2>2, <2>3
<1> QED
  BY <1>1, <1>3, <1>5, <1>7, <1>8 DEF M, size

\* A prefix and the bytes behind it are a longer prefix.
LEMMA PrefixGrows ==
  ASSUME NEW n, NEW x \in Nat, NEW y \in Nat, NEW z \in Nat, x <= z, z <= y
  PROVE  Prefix(n, x) \o SubSeq(Prefix(n, y), x + 1, z) = Prefix(n, z)
<1> DEFINE S == {<<n, i>> : i \in Nat}
<1>1. \A k \in Nat : /\ Prefix(n, k) \in Seq(S) /\ Len(Prefix(n, k)) = k
                     /\ \A i \in 1 .. k : Prefix(n, k)[i] = <<n, i>>
  <2> SUFFICES ASSUME NEW k \in Nat
               PROVE  /\ Prefix(n, k) \in Seq(S) /\ Len(Prefix(n, k)) = k
                      /\ \A i \in 1 .. k : Prefix(n, k)[i] = <<n, i>>
    OBVIOUS
  <2>1. \A i \in 1 .. k : <<n, i>> \in S
    OBVIOUS
  <2> HIDE DEF S
  <2>2. Prefix(n, k) \in [1 .. k -> S]
    BY <2>1 DEF Prefix
  <2>3. Prefix(n, k) \in Seq(S)
    BY <2>2
  <2>4. Len(Prefix(n, k)) = k
    BY <2>2, <2>3, LenProperties
  <2> QED
    BY <2>3, <2>4 DEF Prefix
<1> HIDE DEF S
<1>2. PICK p \in Seq(S) : p = Prefix(n, x) /\ Len(p) = x /\ \A i \in 1 .. x : p[i] = <<n, i>>
  BY <1>1
<1>3. PICK r \in Seq(S) : r = Prefix(n, y) /\ Len(r) = y /\ \A i \in 1 .. y : r[i] = <<n, i>>
  BY <1>1
<1>4. PICK t \in Seq(S) : t = Prefix(n, z) /\ Len(t) = z /\ \A i \in 1 .. z : t[i] = <<n, i>>
  BY <1>1
<1>5. PICK q : q = SubSeq(r, x + 1, z)
  OBVIOUS
<1>6. q \in Seq(S) /\ Len(q) = z - x /\ \A i \in 1 .. z - x : q[i] = r[x + i]
  BY <1>3, <1>5
<1>7. /\ p \o q \in Seq(S) /\ Len(p \o q) = z
      /\ \A i \in 1 .. z : (p \o q)[i] = IF i <= x THEN p[i] ELSE q[i - x]
  <2>1. /\ p \o q \in Seq(S) /\ Len(p \o q) = Len(p) + Len(q)
        /\ \A i \in 1 .. Len(p) + Len(q) : (p \o q)[i] = IF i <= Len(p) THEN p[i] ELSE q[i - Len(p)]
    BY <1>6, ConcatProperties
  <2>2. Len(p) = x /\ Len(p) + Len(q) = z
    BY <1>2, <1>6
  <2> QED
    BY <2>1, <2>2
<1>8. \A i \in 1 .. z : (p \o q)[i] = t[i]
  <2>1. ASSUME NEW i \in 1 .. z, i > x PROVE q[i - x] = t[i]
    <3>1. i - x \in 1 .. z - x /\ x + (i - x) = i /\ i \in 1 .. y
      BY <2>1
    <3> QED
      BY <1>3, <1>4, <1>6, <3>1
  <2>2. ASSUME NEW i \in 1 .. z, i <= x PROVE (p \o q)[i] = t[i]
    <3>1. i \in 1 .. x
      BY <2>2
    <3> QED
      BY <1>2, <1>4, <1>7, <2>2, <3>1
  <2>3. ASSUME NEW i \in 1 .. z, i > x PROVE (p \o q)[i] = t[i]
    <3>1. (p \o q)[i] = q[i - x]
      BY <1>7, <2>3
    <3> QED
      BY <2>1, <2>3, <3>1
  <2>4. \A i \in 1 .. z : i <= x \/ i > x
    OBVIOUS
  <2> QED
    BY <2>2, <2>3, <2>4, Zenon
<1>9. p \o q = t
  BY <1>4, <1>7, <1>8, SeqEqual
<1> QED
  BY <1>2, <1>3, <1>4, <1>5, <1>9

\* Head and tail of a rest of a sequence.
LEMMA FromHere ==
  ASSUME NEW S, NEW s \in Seq(S), NEW k \in 1 .. Len(s)
  PROVE  /\ SubSeq(s, k, Len(s)) # <<>> /\ Head(SubSeq(s, k, Len(s))) = s[k]
         /\ Tail(SubSeq(s, k, Len(s))) = SubSeq(s, k + 1, Len(s))
         /\ SubSeq(s, k + 1, Len(s)) = <<>> <=> k = Len(s)
<1> DEFINE x == SubSeq(s, k, Len(s))
           y == SubSeq(s, k + 1, Len(s))
<1>1. Len(s) \in Nat
  OBVIOUS
<1>2. x \in Seq(S) /\ Len(x) = Len(s) - k + 1 /\ \A i \in 1 .. Len(s) - k + 1 : x[i] = s[k + i - 1]
  OBVIOUS
<1>3. y \in Seq(S) /\ Len(y) = Len(s) - k /\ \A i \in 1 .. Len(s) - k : y[i] = s[k + i]
  OBVIOUS
<1> HIDE DEF x, y
<1>4. x # <<>>
  BY <1>1, <1>2
<1>5. Head(x) = x[1] /\ Tail(x) \in Seq(S) /\ Len(Tail(x)) = Len(x) - 1 /\ \A i \in 1 .. Len(Tail(x)) : Tail(x)[i] = x[i + 1]
  BY <1>2, <1>4, HeadTailProperties
<1>6. \A i \in 1 .. Len(s) - k : Tail(x)[i] = y[i]
  <2> TAKE i \in 1 .. Len(s) - k
  <2>1. /\ i \in 1 .. Len(Tail(x)) /\ i + 1 \in 1 .. Len(s) - k + 1 /\ k + (i + 1) - 1 = k + i
    BY <1>1, <1>2, <1>5
  <2>2. Tail(x)[i] = x[i + 1] /\ x[i + 1] = s[k + (i + 1) - 1]
    BY <1>2, <1>5, <2>1
  <2> QED
    BY <1>3, <2>1, <2>2
<1>7. Tail(x) = y
  BY <1>1, <1>2, <1>3, <1>5, <1>6, SeqEqual
<1>8. y = <<>> <=> k = Len(s)
  BY <1>1, <1>3, EmptySeq
<1>9. Head(x) = s[k]
  BY <1>1, <1>2, <1>5
<1> QED
  BY <1>4, <1>7, <1>8, <1>9 DEF x, y

(***************************************************************************)
(* The phone                                                               *)
(***************************************************************************)

\* The relay's types.
RelayTypes ==
  /\ reported \in 0 .. Len(CatalogLengths) /\ catalog \in 0 .. Len(CatalogLengths)
  /\ setting \in [Frontends -> 0 .. Len(CatalogLengths)]
  /\ handler \in {"idle", "requesting", "answering"}
  /\ answer \in 0 .. Len(CatalogLengths) /\ (handler = "answering" => answer # 0)
  /\ notifier \in {"starting", "waiting", "sending"}
  /\ catalogChannel \in Seq(HeadUnits!Catalogs)

\* The notifier has frames of catalog n left, from the j-th on; the phone has
\* taken those before it.
SendsFrom(n) ==
  \E j \in 1 .. FrameCount(n) :
    /\ frames = SubSeq(HeadUnits!BuildFrames(n), j, FrameCount(n))
    /\ j > 1 => expected = j - 1 /\ assembly = Prefix(n, (j - 1) * MaxFragmentPayload)

\* What the notifier sends is a catalog.
FramesInStep == frames # <<>> => \E n \in HeadUnits!Catalogs : SendsFrom(n)

\* The invariant about the phone.
PhoneInv == RelayTypes /\ FramesInStep /\ PhoneShowsWholeCatalogs

\* Nothing is sent before the notifier subscribes or between two catalogs, and
\* the channel holds what fits.
RelayInStep ==
  /\ catalog = reported /\ Len(catalogChannel) <= Capacity
  /\ notifier = "starting" => catalogChannel = <<>> /\ phone = <<>>
  /\ notifier # "sending" => frames = <<>>
  /\ requests \in Nat /\ (requests = 0 => handler = "idle")

\* The newest catalog is the last on the way to the phone, or what it shows; no
\* other is about to be sent.
NewestIsLast ==
  ~lossy =>
    /\ \A f \in Frontends : setting[f] \in {0, reported}
    /\ handler = "answering" => answer = reported
    /\ (\A f \in Frontends : setting[f] = 0) =>
         /\ catalogChannel # <<>> => catalogChannel[Len(catalogChannel)] = reported
         /\ catalogChannel = <<>> /\ frames # <<>> => reported # 0 /\ SendsFrom(reported)
         /\ catalogChannel = <<>> /\ frames = <<>> /\ phone # <<>> =>
              phone = HeadUnits!Bytes(reported)

\* The invariant about the newest catalog, and the same for a phone that has not
\* asked for it.
CurrentInv == PhoneInv /\ RelayInStep /\ NewestIsLast
UnaskedInv == PhoneInv /\ RelayInStep /\ (requests = 0 => NewestIsLast)

\* No frontend reports a catalog while another one's, or the answer to a
\* request, is between the cache and the notifier's channel.
UpdatesTakeTurns ==
  \A f \in Frontends :
    HeadUnits!SetCatalog(f) => handler # "answering" /\ \A g \in Frontends : setting[g] = 0

(***************************************************************************)
(* The commands                                                            *)
(***************************************************************************)

\* Frontend f is connected.
Subscribed(f) == cmdChannel[f] # HeadUnits!NotSubscribed

\* What frontend f has been sent or will be.
Stream(f) == taken[f] \o cmdChannel[f]

\* The types, and that no real channel looks like NotSubscribed.
CommandTypes ==
  /\ commands \in Nat /\ lossy \in BOOLEAN
  /\ cmdChannel \in [Frontends -> Seq(Nat)] /\ taken \in [Frontends -> Seq(Nat)]
  /\ \A f \in Frontends : Subscribed(f) => \A i \in 1 .. Len(cmdChannel[f]) : cmdChannel[f][i] # 0

\* The newest command is the last of every stream.
NewestCommandIsLast ==
  \A f \in Frontends :
    Subscribed(f) /\ ~lossy /\ Stream(f) # <<>> => Stream(f)[Len(Stream(f))] = commands

\* The invariant about commands.
CommandInv == CommandTypes /\ NewestCommandIsLast /\ CommandsInOrder

\* The k-th frame carries a catalog's bytes behind the (k - 1)-th's.
LEMMA FramesOfCatalog ==
  ASSUME NEW n \in HeadUnits!Catalogs
  PROVE  /\ \E S : HeadUnits!BuildFrames(n) \in Seq(S)
         /\ Len(HeadUnits!BuildFrames(n)) = FrameCount(n)
         /\ \A k \in 1 .. FrameCount(n) :
              LET frame == HeadUnits!BuildFrames(n)[k] IN
              /\ frame.index = k - 1 /\ frame.count = FrameCount(n)
              /\ (IF k = 1 THEN <<>> ELSE Prefix(n, (k - 1) * MaxFragmentPayload)) \o frame.payload
                   = IF k = FrameCount(n) THEN HeadUnits!Bytes(n) ELSE Prefix(n, k * MaxFragmentPayload)
<1> DEFINE M == MaxFragmentPayload
           size == CatalogLengths[n]
           F == HeadUnits!BuildFrames(n)
           end(k) == IF k * M < size THEN k * M ELSE size
           G == [k \in 1 .. FrameCount(n) |->
                   [index |-> k - 1, count |-> FrameCount(n),
                    payload |-> SubSeq(HeadUnits!Bytes(n), (k - 1) * M + 1, end(k))]]
<1>1. F = G
  BY DEF HeadUnits!BuildFrames, FrameCount
<1>2. PICK c \in Nat \ {0} : c = FrameCount(n)
  BY FramesCover
<1>3. Len(F) = c /\ \E S : F \in Seq(S)
  <2> HIDE DEF F
  <2>1. PICK S : S = {G[i] : i \in 1 .. c}
    OBVIOUS
  <2>2. G \in [1 .. c -> S]
    BY <1>2, <2>1
  <2> HIDE DEF G
  <2>3. G \in Seq(S)
    BY <2>2
  <2>4. Len(G) = c
    BY <2>2, <2>3, LenProperties
  <2> QED
    BY <1>1, <2>3, <2>4
<1>4. ASSUME NEW k \in 1 .. c
      PROVE  /\ F[k].index = k - 1 /\ F[k].count = c
             /\ F[k].payload = SubSeq(HeadUnits!Bytes(n), (k - 1) * M + 1, end(k))
  BY <1>1, <1>2
<1>5. /\ c * M >= size /\ size \in Nat \ {0}
      /\ \A k \in 0 .. c - 1 : k * M \in Nat /\ k * M < size
  BY <1>2, FramesCover
<1>6. HeadUnits!Bytes(n) = Prefix(n, size)
  BY DEF HeadUnits!Bytes, Prefix
<1>7. ASSUME NEW k \in 1 .. c
      PROVE  (IF k = 1 THEN <<>> ELSE Prefix(n, (k - 1) * M)) \o F[k].payload
               = IF k = c THEN HeadUnits!Bytes(n) ELSE Prefix(n, k * M)
  <2>1. PICK x \in Nat : x = (k - 1) * M /\ x < size
    BY <1>5
  <2>2. end(k) = IF k = c THEN size ELSE k * M
    <3>1. CASE k = c
      <4>1. c * M \in Int
        BY RelaysAssumption
      <4> QED
        BY <1>5, <3>1, <4>1
    <3>2. CASE k # c
      BY <1>5, <3>2
    <3> QED
      BY <3>1, <3>2
  <2>3. PICK z \in Nat : z = end(k) /\ x <= z /\ z <= size
    <3>1. end(k) \in Nat /\ end(k) <= size
      BY <1>5, <2>2
    <3>2. k * M = (k - 1) * M + M /\ M \in Nat \ {0} /\ k * M \in Int
      BY RelaysAssumption
    <3>3. x <= end(k)
      BY <1>5, <2>1, <2>2, <3>2
    <3> QED
      BY <3>1, <3>3
  <2>4. F[k].payload = SubSeq(Prefix(n, size), x + 1, z)
    BY <1>4, <1>6, <2>1, <2>3
  <2>5. Prefix(n, x) \o F[k].payload = Prefix(n, z)
    <3>1. Prefix(n, x) \o SubSeq(Prefix(n, size), x + 1, z) = Prefix(n, z)
      <4>1. x \in Nat /\ z \in Nat /\ size \in Nat /\ x <= z /\ z <= size
        BY <1>5, <2>3
      <4> HIDE DEF size
      <4> QED
        BY <4>1, PrefixGrows
    <3> QED
      BY <2>4, <3>1
  <2>6. Prefix(n, x) = IF k = 1 THEN <<>> ELSE Prefix(n, (k - 1) * M)
    <3>1. ASSUME k = 1 PROVE Prefix(n, x) = <<>>
      <4>1. x = 0
        BY <2>1, <3>1, RelaysAssumption
      <4> QED
        BY <4>1 DEF Prefix
    <3> QED
      BY <2>1, <3>1
  <2>7. Prefix(n, z) = IF k = c THEN HeadUnits!Bytes(n) ELSE Prefix(n, k * M)
    BY <1>6, <2>2, <2>3
  <2> QED
    BY <2>5, <2>6, <2>7
<1> QED
  BY <1>2, <1>3, <1>4, <1>7

\* A written frame brings the phone one frame further, the last one the whole
\* catalog.
LEMMA PhoneTakesFrame ==
  ASSUME NEW n \in HeadUnits!Catalogs, SendsFrom(n), HeadUnits!WriteFrame
  PROVE  \/ frames' = <<>> /\ phone' = HeadUnits!Bytes(n)
         \/ frames' # <<>> /\ SendsFrom(n)' /\ UNCHANGED phone
<1>1. PICK c \in Nat \ {0} : c = FrameCount(n)
  BY FramesCover
<1>2. PICK F : F = HeadUnits!BuildFrames(n)
  OBVIOUS
<1>3. PICK S : F \in Seq(S) /\ Len(F) = c
  BY <1>1, <1>2, FramesOfCatalog
<1>4. PICK j \in 1 .. c :
        /\ frames = SubSeq(F, j, c)
        /\ j > 1 => expected = j - 1 /\ assembly = Prefix(n, (j - 1) * MaxFragmentPayload)
  BY <1>1, <1>2 DEF SendsFrom
<1>5. /\ frames # <<>> /\ Head(frames) = F[j] /\ Tail(frames) = SubSeq(F, j + 1, c)
      /\ SubSeq(F, j + 1, c) = <<>> <=> j = c
  BY <1>3, <1>4, FromHere
<1>6. /\ F[j].index = j - 1 /\ F[j].count = c
      /\ (IF j = 1 THEN <<>> ELSE Prefix(n, (j - 1) * MaxFragmentPayload)) \o F[j].payload
           = IF j = c THEN HeadUnits!Bytes(n) ELSE Prefix(n, j * MaxFragmentPayload)
  BY <1>1, <1>2, FramesOfCatalog
<1>7. PICK frame : frame = F[j]
  OBVIOUS
<1>8. frames' = Tail(frames) /\ HeadUnits!PhoneTakes(frame)
  BY <1>5, <1>7 DEF HeadUnits!WriteFrame
<1>9. PICK got : got = (IF frame.index = 0 THEN <<>> ELSE assembly) \o frame.payload
  OBVIOUS
<1>10. got = IF j = c THEN HeadUnits!Bytes(n) ELSE Prefix(n, j * MaxFragmentPayload)
  <2>1. j = 1 <=> frame.index = 0
    BY <1>6, <1>7
  <2>2. j # 1 => assembly = Prefix(n, (j - 1) * MaxFragmentPayload)
    BY <1>4
  <2> QED
    BY <1>6, <1>7, <1>9, <2>1, <2>2
<1>11. IF frame.index + 1 = frame.count
       THEN phone' = got /\ assembly' = <<>> /\ expected' = 0
       ELSE assembly' = got /\ expected' = frame.index + 1 /\ UNCHANGED phone
  <2>1. frame.index \in {0, expected}
    BY <1>4, <1>6, <1>7
  <2> QED
    BY <1>8, <1>9, <2>1 DEF HeadUnits!PhoneTakes
<1>12. CASE j = c
  <2>1. frames' = <<>>
    BY <1>5, <1>8, <1>12
  <2>2. frame.index + 1 = frame.count
    BY <1>6, <1>7, <1>12
  <2> QED
    BY <1>10, <1>11, <1>12, <2>1, <2>2
<1>13. CASE j # c
  <2>1. frame.index + 1 # frame.count /\ frame.index + 1 = j
    BY <1>6, <1>7, <1>13
  <2>2. assembly' = Prefix(n, j * MaxFragmentPayload) /\ expected' = j /\ phone' = phone
    BY <1>10, <1>11, <1>13, <2>1
  <2>3. PICK i \in 1 .. c : i = j + 1 /\ i - 1 = j /\ i > 1
    BY <1>13
  <2>4. frames' = SubSeq(F, i, c) /\ frames' # <<>>
    BY <1>5, <1>8, <1>13, <2>3
  <2>5. expected' = i - 1 /\ assembly' = Prefix(n, (i - 1) * MaxFragmentPayload)
    BY <2>2, <2>3
  <2>6. SendsFrom(n)'
    BY <1>1, <1>2, <2>4, <2>5 DEF SendsFrom
  <2> QED
    BY <2>2, <2>4, <2>6
<1> QED
  BY <1>12, <1>13

\* A catalog just taken is sent from its first frame on.
LEMMA NewFrames ==
  ASSUME NEW n \in HeadUnits!Catalogs, frames' = HeadUnits!BuildFrames(n)
  PROVE  frames' # <<>> /\ SendsFrom(n)'
<1>1. PICK c \in Nat \ {0} : c = FrameCount(n)
  BY FramesCover
<1>2. PICK F : F = HeadUnits!BuildFrames(n)
  OBVIOUS
<1>3. PICK S : F \in Seq(S) /\ Len(F) = c
  BY <1>1, <1>2, FramesOfCatalog
<1>4. F = SubSeq(F, 1, c)
  BY <1>3, SubSeqFull
<1>5. 1 \in 1 .. c /\ ~(1 > 1)
  BY <1>1
<1>6. F # <<>>
  BY <1>3
<1> QED
  BY <1>1, <1>2, <1>4, <1>5, <1>6 DEF SendsFrom

\* A fanout to the notifier appends at most the catalog.
LEMMA FanoutKeeps ==
  ASSUME RelayTypes, NEW n \in HeadUnits!Catalogs, HeadUnits!FanoutCatalog(n)
  PROVE  /\ catalogChannel' \in Seq(HeadUnits!Catalogs)
         /\ \/ UNCHANGED catalogChannel
            \/ notifier # "starting" /\ catalogChannel' = Append(catalogChannel, n)
<1>1. \/ UNCHANGED catalogChannel
      \/ notifier # "starting" /\ catalogChannel' = Append(catalogChannel, n)
  BY Zenon DEF HeadUnits!FanoutCatalog
<1>2. catalogChannel \in Seq(HeadUnits!Catalogs)
  BY DEF RelayTypes
<1>3. Append(catalogChannel, n) \in Seq(HeadUnits!Catalogs)
  BY <1>2, AppendProperties
<1> QED
  BY <1>1, <1>2, <1>3

\* What the frontends and the command handler do about catalogs.
LEMMA CatalogsKeep ==
  ASSUME RelayTypes, HeadUnits!Next
  PROVE  /\ reported' \in 0 .. Len(CatalogLengths) /\ catalog' \in 0 .. Len(CatalogLengths)
         /\ setting' \in [Frontends -> 0 .. Len(CatalogLengths)]
<1> DEFINE N == Len(CatalogLengths)
<1>1. N \in Nat
  BY RelaysAssumption, LenProperties
<1>2. ASSUME NEW f \in Frontends, HeadUnits!SetCatalog(f)
      PROVE  reported' \in 0 .. N /\ catalog' \in 0 .. N /\ setting' \in [Frontends -> 0 .. N]
  <2>1. reported + 1 \in 0 .. N
    BY <1>1, <1>2 DEF HeadUnits!SetCatalog, RelayTypes
  <2> QED
    BY <1>2, <2>1 DEF HeadUnits!SetCatalog, RelayTypes
<1>3. ASSUME NEW f \in Frontends, HeadUnits!SetCatalogNotifies(f)
      PROVE  reported' \in 0 .. N /\ catalog' \in 0 .. N /\ setting' \in [Frontends -> 0 .. N]
  <2>1. 0 \in 0 .. N
    BY <1>1
  <2> QED
    BY <1>3, <2>1 DEF HeadUnits!SetCatalogNotifies, RelayTypes
<1>4. \/ UNCHANGED <<reported, catalog, setting>>
      \/ \E f \in Frontends : HeadUnits!SetCatalog(f) \/ HeadUnits!SetCatalogNotifies(f)
  BY DEF HeadUnits!Next, HeadUnits!FrontendConnects, HeadUnits!FrontendTakes, HeadUnits!FrontendLeaves,
         HeadUnits!HandleRequest, HeadUnits!HandleCommand, HeadUnits!Handler, HeadUnits!ReadCatalog,
         HeadUnits!AnswerRequest, HeadUnits!Notifier, HeadUnits!NotifierSubscribes,
         HeadUnits!NotifierTakes, HeadUnits!WriteFrame, HeadUnits!CatalogSent, HeadUnits!WriteFails,
         HeadUnits!frontend
<1> QED
  BY <1>2, <1>3, <1>4 DEF RelayTypes

\* The relay's types are kept.
LEMMA RelayTypesKept ==
  ASSUME RelayTypes, HeadUnits!Next
  PROVE  RelayTypes'
<1>1. /\ handler' \in {"idle", "requesting", "answering"}
      /\ answer' \in 0 .. Len(CatalogLengths) /\ (handler' = "answering" => answer' # 0)
  BY DEF RelayTypes, HeadUnits!Next, HeadUnits!FrontendConnects, HeadUnits!FrontendTakes, HeadUnits!FrontendLeaves,
         HeadUnits!HandleRequest, HeadUnits!HandleCommand, HeadUnits!Handler, HeadUnits!ReadCatalog,
         HeadUnits!AnswerRequest, HeadUnits!Notifier, HeadUnits!NotifierSubscribes,
         HeadUnits!NotifierTakes, HeadUnits!WriteFrame, HeadUnits!CatalogSent, HeadUnits!WriteFails,
         HeadUnits!SetCatalog, HeadUnits!SetCatalogNotifies, HeadUnits!command
<1>2. notifier' \in {"starting", "waiting", "sending"}
  BY DEF RelayTypes, HeadUnits!Next, HeadUnits!FrontendConnects, HeadUnits!FrontendTakes, HeadUnits!FrontendLeaves,
         HeadUnits!HandleRequest, HeadUnits!HandleCommand, HeadUnits!Handler, HeadUnits!ReadCatalog,
         HeadUnits!AnswerRequest, HeadUnits!Notifier, HeadUnits!NotifierSubscribes,
         HeadUnits!NotifierTakes, HeadUnits!WriteFrame, HeadUnits!CatalogSent, HeadUnits!WriteFails,
         HeadUnits!SetCatalog, HeadUnits!SetCatalogNotifies, HeadUnits!link
<1>3. catalogChannel' \in Seq(HeadUnits!Catalogs)
  <2>1. ASSUME NEW f \in Frontends, HeadUnits!SetCatalogNotifies(f)
        PROVE  catalogChannel' \in Seq(HeadUnits!Catalogs)
    <3>1. setting[f] \in HeadUnits!Catalogs
      BY <2>1 DEF HeadUnits!SetCatalogNotifies, RelayTypes, HeadUnits!Catalogs
    <3> QED
      BY <2>1, <3>1, FanoutKeeps DEF HeadUnits!SetCatalogNotifies
  <2>2. ASSUME HeadUnits!AnswerRequest PROVE catalogChannel' \in Seq(HeadUnits!Catalogs)
    <3>1. answer \in HeadUnits!Catalogs
      BY <2>2 DEF HeadUnits!AnswerRequest, RelayTypes, HeadUnits!Catalogs
    <3> QED
      BY <2>2, <3>1, FanoutKeeps DEF HeadUnits!AnswerRequest
  <2>3. ASSUME HeadUnits!NotifierTakes PROVE catalogChannel' \in Seq(HeadUnits!Catalogs)
    BY <2>3, HeadTailProperties DEF HeadUnits!NotifierTakes, RelayTypes
  <2>4. \/ UNCHANGED catalogChannel
        \/ HeadUnits!AnswerRequest \/ HeadUnits!NotifierTakes
        \/ \E f \in Frontends : HeadUnits!SetCatalogNotifies(f)
    BY DEF HeadUnits!Next, HeadUnits!FrontendConnects, HeadUnits!FrontendTakes, HeadUnits!FrontendLeaves,
           HeadUnits!HandleRequest, HeadUnits!HandleCommand, HeadUnits!Handler, HeadUnits!ReadCatalog,
           HeadUnits!Notifier, HeadUnits!NotifierSubscribes,
           HeadUnits!WriteFrame, HeadUnits!CatalogSent, HeadUnits!WriteFails,
           HeadUnits!SetCatalog, HeadUnits!link
  <2> QED
    BY <2>1, <2>2, <2>3, <2>4 DEF RelayTypes
<1> QED
  BY <1>1, <1>2, <1>3, CatalogsKeep DEF RelayTypes

\* The invariant about the phone holds at first ...
LEMMA PhoneInit == HeadUnits!Init => PhoneInv
<1> SUFFICES ASSUME HeadUnits!Init PROVE PhoneInv
  OBVIOUS
<1>1. Len(CatalogLengths) \in Nat
  BY RelaysAssumption, LenProperties
<1>2. RelayTypes
  BY <1>1 DEF HeadUnits!Init, RelayTypes
<1>3. FramesInStep /\ PhoneShowsWholeCatalogs
  BY DEF HeadUnits!Init, FramesInStep, PhoneShowsWholeCatalogs, HeadUnits!PhoneShowsWholeCatalogs
<1> QED
  BY <1>2, <1>3 DEF PhoneInv

\* Only the notifier changes what it sends and what the phone shows.
LEMMA OthersLeaveThePhone ==
  ASSUME HeadUnits!Next
  PROVE  \/ UNCHANGED <<frames, assembly, expected, phone>>
         \/ HeadUnits!NotifierTakes \/ HeadUnits!WriteFrame \/ HeadUnits!WriteFails
BY DEF HeadUnits!Next, HeadUnits!FrontendConnects, HeadUnits!FrontendTakes, HeadUnits!FrontendLeaves,
       HeadUnits!HandleRequest, HeadUnits!HandleCommand, HeadUnits!Handler, HeadUnits!ReadCatalog,
       HeadUnits!AnswerRequest, HeadUnits!Notifier, HeadUnits!NotifierSubscribes,
       HeadUnits!CatalogSent, HeadUnits!SetCatalog, HeadUnits!SetCatalogNotifies,
       HeadUnits!link, HeadUnits!screen

\* ... and after every step.
LEMMA PhoneStep == PhoneInv /\ [HeadUnits!Next]_(HeadUnits!vars) => PhoneInv'
<1> SUFFICES ASSUME PhoneInv, [HeadUnits!Next]_(HeadUnits!vars) PROVE PhoneInv'
  OBVIOUS
<1>1. CASE UNCHANGED HeadUnits!vars
  BY <1>1 DEF HeadUnits!vars, HeadUnits!frontend, HeadUnits!command, HeadUnits!link, HeadUnits!screen,
              PhoneInv, RelayTypes, FramesInStep, SendsFrom, PhoneShowsWholeCatalogs,
              HeadUnits!PhoneShowsWholeCatalogs
<1>2. CASE HeadUnits!Next
  <2>1. RelayTypes'
    BY <1>2, RelayTypesKept DEF PhoneInv
  <2>2. CASE UNCHANGED <<frames, assembly, expected, phone>>
    BY <2>1, <2>2 DEF PhoneInv, FramesInStep, SendsFrom, PhoneShowsWholeCatalogs,
                      HeadUnits!PhoneShowsWholeCatalogs
  <2>3. CASE HeadUnits!NotifierTakes
    <3>1. PICK n \in HeadUnits!Catalogs : n = Head(catalogChannel)
      BY <2>3, HeadTailProperties DEF HeadUnits!NotifierTakes, PhoneInv, RelayTypes
    <3>2. frames' = HeadUnits!BuildFrames(n) /\ phone' = phone
      BY <2>3, <3>1 DEF HeadUnits!NotifierTakes, HeadUnits!screen
    <3>3. FramesInStep'
      BY <3>2, NewFrames DEF FramesInStep
    <3> QED
      BY <2>1, <3>2, <3>3 DEF PhoneInv, PhoneShowsWholeCatalogs, HeadUnits!PhoneShowsWholeCatalogs
  <2>4. CASE HeadUnits!WriteFrame
    <3>1. PICK n \in HeadUnits!Catalogs : SendsFrom(n)
      BY <2>4 DEF HeadUnits!WriteFrame, PhoneInv, FramesInStep
    <3>2. \/ frames' = <<>> /\ phone' = HeadUnits!Bytes(n)
          \/ frames' # <<>> /\ SendsFrom(n)' /\ UNCHANGED phone
      BY <2>4, <3>1, PhoneTakesFrame
    <3> QED
      BY <2>1, <3>2 DEF PhoneInv, FramesInStep, PhoneShowsWholeCatalogs,
                        HeadUnits!PhoneShowsWholeCatalogs
  <2>5. CASE HeadUnits!WriteFails
    BY <2>1, <2>5 DEF HeadUnits!WriteFails, HeadUnits!screen, PhoneInv, FramesInStep,
                      PhoneShowsWholeCatalogs, HeadUnits!PhoneShowsWholeCatalogs
  <2> QED
    BY <1>2, <2>2, <2>3, <2>4, <2>5, OthersLeaveThePhone
<1> QED
  BY <1>1, <1>2

\* The phone never shows a part of a catalog or a mixture of two, for any
\* number of frontends, any catalogs and any length of a frame, whatever writes
\* fail.
THEOREM CatalogsArriveWhole == HeadUnits!Spec => []PhoneShowsWholeCatalogs
<1>1. PhoneInv => PhoneShowsWholeCatalogs
  BY DEF PhoneInv
<1> QED
  BY <1>1, PhoneInit, PhoneStep, PTL DEF HeadUnits!Spec

\* The invariant about the newest catalog holds at first.
LEMMA CurrentInit == HeadUnits!Init => CurrentInv
<1> SUFFICES ASSUME HeadUnits!Init PROVE CurrentInv
  OBVIOUS
<1>1. PhoneInv
  BY PhoneInit
<1>2. RelayInStep
  BY RelaysAssumption DEF HeadUnits!Init, RelayInStep
<1>3. NewestIsLast
  BY DEF HeadUnits!Init, NewestIsLast
<1> QED
  BY <1>1, <1>2, <1>3 DEF CurrentInv

\* The notifier's state and its channel stay in step.
LEMMA RelayInStepKept ==
  ASSUME RelayTypes, RelayInStep, HeadUnits!Next
  PROVE  RelayInStep'
<1>1. catalog' = reported'
  BY DEF RelayInStep, HeadUnits!Next, HeadUnits!FrontendConnects, HeadUnits!FrontendTakes, HeadUnits!FrontendLeaves,
         HeadUnits!HandleRequest, HeadUnits!HandleCommand, HeadUnits!Handler, HeadUnits!ReadCatalog,
         HeadUnits!AnswerRequest, HeadUnits!Notifier, HeadUnits!NotifierSubscribes,
         HeadUnits!NotifierTakes, HeadUnits!WriteFrame, HeadUnits!CatalogSent, HeadUnits!WriteFails,
         HeadUnits!SetCatalog, HeadUnits!SetCatalogNotifies
<1>2. requests' \in Nat /\ (requests' = 0 => handler' = "idle")
  BY DEF RelayInStep, HeadUnits!Next, HeadUnits!FrontendConnects, HeadUnits!FrontendTakes, HeadUnits!FrontendLeaves,
         HeadUnits!HandleRequest, HeadUnits!HandleCommand, HeadUnits!Handler, HeadUnits!ReadCatalog,
         HeadUnits!AnswerRequest, HeadUnits!Notifier, HeadUnits!NotifierSubscribes,
         HeadUnits!NotifierTakes, HeadUnits!WriteFrame, HeadUnits!CatalogSent, HeadUnits!WriteFails,
         HeadUnits!SetCatalog, HeadUnits!SetCatalogNotifies, HeadUnits!command
<1>3. \/ UNCHANGED <<catalogChannel, notifier, frames, phone>>
      \/ HeadUnits!Notifier \/ HeadUnits!WriteFails
      \/ \E n \in HeadUnits!Catalogs : HeadUnits!FanoutCatalog(n) /\ UNCHANGED <<notifier, frames, phone>>
  <2>1. ASSUME NEW f \in Frontends, HeadUnits!SetCatalogNotifies(f)
        PROVE  \E n \in HeadUnits!Catalogs : HeadUnits!FanoutCatalog(n) /\ UNCHANGED <<notifier, frames, phone>>
    BY <2>1 DEF HeadUnits!SetCatalogNotifies, HeadUnits!screen, RelayTypes, HeadUnits!Catalogs
  <2>2. ASSUME HeadUnits!AnswerRequest
        PROVE  \E n \in HeadUnits!Catalogs : HeadUnits!FanoutCatalog(n) /\ UNCHANGED <<notifier, frames, phone>>
    BY <2>2 DEF HeadUnits!AnswerRequest, HeadUnits!screen, RelayTypes, HeadUnits!Catalogs
  <2>3. \/ UNCHANGED <<catalogChannel, notifier, frames, phone>>
        \/ HeadUnits!Notifier \/ HeadUnits!WriteFails \/ HeadUnits!AnswerRequest
        \/ \E f \in Frontends : HeadUnits!SetCatalogNotifies(f)
    BY DEF HeadUnits!Next, HeadUnits!FrontendConnects, HeadUnits!FrontendTakes, HeadUnits!FrontendLeaves,
           HeadUnits!HandleRequest, HeadUnits!HandleCommand, HeadUnits!Handler, HeadUnits!ReadCatalog,
           HeadUnits!SetCatalog, HeadUnits!link, HeadUnits!screen
  <2> QED
    BY <2>1, <2>2, <2>3
<1>4. Capacity \in Nat \ {0} /\ catalogChannel \in Seq(HeadUnits!Catalogs) /\ Len(catalogChannel) \in Nat
  BY RelaysAssumption, LenProperties DEF RelayTypes
<1>5. ASSUME NEW n \in HeadUnits!Catalogs, HeadUnits!FanoutCatalog(n), UNCHANGED <<notifier, frames, phone>>
      PROVE  /\ Len(catalogChannel') <= Capacity
             /\ notifier' = "starting" => catalogChannel' = <<>> /\ phone' = <<>>
             /\ notifier' # "sending" => frames' = <<>>
  <2>1. Len(Append(catalogChannel, n)) = Len(catalogChannel) + 1
    BY <1>4, AppendProperties
  <2>2. Len(catalogChannel') <= Capacity
    <3>1. \/ catalogChannel' = catalogChannel
          \/ Len(catalogChannel) < Capacity /\ catalogChannel' = Append(catalogChannel, n)
      BY <1>5, Zenon DEF HeadUnits!FanoutCatalog
    <3> QED
      BY <1>4, <2>1, <3>1 DEF RelayInStep
  <2>3. notifier = "starting" => catalogChannel' = catalogChannel
    BY <1>5, Zenon DEF HeadUnits!FanoutCatalog
  <2> QED
    BY <1>5, <2>2, <2>3 DEF RelayInStep
<1>6. ASSUME HeadUnits!Notifier \/ HeadUnits!WriteFails
      PROVE  /\ Len(catalogChannel') <= Capacity
             /\ notifier' = "starting" => catalogChannel' = <<>> /\ phone' = <<>>
             /\ notifier' # "sending" => frames' = <<>>
  <2>1. catalogChannel # <<>> => Len(Tail(catalogChannel)) = Len(catalogChannel) - 1
    BY <1>4, HeadTailProperties
  <2>2. Len(catalogChannel') <= Capacity
    <3>1. \/ catalogChannel' = catalogChannel
          \/ catalogChannel # <<>> /\ catalogChannel' = Tail(catalogChannel)
      BY <1>6 DEF HeadUnits!Notifier, HeadUnits!NotifierSubscribes, HeadUnits!NotifierTakes,
                  HeadUnits!WriteFrame, HeadUnits!CatalogSent, HeadUnits!WriteFails
    <3> QED
      BY <1>4, <2>1, <3>1 DEF RelayInStep
  <2> QED
    BY <1>6, <2>2 DEF RelayInStep, HeadUnits!Notifier, HeadUnits!NotifierSubscribes,
       HeadUnits!NotifierTakes, HeadUnits!WriteFrame, HeadUnits!CatalogSent, HeadUnits!WriteFails
<1>7. /\ Len(catalogChannel') <= Capacity
      /\ notifier' = "starting" => catalogChannel' = <<>> /\ phone' = <<>>
      /\ notifier' # "sending" => frames' = <<>>
  <2>1. CASE UNCHANGED <<catalogChannel, notifier, frames, phone>>
    BY <2>1 DEF RelayInStep
  <2> QED
    BY <1>3, <1>5, <1>6, <2>1
<1> QED
  BY <1>1, <1>2, <1>7 DEF RelayInStep

\* The last element of a tail is that of the sequence.
LEMMA LastOfTail ==
  ASSUME NEW S, NEW s \in Seq(S), s # <<>>
  PROVE  IF Tail(s) = <<>> THEN s[Len(s)] = Head(s)
         ELSE Tail(s)[Len(Tail(s))] = s[Len(s)]
<1>1. /\ Len(s) \in Nat \ {0} /\ Head(s) = s[1] /\ Tail(s) \in Seq(S) /\ Len(Tail(s)) = Len(s) - 1
      /\ \A i \in 1 .. Len(Tail(s)) : Tail(s)[i] = s[i + 1]
  BY HeadTailProperties, EmptySeq
<1>2. CASE Tail(s) = <<>>
  <2>1. PICK t \in Seq(S) : t = Tail(s)
    BY <1>1
  <2>2. Len(t) = 0
    BY <1>2, <2>1, EmptySeq
  <2>3. Len(s) = 1
    BY <1>1, <2>1, <2>2
  <2> QED
    BY <1>1, <1>2, <2>3
<1>3. CASE Tail(s) # <<>>
  <2>1. Len(Tail(s)) \in Nat \ {0}
    BY <1>1, <1>3, EmptySeq
  <2>2. Len(Tail(s)) \in 1 .. Len(Tail(s)) /\ Len(Tail(s)) + 1 = Len(s)
    BY <1>1, <2>1
  <2> QED
    BY <1>1, <1>3, <2>2
<1> QED
  BY <1>2, <1>3

\* The newest catalog sent to the notifier is the last in its channel, unless it
\* has not begun.
LEMMA FanoutOfTheNewest ==
  ASSUME RelayTypes, RelayInStep, reported \in HeadUnits!Catalogs, ~lossy',
         HeadUnits!FanoutCatalog(reported), UNCHANGED <<reported, notifier, frames, phone>>
  PROVE  \/ catalogChannel' = <<>> /\ frames' = <<>> /\ phone' = <<>>
         \/ catalogChannel' # <<>> /\ catalogChannel'[Len(catalogChannel')] = reported'
<1>1. catalogChannel \in Seq(HeadUnits!Catalogs)
  BY DEF RelayTypes
<1>2. CASE notifier = "starting"
  BY <1>2 DEF RelayInStep, HeadUnits!FanoutCatalog
<1>3. CASE notifier # "starting"
  <2>1. Len(catalogChannel) # Capacity
    BY <1>3, Zenon DEF HeadUnits!FanoutCatalog
  <2>2. Len(catalogChannel) < Capacity
    BY <1>1, <2>1, LenProperties, RelaysAssumption DEF RelayInStep
  <2>3. catalogChannel' = Append(catalogChannel, reported)
    BY <1>3, <2>2, Zenon DEF HeadUnits!FanoutCatalog
  <2>4. PICK c \in Seq(HeadUnits!Catalogs) : c = catalogChannel'
    BY <1>1, <2>3, AppendProperties
  <2>5. c # <<>> /\ c[Len(c)] = reported
    BY <1>1, <2>3, <2>4, AppendProperties
  <2> QED
    BY <2>4, <2>5
<1> QED
  BY <1>2, <1>3

\* While updates take turns, no step puts an older catalog behind a newer one.
LEMMA NewestStaysLast ==
  ASSUME CurrentInv, HeadUnits!Next, UpdatesTakeTurns, ~lossy'
  PROVE  NewestIsLast'
<1>0. /\ RelayTypes /\ RelayInStep /\ catalogChannel \in Seq(HeadUnits!Catalogs)
  BY DEF CurrentInv, PhoneInv, RelayTypes
<1>1. ~lossy
  <2>1. lossy => lossy'
    BY Zenon DEF HeadUnits!Next, HeadUnits!FrontendConnects, HeadUnits!FrontendTakes, HeadUnits!FrontendLeaves,
           HeadUnits!HandleRequest, HeadUnits!HandleCommand, HeadUnits!Handler, HeadUnits!ReadCatalog,
           HeadUnits!AnswerRequest, HeadUnits!Notifier, HeadUnits!NotifierSubscribes,
           HeadUnits!NotifierTakes, HeadUnits!WriteFrame, HeadUnits!CatalogSent, HeadUnits!WriteFails,
           HeadUnits!SetCatalog, HeadUnits!SetCatalogNotifies, HeadUnits!FanoutCatalog
  <2> QED
    BY <2>1
<1>2. /\ \A f \in Frontends : setting[f] \in {0, reported}
      /\ handler = "answering" => answer = reported
  BY <1>1 DEF CurrentInv, NewestIsLast
<1>3. (\A f \in Frontends : setting[f] = 0) =>
        /\ catalogChannel # <<>> => catalogChannel[Len(catalogChannel)] = reported
        /\ catalogChannel = <<>> /\ frames # <<>> => reported # 0 /\ SendsFrom(reported)
        /\ catalogChannel = <<>> /\ frames = <<>> /\ phone # <<>> =>
             phone = HeadUnits!Bytes(reported)
  BY <1>1 DEF CurrentInv, NewestIsLast
<1>4. ASSUME UNCHANGED <<reported, setting, catalogChannel, frames, assembly, expected, phone>>
      PROVE  NewestIsLast'
  <2>1. handler' = "answering" => answer' = reported
    <3>1. \/ UNCHANGED <<handler, answer>>
          \/ handler' # "answering"
          \/ answer' = catalog
      BY DEF HeadUnits!Next, HeadUnits!FrontendConnects, HeadUnits!FrontendTakes,
             HeadUnits!FrontendLeaves, HeadUnits!HandleRequest, HeadUnits!HandleCommand,
             HeadUnits!Handler, HeadUnits!ReadCatalog, HeadUnits!AnswerRequest,
             HeadUnits!Notifier, HeadUnits!NotifierSubscribes, HeadUnits!NotifierTakes,
             HeadUnits!WriteFrame, HeadUnits!CatalogSent, HeadUnits!WriteFails,
             HeadUnits!SetCatalog, HeadUnits!SetCatalogNotifies, HeadUnits!command
    <3> QED
      BY <1>0, <1>2, <3>1 DEF RelayInStep
  <2> QED
    BY <1>2, <1>3, <1>4, <2>1 DEF NewestIsLast, SendsFrom
<1>5. ASSUME NEW f \in Frontends, HeadUnits!SetCatalog(f) PROVE NewestIsLast'
  <2>1. /\ reported' # 0 /\ setting'[f] = reported'
        /\ setting' = [setting EXCEPT ![f] = reported'] /\ handler' = handler
    BY <1>0, <1>5 DEF HeadUnits!SetCatalog, HeadUnits!command, RelayTypes
  <2>2. handler' # "answering" /\ \A g \in Frontends : setting[g] = 0
    BY <1>5, <2>1 DEF UpdatesTakeTurns
  <2>3. \A g \in Frontends : setting'[g] \in {0, reported'}
    BY <1>0, <2>1, <2>2 DEF RelayTypes
  <2> QED
    BY <2>1, <2>2, <2>3 DEF NewestIsLast
<1>6. ASSUME \/ \E f \in Frontends : HeadUnits!SetCatalogNotifies(f)
             \/ HeadUnits!AnswerRequest
      PROVE  NewestIsLast'
  <2>1. /\ reported # 0 /\ HeadUnits!FanoutCatalog(reported)
        /\ UNCHANGED <<reported, notifier, frames, assembly, expected, phone>>
        /\ handler' = "answering" => answer' = reported'
    BY <1>0, <1>2, <1>6 DEF HeadUnits!SetCatalogNotifies, HeadUnits!AnswerRequest,
       HeadUnits!screen, HeadUnits!command, RelayTypes
  <2>2. \A g \in Frontends : setting'[g] \in {0, reported'}
    BY <1>0, <1>2, <1>6, <2>1 DEF HeadUnits!SetCatalogNotifies, HeadUnits!AnswerRequest,
       HeadUnits!frontend, RelayTypes
  <2>3. reported \in HeadUnits!Catalogs
    BY <1>0, <2>1 DEF RelayTypes, HeadUnits!Catalogs
  <2>4. \/ catalogChannel' = <<>> /\ frames' = <<>> /\ phone' = <<>>
        \/ catalogChannel' # <<>> /\ catalogChannel'[Len(catalogChannel')] = reported'
    BY <1>0, <2>1, <2>3, FanoutOfTheNewest
  <2> QED
    BY <2>1, <2>2, <2>4 DEF NewestIsLast
<1>7. ASSUME HeadUnits!NotifierTakes PROVE NewestIsLast'
  <2>1. PICK c \in Seq(HeadUnits!Catalogs) : c = catalogChannel /\ c # <<>>
    BY <1>0, <1>7 DEF HeadUnits!NotifierTakes
  <2>2. /\ frames' = HeadUnits!BuildFrames(Head(c)) /\ catalogChannel' = Tail(c)
        /\ UNCHANGED <<reported, setting, handler, answer>>
    BY <1>7, <2>1 DEF HeadUnits!NotifierTakes, HeadUnits!frontend, HeadUnits!command
  <2>3. IF Tail(c) = <<>> THEN c[Len(c)] = Head(c) ELSE Tail(c)[Len(Tail(c))] = c[Len(c)]
    BY <2>1, LastOfTail
  <2>4. PICK n \in HeadUnits!Catalogs : n = Head(c)
    BY <2>1, HeadTailProperties
  <2>5. frames' # <<>> /\ SendsFrom(n)'
    BY <2>2, <2>4, NewFrames
  <2>6. ASSUME \A f \in Frontends : setting[f] = 0
        PROVE  /\ catalogChannel' # <<>> => catalogChannel'[Len(catalogChannel')] = reported'
               /\ catalogChannel' = <<>> => reported' # 0 /\ SendsFrom(reported)'
    <3>1. c[Len(c)] = reported
      BY <1>3, <2>1, <2>6
    <3>2. CASE Tail(c) # <<>>
      BY <2>2, <2>3, <3>1, <3>2
    <3>3. CASE Tail(c) = <<>>
      <4>1. n = reported /\ reported' = n /\ n # 0
        BY <2>2, <2>3, <2>4, <3>1, <3>3 DEF HeadUnits!Catalogs
      <4>2. SendsFrom(reported)'
        BY <2>5, <4>1 DEF SendsFrom
      <4> QED
        BY <2>2, <3>3, <4>1, <4>2
    <3> QED
      BY <3>2, <3>3
  <2> QED
    BY <1>2, <2>2, <2>5, <2>6 DEF NewestIsLast
<1>8. ASSUME HeadUnits!WriteFrame PROVE NewestIsLast'
  <2>1. frames # <<>> /\ UNCHANGED <<reported, setting, catalogChannel, handler, answer>>
    BY <1>8 DEF HeadUnits!WriteFrame, HeadUnits!frontend, HeadUnits!command
  <2>2. ASSUME \A f \in Frontends : setting[f] = 0, catalogChannel = <<>>
        PROVE  /\ frames' # <<>> => reported' # 0 /\ SendsFrom(reported)'
               /\ frames' = <<>> => phone' = HeadUnits!Bytes(reported)'
    <3>1. reported # 0 /\ SendsFrom(reported)
      BY <1>3, <2>1, <2>2
    <3>2. PICK n \in HeadUnits!Catalogs : n = reported
      BY <1>0, <3>1 DEF RelayTypes, HeadUnits!Catalogs
    <3>3. SendsFrom(n)
      BY <3>1, <3>2
    <3>4. \/ frames' = <<>> /\ phone' = HeadUnits!Bytes(n)
          \/ frames' # <<>> /\ SendsFrom(n)' /\ UNCHANGED phone
      BY <1>8, <3>3, PhoneTakesFrame
    <3>5. SendsFrom(n)' => SendsFrom(reported)'
      BY <2>1, <3>2 DEF SendsFrom
    <3>6. HeadUnits!Bytes(reported)' = HeadUnits!Bytes(n)
      BY <2>1, <3>2 DEF HeadUnits!Bytes
    <3> QED
      BY <2>1, <3>1, <3>4, <3>5, <3>6
  <2> QED
    BY <1>2, <1>3, <2>1, <2>2 DEF NewestIsLast
<1>9. \/ UNCHANGED <<reported, setting, catalogChannel, frames, assembly, expected, phone>>
      \/ HeadUnits!NotifierTakes \/ HeadUnits!WriteFrame \/ HeadUnits!WriteFails
      \/ HeadUnits!AnswerRequest
      \/ \E f \in Frontends : HeadUnits!SetCatalog(f) \/ HeadUnits!SetCatalogNotifies(f)
  BY DEF HeadUnits!Next, HeadUnits!FrontendConnects, HeadUnits!FrontendTakes,
         HeadUnits!FrontendLeaves, HeadUnits!HandleRequest, HeadUnits!HandleCommand,
         HeadUnits!Handler, HeadUnits!ReadCatalog, HeadUnits!Notifier,
         HeadUnits!NotifierSubscribes, HeadUnits!CatalogSent,
         HeadUnits!link, HeadUnits!screen, HeadUnits!frontend
<1>10. ~HeadUnits!WriteFails
  BY DEF HeadUnits!WriteFails
<1> QED
  BY <1>4, <1>5, <1>6, <1>7, <1>8, <1>9, <1>10

\* The other two parts of the invariant, which ask nothing of the updates; a
\* stuttering step leaves the third.
LEMMA RelayStep ==
  ASSUME PhoneInv, RelayInStep, [HeadUnits!Next]_(HeadUnits!vars)
  PROVE  /\ PhoneInv' /\ RelayInStep'
         /\ UNCHANGED HeadUnits!vars => requests' = requests /\ (NewestIsLast => NewestIsLast')
<1>1. PhoneInv'
  BY PhoneStep
<1>2. CASE UNCHANGED HeadUnits!vars
  <2>1. UNCHANGED <<reported, catalog, setting, handler, answer, requests, notifier, catalogChannel,
                    frames, assembly, expected, phone, lossy>>
    BY <1>2 DEF HeadUnits!vars, HeadUnits!frontend, HeadUnits!command, HeadUnits!link, HeadUnits!screen
  <2>2. RelayInStep'
    BY <2>1 DEF RelayInStep
  <2>3. NewestIsLast => NewestIsLast'
    BY <2>1 DEF NewestIsLast, SendsFrom, HeadUnits!Bytes
  <2> QED
    BY <1>1, <2>1, <2>2, <2>3
<1>3. CASE HeadUnits!Next /\ ~UNCHANGED HeadUnits!vars
  BY <1>1, <1>3, RelayInStepKept DEF PhoneInv
<1> QED
  BY <1>2, <1>3

\* While updates take turns, the invariant is kept.
LEMMA CurrentStep ==
  CurrentInv /\ [HeadUnits!Next]_(HeadUnits!vars) /\ [UpdatesTakeTurns]_(HeadUnits!vars)
    => CurrentInv'
<1> SUFFICES ASSUME CurrentInv, [HeadUnits!Next]_(HeadUnits!vars),
                    [UpdatesTakeTurns]_(HeadUnits!vars)
             PROVE  CurrentInv'
  OBVIOUS
<1>1. /\ PhoneInv' /\ RelayInStep'
      /\ UNCHANGED HeadUnits!vars => NewestIsLast'
  BY RelayStep DEF CurrentInv
<1>2. ASSUME HeadUnits!Next, UpdatesTakeTurns PROVE NewestIsLast'
  <2>1. CASE lossy'
    BY <2>1 DEF NewestIsLast
  <2>2. CASE ~lossy'
    BY <1>2, <2>2, NewestStaysLast
  <2> QED
    BY <2>1, <2>2
<1> QED
  BY <1>1, <1>2 DEF CurrentInv

\* With one frontend, updates take turns until the phone asks for the catalog.
LEMMA UnaskedStep ==
  ASSUME \A f, g \in Frontends : f = g, UnaskedInv, [HeadUnits!Next]_(HeadUnits!vars)
  PROVE  UnaskedInv'
<1>1. /\ PhoneInv' /\ RelayInStep'
      /\ UNCHANGED HeadUnits!vars => (requests' = 0 => NewestIsLast')
  BY RelayStep DEF UnaskedInv
<1>2. ASSUME HeadUnits!Next, requests' = 0 PROVE NewestIsLast'
  <2>1. requests \in Nat /\ requests' \in {requests, requests + 1}
    BY <1>2 DEF UnaskedInv, RelayInStep, HeadUnits!Next, HeadUnits!FrontendConnects,
           HeadUnits!FrontendTakes, HeadUnits!FrontendLeaves,
           HeadUnits!HandleRequest, HeadUnits!HandleCommand, HeadUnits!Handler, HeadUnits!ReadCatalog,
           HeadUnits!AnswerRequest, HeadUnits!Notifier, HeadUnits!NotifierSubscribes,
           HeadUnits!NotifierTakes, HeadUnits!WriteFrame, HeadUnits!CatalogSent, HeadUnits!WriteFails,
           HeadUnits!SetCatalog, HeadUnits!SetCatalogNotifies, HeadUnits!command
  <2>2. requests = 0
    BY <1>2, <2>1
  <2>3. CurrentInv /\ handler = "idle"
    BY <2>2 DEF UnaskedInv, CurrentInv, RelayInStep
  <2>4. UpdatesTakeTurns
    BY <2>3 DEF UpdatesTakeTurns, HeadUnits!SetCatalog
  <2>5. CASE lossy'
    BY <2>5 DEF NewestIsLast
  <2>6. CASE ~lossy'
    BY <1>2, <2>3, <2>4, <2>6, NewestStaysLast
  <2> QED
    BY <2>5, <2>6
<1> QED
  BY <1>1, <1>2 DEF UnaskedInv

\* With one frontend, a phone that has not asked for the catalog shows the
\* newest one once nothing is under way, if nothing was dropped.
THEOREM OneFrontendKeepsThePhoneCurrent ==
  ASSUME \A f, g \in Frontends : f = g
  PROVE  HeadUnits!Spec => []PhoneIsCurrentUnasked
<1>1. UnaskedInv => PhoneIsCurrentUnasked
  BY DEF UnaskedInv, RelayInStep, NewestIsLast, PhoneIsCurrentUnasked,
         HeadUnits!PhoneIsCurrentUnasked, HeadUnits!PhoneIsCurrent, HeadUnits!Quiet
<1>2. HeadUnits!Init => UnaskedInv
  BY CurrentInit DEF CurrentInv, UnaskedInv
<1>3. UnaskedInv /\ [HeadUnits!Next]_(HeadUnits!vars) => UnaskedInv'
  BY UnaskedStep
<1> QED
  BY <1>1, <1>2, <1>3, PTL DEF HeadUnits!Spec

\* "Authoritative state always comes back on the catalog characteristic", for
\* any number of frontends and of requests, if no update is reported while
\* another one or an answer is under way between the cache and the channel: an
\* overlap of these critical sections is all that lets the phone keep an old
\* catalog.
THEOREM OnlyAnOverlapLeavesThePhoneStale ==
  HeadUnits!Spec /\ [][UpdatesTakeTurns]_(HeadUnits!vars) => []HeadUnits!PhoneIsCurrent
<1>1. CurrentInv => HeadUnits!PhoneIsCurrent
  BY DEF CurrentInv, RelayInStep, NewestIsLast, HeadUnits!PhoneIsCurrent, HeadUnits!Quiet
<1> QED
  BY <1>1, CurrentInit, CurrentStep, PTL DEF HeadUnits!Spec

\* Taking a command leaves taken and channel together as they were.
LEMMA TakeCommand ==
  ASSUME NEW S, NEW t \in Seq(S), NEW c \in Seq(S), c # <<>>
  PROVE  Append(t, Head(c)) \o Tail(c) = t \o c
<1> DEFINE h == Head(c)
           y == <<h>>
           z == Tail(c)
<1>1. h \in S /\ y \in Seq(S) /\ z \in Seq(S) /\ c = y \o z
  BY HeadAndTail
<1> HIDE DEF h, z
<1>2. Append(t, h) = t \o y
  BY <1>1, AppendIsConcat
<1> HIDE DEF y
<1>3. (t \o y) \o z = t \o (y \o z)
  BY <1>1, Regroup
<1>4. Append(t, h) \o z = t \o c
  BY <1>1, <1>2, <1>3, Zenon
<1> QED
  BY <1>4 DEF h, z

\* The invariant about commands holds at first.
LEMMA CommandInit == HeadUnits!Init => CommandInv
<1> SUFFICES ASSUME HeadUnits!Init PROVE CommandInv
  OBVIOUS
<1>1. \A f \in Frontends : ~Subscribed(f)
  BY DEF HeadUnits!Init, Subscribed
<1>2. CommandTypes
  <2>1. HeadUnits!NotSubscribed \in Seq(Nat) /\ <<>> \in Seq(Nat)
    BY DEF HeadUnits!NotSubscribed
  <2>2. cmdChannel \in [Frontends -> Seq(Nat)] /\ taken \in [Frontends -> Seq(Nat)]
    BY <2>1 DEF HeadUnits!Init
  <2> QED
    BY <1>1, <2>2 DEF HeadUnits!Init, CommandTypes
<1> QED
  BY <1>1, <1>2 DEF CommandInv, NewestCommandIsLast, CommandsInOrder, HeadUnits!CommandsInOrder, Subscribed

\* What goes for frontend f when it is connected and nothing was dropped.
FrontendInOrder(f) ==
  /\ taken[f] \in Seq(Nat) /\ cmdChannel[f] \in Seq(Nat)
  /\ Subscribed(f) => \A i \in 1 .. Len(cmdChannel[f]) : cmdChannel[f][i] # 0
  /\ Subscribed(f) /\ ~lossy =>
       /\ Stream(f) # <<>> => Stream(f)[Len(Stream(f))] = commands
       /\ \A i \in 1 .. Len(Stream(f)) - 1 : Stream(f)[i + 1] = Stream(f)[i] + 1

\* The invariant is one of each frontend.
LEMMA CommandInvSplits ==
  CommandInv <=>
    /\ commands \in Nat /\ lossy \in BOOLEAN
    /\ cmdChannel = [f \in Frontends |-> cmdChannel[f]] /\ taken = [f \in Frontends |-> taken[f]]
    /\ \A f \in Frontends : FrontendInOrder(f)
<1>1. CommandsInOrder <=>
        \A f \in Frontends : Subscribed(f) /\ ~lossy =>
          \A i \in 1 .. Len(Stream(f)) - 1 : Stream(f)[i + 1] = Stream(f)[i] + 1
  BY DEF CommandsInOrder, HeadUnits!CommandsInOrder, Subscribed, Stream
<1>2. /\ cmdChannel \in [Frontends -> Seq(Nat)] <=>
           cmdChannel = [f \in Frontends |-> cmdChannel[f]]
             /\ \A f \in Frontends : cmdChannel[f] \in Seq(Nat)
      /\ taken \in [Frontends -> Seq(Nat)] <=>
           taken = [f \in Frontends |-> taken[f]]
             /\ \A f \in Frontends : taken[f] \in Seq(Nat)
  OBVIOUS
<1> QED
  BY <1>1, <1>2, Zenon DEF CommandInv, CommandTypes, NewestCommandIsLast, FrontendInOrder

\* A command relayed to f goes to the end of its stream.
LEMMA RelayKeepsOrder ==
  ASSUME CommandInv, NEW f \in Frontends, HeadUnits!Relay(commands + 1),
         lossy' = (lossy \/ HeadUnits!Refused # {}), commands' = commands + 1, UNCHANGED taken
  PROVE  FrontendInOrder(f)'
<1>1. PICK m \in Nat : m = commands + 1 /\ m # 0 /\ m - 1 = commands /\ commands' = m
  BY DEF CommandInv, CommandTypes
<1>2. PICK t \in Seq(Nat) : t = taken[f] /\ t = taken'[f]
  BY DEF CommandInv, CommandTypes
<1>3. PICK c \in Seq(Nat) : c = cmdChannel[f]
  BY DEF CommandInv, CommandTypes
<1>4. cmdChannel'[f] = IF c = HeadUnits!NotSubscribed \/ Len(c) = Capacity THEN c ELSE Append(c, m)
  BY <1>1, <1>3 DEF HeadUnits!Relay
<1>5. PICK d : d = Append(c, m)
  OBVIOUS
<1>6. /\ d \in Seq(Nat) /\ Len(d) = Len(c) + 1 /\ Len(c) \in Nat
      /\ \A i \in 1 .. Len(c) : d[i] = c[i]
      /\ d[Len(c) + 1] = m
  BY <1>5, AppendProperties
<1>7. PICK p \in Seq(Nat) : p = t \o c
  BY ConcatProperties
<1>8. t \o d = Append(p, m)
  BY <1>5, <1>7, PutInChannel
<1>9. PICK q : q = Append(p, m)
  OBVIOUS
<1>10. /\ q \in Seq(Nat) /\ Len(q) = Len(p) + 1 /\ Len(p) \in Nat
       /\ \A i \in 1 .. Len(p) : q[i] = p[i]
       /\ q[Len(p) + 1] = m
  BY <1>9, AppendProperties
<1>11. CASE c = HeadUnits!NotSubscribed
  BY <1>2, <1>3, <1>4, <1>11 DEF FrontendInOrder, Subscribed
<1>12. CASE c # HeadUnits!NotSubscribed
  <2>1. \A i \in 1 .. Len(c) : c[i] # 0
    BY <1>3, <1>12 DEF CommandInv, CommandTypes, Subscribed
  <2>2. \A i \in 1 .. Len(d) : d[i] # 0
    <3> TAKE i \in 1 .. Len(d)
    <3>1. i \in 1 .. Len(c) \/ i = Len(c) + 1
      BY <1>6
    <3> QED
      BY <1>1, <1>6, <2>1, <3>1
  <2>3. cmdChannel'[f] \in Seq(Nat) /\ \A i \in 1 .. Len(cmdChannel'[f]) : cmdChannel'[f][i] # 0
    BY <1>4, <1>5, <1>6, <2>1, <2>2
  <2>4. ASSUME ~lossy'
        PROVE  /\ Stream(f)' = q /\ q[Len(q)] = commands'
               /\ \A i \in 1 .. Len(q) - 1 : q[i + 1] = q[i] + 1
    <3>1. ~lossy /\ Len(c) # Capacity
      BY <1>3, <1>12, <2>4 DEF HeadUnits!Refused
    <3>2. cmdChannel'[f] = d
      BY <1>4, <1>5, <1>12, <3>1
    <3>3. Stream(f)' = q
      BY <1>2, <1>8, <1>9, <3>2 DEF Stream
    <3>4. Stream(f) = p /\ Subscribed(f)
      BY <1>2, <1>3, <1>7, <1>12 DEF Stream, Subscribed
    <3>5. (p # <<>> => p[Len(p)] = m - 1) /\ \A i \in 1 .. Len(p) - 1 : p[i + 1] = p[i] + 1
      BY <1>1, <3>1, <3>4 DEF CommandInv, NewestCommandIsLast, CommandsInOrder,
                              HeadUnits!CommandsInOrder, Stream, Subscribed
    <3>6. ASSUME NEW i \in 1 .. Len(q) - 1 PROVE q[i + 1] = q[i] + 1
      <4>1. CASE i = Len(p)
        <5>1. p # <<>>
          BY <1>10, <3>6, <4>1
        <5> QED
          BY <1>10, <3>5, <3>6, <4>1, <5>1
      <4>2. CASE i # Len(p)
        <5>1. i \in 1 .. Len(p) - 1 /\ i + 1 \in 1 .. Len(p) /\ i \in 1 .. Len(p)
          BY <1>10, <3>6, <4>2
        <5> QED
          BY <1>10, <3>5, <5>1
      <4> QED
        BY <4>1, <4>2
    <3> QED
      BY <1>1, <1>10, <3>3, <3>6
  <2> QED
    BY <1>2, <2>3, <2>4 DEF FrontendInOrder
<1> QED
  BY <1>11, <1>12

\* The invariant about commands is kept.
LEMMA CommandStep == CommandInv /\ [HeadUnits!Next]_(HeadUnits!vars) => CommandInv'
<1> SUFFICES ASSUME CommandInv, [HeadUnits!Next]_(HeadUnits!vars) PROVE CommandInv'
  OBVIOUS
<1>0. /\ commands \in Nat /\ lossy \in BOOLEAN
      /\ cmdChannel = [f \in Frontends |-> cmdChannel[f]] /\ taken = [f \in Frontends |-> taken[f]]
      /\ \A f \in Frontends : FrontendInOrder(f)
  BY CommandInvSplits
<1>10. ASSUME commands' \in Nat, lossy' \in BOOLEAN,
              cmdChannel' = [f \in Frontends |-> cmdChannel'[f]],
              taken' = [f \in Frontends |-> taken'[f]],
              \A f \in Frontends : FrontendInOrder(f)'
       PROVE  CommandInv'
  <2>1. CommandsInOrder'
    BY <1>10 DEF CommandsInOrder, HeadUnits!CommandsInOrder, FrontendInOrder, Subscribed, Stream
  <2>2. cmdChannel' \in [Frontends -> Seq(Nat)]
    BY <1>10 DEF FrontendInOrder
  <2>3. taken' \in [Frontends -> Seq(Nat)]
    BY <1>10 DEF FrontendInOrder
  <2> QED
    BY <1>10, <2>1, <2>2, <2>3, Zenon DEF CommandInv, CommandTypes, NewestCommandIsLast, FrontendInOrder
<1>1. ASSUME UNCHANGED <<taken, cmdChannel, commands>>, lossy => lossy', lossy' \in BOOLEAN
      PROVE  CommandInv'
  <2>1. \A f \in Frontends : FrontendInOrder(f)'
    BY <1>0, <1>1, Zenon DEF FrontendInOrder, Stream, Subscribed
  <2> QED
    BY <1>0, <1>1, <1>10, <2>1
<1>2. ASSUME HeadUnits!Relay(commands + 1), lossy' = (lossy \/ HeadUnits!Refused # {}),
             commands' = commands + 1, UNCHANGED taken
      PROVE  CommandInv'
  <2>1. \A f \in Frontends : FrontendInOrder(f)'
    BY <1>2, RelayKeepsOrder
  <2>2. cmdChannel' = [f \in Frontends |-> cmdChannel'[f]]
    BY <1>2 DEF HeadUnits!Relay
  <2>3. lossy' \in BOOLEAN
    BY <1>2
  <2> QED
    BY <1>0, <1>2, <1>10, <2>1, <2>2, <2>3
<1>3. ASSUME NEW f \in Frontends, UNCHANGED <<commands, lossy>>,
             \A g \in Frontends : g # f => cmdChannel'[g] = cmdChannel[g] /\ taken'[g] = taken[g],
             cmdChannel' = [g \in Frontends |-> cmdChannel'[g]], taken' = [g \in Frontends |-> taken'[g]],
             FrontendInOrder(f)'
      PROVE  CommandInv'
  <2>1. ASSUME NEW g \in Frontends, g # f PROVE FrontendInOrder(g)'
    <3>1. FrontendInOrder(g)
      BY <1>0
    <3>2. cmdChannel'[g] = cmdChannel[g] /\ taken'[g] = taken[g] /\ commands' = commands /\ lossy' = lossy
      BY <1>3, <2>1
    <3> QED
      BY <3>1, <3>2, Zenon DEF FrontendInOrder, Stream, Subscribed
  <2>2. \A g \in Frontends : FrontendInOrder(g)'
    BY <1>3, <2>1
  <2> QED
    BY <1>0, <1>3, <1>10, <2>2
<1>4. ASSUME NEW f \in Frontends, HeadUnits!FrontendConnects(f) PROVE CommandInv'
  <2>1. /\ cmdChannel' = [cmdChannel EXCEPT ![f] = <<>>] /\ taken' = [taken EXCEPT ![f] = <<>>]
        /\ UNCHANGED <<commands, lossy>>
    BY <1>4 DEF HeadUnits!FrontendConnects, HeadUnits!command
  <2>2. cmdChannel'[f] = <<>> /\ taken'[f] = <<>>
    BY <1>0, <2>1
  <2>3. Stream(f)' = <<>>
    BY <2>2 DEF Stream
  <2>4. FrontendInOrder(f)'
    BY <2>2, <2>3 DEF FrontendInOrder
  <2> QED
    BY <1>0, <1>3, <2>1, <2>4
<1>5. ASSUME NEW f \in Frontends, HeadUnits!FrontendLeaves(f) PROVE CommandInv'
  <2>1. /\ cmdChannel' = [cmdChannel EXCEPT ![f] = HeadUnits!NotSubscribed]
        /\ UNCHANGED <<commands, lossy, taken>>
    BY <1>5 DEF HeadUnits!FrontendLeaves, HeadUnits!command
  <2>2. ~Subscribed(f)' /\ cmdChannel'[f] \in Seq(Nat)
    <3>1. HeadUnits!NotSubscribed \in Seq(Nat)
      BY DEF HeadUnits!NotSubscribed
    <3> QED
      BY <1>0, <2>1, <3>1 DEF Subscribed
  <2>3. FrontendInOrder(f)'
    BY <1>0, <2>1, <2>2 DEF FrontendInOrder
  <2> QED
    BY <1>0, <1>3, <2>1, <2>3
<1>6. ASSUME NEW f \in Frontends, HeadUnits!FrontendTakes(f) PROVE CommandInv'
  <2>1. PICK c \in Seq(Nat) : c = cmdChannel[f] /\ c # <<>> /\ Subscribed(f)
    BY <1>0, <1>6 DEF HeadUnits!FrontendTakes, FrontendInOrder, Subscribed
  <2>2. PICK t \in Seq(Nat) : t = taken[f]
    BY <1>0 DEF FrontendInOrder
  <2>3. PICK d : d = Append(t, Head(c))
    OBVIOUS
  <2>4. /\ cmdChannel' = [cmdChannel EXCEPT ![f] = Tail(c)] /\ taken' = [taken EXCEPT ![f] = d]
        /\ UNCHANGED <<commands, lossy>>
    BY <1>6, <2>1, <2>2, <2>3 DEF HeadUnits!FrontendTakes, HeadUnits!command
  <2>5. cmdChannel'[f] = Tail(c) /\ taken'[f] = d
    BY <1>0, <2>4
  <2>6. /\ Tail(c) \in Seq(Nat) /\ Len(Tail(c)) = Len(c) - 1 /\ Len(c) \in Nat /\ Head(c) \in Nat
        /\ \A i \in 1 .. Len(Tail(c)) : Tail(c)[i] = c[i + 1]
    BY <2>1, HeadTailProperties
  <2>7. d \in Seq(Nat)
    BY <2>3, <2>6, AppendProperties
  <2>8. d \o Tail(c) = t \o c
    BY <2>1, <2>3, TakeCommand
  <2>9. Stream(f)' = Stream(f)
    BY <2>1, <2>2, <2>5, <2>8 DEF Stream
  <2>10. \A i \in 1 .. Len(Tail(c)) : Tail(c)[i] # 0
    <3>1. \A i \in 1 .. Len(Tail(c)) : i + 1 \in 1 .. Len(c)
      BY <2>6
    <3>2. \A i \in 1 .. Len(c) : c[i] # 0
      BY <1>0, <2>1 DEF FrontendInOrder
    <3> QED
      BY <2>6, <3>1, <3>2
  <2>11. FrontendInOrder(f)'
    BY <1>0, <2>1, <2>4, <2>5, <2>6, <2>7, <2>9, <2>10 DEF FrontendInOrder
  <2> QED
    BY <1>0, <1>3, <2>4, <2>11
<1>7. CASE HeadUnits!HandleRequest \/ HeadUnits!HandleCommand
  BY <1>2, <1>7 DEF HeadUnits!HandleRequest, HeadUnits!HandleCommand
<1>8. CASE UNCHANGED HeadUnits!vars
  BY <1>0, <1>1, <1>8 DEF HeadUnits!vars, HeadUnits!frontend, HeadUnits!command
<1>9. CASE \/ HeadUnits!Handler \/ HeadUnits!Notifier \/ HeadUnits!WriteFails
           \/ \E f \in Frontends : HeadUnits!SetCatalog(f) \/ HeadUnits!SetCatalogNotifies(f)
  <2>1. UNCHANGED <<taken, cmdChannel, commands>>
    BY <1>9 DEF HeadUnits!Handler, HeadUnits!ReadCatalog, HeadUnits!AnswerRequest, HeadUnits!Notifier,
       HeadUnits!NotifierSubscribes, HeadUnits!NotifierTakes, HeadUnits!WriteFrame,
       HeadUnits!CatalogSent, HeadUnits!WriteFails, HeadUnits!SetCatalog,
       HeadUnits!SetCatalogNotifies, HeadUnits!frontend, HeadUnits!command
  <2>2. lossy' = lossy \/ lossy' = TRUE \/ lossy' = (lossy \/ Len(catalogChannel) = Capacity)
    BY <1>9, Zenon DEF HeadUnits!Handler, HeadUnits!ReadCatalog, HeadUnits!AnswerRequest, HeadUnits!Notifier,
       HeadUnits!NotifierSubscribes, HeadUnits!NotifierTakes, HeadUnits!WriteFrame,
       HeadUnits!CatalogSent, HeadUnits!WriteFails, HeadUnits!SetCatalog,
       HeadUnits!SetCatalogNotifies, HeadUnits!FanoutCatalog
  <2> QED
    BY <1>0, <1>1, <2>1, <2>2
<1> QED
  BY <1>4, <1>5, <1>6, <1>7, <1>8, <1>9 DEF HeadUnits!Next

\* A connected frontend gets the phone's commands once and in order, for any
\* number of frontends and commands, unless something was dropped.
THEOREM FrontendsGetCommandsInOrder == HeadUnits!Spec => []CommandsInOrder
<1>1. CommandInv => CommandsInOrder
  BY DEF CommandInv
<1> QED
  BY <1>1, CommandInit, CommandStep, PTL DEF HeadUnits!Spec

(***************************************************************************)
(* MCCompanion                                                             *)
(***************************************************************************)

\* In MCCompanion's behaviours, which its run checks, every part behaves as its
\* own specification says, so that the theorems about the parts hold of them.
THEOREM PartsAreInstances ==
  MCSpec => Spec /\ Maps!Spec /\ Feeds!Spec /\ HeadUnits!Spec
<1>1. MCInit => Init /\ Maps!Init /\ Feeds!Init /\ HeadUnits!Init
  BY DEF MCInit
<1> DEFINE step == [MusicNext \/ MapsNext \/ FeedsNext \/ RelayNext]_<<part, vars, maps, feeds, relay>>
<1>2. step => [Next]_vars
  BY DEF MusicNext, MapsNext, FeedsNext, RelayNext
<1>3. step => [Maps!Next]_(Maps!vars)
  BY DEF MusicNext, MapsNext, FeedsNext, RelayNext, maps, Maps!vars
<1>4. step => [Feeds!Next]_(Feeds!vars)
  BY DEF MusicNext, MapsNext, FeedsNext, RelayNext, feeds, Feeds!vars, Feeds!writing, Feeds!listening
<1>5. step => [HeadUnits!Next]_(HeadUnits!vars)
  BY DEF MusicNext, MapsNext, FeedsNext, RelayNext, relay, HeadUnits!vars, HeadUnits!frontend,
         HeadUnits!command, HeadUnits!link, HeadUnits!screen
<1> QED
  BY <1>1, <1>2, <1>3, <1>4, <1>5, PTL
     DEF MCSpec, Spec, Maps!Spec, Feeds!Spec, HeadUnits!Spec

=============================================================================
