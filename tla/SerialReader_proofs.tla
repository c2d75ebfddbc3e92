------------------------ MODULE SerialReader_proofs ------------------------
(***************************************************************************)
(* Two arguments, for any number of callers, calls and Start/Stop cycles,  *)
(* any room in the channel and any reads of the port.                      *)
(*                                                                         *)
(* Stop: as long as no Start has replaced the Once and the done channel    *)
(* under a caller, whoever is inside Stop works on the current channel,    *)
(* and the Once lets one of them close it (StopInv).  With such a Start    *)
(* it is false: StopIsSafe.                                                *)
(*                                                                         *)
(* The port's bytes: while nobody stops the reader, those that the session *)
(* was given, those in the channel and those the goroutine has still to    *)
(* pass on follow one another without a gap (LossInv).  Bytes of earlier   *)
(* ports come between them only if a goroutine was still there when its    *)
(* successor was started (OwnOnly).                                        *)
(***************************************************************************)
EXTENDS SerialReader, SequenceTheorems, TLAPS

StopTypes ==
  /\ owner \in {"idle", "draining", "running", "stopped", "crashed"}
  /\ cycle \in Nat
  /\ once \in {"fresh", "busy", "used"}
  /\ caller \in [Callers -> {"out", "entering", "closing"}]
  /\ grabbed \in [Callers -> Nat]

\* The done channel is this cycle's, and no later one is closed.
DoneIsCurrent == done = cycle /\ closed \subseteq 0 .. cycle

\* Whoever is inside Stop works on the current done channel.
InsideIsCurrent == \A c \in Callers : caller[c] # "out" => grabbed[c] = done

\* The Once lets one caller in, and until it is used the channel is open.
OneCloses ==
  /\ \A c \in Callers : caller[c] = "closing" => once = "busy"
  /\ \A c, d \in Callers : caller[c] = "closing" /\ caller[d] = "closing" => c = d
  /\ once \in {"fresh", "busy"} => done \notin closed

\* The session does not call Start and Stop at once.
OwnerIsOne == owner \in {"idle", "draining"} => caller[Owner] = "out"

StopInv ==
  ~overlap =>
    /\ StopTypes /\ DoneIsCurrent /\ InsideIsCurrent /\ OneCloses /\ OwnerIsOne
    /\ StopIsSafe

\* Before the first Start nobody is inside Stop and no channel is closed.
LEMMA StopInit == Init => StopInv
<1> SUFFICES ASSUME Init PROVE StopInv
  OBVIOUS
<1>1. StopTypes
  BY DEF Init, StopTypes
<1>2. DoneIsCurrent
  BY DEF Init, DoneIsCurrent
<1>3. InsideIsCurrent /\ OneCloses
  BY DEF Init, InsideIsCurrent, OneCloses
<1>4. OwnerIsOne /\ StopIsSafe
  BY DEF Init, OwnerIsOne, StopIsSafe, Callers
<1> QED
  BY <1>1, <1>2, <1>3, <1>4 DEF StopInv

\* What has overlapped stays so.
LEMMA OverlapStays == [Next]_vars /\ overlap => overlap'
<1> SUFFICES ASSUME [Next]_vars, overlap PROVE overlap'
  OBVIOUS
<1>1. CASE Arm
  BY <1>1 DEF Arm
<1>2. CASE StartCalled \/ Drain \/ ReadByte
  BY <1>2 DEF StartCalled, Drain, ReadByte, history
<1>3. CASE \E c \in Callers : StopCalled(c) \/ StopEnters(c) \/ StopCloses(c)
  BY <1>3 DEF StopCalled, StopEnters, StopCloses, history
<1>4. CASE \E n \in Cycles : Goroutine(n)
  BY <1>4 DEF Goroutine, CheckDone, PortDelivers, PortFails, Push, PushStops, Pushed, history
<1>5. CASE UNCHANGED vars
  BY <1>5 DEF vars, history
<1> QED
  BY <1>1, <1>2, <1>3, <1>4, <1>5 DEF Next

\* Every step of Start, Read, Stop and the goroutine: only the caller that the
\* Once let in closes, and only the channel that is current.
LEMMA StopStep == StopInv /\ [Next]_vars => StopInv'
<1> SUFFICES ASSUME StopInv, [Next]_vars, ~overlap, ~overlap' PROVE StopInv'
  BY OverlapStays DEF StopInv
<1> USE DEF StopInv, StopTypes, DoneIsCurrent, InsideIsCurrent, OneCloses,
            OwnerIsOne, StopIsSafe
<1>0. Owner \in Callers /\ Callers = {Owner} \cup Stoppers
  BY DEF Callers
<1>1. CASE StartCalled
  BY <1>0, <1>1 DEF StartCalled, signal, stop
<1>2. CASE Drain \/ ReadByte
  BY <1>2 DEF Drain, ReadByte, session, signal, stop
<1>3. CASE Arm
  <2>1. \A c \in Callers : caller[c] = "out"
    BY <1>3 DEF Arm
  <2>2. /\ owner' = "running" /\ cycle' = cycle + 1 /\ done' = cycle + 1
        /\ once' = "fresh" /\ UNCHANGED <<closed, caller, grabbed>>
    BY <1>3 DEF Arm
  <2>3. done' \notin closed'
    BY <2>2
  <2> QED
    BY <2>1, <2>2, <2>3
<1>4. ASSUME NEW c \in Callers, StopCalled(c) PROVE StopInv'
  <2>1. /\ caller[c] = "out" /\ caller' = [caller EXCEPT ![c] = "entering"]
        /\ grabbed' = [grabbed EXCEPT ![c] = done]
        /\ owner' = IF c = Owner THEN "stopped" ELSE owner
        /\ owner # "crashed"
        /\ UNCHANGED <<cycle, done, once, closed>>
    BY <1>4 DEF StopCalled, signal
  <2>2. done \in Nat
    OBVIOUS
  <2> QED
    BY <1>0, <2>1, <2>2
<1>5. ASSUME NEW c \in Callers, StopEnters(c) PROVE StopInv'
  <2>1. CASE once = "fresh"
    <3>1. \A d \in Callers : caller[d] # "closing"
      BY <2>1
    <3>2. /\ caller[c] = "entering" /\ once' = "busy"
          /\ caller' = [caller EXCEPT ![c] = "closing"]
          /\ UNCHANGED <<owner, cycle, done, closed, grabbed>>
      BY <1>5, <2>1 DEF StopEnters, session
    <3> QED
      BY <1>0, <2>1, <3>1, <3>2
  <2>2. CASE once = "used"
    <3>1. /\ caller' = [caller EXCEPT ![c] = "out"]
          /\ UNCHANGED <<owner, cycle, done, once, closed, grabbed>>
      BY <1>5, <2>2 DEF StopEnters, session
    <3> QED
      BY <1>0, <2>2, <3>1
  <2> QED
    BY <1>5, <2>1, <2>2 DEF StopEnters
<1>6. ASSUME NEW c \in Callers, StopCloses(c) PROVE StopInv'
  <2>1. caller[c] = "closing" /\ once = "busy" /\ grabbed[c] = done /\ done \notin closed
    BY <1>6 DEF StopCloses
  <2>2. /\ caller' = [caller EXCEPT ![c] = "out"]
        /\ closed' = closed \cup {done} /\ once' = "used"
        /\ UNCHANGED <<owner, cycle, done, grabbed>>
    BY <1>6, <2>1 DEF StopCloses
  <2>3. \A d \in Callers : caller'[d] # "closing"
    BY <2>1, <2>2
  <2>4. closed' \subseteq 0 .. cycle'
    BY <2>2
  <2> QED
    BY <1>0, <2>2, <2>3, <2>4
<1>7. ASSUME NEW n \in Cycles, Goroutine(n) PROVE StopInv'
  <2>1. UNCHANGED <<session, signal, stop>>
    BY <1>7 DEF Goroutine, CheckDone, PortDelivers, PortFails, Push, PushStops, Pushed
  <2> QED
    BY <2>1 DEF session, signal, stop
<1>8. CASE UNCHANGED vars
  BY <1>8 DEF vars, session, signal, stop
<1> QED
  BY <1>1, <1>2, <1>3, <1>4, <1>5, <1>6, <1>7, <1>8 DEF Next

\* "Safe to call multiple times": whatever the number of goroutines that call
\* Stop, of their calls and of cycles, no channel is closed twice and no Once
\* left that was not entered, unless a Start has found a caller inside Stop.
THEOREM StopsAreSafeApart == Spec => []StopIsSafeApart
<1>1. StopInv => StopIsSafeApart
  BY DEF StopInv, StopIsSafe, StopIsSafeApart
<1> QED
  BY <1>1, StopInit, StopStep, PTL DEF Spec

(***************************************************************************)
(* No byte is lost                                                         *)
(***************************************************************************)

\* A byte is its port's number and its ordinal.
Bytes == Nat \X Nat

ByteTypes ==
  /\ owner \in {"idle", "draining", "running", "stopped", "crashed"}
  /\ cycle \in Nat
  /\ channel \in Seq(Bytes) /\ received \in Seq(Nat \X Bytes)
  /\ goroutine \in [Cycles -> {"none", "checking", "reading", "pushing", "exited"}]
  /\ pending \in [Cycles -> Seq(Bytes)] /\ produced \in [Cycles -> Nat]

\* There is another cycle for a Start under way, and a running one has begun.
CycleFits ==
  /\ cycle <= MaxCycles
  /\ owner = "draining" => cycle < MaxCycles
  /\ owner = "running" => cycle \in Cycles

\* A goroutine pushes its own port's bytes only.
PendingIsOwn == \A n \in Cycles : \A i \in 1 .. Len(pending[n]) : pending[n][i][1] = n

\* Nothing of a port that is still to come is anywhere.
NoByteIsEarly ==
  /\ \A i \in 1 .. Len(channel) : channel[i][1] <= cycle
  /\ \A i \in 1 .. Len(Returned) : Returned[i][1] <= cycle
  /\ \A n \in Cycles : n > cycle =>
       goroutine[n] \in {"none", "exited"} /\ pending[n] = <<>> /\ produced[n] = 0

\* A goroutine reads again only when it has pushed what it had.
ReadsWhenPushed ==
  \A n \in Cycles : goroutine[n] \in {"checking", "reading"} => pending[n] = <<>>

\* What the running port has delivered is split, without a gap, over what was
\* returned, what is in the channel and what is still to be pushed.
Split(a, b) ==
  /\ a <= b /\ b <= produced[cycle]
  /\ Holds(Returned, cycle, 0, a)
  /\ Holds(channel, cycle, a, b)
  /\ Holds(pending[cycle], cycle, b, produced[cycle])

NoGap == owner = "running" /\ cycle \notin closed => \E a, b \in Nat : Split(a, b)

LossInv ==
  /\ ByteTypes /\ CycleFits /\ PendingIsOwn /\ NoByteIsEarly /\ ReadsWhenPushed
  /\ NoGap

\* One more byte of port n, the next one.
LEMMA HoldsAppendOwn ==
  ASSUME NEW s \in Seq(Bytes), NEW n \in Nat, NEW a \in Nat, NEW b \in Nat, a <= b,
         Holds(s, n, a, b), NEW x \in Bytes, x[1] = n, x[2] = b + 1
  PROVE  Holds(Append(s, x), n, a, b + 1)
<1> DEFINE t == Append(s, x)
           own == {i \in 1 .. Len(s) : s[i][1] = n}
           now == {i \in 1 .. Len(t) : t[i][1] = n}
<1>1. /\ Len(s) \in Nat /\ Len(t) = Len(s) + 1 /\ t[Len(s) + 1] = x
      /\ \A i \in 1 .. Len(s) : t[i] = s[i]
  OBVIOUS
<1>2. /\ \A i, j \in own : i < j => s[i][2] < s[j][2]
      /\ {s[i][2] : i \in own} = a + 1 .. b
  BY DEF Holds
<1> HIDE DEF t
<1>3. now = own \cup {Len(s) + 1}
  BY <1>1
<1>4. \A i \in own : i \in 1 .. Len(s) /\ s[i][2] \in a + 1 .. b
  BY <1>2
<1>5. \A i \in own : t[i] = s[i]
  BY <1>1, <1>4
<1>6. \A i, j \in now : i < j => t[i][2] < t[j][2]
  <2> SUFFICES ASSUME NEW i \in now, NEW j \in now, i < j PROVE t[i][2] < t[j][2]
    OBVIOUS
  <2>1. i \in own
    BY <1>1, <1>3, <1>4
  <2>2. CASE j \in own
    BY <2>1, <2>2, <1>2, <1>5
  <2>3. CASE j = Len(s) + 1
    BY <2>1, <2>3, <1>1, <1>4, <1>5
  <2> QED
    BY <2>2, <2>3, <1>3
<1>7. {t[i][2] : i \in now} = {s[i][2] : i \in own} \cup {b + 1}
  BY <1>1, <1>3, <1>5
<1>8. (a + 1 .. b) \cup {b + 1} = a + 1 .. b + 1
  OBVIOUS
<1>9. {t[i][2] : i \in now} = a + 1 .. b + 1
  BY <1>2, <1>7, <1>8
<1> QED
  BY <1>6, <1>9 DEF Holds, t

\* A byte of another port.
LEMMA HoldsAppendOther ==
  ASSUME NEW s \in Seq(Bytes), NEW n \in Nat, NEW a \in Nat, NEW b \in Nat,
         Holds(s, n, a, b), NEW x \in Bytes, x[1] # n
  PROVE  Holds(Append(s, x), n, a, b)
<1> DEFINE t == Append(s, x)
           own == {i \in 1 .. Len(s) : s[i][1] = n}
           now == {i \in 1 .. Len(t) : t[i][1] = n}
<1>1. /\ Len(s) \in Nat /\ Len(t) = Len(s) + 1 /\ t[Len(s) + 1] = x
      /\ \A i \in 1 .. Len(s) : t[i] = s[i]
  OBVIOUS
<1>2. /\ \A i, j \in own : i < j => s[i][2] < s[j][2]
      /\ {s[i][2] : i \in own} = a + 1 .. b
  BY DEF Holds
<1> HIDE DEF t
<1>3. now = own
  BY <1>1
<1>5. \A i \in own : t[i] = s[i]
  BY <1>1
<1>6. \A i, j \in now : i < j => t[i][2] < t[j][2]
  BY <1>2, <1>3, <1>5
<1>7. {t[i][2] : i \in now} = {s[i][2] : i \in own}
  BY <1>3, <1>5
<1>9. {t[i][2] : i \in now} = a + 1 .. b
  BY <1>2, <1>7
<1> QED
  BY <1>6, <1>9 DEF Holds, t

\* Taking the first byte, one of port n: it is the next one.
LEMMA HoldsTailOwn ==
  ASSUME NEW s \in Seq(Bytes), s # <<>>, NEW n \in Nat, NEW a \in Nat, NEW b \in Nat,
         Holds(s, n, a, b), Head(s)[1] = n
  PROVE  Head(s)[2] = a + 1 /\ a + 1 <= b /\ Holds(Tail(s), n, a + 1, b)
<1> DEFINE t == Tail(s)
           own == {i \in 1 .. Len(s) : s[i][1] = n}
           now == {i \in 1 .. Len(t) : t[i][1] = n}
<1>1. /\ Len(s) \in Nat /\ Len(s) > 0 /\ Len(t) = Len(s) - 1 /\ Head(s) = s[1]
      /\ \A i \in 1 .. Len(t) : t[i] = s[i + 1]
      /\ \A i \in 1 .. Len(s) : s[i][2] \in Nat
  <2>1. \A i \in 1 .. Len(s) : s[i] \in Bytes
    OBVIOUS
  <2>2. \A i \in 1 .. Len(s) : s[i][2] \in Nat
    BY <2>1 DEF Bytes
  <2>3. Len(s) \in Nat /\ Len(s) > 0 /\ Head(s) = s[1]
    OBVIOUS
  <2>4. Len(t) = Len(s) - 1 /\ \A i \in 1 .. Len(t) : t[i] = s[i + 1]
    OBVIOUS
  <2> QED
    BY <2>2, <2>3, <2>4
<1>2. /\ \A i, j \in own : i < j => s[i][2] < s[j][2]
      /\ {s[i][2] : i \in own} = a + 1 .. b
  BY DEF Holds
<1>3. 1 \in own /\ \A i \in own : i \in 1 .. Len(s)
  BY <1>1
<1>4. \A i \in own : i # 1 => s[1][2] < s[i][2]
  BY <1>2, <1>3
<1>5. s[1][2] \in a + 1 .. b
  BY <1>2, <1>3
<1>6. a + 1 \in {s[i][2] : i \in own}
  BY <1>2, <1>5
<1>7. s[1][2] = a + 1
  <2> PICK i \in own : s[i][2] = a + 1
    BY <1>6
  <2> QED
    BY <1>1, <1>3, <1>4, <1>5
<1> HIDE DEF t
<1>8. \A i \in 1 .. Len(t) : i \in now <=> i + 1 \in own
  BY <1>1
<1>9. \A i, j \in now : i < j => t[i][2] < t[j][2]
  <2> SUFFICES ASSUME NEW i \in now, NEW j \in now, i < j PROVE t[i][2] < t[j][2]
    OBVIOUS
  <2>1. i + 1 \in own /\ j + 1 \in own /\ i + 1 < j + 1
    BY <1>8, <1>1
  <2>2. t[i] = s[i + 1] /\ t[j] = s[j + 1]
    BY <1>1
  <2> QED
    BY <2>1, <2>2, <1>2
<1>10. {t[i][2] : i \in now} = a + 1 + 1 .. b
  <2>1. ASSUME NEW i \in now PROVE t[i][2] \in a + 1 + 1 .. b
    <3>1. i + 1 \in own /\ t[i] = s[i + 1] /\ i + 1 # 1
      BY <1>8, <1>1
    <3>2. PICK k \in own : k = i + 1
      BY <3>1
    <3>3. s[k][2] \in a + 1 .. b /\ s[k][2] > a + 1
      BY <3>1, <3>2, <1>2, <1>4, <1>7
    <3> QED
      BY <3>1, <3>2, <3>3
  <2>2. ASSUME NEW v \in a + 1 + 1 .. b PROVE v \in {t[i][2] : i \in now}
    <3>1. v \in a + 1 .. b /\ v # a + 1
      OBVIOUS
    <3>2. PICK k \in own : s[k][2] = v
      BY <3>1, <1>2
    <3>3. k # 1 /\ k \in 1 .. Len(s)
      BY <3>1, <3>2, <1>3, <1>7
    <3>4. PICK i \in 1 .. Len(t) : k = i + 1
      <4>1. k - 1 \in 1 .. Len(t) /\ k = (k - 1) + 1
        BY <3>3, <1>1
      <4> QED
        BY <4>1
    <3>5. i \in now /\ t[i][2] = v
      BY <3>2, <3>4, <1>8, <1>1
    <3> QED
      BY <3>5
  <2> QED
    BY <2>1, <2>2
<1>11. Holds(t, n, a + 1, b)
  BY <1>9, <1>10 DEF Holds
<1>12. Head(s)[2] = a + 1 /\ a + 1 <= b
  BY <1>1, <1>5, <1>7
<1> QED
  BY <1>11, <1>12 DEF t

\* Taking the first byte, one of another port.
LEMMA HoldsTailOther ==
  ASSUME NEW s \in Seq(Bytes), s # <<>>, NEW n \in Nat, NEW a \in Nat, NEW b \in Nat,
         Holds(s, n, a, b), Head(s)[1] # n
  PROVE  Holds(Tail(s), n, a, b)
<1> DEFINE t == Tail(s)
           own == {i \in 1 .. Len(s) : s[i][1] = n}
           now == {i \in 1 .. Len(t) : t[i][1] = n}
<1>1. /\ Len(s) \in Nat /\ Len(s) > 0 /\ Len(t) = Len(s) - 1 /\ Head(s) = s[1]
      /\ \A i \in 1 .. Len(t) : t[i] = s[i + 1]
      /\ \A i \in 1 .. Len(s) : s[i][2] \in Nat
  <2>1. \A i \in 1 .. Len(s) : s[i] \in Bytes
    OBVIOUS
  <2>2. \A i \in 1 .. Len(s) : s[i][2] \in Nat
    BY <2>1 DEF Bytes
  <2>3. Len(s) \in Nat /\ Len(s) > 0 /\ Head(s) = s[1]
    OBVIOUS
  <2>4. Len(t) = Len(s) - 1 /\ \A i \in 1 .. Len(t) : t[i] = s[i + 1]
    OBVIOUS
  <2> QED
    BY <2>2, <2>3, <2>4
<1>2. /\ \A i, j \in own : i < j => s[i][2] < s[j][2]
      /\ {s[i][2] : i \in own} = a + 1 .. b
  BY DEF Holds
<1>3. 1 \notin own /\ \A i \in own : i \in 1 .. Len(s)
  BY <1>1
<1> HIDE DEF t
<1>8. \A i \in 1 .. Len(t) : i \in now <=> i + 1 \in own
  BY <1>1
<1>9. \A i, j \in now : i < j => t[i][2] < t[j][2]
  <2> SUFFICES ASSUME NEW i \in now, NEW j \in now, i < j PROVE t[i][2] < t[j][2]
    OBVIOUS
  <2>1. i + 1 \in own /\ j + 1 \in own /\ i + 1 < j + 1
    BY <1>8, <1>1
  <2>2. t[i] = s[i + 1] /\ t[j] = s[j + 1]
    BY <1>1
  <2> QED
    BY <2>1, <2>2, <1>2
<1>10. {t[i][2] : i \in now} = a + 1 .. b
  <2>1. ASSUME NEW i \in now PROVE t[i][2] \in a + 1 .. b
    <3>1. i + 1 \in own /\ t[i] = s[i + 1]
      BY <1>8, <1>1
    <3> QED
      BY <3>1, <1>2
  <2>2. ASSUME NEW v \in a + 1 .. b PROVE v \in {t[i][2] : i \in now}
    <3>2. PICK k \in own : s[k][2] = v
      BY <1>2
    <3>3. k # 1 /\ k \in 1 .. Len(s)
      BY <3>2, <1>3
    <3>4. PICK i \in 1 .. Len(t) : k = i + 1
      <4>1. k - 1 \in 1 .. Len(t) /\ k = (k - 1) + 1
        BY <3>3, <1>1
      <4> QED
        BY <4>1
    <3>5. i \in now /\ t[i][2] = v
      BY <3>2, <3>4, <1>8, <1>1
    <3> QED
      BY <3>5
  <2> QED
    BY <2>1, <2>2
<1>11. Holds(t, n, a, b)
  BY <1>9, <1>10 DEF Holds
<1> QED
  BY <1>11 DEF t

\* What is in two places, one behind the other.
LEMMA HoldsConcat ==
  ASSUME NEW s \in Seq(Bytes), NEW t \in Seq(Bytes), NEW n \in Nat,
         NEW a \in Nat, NEW b \in Nat, NEW c \in Nat, a <= b, b <= c,
         Holds(s, n, a, b), Holds(t, n, b, c)
  PROVE  Holds(s \o t, n, a, c)
<1> DEFINE u == s \o t
           l == Len(s)
           ownS == {i \in 1 .. Len(s) : s[i][1] = n}
           ownT == {i \in 1 .. Len(t) : t[i][1] = n}
           own == {i \in 1 .. Len(u) : u[i][1] = n}
<1>1. /\ Len(s) \in Nat /\ Len(t) \in Nat /\ Len(u) = Len(s) + Len(t)
      /\ \A i \in 1 .. Len(s) : u[i] = s[i]
      /\ \A i \in 1 .. Len(t) : u[Len(s) + i] = t[i]
  <2>1. \A i \in 1 .. Len(t) : u[Len(s) + i] = t[i]
    <3> TAKE i \in 1 .. Len(t)
    <3>1. PICK k \in 1 .. Len(s) + Len(t) : k = Len(s) + i
      OBVIOUS
    <3>2. k > Len(s) /\ k - Len(s) = i
      BY <3>1
    <3>3. u[k] = t[k - Len(s)]
      BY <3>1, <3>2
    <3> QED
      BY <3>1, <3>2, <3>3
  <2> QED
    BY <2>1
<1>2. /\ \A i, j \in ownS : i < j => s[i][2] < s[j][2]
      /\ {s[i][2] : i \in ownS} = a + 1 .. b
      /\ \A i, j \in ownT : i < j => t[i][2] < t[j][2]
      /\ {t[i][2] : i \in ownT} = b + 1 .. c
  BY DEF Holds
<1> HIDE DEF u
<1>3. \A k \in own : \/ k \in ownS /\ u[k] = s[k]
                     \/ \E i \in ownT : k = Len(s) + i /\ u[k] = t[i]
  <2> TAKE k \in own
  <2>1. CASE k <= Len(s)
    BY <2>1, <1>1
  <2>2. CASE k > Len(s)
    <3>1. PICK i \in 1 .. Len(t) : k = Len(s) + i
      <4>1. k - Len(s) \in 1 .. Len(t) /\ k = Len(s) + (k - Len(s))
        BY <2>2, <1>1
      <4> QED
        BY <4>1
    <3>2. u[k] = t[i]
      BY <3>1, <1>1
    <3> QED
      BY <3>1, <3>2
  <2> QED
    BY <2>1, <2>2, <1>1
<1>4. /\ \A i \in ownS : i \in own /\ u[i] = s[i]
      /\ \A i \in ownT : Len(s) + i \in own /\ u[Len(s) + i] = t[i]
  BY <1>1
<1>5. \A i \in ownS : s[i][2] \in a + 1 .. b
  BY <1>2
<1>6. \A i \in ownT : t[i][2] \in b + 1 .. c
  BY <1>2
<1>7. \A i, j \in own : i < j => u[i][2] < u[j][2]
  <2> SUFFICES ASSUME NEW i \in own, NEW j \in own, i < j PROVE u[i][2] < u[j][2]
    OBVIOUS
  <2>1. CASE i \in ownS /\ u[i] = s[i]
    <3>1. CASE j \in ownS /\ u[j] = s[j]
      BY <2>1, <3>1, <1>2
    <3>2. CASE \E h \in ownT : j = Len(s) + h /\ u[j] = t[h]
      <4> PICK h \in ownT : j = Len(s) + h /\ u[j] = t[h]
        BY <3>2
      <4>1. s[i][2] \in a + 1 .. b /\ t[h][2] \in b + 1 .. c
        BY <2>1, <1>5, <1>6
      <4>2. \A p \in a + 1 .. b, q \in b + 1 .. c : p < q
        OBVIOUS
      <4>3. u[i][2] = s[i][2] /\ u[j][2] = t[h][2]
        BY <2>1
      <4> QED
        BY <4>1, <4>2, <4>3, Zenon
    <3> QED
      BY <3>1, <3>2, <1>3
  <2>2. CASE \E h \in ownT : i = Len(s) + h /\ u[i] = t[h]
    <3>1. PICK h \in ownT : i = Len(s) + h /\ u[i] = t[h]
      BY <2>2
    <3>2. j \notin ownS
      BY <3>1, <1>1
    <3>3. PICK g \in ownT : j = Len(s) + g /\ u[j] = t[g]
      BY <3>2, <1>3
    <3>4. h < g
      BY <3>1, <3>3, <1>1
    <3> QED
      BY <3>1, <3>3, <3>4, <1>2
  <2> QED
    BY <2>1, <2>2, <1>3
<1>8. {u[k][2] : k \in own} = a + 1 .. c
  <2>1. ASSUME NEW k \in own PROVE u[k][2] \in a + 1 .. c
    <3>1. CASE k \in ownS /\ u[k] = s[k]
      BY <3>1, <1>5
    <3>2. CASE \E h \in ownT : k = Len(s) + h /\ u[k] = t[h]
      BY <3>2, <1>6
    <3> QED
      BY <3>1, <3>2, <1>3
  <2>2. ASSUME NEW v \in a + 1 .. c PROVE v \in {u[k][2] : k \in own}
    <3>1. CASE v <= b
      <4>0. v \in a + 1 .. b
        BY <3>1
      <4>1. PICK i \in ownS : s[i][2] = v
        BY <4>0, <1>2
      <4> QED
        BY <4>1, <1>4
    <3>2. CASE v > b
      <4>0. v \in b + 1 .. c
        BY <3>2
      <4>1. PICK i \in ownT : t[i][2] = v
        BY <4>0, <1>2
      <4>2. PICK k \in own : u[k] = t[i]
        BY <1>4
      <4> QED
        BY <4>1, <4>2
    <3> QED
      BY <3>1, <3>2
  <2> QED
    BY <2>1, <2>2
<1> QED
  BY <1>7, <1>8 DEF Holds, u

\* No byte of port n.
LEMMA HoldsNone ==
  ASSUME NEW s, NEW n, NEW a \in Nat, \A i \in 1 .. Len(s) : s[i][1] # n
  PROVE  Holds(s, n, a, a)
<1> DEFINE own == {i \in 1 .. Len(s) : s[i][1] = n}
<1>1. own = {}
  OBVIOUS
<1>2. {s[i][2] : i \in own} = {} /\ a + 1 .. a = {}
  BY <1>1
<1> QED
  BY <1>1, <1>2 DEF Holds

\* What one read of the port returns.
LEMMA HoldsFresh ==
  ASSUME NEW n \in Nat, NEW a \in Nat, NEW k \in Nat
  PROVE  /\ [i \in 1 .. k |-> <<n, a + i>>] \in Seq(Bytes)
         /\ Holds([i \in 1 .. k |-> <<n, a + i>>], n, a, a + k)
<1> DEFINE s == [i \in 1 .. k |-> <<n, a + i>>]
           own == {i \in 1 .. Len(s) : s[i][1] = n}
<1>1. s \in Seq(Bytes) /\ Len(s) = k
  BY DEF Bytes
<1>2. \A i \in 1 .. k : s[i][1] = n /\ s[i][2] = a + i
  OBVIOUS
<1> HIDE DEF s
<1>3. own = 1 .. k
  BY <1>1, <1>2
<1>4. \A i, j \in own : i < j => s[i][2] < s[j][2]
  BY <1>2, <1>3
<1>5. {s[i][2] : i \in own} = a + 1 .. a + k
  <2>1. ASSUME NEW i \in own PROVE s[i][2] \in a + 1 .. a + k
    BY <1>2, <1>3
  <2>2. ASSUME NEW v \in a + 1 .. a + k PROVE v \in {s[i][2] : i \in own}
    <3>1. v - a \in 1 .. k /\ a + (v - a) = v
      OBVIOUS
    <3>2. PICK i \in own : a + i = v
      BY <3>1, <1>3
    <3>3. s[i][2] = v
      BY <3>2, <1>2, <1>3
    <3> QED
      BY <3>3
  <2> QED
    BY <2>1, <2>2
<1>6. Holds(s, n, a, a + k)
  BY <1>4, <1>5 DEF Holds
<1> QED
  BY <1>1, <1>6 DEF s

\* Nothing to hold.
LEMMA HoldsNothing ==
  ASSUME NEW n, NEW a \in Nat, NEW b \in Nat, a <= b, Holds(<<>>, n, a, b)
  PROVE  a = b
<1> DEFINE own == {i \in 1 .. Len(<<>>) : <<>>[i][1] = n}
<1>1. own = {}
  OBVIOUS
<1>2. {<<>>[i][2] : i \in own} = a + 1 .. b
  BY DEF Holds
<1>3. a + 1 .. b = {}
  BY <1>1, <1>2
<1>4. a + 1 \notin a + 1 .. b
  BY <1>3
<1> QED
  BY <1>4

\* Returned is a sequence of bytes; Read adds the one it took to it.
LEMMA ReturnedIs ==
  ASSUME received \in Seq(Nat \X Bytes)
  PROVE  Returned \in Seq(Bytes) /\ Len(Returned) = Len(received)
<1>1. \A i \in 1 .. Len(received) : received[i] \in Nat \X Bytes
  OBVIOUS
<1>2. \A i \in 1 .. Len(received) : received[i][2] \in Bytes
  BY <1>1
<1>3. Len(received) \in Nat
  OBVIOUS
<1> QED
  BY <1>2, <1>3 DEF Returned

\* What Read returns comes behind what it has returned.
LEMMA ReturnedGrows ==
  ASSUME received \in Seq(Nat \X Bytes), NEW x \in Bytes, NEW c \in Nat,
         received' = Append(received, <<c, x>>)
  PROVE  Returned' = Append(Returned, x)
<1> DEFINE y == <<c, x>>
<1>1. y \in Nat \X Bytes /\ y[2] = x
  OBVIOUS
<1> HIDE DEF y
<1>2. received' = Append(received, y)
  BY DEF y
<1>3. /\ received' \in Seq(Nat \X Bytes) /\ Len(received') = Len(received) + 1
      /\ Len(received) \in Nat
      /\ received'[Len(received) + 1] = y
      /\ \A i \in 1 .. Len(received) : received'[i] = received[i]
  BY <1>1, <1>2
<1>4. Returned \in Seq(Bytes) /\ Len(Returned) = Len(received)
  BY ReturnedIs
<1>5. Returned' = [i \in 1 .. Len(received') |-> received'[i][2]]
  BY DEF Returned
<1>6. Returned' \in Seq(Bytes) /\ Len(Returned') = Len(received')
  <2>1. \A i \in 1 .. Len(received') : received'[i] \in Nat \X Bytes
    BY <1>3
  <2>2. \A i \in 1 .. Len(received') : received'[i][2] \in Bytes
    BY <2>1
  <2> QED
    BY <1>3, <1>5, <2>2
<1>7. \A i \in 1 .. Len(Returned) : Returned'[i] = Returned[i]
  BY <1>3, <1>4, <1>5 DEF Returned
<1>8. Returned'[Len(Returned) + 1] = x
  BY <1>1, <1>3, <1>4, <1>5
<1>9. Append(Returned, x) \in Seq(Bytes) /\ Len(Append(Returned, x)) = Len(Returned) + 1
  BY <1>4
<1>10. \A i \in 1 .. Len(Returned) + 1 : Returned'[i] = Append(Returned, x)[i]
  BY <1>4, <1>7, <1>8
<1> QED
  BY <1>3, <1>4, <1>6, <1>9, <1>10, SeqEqual

\* Before the first Start there is nothing to lose.
LEMMA LossInit == Init => LossInv
<1> SUFFICES ASSUME Init PROVE LossInv
  OBVIOUS
<1> USE DEF Init
<1>1. ByteTypes
  BY DEF ByteTypes
<1>2. CycleFits
  BY ParametersAssumption DEF CycleFits
<1>3. PendingIsOwn /\ ReadsWhenPushed
  BY DEF PendingIsOwn, ReadsWhenPushed
<1>4. NoByteIsEarly
  BY DEF NoByteIsEarly, Returned
<1>5. NoGap
  BY DEF NoGap
<1> QED
  BY <1>1, <1>2, <1>3, <1>4, <1>5 DEF LossInv

\* StartCalled and Drain: nobody is promised anything until Arm.
LEMMA LossDrain == LossInv /\ (StartCalled \/ Drain) => LossInv'
<1> SUFFICES ASSUME LossInv, StartCalled \/ Drain PROVE LossInv'
  OBVIOUS
<1> USE DEF LossInv
<1>1. /\ owner' = "draining" /\ cycle < MaxCycles
      /\ UNCHANGED <<cycle, received, goroutine, pending, produced>>
      /\ channel' = channel \/ (channel # <<>> /\ channel' = Tail(channel))
  BY DEF StartCalled, Drain, CycleFits, readers, session
<1>2. ByteTypes'
  <2>0. channel \in Seq(Bytes)
    BY DEF ByteTypes
  <2>1. CASE channel' = channel
    BY <1>1, <2>0, <2>1 DEF ByteTypes
  <2>2. CASE channel # <<>> /\ channel' = Tail(channel)
    <3>1. channel' \in Seq(Bytes)
      BY <2>0, <2>2
    <3> QED
      BY <1>1, <3>1 DEF ByteTypes
  <2> QED
    BY <1>1, <2>1, <2>2
<1>3. CycleFits'
  BY <1>1 DEF CycleFits
<1>4. PendingIsOwn' /\ ReadsWhenPushed'
  BY <1>1 DEF PendingIsOwn, ReadsWhenPushed
<1>5. Returned' = Returned
  BY <1>1 DEF Returned
<1>6. \A i \in 1 .. Len(channel') : channel'[i][1] <= cycle
  <2>1. channel \in Seq(Bytes) /\ \A i \in 1 .. Len(channel) : channel[i][1] <= cycle
    BY DEF ByteTypes, NoByteIsEarly
  <2>2. CASE channel' = channel
    BY <2>1, <2>2
  <2>3. CASE channel # <<>> /\ channel' = Tail(channel)
    <3>1. /\ Len(channel) \in Nat /\ Len(channel') = Len(channel) - 1
          /\ \A i \in 1 .. Len(channel') : channel'[i] = channel[i + 1]
      BY <2>1, <2>3
    <3>2. \A i \in 1 .. Len(channel') : i + 1 \in 1 .. Len(channel)
      BY <3>1
    <3> QED
      BY <2>1, <3>1, <3>2
  <2> QED
    BY <1>1, <2>2, <2>3
<1>7. NoByteIsEarly'
  BY <1>1, <1>5, <1>6 DEF NoByteIsEarly
<1>8. NoGap'
  BY <1>1 DEF NoGap
<1> QED
  BY <1>2, <1>3, <1>4, <1>7, <1>8

\* Arm: what an old goroutine pushed after the drain is not the new port's.
LEMMA LossArm == LossInv /\ Arm => LossInv'
<1> SUFFICES ASSUME LossInv, Arm PROVE LossInv'
  OBVIOUS
<1> USE DEF LossInv
<1>1. /\ owner = "draining" /\ owner' = "running" /\ cycle' = cycle + 1
      /\ goroutine' = [goroutine EXCEPT ![cycle + 1] = "checking"]
      /\ UNCHANGED <<channel, pending, produced, received>>
  BY DEF Arm
<1>2. cycle \in Nat /\ cycle + 1 \in Cycles
  BY <1>1, ParametersAssumption DEF ByteTypes, CycleFits, Cycles
<1>3. ByteTypes'
  BY <1>1, <1>2 DEF ByteTypes
<1>4. CycleFits'
  BY <1>1, <1>2, ParametersAssumption DEF CycleFits, Cycles
<1>5. pending[cycle + 1] = <<>> /\ produced[cycle + 1] = 0
  BY <1>2 DEF NoByteIsEarly
<1>6. PendingIsOwn'
  BY <1>1 DEF PendingIsOwn
<1>7. ReadsWhenPushed'
  BY <1>1, <1>2, <1>5 DEF ReadsWhenPushed, ByteTypes
<1>8. Returned' = Returned /\ Returned \in Seq(Bytes)
  BY <1>1, ReturnedIs DEF Returned, ByteTypes
<1>9. \A b \in Bytes : b[1] <= cycle => b[1] <= cycle + 1 /\ b[1] # cycle + 1
  BY <1>2 DEF Bytes
<1>10. /\ \A i \in 1 .. Len(channel) : channel[i] \in Bytes /\ channel[i][1] <= cycle
       /\ \A i \in 1 .. Len(Returned) : Returned[i] \in Bytes /\ Returned[i][1] <= cycle
  BY <1>8 DEF ByteTypes, NoByteIsEarly
<1>11. \A n \in Cycles : n > cycle + 1 => n > cycle /\ n # cycle + 1
  BY <1>2 DEF Cycles
<1>12. NoByteIsEarly'
  <2>1. /\ \A i \in 1 .. Len(channel) : channel[i][1] <= cycle + 1
        /\ \A i \in 1 .. Len(Returned) : Returned[i][1] <= cycle + 1
    BY <1>9, <1>10
  <2>2. \A n \in Cycles : n > cycle + 1 =>
          /\ goroutine'[n] \in {"none", "exited"}
          /\ pending[n] = <<>> /\ produced[n] = 0
    BY <1>1, <1>11 DEF NoByteIsEarly, ByteTypes
  <2> QED
    BY <1>1, <1>8, <2>1, <2>2 DEF NoByteIsEarly
<1>13. Holds(Returned, cycle + 1, 0, 0)
  <2>1. \A i \in 1 .. Len(Returned) : Returned[i][1] # cycle + 1
    BY <1>9, <1>10
  <2> QED
    BY <2>1, HoldsNone
<1>14. Holds(channel, cycle + 1, 0, 0)
  <2>1. \A i \in 1 .. Len(channel) : channel[i][1] # cycle + 1
    BY <1>9, <1>10
  <2> QED
    BY <2>1, HoldsNone
<1>15. Holds(<<>>, cycle + 1, 0, 0)
  BY HoldsNone
<1>16. Split(0, 0)'
  BY <1>1, <1>5, <1>8, <1>13, <1>14, <1>15 DEF Split
<1>17. NoGap'
  BY <1>16 DEF NoGap
<1> QED
  BY <1>3, <1>4, <1>6, <1>7, <1>12, <1>17

\* ReadByte moves the channel's first byte to what was returned.
LEMMA LossRead == LossInv /\ ReadByte => LossInv'
<1> SUFFICES ASSUME LossInv, ReadByte PROVE LossInv'
  OBVIOUS
<1> USE DEF LossInv
<1> DEFINE x == Head(channel)
<1>1. /\ owner = "running" /\ channel # <<>>
      /\ received' = Append(received, <<cycle, x>>)
      /\ channel' = Tail(channel)
      /\ UNCHANGED <<owner, cycle, closed, goroutine, pending, produced>>
  BY DEF ReadByte, session, signal, readers
<1>2. cycle \in Nat /\ channel \in Seq(Bytes) /\ received \in Seq(Nat \X Bytes)
  BY DEF ByteTypes
<1>3. x \in Bytes /\ channel' \in Seq(Bytes) /\ x[1] <= cycle
  <2>1. x \in Bytes /\ channel' \in Seq(Bytes) /\ x = channel[1] /\ 1 \in 1 .. Len(channel)
    BY <1>1, <1>2
  <2> QED
    BY <2>1 DEF NoByteIsEarly
<1>4. Returned \in Seq(Bytes) /\ Returned' = Append(Returned, x)
  BY <1>1, <1>2, <1>3, ReturnedIs, ReturnedGrows
<1>5. <<cycle, x>> \in Nat \X Bytes
  BY <1>2, <1>3
<1> HIDE DEF x
<1>6. ByteTypes'
  <2> DEFINE y == <<cycle, x>>
  <2> HIDE DEF y
  <2>1. received' = Append(received, y) /\ y \in Nat \X Bytes
    BY <1>1, <1>5 DEF y
  <2>2. received' \in Seq(Nat \X Bytes)
    BY <1>2, <2>1
  <2> QED
    BY <1>1, <1>3, <2>2 DEF ByteTypes
<1>7. CycleFits' /\ PendingIsOwn' /\ ReadsWhenPushed'
  BY <1>1 DEF CycleFits, PendingIsOwn, ReadsWhenPushed
<1>8. NoByteIsEarly'
  <2>1. \A i \in 1 .. Len(channel') : channel'[i][1] <= cycle
    <3>1. /\ Len(channel) \in Nat /\ Len(channel') = Len(channel) - 1
          /\ \A i \in 1 .. Len(channel') : channel'[i] = channel[i + 1]
      BY <1>1, <1>2
    <3>2. \A i \in 1 .. Len(channel') : i + 1 \in 1 .. Len(channel)
      BY <3>1
    <3> QED
      BY <3>1, <3>2 DEF NoByteIsEarly
  <2>2. \A i \in 1 .. Len(Returned') : Returned'[i][1] <= cycle
    <3>1. /\ Len(Returned) \in Nat /\ Len(Returned') = Len(Returned) + 1
          /\ Returned'[Len(Returned) + 1] = x
          /\ \A i \in 1 .. Len(Returned) : Returned'[i] = Returned[i]
      BY <1>3, <1>4
    <3>2. \A i \in 1 .. Len(Returned') : i \in 1 .. Len(Returned) \/ i = Len(Returned) + 1
      BY <3>1
    <3> QED
      BY <1>3, <3>1, <3>2 DEF NoByteIsEarly
  <2> QED
    BY <1>1, <2>1, <2>2 DEF NoByteIsEarly
<1>9. NoGap'
  <2> SUFFICES ASSUME cycle \notin closed PROVE \E a, b \in Nat : Split(a, b)'
    BY <1>1 DEF NoGap
  <2>1. PICK a, b \in Nat : Split(a, b)
    BY <1>1 DEF NoGap
  <2>2. /\ a <= b /\ b <= produced[cycle] /\ Holds(Returned, cycle, 0, a)
        /\ Holds(channel, cycle, a, b)
        /\ Holds(pending[cycle], cycle, b, produced[cycle])
    BY <2>1 DEF Split
  <2>3. CASE x[1] = cycle
    <3>1. x[2] = a + 1 /\ a + 1 <= b /\ Holds(Tail(channel), cycle, a + 1, b)
      BY <1>1, <1>2, <2>2, <2>3, HoldsTailOwn DEF x
    <3>2. Holds(Append(Returned, x), cycle, 0, a + 1)
      BY <1>2, <1>3, <1>4, <2>2, <2>3, <3>1, HoldsAppendOwn
    <3>3. Split(a + 1, b)'
      BY <1>1, <1>4, <2>2, <3>1, <3>2 DEF Split
    <3>4. a + 1 \in Nat
      OBVIOUS
    <3> QED
      BY <3>3, <3>4
  <2>4. CASE x[1] # cycle
    <3>1. Holds(Tail(channel), cycle, a, b)
      BY <1>1, <1>2, <2>2, <2>4, HoldsTailOther DEF x
    <3>2. Holds(Append(Returned, x), cycle, 0, a)
      BY <1>2, <1>3, <1>4, <2>2, <2>4, HoldsAppendOther
    <3>3. Split(a, b)'
      BY <1>1, <1>4, <2>2, <3>1, <3>2 DEF Split
    <3> QED
      BY <3>3
  <2> QED
    BY <2>3, <2>4
<1> QED
  BY <1>6, <1>7, <1>8, <1>9

\* Stop: it takes the promise back, and moves no byte.
LEMMA LossStop ==
  ASSUME LossInv, NEW c \in Callers, StopCalled(c) \/ StopEnters(c) \/ StopCloses(c)
  PROVE  LossInv'
<1> USE DEF LossInv
<1>1. /\ UNCHANGED <<cycle, channel, pending, produced, received>>
      /\ owner' \in {owner, "stopped", "crashed"} /\ closed \subseteq closed'
      /\ goroutine' = goroutine \/ goroutine' = [n \in Cycles |-> "exited"]
  BY DEF StopCalled, StopEnters, StopCloses, session, signal, readers
<1>2. Returned' = Returned
  BY <1>1 DEF Returned
<1>3. ByteTypes'
  BY <1>1 DEF ByteTypes
<1>4. CycleFits' /\ PendingIsOwn'
  BY <1>1 DEF CycleFits, PendingIsOwn
<1>5. ReadsWhenPushed'
  BY <1>1 DEF ReadsWhenPushed
<1>6. NoByteIsEarly'
  BY <1>1, <1>2 DEF NoByteIsEarly
<1>7. NoGap'
  BY <1>1, <1>2 DEF NoGap, Split
<1> QED
  BY <1>3, <1>4, <1>5, <1>6, <1>7

\* CheckDone, PortFails, PushStops and Pushed: a goroutine that leaves bytes
\* unpushed has been stopped.
LEMMA LossMoves ==
  ASSUME LossInv, NEW n \in Cycles,
         CheckDone(n) \/ PortFails(n) \/ PushStops(n) \/ Pushed(n)
  PROVE  LossInv'
<1> USE DEF LossInv
<1>1. /\ UNCHANGED <<owner, cycle, closed, channel, pending, produced, received>>
      /\ goroutine[n] \in {"checking", "reading", "pushing"}
      /\ \/ goroutine' = [goroutine EXCEPT ![n] = "exited"]
         \/ /\ goroutine' = [goroutine EXCEPT ![n] = "reading"]
            /\ goroutine[n] = "checking"
         \/ /\ goroutine' = [goroutine EXCEPT ![n] = "checking"]
            /\ pending[n] = <<>>
  BY DEF CheckDone, PortFails, PushStops, Pushed, session, signal
<1>2. Returned' = Returned
  BY <1>1 DEF Returned
<1>3. ByteTypes'
  BY <1>1 DEF ByteTypes
<1>4. CycleFits' /\ PendingIsOwn'
  BY <1>1 DEF CycleFits, PendingIsOwn
<1>5. ReadsWhenPushed'
  BY <1>1 DEF ReadsWhenPushed, ByteTypes
<1>6. NoByteIsEarly'
  <2>1. ~(n > cycle)
    BY <1>1 DEF NoByteIsEarly
  <2>2. \A m \in Cycles : m > cycle => goroutine'[m] = goroutine[m]
    BY <1>1, <2>1 DEF ByteTypes
  <2> QED
    BY <1>1, <1>2, <2>2 DEF NoByteIsEarly
<1>7. NoGap'
  BY <1>1, <1>2 DEF NoGap, Split
<1> QED
  BY <1>3, <1>4, <1>5, <1>6, <1>7

\* PortDelivers: the goroutine had pushed all it had, so the new bytes follow.
LEMMA LossDelivers ==
  ASSUME LossInv, NEW n \in Cycles, PortDelivers(n)
  PROVE  LossInv'
<1> USE DEF LossInv
<1>0. n \in Nat /\ produced[n] \in Nat /\ cycle \in Nat
  BY DEF Cycles, ByteTypes
<1>1. PICK k \in 0 .. MaxBytes - produced[n] :
        /\ pending' = [pending EXCEPT ![n] = [i \in 1 .. k |-> <<n, produced[n] + i>>]]
        /\ produced' = [produced EXCEPT ![n] = @ + k]
  BY DEF PortDelivers
<1> DEFINE fresh == [i \in 1 .. k |-> <<n, produced[n] + i>>]
<1>2. /\ goroutine[n] = "reading" /\ goroutine' = [goroutine EXCEPT ![n] = "pushing"]
      /\ UNCHANGED <<owner, cycle, closed, channel, received>>
  BY DEF PortDelivers, session, signal
<1>3. k \in Nat
  BY <1>0, ParametersAssumption
<1>4. fresh \in Seq(Bytes) /\ Holds(fresh, n, produced[n], produced[n] + k)
  BY <1>0, <1>3, HoldsFresh
<1>5. \A i \in 1 .. Len(fresh) : fresh[i][1] = n
  BY <1>3
<1>6. pending' = [pending EXCEPT ![n] = fresh]
  BY <1>1
<1> HIDE DEF fresh
<1>7. ByteTypes'
  <2>1. pending' \in [Cycles -> Seq(Bytes)]
    BY <1>4, <1>6 DEF ByteTypes
  <2>2. produced' \in [Cycles -> Nat]
    BY <1>0, <1>1, <1>3 DEF ByteTypes
  <2> QED
    BY <1>2, <2>1, <2>2 DEF ByteTypes
<1>8. CycleFits'
  BY <1>2 DEF CycleFits
<1>9. PendingIsOwn'
  BY <1>5, <1>6 DEF PendingIsOwn, ByteTypes
<1>10. ReadsWhenPushed'
  BY <1>2, <1>6 DEF ReadsWhenPushed, ByteTypes
<1>11. Returned' = Returned
  BY <1>2 DEF Returned
<1>12. NoByteIsEarly'
  <2>1. ~(n > cycle)
    BY <1>2 DEF NoByteIsEarly
  <2>2. \A m \in Cycles : m > cycle =>
          /\ goroutine'[m] = goroutine[m] /\ pending'[m] = pending[m]
          /\ produced'[m] = produced[m]
    BY <1>1, <1>2, <2>1 DEF ByteTypes
  <2> QED
    BY <1>2, <1>11, <2>2 DEF NoByteIsEarly
<1>13. NoGap'
  <2> SUFFICES ASSUME owner = "running", cycle \notin closed
               PROVE  \E a, b \in Nat : Split(a, b)'
    BY <1>2 DEF NoGap
  <2>1. PICK a, b \in Nat : Split(a, b)
    BY DEF NoGap
  <2>2. /\ a <= b /\ b <= produced[cycle] /\ Holds(Returned, cycle, 0, a)
        /\ Holds(channel, cycle, a, b)
        /\ Holds(pending[cycle], cycle, b, produced[cycle])
    BY <2>1 DEF Split
  <2>3. CASE n = cycle
    <3>1. pending[cycle] = <<>>
      BY <1>2, <2>3 DEF ReadsWhenPushed
    <3>2. b = produced[cycle]
      BY <1>0, <2>2, <2>3, <3>1, HoldsNothing
    <3>3. pending'[cycle] = fresh /\ produced'[cycle] = produced[cycle] + k
      BY <1>1, <1>6, <2>3 DEF ByteTypes
    <3>4. b <= produced'[cycle]
      BY <1>0, <1>3, <2>3, <3>2, <3>3
    <3>5. Split(a, b)'
      BY <1>2, <1>4, <1>11, <2>2, <2>3, <3>2, <3>3, <3>4 DEF Split
    <3> QED
      BY <3>5
  <2>4. CASE n # cycle
    <3>0. cycle \in Cycles
      BY DEF CycleFits
    <3>1. pending'[cycle] = pending[cycle] /\ produced'[cycle] = produced[cycle]
      BY <1>1, <2>4, <3>0 DEF ByteTypes
    <3>2. Split(a, b)'
      BY <1>2, <1>11, <2>2, <3>1 DEF Split
    <3> QED
      BY <3>2
  <2> QED
    BY <2>3, <2>4
<1> QED
  BY <1>7, <1>8, <1>9, <1>10, <1>12, <1>13

\* Push moves the goroutine's first byte behind those in the channel; a byte
\* of an earlier port goes between them and disturbs nothing.
LEMMA LossPush ==
  ASSUME LossInv, NEW n \in Cycles, Push(n)
  PROVE  LossInv'
<1> USE DEF LossInv
<1> DEFINE x == Head(pending[n])
<1>0. n \in Nat /\ cycle \in Nat /\ channel \in Seq(Bytes) /\ pending[n] \in Seq(Bytes)
  <2>1. n \in Nat
    BY DEF Cycles
  <2> QED
    BY <2>1 DEF ByteTypes
<1>1. /\ goroutine[n] = "pushing" /\ pending[n] # <<>>
      /\ channel' = Append(channel, x)
      /\ pending' = [pending EXCEPT ![n] = Tail(pending[n])]
      /\ UNCHANGED <<owner, cycle, closed, goroutine, produced, received>>
  BY DEF Push, session, signal
<1>2. ~(n > cycle)
  BY <1>1 DEF NoByteIsEarly
<1>3. x \in Bytes /\ Tail(pending[n]) \in Seq(Bytes) /\ channel' \in Seq(Bytes)
  BY <1>0, <1>1
<1>4. x[1] = n
  <2>1. x = pending[n][1] /\ 1 \in 1 .. Len(pending[n])
    BY <1>0, <1>1
  <2> QED
    BY <2>1 DEF PendingIsOwn
<1> HIDE DEF x
<1>5. pending'[n] = Tail(pending[n]) /\ \A m \in Cycles : m # n => pending'[m] = pending[m]
  BY <1>1 DEF ByteTypes
<1>6. ByteTypes'
  BY <1>1, <1>3 DEF ByteTypes
<1>7. CycleFits'
  BY <1>1 DEF CycleFits
<1>8. PendingIsOwn'
  <2>1. /\ Len(pending[n]) \in Nat /\ Len(Tail(pending[n])) = Len(pending[n]) - 1
        /\ \A i \in 1 .. Len(Tail(pending[n])) : Tail(pending[n])[i] = pending[n][i + 1]
    BY <1>0, <1>1
  <2>2. \A i \in 1 .. Len(Tail(pending[n])) : i + 1 \in 1 .. Len(pending[n])
    BY <2>1
  <2>3. \A i \in 1 .. Len(Tail(pending[n])) : Tail(pending[n])[i][1] = n
    BY <2>1, <2>2 DEF PendingIsOwn
  <2> QED
    BY <1>5, <2>3 DEF PendingIsOwn
<1>9. ReadsWhenPushed'
  BY <1>1, <1>5 DEF ReadsWhenPushed
<1>10. Returned' = Returned
  BY <1>1 DEF Returned
<1>11. NoByteIsEarly'
  <2>1. \A i \in 1 .. Len(channel') : channel'[i][1] <= cycle
    <3>1. /\ Len(channel) \in Nat /\ Len(channel') = Len(channel) + 1
          /\ channel'[Len(channel) + 1] = x
          /\ \A i \in 1 .. Len(channel) : channel'[i] = channel[i]
      BY <1>0, <1>1, <1>3
    <3>2. \A i \in 1 .. Len(channel') : i \in 1 .. Len(channel) \/ i = Len(channel) + 1
      BY <3>1
    <3>3. n <= cycle
      BY <1>0, <1>2
    <3> QED
      BY <1>4, <3>1, <3>2, <3>3 DEF NoByteIsEarly
  <2>2. \A m \in Cycles : m > cycle => pending'[m] = pending[m]
    BY <1>2, <1>5
  <2> QED
    BY <1>1, <1>10, <2>1, <2>2 DEF NoByteIsEarly
<1>12. NoGap'
  <2> SUFFICES ASSUME owner = "running", cycle \notin closed
               PROVE  \E a, b \in Nat : Split(a, b)'
    BY <1>1 DEF NoGap
  <2>1. PICK a, b \in Nat : Split(a, b)
    BY DEF NoGap
  <2>2. /\ a <= b /\ b <= produced[cycle] /\ Holds(Returned, cycle, 0, a)
        /\ Holds(channel, cycle, a, b)
        /\ Holds(pending[cycle], cycle, b, produced[cycle])
    BY <2>1 DEF Split
  <2>3. CASE n = cycle
    <3>0. produced[n] \in Nat
      BY DEF ByteTypes
    <3>1. /\ x[2] = b + 1 /\ b + 1 <= produced[n]
          /\ Holds(Tail(pending[n]), n, b + 1, produced[n])
      BY <1>0, <1>1, <1>4, <2>2, <2>3, <3>0, HoldsTailOwn DEF x
    <3>2. Holds(Append(channel, x), n, a, b + 1)
      BY <1>0, <1>3, <1>4, <2>2, <2>3, <3>1, HoldsAppendOwn
    <3>3. a <= b + 1 /\ b + 1 \in Nat
      BY <2>2
    <3>4. Split(a, b + 1)'
      BY <1>1, <1>5, <1>10, <2>2, <2>3, <3>1, <3>2, <3>3 DEF Split
    <3> QED
      BY <3>3, <3>4
  <2>4. CASE n # cycle
    <3>0. cycle \in Cycles
      BY DEF CycleFits
    <3>1. Holds(Append(channel, x), cycle, a, b)
      BY <1>0, <1>3, <1>4, <2>2, <2>4, HoldsAppendOther
    <3>2. Split(a, b)'
      BY <1>1, <1>5, <1>10, <2>2, <2>4, <3>0, <3>1 DEF Split
    <3> QED
      BY <3>2
  <2> QED
    BY <2>3, <2>4
<1> QED
  BY <1>6, <1>7, <1>8, <1>9, <1>11, <1>12

\* Every step keeps the account.
LEMMA LossStep == LossInv /\ [Next]_vars => LossInv'
<1> SUFFICES ASSUME LossInv, [Next]_vars PROVE LossInv'
  OBVIOUS
<1>1. CASE StartCalled \/ Drain
  BY <1>1, LossDrain
<1>2. CASE Arm
  BY <1>2, LossArm
<1>3. CASE ReadByte
  BY <1>3, LossRead
<1>4. ASSUME NEW c \in Callers, StopCalled(c) \/ StopEnters(c) \/ StopCloses(c)
      PROVE  LossInv'
  BY <1>4, LossStop
<1>5. ASSUME NEW n \in Cycles, Goroutine(n) PROVE LossInv'
  BY <1>5, LossMoves, LossDelivers, LossPush DEF Goroutine
<1>6. CASE UNCHANGED vars
  BY <1>6 DEF vars, session, signal, stop, readers, LossInv, ByteTypes, CycleFits,
              PendingIsOwn, NoByteIsEarly, ReadsWhenPushed, NoGap, Split, Returned
<1> QED
  BY <1>1, <1>2, <1>3, <1>4, <1>5, <1>6 DEF Next

(***************************************************************************)
(* Whose bytes they are                                                    *)
(***************************************************************************)

\* Unless a goroutine was still there when its successor was started, those
\* before the current one are gone and nothing of theirs is left.
OwnOnly ==
  ~lingering =>
    /\ \A n \in Cycles : n < cycle => goroutine[n] \in {"none", "exited"}
    /\ \A i \in 1 .. Len(channel) : channel[i][1] = cycle
    /\ NoStaleBytes

\* Only the current goroutine is between its port and the channel.
LEMMA OnlyTheCurrentPushes ==
  ASSUME LossInv, OwnOnly, ~lingering, NEW n \in Cycles,
         goroutine[n] \notin {"none", "exited"}
  PROVE  n = cycle
<1>1. ~(n < cycle) /\ ~(n > cycle)
  BY DEF OwnOnly, LossInv, NoByteIsEarly
<1>2. n \in Nat /\ cycle \in Nat
  BY DEF Cycles, LossInv, ByteTypes
<1> QED
  BY <1>1, <1>2

\* The rest of the channel is of the same port.
LEMMA TailIsOwn ==
  ASSUME NEW s \in Seq(Bytes), s # <<>>, NEW m, \A i \in 1 .. Len(s) : s[i][1] = m
  PROVE  Head(s)[1] = m /\ \A i \in 1 .. Len(Tail(s)) : Tail(s)[i][1] = m
<1>1. /\ Len(s) \in Nat /\ Len(s) > 0 /\ Head(s) = s[1] /\ Len(Tail(s)) = Len(s) - 1
      /\ \A i \in 1 .. Len(Tail(s)) : Tail(s)[i] = s[i + 1]
  OBVIOUS
<1>2. \A i \in 1 .. Len(Tail(s)) : i + 1 \in 1 .. Len(s)
  BY <1>1
<1> QED
  BY <1>1, <1>2

\* Start drains the channel, only the current goroutine fills it, and Read
\* takes from it.
LEMMA OwnStep == LossInv /\ OwnOnly /\ [Next]_vars => OwnOnly'
<1> SUFFICES ASSUME LossInv, OwnOnly, [Next]_vars, ~lingering' PROVE OwnOnly'
  BY DEF OwnOnly
<1>0. /\ channel \in Seq(Bytes) /\ received \in Seq(Nat \X Bytes) /\ cycle \in Nat
      /\ goroutine \in [Cycles -> {"none", "checking", "reading", "pushing", "exited"}]
  BY DEF LossInv, ByteTypes
<1>1. CASE Arm
  <2>1. /\ ~lingering /\ \A n \in Cycles : goroutine[n] \in {"none", "exited"}
        /\ cycle' = cycle + 1 /\ channel' = <<>> /\ UNCHANGED received
        /\ goroutine' = [goroutine EXCEPT ![cycle + 1] = "checking"]
    BY <1>1 DEF Arm
  <2>2. \A n \in Cycles : n < cycle' => goroutine'[n] = goroutine[n]
    BY <1>0, <2>1
  <2>3. NoStaleBytes'
    BY <2>1 DEF OwnOnly, NoStaleBytes
  <2> QED
    BY <2>1, <2>2, <2>3 DEF OwnOnly
<1>2. CASE StartCalled \/ Drain
  <2>1. /\ ~lingering /\ UNCHANGED <<cycle, goroutine, received>>
        /\ channel' = channel \/ (channel # <<>> /\ channel' = Tail(channel))
    BY <1>2 DEF StartCalled, Drain, session, readers, history
  <2>2. NoStaleBytes'
    BY <2>1 DEF OwnOnly, NoStaleBytes
  <2>3. CASE channel' = channel
    BY <2>1, <2>2, <2>3 DEF OwnOnly
  <2>4. CASE channel # <<>> /\ channel' = Tail(channel)
    <3>1. \A i \in 1 .. Len(Tail(channel)) : Tail(channel)[i][1] = cycle
      BY <1>0, <2>1, <2>4, TailIsOwn DEF OwnOnly
    <3> QED
      BY <2>1, <2>2, <2>4, <3>1 DEF OwnOnly
  <2> QED
    BY <2>1, <2>3, <2>4
<1>3. CASE ReadByte
  <2>1. /\ ~lingering /\ UNCHANGED <<cycle, goroutine>> /\ channel # <<>>
        /\ channel' = Tail(channel)
        /\ received' = Append(received, <<cycle, Head(channel)>>)
    BY <1>3 DEF ReadByte, session, readers, history
  <2>2. Head(channel)[1] = cycle /\ \A i \in 1 .. Len(channel') : channel'[i][1] = cycle
    BY <1>0, <2>1, TailIsOwn DEF OwnOnly
  <2>3. NoStaleBytes'
    <3>1. PICK x : x = <<cycle, Head(channel)>>
      OBVIOUS
    <3>2. x \in Nat \X Bytes
      BY <1>0, <2>1, <3>1
    <3>3. /\ Len(received) \in Nat /\ Len(received') = Len(received) + 1
          /\ received'[Len(received) + 1] = x
          /\ \A i \in 1 .. Len(received) : received'[i] = received[i]
      BY <1>0, <2>1, <3>1, <3>2
    <3>4. \A i \in 1 .. Len(received') : i \in 1 .. Len(received) \/ i = Len(received) + 1
      BY <3>3
    <3>5. x[2][1] = x[1]
      BY <2>2, <3>1
    <3> QED
      BY <2>1, <3>3, <3>4, <3>5 DEF OwnOnly, NoStaleBytes
  <2> QED
    BY <2>1, <2>2, <2>3 DEF OwnOnly
<1>4. ASSUME NEW c \in Callers, StopCalled(c) \/ StopEnters(c) \/ StopCloses(c)
      PROVE  OwnOnly'
  <2>1. /\ ~lingering /\ UNCHANGED <<cycle, channel, received>>
        /\ goroutine' = goroutine \/ goroutine' = [n \in Cycles |-> "exited"]
    BY <1>4 DEF StopCalled, StopEnters, StopCloses, session, readers, history
  <2> QED
    BY <2>1 DEF OwnOnly, NoStaleBytes
<1>5. ASSUME NEW n \in Cycles, CheckDone(n) \/ PortDelivers(n) \/ PortFails(n)
                                 \/ PushStops(n) \/ Pushed(n)
      PROVE  OwnOnly'
  <2>1. /\ ~lingering /\ UNCHANGED <<cycle, channel, received>>
        /\ goroutine[n] \notin {"none", "exited"}
        /\ \A m \in Cycles : m # n => goroutine'[m] = goroutine[m]
    BY <1>0, <1>5 DEF CheckDone, PortDelivers, PortFails, PushStops, Pushed, session, history
  <2>2. n = cycle
    BY <2>1, OnlyTheCurrentPushes
  <2>3. \A m \in Cycles : m < cycle => goroutine'[m] = goroutine[m]
    BY <1>0, <2>1, <2>2
  <2> QED
    BY <2>1, <2>3 DEF OwnOnly, NoStaleBytes
<1>6. ASSUME NEW n \in Cycles, Push(n) PROVE OwnOnly'
  <2>1. /\ ~lingering /\ UNCHANGED <<cycle, goroutine, received>>
        /\ goroutine[n] = "pushing" /\ pending[n] # <<>>
        /\ channel' = Append(channel, Head(pending[n]))
    BY <1>6 DEF Push, session, history
  <2>2. n = cycle
    BY <2>1, OnlyTheCurrentPushes
  <2>3. PICK x : x = Head(pending[n])
    OBVIOUS
  <2>4. x \in Bytes /\ x[1] = cycle
    <3>1. pending[n] \in Seq(Bytes) /\ x = pending[n][1] /\ 1 \in 1 .. Len(pending[n])
      BY <2>1, <2>3 DEF LossInv, ByteTypes
    <3> QED
      BY <2>2, <3>1 DEF LossInv, PendingIsOwn
  <2>5. /\ Len(channel) \in Nat /\ Len(channel') = Len(channel) + 1
        /\ channel'[Len(channel) + 1] = x
        /\ \A i \in 1 .. Len(channel) : channel'[i] = channel[i]
    BY <1>0, <2>1, <2>3, <2>4
  <2>6. \A i \in 1 .. Len(channel') : i \in 1 .. Len(channel) \/ i = Len(channel) + 1
    BY <2>5
  <2> QED
    BY <2>1, <2>4, <2>5, <2>6 DEF OwnOnly, NoStaleBytes
<1>7. CASE UNCHANGED vars
  BY <1>7 DEF vars, session, readers, history, OwnOnly, NoStaleBytes
<1> QED
  BY <1>1, <1>2, <1>3, <1>4, <1>5, <1>6, <1>7 DEF Next, Goroutine

\* The port's own bytes, and what is left of them.
Gapless ==
  owner = "running" /\ cycle \notin closed =>
    Holds(Returned \o channel \o pending[cycle], cycle, 0, produced[cycle])

\* Whatever the sizes of the channel and of the port's reads, and however often
\* the reader was stopped and started before: until somebody stops it, the
\* port's bytes are received in order and without a gap.  The session receives
\* no others, if no earlier goroutine was left when one was started.
THEOREM PortsAreReceived == Spec => []PortIsReceived
<1>1. LossInv => Gapless
  <2> SUFFICES ASSUME LossInv, owner = "running", cycle \notin closed
               PROVE  Holds(Returned \o channel \o pending[cycle], cycle, 0, produced[cycle])
    BY DEF Gapless
  <2>1. PICK a, b \in Nat : Split(a, b)
    BY DEF LossInv, NoGap
  <2>2. /\ a <= b /\ b <= produced[cycle] /\ Holds(Returned, cycle, 0, a)
        /\ Holds(channel, cycle, a, b)
        /\ Holds(pending[cycle], cycle, b, produced[cycle])
    BY <2>1 DEF Split
  <2>3. /\ cycle \in Nat /\ Returned \in Seq(Bytes) /\ channel \in Seq(Bytes)
        /\ pending[cycle] \in Seq(Bytes) /\ produced[cycle] \in Nat
    BY ReturnedIs DEF LossInv, ByteTypes, CycleFits
  <2>4. PICK t \in Seq(Bytes) : t = Returned \o channel
    <3>1. \A r, c \in Seq(Bytes) : r \o c \in Seq(Bytes)
      OBVIOUS
    <3>2. Returned \o channel \in Seq(Bytes)
      BY <2>3, <3>1, Zenon
    <3> QED
      BY <3>2, Zenon
  <2>5. Holds(t, cycle, 0, b)
    BY <2>2, <2>3, <2>4, HoldsConcat
  <2>6. Holds(t \o pending[cycle], cycle, 0, produced[cycle])
    BY <2>2, <2>3, <2>5, HoldsConcat
  <2> QED
    BY <2>4, <2>6
<1>2. LossInv /\ OwnOnly => PortIsReceived
  BY <1>1 DEF Gapless, OwnOnly, NoStaleBytes, PortIsReceived
<1>3. Init => OwnOnly
  BY DEF Init, OwnOnly, NoStaleBytes, Cycles
<1> QED
  BY <1>2, <1>3, LossInit, LossStep, OwnStep, PTL DEF Spec
=============================================================================
