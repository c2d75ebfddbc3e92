----------------------------- MODULE Navigation -----------------------------
(***************************************************************************)
(* navigation.Store: the current turn and its maneuver icon.  The icon     *)
(* comes in chunks like NowPlaying's cover, but the store neither bounds   *)
(* an announcement nor expires a transfer nor checks a chunk's index, and  *)
(* it reports an icon only against the turn that names it.                 *)
(***************************************************************************)
EXTENDS ImageChunks

VARIABLES
  nav,          \* the icon id the current navigation refers to
  iconID, icon, \* the icon held: its id and its chunks in index order
  transfer,     \* the upload in progress, NoTransfer if none
  published,    \* the last snapshot given to the subscribers
  inFlight,     \* chunks on their way from the phone
  patient       \* a patient phone announces an icon only when nothing is on
                \* its way any more

vars == <<nav, iconID, icon, transfer, published, inFlight, patient>>

NoTransfer == [iconID |-> NoImage]

\* Reports whatever icon is held.
SnapshotOfAnyIcon(turn, id, bytes) ==
  [nav |-> turn, iconID |-> id, hasIcon |-> bytes # <<>>]

\* has_icon only when the icon held is the one the turn refers to.
Snapshot(turn, id, bytes) ==
  [nav |-> turn, iconID |-> id,
   hasIcon |-> bytes # <<>> /\ id # NoImage /\ id = turn]

Init ==
  /\ nav = NoImage /\ iconID = NoImage /\ icon = <<>>
  /\ transfer = NoTransfer
  /\ published = Snapshot(NoImage, NoImage, <<>>)
  /\ inFlight = {}
  /\ patient \in BOOLEAN

HandleNavigation(turn) ==
  /\ nav' = turn
  /\ published' = Snapshot(turn, iconID, icon)
  /\ UNCHANGED <<iconID, icon, transfer, inFlight, patient>>

HandleIconControl(i) ==
  /\ patient => inFlight = {}
  /\ inFlight' = inFlight \cup Chunks(i)
  /\ transfer' = [iconID |-> i, totalBytes |-> SizeOf(Chunks(i)),
                  chunkCount |-> Count(i), chunks |-> << >>, received |-> 0]
  /\ UNCHANGED <<nav, iconID, icon, published, patient>>

\* Forgets the length the duplicate replaces.
ReceivedCountingTwice(t, chunk) == t.received + Size(chunk)

\* A duplicate index overwrites, and its old length is taken off first.
Received(t, chunk) ==
  t.received + Size(chunk)
    - (IF chunk[2] \in DOMAIN t.chunks THEN Size(t.chunks[chunk[2]]) ELSE 0)

Stored(t, chunk) ==
  [t EXCEPT !.received = Received(t, chunk),
            !.chunks = [n \in DOMAIN @ \cup {chunk[2]} |->
                          IF n = chunk[2] THEN chunk ELSE @[n]]]

\* The payloads below chunk_count in index order; one beyond it was counted
\* but is left out.
Assembled(t) ==
  LET present == 1 .. t.chunkCount \cap DOMAIN t.chunks
      Ranked(r) == CHOOSE n \in present : Cardinality({m \in present : m <= n}) = r
  IN  [r \in 1 .. Cardinality(present) |-> t.chunks[Ranked(r)]]

\* One icon-data write: dropped without a transfer; too many bytes end the
\* transfer, exactly enough complete it.
HandleIconChunk(chunk) ==
  LET t == Stored(transfer, chunk) IN
  \/ /\ transfer = NoTransfer
     /\ UNCHANGED <<iconID, icon, transfer, published>>
  \/ /\ transfer # NoTransfer
     /\ \/ /\ t.received > t.totalBytes
           /\ transfer' = NoTransfer
           /\ UNCHANGED <<iconID, icon, published>>
        \/ /\ t.received < t.totalBytes
           /\ transfer' = t
           /\ UNCHANGED <<iconID, icon, published>>
        \/ /\ t.received = t.totalBytes
           /\ icon' = Assembled(t) /\ iconID' = t.iconID
           /\ transfer' = NoTransfer
           /\ published' = Snapshot(nav, t.iconID, Assembled(t))

\* Chunks arrive in any order, and again if the phone repeats one.
Deliver ==
  \E chunk \in inFlight :
    /\ HandleIconChunk(chunk)
    /\ inFlight' \in {inFlight, inFlight \ {chunk}}
    /\ UNCHANGED <<nav, patient>>

Lose ==
  /\ \E chunk \in inFlight : inFlight' = inFlight \ {chunk}
  /\ UNCHANGED <<nav, iconID, icon, transfer, published, patient>>

Next ==
  \/ \E turn \in Images \cup {NoImage} : HandleNavigation(turn)
  \/ \E i \in Images : HandleIconControl(i)
  \/ Deliver \/ Lose

Spec == Init /\ [][Next]_vars

(***************************************************************************)
(* Properties                                                              *)
(***************************************************************************)

\* "A stale icon is never reported against a new turn": the icon reported to a
\* patient phone's passenger is the whole picture the turn refers to, whatever
\* the chunks went through.
ReportedIconIsTheTurns ==
  patient /\ published.hasIcon =>
    published.nav \in Images /\ icon = Picture[published.nav]

\* The store implements the abstract image store for a patient phone, as its
\* listeners are told of it.
Shown == INSTANCE ImageStore WITH
           id <- IF patient THEN published.iconID ELSE NoImage,
           bytes <- IF patient THEN icon ELSE <<>>
ShowsWholeImages == Shown!Spec
=============================================================================
