----------------------------- MODULE NowPlaying -----------------------------
(***************************************************************************)
(* nowplaying.Store: the track metadata and the cover art, which the phone *)
(* announces (art control) and then uploads in chunks over BLE writes      *)
(* without response.  Each handler holds the store's lock for its whole    *)
(* change, so a handler is one step; the notification it ends with is      *)
(* recorded in published, and SnapshotFeed models its delivery.            *)
(***************************************************************************)
EXTENDS ImageChunks

CONSTANTS
  MaxArtBytes,  \* largest total_bytes accepted (512 KiB in the code)
  MaxArtChunks  \* largest chunk_count accepted (4096 in the code)

ASSUME LimitsAssumption == MaxArtBytes \in Nat /\ MaxArtChunks \in Nat

VARIABLES
  metadata,  \* the art_id of the current track's metadata
  artID, art,\* the cover shown: its id and its chunks in index order
  transfer,  \* the upload in progress, NoTransfer if none
  published, \* the last snapshot given to the subscribers
  inFlight,  \* chunks on their way from the phone
  patient    \* a patient phone announces only what the store accepts, and only
             \* when nothing is on its way any more

vars == <<metadata, artID, art, transfer, published, inFlight, patient>>

NoTransfer == [artID |-> NoImage]

Snapshot(m, id, bytes) == [metadata |-> m, artID |-> id, hasArt |-> bytes # <<>>]

Init ==
  /\ metadata = NoImage /\ artID = NoImage /\ art = <<>>
  /\ transfer = NoTransfer
  /\ published = Snapshot(NoImage, NoImage, <<>>)
  /\ inFlight = {}
  /\ patient \in BOOLEAN

(***************************************************************************)
(* The GATT write handlers                                                 *)
(***************************************************************************)

HandleMetadata(m) ==
  /\ metadata' = m
  /\ published' = Snapshot(m, artID, art)
  /\ UNCHANGED <<artID, art, transfer, inFlight, patient>>

\* Checks the number of chunks only.
InRangeChunksOnly(i) == Count(i) \in 1 .. MaxArtChunks

InRange(i) ==
  SizeOf(Chunks(i)) \in 1 .. MaxArtBytes /\ Count(i) \in 1 .. MaxArtChunks

\* The phone announces image i and puts its chunks on the air.  A transfer out
\* of range is rejected and the one in progress, if any, is left as it is.
HandleArtControl(i) ==
  /\ patient => inFlight = {} /\ InRange(i)
  /\ inFlight' = inFlight \cup Chunks(i)
  /\ transfer' =
       IF InRange(i)
       THEN [artID |-> i, totalBytes |-> SizeOf(Chunks(i)), chunkCount |-> Count(i),
             chunks |-> << >>, received |-> 0, expired |-> FALSE]
       ELSE transfer
  /\ UNCHANGED <<metadata, artID, art, published, patient>>

\* Counts a duplicate chunk twice.
ReceivedCountingTwice(t, chunk) == t.received + Size(chunk)

\* A duplicate index overwrites, and its old length is taken off first.
Received(t, chunk) ==
  t.received + Size(chunk)
    - (IF chunk[2] \in DOMAIN t.chunks THEN Size(t.chunks[chunk[2]]) ELSE 0)

Stored(t, chunk) ==
  [t EXCEPT !.received = Received(t, chunk),
            !.chunks = [n \in DOMAIN @ \cup {chunk[2]} |->
                          IF n = chunk[2] THEN chunk ELSE @[n]]]

\* The payloads in index order; a missing one adds nothing.
Assembled(t) ==
  LET present == 1 .. t.chunkCount \cap DOMAIN t.chunks
      Ranked(r) == CHOOSE n \in present : Cardinality({m \in present : m <= n}) = r
  IN  [r \in 1 .. Cardinality(present) |-> t.chunks[Ranked(r)]]

Covered(t, chunk) == chunk[2] <= t.chunkCount

\* One art-data write.  Dropped without a transfer, after its time-to-live, or
\* with an index the announcement did not cover; too many bytes end the
\* transfer, exactly enough complete it.
HandleArtChunk(chunk) ==
  LET t == Stored(transfer, chunk) IN
  \/ /\ transfer = NoTransfer
     /\ UNCHANGED <<artID, art, transfer, published>>
  \/ /\ transfer # NoTransfer /\ transfer.expired
     /\ transfer' = NoTransfer
     /\ UNCHANGED <<artID, art, published>>
  \/ /\ transfer # NoTransfer /\ ~transfer.expired
     /\ ~Covered(transfer, chunk)
     /\ UNCHANGED <<artID, art, transfer, published>>
  \/ /\ transfer # NoTransfer /\ ~transfer.expired
     /\ Covered(transfer, chunk)
     /\ \/ /\ t.received > t.totalBytes
           /\ transfer' = NoTransfer
           /\ UNCHANGED <<artID, art, published>>
        \/ /\ t.received < t.totalBytes
           /\ transfer' = t
           /\ UNCHANGED <<artID, art, published>>
        \/ /\ t.received = t.totalBytes
           /\ art' = Assembled(t) /\ artID' = t.artID
           /\ transfer' = NoTransfer
           /\ published' = Snapshot(metadata, t.artID, Assembled(t))

(***************************************************************************)
(* Time and the air                                                        *)
(***************************************************************************)

\* The transfer is older than artTransferTTL; nothing notices until a chunk
\* arrives.
Expire ==
  /\ transfer # NoTransfer /\ ~transfer.expired
  /\ transfer' = [transfer EXCEPT !.expired = TRUE]
  /\ UNCHANGED <<metadata, artID, art, published, inFlight, patient>>

\* Chunks arrive in any order, and again if the phone repeats one.
Deliver ==
  \E chunk \in inFlight :
    /\ HandleArtChunk(chunk)
    /\ inFlight' \in {inFlight, inFlight \ {chunk}}
    /\ UNCHANGED <<metadata, patient>>

Lose ==
  /\ \E chunk \in inFlight : inFlight' = inFlight \ {chunk}
  /\ UNCHANGED <<metadata, artID, art, transfer, published, patient>>

Next ==
  \/ \E m \in Images \cup {NoImage} : HandleMetadata(m)
  \/ \E i \in Images : HandleArtControl(i)
  \/ Deliver \/ Expire \/ Lose

Spec == Init /\ [][Next]_vars

(***************************************************************************)
(* Properties                                                              *)
(***************************************************************************)

\* The store implements the abstract image store for a patient phone: a lost,
\* repeated, reordered or expired chunk never makes it announce to the listeners
\* anything but one whole image under its own id.
Shown == INSTANCE ImageStore WITH
           id <- IF patient THEN published.artID ELSE NoImage,
           bytes <- IF patient THEN art ELSE <<>>
ShowsWholeImages == Shown!Spec

\* An upload never buffers more than the accepted limits, whatever the phone
\* announces and whichever image's chunks arrive.
BufferIsBounded ==
  transfer # NoTransfer =>
    /\ SizeOf({transfer.chunks[n] : n \in DOMAIN transfer.chunks}) <= MaxArtBytes
    /\ Cardinality(DOMAIN transfer.chunks) <= MaxArtChunks
=============================================================================
