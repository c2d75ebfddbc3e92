---------------------------- MODULE ImageChunks ----------------------------
(***************************************************************************)
(* The images a companion phone may send, as the stores see them: an id,   *)
(* and the lengths of the chunks the picture is cut into.  A chunk is      *)
(* <<image, index>>; its length is Lengths[image][index].                  *)
(***************************************************************************)
EXTENDS Integers, Sequences, FiniteSets, SequencesExt

CONSTANTS
  Images,   \* the images the phone may send
  NoImage,  \* no id: "" or null
  Lengths   \* Lengths[i]: the lengths of image i's chunks

ASSUME ImagesAssumption ==
  /\ NoImage \notin Images
  /\ Lengths \in [Images -> Seq(Nat \ {0})]
  /\ \A i \in Images : Len(Lengths[i]) > 0

Count(i) == Len(Lengths[i])
Chunks(i) == {<<i, n>> : n \in 1 .. Count(i)}
Size(chunk) == Lengths[chunk[1]][chunk[2]]
SizeOf(chunks) == MapThenSumSet(Size, chunks)
Picture == [i \in Images |-> [n \in 1 .. Count(i) |-> <<i, n>>]]
=============================================================================
