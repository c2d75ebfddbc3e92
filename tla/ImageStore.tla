----------------------------- MODULE ImageStore -----------------------------
(***************************************************************************)
(* What a store of companion images promises: it shows nothing, and then   *)
(* one whole image after another under that image's own id.  The chunked   *)
(* transfers of NowPlaying and Navigation implement it.                    *)
(***************************************************************************)
CONSTANTS
  Images,    \* image ids
  NoImage,   \* no id
  Picture    \* Picture[i]: the bytes of image i

VARIABLES id, bytes

vars == <<id, bytes>>

Init == id = NoImage /\ bytes = <<>>

Show(i) == id' = i /\ bytes' = Picture[i]

Next == \E i \in Images : Show(i)

Spec == Init /\ [][Next]_vars
=============================================================================
