--------------------------- MODULE MCMediaClient ---------------------------
(***************************************************************************)
(* An instance of MediaClient for TLC: p1 sends audio and video, p2 audio. *)
(***************************************************************************)
EXTENDS MediaClient

CONSTANTS k1, k2, k3, p1, p2

MCOwnerOf == [k \in Consumer |-> IF k = k3 THEN p2 ELSE p1]
MCKindOf == [k \in Consumer |-> IF k = k2 THEN "video" ELSE "audio"]
=============================================================================
