---------------------------- MODULE MCFileBatch ----------------------------
(* Batches for TLC.                                                        *)
EXTENDS FileBatch

(* Item 1 moves an NFO and its media and patches the NFO; item 2 moves its *)
(* media and gets a new NFO.                                               *)
TwoItems     == <<1, 1, 2>>
TwoPatches   == <<1, 2>>
TwoMedia     == <<2, 3>>
MovedNfo     == <<1, 0>>
NewNfo       == {2}

(* Item 1 moves a subtitle and its media, item 2 has its NFO replaced where *)
(* it is, and item 3 gets a new NFO.                                       *)
OneGroup      == <<1, 1>>
InPlacePatches == <<2, 3>>
StayInPlace   == <<0, 0>>

(* Item 1 moves its NFO and its media and patches the NFO.                 *)
GroupPatch   == <<1>>
GroupMedia   == <<2>>
MovedPatched == <<1>>
=============================================================================
