----------------------- MODULE MCPreviewConfirmation -----------------------
(* Two confirmations and a cancellation of one preview, for TLC.           *)
EXTENDS PreviewConfirmation, TLC
CONSTANTS c1, c2, k1

TwoConfirms == {c1, c2}
OneConfirm  == {c1}
OneCancel   == {k1}
Symmetry    == Permutations(TwoConfirms)
=============================================================================
