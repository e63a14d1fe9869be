------------------------ MODULE MCStagedPublication ------------------------
(* A video that may be replaced by one with another extension, its NFO and  *)
(* its information file.                                                    *)
EXTENDS StagedPublication
=============================================================================
