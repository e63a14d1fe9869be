----------------------- MODULE MCSnapshotPublication -----------------------
(* The first build has one chunk; the second is refused until the chunk
   `big' is trimmed from it; a third, of two chunks it shares with them,
   takes MaxBuild = 2. *)
EXTENDS SnapshotPublication
CONSTANTS a, b, big, r1, r2

BuildParts == [n \in Builds |-> IF n = 0 THEN {a} ELSE IF n = 1 THEN {b, big} ELSE {a, b}]
=============================================================================
