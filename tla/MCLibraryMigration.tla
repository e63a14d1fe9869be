------------------------- MODULE MCLibraryMigration -------------------------
(* One task, at most two of its jobs at a time, and one migration.          *)
EXTENDS LibraryMigration
=============================================================================
