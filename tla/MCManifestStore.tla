--------------------------- MODULE MCManifestStore ---------------------------
(* A small instance of the manifest store: two batches of one index run.   *)
EXTENDS ManifestStore

MCTime == 1..2
=============================================================================
