---------------------- MODULE MCChangeAwareSyncWorker ----------------------
(* Instances of ChangeAwareSyncWorker: the books domain comes before two    *)
(* reading-state domains that run concurrently.                             *)
EXTENDS ChangeAwareSyncWorker

CONSTANTS books, progress, bookmarks

StageOrder == [d \in Domains |-> IF d = books THEN 1 ELSE 2]

=============================================================================
