--------------------------- MODULE MCBackupRestore ---------------------------
(***************************************************************************)
(* Two servers in one data folder: everything happens to one, the other is *)
(* backed up at the same time.                                             *)
(***************************************************************************)
EXTENDS BackupRestore

CONSTANTS main, other

TwoServers == [s \in {main, other} |-> IF s = main THEN Requests ELSE {"backup"}]
=============================================================================
