----------------------------- MODULE AtomicUpdate -----------------------------
(***************************************************************************)
(* What a panel update promises: it is one step.  What a panel started now *)
(* would run, and the data it would find, is either the old version with   *)
(* the data as it was before the update, or the new version with data that *)
(* the new version may have migrated.  UpdateBundle implements it with a   *)
(* journal, renames and backups.                                           *)
(***************************************************************************)
VARIABLES installed, \* "old" or "new"
          migrated   \* the new version has changed the data

vars == <<installed, migrated>>

Init == installed = "old" /\ migrated = FALSE

\* The update counts from here on, with whatever its trial run has written.
Commit ==
  /\ installed = "old"
  /\ installed' = "new"
  /\ migrated' \in BOOLEAN

Migrate ==
  /\ installed = "new"
  /\ migrated' = TRUE
  /\ UNCHANGED installed

Next == Commit \/ Migrate

Spec == Init /\ [][Next]_vars
=============================================================================
