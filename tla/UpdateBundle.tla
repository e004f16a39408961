----------------------------- MODULE UpdateBundle -----------------------------
(***************************************************************************)
(* services/updateBundle.ts: the native panel replaces its own files.  The *)
(* running panel stages a bundle.  When it has exited, the data is backed  *)
(* up and the files are swapped; the update is then either acknowledged,   *)
(* which removes the journal, or everything is put back.  PanelSupervisor  *)
(* has the steps of the supervisor that calls this.                        *)
(*                                                                         *)
(* live, stage, prev, data, saved, journal and result are on disk; pc,     *)
(* todo, cur, after and stopping are lost when the supervisor dies.  One   *)
(* action is one change of the disk, and a crash finds the disk as the     *)
(* last one left it.  The loops over files take them in any order.         *)
(* Removing or copying a tree is not atomic: in between it is "partial".   *)
(***************************************************************************)
EXTENDS Naturals

CONSTANTS
  Files,      \* the managed paths of the bundle (binary, client/dist, ...)
  Installed,  \* those that the old version has too
  DataNames,  \* the panel data that is backed up (panel.sqlite, jwt.secret, ...)
  Kept,       \* those that exist before the update
  NoFile,     \* no file in work
  MaxMishaps, \* how many crashes and failing file operations a behaviour has
  TidyFails,  \* the removal of the backup directory may fail half way
  Orphans     \* in which states the panel can outlive a killed supervisor

ASSUME FilesAssumption ==
  Files # {} /\ Installed \subseteq Files /\ NoFile \notin Files \cup DataNames
ASSUME DataAssumption == Kept \subseteq DataNames
ASSUME SwitchAssumption ==
  MaxMishaps \in Nat /\ TidyFails \in BOOLEAN /\ Orphans \subseteq {"booting", "running"}

VARIABLES live, stage, prev, data, saved, journal, result,
          pc, todo, cur, after, stopping,
          child,    \* the panel process: [state, version]
          mishaps   \* mishaps left

disk == <<live, stage, prev, data, saved, journal, result>>
tree == <<live, stage, prev>>
store == <<data, saved>>
mind == <<todo, cur, after, stopping>>
vars == <<disk, pc, mind, child, mishaps>>

Phases == {"none", "staged", "applying", "awaiting_startup_ack", "rollback_failed"}
Doing == {"applying", "awaiting_startup_ack", "rollback_failed"}
NoJournal == [phase |-> "none", saved |-> {}]
NoChild == [state |-> "none", version |-> "none"]

Old(f) == IF f \in Installed THEN "old" ELSE "none"
Before(d) == IF d \in Kept THEN "v1" ELSE "none"
AllOld == \A f \in Files : live[f] = Old(f)
AllNew == \A f \in Files : live[f] = "new"
Untouched == \A d \in DataNames : data[d] = Before(d)

RestorePcs == {"restore", "restoreIn", "restoreData", "restoreDataIn", "unmark", "clean"}
Pcs == {"off", "start", "watch", "verify", "backup", "mark", "swap", "swapIn", "arm",
        "health", "ack", "tidy", "stopChild", "rollback"} \cup RestorePcs

TypeOK ==
  /\ live \in [Files -> {"old", "new", "none", "partial"}]
  /\ stage \in [Files -> {"new", "none"}]
  /\ prev \in [Files -> {"old", "none"}]
  /\ data \in [DataNames -> {"v1", "v2", "none", "partial"}]
  /\ saved \in [DataNames -> {"v1", "none", "partial"}]
  /\ journal \in [phase: Phases, saved: SUBSET DataNames]
  /\ result \in {"none", "success", "failed"}
  /\ pc \in Pcs
  /\ todo \subseteq Files \cup DataNames
  /\ cur \in Files \cup DataNames \cup {NoFile}
  /\ after \in {"boot", "apply", "failed"}
  /\ stopping \in BOOLEAN
  /\ child \in [state: {"none", "booting", "running"}, version: {"none", "old", "new"}]
  /\ mishaps \in 0..MaxMishaps

Init ==
  /\ live = [f \in Files |-> Old(f)]
  /\ stage = [f \in Files |-> "none"]
  /\ prev = [f \in Files |-> "none"]
  /\ data = [d \in DataNames |-> Before(d)]
  /\ saved = [d \in DataNames |-> "none"]
  /\ journal = NoJournal
  /\ result = "none"
  /\ pc = "off"
  /\ todo = {}
  /\ cur = NoFile
  /\ after = "boot"
  /\ stopping = FALSE
  /\ child = NoChild
  /\ mishaps = MaxMishaps

Mishap == mishaps > 0 /\ mishaps' = mishaps - 1
Smoothly == UNCHANGED mishaps

Goto(l) == pc' = l /\ UNCHANGED mind
GiveUp(l, why) ==
  pc' = l /\ after' = why /\ todo' = {} /\ cur' = NoFile /\ UNCHANGED stopping
Loop(l, s) == pc' = l /\ todo' = s /\ UNCHANGED <<cur, after, stopping>>
WorkOn(l, x) == pc' = l /\ cur' = x /\ UNCHANGED <<todo, after, stopping>>
Done(l) == pc' = l /\ todo' = todo \ {cur} /\ cur' = NoFile /\ UNCHANGED <<after, stopping>>

\* launch(): the version is that of the files found now.
Launched == [state |-> "booting", version |-> IF AllNew THEN "new" ELSE "old"]
Launch(l) == child' = Launched /\ Goto(l)

-----------------------------------------------------------------------------
(* stageUpdateBundle, in the running panel.                                *)

\* The tree first, then the journal.
Stage ==
  /\ child = [state |-> "running", version |-> "old"]
  /\ journal.phase \in {"none", "staged"}
  /\ stage' = [f \in Files |-> "new"]
  /\ journal' = [phase |-> "staged", saved |-> {}]
  /\ UNCHANGED <<live, prev, store, result, pc, mind, child, mishaps>>

\* A virus scanner removes a staged file.
Quarantine(f) ==
  /\ Mishap
  /\ stage[f] = "new"
  /\ stage' = [stage EXCEPT ![f] = "none"]
  /\ UNCHANGED <<live, prev, store, journal, result, pc, mind, child>>

-----------------------------------------------------------------------------
(* applyUpdateBundle.                                                      *)

\* An error outside the try block: nothing was changed but the backup.
Refuse == GiveUp("rollback", "failed")
\* An error inside it: the first rollback is applyUpdateBundle's own.
Fail == GiveUp("rollback", "apply")

\* What is installed is what was there at staging, and the staged files are.
StageIntact ==
  \A f \in Files : stage[f] = "new" /\ (live[f] # "none" <=> f \in Installed)

\* Hashes of the staged files, then an empty backup directory.
Verify ==
  /\ pc = "verify"
  /\ UNCHANGED <<live, stage, data, journal, result, child, mishaps>>
  /\ \/ ~StageIntact /\ Refuse /\ UNCHANGED <<prev, saved>>
     \/ /\ StageIntact
        /\ prev' = [f \in Files |-> "none"]
        /\ saved' = [d \in DataNames |-> "none"]
        /\ Loop("backup", {d \in DataNames : data[d] # "none"})

\* Each data file is copied and the copy's hash compared.
Backup ==
  /\ pc = "backup"
  /\ UNCHANGED <<tree, data, journal, result, child>>
  /\ \/ todo = {} /\ Goto("mark") /\ UNCHANGED <<saved, mishaps>>
     \/ \E d \in todo : /\ saved' = [saved EXCEPT ![d] = data[d]]
                        /\ Loop("backup", todo \ {d})
                        /\ Smoothly
     \/ \E d \in todo : saved' = [saved EXCEPT ![d] = "partial"] /\ Mishap /\ Refuse

\* Phase `applying', with the list of saved data.
Mark ==
  /\ pc = "mark"
  /\ UNCHANGED <<tree, store, result, child>>
  /\ \/ /\ journal' = [phase |-> "applying",
                       saved |-> {d \in DataNames : saved[d] # "none"}]
        /\ Loop("swap", Files)
        /\ Smoothly
     \/ Mishap /\ Refuse /\ UNCHANGED journal

\* The live file goes to the backup directory.
Swap ==
  /\ pc = "swap"
  /\ UNCHANGED <<stage, store, journal, result, child>>
  /\ \/ todo = {} /\ Goto("arm") /\ UNCHANGED <<live, prev, mishaps>>
     \/ \E f \in todo :
          /\ live' = [live EXCEPT ![f] = "none"]
          /\ prev' = [prev EXCEPT ![f] = Old(f)]
          /\ WorkOn("swapIn", f)
          /\ Smoothly
     \/ todo # {} /\ Mishap /\ Fail /\ UNCHANGED <<live, prev>>

\* The staged file takes its place.
SwapIn ==
  /\ pc = "swapIn"
  /\ UNCHANGED <<prev, store, journal, result, child>>
  /\ \/ /\ stage[cur] = "new"
        /\ live' = [live EXCEPT ![cur] = "new"]
        /\ stage' = [stage EXCEPT ![cur] = "none"]
        /\ Done("swap")
        /\ Smoothly
     \/ stage[cur] = "none" /\ Fail /\ UNCHANGED <<live, stage, mishaps>>
     \/ Mishap /\ Fail /\ UNCHANGED <<live, stage>>

\* Mutant of Arm: the swap itself is reported as success.
ArmRecords ==
  /\ pc = "arm"
  /\ journal' = [journal EXCEPT !.phase = "awaiting_startup_ack"]
  /\ result' = "success"
  /\ Launch("health")
  /\ UNCHANGED <<tree, store, mishaps>>

\* Phase `awaiting_startup_ack', then the new panel is started.
Arm ==
  /\ pc = "arm"
  /\ UNCHANGED <<tree, store, result>>
  /\ \/ /\ journal' = [journal EXCEPT !.phase = "awaiting_startup_ack"]
        /\ Launch("health")
        /\ Smoothly
     \/ Mishap /\ Fail /\ UNCHANGED <<journal, child>>

-----------------------------------------------------------------------------
(* acknowledgeUpdateBundle.                                                *)

\* Mutant of Ack: the cleanup comes before the commit.
AckAfterTidy ==
  /\ pc = "ack"
  /\ UNCHANGED <<tree, data, result, child>>
  /\ Smoothly
  /\ IF \E d \in DataNames : saved[d] # "none"
       THEN /\ saved' = [d \in DataNames |-> "none"]
            /\ Goto("ack")
            /\ UNCHANGED journal
       ELSE journal' = NoJournal /\ Goto("tidy") /\ UNCHANGED saved

\* Up to the commit, the removal of the journal.
Ack ==
  /\ pc = "ack"
  /\ UNCHANGED <<tree, store, result, child>>
  /\ \/ AllNew /\ journal' = NoJournal /\ Goto("tidy") /\ Smoothly
     \/ Mishap /\ Goto("stopChild") /\ UNCHANGED journal  \* a check fails

\* The data backup is renamed out of the way and the rest removed; errors are
\* swallowed.  Then the result is recorded, if it can be.
Tidy ==
  /\ pc = "tidy"
  /\ UNCHANGED <<live, data, journal, child>>
  /\ Goto("watch")
  /\ \/ /\ stage' = [f \in Files |-> "none"]
        /\ prev' = [f \in Files |-> "none"]
        /\ saved' = [d \in DataNames |-> "none"]
        /\ Smoothly
     \/ Mishap /\ UNCHANGED <<stage, prev, saved>>
  /\ result' \in {result, "success"}

-----------------------------------------------------------------------------
(* recoverInterruptedUpdateBundle.                                         *)

\* Back in the supervisor: the result is recorded and the panel started,
\* unless it is stopping.
Resumed ==
  /\ result' \in {result, "failed"}
  /\ IF stopping THEN Goto("off") /\ UNCHANGED child ELSE Launch("watch")

\* An exception: the journal is written (again) as `rollback_failed', or not
\* even that works.  applyUpdateBundle's own rollback is tried again by the
\* supervisor; the others end it.
Stuck ==
  /\ Mishap
  /\ \/ journal' = [phase |-> "rollback_failed", saved |-> journal.saved]
     \/ UNCHANGED journal
  /\ GiveUp(IF after = "apply" THEN "rollback" ELSE "off", "failed")
  /\ UNCHANGED <<child, result>>

\* Mutant of Rollback: the journal is removed first.
RollbackUnmarksFirst ==
  /\ pc = "rollback"
  /\ journal' = NoJournal
  /\ UNCHANGED <<tree, store, mishaps>>
  /\ \/ journal.phase \notin Doing /\ Resumed
     \/ journal.phase \in Doing /\ Loop("restore", Files) /\ UNCHANGED <<result, child>>

\* Without a journal, or with a staged one, there is nothing to do.
Rollback ==
  /\ pc = "rollback"
  /\ UNCHANGED <<tree, store, journal, mishaps>>
  /\ \/ journal.phase \notin Doing /\ Resumed
     \/ journal.phase \in Doing /\ Loop("restore", Files) /\ UNCHANGED <<result, child>>

\* A file with a backup, or one that the old version did not have, goes.
Restore ==
  /\ pc = "restore"
  /\ UNCHANGED <<stage, prev, store>>
  /\ \/ /\ todo = {}
        /\ Loop("restoreData", DataNames)
        /\ UNCHANGED <<live, journal, result, child, mishaps>>
     \/ \E f \in todo :
          /\ IF prev[f] = "old" \/ f \notin Installed
               THEN live' = [live EXCEPT ![f] = "partial"] /\ WorkOn("restoreIn", f)
               ELSE Loop("restore", todo \ {f}) /\ UNCHANGED live
          /\ UNCHANGED <<journal, result, child, mishaps>>
     \/ Stuck /\ UNCHANGED live

RestoreIn ==
  /\ pc = "restoreIn"
  /\ UNCHANGED <<stage, store>>
  /\ \/ /\ live' = [live EXCEPT ![cur] = Old(cur)]
        /\ prev' = [prev EXCEPT ![cur] = "none"]
        /\ Done("restore")
        /\ UNCHANGED <<journal, result, child, mishaps>>
     \/ Stuck /\ UNCHANGED <<live, prev>>

\* Mutant of RestoreData: the hash of the backup is not compared.
RestoreDataUnverified ==
  /\ pc = "restoreData"
  /\ UNCHANGED <<tree, saved>>
  /\ \/ todo = {} /\ Goto("unmark") /\ UNCHANGED <<data, journal, result, child, mishaps>>
     \/ \E d \in todo :
          /\ data' = [data EXCEPT ![d] = "partial"]
          /\ WorkOn("restoreDataIn", d)
          /\ UNCHANGED <<journal, result, child, mishaps>>
     \/ Stuck /\ UNCHANGED data

\* A data file with an intact backup, or one without any, goes; a damaged
\* backup is an error.
RestoreData ==
  /\ pc = "restoreData"
  /\ UNCHANGED <<tree, saved>>
  /\ \/ todo = {} /\ Goto("unmark") /\ UNCHANGED <<data, journal, result, child, mishaps>>
     \/ \E d \in todo :
          /\ d \in journal.saved => saved[d] = "v1"
          /\ data' = [data EXCEPT ![d] = "partial"]
          /\ WorkOn("restoreDataIn", d)
          /\ UNCHANGED <<journal, result, child, mishaps>>
     \/ \E d \in todo :
          /\ d \in journal.saved /\ saved[d] # "v1"
          /\ journal' = [journal EXCEPT !.phase = "rollback_failed"]
          /\ GiveUp(IF after = "apply" THEN "rollback" ELSE "off", "failed")
          /\ UNCHANGED <<data, child, result, mishaps>>
     \/ Stuck /\ UNCHANGED data

RestoreDataIn ==
  /\ pc = "restoreDataIn"
  /\ UNCHANGED <<tree, saved>>
  /\ \/ /\ data' = [data EXCEPT ![cur] = IF cur \in journal.saved THEN saved[cur] ELSE "none"]
        /\ Done("restoreData")
        /\ UNCHANGED <<journal, result, child, mishaps>>
     \/ Stuck /\ UNCHANGED data

\* The journal goes first, then the directories.
Unmark ==
  /\ pc = "unmark"
  /\ UNCHANGED <<tree, store>>
  /\ \/ journal' = NoJournal /\ Goto("clean") /\ UNCHANGED <<result, child, mishaps>>
     \/ Stuck

\* Removing the directories can fail half way; the handler then writes the
\* journal of this call again, with the list of data it had read.
Clean ==
  /\ pc = "clean"
  /\ UNCHANGED <<live, data>>
  /\ stage' = [f \in Files |-> "none"]
  /\ prev' = [f \in Files |-> "none"]
  /\ \/ saved' = [d \in DataNames |-> "none"] /\ Resumed /\ UNCHANGED <<journal, mishaps>>
     \/ /\ TidyFails
        /\ Mishap
        /\ \E lost \in SUBSET DataNames :
             saved' = [d \in DataNames |-> IF d \in lost THEN "none" ELSE saved[d]]
        /\ journal' = [phase |-> "rollback_failed", saved |-> Kept]
        /\ GiveUp(IF after = "apply" THEN "rollback" ELSE "off", "failed")
        /\ UNCHANGED <<child, result>>
=============================================================================
