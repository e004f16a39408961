---------------------------- MODULE PanelSupervisor ----------------------------
(***************************************************************************)
(* services/panelSupervisor.ts around UpdateBundle: the supervisor starts  *)
(* the panel, waits for its exit, applies a staged update, waits for the   *)
(* health of the new panel, and commits or rolls back.  The panel process, *)
(* crashes of the host and of the supervisor alone are the environment.    *)
(***************************************************************************)
EXTENDS UpdateBundle

\* The panel takes panel.lock and opens its data.
ChildRuns ==
  /\ child.state = "booting"
  /\ child' = [child EXCEPT !.state = "running"]
  /\ UNCHANGED <<disk, pc, mind, mishaps>>

\* A new panel migrates its data, one file at a time.
Migrate(d) ==
  /\ child = [state |-> "running", version |-> "new"]
  /\ data' = [data EXCEPT ![d] = "v2"]
  /\ UNCHANGED <<tree, saved, journal, result, pc, mind, child, mishaps>>

-----------------------------------------------------------------------------
(* The supervisor: startup and the loop over exits of the panel.           *)

\* The service manager starts it again.
Start ==
  /\ pc = "off"
  /\ pc' = "start"
  /\ todo' = {}
  /\ cur' = NoFile
  /\ after' = "boot"
  /\ stopping' = FALSE
  /\ UNCHANGED <<disk, child, mishaps>>

\* Mutant of Startup: panel.lock is not looked at.
StartupUnchecked ==
  /\ pc = "start"
  /\ UNCHANGED <<disk, mishaps>>
  /\ \/ journal.phase \in Doing /\ Goto("rollback") /\ UNCHANGED child
     \/ journal.phase \notin Doing /\ Launch("watch")

\* Mutant of Startup: a rollback that failed before is left to the operator.
StartupRefuses ==
  /\ pc = "start"
  /\ UNCHANGED <<disk, mishaps>>
  /\ \/ (child.state = "running" \/ journal.phase = "rollback_failed") /\ Goto("off")
          /\ UNCHANGED child
     \/ child.state # "running" /\ journal.phase \in Doing \ {"rollback_failed"}
          /\ Goto("rollback") /\ UNCHANGED child
     \/ child.state # "running" /\ journal.phase \notin Doing /\ Launch("watch")

\* panel.lock of a living panel stops it, otherwise rollback or launch.
Startup ==
  /\ pc = "start"
  /\ UNCHANGED <<disk, mishaps>>
  /\ \/ child.state = "running" /\ Goto("off") /\ UNCHANGED child
     \/ child.state # "running" /\ journal.phase \in Doing /\ Goto("rollback")
          /\ UNCHANGED child
     \/ child.state # "running" /\ journal.phase \notin Doing /\ Launch("watch")

\* SIGTERM: the panel is told to stop, the loop will end.
Stop ==
  /\ pc \in {"watch", "health", "stopChild"}
  /\ stopping' = TRUE
  /\ UNCHANGED <<disk, pc, todo, cur, after, child, mishaps>>

\* The panel is gone: for good (told to, or after too many crashes), or to be
\* started again, or to be updated.
ChildExits ==
  /\ pc = "watch"
  /\ UNCHANGED <<disk, mishaps>>
  /\ \/ child' = NoChild /\ Goto("off")
     \/ ~stopping /\ Launch("watch")
     \/ /\ ~stopping
        /\ child.state = "running"
        /\ journal.phase = "staged"
        /\ child' = NoChild
        /\ Goto("verify")

\* Healthy, or exited (also because it was told to stop), or too late.
Health ==
  /\ pc = "health"
  /\ UNCHANGED <<disk, child, mishaps>>
  /\ \/ child.state = "running" /\ Goto("ack")
     \/ Goto("stopChild")

\* stopPanel, which returns when the panel is gone.
StopChild ==
  /\ pc = "stopChild"
  /\ child' = NoChild
  /\ after' = "failed"
  /\ pc' = "rollback"
  /\ UNCHANGED <<disk, todo, cur, stopping, mishaps>>

-----------------------------------------------------------------------------
(* Crashes.                                                                *)

\* The host goes down.
Crash ==
  /\ Mishap
  /\ pc # "off"
  /\ Goto("off")
  /\ child' = NoChild
  /\ UNCHANGED disk

\* The supervisor alone is killed.  The packaged unit has KillMode=process:
\* the panel lives on.
SupervisorDies ==
  /\ Mishap
  /\ pc # "off"
  /\ child.state \in Orphans
  /\ Goto("off")
  /\ UNCHANGED <<disk, child>>

\* Such a panel ends.
OrphanExits ==
  /\ pc = "off"
  /\ child # NoChild
  /\ child' = NoChild
  /\ UNCHANGED <<disk, pc, mind, mishaps>>

-----------------------------------------------------------------------------
Environment ==
  \/ ChildRuns \/ Stage \/ ChildExits \/ OrphanExits
  \/ Stop \/ Crash \/ SupervisorDies
  \/ \E d \in DataNames : Migrate(d)
  \/ \E f \in Files : Quarantine(f)

Supervisor ==
  \/ Start \/ Startup \/ Verify \/ Backup \/ Mark \/ Swap \/ SwapIn \/ Arm
  \/ Health \/ Ack \/ Tidy \/ StopChild
  \/ Rollback \/ Restore \/ RestoreIn \/ RestoreData \/ RestoreDataIn \/ Unmark \/ Clean

Next == Environment \/ Supervisor

Spec == Init /\ [][Next]_vars

\* The supervisor is started again and takes its steps; the panel need do
\* nothing.
FairSpec == Spec /\ WF_vars(Supervisor)

-----------------------------------------------------------------------------
(* Why it works, as an inductive invariant.                                *)

Underway == journal.phase \in Doing
Alone == {"verify", "backup", "mark", "swap", "swapIn", "arm", "rollback"} \cup RestorePcs

\* What the journal says of the disk.
JournalInv ==
  /\ journal.phase = "staged" => AllOld /\ Untouched
  /\ journal.phase = "none" => AllNew \/ (AllOld /\ Untouched)
  /\ Underway => /\ journal.saved = Kept
                 /\ \A f \in Installed : live[f] = "old" \/ prev[f] = "old"
                 /\ ~TidyFails => \A d \in Kept : saved[d] = "v1"

\* When there is a panel, and what it has under it.
PanelInv ==
  /\ pc \in Alone => child.state = "none"
  /\ pc \in {"off", "start"} => child.state # "booting"
  /\ pc \in {"watch", "health", "ack", "tidy", "stopChild"} => child.state # "none"
  /\ child.state # "none" =>
       \/ child.version = "new" /\ AllNew /\ journal.phase \in {"none", "awaiting_startup_ack"}
       \/ child.version = "old" /\ AllOld /\ Untouched /\ ~Underway

\* How far the apply has come.
ApplyInv ==
  /\ pc \in {"verify", "backup", "mark"} => journal.phase = "staged"
  /\ pc = "backup" => /\ todo \subseteq Kept
                      /\ \A d \in DataNames \ todo : saved[d] = Before(d)
  /\ pc = "mark" => \A d \in DataNames : saved[d] = Before(d)
  /\ pc \in {"swap", "swapIn", "arm"} => /\ journal.phase = "applying"
                                         /\ todo \subseteq Files
                                         /\ \A f \in Files \ todo : live[f] = "new"
  /\ pc = "swapIn" => cur \in todo /\ (cur \in Installed => prev[cur] = "old")
  /\ pc = "arm" => todo = {}
  /\ pc \in {"health", "ack", "stopChild"} => journal.phase = "awaiting_startup_ack" /\ AllNew
  /\ pc = "tidy" => journal.phase = "none" /\ AllNew
  /\ pc = "watch" => ~Underway

\* How far the rollback has come.
RestoreInv ==
  /\ pc = "rollback" => journal.phase # "none"
  /\ pc \in RestorePcs \ {"clean"} => Underway
  /\ pc \in {"restore", "restoreIn"} => /\ todo \subseteq Files
                                        /\ \A f \in Files \ todo : live[f] = Old(f)
  /\ pc = "restoreIn" => cur \in todo
  /\ pc \in {"restoreData", "restoreDataIn"} => /\ AllOld
                                                /\ todo \subseteq DataNames
                                                /\ \A d \in DataNames \ todo : data[d] = Before(d)
  /\ pc = "restoreDataIn" => cur \in todo /\ (cur \in Kept => saved[cur] = "v1")
  /\ pc \in {"unmark", "clean"} => AllOld /\ Untouched
  /\ pc = "clean" => journal.phase = "none"

\* The journal, the panel process and the step of the supervisor fit together
\* in every state: what is inductive about the protocol.
ProtocolInv == JournalInv /\ PanelInv /\ ApplyInv /\ RestoreInv

-----------------------------------------------------------------------------
(* Properties.                                                             *)

\* A panel is started from, and has under it while it lives, the files of one
\* version: never a mixture that an interrupted swap or rollback left behind.
RunsWholeVersion ==
  child.state # "none" => IF child.version = "new" THEN AllNew ELSE AllOld

\* The old panel never meets data that the new one migrated or that a rollback
\* restored in part.
OldPanelFindsOldData == child.state # "none" /\ child.version = "old" => Untouched

\* As long as a journal announces work on the files, every old file and every
\* data file can be put back: none exists only as what the update made of it.
Recoverable ==
  journal.phase \in Doing =>
    /\ \A f \in Installed : live[f] = "old" \/ prev[f] = "old"
    /\ journal.saved = Kept
    /\ \A d \in Kept : saved[d] = "v1"

\* Without such a journal no recovery will run, so nothing may need one.
NothingLeftBehind ==
  journal.phase \notin Doing => AllNew \/ (AllOld /\ Untouched)

\* Files and data are restored only when no panel uses them (the check of
\* panel.lock, the exit of the child).
RecoversAlone == pc \in RestorePcs => child.state # "running"

\* The recorded result says what happened: success once the update is
\* committed, failure once everything is back.
TruthfulResult ==
  [][ result' # result =>
        /\ journal'.phase \notin Doing
        /\ result' = "success" => AllNew
        /\ result' = "failed" => AllOld /\ Untouched ]_vars

\* A supervisor that starts brings a panel up, whatever it found.
PanelComesBack == pc = "start" ~> child.state # "none"

\* The update is one step, the removal of the journal, for whoever starts
\* the panel before or after it.
Committed == journal.phase \notin Doing /\ AllNew
Migrated == Committed /\ \E d \in DataNames : data[d] = "v2"

Atomic == INSTANCE AtomicUpdate WITH
  installed <- IF Committed THEN "new" ELSE "old", migrated <- Migrated

ImplementsAtomicUpdate == Atomic!Spec
=============================================================================
