------------------------- MODULE PanelSupervisorProofs -------------------------
(***************************************************************************)
(* Proofs about PanelSupervisor, for any bundle, any data files and any    *)
(* number of mishaps.  The inductive invariant is TypeOK /\ ProtocolInv:   *)
(* the journal says what is on the disk (JournalInv), a panel lives only   *)
(* on files of one version (PanelInv), and the position of the apply and   *)
(* of the rollback bounds what is half done (ApplyInv, RestoreInv).  There *)
(* is one lemma per action, with one step per part of the invariant.       *)
(***************************************************************************)
EXTENDS PanelSupervisor, TLAPS

IInv == TypeOK /\ ProtocolInv

\* A supervisor is not killed between the launch of a panel and that panel's
\* panel.lock: until then the next supervisor could not see it.
NoBootingOrphan == "booting" \notin Orphans

LEMMA InitInv ==
  ASSUME Init
  PROVE  IInv
<1>1. TypeOK
  <2>1. /\ live \in [Files -> {"old", "new", "none", "partial"}]
        /\ stage \in [Files -> {"new", "none"}]
        /\ prev \in [Files -> {"old", "none"}]
    BY DEF Init, Old
  <2>2. /\ data \in [DataNames -> {"v1", "v2", "none", "partial"}]
        /\ saved \in [DataNames -> {"v1", "none", "partial"}]
    BY DEF Init, Before
  <2>3. /\ journal \in [phase: Phases, saved: SUBSET DataNames]
        /\ child \in [state: {"none", "booting", "running"}, version: {"none", "old", "new"}]
    BY DEF Init, NoJournal, NoChild, Phases
  <2>4. /\ result \in {"none", "success", "failed"}
        /\ pc \in Pcs
        /\ todo \subseteq Files \cup DataNames
        /\ cur \in Files \cup DataNames \cup {NoFile}
        /\ after \in {"boot", "apply", "failed"}
        /\ stopping \in BOOLEAN
    BY DEF Init, Pcs
  <2>5. mishaps \in 0..MaxMishaps
    BY SwitchAssumption DEF Init
  <2> QED
    BY <2>1, <2>2, <2>3, <2>4, <2>5 DEF TypeOK
<1>2. JournalInv /\ PanelInv
  BY <1>1
  DEF Init, JournalInv, PanelInv, NoJournal, NoChild, Underway, Doing, AllOld, Untouched, Alone
<1>3. ApplyInv /\ RestoreInv
  BY DEF Init, ApplyInv, RestoreInv, RestorePcs
<1> QED
  BY <1>1, <1>2, <1>3 DEF IInv, ProtocolInv

-----------------------------------------------------------------------------
(* The panel, the operator and mishaps.                                   *)

LEMMA ChildRunsStep ==
  ASSUME IInv, ChildRuns
  PROVE  IInv'
<1>1. TypeOK'
  BY DEF IInv, ChildRuns, disk, mind, TypeOK
<1>2. JournalInv'
  BY DEF IInv, ProtocolInv, ChildRuns, disk, mind, JournalInv, AllOld,
      AllNew, Untouched, Underway
<1>3. PanelInv'
  BY DEF IInv, ProtocolInv, ChildRuns, disk, mind, PanelInv, AllOld,
      AllNew, Untouched, Underway
<1>4. ApplyInv'
  BY DEF IInv, ProtocolInv, ChildRuns, disk, mind, ApplyInv, AllOld,
      AllNew, Untouched, Underway
<1>5. RestoreInv'
  BY DEF IInv, ProtocolInv, ChildRuns, disk, mind, RestoreInv, AllOld,
      AllNew, Untouched, Underway
<1> QED
  BY <1>1, <1>2, <1>3, <1>4, <1>5 DEF IInv, ProtocolInv

LEMMA StageStep ==
  ASSUME IInv, Stage
  PROVE  IInv'
<1>1. TypeOK'
  BY DEF IInv, Stage, store, mind, TypeOK, Phases
<1>2. JournalInv'
  BY DEF IInv, ProtocolInv, Stage, store, mind, JournalInv, AllOld,
      AllNew, Untouched, Underway, Doing, PanelInv
<1>3. PanelInv'
  BY DEF IInv, ProtocolInv, Stage, store, mind, PanelInv, AllOld, AllNew,
      Untouched, Underway, Doing
<1>4. ApplyInv'
  BY FilesAssumption DEF IInv, ProtocolInv, Stage, store, mind, ApplyInv,
      AllOld, AllNew, Untouched, Underway, Doing, Old, PanelInv
<1>5. RestoreInv'
  BY DEF IInv, ProtocolInv, Stage, store, mind, RestoreInv, AllOld,
      AllNew, Untouched, Underway, RestorePcs, Alone, PanelInv
<1> QED
  BY <1>1, <1>2, <1>3, <1>4, <1>5 DEF IInv, ProtocolInv

LEMMA ChildExitsStep ==
  ASSUME IInv, ChildExits
  PROVE  IInv'
<1>1. TypeOK'
  BY DEF IInv, ChildExits, disk, NoChild, Goto, Launch, mind, Launched,
      TypeOK, Pcs
<1>2. JournalInv'
  BY DEF IInv, ProtocolInv, ChildExits, disk, NoChild, Goto, Launch, mind,
      Launched, JournalInv, AllOld, AllNew, Untouched, Underway
<1>3. PanelInv'
  BY FilesAssumption DEF IInv, ProtocolInv, ChildExits, disk, NoChild,
      Goto, Launch, mind, Launched, AllNew, PanelInv, AllOld, Untouched,
      Underway, Old
<1>4. ApplyInv'
  BY DEF IInv, ProtocolInv, ChildExits, disk, NoChild, Goto, Launch, mind,
      Launched, ApplyInv, AllOld, AllNew, Untouched, Underway
<1>5. RestoreInv'
  BY DEF IInv, ProtocolInv, ChildExits, disk, NoChild, Goto, Launch, mind,
      Launched, AllNew, RestoreInv, AllOld, Untouched, Underway,
      RestorePcs
<1> QED
  BY <1>1, <1>2, <1>3, <1>4, <1>5 DEF IInv, ProtocolInv

LEMMA OrphanExitsStep ==
  ASSUME IInv, OrphanExits
  PROVE  IInv'
<1>1. TypeOK'
  BY DEF IInv, OrphanExits, NoChild, disk, mind, TypeOK
<1>2. JournalInv'
  BY DEF IInv, ProtocolInv, OrphanExits, NoChild, disk, mind, JournalInv,
      AllOld, AllNew, Untouched, Underway
<1>3. PanelInv'
  BY DEF IInv, ProtocolInv, OrphanExits, NoChild, disk, mind, PanelInv
<1>4. ApplyInv'
  BY DEF IInv, ProtocolInv, OrphanExits, NoChild, disk, mind, ApplyInv
<1>5. RestoreInv'
  BY DEF IInv, ProtocolInv, OrphanExits, NoChild, disk, mind, RestoreInv,
      AllOld, AllNew, Untouched, Underway
<1> QED
  BY <1>1, <1>2, <1>3, <1>4, <1>5 DEF IInv, ProtocolInv

LEMMA StopStep ==
  ASSUME IInv, Stop
  PROVE  IInv'
<1>1. TypeOK'
  BY DEF IInv, Stop, disk, TypeOK
<1>2. JournalInv'
  BY DEF IInv, ProtocolInv, Stop, disk, JournalInv, AllOld, AllNew,
      Untouched, Underway
<1>3. PanelInv'
  BY DEF IInv, ProtocolInv, Stop, disk, PanelInv, AllOld, AllNew,
      Untouched, Underway
<1>4. ApplyInv'
  BY DEF IInv, ProtocolInv, Stop, disk, ApplyInv, AllOld, AllNew,
      Untouched, Underway
<1>5. RestoreInv'
  BY DEF IInv, ProtocolInv, Stop, disk, RestoreInv, AllOld, AllNew,
      Untouched, Underway
<1> QED
  BY <1>1, <1>2, <1>3, <1>4, <1>5 DEF IInv, ProtocolInv

LEMMA CrashStep ==
  ASSUME IInv, Crash
  PROVE  IInv'
<1>1. TypeOK'
  BY SwitchAssumption DEF IInv, Crash, Mishap, Goto, NoChild, disk, mind,
      TypeOK, Pcs
<1>2. JournalInv'
  BY DEF IInv, ProtocolInv, Crash, Mishap, Goto, NoChild, disk, mind,
      JournalInv, AllOld, AllNew, Untouched, Underway
<1>3. PanelInv'
  BY DEF IInv, ProtocolInv, Crash, Mishap, Goto, NoChild, disk, mind,
      PanelInv
<1>4. ApplyInv'
  BY DEF IInv, ProtocolInv, Crash, Mishap, Goto, NoChild, disk, mind,
      ApplyInv
<1>5. RestoreInv'
  BY DEF IInv, ProtocolInv, Crash, Mishap, Goto, NoChild, disk, mind,
      RestoreInv, AllOld, AllNew, Untouched, Underway, RestorePcs
<1> QED
  BY <1>1, <1>2, <1>3, <1>4, <1>5 DEF IInv, ProtocolInv

LEMMA SupervisorDiesStep ==
  ASSUME NoBootingOrphan, IInv, SupervisorDies
  PROVE  IInv'
<1>1. TypeOK'
  BY SwitchAssumption DEF IInv, SupervisorDies, Mishap, Goto, disk, mind,
      TypeOK, Pcs
<1>2. JournalInv'
  BY DEF IInv, ProtocolInv, SupervisorDies, Mishap, Goto, disk, mind,
      JournalInv, AllOld, AllNew, Untouched, Underway
<1>3. PanelInv'
  BY DEF IInv, ProtocolInv, SupervisorDies, Mishap, Goto, disk, mind,
      PanelInv, AllOld, AllNew, Untouched, Underway, RestorePcs, Alone,
      NoBootingOrphan
<1>4. ApplyInv'
  BY DEF IInv, ProtocolInv, SupervisorDies, Mishap, Goto, disk, mind,
      ApplyInv
<1>5. RestoreInv'
  BY DEF IInv, ProtocolInv, SupervisorDies, Mishap, Goto, disk, mind,
      RestoreInv, AllOld, AllNew, Untouched, Underway, RestorePcs
<1> QED
  BY <1>1, <1>2, <1>3, <1>4, <1>5 DEF IInv, ProtocolInv

LEMMA MigrateStep ==
  ASSUME NEW d \in DataNames, IInv, Migrate(d)
  PROVE  IInv'
<1>1. TypeOK'
  BY DEF IInv, Migrate, tree, mind, TypeOK
<1>2. JournalInv'
  BY DEF IInv, ProtocolInv, Migrate, tree, mind, JournalInv, AllOld,
      AllNew, Untouched, Underway, PanelInv
<1>3. PanelInv'
  BY DEF IInv, ProtocolInv, Migrate, tree, mind, PanelInv, AllOld, AllNew,
      Untouched, Underway
<1>4. ApplyInv'
  BY DEF IInv, ProtocolInv, Migrate, tree, mind, ApplyInv, AllOld, AllNew,
      Untouched, Underway
<1>5. RestoreInv'
  BY DEF IInv, ProtocolInv, Migrate, tree, mind, RestoreInv, AllOld,
      AllNew, Untouched, Underway, RestorePcs, Alone, PanelInv
<1> QED
  BY <1>1, <1>2, <1>3, <1>4, <1>5 DEF IInv, ProtocolInv

LEMMA QuarantineStep ==
  ASSUME NEW f \in Files, IInv, Quarantine(f)
  PROVE  IInv'
<1>1. TypeOK'
  BY SwitchAssumption DEF IInv, Quarantine, Mishap, store, mind, TypeOK
<1>2. JournalInv'
  BY DEF IInv, ProtocolInv, Quarantine, Mishap, store, mind, JournalInv,
      AllOld, AllNew, Untouched, Underway
<1>3. PanelInv'
  BY DEF IInv, ProtocolInv, Quarantine, Mishap, store, mind, PanelInv,
      AllOld, AllNew, Untouched, Underway
<1>4. ApplyInv'
  BY DEF IInv, ProtocolInv, Quarantine, Mishap, store, mind, ApplyInv,
      AllOld, AllNew, Untouched, Underway
<1>5. RestoreInv'
  BY DEF IInv, ProtocolInv, Quarantine, Mishap, store, mind, RestoreInv,
      AllOld, AllNew, Untouched, Underway
<1> QED
  BY <1>1, <1>2, <1>3, <1>4, <1>5 DEF IInv, ProtocolInv

-----------------------------------------------------------------------------
(* The supervisor starts, and applies an update.                          *)

LEMMA StartStep ==
  ASSUME IInv, Start
  PROVE  IInv'
<1>1. TypeOK'
  BY DEF IInv, Start, disk, TypeOK, Pcs
<1>2. JournalInv'
  BY DEF IInv, ProtocolInv, Start, disk, JournalInv, AllOld, AllNew,
      Untouched, Underway
<1>3. PanelInv'
  BY DEF IInv, ProtocolInv, Start, disk, PanelInv, AllOld, AllNew,
      Untouched, Underway, RestorePcs, Alone
<1>4. ApplyInv'
  BY DEF IInv, ProtocolInv, Start, disk, ApplyInv
<1>5. RestoreInv'
  BY DEF IInv, ProtocolInv, Start, disk, RestoreInv, AllOld, AllNew,
      Untouched, Underway, RestorePcs
<1> QED
  BY <1>1, <1>2, <1>3, <1>4, <1>5 DEF IInv, ProtocolInv

LEMMA StartupStep ==
  ASSUME IInv, Startup
  PROVE  IInv'
<1>1. TypeOK'
  BY DEF IInv, Startup, disk, Goto, Launch, mind, Launched, TypeOK, Pcs
<1>2. JournalInv'
  BY DEF IInv, ProtocolInv, Startup, disk, Goto, Launch, mind, Launched,
      JournalInv, AllOld, AllNew, Untouched, Underway
<1>3. PanelInv'
  BY FilesAssumption DEF IInv, ProtocolInv, Startup, disk, Goto, Doing,
      Launch, mind, Launched, AllNew, PanelInv, AllOld, Untouched,
      Underway, Old, RestorePcs, Alone, JournalInv, TypeOK, Phases
<1>4. ApplyInv'
  BY DEF IInv, ProtocolInv, Startup, disk, Goto, Launch, mind, Launched,
      ApplyInv, AllOld, AllNew, Untouched, Underway
<1>5. RestoreInv'
  BY DEF IInv, ProtocolInv, Startup, disk, Goto, Launch, mind, Launched,
      AllNew, RestoreInv, AllOld, Untouched, Underway, RestorePcs, Doing
<1> QED
  BY <1>1, <1>2, <1>3, <1>4, <1>5 DEF IInv, ProtocolInv

LEMMA VerifyStep ==
  ASSUME IInv, Verify
  PROVE  IInv'
<1>1. TypeOK'
  BY DEF IInv, Verify, StageIntact, Refuse, Loop, GiveUp, TypeOK, Pcs
<1>2. JournalInv'
  BY DEF IInv, ProtocolInv, Verify, StageIntact, Refuse, Loop, GiveUp,
      JournalInv, AllOld, AllNew, Untouched, Underway, Doing, ApplyInv
<1>3. PanelInv'
  BY DEF IInv, ProtocolInv, Verify, StageIntact, Refuse, Loop, GiveUp,
      PanelInv, AllOld, AllNew, Untouched, Underway, Alone
<1>4. ApplyInv'
  BY DEF IInv, ProtocolInv, Verify, StageIntact, Refuse, Loop, GiveUp,
      ApplyInv, AllOld, AllNew, Untouched, Underway, Before, JournalInv
<1>5. RestoreInv'
  BY DEF IInv, ProtocolInv, Verify, StageIntact, Refuse, Loop, GiveUp,
      RestoreInv, AllOld, AllNew, Untouched, Underway, RestorePcs,
      ApplyInv
<1> QED
  BY <1>1, <1>2, <1>3, <1>4, <1>5 DEF IInv, ProtocolInv

LEMMA BackupStep ==
  ASSUME IInv, Backup
  PROVE  IInv'
<1>1. TypeOK'
  BY SwitchAssumption DEF IInv, ProtocolInv, Backup, tree, Goto, Loop,
      Smoothly, Mishap, Refuse, mind, GiveUp, TypeOK, Pcs, JournalInv,
      ApplyInv, AllOld, AllNew, Untouched, Underway, Before
<1>2. JournalInv'
  BY DEF IInv, ProtocolInv, Backup, tree, Goto, Loop, Smoothly, Mishap,
      Refuse, mind, GiveUp, JournalInv, AllOld, AllNew, Untouched,
      Underway, Doing, ApplyInv
<1>3. PanelInv'
  BY DEF IInv, ProtocolInv, Backup, tree, Goto, Loop, Smoothly, Mishap,
      Refuse, mind, GiveUp, PanelInv, AllOld, AllNew, Untouched, Underway,
      Alone
<1>4. ApplyInv'
  BY DEF IInv, ProtocolInv, Backup, tree, Goto, Loop, Smoothly, Mishap,
      Refuse, mind, GiveUp, ApplyInv, AllOld, AllNew, Untouched, Underway,
      JournalInv, TypeOK
<1>5. RestoreInv'
  BY DEF IInv, ProtocolInv, Backup, tree, Goto, Loop, Smoothly, Mishap,
      Refuse, mind, GiveUp, RestoreInv, AllOld, AllNew, Untouched,
      Underway, RestorePcs, ApplyInv
<1> QED
  BY <1>1, <1>2, <1>3, <1>4, <1>5 DEF IInv, ProtocolInv

LEMMA MarkStep ==
  ASSUME IInv, Mark
  PROVE  IInv'
<1>1. TypeOK'
  BY SwitchAssumption DEF IInv, Mark, tree, store, Loop, Smoothly, Mishap,
      Refuse, GiveUp, TypeOK, Phases, Pcs
<1>2. JournalInv'
  BY FilesAssumption, DataAssumption DEF IInv, ProtocolInv, Mark, tree,
      store, Loop, Smoothly, Mishap, Refuse, GiveUp, JournalInv, AllOld,
      AllNew, Untouched, Underway, Old, Before, ApplyInv
<1>3. PanelInv'
  BY DEF IInv, ProtocolInv, Mark, tree, store, Loop, Smoothly, Mishap,
      Refuse, GiveUp, PanelInv, AllOld, AllNew, Untouched, Underway, Alone
<1>4. ApplyInv'
  BY DEF IInv, ProtocolInv, Mark, tree, store, Loop, Smoothly, Mishap,
      Refuse, GiveUp, ApplyInv
<1>5. RestoreInv'
  BY DEF IInv, ProtocolInv, Mark, tree, store, Loop, Smoothly, Mishap,
      Refuse, GiveUp, RestoreInv, AllOld, AllNew, Untouched, Underway,
      RestorePcs, ApplyInv
<1> QED
  BY <1>1, <1>2, <1>3, <1>4, <1>5 DEF IInv, ProtocolInv

LEMMA SwapStep ==
  ASSUME IInv, Swap
  PROVE  IInv'
<1>1. TypeOK'
  BY SwitchAssumption DEF IInv, Swap, store, Goto, Old, WorkOn, Smoothly,
      Mishap, Fail, mind, GiveUp, TypeOK, Pcs
<1>2. JournalInv'
  BY FilesAssumption DEF IInv, ProtocolInv, Swap, store, Goto, Old,
      WorkOn, Smoothly, Mishap, Fail, mind, GiveUp, JournalInv, AllOld,
      AllNew, Untouched, Underway, ApplyInv, TypeOK
<1>3. PanelInv'
  BY DEF IInv, ProtocolInv, Swap, store, Goto, WorkOn, Smoothly, Mishap,
      Fail, mind, GiveUp, PanelInv, AllOld, AllNew, Untouched, Underway,
      Alone
<1>4. ApplyInv'
  BY DEF IInv, ProtocolInv, Swap, store, Goto, Old, WorkOn, Smoothly,
      Mishap, Fail, mind, GiveUp, ApplyInv, AllOld, AllNew, Untouched,
      Underway, TypeOK
<1>5. RestoreInv'
  BY DEF IInv, ProtocolInv, Swap, store, Goto, WorkOn, Smoothly, Mishap,
      Fail, mind, GiveUp, RestoreInv, AllOld, AllNew, Untouched, Underway,
      RestorePcs, ApplyInv
<1> QED
  BY <1>1, <1>2, <1>3, <1>4, <1>5 DEF IInv, ProtocolInv

LEMMA SwapInStep ==
  ASSUME IInv, SwapIn
  PROVE  IInv'
<1>1. TypeOK'
  BY SwitchAssumption DEF IInv, SwapIn, store, Done, Smoothly, Fail,
      Mishap, GiveUp, TypeOK, Pcs
<1>2. JournalInv'
  BY FilesAssumption DEF IInv, ProtocolInv, SwapIn, store, Done, Smoothly,
      Fail, Mishap, GiveUp, JournalInv, AllOld, AllNew, Untouched,
      Underway, ApplyInv, TypeOK
<1>3. PanelInv'
  BY DEF IInv, ProtocolInv, SwapIn, store, Done, Smoothly, Fail, Mishap,
      GiveUp, PanelInv, AllOld, AllNew, Untouched, Underway, Alone
<1>4. ApplyInv'
  BY DEF IInv, ProtocolInv, SwapIn, store, Done, Smoothly, Fail, Mishap,
      GiveUp, ApplyInv, AllOld, AllNew, Untouched, Underway, TypeOK
<1>5. RestoreInv'
  BY DEF IInv, ProtocolInv, SwapIn, store, Done, Smoothly, Fail, Mishap,
      GiveUp, RestoreInv, AllOld, AllNew, Untouched, Underway, RestorePcs,
      ApplyInv
<1> QED
  BY <1>1, <1>2, <1>3, <1>4, <1>5 DEF IInv, ProtocolInv

LEMMA ArmStep ==
  ASSUME IInv, Arm
  PROVE  IInv'
<1>1. TypeOK'
  BY SwitchAssumption DEF IInv, Arm, tree, store, Launch, Smoothly,
      Mishap, Fail, Launched, Goto, GiveUp, mind, TypeOK, Phases, Pcs
<1>2. JournalInv'
  BY DEF IInv, ProtocolInv, Arm, tree, store, Launch, Smoothly, Mishap,
      Fail, Launched, Goto, GiveUp, AllNew, mind, JournalInv, AllOld,
      Untouched, Underway, Doing, ApplyInv, TypeOK
<1>3. PanelInv'
  BY DEF IInv, ProtocolInv, Arm, tree, store, Launch, Smoothly, Mishap,
      Fail, Launched, Goto, GiveUp, AllNew, mind, PanelInv, AllOld,
      Untouched, Underway, RestorePcs, Alone, ApplyInv, TypeOK
<1>4. ApplyInv'
  BY DEF IInv, ProtocolInv, Arm, tree, store, Launch, Smoothly, Mishap,
      Fail, Launched, Goto, GiveUp, AllNew, mind, ApplyInv, AllOld,
      Untouched, Underway, TypeOK
<1>5. RestoreInv'
  BY DEF IInv, ProtocolInv, Arm, tree, store, Launch, Smoothly, Mishap,
      Fail, Launched, Goto, GiveUp, AllNew, mind, RestoreInv, AllOld,
      Untouched, Underway, RestorePcs, ApplyInv
<1> QED
  BY <1>1, <1>2, <1>3, <1>4, <1>5 DEF IInv, ProtocolInv

-----------------------------------------------------------------------------
(* It commits, or gives up.                                               *)

LEMMA HealthStep ==
  ASSUME IInv, Health
  PROVE  IInv'
<1>1. TypeOK'
  BY DEF IInv, Health, disk, Goto, mind, TypeOK, Pcs
<1>2. JournalInv'
  BY DEF IInv, ProtocolInv, Health, disk, Goto, mind, JournalInv, AllOld,
      AllNew, Untouched, Underway
<1>3. PanelInv'
  BY DEF IInv, ProtocolInv, Health, disk, Goto, mind, PanelInv, AllOld,
      AllNew, Untouched, Underway, RestorePcs, Alone
<1>4. ApplyInv'
  BY DEF IInv, ProtocolInv, Health, disk, Goto, mind, ApplyInv, AllOld,
      AllNew, Untouched, Underway
<1>5. RestoreInv'
  BY DEF IInv, ProtocolInv, Health, disk, Goto, mind, RestoreInv, AllOld,
      AllNew, Untouched, Underway, RestorePcs
<1> QED
  BY <1>1, <1>2, <1>3, <1>4, <1>5 DEF IInv, ProtocolInv

LEMMA AckStep ==
  ASSUME IInv, Ack
  PROVE  IInv'
<1>1. TypeOK'
  BY SwitchAssumption DEF IInv, Ack, tree, store, NoJournal, Goto,
      Smoothly, Mishap, mind, TypeOK, Phases, Pcs
<1>2. JournalInv'
  BY DEF IInv, ProtocolInv, Ack, tree, store, AllNew, NoJournal, Goto,
      Smoothly, Mishap, mind, JournalInv, AllOld, Untouched, Underway,
      Doing
<1>3. PanelInv'
  BY DEF IInv, ProtocolInv, Ack, tree, store, AllNew, NoJournal, Goto,
      Smoothly, Mishap, mind, PanelInv, AllOld, Untouched, Underway,
      Doing, RestorePcs, Alone
<1>4. ApplyInv'
  BY DEF IInv, ProtocolInv, Ack, tree, store, NoJournal, Goto, Smoothly,
      Mishap, mind, ApplyInv, AllOld, AllNew, Untouched, Underway
<1>5. RestoreInv'
  BY DEF IInv, ProtocolInv, Ack, tree, store, AllNew, NoJournal, Goto,
      Smoothly, Mishap, mind, RestoreInv, AllOld, Untouched, Underway,
      RestorePcs
<1> QED
  BY <1>1, <1>2, <1>3, <1>4, <1>5 DEF IInv, ProtocolInv

LEMMA TidyStep ==
  ASSUME IInv, Tidy
  PROVE  IInv'
<1>1. TypeOK'
  BY SwitchAssumption DEF IInv, Tidy, Goto, Smoothly, Mishap, mind,
      TypeOK, Pcs
<1>2. JournalInv'
  BY DEF IInv, ProtocolInv, Tidy, Goto, Smoothly, Mishap, mind,
      JournalInv, AllOld, AllNew, Untouched, Underway, Doing, ApplyInv
<1>3. PanelInv'
  BY DEF IInv, ProtocolInv, Tidy, Goto, Smoothly, Mishap, mind, PanelInv,
      AllOld, AllNew, Untouched, Underway, RestorePcs, Alone
<1>4. ApplyInv'
  BY DEF IInv, ProtocolInv, Tidy, Goto, Smoothly, Mishap, mind, ApplyInv,
      AllOld, AllNew, Untouched, Underway, Doing
<1>5. RestoreInv'
  BY DEF IInv, ProtocolInv, Tidy, Goto, Smoothly, Mishap, mind,
      RestoreInv, AllOld, AllNew, Untouched, Underway, RestorePcs
<1> QED
  BY <1>1, <1>2, <1>3, <1>4, <1>5 DEF IInv, ProtocolInv

LEMMA StopChildStep ==
  ASSUME IInv, StopChild
  PROVE  IInv'
<1>1. TypeOK'
  BY DEF IInv, StopChild, NoChild, disk, TypeOK, Pcs
<1>2. JournalInv'
  BY DEF IInv, ProtocolInv, StopChild, NoChild, disk, JournalInv, AllOld,
      AllNew, Untouched, Underway
<1>3. PanelInv'
  BY DEF IInv, ProtocolInv, StopChild, NoChild, disk, PanelInv
<1>4. ApplyInv'
  BY DEF IInv, ProtocolInv, StopChild, NoChild, disk, ApplyInv
<1>5. RestoreInv'
  BY DEF IInv, ProtocolInv, StopChild, NoChild, disk, RestoreInv, AllOld,
      AllNew, Untouched, Underway, RestorePcs, ApplyInv
<1> QED
  BY <1>1, <1>2, <1>3, <1>4, <1>5 DEF IInv, ProtocolInv

-----------------------------------------------------------------------------
(* The rollback.                                                          *)

LEMMA RollbackStep ==
  ASSUME IInv, Rollback
  PROVE  IInv'
<1>1. TypeOK'
  BY DEF IInv, Rollback, tree, store, Resumed, Loop, Goto, Launch, mind,
      Launched, TypeOK, Pcs, RestorePcs
<1>2. JournalInv'
  BY DEF IInv, ProtocolInv, Rollback, tree, store, Resumed, Loop, Goto,
      Launch, mind, Launched, JournalInv, AllOld, AllNew, Untouched,
      Underway
<1>3. PanelInv'
  BY FilesAssumption DEF IInv, ProtocolInv, Rollback, tree, store, Doing,
      Resumed, Loop, Goto, Launch, mind, Launched, AllNew, PanelInv,
      AllOld, Untouched, Underway, Old, RestorePcs, Alone, JournalInv,
      TypeOK, Phases
<1>4. ApplyInv'
  BY DEF IInv, ProtocolInv, Rollback, tree, store, Resumed, Loop, Goto,
      Launch, mind, Launched, ApplyInv, AllOld, AllNew, Untouched,
      Underway
<1>5. RestoreInv'
  BY DEF IInv, ProtocolInv, Rollback, tree, store, Resumed, Loop, Goto,
      Launch, mind, Launched, AllNew, RestoreInv, AllOld, Untouched,
      Underway, RestorePcs
<1> QED
  BY <1>1, <1>2, <1>3, <1>4, <1>5 DEF IInv, ProtocolInv

LEMMA RestoreStep ==
  ASSUME IInv, Restore
  PROVE  IInv'
<1>1. TypeOK'
  BY SwitchAssumption DEF IInv, Restore, store, Loop, WorkOn, Stuck,
      Mishap, GiveUp, TypeOK, Phases, Pcs, RestorePcs
<1>2. JournalInv'
  BY FilesAssumption DEF IInv, ProtocolInv, Restore, store, Loop, WorkOn,
      Stuck, Mishap, GiveUp, JournalInv, AllOld, AllNew, Untouched,
      Underway, Doing, RestorePcs, RestoreInv, TypeOK
<1>3. PanelInv'
  BY DEF IInv, ProtocolInv, Restore, store, Loop, WorkOn, Stuck, Mishap,
      GiveUp, PanelInv, AllOld, AllNew, Untouched, Underway, RestorePcs,
      Alone
<1>4. ApplyInv'
  BY DEF IInv, ProtocolInv, Restore, store, Loop, WorkOn, Stuck, Mishap,
      GiveUp, ApplyInv
<1>5. RestoreInv'
  BY DEF IInv, ProtocolInv, Restore, store, Loop, WorkOn, Stuck, Mishap,
      GiveUp, RestoreInv, AllOld, AllNew, Untouched, Underway, Old,
      RestorePcs, JournalInv, TypeOK, Doing
<1> QED
  BY <1>1, <1>2, <1>3, <1>4, <1>5 DEF IInv, ProtocolInv

LEMMA RestoreInStep ==
  ASSUME IInv, RestoreIn
  PROVE  IInv'
<1>1. TypeOK'
  BY SwitchAssumption DEF IInv, RestoreIn, store, Old, Done, Stuck,
      Mishap, GiveUp, TypeOK, Phases, Pcs, RestorePcs
<1>2. JournalInv'
  BY FilesAssumption DEF IInv, ProtocolInv, RestoreIn, store, Old, Done,
      Stuck, Mishap, GiveUp, JournalInv, AllOld, AllNew, Untouched,
      Underway, Doing, RestorePcs, RestoreInv, TypeOK
<1>3. PanelInv'
  BY DEF IInv, ProtocolInv, RestoreIn, store, Done, Stuck, Mishap, GiveUp,
      PanelInv, AllOld, AllNew, Untouched, Underway, RestorePcs, Alone
<1>4. ApplyInv'
  BY DEF IInv, ProtocolInv, RestoreIn, store, Done, Stuck, Mishap, GiveUp,
      ApplyInv
<1>5. RestoreInv'
  BY DEF IInv, ProtocolInv, RestoreIn, store, Done, Stuck, Mishap, GiveUp,
      RestoreInv, AllOld, AllNew, Untouched, Underway, RestorePcs, TypeOK,
      Doing
<1> QED
  BY <1>1, <1>2, <1>3, <1>4, <1>5 DEF IInv, ProtocolInv

LEMMA RestoreDataStep ==
  ASSUME IInv, RestoreData
  PROVE  IInv'
<1>1. TypeOK'
  BY SwitchAssumption DEF IInv, RestoreData, tree, Goto, WorkOn, GiveUp,
      Stuck, mind, Mishap, TypeOK, Phases, Pcs, RestorePcs
<1>2. JournalInv'
  BY DEF IInv, ProtocolInv, RestoreData, tree, Goto, WorkOn, GiveUp,
      Stuck, mind, Mishap, JournalInv, AllOld, AllNew, Untouched,
      Underway, Doing, RestorePcs, RestoreInv, TypeOK
<1>3. PanelInv'
  BY DEF IInv, ProtocolInv, RestoreData, tree, Goto, WorkOn, GiveUp,
      Stuck, mind, Mishap, PanelInv, AllOld, AllNew, Untouched, Underway,
      RestorePcs, Alone
<1>4. ApplyInv'
  BY DEF IInv, ProtocolInv, RestoreData, tree, Goto, WorkOn, GiveUp,
      Stuck, mind, Mishap, ApplyInv
<1>5. RestoreInv'
  BY DEF IInv, ProtocolInv, RestoreData, tree, Goto, WorkOn, GiveUp,
      Stuck, mind, Mishap, RestoreInv, AllOld, AllNew, Untouched,
      Underway, RestorePcs, JournalInv, TypeOK, Doing
<1> QED
  BY <1>1, <1>2, <1>3, <1>4, <1>5 DEF IInv, ProtocolInv

LEMMA RestoreDataInStep ==
  ASSUME IInv, RestoreDataIn
  PROVE  IInv'
<1>1. TypeOK'
  BY SwitchAssumption DEF IInv, RestoreDataIn, tree, Done, Stuck, Mishap,
      GiveUp, TypeOK, Phases, Pcs, RestorePcs
<1>2. JournalInv'
  BY DEF IInv, ProtocolInv, RestoreDataIn, tree, Done, Stuck, Mishap,
      GiveUp, JournalInv, AllOld, AllNew, Untouched, Underway, Doing,
      RestorePcs, RestoreInv
<1>3. PanelInv'
  BY DEF IInv, ProtocolInv, RestoreDataIn, tree, Done, Stuck, Mishap,
      GiveUp, PanelInv, AllOld, AllNew, Untouched, Underway, RestorePcs,
      Alone
<1>4. ApplyInv'
  BY DEF IInv, ProtocolInv, RestoreDataIn, tree, Done, Stuck, Mishap,
      GiveUp, ApplyInv
<1>5. RestoreInv'
  BY DEF IInv, ProtocolInv, RestoreDataIn, tree, Done, Stuck, Mishap,
      GiveUp, RestoreInv, AllOld, AllNew, Untouched, Underway, Before,
      RestorePcs, JournalInv, TypeOK, Doing
<1> QED
  BY <1>1, <1>2, <1>3, <1>4, <1>5 DEF IInv, ProtocolInv

LEMMA UnmarkStep ==
  ASSUME IInv, Unmark
  PROVE  IInv'
<1>1. TypeOK'
  BY SwitchAssumption DEF IInv, Unmark, tree, store, NoJournal, Goto,
      Stuck, mind, Mishap, GiveUp, TypeOK, Phases, Pcs, RestorePcs
<1>2. JournalInv'
  BY DEF IInv, ProtocolInv, Unmark, tree, store, NoJournal, Goto, Stuck,
      mind, Mishap, GiveUp, JournalInv, AllOld, AllNew, Untouched,
      Underway, Doing, RestorePcs, RestoreInv
<1>3. PanelInv'
  BY DEF IInv, ProtocolInv, Unmark, tree, store, NoJournal, Goto, Stuck,
      mind, Mishap, GiveUp, PanelInv, AllOld, AllNew, Untouched, Underway,
      RestorePcs, Alone
<1>4. ApplyInv'
  BY DEF IInv, ProtocolInv, Unmark, tree, store, NoJournal, Goto, Stuck,
      mind, Mishap, GiveUp, ApplyInv
<1>5. RestoreInv'
  BY DEF IInv, ProtocolInv, Unmark, tree, store, NoJournal, Goto, Stuck,
      mind, Mishap, GiveUp, RestoreInv, AllOld, AllNew, Untouched,
      Underway, RestorePcs, Doing
<1> QED
  BY <1>1, <1>2, <1>3, <1>4, <1>5 DEF IInv, ProtocolInv

LEMMA CleanStep ==
  ASSUME IInv, Clean
  PROVE  IInv'
<1>1. TypeOK'
  BY DataAssumption, SwitchAssumption DEF IInv, Clean, Resumed, Mishap,
      GiveUp, Goto, Launch, mind, Launched, TypeOK, Phases, Pcs
<1>2. JournalInv'
  BY FilesAssumption DEF IInv, ProtocolInv, Clean, Resumed, Mishap,
      GiveUp, Goto, Launch, mind, Launched, AllNew, JournalInv, AllOld,
      Untouched, Underway, Doing, Old, RestoreInv
<1>3. PanelInv'
  BY DEF IInv, ProtocolInv, Clean, Resumed, Mishap, GiveUp, Goto, Launch,
      mind, Launched, AllNew, PanelInv, AllOld, Untouched, Underway,
      Doing, RestorePcs, Alone, RestoreInv
<1>4. ApplyInv'
  BY DEF IInv, ProtocolInv, Clean, Resumed, Mishap, GiveUp, Goto, Launch,
      mind, Launched, AllNew, ApplyInv, AllOld, Untouched, Underway,
      Doing, RestoreInv
<1>5. RestoreInv'
  BY DEF IInv, ProtocolInv, Clean, Resumed, Mishap, GiveUp, Goto, Launch,
      mind, Launched, AllNew, RestoreInv, AllOld, Untouched, Underway,
      RestorePcs
<1> QED
  BY <1>1, <1>2, <1>3, <1>4, <1>5 DEF IInv, ProtocolInv

-----------------------------------------------------------------------------
(* The invariant in every state.                                            *)

LEMMA NextInv ==
  ASSUME NoBootingOrphan, IInv, [Next]_vars
  PROVE  IInv'
<1>1. CASE UNCHANGED vars
  BY <1>1 DEF vars, disk, tree, store, mind, IInv, TypeOK, ProtocolInv, JournalInv, PanelInv,
     ApplyInv, RestoreInv, Underway, AllOld, AllNew, Untouched
<1>2. CASE Environment
  BY <1>2, ChildRunsStep, StageStep, ChildExitsStep, OrphanExitsStep, StopStep,
     CrashStep, SupervisorDiesStep, MigrateStep, QuarantineStep DEF Environment
<1>3. CASE Supervisor
  BY <1>3, StartStep, StartupStep, VerifyStep, BackupStep, MarkStep, SwapStep,
     SwapInStep, ArmStep, HealthStep, AckStep, TidyStep, StopChildStep,
     RollbackStep, RestoreStep, RestoreInStep, RestoreDataStep,
     RestoreDataInStep, UnmarkStep, CleanStep DEF Supervisor
<1> QED
  BY <1>1, <1>2, <1>3 DEF Next

-----------------------------------------------------------------------------
\* The inductive invariant, for any files, data, number of mishaps and loss in
\* the cleanup (updateBundle.ts and panelSupervisor.ts).
THEOREM ProtocolHolds ==
  ASSUME NoBootingOrphan
  PROVE  Spec => []IInv
<1>1. Init => IInv
  BY InitInv
<1>2. IInv /\ [Next]_vars => IInv'
  BY NextInv
<1> QED
  BY <1>1, <1>2, PTL DEF Spec

\* Every variable keeps its type.
THEOREM TypeCorrect ==
  ASSUME NoBootingOrphan
  PROVE  Spec => []TypeOK
<1>1. IInv => TypeOK
  BY DEF IInv
<1> QED
  BY <1>1, ProtocolHolds, PTL

\* The invariant that the run panel_safe checks.
THEOREM Protocol ==
  ASSUME NoBootingOrphan
  PROVE  Spec => []ProtocolInv
<1>1. IInv => ProtocolInv
  BY DEF IInv
<1> QED
  BY <1>1, ProtocolHolds, PTL

\* launch() never starts, and nothing ever disturbs, a mixture of two versions.
THEOREM WholeVersion ==
  ASSUME NoBootingOrphan
  PROVE  Spec => []RunsWholeVersion
<1>1. ProtocolInv => RunsWholeVersion
  BY FilesAssumption DEF ProtocolInv, PanelInv, RunsWholeVersion
<1> QED
  BY <1>1, Protocol, PTL

\* After a failed or interrupted update the old panel finds its own data
\* (recoverInterruptedUpdateBundle), also when a damaged backup stops it.
THEOREM OldData ==
  ASSUME NoBootingOrphan
  PROVE  Spec => []OldPanelFindsOldData
<1>1. ProtocolInv => OldPanelFindsOldData
  BY DEF ProtocolInv, PanelInv, OldPanelFindsOldData
<1> QED
  BY <1>1, Protocol, PTL

\* Files are restored only when the panel is gone (the check of panel.lock and
\* stopPanel).
THEOREM RestoresAlone ==
  ASSUME NoBootingOrphan
  PROVE  Spec => []RecoversAlone
<1>1. ProtocolInv => RecoversAlone
  BY DEF ProtocolInv, PanelInv, RecoversAlone, Alone
<1> QED
  BY <1>1, Protocol, PTL

\* When no journal asks for recovery, none is needed.
THEOREM NothingLeft ==
  ASSUME NoBootingOrphan
  PROVE  Spec => []NothingLeftBehind
<1>1. IInv => NothingLeftBehind
  BY DEF IInv, TypeOK, Phases, Doing, ProtocolInv, JournalInv, NothingLeftBehind
<1> QED
  BY <1>1, ProtocolHolds, PTL

\* Until the commit nothing of the old version is lost, if the cleanup of a
\* finished rollback does not fail half way.
THEOREM AlwaysRecoverable ==
  ASSUME NoBootingOrphan, ~TidyFails
  PROVE  Spec => []Recoverable
<1>1. ProtocolInv => Recoverable
  BY DEF ProtocolInv, JournalInv, Underway, Recoverable
<1> QED
  BY <1>1, Protocol, PTL


-----------------------------------------------------------------------------
(* What a step does to the recorded result.                                *)

\* Only these record a result: Tidy after the commit, Rollback and Clean when
\* the old version is back.
LEMMA ResultStep ==
  ASSUME IInv, [Next]_vars, result' # result
  PROVE  /\ journal'.phase \notin Doing
         /\ result' = "success" => AllNew
         /\ result' = "failed" => AllOld /\ Untouched
<1>1. CASE Tidy
  BY <1>1 DEF Tidy, IInv, ProtocolInv, TypeOK, ApplyInv, Doing
<1>2. CASE Rollback
  BY <1>2 DEF Rollback, Resumed, IInv, ProtocolInv, TypeOK, JournalInv, RestoreInv, Doing, Phases
<1>3. CASE Clean
  BY <1>3 DEF Clean, Resumed, IInv, ProtocolInv, TypeOK, RestoreInv, RestorePcs, Doing
<1>4. CASE UNCHANGED vars
  BY <1>4 DEF vars, disk
<1>5. CASE Environment
  BY <1>5 DEF Environment, ChildRuns, Stage, ChildExits, OrphanExits, Stop, Crash,
     SupervisorDies, Migrate, Quarantine, disk
<1>6. CASE Supervisor /\ ~Tidy /\ ~Rollback /\ ~Clean
  BY <1>6 DEF Supervisor, Start, Startup, Verify, Backup, Mark, Swap, SwapIn, Arm, Health,
     Ack, StopChild, Restore, RestoreIn, RestoreData, RestoreDataIn, Unmark, Stuck, disk
<1> QED
  BY <1>1, <1>2, <1>3, <1>4, <1>5, <1>6 DEF Next

\* recordNativeUpdateResult is called with `success' only when the update is
\* committed, with `failed' only when files and data are as they were.
THEOREM ResultIsTrue ==
  ASSUME NoBootingOrphan
  PROVE  Spec => TruthfulResult
<1>1. IInv /\ [Next]_vars =>
        [ result' # result =>
            /\ journal'.phase \notin Doing
            /\ result' = "success" => AllNew
            /\ result' = "failed" => AllOld /\ Untouched ]_vars
  BY ResultStep
<1> QED
  BY <1>1, ProtocolHolds, PTL DEF Spec, TruthfulResult

-----------------------------------------------------------------------------
(* The update is atomic.                                                   *)

\* A bundle has files, so it cannot be installed and absent.
LEMMA NotBoth == AllOld => ~AllNew
  BY FilesAssumption DEF AllOld, AllNew, Old

\* What the atomic update does not see.
LEMMA Unseen ==
  ASSUME Committed' <=> Committed, Committed => UNCHANGED data
  PROVE  UNCHANGED Atomic!vars
  BY DEF Atomic!vars, Migrated

\* Removing the journal after the health check is the commit; the migration by
\* a committed panel is a migration; nothing else is seen.
LEMMA AtomicStep ==
  ASSUME IInv, IInv', [Next]_vars
  PROVE  [Atomic!Next]_(Atomic!vars)
<1>1. ASSUME UNCHANGED <<live, data, journal>>
      PROVE  UNCHANGED Atomic!vars
  BY <1>1, Unseen DEF Committed, AllNew
<1>2. ASSUME journal.phase \in Doing, journal'.phase \in Doing
      PROVE  UNCHANGED Atomic!vars
  BY <1>2, Unseen DEF Committed
<1>3. ASSUME AllOld, UNCHANGED live
      PROVE  UNCHANGED Atomic!vars
  BY <1>3, NotBoth, Unseen DEF Committed, AllNew
<1>4. CASE Ack
  <2>1. CASE journal' = NoJournal
    <3>1. ~Committed /\ Committed'
      BY <1>4, <2>1 DEF Ack, tree, store, IInv, ProtocolInv, ApplyInv, Committed, NoJournal, Doing, AllNew
    <3> QED
      BY <3>1 DEF Atomic!Next, Atomic!Commit, Migrated
  <2>2. CASE UNCHANGED journal
    BY <1>1, <1>4, <2>2 DEF Ack, tree, store
  <2> QED
    BY <1>4, <2>1, <2>2 DEF Ack
<1>5. ASSUME NEW d \in DataNames, Migrate(d)
      PROVE  Atomic!Next \/ UNCHANGED Atomic!vars
  <2>1. CASE Committed
    <3>1. Committed' /\ Migrated'
      BY <1>5, <2>1 DEF Migrate, tree, IInv, TypeOK, Committed, Migrated, AllNew
    <3> QED
      BY <2>1, <3>1 DEF Atomic!Next, Atomic!Migrate
  <2>2. CASE ~Committed
    BY <1>5, <2>2, Unseen DEF Migrate, tree, Committed, AllNew
  <2> QED
    BY <2>1, <2>2
<1>6. CASE Stage
  BY <1>3, <1>6 DEF Stage, IInv, ProtocolInv, PanelInv
<1>7. CASE Mark
  BY <1>3, <1>7 DEF Mark, tree, IInv, ProtocolInv, ApplyInv, JournalInv
<1>8. CASE Swap \/ SwapIn \/ Arm
  BY <1>2, <1>8 DEF Swap, SwapIn, Arm, IInv, ProtocolInv, TypeOK, ApplyInv, Doing
<1>9. CASE Restore \/ RestoreIn \/ RestoreData \/ RestoreDataIn
  <2>1. journal.phase \in Doing
    BY <1>9 DEF Restore, RestoreIn, RestoreData, RestoreDataIn,
       IInv, ProtocolInv, RestoreInv, RestorePcs, Underway
  <2>2. \/ UNCHANGED journal
        \/ journal' = [phase |-> "rollback_failed", saved |-> journal.saved]
        \/ journal' = [journal EXCEPT !.phase = "rollback_failed"]
    BY <1>9 DEF Restore, RestoreIn, RestoreData, RestoreDataIn, Stuck
  <2>3. journal'.phase \in Doing
    BY <2>1, <2>2 DEF IInv, TypeOK, Doing
  <2> QED
    BY <1>2, <2>1, <2>3
<1>10. CASE Unmark \/ Clean
  BY <1>3, <1>10 DEF Unmark, Clean, tree, IInv, ProtocolInv, RestoreInv
<1>11. CASE UNCHANGED vars
  BY <1>1, <1>11 DEF vars, disk
<1>12. CASE Environment
  BY <1>1, <1>5, <1>6, <1>12
  DEF Environment, ChildRuns, ChildExits, OrphanExits, Stop, Crash, SupervisorDies,
      Quarantine, disk, store
<1>13. CASE Supervisor
  BY <1>1, <1>4, <1>7, <1>8, <1>9, <1>10, <1>13
  DEF Supervisor, Start, Startup, Verify, Backup, Health, Tidy, StopChild, Rollback,
      disk, tree, store
<1> QED
  BY <1>11, <1>12, <1>13 DEF Next

\* Journal, renames, backups and recovery together implement one atomic step,
\* whatever crashes and failing file operations come in between.
THEOREM UpdateIsAtomic ==
  ASSUME NoBootingOrphan
  PROVE  Spec => ImplementsAtomicUpdate
<1>1. Init => Atomic!Init
  BY FilesAssumption DEF Init, Atomic!Init, Committed, Migrated, AllNew, Old
<1>2. IInv /\ IInv' /\ [Next]_vars => [Atomic!Next]_(Atomic!vars)
  BY AtomicStep
<1> QED
  BY <1>1, <1>2, ProtocolHolds, PTL DEF Spec, ImplementsAtomicUpdate, Atomic!Spec
=============================================================================
