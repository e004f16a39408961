-------------------------- MODULE BackupRestoreProofs --------------------------
(***************************************************************************)
(* For any servers, requests and bounds: what a backup stores is of one    *)
(* state, restores and wipes have their safety copy, a restore is all or   *)
(* nothing and loses nothing, and retention keeps what it must.  All of it *)
(* follows from one inductive invariant, IInv.                             *)
(***************************************************************************)
EXTENDS BackupRestore, TLAPS, FiniteSetTheorems

-----------------------------------------------------------------------------
(* Data.                                                                   *)

LEMMA FirstIn ==
  ASSUME NEW S \in SUBSET Files, S # {}
  PROVE  First(S) \in S /\ Latest(S) \in S
<1>1. \E f \in S : \A g \in S : Rank[f] <= Rank[g]
  BY DEF Files, Rank
<1>2. \E f \in S : \A g \in S : Rank[g] <= Rank[f]
  BY DEF Files, Rank
<1> QED
  BY <1>1, <1>2 DEF First, Latest

LEMMA NoneTypes ==
  /\ NoFiles \in [Files -> Content]
  /\ NoArchive \in Archive
  /\ NoBackup \in BackupRecord
  /\ NoRestore \in RestoreRecord
  /\ NoWipe \in WipeRecord
<1>1. NoFiles \in [Files -> Content]
  BY DEF NoFiles, Content
<1>2. NoArchive \in Archive
  BY <1>1 DEF NoArchive, Archive
<1>3. NoBackup \in BackupRecord
  BY <1>1 DEF NoBackup, BackupRecord, Kinds
<1>4. NoRestore \in RestoreRecord
  BY <1>1, <1>2 DEF NoRestore, RestoreRecord
<1>5. NoWipe \in WipeRecord
  BY <1>1 DEF NoWipe, WipeRecord
<1> QED
  BY <1>1, <1>2, <1>3, <1>4, <1>5

LEMMA PlayingType ==
  ASSUME NEW l \in [Files -> Content]
  PROVE  Playing(l) \in [Files -> Content]
BY DEF Playing, Content

\* After the game nothing is in use.
LEMMA PlayedType ==
  ASSUME NEW l \in [Files -> Content], NEW g \in Nat, NEW w \in {g, Absent},
         l["ini"] # InUse
  PROVE  Played(l, g, w) \in [Files -> Content] /\ AtRest(Played(l, g, w))
BY ContentAssumption DEF Played, Content, AtRest, Files

-----------------------------------------------------------------------------
(* What a step leaves alone.                                               *)

Same(r) ==
  /\ game'[r] = game[r] /\ live'[r] = live[r] /\ profile'[r] = profile[r]
  /\ lock'[r] = lock[r] /\ backup'[r] = backup[r] /\ restore'[r] = restore[r]
  /\ wipe'[r] = wipe[r]

Elsewhere(s) ==
  /\ \A r \in Servers \ {s} : Same(r)
  /\ \A a \in dir : a.of # s => a \in dir'
  /\ deletions' = deletions

\* Enough newer archives stay if none of this server is taken away.
LEMMA RetentionSame ==
  ASSUME TypeOK, TypeOK', NEW r \in Servers, RetentionOK(r),
         backup'[r] = backup[r] \/ backup'[r].pc # "prune",
         \A a \in dir : a.of = r => a \in dir',
         deletions' = deletions
  PROVE  RetentionOK(r)'
<1>1. SUFFICES ASSUME backup'[r] = backup[r], backup[r].pc = "prune",
                      NEW a \in backup[r].doomed
               PROVE  Cardinality({b \in Newer(a, dir') : b.of = r}) + deletions >= MaxBackups
  BY DEF RetentionOK, Newer
<1> DEFINE X == {b \in Newer(a, dir) : b.of = r}
           Y == {b \in Newer(a, dir') : b.of = r}
<1>2. X \subseteq Y /\ Y \subseteq dir' /\ IsFiniteSet(dir')
  BY DEF Newer, TypeOK
<1>3. IsFiniteSet(Y)
  BY <1>2, FS_Subset
<1>4. Cardinality(X) <= Cardinality(Y) /\ Cardinality(X) \in Nat /\ Cardinality(Y) \in Nat
  BY <1>2, <1>3, FS_Subset, FS_CardinalityType
<1>5. Cardinality(X) + deletions >= MaxBackups
  BY <1>1 DEF RetentionOK
<1> HIDE DEF X, Y
<1>6. Cardinality(Y) + deletions >= MaxBackups
  BY <1>4, <1>5, BackupAssumption DEF TypeOK
<1> QED
  BY <1>6 DEF Y

LEMMA SafetySame ==
  ASSUME TypeOK, NEW r \in Servers, SafetyOK(r),
         live'[r] = live[r], profile'[r] = profile[r],
         restore'[r] = restore[r], wipe'[r] = wipe[r],
         \A a \in dir : a.of \in {r, Nobody} => a \in dir'
  PROVE  SafetyOK(r)'
BY DEF SafetyOK, Covers, CoveredByRestore

LEMMA SameOK ==
  ASSUME TypeOK, TypeOK', NEW r \in Servers, ServerOK(r), Same(r),
         \A a \in dir : a.of \in {r, Nobody} => a \in dir',
         deletions' = deletions
  PROVE  ServerOK(r)'
<1>1. LockOK(r)'
  BY DEF ServerOK, Same, LockOK, Working
<1>2. ContentOK(r)'
  BY DEF ServerOK, Same, ContentOK, AtRest, Sane
<1>3. CopyOK(r)'
  BY DEF ServerOK, Same, CopyOK, AtRest
<1>4. SafetyOK(r)'
  BY SafetySame DEF ServerOK, Same
<1>5. ProgressOK(r)'
  BY DEF ServerOK, Same, ProgressOK, Replacing
<1>6. SwapOK(r)'
  BY DEF ServerOK, Same, SwapOK, Replacing, InHand, WasRetired
<1>7. RetentionOK(r)'
  BY RetentionSame DEF ServerOK, Same
<1> QED
  BY <1>1, <1>2, <1>3, <1>4, <1>5, <1>6, <1>7 DEF ServerOK

LEMMA Assemble ==
  ASSUME IInv, TypeOK', NEW s \in Servers, Elsewhere(s),
         \A a \in dir' : Sane(a), ServerOK(s)'
  PROVE  IInv'
<1>1. ASSUME NEW r \in Servers PROVE ServerOK(r)'
  <2>1. CASE r = s
    BY <2>1
  <2>2. CASE r # s
    <3>1. Same(r) /\ deletions' = deletions
      BY <2>2 DEF Elsewhere
    <3>2. \A a \in dir : a.of \in {r, Nobody} => a \in dir'
      BY <2>2, BackupAssumption DEF Elsewhere
    <3> QED
      BY <3>1, <3>2, SameOK DEF IInv
  <2> QED
    BY <2>1, <2>2
<1> QED
  BY <1>1 DEF IInv, Sane, AtRest

\* A step of the game, or of a backup, that leaves restore and wipe alone.
LEMMA BackupStep ==
  ASSUME IInv, TypeOK', NEW s \in Servers, Elsewhere(s),
         \A a \in dir' : Sane(a),
         profile' = profile, restore' = restore, wipe' = wipe,
         (live' = live /\ dir \subseteq dir') \/ lock[s] \in {"free", "backup"},
         live'[s]["ini"] # InUse, ~game'[s] => AtRest(live'[s]),
         LockOK(s)', CopyOK(s)', RetentionOK(s)'
  PROVE  IInv'
<1> USE DEF IInv, ServerOK, TypeOK
<1>1. \/ live' = live /\ dir \subseteq dir'
      \/ restore[s].pc = "idle" /\ wipe[s].pc = "idle"
  BY DEF LockOK
<1>2. ContentOK(s)'
  BY DEF ContentOK, Sane, AtRest
<1>3. SafetyOK(s)'
  <2>1. CASE live' = live /\ dir \subseteq dir'
    BY <2>1, SafetySame
  <2>2. CASE restore[s].pc = "idle" /\ wipe[s].pc = "idle"
    BY <2>2 DEF SafetyOK
  <2> QED
    BY <1>1, <2>1, <2>2
<1>4. ProgressOK(s)'
  BY DEF ProgressOK, Replacing
<1>5. SwapOK(s)'
  BY <1>1 DEF SwapOK, Replacing, InHand, WasRetired
<1> QED
  BY <1>2, <1>3, <1>4, <1>5, Assemble

LEMMA StartGameInv ==
  ASSUME IInv, NEW s \in Servers, StartGame(s)
  PROVE  IInv'
<1> USE DEF StartGame, StartUnlocked
<1>1. TypeOK'
  BY PlayingType DEF IInv, TypeOK
<1>2. game'[s] /\ live'[s] = Playing(live[s]) /\ live'[s]["ini"] # InUse
  BY DEF IInv, TypeOK, ServerOK, ContentOK, Playing, Files
<1>3. Elsewhere(s)
  BY DEF Elsewhere, Same, IInv, TypeOK
<1>4. LockOK(s)'
  BY <1>2 DEF LockOK, Working, IInv, ServerOK
<1>5. CopyOK(s)'
  <2>1. backup[s].pc \in {"idle", "wait"} /\ backup' = backup
    BY DEF LockOK, Working, IInv, ServerOK, TypeOK, BackupRecord, Kinds
  <2> QED
    BY <2>1 DEF CopyOK, IInv, ServerOK
<1>6. RetentionOK(s)'
  BY <1>1, RetentionSame DEF IInv, ServerOK
<1> QED
  BY <1>1, <1>2, <1>3, <1>4, <1>5, <1>6, BackupStep DEF IInv, Sane, AtRest

LEMMA StopGameInv ==
  ASSUME IInv, NEW s \in Servers, StopGame(s)
  PROVE  IInv'
<1> USE DEF StopGame
<1>1. PICK w \in {tick', Absent} : live' = [live EXCEPT ![s] = Played(@, tick', w)]
  OBVIOUS
<1>2. tick' \in Nat /\ live[s] \in [Files -> Content] /\ live[s]["ini"] # InUse
  BY DEF IInv, TypeOK, ServerOK, ContentOK
<1>3. /\ Played(live[s], tick', w) \in [Files -> Content]
      /\ AtRest(Played(live[s], tick', w))
  BY <1>2, PlayedType
<1>4. TypeOK'
  BY <1>1, <1>2, <1>3 DEF IInv, TypeOK
<1>5. ~game'[s] /\ live'[s] = Played(live[s], tick', w) /\ lock[s] = "free"
  BY <1>1 DEF IInv, TypeOK, ServerOK, LockOK
<1>6. Elsewhere(s)
  BY <1>1 DEF Elsewhere, Same, IInv, TypeOK
<1>7. LockOK(s)'
  BY <1>5 DEF LockOK, Working, IInv, ServerOK
<1>8. CopyOK(s)'
  BY <1>5 DEF CopyOK, LockOK, Working, IInv, ServerOK, AtRest, TypeOK, BackupRecord, Kinds
<1>9. RetentionOK(s)'
  BY <1>4, RetentionSame DEF IInv, ServerOK
<1>10. AtRest(live'[s]) /\ live'[s]["ini"] # InUse
  BY <1>3, <1>5 DEF AtRest, Files
<1> QED
  BY <1>4, <1>5, <1>6, <1>7, <1>8, <1>9, <1>10, BackupStep DEF IInv, Sane, AtRest

\* Only the record of the backup changes.
LEMMA RecordStep ==
  ASSUME IInv, NEW s \in Servers, NEW b \in BackupRecord,
         backup' = [backup EXCEPT ![s] = b],
         UNCHANGED <<gameVars, profile, retired, dir, lock, restore, wipe, deletions,
                     wipes>>,
         temps' \subseteq Nat, tick' \in Nat, mishaps' \in Nat,
         LockOK(s)', CopyOK(s)', RetentionOK(s)'
  PROVE  IInv'
<1> USE DEF gameVars
<1>1. TypeOK'
  BY DEF IInv, TypeOK
<1>2. Elsewhere(s)
  BY DEF Elsewhere, Same, IInv, TypeOK
<1>3. live'[s]["ini"] # InUse /\ (~game'[s] => AtRest(live'[s]))
  BY DEF IInv, ServerOK, ContentOK, AtRest
<1> QED
  BY <1>1, <1>2, <1>3, BackupStep DEF IInv, Sane, AtRest

LEMMA RequestBackupInv ==
  ASSUME IInv, NEW s \in Servers, RequestBackup(s)
  PROVE  IInv'
<1> DEFINE b == [NoBackup EXCEPT !.pc = "wait", !.profile = profile[s]]
<1> USE DEF RequestBackup
<1>1. /\ b \in BackupRecord /\ b.pc = "wait" /\ b.kind = "backup"
      /\ b.whole /\ b.files = NoFiles /\ ~b.stale
  BY NoneTypes DEF BackupRecord, NoBackup, IInv, TypeOK
<1>2. backup' = [backup EXCEPT ![s] = b] /\ backup'[s] = b
  BY DEF IInv, TypeOK
<1> HIDE DEF b
<1>3. LockOK(s)'
  BY <1>1, <1>2 DEF LockOK, Working, BackupInProgress, RestoreInProgress, gameVars, IInv, ServerOK
<1>4. CopyOK(s)' /\ RetentionOK(s)'
  BY <1>1, <1>2 DEF CopyOK, RetentionOK
<1> QED
  BY <1>1, <1>2, <1>3, <1>4, RecordStep DEF IInv, TypeOK

LEMMA BackupGivesUpInv ==
  ASSUME IInv, NEW s \in Servers, BackupGivesUp(s)
  PROVE  IInv'
<1> USE DEF BackupGivesUp
<1>1. NoBackup \in BackupRecord /\ NoBackup.pc = "idle" /\ ~NoBackup.stale
      /\ backup'[s] = NoBackup
  BY NoneTypes DEF NoBackup, IInv, TypeOK
<1>3. LockOK(s)'
  BY <1>1 DEF LockOK, Working, gameVars, IInv, ServerOK
<1>4. CopyOK(s)' /\ RetentionOK(s)'
  BY <1>1 DEF CopyOK, RetentionOK
<1> QED
  BY <1>1, <1>3, <1>4, RecordStep DEF IInv, TypeOK

LEMMA BackupLocksInv ==
  ASSUME IInv, NEW s \in Servers, BackupLocks(s)
  PROVE  IInv'
<1> DEFINE b == [backup[s] EXCEPT !.pc = "open", !.revive = game[s]]
<1> USE DEF BackupLocks
<1>1. /\ live[s] \in [Files -> Content] /\ live[s]["ini"] # InUse
      /\ backup[s] \in BackupRecord /\ game[s] \in BOOLEAN
  BY DEF IInv, TypeOK, ServerOK, ContentOK
<1>2. /\ b \in BackupRecord /\ b.pc = "open" /\ b.kind = backup[s].kind
      /\ b.whole = backup[s].whole /\ b.files = backup[s].files /\ b.stale = backup[s].stale
  BY <1>1 DEF BackupRecord
<1>3. backup' = [backup EXCEPT ![s] = b] /\ backup'[s] = b
  BY DEF IInv, TypeOK
<1> HIDE DEF b
<1>4. tick' \in Nat /\ game' \in [Servers -> BOOLEAN] /\ ~game'[s]
  <2>1. game \in [Servers -> BOOLEAN] /\ tick \in Nat
    BY DEF IInv, TypeOK
  <2>2. CASE game[s]
    <3>1. tick' = tick + 1 /\ game' = [game EXCEPT ![s] = FALSE]
      BY <2>2
    <3> HIDE DEF BackupLocks
    <3> QED
      BY <2>1, <3>1
  <2>3. CASE ~game[s]
    BY <2>1, <2>3 DEF gameVars
  <2> QED
    BY <2>1, <2>2, <2>3
<1>5. live' \in [Servers -> [Files -> Content]] /\ AtRest(live'[s])
  <2>1. CASE game[s]
    <3>1. live' = [live EXCEPT ![s] = Played(@, tick', Absent)]
      BY <2>1
    <3>2. /\ Played(live[s], tick', Absent) \in [Files -> Content]
          /\ AtRest(Played(live[s], tick', Absent))
      BY <1>1, <1>4, PlayedType
    <3> QED
      BY <3>1, <3>2 DEF IInv, TypeOK
  <2>2. CASE ~game[s]
    BY <2>2 DEF IInv, TypeOK, ServerOK, ContentOK, gameVars, AtRest
  <2> QED
    BY <2>1, <2>2
<1>6. TypeOK'
  <2>1. backup' \in [Servers -> BackupRecord]
    BY <1>2, <1>3 DEF IInv, TypeOK
  <2>2. lock' \in [Servers -> Kinds \cup {"free"}]
    BY DEF IInv, TypeOK, Kinds
  <2> QED
    BY <2>1, <2>2, <1>4, <1>5 DEF IInv, TypeOK
<1>7. Elsewhere(s)
  BY <1>3, <1>4, <1>5 DEF Elsewhere, Same, IInv, TypeOK, gameVars
<1>8. LockOK(s)'
  BY <1>2, <1>3, <1>4 DEF LockOK, Working, IInv, ServerOK, TypeOK
<1>9. CopyOK(s)' /\ RetentionOK(s)'
  BY <1>2, <1>3 DEF CopyOK, RetentionOK, IInv, ServerOK
<1>10. live'[s]["ini"] # InUse
  BY <1>5 DEF AtRest, Files
<1> QED
  BY <1>4, <1>5, <1>6, <1>7, <1>8, <1>9, <1>10, BackupStep DEF IInv, Sane, AtRest

LEMMA MishapType ==
  ASSUME TypeOK, Fine \/ Mishap
  PROVE  mishaps' \in Nat
BY DEF TypeOK, Fine, Mishap

-----------------------------------------------------------------------------
(* The end of a backup.                                                    *)

LEMMA EndTypes ==
  ASSUME TypeOK, NEW s \in Servers, NEW ok \in BOOLEAN, EndBackup(s, ok)
  PROVE  /\ game' \in [Servers -> BOOLEAN]
         /\ live' \in [Servers -> [Files -> Content]]
         /\ lock' \in [Servers -> Kinds \cup {"free"}]
         /\ backup' \in [Servers -> BackupRecord]
         /\ restore' \in [Servers -> RestoreRecord]
         /\ wipe' \in [Servers -> WipeRecord]
<1>1. backup' \in [Servers -> BackupRecord]
  BY NoneTypes DEF EndBackup, TypeOK
<1>2. /\ restore[s] \in RestoreRecord /\ wipe[s] \in WipeRecord /\ backup[s].id \in Nat
      /\ backup[s].stale \in BOOLEAN
      /\ restore \in [Servers -> RestoreRecord] /\ wipe \in [Servers -> WipeRecord]
  BY DEF TypeOK, BackupRecord
<1> DEFINE r == [restore[s] EXCEPT !.pc = "extract", !.safety = backup[s].id,
                                  !.stale = backup[s].stale]
           w == [wipe[s] EXCEPT !.pc = "delete", !.safety = backup[s].id]
<1>3. r \in RestoreRecord /\ w \in WipeRecord
  BY <1>2 DEF RestoreRecord, WipeRecord
<1>4. EndBeforeRestore(s, ok) => restore' \in {[restore EXCEPT ![s] = r], [restore EXCEPT ![s] = NoRestore]}
  BY DEF EndBeforeRestore, EndRestore
<1>5. EndBeforeWipe(s, ok) => wipe' \in {[wipe EXCEPT ![s] = w], [wipe EXCEPT ![s] = NoWipe]}
  BY DEF EndBeforeWipe, EndWipe
<1> HIDE DEF r, w
<1>6. CASE EndNormal(s)
  <2>1. live[s] \in [Files -> Content] /\ Playing(live[s]) \in [Files -> Content]
    BY PlayingType DEF TypeOK
  <2>2. live' \in [Servers -> [Files -> Content]] /\ game' \in [Servers -> BOOLEAN]
    <3>1. CASE UNCHANGED gameVars
      BY <3>1 DEF TypeOK, gameVars
    <3>2. CASE game' = [game EXCEPT ![s] = TRUE] /\ live' = [live EXCEPT ![s] = Playing(@)]
      BY <2>1, <3>2 DEF TypeOK
    <3> QED
      BY <1>6, <3>1, <3>2 DEF EndNormal
  <2> QED
    BY <1>1, <1>6, <2>2 DEF EndNormal, TypeOK
<1>7. CASE EndBeforeRestore(s, ok)
  <2>1. restore' \in [Servers -> RestoreRecord]
    BY <1>2, <1>3, <1>4, <1>7, NoneTypes
  <2> QED
    BY <1>1, <1>7, <2>1 DEF EndBeforeRestore, EndRestore, TypeOK, gameVars
<1>8. CASE EndBeforeWipe(s, ok)
  <2>1. wipe' \in [Servers -> WipeRecord]
    BY <1>2, <1>3, <1>5, <1>8, NoneTypes
  <2> QED
    BY <1>1, <1>8, <2>1 DEF EndBeforeWipe, EndWipe, TypeOK, gameVars
<1> QED
  BY <1>6, <1>7, <1>8 DEF EndBackup

\* What an archive has as the server has it.
InCopy(s) == Files \ (IF backup[s].stale THEN {"ini"} ELSE {})

LEMMA EndBackupInv ==
  ASSUME IInv, NEW s \in Servers, NEW ok \in BOOLEAN, EndBackup(s, ok), Working(s),
         UNCHANGED <<profile, retired, deletions, wipes>>,
         dir' \subseteq Archive, IsFiniteSet(dir'), temps' \subseteq Nat,
         tick' \in Nat, mishaps' \in Nat,
         \A a \in dir' : Sane(a),
         \A a \in dir : a.of # s \/ backup[s].kind # "backup" => a \in dir',
         ok /\ backup[s].whole /\ backup[s].kind = "restore" =>
           \E a \in dir' : Covers(a, s, restore[s].before, backup[s].id, InCopy(s)),
         ok /\ backup[s].whole /\ backup[s].kind = "wipe" =>
           \E a \in dir' : Covers(a, s, wipe[s].before, backup[s].id, CoveredByWipe)
  PROVE  IInv'
<1>1. TypeOK'
  BY EndTypes DEF IInv, TypeOK
<1>2. /\ LockOK(s) /\ ContentOK(s) /\ SafetyOK(s) /\ ProgressOK(s) /\ SwapOK(s)
      /\ ~game[s] /\ AtRest(live[s]) /\ lock[s] = backup[s].kind
      /\ backup[s].kind \in Kinds /\ restore[s] \in RestoreRecord /\ wipe[s] \in WipeRecord
  BY DEF IInv, ServerOK, LockOK, ContentOK, TypeOK, BackupRecord, Kinds
<1>3. backup'[s] = NoBackup /\ \A r \in Servers \ {s} : backup'[r] = backup[r]
  BY DEF EndBackup, IInv, TypeOK
<1>4. CopyOK(s)' /\ RetentionOK(s)'
  BY <1>3 DEF CopyOK, RetentionOK, NoBackup
<1>5. CASE EndNormal(s)
  <2>1. lock[s] = "backup" /\ restore' = restore /\ wipe' = wipe
    BY <1>2, <1>5 DEF EndNormal
  <2>2. Elsewhere(s)
    BY <1>3, <1>5 DEF EndNormal, Elsewhere, Same, IInv, TypeOK, gameVars
  <2>3. live'[s]["ini"] # InUse /\ (~game'[s] => AtRest(live'[s]))
    <3>1. CASE UNCHANGED gameVars
      BY <1>2, <3>1 DEF gameVars, ContentOK, AtRest
    <3>2. CASE game' = [game EXCEPT ![s] = TRUE] /\ live' = [live EXCEPT ![s] = Playing(@)]
      BY <1>2, <3>2 DEF IInv, TypeOK, ContentOK, Playing, Files
    <3> QED
      BY <1>5, <3>1, <3>2 DEF EndNormal
  <2>4. LockOK(s)'
    BY <1>2, <1>3, <1>5 DEF EndNormal, LockOK, Working, NoBackup, IInv, TypeOK
  <2> QED
    BY <1>1, <1>4, <2>1, <2>2, <2>3, <2>4, BackupStep
<1>6. CASE EndBeforeRestore(s, ok)
  <2>1. /\ lock[s] = "restore" /\ restore[s].pc = "safety" /\ wipe[s].pc = "idle"
        /\ wipe' = wipe /\ game' = game /\ live' = live /\ dir \subseteq dir'
    BY <1>2, <1>6 DEF EndBeforeRestore, LockOK, Working, gameVars, IInv, TypeOK
  <2>2. \/ /\ ok /\ backup[s].whole /\ lock' = lock
           /\ restore'[s] = [restore[s] EXCEPT !.pc = "extract", !.safety = backup[s].id,
                                               !.stale = backup[s].stale]
        \/ lock'[s] = "free" /\ restore'[s] = NoRestore
    BY ZenonT(60), <1>6 DEF EndBeforeRestore, EndRestore, IInv, TypeOK
  <2>3. Elsewhere(s)
    BY <1>3, <1>6, <2>1 DEF EndBeforeRestore, EndRestore, Elsewhere, Same, IInv, TypeOK
  <2>4. CASE lock'[s] = "free" /\ restore'[s] = NoRestore
    <3>1. LockOK(s)' /\ SafetyOK(s)'
      BY <1>2, <1>3, <2>1, <2>4 DEF LockOK, SafetyOK, Working, NoBackup, NoRestore
    <3>2. ContentOK(s)' /\ ProgressOK(s)' /\ SwapOK(s)'
      BY <1>2, <2>1, <2>4 DEF ContentOK, ProgressOK, SwapOK, NoRestore, AtRest, Replacing
    <3> QED
      BY <1>1, <1>4, <2>3, <3>1, <3>2, Assemble DEF ServerOK
  <2>5. CASE /\ ok /\ backup[s].whole /\ lock' = lock
             /\ restore'[s] = [restore[s] EXCEPT !.pc = "extract", !.safety = backup[s].id,
                                                 !.stale = backup[s].stale]
    <3>1. /\ restore'[s].pc = "extract" /\ restore'[s].safety = backup[s].id
          /\ restore'[s].source = restore[s].source /\ restore'[s].before = restore[s].before
          /\ restore'[s].profile = restore[s].profile
          /\ restore'[s].meddled = restore[s].meddled
          /\ restore'[s].applied = restore[s].applied
          /\ restore'[s].retired = restore[s].retired
          /\ restore'[s].clean = restore[s].clean /\ restore'[s].updated = restore[s].updated
          /\ restore'[s].stale = backup[s].stale /\ restore'[s].edited = restore[s].edited
      BY <1>2, <2>5 DEF RestoreRecord
    <3>2. LockOK(s)'
      BY <1>2, <1>3, <2>1, <2>5, <3>1 DEF LockOK, Working, NoBackup
    <3>3. SafetyOK(s)'
      BY <1>2, <2>1, <2>5, <3>1, <1>6
      DEF SafetyOK, EndBeforeRestore, Covers, CoveredByRestore, InCopy
    <3>4. ContentOK(s)' /\ ProgressOK(s)' /\ SwapOK(s)'
      BY <1>2, <2>1, <3>1 DEF ContentOK, ProgressOK, SwapOK, AtRest, Sane, Replacing
    <3> QED
      BY <1>1, <1>4, <2>3, <3>2, <3>3, <3>4, Assemble DEF ServerOK
  <2> QED
    BY <2>2, <2>4, <2>5
<1>7. CASE EndBeforeWipe(s, ok)
  <2>1. /\ lock[s] = "wipe" /\ wipe[s].pc = "safety" /\ restore[s].pc = "idle"
        /\ restore' = restore /\ game' = game /\ live' = live /\ dir \subseteq dir'
    BY <1>2, <1>7 DEF EndBeforeWipe, LockOK, Working, gameVars, IInv, TypeOK
  <2>2. \/ /\ ok /\ backup[s].whole /\ lock' = lock
           /\ wipe'[s] = [wipe[s] EXCEPT !.pc = "delete", !.safety = backup[s].id]
        \/ lock'[s] = "free" /\ wipe'[s] = NoWipe
    BY ZenonT(60), <1>7 DEF EndBeforeWipe, EndWipe, IInv, TypeOK
  <2>3. Elsewhere(s)
    BY <1>3, <1>7, <2>1 DEF EndBeforeWipe, EndWipe, Elsewhere, Same, IInv, TypeOK
  <2>4. ContentOK(s)' /\ ProgressOK(s)' /\ SwapOK(s)'
    BY <1>2, <2>1 DEF ContentOK, ProgressOK, SwapOK, AtRest, Replacing, InHand, WasRetired
  <2>5. CASE lock'[s] = "free" /\ wipe'[s] = NoWipe
    <3>1. LockOK(s)' /\ SafetyOK(s)'
      BY <1>2, <1>3, <2>1, <2>5 DEF LockOK, SafetyOK, Working, NoBackup, NoWipe
    <3> QED
      BY <1>1, <1>4, <2>3, <2>4, <3>1, Assemble DEF ServerOK
  <2>6. CASE /\ ok /\ backup[s].whole /\ lock' = lock
             /\ wipe'[s] = [wipe[s] EXCEPT !.pc = "delete", !.safety = backup[s].id]
    <3>1. /\ wipe'[s].pc = "delete" /\ wipe'[s].safety = backup[s].id
          /\ wipe'[s].before = wipe[s].before
      BY <1>2, <2>6 DEF WipeRecord
    <3>2. LockOK(s)'
      BY <1>2, <1>3, <2>1, <2>6, <3>1 DEF LockOK, Working, NoBackup
    <3>3. SafetyOK(s)'
      BY <2>1, <2>6, <3>1, <1>7 DEF SafetyOK, EndBeforeWipe, Covers
    <3> QED
      BY <1>1, <1>4, <2>3, <2>4, <3>2, <3>3, Assemble DEF ServerOK
  <2> QED
    BY <2>2, <2>5, <2>6
<1> QED
  BY <1>5, <1>6, <1>7 DEF EndBackup

\* A backup that fails leaves the archives alone.
LEMMA BackupFailsInv ==
  ASSUME IInv, NEW s \in Servers, BackupFails(s), Working(s),
         UNCHANGED <<profile, retired, dir, deletions, wipes>>,
         temps' \subseteq Nat, tick' \in Nat, mishaps' \in Nat
  PROVE  IInv'
BY EndBackupInv DEF BackupFails, IInv, TypeOK, Sane, AtRest

-----------------------------------------------------------------------------
(* The steps of a backup.                                                  *)

LEMMA OpenArchiveInv ==
  ASSUME IInv, NEW s \in Servers, OpenArchive(s)
  PROVE  IInv'
<1>1. /\ LockOK(s) /\ CopyOK(s) /\ backup[s] \in BackupRecord /\ backup[s].pc = "open"
      /\ Working(s) /\ tick \in Nat /\ mishaps \in Nat /\ temps \subseteq Nat
  BY DEF OpenArchive, IInv, ServerOK, TypeOK, Working
<1>2. CASE BackupFails(s) /\ UNCHANGED <<temps, tick>>
  BY <1>1, <1>2, BackupFailsInv DEF OpenArchive
<1>3. CASE /\ live[s]["world"] # Absent /\ live[s]["ini"] # Absent
           /\ tick' = tick + 1 /\ temps' = {}
           /\ backup' = [backup EXCEPT ![s].pc = "count", ![s].id = tick',
                           ![s].todo = {f \in Files : live[s][f] # Absent}]
           /\ UNCHANGED <<gameVars, lock, restore, wipe>>
  <2> DEFINE b == [backup[s] EXCEPT !.pc = "count", !.id = tick',
                     !.todo = {f \in Files : live[s][f] # Absent}]
  <2>1. tick' \in Nat /\ temps' \subseteq Nat
    BY <1>1, <1>3
  <2>2. /\ b \in BackupRecord /\ b.pc = "count" /\ b.kind = backup[s].kind
        /\ b.todo = {f \in Files : live[s][f] # Absent} /\ b.stale = backup[s].stale
        /\ b.whole = backup[s].whole /\ b.files = backup[s].files
    BY <1>1, <2>1 DEF BackupRecord
  <2>3. backup' = [backup EXCEPT ![s] = b] /\ backup'[s] = b
    BY <1>3 DEF IInv, TypeOK
  <2> HIDE DEF b
  <2>4. LockOK(s)'
    BY <1>1, <1>3, <2>2, <2>3 DEF LockOK, Working, gameVars
  <2>5. /\ "world" \in b.todo /\ "ini" \in b.todo
        /\ \A f \in Files \ b.todo : live[s][f] = Absent
    BY <1>3, <2>2 DEF Files
  <2>6. CopyOK(s)'
    BY <1>1, <1>3, <2>2, <2>3, <2>5 DEF CopyOK, gameVars
  <2>7. RetentionOK(s)'
    BY <2>2, <2>3 DEF RetentionOK
  <2> QED
    BY <1>1, <1>3, <2>1, <2>2, <2>3, <2>4, <2>6, <2>7, RecordStep DEF OpenArchive
<1> QED
  BY <1>2, <1>3 DEF OpenArchive

LEMMA CreateTempInv ==
  ASSUME IInv, NEW s \in Servers, CreateTemp(s)
  PROVE  IInv'
<1> DEFINE b == [backup[s] EXCEPT !.pc = "copy"]
<1>1. /\ LockOK(s) /\ CopyOK(s) /\ backup[s] \in BackupRecord /\ backup[s].pc = "count"
      /\ tick' \in Nat /\ mishaps' \in Nat /\ temps' \subseteq Nat /\ live' = live
  BY DEF CreateTemp, IInv, ServerOK, TypeOK, BackupRecord, gameVars
<1>2. /\ b \in BackupRecord /\ b.pc = "copy" /\ b.kind = backup[s].kind
      /\ b.todo = backup[s].todo /\ b.whole /\ b.files = NoFiles
  BY <1>1 DEF BackupRecord, CopyOK
<1>3. backup' = [backup EXCEPT ![s] = b] /\ backup'[s] = b
  BY DEF CreateTemp, IInv, TypeOK
<1> HIDE DEF b
<1>4. LockOK(s)' /\ RetentionOK(s)'
  BY <1>1, <1>2, <1>3 DEF CreateTemp, LockOK, Working, RetentionOK, gameVars
<1>5. \A f \in Files : b.files[f] = Absent
  BY <1>2 DEF NoFiles
<1>6. /\ "world" \in b.todo
      /\ \A f \in Files \ b.todo : b.files[f] = live[s][f]
  BY <1>1, <1>2, <1>5 DEF CopyOK
<1>7. CopyOK(s)'
  BY <1>1, <1>2, <1>3, <1>5, <1>6, ContentAssumption DEF CopyOK, AtRest
<1> QED
  BY <1>1, <1>2, <1>3, <1>4, <1>7, RecordStep DEF CreateTemp

LEMMA StoredInv ==
  ASSUME IInv, NEW s \in Servers, NEW f \in Files, NEW content \in Content,
         NEW noted \in BOOLEAN, Stored(s, f, content, noted),
         backup[s].pc = "copy", f \in backup[s].todo, content # InUse,
         f = "world" => content # Absent,
         ~noted => content = live[s][f] \/ (f = "world" /\ content = Gaps),
         UNCHANGED <<profile, retired, dir, tick, deletions, wipes>>, mishaps' \in Nat
  PROVE  IInv'
<1>1. /\ LockOK(s) /\ CopyOK(s) /\ backup[s] \in BackupRecord /\ Working(s)
      /\ tick \in Nat /\ temps \subseteq Nat
  BY DEF IInv, ServerOK, TypeOK, Working
<1> DEFINE b == [backup[s] EXCEPT !.todo = @ \ {f}, !.files[f] = content,
                   !.whole = @ /\ ~noted,
                   !.pc = IF backup[s].todo = {f} THEN "seal" ELSE "copy"]
<1>2. backup' = [backup EXCEPT ![s] = b] /\ backup'[s] = b
  BY ZenonT(60) DEF Stored, IInv, TypeOK
<1>3. /\ b.pc = IF backup[s].todo = {f} THEN "seal" ELSE "copy"
      /\ b.kind = backup[s].kind /\ b.id = backup[s].id /\ b.todo = backup[s].todo \ {f}
      /\ b.files = [backup[s].files EXCEPT ![f] = content]
      /\ b.whole = (backup[s].whole /\ ~noted)
      /\ b.revive = backup[s].revive /\ b.doomed = backup[s].doomed
      /\ b.stale = backup[s].stale
  BY <1>1 DEF BackupRecord
<1>4. b \in BackupRecord
  BY <1>1 DEF BackupRecord
<1> HIDE DEF b
<1>5. LockOK(s)'
  BY <1>1, <1>2, <1>3 DEF LockOK, Working, gameVars, Stored
<1>6. /\ b.files \in [Files -> Content] /\ b.files[f] = content
      /\ \A g \in Files \ {f} : b.files[g] = backup[s].files[g]
  BY <1>1, <1>3 DEF BackupRecord
<1>7. b.pc \in {"seal", "copy"} /\ (b.pc = "seal" <=> b.todo = {}) /\ live' = live
  BY <1>3 DEF Stored, gameVars
<1>8. AtRest(b.files) /\ ("world" \notin b.todo => b.files["world"] # Absent)
  BY <1>1, <1>3, <1>6 DEF CopyOK, AtRest, Files
<1> DEFINE SameAs(g, x) == \/ x = live[s][g] \/ (g = "world" /\ x = Gaps)
                      \/ (g = "ini" /\ backup[s].stale)
<1>9. b.whole => \A g \in Files \ b.todo : SameAs(g, b.files[g])
  <2>1. SUFFICES ASSUME b.whole, NEW g \in Files \ b.todo
                 PROVE  SameAs(g, b.files[g])
    OBVIOUS
  <2>2. CASE g = f
    BY <1>3, <1>6, <2>1, <2>2
  <2>3. CASE g # f
    <3>1. g \in Files \ backup[s].todo /\ b.files[g] = backup[s].files[g]
      BY <1>3, <1>6, <2>1, <2>3
    <3>2. backup[s].whole
      BY <1>3, <2>1
    <3>3. SameAs(g, backup[s].files[g])
      BY <1>1, <3>1, <3>2 DEF CopyOK
    <3> QED
      BY <3>1, <3>3
  <2> QED
    BY <2>2, <2>3
<1>10. CopyOK(s)'
  <2>1. live' = live /\ backup'[s].stale = backup[s].stale
    BY <1>2, <1>3, <1>7
  <2>2. b.whole => \A g \in Files \ b.todo :
          \/ b.files[g] = live[s][g] \/ (g = "world" /\ b.files[g] = Gaps)
          \/ g = "ini" /\ backup[s].stale
    BY <1>9
  <2> QED
    BY <1>2, <1>7, <1>8, <2>1, <2>2 DEF CopyOK
<1>11. RetentionOK(s)'
  BY <1>2, <1>7 DEF RetentionOK
<1> QED
  BY <1>1, <1>2, <1>4, <1>5, <1>10, <1>11, RecordStep DEF Stored

LEMMA CopyInv ==
  ASSUME IInv, NEW s \in Servers, Copy(s)
  PROVE  IInv'
<1> DEFINE f == First(backup[s].todo)
<1>1. /\ backup[s].pc = "copy" /\ backup[s].todo \in SUBSET Files /\ backup[s].todo # {}
      /\ AtRest(live[s]) /\ live[s] \in [Files -> Content] /\ Working(s)
  BY ZenonT(60) DEF Copy, IInv, ServerOK, CopyOK, LockOK, ContentOK, TypeOK, BackupRecord, Working,
         Kinds, AtRest
<1>2. f \in backup[s].todo /\ f \in Files
  BY <1>1, FirstIn
<1> HIDE DEF f
<1>3. Fine \/ Mishap => mishaps' \in Nat
  BY MishapType DEF IInv
<1>4. CASE live[s][f] # Absent /\ Stored(s, f, live[s][f], FALSE) /\ Fine
  <2>1. live[s][f] \in Content /\ live[s][f] # InUse
    BY <1>1, <1>2 DEF AtRest
  <2> QED
    BY <1>1, <1>2, <1>3, <1>4, <2>1, StoredInv DEF Copy
<1>5. CASE Mishap /\ f = "world" /\ \E noted \in BOOLEAN : Stored(s, f, Gaps, noted)
  <2>1. PICK noted \in BOOLEAN : Stored(s, f, Gaps, noted)
    BY <1>5
  <2>2. Gaps \in Content /\ Gaps # InUse /\ Gaps # Absent
    BY ContentAssumption DEF Content
  <2> QED
    BY <1>1, <1>2, <1>3, <1>5, <2>1, <2>2, StoredInv DEF Copy
<1>6. CASE Mishap /\ f # "world" /\ Stored(s, f, Absent, TRUE)
  BY <1>1, <1>2, <1>3, <1>6, StoredInv, ContentAssumption DEF Copy, Content
<1>7. CASE Mishap /\ temps' = temps \ {backup[s].id} /\ BackupFails(s)
  BY <1>1, <1>3, <1>7, BackupFailsInv DEF Copy, IInv, TypeOK
<1> QED
  BY <1>4, <1>5, <1>6, <1>7 DEF Copy, f

LEMMA SealInv ==
  ASSUME IInv, NEW s \in Servers, Seal(s)
  PROVE  IInv'
<1> DEFINE b == backup[s]
           a == [id |-> b.id, of |-> s, full |-> TRUE, whole |-> b.whole, files |-> b.files,
                 profile |-> b.profile]
<1>1. /\ LockOK(s) /\ CopyOK(s) /\ SafetyOK(s) /\ b \in BackupRecord /\ b.pc = "seal"
      /\ Working(s) /\ tick \in Nat /\ mishaps \in Nat /\ temps \subseteq Nat
      /\ profile[s] \in Nat
  BY DEF Seal, IInv, ServerOK, TypeOK, Working
<1>2. mishaps' \in Nat
  BY MishapType DEF Seal, IInv
<1>3. a \in Archive /\ a.of = s /\ a.id = b.id /\ a.whole = b.whole /\ a.files = b.files
  BY <1>1 DEF Archive, BackupRecord
<1>4. Sane(a)
  BY <1>1, <1>3 DEF CopyOK, Sane
<1> HIDE DEF a
<1>5. CASE BackupFails(s) /\ UNCHANGED <<dir, temps>>
  BY <1>1, <1>2, <1>5, BackupFailsInv DEF Seal
<1>6. CASE /\ temps' = temps \ {b.id} /\ dir' = dir \cup {a}
           /\ IF Retires(s)
                THEN /\ backup' = [backup EXCEPT ![s].pc = "list"]
                     /\ UNCHANGED <<gameVars, lock, restore, wipe>>
                ELSE EndBackup(s, TRUE)
  <2>1. /\ dir' \subseteq Archive /\ IsFiniteSet(dir') /\ temps' \subseteq Nat
        /\ \A x \in dir' : Sane(x)
        /\ dir \subseteq dir' /\ a \in dir'
    BY <1>1, <1>3, <1>4, <1>6, FS_AddElement DEF IInv, TypeOK, Sane, AtRest
  <2>2. CASE Retires(s)
    <3> DEFINE n == [b EXCEPT !.pc = "list"]
    <3>1. /\ n \in BackupRecord /\ n.pc = "list" /\ n.kind = b.kind
      BY <1>1 DEF BackupRecord
    <3>2. backup' = [backup EXCEPT ![s] = n] /\ backup'[s] = n
      BY <1>6, <2>2 DEF IInv, TypeOK
    <3> HIDE DEF n
    <3>3. b.kind = "backup" /\ UNCHANGED <<game, live, lock, restore, wipe>>
      BY <1>6, <2>2 DEF Retires, gameVars
    <3>4. TypeOK'
      BY <1>2, <2>1, <3>1, <3>2, <3>3 DEF Seal, IInv, TypeOK
    <3>5. Elsewhere(s)
      BY <2>1, <3>2, <3>3 DEF Seal, Elsewhere, Same, IInv, TypeOK
    <3>6. LockOK(s)' /\ CopyOK(s)' /\ RetentionOK(s)'
      BY <1>1, <3>1, <3>2, <3>3 DEF LockOK, Working, CopyOK, RetentionOK
    <3>7. live'[s]["ini"] # InUse /\ (~game'[s] => AtRest(live'[s]))
      BY <3>3 DEF IInv, ServerOK, ContentOK, AtRest
    <3> QED
      BY <2>1, <3>3, <3>4, <3>5, <3>6, <3>7, BackupStep DEF Seal
  <2>3. CASE ~Retires(s)
    <3>1. EndBackup(s, TRUE) /\ b.kind # "backup"
      BY <1>6, <2>3 DEF Retires
    <3>2. b.kind = "restore" /\ b.whole =>
            Covers(a, s, restore[s].before, b.id, InCopy(s)) /\ a \in dir'
      <4>1. SUFFICES ASSUME b.kind = "restore", b.whole, NEW f \in InCopy(s)
                     PROVE  b.files[f] = live[s][f] \/ (f = "world" /\ b.files[f] = Gaps)
        BY <1>1, <1>3, <2>1 DEF Covers, LockOK, SafetyOK
      <4> QED
        BY <1>1, <4>1 DEF CopyOK, InCopy
    <3>3. b.kind = "wipe" /\ b.whole =>
            Covers(a, s, wipe[s].before, b.id, CoveredByWipe) /\ a \in dir'
      <4>1. SUFFICES ASSUME b.kind = "wipe", b.whole, NEW f \in CoveredByWipe
                     PROVE  b.files[f] = live[s][f] \/ (f = "world" /\ b.files[f] = Gaps)
        BY <1>1, <1>3, <2>1 DEF Covers, LockOK, SafetyOK
      <4> QED
        BY <1>1, <4>1 DEF CopyOK, CoveredByWipe
    <3> QED
      BY <1>1, <1>2, <2>1, <3>1, <3>2, <3>3, EndBackupInv DEF Seal
  <2> QED
    BY <2>2, <2>3
<1> QED
  BY <1>5, <1>6 DEF Seal, a

LEMMA ListBackupsInv ==
  ASSUME IInv, NEW s \in Servers, ListBackups(s)
  PROVE  IInv'
<1> DEFINE D == {a \in Prunable(s) : Cardinality(Newer(a, Prunable(s))) >= MaxBackups}
           b == [backup[s] EXCEPT !.pc = "prune", !.doomed = D]
<1>1. /\ LockOK(s) /\ CopyOK(s) /\ backup[s] \in BackupRecord /\ backup[s].pc = "list"
      /\ D \subseteq Archive
  BY DEF ListBackups, IInv, ServerOK, TypeOK, Prunable
<1>2. \A a \in D : a.of = s /\ Cardinality({x \in Newer(a, dir) : x.of = s}) + deletions >= MaxBackups
  <2>1. TAKE a \in D
  <2>2. Newer(a, Prunable(s)) = {x \in Newer(a, dir) : x.of = s}
    BY DEF Newer, Prunable
  <2>3. IsFiniteSet(Newer(a, Prunable(s)))
    BY FS_Subset DEF Newer, Prunable, IInv, TypeOK
  <2>4. Cardinality(Newer(a, Prunable(s))) \in Nat /\ Cardinality(Newer(a, Prunable(s))) >= MaxBackups
    BY <2>3, FS_CardinalityType
  <2>5. deletions \in Nat /\ MaxBackups \in Nat /\ a.of = s
    BY BackupAssumption DEF IInv, TypeOK, Prunable
  <2> QED
    BY <2>2, <2>4, <2>5
<1> HIDE DEF D
<1>3. b \in BackupRecord /\ b.pc = "prune" /\ b.kind = backup[s].kind /\ b.doomed = D
  BY <1>1 DEF BackupRecord
<1>4. backup' = [backup EXCEPT ![s] = b] /\ backup'[s] = b
  BY DEF ListBackups, D, IInv, TypeOK
<1> HIDE DEF b
<1>5. LockOK(s)' /\ CopyOK(s)'
  BY <1>1, <1>3, <1>4 DEF ListBackups, LockOK, Working, CopyOK, gameVars
<1>6. RetentionOK(s)'
  BY <1>2, <1>3, <1>4 DEF ListBackups, RetentionOK, Newer
<1>7. tick' \in Nat /\ mishaps' \in Nat /\ temps' \subseteq Nat
  BY DEF ListBackups, IInv, TypeOK
<1> QED
  BY <1>3, <1>4, <1>5, <1>6, <1>7, RecordStep DEF ListBackups

LEMMA PruneInv ==
  ASSUME IInv, NEW s \in Servers, Prune(s)
  PROVE  IInv'
<1>1. /\ RetentionOK(s) /\ CopyOK(s) /\ backup[s].pc = "prune" /\ backup[s].kind = "backup"
      /\ Working(s)
  BY DEF Prune, IInv, ServerOK, CopyOK, Working
<1>2. mishaps' \in Nat /\ tick' \in Nat /\ temps' \subseteq Nat
  BY MishapType DEF Prune, IInv, TypeOK
<1>3. dir' \subseteq dir /\ dir \ dir' \subseteq backup[s].doomed
  BY DEF Prune
<1>4. dir' \subseteq Archive /\ IsFiniteSet(dir') /\ \A a \in dir' : Sane(a)
  BY <1>3, FS_Subset DEF IInv, TypeOK, Sane, AtRest
<1>5. \A a \in dir : a.of # s => a \in dir'
  BY <1>1, <1>3 DEF RetentionOK
<1> QED
  BY <1>1, <1>2, <1>4, <1>5, EndBackupInv DEF Prune

LEMMA DeleteBackupInv ==
  ASSUME IInv, NEW s \in Servers, DeleteBackup(s)
  PROVE  IInv'
<1>1. PICK a \in dir :
        /\ dir' = dir \ {a}
        /\ restore' = [r \in Servers |-> IF a.id \in {restore[r].safety, restore[r].source.id}
                          THEN [restore[r] EXCEPT !.meddled = TRUE] ELSE restore[r]]
        /\ wipe' = [r \in Servers |-> IF a.id = wipe[r].safety
                          THEN [wipe[r] EXCEPT !.meddled = TRUE] ELSE wipe[r]]
  BY DEF DeleteBackup
<1>2. /\ deletions \in Nat /\ deletions' = deletions + 1 /\ IsFiniteSet(dir)
      /\ UNCHANGED <<game, live, profile, retired, temps, lock, backup, tick, mishaps, wipes>>
  BY DEF DeleteBackup, gameVars, IInv, TypeOK
<1>3. ASSUME NEW r \in Servers
      PROVE  /\ restore'[r] \in RestoreRecord /\ wipe'[r] \in WipeRecord
             /\ ServerOK(r)'
  <2>1. ServerOK(r) /\ restore[r] \in RestoreRecord /\ wipe[r] \in WipeRecord
    BY DEF IInv, TypeOK
  <2>2. /\ restore'[r] = IF a.id \in {restore[r].safety, restore[r].source.id}
                          THEN [restore[r] EXCEPT !.meddled = TRUE] ELSE restore[r]
        /\ wipe'[r] = IF a.id = wipe[r].safety
                          THEN [wipe[r] EXCEPT !.meddled = TRUE] ELSE wipe[r]
    BY <1>1
  <2>3. /\ restore'[r] \in RestoreRecord
        /\ restore'[r].pc = restore[r].pc /\ restore'[r].source = restore[r].source
        /\ restore'[r].todo = restore[r].todo /\ restore'[r].applied = restore[r].applied
        /\ restore'[r].retired = restore[r].retired
        /\ restore'[r].before = restore[r].before
        /\ restore'[r].profile = restore[r].profile
        /\ restore'[r].updated = restore[r].updated /\ restore'[r].safety = restore[r].safety
        /\ restore'[r].clean = restore[r].clean
        /\ restore'[r].meddled =
             (restore[r].meddled \/ a.id \in {restore[r].safety, restore[r].source.id})
        /\ restore'[r].stale = restore[r].stale /\ restore'[r].edited = restore[r].edited
    BY ZenonT(60), <2>1, <2>2 DEF RestoreRecord
  <2>4. /\ wipe'[r] \in WipeRecord /\ wipe'[r].pc = wipe[r].pc
        /\ wipe'[r].before = wipe[r].before /\ wipe'[r].safety = wipe[r].safety
        /\ wipe'[r].meddled = (wipe[r].meddled \/ a.id = wipe[r].safety)
    BY <2>1, <2>2 DEF WipeRecord
  <2>5. LockOK(r)' /\ ContentOK(r)' /\ CopyOK(r)'
    BY <1>2, <2>1, <2>3, <2>4 DEF ServerOK, LockOK, Working, ContentOK, CopyOK, AtRest, Sane
  <2>6. SafetyOK(r)'
    <3>1. SafetyOK(r) /\ CoveredByRestore(r)' = CoveredByRestore(r)
      BY <2>1, <2>3 DEF ServerOK, CoveredByRestore
    <3>2. (restore[r].pc \in {"safety", "extract"} =>
             /\ live[r] = restore[r].before
             /\ profile[r] = restore[r].profile \/ "profile" \in restore[r].edited)'
      BY <1>2, <2>3, <3>1 DEF SafetyOK
    <3>3. (restore[r].pc \notin {"idle", "safety"} /\ ~restore[r].meddled
             /\ restore[r].before["world"] # Absent
           => \E x \in dir : Covers(x, r, restore[r].before, restore[r].safety, CoveredByRestore(r)))'
      <4>1. SUFFICES ASSUME restore'[r].pc \notin {"idle", "safety"}, ~restore'[r].meddled,
                            restore'[r].before["world"] # Absent
                     PROVE  \E x \in dir' : Covers(x, r, restore[r].before, restore[r].safety,
                                                  CoveredByRestore(r))
        BY <2>3, <3>1 DEF Covers
      <4>2. PICK x \in dir : Covers(x, r, restore[r].before, restore[r].safety, CoveredByRestore(r))
        BY <2>3, <3>1, <4>1 DEF SafetyOK
      <4> QED
        BY <1>1, <2>3, <4>1, <4>2 DEF Covers
    <3>4. (wipe[r].pc = "safety" => \A f \in CoveredByWipe : live[r][f] = wipe[r].before[f])'
      BY <1>2, <2>4, <3>1 DEF SafetyOK
    <3>5. (wipe[r].pc = "delete" /\ wipe[r].safety # 0 /\ ~wipe[r].meddled =>
             \E x \in dir : Covers(x, r, wipe[r].before, wipe[r].safety, CoveredByWipe))'
      <4>1. SUFFICES ASSUME wipe'[r].pc = "delete", wipe'[r].safety # 0, ~wipe'[r].meddled
                     PROVE  \E x \in dir' : Covers(x, r, wipe[r].before, wipe[r].safety, CoveredByWipe)
        BY <2>4 DEF Covers
      <4>2. PICK x \in dir : Covers(x, r, wipe[r].before, wipe[r].safety, CoveredByWipe)
        BY <2>4, <3>1, <4>1 DEF SafetyOK
      <4> QED
        BY <1>1, <2>4, <4>1, <4>2 DEF Covers
    <3>6. (restore[r].pc \in {"safety", "extract"} /\ restore[r].source.of \in {r, Nobody} =>
             restore[r].source \in dir \/ restore[r].meddled)'
      BY <1>1, <2>3, <3>1 DEF SafetyOK
    <3> QED
      BY <3>2, <3>3, <3>4, <3>5, <3>6 DEF SafetyOK
  <2>7. ProgressOK(r)' /\ SwapOK(r)'
    BY <1>2, <2>1, <2>3 DEF ServerOK, ProgressOK, SwapOK, Replacing, InHand, WasRetired
  <2>8. RetentionOK(r)'
    <3>1. SUFFICES ASSUME backup[r].pc = "prune", NEW x \in backup[r].doomed
                   PROVE  Cardinality({b \in Newer(x, dir') : b.of = r}) + deletions' >= MaxBackups
      BY <1>2, <2>1 DEF ServerOK, RetentionOK, Newer
    <3> DEFINE X == {b \in Newer(x, dir) : b.of = r}
               Y == {b \in Newer(x, dir') : b.of = r}
    <3>2. X \in SUBSET dir /\ IsFiniteSet(X)
      BY <1>2, FS_Subset DEF Newer
    <3>3. Y = X \/ (a \in X /\ Y = X \ {a})
      BY <1>1 DEF Newer
    <3>4. Cardinality(X) + deletions >= MaxBackups
      BY <2>1, <3>1 DEF ServerOK, RetentionOK
    <3> HIDE DEF X, Y
    <3>5. Cardinality(X) \in Nat /\ Cardinality(Y) \in {Cardinality(X), Cardinality(X) - 1}
      BY <3>2, <3>3, FS_CardinalityType, FS_RemoveElement
    <3>6. Cardinality(Y) + deletions' >= MaxBackups
      BY <1>2, <3>4, <3>5, BackupAssumption
    <3> QED
      BY <3>6 DEF Y
  <2> QED
    BY <2>3, <2>4, <2>5, <2>6, <2>7, <2>8 DEF ServerOK
<1>4. dir' \subseteq dir /\ IsFiniteSet(dir')
  BY <1>1, <1>2, FS_Subset
<1>5. restore' \in [Servers -> RestoreRecord] /\ wipe' \in [Servers -> WipeRecord]
  BY <1>1, <1>3
<1>6. TypeOK'
  BY <1>2, <1>4, <1>5 DEF IInv, TypeOK
<1> QED
  BY <1>3, <1>4, <1>6 DEF IInv, Sane, AtRest

-----------------------------------------------------------------------------
(* The steps of a restore.                                                 *)

\* Without a working backup a step of the restore leaves CopyOK alone.
LEMMA NotWorking ==
  ASSUME IInv, NEW s \in Servers,
         restore[s].pc \notin {"idle", "safety"} \/ wipe[s].pc = "delete"
         \/ lock[s] = "free"
  PROVE  /\ backup[s].pc \in {"idle", "wait"}
         /\ backup' = backup => CopyOK(s)' /\ RetentionOK(s)'
<1>1. backup[s].pc \in {"idle", "wait"}
  BY DEF IInv, ServerOK, LockOK, Working, TypeOK, BackupRecord, Kinds
<1>2. backup' = backup => CopyOK(s)' /\ RetentionOK(s)'
  BY <1>1 DEF IInv, ServerOK, CopyOK, RetentionOK
<1> QED
  BY <1>1, <1>2

\* A restore ends: the files stay as they are.
LEMMA RestoreEndsInv ==
  ASSUME IInv, NEW s \in Servers, EndRestore(s), restore[s].pc \notin {"idle", "safety"},
         UNCHANGED <<gameVars, profile, dir, temps, backup, wipe, tick, deletions, wipes>>,
         mishaps' \in Nat, retired' \in [Servers -> SUBSET (Files \X Content)]
  PROVE  IInv'
<1>1. restore'[s] = NoRestore /\ lock'[s] = "free"
  BY DEF EndRestore, IInv, TypeOK
<1>2. restore' \in [Servers -> RestoreRecord] /\ lock' \in [Servers -> Kinds \cup {"free"}]
  BY NoneTypes DEF EndRestore, IInv, TypeOK
<1>3. TypeOK'
  BY <1>2 DEF IInv, TypeOK, gameVars
<1>4. Elsewhere(s)
  BY DEF EndRestore, Elsewhere, Same, IInv, TypeOK, gameVars
<1>5. backup[s].pc \in {"idle", "wait"} /\ CopyOK(s)' /\ RetentionOK(s)'
  BY NotWorking
<1>6. LockOK(s)' /\ SafetyOK(s)'
  BY <1>1, <1>5 DEF IInv, ServerOK, LockOK, SafetyOK, Working, NoRestore, gameVars
<1>7. ContentOK(s)' /\ ProgressOK(s)' /\ SwapOK(s)'
  BY <1>1 DEF IInv, ServerOK, ContentOK, ProgressOK, SwapOK, Replacing, NoRestore, AtRest,
              LockOK, gameVars
<1> QED
  BY <1>3, <1>4, <1>5, <1>6, <1>7, Assemble DEF ServerOK, IInv, Sane, AtRest

LEMMA RequestRestoreInv ==
  ASSUME IInv, NEW s \in Servers, RequestRestore(s)
  PROVE  IInv'
<1>1. PICK a \in dir :
        restore' = [restore EXCEPT ![s] = [NoRestore EXCEPT !.source = a, !.before = live[s],
          !.profile = profile[s], !.pc = IF live[s]["world"] = Absent THEN "extract" ELSE "safety"]]
  BY DEF RequestRestore
<1> DEFINE r == [NoRestore EXCEPT !.source = a, !.before = live[s], !.profile = profile[s],
                   !.pc = IF live[s]["world"] = Absent THEN "extract" ELSE "safety"]
           b == IF live[s]["world"] = Absent THEN backup[s]
                ELSE [NoBackup EXCEPT !.pc = "open", !.kind = "restore", !.profile = profile[s]]
<1>2. /\ live[s] \in [Files -> Content] /\ profile[s] \in Nat /\ a \in Archive /\ Sane(a)
      /\ lock[s] = "free" /\ ~game[s] /\ AtRest(live[s]) /\ backup[s] \in BackupRecord
      /\ ~Working(s) /\ backup[s].pc = "idle" /\ wipe[s].pc = "idle"
      /\ LockOK(s) /\ CopyOK(s) /\ live[s]["ini"] # InUse
  BY DEF RequestRestore, IInv, ServerOK, ContentOK, LockOK, TypeOK, BackupInProgress, Working
<1>3. /\ r \in RestoreRecord /\ r.source = a /\ r.before = live[s] /\ r.profile = profile[s]
      /\ r.pc = IF live[s]["world"] = Absent THEN "extract" ELSE "safety"
      /\ r.applied = {} /\ r.retired = {} /\ r.clean /\ ~r.updated /\ r.edited = {} /\ ~r.stale
  BY <1>2, NoneTypes DEF NoRestore, RestoreRecord
<1>4. /\ b \in BackupRecord
      /\ b.pc = IF live[s]["world"] = Absent THEN "idle" ELSE "open"
      /\ live[s]["world"] # Absent =>
           b.kind = "restore" /\ b.whole /\ b.files = NoFiles /\ ~b.stale
  BY <1>2, NoneTypes DEF NoBackup, BackupRecord, Kinds
<1>5. restore' = [restore EXCEPT ![s] = r] /\ restore'[s] = r
  BY <1>1 DEF IInv, TypeOK
<1>6. backup' = [backup EXCEPT ![s] = b] /\ backup'[s] = b
  BY DEF RequestRestore, IInv, TypeOK
<1> HIDE DEF r, b
<1>7. lock'[s] = "restore" /\ lock' \in [Servers -> Kinds \cup {"free"}]
  BY DEF RequestRestore, IInv, TypeOK, Kinds
<1>8. UNCHANGED <<game, live, profile, retired, dir, temps, wipe, tick, mishaps, deletions, wipes>>
  BY DEF RequestRestore, gameVars
<1>9. TypeOK'
  BY <1>3, <1>4, <1>5, <1>6, <1>7, <1>8 DEF IInv, TypeOK
<1>10. Elsewhere(s)
  BY <1>5, <1>6, <1>8 DEF RequestRestore, Elsewhere, Same, IInv, TypeOK
<1>11. LockOK(s)'
  BY <1>2, <1>3, <1>4, <1>5, <1>6, <1>7, <1>8 DEF LockOK, Working
<1>12. ContentOK(s)' /\ SafetyOK(s)'
  BY <1>2, <1>3, <1>5, <1>8 DEF ContentOK, SafetyOK, AtRest, Sane
<1>13. CopyOK(s)' /\ RetentionOK(s)'
  <2>1. CASE live[s]["world"] = Absent
    BY <1>2, <1>4, <1>6, <2>1 DEF CopyOK, RetentionOK, b
  <2>2. CASE live[s]["world"] # Absent
    BY <1>4, <1>6, <2>2 DEF CopyOK, RetentionOK
  <2> QED
    BY <2>1, <2>2
<1>14. ProgressOK(s)' /\ SwapOK(s)'
  BY <1>3, <1>5 DEF ProgressOK, SwapOK, Replacing
<1> QED
  BY <1>8, <1>9, <1>10, <1>11, <1>12, <1>13, <1>14, Assemble DEF ServerOK, IInv, Sane, AtRest

\* From the extraction on: only the files, the profile and the record of the
\* restore change, and the record keeps what it knows of the start.
Kept(s, r) ==
  /\ r.source = restore[s].source /\ r.before = restore[s].before
  /\ r.profile = restore[s].profile /\ r.safety = restore[s].safety
  /\ r.meddled = restore[s].meddled /\ r.stale = restore[s].stale
InSwap(r) == r.pc \notin {"idle", "safety", "extract"}
Rest == <<game, dir, temps, lock, backup, wipe, tick, deletions, wipes>>

LEMMA RestoreStep ==
  ASSUME IInv, NEW s \in Servers, NEW r \in RestoreRecord,
         restore' = [restore EXCEPT ![s] = r], Kept(s, r), InSwap(r),
         restore[s].pc \notin {"idle", "safety"},
         UNCHANGED Rest, mishaps' \in Nat,
         live' \in [Servers -> [Files -> Content]], AtRest(live'[s]),
         profile' \in [Servers -> Nat],
         retired' \in [Servers -> SUBSET (Files \X Content)],
         \A q \in Servers \ {s} : live'[q] = live[q] /\ profile'[q] = profile[q],
         ProgressOK(s)', SwapOK(s)'
  PROVE  IInv'
<1>1. TypeOK'
  BY DEF Rest, IInv, TypeOK
<1>2. Elsewhere(s)
  BY DEF Rest, Elsewhere, Same, IInv, TypeOK
<1>3. CopyOK(s)' /\ RetentionOK(s)'
  BY NotWorking DEF Rest
<1>4. restore'[s] = r /\ wipe[s].pc = "idle" /\ restore[s].pc # "idle"
  BY DEF IInv, TypeOK, ServerOK, LockOK
<1>5. LockOK(s)'
  BY <1>4 DEF Rest, LockOK, Working, InSwap, IInv, ServerOK
<1>6. ContentOK(s)'
  BY <1>4 DEF ContentOK, AtRest, Sane, Kept, IInv, ServerOK, Files
<1>7. SafetyOK(s)'
  <2>1. SafetyOK(s) /\ CoveredByRestore(s)' = CoveredByRestore(s) /\ wipe'[s].pc = "idle"
        /\ dir' = dir
    BY <1>4 DEF CoveredByRestore, Kept, Rest, IInv, ServerOK
  <2>2. ~r.meddled /\ r.before["world"] # Absent
        => \E a \in dir : Covers(a, s, r.before, r.safety, CoveredByRestore(s))
    BY <2>1 DEF SafetyOK, Kept
  <2> QED
    BY <1>4, <2>1, <2>2 DEF SafetyOK, Covers, InSwap
<1> QED
  BY <1>1, <1>2, <1>3, <1>5, <1>6, <1>7, Assemble DEF ServerOK, Rest, IInv, Sane, AtRest

\* One file of s is replaced.
LEMMA OneFile ==
  ASSUME TypeOK, NEW s \in Servers, NEW f \in Files, NEW c \in Content,
         live' = [live EXCEPT ![s][f] = c]
  PROVE  /\ live' \in [Servers -> [Files -> Content]]
         /\ \A q \in Servers \ {s} : live'[q] = live[q]
         /\ live'[s][f] = c /\ \A g \in Files \ {f} : live'[s][g] = live[s][g]
         /\ c # InUse /\ AtRest(live[s]) => AtRest(live'[s])
<1>1. live'[s] = [live[s] EXCEPT ![f] = c] /\ live[s] \in [Files -> Content]
  BY DEF TypeOK
<1>2. live'[s] \in [Files -> Content] /\ \A q \in Servers \ {s} : live'[q] = live[q]
  BY <1>1 DEF TypeOK
<1>3. live' \in [Servers -> [Files -> Content]]
  BY <1>2 DEF TypeOK
<1> QED
  BY <1>1, <1>2, <1>3 DEF AtRest

\* A restore that has not ended: what is known of it.
LEMMA AtWork ==
  ASSUME IInv, NEW s \in Servers, restore[s].pc \notin {"idle", "safety"}
  PROVE  /\ restore[s] \in RestoreRecord /\ restore \in [Servers -> RestoreRecord]
         /\ AtRest(live[s]) /\ live[s] \in [Files -> Content] /\ profile[s] \in Nat
         /\ restore[s].source \in Archive /\ Sane(restore[s].source)
         /\ restore[s].source.files \in [Files -> Content] /\ restore[s].source.profile \in Nat
         /\ restore[s].before \in [Files -> Content] /\ AtRest(restore[s].before)
         /\ restore[s].todo \in SUBSET Files /\ restore[s].applied \in SUBSET Files
         /\ ProgressOK(s) /\ SwapOK(s) /\ SafetyOK(s) /\ ~game[s]
         /\ live \in [Servers -> [Files -> Content]] /\ profile \in [Servers -> Nat]
         /\ retired \in [Servers -> SUBSET (Files \X Content)]
BY DEF IInv, TypeOK, ServerOK, LockOK, ContentOK, AtRest, RestoreRecord, Archive

LEMMA ExtractInv ==
  ASSUME IInv, NEW s \in Servers, Extract(s)
  PROVE  IInv'
<1> DEFINE a == restore[s].source
           r == [restore[s] EXCEPT !.pc = "swap", !.todo = Replacements(a, live[s])]
<1>1. restore[s].pc = "extract" /\ mishaps' \in Nat
  BY MishapType DEF Extract, IInv
<1>2. CASE EndRestore(s)
  BY <1>1, <1>2, RestoreEndsInv DEF Extract, IInv, TypeOK
<1>3. CASE /\ a.full => a.files["ini"] # Absent
           /\ restore' = [restore EXCEPT ![s].pc = "swap", ![s].todo = Replacements(a, live[s])]
           /\ UNCHANGED lock
  <2>1. Replacements(a, live[s]) \in SUBSET Files /\ "world" \in Replacements(a, live[s])
    BY <1>1, AtWork DEF Replacements, StaleJournal, Files, Sane
  <2>2. /\ r \in RestoreRecord /\ r.pc = "swap" /\ r.todo = Replacements(a, live[s])
        /\ r.applied = restore[s].applied /\ r.retired = restore[s].retired
        /\ r.clean = restore[s].clean /\ r.updated = restore[s].updated /\ Kept(s, r)
        /\ r.edited = restore[s].edited
    BY ZenonT(60), <1>1, <2>1, AtWork DEF RestoreRecord, Kept
  <2>3. restore' = [restore EXCEPT ![s] = r] /\ restore'[s] = r
    BY <1>3 DEF IInv, TypeOK
  <2> HIDE DEF r
  <2>4. UNCHANGED <<live, profile, retired>> /\ UNCHANGED Rest
    BY <1>3 DEF Extract, Rest, gameVars
  <2>5. /\ live[s] = r.before
        /\ profile[s] = r.profile \/ "profile" \in r.edited
        /\ r.applied = {} /\ r.retired = {} /\ r.clean /\ ~r.updated /\ "ini" \notin r.edited
    BY <1>1, <2>2, AtWork DEF ProgressOK, SafetyOK, Kept
  <2>6. ProgressOK(s)'
    BY <1>3, <2>1, <2>2, <2>3, <2>5 DEF ProgressOK, Replacing, Kept
  <2>7. SwapOK(s)'
    BY <2>2, <2>3, <2>4, <2>5 DEF SwapOK, Replacing, InHand
  <2> QED
    BY <1>1, <2>2, <2>3, <2>4, <2>6, <2>7, AtWork, RestoreStep DEF InSwap
<1> QED
  BY <1>2, <1>3 DEF Extract

\* From the swap on.
LEMMA Swapping ==
  ASSUME NEW s \in Servers, InSwap(restore[s])
  PROVE  restore[s].pc \notin {"idle", "safety"}
BY DEF InSwap

LEMMA RollBackRecord ==
  ASSUME TypeOK, NEW s \in Servers, NEW clean \in BOOLEAN, RollBack(s, clean)
  PROVE  \E r \in RestoreRecord :
           /\ restore' = [restore EXCEPT ![s] = r] /\ restore'[s] = r
           /\ r.pc = "rollback" /\ (r.clean => restore[s].clean /\ clean) /\ Kept(s, r)
           /\ r.todo = restore[s].todo /\ r.applied = restore[s].applied
           /\ r.retired = restore[s].retired /\ r.updated = restore[s].updated
           /\ r.edited = restore[s].edited
<1> DEFINE r == [restore[s] EXCEPT !.pc = "rollback", !.clean = @ /\ clean]
<1>1. restore' = [restore EXCEPT ![s] = r] /\ restore'[s] = r
  BY DEF RollBack, TypeOK
<1>2. restore[s] \in RestoreRecord
  BY DEF TypeOK
<1>3. r \in RestoreRecord
  BY <1>2 DEF RestoreRecord
<1>4. /\ r.pc = "rollback" /\ (r.clean => restore[s].clean /\ clean) /\ Kept(s, r)
      /\ r.todo = restore[s].todo /\ r.applied = restore[s].applied
      /\ r.retired = restore[s].retired /\ r.updated = restore[s].updated
      /\ r.edited = restore[s].edited
  BY <1>2 DEF RestoreRecord, Kept
<1> QED
  BY <1>1, <1>3, <1>4

\* A step of the swap that fails begins the rollback; files as a rollback
\* needs them.
LEMMA RollBackInv ==
  ASSUME IInv, NEW s \in Servers, NEW clean \in BOOLEAN, RollBack(s, clean),
         restore[s].pc \in {"swap", "place", "profile", "reload"},
         UNCHANGED Rest, profile' = profile, mishaps' \in Nat,
         live' \in [Servers -> [Files -> Content]], AtRest(live'[s]),
         retired' \in [Servers -> SUBSET (Files \X Content)],
         \A q \in Servers \ {s} : live'[q] = live[q],
         \A f \in restore[s].applied : live'[s][f] = live[s][f],
         clean => \A f \in Files \ restore[s].applied : live'[s][f] = restore[s].before[f]
  PROVE  IInv'
<1>1. PICK r \in RestoreRecord :
        /\ restore' = [restore EXCEPT ![s] = r] /\ restore'[s] = r
        /\ r.pc = "rollback" /\ (r.clean => restore[s].clean /\ clean) /\ Kept(s, r)
        /\ r.todo = restore[s].todo /\ r.applied = restore[s].applied
        /\ r.retired = restore[s].retired /\ r.updated = restore[s].updated
        /\ r.edited = restore[s].edited
  BY RollBackRecord DEF IInv
<1>2. ProgressOK(s) /\ SwapOK(s) /\ profile' \in [Servers -> Nat] /\ Replacing(s)
  BY AtWork DEF Replacing
<1>3. ProgressOK(s)'
  BY <1>1, <1>2 DEF ProgressOK, Replacing, Kept
<1>4. SwapOK(s)'
  BY <1>1, <1>2 DEF SwapOK, Replacing, Kept, InHand, WasRetired
<1> QED
  BY <1>1, <1>2, <1>3, <1>4, RestoreStep DEF InSwap

LEMMA RetireInv ==
  ASSUME IInv, NEW s \in Servers, Retire(s)
  PROVE  IInv'
<1> DEFINE f == First(restore[s].todo)
           old == <<f, live[s][f]>>
           k == [restore[s] EXCEPT !.pc = "place"]
           r == [restore[s] EXCEPT !.pc = "place", !.retired = @ \cup {old}]
<1>1. restore[s].pc = "swap" /\ mishaps' \in Nat /\ UNCHANGED Rest /\ profile' = profile
  BY MishapType DEF Retire, IInv, Rest
<1>2. /\ restore[s] \in RestoreRecord /\ AtRest(live[s]) /\ live[s] \in [Files -> Content]
      /\ live \in [Servers -> [Files -> Content]] /\ profile \in [Servers -> Nat]
      /\ retired \in [Servers -> SUBSET (Files \X Content)]
      /\ ProgressOK(s) /\ SwapOK(s) /\ Replacing(s)
      /\ restore[s].todo \in SUBSET Files /\ restore[s].applied \in SUBSET Files
  BY <1>1, AtWork DEF Replacing
<1>3. f \in restore[s].todo /\ f \in Files /\ f \notin restore[s].applied
  BY <1>1, <1>2, FirstIn DEF ProgressOK
<1> HIDE DEF f
<1>4. /\ live[s][f] = restore[s].before[f] /\ <<f, restore[s].before[f]>> \notin restore[s].retired
      /\ \A g \in Files \ restore[s].applied :
           /\ live[s][g] = restore[s].before[g]
           /\ <<g, restore[s].before[g]>> \notin restore[s].retired
  BY <1>1, <1>2, <1>3 DEF SwapOK, ProgressOK, InHand
<1>5. CASE live[s][f] = Absent /\ restore' = [restore EXCEPT ![s].pc = "place"]
           /\ UNCHANGED <<live, retired>>
  <2>1. /\ k \in RestoreRecord /\ k.pc = "place" /\ Kept(s, k) /\ k.todo = restore[s].todo
        /\ k.applied = restore[s].applied /\ k.retired = restore[s].retired
        /\ k.clean = restore[s].clean /\ k.updated = restore[s].updated
        /\ k.edited = restore[s].edited
    BY <1>2 DEF RestoreRecord, Kept
  <2>2. restore' = [restore EXCEPT ![s] = k] /\ restore'[s] = k
    BY <1>5 DEF IInv, TypeOK
  <2> HIDE DEF k
  <2>3. ProgressOK(s)'
    BY <1>1, <1>2, <2>1, <2>2 DEF ProgressOK, Replacing, Kept
  <2>4. SwapOK(s)'
    BY <1>1, <1>2, <1>3, <1>4, <1>5, <2>1, <2>2
    DEF SwapOK, Replacing, InHand, WasRetired, Kept, f
  <2> QED
    BY <1>1, <1>2, <1>5, <2>1, <2>2, <2>3, <2>4, RestoreStep DEF InSwap
<1>6. CASE /\ live[s][f] # Absent
           /\ retired' = [retired EXCEPT ![s] = @ \cup {old}]
           /\ live' = [live EXCEPT ![s][f] = Absent]
           /\ restore' = [restore EXCEPT ![s].pc = "place", ![s].retired = @ \cup {old}]
  <2>1. old \in Files \X Content
    BY <1>2, <1>3
  <2>2. /\ r \in RestoreRecord /\ r.pc = "place" /\ Kept(s, r) /\ r.todo = restore[s].todo
        /\ r.applied = restore[s].applied /\ r.retired = restore[s].retired \cup {old}
        /\ r.clean = restore[s].clean /\ r.updated = restore[s].updated
        /\ r.edited = restore[s].edited
    BY <1>2, <2>1 DEF RestoreRecord, Kept
  <2>3. restore' = [restore EXCEPT ![s] = r] /\ restore'[s] = r
    BY <1>6 DEF IInv, TypeOK
  <2>4. retired' \in [Servers -> SUBSET (Files \X Content)]
    BY <1>2, <1>6, <2>1
  <2>5. Absent \in Content /\ Absent # InUse
    BY ContentAssumption DEF Content
  <2>6. /\ live' \in [Servers -> [Files -> Content]] /\ AtRest(live'[s])
        /\ \A q \in Servers \ {s} : live'[q] = live[q]
        /\ live'[s][f] = Absent /\ \A g \in Files \ {f} : live'[s][g] = live[s][g]
    BY ZenonT(60), <1>2, <1>3, <1>6, <2>5, OneFile DEF IInv
  <2> HIDE DEF r, old
  <2>7. ProgressOK(s)'
    BY <1>1, <1>2, <2>2, <2>3 DEF ProgressOK, Replacing, Kept
  <2>8. \A g \in Files \ {f} : WasRetired(s, g)' <=> WasRetired(s, g)
    BY <2>2, <2>3 DEF WasRetired, Kept, old
  <2>9. <<f, r.before[f]>> \in r.retired /\ r.before[f] # Absent
    <3>1. <<f, r.before[f]>> = old /\ r.before[f] # Absent
      BY <1>4, <1>6, <2>2 DEF Kept, old
    <3> QED
      BY <2>2, <3>1
  <2>10. \A g \in Files \ (restore[s].applied \cup {f}) :
           <<g, r.before[g]>> \notin r.retired
    BY <1>4, <2>2 DEF Kept, old
  <2>11. SwapOK(s)'
    <3>1. (\A g \in restore[s].applied :
             /\ live[s][g] = restore[s].source.files[g] \/ (g = "ini" /\ "ini" \in restore[s].edited)
             /\ WasRetired(s, g))'
      BY <1>1, <1>2, <1>3, <1>4, <2>2, <2>3, <2>6, <2>8 DEF SwapOK, Replacing, Kept, f
    <3>2. (\A g \in Files \ restore[s].applied :
             /\ InHand(s, g) => live[s][g] = Absent /\ WasRetired(s, g)
             /\ restore[s].clean /\ ~InHand(s, g) => live[s][g] = restore[s].before[g]
             /\ Replacing(s) /\ ~InHand(s, g) =>
                  <<g, restore[s].before[g]>> \notin restore[s].retired)'
      BY <1>1, <1>2, <1>3, <1>4, <2>2, <2>3, <2>6, <2>9, <2>10
      DEF Replacing, InHand, WasRetired, Kept, f
    <3> QED
      BY <1>1, <1>2, <2>2, <2>3, <3>1, <3>2 DEF SwapOK, Replacing, Kept
  <2> QED
    BY <1>1, <1>2, <2>2, <2>3, <2>4, <2>6, <2>7, <2>11, RestoreStep DEF InSwap
<1>7. CASE RollBack(s, TRUE) /\ UNCHANGED <<live, retired>>
  BY <1>1, <1>2, <1>4, <1>7, RollBackInv
<1> QED
  BY <1>5, <1>6, <1>7 DEF Retire, f

\* What is put back of a file: what was there before.
LEMMA PutBackType ==
  ASSUME IInv, NEW s \in Servers, NEW f \in Files, PutBack(s, f),
         restore[s].pc \notin {"idle", "safety"}, WasRetired(s, f)
  PROVE  /\ live' \in [Servers -> [Files -> Content]] /\ AtRest(live'[s])
         /\ retired' \in [Servers -> SUBSET (Files \X Content)]
         /\ \A q \in Servers \ {s} : live'[q] = live[q]
         /\ live'[s][f] = restore[s].before[f]
         /\ \A g \in Files \ {f} : live'[s][g] = live[s][g]
<1>1. /\ restore[s].before[f] \in Content /\ restore[s].before[f] # InUse
      /\ restore[s].before[f] = Absent \/ <<f, restore[s].before[f]>> \in restore[s].retired
      /\ AtRest(live[s])
  BY AtWork DEF AtRest, WasRetired
<1>2. live' = [live EXCEPT ![s][f] = restore[s].before[f]]
  BY <1>1 DEF PutBack, WasRetired
<1>3. retired' \in [Servers -> SUBSET (Files \X Content)]
  BY DEF PutBack, IInv, TypeOK
<1> QED
  BY ZenonT(60), <1>1, <1>2, <1>3, OneFile DEF IInv

LEMMA PlaceInv ==
  ASSUME IInv, NEW s \in Servers, Place(s)
  PROVE  IInv'
<1> DEFINE f == First(restore[s].todo)
           r == [restore[s] EXCEPT !.pc = AfterPlace(restore[s]), !.todo = @ \ {f},
                   !.applied = @ \cup {f}]
<1>1. restore[s].pc = "place" /\ mishaps' \in Nat /\ UNCHANGED Rest /\ profile' = profile
  BY MishapType DEF Place, IInv, Rest
<1>2. /\ restore[s] \in RestoreRecord /\ AtRest(live[s]) /\ live[s] \in [Files -> Content]
      /\ live \in [Servers -> [Files -> Content]] /\ profile \in [Servers -> Nat]
      /\ retired \in [Servers -> SUBSET (Files \X Content)]
      /\ ProgressOK(s) /\ SwapOK(s) /\ Replacing(s) /\ Sane(restore[s].source)
      /\ restore[s].source.files \in [Files -> Content]
      /\ restore[s].todo \in SUBSET Files /\ restore[s].applied \in SUBSET Files
  BY <1>1, AtWork DEF Replacing
<1>3. f \in restore[s].todo /\ f \in Files /\ f \notin restore[s].applied
  BY <1>1, <1>2, FirstIn DEF ProgressOK
<1>4. InHand(s, f) /\ \A g \in Files \ {f} : ~InHand(s, g)
  BY <1>1 DEF InHand
<1>5. /\ live[s][f] = Absent /\ WasRetired(s, f)
      /\ \A g \in Files \ (restore[s].applied \cup {f}) :
           /\ live[s][g] = restore[s].before[g]
           /\ <<g, restore[s].before[g]>> \notin restore[s].retired
  BY <1>1, <1>2, <1>3, <1>4 DEF SwapOK, ProgressOK
<1>6. CASE /\ live' = [live EXCEPT ![s][f] = restore[s].source.files[f]]
           /\ restore' = [restore EXCEPT ![s].pc = AfterPlace(restore[s]), ![s].todo = @ \ {f},
                            ![s].applied = @ \cup {f}]
           /\ UNCHANGED retired
  <2>1. /\ AfterPlace(restore[s]) \in {"swap", "profile", "discard"}
        /\ AfterPlace(restore[s]) = "swap" <=> restore[s].todo \ {f} # {}
        /\ AfterPlace(restore[s]) = "profile" => restore[s].source.full
        /\ AfterPlace(restore[s]) = "discard" => ~restore[s].source.full
    BY DEF AfterPlace
  <2> HIDE DEF f
  <2>2. /\ r.pc = AfterPlace(restore[s]) /\ Kept(s, r)
        /\ r.todo = restore[s].todo \ {f} /\ r.applied = restore[s].applied \cup {f}
        /\ r.retired = restore[s].retired /\ r.clean = restore[s].clean
        /\ r.updated = restore[s].updated /\ r.edited = restore[s].edited
    BY <1>2 DEF RestoreRecord, Kept
  <2>3. r \in RestoreRecord
    BY <1>2, <1>3, <2>1 DEF RestoreRecord
  <2>4. restore' = [restore EXCEPT ![s] = r] /\ restore'[s] = r
    BY <1>6 DEF IInv, TypeOK
  <2> HIDE DEF r
  <2>5. /\ live' \in [Servers -> [Files -> Content]] /\ AtRest(live'[s])
        /\ \A q \in Servers \ {s} : live'[q] = live[q]
        /\ live'[s][f] = restore[s].source.files[f]
        /\ \A g \in Files \ {f} : live'[s][g] = live[s][g]
    BY ZenonT(60), <1>2, <1>3, <1>6, OneFile DEF IInv, Sane, AtRest
  <2>6. ProgressOK(s)'
    BY <1>1, <1>2, <1>3, <2>1, <2>2, <2>4 DEF ProgressOK, Replacing, Kept
  <2>7. \A g \in Files : WasRetired(s, g)' <=> WasRetired(s, g)
    BY <2>2, <2>4 DEF WasRetired, Kept
  <2>8. SwapOK(s)'
    <3>1. r.clean /\ "profile" \notin r.edited =>
            profile'[s] = IF r.updated THEN r.source.profile ELSE r.profile
      BY <1>1, <1>2, <2>2 DEF SwapOK, Kept
    <3>2. \A g \in r.applied :
            /\ live'[s][g] = r.source.files[g] \/ (g = "ini" /\ "ini" \in r.edited)
            /\ WasRetired(s, g)'
      BY <1>2, <1>3, <1>5, <2>2, <2>5, <2>7 DEF SwapOK, Kept
    <3>3. \A g \in Files \ r.applied :
            ~InHand(s, g)' /\ live'[s][g] = r.before[g] /\ <<g, r.before[g]>> \notin r.retired
      BY <1>5, <2>1, <2>2, <2>4, <2>5 DEF InHand, Kept
    <3> QED
      BY <2>4, <3>1, <3>2, <3>3 DEF SwapOK
  <2> QED
    BY <1>1, <1>2, <1>6, <2>1, <2>2, <2>3, <2>4, <2>5, <2>6, <2>8, RestoreStep DEF InSwap
<1>7. CASE RollBack(s, TRUE) /\ PutBack(s, f)
  <2> HIDE DEF f
  <2>1. /\ live' \in [Servers -> [Files -> Content]] /\ AtRest(live'[s])
        /\ retired' \in [Servers -> SUBSET (Files \X Content)]
        /\ \A q \in Servers \ {s} : live'[q] = live[q]
        /\ live'[s][f] = restore[s].before[f]
        /\ \A g \in Files \ {f} : live'[s][g] = live[s][g]
    BY <1>1, <1>3, <1>5, <1>7, PutBackType
  <2> QED
    BY <1>1, <1>2, <1>3, <1>5, <1>7, <2>1, RollBackInv
<1>8. CASE RollBack(s, FALSE) /\ UNCHANGED <<live, retired>>
  BY <1>1, <1>2, <1>8, RollBackInv
<1> QED
  BY <1>6, <1>7, <1>8 DEF Place

LEMMA UpdateProfileInv ==
  ASSUME IInv, NEW s \in Servers, UpdateProfile(s)
  PROVE  IInv'
<1> DEFINE r == [restore[s] EXCEPT !.pc = "reload", !.updated = TRUE, !.edited = @ \ {"profile"}]
<1>1. /\ restore[s].pc = "profile" /\ mishaps' \in Nat /\ UNCHANGED Rest
      /\ live' = live /\ retired' = retired
  BY MishapType DEF UpdateProfile, IInv, Rest, gameVars
<1>2. /\ restore[s] \in RestoreRecord /\ AtRest(live[s]) /\ live \in [Servers -> [Files -> Content]]
      /\ profile \in [Servers -> Nat] /\ restore[s].source.profile \in Nat
      /\ retired \in [Servers -> SUBSET (Files \X Content)]
      /\ ProgressOK(s) /\ SwapOK(s) /\ Replacing(s)
  BY <1>1, AtWork DEF Replacing
<1>3. CASE /\ profile' = [profile EXCEPT ![s] = restore[s].source.profile]
           /\ restore' = [restore EXCEPT ![s].pc = "reload", ![s].updated = TRUE,
                             ![s].edited = @ \ {"profile"}]
  <2>1. /\ r \in RestoreRecord /\ r.pc = "reload" /\ r.updated /\ Kept(s, r)
        /\ r.todo = restore[s].todo /\ r.applied = restore[s].applied
        /\ r.retired = restore[s].retired /\ r.clean = restore[s].clean
        /\ r.edited = restore[s].edited \ {"profile"}
    BY <1>2 DEF RestoreRecord, Kept
  <2>2. restore' = [restore EXCEPT ![s] = r] /\ restore'[s] = r
    BY <1>3 DEF IInv, TypeOK
  <2> HIDE DEF r
  <2>3. /\ profile' \in [Servers -> Nat] /\ profile'[s] = restore[s].source.profile
        /\ \A q \in Servers \ {s} : profile'[q] = profile[q]
    BY <1>2, <1>3
  <2>4. ProgressOK(s)'
    BY <1>1, <1>2, <2>1, <2>2 DEF ProgressOK, Replacing, Kept
  <2>5. SwapOK(s)'
    BY <1>1, <1>2, <2>1, <2>2, <2>3 DEF SwapOK, Replacing, InHand, WasRetired, Kept
  <2> QED
    BY <1>1, <1>2, <2>1, <2>2, <2>3, <2>4, <2>5, RestoreStep DEF InSwap
<1>4. CASE RollBack(s, TRUE) /\ UNCHANGED profile
  BY <1>1, <1>2, <1>4, RollBackInv DEF SwapOK, ProgressOK, InHand
<1> QED
  BY <1>3, <1>4 DEF UpdateProfile

LEMMA ReloadInv ==
  ASSUME IInv, NEW s \in Servers, Reload(s)
  PROVE  IInv'
<1> DEFINE r == [restore[s] EXCEPT !.pc = "discard"]
<1>1. /\ restore[s].pc = "reload" /\ mishaps' \in Nat /\ UNCHANGED Rest
      /\ live' = live /\ retired' = retired /\ profile' = profile
  BY MishapType DEF Reload, IInv, Rest, gameVars
<1>2. /\ restore[s] \in RestoreRecord /\ AtRest(live[s]) /\ live \in [Servers -> [Files -> Content]]
      /\ profile \in [Servers -> Nat]
      /\ retired \in [Servers -> SUBSET (Files \X Content)]
      /\ ProgressOK(s) /\ SwapOK(s) /\ Replacing(s)
  BY <1>1, AtWork DEF Replacing
<1>3. CASE restore' = [restore EXCEPT ![s].pc = "discard"]
  <2>1. /\ r \in RestoreRecord /\ r.pc = "discard" /\ r.updated = restore[s].updated
        /\ Kept(s, r) /\ r.todo = restore[s].todo /\ r.applied = restore[s].applied
        /\ r.retired = restore[s].retired /\ r.clean = restore[s].clean
        /\ r.edited = restore[s].edited
    BY <1>2 DEF RestoreRecord, Kept
  <2>2. restore' = [restore EXCEPT ![s] = r] /\ restore'[s] = r
    BY <1>3 DEF IInv, TypeOK
  <2> HIDE DEF r
  <2>3. ProgressOK(s)'
    BY <1>1, <1>2, <2>1, <2>2 DEF ProgressOK, Replacing, Kept
  <2>4. SwapOK(s)'
    BY <1>1, <1>2, <2>1, <2>2 DEF SwapOK, Replacing, InHand, WasRetired, Kept
  <2> QED
    BY <1>1, <1>2, <2>1, <2>2, <2>3, <2>4, RestoreStep DEF InSwap
<1>4. CASE RollBack(s, TRUE)
  BY <1>1, <1>2, <1>4, RollBackInv DEF SwapOK, ProgressOK, InHand
<1> QED
  BY <1>3, <1>4 DEF Reload

LEMMA RestoreProfileInv ==
  ASSUME IInv, NEW s \in Servers, RestoreProfile(s)
  PROVE  IInv'
<1> DEFINE u == [restore[s] EXCEPT !.updated = FALSE, !.edited = @ \ {"profile"}]
           v == [restore[s] EXCEPT !.updated = FALSE, !.clean = FALSE]
<1>1. /\ restore[s].pc = "rollback" /\ mishaps' \in Nat /\ UNCHANGED Rest
      /\ live' = live /\ retired' = retired
  BY DEF RestoreProfile, IInv, Rest, gameVars, TypeOK
<1>2. /\ restore[s] \in RestoreRecord /\ AtRest(live[s]) /\ live \in [Servers -> [Files -> Content]]
      /\ profile \in [Servers -> Nat]
      /\ retired \in [Servers -> SUBSET (Files \X Content)]
      /\ ProgressOK(s) /\ SwapOK(s) /\ restore[s].profile \in Nat
  BY <1>1, AtWork DEF RestoreRecord
<1>3. CASE /\ profile' = [profile EXCEPT ![s] = restore[s].profile]
           /\ restore' = [restore EXCEPT ![s].updated = FALSE, ![s].edited = @ \ {"profile"}]
  <2>1. /\ u \in RestoreRecord /\ u.pc = "rollback" /\ ~u.updated /\ Kept(s, u)
        /\ u.todo = restore[s].todo /\ u.applied = restore[s].applied
        /\ u.retired = restore[s].retired /\ u.clean = restore[s].clean
        /\ u.edited = restore[s].edited \ {"profile"}
    BY <1>1, <1>2 DEF RestoreRecord, Kept
  <2>2. restore' = [restore EXCEPT ![s] = u] /\ restore'[s] = u
    BY <1>3 DEF IInv, TypeOK
  <2> HIDE DEF u
  <2>3. /\ profile' \in [Servers -> Nat] /\ profile'[s] = restore[s].profile
        /\ \A q \in Servers \ {s} : profile'[q] = profile[q]
    BY <1>2, <1>3
  <2>4. ProgressOK(s)'
    BY <1>1, <1>2, <2>1, <2>2 DEF ProgressOK, Replacing, Kept
  <2>5. SwapOK(s)'
    BY <1>1, <1>2, <2>1, <2>2, <2>3 DEF SwapOK, Replacing, InHand, WasRetired, Kept
  <2> QED
    BY <1>1, <1>2, <2>1, <2>2, <2>3, <2>4, <2>5, RestoreStep DEF InSwap
<1>4. CASE /\ restore' = [restore EXCEPT ![s].updated = FALSE, ![s].clean = FALSE]
           /\ UNCHANGED profile
  <2>1. /\ v \in RestoreRecord /\ v.pc = "rollback" /\ ~v.updated /\ Kept(s, v)
        /\ v.todo = restore[s].todo /\ v.applied = restore[s].applied
        /\ v.retired = restore[s].retired /\ ~v.clean /\ v.edited = restore[s].edited
    BY <1>1, <1>2 DEF RestoreRecord, Kept
  <2>2. restore' = [restore EXCEPT ![s] = v] /\ restore'[s] = v
    BY <1>4 DEF IInv, TypeOK
  <2> HIDE DEF v
  <2>3. ProgressOK(s)'
    BY <1>1, <1>2, <2>1, <2>2 DEF ProgressOK, Replacing, Kept
  <2>4. SwapOK(s)'
    BY <1>1, <1>2, <2>1, <2>2 DEF SwapOK, Replacing, InHand, WasRetired, Kept
  <2> QED
    BY <1>1, <1>2, <1>4, <2>1, <2>2, <2>3, <2>4, RestoreStep DEF InSwap
<1> QED
  BY <1>3, <1>4 DEF RestoreProfile

LEMMA UndoInv ==
  ASSUME IInv, NEW s \in Servers, Undo(s)
  PROVE  IInv'
<1> DEFINE f == Latest(restore[s].applied)
           u == [restore[s] EXCEPT !.applied = @ \ {f}]
           v == [restore[s] EXCEPT !.applied = @ \ {f}, !.clean = FALSE]
           next == [restore EXCEPT ![s].applied = @ \ {f}]
<1>1. /\ restore[s].pc = "rollback" /\ mishaps' \in Nat /\ UNCHANGED Rest /\ profile' = profile
      /\ restore[s].applied # {} /\ ~restore[s].updated
  BY DEF Undo, IInv, Rest, TypeOK
<1>2. /\ restore[s] \in RestoreRecord /\ AtRest(live[s]) /\ live[s] \in [Files -> Content]
      /\ live \in [Servers -> [Files -> Content]] /\ profile \in [Servers -> Nat]
      /\ retired \in [Servers -> SUBSET (Files \X Content)]
      /\ ProgressOK(s) /\ SwapOK(s) /\ restore[s].applied \in SUBSET Files
  BY <1>1, AtWork
<1>3. f \in restore[s].applied /\ f \in Files
  BY <1>1, <1>2, FirstIn
<1>4. WasRetired(s, f)
  BY <1>1, <1>2, <1>3 DEF SwapOK
<1>5. CASE PutBack(s, f) /\ restore' = next
  <2> HIDE DEF f
  <2>1. /\ u \in RestoreRecord /\ u.pc = "rollback" /\ u.updated = restore[s].updated
        /\ Kept(s, u) /\ u.todo = restore[s].todo /\ u.applied = restore[s].applied \ {f}
        /\ u.retired = restore[s].retired /\ u.clean = restore[s].clean
        /\ u.edited = restore[s].edited
    BY <1>1, <1>2 DEF RestoreRecord, Kept
  <2>2. restore' = [restore EXCEPT ![s] = u] /\ restore'[s] = u
    BY <1>5 DEF IInv, TypeOK
  <2> HIDE DEF u
  <2>3. /\ live' \in [Servers -> [Files -> Content]] /\ AtRest(live'[s])
        /\ retired' \in [Servers -> SUBSET (Files \X Content)]
        /\ \A q \in Servers \ {s} : live'[q] = live[q]
        /\ live'[s][f] = restore[s].before[f]
        /\ \A g \in Files \ {f} : live'[s][g] = live[s][g]
    BY <1>1, <1>3, <1>4, <1>5, PutBackType
  <2>4. ProgressOK(s)'
    BY <1>1, <1>2, <2>1, <2>2 DEF ProgressOK, Replacing, Kept
  <2>5. SwapOK(s)'
    BY <1>1, <1>2, <1>3, <2>1, <2>2, <2>3 DEF SwapOK, Replacing, InHand, WasRetired, Kept
  <2> QED
    BY <1>1, <1>2, <2>1, <2>2, <2>3, <2>4, <2>5, RestoreStep DEF InSwap
<1>6. CASE /\ restore' = [next EXCEPT ![s].clean = FALSE]
           /\ UNCHANGED retired
           /\ \E kept \in {Absent, live[s][f]} : live' = [live EXCEPT ![s][f] = kept]
  <2> HIDE DEF f
  <2>1. /\ v \in RestoreRecord /\ v.pc = "rollback" /\ v.updated = restore[s].updated
        /\ Kept(s, v) /\ v.todo = restore[s].todo /\ v.applied = restore[s].applied \ {f}
        /\ v.retired = restore[s].retired /\ ~v.clean /\ v.edited = restore[s].edited
    BY <1>1, <1>2 DEF RestoreRecord, Kept
  <2>2. restore' = [restore EXCEPT ![s] = v] /\ restore'[s] = v
    BY <1>6 DEF IInv, TypeOK
  <2> HIDE DEF v
  <2>3. PICK kept \in {Absent, live[s][f]} : live' = [live EXCEPT ![s][f] = kept]
    BY <1>6
  <2>4. kept \in Content /\ kept # InUse
    BY <1>2, <1>3, ContentAssumption DEF AtRest, Content
  <2>5. /\ live' \in [Servers -> [Files -> Content]] /\ AtRest(live'[s])
        /\ \A q \in Servers \ {s} : live'[q] = live[q]
        /\ \A g \in Files \ {f} : live'[s][g] = live[s][g]
    BY <1>2, <1>3, <2>3, <2>4, OneFile DEF IInv
  <2>6. ProgressOK(s)'
    BY <1>1, <1>2, <2>1, <2>2 DEF ProgressOK, Replacing, Kept
  <2>7. SwapOK(s)'
    BY <1>1, <1>2, <1>3, <2>1, <2>2, <2>5 DEF SwapOK, Replacing, InHand, WasRetired, Kept
  <2> QED
    BY <1>1, <1>2, <1>6, <2>1, <2>2, <2>5, <2>6, <2>7, RestoreStep DEF InSwap
<1> QED
  BY <1>5, <1>6 DEF Undo

LEMMA RestoreFailsInv ==
  ASSUME IInv, NEW s \in Servers, RestoreFails(s)
  PROVE  IInv'
BY RestoreEndsInv DEF RestoreFails, IInv, TypeOK

LEMMA DiscardInv ==
  ASSUME IInv, NEW s \in Servers, Discard(s)
  PROVE  IInv'
<1>1. mishaps' \in Nat
  BY MishapType DEF Discard, IInv
<1>2. retired' \in [Servers -> SUBSET (Files \X Content)]
  BY DEF Discard, IInv, TypeOK
<1> QED
  BY <1>1, <1>2, RestoreEndsInv DEF Discard

-----------------------------------------------------------------------------
(* Wipe, crash.                                                            *)

\* The end of a wipe.
LEMMA WipeStops ==
  ASSUME IInv, NEW s \in Servers, EndWipe(s), wipe[s].pc = "delete",
         UNCHANGED <<game, profile, retired, dir, temps, backup, restore, tick, deletions, wipes>>,
         mishaps' \in Nat, live' \in [Servers -> [Files -> Content]], AtRest(live'[s]),
         \A q \in Servers \ {s} : live'[q] = live[q]
  PROVE  IInv'
<1>1. wipe'[s] = NoWipe /\ lock'[s] = "free" /\ restore[s].pc = "idle"
  BY DEF EndWipe, IInv, TypeOK, ServerOK, LockOK
<1>2. wipe' \in [Servers -> WipeRecord] /\ lock' \in [Servers -> Kinds \cup {"free"}]
  BY NoneTypes DEF EndWipe, IInv, TypeOK
<1>3. TypeOK'
  BY <1>2 DEF IInv, TypeOK
<1>4. Elsewhere(s)
  BY DEF EndWipe, Elsewhere, Same, IInv, TypeOK
<1>5. backup[s].pc \in {"idle", "wait"} /\ CopyOK(s)' /\ RetentionOK(s)'
  BY NotWorking
<1>6. LockOK(s)' /\ SafetyOK(s)'
  BY <1>1, <1>5 DEF IInv, ServerOK, LockOK, SafetyOK, Working, NoWipe
<1>7. ContentOK(s)' /\ ProgressOK(s)' /\ SwapOK(s)'
  BY <1>1 DEF IInv, ServerOK, ContentOK, ProgressOK, SwapOK, Replacing, AtRest, Files
<1> QED
  BY <1>3, <1>4, <1>5, <1>6, <1>7, Assemble DEF ServerOK, IInv, Sane, AtRest

LEMMA WipeEndsInv ==
  ASSUME IInv, NEW s \in Servers, WipeEnds(s)
  PROVE  IInv'
<1>1. AtRest(live[s])
  BY DEF WipeEnds, IInv, ServerOK, LockOK, ContentOK, AtRest
<1> QED
  BY <1>1, WipeStops DEF WipeEnds, IInv, TypeOK, gameVars, AtRest

LEMMA DeleteInv ==
  ASSUME IInv, NEW s \in Servers, Delete(s)
  PROVE  IInv'
<1> DEFINE f == First(wipe[s].todo)
           w == [wipe[s] EXCEPT !.todo = @ \ {f}]
<1>1. /\ wipe[s].pc = "delete" /\ mishaps' \in Nat /\ wipe[s] \in WipeRecord
      /\ wipe[s].todo \in SUBSET Files /\ wipe[s].todo # {} /\ restore[s].pc = "idle"
      /\ AtRest(live[s]) /\ live[s] \in [Files -> Content] /\ LockOK(s) /\ SafetyOK(s)
  BY MishapType DEF Delete, IInv, TypeOK, ServerOK, LockOK, ContentOK, WipeRecord, AtRest
<1>2. f \in Files
  BY <1>1, FirstIn
<1> HIDE DEF f
<1>3. PICK c \in Content \ {InUse} : live' = [live EXCEPT ![s][f] = c]
  BY <1>1, <1>2, ContentAssumption DEF Delete, f, Content, AtRest
<1>4. /\ live' \in [Servers -> [Files -> Content]] /\ AtRest(live'[s])
      /\ \A q \in Servers \ {s} : live'[q] = live[q]
  BY ZenonT(60), <1>1, <1>2, <1>3, OneFile DEF IInv
<1>5. CASE EndWipe(s)
  BY <1>1, <1>4, <1>5, WipeStops DEF Delete
<1>6. CASE wipe' = [wipe EXCEPT ![s].todo = @ \ {f}] /\ UNCHANGED lock
  <2>1. /\ w \in WipeRecord /\ w.pc = "delete" /\ w.before = wipe[s].before
        /\ w.safety = wipe[s].safety /\ w.meddled = wipe[s].meddled
    BY <1>1 DEF WipeRecord
  <2>2. wipe' = [wipe EXCEPT ![s] = w] /\ wipe'[s] = w
    BY <1>6 DEF IInv, TypeOK
  <2> HIDE DEF w
  <2>3. TypeOK'
    BY <1>1, <1>4, <1>6, <2>1, <2>2 DEF Delete, IInv, TypeOK
  <2>4. Elsewhere(s)
    BY <1>4, <1>6, <2>2 DEF Delete, Elsewhere, Same, IInv, TypeOK
  <2>5. CopyOK(s)' /\ RetentionOK(s)'
    BY <1>1, NotWorking DEF Delete
  <2>6. LockOK(s)' /\ SafetyOK(s)'
    BY <1>1, <1>6, <2>1, <2>2 DEF Delete, LockOK, SafetyOK, Working, Covers
  <2>7. ContentOK(s)' /\ ProgressOK(s)' /\ SwapOK(s)'
    BY <1>1, <1>4 DEF Delete, IInv, ServerOK, ContentOK, ProgressOK, SwapOK, Replacing, AtRest,
                      Files
  <2> QED
    BY <2>3, <2>4, <2>5, <2>6, <2>7, Assemble DEF Delete, ServerOK, IInv, Sane, AtRest
<1> QED
  BY <1>5, <1>6 DEF Delete, f

LEMMA RequestWipeInv ==
  ASSUME IInv, NEW s \in Servers, RequestWipe(s)
  PROVE  IInv'
<1>1. PICK scope \in {{"world"}, {"db", "wal"}, {"world", "db", "wal"}} :
        LET w == [NoWipe EXCEPT !.before = live[s], !.todo =
                    {f \in scope : live[s][f] # Absent}]
        IN \/ /\ wipe' = [wipe EXCEPT ![s] = [w EXCEPT !.pc = "delete"]]
              /\ UNCHANGED backup
           \/ /\ ~BackupInProgress(s)
              /\ wipe' = [wipe EXCEPT ![s] = [w EXCEPT !.pc = "safety"]]
              /\ backup' = [backup EXCEPT ![s] = [NoBackup EXCEPT !.pc = "open", !.kind = "wipe",
                                                                !.profile = profile[s]]]
  BY DEF RequestWipe
<1> DEFINE n == [NoWipe EXCEPT !.before = live[s], !.todo =
                   {f \in scope : live[s][f] # Absent}]
           w(p) == [n EXCEPT !.pc = p]
           b == [NoBackup EXCEPT !.pc = "open", !.kind = "wipe", !.profile = profile[s]]
<1>2. /\ live[s] \in [Files -> Content] /\ AtRest(live[s]) /\ lock[s] = "free" /\ ~game[s]
      /\ LockOK(s) /\ CopyOK(s) /\ restore[s].pc = "idle" /\ ~Working(s)
      /\ lock'[s] = "wipe" /\ lock' \in [Servers -> Kinds \cup {"free"}] /\ wipes' \in Nat
      /\ UNCHANGED <<game, live, profile, retired, dir, temps, restore, tick, mishaps, deletions>>
  BY DEF RequestWipe, IInv, ServerOK, LockOK, ContentOK, TypeOK, Working, Kinds, gameVars,
         BackupRecord, AtRest
<1>3. ASSUME NEW p \in {"safety", "delete"}
      PROVE  /\ w(p) \in WipeRecord /\ w(p).pc = p /\ w(p).before = live[s] /\ w(p).safety = 0
  BY <1>2, <1>3, NoneTypes DEF NoWipe, WipeRecord, Files
<1>4. /\ b \in BackupRecord /\ b.pc = "open" /\ b.kind = "wipe" /\ b.whole /\ b.files = NoFiles
      /\ ~b.stale
  BY NoneTypes DEF NoBackup, BackupRecord, Kinds, IInv, TypeOK
<1>5. \/ /\ wipe' = [wipe EXCEPT ![s] = w("delete")] /\ wipe'[s] = w("delete")
         /\ backup' = backup
      \/ /\ wipe' = [wipe EXCEPT ![s] = w("safety")] /\ wipe'[s] = w("safety")
         /\ backup' = [backup EXCEPT ![s] = b] /\ backup'[s] = b
  BY <1>1 DEF IInv, TypeOK
<1> HIDE DEF w, b
<1>6. TypeOK'
  <2>1. wipe' \in [Servers -> WipeRecord] /\ backup' \in [Servers -> BackupRecord]
    <3>1. w("delete") \in WipeRecord /\ w("safety") \in WipeRecord
      BY <1>3
    <3>2. wipe \in [Servers -> WipeRecord] /\ backup \in [Servers -> BackupRecord]
      BY DEF IInv, TypeOK
    <3> QED
      BY <1>4, <1>5, <3>1, <3>2
  <2> QED
    BY <1>2, <2>1 DEF IInv, TypeOK
<1>7. Elsewhere(s)
  BY <1>2, <1>5 DEF RequestWipe, Elsewhere, Same, IInv, TypeOK
<1>8. LockOK(s)' /\ SafetyOK(s)'
  BY <1>2, <1>3, <1>4, <1>5 DEF LockOK, SafetyOK, Working
<1>9. CopyOK(s)' /\ RetentionOK(s)'
  <2>1. CASE backup' = backup
    BY <1>2, <2>1, NotWorking
  <2>2. CASE backup'[s] = b
    BY <1>4, <2>2 DEF CopyOK, RetentionOK
  <2> QED
    BY <1>5, <2>1, <2>2
<1>10. ContentOK(s)' /\ ProgressOK(s)' /\ SwapOK(s)'
  BY <1>2 DEF IInv, ServerOK, ContentOK, ProgressOK, SwapOK, Replacing, AtRest, Files
<1> QED
  BY <1>2, <1>6, <1>7, <1>8, <1>9, <1>10, Assemble DEF ServerOK, IInv, Sane, AtRest

LEMMA CrashInv ==
  ASSUME IInv, Crash
  PROVE  IInv'
<1>1. /\ UNCHANGED <<game, live, profile, retired, dir, temps, tick, deletions, wipes>>
      /\ mishaps' \in Nat
  BY MishapType DEF Crash, IInv, gameVars
<1>2. TypeOK'
  BY <1>1, NoneTypes DEF Crash, IInv, TypeOK
<1>3. ASSUME NEW s \in Servers PROVE ServerOK(s)'
  <2>1. /\ lock'[s] = "free" /\ backup'[s] = NoBackup /\ restore'[s] = NoRestore
        /\ wipe'[s] = NoWipe
    BY DEF Crash
  <2>2. LockOK(s)' /\ CopyOK(s)' /\ RetentionOK(s)' /\ SafetyOK(s)'
    BY <2>1 DEF LockOK, Working, CopyOK, RetentionOK, SafetyOK, NoBackup, NoRestore, NoWipe
  <2>3. ContentOK(s)' /\ ProgressOK(s)' /\ SwapOK(s)'
    BY <1>1, <2>1
    DEF IInv, ServerOK, ContentOK, ProgressOK, SwapOK, Replacing, NoRestore, AtRest
  <2> QED
    BY <2>2, <2>3 DEF ServerOK
<1> QED
  BY <1>1, <1>2, <1>3 DEF IInv, Sane, AtRest

-----------------------------------------------------------------------------
(* Settings edits.                                                         *)

LEMMA EditIniInv ==
  ASSUME IInv, NEW s \in Servers, EditIni(s)
  PROVE  IInv'
<1> DEFINE c == tick'
           r == EditedUnder(restore[s], c)
           b == [backup[s] EXCEPT !.stale =
                   @ \/ (backup[s].pc \in {"copy", "seal"} /\ "ini" \notin backup[s].todo)]
<1>1. /\ restore[s] \in RestoreRecord /\ backup[s] \in BackupRecord /\ c \in Nat
      /\ live[s] \in [Files -> Content] /\ c \in Content /\ c # InUse
      /\ ServerOK(s) /\ "ini" \in Files
  BY ContentAssumption DEF EditIni, IInv, TypeOK, Content, Files
<1>2. restore[s].pc \in {"idle", "safety", "extract", "reload"} /\ wipe[s].pc # "delete"
  BY <1>1 DEF EditIni, Quiet, Busy, RestoreRecord
<1>3. UNCHANGED <<game, profile, retired, dir, temps, lock, wipe, mishaps, deletions, wipes>>
  BY DEF EditIni
<1>4. live' = [live EXCEPT ![s]["ini"] = c]
  BY DEF EditIni
<1>5. /\ live' \in [Servers -> [Files -> Content]] /\ \A q \in Servers \ {s} : live'[q] = live[q]
      /\ live'[s]["ini"] = c /\ \A g \in Files \ {"ini"} : live'[s][g] = live[s][g]
      /\ AtRest(live[s]) => AtRest(live'[s])
  BY ZenonT(60), <1>1, <1>4, OneFile DEF IInv
<1>6. /\ restore' = [restore EXCEPT ![s] = r] /\ restore'[s] = r
      /\ backup' = [backup EXCEPT ![s] = b] /\ backup'[s] = b
  BY DEF EditIni, IInv, TypeOK
<1>7. /\ b \in BackupRecord /\ b.pc = backup[s].pc /\ b.kind = backup[s].kind
      /\ b.todo = backup[s].todo /\ b.files = backup[s].files /\ b.whole = backup[s].whole
      /\ b.doomed = backup[s].doomed
      /\ b.stale = (backup[s].stale
                    \/ (backup[s].pc \in {"copy", "seal"} /\ "ini" \notin backup[s].todo))
  BY <1>1 DEF BackupRecord
<1>8. /\ r \in RestoreRecord /\ r.pc = restore[s].pc /\ r.source = restore[s].source
      /\ r.todo = restore[s].todo /\ r.applied = restore[s].applied
      /\ r.retired = restore[s].retired /\ r.profile = restore[s].profile
      /\ r.updated = restore[s].updated /\ r.safety = restore[s].safety
      /\ r.clean = restore[s].clean /\ r.meddled = restore[s].meddled
      /\ r.before = (IF restore[s].pc \in {"safety", "extract"}
                      THEN [restore[s].before EXCEPT !["ini"] = c] ELSE restore[s].before)
      /\ r.stale = (IF restore[s].pc \in {"safety", "extract"}
                     THEN restore[s].pc = "extract" ELSE restore[s].stale)
      /\ r.edited = (IF restore[s].pc \in {"idle", "safety", "extract"}
                      THEN restore[s].edited ELSE restore[s].edited \cup {"ini"})
  <2>1. CASE restore[s].pc \in {"safety", "extract"}
    BY <1>1, <2>1 DEF EditedUnder, RestoreRecord
  <2>2. CASE restore[s].pc = "idle"
    BY <1>1, <2>2 DEF EditedUnder
  <2>3. CASE restore[s].pc = "reload"
    BY <1>1, <2>3 DEF EditedUnder, RestoreRecord
  <2> QED
    BY <1>2, <2>1, <2>2, <2>3
<1> HIDE DEF b, r, c
<1>9. TypeOK'
  BY <1>1, <1>3, <1>5, <1>6, <1>7, <1>8 DEF c, IInv, TypeOK
<1>10. Elsewhere(s)
  BY <1>3, <1>5, <1>6 DEF Elsewhere, Same, IInv, TypeOK
<1>11. restore[s].before \in [Files -> Content]
  BY <1>1 DEF RestoreRecord
<1>12. LockOK(s)'
  BY <1>1, <1>3, <1>6, <1>7, <1>8 DEF ServerOK, LockOK, Working
<1>13. ContentOK(s)'
  BY <1>1, <1>3, <1>5, <1>6, <1>8, <1>11 DEF ServerOK, ContentOK, AtRest, Sane
<1>14. CopyOK(s)'
  <2>1. CopyOK(s)
    BY <1>1 DEF ServerOK
  <2>2. b.pc \in {"idle", "wait", "open", "count"} => ~b.stale
    BY <1>7, <2>1 DEF CopyOK
  <2>3. b.pc = "count" => \A f \in Files \ b.todo : live'[s][f] = Absent
    BY <1>5, <1>7, <2>1 DEF CopyOK
  <2>4. b.pc \in {"copy", "seal"} /\ b.whole => \A f \in Files \ b.todo :
          \/ b.files[f] = live'[s][f]
          \/ f = "world" /\ b.files[f] = Gaps
          \/ f = "ini" /\ b.stale
    <3>1. SUFFICES ASSUME b.pc \in {"copy", "seal"}, b.whole, NEW f \in Files \ b.todo
                   PROVE  \/ b.files[f] = live'[s][f]
                          \/ f = "world" /\ b.files[f] = Gaps
                          \/ f = "ini" /\ b.stale
      OBVIOUS
    <3>2. CASE f = "ini"
      BY <1>7, <3>1, <3>2
    <3>3. CASE f # "ini"
      BY <1>5, <1>7, <2>1, <3>1, <3>3 DEF CopyOK
    <3> QED
      BY <3>2, <3>3
  <2> QED
    BY <1>6, <1>7, <2>1, <2>2, <2>3, <2>4 DEF CopyOK
<1>15. SafetyOK(s)'
  <2>1. SafetyOK(s)
    BY <1>1 DEF ServerOK
  <2>2. CASE restore[s].pc \in {"safety", "extract"}
    <3>1. \A f \in Files : live'[s][f] = r.before[f]
      BY <1>5, <1>8, <1>11, <2>1, <2>2 DEF SafetyOK
    <3>2. live'[s] = r.before
      BY <1>5, <1>8, <1>1, <1>11, <2>2, <3>1
    <3>3. \A f \in Files \ {"ini"} : r.before[f] = restore[s].before[f]
      BY <1>8, <1>11
    <3>4. CASE restore[s].pc = "extract"
      <4>1. CoveredByRestore(s)' = Files \ {"ini"} /\ Files \ {"ini"} \subseteq CoveredByRestore(s)
        BY <1>6, <1>8, <3>4 DEF CoveredByRestore
      <4>2. r.before["world"] = restore[s].before["world"]
        BY <3>3 DEF Files
      <4>3. ~r.meddled /\ r.before["world"] # Absent =>
              \E a \in dir : Covers(a, s, r.before, r.safety, CoveredByRestore(s)')
        BY <1>8, <2>1, <3>3, <3>4, <4>1, <4>2 DEF SafetyOK, Covers
      <4>4. wipe[s].pc = "idle"
        BY <1>1, <3>4 DEF ServerOK, LockOK
      <4>5. profile'[s] = r.profile \/ "profile" \in r.edited
        BY <1>3, <1>8, <2>1, <3>4 DEF SafetyOK
      <4>6. r.source.of \in {s, Nobody} => r.source \in dir \/ r.meddled
        BY <1>8, <2>1, <3>4 DEF SafetyOK
      <4>7. ~r.meddled /\ r.before["world"] # Absent =>
              (\E a \in dir : Covers(a, s, restore[s].before, restore[s].safety, CoveredByRestore(s)))'
        BY <1>3, <1>6, <4>3 DEF Covers
      <4>8. (restore[s].pc \in {"safety", "extract"} =>
               /\ live[s] = restore[s].before
               /\ profile[s] = restore[s].profile \/ "profile" \in restore[s].edited)'
        BY <1>6, <3>2, <4>5
      <4>9. (restore[s].pc \in {"safety", "extract"} /\ restore[s].source.of \in {s, Nobody} =>
               restore[s].source \in dir \/ restore[s].meddled)'
        BY <1>3, <1>6, <4>6
      <4>10. restore'[s].meddled = r.meddled /\ restore'[s].before = r.before /\ wipe'[s].pc = "idle"
        BY <1>3, <1>6, <4>4
      <4> QED
        BY <4>7, <4>8, <4>9, <4>10 DEF SafetyOK
    <3>5. CASE restore[s].pc = "safety"
      <4>1. wipe[s].pc = "idle"
        BY <1>1, <3>5 DEF ServerOK, LockOK
      <4> QED
        BY <1>3, <1>6, <1>8, <2>1, <3>2, <3>5, <4>1 DEF SafetyOK
    <3> QED
      BY <2>2, <3>4, <3>5
  <2>3. CASE restore[s].pc \in {"idle", "reload"}
    <3>1. CoveredByRestore(s)' = CoveredByRestore(s) /\ r.before = restore[s].before
      BY <1>6, <1>8, <2>3 DEF CoveredByRestore
    <3>2. wipe'[s].pc = "safety" => \A f \in CoveredByWipe : live'[s][f] = wipe'[s].before[f]
      BY <1>3, <1>5, <2>1 DEF SafetyOK, CoveredByWipe
    <3> QED
      BY <1>2, <1>3, <1>6, <1>8, <2>1, <2>3, <3>1, <3>2 DEF SafetyOK, Covers
  <2> QED
    BY <1>2, <2>2, <2>3
<1>16. ProgressOK(s)'
  BY <1>1, <1>2, <1>6, <1>8 DEF ServerOK, ProgressOK, Replacing
<1>17. SwapOK(s)'
  <2>1. CASE restore[s].pc = "reload"
    <3>1. /\ "ini" \in restore[s].applied /\ "ini" \in r.edited /\ Replacing(s)
          /\ r.before = restore[s].before
      BY <1>1, <1>8, <2>1 DEF ServerOK, ProgressOK, Replacing, Replacements
    <3>2. SwapOK(s) /\ Replacing(s)'
      BY <1>1, <1>6, <1>8, <2>1 DEF ServerOK, Replacing
    <3>3. r.clean /\ "profile" \notin r.edited =>
            profile'[s] = IF r.updated THEN r.source.profile ELSE r.profile
      BY <1>3, <1>8, <2>1, <3>1, <3>2 DEF SwapOK
    <3>4. \A g \in Files : WasRetired(s, g)' <=> WasRetired(s, g)
      BY <1>6, <1>8, <3>1 DEF WasRetired
    <3>5. \A g \in r.applied :
            /\ live'[s][g] = r.source.files[g] \/ (g = "ini" /\ "ini" \in r.edited)
            /\ WasRetired(s, g)'
      <4>1. r.applied \subseteq Files /\ r.applied = restore[s].applied
            /\ r.source = restore[s].source
        BY <1>1, <1>8 DEF RestoreRecord
      <4>2. \A g \in r.applied : g # "ini" =>
               live[s][g] = r.source.files[g] /\ live'[s][g] = live[s][g]
        BY <1>5, <3>1, <3>2, <4>1 DEF SwapOK
      <4>3. \A g \in r.applied : WasRetired(s, g)
        BY <3>1, <3>2, <4>1 DEF SwapOK
      <4> QED
        BY <3>1, <3>4, <4>1, <4>2, <4>3
    <3>6. \A g \in Files \ r.applied :
            /\ ~InHand(s, g)'
            /\ r.clean => live'[s][g] = r.before[g]
            /\ <<g, r.before[g]>> \notin r.retired
      BY <1>5, <1>6, <1>8, <2>1, <3>1, <3>2 DEF SwapOK, InHand
    <3> QED
      BY <1>6, <3>3, <3>5, <3>6 DEF SwapOK
  <2>2. CASE restore[s].pc # "reload"
    BY <1>2, <1>6, <1>8, <2>2 DEF SwapOK, Replacing
  <2> QED
    BY <2>1, <2>2
<1>18. RetentionOK(s)'
  BY <1>1, <1>3, <1>6, <1>7 DEF ServerOK, RetentionOK, Newer
<1> QED
  BY <1>3, <1>9, <1>10, <1>12, <1>13, <1>14, <1>15, <1>16, <1>17, <1>18, Assemble
  DEF ServerOK, IInv, Sane, AtRest

LEMMA EditProfileInv ==
  ASSUME IInv, NEW s \in Servers, EditProfile(s)
  PROVE  IInv'
<1> DEFINE e == IF restore[s].pc = "idle" THEN restore[s].edited ELSE restore[s].edited \cup {"profile"}
           r == [restore[s] EXCEPT !.edited = e]
<1>1. /\ restore[s] \in RestoreRecord /\ tick' \in Nat /\ ServerOK(s)
      /\ UNCHANGED <<game, live, retired, dir, temps, lock, backup, wipe, mishaps, deletions, wipes>>
  BY DEF EditProfile, gameVars, IInv, TypeOK
<1>2. /\ r \in RestoreRecord /\ r.pc = restore[s].pc /\ r.source = restore[s].source
      /\ r.todo = restore[s].todo /\ r.applied = restore[s].applied
      /\ r.retired = restore[s].retired /\ r.profile = restore[s].profile
      /\ r.updated = restore[s].updated /\ r.safety = restore[s].safety
      /\ r.clean = restore[s].clean /\ r.meddled = restore[s].meddled
      /\ r.before = restore[s].before /\ r.stale = restore[s].stale /\ r.edited = e
  BY <1>1 DEF RestoreRecord
<1>3. restore' = [restore EXCEPT ![s] = r] /\ restore'[s] = r
  BY DEF EditProfile, IInv, TypeOK
<1>4. /\ profile' \in [Servers -> Nat] /\ \A q \in Servers \ {s} : profile'[q] = profile[q]
  BY <1>1 DEF EditProfile, IInv, TypeOK
<1>5. /\ restore[s].pc = "idle" => e = restore[s].edited
      /\ restore[s].pc # "idle" => "profile" \in e
      /\ "ini" \in e <=> "ini" \in restore[s].edited
  OBVIOUS
<1> HIDE DEF r, e
<1>6. TypeOK'
  BY <1>1, <1>2, <1>3, <1>4 DEF IInv, TypeOK
<1>7. Elsewhere(s)
  BY <1>1, <1>3, <1>4 DEF Elsewhere, Same, IInv, TypeOK
<1>8. LockOK(s)' /\ ContentOK(s)' /\ CopyOK(s)' /\ RetentionOK(s)'
  BY <1>1, <1>2, <1>3 DEF ServerOK, LockOK, Working, ContentOK, AtRest, Sane, CopyOK,
     RetentionOK, Newer
<1>9. SafetyOK(s)'
  <2>1. CoveredByRestore(s)' = CoveredByRestore(s) /\ SafetyOK(s)
    BY <1>1, <1>2, <1>3 DEF CoveredByRestore, ServerOK
  <2> QED
    BY <1>1, <1>2, <1>3, <1>5, <2>1 DEF SafetyOK, Covers
<1>10. ProgressOK(s)'
  BY <1>1, <1>2, <1>3, <1>5 DEF ServerOK, ProgressOK, Replacing
<1>11. SwapOK(s)'
  BY <1>1, <1>2, <1>3, <1>5 DEF ServerOK, SwapOK, Replacing, InHand, WasRetired
<1> QED
  BY <1>1, <1>6, <1>7, <1>8, <1>9, <1>10, <1>11, Assemble DEF ServerOK, IInv, Sane, AtRest

-----------------------------------------------------------------------------
(* The invariant.                                                          *)

LEMMA InitInv == Init => IInv
<1> SUFFICES ASSUME Init PROVE IInv
  OBVIOUS
<1>1. PICK full \in BOOLEAN :
        dir = {[NoArchive EXCEPT !.id = 1, !.full = full, !.whole = TRUE, !.files =
                 [f \in Files |-> IF f = "world" \/ (full /\ f # "wal") THEN 0 ELSE Absent]]}
  BY DEF Init
<1> DEFINE files == [f \in Files |-> IF f = "world" \/ (full /\ f # "wal") THEN 0 ELSE Absent]
           a == [NoArchive EXCEPT !.id = 1, !.full = full, !.whole = TRUE, !.files = files]
<1>2. files \in [Files -> Content] /\ AtRest(files) /\ files["world"] # Absent
  BY ContentAssumption DEF Content, AtRest, Files
<1> HIDE DEF files
<1>3. a \in Archive /\ a.files = files
  BY <1>2, NoneTypes DEF Archive, NoArchive
<1>4. dir = {a}
  BY <1>1 DEF files
<1> HIDE DEF a
<1>5. Sane(a) /\ dir \subseteq Archive /\ IsFiniteSet(dir)
  BY <1>2, <1>3, <1>4, FS_Singleton DEF Sane
<1>6. /\ game \in [Servers -> BOOLEAN]
      /\ live \in [Servers -> [Files -> Content]]
      /\ profile \in [Servers -> Nat]
      /\ retired \in [Servers -> SUBSET (Files \X Content)]
      /\ temps \subseteq Nat
      /\ lock \in [Servers -> Kinds \cup {"free"}]
      /\ backup \in [Servers -> BackupRecord]
      /\ restore \in [Servers -> RestoreRecord]
      /\ wipe \in [Servers -> WipeRecord]
      /\ tick \in Nat /\ mishaps \in Nat /\ deletions \in Nat /\ wipes \in Nat
  BY NoneTypes DEF Init, Content
<1>7. TypeOK
  BY <1>5, <1>6 DEF TypeOK
<1>8. ASSUME NEW s \in Servers PROVE ServerOK(s)
  <2>1. /\ lock[s] = "free" /\ backup[s] = NoBackup /\ restore[s] = NoRestore
        /\ wipe[s] = NoWipe
    BY DEF Init
  <2>2. LockOK(s) /\ CopyOK(s) /\ RetentionOK(s) /\ SafetyOK(s)
    BY <2>1 DEF LockOK, Working, CopyOK, RetentionOK, SafetyOK, NoBackup, NoRestore, NoWipe
  <2>3. live[s] = [f \in Files |-> IF f = "wal" THEN Absent ELSE 1]
    BY DEF Init
  <2>4. AtRest(live[s]) /\ live[s]["ini"] # InUse
    BY <2>3, ContentAssumption DEF AtRest, Files
  <2>5. ContentOK(s) /\ ProgressOK(s) /\ SwapOK(s)
    BY <2>1, <2>4 DEF ContentOK, ProgressOK, SwapOK, Replacing, NoRestore
  <2> QED
    BY <2>2, <2>5 DEF ServerOK
<1> QED
  BY <1>4, <1>5, <1>7, <1>8 DEF IInv

LEMMA StutterInv ==
  ASSUME IInv, UNCHANGED vars
  PROVE  IInv'
<1>1. TypeOK'
  BY DEF vars, gameVars, IInv, TypeOK
<1>2. ASSUME NEW s \in Servers PROVE ServerOK(s)'
  BY <1>1, SameOK DEF vars, gameVars, IInv, Same
<1> QED
  BY <1>1, <1>2 DEF vars, gameVars, IInv, Sane, AtRest

LEMMA NextInv == IInv /\ [Next]_vars => IInv'
<1> SUFFICES ASSUME IInv, [Next]_vars PROVE IInv'
  OBVIOUS
<1>1. CASE Crash
  BY <1>1, CrashInv
<1>2. CASE UNCHANGED vars
  BY <1>2, StutterInv
<1>3. ASSUME NEW s \in Servers, Step(s) PROVE IInv'
  <2>1. CASE StartGame(s) \/ StopGame(s)
    BY <2>1, StartGameInv, StopGameInv
  <2>2. CASE RequestBackup(s) \/ BackupLocks(s) \/ BackupGivesUp(s)
    BY <2>2, RequestBackupInv, BackupLocksInv, BackupGivesUpInv
  <2>3. CASE OpenArchive(s) \/ CreateTemp(s) \/ Copy(s) \/ Seal(s)
    BY <2>3, OpenArchiveInv, CreateTempInv, CopyInv, SealInv
  <2>4. CASE ListBackups(s) \/ Prune(s) \/ DeleteBackup(s)
    BY <2>4, ListBackupsInv, PruneInv, DeleteBackupInv
  <2>5. CASE RequestRestore(s) \/ Extract(s) \/ Retire(s) \/ Place(s)
    BY <2>5, RequestRestoreInv, ExtractInv, RetireInv, PlaceInv
  <2>6. CASE UpdateProfile(s) \/ Reload(s) \/ RestoreProfile(s) \/ Undo(s)
    BY <2>6, UpdateProfileInv, ReloadInv, RestoreProfileInv, UndoInv
  <2>7. CASE RestoreFails(s) \/ Discard(s)
    BY <2>7, RestoreFailsInv, DiscardInv
  <2>8. CASE RequestWipe(s) \/ Delete(s) \/ WipeEnds(s)
    BY <2>8, RequestWipeInv, DeleteInv, WipeEndsInv
  <2>9. CASE EditIni(s) \/ EditProfile(s)
    BY <2>9, EditIniInv, EditProfileInv
  <2> QED
    BY <1>3, <2>1, <2>2, <2>3, <2>4, <2>5, <2>6, <2>7, <2>8, <2>9 DEF Step
<1> QED
  BY <1>1, <1>2, <1>3 DEF Next

\* In every behaviour a backup, a restore and a wipe are as far as IInv says:
\* the lock, the files in place, the retired ones and the archives agree.
THEOREM AlwaysInv == Spec => []IInv
<1> QED
  BY InitInv, NextInv, PTL DEF Spec

\* Every variable keeps its type.
THEOREM TypeCorrect == Spec => []TypeOK
<1>1. IInv => TypeOK
  BY DEF IInv
<1> QED
  BY <1>1, AlwaysInv, PTL

-----------------------------------------------------------------------------
(* What follows from it.                                                   *)

\* A backup stores one state of the server: nothing changes, and no game
\* writes, the files it has copied (doBackup under the lifecycle lock), but for
\* an ini that is edited after it has been stored.
THEOREM OneState == Spec => []ArchivesAreOneState
<1>1. ASSUME IInv, NEW s \in Servers, NEW f \in Files,
             backup[s].pc \in {"copy", "seal"}, f \notin backup[s].todo, backup[s].whole,
             ~(f = "ini" /\ backup[s].stale)
      PROVE  live[s][f] # InUse /\ backup[s].files[f] \in {live[s][f], Gaps}
  <2>1. backup[s].kind \in Kinds
    BY <1>1 DEF IInv, TypeOK, BackupRecord
  <2>2. ~game[s]
    BY <1>1, <2>1 DEF IInv, ServerOK, LockOK, Working, Kinds
  <2>3. live[s][f] # InUse
    BY <1>1, <2>2 DEF IInv, ServerOK, ContentOK, AtRest
  <2> QED
    BY <1>1, <2>3 DEF IInv, ServerOK, CopyOK
<1>2. IInv => ArchivesAreOneState
  BY <1>1 DEF ArchivesAreOneState
<1> QED
  BY <1>2, AlwaysInv, PTL

\* Nothing is replaced or wiped of which there is no archive (the safety copy
\* of restoreBackup and of the wipe route).
THEOREM SafetyCopy == Spec => []SafetyCopyExists
<1>1. IInv => SafetyCopyExists
  BY DEF IInv, ServerOK, SafetyOK, SafetyCopyExists
<1> QED
  BY <1>1, AlwaysInv, PTL

\* The safety copy does not remove what is being restored.
THEOREM SourceKept == Spec => []SourceIsKept
<1>1. IInv => SourceIsKept
  BY DEF IInv, ServerOK, SafetyOK, SourceIsKept
<1> QED
  BY <1>1, AlwaysInv, PTL

\* Only an operator and the retention of cleanupOldBackups remove archives,
\* and the latter only with MaxBackups newer ones.
THEOREM KeepsNewest == Spec => RetentionKeepsNewest
<1> DEFINE A(a) == \/ deletions' # deletions
                   \/ /\ a.of \in Servers
                      /\ Cardinality({b \in Newer(a, dir) : b.of = a.of}) + deletions
                           >= MaxBackups
<1>1. ASSUME IInv, Next, NEW a \in dir \ dir' PROVE A(a)
  <2>1. CASE Crash
    BY <1>1, <2>1 DEF Crash
  <2>2. ASSUME NEW s \in Servers, Step(s) PROVE A(a)
    <3>1. CASE Prune(s)
      <4>1. a \in backup[s].doomed /\ backup[s].pc = "prune"
        BY <1>1, <3>1 DEF Prune
      <4>2. a.of = s /\ Cardinality({b \in Newer(a, dir) : b.of = s}) + deletions >= MaxBackups
        BY <1>1, <4>1 DEF IInv, ServerOK, RetentionOK
      <4> QED
        BY <4>2
    <3>2. CASE DeleteBackup(s)
      BY <1>1, <3>2 DEF DeleteBackup, IInv, TypeOK
    <3>3. CASE Seal(s)
      BY <1>1, <3>3 DEF Seal
    <3>4. ASSUME dir' = dir PROVE A(a)
      BY <1>1, <3>4
    <3> QED
      BY <2>2, <3>1, <3>2, <3>3, <3>4
      DEF Step, StartGame, StartUnlocked, StopGame, EditIni, EditProfile, RequestBackup,
          BackupLocks, BackupGivesUp, OpenArchive, CreateTemp, Copy, ListBackups, RequestRestore, Extract, Retire,
          Place, UpdateProfile, Reload, RestoreProfile, Undo, RestoreFails, Discard,
          RequestWipe, Delete, WipeEnds
  <2> QED
    BY <1>1, <2>1, <2>2 DEF Next
<1>2. IInv /\ [Next]_vars => [\A a \in dir \ dir' : A(a)]_vars
  BY <1>1
<1> QED
  BY <1>2, AlwaysInv, PTL DEF Spec, RetentionKeepsNewest

-----------------------------------------------------------------------------
(* Nothing is lost.                                                        *)

\* The file in hand, or the one a rollback undoes, is all that a step of a
\* restore touches.
LEMMA RetireKeeps ==
  ASSUME IInv, NEW s \in Servers, Retire(s), NEW f \in Files
  PROVE  Copies(s, f) \subseteq Copies(s, f)'
<1> DEFINE g == First(restore[s].todo)
<1>1. live[s] \in [Files -> Content] /\ retired \in [Servers -> SUBSET (Files \X Content)]
      /\ live \in [Servers -> [Files -> Content]]
  BY DEF IInv, TypeOK
<1>2. CASE UNCHANGED <<live, retired>>
  BY <1>2 DEF Copies
<1>3. CASE /\ retired' = [retired EXCEPT ![s] = @ \cup {<<g, live[s][g]>>}]
           /\ live' = [live EXCEPT ![s][g] = Absent] /\ live[s][g] # Absent
  <2> HIDE DEF g
  <2>1. retired'[s] = retired[s] \cup {<<g, live[s][g]>>}
    BY <1>1, <1>3
  <2>2. \A c \in {r[2] : r \in {x \in retired[s] : x[1] = f}} :
          c \in {r[2] : r \in {x \in retired'[s] : x[1] = f}}
    BY <2>1
  <2>3. CASE f = g
    <3>1. <<f, live[s][f]>> \in {x \in retired'[s] : x[1] = f}
      BY <2>1, <2>3
    <3>2. live[s][f] \in {r[2] : r \in {x \in retired'[s] : x[1] = f}}
      BY <3>1
    <3> QED
      BY <2>2, <3>2 DEF Copies
  <2>4. CASE f # g
    <3>1. live'[s][f] = live[s][f]
      BY <1>1, <1>3, <2>4
    <3> QED
      BY <2>2, <3>1 DEF Copies
  <2> QED
    BY <2>3, <2>4
<1> QED
  BY <1>2, <1>3 DEF Retire

LEMMA PutBackKeeps ==
  ASSUME IInv, NEW s \in Servers, NEW g \in Files, PutBack(s, g), NEW f \in Files,
         NEW c \in Copies(s, f), c \notin Copies(s, f)'
  PROVE  f = g /\ c = live[s][f]
<1> DEFINE old == <<g, restore[s].before[g]>>
           R(S) == {r[2] : r \in {x \in S : x[1] = f}}
<1>1. live[s] \in [Files -> Content] /\ retired \in [Servers -> SUBSET (Files \X Content)]
      /\ live \in [Servers -> [Files -> Content]]
  BY DEF IInv, TypeOK
<1>2. CASE live' = [live EXCEPT ![s][g] = old[2]] /\ retired' = [retired EXCEPT ![s] = @ \ {old}]
  <2>1. retired'[s] = retired[s] \ {old} /\ live'[s][g] = old[2]
    BY <1>1, <1>2
  <2>2. \A x \in retired[s] : x[1] = f => x = old \/ x[2] \in R(retired'[s])
    BY <2>1
  <2>3. \A x \in R(retired[s]) : (f = g /\ x = old[2]) \/ x \in R(retired'[s])
    BY <2>2
  <2>4. f = g => old[2] \in Copies(s, f)'
    BY <2>1 DEF Copies
  <2>5. f # g => live'[s][f] = live[s][f]
    BY <1>1, <1>2
  <2> HIDE DEF old, R
  <2>6. Copies(s, f) = {live[s][f]} \cup R(retired[s])
        /\ Copies(s, f)' = {live'[s][f]} \cup R(retired'[s])
    BY DEF Copies, R
  <2> QED
    BY <2>3, <2>4, <2>5, <2>6
<1>3. CASE live' = [live EXCEPT ![s][g] = Absent] /\ UNCHANGED retired
  <2>1. f # g => live'[s][f] = live[s][f]
    BY <1>1, <1>3
  <2>2. Copies(s, f) = {live[s][f]} \cup R(retired[s])
        /\ Copies(s, f)' = {live'[s][f]} \cup R(retired[s])
    BY <1>3 DEF Copies
  <2> QED
    BY <2>1, <2>2
<1> QED
  BY <1>2, <1>3 DEF PutBack

\* The files of the other servers stay.
LEMMA OthersKeep ==
  ASSUME IInv, NEW q \in Servers, Step(q), NEW s \in Servers \ {q}
  PROVE  live'[s] = live[s] /\ retired'[s] = retired[s]
<1> USE DEF IInv, TypeOK
<1>1. CASE StartGame(q) \/ StopGame(q) \/ RequestBackup(q) \/ BackupLocks(q) \/ BackupGivesUp(q)
  BY <1>1 DEF StartGame, StartUnlocked, StopGame, RequestBackup, BackupLocks, BackupGivesUp,
              gameVars
<1>2. CASE OpenArchive(q) \/ Copy(q) \/ Seal(q) \/ Prune(q)
  BY <1>2 DEF OpenArchive, Copy, Seal, Prune, Stored, BackupFails, EndBackup, EndNormal,
              EndBeforeRestore, EndBeforeWipe, gameVars
<1>3. CASE ListBackups(q) \/ DeleteBackup(q) \/ RequestRestore(q) \/ Extract(q)
           \/ UpdateProfile(q) \/ Reload(q) \/ RestoreProfile(q) \/ RestoreFails(q)
           \/ RequestWipe(q) \/ WipeEnds(q)
  BY <1>3 DEF ListBackups, DeleteBackup, RequestRestore, Extract, UpdateProfile, Reload,
              RestoreProfile, RestoreFails, RequestWipe, WipeEnds, gameVars
<1>4. CASE Retire(q) \/ Place(q) \/ Undo(q)
  BY <1>4 DEF Retire, Place, Undo, PutBack
<1>5. CASE Discard(q) \/ Delete(q)
  BY <1>5 DEF Discard, Delete, gameVars
<1>6. CASE EditIni(q) \/ EditProfile(q) \/ CreateTemp(q)
  BY <1>6 DEF EditIni, EditProfile, CreateTemp, gameVars
<1> QED
  BY <1>1, <1>2, <1>3, <1>4, <1>5, <1>6 DEF Step

LEMMA NothingLostHere ==
  ASSUME IInv, NEW s \in Servers, Step(s), NEW f \in Files,
         NEW c \in Copies(s, f), c \notin Copies(s, f)', c # Absent
  PROVE  MayGo(s, f, c)
<1>1. ~UNCHANGED <<live, retired>>
  BY DEF Copies
<1>2. /\ live[s] \in [Files -> Content] /\ live \in [Servers -> [Files -> Content]]
      /\ retired \in [Servers -> SUBSET (Files \X Content)] /\ game \in [Servers -> BOOLEAN]
  BY DEF IInv, TypeOK
<1>3. CASE StartGame(s) \/ StopGame(s) \/ BackupLocks(s)
  BY <1>1, <1>2, <1>3 DEF StartGame, StartUnlocked, StopGame, BackupLocks, gameVars, MayGo
<1>4. CASE RequestBackup(s) \/ BackupGivesUp(s) \/ ListBackups(s) \/ DeleteBackup(s)
           \/ RequestRestore(s) \/ Extract(s) \/ UpdateProfile(s) \/ Reload(s)
           \/ RestoreProfile(s) \/ RestoreFails(s) \/ RequestWipe(s) \/ WipeEnds(s)
           \/ CreateTemp(s) \/ EditProfile(s)
  BY <1>1, <1>4 DEF CreateTemp, EditProfile, RequestBackup, BackupGivesUp, ListBackups, DeleteBackup, RequestRestore,
       Extract, UpdateProfile, Reload, RestoreProfile, RestoreFails, RequestWipe, WipeEnds,
       gameVars
<1>5. ASSUME NEW ok \in BOOLEAN, EndBackup(s, ok), retired' = retired, Working(s)
      PROVE  MayGo(s, f, c)
  <2>1. EndNormal(s) /\ ~UNCHANGED gameVars
    BY <1>1, <1>5 DEF EndBackup, EndBeforeRestore, EndBeforeWipe, gameVars
  <2>2. backup[s].kind = "backup" /\ lock[s] = "backup" /\ ~game[s]
    BY <1>5, <2>1 DEF EndNormal, IInv, ServerOK, LockOK
  <2>3. game'[s]
    BY <1>2, <2>1 DEF EndNormal
  <2> QED
    BY <2>2, <2>3 DEF MayGo
<1>6. CASE OpenArchive(s) \/ Copy(s) \/ Seal(s) \/ Prune(s)
  <2>1. retired' = retired /\ Working(s)
    BY <1>6 DEF OpenArchive, Copy, Seal, Prune, Working
  <2>2. \E ok \in BOOLEAN : EndBackup(s, ok)
    BY <1>1, <1>6 DEF OpenArchive, Copy, Seal, Prune, Stored, BackupFails, gameVars
  <2> QED
    BY <1>5, <2>1, <2>2
<1>7. CASE Retire(s)
  BY <1>7, RetireKeeps
<1>8. CASE Place(s)
  <2> DEFINE g == First(restore[s].todo)
  <2>1. restore[s].pc = "place" /\ Replacing(s)
    BY <1>8 DEF Place, Replacing
  <2>2. g \in restore[s].todo /\ g \in Files /\ g \notin restore[s].applied
    BY <2>1, FirstIn, AtWork DEF ProgressOK
  <2>3. live[s][g] = Absent
    BY <2>1, <2>2, AtWork DEF SwapOK, InHand
  <2>4. CASE live' = [live EXCEPT ![s][g] = restore[s].source.files[g]] /\ UNCHANGED retired
    <3> HIDE DEF g
    <3>1. f # g => live'[s][f] = live[s][f]
      BY <1>2, <2>4
    <3>2. c = live[s][f] /\ live'[s][f] # live[s][f]
      BY <2>4 DEF Copies
    <3> QED
      BY <2>3, <3>1, <3>2
  <2>5. CASE PutBack(s, g)
    BY <2>2, <2>3, <2>5, PutBackKeeps
  <2> QED
    BY <1>1, <1>8, <2>4, <2>5 DEF Place
<1>9. CASE Undo(s)
  <2> DEFINE g == Latest(restore[s].applied)
  <2>1. restore[s].pc = "rollback" /\ restore[s].applied # {}
    BY <1>9 DEF Undo
  <2>2. g \in restore[s].applied /\ g \in Files
    BY <2>1, FirstIn, AtWork
  <2>3. live[s][g] = restore[s].source.files[g] \/ (g = "ini" /\ "ini" \in restore[s].edited)
    BY <2>1, <2>2, AtWork DEF SwapOK
  <2>4. f = g /\ c = live[s][f]
    <3>1. CASE PutBack(s, g)
      BY <2>2, <3>1, PutBackKeeps
    <3>2. CASE UNCHANGED retired /\ \E kept \in {Absent, live[s][g]} : live' = [live EXCEPT ![s][g] = kept]
      <4>1. PICK kept \in {Absent, live[s][g]} : live' = [live EXCEPT ![s][g] = kept]
        BY <3>2
      <4> HIDE DEF g
      <4>2. f # g => live'[s][f] = live[s][f]
        BY <1>2, <4>1
      <4>3. c = live[s][f] /\ live'[s][f] # live[s][f]
        BY <3>2 DEF Copies
      <4> QED
        BY <4>2, <4>3
    <3> QED
      BY <1>9, <3>1, <3>2 DEF Undo
  <2> QED
    BY <2>1, <2>3, <2>4 DEF MayGo
<1>10. CASE Discard(s)
  <2>1. restore[s].pc = "discard" /\ Replacing(s)
    BY <1>10 DEF Discard, Replacing
  <2>2. restore[s].todo = {} /\ (restore[s].source.full => restore[s].updated) /\ restore[s].clean
    BY <2>1, AtWork DEF ProgressOK
  <2>3. restore[s].source.full /\ "profile" \notin restore[s].edited =>
          profile[s] = restore[s].source.profile
    BY <2>1, <2>2, AtWork DEF SwapOK
  <2> QED
    BY <2>1, <2>2, <2>3 DEF MayGo, Restored
<1>11. CASE Delete(s)
  BY <1>11 DEF Delete, MayGo
<1>12. CASE EditIni(s)
  <2>1. f = "ini"
    <3>1. live' = [live EXCEPT ![s]["ini"] = tick'] /\ retired' = retired
      BY <1>12 DEF EditIni
    <3>2. f # "ini" => live'[s][f] = live[s][f]
      BY <1>2, <3>1
    <3> QED
      BY <3>1, <3>2 DEF Copies
  <2> QED
    BY <1>12, <2>1 DEF MayGo
<1> QED
  BY <1>3, <1>4, <1>6, <1>7, <1>8, <1>9, <1>10, <1>11, <1>12 DEF Step

\* What a restore replaces stays on disk until the restore is complete,
\* whatever fails and whenever the panel dies (the swap of restoreBackup).
THEOREM NothingLost == Spec => NothingIsLost
<1> DEFINE A == \A s \in Servers, f \in Files :
                  \A c \in Copies(s, f) \ (Copies(s, f)' \cup {Absent}) : MayGo(s, f, c)
<1>1. ASSUME IInv, Next, NEW s \in Servers, NEW f \in Files,
             NEW c \in Copies(s, f), c \notin Copies(s, f)', c # Absent
      PROVE  MayGo(s, f, c)
  <2>1. ~Crash
    BY <1>1 DEF Crash, gameVars, Copies
  <2>2. PICK q \in Servers : Step(q)
    BY <1>1, <2>1 DEF Next
  <2>3. q = s
    BY <1>1, <2>2, OthersKeep DEF Copies
  <2> QED
    BY <1>1, <2>2, <2>3, NothingLostHere
<1>2. IInv /\ Next => A
  BY <1>1
<1> HIDE DEF A
<1>3. IInv /\ [Next]_vars => [A]_vars
  BY <1>2
<1>4. Spec => [][A]_vars
  BY <1>3, AlwaysInv, PTL DEF Spec
<1> QED
  BY <1>4 DEF A, NothingIsLost

-----------------------------------------------------------------------------
(* All or nothing.                                                         *)

\* How a restore can end.
LEMMA WaysToEnd ==
  ASSUME IInv, NEW q \in Servers, Step(q), NEW s \in Servers,
         restore[s].pc # "idle", restore'[s].pc = "idle"
  PROVE  \/ restore[s].pc \in {"safety", "extract", "discard"}
         \/ restore[s].pc = "rollback" /\ ~restore[s].updated /\ restore[s].applied = {}
<1> SUFFICES ASSUME restore[s].pc \notin {"safety", "extract", "discard"}
             PROVE  restore[s].pc = "rollback" /\ ~restore[s].updated /\ restore[s].applied = {}
  OBVIOUS
<1>1. restore \in [Servers -> RestoreRecord] /\ restore[s] \in RestoreRecord /\ restore' # restore
  BY DEF IInv, TypeOK
<1>2. ASSUME NEW ok \in BOOLEAN, EndBackup(q, ok), Working(q) PROVE FALSE
  <2>1. restore'[s] # restore[s] => q = s /\ EndBeforeRestore(s, ok)
    BY <1>1, <1>2 DEF EndBackup, EndNormal, EndBeforeRestore, EndBeforeWipe, EndRestore
  <2> QED
    BY <1>2, <2>1 DEF EndBeforeRestore, IInv, ServerOK, LockOK
<1>3. CASE OpenArchive(q) \/ Copy(q) \/ Seal(q) \/ Prune(q)
  <2>1. \E ok \in BOOLEAN : EndBackup(q, ok)
    BY <1>1, <1>3 DEF OpenArchive, Copy, Seal, Prune, Stored, BackupFails
  <2> QED
    BY <1>2, <1>3, <2>1 DEF OpenArchive, Copy, Seal, Prune, Working
<1>4. CASE StartGame(q) \/ StopGame(q) \/ RequestBackup(q) \/ BackupLocks(q) \/ BackupGivesUp(q)
           \/ ListBackups(q) \/ RequestWipe(q) \/ Delete(q) \/ WipeEnds(q) \/ CreateTemp(q)
  BY <1>1, <1>4 DEF CreateTemp, StartGame, StartUnlocked, StopGame, RequestBackup, BackupLocks, BackupGivesUp,
              ListBackups, RequestWipe, Delete, WipeEnds
<1>5. CASE DeleteBackup(q)
  <2>1. restore'[s] \in {restore[s], [restore[s] EXCEPT !.meddled = TRUE]}
    BY <1>5 DEF DeleteBackup
  <2> QED
    BY <1>1, <2>1 DEF RestoreRecord
<1>6. CASE RequestRestore(q)
  BY <1>1, <1>6 DEF RequestRestore, RestoreInProgress
<1>7. ASSUME NEW clean \in BOOLEAN, RollBack(q, clean) PROVE FALSE
  BY <1>1, <1>7 DEF RollBack, RestoreRecord
<1>8. CASE Extract(q)
  BY <1>1, <1>8 DEF Extract, EndRestore
<1>9. CASE Retire(q)
  <2>1. \/ restore' = [restore EXCEPT ![q].pc = "place"]
        \/ \E X : restore' = [restore EXCEPT ![q].pc = "place", ![q].retired = @ \cup X]
    BY <1>7, <1>9 DEF Retire
  <2>2. CASE restore' = [restore EXCEPT ![q].pc = "place"]
    BY <1>1, <2>2 DEF RestoreRecord
  <2>3. CASE \E X : restore' = [restore EXCEPT ![q].pc = "place", ![q].retired = @ \cup X]
    BY <1>1, <2>3 DEF RestoreRecord
  <2> QED
    BY <2>1, <2>2, <2>3
<1>10. CASE Place(q)
  <2>1. AfterPlace(restore[q]) \in {"swap", "profile", "discard"}
    BY DEF AfterPlace
  <2>2. PICK X : restore' = [restore EXCEPT ![q].pc = AfterPlace(restore[q]),
                               ![q].todo = @ \ X, ![q].applied = @ \cup X]
    BY <1>7, <1>10 DEF Place
  <2> QED
    BY <1>1, <2>1, <2>2 DEF RestoreRecord
<1>11. CASE UpdateProfile(q) \/ Reload(q)
  <2>1. \/ restore' = [restore EXCEPT ![q].pc = "reload", ![q].updated = TRUE,
                            ![q].edited = @ \ {"profile"}]
        \/ restore' = [restore EXCEPT ![q].pc = "discard"]
    BY <1>7, <1>11 DEF UpdateProfile, Reload
  <2>2. CASE restore' = [restore EXCEPT ![q].pc = "reload", ![q].updated = TRUE,
                            ![q].edited = @ \ {"profile"}]
    BY <1>1, <2>2 DEF RestoreRecord
  <2>3. CASE restore' = [restore EXCEPT ![q].pc = "discard"]
    BY <1>1, <2>3 DEF RestoreRecord
  <2> QED
    BY <2>1, <2>2, <2>3
<1>12. CASE RestoreProfile(q) \/ Undo(q)
  <2>1. restore'[s].pc = restore[s].pc
    <3>1. CASE restore' = [restore EXCEPT ![q].updated = FALSE, ![q].edited = @ \ {"profile"}]
      BY <1>1, <3>1 DEF RestoreRecord
    <3>2. CASE restore' = [restore EXCEPT ![q].updated = FALSE, ![q].clean = FALSE]
      BY <1>1, <3>2 DEF RestoreRecord
    <3>3. CASE Undo(q)
      <4>1. PICK X : LET next == [restore EXCEPT ![q].applied = @ \ X]
                     IN restore' \in {next, [next EXCEPT ![q].clean = FALSE]}
        BY <3>3 DEF Undo
      <4> QED
        BY <1>1, <4>1 DEF RestoreRecord
    <3> QED
      BY <1>12, <3>1, <3>2, <3>3 DEF RestoreProfile
  <2> QED
    BY <2>1
<1>13. CASE RestoreFails(q)
  BY <1>1, <1>13 DEF RestoreFails, EndRestore
<1>14. CASE Discard(q)
  BY <1>1, <1>14 DEF Discard, EndRestore
<1>15. CASE EditIni(q)
  <2>1. restore'[s] \in {restore[s], EditedUnder(restore[s], tick')}
    BY <1>1, <1>15 DEF EditIni
  <2>2. EditedUnder(restore[s], tick').pc = restore[s].pc
    BY <1>1 DEF EditedUnder, RestoreRecord
  <2> QED
    BY <2>1, <2>2
<1>16. CASE EditProfile(q)
  BY <1>1, <1>16 DEF EditProfile, RestoreRecord
<1> QED
  BY <1>3, <1>4, <1>5, <1>6, <1>8, <1>9, <1>10, <1>11, <1>12, <1>13, <1>14, <1>15, <1>16 DEF Step

\* A restore that has failed has changed nothing, as far as it knows.
LEMMA FailedRestore ==
  ASSUME IInv, NEW s \in Servers, restore[s].clean,
         \/ restore[s].pc \in {"safety", "extract"}
         \/ restore[s].pc = "rollback" /\ ~restore[s].updated /\ restore[s].applied = {}
  PROVE  Undone(s)
<1> USE DEF Undone
<1>1. CASE restore[s].pc \in {"safety", "extract"}
  BY <1>1 DEF IInv, ServerOK, SafetyOK
<1>2. CASE restore[s].pc = "rollback" /\ ~restore[s].updated /\ restore[s].applied = {}
  <2>1. live[s] \in [Files -> Content] /\ restore[s].before \in [Files -> Content]
    BY <1>2, AtWork
  <2>2. SwapOK(s)
    BY DEF IInv, ServerOK
  <2>3. \A f \in Files : live[s][f] = restore[s].before[f]
    BY <1>2, <2>2 DEF SwapOK, InHand
  <2>4. profile[s] = restore[s].profile \/ "profile" \in restore[s].edited
    BY <1>2, <2>2 DEF SwapOK
  <2> QED
    BY <2>1, <2>3, <2>4
<1> QED
  BY <1>1, <1>2

\* A restore that has succeeded has replaced everything.
LEMMA CompleteRestore ==
  ASSUME IInv, NEW s \in Servers, restore[s].pc = "discard",
         restore[s].source.files["db"] = Absent => restore[s].source.files["wal"] = Absent
  PROVE  Complete(s)
<1> DEFINE r == restore[s]
           R == Replacements(r.source, r.before)
<1>1. Replacing(s) /\ Sane(r.source) /\ ProgressOK(s) /\ SwapOK(s)
  BY AtWork DEF Replacing
<1>2. r.applied = R /\ r.clean /\ (r.source.full => r.updated /\ r.source.files["ini"] # Absent)
  BY <1>1 DEF ProgressOK
<1>3. \A f \in Files : \/ live[s][f] = (IF f \in R THEN r.source.files[f] ELSE r.before[f])
                        \/ (f = "ini" /\ "ini" \in r.edited)
  <2>1. \A f \in r.applied : live[s][f] = r.source.files[f] \/ (f = "ini" /\ "ini" \in r.edited)
    BY <1>1 DEF SwapOK
  <2>2. \A f \in Files \ r.applied : live[s][f] = r.before[f]
    BY <1>1, <1>2 DEF SwapOK, InHand
  <2> QED
    BY <1>2, <2>1, <2>2
<1>4. r.source.full => profile[s] = r.source.profile \/ "profile" \in r.edited
  BY <1>1, <1>2 DEF SwapOK
<1>5. CASE r.source.full
  <2>1. "world" \in R /\ "ini" \in R
    BY <1>1, <1>2, <1>5 DEF Replacements, Sane, Files
  <2>2. "db" \in R <=> r.source.files["db"] # Absent
    BY <1>5 DEF Replacements, StaleJournal, Files
  <2>3. "wal" \in R <=> \/ r.source.files["wal"] # Absent
                        \/ r.source.files["db"] # Absent /\ r.before["wal"] # Absent
    BY <1>5 DEF Replacements, StaleJournal, Files
  <2> QED
    BY <1>3, <1>4, <1>5, <2>1, <2>2, <2>3 DEF Complete, Files
<1>6. CASE ~r.source.full
  <2>1. R = {"world"}
    BY <1>6 DEF Replacements
  <2> QED
    BY <1>3, <1>6, <2>1 DEF Complete, Files
<1> QED
  BY <1>5, <1>6

\* A restore replaces everything it should or, unless its rollback noticed a
\* failure, nothing; the player database keeps its own journal.
THEOREM AllOrNone == Spec => AllOrNothing
<1> DEFINE A == \A s \in Servers :
                  LET r == restore[s]
                  IN /\ r.pc # "idle" /\ restore'[s].pc = "idle" /\ ~Crash
                     /\ r.source.whole /\ (r.source.files["db"] = Absent => r.source.files["wal"] = Absent)
                     => IF r.pc = "discard" THEN Complete(s) ELSE r.clean => Undone(s)
<1>1. ASSUME IInv, Next, NEW s \in Servers, restore[s].pc # "idle", restore'[s].pc = "idle",
             ~Crash, restore[s].source.files["db"] = Absent => restore[s].source.files["wal"] = Absent
      PROVE  IF restore[s].pc = "discard" THEN Complete(s)
             ELSE restore[s].clean => Undone(s)
  <2>1. PICK q \in Servers : Step(q)
    BY <1>1 DEF Next
  <2>2. \/ restore[s].pc \in {"safety", "extract", "discard"}
        \/ restore[s].pc = "rollback" /\ ~restore[s].updated /\ restore[s].applied = {}
    BY <1>1, <2>1, WaysToEnd
  <2>3. CASE restore[s].pc = "discard"
    BY <1>1, <2>3, CompleteRestore
  <2>4. CASE restore[s].pc # "discard"
    BY <1>1, <2>2, <2>4, FailedRestore
  <2> QED
    BY <2>3, <2>4
<1>2. IInv /\ Next => A
  BY <1>1
<1> HIDE DEF A
<1>3. IInv /\ [Next]_vars => [A]_vars
  BY <1>2
<1>4. Spec => [][A]_vars
  BY <1>3, AlwaysInv, PTL DEF Spec
<1> QED
  BY <1>4 DEF A, AllOrNothing
=============================================================================
