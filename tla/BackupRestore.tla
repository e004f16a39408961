---------------------------- MODULE BackupRestore ----------------------------
(***************************************************************************)
(* services/backupService.ts with the routes that call it: backups of       *)
(* servers that may share one data folder (and so one backups folder),     *)
(* their retention, the restore with its safety copy, swap and rollback,   *)
(* and the wipe of routes/server.ts.                                       *)
(*                                                                         *)
(*   - What a backup stores of a server, and a restore replaces, is the    *)
(*     world, the configuration, the player database and its journal, and  *)
(*     the profile row.  A content is a number; its owner gives it a new    *)
(*     one whenever the game has been running.                             *)
(*   - One action is everything between two awaits, or, where a crash or a *)
(*     failing call may leave things half done, one file operation.  While *)
(*     a restore swaps or a wipe deletes, nothing awaits: see Quiet.       *)
(*   - Settings edits take no lifecycle lock: the ini and the profile row  *)
(*     may change at any await of a backup, a restore or a wipe.           *)
(*   - A run of maintenance around a backup (ServerMaintenance) appears as *)
(*     its steps: lock, stop, work, start, release.                        *)
(* Left out: zip and checksums (extraction succeeds or not), backup        *)
(* records, progress events, and whatever happens outside the panel.       *)
(***************************************************************************)
EXTENDS Naturals, FiniteSets

CONSTANTS
  Servers,     \* servers whose backups share a folder
  Asked,       \* the requests considered for each server
  MaxBackups,  \* settings.maxBackups
  MaxTick,     \* bound on archives and contents ever made
  MaxDeletions, \* bound on the archives that operators delete
  MaxWipes,    \* bound on wipes
  MaxMishaps,  \* bound on crashes and failing file operations
  Nobody,      \* the owner of an archive that was uploaded
  Absent,      \* content: no such file
  InUse,       \* content: the running game is writing it
  Emptied,     \* content: a save folder after a wipe
  Gaps         \* content: a world without some of its files

Requests == {"start", "backup", "restore", "wipe", "delete", "edit"}
ASSUME BackupAssumption ==
  /\ Nobody \notin Servers
  /\ Asked \in [Servers -> SUBSET Requests]
  /\ MaxBackups \in Nat \ {0}
  /\ MaxTick \in Nat /\ MaxMishaps \in Nat /\ MaxDeletions \in Nat /\ MaxWipes \in Nat

ASSUME ContentAssumption ==
  /\ Absent \notin {InUse, Emptied, Gaps}
  /\ InUse \notin {Emptied, Gaps}
  /\ Emptied # Gaps
  /\ {Absent, InUse, Emptied, Gaps} \cap Nat = {}

Files == {"world", "ini", "db", "wal"}   \* wal: the -wal, -shm and -journal files
Content == Nat \cup {Absent, InUse, Emptied, Gaps}

\* The order in which files are copied, replaced and deleted.
Rank == [f \in Files |-> CASE f = "world" -> 1 [] f = "ini" -> 2 [] f = "db" -> 3 [] f = "wal" -> 4]
First(S) == CHOOSE f \in S : \A g \in S : Rank[f] <= Rank[g]
Latest(S) == CHOOSE f \in S : \A g \in S : Rank[g] <= Rank[f]

\* An archive; full: with configuration and profile.  whole: nothing skipped.
Archive == [id: Nat, of: Servers \cup {Nobody}, full: BOOLEAN, whole: BOOLEAN,
            files: [Files -> Content], profile: Nat]

VARIABLES
  game,      \* is the game of a server running?
  live,      \* the files in place
  profile,   \* the profile row of each server
  retired,   \* the files named *.replaced-*
  dir,       \* the archives in the backups folder
  temps,     \* the ids of *.zip.tmp files in it
  lock,      \* lifecycle lock of each server
  backup,    \* createBackup of each server; backupInProgress is pc # "idle"
  restore,   \* restoreBackup of each server; restoreInProgress is pc # "idle"
  wipe,      \* POST /wipe of each server
  tick, mishaps,
  deletions, \* archives that operators have deleted
  wipes      \* wipes so far

gameVars == <<game, live>>
vars == <<game, live, profile, retired, dir, temps, lock, backup, restore, wipe,
          tick, mishaps, deletions, wipes>>

NoFiles == [f \in Files |-> Absent]
NoArchive == [id |-> 0, of |-> Nobody, full |-> FALSE, whole |-> FALSE,
              files |-> NoFiles, profile |-> 0]
NoBackup == [pc |-> "idle", kind |-> "backup", id |-> 0, todo |-> {}, files |-> NoFiles,
             profile |-> 0, stale |-> FALSE, whole |-> TRUE, revive |-> FALSE, doomed |-> {}]
NoRestore == [pc |-> "idle", source |-> NoArchive, todo |-> {}, applied |-> {},
              retired |-> {}, before |-> NoFiles, profile |-> 0, updated |-> FALSE,
              safety |-> 0, clean |-> TRUE, meddled |-> FALSE, stale |-> FALSE, edited |-> {}]
NoWipe == [pc |-> "idle", todo |-> {}, before |-> NoFiles, safety |-> 0,
           meddled |-> FALSE]

\* Of a backup, stale: the ini was edited after it had been stored.  Of a
\* restore, stale: so was the ini in its safety copy; edited: what was edited
\* that the restore had read, or put in place.
Kinds == {"backup", "restore", "wipe"}   \* what a backup is made for
BackupRecord ==
  [pc: {"idle", "wait", "open", "count", "copy", "seal", "list", "prune"}, kind: Kinds,
   id: Nat, todo: SUBSET Files, files: [Files -> Content], profile: Nat, stale: BOOLEAN,
   whole: BOOLEAN, revive: BOOLEAN, doomed: SUBSET Archive]
RestoreRecord ==
  [pc: {"idle", "safety", "extract", "swap", "place", "profile", "reload", "rollback",
        "discard"},
   source: Archive, todo: SUBSET Files, applied: SUBSET Files,
   retired: SUBSET (Files \X Content), before: [Files -> Content], profile: Nat,
   updated: BOOLEAN, safety: Nat, clean: BOOLEAN, meddled: BOOLEAN, stale: BOOLEAN,
   edited: SUBSET {"ini", "profile"}]
WipeRecord ==
  [pc: {"idle", "safety", "delete"}, todo: SUBSET Files, before: [Files -> Content],
   safety: Nat, meddled: BOOLEAN]

TypeOK ==
  /\ game \in [Servers -> BOOLEAN]
  /\ live \in [Servers -> [Files -> Content]]
  /\ profile \in [Servers -> Nat]
  /\ retired \in [Servers -> SUBSET (Files \X Content)]
  /\ dir \subseteq Archive /\ IsFiniteSet(dir)
  /\ temps \subseteq Nat
  /\ lock \in [Servers -> Kinds \cup {"free"}]
  /\ backup \in [Servers -> BackupRecord]
  /\ restore \in [Servers -> RestoreRecord]
  /\ wipe \in [Servers -> WipeRecord]
  /\ tick \in Nat /\ mishaps \in Nat /\ deletions \in Nat /\ wipes \in Nat

\* Every server has been played; somebody has uploaded an old world.
Init ==
  /\ game = [s \in Servers |-> FALSE]
  /\ live = [s \in Servers |-> [f \in Files |-> IF f = "wal" THEN Absent ELSE 1]]
  /\ profile = [s \in Servers |-> 1]
  /\ retired = [s \in Servers |-> {}]
  /\ \E full \in BOOLEAN :
       dir = {[NoArchive EXCEPT !.id = 1, !.full = full, !.whole = TRUE, !.files = [f \in Files |->
                 IF f = "world" \/ (full /\ f # "wal") THEN 0 ELSE Absent]]}
  /\ temps = {}
  /\ lock = [s \in Servers |-> "free"]
  /\ backup = [s \in Servers |-> NoBackup]
  /\ restore = [s \in Servers |-> NoRestore]
  /\ wipe = [s \in Servers |-> NoWipe]
  /\ tick = 1
  /\ mishaps = 0
  /\ deletions = 0 /\ wipes = 0

Busy == \E s \in Servers : \/ restore[s].pc \in {"swap", "place", "profile", "rollback", "discard"}
                           \/ wipe[s].pc = "delete"
\* Code that does not await leaves nobody else a turn.
Quiet == ~Busy

Mishap == mishaps < MaxMishaps /\ mishaps' = mishaps + 1
Fine == UNCHANGED mishaps

-----------------------------------------------------------------------------
(* The game.                                                               *)

\* The game is on: it writes the world and the player database.
Playing(l) == [l EXCEPT !["world"] = InUse, !["db"] = InUse]
\* It is off, after a clean shutdown (no journal) or not.
Played(l, g, wal) == [l EXCEPT !["world"] = g, !["db"] = g, !["wal"] = wal]

\* Mutant of StartGame: the start does not take the lock.
StartUnlocked(s) ==
  /\ Quiet /\ "start" \in Asked[s] /\ ~game[s]
  /\ game' = [game EXCEPT ![s] = TRUE]
  /\ live' = [live EXCEPT ![s] = Playing(@)]
  /\ UNCHANGED <<profile, retired, dir, temps, lock, backup, restore, wipe, tick, mishaps, deletions, wipes>>

StartGame(s) == lock[s] = "free" /\ StartUnlocked(s)

\* Somebody stops it, or it crashes.
StopGame(s) ==
  /\ Quiet /\ game[s] /\ tick < MaxTick
  /\ tick' = tick + 1
  /\ game' = [game EXCEPT ![s] = FALSE]
  /\ \E wal \in {tick', Absent} : live' = [live EXCEPT ![s] = Played(@, tick', wal)]
  /\ UNCHANGED <<profile, retired, dir, temps, lock, backup, restore, wipe, mishaps, deletions, wipes>>

-----------------------------------------------------------------------------
(* Settings edits.                                                         *)

\* What an edit of the ini means for a restore: before the swap, it is what
\* the swap will find; after it, it is on top of what was restored.
EditedUnder(r, c) ==
  IF r.pc \in {"safety", "extract"}
    THEN [r EXCEPT !.before["ini"] = c, !.stale = r.pc = "extract"]
    ELSE IF r.pc = "idle" THEN r ELSE [r EXCEPT !.edited = @ \cup {"ini"}]

\* A request of serverFiles.ts or mods.ts writes the ini, or creates it.  It
\* asks at most whether the game is running, never for the lifecycle lock.
EditIni(s) ==
  /\ Quiet /\ "edit" \in Asked[s] /\ tick < MaxTick
  /\ tick' = tick + 1
  /\ live' = [live EXCEPT ![s]["ini"] = tick']
  /\ backup' = [backup EXCEPT ![s].stale =
        @ \/ (backup[s].pc \in {"copy", "seal"} /\ "ini" \notin backup[s].todo)]
  /\ restore' = [restore EXCEPT ![s] = EditedUnder(@, tick')]
  /\ UNCHANGED <<game, profile, retired, dir, temps, lock, wipe, mishaps, deletions, wipes>>

\* PUT /servers/:id writes the profile row.
EditProfile(s) ==
  /\ Quiet /\ "edit" \in Asked[s] /\ tick < MaxTick
  /\ tick' = tick + 1
  /\ profile' = [profile EXCEPT ![s] = tick']
  /\ restore' = [restore EXCEPT ![s].edited = IF restore[s].pc = "idle" THEN @ ELSE @ \cup {"profile"}]
  /\ UNCHANGED <<gameVars, retired, dir, temps, lock, backup, wipe, mishaps, deletions, wipes>>

-----------------------------------------------------------------------------
(* Backups.                                                                *)

BackupInProgress(s) == backup[s].pc # "idle"
RestoreInProgress(s) == restore[s].pc # "idle"

\* POST /create or the schedule, which reads the profile row; then the run
\* waits for players and the lock.
RequestBackup(s) ==
  /\ Quiet /\ "backup" \in Asked[s]
  /\ ~BackupInProgress(s) /\ ~RestoreInProgress(s)
  /\ backup' = [backup EXCEPT ![s] = [NoBackup EXCEPT !.pc = "wait", !.profile = profile[s]]]
  /\ UNCHANGED <<gameVars, profile, retired, dir, temps, lock, restore, wipe, tick, mishaps, deletions, wipes>>

\* The run has the lock and the game is down.
BackupLocks(s) ==
  /\ Quiet /\ backup[s].pc = "wait"
  /\ lock[s] = "free"
  /\ lock' = [lock EXCEPT ![s] = "backup"]
  /\ backup' = [backup EXCEPT ![s] = [@ EXCEPT !.pc = "open", !.revive = game[s]]]
  /\ \/ ~game[s] /\ UNCHANGED <<gameVars, tick>>
     \/ /\ game[s] /\ tick < MaxTick
        /\ tick' = tick + 1
        /\ game' = [game EXCEPT ![s] = FALSE]
        /\ live' = [live EXCEPT ![s] = Played(@, tick', Absent)]
  /\ UNCHANGED <<profile, retired, dir, temps, restore, wipe, mishaps, deletions, wipes>>

\* The players do not leave, or another operation has the lock.
BackupGivesUp(s) ==
  /\ Quiet /\ backup[s].pc = "wait"
  /\ backup' = [backup EXCEPT ![s] = NoBackup]
  /\ UNCHANGED <<gameVars, profile, retired, dir, temps, lock, restore, wipe, tick, mishaps, deletions, wipes>>

\* End of createBackup: the maintenance run starts the game again, if it can,
\* and frees the lock; a restore goes on, or not; a wipe likewise.
EndRestore(s) ==
  /\ restore' = [restore EXCEPT ![s] = NoRestore]
  /\ lock' = [lock EXCEPT ![s] = "free"]
EndWipe(s) ==
  /\ wipe' = [wipe EXCEPT ![s] = NoWipe]
  /\ lock' = [lock EXCEPT ![s] = "free"]

EndNormal(s) ==
  /\ backup[s].kind = "backup"
  /\ lock' = [lock EXCEPT ![s] = "free"]
  /\ UNCHANGED <<restore, wipe>>
  /\ \/ UNCHANGED gameVars
     \/ /\ backup[s].revive
        /\ game' = [game EXCEPT ![s] = TRUE]
        /\ live' = [live EXCEPT ![s] = Playing(@)]

\* Mutant of EndBeforeRestore: an incomplete safety copy is good enough.
EndBeforeRestoreAnyhow(s, ok) ==
  /\ backup[s].kind = "restore"
  /\ UNCHANGED <<wipe, gameVars>>
  /\ IF ok
       THEN /\ restore' = [restore EXCEPT ![s].pc = "extract", ![s].safety = backup[s].id,
                                         ![s].stale = backup[s].stale]
            /\ UNCHANGED lock
       ELSE EndRestore(s)

EndBeforeRestore(s, ok) ==
  /\ backup[s].kind = "restore"
  /\ UNCHANGED <<wipe, gameVars>>
  /\ IF ok /\ backup[s].whole
       THEN /\ restore' = [restore EXCEPT ![s].pc = "extract", ![s].safety = backup[s].id,
                                         ![s].stale = backup[s].stale]
            /\ UNCHANGED lock
       ELSE EndRestore(s)

EndBeforeWipe(s, ok) ==
  /\ backup[s].kind = "wipe"
  /\ UNCHANGED <<restore, gameVars>>
  /\ IF ok /\ backup[s].whole
       THEN /\ wipe' = [wipe EXCEPT ![s].pc = "delete", ![s].safety = backup[s].id]
            /\ UNCHANGED lock
       ELSE EndWipe(s)

EndBackup(s, ok) ==
  /\ backup' = [backup EXCEPT ![s] = NoBackup]
  /\ EndNormal(s) \/ EndBeforeRestore(s, ok) \/ EndBeforeWipe(s, ok)

BackupFails(s) == EndBackup(s, FALSE)

\* _doCreateBackup up to the count of the files: it lists what it will store;
\* leftovers of crashed backups are removed, and with them the temporary file
\* of any backup under way in the folder.
OpenArchive(s) ==
  /\ Quiet /\ backup[s].pc = "open"
  /\ UNCHANGED <<profile, retired, dir, mishaps, deletions, wipes>>
  /\ \/ /\ live[s]["world"] = Absent \/ live[s]["ini"] = Absent
        /\ BackupFails(s)
        /\ UNCHANGED <<temps, tick>>
     \/ /\ live[s]["world"] # Absent /\ live[s]["ini"] # Absent
        /\ tick < MaxTick
        /\ tick' = tick + 1
        /\ temps' = {}
        /\ backup' = [backup EXCEPT ![s].pc = "count", ![s].id = tick',
                        ![s].todo = {f \in Files : live[s][f] # Absent}]
        /\ UNCHANGED <<gameVars, lock, restore, wipe>>

\* The files are counted: the temporary file is created.
CreateTemp(s) ==
  /\ Quiet /\ backup[s].pc = "count"
  /\ temps' = temps \cup {backup[s].id}
  /\ backup' = [backup EXCEPT ![s].pc = "copy"]
  /\ UNCHANGED <<gameVars, profile, retired, dir, lock, restore, wipe, tick, mishaps, deletions, wipes>>

\* What is stored of a file: itself; of a world a part, if a folder in it
\* cannot be opened; nothing, or a part, of what has vanished, and noted so.
Stored(s, f, content, noted) ==
  /\ backup' = [backup EXCEPT ![s].todo = @ \ {f}, ![s].files[f] = content,
                  ![s].whole = @ /\ ~noted,
                  ![s].pc = IF backup[s].todo = {f} THEN "seal" ELSE "copy"]
  /\ UNCHANGED <<gameVars, lock, restore, wipe, temps>>

Copy(s) ==
  /\ Quiet /\ backup[s].pc = "copy"
  /\ UNCHANGED <<profile, retired, dir, tick, deletions, wipes>>
  /\ LET f == First(backup[s].todo)
     IN \/ live[s][f] # Absent /\ Stored(s, f, live[s][f], FALSE) /\ Fine
        \/ Mishap /\ f = "world" /\ \E noted \in BOOLEAN : Stored(s, f, Gaps, noted)
        \/ Mishap /\ f # "world" /\ Stored(s, f, Absent, TRUE)
        \/ Mishap /\ temps' = temps \ {backup[s].id} /\ BackupFails(s)

\* Mutant of Retires: a safety copy is followed by the retention as well.
RetiresAlways(s) == TRUE

\* Retention follows a backup, but not a safety copy.
Retires(s) == backup[s].kind = "backup"

\* The archive is closed: it gets its name, unless it is gone.
Seal(s) ==
  /\ Quiet /\ backup[s].pc = "seal"
  /\ UNCHANGED <<profile, retired, tick, deletions, wipes>>
  /\ LET b == backup[s]
         a == [id |-> b.id, of |-> s, full |-> TRUE, whole |-> b.whole, files |-> b.files,
               profile |-> b.profile]
     IN \/ /\ BackupFails(s) /\ UNCHANGED <<dir, temps>>
           /\ (b.id \notin temps /\ Fine) \/ Mishap
        \/ /\ b.id \in temps
           /\ temps' = temps \ {b.id}
           /\ dir' = dir \cup {a}
           /\ Fine
           /\ IF Retires(s)
                THEN /\ backup' = [backup EXCEPT ![s].pc = "list"]
                     /\ UNCHANGED <<gameVars, lock, restore, wipe>>
                ELSE EndBackup(s, TRUE)

\* Mutant of Prunable: every archive in the folder.
PrunableAll(s) == dir

\* cleanupOldBackups looks at the archives with this server's prefix.
Prunable(s) == {a \in dir : a.of = s}

\* Newer than a in a set.
Newer(a, S) == {b \in S : b.id > a.id}

ListBackups(s) ==
  /\ Quiet /\ backup[s].pc = "list"
  /\ backup' = [backup EXCEPT ![s].pc = "prune", ![s].doomed =
        {a \in Prunable(s) : Cardinality(Newer(a, Prunable(s))) >= MaxBackups}]
  /\ UNCHANGED <<gameVars, profile, retired, dir, temps, lock, restore, wipe, tick, mishaps, deletions, wipes>>

\* deleteBackup of each; one that fails stays.
Prune(s) ==
  /\ Quiet /\ backup[s].pc = "prune"
  /\ \/ dir' = dir \ backup[s].doomed /\ Fine
     \/ Mishap /\ \E kept \in backup[s].doomed : dir' = dir \ (backup[s].doomed \ {kept})
  /\ EndBackup(s, TRUE)
  /\ UNCHANGED <<profile, retired, temps, tick, deletions, wipes>>

\* An operator deletes an archive, or every one of some age, one after the
\* other; nothing stands in the way.
DeleteBackup(s) ==
  /\ Quiet /\ "delete" \in Asked[s] /\ deletions < MaxDeletions
  /\ deletions' = deletions + 1
  /\ \E a \in dir :
       /\ dir' = dir \ {a}
       /\ restore' = [r \in Servers |-> IF a.id \in {restore[r].safety, restore[r].source.id}
                         THEN [restore[r] EXCEPT !.meddled = TRUE] ELSE restore[r]]
       /\ wipe' = [r \in Servers |-> IF a.id = wipe[r].safety
                         THEN [wipe[r] EXCEPT !.meddled = TRUE] ELSE wipe[r]]
  /\ UNCHANGED <<gameVars, profile, retired, temps, lock, backup, tick, mishaps, wipes>>

-----------------------------------------------------------------------------
(* Restore.                                                                *)

\* POST /restore and the beginning of restoreBackup: lock, flags, game down,
\* archive there.  Without a world there is nothing to save first.
RequestRestore(s) ==
  /\ Quiet /\ "restore" \in Asked[s]
  /\ lock[s] = "free" /\ ~game[s]
  /\ ~RestoreInProgress(s) /\ ~BackupInProgress(s)
  /\ lock' = [lock EXCEPT ![s] = "restore"]
  /\ \E a \in dir :
       restore' = [restore EXCEPT ![s] = [NoRestore EXCEPT !.source = a, !.before = live[s],
          !.profile = profile[s], !.pc = IF live[s]["world"] = Absent THEN "extract" ELSE "safety"]]
  /\ backup' = [backup EXCEPT ![s] = IF live[s]["world"] = Absent THEN @
                                     ELSE [NoBackup EXCEPT !.pc = "open", !.kind = "restore",
                                                           !.profile = profile[s]]]
  /\ UNCHANGED <<gameVars, profile, retired, dir, temps, wipe, tick, mishaps, deletions, wipes>>

\* Mutant of StaleJournal: journals of the old database are left in place.
NoStaleJournal(a, l) == {}

\* Journals of a database that is replaced, when the archive has none.
StaleJournal(a, l) ==
  IF a.files["db"] # Absent /\ a.files["wal"] = Absent /\ l["wal"] # Absent
    THEN {"wal"} ELSE {}

Replacements(a, l) ==
  IF a.full
    THEN {f \in Files : a.files[f] # Absent} \cup StaleJournal(a, l)
    ELSE {"world"}

\* Extraction and verification, and the list of what to replace.
Extract(s) ==
  /\ Quiet /\ restore[s].pc = "extract"
  /\ UNCHANGED <<gameVars, profile, retired, dir, temps, backup, wipe, tick, deletions, wipes>>
  /\ LET a == restore[s].source
     IN \/ /\ a \in dir
           /\ a.full => a.files["ini"] # Absent
           /\ restore' = [restore EXCEPT ![s].pc = "swap", ![s].todo = Replacements(a, live[s])]
           /\ UNCHANGED lock
           /\ Fine
        \/ /\ EndRestore(s)
           /\ ((a \in dir => a.full /\ a.files["ini"] = Absent) /\ Fine) \/ Mishap

RollBack(s, clean) ==
  restore' = [restore EXCEPT ![s].pc = "rollback", ![s].clean = @ /\ clean]

\* The file in place is renamed away.
Retire(s) ==
  /\ restore[s].pc = "swap"
  /\ UNCHANGED <<game, profile, dir, temps, lock, backup, wipe, tick, deletions, wipes>>
  /\ LET f == First(restore[s].todo)
         old == <<f, live[s][f]>>
     IN \/ /\ live[s][f] = Absent
           /\ restore' = [restore EXCEPT ![s].pc = "place"]
           /\ UNCHANGED <<live, retired>>
           /\ Fine
        \/ /\ live[s][f] # Absent
           /\ retired' = [retired EXCEPT ![s] = @ \cup {old}]
           /\ live' = [live EXCEPT ![s][f] = Absent]
           /\ restore' = [restore EXCEPT ![s].pc = "place", ![s].retired = @ \cup {old}]
           /\ Fine
        \/ Mishap /\ RollBack(s, TRUE) /\ UNCHANGED <<live, retired>>

\* Mutant of PutBack: the retired file is removed.
PutBackNothing(s, f) ==
  /\ retired' = [retired EXCEPT ![s] = @ \ {<<f, restore[s].before[f]>>}]
  /\ UNCHANGED live

\* The retired file gets its name back, if there is one.
PutBack(s, f) ==
  LET old == <<f, restore[s].before[f]>>
  IN IF old \in restore[s].retired
       THEN /\ live' = [live EXCEPT ![s][f] = old[2]]
            /\ retired' = [retired EXCEPT ![s] = @ \ {old}]
       ELSE live' = [live EXCEPT ![s][f] = Absent] /\ UNCHANGED retired

\* The last file is followed by the profile, if the archive has one.
AfterPlace(r) == IF r.todo \ {First(r.todo)} # {} THEN "swap" ELSE IF r.source.full THEN "profile" ELSE "discard"

\* The staged file takes the place; if it cannot, the old one comes back, and
\* if that fails too it stays under its retired name.
Place(s) ==
  /\ restore[s].pc = "place"
  /\ UNCHANGED <<game, profile, dir, temps, lock, backup, wipe, tick, deletions, wipes>>
  /\ LET f == First(restore[s].todo)
     IN \/ /\ live' = [live EXCEPT ![s][f] = restore[s].source.files[f]]
           /\ restore' = [restore EXCEPT ![s].pc = AfterPlace(restore[s]), ![s].todo = @ \ {f},
                            ![s].applied = @ \cup {f}]
           /\ UNCHANGED retired
           /\ Fine
        \/ /\ restore[s].source.files[f] # Absent
           /\ Mishap
           /\ \/ RollBack(s, TRUE) /\ PutBack(s, f)
              \/ RollBack(s, FALSE) /\ UNCHANGED <<live, retired>>

UpdateProfile(s) ==
  /\ restore[s].pc = "profile"
  /\ UNCHANGED <<gameVars, retired, dir, temps, lock, backup, wipe, tick, deletions, wipes>>
  /\ \/ /\ profile' = [profile EXCEPT ![s] = restore[s].source.profile]
        /\ restore' = [restore EXCEPT ![s].pc = "reload", ![s].updated = TRUE,
                          ![s].edited = @ \ {"profile"}]
        /\ Fine
     \/ Mishap /\ RollBack(s, TRUE) /\ UNCHANGED profile

\* Panel settings, serverManager.reloadConfig and rcon.reloadConfig.
Reload(s) ==
  /\ Quiet /\ restore[s].pc = "reload"
  /\ UNCHANGED <<gameVars, profile, retired, dir, temps, lock, backup, wipe, tick, deletions, wipes>>
  /\ \/ restore' = [restore EXCEPT ![s].pc = "discard"] /\ Fine
     \/ Mishap /\ RollBack(s, TRUE)

\* The rollback: first the profile ...  What has failed once may go on failing,
\* so that failures in here do not count as mishaps.
RestoreProfile(s) ==
  /\ restore[s].pc = "rollback" /\ restore[s].updated
  /\ UNCHANGED <<gameVars, retired, dir, temps, lock, backup, wipe, tick, mishaps, deletions, wipes>>
  /\ \/ /\ profile' = [profile EXCEPT ![s] = restore[s].profile]
        /\ restore' = [restore EXCEPT ![s].updated = FALSE, ![s].edited = @ \ {"profile"}]
     \/ /\ restore' = [restore EXCEPT ![s].updated = FALSE, ![s].clean = FALSE]
        /\ UNCHANGED profile

\* ... then the files, the last one first: remove, rename.  A failure of
\* either is logged and the next file follows.
Undo(s) ==
  /\ restore[s].pc = "rollback" /\ ~restore[s].updated /\ restore[s].applied # {}
  /\ UNCHANGED <<game, profile, dir, temps, lock, backup, wipe, tick, mishaps, deletions, wipes>>
  /\ LET f == Latest(restore[s].applied)
         next == [restore EXCEPT ![s].applied = @ \ {f}]
     IN \/ PutBack(s, f) /\ restore' = next
        \/ /\ restore' = [next EXCEPT ![s].clean = FALSE]
           /\ UNCHANGED retired
           /\ \E kept \in {Absent, live[s][f]} : live' = [live EXCEPT ![s][f] = kept]

RestoreFails(s) ==
  /\ restore[s].pc = "rollback" /\ ~restore[s].updated /\ restore[s].applied = {}
  /\ EndRestore(s)
  /\ UNCHANGED <<gameVars, profile, retired, dir, temps, backup, wipe, tick, mishaps, deletions, wipes>>

\* Success: the retired files are removed, as far as possible.
Discard(s) ==
  /\ restore[s].pc = "discard"
  /\ EndRestore(s)
  /\ \/ retired' = [retired EXCEPT ![s] = @ \ restore[s].retired] /\ Fine
     \/ Mishap /\ UNCHANGED retired
  /\ UNCHANGED <<gameVars, profile, dir, temps, backup, wipe, tick, deletions, wipes>>

-----------------------------------------------------------------------------
(* Wipe, crash, next-state relation.                                       *)

\* POST /wipe, with or without a backup: lock and game down.  A backup that is
\* waiting for its turn makes createBackup refuse, and the wipe with it.
RequestWipe(s) ==
  /\ Quiet /\ "wipe" \in Asked[s] /\ wipes < MaxWipes
  /\ wipes' = wipes + 1
  /\ \A r \in Servers : wipe[r].pc = "idle"
  /\ lock[s] = "free" /\ ~game[s] /\ live[s]["world"] # Absent
  /\ lock' = [lock EXCEPT ![s] = "wipe"]
  /\ \E scope \in {{"world"}, {"db", "wal"}, {"world", "db", "wal"}} :
       LET w == [NoWipe EXCEPT !.before = live[s], !.todo =
                   {f \in scope : live[s][f] # Absent}]
       IN \/ /\ wipe' = [wipe EXCEPT ![s] = [w EXCEPT !.pc = "delete"]]
             /\ UNCHANGED backup
          \/ /\ ~BackupInProgress(s)
             /\ wipe' = [wipe EXCEPT ![s] = [w EXCEPT !.pc = "safety"]]
             /\ backup' = [backup EXCEPT ![s] = [NoBackup EXCEPT !.pc = "open", !.kind = "wipe",
                                                               !.profile = profile[s]]]
  /\ UNCHANGED <<gameVars, profile, retired, dir, temps, restore, tick, mishaps, deletions>>

\* One file, or the world in place, is deleted; a failure ends the wipe.
Delete(s) ==
  /\ wipe[s].pc = "delete" /\ wipe[s].todo # {}
  /\ UNCHANGED <<game, profile, retired, dir, temps, backup, restore, tick, deletions, wipes>>
  /\ LET f == First(wipe[s].todo)
     IN \/ /\ live' = [live EXCEPT ![s][f] = IF f = "world" THEN Emptied ELSE Absent]
           /\ wipe' = [wipe EXCEPT ![s].todo = @ \ {f}]
           /\ UNCHANGED lock
           /\ Fine
        \/ /\ Mishap
           /\ EndWipe(s)
           /\ live' = [live EXCEPT ![s][f] = IF f = "world" THEN Gaps ELSE @]

WipeEnds(s) ==
  /\ wipe[s].pc = "delete" /\ wipe[s].todo = {}
  /\ EndWipe(s)
  /\ UNCHANGED <<gameVars, profile, retired, dir, temps, backup, restore, tick, mishaps, deletions, wipes>>

\* The panel dies, at any point, and starts again; the game lives on.
Crash ==
  /\ Mishap
  /\ \E s \in Servers : lock[s] # "free" \/ BackupInProgress(s)
  /\ lock' = [s \in Servers |-> "free"]
  /\ backup' = [s \in Servers |-> NoBackup]
  /\ restore' = [s \in Servers |-> NoRestore]
  /\ wipe' = [s \in Servers |-> NoWipe]
  /\ UNCHANGED <<gameVars, profile, retired, dir, temps, tick, deletions, wipes>>

Step(s) ==
  \/ StartGame(s) \/ StopGame(s) \/ EditIni(s) \/ EditProfile(s)
  \/ RequestBackup(s) \/ BackupLocks(s) \/ BackupGivesUp(s)
  \/ OpenArchive(s) \/ CreateTemp(s) \/ Copy(s) \/ Seal(s) \/ ListBackups(s) \/ Prune(s) \/ DeleteBackup(s)
  \/ RequestRestore(s) \/ Extract(s) \/ Retire(s) \/ Place(s)
  \/ UpdateProfile(s) \/ Reload(s) \/ RestoreProfile(s) \/ Undo(s) \/ RestoreFails(s)
  \/ Discard(s)
  \/ RequestWipe(s) \/ Delete(s) \/ WipeEnds(s)

Next == Crash \/ \E s \in Servers : Step(s)
Spec == Init /\ [][Next]_vars

-----------------------------------------------------------------------------
(* Properties.                                                             *)

\* What a backup has stored of a server is what is on disk, and no game is
\* writing it: no start, wipe or restore changes a file while it is copied.
\* The ini alone may be older: a settings edit may come after it was stored.
ArchivesAreOneState ==
  \A s \in Servers, f \in Files :
    backup[s].pc \in {"copy", "seal"} /\ f \notin backup[s].todo =>
      \/ ~backup[s].whole
      \/ live[s][f] # InUse /\ backup[s].files[f] \in {live[s][f], Gaps}
      \/ f = "ini" /\ backup[s].stale

\* Before a restore touches the first file, or a wipe with a backup deletes
\* it, there is an archive in which no file is noted as skipped (an unreadable
\* folder of the world is left out without a note) of everything as it was; of
\* the ini, unless a settings edit came after the copy.  Only an operator can
\* remove it while they are at work.  (A restore for which there was no world
\* to save makes no copy.)
Covers(a, s, before, id, S) ==
  /\ a.id = id /\ a.of = s /\ a.whole
  /\ \A f \in S : a.files[f] = before[f] \/ (f = "world" /\ a.files[f] = Gaps)
CoveredByRestore(s) == Files \ (IF restore[s].stale THEN {"ini"} ELSE {})
CoveredByWipe == Files \ {"ini"}   \* a wipe leaves the ini alone
SafetyCopyExists ==
  \A s \in Servers :
    /\ /\ restore[s].pc \notin {"idle", "safety", "extract"} /\ ~restore[s].meddled
       /\ restore[s].before["world"] # Absent
       => \E a \in dir : Covers(a, s, restore[s].before, restore[s].safety, CoveredByRestore(s))
    /\ wipe[s].pc = "delete" /\ wipe[s].safety # 0 /\ ~wipe[s].meddled =>
         \E a \in dir : Covers(a, s, wipe[s].before, wipe[s].safety, CoveredByWipe)

\* The safety copy does not push the archive out that is about to be restored.
SourceIsKept ==
  \A s \in Servers :
    restore[s].pc \in {"safety", "extract"} /\ restore[s].source.of \in {s, Nobody} =>
      restore[s].source \in dir \/ restore[s].meddled

\* What was there before a restore is in place or under its retired name until
\* every file, and the profile, are restored: through failures, a rollback
\* that fails as well, and crashes.  An edit replaces the ini it edits (with a
\* copy of its own), and a rollback an ini edited on top of the restored one.
Copies(s, f) == {live[s][f]} \cup {r[2] : r \in {x \in retired[s] : x[1] = f}}
Restored(s) ==
  /\ restore[s].todo = {}
  /\ restore[s].source.full /\ "profile" \notin restore[s].edited =>
       profile[s] = restore[s].source.profile
MayGo(s, f, c) ==
  \/ game[s] # game'[s] \/ wipe[s].pc = "delete"
  \/ restore[s].pc = "discard" /\ Restored(s)
  \/ restore[s].pc = "rollback" /\ c = restore[s].source.files[f]
  \/ f = "ini" /\ (EditIni(s) \/ (restore[s].pc = "rollback" /\ "ini" \in restore[s].edited))
NothingIsLost ==
  [][\A s \in Servers, f \in Files :
       \A c \in Copies(s, f) \ (Copies(s, f)' \cup {Absent}) : MayGo(s, f, c)]_vars

\* A restore that ends restores everything or, unless the rollback reported a
\* failure, nothing, but for what was edited in the meantime; a database never
\* meets the journal of another, if the archive does not hold a journal
\* without its database.
Complete(s) ==
  LET r == restore[s]
  IN /\ live[s]["world"] = r.source.files["world"]
     /\ r.source.full =>
          /\ live[s]["ini"] = r.source.files["ini"] \/ "ini" \in r.edited
          /\ profile[s] = r.source.profile \/ "profile" \in r.edited
     /\ <<live[s]["db"], live[s]["wal"]>> =
          IF r.source.full /\ r.source.files["db"] # Absent
            THEN <<r.source.files["db"], r.source.files["wal"]>>
            ELSE <<r.before["db"], r.before["wal"]>>
Undone(s) ==
  /\ live[s] = restore[s].before
  /\ profile[s] = restore[s].profile \/ "profile" \in restore[s].edited
AllOrNothing ==
  [][\A s \in Servers :
       LET r == restore[s]
       IN /\ r.pc # "idle" /\ restore'[s].pc = "idle" /\ ~Crash
          /\ r.source.whole /\ (r.source.files["db"] = Absent => r.source.files["wal"] = Absent)
          => IF r.pc = "discard" THEN Complete(s) ELSE r.clean => Undone(s)]_vars

\* The panel itself removes an archive only if it is a backup of a server with
\* MaxBackups newer ones (an operator may have deleted some of those since).
RetentionKeepsNewest ==
  [][\A a \in dir \ dir' :
       \/ deletions' # deletions
       \/ /\ a.of \in Servers
          /\ Cardinality({b \in Newer(a, dir) : b.of = a.of}) + deletions >= MaxBackups]_vars

-----------------------------------------------------------------------------
(* Why they hold: what is true of a server at each step, as an inductive    *)
(* invariant.                                                              *)

Working(s) == backup[s].pc \notin {"idle", "wait"}

\* The lock tells what is done to a server, and then its game is down.
LockOK(s) ==
  /\ lock[s] # "free" => ~game[s]
  /\ backup[s].pc = "wait" => backup[s].kind = "backup"
  /\ Working(s) => lock[s] = backup[s].kind
  /\ lock[s] = "backup" => Working(s)
  /\ restore[s].pc # "idle" <=> lock[s] = "restore"
  /\ restore[s].pc = "safety" <=> Working(s) /\ backup[s].kind = "restore"
  /\ wipe[s].pc # "idle" <=> lock[s] = "wipe"
  /\ wipe[s].pc = "safety" <=> Working(s) /\ backup[s].kind = "wipe"

\* What is in archives, or will be put back, was not in use; archives have a
\* world.
AtRest(files) == \A f \in Files : files[f] # InUse
Sane(a) == AtRest(a.files) /\ a.files["world"] # Absent
ContentOK(s) ==
  /\ live[s]["ini"] # InUse
  /\ ~game[s] => AtRest(live[s])
  /\ restore[s].pc # "idle" => Sane(restore[s].source) /\ AtRest(restore[s].before)

\* How far a backup has come.
CopyOK(s) ==
  /\ backup[s].pc \in {"wait", "open", "count"} => backup[s].whole /\ backup[s].files = NoFiles
  /\ backup[s].pc \in {"idle", "wait", "open", "count"} => ~backup[s].stale
  /\ backup[s].pc = "count" => "world" \in backup[s].todo /\ "ini" \in backup[s].todo
       /\ \A f \in Files \ backup[s].todo : live[s][f] = Absent
  /\ backup[s].pc \in {"list", "prune"} => backup[s].kind = "backup"
  /\ backup[s].pc = "copy" => backup[s].todo # {}
  /\ backup[s].pc = "seal" => backup[s].todo = {}
  /\ backup[s].pc \in {"copy", "seal"} =>
       /\ AtRest(backup[s].files)
       /\ "world" \notin backup[s].todo => backup[s].files["world"] # Absent
       /\ backup[s].whole => \A f \in Files \ backup[s].todo :
            \/ backup[s].files[f] = live[s][f]
            \/ f = "world" /\ backup[s].files[f] = Gaps
            \/ f = "ini" /\ backup[s].stale

\* The safety copy: nothing has changed while it is made, and then it is there.
SafetyOK(s) ==
  /\ restore[s].pc \in {"safety", "extract"} =>
       /\ live[s] = restore[s].before
       /\ profile[s] = restore[s].profile \/ "profile" \in restore[s].edited
  /\ restore[s].pc \notin {"idle", "safety"} /\ ~restore[s].meddled
     /\ restore[s].before["world"] # Absent
     => \E a \in dir : Covers(a, s, restore[s].before, restore[s].safety, CoveredByRestore(s))
  /\ wipe[s].pc = "safety" => \A f \in CoveredByWipe : live[s][f] = wipe[s].before[f]
  /\ wipe[s].pc = "delete" /\ wipe[s].safety # 0 /\ ~wipe[s].meddled =>
       \E a \in dir : Covers(a, s, wipe[s].before, wipe[s].safety, CoveredByWipe)
  /\ restore[s].pc \in {"safety", "extract"} /\ restore[s].source.of \in {s, Nobody} =>
       restore[s].source \in dir \/ restore[s].meddled

\* How far a swap has come, or its rollback: what has been applied, what is in
\* hand, and what is as it was.
Replacing(s) == restore[s].pc \in {"swap", "place", "profile", "reload", "discard"}
WasRetired(s, f) ==
  <<f, restore[s].before[f]>> \in restore[s].retired <=> restore[s].before[f] # Absent
InHand(s, f) == restore[s].pc = "place" /\ f = First(restore[s].todo)
ProgressOK(s) ==
  LET r == restore[s]
  IN /\ r.pc \in {"safety", "extract"} => r.applied = {} /\ r.retired = {}
     /\ r.pc \in {"idle", "safety", "extract"} \/ Replacing(s) => r.clean
     /\ r.pc \in {"safety", "extract", "swap", "place", "profile"} => ~r.updated
     /\ r.pc \in {"swap", "place"} => r.todo # {}
     /\ r.pc \in {"profile", "reload", "discard"} => r.todo = {}
     /\ r.pc \in {"profile", "reload"} \/ r.updated => r.source.full
     /\ r.pc = "idle" => r.edited = {} /\ ~r.stale
     /\ r.pc \in {"safety", "extract", "swap", "place", "profile"} \/ ~r.source.full =>
          "ini" \notin r.edited
     /\ r.pc = "reload" \/ (r.pc = "discard" /\ r.source.full) => r.updated
     /\ Replacing(s) =>
          /\ r.applied \cap r.todo = {}
          /\ r.applied \cup r.todo = Replacements(r.source, r.before)
          /\ r.source.full => r.source.files["ini"] # Absent
SwapOK(s) ==
  LET r == restore[s]
  IN Replacing(s) \/ r.pc = "rollback" =>
       /\ r.clean /\ "profile" \notin r.edited =>
            profile[s] = IF r.updated THEN r.source.profile ELSE r.profile
       /\ \A f \in r.applied :
            /\ live[s][f] = r.source.files[f] \/ (f = "ini" /\ "ini" \in r.edited)
            /\ WasRetired(s, f)
       /\ \A f \in Files \ r.applied :
            /\ InHand(s, f) => live[s][f] = Absent /\ WasRetired(s, f)
            /\ r.clean /\ ~InHand(s, f) => live[s][f] = r.before[f]
            /\ Replacing(s) /\ ~InHand(s, f) =>
                 <<f, r.before[f]>> \notin r.retired

\* Between listing and deletion, only operators take newer archives away.
RetentionOK(s) ==
  backup[s].pc = "prune" =>
    \A a \in backup[s].doomed :
      /\ a.of = s
      /\ Cardinality({b \in Newer(a, dir) : b.of = s}) + deletions >= MaxBackups

ServerOK(s) ==
  /\ LockOK(s) /\ ContentOK(s) /\ CopyOK(s) /\ SafetyOK(s)
  /\ ProgressOK(s) /\ SwapOK(s) /\ RetentionOK(s)

IInv ==
  /\ TypeOK
  /\ \A a \in dir : Sane(a)
  /\ \A s \in Servers : ServerOK(s)
=============================================================================
