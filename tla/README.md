# A model of the Zomboid panel server in TLA+

This directory holds a verification project for the server of the panel
(`src/apps/panel-server`): TLA+ modules for its stateful core, TLC
configurations that check them on small instances, and proofs, checked by
TLAPS, of the properties for every value of the constants.

    tlc -config MCPanelSupervisorSafe.cfg MCPanelSupervisor   # one run
    tlapm PanelSupervisorProofs.tla                           # one proof module

`PROJECT.json` lists components, runs, mutants, the map from definitions to
source lines, hazards and theorems.

## 1. The system

The panel is one Node process per installation. It supervises Project Zomboid
game servers: it starts and stops them (as a child process, a systemd service
or a Docker container), talks to them over RCON, saves, backs up, updates them
with SteamCMD, edits their configuration, and replaces *itself* when a new
release of the panel is installed. A React client and an HTTP API are in front
of it; a Lua mod (Argus) runs inside the game. In what follows paths are
relative to `src/apps/panel-server/`.

| Component | State it keeps | Operations | Interacts with |
|---|---|---|---|
| Lifecycle lock `services/lifecycleCoordinator.ts` | map server → token, `released` in each handle | acquire, release, ask | everything below that starts or stops a game |
| Server maintenance `services/serverMaintenance.ts` | the active run: phase, abort signal, flags in the locals of `run()` | `run`, `cancel`, `shutdown`, `state` | lock, RCON, server manager, containers |
| Lifecycle actions `services/serverLifecycleActions.ts`, `serverLaunch.ts` | background polls and monitors, who still owns the lock | start, stop, force-stop, restart | lock, RCON flag `serverStarting`, maintenance |
| Server runtime `services/serverRuntime.ts` | one set of services per server | boot with auto-start, dispose | lock, RCON |
| RCON `services/rcon.ts`, `utils/sourceRcon.ts` | client, `connected`, versions, reconnect timers, pending packets | connect, reconnect, execute with retry, reset | the game; everything that sends commands |
| Server manager, detection, systemd | pid, cached configuration | scan, start, stop | operating system |
| Managed containers `services/managedContainer.ts`, `dockerClient.ts` | none of its own | start, stop, inspect | Docker |
| Panel update bundle `services/updateBundle.ts` | journal, staged and previous trees, data backup, all on disk | stage, apply, acknowledge, recover | supervisor, panel |
| Panel supervisor `services/panelSupervisor.ts` | child process, supervisor lock, result file | start, loop over exits, health check, stop | update bundle, panel |
| PID lock `utils/pidLock.ts` | a lock file | acquire, release | panel and supervisor at start and exit |
| File write queue `utils/fileWriteQueue.ts` | map file → promise of the last writer | `withFileLock` | every editor of ini and Lua files |
| Settings edits `routes/mods.ts`, `routes/serverFiles.ts`, `utils/configBackup.ts` | ini files, their copies, mod folders, ignored and tracked mods | add, remove, enable, order, sync, raw edit, restore of a copy | file queue, database, Steam |
| Backups `services/backupService.ts` | flags, archives, retired files | create, prune, delete, restore with rollback | maintenance, database |
| Steam operations `services/activeSteamOperations.ts`, `updateChecker.ts` | reservation per install path | update, verify, install, start check | maintenance, SteamCMD |
| Scheduler `services/scheduler.ts` | cron jobs | register, stop, restart | maintenance, backups |
| Mod checker `services/modChecker.ts` | known time stamps, pending restart | check, restart | maintenance |
| Configuration guard `services/configMutationGuard.ts` | none | check before an edit | server manager |
| Sessions `services/auth.ts`, `passwordRecovery.ts` | account with generations and refresh sessions, JWT secret, reset token file | log in, refresh, change password, reset | database, browsers |
| Profiles, settings, database | SQLite | synchronous statements | all |
| HTTP layer, routes, client, Argus, packaging | none the above depends on | | |

What is hard here is not computation but order:

* every service is a set of async functions on one event loop; each `await` is
  a point where any other operation runs, and what was read before it may be
  stale after it;
* intervals with async callbacks overlap with themselves;
* locks are handed from one operation to another and released twice;
* a stop or a start is requested, and its effect comes later, or never, or
  after the code's own deadline;
* a cancel races with the step it wants to prevent;
* a connection attempt is overtaken by another one while its handshake is under
  way, and a command's error arrives when its client is no longer the current one;
* requests of several tabs share a cookie, and answers are lost or come late;
* a panel update, and a restore of a backup, is a sequence of renames and writes,
  by a process that can be killed anywhere, that must look like one step
  afterwards, also when the recovery fails as well;
* two processes race for a lock file.

What would make each part correct:

* **lock**: one owner per server; a late or second release frees nothing of
  somebody else's;
* **maintenance**: work is done only on a stopped server, players are not
  thrown out who came in after the check, a server that was taken down comes
  back, an accepted cancel is honoured;
* **actions**: none acts on a server while another does; each ends, releases
  the lock and clears `serverStarting`;
* **panel update**: atomic, always recoverable, never a mixture, truthfully reported;
* **PID lock**: one owner, and a dead owner never blocks;
* **settings edits**: editors that overlap do what serving them one after the
  other would; what is overwritten has been copied and its copy is kept; a removal
  deletes a mod's folder only after the mod is off the list of the ini it edits; a
  failure does not stop the queue;
* **RCON**: `connected` means the current, authenticated client; no socket is
  left open behind the service's back; nothing is sent to a previous target; a
  command reported as not sent was not; a command ends;
* **backups**: an archive is one state of a server, but for an ini edited while it was
  made; a failed restore leaves everything as it was or keeps the way back; retention
  never eats the newest;
* **sessions**: what was logged out, rotated or revoked is never accepted again,
  no password change is lost, wrong guesses are counted, and who asked to stay
  signed in does;
* **Steam**: an install is not written while a game runs from it, and a
  reservation ends with its operation.

## 2. Modules

    LifecycleMutex            abstract: an owner per server
      ^ implemented by LifecycleLock        (SteamOperationsProofs)
      ^ implemented by ServerLifecycle      (ServerLifecycleProofs)
    GameServer <- ServerMaintenance <- ServerLifecycle <- MCServerLifecycle
    LifecycleLock <- SteamOperations <- MCSteamOperations
                                            (SteamOperationsProofs)
    AtomicUpdate              abstract: an update is one step
      ^ implemented by PanelSupervisor      (PanelSupervisorProofs)
    UpdateBundle <- PanelSupervisor <- MCPanelSupervisor
    PidLock <- MCPidLock                    (PidLockProofs)
    AtomicEdits               abstract: one edit at a time, in order
      ^ implemented by SettingsEdits        (SettingsEditsProofs)
    FileLock, IniEdits <- SettingsEdits <- MCSettingsEdits
    RconConnection <- MCRconConnection      (RconConnectionProofs)
    Sessions <- MCSessions                  (SessionsProofs)
    BackupRestore <- MCBackupRestore        (BackupRestoreProofs)

(`A <- B`: B extends A.)

### LifecycleMutex, LifecycleLock

`locks` is the module-level map, `handle[h]` what an acquire returned, with its
`released` flag. Actions: `Acquire`, the first `Release`, and `ReleaseAgain`
(the same closure called once more, or after the token is gone). The lock
implements `LifecycleMutex`, with a server's owners mapped to its live handles
(not to the map's entry): an acquire takes a server without one, a first release
gives an own one back, everything else stutters. `ServerLifecycle` implements it
too, with the owners mapped to the operations that act as holders.

### GameServer, ServerMaintenance, ServerLifecycle

`GameServer` is the environment: the game process (`down`, `booting`, `up`,
`quitting`), who is online, who has been online since the last save
(`veterans`), `rcon` (`RconService.connected`) and `starting`
(`serverStarting`). What the game, RCON, the process scan and Docker may answer
is modelled from how the services use them: with `Faults` a scan may fail, or overlook
a running native game. `rcon` means a connection that answers; a call that fails
over a live one is a drop and a reconnect.

`ServerMaintenance` is `run()`. `run.pc` is the await the run is suspended in,
and one action is the code from one await to the next, with each `throw` going
to the `catch` and `finally` of the code (`Leave`, `MustResume`, `Finally`,
`Finish`). Its `state()` has two awaits: `Scan` records in `run.scan` what the
process scan said, and the step that uses the answer asks RCON for the players, in a
later state. A game that the scan overlooked is noticed only if RCON answers then
(`StateFails`), and taken for stopped if it does not (`StateIs`). `cancel()` and
`shutdown()` come from outside at any await. Time is abstracted: a deadline may pass
at any look at the clock.

`ServerLifecycle` puts everything that touches one server beside it: starts
with the 1-second poll whose callbacks overlap (`ticks` callbacks await their
scan, `waits` wait for RCON, which may throw: `RconWaitThrows`), stops with the
monitor that keeps the lock, force-stop, restarts that hand their lock to `run()` and
also release it themselves, and the auto-start at boot. They meet only in `lock`, in
`starting` and in the game.

Switches (constants) say which misfortunes a run considers: `Faults` (probes,
commands and starts may fail, a scan may overlook the game, the game may crash),
`SlowStop` (a stop outlives the code's waits), `LostBoot` (a start is given up on while its game, not yet
visible, boots), `Outside` (someone starts the game without the panel),
`Managed` (container or service against native process).

### SteamOperations

The composition of `LifecycleLock` with what meets at a shared install: `res` is
the map of `activeSteamOperations.ts`, `call[o]` the locals and the await of a
start, a game update, a version check, an installation or a deletion of files,
and a call is named by the lock handle it gets. An update
reserves the install, looks for running servers on it, lets its maintenance run take
the lock and stop its own server, looks for the others again, runs SteamCMD
(`steam[o]`, which may outlive its call) and lets the run start the server again; a
start looks at the reservation when it is asked for and once more before it
launches, which comes later. `ahead` is history: the servers whose start was already past its
look when the install was reserved. `Menu` bounds the kinds each call may have.

### AtomicUpdate, UpdateBundle, PanelSupervisor

The disk is `live`, `stage`, `prev` (each managed file in each tree), `data`
and `saved` (each data file and its backup), `journal` and `result`. One action
is one change of the disk: a rename, a copy, the removal of a tree (two
actions, `partial` in between), the write of the journal (a rename of a
temporary file, atomic). `pc`, `todo`, `cur`, `after`, `stopping` are the memory
of the supervisor, lost at a crash. `Mishap` bounds crashes and failing file
operations together by `MaxMishaps`; any step may be hit.

`PanelSupervisor` adds the supervisor's loop, the panel process (`child`), the
crash of the host (`Crash`), of the supervisor alone (`SupervisorDies`; with
`KillMode=process` the panel survives), the panel that ends later
(`OrphanExits`), SIGTERM (`Stop`) and the new panel's migration of its data
(`Migrate`). `TidyFails` lets the cleanup after a rollback fail half way;
`Orphans` says in which states a panel may outlive its supervisor.

The refinement mapping: the new version is installed when the journal does not
announce work and all files are new (`Committed`); it has migrated when it is
committed and some data file is in the new form. Removing the journal in
`Ack` is then the one step `Commit`.

### PidLock

One step per system call: exclusive creation, writing the pid (the file is empty
in between), reading, checking the pid, unlinking, the second round. Processes die
anywhere, pids come back, any stale file may lie there at the start. `Serial`
restricts behaviours to claims that do not overlap.

### FileLock, IniEdits, AtomicEdits, SettingsEdits

`FileLock` is the promise chain of `withFileLock`: `prior`, `run`, `tail`, the map
entry and its removal are separate micro-steps; calls fail at will.

`IniEdits` has no state. It says what each of 19 kinds of requests makes of an
ini: its sets of Workshop items, mod ids and map folders, and one secret value that
the client sees masked. `Prepared` is what a handler computes before it queues at the
lock, `Edited` what it makes under the lock of the text it finds there, and
`Writes` whether it writes at all; keeping the two apart is the point, since
everything a handler takes from before the lock may be stale by then.

`SettingsEdits` composes both: a call looks at the disk (`Look`), queues
(`Submit`), reads under the lock (`Enter`), copies the file (`Copy`, keeping the
newest `Keep` copies), writes (`Write`) or gives up (`Leave`), and, when it
removed a mod, deletes its folder and updates the database (`Tidy`). `phase` is the
await a call is in, `draft` the text it will write. `disk` is one set for all inis, as
`getWorkshopPaths` looks in folders that the servers of an install and of a home share;
servers whose ini is not among the files delete from it too (`OthersDelete`). The
maintenance copy of the scheduler, the download of a mod and the untracking of one
(`Untrack`) come from outside. `AtomicEdits` is what this promises: requests for one
file are served first come first served, each on the text of that moment.

### RconConnection

`attempt[a]` is one `_doConnect()` and the client it creates, `socket[a]` that
client's connection; `loop[l]` is one `_doReconnect()`, with its timer;
`cmd[c]` is one call of `execute()` with its retry; `check` is the health check. Of
`connectionVersion` and `targetVersion` only "incremented since I read it" is ever
used, so an attempt or loop carries that as a flag (`stale`, `old`). The actions are
the code between two awaits that do I/O or sleep; a settled promise's continuations
run before any other event (`Quiet`). The operator resets, disconnects and
reconfigures; the game comes and goes, drops sockets, or goes silent (`Slow`).
A slot nobody refers to is used again, so attempts and loops never run out.

### Sessions

One account row (`account`: generation, refresh sessions, failed logins, lock), the
signing `key`, the mutex of the account (`holder`), the requests on their way
(`call`: sent, queued, computing a hash, answered, lost), the cookie of each browser
(`jar`) and each tab's access token and single-flight refresh (`tab`), and the
reset token on disk (`file`). Requests and answers overtake one another and get
lost; the panel crashes. History variables say which sessions ended, which changes
of the password were carried out, how many guesses were refused, and which browsers
have a reason to be signed out.

### BackupRestore

A server's data are four files (`world`, `ini`, `db` and its journal `wal`), each a
content, and its profile row. `dir` is the backups folder, `temps` the half
written archives, `retired` the `.replaced-*` files of a restore. Edits of the ini
and of the profile row (`EditIni`, `EditProfile`) come at any await, as they take no
lifecycle lock; `stale` and `edited` remember which of them came after the ini had been
stored, or on top of what a restore had read or put in place. `backup`, `restore`
and `wipe` are the operations' locals, and where a crash or a failing call can leave
things half done each file operation is an action: copying file by file, the safety copy, the
swap, its rollback, the wipe. What must be
one state in an archive is made distinguishable: whenever a game has been running,
its files get contents never seen before.

Two servers whose data share a folder also share the backups folder, which is where
they meet: retention, temporary files, and deletion.

## 3. Runs

| Run | Shows | Instance | States |
|---|---|---|---|
| `steam` | an install is not written while one of its servers runs; a reservation ends with its operation | 2 servers sharing an install, 4 calls (2 updates, a start or deletion, one of any kind) | 179,186 |
| `lifecycle_native` | safety of maintenance and actions, native server | 1 player, 2 starts with up to 2 callbacks of the poll at once, 1 restart, `Faults`, `SlowStop` | 1,065,912 |
| `lifecycle_managed` | an honoured cancel, one operation at a time; container or service | 2 starts (without a poll, which only native starts have), 1 restart, all switches on | 101,360 |
| `lifecycle_live` | operations end and let go of lock and flag; a server taken down comes back | no faults, 1 start, 1 callback | 38,990 |
| `panel_safe` | the update is atomic, never mixed, truthfully reported | 2 files (one new), 2 data files (one new), 3 mishaps, killed supervisors | 19,316 |
| `panel_live` | recoverable until the commit, ends, panel comes back | same, 2 mishaps | 9,890 |
| `pidlock_serial` | one owner, refused only for a living one | 3 processes, any stale file | 41,709 |
| `settings` | overlapping edits are served one by one; what is overwritten is kept; folders go last; no call waits for ever | 1 ini, 2 items, one deleted by another server and one untracked, 3 calls: any kind, a deletion or restore, a sync | 381,190 |
| `rcon` | `connected` is true, no leaked socket, nothing sent to an old target, truthful errors | 2 attempts, 2 loops, a retried command and a quit, 2 failed checks, 2 upsets, silent sockets | 1,355,362 |
| `rcon_live` | commands end, the service connects again | 2 attempts, 1 loop, 1 command, 2 tries, 1 upset | 179,662 |
| `sessions` | what ended stays ended, no change is lost, guesses count, nobody is signed out for no reason | 2 tabs in 2 browsers, 2 requests at once, 2 sessions kept, 3 ever made, 1 upset | 3,913,979 |
| `backup` | archives are one state, failed restores undo or keep the way back, retention keeps the newest | 2 servers in one data folder, 1 archive kept, 3 archives, contents or settings edits, 1 deletion, 1 wipe, 1 mishap besides failing rollbacks | 1,631,723 |

Every run passes; deadlock is not checked in those that really may stop (all
calls made, all bounds used up).

### Why the bounds are enough

* Steam: the reservation is one entry per install, so one install and two servers
  on it are the smallest case in which the per-server lock does not help; two
  updates, a start and a further call make the three-way races (a second update
  that reserves after the first one's entry was cleared early, with a start in
  between).
* Lifecycle: what operations do to each other happens through one lock, one
  flag and one game, so one of each kind of operation is enough for every
  pair; two starts are there where what is late of one may meet the other
  (`lifecycle_native`, `lifecycle_managed`). Players only matter as present or absent, and as there
  since the save or not: one player takes all these roles. The four options
  (manual restart with a warning, forced Workshop restart, scheduled backup,
  game update) reach every branch of `run()`.
* `lifecycle_native` leaves `LostBoot` and `Outside` off: with either, a game
  comes up behind the panel after its last look, and no code of the panel can
  promise `WorkOnStoppedServer`; the other properties are proved with them, but for
  `StartingFlagIsOwned`, which is about native servers.
* Update: a file that exists before and one that does not, data that exists
  and data that does not, are the four cases the code tells apart; files of one
  kind are treated alike. Three mishaps are: one that interrupts the apply, one
  that interrupts the recovery, one that interrupts the second recovery.
* PID lock: the race needs two claims and a dead owner, so three processes.
* Settings: three calls are one that holds the lock and two that prepared
  themselves before it wrote. Two items, one with a map folder and one with a mod id
  that looks like a Workshop id, reach every branch of the edits; two copies kept
  are enough for the oldest to be dropped. Inis share the disk only, and what other
  servers do to it is `OthersDelete`, so one ini is enough.
* RCON: an attempt is superseded by one other, and slots are used again, so two
  attempts give successions of any length; two loops overlap once; two upsets are
  a reconfiguration during the reconnect that another one had caused. The code gives
  a connection up after three failed checks, the run after two: one that does not count
  yet and one that does. The proofs hold for any number.
* Sessions: two requests at a time give every overlap of two awaits; two sessions
  kept and three made force the oldest out; two failed guesses are a lock.
* Backups: one archive kept makes every backup prune; three contents tell before,
  during and after apart, and a settings edit is one of them.

### Fairness

Node's event loop runs every handler whose await has been answered: weak
fairness of the steps of a run, of the actions, of the supervisor, of an
editor (`Runs(c)`: the file system answers, and the promise chain goes on), and of
RCON attempts, loops and commands (timers fire, a probe or handshake is answered
or times out). The poll of a start counts its attempts and the scan tells the truth
in the end: strong fairness of its two outcomes, since callbacks that see nothing
come between. The automatic connect and the health check of RCON are intervals:
weak fairness, they run again and again.

Of the environment only: a spawned game becomes visible or dies, a quitting one
exits, a dead connection is noticed and a living game reconnected. `ConnectsAgain`
is asked only once the game has stopped coming and going and the configuration is
good. In `panel_live` the supervisor is started again when it is down: by the
service manager after a crash or a failure (`Restart=on-failure` in
`packaging/linux/zomboid-panel.service`), by the operator after a stop; the panel
itself owes nothing. Players, operators and calls owe nothing anywhere, and
`sessions`, `steam` and `backup` state no liveness: a network owes no
answer, and what a browser, SteamCMD or a copy of a world takes is not bounded by
the code.

### Mutants

Next to a definition stands, as "Mutant of", a form of it with a plausible
mistake: a dropped check, a release without looking whose lock it is, a commit
after the cleanup, an edit that does not wait for its turn. For each property of a
run `PROJECT.json` names the mutant that breaks it.

## 4. Observations

What came to light about the code while modelling. Where a property
would fail because of one, the model has the code's behaviour and the property
says what does hold.

Lifecycle, panel, PID lock:

* After the last abort check (`serverMaintenance.ts:196`) the run awaits `state()`
  while its phase still permits a cancel. A cancel answered with `true` there is
  never looked at. `CancelledRunNeverStops` still holds.
* `state()` (`serverMaintenance.ts:64-67`) believes a scan that found nothing unless RCON
  names players. If RCON drops after the scan, or `getPlayers` fails, a running game
  that the scan overlooked counts as stopped, and the work runs beside it. That is the
  one exception in `WorkOnStoppedServer`.
* If reading the RCON settings throws while a managed start waits for RCON
  (`serverLaunch.ts:547`), the error is logged and the lock released, with
  `serverStarting` set until its timer of 5 minutes clears it
  (`serverLifecycleActions.ts:165-172`). `StartingFlagIsOwned` is about native servers.
* When deleting the directories fails after a complete rollback
  (`updateBundle.ts:226-227`), the catch block writes the removed journal back as
  `rollback_failed`; each retry then fails, although everything is back in place.
  `Recoverable` is proved under `~TidyFails`.
* The supervisor recognises a living panel by `panel.lock`, which a panel takes only
  after it has booted (`panelSupervisor.ts:100`). Under a panel that boots when
  its supervisor is killed, files are restored. The proofs name this as their one
  hypothesis, `NoBootingOrphan`.
* Unlinking a stale PID lock is not tied to the text that was read
  (`pidLock.ts:66`); two overlapping claims can both win. Hence `Serial`.

RCON (`rcon.ts`):

* A superseded connect clears `connected` of its successor (675; `tests/rcon.test.ts:183`
  covers only the case in which it has none). `ConnectedMeansAuthenticated` is
  therefore one implication, not an equivalence.
* Loops that were superseded count in the same `reconnectAttempts`; two callers that
  join one failing attempt both start a loop; "RCON connection closed" is not
  recognised as a connection error, so such a command is not retried.

Sessions (`auth.ts`, `routes/auth.ts`, the client's `AuthContext.tsx`):

* Tabs of one browser have a single-flight refresh each; two that refresh at
  once present the same token, and the second revokes what the first got. So
  `KeptSignedIn` is about browsers with one tab that refreshes. The refresh of
  `checkAuth` (`AuthContext.tsx:159`) does not use the shared promise either, and is
  a second one if it overlaps another of its tab; the model has one refresh per tab at
  a time.
* A logout that overtakes a refresh leaves the refreshed session signed in
  (`AuthContext.tsx:277`).
* The reset token is looked at before and removed after the reset: two overlapping
  resets both use it, while `docs/install/linux.md:342` calls it one-time.

Backups (`backupService.ts`):

* A sub-folder that cannot be read is silently missing from the safety copy of a restore
  (124), whereas a backup that misses files says so (1109).
* The cleanup of temporary files takes those of another server's running backup
  (170-189). A crash in mid-restore leaves the previous files only as
  `.replaced-*`, which nothing brings back. An archive with a journal but no database is
  put beside the other database. After a rollback the profile row is back, but the server
  manager's cached configuration is not.
* `routes/backup.ts` waits for a rollback message the service never sends.
* Edits of the settings take no lifecycle lock: `serverFiles.ts:175-183` warns
  that the game runs, and only for the overwrite of a whole file asks that it is stopped
  (`configMutationGuard.ts:50-106`); `mods.ts` asks nothing. An ini
  edited while a backup copies the other files makes an archive of two states. One
  edited after a restore's safety copy has stored it, and before the swap, is in no
  archive, and its retired file is deleted when the restore succeeds (1395-1402). One
  edited during the final reload is lost to a rollback, as a profile edited then is.
* A restore for which there is no world to save makes no safety copy.

Steam (`updateChecker.ts`, `serverManager.ts`, `routes/server.ts`):

* The last `clear` of an update (563) goes by the install, not by the owner: after
  the early clear that lets its run restart the server, it takes the reservation
  another operation has made meanwhile; the test "retains the reservation"
  (`tests/steamUpdateConcurrency.test.ts:12`) has one operation. The loser's `get(key)!`
  (585) throws after its SteamCMD was spawned, which then runs unwatched.
* A start past its look (`serverManager.ts:1024`) can spawn after the second
  look for peers; `InstallIsFree` excludes just those (`ahead`).
* Deleting files looks at the reservation before two scans and reserves nothing; an
  installation does not look for running servers again after SteamCMD was
  downloaded.

Mods and settings (`mods.ts`, `serverFiles.ts`, `modChecker.ts`):

* `sync-mod-ids` uses the item list it read before the lock (`mods.ts:3725`);
  `resolve-orphan` what it knew of the disk and the ignore list. Both go into the
  request (`Look`, `Prepared`), not into the text it is applied to.
* Refreshes of names add tracked mods from a list read before a network answer
  (`mods.ts:242-251`, `modChecker.ts:1003-1008`), so one removed meanwhile comes back.
* Edits about something else drop a numeric mod id (`sanitizeModIdList`) that
  toggling and reordering keep on purpose (`linuxModsSaveOrderNumericModIdLoss`).
* `batch-delete-disk-mods` leaves the map folders of what it deletes,
  `delete-disk-mod` and the purge do not; removing an item removes mod ids that
  another item provides as well; `add-to-ini` leaves an item on the ignore list; the
  check of the form (`PUT /ini`) for duplicate keys is made before the lock
  (`serverFiles.ts:881`).
* Deleting a mod from the disk looks at one ini, but the folders searched
  (`workshopMaps.ts:8-78`) are shared by the servers of an install and of a home, whose
  inis may list the item still. `DELETE /track/:workshopId` (`mods.ts:380-396`) puts an
  item on the ignore list that the ini lists. `RemovedMeansUnlisted` is therefore about
  the ini a removal has edited.
* `createBackup` takes any failure to reach the file for its absence
  (`configBackup.ts:78-83`), of which the client is not warned (165).
* No edit takes the lifecycle lock: the check that the game is stopped
  (`configMutationGuard.ts:75`) is stale when the file is written.

## 5. Proofs

All proofs are for any sets, options, switches and bounds that satisfy the
modules' named assumptions; finiteness is not assumed.

* **ServerLifecycleProofs**: an inductive invariant per question. `LockInv`: whoever
  believes to hold the lock has its entry, and a run past the lock has a
  token. Mutual exclusion alone is not inductive, as a restart's second release
  could free anything. From it come `OneOperationAtATime` and
  `LockIsMutex`. `RunInv`: what each await of a run relies on, in particular
  that a run which may still stop the game has an abort check ahead.
  `CancelledRunNeverStops`, `PartialUpdateStaysDown` and `SuccessMeansRunning`
  follow. `StartInv` and `FlagInv` say who answers for `serverStarting`: each owner of
  the flag is past its launch and a holder of the lock, hence `StartingFlagIsOwned` for a
  native server; the error path of a managed start leaves the flag without one.
  `VeteransInv`: who was there at the save is still online, and an automatic run
  between its second count and its stop has nobody of them, hence
  `NobodyStaysThroughTheStop`. The others hold with any switches.
  `BootInv` (a game that boots is waited for by whoever spawned it, and that one holds
  the lock) and `FoundInv` (what the run's last scan rightly found stopped is stopped when
  it decides) give `WorkOnStoppedServer`, for a native server with `LostBoot` and `Outside`
  off. The hypotheses are needed: a managed start stops waiting for RCON while its
  container may still boot, and with the other two a game comes up behind the last look.
* **SteamOperationsProofs**: first `LifecycleLock` by itself: `Agreement` (the token in
  the map is the one unreleased handle of its server) is inductive with the types;
  mutual exclusion, `NobodyElseFreesTheLock` and the refinement of `LifecycleMutex`
  follow from it. Then the composition: its inductive invariant has a part for each thing an
  operation relies on: its reservation while it is past making one, unless an
  update cleared it (`ReservationHasAnOwner`, `HoldersInv`), its kind and lock
  (`KindInv`), that its own server is down during its work (`OwnDownInv`), that a
  start past its look met no reservation it did not know of (`LookInv`), and that the
  servers already looked at are still down (`FreeInv`). `InstallIsFree` follows;
  since `LifecycleLock`'s actions are used as they are, its mutual exclusion holds in
  the composition (`LockInComposition`).
* **PanelSupervisorProofs**: `ProtocolInv` relates the journal to the disk
  (`JournalInv`), the panel process to both (`PanelInv`), and the position of
  the apply and of the rollback to what is half done (`ApplyInv`,
  `RestoreInv`). One lemma per action, one step per part. All safety
  properties of `panel_safe` follow for any bundle, any data and any number of
  mishaps, under `NoBootingOrphan`; `Recoverable` also needs `~TidyFails`.
  `UpdateIsAtomic` is the refinement of `AtomicUpdate`: `Ack` is
  the commit, a committed panel's migration is the migration, and every other
  step keeps `Committed` and, while committed, the data.
* **PidLockProofs**: under `Serial`, that a claim's reading of the file cannot
  have become wrong (`SeenInv`), that an owner is on file, and that a second round finds
  no file in its way (`RoundInv`). The last one leaves reading a living owner's pid as the
  only way to be refused, which is the action property `RefusedForALivingOwner`.
* **SettingsEditsProofs**: the chain of promises of `FileLock`: a call waits for the last
  one of its file that was not through when it was made, hence (`PastInv`) for all.
  On top of it, `PhaseInv` (where a call may be while
  its lock is where it is), `DraftInv` (a draft is still the edit of the text as
  it is: nobody else has written since), `CopyInv` (the newest copy of a call that has
  copied is that text), `RemovedInv` (the items of a removal that has written are off its
  ini until its handler has tidied up). From them: exclusion of editors,
  `OverwrittenIsKept`, `RemovedMeansUnlisted`, and the refinement of `AtomicEdits`,
  one lemma per abstract action; that requests are served in order is `PastInv`.
* **RconConnectionProofs**: the handlers are built from a few blocks that begin, settle or
  drop a connection. A lemma per block shows that it keeps `Service`: `connected` belongs
  to the client, no other socket is open, the client authenticates or has done so, for
  the target of today (`ClientInv`), and an attempt for a target of before has been
  told so (`OldIsStale`). Only a new target makes attempts old, and it tells the commands
  in flight (`NoneAges`), so that what each command knows stays true (`Honest`). Hence
  the four safety properties of `rcon`.
* **SessionsProofs**: `RowInv` is about the account: whoever computes a hash
  holds the mutex and the row is as it was read (`MutexInv`), sessions are numbered in order
  (`NumberInv`), wrong guesses have been counted (`GuessInv`), there is room for one
  session more (`Room`). With it go the properties `EndedSessionsStayEnded` and
  `ChangesPersist`, and `GuessesAreCounted` follows. `BrowserInv` is about the way there and
  back: which requests a tab may have under way (`TabInv`), that a browser only ever has
  sessions made for it (`OwnSessions`), and that one with a single refreshing tab and no excuse
  holds, presents or is being sent a session that is still in the row (`SignedInInv`),
  which is what `KeptSignedIn` needs to be inductive.
* **BackupRestoreProofs**: sane archives, and per server the lock against the
  operations (`LockOK`), which contents exist (`ContentOK`), what a copy has so far
  (`CopyOK`), the safety copy (`SafetyOK`), how far a restore is (`ProgressOK`) and
  which files are swapped (`SwapOK`), and retention (`RetentionOK`). Lemmas say what an
  action leaves alone for all other servers (`Elsewhere`) and how the parts make the
  whole (`Assemble`); then one lemma per action. `CopyOK`, `SafetyOK` and `SwapOK` except
  an ini or a row just where an edit was recorded (`stale`, `edited`), so an edit at any
  await keeps them. All six properties of `backup`
  follow, for any number of servers, archives and mishaps.

Proved but no longer checked by a run of its own, since a stronger property or its
proof covers it: `OneOperationAtATime`, `Agreement`, `NobodyElseFreesTheLock`, `LockInv`,
`RunInv`, `ProtocolInv`, `NothingLeftBehind`, `ClaimInv`, `OwnerIsOnFile`, `ChainInv`,
`NoStaleEntry`, `OneWriterInOrder`, the refinement of `LifecycleMutex` by
`LifecycleLock`, and all type invariants.

Every safety property of every run is proved, under the hypotheses named above. Only
model-checked are the liveness properties: `OperationsEnd`, `ServerComesBack`,
`PanelComesBack`, `CommandEnds`, `ConnectsAgain` and `EveryCallRuns`. Liveness under
fairness and what a recursive definition computes are out of the prover's reach and
stay with TLC.

## 6. What is not modelled

* Wording, progress events, countdown arithmetic, log output.
* The operating system: process tables, signals, Docker's and systemd's own
  behaviour, reordering of disk writes at a power loss.
* RCON: the reassembly of packets from TCP chunks. Sessions: their length, first-run
  setup, the sockets cut at a revocation, failing database writes. Backups: upload,
  zip and checksums, history records; a failing deletion of an old `.bak`.
* In `SettingsEdits`, writers of an ini that do not take the file lock: the restore of a
  backup (`BackupRestore` has both, an edit being one step there), the game, and
  installation and quick setup (`routes/server.ts:1313`, `:1634`), which write only when there is none. A missing ini, missing lines, and `ensureRconConfigured`,
  which creates one.
* The Lua files of sandbox and spawns, which use the same lock with blind or
  overlaying writes (`serverFiles.ts` 973-1301, `sandboxPersistence.ts`), and
  `deduplicate-mod-ids`, as order and repetition are abstracted away.
* Routes that only change the lists (`GET /tracked`, `refresh-names`, `sync-from-server`,
  `POST /track`, `ignored`); `saveServerConfig`, which only tests call.
* Registration of cron jobs and the configuration guard: see the plan.
* Data work: parsing and printing of ini and Lua files, map data, mod conflicts;
  database statements, which are synchronous; HTTP routing; the client.

Most of the repository is of this last kind. Of its 93,818 lines of implementation
nearly half are the React client and its tables, a quarter is route handlers, most of
which validate a request and format an answer, and much of the rest is parsers, catalogues
of game items and settings, and diagnostics. They keep no state of their own between requests, so
a state machine of them would restate their assignments; the stateful services, which
the models cover, are a small share of the lines.

## 7. Plan

Done: lock and lifecycle; Steam operations; panel update and supervisor; PID lock;
file queue, settings edits and mods; RCON connection; sessions; backups. Remaining, in
order:

1. The configuration guard (`configMutationGuard.ts`) composed of `SettingsEdits` and the
   start actions it races with: what a game reads that starts between the check
   and the write.
2. The scheduler (`scheduler.ts`): jobs that are replaced while their callback runs.
3. Tracked mods and the mod checker: the lists and the time stamps across network
   answers.
4. The Lua settings files as further keys of `SettingsEdits`.
5. Lemmas about what `Edited` keeps of an ini (items, mods and maps that a request does not
   name), for any sets.
