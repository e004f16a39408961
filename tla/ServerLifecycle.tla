--------------------------- MODULE ServerLifecycle ---------------------------
(***************************************************************************)
(* Everything that starts or stops one game server, together: the          *)
(* maintenance run (ServerMaintenance), the start, stop, force-stop and    *)
(* restart requests of services/serverLifecycleActions.ts with the         *)
(* background polls they leave behind (services/serverLaunch.ts), and the  *)
(* auto-start of services/serverRuntime.ts.  They exclude each other only  *)
(* through the lifecycle lock, whose entry for this server is `lock'.      *)
(***************************************************************************)
EXTENDS ServerMaintenance, Naturals

CONSTANTS
  Starts,     \* start requests; each is also its lock token
  Stopper,    \* the token of a stop request
  Forcer,     \* the token of a force-stop request
  AutoStart,  \* the token of the start at panel boot
  MaxTicks    \* how many callbacks of the 1 s start poll may be awaiting at once

ASSUME OthersAssumption ==
  /\ Others = Starts \cup {Stopper, Forcer, AutoStart}
  /\ Stopper # Forcer /\ Stopper # AutoStart /\ Forcer # AutoStart
  /\ {Stopper, Forcer, AutoStart} \cap Starts = {}
ASSUME MaxTicksAssumption == MaxTicks \in Nat \ {0}

VARIABLES
  start,      \* start[s]: where request s is, its poll callbacks and RCON waits
  stop,       \* stop request
  forceStop,  \* force-stop request
  autoStart,  \* start at panel boot
  restart     \* restart[r]: the route side of manual restart r

actionVars == <<start, stop, forceStop, autoStart, restart>>
vars == <<gameVars, lock, run, actionVars>>

NoStart == [pc |-> "idle", ticks |-> 0, waits |-> 0, held |-> FALSE]
StartPcs == {"idle", "checks", "launch", "poll", "drain"}

TypeOK ==
  /\ GameTypeOK
  /\ RunTypeOK
  /\ start \in [Starts -> [pc: StartPcs, ticks: 0..MaxTicks, waits: 0..MaxTicks,
                           held: BOOLEAN]]
  /\ stop \in {"idle", "save", "stop", "monitor"}
  /\ forceStop \in {"idle", "save", "stop"}
  /\ autoStart \in {"boot", "launch", "wait", "done"}
  /\ restart \in [Restarts -> {"idle", "running"}]

Init ==
  /\ GameInit
  /\ RunInit
  /\ start = [s \in Starts |-> NoStart]
  /\ stop = "idle"
  /\ forceStop = "idle"
  /\ autoStart \in {"boot", "done"}
  /\ restart = [r \in Restarts |-> "idle"]

\* acquireLifecycleLock by an operation other than the run; when it answers
\* null the request is refused (409) and nothing changes.
Lock(t) == lock = None /\ lock' = t
Unlock(t) == lock' = Released(t)

-----------------------------------------------------------------------------
(* startServerAction and its poll.                                         *)

\* A request whose poll is over is forgotten when its callbacks have returned.
Settled(r) == IF r.pc = "drain" /\ r.ticks = 0 /\ r.waits = 0 THEN NoStart ELSE r
SetStart(s, r) == start' = [start EXCEPT ![s] = Settled(r)]

StartBegin(s) ==
  /\ start[s].pc = "idle"
  /\ Lock(s)
  /\ start' = [start EXCEPT ![s] = [NoStart EXCEPT !.pc = "checks", !.held = TRUE]]
  /\ UNCHANGED <<gameVars, run>>

StartThrows(s) ==
  /\ SetStart(s, NoStart)
  /\ Unlock(s)

\* Profile, Steam, first-boot and integration checks, up to the start call.
StartChecks(s) ==
  /\ start[s].pc = "checks"
  /\ \/ ScanFails /\ StartThrows(s)
     \/ start' = [start EXCEPT ![s].pc = "launch"] /\ UNCHANGED lock
  /\ UNCHANGED <<gameVars, run>>

\* The start call.  A managed game that already runs ends the request; a
\* managed start leaves one RCON wait behind, a native one the poll.
StartLaunch(s) ==
  /\ start[s].pc = "launch"
  /\ UNCHANGED <<online, veterans, rcon, run>>
  /\ \/ /\ Faults \/ ~StartAnswers \/ (Managed /\ Visible)
        /\ StartThrows(s)
        /\ UNCHANGED <<game, starting>>
     \/ /\ StartAnswers /\ ~(Managed /\ Visible)
        /\ StartTakes
        /\ starting' = TRUE
        /\ SetStart(s, [start[s] EXCEPT !.pc = IF Managed THEN "drain" ELSE "poll",
                                        !.waits = IF Managed THEN 1 ELSE 0])
        /\ UNCHANGED lock

\* The interval fires while earlier callbacks may still await their scan:
\* pollCleared is looked at only here.
PollTick(s) ==
  /\ start[s].pc = "poll"
  /\ start[s].ticks < MaxTicks
  /\ start' = [start EXCEPT ![s].ticks = @ + 1]
  /\ UNCHANGED <<gameVars, lock, run>>

GiveUp(s, r) ==
  /\ SetStart(s, [r EXCEPT !.pc = "drain", !.held = FALSE])
  /\ Unlock(s)
  /\ starting' = FALSE

\* A callback whose scan has answered.
Answered(s) == [start[s] EXCEPT !.ticks = @ - 1]
NotSeen(s) ==
  /\ start[s].ticks > 0
  /\ ScanFails \/ ScanSays(FALSE)
  /\ UNCHANGED <<game, online, veterans, rcon, run>>

\* The game is not visible yet.
PollMissed(s) == NotSeen(s) /\ SetStart(s, Answered(s)) /\ UNCHANGED <<lock, starting>>

\* Mutant of PollGivesUp: the flag stays set.
PollGivesUpFlagged(s) ==
  /\ NotSeen(s)
  /\ MayGiveUp
  /\ SetStart(s, [Answered(s) EXCEPT !.pc = "drain", !.held = FALSE])
  /\ Unlock(s)
  /\ UNCHANGED starting

\* That was the last of 30 attempts, or the scan threw.
PollGivesUp(s) == NotSeen(s) /\ MayGiveUp /\ GiveUp(s, Answered(s))

\* The game is visible: the poll is over and this callback waits for RCON.
PollFound(s) ==
  /\ start[s].ticks > 0
  /\ ScanSays(TRUE)
  /\ start[s].waits < MaxTicks
  /\ SetStart(s, [Answered(s) EXCEPT !.pc = "drain", !.waits = @ + 1])
  /\ UNCHANGED <<gameVars, lock, run>>

\* waitForRconAfterStart: every attempt tears the RCON connection down first
\* (forceResetConnectionState) and connects again.
RconAttempt(s) ==
  /\ start[s].waits > 0
  /\ rcon' \in {FALSE, game = "up"}
  /\ UNCHANGED <<game, online, veterans, starting, lock, run, start>>

\* It ends, connected or after 60 attempts: the flag is cleared, then the
\* lock released.
RconWaitEnds(s) ==
  /\ start[s].waits > 0
  /\ GiveUp(s, [start[s] EXCEPT !.waits = @ - 1])
  /\ UNCHANGED <<game, online, veterans, rcon, run>>

\* It throws while it reads the RCON settings.  The poll of a native start then
\* clears the flag as above; for a managed start the error is logged and the
\* lock released, and the flag stays for its 5 minutes.
RconWaitThrows(s) ==
  /\ Faults /\ Managed
  /\ start[s].waits > 0
  /\ SetStart(s, [start[s] EXCEPT !.pc = "drain", !.held = FALSE, !.waits = @ - 1])
  /\ Unlock(s)
  /\ UNCHANGED <<gameVars, run>>

StartStep(s) ==
  \/ StartChecks(s) \/ StartLaunch(s)
  \/ PollTick(s) \/ PollMissed(s) \/ PollGivesUp(s) \/ PollFound(s)
  \/ RconAttempt(s) \/ RconWaitEnds(s) \/ RconWaitThrows(s)

-----------------------------------------------------------------------------
(* stopServerAction and monitorGracefulStop.                               *)

StopIdle == stop' = "idle" /\ Unlock(Stopper)

\* The lock, then `connected' at once: without RCON the request ends.
StopBegin ==
  /\ stop = "idle"
  /\ rcon
  /\ Lock(Stopper)
  /\ stop' = "save"
  /\ UNCHANGED <<gameVars, run>>

StopSave ==
  /\ stop = "save"
  /\ UNCHANGED run
  /\ \/ SaveRefused /\ StopIdle /\ UNCHANGED gameVars
     \/ SaveTaken /\ Saved /\ stop' = "stop" /\ UNCHANGED lock

\* A confirmed stop ends the request; a requested one leaves the monitor
\* holding the lock.
StopCall ==
  /\ stop = "stop"
  /\ UNCHANGED <<rcon, starting, run>>
  /\ \/ StopFails /\ StopIdle /\ UNCHANGED <<game, online, veterans>>
     \/ StopTakes /\ (Managed \/ Faults) /\ StopIdle
     \/ StopTakes /\ ~Managed /\ stop' = "monitor" /\ UNCHANGED lock

\* The monitor sees the process gone, or its 5 minutes are over.
StopMonitor ==
  /\ stop = "monitor"
  /\ ScanSays(FALSE) \/ SlowStop
  /\ StopIdle
  /\ UNCHANGED <<gameVars, run>>

StopStep == StopSave \/ StopCall \/ StopMonitor

-----------------------------------------------------------------------------
(* forceStopServerAction.                                                  *)

ForceBegin ==
  /\ forceStop = "idle"
  /\ Lock(Forcer)
  /\ forceStop' = "save"
  /\ UNCHANGED <<gameVars, run>>

\* attemptBoundedSaveBeforeForceStop: whatever comes of it, the stop follows.
ForceSave ==
  /\ forceStop = "save"
  /\ forceStop' = "stop"
  /\ (SaveTaken /\ Saved) \/ (SaveRefused /\ UNCHANGED gameVars)
  /\ UNCHANGED <<lock, run>>

\* stopServer(false) kills the process, or could not.
ForceStop ==
  /\ forceStop = "stop"
  /\ forceStop' = "idle"
  /\ Unlock(Forcer)
  /\ GameGone \/ (Faults /\ UNCHANGED <<game, online, veterans>>)
  /\ UNCHANGED <<rcon, starting, run>>

ForceStep == ForceSave \/ ForceStop

-----------------------------------------------------------------------------
(* The auto-start of initializeServerRuntime: once, with its own lock.     *)

\* A running server ends it; a taken lock, or an occupied RCON port, ends it
\* and clears the flag whoever had set it.
AutoBegin ==
  /\ autoStart = "boot"
  /\ \/ ScanSays(FALSE) /\ Lock(AutoStart) /\ autoStart' = "launch" /\ starting' = TRUE
     \/ /\ ScanSays(FALSE)
        /\ lock # None \/ Faults
        /\ autoStart' = "done"
        /\ starting' = FALSE
        /\ UNCHANGED lock
     \/ ScanSays(TRUE) /\ autoStart' = "done" /\ UNCHANGED <<lock, starting>>
  /\ UNCHANGED <<game, online, veterans, rcon, run>>

AutoEnd == autoStart' = "done" /\ Unlock(AutoStart) /\ starting' = FALSE

AutoLaunch ==
  /\ autoStart = "launch"
  /\ UNCHANGED <<online, veterans, rcon, run>>
  /\ \/ ScanSays(FALSE) /\ StartTakes /\ autoStart' = "wait" /\ UNCHANGED <<lock, starting>>
     \/ (Faults \/ Visible) /\ UNCHANGED game /\ AutoEnd

\* Connected, 60 attempts over, or the runtime stopped.
AutoWait ==
  /\ autoStart = "wait"
  /\ MayGiveUp
  /\ AutoEnd
  /\ UNCHANGED <<game, online, veterans, rcon, run>>

AutoStep == AutoLaunch \/ AutoWait

-----------------------------------------------------------------------------
(* restartServerAction: its lock goes to the run, and to its own `finally'.*)

\* Mutant of RestartEnd: the `finally' removes whatever entry is there.
RestartEndUnchecked(r) ==
  /\ restart[r] = "running"
  /\ run.token # r
  /\ restart' = [restart EXCEPT ![r] = "idle"]
  /\ lock' = None
  /\ UNCHANGED <<gameVars, run>>

\* Refused if a restart is already active; deferred by run() (and released
\* later) if another kind of run is.
RestartBegin(r) ==
  /\ restart[r] = "idle"
  /\ Lock(r)
  /\ ~(Active /\ run.options.kind \in {"restart", "workshop"})
  /\ restart' = [restart EXCEPT ![r] = "running"]
  /\ \/ Active /\ UNCHANGED run
     \/ \E o \in Options : o.kind = "restart" /\ ~o.automatic /\ Begin(o, r)
  /\ UNCHANGED gameVars

\* The promise settled: the run is over or never began.
RestartEnd(r) ==
  /\ restart[r] = "running"
  /\ run.token # r
  /\ restart' = [restart EXCEPT ![r] = "idle"]
  /\ Unlock(r)
  /\ UNCHANGED <<gameVars, run>>

-----------------------------------------------------------------------------
\* A scheduled restart, the mod checker, the backup service and the update
\* checker call run() without a lock.
ScheduledRun == \E o \in Options : Begin(o, None) /\ UNCHANGED <<lock, gameVars>>

\* What each operation leaves alone.
GameOnly == UNCHANGED <<lock, run, actionVars>>
StartOnly == UNCHANGED <<stop, forceStop, autoStart, restart>>
StopOnly == UNCHANGED <<start, forceStop, autoStart, restart>>
ForceOnly == UNCHANGED <<start, stop, autoStart, restart>>
AutoOnly == UNCHANGED <<start, stop, forceStop, restart>>
RestartOnly == UNCHANGED <<start, stop, forceStop, autoStart>>

Next ==
  \/ GameNext /\ GameOnly
  \/ (RunStep \/ ScheduledRun \/ Cancel \/ Shutdown) /\ UNCHANGED actionVars
  \/ \E s \in Starts : (StartBegin(s) \/ StartStep(s)) /\ StartOnly
  \/ (StopBegin \/ StopStep) /\ StopOnly
  \/ (ForceBegin \/ ForceStep) /\ ForceOnly
  \/ (AutoBegin \/ AutoStep) /\ AutoOnly
  \/ \E r \in Restarts : (RestartBegin(r) \/ RestartEnd(r)) /\ RestartOnly

Spec == Init /\ [][Next]_vars

\* A spawned game becomes visible or dies, a quitting one exits, a dead
\* connection is noticed and a live game reconnected.
GameFairness ==
  /\ WF_vars(Boot /\ GameOnly)
  /\ WF_vars(Exit /\ GameOnly)
  /\ WF_vars(RconConnects /\ GameOnly)
  /\ WF_vars(RconDrops /\ GameOnly)

\* The event loop runs every suspended handler again once its await is over,
\* and the poll's and the wait's attempts are counted; requests, players and
\* operators owe nothing.
Fairness ==
  /\ GameFairness
  /\ WF_vars(RunStep /\ UNCHANGED actionVars)
  /\ \A s \in Starts :
       /\ WF_vars((StartChecks(s) \/ StartLaunch(s)) /\ StartOnly)
       /\ WF_vars(PollTick(s) /\ StartOnly)
       /\ SF_vars(PollGivesUp(s) /\ StartOnly)
       /\ SF_vars(PollFound(s) /\ StartOnly)
       /\ WF_vars(RconWaitEnds(s) /\ StartOnly)
  /\ WF_vars(StopStep /\ StopOnly)
  /\ WF_vars(ForceStep /\ ForceOnly)
  /\ WF_vars(AutoStep /\ AutoOnly)
  /\ \A r \in Restarts : WF_vars(RestartEnd(r) /\ RestartOnly)

FairSpec == Spec /\ Fairness
-----------------------------------------------------------------------------
(* Properties.                                                             *)

\* The awaits of a run between taking the lock and `finally' releasing it.
LockedPcs == Pcs \ {"idle", "initial", "prepare", "countdown", "acquire", "claim"}

\* The operations that may be acting on the server right now.
Operations ==
  (IF run.pc \in LockedPcs THEN {Maint} ELSE {})
    \cup {s \in Starts : start[s].held}
    \cup (IF stop = "idle" THEN {} ELSE {Stopper})
    \cup (IF forceStop = "idle" THEN {} ELSE {Forcer})
    \cup (IF autoStart \in {"launch", "wait"} THEN {AutoStart} ELSE {})

\* Who believes to hold the lock: whoever has not released its handle yet.
Holders ==
  ({run.token} \ {None})
    \cup {s \in Starts : start[s].held}
    \cup (IF stop = "idle" THEN {} ELSE {Stopper})
    \cup (IF forceStop = "idle" THEN {} ELSE {Forcer})
    \cup (IF autoStart \in {"launch", "wait"} THEN {AutoStart} ELSE {})

\* The inductive invariant behind mutual exclusion: whoever believes to hold
\* the lock has it, and a run acts on the server only with a lock of its own
\* or of the restart that called it (serverMaintenance.ts:172, :194).
LockInv ==
  /\ Holders \subseteq {lock}
  /\ run.pc \in LockedPcs \/ run.stopRequested => run.token # None

\* A maintenance run, a start with its background poll, a stop with its
\* monitor, a force-stop and the auto-start never act on the server at the
\* same time, whatever late releases the restart route still owes.
OneOperationAtATime == \A a, b \in Operations : a = b

\* Work (backup, game update) begins only once the game process is gone, and
\* nobody starts the game while it lasts.  The one exception is a game that the
\* last scan overlooked while RCON did not answer either: a scan that overlooks
\* a game RCON can be asked about is never believed (serverMaintenance.ts:197
\* and the cross-check at :64-67).
WorkOnStoppedServer ==
  [][run'.pc = "work" =>
       \/ game' = "down"
       \/ IF run.pc = "work" THEN game # "down"
                             ELSE run.scan = "missed" /\ ~PlayersKnown]_vars

\* An automatic run that may not force players never goes on to stop the
\* server while somebody is online who was already there when the world was
\* saved (serverMaintenance.ts:181).
NobodyStaysThroughTheStop ==
  run.pc = "stop" /\ run.options.automatic /\ ~run.force => veterans = {}

\* A run whose cancel() was answered with true never stops the server.
CancelledRunNeverStops == run.cancelled => ~run.stopRequested

\* On a native server `serverStarting', which silences the RCON auto-reconnect,
\* is set only while some operation holds the lock: no operation ends and
\* leaves it on for the 5-minute timer of rcon.ts:336 to find.  (The error path
\* of a managed start does, serverLifecycleActions.ts:165-172.)
StartingFlagIsOwned == starting => lock # None

\* A failed game update is never followed by a start of the half-updated
\* game by the same run (serverMaintenance.ts:205).
PartialUpdateStaysDown ==
  run.pc \in {"finally", "resume", "launch", "waitup"} /\ run.options.kind = "pz-update"
    => run.result = "ok"

RunReturns == run.pc # "idle" /\ run'.pc = "idle"

\* The inductive invariant of the run record: what each await of a run may
\* rely on.  A cancel is accepted only where an abort check still follows
\* before the stop; the server is stopped only if it was seen running; and
\* only a successful game update is on its way back up.
EarlyPcs == {"initial", "prepare", "countdown", "acquire", "recheck", "presave", "save",
             "postsave", "config"}
StoppingPcs == {"presave", "save", "postsave", "config", "stop", "waitdown"}
RunInv ==
  /\ run.cancelled => run.aborted
  /\ run.pc \in {"save", "postsave", "config"} => run.phase = "saving"
  /\ run.pc = "config" => ~run.cancelled
  /\ run.pc \in EarlyPcs => ~run.stopRequested
  /\ run.stopRequested => ~run.cancelled /\ run.phase \in {"stopping", "working", "starting"}
  /\ run.pc \in StoppingPcs \/ run.stopRequested => run.wasRunning
  /\ PartialUpdateStaysDown

\* A run that stopped the server and reports success leaves it visibly running.
SuccessMeansRunning ==
  [][RunReturns /\ run.stopRequested /\ run'.result = "ok" => Visible']_vars

Mutex == INSTANCE LifecycleMutex WITH
  Servers <- {"server"}, Owners <- Tokens, inside <- [s \in {"server"} |-> Holders]

\* All these operations use the lock as the abstract mutex: one believes to
\* hold it only when no other does, until its own release, whoever releases
\* late or twice.
LockIsMutex == Mutex!Spec

\* Every operation ends: no run goes on for ever, whatever is cancelled, refused
\* or interleaved, and nobody keeps the lock.
OperationsEnd ==
  /\ Active ~> ~Active
  /\ \A t \in Tokens : (lock = t) ~> (lock # t)

\* A server that a run took down comes back, unless the run is a game
\* update, even if the panel is shutting down or the backup fails
\* (serverMaintenance.test.ts: `resumes a running game even if a backup fails').
ServerComesBack ==
  (run.stopRequested /\ run.options.kind # "pz-update" /\ game = "down")
    ~> (game = "up")
=============================================================================
