-------------------------- MODULE ServerMaintenance --------------------------
(***************************************************************************)
(* services/serverMaintenance.ts: the one run at a time that brings a      *)
(* game server down safely (wait for players, warn, lock, save, stop),     *)
(* does its work on the stopped server and brings it back.  Restarts,      *)
(* Workshop restarts, backups and game updates all go through run().       *)
(*                                                                         *)
(* run.pc is the await the run is suspended in; one action is everything   *)
(* from one await to the next, so every other actor may step in between.   *)
(* Elapsed time is a choice: a deadline may pass at any iteration.         *)
(***************************************************************************)
EXTENDS GameServer

CONSTANTS
  Options,    \* the run() options the instance considers, out of RunOptions
  Restarts,   \* manual restart requests; each is also its lock token
  Others,     \* the other lock owners of the server
  Maint,      \* the token of a lock that run() acquired itself
  None        \* nobody

Kinds == {"restart", "workshop", "backup", "pz-update"}

\* What the callers pass: scheduler.performRestart (manual, or onlyWhenEmpty
\* with the default policy), modChecker (workshop, always automatic),
\* backupService (scheduled or not), updateChecker (never automatic).
RunOptions ==
  {o \in [kind: Kinds, automatic: BOOLEAN, forceAfterDeadline: BOOLEAN,
          warning: BOOLEAN] :
     /\ o.kind = "workshop" => o.automatic
     /\ o.kind = "pz-update" => ~o.automatic
     /\ o.kind = "backup" /\ ~o.automatic => ~o.warning
     /\ o.automatic => ~o.warning
     /\ o.forceAfterDeadline => o.automatic /\ o.kind # "restart"}
NoOptions == [kind |-> "none", automatic |-> FALSE, forceAfterDeadline |-> FALSE,
              warning |-> FALSE]

Tokens == {Maint} \cup Restarts \cup Others

ASSUME OptionsAssumption == Options \subseteq RunOptions
ASSUME TokensAssumption ==
  /\ Maint \notin Restarts \cup Others
  /\ Restarts \cap Others = {}
  /\ None \notin Tokens

VARIABLES
  lock,       \* this server's entry in the lifecycle lock map
  run         \* ServerMaintenance.active and the locals of run()

Idle == [pc |-> "idle", phase |-> "none", options |-> NoOptions, token |-> None,
         scan |-> "none", force |-> FALSE, wasRunning |-> FALSE, stopRequested |-> FALSE,
         aborted |-> FALSE, cancelled |-> FALSE, result |-> "none"]

Pcs == {"idle", "initial", "prepare", "countdown", "acquire", "recheck", "presave",
        "save", "postsave", "config", "stop", "waitdown", "claim", "verify", "work",
        "finally", "resume", "launch", "waitup"}
Phases == {"none", "waiting", "countdown", "saving", "stopping", "working", "starting"}

\* What the scan of a state() in progress found: nothing yet, no game because
\* none is visible, or no game although one is.
Scans == {"none", "down", "missed"}

Results == {"none", "ok", "fail"}
RunRecord == [pc: Pcs, phase: Phases, options: RunOptions \cup {NoOptions},
              token: {Maint, None} \cup Restarts, scan: Scans, force: BOOLEAN,
              wasRunning: BOOLEAN, stopRequested: BOOLEAN, aborted: BOOLEAN,
              cancelled: BOOLEAN, result: Results]

RunTypeOK == lock \in Tokens \cup {None} /\ run \in RunRecord

RunInit == lock = None /\ run = Idle

\* release() of a token: only its own entry is removed.
Released(t) == IF lock = t THEN None ELSE lock

-----------------------------------------------------------------------------
(* state(): two awaits, and whatever steps in between.                     *)

\* The awaits whose state() may find the server stopped and go on from there.
AskingPcs == {"initial", "prepare", "recheck", "waitdown", "verify", "finally"}

\* The process scan (or docker inspect) answers that nothing runs; what comes
\* of it is decided below.  An answer that the game runs is final at once.
Scan ==
  /\ run.pc \in AskingPcs
  /\ run.pc = "prepare" => run.options.automatic
  /\ run.scan = "none"
  /\ ScanSays(FALSE)
  /\ run' = [run EXCEPT !.scan = IF Visible THEN "missed" ELSE "down"]
  /\ UNCHANGED <<lock, gameVars>>

\* Mutant of StateIs: a scan that finds nothing is believed.
StateIsScan(running) ==
  IF running THEN run.scan = "none" /\ ScanSays(TRUE) ELSE run.scan # "none"

\* The answer of state().  For a native server that seems stopped getPlayers is
\* asked as well, if `connected' is still set: only its success tells that the
\* two disagree, which is an error; a failure is taken for a stopped server.
StateIs(running) ==
  IF running
    THEN run.scan = "none" /\ ScanSays(TRUE)
    ELSE run.scan # "none" /\ (Managed \/ ~PlayersKnown)

Disagree == ~Managed /\ PlayersKnown
StateFails == ScanFails \/ (run.scan # "none" /\ Disagree)

-----------------------------------------------------------------------------
(* Ends of a run.                                                          *)

\* Mutant of Finish: no release.
FinishKeepingLock(res) ==
  /\ run' = [Idle EXCEPT !.result = res]
  /\ UNCHANGED lock

\* The end of `finally': the lock is released and the run forgotten.
Finish(res) ==
  /\ run' = [Idle EXCEPT !.result = res]
  /\ lock' = Released(run.token)

\* Mutant of MustResume: a failed game update is started all the same.
MustResumeAlways(res) == run.stopRequested /\ run.wasRunning

\* Mutant of MustResume: only a success brings the server back.
MustResumeOnSuccess(res) == run.stopRequested /\ run.wasRunning /\ res = "ok"

\* Does `finally' have to look after a server this run asked to stop?
MustResume(res) ==
  /\ run.stopRequested
  /\ run.wasRunning
  /\ run.options.kind # "pz-update" \/ res = "ok"

\* Leaving the try block, by its end, its return or an exception.
Leave(res) ==
  IF MustResume(res)
    THEN /\ run' = [run EXCEPT !.pc = "finally", !.scan = "none", !.result = res]
         /\ UNCHANGED lock
    ELSE Finish(res)

Throw == Leave("fail")

\* To the next await; a state() in progress is over.
Goto(l) == run' = [run EXCEPT !.pc = l, !.scan = "none"] /\ UNCHANGED lock
Enter(l, ph) == run' = [run EXCEPT !.pc = l, !.scan = "none", !.phase = ph] /\ UNCHANGED lock

\* signal.throwIfAborted() before going on.
Unless(aborted, l) == IF aborted THEN Throw ELSE Goto(l)

-----------------------------------------------------------------------------
(* Calls from outside.                                                     *)

\* run() with a lock of the caller (t) or none.  While a run is active the
\* call is answered `deferred' and changes nothing.
Begin(o, t) ==
  /\ run.pc = "idle"
  /\ run' = [Idle EXCEPT !.pc = "initial", !.phase = "waiting", !.options = o,
                         !.token = t]

Active == run.pc # "idle"
Cancellable == Active /\ run.phase \in {"waiting", "countdown"}

\* Mutant of Cancel: any phase may be cancelled.
CancelAnyPhase ==
  /\ Active
  /\ run' = [run EXCEPT !.aborted = TRUE, !.cancelled = TRUE]
  /\ UNCHANGED <<lock, gameVars>>

\* cancel() that answers true; `cancelled' remembers the answer.
Cancel ==
  /\ Cancellable
  /\ run' = [run EXCEPT !.aborted = TRUE, !.cancelled = TRUE]
  /\ UNCHANGED <<lock, gameVars>>

\* shutdown() aborts in every phase and waits for the run.
Shutdown ==
  /\ Active
  /\ run' = [run EXCEPT !.aborted = TRUE]
  /\ UNCHANGED <<lock, gameVars>>

-----------------------------------------------------------------------------
(* Before the lock: state, players, warning.                               *)

\* The first state(): a running server needs RCON.
Initial ==
  /\ run.pc = "initial"
  /\ UNCHANGED gameVars
  /\ \/ StateFails /\ Throw
     \/ StateIs(TRUE) /\ IF rcon THEN Goto("prepare") ELSE Throw
     \/ StateIs(FALSE) /\ Goto("claim")

\* preparePlayers has answered: abort check, then `lock ||='.
Decide(force) ==
  IF run.aborted
    THEN Throw
    ELSE /\ run' = [run EXCEPT !.force = force, !.scan = "none",
                      !.pc = IF run.token = None THEN "acquire" ELSE "recheck"]
         /\ UNCHANGED lock

\* preparePlayers of a manual run: the count must be known; players present
\* are warned if the caller asked for a warning.
PrepareManual ==
  /\ run.pc = "prepare"
  /\ ~run.options.automatic
  /\ UNCHANGED gameVars
  /\ \/ PlayersUnknown /\ Throw
     \/ /\ PlayersKnown
        /\ IF run.options.warning /\ online # {}
             THEN Enter("countdown", "countdown")
             ELSE Decide(TRUE)

\* Mutant of PrepareAutomatic: the deadline is forgotten.
PrepareAutomaticWaits ==
  /\ run.pc = "prepare"
  /\ run.options.automatic
  /\ UNCHANGED gameVars
  /\ \/ (run.aborted \/ StateFails \/ PlayersUnknown) /\ Throw
     \/ ~run.aborted /\ StateIs(FALSE) /\ Decide(FALSE)
     \/ ~run.aborted /\ StateIs(TRUE) /\ PlayersKnown /\ online = {} /\ Decide(FALSE)

\* One iteration of preparePlayers' loop of an automatic run.  Iterating on
\* because players are there and time is left changes nothing.
PrepareAutomatic ==
  /\ run.pc = "prepare"
  /\ run.options.automatic
  /\ UNCHANGED gameVars
  /\ \/ (run.aborted \/ StateFails \/ PlayersUnknown) /\ Throw
     \/ /\ ~run.aborted
        /\ StateIs(FALSE)
        /\ Decide(FALSE)
     \/ /\ ~run.aborted
        /\ StateIs(TRUE)
        /\ PlayersKnown
        /\ \/ ~run.options.forceAfterDeadline /\ Throw
           \/ online = {} /\ Decide(FALSE)
           \/ /\ online # {}
              /\ run.options.forceAfterDeadline
              /\ Enter("countdown", "countdown")

\* A tick that fails, or the end of the countdown.
Countdown ==
  /\ run.pc = "countdown"
  /\ UNCHANGED gameVars
  /\ \/ (run.aborted \/ StateFails \/ PlayersUnknown) /\ Throw
     \/ Decide(TRUE)

-----------------------------------------------------------------------------
(* Lock, save, stop.                                                       *)

Take(l) ==
  /\ lock = None
  /\ lock' = Maint
  /\ run' = [run EXCEPT !.pc = l, !.scan = "none", !.token = Maint]

Acquire ==
  /\ run.pc = "acquire"
  /\ UNCHANGED gameVars
  /\ \/ (Faults \/ lock # None) /\ Throw
     \/ Take("recheck")

\* wasRunning = state(): the server may have gone down meanwhile.
Recheck ==
  /\ run.pc = "recheck"
  /\ UNCHANGED gameVars
  /\ \/ StateFails /\ Throw
     \/ StateIs(FALSE) /\ Unless(run.aborted, "verify")
     \/ /\ StateIs(TRUE)
        /\ UNCHANGED lock
        /\ run' = [run EXCEPT !.wasRunning = TRUE,
                     !.pc = IF run.options.automatic THEN "presave" ELSE "save",
                     !.phase = IF run.options.automatic THEN @ ELSE "saving"]

\* An automatic run that may not force the players counts them again.
MayDisturb == run.force \/ online = {}

Presave ==
  /\ run.pc = "presave"
  /\ UNCHANGED gameVars
  /\ \/ (PlayersUnknown \/ ~MayDisturb) /\ Throw
     \/ PlayersKnown /\ MayDisturb /\ Enter("save", "saving")

Save ==
  /\ run.pc = "save"
  /\ \/ SaveRefused /\ Throw /\ UNCHANGED gameVars
     \/ SaveTaken /\ Faults /\ Saved /\ Throw
     \/ SaveTaken /\ Saved /\ IF run.options.automatic
                                THEN Goto("postsave")
                                ELSE Unless(run.aborted, "config")

\* Mutant of Postsave: players are counted before the save only.
PostsaveUnchecked ==
  /\ run.pc = "postsave"
  /\ UNCHANGED gameVars
  /\ \/ PlayersUnknown /\ Throw
     \/ PlayersKnown /\ Unless(run.aborted, "config")

Postsave ==
  /\ run.pc = "postsave"
  /\ UNCHANGED gameVars
  /\ \/ (PlayersUnknown \/ ~MayDisturb) /\ Throw
     \/ PlayersKnown /\ MayDisturb /\ Unless(run.aborted, "config")

\* backupConfig; from here on the stop is requested.
Config ==
  /\ run.pc = "config"
  /\ UNCHANGED gameVars
  /\ \/ Faults /\ Throw
     \/ /\ run' = [run EXCEPT !.pc = "stop", !.phase = "stopping",
                              !.stopRequested = TRUE]
        /\ UNCHANGED lock

\* The stop call's answer; a failed one may have reached the game or not.
Stop ==
  /\ run.pc = "stop"
  /\ UNCHANGED <<rcon, starting>>
  /\ \/ StopFails /\ Throw /\ UNCHANGED <<game, online, veterans>>
     \/ StopTakes /\ (Goto("waitdown") \/ (Faults /\ Throw))

\* waitForState(false, 60 s, signal).
Waitdown ==
  /\ run.pc = "waitdown"
  /\ UNCHANGED gameVars
  /\ \/ (run.aborted \/ StateFails \/ (SlowStop /\ Visible)) /\ Throw
     \/ StateIs(FALSE) /\ Unless(run.aborted, "verify")

-----------------------------------------------------------------------------
(* Work on the stopped server.                                             *)

\* The server was not running: `lock ||= acquire', then the abort check.
Claim ==
  /\ run.pc = "claim"
  /\ UNCHANGED gameVars
  /\ \/ (Faults \/ run.aborted \/ (run.token = None /\ lock # None)) /\ Throw
     \/ ~run.aborted /\ run.token = None /\ Take("verify")
     \/ ~run.aborted /\ run.token # None /\ Goto("verify")

\* Mutant of Verify: no second look at the server once the lock is held.
VerifyUnchecked ==
  /\ run.pc = "verify"
  /\ UNCHANGED gameVars
  /\ Enter("work", "working")

\* Still stopped, now under the lock.  An automatic restart has nothing to
\* do for a server that was down anyway.
Verify ==
  /\ run.pc = "verify"
  /\ UNCHANGED gameVars
  /\ \/ (StateFails \/ StateIs(TRUE)) /\ Throw
     \/ /\ StateIs(FALSE)
        /\ IF /\ ~run.wasRunning
              /\ run.options.automatic
              /\ run.options.kind \in {"restart", "workshop"}
             THEN Leave("ok")
             ELSE Enter("work", "working")

\* options.work, done or failed; restarts have none.  A manual restart of a
\* stopped server starts it.
Work ==
  /\ run.pc = "work"
  /\ UNCHANGED gameVars
  /\ \E res \in {"ok", "fail"} :
       /\ run.options.kind \in {"restart", "workshop"} => res = "ok"
       /\ IF /\ run.options.kind = "restart"
             /\ ~run.wasRunning
             /\ ~run.options.automatic
            THEN /\ run' = [run EXCEPT !.pc = "resume", !.result = res]
                 /\ UNCHANGED lock
            ELSE Leave(res)

-----------------------------------------------------------------------------
(* Bringing the server back.                                               *)

\* Mutant of Finally: the server is not started.
FinallyForgets ==
  /\ run.pc = "finally"
  /\ UNCHANGED gameVars
  /\ Finish(run.result)

\* `finally', for a server this run asked to stop.
Finally ==
  /\ run.pc = "finally"
  /\ UNCHANGED gameVars
  /\ \/ StateFails /\ Finish("fail")
     \/ StateIs(TRUE) /\ Finish(run.result)
     \/ StateIs(FALSE) /\ Goto("resume")

\* resumeServer up to the start: its own checks may refuse.
Resume ==
  /\ run.pc = "resume"
  /\ UNCHANGED <<game, online, veterans, rcon>>
  /\ \/ Faults /\ Finish("fail") /\ UNCHANGED starting
     \/ Enter("launch", "starting") /\ starting' = TRUE

\* The start call; its failure may still have spawned the game.
Launch ==
  /\ run.pc = "launch"
  /\ UNCHANGED <<online, veterans, rcon>>
  /\ \/ /\ StartAnswers
        /\ StartTakes
        /\ \/ Goto("waitup") /\ UNCHANGED starting
           \/ Faults /\ LostBoot /\ Finish("fail") /\ starting' = FALSE
     \/ /\ Faults \/ ~StartAnswers
        /\ Finish("fail")
        /\ starting' = FALSE
        /\ UNCHANGED game

\* waitForState(true, 60 s), without the signal.  Its state() may also find the
\* game in RCON and not in the scan, which ends the wait as an error.
Waitup ==
  /\ run.pc = "waitup"
  /\ UNCHANGED <<game, online, veterans, rcon>>
  /\ starting' = FALSE
  /\ \/ (StateFails \/ ~Visible \/ Disagree) /\ MayGiveUp /\ Finish("fail")
     \/ StateIs(TRUE) /\ Finish(run.result)

RunStep ==
  \/ Scan
  \/ Initial \/ PrepareManual \/ PrepareAutomatic \/ Countdown
  \/ Acquire \/ Recheck \/ Presave \/ Save \/ Postsave \/ Config \/ Stop \/ Waitdown
  \/ Claim \/ Verify \/ Work
  \/ Finally \/ Resume \/ Launch \/ Waitup
=============================================================================
