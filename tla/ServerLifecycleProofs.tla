------------------------ MODULE ServerLifecycleProofs ------------------------
(***************************************************************************)
(* For any players, requests, options and switches: the types of           *)
(* ServerLifecycle, mutual exclusion of everything that acts on the        *)
(* server, and what a run promises about cancelling, partial updates,      *)
(* success, players and the stopped server.  Every safety property follows *)
(* from inductive invariants: LockInv (who has the lock), RunInv (what an  *)
(* await may rely on), StartInv and FlagInv (who answers for the flag),    *)
(* VeteransInv (who was there at the save), BootInv (who waits for a boot).*)
(***************************************************************************)
EXTENDS ServerLifecycle, TLAPS

LEMMA Constants ==
  /\ Maint \in Tokens /\ None \notin Tokens /\ Maint # None
  /\ Maint \notin Restarts /\ Maint \notin Others
  /\ Restarts \cap Others = {} /\ None \notin Restarts /\ None \notin Others
  /\ Restarts \subseteq Tokens /\ Others \subseteq Tokens
  /\ Starts \subseteq Others
  /\ Stopper \in Others /\ Forcer \in Others /\ AutoStart \in Others
  /\ Stopper # Forcer /\ Stopper # AutoStart /\ Forcer # AutoStart
  /\ Stopper \notin Starts /\ Forcer \notin Starts /\ AutoStart \notin Starts
BY TokensAssumption, OthersAssumption DEF Tokens

-----------------------------------------------------------------------------
(* Types of the run.                                                       *)

LEMMA IdleType == Idle \in RunRecord
BY DEF Idle, RunRecord, Pcs, Phases, Results, Scans

LEMMA FinishType ==
  ASSUME RunTypeOK, NEW res \in Results, Finish(res)
  PROVE  RunTypeOK'
BY IdleType DEF RunTypeOK, RunRecord, Finish, Released

LEMMA GotoType ==
  ASSUME RunTypeOK, NEW l \in Pcs, Goto(l)
  PROVE  RunTypeOK'
BY DEF RunTypeOK, RunRecord, Goto, Scans

LEMMA EnterType ==
  ASSUME RunTypeOK, NEW l \in Pcs, NEW ph \in Phases, Enter(l, ph)
  PROVE  RunTypeOK'
BY DEF RunTypeOK, RunRecord, Enter, Scans

LEMMA LeaveType ==
  ASSUME RunTypeOK, NEW res \in Results, Leave(res)
  PROVE  RunTypeOK'
<1>0. "finally" \in Pcs
  BY DEF Pcs
<1>1. CASE MustResume(res)
  <2>1. /\ run' = [run EXCEPT !.pc = "finally", !.scan = "none", !.result = res]
        /\ lock' = lock
    BY <1>1 DEF Leave
  <2>2. "none" \in Scans
    BY DEF Scans
  <2> QED
    BY <1>0, <2>1, <2>2 DEF RunTypeOK, RunRecord
<1>2. CASE ~MustResume(res)
  BY <1>2, FinishType DEF Leave
<1> QED
  BY <1>1, <1>2

LEMMA ThrowType ==
  ASSUME RunTypeOK, Throw
  PROVE  RunTypeOK'
BY LeaveType DEF Throw, Results

LEMMA DecideType ==
  ASSUME RunTypeOK, NEW force \in BOOLEAN, Decide(force)
  PROVE  RunTypeOK'
<1>0. "acquire" \in Pcs /\ "recheck" \in Pcs
  BY DEF Pcs
<1>1. CASE run.aborted
  BY <1>1, ThrowType DEF Decide
<1>2. CASE ~run.aborted
  <2>1. PICK l \in Pcs : run' = [run EXCEPT !.force = force, !.scan = "none", !.pc = l]
    BY <1>0, <1>2 DEF Decide
  <2>2. UNCHANGED lock
    BY <1>2 DEF Decide
  <2> QED
    BY <2>1, <2>2 DEF RunTypeOK, RunRecord, Scans
<1> QED
  BY <1>1, <1>2

LEMMA TakeType ==
  ASSUME RunTypeOK, NEW l \in Pcs, Take(l)
  PROVE  RunTypeOK'
BY DEF RunTypeOK, RunRecord, Take, Tokens, Scans

LEMMA UnlessType ==
  ASSUME RunTypeOK, NEW aborted, NEW l \in Pcs, Unless(aborted, l)
  PROVE  RunTypeOK'
BY ThrowType, GotoType DEF Unless

LEMMA BeginType ==
  ASSUME RunTypeOK, NEW o \in Options, NEW t \in {None} \cup Restarts, Begin(o, t),
         lock' \in Tokens \cup {None}
  PROVE  RunTypeOK'
BY OptionsAssumption, IdleType DEF RunTypeOK, RunRecord, Begin, Pcs, Phases

\* Every step of a run keeps the types of the run.
LEMMA RunStepRunType ==
  ASSUME RunTypeOK, RunStep
  PROVE  RunTypeOK'
<1> USE DEF Pcs, Phases, Results
<1>1. CASE Initial
  BY <1>1, ThrowType, GotoType DEF Initial
<1>2. CASE PrepareManual
  BY <1>2, ThrowType, EnterType, DecideType DEF PrepareManual
<1>3. CASE PrepareAutomatic
  BY <1>3, ThrowType, EnterType, DecideType DEF PrepareAutomatic
<1>4. CASE Countdown
  BY <1>4, ThrowType, DecideType DEF Countdown
<1>5. CASE Acquire
  BY <1>5, ThrowType, TakeType DEF Acquire
<1>6. CASE Recheck
  <2>1. CASE Throw \/ Unless(run.aborted, "verify")
    BY <2>1, ThrowType, UnlessType
  <2>2. CASE ~(Throw \/ Unless(run.aborted, "verify"))
    BY <1>6, <2>2 DEF Recheck, RunTypeOK, RunRecord
  <2> QED
    BY <2>1, <2>2
<1>7. CASE Presave
  BY <1>7, ThrowType, EnterType DEF Presave
<1>8. CASE Save
  BY <1>8, ThrowType, GotoType, UnlessType DEF Save
<1>9. CASE Postsave
  BY <1>9, ThrowType, UnlessType DEF Postsave
<1>10. CASE Config
  <2>1. CASE Throw
    BY <2>1, ThrowType
  <2>2. CASE ~Throw
    BY <1>10, <2>2 DEF Config, RunTypeOK, RunRecord
  <2> QED
    BY <2>1, <2>2
<1>11. CASE Stop
  BY <1>11, ThrowType, GotoType DEF Stop
<1>12. CASE Waitdown
  BY <1>12, ThrowType, UnlessType DEF Waitdown
<1>13. CASE Claim
  BY <1>13, ThrowType, TakeType, GotoType DEF Claim
<1>14. CASE Verify
  BY <1>14, ThrowType, LeaveType, EnterType DEF Verify
<1>15. CASE Work
  <2>1. PICK res \in Results :
          \/ run' = [run EXCEPT !.pc = "resume", !.result = res] /\ UNCHANGED lock
          \/ Leave(res)
    BY <1>15 DEF Work
  <2>2. CASE Leave(res)
    BY <2>2, LeaveType
  <2>3. CASE run' = [run EXCEPT !.pc = "resume", !.result = res] /\ UNCHANGED lock
    BY <2>3 DEF RunTypeOK, RunRecord
  <2> QED
    BY <2>1, <2>2, <2>3
<1>16. CASE Finally
  BY <1>16, FinishType, GotoType DEF Finally, RunTypeOK, RunRecord
<1>17. CASE Resume
  BY <1>17, FinishType, EnterType DEF Resume
<1>18. CASE Launch
  BY <1>18, FinishType, GotoType DEF Launch
<1>19. CASE Waitup
  BY <1>19, FinishType DEF Waitup, RunTypeOK, RunRecord
<1>20. CASE Scan
  BY <1>20 DEF Scan, RunTypeOK, RunRecord, Scans
<1> QED
  BY <1>1, <1>2, <1>3, <1>4, <1>5, <1>6, <1>7, <1>8, <1>9, <1>10, <1>11, <1>12,
     <1>13, <1>14, <1>15, <1>16, <1>17, <1>18, <1>19, <1>20 DEF RunStep

\* ... and of the game.
LEMMA RunStepGameType ==
  ASSUME GameTypeOK, RunStep
  PROVE  GameTypeOK'
<1>1. CASE UNCHANGED gameVars
  BY <1>1 DEF gameVars, GameTypeOK
<1>2. CASE Save
  BY <1>2 DEF Save, Saved, GameTypeOK, gameVars
<1>3. CASE Stop
  BY <1>3 DEF Stop, StopTakes, GameGone, GameTypeOK
<1>4. CASE Resume
  BY <1>4 DEF Resume, GameTypeOK
<1>5. CASE Launch
  BY <1>5 DEF Launch, StartTakes, GameTypeOK
<1>6. CASE Waitup
  BY <1>6 DEF Waitup, GameTypeOK
<1> QED
  BY <1>1, <1>2, <1>3, <1>4, <1>5, <1>6
  DEF RunStep, Scan, Initial, PrepareManual, PrepareAutomatic, Countdown, Acquire, Recheck,
      Presave, Postsave, Config, Waitdown, Claim, Verify, Work, Finally

-----------------------------------------------------------------------------
(* Types of the other operations.                                          *)

StartTypeOK == start \in [Starts -> [pc: StartPcs, ticks: 0..MaxTicks,
                                     waits: 0..MaxTicks, held: BOOLEAN]]

LEMMA UnlockType ==
  ASSUME RunTypeOK, NEW t, Unlock(t)
  PROVE  lock' \in Tokens \cup {None}
BY DEF RunTypeOK, Unlock, Released

LEMMA SetStartType ==
  ASSUME StartTypeOK, NEW s \in Starts,
         NEW r \in [pc: StartPcs, ticks: 0..MaxTicks, waits: 0..MaxTicks, held: BOOLEAN],
         SetStart(s, r)
  PROVE  StartTypeOK'
BY MaxTicksAssumption DEF StartTypeOK, SetStart, Settled, NoStart, StartPcs

LEMMA StartStepType ==
  ASSUME StartTypeOK, RunTypeOK, GameTypeOK, NEW s \in Starts, StartBegin(s) \/ StartStep(s)
  PROVE  StartTypeOK' /\ lock' \in Tokens \cup {None} /\ run' = run /\ GameTypeOK'
<1> DEFINE Rec == [pc: StartPcs, ticks: 0..MaxTicks, waits: 0..MaxTicks, held: BOOLEAN]
<1>0. /\ start[s] \in Rec
      /\ NoStart \in Rec
      /\ \A x \in 0..MaxTicks : x > 0 => x - 1 \in 0..MaxTicks
      /\ \A x \in 0..MaxTicks : x < MaxTicks => x + 1 \in 0..MaxTicks
  BY MaxTicksAssumption DEF StartTypeOK, NoStart, StartPcs
<1>1. CASE StartBegin(s)
  BY <1>0, <1>1, Constants DEF StartBegin, Lock, StartTypeOK, StartPcs, GameTypeOK, gameVars
<1>2. CASE StartChecks(s)
  <2>1. CASE StartThrows(s)
    BY <1>0, <1>2, <2>1, SetStartType, UnlockType DEF StartChecks, StartThrows, GameTypeOK, gameVars
  <2>2. CASE ~StartThrows(s)
    BY <1>0, <1>2, <2>2 DEF StartChecks, StartTypeOK, StartPcs, GameTypeOK, gameVars, RunTypeOK
  <2> QED
    BY <2>1, <2>2
<1>3. CASE StartLaunch(s)
  <2>1. CASE StartThrows(s) /\ UNCHANGED <<game, starting>>
    BY <1>0, <1>3, <2>1, SetStartType, UnlockType DEF StartLaunch, StartThrows, GameTypeOK
  <2>2. CASE ~(StartThrows(s) /\ UNCHANGED <<game, starting>>)
    <3> DEFINE r == [start[s] EXCEPT !.pc = IF Managed THEN "drain" ELSE "poll",
                                     !.waits = IF Managed THEN 1 ELSE 0]
    <3>1. r \in Rec
      <4>1. 0 \in 0..MaxTicks /\ 1 \in 0..MaxTicks
        BY MaxTicksAssumption
      <4>2. (IF Managed THEN "drain" ELSE "poll") \in StartPcs
        BY DEF StartPcs
      <4>3. (IF Managed THEN 1 ELSE 0) \in 0..MaxTicks
        BY <4>1
      <4> QED
        BY <1>0, <4>2, <4>3
    <3>2. /\ SetStart(s, r) /\ StartTakes /\ starting' = TRUE
          /\ UNCHANGED <<lock, run, online, veterans, rcon>>
      BY <1>3, <2>2 DEF StartLaunch
    <3>3. StartTypeOK'
      BY <3>1, <3>2, SetStartType
    <3> QED
      BY <3>2, <3>3 DEF StartTakes, GameTypeOK, RunTypeOK
  <2> QED
    BY <2>1, <2>2
<1>4. CASE PollTick(s)
  BY <1>0, <1>4 DEF PollTick, StartTypeOK, GameTypeOK, gameVars, RunTypeOK
<1>5. start[s].ticks > 0 => Answered(s) \in Rec
  BY <1>0 DEF Answered
<1>6. CASE PollMissed(s)
  BY <1>5, <1>6, SetStartType DEF PollMissed, NotSeen, GameTypeOK, RunTypeOK
<1>7. CASE PollGivesUp(s)
  <2>1. [Answered(s) EXCEPT !.pc = "drain", !.held = FALSE] \in Rec
    BY <1>5, <1>7 DEF PollGivesUp, NotSeen, StartPcs
  <2> QED
    BY <1>7, <2>1, SetStartType, UnlockType DEF PollGivesUp, NotSeen, GiveUp, GameTypeOK
<1>8. CASE PollFound(s)
  <2>1. [Answered(s) EXCEPT !.pc = "drain", !.waits = @ + 1] \in Rec
    BY <1>0, <1>5, <1>8 DEF PollFound, Answered, StartPcs
  <2> QED
    BY <1>8, <2>1, SetStartType DEF PollFound, GameTypeOK, gameVars, RunTypeOK
<1>9. CASE RconAttempt(s)
  BY <1>9 DEF RconAttempt, StartTypeOK, GameTypeOK, RunTypeOK
<1>10. CASE RconWaitEnds(s)
  <2> DEFINE r == [start[s] EXCEPT !.waits = @ - 1]
  <2>1. [r EXCEPT !.pc = "drain", !.held = FALSE] \in Rec
    BY <1>0, <1>10 DEF RconWaitEnds, StartPcs
  <2>2. SetStart(s, [r EXCEPT !.pc = "drain", !.held = FALSE])
    BY <1>10 DEF RconWaitEnds, GiveUp
  <2>3. StartTypeOK'
    BY <2>1, <2>2, SetStartType
  <2> QED
    BY <1>10, <2>3, UnlockType DEF RconWaitEnds, GiveUp, GameTypeOK
<1>11. CASE RconWaitThrows(s)
  <2>1. [start[s] EXCEPT !.pc = "drain", !.held = FALSE, !.waits = @ - 1] \in Rec
    BY <1>0, <1>11 DEF RconWaitThrows, StartPcs
  <2>2. StartTypeOK'
    BY <1>11, <2>1, SetStartType DEF RconWaitThrows
  <2> QED
    BY <1>11, <2>2, UnlockType DEF RconWaitThrows, GameTypeOK, gameVars
<1> QED
  BY <1>1, <1>2, <1>3, <1>4, <1>6, <1>7, <1>8, <1>9, <1>10, <1>11 DEF StartStep

LEMMA GameStepType ==
  ASSUME GameTypeOK, GameNext
  PROVE  GameTypeOK'
BY DEF GameTypeOK, GameNext, Boot, Exit, Crash, Join, LeaveGame, RconConnects, RconDrops,
       StartingExpires, OutsideStart, GameGone

LEMMA OtherStepType ==
  ASSUME TypeOK,
         \/ StopBegin \/ StopStep
         \/ ForceBegin \/ ForceStep
         \/ AutoBegin \/ AutoStep
         \/ \E r \in Restarts : RestartBegin(r) \/ RestartEnd(r)
  PROVE  GameTypeOK' /\ RunTypeOK'
<1> USE DEF TypeOK
<1>0. RunTypeOK /\ GameTypeOK
  OBVIOUS
<1>1. CASE StopBegin \/ StopStep
  BY <1>0, <1>1, Constants, UnlockType
  DEF StopBegin, StopStep, StopSave, StopCall, StopMonitor, StopIdle, Lock, Saved, StopTakes,
      GameGone, GameTypeOK, gameVars, RunTypeOK
<1>2. CASE ForceBegin \/ ForceStep
  BY <1>0, <1>2, Constants, UnlockType
  DEF ForceBegin, ForceStep, ForceSave, ForceStop, Lock, Saved, GameGone, GameTypeOK,
      gameVars, RunTypeOK
<1>3. CASE AutoBegin \/ AutoStep
  BY <1>0, <1>3, Constants, UnlockType
  DEF AutoBegin, AutoStep, AutoLaunch, AutoWait, AutoEnd, Lock, StartTakes, GameTypeOK, RunTypeOK
<1>4. ASSUME NEW r \in Restarts, RestartBegin(r) PROVE GameTypeOK' /\ RunTypeOK'
  <2>1. lock' \in Tokens \cup {None}
    BY <1>4, Constants DEF RestartBegin, Lock
  <2>2. CASE UNCHANGED run
    BY <1>0, <1>4, <2>1, <2>2 DEF RestartBegin, GameTypeOK, gameVars, RunTypeOK
  <2>3. CASE ~UNCHANGED run
    <3>1. PICK o \in Options : Begin(o, r)
      BY <1>4, <2>3 DEF RestartBegin
    <3>2. RunTypeOK'
      BY <1>0, <2>1, <3>1, BeginType
    <3> QED
      BY <1>0, <1>4, <3>2 DEF RestartBegin, GameTypeOK, gameVars
  <2> QED
    BY <2>2, <2>3
<1>5. ASSUME NEW r \in Restarts, RestartEnd(r) PROVE GameTypeOK' /\ RunTypeOK'
  BY <1>0, <1>5, UnlockType DEF RestartEnd, GameTypeOK, gameVars, RunTypeOK
<1> QED
  BY <1>1, <1>2, <1>3, <1>4, <1>5

\* cancel() and shutdown() only set flags.
LEMMA AbortType ==
  ASSUME TypeOK, Cancel \/ Shutdown
  PROVE  GameTypeOK' /\ RunTypeOK'
BY ZenonT(60) DEF TypeOK, Cancel, Shutdown, RunTypeOK, RunRecord, GameTypeOK, gameVars

LEMMA TypeStep ==
  ASSUME TypeOK, [Next]_vars
  PROVE  TypeOK'
<1> USE DEF TypeOK
<1>1. CASE GameNext /\ GameOnly
  BY <1>1, GameStepType DEF GameOnly, actionVars, RunTypeOK
<1>2. CASE RunStep /\ UNCHANGED actionVars
  BY <1>2, RunStepRunType, RunStepGameType DEF actionVars
<1>3. CASE ScheduledRun /\ UNCHANGED actionVars
  <2>1. PICK o \in Options : Begin(o, None) /\ UNCHANGED <<lock, gameVars>>
    BY <1>3 DEF ScheduledRun
  <2>2. RunTypeOK'
    BY <2>1, BeginType DEF RunTypeOK
  <2> QED
    BY <1>3, <2>1, <2>2 DEF actionVars, gameVars, GameTypeOK
<1>4. CASE (Cancel \/ Shutdown) /\ UNCHANGED actionVars
  BY <1>4, AbortType DEF actionVars
<1>5. ASSUME NEW s \in Starts, StartBegin(s) \/ StartStep(s), StartOnly PROVE TypeOK'
  <2>1. RunTypeOK /\ GameTypeOK /\ StartTypeOK
    BY DEF StartTypeOK
  <2>2. StartTypeOK' /\ lock' \in Tokens \cup {None} /\ run' = run /\ GameTypeOK'
    BY <1>5, <2>1, StartStepType
  <2> QED
    BY <1>5, <2>1, <2>2 DEF StartOnly, StartTypeOK, RunTypeOK
<1>6. CASE (StopBegin \/ StopStep) /\ StopOnly
  <2>1. stop' \in {"idle", "save", "stop", "monitor"}
    BY <1>6 DEF StopBegin, StopStep, StopSave, StopCall, StopMonitor, StopIdle
  <2> QED
    BY <1>6, <2>1, OtherStepType DEF StopOnly
<1>7. CASE (ForceBegin \/ ForceStep) /\ ForceOnly
  <2>1. forceStop' \in {"idle", "save", "stop"}
    BY <1>7 DEF ForceBegin, ForceStep, ForceSave, ForceStop
  <2> QED
    BY <1>7, <2>1, OtherStepType DEF ForceOnly
<1>8. CASE (AutoBegin \/ AutoStep) /\ AutoOnly
  <2>1. autoStart' \in {"boot", "launch", "wait", "done"}
    BY <1>8 DEF AutoBegin, AutoStep, AutoLaunch, AutoWait, AutoEnd
  <2> QED
    BY <1>8, <2>1, OtherStepType DEF AutoOnly
<1>9. ASSUME NEW r \in Restarts, RestartBegin(r) \/ RestartEnd(r), RestartOnly PROVE TypeOK'
  <2>1. restart' \in [Restarts -> {"idle", "running"}]
    BY <1>9 DEF RestartBegin, RestartEnd
  <2> QED
    BY <1>9, <2>1, OtherStepType DEF RestartOnly
<1>10. CASE UNCHANGED vars
  BY <1>10 DEF vars, gameVars, actionVars, GameTypeOK, RunTypeOK
<1> QED
  BY <1>1, <1>2, <1>3, <1>4, <1>5, <1>6, <1>7, <1>8, <1>9, <1>10 DEF Next

\* Every variable keeps its type, for any instance.
THEOREM TypeCorrect == Spec => []TypeOK
<1>1. ASSUME Init PROVE TypeOK
  <2>1. NoStart \in [pc: StartPcs, ticks: 0..MaxTicks, waits: 0..MaxTicks, held: BOOLEAN]
    BY MaxTicksAssumption DEF NoStart, StartPcs
  <2>2. GameTypeOK
    BY <1>1 DEF Init, GameInit, GameTypeOK
  <2>3. RunTypeOK
    BY <1>1, IdleType DEF Init, RunInit, RunTypeOK
  <2> QED
    BY <1>1, <2>1, <2>2, <2>3 DEF Init, TypeOK
<1> QED
  BY <1>1, TypeStep, PTL DEF Spec

-----------------------------------------------------------------------------
(* Mutual exclusion.                                                       *)

\* LockInv, the run's part of it, and what a step may do to the lock of others.
RunLock ==
  /\ run.token # None => lock = run.token
  /\ run.pc \in LockedPcs \/ run.stopRequested => run.token # None
OthersKeep == \A t \in Others : lock = t => lock' = t

LEMMA FinishLock ==
  ASSUME RunTypeOK, NEW res, Finish(res)
  PROVE  RunLock' /\ OthersKeep
<1>1. run.token \notin Others
  BY Constants DEF RunTypeOK, RunRecord
<1>2. run'.token = None /\ run'.pc = "idle" /\ run'.stopRequested = FALSE
  BY DEF Finish, Idle
<1> QED
  BY <1>1, <1>2 DEF RunLock, OthersKeep, Finish, Released, LockedPcs

LEMMA GotoLock ==
  ASSUME RunTypeOK, RunLock, NEW l, Goto(l), l \in LockedPcs => run.token # None
  PROVE  RunLock' /\ OthersKeep
BY DEF RunTypeOK, RunRecord, RunLock, OthersKeep, Goto

LEMMA EnterLock ==
  ASSUME RunTypeOK, RunLock, NEW l, NEW ph, Enter(l, ph), l \in LockedPcs => run.token # None
  PROVE  RunLock' /\ OthersKeep
BY DEF RunTypeOK, RunRecord, RunLock, OthersKeep, Enter

LEMMA LeaveLock ==
  ASSUME RunTypeOK, RunLock, NEW res, Leave(res)
  PROVE  RunLock' /\ OthersKeep
<1>1. CASE MustResume(res)
  BY <1>1 DEF RunTypeOK, RunRecord, RunLock, OthersKeep, Leave, MustResume
<1>2. CASE ~MustResume(res)
  BY <1>2, FinishLock DEF Leave
<1> QED
  BY <1>1, <1>2

LEMMA ThrowLock ==
  ASSUME RunTypeOK, RunLock, Throw
  PROVE  RunLock' /\ OthersKeep
BY LeaveLock DEF Throw

LEMMA TakeLock ==
  ASSUME RunTypeOK, NEW l, Take(l)
  PROVE  RunLock' /\ OthersKeep
BY Constants DEF RunTypeOK, RunRecord, RunLock, OthersKeep, Take

LEMMA UnlessLock ==
  ASSUME RunTypeOK, RunLock, NEW aborted, NEW l, Unless(aborted, l),
         l \in LockedPcs => run.token # None
  PROVE  RunLock' /\ OthersKeep
BY ThrowLock, GotoLock DEF Unless

LEMMA DecideLock ==
  ASSUME RunTypeOK, RunLock, NEW force, Decide(force)
  PROVE  RunLock' /\ OthersKeep
<1>1. CASE run.aborted
  BY <1>1, ThrowLock DEF Decide
<1>2. CASE ~run.aborted
  BY <1>2 DEF Decide, RunTypeOK, RunRecord, RunLock, OthersKeep, LockedPcs
<1> QED
  BY <1>1, <1>2

LEMMA RunStepLock ==
  ASSUME RunTypeOK, RunLock, RunStep
  PROVE  RunLock' /\ OthersKeep
<1>0. \A l \in Pcs \ {"idle", "initial", "prepare", "countdown", "acquire", "claim"} :
         run.pc = l => run.token # None
  BY DEF RunLock, LockedPcs
<1> USE DEF Pcs, LockedPcs
<1>1. CASE Initial
  BY <1>1, ThrowLock, GotoLock DEF Initial
<1>2. CASE PrepareManual
  BY <1>2, ThrowLock, EnterLock, DecideLock DEF PrepareManual
<1>3. CASE PrepareAutomatic
  BY <1>3, ThrowLock, EnterLock, DecideLock DEF PrepareAutomatic
<1>4. CASE Countdown
  BY <1>4, ThrowLock, DecideLock DEF Countdown
<1>5. CASE Acquire
  BY <1>5, ThrowLock, TakeLock DEF Acquire
<1>6. CASE Recheck
  <2>1. run.token # None
    BY <1>0, <1>6 DEF Recheck
  <2>2. CASE Throw \/ Unless(run.aborted, "verify")
    BY <2>1, <2>2, ThrowLock, UnlessLock
  <2>3. CASE ~(Throw \/ Unless(run.aborted, "verify"))
    BY <1>6, <2>1, <2>3 DEF Recheck, RunTypeOK, RunRecord, RunLock, OthersKeep
  <2> QED
    BY <2>2, <2>3
<1>7. CASE Presave
  BY <1>0, <1>7, ThrowLock, EnterLock DEF Presave
<1>8. CASE Save
  BY <1>0, <1>8, ThrowLock, GotoLock, UnlessLock DEF Save
<1>9. CASE Postsave
  BY <1>0, <1>9, ThrowLock, UnlessLock DEF Postsave
<1>10. CASE Config
  <2>1. run.token # None
    BY <1>0, <1>10 DEF Config
  <2>2. CASE Throw
    BY <2>2, ThrowLock
  <2>3. CASE ~Throw
    BY <1>10, <2>1, <2>3 DEF Config, RunTypeOK, RunRecord, RunLock, OthersKeep
  <2> QED
    BY <2>2, <2>3
<1>11. CASE Stop
  BY <1>0, <1>11, ThrowLock, GotoLock DEF Stop
<1>12. CASE Waitdown
  BY <1>0, <1>12, ThrowLock, UnlessLock DEF Waitdown
<1>13. CASE Claim
  BY <1>13, ThrowLock, TakeLock, GotoLock DEF Claim
<1>14. CASE Verify
  BY <1>0, <1>14, ThrowLock, LeaveLock, EnterLock DEF Verify
<1>15. CASE Work
  <2>1. run.token # None
    BY <1>0, <1>15 DEF Work
  <2>2. PICK res :
          \/ run' = [run EXCEPT !.pc = "resume", !.result = res] /\ UNCHANGED lock
          \/ Leave(res)
    BY <1>15 DEF Work
  <2>3. CASE Leave(res)
    BY <2>3, LeaveLock
  <2>4. CASE run' = [run EXCEPT !.pc = "resume", !.result = res] /\ UNCHANGED lock
    BY <2>1, <2>4 DEF RunTypeOK, RunRecord, RunLock, OthersKeep
  <2> QED
    BY <2>2, <2>3, <2>4
<1>16. CASE Finally
  BY <1>0, <1>16, FinishLock, GotoLock DEF Finally
<1>17. CASE Resume
  BY <1>0, <1>17, FinishLock, EnterLock DEF Resume
<1>18. CASE Launch
  BY <1>0, <1>18, FinishLock, GotoLock DEF Launch
<1>19. CASE Waitup
  BY <1>19, FinishLock DEF Waitup
<1>20. CASE Scan
  BY <1>20 DEF Scan, RunTypeOK, RunRecord, RunLock, OthersKeep
<1> QED
  BY <1>1, <1>2, <1>3, <1>4, <1>5, <1>6, <1>7, <1>8, <1>9, <1>10, <1>11, <1>12,
     <1>13, <1>14, <1>15, <1>16, <1>17, <1>18, <1>19, <1>20 DEF RunStep

OtherLock ==
  /\ \A s \in Starts : start[s].held => lock = s
  /\ stop # "idle" => lock = Stopper
  /\ forceStop # "idle" => lock = Forcer
  /\ autoStart \in {"launch", "wait"} => lock = AutoStart

LEMMA LockInvParts == LockInv <=> RunLock /\ OtherLock
BY DEF LockInv, RunLock, OtherLock, Holders

LEMMA LockInvParts2 == LockInv' <=> RunLock' /\ OtherLock'
BY DEF LockInv, RunLock, OtherLock, Holders

\* Whoever is not in possession keeps its hands off the others' entry.
LEMMA OthersKept ==
  ASSUME OtherLock, OthersKeep, UNCHANGED actionVars
  PROVE  OtherLock'
BY Constants DEF OtherLock, OthersKeep, actionVars

LEMMA SetStartHeld ==
  ASSUME StartTypeOK, NEW s \in Starts, NEW r, SetStart(s, r)
  PROVE  /\ \A q \in Starts : q # s => start'[q] = start[q]
         /\ start'[s].held => r.held
BY DEF StartTypeOK, SetStart, Settled, NoStart

LEMMA StartStepLock ==
  ASSUME TypeOK, OtherLock, RunLock, NEW s \in Starts, StartBegin(s) \/ StartStep(s), StartOnly
  PROVE  OtherLock' /\ RunLock'
<1>1. s \notin {Stopper, Forcer, AutoStart, None, Maint} \cup Restarts
  BY Constants
<1>2. run.token \in {Maint, None} \cup Restarts /\ run' = run
  BY StartStepType DEF TypeOK, RunTypeOK, RunRecord, StartTypeOK
<1>3. /\ \A r \in Starts : r # s => start'[r] = start[r]
      /\ start'[s].held => lock' = s
      /\ lock' = lock \/ (lock = None /\ lock' = s) \/ (lock = s /\ lock' = None)
  <2> USE DEF TypeOK, SetStart, Settled, NoStart, Unlock, Released, OtherLock
  <2>1. CASE StartBegin(s)
    BY <2>1 DEF StartBegin, Lock
  <2>2. CASE StartChecks(s)
    BY <2>2 DEF StartChecks, StartThrows
  <2>3. CASE StartLaunch(s)
    <3>1. CASE StartThrows(s)
      BY <2>3, <3>1 DEF StartThrows
    <3>2. CASE ~StartThrows(s)
      <4> DEFINE r == [start[s] EXCEPT !.pc = IF Managed THEN "drain" ELSE "poll",
                                       !.waits = IF Managed THEN 1 ELSE 0]
      <4>1. SetStart(s, r) /\ UNCHANGED lock
        BY <2>3, <3>2 DEF StartLaunch
      <4>2. r.held = start[s].held
        OBVIOUS
      <4>3. StartTypeOK
        BY DEF StartTypeOK
      <4> HIDE DEF r
      <4>4. /\ \A q \in Starts : q # s => start'[q] = start[q]
            /\ start'[s].held => r.held
        BY <4>1, <4>3, SetStartHeld
      <4> QED
        BY <4>1, <4>2, <4>4
    <3> QED
      BY <3>1, <3>2
  <2>4. CASE PollTick(s)
    BY <2>4 DEF PollTick
  <2>5. CASE PollMissed(s)
    BY <2>5 DEF PollMissed, Answered
  <2>6. CASE PollGivesUp(s)
    BY <2>6 DEF PollGivesUp, GiveUp, Answered
  <2>7. CASE PollFound(s)
    BY <2>7 DEF PollFound, Answered
  <2>8. CASE RconAttempt(s)
    BY <2>8 DEF RconAttempt
  <2>9. CASE RconWaitEnds(s)
    BY <2>9 DEF RconWaitEnds, GiveUp
  <2>10. CASE RconWaitThrows(s)
    BY <2>10 DEF RconWaitThrows
  <2> QED
    BY <2>1, <2>2, <2>3, <2>4, <2>5, <2>6, <2>7, <2>8, <2>9, <2>10 DEF StartStep
<1>4. OtherLock'
  BY <1>1, <1>3, Constants DEF OtherLock, StartOnly
<1>5. RunLock'
  BY <1>1, <1>2, <1>3 DEF RunLock
<1> QED
  BY <1>4, <1>5

LEMMA OtherStepLock ==
  ASSUME TypeOK, OtherLock, RunLock,
         \/ (StopBegin \/ StopStep) /\ StopOnly
         \/ (ForceBegin \/ ForceStep) /\ ForceOnly
         \/ (AutoBegin \/ AutoStep) /\ AutoOnly
  PROVE  OtherLock' /\ RunLock'
<1>1. run.token \in {Maint, None} \cup Restarts
  BY DEF TypeOK, RunTypeOK, RunRecord
<1>2. run.token \notin Others /\ run.token # None => lock = run.token
  BY <1>1, Constants DEF RunLock
<1>3. CASE (StopBegin \/ StopStep) /\ StopOnly
  <2>1. /\ run' = run
        /\ stop' # "idle" => lock' = Stopper
        /\ lock' = lock \/ (lock = None /\ lock' = Stopper) \/ (lock = Stopper /\ lock' = None)
    BY <1>3 DEF StopBegin, StopStep, StopSave, StopCall, StopMonitor, StopIdle, Lock, Unlock,
                Released, OtherLock
  <2> QED
    BY <1>1, <1>3, <2>1, Constants DEF OtherLock, RunLock, StopOnly
<1>4. CASE (ForceBegin \/ ForceStep) /\ ForceOnly
  <2>1. /\ run' = run
        /\ forceStop' # "idle" => lock' = Forcer
        /\ lock' = lock \/ (lock = None /\ lock' = Forcer) \/ (lock = Forcer /\ lock' = None)
    BY <1>4 DEF ForceBegin, ForceStep, ForceSave, ForceStop, Lock, Unlock, Released, OtherLock
  <2> QED
    BY <1>1, <1>4, <2>1, Constants DEF OtherLock, RunLock, ForceOnly
<1>5. CASE (AutoBegin \/ AutoStep) /\ AutoOnly
  <2>1. /\ run' = run
        /\ autoStart' \in {"launch", "wait"} => lock' = AutoStart
        /\ lock' = lock \/ (lock = None /\ lock' = AutoStart)
                        \/ (lock = AutoStart /\ lock' = None)
    BY <1>5 DEF AutoBegin, AutoStep, AutoLaunch, AutoWait, AutoEnd, Lock, Unlock, Released,
                OtherLock
  <2> QED
    BY <1>1, <1>5, <2>1, Constants DEF OtherLock, RunLock, AutoOnly
<1> QED
  BY <1>3, <1>4, <1>5

LEMMA RestartStepLock ==
  ASSUME TypeOK, OtherLock, RunLock, NEW r \in Restarts,
         RestartBegin(r) \/ RestartEnd(r), RestartOnly
  PROVE  OtherLock' /\ RunLock'
<1>1. r # None /\ r \notin Others
  BY Constants
<1>2. CASE RestartBegin(r)
  <2>1. lock = None /\ lock' = r
    BY <1>2 DEF RestartBegin, Lock
  <2>2. run' = run \/ (run'.token = r /\ run'.stopRequested = FALSE /\ run'.pc = "initial")
    BY <1>2 DEF RestartBegin, Begin, Idle
  <2>3. run.token = None
    BY <2>1 DEF RunLock
  <2>4. RunLock'
    BY <1>1, <2>1, <2>2, <2>3 DEF RunLock
  <2>5. OtherLock'
    BY <1>2, <2>1, Constants DEF OtherLock, RestartOnly
  <2> QED
    BY <2>4, <2>5
<1>3. CASE RestartEnd(r)
  BY <1>1, <1>3, Constants DEF RestartEnd, RestartOnly, OtherLock, RunLock, Unlock, Released
<1> QED
  BY <1>2, <1>3

LEMMA LockStep ==
  ASSUME TypeOK, LockInv, [Next]_vars
  PROVE  LockInv'
<1> SUFFICES OtherLock' /\ RunLock'
  BY LockInvParts2
<1>0. OtherLock /\ RunLock /\ RunTypeOK
  BY LockInvParts DEF TypeOK
<1>1. CASE GameNext /\ GameOnly
  BY <1>0, <1>1 DEF GameOnly, actionVars, OtherLock, RunLock
<1>2. CASE RunStep /\ UNCHANGED actionVars
  BY <1>0, <1>2, RunStepLock, OthersKept
<1>3. CASE (ScheduledRun \/ Cancel \/ Shutdown) /\ UNCHANGED actionVars
  <2>1. UNCHANGED lock
    BY <1>3 DEF ScheduledRun, Cancel, Shutdown
  <2>2. CASE ScheduledRun
    <3>1. run'.token = None /\ run'.pc = "initial" /\ run'.stopRequested = FALSE
      BY <2>2 DEF ScheduledRun, Begin, Idle
    <3>2. RunLock'
      BY <3>1 DEF RunLock, LockedPcs
    <3> QED
      BY <1>0, <1>3, <2>1, <3>2 DEF OtherLock, actionVars
  <2>3. CASE Cancel \/ Shutdown
    BY <1>0, <1>3, <2>1, <2>3
    DEF Cancel, Shutdown, RunTypeOK, RunRecord, OtherLock, RunLock, actionVars
  <2> QED
    BY <1>3, <2>2, <2>3
<1>4. ASSUME NEW s \in Starts, StartBegin(s) \/ StartStep(s), StartOnly
      PROVE  OtherLock' /\ RunLock'
  BY <1>0, <1>4, StartStepLock
<1>5. CASE \/ (StopBegin \/ StopStep) /\ StopOnly
           \/ (ForceBegin \/ ForceStep) /\ ForceOnly
           \/ (AutoBegin \/ AutoStep) /\ AutoOnly
  BY <1>0, <1>5, OtherStepLock
<1>6. ASSUME NEW r \in Restarts, RestartBegin(r) \/ RestartEnd(r), RestartOnly
      PROVE  OtherLock' /\ RunLock'
  BY <1>0, <1>6, RestartStepLock
<1>7. CASE UNCHANGED vars
  BY <1>0, <1>7 DEF vars, actionVars, OtherLock, RunLock
<1> QED
  BY <1>1, <1>2, <1>3, <1>4, <1>5, <1>6, <1>7 DEF Next

\* Whoever believes to hold the lifecycle lock holds it.
THEOREM HoldersHold == Spec => []LockInv
<1>1. Init => LockInv
  BY DEF Init, RunInit, Idle, NoStart, LockInv, Holders, LockedPcs
<1> QED
  BY <1>1, LockStep, TypeCorrect, PTL DEF Spec

\* No two operations act on the server at the same time.
THEOREM Exclusion == Spec => []OneOperationAtATime
<1>1. TypeOK /\ LockInv => OneOperationAtATime
  <2> SUFFICES ASSUME TypeOK, LockInv PROVE OneOperationAtATime
    OBVIOUS
  <2>1. run.token \notin Others
    BY Constants DEF TypeOK, RunTypeOK, RunRecord
  <2> QED
    BY <2>1, LockInvParts, Constants DEF OneOperationAtATime, Operations, OtherLock, RunLock
<1> QED
  BY <1>1, HoldersHold, TypeCorrect, PTL

\* No step hands the lock from one holder to another.
LEMMA LockNeverPasses ==
  ASSUME [Next]_vars, lock' # lock
  PROVE  lock = None \/ lock' = None
  BY DEF Next, vars, gameVars, GameOnly, RunStep, Scan, Initial, PrepareManual, PrepareAutomatic, Countdown,
      Acquire, Recheck, Presave, Save, Postsave, Config, Stop, Waitdown, Claim, Verify, Work,
      Finally, Resume, Launch, Waitup, Throw, Leave, Finish, Goto, Enter, Take, Unless, Decide,
      ScheduledRun, Cancel, Shutdown, StartBegin, StartStep, StartChecks, StartThrows,
      StartLaunch, PollTick, PollMissed, PollGivesUp, PollFound, GiveUp, RconAttempt,
      RconWaitEnds, RconWaitThrows, StopBegin, StopStep, StopSave, StopCall, StopMonitor, StopIdle,
      ForceBegin, ForceStep, ForceSave, ForceStop, AutoBegin, AutoStep, AutoLaunch, AutoWait,
      AutoEnd, RestartBegin, RestartEnd, Lock, Unlock, Released

\* All operations together behave as the abstract mutex that LifecycleLock
\* implements.
THEOREM OperationsUseMutex == Spec => LockIsMutex
<1> DEFINE inside == [s \in {"server"} |-> Holders]
<1>1. Init => Mutex!Init
  BY DEF Init, RunInit, Idle, NoStart, Holders, Mutex!Init
<1>2. ASSUME TypeOK
      PROVE  Holders \subseteq Tokens
  BY <1>2, Constants DEF TypeOK, RunTypeOK, RunRecord, Holders
<1>3. TypeOK /\ LockInv /\ TypeOK' /\ LockInv' /\ [Next]_vars => [Mutex!Next]_inside
  <2> SUFFICES ASSUME TypeOK, LockInv, TypeOK', LockInv', [Next]_vars, Holders' # Holders
               PROVE  Mutex!Next
    OBVIOUS
  <2>1. Holders \subseteq Tokens \cap {lock} /\ Holders' \subseteq Tokens \cap {lock'}
    BY <1>2 DEF LockInv
  <2>2. CASE Holders = {}
    <3>1. PICK t \in Tokens : Holders' = {t}
      BY <2>1, <2>2
    <3> QED
      BY <2>2, <3>1 DEF Mutex!Next, Mutex!Take
  <2>3. CASE Holders' = {}
    <3>1. PICK t \in Tokens : Holders = {t}
      BY <2>1, <2>3
    <3> QED
      BY <2>3, <3>1 DEF Mutex!Next, Mutex!Give
  <2>4. CASE Holders # {} /\ Holders' # {}
    BY <2>1, <2>4, LockNeverPasses, Constants
  <2> QED
    BY <2>2, <2>3, <2>4
<1> QED
  BY <1>1, <1>3, TypeCorrect, HoldersHold, PTL DEF Spec, LockIsMutex, Mutex!Spec

-----------------------------------------------------------------------------
(* What an await of a run may rely on.                                     *)

LEMMA FinishInv ==
  ASSUME NEW res, Finish(res)
  PROVE  RunInv'
BY DEF Finish, Idle, RunInv, EarlyPcs, StoppingPcs, PartialUpdateStaysDown

LEMMA LeaveInv ==
  ASSUME RunTypeOK, RunInv, NEW res, Leave(res)
  PROVE  RunInv'
<1>1. CASE MustResume(res)
  BY ZenonT(60), <1>1 DEF Leave, MustResume, RunTypeOK, RunRecord, RunInv, EarlyPcs, StoppingPcs, PartialUpdateStaysDown
<1>2. CASE ~MustResume(res)
  BY <1>2, FinishInv DEF Leave
<1> QED
  BY <1>1, <1>2

LEMMA ThrowInv ==
  ASSUME RunTypeOK, RunInv, Throw
  PROVE  RunInv'
BY LeaveInv DEF Throw

\* The step to an await that promises nothing new.
LEMMA GotoInv ==
  ASSUME RunTypeOK, RunInv, NEW l \in {"prepare", "claim", "verify", "resume"}, Goto(l),
         l = "resume" => run.pc = "finally", l = "prepare" => run.pc = "initial"
  PROVE  RunInv'
BY DEF Goto, RunTypeOK, RunRecord, RunInv, EarlyPcs, StoppingPcs, PartialUpdateStaysDown

LEMMA DecideInv ==
  ASSUME RunTypeOK, RunInv, NEW force, Decide(force), run.pc \in {"prepare", "countdown"}
  PROVE  RunInv'
<1>1. CASE run.aborted
  BY <1>1, ThrowInv DEF Decide
<1>2. CASE ~run.aborted
  BY ZenonT(60), <1>2 DEF Decide, RunTypeOK, RunRecord, RunInv, EarlyPcs, StoppingPcs, PartialUpdateStaysDown
<1> QED
  BY <1>1, <1>2

LEMMA TakeInv ==
  ASSUME RunTypeOK, RunInv, NEW l \in {"recheck", "verify"}, Take(l),
         l = "recheck" => run.pc = "acquire"
  PROVE  RunInv'
BY DEF Take, RunTypeOK, RunRecord, RunInv, EarlyPcs, StoppingPcs, PartialUpdateStaysDown

LEMMA RunStepInv ==
  ASSUME RunTypeOK, RunInv, RunStep
  PROVE  RunInv'
<1>1. CASE Throw
  BY <1>1, ThrowInv
<1>2. CASE Initial /\ ~Throw
  BY <1>2, GotoInv DEF Initial
<1>3. CASE (PrepareManual \/ PrepareAutomatic \/ Countdown) /\ ~Throw
  <2>1. CASE \E force \in BOOLEAN : Decide(force)
    BY <1>3, <2>1, DecideInv DEF PrepareManual, PrepareAutomatic, Countdown
  <2>2. CASE Enter("countdown", "countdown")
    BY <1>3, <2>2 DEF PrepareManual, PrepareAutomatic, Countdown, Enter, RunTypeOK, RunRecord,
      RunInv, EarlyPcs, StoppingPcs, PartialUpdateStaysDown
  <2> QED
    BY <1>3, <2>1, <2>2 DEF PrepareManual, PrepareAutomatic, Countdown
<1>4. CASE (Acquire \/ Claim) /\ ~Throw
  BY <1>4, TakeInv, GotoInv DEF Acquire, Claim
<1>5. CASE (Recheck \/ Presave \/ Save \/ Postsave \/ Config \/ Stop \/ Waitdown) /\ ~Throw
  <2> USE <1>5 DEF Unless, Goto, Enter, RunTypeOK, RunRecord, RunInv, EarlyPcs, StoppingPcs,
          PartialUpdateStaysDown
  <2>1. CASE Recheck
    BY ZenonT(60), <2>1 DEF Recheck
  <2>2. CASE Presave
    BY ZenonT(60), <2>2 DEF Presave
  <2>3. CASE Save
    BY <2>3 DEF Save
  <2>4. CASE Postsave
    BY <2>4 DEF Postsave
  <2>5. CASE Config
    BY ZenonT(60), <2>5 DEF Config
  <2>6. CASE Stop
    BY <2>6 DEF Stop
  <2>7. CASE Waitdown
    BY <2>7 DEF Waitdown
  <2> QED
    BY <2>1, <2>2, <2>3, <2>4, <2>5, <2>6, <2>7
<1>6. CASE Verify /\ ~Throw
  <2>1. CASE Leave("ok")
    BY <2>1, LeaveInv
  <2>2. CASE Enter("work", "working")
    BY <1>6, <2>2 DEF Verify, Enter, RunTypeOK, RunRecord, RunInv, EarlyPcs, StoppingPcs, PartialUpdateStaysDown
  <2> QED
    BY <1>6, <2>1, <2>2 DEF Verify
<1>7. CASE Work
  <2>1. PICK res \in Results :
          \/ /\ run.options.kind = "restart"
             /\ run' = [run EXCEPT !.pc = "resume", !.result = res]
          \/ Leave(res)
    BY <1>7 DEF Work, Results
  <2>2. CASE Leave(res)
    BY <2>2, LeaveInv
  <2>3. CASE /\ run.options.kind = "restart"
             /\ run' = [run EXCEPT !.pc = "resume", !.result = res]
    BY <2>3 DEF RunTypeOK, RunRecord, RunInv, EarlyPcs, StoppingPcs, PartialUpdateStaysDown
  <2> QED
    BY <2>1, <2>2, <2>3
<1>8. CASE Finally
  BY <1>8, FinishInv, GotoInv DEF Finally
<1>9. CASE Resume \/ Launch \/ Waitup
  <2>1. CASE \E res : Finish(res)
    BY <2>1, FinishInv
  <2>2. CASE ~\E res : Finish(res)
    BY ZenonT(60), <1>9, <2>2
    DEF Resume, Launch, Waitup, Goto, Enter, RunTypeOK, RunRecord, RunInv, EarlyPcs, StoppingPcs,
        PartialUpdateStaysDown
  <2> QED
    BY <2>1, <2>2
<1>10. CASE Scan
  BY <1>10 DEF Scan, RunTypeOK, RunRecord, RunInv, EarlyPcs, StoppingPcs, PartialUpdateStaysDown
<1> QED
  BY <1>1, <1>2, <1>3, <1>4, <1>5, <1>6, <1>7, <1>8, <1>9, <1>10 DEF RunStep

\* Outside its own steps the run record changes only where a run begins and
\* where it is aborted.
LEMMA RunInvStep ==
  ASSUME TypeOK, RunInv, [Next]_vars
  PROVE  RunInv'
<1>0. RunTypeOK
  BY DEF TypeOK
<1>1. CASE RunStep
  BY <1>0, <1>1, RunStepInv
<1>2. CASE \E o \in Options, t \in {None} \cup Restarts : Begin(o, t)
  BY <1>2 DEF Begin, Idle, RunInv, EarlyPcs, StoppingPcs, PartialUpdateStaysDown
<1>3. CASE Cancel \/ Shutdown
  BY <1>0, <1>3
  DEF Cancel, Shutdown, Cancellable, RunTypeOK, RunRecord, RunInv, EarlyPcs, StoppingPcs,
      PartialUpdateStaysDown
<1>4. CASE UNCHANGED run
  BY <1>4 DEF RunInv, PartialUpdateStaysDown
<1>5. ASSUME NEW s \in Starts, StartBegin(s) \/ StartStep(s) PROVE UNCHANGED run
  BY <1>0, <1>5, StartStepType DEF TypeOK, StartTypeOK
<1>6. \/ RunStep
      \/ \E o \in Options, t \in {None} \cup Restarts : Begin(o, t)
      \/ Cancel \/ Shutdown
      \/ UNCHANGED run
  BY <1>5
  DEF Next, vars, GameOnly, ScheduledRun, StopBegin, StopStep, StopSave, StopCall, StopMonitor,
      ForceBegin, ForceStep, ForceSave, ForceStop, AutoBegin, AutoStep, AutoLaunch, AutoWait,
      RestartBegin, RestartEnd
<1> QED
  BY <1>1, <1>2, <1>3, <1>4, <1>6

\* Every await of a run finds what RunInv says it may rely on.
THEOREM RunRelies == Spec => []RunInv
<1>1. Init => RunInv
  BY DEF Init, RunInit, Idle, RunInv, EarlyPcs, StoppingPcs, PartialUpdateStaysDown
<1> QED
  BY <1>1, RunInvStep, TypeCorrect, PTL DEF Spec

\* A run whose cancel() answered true never asks the server to stop.
THEOREM CancelIsSafe == Spec => []CancelledRunNeverStops
<1>1. RunInv => CancelledRunNeverStops
  BY DEF RunInv, CancelledRunNeverStops
<1> QED
  BY <1>1, RunRelies, PTL

\* A failed game update is not on its way back up.
THEOREM FailedUpdateIsNotStarted == Spec => []PartialUpdateStaysDown
<1>1. RunInv => PartialUpdateStaysDown
  BY DEF RunInv
<1> QED
  BY <1>1, RunRelies, PTL

\* A successful run that stopped the server saw it running again.
THEOREM SuccessSeen == Spec => SuccessMeansRunning
<1>1. ASSUME TypeOK, RunInv, [Next]_vars, RunReturns, run.stopRequested, run'.result = "ok"
      PROVE  Visible'
  <2>0. RunTypeOK
    BY <1>1 DEF TypeOK
  <2>1. \A res : Leave(res) => FALSE
    <3> SUFFICES ASSUME NEW res, Leave(res) PROVE FALSE
      OBVIOUS
    <3>1. CASE MustResume(res)
      <4>1. run'.pc = "finally"
        BY <2>0, <3>1 DEF Leave, RunTypeOK, RunRecord
      <4> QED
        BY <1>1, <4>1 DEF RunReturns
    <3>2. CASE ~MustResume(res)
      <4>1. run'.result = res
        BY <3>2 DEF Leave, Finish, Idle
      <4> QED
        BY <1>1, <3>2, <4>1 DEF MustResume, RunInv
    <3> QED
      BY <3>1, <3>2
  <2>2. ~Finish("fail")
    BY <1>1 DEF Finish, Idle
  <2>3. RunStep
    <3>1. ASSUME NEW s \in Starts, StartBegin(s) \/ StartStep(s) PROVE UNCHANGED run
      BY <1>1, <2>0, <3>1, StartStepType DEF TypeOK, StartTypeOK
    <3>2. run' # run /\ run'.pc = "idle" /\ run.pc # "idle"
      BY <1>1 DEF RunReturns
    <3>3. ~(Cancel \/ Shutdown) /\ \A o, t : ~Begin(o, t)
      BY <2>0, <3>2 DEF Cancel, Shutdown, Begin, RunTypeOK, RunRecord
    <3> QED
      BY <1>1, <3>1, <3>2, <3>3
      DEF Next, vars, GameOnly, ScheduledRun, StopBegin, StopStep, StopSave, StopCall,
          StopMonitor, ForceBegin, ForceStep, ForceSave, ForceStop, AutoBegin, AutoStep,
          AutoLaunch, AutoWait, RestartBegin, RestartEnd
  <2>4. (Finally \/ Waitup) /\ StateIs(TRUE)
    <3> USE DEF Throw, Goto, Enter, Unless, Decide, Take, RunTypeOK, RunRecord, RunReturns
    <3>1. ~(Initial \/ PrepareManual \/ PrepareAutomatic \/ Countdown \/ Acquire)
      BY <1>1, <2>0, <2>1 DEF Initial, PrepareManual, PrepareAutomatic, Countdown, Acquire
    <3>2. ~Recheck /\ ~Presave
      BY <1>1, <2>0, <2>1 DEF Recheck, Presave
    <3>3. ~Save
      <4>1. Save => Leave("fail") \/ run'.pc \in {"postsave", "config"}
        BY <2>0 DEF Save
      <4> QED
        BY <1>1, <2>1, <4>1
    <3>4. ~(Postsave \/ Config)
      BY <1>1, <2>0, <2>1 DEF Postsave, Config
    <3>5. ~(Stop \/ Waitdown \/ Claim)
      BY <1>1, <2>0, <2>1 DEF Stop, Waitdown, Claim
    <3>6. ~Verify
      BY <1>1, <2>0, <2>1 DEF Verify
    <3>7. ~Work
      <4> SUFFICES ASSUME Work PROVE FALSE
        OBVIOUS
      <4>1. run'.pc = "resume"
        BY <2>0, <2>1 DEF Work
      <4> QED
        BY <1>1, <4>1
    <3>8. ~(Resume \/ Launch)
      BY <1>1, <2>0, <2>2 DEF Resume, Launch
    <3>9. ~Scan
      BY <1>1, <2>0 DEF Scan
    <3>10. Finally \/ Waitup
      BY <2>3, <3>1, <3>2, <3>3, <3>4, <3>5, <3>6, <3>7, <3>8, <3>9 DEF RunStep
    <3> QED
      BY <1>1, <2>0, <2>2, <3>10 DEF Finally, Waitup
  <2> QED
    BY <2>4 DEF Finally, Waitup, StateIs, ScanSays, Visible, gameVars
<1>2. TypeOK /\ RunInv /\ [Next]_vars
        => (RunReturns /\ run.stopRequested /\ run'.result = "ok" => Visible')
  BY <1>1
<1> QED
  BY <1>2, TypeCorrect, RunRelies, PTL DEF Spec, SuccessMeansRunning

-----------------------------------------------------------------------------
(* Who answers for the flag, for a booting game and for the players.       *)

\* Where a start request stands: it has the lock up to its poll, waits for
\* RCON only when the poll is over, and drains with the lock only for RCON.
StartInv == \A s \in Starts :
  /\ start[s].pc \in {"checks", "launch"} => start[s].held
  /\ start[s].pc # "drain" => start[s].waits = 0
  /\ start[s].pc = "drain" /\ start[s].held => start[s].waits > 0

\* `serverStarting' is set: by a start that has not ended, by a run that brings
\* the server back, or by the auto-start; or by a managed start that failed.
FlagInv == starting /\ ~Managed =>
  \/ \E s \in Starts : start[s].held /\ start[s].pc \in {"poll", "drain"}
  \/ run.pc \in {"launch", "waitup"}
  \/ autoStart \in {"launch", "wait"}

\* A game that boots is waited for by whoever spawned it.
BootInv == game = "booting" =>
  \/ \E s \in Starts : start[s].held /\ start[s].pc = "poll"
  \/ run.pc = "waitup"
  \/ autoStart = "wait"

\* Players who were there at the save: only of those who are there, and none
\* once an automatic run that may not force anybody has counted again.
VeteransInv ==
  /\ veterans \subseteq online
  /\ run.pc \in {"config", "stop"} /\ run.options.automatic /\ ~run.force => veterans = {}

\* A run that has the lock is alone.
LEMMA RunAlone ==
  ASSUME TypeOK, LockInv, run.token # None
  PROVE  /\ \A s \in Starts : ~start[s].held
         /\ stop = "idle" /\ forceStop = "idle"
         /\ autoStart \notin {"launch", "wait"}
<1>1. run.token \notin Others
  BY Constants DEF TypeOK, RunTypeOK, RunRecord
<1> QED
  BY <1>1, LockInvParts, Constants DEF OtherLock, RunLock

\* What becomes of the flag and of the run in a step of the run.
LEMMA RunStepFlag ==
  ASSUME RunTypeOK, RunStep
  PROVE  \/ starting' = FALSE
         \/ run'.pc \in {"launch", "waitup"}
         \/ starting' = starting /\ run.pc \notin {"launch", "waitup"}
<1>1. CASE UNCHANGED gameVars /\ run.pc \notin {"launch", "waitup"}
  BY <1>1 DEF gameVars
<1>2. CASE Save \/ Stop
  BY <1>2 DEF Save, Stop, Saved, gameVars
<1>3. CASE Resume
  BY <1>3 DEF Resume, Enter, RunTypeOK, RunRecord
<1>4. CASE Launch
  BY <1>4 DEF Launch, Goto, RunTypeOK, RunRecord
<1>5. CASE Waitup
  BY <1>5 DEF Waitup
<1> QED
  BY <1>1, <1>2, <1>3, <1>4, <1>5
  DEF RunStep, Scan, AskingPcs, Initial, PrepareManual, PrepareAutomatic, Countdown, Acquire,
      Recheck, Presave, Postsave, Config, Waitdown, Claim, Verify, Work, Finally

\* A settled request has no more callbacks.
LEMMA SettledIs ==
  ASSUME StartTypeOK, NEW s \in Starts,
         NEW r \in [pc: StartPcs, ticks: 0..MaxTicks, waits: 0..MaxTicks, held: BOOLEAN],
         SetStart(s, r)
  PROVE  /\ \A q \in Starts : q # s => start'[q] = start[q]
         /\ \/ start'[s] = r
            \/ start'[s] = NoStart /\ r.pc = "drain" /\ r.waits = 0
BY DEF StartTypeOK, SetStart, Settled

\* One step of a start request: its record, its flag and its game.
LEMMA StartStepKeeps ==
  ASSUME TypeOK, StartInv, NEW s \in Starts, StartBegin(s) \/ StartStep(s)
  PROVE  /\ \A q \in Starts : q # s => start'[q] = start[q]
         /\ StartInv'
         /\ \/ starting' = FALSE
            \/ Managed
            \/ start'[s].held /\ start'[s].pc \in {"poll", "drain"}
            \/ starting' = starting /\ ~(start[s].held /\ start[s].pc \in {"poll", "drain"})
         /\ ~Managed /\ ~LostBoot =>
              \/ game' # "booting"
              \/ start'[s].held /\ start'[s].pc = "poll"
              \/ game' = game /\ ~(start[s].held /\ start[s].pc = "poll")
<1> DEFINE Rec == [pc: StartPcs, ticks: 0..MaxTicks, waits: 0..MaxTicks, held: BOOLEAN]
           Good(r) == /\ r.pc \in {"checks", "launch"} => r.held
                      /\ r.pc # "drain" => r.waits = 0
                      /\ r.pc = "drain" /\ r.held => r.waits > 0
<1>0. /\ StartTypeOK /\ start[s] \in Rec /\ Good(start[s]) /\ NoStart \in Rec /\ Good(NoStart)
      /\ MaxTicks \in Nat /\ MaxTicks > 0
      /\ NoStart.pc = "idle"
  BY MaxTicksAssumption DEF TypeOK, StartTypeOK, StartInv, NoStart, StartPcs
<1>1. ASSUME \A q \in Starts : q # s => start'[q] = start[q], Good(start'[s])
      PROVE  StartInv'
  BY <1>1 DEF StartInv
<1>2. ASSUME NEW r \in Rec, Good(r), SetStart(s, r)
      PROVE  /\ \A q \in Starts : q # s => start'[q] = start[q]
             /\ start'[s] = r \/ (start'[s] = NoStart /\ r.pc = "drain" /\ ~r.held)
             /\ StartInv'
  <2>1. /\ \A q \in Starts : q # s => start'[q] = start[q]
        /\ start'[s] = r \/ (start'[s] = NoStart /\ r.pc = "drain" /\ r.waits = 0)
    BY <1>0, <1>2, SettledIs
  <2>2. r.waits \in 0..MaxTicks
    OBVIOUS
  <2>3. Good(start'[s])
    BY <1>0, <1>2, <2>1
  <2> HIDE DEF Rec
  <2>4. StartInv'
    BY <1>1, <2>1, <2>3
  <2> QED
    BY <1>2, <2>1, <2>2, <2>4
<1>3. CASE StartBegin(s)
  <2>1. start'[s].pc = "checks" /\ start'[s].held /\ start'[s].waits = 0
    BY <1>0, <1>3 DEF StartBegin, StartTypeOK, NoStart
  <2>2. (\A q \in Starts : q # s => start'[q] = start[q]) /\ UNCHANGED gameVars
    BY <1>0, <1>3 DEF StartBegin, StartTypeOK
  <2>3. start[s].pc = "idle"
    BY <1>3 DEF StartBegin
  <2> QED
    BY <1>1, <2>1, <2>2, <2>3 DEF gameVars
<1>4. CASE StartChecks(s)
  <2>1. start[s].pc = "checks" /\ UNCHANGED gameVars
    BY <1>4 DEF StartChecks
  <2>2. CASE SetStart(s, NoStart)
    BY <1>0, <1>2, <2>1, <2>2 DEF gameVars
  <2>3. CASE start' = [start EXCEPT ![s].pc = "launch"]
    <3>1. /\ start'[s].pc = "launch" /\ start'[s].held = start[s].held
          /\ start'[s].waits = start[s].waits
          /\ \A q \in Starts : q # s => start'[q] = start[q]
      BY <1>0, <2>3 DEF StartTypeOK
    <3> QED
      BY <1>0, <1>1, <2>1, <3>1 DEF gameVars
  <2> QED
    BY <1>4, <2>2, <2>3 DEF StartChecks, StartThrows
<1>5. CASE StartLaunch(s)
  <2>1. start[s].pc = "launch" /\ start[s].held = TRUE
    BY <1>0, <1>5 DEF StartLaunch
  <2>2. CASE SetStart(s, NoStart) /\ UNCHANGED <<game, starting>>
    BY <1>0, <1>2, <2>1, <2>2
  <2>3. ASSUME NEW to \in {"drain", "poll"}, NEW n \in {0, 1},
               to = (IF Managed THEN "drain" ELSE "poll"), n = (IF Managed THEN 1 ELSE 0),
               SetStart(s, [start[s] EXCEPT !.pc = to, !.waits = n])
        PROVE  /\ \A q \in Starts : q # s => start'[q] = start[q]
               /\ StartInv'
               /\ start'[s].held /\ start'[s].pc = to
    <3> DEFINE r == [start[s] EXCEPT !.pc = to, !.waits = n]
    <3>1. to \in StartPcs /\ n \in 0..MaxTicks
      BY <1>0 DEF StartPcs
    <3>2. r \in Rec /\ r.pc = to /\ r.waits = n /\ r.held = TRUE
      BY <1>0, <2>1, <3>1
    <3>3. SetStart(s, r)
      BY <2>3
    <3> HIDE DEF r, Rec
    <3>4. Good(r)
      BY <2>3, <3>2
    <3>5. /\ \A q \in Starts : q # s => start'[q] = start[q]
          /\ start'[s] = r \/ (start'[s] = NoStart /\ r.pc = "drain" /\ ~r.held)
          /\ StartInv'
      BY <1>2, <3>2, <3>3, <3>4
    <3> QED
      BY <3>2, <3>5
  <2>4. \/ SetStart(s, NoStart) /\ UNCHANGED <<game, starting>>
        \/ SetStart(s, [start[s] EXCEPT !.pc = IF Managed THEN "drain" ELSE "poll",
                                        !.waits = IF Managed THEN 1 ELSE 0])
    BY <1>5 DEF StartLaunch, StartThrows
  <2>5. CASE SetStart(s, [start[s] EXCEPT !.pc = IF Managed THEN "drain" ELSE "poll",
                                          !.waits = IF Managed THEN 1 ELSE 0])
    <3>1. PICK to \in {"drain", "poll"}, n \in {0, 1} :
            to = (IF Managed THEN "drain" ELSE "poll") /\ n = (IF Managed THEN 1 ELSE 0)
      OBVIOUS
    <3>2. SetStart(s, [start[s] EXCEPT !.pc = to, !.waits = n])
      BY <2>5, <3>1
    <3>3. /\ \A q \in Starts : q # s => start'[q] = start[q]
          /\ StartInv'
          /\ start'[s].held /\ start'[s].pc = to
      BY <2>3, <3>1, <3>2
    <3> QED
      BY <3>1, <3>3
  <2> QED
    BY <2>2, <2>4, <2>5
<1>6. CASE PollTick(s)
  <2>1. /\ start'[s].pc = start[s].pc /\ start'[s].held = start[s].held
        /\ start'[s].waits = start[s].waits
        /\ \A q \in Starts : q # s => start'[q] = start[q]
    BY <1>0, <1>6 DEF PollTick, StartTypeOK
  <2>2. UNCHANGED gameVars
    BY <1>6 DEF PollTick
  <2> QED
    BY <1>0, <1>1, <2>1, <2>2 DEF gameVars
<1>7. start[s].ticks > 0 =>
        /\ Answered(s) \in Rec /\ Answered(s).pc = start[s].pc
        /\ Answered(s).waits = start[s].waits /\ Answered(s).held = start[s].held
  BY <1>0 DEF Answered
<1>8. CASE PollMissed(s)
  <2>1. SetStart(s, Answered(s)) /\ UNCHANGED <<game, starting>> /\ start[s].ticks > 0
    BY <1>8 DEF PollMissed, NotSeen
  <2>2. /\ \A q \in Starts : q # s => start'[q] = start[q]
        /\ start'[s] = Answered(s)
             \/ (start'[s] = NoStart /\ Answered(s).pc = "drain" /\ ~Answered(s).held)
        /\ StartInv'
    <3> HIDE DEF Rec
    <3> QED
      BY <1>0, <1>2, <1>7, <2>1
  <2> QED
    BY <1>7, <2>1, <2>2
\* The callback gives the request up.
<1>9. ASSUME NEW r \in Rec, GiveUp(s, r)
      PROVE  /\ \A q \in Starts : q # s => start'[q] = start[q]
             /\ StartInv' /\ starting' = FALSE
  <2> DEFINE x == [r EXCEPT !.pc = "drain", !.held = FALSE]
  <2>1. x \in Rec /\ x.pc = "drain" /\ x.held = FALSE
    BY DEF StartPcs
  <2>2. SetStart(s, x) /\ starting' = FALSE
    BY <1>9 DEF GiveUp
  <2> HIDE DEF x, Rec
  <2> QED
    BY <1>2, <2>1, <2>2
<1>10. CASE PollGivesUp(s)
  <2>1. GiveUp(s, Answered(s)) /\ UNCHANGED game /\ start[s].ticks > 0 /\ MayGiveUp
    BY <1>10 DEF PollGivesUp, NotSeen
  <2>2. LostBoot \/ game # "booting"
    BY <2>1 DEF MayGiveUp
  <2> HIDE DEF Rec
  <2> QED
    BY <1>7, <1>9, <2>1, <2>2
<1>11. CASE PollFound(s)
  <2> DEFINE x == [Answered(s) EXCEPT !.pc = "drain", !.waits = @ + 1]
  <2>1. /\ SetStart(s, x) /\ UNCHANGED gameVars /\ start[s].ticks > 0
        /\ ScanSays(TRUE) /\ start[s].waits < MaxTicks
    BY <1>11 DEF PollFound
  <2>2. start[s].waits + 1 \in 0..MaxTicks /\ start[s].waits + 1 > 0
    BY <1>0, <2>1
  <2>3. /\ x \in Rec /\ x.pc = "drain" /\ x.waits = start[s].waits + 1
        /\ x.held = start[s].held
    BY <1>7, <2>1, <2>2 DEF StartPcs
  <2>4. game # "booting"
    BY <2>1 DEF ScanSays, Visible
  <2> HIDE DEF x, Rec
  <2>5. /\ \A q \in Starts : q # s => start'[q] = start[q]
        /\ start'[s] = x \/ (start'[s] = NoStart /\ x.pc = "drain" /\ ~x.held)
        /\ StartInv'
    BY <1>2, <2>1, <2>2, <2>3
  <2> QED
    BY <2>1, <2>3, <2>4, <2>5 DEF gameVars
<1>12. CASE RconAttempt(s)
  <2>1. UNCHANGED <<start, starting, game>> /\ start[s].waits > 0
    BY <1>12 DEF RconAttempt
  <2>2. StartInv'
    BY <2>1 DEF StartInv
  <2> QED
    BY <1>0, <2>1, <2>2
<1>13. CASE RconWaitEnds(s)
  <2> DEFINE r == [start[s] EXCEPT !.waits = @ - 1]
  <2>1. GiveUp(s, r) /\ UNCHANGED game /\ start[s].waits > 0
    BY <1>13 DEF RconWaitEnds
  <2>2. r \in Rec
    BY <1>0, <2>1
  <2>3. start[s].pc = "drain"
    BY <1>0, <2>1
  <2> HIDE DEF r, Rec
  <2> QED
    BY <1>9, <2>1, <2>2, <2>3
<1>14. CASE RconWaitThrows(s)
  <2> DEFINE x == [start[s] EXCEPT !.pc = "drain", !.held = FALSE, !.waits = @ - 1]
  <2>1. SetStart(s, x) /\ start[s].waits > 0 /\ Managed
    BY <1>14 DEF RconWaitThrows
  <2>2. start[s].waits - 1 \in 0..MaxTicks
    BY <1>0, <2>1
  <2>3. x \in Rec /\ x.pc = "drain" /\ x.held = FALSE
    BY <1>0, <2>2 DEF StartPcs
  <2> HIDE DEF x, Rec
  <2>4. /\ \A q \in Starts : q # s => start'[q] = start[q]
        /\ start'[s] = x \/ (start'[s] = NoStart /\ x.pc = "drain" /\ ~x.held)
        /\ StartInv'
    BY <1>0, <1>2, <2>1, <2>3
  <2> QED
    BY <2>1, <2>4
<1> QED
  BY <1>3, <1>4, <1>5, <1>6, <1>8, <1>10, <1>11, <1>12, <1>13, <1>14 DEF StartStep

\* Where the steps that are not the run's leave the run.
RunKept ==
  \/ run' = run
  \/ run.pc = "idle" /\ run'.pc = "initial"
  \/ /\ run'.pc = run.pc /\ run'.options = run.options /\ run'.force = run.force
     /\ run'.scan = run.scan
RunCalls == ScheduledRun \/ Cancel \/ Shutdown
RestartMoves == \E r \in Restarts : (RestartBegin(r) \/ RestartEnd(r)) /\ RestartOnly

LEMMA CallsKeepRun ==
  ASSUME TypeOK, RunCalls \/ RestartMoves
  PROVE  RunKept /\ UNCHANGED gameVars
<1>1. ASSUME NEW o, NEW t, Begin(o, t)
      PROVE  run.pc = "idle" /\ run'.pc = "initial"
  BY <1>1 DEF Begin, Idle
<1>2. CASE ScheduledRun
  BY <1>1, <1>2 DEF ScheduledRun, RunKept
<1>3. CASE Cancel \/ Shutdown
  BY <1>3 DEF Cancel, Shutdown, RunKept, TypeOK, RunTypeOK, RunRecord
<1>4. CASE RestartMoves
  BY <1>1, <1>4 DEF RestartMoves, RestartBegin, RestartEnd, RunKept
<1> QED
  BY <1>2, <1>3, <1>4 DEF RunCalls

LEMMA OwnerStep ==
  ASSUME TypeOK, StartInv, FlagInv, [Next]_vars
  PROVE  StartInv' /\ FlagInv'
<1>1. CASE GameNext /\ GameOnly
  <2>1. UNCHANGED <<run, start, autoStart>> /\ (starting' => starting)
    BY <1>1 DEF GameNext, GameOnly, actionVars, Boot, Exit, Crash, Join, LeaveGame,
      RconConnects, RconDrops, StartingExpires, OutsideStart
  <2> QED
    BY <2>1 DEF StartInv, FlagInv
<1>2. CASE RunStep /\ UNCHANGED actionVars
  <2>1. UNCHANGED <<start, autoStart>>
    BY <1>2 DEF actionVars
  <2>2. \/ starting' = FALSE
        \/ run'.pc \in {"launch", "waitup"}
        \/ starting' = starting /\ run.pc \notin {"launch", "waitup"}
    BY <1>2, RunStepFlag DEF TypeOK
  <2>3. StartInv'
    BY <2>1 DEF StartInv
  <2>4. FlagInv'
    BY <2>1, <2>2 DEF FlagInv
  <2> QED
    BY <2>3, <2>4
<1>3. CASE RunCalls /\ UNCHANGED actionVars
  <2>1. UNCHANGED <<start, autoStart, starting>>
    BY <1>3, CallsKeepRun DEF actionVars, gameVars
  <2> QED
    BY <1>3, <2>1, CallsKeepRun DEF StartInv, FlagInv, RunKept
<1>4. ASSUME NEW s \in Starts, StartBegin(s) \/ StartStep(s), StartOnly
      PROVE  StartInv' /\ FlagInv'
  <2>1. run' = run /\ autoStart' = autoStart
    BY <1>4, StartStepType DEF TypeOK, StartTypeOK, StartOnly
  <2>2. /\ \A q \in Starts : q # s => start'[q] = start[q]
        /\ StartInv'
        /\ \/ starting' = FALSE
           \/ Managed
           \/ start'[s].held /\ start'[s].pc \in {"poll", "drain"}
           \/ starting' = starting /\ ~(start[s].held /\ start[s].pc \in {"poll", "drain"})
    BY <1>4, StartStepKeeps
  <2> QED
    BY <2>1, <2>2 DEF FlagInv
<1>5. CASE \/ (StopBegin \/ StopStep) /\ StopOnly
           \/ (ForceBegin \/ ForceStep) /\ ForceOnly
  <2>1. UNCHANGED <<start, autoStart, starting, run>>
    BY <1>5 DEF StopBegin, StopStep, StopSave, StopCall, StopMonitor, StopOnly, ForceBegin,
      ForceStep, ForceSave, ForceStop, ForceOnly, Saved, gameVars
  <2> QED
    BY <2>1 DEF StartInv, FlagInv
<1>6. CASE (AutoBegin \/ AutoStep) /\ AutoOnly
  <2>1. UNCHANGED <<start, run>>
    BY <1>6 DEF AutoOnly, AutoBegin, AutoStep, AutoLaunch, AutoWait
  <2>2. \/ starting' = FALSE
        \/ autoStart' \in {"launch", "wait"}
        \/ starting' = starting /\ autoStart \notin {"launch", "wait"}
    BY <1>6 DEF AutoBegin, AutoStep, AutoLaunch, AutoWait, AutoEnd
  <2> QED
    BY <2>1, <2>2 DEF StartInv, FlagInv
<1>7. CASE RestartMoves
  <2>1. UNCHANGED <<start, autoStart, starting>>
    BY <1>7, CallsKeepRun DEF RestartMoves, RestartOnly, gameVars
  <2> QED
    BY <1>7, <2>1, CallsKeepRun DEF StartInv, FlagInv, RunKept
<1>8. CASE UNCHANGED vars
  BY <1>8 DEF vars, gameVars, actionVars, StartInv, FlagInv
<1> QED
  BY <1>1, <1>2, <1>3, <1>4, <1>5, <1>6, <1>7, <1>8 DEF Next, RunCalls, RestartMoves

\* Whatever the switches, a start request keeps its lock up to its poll and
\* drains with it only for an RCON wait; and on a native server the flag has an
\* owner.
THEOREM OwnersHold == Spec => [](StartInv /\ FlagInv)
<1>1. Init => StartInv /\ FlagInv
  BY DEF Init, GameInit, NoStart, StartInv, FlagInv
<1> QED
  BY <1>1, OwnerStep, TypeCorrect, PTL DEF Spec

\* On a native server no operation ends and leaves `serverStarting' set behind an
\* unlocked server, whatever fails between setServerStarting(true) and the
\* release.
THEOREM FlagIsOwned == ~Managed => (Spec => []StartingFlagIsOwned)
<1> SUFFICES ASSUME ~Managed
             PROVE  Spec => []StartingFlagIsOwned
  OBVIOUS
<1>1. TypeOK /\ LockInv /\ FlagInv => StartingFlagIsOwned
  <2> SUFFICES ASSUME TypeOK, LockInv, FlagInv, starting
               PROVE  lock # None
    BY DEF StartingFlagIsOwned
  <2>1. RunLock /\ OtherLock
    BY LockInvParts
  <2>2. run.pc \in {"launch", "waitup"} => run.token # None
    BY <2>1 DEF RunLock, LockedPcs, Pcs
  <2> QED
    BY <2>1, <2>2, Constants DEF FlagInv, RunLock, OtherLock
<1> QED
  BY <1>1, OwnersHold, HoldersHold, TypeCorrect, PTL

-----------------------------------------------------------------------------
(* The players who stay, and the stopped server.                           *)

\* What a step of the run does to the players it counts and to the game.
LEMMA RunStepPlayers ==
  ASSUME RunTypeOK, VeteransInv, RunStep
  PROVE  VeteransInv'
<1> DEFINE Quiet == run.options.automatic /\ ~run.force
<1>1. ASSUME UNCHANGED gameVars, run'.pc \notin {"config", "stop"}
      PROVE  VeteransInv'
  BY <1>1 DEF VeteransInv, gameVars
<1>2. ASSUME Throw
      PROVE  run'.pc \notin {"config", "stop"}
  BY <1>2 DEF Throw, Leave, Finish, Idle, RunTypeOK, RunRecord
<1>3. CASE Save
  <2>1. /\ veterans' \in {veterans, online} /\ online' = online
    BY <1>3 DEF Save, Saved, gameVars
  <2>2. run'.pc \in {"config", "stop"} => ~run'.options.automatic
    <3>1. CASE Throw
      BY <1>2, <3>1
    <3>2. CASE run.options.automatic
      BY <1>2, <1>3, <3>2 DEF Save, Goto, RunTypeOK, RunRecord
    <3>3. CASE ~run.options.automatic
      <4>1. run'.options = run.options \/ Throw
        BY <1>3, <3>3 DEF Save, Unless, Goto, RunTypeOK, RunRecord
      <4> QED
        BY <1>2, <3>3, <4>1
    <3> QED
      BY <3>1, <3>2, <3>3
  <2> QED
    BY <2>1, <2>2 DEF VeteransInv
<1>4. CASE Postsave
  <2>1. UNCHANGED gameVars
    BY <1>4 DEF Postsave
  <2>2. CASE Throw
    BY <1>1, <1>2, <2>1, <2>2
  <2>3. CASE MayDisturb /\ Goto("config")
    <3>1. run'.force = run.force /\ (run.force \/ online = {})
      BY <2>3 DEF MayDisturb, Goto, RunTypeOK, RunRecord
    <3> QED
      BY <2>1, <3>1 DEF VeteransInv, gameVars
  <2> QED
    BY <1>4, <2>2, <2>3 DEF Postsave, Unless
<1>5. CASE Config
  <2>1. UNCHANGED gameVars /\ run.pc = "config"
    BY <1>5 DEF Config
  <2>2. CASE Throw
    BY <1>1, <1>2, <2>1, <2>2
  <2>3. CASE ~Throw
    <3>1. run'.force = run.force /\ run'.options = run.options
      BY <1>5, <2>3 DEF Config, RunTypeOK, RunRecord
    <3> QED
      BY <2>1, <3>1 DEF VeteransInv, gameVars
  <2> QED
    BY <2>2, <2>3
<1>6. CASE Stop
  <2>1. run'.pc \notin {"config", "stop"}
    BY <1>2, <1>6 DEF Stop, Goto, RunTypeOK, RunRecord
  <2>2. \/ online' = online /\ veterans' = veterans
        \/ online' = {} /\ veterans' = {}
    BY <1>6 DEF Stop, StopTakes, GameGone
  <2> QED
    BY <2>1, <2>2 DEF VeteransInv
<1>7. CASE Resume \/ Launch \/ Waitup
  <2>1. UNCHANGED <<online, veterans>>
    BY <1>7 DEF Resume, Launch, Waitup
  <2>2. run'.pc \notin {"config", "stop"}
    BY <1>7 DEF Resume, Launch, Waitup, Enter, Goto, Finish, Idle, RunTypeOK, RunRecord
  <2> QED
    BY <2>1, <2>2 DEF VeteransInv
<1>8. ASSUME NEW res, Leave(res)
      PROVE  run'.pc \notin {"config", "stop"}
  BY <1>8 DEF Leave, Finish, Idle, RunTypeOK, RunRecord
<1>9. CASE Initial \/ PrepareManual \/ PrepareAutomatic \/ Countdown \/ Acquire
  <2>1. run'.pc \notin {"config", "stop"}
    BY <1>2, <1>9 DEF Initial, PrepareManual, PrepareAutomatic, Countdown, Acquire, Goto, Enter,
      Decide, Take, RunTypeOK, RunRecord
  <2> QED
    BY <1>1, <1>9, <2>1 DEF Initial, PrepareManual, PrepareAutomatic, Countdown, Acquire
<1>10. CASE Recheck \/ Presave \/ Waitdown \/ Claim \/ Verify
  <2>1. run'.pc \notin {"config", "stop"}
    BY <1>2, <1>8, <1>10 DEF Recheck, Presave, Waitdown, Claim, Verify, Goto, Enter, Unless, Take,
      RunTypeOK, RunRecord
  <2> QED
    BY <1>1, <1>10, <2>1 DEF Recheck, Presave, Waitdown, Claim, Verify
<1>11. CASE Work \/ Finally
  <2>1. run'.pc \notin {"config", "stop"}
    <3>1. CASE Work
      <4>1. PICK res : \/ run' = [run EXCEPT !.pc = "resume", !.result = res]
                       \/ Leave(res)
        BY <3>1 DEF Work
      <4> QED
        BY <1>8, <4>1 DEF RunTypeOK, RunRecord
    <3>2. CASE Finally
      BY <3>2 DEF Finally, Finish, Idle, Goto, RunTypeOK, RunRecord
    <3> QED
      BY <1>11, <3>1, <3>2
  <2> QED
    BY <1>1, <1>11, <2>1 DEF Work, Finally
<1>12. CASE Scan
  <2>1. UNCHANGED gameVars /\ run'.pc \notin {"config", "stop"}
    BY <1>12 DEF Scan, AskingPcs, RunTypeOK, RunRecord
  <2> QED
    BY <1>1, <2>1
<1> QED
  BY <1>3, <1>4, <1>5, <1>6, <1>7, <1>9, <1>10, <1>11, <1>12 DEF RunStep

\* While a run is about to stop the server, nobody else saves its world.
LEMMA VeteransStep ==
  ASSUME TypeOK, LockInv, VeteransInv, [Next]_vars
  PROVE  VeteransInv'
<1>0. run.pc \in {"config", "stop"} => stop = "idle" /\ forceStop = "idle"
  BY RunAlone, LockInvParts DEF RunLock, LockedPcs, Pcs
<1>1. ASSUME veterans' \subseteq online', veterans' \subseteq veterans, RunKept
      PROVE  VeteransInv'
  BY <1>1 DEF VeteransInv, RunKept
<1>2. CASE GameNext /\ GameOnly
  <2>1. veterans' \subseteq online' /\ veterans' \subseteq veterans
    BY <1>2 DEF VeteransInv, GameNext, Boot, Exit, Crash, Join, LeaveGame, RconConnects, RconDrops,
      StartingExpires, OutsideStart, GameGone
  <2> QED
    BY <1>1, <1>2, <2>1 DEF GameOnly, RunKept
<1>3. CASE RunStep
  BY <1>3, RunStepPlayers DEF TypeOK
<1>4. CASE RunCalls \/ RestartMoves
  BY <1>1, <1>4, CallsKeepRun DEF gameVars, VeteransInv
<1>5. ASSUME NEW s \in Starts, StartBegin(s) \/ StartStep(s)
      PROVE  VeteransInv'
  <2>1. run' = run
    BY <1>5, StartStepType DEF TypeOK, StartTypeOK
  <2>2. UNCHANGED <<online, veterans>>
    BY <1>5 DEF StartBegin, StartStep, StartChecks, StartLaunch, PollTick, PollMissed, NotSeen,
      PollGivesUp, PollFound, RconAttempt, RconWaitEnds, RconWaitThrows, gameVars
  <2> QED
    BY <1>1, <2>1, <2>2 DEF RunKept, VeteransInv
<1>6. CASE StopBegin \/ StopStep \/ ForceBegin \/ ForceStep
  <2>1. run' = run
    BY <1>6 DEF StopBegin, StopStep, StopSave, StopCall, StopMonitor, ForceBegin, ForceStep,
      ForceSave, ForceStop
  <2>2. \/ UNCHANGED <<online, veterans>>
        \/ online' = {} /\ veterans' = {}
        \/ online' = online /\ veterans' = online /\ (stop = "save" \/ forceStop = "save")
    BY <1>6 DEF StopBegin, StopStep, StopSave, StopCall, StopMonitor, ForceBegin, ForceStep,
      ForceSave, ForceStop, Saved, StopTakes, GameGone, gameVars
  <2> QED
    BY <1>0, <2>1, <2>2 DEF VeteransInv
<1>7. CASE AutoBegin \/ AutoStep
  <2>1. run' = run /\ UNCHANGED <<online, veterans>>
    BY <1>7 DEF AutoBegin, AutoStep, AutoLaunch, AutoWait
  <2> QED
    BY <1>1, <2>1 DEF RunKept, VeteransInv
<1>8. CASE UNCHANGED vars
  BY <1>8 DEF vars, gameVars, VeteransInv
<1> QED
  BY <1>2, <1>3, <1>4, <1>5, <1>6, <1>7, <1>8 DEF Next, RunCalls, RestartMoves

THEOREM PlayersCounted == Spec => []VeteransInv
<1>1. Init => VeteransInv
  BY DEF Init, GameInit, RunInit, Idle, VeteransInv
<1> QED
  BY <1>1, VeteransStep, TypeCorrect, HoldersHold, PTL DEF Spec

\* Players who were online when the world was saved are never thrown out by an
\* automatic run without its deadline: the second count of serverMaintenance.ts
\* finds them, and no other save comes in between.
THEOREM NobodyThrownOut == Spec => []NobodyStaysThroughTheStop
<1>1. VeteransInv => NobodyStaysThroughTheStop
  BY DEF VeteransInv, NobodyStaysThroughTheStop
<1> QED
  BY <1>1, PlayersCounted, PTL

\* What a step of the run does to a game that boots, and where work begins.
LEMMA RunStepGame ==
  ASSUME RunTypeOK, RunStep, ~LostBoot
  PROVE  /\ \/ game' # "booting"
            \/ run'.pc = "waitup"
            \/ game' = game /\ run.pc # "waitup"
         /\ run'.pc = "work" => run.pc = "verify" /\ UNCHANGED gameVars /\ StateIs(FALSE)
         /\ run'.pc = "verify" /\ run'.scan = "down" =>
              run.pc = "verify" /\ UNCHANGED gameVars /\ ~Visible
<1> DEFINE A == \/ game' # "booting"
                \/ run'.pc = "waitup"
                \/ game' = game /\ run.pc # "waitup"
<1>1. A
  <2>1. CASE UNCHANGED gameVars /\ run.pc # "waitup"
    BY <2>1 DEF gameVars
  <2>2. CASE Save \/ Stop
    BY <2>2 DEF Save, Stop, Saved, StopTakes, GameGone, gameVars
  <2>3. CASE Resume
    BY <2>3 DEF Resume
  <2>4. CASE Launch
    BY <2>4 DEF Launch, Goto, RunTypeOK, RunRecord
  <2>5. CASE Waitup
    BY <2>5 DEF Waitup, MayGiveUp, StateIs, ScanSays, Visible
  <2> QED
    BY <2>1, <2>2, <2>3, <2>4, <2>5
    DEF RunStep, Scan, AskingPcs, Initial, PrepareManual, PrepareAutomatic, Countdown,
        Acquire, Recheck, Presave, Postsave, Config, Waitdown, Claim, Verify, Work, Finally
<1>2. ASSUME NEW res, Leave(res)
      PROVE  run'.pc # "work"
  BY <1>2 DEF Leave, Finish, Idle, RunTypeOK, RunRecord
<1>3. Throw => run'.pc # "work"
  BY <1>2 DEF Throw
<1>4. ASSUME run'.pc = "work"
      PROVE  Verify /\ StateIs(FALSE)
  <2> USE DEF Goto, Enter, Unless, Decide, Take, RunTypeOK, RunRecord
  <2>1. ~(Initial \/ PrepareManual \/ PrepareAutomatic \/ Countdown \/ Acquire)
    BY <1>3, <1>4 DEF Initial, PrepareManual, PrepareAutomatic, Countdown, Acquire
  <2>2. ~(Recheck \/ Presave \/ Save \/ Postsave \/ Config)
    BY <1>3, <1>4 DEF Recheck, Presave, Save, Postsave, Config
  <2>3. ~(Stop \/ Waitdown \/ Claim)
    BY <1>3, <1>4 DEF Stop, Waitdown, Claim
  <2>4. ~Work
    <3> SUFFICES ASSUME Work PROVE FALSE
      OBVIOUS
    <3>1. PICK res : \/ run' = [run EXCEPT !.pc = "resume", !.result = res]
                     \/ Leave(res)
      BY DEF Work
    <3> QED
      BY <1>2, <1>4, <3>1
  <2>5. ~(Finally \/ Resume \/ Launch \/ Waitup \/ Scan)
    BY <1>4 DEF Finally, Resume, Launch, Waitup, Finish, Idle, Scan, AskingPcs
  <2>6. Verify
    BY <2>1, <2>2, <2>3, <2>4, <2>5 DEF RunStep
  <2> QED
    BY <1>3, <1>4, <2>6 DEF Verify
\* Every step to another await forgets the scan.
<1>5. ASSUME run'.pc = "verify", run'.scan = "down"
      PROVE  Scan
  <2> USE DEF Goto, Enter, Unless, Decide, Take, RunTypeOK, RunRecord
  <2>0. ASSUME NEW res, Leave(res)
        PROVE  run'.pc # "verify"
    BY <2>0 DEF Leave, Finish, Idle
  <2>1. ~Throw
    BY <1>5, <2>0 DEF Throw
  <2>2. ~(Initial \/ PrepareManual \/ PrepareAutomatic \/ Countdown \/ Acquire)
    BY <1>5, <2>1 DEF Initial, PrepareManual, PrepareAutomatic, Countdown, Acquire
  <2>3. ~(Recheck \/ Presave \/ Save \/ Postsave \/ Config)
    BY <1>5, <2>1 DEF Recheck, Presave, Save, Postsave, Config
  <2>4. ~(Stop \/ Waitdown \/ Claim)
    BY <1>5, <2>1 DEF Stop, Waitdown, Claim
  <2>5. ~(Verify \/ Work)
    <3>1. ~Verify
      BY <1>5, <2>0, <2>1 DEF Verify
    <3>2. ~Work
      <4> SUFFICES ASSUME Work PROVE FALSE
        OBVIOUS
      <4>1. PICK res : \/ run' = [run EXCEPT !.pc = "resume", !.result = res]
                       \/ Leave(res)
        BY DEF Work
      <4> QED
        BY <1>5, <2>0, <4>1
    <3> QED
      BY <3>1, <3>2
  <2>6. ~(Finally \/ Resume \/ Launch \/ Waitup)
    BY <1>5 DEF Finally, Resume, Launch, Waitup, Finish, Idle
  <2> QED
    BY <2>2, <2>3, <2>4, <2>5, <2>6 DEF RunStep
<1>6. Scan /\ run'.pc = "verify" /\ run'.scan = "down"
        => run.pc = "verify" /\ UNCHANGED gameVars /\ ~Visible
  BY DEF Scan, RunTypeOK, RunRecord
<1> QED
  BY <1>1, <1>4, <1>5, <1>6 DEF Verify

\* What the last look of a run found, and a server that is worked on.
FoundInv == run.pc = "verify" /\ run.scan = "down" => game = "down"
WorkStep ==
  run'.pc = "work" =>
    \/ game' = "down"
    \/ IF run.pc = "work" THEN game # "down" ELSE run.scan = "missed" /\ ~PlayersKnown

\* A native server whose starts are waited for: what a run found stopped under
\* the lock stays stopped, and a game that boots has someone waiting for it.
LEMMA StoppedStep ==
  ASSUME ~Managed, ~LostBoot, ~Outside,
         TypeOK, LockInv, StartInv, BootInv, FoundInv, [Next]_vars
  PROVE  BootInv' /\ FoundInv' /\ WorkStep
<1>0. run.pc \in {"verify", "work"} => /\ \A s \in Starts : ~start[s].held
                                       /\ autoStart \notin {"launch", "wait"}
  BY RunAlone, LockInvParts DEF RunLock, LockedPcs, Pcs
\* Steps of others: they leave the run where it is, and a game that is down.
<1>1. ASSUME RunKept, game = "down" /\ run.pc \in {"verify", "work"} => game' = "down"
      PROVE  FoundInv' /\ WorkStep
  BY <1>1 DEF FoundInv, WorkStep, RunKept
<1>2. CASE GameNext /\ GameOnly
  <2>1. UNCHANGED <<run, start, autoStart>>
    BY <1>2 DEF GameOnly, actionVars
  <2>2. /\ game' = "booting" => game = "booting"
        /\ game = "down" => game' = "down"
    BY <1>2 DEF GameNext, Boot, Exit, Crash, Join, LeaveGame, RconConnects, RconDrops,
      StartingExpires, OutsideStart, GameGone
  <2> QED
    BY <1>1, <2>1, <2>2 DEF BootInv, RunKept
<1>3. CASE RunStep /\ UNCHANGED actionVars
  <2>1. UNCHANGED <<start, autoStart>> /\ RunTypeOK /\ game \in {"down", "booting", "up", "quitting"}
    BY <1>3 DEF actionVars, TypeOK, GameTypeOK
  <2>2. /\ \/ game' # "booting"
           \/ run'.pc = "waitup"
           \/ game' = game /\ run.pc # "waitup"
        /\ run'.pc = "work" => run.pc = "verify" /\ UNCHANGED gameVars /\ StateIs(FALSE)
        /\ run'.pc = "verify" /\ run'.scan = "down" =>
             run.pc = "verify" /\ UNCHANGED gameVars /\ ~Visible
    BY <1>3, <2>1, RunStepGame
  <2>3. BootInv'
    BY <2>1, <2>2 DEF BootInv
  <2>4. run.pc = "verify" => game # "booting"
    BY <1>0 DEF BootInv
  <2>5. FoundInv'
    BY <2>1, <2>2, <2>4 DEF FoundInv, Visible, gameVars
  <2>6. WorkStep
    <3> SUFFICES ASSUME run'.pc = "work"
                 PROVE  game' = "down" \/ (run.pc # "work" /\ run.scan = "missed" /\ ~PlayersKnown)
      BY DEF WorkStep
    <3>1. run.pc = "verify" /\ game' = game /\ run.scan # "none" /\ ~PlayersKnown
      BY <2>2 DEF gameVars, StateIs
    <3>2. run.scan \in {"down", "missed"}
      BY <2>1, <3>1 DEF RunTypeOK, RunRecord, Scans
    <3> QED
      BY <3>1, <3>2 DEF FoundInv
  <2> QED
    BY <2>3, <2>5, <2>6
<1>4. CASE RunCalls /\ UNCHANGED actionVars
  <2>1. UNCHANGED <<start, autoStart, game>>
    BY <1>4, CallsKeepRun DEF actionVars, gameVars
  <2> QED
    BY <1>1, <1>4, <2>1, CallsKeepRun DEF BootInv, RunKept
<1>5. ASSUME NEW s \in Starts, StartBegin(s) \/ StartStep(s), StartOnly
      PROVE  BootInv' /\ FoundInv' /\ WorkStep
  <2>1. run' = run /\ autoStart' = autoStart
    BY <1>5, StartStepType DEF TypeOK, StartTypeOK, StartOnly
  <2>2. /\ \A q \in Starts : q # s => start'[q] = start[q]
        /\ \/ game' # "booting"
           \/ start'[s].held /\ start'[s].pc = "poll"
           \/ game' = game /\ ~(start[s].held /\ start[s].pc = "poll")
    BY <1>5, StartStepKeeps
  <2>3. BootInv'
    BY <2>1, <2>2 DEF BootInv
  <2>4. run.pc \in {"verify", "work"} => game' = game
    <3>1. run.pc \in {"verify", "work"} => start[s].pc # "launch"
      BY <1>0 DEF StartInv
    <3> QED
      BY <1>5, <3>1 DEF StartBegin, StartStep, StartChecks, StartLaunch, PollTick, PollMissed, NotSeen,
        PollGivesUp, PollFound, RconAttempt, RconWaitEnds, RconWaitThrows, gameVars
  <2> QED
    BY <1>1, <2>1, <2>3, <2>4 DEF RunKept
<1>6. CASE \/ (StopBegin \/ StopStep) /\ StopOnly
           \/ (ForceBegin \/ ForceStep) /\ ForceOnly
  <2>1. UNCHANGED <<start, autoStart, run>>
    BY <1>6 DEF StopBegin, StopStep, StopSave, StopCall, StopMonitor, StopOnly, ForceBegin,
      ForceStep, ForceSave, ForceStop, ForceOnly
  <2>2. /\ game' = "booting" => game = "booting"
        /\ game = "down" => game' = "down"
    BY <1>6 DEF StopBegin, StopStep, StopSave, StopCall, StopMonitor, ForceBegin, ForceStep,
      ForceSave, ForceStop, Saved, StopTakes, GameGone, gameVars
  <2> QED
    BY <1>1, <2>1, <2>2 DEF BootInv, RunKept
<1>7. CASE (AutoBegin \/ AutoStep) /\ AutoOnly
  <2>1. UNCHANGED <<start, run>>
    BY <1>7 DEF AutoOnly, AutoBegin, AutoStep, AutoLaunch, AutoWait
  <2>2. \/ game' # "booting"
        \/ autoStart' = "wait"
        \/ game' = game /\ autoStart # "wait"
    BY <1>7 DEF AutoBegin, AutoStep, AutoLaunch, AutoWait, AutoEnd, MayGiveUp
  <2>3. autoStart \notin {"launch", "wait"} => game' = game
    BY <1>7 DEF AutoBegin, AutoStep, AutoLaunch, AutoWait
  <2> QED
    BY <1>0, <1>1, <2>1, <2>2, <2>3 DEF BootInv, RunKept
<1>8. CASE RestartMoves
  <2>1. UNCHANGED <<start, autoStart, game>>
    BY <1>8, CallsKeepRun DEF RestartMoves, RestartOnly, gameVars
  <2> QED
    BY <1>1, <1>8, <2>1, CallsKeepRun DEF BootInv, RunKept
<1>9. CASE UNCHANGED vars
  <2>1. RunKept /\ game' = game
    BY <1>9 DEF vars, gameVars, RunKept
  <2> QED
    BY <1>1, <1>9, <2>1 DEF vars, actionVars, BootInv
<1> QED
  BY <1>2, <1>3, <1>4, <1>5, <1>6, <1>7, <1>8, <1>9 DEF Next, RunCalls, RestartMoves

\* On a native server that nobody starts behind the panel's back, and whose
\* spawned game becomes visible or dies before its start is given up, backups and
\* game updates begin on a game that is down and keep it down, whatever fails and
\* whoever else wants the server -- or the scan overlooked the game and RCON
\* could not be asked about it.
THEOREM WorkFindsItStopped ==
  ~Managed /\ ~LostBoot /\ ~Outside => (Spec => WorkOnStoppedServer)
<1> SUFFICES ASSUME ~Managed, ~LostBoot, ~Outside
             PROVE  Spec => WorkOnStoppedServer
  OBVIOUS
<1>1. Init => BootInv /\ FoundInv
  BY DEF Init, GameInit, RunInit, Idle, BootInv, FoundInv
<1>2. TypeOK /\ LockInv /\ StartInv /\ BootInv /\ FoundInv /\ [Next]_vars
        => BootInv' /\ FoundInv' /\ WorkStep
  BY StoppedStep
<1>3. WorkStep => (run'.pc = "work" =>
                     \/ game' = "down"
                     \/ IF run.pc = "work" THEN game # "down"
                                           ELSE run.scan = "missed" /\ ~PlayersKnown)
  BY DEF WorkStep
<1> QED
  BY <1>1, <1>2, <1>3, TypeCorrect, HoldersHold, OwnersHold, PTL DEF Spec, WorkOnStoppedServer
=============================================================================
