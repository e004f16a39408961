--------------------------- MODULE SteamOperations ---------------------------
(***************************************************************************)
(* Servers may share one game install.  An operation that runs SteamCMD on *)
(* an install reserves it in the map of activeSteamOperations.ts, which    *)
(* every start of a server looks at; the lifecycle lock, in contrast, is   *)
(* per server.  This module composes the lock with the operations that     *)
(* meet at an install: starts, game updates (updateChecker.ts), version    *)
(* checks, installations and deletions of files (routes/server.ts).        *)
(*                                                                         *)
(* One action is the code between two awaits of real I/O; awaits of the    *)
(* synchronous database yield to nobody and end no action.  A game process *)
(* is visible from its spawn on, and only the panel starts games: what     *)
(* happens otherwise is ServerLifecycle's (LostBoot, Outside), as are the  *)
(* steps of a maintenance run that are one step here.                      *)
(***************************************************************************)
EXTENDS LifecycleLock

CONSTANTS Installs, InstallOf,  \* steamInstallKey of each server's installPath
          Menu                  \* the kinds each call may be of, a bound

ASSUME InstallOfAssumption == InstallOf \in [Servers -> Installs]

\* A call is named by the lock handle it gets if it gets one.
VARIABLES res,       \* activeSteamOperations: install -> the call that reserved it
          game,      \* each server's process
          updating,  \* UpdateChecker.updating
          call,      \* the locals and the await of each call
          steam,     \* is a SteamCMD that writes the install alive?
          ahead      \* history: whose start was past its look at the reservation

steamVars == <<locks, handle, res, game, updating, call, steam, ahead>>
lockVars == <<locks, handle>>

Kinds == {"none", "start", "update", "check", "install", "delete"}
Awaits == {"idle", "preflight", "peers", "run", "locked", "work", "steam", "resume",
           "prep", "launching", "waiting", "asking", "scan", "download",
           "first", "second", "done"}

Call == [kind: Kinds, server: Servers \cup {NoToken}, pc: Awaits,
         todo: SUBSET Servers, was: BOOLEAN]

SteamTypeOK ==
  /\ TypeOK
  /\ res \in [Installs -> Handles \cup {NoToken}]
  /\ game \in [Servers -> {"down", "up"}]
  /\ updating \in [Servers -> BOOLEAN]
  /\ call \in [Handles -> Call]
  /\ steam \in [Handles -> BOOLEAN]
  /\ ahead \in [Installs -> SUBSET Servers]

Idle == [kind |-> "none", server |-> NoToken, pc |-> "idle", todo |-> {}, was |-> FALSE]
Sharing(s) == {p \in Servers : InstallOf[p] = InstallOf[s]}
Server(o) == call[o].server
Path(o) == InstallOf[Server(o)]
At(o, l) == call[o].pc = l
Ended(o) == call' = [call EXCEPT ![o] = [Idle EXCEPT !.pc = "done"]]
Goto(o, l) == call' = [call EXCEPT ![o].pc = l]
Begin(o, kind, s, l, todo) ==
  /\ At(o, "idle")
  /\ kind \in Menu[o]
  /\ call' = [call EXCEPT ![o] = [kind |-> kind, server |-> s, pc |-> l,
                                  todo |-> todo, was |-> FALSE]]

PastItsLook(i) == {p \in Servers : InstallOf[p] = i /\
                     \E o \in Handles : At(o, "launching") /\ Server(o) = p}

Reserve(o, i, found) ==
  /\ res[i] = NoToken
  /\ res' = [res EXCEPT ![i] = o]
  /\ ahead' = [ahead EXCEPT ![i] = PastItsLook(i) \cup found]

\* clearActiveSteamOperation: by the key, whoever has the entry.
Clear(i) == res' = [res EXCEPT ![i] = NoToken]

LetGo(o) == IF Live(o) THEN Release(o) ELSE UNCHANGED lockVars

\* Mutant of Finish: beginUpdate without its last `finally' and its catch.
FinishKeeping(o) ==
  /\ Ended(o)
  /\ LetGo(o)
  /\ updating' = IF call[o].kind = "update"
                   THEN [updating EXCEPT ![Server(o)] = FALSE] ELSE updating
  /\ UNCHANGED res

\* The end of a call, also of one that throws: the lock is released; an update
\* clears the reservation (once more) and `updating'.
Finish(o) ==
  /\ Ended(o)
  /\ LetGo(o)
  /\ IF call[o].kind = "update"
       THEN Clear(Path(o)) /\ updating' = [updating EXCEPT ![Server(o)] = FALSE]
       ELSE UNCHANGED <<res, updating>>

\* A loop of scans over servers that must be stopped, one await each.
FoundStopped(o) ==
  \E p \in call[o].todo :
    /\ game[p] = "down"
    /\ call' = [call EXCEPT ![o].todo = @ \ {p}]
    /\ UNCHANGED <<locks, handle, res, game, updating, steam, ahead>>

\* The code after the loop runs with the answer to its last scan.
LastStopped(o) == \A p, q \in call[o].todo : p = q /\ game[p] = "down"
NotTheLast(o) == \E p, q \in call[o].todo : p # q

-----------------------------------------------------------------------------
(* Starts, of an operator and at the end of an update.                     *)

\* startServerAction to its first await; a refused one leaves no trace.
StartBegins(o, s) ==
  /\ Acquire(o, s)
  /\ res[InstallOf[s]] = NoToken
  /\ Begin(o, "start", s, "prep", {})
  /\ UNCHANGED <<res, game, updating, steam, ahead>>

\* Mutant of LooksAgain: no second look before the process is made.
LooksOnce(o) ==
  /\ At(o, "prep")
  /\ Goto(o, "launching")
  /\ UNCHANGED <<locks, handle, res, game, updating, steam, ahead>>

\* startServer (or runManagedLifecycle): the look that counts.
LooksAgain(o) ==
  /\ At(o, "prep")
  /\ res[Path(o)] = NoToken
  /\ Goto(o, "launching")
  /\ UNCHANGED <<locks, handle, res, game, updating, steam, ahead>>

\* The scan, the probe of the port and the wait for a busy JVM are over.
Launches(o) ==
  /\ At(o, "launching")
  /\ game[Server(o)] = "down"
  /\ game' = [game EXCEPT ![Server(o)] = "up"]
  /\ Goto(o, "waiting")
  /\ UNCHANGED <<locks, handle, res, updating, steam, ahead>>

\* The poll sees the game, or gives it up.
StartEnds(o) ==
  /\ At(o, "waiting")
  /\ Finish(o)
  /\ UNCHANGED <<game, steam, ahead>>

\* A quit, a stop or a crash.
GameExits(s) ==
  /\ game[s] = "up"
  /\ game' = [game EXCEPT ![s] = "down"]
  /\ UNCHANGED <<locks, handle, res, updating, call, steam, ahead>>

-----------------------------------------------------------------------------
(* Game updates.                                                           *)

\* maintenance.active: one run at a time for a server.
Pending(s) ==
  \E o \in Handles :
    /\ call[o].kind = "update" /\ Server(o) = s
    /\ call[o].pc \in {"run", "locked", "work", "steam", "resume", "prep", "launching", "waiting"}

UpdateBegins(o, s) ==
  /\ locks[s] = NoToken
  /\ ~updating[s] /\ ~Pending(s)
  /\ Begin(o, "update", s, "preflight", {})
  /\ UNCHANGED <<locks, handle, res, game, updating, steam, ahead>>

\* The manifest has been read; reservation and flag are set in one go.
UpdateReserves(o) ==
  /\ At(o, "preflight")
  /\ Reserve(o, Path(o), {})
  /\ updating' = [updating EXCEPT ![Server(o)] = TRUE]
  /\ call' = [call EXCEPT ![o].pc = "peers", ![o].todo = Sharing(Server(o)) \ {Server(o)}]
  /\ UNCHANGED <<locks, handle, game, steam>>

\* peersStopped, before the run and again in its work.
PeerStopped(o) ==
  /\ At(o, "peers") \/ (At(o, "work") /\ NotTheLast(o))
  /\ FoundStopped(o)

\* The own state could be read, too, and maintenance.run does not refuse.
PeersChecked(o) ==
  /\ At(o, "peers")
  /\ call[o].todo = {}
  /\ ~Pending(Server(o))
  /\ Goto(o, "run")
  /\ UNCHANGED <<locks, handle, res, game, updating, steam, ahead>>

\* maintenance.run has warned or waited for the players.
RunLocks(o) ==
  /\ At(o, "run")
  /\ Acquire(o, Server(o))
  /\ Goto(o, "locked")
  /\ UNCHANGED <<res, game, updating, steam, ahead>>

\* ... has saved and stopped the game, if it was up, and begins to work.
RunStops(o) ==
  /\ At(o, "locked")
  /\ game' = [game EXCEPT ![Server(o)] = "down"]
  /\ call' = [call EXCEPT ![o].pc = "work", ![o].was = game[Server(o)] = "up",
                          ![o].todo = Sharing(Server(o)) \ {Server(o)}]
  /\ UNCHANGED <<locks, handle, res, updating, steam, ahead>>

\* runSteamCmd spawns and then writes to the record of the reservation: without
\* one it throws, and the SteamCMD it has spawned runs on with nobody watching.
SteamBegins(o) ==
  /\ At(o, "work")
  /\ LastStopped(o)
  /\ steam' = [steam EXCEPT ![o] = TRUE]
  /\ IF res[Path(o)] = NoToken
       THEN Finish(o)
       ELSE Goto(o, "steam") /\ UNCHANGED <<locks, handle, res, updating>>
  /\ UNCHANGED <<game, ahead>>

\* It closes, is killed for its silence or by a cancel.  Only a success of an
\* update that had stopped a running game goes on to start it again.
UpdateSteamCloses(o) ==
  /\ At(o, "steam")
  /\ call[o].kind = "update"
  /\ steam' = [steam EXCEPT ![o] = FALSE]
  /\ \/ call[o].was /\ Clear(Path(o)) /\ Goto(o, "resume") /\ UNCHANGED <<locks, handle, updating>>
     \/ Finish(o)
  /\ UNCHANGED <<game, ahead>>

\* resumeServer, after the state was read.
ResumeLooks(o) ==
  /\ At(o, "resume")
  /\ res[Path(o)] = NoToken
  /\ Goto(o, "prep")
  /\ UNCHANGED <<locks, handle, res, game, updating, steam, ahead>>

-----------------------------------------------------------------------------
(* Version checks, installations, deletions.                               *)

\* getLatestBuildInfo: refused before its `try' when the install is reserved.
CheckBegins(o, s) ==
  /\ \A c \in Handles : At(c, "asking") => Server(c) # s
  /\ Reserve(o, InstallOf[s], {})
  /\ Begin(o, "check", s, "asking", {})
  /\ UNCHANGED <<locks, handle, game, updating, steam>>

CheckEnds(o) ==
  /\ At(o, "asking")
  /\ Clear(Path(o))
  /\ Ended(o)
  /\ UNCHANGED <<locks, handle, game, updating, steam, ahead>>

InstallBegins(o, s) ==
  /\ Begin(o, "install", s, "scan", Sharing(s))
  /\ UNCHANGED <<locks, handle, res, game, updating, steam, ahead>>

InstallScans(o) == At(o, "scan") /\ NotTheLast(o) /\ FoundStopped(o)

Scanned(o) == At(o, "scan") /\ LastStopped(o) /\ locks[Server(o)] = NoToken

InstallDownloads(o) ==
  /\ Scanned(o)
  /\ Goto(o, "download")
  /\ UNCHANGED <<locks, handle, res, game, updating, steam, ahead>>

\* Whoever runs by now is not looked for again.
InstallReserves(o) ==
  /\ Scanned(o) \/ At(o, "download")
  /\ Reserve(o, Path(o), {p \in Sharing(Server(o)) : game[p] = "up"})
  /\ steam' = [steam EXCEPT ![o] = TRUE]
  /\ Goto(o, "steam")
  /\ UNCHANGED <<locks, handle, game, updating>>

InstallCloses(o) ==
  /\ At(o, "steam")
  /\ call[o].kind = "install"
  /\ steam' = [steam EXCEPT ![o] = FALSE]
  /\ Clear(Path(o))
  /\ Ended(o)
  /\ UNCHANGED <<locks, handle, game, updating, ahead>>

DeleteBegins(o, s) ==
  /\ Acquire(o, s)
  /\ res[InstallOf[s]] = NoToken
  /\ Begin(o, "delete", s, "first", Sharing(s))
  /\ UNCHANGED <<res, game, updating, steam, ahead>>

DeleteScans(o) ==
  /\ At(o, "first") \/ At(o, "second")
  /\ NotTheLast(o)
  /\ FoundStopped(o)

DeleteAgain(o) ==
  /\ At(o, "first")
  /\ LastStopped(o)
  /\ call' = [call EXCEPT ![o].pc = "second", ![o].todo = Sharing(Server(o))]
  /\ UNCHANGED <<locks, handle, res, game, updating, steam, ahead>>

\* rmSync of the install.
Deletes(o) ==
  /\ At(o, "second")
  /\ LastStopped(o)
  /\ Finish(o)
  /\ UNCHANGED <<game, steam, ahead>>

\* Any look or scan may refuse or fail, an operator may cancel, players may
\* not leave: the call ends as its catch and finally blocks say.
GivesUp(o) ==
  /\ call[o].pc \in {"preflight", "peers", "run", "locked", "work", "resume", "prep",
                     "launching", "scan", "download", "first", "second"}
  /\ IF At(o, "preflight")
       THEN Ended(o) /\ UNCHANGED <<locks, handle, res, updating>>
       ELSE Finish(o)
  /\ UNCHANGED <<game, steam, ahead>>

\* The unattended SteamCMD ends.
StrayExits(o) ==
  /\ At(o, "done")
  /\ steam[o]
  /\ steam' = [steam EXCEPT ![o] = FALSE]
  /\ UNCHANGED <<locks, handle, res, game, updating, call, ahead>>

-----------------------------------------------------------------------------
SteamInit ==
  /\ Init
  /\ res = [i \in Installs |-> NoToken]
  /\ game \in [Servers -> {"down", "up"}]
  /\ updating = [s \in Servers |-> FALSE]
  /\ call = [o \in Handles |-> Idle]
  /\ steam = [o \in Handles |-> FALSE]
  /\ ahead = [i \in Installs |-> {}]

\* A restart, a start here, releases its lock twice (serverLifecycleActions.ts:472).
ReleasesTwice(o) ==
  /\ ReleaseAgain(o)
  /\ UNCHANGED <<res, game, updating, call, steam, ahead>>

Invoke(o, s) == \/ StartBegins(o, s) \/ UpdateBegins(o, s) \/ CheckBegins(o, s)
                \/ InstallBegins(o, s) \/ DeleteBegins(o, s)
Starting(o) == LooksAgain(o) \/ Launches(o) \/ StartEnds(o)
Updates(o) == \/ UpdateReserves(o) \/ PeerStopped(o) \/ PeersChecked(o) \/ RunLocks(o)
              \/ RunStops(o) \/ SteamBegins(o) \/ UpdateSteamCloses(o) \/ ResumeLooks(o)
Others(o) == \/ CheckEnds(o) \/ InstallScans(o) \/ InstallDownloads(o)
             \/ InstallReserves(o) \/ InstallCloses(o)
             \/ DeleteScans(o) \/ DeleteAgain(o) \/ Deletes(o)

SteamNext ==
  \/ \E o \in Handles, s \in Servers : Invoke(o, s)
  \/ \E o \in Handles : Starting(o) \/ Updates(o) \/ Others(o) \/ GivesUp(o) \/ StrayExits(o)
  \/ \E s \in Servers : GameExits(s)
  \/ \E o \in Handles : ReleasesTwice(o)

SteamSpec == SteamInit /\ [][SteamNext]_steamVars

-----------------------------------------------------------------------------
\* An attended SteamCMD of an update, and a deletion, find the server's own
\* game stopped, whatever starts, updates and deletions are under way; and as
\* long as the reservation is its own, no other game of the install runs, but
\* for one whose start was already past its look when the reservation was made
\* (updateChecker.ts:528), and for an installation, one that ran by then.
InstallIsFree ==
  \A o \in Handles :
    /\ At(o, "steam") /\ call[o].kind = "update" => game[Server(o)] = "down"
    /\ At(o, "second") /\ LastStopped(o) => game[Server(o)] = "down"
    /\ At(o, "steam") /\ res[Path(o)] = o =>
         \A p \in Sharing(Server(o)) : game[p] = "up" => p \in ahead[Path(o)]

\* A reservation belongs to a call that is still to run SteamCMD and will clear
\* it: no failure on the way leaves one behind that would refuse all starts,
\* and the restart after an update is not refused by its own.
Reserving(o) == \E l \in {"peers", "run", "locked", "work", "steam", "asking"} : At(o, l)
ReservationHasAnOwner ==
  \A i \in Installs : res[i] # NoToken => Reserving(res[i]) /\ Path(res[i]) = i
-----------------------------------------------------------------------------
(* The inductive invariant: both of the above, and                         *)

\* - whoever acts on a server holds its lock;
Holds(o) == \/ call[o].pc \in {"locked", "work", "resume", "prep", "launching", "waiting",
                               "first", "second"}
            \/ At(o, "steam") /\ call[o].kind = "update"
HoldersInv == \A o \in Handles : Holds(o) => locks[Server(o)] = o

\* - a call waits only where its kind does, for a server;
KindInv ==
  \A o \in Handles :
    /\ call[o].pc \notin {"idle", "done"} => Server(o) \in Servers
    /\ call[o].pc \in {"preflight", "peers", "run", "locked", "work", "resume"}
         => call[o].kind = "update"
    /\ call[o].pc \in {"scan", "download"} => call[o].kind = "install"

\* - the own game was stopped, or found stopped, under the lock;
OwnDownInv ==
  \A o \in Handles :
    /\ At(o, "work") => game[Server(o)] = "down"
    /\ At(o, "steam") /\ call[o].kind = "update" => game[Server(o)] = "down"
    /\ At(o, "first") \/ At(o, "second")
         => game[Server(o)] = "down" \/ Server(o) \in call[o].todo

\* - no start gets past its look while the install is reserved;
LookInv ==
  \A i \in Installs : res[i] # NoToken => PastItsLook(i) \subseteq ahead[i]

\* - and what runs all the same has still to be scanned, or was ahead.
FreeInv ==
  \A o \in Handles :
    (At(o, "work") \/ At(o, "steam")) /\ res[Path(o)] = o =>
      \A p \in Sharing(Server(o)) :
        game[p] = "up" => p \in ahead[Path(o)] \/ (At(o, "work") /\ p \in call[o].todo)

IInv == /\ ReservationHasAnOwner
        /\ HoldersInv /\ KindInv /\ OwnDownInv /\ LookInv /\ FreeInv
=============================================================================
