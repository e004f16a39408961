------------------------------ MODULE GameServer ------------------------------
(***************************************************************************)
(* One Project Zomboid server as the panel sees it: the game process, its  *)
(* players, the RCON connection, and the panel's one flag about them,      *)
(* RconService.serverStarting.  The game itself is not in the repository;  *)
(* it is modelled from how serverMaintenance.ts, serverLifecycleActions.ts *)
(* and serverLaunch.ts start, stop, probe and query it.                    *)
(*                                                                         *)
(* The five switches say which misfortunes a run considers.                *)
(***************************************************************************)
CONSTANTS
  Players,    \* player names
  Managed,    \* TRUE: docker/service stop, confirmed by the answer; FALSE: RCON quit
  Faults,     \* probes, RCON commands, saves, starts may fail; the game may crash
  SlowStop,   \* a stopping game may outlive the code's 60 s / 5 min waits
  LostBoot,   \* a start may be given up on while its game boots, not visible yet
  Outside     \* someone starts the game behind the panel's back

ASSUME SwitchesAssumption ==
  {Managed, Faults, SlowStop, LostBoot, Outside} \subseteq BOOLEAN

VARIABLES
  game,       \* "down", "booting" (spawned, not visible yet), "up", "quitting"
  online,     \* the players connected
  veterans,   \* those connected without a break since the last world save
  rcon,       \* RconService.connected, to a connection that answers; an RCON
              \* call that fails over a live one is a drop and a reconnect
  starting    \* RconService.serverStarting

gameVars == <<game, online, veterans, rcon, starting>>

GameTypeOK ==
  /\ game \in {"down", "booting", "up", "quitting"}
  /\ online \subseteq Players
  /\ veterans \subseteq Players
  /\ rcon \in BOOLEAN
  /\ starting \in BOOLEAN

GameInit ==
  /\ game \in {"down", "up"}
  /\ online = {}
  /\ veterans = {}
  /\ rcon = (game = "up")
  /\ starting = FALSE

-----------------------------------------------------------------------------
(* What the panel's questions can answer.                                  *)

Visible == game \in {"up", "quitting"}

\* getPlayers succeeds only over a live connection to a game that is up.
PlayersKnown == rcon /\ game = "up"
PlayersUnknown == Faults \/ ~PlayersKnown

\* The process scan.  It may overlook a running game (a wrapper process, a
\* stale pid file), the case for which state() and startServer ask further.
ScanSays(running) ==
  \/ running = Visible
  \/ Faults /\ ~Managed /\ ~running
ScanFails == Faults

\* rcon.save: the answer can only be a success if the game took the command.
SaveTaken == rcon /\ Visible
SaveRefused == Faults \/ ~SaveTaken

Saved == veterans' = online /\ UNCHANGED <<game, online, rcon, starting>>

GameGone ==
  /\ game' = "down"
  /\ online' = {}
  /\ veterans' = {}

\* A stop that was asked for: confirmed by the container or service manager,
\* or an RCON quit that the game acts on later.
StopTakes ==
  IF Managed
    THEN GameGone
    ELSE /\ game' = IF game = "up" THEN "quitting" ELSE game
         /\ UNCHANGED <<online, veterans>>
StopAnswers == Managed \/ rcon
StopFails == Faults \/ ~StopAnswers

\* A start: startServer refuses a game that its scan or the RCON port shows
\* (native), Docker answers alreadyRunning (managed).
StartAnswers == Managed \/ ScanSays(FALSE)
MayGiveUp == LostBoot \/ game # "booting"
StartTakes == game' = IF game = "down" THEN "booting" ELSE game

-----------------------------------------------------------------------------
(* What happens by itself.                                                 *)

Boot ==
  /\ game = "booting"
  /\ \/ game' = "up"
     \/ Faults /\ game' = "down"
  /\ UNCHANGED <<online, veterans, rcon, starting>>

Exit ==
  /\ game = "quitting"
  /\ GameGone
  /\ UNCHANGED <<rcon, starting>>

Crash ==
  /\ Faults
  /\ game = "up"
  /\ GameGone
  /\ UNCHANGED <<rcon, starting>>

Join(p) ==
  /\ game = "up"
  /\ online' = online \cup {p}
  /\ UNCHANGED <<game, veterans, rcon, starting>>

LeaveGame(p) ==
  /\ p \in online
  /\ online' = online \ {p}
  /\ veterans' = veterans \ {p}
  /\ UNCHANGED <<game, rcon, starting>>

\* Auto-reconnect, health check and the post-start connects come to this.
RconConnects ==
  /\ game = "up"
  /\ ~rcon
  /\ rcon' = TRUE
  /\ UNCHANGED <<game, online, veterans, starting>>

RconDrops ==
  /\ rcon
  /\ Faults \/ game # "up"
  /\ rcon' = FALSE
  /\ UNCHANGED <<game, online, veterans, starting>>

\* setServerStarting(true) is undone after 5 minutes.
StartingExpires ==
  /\ starting
  /\ starting' = FALSE
  /\ UNCHANGED <<game, online, veterans, rcon>>

OutsideStart ==
  /\ Outside
  /\ game = "down"
  /\ game' = "booting"
  /\ UNCHANGED <<online, veterans, rcon, starting>>

GameNext ==
  \/ Boot \/ Exit \/ Crash
  \/ \E p \in Players : Join(p) \/ LeaveGame(p)
  \/ RconConnects \/ RconDrops \/ StartingExpires
  \/ OutsideStart
=============================================================================
