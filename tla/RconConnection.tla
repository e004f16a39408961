--------------------------- MODULE RconConnection ---------------------------
(***************************************************************************)
(* services/rcon.ts, class RconService: one RCON connection to one game    *)
(* server, shared by everything that sends commands.  Connection attempts, *)
(* reconnect loops, commands, the health check and the operator interleave *)
(* at every `await' that needs I/O or a timer.                             *)
(*                                                                         *)
(*   - An attempt stands for one _doConnect() and for the SourceRconClient *)
(*     it creates; a loop for one _doReconnect().  A slot is used again    *)
(*     when nothing refers to it any more.                                 *)
(*   - connectionVersion and targetVersion are only ever compared with a   *)
(*     value captured earlier, so `stale' and `changed' stand for "was     *)
(*     incremented since".                                                 *)
(*   - `connecting' and `connectPromise' change together: one field, the   *)
(*     attempt that is joined; likewise `reconnecting'.                    *)
(*   - Continuations of a settled promise run before any other event of    *)
(*     the loop: every event waits until the state is Quiet.               *)
(*   - getServer() reads SQLite synchronously, hence connect() runs up to  *)
(*     the process scan in one step, and so does reloadConfig().           *)
(***************************************************************************)
EXTENDS Naturals

CONSTANTS Attempts,   \* slots for attempts and their clients
          Loops,      \* slots for reconnect loops
          Commands,   \* calls of execute()
          Retried,    \* the calls with retryOnConnectionError
          Quits,      \* the calls made by quit()
          MaxTries,   \* maxReconnectAttempts
          MaxFailures,\* maxHealthFailures
          MaxUpsets,  \* bound on resets, disconnects and reconfigurations
          Slow,       \* a living server may miss a deadline
          None

ASSUME RconAssumption ==
  /\ Retried \subseteq Commands /\ Quits \subseteq Commands
  /\ None \notin Attempts \cup Loops
  /\ MaxTries \in Nat /\ MaxFailures \in Nat /\ MaxUpsets \in Nat
  /\ MaxTries > 0 /\ MaxFailures > 1 /\ Slow \in BOOLEAN

VARIABLES
  rcon,      \* the fields of the service
  attempt,   \* pc; stale: connectionVersion moved on; old: so did the target
  socket,    \* of the attempt's client
  loop,      \* reconnect loops: pc, stale, on: the attempt they wait for
  cmd,       \* commands
  check,     \* the client a health check waits for
  game,      \* does the game server listen?
  upsets     \* resets, disconnects and reconfigurations so far

vars == <<rcon, attempt, socket, loop, cmd, check, game, upsets>>

\* How an attempt's promise settles: true, false, or rejected with an error
\* that execute() takes for a connection error (timedout) or not (rejected).
Settled == {"connected", "nothing", "timedout", "rejected"}
Running(a) == attempt[a].pc \in {"scan", "probe", "auth"}
Usable(a) == socket[a] \in {"open", "silent"}
Configs == {"good", "wrongPassword", "noPort"}

TypeOK ==
  /\ rcon \in [client: Attempts \cup {None}, connected: BOOLEAN,
               connecting: Attempts \cup {None}, reconnecting: Loops \cup {None},
               tries: 0..MaxTries, failures: Nat, starting: BOOLEAN, config: Configs]
  /\ attempt \in [Attempts -> [pc: {"unused", "scan", "probe", "auth"} \cup Settled,
                               stale: BOOLEAN, old: BOOLEAN]]
  /\ socket \in [Attempts -> {"none", "open", "silent", "dropped", "closed"}]
  /\ loop \in [Loops -> [pc: {"unused", "sleep", "connect", "done"}, stale: BOOLEAN,
                         on: Attempts \cup {None}]]
  /\ cmd \in [Commands -> [pc: {"idle", "connect", "send", "flight", "recover", "mend", "rejoin",
                                "reconnect", "resend", "retry", "returned", "done"},
                           on: Attempts \cup Loops \cup {None}, via: Attempts \cup {None},
                           quit: Attempts \cup {None}, sent: BOOLEAN, changed: BOOLEAN,
                           result: {"", "ok", "changed", "starting", "offline", "failed"},
                           claim: {"yes", "no", ""}]]
  /\ check \in Attempts \cup {None}
  /\ game \in {"up", "down"}
  /\ upsets \in 0..MaxUpsets

Unused == [pc |-> "unused", stale |-> FALSE, old |-> FALSE]
NoLoop == [pc |-> "unused", stale |-> FALSE, on |-> None]
NotCalled == [pc |-> "idle", on |-> None, via |-> None, quit |-> None, sent |-> FALSE,
              changed |-> FALSE, result |-> "", claim |-> ""]

Init ==
  /\ rcon = [client |-> None, connected |-> FALSE, connecting |-> None, reconnecting |-> None,
             tries |-> 0, failures |-> 0, starting |-> FALSE, config |-> "good"]
  /\ attempt = [a \in Attempts |-> Unused]
  /\ socket = [a \in Attempts |-> "none"]
  /\ loop = [l \in Loops |-> NoLoop]
  /\ cmd = [c \in Commands |-> NotCalled]
  /\ check = None
  /\ game \in {"up", "down"}
  /\ upsets = 0

\* No continuation of a settled promise is waiting for its turn.
Quiet ==
  /\ \A c \in Commands :
       CASE cmd[c].pc \in {"connect", "rejoin"} -> attempt[cmd[c].on].pc \notin Settled
         [] cmd[c].pc = "reconnect" -> loop[cmd[c].on].pc # "done"
         [] OTHER -> cmd[c].pc \notin {"send", "recover", "mend", "resend", "returned"}
  /\ \A l \in Loops : loop[l].pc = "connect" => attempt[loop[l].on].pc \notin Settled

FreeAttempt(a) ==
  /\ ~Running(a) /\ rcon.client # a /\ check # a
  /\ \A c \in Commands : a \notin {cmd[c].on, cmd[c].via, cmd[c].quit}
  /\ \A l \in Loops : loop[l].on # a

FreeLoop(l) ==
  /\ loop[l].pc \in {"unused", "done"} /\ rcon.reconnecting # l
  /\ \A c \in Commands : cmd[c].on # l

-----------------------------------------------------------------------------
(* The building blocks of the handlers.                                    *)

\* _cleanupClient: the client is disconnected, and forgotten if current.
Closed(T) == [a \in Attempts |-> IF a \in T /\ socket[a] # "none" THEN "closed" ELSE socket[a]]
Forget(r, a) == [r EXCEPT !.client = IF r.client = a THEN None ELSE @]
\* pendingClients
Pending == {a \in Attempts : attempt[a].pc = "auth" /\ socket[a] # "closed"}

\* connectionVersion++
StaleAttempts == [a \in Attempts |-> [attempt[a] EXCEPT !.stale = @ \/ Running(a)]]
StaleLoops == [l \in Loops |-> [loop[l] EXCEPT !.stale = @ \/ loop[l].pc \in {"sleep", "connect"}]]

\* What disconnect() sees as a pending connection.
HasPending == rcon.connecting # None \/ Pending # {}
Offline(r) == [r EXCEPT !.client = None, !.connected = FALSE, !.connecting = None]

\* connect() when no attempt can be joined: up to the process scan.
Began(a) == IF rcon.config = "noPort" THEN "nothing" ELSE "scan"
Begin(a) ==
  /\ FreeAttempt(a)
  /\ attempt' = [attempt EXCEPT ![a] = [Unused EXCEPT !.pc = Began(a)]]
  /\ socket' = [socket EXCEPT ![a] = "none"]
  /\ rcon' = [rcon EXCEPT !.connecting = IF Began(a) = "scan" THEN a ELSE @]

\* connect() while not connected: join the running attempt or begin one.
Connecting(a) ==
  IF rcon.connecting # None
    THEN a = rcon.connecting /\ UNCHANGED <<rcon, attempt, socket>>
    ELSE Begin(a)

\* Mutant of Settle: connect() has no `finally'.
SettleJoined(a, r, res) ==
  /\ attempt' = [attempt EXCEPT ![a].pc = res, ![a].stale = FALSE]
  /\ rcon' = r

\* _doConnect() is over; the `finally' of connect() frees `connecting'.
Settle(a, r, res) ==
  /\ attempt' = [attempt EXCEPT ![a].pc = res, ![a].stale = FALSE]
  /\ rcon' = [r EXCEPT !.connecting = IF @ = a THEN None ELSE @]

-----------------------------------------------------------------------------
(* _doConnect(), from one I/O to the next.                                 *)

\* Someone wants a connection: the 60-second interval, the start of a server,
\* the operator.
Connect(a) ==
  /\ Quiet
  /\ ~(rcon.connected /\ rcon.client # None)
  /\ rcon.connecting = None
  /\ Begin(a)
  /\ UNCHANGED <<loop, cmd, check, game, upsets>>

\* The process scan has answered, failed or timed out.  A negative answer
\* clears `connected', whatever has happened meanwhile.
Scan(a) ==
  /\ Quiet
  /\ attempt[a].pc = "scan"
  /\ attempt' = [attempt EXCEPT ![a].pc = "probe"]
  /\ \E seen \in BOOLEAN : rcon' = [rcon EXCEPT !.connected = @ /\ seen]
  /\ UNCHANGED <<socket, loop, cmd, check, game, upsets>>

\* Mutant of ProbeOpen: the version is not compared after the port probe.
ProbeOpenUnchecked(a) ==
  /\ game = "up"
  /\ attempt' = [attempt EXCEPT ![a].pc = "auth"]
  /\ socket' = [Closed({rcon.client}) EXCEPT ![a] = "open"]
  /\ rcon' = [rcon EXCEPT !.client = a]

\* The port is open: a superseded attempt ends here, another one replaces the
\* client by its own and authenticates.
ProbeOpen(a) ==
  /\ game = "up"
  /\ IF attempt[a].stale
       THEN Settle(a, rcon, "nothing") /\ UNCHANGED socket
     ELSE IF rcon.connected /\ rcon.client # None
       THEN Settle(a, rcon, "connected") /\ UNCHANGED socket
     ELSE /\ attempt' = [attempt EXCEPT ![a].pc = "auth"]
          /\ socket' = [Closed({rcon.client}) EXCEPT ![a] = "open"]
          /\ rcon' = [rcon EXCEPT !.client = a]

ProbeClosed(a) ==
  /\ game = "down" \/ Slow
  /\ Settle(a, rcon, "nothing")
  /\ UNCHANGED socket

Probe(a) ==
  /\ Quiet
  /\ attempt[a].pc = "probe"
  /\ ProbeOpen(a) \/ ProbeClosed(a)
  /\ UNCHANGED <<loop, cmd, check, game, upsets>>

\* authenticate() resolves.
Authenticated(a) ==
  /\ socket[a] = "open" /\ rcon.config = "good"
  /\ IF attempt[a].stale
       THEN /\ Settle(a, Forget(rcon, a), "nothing")
            /\ socket' = Closed({a})
       ELSE /\ Settle(a, [rcon EXCEPT !.connected = TRUE, !.tries = 0, !.failures = 0], "connected")
            /\ UNCHANGED socket

\* Mutant of AuthFails: the failed client is dropped without being closed.
AuthFailsOpen(a) ==
  /\ socket[a] # "open" \/ Slow \/ rcon.config # "good"
  /\ \E res \in {"timedout", "rejected"} :
       Settle(a, [Forget(rcon, a) EXCEPT !.connected = @ /\ rcon.client # a], res)
  /\ UNCHANGED socket

\* authenticate() rejects or times out.  Only an attempt that still owns the
\* client clears `connected'.
AuthFails(a) ==
  /\ socket[a] # "open" \/ Slow \/ rcon.config # "good"
  /\ \E res \in IF socket[a] = "closed" THEN {"rejected"} ELSE {"timedout", "rejected"} :
       Settle(a, [Forget(rcon, a) EXCEPT !.connected = @ /\ rcon.client # a], res)
  /\ socket' = Closed({a})

Auth(a) ==
  /\ Quiet
  /\ attempt[a].pc = "auth"
  /\ Authenticated(a) \/ AuthFails(a)
  /\ UNCHANGED <<loop, cmd, check, game, upsets>>

-----------------------------------------------------------------------------
(* reconnect() and _doReconnect().                                         *)

EndLoop(l) ==
  /\ rcon' = [rcon EXCEPT !.tries = 0, !.reconnecting = IF @ = l THEN None ELSE @]
  /\ loop' = [loop EXCEPT ![l].pc = "done", ![l].on = None]

\* The disconnect() of the loop may itself move the version on; the loop then
\* sees a changed version and ends.
EnterLoop(l) ==
  LET go == ~HasPending /\ rcon.tries < MaxTries IN
  /\ FreeLoop(l)
  /\ socket' = Closed(Pending \cup {rcon.client})
  /\ attempt' = IF HasPending THEN StaleAttempts ELSE attempt
  /\ loop' = [(IF HasPending THEN StaleLoops ELSE loop)
                EXCEPT ![l] = [NoLoop EXCEPT !.pc = IF go THEN "sleep" ELSE "done"]]
  /\ rcon' = [Offline(rcon) EXCEPT !.tries = IF go THEN @ + 1 ELSE 0,
                                   !.reconnecting = IF go THEN l ELSE None]

\* The delay of a reconnect attempt is over.
Wake(l) ==
  /\ Quiet
  /\ loop[l].pc = "sleep"
  /\ IF loop[l].stale \/ rcon.starting \/ rcon.connected
       THEN EndLoop(l) /\ UNCHANGED <<attempt, socket>>
       ELSE \E a \in Attempts : /\ Connecting(a)
                                /\ loop' = [loop EXCEPT ![l].pc = "connect", ![l].on = a]
  /\ UNCHANGED <<cmd, check, game, upsets>>

\* Mutant of LoopGoes: the attempts are not counted.
LoopGoesForever(l) ==
  /\ loop[l].pc = "connect"
  /\ attempt[loop[l].on].pc \in Settled
  /\ IF loop[l].stale \/ attempt[loop[l].on].pc = "connected"
       THEN EndLoop(l)
       ELSE loop' = [loop EXCEPT ![l].pc = "sleep", ![l].on = None] /\ UNCHANGED rcon
  /\ UNCHANGED <<attempt, socket, cmd, check, game, upsets>>

\* connect() has settled: only an error makes the loop try again.
LoopGoes(l) ==
  /\ loop[l].pc = "connect"
  /\ attempt[loop[l].on].pc \in Settled
  /\ IF \/ loop[l].stale
        \/ attempt[loop[l].on].pc \in {"connected", "nothing"}
        \/ rcon.tries >= MaxTries
       THEN EndLoop(l)
       ELSE /\ rcon' = [rcon EXCEPT !.tries = @ + 1]
            /\ loop' = [loop EXCEPT ![l].pc = "sleep", ![l].on = None]
  /\ UNCHANGED <<attempt, socket, cmd, check, game, upsets>>

-----------------------------------------------------------------------------
(* execute(), and quit() around it.                                        *)

Changed(c) == cmd[c].changed
Return(c, result, claim) ==
  cmd' = [cmd EXCEPT ![c].pc = "returned", ![c].on = None,
                     ![c].result = result, ![c].claim = claim]
\* changedTargetResult(): commandSent was set when a client had been chosen.
Chosen(c) == IF cmd[c].via # None THEN "yes" ELSE "no"

Call(c) ==
  /\ Quiet
  /\ cmd[c].pc = "idle"
  /\ LET called == [NotCalled EXCEPT !.quit = IF c \in Quits THEN rcon.client ELSE None] IN
     \/ /\ rcon.starting
        /\ cmd' = [cmd EXCEPT ![c] = [called EXCEPT !.pc = "returned", !.result = "starting"]]
        /\ UNCHANGED <<rcon, attempt, socket>>
     \/ /\ ~rcon.starting /\ rcon.connected
        /\ cmd' = [cmd EXCEPT ![c] = [called EXCEPT !.pc = "send"]]
        /\ UNCHANGED <<rcon, attempt, socket>>
     \/ /\ ~rcon.starting /\ ~rcon.connected
        /\ \E a \in Attempts :
             /\ Connecting(a)
             /\ cmd' = [cmd EXCEPT ![c] = [called EXCEPT !.pc = "connect", !.on = a]]
  /\ UNCHANGED <<loop, check, game, upsets>>

\* The connection the command waited for has settled.
Resume(c) ==
  /\ cmd[c].pc = "connect"
  /\ LET res == attempt[cmd[c].on].pc IN
     /\ res \in Settled
     /\ IF Changed(c) THEN Return(c, "changed", "no")
        ELSE IF res = "nothing" THEN Return(c, "offline", "")
        ELSE IF res = "rejected" THEN Return(c, "failed", "")
        ELSE cmd' = [cmd EXCEPT ![c].pc = IF res = "connected" THEN "send" ELSE "recover",
                                ![c].on = None, ![c].claim = "no"]
  /\ UNCHANGED <<rcon, attempt, socket, loop, check, game, upsets>>

\* Mutant of Send: the command is reported as sent only once it is answered.
SendQuietly(c) ==
  /\ cmd[c].pc = "send"
  /\ LET live == rcon.client # None /\ Usable(rcon.client) IN
     cmd' = [cmd EXCEPT ![c].pc = IF live THEN "flight" ELSE "recover",
                        ![c].via = rcon.client, ![c].sent = live, ![c].claim = "no"]
  /\ UNCHANGED <<rcon, attempt, socket, loop, check, game, upsets>>

\* Without a client, or on a socket known to be dead, the error is "RCON not
\* connected", which does not count as sent.
Send(c) ==
  /\ cmd[c].pc = "send"
  /\ LET live == rcon.client # None /\ Usable(rcon.client) IN
     cmd' = [cmd EXCEPT ![c].pc = IF live THEN "flight" ELSE "recover",
                        ![c].via = rcon.client, ![c].sent = live,
                        ![c].claim = IF live THEN "yes" ELSE "no"]
  /\ UNCHANGED <<rcon, attempt, socket, loop, check, game, upsets>>

\* The answer to the command arrives.
Reply(c) ==
  /\ Quiet
  /\ cmd[c].pc \in {"flight", "retry"}
  /\ socket[cmd[c].via] = "open"
  /\ Return(c, IF Changed(c) THEN "changed" ELSE "ok", "yes")
  /\ rcon' = [rcon EXCEPT !.failures =
                IF /\ ~Changed(c) /\ cmd[c].pc = "flight"
                   /\ rcon.client = cmd[c].via /\ rcon.connected THEN 0 ELSE @]
  /\ UNCHANGED <<attempt, socket, loop, check, game, upsets>>

\* No answer, and the error is one of a connection.
TimesOut(c) ==
  \/ socket[cmd[c].via] = "open" /\ Slow
  \/ socket[cmd[c].via] \in {"silent", "dropped"}
\* The socket has closed: "RCON connection closed" is not taken for one.
IsCut(c) == socket[cmd[c].via] \in {"closed", "dropped"}

Fail(c) ==
  /\ Quiet
  /\ cmd[c].pc = "flight"
  /\ \/ /\ TimesOut(c)
        /\ cmd' = [cmd EXCEPT ![c].pc = "recover"]
     \/ /\ IsCut(c)
        /\ IF Changed(c) THEN Return(c, "changed", "yes") ELSE Return(c, "failed", "")
  /\ UNCHANGED <<rcon, attempt, socket, loop, check, game, upsets>>

\* Mutant of Recover: the client is dropped and `connected' stays.
RecoverConnected(c) ==
  LET broken == IF cmd[c].via = None THEN rcon.client ELSE cmd[c].via IN
  /\ cmd[c].pc = "recover"
  /\ socket' = Closed({broken})
  /\ rcon' = Forget(rcon, broken)
  /\ cmd' = [cmd EXCEPT ![c].pc = "mend"]
  /\ UNCHANGED <<attempt, loop, check, game, upsets>>

\* The catch block after a connection error: the client is cleaned up.
Recover(c) ==
  LET broken == IF cmd[c].via = None THEN rcon.client ELSE cmd[c].via IN
  /\ cmd[c].pc = "recover"
  /\ IF Changed(c)
       THEN Return(c, "changed", Chosen(c)) /\ UNCHANGED <<rcon, socket>>
       ELSE /\ socket' = Closed({broken})
            /\ rcon' = [Forget(rcon, broken) EXCEPT !.connected = @ /\ rcon.client # broken]
            /\ IF rcon.starting THEN Return(c, "starting", "")
               ELSE IF c \notin Retried THEN Return(c, "failed", cmd[c].claim)
               ELSE cmd' = [cmd EXCEPT ![c].pc = "mend"]
  /\ UNCHANGED <<attempt, loop, check, game, upsets>>

\* reconnect(), called by the catch block.
Mend(c) ==
  /\ cmd[c].pc = "mend"
  /\ IF rcon.connected
       THEN cmd' = [cmd EXCEPT ![c].pc = "resend"] /\ UNCHANGED <<rcon, attempt, socket, loop>>
     ELSE IF rcon.reconnecting # None
       THEN /\ cmd' = [cmd EXCEPT ![c].pc = "reconnect", ![c].on = rcon.reconnecting]
            /\ UNCHANGED <<rcon, attempt, socket, loop>>
     ELSE IF rcon.connecting # None
       THEN /\ cmd' = [cmd EXCEPT ![c].pc = "rejoin", ![c].on = rcon.connecting]
            /\ UNCHANGED <<rcon, attempt, socket, loop>>
     ELSE \E l \in Loops : /\ EnterLoop(l)
                           /\ cmd' = [cmd EXCEPT ![c].pc = "reconnect", ![c].on = l]
  /\ UNCHANGED <<check, game, upsets>>

\* reconnect() had joined an attempt; if that failed it starts a loop, without
\* looking whether another caller has started one.
Rejoin(c) ==
  /\ cmd[c].pc = "rejoin"
  /\ attempt[cmd[c].on].pc \in Settled
  /\ IF attempt[cmd[c].on].pc \in {"connected", "nothing"}
       THEN /\ cmd' = [cmd EXCEPT ![c].pc = "resend", ![c].on = None]
            /\ UNCHANGED <<rcon, attempt, socket, loop>>
       ELSE \E l \in Loops : /\ EnterLoop(l)
                             /\ cmd' = [cmd EXCEPT ![c].pc = "reconnect", ![c].on = l]
  /\ UNCHANGED <<check, game, upsets>>

Reconnected(c) ==
  /\ cmd[c].pc = "reconnect"
  /\ loop[cmd[c].on].pc = "done"
  /\ cmd' = [cmd EXCEPT ![c].pc = "resend", ![c].on = None]
  /\ UNCHANGED <<rcon, attempt, socket, loop, check, game, upsets>>

\* The second transmission, if there is a connection.
Resend(c) ==
  LET client == rcon.client IN
  /\ cmd[c].pc = "resend"
  /\ IF Changed(c)
       THEN Return(c, "changed", Chosen(c)) /\ UNCHANGED <<rcon, socket>>
     ELSE IF ~rcon.connected \/ client = None
       THEN Return(c, "failed", Chosen(c)) /\ UNCHANGED <<rcon, socket>>
     ELSE IF Usable(client)
       THEN /\ cmd' = [cmd EXCEPT ![c].pc = "retry", ![c].via = client, ![c].sent = TRUE]
            /\ UNCHANGED <<rcon, socket>>
     ELSE /\ Return(c, "failed", "no")
          /\ socket' = Closed({client})
          /\ rcon' = [rcon EXCEPT !.client = None, !.connected = FALSE]
  /\ UNCHANGED <<attempt, loop, check, game, upsets>>

RetryFails(c) ==
  /\ Quiet
  /\ cmd[c].pc = "retry"
  /\ TimesOut(c) \/ IsCut(c)
  /\ IF Changed(c)
       THEN Return(c, "changed", "yes") /\ UNCHANGED <<rcon, socket>>
       ELSE /\ Return(c, "failed", "yes")
            /\ socket' = Closed({cmd[c].via})
            /\ rcon' = [Forget(rcon, cmd[c].via)
                          EXCEPT !.connected = @ /\ rcon.client # cmd[c].via]
  /\ UNCHANGED <<attempt, loop, check, game, upsets>>

\* The caller gets the result; quit() drops the client it started with.
Returned(c) ==
  /\ cmd[c].pc = "returned"
  /\ cmd' = [cmd EXCEPT ![c] = [NotCalled EXCEPT !.pc = "done"]]
  /\ IF c \in Quits /\ rcon.client = cmd[c].quit
       THEN /\ rcon' = [rcon EXCEPT !.client = None, !.connected = FALSE]
            /\ socket' = Closed({cmd[c].quit})
       ELSE UNCHANGED <<rcon, socket>>
  /\ UNCHANGED <<attempt, loop, check, game, upsets>>

-----------------------------------------------------------------------------
(* What others do to the service.                                          *)

Upset == upsets < MaxUpsets /\ upsets' = upsets + 1

\* forceResetConnectionState
Reset(r) ==
  /\ rcon' = [r EXCEPT !.client = None, !.connected = FALSE, !.connecting = None,
                       !.reconnecting = None, !.tries = 0, !.failures = 0, !.starting = FALSE]
  /\ attempt' = StaleAttempts
  /\ loop' = StaleLoops
  /\ socket' = Closed(Pending \cup {rcon.client})

\* The start of a game server begins with a reset.
ForceReset ==
  /\ Quiet /\ Upset
  /\ Reset(rcon)
  /\ UNCHANGED <<cmd, check, game>>

\* The operator disconnects.
Disconnect ==
  /\ Quiet /\ Upset
  /\ rcon' = Offline(rcon)
  /\ socket' = Closed(Pending \cup {rcon.client})
  /\ attempt' = IF HasPending THEN StaleAttempts ELSE attempt
  /\ loop' = IF HasPending THEN StaleLoops ELSE loop
  /\ UNCHANGED <<cmd, check, game>>

\* reloadConfig after an edit of the profile, updateConfig by the operator:
\* both versions move on, the connection is closed, the new target is loaded.
Retarget ==
  /\ Quiet /\ Upset
  /\ \E config \in Configs : rcon' = [Offline(rcon) EXCEPT !.config = config]
  /\ socket' = Closed(Pending \cup {rcon.client})
  /\ attempt' = [a \in Attempts |-> [StaleAttempts[a] EXCEPT !.old = attempt[a].pc # "unused"]]
  /\ loop' = StaleLoops
  /\ cmd' = [c \in Commands |-> [cmd[c] EXCEPT !.changed = cmd[c].pc \notin {"idle", "done"}]]
  /\ UNCHANGED <<check, game>>

\* setServerStarting, and its five-minute expiry.
StartingChanges ==
  /\ Quiet
  /\ rcon' = [rcon EXCEPT !.starting = ~@]
  /\ UNCHANGED <<attempt, socket, loop, cmd, check, game, upsets>>

\* The health check sends a command of its own, or forgets old failures.
HealthBegins ==
  /\ Quiet
  /\ check = None
  /\ \/ /\ rcon.connected /\ rcon.client # None /\ ~rcon.starting
        /\ check' = rcon.client
        /\ UNCHANGED rcon
     \/ /\ ~rcon.connected \/ rcon.client = None
        /\ rcon.failures > 0
        /\ rcon' = [rcon EXCEPT !.failures = 0]
        /\ UNCHANGED check
  /\ UNCHANGED <<attempt, socket, loop, cmd, game, upsets>>

\* One failure more; `dead' are the clients that were cleaned up with it.
Unhealthy(r, dead) ==
  IF r.failures + 1 >= MaxFailures
    THEN Reset(r)
    ELSE /\ rcon' = [r EXCEPT !.failures = @ + 1]
         /\ socket' = Closed(dead)
         /\ UNCHANGED <<attempt, loop>>

\* Too many failures reset the connection, also one that has nothing to do with
\* them: "Connection changed" is counted as a failure.
HealthFails ==
  IF rcon.client # check
    THEN Unhealthy(rcon, {})
    ELSE Unhealthy([rcon EXCEPT !.client = None, !.connected = FALSE], {check})

HealthAnswers ==
  IF rcon.client = check /\ rcon.connected
    THEN rcon' = [rcon EXCEPT !.failures = 0] /\ UNCHANGED <<attempt, loop, socket>>
    ELSE Unhealthy(rcon, {})

HealthEnds ==
  /\ Quiet
  /\ check # None
  /\ \/ socket[check] = "open" /\ HealthAnswers
     \/ (socket[check] # "open" \/ Slow) /\ HealthFails
  /\ check' = None
  /\ UNCHANGED <<cmd, game, upsets>>

-----------------------------------------------------------------------------
(* The game server's end.                                                  *)

\* The server goes away; each connection is cut, or silent until noticed.
GameStops ==
  /\ Quiet
  /\ game = "up"
  /\ game' = "down"
  /\ \E way \in {"silent", "dropped"} :
       socket' = [a \in Attempts |-> IF socket[a] = "open" THEN way ELSE socket[a]]
  /\ UNCHANGED <<rcon, attempt, loop, cmd, check, upsets>>

GameListens ==
  /\ Quiet
  /\ game = "down"
  /\ game' = "up"
  /\ UNCHANGED <<rcon, attempt, socket, loop, cmd, check, upsets>>

\* The socket learns that its peer is gone; nobody else is told.
Dropped(a) ==
  /\ Quiet
  /\ \/ socket[a] = "silent" /\ UNCHANGED upsets
     \/ socket[a] = "open" /\ Upset
  /\ socket' = [socket EXCEPT ![a] = "dropped"]
  /\ UNCHANGED <<rcon, attempt, loop, cmd, check, game>>

Attempting(a) == Scan(a) \/ Probe(a) \/ Auth(a)
Continues(c) == \/ Resume(c) \/ Send(c) \/ Recover(c) \/ Mend(c) \/ Rejoin(c)
                \/ Reconnected(c) \/ Resend(c) \/ Returned(c)
Answered(c) == Reply(c) \/ Fail(c) \/ RetryFails(c)

Next ==
  \/ \E a \in Attempts : Connect(a) \/ Attempting(a) \/ Dropped(a)
  \/ \E l \in Loops : Wake(l) \/ LoopGoes(l)
  \/ \E c \in Commands : Call(c) \/ Continues(c) \/ Answered(c)
  \/ ForceReset \/ Disconnect \/ Retarget \/ StartingChanges
  \/ HealthBegins \/ HealthEnds
  \/ GameStops \/ GameListens

Spec == Init /\ [][Next]_vars

\* Timers and I/O end, promises continue; the interval of startAutoReconnect
\* connects whenever nothing else does.
AutoConnect == \E a \in Attempts : ~rcon.starting /\ rcon.reconnecting = None /\ Connect(a)
Fairness ==
  /\ \A a \in Attempts : WF_vars(Attempting(a))
  /\ \A l \in Loops : WF_vars(Wake(l)) /\ WF_vars(LoopGoes(l))
  /\ \A c \in Commands : WF_vars(Continues(c)) /\ WF_vars(Answered(c))
  /\ WF_vars(AutoConnect) /\ WF_vars(HealthBegins) /\ WF_vars(HealthEnds)

LiveSpec == Spec /\ Fairness

-----------------------------------------------------------------------------
\* `connected' means the current client: one that has authenticated and that
\* the service has not closed itself.  Every handler that drops a client or is
\* overtaken by another one must keep the two fields together.
ConnectedMeansAuthenticated ==
  rcon.connected => /\ rcon.client # None
                    /\ attempt[rcon.client].pc = "connected"
                    /\ socket[rcon.client] # "closed"

\* No connection to the game is left open behind the service's back: a socket
\* that was opened is the current client's or has been closed.
NoLeakedConnection ==
  \A a \in Attempts : socket[a] \notin {"none", "closed"} => rcon.client = a

\* After a profile edit nothing goes to the old target: neither the client nor
\* a command that does not yet know better belongs to it (rcon.ts:966).
RightTarget ==
  /\ rcon.client # None => ~attempt[rcon.client].old
  /\ \A c \in Commands : cmd[c].pc \in {"flight", "retry"} /\ ~Changed(c)
                           => ~attempt[cmd[c].via].old

\* A caller who is told that a command was not sent may rely on it: quit()
\* takes a sent one for a shutdown (rcon.ts:1264).  With a retry this fails on
\* purpose of the code: only the second transmission is reported.
UnsentWasNotSent ==
  \A c \in Commands \ Retried : cmd[c].claim = "no" => ~cmd[c].sent

\* Once the game stops coming and going, every call of execute() returns.
\* (While it does, a reconnect loop may go on: any attempt that succeeds sets
\* reconnectAttempts back to zero, and the loop begins to count again.)
CommandEnds ==
  <>[](game = "up") \/ <>[](game = "down")
    => \A c \in Commands : cmd[c].pc # "idle" ~> cmd[c].pc = "done"

\* Once the game stays up, its password is right and no start is under way,
\* the panel is connected again, and stays so.
ConnectsAgain ==
  <>[](game = "up" /\ rcon.config = "good" /\ ~rcon.starting)
    => <>[](rcon.connected /\ socket[rcon.client] = "open")
=============================================================================
