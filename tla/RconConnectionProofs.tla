-------------------------- MODULE RconConnectionProofs --------------------------
(***************************************************************************)
(* Theorems about RconConnection, for any number of attempts, loops and    *)
(* commands and any bounds.  Every handler is built from a few blocks that *)
(* begin, settle or drop a connection; each keeps the three fields of the  *)
(* service together with attempts and sockets (Service), and none but the  *)
(* new target makes an attempt belong to an old one (NoneAges).  What is   *)
(* said to callers follows command by command (Honest).                    *)
(***************************************************************************)
EXTENDS RconConnection, TLAPS

\* `connected' belongs to the client, no other socket is open, and the client
\* is one that authenticates or has done so, for the target of today.
ClientInv ==
  /\ ConnectedMeansAuthenticated
  /\ NoLeakedConnection
  /\ rcon.client # None => /\ attempt[rcon.client].pc \in {"auth", "connected"}
                           /\ ~attempt[rcon.client].old

\* An attempt for a target of before has been told so.
OldIsStale == \A a \in Attempts : Running(a) /\ attempt[a].old => attempt[a].stale

\* A command in flight has a client, of today's target unless it knows better;
\* what was sent had one, too.  Only a retried command gets beyond `recover'.
Honest(c) ==
  /\ cmd[c].pc \in {"flight", "retry"} =>
       /\ cmd[c].via # None
       /\ ~cmd[c].changed => ~attempt[cmd[c].via].old
  /\ cmd[c].sent => cmd[c].via # None
  /\ cmd[c].pc \in {"idle", "connect"} => ~cmd[c].sent
  /\ c \notin Retried => /\ cmd[c].claim = "no" => ~cmd[c].sent
                         /\ cmd[c].pc \notin {"mend", "rejoin", "reconnect", "resend", "retry"}
CommandInv == \A c \in Commands : Honest(c)

-----------------------------------------------------------------------------
(* Types, by name.                                                         *)

RconType == [client: Attempts \cup {None}, connected: BOOLEAN,
             connecting: Attempts \cup {None}, reconnecting: Loops \cup {None},
             tries: 0..MaxTries, failures: Nat, starting: BOOLEAN, config: Configs]
AttemptType == [pc: {"unused", "scan", "probe", "auth"} \cup Settled, stale: BOOLEAN, old: BOOLEAN]
SocketType == {"none", "open", "silent", "dropped", "closed"}
LoopType == [pc: {"unused", "sleep", "connect", "done"}, stale: BOOLEAN, on: Attempts \cup {None}]
CmdPc == {"idle", "connect", "send", "flight", "recover", "mend", "rejoin",
          "reconnect", "resend", "retry", "returned", "done"}
Results == {"", "ok", "changed", "starting", "offline", "failed"}
Claims == {"yes", "no", ""}
CmdType == [pc: CmdPc, on: Attempts \cup Loops \cup {None}, via: Attempts \cup {None},
            quit: Attempts \cup {None}, sent: BOOLEAN, changed: BOOLEAN,
            result: Results, claim: Claims]

ServiceTyped == /\ rcon \in RconType
                /\ attempt \in [Attempts -> AttemptType]
                /\ socket \in [Attempts -> SocketType]
LoopsTyped == loop \in [Loops -> LoopType]
CommandsTyped == cmd \in [Commands -> CmdType]
OthersTyped == check \in Attempts \cup {None} /\ game \in {"up", "down"} /\ upsets \in 0..MaxUpsets

LEMMA TypeParts ==
  /\ TypeOK <=> ServiceTyped /\ LoopsTyped /\ CommandsTyped /\ OthersTyped
  /\ TypeOK' <=> (ServiceTyped /\ LoopsTyped /\ CommandsTyped /\ OthersTyped)'
BY DEF TypeOK, ServiceTyped, LoopsTyped, CommandsTyped, OthersTyped, RconType, AttemptType,
       SocketType, LoopType, CmdType, CmdPc, Results, Claims

\* The service: its fields, its attempts, their sockets.
Service == ServiceTyped /\ ClientInv /\ OldIsStale
\* No attempt comes to belong to an old target.
NoneAges == \A a \in Attempts : attempt'[a].old => attempt[a].old

IInv == TypeOK /\ ClientInv /\ OldIsStale /\ CommandInv

-----------------------------------------------------------------------------
(* The blocks that touch the service.                                      *)

LEMMA SameService ==
  ASSUME Service, UNCHANGED <<rcon, attempt, socket>>
  PROVE  Service' /\ NoneAges
BY DEF Service, ServiceTyped, ClientInv, ConnectedMeansAuthenticated, NoLeakedConnection,
       OldIsStale, Running, NoneAges

\* Counters and flags that say nothing of the connection.
LEMMA OtherFields ==
  ASSUME Service, rcon' \in RconType, rcon'.client = rcon.client,
         rcon'.connected => rcon.connected, UNCHANGED <<attempt, socket>>
  PROVE  Service' /\ NoneAges
BY DEF Service, ServiceTyped, ClientInv, ConnectedMeansAuthenticated, NoLeakedConnection,
       OldIsStale, Running, NoneAges

LEMMA ClosedIs ==
  ASSUME ServiceTyped, NEW T
  PROVE  /\ Closed(T) \in [Attempts -> SocketType]
         /\ \A a \in Attempts : Closed(T)[a] = IF a \in T /\ socket[a] # "none" THEN "closed" ELSE socket[a]
BY DEF Closed, ServiceTyped, SocketType

\* Begin: the slot is nobody's client, and its socket is not opened yet.
LEMMA BeginKeeps ==
  ASSUME Service, NEW a \in Attempts, Begin(a)
  PROVE  Service' /\ NoneAges
<1>1. /\ attempt'[a] = [pc |-> Began(a), stale |-> FALSE, old |-> FALSE]
      /\ \A b \in Attempts \ {a} : attempt'[b] = attempt[b]
      /\ attempt' \in [Attempts -> AttemptType]
  BY DEF Begin, Began, Unused, Service, ServiceTyped, AttemptType, Settled
<1>2. /\ socket'[a] = "none" /\ \A b \in Attempts \ {a} : socket'[b] = socket[b]
      /\ socket' \in [Attempts -> SocketType]
  BY DEF Begin, Service, ServiceTyped, SocketType
<1>3. /\ rcon' \in RconType /\ rcon'.client = rcon.client /\ rcon'.connected = rcon.connected
  BY DEF Begin, Service, ServiceTyped, RconType
<1>4. rcon.client # a
  BY DEF Begin, FreeAttempt
<1>5. ClientInv'
  BY <1>1, <1>2, <1>3, <1>4
     DEF Service, ServiceTyped, RconType, ClientInv, ConnectedMeansAuthenticated, NoLeakedConnection
<1>6. OldIsStale' /\ NoneAges
  BY <1>1 DEF Service, OldIsStale, Running, NoneAges
<1>7. QED
  BY <1>1, <1>2, <1>3, <1>5, <1>6 DEF Service, ServiceTyped

LEMMA ConnectingKeeps ==
  ASSUME Service, NEW a \in Attempts, Connecting(a)
  PROVE  Service' /\ NoneAges
BY BeginKeeps, SameService DEF Connecting

\* What Settle does, in terms of the service it is given.
LEMMA SettleIs ==
  ASSUME Service, NEW a \in Attempts, NEW r \in RconType, NEW res \in Settled, Settle(a, r, res)
  PROVE  /\ attempt' \in [Attempts -> AttemptType]
         /\ attempt'[a] = [pc |-> res, stale |-> FALSE, old |-> attempt[a].old]
         /\ \A b \in Attempts \ {a} : attempt'[b] = attempt[b]
         /\ rcon' \in RconType
         /\ rcon'.client = r.client /\ rcon'.connected = r.connected
         /\ NoneAges /\ OldIsStale'
<1>1. /\ attempt' \in [Attempts -> AttemptType]
      /\ attempt'[a] = [pc |-> res, stale |-> FALSE, old |-> attempt[a].old]
      /\ \A b \in Attempts \ {a} : attempt'[b] = attempt[b]
  BY DEF Settle, Service, ServiceTyped, AttemptType
<1>2. rcon' \in RconType /\ rcon'.client = r.client /\ rcon'.connected = r.connected
  BY DEF Settle, RconType
<1>3. NoneAges /\ OldIsStale'
  BY <1>1 DEF NoneAges, Service, OldIsStale, Running, Settled
<1>4. QED
  BY <1>1, <1>2, <1>3

LEMMA ScanKeeps ==
  ASSUME Service, NEW a \in Attempts, Scan(a)
  PROVE  Service' /\ NoneAges
<1>1. /\ attempt' \in [Attempts -> AttemptType]
      /\ attempt'[a].pc = "probe" /\ attempt[a].pc = "scan"
      /\ attempt'[a].old = attempt[a].old /\ attempt'[a].stale = attempt[a].stale
      /\ \A b \in Attempts \ {a} : attempt'[b] = attempt[b]
  BY DEF Scan, Service, ServiceTyped, AttemptType
<1>2. PICK seen \in BOOLEAN : rcon' = [rcon EXCEPT !.connected = @ /\ seen]
  BY DEF Scan
<1>3. /\ rcon' \in RconType /\ rcon'.client = rcon.client
      /\ rcon'.connected => rcon.connected
  <2>1. CASE seen = TRUE /\ rcon.connected = TRUE
    BY <1>2, <2>1 DEF Service, ServiceTyped, RconType
  <2>2. CASE ~(seen = TRUE /\ rcon.connected = TRUE)
    BY <1>2, <2>2 DEF Service, ServiceTyped, RconType
  <2>3. QED
    BY <2>1, <2>2
<1>4. socket' = socket
  BY DEF Scan
<1>5. ClientInv'
  BY <1>1, <1>3, <1>4
     DEF Service, ServiceTyped, RconType, ClientInv, ConnectedMeansAuthenticated, NoLeakedConnection
<1>6. OldIsStale' /\ NoneAges
  BY <1>1 DEF Service, OldIsStale, Running, NoneAges
<1>7. QED
  BY <1>1, <1>3, <1>4, <1>5, <1>6 DEF Service, ServiceTyped

LEMMA ProbeKeeps ==
  ASSUME Service, NEW a \in Attempts, Probe(a)
  PROVE  Service' /\ NoneAges
<1>1. attempt[a].pc = "probe" /\ rcon.client # a
  BY RconAssumption DEF Probe, Service, ClientInv
<1>2. ASSUME NEW res \in Settled, Settle(a, rcon, res), socket' = socket
      PROVE  Service' /\ NoneAges
  <2>1. rcon \in RconType
    BY DEF Service, ServiceTyped
  <2>2. /\ attempt' \in [Attempts -> AttemptType]
        /\ \A b \in Attempts \ {a} : attempt'[b] = attempt[b]
        /\ rcon' \in RconType
        /\ rcon'.client = rcon.client /\ rcon'.connected = rcon.connected
        /\ NoneAges /\ OldIsStale'
    BY <1>2, <2>1, SettleIs
  <2>3. ClientInv'
    BY <1>1, <1>2, <2>2
       DEF Service, ServiceTyped, RconType, ClientInv, ConnectedMeansAuthenticated, NoLeakedConnection
  <2>4. QED
    BY <1>2, <2>2, <2>3 DEF Service, ServiceTyped
<1>3. ASSUME ~attempt[a].stale, ~(rcon.connected /\ rcon.client # None),
             attempt' = [attempt EXCEPT ![a].pc = "auth"],
             socket' = [Closed({rcon.client}) EXCEPT ![a] = "open"],
             rcon' = [rcon EXCEPT !.client = a]
      PROVE  Service' /\ NoneAges
  <2>1. /\ attempt' \in [Attempts -> AttemptType] /\ attempt'[a].pc = "auth"
        /\ attempt'[a].old = attempt[a].old /\ attempt'[a].stale = attempt[a].stale
        /\ \A b \in Attempts \ {a} : attempt'[b] = attempt[b]
    BY <1>3 DEF Service, ServiceTyped, AttemptType
  <2>2. rcon' \in RconType /\ rcon'.client = a /\ rcon'.connected = rcon.connected
    BY <1>3 DEF Service, ServiceTyped, RconType
  <2>3. ~rcon.connected
    BY <1>3 DEF Service, ClientInv, ConnectedMeansAuthenticated
  <2>4. /\ socket' \in [Attempts -> SocketType]
        /\ \A b \in Attempts \ {a} : socket'[b] \in {"none", "closed"}
    <3>1. Closed({rcon.client}) \in [Attempts -> SocketType]
      BY ClosedIs DEF Service
    <3>2. \A b \in Attempts : Closed({rcon.client})[b] \in {"none", "closed"}
      BY ClosedIs DEF Service, ClientInv, NoLeakedConnection
    <3>3. QED
      BY <1>3, <3>1, <3>2 DEF SocketType
  <2>5. ~attempt[a].old
    BY <1>1, <1>3 DEF Service, OldIsStale, Running
  <2>6. a # None
    BY RconAssumption
  <2>7. ClientInv'
    BY <2>1, <2>2, <2>3, <2>4, <2>5, <2>6
       DEF ClientInv, ConnectedMeansAuthenticated, NoLeakedConnection
  <2>8. OldIsStale' /\ NoneAges
    BY <1>1, <2>1 DEF Service, OldIsStale, Running, NoneAges
  <2>9. QED
    BY <2>1, <2>2, <2>4, <2>7, <2>8 DEF Service, ServiceTyped
<1>4. "nothing" \in Settled /\ "connected" \in Settled
  BY DEF Settled
<1>5. CASE ProbeOpen(a)
  BY <1>2, <1>3, <1>4, <1>5 DEF ProbeOpen
<1>6. CASE ProbeClosed(a)
  BY <1>2, <1>4, <1>6 DEF ProbeClosed
<1>7. QED
  BY <1>5, <1>6 DEF Probe

\* Only the attempt that owns the client has an open socket to authenticate on.
LEMMA AuthKeeps ==
  ASSUME Service, NEW a \in Attempts, Auth(a)
  PROVE  Service' /\ NoneAges
<1>1. attempt[a].pc = "auth"
  BY DEF Auth
<1>2. rcon \in RconType /\ a # None
  BY RconAssumption DEF Service, ServiceTyped
<1>3. ASSUME socket[a] = "open", ~attempt[a].stale, socket' = socket,
             Settle(a, [rcon EXCEPT !.connected = TRUE, !.tries = 0, !.failures = 0], "connected")
      PROVE  Service' /\ NoneAges
  <2>1. rcon.client = a
    BY <1>3 DEF Service, ClientInv, NoLeakedConnection
  <2>2. [rcon EXCEPT !.connected = TRUE, !.tries = 0, !.failures = 0] \in RconType
    <3>1. 0 \in 0..MaxTries /\ 0 \in Nat
      BY RconAssumption
    <3>2. QED
      BY <1>2, <3>1 DEF RconType
  <2>3. /\ attempt' \in [Attempts -> AttemptType]
        /\ attempt'[a] = [pc |-> "connected", stale |-> FALSE, old |-> attempt[a].old]
        /\ rcon' \in RconType /\ rcon'.client = a
        /\ NoneAges /\ OldIsStale'
    <3> DEFINE r == [rcon EXCEPT !.connected = TRUE, !.tries = 0, !.failures = 0]
    <3>1. r \in RconType
      BY <2>2
    <3>2. r.client = a
      BY <1>2, <2>1 DEF RconType
    <3>3. Settle(a, r, "connected") /\ "connected" \in Settled
      BY <1>3 DEF Settled
    <3> HIDE DEF r
    <3>4. QED
      BY <3>1, <3>2, <3>3, SettleIs
  <2>4. ClientInv'
    BY <1>2, <1>3, <2>1, <2>3
       DEF Service, ClientInv, ConnectedMeansAuthenticated, NoLeakedConnection
  <2>5. QED
    BY <1>3, <2>3, <2>4 DEF Service, ServiceTyped
<1>4. ASSUME NEW r \in RconType, NEW res \in Settled, Settle(a, r, res), socket' = Closed({a}),
             r.client = (IF rcon.client = a THEN None ELSE rcon.client),
             r.connected => rcon.connected /\ rcon.client # a
      PROVE  Service' /\ NoneAges
  <2>1. /\ attempt' \in [Attempts -> AttemptType]
        /\ \A b \in Attempts \ {a} : attempt'[b] = attempt[b]
        /\ rcon' \in RconType
        /\ rcon'.client = r.client /\ rcon'.connected = r.connected
        /\ NoneAges /\ OldIsStale'
    BY <1>4, SettleIs
  <2>2. /\ socket' \in [Attempts -> SocketType]
        /\ socket'[a] \in {"none", "closed"}
        /\ \A b \in Attempts \ {a} : socket'[b] = socket[b]
    BY <1>4, ClosedIs DEF Service
  <2>3. rcon.client \in Attempts \cup {None}
    BY <1>2 DEF RconType
  <2>4. ClientInv'
    BY <1>4, <2>1, <2>2, <2>3
       DEF Service, ClientInv, ConnectedMeansAuthenticated, NoLeakedConnection
  <2>5. QED
    BY <2>1, <2>2, <2>4 DEF Service, ServiceTyped
<1>5. CASE Authenticated(a) /\ attempt[a].stale
  <2>1. Settle(a, Forget(rcon, a), "nothing") /\ socket' = Closed({a})
    BY <1>5 DEF Authenticated
  <2>2. /\ Forget(rcon, a) \in RconType
        /\ Forget(rcon, a).client = IF rcon.client = a THEN None ELSE rcon.client
        /\ Forget(rcon, a).connected = rcon.connected
    BY <1>2 DEF Forget, RconType
  <2>3. ~(rcon.connected /\ rcon.client = a)
    BY <1>1 DEF Service, ClientInv, ConnectedMeansAuthenticated
  <2>4. "nothing" \in Settled
    BY DEF Settled
  <2>5. QED
    BY <1>4, <2>1, <2>2, <2>3, <2>4
<1>6. CASE Authenticated(a) /\ ~attempt[a].stale
  BY <1>3, <1>6 DEF Authenticated
<1>7. CASE AuthFails(a)
  <2> DEFINE r == [Forget(rcon, a) EXCEPT !.connected = @ /\ rcon.client # a]
  <2>1. PICK res \in {"timedout", "rejected"} : Settle(a, r, res)
    BY <1>7 DEF AuthFails
  <2>2. res \in Settled
    BY DEF Settled
  <2>3. /\ r \in RconType
        /\ r.client = (IF rcon.client = a THEN None ELSE rcon.client)
        /\ r.connected => rcon.connected /\ rcon.client # a
    <3>1. CASE rcon.client = a
      BY <1>2, <3>1 DEF Forget, RconType
    <3>2. CASE rcon.client # a
      <4>1. CASE rcon.connected = TRUE
        BY <1>2, <3>2, <4>1 DEF Forget, RconType
      <4>2. CASE rcon.connected = FALSE
        BY <1>2, <3>2, <4>2 DEF Forget, RconType
      <4>3. QED
        BY <1>2, <4>1, <4>2 DEF RconType
    <3>3. QED
      BY <3>1, <3>2
  <2>4. socket' = Closed({a})
    BY <1>7 DEF AuthFails
  <2> HIDE DEF r
  <2>5. QED
    BY <1>4, <2>1, <2>2, <2>3, <2>4
<1>8. QED
  BY <1>5, <1>6, <1>7 DEF Auth

LEMMA StaleIs ==
  ASSUME ServiceTyped
  PROVE  /\ StaleAttempts \in [Attempts -> AttemptType]
         /\ \A a \in Attempts : /\ StaleAttempts[a].pc = attempt[a].pc
                                /\ StaleAttempts[a].old = attempt[a].old
                                /\ attempt[a].stale => StaleAttempts[a].stale
                                /\ Running(a) => StaleAttempts[a].stale
<1>1. ASSUME NEW a \in Attempts
      PROVE  /\ [attempt[a] EXCEPT !.stale = @ \/ Running(a)] \in AttemptType
             /\ [attempt[a] EXCEPT !.stale = @ \/ Running(a)].pc = attempt[a].pc
             /\ [attempt[a] EXCEPT !.stale = @ \/ Running(a)].old = attempt[a].old
             /\ attempt[a].stale => [attempt[a] EXCEPT !.stale = @ \/ Running(a)].stale
             /\ Running(a) => [attempt[a] EXCEPT !.stale = @ \/ Running(a)].stale
  <2>0. attempt[a] \in AttemptType
    BY DEF ServiceTyped
  <2>1. CASE attempt[a].stale \/ Running(a)
    BY <2>0, <2>1 DEF AttemptType
  <2>2. CASE ~(attempt[a].stale \/ Running(a))
    BY <2>0, <2>2 DEF AttemptType
  <2>3. QED
    BY <2>1, <2>2
<1>2. QED
  BY <1>1 DEF StaleAttempts

\* All that is open is the client's.
LEMMA AllClosed ==
  ASSUME Service, socket' = Closed(Pending \cup {rcon.client})
  PROVE  /\ socket' \in [Attempts -> SocketType]
         /\ \A a \in Attempts : socket'[a] \in {"none", "closed"}
BY ClosedIs DEF Service, ClientInv, NoLeakedConnection

\* No attempt ends or begins, but some may be told that they are stale.
Warned == \A a \in Attempts : /\ attempt'[a].pc = attempt[a].pc
                              /\ attempt'[a].old = attempt[a].old
                              /\ attempt[a].stale => attempt'[a].stale

LEMMA WarnedIs ==
  ASSUME ServiceTyped, attempt' = StaleAttempts \/ attempt' = attempt
  PROVE  attempt' \in [Attempts -> AttemptType] /\ Warned
<1>1. CASE attempt' = StaleAttempts
  BY <1>1, StaleIs DEF Warned
<1>2. CASE attempt' = attempt
  BY <1>2 DEF Warned, ServiceTyped
<1>3. QED
  BY <1>1, <1>2

\* Everything is dropped: the client and what still authenticates.
LEMMA DropsAll ==
  ASSUME Service, rcon' \in RconType, rcon'.client = None, rcon'.connected = FALSE,
         socket' \in [Attempts -> SocketType],
         \A a \in Attempts : socket'[a] \in {"none", "closed"},
         attempt' \in [Attempts -> AttemptType], Warned
  PROVE  Service' /\ NoneAges
<1>1. ClientInv'
  BY DEF ClientInv, ConnectedMeansAuthenticated, NoLeakedConnection
<1>2. OldIsStale' /\ NoneAges
  BY DEF Service, OldIsStale, Running, NoneAges, Warned
<1>3. QED
  BY <1>1, <1>2 DEF Service, ServiceTyped

\* One client is dropped, if it is still the current one; its socket is closed.
LEMMA DropsOne ==
  ASSUME Service, NEW x, rcon' \in RconType, socket' = Closed({x}), attempt' = attempt,
         rcon'.client = (IF rcon.client = x THEN None ELSE rcon.client),
         rcon'.connected => rcon.connected /\ rcon.client # x
  PROVE  Service' /\ NoneAges
<1>1. /\ socket' \in [Attempts -> SocketType]
      /\ x \in Attempts => socket'[x] \in {"none", "closed"}
      /\ \A a \in Attempts \ {x} : socket'[a] = socket[a]
  BY ClosedIs DEF Service
<1>2. rcon.client \in Attempts \cup {None}
  BY DEF Service, ServiceTyped, RconType
<1>3. ClientInv'
  BY <1>1, <1>2 DEF Service, ClientInv, ConnectedMeansAuthenticated, NoLeakedConnection
<1>4. OldIsStale' /\ NoneAges
  BY DEF Service, OldIsStale, Running, NoneAges
<1>5. QED
  BY <1>1, <1>3, <1>4 DEF Service, ServiceTyped

\* The peer goes away: an open socket stays open on this side.
LEMMA PeerGoes ==
  ASSUME Service, UNCHANGED <<rcon, attempt>>, socket' \in [Attempts -> SocketType],
         \A a \in Attempts : socket'[a] # socket[a] =>
            /\ socket[a] \in {"open", "silent"} /\ socket'[a] \in {"silent", "dropped"}
  PROVE  Service' /\ NoneAges
<1>1. ClientInv'
  BY DEF Service, ServiceTyped, RconType, ClientInv, ConnectedMeansAuthenticated, NoLeakedConnection
<1>2. OldIsStale' /\ NoneAges
  BY DEF Service, OldIsStale, Running, NoneAges
<1>3. QED
  BY <1>1, <1>2 DEF Service, ServiceTyped

\* Same socket, seen through Closed.
LEMMA ClosedNothing ==
  ASSUME Service, socket' = Closed({})
  PROVE  socket' = socket
<1>1. /\ socket' \in [Attempts -> SocketType]
      /\ \A a \in Attempts : socket'[a] = socket[a]
  BY ClosedIs DEF Service
<1>2. QED
  BY <1>1 DEF Service, ServiceTyped

LEMMA ResetKeeps ==
  ASSUME Service, NEW r \in RconType, Reset(r)
  PROVE  Service' /\ NoneAges
<1>1. rcon' \in RconType /\ rcon'.client = None /\ rcon'.connected = FALSE
  <2>1. 0 \in 0..MaxTries /\ 0 \in Nat
    BY RconAssumption
  <2>2. rcon' = [r EXCEPT !.client = None, !.connected = FALSE, !.connecting = None,
                          !.reconnecting = None, !.tries = 0, !.failures = 0, !.starting = FALSE]
    BY DEF Reset
  <2>3. QED
    BY <2>1, <2>2 DEF RconType
<1>2. attempt' \in [Attempts -> AttemptType] /\ Warned
  BY WarnedIs DEF Reset, Service
<1>3. /\ socket' \in [Attempts -> SocketType]
      /\ \A a \in Attempts : socket'[a] \in {"none", "closed"}
  BY AllClosed DEF Reset
<1>4. QED
  BY <1>1, <1>2, <1>3, DropsAll

\* Offline: what disconnect() leaves of the fields.
LEMMA OfflineIs ==
  ASSUME NEW r \in RconType
  PROVE  /\ Offline(r) \in RconType
         /\ Offline(r).client = None /\ Offline(r).connected = FALSE
         /\ Offline(r).tries = r.tries /\ Offline(r).failures = r.failures
BY DEF Offline, RconType

LEMMA DisconnectKeeps ==
  ASSUME Service, Disconnect
  PROVE  Service' /\ NoneAges
<1>1. rcon' \in RconType /\ rcon'.client = None /\ rcon'.connected = FALSE
  BY OfflineIs DEF Disconnect, Service, ServiceTyped
<1>2. attempt' \in [Attempts -> AttemptType] /\ Warned
  BY WarnedIs DEF Disconnect, Service
<1>3. /\ socket' \in [Attempts -> SocketType]
      /\ \A a \in Attempts : socket'[a] \in {"none", "closed"}
  BY AllClosed DEF Disconnect
<1>4. QED
  BY <1>1, <1>2, <1>3, DropsAll

LEMMA EnterLoopKeeps ==
  ASSUME Service, NEW l \in Loops, EnterLoop(l)
  PROVE  Service' /\ NoneAges
<1> DEFINE go == ~HasPending /\ rcon.tries < MaxTries
           n == IF go THEN rcon.tries + 1 ELSE 0
           m == IF go THEN l ELSE None
<1>1. rcon \in RconType
  BY DEF Service, ServiceTyped
<1>2. n \in 0..MaxTries /\ m \in Loops \cup {None}
  BY <1>1, RconAssumption DEF RconType
<1>3. /\ Offline(rcon) \in RconType
      /\ Offline(rcon).client = None /\ Offline(rcon).connected = FALSE
      /\ Offline(rcon).tries = rcon.tries
  BY <1>1, OfflineIs
<1>4. rcon' = [Offline(rcon) EXCEPT !.tries = n, !.reconnecting = m]
  BY <1>1, <1>3 DEF EnterLoop, RconType
<1>5. rcon' \in RconType /\ rcon'.client = None /\ rcon'.connected = FALSE
  <2> HIDE DEF n, m
  <2>1. QED
    BY <1>2, <1>3, <1>4 DEF RconType
<1>6. attempt' \in [Attempts -> AttemptType] /\ Warned
  BY WarnedIs DEF EnterLoop, Service
<1>7. /\ socket' \in [Attempts -> SocketType]
      /\ \A a \in Attempts : socket'[a] \in {"none", "closed"}
  BY AllClosed DEF EnterLoop
<1>8. QED
  BY <1>5, <1>6, <1>7, DropsAll

LEMMA EndLoopIs ==
  ASSUME Service, NEW l \in Loops, EndLoop(l)
  PROVE  rcon' \in RconType /\ rcon'.client = rcon.client /\ rcon'.connected = rcon.connected
<1>1. 0 \in 0..MaxTries
  BY RconAssumption
<1>2. rcon \in RconType
  BY DEF Service, ServiceTyped
<1>3. rcon' = [rcon EXCEPT !.tries = 0, !.reconnecting = IF @ = l THEN None ELSE @]
  BY DEF EndLoop
<1>4. QED
  BY <1>1, <1>2, <1>3 DEF RconType

LEMMA WakeKeeps ==
  ASSUME Service, NEW l \in Loops, Wake(l)
  PROVE  Service' /\ NoneAges
<1>1. CASE EndLoop(l) /\ UNCHANGED <<attempt, socket>>
  BY <1>1, EndLoopIs, OtherFields
<1>2. CASE \E a \in Attempts : Connecting(a)
  BY <1>2, ConnectingKeeps
<1>3. QED
  BY <1>1, <1>2 DEF Wake

LEMMA LoopGoesKeeps ==
  ASSUME Service, NEW l \in Loops, LoopGoes(l)
  PROVE  Service' /\ NoneAges
<1>1. UNCHANGED <<attempt, socket>>
  BY DEF LoopGoes
<1>2. CASE EndLoop(l)
  BY <1>1, <1>2, EndLoopIs, OtherFields
<1>3. CASE ~(rcon.tries >= MaxTries) /\ rcon' = [rcon EXCEPT !.tries = @ + 1]
  <2>1. rcon \in RconType
    BY DEF Service, ServiceTyped
  <2>2. rcon.tries + 1 \in 0..MaxTries
    BY <1>3, <2>1, RconAssumption DEF RconType
  <2>3. rcon' \in RconType /\ rcon'.client = rcon.client /\ rcon'.connected = rcon.connected
    BY <1>3, <2>1, <2>2 DEF RconType
  <2>4. QED
    BY <1>1, <2>3, OtherFields
<1>4. QED
  BY <1>2, <1>3 DEF LoopGoes

LEMMA CallKeeps ==
  ASSUME Service, NEW c \in Commands, Call(c)
  PROVE  Service' /\ NoneAges
<1>1. CASE UNCHANGED <<rcon, attempt, socket>>
  BY <1>1, SameService
<1>2. CASE \E a \in Attempts : Connecting(a)
  BY <1>2, ConnectingKeeps
<1>3. QED
  BY <1>1, <1>2 DEF Call

LEMMA ReplyKeeps ==
  ASSUME Service, NEW c \in Commands, Reply(c)
  PROVE  Service' /\ NoneAges
<1>1. rcon \in RconType
  BY DEF Service, ServiceTyped
<1> DEFINE zero == /\ ~Changed(c) /\ cmd[c].pc = "flight"
                   /\ rcon.client = cmd[c].via /\ rcon.connected
           n == IF zero THEN 0 ELSE rcon.failures
<1>2. n \in Nat
  BY <1>1 DEF RconType
<1>3. rcon' = [rcon EXCEPT !.failures = n]
  BY <1>1 DEF Reply, RconType
<1> HIDE DEF n
<1>4. rcon' \in RconType /\ rcon'.client = rcon.client /\ rcon'.connected = rcon.connected
  BY <1>1, <1>2, <1>3 DEF RconType
<1>5. UNCHANGED <<attempt, socket>>
  BY DEF Reply
<1>6. QED
  BY <1>4, <1>5, OtherFields

\* Forget(r, x) together with the flag.
LEMMA ForgetIs ==
  ASSUME NEW x
  PROVE  rcon \in RconType =>
           LET r == [Forget(rcon, x) EXCEPT !.connected = @ /\ rcon.client # x] IN
           /\ r \in RconType
           /\ r.client = (IF rcon.client = x THEN None ELSE rcon.client)
           /\ r.connected => rcon.connected /\ rcon.client # x
<1> SUFFICES ASSUME rcon \in RconType
             PROVE  LET r == [Forget(rcon, x) EXCEPT !.connected = @ /\ rcon.client # x] IN
                    /\ r \in RconType
                    /\ r.client = (IF rcon.client = x THEN None ELSE rcon.client)
                    /\ r.connected => rcon.connected /\ rcon.client # x
  OBVIOUS
<1>1. CASE rcon.client = x
  BY <1>1 DEF Forget, RconType
<1>2. CASE rcon.client # x /\ rcon.connected = TRUE
  BY <1>2 DEF Forget, RconType
<1>3. CASE rcon.client # x /\ rcon.connected = FALSE
  BY <1>3 DEF Forget, RconType
<1>4. QED
  BY <1>1, <1>2, <1>3 DEF RconType

LEMMA RecoverKeeps ==
  ASSUME Service, NEW c \in Commands, Recover(c)
  PROVE  Service' /\ NoneAges
<1>1. attempt' = attempt /\ rcon \in RconType
  BY DEF Recover, Service, ServiceTyped
<1>2. CASE UNCHANGED <<rcon, socket>>
  BY <1>1, <1>2, SameService
<1>3. ASSUME NEW x, socket' = Closed({x}),
             rcon' = [Forget(rcon, x) EXCEPT !.connected = @ /\ rcon.client # x]
      PROVE  Service' /\ NoneAges
  BY <1>1, <1>3, ForgetIs, DropsOne
<1>4. QED
  BY <1>2, <1>3 DEF Recover

LEMMA RetryFailsKeeps ==
  ASSUME Service, NEW c \in Commands, RetryFails(c)
  PROVE  Service' /\ NoneAges
<1>1. attempt' = attempt /\ rcon \in RconType
  BY DEF RetryFails, Service, ServiceTyped
<1>2. CASE UNCHANGED <<rcon, socket>>
  BY <1>1, <1>2, SameService
<1>3. ASSUME NEW x, socket' = Closed({x}),
             rcon' = [Forget(rcon, x) EXCEPT !.connected = @ /\ rcon.client # x]
      PROVE  Service' /\ NoneAges
  BY <1>1, <1>3, ForgetIs, DropsOne
<1>4. QED
  BY <1>2, <1>3 DEF RetryFails

\* The client itself is dropped.
LEMMA ClientDropped ==
  ASSUME Service, NEW r \in RconType, r = rcon, attempt' = attempt,
         socket' = Closed({rcon.client}),
         rcon' = [r EXCEPT !.client = None, !.connected = FALSE]
  PROVE  Service' /\ NoneAges
<1>1. rcon' \in RconType /\ rcon'.client = None /\ rcon'.connected = FALSE
  BY DEF RconType
<1>2. QED
  BY <1>1, DropsOne

LEMMA ResendKeeps ==
  ASSUME Service, NEW c \in Commands, Resend(c)
  PROVE  Service' /\ NoneAges
<1>1. attempt' = attempt /\ rcon \in RconType
  BY DEF Resend, Service, ServiceTyped
<1>2. CASE UNCHANGED <<rcon, socket>>
  BY <1>1, <1>2, SameService
<1>3. CASE socket' = Closed({rcon.client}) /\ rcon' = [rcon EXCEPT !.client = None, !.connected = FALSE]
  BY <1>1, <1>3, ClientDropped
<1>4. QED
  BY <1>2, <1>3 DEF Resend

LEMMA ReturnedKeeps ==
  ASSUME Service, NEW c \in Commands, Returned(c)
  PROVE  Service' /\ NoneAges
<1>1. attempt' = attempt /\ rcon \in RconType
  BY DEF Returned, Service, ServiceTyped
<1>2. CASE UNCHANGED <<rcon, socket>>
  BY <1>1, <1>2, SameService
<1>3. CASE socket' = Closed({rcon.client}) /\ rcon' = [rcon EXCEPT !.client = None, !.connected = FALSE]
  BY <1>1, <1>3, ClientDropped
<1>4. QED
  BY <1>2, <1>3 DEF Returned

LEMMA MendKeeps ==
  ASSUME Service, NEW c \in Commands, Mend(c)
  PROVE  Service' /\ NoneAges
<1>1. CASE UNCHANGED <<rcon, attempt, socket>>
  BY <1>1, SameService
<1>2. CASE \E l \in Loops : EnterLoop(l)
  BY <1>2, EnterLoopKeeps
<1>3. QED
  BY <1>1, <1>2 DEF Mend

LEMMA RejoinKeeps ==
  ASSUME Service, NEW c \in Commands, Rejoin(c)
  PROVE  Service' /\ NoneAges
<1>1. CASE UNCHANGED <<rcon, attempt, socket>>
  BY <1>1, SameService
<1>2. CASE \E l \in Loops : EnterLoop(l)
  BY <1>2, EnterLoopKeeps
<1>3. QED
  BY <1>1, <1>2 DEF Rejoin

LEMMA StartingKeeps ==
  ASSUME Service, StartingChanges
  PROVE  Service' /\ NoneAges
<1>1. rcon' \in RconType /\ rcon'.client = rcon.client /\ rcon'.connected = rcon.connected
  BY DEF StartingChanges, Service, ServiceTyped, RconType
<1>2. UNCHANGED <<attempt, socket>>
  BY DEF StartingChanges
<1>3. QED
  BY <1>1, <1>2, OtherFields

LEMMA HealthBeginsKeeps ==
  ASSUME Service, HealthBegins
  PROVE  Service' /\ NoneAges
<1>1. UNCHANGED <<attempt, socket>>
  BY DEF HealthBegins
<1>2. CASE rcon' = rcon
  BY <1>1, <1>2, SameService
<1>3. CASE rcon' = [rcon EXCEPT !.failures = 0]
  <2>1. rcon' \in RconType /\ rcon'.client = rcon.client /\ rcon'.connected = rcon.connected
    BY <1>3 DEF Service, ServiceTyped, RconType
  <2>2. QED
    BY <1>1, <2>1, OtherFields
<1>4. QED
  BY <1>2, <1>3 DEF HealthBegins

LEMMA HealthEndsKeeps ==
  ASSUME Service, HealthEnds
  PROVE  Service' /\ NoneAges
<1>1. rcon \in RconType
  BY DEF Service, ServiceTyped
<1>2. ASSUME Unhealthy(rcon, {})
      PROVE  Service' /\ NoneAges
  <2>1. CASE Reset(rcon)
    BY <1>1, <2>1, ResetKeeps
  <2>2. CASE /\ rcon' = [rcon EXCEPT !.failures = @ + 1]
             /\ socket' = Closed({}) /\ UNCHANGED <<attempt, loop>>
    <3>1. rcon' \in RconType /\ rcon'.client = rcon.client /\ rcon'.connected = rcon.connected
      BY <1>1, <2>2 DEF RconType
    <3>2. socket' = socket
      BY <2>2, ClosedNothing
    <3>3. QED
      BY <2>2, <3>1, <3>2, OtherFields
  <2>3. QED
    BY <1>2, <2>1, <2>2 DEF Unhealthy
<1>3. ASSUME rcon.client = check,
             Unhealthy([rcon EXCEPT !.client = None, !.connected = FALSE], {check})
      PROVE  Service' /\ NoneAges
  <2> DEFINE r == [rcon EXCEPT !.client = None, !.connected = FALSE]
  <2>1. r \in RconType /\ r.client = None /\ r.connected = FALSE
    BY <1>1 DEF RconType
  <2>2. Unhealthy(r, {check})
    BY <1>3
  <2> HIDE DEF r
  <2>3. CASE Reset(r)
    BY <2>1, <2>3, ResetKeeps
  <2>4. CASE /\ rcon' = [r EXCEPT !.failures = @ + 1]
             /\ socket' = Closed({check}) /\ UNCHANGED <<attempt, loop>>
    <3>1. rcon' \in RconType /\ rcon'.client = None /\ rcon'.connected = FALSE
      BY <2>1, <2>4 DEF RconType
    <3>2. QED
      BY <1>3, <2>4, <3>1, DropsOne
  <2>5. QED
    BY <2>2, <2>3, <2>4 DEF Unhealthy
<1>4. CASE HealthAnswers
  <2>1. CASE rcon' = [rcon EXCEPT !.failures = 0] /\ UNCHANGED <<attempt, loop, socket>>
    <3>1. rcon' \in RconType /\ rcon'.client = rcon.client /\ rcon'.connected = rcon.connected
      BY <1>1, <2>1 DEF RconType
    <3>2. QED
      BY <2>1, <3>1, OtherFields
  <2>2. QED
    BY <1>2, <1>4, <2>1 DEF HealthAnswers
<1>5. CASE HealthFails
  BY <1>2, <1>3, <1>5 DEF HealthFails
<1>6. QED
  BY <1>4, <1>5 DEF HealthEnds

LEMMA GameStopsKeeps ==
  ASSUME Service, GameStops
  PROVE  Service' /\ NoneAges
<1>1. PICK way \in {"silent", "dropped"} :
        socket' = [a \in Attempts |-> IF socket[a] = "open" THEN way ELSE socket[a]]
  BY DEF GameStops
<1>2. /\ socket' \in [Attempts -> SocketType]
      /\ \A a \in Attempts : socket'[a] # socket[a] =>
            socket[a] = "open" /\ socket'[a] \in {"silent", "dropped"}
  BY <1>1 DEF Service, ServiceTyped, SocketType
<1>3. UNCHANGED <<rcon, attempt>>
  BY DEF GameStops
<1>4. QED
  BY <1>2, <1>3, PeerGoes

LEMMA DroppedKeeps ==
  ASSUME Service, NEW a \in Attempts, Dropped(a)
  PROVE  Service' /\ NoneAges
<1>1. socket[a] \in {"open", "silent"}
  BY DEF Dropped
<1>2. socket' = [socket EXCEPT ![a] = "dropped"] /\ UNCHANGED <<rcon, attempt>>
  BY DEF Dropped
<1>3. /\ socket' \in [Attempts -> SocketType]
      /\ \A b \in Attempts : socket'[b] # socket[b] =>
            socket[b] \in {"open", "silent"} /\ socket'[b] \in {"silent", "dropped"}
  BY <1>1, <1>2 DEF Service, ServiceTyped, SocketType
<1>4. QED
  BY <1>2, <1>3, PeerGoes

\* The new target: what still runs belongs to the old one and is told so.
LEMMA RetargetKeeps ==
  ASSUME Service, Retarget
  PROVE  Service'
<1>1. PICK config \in Configs : rcon' = [Offline(rcon) EXCEPT !.config = config]
  BY DEF Retarget
<1>2. rcon' \in RconType /\ rcon'.client = None /\ rcon'.connected = FALSE
  <2>1. Offline(rcon) \in RconType /\ Offline(rcon).client = None /\ Offline(rcon).connected = FALSE
    BY OfflineIs DEF Service, ServiceTyped
  <2>2. QED
    BY <1>1, <2>1 DEF RconType
<1>3. /\ socket' \in [Attempts -> SocketType]
      /\ \A a \in Attempts : socket'[a] \in {"none", "closed"}
  BY AllClosed DEF Retarget
<1>4. ASSUME NEW a \in Attempts
      PROVE  /\ [StaleAttempts[a] EXCEPT !.old = attempt[a].pc # "unused"] \in AttemptType
             /\ [StaleAttempts[a] EXCEPT !.old = attempt[a].pc # "unused"].pc = attempt[a].pc
             /\ Running(a) => [StaleAttempts[a] EXCEPT !.old = attempt[a].pc # "unused"].stale
  <2>1. /\ StaleAttempts[a] \in AttemptType /\ StaleAttempts[a].pc = attempt[a].pc
        /\ Running(a) => StaleAttempts[a].stale
    BY StaleIs DEF Service
  <2>2. CASE attempt[a].pc = "unused"
    BY <2>1, <2>2 DEF AttemptType
  <2>3. CASE attempt[a].pc # "unused"
    BY <2>1, <2>3 DEF AttemptType
  <2>4. QED
    BY <2>2, <2>3
<1>5. attempt' = [a \in Attempts |-> [StaleAttempts[a] EXCEPT !.old = attempt[a].pc # "unused"]]
  BY DEF Retarget
<1>6. attempt' \in [Attempts -> AttemptType] /\ OldIsStale'
  BY <1>4, <1>5 DEF OldIsStale, Running
<1>7. ClientInv'
  BY <1>2, <1>3 DEF ClientInv, ConnectedMeansAuthenticated, NoLeakedConnection
<1>8. QED
  BY <1>2, <1>3, <1>6, <1>7 DEF Service, ServiceTyped

-----------------------------------------------------------------------------
(* What the updates of a command's record make of it.                      *)

LEMMA OneRecord ==
  ASSUME CommandsTyped, NEW c \in Commands, NEW x \in CmdType, cmd' = [cmd EXCEPT ![c] = x]
  PROVE  /\ cmd' \in [Commands -> CmdType] /\ cmd'[c] = x
         /\ \A d \in Commands \ {c} : cmd'[d] = cmd[d]
BY DEF CommandsTyped

LEMMA ReturnIs ==
  ASSUME CommandsTyped, NEW c \in Commands, NEW result \in Results, NEW claim \in Claims,
         Return(c, result, claim)
  PROVE  /\ cmd' \in [Commands -> CmdType]
         /\ \A d \in Commands \ {c} : cmd'[d] = cmd[d]
         /\ cmd'[c].pc = "returned" /\ cmd'[c].claim = claim
         /\ cmd'[c].sent = cmd[c].sent /\ cmd'[c].via = cmd[c].via
<1> DEFINE x == [cmd[c] EXCEPT !.pc = "returned", !.on = None, !.result = result, !.claim = claim]
<1>1. cmd[c] \in CmdType
  BY DEF CommandsTyped
<1>2. /\ x \in CmdType /\ x.pc = "returned" /\ x.claim = claim
      /\ x.sent = cmd[c].sent /\ x.via = cmd[c].via
  BY <1>1 DEF CmdType, CmdPc
<1>3. cmd' = [cmd EXCEPT ![c] = x]
  BY DEF Return, CommandsTyped
<1> HIDE DEF x
<1>4. QED
  BY <1>2, <1>3, OneRecord

\* The record of a call, in the three ways it can begin.
Called(x, q) ==
  \/ x = [NotCalled EXCEPT !.quit = q, !.pc = "returned", !.result = "starting"]
  \/ x = [NotCalled EXCEPT !.quit = q, !.pc = "send"]
  \/ \E a \in Attempts : x = [NotCalled EXCEPT !.quit = q, !.pc = "connect", !.on = a]

LEMMA NewCall ==
  ASSUME NEW q \in Attempts \cup {None}, NEW x, Called(x, q)
  PROVE  /\ x \in CmdType /\ x.pc \in {"returned", "send", "connect"}
         /\ ~x.sent /\ x.claim = ""
BY DEF Called, NotCalled, CmdType, CmdPc, Results, Claims

\* Waiting for `w', with or without a new claim.
Waits(c, to, w, claim) ==
  \/ cmd' = [cmd EXCEPT ![c].pc = to, ![c].on = w] /\ claim = cmd[c].claim
  \/ cmd' = [cmd EXCEPT ![c].pc = to, ![c].on = w, ![c].claim = claim]

LEMMA WaitsIs ==
  ASSUME CommandsTyped, NEW c \in Commands, NEW to \in CmdPc,
         NEW w \in Attempts \cup Loops \cup {None}, NEW claim \in Claims,
         Waits(c, to, w, claim)
  PROVE  /\ cmd' \in [Commands -> CmdType]
         /\ \A d \in Commands \ {c} : cmd'[d] = cmd[d]
         /\ cmd'[c].pc = to /\ cmd'[c].claim = claim
         /\ cmd'[c].sent = cmd[c].sent /\ cmd'[c].via = cmd[c].via
<1> DEFINE x == [cmd[c] EXCEPT !.pc = to, !.on = w, !.claim = claim]
<1>1. cmd[c] \in CmdType
  BY DEF CommandsTyped
<1>2. /\ x \in CmdType /\ x.pc = to /\ x.claim = claim
      /\ x.sent = cmd[c].sent /\ x.via = cmd[c].via
  BY <1>1 DEF CmdType
<1>3. CASE cmd' = [cmd EXCEPT ![c].pc = to, ![c].on = w] /\ claim = cmd[c].claim
  <2>1. x = [cmd[c] EXCEPT !.pc = to, !.on = w]
    BY <1>1, <1>3 DEF CmdType
  <2>2. cmd' = [cmd EXCEPT ![c] = [cmd[c] EXCEPT !.pc = to, !.on = w]]
    BY <1>3 DEF CommandsTyped
  <2> HIDE DEF x
  <2>3. QED
    BY <1>2, <2>1, <2>2, OneRecord
<1>4. CASE cmd' = [cmd EXCEPT ![c].pc = to, ![c].on = w, ![c].claim = claim]
  <2>1. cmd' = [cmd EXCEPT ![c] = x]
    BY <1>4 DEF CommandsTyped
  <2> HIDE DEF x
  <2>2. QED
    BY <1>2, <2>1, OneRecord
<1>5. QED
  BY <1>3, <1>4 DEF Waits

\* A transmission over the client `v'.
Sends(c, to, v, sent, claim) ==
  cmd' = [cmd EXCEPT ![c].pc = to, ![c].via = v, ![c].sent = sent, ![c].claim = claim]

LEMMA SendIs ==
  ASSUME CommandsTyped, NEW c \in Commands, NEW to \in CmdPc, NEW v \in Attempts \cup {None},
         NEW sent \in BOOLEAN, NEW claim \in Claims, Sends(c, to, v, sent, claim)
  PROVE  /\ cmd' \in [Commands -> CmdType]
         /\ \A d \in Commands \ {c} : cmd'[d] = cmd[d]
         /\ cmd'[c].pc = to /\ cmd'[c].claim = claim
         /\ cmd'[c].sent = sent /\ cmd'[c].via = v
<1> DEFINE x == [cmd[c] EXCEPT !.pc = to, !.via = v, !.sent = sent, !.claim = claim]
<1>1. cmd[c] \in CmdType
  BY DEF CommandsTyped
<1>2. x \in CmdType /\ x.pc = to /\ x.claim = claim /\ x.sent = sent /\ x.via = v
  BY <1>1 DEF CmdType
<1>3. cmd' = [cmd EXCEPT ![c] = x]
  BY DEF Sends, CommandsTyped
<1> HIDE DEF x
<1>4. QED
  BY <1>2, <1>3, OneRecord

LEMMA ResendIs ==
  ASSUME CommandsTyped, NEW c \in Commands, NEW v \in Attempts,
         cmd' = [cmd EXCEPT ![c].pc = "retry", ![c].via = v, ![c].sent = TRUE]
  PROVE  /\ cmd' \in [Commands -> CmdType]
         /\ \A d \in Commands \ {c} : cmd'[d] = cmd[d]
         /\ cmd'[c].pc = "retry" /\ cmd'[c].via = v
<1> DEFINE x == [cmd[c] EXCEPT !.pc = "retry", !.via = v, !.sent = TRUE]
<1>1. cmd[c] \in CmdType
  BY DEF CommandsTyped
<1>2. x \in CmdType /\ x.pc = "retry" /\ x.via = v
  BY <1>1 DEF CmdType, CmdPc
<1>3. cmd' = [cmd EXCEPT ![c] = x]
  BY DEF CommandsTyped
<1> HIDE DEF x
<1>4. QED
  BY <1>2, <1>3, OneRecord

-----------------------------------------------------------------------------
(* Commands: one at a time.                                                *)

\* All that has to be known of a command after its step.
LEMMA OneCommand ==
  ASSUME Service, Service', CommandInv, NoneAges, NEW c \in Commands,
         cmd' \in [Commands -> CmdType], \A d \in Commands \ {c} : cmd'[d] = cmd[d],
         cmd'[c].pc \in {"flight", "retry"} =>
            /\ cmd'[c].via # None
            /\ ~cmd'[c].changed => ~attempt[cmd'[c].via].old,
         cmd'[c].sent => cmd'[c].via # None,
         cmd'[c].pc \in {"idle", "connect"} => ~cmd'[c].sent,
         c \notin Retried =>
            /\ cmd'[c].claim = "no" => ~cmd'[c].sent
            /\ cmd'[c].pc \notin {"mend", "rejoin", "reconnect", "resend", "retry"}
  PROVE  CommandsTyped' /\ CommandInv'
<1>1. \A d \in Commands : cmd'[d].via # None => cmd'[d].via \in Attempts
  BY DEF CmdType
<1>2. Honest(c)'
  BY <1>1 DEF Honest, NoneAges
<1>3. ASSUME NEW d \in Commands \ {c}
      PROVE  Honest(d)'
  BY <1>1, <1>3 DEF Honest, NoneAges, CommandInv
<1>4. QED
  BY <1>2, <1>3 DEF CommandInv, CommandsTyped

LEMMA SameCommands ==
  ASSUME CommandsTyped, CommandInv, NoneAges, cmd' = cmd
  PROVE  CommandsTyped' /\ CommandInv'
<1>1. \A d \in Commands : cmd[d].via # None => cmd[d].via \in Attempts
  BY DEF CommandsTyped, CmdType
<1>2. ASSUME NEW d \in Commands
      PROVE  Honest(d)'
  BY <1>1, <1>2 DEF Honest, NoneAges, CommandInv
<1>3. QED
  BY <1>2 DEF CommandInv, CommandsTyped

\* Return: nothing of the transmission changes, only what is said of it.
LEMMA ReturnKeeps ==
  ASSUME Service, Service', CommandsTyped, CommandInv, NoneAges, NEW c \in Commands,
         NEW result \in Results, NEW claim \in Claims, Return(c, result, claim),
         c \notin Retried /\ claim = "no" => ~cmd[c].sent
  PROVE  CommandsTyped' /\ CommandInv'
<1>1. /\ cmd' \in [Commands -> CmdType]
      /\ \A d \in Commands \ {c} : cmd'[d] = cmd[d]
      /\ cmd'[c].pc = "returned" /\ cmd'[c].claim = claim
      /\ cmd'[c].sent = cmd[c].sent /\ cmd'[c].via = cmd[c].via
  BY ReturnIs
<1>2. cmd[c].sent => cmd[c].via # None
  BY DEF CommandInv, Honest
<1>3. QED
  BY <1>1, <1>2, OneCommand

\* The command moves on, no transmission in between.
LEMMA MovesOn ==
  ASSUME Service, Service', CommandsTyped, CommandInv, NoneAges, NEW c \in Commands,
         cmd' \in [Commands -> CmdType], \A d \in Commands \ {c} : cmd'[d] = cmd[d],
         cmd'[c].pc \notin {"idle", "connect", "flight", "retry"},
         cmd'[c].pc \in {"mend", "rejoin", "reconnect", "resend"} => c \in Retried,
         cmd'[c].sent = cmd[c].sent, cmd'[c].via = cmd[c].via,
         cmd'[c].claim = "no" /\ cmd[c].claim # "no" => ~cmd[c].sent
  PROVE  CommandsTyped' /\ CommandInv'
<1>1. /\ cmd[c].sent => cmd[c].via # None
      /\ c \notin Retried => (cmd[c].claim = "no" => ~cmd[c].sent)
  BY DEF CommandInv, Honest
<1>2. QED
  BY <1>1, OneCommand

LEMMA ResultsAre ==
  /\ {"", "ok", "changed", "starting", "offline", "failed"} \subseteq Results
  /\ {"yes", "no", ""} \subseteq Claims
BY DEF Results, Claims

LEMMA CallTells ==
  ASSUME Service, Service', CommandsTyped, CommandInv, NoneAges, NEW c \in Commands, Call(c)
  PROVE  CommandsTyped' /\ CommandInv'
<1>1. PICK q \in Attempts \cup {None} : q = IF c \in Quits THEN rcon.client ELSE None
  BY DEF Service, ServiceTyped, RconType
<1>2. PICK x : /\ cmd' = [cmd EXCEPT ![c] = x]
               /\ x \in CmdType /\ x.pc \in {"returned", "send", "connect"}
               /\ ~x.sent /\ x.claim = ""
  <2>1. PICK x : cmd' = [cmd EXCEPT ![c] = x] /\ Called(x, q)
    BY <1>1 DEF Call, Called
  <2>2. QED
    BY <2>1, NewCall
<1>3. /\ cmd' \in [Commands -> CmdType] /\ cmd'[c] = x
      /\ \A d \in Commands \ {c} : cmd'[d] = cmd[d]
  BY <1>2, OneRecord
<1>4. QED
  BY <1>2, <1>3, OneCommand

LEMMA ResumeTells ==
  ASSUME Service, Service', CommandsTyped, CommandInv, NoneAges, NEW c \in Commands, Resume(c)
  PROVE  CommandsTyped' /\ CommandInv'
<1>1. ~cmd[c].sent
  BY DEF Resume, CommandInv, Honest
<1>2. CASE \E result \in Results, claim \in Claims : Return(c, result, claim)
  BY <1>1, <1>2, ReturnKeeps
<1>3. ASSUME NEW to \in {"send", "recover"},
             cmd' = [cmd EXCEPT ![c].pc = to, ![c].on = None, ![c].claim = "no"]
      PROVE  CommandsTyped' /\ CommandInv'
  <2>1. /\ cmd' \in [Commands -> CmdType]
        /\ \A d \in Commands \ {c} : cmd'[d] = cmd[d]
        /\ cmd'[c].pc = to /\ cmd'[c].sent = cmd[c].sent /\ cmd'[c].via = cmd[c].via
    <3>1. Waits(c, to, None, "no") /\ to \in CmdPc
      BY <1>3 DEF Waits, CmdPc
    <3>2. QED
      BY <3>1, WaitsIs, ResultsAre
  <2>2. QED
    BY <1>1, <2>1, MovesOn
<1>4. QED
  BY <1>2, <1>3, ResultsAre DEF Resume

\* A usable client is today's.
LEMMA SendTells ==
  ASSUME Service, Service', CommandsTyped, CommandInv, NoneAges, NEW c \in Commands, Send(c)
  PROVE  CommandsTyped' /\ CommandInv'
<1>1. rcon.client \in Attempts \cup {None}
  BY DEF Service, ServiceTyped, RconType
<1>2. ASSUME NEW live \in BOOLEAN, NEW to, NEW claim,
             to = (IF live THEN "flight" ELSE "recover"), claim = (IF live THEN "yes" ELSE "no"),
             live => rcon.client # None,
             cmd' = [cmd EXCEPT ![c].pc = to, ![c].via = rcon.client, ![c].sent = live, ![c].claim = claim]
      PROVE  CommandsTyped' /\ CommandInv'
  <2>1. to \in CmdPc /\ claim \in Claims
    BY <1>2 DEF CmdPc, Claims
  <2>2. /\ cmd' \in [Commands -> CmdType]
        /\ \A d \in Commands \ {c} : cmd'[d] = cmd[d]
        /\ cmd'[c].pc = to /\ cmd'[c].sent = live
        /\ cmd'[c].via = rcon.client /\ cmd'[c].claim = claim
    <3>1. Sends(c, to, rcon.client, live, claim)
      BY <1>2 DEF Sends
    <3>2. QED
      BY <1>1, <2>1, <3>1, SendIs
  <2>3. rcon.client # None => ~attempt[rcon.client].old
    BY DEF Service, ClientInv
  <2>4. QED
    <3>1. /\ cmd'[c].pc \in {"flight", "retry"} =>
               /\ cmd'[c].via # None
               /\ ~cmd'[c].changed => ~attempt[cmd'[c].via].old
          /\ cmd'[c].sent => cmd'[c].via # None
          /\ cmd'[c].pc \in {"idle", "connect"} => ~cmd'[c].sent
          /\ cmd'[c].claim = "no" => ~cmd'[c].sent
          /\ cmd'[c].pc \notin {"mend", "rejoin", "reconnect", "resend", "retry"}
      BY <1>2, <2>2, <2>3
    <3>2. QED
      BY <2>2, <3>1, OneCommand
<1> DEFINE alive == rcon.client # None /\ Usable(rcon.client)
<1>3. /\ alive \in BOOLEAN /\ (alive => rcon.client # None)
      /\ cmd' = [cmd EXCEPT ![c].pc = IF alive THEN "flight" ELSE "recover",
                            ![c].via = rcon.client, ![c].sent = alive,
                            ![c].claim = IF alive THEN "yes" ELSE "no"]
  BY DEF Send
<1> HIDE DEF alive
<1>4. QED
  BY <1>2, <1>3

LEMMA ReplyTells ==
  ASSUME Service, Service', CommandsTyped, CommandInv, NoneAges, NEW c \in Commands, Reply(c)
  PROVE  CommandsTyped' /\ CommandInv'
BY ReturnKeeps, ResultsAre DEF Reply

LEMMA FailTells ==
  ASSUME Service, Service', CommandsTyped, CommandInv, NoneAges, NEW c \in Commands, Fail(c)
  PROVE  CommandsTyped' /\ CommandInv'
<1>1. CASE \E result \in Results, claim \in Claims \ {"no"} : Return(c, result, claim)
  BY <1>1, ReturnKeeps
<1>2. CASE cmd' = [cmd EXCEPT ![c].pc = "recover"]
  <2>1. /\ cmd' \in [Commands -> CmdType]
        /\ \A d \in Commands \ {c} : cmd'[d] = cmd[d]
        /\ cmd'[c].pc = "recover" /\ cmd'[c].sent = cmd[c].sent
        /\ cmd'[c].via = cmd[c].via /\ cmd'[c].claim = cmd[c].claim
    BY <1>2 DEF CommandsTyped, CmdType, CmdPc
  <2>2. QED
    BY <2>1, MovesOn
<1>3. QED
  BY <1>1, <1>2, ResultsAre DEF Fail

LEMMA ChosenIs ==
  ASSUME CommandInv, NEW c \in Commands
  PROVE  Chosen(c) \in Claims /\ (Chosen(c) = "no" => ~cmd[c].sent)
BY DEF Chosen, Claims, CommandInv, Honest

LEMMA RecoverTells ==
  ASSUME Service, Service', CommandsTyped, CommandInv, NoneAges, NEW c \in Commands, Recover(c)
  PROVE  CommandsTyped' /\ CommandInv'
<1>1. /\ cmd[c].claim \in Claims
      /\ c \notin Retried => (cmd[c].claim = "no" => ~cmd[c].sent)
  BY DEF CommandsTyped, CmdType, CommandInv, Honest
<1>2. CASE Return(c, "changed", Chosen(c))
  BY <1>2, ChosenIs, ReturnKeeps, ResultsAre
<1>3. CASE Return(c, "starting", "")
  BY <1>3, ReturnKeeps, ResultsAre
<1>4. CASE Return(c, "failed", cmd[c].claim)
  BY <1>1, <1>4, ReturnKeeps, ResultsAre
<1>5. CASE c \in Retried /\ cmd' = [cmd EXCEPT ![c].pc = "mend"]
  <2>1. /\ cmd' \in [Commands -> CmdType]
        /\ \A d \in Commands \ {c} : cmd'[d] = cmd[d]
        /\ cmd'[c].pc = "mend" /\ cmd'[c].sent = cmd[c].sent
        /\ cmd'[c].via = cmd[c].via /\ cmd'[c].claim = cmd[c].claim
    BY <1>5 DEF CommandsTyped, CmdType, CmdPc
  <2>2. QED
    BY <1>5, <2>1, MovesOn
<1>6. QED
  BY <1>2, <1>3, <1>4, <1>5 DEF Recover

\* Waiting for a connection, or going to send again: only a retried command.
LEMMA GoesTo ==
  ASSUME Service, Service', CommandsTyped, CommandInv, NoneAges, NEW c \in Commands,
         NEW to \in {"rejoin", "reconnect", "resend"}, NEW w \in Attempts \cup Loops \cup {None},
         cmd[c].pc \in {"mend", "rejoin", "reconnect"},
         cmd' = [cmd EXCEPT ![c].pc = to, ![c].on = w]
  PROVE  CommandsTyped' /\ CommandInv'
<1>1. c \in Retried
  BY DEF CommandInv, Honest
<1>2. /\ cmd' \in [Commands -> CmdType]
      /\ \A d \in Commands \ {c} : cmd'[d] = cmd[d]
      /\ cmd'[c].pc = to /\ cmd'[c].sent = cmd[c].sent
      /\ cmd'[c].via = cmd[c].via /\ cmd'[c].claim = cmd[c].claim
  <2>1. to \in CmdPc
    BY DEF CmdPc
  <2>2. cmd[c].claim \in Claims
    BY DEF CommandsTyped, CmdType
  <2>3. PICK claim \in Claims : claim = cmd[c].claim
    BY <2>2
  <2>4. Waits(c, to, w, claim)
    BY <2>3 DEF Waits
  <2>5. QED
    BY <2>1, <2>3, <2>4, WaitsIs
<1>3. QED
  BY <1>1, <1>2, MovesOn

LEMMA MendTells ==
  ASSUME Service, Service', CommandsTyped, CommandInv, NoneAges, NEW c \in Commands, Mend(c)
  PROVE  CommandsTyped' /\ CommandInv'
<1>1. /\ rcon.reconnecting \in Loops \cup {None}
      /\ rcon.connecting \in Attempts \cup {None}
  BY DEF Service, ServiceTyped, RconType
<1>2. cmd[c].pc = "mend" /\ c \in Retried
  BY DEF Mend, CommandInv, Honest
<1>3. CASE cmd' = [cmd EXCEPT ![c].pc = "resend"]
  <2>1. /\ cmd' \in [Commands -> CmdType]
        /\ \A d \in Commands \ {c} : cmd'[d] = cmd[d]
        /\ cmd'[c].pc = "resend" /\ cmd'[c].sent = cmd[c].sent
        /\ cmd'[c].via = cmd[c].via /\ cmd'[c].claim = cmd[c].claim
    BY <1>3 DEF CommandsTyped, CmdType, CmdPc
  <2>2. QED
    BY <1>2, <2>1, MovesOn
<1>4. CASE cmd' = [cmd EXCEPT ![c].pc = "reconnect", ![c].on = rcon.reconnecting]
  BY <1>1, <1>2, <1>4, GoesTo
<1>5. CASE cmd' = [cmd EXCEPT ![c].pc = "rejoin", ![c].on = rcon.connecting]
  BY <1>1, <1>2, <1>5, GoesTo
<1>6. CASE \E l \in Loops : cmd' = [cmd EXCEPT ![c].pc = "reconnect", ![c].on = l]
  BY <1>2, <1>6, GoesTo
<1>7. QED
  BY <1>3, <1>4, <1>5, <1>6 DEF Mend

LEMMA RejoinTells ==
  ASSUME Service, Service', CommandsTyped, CommandInv, NoneAges, NEW c \in Commands, Rejoin(c)
  PROVE  CommandsTyped' /\ CommandInv'
<1>1. cmd[c].pc = "rejoin"
  BY DEF Rejoin
<1>2. CASE cmd' = [cmd EXCEPT ![c].pc = "resend", ![c].on = None]
  BY <1>1, <1>2, GoesTo
<1>3. CASE \E l \in Loops : cmd' = [cmd EXCEPT ![c].pc = "reconnect", ![c].on = l]
  BY <1>1, <1>3, GoesTo
<1>4. QED
  BY <1>2, <1>3 DEF Rejoin

LEMMA ReconnectedTells ==
  ASSUME Service, Service', CommandsTyped, CommandInv, NoneAges, NEW c \in Commands, Reconnected(c)
  PROVE  CommandsTyped' /\ CommandInv'
BY GoesTo DEF Reconnected

LEMMA ResendTells ==
  ASSUME Service, Service', CommandsTyped, CommandInv, NoneAges, NEW c \in Commands, Resend(c)
  PROVE  CommandsTyped' /\ CommandInv'
<1>1. c \in Retried
  BY DEF Resend, CommandInv, Honest
<1>2. CASE \E result \in Results, claim \in Claims : Return(c, result, claim)
  BY <1>1, <1>2, ReturnKeeps
<1>3. CASE /\ rcon.client # None
           /\ cmd' = [cmd EXCEPT ![c].pc = "retry", ![c].via = rcon.client, ![c].sent = TRUE]
  <2>1. rcon.client \in Attempts
    BY <1>3 DEF Service, ServiceTyped, RconType
  <2>2. /\ cmd' \in [Commands -> CmdType]
        /\ \A d \in Commands \ {c} : cmd'[d] = cmd[d]
        /\ cmd'[c].pc = "retry" /\ cmd'[c].via = rcon.client
    BY <1>3, <2>1, ResendIs
  <2>3. ~attempt[rcon.client].old
    BY <1>3 DEF Service, ClientInv
  <2>4. QED
    BY <1>1, <1>3, <2>2, <2>3, OneCommand
<1>4. QED
  BY <1>2, <1>3, ResultsAre, ChosenIs DEF Resend

LEMMA RetryFailsTells ==
  ASSUME Service, Service', CommandsTyped, CommandInv, NoneAges, NEW c \in Commands, RetryFails(c)
  PROVE  CommandsTyped' /\ CommandInv'
BY ReturnKeeps, ResultsAre DEF RetryFails

LEMMA ReturnedTells ==
  ASSUME Service, Service', CommandsTyped, CommandInv, NoneAges, NEW c \in Commands, Returned(c)
  PROVE  CommandsTyped' /\ CommandInv'
<1>1. cmd' = [cmd EXCEPT ![c] = [NotCalled EXCEPT !.pc = "done"]]
  BY DEF Returned
<1>2. /\ [NotCalled EXCEPT !.pc = "done"] \in CmdType
      /\ [NotCalled EXCEPT !.pc = "done"].pc = "done"
      /\ ~[NotCalled EXCEPT !.pc = "done"].sent
  BY DEF NotCalled, CmdType, CmdPc, Results, Claims
<1>3. /\ cmd' \in [Commands -> CmdType]
      /\ \A d \in Commands \ {c} : cmd'[d] = cmd[d]
      /\ cmd'[c].pc = "done" /\ ~cmd'[c].sent
  BY <1>1, <1>2 DEF CommandsTyped
<1>4. QED
  BY <1>3, OneCommand

\* The new target: every command under way comes to know of it.
LEMMA RetargetTells ==
  ASSUME CommandsTyped, CommandInv, Retarget
  PROVE  CommandsTyped' /\ CommandInv'
<1>1. cmd' = [c \in Commands |-> [cmd[c] EXCEPT !.changed = cmd[c].pc \notin {"idle", "done"}]]
  BY DEF Retarget
<1>2. ASSUME NEW c \in Commands
      PROVE  /\ cmd'[c] \in CmdType
             /\ cmd'[c].pc = cmd[c].pc /\ cmd'[c].via = cmd[c].via
             /\ cmd'[c].sent = cmd[c].sent /\ cmd'[c].claim = cmd[c].claim
             /\ cmd'[c].pc \notin {"idle", "done"} => cmd'[c].changed
  <2>1. cmd[c] \in CmdType
    BY DEF CommandsTyped
  <2>2. CASE cmd[c].pc \in {"idle", "done"}
    BY <1>1, <2>1, <2>2 DEF CmdType
  <2>3. CASE cmd[c].pc \notin {"idle", "done"}
    BY <1>1, <2>1, <2>3 DEF CmdType
  <2>4. QED
    BY <2>2, <2>3
<1>3. ASSUME NEW c \in Commands
      PROVE  Honest(c)'
  BY <1>2, <1>3 DEF Honest, CommandInv
<1>4. cmd' \in [Commands -> CmdType]
  BY <1>1, <1>2
<1>5. QED
  BY <1>3, <1>4 DEF CommandInv, CommandsTyped

-----------------------------------------------------------------------------
(* The types of the loops and of the rest.                                 *)

LEMMA StaleLoopsTyped ==
  ASSUME LoopsTyped
  PROVE  StaleLoops \in [Loops -> LoopType]
<1>1. ASSUME NEW l \in Loops
      PROVE  [loop[l] EXCEPT !.stale = @ \/ loop[l].pc \in {"sleep", "connect"}] \in LoopType
  <2>0. loop[l] \in LoopType
    BY DEF LoopsTyped
  <2>1. CASE loop[l].stale \/ loop[l].pc \in {"sleep", "connect"}
    BY <2>0, <2>1 DEF LoopType
  <2>2. CASE ~(loop[l].stale \/ loop[l].pc \in {"sleep", "connect"})
    BY <2>0, <2>2 DEF LoopType
  <2>3. QED
    BY <2>1, <2>2
<1>2. QED
  BY <1>1 DEF StaleLoops

LEMMA MovedLoop ==
  ASSUME LoopsTyped, NEW l \in Loops, NEW to \in {"unused", "sleep", "connect", "done"},
         NEW w \in Attempts \cup {None}, loop' = [loop EXCEPT ![l].pc = to, ![l].on = w]
  PROVE  LoopsTyped'
BY DEF LoopsTyped, LoopType

LEMMA EnteredLoop ==
  ASSUME LoopsTyped, NEW l \in Loops, EnterLoop(l)
  PROVE  LoopsTyped'
<1> DEFINE to == IF ~HasPending /\ rcon.tries < MaxTries THEN "sleep" ELSE "done"
<1>1. [NoLoop EXCEPT !.pc = to] \in LoopType
  BY DEF NoLoop, LoopType
<1>2. PICK old \in [Loops -> LoopType] : loop' = [old EXCEPT ![l] = [NoLoop EXCEPT !.pc = to]]
  BY StaleLoopsTyped DEF EnterLoop, LoopsTyped
<1>3. QED
  BY <1>1, <1>2 DEF LoopsTyped

LEMMA LoopsStep ==
  ASSUME LoopsTyped, Next
  PROVE  LoopsTyped'
<1>1. CASE loop' = loop
  BY <1>1 DEF LoopsTyped
<1>2. CASE loop' = StaleLoops
  BY <1>2, StaleLoopsTyped DEF LoopsTyped
<1>3. CASE \E l \in Loops : EnterLoop(l)
  BY <1>3, EnteredLoop
<1>4. ASSUME NEW l \in Loops, Wake(l)
      PROVE  LoopsTyped'
  BY <1>4, MovedLoop DEF Wake, EndLoop
<1>5. ASSUME NEW l \in Loops, LoopGoes(l)
      PROVE  LoopsTyped'
  BY <1>5, MovedLoop DEF LoopGoes, EndLoop
<1>6. ASSUME NEW c \in Commands, Call(c) \/ Answered(c)
      PROVE  loop' = loop
  BY <1>6 DEF Call, Answered, Reply, Fail, RetryFails
<1>7. ASSUME NEW c \in Commands, Continues(c)
      PROVE  loop' = loop \/ \E l \in Loops : EnterLoop(l)
  BY <1>7 DEF Continues, Resume, Send, Recover, Mend, Rejoin, Reconnected, Resend, Returned
<1>8. ASSUME NEW a \in Attempts, Connect(a) \/ Attempting(a) \/ Dropped(a)
      PROVE  loop' = loop
  BY <1>8 DEF Connect, Attempting, Scan, Probe, Auth, Dropped
<1>9. ASSUME HealthEnds
      PROVE  loop' = loop \/ loop' = StaleLoops
  BY <1>9 DEF HealthEnds, HealthAnswers, HealthFails, Unhealthy, Reset
<1>10. ASSUME ForceReset \/ Disconnect \/ Retarget \/ StartingChanges \/ HealthBegins
              \/ GameStops \/ GameListens
       PROVE  loop' = loop \/ loop' = StaleLoops
  BY <1>10 DEF ForceReset, Disconnect, Retarget, StartingChanges, HealthBegins, GameStops,
               GameListens, Reset
<1>11. QED
  BY <1>1, <1>2, <1>3, <1>4, <1>5, <1>6, <1>7, <1>8, <1>9, <1>10 DEF Next

LEMMA OthersStep ==
  ASSUME ServiceTyped, OthersTyped, Next
  PROVE  OthersTyped'
<1>1. rcon.client \in Attempts \cup {None} /\ MaxUpsets \in Nat
  BY RconAssumption DEF ServiceTyped, RconType
<1>2. CASE UNCHANGED <<check, game, upsets>>
  BY <1>2 DEF OthersTyped
<1>3. CASE UNCHANGED <<check, game>> /\ Upset
  BY <1>1, <1>3 DEF OthersTyped, Upset
<1>4. CASE UNCHANGED <<game, upsets>> /\ check' \in Attempts \cup {None}
  BY <1>4 DEF OthersTyped
<1>5. CASE UNCHANGED <<check, upsets>> /\ game' \in {"up", "down"}
  BY <1>5 DEF OthersTyped
<1>6. ASSUME NEW c \in Commands, Call(c) \/ Answered(c)
      PROVE  UNCHANGED <<check, game, upsets>>
  BY <1>6 DEF Call, Answered, Reply, Fail, RetryFails
<1>7. ASSUME NEW c \in Commands, Continues(c)
      PROVE  UNCHANGED <<check, game, upsets>>
  BY <1>7 DEF Continues, Resume, Send, Recover, Mend, Rejoin, Reconnected, Resend, Returned
<1>8. ASSUME NEW a \in Attempts, Connect(a) \/ Attempting(a)
      PROVE  UNCHANGED <<check, game, upsets>>
  BY <1>8 DEF Connect, Attempting, Scan, Probe, Auth
<1>9. ASSUME NEW a \in Attempts, Dropped(a)
      PROVE  UNCHANGED <<check, game>> /\ (upsets' = upsets \/ Upset)
  BY <1>9 DEF Dropped
<1>10. ASSUME NEW l \in Loops, Wake(l) \/ LoopGoes(l)
       PROVE  UNCHANGED <<check, game, upsets>>
  BY <1>10 DEF Wake, LoopGoes
<1>11. CASE ForceReset \/ Disconnect \/ Retarget
  BY <1>3, <1>11 DEF ForceReset, Disconnect, Retarget
<1>12. CASE HealthBegins
  <2>1. UNCHANGED <<game, upsets>> /\ check' \in Attempts \cup {None}
    BY <1>1, <1>12 DEF HealthBegins, OthersTyped
  <2>2. QED
    BY <1>4, <2>1
<1>13. CASE HealthEnds
  BY <1>4, <1>13 DEF HealthEnds
<1>14. CASE StartingChanges
  BY <1>2, <1>14 DEF StartingChanges
<1>15. CASE GameStops \/ GameListens
  BY <1>5, <1>15 DEF GameStops, GameListens
<1>16. QED
  BY <1>2, <1>3, <1>6, <1>7, <1>8, <1>9, <1>10, <1>11, <1>12, <1>13, <1>14, <1>15 DEF Next

-----------------------------------------------------------------------------
(* One step, all the parts.                                                *)

LEMMA ServiceStep ==
  ASSUME Service, Next, ~Retarget
  PROVE  Service' /\ NoneAges
<1>1. ASSUME NEW a \in Attempts, Connect(a)
      PROVE  Service' /\ NoneAges
  BY <1>1, BeginKeeps DEF Connect
<1>2. ASSUME NEW a \in Attempts, Attempting(a) \/ Dropped(a)
      PROVE  Service' /\ NoneAges
  BY <1>2, ScanKeeps, ProbeKeeps, AuthKeeps, DroppedKeeps DEF Attempting
<1>3. ASSUME NEW l \in Loops, Wake(l) \/ LoopGoes(l)
      PROVE  Service' /\ NoneAges
  BY <1>3, WakeKeeps, LoopGoesKeeps
<1>4. ASSUME NEW c \in Commands, Call(c) \/ Answered(c)
      PROVE  Service' /\ NoneAges
  <2>1. CASE Fail(c)
    BY <2>1, SameService DEF Fail
  <2>2. QED
    BY <1>4, <2>1, CallKeeps, ReplyKeeps, RetryFailsKeeps DEF Answered
<1>5. ASSUME NEW c \in Commands, Continues(c)
      PROVE  Service' /\ NoneAges
  <2>1. CASE Resume(c) \/ Send(c) \/ Reconnected(c)
    BY <2>1, SameService DEF Resume, Send, Reconnected
  <2>2. QED
    BY <1>5, <2>1, RecoverKeeps, MendKeeps, RejoinKeeps, ResendKeeps, ReturnedKeeps DEF Continues
<1>6. CASE ForceReset
  BY <1>6, ResetKeeps DEF ForceReset, Service, ServiceTyped
<1>7. CASE GameListens
  BY <1>7, SameService DEF GameListens
<1>8. QED
  BY <1>1, <1>2, <1>3, <1>4, <1>5, <1>6, <1>7, DisconnectKeeps, StartingKeeps, HealthBeginsKeeps,
     HealthEndsKeeps, GameStopsKeeps DEF Next

LEMMA CommandsStep ==
  ASSUME Service, Service', CommandsTyped, CommandInv, NoneAges, Next, ~Retarget
  PROVE  CommandsTyped' /\ CommandInv'
<1>1. CASE cmd' = cmd
  BY <1>1, SameCommands
<1>2. ASSUME NEW c \in Commands, Call(c) \/ Answered(c)
      PROVE  CommandsTyped' /\ CommandInv'
  BY <1>2, CallTells, ReplyTells, FailTells, RetryFailsTells DEF Answered
<1>3. ASSUME NEW c \in Commands, Continues(c)
      PROVE  CommandsTyped' /\ CommandInv'
  BY <1>3, ResumeTells, SendTells, RecoverTells, MendTells, RejoinTells, ReconnectedTells,
     ResendTells, ReturnedTells DEF Continues
<1>4. ASSUME NEW a \in Attempts, Connect(a) \/ Attempting(a) \/ Dropped(a)
      PROVE  cmd' = cmd
  BY <1>4 DEF Connect, Attempting, Scan, Probe, Auth, Dropped
<1>5. ASSUME NEW l \in Loops, Wake(l) \/ LoopGoes(l)
      PROVE  cmd' = cmd
  BY <1>5 DEF Wake, LoopGoes
<1>6. ASSUME ForceReset \/ Disconnect \/ StartingChanges \/ HealthBegins \/ HealthEnds
             \/ GameStops \/ GameListens
      PROVE  cmd' = cmd
  BY <1>6 DEF ForceReset, Disconnect, StartingChanges, HealthBegins, HealthEnds, GameStops, GameListens
<1>7. QED
  BY <1>1, <1>2, <1>3, <1>4, <1>5, <1>6 DEF Next

LEMMA InvInit == Init => IInv
<1> SUFFICES ASSUME Init PROVE IInv
  OBVIOUS
<1>1. 0 \in 0..MaxTries /\ 0 \in 0..MaxUpsets /\ 0 \in Nat
  BY RconAssumption
<1>2. Unused \in AttemptType /\ Unused.pc = "unused"
  BY DEF Unused, AttemptType
<1>3. NoLoop \in LoopType
  BY DEF NoLoop, LoopType
<1>4. /\ NotCalled \in CmdType /\ NotCalled.pc = "idle"
      /\ NotCalled.sent = FALSE /\ NotCalled.claim = ""
  BY DEF NotCalled, CmdType, CmdPc, Results, Claims
<1>5. /\ rcon \in RconType /\ rcon.client = None /\ rcon.connected = FALSE
  BY <1>1 DEF Init, RconType, Configs
<1>6. ServiceTyped /\ LoopsTyped /\ CommandsTyped /\ OthersTyped
  BY <1>1, <1>2, <1>3, <1>4, <1>5
     DEF Init, ServiceTyped, LoopsTyped, CommandsTyped, OthersTyped, SocketType
<1>7. ClientInv /\ OldIsStale
  BY <1>2, <1>5 DEF Init, ClientInv, ConnectedMeansAuthenticated, NoLeakedConnection, OldIsStale, Running
<1>8. CommandInv
  BY <1>4 DEF Init, CommandInv, Honest
<1>9. QED
  BY <1>6, <1>7, <1>8, TypeParts DEF IInv

LEMMA InvStep == IInv /\ [Next]_vars => IInv'
<1> SUFFICES ASSUME IInv, [Next]_vars PROVE IInv'
  OBVIOUS
<1>1. Service /\ LoopsTyped /\ CommandsTyped /\ OthersTyped /\ CommandInv
  BY TypeParts DEF IInv, Service
<1>2. ASSUME Service', LoopsTyped', CommandsTyped', OthersTyped', CommandInv'
      PROVE  IInv'
  BY <1>2, TypeParts DEF IInv, Service
<1>3. CASE Next /\ ~Retarget
  BY <1>1, <1>2, <1>3, ServiceStep, LoopsStep, CommandsStep, OthersStep DEF Service
<1>4. CASE Next /\ Retarget
  BY <1>1, <1>2, <1>4, RetargetKeeps, RetargetTells, LoopsStep, OthersStep DEF Service
<1>5. CASE UNCHANGED vars
  <2>1. UNCHANGED <<rcon, attempt, socket>> /\ UNCHANGED <<loop, cmd, check, game, upsets>>
    BY <1>5 DEF vars
  <2>2. Service' /\ NoneAges
    BY <1>1, <2>1, SameService
  <2>3. QED
    BY <1>1, <1>2, <2>1, <2>2, SameCommands DEF LoopsTyped, OthersTyped
<1>6. QED
  BY <1>3, <1>4, <1>5

\* The inductive invariant holds in every state the service reaches.
THEOREM Invariance == Spec => []IInv
BY InvInit, InvStep, PTL DEF Spec

-----------------------------------------------------------------------------
\* Fields, attempts, sockets, loops and commands keep their types; the counter
\* of reconnect attempts never passes maxReconnectAttempts.
THEOREM TypeCorrect == Spec => []TypeOK
<1>1. IInv => TypeOK
  BY DEF IInv
<1>2. QED
  BY <1>1, Invariance, PTL

\* `connected' is only ever true of a client that has authenticated and that the
\* service did not close, whichever of the handlers of rcon.ts interleave.
THEOREM ConnectedIsTrue == Spec => []ConnectedMeansAuthenticated
<1>1. IInv => ConnectedMeansAuthenticated
  BY DEF IInv, ClientInv
<1>2. QED
  BY <1>1, Invariance, PTL

\* No handler of rcon.ts forgets a client without closing its socket: a game
\* server never holds a connection the panel no longer knows of.
THEOREM NothingLeaks == Spec => []NoLeakedConnection
<1>1. IInv => NoLeakedConnection
  BY DEF IInv, ClientInv
<1>2. QED
  BY <1>1, Invariance, PTL

\* After reloadConfig or updateConfig no client and no command unaware of the
\* change belongs to the old target, however late its attempt comes back.
THEOREM TargetIsRight == Spec => []RightTarget
<1>1. IInv => RightTarget
  BY DEF IInv, ClientInv, CommandInv, Honest, RightTarget, Changed
<1>2. QED
  BY <1>1, Invariance, PTL

\* When execute() or quit() says that a command which is not retried was not
\* sent, no byte of it went to any server.
THEOREM UnsentIsTrue == Spec => []UnsentWasNotSent
<1>1. IInv => UnsentWasNotSent
  BY DEF IInv, CommandInv, Honest, UnsentWasNotSent
<1>2. QED
  BY <1>1, Invariance, PTL
=============================================================================
