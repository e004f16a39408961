---------------------------- MODULE LifecycleLock ----------------------------
(***************************************************************************)
(* services/lifecycleCoordinator.ts: one in-memory map from a server id to *)
(* the token of the operation that holds that server's lifecycle lock.     *)
(* acquireLifecycleLock answers null when the id has an entry, and         *)
(* otherwise stores a fresh token and hands out a handle.  A handle's      *)
(* release may be called any number of times, at any time: a restart gives *)
(* its handle both to the maintenance run and to its own `finally'         *)
(* (serverLifecycleActions.ts:472), so every second release is real.       *)
(***************************************************************************)
CONSTANTS Servers,   \* server ids, the keys of the map
          Handles,   \* one per successful acquireLifecycleLock call
          NoToken    \* Map.has(serverId) is false

ASSUME NoTokenAssumption == NoToken \notin Handles \cup Servers

VARIABLES locks,     \* the map; a handle stands for its token (same identity)
          handle     \* what each handle closed over: its server and `released'

vars == <<locks, handle>>

Fresh == [server |-> NoToken, released |-> FALSE]
Given(h) == handle[h].server # NoToken
Live(h) == Given(h) /\ ~handle[h].released

TypeOK ==
  /\ locks \in [Servers -> Handles \cup {NoToken}]
  /\ handle \in [Handles -> [server: Servers \cup {NoToken}, released: BOOLEAN]]

Init ==
  /\ locks = [s \in Servers |-> NoToken]
  /\ handle = [h \in Handles |-> Fresh]

\* acquireLifecycleLock: refused (null, no change) when the server is locked.
Acquire(h, s) ==
  /\ ~Given(h)
  /\ locks[s] = NoToken
  /\ locks' = [locks EXCEPT ![s] = h]
  /\ handle' = [handle EXCEPT ![h] = [server |-> s, released |-> FALSE]]

\* Mutant of Release: neither the flag nor the token is compared.
ReleaseUnchecked(h) ==
  /\ Given(h)
  /\ handle' = [handle EXCEPT ![h].released = TRUE]
  /\ locks' = [locks EXCEPT ![handle[h].server] = NoToken]

\* release(): only the first call has an effect, and it removes the entry
\* only if the entry is still this handle's token.
Release(h) ==
  /\ Live(h)
  /\ handle' = [handle EXCEPT ![h].released = TRUE]
  /\ locks' = IF locks[handle[h].server] = h
                THEN [locks EXCEPT ![handle[h].server] = NoToken]
                ELSE locks

\* A later call on the same handle returns at once.
ReleaseAgain(h) ==
  /\ Given(h)
  /\ handle[h].released
  /\ UNCHANGED vars

Next ==
  \/ \E h \in Handles, s \in Servers : Acquire(h, s)
  \/ \E h \in Handles : Release(h) \/ ReleaseAgain(h)

Spec == Init /\ [][Next]_vars

-----------------------------------------------------------------------------
(***************************************************************************)
(* The map and the handles agree: a handle is live exactly while its token *)
(* is the map's entry for its server.  It is the inductive invariant       *)
(* behind everything below.                                                *)
(***************************************************************************)
Agreement ==
  /\ \A h \in Handles : Live(h) => /\ handle[h].server \in Servers
                                   /\ locks[handle[h].server] = h
  /\ \A s \in Servers : locks[s] # NoToken =>
                          Live(locks[s]) /\ handle[locks[s]].server = s

\* Two operations never both hold an unreleased handle for one server
\* (lifecycleCoordinator.ts:23: the second acquire answers null).
OneLiveHandlePerServer ==
  \A g, h \in Handles :
    Live(g) /\ Live(h) /\ handle[g].server = handle[h].server => g = h

\* A release, even a repeated one of an old handle, never takes the lock
\* away from an operation that acquired it later (lifecycleCoordinator.ts:39-41).
NobodyElseFreesTheLock ==
  [][\A h \in Handles : Live(h) /\ locks'[handle[h].server] # h
                           => ~Live(h)']_vars

Owning(s) == {h \in Handles : Live(h) /\ handle[h].server = s}

Mutex == INSTANCE LifecycleMutex WITH
  Owners <- Handles, inside <- [s \in Servers |-> Owning(s)]

\* The token map implements the abstract lock: a handle is handed out only
\* when none is live, and is live until its own release.
ImplementsMutex == Mutex!Spec
=============================================================================
