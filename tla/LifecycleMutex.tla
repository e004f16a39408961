--------------------------- MODULE LifecycleMutex ---------------------------
(***************************************************************************)
(* What the lifecycle lock of services/lifecycleCoordinator.ts promises    *)
(* its callers: an operation comes to own a game server only when no other *)
(* one owns it, and owns it until it gives it back itself.                 *)
(* LifecycleLock (the map of tokens) and ServerLifecycle (the operations   *)
(* that use it) are both shown to implement this specification.            *)
(***************************************************************************)
CONSTANTS Servers,   \* game server ids
          Owners     \* who may own one

VARIABLE inside      \* inside[s]: who acts as the owner of server s

Init == inside = [s \in Servers |-> {}]

Take(s, o) ==
  /\ inside[s] = {}
  /\ inside' = [inside EXCEPT ![s] = {o}]

Give(s, o) ==
  /\ inside[s] = {o}
  /\ inside' = [inside EXCEPT ![s] = {}]

Next == \E s \in Servers, o \in Owners : Take(s, o) \/ Give(s, o)

Spec == Init /\ [][Next]_inside
=============================================================================
