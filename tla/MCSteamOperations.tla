-------------------------- MODULE MCSteamOperations --------------------------
(***************************************************************************)
(* Two servers with one install between them; two updates (of either       *)
(* server), a start or a deletion, and one more call of any kind.          *)
(***************************************************************************)
EXTENDS SteamOperations, TLC

CONSTANTS alpha, beta, install, h1, h2, h3, h4

MCServers == {alpha, beta}
MCInstalls == {install}
MCInstallOf == [s \in MCServers |-> install]
MCHandles == {h1, h2, h3, h4}
MCMenu == [h \in MCHandles |-> CASE h \in {h1, h2} -> {"update"}
                                 [] h = h3 -> {"start", "delete"}
                                 [] h = h4 -> Kinds]
Calls == Permutations({h1, h2}) \cup Permutations(MCServers)
=============================================================================
