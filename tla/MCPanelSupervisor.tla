-------------------------- MODULE MCPanelSupervisor --------------------------
(***************************************************************************)
(* The panel binary, a unit file that only the new version brings, the     *)
(* database, and a secret that did not exist before the update.            *)
(***************************************************************************)
EXTENDS PanelSupervisor

CONSTANTS binary, unit, sqlite, secret

MCFiles == {binary, unit}
MCInstalled == {binary}
MCDataNames == {sqlite, secret}
MCKept == {sqlite}
=============================================================================
