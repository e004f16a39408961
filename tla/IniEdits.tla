------------------------------- MODULE IniEdits -------------------------------
(***************************************************************************)
(* What each settings request makes of a server's ini file: the routes of  *)
(* mods.ts and serverFiles.ts, and the helpers that set single keys.       *)
(*                                                                         *)
(* An ini is its WorkshopItems, Mods and Map lines and one secret value    *)
(* (the RCON password); the lines are present, and their order and         *)
(* repetitions are left out (so /deduplicate-mod-ids is, too).  `d' is the *)
(* set of items whose folder is on the disk when the handler looks.        *)
(***************************************************************************)
CONSTANTS Items, ModIds, Folders, Secrets,
          ModsOf, MapsOf,     \* what the folder of an item provides
          FirstMod,           \* its first mod, in the order they are found
          Numeric,            \* mod ids that look like a Workshop id
          Base,               \* the folder of the base map
          Towns,              \* entries with the name of a town of the game's own
          Masked, Missing     \* a secret the client has not seen; no such line

ASSUME ItemsAssumption ==
  /\ ModsOf \in [Items -> SUBSET ModIds]
  /\ MapsOf \in [Items -> SUBSET Folders]
  /\ \A w \in Items : ModsOf[w] # {} => FirstMod[w] \in ModsOf[w]
  /\ Numeric \subseteq ModIds
  /\ Base \in Towns /\ Towns \subseteq Folders
  /\ {Masked, Missing} \cap Secrets = {}

Text == [items: SUBSET Items, mods: SUBSET ModIds, maps: SUBSET Folders, secret: Secrets]

Kinds == {"write", "toggle", "add", "dep", "deps", "advanced", "enable", "sync", "order",
          "remove", "batchRemove", "delete", "batchDelete", "orphans", "repair",
          "form", "keys", "raw", "restore"}

\* What a request carries, and after `Prepared' also what was found for it.
\* `bare' are the items for which the client leaves the mod ids to the panel.
Request == [kind: Kinds, items: SUBSET Items, bare: SUBSET Items, mods: SUBSET ModIds,
            off: SUBSET ModIds, maps: SUBSET Folders,
            secret: Secrets \cup {Masked, Missing},
            lines: SUBSET {"items", "mods", "maps", "secret"}]

\* findAllModIdsFromWorkshop, findMapFoldersFromWorkshop, for a set of items
Provided(W, d) == UNION {ModsOf[w] : w \in W \cap d}
MapsIn(W, d) == UNION {MapsOf[w] : w \in W \cap d}

\* sanitizeModIdList
Named(M) == M \ Numeric

\* sanitizeModIdListWithDiskBypass
Verified(M, W, d) == Named(M) \cup (M \cap Provided(W, d))

OrBase(F) == IF F = {} THEN {Base} ELSE F

-----------------------------------------------------------------------------
(* What is found before the lock is taken.                                 *)

\* findModIdFromWorkshop, for each of a set of items.  (An answer of Steam is
\* as if the client had given it.)
Firsts(W, d) == {FirstMod[w] : w \in {v \in W \cap d : ModsOf[v] # {}}}
Detected(r, d) == r.mods \cup Firsts(r.bare, d)

\* An item nobody can enable: ignored, not on the disk, or without mods.
Useless(w, d, ignored) == w \in ignored \/ w \notin d \/ ModsOf[w] = {}

Prepared(r, d, ignored) ==
  CASE r.kind = "write" ->
         [r EXCEPT !.mods = Detected(r, d),
                   !.maps = IF @ = {} THEN MapsIn(r.items, d) ELSE @]
    [] r.kind \in {"add", "dep", "deps"} ->
         [r EXCEPT !.mods = Detected(r, d), !.maps = MapsIn(r.items, d)]
    [] r.kind = "advanced" ->
         [r EXCEPT !.mods = @ \cup Provided(r.bare, d), !.maps = MapsIn(r.items, d)]
    [] r.kind = "enable" -> [r EXCEPT !.mods = Provided(r.items, d)]
    [] r.kind = "delete" ->
         [r EXCEPT !.off = Provided(r.items, d), !.maps = MapsIn(r.items, d)]
    [] r.kind = "batchDelete" -> [r EXCEPT !.off = Provided(r.items, d)]
    [] r.kind = "orphans" ->
         LET drop == {w \in r.items : Useless(w, d, ignored)} IN
         [r EXCEPT !.mods = Provided(r.items \ drop, d), !.items = drop]
    [] OTHER -> r

-----------------------------------------------------------------------------
(* The edits, each on the text its caller reads under the lock.            *)

\* /write-to-ini: the client's lists replace what is there.
WriteToIni(r, ini) ==
  [ini EXCEPT !.items = r.items, !.mods = Named(r.mods),
              !.maps = IF r.maps = {} THEN @ ELSE r.maps \cup {Base}]

\* /toggle-mod-id and /batch-toggle-mod-ids
ToggleMods(r, ini, d) ==
  [ini EXCEPT !.mods = Verified((@ \ r.off) \cup r.mods, ini.items, d)]

\* /add-to-ini: the Mods line is left alone when no mod id was found.
AddToIni(r, ini) ==
  [ini EXCEPT !.items = @ \cup r.items, !.maps = @ \cup r.maps,
              !.mods = IF r.mods = {} THEN @ ELSE Named(@ \cup r.mods)]

\* /add-missing-dep: it is left alone also when the id is there.
AddMissingDep(r, ini) ==
  [ini EXCEPT !.items = @ \cup r.items, !.maps = @ \cup r.maps,
              !.mods = IF r.mods \subseteq @ THEN @ ELSE Named(@ \cup r.mods)]

\* /add-all-resolved-deps and /add-mod-advanced
AddAll(r, ini) ==
  [ini EXCEPT !.items = @ \cup r.items, !.maps = @ \cup r.maps,
              !.mods = Named(@ \cup r.mods)]

\* /enable-disk-mod: only what was there before is cleaned.
EnableDiskMod(r, ini) ==
  [ini EXCEPT !.items = @ \cup r.items, !.mods = Named(@) \cup r.mods]

\* /sync-mod-ids, for the items and answers of before the lock
SyncModIds(r, ini) ==
  LET lacking == {w \in r.items : ModsOf[w] \cap ini.mods = {}} IN
  [ini EXCEPT !.mods = Named(@ \cup r.mods \cup {FirstMod[w] : w \in lacking})]

\* /save-order: the whole line, unchecked
SaveOrder(r, ini) == [ini EXCEPT !.mods = r.mods]

\* /remove-from-ini: the client's mod ids count only if the item provides them,
\* and then they are removed anyway.
RemoveFromIni(r, ini, d) ==
  [ini EXCEPT !.items = @ \ r.items, !.mods = Named(@ \ Provided(r.items, d)),
              !.maps = IF MapsIn(r.items, d) = {} THEN @
                       ELSE OrBase(@ \ MapsIn(r.items, d))]

\* /batch-remove
BatchRemove(r, ini, d) ==
  [ini EXCEPT !.items = @ \ r.items, !.mods = Named(@ \ Provided(r.items, d)),
              !.maps = OrBase(@ \ MapsIn(r.items, d))]

\* deleteModFromDiskAndIni, and /batch-delete-disk-mods, which has no maps
StripDeleted(r, ini) ==
  [ini EXCEPT !.items = @ \ r.items,
              !.mods = IF r.off = {} THEN @ ELSE Named(@ \ r.off),
              !.maps = IF r.maps = {} THEN @ ELSE OrBase(@ \ r.maps)]

\* /resolve-orphan-workshop
ResolveOrphans(r, ini) ==
  [ini EXCEPT !.items = @ \ r.items,
              !.mods = IF r.mods = {} THEN @ ELSE Named(@) \cup r.mods]

\* /repair-map-entries: the game's own towns are left.
RepairMaps(ini, d) ==
  [ini EXCEPT !.maps = (@ \cap Towns) \cup MapsIn(ini.items, d) \cup {Base}]

\* toIni, setIniKeyLine and the loop of saveServerConfig: the given keys are
\* set.  The form of PUT /ini has left out a masked secret.
SetKeys(r, ini) ==
  [items  |-> IF "items" \in r.lines THEN r.items ELSE ini.items,
   mods   |-> IF "mods" \in r.lines THEN r.mods ELSE ini.mods,
   maps   |-> IF "maps" \in r.lines THEN r.maps ELSE ini.maps,
   secret |-> IF "secret" \in r.lines /\ r.secret \in Secrets THEN r.secret ELSE ini.secret]

\* PUT /raw (with reconcileMaskedIniLines) and /restore: the whole content.
Replace(r, ini) ==
  [items |-> r.items, mods |-> r.mods, maps |-> r.maps,
   secret |-> IF r.secret \in Secrets THEN r.secret ELSE ini.secret]

Edited(r, ini, d) ==
  CASE r.kind = "write" -> WriteToIni(r, ini)
    [] r.kind = "toggle" -> ToggleMods(r, ini, d)
    [] r.kind = "add" -> AddToIni(r, ini)
    [] r.kind = "dep" -> AddMissingDep(r, ini)
    [] r.kind \in {"deps", "advanced"} -> AddAll(r, ini)
    [] r.kind = "enable" -> EnableDiskMod(r, ini)
    [] r.kind = "sync" -> SyncModIds(r, ini)
    [] r.kind = "order" -> SaveOrder(r, ini)
    [] r.kind = "remove" -> RemoveFromIni(r, ini, d)
    [] r.kind = "batchRemove" -> BatchRemove(r, ini, d)
    [] r.kind \in {"delete", "batchDelete"} -> StripDeleted(r, ini)
    [] r.kind = "orphans" -> ResolveOrphans(r, ini)
    [] r.kind = "repair" -> RepairMaps(ini, d)
    [] r.kind \in {"form", "keys"} -> SetKeys(r, ini)
    [] r.kind \in {"raw", "restore"} -> Replace(r, ini)

\* The early returns under the lock: nothing to do, or refused.
Writes(r, ini, d) ==
  /\ r.kind = "toggle" => r.mods \cap Numeric \subseteq Provided(ini.items, d)
  /\ r.kind = "add" => ~ r.items \subseteq ini.items
  /\ r.kind = "repair" => RepairMaps(ini, d).maps \ {Base} # ini.maps \ {Base}
  /\ r.kind = "raw" => r.secret # Missing
=============================================================================
