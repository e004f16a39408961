--------------------------- MODULE MCSettingsEdits ---------------------------
(***************************************************************************)
(* One ini file, two items, and three calls: the first may make any kind   *)
(* of request, the second deletes or copies back, the third syncs, which   *)
(* reads before it queues.  Another server deletes the folder of one item, *)
(* and the other item may be untracked.                                    *)
(***************************************************************************)
EXTENDS SettingsEdits, TLC

CONSTANTS ini, a, b, modA, modB, num, base, west, town, s1, s2

MCKeys == {ini}
MCItems == {a, b}
MCModIds == {modA, modB, num}
MCFolders == {base, west, town}
MCTowns == {base, west}
MCSecrets == {s1, s2}
MCNumeric == {num}
MCModsOf == a :> {modA} @@ b :> {modB, num}
MCMapsOf == a :> {town} @@ b :> {}
MCFirstMod == a :> modA @@ b :> num

Listed == [items |-> {a}, mods |-> {modA, modB}, maps |-> {base, west, town}, secret |-> s2]
MCStarts == {<<Listed, {a}>>}

R(kind) == [Nothing EXCEPT !.kind = kind]
On(kind, W) == [R(kind) EXCEPT !.items = W, !.bare = W]
Form == [R("form") EXCEPT !.lines = {"mods", "secret"}, !.mods = {modA}, !.secret = Masked]
Raw(secret) == [R("raw") EXCEPT !.items = {b}, !.mods = {modB}, !.maps = {base},
                                !.secret = secret]
Keys1 == [R("keys") EXCEPT !.lines = {"secret"}, !.secret = s1]
Order == [R("order") EXCEPT !.mods = {modA, num}]
Toggle(id, off) == [R("toggle") EXCEPT !.mods = {id}, !.off = off]

Asks == {On(k, {b}) : k \in {"add", "dep", "advanced", "enable", "remove", "batchRemove",
                             "delete"}}
        \cup {On(k, {a, b}) : k \in {"write", "deps", "batchDelete", "orphans"}}
        \cup {R("sync"), R("restore"), R("repair"), Form, Raw(Masked), Raw(Missing), Keys1,
              Order, Toggle(modA, {modB}), Toggle(num, {})}

MCShared == {a}
MCUntracks == {b}
MCMenu ==
  << Asks, {On("delete", {a}), R("restore")}, {R("sync")} >>
=============================================================================
