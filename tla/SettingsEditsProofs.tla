-------------------------- MODULE SettingsEditsProofs --------------------------
(***************************************************************************)
(* Overlapping edits of ini files are atomic, for any servers, any number  *)
(* of requests, any mods and any number of copies that are kept.  The      *)
(* argument: a draft is the edit of the text as it still is, because only  *)
(* the call that holds the lock writes, and it holds it alone.             *)
(***************************************************************************)
EXTENDS SettingsEdits, TLAPS

-----------------------------------------------------------------------------
(* The queue of a file (FileLock) is a first-in first-out mutex.  The      *)
(* chain of promises is the invariant: a call waits for the last call of   *)
(* its file that was not through when it was made, and that one for all    *)
(* before it.                                                              *)

IInv == TypeOK /\ ChainInv

LEMMA InitInv == Init => IInv
  BY CallsAssumption DEF Init, IInv, TypeOK, ChainInv, NumberInv, TailInv, QueueInv,
     PriorInv, PastInv, Made, Through, Calls, None, States

LEMMA LockStep ==
  ASSUME IInv, NEW c \in Calls, Lock(c)
  PROVE  IInv'
<1> USE CallsAssumption DEF Lock, Move, IInv, ChainInv, TypeOK, Through, Calls, None, States
<1>1. TypeOK'
  OBVIOUS
<1>2. NumberInv'
  BY DEF NumberInv
<1>3. TailInv'
  BY DEF NumberInv, TailInv, Made
<1>4. QueueInv'
  BY DEF NumberInv, TailInv, QueueInv, PriorInv, PastInv, Made
<1>5. PriorInv'
  BY DEF NumberInv, TailInv, PriorInv, Made
<1>6. PastInv'
  BY DEF NumberInv, QueueInv, PriorInv, PastInv
<1>7. QED
  BY <1>1, <1>2, <1>3, <1>4, <1>5, <1>6

LEMMA RunStep ==
  ASSUME IInv, NEW c \in Calls, Run(c)
  PROVE  IInv'
<1> USE CallsAssumption DEF Run, Move, IInv, ChainInv, TypeOK, Through, Calls, None, States
<1>1. TypeOK'
  OBVIOUS
<1>2. NumberInv'
  BY DEF NumberInv
<1>3. TailInv'
  BY DEF NumberInv, TailInv, Made
<1>4. QueueInv'
  BY DEF NumberInv, TailInv, QueueInv, PriorInv, PastInv, Made, Resolved
<1>5. PriorInv'
  BY DEF NumberInv, TailInv, PriorInv, Made
<1>6. PastInv'
  BY DEF NumberInv, QueueInv, PriorInv, PastInv, Resolved
<1>7. QED
  BY <1>1, <1>2, <1>3, <1>4, <1>5, <1>6

LEMMA ReturnStep ==
  ASSUME IInv, NEW c \in Calls, Return(c)
  PROVE  IInv'
<1> USE CallsAssumption DEF Return, Move, IInv, ChainInv, TypeOK, Through, Calls, None, States
<1>1. TypeOK'
  OBVIOUS
<1>2. NumberInv'
  BY DEF NumberInv
<1>3. TailInv'
  BY DEF NumberInv, TailInv, Made
<1>4. QueueInv'
  BY DEF NumberInv, TailInv, QueueInv, PriorInv, PastInv, Made
<1>5. PriorInv'
  BY DEF NumberInv, TailInv, PriorInv, Made
<1>6. PastInv'
  BY DEF NumberInv, QueueInv, PriorInv, PastInv
<1>7. QED
  BY <1>1, <1>2, <1>3, <1>4, <1>5, <1>6

LEMMA SettleStep ==
  ASSUME IInv, NEW c \in Calls, Settle(c)
  PROVE  IInv'
<1> USE CallsAssumption DEF Settle, Move, IInv, ChainInv, TypeOK, Through, Calls, None, States
<1>1. TypeOK'
  OBVIOUS
<1>2. NumberInv'
  BY DEF NumberInv
<1>3. TailInv'
  BY DEF NumberInv, TailInv, Made
<1>4. QueueInv'
  BY DEF NumberInv, TailInv, QueueInv, PriorInv, PastInv, Made
<1>5. PriorInv'
  BY DEF NumberInv, TailInv, PriorInv, Made
<1>6. PastInv'
  BY DEF NumberInv, QueueInv, PriorInv, PastInv
<1>7. QED
  BY <1>1, <1>2, <1>3, <1>4, <1>5, <1>6

LEMMA ForgetStep ==
  ASSUME IInv, NEW c \in Calls, Forget(c)
  PROVE  IInv'
<1> USE CallsAssumption DEF Forget, Move, IInv, ChainInv, TypeOK, Through, Calls, None, States
<1>1. TypeOK'
  OBVIOUS
<1>2. NumberInv'
  BY DEF NumberInv
<1>3. TailInv'
  BY DEF NumberInv, TailInv, Made, PastInv
<1>4. QueueInv'
  BY DEF NumberInv, TailInv, QueueInv, PriorInv, PastInv, Made
<1>5. PriorInv'
  BY DEF NumberInv, TailInv, PriorInv, Made
<1>6. PastInv'
  BY DEF NumberInv, QueueInv, PriorInv, PastInv
<1>7. QED
  BY <1>1, <1>2, <1>3, <1>4, <1>5, <1>6

LEMMA NextInv ==
  ASSUME IInv, [Next]_vars
  PROVE  IInv'
<1>1. CASE UNCHANGED vars
  BY <1>1 DEF vars, IInv, TypeOK, ChainInv, NumberInv, TailInv, QueueInv, PriorInv,
     PastInv, Made, Through
<1>2. ASSUME NEW c \in Calls, Lock(c) \/ Step(c)
      PROVE  IInv'
  BY <1>2, LockStep, RunStep, ReturnStep, SettleStep, ForgetStep DEF Step
<1>3. QED
  BY <1>1, <1>2 DEF Next

\* The chain of promises is complete in every state (withFileLock).
THEOREM Chain == Spec => []ChainInv
<1>1. Init => IInv
  BY InitInv
<1>2. IInv /\ [Next]_vars => IInv'
  BY NextInv
<1>3. IInv => ChainInv
  BY DEF IInv
<1>4. QED
  BY <1>1, <1>2, <1>3, PTL DEF Spec

\* One fn at a time for a file, in the order of the calls (withFileLock).
THEOREM WritersExclude == Spec => []OneWriterInOrder
<1>1. ChainInv => OneWriterInOrder
  BY DEF ChainInv, PastInv, OneWriterInOrder, Waiting, Through
<1>2. QED
  BY <1>1, Chain, PTL

\* The map keeps no entry of a call that is through with everything, so it does
\* not grow (the finally of withFileLock).
THEOREM MapIsCleaned == Spec => []NoStaleEntry
<1>1. Init => IInv /\ NoStaleEntry
  BY InitInv DEF Init, NoStaleEntry
<1>2. ASSUME IInv, NoStaleEntry, [Next]_vars
      PROVE  NoStaleEntry'
  <2> USE DEF NoStaleEntry, IInv, TypeOK, Move, Calls, None
  <2>1. CASE UNCHANGED vars
    BY <1>2, <2>1 DEF vars
  <2>2. ASSUME NEW c \in Calls, Lock(c)
        PROVE  NoStaleEntry'
    BY <1>2, <2>2 DEF Lock
  <2>3. ASSUME NEW c \in Calls, Run(c) \/ Return(c) \/ Settle(c)
        PROVE  NoStaleEntry'
    BY ZenonT(60), <1>2, <2>3 DEF Run, Return, Settle
  <2>4. ASSUME NEW c \in Calls, Forget(c)
        PROVE  NoStaleEntry'
    BY <1>2, <2>4 DEF Forget, ChainInv, TailInv, Made
  <2>5. QED
    BY <1>2, <2>1, <2>2, <2>3, <2>4 DEF Next, Step
<1>3. IInv /\ [Next]_vars => IInv'
  BY NextInv
<1>4. QED
  BY <1>1, <1>2, <1>3, PTL DEF Spec

-----------------------------------------------------------------------------
(* The pure edits stay within the types.                                   *)

LEMMA FoundTyped ==
  ASSUME NEW W \in SUBSET Items, NEW d
  PROVE  /\ Provided(W, d) \in SUBSET ModIds
         /\ MapsIn(W, d) \in SUBSET Folders
         /\ Firsts(W, d) \in SUBSET ModIds
<1>1. Provided(W, d) \in SUBSET ModIds
  BY ItemsAssumption DEF Provided
<1>2. MapsIn(W, d) \in SUBSET Folders
  BY ItemsAssumption DEF MapsIn
<1>3. Firsts(W, d) \in SUBSET ModIds
  BY ItemsAssumption DEF Firsts
<1>4. QED
  BY <1>1, <1>2, <1>3

LEMMA PreparedTyped ==
  ASSUME NEW r \in Request, NEW d \in SUBSET Items, NEW I \in SUBSET Items
  PROVE  Prepared(r, d, I) \in Request
<1>1. /\ r.items \in SUBSET Items
      /\ r.bare \in SUBSET Items
      /\ r.mods \in SUBSET ModIds
      /\ r.maps \in SUBSET Folders
  BY DEF Request
<1>2. Detected(r, d) \in SUBSET ModIds
  BY <1>1, FoundTyped DEF Detected
<1>3. /\ Provided(r.items, d) \in SUBSET ModIds
      /\ Provided(r.bare, d) \in SUBSET ModIds
      /\ MapsIn(r.items, d) \in SUBSET Folders
  BY <1>1, FoundTyped
<1>4. CASE r.kind = "orphans"
  <2> DEFINE drop == {w \in r.items : Useless(w, d, I)}
  <2>1. drop \in SUBSET Items /\ r.items \ drop \in SUBSET Items
    BY <1>1
  <2>2. Provided(r.items \ drop, d) \in SUBSET ModIds
    BY <2>1, FoundTyped
  <2>3. Prepared(r, d, I) = [r EXCEPT !.mods = Provided(r.items \ drop, d), !.items = drop]
    BY <1>4 DEF Prepared
  <2> HIDE DEF drop
  <2>4. QED
    BY <2>1, <2>2, <2>3 DEF Request
<1>5. CASE r.kind = "write"
  BY <1>1, <1>2, <1>3, <1>5 DEF Prepared, Request
<1>6. CASE r.kind \in {"add", "dep", "deps"}
  BY <1>2, <1>3, <1>6 DEF Prepared, Request
<1>7. CASE r.kind = "advanced"
  BY <1>1, <1>3, <1>7 DEF Prepared, Request
<1>8. CASE r.kind = "enable"
  BY <1>3, <1>8 DEF Prepared, Request
<1>9. CASE r.kind = "delete"
  BY <1>3, <1>9 DEF Prepared, Request
<1>10. CASE r.kind = "batchDelete"
  BY <1>3, <1>10 DEF Prepared, Request
<1>11. CASE r.kind \notin {"write", "add", "dep", "deps", "advanced", "enable", "delete",
                           "batchDelete", "orphans"}
  BY <1>11 DEF Prepared
<1>12. QED
  BY <1>4, <1>5, <1>6, <1>7, <1>8, <1>9, <1>10, <1>11

LEMMA ToggleTyped ==
  ASSUME NEW r \in Request, NEW t \in Text, NEW d
  PROVE  ToggleMods(r, t, d) \in Text
<1>1. Verified((t.mods \ r.off) \cup r.mods, t.items, d) \in SUBSET ModIds
  BY DEF Verified, Named, Request, Text
<1>2. QED
  BY <1>1 DEF ToggleMods, Text

LEMMA AddingTyped ==
  ASSUME NEW r \in Request, NEW t \in Text
  PROVE  /\ WriteToIni(r, t) \in Text
         /\ AddToIni(r, t) \in Text
         /\ AddMissingDep(r, t) \in Text
         /\ AddAll(r, t) \in Text
         /\ EnableDiskMod(r, t) \in Text
         /\ SaveOrder(r, t) \in Text
<1> USE DEF Named, Request, Text
<1>1. WriteToIni(r, t) \in Text
  <2>1. Base \in Folders
    BY ItemsAssumption
  <2>2. QED
    BY <2>1 DEF WriteToIni
<1>2. AddToIni(r, t) \in Text
  BY DEF AddToIni
<1>3. AddMissingDep(r, t) \in Text
  BY DEF AddMissingDep
<1>4. AddAll(r, t) \in Text
  BY DEF AddAll
<1>5. EnableDiskMod(r, t) \in Text
  BY DEF EnableDiskMod
<1>6. SaveOrder(r, t) \in Text
  BY DEF SaveOrder
<1>7. QED
  BY <1>1, <1>2, <1>3, <1>4, <1>5, <1>6

\* A request to sync names only items that provide a mod.
Syncable(r) == r.kind = "sync" => \A w \in r.items : ModsOf[w] # {}

LEMMA SyncTyped ==
  ASSUME NEW r \in Request, NEW t \in Text, r.kind = "sync", Syncable(r)
  PROVE  SyncModIds(r, t) \in Text
<1> DEFINE added == {FirstMod[w] : w \in {v \in r.items : ModsOf[v] \cap t.mods = {}}}
<1>1. added \in SUBSET ModIds
  BY ItemsAssumption DEF Syncable, Request
<1>2. SyncModIds(r, t) = [t EXCEPT !.mods = Named(t.mods \cup r.mods \cup added)]
  BY DEF SyncModIds
<1> HIDE DEF added
<1>3. QED
  BY <1>1, <1>2 DEF Text, Request, Named

LEMMA RemovingTyped ==
  ASSUME NEW r \in Request, NEW t \in Text, NEW d
  PROVE  /\ RemoveFromIni(r, t, d) \in Text
         /\ BatchRemove(r, t, d) \in Text
         /\ StripDeleted(r, t) \in Text
         /\ ResolveOrphans(r, t) \in Text
         /\ RepairMaps(t, d) \in Text
<1>1. r.items \in SUBSET Items /\ t.items \in SUBSET Items
  BY DEF Request, Text
<1>2. Base \in Folders /\ Towns \subseteq Folders
  BY ItemsAssumption
<1>3. MapsIn(t.items, d) \in SUBSET Folders
  BY <1>1, FoundTyped
<1>4. RemoveFromIni(r, t, d) \in Text
  BY <1>2 DEF RemoveFromIni, OrBase, Named, Text
<1>5. BatchRemove(r, t, d) \in Text
  BY <1>2 DEF BatchRemove, OrBase, Named, Text
<1>6. StripDeleted(r, t) \in Text
  BY <1>2 DEF StripDeleted, OrBase, Named, Text
<1>7. ResolveOrphans(r, t) \in Text
  BY DEF ResolveOrphans, Named, Text, Request
<1>8. RepairMaps(t, d) \in Text
  BY <1>2, <1>3 DEF RepairMaps, Text
<1>9. QED
  BY <1>4, <1>5, <1>6, <1>7, <1>8

LEMMA SettingTyped ==
  ASSUME NEW r \in Request, NEW t \in Text
  PROVE  SetKeys(r, t) \in Text /\ Replace(r, t) \in Text
<1>1. SetKeys(r, t) \in Text
  BY DEF SetKeys, Text, Request
<1>2. Replace(r, t) \in Text
  BY DEF Replace, Text, Request
<1>3. QED
  BY <1>1, <1>2

LEMMA EditedTyped ==
  ASSUME NEW r \in Request, NEW t \in Text, NEW d, Syncable(r)
  PROVE  Edited(r, t, d) \in Text
<1>1. r.kind \in Kinds
  BY DEF Request
<1>2. CASE r.kind \in {"write", "add", "dep", "deps", "advanced", "enable", "order"}
  BY <1>2, AddingTyped DEF Edited
<1>3. CASE r.kind \in {"toggle", "sync"}
  BY <1>3, ToggleTyped, SyncTyped DEF Edited
<1>4. CASE r.kind \in {"remove", "batchRemove", "delete", "batchDelete", "orphans", "repair"}
  BY <1>4, RemovingTyped DEF Edited
<1>5. CASE r.kind \in {"form", "keys", "raw", "restore"}
  BY <1>5, SettingTyped DEF Edited
<1>6. QED
  BY <1>1, <1>2, <1>3, <1>4, <1>5 DEF Kinds

\* A removal takes its items out of the ini, whatever is there.
Removals == {"batchRemove", "delete", "batchDelete"}

LEMMA RemovalUnlists ==
  ASSUME NEW r \in Request, NEW t \in Text, NEW d, r.kind \in Removals
  PROVE  Edited(r, t, d).items \cap r.items = {}
<1>1. BatchRemove(r, t, d).items = t.items \ r.items
  BY DEF BatchRemove, Text
<1>2. StripDeleted(r, t).items = t.items \ r.items
  BY DEF StripDeleted, Text
<1>3. QED
  BY <1>1, <1>2 DEF Edited, Removals

-----------------------------------------------------------------------------
(* The requests that are read before the lock, and the copies.             *)

LEMMA SyncRequestTyped ==
  ASSUME EditTypeOK, NEW k \in Keys, NEW A
  PROVE  SyncRequest(k, A) \in Request /\ Syncable(SyncRequest(k, A))
<1> DEFINE W == {w \in text[k].items \cap disk : ModsOf[w] # {}}
           M == {FirstMod[w] : w \in {v \in (text[k].items \ disk) \cap A : ModsOf[v] # {}}}
<1>1. text[k] \in Text
  BY DEF EditTypeOK
<1>2. W \in SUBSET Items /\ M \in SUBSET ModIds
  BY <1>1, ItemsAssumption DEF Text
<1>3. SyncRequest(k, A) = [Nothing EXCEPT !.kind = "sync", !.items = W, !.mods = M]
  BY DEF SyncRequest
<1>4. \A w \in W : ModsOf[w] # {}
  OBVIOUS
<1> HIDE DEF W, M
<1>5. SyncRequest(k, A) \in Request
  BY <1>2, <1>3 DEF Nothing, Request, Kinds
<1>6. SyncRequest(k, A).items = W
  BY <1>3 DEF Nothing
<1>7. QED
  BY <1>4, <1>5, <1>6 DEF Syncable

LEMMA NothingTyped == Nothing \in Request /\ Syncable(Nothing) /\ Nothing.kind \notin Tidies
BY DEF Nothing, Request, Kinds, Syncable, Tidies

LEMMA RestoreRequestTyped ==
  ASSUME NEW t \in Text
  PROVE  RestoreRequest(t) \in Request /\ Syncable(RestoreRequest(t))
BY DEF RestoreRequest, Nothing, Request, Kinds, Text, Syncable

LEMMA PushTyped ==
  ASSUME NEW b \in Seq(Text), NEW t \in Text
  PROVE  /\ Push(b, t) \in Seq(Text)
         /\ 1 \in DOMAIN Push(b, t)
         /\ Push(b, t)[1] = t
<1> DEFINE n == IF Len(b) < Keep THEN Len(b) + 1 ELSE Keep
<1>1. n \in Nat /\ n >= 1 /\ n <= Len(b) + 1
  BY EditsAssumption
<1>2. Push(b, t) = [i \in 1..n |-> IF i = 1 THEN t ELSE b[i - 1]]
  BY DEF Push
<1>3. ASSUME NEW i \in 1..n
      PROVE  (IF i = 1 THEN t ELSE b[i - 1]) \in Text
  BY <1>1, <1>3
<1> HIDE DEF n
<1>4. Push(b, t) \in [1..n -> Text]
  BY <1>2, <1>3
<1>5. Push(b, t) \in Seq(Text)
  BY <1>1, <1>4
<1>6. QED
  BY <1>1, <1>2, <1>5

LEMMA PreparedSyncable ==
  ASSUME NEW r \in Request, NEW d, NEW I, r.kind # "sync"
  PROVE  Syncable(Prepared(r, d, I))
<1>1. Prepared(r, d, I).kind = r.kind
  BY DEF Prepared, Request
<1>2. QED
  BY <1>1 DEF Syncable

-----------------------------------------------------------------------------
(* The invariant.                                                          *)

\* How far the request is, and how far its call is.
PhaseInv ==
  \A c \in Calls : /\ phase[c] \in {"none", "looked"} <=> state[c] = "new"
                   /\ phase[c] = "asked" <=> state[c] = "queued"
                   /\ phase[c] \in {"read", "copied", "bare", "void"} <=> state[c] = "running"

\* A draft is the edit of the text as it is now.
DraftInv ==
  \A c \in Calls : phase[c] \in Drafting =>
    \E d \in SUBSET Items : draft[c] = Edited(req[c], text[key[c]], d)

\* The newest copy is of the text as it is now.
CopyInv ==
  \A c \in Calls : phase[c] = "copied" =>
    1 \in DOMAIN baks[key[c]] /\ baks[key[c]][1] = text[key[c]]

\* Between a removal and what follows it, the items are not listed.
RemovedInv ==
  \A c \in Calls : phase[c] = "written" =>
    /\ state[c] = "done"
    /\ req[c].kind \in Tidies
    /\ req[c].kind \in Removals => req[c].items \cap text[key[c]].items = {}

EInv ==
  /\ IInv
  /\ EditTypeOK
  /\ \A c \in Calls : Syncable(req[c])
  /\ PhaseInv
  /\ DraftInv
  /\ CopyInv
  /\ RemovedInv

LEMMA EditInitInv == EditInit => EInv
<1> SUFFICES ASSUME EditInit PROVE EInv
  OBVIOUS
<1>1. IInv
  BY InitInv DEF EditInit
<1>2. PICK start \in [Keys -> Starts] : /\ text = [k \in Keys |-> start[k][1]]
                                        /\ disk = UNION {start[k][2] : k \in Keys}
  BY DEF EditInit
<1>3. \A k \in Keys : start[k][1] \in Text /\ start[k][2] \in SUBSET Items
  BY EditsAssumption
<1>4. Nothing \in Request /\ Syncable(Nothing)
  BY NothingTyped
<1>5. EditTypeOK
  <2>1. disk \in SUBSET Items
    BY <1>2, <1>3
  <2>2. QED
    BY <1>1, <1>2, <1>3, <1>4, <2>1 DEF EditInit, EditTypeOK, IInv, Phases
<1>6. PhaseInv /\ DraftInv /\ CopyInv /\ RemovedInv
  BY DEF EditInit, Init, PhaseInv, DraftInv, CopyInv, RemovedInv, Drafting
<1>7. \A c \in Calls : Syncable(req[c])
  BY <1>4 DEF EditInit
<1>8. QED
  BY <1>1, <1>5, <1>6, <1>7 DEF EInv

\* Only one call for a file is between its first and its last step under the
\* lock, and none while another is before its handler's end.
LEMMA Alone ==
  ASSUME EInv, NEW c \in Calls, NEW e \in Calls, c # e, key[c] = key[e],
         state[c] = "running"
  PROVE  state[e] # "running" /\ state[e] # "done"
<1>1. c < e \/ e < c
  BY CallsAssumption DEF Calls
<1>2. CASE c < e
  BY <1>2 DEF EInv, IInv, ChainInv, PastInv, Through
<1>3. CASE e < c
  BY <1>3 DEF EInv, IInv, ChainInv, PastInv, Through
<1>4. QED
  BY <1>1, <1>2, <1>3

\* The new request of a call: the lock's part of Look and Submit is elsewhere.
LEMMA LookStep ==
  ASSUME EInv, NEW c \in Calls, Look(c)
  PROVE  EInv'
<1> DEFINE Reads(r) == Syncable(r) /\ req' = [req EXCEPT ![c] = r]
<1>1. \E r \in Request : Reads(r)
  <2>1. key[c] \in Keys /\ EditTypeOK
    BY DEF EInv, EditTypeOK, TypeOK
  <2>2. ASSUME NEW A \in SUBSET Items, req' = [req EXCEPT ![c] = SyncRequest(key[c], A)]
        PROVE  \E r \in Request : Reads(r)
    BY <2>1, <2>2, SyncRequestTyped
  <2>3. ASSUME NEW i \in DOMAIN baks[key[c]],
               req' = [req EXCEPT ![c] = RestoreRequest(baks[key[c]][i])]
        PROVE  \E r \in Request : Reads(r)
    <3>1. baks[key[c]][i] \in Text
      BY <2>1, <2>3 DEF EditTypeOK
    <3>2. QED
      BY <2>3, <3>1, RestoreRequestTyped
  <2>4. QED
    BY <2>2, <2>3 DEF Look
<1>2. PICK r \in Request : Syncable(r) /\ req' = [req EXCEPT ![c] = r]
  BY <1>1
<1>3. IInv'
  BY DEF EInv, Look, vars, IInv, TypeOK, ChainInv, NumberInv, TailInv, QueueInv, PriorInv,
     PastInv, Made, Through
<1>4. EditTypeOK'
  BY <1>2 DEF EInv, Look, Goto, vars, modVars, EditTypeOK, TypeOK, Phases
<1>5. (\A e \in Calls : Syncable(req[e]))'
  BY <1>2 DEF EInv, EditTypeOK
<1>6. PhaseInv'
  BY DEF EInv, Look, Goto, vars, PhaseInv, EditTypeOK
<1>7. DraftInv' /\ CopyInv' /\ RemovedInv'
  BY ZenonT(60), <1>2 DEF EInv, Look, Goto, vars, DraftInv, CopyInv, RemovedInv, EditTypeOK, Drafting
<1>8. QED
  BY <1>3, <1>4, <1>5, <1>6, <1>7 DEF EInv

LEMMA SubmitStep ==
  ASSUME EInv, NEW c \in Calls, Submit(c)
  PROVE  EInv'
<1>1. PICK r \in Request : Syncable(r) /\ Queue(c, r)
  <2>1. CASE phase[c] = "looked"
    BY <2>1 DEF Submit, EInv, EditTypeOK
  <2>2. CASE phase[c] = "none"
    <3>1. PICK m \in Menu[c] : /\ m.kind # "sync"
                               /\ Queue(c, Prepared(m, disk, ignored[key[c]]))
      BY <2>2 DEF Submit
    <3>2. /\ m \in Request
          /\ disk \in SUBSET Items
          /\ ignored[key[c]] \in SUBSET Items
      BY EditsAssumption DEF EInv, EditTypeOK, TypeOK
    <3>3. QED
      BY <3>1, <3>2, PreparedTyped, PreparedSyncable
  <2>3. QED
    BY <2>1, <2>2 DEF Submit
<1>2. Lock(c) /\ IInv'
  BY <1>1, LockStep DEF Queue, EInv
<1>3. /\ state[c] = "new"
      /\ state' = [state EXCEPT ![c] = "queued"]
      /\ key' = key
      /\ req' = [req EXCEPT ![c] = r]
      /\ phase' = [phase EXCEPT ![c] = "asked"]
      /\ UNCHANGED <<text, baks, modVars, draft>>
  BY <1>1, <1>2 DEF Queue, Lock, Move, Goto
<1>4. EditTypeOK'
  BY <1>1, <1>2, <1>3 DEF EInv, IInv, EditTypeOK, modVars, Phases
<1>5. (\A e \in Calls : Syncable(req[e]))'
  BY <1>1, <1>3 DEF EInv, EditTypeOK
<1>6. PhaseInv'
  BY <1>3 DEF EInv, IInv, TypeOK, PhaseInv, EditTypeOK
<1>7. DraftInv' /\ CopyInv' /\ RemovedInv'
  BY <1>3 DEF EInv, IInv, TypeOK, DraftInv, CopyInv, RemovedInv, EditTypeOK, Drafting
<1>8. QED
  BY <1>2, <1>4, <1>5, <1>6, <1>7 DEF EInv

LEMMA EnterStep ==
  ASSUME EInv, NEW c \in Calls, Enter(c)
  PROVE  EInv'
<1> DEFINE k == key[c]
           new == Edited(req[c], text[k], disk)
<1>1. IInv'
  BY RunStep DEF Enter, EInv
<1>2. /\ state[c] = "queued"
      /\ state' = [state EXCEPT ![c] = "running"]
      /\ phase' \in {[phase EXCEPT ![c] = "read"], [phase EXCEPT ![c] = "bare"],
                     [phase EXCEPT ![c] = "void"]}
      /\ phase'[c] \in Drafting => draft' = [draft EXCEPT ![c] = new]
      /\ draft' \in {draft, [draft EXCEPT ![c] = new]}
      /\ key' = key
      /\ UNCHANGED <<text, baks, modVars, req>>
  BY DEF Enter, First, Run, Move, Goto, EInv, EditTypeOK, Drafting
<1>3. k \in Keys /\ text[k] \in Text /\ disk \in SUBSET Items /\ req[c] \in Request
  BY DEF EInv, EditTypeOK, TypeOK
<1>4. new \in Text
  BY <1>3, EditedTyped DEF EInv
<1> HIDE DEF new
<1>5. EditTypeOK'
  BY <1>1, <1>2, <1>4 DEF EInv, IInv, EditTypeOK, modVars, Phases
<1>6. (\A e \in Calls : Syncable(req[e]))'
  BY <1>2 DEF EInv
<1>7. PhaseInv'
  BY <1>2 DEF EInv, IInv, TypeOK, PhaseInv, EditTypeOK
<1>8. DraftInv'
  <2> SUFFICES ASSUME NEW e \in Calls, phase'[e] \in Drafting
               PROVE  \E d \in SUBSET Items : draft'[e] = Edited(req'[e], text'[key'[e]], d)
    BY DEF DraftInv
  <2>1. CASE e = c
    BY <1>2, <1>3, <2>1 DEF new, EInv, EditTypeOK
  <2>2. CASE e # c
    BY <1>2, <2>2 DEF EInv, EditTypeOK, DraftInv
  <2>3. QED
    BY <2>1, <2>2
<1>9. CopyInv' /\ RemovedInv'
  BY <1>2 DEF EInv, IInv, TypeOK, CopyInv, RemovedInv, EditTypeOK
<1>10. QED
  BY <1>1, <1>5, <1>6, <1>7, <1>8, <1>9 DEF EInv

LEMMA CopyStep ==
  ASSUME EInv, NEW c \in Calls, Copy(c)
  PROVE  EInv'
<1> DEFINE k == key[c]
<1>1. IInv'
  BY DEF EInv, Copy, vars, IInv, TypeOK, ChainInv, NumberInv, TailInv, QueueInv, PriorInv,
     PastInv, Made, Through
<1>2. k \in Keys /\ text[k] \in Text /\ baks[k] \in Seq(Text)
  BY DEF EInv, EditTypeOK, TypeOK
<1>3. /\ Push(baks[k], text[k]) \in Seq(Text)
      /\ 1 \in DOMAIN Push(baks[k], text[k])
      /\ Push(baks[k], text[k])[1] = text[k]
  BY <1>2, PushTyped
<1>4. /\ phase[c] = "read"
      /\ \/ /\ phase' = [phase EXCEPT ![c] = "copied"]
            /\ baks' = [baks EXCEPT ![k] = Push(baks[k], text[k])]
         \/ phase' = [phase EXCEPT ![c] = "bare"] /\ baks' = baks
      /\ UNCHANGED <<vars, text, modVars, req, draft>>
  BY <1>2 DEF Copy, Goto, EInv, EditTypeOK
<1>5. EditTypeOK'
  BY ZenonT(60), <1>1, <1>3, <1>4 DEF EInv, IInv, EditTypeOK, modVars, Phases
<1>6. (\A e \in Calls : Syncable(req[e]))'
  BY <1>4 DEF EInv
<1>7. PhaseInv'
  BY <1>4 DEF EInv, PhaseInv, EditTypeOK, vars
<1>8. DraftInv'
  BY <1>4 DEF EInv, DraftInv, EditTypeOK, vars, Drafting
<1>9. CopyInv'
  <2> SUFFICES ASSUME NEW e \in Calls, phase'[e] = "copied"
               PROVE  1 \in DOMAIN baks'[key[e]] /\ baks'[key[e]][1] = text[key[e]]
    BY <1>4 DEF CopyInv, vars
  <2>1. key[e] \in Keys
    BY DEF EInv, EditTypeOK, TypeOK
  <2>2. CASE /\ phase' = [phase EXCEPT ![c] = "copied"]
             /\ baks' = [baks EXCEPT ![k] = Push(baks[k], text[k])]
    <3>1. CASE key[e] = k
      <4>1. baks'[k] = Push(baks[k], text[k])
        BY <1>2, <2>2 DEF EInv, EditTypeOK
      <4>2. QED
        BY <1>3, <3>1, <4>1
    <3>2. CASE key[e] # k
      <4>1. baks'[key[e]] = baks[key[e]] /\ phase[e] = "copied"
        BY <2>1, <2>2, <3>2 DEF EInv, EditTypeOK
      <4>2. QED
        BY <4>1 DEF EInv, CopyInv
    <3>3. QED
      BY <3>1, <3>2
  <2>3. CASE phase' = [phase EXCEPT ![c] = "bare"] /\ baks' = baks
    <3>1. phase[e] = "copied"
      BY <2>3 DEF EInv, EditTypeOK
    <3>2. QED
      BY <2>3, <3>1 DEF EInv, CopyInv
  <2>4. QED
    BY <1>4, <2>2, <2>3
<1>10. RemovedInv'
  BY <1>4 DEF EInv, RemovedInv, EditTypeOK, vars
<1>11. QED
  BY <1>1, <1>5, <1>6, <1>7, <1>8, <1>9, <1>10 DEF EInv

LEMMA WriteStep ==
  ASSUME EInv, NEW c \in Calls, Write(c)
  PROVE  EInv'
<1> DEFINE k == key[c]
<1>1. IInv'
  BY ReturnStep DEF Write, EInv
<1>2. /\ phase[c] \in {"copied", "bare"}
      /\ state[c] = "running"
      /\ state' = [state EXCEPT ![c] = "done"]
      /\ text' = [text EXCEPT ![k] = draft[c]]
      /\ draft' = [draft EXCEPT ![c] = NoText]
      /\ \/ /\ req[c].kind \in Tidies
            /\ phase' = [phase EXCEPT ![c] = "written"]
            /\ req' = req
         \/ /\ phase' = [phase EXCEPT ![c] = "over"]
            /\ req' = [req EXCEPT ![c] = Nothing]
      /\ key' = key
      /\ UNCHANGED <<baks, modVars>>
  BY DEF Write, Return, Move, Goto, Over
<1>3. k \in Keys /\ text[k] \in Text /\ req[c] \in Request
  BY DEF EInv, EditTypeOK, TypeOK
<1>4. PICK d \in SUBSET Items : draft[c] = Edited(req[c], text[k], d)
  BY <1>2 DEF EInv, DraftInv, Drafting
<1>5. draft[c] \in Text
  BY <1>3, <1>4, EditedTyped DEF EInv
<1>6. \A e \in Calls : e # c /\ key[e] = k => state[e] # "running" /\ state[e] # "done"
  BY <1>2, Alone
<1>7. EditTypeOK'
  BY <1>1, <1>2, <1>5, NothingTyped DEF EInv, IInv, EditTypeOK, modVars, Phases
<1>8. (\A e \in Calls : Syncable(req[e]))'
  BY <1>2, NothingTyped DEF EInv, EditTypeOK
<1>9. PhaseInv'
  BY <1>2 DEF EInv, IInv, TypeOK, PhaseInv, EditTypeOK
<1>10. DraftInv'
  <2> SUFFICES ASSUME NEW e \in Calls, phase'[e] \in Drafting
               PROVE  \E b \in SUBSET Items : draft'[e] = Edited(req'[e], text'[key'[e]], b)
    BY DEF DraftInv
  <2>1. e # c
    BY <1>2 DEF EInv, EditTypeOK, Drafting
  <2>2. phase[e] \in Drafting /\ draft'[e] = draft[e] /\ state[e] = "running" /\ req'[e] = req[e]
    BY <1>2, <2>1 DEF EInv, EditTypeOK, PhaseInv, Drafting
  <2>3. text'[key[e]] = text[key[e]]
    BY <1>2, <1>6, <2>1, <2>2 DEF EInv, EditTypeOK
  <2>4. QED
    BY <1>2, <2>2, <2>3 DEF EInv, DraftInv
<1>11. CopyInv'
  <2> SUFFICES ASSUME NEW e \in Calls, phase'[e] = "copied"
               PROVE  1 \in DOMAIN baks'[key'[e]] /\ baks'[key'[e]][1] = text'[key'[e]]
    BY DEF CopyInv
  <2>1. e # c
    BY <1>2 DEF EInv, EditTypeOK
  <2>2. phase[e] = "copied" /\ state[e] = "running"
    BY <1>2, <2>1 DEF EInv, EditTypeOK, PhaseInv
  <2>3. text'[key[e]] = text[key[e]]
    BY <1>2, <1>6, <2>1, <2>2 DEF EInv, EditTypeOK
  <2>4. QED
    BY <1>2, <2>2, <2>3 DEF EInv, CopyInv
<1>12. RemovedInv'
  <2> SUFFICES ASSUME NEW e \in Calls, phase'[e] = "written"
               PROVE  /\ state'[e] = "done"
                      /\ req'[e].kind \in Tidies
                      /\ req'[e].kind \in Removals =>
                           req'[e].items \cap text'[key'[e]].items = {}
    BY DEF RemovedInv
  <2>1. CASE e = c
    <3>1. text'[k] = draft[c]
      BY <1>2, <1>3 DEF EInv, EditTypeOK
    <3>2. req[c].kind \in Removals => Edited(req[c], text[k], d).items \cap req[c].items = {}
      BY <1>3, RemovalUnlists
    <3>3. req[c].kind \in Removals => req[c].items \cap text'[k].items = {}
      BY <1>4, <3>1, <3>2
    <3>4. state'[c] = "done" /\ req[c].kind \in Tidies /\ req' = req
      BY <1>2, <2>1 DEF EInv, EditTypeOK, IInv, TypeOK
    <3>5. QED
      BY <1>2, <2>1, <3>3, <3>4
  <2>2. CASE e # c
    <3>1. phase[e] = "written" /\ state[e] = "done" /\ req'[e] = req[e]
      BY <1>2, <2>2 DEF EInv, EditTypeOK, RemovedInv
    <3>2. text'[key[e]] = text[key[e]]
      BY <1>2, <1>6, <2>2, <3>1 DEF EInv, EditTypeOK
    <3>3. QED
      BY <1>2, <2>2, <3>1, <3>2 DEF EInv, RemovedInv, IInv, TypeOK
  <2>3. QED
    BY <2>1, <2>2
<1>13. QED
  BY <1>1, <1>7, <1>8, <1>9, <1>10, <1>11, <1>12 DEF EInv

LEMMA LeaveStep ==
  ASSUME EInv, NEW c \in Calls, Leave(c)
  PROVE  EInv'
<1>1. IInv'
  BY ReturnStep DEF Leave, EInv
<1>2. /\ state[c] = "running"
      /\ state' = [state EXCEPT ![c] = "done"]
      /\ draft' = [draft EXCEPT ![c] = NoText]
      /\ phase' = [phase EXCEPT ![c] = "over"]
      /\ key' = key
      /\ req' = [req EXCEPT ![c] = Nothing]
      /\ UNCHANGED <<text, baks, modVars>>
  BY DEF Leave, Return, Move, Goto, Over
<1>3. EditTypeOK'
  BY <1>1, <1>2, NothingTyped DEF EInv, IInv, EditTypeOK, modVars, Phases
<1>4. (\A e \in Calls : Syncable(req[e]))'
  BY <1>2, NothingTyped DEF EInv, EditTypeOK
<1>5. PhaseInv'
  BY <1>2 DEF EInv, IInv, TypeOK, PhaseInv, EditTypeOK
<1>6. DraftInv' /\ CopyInv' /\ RemovedInv'
  BY <1>2 DEF EInv, IInv, TypeOK, DraftInv, CopyInv, RemovedInv, EditTypeOK, Drafting
<1>7. QED
  BY <1>1, <1>3, <1>4, <1>5, <1>6 DEF EInv

\* The lists and the folders stay lists and folders of items.
LEMMA TidyTyped ==
  ASSUME EInv, NEW c \in Calls, NEW k \in Keys, RemoveFolders(c), UpdateLists(c, k)
  PROVE  /\ disk' \in SUBSET Items
         /\ ignored' \in [Keys -> SUBSET Items]
         /\ tracked' \in [Keys -> SUBSET Items]
<1>1. /\ req[c].items \in SUBSET Items
      /\ disk \in SUBSET Items
      /\ ignored \in [Keys -> SUBSET Items]
      /\ tracked \in [Keys -> SUBSET Items]
  BY DEF EInv, EditTypeOK, Request
<1>2. disk' \in SUBSET Items
  BY <1>1 DEF RemoveFolders
<1>3. CASE req[c].kind \in {"advanced", "enable"}
  BY <1>1, <1>2, <1>3 DEF UpdateLists
<1>4. CASE req[c].kind \notin {"advanced", "enable"}
  BY <1>1, <1>2, <1>4 DEF UpdateLists
<1>5. QED
  BY <1>3, <1>4

LEMMA TidyStep ==
  ASSUME EInv, NEW c \in Calls, Tidy(c)
  PROVE  EInv'
<1>1. IInv'
  BY DEF EInv, Tidy, vars, IInv, TypeOK, ChainInv, NumberInv, TailInv, QueueInv, PriorInv,
     PastInv, Made, Through
<1>2. /\ state[c] = "done"
      /\ phase[c] = "written"
      /\ phase' = [phase EXCEPT ![c] = "over"]
      /\ req' = [req EXCEPT ![c] = Nothing]
      /\ UNCHANGED <<vars, text, baks, draft>>
  BY DEF Tidy, Goto, Over
<1>3. key[c] \in Keys
  BY DEF EInv, EditTypeOK, TypeOK
<1>4. /\ disk' \in SUBSET Items
      /\ ignored' \in [Keys -> SUBSET Items]
      /\ tracked' \in [Keys -> SUBSET Items]
  BY <1>3, TidyTyped DEF Tidy
<1>5. EditTypeOK'
  BY <1>1, <1>2, <1>4, NothingTyped DEF EInv, IInv, EditTypeOK, Phases
<1>6. (\A e \in Calls : Syncable(req[e]))'
  BY <1>2, NothingTyped DEF EInv, EditTypeOK
<1>7. PhaseInv'
  BY <1>2 DEF EInv, PhaseInv, EditTypeOK, vars
<1>8. DraftInv' /\ CopyInv' /\ RemovedInv'
  BY <1>2 DEF EInv, DraftInv, CopyInv, RemovedInv, EditTypeOK, Drafting, vars
<1>9. QED
  BY <1>1, <1>5, <1>6, <1>7, <1>8 DEF EInv

LEMMA LockEndsStep ==
  ASSUME EInv, NEW c \in Calls, LockEnds(c)
  PROVE  EInv'
<1>1. IInv'
  BY SettleStep, ForgetStep DEF LockEnds, EInv
<1>2. /\ \/ /\ state[c] = "done" /\ phase[c] = "over"
            /\ state' = [state EXCEPT ![c] = "settled"]
         \/ state[c] = "settled" /\ state' = [state EXCEPT ![c] = "gone"]
      /\ key' = key
      /\ UNCHANGED editVars
  BY DEF LockEnds, Settle, Forget, Move
<1>3. phase[c] # "written"
  BY <1>2 DEF EInv, RemovedInv
<1>4. EditTypeOK'
  BY <1>1, <1>2 DEF EInv, IInv, EditTypeOK, editVars
<1>5. (\A e \in Calls : Syncable(req[e]))'
  BY <1>2 DEF EInv, editVars
<1>6. PhaseInv'
  BY <1>2 DEF EInv, IInv, TypeOK, PhaseInv, editVars
<1>7. DraftInv' /\ CopyInv'
  BY <1>2 DEF EInv, DraftInv, CopyInv, editVars
<1>8. RemovedInv'
  BY <1>2, <1>3 DEF EInv, IInv, TypeOK, RemovedInv, editVars
<1>9. QED
  BY <1>1, <1>4, <1>5, <1>6, <1>7, <1>8 DEF EInv

LEMMA MaintenanceCopyStep ==
  ASSUME EInv, NEW k \in Keys, MaintenanceCopy(k)
  PROVE  EInv'
<1>1. IInv'
  BY DEF EInv, MaintenanceCopy, vars, IInv, TypeOK, ChainInv, NumberInv, TailInv, QueueInv,
     PriorInv, PastInv, Made, Through
<1>2. text[k] \in Text /\ baks[k] \in Seq(Text)
  BY DEF EInv, EditTypeOK
<1>3. /\ Push(baks[k], text[k]) \in Seq(Text)
      /\ 1 \in DOMAIN Push(baks[k], text[k])
      /\ Push(baks[k], text[k])[1] = text[k]
  BY <1>2, PushTyped
<1>4. /\ baks' = [baks EXCEPT ![k] = Push(baks[k], text[k])]
      /\ UNCHANGED <<vars, text, modVars, req, phase, draft>>
  BY DEF MaintenanceCopy
<1>5. EditTypeOK'
  BY <1>1, <1>3, <1>4 DEF EInv, IInv, EditTypeOK, modVars
<1>6. (\A e \in Calls : Syncable(req[e]))'
  BY <1>4 DEF EInv
<1>7. PhaseInv' /\ DraftInv' /\ RemovedInv'
  BY <1>4 DEF EInv, PhaseInv, DraftInv, RemovedInv, vars
<1>8. CopyInv'
  <2> SUFFICES ASSUME NEW e \in Calls, phase[e] = "copied"
               PROVE  1 \in DOMAIN baks'[key[e]] /\ baks'[key[e]][1] = text[key[e]]
    BY <1>4 DEF CopyInv, vars
  <2>1. CASE key[e] = k
    <3>1. baks'[k] = Push(baks[k], text[k])
      BY <1>4 DEF EInv, EditTypeOK
    <3>2. QED
      BY <1>3, <2>1, <3>1
  <2>2. CASE key[e] # k
    <3>1. key[e] \in Keys
      BY DEF EInv, EditTypeOK, TypeOK
    <3>2. baks'[key[e]] = baks[key[e]]
      BY <1>4, <2>2, <3>1 DEF EInv, EditTypeOK
    <3>3. QED
      BY <3>2 DEF EInv, CopyInv
  <2>3. QED
    BY <2>1, <2>2
<1>9. QED
  BY <1>1, <1>5, <1>6, <1>7, <1>8 DEF EInv

LEMMA DownloadStep ==
  ASSUME EInv, NEW k \in Keys, Download(k)
  PROVE  EInv'
<1>1. IInv'
  BY DEF EInv, Download, vars, IInv, TypeOK, ChainInv, NumberInv, TailInv, QueueInv,
     PriorInv, PastInv, Made, Through
<1>2. PICK w \in text[k].items \ disk : disk' = disk \cup {w}
  BY DEF Download
<1>3. w \in Items
  BY <1>2 DEF EInv, EditTypeOK, Text
<1>4. UNCHANGED <<vars, text, baks, ignored, tracked, req, phase, draft>>
  BY DEF Download
<1>5. EditTypeOK'
  BY <1>1, <1>2, <1>3, <1>4 DEF EInv, IInv, EditTypeOK
<1>6. (\A e \in Calls : Syncable(req[e]))' /\ PhaseInv' /\ DraftInv' /\ CopyInv' /\ RemovedInv'
  BY <1>4 DEF EInv, PhaseInv, DraftInv, CopyInv, RemovedInv, vars
<1>7. QED
  BY <1>1, <1>5, <1>6 DEF EInv

LEMMA UntrackStep ==
  ASSUME EInv, NEW k \in Keys, Untrack(k)
  PROVE  EInv'
<1>1. IInv'
  BY DEF EInv, Untrack, vars, IInv, TypeOK, ChainInv, NumberInv, TailInv, QueueInv,
     PriorInv, PastInv, Made, Through
<1>2. PICK w \in Untracks : /\ ignored' = [ignored EXCEPT ![k] = @ \cup {w}]
                            /\ tracked' = [tracked EXCEPT ![k] = @ \ {w}]
  BY DEF Untrack
<1>3. w \in Items
  BY EditsAssumption
<1>4. UNCHANGED <<vars, text, baks, disk, req, phase, draft>>
  BY DEF Untrack
<1>5. EditTypeOK'
  BY <1>1, <1>2, <1>3, <1>4 DEF EInv, IInv, EditTypeOK
<1>6. (\A e \in Calls : Syncable(req[e]))' /\ PhaseInv' /\ DraftInv' /\ CopyInv' /\ RemovedInv'
  BY <1>4 DEF EInv, PhaseInv, DraftInv, CopyInv, RemovedInv, vars
<1>7. QED
  BY <1>1, <1>5, <1>6 DEF EInv

LEMMA OthersDeleteStep ==
  ASSUME EInv, OthersDelete
  PROVE  EInv'
<1>1. IInv'
  BY DEF EInv, OthersDelete, vars, IInv, TypeOK, ChainInv, NumberInv, TailInv, QueueInv,
     PriorInv, PastInv, Made, Through
<1>2. disk' \subseteq disk /\ UNCHANGED <<vars, text, baks, ignored, tracked, req, phase, draft>>
  BY DEF OthersDelete
<1>3. EditTypeOK'
  BY <1>1, <1>2 DEF EInv, IInv, EditTypeOK
<1>4. (\A e \in Calls : Syncable(req[e]))' /\ PhaseInv' /\ DraftInv' /\ CopyInv' /\ RemovedInv'
  BY <1>2 DEF EInv, PhaseInv, DraftInv, CopyInv, RemovedInv, vars
<1>5. QED
  BY <1>1, <1>3, <1>4 DEF EInv

LEMMA EditNextInv ==
  ASSUME EInv, [EditNext]_allVars
  PROVE  EInv'
<1>1. CASE UNCHANGED allVars
  BY <1>1 DEF allVars, editVars, modVars, vars, EInv, IInv, TypeOK, ChainInv, NumberInv,
     TailInv, QueueInv, PriorInv, PastInv, Made, Through, EditTypeOK, PhaseInv, DraftInv,
     CopyInv, RemovedInv
<1>2. ASSUME NEW c \in Calls, Look(c) \/ Submit(c) \/ Runs(c)
      PROVE  EInv'
  BY <1>2, LookStep, SubmitStep, EnterStep, CopyStep, WriteStep, LeaveStep, TidyStep,
     LockEndsStep DEF Runs
<1>3. ASSUME NEW k \in Keys, MaintenanceCopy(k) \/ Download(k) \/ Untrack(k)
      PROVE  EInv'
  BY <1>3, MaintenanceCopyStep, DownloadStep, UntrackStep
<1>4. QED
  BY <1>1, <1>2, <1>3, OthersDeleteStep DEF EditNext

-----------------------------------------------------------------------------
(* What follows.                                                           *)

LEMMA EditInvariant == EditSpec => []EInv
<1>1. EditInit => EInv
  BY EditInitInv
<1>2. EInv /\ [EditNext]_allVars => EInv'
  BY EditNextInv
<1>3. QED
  BY <1>1, <1>2, PTL DEF EditSpec

\* The types of the model of the settings requests (mods.ts, serverFiles.ts).
THEOREM EditTypeCorrect == EditSpec => []EditTypeOK
<1>1. EInv => EditTypeOK
  BY DEF EInv
<1>2. QED
  BY <1>1, EditInvariant, PTL

\* One edit of a file at a time, in the order they were asked for, whatever the
\* edits are (withIniLock of mods.ts).
THEOREM EditorsExclude == EditSpec => []OneWriterInOrder
<1>1. EInv => OneWriterInOrder
  BY DEF EInv, IInv, ChainInv, PastInv, OneWriterInOrder, Waiting, Through
<1>2. QED
  BY <1>1, EditInvariant, PTL

\* Only a write changes a text.
LEMMA OnlyWritesChange ==
  ASSUME EInv, [EditNext]_allVars
  PROVE  text' = text \/ \E c \in Calls : Write(c)
BY DEF EditNext, Look, Submit, Queue, Runs, Enter, Copy, Leave, Tidy, LockEnds,
   MaintenanceCopy, Download, Untrack, OthersDelete, editVars, allVars

\* Whoever overwrites a version of a file has a copy of it, or has tried to make
\* one and failed, or sets a key of the panel's own (createBackup in
\* writeIniWithBackup).
THEOREM VersionsAreKept == EditSpec => OverwrittenIsKept
<1>1. ASSUME EInv, [EditNext]_allVars, NEW k \in Keys, text'[k] # text[k]
      PROVE  \/ \E i \in DOMAIN baks[k] : baks[k][i] = text[k]
             \/ \E c \in Calls : phase[c] = "bare" /\ key[c] = k
  <2>1. PICK c \in Calls : Write(c)
    BY <1>1, OnlyWritesChange
  <2>2. /\ phase[c] \in {"copied", "bare"}
        /\ text' = [text EXCEPT ![key[c]] = draft[c]]
    BY <2>1 DEF Write
  <2>3. key[c] = k
    BY <1>1, <2>2 DEF EInv, EditTypeOK
  <2>4. QED
    BY <1>1, <2>2, <2>3 DEF EInv, CopyInv
<1>2. EInv /\ [EditNext]_allVars =>
        [\A k \in Keys : text'[k] # text[k] =>
           \/ \E i \in DOMAIN baks[k] : baks[k][i] = text[k]
           \/ \E c \in Calls : phase[c] = "bare" /\ key[c] = k]_allVars
  BY <1>1
<1>3. QED
  BY <1>2, EditInvariant, PTL DEF EditSpec, OverwrittenIsKept

\* What a removal adds to the ignore list or takes from the disk is not listed.
LEMMA TidyRemovesUnlisted ==
  ASSUME EInv, NEW c \in Calls, Tidy(c)
  PROVE  ((ignored'[key[c]] \ ignored[key[c]]) \cup (disk \ disk')) \cap text[key[c]].items = {}
<1> DEFINE k == key[c]
<1>1. /\ k \in Keys
      /\ RemoveFolders(c)
      /\ UpdateLists(c, k)
      /\ req[c].kind \in Tidies
      /\ req[c].kind \in Removals => req[c].items \cap text[k].items = {}
  BY DEF EInv, EditTypeOK, TypeOK, Tidy, RemovedInv
<1>2. ignored \in [Keys -> SUBSET Items]
  BY DEF EInv, EditTypeOK
<1>3. CASE req[c].kind \in Removals
  <2>1. disk \ disk' \subseteq req[c].items
    BY <1>1 DEF RemoveFolders
  <2>2. ignored'[k] \ ignored[k] \subseteq req[c].items
    BY <1>1, <1>2, <1>3 DEF UpdateLists, Removals
  <2>3. QED
    BY <1>1, <1>3, <2>1, <2>2
<1>4. CASE req[c].kind \in {"advanced", "enable"}
  <2>1. disk' = disk
    BY <1>1, <1>4 DEF RemoveFolders
  <2>2. ignored'[k] \subseteq ignored[k]
    BY <1>1, <1>2, <1>4 DEF UpdateLists
  <2>3. QED
    BY <2>1, <2>2
<1>5. QED
  BY <1>1, <1>3, <1>4 DEF Tidies, Removals

\* Only a call's own step takes it from "written", and that step is Tidy.
LEMMA WrittenTidies ==
  ASSUME EInv, [EditNext]_allVars, NEW c \in Calls, phase[c] = "written", phase'[c] = "over"
  PROVE  Tidy(c)
<1>1. phase \in [Calls -> Phases]
  BY DEF EInv, EditTypeOK
<1>2. PICK e \in Calls : Look(e) \/ Submit(e) \/ Runs(e)
  BY DEF EditNext, MaintenanceCopy, Download, Untrack, OthersDelete, editVars, allVars
<1>3. CASE e # c
  BY <1>1, <1>2, <1>3 DEF Look, Submit, Queue, Runs, Enter, Copy, Write, Leave, Tidy, LockEnds,
     Goto, Over, editVars
<1>4. CASE e = c
  BY <1>1, <1>2, <1>4 DEF Look, Submit, Queue, Runs, Enter, Copy, Write, Leave, LockEnds,
     Goto, Over, Run, Move, Drafting, EInv, PhaseInv, editVars
<1>5. QED
  BY <1>3, <1>4

\* A removal ignores an item, and deletes its folder, only while the ini that was
\* edited does not list it (the order of the edit and of what follows it in
\* /batch-remove, /delete-disk-mod, /purge and /batch-delete-disk-mods).
THEOREM RemovalsFollowTheEdit == EditSpec => RemovedMeansUnlisted
<1>1. ASSUME EInv, [EditNext]_allVars, NEW c \in Calls, phase[c] = "written", phase'[c] = "over"
      PROVE  ((ignored'[key[c]] \ ignored[key[c]]) \cup (disk \ disk'))
               \cap text[key[c]].items = {}
  BY <1>1, WrittenTidies, TidyRemovesUnlisted
<1>2. EInv /\ [EditNext]_allVars =>
        [\A c \in Calls : phase[c] = "written" /\ phase'[c] = "over" =>
           ((ignored'[key[c]] \ ignored[key[c]]) \cup (disk \ disk'))
             \cap text[key[c]].items = {}]_allVars
  BY <1>1
<1>3. QED
  BY <1>2, EditInvariant, PTL DEF EditSpec, RemovedMeansUnlisted

-----------------------------------------------------------------------------
(* The refinement.                                                         *)

Waits(p) == p \in {"asked", "void"} \cup Drafting
Asked == [c \in Calls |-> CASE phase[c] \in {"none", "looked"} -> Unasked
                             [] phase[c] \in {"written", "over"} -> Answered
                             [] OTHER -> req[c]]

LEMMA AskedIs ==
  ASSUME EInv, NEW c \in Calls
  PROVE  /\ phase[c] \in {"none", "looked"} => Asked[c] = Unasked
         /\ phase[c] \in {"written", "over"} => Asked[c] = Answered
         /\ Waits(phase[c]) => Asked[c] = req[c]
         /\ Asked[c] \in Request <=> Waits(phase[c])
<1>1. /\ phase[c] \in {"none", "looked"} => Asked[c] = Unasked
      /\ phase[c] \in {"written", "over"} => Asked[c] = Answered
      /\ Waits(phase[c]) => Asked[c] = req[c]
  BY DEF Asked, Waits, Drafting
<1>2. Unasked \notin Request /\ Answered \notin Request
  BY DEF Unasked, Answered, Nothing, Request, Kinds
<1>3. req[c] \in Request /\ phase[c] \in Phases
  BY DEF EInv, EditTypeOK
<1>4. QED
  BY <1>1, <1>2, <1>3 DEF Waits, Drafting, Phases

LEMMA AskRefined ==
  ASSUME EInv, NEW c \in Calls, Submit(c)
  PROVE  Atomic!Ask(c)
<1>1. PICK r \in Request : Queue(c, r)
  <2>1. CASE phase[c] = "looked"
    BY <2>1 DEF Submit, EInv, EditTypeOK
  <2>2. CASE phase[c] = "none"
    <3>1. PICK m \in Menu[c] : Queue(c, Prepared(m, disk, ignored[key[c]]))
      BY <2>2 DEF Submit
    <3>2. /\ m \in Request
          /\ disk \in SUBSET Items
          /\ ignored[key[c]] \in SUBSET Items
      BY EditsAssumption DEF EInv, EditTypeOK, TypeOK
    <3>3. QED
      BY <3>1, <3>2, PreparedTyped
  <2>3. QED
    BY <2>1, <2>2 DEF Submit
<1>2. /\ phase[c] \in {"none", "looked"}
      /\ req' = [req EXCEPT ![c] = r]
      /\ phase' = [phase EXCEPT ![c] = "asked"]
      /\ UNCHANGED <<key, text>>
  BY <1>1 DEF Queue, Lock, Move, Goto, Submit
<1>3. Asked[c] = Unasked
  BY <1>2, AskedIs
<1>4. Asked' = [Asked EXCEPT ![c] = r] /\ Asked'[c] = r
  BY <1>2 DEF Asked, EInv, EditTypeOK
<1>5. QED
  BY <1>1, <1>2, <1>3, <1>4 DEF Atomic!Ask, Asked

\* Whoever writes or leaves is the first of those that wait for its file.
LEMMA ServedRefined ==
  ASSUME EInv, NEW c \in Calls, phase[c] \in {"void"} \cup Drafting,
         \/ phase' = [phase EXCEPT ![c] = "written"] /\ req' = req
         \/ phase' = [phase EXCEPT ![c] = "over"] /\ req' = [req EXCEPT ![c] = Nothing],
         UNCHANGED key
  PROVE  Atomic!Served(c)
<1>1. state[c] = "running" /\ Waits(phase[c])
  BY DEF EInv, PhaseInv, Drafting, Waits
<1>2. Asked[c] \in Request
  BY <1>1, AskedIs
<1>3. Asked' = [Asked EXCEPT ![c] = Answered]
  BY DEF Asked, EInv, EditTypeOK
<1>4. ASSUME NEW b \in Calls, b < c, Asked[b] \in Request, key[b] = key[c]
      PROVE  FALSE
  <2>1. Waits(phase[b])
    BY <1>4, AskedIs
  <2>2. state[b] \in {"queued", "running"}
    BY <2>1 DEF EInv, PhaseInv, Drafting, Waits
  <2>3. Through(b)
    BY <1>1, <1>4 DEF EInv, IInv, ChainInv, PastInv
  <2>4. QED
    BY <2>2, <2>3 DEF Through
<1>5. QED
  BY <1>2, <1>3, <1>4 DEF Atomic!Served, Asked

LEMMA ApplyRefined ==
  ASSUME EInv, NEW c \in Calls, Write(c)
  PROVE  Atomic!Apply(c)
<1>1. Atomic!Served(c)
  BY ServedRefined DEF Write, Goto, Over, Return, Move, Drafting
<1>2. PICK d \in SUBSET Items : draft[c] = Edited(req[c], text[key[c]], d)
  BY DEF Write, EInv, DraftInv, Drafting
<1>3. Asked[c] = req[c]
  BY AskedIs DEF Write, Waits, Drafting
<1>4. text' = [text EXCEPT ![key[c]] = Edited(Asked[c], text[key[c]], d)]
  BY <1>2, <1>3 DEF Write
<1>5. QED
  BY <1>1, <1>4 DEF Atomic!Apply, Asked

LEMMA RefuseRefined ==
  ASSUME EInv, NEW c \in Calls, Leave(c)
  PROVE  Atomic!Refuse(c)
<1>1. Atomic!Served(c)
  BY ServedRefined DEF Leave, Goto, Over, Return, Move
<1>2. QED
  BY <1>1 DEF Leave, Atomic!Refuse

LEMMA StutterRefined ==
  ASSUME EInv,
         \/ UNCHANGED allVars
         \/ \E c \in Calls : Look(c) \/ Enter(c) \/ Copy(c) \/ Tidy(c) \/ LockEnds(c)
         \/ \E k \in Keys : MaintenanceCopy(k) \/ Download(k) \/ Untrack(k)
         \/ OthersDelete
  PROVE  UNCHANGED Atomic!vars
<1>1. CASE UNCHANGED <<key, text, req, phase>>
  BY <1>1 DEF Atomic!vars
<1>2. ASSUME NEW c \in Calls, Look(c)
      PROVE  UNCHANGED Atomic!vars
  <2>1. /\ key' = key /\ text' = text
        /\ phase[c] = "none"
        /\ phase' = [phase EXCEPT ![c] = "looked"]
        /\ \A e \in Calls : e # c => req'[e] = req[e]
    BY <1>2 DEF Look, Goto, vars, EInv, EditTypeOK
  <2>2. Asked' = Asked
    BY <2>1 DEF Asked, EInv, EditTypeOK
  <2>3. QED
    BY <2>1, <2>2 DEF Atomic!vars, Asked
<1>3. ASSUME NEW c \in Calls, Enter(c)
      PROVE  UNCHANGED Atomic!vars
  <2>1. /\ phase[c] = "asked"
        /\ phase' \in {[phase EXCEPT ![c] = "read"], [phase EXCEPT ![c] = "bare"],
                       [phase EXCEPT ![c] = "void"]}
        /\ UNCHANGED <<key, text, req>>
    BY <1>3 DEF Enter, First, Run, Move, Goto, EInv, PhaseInv
  <2>2. Asked' = Asked
    BY <2>1 DEF Asked, EInv, EditTypeOK
  <2>3. QED
    BY <2>1, <2>2 DEF Atomic!vars, Asked
<1>4. ASSUME NEW c \in Calls, Copy(c)
      PROVE  UNCHANGED Atomic!vars
  <2>1. /\ phase[c] = "read"
        /\ phase' \in {[phase EXCEPT ![c] = "copied"], [phase EXCEPT ![c] = "bare"]}
        /\ UNCHANGED <<key, text, req>>
    BY <1>4 DEF Copy, Goto, vars
  <2>2. Asked' = Asked
    BY <2>1 DEF Asked, EInv, EditTypeOK
  <2>3. QED
    BY <2>1, <2>2 DEF Atomic!vars, Asked
<1>5. ASSUME NEW c \in Calls, Tidy(c)
      PROVE  UNCHANGED Atomic!vars
  <2>1. /\ phase[c] = "written"
        /\ phase' = [phase EXCEPT ![c] = "over"]
        /\ req' = [req EXCEPT ![c] = Nothing]
        /\ UNCHANGED <<key, text>>
    BY <1>5 DEF Tidy, Goto, Over, vars
  <2>2. Asked' = Asked
    BY <2>1 DEF Asked, EInv, EditTypeOK
  <2>3. QED
    BY <2>1, <2>2 DEF Atomic!vars, Asked
<1>6. ASSUME NEW c \in Calls, LockEnds(c)
      PROVE  UNCHANGED <<key, text, req, phase>>
  BY <1>6 DEF LockEnds, Settle, Forget, Move, editVars
<1>7. ASSUME NEW k \in Keys, MaintenanceCopy(k) \/ Download(k) \/ Untrack(k)
      PROVE  UNCHANGED <<key, text, req, phase>>
  BY <1>7 DEF MaintenanceCopy, Download, Untrack, vars
<1>8. QED
  BY <1>1, <1>2, <1>3, <1>4, <1>5, <1>6, <1>7 DEF allVars, vars, editVars, OthersDelete

\* Overlapping edits, with copies, failures and refusals between their steps, are
\* atomic and first-in first-out (withFileLock around the read and the write).
THEOREM EditsAreAtomic == EditSpec => ImplementsAtomicEdits
<1>1. EditInit => Atomic!Init
  <2> SUFFICES ASSUME EditInit PROVE Atomic!Init
    OBVIOUS
  <2>1. EInv
    BY EditInitInv
  <2>2. text \in [Keys -> Text] /\ key \in [Calls -> Keys]
    BY <2>1 DEF EInv, EditTypeOK, TypeOK
  <2>3. QED
    BY <2>2 DEF EditInit, Init, Atomic!Init, Drafting
<1>2. EInv /\ [EditNext]_allVars => [Atomic!Next]_(Atomic!vars)
  <2> SUFFICES ASSUME EInv, [EditNext]_allVars
               PROVE  Atomic!Next \/ UNCHANGED Atomic!vars
    OBVIOUS
  <2>1. CASE \E c \in Calls : Submit(c) \/ Write(c) \/ Leave(c)
    BY <2>1, AskRefined, ApplyRefined, RefuseRefined DEF Atomic!Next
  <2>2. CASE \/ UNCHANGED allVars
             \/ \E c \in Calls : Look(c) \/ Enter(c) \/ Copy(c) \/ Tidy(c) \/ LockEnds(c)
             \/ \E k \in Keys : MaintenanceCopy(k) \/ Download(k) \/ Untrack(k)
             \/ OthersDelete
    BY <2>2, StutterRefined
  <2>3. QED
    BY <2>1, <2>2 DEF EditNext, Runs
<1>3. QED
  BY <1>1, <1>2, EditInvariant, PTL DEF EditSpec, ImplementsAtomicEdits, Atomic!Spec
=============================================================================
