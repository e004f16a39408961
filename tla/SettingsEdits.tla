----------------------------- MODULE SettingsEdits -----------------------------
(***************************************************************************)
(* The requests that edit ini files, composed of the file lock and of the  *)
(* pure edits: each is prepared, queues at the lock, reads the text,       *)
(* copies the file to a .bak, writes, and tidies up after a removal.       *)
(*                                                                         *)
(* One action is the code between two awaits.  Awaits of the synchronous   *)
(* database and of resolved promises are microtasks: they go before any    *)
(* answer of the file system, which `Quiet' says.  Nobody else writes the  *)
(* files here: the game does while it runs, and so does the restore of a   *)
(* backup; neither takes the lock.                                         *)
(***************************************************************************)
EXTENDS FileLock, IniEdits, Sequences

CONSTANTS Menu,     \* the requests each call may make, a bound
          Starts,   \* the contents and folders to begin with, a bound
          Shared,   \* items that a server without a file here deletes, a bound
          Untracks, \* items that are untracked from the list, a bound
          Keep      \* the copies of a file that are kept, 10 in configBackup.ts

ASSUME EditsAssumption ==
  /\ Menu \in [Calls -> SUBSET Request]
  /\ Starts \subseteq Text \X SUBSET Items
  /\ Shared \subseteq Items /\ Untracks \subseteq Items
  /\ Keep \in Nat \ {0}

VARIABLES text,     \* of each ini file
          baks,     \* its copies in backups/, the newest first
          disk,     \* the items whose folder is found: installs share them
          ignored,  \* the server's rows of ignored_mods
          tracked,  \* and of tracked_mods
          req,      \* the request of each call
          phase,    \* how far it is
          draft     \* the content it is going to write

editVars == <<text, baks, disk, ignored, tracked, req, phase, draft>>
allVars == <<vars, editVars>>
modVars == <<disk, ignored, tracked>>

\* "bare" is about to write without a copy, "void" about to leave.
Phases == {"none", "looked", "asked", "read", "copied", "bare", "void", "written", "over"}
Drafting == {"read", "copied", "bare"}

Nothing == [kind |-> "restore", items |-> {}, bare |-> {}, mods |-> {}, off |-> {},
            maps |-> {}, secret |-> Missing, lines |-> {}]
NoText == [items |-> {}, mods |-> {}, maps |-> {}, secret |-> Missing]

EditTypeOK ==
  /\ TypeOK
  /\ text \in [Keys -> Text]
  /\ baks \in [Keys -> Seq(Text)]
  /\ disk \in SUBSET Items
  /\ ignored \in [Keys -> SUBSET Items]
  /\ tracked \in [Keys -> SUBSET Items]
  /\ req \in [Calls -> Request]
  /\ phase \in [Calls -> Phases]
  /\ draft \in [Calls -> Text \cup {NoText}]

EditInit ==
  /\ Init
  /\ \E start \in [Keys -> Starts] : /\ text = [k \in Keys |-> start[k][1]]
                                     /\ disk = UNION {start[k][2] : k \in Keys}
  /\ baks = [k \in Keys |-> << >>]
  /\ ignored = [k \in Keys |-> {}]
  /\ tracked = [k \in Keys |-> {}]
  /\ req = [c \in Calls |-> Nothing]
  /\ phase = [c \in Calls |-> "none"]
  /\ draft = [c \in Calls |-> NoText]

Goto(c, p) == phase' = [phase EXCEPT ![c] = p]

\* The handler is through: its request is forgotten.
Over(c) == Goto(c, "over") /\ req' = [req EXCEPT ![c] = Nothing]

\* No microtask is waiting: no call is between its lock and its first await,
\* or between the end of its fn and the end of its handler.
Quiet ==
  \A c \in Calls : /\ state[c] \notin {"done", "settled"}
                   /\ state[c] = "queued" => ~ Resolved(prior[c])

\* The new copy and as many of the others as are kept.  (The deletion of an
\* old one does not fail here.)
Push(b, t) ==
  [i \in 1..(IF Len(b) < Keep THEN Len(b) + 1 ELSE Keep) |-> IF i = 1 THEN t ELSE b[i - 1]]

-----------------------------------------------------------------------------
(* Before the lock.                                                        *)

\* What /sync-mod-ids reads of the ini before it asks Steam, which answers for
\* some of the items that are not on the disk.
SyncRequest(k, answered) ==
  LET missing == text[k].items \ disk IN
  [Nothing EXCEPT !.kind = "sync",
                  !.items = {w \in text[k].items \cap disk : ModsOf[w] # {}},
                  !.mods = {FirstMod[w] : w \in {v \in missing \cap answered : ModsOf[v] # {}}}]

\* What POST /restore reads of the copy it was given.
RestoreRequest(t) ==
  [Nothing EXCEPT !.items = t.items, !.mods = t.mods, !.maps = t.maps, !.secret = t.secret]

Look(c) ==
  /\ Quiet
  /\ state[c] = "new"
  /\ phase[c] = "none"
  /\ \E asked \in Menu[c] :
       \/ /\ asked.kind = "sync"
          /\ \E answered \in SUBSET Items :
               req' = [req EXCEPT ![c] = SyncRequest(key[c], answered)]
       \/ /\ asked.kind = "restore"
          /\ \E i \in DOMAIN baks[key[c]] :
               req' = [req EXCEPT ![c] = RestoreRequest(baks[key[c]][i])]
  /\ Goto(c, "looked")
  /\ UNCHANGED <<vars, text, baks, modVars, draft>>

Queue(c, r) ==
  /\ Lock(c)
  /\ req' = [req EXCEPT ![c] = r]
  /\ Goto(c, "asked")
  /\ UNCHANGED <<text, baks, modVars, draft>>

\* The disk and the ignore list are read in the turn that takes the lock.
Submit(c) ==
  /\ Quiet
  /\ \/ phase[c] = "looked" /\ Queue(c, req[c])
     \/ /\ phase[c] = "none"
        /\ \E r \in Menu[c] :
             /\ r.kind \notin {"sync", "restore"}
             /\ Queue(c, Prepared(r, disk, ignored[key[c]]))

-----------------------------------------------------------------------------
(* Under the lock.                                                         *)

\* Keys are set in one turn, without a copy.
First(c) == IF req[c].kind = "keys" THEN "bare" ELSE "read"

\* Mutant of Enter: fn does not wait for its turn.
EnterEarly(c) ==
  /\ state[c] = "queued"
  /\ state' = [state EXCEPT ![c] = "running"]
  /\ Goto(c, First(c))
  /\ draft' = [draft EXCEPT ![c] = Edited(req[c], text[key[c]], disk)]
  /\ UNCHANGED <<count, key, prior, failed, fileLocks, text, baks, modVars, req>>

\* fn begins: it reads the file and computes what to write.
Enter(c) ==
  LET k == key[c] IN
  /\ Run(c)
  /\ IF Writes(req[c], text[k], disk)
       THEN /\ Goto(c, First(c))
            /\ draft' = [draft EXCEPT ![c] = Edited(req[c], text[k], disk)]
       ELSE Goto(c, "void") /\ UNCHANGED draft
  /\ UNCHANGED <<text, baks, modVars, req>>

\* Mutant of Copy: the copy is made of what is about to be written.
CopyDraft(c) ==
  /\ Quiet
  /\ phase[c] = "read"
  /\ Goto(c, "copied") /\ baks' = [baks EXCEPT ![key[c]] = Push(@, draft[c])]
  /\ UNCHANGED <<vars, text, modVars, req, draft>>

\* createBackup; if it fails the write goes on, with a warning (none when the
\* file could not be reached).
Copy(c) ==
  /\ Quiet
  /\ phase[c] = "read"
  /\ \/ Goto(c, "copied") /\ baks' = [baks EXCEPT ![key[c]] = Push(@, text[key[c]])]
     \/ Goto(c, "bare") /\ UNCHANGED baks
  /\ UNCHANGED <<vars, text, modVars, req, draft>>

\* Requests whose handler goes on after the edit.
Tidies == {"advanced", "enable", "batchRemove", "delete", "batchDelete"}

\* writeFileAtomic, and the end of fn.  A form is compared with what is on the
\* disk then, and may be refused after all.
Write(c) ==
  /\ Quiet
  /\ phase[c] \in {"copied", "bare"}
  /\ Return(c)
  /\ failed'[c] => req[c].kind = "form"
  /\ text' = [text EXCEPT ![key[c]] = draft[c]]
  /\ draft' = [draft EXCEPT ![c] = NoText]
  /\ IF req[c].kind \in Tidies THEN Goto(c, "written") /\ UNCHANGED req ELSE Over(c)
  /\ UNCHANGED <<baks, modVars>>

\* Mutant of Leave: the handler goes on after a write that failed.
LeaveBlindly(c) ==
  /\ Return(c)
  /\ \/ phase[c] = "void" /\ UNCHANGED failed
     \/ Quiet /\ phase[c] \in Drafting /\ failed'[c]
  /\ draft' = [draft EXCEPT ![c] = NoText]
  /\ IF req[c].kind \in Tidies THEN Goto(c, "written") /\ UNCHANGED req ELSE Over(c)
  /\ UNCHANGED <<text, baks, modVars>>

\* Nothing was to be written, or reading or writing failed.
Leave(c) ==
  /\ Return(c)
  /\ \/ phase[c] = "void" /\ UNCHANGED failed
     \/ Quiet /\ phase[c] \in Drafting /\ failed'[c]
  /\ draft' = [draft EXCEPT ![c] = NoText]
  /\ Over(c)
  /\ UNCHANGED <<text, baks, modVars>>

-----------------------------------------------------------------------------
(* After it.                                                               *)

\* The folders of deleted items go, those that can be removed, also where
\* other servers use them.
RemoveFolders(c) ==
  \E gone \in SUBSET req[c].items :
    /\ req[c].kind \notin {"delete", "batchDelete"} => gone = {}
    /\ disk' = disk \ gone

\* The two lists in the database.
UpdateLists(c, k) ==
  LET W == req[c].items IN
  IF req[c].kind \in {"advanced", "enable"}
    THEN /\ ignored' = [ignored EXCEPT ![k] = @ \ W]
         /\ tracked' = [tracked EXCEPT ![k] = IF req[c].kind = "advanced" THEN @ \cup W ELSE @]
    ELSE /\ ignored' = [ignored EXCEPT ![k] = @ \cup W]
         /\ tracked' = [tracked EXCEPT ![k] = @ \ W]

\* The handler goes on, before the next call for the file begins.
Tidy(c) ==
  /\ state[c] = "done"
  /\ phase[c] = "written"
  /\ RemoveFolders(c)
  /\ UpdateLists(c, key[c])
  /\ Over(c)
  /\ UNCHANGED <<vars, text, baks, draft>>

LockEnds(c) ==
  /\ \/ Settle(c) /\ phase[c] = "over"
     \/ Forget(c)
  /\ UNCHANGED editVars

-----------------------------------------------------------------------------
(* Around them.                                                            *)

\* createBackupIfChanged of a maintenance run, which takes no lock.
MaintenanceCopy(k) ==
  /\ Quiet
  /\ baks[k] # << >> => baks[k][1] # text[k]
  /\ baks' = [baks EXCEPT ![k] = Push(@, text[k])]
  /\ UNCHANGED <<vars, text, modVars, req, phase, draft>>

\* The game downloads what its ini lists.
Download(k) ==
  /\ Quiet
  /\ \E w \in text[k].items \ disk : disk' = disk \cup {w}
  /\ UNCHANGED <<vars, text, baks, ignored, tracked, req, phase, draft>>

\* Another server of the install deletes a folder.
OthersDelete ==
  /\ Quiet
  /\ \E w \in disk \cap Shared : disk' = disk \ {w}
  /\ UNCHANGED <<vars, text, baks, ignored, tracked, req, phase, draft>>

\* DELETE /track/:workshopId, whether the ini lists the item or not
Untrack(k) ==
  /\ Quiet
  /\ \E w \in Untracks : /\ ignored' = [ignored EXCEPT ![k] = @ \cup {w}]
                         /\ tracked' = [tracked EXCEPT ![k] = @ \ {w}]
  /\ UNCHANGED <<vars, text, baks, disk, req, phase, draft>>

Runs(c) == Enter(c) \/ Copy(c) \/ Write(c) \/ Leave(c) \/ Tidy(c) \/ LockEnds(c)

EditNext ==
  \/ \E c \in Calls : Look(c) \/ Submit(c) \/ Runs(c)
  \/ \E k \in Keys : MaintenanceCopy(k) \/ Download(k) \/ Untrack(k)
  \/ OthersDelete

EditSpec == EditInit /\ [][EditNext]_allVars

\* The event loop runs what is ready, and the file system answers.
FairEditSpec == EditSpec /\ \A c \in Calls : WF_allVars(Runs(c))

-----------------------------------------------------------------------------
Unasked == [Nothing EXCEPT !.kind = "unasked"]
Answered == [Nothing EXCEPT !.kind = "answered"]

Atomic == INSTANCE AtomicEdits WITH
  asked <- [c \in Calls |-> CASE phase[c] \in {"none", "looked"} -> Unasked
                              [] phase[c] \in {"written", "over"} -> Answered
                              [] OTHER -> req[c]],
  Disks <- SUBSET Items

\* Editors that overlap, with copies, failures and refusals between their
\* steps, together do what serving them one after the other would: no edit
\* undoes another one it did not see (withFileLock around read and write).
ImplementsAtomicEdits == Atomic!Spec

\* A version of a file is overwritten only when a copy of it is kept, the copy
\* was tried and failed, or a key was set by the panel itself.
OverwrittenIsKept ==
  [][\A k \in Keys : text'[k] # text[k] =>
       \/ \E i \in DOMAIN baks[k] : baks[k][i] = text[k]
       \/ \E c \in Calls : phase[c] = "bare" /\ key[c] = k]_allVars

\* A removal that edits an ini ignores a mod, and deletes its folder, only while
\* that ini does not list it: one whose edit failed leaves both alone, and no
\* editor brings the item back between the edit and what follows it.  (The
\* folders are shared: the ini of another server may list the item still.)
RemovedMeansUnlisted ==
  [][\A c \in Calls : phase[c] = "written" /\ phase'[c] = "over" =>
       ((ignored'[key[c]] \ ignored[key[c]]) \cup (disk \ disk'))
         \cap text[key[c]].items = {}]_allVars
=============================================================================
