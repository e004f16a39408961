-------------------------------- MODULE PidLock --------------------------------
(***************************************************************************)
(* utils/pidLock.ts: the lock file of the panel (panel.lock) and of its    *)
(* supervisor, claimed at start and removed at exit.  A process is its pid *)
(* here; a pid may come back after its process has died.  Each system call *)
(* is a step: other processes run between them.  An exclusive creation     *)
(* makes the file, a second call writes the pid into it.                   *)
(***************************************************************************)
EXTENDS Naturals

CONSTANTS Pids,
          NoPid,  \* the text of an empty or unreadable lock file
          Serial  \* a claim begins only when no other one is being made

ASSUME PidAssumption == NoPid \notin Pids /\ Serial \in BOOLEAN

VARIABLES file,    \* the lock file: who created it (NoPid: nobody we know), its text
          pc,      \* where each process is in claimLock and releaseLock
          attempt, \* attempts already made
          seen     \* the text it has read

vars == <<file, pc, attempt, seen>>

Texts == Pids \cup {NoPid}
Absent == [exists |-> FALSE, by |-> NoPid, text |-> NoPid]
Claiming == {"create", "write", "read", "check", "unlink"}
Alive(p) == pc[p] # "dead"

TypeOK ==
  /\ file \in [exists: BOOLEAN, by: Texts, text: Texts]
  /\ pc \in [Pids -> Claiming \cup {"dead", "held", "refused", "releasing"}]
  /\ attempt \in [Pids -> 0..2]
  /\ seen \in [Pids -> Texts]

\* Nobody runs; there may be a lock file that a crash or a reboot has left.
Init ==
  /\ file \in {Absent} \cup [exists: {TRUE}, by: {NoPid}, text: Texts]
  /\ pc = [p \in Pids |-> "dead"]
  /\ attempt = [p \in Pids |-> 0]
  /\ seen = [p \in Pids |-> NoPid]

Goto(p, l) == pc' = [pc EXCEPT ![p] = l]

\* The loop is left after its second round.
Again(p) ==
  /\ attempt' = [attempt EXCEPT ![p] = @ + 1]
  /\ Goto(p, IF attempt[p] = 0 THEN "create" ELSE "refused")
  /\ UNCHANGED seen

Spawn(p) ==
  /\ pc[p] = "dead"
  /\ Serial => \A q \in Pids : pc[q] \notin Claiming
  /\ Goto(p, "create")
  /\ attempt' = [attempt EXCEPT ![p] = 0]
  /\ UNCHANGED <<file, seen>>

\* open with the flag wx: it fails when the file exists.
Create(p) ==
  /\ pc[p] = "create"
  /\ IF file.exists THEN Goto(p, "read") /\ UNCHANGED file
     ELSE Goto(p, "write") /\ file' = [exists |-> TRUE, by |-> p, text |-> NoPid]
  /\ UNCHANGED <<attempt, seen>>

\* The text goes to the file that this process has open, linked or not.
Write(p) ==
  /\ pc[p] = "write"
  /\ file' = IF file.exists /\ file.by = p THEN [file EXCEPT !.text = p] ELSE file
  /\ Goto(p, "held")
  /\ UNCHANGED <<attempt, seen>>

Read(p) ==
  /\ pc[p] = "read"
  /\ \/ ~file.exists /\ Again(p)
     \/ /\ file.exists
        /\ seen' = [seen EXCEPT ![p] = file.text]
        /\ Goto(p, "check")
        /\ UNCHANGED attempt
  /\ UNCHANGED file

\* Mutant of Check: a living owner is not looked for.
CheckNotAlive(p) ==
  /\ pc[p] = "check"
  /\ Goto(p, IF seen[p] = p THEN "held" ELSE "unlink")
  /\ UNCHANGED <<file, attempt, seen>>

\* Mutant of Check: any pid in the file counts as a living owner.
CheckNotDead(p) ==
  /\ pc[p] = "check"
  /\ Goto(p, CASE seen[p] = p     -> "held"
               [] seen[p] = NoPid -> "unlink"
               [] OTHER           -> "refused")
  /\ UNCHANGED <<file, attempt, seen>>

\* My own pid: a lock from a former life.  A living owner: refused.
Check(p) ==
  /\ pc[p] = "check"
  /\ Goto(p, CASE seen[p] = p                              -> "held"
               [] seen[p] \in Pids \ {p} /\ Alive(seen[p]) -> "refused"
               [] OTHER                                    -> "unlink")
  /\ UNCHANGED <<file, attempt, seen>>

\* Whatever file is there now goes.
Unlink(p) ==
  /\ pc[p] = "unlink"
  /\ file' = Absent
  /\ Again(p)

\* releaseLock in an exit handler: read, then unlink if it is mine.
Release(p) ==
  /\ pc[p] = "held"
  /\ Goto(p, IF file.exists /\ file.text = p THEN "releasing" ELSE "dead")
  /\ UNCHANGED <<file, attempt, seen>>

Remove(p) ==
  /\ pc[p] = "releasing"
  /\ file' = Absent
  /\ Goto(p, "dead")
  /\ UNCHANGED <<attempt, seen>>

\* It is killed, or ends after a refusal (exit code 78).
Die(p) ==
  /\ pc[p] # "dead"
  /\ Goto(p, "dead")
  /\ UNCHANGED <<file, attempt, seen>>

Step(p) ==
  \/ Create(p) \/ Write(p) \/ Read(p) \/ Check(p) \/ Unlink(p)
  \/ Release(p) \/ Remove(p) \/ Die(p)

Next == \E p \in Pids : Spawn(p) \/ Step(p)

Spec == Init /\ [][Next]_vars

Claim(p) == Create(p) \/ Write(p) \/ Read(p) \/ Check(p) \/ Unlink(p)

\* A process that claims goes on.
FairSpec == Spec /\ \A p \in Pids : WF_vars(Claim(p))

-----------------------------------------------------------------------------
\* At most one living process has been told that the lock is its own, whatever
\* was left behind by crashes.
OneOwner == \A p, q \in Pids : pc[p] = "held" /\ pc[q] = "held" => p = q

\* A stale lock never keeps a panel from starting: who is refused has met a
\* living owner.
RefusedForALivingOwner ==
  [][\A p \in Pids : pc[p] # "refused" /\ pc'[p] = "refused" =>
       \E q \in Pids \ {p} : Alive(q)]_vars

\* The file names the owner, so that the next panel finds it.
OwnerIsOnFile == \A p \in Pids : pc[p] = "held" => file.exists /\ file.text = p

-----------------------------------------------------------------------------
(* Why serial claims are safe, as an inductive invariant.                  *)

OneClaim == \A p, q \in Pids : pc[p] \in Claiming /\ pc[q] \in Claiming => p = q

\* An owner is in the file until it has removed it, and one who writes has
\* just created it.
FileInv ==
  \A p \in Pids :
    /\ pc[p] \in {"held", "releasing"} => file.exists /\ file.text = p
    /\ pc[p] = "write" => file.exists /\ file.text = NoPid /\ file.by = p

\* What a claiming process has read is still true where it matters.
SeenInv ==
  \A p \in Pids :
    /\ pc[p] = "check" =>
         /\ seen[p] = p => file.exists /\ file.text = p
         /\ \A q \in Pids : pc[q] \in {"held", "releasing"} => seen[p] = q
    /\ pc[p] = "unlink" => \A q \in Pids : pc[q] \notin {"held", "releasing"}

\* A claim is in its first or second round, and in the second one nothing is
\* in the way of its file: there is nothing to read a second time.
RoundInv ==
  \A p \in Pids :
    pc[p] \in Claiming =>
      \/ attempt[p] = 0
      \/ attempt[p] = 1 /\ pc[p] = "create" /\ ~file.exists
      \/ attempt[p] = 1 /\ pc[p] = "write"

\* The file, what was read of it and who claims fit together.
ClaimInv == OneClaim /\ FileInv /\ SeenInv /\ RoundInv
=============================================================================
