------------------------------- MODULE FileLock -------------------------------
(***************************************************************************)
(* utils/fileWriteQueue.ts, withFileLock: a map from file to the promise   *)
(* of the last call for it.  A new call chains itself behind that promise  *)
(* and becomes the last one; a finished call removes its own entry, if it  *)
(* is still the last.  Calls are numbered in the order they are made.      *)
(***************************************************************************)
EXTENDS Naturals

CONSTANTS Keys, MaxCalls

ASSUME CallsAssumption == MaxCalls \in Nat

Calls == 1..MaxCalls
None == 0

VARIABLES count,     \* calls made
          key,       \* the file of each call, chosen beforehand
          prior,     \* the promise it waits for, None for Promise.resolve()
          state,     \* "new", "queued", "running", "done", "settled", "gone"
          failed,    \* its fn threw or rejected
          fileLocks  \* the last call for each file, None if not in the map

vars == <<count, key, prior, state, failed, fileLocks>>

States == {"new", "queued", "running", "done", "settled", "gone"}

TypeOK ==
  /\ count \in 0..MaxCalls
  /\ key \in [Calls -> Keys]
  /\ prior \in [Calls -> Calls \cup {None}]
  /\ state \in [Calls -> States]
  /\ failed \in [Calls -> BOOLEAN]
  /\ fileLocks \in [Keys -> Calls \cup {None}]

Init ==
  /\ count = 0
  /\ key \in [Calls -> Keys]
  /\ prior = [c \in Calls |-> None]
  /\ state = [c \in Calls |-> "new"]
  /\ failed = [c \in Calls |-> FALSE]
  /\ fileLocks = [k \in Keys |-> None]

Move(c, from, to) == state[c] = from /\ state' = [state EXCEPT ![c] = to]

\* withFileLock, which never waits itself.
Lock(c) ==
  /\ c = count + 1
  /\ Move(c, "new", "queued")
  /\ count' = c
  /\ prior' = [prior EXCEPT ![c] = fileLocks[key[c]]]
  /\ fileLocks' = [fileLocks EXCEPT ![key[c]] = c]
  /\ UNCHANGED <<key, failed>>

Through(c) == state[c] \in {"settled", "gone"}
Resolved(p) == p \in {None} \cup {c \in Calls : Through(c)}

\* Mutant of Run: prior.then(fn), so that fn is not called after a failure.
RunUnlessFailed(c) ==
  /\ Resolved(prior[c])
  /\ prior[c] \notin {d \in Calls : failed[d]}
  /\ Move(c, "queued", "running")
  /\ UNCHANGED <<count, key, prior, failed, fileLocks>>

\* prior.then(fn, fn)
Run(c) ==
  /\ Resolved(prior[c])
  /\ Move(c, "queued", "running")
  /\ UNCHANGED <<count, key, prior, failed, fileLocks>>

\* The promise of fn is settled; the caller goes on.
Return(c) ==
  /\ Move(c, "running", "done")
  /\ failed' \in {failed, [failed EXCEPT ![c] = TRUE]}
  /\ UNCHANGED <<count, key, prior, fileLocks>>

\* A microtask later, tail is resolved, whatever fn did.
Settle(c) ==
  /\ Move(c, "done", "settled")
  /\ UNCHANGED <<count, key, prior, failed, fileLocks>>

\* Mutant of Forget: the entry of a later call goes too.
ForgetAny(c) ==
  /\ Move(c, "settled", "gone")
  /\ fileLocks' = [fileLocks EXCEPT ![key[c]] = None]
  /\ UNCHANGED <<count, key, prior, failed>>

\* tail.finally
Forget(c) ==
  /\ Move(c, "settled", "gone")
  /\ fileLocks' = IF fileLocks[key[c]] = c
                  THEN [fileLocks EXCEPT ![key[c]] = None] ELSE fileLocks
  /\ UNCHANGED <<count, key, prior, failed>>

Step(c) == Run(c) \/ Return(c) \/ Settle(c) \/ Forget(c)

Next == \E c \in Calls : Lock(c) \/ Step(c)

Spec == Init /\ [][Next]_vars

\* The event loop runs what is ready; every fn ends (a hung file system is
\* not modelled).
FairSpec == Spec /\ \A c \in Calls : WF_vars(Step(c))

-----------------------------------------------------------------------------
\* A call is in its critical section, or before it.
Waiting(c) == state[c] \in {"queued", "running"}

\* For one file, a call runs only when every earlier call has returned: one
\* writer at a time, and in the order of the calls.
OneWriterInOrder ==
  \A c, d \in Calls : c < d /\ key[c] = key[d] /\ state[d] = "running" => ~Waiting(c)

\* The map does not keep entries of finished calls: it does not grow with the
\* number of files ever written.
NoStaleEntry ==
  \A k \in Keys : fileLocks[k] # None => state[fileLocks[k]] # "gone"

\* A failing write does not stop the ones behind it.
EveryCallRuns == \A c \in Calls : state[c] = "queued" ~> state[c] = "running"

-----------------------------------------------------------------------------
(* Why it works, as an inductive invariant.                                *)

Made(c, k) == c <= count /\ key[c] = k

NumberInv == \A c \in Calls : c > count <=> state[c] = "new"

\* The entry of a file is its last call; it is missing when all are through.
TailInv ==
  \A k \in Keys :
    IF fileLocks[k] = None THEN \A c \in Calls : Made(c, k) => Through(c)
    ELSE /\ Made(fileLocks[k], k)
         /\ \A c \in Calls : Made(c, k) => c <= fileLocks[k]

\* A queued call waits for a call that is behind all others not yet through.
QueueInv ==
  \A d \in Calls : state[d] = "queued" =>
    \A c \in Calls : c < d /\ key[c] = key[d] /\ ~Through(c) => c <= prior[d]

PriorInv == \A d \in Calls : prior[d] # None => prior[d] < d /\ key[prior[d]] = key[d]

\* What has started has a finished past.
PastInv ==
  \A c, d \in Calls :
    c < d /\ key[c] = key[d] /\ state[d] \notin {"new", "queued"} => Through(c)

\* The chain of promises, complete.
ChainInv == NumberInv /\ TailInv /\ QueueInv /\ PriorInv /\ PastInv
=============================================================================
