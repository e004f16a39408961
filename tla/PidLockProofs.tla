---------------------------- MODULE PidLockProofs ----------------------------
(***************************************************************************)
(* One owner of the lock file, for any number of processes, as long as     *)
(* claims do not overlap.  The invariant says what the file holds and that *)
(* what a claiming process has read of it cannot have become wrong.        *)
(***************************************************************************)
EXTENDS PidLock, TLAPS

IInv == TypeOK /\ ClaimInv

LEMMA InitInv ==
  ASSUME Init
  PROVE  IInv
<1>1. file \in [exists: BOOLEAN, by: Texts, text: Texts]
  <2>1. Absent \in [exists: BOOLEAN, by: Texts, text: Texts]
    BY DEF Absent, Texts
  <2>2. CASE file = Absent
    BY <2>1, <2>2
  <2>3. CASE file \in [exists: {TRUE}, by: {NoPid}, text: Texts]
    BY <2>3 DEF Texts
  <2> QED
    BY <2>2, <2>3 DEF Init
<1>2. TypeOK
  BY <1>1 DEF Init, TypeOK, Texts
<1>3. ClaimInv
  BY DEF Init, ClaimInv, OneClaim, FileInv, SeenInv, RoundInv, Claiming
<1> QED
  BY <1>2, <1>3 DEF IInv

LEMMA SpawnStep ==
  ASSUME Serial, IInv, NEW p \in Pids, Spawn(p)
  PROVE  IInv'
<1>1. TypeOK'
  BY PidAssumption DEF Spawn, Goto, IInv, ClaimInv, RoundInv, TypeOK, Texts, Absent, Claiming
<1>2. OneClaim'
  BY DEF Spawn, Goto, IInv, ClaimInv, OneClaim, TypeOK, Claiming
<1>3. FileInv'
  BY PidAssumption DEF Spawn, Goto, IInv, ClaimInv, OneClaim, FileInv, SeenInv, TypeOK, Texts, Claiming
<1>4. SeenInv'
  BY PidAssumption DEF Spawn, Goto, IInv, ClaimInv, OneClaim, FileInv, SeenInv, TypeOK, Texts, Claiming
<1>5. RoundInv'
  BY DEF Spawn, Goto, IInv, ClaimInv, OneClaim, RoundInv, TypeOK, Claiming
<1>6. QED
  BY <1>1, <1>2, <1>3, <1>4, <1>5 DEF IInv, ClaimInv

LEMMA CreateStep ==
  ASSUME IInv, NEW p \in Pids, Create(p)
  PROVE  IInv'
<1>1. TypeOK'
  <2>1. file' \in [exists: BOOLEAN, by: Texts, text: Texts]
    <3>1. p \in Texts /\ NoPid \in Texts
      BY DEF Texts
    <3>2. file' = file \/ file' = [exists |-> TRUE, by |-> p, text |-> NoPid]
      BY DEF Create
    <3>3. [exists |-> TRUE, by |-> p, text |-> NoPid]
            \in [exists: BOOLEAN, by: Texts, text: Texts]
      BY <3>1
    <3> QED
      BY <3>2, <3>3 DEF IInv, TypeOK
  <2>2. pc' \in [Pids -> Claiming \cup {"dead", "held", "refused", "releasing"}]
    <3>1. \E l \in {"read", "write"} : pc' = [pc EXCEPT ![p] = l]
      BY DEF Create, Goto
    <3> QED
      BY <3>1 DEF IInv, TypeOK, Claiming
  <2> QED
    BY <2>1, <2>2 DEF Create, IInv, TypeOK
<1>2. OneClaim'
  BY DEF Create, Goto, IInv, ClaimInv, OneClaim, TypeOK, Claiming
<1>3. FileInv'
  BY PidAssumption DEF Create, Goto, IInv, ClaimInv, OneClaim, FileInv, SeenInv, TypeOK, Texts, Claiming
<1>4. SeenInv'
  BY PidAssumption DEF Create, Goto, IInv, ClaimInv, OneClaim, FileInv, SeenInv, TypeOK, Texts, Claiming
<1>5. RoundInv'
  BY DEF Create, Goto, IInv, ClaimInv, OneClaim, RoundInv, TypeOK, Claiming
<1>6. QED
  BY <1>1, <1>2, <1>3, <1>4, <1>5 DEF IInv, ClaimInv

LEMMA WriteStep ==
  ASSUME IInv, NEW p \in Pids, Write(p)
  PROVE  IInv'
<1>1. TypeOK'
  BY PidAssumption DEF Write, Goto, IInv, ClaimInv, RoundInv, TypeOK, Texts, Absent, Claiming
<1>2. OneClaim'
  BY DEF Write, Goto, IInv, ClaimInv, OneClaim, TypeOK, Claiming
<1>3. FileInv'
  BY PidAssumption DEF Write, Goto, IInv, ClaimInv, OneClaim, FileInv, SeenInv, TypeOK, Texts, Claiming
<1>4. SeenInv'
  BY PidAssumption DEF Write, Goto, IInv, ClaimInv, OneClaim, FileInv, SeenInv, TypeOK, Texts, Claiming
<1>5. RoundInv'
  BY DEF Write, Goto, IInv, ClaimInv, OneClaim, RoundInv, TypeOK, Claiming
<1>6. QED
  BY <1>1, <1>2, <1>3, <1>4, <1>5 DEF IInv, ClaimInv

LEMMA ReadStep ==
  ASSUME IInv, NEW p \in Pids, Read(p)
  PROVE  IInv'
<1>1. TypeOK'
  BY PidAssumption DEF Read, Goto, Again, IInv, ClaimInv, RoundInv, TypeOK, Texts, Absent, Claiming
<1>2. OneClaim'
  BY DEF Read, Goto, Again, IInv, ClaimInv, OneClaim, TypeOK, Claiming
<1>3. FileInv'
  BY PidAssumption DEF Read, Goto, Again, IInv, ClaimInv, OneClaim, FileInv, SeenInv, TypeOK, Texts, Claiming
<1>4. SeenInv'
  BY PidAssumption DEF Read, Goto, Again, IInv, ClaimInv, OneClaim, FileInv, SeenInv, TypeOK, Texts, Claiming
<1>5. RoundInv'
  BY DEF Read, Goto, Again, IInv, ClaimInv, OneClaim, RoundInv, TypeOK, Claiming
<1>6. QED
  BY <1>1, <1>2, <1>3, <1>4, <1>5 DEF IInv, ClaimInv

LEMMA CheckStep ==
  ASSUME IInv, NEW p \in Pids, Check(p)
  PROVE  IInv'
<1>1. TypeOK'
  BY PidAssumption DEF Check, Goto, IInv, ClaimInv, RoundInv, TypeOK, Texts, Absent, Claiming
<1>2. OneClaim'
  BY DEF Check, Goto, IInv, ClaimInv, OneClaim, TypeOK, Claiming
<1>3. FileInv'
  BY PidAssumption DEF Check, Goto, Alive, IInv, ClaimInv, OneClaim, FileInv, SeenInv, TypeOK, Texts, Claiming
<1>4. SeenInv'
  BY PidAssumption DEF Check, Goto, Alive, IInv, ClaimInv, OneClaim, FileInv, SeenInv, TypeOK, Texts, Claiming
<1>5. RoundInv'
  BY DEF Check, Goto, IInv, ClaimInv, OneClaim, RoundInv, TypeOK, Claiming
<1>6. QED
  BY <1>1, <1>2, <1>3, <1>4, <1>5 DEF IInv, ClaimInv

LEMMA UnlinkStep ==
  ASSUME IInv, NEW p \in Pids, Unlink(p)
  PROVE  IInv'
<1>1. TypeOK'
  BY PidAssumption DEF Unlink, Goto, Again, Absent, IInv, ClaimInv, RoundInv, TypeOK, Texts, Claiming
<1>2. OneClaim'
  BY DEF Unlink, Goto, Again, Absent, IInv, ClaimInv, OneClaim, TypeOK, Claiming
<1>3. FileInv'
  BY PidAssumption DEF Unlink, Goto, Again, Absent, IInv, ClaimInv, OneClaim, FileInv, SeenInv, TypeOK, Texts, Claiming
<1>4. SeenInv'
  BY PidAssumption DEF Unlink, Goto, Again, Absent, IInv, ClaimInv, OneClaim, FileInv, SeenInv, TypeOK, Texts, Claiming
<1>5. RoundInv'
  BY DEF Unlink, Goto, Again, Absent, IInv, ClaimInv, OneClaim, RoundInv, TypeOK, Claiming
<1>6. QED
  BY <1>1, <1>2, <1>3, <1>4, <1>5 DEF IInv, ClaimInv

LEMMA ReleaseStep ==
  ASSUME IInv, NEW p \in Pids, Release(p)
  PROVE  IInv'
<1>1. TypeOK'
  BY PidAssumption DEF Release, Goto, IInv, ClaimInv, RoundInv, TypeOK, Texts, Absent, Claiming
<1>2. OneClaim'
  BY DEF Release, Goto, IInv, ClaimInv, OneClaim, TypeOK, Claiming
<1>3. FileInv'
  BY PidAssumption DEF Release, Goto, IInv, ClaimInv, OneClaim, FileInv, SeenInv, TypeOK, Texts, Claiming
<1>4. SeenInv'
  BY PidAssumption DEF Release, Goto, IInv, ClaimInv, OneClaim, FileInv, SeenInv, TypeOK, Texts, Claiming
<1>5. RoundInv'
  BY DEF Release, Goto, IInv, ClaimInv, OneClaim, RoundInv, TypeOK, Claiming
<1>6. QED
  BY <1>1, <1>2, <1>3, <1>4, <1>5 DEF IInv, ClaimInv

LEMMA RemoveStep ==
  ASSUME IInv, NEW p \in Pids, Remove(p)
  PROVE  IInv'
<1>1. TypeOK'
  BY PidAssumption DEF Remove, Goto, Absent, IInv, ClaimInv, RoundInv, TypeOK, Texts, Claiming
<1>2. OneClaim'
  BY DEF Remove, Goto, Absent, IInv, ClaimInv, OneClaim, TypeOK, Claiming
<1>3. FileInv'
  BY PidAssumption DEF Remove, Goto, Absent, IInv, ClaimInv, OneClaim, FileInv, SeenInv, TypeOK, Texts, Claiming
<1>4. SeenInv'
  BY PidAssumption DEF Remove, Goto, Absent, IInv, ClaimInv, OneClaim, FileInv, SeenInv, TypeOK, Texts, Claiming
<1>5. RoundInv'
  BY DEF Remove, Goto, Absent, IInv, ClaimInv, OneClaim, RoundInv, TypeOK, Claiming
<1>6. QED
  BY <1>1, <1>2, <1>3, <1>4, <1>5 DEF IInv, ClaimInv

LEMMA DieStep ==
  ASSUME IInv, NEW p \in Pids, Die(p)
  PROVE  IInv'
<1>1. TypeOK'
  BY PidAssumption DEF Die, Goto, IInv, ClaimInv, RoundInv, TypeOK, Texts, Absent, Claiming
<1>2. OneClaim'
  BY DEF Die, Goto, IInv, ClaimInv, OneClaim, TypeOK, Claiming
<1>3. FileInv'
  BY PidAssumption DEF Die, Goto, IInv, ClaimInv, OneClaim, FileInv, SeenInv, TypeOK, Texts, Claiming
<1>4. SeenInv'
  BY PidAssumption DEF Die, Goto, IInv, ClaimInv, OneClaim, FileInv, SeenInv, TypeOK, Texts, Claiming
<1>5. RoundInv'
  BY DEF Die, Goto, IInv, ClaimInv, OneClaim, RoundInv, TypeOK, Claiming
<1>6. QED
  BY <1>1, <1>2, <1>3, <1>4, <1>5 DEF IInv, ClaimInv

LEMMA NextInv ==
  ASSUME Serial, IInv, [Next]_vars
  PROVE  IInv'
<1>1. CASE UNCHANGED vars
  BY <1>1 DEF vars, IInv, TypeOK, ClaimInv, OneClaim, FileInv, SeenInv, RoundInv
<1>2. ASSUME NEW p \in Pids, Spawn(p) \/ Step(p)
      PROVE  IInv'
  BY <1>2, SpawnStep, CreateStep, WriteStep, ReadStep, CheckStep, UnlinkStep,
     ReleaseStep, RemoveStep, DieStep DEF Step
<1>3. QED
  BY <1>1, <1>2 DEF Next

\* The invariant holds in every state when claims are serial.
THEOREM ClaimsAreSafe ==
  ASSUME Serial
  PROVE  Spec => []ClaimInv
<1>1. Init => IInv
  BY InitInv
<1>2. IInv /\ [Next]_vars => IInv'
  BY NextInv
<1>3. IInv => ClaimInv
  BY DEF IInv
<1>4. QED
  BY <1>1, <1>2, <1>3, PTL DEF Spec

\* An owner is named by the file as long as it lives (claimLock, releaseLock).
THEOREM OwnerFound ==
  ASSUME Serial
  PROVE  Spec => []OwnerIsOnFile
<1>1. ClaimInv => OwnerIsOnFile
  BY DEF ClaimInv, FileInv, OwnerIsOnFile
<1>2. QED
  BY <1>1, ClaimsAreSafe, PTL

\* At most one process owns the lock (claimLock), with any stale file.
THEOREM SingleOwner ==
  ASSUME Serial
  PROVE  Spec => []OneOwner
<1>1. OwnerIsOnFile => OneOwner
  BY DEF OwnerIsOnFile, OneOwner
<1>2. QED
  BY <1>1, OwnerFound, PTL

\* A claim (claimLock) is refused only after it has read the pid of a process
\* that is alive: the second round never fails, since a serial claim finds no
\* file in its way once it has removed a stale one.
THEOREM RefusedWithReason ==
  ASSUME Serial
  PROVE  Spec => RefusedForALivingOwner
<1>1. ASSUME IInv, [Next]_vars, NEW p \in Pids,
             pc[p] # "refused", pc'[p] = "refused"
      PROVE  \E q \in Pids \ {p} : Alive(q)
  <2>1. PICK r \in Pids : Spawn(r) \/ Step(r)
    BY <1>1 DEF Next, vars
  <2>2. r = p
    BY <1>1, <2>1 DEF Step, Spawn, Create, Write, Read, Check, Unlink, Release,
                      Remove, Die, Again, Goto, IInv, TypeOK
  <2>3. CASE Check(p)
    BY <1>1, <2>3 DEF Check, Goto, Alive, IInv, TypeOK
  <2>4. ~Read(p) /\ ~Unlink(p)
    BY <1>1 DEF Read, Unlink, Again, Goto, IInv, TypeOK, ClaimInv, RoundInv,
                Claiming
  <2>5. CASE Spawn(p) \/ Create(p) \/ Write(p) \/ Release(p) \/ Remove(p)
               \/ Die(p)
    BY <1>1, <2>5 DEF Spawn, Create, Write, Release, Remove, Die, Goto, IInv,
                      TypeOK
  <2>6. QED
    BY <2>1, <2>2, <2>3, <2>4, <2>5 DEF Step
<1>2. IInv /\ [Next]_vars =>
        [\A p \in Pids : pc[p] # "refused" /\ pc'[p] = "refused" =>
           \E q \in Pids \ {p} : Alive(q)]_vars
  BY <1>1
<1>3. Init => IInv
  BY InitInv
<1>4. IInv /\ [Next]_vars => IInv'
  BY NextInv
<1>5. QED
  BY <1>2, <1>3, <1>4, PTL DEF Spec, RefusedForALivingOwner
=============================================================================
