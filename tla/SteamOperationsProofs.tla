------------------------ MODULE SteamOperationsProofs ------------------------
(***************************************************************************)
(* Theorems about LifecycleLock and SteamOperations, for any sets of       *)
(* servers, installs and calls.  IInv is inductive relative to the type invariant: a call that   *)
(* acts on a server holds its lock (HoldersInv), so that nobody else       *)
(* starts, stops or deletes that server's game (OwnDownInv); and a start   *)
(* that got past its look at the reservation did so before it was made     *)
(* (LookInv), so that a game of the install that runs all the same either  *)
(* was ahead of the reservation or is still to be scanned (FreeInv).       *)
(* There is one lemma for every action, with one step for each conjunct;   *)
(* the actions that end a call share EndKeeps.                             *)
(***************************************************************************)
EXTENDS SteamOperations, TLAPS

-----------------------------------------------------------------------------
(* The lock by itself (LifecycleLock) is a mutex.  TypeOK is inductive,    *)
(* Agreement relative to it; the other properties follow from the two.     *)

\* The map holds only handles, and every handle is a pair of server and flag.
THEOREM TypeCorrect == Spec => []TypeOK
<1>1. Init => TypeOK
  BY DEF Init, TypeOK, Fresh
<1>2. TypeOK /\ [Next]_vars => TypeOK'
  <2> SUFFICES ASSUME TypeOK, [Next]_vars PROVE TypeOK'
    OBVIOUS
  <2> USE DEF TypeOK
  <2>1. ASSUME NEW h \in Handles, NEW s \in Servers, Acquire(h, s) PROVE TypeOK'
    BY <2>1 DEF Acquire
  <2>2. ASSUME NEW h \in Handles, Release(h) PROVE TypeOK'
    BY <2>2 DEF Release, Live, Given
  <2>3. ASSUME NEW h \in Handles, ReleaseAgain(h) PROVE TypeOK'
    BY <2>3 DEF ReleaseAgain, vars
  <2>4. CASE UNCHANGED vars
    BY <2>4 DEF vars
  <2> QED
    BY <2>1, <2>2, <2>3, <2>4 DEF Next
<1> QED
  BY <1>1, <1>2, PTL DEF Spec

\* One step keeps the agreement of map and handles.
LEMMA AgreementStep ==
  ASSUME TypeOK, Agreement, [Next]_vars
  PROVE  Agreement'
<1> USE NoTokenAssumption DEF TypeOK, Agreement, Live, Given
<1>1. ASSUME NEW h \in Handles, NEW s \in Servers, Acquire(h, s) PROVE Agreement'
  BY <1>1 DEF Acquire
<1>2. ASSUME NEW h \in Handles, Release(h) PROVE Agreement'
  <2> DEFINE t == handle[h].server
  <2>1. t \in Servers /\ locks[t] = h
    BY <1>2 DEF Release
  <2>2. /\ locks' = [locks EXCEPT ![t] = NoToken]
        /\ handle' = [handle EXCEPT ![h].released = TRUE]
    BY <1>2, <2>1 DEF Release
  <2>3. \A g \in Handles : Live(g)' =>
           handle'[g].server \in Servers /\ locks'[handle'[g].server] = g
    BY <2>1, <2>2
  <2>4. \A s \in Servers : locks'[s] # NoToken =>
           Live(locks[s])' /\ handle'[locks'[s]].server = s
    BY <2>1, <2>2
  <2> QED
    BY <2>2, <2>3, <2>4
<1>3. ASSUME NEW h \in Handles, ReleaseAgain(h) PROVE Agreement'
  BY <1>3 DEF ReleaseAgain, vars
<1>4. CASE UNCHANGED vars
  BY <1>4 DEF vars
<1> QED
  BY <1>1, <1>2, <1>3, <1>4 DEF Next

\* The map and the unreleased handles agree in every reachable state.
THEOREM MapAgreesWithHandles == Spec => []Agreement
<1>1. Init => Agreement
  BY NoTokenAssumption DEF Init, Agreement, Live, Given, Fresh
<1>2. TypeOK /\ Agreement /\ [Next]_vars => Agreement'
  BY AgreementStep
<1> QED
  BY <1>1, <1>2, TypeCorrect, PTL DEF Spec

\* Two operations never hold unreleased handles for one server.
THEOREM MutualExclusion == Spec => []OneLiveHandlePerServer
<1>1. Agreement => OneLiveHandlePerServer
  BY DEF Agreement, OneLiveHandlePerServer
<1> QED
  BY <1>1, MapAgreesWithHandles, PTL

\* No release of one handle ends the possession of another.
THEOREM OwnReleaseOnly == Spec => NobodyElseFreesTheLock
<1>1. TypeOK /\ Agreement /\ TypeOK' /\ Agreement' /\ [Next]_vars
        => \A h \in Handles : Live(h) /\ locks'[handle[h].server] # h => ~Live(h)'
  <2> SUFFICES ASSUME TypeOK, Agreement, Agreement', [Next]_vars,
                      NEW h \in Handles, Live(h), Live(h)'
               PROVE  locks'[handle[h].server] = h
    OBVIOUS
  <2>1. handle'[h].server = handle[h].server
    BY DEF Next, Acquire, Release, ReleaseAgain, Live, Given, vars, TypeOK
  <2> QED
    BY <2>1 DEF Agreement
<1> QED
  BY <1>1, TypeCorrect, MapAgreesWithHandles, PTL DEF Spec, NobodyElseFreesTheLock

\* The token map implements the abstract mutex: an acquire takes a server that
\* nobody owns, a first release gives an own one back, everything else stutters.
THEOREM TokensImplementMutex == Spec => ImplementsMutex
<1> DEFINE inside == [s \in Servers |-> Owning(s)]
<1>1. Init => Mutex!Init
  BY DEF Init, Mutex!Init, Owning, Live, Given, Fresh
<1>2. TypeOK /\ Agreement /\ [Next]_vars => [Mutex!Next]_inside
  <2> SUFFICES ASSUME TypeOK, Agreement, [Next]_vars PROVE [Mutex!Next]_inside
    OBVIOUS
  <2>1. ASSUME NEW h \in Handles, NEW s \in Servers, Acquire(h, s)
        PROVE  Mutex!Take(s, h)
    <3>1. Owning(s) = {}
      BY <2>1, NoTokenAssumption DEF Acquire, Owning, Agreement, Live
    <3>2. \A g \in Handles : g # h => handle'[g] = handle[g]
      BY <2>1 DEF Acquire, TypeOK
    <3>3. handle'[h] = [server |-> s, released |-> FALSE]
      BY <2>1 DEF Acquire, TypeOK
    <3>4. Owning(s)' = {h}
      BY <3>1, <3>2, <3>3, NoTokenAssumption DEF Owning, Live, Given
    <3>5. ASSUME NEW t \in Servers, t # s
          PROVE  Owning(t)' = Owning(t)
      <4>1. \A g \in Handles :
              (Live(g) /\ handle[g].server = t)' <=> Live(g) /\ handle[g].server = t
        BY <2>1, <3>2, <3>3, <3>5 DEF Acquire, Live, Given
      <4> QED
        BY <4>1 DEF Owning
    <3> QED
      BY <3>1, <3>4, <3>5 DEF Mutex!Take
  <2>2. ASSUME NEW h \in Handles, NEW t \in Servers, handle[h].server = t, Release(h)
        PROVE  Mutex!Give(t, h)
    <3>1. Owning(t) = {h}
      BY <2>2 DEF Release, Agreement, Owning
    <3>2. \A g \in Handles : g # h => handle'[g] = handle[g]
      BY <2>2 DEF Release, TypeOK
    <3>3. handle'[h].released /\ handle'[h].server = t
      BY <2>2 DEF Release, TypeOK
    <3>4. Owning(t)' = {}
      BY <3>1, <3>2, <3>3 DEF Owning, Live, Given
    <3>5. ASSUME NEW s \in Servers, s # t
          PROVE  Owning(s)' = Owning(s)
      <4>1. \A g \in Handles :
              (Live(g) /\ handle[g].server = s)' <=> Live(g) /\ handle[g].server = s
        BY <2>2, <3>2, <3>3, <3>5 DEF Live, Given
      <4> QED
        BY <4>1 DEF Owning
    <3> QED
      BY <3>1, <3>4, <3>5 DEF Mutex!Give
  <2>3. ASSUME NEW h \in Handles, ReleaseAgain(h) PROVE UNCHANGED vars
    BY <2>3 DEF ReleaseAgain
  <2>4. CASE UNCHANGED vars
    BY <2>4 DEF vars, Owning, Live, Given
  <2>5. \A h \in Handles : Release(h) => handle[h].server \in Servers
    BY DEF Release, Agreement
  <2> QED
    BY <2>1, <2>2, <2>3, <2>4, <2>5 DEF Next, Mutex!Next
<1> QED
  BY <1>1, <1>2, TypeCorrect, MapAgreesWithHandles, PTL
  DEF Spec, ImplementsMutex, Mutex!Spec

-----------------------------------------------------------------------------
(* What each action leaves alone.                                          *)

\* A lock that is taken is free before, and takes no other one away.
LEMMA AcquireKeeps ==
  ASSUME TypeOK, NEW o \in Handles, NEW s \in Servers, Acquire(o, s)
  PROVE  /\ locks'[s] = o
         /\ \A t \in Servers, x \in Handles : locks[t] = x => locks'[t] = x
BY NoTokenAssumption DEF TypeOK, Acquire

\* A call that ends takes nobody else's lock away.
LEMMA LetGoKeeps ==
  ASSUME TypeOK, NEW o \in Handles, LetGo(o)
  PROVE  \A t \in Servers, x \in Handles \ {o} : locks[t] = x => locks'[t] = x
BY DEF TypeOK, LetGo, lockVars, Release, Live, Given

\* What the end of a call may change of the others: an update's clears its path.
LEMMA FinishKeeps ==
  ASSUME SteamTypeOK, NEW o \in Handles, Server(o) \in Servers, Finish(o)
  PROVE  /\ \A x \in Handles \ {o} : call'[x] = call[x]
         /\ call'[o].pc = "done"
         /\ \A t \in Servers, x \in Handles \ {o} : locks[t] = x => locks'[t] = x
         /\ \A i \in Installs : res'[i] = res[i] \/ res'[i] = NoToken
         /\ call[o].kind = "update" => res'[Path(o)] = NoToken
BY LetGoKeeps, InstallOfAssumption DEF SteamTypeOK, Finish, Ended, Clear, Path, Server, Idle

\* The end of a call: one that has a reservation is an update's.
LEMMA EndKeeps ==
  ASSUME SteamTypeOK, IInv, NEW o \in Handles, Server(o) \in Servers, Finish(o),
         Reserving(o) => call[o].kind = "update", game' = game, ahead' = ahead
  PROVE  IInv'
<1>1. /\ \A x \in Handles \ {o} : call'[x] = call[x]
      /\ call'[o].pc = "done"
      /\ \A t \in Servers, x \in Handles \ {o} : locks[t] = x => locks'[t] = x
      /\ \A i \in Installs : res'[i] = res[i] \/ res'[i] = NoToken
      /\ call[o].kind = "update" => res'[Path(o)] = NoToken
  BY FinishKeeps
<1>2. ReservationHasAnOwner'
  BY <1>1, NoTokenAssumption DEF IInv, ReservationHasAnOwner, Reserving, At, Path, Server, SteamTypeOK
<1>3. HoldersInv'
  BY <1>1 DEF IInv, HoldersInv, KindInv, Holds, At, Server
<1>4. KindInv'
  BY <1>1 DEF IInv, KindInv, Server
<1>5. OwnDownInv'
  BY <1>1 DEF IInv, OwnDownInv, At, Server
<1>6. LookInv'
  BY <1>1 DEF IInv, LookInv, PastItsLook, At, Server
<1>7. FreeInv'
  BY <1>1, NoTokenAssumption, InstallOfAssumption
  DEF IInv, FreeInv, KindInv, SteamTypeOK, At, Path, Server, Sharing
<1> QED
  BY <1>2, <1>3, <1>4, <1>5, <1>6, <1>7 DEF IInv

\* StartEnds keeps each part of the invariant.
LEMMA StartEndsKeeps ==
  ASSUME SteamTypeOK, IInv, NEW o \in Handles, StartEnds(o)
  PROVE  IInv'
BY EndKeeps DEF IInv, KindInv, StartEnds, At, Reserving

\* Deletes keeps each part of the invariant.
LEMMA DeletesKeeps ==
  ASSUME SteamTypeOK, IInv, NEW o \in Handles, Deletes(o)
  PROVE  IInv'
BY EndKeeps DEF IInv, KindInv, Deletes, At, Reserving

\* GivesUp keeps each part of the invariant.
LEMMA GivesUpKeeps ==
  ASSUME SteamTypeOK, IInv, NEW o \in Handles, GivesUp(o)
  PROVE  IInv'
<1>1. CASE At(o, "preflight")
  <2>1. /\ call' = [call EXCEPT ![o] = [Idle EXCEPT !.pc = "done"]]
        /\ UNCHANGED <<locks, res, game, ahead>>
    BY <1>1 DEF GivesUp, Ended
  <2> USE <1>1, <2>1, NoTokenAssumption, InstallOfAssumption DEF IInv, At, Server, SteamTypeOK, Idle
  <2>2. ReservationHasAnOwner'
    BY DEF ReservationHasAnOwner, Reserving, Path
  <2>3. HoldersInv'
    BY DEF HoldersInv, Holds
  <2>4. KindInv'
    BY DEF KindInv
  <2>5. OwnDownInv'
    BY DEF OwnDownInv
  <2>6. LookInv'
    BY DEF LookInv, PastItsLook
  <2>7. FreeInv'
    BY DEF FreeInv, Path, Sharing
  <2> QED
    BY <2>2, <2>3, <2>4, <2>5, <2>6, <2>7
<1>2. CASE ~At(o, "preflight")
  BY <1>2, EndKeeps DEF IInv, KindInv, GivesUp, At, Reserving
<1> QED
  BY <1>1, <1>2

\* SteamBegins keeps each part of the invariant.
LEMMA SteamBeginsKeeps ==
  ASSUME SteamTypeOK, IInv, NEW o \in Handles, SteamBegins(o)
  PROVE  IInv'
<1>1. CASE res[Path(o)] = NoToken
  BY <1>1, EndKeeps DEF IInv, KindInv, SteamBegins, At, Reserving
<1>2. CASE res[Path(o)] # NoToken
  <2>1. /\ At(o, "work")
        /\ call' = [call EXCEPT ![o].pc = "steam"]
        /\ UNCHANGED <<locks, res, game, ahead>>
    BY <1>2 DEF SteamBegins, Goto
  <2> USE <2>1, NoTokenAssumption, InstallOfAssumption DEF IInv, At, Server, SteamTypeOK, Call
  <2>2. ReservationHasAnOwner'
    BY DEF ReservationHasAnOwner, Reserving, Path
  <2>3. HoldersInv'
    BY DEF HoldersInv, Holds, KindInv
  <2>4. KindInv'
    BY DEF KindInv
  <2>5. OwnDownInv'
    BY DEF OwnDownInv
  <2>6. LookInv'
    BY DEF LookInv, PastItsLook
  <2>7. FreeInv'
    BY DEF FreeInv, Path, Sharing, SteamBegins, LastStopped
  <2> QED
    BY <2>2, <2>3, <2>4, <2>5, <2>6, <2>7
<1> QED
  BY <1>1, <1>2

\* UpdateSteamCloses keeps each part of the invariant.
LEMMA UpdateSteamClosesKeeps ==
  ASSUME SteamTypeOK, IInv, NEW o \in Handles, UpdateSteamCloses(o)
  PROVE  IInv'
<1>1. CASE Finish(o)
  BY <1>1, EndKeeps DEF IInv, KindInv, UpdateSteamCloses, At, Reserving
<1>2. CASE ~Finish(o)
  <2>1. /\ At(o, "steam") /\ call[o].kind = "update"
        /\ call' = [call EXCEPT ![o].pc = "resume"]
        /\ res' = [res EXCEPT ![Path(o)] = NoToken]
        /\ UNCHANGED <<locks, game, ahead>>
    BY <1>2 DEF UpdateSteamCloses, Goto, Clear
  <2> USE <2>1, NoTokenAssumption, InstallOfAssumption DEF IInv, At, Server, SteamTypeOK, Call
  <2>2. ReservationHasAnOwner'
    BY DEF ReservationHasAnOwner, Reserving, Path, KindInv
  <2>3. HoldersInv'
    BY DEF HoldersInv, Holds, KindInv
  <2>4. KindInv'
    BY DEF KindInv
  <2>5. OwnDownInv'
    BY DEF OwnDownInv
  <2>6. LookInv'
    BY DEF LookInv, PastItsLook
  <2>7. FreeInv'
    BY DEF FreeInv, Path, Sharing, KindInv
  <2> QED
    BY <2>2, <2>3, <2>4, <2>5, <2>6, <2>7
<1> QED
  BY <1>1, <1>2


\* StartBegins keeps each part of the invariant.
LEMMA StartBeginsKeeps ==
  ASSUME SteamTypeOK, IInv, NEW o \in Handles, NEW s \in Servers, StartBegins(o, s)
  PROVE  IInv'
<1>1. ReservationHasAnOwner'
  BY AcquireKeeps, NoTokenAssumption, InstallOfAssumption
  DEF StartBegins, At, Server, Call, Begin, Acquire, IInv, SteamTypeOK, KindInv, ReservationHasAnOwner, Reserving, Path
<1>2. HoldersInv'
  BY AcquireKeeps, NoTokenAssumption, InstallOfAssumption
  DEF StartBegins, At, Server, Call, Begin, Acquire, IInv, SteamTypeOK, KindInv, HoldersInv, Holds, TypeOK
<1>3. KindInv'
  BY AcquireKeeps, NoTokenAssumption, InstallOfAssumption
  DEF StartBegins, At, Server, Call, Begin, Acquire, IInv, SteamTypeOK, KindInv
<1>4. OwnDownInv'
  BY AcquireKeeps, NoTokenAssumption, InstallOfAssumption
  DEF StartBegins, At, Server, Call, Begin, Acquire, IInv, SteamTypeOK, KindInv, OwnDownInv
<1>5. LookInv'
  BY AcquireKeeps, NoTokenAssumption, InstallOfAssumption
  DEF StartBegins, At, Server, Call, Begin, Acquire, IInv, SteamTypeOK, KindInv, LookInv, PastItsLook
<1>6. FreeInv'
  BY AcquireKeeps, NoTokenAssumption, InstallOfAssumption
  DEF StartBegins, At, Server, Call, Begin, Acquire, IInv, SteamTypeOK, KindInv, FreeInv, Path, Sharing
<1> QED
  BY <1>1, <1>2, <1>3, <1>4, <1>5, <1>6 DEF IInv

\* UpdateBegins keeps each part of the invariant.
LEMMA UpdateBeginsKeeps ==
  ASSUME SteamTypeOK, IInv, NEW o \in Handles, NEW s \in Servers, UpdateBegins(o, s)
  PROVE  IInv'
<1>1. ReservationHasAnOwner'
  BY NoTokenAssumption, InstallOfAssumption
  DEF UpdateBegins, At, Server, Call, Begin, IInv, SteamTypeOK, KindInv, ReservationHasAnOwner, Reserving, Path
<1>2. HoldersInv'
  BY NoTokenAssumption, InstallOfAssumption
  DEF UpdateBegins, At, Server, Call, Begin, IInv, SteamTypeOK, KindInv, HoldersInv, Holds
<1>3. KindInv'
  BY NoTokenAssumption, InstallOfAssumption
  DEF UpdateBegins, At, Server, Call, Begin, IInv, SteamTypeOK, KindInv
<1>4. OwnDownInv'
  BY NoTokenAssumption, InstallOfAssumption
  DEF UpdateBegins, At, Server, Call, Begin, IInv, SteamTypeOK, KindInv, OwnDownInv
<1>5. LookInv'
  BY NoTokenAssumption, InstallOfAssumption
  DEF UpdateBegins, At, Server, Call, Begin, IInv, SteamTypeOK, KindInv, LookInv, PastItsLook
<1>6. FreeInv'
  BY NoTokenAssumption, InstallOfAssumption
  DEF UpdateBegins, At, Server, Call, Begin, IInv, SteamTypeOK, KindInv, FreeInv, Path, Sharing
<1> QED
  BY <1>1, <1>2, <1>3, <1>4, <1>5, <1>6 DEF IInv

\* CheckBegins keeps each part of the invariant.
LEMMA CheckBeginsKeeps ==
  ASSUME SteamTypeOK, IInv, NEW o \in Handles, NEW s \in Servers, CheckBegins(o, s)
  PROVE  IInv'
<1>1. ReservationHasAnOwner'
  BY NoTokenAssumption, InstallOfAssumption
  DEF CheckBegins, At, Server, Call, Begin, Reserve, IInv, SteamTypeOK, KindInv, ReservationHasAnOwner, Reserving, Path
<1>2. HoldersInv'
  BY NoTokenAssumption, InstallOfAssumption
  DEF CheckBegins, At, Server, Call, Begin, Reserve, IInv, SteamTypeOK, KindInv, HoldersInv, Holds
<1>3. KindInv'
  BY NoTokenAssumption, InstallOfAssumption
  DEF CheckBegins, At, Server, Call, Begin, Reserve, IInv, SteamTypeOK, KindInv
<1>4. OwnDownInv'
  BY NoTokenAssumption, InstallOfAssumption
  DEF CheckBegins, At, Server, Call, Begin, Reserve, IInv, SteamTypeOK, KindInv, OwnDownInv
<1>5. LookInv'
  BY NoTokenAssumption, InstallOfAssumption
  DEF CheckBegins, At, Server, Call, Begin, Reserve, IInv, SteamTypeOK, KindInv, LookInv, PastItsLook
<1>6. FreeInv'
  BY NoTokenAssumption, InstallOfAssumption
  DEF CheckBegins, At, Server, Call, Begin, Reserve, IInv, SteamTypeOK, KindInv, FreeInv, Path, Sharing
<1> QED
  BY <1>1, <1>2, <1>3, <1>4, <1>5, <1>6 DEF IInv

\* InstallBegins keeps each part of the invariant.
LEMMA InstallBeginsKeeps ==
  ASSUME SteamTypeOK, IInv, NEW o \in Handles, NEW s \in Servers, InstallBegins(o, s)
  PROVE  IInv'
<1>1. ReservationHasAnOwner'
  BY NoTokenAssumption, InstallOfAssumption
  DEF InstallBegins, At, Server, Call, Begin, IInv, SteamTypeOK, KindInv, ReservationHasAnOwner, Reserving, Path
<1>2. HoldersInv'
  BY NoTokenAssumption, InstallOfAssumption
  DEF InstallBegins, At, Server, Call, Begin, IInv, SteamTypeOK, KindInv, HoldersInv, Holds
<1>3. KindInv'
  BY NoTokenAssumption, InstallOfAssumption
  DEF InstallBegins, At, Server, Call, Begin, IInv, SteamTypeOK, KindInv
<1>4. OwnDownInv'
  BY NoTokenAssumption, InstallOfAssumption
  DEF InstallBegins, At, Server, Call, Begin, IInv, SteamTypeOK, KindInv, OwnDownInv
<1>5. LookInv'
  BY NoTokenAssumption, InstallOfAssumption
  DEF InstallBegins, At, Server, Call, Begin, IInv, SteamTypeOK, KindInv, LookInv, PastItsLook
<1>6. FreeInv'
  BY NoTokenAssumption, InstallOfAssumption
  DEF InstallBegins, At, Server, Call, Begin, IInv, SteamTypeOK, KindInv, FreeInv, Path, Sharing
<1> QED
  BY <1>1, <1>2, <1>3, <1>4, <1>5, <1>6 DEF IInv

\* DeleteBegins keeps each part of the invariant.
LEMMA DeleteBeginsKeeps ==
  ASSUME SteamTypeOK, IInv, NEW o \in Handles, NEW s \in Servers, DeleteBegins(o, s)
  PROVE  IInv'
<1>1. ReservationHasAnOwner'
  BY AcquireKeeps, NoTokenAssumption, InstallOfAssumption
  DEF DeleteBegins, At, Server, Call, Begin, Acquire, IInv, SteamTypeOK, KindInv, ReservationHasAnOwner, Reserving, Path
<1>2. HoldersInv'
  BY AcquireKeeps, NoTokenAssumption, InstallOfAssumption
  DEF DeleteBegins, At, Server, Call, Begin, Acquire, IInv, SteamTypeOK, KindInv, HoldersInv, Holds, TypeOK
<1>3. KindInv'
  BY AcquireKeeps, NoTokenAssumption, InstallOfAssumption
  DEF DeleteBegins, At, Server, Call, Begin, Acquire, IInv, SteamTypeOK, KindInv
<1>4. OwnDownInv'
  BY AcquireKeeps, NoTokenAssumption, InstallOfAssumption
  DEF DeleteBegins, At, Server, Call, Begin, Acquire, IInv, SteamTypeOK, KindInv, OwnDownInv, Sharing
<1>5. LookInv'
  BY AcquireKeeps, NoTokenAssumption, InstallOfAssumption
  DEF DeleteBegins, At, Server, Call, Begin, Acquire, IInv, SteamTypeOK, KindInv, LookInv, PastItsLook
<1>6. FreeInv'
  BY AcquireKeeps, NoTokenAssumption, InstallOfAssumption
  DEF DeleteBegins, At, Server, Call, Begin, Acquire, IInv, SteamTypeOK, KindInv, FreeInv, Path, Sharing
<1> QED
  BY <1>1, <1>2, <1>3, <1>4, <1>5, <1>6 DEF IInv

\* LooksAgain keeps each part of the invariant.
LEMMA LooksAgainKeeps ==
  ASSUME SteamTypeOK, IInv, NEW o \in Handles, LooksAgain(o)
  PROVE  IInv'
<1>1. ReservationHasAnOwner'
  BY NoTokenAssumption, InstallOfAssumption
  DEF LooksAgain, Goto, At, Server, Call, IInv, SteamTypeOK, KindInv, ReservationHasAnOwner, Reserving, Path
<1>2. HoldersInv'
  BY NoTokenAssumption, InstallOfAssumption
  DEF LooksAgain, Goto, At, Server, Call, IInv, SteamTypeOK, KindInv, HoldersInv, Holds
<1>3. KindInv'
  BY NoTokenAssumption, InstallOfAssumption
  DEF LooksAgain, Goto, At, Server, Call, IInv, SteamTypeOK, KindInv
<1>4. OwnDownInv'
  BY NoTokenAssumption, InstallOfAssumption
  DEF LooksAgain, Goto, At, Server, Call, IInv, SteamTypeOK, KindInv, OwnDownInv
<1>5. LookInv'
  BY NoTokenAssumption, InstallOfAssumption
  DEF LooksAgain, Goto, At, Server, Call, IInv, SteamTypeOK, KindInv, LookInv, PastItsLook, Path
<1>6. FreeInv'
  BY NoTokenAssumption, InstallOfAssumption
  DEF LooksAgain, Goto, At, Server, Call, IInv, SteamTypeOK, KindInv, FreeInv, Path, Sharing
<1> QED
  BY <1>1, <1>2, <1>3, <1>4, <1>5, <1>6 DEF IInv

\* Launches keeps each part of the invariant.
LEMMA LaunchesKeeps ==
  ASSUME SteamTypeOK, IInv, NEW o \in Handles, Launches(o)
  PROVE  IInv'
<1>1. ReservationHasAnOwner'
  BY SMTT(30), NoTokenAssumption, InstallOfAssumption
  DEF Launches, Goto, At, Server, Call, IInv, SteamTypeOK, KindInv, ReservationHasAnOwner, Reserving, Path
<1>2. HoldersInv'
  BY NoTokenAssumption, InstallOfAssumption
  DEF Launches, Goto, At, Server, Call, IInv, SteamTypeOK, KindInv, HoldersInv, Holds
<1>3. KindInv'
  BY NoTokenAssumption, InstallOfAssumption
  DEF Launches, Goto, At, Server, Call, IInv, SteamTypeOK, KindInv
<1>4. OwnDownInv'
  BY NoTokenAssumption, InstallOfAssumption
  DEF Launches, Goto, At, Server, Call, IInv, SteamTypeOK, KindInv, OwnDownInv, HoldersInv, Holds
<1>5. LookInv'
  BY NoTokenAssumption, InstallOfAssumption
  DEF Launches, Goto, At, Server, Call, IInv, SteamTypeOK, KindInv, LookInv, PastItsLook
<1>6. FreeInv'
  <2>1. /\ call' = [call EXCEPT ![o].pc = "waiting"]
        /\ game' = [game EXCEPT ![Server(o)] = "up"]
        /\ UNCHANGED <<res, ahead>>
        /\ Server(o) \in Servers /\ Server(o) \in PastItsLook(Path(o))
    BY DEF Launches, Goto, At, IInv, KindInv, PastItsLook, Path
  <2>2. \A x \in Handles : x # o => call'[x] = call[x]
    BY <2>1 DEF SteamTypeOK
  <2>3. \A p \in Servers : game'[p] = "up" => game[p] = "up" \/ p = Server(o)
    BY <2>1 DEF SteamTypeOK
  <2>4. call'[o].pc = "waiting"
    BY <2>1 DEF SteamTypeOK, Call
  <2> QED
    BY <2>1, <2>2, <2>3, <2>4, NoTokenAssumption, InstallOfAssumption
    DEF IInv, FreeInv, LookInv, KindInv, At, Path, Server, Sharing
<1> QED
  BY <1>1, <1>2, <1>3, <1>4, <1>5, <1>6 DEF IInv

\* UpdateReserves keeps each part of the invariant.
LEMMA UpdateReservesKeeps ==
  ASSUME SteamTypeOK, IInv, NEW o \in Handles, UpdateReserves(o)
  PROVE  IInv'
<1>1. ReservationHasAnOwner'
  BY NoTokenAssumption, InstallOfAssumption
  DEF UpdateReserves, Goto, At, Server, Call, Reserve, IInv, SteamTypeOK, KindInv, ReservationHasAnOwner, Reserving, Path
<1>2. HoldersInv'
  BY NoTokenAssumption, InstallOfAssumption
  DEF UpdateReserves, Goto, At, Server, Call, Reserve, IInv, SteamTypeOK, KindInv, HoldersInv, Holds
<1>3. KindInv'
  BY NoTokenAssumption, InstallOfAssumption
  DEF UpdateReserves, Goto, At, Server, Call, Reserve, IInv, SteamTypeOK, KindInv
<1>4. OwnDownInv'
  BY NoTokenAssumption, InstallOfAssumption
  DEF UpdateReserves, Goto, At, Server, Call, Reserve, IInv, SteamTypeOK, KindInv, OwnDownInv
<1>5. LookInv'
  BY NoTokenAssumption, InstallOfAssumption
  DEF UpdateReserves, Goto, At, Server, Call, Reserve, IInv, SteamTypeOK, KindInv, LookInv, PastItsLook
<1>6. FreeInv'
  BY SMTT(30), NoTokenAssumption, InstallOfAssumption
  DEF UpdateReserves, Goto, At, Server, Call, Reserve, IInv, SteamTypeOK, KindInv, FreeInv, Path, Sharing
<1> QED
  BY <1>1, <1>2, <1>3, <1>4, <1>5, <1>6 DEF IInv

\* PeerStopped keeps each part of the invariant.
LEMMA PeerStoppedKeeps ==
  ASSUME SteamTypeOK, IInv, NEW o \in Handles, PeerStopped(o)
  PROVE  IInv'
<1>1. ReservationHasAnOwner'
  BY NoTokenAssumption, InstallOfAssumption
  DEF PeerStopped, Goto, At, Server, Call, FoundStopped, NotTheLast, IInv, SteamTypeOK, KindInv, ReservationHasAnOwner, Reserving, Path
<1>2. HoldersInv'
  BY NoTokenAssumption, InstallOfAssumption
  DEF PeerStopped, Goto, At, Server, Call, FoundStopped, NotTheLast, IInv, SteamTypeOK, KindInv, HoldersInv, Holds
<1>3. KindInv'
  BY NoTokenAssumption, InstallOfAssumption
  DEF PeerStopped, Goto, At, Server, Call, FoundStopped, NotTheLast, IInv, SteamTypeOK, KindInv
<1>4. OwnDownInv'
  BY NoTokenAssumption, InstallOfAssumption
  DEF PeerStopped, Goto, At, Server, Call, FoundStopped, NotTheLast, IInv, SteamTypeOK, KindInv, OwnDownInv
<1>5. LookInv'
  BY NoTokenAssumption, InstallOfAssumption
  DEF PeerStopped, Goto, At, Server, Call, FoundStopped, NotTheLast, IInv, SteamTypeOK, KindInv, LookInv, PastItsLook
<1>6. FreeInv'
  BY NoTokenAssumption, InstallOfAssumption
  DEF PeerStopped, Goto, At, Server, Call, FoundStopped, NotTheLast, IInv, SteamTypeOK, KindInv, FreeInv, Path, Sharing
<1> QED
  BY <1>1, <1>2, <1>3, <1>4, <1>5, <1>6 DEF IInv

\* PeersChecked keeps each part of the invariant.
LEMMA PeersCheckedKeeps ==
  ASSUME SteamTypeOK, IInv, NEW o \in Handles, PeersChecked(o)
  PROVE  IInv'
<1>1. ReservationHasAnOwner'
  BY NoTokenAssumption, InstallOfAssumption
  DEF PeersChecked, Goto, At, Server, Call, IInv, SteamTypeOK, KindInv, ReservationHasAnOwner, Reserving, Path
<1>2. HoldersInv'
  BY NoTokenAssumption, InstallOfAssumption
  DEF PeersChecked, Goto, At, Server, Call, IInv, SteamTypeOK, KindInv, HoldersInv, Holds
<1>3. KindInv'
  BY NoTokenAssumption, InstallOfAssumption
  DEF PeersChecked, Goto, At, Server, Call, IInv, SteamTypeOK, KindInv
<1>4. OwnDownInv'
  BY NoTokenAssumption, InstallOfAssumption
  DEF PeersChecked, Goto, At, Server, Call, IInv, SteamTypeOK, KindInv, OwnDownInv
<1>5. LookInv'
  BY NoTokenAssumption, InstallOfAssumption
  DEF PeersChecked, Goto, At, Server, Call, IInv, SteamTypeOK, KindInv, LookInv, PastItsLook
<1>6. FreeInv'
  BY NoTokenAssumption, InstallOfAssumption
  DEF PeersChecked, Goto, At, Server, Call, IInv, SteamTypeOK, KindInv, FreeInv, Path, Sharing
<1> QED
  BY <1>1, <1>2, <1>3, <1>4, <1>5, <1>6 DEF IInv

\* RunLocks keeps each part of the invariant.
LEMMA RunLocksKeeps ==
  ASSUME SteamTypeOK, IInv, NEW o \in Handles, RunLocks(o)
  PROVE  IInv'
<1>1. ReservationHasAnOwner'
  BY AcquireKeeps, NoTokenAssumption, InstallOfAssumption
  DEF RunLocks, Goto, At, Server, Call, IInv, SteamTypeOK, KindInv, ReservationHasAnOwner, Reserving, Path
<1>2. HoldersInv'
  <2>1. Server(o) \in Servers /\ Acquire(o, Server(o)) /\ call' = [call EXCEPT ![o].pc = "locked"]
    BY DEF RunLocks, Goto, At, IInv, KindInv
  <2>2. /\ locks'[Server(o)] = o
        /\ \A t \in Servers, x \in Handles : locks[t] = x => locks'[t] = x
    BY <2>1, AcquireKeeps DEF SteamTypeOK
  <2> QED
    BY <2>1, <2>2 DEF IInv, HoldersInv, KindInv, Holds, At, Server, SteamTypeOK, Call
<1>3. KindInv'
  BY AcquireKeeps, NoTokenAssumption, InstallOfAssumption
  DEF RunLocks, Goto, At, Server, Call, IInv, SteamTypeOK, KindInv
<1>4. OwnDownInv'
  BY AcquireKeeps, NoTokenAssumption, InstallOfAssumption
  DEF RunLocks, Goto, At, Server, Call, IInv, SteamTypeOK, KindInv, OwnDownInv
<1>5. LookInv'
  BY AcquireKeeps, NoTokenAssumption, InstallOfAssumption
  DEF RunLocks, Goto, At, Server, Call, IInv, SteamTypeOK, KindInv, LookInv, PastItsLook
<1>6. FreeInv'
  BY AcquireKeeps, NoTokenAssumption, InstallOfAssumption
  DEF RunLocks, Goto, At, Server, Call, IInv, SteamTypeOK, KindInv, FreeInv, Path, Sharing
<1> QED
  BY <1>1, <1>2, <1>3, <1>4, <1>5, <1>6 DEF IInv

\* RunStops keeps each part of the invariant.
LEMMA RunStopsKeeps ==
  ASSUME SteamTypeOK, IInv, NEW o \in Handles, RunStops(o)
  PROVE  IInv'
<1>1. ReservationHasAnOwner'
  BY NoTokenAssumption, InstallOfAssumption
  DEF RunStops, Goto, At, Server, Call, IInv, SteamTypeOK, KindInv, ReservationHasAnOwner, Reserving, Path
<1>2. HoldersInv'
  BY NoTokenAssumption, InstallOfAssumption
  DEF RunStops, Goto, At, Server, Call, IInv, SteamTypeOK, KindInv, HoldersInv, Holds
<1>3. KindInv'
  BY NoTokenAssumption, InstallOfAssumption
  DEF RunStops, Goto, At, Server, Call, IInv, SteamTypeOK, KindInv
<1>4. OwnDownInv'
  BY NoTokenAssumption, InstallOfAssumption
  DEF RunStops, Goto, At, Server, Call, IInv, SteamTypeOK, KindInv, OwnDownInv
<1>5. LookInv'
  BY NoTokenAssumption, InstallOfAssumption
  DEF RunStops, Goto, At, Server, Call, IInv, SteamTypeOK, KindInv, LookInv, PastItsLook
<1>6. FreeInv'
  BY NoTokenAssumption, InstallOfAssumption
  DEF RunStops, Goto, At, Server, Call, IInv, SteamTypeOK, KindInv, FreeInv, Path, Sharing
<1> QED
  BY <1>1, <1>2, <1>3, <1>4, <1>5, <1>6 DEF IInv

\* ResumeLooks keeps each part of the invariant.
LEMMA ResumeLooksKeeps ==
  ASSUME SteamTypeOK, IInv, NEW o \in Handles, ResumeLooks(o)
  PROVE  IInv'
<1>1. ReservationHasAnOwner'
  BY NoTokenAssumption, InstallOfAssumption
  DEF ResumeLooks, Goto, At, Server, Call, IInv, SteamTypeOK, KindInv, ReservationHasAnOwner, Reserving, Path
<1>2. HoldersInv'
  BY NoTokenAssumption, InstallOfAssumption
  DEF ResumeLooks, Goto, At, Server, Call, IInv, SteamTypeOK, KindInv, HoldersInv, Holds
<1>3. KindInv'
  BY NoTokenAssumption, InstallOfAssumption
  DEF ResumeLooks, Goto, At, Server, Call, IInv, SteamTypeOK, KindInv
<1>4. OwnDownInv'
  BY NoTokenAssumption, InstallOfAssumption
  DEF ResumeLooks, Goto, At, Server, Call, IInv, SteamTypeOK, KindInv, OwnDownInv
<1>5. LookInv'
  BY NoTokenAssumption, InstallOfAssumption
  DEF ResumeLooks, Goto, At, Server, Call, IInv, SteamTypeOK, KindInv, LookInv, PastItsLook
<1>6. FreeInv'
  BY NoTokenAssumption, InstallOfAssumption
  DEF ResumeLooks, Goto, At, Server, Call, IInv, SteamTypeOK, KindInv, FreeInv, Path, Sharing
<1> QED
  BY <1>1, <1>2, <1>3, <1>4, <1>5, <1>6 DEF IInv

\* CheckEnds keeps each part of the invariant.
LEMMA CheckEndsKeeps ==
  ASSUME SteamTypeOK, IInv, NEW o \in Handles, CheckEnds(o)
  PROVE  IInv'
<1>1. ReservationHasAnOwner'
  BY NoTokenAssumption, InstallOfAssumption
  DEF CheckEnds, Goto, At, Server, Call, Clear, Ended, IInv, SteamTypeOK, KindInv, ReservationHasAnOwner, Reserving, Path
<1>2. HoldersInv'
  BY NoTokenAssumption, InstallOfAssumption
  DEF CheckEnds, Goto, At, Server, Call, Clear, Ended, IInv, SteamTypeOK, KindInv, HoldersInv, Holds
<1>3. KindInv'
  BY NoTokenAssumption, InstallOfAssumption
  DEF CheckEnds, Goto, At, Server, Call, Clear, Ended, IInv, SteamTypeOK, KindInv
<1>4. OwnDownInv'
  BY NoTokenAssumption, InstallOfAssumption
  DEF CheckEnds, Goto, At, Server, Call, Clear, Ended, IInv, SteamTypeOK, KindInv, OwnDownInv
<1>5. LookInv'
  BY NoTokenAssumption, InstallOfAssumption
  DEF CheckEnds, Goto, At, Server, Call, Clear, Ended, IInv, SteamTypeOK, KindInv, LookInv, PastItsLook
<1>6. FreeInv'
  BY NoTokenAssumption, InstallOfAssumption
  DEF CheckEnds, Goto, At, Server, Call, Clear, Ended, IInv, SteamTypeOK, KindInv, FreeInv, Path, Sharing
<1> QED
  BY <1>1, <1>2, <1>3, <1>4, <1>5, <1>6 DEF IInv

\* InstallScans keeps each part of the invariant.
LEMMA InstallScansKeeps ==
  ASSUME SteamTypeOK, IInv, NEW o \in Handles, InstallScans(o)
  PROVE  IInv'
<1>1. ReservationHasAnOwner'
  BY NoTokenAssumption, InstallOfAssumption
  DEF InstallScans, Goto, At, Server, Call, FoundStopped, IInv, SteamTypeOK, KindInv, ReservationHasAnOwner, Reserving, Path
<1>2. HoldersInv'
  BY NoTokenAssumption, InstallOfAssumption
  DEF InstallScans, Goto, At, Server, Call, FoundStopped, IInv, SteamTypeOK, KindInv, HoldersInv, Holds
<1>3. KindInv'
  BY NoTokenAssumption, InstallOfAssumption
  DEF InstallScans, Goto, At, Server, Call, FoundStopped, IInv, SteamTypeOK, KindInv
<1>4. OwnDownInv'
  BY NoTokenAssumption, InstallOfAssumption
  DEF InstallScans, Goto, At, Server, Call, FoundStopped, IInv, SteamTypeOK, KindInv, OwnDownInv
<1>5. LookInv'
  BY NoTokenAssumption, InstallOfAssumption
  DEF InstallScans, Goto, At, Server, Call, FoundStopped, IInv, SteamTypeOK, KindInv, LookInv, PastItsLook
<1>6. FreeInv'
  BY NoTokenAssumption, InstallOfAssumption
  DEF InstallScans, Goto, At, Server, Call, FoundStopped, IInv, SteamTypeOK, KindInv, FreeInv, Path, Sharing
<1> QED
  BY <1>1, <1>2, <1>3, <1>4, <1>5, <1>6 DEF IInv

\* InstallDownloads keeps each part of the invariant.
LEMMA InstallDownloadsKeeps ==
  ASSUME SteamTypeOK, IInv, NEW o \in Handles, InstallDownloads(o)
  PROVE  IInv'
<1>1. ReservationHasAnOwner'
  BY NoTokenAssumption, InstallOfAssumption
  DEF InstallDownloads, Goto, At, Server, Call, Scanned, IInv, SteamTypeOK, KindInv, ReservationHasAnOwner, Reserving, Path
<1>2. HoldersInv'
  BY NoTokenAssumption, InstallOfAssumption
  DEF InstallDownloads, Goto, At, Server, Call, Scanned, IInv, SteamTypeOK, KindInv, HoldersInv, Holds
<1>3. KindInv'
  BY NoTokenAssumption, InstallOfAssumption
  DEF InstallDownloads, Goto, At, Server, Call, Scanned, IInv, SteamTypeOK, KindInv
<1>4. OwnDownInv'
  BY NoTokenAssumption, InstallOfAssumption
  DEF InstallDownloads, Goto, At, Server, Call, Scanned, IInv, SteamTypeOK, KindInv, OwnDownInv
<1>5. LookInv'
  BY NoTokenAssumption, InstallOfAssumption
  DEF InstallDownloads, Goto, At, Server, Call, Scanned, IInv, SteamTypeOK, KindInv, LookInv, PastItsLook
<1>6. FreeInv'
  BY NoTokenAssumption, InstallOfAssumption
  DEF InstallDownloads, Goto, At, Server, Call, Scanned, IInv, SteamTypeOK, KindInv, FreeInv, Path, Sharing
<1> QED
  BY <1>1, <1>2, <1>3, <1>4, <1>5, <1>6 DEF IInv

\* InstallReserves keeps each part of the invariant.
LEMMA InstallReservesKeeps ==
  ASSUME SteamTypeOK, IInv, NEW o \in Handles, InstallReserves(o)
  PROVE  IInv'
<1>1. ReservationHasAnOwner'
  BY NoTokenAssumption, InstallOfAssumption
  DEF InstallReserves, Goto, At, Server, Call, Reserve, Scanned, IInv, SteamTypeOK, KindInv, ReservationHasAnOwner, Reserving, Path
<1>2. HoldersInv'
  BY NoTokenAssumption, InstallOfAssumption
  DEF InstallReserves, Goto, At, Server, Call, Reserve, Scanned, IInv, SteamTypeOK, KindInv, HoldersInv, Holds
<1>3. KindInv'
  BY NoTokenAssumption, InstallOfAssumption
  DEF InstallReserves, Goto, At, Server, Call, Reserve, Scanned, IInv, SteamTypeOK, KindInv
<1>4. OwnDownInv'
  BY NoTokenAssumption, InstallOfAssumption
  DEF InstallReserves, Goto, At, Server, Call, Reserve, Scanned, IInv, SteamTypeOK, KindInv, OwnDownInv
<1>5. LookInv'
  BY NoTokenAssumption, InstallOfAssumption
  DEF InstallReserves, Goto, At, Server, Call, Reserve, Scanned, IInv, SteamTypeOK, KindInv, LookInv, PastItsLook
<1>6. FreeInv'
  BY NoTokenAssumption, InstallOfAssumption
  DEF InstallReserves, Goto, At, Server, Call, Reserve, Scanned, IInv, SteamTypeOK, KindInv, FreeInv, Path, Sharing
<1> QED
  BY <1>1, <1>2, <1>3, <1>4, <1>5, <1>6 DEF IInv

\* InstallCloses keeps each part of the invariant.
LEMMA InstallClosesKeeps ==
  ASSUME SteamTypeOK, IInv, NEW o \in Handles, InstallCloses(o)
  PROVE  IInv'
<1>1. ReservationHasAnOwner'
  BY NoTokenAssumption, InstallOfAssumption
  DEF InstallCloses, Goto, At, Server, Call, Clear, Ended, IInv, SteamTypeOK, KindInv, ReservationHasAnOwner, Reserving, Path
<1>2. HoldersInv'
  BY NoTokenAssumption, InstallOfAssumption
  DEF InstallCloses, Goto, At, Server, Call, Clear, Ended, IInv, SteamTypeOK, KindInv, HoldersInv, Holds
<1>3. KindInv'
  BY NoTokenAssumption, InstallOfAssumption
  DEF InstallCloses, Goto, At, Server, Call, Clear, Ended, IInv, SteamTypeOK, KindInv
<1>4. OwnDownInv'
  BY NoTokenAssumption, InstallOfAssumption
  DEF InstallCloses, Goto, At, Server, Call, Clear, Ended, IInv, SteamTypeOK, KindInv, OwnDownInv
<1>5. LookInv'
  BY NoTokenAssumption, InstallOfAssumption
  DEF InstallCloses, Goto, At, Server, Call, Clear, Ended, IInv, SteamTypeOK, KindInv, LookInv, PastItsLook
<1>6. FreeInv'
  BY NoTokenAssumption, InstallOfAssumption
  DEF InstallCloses, Goto, At, Server, Call, Clear, Ended, IInv, SteamTypeOK, KindInv, FreeInv, Path, Sharing
<1> QED
  BY <1>1, <1>2, <1>3, <1>4, <1>5, <1>6 DEF IInv

\* DeleteScans keeps each part of the invariant.
LEMMA DeleteScansKeeps ==
  ASSUME SteamTypeOK, IInv, NEW o \in Handles, DeleteScans(o)
  PROVE  IInv'
<1>1. ReservationHasAnOwner'
  BY NoTokenAssumption, InstallOfAssumption
  DEF DeleteScans, Goto, At, Server, Call, FoundStopped, IInv, SteamTypeOK, KindInv, ReservationHasAnOwner, Reserving, Path
<1>2. HoldersInv'
  BY NoTokenAssumption, InstallOfAssumption
  DEF DeleteScans, Goto, At, Server, Call, FoundStopped, IInv, SteamTypeOK, KindInv, HoldersInv, Holds
<1>3. KindInv'
  BY NoTokenAssumption, InstallOfAssumption
  DEF DeleteScans, Goto, At, Server, Call, FoundStopped, IInv, SteamTypeOK, KindInv
<1>4. OwnDownInv'
  BY NoTokenAssumption, InstallOfAssumption
  DEF DeleteScans, Goto, At, Server, Call, FoundStopped, IInv, SteamTypeOK, KindInv, OwnDownInv
<1>5. LookInv'
  BY NoTokenAssumption, InstallOfAssumption
  DEF DeleteScans, Goto, At, Server, Call, FoundStopped, IInv, SteamTypeOK, KindInv, LookInv, PastItsLook
<1>6. FreeInv'
  BY NoTokenAssumption, InstallOfAssumption
  DEF DeleteScans, Goto, At, Server, Call, FoundStopped, IInv, SteamTypeOK, KindInv, FreeInv, Path, Sharing
<1> QED
  BY <1>1, <1>2, <1>3, <1>4, <1>5, <1>6 DEF IInv

\* DeleteAgain keeps each part of the invariant.
LEMMA DeleteAgainKeeps ==
  ASSUME SteamTypeOK, IInv, NEW o \in Handles, DeleteAgain(o)
  PROVE  IInv'
<1>1. ReservationHasAnOwner'
  BY NoTokenAssumption, InstallOfAssumption
  DEF DeleteAgain, Goto, At, Server, Call, LastStopped, IInv, SteamTypeOK, KindInv, ReservationHasAnOwner, Reserving, Path
<1>2. HoldersInv'
  BY NoTokenAssumption, InstallOfAssumption
  DEF DeleteAgain, Goto, At, Server, Call, LastStopped, IInv, SteamTypeOK, KindInv, HoldersInv, Holds
<1>3. KindInv'
  BY NoTokenAssumption, InstallOfAssumption
  DEF DeleteAgain, Goto, At, Server, Call, LastStopped, IInv, SteamTypeOK, KindInv
<1>4. OwnDownInv'
  BY NoTokenAssumption, InstallOfAssumption
  DEF DeleteAgain, Goto, At, Server, Call, LastStopped, IInv, SteamTypeOK, KindInv, OwnDownInv
<1>5. LookInv'
  BY NoTokenAssumption, InstallOfAssumption
  DEF DeleteAgain, Goto, At, Server, Call, LastStopped, IInv, SteamTypeOK, KindInv, LookInv, PastItsLook
<1>6. FreeInv'
  BY NoTokenAssumption, InstallOfAssumption
  DEF DeleteAgain, Goto, At, Server, Call, LastStopped, IInv, SteamTypeOK, KindInv, FreeInv, Path, Sharing
<1> QED
  BY <1>1, <1>2, <1>3, <1>4, <1>5, <1>6 DEF IInv

\* StrayExits keeps each part of the invariant.
LEMMA StrayExitsKeeps ==
  ASSUME SteamTypeOK, IInv, NEW o \in Handles, StrayExits(o)
  PROVE  IInv'
<1>1. ReservationHasAnOwner'
  BY NoTokenAssumption, InstallOfAssumption
  DEF StrayExits, At, Server, Call, IInv, SteamTypeOK, KindInv, ReservationHasAnOwner, Reserving, Path
<1>2. HoldersInv'
  BY NoTokenAssumption, InstallOfAssumption
  DEF StrayExits, At, Server, Call, IInv, SteamTypeOK, KindInv, HoldersInv, Holds
<1>3. KindInv'
  BY NoTokenAssumption, InstallOfAssumption
  DEF StrayExits, At, Server, Call, IInv, SteamTypeOK, KindInv
<1>4. OwnDownInv'
  BY NoTokenAssumption, InstallOfAssumption
  DEF StrayExits, At, Server, Call, IInv, SteamTypeOK, KindInv, OwnDownInv
<1>5. LookInv'
  BY NoTokenAssumption, InstallOfAssumption
  DEF StrayExits, At, Server, Call, IInv, SteamTypeOK, KindInv, LookInv, PastItsLook
<1>6. FreeInv'
  BY NoTokenAssumption, InstallOfAssumption
  DEF StrayExits, At, Server, Call, IInv, SteamTypeOK, KindInv, FreeInv, Path, Sharing
<1> QED
  BY <1>1, <1>2, <1>3, <1>4, <1>5, <1>6 DEF IInv

\* ReleasesTwice keeps each part of the invariant.
LEMMA ReleasesTwiceKeeps ==
  ASSUME SteamTypeOK, IInv, NEW o \in Handles, ReleasesTwice(o)
  PROVE  IInv'
<1>1. ReservationHasAnOwner'
  BY NoTokenAssumption, InstallOfAssumption
  DEF ReleasesTwice, At, Server, Call, ReleaseAgain, vars, IInv, SteamTypeOK, KindInv, ReservationHasAnOwner, Reserving, Path
<1>2. HoldersInv'
  BY NoTokenAssumption, InstallOfAssumption
  DEF ReleasesTwice, At, Server, Call, ReleaseAgain, vars, IInv, SteamTypeOK, KindInv, HoldersInv, Holds
<1>3. KindInv'
  BY NoTokenAssumption, InstallOfAssumption
  DEF ReleasesTwice, At, Server, Call, ReleaseAgain, vars, IInv, SteamTypeOK, KindInv
<1>4. OwnDownInv'
  BY NoTokenAssumption, InstallOfAssumption
  DEF ReleasesTwice, At, Server, Call, ReleaseAgain, vars, IInv, SteamTypeOK, KindInv, OwnDownInv
<1>5. LookInv'
  BY NoTokenAssumption, InstallOfAssumption
  DEF ReleasesTwice, At, Server, Call, ReleaseAgain, vars, IInv, SteamTypeOK, KindInv, LookInv, PastItsLook
<1>6. FreeInv'
  BY NoTokenAssumption, InstallOfAssumption
  DEF ReleasesTwice, At, Server, Call, ReleaseAgain, vars, IInv, SteamTypeOK, KindInv, FreeInv, Path, Sharing
<1> QED
  BY <1>1, <1>2, <1>3, <1>4, <1>5, <1>6 DEF IInv

\* GameExits keeps each part of the invariant.
LEMMA GameExitsKeeps ==
  ASSUME SteamTypeOK, IInv, NEW s \in Servers, GameExits(s)
  PROVE  IInv'
<1>1. ReservationHasAnOwner'
  BY NoTokenAssumption, InstallOfAssumption
  DEF GameExits, At, Server, Call, IInv, SteamTypeOK, KindInv, ReservationHasAnOwner, Reserving, Path
<1>2. HoldersInv'
  BY NoTokenAssumption, InstallOfAssumption
  DEF GameExits, At, Server, Call, IInv, SteamTypeOK, KindInv, HoldersInv, Holds
<1>3. KindInv'
  BY NoTokenAssumption, InstallOfAssumption
  DEF GameExits, At, Server, Call, IInv, SteamTypeOK, KindInv
<1>4. OwnDownInv'
  BY NoTokenAssumption, InstallOfAssumption
  DEF GameExits, At, Server, Call, IInv, SteamTypeOK, KindInv, OwnDownInv
<1>5. LookInv'
  BY NoTokenAssumption, InstallOfAssumption
  DEF GameExits, At, Server, Call, IInv, SteamTypeOK, KindInv, LookInv, PastItsLook
<1>6. FreeInv'
  BY NoTokenAssumption, InstallOfAssumption
  DEF GameExits, At, Server, Call, IInv, SteamTypeOK, KindInv, FreeInv, Path, Sharing
<1> QED
  BY <1>1, <1>2, <1>3, <1>4, <1>5, <1>6 DEF IInv

\* Every step keeps the invariant.
LEMMA IInvStep ==
  ASSUME SteamTypeOK, IInv, [SteamNext]_steamVars
  PROVE  IInv'
<1>1. ASSUME NEW o \in Handles, NEW s \in Servers, Invoke(o, s) PROVE IInv'
  BY <1>1, StartBeginsKeeps, UpdateBeginsKeeps, CheckBeginsKeeps, InstallBeginsKeeps,
     DeleteBeginsKeeps DEF Invoke
<1>2. ASSUME NEW o \in Handles, Starting(o) PROVE IInv'
  BY <1>2, LooksAgainKeeps, LaunchesKeeps, StartEndsKeeps DEF Starting
<1>3. ASSUME NEW o \in Handles, Updates(o) PROVE IInv'
  BY <1>3, UpdateReservesKeeps, PeerStoppedKeeps, PeersCheckedKeeps, RunLocksKeeps,
     RunStopsKeeps, SteamBeginsKeeps, UpdateSteamClosesKeeps, ResumeLooksKeeps DEF Updates
<1>4. ASSUME NEW o \in Handles, Others(o) PROVE IInv'
  BY <1>4, CheckEndsKeeps, InstallScansKeeps, InstallDownloadsKeeps, InstallReservesKeeps,
     InstallClosesKeeps, DeleteScansKeeps, DeleteAgainKeeps, DeletesKeeps DEF Others
<1>5. ASSUME NEW o \in Handles, GivesUp(o) \/ StrayExits(o) \/ ReleasesTwice(o) PROVE IInv'
  BY <1>5, GivesUpKeeps, StrayExitsKeeps, ReleasesTwiceKeeps
<1>6. ASSUME NEW s \in Servers, GameExits(s) PROVE IInv'
  BY <1>6, GameExitsKeeps
<1>7. CASE UNCHANGED steamVars
  <2> USE <1>7 DEF steamVars, IInv, At, Server, Path
  <2>1. ReservationHasAnOwner' /\ HoldersInv' /\ KindInv'
    BY DEF ReservationHasAnOwner, Reserving, HoldersInv, Holds, KindInv
  <2>2. OwnDownInv' /\ LookInv' /\ FreeInv'
    BY DEF OwnDownInv, LookInv, PastItsLook, FreeInv, Sharing
  <2> QED
    BY <2>1, <2>2
<1> QED
  BY <1>1, <1>2, <1>3, <1>4, <1>5, <1>6, <1>7 DEF SteamNext

\* The invariant holds before any call.
LEMMA IInvInit ==
  ASSUME SteamInit
  PROVE  IInv
BY NoTokenAssumption
DEF SteamInit, Init, IInv, ReservationHasAnOwner, Reserving, HoldersInv, Holds, KindInv,
    OwnDownInv, LookInv, FreeInv, PastItsLook, At, Server, Path, Idle

-----------------------------------------------------------------------------
\* A call that only goes on to its next await is still a call.
LEMMA GotoTyped ==
  ASSUME SteamTypeOK, NEW o \in Handles, NEW l \in Awaits, Goto(o, l)
  PROVE  call' \in [Handles -> Call]
BY ZenonT(60) DEF SteamTypeOK, Goto, Call

\* So is one that begins,
LEMMA BeginTyped ==
  ASSUME SteamTypeOK, NEW o \in Handles, NEW k \in Kinds, NEW s \in Servers, NEW l \in Awaits,
         NEW T \in SUBSET Servers, Begin(o, k, s, l, T)
  PROVE  call' \in [Handles -> Call]
BY DEF SteamTypeOK, Begin, Call

\* one that ends,
LEMMA EndedTyped ==
  ASSUME SteamTypeOK, NEW o \in Handles, Ended(o)
  PROVE  call' \in [Handles -> Call]
<1>1. [Idle EXCEPT !.pc = "done"] \in Call
  BY DEF Idle, Call, Kinds, Awaits
<1> QED
  BY <1>1 DEF SteamTypeOK, Ended

\* one that takes up a list of servers to scan,
LEMMA MoveTyped ==
  ASSUME SteamTypeOK, NEW o \in Handles, NEW l \in Awaits, NEW T \in SUBSET Servers,
         call' = [call EXCEPT ![o].pc = l, ![o].todo = T]
  PROVE  call' \in [Handles -> Call]
<1>1. call \in [Handles -> Call]
  BY DEF SteamTypeOK
<1>2. [call[o] EXCEPT !.pc = l, !.todo = T] \in Call
  BY <1>1 DEF Call
<1>3. call' = [call EXCEPT ![o] = [call[o] EXCEPT !.pc = l, !.todo = T]]
  BY <1>1
<1> QED
  BY <1>1, <1>2, <1>3

\* and one that notes whether the game was up.
LEMMA StopTyped ==
  ASSUME SteamTypeOK, NEW o \in Handles, NEW l \in Awaits, NEW T \in SUBSET Servers,
         NEW b \in BOOLEAN,
         call' = [call EXCEPT ![o].pc = l, ![o].was = b, ![o].todo = T]
  PROVE  call' \in [Handles -> Call]
<1>1. call \in [Handles -> Call]
  BY DEF SteamTypeOK
<1>2. [call[o] EXCEPT !.pc = l, !.was = b, !.todo = T] \in Call
  BY <1>1 DEF Call
<1>3. call' = [call EXCEPT ![o] = [call[o] EXCEPT !.pc = l, !.was = b, !.todo = T]]
  BY <1>1
<1> QED
  BY <1>1, <1>2, <1>3

\* Letting go of a lock keeps the map and the handles well typed.
LEMMA ReleaseTyped ==
  ASSUME TypeOK, NEW o \in Handles, LetGo(o)
  PROVE  TypeOK'
<1>1. CASE Live(o)
  <2>1. Release(o)
    BY <1>1 DEF LetGo
  <2> QED
    BY <1>1, <2>1 DEF Release, Live, Given, TypeOK
<1>2. CASE ~Live(o)
  BY <1>2 DEF LetGo, lockVars, TypeOK
<1> QED
  BY <1>1, <1>2

\* So does every step of a loop of scans.
LEMMA FoundTyped ==
  ASSUME SteamTypeOK, NEW o \in Handles, FoundStopped(o)
  PROVE  SteamTypeOK'
<1>1. call' \in [Handles -> Call]
  BY DEF SteamTypeOK, FoundStopped, Call
<1> QED
  BY <1>1 DEF SteamTypeOK, TypeOK, FoundStopped

\* So does taking a lock.
LEMMA AcquireTyped ==
  ASSUME TypeOK, NEW o \in Handles, NEW s \in Servers \cup {NoToken}, Acquire(o, s)
  PROVE  TypeOK'
BY DEF TypeOK, Acquire

\* The end of a call keeps all types.
LEMMA FinishTyped ==
  ASSUME SteamTypeOK, NEW o \in Handles, Finish(o)
  PROVE  /\ TypeOK' /\ res' \in [Installs -> Handles \cup {NoToken}]
         /\ updating' \in [Servers -> BOOLEAN] /\ call' \in [Handles -> Call]
<1>1. TypeOK'
  BY ReleaseTyped DEF SteamTypeOK, Finish
<1>2. call' \in [Handles -> Call]
  BY EndedTyped DEF Finish
<1>3. /\ res' \in [Installs -> Handles \cup {NoToken}]
      /\ updating' \in [Servers -> BOOLEAN]
  BY DEF SteamTypeOK, Finish, Clear
<1> QED
  BY <1>1, <1>2, <1>3

\* Every variable keeps its type.
LEMMA TypeStep ==
  ASSUME SteamTypeOK, [SteamNext]_steamVars
  PROVE  SteamTypeOK'
<1>1. ASSUME NEW o \in Handles, NEW s \in Servers, Invoke(o, s) PROVE SteamTypeOK'
  <2>1. call' \in [Handles -> Call]
    BY <1>1, BeginTyped DEF Invoke, StartBegins, UpdateBegins, CheckBegins, InstallBegins,
       DeleteBegins, Kinds, Awaits, Sharing
  <2>2. TypeOK'
    BY <1>1, AcquireTyped DEF Invoke, StartBegins, UpdateBegins, CheckBegins, InstallBegins,
       DeleteBegins, TypeOK, SteamTypeOK
  <2>3. /\ res' \in [Installs -> Handles \cup {NoToken}]
        /\ ahead' \in [Installs -> SUBSET Servers]
        /\ UNCHANGED <<game, updating, steam>>
    BY <1>1 DEF Invoke, StartBegins, UpdateBegins, CheckBegins, InstallBegins, DeleteBegins,
       Reserve, PastItsLook, SteamTypeOK
  <2> QED
    BY <2>1, <2>2, <2>3 DEF SteamTypeOK
<1>2. ASSUME NEW o \in Handles,
             LooksAgain(o) \/ Launches(o) \/ PeersChecked(o) \/ ResumeLooks(o) \/ InstallDownloads(o)
      PROVE  SteamTypeOK'
  <2>1. call' \in [Handles -> Call]
    BY <1>2, GotoTyped
    DEF LooksAgain, Launches, PeersChecked, ResumeLooks, InstallDownloads, Awaits
  <2> QED
    BY <1>2, <2>1
    DEF LooksAgain, Launches, PeersChecked, ResumeLooks, InstallDownloads, TypeOK, SteamTypeOK
<1>3. ASSUME NEW o \in Handles, PeerStopped(o) \/ InstallScans(o) \/ DeleteScans(o)
      PROVE  SteamTypeOK'
  BY <1>3, FoundTyped DEF PeerStopped, InstallScans, DeleteScans
<1>4. ASSUME NEW o \in Handles, StartEnds(o) \/ Deletes(o) PROVE SteamTypeOK'
  BY <1>4, FinishTyped DEF StartEnds, Deletes, SteamTypeOK
<1>5. ASSUME NEW o \in Handles, UpdateReserves(o) PROVE SteamTypeOK'
  <2>1. call' \in [Handles -> Call]
    <3>1. call' = [call EXCEPT ![o].pc = "peers", ![o].todo = Sharing(Server(o)) \ {Server(o)}]
      BY <1>5 DEF UpdateReserves
    <3>2. Sharing(Server(o)) \ {Server(o)} \in SUBSET Servers /\ "peers" \in Awaits
      BY DEF Sharing, Awaits
    <3> QED
      BY <3>1, <3>2, MoveTyped
  <2> QED
    BY <1>5, <2>1 DEF UpdateReserves, Reserve, PastItsLook, TypeOK, SteamTypeOK
<1>6. ASSUME NEW o \in Handles, RunLocks(o) PROVE SteamTypeOK'
  <2>1. call' \in [Handles -> Call]
    BY <1>6, GotoTyped DEF RunLocks, Awaits
  <2>2. Server(o) \in Servers \cup {NoToken}
    BY DEF Server, Call, SteamTypeOK
  <2> QED
    BY <1>6, <2>1, <2>2, AcquireTyped DEF RunLocks, SteamTypeOK
<1>7. ASSUME NEW o \in Handles, RunStops(o) PROVE SteamTypeOK'
  <2>1. (game[Server(o)] = "up") \in BOOLEAN
    OBVIOUS
  <2>2. call' \in [Handles -> Call]
    BY <1>7, <2>1, StopTyped DEF RunStops, Sharing, Awaits
  <2> QED
    BY <1>7, <2>2 DEF RunStops, TypeOK, SteamTypeOK
<1>8. ASSUME NEW o \in Handles, SteamBegins(o) \/ UpdateSteamCloses(o) \/ GivesUp(o)
      PROVE  SteamTypeOK'
  <2>1. CASE Finish(o)
    BY <1>8, <2>1, FinishTyped DEF SteamBegins, UpdateSteamCloses, GivesUp, SteamTypeOK
  <2>2. CASE ~Finish(o)
    <3>1. call' \in [Handles -> Call]
      BY <1>8, <2>2, GotoTyped, EndedTyped
      DEF SteamBegins, UpdateSteamCloses, GivesUp, Awaits
    <3> QED
      BY <1>8, <2>2, <3>1 DEF SteamBegins, UpdateSteamCloses, GivesUp, Clear, TypeOK, SteamTypeOK
  <2> QED
    BY <2>1, <2>2
<1>9. ASSUME NEW o \in Handles, CheckEnds(o) \/ InstallCloses(o) PROVE SteamTypeOK'
  <2>1. call' \in [Handles -> Call]
    BY <1>9, EndedTyped DEF CheckEnds, InstallCloses
  <2> QED
    BY <1>9, <2>1 DEF CheckEnds, InstallCloses, Clear, TypeOK, SteamTypeOK
<1>10. ASSUME NEW o \in Handles, InstallReserves(o) PROVE SteamTypeOK'
  <2>1. call' \in [Handles -> Call]
    BY <1>10, GotoTyped DEF InstallReserves, Awaits
  <2> QED
    BY <1>10, <2>1 DEF InstallReserves, Reserve, PastItsLook, Sharing, TypeOK, SteamTypeOK
<1>11. ASSUME NEW o \in Handles, DeleteAgain(o) PROVE SteamTypeOK'
  <2>1. call' \in [Handles -> Call]
    <3>1. call' = [call EXCEPT ![o].pc = "second", ![o].todo = Sharing(Server(o))]
      BY <1>11 DEF DeleteAgain
    <3>2. Sharing(Server(o)) \in SUBSET Servers /\ "second" \in Awaits
      BY DEF Sharing, Awaits
    <3> QED
      BY <3>1, <3>2, MoveTyped
  <2> QED
    BY <1>11, <2>1 DEF DeleteAgain, TypeOK, SteamTypeOK
<1>12. ASSUME NEW o \in Handles, StrayExits(o) \/ ReleasesTwice(o) PROVE SteamTypeOK'
  BY <1>12 DEF StrayExits, ReleasesTwice, ReleaseAgain, vars, TypeOK, SteamTypeOK
<1>13. ASSUME NEW s \in Servers, GameExits(s) PROVE SteamTypeOK'
  BY <1>13 DEF GameExits, TypeOK, SteamTypeOK
<1>14. CASE UNCHANGED steamVars
  BY <1>14 DEF steamVars, TypeOK, SteamTypeOK
<1> QED
  BY <1>1, <1>2, <1>3, <1>4, <1>5, <1>6, <1>7, <1>8, <1>9, <1>10, <1>11, <1>12, <1>13, <1>14
  DEF SteamNext, Starting, Updates, Others

\* All variables have their types before any call.
LEMMA TypeInit ==
  ASSUME SteamInit
  PROVE  SteamTypeOK
BY DEF SteamInit, Init, SteamTypeOK, TypeOK, Fresh, Idle, Call, Kinds, Awaits

\* Reservations, games, calls and histories keep their types.
THEOREM SteamTypeCorrect == SteamSpec => []SteamTypeOK
BY TypeInit, TypeStep, PTL DEF SteamSpec

\* The inductive invariant holds in every reachable state.
THEOREM SteamInvariant == SteamSpec => []IInv
BY IInvInit, IInvStep, SteamTypeCorrect, PTL DEF SteamSpec

\* No call that has ended leaves a reservation behind, whatever fails, and
\* however many servers, installs and calls there are.
THEOREM ReservationsEnd == SteamSpec => []ReservationHasAnOwner
<1>1. IInv => ReservationHasAnOwner
  BY DEF IInv
<1> QED
  BY <1>1, SteamInvariant, PTL

\* SteamCMD and deletions find the own game stopped, and the shared install
\* free but for starts that were ahead of the reservation.
THEOREM InstallStaysFree == SteamSpec => []InstallIsFree
<1>1. SteamTypeOK /\ IInv => InstallIsFree
  <2> SUFFICES ASSUME SteamTypeOK, IInv PROVE InstallIsFree
    OBVIOUS
  <2>1. ASSUME NEW o \in Handles, At(o, "second"), LastStopped(o)
        PROVE  game[Server(o)] = "down"
    BY <2>1 DEF IInv, OwnDownInv, LastStopped
  <2>2. ASSUME NEW o \in Handles, At(o, "steam"), call[o].kind = "update"
        PROVE  game[Server(o)] = "down"
    BY <2>2 DEF IInv, OwnDownInv
  <2>3. ASSUME NEW o \in Handles, At(o, "steam"), res[Path(o)] = o,
               NEW p \in Sharing(Server(o)), game[p] = "up"
        PROVE  p \in ahead[Path(o)]
    BY <2>3 DEF IInv, FreeInv, At
  <2> QED
    BY <2>1, <2>2, <2>3 DEF InstallIsFree
<1> QED
  BY <1>1, SteamTypeCorrect, SteamInvariant, PTL

\* The calls use the lock as its module lets them, so all that was proved of
\* the token map holds here: the composition still implements the mutex.
THEOREM LockInComposition == SteamSpec => ImplementsMutex
<1>1. SteamInit => Init
  BY DEF SteamInit
<1>2. IInv /\ [SteamNext]_steamVars => [Next]_vars
  <2> SUFFICES ASSUME IInv, [SteamNext]_steamVars PROVE [Next]_vars
    OBVIOUS
  <2> USE DEF lockVars, vars
  <2>1. ASSUME NEW o \in Handles, LetGo(o) PROVE [Next]_vars
    BY <2>1 DEF LetGo, Next
  <2>2. ASSUME NEW o \in Handles, NEW s \in Servers, Invoke(o, s) PROVE [Next]_vars
    BY <2>2 DEF Invoke, StartBegins, UpdateBegins, CheckBegins, InstallBegins, DeleteBegins, Next
  <2>3. ASSUME NEW o \in Handles, Starting(o) PROVE [Next]_vars
    BY <2>1, <2>3 DEF Starting, LooksAgain, Launches, StartEnds, Finish
  <2>4. ASSUME NEW o \in Handles, RunLocks(o) PROVE [Next]_vars
    BY <2>4 DEF RunLocks, Next, IInv, KindInv, At
  <2>5. ASSUME NEW o \in Handles, Updates(o), ~RunLocks(o) PROVE [Next]_vars
    BY <2>1, <2>5 DEF Updates, UpdateReserves, PeerStopped, FoundStopped, PeersChecked,
       RunStops, SteamBegins, UpdateSteamCloses, ResumeLooks, Finish
  <2>6. ASSUME NEW o \in Handles, Others(o) PROVE [Next]_vars
    BY <2>1, <2>6 DEF Others, CheckEnds, InstallScans, InstallDownloads, InstallReserves,
       InstallCloses, DeleteScans, DeleteAgain, FoundStopped, Deletes, Finish
  <2>7. ASSUME NEW o \in Handles, GivesUp(o) \/ StrayExits(o) \/ ReleasesTwice(o)
        PROVE  [Next]_vars
    BY <2>1, <2>7 DEF GivesUp, Finish, StrayExits, ReleasesTwice, ReleaseAgain
  <2>8. ASSUME NEW s \in Servers, GameExits(s) PROVE [Next]_vars
    BY <2>8 DEF GameExits
  <2>9. CASE UNCHANGED steamVars
    BY <2>9 DEF steamVars
  <2> QED
    BY <2>2, <2>3, <2>4, <2>5, <2>6, <2>7, <2>8, <2>9 DEF SteamNext
<1> QED
  BY <1>1, <1>2, SteamInvariant, TokensImplementMutex, PTL DEF SteamSpec, Spec
=============================================================================
