---------------------------- MODULE SessionsProofs ----------------------------
(***************************************************************************)
(* Theorems about Sessions, for any tabs, browsers and bounds.  The row is *)
(* safe because whoever computes a hash is alone (RowInv).  A browser with *)
(* one tab stays signed in because its tab has one refresh under way at a  *)
(* time, and its sessions are known to nobody else (BrowserInv).           *)
(***************************************************************************)
EXTENDS Sessions, TLAPS, FiniteSetTheorems

\* Whoever computes a hash holds the mutex, and the row is still as it was read,
\* except that a lock may have ended.
MutexInv ==
  \A c \in Calls : call[c].pc = "hash" =>
    /\ holder = c
    /\ call[c].rec \in Account
    /\ call[c].rec.gen = account.gen
    /\ call[c].rec.sessions = account.sessions
    /\ call[c].rec.failed = account.failed
    /\ account.locked => call[c].rec.locked

\* Sessions are numbered in order.
NumberInv == account.sessions \cup ended \subseteq 1..issued

\* What is counted of wrong guesses, in the row and by an observer.
GuessInv ==
  /\ account.locked => guesses <= MaxFailed
  /\ ~account.locked => guesses <= account.failed

\* There is room for one session more.
Room(S) == \A i \in S : Cardinality({j \in S : j > i}) < MaxSessions

RowInv == /\ MutexInv /\ NumberInv /\ GuessInv /\ Room(account.sessions)
          /\ EndedSessionsStayEnded /\ ChangesPersist

Open(c) == call[c].pc # "free"

\* What a request looks like on its way.
Shape(r) ==
  /\ r.from \in Tabs
  /\ r.pc = "sent" => ~r.ok
  /\ r.kind \in {"refresh", "logout"} => r.pc \in {"sent", "answered", "lost"}
  /\ r.kind = "login" => /\ r.pc \in {"sent", "hash", "answered", "lost"}
                         /\ r.pc \in {"sent", "hash"} => r.token = None
  /\ r.kind \in {"change", "reset"} => r.token = None
CallInv == \A c \in Calls : Open(c) => Shape(call[c])

\* Of a tab there is at most one refresh, and one other request, on its way.
WaitInv ==
  \A c \in Calls : Open(c) =>
    /\ IF call[c].kind = "refresh" THEN tab[call[c].from].refreshing
                                   ELSE tab[call[c].from].waiting
    /\ call[c].kind = "login" => ~tab[call[c].from].refreshing
SingleInv ==
  \A c, d \in Calls : /\ Open(c) /\ Open(d) /\ call[c].from = call[d].from
                      /\ (call[c].kind = "refresh") = (call[d].kind = "refresh")
                      => c = d
TabInv == CallInv /\ WaitInv /\ SingleInv

\* A browser's sessions are nobody else's.
Known(b, i) ==
  \/ jar[b] # None /\ jar[b].session = i
  \/ \E c \in Calls : /\ Open(c) /\ call[c].token # None
                      /\ call[c].token.session = i /\ BrowserOf[call[c].from] = b
OwnSessions ==
  /\ \A b \in Browsers : \A i \in Ids : Known(b, i) => i <= issued
  /\ \A a, b \in Browsers : \A i \in Ids : Known(a, i) /\ Known(b, i) => a = b

\* A browser with one tab and without an excuse has an active session in its
\* cookie, or in the answer to its refresh.
Refreshed(b) ==
  \E c \in Calls : /\ Open(c) /\ BrowserOf[call[c].from] = b
                   /\ call[c].kind = "refresh" /\ call[c].pc = "answered"
SignedIn(b) ==
  /\ jar[b] # None
  /\ Refreshed(b) \/ IsActive(jar[b], account)
  /\ \A c \in Calls : Open(c) /\ BrowserOf[call[c].from] = b =>
       /\ call[c].kind = "refresh" =>
            \/ call[c].pc = "sent" /\ call[c].token = jar[b]
            \/ call[c].pc = "answered" /\ call[c].ok /\ IsActive(call[c].token, account)
       /\ ~(call[c].kind = "change" /\ call[c].pc = "answered" /\ call[c].ok)
SignedInInv == \A b \in Browsers \ excuse : Alone(b) => SignedIn(b)

BrowserInv == TabInv /\ OwnSessions /\ SignedInInv
IInv == TypeOK /\ RowInv /\ BrowserInv

-----------------------------------------------------------------------------
(* The list of sessions.                                                   *)

LEMMA Above ==
  ASSUME NEW S \in SUBSET Ids, NEW i
  PROVE  /\ IsFiniteSet({j \in S : j > i})
         /\ Cardinality({j \in S : j > i}) \in Nat
<1>1. IsFiniteSet(Ids)
  BY SessionsAssumption, FS_Interval DEF Ids
<1>2. IsFiniteSet({j \in S : j > i})
  BY <1>1, FS_Subset
<1>3. QED
  BY <1>2, FS_CardinalityType

\* Whatever is left out, there is room in the rest.
LEMMA FewerRoom ==
  ASSUME NEW S \in SUBSET Ids, NEW T \in SUBSET S,
         \A i \in T : Cardinality({j \in S : j > i}) < MaxSessions
  PROVE  Room(T)
<1> SUFFICES ASSUME NEW i \in T
             PROVE  Cardinality({j \in T : j > i}) < MaxSessions
  BY DEF Room
<1>1. {j \in T : j > i} \subseteq {j \in S : j > i}
  OBVIOUS
<1>2. Cardinality({j \in T : j > i}) <= Cardinality({j \in S : j > i})
  BY <1>1, Above, FS_Subset
<1>3. /\ Cardinality({j \in T : j > i}) \in Nat
      /\ Cardinality({j \in S : j > i}) \in Nat
  BY Above
<1>4. QED
  BY <1>2, <1>3, SessionsAssumption

LEMMA NewestRoom ==
  ASSUME NEW S \in SUBSET Ids
  PROVE  Newest(S) \subseteq S /\ Room(Newest(S))
BY FewerRoom DEF Newest

\* Exchanging a session for a newer one drops none.
LEMMA ExchangeKeeps ==
  ASSUME NEW S \in SUBSET Ids, Room(S), NEW old \in S, NEW new \in Ids, \A j \in S : j < new
  PROVE  Newest((S \ {old}) \cup {new}) = (S \ {old}) \cup {new}
<1> DEFINE T == (S \ {old}) \cup {new}
           Up(U, i) == {j \in U : j > i}
<1> SUFFICES ASSUME NEW i \in T PROVE Cardinality(Up(T, i)) < MaxSessions
  BY DEF Newest
<1>0. T \subseteq Nat /\ S \subseteq Nat /\ new \in Nat /\ old \in Nat
  BY SessionsAssumption DEF Ids
<1>1. CASE i = new
  <2>1. \A j \in T : ~ (j > i)
    BY <1>0, <1>1
  <2>2. Up(T, i) = {}
    BY <2>1
  <2>3. QED
    BY <2>2, FS_EmptySet, SessionsAssumption
<1>2. CASE i \in S /\ i # old
  <2>1. Up(T, i) = (Up(S, i) \ {old}) \cup {new}
    BY <1>2, SessionsAssumption DEF Ids
  <2>2. new \notin Up(S, i) \ {old}
    BY SessionsAssumption DEF Ids
  <2>3. IsFiniteSet(Up(S, i)) /\ IsFiniteSet(Up(S, old))
    BY Above
  <2>4. IsFiniteSet(Up(S, i) \ {old})
    BY <2>3, FS_Subset
  <2>5. Cardinality(Up(T, i)) = Cardinality(Up(S, i) \ {old}) + 1
    BY <2>1, <2>2, <2>4, FS_AddElement
  <2>6. /\ Cardinality(Up(S, i)) < MaxSessions /\ Cardinality(Up(S, old)) < MaxSessions
        /\ Cardinality(Up(S, i)) \in Nat /\ Cardinality(Up(S, old)) \in Nat
    BY <1>2, Above DEF Room
  <2>7. CASE old > i
    <3>1. old \in Up(S, i)
      BY <2>7
    <3>2. Cardinality(Up(S, i) \ {old}) = Cardinality(Up(S, i)) - 1
      BY <2>3, <3>1, FS_RemoveElement
    <3>3. QED
      BY <2>5, <2>6, <3>2, SessionsAssumption
  <2>8. CASE ~(old > i)
    <3>1. Up(S, i) \ {old} = Up(S, i)
      BY <2>8
    <3>2. Up(S, i) \cup {i} \subseteq Up(S, old)
      <4>1. i \in Nat /\ i > old
        BY <1>0, <1>2, <2>8
      <4>2. \A j \in S : j > i => j > old
        BY <1>0, <4>1
      <4>3. QED
        BY <1>2, <4>1, <4>2
    <3>3. i \notin Up(S, i)
      BY <1>2, SessionsAssumption DEF Ids
    <3>4. Cardinality(Up(S, i) \cup {i}) = Cardinality(Up(S, i)) + 1
      BY <2>3, <3>3, FS_AddElement
    <3>5. Cardinality(Up(S, i) \cup {i}) <= Cardinality(Up(S, old))
      BY <2>3, <3>2, FS_Subset
    <3>6. Cardinality(Up(S, i)) + 1 < MaxSessions
      BY <2>6, <3>4, <3>5, SessionsAssumption
    <3>7. QED
      BY <2>5, <3>1, <3>6
  <2>9. QED
    BY <2>7, <2>8
<1>3. QED
  BY <1>1, <1>2

-----------------------------------------------------------------------------
(* Types.                                                                  *)

LEMMA NewestTyped ==
  ASSUME NEW row \in Account, NEW S \in SUBSET row.sessions, NEW new \in Ids
  PROVE  /\ [row EXCEPT !.sessions = Newest(S \cup {new})] \in Account
         /\ Newest(S \cup {new}) \in SUBSET Ids
<1>1. S \cup {new} \in SUBSET Ids
  BY DEF Account
<1>2. QED
  BY <1>1, NewestRoom DEF Account

Pcs == {"free", "sent", "queued", "hash", "answered", "lost"}

LEMMA CallTyped ==
  ASSUME NEW r \in Call, NEW pc \in Pcs, NEW ok \in BOOLEAN, NEW rec \in Account \cup {None},
         NEW token \in Token \cup {None}, NEW access \in Access \cup {None}
  PROVE  /\ [r EXCEPT !.pc = pc, !.ok = ok] \in Call
         /\ [r EXCEPT !.pc = pc, !.rec = rec] \in Call
         /\ [r EXCEPT !.pc = pc, !.rec = rec, !.ok = ok] \in Call
         /\ [r EXCEPT !.pc = pc, !.ok = ok, !.rec = rec] \in Call
         /\ [r EXCEPT !.pc = pc, !.ok = ok, !.access = access, !.token = token] \in Call
         /\ [r EXCEPT !.pc = pc, !.rec = rec, !.access = access, !.token = token] \in Call
<1>1. [r EXCEPT !.pc = pc, !.ok = ok] \in Call
  BY DEF Call, Pcs
<1>2. [r EXCEPT !.pc = pc, !.rec = rec] \in Call
  BY DEF Call, Pcs
<1>3. [r EXCEPT !.pc = pc, !.rec = rec, !.ok = ok] \in Call
  BY DEF Call, Pcs
<1>4. [r EXCEPT !.pc = pc, !.ok = ok, !.rec = rec] \in Call
  BY DEF Call, Pcs
<1>5. [r EXCEPT !.pc = pc, !.ok = ok, !.access = access, !.token = token] \in Call
  BY DEF Call, Pcs
<1>6. [r EXCEPT !.pc = pc, !.rec = rec, !.access = access, !.token = token] \in Call
  BY DEF Call, Pcs
<1>7. QED
  BY <1>1, <1>2, <1>3, <1>4, <1>5, <1>6

LEMMA AccountTyped ==
  ASSUME NEW row \in Account, NEW S \in SUBSET Ids
  PROVE  /\ CountFailure(row) \in Account
         /\ [row EXCEPT !.sessions = S] \in Account
         /\ [row EXCEPT !.sessions = S, !.failed = 0, !.locked = FALSE] \in Account
<1>1. row.failed \in 0..(MaxFailed - 1) /\ 0 \in 0..(MaxFailed - 1)
  BY SessionsAssumption DEF Account
<1>2. ASSUME row.failed + 1 >= MaxFailed PROVE CountFailure(row) \in Account
  <2>1. [row EXCEPT !.failed = 0, !.locked = TRUE] \in Account
    BY <1>1 DEF Account
  <2>2. QED
    BY <1>2, <2>1 DEF CountFailure
<1>3. ASSUME ~(row.failed + 1 >= MaxFailed) PROVE CountFailure(row) \in Account
  <2>1. row.failed + 1 \in 0..(MaxFailed - 1)
    BY <1>1, <1>3, SessionsAssumption
  <2>2. [row EXCEPT !.failed = row.failed + 1] \in Account
    BY <2>1 DEF Account
  <2>3. QED
    BY <1>3, <2>2 DEF CountFailure
<1>4. [row EXCEPT !.sessions = S] \in Account
  BY DEF Account
<1>5. [row EXCEPT !.sessions = S, !.failed = 0, !.locked = FALSE] \in Account
  BY <1>1 DEF Account
<1>6. QED
  BY <1>2, <1>3, <1>4, <1>5

LEMMA PasswordTyped ==
  ASSUME NEW row \in Account, NEW locked
  PROVE  [row EXCEPT !.gen = @ + 1, !.sessions = {}, !.locked = @ /\ locked] \in Account
<1>1. row.gen + 1 \in Nat
  BY DEF Account
<1>2. CASE row.locked /\ locked
  BY <1>1, <1>2 DEF Account
<1>3. CASE ~(row.locked /\ locked)
  BY <1>1, <1>3 DEF Account
<1>4. QED
  BY <1>2, <1>3

LEMMA HoldingTyped ==
  ASSUME TypeOK, TabInv, NEW S
  PROVE  Holding(S) \subseteq Browsers
BY DEF Holding, TabInv, CallInv, Shape, Open, Browsers

LEMMA TypeStep ==
  ASSUME TypeOK, MutexInv, TabInv, Next
  PROVE  TypeOK'
<1> USE SessionsAssumption DEF TypeOK
<1>1. ASSUME NEW c \in Calls, NEW t \in Tabs,
             \/ Refresh(c, t) \/ Login(c, t) \/ Logout(c, t)
             \/ ChangePassword(c, t) \/ ResetPassword(c, t)
      PROVE  TypeOK'
  <2>1. PICK kind \in Kinds, flag \in BOOLEAN : Send(c, t, kind, flag)
    BY <1>1 DEF Refresh, Login, Logout, ChangePassword, ResetPassword, Kinds
  <2>2. Cookie(t) \in Token \cup {None}
    BY DEF Cookie, Browsers
  <2>3. call' \in [Calls -> Call]
    BY <2>1, <2>2 DEF Send, Call, NoCall
  <2>4. tab' \in [Tabs -> [access: Access \cup {None}, refreshing: BOOLEAN, waiting: BOOLEAN]]
    <3>1. \/ tab' = [tab EXCEPT ![t].refreshing = TRUE]
          \/ tab' = [tab EXCEPT ![t].waiting = TRUE]
      BY <1>1 DEF Refresh, Login, Logout, ChangePassword, ResetPassword
    <3>2. /\ [tab[t] EXCEPT !.refreshing = TRUE] \in
               [access: Access \cup {None}, refreshing: BOOLEAN, waiting: BOOLEAN]
          /\ [tab[t] EXCEPT !.waiting = TRUE] \in
               [access: Access \cup {None}, refreshing: BOOLEAN, waiting: BOOLEAN]
      OBVIOUS
    <3>3. QED
      BY <3>1, <3>2
  <2>5. QED
    BY <2>1, <2>3, <2>4 DEF Send, history
<1>2. ASSUME NEW t \in Tabs, Forget(t) PROVE TypeOK'
  BY <1>2 DEF Forget, history
<1>3. ASSUME NEW c \in Calls, Receive(c) PROVE TypeOK'
  <2>1. call' \in [Calls -> Call]
    BY SMTT(30), <1>3 DEF Receive, Call
  <2>2. QED
    BY <1>3, <2>1 DEF Receive, history
<1>4. ASSUME NEW c \in Calls, Serve(c) PROVE TypeOK'
  <2>1. CASE ~IsActive(call[c].token, account)
    <3>1. call' \in [Calls -> Call]
      BY <1>4, <2>1 DEF Serve, Call
    <3>2. QED
      BY <1>4, <2>1, <3>1 DEF Serve
  <2>2. CASE IsActive(call[c].token, account) /\ Rotate(c)
    <3>1. call[c].token \in Token /\ call[c].token.session \in account.sessions
      BY <2>2 DEF IsActive, Call
    <3>2. issued + 1 \in Ids
      BY <2>2 DEF Rotate, Ids
    <3>3. account' \in Account
      BY <2>2, <3>2, NewestTyped DEF Rotate
    <3>4. [session |-> issued + 1, gen |-> account.gen, key |-> key] \in Token
      BY <3>2 DEF Token, Account
    <3>5. AccessNow(account) \in Access
      BY DEF AccessNow, Access, Account
    <3>6. call' \in [Calls -> Call]
      <4>1. [call[c] EXCEPT !.pc = "answered", !.ok = TRUE, !.access = AccessNow(account),
               !.token = [session |-> issued + 1, gen |-> account.gen, key |-> key]] \in Call
        BY ZenonT(60), <3>4, <3>5, CallTyped DEF Pcs
      <4>2. QED
        BY <2>2, <4>1 DEF Rotate
    <3>7. ended' \subseteq Ids /\ issued' \in 0..MaxIds
      BY <2>2, <3>1, <3>2 DEF Rotate, Token, Ids
    <3>8. QED
      BY <1>4, <2>2, <3>3, <3>6, <3>7 DEF Serve, Rotate
  <2>3. CASE IsActive(call[c].token, account) /\ RevokeOne(c)
    <3>1. call[c].token \in Token
      BY <2>3 DEF IsActive, Call
    <3>2. account' \in Account
      BY <2>3 DEF RevokeOne, Account
    <3>3. call' \in [Calls -> Call]
      <4>1. [call[c] EXCEPT !.pc = "answered", !.ok = TRUE] \in Call
        BY CallTyped DEF Pcs
      <4>2. QED
        BY <2>3, <4>1 DEF RevokeOne
    <3>4. excuse' \subseteq Browsers
      BY <2>3, HoldingTyped DEF RevokeOne
    <3>5. ended' \subseteq Ids
      BY <2>3, <3>1 DEF RevokeOne, Token
    <3>6. QED
      BY <1>4, <2>3, <3>2, <3>3, <3>4, <3>5 DEF Serve, RevokeOne
  <2>4. QED
    BY <1>4, <2>1, <2>2, <2>3 DEF Serve
<1>5. ASSUME NEW c \in Calls, Begin(c) PROVE TypeOK'
  <2>1. PICK ok \in BOOLEAN :
          call' = [call EXCEPT ![c].pc = "hash", ![c].rec = account, ![c].ok = ok]
    BY <1>5 DEF Begin
  <2>2. [call[c] EXCEPT !.pc = "hash", !.rec = account, !.ok = ok] \in Call
    <3>1. call[c] \in Call /\ account \in Account \cup {None} /\ "hash" \in Pcs
      BY DEF Pcs
    <3> HIDE DEF TypeOK
    <3>2. QED
      BY <3>1, CallTyped
  <2>3. call' \in [Calls -> Call]
    BY <2>1, <2>2
  <2>4. QED
    BY <1>5, <2>3 DEF Begin, Take, history
<1>6. ASSUME NEW c \in Calls, FinishLogin(c), LoginFails(c) PROVE TypeOK'
  <2>1. call[c].rec \in Account
    BY <1>6 DEF FinishLogin, MutexInv
  <2>2. account' \in Account
    <3>1. CountFailure(call[c].rec) \in Account
      BY <2>1, AccountTyped
    <3>2. QED
      BY <1>6, <3>1 DEF LoginFails
  <2>3. call' \in [Calls -> Call]
    <3>1. [call[c] EXCEPT !.pc = "answered", !.ok = FALSE, !.rec = None] \in Call
      BY ZenonT(60), CallTyped DEF Pcs
    <3>2. QED
      BY <1>6, <3>1 DEF LoginFails
  <2>4. guesses' \in Nat
    BY <1>6 DEF LoginFails
  <2>5. QED
    BY <1>6, <2>2, <2>3, <2>4 DEF FinishLogin, LoginFails, Leave
<1>7. ASSUME NEW c \in Calls, FinishLogin(c), LoginSucceeds(c) PROVE TypeOK'
  <2> DEFINE row == call[c].rec
             new == issued + 1
             after == IF call[c].flag THEN Newest(row.sessions \cup {new}) ELSE Newest(row.sessions)
  <2>1. row \in Account
    BY <1>7 DEF FinishLogin, MutexInv
  <2>2. call[c].flag => new \in Ids
    BY <1>7 DEF LoginSucceeds, Ids
  <2>3. after \in SUBSET Ids
    BY <2>1, <2>2, NewestTyped, NewestRoom DEF Account
  <2>4. account' \in Account
    <3>1. account' = [row EXCEPT !.sessions = after, !.failed = 0, !.locked = FALSE]
      BY <1>7 DEF LoginSucceeds
    <3>2. [row EXCEPT !.sessions = after, !.failed = 0, !.locked = FALSE] \in Account
      BY <2>1, <2>3, AccountTyped
    <3>3. QED
      BY <3>1, <3>2
  <2>5. call[c].flag => [session |-> new, gen |-> row.gen, key |-> key] \in Token
    BY <2>1, <2>2 DEF Token, Account
  <2>6. AccessNow(row) \in Access
    BY <2>1 DEF AccessNow, Access, Account
  <2>7. call' \in [Calls -> Call]
    <3>1. PICK token \in Token \cup {None} :
            call' = [call EXCEPT ![c].pc = "answered", ![c].rec = None,
                                 ![c].access = AccessNow(row), ![c].token = token]
      BY <1>7, <2>5 DEF LoginSucceeds
    <3>2. [call[c] EXCEPT !.pc = "answered", !.rec = None,
                          !.access = AccessNow(row), !.token = token] \in Call
      <4>1. /\ call[c] \in Call /\ "answered" \in Pcs /\ None \in Account \cup {None}
            /\ AccessNow(row) \in Access \cup {None}
        BY <2>6 DEF Pcs
      <4> HIDE DEF TypeOK, row
      <4>2. QED
        BY <4>1, CallTyped
    <3>3. QED
      BY <3>1, <3>2
  <2>8. excuse' \subseteq Browsers
    <3>1. excuse' = excuse \cup Holding(row.sessions \ after)
      BY <1>7 DEF LoginSucceeds
    <3>2. QED
      BY <3>1, HoldingTyped
  <2>9. issued' \in 0..MaxIds
    BY <1>7, <2>2 DEF LoginSucceeds, Ids
  <2>10. QED
    BY <1>7, <2>4, <2>7, <2>8, <2>9 DEF FinishLogin, LoginSucceeds, Leave
<1>8. ASSUME NEW c \in Calls, FinishChange(c) PROVE TypeOK'
  <2>1. call[c].rec \in Account
    BY <1>8 DEF FinishChange, MutexInv
  <2>2. call' \in [Calls -> Call]
    <3>1. [call[c] EXCEPT !.pc = "answered", !.rec = None] \in Call
      BY ZenonT(60), CallTyped DEF Pcs
    <3>2. QED
      BY <1>8, <3>1 DEF FinishChange
  <2>3. account' \in Account
    <3>1. [call[c].rec EXCEPT !.gen = @ + 1, !.sessions = {},
                              !.locked = @ /\ account.locked] \in Account
      BY <2>1, PasswordTyped
    <3>2. QED
      BY <1>8, <3>1 DEF FinishChange, NewPassword
  <2>4. ended' \subseteq Ids /\ changes' \in Nat /\ excuse' \subseteq Browsers
    BY <1>8 DEF FinishChange, NewPassword, Account
  <2>5. QED
    BY <1>8, <2>2, <2>3, <2>4 DEF FinishChange, Leave
<1>9. CASE LockEnds
  BY <1>9 DEF LockEnds, Account
<1>10. CASE CreateResetToken
  BY <1>10 DEF CreateResetToken, history
<1>11. CASE NewKey
  BY <1>11 DEF NewKey
<1>12. CASE Restart
  <2>1. call' \in [Calls -> Call]
    <3>1. \A c \in Calls : [call[c] EXCEPT !.pc = "lost", !.rec = None] \in Call
      BY ZenonT(60), CallTyped DEF Pcs
    <3>2. QED
      BY <1>12, <3>1 DEF Restart
  <2>2. excuse' \subseteq Browsers
    <3>1. \A c \in Calls : call[c].pc = "answered" => BrowserOf[call[c].from] \in Browsers
      BY DEF TabInv, CallInv, Shape, Open, Browsers
    <3>2. {BrowserOf[call[c].from] : c \in {d \in Calls : call[d].pc = "answered"}}
            \subseteq Browsers
      BY <3>1
    <3>3. QED
      BY <1>12, <3>2 DEF Restart
  <2>3. holder' = None /\ upsets' \in Nat
    <3>1. holder' = None /\ upsets' = upsets + 1
      BY <1>12 DEF Restart
    <3>2. QED
      BY <3>1
  <2>4. QED
    BY <1>12, <2>1, <2>2, <2>3 DEF Restart
<1>13. ASSUME NEW c \in Calls, Deliver(c) PROVE TypeOK'
  <2>1. call[c].from \in Tabs /\ BrowserOf[call[c].from] \in Browsers
    BY <1>13 DEF Deliver, TabInv, CallInv, Shape, Open, Browsers
  <2>2. call' \in [Calls -> Call]
    BY <1>13 DEF Deliver, Call, NoCall, Kinds
  <2>3. NewCookie(c) \in Token \cup {None}
    BY <2>1 DEF NewCookie, Cookie, Call
  <2>4. jar' \in [Browsers -> Token \cup {None}]
    BY <1>13, <2>1, <2>3 DEF Deliver
  <2>5. NewAccess(c, call[c].from) \in Access \cup {None}
    BY <2>1 DEF NewAccess, Call
  <2>6. tab' \in [Tabs -> [access: Access \cup {None}, refreshing: BOOLEAN, waiting: BOOLEAN]]
    <3>1. [Settled(c, call[c].from) EXCEPT !.access = NewAccess(c, call[c].from)]
            \in [access: Access \cup {None}, refreshing: BOOLEAN, waiting: BOOLEAN]
      BY ZenonT(60), <2>1, <2>5 DEF Settled
    <3>2. QED
      BY <1>13, <2>1, <3>1 DEF Deliver
  <2>7. excuse' \subseteq Browsers
    BY <1>13, <2>1 DEF Deliver, Excused
  <2>8. QED
    BY <1>13, <2>2, <2>4, <2>6, <2>7 DEF Deliver
<1>14. ASSUME NEW c \in Calls, Fail(c) PROVE TypeOK'
  <2>1. call[c].from \in Tabs
    BY <1>14 DEF Fail, TabInv, CallInv, Shape, Open
  <2>2. call' \in [Calls -> Call]
    BY <1>14 DEF Fail, Call, NoCall, Kinds
  <2>3. tab' \in [Tabs -> [access: Access \cup {None}, refreshing: BOOLEAN, waiting: BOOLEAN]]
    <3>1. Settled(c, call[c].from)
            \in [access: Access \cup {None}, refreshing: BOOLEAN, waiting: BOOLEAN]
      BY ZenonT(60), <2>1 DEF Settled
    <3>2. QED
      BY <1>14, <2>1, <3>1 DEF Fail
  <2>4. QED
    BY <1>14, <2>2, <2>3 DEF Fail, history
<1>15. ASSUME NEW c \in Calls, FinishLogin(c) PROVE TypeOK'
  BY <1>6, <1>7, <1>15 DEF FinishLogin
<1>16. QED
  BY <1>1, <1>2, <1>3, <1>4, <1>5, <1>8, <1>9, <1>10, <1>11, <1>12, <1>13, <1>14, <1>15 DEF Next
-----------------------------------------------------------------------------
(* The row.                                                                *)

LEMMA HolderAlone ==
  ASSUME MutexInv, NEW c \in Calls, holder \in {c, None}
  PROVE  \A d \in Calls \ {c} : call[d].pc # "hash"
BY SessionsAssumption DEF MutexInv

LEMMA MutexStep ==
  ASSUME TypeOK, MutexInv, Next
  PROVE  MutexInv'
<1>1. ASSUME UNCHANGED <<account, holder>>,
             \A d \in Calls : call'[d].pc = "hash" => call[d].pc = "hash" /\ call'[d].rec = call[d].rec
      PROVE  MutexInv'
  BY <1>1 DEF MutexInv
<1>2. ASSUME \A d \in Calls : call'[d].pc # "hash" PROVE MutexInv'
  BY <1>2 DEF MutexInv
<1>3. ASSUME NEW c \in Calls, NEW t \in Tabs,
             \/ Refresh(c, t) \/ Login(c, t) \/ Logout(c, t)
             \/ ChangePassword(c, t) \/ ResetPassword(c, t)
      PROVE  MutexInv'
  <2>1. PICK kind, flag : Send(c, t, kind, flag)
    BY <1>3 DEF Refresh, Login, Logout, ChangePassword, ResetPassword
  <2>2. call'[c].pc = "sent" /\ \A d \in Calls \ {c} : call'[d] = call[d]
    BY <2>1 DEF Send, NoCall, TypeOK
  <2>3. QED
    BY <1>1, <2>1, <2>2 DEF Send
<1>4. ASSUME NEW t \in Tabs, Forget(t) PROVE MutexInv'
  BY <1>1, <1>4 DEF Forget
<1>5. ASSUME NEW c \in Calls, Receive(c) PROVE MutexInv'
  <2>1. call'[c].pc # "hash" /\ \A d \in Calls \ {c} : call'[d] = call[d]
    BY <1>5 DEF Receive, TypeOK, Call
  <2>2. QED
    BY <1>1, <1>5, <2>1 DEF Receive
<1>6. ASSUME NEW c \in Calls, Serve(c) PROVE MutexInv'
  <2>1. call'[c].pc = "answered" /\ \A d \in Calls \ {c} : call'[d] = call[d]
    BY <1>6 DEF Serve, Rotate, RevokeOne, TypeOK, Call
  <2>2. QED
    BY <1>2, <1>6, <2>1, HolderAlone DEF Serve, Turn
<1>7. ASSUME NEW c \in Calls, Begin(c) PROVE MutexInv'
  <2>1. call'[c].rec = account /\ \A d \in Calls \ {c} : call'[d] = call[d]
    BY <1>7 DEF Begin, TypeOK, Call
  <2>2. \A d \in Calls \ {c} : call'[d].pc # "hash"
    BY <1>7, <2>1, HolderAlone DEF Begin, Turn
  <2>3. QED
    BY <1>7, <2>1, <2>2 DEF Begin, Take, MutexInv, TypeOK
<1>8. ASSUME NEW c \in Calls, FinishLogin(c) \/ FinishChange(c) PROVE MutexInv'
  <2>1. call'[c].pc = "answered" /\ \A d \in Calls \ {c} : call'[d] = call[d]
    BY <1>8 DEF FinishLogin, FinishChange, LoginFails, LoginSucceeds, TypeOK, Call
  <2>2. call[c].pc = "hash"
    BY <1>8 DEF FinishLogin, FinishChange
  <2>3. \A d \in Calls \ {c} : call[d].pc # "hash"
    BY <2>2, HolderAlone DEF MutexInv
  <2>4. QED
    BY <1>2, <2>1, <2>3
<1>9. CASE LockEnds
  <2>1. /\ account'.gen = account.gen /\ account'.sessions = account.sessions
        /\ account'.failed = account.failed /\ account'.locked = FALSE
    BY <1>9 DEF LockEnds, TypeOK, Account
  <2>2. QED
    BY <1>9, <2>1 DEF LockEnds, MutexInv
<1>10. CASE CreateResetToken \/ NewKey
  BY <1>1, <1>10 DEF CreateResetToken, NewKey
<1>11. CASE Restart
  <2>1. \A d \in Calls : call'[d].pc # "hash"
    BY <1>11 DEF Restart, TypeOK, Call
  <2>2. QED
    BY <1>2, <2>1
<1>12. ASSUME NEW c \in Calls, Deliver(c) \/ Fail(c) PROVE MutexInv'
  <2>1. call'[c].pc = "free" /\ \A d \in Calls \ {c} : call'[d] = call[d]
    BY <1>12 DEF Deliver, Fail, NoCall, TypeOK
  <2>2. QED
    BY <1>1, <1>12, <2>1 DEF Deliver, Fail
<1>13. QED
  BY <1>3, <1>4, <1>5, <1>6, <1>7, <1>8, <1>9, <1>10, <1>11, <1>12 DEF Next

\* What is true of the row between two turns.
SoundRow == /\ NumberInv /\ GuessInv /\ Room(account.sessions)
            /\ EndedSessionsStayEnded /\ ChangesPersist

LEMMA RotateSound ==
  ASSUME TypeOK, SoundRow, NEW c \in Calls, Rotate(c), IsActive(call[c].token, account),
         UNCHANGED <<changes, guesses>>
  PROVE  SoundRow'
<1> DEFINE old == call[c].token.session
           new == issued + 1
           S == (account.sessions \ {old}) \cup {new}
<1>1. /\ account'.sessions = Newest(S) /\ account'.gen = account.gen
      /\ account'.failed = account.failed /\ account'.locked = account.locked
  BY DEF Rotate, TypeOK, Account
<1>2. new \in Ids /\ issued' = new /\ issued \in Nat /\ ended' = ended \cup {old}
  BY SessionsAssumption DEF Rotate, TypeOK, Ids
<1>3. account.sessions \subseteq 1..issued /\ ended \subseteq 1..issued /\ old \in account.sessions
  BY DEF SoundRow, NumberInv, IsActive
<1>4. S \in SUBSET Ids
  BY <1>2 DEF TypeOK, Account
<1>5. Newest(S) \subseteq S /\ Room(Newest(S))
  BY <1>4, NewestRoom
<1>6. S \cup ended' \subseteq 1..issued'
  <2>1. 1..issued \subseteq 1..new /\ new \in 1..new
    BY <1>2
  <2>2. QED
    BY <1>2, <1>3, <2>1
<1>7. S \cap ended' = {}
  BY <1>2, <1>3 DEF SoundRow, EndedSessionsStayEnded
<1>8. GuessInv' /\ ChangesPersist'
  BY <1>1 DEF SoundRow, GuessInv, ChangesPersist
<1>9. QED
  BY <1>1, <1>5, <1>6, <1>7, <1>8 DEF SoundRow, NumberInv, EndedSessionsStayEnded

LEMMA RevokeSound ==
  ASSUME TypeOK, SoundRow, NEW c \in Calls, RevokeOne(c), IsActive(call[c].token, account),
         UNCHANGED <<changes, guesses>>
  PROVE  SoundRow'
<1> DEFINE old == call[c].token.session
<1>1. /\ account'.sessions = account.sessions \ {old} /\ account'.gen = account.gen
      /\ account'.failed = account.failed /\ account'.locked = account.locked
  BY DEF RevokeOne, TypeOK, Account
<1>2. issued' = issued /\ ended' = ended \cup {old} /\ old \in account.sessions
  BY DEF RevokeOne, IsActive
<1>3. Room(account.sessions \ {old})
  <2>1. account.sessions \in SUBSET Ids
    BY DEF TypeOK, Account
  <2>2. \A i \in account.sessions \ {old} :
          Cardinality({j \in account.sessions : j > i}) < MaxSessions
    BY DEF SoundRow, Room
  <2>3. QED
    BY <2>1, <2>2, FewerRoom
<1>4. GuessInv' /\ ChangesPersist'
  BY <1>1 DEF SoundRow, GuessInv, ChangesPersist
<1>5. QED
  BY <1>1, <1>2, <1>3, <1>4 DEF SoundRow, NumberInv, EndedSessionsStayEnded

LEMMA FailureSound ==
  ASSUME TypeOK, MutexInv, SoundRow, NEW c \in Calls, FinishLogin(c), LoginFails(c)
  PROVE  SoundRow'
<1> DEFINE row == call[c].rec
<1>1. /\ row \in Account /\ row.gen = account.gen /\ row.sessions = account.sessions
      /\ row.failed = account.failed /\ (account.locked => row.locked)
  BY DEF FinishLogin, MutexInv
<1>2. UNCHANGED <<ended, issued, changes>>
  BY DEF FinishLogin, LoginFails
<1>3. ASSUME row.locked PROVE SoundRow'
  <2>1. UNCHANGED <<account, guesses>>
    BY <1>3 DEF LoginFails
  <2>2. QED
    BY <1>2, <2>1 DEF SoundRow, NumberInv, GuessInv, Room, EndedSessionsStayEnded, ChangesPersist
<1>4. ASSUME ~row.locked PROVE SoundRow'
  <2>1. account' = CountFailure(row) /\ guesses' = guesses + 1
    BY <1>4 DEF LoginFails
  <2>2. account'.gen = account.gen /\ account'.sessions = account.sessions
    BY <1>1, <2>1 DEF CountFailure, Account
  <2>3. GuessInv'
    <3>1. guesses <= account.failed /\ guesses \in Nat /\ row.failed \in 0..(MaxFailed - 1)
      BY <1>1, <1>4 DEF SoundRow, GuessInv, TypeOK, Account
    <3>2. CASE row.failed + 1 >= MaxFailed
      <4>1. account' = [row EXCEPT !.failed = 0, !.locked = TRUE]
        BY <2>1, <3>2 DEF CountFailure
      <4>2. account'.locked = TRUE
        BY <1>1, <4>1 DEF Account
      <4>3. guesses + 1 <= MaxFailed
        BY <1>1, <3>1, <3>2, SessionsAssumption
      <4>4. QED
        BY <2>1, <4>2, <4>3 DEF GuessInv
    <3>3. CASE ~(row.failed + 1 >= MaxFailed)
      <4>1. account' = [row EXCEPT !.failed = row.failed + 1]
        BY <2>1, <3>3 DEF CountFailure
      <4>2. account'.locked = row.locked /\ account'.failed = row.failed + 1
        BY <1>1, <4>1 DEF Account
      <4>3. guesses + 1 <= row.failed + 1
        BY <1>1, <3>1
      <4>4. QED
        BY <1>4, <2>1, <4>2, <4>3 DEF GuessInv
    <3>4. QED
      BY <3>2, <3>3
  <2>4. QED
    BY <1>2, <2>2, <2>3 DEF SoundRow, NumberInv, Room, EndedSessionsStayEnded, ChangesPersist
<1>5. QED
  BY <1>3, <1>4

LEMMA LoginSound ==
  ASSUME TypeOK, MutexInv, SoundRow, NEW c \in Calls, FinishLogin(c), LoginSucceeds(c)
  PROVE  SoundRow'
<1> DEFINE row == call[c].rec
           new == issued + 1
           S == IF call[c].flag THEN row.sessions \cup {new} ELSE row.sessions
<1>1. /\ row \in Account /\ row.gen = account.gen /\ row.sessions = account.sessions
  BY DEF FinishLogin, MutexInv
<1>2. account' = [row EXCEPT !.sessions = Newest(S), !.failed = 0, !.locked = FALSE]
  BY DEF LoginSucceeds
<1>3. /\ account'.sessions = Newest(S) /\ account'.gen = account.gen
      /\ account'.failed = 0 /\ account'.locked = FALSE
  BY <1>1, <1>2 DEF Account
<1>4. /\ call[c].flag => new \in Ids
      /\ issued' = IF call[c].flag THEN new ELSE issued
      /\ issued \in Nat /\ guesses' = 0 /\ ended' = ended /\ changes' = changes
  BY SessionsAssumption DEF FinishLogin, LoginSucceeds, TypeOK, Ids
<1>5. account.sessions \subseteq 1..issued /\ ended \subseteq 1..issued
  BY DEF SoundRow, NumberInv
<1>6. S \in SUBSET Ids
  BY <1>1, <1>4 DEF TypeOK, Account
<1>7. Newest(S) \subseteq S /\ Room(Newest(S))
  BY <1>6, NewestRoom
<1>8. S \cup ended' \subseteq 1..issued'
  <2>1. 1..issued \subseteq 1..new /\ new \in 1..new
    BY <1>4
  <2>2. QED
    BY <1>1, <1>4, <1>5, <2>1
<1>9. S \cap ended' = {}
  BY <1>1, <1>4, <1>5 DEF SoundRow, EndedSessionsStayEnded
<1>10. GuessInv' /\ ChangesPersist'
  BY <1>3, <1>4 DEF SoundRow, GuessInv, ChangesPersist
<1>11. QED
  BY <1>3, <1>7, <1>8, <1>9, <1>10 DEF SoundRow, NumberInv, EndedSessionsStayEnded

LEMMA ChangeSound ==
  ASSUME TypeOK, MutexInv, SoundRow, NEW c \in Calls, FinishChange(c)
  PROVE  SoundRow'
<1> DEFINE row == call[c].rec
<1>1. /\ row \in Account /\ row.gen = account.gen /\ row.sessions = account.sessions
      /\ row.failed = account.failed /\ (account.locked => row.locked)
  BY DEF FinishChange, MutexInv
<1>2. UNCHANGED <<issued, guesses>>
  BY DEF FinishChange
<1>3. ASSUME ~call[c].ok PROVE SoundRow'
  <2>1. UNCHANGED <<account, changes, ended>>
    BY <1>3 DEF FinishChange
  <2>2. QED
    BY <1>2, <2>1 DEF SoundRow, NumberInv, GuessInv, Room, EndedSessionsStayEnded, ChangesPersist
<1>4. ASSUME call[c].ok PROVE SoundRow'
  <2>1. /\ account' = [row EXCEPT !.gen = @ + 1, !.sessions = {}, !.locked = @ /\ account.locked]
        /\ changes' = changes + 1 /\ ended' = ended \cup account.sessions
    BY <1>4 DEF FinishChange, NewPassword
  <2>2. /\ account'.gen = account.gen + 1 /\ account'.sessions = {}
        /\ account'.failed = account.failed
    BY <1>1, <2>1 DEF Account
  <2>3. account'.locked = (row.locked /\ account.locked)
    BY <1>1, <2>1 DEF Account
  <2>4. GuessInv'
    BY <1>1, <1>2, <2>2, <2>3 DEF SoundRow, GuessInv
  <2>5. QED
    BY <1>2, <2>1, <2>2, <2>4 DEF SoundRow, NumberInv, Room, EndedSessionsStayEnded, ChangesPersist
<1>5. QED
  BY <1>3, <1>4

LEMMA RowStep ==
  ASSUME TypeOK, RowInv, Next
  PROVE  RowInv'
<1>1. MutexInv /\ SoundRow
  BY DEF RowInv, SoundRow
<1>2. ASSUME UNCHANGED <<account, ended, issued, changes, guesses>> PROVE SoundRow'
  BY <1>1, <1>2 DEF SoundRow, NumberInv, GuessInv, Room, EndedSessionsStayEnded, ChangesPersist
<1>3. ASSUME NEW c \in Calls, NEW t \in Tabs,
             \/ Refresh(c, t) \/ Login(c, t) \/ Logout(c, t)
             \/ ChangePassword(c, t) \/ ResetPassword(c, t)
      PROVE  SoundRow'
  BY <1>2, <1>3
     DEF Refresh, Login, Logout, ChangePassword, ResetPassword, Send, history
<1>4. ASSUME NEW t \in Tabs, Forget(t) PROVE SoundRow'
  BY <1>2, <1>4 DEF Forget, history
<1>5. ASSUME NEW c \in Calls, \/ Receive(c) \/ Begin(c) \/ Deliver(c) \/ Fail(c)
      PROVE  SoundRow'
  BY <1>2, <1>5 DEF Receive, Begin, Deliver, Fail, history
<1>6. ASSUME NEW c \in Calls, Serve(c) PROVE SoundRow'
  BY <1>1, <1>2, <1>6, RotateSound, RevokeSound DEF Serve
<1>7. ASSUME NEW c \in Calls, FinishLogin(c) PROVE SoundRow'
  BY <1>1, <1>7, FailureSound, LoginSound DEF FinishLogin
<1>8. ASSUME NEW c \in Calls, FinishChange(c) PROVE SoundRow'
  BY <1>1, <1>8, ChangeSound
<1>9. ASSUME LockEnds PROVE SoundRow'
  <2>1. /\ account'.gen = account.gen /\ account'.sessions = account.sessions
        /\ account'.failed = account.failed /\ account'.locked = FALSE /\ guesses' = 0
    BY <1>9 DEF LockEnds, TypeOK, Account
  <2>2. GuessInv'
    BY <2>1 DEF GuessInv, TypeOK, Account
  <2>3. QED
    BY <1>1, <1>9, <2>1, <2>2
       DEF LockEnds, SoundRow, NumberInv, Room, EndedSessionsStayEnded, ChangesPersist
<1>10. ASSUME CreateResetToken \/ NewKey \/ Restart PROVE SoundRow'
  BY <1>2, <1>10 DEF CreateResetToken, NewKey, Restart, history
<1>11. SoundRow'
  BY <1>3, <1>4, <1>5, <1>6, <1>7, <1>8, <1>9, <1>10 DEF Next
<1>12. QED
  BY <1>1, <1>11, MutexStep DEF RowInv, SoundRow
-----------------------------------------------------------------------------
(* The requests of a tab.                                                  *)

\* What sending a request does.
LEMMA SendFrame ==
  ASSUME TypeOK, NEW c \in Calls, NEW t \in Tabs,
         \/ Refresh(c, t) \/ Login(c, t) \/ Logout(c, t)
         \/ ChangePassword(c, t) \/ ResetPassword(c, t)
  PROVE  /\ ~Open(c) /\ ~tab[t].waiting
         /\ call'[c].pc = "sent" /\ call'[c].from = t /\ call'[c].ok = FALSE
         /\ call'[c].kind \in Kinds
         /\ call'[c].token = IF call'[c].kind \in {"refresh", "logout"} THEN Cookie(t) ELSE None
         /\ call'[c].kind \in {"refresh", "login"} => ~tab[t].refreshing
         /\ tab'[t].refreshing = (tab[t].refreshing \/ call'[c].kind = "refresh")
         /\ tab'[t].waiting = (call'[c].kind # "refresh")
         /\ \A u \in Tabs \ {t} : tab'[u] = tab[u]
         /\ \A d \in Calls \ {c} : call'[d] = call[d]
         /\ UNCHANGED <<account, key, holder, jar, excuse, issued>>
<1>1. PICK kind \in Kinds, flag \in BOOLEAN :
        /\ Send(c, t, kind, flag)
        /\ ~tab[t].waiting
        /\ kind \in {"refresh", "login"} => ~tab[t].refreshing
        /\ tab' = IF kind = "refresh" THEN [tab EXCEPT ![t].refreshing = TRUE]
                                      ELSE [tab EXCEPT ![t].waiting = TRUE]
  <2>1. CASE Refresh(c, t)
    BY <2>1 DEF Refresh, Kinds
  <2>2. CASE Login(c, t)
    BY <2>2 DEF Login, Kinds
  <2>3. CASE Logout(c, t)
    BY <2>3 DEF Logout, Kinds
  <2>4. CASE ChangePassword(c, t)
    BY <2>4 DEF ChangePassword, Kinds
  <2>5. CASE ResetPassword(c, t)
    BY <2>5 DEF ResetPassword, Kinds
  <2>6. QED
    BY <2>1, <2>2, <2>3, <2>4, <2>5
<1>2. /\ call'[c] = [NoCall EXCEPT !.pc = "sent", !.kind = kind, !.from = t, !.flag = flag,
                       !.token = IF kind \in {"refresh", "logout"} THEN Cookie(t) ELSE None,
                       !.access = IF kind = "change" THEN tab[t].access ELSE None]
      /\ \A d \in Calls \ {c} : call'[d] = call[d]
  BY <1>1 DEF Send, TypeOK
<1>3. /\ call'[c].pc = "sent" /\ call'[c].from = t /\ call'[c].ok = FALSE
      /\ call'[c].kind = kind /\ call'[c].kind \in Kinds
      /\ call'[c].token = IF call'[c].kind \in {"refresh", "logout"} THEN Cookie(t) ELSE None
  BY <1>2 DEF NoCall
<1>4. /\ tab'[t].refreshing = (tab[t].refreshing \/ call'[c].kind = "refresh")
      /\ tab'[t].waiting = (call'[c].kind # "refresh")
      /\ \A u \in Tabs \ {t} : tab'[u] = tab[u]
  <2>1. CASE kind = "refresh"
    BY <1>1, <1>3, <2>1 DEF TypeOK
  <2>2. CASE kind # "refresh"
    BY <1>1, <1>3, <2>2 DEF TypeOK
  <2>3. QED
    BY <2>1, <2>2
<1>5. ~Open(c) /\ UNCHANGED <<account, key, holder, jar, excuse, issued>>
  BY <1>1 DEF Send, Open, history
<1>6. ~tab[t].waiting /\ (call'[c].kind \in {"refresh", "login"} => ~tab[t].refreshing)
  BY <1>1, <1>3
<1>7. QED
  BY <1>2, <1>3, <1>4, <1>5, <1>6

\* The panel's steps leave whose request it is alone.
LEMMA PanelFrame ==
  ASSUME TypeOK, NEW c \in Calls,
         Receive(c) \/ Serve(c) \/ Begin(c) \/ FinishLogin(c) \/ FinishChange(c)
  PROVE  /\ call[c].pc \in {"sent", "queued", "hash"}
         /\ call'[c].pc \in {"queued", "hash", "answered"}
         /\ call'[c].kind = call[c].kind /\ call'[c].from = call[c].from
         /\ \A d \in Calls \ {c} : call'[d] = call[d]
         /\ UNCHANGED <<key, jar, tab>>
<1>1. CASE Receive(c)
  BY <1>1 DEF Receive, TypeOK, Call
<1>2. CASE Serve(c)
  BY <1>2 DEF Serve, Rotate, RevokeOne, TypeOK, Call
<1>3. CASE Begin(c)
  <2>1. PICK ok : call' = [call EXCEPT ![c].pc = "hash", ![c].rec = account, ![c].ok = ok]
    BY <1>3 DEF Begin
  <2>2. call[c].pc \in {"sent", "queued"} /\ UNCHANGED <<key, jar, tab>>
    BY <1>3 DEF Begin
  <2>3. QED
    BY <2>1, <2>2 DEF TypeOK, Call
<1>4. CASE FinishLogin(c)
  BY <1>4 DEF FinishLogin, LoginFails, LoginSucceeds, TypeOK, Call
<1>5. CASE FinishChange(c)
  BY <1>5 DEF FinishChange, TypeOK, Call
<1>6. QED
  BY <1>1, <1>2, <1>3, <1>4, <1>5

\* What an answer, or the lack of one, does to the tab.
LEMMA AnswerFrame ==
  ASSUME TypeOK, TabInv, NEW c \in Calls, Deliver(c) \/ Fail(c)
  PROVE  /\ Open(c) /\ call[c].from \in Tabs
         /\ ~Open(c)'
         /\ \A d \in Calls \ {c} : call'[d] = call[d]
         /\ LET t == call[c].from IN
            /\ tab'[t].refreshing = (tab[t].refreshing /\ call[c].kind # "refresh")
            /\ tab'[t].waiting = (tab[t].waiting /\ call[c].kind = "refresh")
            /\ \A u \in Tabs \ {t} : tab'[u] = tab[u]
         /\ UNCHANGED <<account, key, issued>>
<1> DEFINE t == call[c].from
<1>1. Open(c) /\ t \in Tabs
  BY DEF Deliver, Fail, Open, TabInv, CallInv, Shape
<1>2. ~Open(c)' /\ \A d \in Calls \ {c} : call'[d] = call[d]
  BY DEF Deliver, Fail, Open, NoCall, TypeOK
<1>3. PICK access : tab' = [tab EXCEPT ![t] = [Settled(c, t) EXCEPT !.access = access]]
  <2>1. CASE Deliver(c)
    BY <2>1 DEF Deliver
  <2>2. CASE Fail(c)
    BY <2>2 DEF Fail
  <2>3. QED
    BY <2>1, <2>2
<1>4. /\ tab'[t].refreshing = (tab[t].refreshing /\ call[c].kind # "refresh")
      /\ tab'[t].waiting = (tab[t].waiting /\ call[c].kind = "refresh")
      /\ \A u \in Tabs \ {t} : tab'[u] = tab[u]
  BY <1>1, <1>3 DEF Settled, TypeOK
<1>5. UNCHANGED <<account, key, issued>>
  BY DEF Deliver, Fail, history
<1>6. QED
  BY <1>1, <1>2, <1>4, <1>5

LEMMA RestartFrame ==
  ASSUME TypeOK, Restart
  PROVE  \A d \in Calls :
           /\ call'[d].kind = call[d].kind /\ call'[d].from = call[d].from
           /\ call'[d].token = call[d].token /\ call'[d].ok = call[d].ok
           /\ call'[d].pc = IF call[d].pc \in {"queued", "hash", "answered"}
                              THEN "lost" ELSE call[d].pc
BY ZenonT(60) DEF Restart, TypeOK, Call

LEMMA ShapeStep ==
  ASSUME TypeOK, CallInv, Next, TypeOK'
  PROVE  CallInv'
<1>1. ASSUME NEW c \in Calls, ~Open(c)' \/ Shape(call'[c]),
             \A d \in Calls \ {c} : call'[d] = call[d]
      PROVE  CallInv'
  BY <1>1 DEF CallInv, Open
<1>2. ASSUME UNCHANGED call PROVE CallInv'
  BY <1>2 DEF CallInv, Open
<1>3. ASSUME NEW c \in Calls, NEW t \in Tabs,
             \/ Refresh(c, t) \/ Login(c, t) \/ Logout(c, t)
             \/ ChangePassword(c, t) \/ ResetPassword(c, t)
      PROVE  CallInv'
  <2>1. Shape(call'[c]) /\ \A d \in Calls \ {c} : call'[d] = call[d]
    BY <1>3, SendFrame DEF Shape
  <2>2. QED
    BY <1>1, <2>1
<1>4. ASSUME NEW c \in Calls, Receive(c) PROVE CallInv'
  <2>1. /\ call'[c].pc \in {"answered", "queued"} /\ call'[c].kind = call[c].kind
        /\ call'[c].from = call[c].from /\ call'[c].token = call[c].token
        /\ call[c].kind \in {"change", "reset"} /\ call[c].pc = "sent"
        /\ call'[c].ok = call[c].ok
        /\ \A d \in Calls \ {c} : call'[d] = call[d]
    BY <1>4 DEF Receive, TypeOK, Call
  <2>2. Shape(call'[c])
    BY <2>1 DEF CallInv, Open, Shape
  <2>3. QED
    BY <1>1, <2>1, <2>2
<1>5. ASSUME NEW c \in Calls, Serve(c) PROVE CallInv'
  <2>1. /\ call'[c].pc = "answered" /\ call'[c].kind = call[c].kind
        /\ call'[c].from = call[c].from
        /\ call[c].kind \in {"refresh", "logout"} /\ call[c].pc = "sent"
        /\ \A d \in Calls \ {c} : call'[d] = call[d]
    <3>1. call'[c].pc = "answered"
      BY <1>5 DEF Serve, Rotate, RevokeOne, TypeOK, Call
    <3>2. call[c].kind \in {"refresh", "logout"} /\ call[c].pc = "sent"
      BY <1>5 DEF Serve
    <3>3. QED
      BY <1>5, <3>1, <3>2, PanelFrame
  <2>2. Shape(call'[c])
    BY <2>1 DEF CallInv, Open, Shape
  <2>3. QED
    BY <1>1, <2>1, <2>2
<1>6. ASSUME NEW c \in Calls, Begin(c) PROVE CallInv'
  <2>1. /\ call'[c].pc = "hash" /\ call'[c].kind = call[c].kind
        /\ call'[c].from = call[c].from /\ call'[c].token = call[c].token
        /\ call[c].pc = (IF call[c].kind = "login" THEN "sent" ELSE "queued")
        /\ \A d \in Calls \ {c} : call'[d] = call[d]
    BY <1>6 DEF Begin, TypeOK, Call
  <2>2. Shape(call'[c])
    BY <2>1 DEF CallInv, Open, Shape
  <2>3. QED
    BY <1>1, <2>1, <2>2
<1>7. ASSUME NEW c \in Calls, FinishLogin(c) PROVE CallInv'
  <2>1. /\ call'[c].pc = "answered" /\ call'[c].kind = "login" /\ call[c].kind = "login"
        /\ call'[c].from = call[c].from /\ call[c].pc = "hash"
        /\ \A d \in Calls \ {c} : call'[d] = call[d]
    BY <1>7 DEF FinishLogin, LoginFails, LoginSucceeds, TypeOK, Call
  <2>2. Shape(call'[c])
    BY <2>1 DEF CallInv, Open, Shape
  <2>3. QED
    BY <1>1, <2>1, <2>2
<1>8. ASSUME NEW c \in Calls, FinishChange(c) PROVE CallInv'
  <2>1. /\ call'[c].pc = "answered" /\ call'[c].kind = call[c].kind
        /\ call'[c].from = call[c].from /\ call'[c].token = call[c].token
        /\ call[c].kind \in {"change", "reset"} /\ call[c].pc = "hash"
        /\ \A d \in Calls \ {c} : call'[d] = call[d]
    BY <1>8 DEF FinishChange, TypeOK, Call
  <2>2. Shape(call'[c])
    BY <2>1 DEF CallInv, Open, Shape
  <2>3. QED
    BY <1>1, <2>1, <2>2
<1>9. ASSUME NEW c \in Calls, Deliver(c) \/ Fail(c) PROVE CallInv'
  <2>1. ~Open(c)' /\ \A d \in Calls \ {c} : call'[d] = call[d]
    BY <1>9 DEF Deliver, Fail, Open, NoCall, TypeOK
  <2>2. QED
    BY <1>1, <2>1
<1>10. CASE Restart
  BY <1>10, RestartFrame DEF CallInv, Open, Shape
<1>11. ASSUME NEW t \in Tabs, Forget(t) PROVE CallInv'
  BY <1>2, <1>11 DEF Forget
<1>12. CASE LockEnds \/ CreateResetToken \/ NewKey
  BY <1>2, <1>12 DEF LockEnds, CreateResetToken, NewKey
<1>13. QED
  BY <1>3, <1>4, <1>5, <1>6, <1>7, <1>8, <1>9, <1>10, <1>11, <1>12 DEF Next

LEMMA TabStep ==
  ASSUME TypeOK, TabInv, Next, TypeOK'
  PROVE  TabInv'
<1>1. ASSUME \A d \in Calls : /\ Open(d)' = Open(d) /\ call'[d].kind = call[d].kind
                              /\ call'[d].from = call[d].from,
             \A u \in Tabs : /\ tab'[u].refreshing = tab[u].refreshing
                             /\ tab'[u].waiting = tab[u].waiting
      PROVE  (WaitInv /\ SingleInv)'
  BY <1>1 DEF TabInv, WaitInv, SingleInv, CallInv, Shape
<1>2. ASSUME NEW c \in Calls, NEW t \in Tabs,
             \/ Refresh(c, t) \/ Login(c, t) \/ Logout(c, t)
             \/ ChangePassword(c, t) \/ ResetPassword(c, t)
      PROVE  (WaitInv /\ SingleInv)'
  <2>1. /\ ~Open(c) /\ ~tab[t].waiting
        /\ call'[c].pc = "sent" /\ call'[c].from = t
        /\ call'[c].kind \in {"refresh", "login"} => ~tab[t].refreshing
        /\ tab'[t].refreshing = (tab[t].refreshing \/ call'[c].kind = "refresh")
        /\ tab'[t].waiting = (call'[c].kind # "refresh")
        /\ \A u \in Tabs \ {t} : tab'[u] = tab[u]
        /\ \A d \in Calls \ {c} : call'[d] = call[d]
    BY <1>2, SendFrame
  <2>2. \A d \in Calls \ {c} : Open(d)' = Open(d)
    BY <2>1 DEF Open
  <2>3. ASSUME NEW d \in Calls \ {c}, Open(d), call[d].from = t
        PROVE  call[d].kind = "refresh" /\ call'[c].kind # "refresh" /\ tab[t].refreshing
    <3>1. call[d].kind = "refresh"
      BY <2>1, <2>3 DEF TabInv, WaitInv
    <3>2. tab[t].refreshing
      BY <2>3, <3>1 DEF TabInv, WaitInv
    <3>3. QED
      BY <2>1, <3>1, <3>2
  <2>4. SingleInv'
    BY <2>1, <2>2, <2>3 DEF TabInv, SingleInv
  <2>5. ASSUME NEW d \in Calls, Open(d)'
        PROVE  /\ IF call'[d].kind = "refresh" THEN tab'[call'[d].from].refreshing
                                               ELSE tab'[call'[d].from].waiting
               /\ call'[d].kind = "login" => ~tab'[call'[d].from].refreshing
    <3>1. CASE d = c
      BY <2>1, <3>1
    <3>2. CASE d # c /\ call[d].from = t
      BY <2>1, <2>2, <2>3, <2>5, <3>2
    <3>3. CASE d # c /\ call[d].from # t
      <4>1. call'[d] = call[d] /\ Open(d) /\ call[d].from \in Tabs \ {t}
        BY <2>1, <2>2, <2>5, <3>3 DEF TabInv, CallInv, Shape
      <4>2. QED
        BY <2>1, <4>1 DEF TabInv, WaitInv
    <3>4. QED
      BY <3>1, <3>2, <3>3
  <2>6. QED
    BY <2>4, <2>5 DEF WaitInv
<1>3. ASSUME NEW t \in Tabs, Forget(t) PROVE (WaitInv /\ SingleInv)'
  BY <1>1, <1>3 DEF Forget, TypeOK, Open
<1>4. ASSUME NEW c \in Calls,
             Receive(c) \/ Serve(c) \/ Begin(c) \/ FinishLogin(c) \/ FinishChange(c)
      PROVE  (WaitInv /\ SingleInv)'
  BY <1>1, <1>4, PanelFrame DEF Open
<1>5. ASSUME NEW c \in Calls, Deliver(c) \/ Fail(c) PROVE (WaitInv /\ SingleInv)'
  <2> DEFINE t == call[c].from
  <2>1. /\ Open(c) /\ t \in Tabs /\ ~Open(c)'
        /\ tab'[t].refreshing = (tab[t].refreshing /\ call[c].kind # "refresh")
        /\ tab'[t].waiting = (tab[t].waiting /\ call[c].kind = "refresh")
        /\ \A u \in Tabs \ {t} : tab'[u] = tab[u]
        /\ \A d \in Calls \ {c} : call'[d] = call[d]
    BY <1>5, AnswerFrame
  <2>2. \A d \in Calls \ {c} : Open(d)' = Open(d)
    BY <2>1 DEF Open
  <2>3. SingleInv'
    BY <2>1, <2>2 DEF TabInv, SingleInv
  <2>4. ASSUME NEW d \in Calls, Open(d)'
        PROVE  /\ IF call'[d].kind = "refresh" THEN tab'[call'[d].from].refreshing
                                               ELSE tab'[call'[d].from].waiting
               /\ call'[d].kind = "login" => ~tab'[call'[d].from].refreshing
    <3>1. d # c /\ Open(d) /\ call'[d] = call[d] /\ call[d].from \in Tabs
      BY <2>1, <2>2, <2>4 DEF TabInv, CallInv, Shape
    <3>2. /\ IF call[d].kind = "refresh" THEN tab[call[d].from].refreshing
                                         ELSE tab[call[d].from].waiting
          /\ call[d].kind = "login" => ~tab[call[d].from].refreshing
      BY <3>1 DEF TabInv, WaitInv
    <3>3. CASE call[d].from = t
      <4>1. (call[c].kind = "refresh") # (call[d].kind = "refresh")
        BY <2>1, <3>1, <3>3 DEF TabInv, SingleInv
      <4>2. QED
        BY <2>1, <3>1, <3>2, <3>3, <4>1
    <3>4. CASE call[d].from # t
      BY <2>1, <3>1, <3>2, <3>4
    <3>5. QED
      BY <3>3, <3>4
  <2>5. QED
    BY <2>3, <2>4 DEF WaitInv
<1>6. ASSUME Restart PROVE (WaitInv /\ SingleInv)'
  <2>1. tab' = tab
    BY <1>6 DEF Restart
  <2>2. \A d \in Calls : Open(d)' = Open(d)
    BY <1>6, RestartFrame DEF Open
  <2>3. QED
    BY <1>1, <1>6, <2>1, <2>2, RestartFrame
<1>7. ASSUME LockEnds \/ CreateResetToken \/ NewKey PROVE (WaitInv /\ SingleInv)'
  BY <1>1, <1>7 DEF LockEnds, CreateResetToken, NewKey, Open
<1>8. (WaitInv /\ SingleInv)'
  BY <1>2, <1>3, <1>4, <1>5, <1>6, <1>7 DEF Next
<1>9. QED
  BY <1>8, ShapeStep DEF TabInv
-----------------------------------------------------------------------------
(* Whose session it is.                                                    *)

LEMMA OwnStep ==
  ASSUME TypeOK, TypeOK', MutexInv, TabInv, OwnSessions, Next
  PROVE  OwnSessions'
<1>0. issued \in Nat /\ issued' \in Nat
  BY SessionsAssumption DEF TypeOK
<1>1. ASSUME issued' = issued,
             \A b \in Browsers, i \in Ids : Known(b, i)' => Known(b, i)
      PROVE  OwnSessions'
  BY <1>1 DEF OwnSessions
<1>2. ASSUME NEW x \in Browsers, issued' = issued + 1,
             \A b \in Browsers, i \in Ids :
               Known(b, i)' => Known(b, i) \/ (i = issued' /\ b = x)
      PROVE  OwnSessions'
  <2>1. \A b \in Browsers, i \in Ids : Known(b, i) => i # issued'
    BY <1>0, <1>2 DEF OwnSessions, Ids
  <2>2. \A b \in Browsers, i \in Ids : Known(b, i)' => i <= issued'
    BY <1>0, <1>2 DEF OwnSessions, Ids
  <2>3. \A a, b \in Browsers : \A i \in Ids : Known(a, i)' /\ Known(b, i)' => a = b
    BY <1>2, <2>1 DEF OwnSessions
  <2>4. QED
    BY <2>2, <2>3 DEF OwnSessions
<1>3. ASSUME UNCHANGED <<jar, issued>>,
             \A d \in Calls : /\ Open(d)' = Open(d) /\ call'[d].from = call[d].from
                              /\ call'[d].token = call[d].token
      PROVE  OwnSessions'
  <2>1. \A b \in Browsers, i \in Ids : Known(b, i)' => Known(b, i)
    BY <1>3 DEF Known
  <2>2. QED
    BY <1>1, <1>3, <2>1
<1>4. ASSUME NEW c \in Calls, NEW t \in Tabs,
             \/ Refresh(c, t) \/ Login(c, t) \/ Logout(c, t)
             \/ ChangePassword(c, t) \/ ResetPassword(c, t)
      PROVE  OwnSessions'
  <2>1. /\ call'[c].from = t
        /\ call'[c].token \in {jar[BrowserOf[t]], None}
        /\ \A d \in Calls \ {c} : call'[d] = call[d]
        /\ UNCHANGED <<jar, issued>>
    BY <1>4, SendFrame DEF Cookie
  <2>2. ASSUME NEW b \in Browsers, NEW i \in Ids, Known(b, i)' PROVE Known(b, i)
    <3>1. CASE jar'[b] # None /\ jar'[b].session = i
      BY <2>1, <3>1 DEF Known
    <3>2. ASSUME NEW d \in Calls, Open(d)', call'[d].token # None,
                 call'[d].token.session = i, BrowserOf[call'[d].from] = b
          PROVE  Known(b, i)
      <4>1. CASE d = c
        BY <2>1, <3>2, <4>1 DEF Known
      <4>2. CASE d # c
        BY <2>1, <3>2, <4>2 DEF Known, Open
      <4>3. QED
        BY <4>1, <4>2
    <3>3. QED
      BY <2>2, <3>1, <3>2 DEF Known
  <2>3. QED
    BY <1>1, <2>1, <2>2
<1>5. ASSUME NEW c \in Calls,
             (Serve(c) /\ Rotate(c)) \/ (FinishLogin(c) /\ LoginSucceeds(c))
      PROVE  OwnSessions'
  <2> DEFINE x == BrowserOf[call[c].from]
  <2>1. /\ call[c].pc \in {"sent", "queued", "hash"}
        /\ call'[c].from = call[c].from
        /\ \A d \in Calls \ {c} : call'[d] = call[d]
        /\ UNCHANGED jar
    BY <1>5, PanelFrame
  <2>2. x \in Browsers
    BY <2>1 DEF TabInv, CallInv, Shape, Open, Browsers
  <2>3. \/ call'[c].token = None /\ issued' = issued
        \/ /\ call'[c].token # None /\ call'[c].token.session = issued'
           /\ issued' = issued + 1
    <3>1. CASE Rotate(c)
      <4>1. call'[c].token = [session |-> issued + 1, gen |-> account.gen, key |-> key]
        BY <3>1 DEF Rotate, TypeOK, Call
      <4>2. call'[c].token \in Token
        <5>1. issued + 1 \in Ids
          BY <1>0, <3>1 DEF Rotate, Ids
        <5>2. QED
          BY <4>1, <5>1 DEF TypeOK, Account, Token
      <4>3. QED
        BY <3>1, <4>1, <4>2, SessionsAssumption DEF Rotate
    <3>2. CASE FinishLogin(c) /\ LoginSucceeds(c) /\ call[c].flag
      <4>1. /\ call'[c].token = [session |-> issued + 1, gen |-> call[c].rec.gen, key |-> key]
            /\ issued' = issued + 1
        BY <3>2 DEF LoginSucceeds, TypeOK, Call
      <4>2. call'[c].token # None
        <5>1. issued + 1 \in Ids /\ key \in Nat
          BY <1>0, <3>2 DEF LoginSucceeds, Ids, TypeOK
        <5>2. call[c].rec \in Account
          BY <3>2 DEF FinishLogin, MutexInv
        <5>3. call'[c].token \in Token
          BY <4>1, <5>1, <5>2 DEF Account, Token
        <5>4. QED
          BY <5>3, SessionsAssumption
      <4>3. QED
        BY <4>1, <4>2
    <3>3. CASE FinishLogin(c) /\ LoginSucceeds(c) /\ ~call[c].flag
      BY <3>3 DEF LoginSucceeds, TypeOK, Call
    <3>4. QED
      BY <1>5, <3>1, <3>2, <3>3
  <2>4. ASSUME NEW b \in Browsers, NEW i \in Ids, Known(b, i)'
        PROVE  \/ Known(b, i)
               \/ call'[c].token # None /\ i = issued' /\ b = x
    <3>1. CASE jar'[b] # None /\ jar'[b].session = i
      BY <2>1, <3>1 DEF Known
    <3>2. ASSUME NEW d \in Calls, Open(d)', call'[d].token # None,
                 call'[d].token.session = i, BrowserOf[call'[d].from] = b, ~Known(b, i)
          PROVE  call'[c].token # None /\ i = issued' /\ b = x
      <4>1. CASE d = c
        BY <2>1, <2>3, <3>2, <4>1
      <4>2. CASE d # c
        BY <2>1, <3>2, <4>2 DEF Known, Open
      <4>3. QED
        BY <4>1, <4>2
    <3>3. QED
      BY <2>4, <3>1, <3>2 DEF Known
  <2>5. CASE call'[c].token = None /\ issued' = issued
    BY <1>1, <2>4, <2>5
  <2>6. CASE call'[c].token # None /\ issued' = issued + 1
    BY <1>2, <2>2, <2>4, <2>6
  <2>7. QED
    BY <2>3, <2>5, <2>6
<1>6. ASSUME NEW c \in Calls,
             \/ Receive(c) \/ Begin(c) \/ FinishChange(c)
             \/ Serve(c) /\ ~Rotate(c)
             \/ FinishLogin(c) /\ ~LoginSucceeds(c)
      PROVE  OwnSessions'
  <2>1. /\ call[c].pc \in {"sent", "queued", "hash"}
        /\ call'[c].pc \in {"queued", "hash", "answered"}
        /\ call'[c].from = call[c].from
        /\ \A d \in Calls \ {c} : call'[d] = call[d]
        /\ UNCHANGED jar
    BY <1>6, PanelFrame
  <2>2. call'[c].token = call[c].token /\ issued' = issued
    <3>1. CASE Receive(c)
      BY <3>1 DEF Receive, TypeOK, Call, history
    <3>2. CASE Begin(c)
      <4>1. PICK ok : call' = [call EXCEPT ![c].pc = "hash", ![c].rec = account, ![c].ok = ok]
        BY <3>2 DEF Begin
      <4>2. issued' = issued
        BY <3>2 DEF Begin, history
      <4>3. QED
        BY <4>1, <4>2 DEF TypeOK, Call
    <3>3. CASE FinishChange(c)
      BY <3>3 DEF FinishChange, TypeOK, Call
    <3>4. CASE Serve(c) /\ ~Rotate(c)
      BY <3>4 DEF Serve, RevokeOne, TypeOK, Call
    <3>5. CASE FinishLogin(c) /\ ~LoginSucceeds(c)
      BY <3>5 DEF FinishLogin, LoginFails, TypeOK, Call
    <3>6. QED
      BY <1>6, <3>1, <3>2, <3>3, <3>4, <3>5
  <2>3. QED
    BY <1>3, <2>1, <2>2 DEF Open
<1>7. ASSUME NEW c \in Calls, Deliver(c) \/ Fail(c) PROVE OwnSessions'
  <2> DEFINE x == BrowserOf[call[c].from]
  <2>1. /\ Open(c) /\ call[c].from \in Tabs /\ ~Open(c)' /\ issued' = issued
        /\ \A d \in Calls \ {c} : call'[d] = call[d]
    BY <1>7, AnswerFrame
  <2>2. /\ jar'[x] \in {jar[x], call[c].token, None}
        /\ \A b \in Browsers \ {x} : jar'[b] = jar[b]
    <3>1. CASE Deliver(c)
      <4>1. NewCookie(c) \in {jar[x], call[c].token, None}
        BY DEF NewCookie, Cookie
      <4>2. x \in Browsers
        BY <2>1 DEF Browsers
      <4>3. QED
        BY <3>1, <4>1, <4>2 DEF Deliver, TypeOK
    <3>2. CASE Fail(c)
      BY <3>2 DEF Fail
    <3>3. QED
      BY <1>7, <3>1, <3>2
  <2>3. ASSUME NEW b \in Browsers, NEW i \in Ids, Known(b, i)' PROVE Known(b, i)
    <3>1. CASE jar'[b] # None /\ jar'[b].session = i
      BY <2>1, <2>2, <3>1 DEF Known
    <3>2. ASSUME NEW d \in Calls, Open(d)', call'[d].token # None,
                 call'[d].token.session = i, BrowserOf[call'[d].from] = b
          PROVE  Known(b, i)
      BY <2>1, <3>2 DEF Known, Open
    <3>3. QED
      BY <2>3, <3>1, <3>2 DEF Known
  <2>4. QED
    BY <1>1, <2>1, <2>3
<1>8. CASE Restart
  <2>1. UNCHANGED <<jar, issued>>
    BY <1>8 DEF Restart
  <2>2. QED
    BY <1>3, <1>8, <2>1, RestartFrame DEF Open
<1>9. ASSUME NEW t \in Tabs, Forget(t) PROVE OwnSessions'
  BY <1>3, <1>9 DEF Forget, history, Open
<1>10. CASE LockEnds \/ CreateResetToken \/ NewKey
  BY <1>3, <1>10 DEF LockEnds, CreateResetToken, NewKey, history, Open
<1>11. ASSUME NEW c \in Calls, Serve(c) \/ FinishLogin(c) PROVE OwnSessions'
  <2>1. CASE (Serve(c) /\ Rotate(c)) \/ (FinishLogin(c) /\ LoginSucceeds(c))
    BY <1>5, <2>1
  <2>2. CASE (Serve(c) /\ ~Rotate(c)) \/ (FinishLogin(c) /\ ~LoginSucceeds(c))
    BY <1>6, <2>2
  <2>3. QED
    BY <1>11, <2>1, <2>2
<1>12. QED
  BY <1>4, <1>6, <1>7, <1>8, <1>9, <1>10, <1>11 DEF Next
-----------------------------------------------------------------------------
(* Who is signed in.                                                       *)

\* What a step must leave alone for a browser to stay signed in.
LEMMA StaysSignedIn ==
  ASSUME NEW b \in Browsers, SignedIn(b), jar'[b] = jar[b],
         IsActive(jar[b], account) => IsActive(jar[b], account'),
         key' = key,
         \A d \in Calls : BrowserOf[call[d].from] = b /\ Open(d) /\ call[d].kind = "refresh" =>
           /\ call'[d].pc = call[d].pc /\ call'[d].from = call[d].from
           /\ call'[d].kind = "refresh" /\ call'[d].ok = call[d].ok
           /\ call'[d].token = call[d].token
           /\ call[d].pc = "answered" /\ IsActive(call[d].token, account)
                => IsActive(call[d].token, account'),
         \A d \in Calls : Open(d)' /\ BrowserOf[call'[d].from] = b =>
           \/ call'[d].kind = "refresh" /\ Open(d) /\ call[d].kind = "refresh"
              /\ call'[d].from = call[d].from
           \/ call'[d].kind = "refresh" /\ call'[d].pc = "sent" /\ call'[d].token = jar[b]
           \/ /\ call'[d].kind # "refresh"
              /\ ~(call'[d].kind = "change" /\ call'[d].pc = "answered" /\ call'[d].ok)
  PROVE  SignedIn(b)'
<1>1. jar'[b] # None
  BY DEF SignedIn
<1>2. Refreshed(b)' \/ IsActive(jar[b], account)'
  <2>1. CASE Refreshed(b)
    BY <2>1 DEF Refreshed, Open
  <2>2. CASE IsActive(jar[b], account)
    BY <2>2 DEF IsActive
  <2>3. QED
    BY <2>1, <2>2 DEF SignedIn
<1>3. ASSUME NEW d \in Calls, Open(d)', BrowserOf[call'[d].from] = b
      PROVE  /\ call'[d].kind = "refresh" =>
                  \/ call'[d].pc = "sent" /\ call'[d].token = jar'[b]
                  \/ call'[d].pc = "answered" /\ call'[d].ok /\ IsActive(call'[d].token, account')
             /\ ~(call'[d].kind = "change" /\ call'[d].pc = "answered" /\ call'[d].ok)
  <2>1. CASE /\ call'[d].kind = "refresh" /\ Open(d) /\ call[d].kind = "refresh"
             /\ call'[d].from = call[d].from
    <3>1. \/ call[d].pc = "sent" /\ call[d].token = jar[b]
          \/ call[d].pc = "answered" /\ call[d].ok /\ IsActive(call[d].token, account)
      BY <1>3, <2>1 DEF SignedIn
    <3>2. QED
      BY <1>3, <2>1, <3>1
  <2>2. QED
    BY <1>3, <2>1
<1>4. QED
  BY <1>1, <1>2, <1>3 DEF SignedIn, IsActive
LEMMA OneRefresh ==
  ASSUME TabInv, NEW b, Alone(b), NEW c \in Calls, NEW d \in Calls, Open(c), Open(d),
         BrowserOf[call[c].from] = b, BrowserOf[call[d].from] = b,
         (call[c].kind = "refresh") = (call[d].kind = "refresh")
  PROVE  c = d
<1>1. call[c].from \in Tabs /\ call[d].from \in Tabs
  BY DEF TabInv, CallInv, Shape
<1>2. call[c].from = call[d].from
  BY <1>1 DEF Alone
<1>3. QED
  BY <1>2 DEF TabInv, SingleInv

\* The same for the steps of the panel, on behalf of others or of the browser.
LEMMA PanelKeeps ==
  ASSUME TypeOK, TabInv, NEW c \in Calls,
         Receive(c) \/ Serve(c) \/ Begin(c) \/ FinishLogin(c) \/ FinishChange(c),
         NEW b \in Browsers, SignedIn(b),
         call[c].kind # "refresh" \/ BrowserOf[call[c].from] # b,
         call[c].kind = "change" /\ call'[c].pc = "answered" => ~call'[c].ok,
         IsActive(jar[b], account) => IsActive(jar[b], account'),
         \A d \in Calls : /\ BrowserOf[call[d].from] = b /\ call[d].pc = "answered"
                          /\ IsActive(call[d].token, account)
                          => IsActive(call[d].token, account')
  PROVE  SignedIn(b)'
<1>1. /\ call[c].pc \in {"sent", "queued", "hash"}
      /\ call'[c].kind = call[c].kind /\ call'[c].from = call[c].from
      /\ \A d \in Calls \ {c} : call'[d] = call[d]
      /\ UNCHANGED <<key, jar>>
  BY PanelFrame
<1>2. ASSUME NEW d \in Calls, BrowserOf[call[d].from] = b, Open(d), call[d].kind = "refresh"
      PROVE  /\ call'[d] = call[d]
             /\ call[d].pc = "answered" /\ IsActive(call[d].token, account)
                  => IsActive(call[d].token, account')
  BY <1>1, <1>2
<1>3. ASSUME NEW d \in Calls, Open(d)', BrowserOf[call'[d].from] = b
      PROVE  \/ call'[d].kind = "refresh" /\ Open(d) /\ call[d].kind = "refresh"
                /\ call'[d].from = call[d].from
             \/ /\ call'[d].kind # "refresh"
                /\ ~(call'[d].kind = "change" /\ call'[d].pc = "answered" /\ call'[d].ok)
  <2>1. CASE d = c
    BY <1>1, <1>3, <2>1
  <2>2. CASE d # c
    <3>1. call'[d] = call[d] /\ Open(d)
      BY <1>1, <1>3, <2>2 DEF Open
    <3>2. QED
      BY <1>3, <3>1 DEF SignedIn
  <2>3. QED
    BY <2>1, <2>2
<1>4. QED
  BY <1>1, <1>2, <1>3, StaysSignedIn

\* A browser whose refresh is served has an active session then.
LEMMA RefreshFindsSession ==
  ASSUME TabInv, NEW b \in Browsers, Alone(b), SignedIn(b),
         NEW c \in Calls, Open(c), call[c].kind = "refresh", call[c].pc = "sent",
         BrowserOf[call[c].from] = b
  PROVE  call[c].token = jar[b] /\ IsActive(jar[b], account) /\ ~Refreshed(b)
<1>1. call[c].token = jar[b]
  BY DEF SignedIn
<1>2. ~Refreshed(b)
  <2> SUFFICES ASSUME NEW d \in Calls, Open(d), BrowserOf[call[d].from] = b,
                      call[d].kind = "refresh", call[d].pc = "answered"
               PROVE  FALSE
    BY DEF Refreshed
  <2>1. c = d
    BY OneRefresh
  <2>2. QED
    BY <2>1
<1>3. QED
  BY <1>1, <1>2 DEF SignedIn

LEMMA RotateKeeps ==
  ASSUME TypeOK, RowInv, TabInv, OwnSessions, NEW c \in Calls, Serve(c), Rotate(c),
         IsActive(call[c].token, account), call[c].kind = "refresh",
         NEW b \in Browsers, Alone(b), SignedIn(b)
  PROVE  SignedIn(b)'
<1> DEFINE old == call[c].token.session
           new == issued + 1
           S == account.sessions
           x == BrowserOf[call[c].from]
<1>1. /\ old \in S /\ new \in Ids /\ S \in SUBSET Ids /\ issued \in Nat
      /\ \A j \in S : j < new
  <2>1. old \in S /\ S \in SUBSET Ids /\ issued \in Nat
    BY SessionsAssumption DEF IsActive, TypeOK, Account
  <2>2. new \in Ids
    BY <2>1 DEF Rotate, Ids
  <2>3. S \subseteq 1..issued
    BY DEF RowInv, NumberInv
  <2>4. QED
    BY <2>1, <2>2, <2>3
<1>2. /\ account'.sessions = Newest((S \ {old}) \cup {new}) /\ account'.gen = account.gen
      /\ call'[c].pc = "answered" /\ call'[c].ok = TRUE
      /\ call'[c].token = [session |-> new, gen |-> account.gen, key |-> key]
  BY DEF Rotate, TypeOK, Account, Call
<1>3. account'.sessions = (S \ {old}) \cup {new}
  BY <1>1, <1>2, ExchangeKeeps DEF RowInv
<1>4. /\ call[c].pc = "sent" /\ Open(c)
      /\ call'[c].kind = "refresh" /\ call'[c].from = call[c].from
      /\ \A d \in Calls \ {c} : call'[d] = call[d]
      /\ UNCHANGED <<key, jar>>
  BY PanelFrame DEF Serve, Open
<1>5. x \in Browsers
  BY <1>4 DEF TabInv, CallInv, Shape, Browsers
<1>6. CASE x # b
  <2>1. ~Known(b, old)
    <3>1. Known(x, old)
      BY <1>4 DEF Known, IsActive
    <3>2. old \in Ids
      BY <1>1
    <3>3. QED
      BY <1>5, <1>6, <3>1, <3>2 DEF OwnSessions
  <2>2. IsActive(jar[b], account) => IsActive(jar[b], account')
    BY <1>2, <1>3, <2>1 DEF Known, IsActive
  <2>3. ASSUME NEW d \in Calls, BrowserOf[call[d].from] = b, call[d].pc = "answered",
               IsActive(call[d].token, account)
        PROVE  IsActive(call[d].token, account')
    <3>1. call[d].token.session # old
      BY <2>1, <2>3 DEF Known, IsActive, Open
    <3>2. QED
      BY <1>2, <1>3, <2>3, <3>1 DEF IsActive
  <2>4. call[c].kind # "change"
    OBVIOUS
  <2>5. QED
    BY <1>6, <2>2, <2>3, <2>4, PanelKeeps
<1>7. CASE x = b
  <2>1. call[c].token = jar[b] /\ IsActive(jar[b], account) /\ ~Refreshed(b)
    BY <1>4, <1>7, RefreshFindsSession
  <2>2. IsActive(call[c].token, account)'
    <3>1. call'[c].token \in Token
      BY <1>1, <1>2 DEF Token, TypeOK, Account
    <3>2. call'[c].token # None
      BY <3>1, SessionsAssumption
    <3>3. /\ call'[c].token.session = new /\ call'[c].token.gen = account'.gen
          /\ call'[c].token.key = key'
      BY <1>2, <1>4
    <3>4. QED
      BY <1>3, <3>2, <3>3 DEF IsActive
  <2>3. Refreshed(b)'
    BY <1>2, <1>4, <1>7 DEF Refreshed, Open
  <2>4. ASSUME NEW d \in Calls, Open(d)', BrowserOf[call'[d].from] = b
        PROVE  /\ call'[d].kind = "refresh" =>
                   \/ call'[d].pc = "sent" /\ call'[d].token = jar'[b]
                   \/ call'[d].pc = "answered" /\ call'[d].ok /\ IsActive(call[d].token, account)'
               /\ ~(call'[d].kind = "change" /\ call'[d].pc = "answered" /\ call'[d].ok)
    <3>1. CASE d = c
      BY <1>2, <1>4, <2>2, <3>1
    <3>2. CASE d # c
      <4>1. call'[d] = call[d] /\ Open(d)
        BY <1>4, <2>4, <3>2 DEF Open
      <4>2. call[d].kind # "refresh"
        BY <1>4, <1>7, <2>4, <3>2, <4>1, OneRefresh
      <4>3. QED
        BY <2>4, <4>1, <4>2 DEF SignedIn
    <3>3. QED
      BY <3>1, <3>2
  <2>5. QED
    BY <1>4, <2>3, <2>4 DEF SignedIn
<1>8. QED
  BY <1>6, <1>7

\* Whoever does not hold one of the sessions that leave the row keeps its own.
LEMMA DroppedKeeps ==
  ASSUME TypeOK, NEW b \in Browsers, NEW S, b \notin Holding(S),
         account.sessions \ S \subseteq account'.sessions, account'.gen = account.gen
  PROVE  /\ IsActive(jar[b], account) => IsActive(jar[b], account')
         /\ \A d \in Calls : /\ BrowserOf[call[d].from] = b /\ call[d].pc = "answered"
                             /\ IsActive(call[d].token, account)
                             => IsActive(call[d].token, account')
<1>1. jar[b] # None => jar[b].session \notin S
  BY DEF Holding
<1>2. ASSUME NEW d \in Calls, BrowserOf[call[d].from] = b, call[d].pc = "answered",
             call[d].token # None
      PROVE  call[d].token.session \notin S
  BY <1>2 DEF Holding
<1>3. QED
  BY <1>1, <1>2 DEF IsActive
LEMMA DeliverKeeps ==
  ASSUME TypeOK, TabInv, SignedInInv, NEW c \in Calls, Deliver(c),
         NEW b \in Browsers \ excuse', Alone(b)
  PROVE  SignedIn(b)'
<1> DEFINE t == call[c].from
           x == BrowserOf[t]
<1>1. /\ Open(c) /\ t \in Tabs /\ ~Open(c)' /\ x \in Browsers
      /\ \A d \in Calls \ {c} : call'[d] = call[d]
      /\ UNCHANGED <<account, key>>
      /\ call[c].pc = "answered"
  BY AnswerFrame DEF Browsers, Deliver
<1>2. jar' = [jar EXCEPT ![x] = NewCookie(c)] /\ excuse' = Excused(c)
  BY DEF Deliver
<1>3. ASSUME NEW d \in Calls, Open(d)'
      PROVE  d # c /\ call'[d] = call[d] /\ Open(d)
  BY <1>1, <1>3 DEF Open
<1>4. ASSUME SignedIn(b), jar'[b] = jar[b], x # b \/ call[c].kind # "refresh"
      PROVE  SignedIn(b)'
  <2>1. ASSUME NEW d \in Calls, BrowserOf[call[d].from] = b, Open(d), call[d].kind = "refresh"
        PROVE  call'[d] = call[d]
    BY <1>1, <1>4, <2>1
  <2>2. ASSUME NEW d \in Calls, Open(d)', BrowserOf[call'[d].from] = b
        PROVE  \/ call'[d].kind = "refresh" /\ Open(d) /\ call[d].kind = "refresh"
                  /\ call'[d].from = call[d].from
               \/ /\ call'[d].kind # "refresh"
                  /\ ~(call'[d].kind = "change" /\ call'[d].pc = "answered" /\ call'[d].ok)
    BY <1>3, <1>4, <2>2 DEF SignedIn
  <2>3. QED
    BY <1>1, <1>4, <2>1, <2>2, StaysSignedIn
<1>5. CASE x # b
  <2>1. jar'[b] = jar[b]
    BY <1>2, <1>5 DEF TypeOK
  <2>2. b \notin excuse
    BY <1>2, <1>5 DEF Excused
  <2>3. QED
    BY <1>4, <1>5, <2>1, <2>2 DEF SignedInInv
<1>6. CASE x = b /\ call[c].kind = "login" /\ call[c].ok
  <2>1. IsActive(call[c].token, account) /\ jar'[b] = call[c].token
    <3>1. IsActive(call[c].token, account)
      BY <1>2, <1>6 DEF Excused
    <3>2. NewCookie(c) = call[c].token
      BY <1>6 DEF NewCookie
    <3>3. QED
      BY <1>1, <1>2, <1>6, <3>1, <3>2 DEF TypeOK
  <2>2. IsActive(jar[b], account)'
    BY <1>1, <2>1 DEF IsActive
  <2>3. ASSUME NEW d \in Calls, Open(d)', BrowserOf[call'[d].from] = b
        PROVE  call'[d].kind \notin {"refresh", "change"}
    <3>1. d # c /\ call'[d] = call[d] /\ Open(d)
      BY <1>3, <2>3
    <3>2. call[d].from = t
      BY <1>1, <1>6, <2>3, <3>1 DEF Alone, TabInv, CallInv, Shape
    <3>3. call[d].kind = "refresh"
      BY <1>1, <1>6, <3>1, <3>2 DEF TabInv, SingleInv
    <3>4. ~tab[t].refreshing
      BY <1>1, <1>6 DEF TabInv, WaitInv
    <3>5. QED
      BY <3>1, <3>2, <3>3, <3>4 DEF TabInv, WaitInv
  <2>4. jar'[b] # None
    BY <2>1 DEF IsActive
  <2>5. QED
    BY <2>2, <2>3, <2>4 DEF SignedIn
<1>7. CASE x = b /\ ~(call[c].kind = "login" /\ call[c].ok)
  <2>1. SignedIn(b) /\ call[c].kind # "logout"
    BY <1>2, <1>7 DEF Excused, SignedInInv
  <2>2. CASE call[c].kind = "refresh"
    <3>1. call[c].ok /\ IsActive(call[c].token, account)
      BY <1>1, <1>7, <2>1, <2>2 DEF SignedIn
    <3>2. jar'[b] = call[c].token
      <4>1. NewCookie(c) = call[c].token
        BY <2>2, <3>1 DEF NewCookie
      <4>2. QED
        BY <1>1, <1>2, <1>7, <4>1 DEF TypeOK
    <3>3. jar'[b] # None /\ IsActive(jar[b], account)'
      BY <1>1, <3>1, <3>2 DEF IsActive
    <3>4. ASSUME NEW d \in Calls, Open(d)', BrowserOf[call'[d].from] = b
          PROVE  /\ call'[d].kind # "refresh"
                 /\ ~(call'[d].kind = "change" /\ call'[d].pc = "answered" /\ call'[d].ok)
      <4>1. d # c /\ call'[d] = call[d] /\ Open(d)
        BY <1>3, <3>4
      <4>2. call[d].kind # "refresh"
        BY <1>1, <1>7, <2>2, <3>4, <4>1, OneRefresh
      <4>3. QED
        BY <2>1, <3>4, <4>1, <4>2 DEF SignedIn
    <3>5. QED
      BY <3>3, <3>4 DEF SignedIn
  <2>3. CASE call[c].kind # "refresh"
    <3>1. call[c].kind = "change" => ~call[c].ok
      BY <1>1, <1>7, <2>1 DEF SignedIn
    <3>2. NewCookie(c) = jar[x]
      <4>1. /\ ~(call[c].kind = "login" /\ call[c].ok)
            /\ ~(call[c].kind = "refresh" /\ call[c].ok)
            /\ ~(call[c].kind \in {"refresh", "logout"} /\ ~(call[c].kind = "refresh" /\ call[c].ok))
            /\ ~(call[c].kind = "change" /\ call[c].ok)
        BY <1>7, <2>1, <2>3, <3>1
      <4>2. QED
        BY <4>1 DEF NewCookie, Cookie
    <3>3. jar'[b] = jar[b]
      BY <1>1, <1>2, <1>7, <3>2 DEF TypeOK
    <3>4. QED
      BY <1>4, <2>1, <2>3, <3>3
  <2>4. QED
    BY <2>2, <2>3
<1>8. QED
  BY <1>5, <1>6, <1>7

LEMMA SignedInStep ==
  ASSUME TypeOK, RowInv, BrowserInv, Next
  PROVE  SignedInInv'
<1>0. TabInv /\ OwnSessions /\ SignedInInv /\ MutexInv
  BY DEF BrowserInv, RowInv
<1> SUFFICES ASSUME NEW b \in Browsers \ excuse', Alone(b)
             PROVE  SignedIn(b)'
  BY DEF SignedInInv, Alone
<1>1. b \notin excuse => SignedIn(b)
  BY <1>0 DEF SignedInInv
<1>2. ASSUME SignedIn(b), UNCHANGED <<key, jar, call>>,
             account'.gen = account.gen, account'.sessions = account.sessions
      PROVE  SignedIn(b)'
  BY <1>2 DEF SignedIn, Refreshed, Open, IsActive
<1>3. ASSUME NEW c \in Calls, NEW t \in Tabs,
             \/ Refresh(c, t) \/ Login(c, t) \/ Logout(c, t)
             \/ ChangePassword(c, t) \/ ResetPassword(c, t)
      PROVE  SignedIn(b)'
  <2>1. /\ ~Open(c) /\ call'[c].pc = "sent" /\ call'[c].from = t
        /\ call'[c].token = IF call'[c].kind \in {"refresh", "logout"} THEN Cookie(t) ELSE None
        /\ \A d \in Calls \ {c} : call'[d] = call[d]
        /\ UNCHANGED <<account, key, jar, excuse>>
    BY <1>3, SendFrame
  <2>2. SignedIn(b)
    BY <1>1, <2>1
  <2>3. ASSUME NEW d \in Calls, Open(d)', BrowserOf[call'[d].from] = b
        PROVE  \/ call'[d].kind = "refresh" /\ Open(d) /\ call[d].kind = "refresh"
                  /\ call'[d].from = call[d].from
               \/ call'[d].kind = "refresh" /\ call'[d].pc = "sent" /\ call'[d].token = jar[b]
               \/ /\ call'[d].kind # "refresh"
                  /\ ~(call'[d].kind = "change" /\ call'[d].pc = "answered" /\ call'[d].ok)
    <3>1. CASE d = c
      BY <2>1, <2>3, <3>1 DEF Cookie
    <3>2. CASE d # c
      <4>1. call'[d] = call[d] /\ Open(d)
        BY <2>1, <2>3, <3>2 DEF Open
      <4>2. QED
        BY <2>2, <2>3, <4>1 DEF SignedIn
    <3>3. QED
      BY <3>1, <3>2
  <2>4. \A d \in Calls : Open(d) => call'[d] = call[d]
    BY <2>1
  <2>5. QED
    BY <2>1, <2>2, <2>3, <2>4, StaysSignedIn
<1>4. ASSUME NEW t \in Tabs, Forget(t) PROVE SignedIn(b)'
  BY <1>1, <1>2, <1>4 DEF Forget, history
<1>5. ASSUME NEW c \in Calls, Receive(c) \/ Begin(c) PROVE SignedIn(b)'
  <2>1. UNCHANGED <<account, excuse>>
    BY <1>5 DEF Receive, Begin, history
  <2>2. call[c].kind # "refresh"
    BY <1>0, <1>5 DEF Receive, Begin, TabInv, CallInv, Shape, Open
  <2>3. call[c].kind = "change" /\ call'[c].pc = "answered" => ~call'[c].ok
    <3>1. CASE Receive(c)
      <4>1. call[c].pc = "sent" /\ call'[c].ok = call[c].ok
        BY <3>1 DEF Receive, TypeOK, Call
      <4>2. QED
        BY <1>0, <4>1 DEF TabInv, CallInv, Shape, Open
    <3>2. CASE Begin(c)
      BY <3>2 DEF Begin, TypeOK, Call
    <3>3. QED
      BY <1>5, <3>1, <3>2
  <2>4. QED
    BY <1>0, <1>1, <1>5, <2>1, <2>2, <2>3, PanelKeeps
<1>6. ASSUME NEW c \in Calls, Serve(c) PROVE SignedIn(b)'
  <2>1. /\ call[c].kind \in {"refresh", "logout"} /\ call[c].pc = "sent" /\ Open(c)
    BY <1>6 DEF Serve, Open
  <2>2. CASE ~IsActive(call[c].token, account)
    <3>1. UNCHANGED <<account, excuse>>
      BY <1>6, <2>2 DEF Serve
    <3>2. SignedIn(b)
      BY <1>1, <3>1
    <3>3. call[c].kind # "refresh" \/ BrowserOf[call[c].from] # b
      BY <1>0, <2>1, <2>2, <3>2, RefreshFindsSession
    <3>4. QED
      BY <1>0, <1>6, <2>1, <3>1, <3>2, <3>3, PanelKeeps
  <2>3. CASE IsActive(call[c].token, account) /\ call[c].kind = "refresh"
    <3>1. Rotate(c) /\ excuse' = excuse
      BY <1>6, <2>3 DEF Serve, Rotate
    <3>2. QED
      BY <1>0, <1>1, <1>6, <2>3, <3>1, RotateKeeps
  <2>4. CASE IsActive(call[c].token, account) /\ call[c].kind = "logout"
    <3> DEFINE old == call[c].token.session
    <3>1. RevokeOne(c)
      BY <1>6, <2>4 DEF Serve
    <3>2. /\ account'.sessions = account.sessions \ {old} /\ account'.gen = account.gen
          /\ b \notin excuse /\ b \notin Holding({old})
      BY <3>1 DEF RevokeOne, TypeOK, Account
    <3>3. /\ IsActive(jar[b], account) => IsActive(jar[b], account')
          /\ \A d \in Calls : /\ BrowserOf[call[d].from] = b /\ call[d].pc = "answered"
                              /\ IsActive(call[d].token, account)
                              => IsActive(call[d].token, account')
      BY <3>2, DroppedKeeps
    <3>4. QED
      BY <1>0, <1>1, <1>6, <2>4, <3>2, <3>3, PanelKeeps
  <2>5. QED
    BY <2>1, <2>2, <2>3, <2>4
<1>7. ASSUME NEW c \in Calls, FinishLogin(c) PROVE SignedIn(b)'
  <2>1. call[c].kind = "login"
    BY <1>7 DEF FinishLogin
  <2>2. /\ call[c].rec \in Account /\ call[c].rec.gen = account.gen
        /\ call[c].rec.sessions = account.sessions
    BY <1>0, <1>7 DEF FinishLogin, MutexInv
  <2>3. CASE LoginFails(c)
    <3>1. account'.gen = account.gen /\ account'.sessions = account.sessions
      BY <2>2, <2>3 DEF LoginFails, CountFailure, Account
    <3>2. SignedIn(b)
      BY <1>1, <2>3 DEF LoginFails
    <3>3. \A token : IsActive(token, account) => IsActive(token, account')
      BY <3>1 DEF IsActive
    <3>4. QED
      BY <1>0, <1>7, <2>1, <3>2, <3>3, PanelKeeps
  <2>4. CASE LoginSucceeds(c)
    <3> DEFINE row == call[c].rec
               new == issued + 1
               after == IF call[c].flag THEN Newest(row.sessions \cup {new})
                                        ELSE Newest(row.sessions)
               gone == row.sessions \ after
    <3>1. /\ account' = [row EXCEPT !.sessions = after, !.failed = 0, !.locked = FALSE]
          /\ excuse' = excuse \cup Holding(gone)
      BY <2>4 DEF LoginSucceeds
    <3>2. account'.gen = account.gen /\ account'.sessions = after
      BY <2>2, <3>1 DEF Account
    <3>3. account.sessions \ gone \subseteq account'.sessions
      BY <2>2, <3>2
    <3>4. SignedIn(b) /\ b \notin Holding(gone)
      BY <1>1, <3>1
    <3> HIDE DEF gone, after
    <3>5. /\ IsActive(jar[b], account) => IsActive(jar[b], account')
          /\ \A d \in Calls : /\ BrowserOf[call[d].from] = b /\ call[d].pc = "answered"
                              /\ IsActive(call[d].token, account)
                              => IsActive(call[d].token, account')
      BY <3>2, <3>3, <3>4, DroppedKeeps
    <3>6. QED
      BY <1>0, <1>7, <2>1, <3>4, <3>5, PanelKeeps
  <2>5. QED
    BY <1>7, <2>3, <2>4 DEF FinishLogin
<1>8. ASSUME NEW c \in Calls, FinishChange(c) PROVE SignedIn(b)'
  <2>1. ~call[c].ok
    BY <1>8 DEF FinishChange, NewPassword
  <2>2. /\ UNCHANGED <<account, excuse>> /\ call[c].kind \in {"change", "reset"}
        /\ call'[c].ok = call[c].ok
    BY <1>8, <2>1 DEF FinishChange, TypeOK, Call
  <2>3. QED
    BY <1>0, <1>1, <1>8, <2>1, <2>2, PanelKeeps
<1>9. CASE LockEnds
  <2>1. account'.gen = account.gen /\ account'.sessions = account.sessions
    BY <1>9 DEF LockEnds, TypeOK, Account
  <2>2. QED
    BY <1>1, <1>2, <1>9, <2>1 DEF LockEnds
<1>10. CASE CreateResetToken
  BY <1>1, <1>2, <1>10 DEF CreateResetToken, history
<1>11. CASE NewKey
  BY <1>11 DEF NewKey
<1>12. CASE Restart
  <2>1. /\ UNCHANGED <<account, key, jar>> /\ b \notin excuse
        /\ \A d \in Calls : call[d].pc = "answered" => BrowserOf[call[d].from] # b
    BY <1>12 DEF Restart
  <2>2. SignedIn(b)
    BY <1>1, <2>1
  <2>3. ASSUME NEW d \in Calls, BrowserOf[call[d].from] = b, Open(d), call[d].kind = "refresh"
        PROVE  /\ call'[d].pc = call[d].pc /\ call'[d].from = call[d].from
               /\ call'[d].kind = "refresh" /\ call'[d].ok = call[d].ok
               /\ call'[d].token = call[d].token
    <3>1. call[d].pc = "sent"
      BY <2>1, <2>2, <2>3 DEF SignedIn
    <3>2. QED
      BY <1>12, <2>3, <3>1, RestartFrame
  <2>4. ASSUME NEW d \in Calls, Open(d)', BrowserOf[call'[d].from] = b
        PROVE  \/ call'[d].kind = "refresh" /\ Open(d) /\ call[d].kind = "refresh"
                  /\ call'[d].from = call[d].from
               \/ /\ call'[d].kind # "refresh"
                  /\ ~(call'[d].kind = "change" /\ call'[d].pc = "answered" /\ call'[d].ok)
    <3>1. /\ Open(d) /\ call'[d].kind = call[d].kind /\ call'[d].from = call[d].from
          /\ call'[d].pc # "answered"
      BY <1>12, <2>1, <2>4, RestartFrame DEF Open
    <3>2. QED
      BY <3>1
  <2>5. QED
    BY <2>1, <2>2, <2>3, <2>4, StaysSignedIn
<1>13. ASSUME NEW c \in Calls, Deliver(c) PROVE SignedIn(b)'
  BY <1>0, <1>13, DeliverKeeps
<1>14. ASSUME NEW c \in Calls, Fail(c) PROVE SignedIn(b)'
  <2>1. /\ ~Open(c)' /\ \A d \in Calls \ {c} : call'[d] = call[d]
        /\ UNCHANGED <<account, key>>
    BY <1>0, <1>14, AnswerFrame
  <2>2. UNCHANGED <<jar, excuse>> /\ call[c].pc = "lost" /\ Open(c)
    BY <1>14 DEF Fail, history, Open
  <2>3. SignedIn(b)
    BY <1>1, <2>2
  <2>4. ASSUME NEW d \in Calls, BrowserOf[call[d].from] = b, Open(d), call[d].kind = "refresh"
        PROVE  call'[d] = call[d]
    BY <2>1, <2>2, <2>3, <2>4 DEF SignedIn
  <2>5. ASSUME NEW d \in Calls, Open(d)', BrowserOf[call'[d].from] = b
        PROVE  \/ call'[d].kind = "refresh" /\ Open(d) /\ call[d].kind = "refresh"
                  /\ call'[d].from = call[d].from
               \/ /\ call'[d].kind # "refresh"
                  /\ ~(call'[d].kind = "change" /\ call'[d].pc = "answered" /\ call'[d].ok)
    <3>1. d # c /\ call'[d] = call[d] /\ Open(d)
      BY <2>1, <2>5 DEF Open
    <3>2. QED
      BY <2>3, <2>5, <3>1 DEF SignedIn
  <2>6. QED
    BY <2>1, <2>2, <2>3, <2>4, <2>5, StaysSignedIn
<1>15. QED
  BY <1>3, <1>4, <1>5, <1>6, <1>7, <1>8, <1>9, <1>10, <1>11, <1>12, <1>13, <1>14 DEF Next

-----------------------------------------------------------------------------
(* The theorems.                                                           *)

LEMMA IInvInit == Init => IInv
<1> SUFFICES ASSUME Init PROVE IInv
  OBVIOUS
<1> USE SessionsAssumption
<1>1. account = [gen |-> 0, sessions |-> {}, failed |-> 0, locked |-> FALSE]
  BY DEF Init
<1>2. \A c \in Calls : call[c] = NoCall /\ ~Open(c)
  BY DEF Init, Open, NoCall
<1>3. TypeOK
  <2>1. account \in Account
    BY <1>1 DEF Account
  <2>2. NoCall \in Call
    BY DEF NoCall, Call, Kinds
  <2>3. call \in [Calls -> Call]
    BY <2>2 DEF Init
  <2>4. tab \in [Tabs -> [access: Access \cup {None}, refreshing: BOOLEAN, waiting: BOOLEAN]]
    BY DEF Init
  <2>5. QED
    BY <2>1, <2>3, <2>4 DEF TypeOK, Init
<1>4. RowInv
  <2>1. MutexInv
    BY <1>2 DEF MutexInv, NoCall
  <2>2. NumberInv /\ GuessInv /\ Room(account.sessions) /\ EndedSessionsStayEnded /\ ChangesPersist
    BY <1>1 DEF Init, NumberInv, GuessInv, Room, EndedSessionsStayEnded, ChangesPersist
  <2>3. QED
    BY <2>1, <2>2 DEF RowInv
<1>5. BrowserInv
  <2>1. TabInv
    BY <1>2 DEF TabInv, CallInv, WaitInv, SingleInv
  <2>2. \A b \in Browsers, i \in Ids : ~Known(b, i)
    BY <1>2 DEF Init, Known
  <2>3. OwnSessions
    BY <2>2 DEF OwnSessions
  <2>4. SignedInInv
    BY DEF Init, SignedInInv
  <2>5. QED
    BY <2>1, <2>3, <2>4 DEF BrowserInv
<1>6. QED
  BY <1>3, <1>4, <1>5 DEF IInv

LEMMA IInvStep == IInv /\ [Next]_vars => IInv'
<1> SUFFICES ASSUME IInv, [Next]_vars PROVE IInv'
  OBVIOUS
<1>1. TypeOK /\ RowInv /\ BrowserInv /\ MutexInv /\ TabInv /\ OwnSessions
  BY DEF IInv, RowInv, BrowserInv
<1>2. CASE Next
  <2>1. TypeOK'
    BY <1>1, <1>2, TypeStep
  <2>2. RowInv'
    BY <1>1, <1>2, RowStep
  <2>3. BrowserInv'
    BY <1>1, <1>2, <2>1, TabStep, OwnStep, SignedInStep DEF BrowserInv
  <2>4. QED
    BY <2>1, <2>2, <2>3 DEF IInv
<1>3. CASE UNCHANGED vars
  <2>1. TypeOK'
    BY <1>1, <1>3 DEF TypeOK, vars
  <2>2. RowInv'
    BY <1>1, <1>3 DEF vars, RowInv, MutexInv, NumberInv, GuessInv, Room,
                      EndedSessionsStayEnded, ChangesPersist
  <2>3. TabInv' /\ OwnSessions'
    BY <1>1, <1>3 DEF vars, TabInv, CallInv, WaitInv, SingleInv, Open, OwnSessions, Known
  <2>4. SignedInInv'
    BY <1>1, <1>3 DEF vars, BrowserInv, SignedInInv, SignedIn, Refreshed, IsActive, Open, Alone
  <2>5. QED
    BY <2>1, <2>2, <2>3, <2>4 DEF IInv, BrowserInv
<1>4. QED
  BY <1>2, <1>3

\* What the proofs rest on: types, the row, and what each browser knows of it.
THEOREM Invariance == Spec => []IInv
BY IInvInit, IInvStep, PTL DEF Spec

\* The row, the requests, cookies and tabs keep their shape (AuthUser and the
\* fields of auth.ts; the access token and the refresh promise of api.ts).
THEOREM TypeCorrect == Spec => []TypeOK
<1>1. IInv => TypeOK
  BY DEF IInv
<1>2. QED
  BY <1>1, Invariance, PTL

\* No operation writes back a session that was logged out, rotated or revoked
\* since it read the row: all of them run inside _withMutex.
THEOREM NoSessionReturns == Spec => []EndedSessionsStayEnded
<1>1. IInv => EndedSessionsStayEnded
  BY DEF IInv, RowInv
<1>2. QED
  BY <1>1, Invariance, PTL

\* Every password change and reset that was carried out is in the row.
THEOREM NoChangeIsUndone == Spec => []ChangesPersist
<1>1. IInv => ChangesPersist
  BY DEF IInv, RowInv
<1>2. QED
  BY <1>1, Invariance, PTL

\* Before the lock, no more than MAX_FAILED_LOGINS guesses are answered, however
\* many requests guess at the same time.
THEOREM GuessesCount == Spec => []GuessesAreCounted
<1>1. IInv => GuessesAreCounted
  BY SessionsAssumption DEF IInv, RowInv, GuessInv, GuessesAreCounted, TypeOK, Account
<1>2. QED
  BY <1>1, Invariance, PTL

\* A browser with one tab is not signed out without a reason: its refreshes run
\* one at a time, and nobody else's request ends its session silently.
THEOREM StaysKept == Spec => []KeptSignedIn
<1>1. IInv => KeptSignedIn
  BY DEF IInv, BrowserInv, SignedInInv, SignedIn, KeptSignedIn
<1>2. QED
  BY <1>1, Invariance, PTL
=============================================================================
