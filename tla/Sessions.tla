------------------------------- MODULE Sessions -------------------------------
(***************************************************************************)
(* services/auth.ts, the password reset of routes/auth.ts and the browser  *)
(* side of both (panel-client lib/api.ts): one administrator account,      *)
(* signed in from several tabs of several browsers.                        *)
(*                                                                         *)
(*   - The account is one database row.  Every operation reads it, computes *)
(*     and writes the whole row back; _withMutex runs one at a time.  Only a *)
(*     bcrypt computation lets other requests in between; refresh and logout *)
(*     therefore run in one step.  Requests arrive in any order, so that the *)
(*     order of the queue does not matter: a call takes its turn when the    *)
(*     holder has left.                                                      *)
(*   - The generation changes exactly when the password does; it stands for *)
(*     the password as well.  regenerateJwtSecret takes no turn.            *)
(*   - A request is sent, answered and its answer delivered, or lost, in any *)
(*     order with others; tabs of a browser share its cookie.               *)
(*   - A crash of the panel loses the calls, never the row.                 *)
(*   - Sessions are numbered as they are created, hence the order of the    *)
(*     list of the row is that of the numbers, and the list a set.          *)
(* Left out: the length of a session (30 days) and failing database writes. *)
(***************************************************************************)
EXTENDS Naturals, FiniteSets

CONSTANTS Tabs,        \* browser tabs
          BrowserOf,   \* the browser of each tab; its tabs share a cookie
          Calls,       \* slots for requests under way
          MaxSessions, \* MAX_REFRESH_SESSIONS
          MaxFailed,   \* MAX_FAILED_LOGINS
          MaxIds,      \* bound on the sessions ever created
          MaxUpsets,   \* bound on new passwords, keys and crashes
          None

Browsers == {BrowserOf[t] : t \in Tabs}
Ids == 1..MaxIds
Token == [session: Ids, gen: Nat, key: Nat]   \* a refresh token
Access == [gen: Nat, key: Nat]                \* an access token
Kinds == {"login", "refresh", "logout", "change", "reset"}

ASSUME SessionsAssumption ==
  /\ DOMAIN BrowserOf = Tabs
  /\ MaxSessions \in Nat \ {0} /\ MaxFailed \in Nat \ {0}
  /\ MaxIds \in Nat /\ MaxUpsets \in Nat
  /\ None \notin Calls \cup Tabs \cup Token \cup Access

VARIABLES
  account,  \* the row: generation, refresh sessions, failed logins, lock
  key,      \* the signing key of the tokens
  holder,   \* the call that runs in _withMutex, while it computes a hash
  call,     \* the requests; flag: keep me signed in; ok: right password, success
  jar,      \* the refresh token in the cookie of each browser
  tab,      \* access token and single-flight refresh of each tab
  file,     \* reset-token.txt: the number of its token, or None
  upsets,
  \* history
  ended,    \* sessions that were logged out, rotated or revoked
  issued,   \* sessions created so far
  changes,  \* password changes and resets that have been carried out
  guesses,  \* wrong passwords refused since a success or the end of a lock
  excuse    \* browsers that have a reason to be signed out

vars == <<account, key, holder, call, jar, tab, file, upsets,
          ended, issued, changes, guesses, excuse>>
history == <<ended, issued, changes, guesses, excuse>>

Account == [gen: Nat, sessions: SUBSET Ids, failed: 0..(MaxFailed - 1), locked: BOOLEAN]
Call == [pc: {"free", "sent", "queued", "hash", "answered", "lost"}, kind: Kinds,
         from: Tabs \cup {None}, token: Token \cup {None}, flag: BOOLEAN,
         rec: Account \cup {None}, ok: BOOLEAN, access: Access \cup {None}]

TypeOK ==
  /\ account \in Account
  /\ key \in Nat
  /\ holder \in Calls \cup {None}
  /\ call \in [Calls -> Call]
  /\ jar \in [Browsers -> Token \cup {None}]
  /\ tab \in [Tabs -> [access: Access \cup {None}, refreshing: BOOLEAN, waiting: BOOLEAN]]
  /\ file \in Nat \cup {None}
  /\ upsets \in Nat
  /\ ended \subseteq Ids /\ issued \in 0..MaxIds /\ changes \in Nat /\ guesses \in Nat
  /\ excuse \subseteq Browsers

NoCall == [pc |-> "free", kind |-> "logout", from |-> None, token |-> None,
           flag |-> FALSE, rec |-> None, ok |-> FALSE, access |-> None]

Init ==
  /\ account = [gen |-> 0, sessions |-> {}, failed |-> 0, locked |-> FALSE]
  /\ key = 0
  /\ holder = None
  /\ call = [c \in Calls |-> NoCall]
  /\ jar = [b \in Browsers |-> None]
  /\ tab = [t \in Tabs |-> [access |-> None, refreshing |-> FALSE,
                            waiting |-> FALSE]]
  /\ file = None
  /\ upsets = 0
  /\ ended = {} /\ issued = 0 /\ changes = 0 /\ guesses = 0
  /\ excuse = Browsers

-----------------------------------------------------------------------------
(* The browser: requests.                                                  *)

Accepted(access) == access # None /\ access.gen = account.gen /\ access.key = key
Cookie(t) == jar[BrowserOf[t]]

Send(c, t, kind, flag) ==
  /\ call[c].pc = "free"
  /\ call' = [call EXCEPT ![c] = [NoCall EXCEPT !.pc = "sent", !.kind = kind, !.from = t,
                !.flag = flag, !.token = IF kind \in {"refresh", "logout"} THEN Cookie(t) ELSE None,
                !.access = IF kind = "change" THEN tab[t].access ELSE None]]
  /\ UNCHANGED <<account, key, holder, jar, file, upsets, history>>

\* Mutant of Refresh: the tab forgets that it is refreshing already.
RefreshAgain(c, t) ==
  /\ ~tab[t].waiting /\ ~Accepted(tab[t].access)
  /\ Cookie(t) # None
  /\ Send(c, t, "refresh", FALSE)
  /\ tab' = [tab EXCEPT ![t].refreshing = TRUE]

\* tryRefreshToken, after a rejected access token or with the page: whoever
\* asks meanwhile shares the promise.
Refresh(c, t) ==
  /\ ~tab[t].refreshing /\ ~tab[t].waiting
  /\ ~Accepted(tab[t].access)
  /\ Cookie(t) # None
  /\ Send(c, t, "refresh", FALSE)
  /\ tab' = [tab EXCEPT ![t].refreshing = TRUE]

\* The login form; `flag' is "keep me signed in".
Login(c, t) ==
  /\ tab[t].access = None /\ ~tab[t].refreshing /\ ~tab[t].waiting
  /\ \E remember \in BOOLEAN : Send(c, t, "login", remember)
  /\ tab' = [tab EXCEPT ![t].waiting = TRUE]

\* The logout button, also while the tab is refreshing.
Logout(c, t) ==
  /\ tab[t].access # None /\ ~tab[t].waiting
  /\ Send(c, t, "logout", FALSE)
  /\ tab' = [tab EXCEPT ![t].waiting = TRUE]

\* The password form, and the recovery form with the token of the file.
ChangePassword(c, t) ==
  /\ tab[t].access # None /\ ~tab[t].waiting
  /\ changes < MaxUpsets
  /\ Send(c, t, "change", FALSE)
  /\ tab' = [tab EXCEPT ![t].waiting = TRUE]

ResetPassword(c, t) ==
  /\ ~tab[t].waiting /\ file # None
  /\ changes < MaxUpsets
  /\ Send(c, t, "reset", FALSE)
  /\ tab' = [tab EXCEPT ![t].waiting = TRUE]

\* The access token is 15 minutes old, or the page is loaded anew.
Forget(t) ==
  /\ tab[t].access # None
  /\ tab' = [tab EXCEPT ![t].access = None]
  /\ UNCHANGED <<account, key, holder, call, jar, file, upsets, history>>

-----------------------------------------------------------------------------
(* The panel.                                                              *)

\* The route: a password change needs an accepted access token, a reset the
\* token of the file; then the call waits for its turn.
Receive(c) ==
  /\ call[c].pc = "sent" /\ call[c].kind \in {"change", "reset"}
  /\ call' = [call EXCEPT ![c].pc =
       IF \/ call[c].kind = "change" /\ ~Accepted(call[c].access)
          \/ call[c].kind = "reset" /\ file = None
         THEN "answered" ELSE "queued"]
  /\ UNCHANGED <<account, key, holder, jar, tab, file, upsets, history>>

\* Mutant of Turn: no mutex.
TurnOfAll(c) == call[c].pc \in {"sent", "queued"}

\* _withMutex.
Turn(c) == holder = None
Take(c) == holder' = c
Leave(c) == holder' = None

\* ensureUserAuthState and createRefreshSession: the oldest are dropped.
Newest(S) == {i \in S : Cardinality({j \in S : j > i}) < MaxSessions}

\* The token is genuine, of the present generation, and its session alive.
IsActive(token, row) ==
  /\ token # None /\ token.key = key /\ token.gen = row.gen
  /\ token.session \in row.sessions

\* The browsers that have, or are being sent, a session of these.
Holding(S) ==
  {b \in Browsers : jar[b] # None /\ jar[b].session \in S} \cup
  {BrowserOf[call[c].from] : c \in {d \in Calls : /\ call[d].pc = "answered"
                                                /\ call[d].token # None
                                                /\ call[d].token.session \in S}}

AccessNow(row) == [gen |-> row.gen, key |-> key]

\* refreshAccessToken when the token is active: it is exchanged for a new one.
Rotate(c) ==
  LET old == call[c].token.session
      new == issued + 1
      after == Newest((account.sessions \ {old}) \cup {new}) IN
  /\ new <= MaxIds
  /\ account' = [account EXCEPT !.sessions = after]
  /\ issued' = new
  /\ ended' = ended \cup {old}
  /\ call' = [call EXCEPT ![c].pc = "answered", ![c].ok = TRUE, ![c].access = AccessNow(account),
                ![c].token = [session |-> new, gen |-> account.gen, key |-> key]]
  /\ UNCHANGED excuse

RevokeOne(c) ==
  LET old == call[c].token.session IN
  /\ account' = [account EXCEPT !.sessions = @ \ {old}]
  /\ ended' = ended \cup {old}
  /\ excuse' = excuse \cup Holding({old})
  /\ call' = [call EXCEPT ![c].pc = "answered", ![c].ok = TRUE]
  /\ UNCHANGED issued

\* refresh and logout: one step, without a bcrypt computation.
Serve(c) ==
  /\ call[c].pc = "sent" /\ call[c].kind \in {"refresh", "logout"}
  /\ Turn(c)
  /\ IF IsActive(call[c].token, account)
       THEN IF call[c].kind = "refresh" THEN Rotate(c) ELSE RevokeOne(c)
       ELSE /\ call' = [call EXCEPT ![c].pc = "answered"]
            /\ UNCHANGED <<account, ended, issued, excuse>>
  /\ UNCHANGED <<key, holder, jar, tab, file, upsets, changes, guesses>>

\* login, changePassword and resetPassword read the row and compute a hash.
\* `ok' of a call that computes: the password is right.
Begin(c) ==
  /\ call[c].pc = (IF call[c].kind = "login" THEN "sent" ELSE "queued")
  /\ Turn(c)
  /\ Take(c)
  /\ \E right \in BOOLEAN :
       call' = [call EXCEPT ![c].pc = "hash", ![c].rec = account,
                            ![c].ok = right \/ call[c].kind = "reset"]
  /\ UNCHANGED <<account, key, jar, tab, file, upsets, history>>

\* The end of login: the failure is counted, or a session begins.
CountFailure(row) ==
  IF row.failed + 1 >= MaxFailed
    THEN [row EXCEPT !.failed = 0, !.locked = TRUE]
    ELSE [row EXCEPT !.failed = @ + 1]

LoginFails(c) ==
  /\ account' = IF call[c].rec.locked THEN account ELSE CountFailure(call[c].rec)
  /\ guesses' = IF call[c].rec.locked THEN guesses ELSE guesses + 1
  /\ call' = [call EXCEPT ![c].pc = "answered", ![c].ok = FALSE, ![c].rec = None]
  /\ UNCHANGED <<ended, issued, excuse>>

LoginSucceeds(c) ==
  LET row == call[c].rec
      new == issued + 1
      after == IF call[c].flag THEN Newest(row.sessions \cup {new}) ELSE Newest(row.sessions) IN
  /\ call[c].flag => new <= MaxIds
  /\ account' = [row EXCEPT !.sessions = after, !.failed = 0, !.locked = FALSE]
  /\ issued' = IF call[c].flag THEN new ELSE issued
  /\ guesses' = 0
  /\ excuse' = excuse \cup Holding(row.sessions \ after)
  /\ call' = [call EXCEPT ![c].pc = "answered", ![c].rec = None, ![c].access = AccessNow(row),
       ![c].token = IF call[c].flag THEN [session |-> new, gen |-> row.gen, key |-> key] ELSE None]
  /\ UNCHANGED ended

FinishLogin(c) ==
  /\ call[c].pc = "hash" /\ call[c].kind = "login"
  /\ Leave(c)
  /\ IF call[c].ok /\ ~call[c].rec.locked THEN LoginSucceeds(c) ELSE LoginFails(c)
  /\ UNCHANGED <<key, jar, tab, file, upsets, changes>>

\* The new hash is stored; every token and session of before is void.  A lock
\* that was over stays so: it is a time.
NewPassword(c) ==
  /\ account' = [call[c].rec EXCEPT !.gen = @ + 1, !.sessions = {},
                                   !.locked = @ /\ account.locked]
  /\ changes' = changes + 1
  /\ ended' = ended \cup account.sessions
  /\ excuse' = Browsers

\* changePassword and resetPassword end; the route then removes the file,
\* whatever token is in it by now.
FinishChange(c) ==
  /\ call[c].pc = "hash" /\ call[c].kind \in {"change", "reset"}
  /\ Leave(c)
  /\ call' = [call EXCEPT ![c].pc = "answered", ![c].rec = None]
  /\ IF call[c].ok THEN NewPassword(c) ELSE UNCHANGED <<account, changes, ended, excuse>>
  /\ file' = IF call[c].kind = "reset" THEN None ELSE file
  /\ UNCHANGED <<key, jar, tab, upsets, issued, guesses>>

\* LOCKOUT_DURATION_MS are over.
LockEnds ==
  /\ account.locked
  /\ account' = [account EXCEPT !.locked = FALSE]
  /\ guesses' = 0
  /\ UNCHANGED <<key, holder, call, jar, tab, file, upsets, ended, issued, changes, excuse>>

\* The operator puts a token file on the host.
CreateResetToken ==
  /\ file = None
  /\ changes < MaxUpsets
  /\ file' = changes
  /\ UNCHANGED <<account, key, holder, call, jar, tab, upsets, history>>

\* regenerateJwtSecret: at any time, no turn in the queue.
NewKey ==
  /\ upsets < MaxUpsets
  /\ upsets' = upsets + 1
  /\ \E t \in Tabs : Accepted(tab[t].access)
  /\ key' = key + 1
  /\ excuse' = Browsers
  /\ UNCHANGED <<account, holder, call, jar, tab, file, ended, issued, changes, guesses>>

\* The panel stops and comes back: what it had not answered is lost.
Restart ==
  /\ upsets < MaxUpsets
  /\ upsets' = upsets + 1
  /\ holder' = None
  /\ call' = [c \in Calls |-> IF call[c].pc \in {"queued", "hash", "answered"}
                                THEN [call[c] EXCEPT !.pc = "lost", !.rec = None] ELSE call[c]]
  /\ excuse' = excuse \cup {BrowserOf[call[c].from] : c \in {d \in Calls : call[d].pc = "answered"}}
  /\ UNCHANGED <<account, key, jar, tab, file, ended, issued, changes, guesses>>

-----------------------------------------------------------------------------
(* The browser: answers.                                                   *)

\* Which cookie an answer leaves behind.
NewCookie(c) ==
  CASE call[c].kind = "login" /\ call[c].ok -> call[c].token
    [] call[c].kind = "refresh" /\ call[c].ok -> call[c].token
    [] call[c].kind \in {"refresh", "logout"} /\ ~(call[c].kind = "refresh" /\ call[c].ok) -> None
    [] call[c].kind = "change" /\ call[c].ok -> None
    [] OTHER -> Cookie(call[c].from)

NewAccess(c, t) ==
  CASE call[c].kind \in {"login", "refresh"} /\ call[c].ok -> call[c].access
    [] call[c].kind \in {"refresh", "logout"} -> None
    [] OTHER -> tab[t].access

Settled(c, t) ==
  [tab[t] EXCEPT !.refreshing = @ /\ call[c].kind # "refresh",
                 !.waiting = @ /\ call[c].kind = "refresh"]

\* A session that begins needs a new excuse to end; a user who logs out, or
\* signs in without the cookie, has one.
Excused(c) ==
  LET b == BrowserOf[call[c].from] IN
  IF call[c].kind = "login" /\ call[c].ok
    THEN IF IsActive(call[c].token, account) THEN excuse \ {b} ELSE excuse \cup {b}
  ELSE IF call[c].kind = "logout" THEN excuse \cup {b} ELSE excuse

Deliver(c) ==
  LET t == call[c].from IN
  /\ call[c].pc = "answered"
  /\ jar' = [jar EXCEPT ![BrowserOf[t]] = NewCookie(c)]
  /\ tab' = [tab EXCEPT ![t] = [Settled(c, t) EXCEPT !.access = NewAccess(c, t)]]
  /\ call' = [call EXCEPT ![c] = NoCall]
  /\ excuse' = Excused(c)
  /\ UNCHANGED <<account, key, holder, file, upsets, ended, issued, changes, guesses>>

\* The request has failed on the network.
Fail(c) ==
  LET t == call[c].from IN
  /\ call[c].pc = "lost"
  /\ tab' = [tab EXCEPT ![t] = [Settled(c, t) EXCEPT
               !.access = IF call[c].kind \in {"refresh", "logout"} THEN None ELSE @]]
  /\ call' = [call EXCEPT ![c] = NoCall]
  /\ UNCHANGED <<account, key, holder, jar, file, upsets, history>>

Next ==
  \/ \E c \in Calls, t \in Tabs :
       Refresh(c, t) \/ Login(c, t) \/ Logout(c, t) \/ ChangePassword(c, t) \/ ResetPassword(c, t)
  \/ \E t \in Tabs : Forget(t)
  \/ \E c \in Calls : \/ Receive(c) \/ Serve(c) \/ Begin(c) \/ FinishLogin(c) \/ FinishChange(c)
                      \/ Deliver(c) \/ Fail(c)
  \/ LockEnds \/ CreateResetToken \/ NewKey \/ Restart

Spec == Init /\ [][Next]_vars

-----------------------------------------------------------------------------
\* A session that was logged out, rotated or revoked is never in the row again:
\* no other operation may write back a row it read before (auth.ts:153).
EndedSessionsStayEnded == account.sessions \cap ended = {}

\* No password change or reset is undone by an operation that began before it.
ChangesPersist == account.gen = changes

\* Requests that guess at the same time are counted one by one: before the lock
\* the answers to no more than MAX_FAILED_LOGINS of them are given (auth.ts:426).
GuessesAreCounted == guesses <= MaxFailed

\* A browser with one tab that asked to be kept signed in is not signed out
\* without a reason: a logout, a new password or key, a newer session that
\* takes the place of its own, or an answer that was lost.
Alone(b) == \A t, u \in Tabs : BrowserOf[t] = b /\ BrowserOf[u] = b => t = u
KeptSignedIn == \A b \in Browsers \ excuse : Alone(b) => jar[b] # None
=============================================================================
