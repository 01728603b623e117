------------------------------ MODULE Sessions ------------------------------
(***************************************************************************)
(* Who is signed in: the accounts (users), the tokens browsers hold, and   *)
(* the requests that sign in, refresh, mint, lock, resume, sign out and    *)
(* manage accounts (app/auth.py, app/routes.py, app/api.py and the         *)
(* after_request hook of app/__init__.py).                                 *)
(*                                                                         *)
(* The server keeps one number per account, session_generation; a token    *)
(* carries the number it was issued under and counts while the two agree.  *)
(* A browser sends what it holds when it asks and stores what an answer    *)
(* sets when the answer arrives, so that answers overtake one another,     *)
(* and every statement on the database is a step of its own.  Passwords    *)
(* are numbers.  Signatures and cookie attributes are left out; a token    *)
(* that runs out of time or goes idle is dropped by Lapse.                 *)
(***************************************************************************)
EXTENDS Naturals, FiniteSets

CONSTANTS
    Users,        \* user names
    Browsers,     \* browsers and scripts, each with its own cookies and token
    Requests,     \* requests they send
    None,         \* no token, no name, no request
    Keep, Drop,   \* an answer leaves a cookie alone, or deletes it
    Scenarios,    \* accounts, sessions and requests of each run; see Init
    MaxAttempts   \* LOGIN_MAX_ATTEMPTS

Kinds == {"login", "apilogin", "page", "mint", "logout", "lock", "clear",
          "delete", "add", "password", "none"}
Roles == {"admin", "moderator"}
Account == [role : Roles \cup {"gone"}, gen : Nat, pw : Nat]
Token == [user : Users, gen : Nat, role : Roles]
Holdings == [cookie : Token \cup {None}, bearer : Token \cup {None}, lock : Users \cup {None}]

ASSUME SessionsAssumption ==
    /\ None \notin Requests /\ IsFiniteSet(Users)
    /\ \A x \in {None, Keep, Drop} : x \notin Users /\ x \notin Token
    /\ MaxAttempts \in Nat \ {0}
    /\ \A s \in Scenarios :
          /\ s.start \in [Users -> Roles \cup {"gone"}]
          /\ \E u \in Users : s.start[u] = "admin"
          /\ s.lapses \in Nat
          /\ s.signedIn \in [Browsers -> {u \in Users : s.start[u] # "gone"} \cup {None}]
          /\ s.sends \in [Requests -> [kind : Kinds, from : Browsers, user : Users,
                                       pw : Nat, api : BOOLEAN]]
          /\ \A r \in Requests :   \* what the API has a route for
                s.sends[r].api => s.sends[r].kind \in {"apilogin", "delete", "add", "password"}

VARIABLES
    sends,     \* the requests of this scenario
    accounts,  \* the users table; a name without a row is "gone"
    jar,       \* what each browser holds
    req,       \* where each request is: [step, held, me, cookie, bearer, lock]
    fails,     \* recent rows of login_failures for the address they share
    txn,       \* the request inside locked_transaction
    ended,     \* accounts whose last sign-in or sign-out was a sign-out
    lapses     \* how many tokens still expire in this run

sessions == <<accounts, jar, req, fails, txn, ended, lapses>>

Exists(u) == accounts[u].role # "gone"
Signs(u) == [user |-> u, gen |-> accounts[u].gen, role |-> accounts[u].role]
Usable(t) == t # None /\ Exists(t.user) /\ accounts[t.user].gen = t.gen

(* The user a request is handled for: whoever its cookie names, as the     *)
(* table has them now.                                                     *)
Loaded(r) == IF Usable(req[r].held.cookie) THEN Signs(req[r].held.cookie.user) ELSE None

(* Mutations, each in place of the definition it is named for when a       *)
(* property is tried against a plausible bug.                              *)
MutRefreshNow(r)    == IF req[r].me = None THEN Keep ELSE Signs(req[r].me.user)  \* Refreshed: looked up again
MutAddsToSeen(r, u) == req[r].me.gen + 1           \* NextGeneration: what was read, plus one
MutNoLock           == TRUE                        \* AdvisoryFree: check and delete side by side
MutTakesAll(o, f)   == f                           \* Stored: whatever the answer says

-----------------------------------------------------------------------------
SessionsInit ==
    /\ \E s \in Scenarios :
          /\ sends = s.sends
          /\ lapses = s.lapses
          /\ accounts = [u \in Users |-> [role |-> s.start[u], pw |-> 1,
                                          gen |-> IF \E b \in Browsers : s.signedIn[b] = u THEN 1 ELSE 0]]
          /\ jar = [b \in Browsers |->
                      LET u == s.signedIn[b]
                          t == IF u = None THEN None ELSE [user |-> u, gen |-> 1, role |-> s.start[u]]
                      IN  [cookie |-> t, bearer |-> t, lock |-> None]]
    /\ req = [r \in Requests |->
                [step |-> IF sends[r].kind = "none" THEN "done" ELSE "ready", me |-> None,
                 held |-> jar[sends[r].from], cookie |-> Keep, bearer |-> Keep, lock |-> Keep]]
    /\ fails = 0
    /\ txn = None
    /\ ended = {}

Kind(r) == sends[r].kind
Go(r, step) == req' = [req EXCEPT ![r].step = step]

(* Every answer passes the hook that issues the cookie anew for the user   *)
(* the request was handled for, under the generation loaded with them;     *)
(* a sign-out and a lock skip it.                                          *)
Refreshed(r) == IF req[r].me = None THEN Keep ELSE req[r].me

Answer(r, user, cookie, bearer, lock) ==
    req' = [req EXCEPT ![r] = [@ EXCEPT !.step = "answered", !.me = user,
                                        !.cookie = cookie, !.bearer = bearer, !.lock = lock]]

(* The browser sends what it holds.                                        *)
Send(r) ==
    /\ req[r].step = "ready"
    /\ req' = [req EXCEPT ![r].step = "sent", ![r].held = jar[sends[r].from]]
    /\ UNCHANGED <<accounts, jar, fails, txn, ended, lapses>>

(* The request is handled: the user is loaded once, and login_required or  *)
(* the bearer check turns away whoever is not signed in, admin_required    *)
(* and _require_admin whoever is no administrator.  A script reads the     *)
(* role in its token, a page the role in the table.                        *)
Caller(r) == IF sends[r].api THEN IF Usable(req[r].held.bearer) THEN req[r].held.bearer ELSE None
             ELSE Loaded(r)
Rejected(r) ==
    \/ Kind(r) \in {"page", "mint", "logout", "lock", "delete", "add", "password"} /\ Caller(r) = None
    \/ Kind(r) \in {"delete", "add"} /\ Caller(r).role # "admin"
    \/ Kind(r) = "delete" /\ ~ sends[r].api /\ Caller(r).user = sends[r].user

FirstStep(r) ==
    CASE Kind(r) \in {"login", "apilogin"} -> "verify"
      [] Kind(r) = "logout" -> "bump"
      [] Kind(r) = "delete" -> "guard"
      [] Kind(r) = "add" -> "insert"
      [] Kind(r) = "password" -> "check"
      [] OTHER -> "answer"

Begin(r) ==
    /\ req[r].step = "sent"
    /\ req' = [req EXCEPT ![r].me = Loaded(r),
                          ![r].step = IF \/ Rejected(r)
                                         \/ Kind(r) = "login" /\ (Loaded(r) # None \/ fails >= MaxAttempts)
                                      THEN "plain" ELSE FirstStep(r)]
    /\ UNCHANGED <<accounts, jar, fails, txn, ended, lapses>>

(* An answer that only passes the hook: a page, a refusal, a done change.  *)
Plain(r) ==
    /\ req[r].step = "plain"
    /\ Answer(r, req[r].me, Refreshed(r), IF Kind(r) = "mint" THEN Drop ELSE Keep, Keep)
    /\ UNCHANGED <<accounts, jar, fails, txn, ended, lapses>>

(* login: the password is checked against the row; a locked browser signs  *)
(* in again as the user its cookie names.  A success empties the failures  *)
(* of the address, a failure adds one; the API counts neither.             *)
Claimed(r) == IF Kind(r) = "login" /\ req[r].held.lock # None THEN req[r].held.lock ELSE sends[r].user
Resumes(r) == Kind(r) = "login" /\ req[r].held.lock # None
Right(u, pw) == Exists(u) /\ accounts[u].pw = pw

Verify(r) ==
    /\ req[r].step = "verify"
    /\ LET u == Claimed(r) IN
       IF Right(u, sends[r].pw)
       THEN /\ fails' = IF Kind(r) = "login" THEN 0 ELSE fails
            /\ IF Resumes(r)
               THEN Answer(r, None, Signs(u), Keep, Drop) /\ ended' = ended \ {u}
               ELSE req' = [req EXCEPT ![r].step = "bump", ![r].me = Signs(u)] /\ UNCHANGED ended
       ELSE /\ fails' = IF Kind(r) = "login" THEN fails + 1 ELSE fails
            /\ Answer(r, None, Keep, Keep, Keep)
            /\ UNCHANGED ended
    /\ UNCHANGED <<accounts, jar, txn, lapses>>

(* bump_session_generation: one UPDATE, which waits for the rows a         *)
(* deletion has locked.  Without a row left it raises, and the error page  *)
(* passes the hook.                                                        *)
NextGeneration(r, u) == accounts[u].gen + 1
Admins == {u \in Users : accounts[u].role = "admin"}
RowLocked(u) ==
    /\ txn # None
    /\ u = sends[txn].user \/ {u, sends[txn].user} \subseteq Admins

Bump(r) ==
    LET u == req[r].me.user
        t == [Signs(u) EXCEPT !.gen = NextGeneration(r, u), !.role = req[r].me.role]
    IN  /\ req[r].step = "bump"
        /\ ~ RowLocked(u)
        /\ IF Exists(u)
           THEN /\ accounts' = [accounts EXCEPT ![u].gen = NextGeneration(r, u)]
                /\ ended' = IF Kind(r) = "logout" THEN ended \cup {u} ELSE ended \ {u}
                /\ CASE Kind(r) = "login" -> Answer(r, t, t, Keep, Keep)
                     [] Kind(r) = "apilogin" -> Answer(r, t, Keep, t, Keep)
                     [] OTHER -> Answer(r, req[r].me, Drop, Keep, Keep)
           ELSE /\ Answer(r, req[r].me, IF Kind(r) = "logout" THEN Refreshed(r) ELSE Keep, Keep, Keep)
                /\ UNCHANGED <<accounts, ended>>
        /\ UNCHANGED <<jar, fails, txn, lapses>>

(* A page, a new bearer token under the generation of the page, an idle    *)
(* lock, the lock forgotten.                                               *)
Serve(r) ==
    /\ req[r].step = "answer"
    /\ CASE Kind(r) = "mint" -> Answer(r, req[r].me, Refreshed(r), req[r].me, Keep)
         [] Kind(r) = "lock" -> Answer(r, req[r].me, Drop, Keep, req[r].me.user)
         [] Kind(r) = "clear" -> Answer(r, req[r].me, Refreshed(r), Keep, Drop)
         [] OTHER -> Answer(r, req[r].me, Refreshed(r), Keep, Keep)
    /\ UNCHANGED <<accounts, jar, fails, txn, ended, lapses>>

(* delete_user_guarded, in one locked transaction: the row and the admins  *)
(* are read, then the row is deleted unless it is the last administrator.  *)
(* Waiting for the lock runs out after five seconds.                       *)
AdvisoryFree == txn = None

Guard(r) ==
    /\ req[r].step = "guard"
    /\ AdvisoryFree
    /\ IF Exists(sends[r].user) /\ (sends[r].user \in Admins => Cardinality(Admins) > 1)
       THEN txn' = r /\ Go(r, "erase")
       ELSE Go(r, "plain") /\ UNCHANGED txn
    /\ UNCHANGED <<accounts, jar, fails, ended, lapses>>

Busy(r) ==
    /\ req[r].step = "guard"
    /\ ~ AdvisoryFree
    /\ Go(r, "plain")
    /\ UNCHANGED <<accounts, jar, fails, txn, ended, lapses>>

Erase(r) ==
    /\ req[r].step = "erase"
    /\ accounts' = [accounts EXCEPT ![sends[r].user] = [role |-> "gone", gen |-> 0, pw |-> 1]]
    /\ txn' = IF txn = r THEN None ELSE txn
    /\ Go(r, "plain")
    /\ UNCHANGED <<jar, fails, ended, lapses>>

(* insert_user: a new administrator, unless the name is taken.             *)
Insert(r) ==
    /\ req[r].step = "insert"
    /\ accounts' = IF Exists(sends[r].user) THEN accounts
                   ELSE [accounts EXCEPT ![sends[r].user] = [role |-> "admin", gen |-> 0, pw |-> 1]]
    /\ Go(r, "plain")
    /\ UNCHANGED <<jar, fails, txn, ended, lapses>>

(* The caller's own password, after the old one, or another account's, by  *)
(* an administrator; sessions stay.                                        *)
ChangePassword(r) ==
    LET u == sends[r].user
        me == IF sends[r].api THEN req[r].held.bearer ELSE req[r].me
        allowed == IF me.user = u THEN Right(u, sends[r].pw) ELSE me.role = "admin" /\ Exists(u)
    IN  /\ req[r].step = "check"
        /\ ~ RowLocked(u)
        /\ accounts' = IF allowed THEN [accounts EXCEPT ![u].pw = @ + 1] ELSE accounts
        /\ Go(r, "plain")
        /\ UNCHANGED <<jar, fails, txn, ended, lapses>>

(* The answer reaches the browser.                                         *)
Stored(old, field) == IF field = Keep THEN old ELSE IF field = Drop THEN None ELSE field

Deliver(r) ==
    /\ req[r].step = "answered"
    /\ jar' = [jar EXCEPT ![sends[r].from] = [cookie |-> Stored(@.cookie, req[r].cookie),
                                              bearer |-> Stored(@.bearer, req[r].bearer),
                                              lock |-> Stored(@.lock, req[r].lock)]]
    /\ Go(r, "done")
    /\ UNCHANGED <<accounts, fails, txn, ended, lapses>>

(* A failure leaves the five-minute window; a token runs out, or its owner *)
(* has been idle for too long.                                             *)
Forget ==
    /\ fails > 0
    /\ fails' = fails - 1
    /\ UNCHANGED <<accounts, jar, req, txn, ended, lapses>>

Lapse(b) ==
    /\ lapses > 0
    /\ lapses' = lapses - 1
    /\ \/ jar[b].cookie # None /\ jar' = [jar EXCEPT ![b].cookie = None]
       \/ jar[b].bearer # None /\ jar' = [jar EXCEPT ![b].bearer = None]
    /\ UNCHANGED <<accounts, req, fails, txn, ended>>

RequestStep(r) ==
    \/ Send(r) \/ Begin(r) \/ Plain(r) \/ Verify(r) \/ Bump(r) \/ Serve(r) \/ Guard(r)
    \/ Busy(r) \/ Erase(r) \/ Insert(r) \/ ChangePassword(r) \/ Deliver(r)

SessionStep ==
    /\ \/ \E r \in Requests : RequestStep(r)
       \/ \E b \in Browsers : Lapse(b)
       \/ Forget
    /\ UNCHANGED sends

-----------------------------------------------------------------------------
SessionsTypeOK ==
    /\ accounts \in [Users -> Account]
    /\ jar \in [Browsers -> Holdings]
    /\ \A r \in Requests :
          /\ req[r].held \in Holdings
          /\ req[r].me \in Token \cup {None}
          /\ req[r].cookie \in Token \cup {Keep, Drop}
          /\ req[r].bearer \in Token \cup {Keep, Drop}
          /\ req[r].lock \in Users \cup {Keep, Drop}
    /\ fails \in Nat /\ lapses \in Nat
    /\ txn \in Requests \cup {None}
    /\ ended \subseteq Users

(* An account is signed in at one place: two browsers never both hold      *)
(* tokens of it that still count.                                          *)
Tokens(b) == {jar[b].cookie, jar[b].bearer} \ {None}
OneSessionPerAccount ==
    \A b, c \in Browsers : \A t \in Tokens(b), w \in Tokens(c) :
       b # c /\ t.user = w.user => ~ (Usable(t) /\ Usable(w))

(* After a sign-out no token of the account counts until somebody signs in *)
(* again, whatever answers to earlier requests were still on their way.    *)
LogoutIsFinal == \A b \in Browsers : \A t \in Tokens(b) : t.user \in ended => ~ Usable(t)

(* Administrators who delete each other, or themselves through the API,    *)
(* leave one.                                                              *)
AtLeastOneAdmin == Admins # {}
=============================================================================
