------------------------ MODULE OverviewStreamProofs ------------------------
(***************************************************************************)
(* Theorems about OverviewStream.tla, and Sessions.tla which it extends,   *)
(* for any accounts, browsers, requests and queue size.  An administrator  *)
(* remains because whoever is about to delete an account holds the lock    *)
(* and has seen another one, whom nobody else can delete meanwhile.  A     *)
(* stream hears of its superseded token because the event that says so is  *)
(* on the wire, in its queue or among what it has taken, unless the        *)
(* listener has lost its connection, which every stream is told as well.   *)
(* The second half is about who is signed in.                              *)
(***************************************************************************)
EXTENDS OverviewStream, FiniteSetTheorems, SequenceTheorems, TLAPS

Steps == {"ready", "sent", "plain", "verify", "bump", "answer", "guard", "erase", "insert",
          "check", "answered", "done"}
Entry == [step : Steps, me : Token \cup {None}, held : Holdings, cookie : Token \cup {Keep, Drop},
          bearer : Token \cup {Keep, Drop}, lock : Users \cup {Keep, Drop}]

SendsOK ==
    /\ sends \in [Requests -> [kind : Kinds, from : Browsers, user : Users, pw : Nat, api : BOOLEAN]]
    /\ \A r \in Requests : sends[r].api => Kind(r) \in {"apilogin", "delete", "add", "password"}

\* A request that is to raise a generation, to mint or to lock has a user.
NeedsUser(r) == req[r].step = "bump" \/ (req[r].step = "answer" /\ Kind(r) \in {"mint", "lock"})

RequestsOK ==
    /\ req \in [Requests -> Entry]
    /\ \A r \in Requests : NeedsUser(r) => req[r].me \in Token

TableOK ==
    /\ accounts \in [Users -> Account] /\ jar \in [Browsers -> Holdings]
    /\ fails \in Nat /\ lapses \in Nat /\ txn \in Requests \cup {None} /\ ended \subseteq Users

\* Whoever is about to delete an account is alone, and leaves an administrator.
DeletionOK ==
    \A r \in Requests : req[r].step = "erase" => txn = r /\ \E u \in Admins : u # sends[r].user

SignInv == SendsOK /\ RequestsOK /\ TableOK /\ DeletionOK /\ AtLeastOneAdmin

-----------------------------------------------------------------------------
(* The constants, and what a request's steps make of its entry.            *)

LEMMA Constants ==
    /\ IsFiniteSet(Users) /\ None \notin Requests /\ MaxQueue \in Nat /\ MaxQueue >= 2
    BY SessionsAssumption, OverviewStreamAssumption

\* A usable token names an account, and signing one in gives a token.
LEMMA UsableSigns ==
    ASSUME TableOK
    PROVE  /\ \A u \in Users : Exists(u) => Signs(u) \in Token
           /\ \A t \in Token \cup {None} : Usable(t) => t \in Token /\ Signs(t.user) \in Token
  <1>1. \A u \in Users : Exists(u) => Signs(u) \in Token
    BY DEF TableOK, Account, Exists, Signs, Token
  <1>2. \A t \in Token \cup {None} : Usable(t) => t \in Token /\ t.user \in Users /\ Exists(t.user)
    BY DEF Usable, Token
  <1> QED
    BY <1>1, <1>2

LEMMA LoadedType ==
    ASSUME TableOK, RequestsOK, NEW r \in Requests
    PROVE  Loaded(r) \in Token \cup {None}
  <1>1. req[r].held.cookie \in Token \cup {None}
    BY DEF RequestsOK, Entry, Holdings
  <1> QED
    BY <1>1, UsableSigns DEF Loaded

\* An entry whose step changes, and one that is answered.
LEMMA EntryGoes ==
    ASSUME RequestsOK, NEW r \in Requests, NEW p \in Steps, Go(r, p)
    PROVE  /\ req' \in [Requests -> Entry] /\ req'[r].step = p /\ req'[r].me = req[r].me
           /\ \A q \in Requests : q # r => req'[q] = req[q]
  <1>1. [req[r] EXCEPT !.step = p] \in Entry /\ [req[r] EXCEPT !.step = p].me = req[r].me
          /\ [req[r] EXCEPT !.step = p].step = p
    BY DEF RequestsOK, Entry
  <1>2. req' = [req EXCEPT ![r] = [req[r] EXCEPT !.step = p]]
    BY DEF Go
  <1> QED
    BY <1>1, <1>2 DEF RequestsOK

LEMMA EntryAnswered ==
    ASSUME RequestsOK, NEW r \in Requests, NEW user \in Token \cup {None},
           NEW cookie \in Token \cup {Keep, Drop}, NEW bearer \in Token \cup {Keep, Drop},
           NEW lock \in Users \cup {Keep, Drop}, Answer(r, user, cookie, bearer, lock)
    PROVE  /\ req' \in [Requests -> Entry] /\ req'[r].step = "answered"
           /\ \A q \in Requests : q # r => req'[q] = req[q]
  <1> DEFINE e == [req[r] EXCEPT !.step = "answered", !.me = user, !.cookie = cookie,
                                 !.bearer = bearer, !.lock = lock]
  <1>1. e \in Entry /\ e.step = "answered"
    BY DEF RequestsOK, Entry, Steps
  <1>2. req' = [req EXCEPT ![r] = e]
    BY DEF Answer
  <1> HIDE DEF e
  <1> QED
    BY <1>1, <1>2 DEF RequestsOK

\* A step of one request that leaves the table of accounts and the lock alone.
LEMMA OneRequestMoves ==
    ASSUME SignInv, NEW r \in Requests, req' \in [Requests -> Entry],
           \A q \in Requests : q # r => req'[q] = req[q],
           req'[r].step # "erase", NeedsUser(r)' => req'[r].me \in Token,
           TableOK', UNCHANGED sends, txn' = txn,
           \A u \in Users : accounts[u].role = "admin" => accounts'[u].role = "admin"
    PROVE  SignInv'
  <1>1. \A q \in Requests : q # r => (NeedsUser(q)' <=> NeedsUser(q)) /\ req'[q].me = req[q].me
    BY DEF NeedsUser, Kind
  <1>2. RequestsOK'
    BY <1>1 DEF RequestsOK, SignInv
  <1>3. Admins \subseteq Admins'
    BY DEF Admins
  <1>4. DeletionOK'
    BY <1>3 DEF DeletionOK, SignInv
  <1>5. AtLeastOneAdmin'
    BY <1>3 DEF AtLeastOneAdmin, SignInv
  <1>6. SendsOK'
    BY DEF SendsOK, SignInv, Kind
  <1> QED
    BY <1>2, <1>4, <1>5, <1>6 DEF SignInv

LEMMA InitSigns == Init => SignInv
  <1> SUFFICES ASSUME Init PROVE SignInv
    OBVIOUS
  <1> DEFINE First(s, b) == IF s.signedIn[b] = None THEN None
                            ELSE [user |-> s.signedIn[b], gen |-> 1, role |-> s.start[s.signedIn[b]]]
  <1>1. PICK s \in Scenarios :
          /\ sends = s.sends /\ lapses = s.lapses
          /\ accounts = [u \in Users |-> [role |-> s.start[u], pw |-> 1,
                           gen |-> IF \E b \in Browsers : s.signedIn[b] = u THEN 1 ELSE 0]]
          /\ jar = [b \in Browsers |-> [cookie |-> First(s, b), bearer |-> First(s, b), lock |-> None]]
    BY DEF Init, SessionsInit
  <1>2. SendsOK /\ lapses \in Nat
    BY <1>1, SessionsAssumption DEF SendsOK, Kind
  <1>3. accounts \in [Users -> Account]
    BY <1>1, SessionsAssumption DEF Account
  <1>4. AtLeastOneAdmin
    BY <1>1, SessionsAssumption DEF AtLeastOneAdmin, Admins
  <1>5. jar \in [Browsers -> Holdings]
    <2>1. ASSUME NEW b \in Browsers PROVE First(s, b) \in Token \cup {None}
      BY SessionsAssumption DEF Token
    <2> HIDE DEF First
    <2> QED
      BY <1>1, <2>1 DEF Holdings
  <1>6. /\ req \in [Requests -> Entry]
        /\ \A r \in Requests : req[r].step \in {"ready", "done"}
    <2>1. \A r \in Requests : jar[sends[r].from] \in Holdings
      BY <1>2, <1>5 DEF SendsOK
    <2> QED
      BY <2>1 DEF Init, SessionsInit, Entry, Steps
  <1>7. RequestsOK /\ DeletionOK
    BY <1>6 DEF RequestsOK, DeletionOK, NeedsUser
  <1> QED
    BY <1>2, <1>3, <1>4, <1>5, <1>7 DEF SignInv, TableOK, Init, SessionsInit

-----------------------------------------------------------------------------
(* Every step of a request. *)

LEMMA SendStep == ASSUME SignInv, NEW r \in Requests, Send(r), UNCHANGED sends PROVE SignInv'
  <1>1. jar[sends[r].from] \in Holdings /\ req[r] \in Entry
    BY DEF SignInv, SendsOK, TableOK, RequestsOK
  <1> DEFINE e == [req[r] EXCEPT !.step = "sent", !.held = jar[sends[r].from]]
  <1>2. e \in Entry /\ e.step = "sent"
    BY <1>1 DEF Entry, Steps
  <1>3. req' = [req EXCEPT ![r] = e]
    BY DEF Send
  <1> HIDE DEF e
  <1>4. req' \in [Requests -> Entry] /\ req'[r].step = "sent" /\ \A q \in Requests : q # r => req'[q] = req[q]
    BY <1>2, <1>3 DEF SignInv, RequestsOK
  <1> QED
    BY <1>4, OneRequestMoves DEF Send, SignInv, TableOK, NeedsUser

LEMMA BeginStep == ASSUME SignInv, NEW r \in Requests, Begin(r), UNCHANGED sends PROVE SignInv'
  <1>1. Loaded(r) \in Token \cup {None} /\ req[r] \in Entry
    BY LoadedType DEF SignInv, RequestsOK
  <1>2. PICK p \in Steps :
          /\ p # "erase"
          /\ req' = [req EXCEPT ![r] = [req[r] EXCEPT !.me = Loaded(r), !.step = p]]
          /\ p \in {"bump", "answer"} => ~ Rejected(r) /\ p = FirstStep(r)
    BY DEF Begin, FirstStep, Steps
  <1> DEFINE e == [req[r] EXCEPT !.me = Loaded(r), !.step = p]
  <1>3. e \in Entry /\ e.step = p /\ e.me = Loaded(r)
    BY <1>1 DEF Entry
  <1>4. req' \in [Requests -> Entry] /\ req'[r] = e /\ \A q \in Requests : q # r => req'[q] = req[q]
    BY <1>2, <1>3 DEF SignInv, RequestsOK
  <1> HIDE DEF e
  <1>5. NeedsUser(r)' => req'[r].me \in Token
    <2> SUFFICES ASSUME NeedsUser(r)' PROVE Loaded(r) \in Token
      BY <1>3, <1>4
    <2>1. p = "bump" \/ (p = "answer" /\ Kind(r) \in {"mint", "lock"})
      BY <1>3, <1>4 DEF NeedsUser, Kind
    <2>2. ~ Rejected(r) /\ p = FirstStep(r) /\ Kind(r) \in Kinds
      BY <1>2, <2>1 DEF SignInv, SendsOK, Kind
    <2>3. Kind(r) \in {"logout", "mint", "lock"}
      BY <2>1, <2>2 DEF FirstStep, Kinds
    <2>4. ~ sends[r].api
      BY <2>3 DEF SignInv, SendsOK
    <2>5. Loaded(r) # None
      BY <2>2, <2>3, <2>4 DEF Rejected, Caller
    <2> QED
      BY <1>1, <2>5
  <1>6. TableOK' /\ txn' = txn /\ accounts' = accounts
    BY DEF Begin, SignInv, TableOK
  <1> QED
    BY <1>2, <1>3, <1>4, <1>5, <1>6, OneRequestMoves

\* An answer with a user and cookies of the right kind, after which the
\* accounts still have their administrators.
LEMMA AnswerStep ==
    ASSUME SignInv, NEW r \in Requests, NEW user \in Token \cup {None},
           NEW cookie \in Token \cup {Keep, Drop}, NEW bearer \in Token \cup {Keep, Drop},
           NEW lock \in Users \cup {Keep, Drop}, Answer(r, user, cookie, bearer, lock),
           TableOK', UNCHANGED <<sends, txn>>,
           \A u \in Users : accounts[u].role = "admin" => accounts'[u].role = "admin"
    PROVE  SignInv'
  <1>1. /\ req' \in [Requests -> Entry] /\ req'[r].step = "answered"
        /\ \A q \in Requests : q # r => req'[q] = req[q]
    BY EntryAnswered DEF SignInv
  <1> QED
    BY <1>1, OneRequestMoves DEF NeedsUser

\* A request that goes to a step where it needs no user.
LEMMA GoStep ==
    ASSUME SignInv, NEW r \in Requests, NEW p \in Steps \ {"erase", "bump", "answer"}, Go(r, p),
           TableOK', UNCHANGED <<sends, txn>>,
           \A u \in Users : accounts[u].role = "admin" => accounts'[u].role = "admin"
    PROVE  SignInv'
  <1>1. /\ req' \in [Requests -> Entry] /\ req'[r].step = p
        /\ \A q \in Requests : q # r => req'[q] = req[q]
    BY EntryGoes DEF SignInv
  <1> QED
    BY <1>1, OneRequestMoves DEF NeedsUser

LEMMA EntryTypes ==
    ASSUME SignInv, NEW r \in Requests
    PROVE  /\ req[r].me \in Token \cup {None} /\ Refreshed(r) \in Token \cup {Keep}
           /\ req[r].held \in Holdings /\ sends[r].user \in Users
           /\ req[r].cookie \in Token \cup {Keep, Drop}
           /\ req[r].bearer \in Token \cup {Keep, Drop}
           /\ req[r].lock \in Users \cup {Keep, Drop}
           /\ NeedsUser(r) => req[r].me \in Token
    BY DEF SignInv, RequestsOK, SendsOK, Entry, Refreshed

LEMMA PlainStep == ASSUME SignInv, NEW r \in Requests, Plain(r), UNCHANGED sends PROVE SignInv'
  <1>1. TableOK' /\ txn' = txn /\ accounts' = accounts
    BY DEF Plain, SignInv, TableOK
  <1> DEFINE bearer == IF Kind(r) = "mint" THEN Drop ELSE Keep
  <1>2. Answer(r, req[r].me, Refreshed(r), bearer, Keep) /\ bearer \in Token \cup {Keep, Drop}
    BY DEF Plain
  <1> HIDE DEF bearer
  <1> QED
    BY <1>1, <1>2, EntryTypes, AnswerStep

LEMMA ServeStep == ASSUME SignInv, NEW r \in Requests, Serve(r), UNCHANGED sends PROVE SignInv'
  <1>1. TableOK' /\ txn' = txn /\ accounts' = accounts /\ req[r].step = "answer"
    BY DEF Serve, SignInv, TableOK
  <1>2. /\ Kind(r) \in {"mint", "lock"} => req[r].me \in Token
        /\ Kind(r) = "lock" => req[r].me.user \in Users
    BY <1>1, EntryTypes DEF NeedsUser, Token
  <1>3. PICK cookie \in Token \cup {Keep, Drop}, bearer \in Token \cup {Keep, Drop},
             lock \in Users \cup {Keep, Drop} : Answer(r, req[r].me, cookie, bearer, lock)
    <2>1. Refreshed(r) \in Token \cup {Keep, Drop} /\ Keep \in Token \cup {Keep, Drop}
            /\ Drop \in Token \cup {Keep, Drop} /\ Keep \in Users \cup {Keep, Drop}
            /\ Drop \in Users \cup {Keep, Drop}
      BY EntryTypes
    <2>2. CASE Kind(r) = "mint"
      BY <1>2, <2>1, <2>2 DEF Serve
    <2>3. CASE Kind(r) = "lock"
      BY <1>2, <2>1, <2>3 DEF Serve
    <2>4. CASE Kind(r) = "clear"
      BY <2>1, <2>4 DEF Serve
    <2>5. CASE Kind(r) \notin {"mint", "lock", "clear"}
      BY <2>1, <2>5 DEF Serve
    <2> QED
      BY <2>2, <2>3, <2>4, <2>5
  <1> QED
    BY <1>1, <1>3, EntryTypes, AnswerStep

LEMMA VerifyStep == ASSUME SignInv, NEW r \in Requests, Verify(r), UNCHANGED sends PROVE SignInv'
  <1> DEFINE u == Claimed(r)
  <1>1. u \in Users
    <2>1. req[r].held.lock \in Users \cup {None} /\ sends[r].user \in Users
      BY EntryTypes DEF Holdings
    <2> QED
      BY <2>1 DEF Claimed
  <1>2. /\ UNCHANGED <<accounts, jar, txn, lapses>>
        /\ fails' \in {fails, 0, fails + 1} /\ ended' \in {ended, ended \ {u}}
    BY DEF Verify
  <1>3. TableOK'
    BY <1>2 DEF SignInv, TableOK
  <1>4. CASE Right(u, sends[r].pw)
    <2>1. Signs(u) \in Token
      BY <1>1, <1>4, UsableSigns DEF Right, SignInv
    <2>2. CASE Resumes(r)
      <3>1. Answer(r, None, Signs(u), Keep, Drop)
        BY <1>4, <2>2 DEF Verify
      <3> HIDE DEF u
      <3> QED
        BY <1>2, <1>3, <2>1, <3>1, AnswerStep
    <2>3. CASE ~ Resumes(r)
      <3> DEFINE e == [req[r] EXCEPT !.step = "bump", !.me = Signs(u)]
      <3>1. req' = [req EXCEPT ![r] = e]
        BY <1>4, <2>3 DEF Verify
      <3>2. e \in Entry /\ e.step = "bump" /\ e.me \in Token
        <4>1. req[r] \in Entry
          BY DEF SignInv, RequestsOK
        <4> HIDE DEF u
        <4> QED
          BY <2>1, <4>1 DEF Entry, Steps
      <3> HIDE DEF e
      <3>3. /\ req' \in [Requests -> Entry] /\ req'[r] = e
            /\ \A q \in Requests : q # r => req'[q] = req[q]
        BY <3>1, <3>2 DEF SignInv, RequestsOK
      <3> QED
        BY <1>2, <1>3, <3>2, <3>3, OneRequestMoves
    <2> QED
      BY <2>2, <2>3
  <1>5. CASE ~ Right(u, sends[r].pw)
    <2>1. Answer(r, None, Keep, Keep, Keep)
      BY <1>5 DEF Verify
    <2> QED
      BY <1>2, <1>3, <2>1, AnswerStep
  <1> QED
    BY <1>4, <1>5

\* An account whose number or password changes keeps its role.
LEMMA AccountChanges ==
    ASSUME TableOK, NEW u \in Users, NEW v \in Account, v.role = accounts[u].role,
           accounts' = [accounts EXCEPT ![u] = v]
    PROVE  /\ accounts' \in [Users -> Account]
           /\ \A w \in Users : accounts'[w].role = accounts[w].role
    BY DEF TableOK

LEMMA BumpStep == ASSUME SignInv, NEW r \in Requests, Bump(r), UNCHANGED sends PROVE SignInv'
  <1> DEFINE u == req[r].me.user
             n == NextGeneration(r, u)
             t == [Signs(u) EXCEPT !.gen = n, !.role = req[r].me.role]
  <1>1. req[r].me \in Token /\ u \in Users /\ req[r].me.role \in Roles /\ req[r].step = "bump"
    BY EntryTypes DEF Bump, NeedsUser, Token
  <1>2. accounts[u] \in Account /\ n \in Nat
    BY <1>1 DEF SignInv, TableOK, Account, NextGeneration
  <1>3. t \in Token
    BY <1>1, <1>2 DEF Signs, Token
  <1>4. UNCHANGED <<jar, fails, txn, lapses>>
    BY DEF Bump
  <1>5. CASE Exists(u)
    <2>1. accounts' = [accounts EXCEPT ![u] = [accounts[u] EXCEPT !.gen = n]]
      BY <1>5 DEF Bump
    <2>2. [accounts[u] EXCEPT !.gen = n] \in Account
            /\ [accounts[u] EXCEPT !.gen = n].role = accounts[u].role
      BY <1>2 DEF Account
    <2>3. ended' \in {ended \cup {u}, ended \ {u}}
      BY <1>5 DEF Bump
    <2>4. PICK user \in Token \cup {None}, cookie \in Token \cup {Keep, Drop},
               bearer \in Token \cup {Keep, Drop} : Answer(r, user, cookie, bearer, Keep)
      <3>1. CASE Kind(r) = "login"
        BY <1>3, <1>5, <3>1 DEF Bump
      <3>2. CASE Kind(r) = "apilogin"
        BY <1>3, <1>5, <3>2 DEF Bump
      <3>3. CASE Kind(r) \notin {"login", "apilogin"}
        BY <1>1, <1>5, <3>3 DEF Bump
      <3> QED
        BY <3>1, <3>2, <3>3
    <2> HIDE DEF u, n, t
    <2>5. /\ accounts' \in [Users -> Account]
          /\ \A w \in Users : accounts'[w].role = accounts[w].role
      BY <1>1, <2>1, <2>2, AccountChanges DEF SignInv
    <2>6. TableOK'
      BY <1>1, <1>4, <2>3, <2>5 DEF SignInv, TableOK
    <2> QED
      BY <1>4, <2>4, <2>5, <2>6, AnswerStep
  <1>6. CASE ~ Exists(u)
    <2>1. UNCHANGED <<accounts, ended>>
      BY <1>6 DEF Bump
    <2>2. PICK cookie \in Token \cup {Keep, Drop} : Answer(r, req[r].me, cookie, Keep, Keep)
      BY <1>6, EntryTypes DEF Bump
    <2>3. TableOK'
      BY <1>4, <2>1 DEF SignInv, TableOK
    <2> QED
      BY <1>1, <1>4, <2>1, <2>2, <2>3, AnswerStep
  <1> QED
    BY <1>5, <1>6

\* Beside somebody else when more than one, or another kind of account, is named.
LEMMA AnotherAdmin ==
    ASSUME SignInv, NEW v \in Users, v \in Admins => Cardinality(Admins) > 1
    PROVE  \E u \in Admins : u # v
  <1> SUFFICES ASSUME \A u \in Admins : u = v PROVE FALSE
    OBVIOUS
  <1>1. Admins = {v}
    BY DEF SignInv, AtLeastOneAdmin
  <1>2. Cardinality(Admins) = 1
    BY <1>1, FS_Singleton
  <1> QED
    BY <1>1, <1>2

LEMMA GuardStep == ASSUME SignInv, NEW r \in Requests, Guard(r), UNCHANGED sends PROVE SignInv'
  <1>1. UNCHANGED <<accounts, jar, fails, ended, lapses>> /\ txn = None
    BY DEF Guard, AdvisoryFree
  <1>2. CASE Go(r, "plain") /\ txn' = txn
    <2>1. TableOK'
      BY <1>1, <1>2 DEF SignInv, TableOK
    <2> QED
      BY <1>1, <1>2, <2>1, GoStep DEF Steps
  <1>3. CASE Go(r, "erase") /\ txn' = r
              /\ (sends[r].user \in Admins => Cardinality(Admins) > 1)
    <2>1. /\ req' \in [Requests -> Entry] /\ req'[r].step = "erase"
          /\ \A q \in Requests : q # r => req'[q] = req[q]
      BY <1>3, EntryGoes DEF SignInv, Steps
    <2>2. \A q \in Requests : q # r => req'[q].step # "erase"
      BY <1>1, <2>1, Constants DEF SignInv, DeletionOK
    <2>3. \E u \in Admins : u # sends[r].user
      BY <1>3, EntryTypes, AnotherAdmin
    <2>4. Admins' = Admins
      BY <1>1 DEF Admins
    <2>5. DeletionOK' /\ AtLeastOneAdmin'
      BY <1>3, <2>2, <2>3, <2>4 DEF SignInv, DeletionOK, AtLeastOneAdmin
    <2>6. RequestsOK'
      BY <2>1 DEF SignInv, RequestsOK, NeedsUser, Kind
    <2>7. TableOK' /\ SendsOK'
      BY <1>1, <1>3 DEF SignInv, TableOK, SendsOK, Kind
    <2> QED
      BY <2>5, <2>6, <2>7 DEF SignInv
  <1> QED
    BY <1>2, <1>3 DEF Guard

LEMMA EraseStep == ASSUME SignInv, NEW r \in Requests, Erase(r), UNCHANGED sends PROVE SignInv'
  <1> DEFINE v == sends[r].user
  <1>1. v \in Users /\ req[r].step = "erase" /\ txn = r /\ UNCHANGED <<jar, fails, ended, lapses>>
    BY EntryTypes DEF Erase, SignInv, DeletionOK
  <1>2. PICK u \in Admins : u # v
    BY <1>1 DEF SignInv, DeletionOK
  <1>3. accounts' = [accounts EXCEPT ![v] = [role |-> "gone", gen |-> 0, pw |-> 1]] /\ txn' = None
    BY <1>1 DEF Erase
  <1>4. accounts' \in [Users -> Account]
    BY <1>3 DEF SignInv, TableOK, Account
  <1>5. u \in Users /\ u \in Admins'
    BY <1>2, <1>3 DEF Admins, SignInv, TableOK
  <1>6. /\ req' \in [Requests -> Entry] /\ req'[r].step = "plain"
        /\ \A q \in Requests : q # r => req'[q] = req[q]
    BY EntryGoes DEF Erase, SignInv, Steps
  <1>7. \A q \in Requests : req'[q].step # "erase"
    BY <1>1, <1>6 DEF SignInv, DeletionOK
  <1>8. RequestsOK'
    BY <1>6 DEF SignInv, RequestsOK, NeedsUser, Kind
  <1>9. TableOK' /\ SendsOK'
    BY <1>1, <1>3, <1>4 DEF SignInv, TableOK, SendsOK, Kind
  <1> QED
    BY <1>5, <1>7, <1>8, <1>9 DEF SignInv, DeletionOK, AtLeastOneAdmin

LEMMA InsertStep == ASSUME SignInv, NEW r \in Requests, Insert(r), UNCHANGED sends PROVE SignInv'
  <1> DEFINE v == sends[r].user
             new == [role |-> "admin", gen |-> 0, pw |-> 1]
  <1>1. v \in Users /\ UNCHANGED <<jar, fails, txn, ended, lapses>> /\ Go(r, "plain")
    BY EntryTypes DEF Insert
  <1>2. accounts' = accounts \/ (accounts' = [accounts EXCEPT ![v] = new] /\ accounts[v].role = "gone")
    BY DEF Insert, Exists
  <1>3. new \in Account
    BY DEF Account, Roles
  <1>4. /\ accounts' \in [Users -> Account]
        /\ \A u \in Users : accounts[u].role = "admin" => accounts'[u].role = "admin"
    BY <1>1, <1>2, <1>3 DEF SignInv, TableOK
  <1>5. TableOK'
    BY <1>1, <1>4 DEF SignInv, TableOK
  <1> QED
    BY <1>1, <1>4, <1>5, GoStep DEF Steps

LEMMA PasswordStep == ASSUME SignInv, NEW r \in Requests, ChangePassword(r), UNCHANGED sends PROVE SignInv'
  <1> DEFINE v == sends[r].user
             new == [accounts[v] EXCEPT !.pw = accounts[v].pw + 1]
  <1>1. v \in Users /\ UNCHANGED <<jar, fails, txn, ended, lapses>> /\ Go(r, "plain")
    BY EntryTypes DEF ChangePassword
  <1>2. accounts' = accounts \/ accounts' = [accounts EXCEPT ![v] = new]
    BY DEF ChangePassword
  <1>3. new \in Account /\ new.role = accounts[v].role
    BY <1>1 DEF SignInv, TableOK, Account
  <1> HIDE DEF v, new
  <1>4. accounts' \in [Users -> Account] /\ \A w \in Users : accounts'[w].role = accounts[w].role
    BY <1>1, <1>2, <1>3, AccountChanges DEF SignInv, TableOK
  <1>5. TableOK'
    BY <1>1, <1>4 DEF SignInv, TableOK
  <1> QED
    BY <1>1, <1>4, <1>5, GoStep DEF Steps

LEMMA DeliverStep == ASSUME SignInv, NEW r \in Requests, Deliver(r), UNCHANGED sends PROVE SignInv'
  <1> DEFINE b == sends[r].from
             h == [cookie |-> Stored(jar[b].cookie, req[r].cookie),
                   bearer |-> Stored(jar[b].bearer, req[r].bearer),
                   lock |-> Stored(jar[b].lock, req[r].lock)]
  <1>1. b \in Browsers /\ jar[b] \in Holdings
    BY DEF SignInv, SendsOK, TableOK
  <1>2. h \in Holdings
    BY <1>1, EntryTypes DEF Holdings, Stored
  <1>3. jar' = [jar EXCEPT ![b] = h] /\ Go(r, "done") /\ UNCHANGED <<accounts, fails, txn, ended, lapses>>
    BY DEF Deliver
  <1> HIDE DEF b, h
  <1>4. TableOK'
    BY <1>1, <1>2, <1>3 DEF SignInv, TableOK
  <1> QED
    BY <1>3, <1>4, GoStep DEF Steps

\* A step that leaves accounts, requests and the lock alone.
LEMMA HoldingsChange ==
    ASSUME SignInv, UNCHANGED <<sends, accounts, req, txn>>, TableOK'
    PROVE  SignInv'
  <1>1. SendsOK' /\ RequestsOK'
    BY DEF SignInv, SendsOK, RequestsOK, NeedsUser, Kind
  <1>2. DeletionOK' /\ AtLeastOneAdmin'
    BY DEF SignInv, DeletionOK, AtLeastOneAdmin, Admins
  <1> QED
    BY <1>1, <1>2 DEF SignInv

LEMMA LapseStep == ASSUME SignInv, NEW b \in Browsers, Lapse(b), UNCHANGED sends PROVE SignInv'
  <1>1. [jar[b] EXCEPT !.cookie = None] \in Holdings /\ [jar[b] EXCEPT !.bearer = None] \in Holdings
    BY DEF SignInv, TableOK, Holdings
  <1>2. \/ jar' = [jar EXCEPT ![b] = [jar[b] EXCEPT !.cookie = None]]
        \/ jar' = [jar EXCEPT ![b] = [jar[b] EXCEPT !.bearer = None]]
    BY DEF Lapse
  <1>3. jar' \in [Browsers -> Holdings]
    BY <1>1, <1>2 DEF SignInv, TableOK
  <1> QED
    BY <1>3, HoldingsChange DEF Lapse, SignInv, TableOK

\* The page's own way to a bearer token.
LEMMA RemintStep == ASSUME SignInv, NEW b \in Browsers, Remint(b) PROVE SignInv'
  <1>1. jar[b] \in Holdings
    BY DEF SignInv, TableOK
  <1>2. PICK t \in Token \cup {None} : jar' = [jar EXCEPT ![b] = [jar[b] EXCEPT !.bearer = t]]
    <2>1. CASE Usable(jar[b].cookie)
      <3>1. Signs(jar[b].cookie.user) \in Token
        BY <1>1, <2>1, UsableSigns DEF SignInv, Holdings
      <3> QED
        BY <2>1, <3>1 DEF Remint
    <2>2. CASE ~ Usable(jar[b].cookie)
      BY <2>2 DEF Remint
    <2> QED
      BY <2>1, <2>2
  <1>3. [jar[b] EXCEPT !.bearer = t] \in Holdings
    BY <1>1 DEF Holdings
  <1>4. jar' \in [Browsers -> Holdings]
    BY <1>2, <1>3 DEF SignInv, TableOK
  <1> QED
    BY <1>4, HoldingsChange DEF Remint, SignInv, TableOK

LEMMA SessionStepSigns == ASSUME SignInv, SessionStep PROVE SignInv'
  <1>1. ASSUME NEW r \in Requests, Busy(r), UNCHANGED sends PROVE SignInv'
    BY <1>1, GoStep DEF Busy, SignInv, TableOK, Steps
  <1>2. ASSUME NEW r \in Requests, RequestStep(r), UNCHANGED sends PROVE SignInv'
    BY <1>1, <1>2, SendStep, BeginStep, PlainStep, VerifyStep, BumpStep, ServeStep, GuardStep,
       EraseStep, InsertStep, PasswordStep, DeliverStep DEF RequestStep
  <1>3. CASE Forget /\ UNCHANGED sends
    BY <1>3, HoldingsChange DEF Forget, SignInv, TableOK
  <1> QED
    BY <1>2, <1>3, LapseStep DEF SessionStep

\* Every step is one of Sessions, a page's own way to a token, or leaves
\* accounts, requests and what browsers hold alone.
LEMMA StepsOfSessions ==
    ASSUME [Next]_vars
    PROVE  SessionStep \/ (\E b \in Browsers : Remint(b)) \/ UNCHANGED <<sends, sessions>>
  <1>1. ASSUME NEW b \in Browsers,
               \/ ServerStep(b) \/ Flush(b) \/ Fallback(b) \/ Read(b) \/ Show(b) \/ Retry(b)
               \/ Arrive(b) \/ Cut(b) \/ ClickRefresh(b) \/ LoadFails(b) \/ Hide(b) \/ Reveal(b)
        PROVE  UNCHANGED <<sends, sessions>>
    BY <1>1 DEF ServerStep, Authenticate, Subscribe, Greet, Take, Drain, Flush, Fallback, Read,
       Show, Retry, Arrive, Cut, ClickRefresh, LoadFails, Hide, Reveal, Changes
  <1>2. ASSUME Commit \/ Notify \/ Break \/ NoticeBreak \/ Relisten \/ UNCHANGED vars
        PROVE  UNCHANGED <<sends, sessions>>
    BY <1>2 DEF Commit, Notify, Break, NoticeBreak, Relisten, vars
  <1> QED
    BY <1>1, <1>2 DEF Next, Sign, PageStep

LEMMA SignStep == ASSUME SignInv, [Next]_vars PROVE SignInv'
  <1>1. CASE SessionStep
    BY <1>1, SessionStepSigns
  <1>2. ASSUME NEW b \in Browsers, Remint(b) PROVE SignInv'
    BY <1>2, RemintStep
  <1>3. CASE UNCHANGED <<sends, sessions>>
    BY <1>3, HoldingsChange DEF sessions, SignInv, TableOK
  <1> QED
    BY <1>1, <1>2, <1>3, StepsOfSessions

(* Administrators who delete each other, or themselves through the API,    *)
(* leave one: delete_user_guarded checks and deletes in one locked         *)
(* transaction, and nothing else takes the role away (app/db.py).          *)
THEOREM AdminRemains == Spec => []AtLeastOneAdmin
  <1>1. SignInv => AtLeastOneAdmin
    BY DEF SignInv
  <1> QED
    BY <1>1, InitSigns, SignStep, PTL DEF Spec

-----------------------------------------------------------------------------
(* The streams.  A viewer whose queue or batch says so will close; every   *)
(* subscribed one is in that state while the listener is disconnected.     *)

StreamRec == [step : {"off", "checked", "greet", "open", "nap"}, claims : Token \cup {None},
              fresh : BOOLEAN, queue : Seq(Topics), topics : SUBSET Topics]
Ends == {"auth", "offline"}
Warned(b) == Ends \cap (ToSet(stream[b].queue) \cup stream[b].topics) # {}
Stale(b) == stream[b].fresh /\ ~ Usable(stream[b].claims)

\* What holds of one viewer.
ViewerOK(b) ==
    /\ Subscribed(b) => /\ link = "down" => Warned(b)
                        /\ Stale(b) => link = "broken" \/ "auth" \in wire \/ Warned(b)
    /\ stream[b].step # "nap" => stream[b].topics = {}

StreamInv ==
    /\ stream \in [Browsers -> StreamRec] /\ wire \subseteq Topics /\ link \in {"up", "broken", "down"}
    /\ \A b \in Browsers : ViewerOK(b)

LEMMA ClosedIsStream == Closed \in StreamRec
    BY DEF Closed, StreamRec

LEMMA InSequence ==
    ASSUME NEW S, NEW q \in Seq(S), NEW x \in S
    PROVE  /\ Append(q, x) \in Seq(S) /\ ToSet(Append(q, x)) = ToSet(q) \cup {x}
           /\ q # <<>> => Head(q) \in S /\ Tail(q) \in Seq(S) /\ ToSet(q) = ToSet(Tail(q)) \cup {Head(q)}
  <1>1. ToSet(Append(q, x)) = ToSet(q) \cup {x}
    <2>1. /\ Len(Append(q, x)) = Len(q) + 1 /\ Append(q, x)[Len(q) + 1] = x
          /\ \A i \in 1 .. Len(q) : Append(q, x)[i] = q[i]
          /\ DOMAIN Append(q, x) = 1 .. Len(q) + 1 /\ DOMAIN q = 1 .. Len(q) /\ Len(q) \in Nat
      OBVIOUS
    <2> QED
      BY <2>1 DEF ToSet
  <1>2. ASSUME q # <<>> PROVE Head(q) \in S /\ Tail(q) \in Seq(S) /\ ToSet(q) = ToSet(Tail(q)) \cup {Head(q)}
    <2>1. /\ Len(Tail(q)) = Len(q) - 1 /\ Len(q) \in Nat \ {0} /\ Head(q) = q[1]
          /\ \A i \in 1 .. Len(q) - 1 : Tail(q)[i] = q[i + 1]
          /\ DOMAIN Tail(q) = 1 .. Len(q) - 1 /\ DOMAIN q = 1 .. Len(q)
      BY <1>2
    <2>2. \A i \in 1 .. Len(q) : i = 1 \/ i - 1 \in 1 .. Len(q) - 1
      BY <2>1
    <2>3. \A i \in 1 .. Len(q) : i # 1 => Tail(q)[i - 1] = q[i]
      BY <2>1, <2>2
    <2>4. ToSet(q) \subseteq ToSet(Tail(q)) \cup {Head(q)}
      <3>1. ASSUME NEW i \in 1 .. Len(q) PROVE q[i] \in ToSet(Tail(q)) \cup {Head(q)}
        <4>1. CASE i = 1
          BY <2>1, <4>1
        <4>2. CASE i # 1
          BY <2>1, <2>2, <2>3, <4>2 DEF ToSet
        <4> QED
          BY <4>1, <4>2
      <3> QED
        BY <2>1, <3>1 DEF ToSet
    <2>5. ToSet(Tail(q)) \cup {Head(q)} \subseteq ToSet(q)
      BY <2>1 DEF ToSet
    <2> QED
      BY <1>2, <2>4, <2>5
  <1> QED
    BY <1>1, <1>2

\* A full queue is thrown away, but not what closes the stream, nor the news.
LEMMA QueuedKeeps ==
    ASSUME NEW q \in Seq(Topics), NEW topic \in Topics
    PROVE  /\ Queued(q, topic) \in Seq(Topics) /\ topic \in ToSet(Queued(q, topic))
           /\ Ends \cap ToSet(q) # {} => Ends \cap ToSet(Queued(q, topic)) # {}
  <1>1. CASE Len(q) >= MaxQueue
    <2> DEFINE o == IF "auth" \in ToSet(q) THEN "auth" ELSE IF "offline" \in ToSet(q) THEN "offline" ELSE "resync"
    <2>1. o \in Topics /\ Overflowed(q) = <<o>> /\ (Ends \cap ToSet(q) # {} => o \in Ends)
      BY DEF Topics, Overflowed, Ends
    <2> HIDE DEF o
    <2>2. <<o>> \in Seq(Topics) /\ ToSet(<<o>>) = {o}
      BY <2>1 DEF ToSet
    <2>3. /\ Append(<<o>>, topic) \in Seq(Topics)
          /\ ToSet(Append(<<o>>, topic)) = {o} \cup {topic}
      <3> DEFINE w == <<o>>
      <3>1. w \in Seq(Topics) /\ ToSet(w) = {o}
        BY <2>2
      <3> HIDE DEF w
      <3>2. Append(w, topic) \in Seq(Topics) /\ ToSet(Append(w, topic)) = ToSet(w) \cup {topic}
        BY <3>1, InSequence
      <3> QED
        BY <3>1, <3>2 DEF w
    <2>4. Queued(q, topic) = Append(<<o>>, topic)
      BY <1>1, <2>1 DEF Queued
    <2> QED
      BY <2>1, <2>3, <2>4
  <1>2. CASE ~ (Len(q) >= MaxQueue)
    <2>1. Queued(q, topic) = Append(q, topic)
      BY <1>2 DEF Queued
    <2> QED
      BY <2>1, InSequence
  <1> QED
    BY <1>1, <1>2

\* Publishing keeps every stream but for its queue, which gets the news.
LEMMA PublishedKeeps ==
    ASSUME StreamInv, NEW topic \in Topics, stream' = Published(topic)
    PROVE  /\ stream' \in [Browsers -> StreamRec]
           /\ \A b \in Browsers :
                /\ Subscribed(b)' = Subscribed(b) /\ stream'[b].topics = stream[b].topics
                /\ stream'[b].step = stream[b].step
                /\ stream'[b].claims = stream[b].claims /\ stream'[b].fresh = stream[b].fresh
                /\ Warned(b) /\ Subscribed(b) => Warned(b)'
                /\ topic \in Ends /\ Subscribed(b) => Warned(b)'
  <1>1. ASSUME NEW b \in Browsers
        PROVE  /\ stream'[b] \in StreamRec
               /\ Subscribed(b)' = Subscribed(b) /\ stream'[b].topics = stream[b].topics
               /\ stream'[b].step = stream[b].step
               /\ stream'[b].claims = stream[b].claims /\ stream'[b].fresh = stream[b].fresh
               /\ Warned(b) /\ Subscribed(b) => Warned(b)'
               /\ topic \in Ends /\ Subscribed(b) => Warned(b)'
    <2>1. stream[b] \in StreamRec /\ stream[b].queue \in Seq(Topics)
      BY DEF StreamInv, StreamRec
    <2>2. CASE ~ Subscribed(b)
      <3>1. stream'[b] = stream[b]
        BY <2>2 DEF Published
      <3> QED
        BY <2>1, <2>2, <3>1 DEF Subscribed
    <2>3. CASE Subscribed(b)
      <3> DEFINE q == Queued(stream[b].queue, topic)
      <3>1. /\ q \in Seq(Topics) /\ topic \in ToSet(q)
            /\ Ends \cap ToSet(stream[b].queue) # {} => Ends \cap ToSet(q) # {}
        BY <2>1, QueuedKeeps
      <3>2. stream'[b] = [stream[b] EXCEPT !.queue = q]
        BY <2>3 DEF Published
      <3> HIDE DEF q
      <3>3. /\ stream'[b] \in StreamRec /\ stream'[b].queue = q
            /\ stream'[b].topics = stream[b].topics /\ stream'[b].step = stream[b].step
            /\ stream'[b].claims = stream[b].claims /\ stream'[b].fresh = stream[b].fresh
        BY <2>1, <3>1, <3>2 DEF StreamRec
      <3>4. Subscribed(b)' = Subscribed(b)
        BY <3>3 DEF Subscribed
      <3> QED
        BY <3>1, <3>3, <3>4 DEF Warned
    <2> QED
      BY <2>2, <2>3
  <1>2. stream' = [b \in Browsers |-> stream'[b]]
    BY DEF Published
  <1> QED
    BY <1>1, <1>2

\* A stream that stays as it is, in a step that keeps its token usable, or
\* has the accounts announced to a listener that is connected.
LEMMA ViewerKept ==
    ASSUME StreamInv, NEW b \in Browsers, stream'[b] = stream[b],
           wire \subseteq wire', link' = link, accounts' # accounts /\ link = "up" => "auth" \in wire'
    PROVE  ViewerOK(b)'
  <1>1. ViewerOK(b) /\ Warned(b)' = Warned(b) /\ Subscribed(b)' = Subscribed(b)
    BY DEF StreamInv, Warned, Subscribed
  <1>2. accounts' = accounts => Stale(b)' = Stale(b)
    BY DEF Stale, Usable, Exists
  <1>3. link \in {"up", "broken", "down"}
    BY DEF StreamInv
  <1> QED
    BY <1>1, <1>2, <1>3 DEF ViewerOK

LEMMA ViewerNotThere ==
    ASSUME NEW b \in Browsers, stream'[b].step \in {"off", "checked"}, stream'[b].topics = {}
    PROVE  ViewerOK(b)'
    BY DEF ViewerOK, Subscribed

\* A step of one stream, of which the wire, the listener and the accounts
\* take no notice.
LEMMA OneStreamMoves ==
    ASSUME StreamInv, NEW b \in Browsers, stream'[b] \in StreamRec,
           stream' = [stream EXCEPT ![b] = stream'[b]], ViewerOK(b)',
           UNCHANGED <<accounts, wire, link>>
    PROVE  StreamInv'
  <1>1. \A c \in Browsers : c # b => stream'[c] = stream[c]
    BY DEF StreamInv
  <1>2. \A c \in Browsers : ViewerOK(c)'
    BY <1>1, ViewerKept
  <1>3. stream' \in [Browsers -> StreamRec]
    BY DEF StreamInv
  <1> QED
    BY <1>2, <1>3 DEF StreamInv

LEMMA CloseStep ==
    ASSUME StreamInv, NEW b \in Browsers, stream' = [stream EXCEPT ![b] = Closed],
           UNCHANGED <<accounts, wire, link>>
    PROVE  StreamInv'
  <1>1. stream'[b] = Closed
    BY DEF StreamInv
  <1>2. ViewerOK(b)'
    BY <1>1, ViewerNotThere DEF Closed
  <1> QED
    BY <1>1, <1>2, ClosedIsStream, OneStreamMoves

LEMMA AllKept ==
    ASSUME StreamInv, stream' = stream, wire \subseteq wire', wire' \subseteq Topics, link' = link,
           accounts' # accounts /\ link = "up" => "auth" \in wire'
    PROVE  StreamInv'
  <1>1. \A b \in Browsers : ViewerOK(b)'
    BY ViewerKept
  <1> QED
    BY <1>1 DEF StreamInv

LEMMA AuthenticateStep ==
    ASSUME SignInv, StreamInv, NEW b \in Browsers, Authenticate(b)
    PROVE  StreamInv'
  <1>1. jar[b].bearer \in Token \cup {None}
    BY DEF SignInv, TableOK, Holdings
  <1>2. /\ stream'[b] \in StreamRec /\ stream'[b].step = "checked" /\ stream'[b].topics = {}
        /\ stream' = [stream EXCEPT ![b] = stream'[b]] /\ UNCHANGED <<accounts, wire, link>>
    BY <1>1, ClosedIsStream DEF Authenticate, StreamInv, StreamRec, Closed, sessions
  <1>3. ViewerOK(b)'
    BY <1>2, ViewerNotThere
  <1> QED
    BY <1>2, <1>3, OneStreamMoves

LEMMA SubscribeStep ==
    ASSUME StreamInv, NEW b \in Browsers, Subscribe(b)
    PROVE  StreamInv'
  <1>1. UNCHANGED <<accounts, wire, link>>
    BY DEF Subscribe, sessions
  <1>2. CASE link = "down"
    BY <1>1, <1>2, CloseStep DEF Subscribe
  <1>3. CASE link # "down"
    <2> DEFINE fresh == Usable(stream[b].claims)
               s == [stream[b] EXCEPT !.step = "greet", !.fresh = fresh]
    <2>1. fresh \in BOOLEAN
      BY DEF Usable, Exists
    <2>2. stream' = [stream EXCEPT ![b] = s] /\ stream[b] \in StreamRec /\ stream[b].step = "checked"
      BY <1>3 DEF Subscribe, StreamInv
    <2> HIDE DEF fresh
    <2>3. /\ s \in StreamRec /\ s.step = "greet" /\ s.fresh = fresh /\ s.claims = stream[b].claims
          /\ s.topics = stream[b].topics
      BY <2>1, <2>2 DEF StreamRec
    <2> HIDE DEF s
    <2>4. stream'[b] = s
      BY <2>2 DEF StreamInv
    <2>5. Stale(b)' = FALSE
      <3>1. Usable(stream[b].claims)' = Usable(stream'[b].claims)
        BY <2>3, <2>4, <1>1 DEF Usable, Exists
      <3>2. Usable(stream'[b].claims) = fresh
        BY <2>3, <2>4 DEF fresh
      <3> QED
        BY <2>3, <2>4, <1>1 DEF Stale, Usable, Exists, fresh
    <2>6. stream[b].topics = {}
      BY <2>2 DEF StreamInv, ViewerOK
    <2>7. ViewerOK(b)'
      BY <1>1, <1>3, <2>3, <2>4, <2>5, <2>6 DEF ViewerOK
    <2> QED
      BY <1>1, <2>2, <2>3, <2>4, <2>7, OneStreamMoves
  <1> QED
    BY <1>2, <1>3

\* A stream that stays subscribed, with the same token and warned as before.
LEMMA ViewerMoves ==
    ASSUME StreamInv, NEW b \in Browsers, Subscribed(b), UNCHANGED <<accounts, wire, link>>,
           stream'[b].claims = stream[b].claims, stream'[b].fresh = stream[b].fresh,
           Warned(b) => Warned(b)', stream'[b].step # "nap" => stream'[b].topics = {}
    PROVE  ViewerOK(b)'
  <1>1. Stale(b)' = Stale(b)
    BY DEF Stale, Usable, Exists
  <1> QED
    BY <1>1 DEF StreamInv, ViewerOK

LEMMA GreetStep ==
    ASSUME StreamInv, NEW b \in Browsers, Greet(b)
    PROVE  StreamInv'
  <1>1. UNCHANGED <<accounts, wire, link>> /\ stream[b].step = "greet" /\ stream[b] \in StreamRec
    BY DEF Greet, sessions, StreamInv
  <1>2. CASE Len(stream[b].queue) >= MaxQueue
    BY <1>1, <1>2, CloseStep DEF Greet
  <1>3. CASE ~ (Len(stream[b].queue) >= MaxQueue)
    <2> DEFINE q == Append(stream[b].queue, "health")
               s == [stream[b] EXCEPT !.step = "open", !.queue = q]
    <2>1. q \in Seq(Topics) /\ ToSet(q) = ToSet(stream[b].queue) \cup {"health"}
      BY <1>1, InSequence DEF StreamRec, Topics
    <2>2. stream' = [stream EXCEPT ![b] = s]
      BY <1>3 DEF Greet
    <2> HIDE DEF q
    <2>3. /\ s \in StreamRec /\ s.step = "open" /\ s.queue = q /\ s.fresh = stream[b].fresh
          /\ s.claims = stream[b].claims /\ s.topics = stream[b].topics
      BY <1>1, <2>1 DEF StreamRec
    <2> HIDE DEF s
    <2>4. stream'[b] = s
      BY <2>2 DEF StreamInv
    <2>5. Warned(b) => Warned(b)'
      BY <2>1, <2>3, <2>4 DEF Warned
    <2>6. stream[b].topics = {} /\ Subscribed(b)
      BY <1>1 DEF StreamInv, ViewerOK, Subscribed
    <2>7. ViewerOK(b)'
      BY <1>1, <2>3, <2>4, <2>5, <2>6, ViewerMoves
    <2> QED
      BY <1>1, <2>2, <2>3, <2>4, <2>7, OneStreamMoves
  <1> QED
    BY <1>2, <1>3

LEMMA TakeStep ==
    ASSUME StreamInv, NEW b \in Browsers, Take(b)
    PROVE  StreamInv'
  <1> DEFINE h == Head(stream[b].queue)
             q == Tail(stream[b].queue)
             s == [stream[b] EXCEPT !.step = "nap", !.topics = {h}, !.queue = q]
  <1>1. /\ UNCHANGED <<accounts, wire, link>> /\ stream[b].step = "open" /\ stream[b] \in StreamRec
        /\ stream[b].queue # <<>> /\ stream' = [stream EXCEPT ![b] = s]
    BY DEF Take, sessions, StreamInv
  <1>2. h \in Topics /\ q \in Seq(Topics) /\ ToSet(stream[b].queue) = ToSet(q) \cup {h}
    <2>1. stream[b].queue \in Seq(Topics) /\ "auth" \in Topics
      BY <1>1 DEF StreamRec, Topics
    <2> QED
      BY <1>1, <2>1, InSequence
  <1> HIDE DEF h, q
  <1>3. /\ s \in StreamRec /\ s.step = "nap" /\ s.queue = q /\ s.topics = {h}
        /\ s.fresh = stream[b].fresh /\ s.claims = stream[b].claims
    BY <1>1, <1>2 DEF StreamRec
  <1> HIDE DEF s
  <1>4. stream'[b] = s
    BY <1>1 DEF StreamInv
  <1>5. Subscribed(b) /\ stream[b].topics = {}
    BY <1>1 DEF StreamInv, ViewerOK, Subscribed
  <1>6. Warned(b) => Warned(b)'
    BY <1>2, <1>3, <1>4, <1>5 DEF Warned
  <1>7. ViewerOK(b)'
    BY <1>1, <1>3, <1>4, <1>5, <1>6, ViewerMoves
  <1> QED
    BY <1>1, <1>3, <1>4, <1>7, OneStreamMoves

LEMMA DrainStep ==
    ASSUME StreamInv, NEW b \in Browsers, Drain(b)
    PROVE  StreamInv'
  <1>1. /\ UNCHANGED <<accounts, wire, link>> /\ stream[b].step = "nap" /\ stream[b] \in StreamRec
    BY DEF Drain, sessions, StreamInv
  <1>2. CASE Warned(b)
    <2>1. (stream[b].topics \cup ToSet(stream[b].queue)) \cap {"auth", "offline"} # {}
      BY <1>2 DEF Warned, Ends
    <2> QED
      BY <1>1, <2>1, CloseStep DEF Drain
  <1>3. CASE ~ Warned(b)
    <2> DEFINE s == [stream[b] EXCEPT !.step = "open", !.queue = <<>>, !.topics = {}]
    <2>1. (stream[b].topics \cup ToSet(stream[b].queue)) \cap {"auth", "offline"} = {}
      BY <1>3 DEF Warned, Ends
    <2>2. stream' = [stream EXCEPT ![b] = s]
      BY <1>1, <2>1 DEF Drain, StreamInv
    <2>3. /\ s \in StreamRec /\ s.step = "open" /\ s.topics = {}
          /\ s.fresh = stream[b].fresh /\ s.claims = stream[b].claims
      <3>1. <<>> \in Seq(Topics) /\ {} \in SUBSET Topics
        OBVIOUS
      <3> QED
        BY <1>1, <3>1 DEF StreamRec
    <2> HIDE DEF s
    <2>4. stream'[b] = s
      BY <2>2 DEF StreamInv
    <2>5. Subscribed(b)
      BY <1>1 DEF Subscribed
    <2>6. ViewerOK(b)'
      BY <1>1, <1>3, <2>3, <2>4, <2>5, ViewerMoves
    <2> QED
      BY <1>1, <2>2, <2>3, <2>4, <2>6, OneStreamMoves
  <1> QED
    BY <1>2, <1>3

LEMMA NotifyStep == ASSUME StreamInv, Notify PROVE StreamInv'
  <1>1. PICK topic \in wire : wire' = wire \ {topic} /\ stream' = Published(topic)
    BY DEF Notify
  <1>2. topic \in Topics /\ wire' \subseteq Topics /\ UNCHANGED <<accounts, link>>
    BY <1>1 DEF StreamInv, Notify, sessions
  <1>3. \A b \in Browsers : ViewerOK(b)'
    <2> SUFFICES ASSUME NEW b \in Browsers PROVE ViewerOK(b)'
      OBVIOUS
    <2>1. /\ Subscribed(b)' = Subscribed(b) /\ stream'[b].topics = stream[b].topics
          /\ stream'[b].step = stream[b].step
          /\ stream'[b].claims = stream[b].claims /\ stream'[b].fresh = stream[b].fresh
          /\ Warned(b) /\ Subscribed(b) => Warned(b)'
          /\ topic = "auth" /\ Subscribed(b) => Warned(b)'
      BY <1>1, <1>2, PublishedKeeps DEF Ends
    <2>2. Stale(b)' = Stale(b)
      BY <1>2, <2>1 DEF Stale, Usable, Exists
    <2>3. "auth" \in wire /\ Subscribed(b) => "auth" \in wire' \/ Warned(b)'
      BY <1>1, <2>1
    <2>4. ViewerOK(b)
      BY DEF StreamInv
    <2> QED
      BY <1>2, <2>1, <2>2, <2>3, <2>4 DEF ViewerOK
  <1> QED
    BY <1>1, <1>2, <1>3, PublishedKeeps DEF StreamInv

LEMMA LinkStep == ASSUME StreamInv, NoticeBreak \/ Relisten PROVE StreamInv'
  <1>1. PICK topic \in Topics :
          /\ stream' = Published(topic) /\ UNCHANGED <<accounts, wire>> /\ link' \in {"up", "down"}
          /\ link' = "up" => link = "down"
          /\ link' = "down" => topic \in Ends
    BY DEF NoticeBreak, Relisten, Topics, Ends, sessions
  <1>2. \A b \in Browsers : ViewerOK(b)'
    <2> SUFFICES ASSUME NEW b \in Browsers PROVE ViewerOK(b)'
      OBVIOUS
    <2>1. /\ Subscribed(b)' = Subscribed(b) /\ stream'[b].topics = stream[b].topics
          /\ stream'[b].step = stream[b].step
          /\ Warned(b) /\ Subscribed(b) => Warned(b)'
          /\ topic \in Ends /\ Subscribed(b) => Warned(b)'
      BY <1>1, PublishedKeeps
    <2>2. ViewerOK(b)
      BY DEF StreamInv
    <2> QED
      BY <1>1, <2>1, <2>2 DEF ViewerOK
  <1> QED
    BY <1>1, <1>2, PublishedKeeps DEF StreamInv

LEMMA BreakStep == ASSUME StreamInv, Break PROVE StreamInv'
  <1>1. stream' = stream /\ link' = "broken" /\ wire' = {}
    BY DEF Break
  <1>2. \A b \in Browsers : ViewerOK(b)'
    BY <1>1 DEF StreamInv, ViewerOK
  <1> QED
    BY <1>1, <1>2 DEF StreamInv

LEMMA InitStreams == Init => StreamInv
  <1> SUFFICES ASSUME Init PROVE StreamInv
    OBVIOUS
  <1>1. stream \in [Browsers -> StreamRec] /\ \A b \in Browsers : stream[b] = Closed
    BY ClosedIsStream DEF Init
  <1>2. \A b \in Browsers : ViewerOK(b)
    BY <1>1 DEF ViewerOK, Subscribed, Closed
  <1> QED
    BY <1>1, <1>2 DEF StreamInv, Init

LEMMA StreamStep == ASSUME SignInv, StreamInv, [Next]_vars PROVE StreamInv'
  <1>1. CASE Commit
    <2>1. wire \subseteq wire' /\ wire' \subseteq Topics /\ accounts' = accounts
      BY <1>1 DEF Commit, Announced, StreamInv, Topics, sessions
    <2> QED
      BY <1>1, <2>1, AllKept DEF Commit
  <1>2. CASE Sign
    <2>1. /\ wire \subseteq wire' /\ wire' \subseteq Topics
          /\ accounts' # accounts /\ link = "up" => "auth" \in wire'
      BY <1>2 DEF Sign, Announced, StreamInv, Topics
    <2> QED
      BY <1>2, <2>1, AllKept DEF Sign
  <1>3. CASE Notify
    BY <1>3, NotifyStep
  <1>4. CASE Break
    BY <1>4, BreakStep
  <1>5. CASE NoticeBreak \/ Relisten
    BY <1>5, LinkStep
  <1>6. ASSUME NEW b \in Browsers, ServerStep(b) PROVE StreamInv'
    BY <1>6, AuthenticateStep, SubscribeStep, GreetStep, TakeStep, DrainStep DEF ServerStep
  <1>7. ASSUME NEW b \in Browsers, Remint(b) PROVE StreamInv'
    <2>1. UNCHANGED <<accounts, wire, link>>
      BY <1>7 DEF Remint
    <2>2. CASE UNCHANGED stream
      BY <2>1, <2>2, AllKept DEF StreamInv
    <2>3. CASE stream' = [stream EXCEPT ![b] = Closed]
      BY <2>1, <2>3, CloseStep
    <2> QED
      BY <1>7, <2>2, <2>3 DEF Remint
  <1>8. ASSUME NEW b \in Browsers, Cut(b) \/ Hide(b) PROVE StreamInv'
    BY <1>8, CloseStep DEF Cut, Hide, sessions
  <1>9. ASSUME UNCHANGED <<accounts, wire, link, stream>> PROVE StreamInv'
    BY <1>9, AllKept DEF StreamInv
  <1>10. ASSUME NEW b \in Browsers,
                Flush(b) \/ Fallback(b) \/ Read(b) \/ Show(b) \/ Retry(b) \/ Arrive(b)
                \/ ClickRefresh(b) \/ LoadFails(b) \/ Reveal(b)
         PROVE  UNCHANGED <<accounts, wire, link, stream>>
    BY <1>10 DEF Flush, Fallback, Read, Show, Retry, Arrive, ClickRefresh, LoadFails, Reveal,
       Changes, sessions
  <1>11. ASSUME UNCHANGED vars PROVE UNCHANGED <<accounts, wire, link, stream>>
    BY <1>11 DEF vars, sessions, overview
  <1> QED
    BY <1>1, <1>2, <1>3, <1>4, <1>5, <1>6, <1>7, <1>8, <1>9, <1>10, <1>11 DEF Next, PageStep

(* A stream whose token has been superseded since it was opened has been,  *)
(* or is about to be, told to close, whatever its queue threw away and     *)
(* whatever the listener missed (overview_stream.py, overview_notify.py).  *)
THEOREM StaleStreamsHear == Spec => []StaleStreamWarned
  <1>1. StreamInv => StaleStreamWarned
    BY DEF StreamInv, ViewerOK, StaleStreamWarned, Stale, Warned, Ends
  <1>2. Init => SignInv /\ StreamInv
    BY InitSigns, InitStreams
  <1>3. SignInv /\ StreamInv /\ [Next]_vars => (SignInv /\ StreamInv)'
    BY SignStep, StreamStep
  <1> QED
    BY <1>1, <1>2, <1>3, PTL DEF Spec

-----------------------------------------------------------------------------
(* Types of the rest: the dashboard's version, the pages, and queues that  *)
(* never grow beyond what asyncio.Queue(maxsize) takes.                    *)

PageRec == [at : {"none", "overview", "login"}, visible : BOOLEAN, loaded : BOOLEAN,
            shown : Nat, seen : Nat, dirty : BOOLEAN, timer : BOOLEAN, retry : BOOLEAN,
            load : {"none", "asked", "read"}, silent : BOOLEAN, told : BOOLEAN]

Pages == data \in Nat /\ page \in [Browsers -> PageRec]
Bounded == \A b \in Browsers : Len(stream[b].queue) <= MaxQueue

LEMMA NewPageType == NewPage \in PageRec /\ \A x \in {"none", "login"} : [NewPage EXCEPT !.at = x] \in PageRec
    BY DEF NewPage, PageRec

LEMMA LoadType ==
    ASSUME NEW p \in PageRec, NEW silent \in BOOLEAN
    PROVE  Load(p, silent) \in PageRec /\ [Load(p, silent) EXCEPT !.dirty = FALSE, !.timer = FALSE] \in PageRec
    BY DEF Load, PageRec

LEMMA InvalidType == ASSUME NEW p \in PageRec PROVE Invalid(p) \in PageRec /\ [Invalid(p) EXCEPT !.retry = FALSE] \in PageRec
    BY DEF Invalid, PageRec

LEMMA GreetedType == ASSUME NEW p \in PageRec PROVE Greeted(p) \in PageRec
  <1>1. [p EXCEPT !.loaded = TRUE, !.load = "asked", !.silent = FALSE] \in PageRec
    BY DEF PageRec
  <1> QED
    BY <1>1, InvalidType DEF Greeted

\* One page changes, to a page.
LEMMA OnePage ==
    ASSUME Pages, NEW b \in Browsers, NEW p \in PageRec, page' = [page EXCEPT ![b] = p], data' = data
    PROVE  Pages'
    BY DEF Pages

LEMMA PageMoves ==
    ASSUME Pages, NEW b \in Browsers,
           Flush(b) \/ Fallback(b) \/ ClickRefresh(b) \/ Read(b) \/ Show(b) \/ LoadFails(b) \/ Retry(b)
           \/ Reveal(b)
    PROVE  Pages'
  <1> DEFINE p == page[b]
  <1>1. p \in PageRec /\ data \in Nat
    BY DEF Pages
  <1>2. ASSUME NEW q \in PageRec, Changes(b, q) PROVE Pages'
    BY <1>2, OnePage DEF Changes
  <1>3. CASE Flush(b)
    BY <1>1, <1>2, <1>3, LoadType DEF Flush
  <1>4. CASE Fallback(b) \/ ClickRefresh(b)
    BY <1>1, <1>2, <1>4, LoadType DEF Fallback, ClickRefresh
  <1>5. CASE Read(b)
    <2>1. [p EXCEPT !.load = "read", !.seen = data] \in PageRec
      BY <1>1 DEF PageRec
    <2> QED
      BY <1>2, <1>5, <2>1 DEF Read
  <1>6. CASE Show(b)
    <2>1. [p EXCEPT !.load = "none", !.shown = p.seen, !.told = FALSE, !.retry = FALSE] \in PageRec
      BY <1>1 DEF PageRec
    <2> QED
      BY <1>2, <1>6, <2>1 DEF Show
  <1>7. CASE LoadFails(b)
    <2> DEFINE told == p.told \/ ~ p.silent
               retry == p.retry \/ p.silent
               q == [p EXCEPT !.load = "none", !.told = told, !.retry = retry]
    <2>1. told \in BOOLEAN /\ retry \in BOOLEAN
      BY <1>1 DEF PageRec
    <2>2. Changes(b, q)
      BY <1>7 DEF LoadFails
    <2> HIDE DEF told, retry
    <2>3. q \in PageRec
      BY <1>1, <2>1 DEF PageRec
    <2> QED
      BY <1>2, <2>2, <2>3
  <1>8. CASE Retry(b)
    BY <1>1, <1>2, <1>8, InvalidType DEF Retry
  <1>9. CASE Reveal(b)
    <2>1. [p EXCEPT !.visible = TRUE] \in PageRec
      BY <1>1 DEF PageRec
    <2> QED
      BY <1>2, <1>9, <2>1 DEF Reveal
  <1> QED
    BY <1>3, <1>4, <1>5, <1>6, <1>7, <1>8, <1>9

LEMMA PagesNext == ASSUME Pages, [Next]_vars PROVE Pages'
  <1>1. ASSUME UNCHANGED <<data, page>> PROVE Pages'
    BY <1>1 DEF Pages
  <1>2. CASE Commit
    BY <1>2 DEF Commit, Pages
  <1>3. ASSUME Sign \/ Notify \/ Break \/ NoticeBreak \/ Relisten \/ UNCHANGED vars
        PROVE  UNCHANGED <<data, page>>
    BY <1>3 DEF Sign, Notify, Break, NoticeBreak, Relisten, vars, overview
  <1>4. ASSUME NEW b \in Browsers, Authenticate(b) \/ Subscribe(b) \/ Take(b) \/ Cut(b)
        PROVE  UNCHANGED <<data, page>>
    BY <1>4 DEF Authenticate, Subscribe, Take, Cut
  <1>5. ASSUME NEW b \in Browsers,
               Greet(b) \/ Drain(b) \/ Remint(b) \/ Hide(b) \/ Arrive(b)
        PROVE  Pages'
    <2>1. page[b] \in PageRec
      BY DEF Pages
    <2>2. CASE Greet(b)
      BY <2>1, <2>2, GreetedType, OnePage DEF Greet
    <2>3. CASE Drain(b)
      <3>1. data' = data /\ (page' = page \/ page' = [page EXCEPT ![b] = Invalid(page[b])])
        BY <2>3 DEF Drain
      <3> QED
        BY <1>1, <2>1, <3>1, InvalidType, OnePage
    <2>4. CASE Remint(b)
      <3>1. data' = data /\ (page' = page \/ page' = [page EXCEPT ![b] = [NewPage EXCEPT !.at = "login"]])
        BY <2>4 DEF Remint
      <3> QED
        BY <1>1, <3>1, NewPageType, OnePage
    <2>5. CASE Hide(b)
      <3>1. page' = [page EXCEPT ![b] = [page[b] EXCEPT !.visible = FALSE, !.timer = FALSE]] /\ data' = data
        BY <2>5 DEF Hide, Pages
      <3>2. [page[b] EXCEPT !.visible = FALSE, !.timer = FALSE] \in PageRec
        BY <2>1 DEF PageRec
      <3> QED
        BY <3>1, <3>2, OnePage
    <2>6. CASE Arrive(b)
      BY <2>6, NewPageType, OnePage DEF Arrive
    <2> QED
      BY <1>5, <2>2, <2>3, <2>4, <2>5, <2>6
  <1> QED
    BY <1>1, <1>2, <1>3, <1>4, <1>5, PageMoves DEF Next, ServerStep, PageStep

LEMMA AppendLength ==
    ASSUME NEW S, NEW q \in Seq(S), NEW x \in S
    PROVE  Len(Append(q, x)) = Len(q) + 1
    OBVIOUS

\* Two are kept of a queue that was full, and the queue holds two at least.
LEMMA QueuedBounded ==
    ASSUME NEW q \in Seq(Topics), Len(q) <= MaxQueue, NEW topic \in Topics
    PROVE  Len(Queued(q, topic)) <= MaxQueue
  <1>1. CASE Len(q) >= MaxQueue
    <2> DEFINE w == Overflowed(q)
    <2>1. w \in Seq(Topics) /\ Len(w) = 1
      BY DEF Overflowed, Topics
    <2> HIDE DEF w
    <2>2. Len(Append(w, topic)) = Len(w) + 1
      BY <2>1, AppendLength
    <2>3. Len(Append(w, topic)) = 2
      BY <2>1, <2>2
    <2> QED
      BY <1>1, <2>3, Constants DEF Queued, w
  <1>2. CASE ~ (Len(q) >= MaxQueue)
    <2>1. Len(Append(q, topic)) = Len(q) + 1 /\ Len(q) \in Nat
      OBVIOUS
    <2> QED
      BY <1>2, <2>1, Constants DEF Queued
  <1> QED
    BY <1>1, <1>2

LEMMA PublishedBounded ==
    ASSUME StreamInv, Bounded, NEW topic \in Topics, stream' = Published(topic)
    PROVE  Bounded'
  <1> SUFFICES ASSUME NEW b \in Browsers PROVE Len(stream'[b].queue) <= MaxQueue
    BY DEF Bounded
  <1>1. stream[b] \in StreamRec /\ stream[b].queue \in Seq(Topics) /\ Len(stream[b].queue) <= MaxQueue
    BY DEF StreamInv, StreamRec, Bounded
  <1>2. CASE Subscribed(b)
    <2>1. stream'[b].queue = Queued(stream[b].queue, topic)
      BY <1>1, <1>2 DEF Published, StreamRec
    <2> QED
      BY <1>1, <2>1, QueuedBounded
  <1>3. CASE ~ Subscribed(b)
    BY <1>1, <1>3 DEF Published
  <1> QED
    BY <1>2, <1>3

LEMMA OneBounded ==
    ASSUME Bounded, NEW b \in Browsers, NEW w, stream' = [stream EXCEPT ![b] = w], Len(w.queue) <= MaxQueue
    PROVE  Bounded'
    BY DEF Bounded

LEMMA ClosedBounded == Len(Closed.queue) <= MaxQueue
    BY Constants DEF Closed

LEMMA BoundedNext == ASSUME StreamInv, Bounded, [Next]_vars PROVE Bounded'
  <1>1. ASSUME UNCHANGED stream PROVE Bounded'
    BY <1>1 DEF Bounded
  <1>2. ASSUME Commit \/ Sign \/ Break \/ UNCHANGED vars PROVE UNCHANGED stream
    BY <1>2 DEF Commit, Sign, Break, vars, overview
  <1>3. ASSUME Notify \/ NoticeBreak \/ Relisten PROVE Bounded'
    <2>1. \E topic \in Topics : stream' = Published(topic)
      BY <1>3 DEF Notify, NoticeBreak, Relisten, StreamInv, Topics
    <2> QED
      BY <2>1, PublishedBounded
  <1>4. ASSUME NEW b \in Browsers, Flush(b) \/ Fallback(b) \/ Read(b) \/ Show(b) \/ Retry(b)
               \/ Arrive(b) \/ ClickRefresh(b) \/ LoadFails(b) \/ Reveal(b)
        PROVE  UNCHANGED stream
    BY <1>4 DEF Flush, Fallback, Read, Show, Retry, Arrive, ClickRefresh, LoadFails, Reveal, Changes
  <1>5. ASSUME NEW b \in Browsers, Remint(b) \/ Cut(b) \/ Hide(b) PROVE Bounded'
    <2>1. stream' = stream \/ stream' = [stream EXCEPT ![b] = Closed]
      BY <1>5 DEF Remint, Cut, Hide
    <2> QED
      BY <1>1, <2>1, ClosedBounded, OneBounded
  <1>6. ASSUME NEW b \in Browsers, ServerStep(b) PROVE Bounded'
    <2>1. stream[b] \in StreamRec /\ stream[b].queue \in Seq(Topics) /\ Len(stream[b].queue) <= MaxQueue
          /\ stream \in [Browsers -> StreamRec]
      BY DEF StreamInv, StreamRec, Bounded
    <2>2. PICK w : stream' = [stream EXCEPT ![b] = w] /\ Len(w.queue) <= MaxQueue
      <3>1. CASE Authenticate(b)
        <4> DEFINE v == [Closed EXCEPT !.step = "checked", !.claims = jar[b].bearer]
        <4>1. Len(v.queue) <= MaxQueue
          BY ClosedBounded DEF Closed
        <4>2. stream' = [stream EXCEPT ![b] = v]
          BY <3>1 DEF Authenticate
        <4> HIDE DEF v
        <4> QED
          BY <4>1, <4>2
      <3>2. CASE Subscribe(b)
        <4> DEFINE v == [stream[b] EXCEPT !.step = "greet", !.fresh = Usable(stream[b].claims)]
        <4>1. Len(v.queue) <= MaxQueue
          BY <2>1 DEF StreamRec
        <4>2. stream' = [stream EXCEPT ![b] = Closed] \/ stream' = [stream EXCEPT ![b] = v]
          BY <3>2 DEF Subscribe
        <4> HIDE DEF v
        <4> QED
          BY <4>1, <4>2, ClosedBounded
      <3>3. CASE Greet(b)
        <4> DEFINE q == Append(stream[b].queue, "health")
                   v == [stream[b] EXCEPT !.step = "open", !.queue = q]
        <4>1. \/ stream' = [stream EXCEPT ![b] = Closed]
              \/ stream' = [stream EXCEPT ![b] = v] /\ ~ (Len(stream[b].queue) >= MaxQueue)
          BY <3>3 DEF Greet, StreamInv
        <4>2. Len(q) = Len(stream[b].queue) + 1 /\ Len(stream[b].queue) \in Nat
          BY <2>1
        <4>3. v.queue = q
          BY <2>1 DEF StreamRec
        <4> HIDE DEF q, v
        <4>4. ~ (Len(stream[b].queue) >= MaxQueue) => Len(v.queue) <= MaxQueue
          BY <4>2, <4>3, Constants
        <4> QED
          BY <4>1, <4>4, ClosedBounded
      <3>4. CASE Take(b)
        <4> DEFINE q == Tail(stream[b].queue)
                   v == [stream[b] EXCEPT !.step = "nap", !.topics = {Head(stream[b].queue)}, !.queue = q]
        <4>1. stream' = [stream EXCEPT ![b] = v] /\ stream[b].queue # <<>>
          BY <3>4 DEF Take, StreamInv
        <4>2. Len(q) = Len(stream[b].queue) - 1 /\ Len(stream[b].queue) \in Nat
          BY <2>1, <4>1
        <4>3. v.queue = q
          BY <2>1 DEF StreamRec
        <4> HIDE DEF q, v
        <4>4. Len(v.queue) <= MaxQueue
          BY <2>1, <4>2, <4>3, Constants
        <4> QED
          BY <4>1, <4>4
      <3>5. CASE Drain(b)
        <4> DEFINE v == [stream[b] EXCEPT !.step = "open", !.queue = <<>>, !.topics = {}]
        <4>1. stream' = [stream EXCEPT ![b] = Closed] \/ stream' = [stream EXCEPT ![b] = v]
          BY <2>1, <3>5 DEF Drain
        <4>2. v.queue = <<>>
          BY <2>1 DEF StreamRec
        <4> HIDE DEF v
        <4>3. Len(v.queue) <= MaxQueue
          BY <4>2, Constants
        <4> QED
          BY <4>1, <4>3, ClosedBounded
      <3> QED
        BY <1>6, <3>1, <3>2, <3>3, <3>4, <3>5 DEF ServerStep
    <2> QED
      BY <2>2, OneBounded
  <1> QED
    BY <1>1, <1>2, <1>3, <1>4, <1>5, <1>6 DEF Next, PageStep

\* Accounts, tokens, requests, streams and pages keep their types, and no
\* queue of a stream holds more than MaxQueue events.
THEOREM OverviewTypeCorrect == Spec => []TypeOK
  <1>1. Init => SignInv /\ StreamInv /\ Pages /\ Bounded
    <2>1. ASSUME Init PROVE Pages
      BY <2>1, NewPageType DEF Init, Pages
    <2>2. ASSUME Init PROVE Bounded
      BY <2>2, ClosedBounded DEF Init, Bounded
    <2> QED
      BY <2>1, <2>2, InitSigns, InitStreams
  <1>2. SignInv /\ StreamInv /\ Pages /\ Bounded /\ [Next]_vars => (SignInv /\ StreamInv /\ Pages /\ Bounded)'
    BY SignStep, StreamStep, PagesNext, BoundedNext
  <1>3. SignInv /\ StreamInv /\ Pages /\ Bounded => TypeOK
    <2> SUFFICES ASSUME SignInv, StreamInv, Pages, Bounded PROVE TypeOK
      OBVIOUS
    <2>1. SessionsTypeOK
      BY EntryTypes DEF SessionsTypeOK, SignInv, TableOK
    <2>2. \A b \in Browsers : stream[b] \in StreamRec /\ page[b] \in PageRec
      BY DEF StreamInv, Pages
    <2>3. \A b \in Browsers :
            /\ stream[b].step \in {"off", "checked", "greet", "open", "nap"}
            /\ stream[b].claims \in Token \cup {None}
            /\ stream[b].queue \in Seq(Topics) /\ Len(stream[b].queue) <= MaxQueue
            /\ stream[b].topics \subseteq Topics
      BY <2>2 DEF StreamRec, Bounded
    <2> QED
      BY <2>1, <2>2, <2>3 DEF TypeOK, StreamInv, Pages, PageRec
  <1> QED
    BY <1>1, <1>2, <1>3, PTL DEF Spec

-----------------------------------------------------------------------------
(***************************************************************************)
(* Who is signed in (Sessions.tla): an account is signed in at one place,  *)
(* and a sign-out is final, whatever requests and answers overtake one     *)
(* another.  Tokens are followed through everything that still could put   *)
(* one into a browser: what it holds, what its requests sent, the user     *)
(* they were handled for and what their answers set.                       *)
(***************************************************************************)

SignsIn == {"login", "apilogin"}

\* Accounts browser b can get a token of in scenario s.
SignsInAs(s, b) ==
    {u \in Users : \/ u = s.signedIn[b]
                   \/ \E r \in Requests : /\ s.sends[r].from = b /\ s.sends[r].kind \in SignsIn
                                          /\ u = s.sends[r].user}

\* A name that is deleted and given away again is not one anybody signs in
\* with: insert_user starts session_generation at 0 again, under which the
\* tokens of the deleted account count once more.
NamesNotReused ==
    \A s \in Scenarios : \A q, r \in Requests :
        s.sends[q].kind = "add" /\ s.sends[r].kind = "delete" /\ s.sends[q].user = s.sends[r].user
        => \A b \in Browsers : s.sends[r].user \notin SignsInAs(s, b)

\* No account starts signed in twice, and a browser that is locked when idle
\* has its accounts to itself: a resumed session keeps the generation.
OnePlaceEach ==
    \A s \in Scenarios : \A b, c \in Browsers : b # c =>
        /\ s.signedIn[b] = s.signedIn[c] => s.signedIn[b] = None
        /\ (\E r \in Requests : s.sends[r].from = b /\ s.sends[r].kind = "lock")
           => SignsInAs(s, b) \cap SignsInAs(s, c) = {}

\* The user a request was handled for can still become a cookie.
Passing(r) ==
    \/ req[r].step \in {"plain", "answer", "guard", "erase", "insert", "check"}
    \/ req[r].step = "bump" /\ Kind(r) \notin SignsIn

\* Tokens that are, or can come to be, in browser b.
Carried(r) ==
    {req[r].held.cookie, req[r].held.bearer, req[r].cookie, req[r].bearer}
      \cup (IF Passing(r) THEN {req[r].me} ELSE {})
Mine(b) == {r \in Requests : sends[r].from = b}
Wallet(b) == {jar[b].cookie, jar[b].bearer} \cup UNION {Carried(r) : r \in Mine(b)}
Holds(b, u, g) == \E t \in Wallet(b) \cap Token : t.user = u /\ t.gen = g

\* The same for the account a locked browser signs in again.
Locks(b) == {jar[b].lock} \cup UNION {{req[r].held.lock, req[r].lock} : r \in Mine(b)}

\* The steps each kind of request takes, and whom a sign-in or sign-out is for.
RequestOK(s, r) ==
    /\ req[r].step \in {"guard", "erase"} => Kind(r) = "delete"
    /\ req[r].step = "insert" => Kind(r) = "add"
    /\ req[r].step = "verify" => Kind(r) \in SignsIn
    /\ req[r].step = "answer" => Kind(r) \notin SignsIn
    /\ req[r].step = "bump" => req[r].me.user \in SignsInAs(s, sends[r].from)

\* Nothing turns up in a browser but tokens of the accounts it signs in to,
\* and only a browser that locks is ever locked.
OwnTokens(s) == \A b \in Browsers : \A t \in Wallet(b) \cap Token : t.user \in SignsInAs(s, b)
OwnLocks(s) ==
    \A b \in Browsers : \A u \in Locks(b) \cap Users :
        u \in SignsInAs(s, b) /\ \E r \in Mine(b) : Kind(r) = "lock"

Deleted(u) == \E r \in Requests : Kind(r) = "delete" /\ sends[r].user = u

\* No token is ahead of its account, and one without an account had one.
Behind ==
    \A b \in Browsers : \A t \in Wallet(b) \cap Token :
        IF Exists(t.user) THEN t.gen <= accounts[t.user].gen ELSE Deleted(t.user)

\* Tokens of a signed-out account belong to an earlier generation.
Outdated ==
    \A b \in Browsers : \A t \in Wallet(b) \cap Token :
        t.user \in ended /\ Exists(t.user) => t.gen # accounts[t.user].gen

\* The current generation of an account is in one browser.
Alone ==
    \A b, c \in Browsers : b # c =>
        \A t \in Wallet(b) \cap Token, w \in Wallet(c) \cap Token :
            t.user = w.user /\ Exists(t.user) =>
                ~ (t.gen = accounts[t.user].gen /\ w.gen = accounts[t.user].gen)

TokenInv(s) ==
    /\ sends = s.sends
    /\ \A r \in Requests : RequestOK(s, r)
    /\ OwnTokens(s) /\ OwnLocks(s)
    /\ Behind /\ Outdated

-----------------------------------------------------------------------------
(* What a step does to tokens: it copies some within a browser, or issues  *)
(* new ones under the current generation, for the pairs of browser and     *)
(* account in the set fresh.                                               *)

Copy(b, t) == \E w \in Wallet(b) \cap Token : w.user = t.user /\ w.gen = t.gen

Issues(fresh) ==
    \A b \in Browsers : \A t \in Wallet(b)' \cap Token :
        \/ Copy(b, t)
        \/ <<b, t.user>> \in fresh /\ Exists(t.user)' /\ t.gen = accounts'[t.user].gen

\* A browser to which a token of u is issued is signed in to u alone.
Granted(s, b, u) ==
    /\ u \in SignsInAs(s, b) /\ u \notin ended'
    /\ OnePlaceEach => \A c \in Browsers \ {b} : \A w \in Wallet(c) \cap Token :
                          w.user = u => w.gen < accounts'[u].gen

\* What becomes of account v: its number does not fall, it is deleted, or it
\* is new and nobody has tokens of it.
Evolves(v) ==
    \/ /\ Exists(v)' = Exists(v) /\ accounts'[v].gen >= accounts[v].gen
       /\ v \in ended' => v \in ended \/ accounts'[v].gen > accounts[v].gen
    \/ ~ Exists(v)' /\ Deleted(v)
    \/ \A b \in Browsers : \A t \in Wallet(b) \cap Token : t.user # v

LEMMA TokensMove ==
    ASSUME SignInv, SignInv', NEW s \in Scenarios, TokenInv(s), UNCHANGED sends,
           NEW fresh, Issues(fresh), \A v \in Users : Evolves(v),
           \A b \in Browsers, u \in Users : <<b, u>> \in fresh => Granted(s, b, u),
           \A b, c \in Browsers, u \in Users : <<b, u>> \in fresh /\ <<c, u>> \in fresh => b = c,
           \A r \in Requests : RequestOK(s, r)', OwnLocks(s)'
    PROVE  TokenInv(s)' /\ (OnePlaceEach /\ Alone => Alone')
  <1>1. \A t \in Token : t.user \in Users /\ t.gen \in Nat
    BY DEF Token
  <1>2. \A u \in Users : accounts[u].gen \in Nat /\ accounts'[u].gen \in Nat
    BY DEF SignInv, TableOK, Account
  <1>3. \A u : Deleted(u)' = Deleted(u)
    BY DEF Deleted, Kind
  <1>4. ASSUME NEW b \in Browsers, NEW t \in Wallet(b)' \cap Token, Copy(b, t)
        PROVE  /\ t.user \in SignsInAs(s, b)
               /\ IF Exists(t.user)' THEN t.gen <= accounts'[t.user].gen ELSE Deleted(t.user)
               /\ t.user \in ended' /\ Exists(t.user)' => t.gen # accounts'[t.user].gen
    <2>1. PICK w \in Wallet(b) \cap Token : w.user = t.user /\ w.gen = t.gen
      BY <1>4 DEF Copy
    <2>2. /\ t.user \in SignsInAs(s, b)
          /\ IF Exists(t.user) THEN t.gen <= accounts[t.user].gen ELSE Deleted(t.user)
          /\ t.user \in ended /\ Exists(t.user) => t.gen # accounts[t.user].gen
      BY <2>1 DEF TokenInv, OwnTokens, Behind, Outdated
    <2>3. t.user \in Users /\ Evolves(t.user) /\ t.gen \in Nat
      BY <1>1
    <2>4. CASE /\ Exists(t.user)' = Exists(t.user) /\ accounts'[t.user].gen >= accounts[t.user].gen
               /\ t.user \in ended' => t.user \in ended \/ accounts'[t.user].gen > accounts[t.user].gen
      <3> DEFINE n == accounts[t.user].gen
                 m == accounts'[t.user].gen
      <3>1. n \in Nat /\ m \in Nat
        BY <1>2, <2>3
      <3> HIDE DEF n, m
      <3>2. Exists(t.user) => t.gen <= n /\ (t.user \in ended => t.gen # n)
        BY <2>2 DEF n
      <3>3. Exists(t.user)' => t.gen <= m
        BY <2>3, <2>4, <3>1, <3>2 DEF n, m
      <3>4. t.user \in ended' /\ Exists(t.user)' => t.gen # m
        BY <2>3, <2>4, <3>1, <3>2 DEF n, m
      <3> QED
        BY <2>2, <2>4, <3>3, <3>4 DEF m
    <2>5. CASE ~ Exists(t.user)' /\ Deleted(t.user)
      BY <2>2, <2>5
    <2>6. CASE \A c \in Browsers : \A x \in Wallet(c) \cap Token : x.user # t.user
      BY <2>1, <2>6
    <2> QED
      BY <2>3, <2>4, <2>5, <2>6 DEF Evolves
  <1>5. ASSUME NEW b \in Browsers, NEW t \in Wallet(b)' \cap Token
        PROVE  /\ t.user \in SignsInAs(s, b)
               /\ IF Exists(t.user)' THEN t.gen <= accounts'[t.user].gen ELSE Deleted(t.user)
               /\ t.user \in ended' /\ Exists(t.user)' => t.gen # accounts'[t.user].gen
    <2>1. CASE Copy(b, t)
      BY <1>4, <2>1
    <2>2. CASE <<b, t.user>> \in fresh /\ Exists(t.user)' /\ t.gen = accounts'[t.user].gen
      BY <1>1, <1>2, <2>2 DEF Granted
    <2> QED
      BY <2>1, <2>2 DEF Issues
  <1>6. OwnTokens(s)' /\ Behind' /\ Outdated'
    BY <1>3, <1>5 DEF OwnTokens, Behind, Outdated
  <1>7. ASSUME OnePlaceEach, Alone, NEW b \in Browsers, NEW c \in Browsers, b # c,
               NEW t \in Wallet(b)' \cap Token, NEW w \in Wallet(c)' \cap Token,
               t.user = w.user, Exists(t.user)', t.gen = accounts'[t.user].gen,
               w.gen = accounts'[t.user].gen, Copy(b, t)
        PROVE  FALSE
    <2> DEFINE u == t.user
               n == accounts[u].gen
               m == accounts'[u].gen
    <2>1. u \in Users /\ n \in Nat /\ m \in Nat
      BY <1>1, <1>2
    <2>2. PICK x \in Wallet(b) \cap Token : x.user = u /\ x.gen = m
      BY <1>7 DEF Copy
    <2>3. CASE Copy(c, w)
      <3>1. PICK y \in Wallet(c) \cap Token : y.user = u /\ y.gen = m
        BY <1>7, <2>3 DEF Copy
      <3>2. Exists(u)' = Exists(u) /\ m >= n
        BY <1>7, <2>1, <2>2 DEF Evolves
      <3>3. m <= n
        BY <1>7, <2>2, <3>2 DEF TokenInv, Behind
      <3>4. m = n
        BY <2>1, <3>2, <3>3
      <3> QED
        BY <1>7, <2>2, <3>1, <3>2, <3>4 DEF Alone
    <2>4. CASE <<c, w.user>> \in fresh
      <3>1. x.gen < m
        BY <1>7, <2>1, <2>2, <2>4 DEF Granted
      <3> QED
        BY <2>1, <2>2, <3>1
    <2> QED
      BY <2>3, <2>4 DEF Issues
  <1>8. ASSUME OnePlaceEach, Alone PROVE Alone'
    <2> SUFFICES ASSUME NEW b \in Browsers, NEW c \in Browsers, b # c,
                        NEW t \in Wallet(b)' \cap Token, NEW w \in Wallet(c)' \cap Token,
                        t.user = w.user, Exists(t.user)', t.gen = accounts'[t.user].gen,
                        w.gen = accounts'[t.user].gen
                 PROVE  FALSE
      BY DEF Alone
    <2>1. CASE Copy(b, t)
      BY <1>7, <1>8, <2>1
    <2>2. CASE Copy(c, w)
      BY <1>7, <1>8, <2>2
    <2>3. CASE <<b, t.user>> \in fresh /\ <<c, w.user>> \in fresh
      BY <1>1, <2>3
    <2> QED
      BY <2>1, <2>2, <2>3 DEF Issues
  <1> QED
    BY <1>6, <1>8 DEF TokenInv

-----------------------------------------------------------------------------
(* Steps of one request.                                                   *)

TokensKept(s) == TokenInv(s)' /\ (OnePlaceEach /\ Alone => Alone')

OnlyRequest(r) == UNCHANGED <<sends, jar>> /\ \A q \in Requests : q # r => req'[q] = req[q]

\* Accounts whose existence and number stay as they are.
SameAccounts == \A v \in Users : Exists(v)' = Exists(v) /\ accounts'[v].gen = accounts[v].gen

LEMMA SameEvolve ==
    ASSUME SignInv, SameAccounts, ended' \subseteq ended
    PROVE  \A v \in Users : Evolves(v)
  <1>1. \A v \in Users : accounts[v].gen \in Nat
    BY DEF SignInv, TableOK, Account
  <1> QED
    BY <1>1 DEF SameAccounts, Evolves

LEMMA NotTokens == None \notin Token /\ Keep \notin Token /\ Drop \notin Token
                   /\ None \notin Users /\ Keep \notin Users /\ Drop \notin Users
    BY SessionsAssumption

LEMMA OthersCarry ==
    ASSUME NEW r \in Requests, OnlyRequest(r)
    PROVE  /\ \A b \in Browsers : Mine(b)' = Mine(b)
           /\ \A q \in Requests : q # r => Carried(q)' = Carried(q)
           /\ \A b \in Browsers : b # sends[r].from => Wallet(b)' = Wallet(b) /\ Locks(b)' = Locks(b)
           /\ \A b \in Browsers : b = sends[r].from =>
                 /\ Wallet(b)' \subseteq Wallet(b) \cup Carried(r)'
                 /\ Locks(b)' \subseteq Locks(b) \cup {req'[r].held.lock, req'[r].lock}
  <1>1. \A b \in Browsers : Mine(b)' = Mine(b)
    BY DEF OnlyRequest, Mine
  <1>2. \A q \in Requests : q # r => Carried(q)' = Carried(q)
    BY DEF OnlyRequest, Carried, Passing, Kind
  <1>3. \A b \in Browsers : b # sends[r].from => r \notin Mine(b)
    BY DEF Mine
  <1>4. \A b \in Browsers : \A q \in Mine(b) : q \in Requests
    BY DEF Mine
  <1>5. \A b : jar'[b] = jar[b]
    BY DEF OnlyRequest
  <1>6. \A q \in Requests : q # r => {req[q].held.lock, req[q].lock}' = {req[q].held.lock, req[q].lock}
    BY DEF OnlyRequest
  <1>7. ASSUME NEW b \in Browsers, b # sends[r].from
        PROVE  Wallet(b)' = Wallet(b) /\ Locks(b)' = Locks(b)
    <2>1. \A q \in Mine(b) : q \in Requests /\ q # r
      BY <1>3, <1>4, <1>7
    <2>2. UNION {Carried(q)' : q \in Mine(b)'} = UNION {Carried(q) : q \in Mine(b)}
      BY <1>1, <1>2, <2>1
    <2>3. UNION {{req'[q].held.lock, req'[q].lock} : q \in Mine(b)'}
            = UNION {{req[q].held.lock, req[q].lock} : q \in Mine(b)}
      BY <1>1, <1>6, <2>1
    <2> QED
      BY <1>5, <2>2, <2>3 DEF Wallet, Locks
  <1>8. ASSUME NEW b \in Browsers, b = sends[r].from
        PROVE  /\ Wallet(b)' \subseteq Wallet(b) \cup Carried(r)'
               /\ Locks(b)' \subseteq Locks(b) \cup {req'[r].held.lock, req'[r].lock}
    <2>1. ASSUME NEW x \in Wallet(b)' PROVE x \in Wallet(b) \cup Carried(r)'
      <3>1. x \in {jar[b].cookie, jar[b].bearer} \/ \E q \in Mine(b) : x \in Carried(q)'
        BY <1>1, <1>5, <2>1 DEF Wallet
      <3> QED
        BY <1>2, <1>4, <3>1 DEF Wallet
    <2>2. ASSUME NEW x \in Locks(b)' PROVE x \in Locks(b) \cup {req'[r].held.lock, req'[r].lock}
      <3>1. x = jar[b].lock \/ \E q \in Mine(b) : x \in {req'[q].held.lock, req'[q].lock}
        BY <1>1, <1>5, <2>2 DEF Locks
      <3> QED
        BY <1>4, <1>6, <3>1 DEF Locks
    <2> QED
      BY <2>1, <2>2
  <1> QED
    BY <1>1, <1>2, <1>7, <1>8

LEMMA OwnWallet ==
    ASSUME SendsOK, NEW r \in Requests
    PROVE  /\ sends[r].from \in Browsers
           /\ r \in Mine(sends[r].from) /\ Carried(r) \subseteq Wallet(sends[r].from)
           /\ {req[r].held.lock, req[r].lock} \subseteq Locks(sends[r].from)
           /\ {jar[sends[r].from].cookie, jar[sends[r].from].bearer} \subseteq Wallet(sends[r].from)
           /\ jar[sends[r].from].lock \in Locks(sends[r].from)
  <1> DEFINE d == sends[r].from
  <1>1. d \in Browsers /\ r \in Mine(d)
    BY DEF SendsOK, Mine
  <1> HIDE DEF d
  <1> QED
    BY <1>1 DEF Wallet, Locks, d

\* A step after which request r may have tokens that are new in its browser:
\* copies of others there, and ones of the accounts in fresh.
LEMMA RequestMoves ==
    ASSUME SignInv, SignInv', NEW s \in Scenarios, TokenInv(s), NEW r \in Requests, OnlyRequest(r),
           NEW fresh \in SUBSET Users,
           \A t \in Carried(r)' \cap Token :
              \/ Copy(sends[r].from, t)
              \/ t.user \in fresh /\ Exists(t.user)' /\ t.gen = accounts'[t.user].gen,
           \A u \in fresh : Granted(s, sends[r].from, u),
           \A v \in Users : Evolves(v),
           \A u \in {req'[r].held.lock, req'[r].lock} \cap Users :
              u \in Locks(sends[r].from) \/ (Kind(r) = "lock" /\ u \in SignsInAs(s, sends[r].from)),
           RequestOK(s, r)'
    PROVE  TokensKept(s)
  <1> DEFINE d == sends[r].from
             pairs == {d} \X fresh
  <1>1. UNCHANGED sends
    BY DEF OnlyRequest
  <1>2. d \in Browsers /\ r \in Mine(d)
    BY OwnWallet DEF SignInv
  <1>3. Issues(pairs)
    <2> SUFFICES ASSUME NEW b \in Browsers, NEW t \in Wallet(b)' \cap Token
                 PROVE  \/ Copy(b, t)
                        \/ <<b, t.user>> \in pairs /\ Exists(t.user)' /\ t.gen = accounts'[t.user].gen
      BY DEF Issues
    <2>1. CASE t \in Wallet(b)
      BY <2>1 DEF Copy
    <2>2. CASE t \notin Wallet(b)
      <3>1. b = d
        BY <2>2, OthersCarry DEF d
      <3>2. t \in Carried(r)'
        BY <2>2, <3>1, OthersCarry DEF d
      <3> QED
        BY <3>1, <3>2
    <2> QED
      BY <2>1, <2>2
  <1>4. \A b \in Browsers, u \in Users : <<b, u>> \in pairs => Granted(s, b, u)
    OBVIOUS
  <1>5. \A b, c \in Browsers, u \in Users : <<b, u>> \in pairs /\ <<c, u>> \in pairs => b = c
    OBVIOUS
  <1>6. \A q \in Requests : RequestOK(s, q)'
    BY DEF OnlyRequest, RequestOK, Kind, TokenInv
  <1>7. OwnLocks(s)'
    <2> SUFFICES ASSUME NEW b \in Browsers, NEW u \in Locks(b)' \cap Users
                 PROVE  u \in SignsInAs(s, b) /\ \E q \in Mine(b) : Kind(q) = "lock"
      <3>1. \A b \in Browsers : Mine(b)' = Mine(b)
        BY OthersCarry
      <3>2. \A q \in Requests : Kind(q)' = Kind(q)
        BY DEF OnlyRequest, Kind
      <3> QED
        BY <3>1, <3>2 DEF OwnLocks, Mine
    <2>1. CASE u \in Locks(b)
      BY <2>1 DEF TokenInv, OwnLocks
    <2>2. CASE u \notin Locks(b)
      <3>1. b = d
        BY <2>2, OthersCarry DEF d
      <3>2. u \in {req'[r].held.lock, req'[r].lock}
        BY <2>2, <3>1, OthersCarry DEF d
      <3> QED
        BY <1>2, <2>2, <3>1, <3>2
    <2> QED
      BY <2>1, <2>2
  <1> HIDE DEF d, pairs
  <1> QED
    BY <1>1, <1>3, <1>4, <1>5, <1>6, <1>7, TokensMove DEF TokensKept

\* An answer that carries what the browser had already.
LEMMA AnswerKeeps ==
    ASSUME SignInv, SignInv', NEW s \in Scenarios, TokenInv(s), NEW r \in Requests, OnlyRequest(r),
           NEW user, NEW cookie, NEW bearer, NEW lock, Answer(r, user, cookie, bearer, lock),
           {cookie, bearer} \cap Token \subseteq Wallet(sends[r].from),
           lock \in Users => Kind(r) = "lock" /\ lock \in SignsInAs(s, sends[r].from),
           \A v \in Users : Evolves(v)
    PROVE  TokensKept(s)
  <1> DEFINE d == sends[r].from
  <1>1. req'[r] = [req[r] EXCEPT !.step = "answered", !.me = user, !.cookie = cookie,
                                 !.bearer = bearer, !.lock = lock]
    BY DEF Answer, SignInv, RequestsOK
  <1>2. req[r] \in Entry
    BY DEF SignInv, RequestsOK
  <1>3. /\ req'[r].step = "answered" /\ req'[r].cookie = cookie /\ req'[r].bearer = bearer
        /\ req'[r].lock = lock /\ req'[r].held = req[r].held
    BY <1>1, <1>2 DEF Entry
  <1>4. Carried(r)' = {req[r].held.cookie, req[r].held.bearer, cookie, bearer}
    BY <1>3 DEF Carried, Passing
  <1>5. Carried(r)' \cap Token \subseteq Wallet(d)
    <2>1. {req[r].held.cookie, req[r].held.bearer} \subseteq Carried(r)
      BY DEF Carried
    <2>2. Carried(r) \subseteq Wallet(d)
      BY OwnWallet DEF SignInv
    <2> QED
      BY <1>4, <2>1, <2>2
  <1>6. \A t \in Carried(r)' \cap Token : Copy(d, t)
    BY <1>5 DEF Copy
  <1>7. \A u \in {req'[r].held.lock, req'[r].lock} \cap Users :
           u \in Locks(d) \/ (Kind(r) = "lock" /\ u \in SignsInAs(s, d))
    BY <1>3, OwnWallet DEF SignInv
  <1>8. RequestOK(s, r)'
    BY <1>3 DEF RequestOK
  <1> HIDE DEF d
  <1> DEFINE none == {}
  <1>9. none \in SUBSET Users /\ \A u \in none : Granted(s, d, u)
    OBVIOUS
  <1> HIDE DEF none
  <1> QED
    BY <1>6, <1>7, <1>8, <1>9, RequestMoves DEF d

\* A request that goes on to a step after which its user is of no more use.
LEMMA GoKeeps ==
    ASSUME SignInv, SignInv', NEW s \in Scenarios, TokenInv(s), NEW r \in Requests, OnlyRequest(r),
           NEW p, Go(r, p), RequestOK(s, r)', Passing(r)' => Passing(r), \A v \in Users : Evolves(v)
    PROVE  TokensKept(s)
  <1> DEFINE d == sends[r].from
  <1>1. /\ req'[r].me = req[r].me /\ req'[r].held = req[r].held /\ req'[r].cookie = req[r].cookie
        /\ req'[r].bearer = req[r].bearer /\ req'[r].lock = req[r].lock
    BY DEF Go, SignInv, RequestsOK, Entry
  <1>2. Carried(r)' \subseteq Carried(r)
    BY <1>1 DEF Carried
  <1>3. \A t \in Carried(r)' \cap Token : Copy(d, t)
    BY <1>2, OwnWallet DEF Copy, SignInv
  <1>4. \A u \in {req'[r].held.lock, req'[r].lock} \cap Users : u \in Locks(d)
    BY <1>1, OwnWallet DEF SignInv
  <1> HIDE DEF d
  <1> DEFINE none == {}
  <1>5. none \in SUBSET Users /\ \A u \in none : Granted(s, d, u)
    OBVIOUS
  <1> HIDE DEF none
  <1> QED
    BY <1>3, <1>4, <1>5, RequestMoves DEF d

\* The user a request is handled for, while that may become a cookie.
LEMMA PassingUser ==
    ASSUME SignInv, NEW r \in Requests, Passing(r)
    PROVE  req[r].me \in Wallet(sends[r].from)
  <1>1. req[r].me \in Carried(r)
    BY DEF Carried
  <1> QED
    BY <1>1, OwnWallet DEF SignInv

LEMMA StillEvolve ==
    ASSUME SignInv, accounts' = accounts, ended' \subseteq ended
    PROVE  \A v \in Users : Evolves(v)
  <1>1. SameAccounts
    BY DEF SameAccounts, Exists
  <1> QED
    BY <1>1, SameEvolve

LEMMA PlainKeeps ==
    ASSUME SignInv, SignInv', NEW s \in Scenarios, TokenInv(s), NEW r \in Requests, Plain(r), UNCHANGED sends
    PROVE  TokensKept(s)
  <1>1. req[r].step = "plain" /\ UNCHANGED <<accounts, jar, ended>>
    BY DEF Plain
  <1>2. OnlyRequest(r)
    BY <1>1 DEF OnlyRequest, Plain, Answer, SignInv, RequestsOK
  <1> DEFINE bearer == IF Kind(r) = "mint" THEN Drop ELSE Keep
  <1>3. Answer(r, req[r].me, Refreshed(r), bearer, Keep)
    BY DEF Plain
  <1>4. {Refreshed(r), bearer} \cap Token \subseteq Wallet(sends[r].from)
    BY <1>1, PassingUser, NotTokens DEF Passing, Refreshed
  <1>5. Keep \notin Users
    BY NotTokens
  <1>6. \A v \in Users : Evolves(v)
    BY <1>1, StillEvolve
  <1> HIDE DEF bearer
  <1> QED
    BY <1>2, <1>3, <1>4, <1>5, <1>6, AnswerKeeps

LEMMA ServeKeeps ==
    ASSUME SignInv, SignInv', NEW s \in Scenarios, TokenInv(s), NEW r \in Requests, Serve(r), UNCHANGED sends
    PROVE  TokensKept(s)
  <1>1. req[r].step = "answer" /\ UNCHANGED <<accounts, jar, ended>>
    BY DEF Serve
  <1>2. OnlyRequest(r)
    BY <1>1 DEF OnlyRequest, Serve, Answer, SignInv, RequestsOK
  <1>3. {Refreshed(r), req[r].me} \cap Token \subseteq Wallet(sends[r].from)
    BY <1>1, PassingUser, NotTokens DEF Passing, Refreshed
  <1>4. Keep \notin Users /\ Drop \notin Users /\ Keep \notin Token /\ Drop \notin Token
    BY NotTokens
  <1>5. \A v \in Users : Evolves(v)
    BY <1>1, StillEvolve
  <1>6. CASE Kind(r) = "mint"
    <2>1. Answer(r, req[r].me, Refreshed(r), req[r].me, Keep)
      BY <1>6 DEF Serve
    <2> QED
      BY <1>2, <1>3, <1>4, <1>5, <2>1, AnswerKeeps
  <1>7. CASE Kind(r) = "lock"
    <2>1. Answer(r, req[r].me, Drop, Keep, req[r].me.user)
      BY <1>7 DEF Serve
    <2>2. req[r].me \in Token
      BY <1>1, <1>7 DEF SignInv, RequestsOK, NeedsUser
    <2>3. req[r].me.user \in SignsInAs(s, sends[r].from)
      BY <1>1, <2>2, PassingUser, OwnWallet DEF Passing, TokenInv, OwnTokens, SignInv
    <2>4. {Drop, Keep} \cap Token \subseteq Wallet(sends[r].from)
      BY <1>4
    <2> QED
      BY <1>2, <1>5, <1>7, <2>1, <2>3, <2>4, AnswerKeeps
  <1>8. CASE Kind(r) = "clear"
    <2>1. Answer(r, req[r].me, Refreshed(r), Keep, Drop)
      BY <1>8 DEF Serve
    <2>2. {Refreshed(r), Keep} \cap Token \subseteq Wallet(sends[r].from)
      BY <1>3, <1>4
    <2> QED
      BY <1>2, <1>4, <1>5, <2>1, <2>2, AnswerKeeps
  <1>9. CASE Kind(r) \notin {"mint", "lock", "clear"}
    <2>1. Answer(r, req[r].me, Refreshed(r), Keep, Keep)
      BY <1>9 DEF Serve
    <2>2. {Refreshed(r), Keep} \cap Token \subseteq Wallet(sends[r].from)
      BY <1>3, <1>4
    <2> QED
      BY <1>2, <1>4, <1>5, <2>1, <2>2, AnswerKeeps
  <1> QED
    BY <1>6, <1>7, <1>8, <1>9

LEMMA SendKeeps ==
    ASSUME SignInv, SignInv', NEW s \in Scenarios, TokenInv(s), NEW r \in Requests, Send(r), UNCHANGED sends
    PROVE  TokensKept(s)
  <1> DEFINE d == sends[r].from
  <1>1. /\ UNCHANGED <<accounts, jar, ended>>
        /\ req' = [req EXCEPT ![r] = [req[r] EXCEPT !.step = "sent", !.held = jar[d]]]
    BY DEF Send
  <1>2. OnlyRequest(r)
    BY <1>1 DEF OnlyRequest, SignInv, RequestsOK
  <1>3. /\ req'[r].step = "sent" /\ req'[r].held = jar[d] /\ req'[r].cookie = req[r].cookie
        /\ req'[r].bearer = req[r].bearer /\ req'[r].lock = req[r].lock
    BY <1>1 DEF SignInv, RequestsOK, Entry
  <1>4. Carried(r)' = {jar[d].cookie, jar[d].bearer, req[r].cookie, req[r].bearer}
    BY <1>3 DEF Carried, Passing
  <1>5. {req[r].cookie, req[r].bearer} \subseteq Carried(r)
    BY DEF Carried
  <1>6. Carried(r)' \subseteq Wallet(d)
    BY <1>4, <1>5, OwnWallet DEF SignInv
  <1>7. \A t \in Carried(r)' \cap Token : Copy(d, t)
    BY <1>6 DEF Copy
  <1>8. \A u \in {req'[r].held.lock, req'[r].lock} \cap Users : u \in Locks(d)
    BY <1>3, OwnWallet DEF SignInv
  <1>9. RequestOK(s, r)'
    BY <1>3 DEF RequestOK
  <1>10. \A v \in Users : Evolves(v)
    BY <1>1, StillEvolve
  <1> HIDE DEF d
  <1> DEFINE none == {}
  <1>11. none \in SUBSET Users /\ \A u \in none : Granted(s, d, u)
    OBVIOUS
  <1> HIDE DEF none
  <1> QED
    BY <1>2, <1>7, <1>8, <1>9, <1>10, <1>11, RequestMoves DEF d

\* The user that is loaded is the one the cookie names, as the table has them.
LEMMA LoadedCopies ==
    ASSUME SignInv, NEW r \in Requests, Loaded(r) \in Token
    PROVE  Copy(sends[r].from, Loaded(r))
  <1> DEFINE t == req[r].held.cookie
             d == sends[r].from
  <1>1. Usable(t) /\ Loaded(r) = Signs(t.user)
    BY NotTokens DEF Loaded
  <1>2. t \in Token
    BY <1>1 DEF SignInv, RequestsOK, Entry, Holdings, Usable
  <1>3. t \in Wallet(d)
    BY OwnWallet DEF SignInv, Carried
  <1>4. t.user = Loaded(r).user /\ t.gen = Loaded(r).gen
    BY <1>1 DEF Signs, Usable
  <1> HIDE DEF t, d
  <1>5. Copy(d, Loaded(r))
    BY <1>2, <1>3, <1>4 DEF Copy
  <1> QED
    BY <1>5 DEF d

LEMMA BeginKeeps ==
    ASSUME SignInv, SignInv', NEW s \in Scenarios, TokenInv(s), NEW r \in Requests, Begin(r), UNCHANGED sends
    PROVE  TokensKept(s)
  <1> DEFINE d == sends[r].from
  <1>1. /\ UNCHANGED <<accounts, jar, ended>>
        /\ \E p \in {FirstStep(r), "plain"} :
              /\ req' = [req EXCEPT ![r] = [req[r] EXCEPT !.me = Loaded(r), !.step = p]]
              /\ p # "plain" => p = FirstStep(r) /\ ~ Rejected(r)
    BY DEF Begin
  <1>2. OnlyRequest(r)
    BY <1>1 DEF OnlyRequest, SignInv, RequestsOK
  <1>3. PICK p \in {FirstStep(r), "plain"} :
              /\ req' = [req EXCEPT ![r] = [req[r] EXCEPT !.me = Loaded(r), !.step = p]]
              /\ p # "plain" => p = FirstStep(r) /\ ~ Rejected(r)
    BY <1>1
  <1>4. /\ req'[r].step = p /\ req'[r].me = Loaded(r) /\ req'[r].held = req[r].held
        /\ req'[r].cookie = req[r].cookie /\ req'[r].bearer = req[r].bearer /\ req'[r].lock = req[r].lock
    BY <1>3 DEF SignInv, RequestsOK, Entry
  <1>5. Carried(r)' \subseteq Carried(r) \cup {Loaded(r)}
    BY <1>4 DEF Carried
  <1>6. Carried(r) \subseteq Wallet(d)
    BY OwnWallet DEF SignInv
  <1>7. \A t \in Carried(r)' \cap Token : Copy(d, t)
    <2> SUFFICES ASSUME NEW t \in Carried(r)' \cap Token PROVE Copy(d, t)
      OBVIOUS
    <2>1. CASE t = Loaded(r)
      BY <2>1, LoadedCopies
    <2>2. CASE t \in Wallet(d)
      BY <2>2 DEF Copy
    <2> QED
      BY <1>5, <1>6, <2>1, <2>2
  <1>8. \A u \in {req'[r].held.lock, req'[r].lock} \cap Users : u \in Locks(d)
    BY <1>4, OwnWallet DEF SignInv
  <1>9. RequestOK(s, r)'
    <2>1. Kind(r) \in Kinds /\ Kind(r)' = Kind(r) /\ sends'[r] = sends[r]
      BY DEF SignInv, SendsOK, Kind
    <2>2. CASE p = "bump"
      <3>1. Kind(r) = "logout" /\ ~ Rejected(r)
        BY <1>3, <2>1, <2>2 DEF FirstStep, Kinds
      <3>2. ~ sends[r].api
        BY <3>1 DEF SignInv, SendsOK
      <3>3. Loaded(r) # None
        BY <3>1, <3>2 DEF Rejected, Caller
      <3>4. Loaded(r) \in Token
        BY <3>3, LoadedType DEF SignInv
      <3>5. PICK w \in Wallet(d) \cap Token : w.user = Loaded(r).user
        BY <3>4, LoadedCopies DEF Copy
      <3>6. Loaded(r).user \in SignsInAs(s, d)
        BY <3>5, OwnWallet DEF TokenInv, OwnTokens, SignInv
      <3> QED
        BY <1>4, <2>1, <2>2, <3>6 DEF RequestOK
    <2>3. CASE p # "bump"
      <3>1. /\ p \in {"guard", "erase"} => Kind(r) = "delete"
            /\ p = "insert" => Kind(r) = "add"
            /\ p = "verify" => Kind(r) \in SignsIn
            /\ p = "answer" => Kind(r) \notin SignsIn
        BY <1>3, <2>1 DEF FirstStep, Kinds, SignsIn
      <3> QED
        BY <1>4, <2>1, <2>3, <3>1 DEF RequestOK
    <2> QED
      BY <2>2, <2>3
  <1>10. \A v \in Users : Evolves(v)
    BY <1>1, StillEvolve
  <1> HIDE DEF d
  <1> DEFINE none == {}
  <1>11. none \in SUBSET Users /\ \A u \in none : Granted(s, d, u)
    OBVIOUS
  <1> HIDE DEF none
  <1> QED
    BY <1>2, <1>7, <1>8, <1>9, <1>10, <1>11, RequestMoves DEF d

\* Whom a sign-in is for.
LEMMA ClaimedSignsIn ==
    ASSUME SignInv, NEW s \in Scenarios, TokenInv(s), NEW r \in Requests, Kind(r) \in SignsIn
    PROVE  /\ Claimed(r) \in SignsInAs(s, sends[r].from)
           /\ Resumes(r) => Claimed(r) \in Locks(sends[r].from)
  <1> DEFINE d == sends[r].from
  <1>1. CASE req[r].held.lock # None /\ Kind(r) = "login"
    <2>1. req[r].held.lock \in Users /\ Claimed(r) = req[r].held.lock
      BY <1>1 DEF SignInv, RequestsOK, Entry, Holdings, Claimed
    <2>2. req[r].held.lock \in Locks(d) /\ d \in Browsers
      BY OwnWallet DEF SignInv
    <2> QED
      BY <2>1, <2>2 DEF TokenInv, OwnLocks
  <1>2. CASE ~ (req[r].held.lock # None /\ Kind(r) = "login")
    <2>1. Claimed(r) = sends[r].user /\ ~ Resumes(r) /\ sends[r].user \in Users
      BY <1>2 DEF Claimed, Resumes, SignInv, SendsOK
    <2>2. sends[r].user \in SignsInAs(s, d)
      BY <2>1 DEF SignsInAs, Kind, TokenInv
    <2> QED
      BY <2>1, <2>2
  <1> QED
    BY <1>1, <1>2

\* A sign-in with the right password; a resumed session gets a cookie of the
\* current generation, which no other browser has tokens of.
LEMMA VerifyKeeps ==
    ASSUME SignInv, SignInv', NEW s \in Scenarios, TokenInv(s), NEW r \in Requests, Verify(r), UNCHANGED sends
    PROVE  TokensKept(s)
  <1> DEFINE d == sends[r].from
             u == Claimed(r)
  <1>1. req[r].step = "verify" /\ UNCHANGED <<accounts, jar>> /\ ended' \in {ended, ended \ {u}}
    BY DEF Verify
  <1>2. OnlyRequest(r)
    BY <1>1 DEF OnlyRequest, Verify, Answer, SignInv, RequestsOK
  <1>3. Kind(r) \in SignsIn
    BY <1>1 DEF TokenInv, RequestOK
  <1>4. u \in Users /\ u \in SignsInAs(s, d) /\ (Resumes(r) => u \in Locks(d))
    BY <1>3, ClaimedSignsIn DEF SignsInAs
  <1>5. \A v \in Users : Evolves(v)
    BY <1>1, StillEvolve
  <1>6. Keep \notin Users /\ Drop \notin Users /\ Keep \notin Token /\ Drop \notin Token
    BY NotTokens
  <1>7. CASE ~ Right(u, sends[r].pw)
    <2>1. Answer(r, None, Keep, Keep, Keep)
      BY <1>7 DEF Verify
    <2>2. {Keep, Keep} \cap Token \subseteq Wallet(d)
      BY <1>6
    <2> QED
      BY <1>2, <1>5, <1>6, <2>1, <2>2, AnswerKeeps
  <1>8. CASE Right(u, sends[r].pw) /\ ~ Resumes(r)
    <2>1. req' = [req EXCEPT ![r] = [req[r] EXCEPT !.step = "bump", !.me = Signs(u)]]
      BY <1>8 DEF Verify
    <2>2. /\ req'[r].step = "bump" /\ req'[r].me.user = u /\ req'[r].held = req[r].held
          /\ req'[r].cookie = req[r].cookie /\ req'[r].bearer = req[r].bearer /\ req'[r].lock = req[r].lock
      BY <2>1 DEF SignInv, RequestsOK, Entry, Signs
    <2>3. Kind(r)' = Kind(r) /\ sends'[r] = sends[r]
      BY DEF Kind
    <2>4. Carried(r)' \subseteq Carried(r)
      BY <1>3, <2>2, <2>3 DEF Carried, Passing
    <2>5. \A t \in Carried(r)' \cap Token : Copy(d, t)
      BY <2>4, OwnWallet DEF Copy, SignInv
    <2>6. \A v \in {req'[r].held.lock, req'[r].lock} \cap Users : v \in Locks(d)
      BY <2>2, OwnWallet DEF SignInv
    <2>7. RequestOK(s, r)'
      BY <1>3, <1>4, <2>2, <2>3 DEF RequestOK
    <2> HIDE DEF d, u
    <2> DEFINE none == {}
    <2>8. none \in SUBSET Users /\ \A v \in none : Granted(s, d, v)
      OBVIOUS
    <2> HIDE DEF none
    <2> QED
      BY <1>2, <1>5, <2>5, <2>6, <2>7, <2>8, RequestMoves DEF d
  <1>9. CASE Right(u, sends[r].pw) /\ Resumes(r)
    <2>1. Answer(r, None, Signs(u), Keep, Drop) /\ ended' = ended \ {u} /\ Exists(u)
      BY <1>9 DEF Verify, Right
    <2> HIDE DEF u
    <2>2. req'[r] = [req[r] EXCEPT !.step = "answered", !.me = None, !.cookie = Signs(u),
                                   !.bearer = Keep, !.lock = Drop]
      BY <2>1 DEF Answer, SignInv, RequestsOK
    <2>3. /\ req'[r].step = "answered" /\ req'[r].cookie = Signs(u) /\ req'[r].bearer = Keep
          /\ req'[r].lock = Drop /\ req'[r].held = req[r].held
      BY <2>2 DEF SignInv, RequestsOK, Entry
    <2>4. Carried(r)' = {req[r].held.cookie, req[r].held.bearer, Signs(u), Keep}
      BY <2>3 DEF Carried, Passing
    <2>5. {req[r].held.cookie, req[r].held.bearer} \subseteq Wallet(d)
      BY OwnWallet DEF SignInv, Carried
    <2>6. \A t \in Carried(r)' \cap Token :
             \/ Copy(d, t)
             \/ t.user \in {u} /\ Exists(t.user)' /\ t.gen = accounts'[t.user].gen
      <3> SUFFICES ASSUME NEW t \in Carried(r)' \cap Token
                   PROVE  \/ Copy(d, t)
                          \/ t.user \in {u} /\ Exists(t.user)' /\ t.gen = accounts'[t.user].gen
        OBVIOUS
      <3>1. CASE t = Signs(u)
        BY <1>1, <2>1, <3>1 DEF Signs, Exists
      <3>2. CASE t \in Wallet(d)
        BY <3>2 DEF Copy
      <3> QED
        BY <1>6, <2>4, <2>5, <3>1, <3>2
    <2>7. Granted(s, d, u)
      <3>1. ASSUME OnePlaceEach, NEW c \in Browsers \ {d}, NEW w \in Wallet(c) \cap Token, w.user = u
            PROVE  FALSE
        <4>1. d \in Browsers /\ u \in Locks(d)
          BY <1>4, <1>9, OwnWallet DEF SignInv
        <4>2. PICK q \in Mine(d) : Kind(q) = "lock"
          BY <1>4, <4>1 DEF TokenInv, OwnLocks
        <4>3. q \in Requests /\ s.sends[q].from = d /\ s.sends[q].kind = "lock"
          BY <4>2 DEF Mine, Kind, TokenInv
        <4>4. u \in SignsInAs(s, c)
          BY <3>1 DEF TokenInv, OwnTokens
        <4> QED
          BY <1>4, <3>1, <4>1, <4>3, <4>4 DEF OnePlaceEach
      <3> QED
        BY <1>4, <2>1, <3>1 DEF Granted
    <2>8. \A v \in {req'[r].held.lock, req'[r].lock} \cap Users : v \in Locks(d)
      BY <1>6, <2>3, OwnWallet DEF SignInv
    <2>9. RequestOK(s, r)'
      BY <2>3 DEF RequestOK
    <2> HIDE DEF d
    <2> DEFINE fresh == {u}
    <2>10. fresh \in SUBSET Users /\ \A v \in fresh : Granted(s, d, v)
      BY <1>4, <2>7
    <2>11. \A t \in Carried(r)' \cap Token :
             \/ Copy(d, t)
             \/ t.user \in fresh /\ Exists(t.user)' /\ t.gen = accounts'[t.user].gen
      BY <2>6
    <2> HIDE DEF fresh
    <2> QED
      BY <1>2, <1>5, <2>8, <2>9, <2>10, <2>11, RequestMoves DEF d
  <1> QED
    BY <1>7, <1>8, <1>9

\* The number of an account rises by one: every token of it so far falls
\* behind, and a sign-in is answered with the only ones that do not.
LEMMA BumpKeeps ==
    ASSUME SignInv, SignInv', NEW s \in Scenarios, TokenInv(s), NEW r \in Requests, Bump(r), UNCHANGED sends
    PROVE  TokensKept(s)
  <1>0. PICK u : u = req[r].me.user
    OBVIOUS
  <1> DEFINE d == sends[r].from
             n == NextGeneration(r, u)
             t == [Signs(u) EXCEPT !.gen = n, !.role = req[r].me.role]
  <1>1. req[r].step = "bump" /\ UNCHANGED jar
    BY DEF Bump
  <1>2. OnlyRequest(r)
    BY <1>1 DEF OnlyRequest, Bump, Answer, SignInv, RequestsOK
  <1>3. req[r].me \in Token /\ u \in Users /\ u \in SignsInAs(s, d) /\ d \in Browsers
    BY <1>0, <1>1, OwnWallet DEF SignInv, RequestsOK, NeedsUser, Token, TokenInv, RequestOK
  <1>4. Keep \notin Users /\ Drop \notin Users /\ Keep \notin Token /\ Drop \notin Token
    BY NotTokens
  <1>5. CASE ~ Exists(u)
    <2>1. UNCHANGED <<accounts, ended>>
      BY <1>0, <1>5 DEF Bump
    <2> DEFINE cookie == IF Kind(r) = "logout" THEN Refreshed(r) ELSE Keep
    <2>2. Answer(r, req[r].me, cookie, Keep, Keep)
      BY <1>0, <1>5 DEF Bump
    <2>3. {cookie, Keep} \cap Token \subseteq Wallet(d)
      <3>1. Kind(r) = "logout" => req[r].me \in Wallet(d)
        BY <1>1, PassingUser DEF Passing, SignsIn
      <3> QED
        BY <1>4, <3>1 DEF Refreshed
    <2>4. \A v \in Users : Evolves(v)
      BY <2>1, StillEvolve
    <2> HIDE DEF cookie
    <2> QED
      BY <1>2, <1>4, <2>2, <2>3, <2>4, AnswerKeeps
  <1>6. CASE Exists(u)
    <2>1. /\ accounts' = [accounts EXCEPT ![u] = [accounts[u] EXCEPT !.gen = n]]
          /\ ended' = IF Kind(r) = "logout" THEN ended \cup {u} ELSE ended \ {u}
      BY <1>0, <1>6 DEF Bump
    <2>2. accounts[u] \in Account /\ n = accounts[u].gen + 1 /\ accounts[u].gen \in Nat
      BY <1>3 DEF SignInv, TableOK, Account, NextGeneration
    <2>3. accounts'[u].gen = n /\ Exists(u)' /\ n > accounts[u].gen
      BY <1>3, <1>6, <2>1, <2>2 DEF SignInv, TableOK, Exists, Account
    <2>4. \A v \in Users \ {u} : accounts'[v] = accounts[v] /\ accounts[v].gen \in Nat
      BY <2>1 DEF SignInv, TableOK, Account
    <2>5. \A v \in Users : Evolves(v)
      <3>1. Evolves(u)
        BY <1>6, <2>2, <2>3 DEF Evolves
      <3>2. ASSUME NEW v \in Users \ {u} PROVE Evolves(v)
        BY <2>1, <2>4, <3>2 DEF Evolves, Exists
      <3> QED
        BY <3>1, <3>2
    <2>6. CASE Kind(r) \in SignsIn
      <3> DEFINE cookie == IF Kind(r) = "login" THEN t ELSE Keep
                 bearer == IF Kind(r) = "login" THEN Keep ELSE t
      <3>1. Answer(r, t, cookie, bearer, Keep)
        BY <1>0, <1>6, <2>6 DEF Bump, SignsIn
      <3>2. t.user = u /\ t.gen = n
        BY DEF Signs
      <3> HIDE DEF t
      <3>3. req'[r] = [req[r] EXCEPT !.step = "answered", !.me = t, !.cookie = cookie,
                                     !.bearer = bearer, !.lock = Keep]
        BY <3>1 DEF Answer, SignInv, RequestsOK
      <3>4. /\ req'[r].step = "answered" /\ req'[r].cookie = cookie /\ req'[r].bearer = bearer
            /\ req'[r].lock = Keep /\ req'[r].held = req[r].held
        BY <3>3 DEF SignInv, RequestsOK, Entry
      <3>5. Carried(r)' \subseteq {req[r].held.cookie, req[r].held.bearer, t, Keep}
        BY <3>4 DEF Carried, Passing
      <3>6. {req[r].held.cookie, req[r].held.bearer} \subseteq Wallet(d)
        BY OwnWallet DEF SignInv, Carried
      <3> HIDE DEF n, cookie, bearer
      <3> DEFINE fresh == {u}
      <3>7. \A x \in Carried(r)' \cap Token :
               \/ Copy(d, x)
               \/ x.user \in fresh /\ Exists(x.user)' /\ x.gen = accounts'[x.user].gen
        <4> SUFFICES ASSUME NEW x \in Carried(r)' \cap Token
                     PROVE  \/ Copy(d, x)
                            \/ x.user \in fresh /\ Exists(x.user)' /\ x.gen = accounts'[x.user].gen
          OBVIOUS
        <4>1. CASE x = t
          BY <2>3, <3>2, <4>1
        <4>2. CASE x \in Wallet(d)
          BY <4>2 DEF Copy
        <4> QED
          BY <1>4, <3>5, <3>6, <4>1, <4>2
      <3>8. Granted(s, d, u)
        <4>1. u \notin ended'
          BY <2>1, <2>6 DEF SignsIn
        <4>2. ASSUME NEW c \in Browsers, NEW w \in Wallet(c) \cap Token, w.user = u
              PROVE  w.gen < accounts'[u].gen
          <5>1. w.gen <= accounts[u].gen /\ w.gen \in Nat
            BY <1>6, <4>2 DEF TokenInv, Behind, Token
          <5> QED
            BY <2>2, <2>3, <5>1
        <4> QED
          BY <1>3, <4>1, <4>2 DEF Granted
      <3>9. fresh \in SUBSET Users /\ \A v \in fresh : Granted(s, d, v)
        BY <1>3, <3>8
      <3>10. \A v \in {req'[r].held.lock, req'[r].lock} \cap Users : v \in Locks(d)
        BY <1>4, <3>4, OwnWallet DEF SignInv
      <3>11. RequestOK(s, r)'
        BY <3>4 DEF RequestOK
      <3> HIDE DEF d, fresh
      <3> QED
        BY <1>2, <2>5, <3>7, <3>9, <3>10, <3>11, RequestMoves DEF d
    <2>7. CASE Kind(r) \notin SignsIn
      <3>1. Answer(r, req[r].me, Drop, Keep, Keep)
        BY <1>0, <1>6, <2>7 DEF Bump, SignsIn
      <3>2. {Drop, Keep} \cap Token \subseteq Wallet(d)
        BY <1>4
      <3> QED
        BY <1>2, <1>4, <2>5, <3>1, <3>2, AnswerKeeps
    <2> QED
      BY <2>6, <2>7
  <1> QED
    BY <1>5, <1>6

\* Requests that go on without new tokens.
LEMMA GuardKeeps ==
    ASSUME SignInv, SignInv', NEW s \in Scenarios, TokenInv(s), NEW r \in Requests,
           Guard(r) \/ Busy(r), UNCHANGED sends
    PROVE  TokensKept(s)
  <1>1. PICK p \in {"erase", "plain"} : Go(r, p)
    BY DEF Guard, Busy
  <1>2. req[r].step = "guard" /\ UNCHANGED <<accounts, jar, ended>>
    BY DEF Guard, Busy
  <1>3. OnlyRequest(r) /\ req'[r].step = p /\ Kind(r)' = Kind(r)
    BY <1>1, <1>2 DEF OnlyRequest, Go, SignInv, RequestsOK, Entry, Kind
  <1>4. Passing(r)
    BY <1>2 DEF Passing
  <1>5. RequestOK(s, r)'
    BY <1>2, <1>3 DEF RequestOK, TokenInv
  <1>6. \A v \in Users : Evolves(v)
    BY <1>2, StillEvolve
  <1> QED
    BY <1>1, <1>3, <1>4, <1>5, <1>6, GoKeeps

LEMMA EraseKeeps ==
    ASSUME SignInv, SignInv', NEW s \in Scenarios, TokenInv(s), NEW r \in Requests, Erase(r), UNCHANGED sends
    PROVE  TokensKept(s)
  <1>0. PICK u : u = sends[r].user
    OBVIOUS
  <1>1. req[r].step = "erase" /\ UNCHANGED <<jar, ended>> /\ Go(r, "plain")
    BY DEF Erase
  <1>2. OnlyRequest(r) /\ req'[r].step = "plain"
    BY <1>1 DEF OnlyRequest, Go, SignInv, RequestsOK, Entry
  <1>3. Passing(r) /\ RequestOK(s, r)'
    BY <1>1, <1>2 DEF Passing, RequestOK
  <1>4. Deleted(u)
    BY <1>0, <1>1 DEF Deleted, TokenInv, RequestOK
  <1>5. u \in Users /\ accounts' = [accounts EXCEPT ![u] = [role |-> "gone", gen |-> 0, pw |-> 1]]
    BY <1>0 DEF Erase, SignInv, SendsOK
  <1>6. ~ Exists(u)' /\ \A v \in Users \ {u} : accounts'[v] = accounts[v] /\ accounts[v].gen \in Nat
    BY <1>5 DEF Exists, SignInv, TableOK, Account
  <1>7. \A v \in Users : Evolves(v)
    <2>1. Evolves(u)
      BY <1>4, <1>6 DEF Evolves
    <2>2. ASSUME NEW v \in Users \ {u} PROVE Evolves(v)
      BY <1>1, <1>6 DEF Evolves, Exists
    <2> QED
      BY <2>1, <2>2
  <1> QED
    BY <1>1, <1>2, <1>3, <1>7, GoKeeps

\* A new account: nobody has tokens of it, or it was deleted before and
\* nobody signs in with a name that is given away again.
LEMMA InsertKeeps ==
    ASSUME NamesNotReused, SignInv, SignInv', NEW s \in Scenarios, TokenInv(s), NEW r \in Requests,
           Insert(r), UNCHANGED sends
    PROVE  TokensKept(s)
  <1>0. PICK u : u = sends[r].user
    OBVIOUS
  <1>1. req[r].step = "insert" /\ UNCHANGED <<jar, ended>> /\ Go(r, "plain")
    BY DEF Insert
  <1>2. OnlyRequest(r) /\ req'[r].step = "plain"
    BY <1>1 DEF OnlyRequest, Go, SignInv, RequestsOK, Entry
  <1>3. Passing(r) /\ RequestOK(s, r)'
    BY <1>1, <1>2 DEF Passing, RequestOK
  <1>4. Kind(r) = "add" /\ sends = s.sends
    BY <1>1 DEF TokenInv, RequestOK
  <1>5. CASE accounts' = accounts
    <2>1. \A v \in Users : Evolves(v)
      BY <1>1, <1>5, StillEvolve
    <2> QED
      BY <1>1, <1>2, <1>3, <2>1, GoKeeps
  <1>6. CASE ~ Exists(u) /\ accounts' = [accounts EXCEPT ![u] = [role |-> "admin", gen |-> 0, pw |-> 1]]
    <2>1. \A b \in Browsers : \A t \in Wallet(b) \cap Token : t.user # u
      <3> SUFFICES ASSUME NEW b \in Browsers, NEW t \in Wallet(b) \cap Token, t.user = u
                   PROVE  FALSE
        OBVIOUS
      <3>1. Deleted(u) /\ u \in SignsInAs(s, b)
        BY <1>6 DEF TokenInv, Behind, OwnTokens
      <3> QED
        BY <1>0, <1>4, <3>1 DEF NamesNotReused, Deleted, Kind
    <2>2. \A v \in Users \ {u} : accounts'[v] = accounts[v] /\ accounts[v].gen \in Nat
      BY <1>6 DEF SignInv, TableOK, Account
    <2>3. \A v \in Users : Evolves(v)
      <3>1. Evolves(u)
        BY <2>1 DEF Evolves
      <3>2. ASSUME NEW v \in Users \ {u} PROVE Evolves(v)
        BY <1>1, <2>2 DEF Evolves, Exists
      <3> QED
        BY <3>1, <3>2
    <2> QED
      BY <1>1, <1>2, <1>3, <2>3, GoKeeps
  <1> QED
    BY <1>0, <1>5, <1>6 DEF Insert

LEMMA PasswordKeeps ==
    ASSUME SignInv, SignInv', NEW s \in Scenarios, TokenInv(s), NEW r \in Requests,
           ChangePassword(r), UNCHANGED sends
    PROVE  TokensKept(s)
  <1>0. PICK u : u = sends[r].user
    OBVIOUS
  <1>1. req[r].step = "check" /\ UNCHANGED <<jar, ended>> /\ Go(r, "plain")
    BY DEF ChangePassword
  <1>2. OnlyRequest(r) /\ req'[r].step = "plain"
    BY <1>1 DEF OnlyRequest, Go, SignInv, RequestsOK, Entry
  <1>3. Passing(r) /\ RequestOK(s, r)'
    BY <1>1, <1>2 DEF Passing, RequestOK
  <1>4. \/ accounts' = accounts
        \/ accounts' = [accounts EXCEPT ![u] = [accounts[u] EXCEPT !.pw = accounts[u].pw + 1]]
    BY <1>0 DEF ChangePassword
  <1>5. \A v \in Users : accounts'[v].role = accounts[v].role /\ accounts'[v].gen = accounts[v].gen
    BY <1>4 DEF SignInv, TableOK, Account
  <1>6. \A v \in Users : Evolves(v)
    BY <1>1, <1>5, SameEvolve DEF SameAccounts, Exists
  <1> QED
    BY <1>1, <1>2, <1>3, <1>6, GoKeeps

-----------------------------------------------------------------------------
(* Steps that change what a browser holds. *)

\* Nothing new in any browser: the copies are of its own tokens.
LEMMA NothingNew ==
    ASSUME SignInv, SignInv', NEW s \in Scenarios, TokenInv(s), UNCHANGED sends,
           \A b \in Browsers : \A t \in Wallet(b)' \cap Token : Copy(b, t),
           \A b \in Browsers : Locks(b)' \cap Users \subseteq Locks(b),
           \A v \in Users : Evolves(v), \A r \in Requests : RequestOK(s, r)'
    PROVE  TokensKept(s)
  <1> DEFINE none == {}
  <1>1. Issues(none)
    BY DEF Issues
  <1>2. /\ \A b \in Browsers, u \in Users : <<b, u>> \in none => Granted(s, b, u)
        /\ \A b, c \in Browsers, u \in Users : <<b, u>> \in none /\ <<c, u>> \in none => b = c
    OBVIOUS
  <1>3. OwnLocks(s)'
    BY DEF OwnLocks, TokenInv, Mine, Kind
  <1> HIDE DEF none
  <1> QED
    BY <1>1, <1>2, <1>3, TokensMove DEF TokensKept

\* Requests that stay as they are, up to where they are.
LEMMA SameCarried ==
    ASSUME UNCHANGED sends,
           \A q \in Requests : /\ req'[q].held = req[q].held /\ req'[q].cookie = req[q].cookie
                               /\ req'[q].bearer = req[q].bearer /\ req'[q].lock = req[q].lock
                               /\ req'[q].me = req[q].me /\ (Passing(q)' => Passing(q))
    PROVE  \A b \in Browsers :
              /\ Wallet(b)' \subseteq {jar[b].cookie, jar[b].bearer}' \cup Wallet(b)
              /\ Locks(b)' \subseteq {jar[b].lock}' \cup Locks(b)
  <1>1. \A q \in Requests : Carried(q)' \subseteq Carried(q)
    BY DEF Carried
  <1>2. \A b \in Browsers : Mine(b)' = Mine(b) /\ Mine(b) \subseteq Requests
    BY DEF Mine
  <1>3. ASSUME NEW b \in Browsers, NEW x \in Wallet(b)'
        PROVE  x \in {jar[b].cookie, jar[b].bearer}' \cup Wallet(b)
    <2>1. x \in {jar[b].cookie, jar[b].bearer}' \/ \E q \in Mine(b) : x \in Carried(q)'
      BY <1>2, <1>3 DEF Wallet
    <2> QED
      BY <1>1, <1>2, <2>1 DEF Wallet
  <1>4. ASSUME NEW b \in Browsers, NEW x \in Locks(b)'
        PROVE  x \in {jar[b].lock}' \cup Locks(b)
    <2>1. x \in {jar[b].lock}' \/ \E q \in Mine(b) : x \in {req'[q].held.lock, req'[q].lock}
      BY <1>2, <1>4 DEF Locks
    <2> QED
      BY <1>2, <2>1 DEF Locks
  <1> QED
    BY <1>3, <1>4

LEMMA DeliverKeeps ==
    ASSUME SignInv, SignInv', NEW s \in Scenarios, TokenInv(s), NEW r \in Requests, Deliver(r), UNCHANGED sends
    PROVE  TokensKept(s)
  <1>0. PICK d : d = sends[r].from
    OBVIOUS
  <1>1. d \in Browsers /\ Carried(r) \subseteq Wallet(d) /\ req[r].lock \in Locks(d)
          /\ {jar[d].cookie, jar[d].bearer} \subseteq Wallet(d) /\ jar[d].lock \in Locks(d)
    BY <1>0, OwnWallet DEF SignInv
  <1>2. /\ req[r].step = "answered" /\ UNCHANGED <<accounts, ended>> /\ Go(r, "done")
        /\ jar' = [jar EXCEPT ![d] = [cookie |-> Stored(jar[d].cookie, req[r].cookie),
                                      bearer |-> Stored(jar[d].bearer, req[r].bearer),
                                      lock |-> Stored(jar[d].lock, req[r].lock)]]
    BY <1>0 DEF Deliver
  <1>3. \A q \in Requests : /\ req'[q].held = req[q].held /\ req'[q].cookie = req[q].cookie
                            /\ req'[q].bearer = req[q].bearer /\ req'[q].lock = req[q].lock
                            /\ req'[q].me = req[q].me
                            /\ req'[q].step = IF q = r THEN "done" ELSE req[q].step
    BY <1>2 DEF Go, SignInv, RequestsOK, Entry
  <1>4. \A q \in Requests : Kind(q)' = Kind(q) /\ (Passing(q)' => Passing(q))
    BY <1>3 DEF Passing, Kind
  <1>5. \A b \in Browsers :
           /\ Wallet(b)' \subseteq {jar[b].cookie, jar[b].bearer}' \cup Wallet(b)
           /\ Locks(b)' \subseteq {jar[b].lock}' \cup Locks(b)
    BY <1>3, <1>4, SameCarried
  <1>6. \A b \in Browsers : b # d => jar'[b] = jar[b]
    BY <1>2 DEF SignInv, TableOK
  <1>7. /\ jar'[d].cookie \in {jar[d].cookie, req[r].cookie, None}
        /\ jar'[d].bearer \in {jar[d].bearer, req[r].bearer, None}
        /\ jar'[d].lock \in {jar[d].lock, req[r].lock, None}
    BY <1>1, <1>2 DEF SignInv, TableOK, Stored
  <1>8. None \notin Users /\ None \notin Token
    BY NotTokens
  <1>9. {req[r].cookie, req[r].bearer} \subseteq Carried(r)
    BY DEF Carried
  <1>10. \A b \in Browsers : Wallet(b)' \cap Token \subseteq Wallet(b) /\ Locks(b)' \cap Users \subseteq Locks(b)
    <2> SUFFICES ASSUME NEW b \in Browsers
                 PROVE  Wallet(b)' \cap Token \subseteq Wallet(b) /\ Locks(b)' \cap Users \subseteq Locks(b)
      OBVIOUS
    <2>1. CASE b = d
      BY <1>1, <1>5, <1>7, <1>8, <1>9, <2>1
    <2>2. CASE b # d
      <3>1. {jar[b].cookie, jar[b].bearer} \subseteq Wallet(b) /\ {jar[b].lock} \subseteq Locks(b)
        BY DEF Wallet, Locks
      <3> QED
        BY <1>5, <1>6, <2>2, <3>1
    <2> QED
      BY <2>1, <2>2
  <1>11. \A b \in Browsers : \A t \in Wallet(b)' \cap Token : Copy(b, t)
    BY <1>10 DEF Copy
  <1>12. \A q \in Requests : RequestOK(s, q)'
    <2> SUFFICES ASSUME NEW q \in Requests PROVE RequestOK(s, q)'
      OBVIOUS
    <2>1. RequestOK(s, q) /\ Kind(q)' = Kind(q)
      BY <1>4 DEF TokenInv
    <2>2. CASE q = r
      BY <1>3, <2>2 DEF RequestOK
    <2>3. CASE q # r
      BY <1>3, <2>1, <2>3 DEF RequestOK
    <2> QED
      BY <2>2, <2>3
  <1>13. \A v \in Users : Evolves(v)
    BY <1>2, StillEvolve
  <1> QED
    BY <1>10, <1>11, <1>12, <1>13, NothingNew

\* A step that changes the tokens of one browser and nothing else.
LEMMA JarMoves ==
    ASSUME SignInv, SignInv', NEW s \in Scenarios, TokenInv(s), UNCHANGED <<sends, accounts, req, ended>>,
           \A b \in Browsers : /\ jar'[b].lock = jar[b].lock
                               /\ \A t \in {jar[b].cookie, jar[b].bearer}' \cap Token : Copy(b, t)
    PROVE  TokensKept(s)
  <1>1. \A b \in Browsers :
           /\ Wallet(b)' \subseteq {jar[b].cookie, jar[b].bearer}' \cup Wallet(b)
           /\ Locks(b)' \subseteq {jar[b].lock}' \cup Locks(b)
    BY SameCarried DEF Passing, Kind
  <1>2. \A b \in Browsers : \A t \in Wallet(b)' \cap Token : Copy(b, t)
    BY <1>1 DEF Copy
  <1>3. \A b \in Browsers : Locks(b)' \cap Users \subseteq Locks(b)
    BY <1>1 DEF Locks
  <1>4. \A r \in Requests : RequestOK(s, r)'
    BY DEF TokenInv, RequestOK, Kind
  <1>5. \A v \in Users : Evolves(v)
    BY StillEvolve
  <1> QED
    BY <1>2, <1>3, <1>4, <1>5, NothingNew

\* What a browser holds are copies of themselves.
LEMMA HeldCopies ==
    ASSUME NEW b \in Browsers
    PROVE  \A t \in {jar[b].cookie, jar[b].bearer} \cap Token : Copy(b, t)
    BY DEF Copy, Wallet

LEMMA StutterKeeps ==
    ASSUME SignInv, SignInv', NEW s \in Scenarios, TokenInv(s), UNCHANGED <<sends, accounts, req, ended, jar>>
    PROVE  TokensKept(s)
    BY HeldCopies, JarMoves

LEMMA LapseKeeps ==
    ASSUME SignInv, SignInv', NEW s \in Scenarios, TokenInv(s), NEW d \in Browsers, Lapse(d), UNCHANGED sends
    PROVE  TokensKept(s)
  <1>1. /\ UNCHANGED <<accounts, req, ended>>
        /\ \/ jar' = [jar EXCEPT ![d] = [jar[d] EXCEPT !.cookie = None]]
           \/ jar' = [jar EXCEPT ![d] = [jar[d] EXCEPT !.bearer = None]]
    BY DEF Lapse
  <1>2. \A b \in Browsers : /\ jar'[b].lock = jar[b].lock
                            /\ jar'[b].cookie \in {jar[b].cookie, None}
                            /\ jar'[b].bearer \in {jar[b].bearer, None}
    BY <1>1 DEF SignInv, TableOK, Holdings
  <1>3. \A b \in Browsers : \A t \in {jar[b].cookie, jar[b].bearer}' \cap Token : Copy(b, t)
    BY <1>2, HeldCopies, NotTokens
  <1> QED
    BY <1>1, <1>2, <1>3, JarMoves

\* The page mints its bearer token from the cookie beside it.
LEMMA RemintKeeps ==
    ASSUME SignInv, SignInv', NEW s \in Scenarios, TokenInv(s), NEW d \in Browsers, Remint(d)
    PROVE  TokensKept(s)
  <1> DEFINE w == jar[d].cookie
  <1>1. /\ UNCHANGED <<sends, accounts, req, ended>>
        /\ \/ jar' = [jar EXCEPT ![d] = [jar[d] EXCEPT !.bearer = None]]
           \/ Usable(w) /\ jar' = [jar EXCEPT ![d] = [jar[d] EXCEPT !.bearer = Signs(w.user)]]
    BY DEF Remint
  <1>2. Usable(w) => Copy(d, Signs(w.user))
    <2>1. Usable(w) => w \in Wallet(d) \cap Token
      BY DEF Usable, Wallet, SignInv, TableOK, Holdings
    <2> QED
      BY <2>1 DEF Copy, Signs, Usable
  <1>3. /\ \A b \in Browsers : jar'[b].lock = jar[b].lock
        /\ \A b \in Browsers : jar'[b].cookie = jar[b].cookie
        /\ \A b \in Browsers : b # d => jar'[b].bearer = jar[b].bearer
        /\ jar'[d].bearer = None \/ (Usable(w) /\ jar'[d].bearer = Signs(w.user))
    BY <1>1 DEF SignInv, TableOK, Holdings
  <1> HIDE DEF w
  <1>4. ASSUME NEW b \in Browsers, NEW t \in {jar[b].cookie, jar[b].bearer}' \cap Token
        PROVE  Copy(b, t)
    <2>1. CASE t \in {jar[b].cookie, jar[b].bearer}
      BY <1>4, <2>1, HeldCopies
    <2>2. CASE t \notin {jar[b].cookie, jar[b].bearer}
      <3>1. b = d /\ t = jar'[d].bearer /\ t # None
        BY <1>3, <1>4, <2>2, NotTokens
      <3> QED
        BY <1>2, <1>3, <3>1
    <2> QED
      BY <2>1, <2>2
  <1> QED
    BY <1>1, <1>3, <1>4, JarMoves

LEMMA TokenNext ==
    ASSUME NamesNotReused, SignInv, NEW s \in Scenarios, TokenInv(s), [Next]_vars
    PROVE  TokensKept(s)
  <1>1. SignInv'
    BY SignStep
  <1>2. ASSUME NEW r \in Requests, RequestStep(r), UNCHANGED sends PROVE TokensKept(s)
    BY <1>1, <1>2, SendKeeps, BeginKeeps, PlainKeeps, VerifyKeeps, BumpKeeps, ServeKeeps, GuardKeeps,
       EraseKeeps, InsertKeeps, PasswordKeeps, DeliverKeeps DEF RequestStep
  <1>3. CASE SessionStep
    <2>1. CASE Forget /\ UNCHANGED sends
      BY <1>1, <2>1, StutterKeeps DEF Forget
    <2> QED
      BY <1>1, <1>2, <1>3, <2>1, LapseKeeps DEF SessionStep
  <1>4. ASSUME NEW b \in Browsers, Remint(b) PROVE TokensKept(s)
    BY <1>1, <1>4, RemintKeeps
  <1>5. CASE UNCHANGED <<sends, sessions>>
    BY <1>1, <1>5, StutterKeeps DEF sessions
  <1>6. SessionStep \/ (\E b \in Browsers : Remint(b)) \/ UNCHANGED <<sends, sessions>>
    BY StepsOfSessions
  <1> QED
    BY <1>3, <1>4, <1>5, <1>6

-----------------------------------------------------------------------------
(* The beginning: each browser holds tokens of one account or none. *)

LEMMA InitTokens ==
    ASSUME Init
    PROVE  \E s \in Scenarios : TokenInv(s) /\ (OnePlaceEach => Alone)
  <1> DEFINE First(s, b) == IF s.signedIn[b] = None THEN None
                            ELSE [user |-> s.signedIn[b], gen |-> 1, role |-> s.start[s.signedIn[b]]]
  <1>1. PICK s \in Scenarios :
          /\ sends = s.sends
          /\ accounts = [u \in Users |-> [role |-> s.start[u], pw |-> 1,
                           gen |-> IF \E b \in Browsers : s.signedIn[b] = u THEN 1 ELSE 0]]
          /\ jar = [b \in Browsers |-> [cookie |-> First(s, b), bearer |-> First(s, b), lock |-> None]]
    BY DEF Init, SessionsInit
  <1>2. /\ ended = {}
        /\ \A r \in Requests : /\ req[r].step \in {"ready", "done"} /\ req[r].held = jar[sends[r].from]
                               /\ req[r].cookie = Keep /\ req[r].bearer = Keep /\ req[r].lock = Keep
    BY DEF Init, SessionsInit
  <1>3. None \notin Token /\ Keep \notin Token /\ None \notin Users /\ Keep \notin Users
    BY NotTokens
  <1>4. ASSUME NEW b \in Browsers, NEW t \in Wallet(b) \cap Token
        PROVE  s.signedIn[b] = t.user /\ t.gen = 1 /\ t.user \in Users /\ s.start[t.user] # "gone"
    <2>1. \A r \in Requests : Carried(r) = {jar[sends[r].from].cookie, jar[sends[r].from].bearer, Keep}
      BY <1>2 DEF Carried, Passing
    <2>2. \A r \in Mine(b) : Carried(r) = {jar[b].cookie, jar[b].bearer, Keep}
      BY <2>1 DEF Mine
    <2>3. t = jar[b].cookie \/ t = jar[b].bearer
      BY <1>3, <2>2 DEF Wallet
    <2>4. t = First(s, b)
      BY <1>1, <2>3
    <2>5. s.signedIn[b] # None
      BY <1>3, <2>4
    <2>6. s.signedIn[b] \in Users /\ s.start[s.signedIn[b]] # "gone"
      BY <2>5, SessionsAssumption
    <2> QED
      BY <2>4, <2>5, <2>6
  <1>5. ASSUME NEW b \in Browsers, NEW u \in Locks(b) PROVE u \notin Users
    <2>1. \A c \in Browsers : jar[c].lock = None
      BY <1>1
    <2>2. \A r \in Mine(b) : req[r].held.lock = None /\ req[r].lock = Keep
      BY <1>2, <2>1 DEF Mine
    <2> QED
      BY <1>3, <2>1, <2>2 DEF Locks
  <1>6. \A r \in Requests : RequestOK(s, r)
    BY <1>2 DEF RequestOK
  <1>7. OwnTokens(s)
    BY <1>4 DEF OwnTokens, SignsInAs
  <1>8. OwnLocks(s)
    BY <1>5 DEF OwnLocks
  <1>9. Behind
    <2> SUFFICES ASSUME NEW b \in Browsers, NEW t \in Wallet(b) \cap Token
                 PROVE  Exists(t.user) /\ t.gen <= accounts[t.user].gen
      BY DEF Behind
    <2>1. s.signedIn[b] = t.user /\ t.gen = 1 /\ t.user \in Users /\ s.start[t.user] # "gone"
      BY <1>4
    <2>2. accounts[t.user].gen = 1 /\ accounts[t.user].role = s.start[t.user]
      BY <1>1, <2>1
    <2> QED
      BY <2>1, <2>2 DEF Exists
  <1>10. Outdated
    BY <1>2 DEF Outdated
  <1>11. ASSUME OnePlaceEach PROVE Alone
    BY <1>3, <1>4, <1>11 DEF Alone, OnePlaceEach
  <1> QED
    BY <1>1, <1>6, <1>7, <1>8, <1>9, <1>10, <1>11 DEF TokenInv

\* What browsers hold is part of what is followed.
LEMMA JarInWallet ==
    ASSUME SignInv, NEW b \in Browsers
    PROVE  Tokens(b) \subseteq Wallet(b) \cap Token
    BY DEF SignInv, TableOK, Holdings, Tokens, Wallet

Tracked == \E s \in Scenarios : TokenInv(s)

\* After a sign-out no token of the account counts until somebody signs in
\* again, whatever answers to earlier requests were still on their way and
\* signed the cookie anew (bump_session_generation, the after_request hook).
\* A name that is given away again is one nobody signs in with.
THEOREM SignOutEndsAll ==
  ASSUME NamesNotReused
  PROVE  Spec => []LogoutIsFinal
  <1>1. Init => SignInv /\ Tracked
    BY InitSigns, InitTokens DEF Tracked
  <1>2. SignInv /\ Tracked /\ [Next]_vars => (SignInv /\ Tracked)'
    BY SignStep, TokenNext DEF Tracked, TokensKept
  <1>3. SignInv /\ Tracked => LogoutIsFinal
    <2> SUFFICES ASSUME SignInv, Outdated, NEW b \in Browsers, NEW t \in Tokens(b), t.user \in ended, Usable(t)
                 PROVE  FALSE
      BY DEF Tracked, TokenInv, LogoutIsFinal
    <2>1. t \in Wallet(b) \cap Token
      BY JarInWallet
    <2> QED
      BY <2>1 DEF Outdated, Usable
  <1> QED
    BY <1>1, <1>2, <1>3, PTL DEF Spec

TrackedAlone == \E s \in Scenarios : TokenInv(s) /\ Alone

\* An account is signed in at one place: each sign-in raises the number that
\* every token carries (login, api_login).  The browsers that are locked when
\* idle share no account with another: a resumed session raises no number,
\* and would count beside a sign-in from elsewhere.
THEOREM OneBrowserPerAccount ==
  ASSUME NamesNotReused, OnePlaceEach
  PROVE  Spec => []OneSessionPerAccount
  <1>1. Init => SignInv /\ TrackedAlone
    BY InitSigns, InitTokens DEF TrackedAlone
  <1>2. SignInv /\ TrackedAlone /\ [Next]_vars => (SignInv /\ TrackedAlone)'
    BY SignStep, TokenNext DEF TrackedAlone, TokensKept
  <1>3. SignInv /\ TrackedAlone => OneSessionPerAccount
    <2> SUFFICES ASSUME SignInv, Alone, NEW b \in Browsers, NEW c \in Browsers, NEW t \in Tokens(b),
                        NEW w \in Tokens(c), b # c, t.user = w.user, Usable(t), Usable(w)
                 PROVE  FALSE
      BY DEF TrackedAlone, OneSessionPerAccount
    <2>1. t \in Wallet(b) \cap Token /\ w \in Wallet(c) \cap Token
      BY JarInWallet
    <2> QED
      BY <2>1 DEF Alone, Usable
  <1> QED
    BY <1>1, <1>2, <1>3, PTL DEF Spec
=============================================================================
