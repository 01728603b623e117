------------------------ MODULE ClientLifecycleProofs ------------------------
(***************************************************************************)
(* Theorems about ClientLifecycle.tla, for any clients, addresses, ranges, *)
(* requests and scenarios.  Whoever creates a client holds the lock, so    *)
(* that nobody else can issue a certificate between the look and the       *)
(* command; a default rule follows its client as long as the client is     *)
(* neither removed nor renewed; a removal has every rule of its client on  *)
(* its list; a client nobody names never leaves a refresh's answer; and    *)
(* refreshes, however they overlap, keep one order of the list, with the   *)
(* client on top whose creation or renewal was just answered.              *)
(***************************************************************************)
EXTENDS ClientLifecycle, FiniteSetTheorems, SequenceTheorems, TLAPS

Creations == {"add", "import"}
Endings == {"remove", "renew"}
Locked == {"check", "issue", "confirm", "pinned", "block"}

\* A request is at a step of its own operation, with a name still to do.
Fits(r) ==
    LET op == does[r].op
        step == req[r].step
    IN  /\ op = "none" => step = "closed"
        /\ op # "none" => req[r].left # <<>> /\ ToSet(req[r].left) \subseteq ToSet(does[r].names)
        /\ step \in {"collect", "delete"} => op = "remove"
        /\ step \in {"pinned", "block"} => op \in Creations
        /\ step \in {"lock", "check", "issue", "confirm"} => op \in Creations \cup {"renew"}
        /\ step \in {"address", "revoke"} => op \in Endings
        /\ step = "refresh" => does[r].api
        /\ step = "block" => req[r].addr # None

\* A refresh being written belongs to the timer or to a request waiting for it.
Writing == \A r \in Requests : view[r].step = "write" => req[r].step = "refresh"

\* Only calls that failed leave a command behind, and it names its client.
OrphansOK ==
    /\ faults = 0 => orphans = {}
    /\ \A o \in orphans : /\ \E r \in Requests : o.name \in ToSet(does[r].names)
                          /\ o.cmd = "revoke" => Begun(o.name, Endings)

\* Certificates and addresses come and go together; an address has one client.
PkiOK ==
    /\ \A c \in Clients : cert[c] = 0 <=> ip[c] = None
    /\ \A c, d \in Clients : c # d /\ ip[c] # None => ip[c] # ip[d]

LockOK == \A r \in Requests : req[r].step \in Locked => lock = r

Base == Shape /\ (\A r \in Requests : Fits(r)) /\ Writing /\ OrphansOK /\ PkiOK /\ LockOK

\* Nobody else can issue what a creation is about to issue.
CreateInv ==
    /\ faults = 0 => \A r \in Requests : req[r].step = "issue" => cert[Name(r)] = 0
    /\ AddsDecideOnce

\* A client no request names stays in every answer that will be written.
Untouched(c) == \A r \in Requests : c \notin ToSet(does[r].names)

ListInv ==
    (\A r \in Requests : does[r].op # "remove" \/ ~ does[r].api) =>
        \A c \in Valid : Untouched(c) =>
            /\ cached[c] > 0
            /\ \A u \in Updaters : view[u].step = "write" => view[u].seen[c] > 0

\* A removal at its deletions has all the rules of its client on its list.
CleanInv ==
    \A r \in Requests :
        req[r].step = "delete" /\ (\A q \in Requests : ~ Busy(q, Name(r))) =>
            \A x \in rules : x.owner = Name(r) => x \in req[r].doomed

\* One administrator has one request under way.
Idle(r) == Ended(r) \/ req[r].step = "ready"
OneAtATime == \A r, q \in Requests : r # q => Idle(r) \/ Idle(q)

Kept(c) == ~ Begun(c, Endings)

\* The rules of a client that is kept are written for the address it has.
RulesFollow == \A x \in rules : Kept(x.owner) => x.src = ip[x.owner] /\ cert[x.owner] > 0

\* What a request has read of a client that is kept still holds, and no
\* removal has read an address, or collected a rule, of such a client.
Informed(r) ==
    /\ req[r].step \in {"ready", "address"} => req[r].addr = None
    /\ req[r].step \in {"pinned", "block"} /\ Kept(Name(r)) => cert[Name(r)] > 0
    /\ req[r].step = "block" /\ Kept(Name(r)) => req[r].addr = ip[Name(r)]
    /\ req[r].step \in {"revoke", "collect"} /\ does[r].op = "remove" =>
          \A x \in rules : Kept(x.owner) => x.src # req[r].addr
    /\ req[r].step = "delete" => \A x \in req[r].doomed : ~ Kept(x.owner)

BlockInv ==
    alone => OneAtATime /\ RulesFollow /\ (\A r \in Requests : Informed(r)) /\ DefaultBlockKept

-----------------------------------------------------------------------------
(* Names, and what one step makes of a request's entry.                    *)

LEMMA NamesLeft ==
    ASSUME NEW s \in Seq(Clients), s # <<>>
    PROVE  /\ Head(s) \in Clients /\ Head(s) \in ToSet(s)
           /\ Tail(s) \in Seq(Clients) /\ ToSet(Tail(s)) \subseteq ToSet(s)
  <1>1. Head(s) = s[1] /\ 1 \in DOMAIN s /\ s[1] \in Clients
    OBVIOUS
  <1>2. Tail(s) \in Seq(Clients) /\ \A i \in DOMAIN Tail(s) : i + 1 \in DOMAIN s /\ Tail(s)[i] = s[i + 1]
    OBVIOUS
  <1> QED
    BY <1>1, <1>2 DEF ToSet

LEMMA NameIsAsked ==
    ASSUME Base, NEW r \in Requests, does[r].op # "none"
    PROVE  /\ Name(r) \in Clients /\ Name(r) \in ToSet(does[r].names)
           /\ req[r].left \in Seq(Clients) /\ req[r].left # <<>>
  <1>1. req[r].left \in Seq(Clients) /\ req[r].left # <<>> /\ ToSet(req[r].left) \subseteq ToSet(does[r].names)
    BY DEF Base, Shape, Entry, Fits
  <1> QED
    BY <1>1, NamesLeft DEF Name

\* A request that is under way has an operation.
LEMMA ActiveAsks ==
    ASSUME Base, NEW r \in Requests, req[r].step # "closed"
    PROVE  does[r].op \in {"add", "import", "renew", "remove"} /\ req[r] \in Entry
    BY DEF Base, Shape, Fits, Task

Others(r) == req' \in [Requests -> Entry] /\ \A q \in Requests : q # r => req'[q] = req[q]

\* The same name goes on at step p.
Moved(r, p) == Others(r) /\ req'[r].step = p /\ req'[r].left = req[r].left

LEMMA Goes ==
    ASSUME Base, NEW r \in Requests, NEW p \in Steps, Go(r, p)
    PROVE  Moved(r, p) /\ req'[r].addr = req[r].addr /\ req'[r].doomed = req[r].doomed
  <1> DEFINE e == [req[r] EXCEPT !.step = p]
  <1>1. req[r] \in Entry /\ req \in [Requests -> Entry]
    BY DEF Base, Shape
  <1>2. e \in Entry /\ e.step = p /\ e.left = req[r].left /\ e.addr = req[r].addr /\ e.doomed = req[r].doomed
    BY <1>1 DEF Entry
  <1>3. req' = [req EXCEPT ![r] = e]
    BY DEF Go
  <1> HIDE DEF e
  <1> QED
    BY <1>1, <1>2, <1>3 DEF Moved, Others

LEMMA GoesWithAddress ==
    ASSUME Base, NEW r \in Requests, NEW p \in Steps, NEW a \in Ips \cup {None},
           req' = [req EXCEPT ![r].step = p, ![r].addr = a]
    PROVE  Moved(r, p) /\ req'[r].addr = a
  <1> DEFINE e == [req[r] EXCEPT !.step = p, !.addr = a]
  <1>1. req[r] \in Entry /\ req \in [Requests -> Entry]
    BY DEF Base, Shape
  <1>2. e \in Entry /\ e.step = p /\ e.left = req[r].left /\ e.addr = a
    BY <1>1 DEF Entry
  <1>3. req' = [req EXCEPT ![r] = e]
    OBVIOUS
  <1> HIDE DEF e
  <1> QED
    BY <1>1, <1>2, <1>3 DEF Moved, Others

LEMMA GoesWithRules ==
    ASSUME Base, NEW r \in Requests, NEW p \in Steps, NEW d \in SUBSET Rule,
           req' = [req EXCEPT ![r].step = p, ![r].doomed = d]
    PROVE  Moved(r, p) /\ req'[r].addr = req[r].addr /\ req'[r].doomed = d
  <1> DEFINE e == [req[r] EXCEPT !.step = p, !.doomed = d]
  <1>1. req[r] \in Entry /\ req \in [Requests -> Entry]
    BY DEF Base, Shape
  <1>2. e \in Entry /\ e.step = p /\ e.left = req[r].left /\ e.addr = req[r].addr /\ e.doomed = d
    BY <1>1 DEF Entry
  <1>3. req' = [req EXCEPT ![r] = e]
    OBVIOUS
  <1> HIDE DEF e
  <1> QED
    BY <1>1, <1>2, <1>3 DEF Moved, Others

\* One name is answered with what; the request goes on or ends.
Answered(r, what) ==
    /\ Others(r)
    /\ req'[r].step \in {First(does[r].op), "refresh", "closed"}
    /\ req'[r].step = "refresh" => does[r].api
    /\ req'[r].left # <<>> /\ ToSet(req'[r].left) \subseteq ToSet(req[r].left)
    /\ Tail(req[r].left) = <<>> => req'[r].left = req[r].left /\ req'[r].step \in {"refresh", "closed"}
    /\ req'[r].addr = None /\ req'[r].doomed = {}
    /\ lock' = Released(r)
    /\ outcome' \in [Requests -> [Clients -> Outcomes]]
    /\ \A q \in Requests, c \in Clients :
          outcome'[q][c] = IF q = r /\ c = Name(r) THEN what ELSE outcome[q][c]

LEMMA FinishAnswers ==
    ASSUME Base, NEW r \in Requests, req[r].step # "closed", NEW what \in Outcomes, Finish(r, what)
    PROVE  Answered(r, what)
  <1> DEFINE reports == [outcome[r] EXCEPT ![Name(r)] = what]
             rest == Tail(req[r].left)
             e == [step |-> IF rest # <<>> THEN First(does[r].op)
                            ELSE IF WantsRefresh(r, reports) THEN "refresh" ELSE "closed",
                   left |-> IF rest = <<>> THEN req[r].left ELSE rest,
                   addr |-> None, doomed |-> {}]
  <1>1. /\ req \in [Requests -> Entry] /\ outcome \in [Requests -> [Clients -> Outcomes]]
        /\ req[r] \in Entry
    BY DEF Base, Shape
  <1>2. /\ Name(r) \in Clients /\ req[r].left \in Seq(Clients) /\ req[r].left # <<>>
        /\ rest \in Seq(Clients) /\ ToSet(rest) \subseteq ToSet(req[r].left)
    BY ActiveAsks, NameIsAsked, NamesLeft
  <1>3. reports \in [Clients -> Outcomes] /\ \A c \in Clients : reports[c] = IF c = Name(r) THEN what ELSE outcome[r][c]
    BY <1>1, <1>2
  <1>4. outcome' = [outcome EXCEPT ![r] = reports] /\ lock' = Released(r) /\ req' = [req EXCEPT ![r] = e]
    BY DEF Finish
  <1>5. First(does[r].op) \in Steps \ {"refresh"}
    BY DEF First, Steps
  <1>6. WantsRefresh(r, reports) => does[r].api
    BY DEF WantsRefresh
  <1> HIDE DEF reports, rest
  <1>7. /\ e \in Entry /\ e.left # <<>> /\ ToSet(e.left) \subseteq ToSet(req[r].left)
        /\ e.step \in {First(does[r].op), "refresh", "closed"}
        /\ e.step = "refresh" => does[r].api
        /\ e.addr = None /\ e.doomed = {}
    BY <1>2, <1>5, <1>6 DEF Entry, Steps
  <1>7a. rest = <<>> => e.left = req[r].left /\ e.step \in {"refresh", "closed"}
    OBVIOUS
  <1>7b. Tail(req[r].left) = <<>> => e.left = req[r].left /\ e.step \in {"refresh", "closed"}
    BY <1>7a DEF rest
  <1> HIDE DEF e
  <1>8. Others(r) /\ req'[r] = e
    BY <1>1, <1>4, <1>7 DEF Others
  <1> QED
    BY <1>1, <1>3, <1>4, <1>7, <1>7b, <1>8 DEF Answered

-----------------------------------------------------------------------------
(* Base: types, the step a request is at, the lock, the certificates.      *)

PkiMoves ==
    /\ issued' \in Nat /\ issued' >= issued /\ cert' \in [Clients -> 0 .. issued']
    /\ ip' \in [Clients -> Ips \cup {None}] /\ PkiOK'

LEMMA PkiSame == ASSUME Base, UNCHANGED pki PROVE PkiMoves
    BY DEF Base, Shape, PkiOK, PkiMoves, pki

LEMMA PkiRevoked == ASSUME Base, NEW c \in Clients, Revoked(c) PROVE PkiMoves
    BY ClientLifecycleAssumption DEF Base, Shape, PkiOK, PkiMoves, Revoked

LEMMA PkiIssued == ASSUME Base, NEW c \in Clients, cert[c] = 0, Issued(c) PROVE PkiMoves
  <1>1. PICK a \in Ips \ Used : ip' = [ip EXCEPT ![c] = a]
    BY DEF Issued
  <1>2. /\ issued' = issued + 1 /\ cert' = [cert EXCEPT ![c] = issued + 1]
        /\ issued \in Nat /\ cert \in [Clients -> 0 .. issued] /\ ip \in [Clients -> Ips \cup {None}]
    BY DEF Issued, Base, Shape
  <1>3. a # None /\ \A d \in Clients : ip[d] # a
    BY <1>1, ClientLifecycleAssumption DEF Used
  <1>4. cert' \in [Clients -> 0 .. issued'] /\ ip' \in [Clients -> Ips \cup {None}]
    BY <1>1, <1>2
  <1>5. \A d \in Clients : cert'[d] = 0 <=> ip'[d] = None
    BY <1>1, <1>2, <1>3 DEF Base, PkiOK
  <1>6. \A d, e \in Clients : d # e /\ ip'[d] # None => ip'[d] # ip'[e]
    BY <1>1, <1>2, <1>3 DEF Base, PkiOK
  <1> QED
    BY <1>2, <1>4, <1>5, <1>6 DEF PkiMoves, PkiOK

\* A request that has begun stays begun.
LEMMA BegunStays ==
    ASSUME NEW r \in Requests, Others(r), UNCHANGED does, req'[r].step # "ready",
           NEW c, NEW ops, Begun(c, ops)
    PROVE  Begun(c, ops)'
    BY DEF Begun, Others

OrphansGrow(r) ==
    \/ UNCHANGED orphans
    \/ /\ Fault
       /\ \E cmd \in {"add", "revoke"} :
             /\ orphans' = orphans \cup {[cmd |-> cmd, name |-> Name(r)]}
             /\ cmd = "revoke" => does[r].op \in Endings

\* One step of a request that is not waiting for its refresh.
LEMMA RequestMoves ==
    ASSUME Base, NEW r \in Requests, req[r].step \notin {"refresh", "closed"},
           Others(r), Fits(r)', req'[r].step # "ready",
           UNCHANGED <<setting, view, cached>>, PkiMoves,
           rules' \subseteq Rule, outcome' \in [Requests -> [Clients -> Outcomes]],
           UNCHANGED faults \/ Fault, OrphansGrow(r),
           lock' \in Requests \cup {None}, req'[r].step \in Locked => lock' = r,
           lock \notin {r, None} => lock' = lock
    PROVE  Base'
  <1>1. faults' \in 0 .. MaxFaults /\ (faults' = 0 => faults = 0 /\ ~ Fault)
    BY ClientLifecycleAssumption DEF Base, Shape, Fault
  <1>2. Name(r) \in Clients /\ Name(r) \in ToSet(does[r].names) /\ does' = does
    BY ActiveAsks, NameIsAsked DEF setting
  <1>3. Shape'
    <2>1. orphans' \subseteq [cmd : {"add", "revoke"}, name : Clients]
      BY <1>2 DEF OrphansGrow, Base, Shape
    <2>2. /\ cached' \in [Clients -> 0 .. issued']
          /\ view' \in [Updaters -> [step : {"idle", "write"}, seen : [Clients -> 0 .. issued']]]
      <3>1. issued \in Nat /\ issued' \in Nat /\ issued <= issued'
        BY DEF PkiMoves, Base, Shape
      <3>2. 0 .. issued \subseteq 0 .. issued'
        BY <3>1
      <3> QED
        BY <3>2 DEF Base, Shape
    <2> QED
      BY <1>1, <2>1, <2>2 DEF Base, Shape, setting, PkiMoves, Others
  <1>4. \A q \in Requests : Fits(q)'
    BY <1>2 DEF Fits, Base, Others
  <1>5. Writing'
    BY DEF Writing, Base, Others
  <1>6. OrphansOK'
    <2>1. faults' = 0 => orphans' = {}
      BY <1>1 DEF OrphansGrow, OrphansOK, Base
    <2>2. ASSUME NEW o \in orphans'
          PROVE  /\ \E q \in Requests : o.name \in ToSet(does'[q].names)
                 /\ o.cmd = "revoke" => Begun(o.name, Endings)'
      <3>1. CASE o \in orphans
        BY <1>2, <3>1, BegunStays DEF OrphansOK, Base
      <3>2. CASE o \notin orphans
        <4>1. o.name = Name(r) /\ (o.cmd = "revoke" => does[r].op \in Endings)
          BY <3>2 DEF OrphansGrow
        <4> QED
          BY <1>2, <4>1 DEF Begun
      <3> QED
        BY <3>1, <3>2
    <2> QED
      BY <2>1, <2>2 DEF OrphansOK
  <1>7. LockOK'
    BY ClientLifecycleAssumption DEF LockOK, Base, Others
  <1> QED
    BY <1>3, <1>4, <1>5, <1>6, <1>7 DEF Base, PkiMoves

\* One name is answered: the request goes on, waits for its refresh or ends.
LEMMA AnsweredMoves ==
    ASSUME Base, NEW r \in Requests, req[r].step \notin {"ready", "refresh", "shown", "closed"},
           NEW what \in Outcomes, Answered(r, what),
           UNCHANGED <<setting, view, cached>>, PkiMoves, rules' \subseteq Rule,
           UNCHANGED faults \/ Fault, OrphansGrow(r)
    PROVE  Base'
  <1>1. does[r].op \in {"add", "import", "renew", "remove"} /\ does' = does
    BY ActiveAsks DEF setting
  <1>2. Fits(r)'
    BY <1>1 DEF Answered, Fits, First, Base, Creations, Endings
  <1>3. req'[r].step \notin Locked \cup {"ready"}
    BY DEF Answered, First, Locked
  <1>4. lock' \in Requests \cup {None} /\ (lock # r => lock' = lock)
    BY DEF Answered, Released, Base, Shape
  <1> QED
    BY <1>2, <1>3, <1>4, RequestMoves DEF Answered

LEMMA AnswerMoves ==
    ASSUME Base, NEW r \in Requests, req[r].step \notin {"ready", "refresh", "shown", "closed"},
           NEW what \in Outcomes, Finish(r, what),
           UNCHANGED <<setting, view, cached>>, PkiMoves, rules' \subseteq Rule,
           UNCHANGED faults \/ Fault, OrphansGrow(r)
    PROVE  Base' /\ Answered(r, what)
  <1>1. Answered(r, what)
    BY FinishAnswers
  <1> QED
    BY <1>1, AnsweredMoves

\* The same name goes on, in or out of the lock.
LEMMA MoveMoves ==
    ASSUME Base, NEW r \in Requests, req[r].step \notin {"refresh", "shown", "closed"},
           NEW p \in Steps \ {"ready"}, Moved(r, p),
           p \in {"collect", "delete"} => does[r].op = "remove",
           p \in {"pinned", "block"} => does[r].op \in Creations,
           p = "block" => req'[r].addr # None,
           p \in {"lock", "check", "issue", "confirm"} => does[r].op \in Creations \cup {"renew"},
           p \in {"address", "revoke"} => does[r].op \in Endings,
           p \notin {"refresh", "shown", "closed"},
           UNCHANGED <<setting, view, cached, outcome>>, PkiMoves, rules' \subseteq Rule,
           UNCHANGED faults \/ Fault, UNCHANGED orphans,
           lock' \in Requests \cup {None}, p \in Locked => lock' = r,
           lock \notin {r, None} => lock' = lock
    PROVE  Base'
  <1>1. does[r].op # "none" /\ does' = does
    BY ActiveAsks DEF setting
  <1>2. Fits(r)'
    BY <1>1 DEF Fits, Moved, Base
  <1>3. outcome' \in [Requests -> [Clients -> Outcomes]] /\ OrphansGrow(r)
    BY DEF Base, Shape, OrphansGrow
  <1> QED
    BY <1>2, <1>3, RequestMoves DEF Moved

LEMMA StartBase ==
    ASSUME Base, NEW r \in Requests, Start(r)
    PROVE  Base' /\ Moved(r, First(does[r].op)) /\ req'[r].addr = req[r].addr
  <1>1. does[r].op \in {"add", "import", "renew", "remove"} /\ req[r].step = "ready"
    BY ActiveAsks DEF Start
  <1>2. First(does[r].op) \in Steps \ {"ready", "refresh", "shown", "closed"}
    BY DEF First, Steps
  <1>3. Moved(r, First(does[r].op)) /\ req'[r].addr = req[r].addr
    BY <1>2, Goes DEF Start
  <1>4. PkiMoves /\ rules' \subseteq Rule /\ lock' \in Requests \cup {None}
    BY PkiSame DEF Start, Base, Shape
  <1> QED
    BY <1>1, <1>2, <1>3, <1>4, MoveMoves DEF Start, table, First, Creations, Endings, Locked

LEMMA AddressBase ==
    ASSUME Base, NEW r \in Requests, ReadOwnAddress(r)
    PROVE  Base' /\ Moved(r, "revoke") /\ req'[r].addr \in {req[r].addr, ip[Name(r)]}
  <1>1. req[r].step = "address" /\ does[r].op \in Endings
    BY DEF ReadOwnAddress, Base, Fits
  <1>2. ip[Name(r)] \in Ips \cup {None}
    BY <1>1, ActiveAsks, NameIsAsked DEF Base, Shape
  <1>3. Moved(r, "revoke") /\ req'[r].addr \in {req[r].addr, ip[Name(r)]}
    <2>1. CASE Go(r, "revoke")
      BY <2>1, Goes DEF Steps
    <2>2. CASE req' = [req EXCEPT ![r].step = "revoke", ![r].addr = ip[Name(r)]]
      BY <1>2, <2>2, GoesWithAddress DEF Steps
    <2> QED
      BY <2>1, <2>2 DEF ReadOwnAddress
  <1>4. PkiMoves /\ rules' \subseteq Rule /\ lock' \in Requests \cup {None}
    BY PkiSame DEF ReadOwnAddress, Base, Shape
  <1> QED
    BY <1>1, <1>3, <1>4, MoveMoves DEF ReadOwnAddress, table, Steps, Locked

LEMMA RevokeBase ==
    ASSUME Base, NEW r \in Requests, Revoke(r)
    PROVE  /\ Base'
           /\ \/ /\ Moved(r, AfterRevoke(r)) /\ req'[r].addr = req[r].addr /\ req'[r].doomed = req[r].doomed
                 /\ UNCHANGED <<lock, outcome>>
              \/ \E what \in {"refused", "timeout"} : Answered(r, what)
  <1>1. req[r].step = "revoke" /\ does[r].op \in Endings
    BY DEF Revoke, Base, Fits
  <1>2. Name(r) \in Clients
    BY <1>1, ActiveAsks, NameIsAsked
  <1>3. AfterRevoke(r) \in {"lock", "collect"} /\ (AfterRevoke(r) = "collect" <=> does[r].op = "remove")
    BY <1>1 DEF AfterRevoke, Endings
  <1>4. rules' \subseteq Rule
    BY DEF Revoke, Base, Shape
  <1>5. CASE Revoked(Name(r)) /\ Go(r, AfterRevoke(r)) /\ UNCHANGED <<lock, orphans, outcome, faults>>
    <2>1. Moved(r, AfterRevoke(r)) /\ req'[r].addr = req[r].addr /\ req'[r].doomed = req[r].doomed
      BY <1>3, <1>5, Goes DEF Steps
    <2>2. PkiMoves
      BY <1>2, <1>5, PkiRevoked
    <2>3. lock' \in Requests \cup {None}
      BY <1>5 DEF Base, Shape
    <2> QED
      BY <1>1, <1>3, <1>4, <1>5, <2>1, <2>2, <2>3, MoveMoves DEF Revoke, table, Steps, Locked, Endings
  <1>6. CASE Finish(r, "refused") /\ UNCHANGED <<pki, orphans, faults>>
    <2>1. PkiMoves /\ OrphansGrow(r)
      BY <1>6, PkiSame DEF OrphansGrow
    <2> QED
      BY <1>1, <1>4, <1>6, <2>1, AnswerMoves DEF Revoke, table, Outcomes
  <1>7. CASE /\ Fault /\ Finish(r, "timeout") /\ UNCHANGED pki
             /\ orphans' = orphans \cup {[cmd |-> "revoke", name |-> Name(r)]}
    <2>1. PkiMoves /\ OrphansGrow(r)
      BY <1>1, <1>7, PkiSame DEF OrphansGrow
    <2> QED
      BY <1>1, <1>4, <1>7, <2>1, AnswerMoves DEF Revoke, table, Outcomes
  <1> QED
    BY <1>5, <1>6, <1>7 DEF Revoke

LEMMA TakeLockBase == ASSUME Base, NEW r \in Requests, TakeLock(r) PROVE Base' /\ Moved(r, "check")
  <1>1. req[r].step = "lock" /\ lock = None /\ does[r].op \in Creations \cup {"renew"}
    BY DEF TakeLock, LockFree, Base, Fits
  <1>2. Moved(r, "check")
    BY Goes DEF TakeLock, Steps
  <1>3. PkiMoves /\ rules' \subseteq Rule
    BY PkiSame DEF TakeLock, Base, Shape
  <1> QED
    BY <1>1, <1>2, <1>3, MoveMoves DEF TakeLock, table, Steps

\* Inside the lock: a failure is answered with what, or as a partial one.
LEMMA FailMoves ==
    ASSUME Base, NEW r \in Requests, req[r].step \notin {"ready", "refresh", "shown", "closed"},
           NEW what \in Outcomes, FailAdd(r, what),
           UNCHANGED <<setting, view, cached>>, PkiMoves, rules' \subseteq Rule,
           UNCHANGED faults \/ Fault, OrphansGrow(r)
    PROVE  Base' /\ Answered(r, IF does[r].op = "renew" THEN "partial" ELSE what)
  <1> DEFINE w == IF does[r].op = "renew" THEN "partial" ELSE what
  <1>1. w \in Outcomes /\ Finish(r, w)
    BY DEF FailAdd, Outcomes
  <1> HIDE DEF w
  <1>2. Base' /\ Answered(r, w)
    BY <1>1, AnswerMoves
  <1> QED
    BY <1>2 DEF w

FailedWith(r, what) == Answered(r, IF does[r].op = "renew" THEN "partial" ELSE what)

LEMMA CheckBase ==
    ASSUME Base, NEW r \in Requests, CheckAbsent(r)
    PROVE  /\ Base'
           /\ \/ Moved(r, "issue") /\ (cert[Name(r)] = 0 \/ Fault) /\ UNCHANGED outcome
              \/ FailedWith(r, "exists") \/ FailedWith(r, "failed")
  <1>1. req[r].step = "check" /\ does[r].op \in Creations \cup {"renew"} /\ lock = r
    BY DEF CheckAbsent, Base, Fits, LockOK, Locked
  <1>2. PkiMoves /\ rules' \subseteq Rule /\ OrphansGrow(r)
    BY PkiSame DEF CheckAbsent, Base, Shape, OrphansGrow
  <1>3. CASE cert[Name(r)] = 0 /\ Go(r, "issue") /\ UNCHANGED <<lock, outcome, faults>>
    <2>1. Moved(r, "issue")
      BY <1>3, Goes DEF Steps
    <2> QED
      BY <1>1, <1>2, <1>3, <2>1, MoveMoves DEF CheckAbsent, table, Steps
  <1>4. CASE FailAdd(r, "exists") /\ UNCHANGED faults
    BY <1>1, <1>2, <1>4, FailMoves DEF CheckAbsent, table, Outcomes, FailedWith
  <1>5. CASE Fault /\ FailAdd(r, "failed")
    BY <1>1, <1>2, <1>5, FailMoves DEF CheckAbsent, table, Outcomes, FailedWith
  <1>6. CASE Fault /\ Go(r, "issue") /\ UNCHANGED <<lock, outcome>>
    <2>1. Moved(r, "issue")
      BY <1>6, Goes DEF Steps
    <2> QED
      BY <1>1, <1>2, <1>6, <2>1, MoveMoves DEF CheckAbsent, table, Steps
  <1> QED
    BY <1>3, <1>4, <1>5, <1>6 DEF CheckAbsent

LEMMA IssueBase ==
    ASSUME Base, NEW r \in Requests, Issue(r)
    PROVE  /\ Base' /\ lock = r
           /\ \/ Moved(r, "confirm") /\ cert[Name(r)] = 0 /\ Issued(Name(r)) /\ UNCHANGED outcome
              \/ FailedWith(r, "refused") /\ cert[Name(r)] > 0 /\ UNCHANGED pki
              \/ FailedWith(r, "timeout") /\ UNCHANGED pki
  <1>1. req[r].step = "issue" /\ does[r].op \in Creations \cup {"renew"} /\ lock = r
    BY DEF Issue, Base, Fits, LockOK, Locked
  <1>2. rules' \subseteq Rule /\ Name(r) \in Clients
    BY <1>1, ActiveAsks, NameIsAsked DEF Issue, Base, Shape
  <1>3. CASE /\ cert[Name(r)] = 0 /\ Issued(Name(r)) /\ Go(r, "confirm")
             /\ UNCHANGED <<lock, orphans, outcome, faults>>
    <2>1. Moved(r, "confirm") /\ PkiMoves
      BY <1>2, <1>3, Goes, PkiIssued DEF Steps
    <2> QED
      BY <1>1, <1>2, <1>3, <2>1, MoveMoves DEF Issue, table, Steps
  <1>4. CASE cert[Name(r)] > 0 /\ FailAdd(r, "refused") /\ UNCHANGED <<pki, orphans, faults>>
    <2>1. PkiMoves /\ OrphansGrow(r)
      BY <1>4, PkiSame DEF OrphansGrow
    <2> QED
      BY <1>1, <1>2, <1>4, <2>1, FailMoves DEF Issue, table, Outcomes, FailedWith
  <1>5. CASE /\ Fault /\ FailAdd(r, "timeout") /\ UNCHANGED pki
             /\ orphans' = orphans \cup {[cmd |-> "add", name |-> Name(r)]}
    <2>1. PkiMoves /\ OrphansGrow(r)
      BY <1>5, PkiSame DEF OrphansGrow
    <2> QED
      BY <1>1, <1>2, <1>5, <2>1, FailMoves DEF Issue, table, Outcomes, FailedWith
  <1> QED
    BY <1>1, <1>3, <1>4, <1>5 DEF Issue

LEMMA ConfirmBase ==
    ASSUME Base, NEW r \in Requests, Confirm(r)
    PROVE  /\ Base'
           /\ \/ Moved(r, "pinned") /\ cert[Name(r)] > 0 /\ UNCHANGED outcome
              \/ Answered(r, "ok") /\ cert[Name(r)] > 0 /\ does[r].op = "renew"
              \/ FailedWith(r, "missing") \/ FailedWith(r, "failed")
  <1>1. req[r].step = "confirm" /\ does[r].op \in Creations \cup {"renew"} /\ lock = r
    BY DEF Confirm, Base, Fits, LockOK, Locked
  <1>2. PkiMoves /\ rules' \subseteq Rule /\ OrphansGrow(r)
    BY PkiSame DEF Confirm, Base, Shape, OrphansGrow
  <1>3. CASE /\ cert[Name(r)] > 0 /\ does[r].op # "renew" /\ Go(r, "pinned")
             /\ UNCHANGED <<lock, outcome, faults>>
    <2>1. Moved(r, "pinned")
      BY <1>3, Goes DEF Steps
    <2> QED
      BY <1>1, <1>2, <1>3, <2>1, MoveMoves DEF Confirm, table, Steps
  <1>4. CASE cert[Name(r)] > 0 /\ does[r].op = "renew" /\ Finish(r, "ok") /\ UNCHANGED faults
    BY <1>1, <1>2, <1>4, AnswerMoves DEF Confirm, table, Outcomes
  <1>5. CASE FailAdd(r, "missing") /\ UNCHANGED faults
    BY <1>1, <1>2, <1>5, FailMoves DEF Confirm, table, Outcomes, FailedWith
  <1>6. ASSUME NEW what \in {"missing", "failed"}, Fault, FailAdd(r, what)
        PROVE  Base' /\ FailedWith(r, what)
    BY <1>1, <1>2, <1>6, FailMoves DEF Confirm, table, Outcomes, FailedWith
  <1> QED
    BY <1>3, <1>4, <1>5, <1>6 DEF Confirm

LEMMA PinnedBase ==
    ASSUME Base, NEW r \in Requests, ReadNewAddress(r)
    PROVE  /\ Base'
           /\ \/ Moved(r, "block") /\ req'[r].addr = ip[Name(r)] /\ ip[Name(r)] # None /\ UNCHANGED outcome
              \/ Answered(r, "partial")
  <1>1. req[r].step = "pinned" /\ does[r].op \in Creations /\ lock = r
    BY DEF ReadNewAddress, Base, Fits, LockOK, Locked
  <1>2. PkiMoves /\ rules' \subseteq Rule /\ OrphansGrow(r)
    BY PkiSame DEF ReadNewAddress, Base, Shape, OrphansGrow
  <1>3. CASE /\ ip[Name(r)] # None /\ UNCHANGED <<lock, outcome, faults>>
             /\ req' = [req EXCEPT ![r].step = "block", ![r].addr = ip[Name(r)]]
    <2>1. ip[Name(r)] \in Ips \cup {None}
      BY <1>1, ActiveAsks, NameIsAsked DEF Base, Shape
    <2>2. Moved(r, "block") /\ req'[r].addr = ip[Name(r)]
      BY <1>3, <2>1, GoesWithAddress DEF Steps
    <2> QED
      BY <1>1, <1>2, <1>3, <2>2, MoveMoves DEF ReadNewAddress, table, Steps
  <1>4. CASE Finish(r, "partial") /\ (UNCHANGED faults \/ Fault)
    BY <1>1, <1>2, <1>4, AnswerMoves DEF ReadNewAddress, table, Outcomes
  <1> QED
    BY <1>3, <1>4 DEF ReadNewAddress

LEMMA AddRuleBase ==
    ASSUME Base, NEW r \in Requests, AddRule(r)
    PROVE  /\ Base'
           /\ \E k \in Missing(r) :
                 /\ rules' = rules \cup {[owner |-> Name(r), src |-> req[r].addr, range |-> k, by |-> r]}
                 /\ \/ Answered(r, "ok") /\ Missing(r) = {k}
                    \/ UNCHANGED <<req, outcome>>
  <1>1. req[r].step = "block" /\ does[r].op \in Creations /\ lock = r /\ req[r].addr # None
    BY DEF AddRule, Base, Fits, LockOK, Locked
  <1>2. PkiMoves /\ OrphansGrow(r)
    BY PkiSame DEF AddRule, OrphansGrow
  <1>3. PICK k \in Missing(r) :
          /\ rules' = rules \cup {[owner |-> Name(r), src |-> req[r].addr, range |-> k, by |-> r]}
          /\ IF Missing(r) = {k} THEN Finish(r, "ok") ELSE UNCHANGED <<req, lock, outcome>>
    BY DEF AddRule
  <1>4. rules' \subseteq Rule
    <2>1. Name(r) \in Clients /\ req[r].addr \in Ips /\ k \in Ranges
      BY <1>1, ActiveAsks, NameIsAsked DEF Entry, Missing
    <2> QED
      BY <1>3, <2>1 DEF Rule, Base, Shape
  <1>5. CASE Missing(r) = {k} /\ Finish(r, "ok")
    BY <1>1, <1>2, <1>3, <1>4, <1>5, AnswerMoves DEF AddRule, table, Outcomes
  <1>6. CASE UNCHANGED <<req, lock, outcome>>
    <2>1. Moved(r, "block")
      BY <1>1, <1>6 DEF Moved, Others, Base, Shape
    <2>2. lock' \in Requests \cup {None}
      BY <1>6 DEF Base, Shape
    <2> QED
      BY <1>1, <1>2, <1>3, <1>4, <1>6, <2>1, <2>2, MoveMoves DEF AddRule, table, Steps
  <1> QED
    BY <1>3, <1>5, <1>6

LEMMA RuleFailsBase == ASSUME Base, NEW r \in Requests, RuleFails(r) PROVE Base' /\ Answered(r, "partial")
  <1>1. PkiMoves /\ OrphansGrow(r) /\ rules' \subseteq Rule
    BY PkiSame DEF RuleFails, OrphansGrow, Base, Shape
  <1> QED
    BY <1>1, AnswerMoves DEF RuleFails, table, Outcomes

LEMMA CollectBase ==
    ASSUME Base, NEW r \in Requests, CollectRules(r)
    PROVE  Base' /\ Moved(r, "delete") /\ req'[r].doomed = Owned(Name(r), req[r].addr)
  <1>1. req[r].step = "collect" /\ does[r].op = "remove"
    BY DEF CollectRules, Base, Fits
  <1>2. Owned(Name(r), req[r].addr) \subseteq Rule
    BY DEF Owned, Base, Shape
  <1>3. Moved(r, "delete") /\ req'[r].doomed = Owned(Name(r), req[r].addr)
    <2> DEFINE d == Owned(Name(r), req[r].addr)
    <2>1. req' = [req EXCEPT ![r].step = "delete", ![r].doomed = d] /\ d \in SUBSET Rule
      BY <1>2 DEF CollectRules
    <2> HIDE DEF d
    <2>2. Moved(r, "delete") /\ req'[r].doomed = d
      BY <2>1, GoesWithRules DEF Steps
    <2> QED
      BY <2>2 DEF d
  <1>4. PkiMoves /\ rules' \subseteq Rule /\ lock' \in Requests \cup {None}
    BY PkiSame DEF CollectRules, Base, Shape
  <1> QED
    BY <1>1, <1>3, <1>4, MoveMoves DEF CollectRules, table, Steps, Locked

LEMMA DeleteBase ==
    ASSUME Base, NEW r \in Requests, DeleteRule(r)
    PROVE  /\ Base' /\ Moved(r, "delete") /\ does[r].op = "remove"
           /\ \E x \in req[r].doomed : rules' = rules \ {x} /\ req'[r].doomed = req[r].doomed \ {x}
  <1>1. req[r].step = "delete" /\ does[r].op = "remove" /\ req[r].doomed \subseteq Rule
    BY DEF DeleteRule, Base, Fits, Shape, Entry
  <1>2. PICK x \in req[r].doomed :
          rules' = rules \ {x} /\ req' = [req EXCEPT ![r].doomed = req[r].doomed \ {x}]
    BY DEF DeleteRule
  <1>3. Moved(r, "delete") /\ req'[r].doomed = req[r].doomed \ {x}
    <2> DEFINE e == [req[r] EXCEPT !.doomed = req[r].doomed \ {x}]
    <2>1. e \in Entry /\ e.step = "delete" /\ e.left = req[r].left /\ e.doomed = req[r].doomed \ {x}
      <3>1. req[r] \in Entry
        BY DEF Base, Shape
      <3>2. req[r].doomed \ {x} \in SUBSET Rule
        BY <1>1
      <3> QED
        BY <1>1, <3>1, <3>2 DEF Entry
    <2>2. req' = [req EXCEPT ![r] = e] /\ req \in [Requests -> Entry]
      BY <1>2 DEF Base, Shape
    <2> HIDE DEF e
    <2>3. Others(r) /\ req'[r] = e
      BY <2>1, <2>2 DEF Others
    <2> QED
      BY <2>1, <2>3 DEF Moved
  <1>4. PkiMoves /\ rules' \subseteq Rule /\ lock' \in Requests \cup {None}
    BY <1>2, PkiSame DEF DeleteRule, Base, Shape
  <1> QED
    BY <1>1, <1>2, <1>3, <1>4, MoveMoves DEF DeleteRule, table, Steps, Locked

LEMMA RemovedBase ==
    ASSUME Base, NEW r \in Requests, RemovalDone(r)
    PROVE  Base' /\ Answered(r, "ok") /\ does[r].op = "remove"
  <1>1. does[r].op = "remove"
    BY DEF RemovalDone, Base, Fits
  <1>2. PkiMoves /\ OrphansGrow(r) /\ rules' \subseteq Rule
    BY PkiSame DEF RemovalDone, OrphansGrow, Base, Shape
  <1> QED
    BY <1>1, <1>2, AnswerMoves DEF RemovalDone, table, Outcomes

\* An error nobody catches: the name is answered as failed, the request ends.
LEMMA AbortBase == ASSUME Base, NEW r \in Requests, Aborts(r) PROVE Base' /\ Answered(r, "failed")
  <1> DEFINE e == [step |-> "closed", left |-> req[r].left, addr |-> None, doomed |-> {}]
  <1>1. /\ req \in [Requests -> Entry] /\ outcome \in [Requests -> [Clients -> Outcomes]]
        /\ req[r] \in Entry
    BY DEF Base, Shape
  <1>2. Name(r) \in Clients /\ req[r].left \in Seq(Clients) /\ req[r].left # <<>>
    BY ActiveAsks, NameIsAsked, NamesLeft DEF Aborts
  <1>3. e \in Entry /\ e.step = "closed" /\ e.left = req[r].left /\ e.addr = None /\ e.doomed = {}
    BY <1>2 DEF Entry, Steps
  <1>4. req' = [req EXCEPT ![r] = e]
    BY DEF Aborts
  <1> HIDE DEF e
  <1>5. Others(r) /\ req'[r] = e
    BY <1>1, <1>3, <1>4 DEF Others
  <1>6. /\ outcome' \in [Requests -> [Clients -> Outcomes]]
        /\ \A q \in Requests, c \in Clients :
              outcome'[q][c] = IF q = r /\ c = Name(r) THEN "failed" ELSE outcome[q][c]
    BY <1>1, <1>2 DEF Aborts, Outcomes
  <1>7. Answered(r, "failed")
    BY <1>2, <1>3, <1>5, <1>6 DEF Aborts, Answered
  <1>8. PkiMoves /\ OrphansGrow(r) /\ rules' \subseteq Rule
    BY PkiSame DEF Aborts, OrphansGrow, Base, Shape
  <1> QED
    BY <1>7, <1>8, AnsweredMoves DEF Aborts, table, Outcomes

\* A command nobody waits for: only certificate and address of its client.
LEMMA OrphanBase ==
    ASSUME Base, RunOrphan
    PROVE  /\ Base' /\ UNCHANGED <<setting, rules, lock, req, outcome, view, table, faults>>
           /\ orphans # {}
           /\ \/ UNCHANGED pki
              \/ \E o \in orphans : \/ o.cmd = "revoke" /\ Revoked(o.name)
                                    \/ cert[o.name] = 0 /\ Issued(o.name)
  <1>1. PICK o \in orphans :
          /\ orphans' = orphans \ {o}
          /\ \/ o.cmd = "revoke" /\ cert[o.name] > 0 /\ Revoked(o.name)
             \/ o.cmd = "add" /\ cert[o.name] = 0 /\ Issued(o.name)
             \/ UNCHANGED pki
          /\ UNCHANGED <<setting, rules, lock, req, outcome, view, table, faults>>
    BY DEF RunOrphan
  <1>2. o.name \in Clients
    BY DEF Base, Shape
  <1>3. PkiMoves
    BY <1>1, <1>2, PkiRevoked, PkiIssued, PkiSame
  <1>4. Shape'
    <2>1. 0 .. issued \subseteq 0 .. issued'
      BY <1>3 DEF PkiMoves, Base, Shape
    <2>2. /\ cached' \in [Clients -> 0 .. issued']
          /\ view' \in [Updaters -> [step : {"idle", "write"}, seen : [Clients -> 0 .. issued']]]
      BY <1>1, <2>1 DEF Base, Shape, table
    <2> QED
      BY <1>1, <1>3, <2>2 DEF Base, Shape, setting, PkiMoves
  <1>5. \A r \in Requests : Fits(r)'
    BY <1>1 DEF Fits, Base, setting
  <1>6. OrphansOK'
    BY <1>1 DEF OrphansOK, Base, setting, Begun
  <1>7. Writing' /\ LockOK'
    BY <1>1 DEF Writing, LockOK, Base
  <1> QED
    BY <1>1, <1>3, <1>4, <1>5, <1>6, <1>7 DEF Base, PkiMoves

\* A refresh: it ends, or goes on to be written; the rows change at its end.
Refreshes(u) ==
    /\ req' \in [Requests -> Entry]
    /\ \A r \in Requests : r # u => req'[r] = req[r]
    /\ u \in Requests => /\ req[u].step = "refresh"
                         /\ req'[u].step \in {"refresh", "shown", "closed"}
                         /\ req'[u].left = req[u].left
    /\ UNCHANGED <<setting, pki, rules, lock, orphans, outcome>>

LEMMA OverEnds ==
    ASSUME Base, NEW u \in Updaters, u \in Requests => req[u].step = "refresh",
           NEW p \in {"shown", "closed"}, Over(u, p),
           UNCHANGED <<setting, pki, rules, lock, orphans, outcome>>,
           UNCHANGED faults \/ Fault, cached' \in [Clients -> 0 .. issued]
    PROVE  /\ Base' /\ Refreshes(u) /\ view'[u].step = "idle"
           /\ \A w \in Updaters : w # u => view'[w] = view[w]
  <1> DEFINE v == [step |-> "idle", seen |-> Nobody]
  <1>1. v \in [step : {"idle", "write"}, seen : [Clients -> 0 .. issued]] /\ v.step = "idle"
    BY DEF Nobody, Base, Shape
  <1>2. view' = [view EXCEPT ![u] = v]
    BY DEF Over
  <1> HIDE DEF v
  <1>3. /\ view' \in [Updaters -> [step : {"idle", "write"}, seen : [Clients -> 0 .. issued]]]
        /\ view'[u].step = "idle" /\ \A w \in Updaters : w # u => view'[w] = view[w]
    BY <1>1, <1>2 DEF Base, Shape
  <1>4. Refreshes(u) /\ (u \in Requests => req'[u].step = p)
    <2>1. CASE u = Timer
      BY <2>1, ClientLifecycleAssumption DEF Over, Refreshes, Base, Shape
    <2>2. CASE u # Timer
      <3>1. u \in Requests /\ Go(u, p) /\ p \in Steps
        BY <2>2 DEF Over, Go, Updaters, Steps
      <3> QED
        BY <3>1, Goes DEF Moved, Others, Refreshes
    <2> QED
      BY <2>1, <2>2
  <1>5. faults' \in 0 .. MaxFaults /\ (faults' = 0 => faults = 0)
    BY ClientLifecycleAssumption DEF Base, Shape, Fault
  <1>6. Shape'
    BY <1>3, <1>4, <1>5 DEF Refreshes, Base, Shape, setting, pki
  <1>7. ASSUME NEW r \in Requests PROVE Fits(r)'
    <2>1. does' = does /\ (req'[r] = req[r] \/ (r = u /\ req'[r].step \in {"shown", "closed"} /\ req'[r].left = req[r].left))
      BY <1>4 DEF Refreshes, setting
    <2>2. r = u => does[r].op # "none"
      BY ActiveAsks
    <2> QED
      BY <2>1, <2>2 DEF Fits, Base
  <1>8. Writing'
    BY <1>3, <1>4 DEF Writing, Base, Refreshes, Updaters
  <1>9. OrphansOK'
    <2>1. \A c, ops : Begun(c, ops) => Begun(c, ops)'
      BY <1>4 DEF Begun, Refreshes, setting
    <2> QED
      BY <1>4, <1>5, <2>1 DEF OrphansOK, Base, Refreshes, setting
  <1>10. LockOK' /\ PkiOK'
    BY <1>4 DEF LockOK, PkiOK, Base, Refreshes, pki, Locked
  <1> QED
    BY <1>3, <1>4, <1>6, <1>7, <1>8, <1>9, <1>10 DEF Base

LEMMA ReadListBase ==
    ASSUME Base, NEW u \in Updaters, ReadList(u)
    PROVE  /\ Base' /\ Refreshes(u) /\ cached' = cached
           /\ \A w \in Updaters : w # u => view'[w] = view[w]
           /\ view'[u].step = "write" =>
                \E seen \in {cert, Nobody} : view'[u].seen = seen /\ ~ Suspicious(u, seen)
  <1>1. PICK seen \in {cert, Nobody} :
          /\ IF seen = cert THEN UNCHANGED faults ELSE Fault
          /\ IF Suspicious(u, seen)
             THEN Over(u, "closed")
             ELSE view' = [view EXCEPT ![u] = [step |-> "write", seen |-> seen]] /\ UNCHANGED req
    BY DEF ReadList
  <1>2. u \in Requests => req[u].step = "refresh"
    BY ClientLifecycleAssumption DEF ReadList, Due
  <1>3. UNCHANGED faults \/ Fault
    BY <1>1
  <1>4. cached' = cached /\ cached' \in [Clients -> 0 .. issued]
    BY DEF ReadList, table, Base, Shape
  <1>5. CASE Suspicious(u, seen)
    BY <1>1, <1>2, <1>3, <1>4, <1>5, OverEnds DEF ReadList
  <1>6. CASE ~ Suspicious(u, seen)
    <2> DEFINE v == [step |-> "write", seen |-> seen]
    <2>1. v \in [step : {"idle", "write"}, seen : [Clients -> 0 .. issued]] /\ v.seen = seen
      BY <1>1 DEF Nobody, Base, Shape
    <2>2. view' = [view EXCEPT ![u] = v] /\ UNCHANGED req
      BY <1>1, <1>6
    <2> HIDE DEF v
    <2>3. /\ view' \in [Updaters -> [step : {"idle", "write"}, seen : [Clients -> 0 .. issued]]]
          /\ view'[u].seen = seen /\ \A w \in Updaters : w # u => view'[w] = view[w]
      BY <2>1, <2>2 DEF Base, Shape
    <2>4. faults' \in 0 .. MaxFaults /\ (faults' = 0 => faults = 0)
      BY <1>3, ClientLifecycleAssumption DEF Base, Shape, Fault
    <2>5. UNCHANGED <<setting, pki, rules, lock, orphans, outcome>>
      BY DEF ReadList
    <2>6. Refreshes(u)
      BY <1>2, <2>2, <2>5 DEF Refreshes, Base, Shape
    <2>7. Shape'
      BY <1>4, <2>2, <2>3, <2>4, <2>5 DEF Base, Shape, setting, pki
    <2>8. (\A r \in Requests : Fits(r)') /\ PkiOK' /\ LockOK'
      BY <2>2, <2>5 DEF Fits, PkiOK, LockOK, Base, setting, pki
    <2>9. Writing'
      BY <1>2, <2>2, <2>3 DEF Writing, Base, Updaters
    <2>10. OrphansOK'
      BY <2>2, <2>4, <2>5 DEF OrphansOK, Base, Begun, setting
    <2> QED
      BY <1>4, <1>6, <2>3, <2>6, <2>7, <2>8, <2>9, <2>10 DEF Base
  <1> QED
    BY <1>5, <1>6

LEMMA ListFailsBase ==
    ASSUME Base, NEW u \in Updaters, ListFails(u)
    PROVE  /\ Base' /\ Refreshes(u) /\ cached' = cached /\ view'[u].step = "idle"
           /\ \A w \in Updaters : w # u => view'[w] = view[w]
  <1>1. u \in Requests => req[u].step = "refresh"
    BY ClientLifecycleAssumption DEF ListFails, Due
  <1>2. cached' = cached /\ cached' \in [Clients -> 0 .. issued]
    BY DEF ListFails, table, Base, Shape
  <1> QED
    BY <1>1, <1>2, OverEnds DEF ListFails

LEMMA WriteBase ==
    ASSUME Base, NEW u \in Updaters, WriteCache(u)
    PROVE  /\ Base' /\ Refreshes(u) /\ view[u].step = "write" /\ cached' = view[u].seen
           /\ view'[u].step = "idle" /\ \A w \in Updaters : w # u => view'[w] = view[w]
  <1>1. view[u].step = "write" /\ cached' = view[u].seen
    BY DEF WriteCache, Rows
  <1>2. u \in Requests => req[u].step = "refresh"
    BY <1>1 DEF Base, Writing
  <1>3. cached' \in [Clients -> 0 .. issued]
    BY <1>1 DEF Base, Shape
  <1> QED
    BY <1>1, <1>2, <1>3, OverEnds DEF WriteCache

LEMMA InitBase == Init => Base
  <1> SUFFICES ASSUME Init PROVE Base
    OBVIOUS
  <1>1. PICK s \in Scenarios : does = s.does /\ alone = s.alone /\ ip = s.start
    BY DEF Init
  <1>2. /\ does \in [Requests -> Task] /\ alone \in BOOLEAN /\ ip \in [Clients -> Ips \cup {None}]
        /\ \A r \in Requests : does[r].op # "none" => does[r].names # <<>>
        /\ \A c, d \in Clients : c # d /\ ip[c] # None => ip[c] # ip[d]
    BY <1>1, ClientLifecycleAssumption
  <1>3. issued \in Nat /\ issued = Cardinality(Clients)
    BY ClientLifecycleAssumption, FS_CardinalityType DEF Init
  <1>4. PICK number \in [Clients -> 0 .. Cardinality(Clients)] :
          /\ \A c \in Clients : (number[c] > 0) <=> (ip[c] # None)
          /\ cert = number /\ cached = number
    BY DEF Init
  <1>5. cert \in [Clients -> 0 .. issued] /\ cached \in [Clients -> 0 .. issued]
    BY <1>3, <1>4
  <1>6. \A c \in Clients : cert[c] = 0 <=> ip[c] = None
    BY <1>3, <1>4
  <1>7. rules \subseteq Rule
    BY DEF Init, Rule
  <1>8. /\ req \in [Requests -> Entry]
        /\ \A r \in Requests : /\ req[r].step = IF does[r].op = "none" THEN "closed" ELSE "ready"
                               /\ req[r].left = does[r].names
    <2>1. \A r \in Requests : does[r].names \in Seq(Clients)
      BY <1>2 DEF Task
    <2> QED
      BY <2>1 DEF Init, Entry, Steps
  <1>9. outcome \in [Requests -> [Clients -> Outcomes]]
    BY DEF Init, Outcomes
  <1>10. /\ view \in [Updaters -> [step : {"idle", "write"}, seen : [Clients -> 0 .. issued]]]
         /\ \A u \in Updaters : view[u].step = "idle"
    BY <1>3 DEF Init
  <1>11. lock = None /\ orphans = {} /\ faults = 0 /\ faults \in 0 .. MaxFaults
    BY ClientLifecycleAssumption DEF Init
  <1>12. Shape
    BY <1>2, <1>3, <1>5, <1>7, <1>8, <1>9, <1>10, <1>11 DEF Shape
  <1>13. \A r \in Requests : Fits(r)
    BY <1>2, <1>8 DEF Fits
  <1>14. Writing /\ OrphansOK /\ PkiOK /\ LockOK
    BY <1>2, <1>6, <1>8, <1>10, <1>11 DEF Writing, Updaters, OrphansOK, PkiOK, LockOK, Locked
  <1> QED
    BY <1>12, <1>13, <1>14 DEF Base

LEMMA BaseStutters == Base /\ UNCHANGED vars => Base'
  <1> SUFFICES ASSUME Base, UNCHANGED vars PROVE Base'
    OBVIOUS
  <1> USE DEF vars, setting, pki, table
  <1>1. Shape' /\ \A r \in Requests : Fits(r)'
    BY DEF Base, Shape, Fits
  <1> QED
    BY <1>1 DEF Base, Writing, OrphansOK, PkiOK, LockOK, Begun

LEMMA BaseNext == Base /\ [Next]_vars => Base'
  <1> SUFFICES ASSUME Base, [Next]_vars PROVE Base'
    OBVIOUS
  <1>1. ASSUME NEW r \in Requests, Start(r) \/ RequestStep(r) PROVE Base'
    BY <1>1, StartBase, AddressBase, RevokeBase, TakeLockBase, CheckBase, IssueBase, ConfirmBase,
       PinnedBase, AddRuleBase, RuleFailsBase, CollectBase, DeleteBase, RemovedBase, AbortBase DEF RequestStep
  <1>2. ASSUME NEW u \in Updaters, RefreshStep(u) PROVE Base'
    BY <1>2, ReadListBase, ListFailsBase, WriteBase DEF RefreshStep
  <1> QED
    BY <1>1, <1>2, OrphanBase, BaseStutters DEF Next

LEMMA BaseAlways == Spec => []Base
  BY InitBase, BaseNext, PTL DEF Spec

-----------------------------------------------------------------------------
(* What any step of a request does, and any step of a refresh.             *)

LEMMA RequestEffects ==
    ASSUME Base, NEW r \in Requests, Start(r) \/ RequestStep(r)
    PROVE  /\ Base' /\ Others(r) /\ UNCHANGED <<does, alone, view, cached>>
           /\ req[r].step \notin {"refresh", "shown", "closed"} /\ req'[r].step # "ready"
           /\ does[r].op # "none" /\ Name(r) \in Clients /\ Name(r) \in ToSet(does[r].names)
           /\ faults' = 0 => faults = 0
           /\ \A q \in Requests, c \in Clients :
                 outcome'[q][c] # outcome[q][c] => q = r /\ c = Name(r)
           /\ rules' = rules \/ req[r].step \in {"block", "delete"}
  <1>1. req[r].step \notin {"refresh", "shown", "closed"}
    BY DEF RequestStep, Start, ReadOwnAddress, Revoke, TakeLock, CheckAbsent, Issue, Confirm,
           ReadNewAddress, AddRule, RuleFails, CollectRules, DeleteRule, RemovalDone, Aborts
  <1>2. does[r].op # "none" /\ Name(r) \in Clients /\ Name(r) \in ToSet(does[r].names)
    BY <1>1, ActiveAsks, NameIsAsked
  <1>3. UNCHANGED <<does, alone, view, cached>>
    BY DEF RequestStep, Start, ReadOwnAddress, Revoke, TakeLock, CheckAbsent, Issue, Confirm,
           ReadNewAddress, AddRule, RuleFails, CollectRules, DeleteRule, RemovalDone, Aborts, setting, table
  <1>4. faults' = 0 => faults = 0
    <2>1. UNCHANGED faults \/ Fault
      BY DEF RequestStep, Start, ReadOwnAddress, Revoke, TakeLock, CheckAbsent, Issue, Confirm,
             ReadNewAddress, AddRule, RuleFails, CollectRules, DeleteRule, RemovalDone, Aborts
    <2> QED
      BY <2>1 DEF Fault, Base, Shape
  <1>5. rules' = rules \/ req[r].step \in {"block", "delete"}
    BY DEF RequestStep, Start, ReadOwnAddress, Revoke, TakeLock, CheckAbsent, Issue, Confirm,
           ReadNewAddress, AddRule, RuleFails, CollectRules, DeleteRule, RemovalDone, Aborts
  <1> DEFINE Effects == /\ Base' /\ Others(r) /\ req'[r].step # "ready"
                        /\ \A q \in Requests, c \in Clients :
                              outcome'[q][c] # outcome[q][c] => q = r /\ c = Name(r)
  <1>6. ASSUME NEW what, Answered(r, what), Base' PROVE Effects
    BY <1>6 DEF Answered, First
  <1>7. ASSUME NEW p \in Steps \ {"ready"}, Moved(r, p), UNCHANGED outcome, Base' PROVE Effects
    BY <1>7 DEF Moved
  <1> HIDE DEF Effects
  <1>8. Effects
    <2>1. CASE Start(r)
      BY <2>1, <1>7, StartBase DEF Start, First, Steps
    <2>2. CASE ReadOwnAddress(r)
      BY <2>2, <1>7, AddressBase DEF ReadOwnAddress, Steps
    <2>3. CASE Revoke(r)
      BY <2>3, <1>6, <1>7, RevokeBase DEF AfterRevoke, Steps
    <2>4. CASE TakeLock(r)
      BY <2>4, <1>7, TakeLockBase DEF TakeLock, Steps
    <2>5. CASE CheckAbsent(r)
      BY <2>5, <1>6, <1>7, CheckBase DEF FailedWith, Steps
    <2>6. CASE Issue(r)
      BY <2>6, <1>6, <1>7, IssueBase DEF FailedWith, Steps
    <2>7. CASE Confirm(r)
      BY <2>7, <1>6, <1>7, ConfirmBase DEF FailedWith, Steps
    <2>8. CASE ReadNewAddress(r)
      BY <2>8, <1>6, <1>7, PinnedBase DEF Steps
    <2>9. CASE AddRule(r)
      <3>1. CASE UNCHANGED <<req, outcome>>
        BY <2>9, <3>1, AddRuleBase DEF Effects, Others, Base, Shape, AddRule
      <3>2. CASE Answered(r, "ok")
        BY <2>9, <3>2, <1>6, AddRuleBase
      <3> QED
        BY <2>9, <3>1, <3>2, AddRuleBase
    <2>10. CASE RuleFails(r)
      BY <2>10, <1>6, RuleFailsBase
    <2>11. CASE CollectRules(r)
      BY <2>11, <1>7, CollectBase DEF CollectRules, Steps
    <2>12. CASE DeleteRule(r)
      BY <2>12, <1>7, DeleteBase DEF DeleteRule, Steps
    <2>13. CASE RemovalDone(r)
      BY <2>13, <1>6, RemovedBase
    <2>14. CASE Aborts(r)
      BY <2>14, <1>6, AbortBase
    <2> QED
      BY <2>1, <2>2, <2>3, <2>4, <2>5, <2>6, <2>7, <2>8, <2>9, <2>10, <2>11, <2>12, <2>13, <2>14
      DEF RequestStep
  <1> QED
    BY <1>1, <1>2, <1>3, <1>4, <1>5, <1>8 DEF Effects

\* Certificates and addresses change by a revocation or an issue only.
LEMMA RequestPki ==
    ASSUME Base, NEW r \in Requests, Start(r) \/ RequestStep(r)
    PROVE  \/ UNCHANGED pki
           \/ req[r].step = "revoke" /\ Revoked(Name(r)) /\ does[r].op \in Endings
           \/ req[r].step = "issue" /\ cert[Name(r)] = 0 /\ Issued(Name(r)) /\ lock = r
  <1>1. req[r].step = "revoke" => does[r].op \in Endings
    BY DEF Base, Fits
  <1>2. req[r].step = "issue" => lock = r
    BY DEF Base, LockOK, Locked
  <1> QED
    BY <1>1, <1>2 DEF RequestStep, Start, ReadOwnAddress, Revoke, TakeLock, CheckAbsent, Issue, Confirm,
           ReadNewAddress, AddRule, RuleFails, CollectRules, DeleteRule, RemovalDone, Aborts

LEMMA RefreshEffects ==
    ASSUME Base, NEW u \in Updaters, RefreshStep(u)
    PROVE  /\ Base' /\ Refreshes(u) /\ \A w \in Updaters : w # u => view'[w] = view[w]
           /\ faults' = 0 => faults = 0
  <1>1. UNCHANGED faults \/ Fault
    BY DEF RefreshStep, ReadList, ListFails, WriteCache
  <1>2. faults' = 0 => faults = 0
    BY <1>1 DEF Fault, Base, Shape
  <1> QED
    BY <1>2, ReadListBase, ListFailsBase, WriteBase DEF RefreshStep

\* A step of the specification is one of a request, of a refresh, of a
\* command nobody waits for, or none.
LEMMA StepCases ==
    ASSUME [Next]_vars
    PROVE  \/ \E r \in Requests : Start(r) \/ RequestStep(r)
           \/ \E u \in Updaters : RefreshStep(u)
           \/ RunOrphan \/ UNCHANGED vars
    BY DEF Next

-----------------------------------------------------------------------------
(* Creations of one name are decided one after the other.                  *)

\* Nobody issues the certificate of a creation in between: the others are
\* outside the lock, and without a failed call nothing is carried out late.
LEMMA CreateRequest ==
    ASSUME Base, CreateInv, NEW r \in Requests, Start(r) \/ RequestStep(r) PROVE CreateInv'
  <1>1. ASSUME NEW q \in Requests, faults' = 0, req'[q].step = "issue" PROVE cert'[Name(q)'] = 0
    <2>1. CASE q = r
      <3>1. CASE CheckAbsent(r)
        <4>1. ~ Fault
          BY <1>1 DEF Fault, Base, Shape
        <4> QED
          BY <1>1, <2>1, <3>1, <4>1, CheckBase DEF FailedWith, Answered, First, Moved, Name, CheckAbsent, pki
      <3>2. CASE ~ CheckAbsent(r)
        <4>1. req'[r].step # "issue"
          BY <3>2, StartBase, AddressBase, RevokeBase, TakeLockBase, IssueBase, ConfirmBase, PinnedBase,
             AddRuleBase, RuleFailsBase, CollectBase, DeleteBase, RemovedBase, AbortBase
          DEF RequestStep, FailedWith, Answered, First, Moved, AfterRevoke, AddRule
        <4> QED
          BY <1>1, <2>1, <4>1
      <3> QED
        BY <3>1, <3>2
    <2>2. CASE q # r
      <3>1. req'[q] = req[q] /\ faults = 0 /\ Name(q)' = Name(q)
        BY <1>1, <2>2, RequestEffects DEF Others, Name
      <3>2. cert[Name(q)] = 0 /\ lock = q /\ Name(q) \in Clients
        BY <1>1, <3>1, ActiveAsks, NameIsAsked DEF CreateInv, Base, LockOK, Locked
      <3>3. UNCHANGED cert \/ Revoked(Name(r))
        BY <2>2, <3>2, RequestPki DEF pki
      <3> QED
        BY <3>1, <3>2, <3>3, RequestEffects DEF Revoked, Base, Shape
    <2> QED
      BY <2>1, <2>2
  <1>2. ASSUME NEW q \in Requests, NEW c \in Clients, faults' = 0, does'[q].op \in Creations,
               outcome'[q][c] = "refused"
        PROVE  FALSE
    <2>1. faults = 0 /\ does' = does
      BY <1>2, RequestEffects
    <2>2. q = r /\ c = Name(r) /\ outcome'[q][c] # outcome[q][c]
      BY <1>2, <2>1, RequestEffects DEF CreateInv, AddsDecideOnce, Creations
    <2>3. does[r].op \notin Endings
      BY <1>2, <2>1, <2>2 DEF Creations, Endings
    <2>4. ASSUME NEW what, Answered(r, what) PROVE what = "refused"
      BY <1>2, <2>2, <2>4 DEF Answered
    <2>5. CASE Issue(r)
      <3>1. cert[Name(r)] = 0
        BY <2>1, <2>5 DEF CreateInv, Issue
      <3> QED
        BY <2>2, <2>3, <2>4, <2>5, <3>1, IssueBase DEF FailedWith
    <2>6. CASE Start(r) \/ ReadOwnAddress(r) \/ TakeLock(r) \/ CollectRules(r) \/ DeleteRule(r)
      BY <2>2, <2>6 DEF Start, ReadOwnAddress, TakeLock, CollectRules, DeleteRule
    <2>7. CASE Revoke(r)
      BY <2>3, <2>7 DEF Revoke, Base, Fits
    <2>8. CASE CheckAbsent(r)
      BY <2>2, <2>4, <2>8, CheckBase DEF FailedWith
    <2>9. CASE Confirm(r)
      BY <2>2, <2>4, <2>9, ConfirmBase DEF FailedWith
    <2>10. CASE ReadNewAddress(r) \/ AddRule(r) \/ RuleFails(r) \/ RemovalDone(r) \/ Aborts(r)
      BY <2>2, <2>4, <2>10, PinnedBase, AddRuleBase, RuleFailsBase, RemovedBase, AbortBase
    <2> QED
      BY <2>5, <2>6, <2>7, <2>8, <2>9, <2>10 DEF RequestStep
  <1> QED
    BY <1>1, <1>2 DEF CreateInv, AddsDecideOnce, Creations

LEMMA CreateNext == Base /\ CreateInv /\ [Next]_vars => CreateInv'
  <1> SUFFICES ASSUME Base, CreateInv, [Next]_vars PROVE CreateInv'
    OBVIOUS
  <1>1. ASSUME NEW u \in Updaters, RefreshStep(u) PROVE CreateInv'
    <2>1. Refreshes(u) /\ (faults' = 0 => faults = 0)
      BY <1>1, RefreshEffects
    <2>2. \A q \in Requests : req'[q].step = "issue" => req[q].step = "issue" /\ Name(q)' = Name(q)
      BY <2>1 DEF Refreshes, Name
    <2> QED
      BY <2>1, <2>2 DEF CreateInv, AddsDecideOnce, Refreshes, setting, pki
  <1>2. CASE RunOrphan
    <2>1. faults' # 0
      BY <1>2, OrphanBase DEF Base, OrphansOK
    <2> QED
      BY <2>1 DEF CreateInv, AddsDecideOnce
  <1>3. CASE UNCHANGED vars
    BY <1>3 DEF CreateInv, AddsDecideOnce, Name, vars, setting, pki
  <1> QED
    BY <1>1, <1>2, <1>3, CreateRequest, StepCases

\* As long as no call fails, `pivpn add` never meets a client that appeared
\* after the look for its .ovpn file: creations hold _add_client_lock.
THEOREM CreationsDecideOnce == Spec => []AddsDecideOnce
  <1>1. Init => CreateInv
    BY DEF Init, CreateInv, AddsDecideOnce
  <1>2. CreateInv => AddsDecideOnce
    BY DEF CreateInv
  <1> QED
    BY BaseAlways, CreateNext, <1>1, <1>2, PTL DEF Spec

-----------------------------------------------------------------------------
(* A client nobody names stays in the list.                                *)

NoApiRemoval == \A r \in Requests : does[r].op # "remove" \/ ~ does[r].api

\* No command ever reaches a client that no request names.
LEMMA UntouchedKeepsCert ==
    ASSUME Base, [Next]_vars, NEW c \in Clients, Untouched(c)
    PROVE  cert'[c] = cert[c]
  <1> USE DEF Base, Shape
  <1>1. ASSUME NEW r \in Requests, Start(r) \/ RequestStep(r) PROVE cert'[c] = cert[c]
    <2>1. Name(r) # c /\ Name(r) \in Clients
      BY <1>1, RequestEffects DEF Untouched
    <2> QED
      BY <1>1, <2>1, RequestPki DEF pki, Revoked, Issued
  <1>2. CASE RunOrphan
    <2>1. \A o \in orphans : o.name # c
      BY DEF OrphansOK, Untouched
    <2> QED
      BY <1>2, <2>1, OrphanBase DEF pki, Revoked, Issued
  <1>3. ASSUME NEW u \in Updaters, RefreshStep(u) PROVE cert'[c] = cert[c]
    BY <1>3, RefreshEffects DEF Refreshes, pki
  <1> QED
    BY <1>1, <1>2, <1>3, StepCases DEF vars, pki

\* An empty answer is not believed while a row is listed, unless a removal
\* asks: what is written shows every client that was valid when it was read.
LEMMA AnswerShows ==
    ASSUME Base, NoApiRemoval, NEW u \in Updaters, ReadList(u), view'[u].step = "write",
           NEW c \in Clients, cert[c] > 0, cached[c] > 0
    PROVE  view'[u].seen[c] > 0
  <1>1. PICK seen \in {cert, Nobody} : view'[u].seen = seen /\ ~ Suspicious(u, seen)
    BY ReadListBase
  <1>2. ~ AllowEmpty(u)
    <2>1. u # Timer => does[u].api /\ u \in Requests
      BY DEF ReadList, Due, Base, Fits, Updaters
    <2> QED
      BY <2>1 DEF AllowEmpty, NoApiRemoval
  <1>3. c \in Listed
    BY DEF Listed
  <1>4. seen # Nobody
    BY <1>1, <1>2, <1>3 DEF Suspicious
  <1> QED
    BY <1>1, <1>4

LEMMA ListNext == Base /\ ListInv /\ [Next]_vars => ListInv'
  <1> SUFFICES ASSUME Base, ListInv, [Next]_vars, NoApiRemoval', NEW c \in Clients, cert'[c] > 0, Untouched(c)'
               PROVE  /\ cached'[c] > 0
                      /\ \A u \in Updaters : view'[u].step = "write" => view'[u].seen[c] > 0
    BY DEF ListInv, NoApiRemoval, Valid
  <1>1. does' = does
    BY StepCases, RequestEffects, RefreshEffects, OrphanBase DEF Refreshes, setting, vars
  <1>2. NoApiRemoval /\ Untouched(c)
    BY <1>1 DEF NoApiRemoval, Untouched
  <1>3. cert[c] > 0
    BY <1>2, UntouchedKeepsCert
  <1>4. cached[c] > 0 /\ \A u \in Updaters : view[u].step = "write" => view[u].seen[c] > 0
    BY <1>2, <1>3 DEF ListInv, NoApiRemoval, Valid
  <1>5. ASSUME NEW u \in Updaters, RefreshStep(u)
        PROVE  /\ cached'[c] > 0
               /\ \A w \in Updaters : view'[w].step = "write" => view'[w].seen[c] > 0
    <2>1. CASE ReadList(u)
      BY <1>2, <1>3, <1>4, <2>1, AnswerShows, ReadListBase
    <2>2. CASE ListFails(u)
      BY <1>4, <2>2, ListFailsBase
    <2>3. CASE WriteCache(u)
      BY <1>4, <2>3, WriteBase
    <2> QED
      BY <1>5, <2>1, <2>2, <2>3 DEF RefreshStep
  <1> QED
    BY <1>4, <1>5, StepCases, RequestEffects, OrphanBase DEF vars, table

\* A client that no request names stays in the list the pages read, as long
\* as nothing is removed through the API (replace_client_status_cache and the
\* refusal of a suspiciously empty `pivpn list` in ingest_clients.py).
THEOREM UntouchedAlwaysListed == Spec => []UntouchedStayListed
  <1>1. Init => ListInv
    BY DEF Init, ListInv, Valid
  <1>2. ListInv => UntouchedStayListed
    BY DEF ListInv, UntouchedStayListed, Untouched
  <1> QED
    BY BaseAlways, ListNext, <1>1, <1>2, PTL DEF Spec

-----------------------------------------------------------------------------
(* A removal that reports success leaves no default rule of its client.    *)

LEMMA BusyStays ==
    ASSUME NEW r \in Requests, Others(r), UNCHANGED does, req'[r].step # "ready",
           NEW q \in Requests, NEW c, Busy(q, c)
    PROVE  Busy(q, c)'
    BY DEF Busy, Others

\* Rules of a client appear only while a creation of it is under way.
LEMMA RulesAppear ==
    ASSUME Base, NEW r \in Requests, Start(r) \/ RequestStep(r), NEW x \in rules', x \notin rules
    PROVE  AddRule(r) /\ x.owner = Name(r) /\ Busy(r, Name(r)) /\ x.by = r /\ x.src = req[r].addr
  <1>1. AddRule(r)
    BY DEF RequestStep, Start, ReadOwnAddress, Revoke, TakeLock, CheckAbsent, Issue, Confirm,
           ReadNewAddress, AddRule, RuleFails, CollectRules, DeleteRule, RemovalDone, Aborts
  <1>2. does[r].op \in Creations /\ req[r].step = "block"
    BY <1>1 DEF AddRule, Base, Fits
  <1> QED
    BY <1>1, <1>2, RequestEffects DEF AddRule, Busy, Creations

LEMMA CleanNext == Base /\ CleanInv /\ [Next]_vars => CleanInv'
  <1> SUFFICES ASSUME Base, CleanInv, [Next]_vars, NEW q \in Requests, req'[q].step = "delete",
                      \A p \in Requests : ~ Busy(p, Name(q))', NEW x \in rules', x.owner = Name(q)'
               PROVE  x \in req'[q].doomed
    BY DEF CleanInv
  <1>1. ASSUME NEW r \in Requests, Start(r) \/ RequestStep(r) PROVE x \in req'[q].doomed
    <2>1. Others(r) /\ does' = does /\ req'[r].step # "ready"
      BY <1>1, RequestEffects
    <2>2. \A p \in Requests : ~ Busy(p, Name(q)')
      BY <2>1, BusyStays DEF Busy
    <2>3. x \in rules
      BY <1>1, <2>2, RulesAppear
    <2>4. CASE q # r
      <3>1. req'[q] = req[q] /\ Name(q)' = Name(q)
        BY <2>1, <2>4 DEF Others, Name
      <3> QED
        BY <2>2, <2>3, <3>1 DEF CleanInv
    <2>5. CASE q = r
      <3>1. CollectRules(r) \/ DeleteRule(r)
        BY <1>1, <2>5, StartBase, AddressBase, RevokeBase, TakeLockBase, CheckBase, IssueBase,
           ConfirmBase, PinnedBase, AddRuleBase, RuleFailsBase, RemovedBase, AbortBase
        DEF RequestStep, FailedWith, Answered, First, Moved, AfterRevoke, AddRule
      <3>2. Name(r)' = Name(r)
        BY <3>1, CollectBase, DeleteBase DEF Moved, Name
      <3>3. CASE CollectRules(r)
        BY <2>3, <2>5, <3>2, <3>3, CollectBase DEF Owned
      <3>4. CASE DeleteRule(r)
        BY <2>2, <2>3, <2>5, <3>2, <3>4, DeleteBase DEF CleanInv, DeleteRule
      <3> QED
        BY <3>1, <3>3, <3>4
    <2> QED
      BY <2>4, <2>5
  <1>2. ASSUME NEW u \in Updaters, RefreshStep(u) PROVE x \in req'[q].doomed
    <2>1. Refreshes(u)
      BY <1>2, RefreshEffects
    <2>2. req'[q] = req[q] /\ rules' = rules /\ Name(q)' = Name(q)
      BY <2>1 DEF Refreshes, Name
    <2>3. \A p \in Requests : ~ Busy(p, Name(q))
      BY <2>1, <2>2 DEF Busy, Refreshes, setting
    <2> QED
      BY <2>2, <2>3 DEF CleanInv
  <1>3. CASE RunOrphan \/ UNCHANGED vars
    <2>1. UNCHANGED <<does, req, rules>>
      BY <1>3, OrphanBase DEF vars, setting
    <2> QED
      BY <2>1 DEF CleanInv, Busy, Name
  <1> QED
    BY <1>1, <1>2, <1>3, StepCases

\* A removal reports success only when its list of rules is used up.
LEMMA CleanStep ==
    ASSUME Base, CleanInv, [Next]_vars, NEW r \in Requests, NEW c \in Clients, does[r].op = "remove",
           outcome[r][c] # "ok", outcome'[r][c] = "ok", \A q \in Requests : ~ Busy(q, c),
           NEW x \in rules'
    PROVE  x.owner # c
  <1>1. Start(r) \/ RequestStep(r)
    BY StepCases, RequestEffects, RefreshEffects, OrphanBase DEF Refreshes, vars
  <1>2. c = Name(r)
    BY <1>1, RequestEffects
  <1>3. ASSUME NEW what, Answered(r, what) PROVE what = "ok"
    BY <1>2, <1>3 DEF Answered
  <1>4. RemovalDone(r)
    <2>1. ~ (Start(r) \/ ReadOwnAddress(r) \/ TakeLock(r) \/ CollectRules(r) \/ DeleteRule(r))
      BY DEF Start, ReadOwnAddress, TakeLock, CollectRules, DeleteRule
    <2>2. ~ Revoke(r)
      BY <1>3, RevokeBase
    <2>3. ~ (CheckAbsent(r) \/ Issue(r) \/ Confirm(r) \/ ReadNewAddress(r) \/ AddRule(r) \/ RuleFails(r))
      BY DEF CheckAbsent, Issue, Confirm, ReadNewAddress, AddRule, RuleFails, Base, Fits, Creations
    <2>4. ~ Aborts(r)
      BY <1>3, AbortBase
    <2> QED
      BY <1>1, <2>1, <2>2, <2>3, <2>4 DEF RequestStep
  <1> QED
    BY <1>2, <1>4 DEF RemovalDone, CleanInv

\* A removal that reports success leaves no default rule of the client, at
\* whatever address (remove_client_rules looks once and deletes by tag),
\* unless somebody is creating the client again.
THEOREM RemovalsClean == Spec => RemovalCleans
  <1>1. Init => CleanInv
    BY DEF Init, CleanInv
  <1>2. Base /\ CleanInv /\ [Next]_vars =>
          [\A r \in Requests, c \in Clients :
             /\ does[r].op = "remove"
             /\ outcome[r][c] # "ok" /\ outcome'[r][c] = "ok"
             /\ \A q \in Requests : ~ Busy(q, c)
             => \A x \in rules' : x.owner # c]_vars
    BY CleanStep
  <1> QED
    BY BaseAlways, CleanNext, <1>1, <1>2, PTL DEF Spec, RemovalCleans

-----------------------------------------------------------------------------
(* With one administrator, a client that is neither removed nor renewed    *)
(* keeps its default rules.                                                *)

LEMMA KeptBefore ==
    ASSUME Base, [Next]_vars, NEW c, Kept(c)' PROVE Kept(c)
  <1>1. ASSUME NEW r \in Requests, Start(r) \/ RequestStep(r) PROVE Kept(c)
    BY <1>1, RequestEffects, BegunStays DEF Kept
  <1>2. ASSUME NEW u \in Updaters, RefreshStep(u) PROVE Kept(c)
    BY <1>2, RefreshEffects DEF Refreshes, Kept, Begun, setting
  <1>3. CASE RunOrphan \/ UNCHANGED vars
    BY <1>3, OrphanBase DEF Kept, Begun, vars, setting
  <1> QED
    BY <1>1, <1>2, <1>3, StepCases

\* Only a removal or renewal takes a certificate and its address away, and
\* none is issued to a client that has one.
LEMMA KeptKeeps ==
    ASSUME Base, [Next]_vars, NEW c \in Clients, Kept(c), cert[c] > 0
    PROVE  cert'[c] > 0 /\ ip'[c] = ip[c]
  <1>1. ASSUME NEW r \in Requests, Start(r) \/ RequestStep(r) PROVE cert'[c] > 0 /\ ip'[c] = ip[c]
    <2>1. CASE req[r].step = "revoke" /\ Revoked(Name(r)) /\ does[r].op \in Endings
      <3>1. Name(r) # c /\ Name(r) \in Clients
        <4>1. Name(r) \in Clients /\ Name(r) \in ToSet(does[r].names)
          BY <1>1, RequestEffects
        <4>2. Begun(Name(r), Endings)
          BY <2>1, <4>1 DEF Begun
        <4> QED
          BY <4>1, <4>2 DEF Kept
      <3> QED
        BY <2>1, <3>1 DEF Revoked, Base, Shape
    <2>2. CASE cert[Name(r)] = 0 /\ Issued(Name(r))
      <3>1. Name(r) # c /\ Name(r) \in Clients
        BY <1>1, <2>2, RequestEffects
      <3> QED
        BY <2>2, <3>1 DEF Issued, Base, Shape
    <2> QED
      BY <1>1, <2>1, <2>2, RequestPki DEF pki
  <1>2. ASSUME NEW u \in Updaters, RefreshStep(u) PROVE cert'[c] > 0 /\ ip'[c] = ip[c]
    BY <1>2, RefreshEffects DEF Refreshes, pki
  <1>3. CASE RunOrphan
    <2>1. ASSUME NEW o \in orphans, o.cmd = "revoke" /\ Revoked(o.name) PROVE cert'[c] > 0 /\ ip'[c] = ip[c]
      <3>1. o.name # c
        BY <2>1 DEF OrphansOK, Kept, Base
      <3> QED
        BY <2>1, <3>1 DEF Revoked, Base, Shape
    <2>2. ASSUME NEW o \in orphans, cert[o.name] = 0, Issued(o.name) PROVE cert'[c] > 0 /\ ip'[c] = ip[c]
      BY <2>2 DEF Issued, Base, Shape
    <2> QED
      BY <1>3, <2>1, <2>2, OrphanBase DEF pki
  <1> QED
    BY <1>1, <1>2, <1>3, StepCases DEF vars, pki

\* The rules of a kept client are not deleted by anybody.
LEMMA KeptRules ==
    ASSUME Base, BlockInv, alone, NEW r \in Requests, Start(r) \/ RequestStep(r),
           NEW x \in rules, Kept(x.owner)
    PROVE  x \in rules'
  <1>1. CASE DeleteRule(r)
    BY <1>1, DeleteBase DEF BlockInv, Informed, DeleteRule
  <1>2. CASE ~ DeleteRule(r)
    BY <1>2 DEF RequestStep, Start, ReadOwnAddress, Revoke, TakeLock, CheckAbsent, Issue, Confirm,
           ReadNewAddress, AddRule, RuleFails, CollectRules, RemovalDone, Aborts
  <1> QED
    BY <1>1, <1>2

LEMMA AloneMoves ==
    ASSUME Base, BlockInv, alone, NEW r \in Requests, Start(r) \/ RequestStep(r)
    PROVE  /\ \A q \in Requests : q # r => Idle(q) /\ Idle(q)'
           /\ OneAtATime'
  <1>1. \A q \in Requests : q # r => Idle(q)
    <2>1. CASE Start(r)
      BY <2>1 DEF Start, Idle
    <2>2. CASE RequestStep(r)
      <3>1. ~ Idle(r)
        BY <2>2, RequestEffects
        DEF Idle, Ended, RequestStep, ReadOwnAddress, Revoke, TakeLock, CheckAbsent, Issue, Confirm,
            ReadNewAddress, AddRule, RuleFails, CollectRules, DeleteRule, RemovalDone, Aborts
      <3> QED
        BY <3>1 DEF BlockInv, OneAtATime
    <2> QED
      BY <2>1, <2>2
  <1>2. \A q \in Requests : q # r => Idle(q)'
    BY <1>1, RequestEffects DEF Others, Idle, Ended
  <1> QED
    BY <1>1, <1>2 DEF OneAtATime

LEMMA RulesFollowOn ==
    ASSUME Base, BlockInv, alone, NEW r \in Requests, Start(r) \/ RequestStep(r), Next
    PROVE  RulesFollow'
  <1> SUFFICES ASSUME NEW x \in rules', Kept(x.owner)'
               PROVE  x.src = ip'[x.owner] /\ cert'[x.owner] > 0
    BY DEF RulesFollow
  <1>1. Kept(x.owner) /\ x.owner \in Clients
    <2>1. rules' \subseteq Rule
      BY RequestEffects DEF Base, Shape
    <2> QED
      BY <2>1, KeptBefore DEF Rule
  <1>2. x.src = ip[x.owner] /\ cert[x.owner] > 0
    <2>1. CASE x \in rules
      BY <1>1, <2>1 DEF BlockInv, RulesFollow
    <2>2. CASE x \notin rules
      <3>1. AddRule(r) /\ x.owner = Name(r) /\ x.src = req[r].addr
        BY <2>2, RulesAppear
      <3> QED
        BY <1>1, <3>1 DEF BlockInv, Informed, AddRule
    <2> QED
      BY <2>1, <2>2
  <1> QED
    BY <1>1, <1>2, KeptKeeps

LEMMA BlockDone ==
    ASSUME Base, BlockInv, alone, NEW r \in Requests, Start(r) \/ RequestStep(r), Next
    PROVE  DefaultBlockKept'
  <1> SUFFICES ASSUME NEW p \in Requests, NEW c \in Clients, does'[p].op \in Creations,
                      outcome'[p][c] = "ok", Kept(c)'
               PROVE  cert'[c] > 0 /\ Blocked(c)'
    BY DEF DefaultBlockKept, Kept, Creations, Endings
  <1>1. Kept(c) /\ does' = does
    BY KeptBefore, RequestEffects
  <1>2. CASE outcome[p][c] = "ok"
    <2>1. cert[c] > 0 /\ Blocked(c)
      BY <1>1, <1>2 DEF BlockInv, DefaultBlockKept, Kept, Creations, Endings
    <2> QED
      BY <1>1, <2>1, KeptKeeps, KeptRules DEF Blocked
  <1>3. CASE outcome[p][c] # "ok"
    <2>1. p = r /\ c = Name(r)
      <3>1. outcome'[p][c] # outcome[p][c]
        BY <1>3
      <3>2. \A q \in Requests, d \in Clients : outcome'[q][d] # outcome[q][d] => q = r /\ d = Name(r)
        BY RequestEffects
      <3> QED
        BY <3>1, <3>2
    <2>2. ASSUME NEW what, Answered(r, what) PROVE what = "ok"
      BY <2>1, <2>2 DEF Answered
    <2>3. AddRule(r)
      <3>1. ~ (Start(r) \/ ReadOwnAddress(r) \/ TakeLock(r) \/ CollectRules(r) \/ DeleteRule(r))
        BY <1>3, <2>1 DEF Start, ReadOwnAddress, TakeLock, CollectRules, DeleteRule
      <3>2. ~ (Revoke(r) \/ RemovalDone(r))
        BY <1>1, <2>1, RemovedBase DEF Revoke, Base, Fits, Creations, Endings
      <3>3. ~ (CheckAbsent(r) \/ Issue(r))
        BY <1>3, <2>1, <2>2, CheckBase, IssueBase DEF FailedWith
      <3>4. ~ (Confirm(r) \/ ReadNewAddress(r) \/ RuleFails(r))
        BY <1>1, <1>3, <2>1, <2>2, ConfirmBase, PinnedBase, RuleFailsBase DEF FailedWith, Creations
      <3>5. ~ Aborts(r)
        BY <2>2, AbortBase
      <3> QED
        BY <3>1, <3>2, <3>3, <3>4, <3>5 DEF RequestStep
    <2>4. PICK k \in Missing(r) :
            /\ rules' = rules \cup {[owner |-> Name(r), src |-> req[r].addr, range |-> k, by |-> r]}
            /\ Missing(r) = {k}
      BY <1>3, <2>1, <2>3, AddRuleBase
    <2>5. cert[c] > 0 /\ req[r].addr = ip[c]
      BY <1>1, <2>1, <2>3 DEF BlockInv, Informed, AddRule
    <2>6. cert'[c] > 0 /\ ip'[c] = ip[c]
      BY <1>1, <2>5, KeptKeeps
    <2>7. \A j \in Ranges : j # k => \E x \in rules : x.owner = c /\ x.src = ip[c] /\ x.range = j
      BY <1>1, <2>1, <2>4 DEF Missing, BlockInv, RulesFollow
    <2>8. ASSUME NEW j \in Ranges PROVE \E x \in rules' : x.owner = c /\ x.src = ip[c] /\ x.range = j
      <3>1. CASE j # k
        BY <2>4, <2>7, <3>1
      <3>2. CASE j = k
        <4> DEFINE x == [owner |-> Name(r), src |-> req[r].addr, range |-> k, by |-> r]
        <4>1. x \in rules' /\ x.owner = c /\ x.src = ip[c] /\ x.range = j
          BY <2>1, <2>4, <2>5, <3>2
        <4> QED
          BY <4>1
      <3> QED
        BY <3>1, <3>2
    <2> QED
      BY <2>6, <2>8 DEF Blocked
  <1> QED
    BY <1>2, <1>3

\* What the others have read still holds: they have nothing under way.
LEMMA InformedOn ==
    ASSUME Base, BlockInv, alone, NEW r \in Requests, Start(r) \/ RequestStep(r), Next,
           NEW q \in Requests
    PROVE  Informed(q)'
  <1>1. \A c : Kept(c)' => Kept(c)
    BY KeptBefore
  <1>2. CASE q # r
    <2>1. req'[q] = req[q] /\ Idle(q) /\ Informed(q)
      BY <1>2, AloneMoves, RequestEffects DEF Others, BlockInv
    <2> QED
      BY <2>1 DEF Informed, Idle, Ended
  <1>3. CASE q = r
    <2> SUFFICES Informed(r)'
      BY <1>3
    <2>1. does' = does /\ Informed(r) /\ does[r].op # "none" /\ Name(r) \in Clients
            /\ Name(r) \in ToSet(does[r].names)
      BY RequestEffects DEF BlockInv
    <2>2. ASSUME NEW what, Answered(r, what) PROVE Informed(r)'
      BY <2>2 DEF Answered, Informed, First
    <2>3. CASE Start(r)
      BY <2>1, <2>3, StartBase DEF Informed, Moved, First, Start
    <2>4. CASE ReadOwnAddress(r)
      <3>1. req'[r].step = "revoke" /\ req'[r].addr \in {None, ip[Name(r)]} /\ rules' = rules
        BY <2>1, <2>4, AddressBase DEF Informed, Moved, ReadOwnAddress
      <3>2. ASSUME does[r].op = "remove", NEW x \in rules, Kept(x.owner) PROVE x.src # req'[r].addr
        <4>1. x.owner \in Clients /\ x.src \in Ips /\ x.src = ip[x.owner]
          BY <3>2 DEF BlockInv, RulesFollow, Base, Shape, Rule
        <4>2. Begun(Name(r), Endings)
          BY <2>1, <2>4, <3>2 DEF Begun, ReadOwnAddress, Endings
        <4>3. x.owner # Name(r)
          BY <3>2, <4>2 DEF Kept
        <4>4. ip[x.owner] # ip[Name(r)] /\ ip[x.owner] # None
          BY <2>1, <4>1, <4>3, ClientLifecycleAssumption DEF Base, PkiOK
        <4> QED
          BY <3>1, <4>1, <4>4
      <3> QED
        BY <1>1, <2>1, <3>1, <3>2 DEF Informed
    <2>5. CASE Revoke(r)
      <3>1. CASE Moved(r, AfterRevoke(r)) /\ req'[r].addr = req[r].addr
        <4>1. rules' = rules /\ req[r].step = "revoke"
          BY <2>5 DEF Revoke
        <4>2. req'[r].step = "lock" \/ (req'[r].step = "collect" /\ does[r].op = "remove")
          BY <3>1, <4>1 DEF Moved, AfterRevoke, Base, Fits, Endings
        <4> QED
          BY <1>1, <2>1, <3>1, <4>1, <4>2 DEF Informed
      <3> QED
        BY <2>2, <2>5, <3>1, RevokeBase
    <2>6. CASE TakeLock(r)
      BY <2>6, TakeLockBase DEF Informed, Moved
    <2>7. CASE CheckAbsent(r)
      BY <2>2, <2>7, CheckBase DEF Informed, Moved, FailedWith
    <2>8. CASE Issue(r)
      BY <2>2, <2>8, IssueBase DEF Informed, Moved, FailedWith
    <2>9. CASE Confirm(r)
      <3>1. CASE Moved(r, "pinned") /\ cert[Name(r)] > 0
        <4>1. cert' = cert
          BY <2>9 DEF Confirm, pki
        <4> QED
          BY <3>1, <4>1 DEF Informed, Moved, Name
      <3> QED
        BY <2>2, <2>9, <3>1, ConfirmBase DEF FailedWith
    <2>10. CASE ReadNewAddress(r)
      <3>1. CASE Moved(r, "block") /\ req'[r].addr = ip[Name(r)]
        <4>1. cert' = cert /\ ip' = ip /\ req[r].step = "pinned"
          BY <2>10 DEF ReadNewAddress, pki
        <4>2. Name(r)' = Name(r) /\ req'[r].step = "block"
          BY <3>1 DEF Moved, Name
        <4>3. Kept(Name(r)') => Kept(Name(r))
          BY <4>2
        <4> QED
          BY <1>1, <2>1, <3>1, <4>1, <4>2, <4>3 DEF Informed
      <3> QED
        BY <2>2, <2>10, <3>1, PinnedBase
    <2>11. CASE AddRule(r)
      <3>1. CASE UNCHANGED <<req, outcome>>
        <4>1. cert' = cert /\ ip' = ip /\ req' = req /\ req[r].step = "block" /\ Name(r)' = Name(r)
          BY <2>11, <3>1 DEF AddRule, pki, Name
        <4> QED
          BY <1>1, <2>1, <4>1 DEF Informed
      <3> QED
        BY <2>2, <2>11, <3>1, AddRuleBase
    <2>12. CASE CollectRules(r)
      <3>1. req'[r].step = "delete" /\ req'[r].doomed = Owned(Name(r), req[r].addr)
        BY <2>12, CollectBase DEF Moved
      <3>2. req[r].step = "collect" /\ does[r].op = "remove"
        BY <2>12 DEF CollectRules, Base, Fits
      <3>3. Begun(Name(r), Endings)
        BY <2>1, <3>2 DEF Begun, Endings
      <3>4. \A x \in Owned(Name(r), req[r].addr) : ~ Kept(x.owner)
        BY <2>1, <3>2, <3>3 DEF Owned, Kept, Informed
      <3> QED
        BY <1>1, <3>1, <3>4 DEF Informed
    <2>13. CASE DeleteRule(r)
      <3>1. req'[r].step = "delete" /\ req'[r].doomed \subseteq req[r].doomed /\ req[r].step = "delete"
        BY <2>13, DeleteBase DEF Moved, DeleteRule
      <3> QED
        BY <1>1, <2>1, <3>1 DEF Informed
    <2>14. CASE RuleFails(r) \/ RemovalDone(r) \/ Aborts(r)
      BY <2>2, <2>14, RuleFailsBase, RemovedBase, AbortBase
    <2> QED
      BY <2>3, <2>4, <2>5, <2>6, <2>7, <2>8, <2>9, <2>10, <2>11, <2>12, <2>13, <2>14 DEF RequestStep
  <1> QED
    BY <1>2, <1>3

\* A step of no request: a refresh, a late command, or nothing.
LEMMA BlockOthers ==
    ASSUME Base, BlockInv, alone, [Next]_vars,
           (\E u \in Updaters : RefreshStep(u)) \/ RunOrphan \/ UNCHANGED vars
    PROVE  BlockInv'
  <1>1. /\ UNCHANGED <<does, alone, rules, outcome>>
        /\ \A r \in Requests : \/ req'[r] = req[r]
                               \/ ~ Idle(r) /\ req'[r].step \in {"refresh", "shown", "closed"}
    BY RefreshEffects, OrphanBase DEF Refreshes, Idle, Ended, setting, vars
  <1>2. \A c : Kept(c)' => Kept(c)
    BY KeptBefore
  <1>3. ASSUME NEW c \in Clients, Kept(c)', cert[c] > 0 PROVE cert'[c] > 0 /\ ip'[c] = ip[c]
    BY <1>3, KeptBefore, KeptKeeps
  <1>4. OneAtATime'
    BY <1>1 DEF BlockInv, OneAtATime, Idle, Ended
  <1>5. RulesFollow'
    <2> SUFFICES ASSUME NEW x \in rules, Kept(x.owner)' PROVE x.src = ip'[x.owner] /\ cert'[x.owner] > 0
      BY <1>1 DEF RulesFollow
    <2>1. x.owner \in Clients
      BY DEF Base, Shape, Rule
    <2>2. x.src = ip[x.owner] /\ cert[x.owner] > 0
      BY <1>2 DEF BlockInv, RulesFollow
    <2> QED
      BY <1>3, <2>1, <2>2
  <1>6. ASSUME NEW r \in Requests PROVE Informed(r)'
    <2>1. Informed(r)
      BY DEF BlockInv
    <2>2. CASE req'[r] = req[r]
      <3>1. Name(r)' = Name(r)
        BY <2>2 DEF Name
      <3>2. req[r].step \in {"pinned", "block"} => Name(r) \in Clients
        BY ActiveAsks, NameIsAsked
      <3>3. req[r].step \in {"pinned", "block"} /\ Kept(Name(r))' =>
              cert[Name(r)] > 0 /\ cert'[Name(r)] > 0 /\ ip'[Name(r)] = ip[Name(r)]
        BY <1>2, <1>3, <2>1, <3>1, <3>2 DEF Informed
      <3> QED
        BY <1>1, <1>2, <2>1, <2>2, <3>1, <3>3 DEF Informed
    <2>3. CASE req'[r].step \in {"refresh", "shown", "closed"}
      BY <2>3 DEF Informed
    <2> QED
      BY <1>1, <2>2, <2>3
  <1>7. DefaultBlockKept'
    <2> SUFFICES ASSUME NEW p \in Requests, NEW c \in Clients, does[p].op \in Creations,
                        outcome[p][c] = "ok", Kept(c)'
                 PROVE  cert'[c] > 0 /\ Blocked(c)'
      BY <1>1 DEF DefaultBlockKept, Kept, Creations, Endings
    <2>1. cert[c] > 0 /\ Blocked(c)
      BY <1>2 DEF BlockInv, DefaultBlockKept, Kept, Creations, Endings
    <2> QED
      BY <1>1, <1>3, <2>1 DEF Blocked
  <1> QED
    BY <1>4, <1>5, <1>6, <1>7 DEF BlockInv

LEMMA BlockNext == Base /\ BlockInv /\ [Next]_vars => BlockInv'
  <1> SUFFICES ASSUME Base, BlockInv, [Next]_vars PROVE BlockInv'
    OBVIOUS
  <1>1. alone' = alone
    BY StepCases, RequestEffects, RefreshEffects, OrphanBase DEF Refreshes, setting, vars
  <1>2. CASE ~ alone
    BY <1>1, <1>2 DEF BlockInv
  <1>3. CASE alone
    <2>1. ASSUME NEW r \in Requests, Start(r) \/ RequestStep(r) PROVE BlockInv'
      <3>1. Next
        BY <2>1 DEF Next
      <3>2. OneAtATime' /\ RulesFollow' /\ DefaultBlockKept'
        BY <1>3, <2>1, <3>1, AloneMoves, RulesFollowOn, BlockDone
      <3>3. ASSUME NEW q \in Requests PROVE Informed(q)'
        BY <1>3, <2>1, <3>1, InformedOn
      <3> QED
        BY <3>2, <3>3 DEF BlockInv
    <2> QED
      BY <1>3, <2>1, StepCases, BlockOthers
  <1> QED
    BY <1>2, <1>3

LEMMA InitBlock == Init => BlockInv
  <1> SUFFICES ASSUME Init PROVE BlockInv
    OBVIOUS
  <1>1. \A r \in Requests : req[r].step \in {"ready", "closed"} /\ req[r].addr = None
    BY DEF Init
  <1>2. OneAtATime
    BY <1>1 DEF OneAtATime, Idle, Ended
  <1>3. \A x \in rules : x.owner \in Clients /\ x.src \in Ips /\ x.src = ip[x.owner]
    BY DEF Init
  <1>4. RulesFollow
    BY <1>3, ClientLifecycleAssumption DEF Init, RulesFollow
  <1>5. \A r \in Requests : Informed(r)
    BY <1>1 DEF Informed
  <1>6. DefaultBlockKept
    BY DEF DefaultBlockKept, Init
  <1> QED
    BY <1>2, <1>4, <1>5, <1>6 DEF BlockInv

\* With one administrator at a time, a client whose creation was reported as
\* a full success is kept out of every private range from the address it has
\* until it is removed or renewed itself: add_default_client_block writes the
\* rules for the address it looked up, which no removal has read before.
THEOREM DefaultBlocksStay == Spec => []DefaultBlockKept
  <1>1. BlockInv => DefaultBlockKept
    BY DEF BlockInv, DefaultBlockKept
  <1> QED
    BY BaseAlways, InitBlock, BlockNext, <1>1, PTL DEF Spec

-----------------------------------------------------------------------------
(* The list of clients is in one order.                                    *)

Distinct(s) == \A c, d \in Clients : c # d /\ s[c] > 0 => s[c] # s[d]

\* Serial numbers are given once, in the certificates and in every answer
\* that will be written.
OrderInv ==
    /\ Distinct(cert)
    /\ \A u \in Updaters : view[u].step = "write" => Distinct(view[u].seen)
    /\ OrderOK

LEMMA CertDistinct ==
    ASSUME Base, Distinct(cert), NEW c \in Clients, UNCHANGED pki \/ Revoked(c) \/ Issued(c)
    PROVE  Distinct(cert)'
  <1>1. cert \in [Clients -> 0 .. issued] /\ issued \in Nat
    BY DEF Base, Shape
  <1>2. CASE UNCHANGED pki
    BY <1>2 DEF Distinct, pki
  <1>3. CASE Revoked(c)
    BY <1>1, <1>3 DEF Distinct, Revoked
  <1>4. CASE Issued(c)
    <2>1. cert' = [cert EXCEPT ![c] = issued + 1]
      BY <1>4 DEF Issued
    <2>2. \A d \in Clients : cert[d] # issued + 1
      BY <1>1
    <2> QED
      BY <1>1, <2>1, <2>2 DEF Distinct
  <1> QED
    BY <1>2, <1>3, <1>4

\* Only a refresh that is written touches the order.
LEMMA OrderWaits ==
    ASSUME Base, [Next]_vars, ~ \E u \in Updaters : WriteCache(u)
    PROVE  above' = above /\ cached' = cached
  <1>1. ASSUME NEW r \in Requests, Start(r) \/ RequestStep(r) PROVE UNCHANGED table
    BY <1>1 DEF RequestStep, Start, ReadOwnAddress, Revoke, TakeLock, CheckAbsent, Issue, Confirm,
           ReadNewAddress, AddRule, RuleFails, CollectRules, DeleteRule, RemovalDone, Aborts
  <1>2. ASSUME NEW u \in Updaters, RefreshStep(u) PROVE UNCHANGED table
    BY <1>2 DEF RefreshStep, ReadList, ListFails
  <1> QED
    BY <1>1, <1>2, StepCases DEF table, vars, RunOrphan

\* Who is above whom after a refresh: the stamped ones by serial number, above
\* the others, who stay as they were.
LEMMA WrittenAbove ==
    ASSUME Base, NEW u \in Updaters, WriteCache(u)
    PROVE  LET seen == view[u].seen
               front == Stamped(u, seen)
           IN  /\ cached' = seen /\ seen \in [Clients -> Nat]
               /\ Listed' = {c \in Clients : seen[c] > 0}
               /\ \A c \in front : c \in Listed'
               /\ \A c \in Listed' \ front : c \in Listed
               /\ above' = [c \in Clients |->
                              IF c \in front THEN {d \in front : seen[d] > seen[c]}
                              ELSE IF c \in Listed' THEN front \cup (above[c] \cap Listed')
                              ELSE {}]
  <1> DEFINE seen == view[u].seen
             front == Stamped(u, seen)
  <1>1. cached' = seen /\ seen \in [Clients -> Nat] /\ cached \in [Clients -> Nat]
    BY WriteBase DEF Base, Shape
  <1>2. Listed' = {c \in Clients : seen[c] > 0}
    BY <1>1 DEF Listed
  <1>3. \A c \in front : c \in Listed'
    BY <1>2 DEF Stamped
  <1>4. \A c \in Listed' \ front : c \in Listed
    BY <1>1, <1>2 DEF Stamped, Listed
  <1>5. above' = [c \in Clients |->
                     IF c \in front THEN {d \in front : seen[d] > seen[c]}
                     ELSE IF cached'[c] > 0 THEN front \cup (above[c] \cap Listed')
                     ELSE {}]
    BY DEF WriteCache
  <1>6. \A c \in Clients : cached'[c] > 0 <=> c \in Listed'
    BY <1>1, <1>2
  <1> HIDE DEF front
  <1> QED
    BY <1>1, <1>2, <1>3, <1>4, <1>5, <1>6 DEF front

LEMMA WriteOrder ==
    ASSUME Base, OrderInv, NEW u \in Updaters, WriteCache(u)
    PROVE  OrderOK'
  <1> DEFINE seen == view[u].seen
             F == Stamped(u, seen)
             L == Listed'
             A(c) == IF c \in F THEN {d \in F : seen[d] > seen[c]}
                     ELSE IF c \in L THEN F \cup (above[c] \cap L) ELSE {}
  <1>1. /\ seen \in [Clients -> Nat] /\ L \subseteq Clients /\ F \subseteq L
        /\ \A c \in L : seen[c] > 0
        /\ L \ F \subseteq Listed
        /\ above' = [c \in Clients |-> A(c)]
    BY WrittenAbove
  <1>2. \A c, d \in L : c # d => seen[c] # seen[d]
    <2>1. view[u].step = "write"
      BY WriteBase
    <2> QED
      BY <1>1, <2>1 DEF OrderInv, Distinct
  <1>3. /\ above \in [Clients -> SUBSET Clients]
        /\ \A c, d \in Clients : d \in above[c] => c \notin above[d] /\ above[d] \subseteq above[c]
        /\ \A c, d \in L \ F : c = d \/ c \in above[d] \/ d \in above[c]
    BY <1>1 DEF OrderInv, OrderOK
  <1> HIDE DEF seen, F, L
  <1>4. \A c \in Clients : above'[c] = A(c) /\ A(c) \subseteq L
    BY <1>1
  <1>5. ASSUME NEW c \in Clients, NEW d \in A(c)
        PROVE  c \in L /\ d \in L /\ c \notin A(d) /\ A(d) \subseteq A(c)
    <2>1. CASE c \in F
      BY <1>1, <1>5, <2>1
    <2>2. CASE c \notin F /\ d \in F
      BY <1>1, <1>5, <2>2
    <2>3. CASE c \notin F /\ d \notin F
      <3>1. c \in L /\ d \in above[c] /\ d \in L
        BY <1>5, <2>3
      <3>2. c \notin above[d] /\ above[d] \subseteq above[c]
        BY <1>1, <1>3, <3>1
      <3> QED
        BY <2>3, <3>1, <3>2
    <2> QED
      BY <2>1, <2>2, <2>3
  <1>6. ASSUME NEW c \in L, NEW d \in L
        PROVE  c = d \/ c \in A(d) \/ d \in A(c)
    <2>1. CASE c \in F /\ d \in F
      <3>1. seen[c] \in Nat /\ seen[d] \in Nat /\ (c # d => seen[c] # seen[d])
        BY <1>1, <1>2
      <3> QED
        BY <2>1, <3>1
    <2>2. CASE c \in F /\ d \notin F
      BY <2>2
    <2>3. CASE c \notin F /\ d \in F
      BY <2>3
    <2>4. CASE c \notin F /\ d \notin F
      BY <1>3, <2>4
    <2> QED
      BY <2>1, <2>2, <2>3, <2>4
  <1>7. above' \in [Clients -> SUBSET Clients]
    BY <1>1, <1>4
  <1> HIDE DEF A
  <1> QED
    BY <1>1, <1>4, <1>5, <1>6, <1>7 DEF OrderOK, L

LEMMA OrderNext == Base /\ OrderInv /\ [Next]_vars => OrderInv'
  <1> SUFFICES ASSUME Base, OrderInv, [Next]_vars PROVE OrderInv'
    OBVIOUS
  <1>1. Distinct(cert)'
    <2>1. ASSUME NEW r \in Requests, Start(r) \/ RequestStep(r) PROVE Distinct(cert)'
      <3>1. Name(r) \in Clients
        BY <2>1, RequestEffects
      <3> QED
        BY <2>1, <3>1, RequestPki, CertDistinct DEF OrderInv
    <2>2. CASE RunOrphan
      <3>1. \A o \in orphans : o.name \in Clients
        BY DEF Base, Shape
      <3>2. UNCHANGED pki \/ \E o \in orphans : Revoked(o.name) \/ Issued(o.name)
        BY <2>2, OrphanBase
      <3>3. CASE UNCHANGED pki
        BY <3>3 DEF OrderInv, Distinct, pki
      <3> QED
        BY <3>1, <3>2, <3>3, CertDistinct DEF OrderInv
    <2>3. ASSUME NEW u \in Updaters, RefreshStep(u) PROVE Distinct(cert)'
      BY <2>3, RefreshEffects DEF Refreshes, pki, OrderInv, Distinct
    <2>4. CASE UNCHANGED vars
      BY <2>4 DEF vars, pki, OrderInv, Distinct
    <2> QED
      BY <2>1, <2>2, <2>3, <2>4, StepCases
  <1>2. ASSUME NEW w \in Updaters, view'[w].step = "write" PROVE Distinct(view'[w].seen)
    <2>1. CASE view' = view
      BY <1>2, <2>1 DEF OrderInv
    <2>2. ASSUME NEW u \in Updaters, RefreshStep(u) PROVE Distinct(view'[w].seen)
      <3>1. CASE w # u
        BY <1>2, <2>2, <3>1, RefreshEffects DEF OrderInv
      <3>2. CASE w = u
        <4>1. ReadList(u)
          BY <1>2, <2>2, <3>2, ListFailsBase, WriteBase DEF RefreshStep
        <4>2. view'[w].seen \in {cert, Nobody}
          BY <1>2, <3>2, <4>1, ReadListBase
        <4>3. Distinct(Nobody)
          BY DEF Distinct, Nobody
        <4> QED
          BY <4>2, <4>3 DEF OrderInv
      <3> QED
        BY <3>1, <3>2
    <2> QED
      BY <2>1, <2>2, StepCases, RequestEffects, OrphanBase DEF vars
  <1>3. OrderOK'
    <2>1. ASSUME above' = above, cached' = cached PROVE OrderOK'
      BY <2>1 DEF OrderInv, OrderOK, Listed
    <2> QED
      BY <2>1, OrderWaits, WriteOrder
  <1> QED
    BY <1>1, <1>2, <1>3 DEF OrderInv

LEMMA InitOrder == Init => OrderInv
  <1> SUFFICES ASSUME Init PROVE OrderInv
    OBVIOUS
  <1>1. Base
    BY InitBase
  <1>2. cached = cert /\ Distinct(cert)
    BY DEF Init, Distinct
  <1>3. \A u \in Updaters : view[u].step = "idle"
    BY DEF Init
  <1>4. cached \in [Clients -> Nat]
    BY <1>1 DEF Base, Shape
  <1>5. above = [c \in Clients |-> IF c \in Listed THEN {d \in Clients : cached[d] > cached[c]} ELSE {}]
    BY DEF Init
  <1>6. OrderOK
    BY <1>2, <1>4, <1>5 DEF OrderOK, Listed, Distinct
  <1> QED
    BY <1>2, <1>3, <1>6 DEF OrderInv

\* Every variable keeps its shape, and the list is in one order whichever
\* refreshes wrote it (replace_client_status_cache stamps some of the rows and
\* leaves the others as they were stamped).
THEOREM TypesAndOrder == Spec => []TypeOK
  <1>1. Base /\ OrderInv => TypeOK
    BY DEF Base, OrderInv, TypeOK
  <1> QED
    BY BaseAlways, InitOrder, OrderNext, <1>1, PTL DEF Spec

-----------------------------------------------------------------------------
(* Whoever is answered is on top of the list.                              *)

\* Requests for one client.
Single(r) == does[r].op \in {"add", "renew"}

\* They keep their one name, and report success as their last step but for
\* the refresh.
SingleInv ==
    \A r \in Requests : Single(r) =>
        /\ Tail(req[r].left) = <<>>
        /\ \A c \in Clients : outcome[r][c] = "ok" =>
              c = Name(r) /\ req[r].step \in {"refresh", "shown", "closed"}

\* No call can fail any more, and no command is left to be carried out late.
Spent == orphans = {} /\ faults = MaxFaults

Succeeded(r) == outcome[r][Name(r)] = "ok"

\* The certificate a request has seen is there until a command that was given
\* up takes it away, and then nothing is left that could issue another one.
Holds(r) ==
    \/ req[r].step \in {"pinned", "block"}
    \/ req[r].step = "refresh" /\ Succeeded(r)
    => cert[Name(r)] > 0 \/ Spent

\* What such a request is about to write of its client is its certificate,
\* unless that is gone.
Shows(r) ==
    view[r].step = "write" /\ Succeeded(r) /\ view[r].seen # Nobody =>
        cert[Name(r)] \in {0, view[r].seen[Name(r)]}

TopInv ==
    alone /\ MaxFaults <= 1 =>
        /\ \A o, p \in orphans : o = p
        /\ \A r \in Requests : Single(r) => Holds(r) /\ Shows(r)

\* A step of a request, by what becomes of its entry.
LEMMA RequestEntry ==
    ASSUME Base, NEW r \in Requests, Start(r) \/ RequestStep(r)
    PROVE  \/ \E p \in Steps \ {"shown", "refresh"} : Moved(r, p) /\ UNCHANGED outcome
           \/ UNCHANGED <<req, outcome>>
           \/ \E what : Answered(r, what)
  <1>1. CASE Start(r)
    BY <1>1, StartBase DEF Start, First, Steps
  <1>2. CASE ReadOwnAddress(r)
    BY <1>2, AddressBase DEF ReadOwnAddress, Steps
  <1>3. CASE Revoke(r)
    BY <1>3, RevokeBase DEF AfterRevoke, Steps
  <1>4. CASE TakeLock(r)
    BY <1>4, TakeLockBase DEF TakeLock, Steps
  <1>5. CASE CheckAbsent(r)
    BY <1>5, CheckBase DEF FailedWith, Steps
  <1>6. CASE Issue(r)
    BY <1>6, IssueBase DEF FailedWith, Steps
  <1>7. CASE Confirm(r)
    BY <1>7, ConfirmBase DEF FailedWith, Steps
  <1>8. CASE ReadNewAddress(r)
    BY <1>8, PinnedBase DEF Steps
  <1>9. CASE AddRule(r)
    BY <1>9, AddRuleBase
  <1>10. CASE RuleFails(r)
    BY <1>10, RuleFailsBase
  <1>11. CASE CollectRules(r)
    BY <1>11, CollectBase DEF CollectRules, Steps
  <1>12. CASE DeleteRule(r)
    BY <1>12, DeleteBase DEF DeleteRule, Steps
  <1>13. CASE RemovalDone(r)
    BY <1>13, RemovedBase
  <1>14. CASE Aborts(r)
    BY <1>14, AbortBase
  <1> QED
    BY <1>1, <1>2, <1>3, <1>4, <1>5, <1>6, <1>7, <1>8, <1>9, <1>10, <1>11, <1>12, <1>13, <1>14
    DEF RequestStep

LEMMA SingleRequest ==
    ASSUME Base, SingleInv, NEW r \in Requests, Start(r) \/ RequestStep(r), Single(r)
    PROVE  /\ req'[r].left = req[r].left /\ Name(r)' = Name(r) /\ req'[r].step # "shown"
           /\ \A c \in Clients : outcome[r][c] # "ok"
           /\ \A c \in Clients : outcome'[r][c] = "ok" => c = Name(r) /\ req'[r].step \in {"refresh", "closed"}
  <1>1. Tail(req[r].left) = <<>> /\ req[r].step \notin {"refresh", "shown", "closed"}
    BY RequestEffects DEF SingleInv
  <1>2. \A c \in Clients : outcome[r][c] # "ok"
    BY <1>1 DEF SingleInv
  <1>3. CASE \E p \in Steps \ {"shown", "refresh"} : Moved(r, p) /\ UNCHANGED outcome
    BY <1>2, <1>3 DEF Moved, Name
  <1>4. CASE UNCHANGED <<req, outcome>>
    BY <1>1, <1>2, <1>4 DEF Name
  <1>5. ASSUME NEW what, Answered(r, what)
        PROVE  /\ req'[r].left = req[r].left /\ req'[r].step \in {"refresh", "closed"}
               /\ \A c \in Clients : outcome'[r][c] = "ok" => c = Name(r)
    BY <1>1, <1>2, <1>5 DEF Answered
  <1> QED
    BY <1>2, <1>3, <1>4, <1>5, RequestEntry DEF Name

LEMMA SingleNext == Base /\ SingleInv /\ [Next]_vars => SingleInv'
  <1> SUFFICES ASSUME Base, SingleInv, [Next]_vars, NEW q \in Requests, Single(q)'
               PROVE  /\ Tail(req'[q].left) = <<>>
                      /\ \A c \in Clients : outcome'[q][c] = "ok" =>
                            c = Name(q)' /\ req'[q].step \in {"refresh", "shown", "closed"}
    BY DEF SingleInv
  <1>1. Single(q)
    BY StepCases, RequestEffects, RefreshEffects, OrphanBase DEF Refreshes, setting, vars, Single
  <1>2. /\ Tail(req[q].left) = <<>>
        /\ \A c \in Clients : outcome[q][c] = "ok" =>
              c = Name(q) /\ req[q].step \in {"refresh", "shown", "closed"}
    BY <1>1 DEF SingleInv
  <1>3. ASSUME NEW r \in Requests, Start(r) \/ RequestStep(r)
        PROVE  /\ Tail(req'[q].left) = <<>>
               /\ \A c \in Clients : outcome'[q][c] = "ok" =>
                     c = Name(q)' /\ req'[q].step \in {"refresh", "shown", "closed"}
    <2>1. CASE q = r
      BY <1>1, <1>2, <1>3, <2>1, SingleRequest
    <2>2. CASE q # r
      <3>1. req'[q] = req[q] /\ \A c \in Clients : outcome'[q][c] = outcome[q][c]
        BY <1>3, <2>2, RequestEffects DEF Others
      <3> QED
        BY <1>2, <3>1 DEF Name
    <2> QED
      BY <2>1, <2>2
  <1>4. ASSUME NEW u \in Updaters, RefreshStep(u)
        PROVE  /\ Tail(req'[q].left) = <<>>
               /\ \A c \in Clients : outcome'[q][c] = "ok" =>
                     c = Name(q)' /\ req'[q].step \in {"refresh", "shown", "closed"}
    <2>1. /\ outcome' = outcome /\ req'[q].left = req[q].left
          /\ req'[q] = req[q] \/ req'[q].step \in {"refresh", "shown", "closed"}
      BY <1>4, RefreshEffects DEF Refreshes
    <2> QED
      BY <1>2, <2>1 DEF Name
  <1>5. CASE UNCHANGED <<req, outcome>>
    BY <1>2, <1>5 DEF Name
  <1> QED
    BY <1>3, <1>4, <1>5, StepCases, OrphanBase DEF vars

LEMMA InitTop == Init => SingleInv /\ TopInv
  <1> SUFFICES ASSUME Init PROVE SingleInv /\ TopInv
    OBVIOUS
  <1>1. PICK s \in Scenarios : does = s.does
    BY DEF Init
  <1>2. \A r \in Requests : Single(r) => Tail(does[r].names) = <<>>
    BY <1>1, ClientLifecycleAssumption DEF Single
  <1>3. \A r \in Requests : req[r].left = does[r].names /\ req[r].step \in {"ready", "closed"}
    BY DEF Init
  <1>4. \A r \in Requests, c \in Clients : outcome[r][c] # "ok"
    BY DEF Init
  <1>5. orphans = {} /\ \A u \in Updaters : view[u].step = "idle"
    BY DEF Init
  <1>6. \A r \in Requests : view[r].step = "idle"
    BY <1>5 DEF Updaters
  <1> QED
    BY <1>2, <1>3, <1>4, <1>5, <1>6 DEF SingleInv, TopInv, Holds, Shows

\* A request leaves one command behind at most, when a call of its own fails.
LEMMA RequestLeaves ==
    ASSUME Base, NEW r \in Requests, Start(r) \/ RequestStep(r)
    PROVE  orphans' = orphans \/ (Fault /\ \E o : orphans' = orphans \cup {o})
    BY DEF RequestStep, Start, ReadOwnAddress, Revoke, TakeLock, CheckAbsent, Issue, Confirm,
           ReadNewAddress, AddRule, RuleFails, CollectRules, DeleteRule, RemovalDone, Aborts

\* A request that has seen its certificate has seen it where it is now.
LEMMA RequestHolds ==
    ASSUME Base, SingleInv, TopInv, alone, MaxFaults <= 1,
           NEW r \in Requests, Start(r) \/ RequestStep(r), Single(r)
    PROVE  Holds(r)'
  <1> SUFFICES ASSUME \/ req'[r].step \in {"pinned", "block"}
                      \/ req'[r].step = "refresh" /\ outcome'[r][Name(r)] = "ok"
               PROVE  cert'[Name(r)] > 0 \/ Spent'
    BY SingleRequest DEF Holds, Succeeded
  <1>1. outcome[r][Name(r)] # "ok" /\ Name(r) \in Clients
    BY SingleRequest, RequestEffects
  <1>2. ASSUME NEW what, Answered(r, what) PROVE what = "ok"
    <2>1. req'[r].step \notin {"pinned", "block"}
      BY <1>2 DEF Answered, First
    <2> QED
      BY <1>1, <1>2, <2>1 DEF Answered
  <1>3. ASSUME NEW p, Moved(r, p), UNCHANGED outcome PROVE p \in {"pinned", "block"}
    BY <1>1, <1>3 DEF Moved
  <1>4. ~ (Start(r) \/ ReadOwnAddress(r) \/ TakeLock(r) \/ CollectRules(r) \/ DeleteRule(r))
    <2>1. ~ Start(r)
      BY <1>3, StartBase DEF First, Start
    <2>2. ~ ReadOwnAddress(r)
      BY <1>3, AddressBase DEF ReadOwnAddress
    <2>3. ~ TakeLock(r)
      BY <1>3, TakeLockBase DEF TakeLock
    <2>4. ~ CollectRules(r)
      BY <1>3, CollectBase DEF CollectRules
    <2>5. ~ DeleteRule(r)
      BY DeleteBase DEF Single
    <2> QED
      BY <2>1, <2>2, <2>3, <2>4, <2>5
  <1>5. ~ (Revoke(r) \/ CheckAbsent(r) \/ Issue(r) \/ RuleFails(r) \/ Aborts(r))
    BY <1>2, <1>3, RevokeBase, CheckBase, IssueBase, RuleFailsBase, AbortBase DEF FailedWith, AfterRevoke
  <1>6. ~ RemovalDone(r)
    BY RemovedBase DEF Single
  <1>7. CASE Confirm(r)
    <2>1. cert[Name(r)] > 0
      BY <1>2, <1>7, ConfirmBase DEF FailedWith
    <2> QED
      BY <1>7, <2>1 DEF Confirm, pki
  <1>8. CASE ReadNewAddress(r)
    <2>1. ip[Name(r)] # None
      BY <1>2, <1>8, PinnedBase
    <2>2. cert[Name(r)] > 0
      BY <1>1, <2>1 DEF Base, PkiOK, Shape
    <2> QED
      BY <1>8, <2>2 DEF ReadNewAddress, pki
  <1>9. CASE AddRule(r)
    <2>1. cert[Name(r)] > 0 \/ Spent
      BY <1>9 DEF TopInv, Holds, AddRule
    <2> QED
      BY <1>9, <2>1 DEF AddRule, pki, Spent
  <1> QED
    BY <1>4, <1>5, <1>6, <1>7, <1>8, <1>9 DEF RequestStep

LEMMA TopRequest ==
    ASSUME Base, BlockInv, SingleInv, TopInv, alone, MaxFaults <= 1,
           NEW r \in Requests, Start(r) \/ RequestStep(r)
    PROVE  TopInv'
  <1>1. \A o, p \in orphans' : o = p
    <2>1. CASE orphans' = orphans
      BY <2>1 DEF TopInv
    <2>2. CASE Fault /\ \E o : orphans' = orphans \cup {o}
      <3>1. faults = 0
        BY <2>2, ClientLifecycleAssumption DEF Fault, Base, Shape
      <3>2. orphans = {}
        BY <3>1 DEF Base, OrphansOK
      <3> QED
        BY <2>2, <3>2
    <2> QED
      BY <2>1, <2>2, RequestLeaves
  <1>2. ASSUME NEW q \in Requests, Single(q) PROVE Holds(q)' /\ Shows(q)'
    <2>1. ~ (view'[q].step = "write") \/ req'[q].step = "refresh"
      BY RequestEffects DEF Base, Writing
    <2>2. CASE q # r
      <3>1. req'[q].step \notin {"pinned", "block", "refresh"}
        BY <2>2, AloneMoves DEF Idle, Ended
      <3> QED
        BY <2>1, <3>1 DEF Holds, Shows
    <2>3. CASE q = r
      <3>1. req[q].step # "refresh" /\ view' = view
        BY <2>3, RequestEffects
      <3>2. view'[q].step # "write"
        BY <3>1 DEF Base, Writing
      <3> QED
        BY <1>2, <2>3, <3>2, RequestHolds DEF Shows
    <2> QED
      BY <2>2, <2>3
  <1>3. does' = does
    BY RequestEffects
  <1> QED
    BY <1>1, <1>2, <1>3 DEF TopInv, Single

LEMMA TopRefresh ==
    ASSUME Base, SingleInv, TopInv, alone, MaxFaults <= 1, NEW u \in Updaters, RefreshStep(u)
    PROVE  TopInv'
  <1>1. /\ UNCHANGED <<does, cert, orphans, outcome>>
        /\ \A r \in Requests : r # u => req'[r] = req[r] /\ view'[r] = view[r]
        /\ u \in Requests => req[u].step = "refresh" /\ req'[u].step \in {"refresh", "shown", "closed"}
                             /\ req'[u].left = req[u].left
    BY RefreshEffects DEF Refreshes, setting, pki, Updaters
  <1>2. Spent => Spent'
    <2>1. UNCHANGED faults \/ Fault
      BY DEF RefreshStep, ReadList, ListFails, WriteCache
    <2> QED
      BY <1>1, <2>1, ClientLifecycleAssumption DEF Spent, Fault
  <1>3. \A r \in Requests : Name(r)' = Name(r)
    BY <1>1 DEF Name
  <1>4. ASSUME NEW r \in Requests, Single(r) PROVE Holds(r)' /\ Shows(r)'
    <2>1. Holds(r) /\ Shows(r)
      BY <1>4 DEF TopInv
    <2>2. Holds(r)'
      <3>1. req'[r].step = req[r].step \/ (req[r].step = "refresh" /\ req'[r].step \notin {"pinned", "block", "refresh"})
        BY <1>1
      <3> QED
        BY <1>1, <1>2, <1>3, <2>1, <3>1 DEF Holds, Succeeded
    <2>3. Shows(r)'
      <3>1. CASE r # u
        BY <1>1, <1>3, <2>1, <3>1 DEF Shows, Succeeded
      <3>2. CASE r = u
        <4>1. CASE view'[r].step = "write"
          <5>1. ReadList(r)
            BY <3>2, <4>1, ListFailsBase, WriteBase DEF RefreshStep
          <5>2. view'[r].seen \in {cert, Nobody}
            BY <3>2, <4>1, <5>1, ReadListBase
          <5> QED
            BY <1>1, <1>3, <5>2 DEF Shows
        <4> QED
          BY <4>1 DEF Shows
      <3> QED
        BY <3>1, <3>2
    <2> QED
      BY <2>2, <2>3
  <1> QED
    BY <1>1, <1>4 DEF TopInv, Single

LEMMA TopOrphan ==
    ASSUME Base, SingleInv, TopInv, alone, MaxFaults <= 1, RunOrphan
    PROVE  TopInv'
  <1>1. /\ UNCHANGED <<does, req, outcome, view, faults>> /\ orphans # {}
        /\ \/ UNCHANGED pki
           \/ \E o \in orphans : \/ Revoked(o.name)
                                 \/ cert[o.name] = 0 /\ Issued(o.name)
    BY OrphanBase DEF setting
  <1>2. orphans' = {}
    <2>1. \E o \in orphans : orphans' = orphans \ {o}
      BY DEF RunOrphan
    <2> QED
      BY <2>1 DEF TopInv
  <1>3. faults = MaxFaults
    <2>1. faults # 0 /\ faults \in 0 .. MaxFaults
      BY <1>1 DEF Base, Shape, OrphansOK
    <2> QED
      BY <2>1, ClientLifecycleAssumption
  <1>4. Spent'
    BY <1>1, <1>2, <1>3 DEF Spent
  <1>5. ASSUME NEW r \in Requests, Single(r) PROVE Shows(r)'
    <2>1. CASE view[r].step = "write" /\ Succeeded(r)
      <3>1. req[r].step = "refresh"
        BY <2>1 DEF Base, Writing
      <3>2. cert[Name(r)] > 0
        BY <1>1, <1>5, <2>1, <3>1 DEF TopInv, Holds, Spent
      <3>3. Name(r) \in Clients
        BY <1>5, NameIsAsked DEF Single
      <3>4. cert'[Name(r)] \in {0, cert[Name(r)]}
        BY <1>1, <3>2, <3>3 DEF pki, Revoked, Issued, Base, Shape
      <3>5. Name(r)' = Name(r)
        BY <1>1 DEF Name
      <3> QED
        BY <1>1, <1>5, <3>2, <3>4, <3>5 DEF TopInv, Shows, Succeeded
    <2>2. CASE ~ (view[r].step = "write" /\ Succeeded(r))
      BY <1>1, <2>2 DEF Shows, Succeeded, Name
    <2> QED
      BY <2>1, <2>2
  <1> QED
    BY <1>1, <1>2, <1>4, <1>5 DEF TopInv, Holds, Single

LEMMA TopNext == Base /\ BlockInv /\ SingleInv /\ TopInv /\ [Next]_vars => TopInv'
  <1> SUFFICES ASSUME Base, BlockInv, SingleInv, TopInv, [Next]_vars PROVE TopInv'
    OBVIOUS
  <1>1. alone' = alone
    BY StepCases, RequestEffects, RefreshEffects, OrphanBase DEF Refreshes, setting, vars
  <1>2. CASE ~ (alone /\ MaxFaults <= 1)
    BY <1>1, <1>2 DEF TopInv
  <1>3. CASE UNCHANGED vars
    BY <1>3 DEF vars, setting, pki, TopInv, Holds, Shows, Succeeded, Single, Spent, Name
  <1> QED
    BY <1>2, <1>3, StepCases, TopRequest, TopRefresh, TopOrphan

\* Only a refresh that was written says "shown".
LEMMA ShownByWriting ==
    ASSUME Base, SingleInv, [Next]_vars, NEW r \in Requests, Single(r),
           req[r].step # "shown", req'[r].step = "shown"
    PROVE  WriteCache(r)
  <1>1. RefreshStep(r)
    <2>1. ASSUME NEW q \in Requests, Start(q) \/ RequestStep(q) PROVE FALSE
      BY <2>1, RequestEffects, SingleRequest DEF Others
    <2>2. ASSUME NEW u \in Updaters, RefreshStep(u) PROVE u = r
      BY <2>2, RefreshEffects DEF Refreshes
    <2> QED
      BY <2>1, <2>2, StepCases, OrphanBase DEF vars
  <1>2. r # Timer /\ r \in Updaters
    BY ClientLifecycleAssumption DEF Updaters
  <1>3. ~ Over(r, "closed") /\ req' # req
    <2>1. Over(r, "closed") => Go(r, "closed") /\ "closed" \in Steps
      BY <1>2 DEF Over, Go, Steps
    <2> QED
      BY <2>1, Goes DEF Moved
  <1>4. ~ ReadList(r)
    BY <1>3 DEF ReadList
  <1>5. ~ ListFails(r)
    BY <1>3 DEF ListFails
  <1> QED
    BY <1>1, <1>4, <1>5 DEF RefreshStep

LEMMA TopStep ==
    ASSUME Base, SingleInv, TopInv, [Next]_vars, MaxFaults <= 1, NEW r \in Requests, NEW c \in Clients,
           alone, Single(r), outcome[r][c] = "ok",
           req[r].step # "shown", req'[r].step = "shown", Listed' # {}
    PROVE  /\ cert[c] > 0 => cached'[c] = cert[c]
           /\ \A d \in above'[c] : cached'[d] > cached'[c]
  <1>1. WriteCache(r) /\ c = Name(r) /\ r \in Updaters /\ r # Timer
    BY ShownByWriting, ClientLifecycleAssumption DEF SingleInv, Updaters
  <1> DEFINE seen == view[r].seen
             front == Stamped(r, seen)
  <1>2. /\ cached' = seen /\ seen \in [Clients -> Nat]
        /\ Listed' = {d \in Clients : seen[d] > 0}
        /\ above' = [d \in Clients |->
                       IF d \in front THEN {e \in front : seen[e] > seen[d]}
                       ELSE IF d \in Listed' THEN front \cup (above[d] \cap Listed')
                       ELSE {}]
    BY <1>1, WrittenAbove
  <1>3. seen # Nobody
    BY <1>2 DEF Nobody
  <1>4. cert[c] \in {0, seen[c]}
    BY <1>1, <1>3, WriteBase DEF TopInv, Shows, Succeeded
  <1>5. seen[c] > 0 => c \in front
    BY <1>1 DEF Stamped, JustTouched, Single
  <1> HIDE DEF seen, front
  <1> QED
    BY <1>2, <1>4, <1>5

\* With one administrator at a time, and one call that fails at most, a
\* creation or renewal that is answered after its refresh was written is in
\* the list with its new certificate, below none but clients with a newer one:
\* replace_client_status_cache stamps the row it is told was just touched.
THEOREM AnswersOnTop ==
    ASSUME MaxFaults <= 1
    PROVE  Spec => AnsweredOnTop
  <1>1. Base /\ SingleInv /\ TopInv /\ [Next]_vars =>
          [\A r \in Requests, c \in Clients :
             /\ alone
             /\ does[r].op \in {"add", "renew"} /\ outcome[r][c] = "ok"
             /\ req[r].step # "shown" /\ req'[r].step = "shown"
             /\ Listed' # {}
             => /\ cert[c] > 0 => cached'[c] = cert[c]
                /\ \A d \in above'[c] : cached'[d] > cached'[c]]_vars
    BY TopStep DEF Single
  <1> QED
    BY BaseAlways, InitBlock, BlockNext, InitTop, SingleNext, TopNext, <1>1, PTL DEF Spec, AnsweredOnTop
=============================================================================
