--------------------------- MODULE ClientLifecycle ---------------------------
(***************************************************************************)
(* The life of a VPN client: requests that create, import, renew and      *)
(* remove clients (app/pivpn_ctl.py behind app/routes.py and app/api.py), *)
(* the certificates and static addresses PiVPN keeps for them, the default *)
(* DROP rules each new client gets (app/firewall.py), and the list of      *)
(* clients the pages read (client_status_cache), which a timer and every   *)
(* API request copy from `pivpn list` (deploy/ingest_clients.py).          *)
(*                                                                         *)
(* Nothing makes a request atomic: `pivpn add`, `pivpn revoke`, `pivpn     *)
(* list`, each look at the addresses and each firewall rule is a call of   *)
(* its own, through the hub when there is one, and a call that is given up *)
(* may still be carried out later.  Only the creation of a client is under *)
(* a lock.  The live sessions of the list are in HubGateway.tla, the       *)
(* application of one firewall rule in Firewall.tla.                       *)
(***************************************************************************)
EXTENDS Naturals, Sequences, FiniteSets, SequencesExt

CONSTANTS
    Clients,      \* client names
    Ips,          \* the addresses PiVPN may pin to a client
    Ranges,       \* the private ranges a new client is kept out of
    Requests,     \* requests that change clients
    Timer,        \* the systemd timer that refreshes the list
    None,         \* no request, no address
    Scenarios,    \* what the administrators do; see Init
    MaxFaults     \* bound on failed calls and empty answers

(* What one request is to do, to one name or, in bulk, to several.         *)
Task == [op : {"add", "import", "renew", "remove", "none"}, names : Seq(Clients), api : BOOLEAN]

ASSUME ClientLifecycleAssumption ==
    /\ IsFiniteSet(Clients)
    /\ None \notin Requests \cup Ips
    /\ Timer \notin Requests
    /\ Ranges \subseteq Nat
    /\ MaxFaults \in Nat
    /\ \A s \in Scenarios :
          /\ s.alone \in BOOLEAN
          \* PiVPN pins an address to one client only
          /\ s.start \in [Clients -> Ips \cup {None}]
          /\ \A c, d \in Clients : c # d /\ s.start[c] # None => s.start[c] # s.start[d]
          /\ s.does \in [Requests -> Task]
          \* a request that names nobody changes nothing and is left out
          /\ \A r \in Requests : s.does[r].op # "none" => s.does[r].names # <<>>
          \* only an import and a removal take several names
          /\ \A r \in Requests : s.does[r].op \in {"add", "renew"} => Tail(s.does[r].names) = <<>>

VARIABLES
    does,     \* the requests of this scenario: [op, names, api]
    alone,    \* one administrator, who waits for each answer
    cert,     \* serial number of each client's valid certificate, 0: none
    ip,       \* the address pinned to each client
    issued,   \* the last serial number
    rules,    \* default rules: [owner, src, range, by]
    lock,     \* the request inside _add_client_lock
    orphans,  \* commands whose caller gave up and that may still run
    req,      \* where each request is: [step, left, addr, doomed]
    outcome,  \* what each request reported of each name
    view,     \* refreshes under way: [step, seen]
    cached,   \* client_status_cache: serial number listed, 0: no row
    above,    \* of each row, the rows with a later expiration_changed_at
    faults

pki == <<cert, ip, issued>>
table == <<cached, above>>
setting == <<does, alone>>
vars == <<setting, pki, rules, lock, orphans, req, outcome, view, table, faults>>

Updaters == Requests \cup {Timer}
Steps == {"ready", "address", "revoke", "lock", "check", "issue", "confirm",
          "pinned", "block", "collect", "delete", "refresh", "shown", "closed"}
Outcomes == {"none", "ok", "partial", "exists", "refused", "timeout", "missing", "failed"}

Rule == [owner : Clients, src : Ips, range : Ranges, by : Requests \cup {None}]

Entry == [step : Steps, left : Seq(Clients), addr : Ips \cup {None}, doomed : SUBSET Rule]

Name(r) == Head(req[r].left)
Ended(r) == req[r].step \in {"shown", "closed"}
Used == {ip[c] : c \in Clients} \ {None}
Valid == {c \in Clients : cert[c] > 0}
Listed == {c \in Clients : cached[c] > 0}

(* Certificates issued before the run show another expiration day than the *)
(* ones issued during it, which all show the same day.                     *)
Expiration(serial) == IF serial <= Cardinality(Clients) THEN serial ELSE Cardinality(Clients) + 1

(* Mutations, each in place of the definition it is named for when a       *)
(* property is tried against a plausible bug.                              *)
MutNoLock           == TRUE         \* LockFree: creations side by side
MutKeepsLock(r)     == lock         \* Released: a way out that forgets the lock
MutAnyClient(n, a)  == {x \in rules : x.owner = n \/ a # None}  \* Owned: anybody's rules
MutByAddress(n, a)  == {x \in rules : a # None /\ x.src = a}    \* Owned: the name ignored
MutNeverTouched(u)  == {}           \* JustTouched: only the day is compared
MutBelieves(u, s)   == FALSE        \* Suspicious: an empty answer is believed
MutKeepsRows(s)     == [c \in Clients |-> IF s[c] > 0 THEN s[c] ELSE cached[c]]  \* Rows: no DELETE
MutOldStamps(u, s)  == {c \in Listed : s[c] > cached[c]}  \* Stamped: a new row is not

-----------------------------------------------------------------------------
Init ==
    /\ \E s \in Scenarios :
          /\ does = s.does
          /\ alone = s.alone
          /\ ip = s.start
    /\ \E number \in [Clients -> 0 .. Cardinality(Clients)] :
          /\ \A c \in Clients : (number[c] > 0) <=> (ip[c] # None)
          /\ \A c, d \in Clients : c # d /\ number[c] > 0 => number[c] # number[d]
          /\ cert = number
          /\ cached = number
    /\ above = [c \in Clients |-> IF c \in Listed THEN {d \in Clients : cached[d] > cached[c]} ELSE {}]
    /\ issued = Cardinality(Clients)
    /\ rules = {x \in [owner : Clients, src : Ips, range : Ranges, by : {None}] : x.src = ip[x.owner]}
    /\ lock = None
    /\ orphans = {}
    /\ req = [r \in Requests |-> [step |-> IF does[r].op = "none" THEN "closed" ELSE "ready",
                                  left |-> does[r].names, addr |-> None, doomed |-> {}]]
    /\ outcome = [r \in Requests |-> [c \in Clients |-> "none"]]
    /\ view = [u \in Updaters |-> [step |-> "idle", seen |-> [c \in Clients |-> 0]]]
    /\ faults = 0

(* One step of a request; a fault is a call that fails or runs out of time. *)
Go(r, step) == req' = [req EXCEPT ![r].step = step]
Fault == faults < MaxFaults /\ faults' = faults + 1

(* The first step of a request's next name. *)
First(op) == IF op \in {"add", "import"} THEN "lock" ELSE "address"

LockFree == lock = None
Released(r) == IF lock = r THEN None ELSE lock

(* One name is done: the outcome is reported, the lock is released, and    *)
(* the request goes on with its next name, or with the refresh of the list *)
(* when it came through the API and changed something, or is closed.       *)
WantsRefresh(r, reports) ==
    /\ does[r].api
    /\ \E c \in Clients :
          \/ reports[c] = "ok"
          \/ reports[c] = "partial"

Finish(r, what) ==
    LET reports == [outcome[r] EXCEPT ![Name(r)] = what]
        rest == Tail(req[r].left)
    IN  /\ outcome' = [outcome EXCEPT ![r] = reports]
        /\ lock' = Released(r)
        /\ req' = [req EXCEPT ![r] =
                     [step |-> IF rest # <<>> THEN First(does[r].op)
                               ELSE IF WantsRefresh(r, reports) THEN "refresh" ELSE "closed",
                      left |-> IF rest = <<>> THEN req[r].left ELSE rest,
                      addr |-> None, doomed |-> {}]]

(* A failed creation: a renewal has revoked the old certificate already.   *)
FailAdd(r, what) == Finish(r, IF does[r].op = "renew" THEN "partial" ELSE what)

Start(r) ==
    /\ req[r].step = "ready"
    /\ alone => \A q \in Requests \ {r} : Ended(q) \/ req[q].step = "ready"
    /\ Go(r, First(does[r].op))
    /\ UNCHANGED <<setting, pki, rules, lock, orphans, outcome, view, table, faults>>

-----------------------------------------------------------------------------
(* _revoke_client: the address is read first; without it only the name is  *)
(* left to recognise the client's rules by.                                *)
ReadOwnAddress(r) ==
    /\ req[r].step = "address"
    /\ \/ req' = [req EXCEPT ![r].step = "revoke", ![r].addr = ip[Name(r)]] /\ UNCHANGED faults
       \/ Go(r, "revoke") /\ Fault
    /\ UNCHANGED <<setting, pki, rules, lock, orphans, outcome, view, table>>

(* PiVPN's own scripts: `pivpn revoke` takes the certificate and the       *)
(* address away, `pivpn add` issues both; any free address may be given.   *)
Revoked(c) ==
    /\ cert' = [cert EXCEPT ![c] = 0]
    /\ ip' = [ip EXCEPT ![c] = None]
    /\ UNCHANGED issued

Issued(c) ==
    /\ issued' = issued + 1
    /\ cert' = [cert EXCEPT ![c] = issued']
    /\ \E a \in Ips \ Used : ip' = [ip EXCEPT ![c] = a]

(* After the revocation a removal goes on to the firewall rules, a renewal *)
(* to the creation under the same name.                                    *)
AfterRevoke(r) == IF does[r].op = "renew" THEN "lock" ELSE "collect"

Revoke(r) ==
    /\ req[r].step = "revoke"
    /\ \/ /\ cert[Name(r)] > 0
          /\ Revoked(Name(r))
          /\ Go(r, AfterRevoke(r))
          /\ UNCHANGED <<lock, orphans, outcome, faults>>
       \/ /\ cert[Name(r)] = 0
          /\ Finish(r, "refused")
          /\ UNCHANGED <<pki, orphans, faults>>
       \/ /\ Fault
          /\ Finish(r, "timeout")
          /\ orphans' = orphans \cup {[cmd |-> "revoke", name |-> Name(r)]}
          /\ UNCHANGED pki
    /\ UNCHANGED <<setting, rules, view, table>>

(* add_client, all of it inside _add_client_lock.                          *)
TakeLock(r) ==
    /\ req[r].step = "lock"
    /\ LockFree
    /\ lock' = r
    /\ Go(r, "check")
    /\ UNCHANGED <<setting, pki, rules, orphans, outcome, view, table, faults>>

(* A look for the .ovpn file that the gateway or the agent answers not ok  *)
(* counts as a file that is not there; only no answer at all is an error.  *)
CheckAbsent(r) ==
    /\ req[r].step = "check"
    /\ \/ cert[Name(r)] = 0 /\ Go(r, "issue") /\ UNCHANGED <<lock, outcome, faults>>
       \/ cert[Name(r)] > 0 /\ FailAdd(r, "exists") /\ UNCHANGED faults
       \/ Fault /\ Go(r, "issue") /\ UNCHANGED <<lock, outcome>>
       \/ Fault /\ FailAdd(r, "failed")
    /\ UNCHANGED <<setting, pki, rules, orphans, view, table>>

Issue(r) ==
    /\ req[r].step = "issue"
    /\ \/ /\ cert[Name(r)] = 0
          /\ Issued(Name(r))
          /\ Go(r, "confirm")
          /\ UNCHANGED <<lock, orphans, outcome, faults>>
       \/ /\ cert[Name(r)] > 0
          /\ FailAdd(r, "refused")
          /\ UNCHANGED <<pki, orphans, faults>>
       \/ /\ Fault
          /\ FailAdd(r, "timeout")
          /\ orphans' = orphans \cup {[cmd |-> "add", name |-> Name(r)]}
          /\ UNCHANGED pki
    /\ UNCHANGED <<setting, rules, view, table>>

Confirm(r) ==
    /\ req[r].step = "confirm"
    /\ \/ /\ cert[Name(r)] > 0
          /\ IF does[r].op = "renew"
             THEN Finish(r, "ok")
             ELSE Go(r, "pinned") /\ UNCHANGED <<lock, outcome>>
          /\ UNCHANGED faults
       \/ cert[Name(r)] = 0 /\ FailAdd(r, "missing") /\ UNCHANGED faults
       \/ Fault /\ \E what \in {"missing", "failed"} : FailAdd(r, what)
    /\ UNCHANGED <<setting, pki, rules, orphans, view, table>>

(* The address for the default rules: {} when the lookup fails.            *)
ReadNewAddress(r) ==
    /\ req[r].step = "pinned"
    /\ \/ /\ ip[Name(r)] # None
          /\ req' = [req EXCEPT ![r].step = "block", ![r].addr = ip[Name(r)]]
          /\ UNCHANGED <<lock, outcome, faults>>
       \/ ip[Name(r)] = None /\ Finish(r, "partial") /\ UNCHANGED faults
       \/ Fault /\ Finish(r, "partial")
    /\ UNCHANGED <<setting, pki, rules, orphans, view, table>>

(* add_default_client_block: one rule per range, in order, no rollback.    *)
Missing(r) == {k \in Ranges : ~ \E x \in rules : x.owner = Name(r) /\ x.by = r /\ x.range = k}

AddRule(r) ==
    /\ req[r].step = "block"
    /\ \E k \in Missing(r) :
          /\ \A j \in Missing(r) : k <= j
          /\ rules' = rules \cup {[owner |-> Name(r), src |-> req[r].addr, range |-> k, by |-> r]}
          /\ IF Missing(r) = {k}
             THEN Finish(r, "ok")
             ELSE UNCHANGED <<req, lock, outcome>>
    /\ UNCHANGED <<setting, pki, orphans, view, table, faults>>

RuleFails(r) ==
    /\ req[r].step = "block"
    /\ Fault
    /\ Finish(r, "partial")
    /\ UNCHANGED <<setting, pki, rules, orphans, view, table>>

(* remove_client_rules: one look at the table, then one deletion a rule.   *)
Owned(name, addr) ==
    {x \in rules : x.owner = name \/ (addr # None /\ x.src = addr)}

CollectRules(r) ==
    /\ req[r].step = "collect"
    /\ req' = [req EXCEPT ![r].step = "delete", ![r].doomed = Owned(Name(r), req[r].addr)]
    /\ UNCHANGED <<setting, pki, rules, lock, orphans, outcome, view, table, faults>>

DeleteRule(r) ==
    /\ req[r].step = "delete"
    /\ \E x \in req[r].doomed :
          /\ rules' = rules \ {x}
          /\ req' = [req EXCEPT ![r].doomed = @ \ {x}]
    /\ UNCHANGED <<setting, pki, lock, orphans, outcome, view, table, faults>>

RemovalDone(r) ==
    /\ req[r].step = "delete"
    /\ req[r].doomed = {}
    /\ Finish(r, "ok")
    /\ UNCHANGED <<setting, pki, rules, orphans, view, table, faults>>

(* An error of the database, or of a deletion, that nobody catches ends    *)
(* the request where it is: the rules not yet added or deleted and the     *)
(* names left are dropped, and the list is not refreshed.                  *)
Aborts(r) ==
    /\ req[r].step \in {"block", "collect", "delete"}
    /\ Fault
    /\ outcome' = [outcome EXCEPT ![r][Name(r)] = "failed"]
    /\ lock' = Released(r)
    /\ req' = [req EXCEPT ![r] = [step |-> "closed", left |-> req[r].left, addr |-> None, doomed |-> {}]]
    /\ UNCHANGED <<setting, pki, rules, orphans, view, table>>

(* A command nobody waits for is carried out late, or never.               *)
RunOrphan ==
    \E o \in orphans :
        /\ orphans' = orphans \ {o}
        /\ \/ o.cmd = "revoke" /\ cert[o.name] > 0 /\ Revoked(o.name)
           \/ o.cmd = "add" /\ cert[o.name] = 0 /\ Issued(o.name)
           \/ UNCHANGED pki
        /\ UNCHANGED <<setting, rules, lock, req, outcome, view, table, faults>>

-----------------------------------------------------------------------------
(* ingest_client_status, run by the timer or at the end of an API request. *)
AllowEmpty(u) == u # Timer /\ does[u].op = "remove"

JustTouched(u) ==
    IF /\ u # Timer
       /\ \/ does[u].op = "add"
          \/ does[u].op = "renew" /\ outcome[u][Name(u)] = "ok"
    THEN {Name(u)} ELSE {}

Nobody == [c \in Clients |-> 0]
Suspicious(u, seen) == seen = Nobody /\ ~AllowEmpty(u) /\ Listed # {}

(* A refresh is over; a request that began it is answered.                 *)
Over(u, step) ==
    /\ view' = [view EXCEPT ![u] = [step |-> "idle", seen |-> Nobody]]
    /\ req' = IF u = Timer THEN req ELSE [req EXCEPT ![u].step = step]

Due(u) == view[u].step = "idle" /\ (u # Timer => req[u].step = "refresh")

(* `pivpn list` fails, answers, or answers with no rows at all because the *)
(* link to the agent hiccups.                                              *)
ReadList(u) ==
    /\ Due(u)
    /\ \E seen \in {cert, Nobody} :
          /\ IF seen = cert THEN UNCHANGED faults ELSE Fault
          /\ IF Suspicious(u, seen)
             THEN Over(u, "closed")
             ELSE view' = [view EXCEPT ![u] = [step |-> "write", seen |-> seen]] /\ UNCHANGED req
    /\ UNCHANGED <<setting, pki, rules, lock, orphans, outcome, table>>

ListFails(u) ==
    /\ Due(u)
    /\ Fault
    /\ Over(u, "closed")
    /\ UNCHANGED <<setting, pki, rules, lock, orphans, outcome, table>>

(* replace_client_status_cache: rows that are not listed go, the others    *)
(* are written; a new row, a new expiration day and the name just touched  *)
(* are stamped, which moves them to the front one after the other.         *)
Stamped(u, seen) ==
    {c \in Clients : /\ seen[c] > 0
                     /\ \/ cached[c] = 0
                        \/ Expiration(seen[c]) # Expiration(cached[c])
                        \/ c \in JustTouched(u)}

Rows(seen) == seen

WriteCache(u) ==
    /\ view[u].step = "write"
    /\ LET seen == view[u].seen
           front == Stamped(u, seen)
       IN  /\ cached' = Rows(seen)
           /\ above' = [c \in Clients |->
                           IF c \in front THEN {d \in front : seen[d] > seen[c]}
                           ELSE IF cached'[c] > 0 THEN front \cup (above[c] \cap Listed')
                           ELSE {}]
    /\ Over(u, "shown")
    /\ UNCHANGED <<setting, pki, rules, lock, orphans, outcome, faults>>

-----------------------------------------------------------------------------
RequestStep(r) ==
    \/ ReadOwnAddress(r) \/ Revoke(r)
    \/ TakeLock(r) \/ CheckAbsent(r) \/ Issue(r) \/ Confirm(r)
    \/ ReadNewAddress(r) \/ AddRule(r) \/ RuleFails(r)
    \/ CollectRules(r) \/ DeleteRule(r) \/ RemovalDone(r) \/ Aborts(r)

RefreshStep(u) == ReadList(u) \/ ListFails(u) \/ WriteCache(u)

Next ==
    \/ \E r \in Requests : Start(r) \/ RequestStep(r)
    \/ \E u \in Updaters : RefreshStep(u)
    \/ RunOrphan

Spec == Init /\ [][Next]_vars

(* A worker thread runs a request it has accepted to the end and flock     *)
(* wakes a waiting one; systemd starts the timer's unit again and again.   *)
FairSpec ==
    /\ Spec
    /\ \A r \in Requests : WF_vars(RequestStep(r)) /\ WF_vars(RefreshStep(r))
    /\ WF_vars(RefreshStep(Timer))

-----------------------------------------------------------------------------
(* Every variable keeps its shape.                                         *)
Shape ==
    /\ alone \in BOOLEAN /\ issued \in Nat
    /\ does \in [Requests -> Task]
    /\ cert \in [Clients -> 0 .. issued] /\ cached \in [Clients -> 0 .. issued]
    /\ ip \in [Clients -> Ips \cup {None}]
    /\ rules \subseteq Rule
    /\ lock \in Requests \cup {None}
    /\ orphans \subseteq [cmd : {"add", "revoke"}, name : Clients]
    /\ req \in [Requests -> Entry]
    /\ outcome \in [Requests -> [Clients -> Outcomes]]
    /\ view \in [Updaters -> [step : {"idle", "write"}, seen : [Clients -> 0 .. issued]]]
    /\ faults \in 0 .. MaxFaults

(* The list is in one order, whichever refreshes wrote it: of two listed   *)
(* clients one is above the other, and what is above it is above both.     *)
OrderOK ==
    /\ above \in [Clients -> SUBSET Clients]
    /\ \A c, d \in Clients :
          /\ d \in above[c] => c \in Listed /\ d \in Listed /\ c \notin above[d] /\ above[d] \subseteq above[c]
          /\ c \in Listed /\ d \in Listed => c = d \/ c \in above[d] \/ d \in above[c]

TypeOK == Shape /\ OrderOK

(* Creations of one name are decided one after the other: as long as no    *)
(* call fails, `pivpn add` never meets a client that appeared after the    *)
(* look for its .ovpn file.                                                *)
AddsDecideOnce ==
    faults = 0 => \A r \in Requests, c \in Clients :
                     does[r].op \in {"add", "import"} => outcome[r][c] # "refused"

(* With one administrator at a time, a client whose creation was reported  *)
(* as a full success is kept out of every private range from the address   *)
(* it has, whoever was removed or renewed before or after, until it is     *)
(* removed or renewed itself.                                              *)
Blocked(c) == \A k \in Ranges : \E x \in rules : x.owner = c /\ x.src = ip[c] /\ x.range = k

Begun(c, ops) ==
    \E q \in Requests : /\ does[q].op \in ops
                        /\ c \in ToSet(does[q].names)
                        /\ req[q].step # "ready"

DefaultBlockKept ==
    alone => \A r \in Requests, c \in Clients :
        /\ does[r].op \in {"add", "import"}
        /\ outcome[r][c] = "ok"
        /\ ~Begun(c, {"remove", "renew"})
        => cert[c] > 0 /\ Blocked(c)

(* A removal that reports success leaves no default rule of the client, at *)
(* whatever address, unless somebody is creating the client again.         *)
Busy(r, c) ==
    /\ does[r].op \in {"add", "import", "renew"}
    /\ c \in ToSet(does[r].names)
    /\ req[r].step # "ready"

RemovalCleans ==
    [][\A r \in Requests, c \in Clients :
          /\ does[r].op = "remove"
          /\ outcome[r][c] # "ok" /\ outcome'[r][c] = "ok"
          /\ \A q \in Requests : ~Busy(q, c)
          => \A x \in rules' : x.owner # c]_vars

(* A client that no request names stays in the list the pages read, as     *)
(* long as nothing is removed through the API: no slow, failed or empty    *)
(* answer and no overlap of refreshes takes it out.                        *)
UntouchedStayListed ==
    (\A r \in Requests : does[r].op # "remove" \/ ~does[r].api) =>
        \A c \in Valid :
            (\A r \in Requests : c \notin ToSet(does[r].names)) => cached[c] > 0

(* Renewed on the day it was issued, a client still moves to the top: with *)
(* one administrator at a time, a creation or renewal that is answered     *)
(* after its refresh was written is in the list with its new certificate,  *)
(* below none but clients with a newer one (unless the list came empty).   *)
AnsweredOnTop ==
    [][\A r \in Requests, c \in Clients :
          /\ alone
          /\ does[r].op \in {"add", "renew"} /\ outcome[r][c] = "ok"
          /\ req[r].step # "shown" /\ req'[r].step = "shown"
          /\ Listed' # {}
          => /\ cert[c] > 0 => cached'[c] = cert[c]
             /\ \A d \in above'[c] : cached'[d] > cached'[c]]_vars

(* The list ends up showing exactly the clients that are valid, unless the *)
(* last one was removed without the API: an empty answer is not believed.  *)
CacheSettles == <>[](Valid = {} \/ cached = cert)

(* Every request that is begun is answered: no way out of it keeps the     *)
(* lock.                                                                   *)
RequestsEnd ==
    \A r \in Requests : (req[r].step # "ready") ~> Ended(r)

(* A renewal keeps the client's firewall policy: a client that was kept    *)
(* out of the private ranges before it was renewed is kept out after.      *)
RenewalKeepsPolicy ==
    alone => \A r \in Requests, c \in Clients :
        /\ does[r].op = "renew" /\ outcome[r][c] = "ok"
        /\ ~Begun(c, {"remove"})
        /\ \E x \in rules : x.owner = c
        => Blocked(c)

(* A removal spares the default rules of every other client that is valid. *)
RemovalSparesOthers ==
    [][\A c \in Clients : /\ cert[c] > 0 /\ Blocked(c)
                          /\ \A r \in Requests : does[r].op = "remove" => c \notin ToSet(does[r].names)
                          => Blocked(c)' \/ ip'[c] # ip[c]]_vars
=============================================================================
