------------------------------ MODULE Firewall ------------------------------
(***************************************************************************)
(* app/firewall.py at work: the firewall_rules table, the live iptables    *)
(* chains, and the web workers that keep the two together.                 *)
(*                                                                         *)
(* Two locks exist.  db.locked_transaction() is one Postgres advisory lock *)
(* (variable advisory): a read-check-write of the table holds it.          *)
(* _rebuild_chain_lock() is a file lock (variable flock): the rebuild of a *)
(* chain and the discovery of hand-typed rules hold it.  Every iptables    *)
(* command is a step of its own, and so are the statements of an unlocked  *)
(* insert: this is where requests interleave.                              *)
(***************************************************************************)
EXTENDS FirewallRules

CONSTANTS Workers,        \* threads and processes that serve requests
          Requests,       \* the requests that may arrive
          InitTables,     \* rule tables the server may start from
          ManualRules,    \* <<chain, shape>>: what an operator may type
          MaxRequests,    \* bound: requests served in a behaviour
          MaxManual,      \* bound: rules typed by hand
          MaxLosses,      \* bound: rules deleted by hand, flushes, reboots
          MaxCrashes,     \* bound: workers killed in mid-request
          IptablesFails   \* may a well-formed iptables command fail?

ASSUME IptablesAssumption == IptablesFails \in BOOLEAN
ASSUME WorkersAssumption == None \notin Workers
ASSUME BoundsAssumption == {MaxRequests, MaxManual, MaxLosses, MaxCrashes} \subseteq Nat
ASSUME ManualAssumption == ManualRules \subseteq Chains \X Shape

\* What the routes hand over: `by` is the address to protect, if any.
Request ==
    LET by == Addrs \cup {None}
    IN  [op : {"add", "block", "unblock"}, by : by, shape : Shape]
            \cup [op : {"toggle", "disable", "delete"}, by : by, id : Nat]
            \cup [op : {"reorder"}, by : by, id : Nat, target : Nat, place : {"before", "after"}]
            \cup [op : {"sync", "discover"}, by : by]

\* The add forms make every kind but a client block, which names its client.
ASSUME RequestsAssumption ==
    \A r \in Requests :
        /\ r \in Request
        /\ r.op = "add" => r.shape.kind \notin {"client_block", "other"}
        /\ r.op \in {"block", "unblock"} => IsBlock(r.shape) /\ r.shape.client \in Clients

\* A table the code wrote holds one block row per client at most.
ASSUME TablesAssumption ==
    \A t \in InitTables :
        /\ IsTable(t) /\ IsFiniteSet(DOMAIN t)
        /\ \A c \in Clients : \A i, j \in BlockRows(t, c) : i = j

VARIABLES rules,     \* the firewall_rules table
          nextId,    \* its identity sequence
          live,      \* live[c]: the entries of iptables chain c
          advisory,  \* holder of the advisory lock, or None
          flock,     \* holder of the rebuild lock, or None
          pc,        \* pc[w]: where worker w is
          job,       \* job[w]: the local variables of its handler
          spent      \* what the bounds have been charged

vars == <<rules, nextId, live, advisory, flock, pc, job, spent>>

\* Positions of a handler between two of its steps.
Places == {"idle", "lock", "read", "decide", "unblock", "max", "insert",
           "apply", "undo", "unapply", "enable", "sync", "start", "flock", "list",
           "strip", "fill", "snapshot", "scan", "adopt", "claim", "drop"}

\* An iptables command; when it fails, and its failure is swallowed, the
\* next `skip` commands are given up with it.
Command == [op : {"-A", "-I", "-D"}, chain : Chains, entry : Entry, skip : Nat]

NoJob == [req |-> None, id |-> 0, snap |-> <<>>, pos |-> 0, cmds |-> <<>>,
          chains |-> <<>>, scan |-> <<>>, found |-> <<>>, touched |-> {}]

-----------------------------------------------------------------------------
(* Mutations: plausible bugs, each in place of the definition it is named   *)
(* for when a property is tested against it.  No specification uses them.   *)

MutNoLock            == TRUE      \* AdvisoryFree, FlockFree: do not wait
MutRowFirst(w)       == TRUE      \* BothHalvesGone: delete the row before
MutLockedRebuild     == "flock"   \* UnlockedRebuild: flock is not reentrant
MutAnyTag(e)         == TRUE      \* HasOwnedTag: hand-typed rules as well
MutIncludesOff(t, chain) ==       \* WantedIds: disabled rows as well
    Ordered(t, {i \in DOMAIN t : InChain(t, i, chain)})

-----------------------------------------------------------------------------
(* Command lists. *)

\* One command per half, in _apply's order; an error gives up the rest.
HalfCommands(op, id, shape) ==
    [k \in DOMAIN Halves(shape.kind) |->
        [op |-> op, chain |-> Halves(shape.kind)[k], entry |-> LiveEntry(id, shape),
         skip |-> Len(Halves(shape.kind)) - k]]

Apply(id, shape) == HalfCommands(IF IsBlock(shape) THEN "-I" ELSE "-A", id, shape)

Unapply(id, shape) == HalfCommands("-D", id, shape)

ApplyIdempotent(id, shape) == Unapply(id, shape) \o Apply(id, shape)

\* What _rebuild_chain_unlocked deletes: every entry with a numeric tag.
HasOwnedTag(e) == e.id # 0

StripCommands(chain) ==
    LET owned == Selected(live[chain], {k \in DOMAIN live[chain] : HasOwnedTag(live[chain][k])})
    IN  [k \in DOMAIN owned |->
            [op |-> "-D", chain |-> chain, entry |-> owned[k], skip |-> 0]]

\* What it adds back: the enabled rules of the chain, by position.
WantedIds(t, chain) == Ordered(t, {i \in Enabled(t) : InChain(t, i, chain)})

FillCommands(t, chain) ==
    LET ids == WantedIds(t, chain)
    IN  [k \in DOMAIN ids |->
            [op |-> "-A", chain |-> chain, entry |-> LiveEntry(ids[k], t[ids[k]].shape),
             skip |-> 0]]

\* sync_all's first loop: the enabled client blocks, in table order.
SyncCommands(t) ==
    LET ids   == Ordered(t, {i \in Enabled(t) : IsBlock(t[i].shape)})
        each  == 2 * Len(Halves("client_block"))
        id(k) == ids[((k - 1) \div each) + 1]
    IN  [k \in 1..each * Len(ids) |->
            ApplyIdempotent(id(k), t[id(k)].shape)[((k - 1) % each) + 1]]

\* A Python set of chains is iterated in an unspecified order.
Orders(S) == SetToSeqs(S)

Executable(c) == c.op = "-D" => c.entry \in ToSet(live[c.chain])

Executed(c) ==
    [live EXCEPT ![c.chain] =
        CASE c.op = "-A" -> Append(@, c.entry)
          [] c.op = "-I" -> <<c.entry>> \o @
          [] c.op = "-D" -> RemoveFirst(@, c.entry)]

-----------------------------------------------------------------------------
(* The live chains a table asks for: blocks in front, then by position.    *)

BlockEntries(t) ==
    LET ids == Ordered(t, {i \in Enabled(t) : IsBlock(t[i].shape)})
    IN  [k \in DOMAIN ids |-> LiveEntry(ids[k], t[ids[k]].shape)]

OrderedEntries(t, chain) ==
    LET ids == WantedIds(t, chain)
    IN  [k \in DOMAIN ids |-> LiveEntry(ids[k], t[ids[k]].shape)]

Reflection(t) ==
    [c \in Chains |-> (IF c \in {"FORWARD", "INPUT"} THEN BlockEntries(t) ELSE <<>>)
                        \o OrderedEntries(t, c)]

Init ==
    /\ rules \in InitTables
    /\ nextId = Max({0} \cup DOMAIN rules) + 1
    /\ live = Reflection(rules)
    /\ advisory = None /\ flock = None
    /\ pc = [w \in Workers |-> "idle"]
    /\ job = [w \in Workers |-> NoJob]
    /\ spent = [requests |-> 0, manual |-> 0, losses |-> 0, crashes |-> 0]

Goto(w, place) == pc' = [pc EXCEPT ![w] = place]

Finish(w) ==
    /\ Goto(w, "idle")
    /\ job' = [job EXCEPT ![w] = NoJob]

\* Commit or roll back: the advisory lock goes with the transaction.
EndTransaction == advisory' = None

-----------------------------------------------------------------------------
(* Requests. *)

EntryPlace(r) ==
    CASE r.op = "add" /\ r.shape.kind # "input" -> "max"
      [] r.op = "sync"                          -> "start"
      [] r.op = "discover"                      -> "flock"
      [] OTHER                                  -> "lock"

\* The add forms validate before they touch anything.
Receive(w, r) ==
    /\ pc[w] = "idle"
    /\ spent.requests < MaxRequests
    /\ r.op = "add" => ~Refused(r.shape)
    /\ Goto(w, EntryPlace(r))
    /\ job' = [job EXCEPT ![w] = [NoJob EXCEPT !.req = r]]
    /\ spent' = [spent EXCEPT !.requests = @ + 1]
    /\ UNCHANGED <<rules, nextId, live, advisory, flock>>

AdvisoryFree == advisory = None

\* locked_transaction(): wait for the one advisory lock, at most 5 seconds.
Lock(w) ==
    /\ pc[w] = "lock" /\ AdvisoryFree
    /\ advisory' = w
    /\ Goto(w, "read")
    /\ UNCHANGED <<rules, nextId, live, flock, job, spent>>

LockTimeout(w) ==
    /\ pc[w] = "lock" /\ advisory # None
    /\ Finish(w)
    /\ UNCHANGED <<rules, nextId, live, advisory, flock, spent>>

\* The transaction's reads.
Read(w) ==
    /\ pc[w] = "read"
    /\ job' = [job EXCEPT ![w].snap = rules]
    /\ Goto(w, "decide")
    /\ UNCHANGED <<rules, nextId, live, advisory, flock, spent>>

\* A check failed, or there is nothing to do.
Decline(w) ==
    /\ EndTransaction
    /\ Finish(w)
    /\ UNCHANGED <<rules, nextId, live, flock, spent>>

\* Commit new rows t, then carry on at `place` with local variables j.
Commit(w, t, place, j) ==
    /\ EndTransaction
    /\ rules' = t
    /\ Goto(w, place)
    /\ job' = [job EXCEPT ![w] = j]
    /\ UNCHANGED <<live, flock, spent>>

\* INSERT at the end of the whole table, commit, then apply.
CommitInsert(w, shape) ==
    /\ nextId' = nextId + 1
    /\ Commit(w, With(rules, nextId, [shape |-> shape, enabled |-> TRUE,
                                      pos |-> NextPosition(rules)]),
              "apply", [job[w] EXCEPT !.id = nextId, !.cmds = Apply(nextId, shape)])

Deciding(w, op) == pc[w] = "decide" /\ job[w].req.op = op

\* add_input_rule: simulate the rule last among the enabled INPUT rules.
AddInput(w) ==
    LET r    == job[w].req
        t    == job[w].snap
        sim  == With(t, 0, [shape |-> r.shape, enabled |-> TRUE,
                            pos |-> PositionAfter(t, EnabledInputs(t))])
    IN  /\ Deciding(w, "add")
        /\ IF PassesLockoutCheck(r.by, sim, EnabledInputs(t) \cup {0})
           THEN CommitInsert(w, r.shape)
           ELSE Decline(w)

\* The INPUT rules a change of row id would leave enabled.
Others(t, id) == EnabledInputs(t) \ {id}

\* toggle_rule.
Toggle(w) ==
    LET r    == job[w].req
        t    == job[w].snap
        row  == t[r.id]
        on   == ~row.enabled
        sim  == IF on THEN Others(t, r.id) \cup {r.id} ELSE Others(t, r.id)
        safe == row.shape.kind = "input" =>
                    /\ ~(on /\ row.shape.bare /\ row.shape.action = "DROP")
                    /\ PassesLockoutCheck(r.by, t, sim)
        j    == [job[w] EXCEPT !.id = r.id]
        put(place, i) == Commit(w, Updated(rules, r.id, [row EXCEPT !.enabled = on]), place, i)
    IN  /\ Deciding(w, "toggle")
        /\ \/ ~(r.id \in DOMAIN t /\ safe) /\ Decline(w)
           \/ /\ r.id \in DOMAIN t /\ safe
              /\ UNCHANGED nextId
              /\ \/ /\ on /\ ~IsBlock(row.shape)
                    /\ put("flock", [j EXCEPT !.chains = ChainsFor(row.shape.kind)])
                 \/ /\ on /\ IsBlock(row.shape)
                    /\ put("enable", [j EXCEPT !.cmds = Apply(r.id, row.shape)])
                 \/ /\ ~on
                    /\ put("unapply", [j EXCEPT !.cmds = Unapply(r.id, row.shape)])

\* disable_rule, and delete_rule, which also drops the row.
TakeOut(w, op, present, t1) ==
    LET r    == job[w].req
        t    == job[w].snap
        safe == t[r.id].shape.kind = "input" =>
                    PassesLockoutCheck(r.by, t, Others(t, r.id))
    IN  /\ Deciding(w, op)
        /\ \/ ~(present /\ safe) /\ Decline(w)
           \/ /\ present /\ safe
              /\ UNCHANGED nextId
              /\ Commit(w, t1, "unapply",
                        [job[w] EXCEPT !.id = r.id,
                            !.cmds = IF t[r.id].enabled
                                     THEN Unapply(r.id, t[r.id].shape) ELSE <<>>])

Disable(w) ==
    LET id == job[w].req.id
        t  == job[w].snap
    IN  TakeOut(w, "disable", id \in DOMAIN t /\ t[id].enabled,
                Updated(rules, id, [t[id] EXCEPT !.enabled = FALSE]))

Delete(w) ==
    LET id == job[w].req.id
    IN  TakeOut(w, "delete", id \in DOMAIN job[w].snap, Without(rules, id))

\* reorder_rule: new position, simulated first, then every chain rebuilt.
Reorder(w) ==
    LET r     == job[w].req
        t     == job[w].snap
        moved == [t[r.id] EXCEPT !.pos = ReorderPosition(t, r.id, r.target, r.place)]
        known == r.id \in DOMAIN t /\ r.target \in Siblings(t, r.id)
        safe  == t[r.id].shape.kind = "input" =>
                     PassesLockoutCheck(r.by, With(t, r.id, moved), EnabledInputs(t))
    IN  /\ Deciding(w, "reorder")
        /\ \/ ~(known /\ safe) /\ Decline(w)
           \/ /\ known /\ safe
              /\ UNCHANGED nextId
              /\ \E order \in Orders(ToSet(ChainsFor(t[r.id].shape.kind))) :
                    Commit(w, Updated(rules, r.id, moved), "flock",
                           [job[w] EXCEPT !.id = r.id, !.chains = order])

\* set_client_block(blocked=True): one row per client, then apply.
Block(w) ==
    LET r == job[w].req
        exists == BlockRows(job[w].snap, r.shape.client) # {}
        self   == r.by # None /\ r.by \in r.shape.hits
    IN  /\ Deciding(w, "block")
        /\ IF exists \/ self THEN Decline(w) ELSE CommitInsert(w, r.shape)

\* set_client_block(blocked=False): the commands run inside the transaction.
Unblock(w) ==
    LET blocks == BlockRows(job[w].snap, job[w].req.shape.client)
    IN  /\ Deciding(w, "unblock")
        /\ \/ blocks = {} /\ Decline(w)
           \/ \E i \in blocks :
                 /\ job' = [job EXCEPT ![w].id = i,
                                       ![w].cmds = Unapply(i, job[w].snap[i].shape)]
                 /\ Goto(w, "unblock")
                 /\ UNCHANGED <<rules, nextId, live, advisory, flock, spent>>

BothHalvesGone(w) == job[w].cmds = <<>>

UnblockCommit(w) ==
    /\ pc[w] = "unblock" /\ BothHalvesGone(w)
    /\ rules' = Without(rules, job[w].id)
    /\ EndTransaction
    /\ Finish(w)
    /\ UNCHANGED <<nextId, live, flock, spent>>

-----------------------------------------------------------------------------
(* _insert_and_apply: db.insert_rule's two statements hold no lock.        *)

ReadMax(w) ==
    /\ pc[w] = "max"
    /\ job' = [job EXCEPT ![w].pos = NextPosition(rules)]
    /\ Goto(w, "insert")
    /\ UNCHANGED <<rules, nextId, live, advisory, flock, spent>>

Insert(w) ==
    LET shape == job[w].req.shape
    IN  /\ pc[w] = "insert"
        /\ rules' = With(rules, nextId, [shape |-> shape, enabled |-> TRUE, pos |-> job[w].pos])
        /\ nextId' = nextId + 1
        /\ job' = [job EXCEPT ![w].id = nextId, ![w].cmds = Apply(nextId, shape)]
        /\ Goto(w, "apply")
        /\ UNCHANGED <<live, advisory, flock, spent>>

-----------------------------------------------------------------------------
(* iptables commands, one at a time. *)

Running == {"apply", "unapply", "enable", "unblock", "sync", "strip", "fill"}

RunCommand(w) ==
    /\ pc[w] \in Running /\ job[w].cmds # <<>>
    /\ Executable(Head(job[w].cmds))
    /\ live' = Executed(Head(job[w].cmds))
    /\ job' = [job EXCEPT ![w].cmds = Tail(@)]
    /\ UNCHANGED <<rules, nextId, advisory, flock, pc, spent>>

\* A PrivilegedCommandError leaves a rebuild: sync_all swallows it and
\* goes on to its next chain, every other caller gives up.
AbortRebuild(w) ==
    /\ flock' = None
    /\ IF job[w].req.op = "sync" /\ Tail(job[w].chains) # <<>>
       THEN /\ Goto(w, "flock")
            /\ job' = [job EXCEPT ![w].chains = Tail(@), ![w].cmds = <<>>]
       ELSE Finish(w)

FailCommand(w) ==
    LET c == Head(job[w].cmds)
    IN  /\ pc[w] \in Running /\ job[w].cmds # <<>>
        /\ ~Executable(c) \/ IptablesFails
        /\ \/ /\ pc[w] = "apply"                  \* compensate
              /\ Goto(w, "undo")
              /\ job' = [job EXCEPT ![w].cmds = <<>>]
              /\ UNCHANGED <<advisory, flock>>
           \/ /\ pc[w] \in {"unapply", "sync"}    \* swallowed
              /\ job' = [job EXCEPT ![w].cmds = SubSeq(@, 2 + c.skip, Len(@))]
              /\ UNCHANGED <<pc, advisory, flock>>
           \/ /\ pc[w] = "enable"                 \* raised
              /\ Finish(w)
              /\ UNCHANGED <<advisory, flock>>
           \/ /\ pc[w] = "unblock"                \* raised, rolled back
              /\ EndTransaction
              /\ Finish(w)
              /\ UNCHANGED flock
           \/ /\ pc[w] \in {"strip", "fill"}
              /\ AbortRebuild(w)
              /\ UNCHANGED advisory
        /\ UNCHANGED <<rules, nextId, live, spent>>

Applied(w) ==
    /\ pc[w] \in {"apply", "unapply", "enable"} /\ job[w].cmds = <<>>
    /\ Finish(w)
    /\ UNCHANGED <<rules, nextId, live, advisory, flock, spent>>

\* db.delete_rule on the row whose apply failed: no lock either.
Undo(w) ==
    /\ pc[w] = "undo"
    /\ rules' = Without(rules, job[w].id)
    /\ Finish(w)
    /\ UNCHANGED <<nextId, live, advisory, flock, spent>>

-----------------------------------------------------------------------------
(* sync_all: blocks one by one, then every chain some enabled rule needs.  *)

SyncStart(w) ==
    LET needed == {c \in Chains : \E i \in Enabled(rules) : InChain(rules, i, c)}
    IN  /\ pc[w] = "start"
        /\ \E order \in Orders(needed) :
              job' = [job EXCEPT ![w].cmds = SyncCommands(rules), ![w].chains = order]
        /\ Goto(w, "sync")
        /\ UNCHANGED <<rules, nextId, live, advisory, flock, spent>>

SyncBlocksDone(w) ==
    /\ pc[w] = "sync" /\ job[w].cmds = <<>>
    /\ IF job[w].chains = <<>> THEN Finish(w) ELSE Goto(w, "flock") /\ UNCHANGED job
    /\ UNCHANGED <<rules, nextId, live, advisory, flock, spent>>

-----------------------------------------------------------------------------
(* _rebuild_chain, chain after chain. *)

FlockFree == flock = None

TakeFlock(w) ==
    /\ pc[w] = "flock" /\ FlockFree
    /\ flock' = w
    /\ Goto(w, IF job[w].req.op = "discover" THEN "snapshot" ELSE "list")
    /\ UNCHANGED <<rules, nextId, live, advisory, job, spent>>

ListChain(w) ==
    /\ pc[w] = "list"
    /\ job' = [job EXCEPT ![w].cmds = StripCommands(Head(job[w].chains))]
    /\ Goto(w, "strip")
    /\ UNCHANGED <<rules, nextId, live, advisory, flock, spent>>

ListFails(w) ==
    /\ pc[w] = "list" /\ IptablesFails
    /\ AbortRebuild(w)
    /\ UNCHANGED <<rules, nextId, live, advisory, spent>>

ReloadRules(w) ==
    /\ pc[w] = "strip" /\ job[w].cmds = <<>>
    /\ job' = [job EXCEPT ![w].cmds = FillCommands(rules, Head(job[w].chains))]
    /\ Goto(w, "fill")
    /\ UNCHANGED <<rules, nextId, live, advisory, flock, spent>>

\* _rebuild_chain releases the lock after each chain, discovery at the end.
ChainRebuilt(w) ==
    LET rest == Tail(job[w].chains)
    IN  /\ pc[w] = "fill" /\ job[w].cmds = <<>>
        /\ IF rest = <<>> THEN Finish(w)
           ELSE /\ Goto(w, IF job[w].req.op = "discover" THEN "list" ELSE "flock")
                /\ job' = [job EXCEPT ![w].chains = rest]
        /\ flock' = IF rest # <<>> /\ job[w].req.op = "discover" THEN w ELSE None
        /\ UNCHANGED <<rules, nextId, live, advisory, spent>>

-----------------------------------------------------------------------------
(* discover_cli_rules: one snapshot of the table, then chain by chain. *)

Snapshot(w) ==
    /\ pc[w] = "snapshot"
    /\ job' = [job EXCEPT ![w].snap = rules,
                          ![w].scan = <<"FORWARD", "INPUT", "PREROUTING", "POSTROUTING">>]
    /\ Goto(w, "scan")
    /\ UNCHANGED <<rules, nextId, live, advisory, flock, spent>>

\* Live slot k, its tag looked up in the snapshot.
Tracked(t, e) == e.id \in DOMAIN t

Adoptable(t, chain, e) ==
    ~Tracked(t, e) /\ ~IsBlock(e.shape) /\ AdoptedAs(chain, e.shape) # None

ScanChain(w) ==
    LET chain == Head(job[w].scan)
        t     == job[w].snap
        slots == [k \in DOMAIN live[chain] |->
                    IF Tracked(t, live[chain][k]) THEN t[live[chain][k].id].pos ELSE None]
        seen  == [k \in DOMAIN live[chain] |->
                    [entry |-> live[chain][k], pos |-> NewPosition(slots, k)]]
    IN  /\ pc[w] = "scan" /\ job[w].scan # <<>>
        /\ job' = [job EXCEPT ![w].found =
                      Selected(seen, {k \in DOMAIN seen : Adoptable(t, chain, seen[k].entry)})]
        /\ Goto(w, "adopt")
        /\ UNCHANGED <<rules, nextId, live, advisory, flock, spent>>

\* A chain that cannot be listed is skipped.
ScanFails(w) ==
    /\ pc[w] = "scan" /\ job[w].scan # <<>> /\ IptablesFails
    /\ job' = [job EXCEPT ![w].scan = Tail(@)]
    /\ UNCHANGED <<rules, nextId, live, advisory, flock, pc, spent>>

Adopt(w) ==
    LET f == Head(job[w].found)
    IN  /\ pc[w] = "adopt" /\ job[w].found # <<>>
        /\ rules' = With(rules, nextId,
                         [shape |-> AdoptedAs(Head(job[w].scan), f.entry.shape),
                          enabled |-> TRUE, pos |-> f.pos])
        /\ nextId' = nextId + 1
        /\ job' = [job EXCEPT ![w].id = nextId]
        /\ Goto(w, "claim")
        /\ UNCHANGED <<live, advisory, flock, spent>>

\* Delete the original; if that fails the row goes instead.
Claim(w) ==
    LET f == Head(job[w].found)
        c == [op |-> "-D", chain |-> Head(job[w].scan), entry |-> f.entry, skip |-> 0]
    IN  /\ pc[w] = "claim"
        /\ \/ /\ Executable(c)
              /\ live' = Executed(c)
              /\ job' = [job EXCEPT ![w].found = Tail(@),
                            ![w].touched = @ \cup
                                ToSet(ChainsFor(AdoptedAs(c.chain, f.entry.shape).kind))]
              /\ Goto(w, "adopt")
           \/ /\ ~Executable(c) \/ IptablesFails
              /\ Goto(w, "drop")
              /\ UNCHANGED <<live, job>>
        /\ UNCHANGED <<rules, nextId, advisory, flock, spent>>

DropAdopted(w) ==
    /\ pc[w] = "drop"
    /\ rules' = Without(rules, job[w].id)
    /\ job' = [job EXCEPT ![w].found = Tail(@)]
    /\ Goto(w, "adopt")
    /\ UNCHANGED <<nextId, live, advisory, flock, spent>>

ChainScanned(w) ==
    /\ pc[w] = "adopt" /\ job[w].found = <<>>
    /\ job' = [job EXCEPT ![w].scan = Tail(@)]
    /\ Goto(w, "scan")
    /\ UNCHANGED <<rules, nextId, live, advisory, flock, spent>>

\* Discovery calls the variant of the rebuild that takes no lock.
UnlockedRebuild == "list"

AllScanned(w) ==
    /\ pc[w] = "scan" /\ job[w].scan = <<>>
    /\ IF job[w].touched = {}
       THEN Finish(w) /\ flock' = None
       ELSE /\ \E order \in Orders(job[w].touched) :
                  job' = [job EXCEPT ![w].chains = order]
            /\ Goto(w, UnlockedRebuild)
            /\ UNCHANGED flock
    /\ UNCHANGED <<rules, nextId, live, advisory, spent>>

-----------------------------------------------------------------------------
(* What happens around the workers. *)

\* An operator at a shell appends a rule ...
ManualAppend(chain, shape) ==
    /\ spent.manual < MaxManual
    /\ spent' = [spent EXCEPT !.manual = @ + 1]
    /\ live' = [live EXCEPT ![chain] = Append(@, [id |-> 0, shape |-> shape])]
    /\ UNCHANGED <<rules, nextId, advisory, flock, pc, job>>

\* ... deletes the k-th one ...
ManualDelete(chain, k) ==
    /\ spent.losses < MaxLosses
    /\ k \in DOMAIN live[chain]
    /\ spent' = [spent EXCEPT !.losses = @ + 1]
    /\ live' = [live EXCEPT ![chain] = RemoveAt(@, k)]
    /\ UNCHANGED <<rules, nextId, advisory, flock, pc, job>>

\* ... or flushes the chains (a reboot without saved rules does the same).
Flush ==
    /\ spent.losses < MaxLosses
    /\ spent' = [spent EXCEPT !.losses = @ + 1]
    /\ live' = [c \in Chains |-> <<>>]
    /\ UNCHANGED <<rules, nextId, advisory, flock, pc, job>>

\* A worker is killed: Postgres rolls back, the kernel closes the lock file.
Crash(w) ==
    /\ pc[w] # "idle" /\ spent.crashes < MaxCrashes
    /\ spent' = [spent EXCEPT !.crashes = @ + 1]
    /\ Finish(w)
    /\ advisory' = IF advisory = w THEN None ELSE advisory
    /\ flock' = IF flock = w THEN None ELSE flock
    /\ UNCHANGED <<rules, nextId, live>>

-----------------------------------------------------------------------------
Transaction(w) ==
    \/ Lock(w) \/ LockTimeout(w) \/ Read(w)
    \/ AddInput(w) \/ Toggle(w) \/ Disable(w) \/ Delete(w) \/ Reorder(w)
    \/ Block(w) \/ Unblock(w) \/ UnblockCommit(w)

UnlockedInsert(w) == ReadMax(w) \/ Insert(w)

Commands(w) == RunCommand(w) \/ FailCommand(w) \/ Applied(w) \/ Undo(w)

Rebuild(w) ==
    \/ SyncStart(w) \/ SyncBlocksDone(w) \/ TakeFlock(w)
    \/ ListChain(w) \/ ListFails(w) \/ ReloadRules(w) \/ ChainRebuilt(w)

Discovery(w) ==
    \/ Snapshot(w) \/ ScanChain(w) \/ ScanFails(w) \/ Adopt(w) \/ Claim(w)
    \/ DropAdopted(w) \/ ChainScanned(w) \/ AllScanned(w)

Step(w) ==
    Transaction(w) \/ UnlockedInsert(w) \/ Commands(w) \/ Rebuild(w) \/ Discovery(w)

Environment ==
    \/ \E w \in Workers, r \in Requests : Receive(w, r)
    \/ \E m \in ManualRules : ManualAppend(m[1], m[2])
    \/ \E chain \in Chains : \E k \in DOMAIN live[chain] : ManualDelete(chain, k)
    \/ Flush
    \/ \E w \in Workers : Crash(w)

Next == Environment \/ \E w \in Workers : Step(w)

Spec == Init /\ [][Next]_vars

Quiet == \A w \in Workers : pc[w] = "idle"

\* Rules are lost by hand or by a reboot only while no request is in flight.
CalmSpec == Init /\ [][Next /\ (spent'.losses # spent.losses => Quiet)]_vars

\* A worker that holds a request keeps running it.
FairSpec == Spec /\ \A w \in Workers : WF_vars(Step(w))
=============================================================================
