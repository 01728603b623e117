------------------------ MODULE FirewallAccessProofs ------------------------
(***************************************************************************)
(* Three promises of the firewall, for every set of workers, rules and     *)
(* requests.  Nobody locks himself out: changes to the rule table that     *)
(* each passed the self-lockout check never combine into a table that      *)
(* shuts their requester out.  An unblocked VPN client is clear: whatever  *)
(* overlaps, no live rule blocks a client that has no block row.  And a    *)
(* reordered rule lands next to its target, as long as there is room.      *)
(***************************************************************************)
EXTENDS FirewallProofs

Allows(t, a) == WouldAllow(t, EnabledInputs(t), a)

Edits == {"add", "toggle", "disable", "delete", "reorder"}

\* What the code needs for its promise to a: every change of the rules is
\* requested from a (the check protects the requester, nobody else), nobody
\* has a hand-typed rule recorded, no iptables command fails (the deletion
\* that makes up for one checks nothing), and a is let in at the start.
OnlyEditor(a) ==
    /\ ~IptablesFails
    /\ \A r \in Requests : r.op # "discover" /\ (r.op \in Edits => r.by = a)
    /\ \A t \in InitTables : Allows(t, a)

\* Under the advisory lock a snapshot t shows every INPUT rule of the table:
\* the only rows it lacks were inserted by requests that need no lock.
Shows(t, table) ==
    /\ DOMAIN t \subseteq DOMAIN table
    /\ \A i \in DOMAIN t : table[i] = t[i]
    /\ \A i \in DOMAIN table \ DOMAIN t : table[i].shape.kind # "input"

\* Where a handler would change the table without a check.
Unchecked == {"undo", "snapshot", "scan", "adopt", "claim", "drop"}

NoDeletes(cmds) == \A k \in 1..Len(cmds) : cmds[k].op # "-D"

\* What a handler at place p with local variables j leaves to later steps.
Careful(p, j, table) ==
    /\ p \notin Unchecked
    /\ p = "apply" => NoDeletes(j.cmds)
    /\ p \in {"max", "insert"} => j.req.shape.kind # "input"
    /\ p \in {"decide", "unblock"} => Shows(j.snap, table)
    /\ p = "unblock" => j.id \in DOMAIN j.snap /\ IsBlock(j.snap[j.id].shape)

AccessInv(a) ==
    /\ Inv
    /\ Allows(rules, a)
    /\ \A w \in Workers : Careful(pc[w], job[w], rules)

-----------------------------------------------------------------------------
(* The verdict of the first match depends on the rules it looks at. *)

LEMMA SameVerdict ==
  ASSUME NEW t, NEW u, NEW S, NEW a,
         \A i \in S : t[i].shape = u[i].shape /\ t[i].pos = u[i].pos
  PROVE  WouldAllow(t, S, a) <=> WouldAllow(u, S, a)
BY DEF WouldAllow, Before

\* A rule behind all others decides only when none of them matches.
VerdictWithLast(t, S, shape, a) ==
    /\ WouldAllow(t, S, a)
    /\ (a \in shape.hits /\ (\A i \in S : a \notin t[i].shape.hits)) => shape.action = "ACCEPT"

LEMMA LastAdded ==
  ASSUME NEW t, NEW S, NEW a, NEW u, NEW n, n \notin S,
         \A i \in S : u[i].shape = t[i].shape /\ u[i].pos = t[i].pos,
         \A i \in S : t[i].pos \in Int /\ t[i].pos < u[n].pos, u[n].pos \in Int
  PROVE  WouldAllow(u, S \cup {n}, a) <=> VerdictWithLast(t, S, u[n].shape, a)
<1> DEFINE M == {i \in S : a \in t[i].shape.hits}
           N == {i \in S \cup {n} : a \in u[i].shape.hits}
<1>1. \A i \in S : Before(u, i, n) /\ ~Before(u, n, i)
  BY DEF Before
<1>2. \A i, j \in S : Before(u, i, j) <=> Before(t, i, j)
  BY DEF Before
<1>3. M = N \cap S
  OBVIOUS
<1>4. WouldAllow(u, S \cup {n}, a) <=>
        \A i \in N : (\A j \in N \ {i} : Before(u, i, j)) => u[i].shape.action = "ACCEPT"
  BY DEF WouldAllow
<1>5. WouldAllow(t, S, a) <=>
        \A i \in M : (\A j \in M \ {i} : Before(t, i, j)) => t[i].shape.action = "ACCEPT"
  BY DEF WouldAllow
<1>6. N \subseteq S \cup {n}
  OBVIOUS
<1>7. ASSUME NEW i \in M
      PROVE  (\A j \in N \ {i} : Before(u, i, j)) <=> (\A j \in M \ {i} : Before(t, i, j))
  BY <1>1, <1>2, <1>3, <1>6
<1>8. n \in N => ((\A j \in N \ {n} : Before(u, n, j)) <=> M = {})
  BY <1>1, <1>3, <1>6
<1>9. M = {} <=> \A i \in S : a \notin t[i].shape.hits
  OBVIOUS
<1>10. n \in N <=> a \in u[n].shape.hits
  OBVIOUS
<1>11. \A i \in M : i \in N /\ u[i].shape.action = t[i].shape.action
  OBVIOUS
<1>12. \A i \in N : i \in M \/ i = n
  OBVIOUS
<1> HIDE DEF M, N
<1> QED
  BY <1>4, <1>5, <1>7, <1>8, <1>9, <1>10, <1>11, <1>12 DEF VerdictWithLast

\* What a snapshot taken under the lock says of the INPUT rules is true.
LEMMA ShownInputs ==
  ASSUME NEW t, NEW table, Shows(t, table)
  PROVE  /\ EnabledInputs(table) = EnabledInputs(t)
         /\ \A i \in EnabledInputs(t) : i \in DOMAIN t /\ table[i] = t[i]
BY DEF Shows, EnabledInputs, Enabled

\* Rows of other kinds come and go unnoticed.
LEMMA OtherRows ==
  ASSUME NEW t, NEW id, NEW a, Allows(t, a)
  PROVE  /\ \A row : id \notin DOMAIN t /\ row.shape.kind # "input" =>
               Allows(With(t, id, row), a)
         /\ (id \in DOMAIN t => t[id].shape.kind # "input") => Allows(Without(t, id), a)
<1>1. ASSUME NEW u, EnabledInputs(u) = EnabledInputs(t),
             \A i \in EnabledInputs(t) : u[i] = t[i]
      PROVE  Allows(u, a)
  BY <1>1, SameVerdict DEF Allows
<1>2. ASSUME NEW row, id \notin DOMAIN t, row.shape.kind # "input"
      PROVE  Allows(With(t, id, row), a)
  <2> DEFINE u == With(t, id, row)
  <2>1. /\ DOMAIN u = DOMAIN t \cup {id} /\ u[id] = row
        /\ \A i \in DOMAIN t : u[i] = t[i]
    BY <1>2 DEF With
  <2> HIDE DEF u
  <2>2. EnabledInputs(u) = EnabledInputs(t) /\ \A i \in EnabledInputs(t) : u[i] = t[i]
    BY <1>2, <2>1 DEF EnabledInputs, Enabled
  <2> QED
    BY <1>1, <2>2 DEF u
<1>3. ASSUME id \in DOMAIN t => t[id].shape.kind # "input"
      PROVE  Allows(Without(t, id), a)
  <2> DEFINE u == Without(t, id)
  <2>1. DOMAIN u = DOMAIN t \ {id} /\ \A i \in DOMAIN t \ {id} : u[i] = t[i]
    BY DEF Without
  <2> HIDE DEF u
  <2>2. EnabledInputs(u) = EnabledInputs(t) /\ \A i \in EnabledInputs(t) : u[i] = t[i]
    BY <1>3, <2>1 DEF EnabledInputs, Enabled
  <2> QED
    BY <1>1, <2>2 DEF u
<1> QED
  BY <1>2, <1>3

\* Snapshots stay good while rows of other kinds are inserted.
LEMMA ShowsKept ==
  ASSUME NEW t, NEW table, Shows(t, table), NEW id, id \notin DOMAIN table,
         NEW row, row.shape.kind # "input"
  PROVE  Shows(t, With(table, id, row))
<1> DEFINE u == With(table, id, row)
<1>1. /\ DOMAIN u = DOMAIN table \cup {id} /\ u[id] = row
      /\ \A i \in DOMAIN table : u[i] = table[i]
  BY DEF With
<1> HIDE DEF u
<1> QED
  BY <1>1 DEF Shows, u

-----------------------------------------------------------------------------
(* What a step of worker w must do to keep the invariant. *)

\* Without the lock the table only gains rows that are not INPUT rules.
Grows(w) ==
    \/ advisory = w
    \/ rules' = rules
    \/ \E row : row.shape.kind # "input" /\ rules' = With(rules, nextId, row)

AccessStep(a, w) ==
    /\ Grows(w)
    /\ Allows(rules', a)
    /\ Careful(pc'[w], job'[w], rules')

\* The other handlers do not notice.
LEMMA AccessStepKeeps ==
  ASSUME NEW a, AccessInv(a), NEW w \in Workers, StepOK(w), AccessStep(a, w)
  PROVE  AccessInv(a)'
<1>1. Inv'
  BY StepKeepsInv DEF AccessInv
<1>2. ASSUME NEW v \in Workers
      PROVE  Careful(pc'[v], job'[v], rules')
  <2>1. CASE v = w
    BY <2>1 DEF AccessStep
  <2>2. CASE v # w
    <3>1. pc'[v] = pc[v] /\ job'[v] = job[v]
      BY <2>2 DEF StepOK, Moves, AccessInv, Inv
    <3>2. Careful(pc[v], job[v], rules) /\ nextId \notin DOMAIN rules
      BY OfWorker DEF AccessInv
    <3>3. ASSUME pc[v] \in {"decide", "unblock"}
          PROVE  Shows(job[v].snap, rules')
      <4>1. advisory = v /\ advisory # w
        BY <2>2, <3>3, OfWorker DEF AccessInv, Locked
      <4>2. Shows(job[v].snap, rules)
        BY <3>2, <3>3 DEF Careful
      <4> QED
        BY <3>2, <4>1, <4>2, ShowsKept DEF AccessStep, Grows
    <3> QED
      BY <3>1, <3>2, <3>3 DEF Careful
  <2> QED
    BY <2>1, <2>2
<1> QED
  BY <1>1, <1>2 DEF AccessInv, AccessStep

\* The places where a handler owes nothing.
Free == Places \ (Unchecked \cup {"apply", "max", "insert", "decide", "unblock"})

LEMMA FreeStep ==
  ASSUME NEW a, AccessInv(a), NEW w \in Workers, rules' = rules, pc'[w] \in Free
  PROVE  AccessStep(a, w)
BY DEF AccessInv, AccessStep, Grows, Careful, Free

-----------------------------------------------------------------------------
(* The steps of a transaction that decides. *)

LEMMA DecideFacts ==
  ASSUME NEW a \in Addrs, OnlyEditor(a), AccessInv(a), NEW w \in Workers, pc[w] = "decide"
  PROVE  /\ Inv /\ Allows(rules, a) /\ job[w].req \in Requests
         /\ FiniteTable(job[w].snap) /\ Shows(job[w].snap, rules)
         /\ FiniteTable(rules) /\ nextId \in Nat \ {0} /\ nextId \notin DOMAIN rules
         /\ advisory = w
         /\ job[w].req.op \in Edits =>
               \A t, S : PassesLockoutCheck(job[w].req.by, t, S) => WouldAllow(t, S, a)
<1>1. Inv /\ Allows(rules, a) /\ Careful(pc[w], job[w], rules)
  BY DEF AccessInv
<1>2. job[w].req \in Requests
  BY <1>1, OfWorker DEF PlaceOK
<1>3. job[w].req.op \in Edits => job[w].req.by = a
  BY <1>2 DEF OnlyEditor
<1>4. a # None
  BY NoneAssumption
<1> QED
  BY <1>1, <1>2, <1>3, <1>4, OfWorker DEF Careful, PassesLockoutCheck, Locked

LEMMA DeclineAccess ==
  ASSUME NEW a \in Addrs, AccessInv(a), NEW w \in Workers, Decline(w)
  PROVE  AccessStep(a, w)
<1>1. rules' = rules /\ Finish(w) /\ Inv
  BY DEF Decline, AccessInv
<1>2. pc'[w] \in Free
  BY <1>1, Goes DEF Free, Places, Unchecked
<1> QED
  BY <1>1, <1>2, FreeStep

\* Adding takes no rule away.
LEMMA ApplyAdds ==
  ASSUME NEW id, NEW shape \in Shape
  PROVE  NoDeletes(Apply(id, shape))
<1> DEFINE h == Halves(shape.kind)
           op == IF IsBlock(shape) THEN "-I" ELSE "-A"
           c(k) == [op |-> op, chain |-> h[k], entry |-> LiveEntry(id, shape), skip |-> Len(h) - k]
<1>1. Apply(id, shape) = [k \in DOMAIN h |-> c(k)]
  BY DEF Apply, HalfCommands
<1>2. h \in Seq(Chains)
  BY ChainsForType DEF Shape
<1> HIDE DEF h
<1>3. \A k \in DOMAIN h : c(k).op # "-D"
  OBVIOUS
<1> HIDE DEF c
<1>4. DOMAIN Apply(id, shape) = 1..Len(Apply(id, shape)) => NoDeletes(Apply(id, shape))
  BY <1>1, <1>3 DEF NoDeletes
<1>5. DOMAIN Apply(id, shape) = 1..Len(Apply(id, shape))
  BY <1>1, <1>2
<1> QED
  BY <1>4, <1>5

LEMMA CommitInsertAccess ==
  ASSUME NEW a \in Addrs, OnlyEditor(a), AccessInv(a), NEW w \in Workers, pc[w] = "decide",
         NEW shape \in Shape, CommitInsert(w, shape),
         Allows(With(rules, nextId, [shape |-> shape, enabled |-> TRUE,
                                     pos |-> NextPosition(rules)]), a)
  PROVE  AccessStep(a, w)
<1> DEFINE j == [job[w] EXCEPT !.id = nextId, !.cmds = Apply(nextId, shape)]
<1>1. Inv /\ advisory = w
  BY DecideFacts
<1>2. pc'[w] = "apply" /\ job'[w] = j
  BY <1>1, Goes DEF CommitInsert, Commit
<1>3. Allows(rules', a)
  BY DEF CommitInsert, Commit
<1>4. j.cmds = Apply(nextId, shape)
  BY <1>1, OfWorker DEF IsJob, NoJob
<1>5. NoDeletes(j.cmds)
  BY <1>4, ApplyAdds
<1> HIDE DEF j
<1> QED
  BY <1>1, <1>2, <1>3, <1>5 DEF AccessStep, Grows, Careful, Unchecked

\* add_input_rule: the simulated rule stands where the inserted one will.
LEMMA AddInputAccess ==
  ASSUME NEW a \in Addrs, OnlyEditor(a), AccessInv(a), NEW w \in Workers, AddInput(w)
  PROVE  AccessStep(a, w)
<1> DEFINE r == job[w].req
           t == job[w].snap
           S == EnabledInputs(t)
           row0 == [shape |-> r.shape, enabled |-> TRUE, pos |-> PositionAfter(t, S)]
           sim == With(t, 0, row0)
           row == [shape |-> r.shape, enabled |-> TRUE, pos |-> NextPosition(rules)]
           new == With(rules, nextId, row)
<1>1. pc[w] = "decide" /\ r.op = "add" /\ r.shape \in Shape
  <2>1. pc[w] = "decide" /\ r.op = "add"
    BY DEF AddInput, Deciding
  <2> QED
    BY <2>1, DecideFacts, RequestsAssumption DEF Request
<1>2. CASE Decline(w)
  BY <1>2, DeclineAccess
<1>3. CASE PassesLockoutCheck(r.by, sim, S \cup {0}) /\ CommitInsert(w, r.shape)
  <2>1. /\ Allows(rules, a) /\ FiniteTable(t) /\ Shows(t, rules) /\ FiniteTable(rules)
        /\ nextId \in Nat \ {0} /\ nextId \notin DOMAIN rules
        /\ WouldAllow(sim, S \cup {0}, a)
    BY <1>1, <1>3, DecideFacts DEF Edits
  <2>2. EnabledInputs(rules) = S /\ \A i \in S : i \in DOMAIN t /\ rules[i] = t[i]
    BY <2>1, ShownInputs
  <2>3. 0 \notin DOMAIN t /\ \A i \in DOMAIN t : t[i].pos \in Int
    BY <2>1 DEF FiniteTable, IsTable, Row
  <2>4. PositionAfter(t, S) \in Int /\ \A i \in S : t[i].pos < PositionAfter(t, S)
    BY <2>1, PositionAfterAll DEF EnabledInputs, Enabled
  <2>5. NextPosition(rules) \in Int /\ \A i \in DOMAIN rules : rules[i].pos < NextPosition(rules)
    BY <2>1, NextPositionLast
  <2>6. sim[0] = row0 /\ \A i \in DOMAIN t : sim[i] = t[i]
    BY <2>3 DEF With
  <2>7. /\ DOMAIN new = DOMAIN rules \cup {nextId} /\ new[nextId] = row
        /\ \A i \in DOMAIN rules : new[i] = rules[i]
    BY <2>1 DEF With
  <2> HIDE DEF sim, new
  <2>8. nextId \notin S /\ 0 \notin S
    BY <2>1, <2>2, <2>3 DEF Shows
  <2>9. VerdictWithLast(t, S, r.shape, a)
    <3>1. sim[0].pos = PositionAfter(t, S) /\ sim[0].shape = r.shape
      BY <2>6
    <3>2. \A i \in S : sim[i].shape = t[i].shape /\ sim[i].pos = t[i].pos
      BY <2>2, <2>6
    <3>3. \A i \in S : t[i].pos \in Int /\ t[i].pos < sim[0].pos
      BY <2>2, <2>3, <2>4, <3>1
    <3>4. 0 \notin S /\ sim[0].pos \in Int /\ WouldAllow(sim, S \cup {0}, a)
      BY <2>1, <2>4, <2>8, <3>1
    <3> HIDE DEF S, t, r, row0
    <3> QED
      BY <3>1, <3>2, <3>3, <3>4, LastAdded
  <2>10. WouldAllow(new, S \cup {nextId}, a)
    <3>1. new[nextId].pos = NextPosition(rules) /\ new[nextId].shape = r.shape
      BY <2>7
    <3>2. \A i \in S : new[i].shape = t[i].shape /\ new[i].pos = t[i].pos
      BY <2>1, <2>2, <2>7 DEF Shows
    <3>3. \A i \in S : t[i].pos \in Int /\ t[i].pos < new[nextId].pos
      BY <2>1, <2>2, <2>3, <2>5, <3>1 DEF Shows
    <3> HIDE DEF S, t, r, row
    <3> QED
      BY <2>5, <2>8, <2>9, <3>1, <3>2, <3>3, LastAdded
  <2>11. EnabledInputs(new) = S \cup {nextId} \/ EnabledInputs(new) = S
    BY <2>1, <2>2, <2>7 DEF EnabledInputs, Enabled
  <2>12. Allows(new, a)
    <3>1. CASE EnabledInputs(new) = S \cup {nextId}
      BY <2>10, <3>1 DEF Allows
    <3>2. CASE EnabledInputs(new) = S
      <4>1. \A i \in S : new[i].shape = t[i].shape /\ new[i].pos = t[i].pos
        BY <2>1, <2>2, <2>7 DEF Shows
      <4> HIDE DEF S, t
      <4> QED
        BY <2>9, <3>2, <4>1, SameVerdict DEF Allows, VerdictWithLast
    <3> QED
      BY <2>11, <3>1, <3>2
  <2> QED
    BY <1>1, <1>3, <2>12, CommitInsertAccess DEF new
<1> QED
  BY <1>2, <1>3 DEF AddInput

LEMMA BlockAccess ==
  ASSUME NEW a \in Addrs, OnlyEditor(a), AccessInv(a), NEW w \in Workers, Block(w)
  PROVE  AccessStep(a, w)
<1> DEFINE shape == job[w].req.shape
           row == [shape |-> shape, enabled |-> TRUE, pos |-> NextPosition(rules)]
<1>1. pc[w] = "decide" /\ job[w].req.op = "block"
  BY DEF Block, Deciding
<1>2. shape.kind # "input" /\ shape \in Shape
  BY <1>1, DecideFacts, RequestsAssumption DEF IsBlock, Request
<1>3. Allows(With(rules, nextId, row), a)
  <2>1. Allows(rules, a) /\ nextId \notin DOMAIN rules
    BY <1>1, DecideFacts
  <2>2. row.shape = shape
    OBVIOUS
  <2> HIDE DEF row, shape
  <2> QED
    BY <1>2, <2>1, <2>2, OtherRows
<1>4. Decline(w) \/ CommitInsert(w, shape)
  BY DEF Block
<1> HIDE DEF shape
<1> QED
  BY <1>1, <1>2, <1>3, <1>4, DeclineAccess, CommitInsertAccess

\* A committed table that still lets a in.
LEMMA CommitAccess ==
  ASSUME NEW a \in Addrs, OnlyEditor(a), AccessInv(a), NEW w \in Workers, pc[w] = "decide",
         NEW t1, NEW p \in Free, NEW j, Commit(w, t1, p, j), Allows(t1, a)
  PROVE  AccessStep(a, w)
<1>1. Inv /\ advisory = w
  BY DecideFacts
<1>2. pc'[w] = p /\ rules' = t1
  BY <1>1, Goes DEF Commit
<1> QED
  BY <1>1, <1>2 DEF AccessStep, Grows, Careful, Free

\* Changing the enabled flag or the position of a row.
LEMMA UpdatedInputs ==
  ASSUME NEW t, NEW table, Shows(t, table), NEW id \in DOMAIN t, NEW row,
         row.shape = t[id].shape
  PROVE  LET new == Updated(table, id, row)
         IN  /\ new[id] = row /\ \A i \in DOMAIN t \ {id} : new[i] = t[i]
             /\ EnabledInputs(new) =
                  (EnabledInputs(t) \ {id})
                     \cup (IF row.enabled /\ row.shape.kind = "input" THEN {id} ELSE {})
<1> DEFINE new == With(table, id, row)
<1>1. Updated(table, id, row) = new
  BY DEF Updated, Shows
<1>2. /\ DOMAIN new = DOMAIN table /\ new[id] = row
      /\ \A i \in DOMAIN table \ {id} : new[i] = table[i]
  BY DEF With, Shows
<1> HIDE DEF new
<1>3. EnabledInputs(new) =
         (EnabledInputs(t) \ {id})
            \cup (IF row.enabled /\ row.shape.kind = "input" THEN {id} ELSE {})
  BY <1>2 DEF EnabledInputs, Enabled, Shows
<1> QED
  BY <1>1, <1>2, <1>3 DEF Shows

LEMMA ToggleAccess ==
  ASSUME NEW a \in Addrs, OnlyEditor(a), AccessInv(a), NEW w \in Workers, Toggle(w)
  PROVE  AccessStep(a, w)
<1> DEFINE r   == job[w].req
           t   == job[w].snap
           row == t[r.id]
           on  == ~row.enabled
           sim == IF on THEN Others(t, r.id) \cup {r.id} ELSE Others(t, r.id)
           upd == [row EXCEPT !.enabled = on]
           new == Updated(rules, r.id, upd)
<1>1. pc[w] = "decide" /\ r.op = "toggle"
  BY DEF Toggle, Deciding
<1>2. CASE Decline(w)
  BY <1>2, DeclineAccess
<1>3. ASSUME r.id \in DOMAIN t,
             row.shape.kind = "input" => PassesLockoutCheck(r.by, t, sim),
             NEW p \in {"flock", "enable", "unapply"}, NEW j, Commit(w, new, p, j)
      PROVE  AccessStep(a, w)
  <2>1. /\ Allows(rules, a) /\ FiniteTable(t) /\ Shows(t, rules)
        /\ row.shape.kind = "input" => WouldAllow(t, sim, a)
    BY <1>1, <1>3, DecideFacts DEF Edits
  <2>2. row \in Row
    BY <1>3, <2>1 DEF FiniteTable, IsTable
  <2>3. upd.shape = row.shape /\ upd.pos = row.pos /\ upd.enabled = on /\ row.enabled \in BOOLEAN
    BY <2>2 DEF Row
  <2> HIDE DEF upd
  <2>0. upd.shape = t[r.id].shape
    BY <2>3
  <2>4. /\ new[r.id] = upd /\ \A i \in DOMAIN t \ {r.id} : new[i] = t[i]
        /\ EnabledInputs(new) =
             (EnabledInputs(t) \ {r.id})
                \cup (IF upd.enabled /\ upd.shape.kind = "input" THEN {r.id} ELSE {})
    <3> HIDE DEF t, row, on
    <3> QED BY <1>3, <2>0, <2>1, UpdatedInputs
  <2> HIDE DEF new
  <2>5. \A i \in EnabledInputs(new) : i \in DOMAIN t /\ new[i].shape = t[i].shape /\ new[i].pos = t[i].pos
    BY <1>3, <2>3, <2>4 DEF EnabledInputs, Enabled
  <2>6. WouldAllow(t, EnabledInputs(new), a)
    <3>1. CASE row.shape.kind = "input"
      <4>1. EnabledInputs(new) = sim
        BY <2>3, <2>4, <3>1 DEF Others
      <4> QED
        BY <2>1, <3>1, <4>1
    <3>2. CASE row.shape.kind # "input"
      <4>1. EnabledInputs(new) = EnabledInputs(t)
        BY <2>3, <2>4, <3>2 DEF EnabledInputs, Enabled
      <4>2. EnabledInputs(rules) = EnabledInputs(t) /\ \A i \in EnabledInputs(t) : rules[i] = t[i]
        BY <2>1, ShownInputs
      <4>3. WouldAllow(rules, EnabledInputs(t), a)
        BY <2>1, <4>2 DEF Allows
      <4> HIDE DEF t
      <4> QED
        BY <4>1, <4>2, <4>3, SameVerdict
    <3> QED
      BY <3>1, <3>2
  <2>7. Allows(new, a)
    <3> HIDE DEF t
    <3> QED BY <2>5, <2>6, SameVerdict DEF Allows
  <2>8. p \in Free
    BY DEF Free, Places, Unchecked
  <2> QED
    BY <1>1, <1>3, <2>7, <2>8, CommitAccess
<1> HIDE DEF new
<1>4. \/ Decline(w)
      \/ /\ r.id \in DOMAIN t
         /\ row.shape.kind = "input" => PassesLockoutCheck(r.by, t, sim)
         /\ \E p \in {"flock", "enable", "unapply"} : \E j : Commit(w, new, p, j)
  BY DEF Toggle, new
<1> HIDE DEF sim, row
<1> QED
  BY <1>2, <1>3, <1>4

\* What the check of disable_rule and delete_rule simulated.
LEMMA WithoutRow ==
  ASSUME NEW a \in Addrs, OnlyEditor(a), AccessInv(a), NEW w \in Workers, pc[w] = "decide",
         job[w].req.op \in Edits,
         job[w].snap[job[w].req.id].shape.kind = "input" =>
            PassesLockoutCheck(job[w].req.by, job[w].snap, Others(job[w].snap, job[w].req.id))
  PROVE  WouldAllow(job[w].snap, Others(job[w].snap, job[w].req.id), a)
<1> DEFINE t  == job[w].snap
           id == job[w].req.id
<1>1. Allows(rules, a) /\ Shows(t, rules)
  BY DecideFacts
<1>2. CASE t[id].shape.kind = "input"
  BY <1>2, DecideFacts
<1>3. CASE t[id].shape.kind # "input"
  <2>1. Others(t, id) = EnabledInputs(t)
    BY <1>3 DEF Others, EnabledInputs
  <2>2. EnabledInputs(rules) = EnabledInputs(t) /\ \A i \in EnabledInputs(t) : rules[i] = t[i]
    BY <1>1, ShownInputs
  <2>3. WouldAllow(rules, EnabledInputs(t), a)
    BY <1>1, <2>2 DEF Allows
  <2> HIDE DEF t, id
  <2>4. WouldAllow(t, EnabledInputs(t), a)
    BY <2>2, <2>3, SameVerdict
  <2> QED
    BY <2>1, <2>4 DEF t, id
<1> QED
  BY <1>2, <1>3

LEMMA TakeOutAccess ==
  ASSUME NEW a \in Addrs, OnlyEditor(a), AccessInv(a), NEW w \in Workers,
         NEW op \in {"disable", "delete"}, NEW present, NEW t1, TakeOut(w, op, present, t1),
         present /\ WouldAllow(job[w].snap, Others(job[w].snap, job[w].req.id), a) => Allows(t1, a)
  PROVE  AccessStep(a, w)
<1>1. pc[w] = "decide" /\ job[w].req.op \in Edits
  BY DEF TakeOut, Deciding, Edits
<1>2. CASE Decline(w)
  BY <1>2, DeclineAccess
<1>3. ASSUME present, NEW j, Commit(w, t1, "unapply", j),
             job[w].snap[job[w].req.id].shape.kind = "input" =>
                PassesLockoutCheck(job[w].req.by, job[w].snap, Others(job[w].snap, job[w].req.id))
      PROVE  AccessStep(a, w)
  <2>1. Allows(t1, a)
    BY <1>1, <1>3, WithoutRow
  <2>2. "unapply" \in Free
    BY DEF Free, Places, Unchecked
  <2> QED
    BY <1>1, <1>3, <2>1, <2>2, CommitAccess
<1> QED
  BY <1>2, <1>3 DEF TakeOut

LEMMA DisableAccess ==
  ASSUME NEW a \in Addrs, OnlyEditor(a), AccessInv(a), NEW w \in Workers, Disable(w)
  PROVE  AccessStep(a, w)
<1> DEFINE id  == job[w].req.id
           t   == job[w].snap
           row == [t[id] EXCEPT !.enabled = FALSE]
           t1  == Updated(rules, id, row)
           present == id \in DOMAIN t /\ t[id].enabled
<1>1. TakeOut(w, "disable", present, t1) /\ pc[w] = "decide"
  BY DEF Disable, TakeOut, Deciding
<1>2. ASSUME present, WouldAllow(t, Others(t, id), a)
      PROVE  Allows(t1, a)
  <2>1. FiniteTable(t) /\ Shows(t, rules)
    BY <1>1, DecideFacts
  <2>2. row.shape = t[id].shape /\ ~row.enabled
    BY <1>2, <2>1 DEF FiniteTable, IsTable, Row
  <2> HIDE DEF row
  <2>3. /\ \A i \in DOMAIN t \ {id} : t1[i] = t[i]
        /\ EnabledInputs(t1) = EnabledInputs(t) \ {id}
    BY <1>2, <2>1, <2>2, UpdatedInputs
  <2> HIDE DEF t1
  <2>4. EnabledInputs(t1) = Others(t, id) /\ \A i \in Others(t, id) : t1[i] = t[i]
    BY <2>3 DEF Others, EnabledInputs, Enabled
  <2> HIDE DEF t, id
  <2> QED
    BY <1>2, <2>4, SameVerdict DEF Allows
<1> HIDE DEF t1, present
<1> QED
  BY <1>1, <1>2, TakeOutAccess

LEMMA DeleteAccess ==
  ASSUME NEW a \in Addrs, OnlyEditor(a), AccessInv(a), NEW w \in Workers, Delete(w)
  PROVE  AccessStep(a, w)
<1> DEFINE id == job[w].req.id
           t  == job[w].snap
           t1 == Without(rules, id)
<1>1. TakeOut(w, "delete", id \in DOMAIN t, t1) /\ pc[w] = "decide"
  BY DEF Delete, TakeOut, Deciding
<1>2. ASSUME WouldAllow(t, Others(t, id), a)
      PROVE  Allows(t1, a)
  <2>1. Shows(t, rules)
    BY <1>1, DecideFacts
  <2>2. DOMAIN t1 = DOMAIN rules \ {id} /\ \A i \in DOMAIN rules \ {id} : t1[i] = rules[i]
    BY DEF Without
  <2> HIDE DEF t1
  <2>3. EnabledInputs(t1) = Others(t, id) /\ \A i \in Others(t, id) : t1[i] = t[i]
    BY <2>1, <2>2 DEF Others, EnabledInputs, Enabled, Shows
  <2> HIDE DEF t, id
  <2> QED
    BY <1>2, <2>3, SameVerdict DEF Allows
<1> HIDE DEF t1
<1> QED
  BY <1>1, <1>2, TakeOutAccess

\* reorder_rule moves the row in the simulation as it does in the table.
LEMMA ReorderAccess ==
  ASSUME NEW a \in Addrs, OnlyEditor(a), AccessInv(a), NEW w \in Workers, Reorder(w)
  PROVE  AccessStep(a, w)
<1> DEFINE r == job[w].req
           t == job[w].snap
           moved == [t[r.id] EXCEPT !.pos = ReorderPosition(t, r.id, r.target, r.place)]
           sim == With(t, r.id, moved)
           new == Updated(rules, r.id, moved)
<1>1. pc[w] = "decide" /\ r.op = "reorder"
  BY DEF Reorder, Deciding
<1>2. CASE Decline(w)
  BY <1>2, DeclineAccess
<1>3. ASSUME r.id \in DOMAIN t,
             t[r.id].shape.kind = "input" => PassesLockoutCheck(r.by, sim, EnabledInputs(t)),
             NEW j, Commit(w, new, "flock", j)
      PROVE  AccessStep(a, w)
  <2>1. /\ Allows(rules, a) /\ FiniteTable(t) /\ Shows(t, rules)
        /\ t[r.id].shape.kind = "input" => WouldAllow(sim, EnabledInputs(t), a)
    BY <1>1, <1>3, DecideFacts DEF Edits
  <2>2. moved.shape = t[r.id].shape /\ moved.enabled = t[r.id].enabled
    BY <1>3, <2>1 DEF FiniteTable, IsTable, Row
  <2> HIDE DEF moved
  <2>3. sim[r.id] = moved /\ \A i \in DOMAIN t \ {r.id} : sim[i] = t[i]
    BY DEF With
  <2>4. /\ new[r.id] = moved /\ \A i \in DOMAIN t \ {r.id} : new[i] = t[i]
        /\ EnabledInputs(new) =
             (EnabledInputs(t) \ {r.id})
                \cup (IF moved.enabled /\ moved.shape.kind = "input" THEN {r.id} ELSE {})
    <3>1. r.id \in DOMAIN t /\ Shows(t, rules)
      BY <1>3, <2>1
    <3> HIDE DEF r, t
    <3> QED
      BY <2>2, <3>1, UpdatedInputs, SMTT(60)
  <2> HIDE DEF new, sim
  <2>5. EnabledInputs(new) = EnabledInputs(t)
    BY <1>3, <2>2, <2>4 DEF EnabledInputs, Enabled
  <2>6. \A i \in EnabledInputs(t) : i \in DOMAIN t /\ new[i] = sim[i]
    BY <2>3, <2>4 DEF EnabledInputs, Enabled
  <2>7. Allows(new, a)
    <3>1. CASE t[r.id].shape.kind = "input"
      <4> HIDE DEF t
      <4> QED BY <2>1, <2>5, <2>6, <3>1, SameVerdict DEF Allows
    <3>2. CASE t[r.id].shape.kind # "input"
      <4>1. \A i \in EnabledInputs(t) : new[i] = t[i]
        BY <2>4, <3>2 DEF EnabledInputs, Enabled
      <4>2. EnabledInputs(rules) = EnabledInputs(t) /\ \A i \in EnabledInputs(t) : rules[i] = t[i]
        BY <2>1, ShownInputs
      <4>3. WouldAllow(rules, EnabledInputs(t), a)
        BY <2>1, <4>2 DEF Allows
      <4> HIDE DEF t
      <4> QED
        BY <2>5, <4>1, <4>2, <4>3, SameVerdict DEF Allows
    <3> QED
      BY <3>1, <3>2
  <2>8. "flock" \in Free
    BY DEF Free, Places, Unchecked
  <2> QED
    BY <1>1, <1>3, <2>7, <2>8, CommitAccess
<1>4. \/ Decline(w)
      \/ /\ r.id \in DOMAIN t
         /\ t[r.id].shape.kind = "input" => PassesLockoutCheck(r.by, sim, EnabledInputs(t))
         /\ \E j : Commit(w, new, "flock", j)
  BY DEF Reorder
<1> HIDE DEF new, sim
<1> QED
  BY <1>2, <1>3, <1>4

-----------------------------------------------------------------------------
(* The other steps of a worker. *)

LEMMA ReceiveAccess ==
  ASSUME NEW a \in Addrs, OnlyEditor(a), AccessInv(a), NEW w \in Workers,
         NEW r \in Requests, Receive(w, r)
  PROVE  AccessStep(a, w)
<1>1. rules' = rules /\ pc'[w] = EntryPlace(r) /\ Inv
  BY Goes DEF Receive, AccessInv
<1>2. job'[w] = [NoJob EXCEPT !.req = r]
  BY <1>1, Goes DEF Receive
<1>3. job'[w].req = r
  BY <1>2 DEF NoJob
<1>4. EntryPlace(r) \in Free \/ (EntryPlace(r) = "max" /\ r.shape.kind # "input")
  BY DEF EntryPlace, Free, Places, Unchecked
<1>5. CASE EntryPlace(r) \in Free
  BY <1>1, <1>5, FreeStep
<1>6. CASE EntryPlace(r) = "max" /\ r.shape.kind # "input"
  BY <1>1, <1>3, <1>6 DEF AccessStep, Grows, Careful, AccessInv, Unchecked
<1> QED
  BY <1>4, <1>5, <1>6

LEMMA ReadAccess ==
  ASSUME NEW a, AccessInv(a), NEW w \in Workers, Read(w)
  PROVE  AccessStep(a, w)
<1>1. rules' = rules /\ pc'[w] = "decide" /\ Inv
  BY Goes DEF Read, AccessInv
<1>2. job'[w].snap = rules
  BY <1>1, OfWorker DEF Read, IsJob, NoJob, Inv
<1>3. Shows(rules, rules)
  BY DEF Shows
<1> QED
  BY <1>1, <1>2, <1>3 DEF AccessStep, Grows, Careful, AccessInv, Unchecked

LEMMA UnblockAccess ==
  ASSUME NEW a \in Addrs, OnlyEditor(a), AccessInv(a), NEW w \in Workers, Unblock(w)
  PROVE  AccessStep(a, w)
<1> DEFINE t == job[w].snap
           blocks == BlockRows(t, job[w].req.shape.client)
<1>1. pc[w] = "decide" /\ Inv
  BY DEF Unblock, Deciding, AccessInv
<1>2. CASE Decline(w)
  BY <1>2, DeclineAccess
<1>3. ASSUME NEW i \in blocks, rules' = rules, Goto(w, "unblock"),
             job' = [job EXCEPT ![w].id = i, ![w].cmds = Unapply(i, t[i].shape)]
      PROVE  AccessStep(a, w)
  <2>1. pc'[w] = "unblock" /\ Shows(t, rules)
    BY <1>1, <1>3, Goes, DecideFacts
  <2>2. job'[w].id = i /\ job'[w].snap = t
    BY <1>1, <1>3, OfWorker DEF IsJob, NoJob, Inv
  <2>3. i \in DOMAIN t /\ IsBlock(t[i].shape)
    BY DEF BlockRows
  <2> HIDE DEF t
  <2> QED
    BY <1>3, <2>1, <2>2, <2>3 DEF AccessStep, Grows, Careful, AccessInv, Unchecked
<1> QED
  BY <1>2, <1>3 DEF Unblock

LEMMA UnblockCommitAccess ==
  ASSUME NEW a, AccessInv(a), NEW w \in Workers, UnblockCommit(w)
  PROVE  AccessStep(a, w)
<1>1. /\ pc[w] = "unblock" /\ pc'[w] = "idle" /\ rules' = Without(rules, job[w].id) /\ Inv
      /\ advisory = w /\ Allows(rules, a) /\ Careful(pc[w], job[w], rules)
  BY OfWorker, Goes DEF UnblockCommit, AccessInv, Locked
<1>2. job[w].id \in DOMAIN rules => rules[job[w].id].shape.kind # "input"
  BY <1>1 DEF Careful, Shows, IsBlock
<1>3. Allows(rules', a)
  BY <1>1, <1>2, OtherRows
<1> QED
  BY <1>1, <1>3 DEF AccessStep, Grows, Careful, Unchecked

\* The unlocked insert carries no INPUT rule.
LEMMA ReadMaxAccess ==
  ASSUME NEW a, AccessInv(a), NEW w \in Workers, ReadMax(w)
  PROVE  AccessStep(a, w)
<1>1. rules' = rules /\ pc'[w] = "insert" /\ pc[w] = "max" /\ Inv
  BY Goes DEF ReadMax, AccessInv
<1>2. job'[w].req = job[w].req
  BY <1>1, OfWorker DEF ReadMax, IsJob, NoJob, Inv
<1>3. job[w].req.shape.kind # "input"
  BY <1>1 DEF AccessInv, Careful
<1> QED
  BY <1>1, <1>2, <1>3 DEF AccessStep, Grows, Careful, AccessInv, Unchecked

LEMMA InsertAccess ==
  ASSUME NEW a, AccessInv(a), NEW w \in Workers, Insert(w)
  PROVE  AccessStep(a, w)
<1> DEFINE shape == job[w].req.shape
           row == [shape |-> shape, enabled |-> TRUE, pos |-> job[w].pos]
<1>1. /\ rules' = With(rules, nextId, row) /\ pc'[w] = "apply" /\ pc[w] = "insert" /\ Inv
      /\ Allows(rules, a)
  BY Goes DEF Insert, AccessInv
<1>2. job[w].req \in Requests /\ job[w].req.op = "add" /\ nextId \notin DOMAIN rules
  BY <1>1, OfWorker DEF PlaceOK
<1>3. shape \in Shape /\ shape.kind # "input"
  BY <1>1, <1>2, RequestsAssumption DEF AccessInv, Careful, Request
<1>4. job'[w].cmds = Apply(nextId, shape)
  BY <1>1, OfWorker DEF Insert, IsJob, NoJob, Inv
<1>5. row.shape = shape
  OBVIOUS
<1> HIDE DEF row, shape
<1>6. NoDeletes(job'[w].cmds)
  BY <1>3, <1>4, ApplyAdds
<1>7. Allows(rules', a)
  BY <1>1, <1>2, <1>3, <1>5, OtherRows
<1>8. Grows(w)
  BY <1>1, <1>3, <1>5 DEF Grows
<1> QED
  BY <1>1, <1>6, <1>7, <1>8 DEF AccessStep, Careful, Unchecked

LEMMA RunCommandAccess ==
  ASSUME NEW a, AccessInv(a), NEW w \in Workers, RunCommand(w)
  PROVE  AccessStep(a, w)
<1> DEFINE cmds == job[w].cmds
<1>1. /\ rules' = rules /\ pc' = pc /\ Inv /\ cmds # <<>>
      /\ pc[w] \in Running /\ Careful(pc[w], job[w], rules)
  BY DEF RunCommand, AccessInv
<1>2. /\ job'[w].cmds = Tail(cmds) /\ job'[w].snap = job[w].snap
      /\ job'[w].id = job[w].id /\ job'[w].req = job[w].req
  BY <1>1, OfWorker DEF RunCommand, IsJob, NoJob, Inv
<1>3. cmds \in Seq(Command)
  BY <1>1, OfWorker DEF IsJob
<1> HIDE DEF cmds
<1>4. NoDeletes(cmds) => NoDeletes(Tail(cmds))
  <2>1. /\ Len(Tail(cmds)) = Len(cmds) - 1 /\ Len(cmds) \in Nat
        /\ \A k \in 1..Len(Tail(cmds)) : Tail(cmds)[k] = cmds[k + 1]
    BY <1>1, <1>3
  <2>2. \A k \in 1..Len(Tail(cmds)) : k + 1 \in 1..Len(cmds)
    BY <2>1
  <2> QED
    BY <2>1, <2>2 DEF NoDeletes
<1> QED
  BY <1>1, <1>2, <1>4 DEF AccessStep, Grows, Careful, AccessInv, cmds

LEMMA AbortAccess ==
  ASSUME Inv, NEW w \in Workers, AbortRebuild(w)
  PROVE  pc'[w] \in Free
BY Goes DEF AbortRebuild, Free, Places, Unchecked

\* A command that only adds does not fail, so nothing needs to be undone.
LEMMA FailCommandAccess ==
  ASSUME NEW a \in Addrs, OnlyEditor(a), AccessInv(a), NEW w \in Workers, FailCommand(w)
  PROVE  AccessStep(a, w)
<1> DEFINE cmds == job[w].cmds
<1>1. /\ rules' = rules /\ Inv /\ cmds # <<>> /\ ~Executable(Head(cmds))
      /\ Careful(pc[w], job[w], rules)
  BY DEF FailCommand, AccessInv, OnlyEditor
<1>2. cmds \in Seq(Command)
  BY <1>1, OfWorker DEF IsJob
<1>3. pc[w] # "apply"
  <2>1. 1 \in 1..Len(cmds) /\ Head(cmds) = cmds[1]
    BY <1>1, <1>2
  <2>2. cmds[1].op = "-D"
    BY <1>1, <2>1 DEF Executable
  <2> QED
    BY <1>1, <2>1, <2>2 DEF Careful, NoDeletes
<1>4. pc'[w] \in Free
  <2>1. CASE pc[w] \in {"unapply", "sync"} /\ pc' = pc
    BY <2>1 DEF Free, Places, Unchecked
  <2>2. CASE Finish(w)
    BY <1>1, <2>2, Goes DEF Free, Places, Unchecked
  <2>3. CASE AbortRebuild(w)
    BY <1>1, <2>3, AbortAccess
  <2> QED
    BY <1>3, <2>1, <2>2, <2>3 DEF FailCommand
<1> QED
  BY <1>1, <1>4, FreeStep

LEMMA TakeFlockAccess ==
  ASSUME NEW a \in Addrs, OnlyEditor(a), AccessInv(a), NEW w \in Workers, TakeFlock(w)
  PROVE  AccessStep(a, w)
<1>1. rules' = rules /\ Inv /\ pc[w] = "flock"
  BY DEF TakeFlock, AccessInv
<1>2. job[w].req.op # "discover"
  BY <1>1, OfWorker DEF PlaceOK, OnlyEditor
<1>3. pc'[w] = "list"
  BY <1>1, <1>2, Goes DEF TakeFlock
<1>4. "list" \in Free
  BY DEF Free, Places, Unchecked
<1> QED
  BY <1>1, <1>3, <1>4, FreeStep

\* Steps that change no row and lead to a place where nothing is owed.
LEMMA FreeSteps ==
  ASSUME NEW a, AccessInv(a), NEW w \in Workers,
         \/ Lock(w) \/ LockTimeout(w) \/ Applied(w) \/ SyncStart(w) \/ SyncBlocksDone(w)
         \/ ListChain(w) \/ ListFails(w) \/ ReloadRules(w) \/ ChainRebuilt(w) \/ Crash(w)
  PROVE  AccessStep(a, w)
<1>1. Inv
  BY DEF AccessInv
<1>2. rules' = rules
  BY DEF Lock, LockTimeout, Applied, SyncStart, SyncBlocksDone, ListChain, ListFails,
         ReloadRules, ChainRebuilt, Crash
<1>3. ASSUME ~ListFails(w)
      PROVE  pc'[w] \in Free
  <2>1. \/ Finish(w)
        \/ \E p \in {"read", "sync", "flock", "strip", "fill", "list"} : Goto(w, p)
    BY <1>3 DEF Lock, LockTimeout, Applied, SyncStart, SyncBlocksDone, ListChain,
                ReloadRules, ChainRebuilt, Crash
  <2>2. pc'[w] \in {"idle", "read", "sync", "flock", "strip", "fill", "list"}
    BY <1>1, <2>1, Goes
  <2> QED
    BY <2>2 DEF Free, Places, Unchecked
<1>4. pc'[w] \in Free
  BY <1>1, <1>3, AbortAccess DEF ListFails
<1> QED
  BY <1>2, <1>4, FreeStep

-----------------------------------------------------------------------------
\* Nobody is at a place from which a step could change a row unchecked.
LEMMA EveryAccessStep ==
  ASSUME NEW a \in Addrs, OnlyEditor(a), AccessInv(a), NEW w \in Workers, Step(w)
  PROVE  AccessStep(a, w)
<1>1. pc[w] \notin Unchecked
  BY DEF AccessInv, Careful
<1>2. ~Undo(w) /\ ~Discovery(w)
  BY <1>1 DEF Unchecked, Undo, Discovery, Snapshot, ScanChain, ScanFails, Adopt, Claim,
              DropAdopted, ChainScanned, AllScanned
<1>3. CASE Transaction(w)
  BY <1>3, FreeSteps, ReadAccess, AddInputAccess, ToggleAccess, DisableAccess, DeleteAccess,
     ReorderAccess, BlockAccess, UnblockAccess, UnblockCommitAccess DEF Transaction
<1>4. CASE UnlockedInsert(w)
  BY <1>4, ReadMaxAccess, InsertAccess DEF UnlockedInsert
<1>5. CASE Commands(w)
  BY <1>2, <1>5, RunCommandAccess, FailCommandAccess, FreeSteps DEF Commands
<1>6. CASE Rebuild(w)
  BY <1>6, TakeFlockAccess, FreeSteps DEF Rebuild
<1> QED
  BY <1>2, <1>3, <1>4, <1>5, <1>6 DEF Step

LEMMA AccessNext ==
  ASSUME NEW a \in Addrs, OnlyEditor(a)
  PROVE  AccessInv(a) /\ [Next]_vars => AccessInv(a)'
<1> SUFFICES ASSUME AccessInv(a), [Next]_vars
             PROVE  AccessInv(a)'
  OBVIOUS
<1>1. Inv /\ Inv'
  BY NextInv DEF AccessInv
<1>2. ASSUME NEW w \in Workers, Step(w)
      PROVE  AccessInv(a)'
  BY <1>1, <1>2, EveryStepOK, EveryAccessStep, AccessStepKeeps
<1>3. ASSUME NEW w \in Workers, NEW r \in Requests, Receive(w, r)
      PROVE  AccessInv(a)'
  BY <1>1, <1>3, ReceiveStep, ReceiveAccess, AccessStepKeeps
<1>4. ASSUME NEW w \in Workers, Crash(w)
      PROVE  AccessInv(a)'
  BY <1>1, <1>4, CrashStep, FreeSteps, AccessStepKeeps
<1>5. CASE UNCHANGED <<rules, pc, job>>
  BY <1>1, <1>5 DEF AccessInv
<1>6. [\E w \in Workers : Step(w) \/ Crash(w) \/ \E r \in Requests : Receive(w, r)]_<<rules, pc, job>>
  BY DEF Next, Environment, ManualAppend, ManualDelete, Flush, vars
<1> QED
  BY <1>2, <1>3, <1>4, <1>5, <1>6

LEMMA AccessInit ==
  ASSUME NEW a \in Addrs, OnlyEditor(a)
  PROVE  Init => AccessInv(a)
<1> SUFFICES ASSUME Init
             PROVE  AccessInv(a)
  OBVIOUS
<1>1. Inv
  BY InitInv
<1>2. Allows(rules, a)
  BY DEF Init, OnlyEditor
<1>3. \A w \in Workers : Careful(pc[w], job[w], rules)
  BY DEF Init, Careful, Unchecked
<1> QED
  BY <1>1, <1>2, <1>3 DEF AccessInv

\* The self-lockout guard of add_input_rule, toggle_rule, disable_rule,
\* delete_rule and reorder_rule, composed: as long as a alone edits the INPUT
\* rules and is let in at the start, the table lets a in for ever, whatever
\* the interleaving of any number of workers, with crashes, synchronisations,
\* blocks, unlocked inserts of other rules and hand edits in between.
THEOREM EditorStaysIn ==
  ASSUME NEW a \in Addrs, OnlyEditor(a)
  PROVE  Spec => [](WouldAllow(rules, EnabledInputs(rules), a))
<1>1. Init => AccessInv(a)
  BY AccessInit
<1>2. AccessInv(a) /\ [Next]_vars => AccessInv(a)'
  BY AccessNext
<1>3. AccessInv(a) => WouldAllow(rules, EnabledInputs(rules), a)
  BY DEF AccessInv, Allows
<1> QED
  BY <1>1, <1>2, <1>3, PTL DEF Spec

\* The property the runs check, where no request protects another address.
THEOREM RequesterNeverShutOut ==
  ASSUME NEW a \in Addrs, OnlyEditor(a), Requesters \subseteq {a}
  PROVE  Spec => []AccessKept
<1>1. WouldAllow(rules, EnabledInputs(rules), a) => AccessKept
  BY DEF AccessKept
<1>2. Spec => [](WouldAllow(rules, EnabledInputs(rules), a))
  BY EditorStaysIn
<1> QED
  BY <1>1, <1>2, PTL

-----------------------------------------------------------------------------
(* Unblocking a VPN client.  An unblock deletes one live rule per chain and *)
(* then the row: that clears the client only if there never are two rules   *)
(* of one client in a chain, live or about to be inserted.                  *)

\* What set_client_block's order of removal needs: no iptables command fails,
\* no synchronisation works from a row read before an unblock, the rules page
\* edits other rows than blocks, and nobody types a block by hand.
BlocksByRequest ==
    /\ ~IptablesFails
    /\ \A r \in Requests :
          /\ r.op # "sync"
          /\ r.op \in {"toggle", "disable", "delete"} =>
                \A t \in InitTables : r.id \in DOMAIN t /\ ~IsBlock(t[r.id].shape)
    /\ \A m \in ManualRules : ~IsBlock(m[2])

BlockChains == {"FORWARD", "INPUT"}

BlocksClient(e, c) == IsBlock(e.shape) /\ e.shape.client = c

\* Client c is blocked in sequence s of live entries, by one entry at most.
BlockedBy(s, c) == \E k \in 1..Len(s) : BlocksClient(s[k], c)
BlockedOnce(s, c) ==
    \A k, m \in 1..Len(s) : BlocksClient(s[k], c) /\ BlocksClient(s[m], c) => k = m

\* Commands cmds still to be run insert a block of c into a chain.
Inserts(cmds, c, chain) ==
    \E k \in 1..Len(cmds) : cmds[k].chain = chain /\ BlocksClient(cmds[k].entry, c)
InsertsOnce(cmds, c, chain) ==
    \A k, m \in 1..Len(cmds) :
        /\ cmds[k].chain = chain /\ BlocksClient(cmds[k].entry, c)
        /\ cmds[m].chain = chain /\ BlocksClient(cmds[m].entry, c)
        => k = m

Due(p, j, c, chain) == p = "apply" /\ Inserts(j.cmds, c, chain)

OnlyDeletes(cmds) == \A k \in 1..Len(cmds) : cmds[k].op = "-D"
NoBlocks(cmds) == \A k \in 1..Len(cmds) : ~IsBlock(cmds[k].entry.shape)

\* Rows the requests of the rules page name are no blocks.
NamesNoBlock(t) ==
    \A r \in Requests :
        r.op \in {"toggle", "disable", "delete"} /\ r.id \in DOMAIN t => ~IsBlock(t[r.id].shape)

\* A handler at place p with local variables j, as far as blocks go.
Orderly(p, j, table, next) ==
    /\ p \notin {"undo", "enable", "start", "sync"}
    /\ NamesNoBlock(j.snap)
    /\ p = "apply" => NoDeletes(j.cmds)
    /\ p \in {"unapply", "strip", "unblock"} => OnlyDeletes(j.cmds)
    /\ p = "fill" => NoBlocks(j.cmds)
    /\ p \in {"claim", "drop"} =>
          j.id < next /\ (j.id \in DOMAIN table => ~IsBlock(table[j.id].shape))
    /\ p = "unblock" =>
          /\ j.id \in DOMAIN j.snap /\ j.id < next
          /\ IsBlock(j.snap[j.id].shape) /\ j.snap[j.id].shape.client \in Clients
          /\ j.id \in DOMAIN table => table[j.id].shape = j.snap[j.id].shape
          /\ \A k \in 1..Len(j.cmds) : BlocksClient(j.cmds[k].entry, j.snap[j.id].shape.client)

\* Somewhere client c is blocked in a chain, or about to be.
Traced(c, chain) ==
    BlockedBy(live[chain], c) \/ \E w \in Workers : Due(pc[w], job[w], c, chain)

\* One trace per client and chain, and none without a row.
OneTrace(c, chain) ==
    /\ BlockedOnce(live[chain], c)
    /\ \A w \in Workers : Due(pc[w], job[w], c, chain) =>
          /\ InsertsOnce(job[w].cmds, c, chain)
          /\ ~BlockedBy(live[chain], c)
          /\ \A v \in Workers \ {w} : ~Due(pc[v], job[v], c, chain)
    /\ Traced(c, chain) => BlockRows(rules, c) # {}

\* An unblock has cleared the chains it has no command left for.
ClearsBehind(p, j) ==
    p = "unblock" =>
        \A chain \in BlockChains :
            Traced(j.snap[j.id].shape.client, chain) =>
                \E k \in 1..Len(j.cmds) : j.cmds[k].chain = chain

ClearInv ==
    /\ Inv
    /\ NamesNoBlock(rules)
    /\ \A r \in Requests : r.op \in {"toggle", "disable", "delete"} => r.id < nextId
    /\ \A w \in Workers : Orderly(pc[w], job[w], rules, nextId)
    /\ \A c \in Clients, chain \in BlockChains : OneTrace(c, chain)
    /\ \A w \in Workers : ClearsBehind(pc[w], job[w])

-----------------------------------------------------------------------------
(* What the commands do to the live blocks of a client. *)

LEMMA BlocksRemoved ==
  ASSUME NEW s \in Seq(Entry), NEW n \in 1..Len(s), NEW c, BlockedOnce(s, c)
  PROVE  /\ BlockedOnce(RemoveAt(s, n), c)
         /\ BlockedBy(RemoveAt(s, n), c) => BlockedBy(s, c)
         /\ BlocksClient(s[n], c) => ~BlockedBy(RemoveAt(s, n), c)
<1> DEFINE u == RemoveAt(s, n)
           from(k) == IF k < n THEN k ELSE k + 1
<1>1. Len(u) = Len(s) - 1 /\ \A k \in 1..Len(s) - 1 : u[k] = s[from(k)]
  BY RemoveAtIs
<1>2. Len(s) \in Nat /\ n \in Nat
  OBVIOUS
<1>3. \A k \in 1..Len(u) : from(k) \in 1..Len(s) /\ from(k) # n /\ u[k] = s[from(k)]
  BY <1>1, <1>2
<1>4. \A k, m \in 1..Len(u) : from(k) = from(m) => k = m
  BY <1>1, <1>2
<1> HIDE DEF u, from
<1>5. BlockedOnce(u, c)
  BY <1>3, <1>4 DEF BlockedOnce
<1>6. BlockedBy(u, c) => BlockedBy(s, c)
  BY <1>3 DEF BlockedBy
<1>7. BlocksClient(s[n], c) => ~BlockedBy(u, c)
  BY <1>3 DEF BlockedOnce, BlockedBy
<1> QED
  BY <1>5, <1>6, <1>7 DEF u

\* An entry at either end.
LEMMA BlocksAdded ==
  ASSUME NEW s \in Seq(Entry), NEW e \in Entry, NEW c, BlockedOnce(s, c),
         NEW u \in {Append(s, e), <<e>> \o s}
  PROVE  /\ ~BlocksClient(e, c) \/ ~BlockedBy(s, c) => BlockedOnce(u, c)
         /\ BlockedBy(u, c) => BlockedBy(s, c) \/ BlocksClient(e, c)
<1> DEFINE off == IF u = Append(s, e) THEN 0 ELSE 1
           new == IF u = Append(s, e) THEN Len(s) + 1 ELSE 1
<1>1. /\ Len(u) = Len(s) + 1 /\ Len(s) \in Nat /\ new \in 1..Len(u) /\ u[new] = e
      /\ \A k \in 1..Len(u) : k # new => k - off \in 1..Len(s) /\ u[k] = s[k - off]
  <2>1. CASE u = Append(s, e)
    BY <2>1
  <2>2. CASE u = <<e>> \o s /\ u # Append(s, e)
    <3>1. <<e>> \in Seq(Entry) /\ Len(<<e>>) = 1 /\ <<e>>[1] = e
      OBVIOUS
    <3>2. Len(u) = 1 + Len(s)
          /\ \A k \in 1..1 + Len(s) : u[k] = IF k <= 1 THEN <<e>>[k] ELSE s[k - 1]
      BY <2>2, <3>1, ConcatProperties
    <3>3. off = 1 /\ new = 1 /\ Len(s) \in Nat
      BY <2>2
    <3>4. \A k \in 1..1 + Len(s) : k # 1 => k - 1 \in 1..Len(s) /\ u[k] = s[k - 1]
      BY <3>2, <3>3
    <3>5. u[1] = e /\ 1 \in 1..1 + Len(s) /\ 1 + Len(s) = Len(s) + 1
      BY <3>1, <3>2, <3>3
    <3> HIDE DEF off, new
    <3> QED
      BY <3>2, <3>3, <3>4, <3>5
  <2> QED
    BY <2>1, <2>2
<1>2. off \in {0, 1}
  OBVIOUS
<1> HIDE DEF off, new
<1>3. \A k, m \in 1..Len(u) : k # new /\ m # new /\ k - off = m - off => k = m
  BY <1>1, <1>2
<1>4. BlockedBy(u, c) => BlockedBy(s, c) \/ BlocksClient(e, c)
  BY <1>1 DEF BlockedBy
<1>5. ASSUME ~BlocksClient(e, c) \/ ~BlockedBy(s, c),
             NEW k \in 1..Len(u), NEW m \in 1..Len(u),
             BlocksClient(u[k], c), BlocksClient(u[m], c)
      PROVE  k = m
  <2>1. CASE ~BlocksClient(e, c)
    <3>1. k # new /\ m # new
      BY <1>1, <1>5, <2>1
    <3> QED
      BY <1>1, <1>3, <1>5, <3>1 DEF BlockedOnce
  <2>2. CASE ~BlockedBy(s, c)
    BY <1>1, <1>5, <2>2 DEF BlockedBy
  <2> QED
    BY <1>5, <2>1, <2>2
<1> QED
  BY <1>4, <1>5 DEF BlockedOnce

LEMMA ExecutedBlocks ==
  ASSUME live \in [Chains -> Seq(Entry)], NEW d \in Command, Executable(d),
         NEW chain \in Chains, NEW c, BlockedOnce(live[chain], c)
  PROVE  LET new == Executed(d)[chain]
         IN  /\ chain # d.chain => new = live[chain]
             /\ chain = d.chain /\ d.op = "-D" =>
                   /\ BlockedOnce(new, c)
                   /\ BlockedBy(new, c) => BlockedBy(live[chain], c) /\ ~BlocksClient(d.entry, c)
             /\ chain = d.chain /\ d.op # "-D" =>
                   /\ ~BlocksClient(d.entry, c) \/ ~BlockedBy(live[chain], c) => BlockedOnce(new, c)
                   /\ BlockedBy(new, c) => BlockedBy(live[chain], c) \/ BlocksClient(d.entry, c)
<1> DEFINE s == live[chain]
           new == Executed(d)[chain]
<1>1. d.chain \in Chains /\ d.entry \in Entry /\ d.op \in {"-A", "-I", "-D"} /\ s \in Seq(Entry)
  BY DEF Command
<1>2. chain # d.chain => new = s
  BY DEF Executed
<1>3. ASSUME chain = d.chain, d.op = "-D"
      PROVE  /\ BlockedOnce(new, c)
             /\ BlockedBy(new, c) => BlockedBy(s, c) /\ ~BlocksClient(d.entry, c)
  <2>1. new = RemoveFirst(s, d.entry)
    BY <1>1, <1>3 DEF Executed
  <2>2. d.entry \in ToSet(s)
    BY <1>3 DEF Executable
  <2> HIDE DEF s, new
  <2>3. PICK n \in 1..Len(s) : s[n] = d.entry /\ new = RemoveAt(s, n)
    BY <1>1, <2>1, <2>2, RemoveFirstIs
  <2> QED
    BY <1>1, <2>3, BlocksRemoved DEF s
<1>4. ASSUME chain = d.chain, d.op # "-D"
      PROVE  /\ ~BlocksClient(d.entry, c) \/ ~BlockedBy(s, c) => BlockedOnce(new, c)
             /\ BlockedBy(new, c) => BlockedBy(s, c) \/ BlocksClient(d.entry, c)
  <2>1. new \in {Append(s, d.entry), <<d.entry>> \o s}
    BY <1>1, <1>4 DEF Executed
  <2> HIDE DEF new
  <2> QED
    BY <1>1, <2>1, BlocksAdded
<1> QED
  BY <1>2, <1>3, <1>4

-----------------------------------------------------------------------------
(* What a step of worker w must do to keep the traces in order. *)

\* Rows keep their rule for as long as they exist, and ids are not reused.
ShapesStay ==
    /\ nextId' >= nextId
    /\ \A i \in DOMAIN rules' :
          \/ i \in DOMAIN rules /\ rules'[i].shape = rules[i].shape
          \/ i >= nextId

Keeps(w, c, chain) ==
    /\ BlockedBy(live'[chain], c) \/ Due(pc'[w], job'[w], c, chain) =>
          BlockedBy(live[chain], c) \/ Due(pc[w], job[w], c, chain)
    /\ BlockRows(rules, c) # {} => BlockRows(rules', c) # {}

Starts(w, c, chain) ==
    /\ BlockRows(rules, c) = {} /\ BlockRows(rules', c) # {}
    /\ ~BlockedBy(live'[chain], c) /\ advisory = w

Ends(w, c, chain) ==
    /\ ~BlockedBy(live'[chain], c) /\ ~Due(pc'[w], job'[w], c, chain)
    /\ \A v \in Workers \ {w} : ~Due(pc[v], job[v], c, chain)

TraceStep(w, c, chain) ==
    /\ BlockedOnce(live'[chain], c)
    /\ Due(pc'[w], job'[w], c, chain) =>
          InsertsOnce(job'[w].cmds, c, chain) /\ ~BlockedBy(live'[chain], c)
    /\ Keeps(w, c, chain) \/ Starts(w, c, chain) \/ Ends(w, c, chain)

ClearStep(w) ==
    /\ ShapesStay
    /\ Orderly(pc'[w], job'[w], rules', nextId')
    /\ \A c \in Clients, chain \in BlockChains : TraceStep(w, c, chain)
    /\ ClearsBehind(pc[w], job[w])'

\* The traces of the others, seen from the step of w.
LEMMA TracesKept ==
  ASSUME ClearInv, NEW w \in Workers, StepOK(w), NEW c \in Clients, NEW chain \in BlockChains,
         TraceStep(w, c, chain)
  PROVE  /\ OneTrace(c, chain)'
         /\ ~Starts(w, c, chain) /\ Traced(c, chain)' => Traced(c, chain)
<1>1. \A v \in Workers \ {w} : pc'[v] = pc[v] /\ job'[v] = job[v]
  BY DEF StepOK, Moves, ClearInv, Inv
<1>2. OneTrace(c, chain)
  BY DEF ClearInv
<1>3. \A v \in Workers \ {w} :
        Due(pc'[v], job'[v], c, chain) <=> Due(pc[v], job[v], c, chain)
  BY <1>1
<1>4. Traced(c, chain)' <=>
         \/ BlockedBy(live'[chain], c) \/ Due(pc'[w], job'[w], c, chain)
         \/ \E v \in Workers \ {w} : Due(pc[v], job[v], c, chain)
  BY <1>3 DEF Traced
<1>5. \A v \in Workers \ {w} : pc[v] = "apply" => job'[v].cmds = job[v].cmds
  BY <1>1
<1>6. CASE Starts(w, c, chain)
  <2>1. ~Traced(c, chain)
    BY <1>2, <1>6 DEF OneTrace, Starts
  <2>2. \A v \in Workers \ {w} : ~Due(pc[v], job[v], c, chain)
    BY <2>1 DEF Traced
  <2> QED
    BY <1>3, <1>6, <2>2 DEF TraceStep, OneTrace, Starts
<1>7. CASE Ends(w, c, chain)
  BY <1>3, <1>4, <1>7 DEF TraceStep, OneTrace, Ends
<1>8. CASE Keeps(w, c, chain)
  <2>1. ASSUME NEW v \in Workers \ {w}, Due(pc[v], job[v], c, chain)
        PROVE  /\ ~BlockedBy(live'[chain], c) /\ ~Due(pc'[w], job'[w], c, chain)
               /\ \A u \in Workers \ {v} : ~Due(pc'[u], job'[u], c, chain)
               /\ InsertsOnce(job'[v].cmds, c, chain)
    <3>1. /\ ~BlockedBy(live[chain], c) /\ InsertsOnce(job[v].cmds, c, chain)
          /\ \A u \in Workers \ {v} : ~Due(pc[u], job[u], c, chain)
      BY <1>2, <2>1 DEF OneTrace
    <3>2. ~BlockedBy(live'[chain], c) /\ ~Due(pc'[w], job'[w], c, chain)
      BY <1>8, <2>1, <3>1 DEF Keeps
    <3> QED
      BY <1>1, <1>3, <3>1, <3>2
  <2>2. Due(pc'[w], job'[w], c, chain) => \A v \in Workers \ {w} : ~Due(pc'[v], job'[v], c, chain)
    BY <1>3, <2>1
  <2>3. Traced(c, chain)' => Traced(c, chain)
    BY <1>4, <1>8 DEF Keeps, Traced
  <2>4. Traced(c, chain)' => BlockRows(rules', c) # {}
    BY <1>2, <1>8, <2>3 DEF OneTrace, Keeps
  <2> QED
    BY <1>3, <2>1, <2>2, <2>3, <2>4 DEF TraceStep, OneTrace
<1> QED
  BY <1>6, <1>7, <1>8 DEF TraceStep

LEMMA ClearStepKeeps ==
  ASSUME ClearInv, NEW w \in Workers, StepOK(w), ClearStep(w)
  PROVE  ClearInv'
<1>1. Inv' /\ Inv
  BY StepKeepsInv DEF ClearInv
<1>2. \A v \in Workers \ {w} : pc'[v] = pc[v] /\ job'[v] = job[v]
  BY DEF StepOK, Moves, ClearInv, Inv
<1>3. nextId \in Nat /\ nextId' \in Nat /\ nextId' >= nextId
  BY <1>1 DEF ClearStep, ShapesStay, Inv, SharedOK
<1>4. ASSUME NEW r \in Requests, r.op \in {"toggle", "disable", "delete"}
      PROVE  /\ r.id < nextId'
             /\ r.id \in DOMAIN rules' => ~IsBlock(rules'[r.id].shape)
  <2>1. r.id < nextId /\ r.id \in Nat
    BY <1>4, RequestsAssumption DEF ClearInv, Request
  <2> QED
    BY <1>3, <1>4, <2>1 DEF ClearStep, ShapesStay, ClearInv, NamesNoBlock
<1>5. ASSUME NEW v \in Workers
      PROVE  Orderly(pc'[v], job'[v], rules', nextId')
  <2>1. CASE v = w
    BY <2>1 DEF ClearStep
  <2>2. CASE v # w
    <3>1. pc'[v] = pc[v] /\ job'[v] = job[v] /\ job[v].id \in Nat
      BY <1>1, <1>2, <2>2 DEF Inv, IsJob
    <3>2. Orderly(pc[v], job[v], rules, nextId)
      BY DEF ClearInv
    <3>3. job[v].id < nextId =>
             /\ job[v].id < nextId'
             /\ job[v].id \in DOMAIN rules' =>
                   job[v].id \in DOMAIN rules /\ rules'[job[v].id].shape = rules[job[v].id].shape
      BY <1>3, <3>1 DEF ClearStep, ShapesStay
    <3> QED
      BY <3>1, <3>2, <3>3 DEF Orderly
  <2> QED
    BY <2>1, <2>2
<1>6. \A c \in Clients, chain \in BlockChains : OneTrace(c, chain)'
  BY TracesKept DEF ClearStep
<1>7. ASSUME NEW v \in Workers
      PROVE  ClearsBehind(pc[v], job[v])'
  <2>1. CASE v = w
    BY <2>1 DEF ClearStep
  <2>2. CASE v # w
    <3> SUFFICES ASSUME pc'[v] = "unblock"
                 PROVE  ClearsBehind(pc[v], job[v])'
      BY DEF ClearsBehind
    <3>1. pc'[v] = pc[v] /\ job'[v] = job[v]
      BY <1>2, <2>2
    <3>2. advisory # w
      BY <1>1, <2>2, <3>1, OfWorker DEF Locked
    <3>3. PICK c \in Clients : c = job[v].snap[job[v].id].shape.client
      BY <3>1 DEF ClearInv, Orderly
    <3>4. \A chain \in BlockChains : Traced(c, chain)' => Traced(c, chain)
      BY <3>2, TracesKept DEF ClearStep, Starts
    <3>5. ClearsBehind(pc[v], job[v])
      BY DEF ClearInv
    <3> QED
      BY <3>1, <3>3, <3>4, <3>5 DEF ClearsBehind
  <2> QED
    BY <2>1, <2>2
<1> QED
  BY <1>1, <1>4, <1>5, <1>6, <1>7 DEF ClearInv, NamesNoBlock

\* Steps that neither run nor plan a block and drop no block row.
LEMMA NoNewTrace ==
  ASSUME ClearInv, NEW w \in Workers, live' = live,
         \A i \in DOMAIN rules : IsBlock(rules[i].shape) =>
            i \in DOMAIN rules' /\ rules'[i].shape = rules[i].shape,
         pc'[w] # "apply" \/ NoBlocks(job'[w].cmds)
  PROVE  \A c \in Clients, chain \in BlockChains : TraceStep(w, c, chain)
<1> SUFFICES ASSUME NEW c \in Clients, NEW chain \in BlockChains
             PROVE  TraceStep(w, c, chain)
  OBVIOUS
<1>1. ~Due(pc'[w], job'[w], c, chain)
  BY DEF Due, Inserts, NoBlocks, BlocksClient
<1>2. BlockRows(rules, c) # {} => BlockRows(rules', c) # {}
  BY DEF BlockRows
<1>3. BlockedOnce(live[chain], c)
  BY DEF ClearInv, OneTrace
<1> QED
  BY <1>1, <1>2, <1>3 DEF TraceStep, Keeps

\* The places where nothing is owed to the blocks.
Easy == Places \ {"undo", "enable", "start", "sync", "apply", "unapply", "strip", "unblock",
                  "fill", "claim", "drop"}

LEMMA EasyStep ==
  ASSUME ClearInv, NEW w \in Workers, rules' = rules, nextId' = nextId, live' = live,
         pc'[w] \in Easy, NamesNoBlock(job'[w].snap)
  PROVE  ClearStep(w)
<1>1. ShapesStay
  BY DEF ShapesStay, ClearInv, Inv, SharedOK
<1>2. Orderly(pc'[w], job'[w], rules', nextId')
  BY DEF Orderly, Easy
<1>3. \A c \in Clients, chain \in BlockChains : TraceStep(w, c, chain)
  BY NoNewTrace DEF Easy
<1>4. ClearsBehind(pc[w], job[w])'
  BY DEF ClearsBehind, Easy
<1> QED
  BY <1>1, <1>2, <1>3, <1>4 DEF ClearStep

LEMMA NoJobNames == NamesNoBlock(NoJob.snap)
<1>1. DOMAIN NoJob.snap = {}
  BY DEF NoJob
<1> QED
  BY <1>1 DEF NamesNoBlock

LEMMA FinishClear ==
  ASSUME ClearInv, NEW w \in Workers, rules' = rules, nextId' = nextId, live' = live, Finish(w)
  PROVE  ClearStep(w)
<1>1. pc'[w] = "idle" /\ job'[w] = NoJob
  BY Goes DEF ClearInv
<1>2. "idle" \in Easy
  BY DEF Easy, Places
<1> QED
  BY <1>1, <1>2, NoJobNames, EasyStep

\* What the invariant says of the worker that moves.
LEMMA OfClear ==
  ASSUME ClearInv, NEW w \in Workers
  PROVE  /\ Inv /\ Orderly(pc[w], job[w], rules, nextId) /\ NamesNoBlock(job[w].snap)
         /\ NamesNoBlock(rules) /\ ClearsBehind(pc[w], job[w])
         /\ nextId \in Nat \ {0} /\ \A i \in DOMAIN rules : i \in Nat /\ i < nextId
BY DEF ClearInv, Orderly, Inv, SharedOK, FiniteTable, IsTable

-----------------------------------------------------------------------------
(* Steps that lead to a place where nothing is owed. *)

LEMMA ReceiveClear ==
  ASSUME BlocksByRequest, ClearInv, NEW w \in Workers, NEW r \in Requests, Receive(w, r)
  PROVE  ClearStep(w)
<1>1. /\ rules' = rules /\ nextId' = nextId /\ live' = live
      /\ pc'[w] = EntryPlace(r) /\ job'[w] = [NoJob EXCEPT !.req = r]
  BY Goes DEF Receive, ClearInv
<1>2. job'[w].snap = NoJob.snap
  BY <1>1 DEF NoJob
<1>3. EntryPlace(r) \in Easy
  BY DEF BlocksByRequest, EntryPlace, Easy, Places
<1> QED
  BY <1>1, <1>2, <1>3, NoJobNames, EasyStep

\* The handler keeps its snapshot.
LEMMA SameSnap ==
  ASSUME Inv, NEW w \in Workers
  PROVE  /\ \A x : job' = [job EXCEPT ![w].pos = x] => job'[w].snap = job[w].snap
         /\ \A x : job' = [job EXCEPT ![w].cmds = x] => job'[w].snap = job[w].snap
         /\ \A x : job' = [job EXCEPT ![w].chains = x] => job'[w].snap = job[w].snap
         /\ \A x : job' = [job EXCEPT ![w].scan = x] => job'[w].snap = job[w].snap
         /\ \A x : job' = [job EXCEPT ![w].found = x] => job'[w].snap = job[w].snap
         /\ \A x : job' = [job EXCEPT ![w].id = x] => job'[w].snap = job[w].snap
         /\ \A x, y : job' = [job EXCEPT ![w].chains = x, ![w].cmds = y] =>
               job'[w].snap = job[w].snap
         /\ \A x, y : job' = [job EXCEPT ![w].id = x, ![w].cmds = y] =>
               job'[w].snap = job[w].snap
BY OfWorker DEF IsJob, NoJob, Inv

LEMMA AbortClear ==
  ASSUME ClearInv, NEW w \in Workers, rules' = rules, nextId' = nextId, live' = live,
         AbortRebuild(w)
  PROVE  ClearStep(w)
<1>1. CASE Finish(w)
  BY <1>1, FinishClear
<1>2. CASE /\ Goto(w, "flock")
           /\ job' = [job EXCEPT ![w].chains = Tail(@), ![w].cmds = <<>>]
  <2>1. pc'[w] = "flock" /\ job'[w].snap = job[w].snap
    BY <1>2, OfClear, Goes, OfWorker DEF IsJob, NoJob, Inv
  <2>2. "flock" \in Easy
    BY DEF Easy, Places
  <2> QED
    BY <2>1, <2>2, OfClear, EasyStep
<1> QED
  BY <1>1, <1>2 DEF AbortRebuild

LEMMA EasySteps ==
  ASSUME ClearInv, NEW w \in Workers,
         \/ Lock(w) \/ LockTimeout(w) \/ ReadMax(w) \/ Applied(w)
         \/ TakeFlock(w) \/ ListFails(w) \/ ChainRebuilt(w)
         \/ ScanChain(w) \/ ScanFails(w) \/ ChainScanned(w) \/ AllScanned(w) \/ Crash(w)
         \/ Decline(w)
  PROVE  ClearStep(w)
<1>1. rules' = rules /\ nextId' = nextId /\ live' = live /\ Inv
  BY OfClear DEF Lock, LockTimeout, ReadMax, Applied, TakeFlock, ListFails, ChainRebuilt,
     ScanChain, ScanFails, ChainScanned, AllScanned, Crash, Decline
<1>2. CASE Finish(w)
  BY <1>1, <1>2, FinishClear
<1>3. CASE ListFails(w)
  BY <1>1, <1>3, AbortClear DEF ListFails
<1>4. ASSUME pc'[w] \in {"read", "insert", "snapshot", "list", "flock", "adopt", "scan"},
             job'[w].snap = job[w].snap
      PROVE  ClearStep(w)
  <2>1. pc'[w] \in Easy
    BY <1>4 DEF Easy, Places
  <2> QED
    BY <1>1, <1>4, <2>1, OfClear, EasyStep
<1>5. CASE Lock(w)
  <2>1. pc'[w] = "read" /\ job'[w].snap = job[w].snap
    BY <1>1, <1>5, Goes DEF Lock
  <2> QED
    BY <1>4, <2>1
<1>6. CASE ReadMax(w)
  <2>1. pc'[w] = "insert" /\ job'[w].snap = job[w].snap
    BY <1>1, <1>6, Goes, SameSnap DEF ReadMax
  <2> QED
    BY <1>4, <2>1
<1>7. CASE TakeFlock(w)
  <2>1. pc'[w] \in {"snapshot", "list"} /\ job'[w].snap = job[w].snap
    BY <1>1, <1>7, Goes DEF TakeFlock
  <2> QED
    BY <1>4, <2>1
<1>8. CASE ChainRebuilt(w) /\ ~Finish(w)
  <2>1. pc'[w] \in {"flock", "list"} /\ job'[w].snap = job[w].snap
    BY <1>1, <1>8, Goes, SameSnap DEF ChainRebuilt
  <2> QED
    BY <1>4, <2>1
<1>9. CASE ScanChain(w)
  <2>1. pc'[w] = "adopt" /\ job'[w].snap = job[w].snap
    BY <1>1, <1>9, Goes, SameSnap DEF ScanChain
  <2> QED
    BY <1>4, <2>1
<1>10. CASE ScanFails(w) \/ ChainScanned(w)
  <2>1. job' = [job EXCEPT ![w].scan = Tail(@)] /\ pc'[w] = "scan"
    BY <1>1, <1>10, Goes DEF ScanFails, ChainScanned
  <2>2. job'[w].snap = job[w].snap
    BY <1>1, <2>1, OfWorker DEF IsJob, NoJob, Inv
  <2> QED
    BY <1>4, <2>1, <2>2
<1>11. CASE AllScanned(w) /\ ~Finish(w)
  <2>1. pc'[w] = "list" /\ job'[w].snap = job[w].snap
    BY <1>1, <1>11, Goes, SameSnap DEF AllScanned, UnlockedRebuild
  <2> QED
    BY <1>4, <2>1
<1> QED
  BY <1>2, <1>3, <1>5, <1>6, <1>7, <1>8, <1>9, <1>10, <1>11
     DEF LockTimeout, Applied, Crash, Decline

LEMMA ReadClear ==
  ASSUME ClearInv, NEW w \in Workers, Read(w) \/ Snapshot(w)
  PROVE  ClearStep(w)
<1>0. Inv /\ DOMAIN job = Workers /\ "snap" \in DOMAIN job[w]
  BY OfWorker DEF ClearInv, IsJob, NoJob, Inv
<1>1. /\ rules' = rules /\ nextId' = nextId /\ live' = live
      /\ pc'[w] \in {"decide", "scan"} /\ job'[w].snap = rules
  <2>1. CASE Read(w)
    BY <1>0, <2>1, Goes DEF Read
  <2>2. CASE Snapshot(w)
    BY <1>0, <2>2, Goes DEF Snapshot
  <2> QED
    BY <2>1, <2>2
<1>2. pc'[w] \in Easy
  BY <1>1 DEF Easy, Places
<1> QED
  BY <1>1, <1>2, OfClear, EasyStep

-----------------------------------------------------------------------------
(* Command lists, as far as blocks go. *)

LEMMA ApplyUnapplyAre ==
  ASSUME NEW id, NEW shape \in Shape
  PROVE  /\ NoDeletes(Apply(id, shape)) /\ OnlyDeletes(Unapply(id, shape))
         /\ ~IsBlock(shape) => NoBlocks(Apply(id, shape))
         /\ \A c, chain : InsertsOnce(Apply(id, shape), c, chain)
         /\ \A c, chain : Inserts(Apply(id, shape), c, chain) =>
               IsBlock(shape) /\ shape.client = c
         /\ IsBlock(shape) =>
               /\ \A chain \in BlockChains :
                     \E k \in 1..Len(Unapply(id, shape)) : Unapply(id, shape)[k].chain = chain
               /\ \A k \in 1..Len(Unapply(id, shape)) :
                     BlocksClient(Unapply(id, shape)[k].entry, shape.client)
<1> DEFINE on == Apply(id, shape)
           off == Unapply(id, shape)
<1>1. on = HalfCommands(IF IsBlock(shape) THEN "-I" ELSE "-A", id, shape)
      /\ off = HalfCommands("-D", id, shape)
  BY DEF Apply, Unapply
<1>2. LiveEntry(id, shape).shape = shape
  BY DEF LiveEntry
<1>3. /\ \A k \in 1..Len(on) : on[k].op # "-D" /\ on[k].entry = LiveEntry(id, shape)
      /\ IsBlock(shape) => Len(on) = 2 /\ on[1].chain = "FORWARD" /\ on[2].chain = "INPUT"
  BY <1>1, HalfCommandsAre
<1>4. /\ \A k \in 1..Len(off) : off[k].op = "-D" /\ off[k].entry = LiveEntry(id, shape)
      /\ IsBlock(shape) => Len(off) = 2 /\ off[1].chain = "FORWARD" /\ off[2].chain = "INPUT"
  BY <1>1, HalfCommandsAre
<1> HIDE DEF on, off
<1>5. NoDeletes(on) /\ OnlyDeletes(off) /\ (~IsBlock(shape) => NoBlocks(on))
  BY <1>2, <1>3, <1>4 DEF NoDeletes, OnlyDeletes, NoBlocks
<1>6. \A c, chain : Inserts(on, c, chain) => IsBlock(shape) /\ shape.client = c
  BY <1>2, <1>3 DEF Inserts, BlocksClient
<1>7. ASSUME NEW c, NEW chain
      PROVE  InsertsOnce(on, c, chain)
  <2>1. CASE ~IsBlock(shape)
    BY <1>2, <1>3, <2>1 DEF InsertsOnce, BlocksClient
  <2>2. CASE IsBlock(shape)
    <3>1. Len(on) = 2 /\ on[1].chain = "FORWARD" /\ on[2].chain = "INPUT"
      BY <1>3, <2>2
    <3>2. \A k \in 1..Len(on) : k = 1 \/ k = 2
      BY <3>1
    <3>3. \A k, m \in 1..Len(on) : on[k].chain = on[m].chain => k = m
      BY <3>1, <3>2
    <3> QED
      BY <3>3 DEF InsertsOnce
  <2> QED
    BY <2>1, <2>2
<1>8. IsBlock(shape) => \A chain \in BlockChains : \E k \in 1..Len(off) : off[k].chain = chain
  <2> SUFFICES ASSUME IsBlock(shape)
               PROVE  \A chain \in BlockChains : \E k \in 1..Len(off) : off[k].chain = chain
    OBVIOUS
  <2>1. Len(off) = 2 /\ off[1].chain = "FORWARD" /\ off[2].chain = "INPUT"
    BY <1>4
  <2>2. 1 \in 1..Len(off) /\ 2 \in 1..Len(off)
    BY <2>1
  <2> QED
    BY <2>1, <2>2 DEF BlockChains
<1>9. IsBlock(shape) => \A k \in 1..Len(off) : BlocksClient(off[k].entry, shape.client)
  BY <1>2, <1>4 DEF BlocksClient
<1> QED
  BY <1>5, <1>6, <1>7, <1>8, <1>9 DEF on, off

-----------------------------------------------------------------------------
(* Steps that leave the live chains alone and lose no block row. *)

LEMMA SafeStep ==
  ASSUME ClearInv, NEW w \in Workers, live' = live, nextId' = nextId,
         \A i \in DOMAIN rules' : i \in DOMAIN rules /\ rules'[i].shape = rules[i].shape,
         \A i \in DOMAIN rules : IsBlock(rules[i].shape) => i \in DOMAIN rules',
         pc'[w] \in Easy \cup {"unapply", "strip", "fill"},
         NamesNoBlock(job'[w].snap),
         pc'[w] \in {"unapply", "strip"} => OnlyDeletes(job'[w].cmds),
         pc'[w] = "fill" => NoBlocks(job'[w].cmds)
  PROVE  ClearStep(w)
<1>1. ShapesStay
  BY DEF ShapesStay, ClearInv, Inv, SharedOK
<1>2. Orderly(pc'[w], job'[w], rules', nextId')
  BY DEF Orderly, Easy
<1>3. pc'[w] \notin {"apply", "unblock"}
  BY DEF Easy
<1>4. \A c \in Clients, chain \in BlockChains : TraceStep(w, c, chain)
  BY <1>3, NoNewTrace
<1>5. ClearsBehind(pc[w], job[w])'
  BY <1>3 DEF ClearsBehind
<1> QED
  BY <1>1, <1>2, <1>4, <1>5 DEF ClearStep

\* A row a request of the rules page may name is no block in the snapshot.
LEMMA NamedRow ==
  ASSUME ClearInv, NEW w \in Workers, pc[w] = "decide",
         job[w].req.op \in {"toggle", "disable", "delete"}, job[w].req.id \in DOMAIN job[w].snap
  PROVE  ~IsBlock(job[w].snap[job[w].req.id].shape)
<1>1. job[w].req \in Requests
  BY OfClear, OfWorker DEF PlaceOK
<1> QED
  BY <1>1, OfClear DEF NamesNoBlock

\* A transaction that changes the flag or the position of a row.
LEMMA CommitUpdateClear ==
  ASSUME ClearInv, NEW w \in Workers, pc[w] = "decide",
         NEW id \in DOMAIN job[w].snap, NEW row, row.shape = job[w].snap[id].shape,
         NEW p \in {"flock", "unapply"}, NEW j, j.snap = job[w].snap,
         p = "unapply" => OnlyDeletes(j.cmds),
         Commit(w, Updated(rules, id, row), p, j), nextId' = nextId
  PROVE  ClearStep(w)
<1>1. /\ rules' = Updated(rules, id, row) /\ live' = live
      /\ pc'[w] = p /\ job'[w] = j
  BY OfClear, Goes DEF Commit
<1>2. id \in DOMAIN rules => rules[id].shape = row.shape
  BY OfClear, OfWorker DEF Covers
<1>3. DOMAIN rules' = DOMAIN rules /\ \A i \in DOMAIN rules : rules'[i].shape = rules[i].shape
  <2>1. CASE id \in DOMAIN rules
    <3> DEFINE new == With(rules, id, row)
    <3>1. DOMAIN new = DOMAIN rules /\ new[id] = row
          /\ \A i \in DOMAIN rules \ {id} : new[i] = rules[i]
      BY <2>1 DEF With
    <3>2. rules' = new
      BY <1>1, <2>1 DEF Updated
    <3> HIDE DEF new
    <3> QED
      BY <1>2, <2>1, <3>1, <3>2
  <2>2. CASE id \notin DOMAIN rules
    BY <1>1, <2>2 DEF Updated
  <2> QED
    BY <2>1, <2>2
<1>4. p \in Easy \cup {"unapply", "strip", "fill"}
  BY DEF Easy, Places
<1>5. NamesNoBlock(j.snap) /\ p # "strip" /\ p # "fill"
  BY OfClear
<1> QED
  BY <1>1, <1>3, <1>4, <1>5, SafeStep

LEMMA ToggleClear ==
  ASSUME ClearInv, NEW w \in Workers, Toggle(w)
  PROVE  ClearStep(w)
<1> DEFINE r   == job[w].req
           t   == job[w].snap
           row == t[r.id]
           on  == ~row.enabled
           new == [row EXCEPT !.enabled = on]
           j0  == [job[w] EXCEPT !.id = r.id]
           ja  == [j0 EXCEPT !.chains = ChainsFor(row.shape.kind)]
           jb  == [j0 EXCEPT !.cmds = Apply(r.id, row.shape)]
           jc  == [j0 EXCEPT !.cmds = Unapply(r.id, row.shape)]
<1>1. pc[w] = "decide" /\ r.op = "toggle"
  BY DEF Toggle, Deciding
<1>2. \/ Decline(w)
      \/ /\ r.id \in DOMAIN t /\ nextId' = nextId
         /\ \/ Commit(w, Updated(rules, r.id, new), "flock", ja)
            \/ IsBlock(row.shape) /\ Commit(w, Updated(rules, r.id, new), "enable", jb)
            \/ Commit(w, Updated(rules, r.id, new), "unapply", jc)
  BY DEF Toggle
<1>3. r.id \in DOMAIN t => ~IsBlock(row.shape)
  BY <1>1, NamedRow
<1>4. ASSUME r.id \in DOMAIN t, nextId' = nextId,
             \/ Commit(w, Updated(rules, r.id, new), "flock", ja)
             \/ Commit(w, Updated(rules, r.id, new), "unapply", jc)
      PROVE  ClearStep(w)
  <2>1. row \in Row
    BY <1>4, OfClear, OfWorker DEF FiniteTable, IsTable
  <2>2. new.shape = row.shape /\ row.shape \in Shape
    BY <2>1 DEF Row
  <2>3. j0.snap = t /\ DOMAIN j0 = DOMAIN NoJob
    BY OfClear, OfWorker DEF IsJob, NoJob
  <2> HIDE DEF j0
  <2>4. ja.snap = t /\ jc.snap = t /\ jc.cmds = Unapply(r.id, row.shape)
    BY <2>3 DEF NoJob
  <2>5. OnlyDeletes(jc.cmds)
    BY <2>2, <2>4, ApplyUnapplyAre
  <2> HIDE DEF ja, jc, new
  <2> QED
    BY <1>1, <1>4, <2>2, <2>4, <2>5, CommitUpdateClear
<1> HIDE DEF new, ja, jb, jc
<1> QED
  BY <1>2, <1>3, <1>4, EasySteps

LEMMA ReorderClear ==
  ASSUME ClearInv, NEW w \in Workers, Reorder(w)
  PROVE  ClearStep(w)
<1> DEFINE r == job[w].req
           t == job[w].snap
           moved == [t[r.id] EXCEPT !.pos = ReorderPosition(t, r.id, r.target, r.place)]
           j(order) == [job[w] EXCEPT !.id = r.id, !.chains = order]
<1>1. pc[w] = "decide"
  BY DEF Reorder, Deciding
<1>2. \/ Decline(w)
      \/ /\ r.id \in DOMAIN t /\ nextId' = nextId
         /\ \E order : Commit(w, Updated(rules, r.id, moved), "flock", j(order))
  BY DEF Reorder
<1>3. ASSUME r.id \in DOMAIN t, nextId' = nextId,
             NEW order, Commit(w, Updated(rules, r.id, moved), "flock", j(order))
      PROVE  ClearStep(w)
  <2>1. t[r.id] \in Row
    BY <1>3, OfClear, OfWorker DEF FiniteTable, IsTable
  <2>2. moved.shape = t[r.id].shape
    BY <2>1 DEF Row
  <2>3. j(order).snap = t
    BY OfClear, OfWorker DEF IsJob, NoJob
  <2> HIDE DEF moved, j
  <2> QED
    BY <1>1, <1>3, <2>2, <2>3, CommitUpdateClear
<1> HIDE DEF moved, j
<1> QED
  BY <1>2, <1>3, EasySteps

\* disable_rule and delete_rule: what they leave of the table keeps its rules.
LEMMA TakeOutClear ==
  ASSUME ClearInv, NEW w \in Workers, NEW op \in {"disable", "delete"}, NEW present, NEW t1,
         TakeOut(w, op, present, t1), present => job[w].req.id \in DOMAIN job[w].snap,
         present => /\ \A i \in DOMAIN t1 : i \in DOMAIN rules /\ t1[i].shape = rules[i].shape
                    /\ \A i \in DOMAIN rules : i # job[w].req.id => i \in DOMAIN t1
  PROVE  ClearStep(w)
<1> DEFINE r == job[w].req
           t == job[w].snap
           cmds == IF t[r.id].enabled THEN Unapply(r.id, t[r.id].shape) ELSE <<>>
           j == [job[w] EXCEPT !.id = r.id, !.cmds = cmds]
<1>1. pc[w] = "decide" /\ r.op = op
  BY DEF TakeOut, Deciding
<1>2. Decline(w) \/ (present /\ nextId' = nextId /\ Commit(w, t1, "unapply", j))
  BY DEF TakeOut
<1>3. CASE present /\ nextId' = nextId /\ Commit(w, t1, "unapply", j)
  <2>1. r.id \in DOMAIN t /\ ~IsBlock(t[r.id].shape)
    BY <1>1, <1>3, NamedRow
  <2>2. t[r.id].shape \in Shape
    BY <2>1, OfClear, OfWorker DEF FiniteTable, IsTable, Row
  <2>3. OnlyDeletes(Unapply(r.id, t[r.id].shape))
    BY <2>2, ApplyUnapplyAre
  <2>4. OnlyDeletes(cmds)
    <3>1. OnlyDeletes(<<>>)
      BY DEF OnlyDeletes
    <3> QED
      BY <2>3, <3>1
  <2> HIDE DEF cmds
  <2>5. j.snap = t /\ j.cmds = cmds
    BY OfClear, OfWorker DEF IsJob, NoJob
  <2> HIDE DEF j
  <2>6. rules' = t1 /\ live' = live /\ pc'[w] = "unapply" /\ job'[w] = j
    BY <1>3, OfClear, Goes DEF Commit
  <2>7. r.id \in DOMAIN rules => ~IsBlock(rules[r.id].shape)
    BY <1>1, <2>1, OfClear, OfWorker DEF Covers
  <2>8. \A i \in DOMAIN rules : IsBlock(rules[i].shape) => i \in DOMAIN rules'
    BY <1>3, <2>6, <2>7
  <2>9. "unapply" \notin {"fill"} /\ NamesNoBlock(j.snap) /\ OnlyDeletes(j.cmds)
    BY <2>4, <2>5, OfClear
  <2> QED
    BY <1>3, <2>6, <2>8, <2>9, SafeStep
<1> HIDE DEF j
<1> QED
  BY <1>2, <1>3, EasySteps

LEMMA DisableClear ==
  ASSUME ClearInv, NEW w \in Workers, Disable(w)
  PROVE  ClearStep(w)
<1> DEFINE id == job[w].req.id
           t == job[w].snap
           row == [t[id] EXCEPT !.enabled = FALSE]
           new == Updated(rules, id, row)
           present == id \in DOMAIN t /\ t[id].enabled
<1>1. TakeOut(w, "disable", present, new)
  BY DEF Disable
<1>2. pc[w] = "decide"
  BY <1>1 DEF TakeOut, Deciding
<1>3. ASSUME present
      PROVE  DOMAIN new = DOMAIN rules /\ \A i \in DOMAIN rules : new[i].shape = rules[i].shape
  <2>1. t[id] \in Row
    BY <1>3, OfClear, OfWorker DEF FiniteTable, IsTable
  <2>2. row.shape = t[id].shape
    BY <2>1 DEF Row
  <2>3. id \in DOMAIN rules => rules[id].shape = row.shape
    BY <1>2, <1>3, <2>2, OfClear, OfWorker DEF Covers
  <2> HIDE DEF row
  <2>4. CASE id \in DOMAIN rules
    <3> DEFINE with == With(rules, id, row)
    <3>1. DOMAIN with = DOMAIN rules /\ with[id] = row
          /\ \A i \in DOMAIN rules \ {id} : with[i] = rules[i]
      BY <2>4 DEF With
    <3>2. new = with
      BY <2>4 DEF Updated
    <3> HIDE DEF with, new
    <3> QED
      BY <2>3, <2>4, <3>1, <3>2
  <2>5. CASE id \notin DOMAIN rules
    BY <2>5 DEF Updated
  <2> QED
    BY <2>4, <2>5
<1>4. present => id \in DOMAIN t
  OBVIOUS
<1> HIDE DEF new, present
<1> QED
  BY <1>1, <1>3, <1>4, TakeOutClear

LEMMA DeleteClear ==
  ASSUME ClearInv, NEW w \in Workers, Delete(w)
  PROVE  ClearStep(w)
<1> DEFINE id == job[w].req.id
           new == Without(rules, id)
<1>1. TakeOut(w, "delete", id \in DOMAIN job[w].snap, new)
  BY DEF Delete
<1>2. DOMAIN new = DOMAIN rules \ {id} /\ \A i \in DOMAIN new : new[i] = rules[i]
  BY DEF Without
<1> HIDE DEF new
<1> QED
  BY <1>1, <1>2, TakeOutClear

-----------------------------------------------------------------------------
(* Inserts, and the unblock. *)

\* A new row takes a new id and leaves the others alone.
LEMMA RowAdded ==
  ASSUME ClearInv, NEW row, rules' = With(rules, nextId, row), nextId' = nextId + 1
  PROVE  /\ ShapesStay
         /\ DOMAIN rules' = DOMAIN rules \cup {nextId} /\ rules'[nextId] = row
         /\ \A i \in DOMAIN rules : rules'[i] = rules[i]
<1>1. nextId \in Nat \ {0} /\ nextId \notin DOMAIN rules
  BY OfWorker DEF ClearInv, Inv, SharedOK
<1> DEFINE new == With(rules, nextId, row)
<1>2. /\ DOMAIN new = DOMAIN rules \cup {nextId} /\ new[nextId] = row
      /\ \A i \in DOMAIN rules : new[i] = rules[i]
  BY <1>1 DEF With
<1> HIDE DEF new
<1>3. nextId' >= nextId /\ nextId >= nextId
  BY <1>1
<1> QED
  BY <1>1, <1>2, <1>3 DEF ShapesStay, new

\* An insert whose rule is about to be applied.
LEMMA InsertClear ==
  ASSUME ClearInv, NEW w \in Workers, NEW shape \in Shape, NEW row, row.shape = shape,
         rules' = With(rules, nextId, row), nextId' = nextId + 1, live' = live,
         pc'[w] = "apply", job'[w].cmds = Apply(nextId, shape), NamesNoBlock(job'[w].snap),
         IsBlock(shape) => BlockRows(rules, shape.client) = {} /\ advisory = w
  PROVE  ClearStep(w)
<1>1. /\ ShapesStay
      /\ DOMAIN rules' = DOMAIN rules \cup {nextId} /\ rules'[nextId] = row
      /\ \A i \in DOMAIN rules : rules'[i] = rules[i]
  BY RowAdded
<1> DEFINE cmds == Apply(nextId, shape)
<1>2. /\ NoDeletes(cmds)
      /\ \A c, chain : InsertsOnce(cmds, c, chain)
      /\ \A c, chain : Inserts(cmds, c, chain) => IsBlock(shape) /\ shape.client = c
  BY ApplyUnapplyAre
<1>3. job'[w].cmds = cmds
  OBVIOUS
<1> HIDE DEF cmds
<1>4. Orderly(pc'[w], job'[w], rules', nextId')
  BY <1>2, <1>3 DEF Orderly
<1>5. ASSUME NEW c \in Clients, NEW chain \in BlockChains
      PROVE  TraceStep(w, c, chain)
  <2>1. OneTrace(c, chain)
    BY DEF ClearInv
  <2>2. BlockedOnce(live'[chain], c)
    BY <2>1 DEF OneTrace
  <2>3. Due(pc'[w], job'[w], c, chain) =>
          InsertsOnce(job'[w].cmds, c, chain) /\ IsBlock(shape) /\ shape.client = c
    BY <1>2, <1>3 DEF Due
  <2>4. CASE ~(IsBlock(shape) /\ shape.client = c)
    <3>1. BlockRows(rules, c) # {} => BlockRows(rules', c) # {}
      BY <1>1 DEF BlockRows
    <3> QED
      BY <2>2, <2>3, <2>4, <3>1 DEF TraceStep, Keeps
  <2>5. CASE IsBlock(shape) /\ shape.client = c
    <3>1. BlockRows(rules, c) = {} /\ advisory = w
      BY <2>5
    <3>2. ~BlockedBy(live[chain], c)
      BY <2>1, <3>1 DEF OneTrace, Traced
    <3>3. nextId \in BlockRows(rules', c)
      BY <1>1, <2>5 DEF BlockRows
    <3>4. Starts(w, c, chain)
      BY <3>1, <3>2, <3>3 DEF Starts
    <3> QED
      BY <2>2, <2>3, <3>2, <3>4 DEF TraceStep
  <2> QED
    BY <2>4, <2>5
<1>6. ClearsBehind(pc[w], job[w])'
  BY DEF ClearsBehind
<1> QED
  BY <1>1, <1>4, <1>5, <1>6 DEF ClearStep

LEMMA CommitInsertClear ==
  ASSUME ClearInv, NEW w \in Workers, pc[w] = "decide", NEW shape \in Shape,
         CommitInsert(w, shape), IsBlock(shape) => BlockRows(rules, shape.client) = {}
  PROVE  ClearStep(w)
<1> DEFINE row == [shape |-> shape, enabled |-> TRUE, pos |-> NextPosition(rules)]
           j == [job[w] EXCEPT !.id = nextId, !.cmds = Apply(nextId, shape)]
<1>1. /\ rules' = With(rules, nextId, row) /\ nextId' = nextId + 1 /\ live' = live
      /\ pc'[w] = "apply" /\ job'[w] = j
  BY OfClear, Goes DEF CommitInsert, Commit
<1>2. row.shape = shape
  OBVIOUS
<1>3. j.cmds = Apply(nextId, shape) /\ j.snap = job[w].snap
  BY OfClear, OfWorker DEF IsJob, NoJob
<1>4. advisory = w /\ NamesNoBlock(job[w].snap)
  BY OfClear, OfWorker DEF Locked
<1> HIDE DEF j, row
<1> QED
  BY <1>1, <1>2, <1>3, <1>4, InsertClear

LEMMA AddInputClear ==
  ASSUME ClearInv, NEW w \in Workers, AddInput(w)
  PROVE  ClearStep(w)
<1>1. pc[w] = "decide" /\ job[w].req.op = "add"
  BY DEF AddInput, Deciding
<1>2. job[w].req \in Requests
  BY <1>1, OfClear, OfWorker DEF PlaceOK
<1>3. job[w].req.shape \in Shape /\ ~IsBlock(job[w].req.shape)
  BY <1>1, <1>2, RequestsAssumption DEF Request, IsBlock
<1>4. Decline(w) \/ CommitInsert(w, job[w].req.shape)
  BY DEF AddInput
<1> QED
  BY <1>1, <1>3, <1>4, EasySteps, CommitInsertClear

LEMMA BlockClear ==
  ASSUME ClearInv, NEW w \in Workers, Block(w)
  PROVE  ClearStep(w)
<1> DEFINE shape == job[w].req.shape
<1>1. pc[w] = "decide" /\ job[w].req.op = "block"
  BY DEF Block, Deciding
<1>2. job[w].req \in Requests
  BY <1>1, OfClear, OfWorker DEF PlaceOK
<1>3. shape \in Shape
  BY <1>1, <1>2, RequestsAssumption DEF Request
<1>4. Decline(w) \/ (CommitInsert(w, shape) /\ BlockRows(job[w].snap, shape.client) = {})
  BY DEF Block
<1>5. BlockRows(job[w].snap, shape.client) = {} => BlockRows(rules, shape.client) = {}
  BY <1>1, OfClear, OfWorker, NoBlockRow
<1> HIDE DEF shape
<1> QED
  BY <1>1, <1>3, <1>4, <1>5, EasySteps, CommitInsertClear

LEMMA UnlockedInsertClear ==
  ASSUME ClearInv, NEW w \in Workers, Insert(w)
  PROVE  ClearStep(w)
<1> DEFINE shape == job[w].req.shape
           row == [shape |-> shape, enabled |-> TRUE, pos |-> job[w].pos]
<1>1. pc[w] = "insert"
  BY DEF Insert
<1>2. job[w].req \in Requests /\ job[w].req.op = "add"
  BY <1>1, OfClear, OfWorker DEF PlaceOK
<1>3. shape \in Shape /\ ~IsBlock(shape)
  BY <1>2, RequestsAssumption DEF Request, IsBlock
<1>4. /\ rules' = With(rules, nextId, row) /\ nextId' = nextId + 1 /\ live' = live
      /\ pc'[w] = "apply"
      /\ job' = [job EXCEPT ![w].id = nextId, ![w].cmds = Apply(nextId, shape)]
  BY OfClear, Goes DEF Insert
<1>5. job'[w].cmds = Apply(nextId, shape) /\ job'[w].snap = job[w].snap
  BY <1>4, OfClear, OfWorker DEF IsJob, NoJob, Inv
<1>6. row.shape = shape
  OBVIOUS
<1>7. NamesNoBlock(job[w].snap)
  BY OfClear
<1> HIDE DEF shape, row
<1> QED
  BY <1>3, <1>4, <1>5, <1>6, <1>7, InsertClear

\* The unblock starts out with one deletion for each chain.
LEMMA UnblockClear ==
  ASSUME ClearInv, NEW w \in Workers, Unblock(w)
  PROVE  ClearStep(w)
<1> DEFINE t == job[w].snap
           c == job[w].req.shape.client
<1>1. pc[w] = "decide" /\ job[w].req.op = "unblock"
  BY DEF Unblock, Deciding
<1>2. c \in Clients
  <2>1. job[w].req \in Requests
    BY <1>1, OfClear, OfWorker DEF PlaceOK
  <2> QED
    BY <1>1, <2>1, RequestsAssumption
<1>3. ASSUME NEW i \in BlockRows(t, c),
             job' = [job EXCEPT ![w].id = i, ![w].cmds = Unapply(i, t[i].shape)],
             Goto(w, "unblock"), UNCHANGED <<rules, nextId, live, advisory, flock, spent>>
      PROVE  ClearStep(w)
  <2>1. /\ i \in DOMAIN t /\ IsBlock(t[i].shape) /\ t[i].shape.client = c
        /\ t[i].shape \in Shape
    BY OfClear, OfWorker DEF BlockRows, FiniteTable, IsTable, Row
  <2>2. /\ pc'[w] = "unblock" /\ job'[w].id = i /\ job'[w].cmds = Unapply(i, t[i].shape)
        /\ job'[w].snap = t
    BY <1>3, OfClear, Goes, OfWorker DEF IsJob, NoJob, Inv
  <2>3. i < nextId /\ (i \in DOMAIN rules => rules[i].shape = t[i].shape)
    BY <1>1, <2>1, OfClear, OfWorker DEF Covers
  <2> DEFINE cmds == Unapply(i, t[i].shape)
  <2>4. /\ OnlyDeletes(cmds)
        /\ \A chain \in BlockChains : \E k \in 1..Len(cmds) : cmds[k].chain = chain
        /\ \A k \in 1..Len(cmds) : BlocksClient(cmds[k].entry, c)
    BY <2>1, ApplyUnapplyAre
  <2>5. job'[w].cmds = cmds
    BY <2>2
  <2>6. Orderly(pc'[w], job'[w], rules', nextId')
    <3> DEFINE j == job'[w]
    <3>1. j.id = i /\ j.cmds = cmds /\ j.snap = t /\ NamesNoBlock(t)
      BY <2>2, OfClear
    <3>2. rules' = rules /\ nextId' = nextId
      BY <1>3
    <3>3. t[i].shape.client \in Clients /\ t[i].shape.client = c
      BY <1>2, <2>1
    <3> HIDE DEF cmds, t, c, j
    <3>4. Orderly("unblock", j, rules, nextId)
      BY <2>1, <2>3, <2>4, <3>1, <3>3 DEF Orderly
    <3> QED
      BY <2>2, <3>2, <3>4 DEF j
  <2> HIDE DEF cmds, t, c
  <2>7. ShapesStay
    BY <1>3 DEF ShapesStay, ClearInv, Inv, SharedOK
  <2>8. \A cc \in Clients, chain \in BlockChains : TraceStep(w, cc, chain)
    BY <1>3, <2>2, NoNewTrace
  <2>9. ClearsBehind(pc[w], job[w])'
    BY <2>4, <2>5 DEF ClearsBehind
  <2> QED
    BY <2>6, <2>7, <2>8, <2>9 DEF ClearStep
<1> QED
  BY <1>3, EasySteps DEF Unblock

\* The row goes when nothing of the client is live or due in either chain.
LEMMA UnblockCommitClear ==
  ASSUME ClearInv, NEW w \in Workers, UnblockCommit(w)
  PROVE  ClearStep(w)
<1> DEFINE id == job[w].id
           c == job[w].snap[id].shape.client
<1>1. /\ pc[w] = "unblock" /\ job[w].cmds = <<>> /\ rules' = Without(rules, id)
      /\ nextId' = nextId /\ live' = live
      /\ pc'[w] = "idle" /\ job'[w] = NoJob
  BY OfClear, Goes DEF UnblockCommit, BothHalvesGone
<1>2. c \in Clients /\ (id \in DOMAIN rules => rules[id].shape.client = c)
  BY <1>1, OfClear DEF Orderly
<1>3. \A chain \in BlockChains : ~Traced(c, chain)
  <2>1. ClearsBehind("unblock", job[w])
    BY <1>1, OfClear
  <2>2. ~\E k \in 1..Len(job[w].cmds) : TRUE
    BY <1>1
  <2> QED
    BY <2>1, <2>2 DEF ClearsBehind
<1>4. DOMAIN rules' = DOMAIN rules \ {id} /\ \A i \in DOMAIN rules' : rules'[i] = rules[i]
  BY <1>1 DEF Without
<1> HIDE DEF c
<1>5. ShapesStay
  BY <1>1, <1>4 DEF ShapesStay, ClearInv, Inv, SharedOK
<1>6. Orderly(pc'[w], job'[w], rules', nextId')
  BY <1>1, NoJobNames DEF Orderly
<1>7. ASSUME NEW cc \in Clients, NEW chain \in BlockChains
      PROVE  TraceStep(w, cc, chain)
  <2>1. BlockedOnce(live'[chain], cc) /\ ~Due(pc'[w], job'[w], cc, chain)
    BY <1>1 DEF ClearInv, OneTrace, Due
  <2>2. CASE cc = c
    <3>1. ~Traced(cc, chain)
      BY <1>3, <2>2
    <3>2. Ends(w, cc, chain)
      BY <1>1, <2>1, <3>1 DEF Ends, Traced
    <3> QED
      BY <2>1, <3>2 DEF TraceStep
  <2>3. CASE cc # c
    <3>1. BlockRows(rules, cc) # {} => BlockRows(rules', cc) # {}
      BY <1>2, <1>4, <2>3 DEF BlockRows
    <3> QED
      BY <1>1, <2>1, <3>1 DEF TraceStep, Keeps
  <2> QED
    BY <2>2, <2>3
<1>8. ClearsBehind(pc[w], job[w])'
  BY <1>1 DEF ClearsBehind
<1> QED
  BY <1>5, <1>6, <1>7, <1>8 DEF ClearStep

-----------------------------------------------------------------------------
(* iptables commands. *)

\* Running the first command of a list leaves a list as orderly.
LEMMA RestOfCommands ==
  ASSUME NEW cmds \in Seq(Command), cmds # <<>>
  PROVE  /\ Head(cmds) \in Command /\ Head(cmds) = cmds[1] /\ 1 \in 1..Len(cmds)
         /\ Tail(cmds) \in Seq(Command)
         /\ OnlyDeletes(cmds) => Head(cmds).op = "-D" /\ OnlyDeletes(Tail(cmds))
         /\ NoDeletes(cmds) => Head(cmds).op # "-D" /\ NoDeletes(Tail(cmds))
         /\ NoBlocks(cmds) => ~IsBlock(Head(cmds).entry.shape) /\ NoBlocks(Tail(cmds))
         /\ \A c, chain : InsertsOnce(cmds, c, chain) => InsertsOnce(Tail(cmds), c, chain)
         /\ \A c, chain : Inserts(Tail(cmds), c, chain) => Inserts(cmds, c, chain)
         /\ \A c, chain : Head(cmds).chain = chain /\ BlocksClient(Head(cmds).entry, c) =>
               /\ Inserts(cmds, c, chain)
               /\ InsertsOnce(cmds, c, chain) => ~Inserts(Tail(cmds), c, chain)
         /\ \A c : (\A k \in 1..Len(cmds) : BlocksClient(cmds[k].entry, c)) =>
               \A k \in 1..Len(Tail(cmds)) : BlocksClient(Tail(cmds)[k].entry, c)
         /\ \A chain : (\E k \in 1..Len(cmds) : cmds[k].chain = chain) =>
               \/ Head(cmds).chain = chain
               \/ \E k \in 1..Len(Tail(cmds)) : Tail(cmds)[k].chain = chain
<1> DEFINE d == Head(cmds)
           rest == Tail(cmds)
<1>1. /\ d \in Command /\ d = cmds[1] /\ rest \in Seq(Command) /\ Len(rest) = Len(cmds) - 1
      /\ \A k \in 1..Len(rest) : rest[k] = cmds[k + 1]
  BY HeadTailProperties
<1>2. Len(cmds) \in Nat /\ Len(cmds) # 0 /\ 1 \in 1..Len(cmds)
  BY EmptySeq
<1> HIDE DEF d, rest
<1>3. \A k \in 1..Len(rest) : k + 1 \in 1..Len(cmds) /\ k + 1 # 1 /\ rest[k] = cmds[k + 1]
  BY <1>1, <1>2
<1>4. \A k \in 1..Len(cmds) : k = 1 \/ (k - 1 \in 1..Len(rest) /\ cmds[k] = rest[k - 1])
  <2> SUFFICES ASSUME NEW k \in 1..Len(cmds), k # 1
               PROVE  k - 1 \in 1..Len(rest) /\ cmds[k] = rest[k - 1]
    OBVIOUS
  <2>1. k - 1 \in 1..Len(rest) /\ (k - 1) + 1 = k
    BY <1>1, <1>2
  <2> QED
    BY <1>3, <2>1
<1>5. \A k, m \in 1..Len(rest) : k + 1 = m + 1 => k = m
  OBVIOUS
<1>6. OnlyDeletes(cmds) => d.op = "-D" /\ OnlyDeletes(rest)
  BY <1>1, <1>2, <1>3 DEF OnlyDeletes
<1>7. NoDeletes(cmds) => d.op # "-D" /\ NoDeletes(rest)
  BY <1>1, <1>2, <1>3 DEF NoDeletes
<1>8. NoBlocks(cmds) => ~IsBlock(d.entry.shape) /\ NoBlocks(rest)
  BY <1>1, <1>2, <1>3 DEF NoBlocks
<1>9. \A c, chain : InsertsOnce(cmds, c, chain) => InsertsOnce(rest, c, chain)
  BY <1>3, <1>5 DEF InsertsOnce
<1>10. \A c, chain : Inserts(rest, c, chain) => Inserts(cmds, c, chain)
  BY <1>3 DEF Inserts
<1>11. ASSUME NEW c, NEW chain, d.chain = chain, BlocksClient(d.entry, c)
       PROVE  /\ Inserts(cmds, c, chain)
              /\ InsertsOnce(cmds, c, chain) => ~Inserts(rest, c, chain)
  BY <1>1, <1>2, <1>3, <1>11 DEF Inserts, InsertsOnce
<1>12. \A c : (\A k \in 1..Len(cmds) : BlocksClient(cmds[k].entry, c)) =>
         \A k \in 1..Len(rest) : BlocksClient(rest[k].entry, c)
  BY <1>3
<1>13. \A chain : (\E k \in 1..Len(cmds) : cmds[k].chain = chain) =>
         d.chain = chain \/ \E k \in 1..Len(rest) : rest[k].chain = chain
  BY <1>1, <1>4
<1> QED
  BY <1>1, <1>2, <1>6, <1>7, <1>8, <1>9, <1>10, <1>11, <1>12, <1>13 DEF d, rest

\* A command that is no planned insert adds no trace of a client.
LEMMA RunTrace ==
  ASSUME ClearInv, NEW w \in Workers, NEW c \in Clients, NEW chain \in BlockChains,
         NEW d \in Command, Executable(d), live' = Executed(d), rules' = rules,
         d.op # "-D" /\ d.chain = chain /\ BlocksClient(d.entry, c) =>
            Due(pc[w], job[w], c, chain) /\ ~Due(pc'[w], job'[w], c, chain),
         Due(pc'[w], job'[w], c, chain) =>
            Due(pc[w], job[w], c, chain) /\ InsertsOnce(job'[w].cmds, c, chain)
  PROVE  TraceStep(w, c, chain)
<1>1. OneTrace(c, chain) /\ BlockedOnce(live[chain], c)
  BY DEF ClearInv, OneTrace
<1>2. live \in [Chains -> Seq(Entry)] /\ chain \in Chains
  BY OfClear, OfWorker DEF BlockChains, Chains
<1> DEFINE s == live[chain]
           new == live'[chain]
<1>3. /\ chain # d.chain => new = s
      /\ chain = d.chain /\ d.op = "-D" =>
            /\ BlockedOnce(new, c)
            /\ BlockedBy(new, c) => BlockedBy(s, c)
      /\ chain = d.chain /\ d.op # "-D" =>
            /\ ~BlocksClient(d.entry, c) \/ ~BlockedBy(s, c) => BlockedOnce(new, c)
            /\ BlockedBy(new, c) => BlockedBy(s, c) \/ BlocksClient(d.entry, c)
  BY <1>1, <1>2, ExecutedBlocks
<1> HIDE DEF s, new
<1>4. Due(pc[w], job[w], c, chain) => ~BlockedBy(s, c)
  BY <1>1 DEF OneTrace, s
<1>5. BlockedOnce(new, c)
  BY <1>1, <1>3, <1>4 DEF s
<1>6. BlockedBy(new, c) => BlockedBy(s, c) \/ Due(pc[w], job[w], c, chain)
  BY <1>3
<1>7. Due(pc'[w], job'[w], c, chain) => ~BlockedBy(new, c)
  BY <1>3, <1>4
<1>8. BlockRows(rules, c) # {} => BlockRows(rules', c) # {}
  OBVIOUS
<1> QED
  BY <1>5, <1>6, <1>7, <1>8 DEF TraceStep, Keeps, s, new

LEMMA RunCommandClear ==
  ASSUME BlocksByRequest, ClearInv, NEW w \in Workers, RunCommand(w)
  PROVE  ClearStep(w)
<1> DEFINE cmds == job[w].cmds
           d == Head(cmds)
           rest == Tail(cmds)
<1>1. /\ pc[w] \in Running /\ cmds # <<>> /\ Executable(d) /\ live' = Executed(d)
      /\ rules' = rules /\ nextId' = nextId /\ pc' = pc
      /\ job' = [job EXCEPT ![w].cmds = rest]
  BY DEF RunCommand
<1>2. cmds \in Seq(Command)
  BY OfClear, OfWorker DEF IsJob
<1>3. /\ job'[w].cmds = rest /\ job'[w].snap = job[w].snap /\ job'[w].id = job[w].id
      /\ pc'[w] = pc[w]
  BY <1>1, OfClear, OfWorker DEF IsJob, NoJob, Inv
<1>4. Orderly(pc[w], job[w], rules, nextId)
  BY OfClear
<1>5. pc[w] \in {"apply", "unapply", "unblock", "strip", "fill"}
  BY <1>1, <1>4 DEF Orderly, Running
<1>6. /\ d \in Command /\ d = cmds[1] /\ 1 \in 1..Len(cmds)
      /\ OnlyDeletes(cmds) => d.op = "-D" /\ OnlyDeletes(rest)
      /\ NoDeletes(cmds) => d.op # "-D" /\ NoDeletes(rest)
      /\ NoBlocks(cmds) => ~IsBlock(d.entry.shape) /\ NoBlocks(rest)
      /\ \A c : (\A k \in 1..Len(cmds) : BlocksClient(cmds[k].entry, c)) =>
            \A k \in 1..Len(rest) : BlocksClient(rest[k].entry, c)
      /\ \A chain : (\E k \in 1..Len(cmds) : cmds[k].chain = chain) =>
            d.chain = chain \/ \E k \in 1..Len(rest) : rest[k].chain = chain
  BY <1>1, <1>2, RestOfCommands
<1>7. /\ \A c, chain : InsertsOnce(cmds, c, chain) => InsertsOnce(rest, c, chain)
      /\ \A c, chain : Inserts(rest, c, chain) => Inserts(cmds, c, chain)
      /\ \A c, chain : d.chain = chain /\ BlocksClient(d.entry, c) =>
            /\ Inserts(cmds, c, chain)
            /\ InsertsOnce(cmds, c, chain) => ~Inserts(rest, c, chain)
  BY <1>1, <1>2, RestOfCommands
<1> HIDE DEF d, rest
<1>8. Orderly(pc'[w], job'[w], rules', nextId')
  BY <1>1, <1>3, <1>4, <1>5, <1>6 DEF Orderly
<1>9. ShapesStay
  BY <1>1 DEF ShapesStay, ClearInv, Inv, SharedOK
<1>10. ASSUME NEW c \in Clients, NEW chain \in BlockChains
       PROVE  TraceStep(w, c, chain)
  <2>1. Due(pc[w], job[w], c, chain) => InsertsOnce(cmds, c, chain)
    BY DEF ClearInv, OneTrace
  <2>2. Due(pc'[w], job'[w], c, chain) =>
           Due(pc[w], job[w], c, chain) /\ InsertsOnce(job'[w].cmds, c, chain)
    BY <1>3, <1>7, <2>1 DEF Due
  <2>3. ASSUME d.op # "-D", d.chain = chain, BlocksClient(d.entry, c)
        PROVE  Due(pc[w], job[w], c, chain) /\ ~Due(pc'[w], job'[w], c, chain)
    <3>1. pc[w] = "apply"
      BY <1>4, <1>5, <1>6, <2>3 DEF Orderly, BlocksClient
    <3>2. Due(pc[w], job[w], c, chain)
      BY <1>7, <2>3, <3>1 DEF Due
    <3> QED
      BY <1>3, <1>7, <2>1, <2>3, <3>2 DEF Due
  <2> QED
    BY <1>1, <1>6, <2>2, <2>3, RunTrace
<1>11. ASSUME pc[w] = "unblock", NEW chain \in BlockChains,
              Traced(job[w].snap[job[w].id].shape.client, chain)'
       PROVE  \E k \in 1..Len(rest) : rest[k].chain = chain
  <2>1. PICK c \in Clients : c = job[w].snap[job[w].id].shape.client
    BY <1>4, <1>11 DEF Orderly
  <2>2. Traced(c, chain)'
    BY <1>3, <1>11, <2>1
  <2>3. TraceStep(w, c, chain) /\ StepOK(w) /\ ~Starts(w, c, chain)
    BY <1>1, <1>10, OfClear, RunCommandStep DEF Starts
  <2>4. Traced(c, chain)
    BY <2>2, <2>3, TracesKept
  <2>5. \E k \in 1..Len(cmds) : cmds[k].chain = chain
    BY <1>11, <2>1, <2>4, OfClear DEF ClearsBehind
  <2>6. d.op = "-D" /\ BlocksClient(d.entry, c)
    BY <1>4, <1>6, <1>11, <2>1 DEF Orderly
  <2>7. ASSUME d.chain = chain
        PROVE  FALSE
    <3>1. live \in [Chains -> Seq(Entry)] /\ chain \in Chains /\ BlockedOnce(live[chain], c)
      BY OfClear, OfWorker DEF BlockChains, Chains, ClearInv, OneTrace
    <3>2. ~BlockedBy(live'[chain], c)
      BY <1>1, <1>6, <2>6, <2>7, <3>1, ExecutedBlocks
    <3>3. d.entry \in ToSet(live[chain])
      BY <1>1, <2>6, <2>7 DEF Executable
    <3>4. BlockedBy(live[chain], c)
      BY <2>6, <3>1, <3>3 DEF BlockedBy, ToSet
    <3>5. \A v \in Workers : ~Due(pc[v], job[v], c, chain)
      BY <3>4 DEF ClearInv, OneTrace
    <3>6. \A v \in Workers : ~Due(pc'[v], job'[v], c, chain)
      <4>1. \A v \in Workers \ {w} : pc'[v] = pc[v] /\ job'[v] = job[v]
        BY <1>1, OfClear DEF Inv
      <4>2. pc'[w] # "apply"
        BY <1>3, <1>11
      <4> QED
        BY <3>5, <4>1, <4>2 DEF Due
    <3> QED
      BY <2>2, <3>2, <3>6 DEF Traced
  <2> QED
    BY <1>6, <2>5, <2>7
<1>12. ClearsBehind(pc[w], job[w])'
  BY <1>3, <1>11 DEF ClearsBehind
<1> QED
  BY <1>8, <1>9, <1>10, <1>12 DEF ClearStep

LEMMA FailCommandClear ==
  ASSUME BlocksByRequest, ClearInv, NEW w \in Workers, FailCommand(w)
  PROVE  ClearStep(w)
<1> DEFINE cmds == job[w].cmds
           d == Head(cmds)
           n == 2 + d.skip
<1>1. /\ cmds \in Seq(Command) /\ cmds # <<>> /\ ~Executable(d)
      /\ rules' = rules /\ nextId' = nextId /\ live' = live
  BY OfClear, OfWorker DEF FailCommand, IsJob, BlocksByRequest
<1>2. Orderly(pc[w], job[w], rules, nextId)
  BY OfClear
<1>3. d \in Command /\ d.op = "-D" /\ (NoDeletes(cmds) => d.op # "-D")
  BY <1>1, RestOfCommands DEF Executable
<1> HIDE DEF d
<1>4. n \in Nat /\ n >= 1
  BY <1>3 DEF Command
<1>5. CASE pc[w] = "unapply" /\ UNCHANGED pc /\ job' = [job EXCEPT ![w].cmds = SubSeq(@, n, Len(@))]
  <2> DEFINE rest == SubSeq(cmds, n, Len(cmds))
  <2>1. job'[w].cmds = rest /\ job'[w].snap = job[w].snap /\ pc'[w] = "unapply"
    BY <1>5, OfClear, OfWorker DEF IsJob, NoJob, Inv
  <2> HIDE DEF n
  <2>2. OnlyDeletes(rest)
    <3>1. OnlyDeletes(cmds)
      BY <1>2, <1>5 DEF Orderly
    <3> DEFINE s == cmds
               m == Len(s)
    <3>2. s \in Seq(Command) /\ m \in Nat
      BY <1>1
    <3> HIDE DEF s, m
    <3>3. n <= m => /\ Len(SubSeq(s, n, m)) = m - n + 1
                    /\ \A k \in 1..m - n + 1 : SubSeq(s, n, m)[k] = s[n + k - 1] /\ n + k - 1 \in 1..m
      BY <1>4, <3>2
    <3>4. n > m => Len(SubSeq(s, n, m)) = 0
      BY <1>4, <3>2
    <3>5. \A k \in 1..Len(SubSeq(s, n, m)) : \E i \in 1..m : SubSeq(s, n, m)[k] = s[i]
      BY <1>4, <3>2, <3>3, <3>4
    <3> QED
      BY <3>1, <3>5 DEF OnlyDeletes, s, m
  <2> HIDE DEF rest
  <2>3. NamesNoBlock(job[w].snap)
    BY OfClear
  <2> QED
    BY <1>1, <2>1, <2>2, <2>3, SafeStep
<1>6. CASE Finish(w)
  BY <1>1, <1>6, FinishClear
<1>7. CASE AbortRebuild(w)
  BY <1>1, <1>7, AbortClear
<1>8. pc[w] \notin {"apply", "sync", "enable"}
  BY <1>2, <1>3 DEF Orderly
<1> QED
  BY <1>5, <1>6, <1>7, <1>8 DEF FailCommand, n, d

-----------------------------------------------------------------------------
(* Rebuild and discovery. *)

LEMMA StripDeletes ==
  ASSUME NEW chain \in Chains, live \in [Chains -> Seq(Entry)]
  PROVE  OnlyDeletes(StripCommands(chain))
<1> DEFINE own == {k \in DOMAIN live[chain] : HasOwnedTag(live[chain][k])}
           owned == Selected(live[chain], own)
<1>1. owned \in Seq(Entry)
  BY SelectedElements
<1>2. StripCommands(chain) =
        [k \in DOMAIN owned |-> [op |-> "-D", chain |-> chain, entry |-> owned[k], skip |-> 0]]
  BY DEF StripCommands
<1> HIDE DEF owned
<1> QED
  BY <1>1, <1>2 DEF OnlyDeletes

\* A rebuild adds the rules of a chain, and client blocks are in none.
LEMMA FillBlocks ==
  ASSUME NEW t, FiniteTable(t), NEW chain \in Chains
  PROVE  NoBlocks(FillCommands(t, chain))
<1> DEFINE S == {i \in Enabled(t) : InChain(t, i, chain)}
           ids == WantedIds(t, chain)
           add(k) == [op |-> "-A", chain |-> chain,
                      entry |-> LiveEntry(ids[k], t[ids[k]].shape), skip |-> 0]
<1>1. S \subseteq DOMAIN t /\ IsFiniteSet(S)
  BY FS_Subset DEF Enabled, FiniteTable
<1>2. ids \in Seq(S)
  BY <1>1, OrderedElements DEF FiniteTable, WantedIds
<1>3. \A i \in S : ~IsBlock(t[i].shape)
  <2> SUFFICES ASSUME NEW i \in S, IsBlock(t[i].shape)
               PROVE  FALSE
    OBVIOUS
  <2>1. ChainsFor(t[i].shape.kind) = <<>>
    BY DEF IsBlock, ChainsFor
  <2> QED
    BY <2>1 DEF InChain, ToSet
<1>4. \A k \in 1..Len(ids) : ids[k] \in S
  <2> HIDE DEF ids, S
  <2> QED BY <1>2
<1>5. FillCommands(t, chain) = [k \in DOMAIN ids |-> add(k)]
  BY DEF FillCommands
<1> HIDE DEF ids, S
<1>6. \A k \in 1..Len(ids) : add(k).entry.shape = t[ids[k]].shape
  BY DEF LiveEntry
<1> HIDE DEF add
<1>7. DOMAIN ids = 1..Len(ids) /\ Len(FillCommands(t, chain)) = Len(ids)
  BY <1>2, <1>5
<1> QED
  BY <1>3, <1>4, <1>5, <1>6, <1>7 DEF NoBlocks

LEMMA RebuildClear ==
  ASSUME ClearInv, NEW w \in Workers, ListChain(w) \/ ReloadRules(w)
  PROVE  ClearStep(w)
<1> DEFINE chain == Head(job[w].chains)
           new == IF pc[w] = "list" THEN StripCommands(chain) ELSE FillCommands(rules, chain)
           p == IF pc[w] = "list" THEN "strip" ELSE "fill"
<1>1. /\ rules' = rules /\ nextId' = nextId /\ live' = live /\ pc[w] \in {"list", "strip"}
      /\ Goto(w, p) /\ job' = [job EXCEPT ![w].cmds = new]
  BY DEF ListChain, ReloadRules
<1>2. chain \in Chains
  BY <1>1, OfClear, OfWorker, HeadTailProperties DEF PlaceOK, IsJob
<1>3. /\ pc[w] = "list" => OnlyDeletes(new)
      /\ pc[w] # "list" => NoBlocks(new)
  BY <1>2, OfClear, OfWorker, StripDeletes, FillBlocks
<1> HIDE DEF new
<1>4. pc'[w] = p /\ job'[w].cmds = new /\ job'[w].snap = job[w].snap
  BY <1>1, OfClear, Goes, OfWorker DEF IsJob, NoJob, Inv
<1>5. NamesNoBlock(job[w].snap)
  BY OfClear
<1> QED
  BY <1>1, <1>3, <1>4, <1>5, SafeStep

LEMMA AdoptClear ==
  ASSUME ClearInv, NEW w \in Workers, Adopt(w)
  PROVE  ClearStep(w)
<1> DEFINE f == Head(job[w].found)
           shape == AdoptedAs(Head(job[w].scan), f.entry.shape)
           row == [shape |-> shape, enabled |-> TRUE, pos |-> f.pos]
<1>1. /\ rules' = With(rules, nextId, row) /\ nextId' = nextId + 1 /\ live' = live
      /\ pc[w] = "adopt" /\ job[w].found # <<>> /\ pc'[w] = "claim"
      /\ job' = [job EXCEPT ![w].id = nextId]
  BY OfClear, Goes DEF Adopt
<1>2. ~IsBlock(shape)
  BY <1>1, OfClear, Adopting DEF IsBlock
<1>3. job'[w].id = nextId /\ job'[w].snap = job[w].snap
  BY <1>1, OfClear, OfWorker DEF IsJob, NoJob, Inv
<1>4. row.shape = shape
  OBVIOUS
<1> HIDE DEF row, shape
<1>5. /\ ShapesStay
      /\ DOMAIN rules' = DOMAIN rules \cup {nextId} /\ rules'[nextId] = row
      /\ \A i \in DOMAIN rules : rules'[i] = rules[i]
  BY <1>1, RowAdded
<1>6. nextId < nextId' /\ NamesNoBlock(job[w].snap)
  BY <1>1, OfClear
<1>7. Orderly(pc'[w], job'[w], rules', nextId')
  BY <1>1, <1>2, <1>3, <1>4, <1>5, <1>6 DEF Orderly
<1>8. pc'[w] # "apply" /\ live' = live
  BY <1>1
<1>9. \A c \in Clients, chain \in BlockChains : TraceStep(w, c, chain)
  BY <1>5, <1>8, NoNewTrace
<1>10. ClearsBehind(pc[w], job[w])'
  BY <1>1 DEF ClearsBehind
<1> QED
  BY <1>5, <1>7, <1>9, <1>10 DEF ClearStep

LEMMA ClaimClear ==
  ASSUME ClearInv, NEW w \in Workers, Claim(w)
  PROVE  ClearStep(w)
<1> DEFINE f == Head(job[w].found)
           d == [op |-> "-D", chain |-> Head(job[w].scan), entry |-> f.entry, skip |-> 0]
<1>1. /\ pc[w] = "claim" /\ rules' = rules /\ nextId' = nextId /\ job[w].found # <<>>
  BY OfClear, OfWorker DEF Claim, PlaceOK
<1>2. ShapesStay
  BY <1>1 DEF ShapesStay, ClearInv, Inv, SharedOK
<1>3. NamesNoBlock(job[w].snap) /\ Orderly("claim", job[w], rules, nextId)
  BY <1>1, OfClear
<1>4. CASE /\ Executable(d) /\ live' = Executed(d) /\ Goto(w, "adopt")
           /\ job' = [job EXCEPT ![w].found = Tail(@),
                         ![w].touched = @ \cup
                             ToSet(ChainsFor(AdoptedAs(d.chain, f.entry.shape).kind))]
  <2>1. d \in Command /\ d.op = "-D"
    BY <1>1, OfClear, Adopting DEF Command
  <2>2. pc'[w] = "adopt"
    BY <1>4, OfClear, Goes
  <2>3. job'[w].snap = job[w].snap
    BY <1>4, OfClear, OfWorker DEF IsJob, NoJob, Inv
  <2> HIDE DEF d
  <2>4. \A c \in Clients, chain \in BlockChains : TraceStep(w, c, chain)
    BY <1>1, <1>4, <2>1, <2>2, RunTrace DEF Due
  <2>5. Orderly(pc'[w], job'[w], rules', nextId')
    BY <1>3, <2>2, <2>3 DEF Orderly
  <2>6. ClearsBehind(pc[w], job[w])'
    BY <2>2 DEF ClearsBehind
  <2> QED
    BY <1>2, <2>4, <2>5, <2>6 DEF ClearStep
<1>5. CASE Goto(w, "drop") /\ UNCHANGED <<live, job>>
  <2>1. pc'[w] = "drop" /\ job'[w] = job[w]
    BY <1>5, OfClear, Goes
  <2>2. Orderly(pc'[w], job'[w], rules', nextId')
    BY <1>1, <1>3, <2>1 DEF Orderly
  <2>3. \A c \in Clients, chain \in BlockChains : TraceStep(w, c, chain)
    BY <1>1, <1>5, <2>1, NoNewTrace
  <2>4. ClearsBehind(pc[w], job[w])'
    BY <2>1 DEF ClearsBehind
  <2> QED
    BY <1>2, <2>2, <2>3, <2>4 DEF ClearStep
<1> QED
  BY <1>4, <1>5 DEF Claim

LEMMA DropAdoptedClear ==
  ASSUME ClearInv, NEW w \in Workers, DropAdopted(w)
  PROVE  ClearStep(w)
<1>1. /\ pc[w] = "drop" /\ rules' = Without(rules, job[w].id) /\ nextId' = nextId
      /\ live' = live /\ pc'[w] = "adopt" /\ job' = [job EXCEPT ![w].found = Tail(@)]
  BY OfClear, Goes DEF DropAdopted
<1>2. job'[w].snap = job[w].snap
  BY <1>1, OfClear, OfWorker DEF IsJob, NoJob, Inv
<1>3. job[w].id \in DOMAIN rules => ~IsBlock(rules[job[w].id].shape)
  BY <1>1, OfClear DEF Orderly
<1>4. /\ DOMAIN rules' = DOMAIN rules \ {job[w].id}
      /\ \A i \in DOMAIN rules' : rules'[i] = rules[i]
  BY <1>1 DEF Without
<1>5. NamesNoBlock(job'[w].snap)
  BY <1>2, OfClear
<1>6. pc'[w] \in Easy /\ pc'[w] \notin {"unapply", "strip", "fill"}
  BY <1>1 DEF Easy, Places
<1> QED
  BY <1>1, <1>3, <1>4, <1>5, <1>6, SafeStep

-----------------------------------------------------------------------------
(* Hands on the live chains. *)

LEMMA LiveOnly ==
  ASSUME ClearInv, Inv', UNCHANGED <<rules, nextId, pc, job>>,
         \A c \in Clients, chain \in BlockChains :
            /\ BlockedOnce(live'[chain], c)
            /\ BlockedBy(live'[chain], c) => BlockedBy(live[chain], c)
  PROVE  ClearInv'
<1>1. ASSUME NEW c \in Clients, NEW chain \in BlockChains
      PROVE  OneTrace(c, chain)' /\ (Traced(c, chain)' => Traced(c, chain))
  <2>1. OneTrace(c, chain)
    BY DEF ClearInv
  <2>2. Traced(c, chain)' => Traced(c, chain)
    BY DEF Traced
  <2>3. /\ BlockedOnce(live'[chain], c)
        /\ BlockedBy(live'[chain], c) => BlockedBy(live[chain], c)
    OBVIOUS
  <2> QED
    BY <2>1, <2>2, <2>3 DEF OneTrace
<1>2. ASSUME NEW w \in Workers
      PROVE  ClearsBehind(pc[w], job[w])'
  <2>1. ClearsBehind(pc[w], job[w]) /\ Orderly(pc[w], job[w], rules, nextId)
    BY DEF ClearInv
  <2>2. pc[w] = "unblock" => job[w].snap[job[w].id].shape.client \in Clients
    BY <2>1 DEF Orderly
  <2>3. pc'[w] = pc[w] /\ job'[w] = job[w]
    OBVIOUS
  <2> QED
    BY <1>1, <2>1, <2>2, <2>3 DEF ClearsBehind
<1> QED
  BY <1>1, <1>2 DEF ClearInv, NamesNoBlock

LEMMA ManualAppendClear ==
  ASSUME BlocksByRequest, ClearInv, NEW m \in ManualRules, ManualAppend(m[1], m[2])
  PROVE  ClearInv'
<1> DEFINE e == [id |-> 0, shape |-> m[2]]
<1>1. UNCHANGED <<rules, nextId, pc, job>> /\ Inv'
  BY OfClear, ManualAppendStep DEF ManualAppend, ClearInv
<1>2. e \in Entry /\ ~IsBlock(e.shape)
  BY ManualAssumption DEF Entry, BlocksByRequest
<1>3. live' = [live EXCEPT ![m[1]] = Append(@, e)]
  BY DEF ManualAppend
<1> HIDE DEF e
<1>4. live \in [Chains -> Seq(Entry)]
  BY OfWorker DEF ClearInv, Inv, SharedOK
<1>5. ASSUME NEW c \in Clients, NEW chain \in BlockChains
      PROVE  /\ BlockedOnce(live'[chain], c)
             /\ BlockedBy(live'[chain], c) => BlockedBy(live[chain], c)
  <2>1. BlockedOnce(live[chain], c) /\ live[chain] \in Seq(Entry)
    BY <1>4 DEF ClearInv, OneTrace, BlockChains, Chains
  <2>2. live'[chain] = live[chain] \/ live'[chain] = Append(live[chain], e)
    BY <1>3, <1>4 DEF BlockChains, Chains
  <2>3. ~BlocksClient(e, c)
    BY <1>2 DEF BlocksClient
  <2>4. CASE live'[chain] = Append(live[chain], e)
    BY <1>2, <2>1, <2>3, <2>4, BlocksAdded
  <2> QED
    BY <2>1, <2>2, <2>4
<1> QED
  BY <1>1, <1>5, LiveOnly

LEMMA ManualDeleteClear ==
  ASSUME ClearInv, NEW chain \in Chains, NEW k \in DOMAIN live[chain], ManualDelete(chain, k)
  PROVE  ClearInv'
<1>1. UNCHANGED <<rules, nextId, pc, job>> /\ Inv'
  BY ManualDeleteStep DEF ManualDelete, ClearInv
<1>2. live' = [live EXCEPT ![chain] = RemoveAt(@, k)] /\ live \in [Chains -> Seq(Entry)]
  BY DEF ManualDelete, ClearInv, Inv, SharedOK
<1>3. ASSUME NEW c \in Clients, NEW ch \in BlockChains
      PROVE  /\ BlockedOnce(live'[ch], c)
             /\ BlockedBy(live'[ch], c) => BlockedBy(live[ch], c)
  <2>1. BlockedOnce(live[ch], c) /\ live[ch] \in Seq(Entry)
    BY <1>2 DEF ClearInv, OneTrace, BlockChains, Chains
  <2>2. live'[ch] = live[ch] \/ (ch = chain /\ live'[ch] = RemoveAt(live[ch], k))
    BY <1>2 DEF BlockChains, Chains
  <2>3. CASE ch = chain /\ live'[ch] = RemoveAt(live[ch], k)
    <3> DEFINE s == live[ch]
    <3>1. s \in Seq(Entry) /\ k \in 1..Len(s) /\ BlockedOnce(s, c)
      BY <2>1, <2>3
    <3> HIDE DEF s
    <3>2. BlockedOnce(RemoveAt(s, k), c) /\ (BlockedBy(RemoveAt(s, k), c) => BlockedBy(s, c))
      BY <3>1, BlocksRemoved
    <3> QED
      BY <2>3, <3>2 DEF s
  <2> QED
    BY <2>1, <2>2, <2>3
<1> QED
  BY <1>1, <1>3, LiveOnly

LEMMA FlushClear ==
  ASSUME ClearInv, Flush
  PROVE  ClearInv'
<1>1. UNCHANGED <<rules, nextId, pc, job>> /\ Inv' /\ live' = [c \in Chains |-> <<>>]
  BY FlushStep DEF Flush, ClearInv
<1>2. \A c \in Clients, chain \in BlockChains :
        BlockedOnce(live'[chain], c) /\ ~BlockedBy(live'[chain], c)
  BY <1>1 DEF BlockChains, Chains, BlockedOnce, BlockedBy
<1> QED
  BY <1>1, <1>2, LiveOnly

-----------------------------------------------------------------------------
(* The initial state: every enabled block is live once in either chain. *)

LEMMA ReflectedBlocks ==
  ASSUME NEW t, FiniteTable(t), OneBlockRow(t), NEW c \in Clients, NEW chain \in BlockChains
  PROVE  /\ BlockedOnce(Reflection(t)[chain], c)
         /\ BlockedBy(Reflection(t)[chain], c) => BlockRows(t, c) # {}
<1> DEFINE S == {i \in Enabled(t) : IsBlock(t[i].shape)}
           ids == Ordered(t, S)
           n == Len(ids)
           R == {i \in Enabled(t) : InChain(t, i, chain)}
           rest == WantedIds(t, chain)
           front == BlockEntries(t)
           back == OrderedEntries(t, chain)
           all == Reflection(t)[chain]
<1>1. S \subseteq DOMAIN t /\ IsFiniteSet(S) /\ R \subseteq DOMAIN t /\ IsFiniteSet(R)
  BY FS_Subset DEF Enabled, FiniteTable
<1>2. ids \in Seq(S) /\ n = Cardinality(S)
      /\ \A k, m \in 1..n : k < m => Before(t, ids[k], ids[m])
  <2> HIDE DEF S
  <2> QED BY <1>1, OrderedElements DEF FiniteTable
<1>3. rest \in Seq(R)
  BY <1>1, OrderedElements DEF FiniteTable, WantedIds
<1>4. \A i \in S : i \in Int /\ t[i].pos \in Int /\ IsBlock(t[i].shape)
  BY <1>1 DEF FiniteTable, IsTable, Row
<1>5. \A i \in R : ~IsBlock(t[i].shape)
  <2> SUFFICES ASSUME NEW i \in R, IsBlock(t[i].shape)
               PROVE  FALSE
    OBVIOUS
  <2>1. ChainsFor(t[i].shape.kind) = <<>>
    BY DEF IsBlock, ChainsFor
  <2> QED
    BY <2>1 DEF InChain, ToSet
<1>6. chain \in Chains /\ chain \in {"FORWARD", "INPUT"}
  BY DEF BlockChains, Chains
<1>7. all = front \o back
  BY <1>6 DEF Reflection
<1>8. front = [k \in DOMAIN ids |-> LiveEntry(ids[k], t[ids[k]].shape)]
      /\ back = [k \in DOMAIN rest |-> LiveEntry(rest[k], t[rest[k]].shape)]
  BY DEF BlockEntries, OrderedEntries
<1>9. front \in Seq(Entry) /\ back \in Seq(Entry)
  BY <1>6, ReflectedTypes
<1> HIDE DEF S, R, ids, rest, front, back, all
<1>10. /\ Len(front) = n /\ \A k \in 1..n : ids[k] \in S /\ front[k].shape = t[ids[k]].shape
       /\ \A k \in 1..Len(back) : rest[k] \in R /\ back[k].shape = t[rest[k]].shape
  BY <1>2, <1>3, <1>8, <1>9 DEF LiveEntry
<1>11. /\ Len(all) = n + Len(back) /\ n \in Nat
       /\ \A k \in 1..Len(all) : all[k] = IF k <= n THEN front[k] ELSE back[k - n]
  BY <1>2, <1>7, <1>9, <1>10, ConcatProperties
<1>12. ASSUME NEW k \in 1..Len(all), BlocksClient(all[k], c)
       PROVE  k \in 1..n /\ ids[k] \in BlockRows(t, c)
  <2>1. CASE k > n
    <3>1. k - n \in 1..Len(back) /\ all[k] = back[k - n]
      BY <1>9, <1>11, <2>1
    <3> QED
      BY <1>5, <1>10, <1>12, <3>1 DEF BlocksClient
  <2>2. CASE k <= n
    <3>1. k \in 1..n /\ all[k] = front[k]
      BY <1>11, <2>2
    <3> QED
      BY <1>1, <1>10, <1>12, <3>1 DEF BlocksClient, BlockRows
  <2> QED
    BY <1>11, <2>1, <2>2
<1>13. \A k, m \in 1..n : ids[k] = ids[m] => k = m
  <2>1. \A k, m \in 1..n : k < m => ids[k] # ids[m]
    <3> SUFFICES ASSUME NEW k \in 1..n, NEW m \in 1..n, k < m, ids[k] = ids[m]
                 PROVE  FALSE
      OBVIOUS
    <3>1. Before(t, ids[k], ids[k]) /\ ids[k] \in Int /\ t[ids[k]].pos \in Int
      BY <1>2, <1>4, <1>10
    <3> QED
      BY <3>1 DEF Before
  <2> SUFFICES ASSUME NEW k \in 1..n, NEW m \in 1..n, ids[k] = ids[m], k # m
               PROVE  FALSE
    OBVIOUS
  <2>2. k < m \/ m < k
    BY <1>11
  <2> QED
    BY <2>1, <2>2
<1>14. BlockedOnce(all, c)
  BY <1>12, <1>13 DEF BlockedOnce, OneBlockRow
<1>15. BlockedBy(all, c) => BlockRows(t, c) # {}
  BY <1>12 DEF BlockedBy
<1> QED
  BY <1>14, <1>15 DEF all

LEMMA ClearInit == BlocksByRequest /\ Init => ClearInv
<1> SUFFICES ASSUME BlocksByRequest, Init
             PROVE  ClearInv
  OBVIOUS
<1>1. Inv /\ FiniteTable(rules) /\ OneBlockRow(rules)
  BY InitInv DEF Inv, SharedOK
<1>2. \A w \in Workers : pc[w] = "idle" /\ job[w] = NoJob
  BY DEF Init
<1>3. \A r \in Requests : r.op \in {"toggle", "disable", "delete"} =>
        r.id \in DOMAIN rules /\ ~IsBlock(rules[r.id].shape)
  BY DEF Init, BlocksByRequest
<1>4. NamesNoBlock(rules)
      /\ \A r \in Requests : r.op \in {"toggle", "disable", "delete"} => r.id < nextId
  BY <1>1, <1>3 DEF NamesNoBlock, Inv, SharedOK
<1>5. ASSUME NEW w \in Workers
      PROVE  Orderly(pc[w], job[w], rules, nextId) /\ ClearsBehind(pc[w], job[w])
  BY <1>2, NoJobNames DEF Orderly, ClearsBehind
<1>6. ASSUME NEW c \in Clients, NEW chain \in BlockChains
      PROVE  OneTrace(c, chain)
  <2>1. live[chain] = Reflection(rules)[chain]
    BY DEF Init
  <2>2. BlockedOnce(live[chain], c) /\ (BlockedBy(live[chain], c) => BlockRows(rules, c) # {})
    BY <1>1, <2>1, ReflectedBlocks
  <2>3. \A w \in Workers : ~Due(pc[w], job[w], c, chain)
    BY <1>2 DEF Due
  <2> QED
    BY <2>2, <2>3 DEF OneTrace, Traced
<1> QED
  BY <1>1, <1>4, <1>5, <1>6 DEF ClearInv

-----------------------------------------------------------------------------
(* Every step keeps the invariant. *)

LEMMA EveryClearStep ==
  ASSUME BlocksByRequest, ClearInv, NEW w \in Workers, Step(w)
  PROVE  ClearStep(w)
<1>1. pc[w] \notin {"undo", "start", "sync"}
  BY OfClear DEF Orderly
<1>2. ~Undo(w) /\ ~SyncStart(w) /\ ~SyncBlocksDone(w)
  BY <1>1 DEF Undo, SyncStart, SyncBlocksDone
<1>3. ASSUME Transaction(w)
      PROVE  ClearStep(w)
  BY <1>3, EasySteps, ReadClear, AddInputClear, ToggleClear, DisableClear, DeleteClear,
     ReorderClear, BlockClear, UnblockClear, UnblockCommitClear DEF Transaction
<1>4. ASSUME UnlockedInsert(w) \/ Commands(w)
      PROVE  ClearStep(w)
  BY <1>2, <1>4, EasySteps, UnlockedInsertClear, RunCommandClear, FailCommandClear
     DEF UnlockedInsert, Commands
<1>5. ASSUME Rebuild(w) \/ Discovery(w)
      PROVE  ClearStep(w)
  BY <1>2, <1>5, EasySteps, RebuildClear, ReadClear, AdoptClear, ClaimClear, DropAdoptedClear
     DEF Rebuild, Discovery
<1> QED
  BY <1>3, <1>4, <1>5 DEF Step

LEMMA ClearNext ==
  ASSUME BlocksByRequest
  PROVE  ClearInv /\ [Next]_vars => ClearInv'
<1> SUFFICES ASSUME ClearInv, [Next]_vars
             PROVE  ClearInv'
  OBVIOUS
<1>1. Inv
  BY DEF ClearInv
<1>2. ASSUME NEW w \in Workers, StepOK(w) /\ ClearStep(w)
      PROVE  ClearInv'
  BY <1>2, ClearStepKeeps
<1>3. ASSUME NEW w \in Workers, Step(w)
      PROVE  ClearInv'
  BY <1>1, <1>2, <1>3, EveryStepOK, EveryClearStep
<1>4. ASSUME NEW w \in Workers, NEW r \in Requests, Receive(w, r)
      PROVE  ClearInv'
  BY <1>1, <1>2, <1>4, ReceiveStep, ReceiveClear
<1>5. ASSUME NEW w \in Workers, Crash(w)
      PROVE  ClearInv'
  BY <1>1, <1>2, <1>5, CrashStep, EasySteps
<1>6. CASE UNCHANGED vars
  <2>1. Inv'
    BY <1>1, <1>6, NextInv
  <2>2. \A c \in Clients, chain \in BlockChains : BlockedOnce(live[chain], c)
    BY DEF ClearInv, OneTrace
  <2> QED
    BY <1>6, <2>1, <2>2, LiveOnly DEF vars
<1>7. CASE Environment
  BY <1>4, <1>5, <1>7, ManualAppendClear, ManualDeleteClear, FlushClear DEF Environment
<1> QED
  BY <1>3, <1>6, <1>7 DEF Next

LEMMA ClearImplies == ClearInv => UnblockedIsClear
<1> SUFFICES ASSUME ClearInv, NEW c \in Clients, BlockRows(rules, c) = {}, BlockLive(c)
             PROVE  FALSE
  BY DEF UnblockedIsClear
<1>1. PICK ch \in BlockChains :
         \E k \in DOMAIN live[ch] : BlocksClient(live[ch][k], c)
  BY DEF BlockLive, BlockChains, BlocksClient
<1>2. DOMAIN live[ch] = 1..Len(live[ch])
  BY OfWorker DEF ClearInv, Inv, SharedOK, BlockChains, Chains
<1>3. BlockedBy(live[ch], c)
  BY <1>1, <1>2 DEF BlockedBy
<1> QED
  BY <1>3 DEF ClearInv, OneTrace, Traced

\* set_client_block(blocked=False) deletes one live rule per chain and then
\* the row.  However block and unblock requests interleave with each other,
\* with inserts, edits of other rules, rebuilds, discoveries, crashes and lost
\* rules, this leaves nothing behind that still blocks a client without a row:
\* for any number of workers and clients, as long as no iptables command
\* fails, nothing synchronises from a stale table and blocks are only set
\* and lifted by these requests.
THEOREM UnblockedClientsAreClear ==
  ASSUME BlocksByRequest
  PROVE  Spec => []UnblockedIsClear
<1>1. Init => ClearInv
  BY ClearInit
<1>2. ClearInv /\ [Next]_vars => ClearInv'
  BY ClearNext
<1>3. ClearInv => UnblockedIsClear
  BY ClearImplies
<1> QED
  BY <1>1, <1>2, <1>3, PTL DEF Spec

-----------------------------------------------------------------------------
(* Reordering.  A moved rule gets the midpoint between its target and the   *)
(* next rule: it lands right there as long as there is room in between.     *)

\* Rules that share a chain are at least g apart.
Spaced(t, g) ==
    \A i \in DOMAIN t : \A j \in Siblings(t, i) :
        t[i].pos + g <= t[j].pos \/ t[j].pos + g <= t[i].pos

\* The rule lo comes right before hi among the rules that share a chain with id.
Adjacent(t, id, lo, hi) ==
    /\ Before(t, lo, hi)
    /\ \A i \in Siblings(t, id) : ~(Before(t, lo, i) /\ Before(t, i, hi))

\* Two rules that each share a chain with a third share one.
LEMMA SiblingsAlike ==
  ASSUME NEW t, IsTable(t), NEW id \in DOMAIN t, NEW i \in Siblings(t, id),
         NEW j \in Siblings(t, id), i # j
  PROVE  j \in Siblings(t, i)
<1> DEFINE home(k) == CASE k = "input" -> "INPUT"
                        [] k \in {"forward", "portforward"} -> "FORWARD"
                        [] OTHER -> "POSTROUTING"
<1>1. \A k, m \in Kinds : \A c \in Chains :
         c \in ToSet(ChainsFor(k)) /\ c \in ToSet(ChainsFor(m)) =>
            /\ home(k) = home(m) /\ home(k) \in ToSet(ChainsFor(k))
            /\ home(k) \in ToSet(ChainsFor(m)) /\ home(k) \in Chains
  <2>1. \A k \in Kinds :
           ToSet(ChainsFor(k)) = CASE k = "input" -> {"INPUT"}
                                   [] k = "forward" -> {"FORWARD"}
                                   [] k \in {"masquerade", "snat"} -> {"POSTROUTING"}
                                   [] k = "portforward" -> {"PREROUTING", "FORWARD"}
                                   [] OTHER -> {}
    BY DEF ChainsFor, ToSet, Kinds
  <2> QED
    BY <2>1 DEF Kinds, Chains
<1>2. \A x \in DOMAIN t : t[x].shape.kind \in Kinds
  BY DEF IsTable, Row, Shape
<1> HIDE DEF home
<1>3. i \in DOMAIN t /\ j \in DOMAIN t
  BY DEF Siblings
<1>4. home(t[i].shape.kind) = home(t[id].shape.kind)
        /\ home(t[i].shape.kind) \in ToSet(ChainsFor(t[i].shape.kind))
        /\ home(t[i].shape.kind) \in Chains
  BY <1>1, <1>2, <1>3 DEF Siblings, InChain
<1>5. home(t[j].shape.kind) = home(t[id].shape.kind)
        /\ home(t[j].shape.kind) \in ToSet(ChainsFor(t[j].shape.kind))
  BY <1>1, <1>2, <1>3 DEF Siblings, InChain
<1> QED
  BY <1>3, <1>4, <1>5 DEF Siblings, InChain

\* Which rules share a chain depends on their kinds only.
LEMMA SiblingsSame ==
  ASSUME NEW t, NEW u, DOMAIN u = DOMAIN t,
         \A i \in DOMAIN t : u[i].shape = t[i].shape
  PROVE  \A i \in DOMAIN t : Siblings(u, i) = Siblings(t, i)
BY DEF Siblings, InChain

\* Where the positions below and above a target are.
LEMMA RoomAround ==
  ASSUME NEW t, FiniteTable(t), NEW id \in DOMAIN t, NEW target \in Siblings(t, id),
         NEW g \in Nat \ {0}, Spaced(t, g),
         NEW place \in {"before", "after"}, NEW h \in Nat \ {0}, 2 * h <= g, g <= Unit
  PROVE  LET p == ReorderPosition(t, id, target, place)
             S == Siblings(t, id)
         IN  /\ p \in Int
             /\ \A i \in S : t[i].pos + h <= p \/ p + h <= t[i].pos
             /\ place = "before" =>
                   /\ p < t[target].pos
                   /\ \A i \in S : t[i].pos <= p \/ t[target].pos <= t[i].pos
             /\ place = "after" =>
                   /\ t[target].pos < p
                   /\ \A i \in S : p <= t[i].pos \/ t[i].pos <= t[target].pos
<1> DEFINE S == Siblings(t, id)
           below == {i \in S : Before(t, i, target)}
           above == {i \in S : Before(t, target, i)}
           B == {t[i].pos : i \in below}
           A == {t[i].pos : i \in above}
           pos == t[target].pos
           p == ReorderPosition(t, id, target, place)
<1>0. \A i \in DOMAIN t : t[i].pos \in Int /\ i \in Nat
  BY DEF FiniteTable, IsTable, Row
<1>1. S \subseteq DOMAIN t /\ IsFiniteSet(S) /\ target \in S
  <2>1. S \subseteq DOMAIN t
    BY DEF Siblings
  <2> QED
    BY <2>1, FS_Subset DEF FiniteTable
<1>2. p \in Int
  BY <1>1, ReorderPositionType
<1>3. \A i \in S : i # target => t[i].pos + g <= pos \/ pos + g <= t[i].pos
  <2> SUFFICES ASSUME NEW i \in S, i # target
               PROVE  t[i].pos + g <= pos \/ pos + g <= t[i].pos
    OBVIOUS
  <2>1. i \in Siblings(t, target)
    BY SiblingsAlike DEF FiniteTable
  <2>2. target \in DOMAIN t
    BY <1>1
  <2> QED
    BY <2>1, <2>2 DEF Spaced
<1>4. p = CASE place = "before" /\ below = {} -> pos - Unit
            [] place = "before" /\ below # {} -> (Max(B) + pos) \div 2
            [] place = "after" /\ above = {} -> pos + Unit
            [] place = "after" /\ above # {} -> (pos + Min(A)) \div 2
  BY DEF ReorderPosition
<1>5. \A i \in S : i \in below <=> t[i].pos + g <= pos
  <2> SUFFICES ASSUME NEW i \in S
               PROVE  Before(t, i, target) <=> t[i].pos + g <= pos
    OBVIOUS
  <2>1. t[i].pos \in Int /\ pos \in Int /\ i \in Nat
    BY <1>0, <1>1
  <2>2. CASE i = target
    BY <2>1, <2>2 DEF Before
  <2>3. CASE i # target
    BY <1>3, <2>1, <2>3 DEF Before
  <2> QED
    BY <2>2, <2>3
<1>6. \A i \in S : i \in above <=> pos + g <= t[i].pos
  <2> SUFFICES ASSUME NEW i \in S
               PROVE  Before(t, target, i) <=> pos + g <= t[i].pos
    OBVIOUS
  <2>1. t[i].pos \in Int /\ pos \in Int /\ i \in Nat
    BY <1>0, <1>1
  <2>2. CASE i = target
    BY <2>1, <2>2 DEF Before
  <2>3. CASE i # target
    BY <1>3, <2>1, <2>3 DEF Before
  <2> QED
    BY <2>2, <2>3
<1>7. below \subseteq S /\ above \subseteq S
  OBVIOUS
<1>8. pos \in Int /\ \A i \in S : t[i].pos \in Int
  BY <1>0, <1>1
<1> HIDE DEF below, above, S, p, pos
<1>9. IsFiniteSet(B) /\ IsFiniteSet(A) /\ B \subseteq Int /\ A \subseteq Int
  <2>1. IsFiniteSet(below) /\ IsFiniteSet(above)
    BY <1>1, <1>7, FS_Subset
  <2> DEFINE f == [i \in below |-> t[i].pos]
             k == [i \in above |-> t[i].pos]
  <2>2. f \in Surjection(below, B)
    <3>1. f \in [below -> B] /\ \A x \in B : \E i \in below : f[i] = x
      OBVIOUS
    <3> QED
      BY <3>1, Fun_IsSurj
  <2>3. k \in Surjection(above, A)
    <3>1. k \in [above -> A] /\ \A x \in A : \E i \in above : k[i] = x
      OBVIOUS
    <3> QED
      BY <3>1, Fun_IsSurj
  <2>4. B \subseteq Int /\ A \subseteq Int
    BY <1>7, <1>8
  <2> HIDE DEF f, k, A, B
  <2> QED
    BY <2>1, <2>2, <2>3, <2>4, FS_Surjection
<1>10. (below = {} <=> B = {}) /\ (above = {} <=> A = {})
  OBVIOUS
<1>11. CASE place = "before"
  <2>1. CASE below = {}
    <3>1. p = pos - Unit
      BY <1>4, <1>11, <2>1
    <3>2. \A i \in S : ~(t[i].pos + g <= pos)
      BY <1>5, <2>1
    <3>3. \A i \in S : pos <= t[i].pos
      BY <1>3, <1>8, <3>2 DEF pos
    <3> QED
      BY <1>2, <1>8, <1>11, <3>1, <3>3, UnitAssumption DEF p, S, pos
  <2>2. CASE below # {}
    <3>1. PICK m \in below : Max(B) = t[m].pos /\ \A i \in below : t[i].pos <= t[m].pos
      <4> HIDE DEF B
      <4>1. Max(B) \in B /\ \A y \in B : Max(B) >= y
        BY <1>9, <1>10, <2>2, MaxOfFinite
      <4> QED
        BY <1>7, <1>8, <4>1 DEF B
    <3>2. PICK x \in Int : x = t[m].pos
      BY <1>7, <1>8
    <3>3. p = (x + pos) \div 2 /\ x + g <= pos
      BY <1>4, <1>5, <1>7, <1>11, <2>2, <3>1, <3>2
    <3>4. x + h <= p /\ p + h <= pos
      BY <1>2, <1>8, <3>3
    <3>5. \A i \in S : t[i].pos <= x \/ pos <= t[i].pos
      <4> SUFFICES ASSUME NEW i \in S
                   PROVE  t[i].pos <= x \/ pos <= t[i].pos
        OBVIOUS
      <4>1. CASE i \in below
        BY <3>1, <3>2, <4>1
      <4>2. CASE i \notin below
        <5>1. i = target \/ pos + g <= t[i].pos
          BY <1>3, <1>5, <4>2
        <5> QED
          BY <1>8, <5>1 DEF pos
      <4> QED
        BY <4>1, <4>2
    <3>6. \A i \in S : t[i].pos + h <= p \/ p + h <= t[i].pos
      BY <1>2, <1>8, <3>4, <3>5
    <3>7. \A i \in S : t[i].pos <= p \/ pos <= t[i].pos
      BY <1>2, <1>8, <3>4, <3>5
    <3>8. p < pos
      BY <1>2, <1>8, <3>4
    <3> QED
      BY <1>2, <1>11, <3>6, <3>7, <3>8 DEF p, S, pos
  <2> QED
    BY <2>1, <2>2
<1>12. CASE place = "after"
  <2>1. CASE above = {}
    <3>1. p = pos + Unit
      BY <1>4, <1>12, <2>1
    <3>2. \A i \in S : ~(pos + g <= t[i].pos)
      BY <1>6, <2>1
    <3>3. \A i \in S : t[i].pos <= pos
      BY <1>3, <1>8, <3>2 DEF pos
    <3> QED
      BY <1>2, <1>8, <1>12, <3>1, <3>3, UnitAssumption DEF p, S, pos
  <2>2. CASE above # {}
    <3>1. PICK m \in above : Min(A) = t[m].pos /\ \A i \in above : t[m].pos <= t[i].pos
      <4> HIDE DEF A
      <4>1. Min(A) \in A /\ \A y \in A : Min(A) =< y
        BY <1>9, <1>10, <2>2, MinOfFinite
      <4> QED
        BY <1>7, <1>8, <4>1 DEF A
    <3>2. PICK x \in Int : x = t[m].pos
      BY <1>7, <1>8
    <3>3. p = (pos + x) \div 2 /\ pos + g <= x
      BY <1>4, <1>6, <1>7, <1>12, <2>2, <3>1, <3>2
    <3>4. pos + h <= p /\ p + h <= x
      BY <1>2, <1>8, <3>3
    <3>5. \A i \in S : x <= t[i].pos \/ t[i].pos <= pos
      <4> SUFFICES ASSUME NEW i \in S
                   PROVE  x <= t[i].pos \/ t[i].pos <= pos
        OBVIOUS
      <4>1. CASE i \in above
        BY <3>1, <3>2, <4>1
      <4>2. CASE i \notin above
        <5>1. i = target \/ t[i].pos + g <= pos
          BY <1>3, <1>6, <4>2
        <5> QED
          BY <1>8, <5>1 DEF pos
      <4> QED
        BY <4>1, <4>2
    <3>6. \A i \in S : t[i].pos + h <= p \/ p + h <= t[i].pos
      BY <1>2, <1>8, <3>4, <3>5
    <3>7. \A i \in S : p <= t[i].pos \/ t[i].pos <= pos
      BY <1>2, <1>8, <3>4, <3>5
    <3>8. pos < p
      BY <1>2, <1>8, <3>4
    <3> QED
      BY <1>2, <1>12, <3>6, <3>7, <3>8 DEF p, S, pos
  <2> QED
    BY <2>1, <2>2
<1> QED
  BY <1>11, <1>12

\* A move to that position lands next to the target, and leaves half the room.
LEMMA Lands ==
  ASSUME NEW t, FiniteTable(t), NEW id \in DOMAIN t, NEW target \in Siblings(t, id),
         NEW g \in Nat \ {0}, Spaced(t, g),
         NEW place \in {"before", "after"}, NEW h \in Nat \ {0}, 2 * h <= g, g <= Unit,
         NEW u, DOMAIN u = DOMAIN t, \A i \in DOMAIN t : u[i].shape = t[i].shape,
         \A i \in DOMAIN t \ {id} : u[i].pos = t[i].pos,
         u[id].pos = ReorderPosition(t, id, target, place)
  PROVE  /\ Spaced(u, h)
         /\ place = "before" => Adjacent(u, id, id, target)
         /\ place = "after" => Adjacent(u, id, target, id)
<1> DEFINE p == ReorderPosition(t, id, target, place)
           S == Siblings(t, id)
<1>1. /\ p \in Int
      /\ \A i \in S : t[i].pos + h <= p \/ p + h <= t[i].pos
      /\ place = "before" =>
            /\ p < t[target].pos
            /\ \A i \in S : t[i].pos <= p \/ t[target].pos <= t[i].pos
      /\ place = "after" =>
            /\ t[target].pos < p
            /\ \A i \in S : p <= t[i].pos \/ t[i].pos <= t[target].pos
  BY RoomAround
<1>2. \A i \in DOMAIN t : Siblings(u, i) = Siblings(t, i)
  BY SiblingsSame
<1>3. \A i \in DOMAIN t : t[i].pos \in Int /\ i \in Nat
  BY DEF FiniteTable, IsTable, Row
<1>4. S \subseteq DOMAIN t \ {id} /\ target \in S
  BY DEF Siblings
<1>5. \A i, j \in DOMAIN t : j \in Siblings(t, i) => i \in Siblings(t, j)
  BY DEF Siblings
<1> HIDE DEF p, S
<1>6. u[id].pos = p /\ \A i \in S : u[i].pos = t[i].pos /\ t[i].pos \in Int
  BY <1>3, <1>4 DEF p
<1>7. Spaced(u, h)
  <2> SUFFICES ASSUME NEW i \in DOMAIN t, NEW j \in Siblings(t, i)
               PROVE  u[i].pos + h <= u[j].pos \/ u[j].pos + h <= u[i].pos
    BY <1>2 DEF Spaced
  <2>1. j \in DOMAIN t /\ j # i /\ i \in Siblings(t, j)
    BY <1>5 DEF Siblings
  <2>2. CASE i = id
    <3>1. j \in S
      BY <2>2 DEF S
    <3> QED
      BY <1>1, <1>6, <2>2, <3>1
  <2>3. CASE j = id
    <3>1. i \in S
      BY <2>1, <2>3 DEF S
    <3> QED
      BY <1>1, <1>6, <2>3, <3>1
  <2>4. CASE i # id /\ j # id
    <3>1. u[i].pos = t[i].pos /\ u[j].pos = t[j].pos /\ t[i].pos \in Int /\ t[j].pos \in Int
      BY <1>3, <2>1, <2>4
    <3>2. t[i].pos + g <= t[j].pos \/ t[j].pos + g <= t[i].pos
      BY DEF Spaced
    <3> QED
      BY <3>1, <3>2
  <2> QED
    BY <2>2, <2>3, <2>4
<1>8. ASSUME place = "before"
      PROVE  Adjacent(u, id, id, target)
  <2>1. Before(u, id, target)
    BY <1>1, <1>4, <1>6, <1>8 DEF Before, S
  <2>2. \A i \in S : ~(Before(u, id, i) /\ Before(u, i, target))
    <3> SUFFICES ASSUME NEW i \in S, Before(u, id, i), Before(u, i, target)
                 PROVE  FALSE
      OBVIOUS
    <3>1. t[i].pos + h <= p \/ p + h <= t[i].pos
      BY <1>1 DEF S
    <3>2. p <= t[i].pos
      BY <1>1, <1>6 DEF Before
    <3>3. p < t[i].pos
      BY <1>1, <1>6, <3>1, <3>2
    <3>4. t[target].pos <= t[i].pos
      BY <1>1, <1>6, <1>8, <3>3 DEF S
    <3>5. u[target].pos = t[target].pos /\ t[target].pos \in Int
      BY <1>4, <1>6
    <3>6. t[i].pos = t[target].pos /\ i < target
      BY <1>6, <3>4, <3>5 DEF Before
    <3>7. target \in Siblings(t, i)
      <4>1. i # target
        BY <1>3, <1>4, <3>6
      <4> QED
        BY <1>4, <4>1, SiblingsAlike DEF FiniteTable, S
    <3>8. t[i].pos + g <= t[target].pos \/ t[target].pos + g <= t[i].pos
      BY <1>4, <3>7 DEF Spaced
    <3> QED
      BY <3>5, <3>6, <3>8
  <2> QED
    BY <1>2, <2>1, <2>2 DEF Adjacent, S
<1>9. ASSUME place = "after"
      PROVE  Adjacent(u, id, target, id)
  <2>1. Before(u, target, id)
    BY <1>1, <1>4, <1>6, <1>9 DEF Before, S
  <2>2. \A i \in S : ~(Before(u, target, i) /\ Before(u, i, id))
    <3> SUFFICES ASSUME NEW i \in S, Before(u, target, i), Before(u, i, id)
                 PROVE  FALSE
      OBVIOUS
    <3>1. t[i].pos + h <= p \/ p + h <= t[i].pos
      BY <1>1 DEF S
    <3>2. t[i].pos <= p
      BY <1>1, <1>6 DEF Before
    <3>3. t[i].pos < p
      BY <1>1, <1>6, <3>1, <3>2
    <3>4. t[i].pos <= t[target].pos
      BY <1>1, <1>6, <1>9, <3>3 DEF S
    <3>5. u[target].pos = t[target].pos /\ t[target].pos \in Int
      BY <1>4, <1>6
    <3>6. t[i].pos = t[target].pos /\ target < i
      BY <1>6, <3>4, <3>5 DEF Before
    <3>7. target \in Siblings(t, i)
      <4>1. i # target
        BY <1>3, <1>4, <3>6
      <4> QED
        BY <1>4, <4>1, SiblingsAlike DEF FiniteTable, S
    <3>8. t[i].pos + g <= t[target].pos \/ t[target].pos + g <= t[i].pos
      BY <1>4, <3>7 DEF Spaced
    <3> QED
      BY <3>5, <3>6, <3>8
  <2> QED
    BY <1>2, <2>1, <2>2 DEF Adjacent, S
<1> QED
  BY <1>7, <1>8, <1>9

\* Rows of u that have a place in the order, those of t as they were.
Kept(t, u) ==
    \A i \in DOMAIN u :
        \/ IsBlock(u[i].shape)
        \/ i \in DOMAIN t /\ u[i].shape = t[i].shape /\ u[i].pos = t[i].pos

\* A block has no place in the order.
LEMMA BlocksApart ==
  ASSUME NEW t, NEW i, NEW j \in Siblings(t, i)
  PROVE  ~IsBlock(t[i].shape) /\ ~IsBlock(t[j].shape)
<1>1. ToSet(ChainsFor("client_block")) = {}
  BY DEF ChainsFor, ToSet
<1>2. PICK c \in Chains : InChain(t, i, c) /\ InChain(t, j, c)
  BY DEF Siblings
<1> QED
  BY <1>1, <1>2 DEF InChain, IsBlock

\* Deletions and updates of other fields keep the room there is.
LEMMA ApartKept ==
  ASSUME NEW t, FiniteTable(t), NEW u, Kept(t, u), NEW g \in Nat, Spaced(t, g), NEW h \in Nat, h <= g
  PROVE  Spaced(u, h)
<1> SUFFICES ASSUME NEW i \in DOMAIN u, NEW j \in Siblings(u, i)
             PROVE  u[i].pos + h <= u[j].pos \/ u[j].pos + h <= u[i].pos
  BY DEF Spaced
<1>1. ~IsBlock(u[i].shape) /\ ~IsBlock(u[j].shape) /\ j \in DOMAIN u /\ i # j
  BY BlocksApart DEF Siblings
<1>2. /\ i \in DOMAIN t /\ u[i].shape = t[i].shape /\ u[i].pos = t[i].pos
      /\ j \in DOMAIN t /\ u[j].shape = t[j].shape /\ u[j].pos = t[j].pos
  BY <1>1 DEF Kept
<1>3. j \in Siblings(t, i)
  BY <1>1, <1>2 DEF Siblings, InChain
<1>4. t[i].pos + g <= t[j].pos \/ t[j].pos + g <= t[i].pos
  BY <1>2, <1>3 DEF Spaced
<1>5. t[i].pos \in Int /\ t[j].pos \in Int
  BY <1>2 DEF FiniteTable, IsTable, Row
<1> QED
  BY <1>2, <1>4, <1>5

\* So does a row inserted at the end.
LEMMA ApartAtEnd ==
  ASSUME NEW t, FiniteTable(t), NEW id \in (Nat \ {0}) \ DOMAIN t, NEW row \in Row,
         row.pos = NextPosition(t),
         NEW g \in Nat, Spaced(t, g), NEW h \in Nat, h <= g, g <= Unit
  PROVE  Spaced(With(t, id, row), h)
<1> DEFINE u == With(t, id, row)
<1>1. /\ DOMAIN u = DOMAIN t \cup {id} /\ u[id] = row
      /\ \A i \in DOMAIN t : u[i] = t[i] /\ i # id
  <2>1. id \in Nat \ {0} /\ \A i \in DOMAIN t : i # id /\ i \in DOMAIN t \ {id}
    OBVIOUS
  <2>2. /\ DOMAIN u = DOMAIN t \cup {id} /\ u[id] = row
        /\ \A i \in DOMAIN t \ {id} : u[i] = t[i]
    BY DEF With
  <2> HIDE DEF u
  <2> QED
    BY <2>1, <2>2
<1>2. \A i \in DOMAIN t : t[i].pos \in Int
  BY DEF FiniteTable, IsTable, Row
<1>3. row.pos \in Int /\ \A i \in DOMAIN t : t[i].pos + Unit <= row.pos
  BY NextPositionLast
<1> HIDE DEF u
<1> SUFFICES ASSUME NEW i \in DOMAIN u, NEW j \in Siblings(u, i)
             PROVE  u[i].pos + h <= u[j].pos \/ u[j].pos + h <= u[i].pos
  BY DEF Spaced, u
<1>4. j \in DOMAIN u /\ i # j
  BY DEF Siblings
<1>5. CASE i = id
  <2>1. j \in DOMAIN t
    BY <1>1, <1>4, <1>5
  <2> QED
    BY <1>1, <1>2, <1>3, <1>5, <2>1, UnitAssumption
<1>6. CASE j = id
  <2>1. i \in DOMAIN t
    BY <1>1, <1>4, <1>6
  <2> QED
    BY <1>1, <1>2, <1>3, <1>6, <2>1, UnitAssumption
<1>7. CASE i # id /\ j # id
  <2>1. i \in DOMAIN t /\ j \in DOMAIN t
    BY <1>1, <1>4, <1>7
  <2>2. j \in Siblings(t, i)
    BY <1>1, <1>4, <2>1 DEF Siblings, InChain
  <2> QED
    BY <1>1, <1>2, <2>1, <2>2 DEF Spaced
<1> QED
  BY <1>5, <1>6, <1>7

-----------------------------------------------------------------------------
(* The invariant: decisions rest on the rows there are, and each request    *)
(* still undecided has room to halve.                                       *)

\* No rule gets a position but from a request under the advisory lock: no
\* discovery, which gives positions of its own, no add that takes no lock, and
\* none that fails and takes its row back (insert_rule, _insert_and_apply).
OrderByRequest ==
    \A r \in Requests :
        /\ r.op # "discover"
        /\ r.op = "add" => r.shape.kind = "input" /\ ~IptablesFails

\* room[n] is a distance that n reorders can halve; the first rows have it.
Roomy(room) ==
    /\ room \in [0..MaxRequests -> Nat \ {0}]
    /\ \A n \in 1..MaxRequests : 2 * room[n - 1] <= room[n]
    /\ room[MaxRequests] <= Unit
    /\ \A t \in InitTables : Spaced(t, room[MaxRequests])

\* Requests received that may still move a rule.
Undecided == {w \in Workers : pc[w] \in {"lock", "read", "decide"}}

\* The reorders that may still come.
Left == (MaxRequests - spent.requests) + Cardinality(Undecided)

\* The same rows have a place in the order, and the same place.
Agree(t, u) == Kept(t, u) /\ Kept(u, t)

\* An id given out, of no row that has a place in the order.
NoPlace(t, n, id) == id < n /\ (id \in DOMAIN t => IsBlock(t[id].shape))

\* At place p, with data j: a position is never taken from outside the lock, a row
\* about to be taken back has no place in the order, a decision rests on the order there is.
Steady(p, j, t, n) ==
    /\ p \notin {"max", "insert", "snapshot", "scan", "adopt", "claim", "drop"}
    /\ p \in {"apply", "undo"} =>
          \/ NoPlace(t, n, j.id)
          \/ p = "apply" /\ ~IptablesFails /\ NoDeletes(j.cmds)
    /\ p = "decide" => Agree(j.snap, t)

\* The invariant: all that, and the room for the reorders that may still come.
OrderInv(room) ==
    /\ Inv
    /\ \A w \in Workers : Steady(pc[w], job[w], rules, nextId)
    /\ IsFiniteSet(Undecided) /\ Left \in 0..MaxRequests
    /\ room[Left] <= Unit /\ Spaced(rules, room[Left])

\* What a step of worker w may do to the rows and their order.
MovesRow(w) ==
    \E id \in DOMAIN rules : \E target \in Siblings(rules, id), place \in {"before", "after"} :
        /\ DOMAIN rules' = DOMAIN rules
        /\ \A i \in DOMAIN rules : rules'[i].shape = rules[i].shape
        /\ \A i \in DOMAIN rules \ {id} : rules'[i].pos = rules[i].pos
        /\ rules'[id].pos = ReorderPosition(rules, id, target, place)

\* Rows go, a row comes at the end, or one row moves; only w, under the lock, does that.
Shifts(w) ==
    \/ Kept(rules, rules') /\ (advisory = w \/ Kept(rules', rules))
    \/ /\ advisory = w
       /\ \E row \in Row : row.pos = NextPosition(rules) /\ rules' = With(rules, nextId, row)
    \/ /\ advisory = w /\ w \in Undecided /\ w \notin Undecided'
       /\ MovesRow(w)

\* No id is given out twice, and no row changes its kind.
OldShapes ==
    /\ nextId <= nextId'
    /\ \A i \in DOMAIN rules' :
          i < nextId => i \in DOMAIN rules /\ rules'[i].shape = rules[i].shape

\* What every step of worker w does.
OrderStep(w) ==
    /\ Steady(pc'[w], job'[w], rules', nextId')
    /\ w \in Undecided' => w \in Undecided
    /\ OldShapes
    /\ Shifts(w)

\* Both relations compose.
LEMMA KeptTwice ==
  ASSUME NEW t, NEW u, NEW v, Kept(t, u), Kept(u, v)
  PROVE  Kept(t, v)
BY DEF Kept

\* A table that stays keeps its rows.
LEMMA KeptSame == \A t : Kept(t, t)
BY DEF Kept

\* The room for one reorder less is no more.
LEMMA RoomShrinks ==
  ASSUME NEW room, Roomy(room), MaxRequests \in Nat,
         NEW n \in 0..MaxRequests, NEW m \in 0..MaxRequests, m = n \/ m = n - 1
  PROVE  /\ room[n] \in Nat \ {0} /\ room[m] \in Nat \ {0} /\ room[m] <= room[n]
         /\ m = n - 1 => 2 * room[m] <= room[n]
<1>1. room[n] \in Nat \ {0} /\ room[m] \in Nat \ {0}
  BY DEF Roomy
<1>2. m = n - 1 => 2 * room[m] <= room[n]
  <2>1. m = n - 1 => n \in 1..MaxRequests
    OBVIOUS
  <2> QED
    BY <2>1 DEF Roomy
<1>3. CASE m = n
  BY <1>1, <1>2, <1>3
<1>4. CASE m = n - 1
  BY <1>1, <1>2, <1>4
<1> QED
  BY <1>3, <1>4

\* Such a step keeps the invariant.
LEMMA OrderStepKeeps ==
  ASSUME NEW room, Roomy(room), OrderInv(room), NEW w \in Workers, StepOK(w), OrderStep(w),
         spent'.requests = spent.requests
  PROVE  OrderInv(room)'
<1>1. Inv /\ Inv'
  BY StepKeepsInv DEF OrderInv
<1>2. \A v \in Workers \ {w} : pc'[v] = pc[v] /\ job'[v] = job[v]
  BY <1>1 DEF StepOK, Moves, Inv
<1>3. FiniteTable(rules) /\ nextId \in Nat \ {0} /\ nextId' \in Nat \ {0} /\ nextId \notin DOMAIN rules
  BY <1>1, OfWorker DEF Inv, SharedOK
<1>4. ASSUME NEW v \in Workers
      PROVE  Steady(pc'[v], job'[v], rules', nextId')
  <2>1. CASE v = w
    BY <2>1 DEF OrderStep
  <2>2. CASE v # w
    <3>1. Steady(pc[v], job[v], rules, nextId) /\ IsJob(job[v])
      BY <1>1, OfWorker DEF OrderInv
    <3>2. job[v].id \in Nat
      BY <3>1 DEF IsJob
    <3>3. NoPlace(rules, nextId, job[v].id) => NoPlace(rules', nextId', job[v].id)
      BY <1>3, <3>2 DEF NoPlace, OrderStep, OldShapes
    <3>4. ASSUME pc[v] = "decide"
          PROVE  Agree(job[v].snap, rules')
      <4>1. advisory = v /\ advisory # w
        BY <1>1, <2>2, <3>4, OfWorker DEF Locked
      <4>2. Kept(rules, rules') /\ Kept(rules', rules)
        BY <4>1 DEF OrderStep, Shifts
      <4>3. Agree(job[v].snap, rules)
        BY <3>1, <3>4 DEF Steady
      <4> QED
        BY <4>2, <4>3, KeptTwice DEF Agree
    <3> QED
      BY <1>2, <2>2, <3>1, <3>3, <3>4 DEF Steady
  <2> QED
    BY <2>1, <2>2
<1>5. Undecided' = Undecided \/ (w \in Undecided /\ Undecided' = Undecided \ {w})
  <2>1. \A v \in Workers \ {w} : v \in Undecided' <=> v \in Undecided
    BY <1>2 DEF Undecided
  <2>2. Undecided \subseteq Workers /\ Undecided' \subseteq Workers
    BY DEF Undecided
  <2> QED
    BY <2>1, <2>2 DEF OrderStep
<1>6. IsFiniteSet(Undecided) /\ Cardinality(Undecided) \in Nat
  BY FS_CardinalityType DEF OrderInv
<1>7. IsFiniteSet(Undecided')
  BY <1>5, <1>6, FS_RemoveElement
<1>8. /\ Undecided' = Undecided => Left' = Left
      /\ w \in Undecided /\ Undecided' = Undecided \ {w} => Left' = Left - 1
  <2>0. MaxRequests \in Nat /\ spent.requests \in 0..MaxRequests
    BY <1>1, BoundsAssumption DEF Inv, SharedOK
  <2>1. CASE Undecided' = Undecided
    BY <2>1 DEF Left, OrderStep
  <2>2. CASE w \in Undecided /\ Undecided' = Undecided \ {w}
    <3>1. Cardinality(Undecided') = Cardinality(Undecided) - 1
      BY <1>6, <2>2, FS_RemoveElement
    <3>2. w \notin Undecided'
      BY <2>2
    <3>3. Left' = (MaxRequests - spent.requests) + (Cardinality(Undecided) - 1)
      BY <3>1 DEF Left, OrderStep
    <3> QED
      BY <1>6, <2>0, <2>2, <3>2, <3>3 DEF Left
  <2> QED
    BY <2>1, <2>2
<1>9. Left' \in 0..MaxRequests
  <2>1. Left' \in Nat
    <3>1. MaxRequests \in Nat /\ spent'.requests \in 0..MaxRequests
      BY <1>1, BoundsAssumption DEF Inv, SharedOK
    <3>2. Cardinality(Undecided') \in Nat
      BY <1>7, FS_CardinalityType
    <3> QED
      BY <3>1, <3>2 DEF Left
  <2>2. Left \in 0..MaxRequests /\ MaxRequests \in Nat
    BY BoundsAssumption DEF OrderInv
  <2> QED
    BY <1>5, <1>8, <2>1, <2>2
<1>10. /\ Left' = Left \/ (Left' = Left - 1 /\ 2 * room[Left'] <= room[Left])
       /\ room[Left] \in Nat \ {0} /\ room[Left'] \in Nat \ {0} /\ room[Left'] <= room[Left]
  <2> DEFINE n == Left
             m == Left'
  <2>1. n \in 0..MaxRequests /\ m \in 0..MaxRequests /\ MaxRequests \in Nat /\ (m = n \/ m = n - 1)
    BY <1>5, <1>8, <1>9, BoundsAssumption DEF OrderInv
  <2> HIDE DEF n, m
  <2>2. /\ room[n] \in Nat \ {0} /\ room[m] \in Nat \ {0} /\ room[m] <= room[n]
        /\ m = n - 1 => 2 * room[m] <= room[n]
    BY <2>1, RoomShrinks
  <2> QED
    BY <2>1, <2>2 DEF n, m
<1>11. room[Left] <= Unit
  BY DEF OrderInv
<1>12. Spaced(rules', room[Left'])
  <2> DEFINE g == room[Left]
             h == room[Left']
  <2>0. g \in Nat \ {0} /\ h \in Nat \ {0} /\ h <= g /\ g <= Unit /\ Spaced(rules, g)
    BY <1>10, <1>11 DEF OrderInv
  <2>9. w \in Undecided /\ w \notin Undecided' => 2 * h <= g
    <3>1. w \in Undecided /\ w \notin Undecided' => Left' = Left - 1
      BY <1>5, <1>8
    <3>2. Left \in Int
      BY DEF OrderInv
    <3>3. Left' = Left - 1 => Left' # Left
      BY <3>2
    <3> QED
      BY <1>10, <3>1, <3>3
  <2> HIDE DEF g, h
  <2>1. CASE Kept(rules, rules')
    BY <1>3, <2>0, <2>1, ApartKept DEF h
  <2>2. ASSUME NEW row \in Row, row.pos = NextPosition(rules), rules' = With(rules, nextId, row)
        PROVE  Spaced(rules', h)
    BY <1>3, <2>0, <2>2, ApartAtEnd
  <2>3. CASE w \in Undecided /\ w \notin Undecided' /\ MovesRow(w)
    <3>1. PICK id \in DOMAIN rules :
            \E target \in Siblings(rules, id), place \in {"before", "after"} :
               /\ DOMAIN rules' = DOMAIN rules
               /\ \A i \in DOMAIN rules : rules'[i].shape = rules[i].shape
               /\ \A i \in DOMAIN rules \ {id} : rules'[i].pos = rules[i].pos
               /\ rules'[id].pos = ReorderPosition(rules, id, target, place)
      BY <2>3 DEF MovesRow
    <3>2. PICK target \in Siblings(rules, id), place \in {"before", "after"} :
            /\ DOMAIN rules' = DOMAIN rules
            /\ \A i \in DOMAIN rules : rules'[i].shape = rules[i].shape
            /\ \A i \in DOMAIN rules \ {id} : rules'[i].pos = rules[i].pos
            /\ rules'[id].pos = ReorderPosition(rules, id, target, place)
      BY <3>1
    <3> QED
      BY <1>3, <2>0, <2>3, <2>9, <3>2, Lands DEF h
  <2> QED
    BY <2>1, <2>2, <2>3 DEF OrderStep, Shifts, h
<1>13. room[Left'] <= Unit
  BY <1>10, <1>11, UnitAssumption
<1> QED
  BY <1>1, <1>4, <1>7, <1>9, <1>12, <1>13 DEF OrderInv

-----------------------------------------------------------------------------
(* Each action is such a step. *)

\* What a request that decides knows.
LEMMA Deciders ==
  ASSUME NEW room, OrderInv(room), NEW w \in Workers, pc[w] = "decide"
  PROVE  /\ Inv /\ job[w].req \in Requests /\ FiniteTable(job[w].snap) /\ FiniteTable(rules)
         /\ Agree(job[w].snap, rules) /\ Covers(job[w].snap, rules, nextId)
         /\ nextId \in Nat \ {0} /\ nextId \notin DOMAIN rules
         /\ \A i \in DOMAIN rules : i < nextId
         /\ advisory = w /\ w \in Undecided
<1>1. Inv /\ Steady(pc[w], job[w], rules, nextId)
  BY DEF OrderInv
<1>2. w \in Undecided
  BY DEF Undecided
<1> QED
  BY <1>1, <1>2, OfWorker DEF PlaceOK, Steady, Locked, Inv, SharedOK

\* Places past a decision, where a handler owes the order nothing.
Away == {"idle", "unapply", "enable", "unblock", "sync", "start", "flock", "list", "strip", "fill"}

\* There the invariant asks nothing of the handler.
LEMMA AwayIs ==
  ASSUME Inv, NEW w \in Workers, pc'[w] \in Away
  PROVE  Steady(pc'[w], job'[w], rules', nextId') /\ w \notin Undecided'
BY DEF Away, Steady, Undecided

\* What a change of the table does to the shapes of the rows there were.
LEMMA OldRows ==
  ASSUME Inv
  PROVE  /\ UNCHANGED <<rules, nextId>> => OldShapes
         /\ \A id : rules' = Without(rules, id) /\ nextId' = nextId => OldShapes
         /\ \A row \in Row : rules' = With(rules, nextId, row) /\ nextId' = nextId + 1 => OldShapes
         /\ \A id, row :
               rules' = Updated(rules, id, row) /\ nextId' = nextId
                  /\ (id \in DOMAIN rules => row.shape = rules[id].shape) => OldShapes
<1>0. nextId \in Nat /\ FiniteTable(rules)
  BY DEF Inv, SharedOK
<1>1. UNCHANGED <<rules, nextId>> => OldShapes
  BY <1>0 DEF OldShapes
<1>2. ASSUME NEW id, rules' = Without(rules, id), nextId' = nextId
      PROVE  OldShapes
  BY <1>0, <1>2 DEF OldShapes, Without
<1>3. ASSUME NEW row \in Row, rules' = With(rules, nextId, row), nextId' = nextId + 1
      PROVE  OldShapes
  <2>1. \A i \in DOMAIN rules' : i \in DOMAIN rules \/ i = nextId
    BY <1>3 DEF With
  <2>2. \A i \in DOMAIN rules : i # nextId => rules'[i] = rules[i]
    BY <1>3 DEF With
  <2>3. ~(nextId < nextId) /\ nextId <= nextId'
    BY <1>0, <1>3
  <2> QED
    BY <2>1, <2>2, <2>3 DEF OldShapes
<1>4. ASSUME NEW id, NEW row, rules' = Updated(rules, id, row), nextId' = nextId,
             id \in DOMAIN rules => row.shape = rules[id].shape
      PROVE  OldShapes
  <2>1. DOMAIN rules' = DOMAIN rules
    BY <1>4 DEF Updated, With
  <2>2. \A i \in DOMAIN rules : rules'[i].shape = rules[i].shape
    BY <1>4 DEF Updated, With
  <2> QED
    BY <1>0, <1>4, <2>1, <2>2 DEF OldShapes
<1> QED
  BY <1>1, <1>2, <1>3, <1>4

\* A step that leaves the table alone.
LEMMA OrderQuiet ==
  ASSUME Inv, NEW w \in Workers, UNCHANGED <<rules, nextId>>,
         Steady(pc'[w], job'[w], rules', nextId'), w \in Undecided' => w \in Undecided
  PROVE  OrderStep(w)
<1>1. Shifts(w)
  BY KeptSame DEF Shifts
<1> QED
  BY <1>1, OldRows DEF OrderStep

\* A request that is declined leaves the table alone.
LEMMA OrderDecline ==
  ASSUME Inv, NEW w \in Workers, Decline(w)
  PROVE  OrderStep(w)
<1>1. UNCHANGED <<rules, nextId>> /\ pc'[w] \in Away
  BY Goes DEF Decline, Away
<1> QED
  BY <1>1, AwayIs, OrderQuiet

\* A change of a row's other fields, or its deletion, under the lock.
LEMMA OrderCommit ==
  ASSUME NEW room, OrderInv(room), NEW w \in Workers, pc[w] = "decide", UNCHANGED nextId,
         NEW p \in Away, NEW j, NEW t, Commit(w, t, p, j), Kept(rules, t), OldShapes
  PROVE  OrderStep(w)
<1>1. rules' = t /\ pc'[w] = p /\ advisory = w /\ Inv
  BY Deciders, Goes DEF Commit
<1>2. Shifts(w)
  BY <1>1 DEF Shifts
<1> QED
  BY <1>1, <1>2, AwayIs DEF OrderStep

\* An update of fields that the order does not depend on.
LEMMA OrderUpdate ==
  ASSUME NEW room, OrderInv(room), NEW w \in Workers, pc[w] = "decide", UNCHANGED nextId,
         NEW id \in DOMAIN job[w].snap, NEW row,
         row.shape = job[w].snap[id].shape, row.pos = job[w].snap[id].pos,
         NEW p \in Away, NEW j, Commit(w, Updated(rules, id, row), p, j)
  PROVE  OrderStep(w)
<1> DEFINE u == Updated(rules, id, row)
           t == job[w].snap
<1>1. Inv /\ Agree(t, rules) /\ Covers(t, rules, nextId)
  BY Deciders
<1>2. rules' = u
  BY DEF Commit
<1>3. id \in DOMAIN rules => row.shape = rules[id].shape
  BY <1>1 DEF Covers
<1>4. OldShapes
  BY <1>1, <1>2, <1>3, OldRows
<1>5. Kept(rules, u)
  <2>1. DOMAIN u = DOMAIN rules /\ (id \in DOMAIN rules => u[id] = row)
          /\ \A i \in DOMAIN rules \ {id} : u[i] = rules[i]
    BY DEF Updated, With
  <2>2. id \in DOMAIN rules => IsBlock(row.shape) \/ row.pos = rules[id].pos
    <3>1. id \in DOMAIN rules => IsBlock(rules[id].shape) \/ rules[id].pos = t[id].pos
      BY <1>1 DEF Agree, Kept
    <3> QED
      BY <1>3, <3>1
  <2> HIDE DEF u
  <2> QED
    BY <1>3, <2>1, <2>2 DEF Kept
<1> QED
  BY <1>4, <1>5, OrderCommit

\* toggle_rule changes the flag.
LEMMA OrderToggle ==
  ASSUME NEW room, OrderInv(room), NEW w \in Workers, Toggle(w)
  PROVE  OrderStep(w)
<1> DEFINE id  == job[w].req.id
           t   == job[w].snap
           upd == [t[id] EXCEPT !.enabled = ~t[id].enabled]
<1>1. pc[w] = "decide"
  BY DEF Toggle, Deciding
<1>2. CASE Decline(w)
  BY <1>2, OrderDecline DEF OrderInv
<1>3. \/ Decline(w)
      \/ /\ id \in DOMAIN t /\ UNCHANGED nextId
         /\ \E p \in {"flock", "enable", "unapply"} : \E j : Commit(w, Updated(rules, id, upd), p, j)
  BY DEF Toggle
<1>4. ASSUME id \in DOMAIN t, UNCHANGED nextId, NEW p \in {"flock", "enable", "unapply"}, NEW j,
             Commit(w, Updated(rules, id, upd), p, j)
      PROVE  OrderStep(w)
  <2>1. t[id] \in Row
    BY <1>1, <1>4, Deciders DEF FiniteTable, IsTable
  <2>2. upd.shape = t[id].shape /\ upd.pos = t[id].pos
    BY <2>1 DEF Row
  <2>3. p \in Away
    BY DEF Away
  <2> HIDE DEF upd
  <2> QED
    BY <1>1, <1>4, <2>2, <2>3, OrderUpdate
<1> HIDE DEF upd
<1> QED
  BY <1>2, <1>3, <1>4

\* So does disable_rule.
LEMMA OrderDisable ==
  ASSUME NEW room, OrderInv(room), NEW w \in Workers, Disable(w)
  PROVE  OrderStep(w)
<1> DEFINE id  == job[w].req.id
           t   == job[w].snap
           upd == [t[id] EXCEPT !.enabled = FALSE]
<1>1. pc[w] = "decide"
  BY DEF Disable, TakeOut, Deciding
<1>2. CASE Decline(w)
  BY <1>2, OrderDecline DEF OrderInv
<1>3. \/ Decline(w)
      \/ /\ id \in DOMAIN t /\ UNCHANGED nextId
         /\ \E j : Commit(w, Updated(rules, id, upd), "unapply", j)
  BY DEF Disable, TakeOut
<1>4. ASSUME id \in DOMAIN t, UNCHANGED nextId, NEW j, Commit(w, Updated(rules, id, upd), "unapply", j)
      PROVE  OrderStep(w)
  <2>1. t[id] \in Row
    BY <1>1, <1>4, Deciders DEF FiniteTable, IsTable
  <2>2. upd.shape = t[id].shape /\ upd.pos = t[id].pos
    BY <2>1 DEF Row
  <2>3. "unapply" \in Away
    BY DEF Away
  <2> HIDE DEF upd
  <2> QED
    BY <1>1, <1>4, <2>2, <2>3, OrderUpdate
<1> HIDE DEF upd
<1> QED
  BY <1>2, <1>3, <1>4

\* A deletion leaves the other rows where they are.
LEMMA OrderDelete ==
  ASSUME NEW room, OrderInv(room), NEW w \in Workers, Delete(w)
  PROVE  OrderStep(w)
<1> DEFINE id == job[w].req.id
<1>1. pc[w] = "decide" /\ Inv
  BY DEF Delete, TakeOut, Deciding, OrderInv
<1>2. CASE Decline(w)
  BY <1>1, <1>2, OrderDecline
<1>3. \/ Decline(w)
      \/ UNCHANGED nextId /\ \E j : Commit(w, Without(rules, id), "unapply", j)
  BY DEF Delete, TakeOut
<1>4. ASSUME UNCHANGED nextId, NEW j, Commit(w, Without(rules, id), "unapply", j)
      PROVE  OrderStep(w)
  <2>1. Kept(rules, Without(rules, id))
    BY DEF Kept, Without
  <2>2. OldShapes
    BY <1>1, <1>4, OldRows DEF Commit
  <2>3. "unapply" \in Away
    BY DEF Away
  <2> QED
    BY <1>1, <1>4, <2>1, <2>2, <2>3, OrderCommit
<1> QED
  BY <1>2, <1>3, <1>4

\* A row inserted under the lock goes to the end.
LEMMA OrderInsert ==
  ASSUME NEW room, OrderInv(room), NEW w \in Workers, pc[w] = "decide", NEW shape \in Shape,
         shape.kind # "other", IsBlock(shape) \/ ~IptablesFails, CommitInsert(w, shape)
  PROVE  OrderStep(w)
<1> DEFINE row == [shape |-> shape, enabled |-> TRUE, pos |-> NextPosition(rules)]
           j == [job[w] EXCEPT !.id = nextId, !.cmds = Apply(nextId, shape)]
<1>1. Inv /\ advisory = w /\ FiniteTable(rules) /\ nextId \in Nat \ {0} /\ nextId \notin DOMAIN rules
  BY Deciders
<1>2. /\ rules' = With(rules, nextId, row) /\ nextId' = nextId + 1
      /\ pc'[w] = "apply" /\ job'[w] = j
  BY <1>1, Goes DEF CommitInsert, Commit
<1>3. j.id = nextId /\ j.cmds = Apply(nextId, shape)
  BY <1>1, OfWorker DEF IsJob, NoJob
<1>4. row \in Row /\ row.pos = NextPosition(rules) /\ row.shape = shape
  BY <1>1, NextPositionLast DEF Row
<1> HIDE DEF row, j
<1>5. Shifts(w)
  BY <1>1, <1>2, <1>4 DEF Shifts
<1>6. OldShapes
  BY <1>1, <1>2, <1>4, OldRows
<1>7. IsBlock(shape) => NoPlace(rules', nextId', nextId)
  <2>1. rules'[nextId] = row
    BY <1>2 DEF With
  <2> QED
    BY <1>1, <1>2, <1>4, <2>1 DEF NoPlace
<1>8. NoDeletes(Apply(nextId, shape))
  BY ApplyAdds
<1>9. Steady(pc'[w], job'[w], rules', nextId')
  BY <1>2, <1>3, <1>7, <1>8 DEF Steady
<1> QED
  BY <1>2, <1>5, <1>6, <1>9 DEF OrderStep, Undecided

\* add_rule inserts an INPUT rule at the end, with the position after the last.
LEMMA OrderAdds ==
  ASSUME NEW room, OrderByRequest, OrderInv(room), NEW w \in Workers, AddInput(w) \/ Block(w)
  PROVE  OrderStep(w)
<1>1. pc[w] = "decide" /\ Inv
  BY DEF AddInput, Block, Deciding, OrderInv
<1>2. CASE Decline(w)
  BY <1>1, <1>2, OrderDecline
<1>3. CASE AddInput(w) /\ ~Decline(w)
  <2>1. job[w].req.op = "add" /\ CommitInsert(w, job[w].req.shape)
    BY <1>3 DEF AddInput, Deciding
  <2>2. job[w].req \in Requests
    BY <1>1, Deciders
  <2>3. /\ job[w].req.shape \in Shape /\ job[w].req.shape.kind # "other"
        /\ ~IptablesFails
    BY <2>1, <2>2, RequestsAssumption DEF OrderByRequest, Request
  <2> QED
    BY <1>1, <2>1, <2>3, OrderInsert
<1>4. CASE Block(w) /\ ~Decline(w)
  <2>1. job[w].req.op = "block" /\ CommitInsert(w, job[w].req.shape)
    BY <1>4 DEF Block, Deciding
  <2>2. job[w].req \in Requests
    BY <1>1, Deciders
  <2>3. job[w].req.shape \in Shape /\ IsBlock(job[w].req.shape)
    BY <2>1, <2>2, RequestsAssumption DEF Request
  <2>4. job[w].req.shape.kind # "other"
    BY <2>3 DEF IsBlock
  <2> QED
    BY <1>1, <2>1, <2>3, <2>4, OrderInsert
<1> QED
  BY <1>2, <1>3, <1>4

\* Where the snapshot agrees with the table, so does a position it yields.
LEMMA SamePosition ==
  ASSUME NEW t, NEW u, Agree(t, u), NEW id \in DOMAIN t, NEW target \in Siblings(t, id), NEW place
  PROVE  /\ id \in DOMAIN u /\ u[id].shape = t[id].shape /\ u[id].pos = t[id].pos
         /\ target \in Siblings(u, id)
         /\ ReorderPosition(u, id, target, place) = ReorderPosition(t, id, target, place)
<1>1. \A i \in DOMAIN t : ~IsBlock(t[i].shape) =>
         i \in DOMAIN u /\ u[i].shape = t[i].shape /\ u[i].pos = t[i].pos
  <2> SUFFICES ASSUME NEW i \in DOMAIN t, ~IsBlock(t[i].shape)
               PROVE  i \in DOMAIN u /\ u[i].shape = t[i].shape /\ u[i].pos = t[i].pos
    OBVIOUS
  <2> QED
    BY DEF Agree, Kept
<1>2. \A i \in DOMAIN u : ~IsBlock(u[i].shape) =>
         i \in DOMAIN t /\ u[i].shape = t[i].shape /\ u[i].pos = t[i].pos
  BY DEF Agree, Kept
<1>3. ~IsBlock(t[id].shape) /\ target \in DOMAIN t /\ ~IsBlock(t[target].shape)
  BY BlocksApart DEF Siblings
<1>4. id \in DOMAIN u /\ u[id].shape = t[id].shape /\ u[id].pos = t[id].pos
      /\ u[target].pos = t[target].pos
  BY <1>1, <1>3
<1>5. Siblings(u, id) = Siblings(t, id)
  <2>1. ASSUME NEW i \in Siblings(t, id)
        PROVE  i \in Siblings(u, id)
    <3>1. i \in DOMAIN t /\ i # id /\ ~IsBlock(t[i].shape)
      BY BlocksApart DEF Siblings
    <3>2. i \in DOMAIN u /\ u[i].shape = t[i].shape
      BY <1>1, <3>1
    <3> QED
      BY <1>4, <3>1, <3>2 DEF Siblings, InChain
  <2>2. ASSUME NEW i \in Siblings(u, id)
        PROVE  i \in Siblings(t, id)
    <3>1. i \in DOMAIN u /\ i # id /\ ~IsBlock(u[i].shape)
      BY BlocksApart DEF Siblings
    <3>2. i \in DOMAIN t /\ u[i].shape = t[i].shape
      BY <1>2, <3>1
    <3> QED
      BY <1>4, <3>1, <3>2 DEF Siblings, InChain
  <2> QED
    BY <2>1, <2>2
<1>6. \A i \in Siblings(t, id) : u[i].pos = t[i].pos
  <2> SUFFICES ASSUME NEW i \in Siblings(t, id)
               PROVE  u[i].pos = t[i].pos
    OBVIOUS
  <2>1. i \in DOMAIN t /\ ~IsBlock(t[i].shape)
    BY BlocksApart DEF Siblings
  <2> QED
    BY <1>1, <2>1
<1>7. /\ {i \in Siblings(u, id) : Before(u, i, target)} = {i \in Siblings(t, id) : Before(t, i, target)}
      /\ {i \in Siblings(u, id) : Before(u, target, i)} = {i \in Siblings(t, id) : Before(t, target, i)}
  BY <1>4, <1>5, <1>6 DEF Before
<1> DEFINE below == {i \in Siblings(t, id) : Before(t, i, target)}
           above == {i \in Siblings(t, id) : Before(t, target, i)}
<1>8. {u[i].pos : i \in below} = {t[i].pos : i \in below}
        /\ {u[i].pos : i \in above} = {t[i].pos : i \in above}
  BY <1>6
<1>9. ReorderPosition(u, id, target, place) = ReorderPosition(t, id, target, place)
  BY <1>4, <1>7, <1>8 DEF ReorderPosition
<1> QED
  BY <1>4, <1>5, <1>9

\* reorder_rule moves one row, to the position computed from the rows there are.
LEMMA MovesOne ==
  ASSUME NEW room, OrderInv(room), NEW w \in Workers, Reorder(w), ~Decline(w)
  PROVE  LET r == job[w].req
         IN  /\ r.id \in DOMAIN rules /\ r.target \in Siblings(rules, r.id)
             /\ r.place \in {"before", "after"}
             /\ DOMAIN rules' = DOMAIN rules
             /\ \A i \in DOMAIN rules : rules'[i].shape = rules[i].shape
             /\ \A i \in DOMAIN rules \ {r.id} : rules'[i].pos = rules[i].pos
             /\ rules'[r.id].pos = ReorderPosition(rules, r.id, r.target, r.place)
             /\ pc'[w] = "flock" /\ OldShapes
<1> DEFINE r == job[w].req
           t == job[w].snap
           p == ReorderPosition(t, r.id, r.target, r.place)
           moved == [t[r.id] EXCEPT !.pos = p]
<1>1. pc[w] = "decide" /\ r.op = "reorder" /\ Inv /\ FiniteTable(t) /\ FiniteTable(rules)
        /\ Agree(t, rules) /\ r \in Requests
  BY Deciders DEF Reorder, Deciding
<1>2. /\ r.id \in DOMAIN t /\ r.target \in Siblings(t, r.id)
      /\ nextId' = nextId /\ rules' = Updated(rules, r.id, moved) /\ pc'[w] = "flock"
  BY <1>1, Goes DEF Reorder, Commit
<1>3. r.place \in {"before", "after"}
  BY <1>1, RequestsAssumption DEF Request
<1>4. moved.pos = p /\ moved.shape = t[r.id].shape
  <2>1. t[r.id] \in Row
    BY <1>1, <1>2 DEF FiniteTable, IsTable
  <2> QED
    BY <2>1 DEF Row
<1>5. /\ r.id \in DOMAIN rules /\ rules[r.id].shape = t[r.id].shape
      /\ r.target \in Siblings(rules, r.id)
      /\ ReorderPosition(rules, r.id, r.target, r.place) = p
  <2> HIDE DEF r, t
  <2> QED
    BY <1>1, <1>2, SamePosition DEF p
<1> HIDE DEF moved, p
<1>6. /\ DOMAIN rules' = DOMAIN rules /\ rules'[r.id] = moved
      /\ \A i \in DOMAIN rules \ {r.id} : rules'[i] = rules[i]
  BY <1>2, <1>5 DEF Updated, With
<1>7. OldShapes
  <2>1. r.id \in DOMAIN rules => moved.shape = rules[r.id].shape
    BY <1>4, <1>5
  <2> QED
    BY <1>1, <1>2, <2>1, OldRows
<1>8. \A i \in DOMAIN rules : rules'[i].shape = rules[i].shape
  BY <1>4, <1>5, <1>6
<1>9. rules'[r.id].pos = ReorderPosition(rules, r.id, r.target, r.place)
  BY <1>4, <1>5, <1>6
<1> QED
  BY <1>2, <1>3, <1>5, <1>6, <1>7, <1>8, <1>9

\* That move is the step that spends room.
LEMMA OrderMoves ==
  ASSUME NEW room, OrderInv(room), NEW w \in Workers, Reorder(w)
  PROVE  OrderStep(w)
<1>1. Inv /\ advisory = w /\ w \in Undecided
  BY Deciders DEF Reorder, Deciding
<1>2. CASE Decline(w)
  BY <1>1, <1>2, OrderDecline
<1>3. CASE ~Decline(w)
  <2>1. MovesRow(w) /\ OldShapes /\ pc'[w] = "flock"
    BY <1>3, MovesOne DEF MovesRow
  <2>2. Steady(pc'[w], job'[w], rules', nextId') /\ w \notin Undecided'
    BY <1>1, <2>1, AwayIs DEF Away
  <2> QED
    BY <1>1, <2>1, <2>2 DEF OrderStep, Shifts
<1> QED
  BY <1>2, <1>3

\* The transaction's other steps.
LEMMA OrderLocks ==
  ASSUME NEW room, OrderInv(room), NEW w \in Workers,
         Lock(w) \/ LockTimeout(w) \/ Read(w) \/ Unblock(w) \/ UnblockCommit(w)
  PROVE  OrderStep(w)
<1>1. Inv
  BY DEF OrderInv
<1>2. CASE Lock(w)
  <2>1. pc[w] = "lock" /\ pc'[w] = "read" /\ UNCHANGED <<rules, nextId>>
    BY <1>1, <1>2, Goes DEF Lock
  <2>2. Steady(pc'[w], job'[w], rules', nextId') /\ w \in Undecided
    BY <2>1 DEF Steady, Undecided
  <2> QED
    BY <1>1, <2>1, <2>2, OrderQuiet
<1>3. CASE LockTimeout(w)
  <2>1. pc'[w] \in Away /\ UNCHANGED <<rules, nextId>>
    BY <1>1, <1>3, Goes DEF LockTimeout, Away
  <2> QED
    BY <1>1, <2>1, AwayIs, OrderQuiet
<1>4. CASE Read(w)
  <2>1. pc[w] = "read" /\ pc'[w] = "decide" /\ UNCHANGED <<rules, nextId>>
    BY <1>1, <1>4, Goes DEF Read
  <2>2. job'[w].snap = rules
    BY <1>1, <1>4, OfWorker DEF Read, IsJob, NoJob, Inv
  <2>3. Agree(rules, rules)
    BY KeptSame DEF Agree
  <2>4. Steady(pc'[w], job'[w], rules', nextId') /\ w \in Undecided
    BY <2>1, <2>2, <2>3 DEF Steady, Undecided
  <2> QED
    BY <1>1, <2>1, <2>4, OrderQuiet
<1>5. CASE Unblock(w) /\ ~Decline(w)
  <2>1. pc'[w] = "unblock" /\ UNCHANGED <<rules, nextId>>
    BY <1>1, <1>5, Goes DEF Unblock
  <2>2. pc'[w] \in Away
    BY <2>1 DEF Away
  <2> QED
    BY <1>1, <2>1, <2>2, AwayIs, OrderQuiet
<1>6. CASE Decline(w)
  BY <1>1, <1>6, OrderDecline
<1>7. CASE UnblockCommit(w)
  <2>1. /\ pc[w] = "unblock" /\ pc'[w] \in Away
        /\ rules' = Without(rules, job[w].id) /\ nextId' = nextId
    BY <1>1, <1>7, Goes DEF UnblockCommit, Away
  <2>2. advisory = w
    BY <1>1, <2>1, OfWorker DEF Locked
  <2>3. Kept(rules, rules')
    BY <2>1 DEF Kept, Without
  <2>4. OldShapes
    BY <1>1, <2>1, OldRows
  <2> QED
    BY <1>1, <2>1, <2>2, <2>3, <2>4, AwayIs DEF OrderStep, Shifts
<1> QED
  BY <1>2, <1>3, <1>4, <1>5, <1>6, <1>7

\* Commands, and the row that a failed one takes back: a block's.
LEMMA OrderCommands ==
  ASSUME NEW room, OrderInv(room), NEW w \in Workers, Commands(w)
  PROVE  OrderStep(w)
<1>1. Inv /\ Steady(pc[w], job[w], rules, nextId) /\ IsJob(job[w])
  BY OfWorker DEF OrderInv
<1>2. CASE Applied(w)
  <2>1. pc'[w] \in Away /\ UNCHANGED <<rules, nextId>>
    BY <1>1, <1>2, Goes DEF Applied, Away
  <2> QED
    BY <1>1, <2>1, AwayIs, OrderQuiet
<1>3. CASE Undo(w)
  <2>1. /\ pc[w] = "undo" /\ pc'[w] \in Away
        /\ rules' = Without(rules, job[w].id) /\ nextId' = nextId
    BY <1>1, <1>3, Goes DEF Undo, Away
  <2>2. job[w].id \in DOMAIN rules => IsBlock(rules[job[w].id].shape)
    BY <1>1, <2>1 DEF Steady, NoPlace
  <2>3. Kept(rules, rules') /\ Kept(rules', rules)
    BY <2>1, <2>2 DEF Kept, Without
  <2>4. OldShapes
    BY <1>1, <2>1, OldRows
  <2> QED
    BY <1>1, <2>1, <2>3, <2>4, AwayIs DEF OrderStep, Shifts
<1>4. CASE RunCommand(w)
  <2>1. /\ pc[w] \in Running /\ pc'[w] = pc[w] /\ UNCHANGED <<rules, nextId>>
        /\ job[w].cmds # <<>> /\ job[w].cmds \in Seq(Command)
    BY <1>1, <1>4 DEF RunCommand, IsJob
  <2>2. job'[w].id = job[w].id /\ job'[w].cmds = Tail(job[w].cmds)
    BY <1>1, <1>4 DEF RunCommand, IsJob, NoJob, Inv
  <2>3. NoDeletes(job[w].cmds) => NoDeletes(Tail(job[w].cmds))
    <3> DEFINE s == job[w].cmds
    <3>1. s \in Seq(Command) /\ s # <<>>
      BY <2>1
    <3> HIDE DEF s
    <3>2. Len(Tail(s)) = Len(s) - 1 /\ \A k \in 1..Len(s) - 1 : Tail(s)[k] = s[k + 1]
      BY <3>1
    <3>3. \A k \in 1..Len(s) - 1 : k + 1 \in 1..Len(s)
      BY <3>1
    <3> QED
      BY <3>2, <3>3 DEF NoDeletes, s
  <2>4. Steady(pc'[w], job'[w], rules', nextId')
    <3>1. pc[w] \notin {"undo", "decide"}
      BY <2>1 DEF Running
    <3> QED
      BY <1>1, <2>1, <2>2, <2>3, <3>1 DEF Steady
  <2>5. w \notin Undecided'
    BY <2>1 DEF Running, Undecided
  <2> QED
    BY <1>1, <2>1, <2>4, <2>5, OrderQuiet
<1>5. CASE FailCommand(w)
  <2>1. UNCHANGED <<rules, nextId>> /\ job[w].cmds # <<>>
          /\ (~Executable(Head(job[w].cmds)) \/ IptablesFails)
    BY <1>5 DEF FailCommand
  <2>2. CASE pc[w] = "apply"
    <3>1. pc'[w] = "undo" /\ job'[w].id = job[w].id
      BY <1>1, <1>5, <2>2, Goes DEF FailCommand, IsJob, NoJob, Inv
    <3>2. NoPlace(rules, nextId, job[w].id)
      <4>1. 1 \in 1..Len(job[w].cmds)
        BY <1>1, <2>1 DEF IsJob
      <4>2. NoDeletes(job[w].cmds) => Head(job[w].cmds).op # "-D"
        BY <1>1, <2>1, <4>1 DEF NoDeletes, IsJob
      <4> QED
        BY <1>1, <2>1, <2>2, <4>2 DEF Steady, Executable
    <3>3. Steady(pc'[w], job'[w], rules', nextId') /\ w \notin Undecided'
      BY <2>1, <3>1, <3>2 DEF Steady, Undecided
    <3> QED
      BY <1>1, <2>1, <3>3, OrderQuiet
  <2>3. CASE pc[w] # "apply"
    <3>1. pc'[w] \in {"unapply", "sync", "idle", "flock"}
      BY <1>1, <1>5, <2>3, Goes DEF FailCommand, AbortRebuild
    <3>2. pc'[w] \in Away
      BY <3>1 DEF Away
    <3> QED
      BY <1>1, <2>1, <3>2, AwayIs, OrderQuiet
  <2> QED
    BY <2>2, <2>3
<1> QED
  BY <1>2, <1>3, <1>4, <1>5 DEF Commands

\* A rebuild runs commands and reads rows: it changes none.
LEMMA OrderRebuild ==
  ASSUME OrderByRequest, NEW room, OrderInv(room), NEW w \in Workers, Rebuild(w)
  PROVE  OrderStep(w)
<1>1. Inv
  BY DEF OrderInv
<1>2. UNCHANGED <<rules, nextId>>
  BY DEF Rebuild, SyncStart, SyncBlocksDone, TakeFlock, ListChain, ListFails, ReloadRules,
         ChainRebuilt
<1>3. CASE TakeFlock(w)
  <2>1. pc[w] = "flock"
    BY <1>3 DEF TakeFlock
  <2>2. job[w].req \in Requests
    BY <1>1, <2>1, OfWorker DEF PlaceOK
  <2>3. pc'[w] = "list"
    BY <1>1, <1>3, <2>2, Goes DEF TakeFlock, OrderByRequest
  <2>4. pc'[w] \in Away
    BY <2>3 DEF Away
  <2> QED
    BY <1>1, <1>2, <2>4, AwayIs, OrderQuiet
<1>4. CASE ~TakeFlock(w)
  <2>1. \/ Finish(w)
        \/ \E p \in {"sync", "flock", "strip", "fill", "list"} : Goto(w, p)
    BY <1>4 DEF Rebuild, SyncStart, SyncBlocksDone, ListChain, ListFails, ReloadRules,
                ChainRebuilt, AbortRebuild
  <2>2. pc'[w] \in Away
    BY <1>1, <2>1, Goes DEF Away
  <2> QED
    BY <1>1, <1>2, <2>2, AwayIs, OrderQuiet
<1> QED
  BY <1>3, <1>4

\* All of a worker's steps.
LEMMA EveryOrderStep ==
  ASSUME OrderByRequest, NEW room, OrderInv(room), NEW w \in Workers, Step(w)
  PROVE  OrderStep(w)
<1>1. pc[w] \notin {"max", "insert", "snapshot", "scan", "adopt", "claim", "drop"}
  BY DEF OrderInv, Steady
<1>2. ~UnlockedInsert(w) /\ ~Discovery(w)
  BY <1>1 DEF UnlockedInsert, ReadMax, Insert, Discovery, Snapshot, ScanChain, ScanFails, Adopt,
              Claim, DropAdopted, ChainScanned, AllScanned
<1>3. CASE Transaction(w)
  BY <1>3, OrderLocks, OrderAdds, OrderToggle, OrderDisable, OrderDelete, OrderMoves DEF Transaction
<1> QED
  BY <1>2, <1>3, OrderCommands, OrderRebuild DEF Step

\* A request that comes in takes from the reorders that may still come.
LEMMA OrderReceive ==
  ASSUME OrderByRequest, NEW room, Roomy(room), OrderInv(room),
         NEW w \in Workers, NEW r \in Requests, Receive(w, r)
  PROVE  OrderInv(room)'
<1>1. Inv /\ Inv'
  BY ReceiveStep, StepKeepsInv DEF OrderInv
<1>2. /\ UNCHANGED <<rules, nextId>> /\ pc[w] = "idle" /\ spent.requests < MaxRequests
      /\ \A v \in Workers \ {w} : pc'[v] = pc[v] /\ job'[v] = job[v]
      /\ spent'.requests = spent.requests + 1
  <2>1. spent \in [requests : 0..MaxRequests, manual : 0..MaxManual,
                   losses : 0..MaxLosses, crashes : 0..MaxCrashes]
    BY <1>1 DEF Inv, SharedOK
  <2>2. spent'.requests = spent.requests + 1
    BY <2>1 DEF Receive
  <2> QED
    BY <1>1, <2>2 DEF Receive, Goto, Inv
<1>3. pc'[w] \in {"lock", "start"}
  BY <1>1, Goes DEF Receive, EntryPlace, OrderByRequest
<1>4. \A v \in Workers : Steady(pc'[v], job'[v], rules', nextId')
  <2>1. Steady(pc'[w], job'[w], rules', nextId')
    BY <1>3 DEF Steady
  <2>2. \A v \in Workers \ {w} : Steady(pc'[v], job'[v], rules', nextId')
    BY <1>2 DEF OrderInv
  <2> QED
    BY <2>1, <2>2
<1>5. w \notin Undecided /\ (Undecided' = Undecided \/ Undecided' = Undecided \cup {w})
  <2>1. w \notin Undecided
    BY <1>2 DEF Undecided
  <2>2. \A v \in Workers \ {w} : v \in Undecided' <=> v \in Undecided
    BY <1>2 DEF Undecided
  <2>3. Undecided \subseteq Workers /\ Undecided' \subseteq Workers
    BY DEF Undecided
  <2> QED
    BY <2>1, <2>2, <2>3
<1>6. IsFiniteSet(Undecided) /\ Cardinality(Undecided) \in Nat
  BY FS_CardinalityType DEF OrderInv
<1>7. /\ IsFiniteSet(Undecided')
      /\ \/ Cardinality(Undecided') = Cardinality(Undecided)
         \/ Cardinality(Undecided') = Cardinality(Undecided) + 1
  <2>1. CASE Undecided' = Undecided
    BY <1>6, <2>1
  <2>2. CASE Undecided' = Undecided \cup {w}
    BY <1>5, <1>6, <2>2, FS_AddElement
  <2> QED
    BY <1>5, <2>1, <2>2
<1>8. MaxRequests \in Nat /\ spent.requests \in 0..MaxRequests
  BY <1>1, BoundsAssumption DEF Inv, SharedOK
<1> DEFINE n == Left
           m == Left'
<1>9. n \in 0..MaxRequests /\ m \in 0..MaxRequests /\ (m = n \/ m = n - 1)
  <2> DEFINE c == Cardinality(Undecided)
             d == Cardinality(Undecided')
  <2>1. n = (MaxRequests - spent.requests) + c
    BY DEF Left
  <2>2. m = (MaxRequests - (spent.requests + 1)) + d
    BY <1>2 DEF Left
  <2>3. n \in 0..MaxRequests
    BY DEF OrderInv
  <2>4. c \in Nat /\ (d = c \/ d = c + 1)
    BY <1>6, <1>7
  <2> HIDE DEF n, m, c, d
  <2> QED
    BY <1>2, <1>8, <2>1, <2>2, <2>3, <2>4
<1>10. room[n] <= Unit /\ Spaced(rules, room[n])
  BY DEF OrderInv
<1> HIDE DEF n, m
<1>11. /\ room[n] \in Nat \ {0} /\ room[m] \in Nat \ {0} /\ room[m] <= room[n]
  BY <1>8, <1>9, RoomShrinks
<1>12. room[m] <= Unit /\ Spaced(rules', room[m])
  <2>1. Spaced(rules, room[m])
    BY <1>1, <1>10, <1>11, KeptSame, ApartKept, OfWorker
  <2> QED
    BY <1>2, <1>10, <1>11, <2>1, UnitAssumption
<1> QED
  BY <1>1, <1>4, <1>7, <1>9, <1>12 DEF OrderInv, m

\* The invariant is inductive.
LEMMA OrderNext ==
  ASSUME OrderByRequest, NEW room, Roomy(room)
  PROVE  OrderInv(room) /\ [Next]_vars => OrderInv(room)'
<1> SUFFICES ASSUME OrderInv(room), [Next]_vars
             PROVE  OrderInv(room)'
  OBVIOUS
<1>1. Inv /\ Inv'
  BY NextInv DEF OrderInv
<1>2. ASSUME NEW w \in Workers, Step(w)
      PROVE  OrderInv(room)'
  BY <1>1, <1>2, EveryStepOK, EveryOrderStep, StepSpends, OrderStepKeeps
<1>3. ASSUME NEW w \in Workers, NEW r \in Requests, Receive(w, r)
      PROVE  OrderInv(room)'
  BY <1>3, OrderReceive
<1>4. ASSUME NEW w \in Workers, Crash(w)
      PROVE  OrderInv(room)'
  <2>1. UNCHANGED <<rules, nextId>> /\ pc'[w] \in Away
    BY <1>1, <1>4, Goes DEF Crash, Away
  <2>2. OrderStep(w)
    BY <1>1, <2>1, AwayIs, OrderQuiet
  <2>3. spent'.requests = spent.requests
    <3>1. spent \in [requests : 0..MaxRequests, manual : 0..MaxManual,
                     losses : 0..MaxLosses, crashes : 0..MaxCrashes]
      BY <1>1 DEF Inv, SharedOK
    <3> QED
      BY <1>4, <3>1 DEF Crash
  <2> QED
    BY <1>1, <1>4, <2>2, <2>3, CrashStep, OrderStepKeeps
<1>5. CASE UNCHANGED <<rules, nextId, pc, job>> /\ spent'.requests = spent.requests
  BY <1>1, <1>5 DEF OrderInv, Left, Undecided
<1>6. CASE UNCHANGED vars
  BY <1>5, <1>6 DEF vars
<1>7. CASE Environment /\ ~(\E w \in Workers : Crash(w) \/ \E r \in Requests : Receive(w, r))
  <2>1. spent \in [requests : 0..MaxRequests, manual : 0..MaxManual,
                   losses : 0..MaxLosses, crashes : 0..MaxCrashes]
    BY <1>1 DEF Inv, SharedOK
  <2>2. UNCHANGED <<rules, nextId, pc, job>> /\ spent'.requests = spent.requests
    BY <1>7, <2>1 DEF Environment, ManualAppend, ManualDelete, Flush
  <2> QED
    BY <1>5, <2>2
<1> QED
  BY <1>2, <1>3, <1>4, <1>6, <1>7 DEF Next, Environment

\* It holds at the start: no request has been received.
LEMMA OrderInit ==
  ASSUME NEW room, Roomy(room)
  PROVE  Init => OrderInv(room)
<1> SUFFICES ASSUME Init
             PROVE  OrderInv(room)
  OBVIOUS
<1>1. Inv
  BY InitInv
<1>2. \A w \in Workers : pc[w] = "idle"
  BY DEF Init
<1>3. Undecided = {} /\ IsFiniteSet({}) /\ Cardinality({}) = 0
  BY <1>2, FS_EmptySet DEF Undecided
<1>4. Left = MaxRequests /\ MaxRequests \in 0..MaxRequests
  BY <1>3, BoundsAssumption DEF Left, Init
<1>5. room[MaxRequests] <= Unit /\ Spaced(rules, room[MaxRequests])
  BY DEF Roomy, Init
<1>6. \A w \in Workers : Steady(pc[w], job[w], rules, nextId)
  BY <1>2 DEF Steady
<1> QED
  BY <1>1, <1>3, <1>4, <1>5, <1>6 DEF OrderInv

\* With an undecided reorder there is room for one.
LEMMA RoomForOne ==
  ASSUME NEW room, Roomy(room), OrderInv(room), NEW w \in Undecided
  PROVE  /\ room[Left] \in Nat \ {0} /\ room[Left - 1] \in Nat \ {0}
         /\ 2 * room[Left - 1] <= room[Left]
<1>1. Cardinality(Undecided) \in Nat /\ Cardinality(Undecided) - 1 \in Nat
  <2>1. IsFiniteSet(Undecided)
    BY DEF OrderInv
  <2>2. IsFiniteSet(Undecided \ {w}) /\ Cardinality(Undecided \ {w}) = Cardinality(Undecided) - 1
    BY <2>1, FS_RemoveElement
  <2> QED
    BY <2>1, <2>2, FS_CardinalityType
<1>2. MaxRequests \in Nat /\ spent.requests \in 0..MaxRequests /\ Left \in 0..MaxRequests
  BY BoundsAssumption DEF OrderInv, Inv, SharedOK
<1>3. Left - 1 \in 0..MaxRequests
  <2> DEFINE c == Cardinality(Undecided)
             n == Left
  <2>1. n = (MaxRequests - spent.requests) + c
    BY DEF Left
  <2>2. n \in 0..MaxRequests /\ c \in Nat /\ c - 1 \in Nat
    BY <1>1, <1>2
  <2> HIDE DEF n, c
  <2>3. n - 1 \in 0..MaxRequests
    BY <1>2, <2>1, <2>2
  <2> QED
    BY <2>3 DEF n
<1> QED
  BY <1>2, <1>3, RoomShrinks

\* So a move lands where it was asked to.
LEMMA ReorderLands ==
  ASSUME NEW room, Roomy(room), OrderInv(room), NEW w \in Workers, Reorder(w), rules' # rules
  PROVE  LET r == job[w].req
         IN  /\ r.place = "before" => Adjacent(rules', r.id, r.id, r.target)
             /\ r.place # "before" => Adjacent(rules', r.id, r.target, r.id)
<1> DEFINE r == job[w].req
           g == room[Left]
           h == room[Left - 1]
<1>1. ~Decline(w)
  BY DEF Decline
<1>2. FiniteTable(rules) /\ w \in Undecided
  BY Deciders DEF Reorder, Deciding
<1>3. g \in Nat \ {0} /\ h \in Nat \ {0} /\ 2 * h <= g
  BY <1>2, RoomForOne
<1>4. g <= Unit /\ Spaced(rules, g)
  BY DEF OrderInv
<1>5. /\ r.id \in DOMAIN rules /\ r.target \in Siblings(rules, r.id)
      /\ r.place \in {"before", "after"}
      /\ DOMAIN rules' = DOMAIN rules
      /\ \A i \in DOMAIN rules : rules'[i].shape = rules[i].shape
      /\ \A i \in DOMAIN rules \ {r.id} : rules'[i].pos = rules[i].pos
      /\ rules'[r.id].pos = ReorderPosition(rules, r.id, r.target, r.place)
  BY <1>1, MovesOne
<1> HIDE DEF r, g, h
<1>6. /\ r.place = "before" => Adjacent(rules', r.id, r.id, r.target)
      /\ r.place = "after" => Adjacent(rules', r.id, r.target, r.id)
  BY <1>2, <1>3, <1>4, <1>5, Lands
<1> QED
  BY <1>5, <1>6 DEF r

\* reorder_rule, for any number of workers and requests: a rule moved before
\* or after another comes to lie right there among the rules it shares a chain
\* with.  What it needs is room: rules that share a chain start so far apart that
\* as many halvings as there are requests leave a distance (Roomy), and
\* every position is given under the advisory lock (OrderByRequest).
THEOREM ReordersLand ==
  ASSUME OrderByRequest, NEW room, Roomy(room)
  PROVE  Spec => ReorderLandsNextToTarget
<1>1. Init => OrderInv(room)
  BY OrderInit
<1>2. OrderInv(room) /\ [Next]_vars => OrderInv(room)'
  BY OrderNext
<1> DEFINE Landing ==
             \A w \in Workers :
                LET r == job[w].req
                IN  (Reorder(w) /\ rules' # rules) =>
                      LET lo == IF r.place = "before" THEN r.id ELSE r.target
                          hi == IF r.place = "before" THEN r.target ELSE r.id
                      IN  /\ Before(rules', lo, hi)
                          /\ \A i \in Siblings(rules', r.id) :
                                ~(Before(rules', lo, i) /\ Before(rules', i, hi))
<1>3. OrderInv(room) => Landing
  BY ReorderLands DEF Adjacent
<1>4. ReorderLandsNextToTarget <=> [][Landing]_vars
  BY DEF ReorderLandsNextToTarget
<1> HIDE DEF Landing
<1> QED
  BY <1>1, <1>2, <1>3, <1>4, PTL DEF Spec
=============================================================================
