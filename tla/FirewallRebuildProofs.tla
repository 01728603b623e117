------------------------ MODULE FirewallRebuildProofs ------------------------
(***************************************************************************)
(* The table against the live chains, for every set of workers, rules and  *)
(* requests.  Rebuilds and discoveries exclude each other: of the workers  *)
(* between taking and giving back the rebuild lock there is never more     *)
(* than one.  Everything here rests on that: nothing but a rebuild puts a  *)
(* tagged rule into a chain, unless a request adds one, whose append takes *)
(* no lock, and of the hand-typed rules one at most is being adopted.      *)
(***************************************************************************)
EXTENDS FirewallProofs

\* The places between taking the rebuild lock and giving it back.
Rebuilding == {"list", "strip", "fill", "snapshot", "scan", "adopt", "claim", "drop"}

\* A discovery between its snapshot and its rebuilds.
Scanning == {"scan", "adopt", "claim", "drop"}

Exclusive == \A w \in Workers : pc[w] \in Rebuilding => flock = w

\* No request adds a rule.
NoAdds == \A r \in Requests : r.op # "add"

\* Commands that put no tagged rule into a chain.
Untagged(cmds) == \A k \in 1..Len(cmds) : cmds[k].op = "-D" \/ cmds[k].entry.id = 0

\* Commands of a rebuild: all of one kind, on the chain being rebuilt.
AllOn(cmds, op, chain) == \A k \in 1..Len(cmds) : cmds[k].op = op /\ cmds[k].chain = chain

\* What the commands of a handler at place p are.
Shaped(p, j) ==
    /\ p = "strip" => AllOn(j.cmds, "-D", Head(j.chains))
    /\ p = "fill" => /\ AllOn(j.cmds, "-A", Head(j.chains))
                     /\ \A k \in 1..Len(j.cmds) : j.cmds[k].entry.id # 0
    /\ p \in Running \ {"strip", "fill"} => Untagged(j.cmds) \/ (p = "apply" /\ ~NoAdds)

LockInv ==
    /\ Inv /\ Exclusive
    /\ \A w \in Workers : Shaped(pc[w], job[w])

RespectsLock(w) ==
    /\ flock' = flock \/ flock \in {None, w}
    /\ pc'[w] \in Rebuilding => flock' = w
    /\ Shaped(pc'[w], job'[w])

LEMMA LockKept ==
  ASSUME LockInv, NEW w \in Workers, StepOK(w), RespectsLock(w)
  PROVE  LockInv'
<1>1. Inv'
  BY StepKeepsInv DEF LockInv
<1>2. \A v \in Workers \ {w} : pc'[v] = pc[v] /\ job'[v] = job[v]
  BY DEF StepOK, Moves, LockInv, Inv
<1>3. ASSUME NEW v \in Workers, pc'[v] \in Rebuilding
      PROVE  flock' = v
  <2>1. CASE v = w
    BY <1>3, <2>1 DEF RespectsLock
  <2>2. CASE v # w
    <3>1. flock = v
      BY <1>2, <1>3, <2>2 DEF LockInv, Exclusive
    <3> QED
      BY <2>2, <3>1, WorkersAssumption DEF RespectsLock
  <2> QED
    BY <2>1, <2>2
<1>4. \A v \in Workers : Shaped(pc'[v], job'[v])
  BY <1>2 DEF RespectsLock, LockInv
<1> QED
  BY <1>1, <1>3, <1>4 DEF LockInv, Exclusive

\* Steps that have nothing to do with the lock or with commands.
Apart == Places \ (Rebuilding \cup Running)

LEMMA ApartStep ==
  ASSUME LockInv, NEW w \in Workers, flock' = flock \/ flock \in {None, w}, pc'[w] \in Apart
  PROVE  RespectsLock(w)
BY DEF RespectsLock, Apart, Shaped, Running

\* The fields of a handler's local variables after an assignment.
LEMMA Assigned ==
  ASSUME Inv, NEW w \in Workers
  PROVE  /\ \A x : job' = [job EXCEPT ![w].cmds = x] =>
               /\ job'[w].cmds = x /\ job'[w].chains = job[w].chains
               /\ job'[w].snap = job[w].snap /\ job'[w].id = job[w].id
               /\ job'[w].found = job[w].found /\ job'[w].req = job[w].req
               /\ job'[w].touched = job[w].touched
         /\ \A x : job' = [job EXCEPT ![w].chains = x] =>
               /\ job'[w].chains = x /\ job'[w].cmds = job[w].cmds
               /\ job'[w].snap = job[w].snap /\ job'[w].found = job[w].found
               /\ job'[w].req = job[w].req
         /\ \A x, y : job' = [job EXCEPT ![w].cmds = x, ![w].chains = y] =>
               job'[w].cmds = x /\ job'[w].chains = y /\ job'[w].req = job[w].req
         /\ \A x, y : job' = [job EXCEPT ![w].chains = x, ![w].cmds = y] =>
               job'[w].cmds = y /\ job'[w].chains = x /\ job'[w].req = job[w].req
         /\ \A x, y : job' = [job EXCEPT ![w].id = x, ![w].cmds = y] =>
               /\ job'[w].cmds = y /\ job'[w].id = x
               /\ job'[w].snap = job[w].snap /\ job'[w].req = job[w].req
BY OfWorker DEF IsJob, NoJob, Inv

LEMMA PlaceSets ==
    /\ {"idle", "lock", "read", "decide", "max", "insert", "undo", "start", "flock"} = Apart
    /\ Rebuilding \cap Running = {"strip", "fill"}
BY DEF Apart, Places, Rebuilding, Running

LEMMA FinishApart ==
  ASSUME LockInv, NEW w \in Workers, Finish(w), flock' = flock \/ flock \in {None, w}
  PROVE  RespectsLock(w)
BY ApartStep, PlaceSets, Goes DEF LockInv

-----------------------------------------------------------------------------
(* Lists of commands. *)

\* One rule's commands.
LEMMA UntaggedHalves ==
  ASSUME NEW id \in Nat, NEW shape \in Shape
  PROVE  /\ Untagged(Unapply(id, shape))
         /\ IsBlock(shape) => Untagged(Apply(id, shape))
<1>1. IsBlock(shape) => LiveEntry(id, shape).id = 0
  BY DEF LiveEntry
<1>2. \A op : \A k \in 1..Len(HalfCommands(op, id, shape)) :
         /\ HalfCommands(op, id, shape)[k].op = op
         /\ HalfCommands(op, id, shape)[k].entry = LiveEntry(id, shape)
  BY HalfCommandsAre
<1> QED
  BY <1>1, <1>2 DEF Untagged, Apply, Unapply

LEMMA UntaggedSync ==
  ASSUME NEW t, FiniteTable(t)
  PROVE  Untagged(SyncCommands(t))
<1> DEFINE cmds == SyncCommands(t)
<1>1. ASSUME NEW k \in 1..Len(cmds)
      PROVE  cmds[k].entry.id = 0
  <2>1. PICK i \in Enabled(t) : IsBlock(t[i].shape) /\ cmds[k].entry = LiveEntry(i, t[i].shape)
    BY SyncType
  <2> QED
    BY <2>1 DEF LiveEntry
<1> QED
  BY <1>1 DEF Untagged

LEMMA StripIs ==
  ASSUME NEW chain \in Chains, live \in [Chains -> Seq(Entry)]
  PROVE  /\ AllOn(StripCommands(chain), "-D", chain)
         /\ \A k \in DOMAIN live[chain] : live[chain][k].id # 0 =>
               \E m \in 1..Len(StripCommands(chain)) :
                  StripCommands(chain)[m].entry = live[chain][k]
<1> DEFINE own == {k \in DOMAIN live[chain] : HasOwnedTag(live[chain][k])}
           owned == Selected(live[chain], own)
<1>0. own \subseteq DOMAIN live[chain] /\ live[chain] \in Seq(Entry)
  OBVIOUS
<1>1. owned \in Seq(Entry) /\ \A i \in own : \E k \in 1..Len(owned) : owned[k] = live[chain][i]
  <2>1. PICK s : s = live[chain]
    OBVIOUS
  <2> HIDE DEF own
  <2>2. own \subseteq DOMAIN s /\ s \in Seq(Entry)
    BY <1>0, <2>1
  <2>3. /\ Selected(s, own) \in Seq(Entry)
        /\ \A i \in own : \E k \in 1..Len(Selected(s, own)) : Selected(s, own)[k] = s[i]
    BY <2>2, SelectedElements
  <2> QED
    BY <2>1, <2>3, Zenon
<1>3. \A k \in DOMAIN live[chain] : live[chain][k].id # 0 => k \in own
  BY DEF HasOwnedTag
<1>2. StripCommands(chain) =
        [k \in DOMAIN owned |-> [op |-> "-D", chain |-> chain, entry |-> owned[k], skip |-> 0]]
  BY DEF StripCommands
<1> HIDE DEF owned, own
<1>4. Len(StripCommands(chain)) = Len(owned)
  BY <1>1, <1>2
<1>5. \A k \in 1..Len(owned) : StripCommands(chain)[k].entry = owned[k]
  BY <1>1, <1>2
<1>6. AllOn(StripCommands(chain), "-D", chain)
  BY <1>1, <1>2 DEF AllOn
<1> QED
  BY <1>1, <1>3, <1>4, <1>5, <1>6

\* The rows a rebuild puts into a chain, and its k-th command.
Wanted(t, chain) == {i \in Enabled(t) : InChain(t, i, chain)}

Fills(c, t, chain, k) ==
    /\ c.op = "-A" /\ c.chain = chain /\ c.skip = 0
    /\ c.entry = LiveEntry(WantedIds(t, chain)[k], t[WantedIds(t, chain)[k]].shape)

LEMMA FillIs ==
  ASSUME NEW t, FiniteTable(t), NEW chain \in Chains
  PROVE  /\ Wanted(t, chain) \subseteq DOMAIN t /\ IsFiniteSet(Wanted(t, chain))
         /\ \A i \in Wanted(t, chain) :
               i \in Nat \ {0} /\ ~IsBlock(t[i].shape) /\ LiveEntry(i, t[i].shape).id = i
         /\ WantedIds(t, chain) \in Seq(Wanted(t, chain))
         /\ \A x \in Wanted(t, chain) :
               \E k \in 1..Len(WantedIds(t, chain)) : WantedIds(t, chain)[k] = x
         /\ \A k, m \in 1..Len(WantedIds(t, chain)) :
               k < m => Before(t, WantedIds(t, chain)[k], WantedIds(t, chain)[m])
         /\ Len(FillCommands(t, chain)) = Len(WantedIds(t, chain))
         /\ \A k \in 1..Len(WantedIds(t, chain)) : Fills(FillCommands(t, chain)[k], t, chain, k)
<1> DEFINE S == Wanted(t, chain)
           ids == WantedIds(t, chain)
           cmds == FillCommands(t, chain)
           add(k) == [op |-> "-A", chain |-> chain,
                      entry |-> LiveEntry(ids[k], t[ids[k]].shape), skip |-> 0]
<1>1. S \subseteq DOMAIN t /\ IsFiniteSet(S)
  BY FS_Subset DEF Wanted, Enabled, FiniteTable
<1>2. ids = Ordered(t, S) /\ IsTable(t)
  BY DEF WantedIds, FiniteTable, Wanted
<1>3. cmds = [k \in DOMAIN ids |-> add(k)]
  BY DEF FillCommands
<1>4. \A i \in S : i \in Nat \ {0} /\ ~IsBlock(t[i].shape) /\ LiveEntry(i, t[i].shape).id = i
  <2> SUFFICES ASSUME NEW i \in S
               PROVE  i \in Nat \ {0} /\ ~IsBlock(t[i].shape) /\ LiveEntry(i, t[i].shape).id = i
    OBVIOUS
  <2>1. i \in Nat \ {0}
    BY <1>1, <1>2 DEF IsTable
  <2>2. IsBlock(t[i].shape) => ChainsFor(t[i].shape.kind) = <<>>
    BY DEF IsBlock, ChainsFor
  <2>3. ~IsBlock(t[i].shape)
    BY <2>2 DEF Wanted, InChain, ToSet
  <2> QED
    BY <2>1, <2>3 DEF LiveEntry
<1> HIDE DEF S, ids, cmds
<1>5. /\ ids \in Seq(S) /\ Len(ids) = Cardinality(S)
      /\ \A x \in S : \E k \in 1..Cardinality(S) : ids[k] = x
      /\ \A k, m \in 1..Cardinality(S) : k < m => Before(t, ids[k], ids[m])
  BY <1>1, <1>2, OrderedElements
<1>6. DOMAIN ids = 1..Len(ids) /\ Len(cmds) = Len(ids)
  BY <1>3, <1>5
<1>7. \A k \in 1..Len(ids) : Fills(cmds[k], t, chain, k)
  BY <1>3, <1>6 DEF Fills, ids
<1> QED
  BY <1>1, <1>4, <1>5, <1>6, <1>7 DEF S, ids, cmds

\* Each wanted row is listed once, under its own id.
LEMMA WantedOnce ==
  ASSUME NEW t, FiniteTable(t), NEW chain \in Chains
  PROVE  /\ \A k \in 1..Len(WantedIds(t, chain)) :
               LET i == WantedIds(t, chain)[k]
               IN  /\ i \in Nat \ {0} /\ i \in Wanted(t, chain)
                   /\ LiveEntry(i, t[i].shape).id = i
         /\ \A k, m \in 1..Len(WantedIds(t, chain)) :
               WantedIds(t, chain)[k] = WantedIds(t, chain)[m] => k = m
<1> DEFINE ids == WantedIds(t, chain)
<1>1. /\ ids \in Seq(Wanted(t, chain)) /\ Wanted(t, chain) \subseteq DOMAIN t
      /\ \A k, m \in 1..Len(ids) : k < m => Before(t, ids[k], ids[m])
      /\ \A i \in Wanted(t, chain) : i \in Nat \ {0} /\ LiveEntry(i, t[i].shape).id = i
  BY FillIs
<1>2. \A i \in DOMAIN t : t[i].pos \in Int
  BY DEF FiniteTable, IsTable, Row
<1> HIDE DEF ids
<1>3. \A k \in 1..Len(ids) : ids[k] \in Wanted(t, chain)
  BY <1>1
<1>4. ASSUME NEW k \in 1..Len(ids), NEW m \in 1..Len(ids), ids[k] = ids[m]
      PROVE  k = m
  <2>1. ids[k] \in Nat /\ t[ids[k]].pos \in Int
    BY <1>1, <1>2, <1>3
  <2>2. ~Before(t, ids[k], ids[m]) /\ ~Before(t, ids[m], ids[k])
    BY <1>4, <2>1 DEF Before
  <2>3. ~(k < m) /\ ~(m < k)
    BY <1>1, <2>2
  <2> QED
    BY <2>3
<1>5. \A k \in 1..Len(ids) : /\ ids[k] \in Nat \ {0} /\ ids[k] \in Wanted(t, chain)
                             /\ LiveEntry(ids[k], t[ids[k]].shape).id = ids[k]
  BY <1>1, <1>3
<1> QED
  BY <1>4, <1>5 DEF ids

LEMMA FillTagged ==
  ASSUME NEW t, FiniteTable(t), NEW chain \in Chains
  PROVE  \A k \in 1..Len(FillCommands(t, chain)) :
            /\ FillCommands(t, chain)[k].op = "-A" /\ FillCommands(t, chain)[k].chain = chain
            /\ FillCommands(t, chain)[k].entry.id # 0
<1> DEFINE ids == WantedIds(t, chain)
           cmds == FillCommands(t, chain)
<1>1. Len(cmds) = Len(ids) /\ ids \in Seq(Wanted(t, chain))
      /\ \A k \in 1..Len(ids) : Fills(cmds[k], t, chain, k)
  BY FillIs
<1>2. \A i \in Wanted(t, chain) : LiveEntry(i, t[i].shape).id # 0
  BY FillIs
<1> SUFFICES ASSUME NEW k \in 1..Len(cmds)
             PROVE  cmds[k].op = "-A" /\ cmds[k].chain = chain /\ cmds[k].entry.id # 0
  OBVIOUS
<1>3. Fills(cmds[k], t, chain, k)
  BY <1>1
<1>4. ids[k] \in Wanted(t, chain)
  BY <1>1
<1> QED
  BY <1>2, <1>3, <1>4 DEF Fills

LEMMA OnTail ==
  ASSUME NEW cmds \in Seq(Command), cmds # <<>>
  PROVE  /\ Head(cmds) \in Command /\ Head(cmds) = cmds[1] /\ 1 \in 1..Len(cmds)
         /\ Tail(cmds) \in Seq(Command) /\ Len(Tail(cmds)) = Len(cmds) - 1
         /\ \A k \in 1..Len(Tail(cmds)) : k + 1 \in 1..Len(cmds) /\ Tail(cmds)[k] = cmds[k + 1]
         /\ \A k \in 1..Len(cmds) : k # 1 =>
               k - 1 \in 1..Len(Tail(cmds)) /\ cmds[k] = Tail(cmds)[k - 1]
<1>1. /\ Head(cmds) \in Command /\ Head(cmds) = cmds[1]
      /\ Tail(cmds) \in Seq(Command) /\ Len(Tail(cmds)) = Len(cmds) - 1
      /\ \A k \in 1..Len(Tail(cmds)) : Tail(cmds)[k] = cmds[k + 1]
  BY HeadTailProperties
<1>2. Len(cmds) \in Nat /\ Len(cmds) # 0
  BY EmptySeq
<1> DEFINE rest == Tail(cmds)
<1> HIDE DEF rest
<1>3. ASSUME NEW k \in 1..Len(cmds), k # 1
      PROVE  k - 1 \in 1..Len(rest) /\ cmds[k] = rest[k - 1]
  <2>1. k - 1 \in 1..Len(rest) /\ (k - 1) + 1 = k
    BY <1>1, <1>2, <1>3 DEF rest
  <2> QED
    BY <1>1, <2>1 DEF rest
<1> QED
  BY <1>1, <1>2, <1>3 DEF rest

LEMMA UntaggedRest ==
  ASSUME NEW cmds \in Seq(Command), cmds # <<>>
  PROVE  /\ Untagged(cmds) => Untagged(Tail(cmds))
         /\ \A op, chain : AllOn(cmds, op, chain) => AllOn(Tail(cmds), op, chain)
         /\ \A n \in Int : n >= 1 /\ Untagged(cmds) => Untagged(SubSeq(cmds, n, Len(cmds)))
         /\ Untagged(<<>>)
<1>1. Untagged(cmds) => Untagged(Tail(cmds))
  BY OnTail DEF Untagged
<1>2. \A op, chain : AllOn(cmds, op, chain) => AllOn(Tail(cmds), op, chain)
  BY OnTail DEF AllOn
<1>3. ASSUME NEW n \in Int, n >= 1, Untagged(cmds)
      PROVE  Untagged(SubSeq(cmds, n, Len(cmds)))
  <2> DEFINE rest == SubSeq(cmds, n, Len(cmds))
  <2>1. /\ Len(rest) = IF n <= Len(cmds) THEN Len(cmds) - n + 1 ELSE 0
        /\ \A k \in 1..Len(cmds) - n + 1 : rest[k] = cmds[n + k - 1]
    BY <1>3, SubSeqProperties
  <2>2. Len(cmds) \in Nat
    OBVIOUS
  <2> HIDE DEF rest
  <2>3. \A k \in 1..Len(rest) : n + k - 1 \in 1..Len(cmds) /\ rest[k] = cmds[n + k - 1]
    BY <1>3, <2>1, <2>2
  <2> QED
    BY <1>3, <2>3 DEF Untagged, rest
<1>4. Untagged(<<>>)
  BY DEF Untagged
<1> QED
  BY <1>1, <1>2, <1>3, <1>4

-----------------------------------------------------------------------------
(* Every step of a worker respects the lock. *)

LEMMA LockInsert ==
  ASSUME LockInv, NEW w \in Workers, flock' = flock, pc'[w] = "apply", NEW id \in Nat,
         job'[w].cmds = Apply(id, job[w].req.shape), job[w].req \in Requests,
         job[w].req.op \in {"add", "block"}
  PROVE  RespectsLock(w)
<1>1. job[w].req.op = "add" => ~NoAdds
  BY DEF NoAdds
<1>2. job[w].req.op = "block" => Untagged(job'[w].cmds)
  BY UntaggedHalves, RequestsAssumption DEF Request
<1> QED
  BY <1>1, <1>2, PlaceSets DEF RespectsLock, Shaped, Rebuilding, Running

LEMMA LockCommit ==
  ASSUME LockInv, NEW w \in Workers, NEW shape, CommitInsert(w, shape)
  PROVE  /\ flock' = flock /\ pc'[w] = "apply" /\ nextId \in Nat
         /\ job'[w].cmds = Apply(nextId, shape) /\ job'[w].id = nextId
<1> DEFINE cmds == Apply(nextId, shape)
           j == [job[w] EXCEPT !.id = nextId, !.cmds = cmds]
<1>1. flock' = flock /\ Goto(w, "apply") /\ job' = [job EXCEPT ![w] = j]
  BY DEF CommitInsert, Commit
<1>2. Inv /\ IsJob(job[w]) /\ nextId \in Nat
  BY OfWorker DEF LockInv
<1> HIDE DEF cmds
<1>3. j.cmds = cmds /\ j.id = nextId
  BY <1>2 DEF IsJob, NoJob
<1> HIDE DEF j
<1> QED
  BY <1>1, <1>2, <1>3, Goes DEF cmds

LEMMA LockDecline ==
  ASSUME LockInv, NEW w \in Workers, Decline(w)
  PROVE  RespectsLock(w)
BY FinishApart DEF Decline

LEMMA LockDecides ==
  ASSUME LockInv, NEW w \in Workers, AddInput(w) \/ Block(w)
  PROVE  RespectsLock(w)
<1>1. job[w].req \in Requests /\ pc[w] = "decide"
  BY OfWorker DEF LockInv, AddInput, Block, Deciding, PlaceOK
<1>2. CASE Decline(w)
  BY <1>2, LockDecline
<1>3. CASE CommitInsert(w, job[w].req.shape) /\ job[w].req.op \in {"add", "block"}
  BY <1>1, <1>3, LockCommit, LockInsert
<1> QED
  BY <1>2, <1>3 DEF AddInput, Block, Deciding

\* A rule is taken out by deletions, whoever does it.
LEMMA LockUnapply ==
  ASSUME LockInv, NEW w \in Workers, flock' = flock, pc'[w] \in {"unapply", "unblock"},
         \/ \E id \in Nat, shape \in Shape : job'[w].cmds = Unapply(id, shape)
         \/ job'[w].cmds = <<>>
  PROVE  RespectsLock(w)
<1>1. Untagged(job'[w].cmds)
  BY UntaggedHalves DEF Untagged
<1> QED
  BY <1>1, PlaceSets DEF RespectsLock, Shaped, Rebuilding, Running

LEMMA LockToggle ==
  ASSUME LockInv, NEW w \in Workers, Toggle(w)
  PROVE  RespectsLock(w)
<1> DEFINE id == job[w].req.id
           row == job[w].snap[id]
           j == [job[w] EXCEPT !.id = id]
<1>1. Inv /\ IsJob(job[w]) /\ IsTable(job[w].snap)
  BY OfWorker DEF LockInv, FiniteTable
<1>2. /\ [j EXCEPT !.cmds = Apply(id, row.shape)].cmds = Apply(id, row.shape)
      /\ [j EXCEPT !.cmds = Unapply(id, row.shape)].cmds = Unapply(id, row.shape)
  BY <1>1 DEF IsJob, NoJob
<1>3. id \in DOMAIN job[w].snap => id \in Nat /\ row.shape \in Shape
  BY <1>1 DEF IsTable, Row
<1>4. \/ Decline(w)
      \/ /\ id \in DOMAIN job[w].snap /\ flock' = flock
         /\ \/ Goto(w, "flock")
            \/ /\ Goto(w, "enable") /\ IsBlock(row.shape)
               /\ job' = [job EXCEPT ![w] = [j EXCEPT !.cmds = Apply(id, row.shape)]]
            \/ /\ Goto(w, "unapply")
               /\ job' = [job EXCEPT ![w] = [j EXCEPT !.cmds = Unapply(id, row.shape)]]
  BY DEF Toggle, Commit
<1> HIDE DEF j, row, id
<1>5. CASE Decline(w)
  BY <1>5, LockDecline
<1>6. CASE Goto(w, "flock") /\ flock' = flock
  BY <1>1, <1>6, Goes, ApartStep, PlaceSets
<1>7. CASE /\ id \in DOMAIN job[w].snap /\ flock' = flock
           /\ Goto(w, "enable") /\ IsBlock(row.shape)
           /\ job' = [job EXCEPT ![w] = [j EXCEPT !.cmds = Apply(id, row.shape)]]
  <2>1. pc'[w] = "enable" /\ job'[w].cmds = Apply(id, row.shape)
    BY <1>1, <1>2, <1>7, Goes
  <2>2. Untagged(job'[w].cmds)
    BY <1>3, <1>7, <2>1, UntaggedHalves
  <2> QED
    BY <1>7, <2>1, <2>2 DEF RespectsLock, Shaped, Rebuilding, Running
<1>8. CASE /\ id \in DOMAIN job[w].snap /\ flock' = flock
           /\ Goto(w, "unapply")
           /\ job' = [job EXCEPT ![w] = [j EXCEPT !.cmds = Unapply(id, row.shape)]]
  <2>1. pc'[w] = "unapply" /\ job'[w].cmds = Unapply(id, row.shape)
    BY <1>1, <1>2, <1>8, Goes
  <2> QED
    BY <1>3, <1>8, <2>1, LockUnapply
<1> QED
  BY <1>4, <1>5, <1>6, <1>7, <1>8

LEMMA LockTakeOut ==
  ASSUME LockInv, NEW w \in Workers, NEW op, NEW present, NEW t1,
         TakeOut(w, op, present, t1), present => job[w].req.id \in DOMAIN job[w].snap
  PROVE  RespectsLock(w)
<1> DEFINE id == job[w].req.id
           row == job[w].snap[id]
           new == IF row.enabled THEN Unapply(id, row.shape) ELSE <<>>
           j == [job[w] EXCEPT !.id = id, !.cmds = new]
<1>1. Inv /\ IsJob(job[w]) /\ IsTable(job[w].snap)
  BY OfWorker DEF LockInv, FiniteTable
<1>2. j.cmds = new
  BY <1>1 DEF IsJob, NoJob
<1>3. id \in DOMAIN job[w].snap => id \in Nat /\ row.shape \in Shape
  BY <1>1 DEF IsTable, Row
<1>4. \/ Decline(w)
      \/ /\ present /\ flock' = flock /\ Goto(w, "unapply")
         /\ job' = [job EXCEPT ![w] = j]
  BY DEF TakeOut, Commit
<1>5. new = Unapply(id, row.shape) \/ new = <<>>
  OBVIOUS
<1> HIDE DEF j, row, id, new
<1>6. CASE Decline(w)
  BY <1>6, LockDecline
<1>7. CASE present /\ flock' = flock /\ Goto(w, "unapply") /\ job' = [job EXCEPT ![w] = j]
  <2>1. pc'[w] = "unapply" /\ job'[w].cmds = new
    BY <1>1, <1>2, <1>7, Goes
  <2>2. id \in DOMAIN job[w].snap
    BY <1>7 DEF id
  <2> QED
    BY <1>3, <1>5, <1>7, <2>1, <2>2, LockUnapply
<1> QED
  BY <1>4, <1>6, <1>7

LEMMA LockReorder ==
  ASSUME LockInv, NEW w \in Workers, Reorder(w)
  PROVE  RespectsLock(w)
<1>1. CASE Decline(w)
  BY <1>1, LockDecline
<1>2. CASE flock' = flock /\ Goto(w, "flock")
  BY <1>2, Goes, ApartStep, PlaceSets DEF LockInv
<1> QED
  BY <1>1, <1>2 DEF Reorder, Commit

LEMMA LockUnblock ==
  ASSUME LockInv, NEW w \in Workers, Unblock(w)
  PROVE  RespectsLock(w)
<1> DEFINE blocks == BlockRows(job[w].snap, job[w].req.shape.client)
<1>1. CASE Decline(w)
  BY <1>1, LockDecline
<1>2. ASSUME NEW i \in blocks,
             job' = [job EXCEPT ![w].id = i, ![w].cmds = Unapply(i, job[w].snap[i].shape)],
             Goto(w, "unblock"), flock' = flock
      PROVE  RespectsLock(w)
  <2>1. i \in Nat /\ job[w].snap[i].shape \in Shape
    BY OfWorker DEF LockInv, FiniteTable, IsTable, Row, BlockRows
  <2>2. pc'[w] = "unblock" /\ job'[w].cmds = Unapply(i, job[w].snap[i].shape)
    <3>1. PICK x : x = Unapply(i, job[w].snap[i].shape)
      OBVIOUS
    <3>2. job' = [job EXCEPT ![w].id = i, ![w].cmds = x] /\ Inv
      BY <1>2, <3>1 DEF LockInv
    <3>3. job'[w].cmds = x
      BY <3>2, OfWorker DEF IsJob, NoJob, Inv
    <3>4. pc'[w] = "unblock"
      BY <1>2, <3>2, Goes
    <3> QED
      BY <3>1, <3>3, <3>4
  <2> QED
    BY <1>2, <2>1, <2>2, LockUnapply
<1> QED
  BY <1>1, <1>2 DEF Unblock

LEMMA LockTransaction ==
  ASSUME LockInv, NEW w \in Workers, Transaction(w)
  PROVE  RespectsLock(w)
<1>1. CASE Lock(w)
  BY <1>1, Goes, ApartStep, PlaceSets DEF Lock, LockInv
<1>2. CASE LockTimeout(w)
  BY <1>2, FinishApart DEF LockTimeout
<1>3. CASE Read(w)
  BY <1>3, Goes, ApartStep, PlaceSets DEF Read, LockInv
<1>4. CASE Disable(w)
  BY <1>4, LockTakeOut DEF Disable
<1>5. CASE Delete(w)
  BY <1>5, LockTakeOut DEF Delete
<1>6. CASE UnblockCommit(w)
  BY <1>6, FinishApart DEF UnblockCommit
<1> QED
  BY <1>1, <1>2, <1>3, <1>4, <1>5, <1>6, LockDecides, LockToggle, LockReorder, LockUnblock
     DEF Transaction

LEMMA LockUnlocked ==
  ASSUME LockInv, NEW w \in Workers, UnlockedInsert(w)
  PROVE  RespectsLock(w)
<1>1. CASE ReadMax(w)
  BY <1>1, Goes, ApartStep, PlaceSets DEF ReadMax, LockInv
<1>2. CASE Insert(w)
  <2>1. /\ flock' = flock /\ pc'[w] = "apply" /\ nextId \in Nat
        /\ job'[w].cmds = Apply(nextId, job[w].req.shape)
    <3>1. PICK x : x = Apply(nextId, job[w].req.shape)
      OBVIOUS
    <3>2. job' = [job EXCEPT ![w].id = nextId, ![w].cmds = x] /\ Inv
      BY <1>2, <3>1 DEF Insert, LockInv
    <3>3. job'[w].cmds = x
      BY <3>2, OfWorker DEF IsJob, NoJob, Inv
    <3>4. pc'[w] = "apply" /\ flock' = flock
      BY <1>2, <3>2, Goes DEF Insert
    <3> QED
      BY <3>1, <3>2, <3>3, <3>4, OfWorker
  <2>2. job[w].req \in Requests /\ job[w].req.op = "add"
    BY <1>2, OfWorker DEF Insert, LockInv, PlaceOK
  <2> QED
    BY <2>1, <2>2, LockInsert
<1> QED
  BY <1>1, <1>2 DEF UnlockedInsert

LEMMA LockAbort ==
  ASSUME LockInv, NEW w \in Workers, flock = w, AbortRebuild(w)
  PROVE  RespectsLock(w)
<1>1. CASE Finish(w)
  BY <1>1, FinishApart
<1>2. CASE Goto(w, "flock")
  BY <1>2, Goes, ApartStep, PlaceSets DEF LockInv
<1> QED
  BY <1>1, <1>2 DEF AbortRebuild

LEMMA LockRun ==
  ASSUME LockInv, NEW w \in Workers, RunCommand(w)
  PROVE  RespectsLock(w)
<1> DEFINE cmds == job[w].cmds
<1>1. cmds \in Seq(Command) /\ cmds # <<>> /\ Shaped(pc[w], job[w])
  BY OfWorker DEF LockInv, RunCommand, IsJob
<1>2. flock' = flock /\ pc'[w] = pc[w] /\ job'[w].cmds = Tail(cmds)
        /\ job'[w].chains = job[w].chains
  BY Assigned DEF RunCommand, LockInv
<1> HIDE DEF cmds
<1>3. pc'[w] \in Rebuilding => flock' = w
  BY <1>2 DEF LockInv, Exclusive
<1>4. \A k \in 1..Len(Tail(cmds)) : k + 1 \in 1..Len(cmds) /\ Tail(cmds)[k] = cmds[k + 1]
  BY <1>1, OnTail
<1>5. Shaped(pc'[w], job'[w])
  BY <1>1, <1>2, <1>4, UntaggedRest DEF Shaped, cmds
<1> QED
  BY <1>2, <1>3, <1>5 DEF RespectsLock

LEMMA LockFail ==
  ASSUME LockInv, NEW w \in Workers, FailCommand(w)
  PROVE  RespectsLock(w)
<1> DEFINE c == Head(job[w].cmds)
           n == 2 + c.skip
<1>1. job[w].cmds \in Seq(Command) /\ job[w].cmds # <<>> /\ Shaped(pc[w], job[w]) /\ Inv
  BY OfWorker DEF LockInv, FailCommand, IsJob
<1>2. n \in Int /\ n >= 1
  <2>1. c \in Command
    BY <1>1, OnTail
  <2> HIDE DEF c
  <2>2. c.skip \in Nat
    BY <2>1 DEF Command
  <2> QED
    BY <2>2
<1>3. CASE pc[w] = "apply" /\ Goto(w, "undo") /\ flock' = flock
  BY <1>1, <1>3, Goes, ApartStep, PlaceSets
<1>4. CASE /\ pc[w] \in {"unapply", "sync"} /\ pc' = pc /\ flock' = flock
           /\ job' = [job EXCEPT ![w].cmds = SubSeq(@, n, Len(@))]
  <2>1. pc'[w] = pc[w] /\ job'[w].cmds = SubSeq(job[w].cmds, n, Len(job[w].cmds))
    BY <1>1, <1>4, Assigned
  <2>2. Untagged(job[w].cmds)
    BY <1>1, <1>4 DEF Shaped, Running
  <2>3. Untagged(job'[w].cmds)
    BY <1>1, <1>2, <2>1, <2>2, UntaggedRest
  <2> QED
    BY <1>4, <2>1, <2>3, PlaceSets DEF RespectsLock, Shaped, Rebuilding
<1>5. CASE Finish(w) /\ flock' = flock
  BY <1>5, FinishApart
<1>6. CASE pc[w] \in {"strip", "fill"} /\ AbortRebuild(w)
  <2>1. flock = w
    BY <1>6 DEF LockInv, Exclusive, Rebuilding
  <2> QED
    BY <1>6, <2>1, LockAbort
<1> QED
  BY <1>3, <1>4, <1>5, <1>6 DEF FailCommand

LEMMA LockCommands ==
  ASSUME LockInv, NEW w \in Workers, Commands(w)
  PROVE  RespectsLock(w)
<1>1. CASE Applied(w) \/ Undo(w)
  BY <1>1, FinishApart DEF Applied, Undo
<1> QED
  BY <1>1, LockRun, LockFail DEF Commands

LEMMA LockRebuild ==
  ASSUME LockInv, NEW w \in Workers, Rebuild(w)
  PROVE  RespectsLock(w)
<1>0. Inv /\ FiniteTable(rules) /\ live \in [Chains -> Seq(Entry)]
        /\ (pc[w] \in Rebuilding => flock = w)
  BY OfWorker DEF LockInv, Exclusive
<1>1. CASE SyncStart(w)
  <2>1. PICK x : x = SyncCommands(rules)
    OBVIOUS
  <2>2. /\ \E order : job' = [job EXCEPT ![w].cmds = x, ![w].chains = order]
        /\ Goto(w, "sync") /\ flock' = flock
    BY <1>1, <2>1 DEF SyncStart
  <2>4. job'[w].cmds = x
    <3>1. PICK order : job' = [job EXCEPT ![w].cmds = x, ![w].chains = order]
      BY <2>2
    <3> QED
      BY <1>0, <3>1, OfWorker DEF IsJob, NoJob, Inv
  <2>3. pc'[w] = "sync" /\ job'[w].cmds = SyncCommands(rules)
    BY <1>0, <2>1, <2>2, <2>4, Goes
  <2> QED
    BY <1>0, <2>2, <2>3, UntaggedSync DEF RespectsLock, Shaped, Rebuilding, Running
<1>2. CASE SyncBlocksDone(w)
  <2>1. flock' = flock /\ (Finish(w) \/ Goto(w, "flock"))
    BY <1>2 DEF SyncBlocksDone
  <2> QED
    BY <1>0, <2>1, Goes, FinishApart, ApartStep, PlaceSets
<1>3. CASE TakeFlock(w)
  <2>1. flock = None /\ flock' = w /\ pc'[w] \in {"snapshot", "list"}
    BY <1>0, <1>3, Goes DEF TakeFlock, FlockFree
  <2> QED
    BY <2>1 DEF RespectsLock, Shaped, Running
<1>4. CASE ListChain(w)
  <2>0. PICK x : x = StripCommands(Head(job[w].chains))
    OBVIOUS
  <2>4. job' = [job EXCEPT ![w].cmds = x] /\ flock = w /\ flock' = flock /\ Goto(w, "strip")
    BY <1>0, <1>4, <2>0 DEF ListChain, Rebuilding
  <2>5. job'[w].cmds = x /\ job'[w].chains = job[w].chains
    BY <1>0, <2>4, Assigned
  <2>1. pc'[w] = "strip" /\ flock' = flock /\ flock = w
          /\ job'[w].cmds = StripCommands(Head(job[w].chains)) /\ job'[w].chains = job[w].chains
    BY <1>0, <2>0, <2>4, <2>5, Goes
  <2>2. Head(job[w].chains) \in Chains
    BY <1>4, OfWorker, HeadTailProperties DEF ListChain, LockInv, PlaceOK, IsJob
  <2> QED
    BY <1>0, <2>1, <2>2, StripIs DEF RespectsLock, Shaped, Running
<1>5. CASE ListFails(w)
  <2>1. flock = w
    BY <1>0, <1>5 DEF ListFails, Rebuilding
  <2> QED
    BY <1>5, <2>1, LockAbort DEF ListFails
<1>6. CASE ReloadRules(w)
  <2> DEFINE chain == Head(job[w].chains)
             cmds == FillCommands(rules, chain)
  <2>0. PICK x : x = cmds
    OBVIOUS
  <2>4. job' = [job EXCEPT ![w].cmds = x] /\ flock = w /\ flock' = flock /\ Goto(w, "fill")
    BY <1>0, <1>6, <2>0 DEF ReloadRules, Rebuilding
  <2>5. job'[w].cmds = x /\ job'[w].chains = job[w].chains
    BY <1>0, <2>4, Assigned
  <2>1. flock = w /\ flock' = flock /\ pc'[w] = "fill"
          /\ job'[w].cmds = cmds /\ job'[w].chains = job[w].chains
    BY <1>0, <2>0, <2>4, <2>5, Goes
  <2>2. chain \in Chains
    BY <1>6, OfWorker, HeadTailProperties DEF ReloadRules, LockInv, PlaceOK, IsJob
  <2>3. \A k \in 1..Len(cmds) : cmds[k].op = "-A" /\ cmds[k].chain = chain /\ cmds[k].entry.id # 0
    BY <1>0, <2>2, FillTagged
  <2> QED
    BY <2>1, <2>3 DEF RespectsLock, Shaped, AllOn, Running
<1>7. CASE ChainRebuilt(w)
  <2>1. flock = w
    BY <1>0, <1>7 DEF ChainRebuilt, Rebuilding
  <2>2. /\ flock' \in {None, w}
        /\ \/ Finish(w)
           \/ Goto(w, "flock")
           \/ Goto(w, "list") /\ flock' = w
    BY <1>7 DEF ChainRebuilt
  <2>3. CASE Goto(w, "list") /\ flock' = w
    BY <1>0, <2>1, <2>3, Goes DEF RespectsLock, Shaped, Running
  <2> QED
    BY <1>0, <2>1, <2>2, <2>3, Goes, FinishApart, ApartStep, PlaceSets
<1> QED
  BY <1>1, <1>2, <1>3, <1>4, <1>5, <1>6, <1>7 DEF Rebuild

LEMMA LockDiscovery ==
  ASSUME LockInv, NEW w \in Workers, Discovery(w)
  PROVE  RespectsLock(w)
<1>0. Inv /\ (pc[w] \in Rebuilding => flock = w)
  BY DEF LockInv, Exclusive
<1>1. ASSUME pc[w] \in Rebuilding, flock' = flock,
             pc'[w] \in {"scan", "adopt", "claim", "drop", "list"}
      PROVE  RespectsLock(w)
  BY <1>0, <1>1 DEF RespectsLock, Shaped, Running
<1>2. CASE AllScanned(w)
  <2>1. pc[w] \in Rebuilding
    BY <1>2 DEF AllScanned, Rebuilding
  <2>2. (Finish(w) /\ flock' = None) \/ (Goto(w, "list") /\ flock' = flock)
    BY <1>2 DEF AllScanned, UnlockedRebuild
  <2> QED
    BY <1>0, <1>1, <2>1, <2>2, Goes, FinishApart
<1>3. ASSUME \/ Snapshot(w) \/ ScanChain(w) \/ ScanFails(w) \/ Adopt(w) \/ Claim(w)
             \/ DropAdopted(w) \/ ChainScanned(w)
      PROVE  RespectsLock(w)
  <2>1. pc[w] \in Rebuilding /\ flock' = flock
    BY <1>3 DEF Snapshot, ScanChain, ScanFails, Adopt, Claim, DropAdopted, ChainScanned, Rebuilding
  <2>2. pc'[w] \in {"scan", "adopt", "claim", "drop", "list"}
    BY <1>0, <1>3, Goes
       DEF Snapshot, ScanChain, ScanFails, Adopt, Claim, DropAdopted, ChainScanned
  <2> QED
    BY <1>1, <2>1, <2>2
<1> QED
  BY <1>2, <1>3 DEF Discovery

LEMMA LockStepOK ==
  ASSUME LockInv, NEW w \in Workers, Step(w)
  PROVE  RespectsLock(w)
BY LockTransaction, LockUnlocked, LockCommands, LockRebuild, LockDiscovery DEF Step

LEMMA LockNext == LockInv /\ [Next]_vars => LockInv'
<1> SUFFICES ASSUME LockInv, [Next]_vars
             PROVE  LockInv'
  OBVIOUS
<1>0. Inv /\ Inv'
  BY NextInv DEF LockInv
<1>1. ASSUME UNCHANGED <<pc, job, flock>>
      PROVE  LockInv'
  BY <1>0, <1>1 DEF LockInv, Exclusive
<1>2. ASSUME NEW w \in Workers, Step(w)
      PROVE  LockInv'
  BY <1>0, <1>2, EveryStepOK, LockStepOK, LockKept
<1>3. ASSUME NEW w \in Workers, NEW r \in Requests, Receive(w, r)
      PROVE  LockInv'
  <2>1. pc'[w] \in {"max", "start", "flock", "lock"} /\ flock' = flock
    BY <1>0, <1>3, Goes DEF Receive, EntryPlace
  <2> QED
    BY <1>0, <1>3, <2>1, ReceiveStep, ApartStep, PlaceSets, LockKept
<1>4. ASSUME NEW w \in Workers, Crash(w)
      PROVE  LockInv'
  BY <1>0, <1>4, CrashStep, FinishApart, LockKept DEF Crash
<1>5. CASE Environment
  BY <1>1, <1>3, <1>4, <1>5 DEF Environment, ManualAppend, ManualDelete, Flush
<1> QED
  BY <1>1, <1>2, <1>5 DEF Next, vars

LEMMA LockInit == Init => LockInv
<1> SUFFICES ASSUME Init
             PROVE  LockInv
  OBVIOUS
<1>1. Inv /\ \A w \in Workers : pc[w] = "idle"
  BY InitInv DEF Init
<1> QED
  BY <1>1 DEF LockInv, Exclusive, Shaped, Rebuilding, Running

\* _rebuild_chain_lock: rebuilds of a chain and discoveries exclude each
\* other, whichever request or process they run for and whoever is killed.
THEOREM RebuildsExclude ==
  Spec => [](\A v, w \in Workers : pc[v] \in Rebuilding /\ pc[w] \in Rebuilding => v = w)
<1>1. Spec => []LockInv
  BY LockInit, LockNext, PTL DEF Spec
<1>2. LockInv => \A v, w \in Workers : pc[v] \in Rebuilding /\ pc[w] \in Rebuilding => v = w
  BY DEF LockInv, Exclusive
<1> QED
  BY <1>1, <1>2, PTL

-----------------------------------------------------------------------------
(* One live copy. *)

\* No tag is twice in a chain.
Single(s) == \A j, k \in DOMAIN s : s[j].id # 0 /\ s[j].id = s[k].id => j = k

\* Whatever is tagged in t is tagged in s, and still not twice.
Thins(s, t) ==
    /\ \A k \in DOMAIN t : t[k].id # 0 => \E j \in DOMAIN s : t[k] = s[j]
    /\ Single(s) => Single(t)

\* What a rebuild knows of its chain s and its remaining commands.
Clean(p, cmds, s) ==
    /\ p = "strip" => \A k \in DOMAIN s : s[k].id # 0 =>
                         \E m \in 1..Len(cmds) : cmds[m].entry = s[k]
    /\ p = "fill" =>
          /\ \A m, n \in 1..Len(cmds) : cmds[m].entry.id = cmds[n].entry.id => m = n
          /\ \A k \in DOMAIN s, m \in 1..Len(cmds) : s[k].id # cmds[m].entry.id

SingleInv ==
    /\ LockInv
    /\ \A c \in Chains : Single(live[c])
    /\ \A w \in Workers : pc[w] \in {"strip", "fill"} =>
          Clean(pc[w], job[w].cmds, live[Head(job[w].chains)])

LEMMA FrontIs ==
  ASSUME NEW T, NEW s \in Seq(T), NEW e \in T
  PROVE  /\ DOMAIN (<<e>> \o s) = 1..Len(s) + 1 /\ (<<e>> \o s)[1] = e
         /\ \A k \in 1..Len(s) : (<<e>> \o s)[k + 1] = s[k]
BY ConcatProperties

\* A prepended or appended rule without a tag, and a rule taken out.
LEMMA ThinSequences ==
  ASSUME NEW s \in Seq(Entry)
  PROVE  /\ Thins(s, s) /\ Thins(s, <<>>)
         /\ \A e \in Entry : e.id = 0 => Thins(s, Append(s, e)) /\ Thins(s, <<e>> \o s)
         /\ \A n \in 1..Len(s) : Thins(s, RemoveAt(s, n))
         /\ \A e \in ToSet(s) : Thins(s, RemoveFirst(s, e))
<1>0. Len(s) \in Nat /\ DOMAIN s = 1..Len(s)
  OBVIOUS
<1>1. Thins(s, s) /\ Thins(s, <<>>)
  BY DEF Thins, Single
<1>2. ASSUME NEW e \in Entry, e.id = 0
      PROVE  Thins(s, Append(s, e))
  <2> DEFINE t == Append(s, e)
  <2>1. /\ DOMAIN t = 1..Len(s) + 1 /\ t[Len(s) + 1] = e
        /\ \A k \in 1..Len(s) : t[k] = s[k]
    BY AppendProperties
  <2> HIDE DEF t
  <2>2. \A k \in DOMAIN t : t[k].id # 0 => k \in DOMAIN s /\ t[k] = s[k]
    BY <1>0, <1>2, <2>1
  <2> QED
    BY <2>2 DEF Thins, Single, t
<1>3. ASSUME NEW e \in Entry, e.id = 0
      PROVE  Thins(s, <<e>> \o s)
  <2> DEFINE t == <<e>> \o s
  <2>1. /\ DOMAIN t = 1..Len(s) + 1 /\ t[1] = e
        /\ \A k \in 1..Len(s) : t[k + 1] = s[k]
    BY FrontIs
  <2> HIDE DEF t
  <2>2. \A k \in DOMAIN t : t[k].id # 0 => k - 1 \in DOMAIN s /\ t[k] = s[k - 1]
    <3> SUFFICES ASSUME NEW k \in DOMAIN t, t[k].id # 0
                 PROVE  k - 1 \in DOMAIN s /\ t[k] = s[k - 1]
      OBVIOUS
    <3>1. k # 1 /\ k \in 1..Len(s) + 1
      BY <1>3, <2>1
    <3>2. k - 1 \in 1..Len(s) /\ (k - 1) + 1 = k
      BY <1>0, <3>1
    <3> QED
      BY <1>0, <2>1, <3>2
  <2>3. ASSUME Single(s), NEW j \in DOMAIN t, NEW k \in DOMAIN t, t[j].id # 0, t[j].id = t[k].id
        PROVE  j = k
    <3>1. j - 1 = k - 1 /\ j \in Int /\ k \in Int
      BY <1>0, <2>1, <2>2, <2>3 DEF Single
    <3> QED
      BY <3>1
  <2> QED
    BY <2>2, <2>3 DEF Thins, Single, t
<1>4. ASSUME NEW n \in 1..Len(s)
      PROVE  Thins(s, RemoveAt(s, n))
  <2> DEFINE t == RemoveAt(s, n)
             from(k) == IF k < n THEN k ELSE k + 1
  <2>1. t \in Seq(Entry) /\ Len(t) = Len(s) - 1
        /\ \A k \in 1..Len(s) - 1 : t[k] = IF k < n THEN s[k] ELSE s[k + 1]
    BY RemoveAtIs
  <2> HIDE DEF t
  <2>2. DOMAIN t = 1..Len(s) - 1
    BY <1>0, <2>1
  <2>3. \A k \in DOMAIN t : from(k) \in DOMAIN s /\ t[k] = s[from(k)]
    BY <1>0, <2>1, <2>2
  <2>4. \A j, k \in DOMAIN t : from(j) = from(k) => j = k
    BY <1>0, <2>2
  <2> HIDE DEF from
  <2> QED
    BY <2>3, <2>4 DEF Thins, Single, t
<1>5. ASSUME NEW e \in ToSet(s)
      PROVE  Thins(s, RemoveFirst(s, e))
  BY <1>4, RemoveFirstIs
<1> QED
  BY <1>1, <1>2, <1>3, <1>4, <1>5

\* What is taken out is gone, when its tag was there once.
LEMMA TakenOut ==
  ASSUME NEW s \in Seq(Entry), Single(s), NEW e \in ToSet(s), e.id # 0,
         NEW k \in DOMAIN RemoveFirst(s, e)
  PROVE  RemoveFirst(s, e)[k] # e
<1>0. Len(s) \in Nat /\ DOMAIN s = 1..Len(s)
  OBVIOUS
<1>1. PICK n \in 1..Len(s) : s[n] = e /\ RemoveFirst(s, e) = RemoveAt(s, n)
  BY RemoveFirstIs
<1> DEFINE t == RemoveAt(s, n)
<1>2. t \in Seq(Entry) /\ Len(t) = Len(s) - 1
      /\ \A i \in 1..Len(s) - 1 : t[i] = IF i < n THEN s[i] ELSE s[i + 1]
  BY RemoveAtIs
<1> HIDE DEF t
<1>3. k \in 1..Len(s) - 1
  BY <1>0, <1>1, <1>2 DEF t
<1>4. PICK i \in 1..Len(s) : i # n /\ t[k] = s[i]
  <2>1. CASE k < n
    BY <1>0, <1>2, <1>3, <2>1
  <2>2. CASE ~(k < n)
    BY <1>0, <1>2, <1>3, <2>2
  <2> QED
    BY <2>1, <2>2
<1>5. s[i] # e
  BY <1>0, <1>1, <1>4 DEF Single
<1> QED
  BY <1>1, <1>4, <1>5 DEF t

\* An executed command, chain by chain.
LEMMA ExecutedIs ==
  ASSUME live \in [Chains -> Seq(Entry)], NEW c \in Command, live' = Executed(c)
  PROVE  /\ \A chain \in Chains : chain # c.chain => live'[chain] = live[chain]
         /\ c.op = "-A" => live'[c.chain] = Append(live[c.chain], c.entry)
         /\ c.op = "-I" => live'[c.chain] = <<c.entry>> \o live[c.chain]
         /\ c.op = "-D" => live'[c.chain] = RemoveFirst(live[c.chain], c.entry)
         /\ c.op \in {"-A", "-I", "-D"} /\ c.chain \in Chains /\ c.entry \in Entry
BY DEF Executed, Command

\* A command that tags nothing.
LEMMA ThinCommand ==
  ASSUME live \in [Chains -> Seq(Entry)], NEW c \in Command, live' = Executed(c),
         Executable(c), c.op = "-D" \/ c.entry.id = 0
  PROVE  \A chain \in Chains : Thins(live[chain], live'[chain])
<1> SUFFICES ASSUME NEW chain \in Chains
             PROVE  Thins(live[chain], live'[chain])
  OBVIOUS
<1> DEFINE s == live[chain]
<1>1. s \in Seq(Entry)
  OBVIOUS
<1>2. CASE chain # c.chain
  BY <1>1, <1>2, ExecutedIs, ThinSequences
<1>3. CASE chain = c.chain /\ c.op = "-D"
  <2>1. live'[chain] = RemoveFirst(s, c.entry) /\ c.entry \in ToSet(s)
    BY <1>3, ExecutedIs DEF Executable
  <2> QED
    BY <1>1, <2>1, ThinSequences
<1>4. CASE chain = c.chain /\ c.op = "-A" /\ c.entry.id = 0
  <2>1. live'[chain] = Append(s, c.entry) /\ c.entry \in Entry
    BY <1>4, ExecutedIs
  <2> QED
    BY <1>1, <1>4, <2>1, ThinSequences
<1>5. CASE chain = c.chain /\ c.op = "-I" /\ c.entry.id = 0
  <2>1. live'[chain] = <<c.entry>> \o s /\ c.entry \in Entry
    BY <1>5, ExecutedIs
  <2> QED
    BY <1>1, <1>5, <2>1, ThinSequences
<1> QED
  BY <1>2, <1>3, <1>4, <1>5, ExecutedIs

LEMMA CleanThin ==
  ASSUME NEW p, NEW cmds, NEW s, NEW t, Clean(p, cmds, s), Thins(s, t),
         p = "fill" => \A m \in 1..Len(cmds) : cmds[m].entry.id # 0
  PROVE  Clean(p, cmds, t)
<1>1. CASE p = "strip"
  BY <1>1 DEF Clean, Thins
<1>2. CASE p = "fill"
  <2>1. ASSUME NEW k \in DOMAIN t, NEW m \in 1..Len(cmds)
        PROVE  t[k].id # cmds[m].entry.id
    <3>1. CASE t[k].id = 0
      BY <1>2, <3>1
    <3>2. CASE t[k].id # 0
      BY <1>2, <3>2 DEF Clean, Thins
    <3> QED
      BY <3>1, <3>2
  <2> QED
    BY <1>2, <2>1 DEF Clean
<1> QED
  BY <1>1, <1>2 DEF Clean

\* The chain a rebuild is at.
LEMMA AtChain ==
  ASSUME LockInv, NEW w \in Workers, pc[w] \in {"list", "strip", "fill"}
  PROVE  Head(job[w].chains) \in Chains
<1>1. job[w].chains \in Seq(Chains) /\ job[w].chains # <<>>
  BY OfWorker DEF LockInv, PlaceOK, IsJob
<1> QED
  BY <1>1, HeadTailProperties

LEMMA SingleKept ==
  ASSUME SingleInv, LockInv',
         \A chain \in Chains : Thins(live[chain], live'[chain]),
         \A v \in Workers :
            \/ pc'[v] = pc[v] /\ job'[v] = job[v]
            \/ pc'[v] \in {"strip", "fill"} =>
                  Clean(pc'[v], job'[v].cmds, live'[Head(job'[v].chains)])
  PROVE  SingleInv'
<1>1. \A chain \in Chains : Single(live'[chain])
  BY DEF SingleInv, Thins
<1>2. ASSUME NEW v \in Workers, pc'[v] \in {"strip", "fill"}
      PROVE  Clean(pc'[v], job'[v].cmds, live'[Head(job'[v].chains)])
  <2>1. CASE pc'[v] = pc[v] /\ job'[v] = job[v]
    <3> DEFINE chain == Head(job[v].chains)
               cmds == job[v].cmds
    <3>1. Clean(pc[v], cmds, live[chain])
      BY <1>2, <2>1 DEF SingleInv
    <3>2. chain \in Chains
      BY <1>2, <2>1, AtChain DEF SingleInv
    <3>3. pc[v] = "fill" => \A m \in 1..Len(cmds) : cmds[m].entry.id # 0
      BY DEF SingleInv, LockInv, Shaped
    <3> HIDE DEF chain, cmds
    <3>4. Clean(pc[v], cmds, live'[chain])
      BY <3>1, <3>2, <3>3, CleanThin
    <3> QED
      BY <2>1, <3>4 DEF chain, cmds
  <2> QED
    BY <1>2, <2>1
<1> QED
  BY <1>1, <1>2 DEF SingleInv

LEMMA FillRuns ==
  ASSUME SingleInv, LockInv', NEW w \in Workers, RunCommand(w), pc[w] = "fill"
  PROVE  SingleInv'
<1> DEFINE cmds == job[w].cmds
           rest == Tail(cmds)
           c == Head(cmds)
           chain == Head(job[w].chains)
           s == live[chain]
           t == live'[chain]
<1>0. Inv /\ LockInv
  BY DEF SingleInv, LockInv
<1>1. cmds \in Seq(Command) /\ cmds # <<>> /\ live \in [Chains -> Seq(Entry)]
      /\ live' = Executed(c)
  BY <1>0, OfWorker DEF RunCommand, IsJob
<1>2. chain \in Chains
  BY <1>0, AtChain
<1>3. c = cmds[1] /\ 1 \in 1..Len(cmds) /\ c \in Command
      /\ \A k \in 1..Len(rest) : k + 1 \in 1..Len(cmds) /\ rest[k] = cmds[k + 1]
  BY <1>1, OnTail
<1>4. c.op = "-A" /\ c.chain = chain /\ \A k \in 1..Len(cmds) : cmds[k].entry.id # 0
  BY <1>0, <1>3 DEF LockInv, Shaped, AllOn
<1>5. Clean("fill", cmds, s) /\ Single(s) /\ s \in Seq(Entry)
  BY <1>1, <1>2 DEF SingleInv
<1>6. pc' = pc /\ job'[w].cmds = rest /\ job'[w].chains = job[w].chains
      /\ \A v \in Workers \ {w} : job'[v] = job[v]
  <2>1. \A v \in Workers \ {w} : job'[v] = job[v]
    BY DEF RunCommand
  <2> QED
    BY <1>0, <2>1, Assigned DEF RunCommand
<1>7. t = Append(s, c.entry) /\ c.entry \in Entry
      /\ \A ch \in Chains : ch # chain => live'[ch] = live[ch]
  <2> HIDE DEF c
  <2> QED BY <1>1, <1>3, <1>4, ExecutedIs
<1>8. /\ DOMAIN t = 1..Len(s) + 1 /\ t[Len(s) + 1] = c.entry
      /\ \A k \in 1..Len(s) : t[k] = s[k]
      /\ DOMAIN s = 1..Len(s) /\ Len(s) \in Nat
  <2> HIDE DEF s, c
  <2> QED BY <1>5, <1>7, AppendProperties
<1> HIDE DEF cmds, rest, c, s, t
<1>9. \A k \in DOMAIN s, m \in 1..Len(cmds) : s[k].id # cmds[m].entry.id
  BY <1>5 DEF Clean
<1>10. \A m, n \in 1..Len(cmds) : cmds[m].entry.id = cmds[n].entry.id => m = n
  BY <1>5 DEF Clean
<1>11. \A k \in DOMAIN t :
          \/ k \in DOMAIN s /\ t[k] = s[k]
          \/ k = Len(s) + 1 /\ t[k] = cmds[1].entry
  BY <1>3, <1>8
<1>12. Single(t)
  BY <1>3, <1>5, <1>9, <1>11 DEF Single
<1>13. \A m \in 1..Len(rest) : m + 1 # 1 /\ m \in Int
  OBVIOUS
<1>14. \A m, n \in 1..Len(rest) : rest[m].entry.id = rest[n].entry.id => m = n
  <2> SUFFICES ASSUME NEW m \in 1..Len(rest), NEW n \in 1..Len(rest),
                      rest[m].entry.id = rest[n].entry.id
               PROVE  m = n
    OBVIOUS
  <2>1. m + 1 = n + 1
    BY <1>3, <1>10
  <2> QED
    BY <1>13, <2>1
<1>15. \A k \in DOMAIN t, m \in 1..Len(rest) : t[k].id # rest[m].entry.id
  BY <1>3, <1>9, <1>10, <1>11, <1>13
<1>16. Clean("fill", rest, t)
  BY <1>14, <1>15 DEF Clean
<1>17. \A ch \in Chains : Single(live'[ch])
  BY <1>7, <1>12 DEF SingleInv, t
<1>18. ASSUME NEW v \in Workers, pc'[v] \in {"strip", "fill"}
       PROVE  Clean(pc'[v], job'[v].cmds, live'[Head(job'[v].chains)])
  <2>1. v = w
    BY <1>0, <1>6, <1>18 DEF LockInv, Exclusive, Rebuilding
  <2> QED
    BY <1>6, <1>16, <2>1 DEF t
<1> QED
  BY <1>17, <1>18 DEF SingleInv

LEMMA StripRuns ==
  ASSUME SingleInv, LockInv', NEW w \in Workers, RunCommand(w), pc[w] = "strip"
  PROVE  SingleInv'
<1> DEFINE cmds == job[w].cmds
           rest == Tail(cmds)
           c == Head(cmds)
           chain == Head(job[w].chains)
           s == live[chain]
           t == live'[chain]
<1>0. Inv /\ LockInv
  BY DEF SingleInv, LockInv
<1>1. cmds \in Seq(Command) /\ cmds # <<>> /\ live \in [Chains -> Seq(Entry)]
      /\ live' = Executed(c) /\ Executable(c)
  BY <1>0, OfWorker DEF RunCommand, IsJob
<1>2. chain \in Chains
  BY <1>0, AtChain
<1>3. /\ c = cmds[1] /\ 1 \in 1..Len(cmds) /\ c \in Command
      /\ \A k \in 1..Len(cmds) : k # 1 => k - 1 \in 1..Len(rest) /\ cmds[k] = rest[k - 1]
  BY <1>1, OnTail
<1>4. c.op = "-D" /\ c.chain = chain
  BY <1>0, <1>3 DEF LockInv, Shaped, AllOn
<1>5. Clean("strip", cmds, s) /\ Single(s) /\ s \in Seq(Entry)
  BY <1>1, <1>2 DEF SingleInv
<1>6. pc' = pc /\ job'[w].cmds = rest /\ job'[w].chains = job[w].chains
      /\ \A v \in Workers \ {w} : job'[v] = job[v]
  <2>1. \A v \in Workers \ {w} : job'[v] = job[v]
    BY DEF RunCommand
  <2> QED
    BY <1>0, <2>1, Assigned DEF RunCommand
<1>7. t = RemoveFirst(s, c.entry) /\ c.entry \in ToSet(s)
  <2> HIDE DEF c
  <2> QED BY <1>1, <1>3, <1>4, ExecutedIs DEF Executable
<1>8. \A ch \in Chains : Thins(live[ch], live'[ch])
  <2> HIDE DEF c
  <2> QED BY <1>1, <1>3, <1>4, ThinCommand
<1>9. Thins(s, t)
  BY <1>2, <1>8
<1> HIDE DEF cmds, rest, c, s, t
<1>10. ASSUME NEW k \in DOMAIN t, t[k].id # 0
       PROVE  \E m \in 1..Len(rest) : rest[m].entry = t[k]
  <2>1. PICK j \in DOMAIN s : t[k] = s[j]
    BY <1>9, <1>10 DEF Thins
  <2>2. PICK m \in 1..Len(cmds) : cmds[m].entry = t[k]
    BY <1>5, <1>10, <2>1 DEF Clean
  <2>3. m # 1
    BY <1>3, <1>5, <1>7, <1>10, <2>2, TakenOut
  <2> QED
    BY <1>3, <2>2, <2>3
<1>11. Clean("strip", rest, t)
  BY <1>10 DEF Clean
<1>12. Clean(pc'[w], job'[w].cmds, live'[Head(job'[w].chains)])
  BY <1>6, <1>11 DEF t
<1> QED
  BY <1>6, <1>8, <1>12, SingleKept

\* Where a step of a worker leads, and what may touch the chains.
LEMMA Arrivals ==
  ASSUME Inv, NEW w \in Workers, Step(w)
  PROVE  \/ RunCommand(w) \/ ListChain(w) \/ ReloadRules(w) \/ Claim(w)
         \/ /\ live' = live /\ pc'[w] = "apply"
            /\ Insert(w) \/ CommitInsert(w, job[w].req.shape)
         \/ /\ live' = live /\ pc'[w] \in Scanning
            /\ \/ Snapshot(w) \/ ScanChain(w) \/ ScanFails(w) \/ Adopt(w) \/ DropAdopted(w)
               \/ ChainScanned(w)
         \/ live' = live /\ pc'[w] \notin {"strip", "fill", "apply"} \cup Scanning
<1>0. Scanning = {"scan", "adopt", "claim", "drop"}
  BY DEF Scanning
<1>1. CASE Transaction(w)
  <2>1. ASSUME Decline(w)
        PROVE  live' = live /\ pc'[w] \notin {"strip", "fill", "apply"} \cup Scanning
    BY <1>0, <2>1, Goes DEF Decline
  <2>2. ASSUME NEW t, NEW p, NEW j, Commit(w, t, p, j), p \notin {"strip", "fill", "apply"} \cup Scanning
        PROVE  live' = live /\ pc'[w] \notin {"strip", "fill", "apply"} \cup Scanning
    BY <1>0, <2>2, Goes DEF Commit
  <2>3. CASE Lock(w) \/ LockTimeout(w) \/ Read(w) \/ UnblockCommit(w)
    BY <1>0, <2>3, Goes DEF Lock, LockTimeout, Read, UnblockCommit
  <2>4. CASE AddInput(w) \/ Block(w)
    <3>1. Decline(w) \/ CommitInsert(w, job[w].req.shape)
      BY <2>4 DEF AddInput, Block
    <3>2. CASE CommitInsert(w, job[w].req.shape)
      <4>1. live' = live /\ Goto(w, "apply")
        BY <3>2 DEF CommitInsert, Commit
      <4> QED
        BY <3>2, <4>1, Goes
    <3> QED
      BY <2>1, <3>1, <3>2
  <2>5. CASE Toggle(w)
    <3>1. \/ Decline(w)
          \/ live' = live /\ (Goto(w, "flock") \/ Goto(w, "enable") \/ Goto(w, "unapply"))
      BY <2>5 DEF Toggle, Commit
    <3> QED
      BY <1>0, <2>1, <3>1, Goes
  <2>6. CASE Disable(w) \/ Delete(w)
    <3>1. Decline(w) \/ (live' = live /\ Goto(w, "unapply"))
      BY <2>6 DEF Disable, Delete, TakeOut, Commit
    <3> QED
      BY <1>0, <2>1, <3>1, Goes
  <2>7. CASE Reorder(w)
    <3>1. Decline(w) \/ (live' = live /\ Goto(w, "flock"))
      BY <2>7 DEF Reorder, Commit
    <3> QED
      BY <1>0, <2>1, <3>1, Goes
  <2>8. CASE Unblock(w)
    <3>1. Decline(w) \/ (live' = live /\ Goto(w, "unblock"))
      BY <2>8 DEF Unblock
    <3> QED
      BY <1>0, <2>1, <3>1, Goes
  <2> QED
    BY <1>1, <2>3, <2>4, <2>5, <2>6, <2>7, <2>8 DEF Transaction
<1>2. CASE UnlockedInsert(w)
  <2>1. CASE ReadMax(w)
    BY <1>0, <2>1, Goes DEF ReadMax
  <2>2. CASE Insert(w)
    BY <2>2, Goes DEF Insert
  <2> QED
    BY <1>2, <2>1, <2>2 DEF UnlockedInsert
<1>3. ASSUME AbortRebuild(w)
      PROVE  pc'[w] \notin {"strip", "fill", "apply"} \cup Scanning
  BY <1>0, <1>3, Goes DEF AbortRebuild
<1>4. CASE Commands(w)
  <2>1. CASE FailCommand(w)
    <3>1. live' = live
      BY <2>1 DEF FailCommand
    <3>2. \/ Goto(w, "undo") \/ Finish(w) \/ AbortRebuild(w)
          \/ pc[w] \in {"unapply", "sync"} /\ pc' = pc
      BY <2>1 DEF FailCommand
    <3> QED
      BY <1>0, <1>3, <3>1, <3>2, Goes
  <2>2. CASE Applied(w) \/ Undo(w)
    BY <1>0, <2>2, Goes DEF Applied, Undo
  <2> QED
    BY <1>4, <2>1, <2>2 DEF Commands
<1>5. CASE Rebuild(w)
  <2>1. CASE SyncStart(w) \/ SyncBlocksDone(w) \/ TakeFlock(w) \/ ChainRebuilt(w)
    <3>1. live' = live
      BY <2>1 DEF SyncStart, SyncBlocksDone, TakeFlock, ChainRebuilt
    <3>2. \/ Goto(w, "sync") \/ Goto(w, "flock") \/ Finish(w) \/ Goto(w, "list")
          \/ Goto(w, "snapshot")
      BY <2>1 DEF SyncStart, SyncBlocksDone, TakeFlock, ChainRebuilt
    <3> QED
      BY <1>0, <3>1, <3>2, Goes
  <2>2. CASE ListFails(w)
    BY <1>3, <2>2 DEF ListFails
  <2> QED
    BY <1>5, <2>1, <2>2 DEF Rebuild
<1>6. CASE Discovery(w)
  <2>1. CASE AllScanned(w)
    <3>1. live' = live /\ (Finish(w) \/ Goto(w, "list"))
      BY <2>1 DEF AllScanned, UnlockedRebuild
    <3> QED
      BY <1>0, <3>1, Goes
  <2>2. CASE Snapshot(w) \/ ScanChain(w) \/ ScanFails(w) \/ Adopt(w) \/ DropAdopted(w)
             \/ ChainScanned(w)
    <3>1. live' = live /\ (Goto(w, "scan") \/ Goto(w, "adopt") \/ Goto(w, "claim") \/ ScanFails(w))
      BY <2>2 DEF Snapshot, ScanChain, ScanFails, Adopt, DropAdopted, ChainScanned
    <3> QED
      BY <1>0, <2>2, <3>1, Goes DEF ScanFails
  <2> QED
    BY <1>6, <2>1, <2>2 DEF Discovery
<1> QED
  BY <1>1, <1>2, <1>4, <1>5, <1>6 DEF Step

\* The other steps of a worker leave the chains alone.
LEMMA ChainsAlone ==
  ASSUME Inv, NEW w \in Workers, Step(w)
  PROVE  \/ RunCommand(w) \/ ListChain(w) \/ ReloadRules(w) \/ Claim(w)
         \/ live' = live /\ pc'[w] \notin {"strip", "fill"}
BY Arrivals DEF Scanning

\* Discovery deletes a live rule.
LEMMA ClaimThins ==
  ASSUME LockInv, NEW w \in Workers, Claim(w), live' # live
  PROVE  \A chain \in Chains : Thins(live[chain], live'[chain])
<1> DEFINE f == Head(job[w].found)
           c == [op |-> "-D", chain |-> Head(job[w].scan), entry |-> f.entry, skip |-> 0]
<1>1. live' = Executed(c) /\ Executable(c)
  BY DEF Claim
<1>2. Inv /\ pc[w] = "claim"
  BY DEF LockInv, Claim
<1>3. /\ job[w].found \in Seq([entry : Entry, pos : Int]) /\ job[w].found # <<>>
      /\ job[w].scan \in Seq(Chains) /\ job[w].scan # <<>>
  BY <1>2, OfWorker DEF PlaceOK, IsJob
<1>4. f \in [entry : Entry, pos : Int] /\ Head(job[w].scan) \in Chains
  BY <1>3, HeadTailProperties
<1>5. c \in Command /\ c.op = "-D"
  BY <1>4 DEF Command
<1> HIDE DEF c
<1> QED
  BY <1>1, <1>2, <1>5, OfWorker, ThinCommand

\* A step tags nothing new, unless it fills a chain or applies an added rule.
LEMMA StepThins ==
  ASSUME LockInv, NEW w \in Workers, Step(w),
         RunCommand(w) => pc[w] # "fill" /\ (pc[w] = "apply" => NoAdds)
  PROVE  \A chain \in Chains : Thins(live[chain], live'[chain])
<1>0. Inv /\ live \in [Chains -> Seq(Entry)]
  BY OfWorker DEF LockInv
<1>1. live' = live => \A chain \in Chains : Thins(live[chain], live'[chain])
  BY <1>0, ThinSequences
<1>2. CASE RunCommand(w)
  <2> DEFINE cmds == job[w].cmds
             c == Head(cmds)
  <2>1. cmds \in Seq(Command) /\ cmds # <<>> /\ live' = Executed(c) /\ Executable(c)
    BY <1>0, <1>2, OfWorker DEF RunCommand, IsJob
  <2>2. c \in Command /\ c = cmds[1] /\ 1 \in 1..Len(cmds)
    BY <2>1, OnTail
  <2>3. Untagged(cmds) \/ AllOn(cmds, "-D", Head(job[w].chains))
    BY <1>2 DEF LockInv, Shaped, RunCommand
  <2>4. c.op = "-D" \/ c.entry.id = 0
    BY <2>2, <2>3 DEF Untagged, AllOn
  <2> HIDE DEF c
  <2> QED
    BY <1>0, <2>1, <2>2, <2>4, ThinCommand
<1>3. CASE Claim(w)
  BY <1>1, <1>3, ClaimThins
<1>4. CASE ListChain(w) \/ ReloadRules(w)
  BY <1>1, <1>4 DEF ListChain, ReloadRules
<1> QED
  BY <1>0, <1>1, <1>2, <1>3, <1>4, ChainsAlone

LEMMA SingleStep ==
  ASSUME NoAdds, SingleInv, LockInv', NEW w \in Workers, Step(w)
  PROVE  SingleInv'
<1>0. Inv /\ LockInv /\ live \in [Chains -> Seq(Entry)]
  BY OfWorker DEF SingleInv, LockInv
<1>1. \A v \in Workers \ {w} : pc'[v] = pc[v] /\ job'[v] = job[v]
  BY <1>0, EveryStepOK DEF StepOK, Moves, Inv
<1>2. live' = live => \A chain \in Chains : Thins(live[chain], live'[chain])
  BY <1>0, ThinSequences
<1>3. CASE RunCommand(w)
  <2>1. CASE pc[w] \notin {"strip", "fill"}
    <3>1. pc'[w] \notin {"strip", "fill"}
      BY <1>3, <2>1 DEF RunCommand
    <3> QED
      BY <1>0, <1>1, <2>1, <3>1, StepThins, SingleKept
  <2> QED
    BY <1>3, <2>1, FillRuns, StripRuns
<1>4. CASE ListChain(w)
  <2> DEFINE chain == Head(job[w].chains)
  <2>1. PICK x : x = StripCommands(chain)
    OBVIOUS
  <2>2. job' = [job EXCEPT ![w].cmds = x] /\ live' = live /\ Goto(w, "strip")
    BY <1>4, <2>1 DEF ListChain
  <2>3. job'[w].cmds = x /\ job'[w].chains = job[w].chains
    BY <1>0, <2>2, Assigned
  <2>4. chain \in Chains
    BY <1>0, <1>4, AtChain DEF ListChain
  <2>5. pc'[w] = "strip"
    BY <1>0, <2>2, Goes
  <2>6. Clean("strip", x, live[chain])
    <3> HIDE DEF chain
    <3> QED BY <1>0, <2>1, <2>4, StripIs DEF Clean
  <2> QED
    BY <1>1, <1>2, <2>2, <2>3, <2>5, <2>6, SingleKept
<1>5. CASE ReloadRules(w)
  <2> DEFINE chain == Head(job[w].chains)
             s == live[chain]
             ids == WantedIds(rules, chain)
  <2>1. PICK x : x = FillCommands(rules, chain)
    OBVIOUS
  <2>2. job' = [job EXCEPT ![w].cmds = x] /\ live' = live /\ Goto(w, "fill")
        /\ pc[w] = "strip" /\ job[w].cmds = <<>>
    BY <1>5, <2>1 DEF ReloadRules
  <2>3. job'[w].cmds = x /\ job'[w].chains = job[w].chains
    BY <1>0, <2>2, Assigned
  <2>4. chain \in Chains /\ FiniteTable(rules)
    BY <1>0, <2>2, AtChain, OfWorker
  <2>5. pc'[w] = "fill"
    BY <1>0, <2>2, Goes
  <2>6. \A k \in DOMAIN s : s[k].id = 0
    BY <2>2 DEF SingleInv, Clean
  <2>7. Len(x) = Len(ids) /\ ids \in Seq(Wanted(rules, chain))
        /\ (\A k \in 1..Len(ids) : Fills(x[k], rules, chain, k))
        /\ (\A k, m \in 1..Len(ids) : k < m => Before(rules, ids[k], ids[m]))
        /\ Wanted(rules, chain) \subseteq DOMAIN rules
    <3> HIDE DEF chain
    <3> QED BY <2>1, <2>4, FillIs
  <2>8. \A k \in 1..Len(ids) : x[k].entry.id = ids[k] /\ ids[k] # 0
    <3> HIDE DEF chain
    <3> QED BY <2>4, <2>7, WantedOnce DEF Fills
  <2>9. \A k, m \in 1..Len(ids) : ids[k] = ids[m] => k = m
    <3> HIDE DEF chain
    <3> QED BY <2>4, WantedOnce
  <2> HIDE DEF chain, s, ids
  <2>12. Clean("fill", x, s)
    BY <2>6, <2>7, <2>8, <2>9 DEF Clean
  <2> QED
    BY <1>1, <1>2, <2>2, <2>3, <2>5, <2>12, SingleKept DEF chain, s
<1>6. CASE Claim(w)
  <2>1. pc'[w] \notin {"strip", "fill"}
    BY <1>0, <1>6, Goes DEF Claim
  <2> QED
    BY <1>0, <1>1, <1>2, <1>6, <2>1, ClaimThins, SingleKept
<1>7. CASE live' = live /\ pc'[w] \notin {"strip", "fill"}
  BY <1>1, <1>2, <1>7, SingleKept
<1> QED
  BY <1>0, <1>3, <1>4, <1>5, <1>6, <1>7, ChainsAlone

\* Rules typed, deleted and flushed by hand.
LEMMA HandThins ==
  ASSUME Inv,
         \/ \E m \in ManualRules : ManualAppend(m[1], m[2])
         \/ \E chain \in Chains : \E k \in DOMAIN live[chain] : ManualDelete(chain, k)
         \/ Flush
  PROVE  \A c \in Chains : Thins(live[c], live'[c])
<1>0. live \in [Chains -> Seq(Entry)]
  BY DEF Inv, SharedOK
<1>1. \A c \in Chains : Thins(live[c], live[c])
  BY <1>0, ThinSequences
<1>2. ASSUME NEW m \in ManualRules, ManualAppend(m[1], m[2])
      PROVE  \A c \in Chains : Thins(live[c], live'[c])
  <2> DEFINE e == [id |-> 0, shape |-> m[2]]
  <2>1. m[1] \in Chains /\ e \in Entry /\ e.id = 0
    BY ManualAssumption DEF Entry
  <2>2. live' = [live EXCEPT ![m[1]] = Append(@, e)]
    BY <1>2 DEF ManualAppend
  <2> HIDE DEF e
  <2>3. Thins(live[m[1]], Append(live[m[1]], e))
    BY <1>0, <2>1, ThinSequences
  <2> QED
    BY <1>0, <1>1, <2>1, <2>2, <2>3
<1>3. ASSUME NEW chain \in Chains, NEW k \in DOMAIN live[chain], ManualDelete(chain, k)
      PROVE  \A c \in Chains : Thins(live[c], live'[c])
  <2>1. live' = [live EXCEPT ![chain] = RemoveAt(@, k)]
    BY <1>3 DEF ManualDelete
  <2>2. live[chain] \in Seq(Entry) /\ k \in 1..Len(live[chain])
    BY <1>0, <1>3
  <2>3. Thins(live[chain], RemoveAt(live[chain], k))
    BY <2>2, ThinSequences
  <2> QED
    BY <1>0, <1>1, <2>1, <2>3
<1>4. ASSUME Flush
      PROVE  \A c \in Chains : Thins(live[c], live'[c])
  <2>1. \A c \in Chains : live'[c] = <<>>
    BY <1>4 DEF Flush
  <2> QED
    BY <1>0, <2>1, ThinSequences
<1> QED
  BY <1>2, <1>3, <1>4

LEMMA SingleNext == NoAdds /\ SingleInv /\ [Next]_vars => SingleInv'
<1> SUFFICES ASSUME NoAdds, SingleInv, [Next]_vars
             PROVE  SingleInv'
  OBVIOUS
<1>0. Inv /\ LockInv /\ LockInv' /\ live \in [Chains -> Seq(Entry)]
  BY LockNext DEF SingleInv, LockInv, Inv, SharedOK
<1>1. live' = live => \A c \in Chains : Thins(live[c], live'[c])
  BY <1>0, ThinSequences
<1>2. CASE UNCHANGED vars
  BY <1>0, <1>1, <1>2, SingleKept DEF vars
<1>3. ASSUME NEW w \in Workers, Step(w)
      PROVE  SingleInv'
  BY <1>0, <1>3, SingleStep
<1>4. ASSUME NEW w \in Workers, live' = live, pc'[w] \notin {"strip", "fill"},
             \A v \in Workers \ {w} : pc'[v] = pc[v] /\ job'[v] = job[v]
      PROVE  SingleInv'
  BY <1>0, <1>1, <1>4, SingleKept
<1>5. ASSUME NEW w \in Workers, NEW r \in Requests, Receive(w, r)
      PROVE  SingleInv'
  <2>1. pc'[w] \in {"max", "start", "flock", "lock"} /\ live' = live
    BY <1>0, <1>5, Goes DEF Receive, EntryPlace
  <2>2. \A v \in Workers \ {w} : pc'[v] = pc[v] /\ job'[v] = job[v]
    BY <1>0, <1>5 DEF Receive, Goto, Inv
  <2> QED
    BY <1>4, <2>1, <2>2
<1>6. ASSUME NEW w \in Workers, Crash(w)
      PROVE  SingleInv'
  <2>1. pc'[w] = "idle" /\ live' = live
    BY <1>0, <1>6, Goes DEF Crash
  <2>2. \A v \in Workers \ {w} : pc'[v] = pc[v] /\ job'[v] = job[v]
    BY <1>0, <1>6 DEF Crash, Finish, Goto, Inv
  <2> QED
    BY <1>4, <2>1, <2>2
<1>7. CASE Environment
  <2>1. CASE \/ \E m \in ManualRules : ManualAppend(m[1], m[2])
             \/ \E chain \in Chains : \E k \in DOMAIN live[chain] : ManualDelete(chain, k)
             \/ Flush
    <3>1. UNCHANGED <<pc, job>>
      BY <2>1 DEF ManualAppend, ManualDelete, Flush
    <3>2. \A c \in Chains : Thins(live[c], live'[c])
      BY <1>0, <2>1, HandThins
    <3> QED
      BY <1>0, <3>1, <3>2, SingleKept
  <2> QED
    BY <1>5, <1>6, <1>7, <2>1 DEF Environment
<1> QED
  BY <1>2, <1>3, <1>7 DEF Next

LEMMA ReflectionSingle ==
  ASSUME NEW t, FiniteTable(t), NEW chain \in Chains
  PROVE  /\ Single(Reflection(t)[chain])
         /\ \A k \in DOMAIN Reflection(t)[chain] :
               Reflection(t)[chain][k].id \in {0} \cup DOMAIN t
<1> DEFINE front == IF chain \in {"FORWARD", "INPUT"} THEN BlockEntries(t) ELSE <<>>
           back == OrderedEntries(t, chain)
           blocks == {i \in Enabled(t) : IsBlock(t[i].shape)}
           ids == Ordered(t, blocks)
           wanted == WantedIds(t, chain)
<1>1. front \in Seq(Entry) /\ back \in Seq(Entry)
  BY ReflectedTypes, EmptySeq
<1>2. \A k \in DOMAIN front : front[k].id = 0
  <2>1. blocks \subseteq DOMAIN t /\ IsFiniteSet(blocks)
    BY FS_Subset DEF Enabled, FiniteTable
  <2>2. ids \in Seq(blocks)
    <3> HIDE DEF blocks
    <3> QED BY <2>1, OrderedElements DEF FiniteTable
  <2>3. BlockEntries(t) = [k \in DOMAIN ids |-> LiveEntry(ids[k], t[ids[k]].shape)]
    BY DEF BlockEntries
  <2> HIDE DEF ids
  <2>4. \A k \in DOMAIN ids : ids[k] \in blocks
    BY <2>2
  <2>5. \A i \in blocks : LiveEntry(i, t[i].shape).id = 0
    BY DEF LiveEntry
  <2> HIDE DEF blocks
  <2>6. \A k \in DOMAIN BlockEntries(t) : BlockEntries(t)[k].id = 0
    BY <2>3, <2>4, <2>5
  <2> QED
    BY <2>6
<1>3. /\ DOMAIN back = DOMAIN wanted
      /\ \A k \in DOMAIN wanted : back[k].id = wanted[k] /\ wanted[k] \in DOMAIN t
  <2>1. back = [k \in DOMAIN wanted |-> LiveEntry(wanted[k], t[wanted[k]].shape)]
    BY DEF OrderedEntries
  <2>2. wanted \in Seq(Wanted(t, chain)) /\ Wanted(t, chain) \subseteq DOMAIN t
    BY FillIs
  <2>3. \A k \in DOMAIN wanted : LiveEntry(wanted[k], t[wanted[k]].shape).id = wanted[k]
    BY <2>2, WantedOnce
  <2>4. \A k \in DOMAIN wanted : wanted[k] \in DOMAIN t
    BY <2>2
  <2> HIDE DEF back, wanted
  <2> QED
    BY <2>1, <2>3, <2>4
<1>4. \A j, k \in DOMAIN back : back[j].id = back[k].id => j = k
  <2>1. DOMAIN wanted = 1..Len(wanted)
    BY FillIs
  <2> QED
    BY <1>3, <2>1, WantedOnce
<1>5. Reflection(t)[chain] = front \o back
  BY DEF Reflection
<1> HIDE DEF front, back
<1>6. /\ DOMAIN (front \o back) = 1..Len(front) + Len(back)
      /\ \A k \in 1..Len(front) + Len(back) :
            (front \o back)[k] = IF k <= Len(front) THEN front[k] ELSE back[k - Len(front)]
      /\ DOMAIN front = 1..Len(front) /\ DOMAIN back = 1..Len(back)
      /\ Len(front) \in Nat /\ Len(back) \in Nat
  BY <1>1, ConcatProperties
<1> DEFINE both == front \o back
<1> HIDE DEF both
<1>7. \A k \in DOMAIN both : both[k].id # 0 =>
         k - Len(front) \in DOMAIN back /\ both[k] = back[k - Len(front)]
  <2> SUFFICES ASSUME NEW k \in DOMAIN both, both[k].id # 0
               PROVE  k - Len(front) \in DOMAIN back /\ both[k] = back[k - Len(front)]
    OBVIOUS
  <2>1. k \in 1..Len(front) + Len(back)
    BY <1>6 DEF both
  <2>2. ~(k <= Len(front))
    BY <1>2, <1>6, <2>1 DEF both
  <2> QED
    BY <1>6, <2>1, <2>2 DEF both
<1>8. \A j, k \in DOMAIN both : both[j].id # 0 /\ both[j].id = both[k].id => j = k
  <2> SUFFICES ASSUME NEW j \in DOMAIN both, NEW k \in DOMAIN both,
                      both[j].id # 0, both[j].id = both[k].id
               PROVE  j = k
    OBVIOUS
  <2>1. j - Len(front) = k - Len(front)
    BY <1>4, <1>7
  <2>2. j \in Int /\ k \in Int
    BY <1>6 DEF both
  <2> QED
    BY <1>6, <2>1, <2>2
<1>9. \A k \in DOMAIN both : both[k].id \in {0} \cup DOMAIN t
  BY <1>3, <1>7
<1> QED
  BY <1>5, <1>8, <1>9 DEF Single, both

LEMMA SingleInit == Init => SingleInv
<1> SUFFICES ASSUME Init
             PROVE  SingleInv
  OBVIOUS
<1>1. LockInv /\ FiniteTable(rules) /\ live = Reflection(rules)
  BY LockInit, OfWorker DEF Init, LockInv, Inv, SharedOK
<1>2. \A w \in Workers : pc[w] = "idle"
  BY DEF Init
<1> QED
  BY <1>1, <1>2, ReflectionSingle DEF SingleInv

\* _rebuild_chain, discover_cli_rules, toggle_rule: while no request adds a
\* rule, no rule is ever live twice in a chain.  Rebuilds, synchronisations and
\* discoveries may overlap, commands may fail, workers may be killed and rules
\* deleted by hand at any step.
THEOREM NeverLiveTwice == NoAdds /\ Spec => []OneLiveCopy
<1>1. SingleInv => OneLiveCopy
  <2> SUFFICES ASSUME SingleInv, NEW c \in Chains, NEW e \in ToSet(Owned(c))
               PROVE  Copies(c, e) = 1
    BY DEF OneLiveCopy
  <2> DEFINE s == live[c]
             own == {k \in DOMAIN s : s[k].id # 0}
  <2>1. s \in Seq(Entry) /\ own \subseteq DOMAIN s /\ Single(s)
    BY OfWorker DEF SingleInv, LockInv, Inv, SharedOK
  <2>2. Owned(c) = Selected(s, own)
    BY DEF Owned
  <2>3. PICK k \in DOMAIN Owned(c) : e = Owned(c)[k]
    BY DEF ToSet
  <2>4. PICK i \in own : e = s[i]
    <3> HIDE DEF own, s
    <3> QED BY <2>1, <2>2, <2>3, SelectedElements
  <2>5. {j \in DOMAIN live[c] : live[c][j] = e} = {i}
    BY <2>1, <2>4 DEF Single
  <2> QED
    BY <2>5, FS_Singleton DEF Copies
<1>2. NoAdds /\ Spec => []SingleInv
  <2> SUFFICES ASSUME NoAdds
               PROVE  Spec => []SingleInv
    BY DEF NoAdds
  <2>1. SingleInv /\ [Next]_vars => SingleInv'
    BY SingleNext
  <2> QED
    BY <2>1, SingleInit, PTL DEF Spec
<1> QED
  BY <1>1, <1>2, PTL

-----------------------------------------------------------------------------
(* Discovery and the rows its tags name. *)

\* Rows go, or one comes under the next id.
IdsGrow ==
    \/ DOMAIN rules' \subseteq DOMAIN rules /\ nextId' = nextId
    \/ DOMAIN rules' = DOMAIN rules \cup {nextId} /\ nextId' = nextId + 1

LEMMA StepIds ==
  ASSUME Inv, NEW w \in Workers, Step(w)
  PROVE  IdsGrow
<1>1. \A id, row : /\ DOMAIN With(rules, id, row) = DOMAIN rules \cup {id}
                   /\ DOMAIN Without(rules, id) \subseteq DOMAIN rules
                   /\ DOMAIN Updated(rules, id, row) = DOMAIN rules
  BY DEF With, Without, Updated
<1>2. ASSUME Decline(w) \/ UNCHANGED <<rules, nextId>>
      PROVE  IdsGrow
  BY <1>2 DEF Decline, IdsGrow
<1>3. ASSUME NEW shape, CommitInsert(w, shape)
      PROVE  IdsGrow
  BY <1>1, <1>3 DEF CommitInsert, Commit, IdsGrow
<1>4. ASSUME NEW id, rules' = Without(rules, id) \/ \E row : rules' = Updated(rules, id, row),
             nextId' = nextId
      PROVE  IdsGrow
  BY <1>1, <1>4 DEF IdsGrow
<1>5. CASE Transaction(w)
  <2>1. CASE Lock(w) \/ LockTimeout(w) \/ Read(w) \/ Unblock(w)
    BY <1>2, <2>1 DEF Lock, LockTimeout, Read, Unblock
  <2>2. CASE AddInput(w) \/ Block(w)
    BY <1>2, <1>3, <2>2 DEF AddInput, Block
  <2>3. CASE Toggle(w)
    <3> DEFINE id == job[w].req.id
    <3>1. Decline(w) \/ (nextId' = nextId /\ \E row : rules' = Updated(rules, id, row))
      BY <2>3 DEF Toggle, Commit
    <3> QED
      BY <1>2, <1>4, <3>1
  <2>4. CASE Disable(w) \/ Delete(w)
    <3> DEFINE id == job[w].req.id
    <3>1. \/ Decline(w)
          \/ /\ nextId' = nextId
             /\ rules' = Without(rules, id) \/ \E row : rules' = Updated(rules, id, row)
      BY <2>4 DEF Disable, Delete, TakeOut, Commit
    <3> QED
      BY <1>2, <1>4, <3>1
  <2>5. CASE Reorder(w)
    <3> DEFINE id == job[w].req.id
    <3>1. Decline(w) \/ (nextId' = nextId /\ \E row : rules' = Updated(rules, id, row))
      BY <2>5 DEF Reorder, Commit
    <3> QED
      BY <1>2, <1>4, <3>1
  <2>6. CASE UnblockCommit(w)
    BY <1>4, <2>6 DEF UnblockCommit
  <2> QED
    BY <1>5, <2>1, <2>2, <2>3, <2>4, <2>5, <2>6 DEF Transaction
<1>6. CASE UnlockedInsert(w)
  <2>1. CASE ReadMax(w)
    BY <1>2, <2>1 DEF ReadMax
  <2>2. CASE Insert(w)
    BY <1>1, <2>2 DEF Insert, IdsGrow
  <2> QED
    BY <1>6, <2>1, <2>2 DEF UnlockedInsert
<1>7. CASE Commands(w)
  <2>1. CASE Undo(w)
    BY <1>4, <2>1 DEF Undo
  <2> QED
    BY <1>2, <1>7, <2>1 DEF Commands, RunCommand, FailCommand, Applied
<1>8. CASE Rebuild(w)
  BY <1>2, <1>8 DEF Rebuild, SyncStart, SyncBlocksDone, TakeFlock, ListChain, ListFails,
                    ReloadRules, ChainRebuilt
<1>9. CASE Discovery(w)
  <2>1. CASE Adopt(w)
    BY <1>1, <2>1 DEF Adopt, IdsGrow
  <2>2. CASE DropAdopted(w)
    BY <1>4, <2>2 DEF DropAdopted
  <2> QED
    BY <1>2, <1>9, <2>1, <2>2
       DEF Discovery, Snapshot, ScanChain, ScanFails, Claim, ChainScanned, AllScanned
<1> QED
  BY <1>5, <1>6, <1>7, <1>8, <1>9 DEF Step

\* No two requests are ever in flight together.
Alone == \A v, w \in Workers : v = w

\* What the commands add has an id below n.
Fresh(cmds, n) == \A k \in 1..Len(cmds) : cmds[k].op = "-D" \/ cmds[k].entry.id < n

\* What a discovery relies on: the tags that name a row were in its snapshot,
\* and the tags it is about to adopt name none.
Watches(p, j, lv, t, n) ==
    p \in Scanning =>
        /\ \A c \in Chains : \A k \in DOMAIN lv[c] :
              lv[c][k].id \in DOMAIN t => lv[c][k].id \in DOMAIN j.snap
        /\ p # "scan" => \A k \in 1..Len(j.found) :
              j.found[k].entry.id < n /\ j.found[k].entry.id \notin DOMAIN t

TagInv ==
    /\ LockInv
    /\ \A c \in Chains : \A k \in DOMAIN live[c] : live[c][k].id < nextId
    /\ \A w \in Workers :
          /\ pc[w] \in {"apply", "fill"} => Fresh(job[w].cmds, nextId)
          /\ Watches(pc[w], job[w], live, rules, nextId)

LEMMA WatchesKept ==
  ASSUME TagInv, Inv', IdsGrow, \A c \in Chains : Thins(live[c], live'[c]),
         NEW p, NEW j, IsJob(j), Watches(p, j, live, rules, nextId)
  PROVE  /\ Watches(p, j, live', rules', nextId')
         /\ \A c \in Chains : \A k \in DOMAIN live'[c] : live'[c][k].id < nextId'
<1>1. nextId \in Nat \ {0} /\ nextId' \in Nat \ {0} /\ nextId' >= nextId
        /\ 0 \notin DOMAIN rules'
        /\ (\A i \in DOMAIN rules' : i \in DOMAIN rules \/ i = nextId)
        /\ live' \in [Chains -> Seq(Entry)]
  BY DEF TagInv, LockInv, Inv, SharedOK, IdsGrow, FiniteTable, IsTable
<1>2. ASSUME NEW c \in Chains, NEW k \in DOMAIN live'[c]
      PROVE  /\ live'[c][k].id < nextId'
             /\ live'[c][k].id # 0 => /\ live'[c][k].id < nextId
                                      /\ \E m \in DOMAIN live[c] : live'[c][k] = live[c][m]
  <2>1. live'[c][k].id \in Nat
    <3>1. live'[c] \in Seq(Entry)
      BY <1>1
    <3>2. live'[c][k] \in Entry
      BY <1>2, <3>1
    <3> QED
      BY <3>2 DEF Entry
  <2>2. CASE live'[c][k].id = 0
    BY <1>1, <2>2
  <2>3. CASE live'[c][k].id # 0
    <3>1. PICK m \in DOMAIN live[c] : live'[c][k] = live[c][m]
      BY <2>3 DEF Thins
    <3>2. live'[c][k].id < nextId
      BY <3>1 DEF TagInv
    <3> QED
      BY <1>1, <2>1, <3>1, <3>2
  <2> QED
    BY <2>2, <2>3
<1>3. ASSUME p \in Scanning, NEW c \in Chains, NEW k \in DOMAIN live'[c],
             live'[c][k].id \in DOMAIN rules'
      PROVE  live'[c][k].id \in DOMAIN j.snap
  <2>1. live'[c][k].id # 0
    BY <1>1, <1>3
  <2>2. PICK m \in DOMAIN live[c] : live'[c][k] = live[c][m]
    BY <1>2, <2>1
  <2>3. live'[c][k].id # nextId
    BY <1>1, <1>2, <2>1
  <2> QED
    BY <1>1, <1>3, <2>2, <2>3 DEF Watches
<1>4. ASSUME p \in Scanning, p # "scan", NEW k \in 1..Len(j.found),
             j.found[k].entry.id < nextId, j.found[k].entry.id \notin DOMAIN rules
      PROVE  j.found[k].entry.id \notin DOMAIN rules'
  <2>1. j.found[k].entry.id # nextId
    BY <1>1, <1>4
  <2> QED
    BY <1>1, <1>4, <2>1
<1>5. \A k \in 1..Len(j.found) : j.found[k].entry.id \in Nat
  <2>1. j.found \in Seq([entry : Entry, pos : Int])
    BY DEF IsJob
  <2>2. \A k \in 1..Len(j.found) : j.found[k] \in [entry : Entry, pos : Int]
    BY <2>1, ElementOfSeq
  <2> QED
    BY <2>2 DEF Entry
<1>6. ASSUME p \in Scanning, p # "scan", NEW k \in 1..Len(j.found)
      PROVE  j.found[k].entry.id < nextId' /\ j.found[k].entry.id \notin DOMAIN rules'
  <2>1. j.found[k].entry.id < nextId /\ j.found[k].entry.id \notin DOMAIN rules
    BY <1>6 DEF Watches
  <2>2. j.found[k].entry.id < nextId'
    BY <1>1, <1>5, <1>6, <2>1
  <2> QED
    BY <1>4, <1>6, <2>1, <2>2
<1> QED
  BY <1>2, <1>3, <1>6 DEF Watches

\* A step of worker w, told apart from what it does to the others.
LEMMA TagKept ==
  ASSUME TagInv, LockInv', IdsGrow, NEW w \in Workers,
         \A v \in Workers \ {w} :
            /\ pc'[v] = pc[v] /\ job'[v] = job[v]
            /\ pc[v] \in Scanning => \A c \in Chains : Thins(live[c], live'[c]),
         \A c \in Chains : \A k \in DOMAIN live'[c] : live'[c][k].id < nextId',
         pc'[w] \in {"apply", "fill"} => Fresh(job'[w].cmds, nextId'),
         Watches(pc'[w], job'[w], live', rules', nextId')
  PROVE  TagInv'
<1>1. nextId \in Nat /\ nextId' \in Nat /\ nextId' >= nextId /\ Inv'
  BY DEF TagInv, LockInv, Inv, SharedOK, IdsGrow
<1>2. ASSUME NEW v \in Workers \ {w}, pc'[v] \in {"apply", "fill"}
      PROVE  Fresh(job'[v].cmds, nextId')
  <2> DEFINE cmds == job[v].cmds
  <2>1. cmds \in Seq(Command) /\ Fresh(cmds, nextId)
    BY <1>2, OfWorker DEF TagInv, LockInv, IsJob
  <2>2. \A k \in 1..Len(cmds) : cmds[k] \in Command
    <3> HIDE DEF cmds
    <3> QED BY <2>1, ElementOfSeq
  <2>3. \A k \in 1..Len(cmds) : cmds[k].entry.id \in Nat
    BY <2>2 DEF Command, Entry
  <2> HIDE DEF cmds
  <2>4. Fresh(cmds, nextId')
    BY <1>1, <2>1, <2>3 DEF Fresh
  <2> QED
    BY <2>4 DEF cmds
<1>3. ASSUME NEW v \in Workers \ {w}
      PROVE  Watches(pc'[v], job'[v], live', rules', nextId')
  <2>1. CASE pc[v] \in Scanning
    <3>1. IsJob(job[v]) /\ Watches(pc[v], job[v], live, rules, nextId)
      BY OfWorker DEF TagInv, LockInv
    <3> QED
      BY <1>1, <1>3, <2>1, <3>1, WatchesKept
  <2>2. CASE pc[v] \notin Scanning
    BY <1>3, <2>2 DEF Watches
  <2> QED
    BY <2>1, <2>2
<1> QED
  BY <1>2, <1>3 DEF TagInv

\* The commands a step brings to "apply" or "fill".
LEMMA FreshStep ==
  ASSUME TagInv, Inv', NEW w \in Workers, Step(w), pc'[w] \in {"apply", "fill"}
  PROVE  Fresh(job'[w].cmds, nextId')
<1>0. Inv
  BY DEF TagInv, LockInv
<1>7. nextId \in Nat \ {0}
  BY <1>0, OfWorker
<1> USE <1>7
<1>1. CASE RunCommand(w)
  <2> DEFINE cmds == job[w].cmds
  <2>1. cmds \in Seq(Command) /\ cmds # <<>> /\ Fresh(cmds, nextId)
    BY <1>0, <1>1, OfWorker DEF RunCommand, IsJob, TagInv
  <2>2. job'[w].cmds = Tail(cmds) /\ nextId' = nextId
    <3>1. PICK x : x = Tail(cmds)
      OBVIOUS
    <3>2. job' = [job EXCEPT ![w].cmds = x] /\ nextId' = nextId
      BY <1>1, <3>1 DEF RunCommand
    <3>3. job'[w].cmds = x
      BY <1>0, <3>2, OfWorker DEF IsJob, NoJob, Inv
    <3> QED
      BY <3>1, <3>2, <3>3
  <2> HIDE DEF cmds
  <2> QED
    BY <2>1, <2>2, OnTail DEF Fresh
<1>2. ASSUME NEW shape \in Shape, nextId' = nextId + 1, job'[w].cmds = Apply(nextId, shape)
      PROVE  Fresh(job'[w].cmds, nextId')
  <2> DEFINE op == IF IsBlock(shape) THEN "-I" ELSE "-A"
             cmds == HalfCommands(op, nextId, shape)
  <2>1. \A k \in 1..Len(cmds) : cmds[k].entry = LiveEntry(nextId, shape)
    <3> HIDE DEF op
    <3> QED BY <1>0, HalfCommandsAre
  <2>2. LiveEntry(nextId, shape).id < nextId + 1
    BY <1>0 DEF LiveEntry
  <2> HIDE DEF op
  <2> QED
    BY <1>2, <2>1, <2>2 DEF Fresh, Apply, op
<1>3. CASE Insert(w)
  <2>1. PICK x : x = Apply(nextId, job[w].req.shape)
    OBVIOUS
  <2>2. job' = [job EXCEPT ![w].id = nextId, ![w].cmds = x] /\ nextId' = nextId + 1
    BY <1>3, <2>1 DEF Insert
  <2>3. job'[w].cmds = x
    BY <1>0, <2>2, OfWorker DEF IsJob, NoJob, Inv
  <2>4. job[w].req \in Requests /\ job[w].req.op = "add"
    BY <1>0, <1>3, OfWorker DEF Insert, PlaceOK
  <2>5. job[w].req.shape \in Shape
    BY <2>4, RequestsAssumption DEF Request
  <2> QED
    BY <1>2, <2>1, <2>2, <2>3, <2>5
<1>4. CASE CommitInsert(w, job[w].req.shape)
  <2>1. job'[w].cmds = Apply(nextId, job[w].req.shape) /\ nextId' = nextId + 1
    BY <1>4, LockCommit DEF TagInv, CommitInsert
  <2>2. rules' = With(rules, nextId, [shape |-> job[w].req.shape, enabled |-> TRUE,
                                      pos |-> NextPosition(rules)])
    BY <1>4 DEF CommitInsert, Commit
  <2>3. nextId \in DOMAIN rules' /\ rules'[nextId].shape = job[w].req.shape
    BY <2>2 DEF With
  <2>4. rules'[nextId] \in Row
    BY <2>3 DEF Inv, SharedOK, FiniteTable, IsTable
  <2>5. job[w].req.shape \in Shape
    BY <2>3, <2>4 DEF Row
  <2> QED
    BY <1>2, <2>1, <2>5
<1>5. CASE ReloadRules(w)
  <2> DEFINE chain == Head(job[w].chains)
             ids == WantedIds(rules, chain)
  <2>1. PICK x : x = FillCommands(rules, chain)
    OBVIOUS
  <2>2. job' = [job EXCEPT ![w].cmds = x] /\ pc[w] = "strip" /\ nextId' = nextId
    BY <1>5, <2>1 DEF ReloadRules
  <2>3. job'[w].cmds = x
    <3>1. job' = [job EXCEPT ![w].cmds = x]
      BY <2>2
    <3> QED
      BY <1>0, <3>1, OfWorker DEF IsJob, NoJob, Inv
  <2>4. chain \in Chains /\ FiniteTable(rules)
    BY <1>0, <2>2, AtChain, OfWorker DEF TagInv
  <2> HIDE DEF chain
  <2>5. /\ Len(x) = Len(ids) /\ \A k \in 1..Len(ids) : Fills(x[k], rules, chain, k)
        /\ Wanted(rules, chain) \subseteq DOMAIN rules
    BY <2>1, <2>4, FillIs
  <2>6. \A k \in 1..Len(ids) : ids[k] \in Wanted(rules, chain)
                                 /\ LiveEntry(ids[k], rules[ids[k]].shape).id = ids[k]
    BY <2>4, WantedOnce
  <2>7. \A i \in DOMAIN rules : i < nextId
    BY <1>0 DEF Inv, SharedOK
  <2>8. \A k \in 1..Len(x) : x[k].entry.id < nextId
    BY <2>5, <2>6, <2>7 DEF Fills
  <2> QED
    BY <2>2, <2>3, <2>8 DEF Fresh
<1>6. Scanning \cap {"apply", "fill"} = {}
  BY DEF Scanning
<1> QED
  BY <1>0, <1>1, <1>3, <1>4, <1>5, <1>6, Goes, Arrivals DEF ListChain, Claim

\* The rules a discovery finds in a chain carry no tag of its snapshot.
LEMMA FoundUntracked ==
  ASSUME Inv, NEW w \in Workers, ScanChain(w)
  PROVE  /\ job'[w].snap = job[w].snap
         /\ \A k \in 1..Len(job'[w].found) :
               \E c \in Chains : \E m \in DOMAIN live[c] :
                  /\ job'[w].found[k].entry = live[c][m]
                  /\ live[c][m].id \notin DOMAIN job[w].snap
<1> DEFINE chain == Head(job[w].scan)
           t     == job[w].snap
           s     == live[chain]
           slots == [k \in DOMAIN s |-> IF Tracked(t, s[k]) THEN t[s[k].id].pos ELSE None]
           seen  == [k \in DOMAIN s |-> [entry |-> s[k], pos |-> NewPosition(slots, k)]]
           good  == {k \in DOMAIN seen : Adoptable(t, chain, seen[k].entry)}
           found == Selected(seen, good)
<1>1. job' = [job EXCEPT ![w].found = found] /\ job[w].scan # <<>>
  BY DEF ScanChain
<1>2. chain \in Chains
  BY <1>1, OfWorker, HeadTailProperties DEF IsJob
<1>3. s \in Seq(Entry)
  BY <1>2, OfWorker
<1>4. seen \in Seq([entry : Entry, pos : {NewPosition(slots, k) : k \in DOMAIN s}])
        /\ DOMAIN seen = DOMAIN s /\ \A k \in DOMAIN s : seen[k].entry = s[k]
  <2> HIDE DEF slots, s
  <2>1. DOMAIN s = 1..Len(s) /\ Len(s) \in Nat /\ \A k \in DOMAIN s : s[k] \in Entry
    BY <1>3
  <2> DEFINE Place == {NewPosition(slots, k) : k \in DOMAIN s}
             Found == [entry : Entry, pos : Place]
  <2>2. \A k \in DOMAIN s : NewPosition(slots, k) \in Place
    OBVIOUS
  <2> HIDE DEF Place
  <2>3. \A k \in DOMAIN s : [entry |-> s[k], pos |-> NewPosition(slots, k)] \in Found
    BY <2>1, <2>2
  <2> HIDE DEF Found
  <2>4. seen \in [1..Len(s) -> Found]
    BY <2>1, <2>3, Zenon
  <2>5. seen \in Seq(Found)
    BY <2>1, <2>4
  <2>6. DOMAIN seen = DOMAIN s /\ \A k \in DOMAIN s : seen[k].entry = s[k]
    OBVIOUS
  <2> QED
    BY <2>5, <2>6 DEF Found, Place
<1>5. \A k \in 1..Len(found) : \E m \in good : found[k] = seen[m]
  <2>1. good \subseteq DOMAIN seen
    OBVIOUS
  <2> HIDE DEF seen, good
  <2>2. PICK T : seen \in Seq(T)
    BY <1>4
  <2> QED BY <2>1, <2>2, SelectedElements
<1>6. \A m \in good : m \in DOMAIN s /\ s[m].id \notin DOMAIN t
  <2>1. \A m \in good : m \in DOMAIN seen /\ ~Tracked(t, seen[m].entry)
    BY DEF Adoptable
  <2> HIDE DEF seen, good
  <2> QED BY <1>4, <2>1 DEF Tracked
<1> HIDE DEF found, good, seen
<1>7. job'[w].found = found /\ job'[w].snap = t
  BY <1>1, OfWorker DEF IsJob, NoJob, Inv
<1> SUFFICES ASSUME NEW k \in 1..Len(job'[w].found)
             PROVE  \E c \in Chains : \E m \in DOMAIN live[c] :
                       /\ job'[w].found[k].entry = live[c][m]
                       /\ live[c][m].id \notin DOMAIN job[w].snap
  BY <1>7
<1>8. PICK m \in good : found[k] = seen[m]
  BY <1>5, <1>7
<1>9. m \in DOMAIN s /\ s[m].id \notin DOMAIN t /\ seen[m].entry = s[m]
  BY <1>4, <1>6
<1> QED
  BY <1>2, <1>7, <1>8, <1>9

\* What a discovery relies on at its next step.
LEMMA WatchStep ==
  ASSUME TagInv, Inv', NEW w \in Workers, Step(w)
  PROVE  Watches(pc'[w], job'[w], live', rules', nextId')
<1>0. Inv
  BY DEF TagInv, LockInv
<1> SUFFICES ASSUME pc'[w] \in Scanning
             PROVE  Watches(pc'[w], job'[w], live', rules', nextId')
  BY DEF Watches
<1>1. IsJob(job[w]) /\ Watches(pc[w], job[w], live, rules, nextId) /\ LockInv
  BY <1>0, OfWorker DEF TagInv
<1>2. IdsGrow
  BY <1>0, StepIds
<1>3. CASE Snapshot(w)
  <2>1. pc'[w] = "scan" /\ rules' = rules /\ job'[w].snap = rules
    BY <1>0, <1>3, Goes, OfWorker DEF Snapshot, IsJob, NoJob, Inv
  <2> QED
    BY <2>1 DEF Watches
<1>4. CASE ScanChain(w)
  <2>1. UNCHANGED <<live, rules, nextId>> /\ pc[w] = "scan"
    BY <1>4 DEF ScanChain
  <2>2. ASSUME NEW k \in 1..Len(job'[w].found)
        PROVE  /\ job'[w].found[k].entry.id < nextId
               /\ job'[w].found[k].entry.id \notin DOMAIN rules
    <3>0. PICK c \in Chains : \E m \in DOMAIN live[c] :
             /\ job'[w].found[k].entry = live[c][m]
             /\ live[c][m].id \notin DOMAIN job[w].snap
      BY <1>0, <1>4, <2>2, FoundUntracked
    <3>1. PICK m \in DOMAIN live[c] : /\ job'[w].found[k].entry = live[c][m]
                                     /\ live[c][m].id \notin DOMAIN job[w].snap
      BY <3>0
    <3>2. live[c][m].id < nextId
      BY DEF TagInv
    <3>3. live[c][m].id \notin DOMAIN rules
      BY <1>1, <2>1, <3>1 DEF Watches, Scanning
    <3> QED
      BY <3>1, <3>2, <3>3
  <2> QED
    BY <1>0, <1>1, <1>4, <2>1, <2>2, FoundUntracked DEF Watches, Scanning
<1>5. ASSUME pc[w] \in Scanning, pc'[w] = "scan" \/ pc[w] # "scan",
             job'[w].snap = job[w].snap,
             \/ pc'[w] = "scan" \/ job'[w].found = job[w].found
             \/ job'[w].found = Tail(job[w].found) /\ job[w].found # <<>>
      PROVE  Watches(pc'[w], job'[w], live', rules', nextId')
  <2>1. \A c \in Chains : Thins(live[c], live'[c])
    <3>1. ~RunCommand(w)
      BY <1>5 DEF RunCommand, Running, Scanning
    <3> QED
      BY <1>1, <3>1, StepThins
  <2>2. Watches(pc[w], job[w], live', rules', nextId')
    BY <1>1, <1>2, <2>1, WatchesKept
  <2> DEFINE found == job[w].found
             rest == Tail(found)
  <2>3. found # <<>> => \A k \in 1..Len(rest) : k + 1 \in 1..Len(found) /\ rest[k] = found[k + 1]
    <3>1. found \in Seq([entry : Entry, pos : Int])
      BY <1>1 DEF IsJob
    <3> HIDE DEF found
    <3>2. found # <<>> => /\ Len(rest) = Len(found) - 1 /\ Len(found) \in Nat
                          /\ \A k \in 1..Len(rest) : rest[k] = found[k + 1]
      BY <3>1, HeadTailProperties
    <3> QED
      BY <3>2
  <2> HIDE DEF found, rest
  <2>4. /\ \A c \in Chains : \A k \in DOMAIN live'[c] :
              live'[c][k].id \in DOMAIN rules' => live'[c][k].id \in DOMAIN job[w].snap
        /\ pc[w] # "scan" => \A k \in 1..Len(found) :
              found[k].entry.id < nextId' /\ found[k].entry.id \notin DOMAIN rules'
    BY <1>5, <2>2 DEF Watches, found
  <2>5. pc'[w] # "scan" => \A k \in 1..Len(job'[w].found) :
           /\ job'[w].found[k].entry.id < nextId'
           /\ job'[w].found[k].entry.id \notin DOMAIN rules'
    BY <1>5, <2>3, <2>4 DEF found, rest
  <2> QED
    BY <1>5, <2>4, <2>5 DEF Watches
<1>6. CASE ScanFails(w) \/ ChainScanned(w)
  <2>1. job' = [job EXCEPT ![w].scan = Tail(@)]
    BY <1>6 DEF ScanFails, ChainScanned
  <2>2. job'[w].snap = job[w].snap
    BY <1>0, <2>1, OfWorker DEF IsJob, NoJob, Inv
  <2>3. pc[w] \in {"scan", "adopt"} /\ pc'[w] = "scan"
    BY <1>0, <1>6, Goes DEF ScanFails, ChainScanned
  <2> QED
    BY <1>5, <2>2, <2>3 DEF Scanning
<1>7. CASE Adopt(w)
  <2>1. job' = [job EXCEPT ![w].id = nextId]
    BY <1>7 DEF Adopt
  <2>2. job'[w].snap = job[w].snap /\ job'[w].found = job[w].found
    BY <1>0, <2>1, OfWorker DEF IsJob, NoJob, Inv
  <2> QED
    BY <1>5, <1>7, <2>2 DEF Scanning, Adopt
<1>8. CASE DropAdopted(w)
  <2>1. job' = [job EXCEPT ![w].found = Tail(@)] /\ pc[w] = "drop"
    BY <1>8 DEF DropAdopted
  <2>2. job'[w].snap = job[w].snap /\ job'[w].found = Tail(job[w].found)
    BY <1>0, <2>1, OfWorker DEF IsJob, NoJob, Inv
  <2>3. job[w].found # <<>>
    BY <1>0, <2>1, OfWorker DEF PlaceOK
  <2> QED
    BY <1>5, <2>1, <2>2, <2>3 DEF Scanning
<1>9. CASE Claim(w)
  <2>1. pc[w] = "claim" /\ job[w].found # <<>>
    BY <1>0, <1>9, OfWorker DEF PlaceOK, Claim
  <2>2. \/ job' = job
        \/ \E x : job' = [job EXCEPT ![w].found = Tail(@), ![w].touched = x]
    BY <1>9 DEF Claim
  <2>3. CASE job' = job
    BY <1>5, <2>1, <2>3 DEF Scanning
  <2>4. ASSUME NEW x, job' = [job EXCEPT ![w].found = Tail(@), ![w].touched = x]
        PROVE  job'[w].snap = job[w].snap /\ job'[w].found = Tail(job[w].found)
    BY <1>0, <2>4, OfWorker DEF IsJob, NoJob, Inv
  <2> QED
    BY <1>5, <2>1, <2>2, <2>3, <2>4 DEF Scanning
<1>10. Scanning = {"scan", "adopt", "claim", "drop"}
  BY DEF Scanning
<1>11. pc'[w] = pc[w] \/ ~RunCommand(w)
  BY DEF RunCommand
<1>12. ~RunCommand(w)
  BY <1>10, <1>11 DEF RunCommand, Running
<1> QED
  BY <1>0, <1>3, <1>4, <1>6, <1>7, <1>8, <1>9, <1>10, <1>12, Goes, Arrivals
     DEF ListChain, ReloadRules

LEMMA TagStep ==
  ASSUME NoAdds \/ Alone, TagInv, LockInv', NEW w \in Workers, Step(w)
  PROVE  TagInv'
<1>0. Inv /\ LockInv /\ Inv' /\ live \in [Chains -> Seq(Entry)] /\ nextId \in Nat \ {0}
  BY OfWorker DEF TagInv, LockInv
<1>1. IdsGrow
  BY <1>0, StepIds
<1>2. \A v \in Workers \ {w} : pc'[v] = pc[v] /\ job'[v] = job[v]
  BY <1>0, EveryStepOK DEF StepOK, Moves, Inv
<1>3. ASSUME NEW v \in Workers \ {w}, pc[v] \in Scanning
      PROVE  \A c \in Chains : Thins(live[c], live'[c])
  <2>1. NoAdds
    BY DEF Alone
  <2>2. pc[w] # "fill"
    BY <1>0, <1>3 DEF LockInv, Exclusive, Rebuilding, Scanning
  <2> QED
    BY <1>0, <2>1, <2>2, StepThins
<1>4. \A c \in Chains : \A k \in DOMAIN live'[c] : live'[c][k].id < nextId'
  <2>1. ASSUME \A c \in Chains : Thins(live[c], live'[c])
        PROVE  \A c \in Chains : \A k \in DOMAIN live'[c] : live'[c][k].id < nextId'
    <3>1. IsJob(job[w]) /\ Watches(pc[w], job[w], live, rules, nextId)
      BY <1>0, OfWorker DEF TagInv
    <3> QED
      BY <1>0, <1>1, <2>1, <3>1, WatchesKept
  <2>2. CASE RunCommand(w) /\ pc[w] \in {"apply", "fill"}
    <3> DEFINE cmds == job[w].cmds
               e == Head(cmds)
    <3>1. cmds \in Seq(Command) /\ cmds # <<>> /\ live' = Executed(e) /\ Executable(e)
            /\ Fresh(cmds, nextId) /\ nextId' = nextId
      BY <1>0, <2>2, OfWorker DEF RunCommand, IsJob, TagInv
    <3>2. e \in Command /\ (e.op = "-D" \/ e.entry.id < nextId)
      BY <3>1, OnTail DEF Fresh
    <3> HIDE DEF e
    <3>3. CASE e.op = "-D"
      BY <1>0, <2>1, <3>1, <3>2, <3>3, ThinCommand
    <3>4. CASE e.op # "-D"
      <4> SUFFICES ASSUME NEW c \in Chains, NEW k \in DOMAIN live'[c]
                   PROVE  live'[c][k].id < nextId
        BY <3>1
      <4> DEFINE s == live[c]
      <4>0. s \in Seq(Entry) /\ DOMAIN s = 1..Len(s) /\ Len(s) \in Nat
              /\ \A m \in DOMAIN s : s[m].id < nextId
        BY <1>0 DEF TagInv
      <4>1. \/ live'[c] = s
            \/ live'[c] = Append(s, e.entry)
            \/ live'[c] = <<e.entry>> \o s
        BY <1>0, <3>1, <3>2, <3>4, ExecutedIs
      <4>2. e.entry \in Entry
        BY <3>2 DEF Command
      <4> HIDE DEF s
      <4>3. CASE live'[c] = s
        BY <4>0, <4>3
      <4>4. CASE live'[c] = Append(s, e.entry)
        <5>1. /\ DOMAIN Append(s, e.entry) = 1..Len(s) + 1
              /\ Append(s, e.entry)[Len(s) + 1] = e.entry
              /\ \A m \in 1..Len(s) : Append(s, e.entry)[m] = s[m]
          BY <4>0, <4>2, AppendProperties
        <5> QED
          BY <3>2, <3>4, <4>0, <4>4, <5>1
      <4>5. CASE live'[c] = <<e.entry>> \o s
        <5> DEFINE t == <<e.entry>> \o s
        <5>1. DOMAIN t = 1..Len(s) + 1 /\ t[1] = e.entry
                /\ \A m \in 1..Len(s) : t[m + 1] = s[m]
          BY <4>0, <4>2, FrontIs
        <5>2. k \in DOMAIN t /\ live'[c][k] = t[k]
          BY <4>5
        <5> HIDE DEF t
        <5>3. k \in 1..Len(s) + 1
          BY <5>1, <5>2
        <5>4. CASE k = 1
          BY <3>2, <3>4, <5>1, <5>2, <5>4
        <5>5. CASE k # 1
          <6>1. k - 1 \in DOMAIN s /\ (k - 1) + 1 = k
            BY <4>0, <5>3, <5>5
          <6> QED
            BY <4>0, <5>1, <5>2, <6>1
        <5> QED
          BY <5>4, <5>5
      <4> QED
        BY <4>1, <4>3, <4>4, <4>5
    <3> QED
      BY <3>3, <3>4
  <2>3. CASE ~(RunCommand(w) /\ pc[w] \in {"apply", "fill"})
    BY <1>0, <2>1, <2>3, StepThins
  <2> QED
    BY <2>2, <2>3
<1>5. pc'[w] \in {"apply", "fill"} => Fresh(job'[w].cmds, nextId')
  BY <1>0, FreshStep
<1>6. Watches(pc'[w], job'[w], live', rules', nextId')
  BY <1>0, WatchStep
<1> QED
  BY <1>0, <1>1, <1>2, <1>3, <1>4, <1>5, <1>6, TagKept

LEMMA TagNext == (NoAdds \/ Alone) /\ TagInv /\ [Next]_vars => TagInv'
<1> SUFFICES ASSUME NoAdds \/ Alone, TagInv, [Next]_vars
             PROVE  TagInv'
  OBVIOUS
<1>0. Inv /\ LockInv /\ LockInv' /\ Inv' /\ live \in [Chains -> Seq(Entry)]
  BY LockNext DEF TagInv, LockInv, Inv, SharedOK
<1>1. live' = live => \A c \in Chains : Thins(live[c], live'[c])
  BY <1>0, ThinSequences
<1>2. ASSUME UNCHANGED <<rules, nextId>>,
             \A v \in Workers : \/ pc'[v] = pc[v] /\ job'[v] = job[v]
                                \/ pc'[v] \notin {"apply", "fill"} \cup Scanning,
             \A c \in Chains : Thins(live[c], live'[c])
      PROVE  TagInv'
  <2>1. IdsGrow
    BY <1>2 DEF IdsGrow
  <2>2. \A p : Watches("idle", NoJob, live, rules, nextId) /\ IsJob(NoJob)
    BY EmptyJob DEF Watches, Scanning
  <2>3. \A c \in Chains : \A k \in DOMAIN live'[c] : live'[c][k].id < nextId'
    BY <1>0, <1>2, <2>1, <2>2, WatchesKept
  <2>4. ASSUME NEW v \in Workers
        PROVE  /\ pc'[v] \in {"apply", "fill"} => Fresh(job'[v].cmds, nextId')
               /\ Watches(pc'[v], job'[v], live', rules', nextId')
    <3>1. CASE pc'[v] = pc[v] /\ job'[v] = job[v]
      <4>1. IsJob(job[v]) /\ Watches(pc[v], job[v], live, rules, nextId)
        BY <1>0, OfWorker DEF TagInv
      <4>2. Watches(pc[v], job[v], live', rules', nextId')
        BY <1>0, <1>2, <2>1, <4>1, WatchesKept
      <4> QED
        BY <1>2, <3>1, <4>2 DEF TagInv
    <3>2. CASE pc'[v] \notin {"apply", "fill"} \cup Scanning
      BY <3>2 DEF Watches
    <3> QED
      BY <1>2, <3>1, <3>2
  <2> QED
    BY <1>0, <2>3, <2>4 DEF TagInv
<1>3. CASE UNCHANGED vars
  BY <1>1, <1>2, <1>3 DEF vars
<1>4. ASSUME NEW w \in Workers, Step(w)
      PROVE  TagInv'
  BY <1>0, <1>4, TagStep
<1>5. ASSUME NEW w \in Workers, NEW r \in Requests, Receive(w, r)
      PROVE  TagInv'
  <2>1. pc'[w] \in {"max", "start", "flock", "lock"} /\ UNCHANGED <<live, rules, nextId>>
    BY <1>0, <1>5, Goes DEF Receive, EntryPlace
  <2>2. \A v \in Workers \ {w} : pc'[v] = pc[v] /\ job'[v] = job[v]
    BY <1>0, <1>5 DEF Receive, Goto, Inv
  <2> QED
    BY <1>1, <1>2, <2>1, <2>2 DEF Scanning
<1>6. ASSUME NEW w \in Workers, Crash(w)
      PROVE  TagInv'
  <2>1. pc'[w] = "idle" /\ UNCHANGED <<live, rules, nextId>>
    BY <1>0, <1>6, Goes DEF Crash
  <2>2. \A v \in Workers \ {w} : pc'[v] = pc[v] /\ job'[v] = job[v]
    BY <1>0, <1>6 DEF Crash, Finish, Goto, Inv
  <2> QED
    BY <1>1, <1>2, <2>1, <2>2 DEF Scanning
<1>7. CASE Environment
  <2>1. CASE \/ \E m \in ManualRules : ManualAppend(m[1], m[2])
             \/ \E chain \in Chains : \E k \in DOMAIN live[chain] : ManualDelete(chain, k)
             \/ Flush
    <3>1. UNCHANGED <<pc, job, rules, nextId>>
      BY <2>1 DEF ManualAppend, ManualDelete, Flush
    <3>2. \A c \in Chains : Thins(live[c], live'[c])
      BY <1>0, <2>1, HandThins
    <3> QED
      BY <1>2, <3>1, <3>2
  <2> QED
    BY <1>5, <1>6, <1>7, <2>1 DEF Environment
<1> QED
  BY <1>3, <1>4, <1>7 DEF Next

LEMMA TagInit == Init => TagInv
<1> SUFFICES ASSUME Init
             PROVE  TagInv
  OBVIOUS
<1>1. LockInv /\ Inv
  BY LockInit DEF LockInv
<1>2. FiniteTable(rules) /\ live = Reflection(rules) /\ nextId \in Nat \ {0}
        /\ \A i \in DOMAIN rules : i < nextId
  BY <1>1 DEF Init, Inv, SharedOK
<1>3. \A c \in Chains : \A k \in DOMAIN live[c] : live[c][k].id < nextId
  BY <1>2, ReflectionSingle
<1>4. \A w \in Workers : pc[w] = "idle"
  BY DEF Init
<1> QED
  BY <1>1, <1>3, <1>4 DEF TagInv, Watches, Scanning

\* discover_cli_rules adopts a live rule only when no row of the table, not
\* even one that came after its snapshot, is the rule's own: while no request
\* adds a rule, or none is in flight beside the discovery.
THEOREM AdoptsNoRowTwice == (NoAdds \/ Alone) /\ Spec => AdoptsOnlyUntracked
<1>1. TagInv /\ [Next]_vars =>
        [\A w \in Workers : Adopt(w) => Head(job[w].found).entry.id \notin DOMAIN rules]_vars
  <2> SUFFICES ASSUME TagInv, NEW w \in Workers, Adopt(w)
               PROVE  Head(job[w].found).entry.id \notin DOMAIN rules
    OBVIOUS
  <2>1. pc[w] = "adopt" /\ job[w].found # <<>>
    BY DEF Adopt
  <2>2. job[w].found \in Seq([entry : Entry, pos : Int])
    BY OfWorker DEF TagInv, LockInv, IsJob
  <2>3. 1 \in 1..Len(job[w].found) /\ Head(job[w].found) = job[w].found[1]
    BY <2>1, <2>2, EmptySeq
  <2> QED
    BY <2>1, <2>3 DEF TagInv, Watches, Scanning
<1>2. NoAdds \/ Alone => (TagInv /\ [Next]_vars => TagInv')
  BY TagNext
<1>3. (NoAdds \/ Alone) /\ Spec => []TagInv
  <2> SUFFICES ASSUME NoAdds \/ Alone
               PROVE  Spec => []TagInv
    BY DEF NoAdds, Alone
  <2>1. TagInv /\ [Next]_vars => TagInv'
    BY <1>2
  <2> QED
    BY <2>1, TagInit, PTL DEF Spec
<1> QED
  BY <1>1, <1>3, PTL DEF Spec, AdoptsOnlyUntracked

-----------------------------------------------------------------------------
(* Hand-typed rules. *)

\* Rows are neither added nor deleted by request, no rule is deleted by hand.
NothingDeleted ==
    /\ MaxLosses = 0
    /\ \A r \in Requests : r.op \notin {"add", "delete"}

\* Every start has the same ids in use, and nobody types a block's rule.
PlainStart ==
    /\ \A t, u \in InitTables : DOMAIN t = DOMAIN u
    /\ \A m \in ManualRules : ~IsBlock(m[2])

\* The rows a rebuild may show: all but the blocks.
PlainRows(t) == {i \in DOMAIN t : ~IsBlock(t[i].shape)}

PlainIds == PlainRows(rules)

\* The plain rows whose hand-typed original is gone or kept for good.
Unclaimed == PlainIds \ {job[w].id : w \in Claiming}

\* No command is about a hand-typed rule.
Hands(cmds) == \A k \in 1..Len(cmds) : ~HandTyped(cmds[k].entry)

\* What a handler at place p knows: the rows S are plain, ids from n on unused.
HandsOff(p, j, S, n) ==
    /\ Hands(j.cmds)
    /\ p = "fill" => \A k \in 1..Len(j.cmds) : j.cmds[k].entry.id \in S
    /\ p \in {"adopt", "claim", "drop"} => \A k \in 1..Len(j.found) : j.found[k].entry.id = 0
    /\ p \in {"claim", "drop"} => j.id \in S /\ \A t \in InitTables : j.id \notin DOMAIN t
    /\ p \in {"apply", "undo", "unblock"} => j.id \notin S /\ j.id < n

HandBase ==
    /\ TagInv
    /\ \A t \in InitTables : \A i \in DOMAIN t : i < nextId
    /\ \A c \in Chains : \A k \in DOMAIN live[c] : live[c][k].id # 0 => live[c][k].id \in Unclaimed
    /\ \A w \in Workers : HandsOff(pc[w], job[w], PlainIds, nextId)

HandInv == HandBase /\ ManualRulesConserved

-----------------------------------------------------------------------------
(* Counting them. *)

\* Two finite sets matched one to one have the same number of elements.
LEMMA SameCount ==
  ASSUME NEW S, IsFiniteSet(S), NEW T, NEW f \in [S -> T],
         \A x, y \in S : f[x] = f[y] => x = y,
         \A y \in T : \E x \in S : f[x] = y
  PROVE  Cardinality(T) = Cardinality(S)
<1>1. f \in Bijection(S, T)
  BY DEF Bijection, Injection, Surjection, IsInjective
<1> QED
  BY <1>1, FS_Bijection DEF ExistsBijection

\* A chain has finitely many hand-typed rules.
LEMMA HandsFinite ==
  ASSUME NEW s \in Seq(Entry)
  PROVE  /\ IsFiniteSet(HandTypedAt(s)) /\ Cardinality(HandTypedAt(s)) \in Nat
         /\ HandTypedAt(s) \subseteq 1..Len(s)
<1>1. HandTypedAt(s) \subseteq 1..Len(s) /\ IsFiniteSet(1..Len(s))
  BY FS_Interval DEF HandTypedAt
<1> QED
  BY <1>1, FS_Subset, FS_CardinalityType

\* A rule appended counts if it is hand-typed.
LEMMA HandsAppended ==
  ASSUME NEW s \in Seq(Entry), NEW e \in Entry
  PROVE  Cardinality(HandTypedAt(Append(s, e))) =
            Cardinality(HandTypedAt(s)) + (IF HandTyped(e) THEN 1 ELSE 0)
<1> DEFINE t == Append(s, e)
           n == Len(s) + 1
<1>0. n \in Nat /\ DOMAIN s = 1..n - 1
  OBVIOUS
<1>1. DOMAIN t = 1..n /\ t[n] = e /\ \A k \in 1..n - 1 : t[k] = s[k]
  BY AppendProperties
<1> HIDE DEF t, n
<1>2. n \notin HandTypedAt(s)
  BY <1>0 DEF HandTypedAt
<1>4. IsFiniteSet(HandTypedAt(s)) /\ Cardinality(HandTypedAt(s)) \in Nat
  BY HandsFinite
<1>5. CASE HandTyped(e)
  <2>1. HandTypedAt(t) = HandTypedAt(s) \cup {n}
    <3>1. \A k \in 1..n : k \in 1..n - 1 \/ k = n
      BY <1>0
    <3>2. \A k \in 1..n - 1 : k \in 1..n
      BY <1>0
    <3>3. n \in 1..n
      <4>1. 1 =< n
        BY <1>0 DEF n
      <4> QED
        BY <1>0, <4>1
    <3> QED
      BY <1>0, <1>1, <1>5, <3>1, <3>2, <3>3 DEF HandTypedAt
  <2>2. Cardinality(HandTypedAt(s) \cup {n}) = Cardinality(HandTypedAt(s)) + 1
    BY <1>2, <1>4, FS_AddElement
  <2> QED
    BY <1>5, <2>1, <2>2 DEF t
<1>6. CASE ~HandTyped(e)
  <2>1. HandTypedAt(t) = HandTypedAt(s)
    <3>1. \A k \in 1..n : k \in 1..n - 1 \/ k = n
      BY <1>0
    <3>2. \A k \in 1..n - 1 : k \in 1..n
      BY <1>0
    <3> QED
      BY <1>0, <1>1, <1>6, <3>1, <3>2 DEF HandTypedAt
  <2> QED
    BY <1>4, <1>6, <2>1 DEF t
<1> QED
  BY <1>5, <1>6

\* A rule inserted in front that is not hand-typed leaves their number.
LEMMA HandsPrepended ==
  ASSUME NEW s \in Seq(Entry), NEW e \in Entry, ~HandTyped(e)
  PROVE  Cardinality(HandTypedAt(<<e>> \o s)) = Cardinality(HandTypedAt(s))
<1> DEFINE t == <<e>> \o s
           S == HandTypedAt(s)
           T == HandTypedAt(t)
           f == [k \in S |-> k + 1]
<1>0. Len(s) \in Nat /\ DOMAIN s = 1..Len(s) /\ S \subseteq 1..Len(s) /\ IsFiniteSet(S)
  BY HandsFinite
<1>1. DOMAIN t = 1..Len(s) + 1 /\ t[1] = e /\ \A k \in 1..Len(s) : t[k + 1] = s[k]
  BY FrontIs
<1> HIDE DEF t
<1>2. \A k \in S : k + 1 \in T
  BY <1>0, <1>1 DEF HandTypedAt
<1>3. \A k \in T : k - 1 \in S /\ (k - 1) + 1 = k
  <2> SUFFICES ASSUME NEW k \in T
               PROVE  k - 1 \in S /\ (k - 1) + 1 = k
    OBVIOUS
  <2>1. k \in 1..Len(s) + 1 /\ HandTyped(t[k])
    BY <1>1 DEF HandTypedAt
  <2>2. k # 1
    BY <1>1, <2>1
  <2>3. k - 1 \in 1..Len(s) /\ (k - 1) + 1 = k
    BY <1>0, <2>1, <2>2
  <2>4. t[(k - 1) + 1] = s[k - 1]
    BY <1>1, <2>3
  <2>5. HandTyped(s[k - 1])
    BY <2>1, <2>3, <2>4
  <2> QED
    BY <1>0, <2>3, <2>5 DEF HandTypedAt
<1> HIDE DEF S, T
<1>4. f \in [S -> T] /\ \A k \in S : f[k] = k + 1
  BY <1>2
<1>5. \A x, y \in S : f[x] = f[y] => x = y
  BY <1>0, <1>4
<1>6. \A y \in T : \E x \in S : f[x] = y
  BY <1>3, <1>4
<1> HIDE DEF f
<1> QED
  BY <1>0, <1>4, <1>5, <1>6, SameCount DEF S, T, t

\* A rule taken out is one less if it was hand-typed.
LEMMA HandsRemoved ==
  ASSUME NEW s \in Seq(Entry), NEW e \in ToSet(s)
  PROVE  Cardinality(HandTypedAt(RemoveFirst(s, e))) =
            Cardinality(HandTypedAt(s)) - (IF HandTyped(e) THEN 1 ELSE 0)
<1>1. PICK n \in 1..Len(s) : s[n] = e /\ RemoveFirst(s, e) = RemoveAt(s, n)
  BY RemoveFirstIs
<1> DEFINE t == RemoveAt(s, n)
           m == Len(s)
           S == HandTypedAt(s) \ {n}
           T == HandTypedAt(t)
           from(k) == IF k < n THEN k ELSE k + 1
           back(k) == IF k < n THEN k ELSE k - 1
           f == [k \in S |-> back(k)]
<1>0. m \in Nat /\ DOMAIN s = 1..m /\ HandTypedAt(s) \subseteq 1..m
        /\ IsFiniteSet(HandTypedAt(s)) /\ Cardinality(HandTypedAt(s)) \in Nat /\ n \in 1..m
  BY HandsFinite
<1>2. DOMAIN t = 1..m - 1 /\ \A k \in 1..m - 1 : t[k] = s[from(k)]
  <2>1. t \in Seq(Entry) /\ Len(t) = m - 1
          /\ \A k \in 1..m - 1 : t[k] = IF k < n THEN s[k] ELSE s[k + 1]
    BY RemoveAtIs
  <2> HIDE DEF t, m
  <2> QED
    BY <2>1
<1> HIDE DEF t, m
<1>3. \A k \in 1..m : k # n => back(k) \in 1..m - 1 /\ from(back(k)) = k
  BY <1>0
<1>4. \A k \in 1..m - 1 : from(k) \in 1..m /\ from(k) # n /\ back(from(k)) = k
  BY <1>0
<1> HIDE DEF from, back
<1>5. \A k \in S : back(k) \in T
  <2> SUFFICES ASSUME NEW k \in S
               PROVE  back(k) \in T
    OBVIOUS
  <2>1. k \in 1..m /\ k # n /\ HandTyped(s[k])
    BY <1>0 DEF HandTypedAt
  <2>2. back(k) \in 1..m - 1 /\ t[back(k)] = s[k]
    BY <1>2, <1>3, <2>1
  <2> QED
    BY <1>2, <2>1, <2>2 DEF HandTypedAt
<1>6. \A k \in T : from(k) \in S /\ back(from(k)) = k
  BY <1>0, <1>2, <1>4 DEF HandTypedAt
<1>7. \A x, y \in S : back(x) = back(y) => x = y
  BY <1>0, <1>3
<1>8. IsFiniteSet(S)
  BY <1>0, FS_RemoveElement
<1>9. Cardinality(S) = Cardinality(HandTypedAt(s)) - (IF HandTyped(e) THEN 1 ELSE 0)
  <2>1. n \in HandTypedAt(s) <=> HandTyped(e)
    BY <1>0, <1>1 DEF HandTypedAt
  <2>2. CASE HandTyped(e)
    <3>1. Cardinality(HandTypedAt(s) \ {n}) = Cardinality(HandTypedAt(s)) - 1
      BY <1>0, <2>1, <2>2, FS_RemoveElement
    <3> QED
      BY <2>2, <3>1 DEF S
  <2>3. CASE ~HandTyped(e)
    <3>1. HandTypedAt(s) \ {n} = HandTypedAt(s)
      BY <2>1, <2>3
    <3>2. Cardinality(S) = Cardinality(HandTypedAt(s))
      BY <3>1 DEF S
    <3> DEFINE size == Cardinality(S)
    <3>3. size = size - 0
      BY <1>0, <3>2
    <3> HIDE DEF size
    <3> QED
      BY <2>3, <3>2, <3>3 DEF size
  <2> QED
    BY <2>2, <2>3
<1> HIDE DEF S, T
<1>10. f \in [S -> T] /\ \A k \in S : f[k] = back(k)
  BY <1>5
<1> HIDE DEF f
<1>11. Cardinality(T) = Cardinality(S)
  BY <1>6, <1>7, <1>8, <1>10, SameCount
<1> QED
  BY <1>1, <1>9, <1>11 DEF S, T, t

\* The hand-typed rules of all chains, and of all chains but c.
Typed(lv, C) == UNION {{c} \X HandTypedAt(lv[c]) : c \in C}

\* The count of all chains is that of c and that of the others.
LEMMA TypedSplit ==
  ASSUME NEW lv \in [Chains -> Seq(Entry)], NEW c \in Chains
  PROVE  /\ Cardinality(Typed(lv, Chains)) =
               Cardinality(Typed(lv, Chains \ {c})) + Cardinality(HandTypedAt(lv[c]))
         /\ Cardinality(Typed(lv, Chains \ {c})) \in Nat
         /\ Cardinality(HandTypedAt(lv[c])) \in Nat
<1> DEFINE rest == Typed(lv, Chains \ {c})
           at == HandTypedAt(lv[c])
           own == {c} \X at
<1>1. \A d \in Chains : IsFiniteSet({d} \X HandTypedAt(lv[d]))
  <2> SUFFICES ASSUME NEW d \in Chains
               PROVE  IsFiniteSet({d} \X HandTypedAt(lv[d]))
    OBVIOUS
  <2>1. IsFiniteSet({d}) /\ IsFiniteSet(HandTypedAt(lv[d]))
    BY FS_Singleton, HandsFinite
  <2> QED
    BY <2>1, FS_Product
<1>2. IsFiniteSet(rest)
  <2> DEFINE F == {{d} \X HandTypedAt(lv[d]) : d \in Chains \ {c}}
  <2>1. IsFiniteSet(Chains \ {c})
    <3>1. IsFiniteSet({}) /\ IsFiniteSet({"INPUT"})
      BY FS_EmptySet, FS_Singleton
    <3>2. IsFiniteSet({"INPUT"} \cup {"FORWARD"})
      BY <3>1, FS_AddElement
    <3>3. IsFiniteSet(({"INPUT"} \cup {"FORWARD"}) \cup {"PREROUTING"})
      BY <3>2, FS_AddElement
    <3>4. IsFiniteSet((({"INPUT"} \cup {"FORWARD"}) \cup {"PREROUTING"}) \cup {"POSTROUTING"})
      BY <3>3, FS_AddElement
    <3>5. Chains = (({"INPUT"} \cup {"FORWARD"}) \cup {"PREROUTING"}) \cup {"POSTROUTING"}
      BY DEF Chains
    <3> QED
      BY <3>4, <3>5, FS_Difference
  <2>2. IsFiniteSet(F)
    <3> DEFINE g == [d \in Chains \ {c} |-> {d} \X HandTypedAt(lv[d])]
    <3>1. g \in Surjection(Chains \ {c}, F)
      BY DEF Surjection
    <3> QED
      BY <2>1, <3>1, FS_Surjection
  <2>3. \A T \in F : IsFiniteSet(T)
    BY <1>1
  <2> HIDE DEF F
  <2>4. IsFiniteSet(UNION F)
    BY <2>2, <2>3, FS_UNION
  <2> QED
    BY <2>4 DEF F, Typed
<1>3. IsFiniteSet(own) /\ IsFiniteSet(at) /\ Cardinality(at) \in Nat
  BY <1>1, HandsFinite
<1>4. Cardinality(own) = Cardinality(at)
  <2> DEFINE f == [k \in at |-> <<c, k>>]
  <2>1. f \in [at -> own] /\ \A k \in at : f[k] = <<c, k>>
    OBVIOUS
  <2>2. \A x, y \in at : f[x] = f[y] => x = y
    OBVIOUS
  <2>3. \A y \in own : \E x \in at : f[x] = y
    OBVIOUS
  <2> HIDE DEF f, own, at
  <2> QED
    BY <1>3, <2>1, <2>2, <2>3, SameCount
<1>5. Typed(lv, Chains) = rest \cup own
  BY DEF Typed
<1>6. rest \cap own = {}
  BY DEF Typed
<1> HIDE DEF rest, own, at
<1>7. Cardinality(rest \cup own) = Cardinality(rest) + Cardinality(own)
  <2>1. Cardinality(rest) \in Nat /\ Cardinality(own) \in Nat
    BY <1>2, <1>3, FS_CardinalityType
  <2>2. Cardinality(rest \cap own) = 0
    BY <1>6, FS_EmptySet
  <2>3. Cardinality(rest \cup own) = Cardinality(rest) + Cardinality(own) - Cardinality(rest \cap own)
    BY <1>2, <1>3, FS_Union
  <2> QED
    BY <2>1, <2>2, <2>3
<1> QED
  BY <1>2, <1>3, <1>4, <1>5, <1>7, FS_CardinalityType DEF rest, at

\* A change of one chain changes the count by what it does there.
LEMMA TypedChanged ==
  ASSUME NEW lv \in [Chains -> Seq(Entry)], NEW lw \in [Chains -> Seq(Entry)], NEW c \in Chains,
         \A d \in Chains : d # c => lw[d] = lv[d]
  PROVE  /\ Cardinality(Typed(lw, Chains)) - Cardinality(Typed(lv, Chains)) =
               Cardinality(HandTypedAt(lw[c])) - Cardinality(HandTypedAt(lv[c]))
         /\ Cardinality(Typed(lv, Chains)) \in Nat /\ Cardinality(Typed(lw, Chains)) \in Nat
<1>1. Typed(lw, Chains \ {c}) = Typed(lv, Chains \ {c})
  BY DEF Typed
<1>2. /\ Cardinality(Typed(lv, Chains)) =
               Cardinality(Typed(lv, Chains \ {c})) + Cardinality(HandTypedAt(lv[c]))
         /\ Cardinality(Typed(lv, Chains \ {c})) \in Nat /\ Cardinality(HandTypedAt(lv[c])) \in Nat
  BY TypedSplit
<1>3. /\ Cardinality(Typed(lw, Chains)) =
               Cardinality(Typed(lw, Chains \ {c})) + Cardinality(HandTypedAt(lw[c]))
         /\ Cardinality(HandTypedAt(lw[c])) \in Nat
  BY TypedSplit
<1> QED
  BY <1>1, <1>2, <1>3

-----------------------------------------------------------------------------
(* Commands about other rules. *)

\* Without requests that add there is no append outside the rebuild lock.
LEMMA NoneAdded == NothingDeleted => NoAdds
BY DEF NothingDeleted, NoAdds

\* A tagged rule is not hand-typed, nor is that of a block.
LEMMA HandsOfHalves ==
  ASSUME NEW op, NEW id \in Nat \ {0}, NEW shape \in Shape
  PROVE  Hands(HalfCommands(op, id, shape))
<1>1. \A k \in 1..Len(HalfCommands(op, id, shape)) :
         HalfCommands(op, id, shape)[k].entry = LiveEntry(id, shape)
  BY HalfCommandsAre
<1>2. ~HandTyped(LiveEntry(id, shape))
  BY DEF HandTyped, LiveEntry
<1> QED
  BY <1>1, <1>2 DEF Hands

\* What an add, a block or their removal runs names tagged rules only.
LEMMA HandsOfHandlers ==
  ASSUME NEW id \in Nat \ {0}, NEW shape \in Shape
  PROVE  Hands(Apply(id, shape)) /\ Hands(Unapply(id, shape)) /\ Hands(<<>>)
<1>1. Hands(<<>>)
  BY DEF Hands
<1> QED
  BY <1>1, HandsOfHalves DEF Apply, Unapply

\* So does a rebuild, and what it appends shows plain rows of the table it read.
LEMMA HandsOfRebuilds ==
  ASSUME NEW t, FiniteTable(t), live \in [Chains -> Seq(Entry)], NEW chain \in Chains
  PROVE  /\ Hands(StripCommands(chain)) /\ Hands(FillCommands(t, chain)) /\ Hands(SyncCommands(t))
         /\ \A k \in 1..Len(FillCommands(t, chain)) :
               /\ FillCommands(t, chain)[k].entry.id \in DOMAIN t
               /\ ~IsBlock(t[FillCommands(t, chain)[k].entry.id].shape)
<1>1. Hands(StripCommands(chain))
  <2> DEFINE own == {k \in DOMAIN live[chain] : HasOwnedTag(live[chain][k])}
             owned == Selected(live[chain], own)
  <2>0. own \subseteq DOMAIN live[chain] /\ live[chain] \in Seq(Entry)
    OBVIOUS
  <2>1. owned \in Seq(Entry) /\ \A k \in 1..Len(owned) : \E i \in own : owned[k] = live[chain][i]
    <3>1. PICK s : s = live[chain]
      OBVIOUS
    <3> HIDE DEF own
    <3>2. own \subseteq DOMAIN s /\ s \in Seq(Entry)
      BY <2>0, <3>1
    <3>3. /\ Selected(s, own) \in Seq(Entry)
          /\ \A k \in 1..Len(Selected(s, own)) : \E i \in own : Selected(s, own)[k] = s[i]
      BY <3>2, SelectedElements
    <3> QED
      BY <3>1, <3>3, Zenon
  <2>2. \A i \in own : live[chain][i].id # 0
    BY DEF HasOwnedTag
  <2>3. StripCommands(chain) =
          [k \in DOMAIN owned |-> [op |-> "-D", chain |-> chain, entry |-> owned[k], skip |-> 0]]
    BY DEF StripCommands
  <2> HIDE DEF owned, own
  <2>4. Len(StripCommands(chain)) = Len(owned)
    BY <2>1, <2>3
  <2>5. \A k \in 1..Len(owned) : StripCommands(chain)[k].entry = owned[k]
    BY <2>1, <2>3
  <2> QED
    BY <2>1, <2>2, <2>4, <2>5 DEF Hands, HandTyped
<1>2. ASSUME NEW k \in 1..Len(FillCommands(t, chain))
      PROVE  /\ FillCommands(t, chain)[k].entry.id \in DOMAIN t
             /\ ~IsBlock(t[FillCommands(t, chain)[k].entry.id].shape)
             /\ FillCommands(t, chain)[k].entry.id # 0
  <2> DEFINE ids == WantedIds(t, chain)
             cmds == FillCommands(t, chain)
  <2>1. Len(cmds) = Len(ids) /\ Wanted(t, chain) \subseteq DOMAIN t
        /\ \A m \in 1..Len(ids) : Fills(cmds[m], t, chain, m)
        /\ \A i \in Wanted(t, chain) : ~IsBlock(t[i].shape)
    BY FillIs
  <2>2. \A m \in 1..Len(ids) : /\ ids[m] \in Nat \ {0} /\ ids[m] \in Wanted(t, chain)
                               /\ LiveEntry(ids[m], t[ids[m]].shape).id = ids[m]
    BY WantedOnce
  <2>3. cmds[k].entry.id = ids[k] /\ k \in 1..Len(ids)
    BY <2>1, <2>2 DEF Fills
  <2> QED
    BY <2>1, <2>2, <2>3
<1>3. Hands(FillCommands(t, chain))
  BY <1>2 DEF Hands, HandTyped
<1>4. Hands(SyncCommands(t))
  <2> DEFINE cmds == SyncCommands(t)
  <2>1. ASSUME NEW k \in 1..Len(cmds)
        PROVE  ~HandTyped(cmds[k].entry)
    <3>1. PICK i \in Enabled(t) : IsBlock(t[i].shape) /\ cmds[k].entry = LiveEntry(i, t[i].shape)
      BY SyncType
    <3> QED
      BY <3>1 DEF LiveEntry, HandTyped
  <2> QED
    BY <2>1 DEF Hands
<1> QED
  BY <1>1, <1>2, <1>3, <1>4

\* Commands still to run are among those there were.
LEMMA HandsRest ==
  ASSUME NEW cmds \in Seq(Command), cmds # <<>>, Hands(cmds)
  PROVE  /\ Hands(Tail(cmds)) /\ ~HandTyped(Head(cmds).entry)
         /\ \A n \in Int : n >= 1 => Hands(SubSeq(cmds, n, Len(cmds)))
<1>1. Hands(Tail(cmds)) /\ ~HandTyped(Head(cmds).entry)
  BY OnTail DEF Hands
<1>2. ASSUME NEW n \in Int, n >= 1
      PROVE  Hands(SubSeq(cmds, n, Len(cmds)))
  <2> DEFINE rest == SubSeq(cmds, n, Len(cmds))
  <2>1. /\ Len(rest) = IF n <= Len(cmds) THEN Len(cmds) - n + 1 ELSE 0
        /\ \A k \in 1..Len(cmds) - n + 1 : rest[k] = cmds[n + k - 1]
    BY <1>2, SubSeqProperties
  <2>2. Len(cmds) \in Nat
    OBVIOUS
  <2> HIDE DEF rest
  <2>3. \A k \in 1..Len(rest) : n + k - 1 \in 1..Len(cmds) /\ rest[k] = cmds[n + k - 1]
    BY <1>2, <2>1, <2>2
  <2> QED
    BY <2>3 DEF Hands, rest
<1> QED
  BY <1>1, <1>2

-----------------------------------------------------------------------------
(* What the steps of a worker do to the plain rows and its commands. *)

\* What a deletion, an insert and an update of a row do to the plain rows.
LEMMA PlainTables ==
  ASSUME NEW t, IsTable(t), NEW id, NEW row
  PROVE  /\ PlainRows(Without(t, id)) = PlainRows(t) \ {id}
         /\ id \notin DOMAIN t => PlainRows(With(t, id, row)) =
               IF IsBlock(row.shape) THEN PlainRows(t) ELSE PlainRows(t) \cup {id}
         /\ (id \in DOMAIN t => row.shape = t[id].shape) =>
               PlainRows(Updated(t, id, row)) = PlainRows(t)
<1>1. DOMAIN Without(t, id) = DOMAIN t \ {id} /\ \A i \in DOMAIN t \ {id} : Without(t, id)[i] = t[i]
  BY DEF Without
<1>2. DOMAIN With(t, id, row) = DOMAIN t \cup {id} /\ With(t, id, row)[id] = row
        /\ \A i \in DOMAIN t : i # id => With(t, id, row)[i] = t[i]
  BY DEF With
<1>3. PlainRows(Without(t, id)) = PlainRows(t) \ {id}
  BY <1>1 DEF PlainRows
<1>4. ASSUME id \notin DOMAIN t
      PROVE  PlainRows(With(t, id, row)) =
               IF IsBlock(row.shape) THEN PlainRows(t) ELSE PlainRows(t) \cup {id}
  BY <1>2, <1>4 DEF PlainRows
<1>5. ASSUME id \in DOMAIN t => row.shape = t[id].shape
      PROVE  PlainRows(Updated(t, id, row)) = PlainRows(t)
  <2>1. CASE id \notin DOMAIN t
    BY <2>1 DEF Updated
  <2>2. CASE id \in DOMAIN t
    <3>1. PlainRows(With(t, id, row)) = PlainRows(t)
      BY <1>2, <1>5, <2>2 DEF PlainRows
    <3> QED
      BY <2>2, <3>1 DEF Updated
  <2> QED
    BY <2>1, <2>2
<1> QED
  BY <1>3, <1>4, <1>5

\* A job whose commands are assigned, and nothing else.
LEMMA AssignedCmds ==
  ASSUME Inv, NEW w \in Workers, NEW x, job' = [job EXCEPT ![w].cmds = x]
  PROVE  /\ job'[w].cmds = x /\ job'[w].chains = job[w].chains /\ job'[w].id = job[w].id
         /\ job'[w].found = job[w].found /\ job'[w].req = job[w].req
BY OfWorker DEF IsJob, NoJob, Inv

\* The commands, assigned together with the chains or the id.
LEMMA AssignedBoth ==
  ASSUME Inv, NEW w \in Workers, NEW x, NEW y,
         \/ job' = [job EXCEPT ![w].cmds = x, ![w].chains = y]
         \/ job' = [job EXCEPT ![w].chains = y, ![w].cmds = x]
         \/ job' = [job EXCEPT ![w].id = y, ![w].cmds = x]
  PROVE  job'[w].cmds = x
BY OfWorker DEF IsJob, NoJob, Inv

\* The id, assigned together with the commands.
LEMMA AssignedId ==
  ASSUME Inv, NEW w \in Workers, NEW x, NEW y, job' = [job EXCEPT ![w].id = y, ![w].cmds = x]
  PROVE  job'[w].id = y
BY OfWorker DEF IsJob, NoJob, Inv

\* Places where a handler knows nothing but its commands.
LEMMA HandsOnly ==
  ASSUME NEW p, NEW j, NEW S, NEW n, Hands(j.cmds),
         p \notin {"fill", "adopt", "claim", "drop", "apply", "undo", "unblock"}
  PROVE  HandsOff(p, j, S, n)
BY DEF HandsOff

\* What is known of the worker that moves.
LEMMA HandsOfWorker ==
  ASSUME HandBase, NEW w \in Workers
  PROVE  /\ Inv /\ LockInv /\ TagInv
         /\ Hands(job[w].cmds) /\ job[w].cmds \in Seq(Command)
         /\ HandsOff(pc[w], job[w], PlainIds, nextId) /\ Hands(NoJob.cmds)
         /\ FiniteTable(rules) /\ IsTable(rules) /\ nextId \in Nat \ {0}
         /\ \A i \in PlainIds : i \in DOMAIN rules /\ i \in Nat \ {0} /\ i < nextId
         /\ live \in [Chains -> Seq(Entry)]
<1>1. Inv /\ LockInv /\ TagInv
  BY DEF HandBase, TagInv, LockInv
<1>2. IsJob(job[w]) /\ FiniteTable(rules) /\ nextId \in Nat \ {0} /\ live \in [Chains -> Seq(Entry)]
  BY <1>1, OfWorker
<1>3. Hands(NoJob.cmds)
  BY DEF Hands, NoJob
<1>4. \A i \in DOMAIN rules : i \in Nat \ {0} /\ i < nextId
  BY <1>1 DEF Inv, SharedOK, FiniteTable, IsTable
<1>5. \A i \in PlainIds : i \in DOMAIN rules
  BY DEF PlainIds, PlainRows
<1> QED
  BY <1>1, <1>2, <1>3, <1>4, <1>5 DEF HandBase, HandsOff, FiniteTable, IsJob

\* A handler that ends is back at its start, with no commands.
LEMMA HandsEnd ==
  ASSUME HandBase, NEW w \in Workers, Finish(w)
  PROVE  HandsOff(pc'[w], job'[w], PlainIds', nextId') /\ pc'[w] = "idle"
<1>1. pc'[w] = "idle" /\ job'[w] = NoJob /\ Hands(NoJob.cmds)
  BY HandsOfWorker, Goes
<1> QED
  BY <1>1, HandsOnly

\* A handler that refuses leaves the table as it is.
LEMMA HandsDecline ==
  ASSUME HandBase, NEW w \in Workers, Decline(w)
  PROVE  PlainIds' = PlainIds /\ HandsOff(pc'[w], job'[w], PlainIds', nextId')
BY HandsEnd DEF Decline, PlainIds

\* A toggle keeps the kind of its row, and what it then runs is tagged.
LEMMA HandsToggle ==
  ASSUME HandBase, NEW w \in Workers, Toggle(w)
  PROVE  PlainIds' = PlainIds /\ HandsOff(pc'[w], job'[w], PlainIds', nextId')
<1> DEFINE id == job[w].req.id
           t == job[w].snap
           row == t[id]
           new == [row EXCEPT !.enabled = ~row.enabled]
           j == [job[w] EXCEPT !.id = id]
           ja == [j EXCEPT !.chains = ChainsFor(row.shape.kind)]
           jb == [j EXCEPT !.cmds = Apply(id, row.shape)]
           jc == [j EXCEPT !.cmds = Unapply(id, row.shape)]
<1>0. Inv /\ IsJob(job[w]) /\ IsTable(t) /\ IsTable(rules) /\ Hands(job[w].cmds) /\ pc[w] = "decide"
  BY HandsOfWorker, OfWorker DEF FiniteTable, Toggle, Deciding
<1>1. \/ Decline(w)
      \/ /\ id \in DOMAIN t
         /\ rules' = Updated(rules, id, new)
         /\ \/ Goto(w, "flock") /\ job' = [job EXCEPT ![w] = ja]
            \/ Goto(w, "enable") /\ job' = [job EXCEPT ![w] = jb]
            \/ Goto(w, "unapply") /\ job' = [job EXCEPT ![w] = jc]
  BY DEF Toggle, Commit
<1>2. CASE Decline(w)
  BY <1>2, HandsDecline
<1>3. ASSUME id \in DOMAIN t, rules' = Updated(rules, id, new),
             NEW p \in {"flock", "enable", "unapply"}, NEW k \in {ja, jb, jc},
             Goto(w, p), job' = [job EXCEPT ![w] = k]
      PROVE  PlainIds' = PlainIds /\ HandsOff(pc'[w], job'[w], PlainIds', nextId')
  <2>1. row \in Row /\ id \in Nat \ {0}
    BY <1>0, <1>3 DEF IsTable
  <2>2. new.shape = row.shape /\ row.shape \in Shape
    BY <2>1 DEF Row
  <2>3. id \in DOMAIN rules => rules[id].shape = row.shape
    BY <1>0, <1>3, OfWorker DEF Covers
  <2>4. PlainIds' = PlainIds
    <3> HIDE DEF new, row
    <3> QED BY <1>0, <1>3, <2>2, <2>3, PlainTables DEF PlainIds
  <2>5. ja.cmds = job[w].cmds /\ jb.cmds = Apply(id, row.shape) /\ jc.cmds = Unapply(id, row.shape)
    BY <1>0 DEF IsJob, NoJob
  <2>6. Hands(Apply(id, row.shape)) /\ Hands(Unapply(id, row.shape))
    BY <2>1, <2>2, HandsOfHandlers
  <2> HIDE DEF ja, jb, jc
  <2>7. pc'[w] = p /\ job'[w] = k
    BY <1>0, <1>3, Goes
  <2>8. Hands(k.cmds)
    BY <1>0, <2>5, <2>6
  <2> QED
    BY <2>4, <2>7, <2>8, HandsOnly
<1> QED
  BY <1>1, <1>2, <1>3

\* Disabling a block's row keeps its kind.
LEMMA HandsDisable ==
  ASSUME HandBase, NEW w \in Workers, Disable(w)
  PROVE  PlainIds' = PlainIds /\ HandsOff(pc'[w], job'[w], PlainIds', nextId')
<1> DEFINE id == job[w].req.id
           t == job[w].snap
           row == t[id]
           new == [row EXCEPT !.enabled = FALSE]
           cmds == IF row.enabled THEN Unapply(id, row.shape) ELSE <<>>
           j == [job[w] EXCEPT !.id = id, !.cmds = cmds]
<1>0. Inv /\ IsJob(job[w]) /\ IsTable(t) /\ IsTable(rules) /\ pc[w] = "decide"
  BY HandsOfWorker, OfWorker DEF FiniteTable, Disable, TakeOut, Deciding
<1>1. \/ Decline(w)
      \/ /\ id \in DOMAIN t /\ rules' = Updated(rules, id, new)
         /\ Goto(w, "unapply") /\ job' = [job EXCEPT ![w] = j]
  BY DEF Disable, TakeOut, Commit
<1>2. CASE Decline(w)
  BY <1>2, HandsDecline
<1>3. ASSUME id \in DOMAIN t, rules' = Updated(rules, id, new),
             Goto(w, "unapply"), job' = [job EXCEPT ![w] = j]
      PROVE  PlainIds' = PlainIds /\ HandsOff(pc'[w], job'[w], PlainIds', nextId')
  <2>1. row \in Row /\ id \in Nat \ {0}
    BY <1>0, <1>3 DEF IsTable
  <2>2. new.shape = row.shape /\ row.shape \in Shape
    BY <2>1 DEF Row
  <2>3. id \in DOMAIN rules => rules[id].shape = row.shape
    BY <1>0, <1>3, OfWorker DEF Covers
  <2>4. PlainIds' = PlainIds
    <3> HIDE DEF new, row
    <3> QED BY <1>0, <1>3, <2>2, <2>3, PlainTables DEF PlainIds
  <2>5. Hands(cmds)
    BY <2>1, <2>2, HandsOfHandlers
  <2> HIDE DEF cmds
  <2>6. j.cmds = cmds
    BY <1>0 DEF IsJob, NoJob
  <2> HIDE DEF j
  <2>7. pc'[w] = "unapply" /\ job'[w] = j
    BY <1>0, <1>3, Goes
  <2> QED
    BY <2>4, <2>5, <2>6, <2>7, HandsOnly
<1> QED
  BY <1>1, <1>2, <1>3

\* A reorder changes a position and nothing else of its row.
LEMMA HandsReorder ==
  ASSUME HandBase, NEW w \in Workers, Reorder(w)
  PROVE  PlainIds' = PlainIds /\ HandsOff(pc'[w], job'[w], PlainIds', nextId')
<1> DEFINE r == job[w].req
           t == job[w].snap
           new == [t[r.id] EXCEPT !.pos = ReorderPosition(t, r.id, r.target, r.place)]
<1>0. Inv /\ IsJob(job[w]) /\ IsTable(t) /\ IsTable(rules) /\ Hands(job[w].cmds) /\ pc[w] = "decide"
  BY HandsOfWorker, OfWorker DEF FiniteTable, Reorder, Deciding
<1>1. \/ Decline(w)
      \/ /\ r.id \in DOMAIN t /\ rules' = Updated(rules, r.id, new) /\ Goto(w, "flock")
         /\ \E order : job' = [job EXCEPT ![w] = [job[w] EXCEPT !.id = r.id, !.chains = order]]
  BY DEF Reorder, Commit
<1>2. CASE Decline(w)
  BY <1>2, HandsDecline
<1>3. ASSUME r.id \in DOMAIN t, rules' = Updated(rules, r.id, new), Goto(w, "flock"),
             NEW order, job' = [job EXCEPT ![w] = [job[w] EXCEPT !.id = r.id, !.chains = order]]
      PROVE  PlainIds' = PlainIds /\ HandsOff(pc'[w], job'[w], PlainIds', nextId')
  <2>1. t[r.id] \in Row
    BY <1>0, <1>3 DEF IsTable
  <2>2. new.shape = t[r.id].shape
    BY <2>1 DEF Row
  <2>3. r.id \in DOMAIN rules => rules[r.id].shape = t[r.id].shape
    BY <1>0, <1>3, OfWorker DEF Covers
  <2>4. PlainIds' = PlainIds
    <3> HIDE DEF new
    <3> QED BY <1>0, <1>3, <2>2, <2>3, PlainTables DEF PlainIds
  <2> DEFINE j == [job[w] EXCEPT !.id = r.id, !.chains = order]
  <2>5. j.cmds = job[w].cmds
    BY <1>0 DEF IsJob, NoJob
  <2> HIDE DEF j
  <2>6. pc'[w] = "flock" /\ job'[w] = j
    BY <1>0, <1>3, Goes DEF j
  <2> QED
    BY <1>0, <2>4, <2>5, <2>6, HandsOnly
<1> QED
  BY <1>1, <1>2, <1>3

\* A block inserts a row that is not plain, under a new id.
LEMMA HandsBlock ==
  ASSUME HandBase, NEW w \in Workers, Block(w)
  PROVE  PlainIds' = PlainIds /\ HandsOff(pc'[w], job'[w], PlainIds', nextId')
<1> DEFINE shape == job[w].req.shape
<1>0. Inv /\ LockInv /\ IsTable(rules) /\ nextId \in Nat \ {0} /\ nextId \notin DOMAIN rules
  BY HandsOfWorker, OfWorker
<1>1. pc[w] = "decide" /\ job[w].req \in Requests /\ job[w].req.op = "block"
  BY <1>0, OfWorker DEF Block, Deciding, PlaceOK
<1>2. IsBlock(shape) /\ shape \in Shape
  BY <1>1, RequestsAssumption DEF Request
<1>3. CASE Decline(w)
  BY <1>3, HandsDecline
<1>4. CASE CommitInsert(w, shape)
  <2> DEFINE row == [shape |-> shape, enabled |-> TRUE, pos |-> NextPosition(rules)]
  <2>1. rules' = With(rules, nextId, row) /\ row.shape = shape /\ nextId' = nextId + 1
    BY <1>4 DEF CommitInsert, Commit
  <2> HIDE DEF row
  <2>2. PlainIds' = PlainIds
    BY <1>0, <1>2, <2>1, PlainTables DEF PlainIds
  <2>3. pc'[w] = "apply" /\ job'[w].cmds = Apply(nextId, shape) /\ job'[w].id = nextId
    BY <1>0, <1>4, LockCommit
  <2>4. Hands(job'[w].cmds)
    BY <1>0, <1>2, <2>3, HandsOfHandlers
  <2>5. nextId \notin PlainIds
    BY <1>0 DEF PlainIds, PlainRows
  <2> QED
    BY <1>0, <2>1, <2>2, <2>3, <2>4, <2>5 DEF HandsOff
<1> QED
  BY <1>3, <1>4 DEF Block

\* An unblock is about a row that is not plain.
LEMMA HandsUnblock ==
  ASSUME HandBase, NEW w \in Workers, Unblock(w)
  PROVE  PlainIds' = PlainIds /\ HandsOff(pc'[w], job'[w], PlainIds', nextId')
<1> DEFINE t == job[w].snap
           blocks == BlockRows(t, job[w].req.shape.client)
<1>0. Inv /\ IsTable(t) /\ pc[w] = "decide" /\ nextId \in Nat \ {0}
  BY HandsOfWorker, OfWorker DEF FiniteTable, Unblock, Deciding
<1>1. CASE Decline(w)
  BY <1>1, HandsDecline
<1>2. ASSUME NEW i \in blocks, Goto(w, "unblock"), UNCHANGED <<rules, nextId>>,
             job' = [job EXCEPT ![w].id = i, ![w].cmds = Unapply(i, t[i].shape)]
      PROVE  PlainIds' = PlainIds /\ HandsOff(pc'[w], job'[w], PlainIds', nextId')
  <2>1. PICK x : x = Unapply(i, t[i].shape)
    OBVIOUS
  <2>2. pc'[w] = "unblock" /\ job'[w].cmds = x /\ job'[w].id = i
    <3>1. job' = [job EXCEPT ![w].id = i, ![w].cmds = x]
      BY <1>2, <2>1
    <3>2. job'[w].cmds = x /\ job'[w].id = i
      BY <1>0, <3>1, AssignedBoth, AssignedId
    <3>3. pc'[w] = "unblock"
      BY <1>0, <1>2, Goes
    <3> QED
      BY <3>2, <3>3
  <2>3. i \in DOMAIN t /\ IsBlock(t[i].shape) /\ i \in Nat \ {0} /\ t[i].shape \in Shape
    BY <1>0 DEF BlockRows, IsTable, Row
  <2>4. Hands(x)
    BY <2>1, <2>3, HandsOfHandlers
  <2>5. i < nextId /\ i \notin PlainIds
    BY <1>0, <2>3, OfWorker DEF Covers, PlainIds, PlainRows
  <2> QED
    BY <1>2, <2>2, <2>4, <2>5 DEF HandsOff, PlainIds
<1> QED
  BY <1>1, <1>2 DEF Unblock

\* Hence no commit of a request changes the plain rows.
LEMMA HandsTransaction ==
  ASSUME NothingDeleted, HandBase, NEW w \in Workers, Transaction(w)
  PROVE  PlainIds' = PlainIds /\ HandsOff(pc'[w], job'[w], PlainIds', nextId')
<1>0. Inv /\ Hands(job[w].cmds) /\ IsTable(rules) /\ HandsOff(pc[w], job[w], PlainIds, nextId)
  BY HandsOfWorker
<1>1. ASSUME pc[w] = "decide"
      PROVE  job[w].req.op \notin {"add", "delete"}
  BY <1>0, <1>1, OfWorker DEF PlaceOK, NothingDeleted
<1>2. CASE Lock(w)
  BY <1>0, <1>2, Goes, HandsOnly DEF Lock, PlainIds
<1>3. CASE LockTimeout(w)
  BY <1>3, HandsEnd DEF LockTimeout, PlainIds
<1>4. CASE Read(w)
  <2>1. job'[w].cmds = job[w].cmds /\ pc'[w] = "decide" /\ PlainIds' = PlainIds
    <3>1. PICK x : x = rules
      OBVIOUS
    <3>2. job' = [job EXCEPT ![w].snap = x]
      BY <1>4, <3>1 DEF Read
    <3>3. job'[w].cmds = job[w].cmds
      BY <1>0, <3>2, OfWorker DEF IsJob, NoJob, Inv
    <3> QED
      BY <1>0, <1>4, <3>3, Goes DEF Read, PlainIds
  <2> QED
    BY <1>0, <2>1, HandsOnly
<1>5. CASE UnblockCommit(w)
  <2>1. Finish(w) /\ rules' = Without(rules, job[w].id) /\ job[w].id \notin PlainIds
    BY <1>0, <1>5 DEF UnblockCommit, HandsOff
  <2>2. PlainIds' = PlainIds
    BY <1>0, <2>1, PlainTables DEF PlainIds
  <2> QED
    BY <2>1, <2>2, HandsEnd
<1>6. ~AddInput(w) /\ ~Delete(w)
  BY <1>1 DEF AddInput, Delete, TakeOut, Deciding
<1> QED
  BY <1>2, <1>3, <1>4, <1>5, <1>6, HandsToggle, HandsDisable, HandsReorder, HandsBlock, HandsUnblock
     DEF Transaction

\* A rebuild that fails goes on with the next chain, or ends.
LEMMA HandsAbort ==
  ASSUME HandBase, NEW w \in Workers, AbortRebuild(w)
  PROVE  HandsOff(pc'[w], job'[w], PlainIds', nextId')
<1>0. Inv
  BY HandsOfWorker
<1>1. CASE Finish(w)
  BY <1>1, HandsEnd
<1>2. CASE Goto(w, "flock") /\ job' = [job EXCEPT ![w].chains = Tail(@), ![w].cmds = <<>>]
  <2>1. job'[w].cmds = <<>> /\ pc'[w] = "flock"
    <3>1. PICK x, y : x = Tail(job[w].chains) /\ y = <<>>
      OBVIOUS
    <3>2. job' = [job EXCEPT ![w].chains = x, ![w].cmds = y]
      BY <1>2, <3>1
    <3>3. job'[w].cmds = y
      BY <1>0, <3>2, AssignedBoth
    <3> QED
      BY <1>0, <1>2, <3>1, <3>3, Goes
  <2>2. Hands(job'[w].cmds)
    BY <2>1 DEF Hands
  <2> QED
    BY <2>1, <2>2, HandsOnly
<1> QED
  BY <1>1, <1>2 DEF AbortRebuild

\* Commands that end, or fail, take no plain row away.
LEMMA HandsCommands ==
  ASSUME HandBase, NEW w \in Workers, Commands(w)
  PROVE  PlainIds' = PlainIds /\ HandsOff(pc'[w], job'[w], PlainIds', nextId')
<1> DEFINE cmds == job[w].cmds
<1>0. /\ Inv /\ IsTable(rules) /\ HandsOff(pc[w], job[w], PlainIds, nextId) /\ IsJob(job[w])
      /\ Hands(cmds) /\ cmds \in Seq(Command)
  BY HandsOfWorker, OfWorker
<1>1. CASE Applied(w)
  BY <1>1, HandsEnd DEF Applied, PlainIds
<1>2. CASE Undo(w)
  <2>1. Finish(w) /\ rules' = Without(rules, job[w].id) /\ job[w].id \notin PlainIds
    BY <1>0, <1>2 DEF Undo, HandsOff
  <2>2. PlainIds' = PlainIds
    <3>1. PlainRows(Without(rules, job[w].id)) = PlainRows(rules) \ {job[w].id}
      BY <1>0, PlainTables
    <3> QED
      BY <2>1, <3>1 DEF PlainIds
  <2> QED
    BY <2>1, <2>2, HandsEnd
<1>3. CASE RunCommand(w)
  <2>1. PICK x : x = Tail(cmds)
    OBVIOUS
  <2>2. job' = [job EXCEPT ![w].cmds = x] /\ pc' = pc /\ UNCHANGED <<rules, nextId>> /\ cmds # <<>>
    BY <1>3, <2>1 DEF RunCommand
  <2>3. /\ job'[w].cmds = x /\ job'[w].id = job[w].id /\ job'[w].found = job[w].found
        /\ pc'[w] = pc[w] /\ PlainIds' = PlainIds
    BY <1>0, <2>2, Assigned DEF PlainIds
  <2> HIDE DEF cmds
  <2>4. Hands(x) /\ \A k \in 1..Len(x) : k + 1 \in 1..Len(cmds) /\ x[k] = cmds[k + 1]
    BY <1>0, <2>1, <2>2, HandsRest, OnTail
  <2>5. pc[w] = "fill" => \A k \in 1..Len(x) : x[k].entry.id \in PlainIds
    BY <1>0, <2>4 DEF HandsOff, cmds
  <2>6. pc[w] \notin {"adopt", "claim", "drop"}
    BY <1>3 DEF RunCommand, Running
  <2> QED
    BY <1>0, <2>2, <2>3, <2>4, <2>5, <2>6 DEF HandsOff
<1>4. CASE FailCommand(w)
  <2> DEFINE c == Head(cmds)
             n == 2 + c.skip
  <2>0. UNCHANGED <<rules, nextId>> /\ cmds # <<>> /\ PlainIds' = PlainIds
    BY <1>4 DEF FailCommand, PlainIds
  <2>1. n \in Int /\ n >= 1
    <3>1. c \in Command
      BY <1>0, <2>0, OnTail
    <3> HIDE DEF c
    <3>2. c.skip \in Nat
      BY <3>1 DEF Command
    <3> QED
      BY <3>2
  <2>2. Hands(<<>>)
    BY DEF Hands
  <2>3. CASE pc[w] = "apply" /\ Goto(w, "undo") /\ job' = [job EXCEPT ![w].cmds = <<>>]
    <3>1. PICK x : x = <<>>
      OBVIOUS
    <3>2. job'[w].cmds = x /\ job'[w].id = job[w].id /\ pc'[w] = "undo"
      <4>1. job' = [job EXCEPT ![w].cmds = x]
        BY <2>3, <3>1
      <4>2. job'[w].cmds = x /\ job'[w].id = job[w].id
        BY <1>0, <4>1, AssignedCmds
      <4>3. pc'[w] = "undo"
        BY <1>0, <2>3, Goes
      <4> QED
        BY <4>2, <4>3
    <3> QED
      BY <1>0, <2>0, <2>2, <2>3, <3>1, <3>2 DEF HandsOff
  <2>4. CASE /\ pc[w] \in {"unapply", "sync"} /\ pc' = pc
             /\ job' = [job EXCEPT ![w].cmds = SubSeq(@, n, Len(@))]
    <3>1. pc'[w] = pc[w] /\ job'[w].cmds = SubSeq(cmds, n, Len(cmds))
      BY <1>0, <2>4, Assigned
    <3> HIDE DEF n
    <3>2. Hands(job'[w].cmds)
      BY <1>0, <2>0, <2>1, <3>1, HandsRest
    <3> QED
      BY <2>0, <2>4, <3>1, <3>2, HandsOnly
  <2>5. CASE Finish(w)
    BY <2>0, <2>5, HandsEnd
  <2>6. CASE AbortRebuild(w)
    BY <2>0, <2>6, HandsAbort
  <2> QED
    BY <1>4, <2>3, <2>4, <2>5, <2>6 DEF FailCommand
<1> QED
  BY <1>1, <1>2, <1>3, <1>4 DEF Commands

\* A rebuild takes its chain down and fills it with plain rows.
LEMMA HandsRebuild ==
  ASSUME HandBase, NEW w \in Workers, Rebuild(w)
  PROVE  PlainIds' = PlainIds /\ HandsOff(pc'[w], job'[w], PlainIds', nextId')
<1>0. /\ Inv /\ LockInv /\ FiniteTable(rules) /\ live \in [Chains -> Seq(Entry)]
      /\ IsJob(job[w]) /\ Hands(job[w].cmds)
  BY HandsOfWorker, OfWorker
<1>1. UNCHANGED <<rules, nextId>> /\ PlainIds' = PlainIds
  BY DEF Rebuild, SyncStart, SyncBlocksDone, TakeFlock, ListChain, ListFails, ReloadRules,
         ChainRebuilt, PlainIds
<1>2. CASE SyncStart(w)
  <2>1. PICK x : x = SyncCommands(rules)
    OBVIOUS
  <2>2. Goto(w, "sync") /\ \E order : job' = [job EXCEPT ![w].cmds = x, ![w].chains = order]
    BY <1>2, <2>1 DEF SyncStart
  <2>3. job'[w].cmds = x /\ pc'[w] = "sync"
    <3>1. PICK order : job' = [job EXCEPT ![w].cmds = x, ![w].chains = order]
      BY <2>2
    <3>2. job'[w].cmds = x
      BY <1>0, <3>1, AssignedBoth
    <3> QED
      BY <1>0, <2>2, <3>2, Goes
  <2>4. Hands(x)
    <3>1. "INPUT" \in Chains
      BY DEF Chains
    <3> QED
      BY <1>0, <2>1, <3>1, HandsOfRebuilds
  <2> QED
    BY <1>1, <2>3, <2>4, HandsOnly
<1>3. CASE SyncBlocksDone(w)
  <2>1. CASE Finish(w)
    BY <1>1, <2>1, HandsEnd
  <2>2. CASE Goto(w, "flock") /\ job' = job
    BY <1>0, <1>1, <2>2, Goes, HandsOnly
  <2> QED
    BY <1>3, <2>1, <2>2 DEF SyncBlocksDone
<1>4. CASE TakeFlock(w)
  <2>1. pc'[w] \in {"snapshot", "list"} /\ job' = job
    BY <1>0, <1>4, Goes DEF TakeFlock
  <2> QED
    BY <1>0, <1>1, <2>1, HandsOnly
<1>5. CASE ListChain(w)
  <2>1. PICK x : x = StripCommands(Head(job[w].chains))
    OBVIOUS
  <2>2. job' = [job EXCEPT ![w].cmds = x] /\ Goto(w, "strip") /\ pc[w] = "list"
    BY <1>5, <2>1 DEF ListChain
  <2>3. job'[w].cmds = x /\ pc'[w] = "strip"
    <3>1. job'[w].cmds = x
      BY <1>0, <2>2, AssignedCmds
    <3> QED
      BY <1>0, <2>2, <3>1, Goes
  <2>4. Hands(x)
    BY <1>0, <2>1, <2>2, AtChain, HandsOfRebuilds
  <2> QED
    BY <1>1, <2>3, <2>4, HandsOnly
<1>6. CASE ListFails(w)
  BY <1>1, <1>6, HandsAbort DEF ListFails
<1>7. CASE ReloadRules(w)
  <2>1. PICK x : x = FillCommands(rules, Head(job[w].chains))
    OBVIOUS
  <2>2. job' = [job EXCEPT ![w].cmds = x] /\ Goto(w, "fill") /\ pc[w] = "strip"
    BY <1>7, <2>1 DEF ReloadRules
  <2>3. job'[w].cmds = x /\ pc'[w] = "fill"
    <3>1. job'[w].cmds = x
      BY <1>0, <2>2, AssignedCmds
    <3> QED
      BY <1>0, <2>2, <3>1, Goes
  <2>4. Hands(x) /\ \A k \in 1..Len(x) : x[k].entry.id \in PlainIds
    BY <1>0, <2>1, <2>2, AtChain, HandsOfRebuilds DEF PlainIds, PlainRows
  <2> QED
    BY <1>1, <2>3, <2>4 DEF HandsOff
<1>8. CASE ChainRebuilt(w)
  <2>1. CASE Finish(w)
    BY <1>1, <2>1, HandsEnd
  <2>2. ASSUME NEW p \in {"list", "flock"}, NEW x, Goto(w, p), job' = [job EXCEPT ![w].chains = x]
        PROVE  HandsOff(pc'[w], job'[w], PlainIds', nextId')
    <3>1. pc'[w] = p /\ job'[w].cmds = job[w].cmds
      BY <1>0, <2>2, Assigned, Goes
    <3> QED
      BY <1>0, <3>1, HandsOnly
  <2> QED
    BY <1>1, <1>8, <2>1, <2>2 DEF ChainRebuilt
<1> QED
  BY <1>2, <1>3, <1>4, <1>5, <1>6, <1>7, <1>8 DEF Rebuild

\* The rules a discovery finds carry no tag: one in use would be in its snapshot.
LEMMA HandsScanned ==
  ASSUME HandBase, NEW w \in Workers, ScanChain(w), NEW k \in 1..Len(job'[w].found)
  PROVE  job'[w].found[k].entry.id = 0
<1>0. Inv /\ TagInv /\ live \in [Chains -> Seq(Entry)]
  BY HandsOfWorker
<1>1. PICK c \in Chains : \E m \in DOMAIN live[c] :
         /\ job'[w].found[k].entry = live[c][m]
         /\ live[c][m].id \notin DOMAIN job[w].snap
  BY <1>0, FoundUntracked
<1>2. PICK m \in DOMAIN live[c] : /\ job'[w].found[k].entry = live[c][m]
                                  /\ live[c][m].id \notin DOMAIN job[w].snap
  BY <1>1
<1>3. pc[w] \in Scanning
  BY DEF ScanChain, Scanning
<1>4. live[c][m].id \notin DOMAIN rules
  BY <1>0, <1>2, <1>3 DEF TagInv, Watches
<1>5. live[c][m].id = 0
  BY <1>4 DEF HandBase, Unclaimed, PlainIds, PlainRows
<1> QED
  BY <1>2, <1>5

\* Of what is left to look at, none carries a tag.
LEMMA HandsFoundRest ==
  ASSUME NEW found \in Seq([entry : Entry, pos : Int]), found # <<>>,
         \A k \in 1..Len(found) : found[k].entry.id = 0
  PROVE  \A k \in 1..Len(Tail(found)) : Tail(found)[k].entry.id = 0
<1> DEFINE rest == Tail(found)
<1>1. Len(rest) = Len(found) - 1 /\ Len(found) \in Nat
      /\ \A k \in 1..Len(rest) : rest[k] = found[k + 1]
  BY HeadTailProperties
<1> HIDE DEF rest
<1>2. \A k \in 1..Len(rest) : k + 1 \in 1..Len(found)
  BY <1>1
<1> QED
  BY <1>1, <1>2 DEF rest

\* The row of an adoption is plain: a discovery looks at no block.
LEMMA HandsAdopted ==
  ASSUME HandBase, NEW w \in Workers, Adopt(w)
  PROVE  PlainIds' = PlainIds \cup {nextId} /\ nextId' = nextId + 1
<1> DEFINE f == Head(job[w].found)
           chain == Head(job[w].scan)
           shape == AdoptedAs(chain, f.entry.shape)
           row == [shape |-> shape, enabled |-> TRUE, pos |-> f.pos]
<1>0. Inv /\ IsTable(rules) /\ IsJob(job[w]) /\ nextId \notin DOMAIN rules /\ PlaceOK(pc[w], job[w])
  BY HandsOfWorker, OfWorker
<1>1. pc[w] = "adopt" /\ rules' = With(rules, nextId, row) /\ nextId' = nextId + 1
        /\ job[w].found # <<>>
  BY DEF Adopt
<1>2. /\ job[w].found \in Seq([entry : Entry, pos : Int])
      /\ job[w].scan # <<>> /\ job[w].scan \in Seq(Chains)
      /\ \A k \in 1..Len(job[w].found) :
            /\ ~IsBlock(job[w].found[k].entry.shape)
            /\ AdoptedAs(chain, job[w].found[k].entry.shape) # None
  BY <1>0, <1>1 DEF PlaceOK, IsJob
<1>3. 1 \in 1..Len(job[w].found) /\ f = job[w].found[1] /\ f \in [entry : Entry, pos : Int]
  <2> DEFINE found == job[w].found
             Found == [entry : Entry, pos : Int]
  <2>1. found \in Seq(Found) /\ found # <<>>
    BY <1>1, <1>2
  <2> HIDE DEF found, Found
  <2>2. 1 \in 1..Len(found) /\ Head(found) = found[1] /\ Head(found) \in Found
    BY <2>1, EmptySeq, HeadTailProperties
  <2> QED
    BY <2>2 DEF found, Found
<1>4. chain \in Chains
  BY <1>2, HeadTailProperties
<1>5. f.entry.shape \in Shape
  <2> HIDE DEF f
  <2> QED
    BY <1>3 DEF Entry
<1>6. ~IsBlock(f.entry.shape) /\ shape # None
  BY <1>2, <1>3
<1> HIDE DEF f, chain
<1>7. ~IsBlock(row.shape)
  BY <1>4, <1>5, <1>6, AdoptedShape DEF IsBlock
<1> HIDE DEF row
<1>8. PlainRows(With(rules, nextId, row)) = PlainIds \cup {nextId}
  BY <1>0, <1>7, PlainTables DEF PlainIds
<1> QED
  BY <1>1, <1>8 DEF PlainIds

\* A discovery adds the plain row it adopts, and takes it back if its delete failed.
LEMMA HandsDiscovery ==
  ASSUME HandBase, NEW w \in Workers, Discovery(w)
  PROVE  /\ HandsOff(pc'[w], job'[w], PlainIds', nextId')
         /\ \/ Adopt(w) /\ PlainIds' = PlainIds \cup {nextId} /\ nextId' = nextId + 1
            \/ DropAdopted(w) /\ PlainIds' = PlainIds \ {job[w].id} /\ nextId' = nextId
            \/ ~Adopt(w) /\ ~DropAdopted(w) /\ PlainIds' = PlainIds /\ nextId' = nextId
<1>0. /\ Inv /\ IsJob(job[w]) /\ Hands(job[w].cmds) /\ IsTable(rules)
      /\ HandsOff(pc[w], job[w], PlainIds, nextId)
  BY HandsOfWorker, OfWorker
<1>1. ASSUME NEW p \in {"scan", "list", "snapshot"}, pc'[w] = p, job'[w].cmds = job[w].cmds
      PROVE  HandsOff(pc'[w], job'[w], PlainIds', nextId')
  BY <1>0, <1>1, HandsOnly
<1>2. ASSUME UNCHANGED <<rules, nextId>>
      PROVE  PlainIds' = PlainIds /\ nextId' = nextId
  BY <1>2 DEF PlainIds
<1>3. ASSUME pc[w] \in {"scan", "claim"}, UNCHANGED <<rules, nextId>>
      PROVE  ~Adopt(w) /\ ~DropAdopted(w) /\ PlainIds' = PlainIds /\ nextId' = nextId
  BY <1>2, <1>3 DEF Adopt, DropAdopted
<1>4. CASE Snapshot(w)
  <2>1. PICK x, y : x = rules /\ y = <<"FORWARD", "INPUT", "PREROUTING", "POSTROUTING">>
    OBVIOUS
  <2>2. job' = [job EXCEPT ![w].snap = x, ![w].scan = y] /\ pc[w] = "snapshot"
    BY <1>4, <2>1 DEF Snapshot
  <2>3. job'[w].cmds = job[w].cmds
    BY <1>0, <2>2, OfWorker DEF IsJob, NoJob, Inv
  <2>4. pc'[w] = "scan" /\ UNCHANGED <<rules, nextId>>
    BY <1>0, <1>4, Goes DEF Snapshot
  <2>5. ~Adopt(w) /\ ~DropAdopted(w)
    BY <2>2 DEF Adopt, DropAdopted
  <2> QED
    BY <1>1, <1>2, <2>3, <2>4, <2>5
<1>5. CASE ScanFails(w) \/ ChainScanned(w)
  <2>1. job' = [job EXCEPT ![w].scan = Tail(@)]
    BY <1>5 DEF ScanFails, ChainScanned
  <2>2. job'[w].cmds = job[w].cmds
    BY <1>0, <2>1, OfWorker DEF IsJob, NoJob, Inv
  <2>3. pc'[w] = "scan" /\ UNCHANGED <<rules, nextId>>
    BY <1>0, <1>5, Goes DEF ScanFails, ChainScanned
  <2>4. ~Adopt(w) /\ ~DropAdopted(w)
    BY <1>5 DEF Adopt, DropAdopted, ScanFails, ChainScanned
  <2> QED
    BY <1>1, <1>2, <2>2, <2>3, <2>4
<1>6. CASE ScanChain(w)
  <2>1. PICK x : job' = [job EXCEPT ![w].found = x]
    BY <1>6 DEF ScanChain
  <2>2. job'[w].cmds = job[w].cmds
    BY <1>0, <2>1, OfWorker DEF IsJob, NoJob, Inv
  <2>3. pc'[w] = "adopt" /\ UNCHANGED <<rules, nextId>> /\ pc[w] = "scan"
    BY <1>0, <1>6, Goes DEF ScanChain
  <2>4. \A k \in 1..Len(job'[w].found) : job'[w].found[k].entry.id = 0
    BY <1>6, HandsScanned
  <2>5. HandsOff(pc'[w], job'[w], PlainIds', nextId')
    BY <1>0, <2>2, <2>3, <2>4 DEF HandsOff
  <2> QED
    BY <1>3, <2>3, <2>5
<1>7. CASE Adopt(w)
  <2>1. job' = [job EXCEPT ![w].id = nextId] /\ pc[w] = "adopt"
    BY <1>7 DEF Adopt
  <2>2. job'[w].cmds = job[w].cmds /\ job'[w].found = job[w].found /\ job'[w].id = nextId
    BY <1>0, <2>1, OfWorker DEF IsJob, NoJob, Inv
  <2>3. pc'[w] = "claim"
    BY <1>0, <1>7, Goes DEF Adopt
  <2>4. PlainIds' = PlainIds \cup {nextId} /\ nextId' = nextId + 1
    BY <1>7, HandsAdopted
  <2>5. \A t \in InitTables : nextId \notin DOMAIN t
    <3>1. nextId \in Nat
      BY HandsOfWorker
    <3> QED
      BY <3>1 DEF HandBase
  <2>6. HandsOff(pc'[w], job'[w], PlainIds', nextId')
    BY <1>0, <2>1, <2>2, <2>3, <2>4, <2>5 DEF HandsOff
  <2> QED
    BY <1>7, <2>4, <2>6
<1>8. CASE Claim(w)
  <2>1. pc[w] = "claim" /\ UNCHANGED <<rules, nextId>> /\ job[w].found # <<>>
          /\ job[w].found \in Seq([entry : Entry, pos : Int])
    BY <1>0, <1>8, OfWorker DEF Claim, PlaceOK, IsJob
  <2>2. \/ job' = job /\ Goto(w, "drop")
        \/ Goto(w, "adopt") /\ \E x : job' = [job EXCEPT ![w].found = Tail(@), ![w].touched = x]
    BY <1>8 DEF Claim
  <2>3. CASE job' = job /\ Goto(w, "drop")
    <3>1. pc'[w] = "drop" /\ PlainIds' = PlainIds
      BY <1>0, <1>2, <2>1, <2>3, Goes
    <3>2. HandsOff(pc'[w], job'[w], PlainIds', nextId')
      BY <1>0, <2>1, <2>3, <3>1 DEF HandsOff
    <3> QED
      BY <1>3, <2>1, <3>2
  <2>4. ASSUME NEW x, Goto(w, "adopt"), job' = [job EXCEPT ![w].found = Tail(@), ![w].touched = x]
        PROVE  HandsOff(pc'[w], job'[w], PlainIds', nextId')
    <3>1. job'[w].cmds = job[w].cmds /\ job'[w].found = Tail(job[w].found)
      BY <1>0, <2>4, OfWorker DEF IsJob, NoJob, Inv
    <3>2. pc'[w] = "adopt"
      BY <1>0, <2>4, Goes
    <3>3. \A k \in 1..Len(job[w].found) : job[w].found[k].entry.id = 0
      BY <1>0, <2>1 DEF HandsOff
    <3>4. \A k \in 1..Len(job'[w].found) : job'[w].found[k].entry.id = 0
      BY <2>1, <3>1, <3>3, HandsFoundRest
    <3> QED
      BY <1>0, <3>1, <3>2, <3>4 DEF HandsOff
  <2> QED
    BY <1>3, <2>1, <2>2, <2>3, <2>4
<1>9. CASE DropAdopted(w)
  <2>1. job' = [job EXCEPT ![w].found = Tail(@)] /\ pc[w] = "drop"
          /\ rules' = Without(rules, job[w].id) /\ nextId' = nextId
    BY <1>9 DEF DropAdopted
  <2>2. job[w].found # <<>> /\ job[w].found \in Seq([entry : Entry, pos : Int])
    BY <1>0, <2>1, OfWorker DEF PlaceOK, IsJob
  <2>3. job'[w].cmds = job[w].cmds /\ job'[w].found = Tail(job[w].found)
    BY <1>0, <2>1, OfWorker DEF IsJob, NoJob, Inv
  <2>4. pc'[w] = "adopt"
    BY <1>0, <1>9, Goes DEF DropAdopted
  <2>5. \A k \in 1..Len(job[w].found) : job[w].found[k].entry.id = 0
    BY <1>0, <2>1 DEF HandsOff
  <2>6. \A k \in 1..Len(job'[w].found) : job'[w].found[k].entry.id = 0
    BY <2>2, <2>3, <2>5, HandsFoundRest
  <2>7. HandsOff(pc'[w], job'[w], PlainIds', nextId')
    BY <1>0, <2>3, <2>4, <2>6 DEF HandsOff
  <2>8. PlainRows(Without(rules, job[w].id)) = PlainRows(rules) \ {job[w].id}
    BY <1>0, PlainTables
  <2>9. PlainIds' = PlainIds \ {job[w].id}
    BY <2>1, <2>8 DEF PlainIds
  <2> QED
    BY <1>9, <2>1, <2>7, <2>9
<1>10. CASE AllScanned(w)
  <2>1. UNCHANGED <<rules, nextId>> /\ pc[w] = "scan"
    BY <1>10 DEF AllScanned
  <2>2. CASE Finish(w)
    BY <1>3, <2>1, <2>2, HandsEnd
  <2>3. ASSUME NEW x, job' = [job EXCEPT ![w].chains = x], Goto(w, "list")
        PROVE  HandsOff(pc'[w], job'[w], PlainIds', nextId')
    <3>1. job'[w].cmds = job[w].cmds
      BY <1>0, <2>3, OfWorker DEF IsJob, NoJob, Inv
    <3>2. pc'[w] = "list"
      BY <1>0, <2>3, Goes
    <3> QED
      BY <1>1, <3>1, <3>2
  <2> QED
    BY <1>3, <1>10, <2>1, <2>2, <2>3 DEF AllScanned, UnlockedRebuild
<1> QED
  BY <1>4, <1>5, <1>6, <1>7, <1>8, <1>9, <1>10 DEF Discovery

\* The three things a step does to the plain rows.
LEMMA HandsStep ==
  ASSUME NothingDeleted, HandBase, NEW w \in Workers, Step(w)
  PROVE  /\ HandsOff(pc'[w], job'[w], PlainIds', nextId')
         /\ \/ Adopt(w) /\ PlainIds' = PlainIds \cup {nextId} /\ nextId' = nextId + 1
            \/ DropAdopted(w) /\ PlainIds' = PlainIds \ {job[w].id} /\ nextId' = nextId
            \/ ~Adopt(w) /\ ~DropAdopted(w) /\ PlainIds' = PlainIds
<1>1. CASE Discovery(w)
  BY <1>1, HandsDiscovery
<1>2. CASE ~Discovery(w)
  <2>1. ~Adopt(w) /\ ~DropAdopted(w)
    BY <1>2 DEF Discovery
  <2>2. ~UnlockedInsert(w)
    <3>1. pc[w] \in {"max", "insert"} => job[w].req \in Requests /\ job[w].req.op = "add"
      BY HandsOfWorker, OfWorker DEF PlaceOK
    <3> QED
      BY <3>1 DEF UnlockedInsert, ReadMax, Insert, NothingDeleted
  <2> QED
    BY <1>2, <2>1, <2>2, HandsTransaction, HandsCommands, HandsRebuild DEF Step
<1> QED
  BY <1>1, <1>2

\* What the other handlers know survives it.
LEMMA HandsOthers ==
  ASSUME NothingDeleted, HandBase, NEW w \in Workers, Step(w), NEW v \in Workers \ {w}
  PROVE  HandsOff(pc[v], job[v], PlainIds', nextId')
<1>0. /\ Inv /\ LockInv /\ HandsOff(pc[v], job[v], PlainIds, nextId) /\ nextId \in Nat \ {0}
      /\ IsJob(job[v])
  BY HandsOfWorker, OfWorker
<1>1. nextId' = nextId \/ nextId' = nextId + 1
  BY <1>0, StepIds DEF IdsGrow
<1>2. \/ Adopt(w) /\ PlainIds' = PlainIds \cup {nextId}
      \/ DropAdopted(w) /\ PlainIds' = PlainIds \ {job[w].id}
      \/ PlainIds' = PlainIds
  BY HandsStep
<1>3. pc[v] \in {"fill", "adopt", "claim", "drop"} => PlainIds \subseteq PlainIds'
  <2> SUFFICES ASSUME pc[v] \in {"fill", "adopt", "claim", "drop"}
               PROVE  ~DropAdopted(w)
    BY <1>2
  <2>1. pc[w] # "drop"
    BY <1>0 DEF LockInv, Exclusive, Rebuilding
  <2> QED
    BY <2>1 DEF DropAdopted
<1>4. ASSUME pc[v] \in {"apply", "undo", "unblock"}
      PROVE  job[v].id \notin PlainIds' /\ job[v].id < nextId'
  <2>1. job[v].id \in Nat /\ job[v].id \notin PlainIds /\ job[v].id < nextId
    BY <1>0, <1>4 DEF HandsOff, IsJob
  <2>2. job[v].id # nextId /\ job[v].id < nextId'
    BY <1>0, <1>1, <2>1
  <2> QED
    BY <1>2, <2>1, <2>2
<1> QED
  BY <1>0, <1>3, <1>4 DEF HandsOff

\* The adoptions under way: one at most, of the worker that moves.
LEMMA ClaimingStep ==
  ASSUME LockInv, NEW w \in Workers, Step(w)
  PROVE  /\ Adopt(w) => Claiming = {} /\ Claiming' = {w} /\ job'[w].id = nextId /\ live' = live
         /\ DropAdopted(w) => Claiming = {w} /\ Claiming' = {} /\ live' = live
         /\ Claim(w) => /\ Claiming = {w}
                        /\ \/ Claiming' = {} /\ pc'[w] = "adopt"
                           \/ Claiming' = {w} /\ job' = job /\ live' = live
         /\ ~Adopt(w) /\ ~DropAdopted(w) /\ ~Claim(w) =>
               /\ Claiming' = Claiming /\ w \notin Claiming
               /\ \A v \in Claiming : job'[v] = job[v]
         /\ pc[w] = "fill" => Claiming = {}
<1>0. Inv /\ \A v \in Workers \ {w} : pc'[v] = pc[v] /\ job'[v] = job[v]
  BY EveryStepOK DEF StepOK, Moves, LockInv, Inv
<1>1. pc[w] \in Rebuilding => Claiming \subseteq {w}
  BY DEF LockInv, Exclusive, Rebuilding, Claiming
<1>2. \A v \in Workers \ {w} : v \in Claiming' <=> v \in Claiming
  BY <1>0 DEF Claiming
<1>3. /\ w \in Claiming <=> pc[w] \in {"claim", "drop"}
      /\ w \in Claiming' <=> pc'[w] \in {"claim", "drop"}
      /\ Claiming \subseteq Workers /\ Claiming' \subseteq Workers
  BY DEF Claiming
<1>4. ASSUME Adopt(w)
      PROVE  Claiming = {} /\ Claiming' = {w} /\ job'[w].id = nextId /\ live' = live
  <2>1. pc[w] = "adopt" /\ pc'[w] = "claim" /\ live' = live
    BY <1>0, <1>4, Goes DEF Adopt
  <2>2. job' = [job EXCEPT ![w].id = nextId]
    BY <1>4 DEF Adopt
  <2>3. job'[w].id = nextId
    BY <1>0, <2>2, OfWorker DEF IsJob, NoJob, Inv
  <2>4. Claiming \subseteq {w}
    BY <1>1, <2>1 DEF Rebuilding
  <2> QED
    BY <1>2, <1>3, <2>1, <2>3, <2>4
<1>5. ASSUME DropAdopted(w)
      PROVE  Claiming = {w} /\ Claiming' = {} /\ live' = live
  <2>1. pc[w] = "drop" /\ pc'[w] = "adopt" /\ live' = live
    BY <1>0, <1>5, Goes DEF DropAdopted
  <2>2. Claiming \subseteq {w}
    BY <1>1, <2>1 DEF Rebuilding
  <2> QED
    BY <1>2, <1>3, <2>1, <2>2
<1>6. ASSUME Claim(w)
      PROVE  /\ Claiming = {w}
             /\ \/ Claiming' = {} /\ pc'[w] = "adopt"
                \/ Claiming' = {w} /\ job' = job /\ live' = live
  <2>1. pc[w] = "claim"
    BY <1>6 DEF Claim
  <2>2. Claiming \subseteq {w}
    BY <1>1, <2>1 DEF Rebuilding
  <2>3. Goto(w, "adopt") \/ (Goto(w, "drop") /\ job' = job /\ live' = live)
    BY <1>6 DEF Claim
  <2> QED
    BY <1>0, <1>2, <1>3, <2>1, <2>2, <2>3, Goes
<1>7. ASSUME ~Adopt(w), ~DropAdopted(w), ~Claim(w)
      PROVE  /\ Claiming' = Claiming /\ w \notin Claiming
             /\ \A v \in Claiming : job'[v] = job[v]
  <2>1. pc[w] \notin {"claim", "drop"}
    <3>1. pc[w] \in {"claim", "drop"} => ~Transaction(w) /\ ~UnlockedInsert(w) /\ ~Commands(w) /\ ~Rebuild(w)
      <4>1. pc[w] \in {"claim", "drop"} => ~Transaction(w)
        BY DEF Transaction, Lock, LockTimeout, Read, AddInput, Toggle, Disable, Delete, TakeOut,
               Reorder, Block, Unblock, UnblockCommit, Deciding
      <4>2. pc[w] \in {"claim", "drop"} => ~UnlockedInsert(w) /\ ~Commands(w)
        BY DEF UnlockedInsert, ReadMax, Insert, Commands, RunCommand, FailCommand, Applied, Undo,
               Running
      <4>3. pc[w] \in {"claim", "drop"} => ~Rebuild(w)
        BY DEF Rebuild, SyncStart, SyncBlocksDone, TakeFlock, ListChain, ListFails, ReloadRules,
               ChainRebuilt
      <4> QED
        BY <4>1, <4>2, <4>3
    <3>2. pc[w] \in {"claim", "drop"} => ~Discovery(w)
      BY <1>7 DEF Discovery, Snapshot, ScanChain, ScanFails, ChainScanned, AllScanned
    <3> QED
      BY <3>1, <3>2 DEF Step
  <2>2. pc'[w] \notin {"claim", "drop"}
    <3>1. RunCommand(w) => pc'[w] = pc[w]
      BY DEF RunCommand
    <3>2. ListChain(w) \/ ReloadRules(w) => pc'[w] \notin {"claim", "drop"}
      BY <1>0, Goes DEF ListChain, ReloadRules
    <3>3. Snapshot(w) \/ ScanChain(w) \/ ScanFails(w) \/ ChainScanned(w) =>
            pc'[w] \notin {"claim", "drop"}
      BY <1>0, Goes DEF Snapshot, ScanChain, ScanFails, ChainScanned
    <3> QED
      BY <1>0, <1>7, <2>1, <3>1, <3>2, <3>3, Arrivals DEF Scanning
  <2> QED
    BY <1>0, <1>2, <1>3, <2>1, <2>2
<1>8. pc[w] = "fill" => Claiming = {}
  BY <1>1, <1>3 DEF Rebuilding
<1> QED
  BY <1>4, <1>5, <1>6, <1>7, <1>8

\* The tags of the live chains stay those of rows whose originals are gone.
LEMMA HandsTags ==
  ASSUME NothingDeleted, HandBase, NEW w \in Workers, Step(w)
  PROVE  \A c \in Chains : \A k \in DOMAIN live'[c] :
            live'[c][k].id # 0 => live'[c][k].id \in Unclaimed'
<1>0. /\ Inv /\ LockInv /\ NoAdds /\ live \in [Chains -> Seq(Entry)]
      /\ HandsOff(pc[w], job[w], PlainIds, nextId)
        /\ \A i \in PlainIds : i < nextId /\ i \in Nat
  BY HandsOfWorker, NoneAdded
<1>1. Unclaimed \subseteq Unclaimed'
  <2>1. CASE Adopt(w)
    <3>1. PlainIds' = PlainIds \cup {nextId} /\ Claiming = {} /\ Claiming' = {w} /\ job'[w].id = nextId
      BY <1>0, <2>1, HandsAdopted, ClaimingStep
    <3>2. nextId \notin PlainIds
      BY <1>0
    <3> QED
      BY <3>1, <3>2 DEF Unclaimed
  <2>2. CASE DropAdopted(w)
    <3>1. PlainIds' = PlainIds \ {job[w].id}
      <4>1. ~Adopt(w)
        BY <2>2 DEF Adopt, DropAdopted
      <4> QED
        BY <2>2, <4>1, HandsStep
    <3>2. Claiming = {w} /\ Claiming' = {}
      BY <1>0, <2>2, ClaimingStep
    <3> QED
      BY <3>1, <3>2 DEF Unclaimed
  <2>3. CASE ~Adopt(w) /\ ~DropAdopted(w)
    <3>1. PlainIds' = PlainIds
      BY <2>3, HandsStep
    <3>2. \/ Claiming' = {}
          \/ Claiming' = Claiming /\ \A v \in Claiming : job'[v] = job[v]
      BY <1>0, <2>3, ClaimingStep
    <3> QED
      BY <3>1, <3>2 DEF Unclaimed
  <2> QED
    BY <2>1, <2>2, <2>3
<1>2. CASE RunCommand(w) /\ pc[w] = "fill"
  <2> DEFINE cmds == job[w].cmds
             e == Head(cmds)
  <2>1. cmds \in Seq(Command) /\ cmds # <<>> /\ live' = Executed(e)
    BY <1>0, <1>2, OfWorker DEF RunCommand, IsJob
  <2>2. e \in Command /\ e = cmds[1] /\ 1 \in 1..Len(cmds)
    BY <2>1, OnTail
  <2>3. e.op = "-A" /\ e.entry.id \in PlainIds /\ e.chain \in Chains /\ e.entry \in Entry
    BY <1>0, <1>2, <2>2 DEF LockInv, Shaped, AllOn, HandsOff, Command
  <2>4. e.entry.id \in Unclaimed
    BY <1>0, <1>2, <2>3, ClaimingStep DEF Unclaimed
  <2> HIDE DEF e
  <2> SUFFICES ASSUME NEW c \in Chains, NEW k \in DOMAIN live'[c], live'[c][k].id # 0
               PROVE  live'[c][k].id \in Unclaimed'
    OBVIOUS
  <2>5. live[c] \in Seq(Entry)
    BY <1>0
  <2>6. CASE c # e.chain
    <3>1. live'[c] = live[c]
      BY <1>0, <2>1, <2>2, <2>6, ExecutedIs
    <3> QED
      BY <1>1, <3>1 DEF HandBase
  <2>7. CASE c = e.chain
    <3> DEFINE s == live[c]
               t == Append(s, e.entry)
    <3>1. live'[c] = t
      BY <1>0, <2>1, <2>2, <2>3, <2>7, ExecutedIs
    <3>2. DOMAIN t = 1..Len(s) + 1 /\ t[Len(s) + 1] = e.entry /\ \A m \in 1..Len(s) : t[m] = s[m]
      BY <2>3, <2>5, AppendProperties
    <3>3. Len(s) \in Nat /\ DOMAIN s = 1..Len(s)
      BY <2>5
    <3>4. k \in DOMAIN t /\ live'[c][k] = t[k]
      BY <3>1
    <3> HIDE DEF t, s
    <3>5. k = Len(s) + 1 \/ k \in DOMAIN s
      BY <3>2, <3>3, <3>4
    <3>6. CASE k = Len(s) + 1
      BY <1>1, <2>4, <3>2, <3>4, <3>6
    <3>7. CASE k \in DOMAIN s
      <4>1. live'[c][k] = s[k]
        BY <3>2, <3>3, <3>4, <3>7
      <4> QED
        BY <1>1, <3>7, <4>1 DEF HandBase, s
    <3> QED
      BY <3>5, <3>6, <3>7
  <2> QED
    BY <2>6, <2>7
<1>3. CASE ~(RunCommand(w) /\ pc[w] = "fill")
  <2>1. \A c \in Chains : Thins(live[c], live'[c])
    BY <1>0, <1>3, StepThins
  <2> QED
    BY <1>1, <2>1 DEF Thins, HandBase
<1> QED
  BY <1>2, <1>3

-----------------------------------------------------------------------------
(* The books. *)

\* Ids in use when the server starts.
Initial == UNION {DOMAIN t : t \in InitTables}

\* All that the property counts is finite; the adopted rows are the plain ones not there at the start.
LEMMA BooksOpen ==
  ASSUME HandBase
  PROVE  /\ Adopted = PlainIds \ Initial /\ IsFiniteSet(Adopted) /\ Cardinality(Adopted) \in Nat
         /\ IsFiniteSet(Claiming) /\ Cardinality(Claiming) \in Nat
         /\ Cardinality(Typed(live, Chains)) \in Nat
         /\ spent.manual \in Nat /\ spent.crashes \in Nat
         /\ nextId \notin Initial /\ nextId \notin PlainIds
<1>0. Inv /\ LockInv
  BY DEF HandBase, TagInv, LockInv
<1>1. Adopted = PlainIds \ Initial
  BY DEF Adopted, PlainIds, PlainRows, Initial
<1>2. IsFiniteSet(DOMAIN rules) /\ nextId \in Nat /\ nextId \notin DOMAIN rules
        /\ live \in [Chains -> Seq(Entry)]
  BY <1>0, OfWorker DEF Inv, SharedOK, FiniteTable
<1>3. IsFiniteSet(Adopted) /\ Cardinality(Adopted) \in Nat
  <2>1. Adopted \subseteq DOMAIN rules
    BY DEF Adopted
  <2> QED
    BY <1>2, <2>1, FS_Subset, FS_CardinalityType
<1>4. IsFiniteSet(Claiming) /\ Cardinality(Claiming) \in Nat
  <2>1. Claiming \subseteq {flock}
    BY <1>0 DEF LockInv, Exclusive, Rebuilding, Claiming
  <2>2. IsFiniteSet({flock})
    BY FS_Singleton
  <2> QED
    BY <2>1, <2>2, FS_Subset, FS_CardinalityType
<1>5. Cardinality(Typed(live, Chains)) \in Nat
  <2>1. "INPUT" \in Chains
    BY DEF Chains
  <2>2. \A lv \in [Chains -> Seq(Entry)] : Cardinality(Typed(lv, Chains)) \in Nat
    BY <2>1, TypedChanged
  <2> QED
    BY <1>2, <2>2
<1>6. spent.manual \in Nat /\ spent.crashes \in Nat
  <2>1. spent.manual \in 0..MaxManual /\ spent.crashes \in 0..MaxCrashes
    BY <1>0 DEF Inv, SharedOK
  <2> QED
    BY <2>1
<1>7. nextId \notin Initial
  BY <1>2 DEF HandBase, Initial
<1>8. nextId \notin PlainIds
  BY <1>2 DEF PlainIds, PlainRows
<1> QED
  BY <1>1, <1>3, <1>4, <1>5, <1>6, <1>7, <1>8

\* A command executed on a chain changes the count by what it takes away.
LEMMA BooksCommand ==
  ASSUME live \in [Chains -> Seq(Entry)], live' \in [Chains -> Seq(Entry)],
         NEW c \in Command, Executable(c), live' = Executed(c),
         c.op = "-D" \/ ~HandTyped(c.entry)
  PROVE  Cardinality(Typed(live', Chains)) =
            Cardinality(Typed(live, Chains)) - (IF HandTyped(c.entry) THEN 1 ELSE 0)
<1> DEFINE chain == c.chain
           s == live[chain]
           t == live'[chain]
           e == c.entry
           less == IF HandTyped(e) THEN 1 ELSE 0
<1>1. /\ chain \in Chains /\ e \in Entry /\ c.op \in {"-A", "-I", "-D"}
      /\ \A d \in Chains : d # chain => live'[d] = live[d]
      /\ c.op = "-A" => t = Append(s, e)
      /\ c.op = "-I" => t = <<e>> \o s
      /\ c.op = "-D" => t = RemoveFirst(s, e)
  BY ExecutedIs
<1>2. s \in Seq(Entry) /\ t \in Seq(Entry)
  BY <1>1
<1>3. c.op = "-D" => e \in ToSet(s)
  BY DEF Executable
<1>4. Cardinality(HandTypedAt(s)) \in Nat /\ Cardinality(HandTypedAt(t)) \in Nat
  BY <1>2, HandsFinite
<1>5. PICK lv \in [Chains -> Seq(Entry)], lw \in [Chains -> Seq(Entry)] : lv = live /\ lw = live'
  OBVIOUS
<1>6. /\ Cardinality(Typed(lw, Chains)) - Cardinality(Typed(lv, Chains)) =
            Cardinality(HandTypedAt(lw[chain])) - Cardinality(HandTypedAt(lv[chain]))
      /\ Cardinality(Typed(lv, Chains)) \in Nat /\ Cardinality(Typed(lw, Chains)) \in Nat
  <2>1. \A d \in Chains : d # chain => lw[d] = lv[d]
    BY <1>1, <1>5
  <2> HIDE DEF chain
  <2> QED
    BY <1>1, <1>5, <2>1, TypedChanged
<1>7. Cardinality(HandTypedAt(t)) = Cardinality(HandTypedAt(s)) - less
  <2> HIDE DEF s, t, e, chain
  <2>1. CASE c.op = "-D"
    <3>1. Cardinality(HandTypedAt(RemoveFirst(s, e))) = Cardinality(HandTypedAt(s)) - less
      BY <1>2, <1>3, <2>1, HandsRemoved
    <3> QED
      BY <1>1, <2>1, <3>1
  <2>2. CASE c.op # "-D"
    <3>0. ~HandTyped(e)
      BY <2>2 DEF e
    <3>1. Cardinality(HandTypedAt(Append(s, e))) = Cardinality(HandTypedAt(s)) + less
      BY <1>1, <1>2, HandsAppended
    <3>2. Cardinality(HandTypedAt(<<e>> \o s)) = Cardinality(HandTypedAt(s))
      BY <1>1, <1>2, <3>0, HandsPrepended
    <3>3. less = 0
      BY <3>0
    <3>4. c.op = "-A" \/ c.op = "-I"
      BY <1>1, <2>2
    <3>5. t = Append(s, e) \/ t = <<e>> \o s
      BY <1>1, <3>4
    <3> HIDE DEF less
    <3> DEFINE n == Cardinality(HandTypedAt(s))
    <3>6. Cardinality(HandTypedAt(t)) = n + less \/ Cardinality(HandTypedAt(t)) = n
      BY <3>1, <3>2, <3>5
    <3>7. n \in Nat
      BY <1>4
    <3> HIDE DEF n
    <3>8. Cardinality(HandTypedAt(t)) = n - less
      BY <3>3, <3>6, <3>7
    <3> QED
      BY <3>8 DEF n
  <2> QED
    BY <2>1, <2>2
<1>8. less \in Int
  OBVIOUS
<1> HIDE DEF s, t, less
<1>9. Cardinality(HandTypedAt(lv[chain])) = Cardinality(HandTypedAt(s))
        /\ Cardinality(HandTypedAt(lw[chain])) = Cardinality(HandTypedAt(t))
  BY <1>5 DEF s, t
<1>10. Cardinality(Typed(lw, Chains)) = Cardinality(Typed(lv, Chains)) - less
  BY <1>4, <1>6, <1>7, <1>8, <1>9
<1> QED
  BY <1>5, <1>10 DEF less

\* So is all that is counted in the next state.
LEMMA BooksOpenNext ==
  ASSUME HandBase'
  PROVE  /\ Cardinality(Adopted') \in Nat /\ Cardinality(Claiming') \in Nat
         /\ Cardinality(Typed(live', Chains)) \in Nat
<1>0. Inv' /\ LockInv'
  BY DEF HandBase, TagInv, LockInv
<1>1. IsFiniteSet(DOMAIN rules') /\ live' \in [Chains -> Seq(Entry)]
  BY <1>0 DEF Inv, SharedOK, FiniteTable
<1>2. Cardinality(Adopted') \in Nat
  <2>1. Adopted' \subseteq DOMAIN rules'
    BY DEF Adopted
  <2> QED
    BY <1>1, <2>1, FS_Subset, FS_CardinalityType
<1>3. Cardinality(Claiming') \in Nat
  <2>1. Claiming' \subseteq {flock'}
    BY <1>0 DEF LockInv, Exclusive, Rebuilding, Claiming
  <2>2. IsFiniteSet({flock'})
    BY FS_Singleton
  <2> QED
    BY <2>1, <2>2, FS_Subset, FS_CardinalityType
<1>4. Cardinality(Typed(live', Chains)) \in Nat
  <2>1. "INPUT" \in Chains
    BY DEF Chains
  <2>2. \A lv \in [Chains -> Seq(Entry)] : Cardinality(Typed(lv, Chains)) \in Nat
    BY <2>1, TypedChanged
  <2> QED
    BY <1>1, <2>2
<1> QED
  BY <1>2, <1>3, <1>4

\* What the property says, in the terms of these lemmas.
LEMMA BooksBalance ==
  ManualRulesConserved <=>
    LET kept == Cardinality(Typed(live, Chains)) + Cardinality(Adopted)
        due  == spent.manual + Cardinality(Claiming)
    IN  due <= kept /\ kept <= due + spent.crashes
BY DEF ManualRulesConserved, Typed

\* A step of a worker keeps the balance.
LEMMA BooksStep ==
  ASSUME NothingDeleted, HandBase, HandBase', ManualRulesConserved, NEW w \in Workers, Step(w)
  PROVE  ManualRulesConserved'
<1> DEFINE a == Cardinality(Adopted)
           b == Cardinality(Adopted')
           x == Cardinality(Claiming)
           y == Cardinality(Claiming')
           p == Cardinality(Typed(live, Chains))
           q == Cardinality(Typed(live', Chains))
<1>0. Inv /\ LockInv /\ live \in [Chains -> Seq(Entry)] /\ HandsOff(pc[w], job[w], PlainIds, nextId)
  BY HandsOfWorker
<1>1. live' \in [Chains -> Seq(Entry)]
  BY DEF HandBase, TagInv, LockInv, Inv, SharedOK
<1>2. spent' = spent
  BY <1>0, StepSpends
<1>3. /\ Adopted = PlainIds \ Initial /\ IsFiniteSet(Adopted) /\ a \in Nat /\ x \in Nat /\ p \in Nat
      /\ nextId \notin Initial /\ nextId \notin PlainIds
      /\ spent.manual \in Nat /\ spent.crashes \in Nat
  BY BooksOpen
<1>4. /\ Adopted' = PlainIds' \ Initial /\ b \in Nat /\ y \in Nat /\ q \in Nat
  <2>1. Adopted' = PlainIds' \ Initial
    BY DEF Adopted, PlainIds, PlainRows, Initial
  <2>2. b \in Nat /\ y \in Nat /\ q \in Nat
    BY BooksOpenNext
  <2> QED
    BY <2>1, <2>2
<1>5. spent.manual + x <= p + a /\ p + a <= spent.manual + x + spent.crashes
  BY BooksBalance
<1>6. live' = live => q = p
  OBVIOUS
<1>7. Cardinality({w}) = 1 /\ Cardinality({}) = 0
  BY FS_Singleton, FS_EmptySet
<1>8. \/ q = p /\ b = a /\ y = x
      \/ q = p /\ b = a + 1 /\ y = x + 1
      \/ q = p - 1 /\ b = a /\ y = x - 1
      \/ q = p /\ b = a - 1 /\ y = x - 1
  <2>1. CASE Adopt(w)
    <3>1. PlainIds' = PlainIds \cup {nextId} /\ Claiming = {} /\ Claiming' = {w} /\ live' = live
      BY <1>0, <2>1, HandsAdopted, ClaimingStep
    <3>2. Adopted' = Adopted \cup {nextId} /\ nextId \notin Adopted
      BY <1>3, <1>4, <3>1
    <3>3. b = a + 1
      BY <1>3, <3>2, FS_AddElement
    <3> QED
      BY <1>6, <1>7, <3>1, <3>3
  <2>2. CASE DropAdopted(w)
    <3>1. ~Adopt(w) /\ pc[w] = "drop"
      BY <2>2 DEF Adopt, DropAdopted
    <3>2. PlainIds' = PlainIds \ {job[w].id}
      BY <2>2, <3>1, HandsStep
    <3>3. Claiming = {w} /\ Claiming' = {} /\ live' = live
      BY <1>0, <2>2, ClaimingStep
    <3>4. job[w].id \in PlainIds /\ job[w].id \notin Initial
      BY <1>0, <3>1 DEF HandsOff, Initial
    <3>5. Adopted' = Adopted \ {job[w].id} /\ job[w].id \in Adopted
      BY <1>3, <1>4, <3>2, <3>4
    <3>6. b = a - 1
      BY <1>3, <3>5, FS_RemoveElement
    <3> QED
      BY <1>6, <1>7, <3>3, <3>6
  <2>3. CASE ~Adopt(w) /\ ~DropAdopted(w)
    <3>1. PlainIds' = PlainIds
      BY <2>3, HandsStep
    <3>2. b = a
      BY <1>3, <1>4, <3>1
    <3>3. CASE Claim(w)
      <4>1. pc[w] = "claim"
        BY <3>3 DEF Claim
      <4>2. Claiming = {w} /\ \/ Claiming' = {} /\ pc'[w] = "adopt"
                              \/ Claiming' = {w} /\ live' = live
        BY <1>0, <3>3, ClaimingStep
      <4>3. CASE Claiming' = {w} /\ live' = live
        BY <1>6, <3>2, <4>2, <4>3
      <4>4. CASE Claiming' = {} /\ pc'[w] = "adopt"
        <5> DEFINE f == Head(job[w].found)
                   c == [op |-> "-D", chain |-> Head(job[w].scan), entry |-> f.entry, skip |-> 0]
        <5>1. live' = Executed(c) /\ Executable(c)
          <6>1. ~Goto(w, "drop")
            BY <1>0, <4>4, Goes
          <6> QED
            BY <3>3, <6>1 DEF Claim
        <5>2. /\ job[w].found \in Seq([entry : Entry, pos : Int]) /\ job[w].found # <<>>
              /\ job[w].scan \in Seq(Chains) /\ job[w].scan # <<>>
              /\ \A k \in 1..Len(job[w].found) : /\ ~IsBlock(job[w].found[k].entry.shape)
                                                 /\ job[w].found[k].entry.id = 0
          BY <1>0, <4>1, OfWorker DEF PlaceOK, IsJob, HandsOff
        <5>3. 1 \in 1..Len(job[w].found) /\ f = job[w].found[1] /\ f \in [entry : Entry, pos : Int]
          <6> DEFINE found == job[w].found
                     Found == [entry : Entry, pos : Int]
          <6>1. found \in Seq(Found) /\ found # <<>>
            BY <5>2
          <6> HIDE DEF found, Found
          <6>2. 1 \in 1..Len(found) /\ Head(found) = found[1] /\ Head(found) \in Found
            BY <6>1, EmptySeq, HeadTailProperties
          <6> QED
            BY <6>2 DEF found, Found
        <5>4. Head(job[w].scan) \in Chains
          BY <5>2, HeadTailProperties
        <5>5. HandTyped(f.entry)
          BY <5>2, <5>3 DEF HandTyped
        <5> HIDE DEF f
        <5>6. c \in Command /\ c.op = "-D" /\ c.entry = f.entry
          BY <5>3, <5>4 DEF Command
        <5> HIDE DEF c
        <5>7. q = p - 1
          BY <1>0, <1>1, <5>1, <5>5, <5>6, BooksCommand
        <5> QED
          BY <1>7, <3>2, <4>2, <4>4, <5>7
      <4> QED
        BY <4>2, <4>3, <4>4
    <3>4. CASE RunCommand(w)
      <4> DEFINE cmds == job[w].cmds
                 c == Head(cmds)
      <4>1. /\ cmds \in Seq(Command) /\ cmds # <<>> /\ live' = Executed(c) /\ Executable(c)
            /\ Hands(cmds)
        BY <3>4, HandsOfWorker DEF RunCommand
      <4>2. c \in Command /\ ~HandTyped(c.entry)
        BY <4>1, OnTail, HandsRest
      <4> HIDE DEF c
      <4>3. q = p - 0
        BY <1>0, <1>1, <4>1, <4>2, BooksCommand
      <4>4. Claiming' = Claiming
        <5>1. ~Claim(w)
          BY <3>4 DEF RunCommand, Claim, Running
        <5> QED
          BY <1>0, <2>3, <5>1, ClaimingStep
      <4> QED
        BY <1>3, <3>2, <4>3, <4>4
    <3>5. CASE ~Claim(w) /\ ~RunCommand(w)
      <4>1. live' = live
        BY <1>0, <3>5, ChainsAlone DEF ListChain, ReloadRules
      <4>2. Claiming' = Claiming
        BY <1>0, <2>3, <3>5, ClaimingStep
      <4> QED
        BY <1>6, <3>2, <4>1, <4>2
    <3> QED
      BY <3>3, <3>4, <3>5
  <2> QED
    BY <2>1, <2>2, <2>3
<1> HIDE DEF a, b, x, y, p, q
<1>9. spent.manual + y <= q + b /\ q + b <= spent.manual + y + spent.crashes
  BY <1>3, <1>4, <1>5, <1>8
<1> QED
  BY <1>2, <1>9 DEF ManualRulesConserved, Typed, a, b, x, y, p, q

\* Requests that come in, kills and hand-typed rules keep the books too.
LEMMA HandsAround ==
  ASSUME NothingDeleted, PlainStart, HandInv, TagInv', Environment
  PROVE  HandInv'
<1>0. HandBase /\ ManualRulesConserved /\ Inv /\ LockInv /\ live \in [Chains -> Seq(Entry)]
  BY OfWorker DEF HandInv, HandBase, TagInv, LockInv, Inv, SharedOK
<1> DEFINE due == spent.manual + Cardinality(Claiming)
           kept == Cardinality(Typed(live, Chains)) + Cardinality(Adopted)
<1>1. due <= kept /\ kept <= due + spent.crashes
  BY <1>0, BooksBalance
<1>2. /\ Cardinality(Adopted) \in Nat /\ Cardinality(Claiming) \in Nat /\ IsFiniteSet(Claiming)
      /\ Cardinality(Typed(live, Chains)) \in Nat
      /\ spent.manual \in Nat /\ spent.crashes \in Nat
  BY <1>0, BooksOpen
<1>3. spent.losses = 0 /\ MaxLosses = 0
        /\ DOMAIN spent = {"requests", "manual", "losses", "crashes"}
  <2>1. MaxLosses = 0 /\ spent \in [requests : 0..MaxRequests, manual : 0..MaxManual,
                                    losses : 0..MaxLosses, crashes : 0..MaxCrashes]
    BY <1>0 DEF NothingDeleted, Inv, SharedOK
  <2> QED
    BY <2>1
<1>4. \A v \in Workers : HandsOff(pc[v], job[v], PlainIds, nextId)
  BY <1>0 DEF HandBase
<1>5. ASSUME UNCHANGED <<rules, nextId, live>>, NEW w \in Workers,
             \A v \in Workers \ {w} : pc'[v] = pc[v] /\ job'[v] = job[v],
             Hands(job'[w].cmds), pc'[w] \in {"max", "start", "flock", "lock", "idle"}
      PROVE  HandBase' /\ Claiming' = Claiming \ {w}
  <2>1. PlainIds' = PlainIds
    BY <1>5 DEF PlainIds
  <2>2. Claiming' = Claiming \ {w}
    BY <1>5 DEF Claiming
  <2>3. Unclaimed \subseteq Unclaimed'
    <3>1. \A v \in Claiming' : v \in Claiming /\ job'[v] = job[v]
      BY <1>5, <2>2 DEF Claiming
    <3> QED
      BY <2>1, <3>1 DEF Unclaimed
  <2>4. \A c \in Chains : \A k \in DOMAIN live'[c] :
            live'[c][k].id # 0 => live'[c][k].id \in Unclaimed'
    BY <1>0, <1>5, <2>3 DEF HandBase
  <2>5. \A t \in InitTables : \A i \in DOMAIN t : i < nextId'
    BY <1>0, <1>5 DEF HandBase
  <2>6. HandsOff(pc'[w], job'[w], PlainIds', nextId')
    BY <1>5, HandsOnly
  <2>7. \A v \in Workers : HandsOff(pc'[v], job'[v], PlainIds', nextId')
    BY <1>4, <1>5, <2>1, <2>6
  <2> QED
    BY <2>2, <2>4, <2>5, <2>7 DEF HandBase
<1>6. ASSUME NEW w \in Workers, NEW r \in Requests, Receive(w, r)
      PROVE  HandInv'
  <2>1. /\ UNCHANGED <<rules, nextId, live>> /\ pc[w] = "idle"
        /\ \A v \in Workers \ {w} : pc'[v] = pc[v] /\ job'[v] = job[v]
    BY <1>0, <1>6 DEF Receive, Goto, Inv
  <2>2. pc'[w] \in {"max", "start", "flock", "lock"} /\ job'[w] = [NoJob EXCEPT !.req = r]
    BY <1>0, <1>6, Goes DEF Receive, EntryPlace
  <2>3. Hands(job'[w].cmds)
    BY <2>2 DEF Hands, NoJob
  <2>4. HandBase' /\ Claiming' = Claiming \ {w}
    BY <1>5, <2>1, <2>2, <2>3
  <2>5. Claiming' = Claiming
    BY <2>1, <2>4 DEF Claiming
  <2>6. Adopted' = Adopted
    BY <2>1 DEF Adopted
  <2>7. spent'.manual = spent.manual /\ spent'.crashes = spent.crashes
    BY <1>3, <1>6 DEF Receive
  <2>8. ManualRulesConserved'
    BY <1>1, <2>1, <2>5, <2>6, <2>7 DEF ManualRulesConserved, Typed
  <2> QED
    BY <2>4, <2>8 DEF HandInv
<1>7. ASSUME NEW w \in Workers, Crash(w)
      PROVE  HandInv'
  <2>1. /\ UNCHANGED <<rules, nextId, live>>
        /\ \A v \in Workers \ {w} : pc'[v] = pc[v] /\ job'[v] = job[v]
    BY <1>0, <1>7 DEF Crash, Finish, Goto, Inv
  <2>2. pc'[w] = "idle" /\ job'[w] = NoJob
    BY <1>0, <1>7, Goes DEF Crash
  <2>3. Hands(job'[w].cmds)
    BY <2>2 DEF Hands, NoJob
  <2>4. HandBase' /\ Claiming' = Claiming \ {w}
    BY <1>5, <2>1, <2>2, <2>3
  <2>6. \/ Cardinality(Claiming') = Cardinality(Claiming)
        \/ Cardinality(Claiming') = Cardinality(Claiming) - 1
    <3>1. CASE w \in Claiming
      BY <1>2, <2>4, <3>1, FS_RemoveElement
    <3>2. CASE w \notin Claiming
      <4>1. Claiming' = Claiming
        BY <2>4, <3>2
      <4> QED
        BY <4>1
    <3> QED
      BY <3>1, <3>2
  <2>7. Adopted' = Adopted
    BY <2>1 DEF Adopted
  <2>8. spent'.manual = spent.manual /\ spent'.crashes = spent.crashes + 1
    BY <1>3, <1>7 DEF Crash
  <2> DEFINE x == Cardinality(Claiming)
             y == Cardinality(Claiming')
             p == Cardinality(Typed(live, Chains))
             a == Cardinality(Adopted)
  <2> HIDE DEF x, y, p, a
  <2>9. spent.manual + y <= p + a /\ p + a <= spent.manual + y + (spent.crashes + 1)
    BY <1>1, <1>2, <2>6 DEF x, y, p, a
  <2>10. ManualRulesConserved'
    BY <2>1, <2>7, <2>8, <2>9 DEF ManualRulesConserved, Typed, x, y, p, a
  <2> QED
    BY <2>4, <2>10 DEF HandInv
<1>8. ASSUME NEW m \in ManualRules, ManualAppend(m[1], m[2])
      PROVE  HandInv'
  <2> DEFINE e == [id |-> 0, shape |-> m[2]]
  <2>1. m[1] \in Chains /\ e \in Entry /\ e.id = 0 /\ HandTyped(e)
    BY ManualAssumption DEF Entry, HandTyped, PlainStart
  <2>2. /\ live' = [live EXCEPT ![m[1]] = Append(@, e)]
        /\ UNCHANGED <<rules, nextId, pc, job>>
    BY <1>8 DEF ManualAppend
  <2>3. spent'.manual = spent.manual + 1 /\ spent'.crashes = spent.crashes
    BY <1>3, <1>8 DEF ManualAppend
  <2> HIDE DEF e
  <2>4. \A c \in Chains : Thins(live[c], live'[c])
    BY <1>0, <1>8, HandThins
  <2>5. PlainIds' = PlainIds /\ Claiming' = Claiming /\ Adopted' = Adopted
    BY <2>2 DEF PlainIds, Claiming, Adopted
  <2>6. HandBase'
    <3>1. Unclaimed' = Unclaimed
      BY <2>2, <2>5 DEF Unclaimed
    <3>2. \A c \in Chains : \A k \in DOMAIN live'[c] :
              live'[c][k].id # 0 => live'[c][k].id \in Unclaimed'
      BY <1>0, <2>4, <3>1 DEF Thins, HandBase
    <3> QED
      BY <1>0, <2>2, <2>5, <3>2 DEF HandBase
  <2>7. PICK s : s = live[m[1]] /\ s \in Seq(Entry)
    BY <1>0, <2>1
  <2>8. live' \in [Chains -> Seq(Entry)] /\ live'[m[1]] = Append(s, e)
          /\ \A d \in Chains : d # m[1] => live'[d] = live[d]
    BY <1>0, <2>1, <2>2, <2>7
  <2>9. Cardinality(HandTypedAt(Append(s, e))) = Cardinality(HandTypedAt(s)) + 1
    BY <2>1, <2>7, HandsAppended
  <2>10. Cardinality(HandTypedAt(s)) \in Nat
    BY <2>7, HandsFinite
  <2>11. PICK lv \in [Chains -> Seq(Entry)], lw \in [Chains -> Seq(Entry)] : lv = live /\ lw = live'
    BY <1>0, <2>8
  <2>12. /\ Cardinality(Typed(lw, Chains)) - Cardinality(Typed(lv, Chains)) =
              Cardinality(HandTypedAt(lw[m[1]])) - Cardinality(HandTypedAt(lv[m[1]]))
         /\ Cardinality(Typed(lv, Chains)) \in Nat /\ Cardinality(Typed(lw, Chains)) \in Nat
    <3>1. \A d \in Chains : d # m[1] => lw[d] = lv[d]
      BY <2>8, <2>11
    <3> QED
      BY <2>1, <2>11, <3>1, TypedChanged
  <2>13. lv[m[1]] = s /\ lw[m[1]] = Append(s, e)
    BY <2>7, <2>8, <2>11
  <2>14. Cardinality(Typed(lw, Chains)) = Cardinality(Typed(lv, Chains)) + 1
    BY <2>9, <2>10, <2>12, <2>13
  <2> DEFINE x == Cardinality(Claiming)
             p == Cardinality(Typed(live, Chains))
             a == Cardinality(Adopted)
  <2> HIDE DEF x, p, a
  <2>15. /\ (spent.manual + 1) + x <= (p + 1) + a
         /\ (p + 1) + a <= (spent.manual + 1) + x + spent.crashes
    BY <1>1, <1>2 DEF x, p, a
  <2>16. Cardinality(Typed(live', Chains)) = p + 1
    BY <2>11, <2>14 DEF p
  <2>17. ManualRulesConserved'
    BY <2>3, <2>5, <2>15, <2>16 DEF ManualRulesConserved, Typed, x, a
  <2> QED
    BY <2>6, <2>17 DEF HandInv
<1>9. \A chain \in Chains : \A k \in DOMAIN live[chain] : ~ManualDelete(chain, k)
  BY <1>3 DEF ManualDelete
<1>10. ~Flush
  BY <1>3 DEF Flush
<1> QED
  BY <1>6, <1>7, <1>8, <1>9, <1>10 DEF Environment

\* The inductive step.
LEMMA HandNext == NothingDeleted /\ PlainStart /\ HandInv /\ [Next]_vars => HandInv'
<1> SUFFICES ASSUME NothingDeleted, PlainStart, HandInv, [Next]_vars
             PROVE  HandInv'
  OBVIOUS
<1>0. HandBase /\ ManualRulesConserved /\ TagInv /\ TagInv'
  BY TagNext, NoneAdded DEF HandInv, HandBase
<1>1. CASE UNCHANGED vars
  BY <1>0, <1>1
     DEF vars, HandInv, HandBase, ManualRulesConserved, PlainIds, Unclaimed, Claiming, Adopted
<1>2. ASSUME NEW w \in Workers, Step(w)
      PROVE  HandInv'
  <2>0. Inv /\ nextId \in Nat
    BY <1>0, <1>2, HandsOfWorker
  <2>1. \A v \in Workers \ {w} : pc'[v] = pc[v] /\ job'[v] = job[v]
    BY <1>2, <2>0, EveryStepOK DEF StepOK, Moves, Inv
  <2>2. HandsOff(pc'[w], job'[w], PlainIds', nextId')
    BY <1>0, <1>2, HandsStep
  <2>3. \A v \in Workers \ {w} : HandsOff(pc'[v], job'[v], PlainIds', nextId')
    BY <1>0, <1>2, <2>1, HandsOthers
  <2>4. \A t \in InitTables : \A i \in DOMAIN t : i < nextId'
    <3>1. nextId' = nextId \/ nextId' = nextId + 1
      BY <1>2, <2>0, StepIds DEF IdsGrow
    <3>2. \A t \in InitTables : \A i \in DOMAIN t : i \in Nat /\ i < nextId
      BY <1>0, TablesAssumption DEF HandBase, IsTable
    <3> QED
      BY <2>0, <3>1, <3>2
  <2>5. \A c \in Chains : \A k \in DOMAIN live'[c] :
            live'[c][k].id # 0 => live'[c][k].id \in Unclaimed'
    BY <1>0, <1>2, HandsTags
  <2>6. HandBase'
    BY <1>0, <2>2, <2>3, <2>4, <2>5 DEF HandBase
  <2> QED
    BY <1>0, <1>2, <2>6, BooksStep DEF HandInv
<1> QED
  BY <1>0, <1>1, <1>2, HandsAround DEF Next

\* The server starts with the rules of its table live, and no other.
LEMMA ReflectionPlain ==
  ASSUME NEW t, FiniteTable(t), NEW chain \in Chains
  PROVE  \A k \in DOMAIN Reflection(t)[chain] :
            /\ ~HandTyped(Reflection(t)[chain][k])
            /\ Reflection(t)[chain][k].id # 0 => Reflection(t)[chain][k].id \in PlainRows(t)
<1> DEFINE front == IF chain \in {"FORWARD", "INPUT"} THEN BlockEntries(t) ELSE <<>>
           back == OrderedEntries(t, chain)
           blocks == {i \in Enabled(t) : IsBlock(t[i].shape)}
           ids == Ordered(t, blocks)
           wanted == WantedIds(t, chain)
           good(e) == ~HandTyped(e) /\ (e.id # 0 => e.id \in PlainRows(t))
<1>1. front \in Seq(Entry) /\ back \in Seq(Entry)
  BY ReflectedTypes, EmptySeq
<1>2. \A k \in DOMAIN front : good(front[k])
  <2>1. blocks \subseteq DOMAIN t /\ IsFiniteSet(blocks)
    BY FS_Subset DEF Enabled, FiniteTable
  <2>2. ids \in Seq(blocks)
    <3> HIDE DEF blocks
    <3> QED BY <2>1, OrderedElements DEF FiniteTable
  <2>3. \A k \in DOMAIN ids : ids[k] \in blocks
    <3> HIDE DEF ids, blocks
    <3> QED BY <2>2
  <2>4. \A i \in blocks : good(LiveEntry(i, t[i].shape))
    BY DEF LiveEntry, HandTyped
  <2>5. BlockEntries(t) = [k \in DOMAIN ids |-> LiveEntry(ids[k], t[ids[k]].shape)]
    BY DEF BlockEntries
  <2>6. \A k \in DOMAIN BlockEntries(t) : good(BlockEntries(t)[k])
    <3> HIDE DEF good, ids, blocks
    <3> QED BY <2>3, <2>4, <2>5
  <2>7. DOMAIN <<>> = {}
    OBVIOUS
  <2> HIDE DEF good
  <2> QED
    BY <2>6, <2>7
<1>3. \A k \in DOMAIN back : good(back[k])
  <2>1. /\ wanted \in Seq(Wanted(t, chain)) /\ Wanted(t, chain) \subseteq DOMAIN t
        /\ \A i \in Wanted(t, chain) :
              i \in Nat \ {0} /\ ~IsBlock(t[i].shape) /\ LiveEntry(i, t[i].shape).id = i
    BY FillIs
  <2>2. \A i \in Wanted(t, chain) : good(LiveEntry(i, t[i].shape))
    BY <2>1 DEF HandTyped, PlainRows
  <2>3. back = [k \in DOMAIN wanted |-> LiveEntry(wanted[k], t[wanted[k]].shape)]
    BY DEF OrderedEntries
  <2> HIDE DEF good, wanted, back
  <2>4. \A k \in DOMAIN wanted : wanted[k] \in Wanted(t, chain)
    BY <2>1
  <2> QED
    BY <2>2, <2>3, <2>4
<1>4. Reflection(t)[chain] = front \o back
  BY DEF Reflection
<1> DEFINE both == front \o back
<1> HIDE DEF front, back, good
<1>5. \A k \in DOMAIN both : good(both[k])
  <2>1. /\ Len(both) = Len(front) + Len(back) /\ DOMAIN both = 1..Len(front) + Len(back)
        /\ \A k \in 1..Len(front) + Len(back) :
              both[k] = IF k <= Len(front) THEN front[k] ELSE back[k - Len(front)]
    BY <1>1, ConcatProperties
  <2> HIDE DEF both
  <2> SUFFICES ASSUME NEW k \in DOMAIN both
               PROVE  good(both[k])
    OBVIOUS
  <2>2. Len(front) \in Nat /\ Len(back) \in Nat /\ DOMAIN front = 1..Len(front)
          /\ DOMAIN back = 1..Len(back)
    BY <1>1
  <2>3. CASE k <= Len(front)
    <3>1. k \in DOMAIN front /\ both[k] = front[k]
      BY <2>1, <2>2, <2>3
    <3> QED
      BY <1>2, <3>1
  <2>4. CASE ~(k <= Len(front))
    <3>1. k - Len(front) \in DOMAIN back /\ both[k] = back[k - Len(front)]
      BY <2>1, <2>2, <2>4
    <3> QED
      BY <1>3, <3>1
  <2> QED
    BY <2>3, <2>4
<1> QED
  BY <1>4, <1>5 DEF good, both

\* It holds at the start: nothing typed, nothing adopted, nothing in progress.
LEMMA HandInit == PlainStart /\ Init => HandInv
<1> SUFFICES ASSUME PlainStart, Init
             PROVE  HandInv
  OBVIOUS
<1>1. TagInv /\ LockInv /\ Inv
  BY TagInit, LockInit DEF LockInv
<1>2. FiniteTable(rules) /\ live = Reflection(rules) /\ rules \in InitTables
        /\ \A i \in DOMAIN rules : i < nextId
  BY <1>1 DEF Init, Inv, SharedOK
<1>3. \A w \in Workers : pc[w] = "idle" /\ job[w] = NoJob
  BY DEF Init
<1>4. Claiming = {}
  BY <1>3 DEF Claiming
<1>5. \A t \in InitTables : \A i \in DOMAIN t : i < nextId
  BY <1>2 DEF PlainStart
<1>6. \A c \in Chains : \A k \in DOMAIN live[c] :
         ~HandTyped(live[c][k]) /\ (live[c][k].id # 0 => live[c][k].id \in PlainIds)
  BY <1>2, ReflectionPlain DEF PlainIds
<1>7. HandBase
  <2>1. Hands(NoJob.cmds)
    BY DEF Hands, NoJob
  <2>2. \A w \in Workers : HandsOff(pc[w], job[w], PlainIds, nextId)
    BY <1>3, <2>1, HandsOnly
  <2>3. Unclaimed = PlainIds
    BY <1>4 DEF Unclaimed
  <2> QED
    BY <1>1, <1>5, <1>6, <2>2, <2>3 DEF HandBase
<1>8. Adopted = {}
  BY <1>2 DEF Adopted
<1>9. Typed(live, Chains) = {}
  <2>1. \A c \in Chains : HandTypedAt(live[c]) = {}
    BY <1>6 DEF HandTypedAt
  <2> QED
    BY <2>1 DEF Typed
<1>10. spent.manual = 0 /\ spent.crashes = 0
  BY DEF Init
<1>11. Cardinality({}) = 0
  BY FS_EmptySet
<1>12. ManualRulesConserved
  BY <1>4, <1>8, <1>9, <1>10, <1>11, BooksBalance
<1> QED
  BY <1>7, <1>12 DEF HandInv

\* Only the operator takes a hand-typed rule away: Spec => []ManualRulesConserved
\* while no request adds or deletes a row, no rule is deleted by hand and no
\* block is typed by hand.  Every rule an operator ever typed is live or a row
\* of the table, and none is counted twice but the one a discovery is about to
\* take over, or that a discovery killed there left in both places.  Any number
\* of discoveries, rebuilds, toggles, blocks and reorders may overlap, and any
\* command may fail (_rebuild_chain, discover_cli_rules).
THEOREM HandTypedKept ==
  NothingDeleted /\ PlainStart /\ Spec => []ManualRulesConserved
<1>1. NothingDeleted /\ PlainStart /\ Spec => []HandInv
  <2> SUFFICES ASSUME NothingDeleted, PlainStart
               PROVE  Spec => []HandInv
    BY DEF NothingDeleted, PlainStart
  <2>1. HandInv /\ [Next]_vars => HandInv'
    BY HandNext
  <2>2. Init => HandInv
    BY HandInit
  <2> QED
    BY <2>1, <2>2, PTL DEF Spec
<1>2. HandInv => ManualRulesConserved
  BY DEF HandInv
<1> QED
  BY <1>1, <1>2, PTL
=============================================================================
