----------------------- MODULE FirewallSettledProofs -----------------------
(***************************************************************************)
(* Three theorems about what Firewall.tla leaves behind once no request is *)
(* in flight: every chain shows the enabled rows of the table in order,    *)
(* the live INPUT chain lets the administrator in, and a synchronisation   *)
(* puts chains right that crashes, flushes and reboots left in any state.  *)
(* While requests run this is far from true: a rebuild deletes and appends *)
(* one rule at a time, a reorder and an adoption commit before the chains  *)
(* follow.  So the invariant says of every chain that some worker still    *)
(* owes it a rebuild, or is appending just what it lacks, or that it is    *)
(* right; and of every live entry that it shows a row of the table, but    *)
(* for the row whose hand-typed original is about to be deleted.           *)
(***************************************************************************)
EXTENDS FirewallRebuildProofs, FirewallAccessProofs

-----------------------------------------------------------------------------
(* Every rebuild finished: the live chains when nothing is in flight. *)

\* Requests only reorder, synchronise, discover, block and unblock.
OnlyRebuilds == \A r \in Requests : r.op \in {"reorder", "sync", "discover", "block", "unblock"}

\* No command fails, no worker is killed, nothing is deleted by hand.
NothingLost == ~IptablesFails /\ MaxLosses = 0 /\ MaxCrashes = 0

\* What a handler at place p knows of its rows and commands: a table t whose
\* ids are below n still has them as it read or wrote them.
Follows(p, j, t, n) ==
    /\ p \notin {"undo", "unapply", "enable"}
    /\ p \in {"apply", "sync", "unblock"} => \A k \in 1..Len(j.cmds) : j.cmds[k].entry.id = 0
    /\ p = "apply" => \A k \in 1..Len(j.cmds) : j.cmds[k].op = "-I"
    /\ p = "decide" => \A i \in DOMAIN j.snap : i \in DOMAIN t => t[i] = j.snap[i]
    /\ p = "unblock" => j.id < n /\ (j.id \in DOMAIN t => IsBlock(t[j.id].shape))
    /\ p \in {"claim", "drop"} =>
          /\ j.id < n
          /\ j.id \in DOMAIN t =>
                t[j.id].shape = AdoptedAs(Head(j.scan), Head(j.found).entry.shape)

\* What the handlers know of the table, with the locks, the tags and the single
\* copies of the earlier theorems.
RowsInv ==
    /\ SingleInv /\ TagInv
    /\ \A w \in Workers : Follows(pc[w], job[w], rules, nextId)

\* A reorder commits: one row gets another position, and its chains are next.
Reordered(w) ==
    LET t == job[w].snap
    IN  /\ pc[w] = "decide" /\ job[w].req.op = "reorder"
        /\ \E id \in DOMAIN t : \E row \in Row :
              /\ row.shape = t[id].shape /\ row.enabled = t[id].enabled
              /\ rules' = Updated(rules, id, row)
              /\ \E order \in Orders(ToSet(ChainsFor(row.shape.kind))) :
                    job' = [job EXCEPT ![w] = [@ EXCEPT !.id = id, !.chains = order]]
        /\ Goto(w, "flock")
        /\ UNCHANGED <<nextId, live, flock, spent>>

\* A block commits, a request declines, an unblock sets out.
Blocked(w) ==
    /\ pc[w] = "decide" /\ job[w].req.op = "block" /\ IsBlock(job[w].req.shape)
    /\ job[w].req.by = None \/ job[w].req.by \notin job[w].req.shape.hits
    /\ CommitInsert(w, job[w].req.shape)

Declined(w) == pc[w] = "decide" /\ Decline(w)

Unblocking(w) ==
    /\ pc[w] = "decide"
    /\ \E i \in DOMAIN job[w].snap :
          /\ IsBlock(job[w].snap[i].shape)
          /\ job' = [job EXCEPT ![w].id = i, ![w].cmds = Unapply(i, job[w].snap[i].shape)]
    /\ Goto(w, "unblock")
    /\ UNCHANGED <<rules, nextId, live, advisory, flock, spent>>

\* A command that is not there to delete ends a rebuild or an unblock, or is
\* swallowed by a synchronisation.
Failed(w) == pc[w] \in {"sync", "unblock", "strip", "fill"} /\ FailCommand(w)

\* A synchronisation and the rebuild of a chain, step by step.
Rebuilds(w) ==
    \/ SyncStart(w) \/ SyncBlocksDone(w) \/ TakeFlock(w)
    \/ ListChain(w) \/ ReloadRules(w) \/ ChainRebuilt(w)

\* A discovery, step by step.
Discovers(w) ==
    \/ Snapshot(w) \/ ScanChain(w) \/ Adopt(w) \/ Claim(w)
    \/ DropAdopted(w) \/ ChainScanned(w) \/ AllScanned(w)

\* The fields of a worker's job.
LEMMA JobFields ==
  ASSUME Inv, NEW w \in Workers
  PROVE  w \in DOMAIN job /\ DOMAIN job[w] = DOMAIN NoJob
BY OfWorker DEF IsJob, Inv

\* What Decide does for a reorder.
LEMMA ReorderedIs ==
  ASSUME Inv, NEW w \in Workers, Reorder(w)
  PROVE  Declined(w) \/ Reordered(w)
<1> DEFINE r == job[w].req
           t == job[w].snap
           pos == ReorderPosition(t, r.id, r.target, r.place)
           moved == [t[r.id] EXCEPT !.pos = pos]
<1>1. pc[w] = "decide" /\ r.op = "reorder" /\ r \in Requests
  BY OfWorker DEF Reorder, Deciding, PlaceOK
<1>2. r.place \in {"before", "after"}
  BY <1>1, RequestsAssumption DEF Request
<1>3. \/ Decline(w)
      \/ /\ r.id \in DOMAIN t /\ r.target \in Siblings(t, r.id) /\ UNCHANGED nextId
         /\ \E order \in Orders(ToSet(ChainsFor(t[r.id].shape.kind))) :
               Commit(w, Updated(rules, r.id, moved), "flock",
                      [job[w] EXCEPT !.id = r.id, !.chains = order])
  BY DEF Reorder
<1>4. CASE Decline(w)
  BY <1>1, <1>4 DEF Declined
<1>5. CASE ~Decline(w)
  <2>1. r.id \in DOMAIN t /\ r.target \in DOMAIN t /\ UNCHANGED nextId
    BY <1>3, <1>5 DEF Siblings
  <2>2. PICK order \in Orders(ToSet(ChainsFor(t[r.id].shape.kind))) :
          Commit(w, Updated(rules, r.id, moved), "flock",
                 [job[w] EXCEPT !.id = r.id, !.chains = order])
    BY <1>3, <1>5
  <2>3. t[r.id] \in Row /\ FiniteTable(t)
    BY <2>1, OfWorker DEF FiniteTable, IsTable
  <2>4. pos \in Int
    BY <1>2, <2>1, <2>3, ReorderPositionType
  <2> HIDE DEF pos
  <2>5. moved \in Row /\ moved.shape = t[r.id].shape /\ moved.enabled = t[r.id].enabled
    BY <2>3, <2>4 DEF Row
  <2>6. rules' = Updated(rules, r.id, moved) /\ Goto(w, "flock") /\ UNCHANGED <<live, flock, spent>>
        /\ job' = [job EXCEPT ![w] = [job[w] EXCEPT !.id = r.id, !.chains = order]]
    BY <2>2 DEF Commit
  <2> HIDE DEF moved
  <2>7. job' = [job EXCEPT ![w] = [@ EXCEPT !.id = r.id, !.chains = order]]
    BY <2>6
  <2> QED
    BY <1>1, <2>1, <2>2, <2>5, <2>6, <2>7 DEF Reordered
<1> QED
  BY <1>4, <1>5

\* What a worker may do at all.
LEMMA RebuildSteps ==
  ASSUME OnlyRebuilds, NothingLost, RowsInv, NEW w \in Workers, Step(w)
  PROVE  \/ Lock(w) \/ LockTimeout(w) \/ Read(w) \/ Declined(w)
         \/ Blocked(w) \/ Reordered(w) \/ Unblocking(w) \/ UnblockCommit(w)
         \/ RunCommand(w) \/ Failed(w) \/ (pc[w] = "apply" /\ Applied(w))
         \/ Rebuilds(w) \/ Discovers(w)
<1>0. Inv /\ ~IptablesFails
  BY DEF RowsInv, TagInv, LockInv, NothingLost
<1>1. pc[w] # "idle" => job[w].req.op \in {"reorder", "sync", "discover", "block", "unblock"}
  BY <1>0, OfWorker DEF PlaceOK, OnlyRebuilds
<1>2. CASE Transaction(w)
  <2>1. ~AddInput(w) /\ ~Toggle(w) /\ ~Disable(w) /\ ~Delete(w)
    BY <1>1 DEF AddInput, Toggle, Disable, Delete, TakeOut, Deciding
  <2>2. ASSUME Block(w) PROVE Declined(w) \/ Blocked(w)
    <3>1. pc[w] = "decide" /\ job[w].req.op = "block" /\ job[w].req \in Requests
      BY <1>0, <2>2, OfWorker DEF Block, Deciding, PlaceOK
    <3>2. IsBlock(job[w].req.shape)
      BY <3>1, RequestsAssumption
    <3> QED
      BY <2>2, <3>1, <3>2 DEF Block, Declined, Blocked
  <2>3. ASSUME Unblock(w) PROVE Declined(w) \/ Unblocking(w)
    <3>1. pc[w] = "decide"
      BY <2>3 DEF Unblock, Deciding
    <3> QED
      BY <2>3, <3>1 DEF Unblock, Declined, Unblocking, BlockRows
  <2> QED
    BY <1>0, <1>2, <2>1, <2>2, <2>3, ReorderedIs DEF Transaction
<1>3. ~UnlockedInsert(w)
  BY <1>0, <1>1, OfWorker DEF UnlockedInsert, ReadMax, Insert, PlaceOK
<1>4. CASE Commands(w)
  <2>1. Follows(pc[w], job[w], rules, nextId)
    BY DEF RowsInv
  <2>2. CASE FailCommand(w)
    <3>1. job[w].cmds \in Seq(Command) /\ job[w].cmds # <<>> /\ pc[w] \in Running
          /\ ~Executable(Head(job[w].cmds))
      BY <1>0, <2>2, OfWorker DEF FailCommand, IsJob
    <3>2. Head(job[w].cmds) = job[w].cmds[1] /\ 1 \in 1..Len(job[w].cmds)
      BY <3>1, OnTail
    <3>3. pc[w] # "apply"
      BY <2>1, <3>1, <3>2 DEF Follows, Executable
    <3> QED
      BY <2>1, <2>2, <3>1, <3>3 DEF Follows, Failed, Running
  <2> QED
    BY <1>4, <2>1, <2>2 DEF Commands, Undo, Applied, Follows
<1>5. CASE Rebuild(w)
  BY <1>0, <1>5 DEF Rebuild, ListFails, Rebuilds
<1>6. CASE Discovery(w)
  BY <1>0, <1>6 DEF Discovery, ScanFails, Discovers
<1> QED
  BY <1>2, <1>3, <1>4, <1>5, <1>6 DEF Step

\* Rows come under the next id and go, but keep their rule; only a holder of
\* the advisory lock moves one.
Writes(w) ==
    /\ IdsGrow
    /\ \A i \in DOMAIN rules' : i \in DOMAIN rules =>
          /\ rules'[i].shape = rules[i].shape /\ rules'[i].enabled = rules[i].enabled
          /\ advisory # w => rules'[i] = rules[i]

\* Every step under the hypotheses edits the table in one of these ways.
LEMMA StepEdits ==
  ASSUME OnlyRebuilds, NothingLost, RowsInv, NEW w \in Workers, Step(w)
  PROVE  Writes(w)
<1>0. Inv /\ FiniteTable(rules) /\ nextId \notin DOMAIN rules
  BY OfWorker DEF RowsInv, TagInv, LockInv
<1>1. IdsGrow
  BY <1>0, StepIds
<1>2. UNCHANGED rules => Writes(w)
  BY <1>1 DEF Writes
<1>3. ASSUME NEW row, rules' = With(rules, nextId, row)
      PROVE  Writes(w)
  BY <1>0, <1>1, <1>3 DEF Writes, With
<1>4. ASSUME NEW id, rules' = Without(rules, id)
      PROVE  Writes(w)
  BY <1>1, <1>4 DEF Writes, Without
<1>5. CASE Reordered(w)
  <2> DEFINE t == job[w].snap
  <2>1. pc[w] = "decide" /\ advisory = w
    BY <1>0, <1>5, OfWorker DEF Reordered, Locked
  <2>2. PICK id \in DOMAIN t : \E row \in Row :
              /\ row.shape = t[id].shape /\ row.enabled = t[id].enabled
              /\ rules' = Updated(rules, id, row)
    BY <1>5 DEF Reordered
  <2>3. PICK row \in Row : /\ row.shape = t[id].shape /\ row.enabled = t[id].enabled
                           /\ rules' = Updated(rules, id, row)
    BY <2>2
  <2>4. id \in DOMAIN rules => rules[id] = t[id]
    BY <2>1 DEF RowsInv, Follows
  <2>5. /\ id \in DOMAIN rules => rules'[id] = row
        /\ \A i \in DOMAIN rules \ {id} : rules'[i] = rules[i]
    BY <1>0, <2>3, TableUpdated
  <2> QED
    BY <1>1, <2>1, <2>3, <2>4, <2>5 DEF Writes
<1>6. CASE Blocked(w)
  BY <1>3, <1>6 DEF Blocked, CommitInsert, Commit
<1>7. CASE UnblockCommit(w)
  BY <1>4, <1>7 DEF UnblockCommit
<1>8. CASE Adopt(w)
  BY <1>3, <1>8 DEF Adopt
<1>9. CASE DropAdopted(w)
  BY <1>4, <1>9 DEF DropAdopted
<1>10. CASE Lock(w) \/ LockTimeout(w) \/ Read(w) \/ Declined(w) \/ Unblocking(w)
             \/ RunCommand(w) \/ Failed(w) \/ Applied(w)
  BY <1>2, <1>10 DEF Lock, LockTimeout, Read, Declined, Decline, Unblocking, RunCommand,
                     Failed, FailCommand, Applied
<1>11. CASE Rebuilds(w)
  BY <1>2, <1>11 DEF Rebuilds, SyncStart, SyncBlocksDone, TakeFlock, ListChain, ReloadRules,
                     ChainRebuilt
<1>12. CASE Discovers(w)
  BY <1>2, <1>8, <1>9, <1>12 DEF Discovers, Snapshot, ScanChain, Claim, ChainScanned, AllScanned
<1> QED
  BY <1>5, <1>6, <1>7, <1>8, <1>9, <1>10, <1>11, <1>12, RebuildSteps

\* What a handler knows outlives the steps of the others.
LEMMA FollowsKept ==
  ASSUME RowsInv, NEW w \in Workers, NEW v \in Workers, v # w, Writes(w)
  PROVE  Follows(pc[v], job[v], rules', nextId')
<1>0. Inv /\ nextId \in Nat /\ nextId' >= nextId /\ IsJob(job[v])
      /\ \A i \in DOMAIN rules' : i < nextId => i \in DOMAIN rules
  BY OfWorker DEF RowsInv, TagInv, LockInv, Writes, IdsGrow
<1>1. Follows(pc[v], job[v], rules, nextId)
  BY DEF RowsInv
<1>2. ASSUME pc[v] = "decide", NEW i \in DOMAIN job[v].snap, i \in DOMAIN rules'
      PROVE  rules'[i] = job[v].snap[i]
  <2>1. advisory # w /\ i < nextId
    BY <1>0, <1>2, OfWorker DEF Locked, Covers
  <2>2. i \in DOMAIN rules
    BY <1>0, <1>2, <2>1
  <2> QED
    BY <1>1, <1>2, <2>1, <2>2 DEF Writes, Follows
<1>3. job[v].id < nextId => job[v].id < nextId'
  <2>1. job[v].id \in Nat /\ nextId' \in Nat
    BY <1>0 DEF IsJob, Writes, IdsGrow
  <2> QED
    BY <1>0, <2>1
<1>4. job[v].id < nextId /\ job[v].id \in DOMAIN rules' =>
         job[v].id \in DOMAIN rules /\ rules'[job[v].id].shape = rules[job[v].id].shape
  BY <1>0 DEF Writes
<1> QED
  BY <1>1, <1>2, <1>3, <1>4 DEF Follows

\* ... and what it learns by its own.
LEMMA FollowsStep ==
  ASSUME OnlyRebuilds, NothingLost, RowsInv, NEW w \in Workers, Step(w)
  PROVE  Follows(pc'[w], job'[w], rules', nextId')
<1> DEFINE Plain == Places \ {"undo", "unapply", "enable", "apply", "sync", "unblock",
                               "decide", "claim", "drop"}
<1>0. Inv /\ Follows(pc[w], job[w], rules, nextId) /\ nextId \in Nat \ {0}
  BY OfWorker DEF RowsInv, TagInv, LockInv
<1>1. ASSUME pc'[w] \in Plain
      PROVE  Follows(pc'[w], job'[w], rules', nextId')
  BY <1>1 DEF Follows
<1>2. {"idle", "read", "start", "flock", "list", "strip", "fill", "snapshot", "scan", "adopt"}
        \subseteq Plain
  BY DEF Places
<1> HIDE DEF Plain
<1>3. Finish(w) => pc'[w] \in Plain
  BY <1>0, <1>2, Goes
<1>4. CASE Lock(w) \/ LockTimeout(w) \/ Declined(w) \/ UnblockCommit(w) \/ Applied(w)
             \/ Reordered(w)
  <2>1. Finish(w) \/ Goto(w, "read") \/ Goto(w, "flock")
    BY <1>4 DEF Lock, LockTimeout, Declined, Decline, UnblockCommit, Applied, Reordered
  <2> QED
    BY <1>0, <1>1, <1>2, <1>3, <2>1, Goes
<1>5. CASE Read(w)
  <2>1. job' = [job EXCEPT ![w].snap = rules] /\ Goto(w, "decide") /\ rules' = rules
    BY <1>5 DEF Read
  <2>2. job'[w].snap = rules
    BY <1>0, <2>1, OfWorker DEF IsJob, NoJob, Inv
  <2>3. pc'[w] = "decide"
    BY <1>0, <2>1, Goes
  <2> QED
    BY <2>1, <2>2, <2>3 DEF Follows
<1>6. CASE Blocked(w)
  <2> DEFINE shape == job[w].req.shape
  <2>1. /\ pc'[w] = "apply" /\ job'[w].cmds = Apply(nextId, shape) /\ IsBlock(shape)
        /\ pc[w] = "decide"
    BY <1>6, LockCommit DEF Blocked, RowsInv, TagInv
  <2>2. shape \in Shape
    <3>1. job[w].req \in Requests
      BY <1>0, <2>1, OfWorker DEF PlaceOK
    <3>2. job[w].req \in Request /\ job[w].req.shape = shape
      BY <3>1, RequestsAssumption
    <3>3. pc[w] = "decide" /\ CommitInsert(w, shape)
      BY <1>6 DEF Blocked
    <3>4. rules' = With(rules, nextId, [shape |-> shape, enabled |-> TRUE,
                                        pos |-> NextPosition(rules)])
      BY <3>3 DEF CommitInsert, Commit
    <3>5. Inv'
      BY <1>0, StepInv
    <3>6. nextId \in DOMAIN rules' /\ rules'[nextId].shape = shape
      BY <3>4 DEF With
    <3>7. rules'[nextId] \in Row
      BY <3>5, <3>6 DEF Inv, SharedOK, FiniteTable, IsTable
    <3> QED
      BY <3>6, <3>7 DEF Row
  <2> HIDE DEF shape
  <2>3. Apply(nextId, shape) = HalfCommands("-I", nextId, shape)
    BY <2>1 DEF Apply
  <2>4. \A k \in 1..Len(HalfCommands("-I", nextId, shape)) :
           /\ HalfCommands("-I", nextId, shape)[k].op = "-I"
           /\ HalfCommands("-I", nextId, shape)[k].entry = LiveEntry(nextId, shape)
    BY <1>0, <2>2, HalfCommandsAre
  <2>5. LiveEntry(nextId, shape).id = 0
    BY <2>1 DEF LiveEntry
  <2> QED
    BY <2>1, <2>3, <2>4, <2>5 DEF Follows
<1>7. CASE Unblocking(w)
  <2> DEFINE t == job[w].snap
  <2>1. PICK i \in DOMAIN t : /\ IsBlock(t[i].shape)
                              /\ job' = [job EXCEPT ![w].id = i, ![w].cmds = Unapply(i, t[i].shape)]
    BY <1>7 DEF Unblocking
  <2>2. PICK x : x = Unapply(i, t[i].shape)
    OBVIOUS
  <2>3. job'[w].id = i /\ job'[w].cmds = x
    BY <1>0, <2>1, <2>2, OfWorker DEF IsJob, NoJob, Inv
  <2>4. pc'[w] = "unblock" /\ rules' = rules /\ nextId' = nextId /\ pc[w] = "decide"
    BY <1>0, <1>7, Goes DEF Unblocking
  <2>5. i < nextId /\ FiniteTable(t)
    BY <1>0, <2>4, OfWorker DEF Covers
  <2>6. i \in DOMAIN rules => IsBlock(rules[i].shape)
    BY <1>0, <2>1, <2>4 DEF Follows
  <2>7. \A k \in 1..Len(x) : x[k].entry.id = 0
    <3>1. i \in Nat /\ t[i].shape \in Shape
      BY <2>5 DEF FiniteTable, IsTable, Row
    <3> DEFINE shape == t[i].shape
    <3>2. IsBlock(shape)
      BY <2>1
    <3> HIDE DEF shape
    <3>3. \A k \in 1..Len(HalfCommands("-D", i, shape)) :
             HalfCommands("-D", i, shape)[k].entry = LiveEntry(i, shape)
      BY <3>1, HalfCommandsAre DEF shape
    <3>4. LiveEntry(i, shape).id = 0
      BY <3>2 DEF LiveEntry
    <3> QED
      BY <2>2, <3>3, <3>4 DEF Unapply, shape
  <2> QED
    BY <2>3, <2>4, <2>5, <2>6, <2>7 DEF Follows
<1>8. CASE RunCommand(w)
  <2> DEFINE cmds == job[w].cmds
  <2>1. /\ pc[w] \in Running /\ cmds # <<>> /\ pc' = pc /\ rules' = rules /\ nextId' = nextId
        /\ job' = [job EXCEPT ![w].cmds = Tail(cmds)]
    BY <1>8 DEF RunCommand
  <2>2. cmds \in Seq(Command)
    BY <1>0, OfWorker DEF IsJob
  <2>3. PICK x : x = Tail(cmds)
    OBVIOUS
  <2>4. job'[w].cmds = x /\ job'[w].id = job[w].id
    BY <1>0, <2>1, <2>3, OfWorker DEF IsJob, NoJob, Inv
  <2>5. \A k \in 1..Len(x) : \E m \in 1..Len(cmds) : x[k] = cmds[m]
    <3> HIDE DEF cmds
    <3> QED BY <2>1, <2>2, <2>3, OnTail
  <2>6. pc'[w] = pc[w] /\ pc[w] \notin {"decide", "claim", "drop"}
    BY <2>1 DEF Running
  <2>7. pc[w] \in {"apply", "sync", "unblock"} => \A k \in 1..Len(x) : x[k].entry.id = 0
    BY <1>0, <2>5 DEF Follows
  <2>8. pc[w] = "apply" => \A k \in 1..Len(x) : x[k].op = "-I"
    BY <1>0, <2>5 DEF Follows
  <2> HIDE DEF cmds
  <2> QED
    BY <1>0, <2>1, <2>4, <2>6, <2>7, <2>8 DEF Follows
<1>9. CASE Failed(w)
  <2>1. rules' = rules /\ nextId' = nextId /\ pc[w] \in {"sync", "unblock", "strip", "fill"}
    BY <1>9 DEF Failed, FailCommand
  <2>2. ASSUME AbortRebuild(w)
        PROVE  pc'[w] \in Plain
    BY <1>0, <1>2, <1>3, <2>2, Goes DEF AbortRebuild
  <2>3. ASSUME pc[w] = "sync", pc' = pc,
               job' = [job EXCEPT ![w].cmds = SubSeq(@, 2 + Head(job[w].cmds).skip, Len(@))]
        PROVE  Follows(pc'[w], job'[w], rules', nextId')
    <3> DEFINE cmds == job[w].cmds
               n == 2 + Head(cmds).skip
    <3>1. cmds \in Seq(Command) /\ cmds # <<>>
      BY <1>0, <1>9, OfWorker DEF IsJob, Failed, FailCommand
    <3>2. Head(cmds) \in Command
      BY <3>1, HeadTailProperties
    <3>3. n \in Nat /\ n >= 1
      BY <3>2 DEF Command
    <3>4. PICK x : x = SubSeq(cmds, n, Len(cmds))
      OBVIOUS
    <3>5. job'[w].cmds = x
      <4>1. job' = [job EXCEPT ![w].cmds = x]
        BY <2>3, <3>4
      <4>2. w \in DOMAIN job /\ DOMAIN job[w] = DOMAIN NoJob
        BY <1>0, JobFields
      <4> QED
        BY <4>1, <4>2 DEF NoJob
    <3> HIDE DEF n, cmds
    <3>6. \A k \in 1..Len(x) : \E m \in 1..Len(cmds) : x[k] = cmds[m]
      <4>1. \A k \in 1..Len(x) : k + n - 1 \in 1..Len(cmds) /\ x[k] = cmds[k + n - 1]
        BY <3>1, <3>3, <3>4
      <4> QED
        BY <4>1
    <3> QED
      <4>1. \A k \in 1..Len(cmds) : cmds[k].entry.id = 0
        BY <1>0, <2>3 DEF Follows, cmds
      <4>2. pc'[w] = "sync"
        BY <2>3
      <4>3. \A k \in 1..Len(x) : x[k].entry.id = 0
        BY <3>6, <4>1
      <4> QED
        BY <3>5, <4>2, <4>3 DEF Follows
  <2> QED
    BY <1>1, <1>3, <1>9, <2>1, <2>2, <2>3 DEF Failed, FailCommand
<1>10. CASE Rebuilds(w)
  <2>1. CASE SyncStart(w)
    <3>1. PICK x : x = SyncCommands(rules)
      OBVIOUS
    <3>2. PICK order : job' = [job EXCEPT ![w].cmds = x, ![w].chains = order]
      BY <2>1, <3>1 DEF SyncStart
    <3>3. job'[w].cmds = x
      BY <1>0, <3>2, OfWorker DEF IsJob, NoJob, Inv
    <3>6. pc'[w] = "sync"
      BY <1>0, <2>1, Goes DEF SyncStart
    <3>4. FiniteTable(rules)
      BY <1>0, OfWorker
    <3>5. ASSUME NEW k \in 1..Len(x)
          PROVE  x[k].entry.id = 0
      <4>1. PICK i \in Enabled(rules) :
               IsBlock(rules[i].shape) /\ x[k].entry = LiveEntry(i, rules[i].shape)
        BY <3>1, <3>4, SyncType
      <4> QED
        BY <4>1 DEF LiveEntry
    <3> QED
      BY <3>3, <3>5, <3>6 DEF Follows
  <2>2. ASSUME ~SyncStart(w)
        PROVE  pc'[w] \in Plain
    <3>1. Finish(w) \/ \E p : p \in {"flock", "snapshot", "list", "strip", "fill"} /\ Goto(w, p)
      BY <1>10, <2>2 DEF Rebuilds, SyncBlocksDone, TakeFlock, ListChain, ReloadRules, ChainRebuilt
    <3> QED
      BY <1>0, <1>2, <1>3, <3>1, Goes
  <2> QED
    BY <1>1, <2>1, <2>2
<1>11. CASE Adopt(w)
  <2> DEFINE shape == AdoptedAs(Head(job[w].scan), Head(job[w].found).entry.shape)
  <2>1. /\ job' = [job EXCEPT ![w].id = nextId] /\ Goto(w, "claim") /\ nextId' = nextId + 1
        /\ rules' = With(rules, nextId, [shape |-> shape, enabled |-> TRUE,
                                         pos |-> Head(job[w].found).pos])
    BY <1>11 DEF Adopt
  <2>2. job'[w].id = nextId /\ job'[w].scan = job[w].scan /\ job'[w].found = job[w].found
    BY <1>0, <2>1, OfWorker DEF IsJob, NoJob, Inv
  <2>3. rules'[nextId].shape = shape
    BY <2>1 DEF With
  <2>4. pc'[w] = "claim"
    BY <1>0, <2>1, Goes
  <2>5. nextId < nextId' /\ nextId' = nextId + 1
    BY <1>0, <2>1
  <2>6. AdoptedAs(Head(job'[w].scan), Head(job'[w].found).entry.shape) = shape
    BY <2>2
  <2> HIDE DEF shape
  <2> QED
    BY <2>2, <2>3, <2>4, <2>5, <2>6 DEF Follows
<1>12. CASE Claim(w)
  <2>1. rules' = rules /\ nextId' = nextId /\ pc[w] = "claim"
    BY <1>12 DEF Claim
  <2>2. Goto(w, "adopt") \/ (Goto(w, "drop") /\ job' = job)
    BY <1>12 DEF Claim
  <2> QED
    BY <1>0, <1>1, <1>2, <2>1, <2>2, Goes DEF Follows
<1>13. CASE Discovers(w) /\ ~Adopt(w) /\ ~Claim(w)
  <2>1. Finish(w) \/ \E p : p \in {"scan", "adopt", "list"} /\ Goto(w, p)
    BY <1>13 DEF Discovers, Snapshot, ScanChain, DropAdopted, ChainScanned, AllScanned,
                 UnlockedRebuild
  <2> QED
    BY <1>0, <1>1, <1>2, <1>3, <2>1, Goes
<1> QED
  BY <1>4, <1>5, <1>6, <1>7, <1>8, <1>9, <1>10, <1>11, <1>12, <1>13, RebuildSteps

\* Around the workers, requests arrive and rules are typed.
LEMMA NothingElse ==
  ASSUME NothingLost, Inv, Environment
  PROVE  \/ \E w \in Workers, r \in Requests : Receive(w, r)
         \/ \E m \in ManualRules : ManualAppend(m[1], m[2])
<1>1. spent \in [requests : 0..MaxRequests, manual : 0..MaxManual,
                 losses : 0..MaxLosses, crashes : 0..MaxCrashes]
  BY DEF Inv, SharedOK
<1>2. ~(spent.losses < MaxLosses) /\ ~(spent.crashes < MaxCrashes)
  BY <1>1 DEF NothingLost
<1> QED
  BY <1>2 DEF Environment, ManualDelete, Flush, Crash

\* A request that arrives brings an empty job.
LEMMA ArrivalOf ==
  ASSUME Inv, NEW w \in Workers, NEW r \in Requests, Receive(w, r)
  PROVE  /\ pc[w] = "idle" /\ pc'[w] \in {"max", "start", "flock", "lock"}
         /\ job'[w].chains = <<>>
         /\ UNCHANGED <<rules, nextId, live, flock>>
         /\ \A v \in Workers \ {w} : pc'[v] = pc[v] /\ job'[v] = job[v]
<1>1. pc'[w] \in {"max", "start", "flock", "lock"}
  BY Goes DEF Receive, EntryPlace
<1>2. job'[w].chains = <<>>
  BY DEF Receive, NoJob, Inv
<1> QED
  BY <1>1, <1>2 DEF Receive, Goto, Inv

\* Every step keeps what the handlers know of their rows.
LEMMA RowsNext == OnlyRebuilds /\ NothingLost /\ RowsInv /\ [Next]_vars => RowsInv'
<1> SUFFICES ASSUME OnlyRebuilds, NothingLost, RowsInv, [Next]_vars
             PROVE  RowsInv'
  OBVIOUS
<1>0. Inv /\ NoAdds
  BY DEF RowsInv, TagInv, LockInv, OnlyRebuilds, NoAdds
<1>1. SingleInv' /\ TagInv'
  BY <1>0, SingleNext, TagNext DEF RowsInv
<1>2. ASSUME UNCHANGED <<rules, nextId, pc, job>>
      PROVE  RowsInv'
  BY <1>1, <1>2 DEF RowsInv
<1>3. ASSUME NEW w \in Workers, Step(w)
      PROVE  RowsInv'
  <2>1. \A v \in Workers \ {w} : pc'[v] = pc[v] /\ job'[v] = job[v]
    BY <1>0, <1>3, EveryStepOK DEF StepOK, Moves, Inv
  <2>2. \A v \in Workers \ {w} : Follows(pc[v], job[v], rules', nextId')
    BY <1>3, StepEdits, FollowsKept
  <2>3. Follows(pc'[w], job'[w], rules', nextId')
    BY <1>3, FollowsStep
  <2>4. \A v \in Workers : Follows(pc'[v], job'[v], rules', nextId')
    BY <2>1, <2>2, <2>3
  <2> QED
    BY <1>1, <2>4 DEF RowsInv
<1>4. ASSUME NEW w \in Workers, NEW r \in Requests, Receive(w, r)
      PROVE  RowsInv'
  <2>1. /\ pc'[w] \in {"max", "start", "flock", "lock"} /\ UNCHANGED <<rules, nextId>>
        /\ \A v \in Workers \ {w} : pc'[v] = pc[v] /\ job'[v] = job[v]
    BY <1>0, <1>4, ArrivalOf
  <2>2. Follows(pc'[w], job'[w], rules', nextId')
    BY <2>1 DEF Follows
  <2>3. \A v \in Workers : Follows(pc'[v], job'[v], rules', nextId')
    BY <2>1, <2>2 DEF RowsInv
  <2> QED
    BY <1>1, <2>3 DEF RowsInv
<1>5. CASE Environment
  BY <1>0, <1>2, <1>4, <1>5, NothingElse DEF ManualAppend
<1> QED
  BY <1>2, <1>3, <1>5 DEF Next, vars

\* It holds before the first request.
LEMMA RowsInit == Init => RowsInv
<1> SUFFICES ASSUME Init
             PROVE  RowsInv
  OBVIOUS
<1>1. SingleInv /\ TagInv
  BY SingleInit, TagInit
<1>2. \A w \in Workers : pc[w] = "idle"
  BY DEF Init
<1> QED
  BY <1>1, <1>2 DEF RowsInv, Follows

-----------------------------------------------------------------------------
(* The tagged rules of a chain, in their order. *)

\* Chains s and t hold the same tagged rules in the same order.
Kin(s, t) ==
    /\ \A k \in DOMAIN s : s[k].id # 0 => \E j \in DOMAIN t : t[j] = s[k]
    /\ \A k \in DOMAIN t : t[k].id # 0 => \E j \in DOMAIN s : s[j] = t[k]
    /\ \A j, k \in DOMAIN t : j < k /\ t[j].id # 0 /\ t[k].id # 0 =>
          \E m, n \in DOMAIN s : m < n /\ s[m] = t[j] /\ s[n] = t[k]

\* Adding or removing an entry without a tag makes kin.
LEMMA KinSequences ==
  ASSUME NEW s \in Seq(Entry)
  PROVE  /\ Kin(s, s)
         /\ \A e \in Entry : e.id = 0 => Kin(s, Append(s, e)) /\ Kin(s, <<e>> \o s)
         /\ \A e \in ToSet(s) : e.id = 0 => Kin(s, RemoveFirst(s, e))
<1>0. Len(s) \in Nat /\ DOMAIN s = 1..Len(s)
  OBVIOUS
<1>1. Kin(s, s)
  BY DEF Kin
<1>2. ASSUME NEW e \in Entry, e.id = 0
      PROVE  Kin(s, Append(s, e))
  <2> DEFINE t == Append(s, e)
  <2>1. /\ DOMAIN t = 1..Len(s) + 1 /\ t[Len(s) + 1] = e
        /\ \A k \in 1..Len(s) : t[k] = s[k]
    BY AppendProperties
  <2> HIDE DEF t
  <2>2. \A k \in DOMAIN t : t[k].id # 0 => k \in DOMAIN s /\ t[k] = s[k]
    BY <1>0, <1>2, <2>1
  <2>3. \A k \in DOMAIN s : k \in DOMAIN t /\ t[k] = s[k]
    BY <1>0, <2>1
  <2> QED
    BY <2>2, <2>3 DEF Kin, t
<1>3. ASSUME NEW e \in Entry, e.id = 0
      PROVE  Kin(s, <<e>> \o s)
  <2> DEFINE t == <<e>> \o s
  <2>1. /\ DOMAIN t = 1..Len(s) + 1 /\ t[1] = e
        /\ \A k \in 1..Len(s) : t[k + 1] = s[k]
    BY FrontIs
  <2> HIDE DEF t
  <2>2. ASSUME NEW k \in DOMAIN t, t[k].id # 0
        PROVE  k - 1 \in DOMAIN s /\ t[k] = s[k - 1]
    <3>1. k # 1 /\ k \in 1..Len(s) + 1
      BY <1>3, <2>1, <2>2
    <3>2. k - 1 \in 1..Len(s) /\ (k - 1) + 1 = k
      BY <1>0, <3>1
    <3> QED
      BY <1>0, <2>1, <3>2
  <2>3. \A k \in DOMAIN s : k + 1 \in DOMAIN t /\ t[k + 1] = s[k]
    BY <1>0, <2>1
  <2>4. \A j, k \in DOMAIN t : j < k => j - 1 < k - 1
    BY <1>0, <2>1
  <2> QED
    BY <2>2, <2>3, <2>4 DEF Kin, t
<1>4. ASSUME NEW e \in ToSet(s), e.id = 0
      PROVE  Kin(s, RemoveFirst(s, e))
  <2>1. PICK n \in 1..Len(s) : s[n] = e /\ RemoveFirst(s, e) = RemoveAt(s, n)
    BY RemoveFirstIs
  <2> DEFINE t == RemoveAt(s, n)
             from(k) == IF k < n THEN k ELSE k + 1
             to(k) == IF k < n THEN k ELSE k - 1
  <2>2. t \in Seq(Entry) /\ Len(t) = Len(s) - 1
        /\ \A k \in 1..Len(s) - 1 : t[k] = IF k < n THEN s[k] ELSE s[k + 1]
    BY RemoveAtIs
  <2> HIDE DEF t
  <2>3. DOMAIN t = 1..Len(s) - 1
    BY <1>0, <2>2
  <2>4. \A k \in DOMAIN t : from(k) \in DOMAIN s /\ t[k] = s[from(k)]
    BY <1>0, <2>2, <2>3
  <2>5. \A j, k \in DOMAIN t : j < k => from(j) < from(k)
    BY <1>0, <2>3
  <2>6. ASSUME NEW k \in DOMAIN s, s[k].id # 0
        PROVE  to(k) \in DOMAIN t /\ t[to(k)] = s[k]
    <3>1. k # n
      BY <1>4, <2>1, <2>6
    <3>2. k < n => k \in 1..Len(s) - 1
      BY <1>0
    <3>3. ~(k < n) => k - 1 \in 1..Len(s) - 1 /\ ~(k - 1 < n) /\ (k - 1) + 1 = k
      BY <1>0, <3>1
    <3> QED
      BY <2>2, <2>3, <3>2, <3>3
  <2> HIDE DEF from, to
  <2> QED
    BY <2>1, <2>4, <2>5, <2>6 DEF Kin, t
<1> QED
  BY <1>1, <1>2, <1>3, <1>4

\* What else is taken out stays.
LEMMA Remains ==
  ASSUME NEW s \in Seq(Entry), NEW e \in ToSet(s), NEW d \in ToSet(s), d # e
  PROVE  d \in ToSet(RemoveFirst(s, e))
<1>0. Len(s) \in Nat /\ DOMAIN s = 1..Len(s)
  OBVIOUS
<1>1. PICK n \in 1..Len(s) : s[n] = e /\ RemoveFirst(s, e) = RemoveAt(s, n)
  BY RemoveFirstIs
<1>2. PICK k \in 1..Len(s) : s[k] = d
  BY <1>0 DEF ToSet
<1> DEFINE t == RemoveAt(s, n)
<1>3. t \in Seq(Entry) /\ Len(t) = Len(s) - 1
      /\ \A i \in 1..Len(s) - 1 : t[i] = IF i < n THEN s[i] ELSE s[i + 1]
  BY RemoveAtIs
<1> HIDE DEF t
<1>4. k # n
  BY <1>1, <1>2
<1>5. \E i \in 1..Len(s) - 1 : t[i] = d
  <2>1. CASE k < n
    <3>1. k \in 1..Len(s) - 1
      BY <1>0, <2>1
    <3> QED
      BY <1>2, <1>3, <2>1, <3>1
  <2>2. CASE ~(k < n)
    <3>1. k - 1 \in 1..Len(s) - 1 /\ ~(k - 1 < n) /\ (k - 1) + 1 = k
      BY <1>0, <1>4, <2>2
    <3> QED
      BY <1>2, <1>3, <3>1
  <2> QED
    BY <2>1, <2>2
<1>6. DOMAIN t = 1..Len(s) - 1
  BY <1>0, <1>3
<1> QED
  BY <1>1, <1>5, <1>6 DEF ToSet, t

\* A command on a rule without a tag.
LEMMA KinCommand ==
  ASSUME live \in [Chains -> Seq(Entry)], NEW c \in Command, live' = Executed(c),
         Executable(c), c.entry.id = 0
  PROVE  \A chain \in Chains : Kin(live[chain], live'[chain])
<1> SUFFICES ASSUME NEW chain \in Chains
             PROVE  Kin(live[chain], live'[chain])
  OBVIOUS
<1> DEFINE s == live[chain]
<1>1. s \in Seq(Entry)
  OBVIOUS
<1>2. CASE chain # c.chain
  BY <1>1, <1>2, ExecutedIs, KinSequences
<1>3. CASE chain = c.chain /\ c.op = "-D"
  <2>1. live'[chain] = RemoveFirst(s, c.entry) /\ c.entry \in ToSet(s)
    BY <1>3, ExecutedIs DEF Executable
  <2> QED
    BY <1>1, <2>1, KinSequences
<1>4. CASE chain = c.chain /\ c.op = "-A"
  <2>1. live'[chain] = Append(s, c.entry) /\ c.entry \in Entry
    BY <1>4, ExecutedIs
  <2> QED
    BY <1>1, <1>4, <2>1, KinSequences
<1>5. CASE chain = c.chain /\ c.op = "-I"
  <2>1. live'[chain] = <<c.entry>> \o s /\ c.entry \in Entry
    BY <1>5, ExecutedIs
  <2> QED
    BY <1>1, <1>5, <2>1, KinSequences
<1> QED
  BY <1>2, <1>3, <1>4, <1>5, ExecutedIs

-----------------------------------------------------------------------------
(* The rows a chain should show. *)

\* The row of an adoption whose hand-typed original may still be live.
Claimed == {job[w].id : w \in {v \in Workers : pc[v] \in {"claim", "drop"}}}

\* The rows that chain c shows once its rebuild is over.
Standing(c) == Wanted(rules, c) \ Claimed

\* What the steps of others and of w itself leave of the rows that stand.
StandingStep(w, c) ==
    /\ \A i \in Standing(c) :
          i \in DOMAIN rules /\ i \in DOMAIN rules' /\ rules'[i].shape = rules[i].shape
    /\ \/ Standing(c)' = Standing(c)
       \/ /\ Claim(w) /\ pc'[w] = "adopt" /\ c \in job'[w].touched
          /\ Standing(c) \subseteq Standing(c)'
    /\ \/ \A i, j \in Standing(c) : Before(rules, i, j) => Before(rules', i, j)
       \/ Reordered(w) /\ c \in ToSet(job'[w].chains)

\* Only the holder of the rebuild lock has a row claimed.
LEMMA ClaimedIs ==
  ASSUME Exclusive, NEW w \in Workers, pc[w] \in Rebuilding
  PROVE  /\ pc[w] \in {"claim", "drop"} => Claimed = {job[w].id}
         /\ pc[w] \notin {"claim", "drop"} => Claimed = {}
<1>1. \A v \in Workers : pc[v] \in {"claim", "drop"} => v = w
  BY DEF Exclusive, Rebuilding
<1> QED
  BY <1>1 DEF Claimed

\* A step that neither claims nor ends a claim leaves the claimed row.
LEMMA ClaimedSame ==
  ASSUME NEW w \in Workers, \A v \in Workers \ {w} : pc'[v] = pc[v] /\ job'[v] = job[v],
         \/ pc[w] \notin {"claim", "drop"} /\ pc'[w] \notin {"claim", "drop"}
         \/ pc[w] \in {"claim", "drop"} /\ pc'[w] \in {"claim", "drop"} /\ job'[w].id = job[w].id
  PROVE  Claimed' = Claimed
<1>1. ASSUME NEW i \in Claimed
      PROVE  i \in Claimed'
  <2>1. PICK v \in Workers : pc[v] \in {"claim", "drop"} /\ job[v].id = i
    BY DEF Claimed
  <2>2. pc'[v] \in {"claim", "drop"} /\ job'[v].id = i
    BY <2>1
  <2> QED
    BY <2>2 DEF Claimed
<1>2. ASSUME NEW i \in Claimed'
      PROVE  i \in Claimed
  <2>1. PICK v \in Workers : pc'[v] \in {"claim", "drop"} /\ job'[v].id = i
    BY <1>2 DEF Claimed
  <2>2. pc[v] \in {"claim", "drop"} /\ job[v].id = i
    BY <2>1
  <2> QED
    BY <2>2 DEF Claimed
<1> QED
  BY <1>1, <1>2

\* Rows with the same switch and rule are wanted by the same chains.
LEMMA WantedSame ==
  ASSUME NEW t, NEW u, NEW c \in Chains,
         \A i \in DOMAIN t : i \in DOMAIN u => u[i].shape = t[i].shape /\ u[i].enabled = t[i].enabled
  PROVE  /\ \A i \in DOMAIN u : i \in Wanted(t, c) => i \in Wanted(u, c)
         /\ \A i \in DOMAIN t : i \in Wanted(u, c) => i \in Wanted(t, c)
BY DEF Wanted, Enabled, InChain

\* A client block is in no chain's rebuild.
LEMMA BlocksUnwanted ==
  ASSUME NEW t, NEW i \in DOMAIN t, IsBlock(t[i].shape), NEW c
  PROVE  i \notin Wanted(t, c)
BY DEF Wanted, InChain, IsBlock, ChainsFor, ToSet

\* The same of the next state.
LEMMA ClaimedThen ==
  ASSUME Exclusive', NEW w \in Workers, pc'[w] \in Rebuilding
  PROVE  /\ pc'[w] \in {"claim", "drop"} => Claimed' = {job'[w].id}
         /\ pc'[w] \notin {"claim", "drop"} => Claimed' = {}
<1>1. \A v \in Workers : pc'[v] \in {"claim", "drop"} => v = w
  BY DEF Exclusive, Rebuilding
<1> QED
  BY <1>1 DEF Claimed

\* An order of some chains names each of them.
LEMMA OrdersCover ==
  ASSUME NEW S, S \subseteq Chains, NEW order \in Orders(S)
  PROVE  ToSet(order) = S
<1> DEFINE D == 1..Cardinality(S)
<1>1. IsFiniteSet(S)
  <2>1. IsFiniteSet({} \cup {"INPUT"})
    BY FS_EmptySet, FS_AddElement
  <2>2. IsFiniteSet(({} \cup {"INPUT"}) \cup {"FORWARD"})
    BY <2>1, FS_AddElement
  <2>3. IsFiniteSet((({} \cup {"INPUT"}) \cup {"FORWARD"}) \cup {"PREROUTING"})
    BY <2>2, FS_AddElement
  <2>4. IsFiniteSet(((({} \cup {"INPUT"}) \cup {"FORWARD"}) \cup {"PREROUTING"}) \cup {"POSTROUTING"})
    BY <2>3, FS_AddElement
  <2>5. Chains = ((({} \cup {"INPUT"}) \cup {"FORWARD"}) \cup {"PREROUTING"}) \cup {"POSTROUTING"}
    BY DEF Chains
  <2> QED
    BY <2>4, <2>5, FS_Subset
<1>2. Cardinality(S) \in Nat
  BY <1>1, FS_CardinalityType
<1>3. order \in [D -> S] /\ \A i, j \in D : order[i] = order[j] => i = j
  BY DEF Orders, SetToSeqs
<1>4. IsFiniteSet(D) /\ Cardinality(D) = Cardinality(S)
  BY <1>2, FS_Interval
<1> HIDE DEF D
<1>5. order \in Injection(D, S)
  BY <1>3 DEF Injection, IsInjective
<1>6. order \in Surjection(D, S)
  BY <1>1, <1>4, <1>5, FS_Injection
<1> QED
  BY <1>3, <1>6 DEF Surjection, ToSet, D

\* Every step keeps the standing rows and their rules; only an adoption that
\* ends adds one, only a reorder changes their order, and each leaves the chain
\* to rebuild.
LEMMA StandingIs ==
  ASSUME OnlyRebuilds, NothingLost, RowsInv, RowsInv', NEW w \in Workers, Step(w),
         NEW c \in Chains
  PROVE  StandingStep(w, c)
<1>0. /\ Inv /\ Exclusive /\ Exclusive' /\ FiniteTable(rules) /\ nextId \notin DOMAIN rules
      /\ Follows(pc[w], job[w], rules, nextId)
  BY OfWorker DEF RowsInv, TagInv, LockInv
<1>1. Writes(w) /\ \A v \in Workers \ {w} : pc'[v] = pc[v] /\ job'[v] = job[v]
  BY <1>0, EveryStepOK, StepEdits DEF StepOK, Moves, Inv
<1>2. Standing(c) \subseteq DOMAIN rules
  BY DEF Standing, Wanted, Enabled
\* When every standing row is still there, nothing else is left to show.
<1>3. ASSUME Standing(c) \subseteq DOMAIN rules'
      PROVE  \A i \in Standing(c) :
                i \in DOMAIN rules /\ i \in DOMAIN rules' /\ rules'[i].shape = rules[i].shape
  BY <1>1, <1>2, <1>3 DEF Writes
<1>4. ASSUME \A i \in Standing(c) : i \in DOMAIN rules' /\ rules'[i] = rules[i],
             \/ Standing(c)' = Standing(c)
             \/ /\ Claim(w) /\ pc'[w] = "adopt" /\ c \in job'[w].touched
                /\ Standing(c) \subseteq Standing(c)'
      PROVE  StandingStep(w, c)
  BY <1>2, <1>4 DEF StandingStep, Before
<1>5. ASSUME UNCHANGED rules,
             pc[w] \notin {"claim", "drop"} /\ pc'[w] \notin {"claim", "drop"}
      PROVE  StandingStep(w, c)
  <2>1. Claimed' = Claimed
    BY <1>1, <1>5, ClaimedSame
  <2> QED
    BY <1>2, <1>4, <1>5, <2>1 DEF Standing
<1>6. CASE Reordered(w)
  <2>1. pc[w] = "decide" /\ pc'[w] = "flock"
    BY <1>0, <1>6, Goes DEF Reordered
  <2>2. Claimed' = Claimed
    BY <1>1, <2>1, ClaimedSame
  <2> DEFINE t == job[w].snap
  <2>3. PICK id \in DOMAIN t : \E row \in Row :
              /\ row.shape = t[id].shape /\ row.enabled = t[id].enabled
              /\ rules' = Updated(rules, id, row)
              /\ \E order \in Orders(ToSet(ChainsFor(row.shape.kind))) :
                    job' = [job EXCEPT ![w] = [@ EXCEPT !.id = id, !.chains = order]]
    BY <1>6 DEF Reordered
  <2>4. PICK row \in Row :
              /\ row.shape = t[id].shape /\ row.enabled = t[id].enabled
              /\ rules' = Updated(rules, id, row)
              /\ \E order \in Orders(ToSet(ChainsFor(row.shape.kind))) :
                    job' = [job EXCEPT ![w] = [@ EXCEPT !.id = id, !.chains = order]]
    BY <2>3
  <2>5. /\ DOMAIN rules' = DOMAIN rules
        /\ \A i \in DOMAIN rules \ {id} : rules'[i] = rules[i]
        /\ id \in DOMAIN rules => rules'[id] = row
    BY <1>0, <2>4, TableUpdated
  <2>6. Wanted(rules', c) = Wanted(rules, c)
    BY <1>1, <2>5 DEF Wanted, Enabled, InChain, Writes
  <2>7. Standing(c)' = Standing(c)
    BY <2>2, <2>6 DEF Standing
  <2>8. PICK order \in Orders(ToSet(ChainsFor(row.shape.kind))) :
           job' = [job EXCEPT ![w] = [@ EXCEPT !.id = id, !.chains = order]]
    BY <2>4
  <2>9. job'[w].chains = order
    BY <1>0, <2>8, OfWorker DEF IsJob, NoJob, Inv
  <2>10. id \in Standing(c) => c \in ToSet(job'[w].chains)
    <3>1. SUFFICES ASSUME id \in Standing(c)
                   PROVE  c \in ToSet(order)
      BY <2>9
    <3>2. c \in ToSet(ChainsFor(rules'[id].shape.kind))
      BY <2>6, <3>1 DEF Standing, Wanted, InChain
    <3>3. rules'[id] = row
      <4>1. id \in DOMAIN rules
        BY <1>2, <3>1
      <4> HIDE DEF t
      <4> QED
        BY <2>5, <4>1
    <3>4. c \in ToSet(ChainsFor(row.shape.kind))
      BY <3>2, <3>3
    <3>5. row.shape.kind \in Kinds
      BY DEF Row, Shape
    <3>6. ToSet(ChainsFor(row.shape.kind)) \subseteq Chains
      BY <3>5, ChainsForType, ToSetType
    <3> QED
      BY <2>8, <3>4, <3>6, OrdersCover
  <2>11. id \notin Standing(c) => \A i, j \in Standing(c) : Before(rules, i, j) => Before(rules', i, j)
    BY <1>2, <2>5 DEF Before
  <2> QED
    BY <1>2, <1>3, <1>6, <2>5, <2>7, <2>10, <2>11 DEF StandingStep
<1>7. CASE Blocked(w)
  <2> DEFINE shape == job[w].req.shape
             row == [shape |-> shape, enabled |-> TRUE, pos |-> NextPosition(rules)]
  <2>1. pc[w] = "decide" /\ pc'[w] = "apply" /\ IsBlock(shape) /\ rules' = With(rules, nextId, row)
    BY <1>0, <1>7, Goes DEF Blocked, CommitInsert, Commit
  <2>2. Claimed' = Claimed
    BY <1>1, <2>1, ClaimedSame
  <2>3. DOMAIN rules' = DOMAIN rules \cup {nextId} /\ rules'[nextId].shape = shape
        /\ \A i \in DOMAIN rules : rules'[i] = rules[i]
    BY <1>0, <2>1 DEF With
  <2> HIDE DEF shape
  <2>4. nextId \notin Wanted(rules', c)
    BY <2>1, <2>3, BlocksUnwanted
  <2>5. Wanted(rules', c) = Wanted(rules, c)
    BY <2>3, <2>4 DEF Wanted, Enabled, InChain
  <2>6. Standing(c)' = Standing(c)
    BY <2>2, <2>5 DEF Standing
  <2> QED
    BY <1>2, <1>4, <2>3, <2>6
<1>8. CASE UnblockCommit(w)
  <2>1. pc[w] = "unblock" /\ pc'[w] = "idle" /\ rules' = Without(rules, job[w].id)
    BY <1>0, <1>8, Goes DEF UnblockCommit
  <2>2. Claimed' = Claimed
    BY <1>1, <2>1, ClaimedSame
  <2>3. job[w].id \notin Wanted(rules, c)
    BY <1>0, <2>1, BlocksUnwanted DEF Follows, Wanted, Enabled
  <2>4. DOMAIN rules' = DOMAIN rules \ {job[w].id} /\ \A i \in DOMAIN rules' : rules'[i] = rules[i]
    BY <2>1 DEF Without
  <2>5. Wanted(rules', c) = Wanted(rules, c)
    BY <2>3, <2>4 DEF Wanted, Enabled, InChain
  <2>6. Standing(c)' = Standing(c)
    BY <2>2, <2>5 DEF Standing
  <2> QED
    BY <1>4, <2>4, <2>3, <2>6, <1>2 DEF Standing
<1>9. CASE Adopt(w)
  <2> DEFINE shape == AdoptedAs(Head(job[w].scan), Head(job[w].found).entry.shape)
             row == [shape |-> shape, enabled |-> TRUE, pos |-> Head(job[w].found).pos]
  <2>1. /\ pc[w] = "adopt" /\ pc'[w] = "claim" /\ rules' = With(rules, nextId, row)
        /\ job' = [job EXCEPT ![w].id = nextId]
    BY <1>0, <1>9, Goes DEF Adopt
  <2> HIDE DEF row
  <2>2. job'[w].id = nextId
    BY <1>0, <2>1, OfWorker DEF IsJob, NoJob, Inv
  <2>3. Claimed = {}
    BY <1>0, <2>1, ClaimedIs DEF Rebuilding
  <2>4. Claimed' = {nextId}
    BY <1>0, <2>1, <2>2, ClaimedThen DEF Rebuilding
  <2>5. DOMAIN rules' = DOMAIN rules \cup {nextId} /\ \A i \in DOMAIN rules : rules'[i] = rules[i]
    BY <1>0, <2>1 DEF With
  <2>6. Wanted(rules', c) \ {nextId} = Wanted(rules, c)
    BY <1>0, <2>5 DEF Wanted, Enabled, InChain
  <2>7. Standing(c)' = Standing(c)
    BY <2>3, <2>4, <2>6 DEF Standing
  <2> QED
    BY <1>2, <1>4, <2>5, <2>7
<1>10. CASE DropAdopted(w)
  <2>1. pc[w] = "drop" /\ pc'[w] = "adopt" /\ rules' = Without(rules, job[w].id)
    BY <1>0, <1>10, Goes DEF DropAdopted
  <2>2. Claimed = {job[w].id}
    BY <1>0, <2>1, ClaimedIs DEF Rebuilding
  <2>3. Claimed' = {}
    BY <1>0, <2>1, ClaimedThen DEF Rebuilding
  <2>4. DOMAIN rules' = DOMAIN rules \ {job[w].id} /\ \A i \in DOMAIN rules' : rules'[i] = rules[i]
    BY <2>1 DEF Without
  <2>5. Wanted(rules', c) = Wanted(rules, c) \ {job[w].id}
    BY <2>4 DEF Wanted, Enabled, InChain
  <2>6. Standing(c)' = Standing(c)
    BY <2>2, <2>3, <2>5 DEF Standing
  <2> QED
    BY <1>2, <1>4, <2>2, <2>4, <2>6 DEF Standing
<1>11. CASE Claim(w)
  <2> DEFINE f == Head(job[w].found)
             shape == AdoptedAs(Head(job[w].scan), f.entry.shape)
  <2>1. pc[w] = "claim" /\ rules' = rules
    BY <1>11 DEF Claim
  <2>2. CASE pc'[w] = "drop" /\ job' = job
    <3>1. Claimed' = Claimed
      BY <1>1, <2>1, <2>2, ClaimedSame
    <3> QED
      BY <1>2, <1>4, <2>1, <3>1 DEF Standing
  <2>3. CASE ~(pc'[w] = "drop" /\ job' = job)
    <3> DEFINE more == job[w].touched \cup ToSet(ChainsFor(shape.kind))
    <3>1. pc'[w] = "adopt" /\ job' = [job EXCEPT ![w].found = Tail(@),
                                                ![w].touched = @ \cup ToSet(ChainsFor(shape.kind))]
      BY <1>0, <1>11, <2>3, Goes DEF Claim
    <3>2. PICK x : x = ToSet(ChainsFor(shape.kind))
      OBVIOUS
    <3>3. job' = [job EXCEPT ![w].found = Tail(@), ![w].touched = @ \cup x]
      BY <3>1, <3>2
    <3>4. job'[w].touched = job[w].touched \cup x
      BY <1>0, <3>3, OfWorker DEF IsJob, NoJob, Inv
    <3>5. Claimed = {job[w].id} /\ Claimed' = {}
      BY <1>0, <2>1, <3>1, ClaimedIs, ClaimedThen DEF Rebuilding
    <3>6. Standing(c) = Wanted(rules, c) \ {job[w].id} /\ Standing(c)' = Wanted(rules, c)
      BY <2>1, <3>5 DEF Standing
    <3>7. job[w].id \in Wanted(rules, c) => c \in job'[w].touched
      <4>1. job[w].id \in Wanted(rules, c) => c \in ToSet(ChainsFor(rules[job[w].id].shape.kind))
                                              /\ job[w].id \in DOMAIN rules
        BY DEF Wanted, InChain, Enabled
      <4>2. job[w].id \in DOMAIN rules => rules[job[w].id].shape = shape
        BY <1>0, <2>1 DEF Follows
      <4> HIDE DEF shape
      <4> QED
        BY <3>2, <3>4, <4>1, <4>2
    <3>8. CASE job[w].id \in Wanted(rules, c)
      BY <1>2, <1>4, <1>11, <2>1, <3>1, <3>6, <3>7, <3>8
    <3>9. CASE job[w].id \notin Wanted(rules, c)
      <4>1. Standing(c)' = Standing(c)
        BY <3>6, <3>9
      <4> QED
        BY <1>2, <1>4, <2>1, <4>1
    <3> QED
      BY <3>8, <3>9
  <2> QED
    BY <2>2, <2>3
<1>12. CASE Lock(w) \/ LockTimeout(w) \/ Read(w) \/ Declined(w) \/ Unblocking(w)
            \/ RunCommand(w) \/ Failed(w) \/ (pc[w] = "apply" /\ Applied(w))
  <2>1. Finish(w) => pc'[w] = "idle"
    BY <1>0, Goes
  <2>2. pc[w] \notin {"claim", "drop"} /\ rules' = rules
    BY <1>12 DEF Lock, LockTimeout, Read, Declined, Decline, Unblocking, RunCommand, Running,
                 Failed, FailCommand, Applied
  <2>3. pc'[w] \in {"read", "idle", "decide", "unblock", "flock"} \/ pc' = pc
    BY <1>0, <1>12, <2>1, Goes DEF Lock, LockTimeout, Read, Declined, Decline, Unblocking,
                    RunCommand, Failed, FailCommand, AbortRebuild, Applied
  <2> QED
    BY <1>5, <2>2, <2>3
<1>13. CASE Rebuilds(w)
  <2>1. pc[w] \notin {"claim", "drop"} /\ rules' = rules
    BY <1>13 DEF Rebuilds, SyncStart, SyncBlocksDone, TakeFlock, ListChain, ReloadRules, ChainRebuilt
  <2>2. Finish(w) \/ \E p : p \in {"sync", "flock", "snapshot", "list", "strip", "fill"} /\ Goto(w, p)
    BY <1>13 DEF Rebuilds, SyncStart, SyncBlocksDone, TakeFlock, ListChain, ReloadRules, ChainRebuilt
  <2>3. pc'[w] \notin {"claim", "drop"}
    BY <1>0, <2>2, Goes
  <2> QED
    BY <1>5, <2>1, <2>3
<1>14. CASE Discovers(w) /\ ~Adopt(w) /\ ~Claim(w) /\ ~DropAdopted(w)
  <2>1. pc[w] \notin {"claim", "drop"} /\ rules' = rules
    BY <1>14 DEF Discovers, Snapshot, ScanChain, ChainScanned, AllScanned
  <2>2. Finish(w) \/ \E p : p \in {"scan", "adopt", "list"} /\ Goto(w, p)
    BY <1>14 DEF Discovers, Snapshot, ScanChain, ChainScanned, AllScanned, UnlockedRebuild
  <2>3. pc'[w] \notin {"claim", "drop"}
    BY <1>0, <2>2, Goes
  <2> QED
    BY <1>5, <2>1, <2>3
<1> QED
  BY <1>6, <1>7, <1>8, <1>9, <1>10, <1>11, <1>12, <1>13, <1>14, RebuildSteps

-----------------------------------------------------------------------------
(* No leftovers: whatever is tagged in a chain is one of its standing rows. *)

\* Live entry e shows a row of S, with the rule that the table t has for it.
Genuine(e, S, t) == e.id \in S /\ e.shape = t[e.id].shape

\* What a handler is about to add is a standing row's rule, what it adopts has
\* no tag, and what it strips is there to strip.
Ready(p, j, lv, t, claimed) ==
    /\ p = "fill" => \A k \in 1..Len(j.cmds) :
          Genuine(j.cmds[k].entry, Wanted(t, Head(j.chains)) \ claimed, t)
    /\ p \in {"adopt", "claim", "drop"} => \A k \in 1..Len(j.found) : j.found[k].entry.id = 0
    /\ p = "strip" =>
          /\ \A k \in 1..Len(j.cmds) : /\ j.cmds[k].entry.id # 0
                                       /\ j.cmds[k].entry \in ToSet(lv[Head(j.chains)])
          /\ \A k, m \in 1..Len(j.cmds) : j.cmds[k].entry.id = j.cmds[m].entry.id => k = m

\* Every tagged live entry shows a standing row of its chain.
GenuineInv ==
    /\ RowsInv
    /\ \A c \in Chains : \A k \in DOMAIN live[c] :
          live[c][k].id # 0 => Genuine(live[c][k], Standing(c), rules)
    /\ \A w \in Workers : Ready(pc[w], job[w], live, rules, Claimed)

\* A step outside a strip or a fill leaves the tagged entries in order.
LEMMA StepKin ==
  ASSUME OnlyRebuilds, NothingLost, GenuineInv, NEW w \in Workers, Step(w),
         ~(RunCommand(w) /\ pc[w] \in {"strip", "fill"})
  PROVE  \A chain \in Chains : Kin(live[chain], live'[chain])
<1>0. /\ Inv /\ Follows(pc[w], job[w], rules, nextId)
      /\ Ready(pc[w], job[w], live, rules, Claimed) /\ IsJob(job[w])
      /\ live \in [Chains -> Seq(Entry)]
  BY OfWorker DEF GenuineInv, RowsInv, TagInv, LockInv
<1>1. ASSUME live' = live
      PROVE  \A chain \in Chains : Kin(live[chain], live'[chain])
  BY <1>0, <1>1, KinSequences
<1>2. CASE RunCommand(w)
  <2> DEFINE cmds == job[w].cmds
  <2>1. /\ pc[w] \in Running /\ cmds # <<>> /\ Executable(Head(cmds)) /\ live' = Executed(Head(cmds))
    BY <1>2 DEF RunCommand
  <2>2. cmds \in Seq(Command)
    BY <1>0 DEF IsJob
  <2>3. pc[w] \in {"apply", "sync", "unblock"}
    BY <1>0, <1>2, <2>1 DEF Running, Follows
  <2>4. Head(cmds) \in Command /\ Head(cmds) = cmds[1] /\ 1 \in 1..Len(cmds)
    <3> HIDE DEF cmds
    <3> QED BY <2>1, <2>2, OnTail
  <2>5. Head(cmds).entry.id = 0
    BY <1>0, <2>3, <2>4 DEF Follows
  <2> HIDE DEF cmds
  <2> QED
    BY <1>0, <2>1, <2>4, <2>5, KinCommand
<1>3. CASE Claim(w) /\ live' # live
  <2> DEFINE f == Head(job[w].found)
             c == [op |-> "-D", chain |-> Head(job[w].scan), entry |-> f.entry, skip |-> 0]
  <2>1. pc[w] = "claim" /\ Executable(c) /\ live' = Executed(c)
    BY <1>3 DEF Claim
  <2>2. job[w].found # <<>>
    BY <1>0, <2>1, OfWorker DEF PlaceOK
  <2>3. c \in Command
    BY <1>0, <2>1, <2>2, Adopting DEF Command
  <2>4. f = job[w].found[1] /\ 1 \in 1..Len(job[w].found)
    <3>1. job[w].found \in Seq([entry : Entry, pos : Int])
      BY <1>0 DEF IsJob
    <3> QED
      BY <2>2, <3>1, HeadTailProperties, EmptySeq
  <2>5. c.entry.id = 0
    BY <1>0, <2>1, <2>4 DEF Ready
  <2> HIDE DEF c
  <2> QED
    BY <1>0, <2>1, <2>3, <2>5, KinCommand
<1>4. CASE ~RunCommand(w) /\ ~(Claim(w) /\ live' # live)
  <2>1. CASE Rebuilds(w) \/ (Discovers(w) /\ ~Claim(w))
    <3>1. live' = live
      BY <2>1 DEF Rebuilds, SyncStart, SyncBlocksDone, TakeFlock, ListChain, ReloadRules,
                  ChainRebuilt, Discovers, Snapshot, ScanChain, Adopt, DropAdopted,
                  ChainScanned, AllScanned
    <3> QED
      BY <1>1, <3>1
  <2>2. CASE \/ Lock(w) \/ LockTimeout(w) \/ Read(w) \/ Declined(w) \/ Blocked(w)
             \/ Reordered(w) \/ Unblocking(w) \/ UnblockCommit(w) \/ Failed(w) \/ Applied(w)
    <3>1. live' = live
      BY <2>2 DEF Lock, LockTimeout, Read, Declined, Decline, Blocked, CommitInsert, Commit,
                  Reordered, Unblocking, UnblockCommit, Failed, FailCommand, Applied
    <3> QED
      BY <1>1, <3>1
  <2>3. RowsInv
    BY DEF GenuineInv
  <2> QED
    BY <1>1, <1>4, <2>1, <2>2, <2>3, RebuildSteps DEF Discovers
<1> QED
  BY <1>2, <1>3, <1>4

\* What stands keeps its rule.
LEMMA GenuineKept ==
  ASSUME NEW w \in Workers, NEW c, StandingStep(w, c), NEW e, Genuine(e, Standing(c), rules)
  PROVE  Genuine(e, Standing(c)', rules')
BY DEF Genuine, StandingStep

\* The others stay ready.
LEMMA ReadyKept ==
  ASSUME OnlyRebuilds, NothingLost, GenuineInv, RowsInv', NEW w \in Workers, Step(w),
         NEW v \in Workers, v # w
  PROVE  Ready(pc[v], job[v], live', rules', Claimed')
<1>0. /\ LockInv /\ Exclusive /\ RowsInv
      /\ Ready(pc[v], job[v], live, rules, Claimed)
      /\ live \in [Chains -> Seq(Entry)] /\ Inv
  BY OfWorker DEF GenuineInv, RowsInv, TagInv, LockInv
<1> DEFINE c == Head(job[v].chains)
<1>1. ASSUME pc[v] = "fill", NEW k \in 1..Len(job[v].cmds)
      PROVE  Genuine(job[v].cmds[k].entry, Wanted(rules', c) \ Claimed', rules')
  <2>1. PICK chain \in Chains : chain = c
    BY <1>0, <1>1, AtChain
  <2>2. StandingStep(w, chain)
    BY <1>0, StandingIs
  <2>3. Genuine(job[v].cmds[k].entry, Standing(chain), rules)
    BY <1>0, <1>1, <2>1 DEF Ready, Standing
  <2>4. Genuine(job[v].cmds[k].entry, Standing(chain)', rules')
    BY <2>2, <2>3, GenuineKept
  <2> QED
    BY <2>1, <2>4 DEF Standing
<1>2. ASSUME pc[v] = "strip", NEW k \in 1..Len(job[v].cmds)
      PROVE  job[v].cmds[k].entry \in ToSet(live'[c])
  <2>1. c \in Chains
    BY <1>0, <1>2, AtChain
  <2>2. pc[w] \notin {"strip", "fill"}
    BY <1>0, <1>2 DEF Exclusive, Rebuilding
  <2>3. Kin(live[c], live'[c])
    BY <2>1, <2>2, StepKin
  <2>4. job[v].cmds[k].entry.id # 0 /\ job[v].cmds[k].entry \in ToSet(live[c])
    BY <1>0, <1>2 DEF Ready
  <2> DEFINE e == job[v].cmds[k].entry
             s == live[c]
             t == live'[c]
  <2>4a. Kin(s, t) /\ e.id # 0 /\ e \in ToSet(s)
    BY <2>3, <2>4
  <2> HIDE DEF s, t, e
  <2>5. PICK m \in DOMAIN s : s[m] = e
    BY <2>4a DEF ToSet
  <2>6. PICK j \in DOMAIN t : t[j] = e
    BY <2>4a, <2>5 DEF Kin
  <2>7. e \in ToSet(t)
    BY <2>6 DEF ToSet
  <2> QED
    BY <2>7 DEF e, t
<1> QED
  BY <1>0, <1>1, <1>2 DEF Ready

\* A rebuild sets out to delete what is tagged in its chain, each once.
LEMMA SelectedTagged ==
  ASSUME NEW s \in Seq(Entry), Single(s), NEW I, I \subseteq DOMAIN s, \A k \in I : s[k].id # 0
  PROVE  LET t == Selected(s, I)
         IN  /\ t \in Seq(Entry)
             /\ \A k \in 1..Len(t) : t[k].id # 0 /\ t[k] \in ToSet(s)
             /\ \A k, m \in 1..Len(t) : t[k].id = t[m].id => k = m
<1> DEFINE n == Cardinality(I)
           t == Selected(s, I)
<1>1. n \in Nat /\ t \in Seq(Entry) /\ Len(t) = n
  BY SelectedOrder
<1>1a. PICK order \in [1..n -> I] : Picks(s, I, order)
  BY SelectedOrder
<1>2. /\ \A k \in 1..n : t[k] = s[order[k]]
      /\ \A k, m \in 1..n : k < m => order[k] < order[m]
  BY <1>1a DEF Picks
<1> HIDE DEF n, t
<1>3. \A k \in 1..n : order[k] \in DOMAIN s /\ order[k] \in I /\ order[k] \in Nat
  OBVIOUS
<1>4. \A k \in 1..n : t[k].id # 0 /\ t[k] \in ToSet(s)
  BY <1>2, <1>3 DEF ToSet
<1>5. ASSUME NEW k \in 1..n, NEW m \in 1..n, t[k].id = t[m].id
      PROVE  k = m
  <2>1. order[k] = order[m]
    BY <1>2, <1>3, <1>4, <1>5 DEF Single
  <2>2. ~(order[k] < order[m]) /\ ~(order[m] < order[k])
    BY <1>3, <2>1
  <2> QED
    BY <1>1, <1>2, <2>2
<1>6. Len(t) = n /\ t \in Seq(Entry)
  BY <1>1
<1> QED
  BY <1>4, <1>5, <1>6 DEF t

\* The deletes of a rebuild are of tagged entries of its chain, each once.
LEMMA StripTagged ==
  ASSUME NEW chain \in Chains, live \in [Chains -> Seq(Entry)], Single(live[chain])
  PROVE  LET cmds == StripCommands(chain)
         IN  /\ \A k \in 1..Len(cmds) : /\ cmds[k].entry.id # 0
                                        /\ cmds[k].entry \in ToSet(live[chain])
             /\ \A k, m \in 1..Len(cmds) : cmds[k].entry.id = cmds[m].entry.id => k = m
<1> DEFINE own == {k \in DOMAIN live[chain] : HasOwnedTag(live[chain][k])}
           owned == Selected(live[chain], own)
<1>1. PICK s : s = live[chain]
  OBVIOUS
<1>2. PICK I : I = own
  OBVIOUS
<1>3. s \in Seq(Entry) /\ Single(s) /\ I \subseteq DOMAIN s /\ \A k \in I : s[k].id # 0
  BY <1>1, <1>2 DEF HasOwnedTag
<1>4. StripCommands(chain) =
        [k \in DOMAIN owned |-> [op |-> "-D", chain |-> chain, entry |-> owned[k], skip |-> 0]]
  BY DEF StripCommands
<1>5. owned = Selected(s, I)
  BY <1>1, <1>2
<1> HIDE DEF owned, own
<1>6. /\ owned \in Seq(Entry)
      /\ \A k \in 1..Len(owned) : owned[k].id # 0 /\ owned[k] \in ToSet(s)
      /\ \A k, m \in 1..Len(owned) : owned[k].id = owned[m].id => k = m
  BY <1>3, <1>5, SelectedTagged
<1>7. DOMAIN owned = 1..Len(owned) /\ Len(StripCommands(chain)) = Len(owned)
      /\ \A k \in 1..Len(owned) : StripCommands(chain)[k].entry = owned[k]
  BY <1>4, <1>6
<1> QED
  BY <1>1, <1>6, <1>7

\* ... and to add what stands.
LEMMA FillGenuine ==
  ASSUME NEW t, FiniteTable(t), NEW chain \in Chains, NEW k \in 1..Len(FillCommands(t, chain))
  PROVE  /\ Genuine(FillCommands(t, chain)[k].entry, Wanted(t, chain), t)
         /\ FillCommands(t, chain)[k].entry.id = WantedIds(t, chain)[k]
<1> DEFINE i == WantedIds(t, chain)[k]
<1>1. k \in 1..Len(WantedIds(t, chain)) /\ Fills(FillCommands(t, chain)[k], t, chain, k)
  BY FillIs
<1>2. i \in Wanted(t, chain) /\ LiveEntry(i, t[i].shape).id = i
  BY <1>1, WantedOnce
<1> HIDE DEF i
<1>3. FillCommands(t, chain)[k].entry = LiveEntry(i, t[i].shape)
  BY <1>1 DEF Fills, i
<1> QED
  BY <1>2, <1>3 DEF Genuine, LiveEntry, i

\* A step leaves its own handler ready.
LEMMA ReadyStep ==
  ASSUME OnlyRebuilds, NothingLost, GenuineInv, RowsInv', NEW w \in Workers, Step(w)
  PROVE  Ready(pc'[w], job'[w], live', rules', Claimed')
<1> DEFINE Plain == Places \ {"fill", "strip", "adopt", "claim", "drop"}
<1>0. /\ LockInv /\ Exclusive /\ Exclusive' /\ Inv /\ RowsInv /\ LockInv'
      /\ Ready(pc[w], job[w], live, rules, Claimed) /\ IsJob(job[w])
      /\ live \in [Chains -> Seq(Entry)] /\ FiniteTable(rules)
      /\ Follows(pc[w], job[w], rules, nextId) /\ Shaped(pc[w], job[w])
  BY OfWorker DEF GenuineInv, RowsInv, TagInv, LockInv
<1>1. ASSUME pc'[w] \in Plain
      PROVE  Ready(pc'[w], job'[w], live', rules', Claimed')
  BY <1>1 DEF Ready
<1>2. {"idle", "read", "decide", "unblock", "apply", "start", "sync", "flock", "list", "snapshot",
       "scan"} \subseteq Plain
  BY DEF Places
<1> HIDE DEF Plain
<1>3. Finish(w) => pc'[w] \in Plain
  BY <1>0, <1>2, Goes
<1>4. ASSUME pc[w] = "strip", FailCommand(w)
      PROVE  FALSE
  <2> DEFINE cmds == job[w].cmds
             c == Head(cmds)
  <2>1. cmds # <<>> /\ ~Executable(c)
    BY <1>4 DEF FailCommand, NothingLost
  <2>2. cmds \in Seq(Command)
    BY <1>0 DEF IsJob
  <2>3. c = cmds[1] /\ 1 \in 1..Len(cmds)
    <3> HIDE DEF cmds
    <3> QED BY <2>1, <2>2, OnTail
  <2>4. c.chain = Head(job[w].chains)
    BY <1>0, <1>4, <2>3 DEF Shaped, AllOn
  <2> QED
    BY <1>0, <1>4, <2>1, <2>3, <2>4 DEF Ready, Executable
<1>5. ASSUME pc[w] = "fill", FailCommand(w)
      PROVE  FALSE
  <2> DEFINE cmds == job[w].cmds
             c == Head(cmds)
  <2>1. cmds # <<>> /\ ~Executable(c)
    BY <1>5 DEF FailCommand, NothingLost
  <2>2. cmds \in Seq(Command)
    BY <1>0 DEF IsJob
  <2>3. c = cmds[1] /\ 1 \in 1..Len(cmds)
    <3> HIDE DEF cmds
    <3> QED BY <2>1, <2>2, OnTail
  <2> QED
    BY <1>0, <1>5, <2>1, <2>3 DEF Shaped, AllOn, Executable
<1>6. CASE Lock(w) \/ LockTimeout(w) \/ Read(w) \/ Declined(w) \/ Blocked(w) \/ Reordered(w)
           \/ Unblocking(w) \/ UnblockCommit(w) \/ Applied(w)
  <2>1. \/ Finish(w)
        \/ \E p : p \in {"read", "decide", "apply", "flock", "unblock"} /\ Goto(w, p)
    BY <1>6 DEF Lock, LockTimeout, Read, Declined, Decline, Blocked, CommitInsert, Commit,
                Reordered, Unblocking, UnblockCommit, Applied
  <2>2. pc'[w] \in Plain
    BY <1>0, <1>2, <1>3, <2>1, Goes
  <2> QED
    BY <1>1, <2>2
<1>7. CASE Failed(w)
  <2>1. pc[w] \in {"sync", "unblock"} /\ FailCommand(w)
    BY <1>4, <1>5, <1>7 DEF Failed
  <2>2. Finish(w) \/ pc' = pc
    BY <2>1 DEF FailCommand
  <2>3. pc'[w] \in Plain
    BY <1>2, <1>3, <2>1, <2>2
  <2> QED
    BY <1>1, <2>3
<1>8. CASE RunCommand(w)
  <2> DEFINE cmds == job[w].cmds
  <2>1. /\ pc[w] \in Running /\ cmds # <<>> /\ pc' = pc /\ rules' = rules
        /\ job' = [job EXCEPT ![w].cmds = Tail(cmds)] /\ live' = Executed(Head(cmds))
        /\ Executable(Head(cmds))
    BY <1>8 DEF RunCommand
  <2>2. cmds \in Seq(Command)
    BY <1>0 DEF IsJob
  <2>3. PICK x : x = Tail(cmds)
    OBVIOUS
  <2>4. job'[w].cmds = x /\ job'[w].chains = job[w].chains
    BY <1>0, <2>1, <2>3, OfWorker DEF IsJob, NoJob, Inv
  <2> HIDE DEF cmds
  <2>5. /\ Head(cmds) \in Command /\ Head(cmds) = cmds[1] /\ 1 \in 1..Len(cmds)
        /\ Len(x) = Len(cmds) - 1 /\ Len(cmds) \in Nat
        /\ \A k \in 1..Len(x) : k + 1 \in 1..Len(cmds) /\ x[k] = cmds[k + 1]
    BY <2>1, <2>2, <2>3, OnTail
  <2>6. CASE pc[w] = "strip"
    <3>1. PICK c \in Chains : c = Head(job[w].chains)
      BY <1>0, <2>6, AtChain
    <3>2. Head(cmds).chain = c /\ Head(cmds).op = "-D"
      BY <1>0, <2>5, <2>6, <3>1 DEF Shaped, AllOn, cmds
    <3>3. Head(cmds).entry \in ToSet(live[c]) /\ live'[c] = RemoveFirst(live[c], Head(cmds).entry)
      BY <1>0, <2>1, <2>5, <3>2, ExecutedIs DEF Executable
    <3>4. /\ \A k \in 1..Len(cmds) : cmds[k].entry.id # 0 /\ cmds[k].entry \in ToSet(live[c])
          /\ \A k, m \in 1..Len(cmds) : cmds[k].entry.id = cmds[m].entry.id => k = m
      BY <1>0, <2>6, <3>1 DEF Ready, cmds
    <3>5. ASSUME NEW k \in 1..Len(x)
          PROVE  x[k].entry.id # 0 /\ x[k].entry \in ToSet(live'[c])
      <4>1. k + 1 \in 1..Len(cmds) /\ x[k] = cmds[k + 1] /\ k + 1 # 1
        BY <2>5
      <4>2. x[k].entry # Head(cmds).entry
        BY <2>5, <3>4, <4>1
      <4>3. live[c] \in Seq(Entry)
        BY <1>0
      <4> QED
        BY <3>3, <3>4, <4>1, <4>2, <4>3, Remains
    <3>6. ASSUME NEW k \in 1..Len(x), NEW m \in 1..Len(x), x[k].entry.id = x[m].entry.id
          PROVE  k = m
      <4>1. k + 1 = m + 1
        BY <2>5, <3>4, <3>6
      <4> QED
        BY <4>1
    <3>7. pc'[w] = "strip"
      BY <2>1, <2>6
    <3> QED
      BY <2>4, <3>1, <3>5, <3>6, <3>7 DEF Ready
  <2>7. CASE pc[w] = "fill"
    <3>1. Claimed = {} /\ Claimed' = {} /\ pc'[w] = "fill"
      BY <1>0, <2>1, <2>7, ClaimedIs, ClaimedThen DEF Rebuilding
    <3>2. \A k \in 1..Len(x) :
             Genuine(x[k].entry, Wanted(rules, Head(job[w].chains)) \ Claimed, rules)
      BY <1>0, <2>5, <2>7 DEF Ready, cmds
    <3> QED
      BY <2>1, <2>4, <3>1, <3>2 DEF Ready
  <2>8. CASE pc[w] \notin {"strip", "fill"}
    <3>1. pc'[w] \in {"sync", "apply", "unblock"}
      BY <1>0, <2>1, <2>8 DEF Follows, Running
    <3> QED
      BY <1>1, <1>2, <3>1
  <2> QED
    BY <2>6, <2>7, <2>8
<1>9. CASE ListChain(w)
  <2>0. pc[w] = "list" /\ live' = live
    BY <1>9 DEF ListChain
  <2>1. PICK c \in Chains : c = Head(job[w].chains)
    BY <1>0, <2>0, AtChain
  <2>2. PICK x : x = StripCommands(c)
    OBVIOUS
  <2>3. job' = [job EXCEPT ![w].cmds = x] /\ pc'[w] = "strip"
    BY <1>0, <1>9, <2>1, <2>2, Goes DEF ListChain
  <2>4. job'[w].cmds = x /\ job'[w].chains = job[w].chains
    BY <1>0, <2>3, OfWorker DEF IsJob, NoJob, Inv
  <2>5. Single(live[c])
    BY <1>0 DEF RowsInv, SingleInv
  <2>6. /\ \A k \in 1..Len(x) : x[k].entry.id # 0 /\ x[k].entry \in ToSet(live[c])
        /\ \A k, m \in 1..Len(x) : x[k].entry.id = x[m].entry.id => k = m
    BY <1>0, <2>2, <2>5, StripTagged
  <2> QED
    BY <2>0, <2>1, <2>3, <2>4, <2>6 DEF Ready
<1>10. CASE ReloadRules(w)
  <2>0. pc[w] = "strip" /\ rules' = rules
    BY <1>10 DEF ReloadRules
  <2>1. PICK c \in Chains : c = Head(job[w].chains)
    BY <1>0, <2>0, AtChain
  <2>2. PICK x : x = FillCommands(rules, c)
    OBVIOUS
  <2>3. job' = [job EXCEPT ![w].cmds = x] /\ pc'[w] = "fill"
    BY <1>0, <1>10, <2>1, <2>2, Goes DEF ReloadRules
  <2>4. job'[w].cmds = x /\ job'[w].chains = job[w].chains
    BY <1>0, <2>3, OfWorker DEF IsJob, NoJob, Inv
  <2>5. Claimed' = {}
    BY <1>0, <2>3, ClaimedThen DEF Rebuilding
  <2>6. \A k \in 1..Len(x) : Genuine(x[k].entry, Wanted(rules, c), rules)
    BY <1>0, <2>2, FillGenuine
  <2>7. Wanted(rules', c) \ Claimed' = Wanted(rules, c)
    BY <2>0, <2>5
  <2> QED
    BY <2>0, <2>1, <2>3, <2>4, <2>6, <2>7 DEF Ready
<1>11. CASE ScanChain(w)
  <2>1. pc[w] = "scan" /\ pc'[w] = "adopt"
    BY <1>0, <1>11, Goes DEF ScanChain
  <2>2. \A c \in Chains : \A m \in DOMAIN live[c] :
           live[c][m].id \in DOMAIN rules => live[c][m].id \in DOMAIN job[w].snap
    BY <1>0, <2>1 DEF RowsInv, TagInv, Watches, Scanning
  <2>3. ASSUME NEW k \in 1..Len(job'[w].found)
        PROVE  job'[w].found[k].entry.id = 0
    <3>1. PICK c \in Chains : \E m \in DOMAIN live[c] :
             /\ job'[w].found[k].entry = live[c][m]
             /\ live[c][m].id \notin DOMAIN job[w].snap
      BY <1>0, <1>11, FoundUntracked
    <3>2. PICK m \in DOMAIN live[c] :
             /\ job'[w].found[k].entry = live[c][m]
             /\ live[c][m].id \notin DOMAIN job[w].snap
      BY <3>1
    <3>3. live[c][m].id # 0 => live[c][m].id \in DOMAIN rules
      BY DEF GenuineInv, Genuine, Standing, Wanted, Enabled
    <3> QED
      BY <2>2, <3>2, <3>3
  <2> QED
    BY <2>1, <2>3 DEF Ready
<1>12. CASE Adopt(w)
  <2>1. pc[w] = "adopt" /\ pc'[w] = "claim" /\ job' = [job EXCEPT ![w].id = nextId]
    BY <1>0, <1>12, Goes DEF Adopt
  <2>2. job'[w].found = job[w].found
    BY <1>0, <2>1, OfWorker DEF IsJob, NoJob, Inv
  <2> QED
    BY <1>0, <2>1, <2>2 DEF Ready
<1>13. CASE Claim(w) \/ DropAdopted(w)
  <2>1. pc[w] \in {"claim", "drop"} /\ pc'[w] \in {"adopt", "drop"}
    BY <1>0, <1>13, Goes DEF Claim, DropAdopted
  <2> DEFINE found == job[w].found
  <2>2. found # <<>> /\ found \in Seq([entry : Entry, pos : Int])
    BY <1>0, <2>1, OfWorker DEF PlaceOK, IsJob
  <2>3. \A k \in 1..Len(Tail(found)) : Tail(found)[k].entry.id = 0
    <3>1. \A k \in 1..Len(found) : found[k].entry.id = 0
      BY <1>0, <2>1 DEF Ready
    <3> HIDE DEF found
    <3>2. \A k \in 1..Len(Tail(found)) : k + 1 \in 1..Len(found) /\ Tail(found)[k] = found[k + 1]
      BY <2>2, HeadTailProperties
    <3> QED
      BY <3>1, <3>2
  <2>4. PICK x : x = Tail(found)
    OBVIOUS
  <2>5. \/ job' = job
        \/ job' = [job EXCEPT ![w].found = x]
        \/ \E y : job' = [job EXCEPT ![w].found = x, ![w].touched = @ \cup y]
    BY <1>13, <2>4 DEF Claim, DropAdopted
  <2>5a. w \in DOMAIN job /\ DOMAIN job[w] = DOMAIN NoJob
    BY <1>0, JobFields
  <2>5b. job' = job => job'[w].found = found
    OBVIOUS
  <2>5c. job' = [job EXCEPT ![w].found = x] => job'[w].found = x
    BY <2>5a DEF NoJob
  <2>5d. ASSUME NEW y, job' = [job EXCEPT ![w].found = x, ![w].touched = @ \cup y]
         PROVE  job'[w].found = x
    BY <2>5a, <2>5d DEF NoJob
  <2>6. job'[w].found \in {found, x}
    BY <2>5, <2>5b, <2>5c, <2>5d
  <2> QED
    BY <1>0, <2>1, <2>3, <2>4, <2>6 DEF Ready
<1>14. CASE \/ SyncStart(w) \/ SyncBlocksDone(w) \/ TakeFlock(w) \/ ChainRebuilt(w)
            \/ Snapshot(w) \/ ChainScanned(w) \/ AllScanned(w)
  <2>1. Finish(w) \/ \E p : p \in {"sync", "flock", "snapshot", "list", "scan"} /\ Goto(w, p)
    BY <1>14 DEF SyncStart, SyncBlocksDone, TakeFlock, ChainRebuilt,
                 Snapshot, ChainScanned, AllScanned, UnlockedRebuild
  <2>2. pc'[w] \in Plain
    BY <1>0, <1>2, <1>3, <2>1, Goes
  <2> QED
    BY <1>1, <2>2
<1> QED
  BY <1>0, <1>6, <1>7, <1>8, <1>9, <1>10, <1>11, <1>12, <1>13, <1>14, RebuildSteps
     DEF Rebuilds, Discovers

\* A rule typed by hand carries no tag.
LEMMA AppendKin ==
  ASSUME live \in [Chains -> Seq(Entry)], NEW m \in ManualRules, ManualAppend(m[1], m[2])
  PROVE  \A c \in Chains : Kin(live[c], live'[c])
<1>1. m[1] \in Chains /\ m[2] \in Shape
      /\ live' = [live EXCEPT ![m[1]] = Append(@, [id |-> 0, shape |-> m[2]])]
  BY ManualAssumption DEF ManualAppend
<1>2. PICK e : e = [id |-> 0, shape |-> m[2]]
  OBVIOUS
<1>3. e \in Entry /\ e.id = 0
  BY <1>1, <1>2 DEF Entry
<1>4. \A c \in Chains : live'[c] = live[c] \/ live'[c] = Append(live[c], e)
  BY <1>1, <1>2
<1> QED
  BY <1>3, <1>4, KinSequences

\* A step leaves every tagged entry genuine.
LEMMA LiveGenuine ==
  ASSUME OnlyRebuilds, NothingLost, GenuineInv, RowsInv', NEW w \in Workers, Step(w),
         NEW c \in Chains, NEW k \in DOMAIN live'[c], live'[c][k].id # 0
  PROVE  Genuine(live'[c][k], Standing(c)', rules')
<1>0. /\ LockInv /\ Inv /\ RowsInv /\ Exclusive /\ IsJob(job[w])
      /\ Ready(pc[w], job[w], live, rules, Claimed)
      /\ live \in [Chains -> Seq(Entry)]
  BY OfWorker DEF GenuineInv, RowsInv, TagInv, LockInv
<1>1. StandingStep(w, c)
  BY <1>0, StandingIs
<1>2. ASSUME NEW j \in DOMAIN live[c], live'[c][k] = live[c][j]
      PROVE  Genuine(live'[c][k], Standing(c)', rules')
  <2>1. Genuine(live[c][j], Standing(c), rules)
    BY <1>2 DEF GenuineInv
  <2>2. Genuine(live[c][j], Standing(c)', rules')
    BY <1>1, <2>1, GenuineKept
  <2> QED
    BY <1>2, <2>2
<1>3. CASE RunCommand(w) /\ pc[w] = "fill"
  <2> DEFINE cmds == job[w].cmds
  <2>1. /\ cmds # <<>> /\ live' = Executed(Head(cmds))
    BY <1>3 DEF RunCommand
  <2>2. cmds \in Seq(Command)
    BY <1>0 DEF IsJob
  <2> HIDE DEF cmds
  <2>3. Head(cmds) \in Command /\ Head(cmds) = cmds[1] /\ 1 \in 1..Len(cmds)
    BY <2>1, <2>2, OnTail
  <2>4. Head(cmds).op = "-A" /\ Head(cmds).chain = Head(job[w].chains)
    BY <1>0, <1>3, <2>3 DEF LockInv, Shaped, AllOn, cmds
  <2>5. CASE c = Head(cmds).chain
    <3>1. live'[c] = Append(live[c], Head(cmds).entry) /\ Head(cmds).entry \in Entry
      BY <1>0, <2>1, <2>3, <2>4, <2>5, ExecutedIs
    <3>2. live[c] \in Seq(Entry)
      BY <1>0
    <3>3. \/ k \in DOMAIN live[c] /\ live'[c][k] = live[c][k]
          \/ live'[c][k] = Head(cmds).entry
      BY <3>1, <3>2, AppendProperties
    <3>4. Genuine(Head(cmds).entry, Standing(c), rules)
      BY <1>0, <1>3, <2>3, <2>4, <2>5 DEF Ready, Standing, cmds
    <3>5. Genuine(Head(cmds).entry, Standing(c)', rules')
      BY <1>1, <3>4, GenuineKept
    <3> QED
      BY <1>2, <3>3, <3>5
  <2>6. CASE c # Head(cmds).chain
    <3>1. live'[c] = live[c]
      BY <1>0, <2>1, <2>3, <2>6, ExecutedIs
    <3> QED
      BY <1>2, <3>1
  <2> QED
    BY <2>5, <2>6
<1>4. CASE ~(RunCommand(w) /\ pc[w] = "fill")
  <2>1. NoAdds
    BY DEF OnlyRebuilds, NoAdds
  <2>2. Thins(live[c], live'[c])
    BY <1>0, <1>4, <2>1, StepThins
  <2> QED
    BY <1>2, <2>2 DEF Thins
<1> QED
  BY <1>3, <1>4

\* Every step keeps the tagged entries genuine.
LEMMA GenuineNext == OnlyRebuilds /\ NothingLost /\ GenuineInv /\ [Next]_vars => GenuineInv'
<1> SUFFICES ASSUME OnlyRebuilds, NothingLost, GenuineInv, [Next]_vars
             PROVE  GenuineInv'
  OBVIOUS
<1>0. RowsInv /\ RowsInv' /\ Inv /\ live \in [Chains -> Seq(Entry)]
  BY RowsNext, OfWorker DEF GenuineInv, RowsInv, TagInv, LockInv, Inv, SharedOK
<1>1. ASSUME UNCHANGED vars
      PROVE  GenuineInv'
  BY <1>0, <1>1 DEF GenuineInv, vars, Standing, Claimed
<1>2. ASSUME NEW w \in Workers, Step(w)
      PROVE  GenuineInv'
  <2>1. \A v \in Workers \ {w} : pc'[v] = pc[v] /\ job'[v] = job[v]
    BY <1>0, <1>2, EveryStepOK DEF StepOK, Moves, Inv
  <2>2. ASSUME NEW v \in Workers
        PROVE  Ready(pc'[v], job'[v], live', rules', Claimed')
    <3>1. CASE v = w
      BY <1>0, <1>2, <3>1, ReadyStep
    <3>2. CASE v # w
      <4>1. Ready(pc[v], job[v], live', rules', Claimed')
        BY <1>0, <1>2, <3>2, ReadyKept
      <4> QED
        BY <2>1, <3>2, <4>1
    <3> QED
      BY <3>1, <3>2
  <2>3. \A c \in Chains : \A k \in DOMAIN live'[c] :
           live'[c][k].id # 0 => Genuine(live'[c][k], Standing(c)', rules')
    BY <1>0, <1>2, LiveGenuine
  <2> QED
    BY <1>0, <2>2, <2>3 DEF GenuineInv
<1>3. ASSUME NEW w \in Workers, NEW r \in Requests, Receive(w, r)
      PROVE  GenuineInv'
  <2>1. /\ pc[w] = "idle" /\ pc'[w] \in {"max", "start", "flock", "lock"}
        /\ UNCHANGED <<rules, live>>
        /\ \A v \in Workers \ {w} : pc'[v] = pc[v] /\ job'[v] = job[v]
    BY <1>0, <1>3, ArrivalOf
  <2>2. Claimed' = Claimed
    BY <2>1, ClaimedSame
  <2>3. \A v \in Workers : Ready(pc'[v], job'[v], live', rules', Claimed')
    <3>1. Ready(pc'[w], job'[w], live', rules', Claimed')
      BY <2>1 DEF Ready
    <3> QED
      BY <2>1, <2>2, <3>1 DEF GenuineInv
  <2>4. \A c : Standing(c)' = Standing(c)
    BY <2>1, <2>2 DEF Standing
  <2> QED
    BY <1>0, <2>1, <2>3, <2>4 DEF GenuineInv
<1>4. ASSUME NEW m \in ManualRules, ManualAppend(m[1], m[2])
      PROVE  GenuineInv'
  <2>1. UNCHANGED <<rules, pc, job>> /\ m[1] \in Chains
        /\ live' = [live EXCEPT ![m[1]] = Append(@, [id |-> 0, shape |-> m[2]])]
    BY <1>4, ManualAssumption DEF ManualAppend
  <2>2. \A c \in Chains : Kin(live[c], live'[c])
    BY <1>0, <1>4, AppendKin
  <2>3. Claimed' = Claimed /\ \A c : Standing(c)' = Standing(c)
    BY <2>1 DEF Standing, Claimed
  <2>4. \A c \in Chains : \A k \in DOMAIN live'[c] :
           live'[c][k].id # 0 => Genuine(live'[c][k], Standing(c)', rules')
    BY <2>1, <2>2, <2>3 DEF GenuineInv, Kin
  <2>5. ASSUME NEW v \in Workers
        PROVE  Ready(pc'[v], job'[v], live', rules', Claimed')
    <3>1. Ready(pc[v], job[v], live, rules, Claimed)
      BY DEF GenuineInv
    <3>2. ASSUME pc[v] = "strip", NEW k \in 1..Len(job[v].cmds)
          PROVE  job[v].cmds[k].entry \in ToSet(live'[Head(job[v].chains)])
      <4>1. Head(job[v].chains) \in Chains
        BY <1>0, <3>2, AtChain DEF RowsInv, TagInv
      <4>2. job[v].cmds[k].entry.id # 0 /\ job[v].cmds[k].entry \in ToSet(live[Head(job[v].chains)])
        BY <3>1, <3>2 DEF Ready
      <4> DEFINE e == job[v].cmds[k].entry
                 s == live[Head(job[v].chains)]
                 t == live'[Head(job[v].chains)]
      <4>3. Kin(s, t)
        BY <2>2, <4>1
      <4>4. e.id # 0 /\ e \in ToSet(s)
        BY <4>2
      <4> HIDE DEF e, s, t
      <4>5. e \in ToSet(t)
        BY <4>3, <4>4 DEF Kin, ToSet
      <4> QED
        BY <4>5 DEF e, t
    <3> QED
      BY <2>1, <2>3, <3>1, <3>2 DEF Ready
  <2> QED
    BY <1>0, <2>4, <2>5 DEF GenuineInv
<1>5. CASE Environment
  BY <1>0, <1>3, <1>4, <1>5, NothingElse
<1> QED
  BY <1>1, <1>2, <1>5 DEF Next

\* The chains a table asks for show its wanted rows, in order, behind the blocks.
LEMMA ReflectionTags ==
  ASSUME NEW t, FiniteTable(t), NEW chain \in Chains
  PROVE  LET s == Reflection(t)[chain]
             ids == WantedIds(t, chain)
         IN  \E n \in Nat :
                /\ \A k \in DOMAIN s : s[k].id # 0 =>
                      /\ k \in Nat /\ k - n \in 1..Len(ids) /\ s[k].id = ids[k - n]
                      /\ Genuine(s[k], Wanted(t, chain), t)
                /\ \A m \in 1..Len(ids) : m + n \in DOMAIN s /\ s[m + n].id = ids[m]
<1> DEFINE front == IF chain \in {"FORWARD", "INPUT"} THEN BlockEntries(t) ELSE <<>>
           back == OrderedEntries(t, chain)
           blocks == {i \in Enabled(t) : IsBlock(t[i].shape)}
           bids == Ordered(t, blocks)
           ids == WantedIds(t, chain)
<1>1. front \in Seq(Entry) /\ back \in Seq(Entry)
  BY ReflectedTypes, EmptySeq
<1>2. \A k \in DOMAIN front : front[k].id = 0
  <2>1. blocks \subseteq DOMAIN t /\ IsFiniteSet(blocks)
    BY FS_Subset DEF Enabled, FiniteTable
  <2>2. bids \in Seq(blocks)
    <3> HIDE DEF blocks
    <3> QED BY <2>1, OrderedElements DEF FiniteTable
  <2>3. BlockEntries(t) = [k \in DOMAIN bids |-> LiveEntry(bids[k], t[bids[k]].shape)]
    BY DEF BlockEntries
  <2> HIDE DEF bids
  <2>4. \A k \in DOMAIN bids : bids[k] \in blocks
    BY <2>2
  <2>5. \A i \in blocks : LiveEntry(i, t[i].shape).id = 0
    BY DEF LiveEntry
  <2> HIDE DEF blocks
  <2>6. \A k \in DOMAIN BlockEntries(t) : BlockEntries(t)[k].id = 0
    BY <2>3, <2>4, <2>5
  <2> QED
    BY <2>6
<1>3. /\ DOMAIN ids = 1..Len(ids) /\ Len(back) = Len(ids) /\ Len(ids) \in Nat
      /\ \A k \in 1..Len(ids) : back[k].id = ids[k] /\ Genuine(back[k], Wanted(t, chain), t)
  <2>1. back = [k \in DOMAIN ids |-> LiveEntry(ids[k], t[ids[k]].shape)]
    BY DEF OrderedEntries
  <2>2. ids \in Seq(Wanted(t, chain))
    BY FillIs
  <2>3. \A k \in 1..Len(ids) : LiveEntry(ids[k], t[ids[k]].shape).id = ids[k]
                               /\ ids[k] \in Wanted(t, chain)
    BY WantedOnce
  <2> HIDE DEF back, ids
  <2>4. DOMAIN ids = 1..Len(ids) /\ Len(ids) \in Nat
    BY <2>2
  <2>5. Len(back) = Len(ids)
    BY <2>1, <2>4
  <2>6. \A k \in 1..Len(ids) : back[k] = LiveEntry(ids[k], t[ids[k]].shape)
    BY <2>1, <2>4
  <2>7. \A i, shape : LiveEntry(i, shape).shape = shape
    BY DEF LiveEntry
  <2> QED
    BY <2>3, <2>4, <2>5, <2>6, <2>7 DEF Genuine
<1>4. Reflection(t)[chain] = front \o back
  BY DEF Reflection
<1> HIDE DEF front, back, ids
<1>5. /\ DOMAIN (front \o back) = 1..Len(front) + Len(back)
      /\ \A k \in 1..Len(front) + Len(back) :
            (front \o back)[k] = IF k <= Len(front) THEN front[k] ELSE back[k - Len(front)]
      /\ DOMAIN front = 1..Len(front) /\ Len(front) \in Nat
  BY <1>1, ConcatProperties
<1> DEFINE both == front \o back
           n == Len(front)
<1> HIDE DEF both, n
<1>6. ASSUME NEW k \in DOMAIN both, both[k].id # 0
      PROVE  k \in Nat /\ k - n \in 1..Len(ids) /\ both[k] = back[k - n]
  <2>1. k \in 1..n + Len(ids) /\ n \in Nat
    BY <1>3, <1>5 DEF both, n
  <2>2. ~(k <= n)
    BY <1>2, <1>3, <1>5, <1>6, <2>1 DEF both, n
  <2>3. both[k] = back[k - n]
    BY <1>3, <1>5, <2>1, <2>2 DEF both, n
  <2> QED
    BY <1>3, <2>1, <2>2, <2>3
<1>7. ASSUME NEW m \in 1..Len(ids)
      PROVE  m + n \in DOMAIN both /\ both[m + n] = back[m]
  <2>1. n \in Nat /\ m + n \in 1..n + Len(ids) /\ ~(m + n <= n) /\ (m + n) - n = m
    BY <1>3, <1>5 DEF n
  <2> QED
    BY <1>3, <1>5, <2>1 DEF both, n
<1>8. n \in Nat /\ Reflection(t)[chain] = both
  BY <1>4, <1>5 DEF n, both
<1>9. /\ \A k \in DOMAIN both : both[k].id # 0 =>
             /\ k \in Nat /\ k - n \in 1..Len(ids) /\ both[k].id = ids[k - n]
             /\ Genuine(both[k], Wanted(t, chain), t)
      /\ \A m \in 1..Len(ids) : m + n \in DOMAIN both /\ both[m + n].id = ids[m]
  BY <1>3, <1>6, <1>7
<1> QED
  BY <1>8, <1>9 DEF ids

\* They are so at the start.
LEMMA GenuineInit == Init => GenuineInv
<1> SUFFICES ASSUME Init
             PROVE  GenuineInv
  OBVIOUS
<1>1. RowsInv /\ FiniteTable(rules)
  BY RowsInit, OfWorker, InitInv DEF Inv, SharedOK
<1>2. live = Reflection(rules) /\ \A w \in Workers : pc[w] = "idle"
  BY DEF Init
<1>3. Claimed = {} /\ \A c \in Chains : Standing(c) = Wanted(rules, c)
  BY <1>2 DEF Claimed, Standing
<1>4. ASSUME NEW c \in Chains, NEW k \in DOMAIN live[c], live[c][k].id # 0
      PROVE  Genuine(live[c][k], Standing(c), rules)
  BY <1>1, <1>2, <1>3, <1>4, ReflectionTags
<1>5. \A w \in Workers : Ready(pc[w], job[w], live, rules, Claimed)
  BY <1>2 DEF Ready
<1> QED
  BY <1>1, <1>4, <1>5 DEF GenuineInv

-----------------------------------------------------------------------------
(* A rebuild puts its chain right. *)

\* Chain s, once the commands cmds have run, shows every row of S, in order.
Fits(s, cmds, t, S) ==
    /\ \A i \in S : \/ \E k \in DOMAIN s : s[k].id = i
                    \/ \E m \in 1..Len(cmds) : cmds[m].entry.id = i
    /\ \A j, k \in DOMAIN s : j < k /\ s[j].id # 0 /\ s[k].id # 0 => Before(t, s[j].id, s[k].id)
    /\ \A k \in DOMAIN s, m \in 1..Len(cmds) : s[k].id # 0 => Before(t, s[k].id, cmds[m].entry.id)
    /\ \A m, n \in 1..Len(cmds) : m < n => Before(t, cmds[m].entry.id, cmds[n].entry.id)

\* A chain that fits still does when its entries thin out or gain untagged ones
\* and the rows keep their order.
LEMMA FitsKept ==
  ASSUME NEW s, NEW s1, NEW cmds, NEW t, NEW t1, NEW S, Fits(s, cmds, t, S), Kin(s, s1),
         0 \notin S, \A k \in DOMAIN s : s[k].id # 0 => s[k].id \in S,
         \A m \in 1..Len(cmds) : cmds[m].entry.id \in S,
         \A i, j \in S : Before(t, i, j) => Before(t1, i, j)
  PROVE  Fits(s1, cmds, t1, S)
<1>1. \A i \in S : \/ \E k \in DOMAIN s1 : s1[k].id = i
                   \/ \E m \in 1..Len(cmds) : cmds[m].entry.id = i
  BY DEF Fits, Kin
<1>2. ASSUME NEW j \in DOMAIN s1, NEW k \in DOMAIN s1, j < k, s1[j].id # 0, s1[k].id # 0
      PROVE  Before(t1, s1[j].id, s1[k].id)
  <2>1. PICK m \in DOMAIN s : \E n \in DOMAIN s : m < n /\ s[m] = s1[j] /\ s[n] = s1[k]
    BY <1>2 DEF Kin
  <2>2. PICK n \in DOMAIN s : m < n /\ s[m] = s1[j] /\ s[n] = s1[k]
    BY <2>1
  <2>3. Before(t, s[m].id, s[n].id) /\ s[m].id \in S /\ s[n].id \in S
    BY <1>2, <2>2 DEF Fits
  <2> QED
    BY <2>2, <2>3
<1>3. ASSUME NEW k \in DOMAIN s1, NEW m \in 1..Len(cmds), s1[k].id # 0
      PROVE  Before(t1, s1[k].id, cmds[m].entry.id)
  <2>1. PICK j \in DOMAIN s : s[j] = s1[k]
    BY <1>3 DEF Kin
  <2>2. Before(t, s[j].id, cmds[m].entry.id) /\ s[j].id \in S /\ cmds[m].entry.id \in S
    BY <1>3, <2>1 DEF Fits
  <2> QED
    BY <2>1, <2>2
<1>4. \A m, n \in 1..Len(cmds) : m < n => Before(t1, cmds[m].entry.id, cmds[n].entry.id)
  BY DEF Fits
<1> QED
  BY <1>1, <1>2, <1>3, <1>4 DEF Fits

\* Running the first command appends what it was counted for.
LEMMA FitsMoved ==
  ASSUME NEW s \in Seq(Entry), NEW cmds \in Seq(Command), cmds # <<>>, NEW t, NEW S,
         Fits(s, cmds, t, S)
  PROVE  Fits(Append(s, Head(cmds).entry), Tail(cmds), t, S)
<1> DEFINE e == Head(cmds).entry
           s1 == Append(s, e)
           x == Tail(cmds)
<1>1. /\ Head(cmds) \in Command /\ Head(cmds) = cmds[1] /\ 1 \in 1..Len(cmds)
      /\ Len(x) = Len(cmds) - 1
      /\ \A k \in 1..Len(x) : k + 1 \in 1..Len(cmds) /\ x[k] = cmds[k + 1]
      /\ \A k \in 1..Len(cmds) : k # 1 => k - 1 \in 1..Len(x) /\ cmds[k] = x[k - 1]
  BY OnTail
<1>2. /\ DOMAIN s1 = 1..Len(s) + 1 /\ s1[Len(s) + 1] = e /\ Len(s) \in Nat
      /\ DOMAIN s = 1..Len(s)
      /\ \A k \in 1..Len(s) : s1[k] = s[k]
  <2>1. e \in Entry
    BY <1>1 DEF Command
  <2> QED
    BY <2>1, AppendProperties
<1>3. e = cmds[1].entry
  BY <1>1
<1> HIDE DEF e, s1, x
<1>4. ASSUME NEW i \in S
      PROVE  \/ \E k \in DOMAIN s1 : s1[k].id = i
             \/ \E m \in 1..Len(x) : x[m].entry.id = i
  <2>1. CASE \E k \in DOMAIN s : s[k].id = i
    <3>1. \A k \in DOMAIN s : k \in DOMAIN s1 /\ s1[k] = s[k]
      BY <1>2
    <3> QED
      BY <2>1, <3>1
  <2>2. CASE \E m \in 1..Len(cmds) : cmds[m].entry.id = i
    <3>1. PICK m \in 1..Len(cmds) : cmds[m].entry.id = i
      BY <2>2
    <3>2. CASE m = 1
      <4>1. Len(s) + 1 \in DOMAIN s1
        BY <1>2
      <4> QED
        BY <1>2, <1>3, <3>1, <3>2, <4>1
    <3>3. CASE m # 1
      BY <1>1, <3>1, <3>3
    <3> QED
      BY <3>2, <3>3
  <2> QED
    BY <2>1, <2>2 DEF Fits
<1>5. ASSUME NEW j \in DOMAIN s1, NEW k \in DOMAIN s1, j < k, s1[j].id # 0, s1[k].id # 0
      PROVE  Before(t, s1[j].id, s1[k].id)
  <2>1. j \in DOMAIN s /\ s1[j] = s[j]
    BY <1>2, <1>5
  <2>2. CASE k \in DOMAIN s
    BY <1>2, <1>5, <2>1, <2>2 DEF Fits
  <2>3. CASE k \notin DOMAIN s
    <3>1. k = Len(s) + 1
      BY <1>2, <2>3
    <3> QED
      BY <1>1, <1>2, <1>3, <1>5, <2>1, <3>1 DEF Fits
  <2> QED
    BY <2>2, <2>3
<1>6. ASSUME NEW k \in DOMAIN s1, NEW m \in 1..Len(x), s1[k].id # 0
      PROVE  Before(t, s1[k].id, x[m].entry.id)
  <2>1. m + 1 \in 1..Len(cmds) /\ x[m] = cmds[m + 1] /\ 1 < m + 1
    BY <1>1
  <2>2. CASE k \in DOMAIN s
    BY <1>2, <1>6, <2>1, <2>2 DEF Fits
  <2>3. CASE k \notin DOMAIN s
    <3>1. k = Len(s) + 1
      BY <1>2, <2>3
    <3> QED
      BY <1>1, <1>2, <1>3, <2>1, <3>1 DEF Fits
  <2> QED
    BY <2>2, <2>3
<1>7. ASSUME NEW m \in 1..Len(x), NEW n \in 1..Len(x), m < n
      PROVE  Before(t, x[m].entry.id, x[n].entry.id)
  <2>1. m + 1 < n + 1
    BY <1>7
  <2> QED
    BY <1>1, <2>1 DEF Fits
<1> QED
  BY <1>4, <1>5, <1>6, <1>7 DEF Fits, s1, e, x

\* A stripped chain fits with all the commands of its fill.
LEMMA FitsFresh ==
  ASSUME NEW t, FiniteTable(t), NEW chain \in Chains, NEW s, \A k \in DOMAIN s : s[k].id = 0,
         NEW S, S \subseteq Wanted(t, chain)
  PROVE  Fits(s, FillCommands(t, chain), t, S)
<1> DEFINE cmds == FillCommands(t, chain)
           ids == WantedIds(t, chain)
<1>1. Len(cmds) = Len(ids) /\ \A k \in 1..Len(cmds) : cmds[k].entry.id = ids[k]
  BY FillIs, FillGenuine
<1>2. /\ \A x \in Wanted(t, chain) : \E k \in 1..Len(ids) : ids[k] = x
      /\ \A k, m \in 1..Len(ids) : k < m => Before(t, ids[k], ids[m])
  BY FillIs
<1> HIDE DEF cmds, ids
<1> QED
  BY <1>1, <1>2 DEF Fits, cmds

\* A member of a sequence is its head or in its tail.
LEMMA InTail ==
  ASSUME NEW T, NEW s \in Seq(T), NEW x \in ToSet(s)
  PROVE  x = Head(s) \/ x \in ToSet(Tail(s))
<1>1. PICK k \in 1..Len(s) : s[k] = x
  BY DEF ToSet
<1>2. s # <<>>
  BY <1>1, EmptySeq
<1>3. Head(s) = s[1] /\ Tail(s) \in Seq(T) /\ Len(Tail(s)) = Len(s) - 1 /\ Len(s) \in Nat
      /\ \A i \in 1..Len(Tail(s)) : Tail(s)[i] = s[i + 1]
  BY <1>2, HeadTailProperties
<1>4. CASE k # 1
  <2>1. k - 1 \in 1..Len(Tail(s)) /\ (k - 1) + 1 = k
    BY <1>3, <1>4
  <2>2. Tail(s)[k - 1] = x
    BY <1>1, <1>3, <2>1
  <2>3. DOMAIN Tail(s) = 1..Len(Tail(s))
    BY <1>3
  <2> QED
    BY <2>1, <2>2, <2>3 DEF ToSet
<1> QED
  BY <1>1, <1>3, <1>4

\* The chains a handler will yet rebuild from the start, the one it is filling.
Owes(p, j, c) ==
    \/ p = "flock" /\ j.req.op # "discover" /\ c \in ToSet(j.chains)
    \/ p \in {"list", "strip"} /\ c \in ToSet(j.chains)
    \/ p = "fill" /\ c \in ToSet(Tail(j.chains))
    \/ p \in Scanning /\ c \in j.touched

Filling(p, j, c) == p = "fill" /\ Head(j.chains) = c

\* A chain is owed a rebuild, or being filled, or right.
Settled(c) ==
    \/ \E w \in Workers : Owes(pc[w], job[w], c)
    \/ \E w \in Workers : /\ Filling(pc[w], job[w], c)
                          /\ Fits(live[c], job[w].cmds, rules, Standing(c))
    \/ /\ \A w \in Workers : ~Filling(pc[w], job[w], c)
       /\ Fits(live[c], <<>>, rules, Standing(c))

\* Every chain is settled or someone is bound to settle it.
SettleInv == GenuineInv /\ \A c \in Chains : Settled(c)

\* A rebuild finds what it deletes, and what it appends cannot fail.
LEMMA RebuildRuns ==
  ASSUME NothingLost, GenuineInv, NEW w \in Workers, pc[w] \in {"strip", "fill"}
  PROVE  ~FailCommand(w)
<1> SUFFICES ASSUME FailCommand(w)
             PROVE  FALSE
  OBVIOUS
<1>0. /\ IsJob(job[w]) /\ Ready(pc[w], job[w], live, rules, Claimed) /\ Shaped(pc[w], job[w])
  BY OfWorker DEF GenuineInv, RowsInv, TagInv, LockInv
<1> DEFINE cmds == job[w].cmds
           c == Head(cmds)
<1>1. cmds # <<>> /\ ~Executable(c)
  BY DEF FailCommand, NothingLost
<1>2. cmds \in Seq(Command)
  BY <1>0 DEF IsJob
<1>3. c = cmds[1] /\ 1 \in 1..Len(cmds)
  <2> HIDE DEF cmds
  <2> QED BY <1>1, <1>2, OnTail
<1>4. CASE pc[w] = "strip"
  <2>1. c.chain = Head(job[w].chains)
    BY <1>0, <1>3, <1>4 DEF Shaped, AllOn
  <2> QED
    BY <1>0, <1>1, <1>3, <1>4, <2>1 DEF Ready, Executable
<1>5. CASE pc[w] = "fill"
  BY <1>0, <1>1, <1>3, <1>5 DEF Shaped, AllOn, Executable
<1> QED
  BY <1>4, <1>5

\* What is owed stays owed until the chain is refilled.
LEMMA OwesStep ==
  ASSUME OnlyRebuilds, NothingLost, GenuineInv, NEW w \in Workers, Step(w),
         NEW c \in Chains, Owes(pc[w], job[w], c)
  PROVE  Owes(pc'[w], job'[w], c) \/ (ReloadRules(w) /\ c = Head(job[w].chains))
<1>0. /\ Inv /\ LockInv /\ RowsInv /\ IsJob(job[w]) /\ PlaceOK(pc[w], job[w])
  BY OfWorker DEF GenuineInv, RowsInv, TagInv, LockInv
<1>1. CASE pc[w] = "flock"
  <2>1. job[w].req.op # "discover" /\ c \in ToSet(job[w].chains)
    BY <1>1 DEF Owes, Scanning
  <2>2. TakeFlock(w)
    BY <1>0, <1>1, RebuildSteps DEF Lock, LockTimeout, Read, Declined, Blocked, Reordered,
       Unblocking, UnblockCommit, RunCommand, Running, Failed, Rebuilds, Discovers, SyncStart,
       SyncBlocksDone, ListChain, ReloadRules, ChainRebuilt, Snapshot, ScanChain, Adopt, Claim,
       DropAdopted, ChainScanned, AllScanned
  <2>3. pc'[w] = "list" /\ job' = job
    BY <1>0, <2>1, <2>2, Goes DEF TakeFlock
  <2> QED
    BY <2>1, <2>3 DEF Owes
<1>2. CASE pc[w] = "list"
  <2>1. c \in ToSet(job[w].chains)
    BY <1>2 DEF Owes, Scanning
  <2>2. ListChain(w)
    BY <1>0, <1>2, RebuildSteps DEF Lock, LockTimeout, Read, Declined, Blocked, Reordered,
       Unblocking, UnblockCommit, RunCommand, Running, Failed, Rebuilds, Discovers, SyncStart,
       SyncBlocksDone, TakeFlock, ReloadRules, ChainRebuilt, Snapshot, ScanChain, Adopt, Claim,
       DropAdopted, ChainScanned, AllScanned
  <2>3. PICK x : job' = [job EXCEPT ![w].cmds = x] /\ pc'[w] = "strip"
    BY <1>0, <2>2, Goes DEF ListChain
  <2>4. job'[w].chains = job[w].chains
    BY <1>0, <2>3, OfWorker DEF IsJob, NoJob, Inv
  <2> QED
    BY <2>1, <2>3, <2>4 DEF Owes
<1>3. CASE pc[w] = "strip"
  <2>1. c \in ToSet(job[w].chains)
    BY <1>3 DEF Owes, Scanning
  <2>2. ReloadRules(w) \/ RunCommand(w)
    BY <1>0, <1>3, RebuildRuns, RebuildSteps DEF Lock, LockTimeout, Read, Declined, Blocked, Reordered,
       Unblocking, UnblockCommit, Failed, Rebuilds, Discovers, SyncStart,
       SyncBlocksDone, TakeFlock, ListChain, ChainRebuilt, Snapshot, ScanChain, Adopt, Claim,
       DropAdopted, ChainScanned, AllScanned
  <2>3. PICK x : job' = [job EXCEPT ![w].cmds = x]
    BY <2>2 DEF ReloadRules, RunCommand
  <2>4. job'[w].chains = job[w].chains
    BY <1>0, <2>3, OfWorker DEF IsJob, NoJob, Inv
  <2>5. CASE RunCommand(w)
    BY <1>3, <2>1, <2>4, <2>5 DEF RunCommand, Owes
  <2>6. CASE ReloadRules(w)
    <3>1. pc'[w] = "fill"
      BY <1>0, <2>6, Goes DEF ReloadRules
    <3>2. job[w].chains \in Seq(Chains)
      BY <1>0 DEF IsJob
    <3>3. c = Head(job[w].chains) \/ c \in ToSet(Tail(job[w].chains))
      BY <2>1, <3>2, InTail
    <3> QED
      BY <2>4, <2>6, <3>1, <3>3 DEF Owes
  <2> QED
    BY <2>2, <2>5, <2>6
<1>4. CASE pc[w] = "fill"
  <2>1. c \in ToSet(Tail(job[w].chains))
    BY <1>4 DEF Owes, Scanning
  <2>2. ChainRebuilt(w) \/ RunCommand(w)
    BY <1>0, <1>4, RebuildRuns, RebuildSteps DEF Lock, LockTimeout, Read, Declined, Blocked, Reordered,
       Unblocking, UnblockCommit, Failed, Rebuilds, Discovers, SyncStart,
       SyncBlocksDone, TakeFlock, ListChain, ReloadRules, Snapshot, ScanChain, Adopt, Claim,
       DropAdopted, ChainScanned, AllScanned
  <2>3. CASE RunCommand(w)
    <3>1. PICK x : job' = [job EXCEPT ![w].cmds = x]
      BY <2>3 DEF RunCommand
    <3>2. job'[w].chains = job[w].chains /\ pc'[w] = "fill"
      BY <1>0, <1>4, <2>3, <3>1, OfWorker DEF IsJob, NoJob, Inv, RunCommand
    <3> QED
      BY <2>1, <3>2 DEF Owes
  <2>4. CASE ChainRebuilt(w)
    <3>1. PICK x : x = Tail(job[w].chains)
      OBVIOUS
    <3>2. x # <<>>
      BY <2>1, <3>1 DEF ToSet
    <3>3. /\ job' = [job EXCEPT ![w].chains = x]
          /\ Goto(w, IF job[w].req.op = "discover" THEN "list" ELSE "flock")
      BY <2>4, <3>1, <3>2 DEF ChainRebuilt
    <3>4. job'[w].chains = x /\ job'[w].req = job[w].req
      BY <1>0, <3>3, OfWorker DEF IsJob, NoJob, Inv
    <3>5. pc'[w] = IF job[w].req.op = "discover" THEN "list" ELSE "flock"
      BY <1>0, <3>3, Goes
    <3> QED
      BY <2>1, <3>1, <3>4, <3>5 DEF Owes
  <2> QED
    BY <2>2, <2>3, <2>4
<1>5. CASE pc[w] \in Scanning
  <2>1. c \in job[w].touched /\ job[w].touched \subseteq Chains
    BY <1>0, <1>5 DEF Owes, Scanning, IsJob
  <2>2. ScanChain(w) \/ Adopt(w) \/ Claim(w) \/ DropAdopted(w) \/ ChainScanned(w) \/ AllScanned(w)
    BY <1>0, <1>5, RebuildSteps DEF Scanning, Lock, LockTimeout, Read, Declined, Blocked, Reordered,
       Unblocking, UnblockCommit, RunCommand, Running, Failed, Rebuilds, Discovers, SyncStart,
       SyncBlocksDone, TakeFlock, ListChain, ReloadRules, ChainRebuilt, Snapshot
  <2>3. CASE AllScanned(w)
    <3>1. PICK order \in Orders(job[w].touched) : job' = [job EXCEPT ![w].chains = order]
      BY <2>1, <2>3 DEF AllScanned
    <3>2. job'[w].chains = order /\ pc'[w] = "list"
      <4>1. pc'[w] = "list"
        BY <1>0, <2>1, <2>3, Goes DEF AllScanned, UnlockedRebuild
      <4> QED
        BY <1>0, <3>1, <4>1, OfWorker DEF IsJob, NoJob, Inv
    <3>3. ToSet(order) = job[w].touched
      BY <2>1, OrdersCover
    <3> QED
      BY <2>1, <3>2, <3>3 DEF Owes
  <2>4. CASE ~AllScanned(w)
    <3>1. pc'[w] \in Scanning
      BY <1>0, <2>2, <2>4, Goes
         DEF ScanChain, Adopt, Claim, DropAdopted, ChainScanned, Scanning
    <3>2. \/ job' = job
          \/ \E x : job' = [job EXCEPT ![w].found = x]
          \/ \E x : job' = [job EXCEPT ![w].scan = x]
          \/ \E x : job' = [job EXCEPT ![w].id = x]
          \/ \E x, y : job' = [job EXCEPT ![w].found = x, ![w].touched = @ \cup y]
      BY <2>2, <2>4 DEF ScanChain, Adopt, Claim, DropAdopted, ChainScanned
    <3>3. job[w].touched \subseteq job'[w].touched
      <4>1. ASSUME NEW x, \/ job' = [job EXCEPT ![w].found = x]
                          \/ job' = [job EXCEPT ![w].scan = x]
                          \/ job' = [job EXCEPT ![w].id = x]
            PROVE  job'[w].touched = job[w].touched
        BY <1>0, <4>1 DEF IsJob, NoJob, Inv
      <4>2. ASSUME NEW x, NEW y, job' = [job EXCEPT ![w].found = x, ![w].touched = @ \cup y]
            PROVE  job'[w].touched = job[w].touched \cup y
        BY <1>0, <4>2 DEF IsJob, NoJob, Inv
      <4> QED
        BY <3>2, <4>1, <4>2
    <3> QED
      BY <2>1, <3>1, <3>3 DEF Owes
  <2> QED
    BY <2>3, <2>4
<1> QED
  BY <1>1, <1>2, <1>3, <1>4, <1>5 DEF Owes

\* Between its start and its end, a rebuild fills its chain command by command.
LEMMA FillSteps ==
  ASSUME OnlyRebuilds, NothingLost, GenuineInv, NEW w \in Workers, Step(w), pc[w] = "fill"
  PROVE  RunCommand(w) \/ ChainRebuilt(w)
BY RebuildRuns, RebuildSteps DEF GenuineInv, Lock, LockTimeout, Read, Declined, Blocked, Reordered,
       Unblocking, UnblockCommit, Failed, Rebuilds, Discovers, SyncStart,
       SyncBlocksDone, TakeFlock, ListChain, ReloadRules, Snapshot, ScanChain, Adopt, Claim,
       DropAdopted, ChainScanned, AllScanned

\* A strip and a fill only touch the chain they rebuild.
LEMMA RunsOnItsChain ==
  ASSUME LockInv, NEW w \in Workers, RunCommand(w), pc[w] \in {"strip", "fill"}
  PROVE  LET cmds == job[w].cmds
         IN  /\ cmds \in Seq(Command) /\ cmds # <<>> /\ Head(cmds) \in Command
             /\ live' = Executed(Head(cmds)) /\ Head(cmds).chain = Head(job[w].chains)
             /\ pc[w] = "fill" => Head(cmds).op = "-A"
<1>0. IsJob(job[w]) /\ Shaped(pc[w], job[w])
  BY OfWorker DEF LockInv
<1> DEFINE cmds == job[w].cmds
<1>1. cmds # <<>> /\ live' = Executed(Head(cmds)) /\ cmds \in Seq(Command)
  BY <1>0 DEF RunCommand, IsJob
<1>2. Head(cmds) \in Command /\ Head(cmds) = cmds[1] /\ 1 \in 1..Len(cmds)
  <2> HIDE DEF cmds
  <2> QED BY <1>1, OnTail
<1> QED
  BY <1>0, <1>1, <1>2 DEF Shaped, AllOn

\* So every other chain keeps its tagged entries.
LEMMA KinElsewhere ==
  ASSUME OnlyRebuilds, NothingLost, GenuineInv, NEW w \in Workers, Step(w), NEW c \in Chains,
         ~(RunCommand(w) /\ pc[w] \in {"strip", "fill"} /\ c = Head(job[w].chains))
  PROVE  Kin(live[c], live'[c])
<1>0. LockInv /\ live \in [Chains -> Seq(Entry)]
  BY OfWorker DEF GenuineInv, RowsInv, TagInv, LockInv, Inv, SharedOK
<1>1. CASE RunCommand(w) /\ pc[w] \in {"strip", "fill"}
  <2>1. live'[c] = live[c]
    BY <1>0, <1>1, RunsOnItsChain, ExecutedIs
  <2> QED
    BY <1>0, <2>1, KinSequences
<1>2. CASE ~(RunCommand(w) /\ pc[w] \in {"strip", "fill"})
  BY <1>2, StepKin
<1> QED
  BY <1>1, <1>2

\* A fill starts on a stripped chain, with every wanted row to append.
LEMMA ReloadFits ==
  ASSUME GenuineInv, NEW w \in Workers, ReloadRules(w), NEW c \in Chains, c = Head(job[w].chains)
  PROVE  Filling(pc'[w], job'[w], c) /\ Fits(live'[c], job'[w].cmds, rules', Standing(c)')
<1>0. /\ Inv /\ FiniteTable(rules) /\ SingleInv
  BY OfWorker DEF GenuineInv, RowsInv, TagInv, LockInv
<1>1. PICK x : x = FillCommands(rules, c)
  OBVIOUS
<1>2. /\ pc[w] = "strip" /\ job[w].cmds = <<>> /\ live' = live /\ rules' = rules
      /\ job' = [job EXCEPT ![w].cmds = x] /\ pc'[w] = "fill"
  BY <1>0, <1>1, Goes DEF ReloadRules
<1>3. job'[w].cmds = x /\ job'[w].chains = job[w].chains
  BY <1>0, <1>2, OfWorker DEF IsJob, NoJob, Inv
<1>4. \A k \in DOMAIN live[c] : live[c][k].id = 0
  <2>1. Clean("strip", <<>>, live[c])
    BY <1>0, <1>2 DEF SingleInv
  <2> QED
    BY <2>1 DEF Clean
<1>5. Standing(c)' \subseteq Wanted(rules, c)
  BY <1>2 DEF Standing
<1>6. Fits(live[c], x, rules, Standing(c)')
  BY <1>0, <1>1, <1>4, <1>5, FitsFresh
<1> QED
  BY <1>2, <1>3, <1>6 DEF Filling

\* A chain that fits still does after a step, or a rebuild of it is owed.
LEMMA FitsStep ==
  ASSUME OnlyRebuilds, NothingLost, GenuineInv, RowsInv', NEW w \in Workers, Step(w),
         NEW c \in Chains, NEW cmds, Kin(live[c], live'[c]), Fits(live[c], cmds, rules, Standing(c)),
         \A m \in 1..Len(cmds) : cmds[m].entry.id \in Standing(c)
  PROVE  Fits(live'[c], cmds, rules', Standing(c)') \/ Owes(pc'[w], job'[w], c)
<1>0. /\ RowsInv /\ Inv /\ IsJob(job[w]) /\ FiniteTable(rules)
  BY OfWorker DEF GenuineInv, RowsInv, TagInv, LockInv
<1>1. StandingStep(w, c)
  BY <1>0, StandingIs
<1>2. 0 \notin Standing(c)
  BY <1>0 DEF Standing, Wanted, Enabled, FiniteTable, IsTable
<1>3. \A k \in DOMAIN live[c] : live[c][k].id # 0 => live[c][k].id \in Standing(c)
  BY DEF GenuineInv, Genuine
<1>4. CASE /\ Standing(c)' = Standing(c)
           /\ \A i, j \in Standing(c) : Before(rules, i, j) => Before(rules', i, j)
  <2>1. Fits(live'[c], cmds, rules', Standing(c))
    BY <1>2, <1>3, <1>4, FitsKept
  <2> QED
    BY <1>4, <2>1
<1>5. CASE Claim(w) /\ pc'[w] = "adopt" /\ c \in job'[w].touched
  BY <1>5 DEF Owes, Scanning
<1>6. CASE Reordered(w) /\ c \in ToSet(job'[w].chains)
  <2>0. Goto(w, "flock") /\ job[w].req.op = "reorder"
        /\ \E x, y : job' = [job EXCEPT ![w] = [@ EXCEPT !.id = x, !.chains = y]]
    BY <1>6 DEF Reordered
  <2>1. pc'[w] = "flock"
    BY <1>0, <2>0, Goes
  <2>1a. w \in DOMAIN job /\ DOMAIN job[w] = DOMAIN NoJob
    BY <1>0, JobFields
  <2>1b. PICK x, y : job' = [job EXCEPT ![w] = [@ EXCEPT !.id = x, !.chains = y]]
    BY <2>0
  <2>2. job'[w].req = job[w].req
    BY <2>1a, <2>1b DEF NoJob
  <2> QED
    BY <1>6, <2>0, <2>1, <2>2 DEF Owes
<1> QED
  BY <1>1, <1>4, <1>5, <1>6 DEF StandingStep

\* Every step of a worker leaves a chain settled.
LEMMA SettledStep ==
  ASSUME OnlyRebuilds, NothingLost, GenuineInv, RowsInv', NEW w \in Workers, Step(w),
         NEW c \in Chains, Settled(c)
  PROVE  Settled(c)'
<1>0. /\ RowsInv /\ LockInv /\ Inv /\ Exclusive /\ live \in [Chains -> Seq(Entry)]
      /\ IsJob(job[w]) /\ PlaceOK(pc[w], job[w])
  BY OfWorker DEF GenuineInv, RowsInv, TagInv, LockInv
<1>1. \A v \in Workers \ {w} : pc'[v] = pc[v] /\ job'[v] = job[v]
  BY <1>0, EveryStepOK DEF StepOK, Moves, Inv
<1>2. ASSUME Owes(pc'[w], job'[w], c)
      PROVE  Settled(c)'
  BY <1>2 DEF Settled
<1>3. CASE ReloadRules(w) /\ c = Head(job[w].chains)
  BY <1>3, ReloadFits DEF Settled
<1>4. CASE \E v \in Workers : Owes(pc[v], job[v], c)
  <2>1. PICK v \in Workers : Owes(pc[v], job[v], c)
    BY <1>4
  <2>2. CASE v = w
    BY <1>2, <1>3, <2>1, <2>2, OwesStep
  <2>3. CASE v # w
    <3>1. Owes(pc'[v], job'[v], c)
      BY <1>1, <2>1, <2>3
    <3> QED
      BY <3>1 DEF Settled
  <2> QED
    BY <2>2, <2>3
<1>5. ASSUME ~(\E v \in Workers : Owes(pc[v], job[v], c)), RunCommand(w),
             pc[w] \in {"strip", "fill"}, c = Head(job[w].chains)
      PROVE  pc[w] = "fill"
  <2>1. ASSUME pc[w] = "strip"
        PROVE  FALSE
    <3>1. job[w].chains # <<>> /\ job[w].chains \in Seq(Chains)
      BY <1>0, <2>1 DEF PlaceOK, IsJob
    <3>2. c \in ToSet(job[w].chains)
      BY <1>5, <3>1, HeadTailProperties, EmptySeq DEF ToSet
    <3> QED
      BY <1>5, <2>1, <3>2 DEF Owes
  <2> QED
    BY <1>5, <2>1
<1>6. CASE /\ ~(\E v \in Workers : Owes(pc[v], job[v], c))
           /\ \E v \in Workers : /\ Filling(pc[v], job[v], c)
                                 /\ Fits(live[c], job[v].cmds, rules, Standing(c))
  <2>1. PICK v \in Workers : /\ Filling(pc[v], job[v], c)
                             /\ Fits(live[c], job[v].cmds, rules, Standing(c))
    BY <1>6
  <2>2. pc[v] = "fill" /\ Head(job[v].chains) = c
    BY <2>1 DEF Filling
  <2>3. CASE v # w
    <3>1. pc[w] \notin {"strip", "fill"}
      BY <1>0, <2>2, <2>3 DEF Exclusive, Rebuilding
    <3>2. Kin(live[c], live'[c])
      BY <3>1, KinElsewhere
    <3>3. \A m \in 1..Len(job[v].cmds) : job[v].cmds[m].entry.id \in Standing(c)
      BY <2>2 DEF GenuineInv, Ready, Genuine, Standing
    <3>4. PICK cmds : cmds = job[v].cmds
      OBVIOUS
    <3>5. Fits(live'[c], cmds, rules', Standing(c)') \/ Owes(pc'[w], job'[w], c)
      BY <2>1, <3>2, <3>3, <3>4, FitsStep
    <3>6. Filling(pc'[v], job'[v], c) /\ job'[v].cmds = cmds
      BY <1>1, <2>1, <2>3, <3>4
    <3> QED
      BY <1>2, <3>5, <3>6 DEF Settled
  <2>4. CASE v = w
    <3>1. RunCommand(w) \/ ChainRebuilt(w)
      BY <2>2, <2>4, FillSteps
    <3>2. rules' = rules
      BY <3>1 DEF RunCommand, ChainRebuilt
    <3>3. CASE RunCommand(w)
      <4>1. pc'[w] = "fill" /\ job' = [job EXCEPT ![w].cmds = Tail(@)]
        BY <2>2, <2>4, <3>3 DEF RunCommand
      <4>2. PICK cmds : cmds = job[w].cmds
        OBVIOUS
      <4>3. PICK x : x = Tail(cmds)
        OBVIOUS
      <4>4. job' = [job EXCEPT ![w].cmds = x]
        BY <4>1, <4>2, <4>3
      <4>5. job'[w].cmds = x /\ job'[w].chains = job[w].chains
        BY <1>0, <4>4, OfWorker DEF IsJob, NoJob, Inv
      <4>6. /\ cmds \in Seq(Command) /\ cmds # <<>> /\ Head(cmds) \in Command
            /\ live' = Executed(Head(cmds)) /\ Head(cmds).chain = c /\ Head(cmds).op = "-A"
        BY <1>0, <2>2, <2>4, <3>3, <4>2, RunsOnItsChain
      <4>7. live'[c] = Append(live[c], Head(cmds).entry) /\ live[c] \in Seq(Entry)
        BY <1>0, <4>6, ExecutedIs
      <4>8. Fits(live'[c], x, rules, Standing(c))
        BY <2>1, <2>4, <4>2, <4>3, <4>6, <4>7, FitsMoved
      <4>9. Claimed' = Claimed
        BY <1>1, <2>2, <2>4, <4>1, ClaimedSame
      <4>10. Standing(c)' = Standing(c)
        BY <3>2, <4>9 DEF Standing
      <4>11. Filling(pc'[w], job'[w], c)
        BY <2>2, <2>4, <4>1, <4>5 DEF Filling
      <4> QED
        BY <3>2, <4>5, <4>8, <4>10, <4>11 DEF Settled
    <3>4. CASE ChainRebuilt(w)
      <4>1. job[w].cmds = <<>> /\ live' = live
        BY <3>4 DEF ChainRebuilt
      <4>2. Finish(w) \/ Goto(w, "list") \/ Goto(w, "flock")
        BY <3>4 DEF ChainRebuilt
      <4>3. pc'[w] \in {"idle", "list", "flock"}
        BY <1>0, <4>2, Goes
      <4>4. Claimed' = Claimed
        BY <1>1, <2>2, <2>4, <4>3, ClaimedSame
      <4>5. Standing(c)' = Standing(c)
        BY <3>2, <4>4 DEF Standing
      <4>6. \A u \in Workers : ~Filling(pc'[u], job'[u], c)
        BY <1>0, <1>1, <2>2, <2>4, <4>3 DEF Filling, Exclusive, Rebuilding
      <4>7. Fits(live'[c], <<>>, rules', Standing(c)')
        BY <2>1, <2>4, <3>2, <4>1, <4>5
      <4> QED
        BY <4>6, <4>7 DEF Settled
    <3> QED
      BY <3>1, <3>3, <3>4
  <2> QED
    BY <2>3, <2>4
<1>7. CASE /\ ~(\E v \in Workers : Owes(pc[v], job[v], c))
           /\ \A v \in Workers : ~Filling(pc[v], job[v], c)
           /\ Fits(live[c], <<>>, rules, Standing(c))
           /\ ~(ReloadRules(w) /\ c = Head(job[w].chains))
  <2>1. ~(RunCommand(w) /\ pc[w] \in {"strip", "fill"} /\ c = Head(job[w].chains))
    BY <1>5, <1>7 DEF Filling
  <2>2. Kin(live[c], live'[c])
    BY <2>1, KinElsewhere
  <2>3. \A m \in 1..Len(<<>>) : (<<>>)[m].entry.id \in Standing(c)
    OBVIOUS
  <2>4. Fits(live'[c], <<>>, rules', Standing(c)') \/ Owes(pc'[w], job'[w], c)
    BY <1>7, <2>2, <2>3, FitsStep
  <2>5. ~Filling(pc'[w], job'[w], c)
    <3>1. SUFFICES ASSUME pc'[w] = "fill", Head(job'[w].chains) = c
                   PROVE  FALSE
      BY DEF Filling
    <3>2. RunCommand(w) \/ ListChain(w) \/ ReloadRules(w) \/ Claim(w)
      BY <1>0, <3>1, ChainsAlone
    <3>3. ~ListChain(w) /\ ~Claim(w)
      BY <1>0, <3>1, Goes DEF ListChain, Claim
    <3>4. PICK x : job' = [job EXCEPT ![w].cmds = x]
      BY <3>2, <3>3 DEF RunCommand, ReloadRules
    <3>5. job'[w].chains = job[w].chains
      BY <1>0, <3>4, OfWorker DEF IsJob, NoJob, Inv
    <3>6. RunCommand(w) => pc[w] = "fill"
      BY <3>1 DEF RunCommand
    <3> QED
      BY <1>7, <3>1, <3>2, <3>3, <3>5, <3>6 DEF Filling
  <2>6. \A v \in Workers : ~Filling(pc'[v], job'[v], c)
    BY <1>1, <1>7, <2>5
  <2> QED
    BY <1>2, <2>4, <2>6 DEF Settled
<1> QED
  BY <1>3, <1>4, <1>6, <1>7 DEF Settled

\* Every step keeps every chain settled.
LEMMA SettleNext == OnlyRebuilds /\ NothingLost /\ SettleInv /\ [Next]_vars => SettleInv'
<1> SUFFICES ASSUME OnlyRebuilds, NothingLost, SettleInv, [Next]_vars
             PROVE  SettleInv'
  OBVIOUS
<1>0. /\ GenuineInv /\ GenuineInv' /\ RowsInv /\ RowsInv' /\ Inv
      /\ live \in [Chains -> Seq(Entry)] /\ FiniteTable(rules)
  BY GenuineNext DEF SettleInv, GenuineInv, RowsInv, TagInv, LockInv, Inv, SharedOK
<1>1. ASSUME UNCHANGED <<rules, pc, job>>, \A c \in Chains : Kin(live[c], live'[c])
      PROVE  SettleInv'
  <2>1. ASSUME NEW c \in Chains
        PROVE  Settled(c)'
    <3>1. Standing(c)' = Standing(c)
      BY <1>1 DEF Standing, Claimed
    <3>2. 0 \notin Standing(c)
      BY <1>0 DEF Standing, Wanted, Enabled, FiniteTable, IsTable
    <3>3. \A k \in DOMAIN live[c] : live[c][k].id # 0 => live[c][k].id \in Standing(c)
      BY <1>0 DEF GenuineInv, Genuine
    <3>4. ASSUME NEW cmds, Fits(live[c], cmds, rules, Standing(c)),
                 \A m \in 1..Len(cmds) : cmds[m].entry.id \in Standing(c)
          PROVE  Fits(live'[c], cmds, rules, Standing(c))
      BY <1>1, <3>2, <3>3, <3>4, FitsKept
    <3>5. ASSUME NEW v \in Workers, Filling(pc[v], job[v], c)
          PROVE  \A m \in 1..Len(job[v].cmds) : job[v].cmds[m].entry.id \in Standing(c)
      BY <1>0, <3>5 DEF GenuineInv, Ready, Genuine, Standing, Filling
    <3>6. \A m \in 1..Len(<<>>) : (<<>>)[m].entry.id \in Standing(c)
      OBVIOUS
    <3>7. CASE \E v \in Workers : Owes(pc[v], job[v], c)
      BY <1>1, <3>7 DEF Settled
    <3>8. CASE \E v \in Workers : /\ Filling(pc[v], job[v], c)
                                  /\ Fits(live[c], job[v].cmds, rules, Standing(c))
      <4>1. PICK v \in Workers : /\ Filling(pc[v], job[v], c)
                                 /\ Fits(live[c], job[v].cmds, rules, Standing(c))
        BY <3>8
      <4>2. Fits(live'[c], job[v].cmds, rules, Standing(c))
        BY <3>4, <3>5, <4>1
      <4> QED
        BY <1>1, <3>1, <4>1, <4>2 DEF Settled
    <3>9. CASE /\ \A v \in Workers : ~Filling(pc[v], job[v], c)
               /\ Fits(live[c], <<>>, rules, Standing(c))
      <4>1. Fits(live'[c], <<>>, rules, Standing(c))
        BY <3>4, <3>6, <3>9
      <4> QED
        BY <1>1, <3>1, <3>9, <4>1 DEF Settled
    <3> QED
      BY <3>7, <3>8, <3>9 DEF SettleInv, Settled
  <2> QED
    BY <1>0, <2>1 DEF SettleInv
<1>2. CASE UNCHANGED vars
  <2>1. \A c \in Chains : Kin(live[c], live'[c])
    BY <1>0, <1>2, KinSequences DEF vars
  <2> QED
    BY <1>1, <1>2, <2>1 DEF vars
<1>3. ASSUME NEW w \in Workers, Step(w)
      PROVE  SettleInv'
  BY <1>0, <1>3, SettledStep DEF SettleInv
<1>4. ASSUME NEW m \in ManualRules, ManualAppend(m[1], m[2])
      PROVE  SettleInv'
  BY <1>0, <1>1, <1>4, AppendKin DEF ManualAppend
<1>5. ASSUME NEW w \in Workers, NEW r \in Requests, Receive(w, r)
      PROVE  SettleInv'
  <2>1. /\ pc[w] = "idle" /\ pc'[w] \in {"max", "start", "flock", "lock"}
        /\ UNCHANGED <<rules, live>>
        /\ \A v \in Workers \ {w} : pc'[v] = pc[v] /\ job'[v] = job[v]
    BY <1>0, <1>5, ArrivalOf
  <2>2. Claimed' = Claimed
    BY <2>1, ClaimedSame
  <2>3. \A c : Standing(c)' = Standing(c)
    BY <2>1, <2>2 DEF Standing
  <2>4. \A c : ~Owes(pc[w], job[w], c) /\ ~Filling(pc[w], job[w], c)
    BY <2>1 DEF Owes, Filling, Scanning
  <2>5. \A c : ~Filling(pc'[w], job'[w], c)
    BY <2>1 DEF Filling
  <2>6. ASSUME NEW c \in Chains
        PROVE  Settled(c)'
    <3>1. CASE \E v \in Workers : Owes(pc[v], job[v], c)
      BY <2>1, <2>4, <3>1 DEF Settled
    <3>2. CASE \E v \in Workers : /\ Filling(pc[v], job[v], c)
                                  /\ Fits(live[c], job[v].cmds, rules, Standing(c))
      <4>1. PICK v \in Workers : /\ Filling(pc[v], job[v], c)
                                 /\ Fits(live[c], job[v].cmds, rules, Standing(c))
        BY <3>2
      <4>2. pc'[v] = pc[v] /\ job'[v] = job[v]
        BY <2>1, <2>4, <4>1
      <4> QED
        BY <2>1, <2>3, <4>1, <4>2 DEF Settled
    <3>3. CASE /\ \A v \in Workers : ~Filling(pc[v], job[v], c)
               /\ Fits(live[c], <<>>, rules, Standing(c))
      <4>1. \A v \in Workers : ~Filling(pc'[v], job'[v], c)
        BY <2>1, <2>5, <3>3
      <4> QED
        BY <2>1, <2>3, <3>3, <4>1 DEF Settled
    <3> QED
      BY <3>1, <3>2, <3>3 DEF SettleInv, Settled
  <2> QED
    BY <1>0, <2>6 DEF SettleInv
<1>6. CASE Environment
  BY <1>0, <1>4, <1>5, <1>6, NothingElse
<1> QED
  BY <1>2, <1>3, <1>6 DEF Next

\* A start-up leaves the chains as the table wants them.
LEMMA SettleInit == Init => SettleInv
<1> SUFFICES ASSUME Init
             PROVE  SettleInv
  OBVIOUS
<1>1. GenuineInv /\ FiniteTable(rules)
  BY GenuineInit, InitInv DEF Inv, SharedOK
<1>2. live = Reflection(rules) /\ \A w \in Workers : pc[w] = "idle"
  BY DEF Init
<1>3. ASSUME NEW c \in Chains
      PROVE  Settled(c)
  <2> DEFINE s == live[c]
             ids == WantedIds(rules, c)
  <2>1. Standing(c) \subseteq Wanted(rules, c)
    BY DEF Standing
  <2>2. PICK n \in Nat :
           /\ \A k \in DOMAIN s : s[k].id # 0 =>
                 k \in Nat /\ k - n \in 1..Len(ids) /\ s[k].id = ids[k - n]
           /\ \A m \in 1..Len(ids) : m + n \in DOMAIN s /\ s[m + n].id = ids[m]
    BY <1>1, <1>2, ReflectionTags
  <2>3. /\ \A x \in Wanted(rules, c) : \E k \in 1..Len(ids) : ids[k] = x
        /\ \A k, m \in 1..Len(ids) : k < m => Before(rules, ids[k], ids[m])
    BY <1>1, FillIs
  <2> HIDE DEF s, ids
  <2>4. \A i \in Standing(c) : \E k \in DOMAIN s : s[k].id = i
    BY <2>1, <2>2, <2>3
  <2>5. ASSUME NEW j \in DOMAIN s, NEW k \in DOMAIN s, j < k, s[j].id # 0, s[k].id # 0
        PROVE  Before(rules, s[j].id, s[k].id)
    <3>1. j - n < k - n
      BY <2>2, <2>5
    <3> QED
      BY <2>2, <2>3, <2>5, <3>1
  <2>6. Fits(s, <<>>, rules, Standing(c))
    BY <2>4, <2>5 DEF Fits
  <2>7. \A w \in Workers : ~Filling(pc[w], job[w], c)
    BY <1>2 DEF Filling
  <2> QED
    BY <2>6, <2>7 DEF Settled, s
<1> QED
  BY <1>1, <1>3 DEF SettleInv

-----------------------------------------------------------------------------
(* What a settled chain holds. *)

\* Sequence u lists the elements of S, each once, in the order R.
Lists(u, S, R) ==
    /\ u \in Seq(S)
    /\ \A x \in S : \E k \in 1..Len(u) : u[k] = x
    /\ \A k, m \in 1..Len(u) : k < m => <<u[k], u[m]>> \in R

\* The place of an element in such a list is the number of those before it.
LEMMA PlaceIsRank ==
  ASSUME NEW S, IsFiniteSet(S), NEW R, StrictOrder(R, S), NEW u, Lists(u, S, R)
  PROVE  /\ Len(u) = Cardinality(S)
         /\ \A k \in 1..Len(u) : Rank(S, R, u[k]) = k - 1
<1>0. /\ Len(u) \in Nat /\ \A k \in 1..Len(u) : u[k] \in S
      /\ \A k, m \in 1..Len(u) : u[k] = u[m] => k = m
  <2>1. Len(u) \in Nat /\ \A k \in 1..Len(u) : u[k] \in S
    BY DEF Lists
  <2>2. \A k, m \in 1..Len(u) : k < m => u[k] # u[m]
    BY <2>1 DEF Lists, StrictOrder
  <2> QED
    BY <2>1, <2>2
<1>1. ASSUME NEW n \in Nat, n <= Len(u), NEW P, \A k \in 1..n : u[k] \in P,
             \A x \in P : \E k \in 1..n : u[k] = x
      PROVE  Cardinality(P) = n
  <2> DEFINE f == [k \in 1..n |-> u[k]]
  <2>1. f \in Surjection(1..n, P)
    <3>1. f \in [1..n -> P] /\ \A x \in P : \E k \in 1..n : f[k] = x
      BY <1>1
    <3> QED
      BY <3>1, Fun_IsSurj
  <2>2. f \in Injection(1..n, P)
    <3>1. f \in [1..n -> P] /\ \A k, m \in 1..n : f[k] = f[m] => k = m
      BY <1>0, <1>1
    <3> QED
      BY <3>1, Fun_IsInj
  <2>3. IsFiniteSet(1..n) /\ Cardinality(1..n) = n
    BY <1>1, FS_Interval
  <2> HIDE DEF f
  <2> QED
    BY <2>1, <2>2, <2>3, FS_Surjection
<1>2. Len(u) = Cardinality(S)
  <2>1. \A x \in S : \E k \in 1..Len(u) : u[k] = x
    BY DEF Lists
  <2>2. Len(u) <= Len(u)
    BY <1>0
  <2> QED
    BY <1>0, <1>1, <2>1, <2>2
<1>3. ASSUME NEW k \in 1..Len(u)
      PROVE  Rank(S, R, u[k]) = k - 1
  <2> DEFINE P == {j \in S : <<j, u[k]>> \in R}
  <2>1. k - 1 \in Nat /\ k - 1 <= Len(u)
    BY <1>0
  <2>2. \A m \in 1..(k - 1) : m \in 1..Len(u) /\ m < k
    BY <1>0
  <2>3. \A m \in 1..(k - 1) : u[m] \in P
    BY <1>0, <2>2 DEF Lists
  <2>4. ASSUME NEW x \in P
        PROVE  \E m \in 1..(k - 1) : u[m] = x
    <3>1. PICK m \in 1..Len(u) : u[m] = x
      BY DEF Lists
    <3>2. m # k
      BY <1>0, <2>4, <3>1 DEF StrictOrder
    <3>3. ~(k < m)
      BY <1>0, <2>4, <3>1 DEF StrictOrder, Lists
    <3>4. m \in 1..(k - 1)
      BY <1>0, <3>2, <3>3
    <3> QED
      BY <3>1, <3>4
  <2>5. Rank(S, R, u[k]) = Cardinality(P)
    BY DEF Rank
  <2> HIDE DEF P
  <2> QED
    BY <1>1, <2>1, <2>3, <2>4, <2>5
<1> QED
  BY <1>2, <1>3

\* So there is one such list.
LEMMA ListsOnce ==
  ASSUME NEW S, IsFiniteSet(S), NEW R, TotalOrder(R, S),
         NEW u, Lists(u, S, R), NEW v, Lists(v, S, R)
  PROVE  Len(u) = Len(v) /\ \A k \in 1..Len(u) : u[k] = v[k]
<1>1. StrictOrder(R, S)
  BY DEF TotalOrder
<1>2. /\ Len(u) = Cardinality(S) /\ Len(v) = Cardinality(S)
      /\ \A k \in 1..Len(u) : Rank(S, R, u[k]) = k - 1
      /\ \A k \in 1..Len(v) : Rank(S, R, v[k]) = k - 1
  BY <1>1, PlaceIsRank
<1>3. ASSUME NEW k \in 1..Len(u)
      PROVE  u[k] = v[k]
  <2>1. u[k] \in S /\ v[k] \in S
    BY <1>2 DEF Lists
  <2>2. Rank(S, R, u[k]) = Rank(S, R, v[k]) /\ Rank(S, R, u[k]) \in Int
    BY <1>2
  <2>3. ~(Rank(S, R, u[k]) < Rank(S, R, v[k])) /\ ~(Rank(S, R, v[k]) < Rank(S, R, u[k]))
    BY <2>2
  <2>4. <<u[k], v[k]>> \notin R /\ <<v[k], u[k]>> \notin R
    BY <1>1, <2>1, <2>3, RankGrows
  <2> QED
    BY <2>1, <2>4 DEF TotalOrder
<1> QED
  BY <1>2, <1>3

\* The rows of a table are totally ordered by position and id.
LEMMA RowsOrdered ==
  ASSUME NEW t, IsTable(t), NEW S, S \subseteq DOMAIN t
  PROVE  TotalOrder({p \in S \X S : Before(t, p[1], p[2])}, S)
<1> DEFINE R == {p \in S \X S : Before(t, p[1], p[2])}
<1>1. \A x, y \in S : <<x, y>> \in R <=> Before(t, x, y)
  OBVIOUS
<1>2. \A x \in S : x \in Int /\ t[x].pos \in Int
  BY DEF IsTable, Row
<1> HIDE DEF R
<1>3. /\ \A x \in S : ~Before(t, x, x)
      /\ \A x, y, z \in S : Before(t, x, y) /\ Before(t, y, z) => Before(t, x, z)
      /\ \A x, y \in S : x = y \/ Before(t, x, y) \/ Before(t, y, x)
  BY <1>2 DEF Before
<1>4. TotalOrder(R, S)
  BY <1>1, <1>3, Zenon DEF TotalOrder, StrictOrder
<1> QED
  BY <1>4 DEF R

\* A chain that lists every wanted row once, in order, with the row's own rule,
\* is what a rebuild writes.
LEMMA ListedIs ==
  ASSUME NEW t, FiniteTable(t), NEW c \in Chains, NEW a \in Seq(Entry),
         \A k \in 1..Len(a) : Genuine(a[k], Wanted(t, c), t),
         \A i \in Wanted(t, c) : \E k \in 1..Len(a) : a[k].id = i,
         \A k, m \in 1..Len(a) : k < m => Before(t, a[k].id, a[m].id)
  PROVE  a = OrderedEntries(t, c)
<1>0a. /\ Wanted(t, c) \subseteq DOMAIN t /\ IsFiniteSet(Wanted(t, c))
       /\ WantedIds(t, c) \in Seq(Wanted(t, c))
  BY FillIs
<1>0b. \A x \in Wanted(t, c) : \E k \in 1..Len(WantedIds(t, c)) : WantedIds(t, c)[k] = x
  BY FillIs
<1>0c. \A k, m \in 1..Len(WantedIds(t, c)) :
          k < m => Before(t, WantedIds(t, c)[k], WantedIds(t, c)[m])
  BY FillIs
<1> DEFINE S == Wanted(t, c)
           R == {p \in S \X S : Before(t, p[1], p[2])}
           u == [k \in 1..Len(a) |-> a[k].id]
           ids == WantedIds(t, c)
<1>0. /\ S \subseteq DOMAIN t /\ IsFiniteSet(S) /\ ids \in Seq(S)
      /\ \A x \in S : \E k \in 1..Len(ids) : ids[k] = x
      /\ \A k, m \in 1..Len(ids) : k < m => Before(t, ids[k], ids[m])
  BY <1>0a, <1>0b, <1>0c
<1>1. /\ S \subseteq DOMAIN t /\ IsFiniteSet(S) /\ ids \in Seq(S)
      /\ \A x \in S : \E k \in 1..Len(ids) : ids[k] = x
      /\ \A k, m \in 1..Len(ids) : k < m => Before(t, ids[k], ids[m])
      /\ \A i \in S : ~IsBlock(t[i].shape)
  <2>1. \A i \in S : ~IsBlock(t[i].shape)
    BY BlocksUnwanted, <1>0
  <2> QED
    BY <1>0, <2>1
<1>2. TotalOrder(R, S)
  BY <1>1, RowsOrdered DEF FiniteTable
<1>3. \A x, y \in S : <<x, y>> \in R <=> Before(t, x, y)
  OBVIOUS
<1>4. Len(a) \in Nat /\ a \in [1..Len(a) -> Entry] /\ \A k \in 1..Len(a) : u[k] = a[k].id /\ a[k].id \in S
  BY DEF Genuine
<1>5. u \in Seq(S) /\ Len(u) = Len(a)
  BY <1>4
<1>6. \A k \in 1..Len(ids) : ids[k] \in S
  BY <1>1
<1>7. OrderedEntries(t, c) = [k \in DOMAIN ids |-> LiveEntry(ids[k], t[ids[k]].shape)]
  BY DEF OrderedEntries
<1>8. DOMAIN ids = 1..Len(ids)
  BY <1>1
<1> HIDE DEF S, R, u, ids
<1>9. Lists(u, S, R)
  <2>1. \A x \in S : \E k \in 1..Len(u) : u[k] = x
    BY <1>4, <1>5 DEF S
  <2>2. \A k, m \in 1..Len(u) : k < m => <<u[k], u[m]>> \in R
    BY <1>3, <1>4, <1>5
  <2> QED
    BY <1>5, <2>1, <2>2 DEF Lists
<1>10. Lists(ids, S, R)
  BY <1>1, <1>3, <1>6 DEF Lists
<1>11. Len(a) = Len(ids) /\ \A k \in 1..Len(a) : a[k].id = ids[k]
  BY <1>1, <1>2, <1>4, <1>5, <1>9, <1>10, ListsOnce
<1>12. ASSUME NEW k \in 1..Len(a)
       PROVE  a[k] = LiveEntry(ids[k], t[ids[k]].shape)
  <2>1. a[k] \in Entry /\ a[k].id = ids[k] /\ a[k].shape = t[ids[k]].shape /\ ~IsBlock(t[ids[k]].shape)
    BY <1>1, <1>4, <1>11 DEF Genuine
  <2> QED
    BY <2>1 DEF Entry, LiveEntry
<1> QED
  BY <1>4, <1>7, <1>8, <1>11, <1>12

\* A chain whose tagged entries are rows it should show, every one and in order,
\* has exactly the tagged entries that a rebuild writes.
LEMMA TaggedIs ==
  ASSUME NEW t, FiniteTable(t), NEW c \in Chains, NEW s \in Seq(Entry),
         \A k \in DOMAIN s : s[k].id # 0 => Genuine(s[k], Wanted(t, c), t),
         Fits(s, <<>>, t, Wanted(t, c))
  PROVE  Selected(s, {k \in DOMAIN s : s[k].id # 0}) = OrderedEntries(t, c)
<1> DEFINE I == {k \in DOMAIN s : s[k].id # 0}
           a == Selected(s, I)
           n == Cardinality(I)
<1>1. \A k \in I : k \in DOMAIN s /\ Genuine(s[k], Wanted(t, c), t)
  OBVIOUS
<1>2. \A i \in Wanted(t, c) : \E k \in I : s[k].id = i
  <2>1. \A i \in Wanted(t, c) : i # 0
    BY DEF Wanted, Enabled, FiniteTable, IsTable
  <2>2. \A i \in Wanted(t, c) : \E k \in DOMAIN s : s[k].id = i
    BY DEF Fits
  <2> QED
    BY <2>1, <2>2
<1>3. \A j, k \in I : j < k => Before(t, s[j].id, s[k].id)
  BY DEF Fits
<1>4. I \subseteq DOMAIN s
  OBVIOUS
<1> HIDE DEF I
<1>5. a \in Seq(Entry) /\ Len(a) = n /\ n \in Nat
  BY <1>4, SelectedOrder
<1>6. \A k \in 1..Len(a) : \E i \in I : a[k] = s[i]
  BY <1>4, SelectedElements
<1>7. \A i \in I : \E k \in 1..Len(a) : a[k] = s[i]
  BY <1>4, SelectedElements
<1>8. PICK order \in [1..n -> I] : Picks(s, I, order)
  BY <1>4, SelectedOrder
<1>9. /\ \A k \in 1..n : a[k] = s[order[k]]
      /\ \A k, m \in 1..n : k < m => order[k] < order[m]
  BY <1>8 DEF Picks
<1> HIDE DEF a, n
<1>10. \A k, m \in 1..Len(a) : k < m => Before(t, a[k].id, a[m].id)
  BY <1>3, <1>5, <1>9
<1>11. \A k \in 1..Len(a) : Genuine(a[k], Wanted(t, c), t)
  BY <1>1, <1>6
<1>12. \A i \in Wanted(t, c) : \E k \in 1..Len(a) : a[k].id = i
  BY <1>2, <1>7
<1>13. a = OrderedEntries(t, c)
  BY <1>5, <1>10, <1>11, <1>12, ListedIs
<1> QED
  BY <1>13 DEF a, I

\* With nothing in flight, the invariant leaves every chain as a rebuild
\* writes it.
LEMMA SettledWhenQuiet == SettleInv => SettledChains
<1> SUFFICES ASSUME SettleInv, Quiet, NEW c \in Chains
             PROVE  Owned(c) = OrderedEntries(rules, c)
  BY DEF SettledChains
<1>0. /\ GenuineInv /\ Settled(c) /\ FiniteTable(rules) /\ live[c] \in Seq(Entry)
      /\ \A w \in Workers : pc[w] = "idle"
  BY OfWorker DEF SettleInv, GenuineInv, RowsInv, TagInv, LockInv, Inv, SharedOK, Quiet
<1>1. Standing(c) = Wanted(rules, c)
  <2>1. Claimed = {}
    BY <1>0 DEF Claimed
  <2> QED
    BY <2>1 DEF Standing
<1>2. Fits(live[c], <<>>, rules, Wanted(rules, c))
  <2>1. \A w \in Workers : ~Owes(pc[w], job[w], c) /\ ~Filling(pc[w], job[w], c)
    BY <1>0 DEF Owes, Filling, Scanning
  <2> QED
    BY <1>0, <1>1, <2>1 DEF Settled
<1>3. PICK s \in Seq(Entry) : s = live[c]
  BY <1>0
<1>4. \A k \in DOMAIN s : s[k].id # 0 => Genuine(s[k], Wanted(rules, c), rules)
  BY <1>0, <1>1, <1>3 DEF GenuineInv
<1>5. Selected(s, {k \in DOMAIN s : s[k].id # 0}) = OrderedEntries(rules, c)
  BY <1>0, <1>2, <1>3, <1>4, TaggedIs
<1> QED
  BY <1>3, <1>5 DEF Owned

\* reorder, sync_all, block and unblock, discover_cli_rules and the rebuilds
\* they start, in any number and interleaving, and whatever is typed by hand in
\* between: once none is in flight, each chain holds the enabled rows of the
\* table under their tags, in (position, id) order.  No command fails, nothing
\* is deleted by hand, no worker is killed.
THEOREM SettlesAll == OnlyRebuilds /\ NothingLost /\ Spec => []SettledChains
<1>1. OnlyRebuilds /\ NothingLost /\ Spec => []SettleInv
  <2> SUFFICES ASSUME OnlyRebuilds, NothingLost
               PROVE  Spec => []SettleInv
    BY DEF OnlyRebuilds, NothingLost
  <2>1. SettleInv /\ [Next]_vars => SettleInv'
    BY SettleNext
  <2> QED
    BY <2>1, SettleInit, PTL DEF Spec
<1> QED
  BY <1>1, SettledWhenQuiet, PTL

-----------------------------------------------------------------------------
(* The administrator and the live INPUT chain. *)

\* What the code needs to keep a's traffic clear of all but the tagged rules:
\* blocks are requested from a (the check protects the requester), no block is
\* of a's own client at the start, and no rule typed into INPUT matches a.
OnlyAdmin(a) ==
    /\ OnlyEditor(a) /\ a # None
    /\ \A r \in Requests : r.op = "block" => r.by = a
    /\ \A t \in InitTables : \A i \in DOMAIN t : IsBlock(t[i].shape) => a \notin t[i].shape.hits
    /\ \A m \in ManualRules : m[1] = "INPUT" => a \notin m[2].hits

\* No block of table t is of a's client.
BlocksPass(t, a) == \A i \in DOMAIN t : IsBlock(t[i].shape) => a \notin t[i].shape.hits

\* No command is about a rule that matches a.
CommandsPass(cmds, a) == \A k \in 1..Len(cmds) : a \notin cmds[k].entry.shape.hits

\* What a handler read and is about to run spares a.
Spares(p, j, a) ==
    /\ p \in {"apply", "sync", "unblock"} => CommandsPass(j.cmds, a)
    /\ p = "decide" => BlocksPass(j.snap, a)

\* The untagged rules of the live INPUT chain spare a.
LivePasses(lv, a) ==
    \A k \in DOMAIN lv["INPUT"] : lv["INPUT"][k].id = 0 => a \notin lv["INPUT"][k].shape.hits

\* Only tagged rules of the live INPUT chain match a.
SpareInv(a) ==
    /\ SettleInv /\ AccessInv(a)
    /\ BlocksPass(rules, a)
    /\ LivePasses(live, a)
    /\ \A w \in Workers : Spares(pc[w], job[w], a)

\* The commands for a rule that does not match a.
LEMMA HalvesPass ==
  ASSUME NEW op, NEW id, NEW shape \in Shape, NEW a, a \notin shape.hits
  PROVE  CommandsPass(HalfCommands(op, id, shape), a)
<1>1. \A k \in 1..Len(HalfCommands(op, id, shape)) :
         HalfCommands(op, id, shape)[k].entry = LiveEntry(id, shape)
  BY HalfCommandsAre
<1>2. LiveEntry(id, shape).shape = shape
  BY DEF LiveEntry
<1> QED
  BY <1>1, <1>2 DEF CommandsPass

\* The commands of a synchronisation.
LEMMA SyncPasses ==
  ASSUME NEW t, FiniteTable(t), NEW a, BlocksPass(t, a)
  PROVE  CommandsPass(SyncCommands(t), a)
<1>1. ASSUME NEW k \in 1..Len(SyncCommands(t))
      PROVE  a \notin SyncCommands(t)[k].entry.shape.hits
  <2>1. PICK i \in Enabled(t) : IsBlock(t[i].shape) /\ SyncCommands(t)[k].entry = LiveEntry(i, t[i].shape)
    BY SyncType
  <2>2. LiveEntry(i, t[i].shape).shape = t[i].shape /\ i \in DOMAIN t
    BY DEF LiveEntry, Enabled
  <2> QED
    BY <2>1, <2>2 DEF BlocksPass
<1> QED
  BY <1>1 DEF CommandsPass

\* A block that commits spares its requester.
LEMMA BlockedShape ==
  ASSUME Inv, Inv', NEW a, OnlyAdmin(a), NEW w \in Workers, Blocked(w)
  PROVE  /\ job[w].req.shape \in Shape /\ a \notin job[w].req.shape.hits
         /\ IsBlock(job[w].req.shape)
         /\ rules' = With(rules, nextId, [shape |-> job[w].req.shape, enabled |-> TRUE,
                                          pos |-> NextPosition(rules)])
<1> DEFINE shape == job[w].req.shape
<1>1. /\ pc[w] = "decide" /\ job[w].req.op = "block" /\ IsBlock(shape)
      /\ rules' = With(rules, nextId, [shape |-> shape, enabled |-> TRUE,
                                       pos |-> NextPosition(rules)])
  BY DEF Blocked, CommitInsert, Commit
<1>2. job[w].req \in Requests
  BY <1>1, OfWorker DEF PlaceOK
<1>3. a \notin shape.hits
  BY <1>1, <1>2 DEF Blocked, OnlyAdmin
<1>4. nextId \in DOMAIN rules' /\ rules'[nextId].shape = shape
  BY <1>1 DEF With
<1>5. rules'[nextId] \in Row
  BY <1>4 DEF Inv, SharedOK, FiniteTable, IsTable
<1> QED
  BY <1>1, <1>3, <1>4, <1>5 DEF Row

\* A step writes no block of a's client into the table.
LEMMA RowsPass ==
  ASSUME OnlyRebuilds, NothingLost, NEW a, OnlyAdmin(a), SpareInv(a), RowsInv',
         NEW w \in Workers, Step(w)
  PROVE  BlocksPass(rules', a)
<1>0. RowsInv /\ Inv /\ Inv' /\ FiniteTable(rules)
  BY OfWorker DEF SpareInv, SettleInv, GenuineInv, RowsInv, TagInv, LockInv
<1>1. Writes(w) /\ pc[w] \notin Unchecked
  BY <1>0, StepEdits DEF SpareInv, AccessInv, Careful
<1>2. ASSUME NEW i \in DOMAIN rules', i \in DOMAIN rules
      PROVE  IsBlock(rules'[i].shape) => a \notin rules'[i].shape.hits
  BY <1>1, <1>2 DEF Writes, SpareInv, BlocksPass
<1>3. CASE Blocked(w)
  <2>1. /\ a \notin job[w].req.shape.hits
        /\ rules' = With(rules, nextId, [shape |-> job[w].req.shape, enabled |-> TRUE,
                                         pos |-> NextPosition(rules)])
    BY <1>0, <1>3, BlockedShape
  <2>2. rules'[nextId].shape = job[w].req.shape /\ \A i \in DOMAIN rules' : i \in DOMAIN rules \/ i = nextId
    BY <2>1 DEF With
  <2> QED
    BY <1>2, <2>1, <2>2 DEF BlocksPass
<1>4. CASE ~Blocked(w)
  <2>1. CASE Reordered(w)
    <3>1. PICK id \in DOMAIN job[w].snap : \E row \in Row : rules' = Updated(rules, id, row)
      BY <2>1 DEF Reordered
    <3>2. PICK row \in Row : rules' = Updated(rules, id, row)
      BY <3>1
    <3>3. DOMAIN rules' = DOMAIN rules
      BY <1>0, <3>2, TableUpdated
    <3> QED
      BY <1>2, <3>3 DEF BlocksPass
  <2>2. CASE UnblockCommit(w)
    BY <1>2, <2>2 DEF UnblockCommit, Without, BlocksPass
  <2>3. CASE Discovers(w)
    BY <1>1, <1>2, <2>3 DEF Discovers, Snapshot, ScanChain, Adopt, Claim, DropAdopted,
         ChainScanned, AllScanned, Unchecked, BlocksPass
  <2>4. CASE Lock(w) \/ LockTimeout(w) \/ Read(w) \/ Declined(w) \/ Unblocking(w)
               \/ RunCommand(w) \/ Failed(w) \/ Applied(w)
    BY <1>2, <2>4 DEF Lock, LockTimeout, Read, Declined, Decline, Unblocking, RunCommand,
                     Failed, FailCommand, Applied, BlocksPass
  <2>5. CASE Rebuilds(w)
    BY <1>2, <2>5 DEF Rebuilds, SyncStart, SyncBlocksDone, TakeFlock, ListChain, ReloadRules,
                     ChainRebuilt, BlocksPass
  <2> QED
    BY <1>0, <1>4, <2>1, <2>2, <2>3, <2>4, <2>5, RebuildSteps
<1> QED
  BY <1>3, <1>4

\* Whatever a handler gets ready in a step spares a.
LEMMA SparesStep ==
  ASSUME OnlyRebuilds, NothingLost, NEW a, OnlyAdmin(a), SpareInv(a), RowsInv',
         NEW w \in Workers, Step(w)
  PROVE  Spares(pc'[w], job'[w], a)
<1> DEFINE Plain == Places \ {"apply", "sync", "unblock", "decide"}
<1>0. /\ RowsInv /\ Inv /\ Inv' /\ FiniteTable(rules) /\ BlocksPass(rules, a)
      /\ Spares(pc[w], job[w], a) /\ pc[w] \notin Unchecked /\ pc[w] # "undo" /\ IsJob(job[w])
  BY OfWorker DEF SpareInv, SettleInv, GenuineInv, RowsInv, TagInv, LockInv, AccessInv, Careful,
                  Unchecked
<1>1. ASSUME pc'[w] \in Plain
      PROVE  Spares(pc'[w], job'[w], a)
  BY <1>1 DEF Spares
<1>2. {"idle", "read", "start", "flock", "list", "strip", "fill", "snapshot", "scan", "adopt",
       "claim", "drop"} \subseteq Plain
  BY DEF Places
<1> HIDE DEF Plain
<1>3. Finish(w) => pc'[w] \in Plain
  BY <1>0, <1>2, Goes
<1>4. CASE Lock(w) \/ LockTimeout(w) \/ Declined(w) \/ UnblockCommit(w) \/ Applied(w)
             \/ Reordered(w)
  <2>1. Finish(w) \/ Goto(w, "read") \/ Goto(w, "flock")
    BY <1>4 DEF Lock, LockTimeout, Declined, Decline, UnblockCommit, Applied, Reordered
  <2> QED
    BY <1>0, <1>1, <1>2, <1>3, <2>1, Goes
<1>5. CASE Read(w)
  <2>1. job' = [job EXCEPT ![w].snap = rules] /\ Goto(w, "decide")
    BY <1>5 DEF Read
  <2>2. job'[w].snap = rules
    BY <1>0, <2>1, OfWorker DEF IsJob, NoJob, Inv
  <2>3. pc'[w] = "decide"
    BY <1>0, <2>1, Goes
  <2> QED
    BY <1>0, <2>2, <2>3 DEF Spares
<1>6. CASE Blocked(w)
  <2>1. pc'[w] = "apply" /\ job'[w].cmds = Apply(nextId, job[w].req.shape)
    BY <1>0, <1>6, LockCommit DEF Blocked, RowsInv, TagInv
  <2>2. CommandsPass(Apply(nextId, job[w].req.shape), a)
    BY <1>0, <1>6, BlockedShape, HalvesPass DEF Apply
  <2> QED
    BY <2>1, <2>2 DEF Spares
<1>7. CASE Unblocking(w)
  <2> DEFINE t == job[w].snap
  <2>1. PICK i \in DOMAIN t : /\ IsBlock(t[i].shape)
                              /\ job' = [job EXCEPT ![w].id = i, ![w].cmds = Unapply(i, t[i].shape)]
    BY <1>7 DEF Unblocking
  <2>2. PICK x : x = Unapply(i, t[i].shape)
    OBVIOUS
  <2>3. job'[w].cmds = x
    BY <1>0, <2>1, <2>2, OfWorker DEF IsJob, NoJob, Inv
  <2>4. pc'[w] = "unblock" /\ pc[w] = "decide"
    BY <1>0, <1>7, Goes DEF Unblocking
  <2>5. FiniteTable(t)
    BY <1>0, <2>4, OfWorker DEF Covers
  <2>6. t[i].shape \in Shape /\ a \notin t[i].shape.hits
    BY <1>0, <2>1, <2>4, <2>5 DEF FiniteTable, IsTable, Row, Spares, BlocksPass
  <2>7. CommandsPass(x, a)
    BY <2>2, <2>6, HalvesPass DEF Unapply
  <2> QED
    BY <2>3, <2>4, <2>7 DEF Spares
<1>8. CASE RunCommand(w)
  <2> DEFINE cmds == job[w].cmds
  <2>1. /\ pc[w] \in Running /\ cmds # <<>> /\ pc' = pc
        /\ job' = [job EXCEPT ![w].cmds = Tail(cmds)]
    BY <1>8 DEF RunCommand
  <2>2. cmds \in Seq(Command)
    BY <1>0 DEF IsJob
  <2>3. PICK x : x = Tail(cmds)
    OBVIOUS
  <2>4. job'[w].cmds = x
    BY <1>0, <2>1, <2>3, OfWorker DEF IsJob, NoJob, Inv
  <2>5. \A k \in 1..Len(x) : \E m \in 1..Len(cmds) : x[k] = cmds[m]
    <3> HIDE DEF cmds
    <3> QED BY <2>1, <2>2, <2>3, OnTail
  <2>6. CommandsPass(cmds, a) => CommandsPass(x, a)
    BY <2>5 DEF CommandsPass
  <2>7. pc'[w] = pc[w] /\ pc[w] # "decide"
    BY <2>1 DEF Running
  <2> QED
    BY <1>0, <2>4, <2>6, <2>7 DEF Spares
<1>9. CASE Failed(w)
  <2>1. pc[w] \in {"sync", "unblock", "strip", "fill"}
    BY <1>9 DEF Failed
  <2>2. ASSUME AbortRebuild(w)
        PROVE  pc'[w] \in Plain
    BY <1>0, <1>2, <1>3, <2>2, Goes DEF AbortRebuild
  <2>3. ASSUME pc[w] = "sync", pc' = pc,
               job' = [job EXCEPT ![w].cmds = SubSeq(@, 2 + Head(job[w].cmds).skip, Len(@))]
        PROVE  Spares(pc'[w], job'[w], a)
    <3> DEFINE cmds == job[w].cmds
               n == 2 + Head(cmds).skip
    <3>1. cmds \in Seq(Command) /\ cmds # <<>>
      BY <1>0, <1>9 DEF IsJob, Failed, FailCommand
    <3>2. Head(cmds) \in Command
      BY <3>1, HeadTailProperties
    <3>3. n \in Nat /\ n >= 1
      BY <3>2 DEF Command
    <3>4. PICK x : x = SubSeq(cmds, n, Len(cmds))
      OBVIOUS
    <3>5. job'[w].cmds = x
      <4>1. job' = [job EXCEPT ![w].cmds = x]
        BY <2>3, <3>4
      <4>2. w \in DOMAIN job /\ DOMAIN job[w] = DOMAIN NoJob
        BY <1>0, JobFields
      <4> QED
        BY <4>1, <4>2 DEF NoJob
    <3> HIDE DEF n, cmds
    <3>6. \A k \in 1..Len(x) : k + n - 1 \in 1..Len(cmds) /\ x[k] = cmds[k + n - 1]
      BY <3>1, <3>3, <3>4
    <3>7. CommandsPass(cmds, a) => CommandsPass(x, a)
      BY <3>6 DEF CommandsPass
    <3> QED
      BY <1>0, <2>3, <3>5, <3>7 DEF Spares, cmds
  <2> QED
    BY <1>1, <1>3, <1>9, <2>1, <2>2, <2>3 DEF Failed, FailCommand
<1>10. CASE Rebuilds(w)
  <2>1. CASE SyncStart(w)
    <3>1. PICK x : x = SyncCommands(rules)
      OBVIOUS
    <3>2. PICK order : job' = [job EXCEPT ![w].cmds = x, ![w].chains = order]
      BY <2>1, <3>1 DEF SyncStart
    <3>3. job'[w].cmds = x
      BY <1>0, <3>2, OfWorker DEF IsJob, NoJob, Inv
    <3>4. pc'[w] = "sync"
      BY <1>0, <2>1, Goes DEF SyncStart
    <3>5. CommandsPass(x, a)
      BY <1>0, <3>1, SyncPasses
    <3> QED
      BY <3>3, <3>4, <3>5 DEF Spares
  <2>2. ASSUME ~SyncStart(w)
        PROVE  pc'[w] \in Plain
    <3>1. Finish(w) \/ \E p : p \in {"flock", "snapshot", "list", "strip", "fill"} /\ Goto(w, p)
      BY <1>10, <2>2 DEF Rebuilds, SyncBlocksDone, TakeFlock, ListChain, ReloadRules, ChainRebuilt
    <3> QED
      BY <1>0, <1>2, <1>3, <3>1, Goes
  <2> QED
    BY <1>1, <2>1, <2>2
<1>11. ~Discovers(w)
  BY <1>0 DEF Discovers, Snapshot, ScanChain, Adopt, Claim, DropAdopted, ChainScanned, AllScanned,
              Unchecked
<1> QED
  BY <1>0, <1>4, <1>5, <1>6, <1>7, <1>8, <1>9, <1>10, <1>11, RebuildSteps

\* One command adds nothing untagged that matches a.
LEMMA ExecutedPasses ==
  ASSUME NEW s \in Seq(Entry), NEW u, NEW e \in Entry, NEW a,
         \A k \in DOMAIN s : s[k].id = 0 => a \notin s[k].shape.hits,
         \/ (u = Append(s, e) \/ u = <<e>> \o s) /\ (e.id = 0 => a \notin e.shape.hits)
         \/ e \in ToSet(s) /\ u = RemoveFirst(s, e)
  PROVE  \A k \in DOMAIN u : u[k].id = 0 => a \notin u[k].shape.hits
<1>0. Len(s) \in Nat /\ DOMAIN s = 1..Len(s)
  OBVIOUS
<1>1. CASE e \in ToSet(s) /\ u = RemoveFirst(s, e)
  <2>1. PICK n \in 1..Len(s) : u = RemoveAt(s, n)
    BY <1>1, RemoveFirstIs
  <2>2. /\ u \in Seq(Entry) /\ Len(u) = Len(s) - 1
        /\ \A k \in 1..Len(s) - 1 : u[k] = IF k < n THEN s[k] ELSE s[k + 1]
    BY <2>1, RemoveAtIs
  <2>3. DOMAIN u = 1..Len(s) - 1
    BY <2>2
  <2>4. ASSUME NEW k \in DOMAIN u
        PROVE  \E m \in DOMAIN s : u[k] = s[m]
    <3> DEFINE n1 == Len(s)
    <3>1. k \in 1..n1 - 1 /\ n1 \in Nat
      BY <1>0, <2>3
    <3>2. DOMAIN s = 1..n1 /\ u[k] = IF k < n THEN s[k] ELSE s[k + 1]
      BY <1>0, <2>2, <3>1
    <3> HIDE DEF n1
    <3>3. k \in 1..n1 /\ k + 1 \in 1..n1
      BY <3>1
    <3> QED
      BY <3>2, <3>3
  <2> QED
    BY <2>4
<1>2. CASE u = Append(s, e) /\ (e.id = 0 => a \notin e.shape.hits)
  <2>1. \A k \in DOMAIN u : u[k] = e \/ \E m \in DOMAIN s : u[k] = s[m]
    BY <1>0, <1>2
  <2> QED
    BY <1>2, <2>1
<1>3. CASE u = <<e>> \o s /\ (e.id = 0 => a \notin e.shape.hits)
  <2>1. \A k \in DOMAIN u : u[k] = e \/ \E m \in DOMAIN s : u[k] = s[m]
    <3>1. <<e>> \in Seq(Entry) /\ Len(<<e>>) = 1 /\ <<e>>[1] = e
      OBVIOUS
    <3>2. /\ u \in Seq(Entry) /\ Len(u) = 1 + Len(s)
          /\ \A m \in 1..1 + Len(s) : u[m] = IF m <= 1 THEN <<e>>[m] ELSE s[m - 1]
      BY <1>3, <3>1, ConcatIs, ConcatProperties
    <3> QED
      BY <1>0, <3>1, <3>2
  <2> QED
    BY <1>3, <2>1
<1> QED
  BY <1>1, <1>2, <1>3

\* A step adds no untagged rule that matches a.
LEMMA LiveStays ==
  ASSUME OnlyRebuilds, NothingLost, NEW a, SpareInv(a), NEW w \in Workers, Step(w)
  PROVE  LivePasses(live', a)
<1>0. /\ RowsInv /\ LockInv /\ Inv /\ Spares(pc[w], job[w], a) /\ pc[w] \notin Unchecked
      /\ IsJob(job[w]) /\ Shaped(pc[w], job[w]) /\ Follows(pc[w], job[w], rules, nextId)
      /\ live \in [Chains -> Seq(Entry)] /\ LivePasses(live, a)
  BY OfWorker DEF SpareInv, SettleInv, GenuineInv, RowsInv, TagInv, LockInv, AccessInv, Careful,
                  LivePasses
<1>1. CASE RunCommand(w)
  <2> DEFINE cmds == job[w].cmds
             h == Head(cmds)
             s == live["INPUT"]
  <2>1. pc[w] \in Running /\ cmds # <<>> /\ Executable(h) /\ live' = Executed(h)
    BY <1>1 DEF RunCommand
  <2>2. cmds \in Seq(Command)
    BY <1>0 DEF IsJob
  <2> HIDE DEF cmds
  <2>3. h \in Command /\ h = cmds[1] /\ 1 \in 1..Len(cmds)
    BY <2>1, <2>2, OnTail
  <2>4. h.op # "-D" /\ h.entry.id = 0 => a \notin h.entry.shape.hits
    <3>1. CASE pc[w] \in {"apply", "sync", "unblock"}
      BY <1>0, <2>3, <3>1 DEF Spares, CommandsPass, cmds
    <3>2. CASE pc[w] = "strip"
      BY <1>0, <2>3, <3>2 DEF Shaped, AllOn, cmds
    <3>3. CASE pc[w] = "fill"
      BY <1>0, <2>3, <3>3 DEF Shaped, AllOn, cmds
    <3>4. pc[w] \notin {"unapply", "enable"}
      BY <1>0 DEF Follows
    <3> QED
      BY <2>1, <3>1, <3>2, <3>3, <3>4 DEF Running
  <2> HIDE DEF h
  <2>5. CASE h.chain # "INPUT"
    <3>1. live'["INPUT"] = live["INPUT"]
      BY <1>0, <2>1, <2>3, <2>5, ExecutedIs DEF Chains
    <3> QED
      BY <1>0, <3>1 DEF LivePasses
  <2>6. CASE h.chain = "INPUT"
    <3>1. /\ h.op = "-A" => live'["INPUT"] = Append(s, h.entry)
          /\ h.op = "-I" => live'["INPUT"] = <<h.entry>> \o s
          /\ h.op = "-D" => live'["INPUT"] = RemoveFirst(s, h.entry) /\ h.entry \in ToSet(s)
          /\ h.op \in {"-A", "-I", "-D"} /\ h.entry \in Entry
      BY <1>0, <2>1, <2>3, <2>6, ExecutedIs DEF Executable
    <3>2. s \in Seq(Entry) /\ \A k \in DOMAIN s : s[k].id = 0 => a \notin s[k].shape.hits
      BY <1>0 DEF LivePasses, Chains
    <3>3. PICK u : u = live'["INPUT"]
      OBVIOUS
    <3> HIDE DEF s
    <3>4. \/ (u = Append(s, h.entry) \/ u = <<h.entry>> \o s)
             /\ (h.entry.id = 0 => a \notin h.entry.shape.hits)
          \/ h.entry \in ToSet(s) /\ u = RemoveFirst(s, h.entry)
      BY <2>4, <3>1, <3>3
    <3>5. \A k \in DOMAIN u : u[k].id = 0 => a \notin u[k].shape.hits
      BY <3>1, <3>2, <3>4, ExecutedPasses
    <3> QED
      BY <3>3, <3>5 DEF LivePasses
  <2> QED
    BY <2>5, <2>6
<1>2. CASE ~RunCommand(w)
  <2>1. ~Discovers(w)
    BY <1>0 DEF Discovers, Snapshot, ScanChain, Adopt, Claim, DropAdopted, ChainScanned, AllScanned,
                Unchecked
  <2>2. live' = live
    BY <1>0, <1>2, <2>1, RebuildSteps
       DEF Rebuilds, SyncStart, SyncBlocksDone, TakeFlock, ListChain, ReloadRules, ChainRebuilt,
           Lock, LockTimeout, Read, Declined, Decline, Blocked, CommitInsert, Commit,
           Reordered, Unblocking, UnblockCommit, Failed, FailCommand, Applied
  <2> QED
    BY <1>0, <2>2
<1> QED
  BY <1>1, <1>2

\* Every step keeps a clear of all but the tagged rules.
LEMMA SpareNext ==
  ASSUME OnlyRebuilds, NothingLost, NEW a \in Addrs, OnlyAdmin(a)
  PROVE  SpareInv(a) /\ [Next]_vars => SpareInv(a)'
<1> SUFFICES ASSUME SpareInv(a), [Next]_vars
             PROVE  SpareInv(a)'
  OBVIOUS
<1>0. SettleInv' /\ AccessInv(a)' /\ RowsInv'
  BY SettleNext, AccessNext DEF SpareInv, OnlyAdmin, SettleInv, GenuineInv
<1>1. /\ Inv /\ live \in [Chains -> Seq(Entry)] /\ BlocksPass(rules, a) /\ LivePasses(live, a)
      /\ \A w \in Workers : Spares(pc[w], job[w], a)
  BY DEF SpareInv, AccessInv, Inv, SharedOK, LivePasses
<1>2. ASSUME BlocksPass(rules', a), LivePasses(live', a),
             \A w \in Workers : Spares(pc'[w], job'[w], a)
      PROVE  SpareInv(a)'
  BY <1>0, <1>2 DEF SpareInv, LivePasses
<1>3. CASE UNCHANGED vars
  BY <1>1, <1>2, <1>3 DEF vars
<1>4. ASSUME NEW w \in Workers, Step(w)
      PROVE  SpareInv(a)'
  <2>1. \A v \in Workers \ {w} : pc'[v] = pc[v] /\ job'[v] = job[v]
    BY <1>1, <1>4, EveryStepOK DEF StepOK, Moves, Inv
  <2>2. BlocksPass(rules', a) /\ Spares(pc'[w], job'[w], a) /\ LivePasses(live', a)
    BY <1>0, <1>4, RowsPass, SparesStep, LiveStays
  <2>3. \A v \in Workers : Spares(pc'[v], job'[v], a)
    BY <1>1, <2>1, <2>2
  <2> QED
    BY <1>2, <2>2, <2>3
<1>5. ASSUME NEW w \in Workers, NEW r \in Requests, Receive(w, r)
      PROVE  SpareInv(a)'
  <2>1. /\ pc'[w] \in {"max", "start", "flock", "lock"} /\ UNCHANGED <<rules, live>>
        /\ \A v \in Workers \ {w} : pc'[v] = pc[v] /\ job'[v] = job[v]
    BY <1>1, <1>5, ArrivalOf
  <2>2. Spares(pc'[w], job'[w], a)
    BY <2>1 DEF Spares
  <2>3. \A v \in Workers : Spares(pc'[v], job'[v], a)
    BY <1>1, <2>1, <2>2
  <2> QED
    BY <1>1, <1>2, <2>1, <2>3
<1>6. ASSUME NEW m \in ManualRules, ManualAppend(m[1], m[2])
      PROVE  SpareInv(a)'
  <2>1. /\ UNCHANGED <<rules, pc, job>> /\ m[1] \in Chains /\ m[2] \in Shape
        /\ live' = [live EXCEPT ![m[1]] = Append(@, [id |-> 0, shape |-> m[2]])]
    BY <1>6, ManualAssumption DEF ManualAppend
  <2>2. LivePasses(live', a)
    <3>1. CASE m[1] # "INPUT"
      <4>1. live'["INPUT"] = live["INPUT"]
        BY <1>1, <2>1, <3>1 DEF Chains
      <4> QED
        BY <1>1, <4>1 DEF LivePasses
    <3>2. CASE m[1] = "INPUT"
      <4>1. PICK e : e = [id |-> 0, shape |-> m[2]]
        OBVIOUS
      <4>2. e \in Entry /\ a \notin e.shape.hits
        BY <2>1, <3>2, <4>1 DEF Entry, OnlyAdmin
      <4>3. live'["INPUT"] = Append(live["INPUT"], e) /\ live["INPUT"] \in Seq(Entry)
        BY <1>1, <2>1, <3>2, <4>1
      <4>4. PICK s : s = live["INPUT"]
        OBVIOUS
      <4>5. PICK u : u = live'["INPUT"]
        OBVIOUS
      <4>6. \A k \in DOMAIN u : u[k].id = 0 => a \notin u[k].shape.hits
        BY <1>1, <4>2, <4>3, <4>4, <4>5, ExecutedPasses DEF LivePasses
      <4> QED
        BY <4>5, <4>6 DEF LivePasses
    <3> QED
      BY <3>1, <3>2
  <2> QED
    BY <1>1, <1>2, <2>1, <2>2
<1>7. CASE Environment
  BY <1>1, <1>5, <1>6, <1>7, NothingElse
<1> QED
  BY <1>3, <1>4, <1>7 DEF Next

\* At the start the untagged rules of a chain are the enabled blocks.
LEMMA ReflectedPasses ==
  ASSUME NEW t, FiniteTable(t), NEW a, BlocksPass(t, a)
  PROVE  LivePasses(Reflection(t), a)
<1> DEFINE S == {i \in Enabled(t) : IsBlock(t[i].shape)}
           ids == Ordered(t, S)
           front == BlockEntries(t)
           back == OrderedEntries(t, "INPUT")
           rest == WantedIds(t, "INPUT")
           all == Reflection(t)["INPUT"]
<1>1. "INPUT" \in Chains /\ all = front \o back
  BY DEF Chains, Reflection
<1>2. front \in Seq(Entry) /\ back \in Seq(Entry)
  BY <1>1, ReflectedTypes
<1>3. S \subseteq DOMAIN t /\ IsFiniteSet(S)
  BY FS_Subset DEF Enabled, FiniteTable
<1>4. ids \in Seq(S)
  <2> HIDE DEF S
  <2> QED BY <1>3, OrderedElements DEF FiniteTable
<1>5. front = [k \in DOMAIN ids |-> LiveEntry(ids[k], t[ids[k]].shape)]
      /\ back = [k \in DOMAIN rest |-> LiveEntry(rest[k], t[rest[k]].shape)]
  BY DEF BlockEntries, OrderedEntries
<1>6. \A k \in DOMAIN rest : LiveEntry(rest[k], t[rest[k]].shape).id # 0
  <2>1. rest \in Seq(Wanted(t, "INPUT"))
    BY <1>1, FillIs
  <2>2. DOMAIN rest = 1..Len(rest)
    BY <2>1
  <2>3. \A k \in 1..Len(rest) : LiveEntry(rest[k], t[rest[k]].shape).id = rest[k] /\ rest[k] # 0
    BY <1>1, WantedOnce
  <2> QED
    BY <2>2, <2>3
<1>7. \A i \in S : a \notin t[i].shape.hits
  BY <1>3 DEF BlocksPass
<1>8. \A i, shape : LiveEntry(i, shape).shape = shape
  BY DEF LiveEntry
<1> HIDE DEF S, ids, rest
<1>9. \A k \in DOMAIN front : a \notin front[k].shape.hits
  BY <1>4, <1>5, <1>7, <1>8
<1>10. \A k \in DOMAIN back : back[k].id # 0
  BY <1>5, <1>6
<1> HIDE DEF front, back, all
<1>11. /\ DOMAIN front = 1..Len(front) /\ DOMAIN back = 1..Len(back)
       /\ Len(front) \in Nat /\ Len(back) \in Nat /\ DOMAIN all = 1..Len(front) + Len(back)
       /\ \A k \in 1..Len(front) + Len(back) :
             all[k] = IF k <= Len(front) THEN front[k] ELSE back[k - Len(front)]
  BY <1>1, <1>2, ConcatProperties
<1>12. ASSUME NEW k \in DOMAIN all, all[k].id = 0
       PROVE  a \notin all[k].shape.hits
  <2>1. CASE k <= Len(front)
    <3>1. k \in DOMAIN front /\ all[k] = front[k]
      BY <1>11, <2>1
    <3> QED
      BY <1>9, <3>1
  <2>2. CASE ~(k <= Len(front))
    <3>1. k - Len(front) \in DOMAIN back /\ all[k] = back[k - Len(front)]
      BY <1>11, <2>2
    <3> QED
      BY <1>10, <1>12, <3>1
  <2> QED
    BY <2>1, <2>2
<1> QED
  BY <1>12 DEF LivePasses, all

\* The start is clear.
LEMMA SpareInit ==
  ASSUME NEW a \in Addrs, OnlyAdmin(a)
  PROVE  Init => SpareInv(a)
<1> SUFFICES ASSUME Init
             PROVE  SpareInv(a)
  OBVIOUS
<1>1. SettleInv /\ AccessInv(a)
  BY SettleInit, AccessInit DEF OnlyAdmin
<1>2. rules \in InitTables /\ live = Reflection(rules) /\ \A w \in Workers : pc[w] = "idle"
  BY DEF Init
<1>3. BlocksPass(rules, a) /\ FiniteTable(rules)
  <2>1. FiniteTable(rules)
    BY InitInv DEF Inv, SharedOK
  <2>2. BlocksPass(rules, a)
    BY <1>2 DEF OnlyAdmin, BlocksPass
  <2> QED
    BY <2>1, <2>2
<1>4. LivePasses(live, a)
  BY <1>2, <1>3, ReflectedPasses
<1>5. \A w \in Workers : Spares(pc[w], job[w], a)
  BY <1>2 DEF Spares
<1> QED
  BY <1>1, <1>3, <1>4, <1>5 DEF SpareInv, LivePasses

\* When a chain shows the rows in order, its first match is the table's.
LEMMA FirstMatch ==
  ASSUME NEW a, NEW t, IsTable(t), NEW s \in Seq(Entry), NEW S, S \subseteq DOMAIN t, WouldAllow(t, S, a),
         \A k \in DOMAIN s : s[k].id = 0 => a \notin s[k].shape.hits,
         \A k \in DOMAIN s : s[k].id # 0 => Genuine(s[k], S, t),
         Fits(s, <<>>, t, S)
  PROVE  LiveAllows(s, a)
<1> DEFINE matching == {k \in DOMAIN s : a \in s[k].shape.hits}
           m == Min(matching)
<1> SUFFICES ASSUME matching # {}
             PROVE  s[m].shape.action = "ACCEPT"
  BY DEF LiveAllows
<1>1. matching \subseteq Int /\ IsFiniteSet(matching)
  <2>1. DOMAIN s = 1..Len(s) /\ Len(s) \in Nat /\ IsFiniteSet(1..Len(s))
    BY FS_Interval
  <2>2. matching \subseteq 1..Len(s)
    BY <2>1
  <2> QED
    BY <2>1, <2>2, FS_Subset
<1>2. m \in matching /\ \A k \in matching : m =< k
  <2> HIDE DEF matching
  <2> QED BY <1>1, MinOfFinite
<1>3. m \in DOMAIN s /\ a \in s[m].shape.hits /\ s[m].id # 0
  BY <1>2
<1> DEFINE i == s[m].id
<1>4. i \in S /\ s[m].shape = t[i].shape /\ a \in t[i].shape.hits
  BY <1>3 DEF Genuine
<1>5. ASSUME NEW j \in S \ {i}, a \in t[j].shape.hits
      PROVE  Before(t, i, j)
  <2>1. PICK k \in DOMAIN s : s[k].id = j
    <3>1. Len(<<>>) = 0
      OBVIOUS
    <3> QED
      BY <3>1 DEF Fits
  <2>2. s[k].id # 0
    BY <1>5, <2>1 DEF IsTable
  <2>3. k \in matching
    BY <1>5, <2>1, <2>2 DEF Genuine
  <2>4. k # m /\ m =< k /\ m \in Int /\ k \in Int
    BY <1>1, <1>2, <1>5, <2>1, <2>3
  <2>5. m < k
    BY <2>4
  <2> QED
    BY <1>3, <2>1, <2>2, <2>5 DEF Fits
<1>6. t[i].shape.action = "ACCEPT"
  BY <1>4, <1>5 DEF WouldAllow
<1> QED
  BY <1>4, <1>6

\* With nothing in flight the live INPUT chain lets a in.
LEMMA ReachableWhenQuiet ==
  ASSUME NEW a, SpareInv(a), Quiet
  PROVE  LiveAllows(live["INPUT"], a)
<1> DEFINE S == Wanted(rules, "INPUT")
<1>0. /\ GenuineInv /\ Settled("INPUT") /\ FiniteTable(rules) /\ live["INPUT"] \in Seq(Entry)
      /\ \A w \in Workers : pc[w] = "idle"
      /\ LivePasses(live, a) /\ Allows(rules, a)
  BY OfWorker DEF SpareInv, AccessInv, SettleInv, Inv, SharedOK, Quiet, Chains, LivePasses
<1>1. Standing("INPUT") = S
  <2>1. Claimed = {}
    BY <1>0 DEF Claimed
  <2> QED
    BY <2>1 DEF Standing
<1>2. Fits(live["INPUT"], <<>>, rules, S)
  <2>1. \A w \in Workers : ~Owes(pc[w], job[w], "INPUT") /\ ~Filling(pc[w], job[w], "INPUT")
    BY <1>0 DEF Owes, Filling, Scanning
  <2> QED
    BY <1>0, <1>1, <2>1 DEF Settled
<1>3. \A k \in DOMAIN live["INPUT"] : live["INPUT"][k].id # 0 => Genuine(live["INPUT"][k], S, rules)
  BY <1>0, <1>1 DEF GenuineInv, Chains
<1>4. S = EnabledInputs(rules) /\ S \subseteq DOMAIN rules
  <2>1. ASSUME NEW i \in Enabled(rules)
        PROVE  InChain(rules, i, "INPUT") <=> rules[i].shape.kind = "input"
    <3>1. rules[i].shape.kind \in Kinds
      BY <1>0, <2>1 DEF Enabled, FiniteTable, IsTable, Row, Shape
    <3>2. \A kind \in Kinds : "INPUT" \in ToSet(ChainsFor(kind)) <=> kind = "input"
      BY DEF Kinds, ToSet, ChainsFor
    <3> QED
      BY <3>1, <3>2 DEF InChain
  <2> QED
    BY <2>1 DEF Wanted, EnabledInputs, Enabled
<1>5. WouldAllow(rules, S, a) /\ IsTable(rules)
  BY <1>0, <1>4 DEF Allows, FiniteTable
<1> HIDE DEF S
<1> QED
  BY <1>0, <1>2, <1>3, <1>4, <1>5, FirstMatch DEF LivePasses

\* reorder_rule's self-lockout check, set_client_block's refusal of the own
\* client and the rebuilds, together: as long as rules are reordered and clients
\* blocked from a alone, nothing is lost and nothing that matches a is typed into
\* INPUT, the live INPUT chain itself lets a in whenever no request is in flight,
\* however reorders, synchronisations, blocks and unblocks overlap before.
THEOREM AdminStaysReachable ==
  ASSUME OnlyRebuilds, NothingLost, NEW a \in Addrs, OnlyAdmin(a), Requesters \subseteq {a}
  PROVE  Spec => []LiveAccessKept
<1>1. Init => SpareInv(a)
  BY SpareInit
<1>2. SpareInv(a) /\ [Next]_vars => SpareInv(a)'
  BY SpareNext
<1>3. SpareInv(a) => LiveAccessKept
  BY ReachableWhenQuiet DEF LiveAccessKept
<1> QED
  BY <1>1, <1>2, <1>3, PTL DEF Spec

-----------------------------------------------------------------------------
(* A synchronisation puts everything right, whatever it finds. *)

PutsIn(c, ch, e) == c.op = "-I" /\ c.chain = ch /\ c.entry = e

TakesOut(c, ch, e) == c.op = "-D" /\ c.chain = ch /\ c.entry = e

\* Chain ch, which is s, holds e once the commands have run: it does now (0) or
\* from the k-th on, and no later command deletes it.
WillHold(cmds, s, ch, e) ==
    \E k \in 0..Len(cmds) :
        /\ IF k = 0 THEN e \in ToSet(s) ELSE PutsIn(cmds[k], ch, e)
        /\ \A m \in 1..Len(cmds) : m > k => ~TakesOut(cmds[m], ch, e)

\* A failed delete gives up deletes only.
SkipsDeletes(cmds) ==
    \A k, m \in 1..Len(cmds) :
        cmds[k].op = "-D" /\ k < m /\ m <= k + cmds[k].skip => cmds[m].op = "-D"

\* What is left of a list after its first n commands.
Rest(cmds, n, rest) ==
    /\ rest \in Seq(Command) /\ Len(rest) = Len(cmds) - n
    /\ \A k \in 1..Len(rest) : rest[k] = cmds[n + k]

\* Both outlive the first n commands, if these do what they promise.
LEMMA RestHolds ==
  ASSUME NEW cmds \in Seq(Command), NEW n \in 0..Len(cmds), NEW rest, Rest(cmds, n, rest),
         NEW s, NEW s1, NEW ch, NEW e, WillHold(cmds, s, ch, e),
         e \in ToSet(s) /\ (\A m \in 1..n : ~TakesOut(cmds[m], ch, e)) => e \in ToSet(s1),
         \A m \in 1..n : PutsIn(cmds[m], ch, e) => e \in ToSet(s1)
  PROVE  WillHold(rest, s1, ch, e)
<1>0. Len(cmds) \in Nat /\ Len(rest) \in Nat /\ Len(rest) = Len(cmds) - n /\ n \in Nat
  BY DEF Rest
<1>1. PICK k \in 0..Len(cmds) :
        /\ IF k = 0 THEN e \in ToSet(s) ELSE PutsIn(cmds[k], ch, e)
        /\ \A m \in 1..Len(cmds) : m > k => ~TakesOut(cmds[m], ch, e)
  BY DEF WillHold
<1>2. ASSUME NEW m \in 1..Len(rest), m + n > k
      PROVE  ~TakesOut(rest[m], ch, e)
  <2>1. n + m \in 1..Len(cmds) /\ n + m > k /\ rest[m] = cmds[n + m]
    BY <1>0, <1>2 DEF Rest
  <2> QED
    BY <1>1, <2>1
<1>3. CASE k = 0
  <2>1. \A m \in 1..n : m \in 1..Len(cmds) /\ m > k
    BY <1>0, <1>3
  <2>2. e \in ToSet(s1)
    BY <1>1, <1>3, <2>1
  <2>3. \A m \in 1..Len(rest) : m > 0 /\ m + n > k
    BY <1>0, <1>3
  <2>4. 0 \in 0..Len(rest)
    BY <1>0
  <2> QED
    BY <1>2, <2>2, <2>3, <2>4 DEF WillHold
<1>4. CASE k # 0 /\ k <= n
  <2>1. k \in 1..n
    BY <1>0, <1>4
  <2>2. e \in ToSet(s1)
    BY <1>1, <1>4, <2>1
  <2>3. \A m \in 1..Len(rest) : m > 0 /\ m + n > k
    BY <1>0, <1>4
  <2>4. 0 \in 0..Len(rest)
    BY <1>0
  <2> QED
    BY <1>2, <2>2, <2>3, <2>4 DEF WillHold
<1>5. CASE k > n
  <2>1. k - n \in 1..Len(rest) /\ k - n # 0 /\ k - n \in 0..Len(rest) /\ n + (k - n) = k
    BY <1>0, <1>5
  <2>2. rest[k - n] = cmds[k]
    BY <2>1 DEF Rest
  <2>3. k # 0
    BY <1>0, <1>5
  <2>4. PutsIn(rest[k - n], ch, e)
    BY <1>1, <2>2, <2>3
  <2>5. \A m \in 1..Len(rest) : m > k - n => m + n > k
    BY <1>0
  <2> QED
    BY <1>2, <2>1, <2>4, <2>5 DEF WillHold
<1> QED
  BY <1>0, <1>3, <1>4, <1>5

LEMMA RestSkips ==
  ASSUME NEW cmds \in Seq(Command), NEW n \in 0..Len(cmds), NEW rest, Rest(cmds, n, rest),
         SkipsDeletes(cmds)
  PROVE  SkipsDeletes(rest)
<1> SUFFICES ASSUME NEW k \in 1..Len(rest), NEW m \in 1..Len(rest),
                    rest[k].op = "-D", k < m, m <= k + rest[k].skip
             PROVE  rest[m].op = "-D"
  BY DEF SkipsDeletes
<1>0. Len(cmds) \in Nat /\ Len(rest) = Len(cmds) - n /\ n \in Nat
  BY DEF Rest
<1>1. /\ n + k \in 1..Len(cmds) /\ rest[k] = cmds[n + k]
      /\ n + m \in 1..Len(cmds) /\ rest[m] = cmds[n + m]
  BY <1>0 DEF Rest
<1>2. cmds[n + k].skip \in Nat
  <2>1. cmds[n + k] \in Command
    BY <1>1
  <2> QED
    BY <2>1 DEF Command
<1>3. n + k < n + m /\ n + m <= n + k + cmds[n + k].skip
  BY <1>0, <1>1, <1>2
<1> QED
  BY <1>1, <1>3 DEF SkipsDeletes

\* An executed command deletes and inserts what it says.
LEMMA HeldBy ==
  ASSUME live \in [Chains -> Seq(Entry)], NEW c \in Command, live' = Executed(c), Executable(c),
         NEW ch \in Chains, NEW e
  PROVE  /\ e \in ToSet(live[ch]) /\ ~TakesOut(c, ch, e) => e \in ToSet(live'[ch])
         /\ PutsIn(c, ch, e) => e \in ToSet(live'[ch])
<1> DEFINE s == live[ch]
<1>0. s \in Seq(Entry) /\ DOMAIN s = 1..Len(s) /\ Len(s) \in Nat
  OBVIOUS
<1>1. CASE ch # c.chain
  BY <1>1, ExecutedIs DEF PutsIn
<1>2. CASE ch = c.chain /\ c.op = "-A"
  <2>1. live'[ch] = Append(s, c.entry) /\ c.entry \in Entry
    BY <1>2, ExecutedIs
  <2>2. \A k \in DOMAIN s : k \in DOMAIN live'[ch] /\ live'[ch][k] = s[k]
    <3> HIDE DEF s
    <3> QED BY <1>0, <2>1, AppendProperties
  <2> QED
    BY <1>2, <2>2 DEF ToSet, PutsIn
<1>3. CASE ch = c.chain /\ c.op = "-I"
  <2>1. live'[ch] = <<c.entry>> \o s /\ c.entry \in Entry
    BY <1>3, ExecutedIs
  <2>2. /\ 1 \in DOMAIN live'[ch] /\ live'[ch][1] = c.entry
        /\ \A k \in DOMAIN s : k + 1 \in DOMAIN live'[ch] /\ live'[ch][k + 1] = s[k]
    <3> HIDE DEF s
    <3>1. /\ DOMAIN live'[ch] = 1..Len(s) + 1 /\ live'[ch][1] = c.entry
          /\ \A k \in 1..Len(s) : live'[ch][k + 1] = s[k]
      BY <1>0, <2>1, FrontIs
    <3> QED
      BY <1>0, <3>1
  <2> QED
    BY <2>2 DEF ToSet, PutsIn
<1>4. CASE ch = c.chain /\ c.op = "-D"
  <2>1. live'[ch] = RemoveFirst(s, c.entry) /\ c.entry \in ToSet(s)
    BY <1>4, ExecutedIs DEF Executable
  <2> QED
    BY <1>0, <1>4, <2>1, Remains DEF TakesOut, PutsIn
<1> QED
  BY <1>1, <1>2, <1>3, <1>4, ExecutedIs

\* The commands that take out a block's two halves and put them back.
BlockCommand(c, r, e) ==
    /\ c.entry = e
    /\ c.op = IF r <= 2 THEN "-D" ELSE "-I"
    /\ c.chain = IF r \in {1, 3} THEN "FORWARD" ELSE "INPUT"
    /\ c.skip = IF r \in {1, 3} THEN 1 ELSE 0

LEMMA IdempotentIs ==
  ASSUME NEW i \in Nat, NEW sh \in Shape, IsBlock(sh)
  PROVE  \A r \in 1..4 : BlockCommand(ApplyIdempotent(i, sh)[r], r, LiveEntry(i, sh))
<1> DEFINE del == HalfCommands("-D", i, sh)
           ins == HalfCommands("-I", i, sh)
           half(op, k) == [op |-> op, chain |-> <<"FORWARD", "INPUT">>[k],
                           entry |-> LiveEntry(i, sh), skip |-> 2 - k]
<1>1. Halves(sh.kind) = <<"FORWARD", "INPUT">> /\ Len(Halves(sh.kind)) = 2
      /\ DOMAIN Halves(sh.kind) = {1, 2}
  BY DEF IsBlock, Halves
<1>2. \A op : HalfCommands(op, i, sh) = [k \in {1, 2} |-> half(op, k)]
  BY <1>1 DEF HalfCommands
<1>3. /\ del = [k \in {1, 2} |-> half("-D", k)]
      /\ ins = [k \in {1, 2} |-> half("-I", k)]
  BY <1>2
<1>4. del \in Seq(Command) /\ ins \in Seq(Command)
  BY HalfCommandsType
<1>5. ApplyIdempotent(i, sh) = del \o ins
  BY DEF ApplyIdempotent, Apply, Unapply
<1>6. /\ BlockCommand(del[1], 1, LiveEntry(i, sh)) /\ BlockCommand(del[2], 2, LiveEntry(i, sh))
      /\ BlockCommand(ins[1], 3, LiveEntry(i, sh)) /\ BlockCommand(ins[2], 4, LiveEntry(i, sh))
  BY <1>3 DEF BlockCommand
<1>7. DOMAIN del = {1, 2} /\ DOMAIN ins = {1, 2}
  BY <1>3
<1> HIDE DEF del, ins, half
<1>8. Len(del) = 2 /\ Len(ins) = 2
  BY <1>4, <1>7
<1>9. \A m \in 1..Len(del) + Len(ins) :
         (del \o ins)[m] = IF m <= Len(del) THEN del[m] ELSE ins[m - Len(del)]
  BY <1>4, ConcatIs
<1> DEFINE both == del \o ins
<1>10. /\ \A m \in 1..Len(del) + Len(ins) :
             both[m] = IF m <= Len(del) THEN del[m] ELSE ins[m - Len(del)]
       /\ ApplyIdempotent(i, sh) = both
  BY <1>5, <1>9
<1> HIDE DEF both
<1>11. both[1] = del[1] /\ both[2] = del[2] /\ both[3] = ins[1] /\ both[4] = ins[2]
  BY <1>8, <1>10
<1>12. \A r \in 1..4 : r = 1 \/ r = 2 \/ r = 3 \/ r = 4
  OBVIOUS
<1> QED
  BY <1>6, <1>10, <1>11, <1>12, Zenon

\* The first loop of sync_all: four commands for each enabled block.
LEMMA SyncIs ==
  ASSUME NEW t, FiniteTable(t)
  PROVE  LET S == {i \in Enabled(t) : IsBlock(t[i].shape)}
         IN  \E ids \in Seq(S) :
                /\ \A i \in S : \E q \in 1..Len(ids) : ids[q] = i
                /\ Len(SyncCommands(t)) = 4 * Len(ids)
                /\ \A k \in 1..4 * Len(ids) : \E q \in 1..Len(ids), r \in 1..4 : k = 4 * (q - 1) + r
                /\ \A q \in 1..Len(ids), r \in 1..4 :
                      /\ 4 * (q - 1) + r \in 1..4 * Len(ids)
                      /\ BlockCommand(SyncCommands(t)[4 * (q - 1) + r], r,
                                      LiveEntry(ids[q], t[ids[q]].shape))
<1> DEFINE S == {i \in Enabled(t) : IsBlock(t[i].shape)}
           ids == Ordered(t, S)
           each == 2 * Len(Halves("client_block"))
           id(k) == ids[((k - 1) \div each) + 1]
           com(k) == ApplyIdempotent(id(k), t[id(k)].shape)[((k - 1) % each) + 1]
<1>1. S \subseteq DOMAIN t /\ IsFiniteSet(S)
  BY FS_Subset DEF Enabled, FiniteTable
<1>2. ids \in Seq(S) /\ Len(ids) = Cardinality(S)
      /\ \A x \in S : \E k \in 1..Cardinality(S) : ids[k] = x
  <2> HIDE DEF S, each, id, com
  <2>1. IsTable(t)
    BY DEF FiniteTable
  <2>2. /\ Ordered(t, S) \in Seq(S) /\ Len(Ordered(t, S)) = Cardinality(S)
        /\ \A x \in S : \E k \in 1..Cardinality(S) : Ordered(t, S)[k] = x
    BY <1>1, <2>1, OrderedElements
  <2> QED
    BY <2>2
<1>3. \A i \in S : i \in Nat /\ t[i].shape \in Shape /\ IsBlock(t[i].shape)
  BY <1>1 DEF FiniteTable, IsTable, Row
<1>4. each = 4
  <2> DEFINE n == Len(Halves("client_block"))
  <2>1. n = 2
    BY DEF Halves
  <2> HIDE DEF n
  <2>2. n = 2 => 2 * n = 4
    OBVIOUS
  <2> QED
    BY <2>1, <2>2 DEF n
<1>5. SyncCommands(t) = [k \in 1..each * Len(ids) |-> com(k)]
  BY DEF SyncCommands
<1> HIDE DEF ids, S
<1>6. Len(ids) \in Nat /\ \A n \in 1..Len(ids) : ids[n] \in S
  BY <1>2
<1>7. \A k \in 1..4 * Len(ids) : SyncCommands(t)[k] = com(k)
  BY <1>4, <1>5
<1>8. DOMAIN SyncCommands(t) = 1..4 * Len(ids) /\ 4 * Len(ids) \in Nat
  <2> HIDE DEF com, each
  <2>1. DOMAIN SyncCommands(t) = 1..each * Len(ids)
    BY <1>5
  <2> QED
    BY <1>4, <1>6, <2>1
<1>9. Len(SyncCommands(t)) = 4 * Len(ids)
  BY <1>8, SyncType
<1>10. ASSUME NEW k \in 1..4 * Len(ids)
       PROVE  \E q \in 1..Len(ids), r \in 1..4 : k = 4 * (q - 1) + r
  <2>1. /\ ((k - 1) \div 4) + 1 \in 1..Len(ids) /\ ((k - 1) % 4) + 1 \in 1..4
        /\ k = 4 * ((((k - 1) \div 4) + 1) - 1) + (((k - 1) % 4) + 1)
    BY <1>6
  <2> QED
    BY <2>1
<1>11. ASSUME NEW q \in 1..Len(ids), NEW r \in 1..4
       PROVE  /\ 4 * (q - 1) + r \in 1..4 * Len(ids)
              /\ BlockCommand(SyncCommands(t)[4 * (q - 1) + r], r,
                              LiveEntry(ids[q], t[ids[q]].shape))
  <2> DEFINE k == 4 * (q - 1) + r
  <2>1. /\ k \in 1..4 * Len(ids)
        /\ (k - 1) \div 4 = q - 1 /\ (k - 1) % 4 = r - 1
    BY <1>6
  <2> HIDE DEF k
  <2>2. id(k) = ids[q] /\ com(k) = ApplyIdempotent(ids[q], t[ids[q]].shape)[r]
    <3>1. (q - 1) + 1 = q /\ (r - 1) + 1 = r
      OBVIOUS
    <3>2. id(k) = ids[((k - 1) \div 4) + 1]
      BY <1>4
    <3>3. id(k) = ids[q]
      BY <2>1, <3>1, <3>2
    <3>4. com(k) = ApplyIdempotent(id(k), t[id(k)].shape)[((k - 1) % 4) + 1]
      BY <1>4
    <3> QED
      BY <2>1, <3>1, <3>3, <3>4
  <2>3. ids[q] \in Nat /\ t[ids[q]].shape \in Shape /\ IsBlock(t[ids[q]].shape)
    BY <1>3, <1>6
  <2>4. BlockCommand(com(k), r, LiveEntry(ids[q], t[ids[q]].shape))
    BY <2>2, <2>3, IdempotentIs
  <2>5. SyncCommands(t)[k] = com(k)
    BY <1>7, <2>1
  <2> QED
    BY <2>1, <2>4, <2>5 DEF k
<1>12. \A i \in S : \E q \in 1..Len(ids) : ids[q] = i
  BY <1>2
<1> QED
  BY <1>2, <1>9, <1>10, <1>11, <1>12 DEF S

\* So every enabled block will be held, in both chains, whatever is there.
LEMMA SyncHolds ==
  ASSUME NEW t, FiniteTable(t)
  PROVE  /\ SkipsDeletes(SyncCommands(t))
         /\ \A i \in Enabled(t) : IsBlock(t[i].shape) =>
               \A ch \in {"FORWARD", "INPUT"} : \A s :
                  WillHold(SyncCommands(t), s, ch, LiveEntry(i, t[i].shape))
<1> DEFINE S == {i \in Enabled(t) : IsBlock(t[i].shape)}
           cmds == SyncCommands(t)
<1>1. PICK ids \in Seq(S) :
        /\ \A i \in S : \E q \in 1..Len(ids) : ids[q] = i
        /\ Len(cmds) = 4 * Len(ids)
        /\ \A k \in 1..4 * Len(ids) : \E q \in 1..Len(ids), r \in 1..4 : k = 4 * (q - 1) + r
        /\ \A q \in 1..Len(ids), r \in 1..4 :
              /\ 4 * (q - 1) + r \in 1..4 * Len(ids)
              /\ BlockCommand(cmds[4 * (q - 1) + r], r, LiveEntry(ids[q], t[ids[q]].shape))
  BY SyncIs
<1>2. Len(ids) \in Nat /\ Len(cmds) \in Nat
  BY <1>1
<1> HIDE DEF cmds
<1>3. SkipsDeletes(cmds)
  <2> SUFFICES ASSUME NEW k \in 1..Len(cmds), NEW m \in 1..Len(cmds),
                      cmds[k].op = "-D", k < m, m <= k + cmds[k].skip
               PROVE  cmds[m].op = "-D"
    BY DEF SkipsDeletes
  <2>1. PICK q \in 1..Len(ids), r \in 1..4 : k = 4 * (q - 1) + r
    BY <1>1
  <2>2. BlockCommand(cmds[k], r, LiveEntry(ids[q], t[ids[q]].shape))
    BY <1>1, <2>1
  <2>3. r <= 2 /\ cmds[k].skip = IF r = 1 THEN 1 ELSE 0
    BY <2>2 DEF BlockCommand
  <2>4. r = 1 /\ m = 4 * (q - 1) + 2
    BY <2>1, <2>3
  <2>5. BlockCommand(cmds[m], 2, LiveEntry(ids[q], t[ids[q]].shape))
    BY <1>1, <2>4
  <2> QED
    BY <2>5 DEF BlockCommand
<1>4. ASSUME NEW i \in S, NEW ch \in {"FORWARD", "INPUT"}, NEW s
      PROVE  WillHold(cmds, s, ch, LiveEntry(i, t[i].shape))
  <2> DEFINE e == LiveEntry(i, t[i].shape)
             K == {k \in 1..Len(cmds) : PutsIn(cmds[k], ch, e)}
             n == IF ch = "FORWARD" THEN 1 ELSE 2
  <2>1. PICK p \in 1..Len(ids) : ids[p] = i
    BY <1>1
  <2>2. n + 2 \in 1..4 /\ n \in {1, 2}
    OBVIOUS
  <2>3. 4 * (p - 1) + (n + 2) \in K
    <3>1. /\ 4 * (p - 1) + (n + 2) \in 1..Len(cmds)
          /\ BlockCommand(cmds[4 * (p - 1) + (n + 2)], n + 2, e)
      BY <1>1, <2>1, <2>2
    <3>2. PutsIn(cmds[4 * (p - 1) + (n + 2)], ch, e)
      BY <3>1 DEF BlockCommand, PutsIn
    <3> QED
      BY <3>1, <3>2
  <2>4. K \subseteq Int /\ IsFiniteSet(K) /\ K # {}
    <3>1. IsFiniteSet(1..Len(cmds))
      BY <1>2, FS_Interval
    <3> QED
      BY <2>3, <3>1, FS_Subset
  <2>5. PICK k \in K : \A m \in K : m <= k
    <3> HIDE DEF K
    <3> QED BY <2>4, MaxOfFinite
  <2>6. ASSUME NEW m \in 1..Len(cmds), m > k, TakesOut(cmds[m], ch, e)
        PROVE  FALSE
    <3>1. PICK q \in 1..Len(ids), r \in 1..4 : m = 4 * (q - 1) + r
      BY <1>1
    <3>2. BlockCommand(cmds[m], r, LiveEntry(ids[q], t[ids[q]].shape))
      BY <1>1, <3>1
    <3>3. /\ r <= 2 /\ LiveEntry(ids[q], t[ids[q]].shape) = e
          /\ ch = IF r = 1 THEN "FORWARD" ELSE "INPUT"
      BY <2>6, <3>2 DEF BlockCommand, TakesOut
    <3>4. r + 2 \in 1..4 /\ m + 2 = 4 * (q - 1) + (r + 2) /\ r \in {1, 2}
      BY <3>1, <3>3
    <3>5. m + 2 \in 1..Len(cmds) /\ BlockCommand(cmds[m + 2], r + 2, e)
      BY <1>1, <3>3, <3>4
    <3>6. PutsIn(cmds[m + 2], ch, e)
      BY <3>3, <3>4, <3>5 DEF BlockCommand, PutsIn
    <3>7. m + 2 \in K
      BY <3>5, <3>6
    <3>8. m + 2 <= k
      BY <2>5, <3>7
    <3> QED
      BY <2>6, <3>8
  <2>7. k \in 0..Len(cmds) /\ k # 0 /\ PutsIn(cmds[k], ch, e)
    BY <1>2
  <2> QED
    BY <2>6, <2>7 DEF WillHold
<1> QED
  BY <1>3, <1>4 DEF cmds

\* The deletes of a strip are of the chain's tagged entries, in order: f says
\* where each of them is.
Stripping(s, cmds) ==
    \E f \in [1..Len(cmds) -> DOMAIN s] :
        /\ \A k \in 1..Len(cmds) : s[f[k]] = cmds[k].entry
        /\ \A k, m \in 1..Len(cmds) : k < m => f[k] < f[m]
        /\ \A n \in DOMAIN s : s[n].id # 0 <=> \E k \in 1..Len(cmds) : f[k] = n

\* They are when the chain has been listed, whatever it holds.
LEMMA StripListed ==
  ASSUME NEW chain \in Chains, live \in [Chains -> Seq(Entry)]
  PROVE  Stripping(live[chain], StripCommands(chain))
<1> DEFINE own == {k \in DOMAIN live[chain] : HasOwnedTag(live[chain][k])}
           owned == Selected(live[chain], own)
           cmds == StripCommands(chain)
<1>1. PICK s : s = live[chain]
  OBVIOUS
<1>2. PICK I : I = own
  OBVIOUS
<1>3. s \in Seq(Entry) /\ I \subseteq DOMAIN s /\ \A k \in DOMAIN s : k \in I <=> s[k].id # 0
  BY <1>1, <1>2 DEF HasOwnedTag
<1>4. cmds = [k \in DOMAIN owned |-> [op |-> "-D", chain |-> chain, entry |-> owned[k], skip |-> 0]]
  BY DEF StripCommands
<1>5. owned = Selected(s, I)
  BY <1>1, <1>2
<1> HIDE DEF owned, own, cmds
<1> DEFINE n == Cardinality(I)
<1>6. n \in Nat /\ owned \in Seq(Entry) /\ Len(owned) = n
  BY <1>3, <1>5, SelectedOrder
<1>7. PICK f \in [1..n -> I] : Picks(s, I, f)
  BY <1>3, SelectedOrder
<1>8. /\ \A k \in 1..n : owned[k] = s[f[k]]
      /\ \A i \in I : \E k \in 1..n : f[k] = i
      /\ \A k, m \in 1..n : k < m => f[k] < f[m]
  BY <1>5, <1>7 DEF Picks
<1> HIDE DEF n
<1>9. DOMAIN cmds = 1..n /\ \A k \in 1..n : cmds[k].entry = owned[k]
  BY <1>4, <1>6
<1>10. Len(cmds) = n
  BY <1>6, <1>9, StripType DEF cmds
<1>11. f \in [1..Len(cmds) -> DOMAIN s]
  BY <1>3, <1>10
<1>12. \A k \in DOMAIN s : s[k].id # 0 <=> \E m \in 1..Len(cmds) : f[m] = k
  BY <1>3, <1>8, <1>10
<1>13. \A k \in 1..Len(cmds) : s[f[k]] = cmds[k].entry
  BY <1>8, <1>9, <1>10
<1>14. \A k, m \in 1..Len(cmds) : k < m => f[k] < f[m]
  BY <1>8, <1>10
<1>15. Stripping(s, cmds)
  BY <1>11, <1>12, <1>13, <1>14, Zenon DEF Stripping
<1> QED
  BY <1>1, <1>15 DEF cmds

\* A first occurrence is what RemoveFirst takes out.
LEMMA FirstTakenOut ==
  ASSUME NEW T, NEW s \in Seq(T), NEW n \in 1..Len(s), \A k \in 1..Len(s) : k < n => s[k] # s[n]
  PROVE  RemoveFirst(s, s[n]) = RemoveAt(s, n)
<1> DEFINE I == {i \in 1..Len(s) : s[i] = s[n]}
           m == Min(I)
<1>1. I \subseteq Int /\ IsFiniteSet(I)
  <2>1. Len(s) \in Nat /\ IsFiniteSet(1..Len(s))
    BY FS_Interval
  <2> QED
    BY <2>1, FS_Subset
<1>2. n \in I
  OBVIOUS
<1>3. m \in I /\ \A i \in I : m <= i
  <2> HIDE DEF I
  <2> QED BY <1>1, <1>2, MinOfFinite
<1>4. RemoveFirst(s, s[n]) = RemoveAt(s, m)
  BY <1>2 DEF RemoveFirst, SelectInSeq
<1> HIDE DEF m
<1>5. m = n
  <2>1. m <= n /\ m \in 1..Len(s) /\ s[m] = s[n]
    BY <1>2, <1>3
  <2>2. ~(m < n)
    BY <2>1
  <2> QED
    BY <2>1, <2>2
<1> QED
  BY <1>4, <1>5

\* The next delete of a strip finds its entry, and takes out the first that is tagged.
LEMMA StripMoves ==
  ASSUME NEW s \in Seq(Entry), NEW cmds \in Seq(Command), cmds # <<>>, Stripping(s, cmds)
  PROVE  /\ Head(cmds).entry \in ToSet(s)
         /\ Stripping(RemoveFirst(s, Head(cmds).entry), Tail(cmds))
<1> DEFINE e == Head(cmds).entry
           x == Tail(cmds)
<1>0. /\ Len(s) \in Nat /\ DOMAIN s = 1..Len(s) /\ Len(cmds) \in Nat
  OBVIOUS
<1>1. /\ Head(cmds) = cmds[1] /\ 1 \in 1..Len(cmds) /\ Len(x) = Len(cmds) - 1
      /\ \A k \in 1..Len(x) : k + 1 \in 1..Len(cmds) /\ x[k] = cmds[k + 1]
      /\ \A k \in 1..Len(cmds) : k # 1 => k - 1 \in 1..Len(x)
  BY OnTail
<1>2. PICK f \in [1..Len(cmds) -> DOMAIN s] :
        /\ \A k \in 1..Len(cmds) : s[f[k]] = cmds[k].entry
        /\ \A k, m \in 1..Len(cmds) : k < m => f[k] < f[m]
        /\ \A n \in DOMAIN s : s[n].id # 0 <=> \E k \in 1..Len(cmds) : f[k] = n
  BY DEF Stripping
<1> DEFINE n == f[1]
<1>3. n \in 1..Len(s) /\ s[n] = e /\ e.id # 0
  BY <1>0, <1>1, <1>2
<1> HIDE DEF e, x
<1>4. \A k \in 1..Len(s) : k < n => s[k] # s[n]
  <2> SUFFICES ASSUME NEW k \in 1..Len(s), k < n, s[k] = s[n]
               PROVE  FALSE
    OBVIOUS
  <2>1. PICK m \in 1..Len(cmds) : f[m] = k
    BY <1>0, <1>2, <1>3
  <2>2. m = 1 \/ 1 < m
    OBVIOUS
  <2>3. f[m] = n \/ n < f[m]
    BY <1>1, <1>2, <2>2
  <2>4. n \in Int /\ k \in Int
    BY <1>3
  <2> QED
    BY <2>1, <2>3, <2>4
<1>5. RemoveFirst(s, e) = RemoveAt(s, n)
  BY <1>3, <1>4, FirstTakenOut
<1> DEFINE t == RemoveAt(s, n)
<1>6. t \in Seq(Entry) /\ Len(t) = Len(s) - 1
      /\ \A i \in 1..Len(s) - 1 : t[i] = IF i < n THEN s[i] ELSE s[i + 1]
  BY <1>3, RemoveAtIs
<1>6a. n \in Int
  BY <1>3
<1> HIDE DEF t
<1> DEFINE g == [k \in 1..Len(x) |-> f[k + 1] - 1]
<1>7. ASSUME NEW k \in 1..Len(x)
      PROVE  /\ g[k] = f[k + 1] - 1 /\ g[k] \in 1..Len(s) - 1 /\ ~(g[k] < n)
             /\ f[k + 1] \in 1..Len(s) /\ t[g[k]] = s[f[k + 1]]
  <2>1. k + 1 \in 1..Len(cmds) /\ 1 < k + 1
    BY <1>1 DEF x
  <2>2. n < f[k + 1] /\ f[k + 1] \in 1..Len(s)
    BY <1>0, <1>1, <1>2, <2>1
  <2>3. g[k] = f[k + 1] - 1
    OBVIOUS
  <2> HIDE DEF g
  <2>4. g[k] \in 1..Len(s) - 1 /\ ~(g[k] < n) /\ g[k] + 1 = f[k + 1]
    BY <1>0, <1>3, <1>6a, <2>2, <2>3
  <2> QED
    BY <1>6, <2>2, <2>3, <2>4
<1>8. DOMAIN t = 1..Len(s) - 1
  BY <1>0, <1>6
<1>9. g \in [1..Len(x) -> DOMAIN t]
  BY <1>7, <1>8
<1> HIDE DEF g
<1>10. ASSUME NEW k \in 1..Len(x)
       PROVE  t[g[k]] = x[k].entry
  <2>1. k + 1 \in 1..Len(cmds) /\ x[k] = cmds[k + 1]
    BY <1>1 DEF x
  <2>2. s[f[k + 1]] = cmds[k + 1].entry
    BY <1>2, <2>1
  <2> QED
    BY <1>7, <2>1, <2>2
<1>11. ASSUME NEW k \in 1..Len(x), NEW m \in 1..Len(x), k < m
       PROVE  g[k] < g[m]
  <2>1. k + 1 < m + 1 /\ k + 1 \in 1..Len(cmds) /\ m + 1 \in 1..Len(cmds)
    BY <1>1, <1>11 DEF x
  <2>2. f[k + 1] < f[m + 1]
    BY <1>2, <2>1
  <2>3. /\ g[k] = f[k + 1] - 1 /\ f[k + 1] \in 1..Len(s)
        /\ g[m] = f[m + 1] - 1 /\ f[m + 1] \in 1..Len(s)
    BY <1>7
  <2>4. f[k + 1] \in Int /\ f[m + 1] \in Int
    BY <2>3
  <2> QED
    BY <2>2, <2>3, <2>4
<1>12. ASSUME NEW i \in DOMAIN t, t[i].id # 0
       PROVE  \E k \in 1..Len(x) : g[k] = i
  <2> DEFINE j == IF i < n THEN i ELSE i + 1
  <2>1. j \in 1..Len(s) /\ s[j] = t[i] /\ j # n /\ i \in Int
    BY <1>0, <1>3, <1>6, <1>6a, <1>8
  <2>2. PICK m \in 1..Len(cmds) : f[m] = j
    BY <1>0, <1>2, <1>12, <2>1
  <2>3. m # 1
    BY <2>1, <2>2
  <2>4. m - 1 \in 1..Len(x) /\ (m - 1) + 1 = m
    BY <1>1, <2>3 DEF x
  <2>5. 1 < m
    BY <2>3
  <2>6. n < j
    BY <1>1, <1>2, <2>2, <2>5
  <2>7. j = i + 1
    BY <1>6a, <2>1, <2>6
  <2> HIDE DEF j
  <2>8. g[m - 1] = i
    <3>1. g[m - 1] = f[(m - 1) + 1] - 1
      BY <1>7, <2>4
    <3> QED
      BY <2>1, <2>2, <2>4, <2>7, <3>1
  <2> QED
    BY <2>4, <2>8
<1>13. ASSUME NEW k \in 1..Len(x)
       PROVE  t[g[k]].id # 0
  <2>1. k + 1 \in 1..Len(cmds)
    BY <1>1 DEF x
  <2>2. s[f[k + 1]].id # 0
    BY <1>0, <1>2, <1>7, <2>1
  <2> QED
    BY <1>7, <2>2
<1>14. Stripping(t, x)
  <2>1. \A i \in DOMAIN t : t[i].id # 0 <=> \E k \in 1..Len(x) : g[k] = i
    BY <1>12, <1>13, Zenon
  <2>2. \A k, m \in 1..Len(x) : k < m => g[k] < g[m]
    BY <1>11
  <2>3. \A k \in 1..Len(x) : t[g[k]] = x[k].entry
    BY <1>10
  <2> QED
    BY <1>9, <2>1, <2>2, <2>3, Zenon DEF Stripping
<1>15. e \in ToSet(s)
  BY <1>0, <1>3 DEF ToSet
<1> QED
  BY <1>5, <1>14, <1>15 DEF e, x, t

\* A worker has one request from its start to its end.
LEMMA RequestKept ==
  ASSUME Inv, NEW w \in Workers, Step(w), pc'[w] # "idle"
  PROVE  job'[w].req = job[w].req
<1>0. DOMAIN job = Workers /\ IsJob(job[w])
  BY DEF Inv
<1>1. ~Finish(w) /\ ~Decline(w)
  BY Goes DEF Decline
<1>2. ASSUME NEW t, NEW p, NEW j, Commit(w, t, p, j), j.req = job[w].req
      PROVE  job'[w].req = job[w].req
  BY <1>2, Goes DEF Commit
<1>3. /\ \A x, y, z : /\ [job[w] EXCEPT !.id = x, !.cmds = y].req = job[w].req
                      /\ [job[w] EXCEPT !.id = x, !.chains = y].req = job[w].req
                      /\ [[job[w] EXCEPT !.id = x] EXCEPT !.chains = y].req = job[w].req
                      /\ [[job[w] EXCEPT !.id = x] EXCEPT !.cmds = y].req = job[w].req
                      /\ [job[w] EXCEPT !.id = x].req = job[w].req
  BY <1>0 DEF IsJob, NoJob
<1>4. CASE Transaction(w)
  <2>1. CASE Lock(w) \/ LockTimeout(w) \/ UnblockCommit(w)
    BY <1>1, <2>1 DEF Lock, LockTimeout, UnblockCommit
  <2>1a. CASE Read(w)
    <3>1. job' = [job EXCEPT ![w].snap = rules]
      BY <2>1a DEF Read
    <3> QED
      BY <1>0, <3>1 DEF IsJob, NoJob
  <2>1b. CASE Unblock(w)
    <3>1. PICK i, c : job' = [job EXCEPT ![w].id = i, ![w].cmds = c]
      BY <1>1, <2>1b, Zenon DEF Unblock
    <3> QED
      BY <1>0, <3>1 DEF IsJob, NoJob
  <2>2. CASE AddInput(w) \/ Block(w)
    <3>1. PICK t, i, c : Commit(w, t, "apply", [job[w] EXCEPT !.id = i, !.cmds = c])
      BY <1>1, <2>2, Zenon DEF AddInput, Block, CommitInsert
    <3>2. PICK j : j = [job[w] EXCEPT !.id = i, !.cmds = c]
      OBVIOUS
    <3>3. j.req = job[w].req
      BY <1>3, <3>2
    <3> QED
      BY <1>2, <3>1, <3>2, <3>3
  <2>3. CASE Toggle(w)
    <3>1. PICK t, p, i, c :
            \/ Commit(w, t, p, [[job[w] EXCEPT !.id = i] EXCEPT !.cmds = c])
            \/ Commit(w, t, p, [[job[w] EXCEPT !.id = i] EXCEPT !.chains = c])
      BY <1>1, <2>3, Zenon DEF Toggle
    <3>2. PICK j : /\ Commit(w, t, p, j)
                   /\ \/ j = [[job[w] EXCEPT !.id = i] EXCEPT !.cmds = c]
                      \/ j = [[job[w] EXCEPT !.id = i] EXCEPT !.chains = c]
      BY <3>1
    <3>3. CASE j = [[job[w] EXCEPT !.id = i] EXCEPT !.cmds = c]
      <4>1. j.req = job[w].req
        BY <1>3, <3>3
      <4> QED
        BY <1>2, <3>2, <4>1
    <3>4. CASE j = [[job[w] EXCEPT !.id = i] EXCEPT !.chains = c]
      <4>1. j.req = job[w].req
        BY <1>3, <3>4
      <4> QED
        BY <1>2, <3>2, <4>1
    <3> QED
      BY <3>2, <3>3, <3>4
  <2>4. CASE Disable(w) \/ Delete(w)
    <3>1. PICK t, i, c : Commit(w, t, "unapply", [job[w] EXCEPT !.id = i, !.cmds = c])
      BY <1>1, <2>4, Zenon DEF Disable, Delete, TakeOut
    <3>2. PICK j : j = [job[w] EXCEPT !.id = i, !.cmds = c]
      OBVIOUS
    <3>3. j.req = job[w].req
      BY <1>3, <3>2
    <3> QED
      BY <1>2, <3>1, <3>2, <3>3
  <2>5. CASE Reorder(w)
    <3>1. PICK t, i, order : Commit(w, t, "flock", [job[w] EXCEPT !.id = i, !.chains = order])
      BY <1>1, <2>5, Zenon DEF Reorder
    <3>2. PICK j : j = [job[w] EXCEPT !.id = i, !.chains = order]
      OBVIOUS
    <3>3. j.req = job[w].req
      BY <1>3, <3>2
    <3> QED
      BY <1>2, <3>1, <3>2, <3>3
  <2> QED
    BY <1>4, <2>1, <2>1a, <2>1b, <2>2, <2>3, <2>4, <2>5 DEF Transaction
<1>5. CASE \E x, y :
             \/ job' = [job EXCEPT ![w].id = x, ![w].cmds = y]
             \/ job' = [job EXCEPT ![w].cmds = x, ![w].chains = y]
             \/ job' = [job EXCEPT ![w].chains = x, ![w].cmds = y]
             \/ job' = [job EXCEPT ![w].snap = x, ![w].scan = y]
             \/ job' = [job EXCEPT ![w].found = x, ![w].touched = y]
  <2>1. PICK x, y :
             \/ job' = [job EXCEPT ![w].id = x, ![w].cmds = y]
             \/ job' = [job EXCEPT ![w].cmds = x, ![w].chains = y]
             \/ job' = [job EXCEPT ![w].chains = x, ![w].cmds = y]
             \/ job' = [job EXCEPT ![w].snap = x, ![w].scan = y]
             \/ job' = [job EXCEPT ![w].found = x, ![w].touched = y]
    BY <1>5
  <2> QED
    BY <1>0, <2>1 DEF IsJob, NoJob
<1>6. CASE \E x :
             \/ job' = job
             \/ job' = [job EXCEPT ![w].cmds = x] \/ job' = [job EXCEPT ![w].chains = x]
             \/ job' = [job EXCEPT ![w].pos = x] \/ job' = [job EXCEPT ![w].id = x]
             \/ job' = [job EXCEPT ![w].scan = x] \/ job' = [job EXCEPT ![w].found = x]
  <2>1. PICK x :
             \/ job' = job
             \/ job' = [job EXCEPT ![w].cmds = x] \/ job' = [job EXCEPT ![w].chains = x]
             \/ job' = [job EXCEPT ![w].pos = x] \/ job' = [job EXCEPT ![w].id = x]
             \/ job' = [job EXCEPT ![w].scan = x] \/ job' = [job EXCEPT ![w].found = x]
    BY <1>6
  <2> QED
    BY <1>0, <2>1 DEF IsJob, NoJob
<1>7. CASE ReadMax(w) \/ Insert(w)
  BY <1>5, <1>6, <1>7, Zenon DEF ReadMax, Insert
<1>8. ASSUME AbortRebuild(w)
      PROVE  job'[w].req = job[w].req
  BY <1>1, <1>5, <1>8, Zenon DEF AbortRebuild
<1>9. CASE RunCommand(w)
  BY <1>6, <1>9, Zenon DEF RunCommand
<1>10. CASE FailCommand(w)
  BY <1>1, <1>6, <1>8, <1>10, Zenon DEF FailCommand
<1>11. CASE Applied(w) \/ Undo(w)
  BY <1>1, <1>11 DEF Applied, Undo
<1>12. CASE SyncStart(w)
  BY <1>5, <1>12, Zenon DEF SyncStart
<1>13. CASE SyncBlocksDone(w) \/ TakeFlock(w)
  BY <1>1, <1>13 DEF SyncBlocksDone, TakeFlock
<1>14. CASE ListChain(w) \/ ListFails(w) \/ ReloadRules(w)
  BY <1>6, <1>8, <1>14, Zenon DEF ListChain, ListFails, ReloadRules
<1>15. CASE ChainRebuilt(w)
  BY <1>1, <1>6, <1>15, Zenon DEF ChainRebuilt
<1>16. CASE Snapshot(w)
  BY <1>5, <1>16, Zenon DEF Snapshot
<1>17. CASE ScanChain(w)
  BY <1>6, <1>17, Zenon DEF ScanChain
<1>18. CASE ScanFails(w) \/ ChainScanned(w)
  BY <1>6, <1>18, Zenon DEF ScanFails, ChainScanned
<1>19. CASE Adopt(w)
  BY <1>6, <1>19, Zenon DEF Adopt
<1>20. CASE Claim(w)
  BY <1>5, <1>6, <1>20, Zenon DEF Claim
<1>21. CASE DropAdopted(w)
  BY <1>6, <1>21, Zenon DEF DropAdopted
<1>22. CASE AllScanned(w)
  BY <1>1, <1>6, <1>22, Zenon DEF AllScanned
<1> QED
  BY <1>4, <1>7, <1>9, <1>10, <1>11, <1>12, <1>13, <1>14, <1>15, <1>16, <1>17, <1>18,
     <1>19, <1>20, <1>21, <1>22
     DEF Step, UnlockedInsert, Commands, Rebuild, Discovery

\* Where a synchronisation can be.
SyncPlaces == {"start", "sync", "flock", "list", "strip", "fill"}

\* Every enabled block has both halves live.
Holds(lv, t) ==
    \A i \in Enabled(t) : IsBlock(t[i].shape) =>
        \A ch \in {"FORWARD", "INPUT"} : LiveEntry(i, t[i].shape) \in ToSet(lv[ch])

\* Chain c, which is s, shows the rows it should once the commands have run, and
\* no other.
Fitting(s, cmds, t, c) ==
    /\ \A k \in DOMAIN s : s[k].id # 0 => Genuine(s[k], Wanted(t, c), t)
    /\ \A m \in 1..Len(cmds) : Genuine(cmds[m].entry, Wanted(t, c), t)
    /\ Fits(s, cmds, t, Wanted(t, c))

\* What a synchronisation at place p has done so far, when none but it runs.
Syncing(p, j, lv, t) ==
    /\ p \in SyncPlaces
    /\ p = "sync" =>
          /\ SkipsDeletes(j.cmds)
          /\ \A i \in Enabled(t) : IsBlock(t[i].shape) =>
                \A ch \in {"FORWARD", "INPUT"} :
                    WillHold(j.cmds, lv[ch], ch, LiveEntry(i, t[i].shape))
          /\ \A c \in Chains : Wanted(t, c) # {} => c \in ToSet(j.chains)
    /\ p \in SyncPlaces \ {"start", "sync"} =>
          /\ Holds(lv, t)
          /\ \A c \in Chains : Wanted(t, c) # {} =>
                c \in ToSet(j.chains) \/ Fitting(lv[c], <<>>, t, c)
    /\ p = "strip" => Stripping(lv[Head(j.chains)], j.cmds)
    /\ p = "fill" => Fitting(lv[Head(j.chains)], j.cmds, t, Head(j.chains))

\* The inductive invariant: each worker that synchronises has got this far.
SyncInv ==
    /\ LockInv
    /\ \A w \in Workers :
          pc[w] # "idle" /\ job[w].req.op = "sync" => Syncing(pc[w], job[w], live, rules)

\* Rules are lost by hand only while no request is in flight (CalmSpec).
CalmNext == Next /\ (spent'.losses # spent.losses => Quiet)

\* All that happens while a synchronisation is in flight alone.
LEMMA SyncSteps ==
  ASSUME Alone, ~IptablesFails, SyncInv, CalmNext, NEW w \in Workers,
         pc[w] # "idle", job[w].req.op = "sync"
  PROVE  \/ SyncStart(w) \/ SyncBlocksDone(w) \/ TakeFlock(w) \/ ListChain(w) \/ ReloadRules(w)
         \/ ChainRebuilt(w) \/ RunCommand(w) \/ FailCommand(w) \/ Crash(w)
         \/ \E m \in ManualRules : ManualAppend(m[1], m[2])
<1>1. pc[w] \in SyncPlaces
  BY DEF SyncInv, Syncing
<1>2. \A v \in Workers : v = w
  BY DEF Alone
<1>3. CASE \E v \in Workers : Step(v)
  <2>1. Step(w)
    BY <1>2, <1>3
  <2>2. ~Transaction(w)
    BY <1>1 DEF SyncPlaces, Transaction, Lock, LockTimeout, Read, AddInput, Toggle, Disable, Delete,
                TakeOut, Reorder, Block, Unblock, UnblockCommit, Deciding
  <2>3. ~UnlockedInsert(w) /\ ~Discovery(w) /\ ~Applied(w) /\ ~Undo(w) /\ ~ListFails(w)
    BY <1>1 DEF SyncPlaces, UnlockedInsert, ReadMax, Insert, Discovery, Snapshot, ScanChain,
                ScanFails, Adopt, Claim, DropAdopted, ChainScanned, AllScanned, Applied, Undo,
                ListFails
  <2> QED
    BY <2>1, <2>2, <2>3 DEF Step, Commands, Rebuild
<1>4. CASE Environment
  <2>1. \A v \in Workers, r \in Requests : ~Receive(v, r)
    BY <1>2 DEF Receive
  <2>2. spent'.losses = spent.losses
    BY DEF CalmNext, Quiet
  <2>3. spent \in [requests : 0..MaxRequests, manual : 0..MaxManual,
                   losses : 0..MaxLosses, crashes : 0..MaxCrashes]
    BY DEF SyncInv, LockInv, Inv, SharedOK
  <2>4. spent' # [spent EXCEPT !.losses = @ + 1]
    <3>1. MaxLosses \in Nat
      BY BoundsAssumption
    <3>2. spent.losses \in 0..MaxLosses
      BY <2>3
    <3>3. [spent EXCEPT !.losses = @ + 1].losses = spent.losses + 1
      BY <2>3
    <3>4. spent.losses \in Int /\ spent.losses # spent.losses + 1
      BY <3>1, <3>2
    <3> QED
      BY <2>2, <3>3, <3>4
  <2>5. ~Flush /\ \A c \in Chains : \A k \in DOMAIN live[c] : ~ManualDelete(c, k)
    BY <2>4 DEF Flush, ManualDelete
  <2> QED
    BY <1>2, <1>4, <2>1, <2>5 DEF Environment
<1> QED
  BY <1>3, <1>4 DEF CalmNext, Next

\* The blocks stay held by a command that deletes none of them.
LEMMA HoldsOn ==
  ASSUME live \in [Chains -> Seq(Entry)], NEW c \in Command, live' = Executed(c), Executable(c),
         c.op = "-D" => c.entry.id # 0, NEW t, Holds(live, t)
  PROVE  Holds(live', t)
<1> SUFFICES ASSUME NEW i \in Enabled(t), IsBlock(t[i].shape), NEW ch \in {"FORWARD", "INPUT"}
             PROVE  LiveEntry(i, t[i].shape) \in ToSet(live'[ch])
  BY DEF Holds
<1>1. LiveEntry(i, t[i].shape).id = 0
  BY DEF LiveEntry
<1> DEFINE e == LiveEntry(i, t[i].shape)
<1>2. e \in ToSet(live[ch]) /\ e.id = 0
  BY <1>1 DEF Holds
<1> HIDE DEF e
<1>3. ~TakesOut(c, ch, e) /\ ch \in Chains
  BY <1>2 DEF TakesOut, Chains
<1>4. e \in ToSet(live'[ch])
  BY <1>2, <1>3, HeldBy
<1> QED
  BY <1>4 DEF e

\* A chain fits on when it gains or loses entries without a tag.
LEMMA FittingKept ==
  ASSUME NEW s, NEW s1, Kin(s, s1), NEW t, FiniteTable(t), NEW c, NEW cmds, Fitting(s, cmds, t, c)
  PROVE  Fitting(s1, cmds, t, c)
<1> DEFINE S == Wanted(t, c)
<1>1. 0 \notin S
  BY DEF Wanted, Enabled, FiniteTable, IsTable
<1>2. /\ \A k \in DOMAIN s : s[k].id # 0 => Genuine(s[k], S, t)
      /\ \A m \in 1..Len(cmds) : Genuine(cmds[m].entry, S, t)
      /\ Fits(s, cmds, t, S)
  BY DEF Fitting
<1> HIDE DEF S
<1>3. /\ \A k \in DOMAIN s : s[k].id # 0 => s[k].id \in S
      /\ \A m \in 1..Len(cmds) : cmds[m].entry.id \in S
  BY <1>2 DEF Genuine
<1>4. Fits(s1, cmds, t, S)
  BY <1>1, <1>2, <1>3, FitsKept
<1>5. ASSUME NEW k \in DOMAIN s1, s1[k].id # 0
      PROVE  Genuine(s1[k], S, t)
  <2>1. PICK j \in DOMAIN s : s[j] = s1[k]
    BY <1>5 DEF Kin
  <2> QED
    BY <1>2, <1>5, <2>1
<1> QED
  BY <1>2, <1>4, <1>5 DEF Fitting, S

\* The fill of a stripped chain will make it fit.
LEMMA FittingFresh ==
  ASSUME NEW t, FiniteTable(t), NEW c \in Chains, NEW s, \A k \in DOMAIN s : s[k].id = 0
  PROVE  Fitting(s, FillCommands(t, c), t, c)
BY FitsFresh, FillGenuine DEF Fitting

\* Each command of a fill brings it closer.
LEMMA FittingMoved ==
  ASSUME NEW s \in Seq(Entry), NEW cmds \in Seq(Command), cmds # <<>>, NEW t, NEW c,
         Fitting(s, cmds, t, c)
  PROVE  Fitting(Append(s, Head(cmds).entry), Tail(cmds), t, c)
<1> DEFINE e == Head(cmds).entry
           s1 == Append(s, e)
           x == Tail(cmds)
           S == Wanted(t, c)
<1>1. /\ Head(cmds) = cmds[1] /\ 1 \in 1..Len(cmds) /\ Head(cmds) \in Command
      /\ \A k \in 1..Len(x) : k + 1 \in 1..Len(cmds) /\ x[k] = cmds[k + 1]
  BY OnTail
<1>2. /\ \A k \in DOMAIN s : s[k].id # 0 => Genuine(s[k], S, t)
      /\ \A m \in 1..Len(cmds) : Genuine(cmds[m].entry, S, t)
      /\ Fits(s1, x, t, S)
  BY FitsMoved DEF Fitting
<1>3. e \in Entry /\ Genuine(e, S, t)
  BY <1>1, <1>2 DEF Command
<1>4. /\ DOMAIN s1 = 1..Len(s) + 1 /\ s1[Len(s) + 1] = e /\ DOMAIN s = 1..Len(s)
      /\ \A k \in 1..Len(s) : s1[k] = s[k]
  BY <1>3, AppendProperties
<1>5. \A m \in 1..Len(x) : Genuine(x[m].entry, S, t)
  BY <1>1, <1>2
<1> HIDE DEF e, s1, x, S
<1>6. \A k \in DOMAIN s1 : k \in DOMAIN s \/ k = Len(s) + 1
  BY <1>4
<1>7. \A k \in DOMAIN s1 : s1[k].id # 0 => Genuine(s1[k], S, t)
  BY <1>2, <1>3, <1>4, <1>6
<1> QED
  BY <1>2, <1>5, <1>7 DEF Fitting, s1, x, S, e

\* What the operator appends disturbs none of it.
LEMMA SyncingAppend ==
  ASSUME SyncInv, NEW w \in Workers, pc[w] # "idle", job[w].req.op = "sync",
         NEW m \in ManualRules, ManualAppend(m[1], m[2])
  PROVE  Syncing(pc[w], job[w], live', rules)
<1>0. /\ LockInv /\ Inv /\ Syncing(pc[w], job[w], live, rules) /\ FiniteTable(rules)
      /\ live \in [Chains -> Seq(Entry)]
  BY OfWorker DEF SyncInv, LockInv
<1>1. m[1] \in Chains /\ m[2] \in Shape
      /\ live' = [live EXCEPT ![m[1]] = Append(@, [id |-> 0, shape |-> m[2]])]
  BY ManualAssumption DEF ManualAppend
<1>2. PICK e : e = [id |-> 0, shape |-> m[2]]
  OBVIOUS
<1>3. e \in Entry /\ e.id = 0
  BY <1>1, <1>2 DEF Entry
<1>4. \A c \in Chains : live'[c] = live[c] \/ live'[c] = Append(live[c], e)
  BY <1>0, <1>1, <1>2
<1>5. \A c \in Chains : Kin(live[c], live'[c])
  BY <1>0, AppendKin
<1>6. ASSUME NEW c \in Chains
      PROVE  /\ Len(live[c]) \in Nat /\ DOMAIN live[c] = 1..Len(live[c])
             /\ \A k \in DOMAIN live[c] : k \in DOMAIN live'[c] /\ live'[c][k] = live[c][k]
             /\ \A k \in DOMAIN live'[c] : k \in DOMAIN live[c] \/ live'[c][k].id = 0
  <2>1. PICK s : s = live[c]
    OBVIOUS
  <2>2. s \in Seq(Entry)
    BY <1>0, <2>1
  <2>3. Len(s) \in Nat /\ DOMAIN s = 1..Len(s)
    BY <2>2
  <2>4. PICK s1 : s1 = Append(s, e)
    OBVIOUS
  <2>5. /\ DOMAIN s1 = 1..Len(s) + 1 /\ s1[Len(s) + 1] = e
        /\ \A k \in 1..Len(s) : s1[k] = s[k]
    BY <1>3, <2>2, <2>4, AppendProperties
  <2>6. /\ \A k \in DOMAIN s : k \in DOMAIN s1 /\ s1[k] = s[k]
        /\ \A k \in DOMAIN s1 : k \in DOMAIN s \/ s1[k].id = 0
    BY <1>3, <2>3, <2>5
  <2> QED
    BY <1>4, <2>1, <2>3, <2>4, <2>6
<1>7. ASSUME NEW ch \in Chains, NEW x, x \in ToSet(live[ch])
      PROVE  x \in ToSet(live'[ch])
  BY <1>6, <1>7 DEF ToSet
<1>8. {"FORWARD", "INPUT"} \subseteq Chains
  BY DEF Chains
<1>9. Holds(live, rules) => Holds(live', rules)
  BY <1>7, <1>8 DEF Holds
<1>10. ASSUME NEW ch \in {"FORWARD", "INPUT"}, NEW x, WillHold(job[w].cmds, live[ch], ch, x)
       PROVE  WillHold(job[w].cmds, live'[ch], ch, x)
  <2>1. x \in ToSet(live[ch]) => x \in ToSet(live'[ch])
    BY <1>7, <1>8
  <2>2. PICK k \in 0..Len(job[w].cmds) :
          /\ IF k = 0 THEN x \in ToSet(live[ch]) ELSE PutsIn(job[w].cmds[k], ch, x)
          /\ \A n \in 1..Len(job[w].cmds) : n > k => ~TakesOut(job[w].cmds[n], ch, x)
    BY <1>10 DEF WillHold
  <2>3. IF k = 0 THEN x \in ToSet(live'[ch]) ELSE PutsIn(job[w].cmds[k], ch, x)
    BY <2>1, <2>2
  <2> QED
    BY <2>2, <2>3 DEF WillHold
<1>11. \A c \in Chains : \A cmds : Fitting(live[c], cmds, rules, c) => Fitting(live'[c], cmds, rules, c)
  BY <1>0, <1>5, FittingKept
<1>12. ASSUME NEW c \in Chains, NEW cmds, Stripping(live[c], cmds)
       PROVE  Stripping(live'[c], cmds)
  <2>1. PICK f \in [1..Len(cmds) -> DOMAIN live[c]] :
          /\ \A k \in 1..Len(cmds) : live[c][f[k]] = cmds[k].entry
          /\ \A k, n \in 1..Len(cmds) : k < n => f[k] < f[n]
          /\ \A n \in DOMAIN live[c] : live[c][n].id # 0 <=> \E k \in 1..Len(cmds) : f[k] = n
    BY <1>12 DEF Stripping
  <2>2. f \in [1..Len(cmds) -> DOMAIN live'[c]]
    BY <1>6, <2>1
  <2>3. \A k \in 1..Len(cmds) : live'[c][f[k]] = cmds[k].entry
    BY <1>6, <2>1
  <2>4. ASSUME NEW n \in DOMAIN live'[c]
        PROVE  live'[c][n].id # 0 <=> \E k \in 1..Len(cmds) : f[k] = n
    <3>1. CASE n \in DOMAIN live[c]
      BY <1>6, <2>1, <3>1
    <3>2. CASE n \notin DOMAIN live[c]
      BY <1>6, <2>1, <3>2
    <3> QED
      BY <3>1, <3>2
  <2>5. \A k, n \in 1..Len(cmds) : k < n => f[k] < f[n]
    BY <2>1
  <2>6. \A n \in DOMAIN live'[c] : live'[c][n].id # 0 <=> \E k \in 1..Len(cmds) : f[k] = n
    BY <2>4
  <2> QED
    BY <2>2, <2>3, <2>5, <2>6, Zenon DEF Stripping
<1>13. pc[w] \in {"strip", "fill"} => Head(job[w].chains) \in Chains
  BY <1>0, AtChain
<1>14. pc[w] = "strip" => Stripping(live'[Head(job[w].chains)], job[w].cmds)
  BY <1>0, <1>12, <1>13 DEF Syncing
<1>15. pc[w] = "fill" =>
          Fitting(live'[Head(job[w].chains)], job[w].cmds, rules, Head(job[w].chains))
  BY <1>0, <1>11, <1>13 DEF Syncing
<1> QED
  BY <1>0, <1>9, <1>10, <1>11, <1>14, <1>15 DEF Syncing

\* A synchronisation in flight, and what its steps rest on.
LEMMA OfSync ==
  ASSUME SyncInv, NEW w \in Workers, pc[w] # "idle", job[w].req.op = "sync"
  PROVE  /\ LockInv /\ Inv /\ IsJob(job[w]) /\ PlaceOK(pc[w], job[w])
         /\ Syncing(pc[w], job[w], live, rules) /\ pc[w] \in SyncPlaces
         /\ FiniteTable(rules) /\ live \in [Chains -> Seq(Entry)]
         /\ job[w].cmds \in Seq(Command) /\ job[w].chains \in Seq(Chains)
BY OfWorker DEF SyncInv, LockInv, Syncing, IsJob

\* Its commands will put every block back, its chains are those rows need.
LEMMA SyncingStart ==
  ASSUME SyncInv, NEW w \in Workers, pc[w] # "idle", job[w].req.op = "sync", SyncStart(w)
  PROVE  Syncing(pc'[w], job'[w], live', rules')
<1>0. Inv /\ FiniteTable(rules)
  BY OfSync
<1> DEFINE needed == {c \in Chains : \E i \in Enabled(rules) : InChain(rules, i, c)}
<1>1. PICK order \in Orders(needed) :
        job' = [job EXCEPT ![w].cmds = SyncCommands(rules), ![w].chains = order]
  BY DEF SyncStart
<1>2. pc'[w] = "sync" /\ live' = live /\ rules' = rules
  BY <1>0, Goes DEF SyncStart
<1>3. job'[w].cmds = SyncCommands(rules) /\ job'[w].chains = order
  <2>1. PICK x, y : x = SyncCommands(rules) /\ y = order
    OBVIOUS
  <2>2. job' = [job EXCEPT ![w].cmds = x, ![w].chains = y]
    BY <1>1, <2>1
  <2>3. job'[w].cmds = x /\ job'[w].chains = y
    BY <1>0, <2>2, OfWorker DEF IsJob, NoJob, Inv
  <2> QED
    BY <2>1, <2>3
<1>4. ToSet(order) = needed
  BY <1>1, OrdersCover
<1>5. \A c \in Chains : Wanted(rules, c) # {} => c \in ToSet(order)
  BY <1>4 DEF Wanted
<1> HIDE DEF needed
<1>6. /\ SkipsDeletes(SyncCommands(rules))
      /\ \A i \in Enabled(rules) : IsBlock(rules[i].shape) =>
            \A ch \in {"FORWARD", "INPUT"} :
               WillHold(SyncCommands(rules), live[ch], ch, LiveEntry(i, rules[i].shape))
  BY <1>0, SyncHolds
<1> QED
  BY <1>2, <1>3, <1>5, <1>6 DEF Syncing, SyncPlaces

\* The first loop, whether its commands succeed or not.
LEMMA SyncingCommand ==
  ASSUME SyncInv, NEW w \in Workers, pc[w] = "sync", job[w].req.op = "sync", RunCommand(w)
  PROVE  Syncing(pc'[w], job'[w], live', rules')
<1>0. /\ Inv /\ live \in [Chains -> Seq(Entry)] /\ job[w].cmds \in Seq(Command)
      /\ Syncing("sync", job[w], live, rules)
  BY OfSync
<1>1. PICK cmds : cmds = job[w].cmds
  OBVIOUS
<1>2. PICK x : x = Tail(cmds)
  OBVIOUS
<1>3. /\ cmds # <<>> /\ Executable(Head(cmds)) /\ live' = Executed(Head(cmds))
      /\ job' = [job EXCEPT ![w].cmds = x] /\ pc'[w] = "sync" /\ rules' = rules
  BY <1>1, <1>2 DEF RunCommand
<1>4. job'[w].cmds = x /\ job'[w].chains = job[w].chains
  BY <1>0, <1>3, Assigned
<1>5. /\ Head(cmds) \in Command /\ Head(cmds) = cmds[1] /\ 1 \in 1..Len(cmds)
      /\ x \in Seq(Command) /\ Len(x) = Len(cmds) - 1
      /\ \A k \in 1..Len(x) : x[k] = cmds[k + 1]
  BY <1>0, <1>1, <1>2, <1>3, OnTail
<1>6. cmds \in Seq(Command) /\ 1 \in 0..Len(cmds) /\ Len(cmds) \in Nat /\ Len(x) \in Nat
  BY <1>0, <1>1, <1>5
<1>7. Rest(cmds, 1, x)
  <2>1. \A k \in 1..Len(x) : k + 1 = 1 + k
    BY <1>6
  <2> QED
    BY <1>5, <2>1 DEF Rest
<1>8. /\ SkipsDeletes(cmds)
      /\ \A i \in Enabled(rules) : IsBlock(rules[i].shape) =>
            \A ch \in {"FORWARD", "INPUT"} :
               WillHold(cmds, live[ch], ch, LiveEntry(i, rules[i].shape))
      /\ \A c \in Chains : Wanted(rules, c) # {} => c \in ToSet(job[w].chains)
  BY <1>0, <1>1 DEF Syncing
<1>9. SkipsDeletes(x)
  BY <1>6, <1>7, <1>8, RestSkips
<1>10. ASSUME NEW ch \in {"FORWARD", "INPUT"}, NEW e, WillHold(cmds, live[ch], ch, e)
       PROVE  WillHold(x, live'[ch], ch, e)
  <2>1. ch \in Chains
    BY DEF Chains
  <2>2. /\ e \in ToSet(live[ch]) /\ ~TakesOut(cmds[1], ch, e) => e \in ToSet(live'[ch])
        /\ PutsIn(cmds[1], ch, e) => e \in ToSet(live'[ch])
    BY <1>0, <1>3, <1>5, <2>1, HeldBy
  <2>3. \A m \in 1..1 : m = 1
    OBVIOUS
  <2>4. e \in ToSet(live[ch]) /\ (\A m \in 1..1 : ~TakesOut(cmds[m], ch, e)) => e \in ToSet(live'[ch])
    BY <2>2
  <2>5. \A m \in 1..1 : PutsIn(cmds[m], ch, e) => e \in ToSet(live'[ch])
    BY <2>2, <2>3
  <2> QED
    BY <1>6, <1>7, <1>10, <2>4, <2>5, RestHolds
<1> QED
  BY <1>3, <1>4, <1>8, <1>9, <1>10 DEF Syncing, SyncPlaces

\* A command that fails is a delete, and what it gives up are deletes.
LEMMA SyncingFailure ==
  ASSUME ~IptablesFails, SyncInv, NEW w \in Workers, pc[w] = "sync", job[w].req.op = "sync",
         FailCommand(w)
  PROVE  Syncing(pc'[w], job'[w], live', rules')
<1>0. /\ Inv /\ live \in [Chains -> Seq(Entry)] /\ job[w].cmds \in Seq(Command)
      /\ Syncing("sync", job[w], live, rules)
  BY OfSync
<1>1. PICK cmds : cmds = job[w].cmds
  OBVIOUS
<1> DEFINE c == Head(cmds)
<1>2. PICK x : x = SubSeq(cmds, 2 + c.skip, Len(cmds))
  OBVIOUS
<1>3. /\ cmds # <<>> /\ ~Executable(c) /\ live' = live
      /\ job' = [job EXCEPT ![w].cmds = x] /\ pc'[w] = "sync" /\ rules' = rules
  BY <1>1, <1>2 DEF FailCommand
<1>4. job'[w].cmds = x /\ job'[w].chains = job[w].chains
  BY <1>0, <1>3, Assigned
<1>5. c \in Command /\ c = cmds[1] /\ 1 \in 1..Len(cmds)
  BY <1>0, <1>1, <1>3, OnTail
<1>6. cmds \in Seq(Command) /\ Len(cmds) \in Nat /\ c.op = "-D" /\ c.skip \in Nat
  BY <1>0, <1>1, <1>3, <1>5 DEF Executable, Command
<1>7. /\ SkipsDeletes(cmds)
      /\ \A i \in Enabled(rules) : IsBlock(rules[i].shape) =>
            \A ch \in {"FORWARD", "INPUT"} :
               WillHold(cmds, live[ch], ch, LiveEntry(i, rules[i].shape))
      /\ \A d \in Chains : Wanted(rules, d) # {} => d \in ToSet(job[w].chains)
  BY <1>0, <1>1 DEF Syncing
<1> HIDE DEF c
<1> DEFINE n == IF 1 + c.skip <= Len(cmds) THEN 1 + c.skip ELSE Len(cmds)
<1>8. n \in 0..Len(cmds) /\ Rest(cmds, n, x)
  <2>1. n \in 0..Len(cmds)
    BY <1>6
  <2>2. 2 + c.skip \in Int /\ Len(cmds) \in Int
    BY <1>6
  <2>3. \A i \in (2 + c.skip)..Len(cmds) : cmds[i] \in Command
    BY <1>6
  <2>4. /\ x \in Seq(Command)
        /\ Len(x) = IF 2 + c.skip <= Len(cmds) THEN Len(cmds) - (2 + c.skip) + 1 ELSE 0
        /\ \A i \in 1..Len(cmds) - (2 + c.skip) + 1 : x[i] = cmds[(2 + c.skip) + i - 1]
    BY <1>2, <2>2, <2>3, SubSeqProperties
  <2>5. Len(x) = Len(cmds) - n
    BY <1>6, <2>4
  <2>6. ASSUME NEW k \in 1..Len(x)
        PROVE  x[k] = cmds[n + k]
    <3>1. 2 + c.skip <= Len(cmds) /\ k \in 1..Len(cmds) - (2 + c.skip) + 1
          /\ (2 + c.skip) + k - 1 = n + k
      BY <1>6, <2>4
    <3> QED
      BY <2>4, <3>1
  <2> QED
    BY <2>1, <2>4, <2>5, <2>6 DEF Rest
<1>9. ASSUME NEW m \in 1..n
      PROVE  cmds[m].op = "-D"
  <2>1. m \in 1..Len(cmds) /\ m <= 1 + c.skip
    BY <1>6
  <2>2. CASE m = 1
    BY <1>5, <1>6, <2>2
  <2>3. CASE m # 1
    <3>1. 1 < m /\ m <= 1 + cmds[1].skip /\ cmds[1].op = "-D"
      BY <1>5, <1>6, <2>1, <2>3
    <3> QED
      BY <1>5, <1>7, <2>1, <3>1 DEF SkipsDeletes
  <2> QED
    BY <2>2, <2>3
<1> HIDE DEF n
<1>10. SkipsDeletes(x)
  BY <1>6, <1>7, <1>8, RestSkips
<1>11. ASSUME NEW ch \in {"FORWARD", "INPUT"}, NEW i \in Enabled(rules), IsBlock(rules[i].shape)
       PROVE  WillHold(x, live'[ch], ch, LiveEntry(i, rules[i].shape))
  <2> DEFINE e == LiveEntry(i, rules[i].shape)
  <2>1. WillHold(cmds, live[ch], ch, e)
    BY <1>7, <1>11
  <2> HIDE DEF e
  <2>2. \A m \in 1..n : ~PutsIn(cmds[m], ch, e)
    BY <1>9 DEF PutsIn
  <2>3. \A m \in 1..n : PutsIn(cmds[m], ch, e) => e \in ToSet(live[ch])
    BY <2>2
  <2>4. WillHold(x, live[ch], ch, e)
    BY <1>6, <1>8, <2>1, <2>3, RestHolds
  <2> QED
    BY <1>3, <2>4 DEF e
<1> QED
  BY <1>3, <1>4, <1>7, <1>10, <1>11 DEF Syncing, SyncPlaces

\* Once the last block is in, all are held.
LEMMA SyncingBlocks ==
  ASSUME SyncInv, NEW w \in Workers, pc[w] = "sync", job[w].req.op = "sync", SyncBlocksDone(w)
  PROVE  /\ Holds(live, rules) /\ live' = live /\ rules' = rules
         /\ job[w].chains = <<>> => \A c \in Chains : Wanted(rules, c) = {}
         /\ pc'[w] # "idle" => Syncing(pc'[w], job'[w], live', rules')
<1>0. /\ Inv /\ Syncing("sync", job[w], live, rules) /\ job[w].chains \in Seq(Chains)
  BY OfSync
<1>1. job[w].cmds = <<>> /\ live' = live /\ rules' = rules
      /\ (pc'[w] # "idle" => pc'[w] = "flock" /\ job'[w] = job[w])
  BY <1>0, Goes DEF SyncBlocksDone
<1>2. /\ \A i \in Enabled(rules) : IsBlock(rules[i].shape) =>
            \A ch \in {"FORWARD", "INPUT"} :
               WillHold(<<>>, live[ch], ch, LiveEntry(i, rules[i].shape))
      /\ \A c \in Chains : Wanted(rules, c) # {} => c \in ToSet(job[w].chains)
  BY <1>0, <1>1 DEF Syncing
<1>3. ASSUME NEW s, NEW ch, NEW e, WillHold(<<>>, s, ch, e)
      PROVE  e \in ToSet(s)
  <2>1. Len(<<>>) = 0 /\ \A k \in 0..0 : k = 0
    OBVIOUS
  <2> QED
    BY <1>3, <2>1 DEF WillHold
<1>4. Holds(live, rules)
  BY <1>2, <1>3 DEF Holds
<1>5. job[w].chains = <<>> => ToSet(job[w].chains) = {}
  BY DEF ToSet
<1> QED
  BY <1>1, <1>2, <1>4, <1>5 DEF Syncing, SyncPlaces

\* A rebuild finds what it deletes, and what it appends cannot fail.
LEMMA SyncRuns ==
  ASSUME ~IptablesFails, SyncInv, NEW w \in Workers, pc[w] \in {"strip", "fill"},
         job[w].req.op = "sync"
  PROVE  ~FailCommand(w)
<1> SUFFICES ASSUME FailCommand(w)
             PROVE  FALSE
  OBVIOUS
<1>0. /\ Shaped(pc[w], job[w]) /\ job[w].cmds \in Seq(Command) /\ live \in [Chains -> Seq(Entry)]
      /\ Syncing(pc[w], job[w], live, rules) /\ Head(job[w].chains) \in Chains
  BY OfSync, AtChain DEF LockInv
<1>1. PICK cmds : cmds = job[w].cmds
  OBVIOUS
<1>2. cmds # <<>> /\ ~Executable(Head(cmds)) /\ cmds \in Seq(Command)
  BY <1>0, <1>1 DEF FailCommand
<1>3. Head(cmds) = cmds[1] /\ 1 \in 1..Len(cmds)
  BY <1>2, OnTail
<1>4. CASE pc[w] = "strip"
  <2>1. PICK s : s = live[Head(job[w].chains)]
    OBVIOUS
  <2>2. s \in Seq(Entry) /\ Stripping(s, cmds)
    BY <1>0, <1>1, <1>4, <2>1 DEF Syncing
  <2>3. Head(cmds).entry \in ToSet(s)
    BY <1>2, <2>2, StripMoves
  <2>4. Head(cmds).chain = Head(job[w].chains)
    BY <1>0, <1>1, <1>3, <1>4 DEF Shaped, AllOn
  <2> QED
    BY <1>2, <2>1, <2>3, <2>4 DEF Executable
<1>5. CASE pc[w] = "fill"
  BY <1>0, <1>1, <1>2, <1>3, <1>5 DEF Shaped, AllOn, Executable
<1> QED
  BY <1>4, <1>5

\* What a rebuild's command does to the chains and to the blocks.
LEMMA SyncingRun ==
  ASSUME SyncInv, NEW w \in Workers, pc[w] \in {"strip", "fill"}, job[w].req.op = "sync",
         RunCommand(w)
  PROVE  Syncing(pc'[w], job'[w], live', rules')
<1>0. /\ Inv /\ LockInv /\ Shaped(pc[w], job[w]) /\ job[w].cmds \in Seq(Command)
      /\ live \in [Chains -> Seq(Entry)] /\ job[w].chains \in Seq(Chains)
      /\ Syncing(pc[w], job[w], live, rules) /\ Head(job[w].chains) \in Chains
  BY OfSync, AtChain DEF LockInv
<1>1. PICK cmds : cmds = job[w].cmds
  OBVIOUS
<1>2. PICK x : x = Tail(cmds)
  OBVIOUS
<1>3. PICK h \in Chains : h = Head(job[w].chains)
  BY <1>0
<1>4. PICK s : s = live[h]
  OBVIOUS
<1>5. /\ cmds \in Seq(Command) /\ cmds # <<>> /\ Head(cmds) \in Command
      /\ live' = Executed(Head(cmds)) /\ Head(cmds).chain = h /\ Executable(Head(cmds))
      /\ pc[w] = "fill" => Head(cmds).op = "-A"
  BY <1>0, <1>1, <1>3, RunsOnItsChain DEF RunCommand
<1>6. /\ job' = [job EXCEPT ![w].cmds = x] /\ pc' = pc /\ rules' = rules
  BY <1>1, <1>2 DEF RunCommand
<1>7. job'[w].cmds = x /\ job'[w].chains = job[w].chains
  BY <1>0, <1>6, Assigned
<1>8. Head(cmds) = cmds[1] /\ 1 \in 1..Len(cmds) /\ s \in Seq(Entry)
  BY <1>0, <1>4, <1>5, OnTail
<1>9. /\ Holds(live, rules)
      /\ \A c \in Chains : Wanted(rules, c) # {} =>
            c \in ToSet(job[w].chains) \/ Fitting(live[c], <<>>, rules, c)
  BY <1>0 DEF Syncing, SyncPlaces
<1>10. pc[w] = "strip" => Stripping(s, cmds) /\ Head(cmds).op = "-D" /\ Head(cmds).entry.id # 0
  <2>1. ASSUME pc[w] = "strip"
        PROVE  Stripping(s, cmds) /\ Head(cmds).op = "-D"
    BY <1>0, <1>1, <1>3, <1>4, <1>8, <2>1 DEF Syncing, Shaped, AllOn
  <2>2. ASSUME Stripping(s, cmds)
        PROVE  cmds[1].entry.id # 0
    BY <1>8, <2>2 DEF Stripping
  <2> QED
    BY <1>8, <2>1, <2>2
<1>11. Holds(live', rules)
  <2>1. Head(cmds).op = "-D" => Head(cmds).entry.id # 0
    BY <1>5, <1>10
  <2> QED
    BY <1>0, <1>5, <1>9, <2>1, HoldsOn
<1>12. ASSUME NEW c \in Chains, Wanted(rules, c) # {}
       PROVE  c \in ToSet(job[w].chains) \/ Fitting(live'[c], <<>>, rules, c)
  <2>1. CASE c = h
    <3>1. job[w].chains # <<>>
      BY <1>0, OfSync DEF PlaceOK
    <3>2. h = job[w].chains[1] /\ 1 \in DOMAIN job[w].chains
      BY <1>0, <1>3, <3>1, HeadTailProperties, EmptySeq
    <3> QED
      BY <2>1, <3>2 DEF ToSet
  <2>2. CASE c # h
    <3>1. live'[c] = live[c]
      BY <1>0, <1>5, <2>2, ExecutedIs
    <3> QED
      BY <1>9, <1>12, <3>1
  <2> QED
    BY <2>1, <2>2
<1>13. pc[w] = "strip" => Stripping(live'[h], x)
  <2> SUFFICES ASSUME pc[w] = "strip"
               PROVE  Stripping(live'[h], x)
    OBVIOUS
  <2>1. live'[h] = RemoveFirst(s, Head(cmds).entry)
    BY <1>0, <1>4, <1>5, <1>10, ExecutedIs
  <2> QED
    BY <1>2, <1>5, <1>8, <1>10, <2>1, StripMoves
<1>14. pc[w] = "fill" => Fitting(live'[h], x, rules, h)
  <2> SUFFICES ASSUME pc[w] = "fill"
               PROVE  Fitting(live'[h], x, rules, h)
    OBVIOUS
  <2>1. live'[h] = Append(s, Head(cmds).entry)
    BY <1>0, <1>4, <1>5, ExecutedIs
  <2>2. Fitting(s, cmds, rules, h)
    BY <1>0, <1>1, <1>3, <1>4 DEF Syncing
  <2> QED
    BY <1>2, <1>5, <1>8, <2>1, <2>2, FittingMoved
<1> QED
  BY <1>3, <1>6, <1>7, <1>11, <1>12, <1>13, <1>14 DEF Syncing, SyncPlaces

\* The steps between the commands of a rebuild.
LEMMA SyncingRebuild ==
  ASSUME SyncInv, NEW w \in Workers, pc[w] # "idle", job[w].req.op = "sync",
         TakeFlock(w) \/ ListChain(w) \/ ReloadRules(w)
  PROVE  Syncing(pc'[w], job'[w], live', rules')
<1>0. /\ Inv /\ LockInv /\ live \in [Chains -> Seq(Entry)] /\ FiniteTable(rules)
      /\ Syncing(pc[w], job[w], live, rules)
  BY OfSync
<1>1. pc[w] \in {"flock", "list", "strip"} /\ live' = live /\ rules' = rules
  BY DEF TakeFlock, ListChain, ReloadRules
<1>2. /\ Holds(live, rules)
      /\ \A c \in Chains : Wanted(rules, c) # {} =>
            c \in ToSet(job[w].chains) \/ Fitting(live[c], <<>>, rules, c)
  BY <1>0, <1>1 DEF Syncing, SyncPlaces
<1>3. CASE TakeFlock(w)
  <2>1. pc'[w] = "list" /\ job' = job
    BY <1>0, <1>3, Goes DEF TakeFlock
  <2> QED
    BY <1>1, <1>2, <2>1 DEF Syncing, SyncPlaces
<1>4. CASE ListChain(w)
  <2>1. PICK x : x = StripCommands(Head(job[w].chains))
    OBVIOUS
  <2>2. pc'[w] = "strip" /\ job' = [job EXCEPT ![w].cmds = x] /\ pc[w] = "list"
    BY <1>0, <1>4, <2>1, Goes DEF ListChain
  <2>3. job'[w].cmds = x /\ job'[w].chains = job[w].chains
    BY <1>0, <2>2, Assigned
  <2>4. Stripping(live[Head(job[w].chains)], x)
    BY <1>0, <2>1, <2>2, AtChain, StripListed
  <2> QED
    BY <1>1, <1>2, <2>2, <2>3, <2>4 DEF Syncing, SyncPlaces
<1>5. CASE ReloadRules(w)
  <2>1. PICK h : h = Head(job[w].chains)
    OBVIOUS
  <2>2. PICK x : x = FillCommands(rules, h)
    OBVIOUS
  <2>3. /\ pc'[w] = "fill" /\ job' = [job EXCEPT ![w].cmds = x] /\ pc[w] = "strip"
        /\ job[w].cmds = <<>>
    BY <1>0, <1>5, <2>1, <2>2, Goes DEF ReloadRules
  <2>4. job'[w].cmds = x /\ job'[w].chains = job[w].chains
    BY <1>0, <2>3, Assigned
  <2>5. h \in Chains /\ Stripping(live[h], <<>>)
    BY <1>0, <2>1, <2>3, AtChain DEF Syncing
  <2>6. \A k \in DOMAIN live[h] : live[h][k].id = 0
    <3>1. ~\E k \in 1..Len(<<>>) : TRUE
      OBVIOUS
    <3> QED
      BY <2>5, <3>1 DEF Stripping
  <2>7. Fitting(live[h], x, rules, h)
    BY <1>0, <2>2, <2>5, <2>6, FittingFresh
  <2> QED
    BY <1>1, <1>2, <2>1, <2>3, <2>4, <2>7 DEF Syncing, SyncPlaces
<1> QED
  BY <1>3, <1>4, <1>5

\* A chain whose fill is over fits.
LEMMA SyncingRebuilt ==
  ASSUME SyncInv, NEW w \in Workers, pc[w] = "fill", job[w].req.op = "sync", ChainRebuilt(w)
  PROVE  /\ Holds(live, rules) /\ live' = live /\ rules' = rules
         /\ \A c \in Chains : Wanted(rules, c) # {} =>
               c \in ToSet(Tail(job[w].chains)) \/ Fitting(live[c], <<>>, rules, c)
         /\ pc'[w] # "idle" => Syncing(pc'[w], job'[w], live', rules')
         /\ pc'[w] = "idle" => Tail(job[w].chains) = <<>>
<1>0. /\ Inv /\ Syncing("fill", job[w], live, rules) /\ job[w].chains \in Seq(Chains)
  BY OfSync
<1>1. PICK rest : rest = Tail(job[w].chains)
  OBVIOUS
<1>2. job[w].cmds = <<>> /\ live' = live /\ rules' = rules
  BY DEF ChainRebuilt
<1>3. /\ Holds(live, rules)
      /\ \A c \in Chains : Wanted(rules, c) # {} =>
            c \in ToSet(job[w].chains) \/ Fitting(live[c], <<>>, rules, c)
      /\ Fitting(live[Head(job[w].chains)], <<>>, rules, Head(job[w].chains))
  BY <1>0, <1>2 DEF Syncing, SyncPlaces
<1>4. \A c \in Chains : Wanted(rules, c) # {} =>
         c \in ToSet(rest) \/ Fitting(live[c], <<>>, rules, c)
  BY <1>0, <1>1, <1>3, InTail
<1>5. CASE rest = <<>>
  <2>1. pc'[w] = "idle"
    BY <1>0, <1>1, <1>5, Goes DEF ChainRebuilt
  <2> QED
    BY <1>1, <1>2, <1>3, <1>4, <1>5, <2>1
<1>6. CASE rest # <<>>
  <2>1. pc'[w] = "flock" /\ job' = [job EXCEPT ![w].chains = rest]
    BY <1>0, <1>1, <1>6, Goes DEF ChainRebuilt
  <2>2. job'[w].chains = rest
    BY <1>0, <2>1, Assigned
  <2>3. Syncing(pc'[w], job'[w], live', rules')
    BY <1>2, <1>3, <1>4, <2>1, <2>2 DEF Syncing, SyncPlaces
  <2> QED
    BY <1>1, <1>2, <1>3, <1>4, <2>1, <2>3
<1> QED
  BY <1>5, <1>6

\* Nothing is in flight at first, and every step keeps what is promised.
LEMMA SyncInit == Init => SyncInv
<1> SUFFICES ASSUME Init
             PROVE  SyncInv
  OBVIOUS
<1>1. \A w \in Workers : pc[w] = "idle"
  BY DEF Init
<1> QED
  BY <1>1, LockInit DEF SyncInv

LEMMA SyncNext ==
  ASSUME Alone, ~IptablesFails, SyncInv, [CalmNext]_vars
  PROVE  SyncInv'
<1>1. /\ LockInv /\ LockInv' /\ Inv
  <2>1. [Next]_vars
    BY DEF CalmNext
  <2> QED
    BY <2>1, LockNext DEF SyncInv, LockInv
<1>2. ASSUME NEW w \in Workers, pc'[w] # "idle", job'[w].req.op = "sync"
      PROVE  Syncing(pc'[w], job'[w], live', rules')
  <2>0. \A v \in Workers : v = w
    BY DEF Alone
  <2>1. CASE UNCHANGED vars
    BY <1>2, <2>1 DEF vars, SyncInv
  <2>2. CASE CalmNext /\ pc[w] = "idle"
    <3>1. ~Step(w)
      BY <2>2 DEF Step, Transaction, Lock, LockTimeout, Read, AddInput, Toggle, Disable, Delete,
                  TakeOut, Reorder, Block, Unblock, UnblockCommit, Deciding, UnlockedInsert,
                  ReadMax, Insert, Commands, RunCommand, FailCommand, Applied, Undo, Running,
                  Rebuild, SyncStart, SyncBlocksDone, TakeFlock, ListChain, ListFails, ReloadRules,
                  ChainRebuilt, Discovery, Snapshot, ScanChain, ScanFails, Adopt, Claim,
                  DropAdopted, ChainScanned, AllScanned
    <3>2. PICK r \in Requests : Receive(w, r)
      BY <1>2, <2>0, <2>2, <3>1 DEF CalmNext, Next, Environment, ManualAppend, ManualDelete, Flush,
                                    Crash
    <3>3. PICK j : j = [NoJob EXCEPT !.req = r]
      OBVIOUS
    <3>4. j.req = r /\ job' = [job EXCEPT ![w] = j] /\ Goto(w, EntryPlace(r))
      BY <3>2, <3>3 DEF Receive, NoJob
    <3>5. job'[w] = j
      BY <1>1, <3>4, Goes
    <3>6. pc'[w] = "start"
      BY <1>1, <1>2, <3>4, <3>5, Goes DEF EntryPlace
    <3> QED
      BY <3>6 DEF Syncing, SyncPlaces
  <2>3. CASE CalmNext /\ pc[w] # "idle"
    <3>1. CASE job[w].req.op = "sync"
      <4>1. \/ SyncStart(w) \/ SyncBlocksDone(w) \/ TakeFlock(w) \/ ListChain(w) \/ ReloadRules(w)
            \/ ChainRebuilt(w) \/ RunCommand(w) \/ FailCommand(w) \/ Crash(w)
            \/ \E m \in ManualRules : ManualAppend(m[1], m[2])
        BY <2>3, <3>1, SyncSteps
      <4>2. CASE SyncStart(w)
        BY <2>3, <3>1, <4>2, SyncingStart
      <4>3. CASE SyncBlocksDone(w)
        <5>1. pc[w] = "sync"
          BY <4>3 DEF SyncBlocksDone
        <5> QED
          BY <1>2, <3>1, <4>3, <5>1, SyncingBlocks
      <4>4. CASE TakeFlock(w) \/ ListChain(w) \/ ReloadRules(w)
        BY <2>3, <3>1, <4>4, SyncingRebuild
      <4>5. CASE ChainRebuilt(w)
        <5>1. pc[w] = "fill"
          BY <4>5 DEF ChainRebuilt
        <5> QED
          BY <1>2, <3>1, <4>5, <5>1, SyncingRebuilt
      <4>6. CASE RunCommand(w) \/ FailCommand(w)
        <5>1. pc[w] \in {"sync", "strip", "fill"}
          BY <2>3, <3>1, <4>6, OfSync DEF SyncPlaces, RunCommand, FailCommand, Running
        <5> QED
          BY <3>1, <4>6, <5>1, SyncingCommand, SyncingFailure, SyncRuns, SyncingRun
      <4>7. CASE Crash(w)
        BY <1>1, <1>2, <4>7, Goes DEF Crash
      <4>8. CASE \E m \in ManualRules : ManualAppend(m[1], m[2])
        <5>1. PICK m \in ManualRules : ManualAppend(m[1], m[2])
          BY <4>8
        <5>2. pc' = pc /\ job' = job /\ rules' = rules
          BY <5>1 DEF ManualAppend
        <5> QED
          BY <2>3, <3>1, <5>1, <5>2, SyncingAppend
      <4> QED
        BY <4>1, <4>2, <4>3, <4>4, <4>5, <4>6, <4>7, <4>8
    <3>2. CASE job[w].req.op # "sync"
      <4>1. ~Step(w)
        BY <1>1, <1>2, <3>2, RequestKept
      <4>2. job' = job \/ Crash(w)
        BY <2>0, <2>3, <4>1 DEF CalmNext, Next, Environment, Receive, ManualAppend, ManualDelete,
                                Flush
      <4> QED
        BY <1>1, <1>2, <3>2, <4>2, Goes DEF Crash
    <3> QED
      BY <3>1, <3>2
  <2> QED
    BY <2>1, <2>2, <2>3
<1> QED
  BY <1>1, <1>2 DEF SyncInv

\* A chain that fits holds its rows in order, and no other.
LEMMA FittingIs ==
  ASSUME live \in [Chains -> Seq(Entry)], FiniteTable(rules), NEW c \in Chains,
         Fitting(live[c], <<>>, rules, c)
  PROVE  Owned(c) = OrderedEntries(rules, c)
<1>1. PICK s \in Seq(Entry) : s = live[c]
  OBVIOUS
<1>2. /\ \A k \in DOMAIN s : s[k].id # 0 => Genuine(s[k], Wanted(rules, c), rules)
      /\ Fits(s, <<>>, rules, Wanted(rules, c))
  BY <1>1 DEF Fitting
<1>3. Selected(s, {k \in DOMAIN s : s[k].id # 0}) = OrderedEntries(rules, c)
  BY <1>2, TaggedIs
<1> QED
  BY <1>1, <1>3 DEF Owned

\* The last step of a synchronisation leaves everything in its place.
LEMMA SyncEnded ==
  ASSUME Alone, ~IptablesFails, SyncInv, CalmNext, NEW w \in Workers, SyncEnds(w)
  PROVE  /\ \A c \in Chains :
               OrderedEntries(rules, c) # <<>> => Owned(c)' = OrderedEntries(rules, c)
         /\ \A i \in Enabled(rules) : IsBlock(rules[i].shape) =>
               \A ch \in {"FORWARD", "INPUT"} :
                   LiveEntry(i, rules[i].shape) \in ToSet(live'[ch])
<1>0. /\ Inv /\ pc[w] # "idle" /\ job[w].req.op = "sync" /\ pc'[w] = "idle" /\ spent' = spent
      /\ FiniteTable(rules) /\ live \in [Chains -> Seq(Entry)] /\ pc[w] \in SyncPlaces
  BY OfSync DEF SyncEnds
<1>1. SyncBlocksDone(w) \/ ChainRebuilt(w)
  <2>1. ~Crash(w)
    <3>1. spent.crashes \in Int
      BY <1>0, BoundsAssumption DEF Inv, SharedOK
    <3>2. spent # [spent EXCEPT !.crashes = @ + 1]
      <4>1. spent \in [requests : 0..MaxRequests, manual : 0..MaxManual,
                       losses : 0..MaxLosses, crashes : 0..MaxCrashes]
        BY <1>0 DEF Inv, SharedOK
      <4>2. [spent EXCEPT !.crashes = @ + 1].crashes = spent.crashes + 1
        BY <4>1
      <4>3. spent.crashes # spent.crashes + 1
        BY <3>1
      <4> QED
        BY <4>2, <4>3
    <3> QED
      BY <1>0, <3>2 DEF Crash
  <2>2. ~SyncStart(w) /\ ~TakeFlock(w) /\ ~ListChain(w) /\ ~ReloadRules(w)
    BY <1>0, Goes DEF SyncStart, TakeFlock, ListChain, ReloadRules
  <2>3. ~RunCommand(w)
    BY <1>0 DEF RunCommand
  <2>4. ~FailCommand(w)
    <3>1. pc[w] \notin {"sync", "strip", "fill"} => ~FailCommand(w)
      BY <1>0 DEF FailCommand, Running, SyncPlaces
    <3>2. pc[w] = "sync" => ~FailCommand(w)
      BY <1>0 DEF FailCommand
    <3> QED
      BY <1>0, <3>1, <3>2, SyncRuns
  <2>5. \A m \in ManualRules : ~ManualAppend(m[1], m[2])
    BY <1>0 DEF ManualAppend
  <2> QED
    BY <1>0, <2>1, <2>2, <2>3, <2>4, <2>5, SyncSteps
<1>2. /\ Holds(live, rules) /\ live' = live /\ rules' = rules
      /\ \A c \in Chains : Wanted(rules, c) # {} => Fitting(live[c], <<>>, rules, c)
  <2>1. CASE SyncBlocksDone(w)
    <3>1. pc[w] = "sync" /\ (job[w].chains # <<>> => pc'[w] = "flock")
      BY <1>0, <2>1, Goes DEF SyncBlocksDone
    <3> QED
      BY <1>0, <2>1, <3>1, SyncingBlocks
  <2>2. CASE ChainRebuilt(w)
    <3>1. pc[w] = "fill"
      BY <2>2 DEF ChainRebuilt
    <3>2. ToSet(<<>>) = {}
      BY DEF ToSet
    <3> QED
      BY <1>0, <2>2, <3>1, <3>2, SyncingRebuilt
  <2> QED
    BY <1>1, <2>1, <2>2
<1>3. ASSUME NEW c \in Chains, OrderedEntries(rules, c) # <<>>
      PROVE  Owned(c)' = OrderedEntries(rules, c)
  <2>1. Wanted(rules, c) # {}
    <3> SUFFICES ASSUME Wanted(rules, c) = {}
                 PROVE  FALSE
      OBVIOUS
    <3>1. WantedIds(rules, c) \in Seq({})
      BY <1>0, FillIs
    <3>2. WantedIds(rules, c) = <<>>
      BY <3>1
    <3>3. OrderedEntries(rules, c) = <<>>
      BY <3>2 DEF OrderedEntries
    <3> QED
      BY <1>3, <3>3
  <2>2. Owned(c) = OrderedEntries(rules, c)
    BY <1>0, <1>2, <2>1, FittingIs
  <2>3. Owned(c)' = Owned(c)
    BY <1>2 DEF Owned
  <2> QED
    BY <2>2, <2>3
<1>4. \A i \in Enabled(rules) : IsBlock(rules[i].shape) =>
         \A ch \in {"FORWARD", "INPUT"} : LiveEntry(i, rules[i].shape) \in ToSet(live'[ch])
  BY <1>2 DEF Holds
<1> QED
  BY <1>3, <1>4

\* sync_all by a server with one worker, whatever requests came before and in
\* whatever state crashes, flushes and reboots left the chains: when it ends,
\* every chain that an enabled rule needs holds those rules in order and no
\* leftover, and every enabled block has both its halves.  The operator may type
\* rules meanwhile, but deletes none, and no well-formed command fails.
THEOREM SyncPutsRight == Alone /\ ~IptablesFails /\ CalmSpec => SyncReconciles
<1> SUFFICES ASSUME Alone, ~IptablesFails
             PROVE  CalmSpec => SyncReconciles
  BY DEF Alone
<1>1. SyncInv /\ [CalmNext]_vars => SyncInv'
  BY SyncNext
<1>2. SyncInv /\ [CalmNext]_vars =>
        [\A w \in Workers : SyncEnds(w) =>
          /\ \A c \in Chains :
                OrderedEntries(rules, c) # <<>> => Owned(c)' = OrderedEntries(rules, c)
          /\ \A i \in Enabled(rules) : IsBlock(rules[i].shape) =>
                \A ch \in {"FORWARD", "INPUT"} :
                    LiveEntry(i, rules[i].shape) \in ToSet(live'[ch])]_vars
  BY SyncEnded
<1>3. [Next /\ (spent'.losses # spent.losses => Quiet)]_vars => [CalmNext]_vars
  BY DEF CalmNext
<1> QED
  BY SyncInit, <1>1, <1>2, <1>3, PTL DEF CalmSpec, SyncReconciles
=============================================================================
