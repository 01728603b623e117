------------------------- MODULE EventStreamProofs -------------------------
(***************************************************************************)
(* Theorems about EventStream.tla for every journal, batch size and number *)
(* of connections, batches and faults, once the cursor table holds a       *)
(* cursor.  What makes a batch safe to store late, twice or after another  *)
(* connection's is that everything before its first entry was saved when   *)
(* it was collected, and that saved entries stay saved: the inductive      *)
(* invariant says so of every batch and acknowledgement in flight.         *)
(***************************************************************************)
EXTENDS EventStream, SequenceTheorems, TLAPS

Safe(n) == 1..n \subseteq Saved

\* A batch somebody may still store, an acknowledgement somebody may still
\* read, and a connection of the hub.
GoodBatch == {b \in Batch : b.lo <= b.hi /\ b.hi <= written /\ Safe(b.lo - 1)}

GoodAck ==
    {a \in [batch : GoodBatch, ok : BOOLEAN] : a.ok => Safe(a.batch.hi)}

GoodConnection ==
    {h \in [phase : {"unused", "hello", "greet", "open", "closed"},
            inbox : Seq(GoodBatch), work : {"none", "ok", "failed"},
            cursor : 0..written] :
        /\ h.work # "none" => h.inbox # <<>>
        /\ h.work = "ok" => Safe(Head(h.inbox).hi)
        /\ h.phase = "greet" => h.cursor # 0
        /\ Safe(h.cursor)}

AgentOK ==
    /\ phase \in {"down", "hello", "start", "follow", "wait"}
    /\ cursor \in 0..written /\ Safe(cursor)
    /\ phase \in {"start", "follow", "wait"} => cursor # 0
    /\ phase # "down" => conn # 0
    /\ batch \in Batch /\ batch.lo <= batch.hi + 1 /\ batch.hi <= written
    /\ phase \in {"follow", "wait"} => Safe(batch.lo - 1)
    /\ phase = "wait" => batch.lo <= batch.hi

Inv ==
    /\ written \in 0..MaxEntries
    /\ rows \in [Entries -> 0..2]
    /\ stored \in 0..written /\ stored # 0 /\ Safe(stored)
    /\ AgentOK
    /\ acks \in Seq(GoodAck)
    /\ conn \in 0..MaxConns
    /\ hub \in [1..MaxConns -> GoodConnection]
    /\ tail \in 0..written /\ fetched \subseteq SUBSET (1..written)
    /\ sends \in 0..MaxSends
    /\ faults \in [late : Nat, fails : Nat, exits : Nat, lost : Nat]

-----------------------------------------------------------------------------
(* Sequences and the table. *)

\* A sequence over a set is one over every larger set.
LEMMA SeqOfMore ==
    ASSUME NEW S, NEW T, S \subseteq T, NEW s \in Seq(S)
    PROVE  s \in Seq(T)
  <1>1. s \in [1..Len(s) -> S] /\ Len(s) \in Nat
    BY LenProperties
  <1>2. s \in [1..Len(s) -> T]
    BY <1>1
  <1> QED
    BY <1>1, <1>2

\* The constants' sizes are natural numbers.
LEMMA Sizes == MaxBatch \in Nat /\ MaxEntries \in Nat /\ MaxConns \in Nat
                 /\ MaxSends \in Nat /\ MaxFetches \in Nat
    BY SizesAssumption

\* An INSERT ... ON CONFLICT DO NOTHING saves its entries and loses none.
LEMMA InsertedSaves ==
    ASSUME rows \in [Entries -> 0..2], NEW S, S \subseteq Entries,
           rows' = Inserted(S)
    PROVE  /\ rows' \in [Entries -> 0..2]
           /\ Saved' = Saved \cup S
  <1>1. ASSUME NEW e \in Entries
        PROVE  /\ rows'[e] \in 0..2
               /\ rows'[e] > 0 <=> (rows[e] > 0 \/ e \in S)
    <2>1. rows[e] \in 0..2
      OBVIOUS
    <2>2. CASE e \notin S
      BY <2>1, <2>2 DEF Inserted
    <2>3. CASE e \in S /\ rows[e] = 0
      BY <2>1, <2>3 DEF Inserted
    <2>4. CASE e \in S /\ rows[e] # 0
      BY <2>1, <2>4 DEF Inserted
    <2> QED
      BY <2>1, <2>2, <2>3, <2>4
  <1>2. rows' = [e \in Entries |-> rows'[e]]
    BY DEF Inserted
  <1> QED
    BY <1>1, <1>2 DEF Saved

\* More saved entries and a longer journal keep everything good.
LEMMA GoodGrows ==
    ASSUME Saved \subseteq Saved', written \in Int, written' \in Int, written <= written'
    PROVE  /\ GoodBatch \subseteq GoodBatch'
           /\ GoodAck \subseteq GoodAck'
           /\ GoodConnection \subseteq GoodConnection'
           /\ \A n : Safe(n) => Safe(n)'
  <1>1. \A n : Safe(n) => Safe(n)'
    BY DEF Safe
  <1>2. GoodBatch \subseteq GoodBatch'
    BY <1>1 DEF GoodBatch, Batch
  <1>3. GoodAck \subseteq GoodAck'
    BY <1>1, <1>2 DEF GoodAck
  <1>4. Seq(GoodBatch) \subseteq Seq(GoodBatch')
    BY <1>2, SeqOfMore
  <1>5. GoodConnection \subseteq GoodConnection'
    BY <1>1, <1>4 DEF GoodConnection
  <1> QED
    BY <1>1, <1>2, <1>3, <1>5

-----------------------------------------------------------------------------
(* The invariant. *)

LEMMA InitInv == InitCursor # 0 /\ Init => Inv
  <1> SUFFICES ASSUME InitCursor # 0, Init PROVE Inv
    OBVIOUS
  <1>1. InitCursor \in 1..MaxEntries /\ MaxEntries \in Nat /\ MaxConns \in Nat /\ MaxSends \in Nat
    BY InitCursorAssumption, Sizes
  <1>2. rows \in [Entries -> 0..2]
    BY DEF Init
  <1>3. Safe(InitCursor) /\ Safe(0)
    BY <1>1 DEF Init, Safe, Saved, Entries
  <1>4. AgentOK
    BY <1>1, <1>3 DEF Init, AgentOK, Batch
  <1>5. NoConnection \in GoodConnection
    BY <1>1, <1>3, EmptySeq DEF Init, NoConnection, GoodConnection
  <1>6. acks \in Seq(GoodAck)
    BY EmptySeq DEF Init
  <1> QED
    BY <1>1, <1>2, <1>3, <1>4, <1>5, <1>6 DEF Init, Inv

\* A step that leaves the journal, the table and the fallback alone.
AgentOnly == UNCHANGED <<written, rows, stored, tail, fetched>>

\* Such a step keeps the invariant when it keeps the parts it touches.
LEMMA AgentOnlyInv ==
    ASSUME Inv, AgentOnly,
           AgentOK', acks' \in Seq(GoodAck), conn' \in 0..MaxConns,
           hub' \in [1..MaxConns -> GoodConnection],
           sends' \in 0..MaxSends,
           faults' \in [late : Nat, fails : Nat, exits : Nat, lost : Nat]
    PROVE  Inv'
  <1>1. Saved' = Saved
    BY DEF AgentOnly, Saved
  <1>2. GoodAck' = GoodAck /\ GoodConnection' = GoodConnection
    BY <1>1 DEF AgentOnly, GoodAck, GoodConnection, GoodBatch, Safe
  <1>3. Safe(stored)'
    BY <1>1 DEF AgentOnly, Inv, Safe
  <1> QED
    BY <1>1, <1>2, <1>3 DEF AgentOnly, Inv, AgentOK

\* The same for what the agent knows: Safe does not change.
LEMMA SafeKept == ASSUME UNCHANGED rows PROVE \A n : Safe(n)' <=> Safe(n)
    BY DEF Safe, Saved

\* What the invariant says of the counters, and of the bounds of a batch.
LEMMA Counters ==
    ASSUME Inv
    PROVE  /\ written \in Nat /\ written <= MaxEntries
           /\ cursor \in Nat /\ cursor <= written
           /\ conn \in Nat /\ conn <= MaxConns
           /\ phase # "down" => conn \in 1..MaxConns
           /\ sends \in Nat /\ sends <= MaxSends
  <1>1. written \in 0..MaxEntries /\ conn \in 0..MaxConns /\ sends \in 0..MaxSends
    BY DEF Inv
  <1>2. cursor \in 0..written /\ (phase # "down" => conn # 0)
    BY DEF Inv, AgentOK
  <1> QED
    BY <1>1, <1>2, Sizes

LEMMA Bounds ==
    ASSUME NEW b \in Batch
    PROVE  b.lo \in Nat /\ b.lo >= 1 /\ b.hi \in Nat
    BY DEF Batch

LEMMA ConnectInv == Inv /\ Connect => Inv'
  <1> SUFFICES ASSUME Inv, Connect PROVE Inv'
    OBVIOUS
  <1>1. conn + 1 \in 1..MaxConns /\ conn + 1 # 0
    BY Counters, Sizes DEF Connect
  <1>2. hub[conn + 1] \in GoodConnection
    BY <1>1 DEF Inv
  <1>3. [hub[conn + 1] EXCEPT !.phase = "hello"] \in GoodConnection
    BY <1>2 DEF GoodConnection
  <1>4. hub' = [hub EXCEPT ![conn + 1] = [hub[conn + 1] EXCEPT !.phase = "hello"]]
    BY DEF Connect
  <1>5. hub' \in [1..MaxConns -> GoodConnection]
    BY <1>1, <1>3, <1>4 DEF Inv
  <1>6. AgentOK'
    BY <1>1, SafeKept DEF Inv, Connect, AgentOK
  <1>7. acks' \in Seq(GoodAck)
    BY EmptySeq DEF Connect
  <1> QED
    BY <1>1, <1>5, <1>6, <1>7, AgentOnlyInv DEF Inv, Connect, AgentOnly, fallbackVars

LEMMA HelloAckInv == Inv /\ HelloAck => Inv'
  <1> SUFFICES ASSUME Inv, HelloAck PROVE Inv'
    OBVIOUS
  <1>1. conn \in 1..MaxConns
    BY Counters DEF HelloAck
  <1>2. hub[conn] \in GoodConnection /\ hub[conn].phase = "greet"
    BY <1>1 DEF Inv, HelloAck
  <1>3. [hub[conn] EXCEPT !.phase = "open"] \in GoodConnection
    BY <1>2 DEF GoodConnection
  <1>4. hub' = [hub EXCEPT ![conn] = [hub[conn] EXCEPT !.phase = "open"]]
    BY DEF HelloAck
  <1>5. hub' \in [1..MaxConns -> GoodConnection]
    BY <1>1, <1>3, <1>4 DEF Inv
  <1>6. cursor' \in 0..written /\ cursor' # 0 /\ Safe(cursor')
    BY <1>2 DEF HelloAck, Resumes, GoodConnection
  <1>7. AgentOK'
    BY <1>1, <1>6, SafeKept DEF Inv, HelloAck, AgentOK
  <1> QED
    BY <1>5, <1>7, AgentOnlyInv DEF Inv, HelloAck, AgentOnly, fallbackVars

LEMMA StartFollowerInv == Inv /\ StartFollower => Inv'
  <1> SUFFICES ASSUME Inv, StartFollower PROVE Inv'
    OBVIOUS
  <1>1. cursor \in 1..written /\ written \in Nat
    BY Counters DEF Inv, StartFollower, AgentOK
  <1>2. batch' = [id |-> 0, lo |-> cursor + 1, hi |-> cursor]
    BY <1>1 DEF StartFollower, StartsAt
  <1>3. batch' \in Batch /\ batch'.lo - 1 = cursor /\ batch'.hi = cursor /\ batch'.lo = cursor + 1
    BY <1>1, <1>2 DEF Batch
  <1>4. Safe(cursor)' /\ cursor' = cursor /\ written' = written /\ conn' = conn /\ phase' = "follow"
    BY SafeKept DEF Inv, StartFollower, AgentOK
  <1>5. conn # 0
    BY Counters DEF StartFollower
  <1>6. AgentOK'
    BY <1>1, <1>3, <1>4, <1>5 DEF AgentOK
  <1> QED
    BY <1>6, AgentOnlyInv DEF Inv, StartFollower, AgentOnly, fallbackVars

LEMMA ReadEntryInv == Inv /\ ReadEntry => Inv'
  <1> SUFFICES ASSUME Inv, ReadEntry PROVE Inv'
    OBVIOUS
  <1>1. written \in Nat /\ batch \in Batch /\ batch.hi < written
    BY Sizes DEF Inv, ReadEntry, AgentOK
  <1>2. batch' \in Batch /\ batch'.lo = batch.lo /\ batch'.hi = batch.hi + 1
    BY <1>1 DEF ReadEntry, Batch
  <1>3. batch.lo \in Nat /\ batch.hi \in Nat /\ batch.lo <= batch.hi + 1
    BY <1>1 DEF Batch, Inv, AgentOK
  <1>4. batch'.lo <= batch'.hi + 1 /\ batch'.hi <= written
    BY <1>1, <1>2, <1>3
  <1>5. Safe(batch.lo - 1)' /\ Safe(cursor)'
    BY <1>2, SafeKept DEF Inv, ReadEntry, AgentOK
  <1>6. AgentOK'
    BY <1>2, <1>4, <1>5 DEF Inv, ReadEntry, AgentOK
  <1> QED
    BY <1>6, AgentOnlyInv DEF Inv, ReadEntry, AgentOnly, fallbackVars

LEMMA SendInv == Inv /\ Send => Inv'
  <1> SUFFICES ASSUME Inv, Send PROVE Inv'
    OBVIOUS
  <1>1. conn \in 1..MaxConns /\ sends \in Nat /\ sends' \in 0..MaxSends
    BY Counters, Sizes DEF Send
  <1>2. batch' \in Batch /\ batch'.lo = batch.lo /\ batch'.hi = batch.hi
    <2>1. batch' = [batch EXCEPT !.id = sends + 1] /\ batch \in Batch
      BY DEF Inv, Send, AgentOK
    <2> QED
      BY <1>1, <2>1 DEF Batch
  <1>3. batch' \in GoodBatch
    BY <1>2 DEF Inv, Send, AgentOK, GoodBatch
  <1>4. hub[conn] \in GoodConnection
    BY <1>1 DEF Inv
  <1>5. Append(hub[conn].inbox, batch') \in Seq(GoodBatch)
    BY <1>3, <1>4, AppendProperties DEF GoodConnection
  <1>6. /\ Append(hub[conn].inbox, batch') # <<>>
        /\ hub[conn].inbox # <<>> => Head(Append(hub[conn].inbox, batch')) = Head(hub[conn].inbox)
    BY <1>3, <1>4, AppendProperties, LenProperties, EmptySeq DEF GoodConnection
  <1>7. [hub[conn] EXCEPT !.inbox = Append(@, batch')] \in GoodConnection
    BY <1>4, <1>5, <1>6 DEF GoodConnection
  <1>8. hub' = [hub EXCEPT ![conn] = [hub[conn] EXCEPT !.inbox = Append(@, batch')]]
    BY DEF Send
  <1>9. hub' \in [1..MaxConns -> GoodConnection]
    BY <1>1, <1>7, <1>8 DEF Inv
  <1>10. AgentOK'
    BY <1>1, <1>2, SafeKept DEF Inv, Send, AgentOK
  <1> QED
    BY <1>1, <1>9, <1>10, AgentOnlyInv DEF Inv, Send, AgentOnly, fallbackVars

LEMMA ReceiveAckInv == Inv /\ ReceiveAck => Inv'
  <1> SUFFICES ASSUME Inv, ReceiveAck PROVE Inv'
    OBVIOUS
  <1>1. acks \in Seq(GoodAck) /\ acks # <<>>
    BY DEF Inv, ReceiveAck
  <1>2. Head(acks) \in GoodAck /\ acks' \in Seq(GoodAck)
    BY <1>1, HeadTailProperties DEF ReceiveAck
  <1>3. batch \in Batch /\ batch.lo \in Nat \ {0} /\ batch.hi \in Nat
          /\ batch.lo <= batch.hi /\ written \in Nat
    BY Sizes DEF Inv, ReceiveAck, AgentOK, Batch
  <1>4. CASE Confirms(Head(acks), batch)
    <2>1. Safe(batch.hi)
      BY <1>2, <1>4 DEF Confirms, GoodAck
    <2>2. batch' = [id |-> 0, lo |-> batch.hi + 1, hi |-> batch.hi]
            /\ cursor' = batch.hi /\ phase' = "follow"
      BY <1>4 DEF ReceiveAck
    <2>3. batch' \in Batch
      BY <1>3, <2>2 DEF Batch
    <2>4. batch'.lo = batch.hi + 1 /\ batch'.hi = batch.hi /\ batch'.lo - 1 = batch.hi
      BY <1>3, <2>2
    <2>5. Safe(batch.lo - 1)' /\ Safe(cursor)'
      BY <2>1, <2>2, <2>4, SafeKept DEF ReceiveAck
    <2>6. batch.hi \in 1..written /\ batch'.lo <= batch'.hi + 1 /\ batch'.hi <= written
      BY <1>3, <2>4 DEF Inv, AgentOK
    <2>7. conn' # 0 /\ written' = written /\ cursor' \in 0..written /\ cursor' # 0
      BY <1>3, <2>2, <2>6 DEF Inv, ReceiveAck, AgentOK
    <2>8. Safe(batch.lo - 1)' /\ phase' = "follow" /\ batch' \in Batch
      BY <2>2, <2>3, <2>5
    <2>9. AgentOK'
      BY <2>5, <2>6, <2>7, <2>8 DEF AgentOK
    <2> QED
      BY <1>2, <2>9, AgentOnlyInv DEF Inv, ReceiveAck, AgentOnly, fallbackVars
  <1>5. CASE ~Confirms(Head(acks), batch)
    BY <1>2, <1>5, SafeKept, AgentOnlyInv
    DEF Inv, ReceiveAck, AgentOK, AgentOnly, fallbackVars
  <1> QED
    BY <1>4, <1>5

\* What the bounds have been charged stays a record of numbers.
LEMMA ChargeType ==
    ASSUME faults \in [late : Nat, fails : Nat, exits : Nat, lost : Nat],
           NEW kind \in {"late", "fails", "exits", "lost"}, Charge(kind)
    PROVE  faults' \in [late : Nat, fails : Nat, exits : Nat, lost : Nat]
    BY DEF Charge

LEMMA AckTimeoutInv == Inv /\ AckTimeout => Inv'
  <1> SUFFICES ASSUME Inv, AckTimeout PROVE Inv'
    OBVIOUS
  <1>1. faults' \in [late : Nat, fails : Nat, exits : Nat, lost : Nat]
    BY ChargeType DEF Inv, AckTimeout
  <1>2. AgentOK'
    BY SafeKept DEF Inv, AckTimeout, AgentOK
  <1> QED
    BY <1>1, <1>2, AgentOnlyInv DEF Inv, AckTimeout, AgentOnly, fallbackVars

LEMMA FollowerExitsInv == Inv /\ FollowerExits => Inv'
  <1> SUFFICES ASSUME Inv, FollowerExits PROVE Inv'
    OBVIOUS
  <1>1. faults' \in [late : Nat, fails : Nat, exits : Nat, lost : Nat]
    BY ChargeType DEF Inv, FollowerExits
  <1>2. AgentOK'
    BY SafeKept DEF Inv, FollowerExits, AgentOK
  <1> QED
    BY <1>1, <1>2, AgentOnlyInv DEF Inv, FollowerExits, AgentOnly, fallbackVars

-----------------------------------------------------------------------------
(* The hub. *)

LEMMA ReadCursorInv ==
    ASSUME Inv, NEW c \in 1..MaxConns, ReadCursor(c) PROVE Inv'
  <1>1. [hub[c] EXCEPT !.phase = "greet", !.cursor = stored] \in GoodConnection
    <2>1. hub[c] \in GoodConnection /\ stored \in 0..written /\ stored # 0 /\ Safe(stored)
      BY DEF Inv
    <2> QED
      BY <2>1 DEF GoodConnection
  <1>2. hub' = [hub EXCEPT ![c] = [hub[c] EXCEPT !.phase = "greet", !.cursor = stored]]
    BY DEF ReadCursor
  <1>3. hub' \in [1..MaxConns -> GoodConnection]
    BY <1>1, <1>2 DEF Inv
  <1>4. AgentOK'
    BY SafeKept DEF Inv, ReadCursor, AgentOK, agentVars
  <1> QED
    BY <1>3, <1>4, AgentOnlyInv DEF Inv, ReadCursor, AgentOnly, fallbackVars

LEMMA StoreFailsInv ==
    ASSUME Inv, NEW c \in 1..MaxConns, StoreFails(c) PROVE Inv'
  <1>1. [hub[c] EXCEPT !.work = "failed"] \in GoodConnection
    BY DEF Inv, GoodConnection, StoreFails
  <1>2. hub' = [hub EXCEPT ![c] = [hub[c] EXCEPT !.work = "failed"]]
    BY DEF StoreFails
  <1>3. hub' \in [1..MaxConns -> GoodConnection]
    BY <1>1, <1>2 DEF Inv
  <1>4. AgentOK'
    BY SafeKept DEF Inv, StoreFails, AgentOK, agentVars
  <1>5. faults' \in [late : Nat, fails : Nat, exits : Nat, lost : Nat]
    BY ChargeType DEF Inv, StoreFails
  <1> QED
    BY <1>3, <1>4, <1>5, AgentOnlyInv DEF Inv, StoreFails, AgentOnly, fallbackVars

LEMMA AnswerInv ==
    ASSUME Inv, NEW c \in 1..MaxConns, Answer(c) PROVE Inv'
  <1>1. hub[c] \in GoodConnection /\ hub[c].inbox \in Seq(GoodBatch) /\ hub[c].inbox # <<>>
    BY DEF Inv, Answer, GoodConnection
  <1>2. Head(hub[c].inbox) \in GoodBatch /\ Tail(hub[c].inbox) \in Seq(GoodBatch)
    BY <1>1, HeadTailProperties
  <1>3. ASSUME NEW rest \in {<<>>, Tail(hub[c].inbox)}
        PROVE  [hub[c] EXCEPT !.work = "none", !.inbox = rest] \in GoodConnection
    BY <1>1, <1>2, EmptySeq DEF GoodConnection
  <1>4. AgentOK'
    BY SafeKept DEF Inv, Answer, AgentOK, agentVars
  <1>5. CASE hub[c].phase = "open"
    <2>1. [batch |-> Head(hub[c].inbox), ok |-> hub[c].work = "ok"] \in GoodAck
      BY <1>1, <1>2 DEF GoodAck, GoodConnection
    <2>2. acks' \in Seq(GoodAck)
      <3>1. acks' = Append(acks, [batch |-> Head(hub[c].inbox), ok |-> hub[c].work = "ok"])
        BY <1>5 DEF Answer
      <3> QED
        BY <2>1, <3>1, AppendProperties DEF Inv
    <2>3. hub' = [hub EXCEPT ![c] = [hub[c] EXCEPT !.work = "none", !.inbox = Tail(@)]]
      BY <1>5 DEF Answer
    <2>4. hub' \in [1..MaxConns -> GoodConnection]
      BY <1>3, <2>3 DEF Inv
    <2> QED
      BY <1>4, <2>2, <2>4, AgentOnlyInv DEF Inv, Answer, AgentOnly, fallbackVars, agentVars
  <1>6. CASE hub[c].phase = "closed"
    <2>1. PICK rest \in {<<>>, Tail(hub[c].inbox)} :
            hub' = [hub EXCEPT ![c] = [hub[c] EXCEPT !.work = "none", !.inbox = rest]]
      BY <1>6 DEF Answer
    <2>2. hub' \in [1..MaxConns -> GoodConnection]
      BY <1>3, <2>1 DEF Inv
    <2>3. acks' = acks
      BY <1>6 DEF Answer
    <2> QED
      BY <1>4, <2>2, <2>3, AgentOnlyInv DEF Inv, Answer, AgentOnly, fallbackVars, agentVars
  <1> QED
    BY <1>5, <1>6 DEF Answer

\* Rows and cursor of a good batch: nothing before the new cursor is unsaved.
LEMMA StoreBatchSaves ==
    ASSUME Inv, NEW c \in 1..MaxConns, StoreBatch(c)
    PROVE  LET b == Head(hub[c].inbox)
           IN  /\ b \in GoodBatch /\ hub[c].inbox # <<>>
               /\ rows' \in [Entries -> 0..2]
               /\ Saved' = Saved \cup (b.lo..b.hi)
               /\ stored' = b.hi /\ Safe(stored)'
  <1> DEFINE b == Head(hub[c].inbox)
  <1>1. b \in GoodBatch /\ hub[c].inbox # <<>>
    BY HeadTailProperties DEF Inv, StoreBatch, GoodConnection
  <1>2. b.lo \in Nat \ {0} /\ b.hi \in Nat /\ b.hi <= written /\ written \in 0..MaxEntries
    BY <1>1 DEF Inv, GoodBatch, Batch
  <1>3. RowsOf(b) = b.lo..b.hi /\ RowsOf(b) \subseteq Entries
    BY <1>2, Sizes DEF RowsOf, Entries
  <1>4. rows' \in [Entries -> 0..2] /\ Saved' = Saved \cup (b.lo..b.hi)
    BY <1>3, InsertedSaves DEF Inv, StoreBatch
  <1>5. stored' = b.hi
    BY DEF StoreBatch
  <1>6. 1..b.lo - 1 \subseteq Saved
    BY <1>1 DEF GoodBatch, Safe
  <1>7. 1..b.hi \subseteq Saved'
    BY <1>2, <1>4, <1>6
  <1> QED
    BY <1>1, <1>4, <1>5, <1>7 DEF Safe

LEMMA StoreBatchInv ==
    ASSUME Inv, NEW c \in 1..MaxConns, StoreBatch(c) PROVE Inv'
  <1> DEFINE b == Head(hub[c].inbox)
  <1>1. /\ b \in GoodBatch /\ hub[c].inbox # <<>>
        /\ rows' \in [Entries -> 0..2] /\ Saved' = Saved \cup (b.lo..b.hi)
        /\ stored' = b.hi /\ Safe(stored)'
    BY StoreBatchSaves
  <1>2. written \in 0..MaxEntries /\ written' = written
    BY DEF Inv, StoreBatch
  <1>3. /\ GoodAck \subseteq GoodAck' /\ GoodConnection \subseteq GoodConnection'
        /\ \A n : Safe(n) => Safe(n)'
    BY <1>1, <1>2, Sizes, GoodGrows
  <1>4. acks' \in Seq(GoodAck')
    BY <1>3, SeqOfMore DEF Inv, StoreBatch
  <1>5. hub[c] \in GoodConnection'
    BY <1>3 DEF Inv
  <1>6. [hub[c] EXCEPT !.work = "ok"] \in GoodConnection'
    BY <1>1, <1>5 DEF GoodConnection, Safe
  <1>7. hub' = [hub EXCEPT ![c] = [hub[c] EXCEPT !.work = "ok"]]
    BY DEF StoreBatch
  <1>8. hub' \in [1..MaxConns -> GoodConnection']
    BY <1>3, <1>6, <1>7 DEF Inv
  <1>9. stored' \in 0..written /\ stored' # 0 /\ Safe(stored)'
    <2>1. b.hi \in Nat /\ b.lo \in Nat \ {0} /\ b.lo <= b.hi /\ b.hi <= written
      BY <1>1 DEF GoodBatch, Batch
    <2> QED
      BY <1>1, <1>2, <2>1, Sizes
  <1>10. AgentOK'
    BY <1>3 DEF Inv, StoreBatch, AgentOK, agentVars
  <1> QED
    BY <1>1, <1>2, <1>4, <1>8, <1>9, <1>10 DEF Inv, StoreBatch, fallbackVars

-----------------------------------------------------------------------------
(* The end of a connection. *)

LEMMA DropInv == Inv /\ Drop => Inv'
  <1> SUFFICES ASSUME Inv, Drop PROVE Inv'
    OBVIOUS
  <1>1. conn \in 1..MaxConns
    BY Counters DEF Drop
  <1>2. hub[conn] \in GoodConnection /\ hub[conn].inbox \in Seq(GoodBatch)
    BY <1>1 DEF Inv, GoodConnection
  <1>3. PICK n \in 0..Len(hub[conn].inbox) :
          /\ hub[conn].work # "none" => n > 0
          /\ hub' = [hub EXCEPT ![conn] = [hub[conn] EXCEPT
                        !.phase = "closed", !.inbox = SubSeq(@, 1, n)]]
    BY DEF Drop
  <1> DEFINE rest == SubSeq(hub[conn].inbox, 1, n)
  <1>4. /\ rest \in Seq(GoodBatch) /\ Len(rest) = n
        /\ n > 0 => rest # <<>> /\ Head(rest) = Head(hub[conn].inbox)
    <2>1. Len(hub[conn].inbox) \in Nat /\ \A i \in 1..n : hub[conn].inbox[i] \in GoodBatch
      BY <1>2, LenProperties
    <2>2. /\ rest \in Seq(GoodBatch) /\ Len(rest) = n
          /\ \A i \in 1..n : rest[i] = hub[conn].inbox[i]
      BY <2>1, SubSeqProperties
    <2> QED
      BY <1>2, <2>1, <2>2, EmptySeq
  <1>5. [hub[conn] EXCEPT !.phase = "closed", !.inbox = rest] \in GoodConnection
    BY <1>2, <1>3, <1>4 DEF GoodConnection
  <1>6. hub' \in [1..MaxConns -> GoodConnection]
    BY <1>1, <1>3, <1>5 DEF Inv
  <1>7. AgentOK'
    BY SafeKept DEF Inv, Drop, AgentOK
  <1>8. acks' \in Seq(GoodAck)
    BY EmptySeq DEF Drop
  <1> QED
    BY <1>6, <1>7, <1>8, AgentOnlyInv DEF Inv, Drop, AgentOnly, fallbackVars

LEMMA HubCrashInv == Inv /\ HubCrash => Inv'
  <1> SUFFICES ASSUME Inv, HubCrash PROVE Inv'
    OBVIOUS
  <1>1. [NoConnection EXCEPT !.phase = "closed"] \in GoodConnection
    <2>1. 0 \in 0..written /\ Safe(0)
      BY Sizes DEF Inv, Safe
    <2>2. <<>> \in Seq(GoodBatch)
      BY EmptySeq
    <2>3. [NoConnection EXCEPT !.phase = "closed"] =
            [phase |-> "closed", inbox |-> <<>>, work |-> "none", cursor |-> 0]
      BY DEF NoConnection
    <2> QED
      BY <2>1, <2>2, <2>3 DEF GoodConnection
  <1>2. hub' \in [1..MaxConns -> GoodConnection]
    BY <1>1 DEF Inv, HubCrash
  <1>3. AgentOK'
    BY SafeKept DEF Inv, HubCrash, AgentOK
  <1>4. acks' \in Seq(GoodAck)
    BY EmptySeq DEF HubCrash
  <1> QED
    BY <1>2, <1>3, <1>4, AgentOnlyInv DEF Inv, HubCrash, AgentOnly, fallbackVars

-----------------------------------------------------------------------------
(* The journal and the fallback. *)

\* A step that only adds to the journal, to the table or to the fallback.
LEMMA BackgroundInv ==
    ASSUME Inv, UNCHANGED <<stored, agentVars, acks, conn, hub, sends>>,
           written' \in 0..MaxEntries, written <= written',
           rows' \in [Entries -> 0..2], Saved \subseteq Saved',
           tail' \in 0..written', fetched' \subseteq SUBSET (1..written'),
           faults' \in [late : Nat, fails : Nat, exits : Nat, lost : Nat]
    PROVE  Inv'
  <1>1. written \in Nat /\ written' \in Nat /\ MaxEntries \in Nat
    BY Sizes DEF Inv
  <1>2. /\ GoodAck \subseteq GoodAck' /\ GoodConnection \subseteq GoodConnection'
        /\ \A n : Safe(n) => Safe(n)'
    BY <1>1, GoodGrows
  <1>3. acks' \in Seq(GoodAck')
    BY <1>2, SeqOfMore DEF Inv
  <1>4. hub' \in [1..MaxConns -> GoodConnection']
    BY <1>2 DEF Inv
  <1>5. stored' \in 0..written' /\ stored' # 0 /\ Safe(stored)'
    BY <1>1, <1>2 DEF Inv
  <1>6. AgentOK'
    <2>1. phase' = phase /\ cursor' = cursor /\ batch' = batch /\ conn' = conn
      BY DEF agentVars
    <2>2. batch.hi \in Nat /\ batch.hi <= written' /\ cursor \in 0..written'
      <3>1. batch \in Batch /\ batch.hi <= written
        BY DEF Inv, AgentOK
      <3> QED
        BY <1>1, <3>1, Bounds, Counters
    <2>3. Safe(cursor)' /\ (phase \in {"follow", "wait"} => Safe(batch.lo - 1)')
      BY <1>2, <2>1 DEF Inv, AgentOK
    <2> QED
      BY <2>1, <2>2, <2>3 DEF Inv, AgentOK
  <1> QED
    BY <1>3, <1>4, <1>5, <1>6 DEF Inv

LEMMA LogInv == Inv /\ Log => Inv'
  <1> SUFFICES ASSUME Inv, Log PROVE Inv'
    OBVIOUS
  <1>1. written' = written + 1 /\ written' \in 0..MaxEntries /\ written \in Nat
    BY Sizes DEF Inv, Log
  <1>2. tail' \in 0..written' /\ fetched' \subseteq SUBSET (1..written')
    <2>1. 1..written \subseteq 1..written' /\ 0..written \subseteq 0..written'
      BY <1>1
    <2> QED
      BY <2>1 DEF Inv, Log, fallbackVars
  <1>3. rows' = rows /\ Saved' = Saved
    BY DEF Log, Saved
  <1> QED
    BY <1>1, <1>2, <1>3, BackgroundInv DEF Inv, Log

LEMMA FetchInv == Inv /\ Fetch => Inv'
  <1> SUFFICES ASSUME Inv, Fetch PROVE Inv'
    OBVIOUS
  <1>1. PICK lo \in {tail, tail + 1} \ {0} : fetched' = fetched \cup {lo..written}
    BY DEF Fetch
  <1>2. written \in 0..MaxEntries /\ written \in Nat /\ tail \in Nat /\ lo \in Nat \ {0}
    BY <1>1, Sizes DEF Inv
  <1>3. lo..written \in SUBSET (1..written)
    BY <1>2
  <1>4. fetched' \subseteq SUBSET (1..written) /\ tail' \in 0..written /\ written' = written
    BY <1>1, <1>2, <1>3 DEF Inv, Fetch
  <1>5. rows' = rows /\ Saved' = Saved
    BY DEF Fetch, Saved
  <1>6. UNCHANGED <<stored, agentVars, acks, conn, hub, sends, faults>>
    BY DEF Fetch
  <1>7. /\ rows \in [Entries -> 0..2] /\ written <= written'
        /\ faults \in [late : Nat, fails : Nat, exits : Nat, lost : Nat]
    BY <1>2, <1>4 DEF Inv
  <1> QED
    BY <1>2, <1>4, <1>5, <1>6, <1>7, BackgroundInv

\* What a fallback read holds are entries of the journal.
LEMMA StoreFetchedSaves ==
    ASSUME Inv, StoreFetched
    PROVE  /\ rows' \in [Entries -> 0..2]
           /\ \E S \in SUBSET (1..written) : Saved' = Saved \cup S
           /\ fetched' \subseteq fetched
  <1>1. PICK S \in fetched : rows' = Inserted(S) /\ fetched' = fetched \ {S}
    BY DEF StoreFetched
  <1>2. S \subseteq 1..written /\ 1..written \subseteq Entries
    BY Sizes DEF Inv, Entries
  <1>3. S \subseteq Entries
    BY <1>2
  <1>4. rows' \in [Entries -> 0..2] /\ Saved' = Saved \cup S
    BY <1>1, <1>3, InsertedSaves DEF Inv
  <1> QED
    BY <1>1, <1>2, <1>4

LEMMA StoreFetchedInv == Inv /\ StoreFetched => Inv'
  <1> SUFFICES ASSUME Inv, StoreFetched PROVE Inv'
    OBVIOUS
  <1>1. rows' \in [Entries -> 0..2] /\ Saved \subseteq Saved' /\ fetched' \subseteq fetched
    BY StoreFetchedSaves
  <1>2. written' = written /\ written \in Nat
    BY Sizes DEF Inv, StoreFetched
  <1> QED
    BY <1>1, <1>2, BackgroundInv DEF Inv, StoreFetched

LEMMA LoseFetchedInv == Inv /\ LoseFetched => Inv'
  <1> SUFFICES ASSUME Inv, LoseFetched PROVE Inv'
    OBVIOUS
  <1>1. fetched' \subseteq fetched /\ written' = written /\ written \in Nat
    BY Sizes DEF Inv, LoseFetched
  <1>2. rows' = rows /\ Saved' = Saved
    BY DEF LoseFetched, Saved
  <1>3. faults' \in [late : Nat, fails : Nat, exits : Nat, lost : Nat]
    BY ChargeType DEF Inv, LoseFetched
  <1>4. UNCHANGED <<stored, agentVars, acks, conn, hub, sends, tail>>
    BY DEF LoseFetched
  <1>5. /\ rows \in [Entries -> 0..2] /\ written \in 0..MaxEntries /\ written <= written'
        /\ tail \in 0..written /\ fetched \subseteq SUBSET (1..written)
    BY <1>1 DEF Inv
  <1> QED
    BY <1>1, <1>2, <1>3, <1>4, <1>5, BackgroundInv

-----------------------------------------------------------------------------
(* The results. *)

LEMMA StutterInv == Inv /\ UNCHANGED vars => Inv'
  <1> SUFFICES ASSUME Inv, UNCHANGED vars PROVE Inv'
    OBVIOUS
  <1>1. Saved' = Saved
    BY DEF vars, Saved
  <1> QED
    BY <1>1, BackgroundInv, Sizes DEF Inv, vars, agentVars

LEMMA NextInv == Inv /\ [Next]_vars => Inv'
  <1> SUFFICES ASSUME Inv, [Next]_vars PROVE Inv'
    OBVIOUS
  <1>1. CASE Log
    BY <1>1, LogInv
  <1>2. CASE AgentStep
    BY <1>2, ConnectInv, HelloAckInv, StartFollowerInv, ReadEntryInv, SendInv, ReceiveAckInv
    DEF AgentStep
  <1>3. CASE \E c \in 1..MaxConns : HubStep(c)
    BY <1>3, ReadCursorInv, StoreBatchInv, StoreFailsInv, AnswerInv DEF HubStep
  <1>4. CASE Fallback
    BY <1>4, FetchInv, StoreFetchedInv DEF Fallback
  <1>5. CASE Failure
    BY <1>5, AckTimeoutInv, FollowerExitsInv, DropInv, HubCrashInv, LoseFetchedInv DEF Failure
  <1>6. CASE UNCHANGED vars
    BY <1>6, StutterInv
  <1> QED
    BY <1>1, <1>2, <1>3, <1>4, <1>5, <1>6 DEF Next

\* Everything a batch continues is saved, wherever the batch or its
\* acknowledgement is: _push_journal_stream and handle_agent together.
THEOREM InFlightSafe == ASSUME InitCursor # 0 PROVE Spec => []Inv
  <1>1. Init => Inv
    BY InitInv
  <1>2. Inv /\ [Next]_vars => Inv'
    BY NextInv
  <1> QED
    BY <1>1, <1>2, PTL DEF Spec

\* Neither the cursor the hub commits nor the one the agent resumes from is
\* ever past an entry that is not saved.
THEOREM ResumeSafe == ASSUME InitCursor # 0 PROVE Spec => []ResumeIsSafe
  <1>1. Inv => ResumeIsSafe
    BY DEF Inv, AgentOK, Safe, ResumeIsSafe
  <1> QED
    BY <1>1, InFlightSafe, PTL

\* Every variable of the agent, the hub and the fallback keeps its type, and
\* nobody is past the end of the journal.
THEOREM StreamTypeCorrect == ASSUME InitCursor # 0 PROVE Spec => []TypeOK
  <1>1. Inv => TypeOK
    <2> SUFFICES ASSUME Inv PROVE TypeOK
      OBVIOUS
    <2>1. GoodBatch \subseteq Batch /\ GoodAck \subseteq [batch : Batch, ok : BOOLEAN]
      BY DEF GoodBatch, GoodAck
    <2>2. acks \in Seq([batch : Batch, ok : BOOLEAN])
      BY <2>1, SeqOfMore DEF Inv
    <2>3. Seq(GoodBatch) \subseteq Seq(Batch)
      BY <2>1, SeqOfMore
    <2>4. GoodConnection \subseteq Connection
      BY <2>3, Sizes DEF Inv, GoodConnection, Connection
    <2>5. \A c \in 1..MaxConns : hub[c] \in Connection
                                   /\ (hub[c].work # "none" => hub[c].inbox # <<>>)
      BY <2>4 DEF Inv, GoodConnection
    <2>6. hub \in [1..MaxConns -> Connection]
      BY <2>4 DEF Inv
    <2> QED
      BY <2>2, <2>5, <2>6 DEF Inv, AgentOK, TypeOK
  <1> QED
    BY <1>1, InFlightSafe, PTL

\* A step of the stream is a step of the log it promises, or none.
LEMMA PromiseStep == Inv /\ [Next]_vars => [Promise!Next]_(Promise!vars)
  <1> SUFFICES ASSUME Inv, [Next]_vars PROVE Promise!Next \/ UNCHANGED Promise!vars
    OBVIOUS
  <1> USE DEF Promise!vars
  <1>1. CASE Log
    <2>1. Saved' = Saved
      BY <1>1 DEF Log, Saved
    <2> QED
      BY <1>1, <2>1 DEF Log, Promise!Next, Promise!Append
  <1>2. ASSUME NEW c \in 1..MaxConns, StoreBatch(c)
        PROVE  Promise!Next
    <2> DEFINE b == Head(hub[c].inbox)
    <2>1. b \in GoodBatch /\ Saved' = Saved \cup (b.lo..b.hi) /\ stored' = b.hi
      BY <1>2, StoreBatchSaves
    <2>2. b.lo \in 1..written /\ b.hi \in b.lo..written
      <3>1. b \in Batch /\ b.lo <= b.hi /\ b.hi <= written
        BY <2>1 DEF GoodBatch
      <3> QED
        BY <3>1, Bounds, Counters
    <2>3. Promise!SaveBatch(b.lo, b.hi)
      BY <1>2, <2>1 DEF Promise!SaveBatch, Promise!SavedUpTo, GoodBatch, Safe, StoreBatch
    <2> QED
      BY <2>2, <2>3 DEF Promise!Next
  <1>3. CASE StoreFetched
    <2>1. PICK S \in SUBSET (1..written) : Saved' = Saved \cup S
      BY <1>3, StoreFetchedSaves
    <2>2. Promise!Backfill(S)
      BY <1>3, <2>1 DEF StoreFetched, Promise!Backfill
    <2> QED
      BY <2>2 DEF Promise!Next
  <1>4. CASE UNCHANGED <<written, rows, stored>>
    BY <1>4 DEF Saved
  <1>5. CASE AgentStep
    BY <1>4, <1>5 DEF AgentStep, Connect, HelloAck, StartFollower, ReadEntry, Send, ReceiveAck
  <1>6. ASSUME NEW c \in 1..MaxConns, HubStep(c)
        PROVE  Promise!Next \/ UNCHANGED Promise!vars
    BY <1>2, <1>4, <1>6 DEF HubStep, ReadCursor, StoreFails, Answer
  <1>7. CASE Fallback
    BY <1>3, <1>4, <1>7 DEF Fallback, Fetch
  <1>8. CASE Failure
    BY <1>4, <1>8 DEF Failure, AckTimeout, FollowerExits, Drop, HubCrash, LoseFetched
  <1>9. CASE UNCHANGED vars
    BY <1>4, <1>9 DEF vars
  <1> QED
    BY <1>1, <1>5, <1>6, <1>7, <1>8, <1>9 DEF Next

\* The stream and its fallback together implement ResumableLog: the committed
\* cursor moves only over saved entries, in one step with their rows.
THEOREM StreamImplementsLog == ASSUME InitCursor # 0 PROVE Spec => ImplementsLog
  <1>1. Init => Promise!Init
    <2> SUFFICES ASSUME Init PROVE Promise!Init
      OBVIOUS
    <2>1. InitCursor \in Nat /\ InitCursor \in 0..MaxEntries /\ MaxEntries \in Nat
      BY InitCursorAssumption, Sizes
    <2>2. Saved = 1..InitCursor
      BY <2>1 DEF Init, Saved, Entries
    <2> QED
      BY <2>1, <2>2 DEF Init, Promise!Init, Promise!SavedUpTo
  <1>2. Inv /\ [Next]_vars => [Promise!Next]_(Promise!vars)
    BY PromiseStep
  <1> QED
    BY <1>1, <1>2, InFlightSafe, PTL DEF Spec, ImplementsLog, Promise!Spec
=============================================================================
