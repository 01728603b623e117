---------------------------- MODULE EventStream ----------------------------
(***************************************************************************)
(* One event stream (traffic flows or OpenVPN events) from the journal of  *)
(* the VPN server to a table of the hub.  agent.py's _push_journal_stream  *)
(* follows the journal and sends batches over its WebSocket; handle_agent  *)
(* of hub_gateway.py stores each with its cursor and acknowledges it; a    *)
(* reconnecting agent is handed the stored cursor.  Beside it a timer      *)
(* (deploy/ingest_logs.py) reads the same journal with a cursor file.      *)
(*                                                                         *)
(* Entries are numbered; a cursor is the number of an entry, 0 for none.   *)
(* A batch's uuid is its number among the batches sent.  Entries that give *)
(* no row are left out.                                                    *)
(***************************************************************************)
EXTENDS Integers, Sequences, FiniteSets

CONSTANTS Keyed,       \* entries whose row has no NULL in its unique key
          InitCursor,  \* what the cursor table holds at the start
          MaxBatch,    \* entries in a batch (50 in the code)
          MaxEntries,  \* bound: entries of the journal
          MaxConns,    \* bound: connections the agent opens
          MaxSends,    \* bound: batches sent
          MaxFaults,   \* bounds: [late, fails, exits, lost |-> how many]
          MaxFetches   \* bound: fallback reads in flight at once

ASSUME InitCursorAssumption == InitCursor \in 0..MaxEntries
ASSUME SizesAssumption == {MaxBatch, MaxEntries, MaxConns, MaxSends, MaxFetches} \subseteq Nat
ASSUME FaultsAssumption ==
    MaxFaults \in [late : Nat, fails : Nat, exits : Nat, lost : Nat]

VARIABLES written,  \* the journal holds the entries 1..written
          rows,     \* rows[e]: copies of entry e in the table (2: several)
          stored,   \* the cursor of the cursor table
          phase,    \* where the agent's stream task is
          cursor,   \* the cursor it has in memory
          batch,    \* the batch it is collecting or waiting for
          acks,     \* acknowledgements on their way to it, or in its queue
          conn,     \* the number of its last connection
          hub,      \* hub[c]: the coroutine that serves connection c
          tail,     \* the fallback's cursor file
          fetched,  \* fallback reads not stored yet: sets of entries
          sends,    \* batches sent so far
          faults    \* what the bounds on faults have been charged

vars == <<written, rows, stored, phase, cursor, batch, acks, conn, hub, tail,
          fetched, sends, faults>>
agentVars == <<phase, cursor, batch>>
tableVars == <<rows, stored>>
fallbackVars == <<tail, fetched>>

Entries == 1..MaxEntries

Batch == [id : Nat, lo : Nat \ {0}, hi : Nat]

\* A connection: its queue of batches, the fate of the first of them, and
\* the cursor its hello was answered with.
Connection ==
    [phase : {"unused", "hello", "greet", "open", "closed"}, inbox : Seq(Batch),
     work : {"none", "ok", "failed"}, cursor : Nat]

-----------------------------------------------------------------------------
(* Mutations, each in place of the definition it is named for when a       *)
(* property is tested against it.  No specification uses them.             *)

MutSkipsOne(c)     == c + 2           \* StartsAt: one entry too far
MutAnyAck(a, b)    == a.ok            \* Confirms: the number is not compared
MutOnlyCursor(b)   == {}              \* RowsOf: the cursor without the rows
MutForgets(c)      == 0               \* Resumes: the hello's cursor is ignored

-----------------------------------------------------------------------------
(* The table. *)

\* INSERT ... ON CONFLICT DO NOTHING of the entries in S.
Inserted(S) ==
    [e \in Entries |->
        CASE e \notin S                   -> rows[e]
          [] e \in S /\ rows[e] = 0       -> 1
          [] e \in S /\ rows[e] # 0       -> IF e \in Keyed THEN rows[e] ELSE 2]

RowsOf(b) == b.lo..b.hi

\* Where the follower starts: after the cursor, without one at the end.
StartsAt(c) == IF c = 0 THEN written + 1 ELSE c + 1

Confirms(a, b) == a.ok /\ a.batch = b

Resumes(c) == hub[c].cursor

NoConnection == [phase |-> "unused", inbox |-> <<>>, work |-> "none", cursor |-> 0]

Init ==
    /\ written = InitCursor
    /\ rows = [e \in Entries |-> IF e <= InitCursor THEN 1 ELSE 0]
    /\ stored = InitCursor
    /\ phase = "down" /\ cursor = 0
    /\ batch = [id |-> 0, lo |-> 1, hi |-> 0]
    /\ acks = <<>>
    /\ conn = 0 /\ hub = [c \in 1..MaxConns |-> NoConnection]
    /\ tail = InitCursor /\ fetched = {}
    /\ sends = 0
    /\ faults = [late |-> 0, fails |-> 0, exits |-> 0, lost |-> 0]

Charge(kind) ==
    /\ faults[kind] < MaxFaults[kind]
    /\ faults' = [faults EXCEPT ![kind] = @ + 1]

Log ==
    /\ written < MaxEntries
    /\ written' = written + 1
    /\ UNCHANGED <<rows, stored, agentVars, acks, conn, hub, fallbackVars, sends, faults>>

-----------------------------------------------------------------------------
(* The agent. *)

\* A new connection comes with new acknowledgement queues.
Connect ==
    /\ phase = "down" /\ conn < MaxConns
    /\ phase' = "hello"
    /\ conn' = conn + 1
    /\ acks' = <<>>
    /\ hub' = [hub EXCEPT ![conn + 1].phase = "hello"]
    /\ UNCHANGED <<written, rows, stored, cursor, batch, fallbackVars, sends, faults>>

HelloAck ==
    /\ phase = "hello" /\ hub[conn].phase = "greet"
    /\ phase' = "start"
    /\ cursor' = Resumes(conn)
    /\ hub' = [hub EXCEPT ![conn].phase = "open"]
    /\ UNCHANGED <<written, rows, stored, batch, acks, conn, fallbackVars, sends, faults>>

StartFollower ==
    /\ phase = "start"
    /\ phase' = "follow"
    /\ batch' = [id |-> 0, lo |-> StartsAt(cursor), hi |-> StartsAt(cursor) - 1]
    /\ UNCHANGED <<written, rows, stored, cursor, acks, conn, hub, fallbackVars, sends, faults>>

ReadEntry ==
    /\ phase = "follow"
    /\ batch.hi < written /\ batch.hi - batch.lo + 1 < MaxBatch
    /\ batch' = [batch EXCEPT !.hi = @ + 1]
    /\ UNCHANGED <<written, rows, stored, phase, cursor, acks, conn, hub, fallbackVars, sends,
                   faults>>

\* A full batch, or half a second after its first entry.
Send ==
    /\ phase = "follow" /\ batch.lo <= batch.hi
    /\ sends < MaxSends
    /\ sends' = sends + 1
    /\ batch' = [batch EXCEPT !.id = sends + 1]
    /\ hub' = [hub EXCEPT ![conn].inbox = Append(@, batch')]
    /\ phase' = "wait"
    /\ UNCHANGED <<written, rows, stored, cursor, acks, conn, fallbackVars, faults>>

\* Any other answer than the one to this batch restarts the follower.
ReceiveAck ==
    /\ phase = "wait" /\ acks # <<>>
    /\ acks' = Tail(acks)
    /\ IF Confirms(Head(acks), batch)
       THEN /\ cursor' = batch.hi
            /\ batch' = [id |-> 0, lo |-> batch.hi + 1, hi |-> batch.hi]
            /\ phase' = "follow"
       ELSE /\ phase' = "start"
            /\ UNCHANGED <<cursor, batch>>
    /\ UNCHANGED <<written, rows, stored, conn, hub, fallbackVars, sends, faults>>

\* 30 s without an answer, which may still arrive.
AckTimeout ==
    /\ phase = "wait" /\ Charge("late")
    /\ phase' = "start"
    /\ UNCHANGED <<written, rows, stored, cursor, batch, acks, conn, hub, fallbackVars, sends>>

FollowerExits ==
    /\ phase = "follow" /\ Charge("exits")
    /\ phase' = "start"
    /\ UNCHANGED <<written, rows, stored, cursor, batch, acks, conn, hub, fallbackVars, sends>>

-----------------------------------------------------------------------------
(* The hub: one coroutine per connection.  A batch being stored in a       *)
(* thread is the first of the inbox; it is stored even when the connection *)
(* is gone by then.                                                        *)

ReadCursor(c) ==
    /\ hub[c].phase = "hello"
    /\ hub' = [hub EXCEPT ![c].phase = "greet", ![c].cursor = stored]
    /\ UNCHANGED <<written, rows, stored, agentVars, acks, conn, fallbackVars, sends, faults>>

\* Rows and cursor are one transaction.
StoreBatch(c) ==
    /\ hub[c].work = "none" /\ hub[c].inbox # <<>>
    /\ rows' = Inserted(RowsOf(Head(hub[c].inbox)))
    /\ stored' = Head(hub[c].inbox).hi
    /\ hub' = [hub EXCEPT ![c].work = "ok"]
    /\ UNCHANGED <<written, agentVars, acks, conn, fallbackVars, sends, faults>>

StoreFails(c) ==
    /\ hub[c].work = "none" /\ hub[c].inbox # <<>>
    /\ Charge("fails")
    /\ hub' = [hub EXCEPT ![c].work = "failed"]
    /\ UNCHANGED <<written, rows, stored, agentVars, acks, conn, fallbackVars, sends>>

\* On a dead connection the answer is lost; once the hub has noticed, the
\* send raises and the rest of the inbox goes unread.
Answer(c) ==
    /\ hub[c].work # "none"
    /\ \/ /\ hub[c].phase = "open"
          /\ acks' = Append(acks, [batch |-> Head(hub[c].inbox), ok |-> hub[c].work = "ok"])
          /\ hub' = [hub EXCEPT ![c].work = "none", ![c].inbox = Tail(@)]
       \/ /\ hub[c].phase = "closed"
          /\ \E rest \in {<<>>, Tail(hub[c].inbox)} :
                hub' = [hub EXCEPT ![c].work = "none", ![c].inbox = rest]
          /\ UNCHANGED acks
    /\ UNCHANGED <<written, rows, stored, agentVars, conn, fallbackVars, sends, faults>>

-----------------------------------------------------------------------------
(* Connections end.  The bound MaxConns always leaves one more to open.    *)

\* The connection or the agent dies: acknowledgements on their way are lost,
\* and so may be the last batches sent.
Drop ==
    /\ phase # "down" /\ conn < MaxConns
    /\ phase' = "down"
    /\ acks' = <<>>
    /\ \E n \in 0..Len(hub[conn].inbox) :
          /\ hub[conn].work # "none" => n > 0
          /\ hub' = [hub EXCEPT ![conn].phase = "closed",
                                ![conn].inbox = SubSeq(@, 1, n)]
    /\ UNCHANGED <<written, rows, stored, cursor, batch, conn, fallbackVars, sends, faults>>

\* The gateway is restarted: what it has not stored is gone.
HubCrash ==
    /\ phase # "down" /\ conn < MaxConns
    /\ phase' = "down"
    /\ acks' = <<>>
    /\ hub' = [c \in 1..MaxConns |->
                  IF c <= conn THEN [NoConnection EXCEPT !.phase = "closed"] ELSE hub[c]]
    /\ UNCHANGED <<written, rows, stored, cursor, batch, conn, fallbackVars, sends, faults>>

-----------------------------------------------------------------------------
(* The fallback, through the agent: journalctl moves its cursor file as it *)
(* reads, before the lines are on the hub, and may repeat the last entry   *)
(* it has seen.                                                            *)

Fetch ==
    /\ phase \in {"start", "follow", "wait"}
    /\ Cardinality(fetched) < MaxFetches
    /\ \E lo \in {tail, tail + 1} \ {0} :
          /\ lo <= written
          /\ fetched' = fetched \cup {lo..written}
    /\ tail' = written
    /\ UNCHANGED <<written, rows, stored, agentVars, acks, conn, hub, sends, faults>>

StoreFetched ==
    \E S \in fetched :
        /\ rows' = Inserted(S)
        /\ fetched' = fetched \ {S}
        /\ UNCHANGED <<written, stored, agentVars, acks, conn, hub, tail, sends, faults>>

LoseFetched ==
    /\ Charge("lost")
    /\ \E S \in fetched : fetched' = fetched \ {S}
    /\ UNCHANGED <<written, rows, stored, agentVars, acks, conn, hub, tail, sends>>

-----------------------------------------------------------------------------
AgentStep ==
    Connect \/ HelloAck \/ StartFollower \/ ReadEntry \/ Send \/ ReceiveAck

HubStep(c) == ReadCursor(c) \/ StoreBatch(c) \/ StoreFails(c) \/ Answer(c)

Fallback == Fetch \/ StoreFetched

Failure == AckTimeout \/ FollowerExits \/ Drop \/ HubCrash \/ LoseFetched

Next == Log \/ AgentStep \/ (\E c \in 1..MaxConns : HubStep(c)) \/ Fallback \/ Failure

Spec == Init /\ [][Next]_vars

\* The agent and the gateway keep running.
FairSpec ==
    /\ Spec
    /\ WF_vars(AgentStep)
    /\ \A c \in 1..MaxConns : WF_vars(HubStep(c))

-----------------------------------------------------------------------------
(* Properties. *)

\* The type invariant, with what the code takes for granted: nobody is past
\* the end of the journal, a batch in a thread is the first of its inbox.
TypeOK ==
    /\ written \in 0..MaxEntries
    /\ rows \in [Entries -> 0..2]
    /\ stored \in 0..written /\ cursor \in 0..written
    /\ phase \in {"down", "hello", "start", "follow", "wait"}
    /\ batch \in Batch /\ batch.lo <= batch.hi + 1 /\ batch.hi <= written
    /\ acks \in Seq([batch : Batch, ok : BOOLEAN])
    /\ conn \in 0..MaxConns
    /\ hub \in [1..MaxConns -> Connection]
    /\ \A c \in 1..MaxConns : hub[c].work # "none" => hub[c].inbox # <<>>
    /\ tail \in 0..written /\ fetched \subseteq SUBSET (1..written)
    /\ sends \in 0..MaxSends
    /\ faults \in [late : Nat, fails : Nat, exits : Nat, lost : Nat]

Saved == {e \in Entries : rows[e] > 0}

\* README: "The hub acknowledges each batch only after saving its rows and
\* journal cursor together, so a reconnect resumes safely."  Whatever cursor
\* the table holds or the agent remembers, no entry before it is unsaved,
\* though batches are lost, repeated, and stored after their connection died.
ResumeIsSafe == 1..stored \subseteq Saved /\ 1..cursor \subseteq Saved

\* The stream and its fallback implement the log they promise.
Promise == INSTANCE ResumableLog WITH saved <- Saved, mark <- stored

ImplementsLog == Promise!Spec

\* Every entry is stored in the end, by the stream alone when it has a cursor
\* to resume from: faults only delay it.
EveryEntryStored == \A e \in Entries : e <= written ~> e \in Saved
=============================================================================
