------------------------------- MODULE VpnLog -------------------------------
(***************************************************************************)
(* What the session history makes of the OpenVPN log: the pairing of       *)
(* connect and disconnect lines into sessions and the peak-concurrency     *)
(* chart (app/vpnlog.py), over a VPN server that writes the log.           *)
(*                                                                         *)
(* The server replaces a client's connection by its next one without a     *)
(* line, may log the end of a replaced connection late, is restarted, and  *)
(* sleeps with its host, which shows only as a clock change after a        *)
(* silence in the system log.  Its own list of connections, ended and      *)
(* open, is the truth the history is compared with.  Time is a number, a   *)
(* tick being the second the log is stamped with; a line is its parsed     *)
(* fields.  How the lines reach the tables is in EventStream.tla.          *)
(***************************************************************************)
EXTENDS Naturals, Integers, Sequences, FiniteSets, SequencesExt, FiniteSetsExt

CONSTANTS
    Clients,    \* client names
    Addresses,  \* the peers' addresses with their ports
    None,       \* no connection
    MinGap,     \* the shortest silence that counts as a gap (300 s)
    BucketSize, \* step_seconds
    MaxTime,    \* bound on the clock
    MaxLog      \* bound on the lines of the log

ASSUME VpnLogAssumption ==
    /\ None \notin Addresses
    /\ MinGap \in Nat \ {0, 1} /\ BucketSize \in Nat \ {0}
    /\ MaxTime \in Nat /\ MaxLog \in Nat

VARIABLES
    now,      \* the server's clock
    peers,    \* its open connection of each client: [start, address] or None
    past,     \* its ended connections: [client, start, address, end]
    late,     \* replaced connections whose end may still be logged
    log,      \* vpn_events, in order of ts and id
    lines,    \* times of the system log's lines
    changes,  \* those that record a clock change
    lossless  \* whether every end so far has had its line, on a steady clock

vars == <<now, peers, past, late, log, lines, changes, lossless>>

Line(event, c, a) == [ts |-> now, event |-> event, client |-> c, address |-> a]

(* Mutations, each in place of the definition it is named for.             *)
MutOverwrites(s, e)  == [open |-> [s.open EXCEPT ![e.client] = [start |-> e.ts, address |-> e.address]],
                         broken |-> s.broken, out |-> s.out]        \* Connected: the stale one vanishes
MutAnyPeer(s, e)     == s.open[e.client] # None                     \* ItsOwn: whatever the address
MutDepartsLast(x, y) == x.t < y.t \/ (x.t = y.t /\ x.d > y.d)       \* Before: arrivals first

-----------------------------------------------------------------------------
Init ==
    /\ now = 0
    /\ peers = [c \in Clients |-> None]
    /\ past = {}
    /\ late = {}
    /\ log = <<>>
    /\ lines = {0}
    /\ changes = {}
    /\ lossless = TRUE

Ended(cs) == {[client |-> c, start |-> peers[c].start, address |-> peers[c].address, end |-> now] : c \in cs}
Online == {c \in Clients : peers[c] # None}

(* A line is stored once per second, event, client and address.            *)
Stores(line) ==
    /\ Len(log) < MaxLog
    /\ log' = IF line \in ToSet(log) THEN log ELSE Append(log, line)
    /\ lines' = lines \cup {now}

(* A client connects; a connection it still had is dropped silently.  Each *)
(* connection comes from a port not used in the same second.               *)
Connect(c, a) ==
    /\ \A i \in DOMAIN log : log[i].ts = now => ~ (log[i].client = c /\ log[i].address = a)
    /\ peers[c] # None => peers[c].address # a
    /\ Stores(Line("connected", c, a))
    /\ peers' = [peers EXCEPT ![c] = [start |-> now, address |-> a]]
    /\ past' = past \cup Ended({c} \cap Online)
    /\ late' = (late \cup {<<x, peers[x].address>> : x \in {c} \cap Online}) \ {<<c, a>>}
    /\ lossless' = (lossless /\ c \notin Online)
    /\ UNCHANGED <<now, changes>>

(* A clean exit, or the server's own time-out of a silent client.          *)
Disconnect(c) ==
    /\ c \in Online
    /\ Stores(Line("disconnected", c, peers[c].address))
    /\ past' = past \cup Ended({c})
    /\ peers' = [peers EXCEPT ![c] = None]
    /\ UNCHANGED <<now, late, changes, lossless>>

(* The end of a replaced connection is logged after all.                   *)
LogLate ==
    \E p \in late :
       /\ Stores(Line("disconnected", p[1], p[2]))
       /\ late' = late \ {p}
       /\ lossless' = FALSE
       /\ UNCHANGED <<now, peers, past, changes>>

(* The server is restarted: "OpenVPN 2...", no end is logged.  It takes    *)
(* more than a second.                                                     *)
Restart ==
    /\ Line("restart", None, None) \notin ToSet(log)
    /\ Stores(Line("restart", None, None))
    /\ past' = past \cup Ended(Online)
    /\ peers' = [c \in Clients |-> None]
    /\ late' = {}
    /\ lossless' = (lossless /\ Online = {})
    /\ UNCHANGED <<now, changes>>

(* A second passes, with a line in the system log.                         *)
Tick ==
    /\ now < MaxTime
    /\ now' = now + 1
    /\ lines' = lines \cup {now + 1}
    /\ UNCHANGED <<peers, past, late, log, changes, lossless>>

(* The clock jumps and the journal says so: the host slept, or its clock   *)
(* was set after a silence.  Whoever was connected is still listed by the  *)
(* server, which may time them out later.                                  *)
WakeUp(jump) ==
    /\ now + jump <= MaxTime
    /\ now' = now + jump
    /\ lines' = lines \cup {now + jump}
    /\ changes' = changes \cup {now + jump}
    /\ lossless' = FALSE
    /\ UNCHANGED <<peers, past, late, log>>

Next ==
    \/ \E c \in Clients, a \in Addresses : Connect(c, a)
    \/ \E c \in Clients : Disconnect(c)
    \/ LogLate \/ Restart \/ Tick
    \/ \E jump \in 1 .. MinGap : WakeUp(jump)

Spec == Init /\ [][Next]_vars

-----------------------------------------------------------------------------
(* list_session_observation_gaps: a clock change after a long silence.     *)
LastBefore(t) == Max({l \in lines : l < t})
Gaps == {[ts |-> t, event |-> "gap", last |-> LastBefore(t)] :
           t \in {x \in changes : x - LastBefore(x) >= MinGap}}

(* The log and the gaps in one order, a gap first in its second.           *)
Merged ==
    LET items == {[ts |-> g.ts, at |-> 0, event |-> g] : g \in Gaps}
                 \cup {[ts |-> log[i].ts, at |-> i, event |-> log[i]] : i \in DOMAIN log}
        sorted == SetToSortSeq(items, LAMBDA x, y : x.ts < y.ts \/ (x.ts = y.ts /\ x.at < y.at))
    IN  [i \in DOMAIN sorted |-> sorted[i].event]

(* A session of the history.  exact: it has a duration; ends 0: unknown.   *)
Session(c, open, end, kind) ==
    [client |-> c, start |-> open.start, address |-> open.address, end |-> end, kind |-> kind]
Openings(s) == {c \in Clients : s.open[c] # None}
ClosedAll(s, cs, end, kind) ==
    s.out \o SetToSeq({Session(c, s.open[c], end, kind) : c \in cs})

(* A gap ends, by estimate, what was open before it; the late time-outs of *)
(* those connections will not count.                                       *)
GapSeen(s, g) ==
    LET cs == {c \in Openings(s) : s.open[c].start <= g.last}
    IN  [open |-> [c \in Clients |-> IF c \in cs THEN None ELSE s.open[c]],
         broken |-> s.broken \cup {<<c, s.open[c].address>> : c \in cs},
         out |-> ClosedAll(s, cs, g.last, "estimated")]

(* A start of the server ends everything, nobody knows when.               *)
RestartSeen(s) ==
    [open |-> [c \in Clients |-> None], broken |-> s.broken,
     out |-> ClosedAll(s, Openings(s), None, "unknown")]

(* A new connection ends a stale one of the same client.                   *)
Connected(s, e) ==
    [open |-> [s.open EXCEPT ![e.client] = [start |-> e.ts, address |-> e.address]],
     broken |-> s.broken \ {<<e.client, e.address>>},
     out |-> ClosedAll(s, {e.client} \cap Openings(s), None, "unknown")]

(* A disconnect ends the open connection of that peer, and is a session of *)
(* its own, without a start, otherwise.                                    *)
ItsOwn(s, e) == s.open[e.client] # None /\ s.open[e.client].address = e.address

Disconnected(s, e) ==
    IF <<e.client, e.address>> \in s.broken THEN s
    ELSE IF ItsOwn(s, e)
    THEN [s EXCEPT !.open[e.client] = None, !.out = ClosedAll(s, {e.client}, e.ts, "exact")]
    ELSE [s EXCEPT !.out = Append(@, Session(e.client, [start |-> None, address |-> e.address], e.ts, "orphan"))]

Paired(s, e) ==
    CASE e.event = "gap" -> GapSeen(s, e)
      [] e.event = "restart" -> RestartSeen(s)
      [] e.event = "connected" -> Connected(s, e)
      [] e.event = "disconnected" -> Disconnected(s, e)

(* _build_sessions.  A clock change inside a session takes its duration.   *)
Sure(x) == IF x.kind = "exact" /\ \E t \in changes : x.start < t /\ t <= x.end
           THEN [x EXCEPT !.kind = "shifted"] ELSE x

Sessions ==
    LET s == FoldLeft(Paired, [open |-> [c \in Clients |-> None], broken |-> {}, out |-> <<>>], Merged)
        out == ClosedAll(s, Openings(s), None, "ongoing")
    IN  [i \in DOMAIN out |-> Sure(out[i])]

(* peak_concurrency_by_bucket: each session as the time it is sure to have *)
(* lasted, cut to the bucket; arrivals and departures swept in order, a    *)
(* departure before an arrival of the same second.                         *)
EndOf(x) == CASE x.kind = "ongoing" -> now [] x.kind = "unknown" -> x.start [] OTHER -> x.end
Latest(x, y) == IF x > y THEN x ELSE y
Earliest(x, y) == IF x < y THEN x ELSE y
Before(x, y) == x.t < y.t \/ (x.t = y.t /\ x.d < y.d)

Peak(known, from) ==
    LET Lo(i) == Latest(known[i].start, from)
        Hi(i) == Earliest(EndOf(known[i]), from + BucketSize)
        during == {i \in DOMAIN known : known[i].start # None /\ Lo(i) < Hi(i)}
        events == {[t |-> Lo(i), d |-> 1, i |-> i] : i \in during}
                  \cup {[t |-> Hi(i), d |-> -1, i |-> i] : i \in during}
        Swept(acc, e) == [running |-> acc.running + e.d, peak |-> Latest(acc.peak, acc.running + e.d)]
    IN  FoldLeft(Swept, [running |-> 0, peak |-> 0], SetToSortSeq(events, Before)).peak

-----------------------------------------------------------------------------
(* Every connection the log shows is one session of the history, however   *)
(* its end was lost: none vanishes and none is shown twice.                *)
EveryConnectionOnce ==
    LET known == Sessions IN
    /\ \A i \in DOMAIN log : log[i].event = "connected" =>
          Cardinality({j \in DOMAIN known : /\ known[j].client = log[i].client
                                            /\ known[j].start = log[i].ts
                                            /\ known[j].address = log[i].address}) = 1
    /\ Cardinality({j \in DOMAIN known : known[j].start # None})
         = Cardinality({i \in DOMAIN log : log[i].event = "connected"})

(* A session with a duration lasted exactly that long: late lines of other *)
(* peers, restarts and clock changes never lend it a false end.            *)
DurationsAreTrue ==
    \A x \in ToSet(Sessions) : x.kind = "exact" =>
       [client |-> x.client, start |-> x.start, address |-> x.address, end |-> x.end] \in past

(* The chart never shows more clients at once than there were, and shows   *)
(* how many there were as long as no line is missing.                      *)
There(t) ==
    Cardinality({p \in past : p.start <= t /\ t < p.end})
    + Cardinality({c \in Online : peers[c].start <= t /\ t < now})
TruePeak(from) == Max({There(t) : t \in from .. from + BucketSize - 1})

ChartIsHonest ==
    LET known == Sessions IN
    \A k \in 0 .. (now \div BucketSize) :
       /\ Peak(known, k * BucketSize) <= TruePeak(k * BucketSize)
       /\ lossless => Peak(known, k * BucketSize) = TruePeak(k * BucketSize)
=============================================================================
