---------------------------- MODULE MCFirewall ----------------------------
(* Constant values for the runs over Firewall.tla. *)
EXTENDS FirewallProperties

CONSTANTS a, c1, c2, w1, w2

Rule(kind, action, hits) ==
    [kind |-> kind, action |-> action, hits |-> hits, parsed |-> hits,
     bare |-> FALSE, client |-> None]

Accept   == Rule("input", "ACCEPT", {a})        \* ACCEPT tcp/443 from a
Deny     == Rule("input", "DROP", {a})          \* DROP tcp/443 from a's network
DenyAll  == [Deny EXCEPT !.bare = TRUE]         \* DROP, no source, no port
Pass     == Rule("forward", "ACCEPT", {})
Stop     == Rule("forward", "DROP", {})
Port     == Rule("portforward", "ACCEPT", {})
Snat     == Rule("snat", "ACCEPT", {})
BlockOf(c) == [Rule("client_block", "DROP", {}) EXCEPT !.client = c]

On(shape, pos)  == [shape |-> shape, enabled |-> TRUE, pos |-> pos * Unit]
Off(shape, pos) == [shape |-> shape, enabled |-> FALSE, pos |-> pos * Unit]

Add(shape)     == [op |-> "add", by |-> a, shape |-> shape]
Change(op, id) == [op |-> op, by |-> a, id |-> id]
Move(id, target, place) ==
    [op |-> "reorder", by |-> a, id |-> id, target |-> target, place |-> place]
SetBlock(op, c) == [op |-> op, by |-> a, shape |-> BlockOf(c)]
SyncReq        == [op |-> "sync", by |-> a]
DiscoverReq    == [op |-> "discover", by |-> a]

Empty == {}

-----------------------------------------------------------------------------
(* Requests that edit the INPUT rules of a table where the admin's ACCEPT   *)
(* sits before a DROP, with a second, disabled pair, among requests that    *)
(* block and unblock two clients.                                           *)

AccessTables ==
    {(1 :> On(Accept, 1)) @@ (2 :> On(Deny, 2)) @@ (3 :> Off(Accept, 3)),
     (1 :> On(Accept, 1)) @@ (2 :> Off(Deny, 1)) @@ (3 :> On(Accept, 2))}

BlockRequests == {SetBlock("block", c1), SetBlock("unblock", c1), SetBlock("block", c2)}

EditRequests ==
    {Add(Accept), Add(Deny), Change("toggle", 1), Change("toggle", 2), Change("toggle", 3),
     Change("disable", 1), Change("delete", 1), Change("delete", 3),
     Move(2, 1, "before"), Move(1, 2, "after"), Move(3, 1, "before")}

AccessRequests == EditRequests \cup BlockRequests

(* Everything that only rebuilds, against hand edits. *)

RebuildTables ==
    {(1 :> On(Pass, 1)) @@ (2 :> On(Stop, 2)) @@ (3 :> On(Port, 3)) @@ (4 :> On(Deny, 4))}

RebuildRequests ==
    {SyncReq, DiscoverReq, Move(2, 1, "before"), Move(3, 1, "after")}

RebuildManual == {<<"FORWARD", Stop>>, <<"INPUT", [Deny EXCEPT !.kind = "other"]>>,
                  <<"PREROUTING", Port>>}

(* One worker: every way to change a rule, a synchronisation among them.    *)

SerialTables ==
    {(1 :> On(Accept, 1)) @@ (2 :> On(Deny, 2)) @@ (3 :> On(BlockOf(c1), 3))
        @@ (4 :> Off(Snat, 4)) @@ (5 :> On(Stop, 5)) @@ (6 :> On(Port, 6)),
     (1 :> On(Accept, 1)) @@ (2 :> Off(Deny, 1)) @@ (5 :> On(Port, 2)) @@ (6 :> On(Stop, 3))}

SerialRequests ==
    {SyncReq, DiscoverReq, Add(Accept), Add(Deny), Add(DenyAll), Add(Port), Add(Pass),
     Change("toggle", 1), Change("toggle", 2), Change("toggle", 3), Change("toggle", 4), Change("disable", 5),
     Change("delete", 1), Change("delete", 6), Move(2, 1, "before"), Move(5, 6, "after"),
     SetBlock("unblock", c1), SetBlock("block", c2)}

(* One request of each way through the locks, or past them, for termination. *)

AnyTables == {(1 :> On(Accept, 1)) @@ (2 :> On(BlockOf(c1), 2))}

AnyRequests ==
    {SyncReq, DiscoverReq, Add(Pass), Change("toggle", 1), SetBlock("unblock", c1)}

AnyManual == {<<"INPUT", Deny>>}
=============================================================================
