------------------------- MODULE MCClientLifecycle -------------------------
(* Constant values for the runs over ClientLifecycle.tla. *)
EXTENDS ClientLifecycle

CONSTANTS c1, c2, i1, i2, r1, r2, r3

Ask(op, names, api) == [op |-> op, names |-> names, api |-> api]
Nothing == Ask("none", <<>>, FALSE)
OnlyFirst == [c \in Clients |-> IF c = c1 THEN i1 ELSE None]
Both == [c \in Clients |-> IF c = c1 THEN i1 ELSE i2]
Case(one, start, x, y, z) ==
    [alone |-> one, start |-> start,
     does |-> [r \in Requests |-> CASE r = r1 -> x [] r = r2 -> y [] OTHER -> z]]

(* One administrator: a removal whose address is reused, a renewal that    *)
(* may move, a creation.                                                   *)
OneByOne == Case(TRUE, OnlyFirst, Ask("remove", <<c1>>, TRUE), Ask("add", <<c2>>, TRUE),
                 Ask("renew", <<c2>>, TRUE))
(* A creation and two renewals on one day.                                 *)
RenewalDay == Case(TRUE, OnlyFirst, Ask("add", <<c2>>, TRUE), Ask("renew", <<c1>>, TRUE),
                   Ask("renew", <<c2>>, TRUE))
(* A double click on "Create client", and the new client renewed.          *)
DoubleClick == Case(FALSE, OnlyFirst, Ask("add", <<c2>>, TRUE), Ask("add", <<c2>>, FALSE),
                    Ask("renew", <<c2>>, FALSE))
(* An import of an old and a new client while the new one is removed.      *)
Import == Case(FALSE, OnlyFirst, Ask("import", <<c1, c2>>, TRUE), Ask("remove", <<c2>>, TRUE), Nothing)
(* A bulk removal through the page, which refreshes nothing, and a renewal *)
(* of one of its clients.                                                  *)
ByPage == Case(FALSE, Both, Ask("remove", <<c1, c2>>, FALSE), Ask("renew", <<c2>>, TRUE), Nothing)

ClientScenarios == {OneByOne, RenewalDay, DoubleClick, Import, ByPage}
MoveScenario == {Case(TRUE, Both, Ask("remove", <<c1>>, TRUE), Ask("renew", <<c2>>, TRUE), Nothing)}
ReuseScenario == {Case(FALSE, OnlyFirst, Ask("remove", <<c1>>, TRUE), Ask("add", <<c2>>, TRUE), Nothing)}
=============================================================================
