-------------------------- MODULE MCOverviewStream --------------------------
(* Constant values for the runs over Sessions.tla and OverviewStream.tla.  *)
EXTENDS OverviewStream

CONSTANTS a, d, m, b1, b2, b3, r1, r2, r3, r4

Ask(kind, from, user, pw, api) == [kind |-> kind, from |-> from, user |-> user, pw |-> pw, api |-> api]
Nothing == Ask("none", b1, a, 1, FALSE)
OnlyA == [b \in Browsers |-> IF b = b1 THEN a ELSE None]
AandD == [b \in Browsers |-> IF b = b1 THEN a ELSE IF b = b2 THEN d ELSE None]
Staff == [u \in Users |-> IF u = m THEN "moderator" ELSE "admin"]
Case(signed, w, x, y, z) ==
    [start |-> Staff, signedIn |-> signed, viewers |-> {}, commits |-> 0, faults |-> 0, lapses |-> 0,
     sends |-> [r \in Requests |-> CASE r = r1 -> w [] r = r2 -> x [] r = r3 -> y [] OTHER -> z]]
Seen(c, x, y, z) ==
    [c EXCEPT !.viewers = {b1}, !.commits = x, !.faults = y, !.lapses = z]

(* A sign-out among the page's other requests, and the next sign-in.       *)
SignOut == Case(OnlyA, Ask("page", b1, a, 1, FALSE), Ask("mint", b1, a, 1, FALSE),
                Ask("logout", b1, a, 1, FALSE), Ask("login", b1, a, 1, FALSE))
(* The same account signs in from a second browser and from a script.      *)
SecondLogin == Case(OnlyA, Ask("page", b1, a, 1, FALSE), Ask("login", b2, a, 1, FALSE),
                    Ask("apilogin", b3, a, 1, TRUE), Ask("mint", b1, a, 1, FALSE))
(* An idle lock, a wrong and a right password, another user instead.       *)
Locked == Case(OnlyA, Ask("lock", b1, a, 1, FALSE), Ask("login", b1, a, 2, FALSE),
               Ask("login", b1, m, 1, FALSE), Ask("clear", b1, a, 1, FALSE))
(* Two administrators delete each other, one of them also itself.          *)
LastAdmin == Case(AandD, Ask("delete", b1, d, 1, FALSE), Ask("delete", b2, a, 1, FALSE),
                  Ask("delete", b1, a, 1, TRUE), Ask("login", b3, a, 1, FALSE))
(* A deleted account is created again; a password changes.                 *)
Staffing == Case(AandD, Ask("delete", b1, m, 1, FALSE), Ask("add", b2, m, 1, FALSE),
                 Ask("password", b1, a, 1, FALSE), Ask("password", b2, a, 1, TRUE))
(* A watched overview while its account signs in elsewhere; while data     *)
(* changes twice and something fails; while a token runs out.              *)
Displaced == Seen(Case(OnlyA, Ask("login", b2, a, 1, FALSE), Ask("login", b1, a, 1, FALSE), Nothing, Nothing), 1, 0, 0)
Troubled == Seen(Case(OnlyA, Nothing, Nothing, Nothing, Nothing), 2, 1, 0)
Elapsed == Seen(Case(OnlyA, Nothing, Nothing, Nothing, Nothing), 1, 0, 1)

SessionScenarios == {SignOut, SecondLogin, Locked, LastAdmin, Staffing, Displaced, Troubled, Elapsed}
Resumed == Case(OnlyA, Ask("lock", b1, a, 1, FALSE), Ask("login", b2, a, 1, FALSE),
                Ask("login", b1, a, 1, FALSE), Nothing)
ResumeScenario == {Resumed}
=============================================================================
