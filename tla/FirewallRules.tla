--------------------------- MODULE FirewallRules ---------------------------
(***************************************************************************)
(* The data of app/firewall.py and the pure decisions it takes over them:  *)
(* which iptables chains a rule occupies, the (position, id) order, the    *)
(* first-match verdict behind the self-lockout check, and the positions    *)
(* that a reorder and the discovery of hand-typed rules compute.           *)
(*                                                                         *)
(* A rule's text is abstracted to a "shape": its kind, its target, the     *)
(* addresses whose web-UI traffic (tcp/443) it matches, those it would     *)
(* match once parsed and written back (a hand-typed rule may use matchers  *)
(* the parser drops), whether it is one the add forms refuse outright, and *)
(* the VPN client it belongs to.                                           *)
(* Positions are DOUBLE PRECISION in the table; here they are integers in  *)
(* steps of 1/Unit, so midpoints stay exact until Unit is used up.         *)
(***************************************************************************)
EXTENDS Integers, Sequences, FiniteSets, SequencesExt

CONSTANTS Addrs,    \* source addresses web requests come from
          Clients,  \* VPN client names
          None,     \* "no such thing"
          Unit      \* the distance 1.0 between two default positions

ASSUME UnitAssumption == Unit \in Nat \ {0}
ASSUME NoneAssumption == None \notin Addrs \cup Clients

Kinds == {"input", "forward", "masquerade", "snat", "portforward",
          "client_block", "other"}

Chains == {"INPUT", "FORWARD", "PREROUTING", "POSTROUTING"}

Shape == [kind : Kinds, action : {"ACCEPT", "DROP"}, hits : SUBSET Addrs,
          parsed : SUBSET Addrs, bare : BOOLEAN, client : Clients \cup {None}]

\* A row has a kind the code knows; "other" rules are only ever live.
Row == [shape : {s \in Shape : s.kind # "other"}, enabled : BOOLEAN, pos : Int]

\* A live rule: the id of its pivpn-webui:<id> tag, 0 when it carries none.
Entry == [id : Nat, shape : Shape]

\* The chains a kind is ordered in (_CHAIN_FOR_KIND).
ChainsFor(kind) ==
    CASE kind = "input"                  -> <<"INPUT">>
      [] kind = "forward"                -> <<"FORWARD">>
      [] kind \in {"masquerade", "snat"} -> <<"POSTROUTING">>
      [] kind = "portforward"            -> <<"PREROUTING", "FORWARD">>
      [] OTHER                           -> <<>>

\* A mutation of Halves: a block that forgets the INPUT chain.
MutOneHalf(kind) ==
    IF kind = "client_block" THEN <<"FORWARD">> ELSE ChainsFor(kind)

\* The chains _apply writes to, in its order.
Halves(kind) ==
    IF kind = "client_block" THEN <<"FORWARD", "INPUT">> ELSE ChainsFor(kind)

IsBlock(shape) == shape.kind = "client_block"

LiveEntry(id, shape) ==
    [id |-> IF IsBlock(shape) THEN 0 ELSE id, shape |-> shape]

\* The add forms refuse an unrestricted DROP and a reserved port.
Refused(shape) ==
    /\ shape.bare
    /\ shape.action = "DROP" \/ shape.kind = "portforward"

-----------------------------------------------------------------------------
(* Sorting and filtering, spelled out so that a prover can open them: the  *)
(* place of an element is the number of elements before it.                *)

\* Set S as a sequence, in the order of relation R.
Sorted(S, R) ==
    [k \in 1..Cardinality(S) |->
        CHOOSE i \in S : Cardinality({j \in S : <<j, i>> \in R}) = k - 1]

\* The elements of s at the indexes I.
Selected(s, I) ==
    LET order == Sorted(I, {p \in I \X I : p[1] < p[2]})
    IN  [k \in 1..Cardinality(I) |-> s[order[k]]]

-----------------------------------------------------------------------------
(* The rule table: a function from the ids in use to rows. *)

IsTable(t) == DOMAIN t \subseteq Nat \ {0} /\ \A i \in DOMAIN t : t[i] \in Row

With(t, id, row) == [i \in DOMAIN t \cup {id} |-> IF i = id THEN row ELSE t[i]]
Without(t, id)   == [i \in DOMAIN t \ {id} |-> t[i]]

\* UPDATE ... WHERE id = ...: no row, no effect.
Updated(t, id, row) == IF id \in DOMAIN t THEN With(t, id, row) ELSE t

\* ORDER BY position, id.
Before(t, i, j) ==
    t[i].pos < t[j].pos \/ (t[i].pos = t[j].pos /\ i < j)

Ordered(t, S) == Sorted(S, {p \in S \X S : Before(t, p[1], p[2])})

Enabled(t) == {i \in DOMAIN t : t[i].enabled}

EnabledInputs(t) == {i \in Enabled(t) : t[i].shape.kind = "input"}

BlockRows(t, c) == {i \in DOMAIN t : IsBlock(t[i].shape) /\ t[i].shape.client = c}

InChain(t, i, chain) == chain \in ToSet(ChainsFor(t[i].shape.kind))

\* COALESCE(MAX(position), 0) + 1 over the rows S, in units.
PositionAfter(t, S) == (IF S = {} THEN 0 ELSE Max({t[i].pos : i \in S})) + Unit

NextPosition(t) == PositionAfter(t, DOMAIN t)

(* First match wins over a set of input rules; no match is ACCEPT. *)
WouldAllow(t, S, addr) ==
    LET matching == {i \in S : addr \in t[i].shape.hits}
    IN  \A i \in matching :
            (\A j \in matching \ {i} : Before(t, i, j)) => t[i].shape.action = "ACCEPT"

\* The same verdict on a live chain.
LiveAllows(chain, addr) ==
    LET matching == {k \in DOMAIN chain : addr \in chain[k].shape.hits}
    IN  matching # {} => chain[Min(matching)].shape.action = "ACCEPT"

\* A mutation of PassesLockoutCheck: nobody is ever protected.
MutNoGuard(by, t, S) == TRUE

\* _check_self_lockout: nobody to protect, or the change keeps them in.
PassesLockoutCheck(by, t, S) == by = None \/ WouldAllow(t, S, by)

-----------------------------------------------------------------------------
(* reorder_rule: the position right before or right after the target. *)

Siblings(t, id) ==
    {i \in DOMAIN t \ {id} : \E c \in Chains : InChain(t, i, c) /\ InChain(t, id, c)}

\* A mutation: on the target's position, left to the tie-break.
MutOnTarget(t, id, target, place) == t[target].pos

ReorderPosition(t, id, target, place) ==
    LET below == {i \in Siblings(t, id) : Before(t, i, target)}
        above == {i \in Siblings(t, id) : Before(t, target, i)}
        pos   == t[target].pos
    IN  CASE place = "before" /\ below = {} -> pos - Unit
          [] place = "before" /\ below # {} ->
                (Max({t[i].pos : i \in below}) + pos) \div 2
          [] place = "after" /\ above = {} -> pos + Unit
          [] place = "after" /\ above # {} ->
                (pos + Min({t[i].pos : i \in above})) \div 2

(* _positions_for_new_specs: slots[k] is the position of an already        *)
(* tracked rule, or None; every other slot of the live chain is given one  *)
(* strictly between its nearest tracked neighbours.                        *)
MutNoPosition(slots, k) == slots[k]   \* a mutation: new slots left empty

NewPosition(slots, k) ==
    LET tracked == {j \in DOMAIN slots : slots[j] # None}
        lefts   == {j \in tracked : j < k}
        rights  == {j \in tracked : j > k}
        l       == IF lefts = {} THEN 0 ELSE Max(lefts)
        r       == IF rights = {} THEN Len(slots) + 1 ELSE Min(rights)
    IN  CASE lefts = {} /\ rights = {} -> (k - 1) * Unit
          [] lefts = {} /\ rights # {} -> slots[r] - (r - k) * Unit
          [] lefts # {} /\ rights = {} -> slots[l] + (k - l) * Unit
          [] OTHER -> slots[l] + ((slots[r] - slots[l]) \div (r - l)) * (k - l)

\* What a live rule of a chain is recorded as; None for REJECT, LOG, ...
AdoptedAs(chain, shape) ==
    IF shape.kind = "other" THEN None
    ELSE [shape EXCEPT !.hits = shape.parsed, !.kind =
            CASE chain = "FORWARD"    -> "forward"
              [] chain = "INPUT"      -> "input"
              [] chain = "PREROUTING" -> "portforward"
              [] OTHER                -> shape.kind]
=============================================================================
