------------------------ MODULE FirewallProperties ------------------------
(***************************************************************************)
(* What the firewall of Firewall.tla must and must not do.  Each property  *)
(* names the code behaviour it is about; which requests, failures and hand *)
(* edits it survives is a matter of the constants of the run that checks   *)
(* it.                                                                     *)
(***************************************************************************)
EXTENDS Firewall

IsJob(j) ==
    /\ DOMAIN j = DOMAIN NoJob
    /\ j.req \in Requests \cup {None}
    /\ j.id \in Nat /\ j.pos \in Int
    /\ IsTable(j.snap)
    /\ j.cmds \in Seq(Command)
    /\ j.chains \in Seq(Chains) /\ j.scan \in Seq(Chains)
    /\ j.found \in Seq([entry : Entry, pos : Int])
    /\ j.touched \in SUBSET Chains

\* The type invariant: the table, the chains, the locks and every handler's
\* local variables have the shape the code gives them.
TypeOK ==
    /\ IsTable(rules) /\ nextId \in Nat \ {0}
    /\ live \in [Chains -> Seq(Entry)]
    /\ advisory \in Workers \cup {None} /\ flock \in Workers \cup {None}
    /\ pc \in [Workers -> Places]
    /\ DOMAIN job = Workers /\ \A w \in Workers : IsJob(job[w])
    /\ spent \in [requests : 0..MaxRequests, manual : 0..MaxManual,
               losses : 0..MaxLosses, crashes : 0..MaxCrashes]

-----------------------------------------------------------------------------
(* The table. *)

\* set_client_block's locked check-then-insert: however requests interleave,
\* a client never has two block rows (a second one would survive an unblock).
AtMostOneBlockRow ==
    \A c \in Clients : \A i, j \in BlockRows(rules, c) : i = j

Requesters == {r.by : r \in Requests} \ {None}

\* The self-lockout guard of add_input_rule, reorder_rule, toggle_rule,
\* disable_rule and delete_rule: changes that each passed the check never
\* combine into a table that shuts their requester out of the web UI.
AccessKept ==
    \A a \in Requesters : WouldAllow(rules, EnabledInputs(rules), a)

-----------------------------------------------------------------------------
(* The table against the live chains. *)

Owned(chain) == Selected(live[chain], {k \in DOMAIN live[chain] : live[chain][k].id # 0})

Copies(chain, e) == Cardinality({k \in DOMAIN live[chain] : live[chain][k] = e})

\* The rebuild lock: a rule is never live twice in a chain, not even while
\* rebuilds, synchronisations and discoveries overlap.
OneLiveCopy ==
    \A c \in Chains : \A e \in ToSet(Owned(c)) : Copies(c, e) = 1

\* No worker was killed, and no live rule lost by hand or by a reboot.
Undisturbed == spent.crashes = 0 /\ spent.losses = 0

\* Once no request is in flight, the tagged rules of every chain are exactly
\* the enabled rows of that chain, in (position, id) order.
SettledChains ==
    Quiet /\ Undisturbed => \A c \in Chains : Owned(c) = OrderedEntries(rules, c)

\* What an operator typed: no tag, and not the rule of a client block.
HandTyped(e) == e.id = 0 /\ ~IsBlock(e.shape)

HandTypedAt(s) == {k \in DOMAIN s : HandTyped(s[k])}

Adopted ==
    {i \in DOMAIN rules : ~IsBlock(rules[i].shape) /\ \A t \in InitTables : i \notin DOMAIN t}

Claiming == {w \in Workers : pc[w] \in {"claim", "drop"}}

\* Only the operator takes a hand-typed rule away: discovery turns it into a
\* row or leaves it live, and a rebuild never touches it.  A row and its
\* original coexist only between the insert and the delete of one adoption,
\* unless the worker is killed there.
ManualRulesConserved ==
    LET typed == UNION {{c} \X HandTypedAt(live[c]) : c \in Chains}
        kept  == Cardinality(typed) + Cardinality(Adopted)
        due   == spent.manual + Cardinality(Claiming)
    IN  due <= kept /\ kept <= due + spent.crashes

\* A requester's web UI stays reachable through the live INPUT chain whenever
\* no request is in flight: the guard's verdict on the table holds there too.
LiveAccessKept ==
    Quiet /\ Undisturbed => \A a \in Requesters : LiveAllows(live["INPUT"], a)

BlockLive(c) ==
    \E ch \in {"FORWARD", "INPUT"}, k \in 1..Len(live["FORWARD"]) + Len(live["INPUT"]) :
        /\ k \in DOMAIN live[ch]
        /\ IsBlock(live[ch][k].shape) /\ live[ch][k].shape.client = c

\* set_client_block's order of removal: a client without a block row is not
\* blocked by anything live, so a reported unblock is never a false one.
UnblockedIsClear ==
    \A c \in Clients : Quiet /\ BlockRows(rules, c) = {} => ~BlockLive(c)

-----------------------------------------------------------------------------
(* Steps. *)

SyncEnds(w) == pc[w] # "idle" /\ job[w].req.op = "sync" /\ pc'[w] = "idle"
                 /\ UNCHANGED spent

\* sync_all after crashes, flushes and reboots, nothing else running: every
\* chain an enabled rule needs holds those rules in order and no leftover,
\* and every enabled block has both halves live.
SyncReconciles ==
    [][\A w \in Workers : SyncEnds(w) =>
          /\ \A c \in Chains :
                OrderedEntries(rules, c) # <<>> => Owned(c)' = OrderedEntries(rules, c)
          /\ \A i \in Enabled(rules) : IsBlock(rules[i].shape) =>
                \A ch \in {"FORWARD", "INPUT"} :
                    LiveEntry(i, rules[i].shape) \in ToSet(live'[ch])]_vars

\* discover_cli_rules adopts a tagged rule only if it has no row, now and not
\* just in the snapshot it compares with: what another discovery adopts and
\* rebuilds in between is not taken for one more hand-typed rule.
AdoptsOnlyUntracked ==
    [][\A w \in Workers :
          Adopt(w) => Head(job[w].found).entry.id \notin DOMAIN rules]_vars

\* reorder_rule: the moved rule ends up right next to its target, on the side
\* asked for, among the rules it shares a chain with.
ReorderLandsNextToTarget ==
    [][\A w \in Workers :
          LET r == job[w].req
          IN  (Reorder(w) /\ rules' # rules) =>
                LET lo == IF r.place = "before" THEN r.id ELSE r.target
                    hi == IF r.place = "before" THEN r.target ELSE r.id
                IN  /\ Before(rules', lo, hi)
                    /\ \A i \in Siblings(rules', r.id) :
                          ~(Before(rules', lo, i) /\ Before(rules', i, hi))]_vars

-----------------------------------------------------------------------------
\* Nobody waits for ever: the two locks are never held in opposite orders,
\* and discovery does not wait for the lock it holds, so every request ends.
EveryRequestEnds == \A w \in Workers : pc[w] # "idle" ~> pc[w] = "idle"
=============================================================================
