----------------------------- MODULE HubGateway -----------------------------
(***************************************************************************)
(* Calls from the web application to the agent on the VPN server, and the  *)
(* agent's connections that carry them: app/hub_client.py (one Unix socket *)
(* per call), hub_gateway.py (handle_flask, handle_agent, the registry     *)
(* live_agents and the futures in `pending`) and agent.py.  Beside the     *)
(* calls the agent pushes who is connected to the VPN; the gateway writes  *)
(* it to the session columns of client_status_cache, clears them when the  *)
(* agent is lost, and a timer (deploy/ingest_clients.py) refreshes them.   *)
(*                                                                         *)
(* One server id, DEFAULT_SERVER_ID, and one agent for it.  A connection   *)
(* is its number; a request id is the call itself.  `vpn` stands for the   *)
(* set of live sessions, by the number of changes it has seen.  Coroutines *)
(* of the gateway are cut at each await.                                   *)
(***************************************************************************)
EXTENDS Naturals, Sequences, FiniteSets

CONSTANTS Calls,     \* the calls, each made at most once
          None,      \* no call; no session reported
          Scenarios, \* how a behaviour may start: [calls |-> the calls to make, vpn |-> sessions,
                     \*  timer |-> is the refresh timer installed, token |-> is the token good]
          MaxConns,  \* bound: connections the agent opens
          MaxVpn,    \* bound: changes of the VPN's sessions
          MaxFaults  \* bounds: [drops, late, crashes, errors |-> how many]

ASSUME NoneAssumption == None \notin Calls /\ None \notin Nat
ASSUME BoundsAssumption ==
    /\ {MaxConns, MaxVpn} \subseteq Nat
    /\ Scenarios \subseteq [calls : SUBSET Calls, vpn : 0..MaxVpn, timer : BOOLEAN, token : BOOLEAN]
    /\ MaxFaults \in [drops : Nat, late : Nat, crashes : Nat, errors : Nat]

VARIABLES caller,   \* caller[k]: where hub_client.call is
          route,    \* route[k]: where handle_flask is with it
          pending,  \* the futures in `pending`
          ran,      \* ran[k]: how often the agent ran it
          agent,    \* the agent's main task
          job,      \* the call its _dispatch is running
          told,     \* `previous` of its status task: the sessions last pushed
          token,    \* whether its token is good
          conn,     \* the number of its last connection
          links,    \* the connections whose transport works
          toAgent,  \* messages on the last connection to the agent
          toHub,    \* toHub[c]: messages of connection c not read by the hub
          hub,      \* hub[c]: where handle_agent is for connection c
          live,     \* live_agents: the registered connection, 0 for none
          vpn,      \* the sessions OpenVPN has
          shown,    \* the sessions the table shows
          refresh,  \* the timer's refresh: what it read, what it must not undo
          faults    \* what the bounds on faults have been charged

callVars  == <<caller, route, pending>>
agentVars == <<ran, agent, job, told, token>>
linkVars  == <<conn, links, toAgent, toHub>>
tableVars == <<shown, refresh>>
vars == <<callVars, agentVars, linkVars, hub, live, vpn, tableVars, faults>>

Conns == 1..MaxConns

Reported == 0..MaxVpn \cup {None}

\* What the agent sends after its hello.
FromAgent == [kind : {"response"}, call : Calls] \cup [kind : {"snapshot"}, sessions : 0..MaxVpn]

\* What the hub sends; only the first message is read as an answer to hello.
FromHub == [kind : {"ack", "reject"}, call : {None}] \cup [kind : {"call"}, call : Calls]

-----------------------------------------------------------------------------
(* Mutations, each in place of the definition it is named for when a       *)
(* property is tested against it.  No specification uses them.             *)

MutOldest(k)  == IF pending = {} THEN {} ELSE {CHOOSE j \in pending : TRUE}  \* Matches
MutAnyway(c)  == TRUE            \* IsRegistered: the end of any connection
MutKeeps(k)   == pending         \* WithoutFuture: left in the dictionary
MutNever(k)   == FALSE           \* WaitsTooLong: no time-out
MutTableWins  == shown           \* Merged: whatever the clock says
MutKeepsJob(c) == toAgent        \* Taken: left in the inbox

-----------------------------------------------------------------------------
Charge(kind) ==
    /\ faults[kind] < MaxFaults[kind]
    /\ faults' = [faults EXCEPT ![kind] = @ + 1]

Init == \E s \in Scenarios :
    /\ caller = [k \in Calls |-> IF k \in s.calls THEN "idle" ELSE "never"]
    /\ route = [k \in Calls |-> "none"]
    /\ pending = {} /\ ran = [k \in Calls |-> 0]
    /\ agent = "down" /\ job = None /\ told = None /\ token = s.token
    /\ conn = 0 /\ links = {} /\ toAgent = <<>> /\ toHub = [c \in Conns |-> <<>>]
    /\ hub = [c \in Conns |-> [phase |-> "unused", sessions |-> None]]
    /\ live = 0 /\ vpn = s.vpn /\ shown = None
    /\ refresh = [phase |-> IF s.timer THEN "idle" ELSE "off", read |-> None, newer |-> FALSE]
    /\ faults = [drops |-> 0, late |-> 0, crashes |-> 0, errors |-> 0]

\* Connections have to be left for the agent: one after this, and one more
\* when its token is still to be refused.
Spare == conn + (IF token THEN 0 ELSE 1) < MaxConns

\* What hub_client.call returns, {"ok": True} or {"ok": False}, or raises,
\* unless it has stopped waiting.
Return(k, what) == [caller EXCEPT ![k] = IF @ = "wait" THEN what ELSE @]

-----------------------------------------------------------------------------
(* hub_client.call and handle_flask: one coroutine for each call.          *)

Call(k) ==
    /\ caller[k] = "idle"
    /\ caller' = [caller EXCEPT ![k] = "wait"]
    /\ route' = [route EXCEPT ![k] = "new"]
    /\ UNCHANGED <<pending, agentVars, linkVars, hub, live, vpn, tableVars, faults>>

\* The caller's socket times out; handle_flask does not notice.
StopWaiting(k) ==
    /\ caller[k] = "wait"
    /\ caller' = Return(k, "error")
    /\ UNCHANGED <<route, pending, agentVars, linkVars, hub, live, vpn, tableVars, faults>>

WithoutFuture(k) == pending \ {k}

\* The gateway's own {"ok": False, ...}: to the caller it looks like the
\* agent's, and is no HubClientError.
Refuse(k) ==
    /\ route' = [route EXCEPT ![k] = "done"]
    /\ caller' = Return(k, "notok")
    /\ pending' = WithoutFuture(k)

\* The send raises on a connection known to be closed; on one that is dead
\* and not known to be, the message is lost.
Forward(k) ==
    /\ route[k] = "new"
    /\ \/ /\ live = 0
          /\ Refuse(k) /\ UNCHANGED toAgent
       \/ /\ live # 0 /\ live \notin links
          /\ Refuse(k) /\ UNCHANGED toAgent
       \/ /\ live # 0
          /\ live \notin links => hub[live].phase # "closed"
          /\ hub[live].phase = "greet" => Spare
          /\ pending' = pending \cup {k}
          /\ route' = [route EXCEPT ![k] = "sent"]
          /\ toAgent' = IF live \in links THEN Append(toAgent, [kind |-> "call", call |-> k])
                                         ELSE toAgent
          /\ UNCHANGED caller
    /\ UNCHANGED <<agentVars, conn, links, toHub, hub, live, vpn, tableVars, faults>>

WaitsTooLong(k) == route[k] = "sent"

GatewayTimeout(k) ==
    /\ WaitsTooLong(k)
    /\ Refuse(k)
    /\ UNCHANGED <<agentVars, linkVars, hub, live, vpn, tableVars, faults>>

\* The agent's response, handed on; it is not ok when the command failed.
Respond(k) ==
    /\ route[k] = "result"
    /\ route' = [route EXCEPT ![k] = "done"]
    /\ \E what \in {"ok", "notok"} : caller' = Return(k, what)
    /\ UNCHANGED <<pending, agentVars, linkVars, hub, live, vpn, tableVars, faults>>

-----------------------------------------------------------------------------
(* The agent: its main task, and the task that watches the VPN.            *)

Dial ==
    /\ agent = "down" /\ conn < MaxConns
    /\ agent' = "hello" /\ told' = None
    /\ conn' = conn + 1 /\ links' = links \cup {conn + 1}
    /\ toAgent' = <<>>
    /\ hub' = [hub EXCEPT ![conn + 1].phase = "verify"]
    /\ UNCHANGED <<callVars, ran, job, token, toHub, live, vpn, tableVars, faults>>

\* Whatever comes first is the answer to hello; unless it is a positive
\* acknowledgement the process exits.
ReadHelloAnswer ==
    /\ agent = "hello" /\ toAgent # <<>>
    /\ \/ /\ Head(toAgent).kind = "ack"
          /\ agent' = "open" /\ toAgent' = Tail(toAgent)
          /\ UNCHANGED links
       \/ /\ Head(toAgent).kind # "ack"
          /\ agent' = "exited" /\ toAgent' = <<>>
          /\ links' = links \ {conn}
    /\ UNCHANGED <<callVars, ran, job, told, token, conn, toHub, hub, live, vpn, tableVars, faults>>

\* systemd starts it again, with the right token by then.
RestartAgent ==
    /\ agent = "exited"
    /\ agent' = "down" /\ token' = TRUE
    /\ UNCHANGED <<callVars, ran, job, told, linkVars, hub, live, vpn, tableVars, faults>>

Taken(c) == Tail(toAgent)

\* One request after the other, in the read loop.
Dispatch ==
    /\ agent = "open" /\ job = None /\ toAgent # <<>>
    /\ LET k == Head(toAgent).call
       IN  /\ job' = k
           /\ ran' = [ran EXCEPT ![k] = @ + 1]
    /\ toAgent' = Taken(conn)
    /\ UNCHANGED <<callVars, agent, told, token, conn, links, toHub, hub, live, vpn, tableVars, faults>>

\* On a dead connection the send raises and the main task starts over.
Reply ==
    /\ job # None
    /\ job' = None
    /\ IF conn \in links
       THEN /\ toHub' = [toHub EXCEPT ![conn] = Append(@, [kind |-> "response", call |-> job])]
            /\ UNCHANGED agent
       ELSE /\ agent' = "down"
            /\ UNCHANGED toHub
    /\ UNCHANGED <<callVars, ran, told, token, conn, links, toAgent, hub, live, vpn, tableVars, faults>>

\* Only changes are pushed; the first look at a connection is a change.
PushSessions ==
    /\ agent = "open" /\ conn \in links /\ told # vpn
    /\ toHub' = [toHub EXCEPT ![conn] = Append(@, [kind |-> "snapshot", sessions |-> vpn])]
    /\ told' = vpn
    /\ UNCHANGED <<callVars, ran, agent, job, token, conn, links, toAgent, hub, live, vpn, tableVars,
                   faults>>

NoticeLoss ==
    /\ agent \in {"hello", "open"} /\ job = None /\ conn \notin links
    /\ agent' = "down"
    /\ UNCHANGED <<callVars, ran, job, told, token, linkVars, hub, live, vpn, tableVars, faults>>

-----------------------------------------------------------------------------
(* handle_agent: one coroutine for each connection c.                      *)

Become(c, phase) == hub' = [hub EXCEPT ![c].phase = phase]

IsRegistered(c) == live = c

\* The library closes the socket when the coroutine is over; what is on its
\* way in either direction is lost.
Unlink(c) ==
    /\ links' = links \ {c}
    /\ toAgent' = IF c \in links THEN <<>> ELSE toAgent
    /\ toHub' = [toHub EXCEPT ![c] = <<>>]

Register(c) ==
    /\ hub[c].phase = "verify" /\ token
    /\ live' = c
    /\ Become(c, "greet")
    /\ UNCHANGED <<callVars, agentVars, linkVars, vpn, tableVars, faults>>

RejectHello(c) ==
    /\ hub[c].phase = "verify" /\ ~token
    /\ Become(c, "closed")
    /\ toAgent' = IF c \in links THEN Append(toAgent, [kind |-> "reject", call |-> None]) ELSE toAgent
    /\ UNCHANGED <<callVars, agentVars, conn, links, toHub, live, vpn, tableVars, faults>>

\* The acknowledgement, after three more reads and writes of the database.
\* An error here ends the coroutine before its try block.
Greet(c) ==
    /\ hub[c].phase = "greet"
    /\ \/ /\ c \in links
          /\ toAgent' = Append(toAgent, [kind |-> "ack", call |-> None])
          /\ Become(c, "open")
       \/ /\ c \notin links
          /\ \/ Become(c, "open") \/ Become(c, "closed")
          /\ UNCHANGED toAgent
    /\ UNCHANGED <<callVars, agentVars, conn, links, toHub, live, vpn, tableVars, faults>>

GreetFails(c) ==
    /\ hub[c].phase = "greet" /\ Spare /\ Charge("errors")
    /\ Become(c, "closed") /\ Unlink(c)
    /\ UNCHANGED <<callVars, agentVars, conn, live, vpn, tableVars>>

Matches(k) == {k} \cap pending

ReadResponse(c) ==
    /\ hub[c].phase = "open" /\ toHub[c] # <<>> /\ Head(toHub[c]).kind = "response"
    /\ LET found == Matches(Head(toHub[c]).call)
       IN  /\ pending' = pending \ found
           /\ route' = [k \in Calls |-> IF k \in found THEN "result" ELSE route[k]]
    /\ toHub' = [toHub EXCEPT ![c] = Tail(@)]
    /\ UNCHANGED <<caller, agentVars, conn, links, toAgent, hub, live, vpn, tableVars, faults>>

ReadSnapshot(c) ==
    /\ hub[c].phase = "open" /\ toHub[c] # <<>> /\ Head(toHub[c]).kind = "snapshot"
    /\ hub' = [hub EXCEPT ![c] = [phase |-> "store", sessions |-> Head(toHub[c]).sessions]]
    /\ toHub' = [toHub EXCEPT ![c] = Tail(@)]
    /\ UNCHANGED <<callVars, agentVars, conn, links, toAgent, live, vpn, tableVars, faults>>

\* apply_client_connection_snapshot: newer than a refresh in flight.
Show(sessions) ==
    /\ shown' = sessions
    /\ refresh' = [refresh EXCEPT !.newer = TRUE]

StoreSnapshot(c) ==
    /\ hub[c].phase = "store"
    /\ Show(hub[c].sessions)
    /\ hub' = [hub EXCEPT ![c] = [phase |-> "open", sessions |-> None]]
    /\ UNCHANGED <<callVars, agentVars, linkVars, live, vpn, faults>>

\* A database error under the snapshot is caught by nobody: the read loop is
\* left through its finally block, and a registered connection is closed only
\* when the clearing is over.
StoreFails(c) ==
    /\ hub[c].phase = "store" /\ Spare /\ Charge("errors")
    /\ \/ /\ IsRegistered(c)
          /\ live' = 0 /\ Become(c, "clear") /\ UNCHANGED <<links, toAgent, toHub>>
       \/ /\ ~IsRegistered(c)
          /\ Become(c, "closed") /\ Unlink(c) /\ UNCHANGED live
    /\ UNCHANGED <<callVars, agentVars, conn, vpn, tableVars>>

\* The read loop ends once everything received is read; _mark_agent_disconnected.
Lost(c) ==
    /\ hub[c].phase = "open" /\ c \notin links /\ toHub[c] = <<>>
    /\ IF IsRegistered(c)
       THEN live' = 0 /\ Become(c, "clear")
       ELSE Become(c, "closed") /\ UNCHANGED live
    /\ UNCHANGED <<callVars, agentVars, linkVars, vpn, tableVars, faults>>

\* The clearing is awaited; an error there is only logged.
Clear(c) ==
    /\ hub[c].phase = "clear"
    /\ \/ Show(None) /\ UNCHANGED faults
       \/ Charge("errors") /\ UNCHANGED tableVars
    /\ Become(c, "closed") /\ Unlink(c)
    /\ UNCHANGED <<callVars, agentVars, conn, live, vpn>>

-----------------------------------------------------------------------------
(* The timer's refresh, one at a time: the database's clock, the sessions  *)
(* as the agent sees them, the write.                                      *)

StartRefresh ==
    /\ refresh.phase = "idle"
    /\ refresh' = [phase |-> "read", read |-> None, newer |-> FALSE]
    /\ UNCHANGED <<callVars, agentVars, linkVars, hub, live, vpn, shown, faults>>

Reachable == live \in links /\ agent = "open" /\ hub[live].phase \in {"open", "store"}

\* Without an agent pivpn's list fails and nothing is written.  If only the
\* status calls fail, nobody seems to be connected.
ReadStatus ==
    /\ refresh.phase = "read"
    /\ \/ /\ Reachable
          /\ refresh' = [refresh EXCEPT !.phase = "write", !.read = vpn]
          /\ UNCHANGED faults
       \/ /\ Reachable /\ Charge("errors")
          /\ refresh' = [refresh EXCEPT !.phase = "write"]
       \/ /\ ~Reachable
          /\ refresh' = [refresh EXCEPT !.phase = "idle"]
          /\ UNCHANGED faults
    /\ UNCHANGED <<callVars, agentVars, linkVars, hub, live, vpn, shown>>

\* replace_client_status_cache: session columns written after the refresh
\* read the clock stay.
Merged == IF refresh.newer THEN shown ELSE refresh.read

WriteStatus ==
    /\ refresh.phase = "write"
    /\ shown' = Merged
    /\ refresh' = [refresh EXCEPT !.phase = "idle"]
    /\ UNCHANGED <<callVars, agentVars, linkVars, hub, live, vpn, faults>>

-----------------------------------------------------------------------------
(* What happens to them. *)

ChangeSessions ==
    /\ vpn < MaxVpn
    /\ vpn' = vpn + 1
    /\ UNCHANGED <<callVars, agentVars, linkVars, hub, live, tableVars, faults>>

\* The connection or the agent dies; the hub has received some of what was
\* on its way.  "late": while the hello is still being verified.
Drop ==
    /\ conn \in links /\ Spare
    /\ Charge(IF hub[conn].phase = "verify" THEN "late" ELSE "drops")
    /\ links' = links \ {conn}
    /\ toAgent' = <<>>
    /\ \E n \in 0..Len(toHub[conn]) : toHub' = [toHub EXCEPT ![conn] = SubSeq(@, 1, n)]
    /\ \/ agent' = "down" /\ job' = None
       \/ UNCHANGED <<agent, job>>
    /\ UNCHANGED <<callVars, ran, told, token, conn, hub, live, vpn, tableVars>>

\* The gateway is killed and started again: every coroutine and the two
\* dictionaries are gone, every socket is closed.
Crash ==
    /\ Spare /\ Charge("crashes")
    /\ links' = {} /\ toAgent' = <<>> /\ toHub' = [c \in Conns |-> <<>>]
    /\ hub' = [c \in Conns |-> [phase |-> IF c <= conn THEN "closed" ELSE "unused",
                               sessions |-> None]]
    /\ live' = 0 /\ pending' = {}
    /\ route' = [k \in Calls |-> IF route[k] = "none" THEN "none" ELSE "done"]
    /\ caller' = [k \in Calls |-> IF caller[k] = "wait" THEN "error" ELSE caller[k]]
    /\ UNCHANGED <<agentVars, conn, vpn, tableVars>>

-----------------------------------------------------------------------------
FlaskStep(k) == Forward(k) \/ GatewayTimeout(k) \/ Respond(k)

AgentStep ==
    Dial \/ ReadHelloAnswer \/ RestartAgent \/ Dispatch \/ Reply \/ NoticeLoss

HubStep(c) ==
    \/ Register(c) \/ RejectHello(c) \/ Greet(c) \/ GreetFails(c)
    \/ ReadResponse(c) \/ ReadSnapshot(c) \/ StoreSnapshot(c) \/ StoreFails(c)
    \/ Lost(c) \/ Clear(c)

Timer == StartRefresh \/ ReadStatus \/ WriteStatus

Next ==
    \/ \E k \in Calls : Call(k) \/ StopWaiting(k) \/ FlaskStep(k)
    \/ AgentStep \/ PushSessions
    \/ \E c \in Conns : HubStep(c)
    \/ Timer \/ ChangeSessions \/ Drop \/ Crash

Spec == Init /\ [][Next]_vars

\* The event loops of the gateway and of the agent keep running, and the
\* timer keeps firing.
FairSpec ==
    /\ Spec
    /\ \A k \in Calls : WF_vars(FlaskStep(k)) /\ WF_vars(StopWaiting(k))
    /\ WF_vars(AgentStep) /\ WF_vars(PushSessions)
    /\ \A c \in Conns : WF_vars(HubStep(c))
    /\ WF_vars(Timer)

-----------------------------------------------------------------------------
(* Properties. *)

\* The type invariant; the agent takes a request out of its inbox once.
TypeOK ==
    /\ caller \in [Calls -> {"never", "idle", "wait", "ok", "notok", "error"}]
    /\ route \in [Calls -> {"none", "new", "sent", "result", "done"}]
    /\ pending \subseteq Calls /\ ran \in [Calls -> {0, 1}]
    /\ agent \in {"down", "hello", "open", "exited"} /\ job \in Calls \cup {None}
    /\ told \in Reported /\ token \in BOOLEAN
    /\ conn \in 0..MaxConns /\ links \subseteq Conns
    /\ toAgent \in Seq(FromHub) /\ toHub \in [Conns -> Seq(FromAgent)]
    /\ hub \in [Conns -> [phase : {"unused", "verify", "greet", "open", "store", "clear", "closed"},
                         sessions : Reported]]
    /\ live \in 0..MaxConns /\ vpn \in 0..MaxVpn /\ shown \in Reported
    /\ refresh \in [phase : {"off", "idle", "read", "write"}, read : Reported, newer : BOOLEAN]
    /\ faults \in [drops : Nat, late : Nat, crashes : Nat, errors : Nat]

Outcome(k) == IF caller[k] \in {"ok", "notok", "error"} THEN caller[k] ELSE "none"

\* Calls, their time-outs, lost connections and restarts implement what a
\* caller of hub_client.call may rely on: a call whose response is ok was run
\* by the agent, and no call is run twice or told two things.
Promise == INSTANCE RemoteCall WITH outcome <- [k \in Calls |-> Outcome(k)]

ImplementsCall == Promise!Spec

\* hub_client.call: an {"ok": False} response, unlike a HubClientError, "means
\* the agent *did* run the command and it failed".
NotOkMeansRan == \A k \in Calls : caller[k] = "notok" => ran[k] = 1

\* The dictionary of futures holds exactly the calls that are waited for,
\* whichever of response, time-out, closed connection and restart ends them.
NoFutureLeaks == pending = {k \in Calls : route[k] = "sent"}

\* The newest connection, once served, is the one calls are sent to: nothing
\* an older connection of the same server does later takes its place.
NewestIsRegistered ==
    \A c \in Conns : c = conn /\ c \in links /\ hub[c].phase \in {"greet", "open", "store"}
        => live = c

\* Every call returns, and the gateway forgets it, however agents and
\* connections come and go.
EveryCallEnds ==
    \A k \in Calls : caller[k] = "wait" \/ route[k] = "sent"
        ~> caller[k] # "wait" /\ route[k] # "sent"

\* When the sessions stop changing, the table shows them in the end, and from
\* then on: neither a late clearing nor a slow refresh has the last word.
SessionsSettle == refresh.phase # "off" => <>[](shown = vpn)

\* agent.py: SystemExit is the "fatal auth rejection", and "one bad/unexpected
\* request must never kill the agent loop": an agent whose token is good
\* never exits.
OnlyRejectionStopsAgent == [][agent' = "exited" => agent = "exited" \/ ~token]_vars

\* handle_agent: "an old websocket closing after a reconnect must not clear
\* the newer connection's state".
OldNeverClears ==
    [][\A c \in Conns : hub[c].phase = "clear" /\ hub'[c].phase = "closed" /\ shown' # shown
        => live \in {0, c}]_vars
=============================================================================
