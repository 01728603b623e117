-------------------------- MODULE HubGatewayProofs --------------------------
(***************************************************************************)
(* Theorems about HubGateway.tla for any number of calls, connections and  *)
(* faults.  That a call whose response is ok was run, and once, rests on   *)
(* where a call can be: its request is in the agent's inbox at most once   *)
(* and only before the agent runs it, a response exists only after that,   *)
(* and the read loop sees nothing but requests because the one message     *)
(* that is not one, the answer to hello, is taken out before it starts.    *)
(***************************************************************************)
EXTENDS HubGateway, SequenceTheorems, TLAPS

Callers  == {"never", "idle", "wait", "ok", "notok", "error"}
Routes   == {"none", "new", "sent", "result", "done"}
Agents   == {"down", "hello", "open", "exited"}
Phases   == {"unused", "verify", "greet", "open", "store", "clear", "closed"}
Handler  == [phase : Phases, sessions : Reported]
Unserved == {"unused", "verify"}

\* A response to a call tells that the agent ran it.
GoodReport == {m \in FromAgent : m.kind = "response" => ran[m.call] = 1}

CallsOK ==
    /\ caller \in [Calls -> Callers] /\ route \in [Calls -> Routes]
    /\ ran \in [Calls -> {0, 1}] /\ job \in Calls \cup {None}
    /\ NoFutureLeaks
    /\ \A k \in Calls : /\ caller[k] = "idle" => route[k] = "none"
                        /\ route[k] \in {"none", "new"} => ran[k] = 0
                        /\ route[k] = "result" => ran[k] = 1
                        /\ caller[k] = "ok" => ran[k] = 1
    /\ job # None => ran[job] = 1

LinksOK ==
    /\ agent \in Agents /\ conn \in 0..MaxConns
    /\ links \subseteq Conns \cap {conn}
    /\ agent \in {"down", "exited"} => links = {}

HubOK ==
    /\ hub \in [Conns -> Handler]
    /\ \A c \in Conns : hub[c].phase # "unused" => c <= conn
    /\ live \in 0..conn
    /\ live # 0 => hub[live].phase \notin Unserved

\* Messages to the agent: no call twice, at most one that is not a call, no
\* call that was run or is still to be sent.
Distinct(s) == \A i, j \in 1..Len(s) : s[i].call = s[j].call => i = j
OnlyCalls(s) == \A i \in 1..Len(s) : s[i].kind = "call"
Fresh(s, runs, at) ==
    \A i \in 1..Len(s) : s[i].kind = "call" => /\ runs[s[i].call] = 0
                                               /\ at[s[i].call] \notin {"none", "new"}

\* The answer to hello has been sent on the working connection.
Answered == conn \in links /\ hub[conn].phase \notin {"unused", "verify", "greet"}

InboxOK ==
    /\ toAgent \in Seq(FromHub)
    /\ Distinct(toAgent) /\ Fresh(toAgent, ran, route)
    /\ toAgent # <<>> => conn \in links /\ hub[conn].phase \notin Unserved
    /\ agent = "open" => OnlyCalls(toAgent) /\ (conn \in links => Answered)
    /\ ~Answered => OnlyCalls(toAgent)

ReportsOK == toHub \in [Conns -> Seq(GoodReport)]

TableOK ==
    /\ told \in Reported /\ token \in BOOLEAN /\ vpn \in 0..MaxVpn /\ shown \in Reported
    /\ refresh \in [phase : {"off", "idle", "read", "write"}, read : Reported, newer : BOOLEAN]
    /\ faults \in [drops : Nat, late : Nat, crashes : Nat, errors : Nat]

Inv == CallsOK /\ LinksOK /\ HubOK /\ InboxOK /\ ReportsOK /\ TableOK

-----------------------------------------------------------------------------
(* The constants, and sequences of messages. *)

LEMMA Sizes == MaxConns \in Nat /\ MaxVpn \in Nat /\ None \notin Calls /\ None \notin Nat
    BY BoundsAssumption, NoneAssumption

LEMMA CallMessage == ASSUME NEW k \in Calls PROVE [kind |-> "call", call |-> k] \in FromHub
    BY DEF FromHub

\* An empty inbox is as the invariant wants it.
LEMMA EmptyInbox ==
    ASSUME NEW runs, NEW at
    PROVE  <<>> \in Seq(FromHub) /\ Distinct(<<>>) /\ Fresh(<<>>, runs, at) /\ OnlyCalls(<<>>)
  <1>1. Len(<<>>) = 0 /\ <<>> \in Seq(FromHub)
    BY EmptySeq
  <1> QED
    BY <1>1 DEF Distinct, Fresh, OnlyCalls

\* A message whose call is not in the inbox leaves it distinct.
LEMMA AppendDistinct ==
    ASSUME NEW s \in Seq(FromHub), Distinct(s), NEW m \in FromHub,
           \A i \in 1..Len(s) : s[i].call # m.call
    PROVE  /\ Append(s, m) \in Seq(FromHub) /\ Append(s, m) # <<>>
           /\ Distinct(Append(s, m))
  <1> DEFINE t == Append(s, m)
  <1>1. /\ t \in Seq(FromHub) /\ Len(t) = Len(s) + 1 /\ Len(s) \in Nat
        /\ \A i \in 1..Len(s) : t[i] = s[i]
        /\ t[Len(s) + 1] = m
    BY AppendProperties, LenProperties
  <1>2. Distinct(t)
    <2> SUFFICES ASSUME NEW i \in 1..Len(t), NEW j \in 1..Len(t), t[i].call = t[j].call
                 PROVE  i = j
      BY DEF Distinct
    <2> QED
      BY <1>1 DEF Distinct
  <1>3. t # <<>>
    BY <1>1, EmptySeq
  <1> QED
    BY <1>1, <1>2, <1>3

\* The rest of an inbox is distinct, and without the call of its head.
LEMMA TailDistinct ==
    ASSUME NEW s \in Seq(FromHub), s # <<>>, Distinct(s)
    PROVE  /\ Head(s) \in FromHub /\ Head(s) = s[1] /\ 1 \in 1..Len(s)
           /\ Tail(s) \in Seq(FromHub) /\ Distinct(Tail(s))
           /\ \A i \in 1..Len(Tail(s)) : /\ i + 1 \in 1..Len(s) /\ Tail(s)[i] = s[i + 1]
                                         /\ Tail(s)[i].call # Head(s).call
  <1> DEFINE t == Tail(s)
  <1>1. /\ Head(s) \in FromHub /\ t \in Seq(FromHub) /\ Len(t) = Len(s) - 1
        /\ \A i \in 1..Len(t) : t[i] = s[i + 1]
    BY HeadTailProperties
  <1>2. Len(s) \in Nat \ {0} /\ Head(s) = s[1]
    BY EmptySeq
  <1>3. \A i \in 1..Len(t) : i + 1 \in 1..Len(s) /\ i + 1 # 1
    BY <1>1, <1>2
  <1>4. Distinct(t)
    <2> SUFFICES ASSUME NEW i \in 1..Len(t), NEW j \in 1..Len(t), t[i].call = t[j].call
                 PROVE  i = j
      BY DEF Distinct
    <2>1. i + 1 = j + 1
      BY <1>1, <1>3 DEF Distinct
    <2> QED
      BY <2>1
  <1>5. \A i \in 1..Len(t) : t[i].call # Head(s).call
    BY <1>1, <1>2, <1>3 DEF Distinct
  <1> QED
    BY <1>1, <1>2, <1>3, <1>4, <1>5

-----------------------------------------------------------------------------
(* The invariant, part by part: the actions that change what a part speaks *)
(* of, then all others.                                                    *)

LEMMA InitInv == Init => Inv
  <1> SUFFICES ASSUME Init PROVE Inv
    OBVIOUS
  <1>1. PICK s \in Scenarios :
          /\ caller = [k \in Calls |-> IF k \in s.calls THEN "idle" ELSE "never"]
          /\ token = s.token /\ vpn = s.vpn
          /\ refresh = [phase |-> IF s.timer THEN "idle" ELSE "off", read |-> None, newer |-> FALSE]
    BY DEF Init
  <1>2. s.token \in BOOLEAN /\ s.vpn \in 0..MaxVpn
    BY BoundsAssumption
  <1>3. CallsOK
    BY <1>1, Sizes DEF Init, CallsOK, Callers, Routes, NoFutureLeaks
  <1>4. LinksOK
    BY Sizes DEF Init, LinksOK, Agents
  <1>5. HubOK
    BY Sizes DEF Init, HubOK, Handler, Phases, Reported
  <1>6. InboxOK
    BY EmptyInbox DEF Init, InboxOK
  <1>7. ReportsOK
    BY EmptySeq DEF Init, ReportsOK
  <1>8. TableOK
    BY <1>1, <1>2 DEF Init, TableOK, Reported
  <1> QED
    BY <1>3, <1>4, <1>5, <1>6, <1>7, <1>8 DEF Inv

\* What the head of an inbox, or of what a connection sent, stands for.
LEMMA HeadOfInbox ==
    ASSUME Inv, Dispatch
    PROVE  /\ Head(toAgent).call \in Calls
           /\ ran[Head(toAgent).call] = 0
           /\ route[Head(toAgent).call] \notin {"none", "new"}
  <1>1. toAgent \in Seq(FromHub) /\ toAgent # <<>> /\ Distinct(toAgent)
          /\ OnlyCalls(toAgent) /\ Fresh(toAgent, ran, route)
    BY DEF Inv, InboxOK, Dispatch
  <1>2. Head(toAgent) \in FromHub /\ Head(toAgent) = toAgent[1] /\ 1 \in 1..Len(toAgent)
    BY <1>1, TailDistinct
  <1>3. Head(toAgent).kind = "call"
    BY <1>1, <1>2 DEF OnlyCalls
  <1>4. Head(toAgent).call \in Calls
    BY <1>2, <1>3 DEF FromHub
  <1> QED
    BY <1>1, <1>2, <1>3, <1>4 DEF Fresh

LEMMA HeadOfReports ==
    ASSUME Inv, NEW c \in Conns, toHub[c] # <<>>
    PROVE  /\ Head(toHub[c]) \in GoodReport
           /\ Tail(toHub[c]) \in Seq(GoodReport)
           /\ Head(toHub[c]).kind = "response" =>
                Head(toHub[c]).call \in Calls /\ ran[Head(toHub[c]).call] = 1
           /\ Head(toHub[c]).kind = "snapshot" => Head(toHub[c]).sessions \in Reported
  <1>1. toHub[c] \in Seq(GoodReport)
    BY DEF Inv, ReportsOK
  <1>2. Head(toHub[c]) \in GoodReport /\ Tail(toHub[c]) \in Seq(GoodReport)
    BY <1>1, HeadTailProperties
  <1> QED
    BY <1>2 DEF GoodReport, FromAgent, Reported

LEMMA CallsStep == Inv /\ [Next]_vars => CallsOK'
  <1> SUFFICES ASSUME Inv, [Next]_vars PROVE CallsOK'
    OBVIOUS
  <1> USE DEF CallsOK, Callers, Routes, NoFutureLeaks
  <1>1. CallsOK
    BY DEF Inv
  <1>2. ASSUME NEW k \in Calls, Call(k) PROVE CallsOK'
    BY <1>1, <1>2 DEF Call, agentVars
  <1>3. ASSUME NEW k \in Calls, StopWaiting(k) PROVE CallsOK'
    BY <1>1, <1>3 DEF StopWaiting, Return, agentVars
  <1>4. ASSUME NEW k \in Calls, Refuse(k), UNCHANGED <<ran, job>>, route[k] \in {"new", "sent"}
        PROVE  CallsOK'
    BY <1>1, <1>4 DEF Refuse, WithoutFuture, Return
  <1>5. ASSUME NEW k \in Calls, Forward(k) PROVE CallsOK'
    <2>1. CASE Refuse(k)
      BY <1>4, <1>5, <2>1 DEF Forward, agentVars
    <2>2. CASE pending' = pending \cup {k} /\ route' = [route EXCEPT ![k] = "sent"] /\ caller' = caller
      BY <1>1, <1>5, <2>2 DEF Forward, agentVars
    <2> QED
      BY <1>5, <2>1, <2>2 DEF Forward
  <1>6. ASSUME NEW k \in Calls, GatewayTimeout(k) PROVE CallsOK'
    BY <1>4, <1>6 DEF GatewayTimeout, WaitsTooLong, agentVars
  <1>7. ASSUME NEW k \in Calls, Respond(k) PROVE CallsOK'
    BY <1>1, <1>7 DEF Respond, Return, agentVars
  <1>8. CASE Dispatch
    <2>1. PICK k \in Calls : /\ job' = k /\ ran' = [ran EXCEPT ![k] = ran[k] + 1]
                             /\ ran[k] = 0 /\ route[k] \notin {"none", "new"}
      BY <1>8, HeadOfInbox DEF Dispatch
    <2> QED
      BY <1>1, <1>8, <2>1 DEF Dispatch, callVars
  <1>9. CASE Reply
    BY <1>1, <1>9 DEF Reply, callVars
  <1>10. ASSUME NEW c \in Conns, ReadResponse(c) PROVE CallsOK'
    <2> DEFINE k == Head(toHub[c]).call
    <2>1. k \in Calls /\ ran[k] = 1
      BY <1>10, HeadOfReports DEF ReadResponse
    <2>2. /\ pending' = pending \ ({k} \cap pending)
          /\ route' = [i \in Calls |-> IF i \in {k} \cap pending THEN "result" ELSE route[i]]
      BY <1>10 DEF ReadResponse, Matches
    <2> HIDE DEF k
    <2> QED
      BY <1>1, <1>10, <2>1, <2>2 DEF ReadResponse, agentVars
  <1>11. CASE Drop
    BY <1>1, <1>11 DEF Drop, callVars
  <1>12. CASE Crash
    BY <1>1, <1>12 DEF Crash, agentVars
  <1>13. CASE UNCHANGED <<callVars, ran, job>>
    BY <1>1, <1>13 DEF callVars
  <1>14. CASE Dial \/ ReadHelloAnswer \/ RestartAgent \/ NoticeLoss \/ PushSessions \/ Timer
                \/ ChangeSessions
    BY <1>13, <1>14 DEF Dial, ReadHelloAnswer, RestartAgent, NoticeLoss, PushSessions, Timer,
       StartRefresh, ReadStatus, WriteStatus, ChangeSessions, agentVars
  <1>15. ASSUME NEW c \in Conns, HubStep(c) PROVE CallsOK'
    BY <1>10, <1>13, <1>15 DEF HubStep, Register, RejectHello, Greet, GreetFails, ReadSnapshot,
       StoreSnapshot, StoreFails, Lost, Clear, agentVars
  <1>16. CASE UNCHANGED vars
    BY <1>13, <1>16 DEF vars, agentVars
  <1> QED
    BY <1>2, <1>3, <1>5, <1>6, <1>7, <1>8, <1>9, <1>11, <1>12, <1>14, <1>15, <1>16
    DEF Next, FlaskStep, AgentStep

LEMMA LinksStep == Inv /\ [Next]_vars => LinksOK'
  <1> SUFFICES ASSUME Inv, [Next]_vars PROVE LinksOK'
    OBVIOUS
  <1> USE DEF LinksOK, Agents, Conns
  <1>1. LinksOK /\ MaxConns \in Nat
    BY Sizes DEF Inv
  <1>2. CASE Dial
    BY <1>1, <1>2 DEF Dial
  <1>3. CASE ReadHelloAnswer \/ RestartAgent \/ Dispatch \/ Reply \/ NoticeLoss
    BY <1>1, <1>3 DEF ReadHelloAnswer, RestartAgent, Dispatch, Reply, NoticeLoss, linkVars
  <1>4. CASE Drop
    BY <1>1, <1>4 DEF Drop
  <1>5. CASE Crash
    BY <1>1, <1>5 DEF Crash, agentVars
  <1>6. ASSUME NEW c \in Conns, GreetFails(c) \/ StoreFails(c) \/ Clear(c) PROVE LinksOK'
    <2>1. links' \subseteq links /\ UNCHANGED <<agent, conn>>
      BY <1>6 DEF GreetFails, StoreFails, Clear, Unlink, agentVars
    <2> QED
      BY <1>1, <2>1
  <1>7. CASE UNCHANGED <<agent, conn, links>>
    BY <1>1, <1>7
  <1>8. CASE PushSessions \/ Timer \/ ChangeSessions
    BY <1>7, <1>8 DEF PushSessions, Timer, StartRefresh, ReadStatus, WriteStatus, ChangeSessions,
       agentVars, linkVars
  <1>9. ASSUME NEW c \in Conns, HubStep(c) PROVE LinksOK'
    BY <1>6, <1>7, <1>9 DEF HubStep, Register, RejectHello, Greet, ReadResponse, ReadSnapshot,
       StoreSnapshot, Lost, agentVars, linkVars
  <1>10. ASSUME NEW k \in Calls, Call(k) \/ StopWaiting(k) \/ FlaskStep(k) PROVE LinksOK'
    BY <1>7, <1>10 DEF Call, StopWaiting, FlaskStep, Forward, GatewayTimeout, Respond,
       agentVars, linkVars
  <1>11. CASE UNCHANGED vars
    BY <1>7, <1>11 DEF vars, agentVars, linkVars
  <1> QED
    BY <1>2, <1>3, <1>4, <1>5, <1>8, <1>9, <1>10, <1>11 DEF Next, AgentStep

\* A handler that changes its phase stays a handler.
LEMMA HandlerMoves ==
    ASSUME HubOK, conn \in 0..MaxConns, NEW c \in Conns, NEW h \in Handler,
           hub' = [hub EXCEPT ![c] = h],
           hub[c].phase # "unused", h.phase \notin Unserved, live' \in {live, c, 0}, conn' = conn
    PROVE  HubOK'
  <1>1. c \in 1..MaxConns /\ c <= conn /\ c \in 0..conn
    BY Sizes DEF HubOK, Conns
  <1>2. hub' \in [Conns -> Handler] /\ hub'[c] = h /\ \A d \in Conns : d # c => hub'[d] = hub[d]
    BY DEF HubOK
  <1>3. \A d \in Conns : hub'[d].phase # "unused" => d <= conn'
    BY <1>1, <1>2 DEF HubOK
  <1>4. live' \in 0..conn' /\ (live' # 0 => live' \in Conns)
    <2>1. live \in 0..conn /\ (live # 0 => live \in Conns)
      BY Sizes DEF HubOK, Conns
    <2> QED
      BY <1>1, <2>1
  <1>5. live' # 0 => hub'[live'].phase \notin Unserved
    BY <1>2, <1>4 DEF HubOK
  <1> QED
    BY <1>2, <1>3, <1>4, <1>5 DEF HubOK

\* Become(c, phase) in the form the lemma above wants.
LEMMA Becomes ==
    ASSUME HubOK, NEW c \in Conns, NEW p \in Phases, Become(c, p)
    PROVE  /\ [hub[c] EXCEPT !.phase = p] \in Handler
           /\ [hub[c] EXCEPT !.phase = p].phase = p
           /\ hub' = [hub EXCEPT ![c] = [hub[c] EXCEPT !.phase = p]]
  <1>1. hub[c] \in Handler
    BY DEF HubOK
  <1> QED
    BY <1>1 DEF Handler, Become

LEMMA HubOKStep == Inv /\ [Next]_vars => HubOK'
  <1> SUFFICES ASSUME Inv, [Next]_vars PROVE HubOK'
    OBVIOUS
  <1>1. HubOK /\ LinksOK
    BY DEF Inv
  <1>2. conn \in 0..MaxConns /\ MaxConns \in Nat
    BY <1>1, Sizes DEF LinksOK
  <1>3. CASE Dial
    <2>1. conn + 1 \in Conns /\ conn' = conn + 1 /\ live' = live
      BY <1>2, <1>3 DEF Dial, Conns
    <2>2. hub[conn + 1] \in Handler
      BY <1>1, <2>1 DEF HubOK
    <2>3. [hub[conn + 1] EXCEPT !.phase = "verify"] \in Handler
      BY <2>2 DEF Handler, Phases
    <2>4. hub' = [hub EXCEPT ![conn + 1] = [hub[conn + 1] EXCEPT !.phase = "verify"]]
      BY <1>3 DEF Dial
    <2>5. hub' \in [Conns -> Handler]
      BY <1>1, <2>1, <2>3, <2>4 DEF HubOK
    <2>6. \A c \in Conns : c # conn + 1 => hub'[c] = hub[c]
      BY <1>1, <2>4 DEF HubOK
    <2>7. \A c \in Conns : hub'[c].phase # "unused" => c <= conn'
      BY <1>1, <1>2, <2>1, <2>6 DEF HubOK, Conns
    <2>8. live' \in 0..conn' /\ (live' # 0 => hub'[live'].phase \notin Unserved)
      BY <1>1, <1>2, <2>1, <2>6 DEF HubOK, Conns
    <2> QED
      BY <2>5, <2>7, <2>8 DEF HubOK
  <1>4. ASSUME NEW c \in Conns, NEW p \in Phases, Become(c, p), hub[c].phase # "unused",
               p \notin Unserved, live' \in {live, c, 0}, conn' = conn
        PROVE  HubOK'
    <2> DEFINE h == [hub[c] EXCEPT !.phase = p]
    <2>1. h \in Handler /\ h.phase = p /\ hub' = [hub EXCEPT ![c] = h]
      BY <1>1, <1>4, Becomes
    <2> HIDE DEF h
    <2> QED
      BY <1>1, <1>2, <1>4, <2>1, HandlerMoves
  <1>5. ASSUME NEW c \in Conns,
               Register(c) \/ RejectHello(c) \/ Greet(c) \/ GreetFails(c) \/ StoreFails(c)
                 \/ Lost(c) \/ Clear(c)
        PROVE  HubOK'
    <2> USE <1>4 DEF Phases, Unserved, linkVars
    <2>1. CASE Register(c)
      BY <2>1 DEF Register
    <2>2. CASE RejectHello(c)
      BY <2>2 DEF RejectHello
    <2>3. CASE Greet(c)
      BY <2>3 DEF Greet
    <2>4. CASE GreetFails(c)
      BY <2>4 DEF GreetFails
    <2>5. CASE Lost(c)
      BY <2>5 DEF Lost, IsRegistered
    <2>6. CASE Clear(c)
      BY <2>6 DEF Clear
    <2>7. CASE StoreFails(c)
      BY <2>7 DEF StoreFails, IsRegistered
    <2> QED
      BY <1>5, <2>1, <2>2, <2>3, <2>4, <2>5, <2>6, <2>7
  <1>6. ASSUME NEW c \in Conns, ReadSnapshot(c) PROVE HubOK'
    <2> DEFINE h == [phase |-> "store", sessions |-> Head(toHub[c]).sessions]
    <2>1. h \in Handler /\ h.phase \notin Unserved
      BY <1>6, HeadOfReports DEF ReadSnapshot, Handler, Phases, Unserved
    <2>2. hub' = [hub EXCEPT ![c] = h] /\ hub[c].phase # "unused" /\ live' = live /\ conn' = conn
      BY <1>6 DEF ReadSnapshot
    <2> HIDE DEF h
    <2> QED
      BY <1>1, <1>2, <2>1, <2>2, HandlerMoves
  <1>7. ASSUME NEW c \in Conns, StoreSnapshot(c) PROVE HubOK'
    <2> DEFINE h == [phase |-> "open", sessions |-> None]
    <2>1. h \in Handler /\ h.phase \notin Unserved
      BY DEF Handler, Phases, Reported, Unserved
    <2>2. hub' = [hub EXCEPT ![c] = h] /\ hub[c].phase # "unused" /\ live' = live /\ conn' = conn
      BY <1>7 DEF StoreSnapshot, linkVars
    <2> HIDE DEF h
    <2> QED
      BY <1>1, <1>2, <2>1, <2>2, HandlerMoves
  <1>8. CASE Crash
    <2>1. /\ hub' = [c \in Conns |-> [phase |-> IF c <= conn THEN "closed" ELSE "unused",
                                      sessions |-> None]]
          /\ live' = 0 /\ conn' = conn
      BY <1>8 DEF Crash
    <2> QED
      BY <1>2, <2>1 DEF HubOK, Handler, Phases, Reported, Conns
  <1>9. CASE UNCHANGED <<hub, live, conn>>
    BY <1>1, <1>9 DEF HubOK
  <1>10. CASE ReadHelloAnswer \/ RestartAgent \/ Dispatch \/ Reply \/ NoticeLoss \/ PushSessions
                \/ Timer \/ ChangeSessions \/ Drop
    BY <1>9, <1>10 DEF ReadHelloAnswer, RestartAgent, Dispatch, Reply, NoticeLoss, PushSessions,
       Timer, StartRefresh, ReadStatus, WriteStatus, ChangeSessions, Drop, linkVars
  <1>11. ASSUME NEW k \in Calls, Call(k) \/ StopWaiting(k) \/ FlaskStep(k) PROVE HubOK'
    BY <1>9, <1>11 DEF Call, StopWaiting, FlaskStep, Forward, GatewayTimeout, Respond, linkVars
  <1>12. ASSUME NEW c \in Conns, HubStep(c) PROVE HubOK'
    BY <1>5, <1>6, <1>7, <1>9, <1>12 DEF HubStep, ReadResponse
  <1>13. CASE UNCHANGED vars
    BY <1>9, <1>13 DEF vars, linkVars
  <1> QED
    BY <1>3, <1>8, <1>10, <1>11, <1>12, <1>13 DEF Next, AgentStep

\* A call that is in the inbox has left handle_flask.
LeavesSent == \A k \in Calls : route[k] \notin {"none", "new"} => route'[k] \notin {"none", "new"}

\* What was not the answer to hello is a call, and the other way round.
LEMMA MessageCalls ==
    ASSUME NEW m \in FromHub
    PROVE  /\ m.kind = "call" => m.call \in Calls
           /\ m.kind # "call" => m.call = None /\ m.call \notin Calls
    BY Sizes DEF FromHub

LEMMA FreshKept ==
    ASSUME Inv, ran' = ran, LeavesSent
    PROVE  Fresh(toAgent, ran', route')
  <1> SUFFICES ASSUME NEW i \in 1..Len(toAgent), toAgent[i].kind = "call"
               PROVE  ran'[toAgent[i].call] = 0 /\ route'[toAgent[i].call] \notin {"none", "new"}
    BY DEF Fresh
  <1>1. toAgent[i] \in FromHub /\ Fresh(toAgent, ran, route)
    BY ElementOfSeq DEF Inv, InboxOK
  <1>2. toAgent[i].call \in Calls
    BY <1>1, MessageCalls
  <1> QED
    BY <1>1, <1>2 DEF Fresh, LeavesSent

\* A step that leaves the inbox, and how far its connection has come, alone.
LEMMA InboxKept ==
    ASSUME Inv, UNCHANGED <<toAgent, conn, links, ran>>, LeavesSent, agent' \in {agent, "down"},
           Answered' <=> Answered,
           hub[conn].phase \notin Unserved => hub'[conn].phase \notin Unserved
    PROVE  InboxOK'
  <1>1. Fresh(toAgent, ran', route')
    BY FreshKept
  <1> QED
    BY <1>1 DEF Inv, InboxOK

\* A step that empties the inbox.
LEMMA InboxEmptied ==
    ASSUME toAgent' = <<>>, agent' = "open" /\ conn' \in links' => Answered'
    PROVE  InboxOK'
    BY EmptyInbox DEF InboxOK

\* An inbox that is not empty belongs to the last connection, which works; a
\* working connection is the last.
LEMMA InboxOwner ==
    ASSUME Inv
    PROVE  /\ \A c \in links : c = conn /\ c \in Conns
           /\ conn \notin links \/ hub[conn].phase \in Unserved => toAgent = <<>>
    BY DEF Inv, InboxOK, LinksOK

\* A step of a handler whose connection is not the last one's or is gone.
LEMMA InboxOfOthers ==
    ASSUME Inv, NEW c \in Conns, NEW p, Become(c, p), c \notin links,
           UNCHANGED <<toAgent, conn, links, ran, route, agent>>
    PROVE  InboxOK'
  <1>1. CASE conn \notin links
    <2>1. toAgent' = <<>> /\ conn' \notin links'
      BY <1>1, InboxOwner
    <2> QED
      BY <2>1, InboxEmptied
  <1>2. CASE conn \in links
    <2>1. conn # c /\ conn \in Conns
      BY <1>2, InboxOwner
    <2>2. hub'[conn] = hub[conn]
      BY <2>1 DEF Become, Inv, HubOK
    <2>3. Answered' <=> Answered
      BY <2>2 DEF Answered
    <2> QED
      BY <2>2, <2>3, InboxKept DEF LeavesSent
  <1> QED
    BY <1>1, <1>2

LEMMA ForwardInbox == ASSUME Inv, NEW k \in Calls, Forward(k) PROVE InboxOK'
  <1> DEFINE m == [kind |-> "call", call |-> k]
  <1>1. /\ UNCHANGED <<conn, links, ran, agent, hub>>
        /\ route[k] = "new"
        /\ route' \in {[route EXCEPT ![k] = "done"], [route EXCEPT ![k] = "sent"]}
    BY DEF Forward, Refuse, agentVars
  <1>2. LeavesSent
    BY <1>1 DEF LeavesSent, Inv, CallsOK
  <1>3. Answered' <=> Answered
    BY <1>1 DEF Answered
  <1>4. CASE toAgent' = toAgent
    BY <1>1, <1>2, <1>3, <1>4, InboxKept
  <1>5. CASE live \in links /\ toAgent' = Append(toAgent, m) /\ route' = [route EXCEPT ![k] = "sent"]
    <2>1. live = conn /\ conn \in links /\ hub[conn].phase \notin Unserved
      <3>1. live = conn /\ conn \in Conns
        BY <1>5, InboxOwner
      <3> QED
        BY <1>5, <3>1 DEF Inv, HubOK, Conns
    <2>2. /\ toAgent \in Seq(FromHub) /\ m \in FromHub /\ m.kind = "call" /\ m.call = k
          /\ Distinct(toAgent) /\ Fresh(toAgent, ran, route)
      BY CallMessage DEF Inv, InboxOK
    <2>3. \A i \in 1..Len(toAgent) : toAgent[i].call # k
      <3> SUFFICES ASSUME NEW i \in 1..Len(toAgent), toAgent[i].call = k PROVE FALSE
        OBVIOUS
      <3>1. toAgent[i] \in FromHub
        BY <2>2, ElementOfSeq
      <3>2. toAgent[i].kind = "call"
        BY <3>1, MessageCalls
      <3> QED
        BY <1>1, <2>2, <3>2 DEF Fresh
    <2>4. toAgent' \in Seq(FromHub) /\ Distinct(toAgent')
      BY <1>5, <2>2, <2>3, AppendDistinct
    <2>5. /\ Len(toAgent') = Len(toAgent) + 1 /\ Len(toAgent) \in Nat
          /\ \A i \in 1..Len(toAgent) : toAgent'[i] = toAgent[i]
          /\ toAgent'[Len(toAgent) + 1] = m
      BY <1>5, <2>2, AppendProperties, LenProperties
    <2>6. Fresh(toAgent', ran', route')
      <3>1. Fresh(toAgent, ran', route')
        BY <1>1, <1>2, FreshKept
      <3>2. ran'[k] = 0 /\ route'[k] \notin {"none", "new"}
        BY <1>1, <1>5 DEF Inv, CallsOK
      <3> QED
        BY <2>2, <2>5, <3>1, <3>2 DEF Fresh
    <2>7. OnlyCalls(toAgent) => OnlyCalls(toAgent')
      BY <2>2, <2>5 DEF OnlyCalls
    <2> HIDE DEF m
    <2> QED
      BY <1>1, <1>3, <2>1, <2>4, <2>6, <2>7 DEF Inv, InboxOK
  <1> QED
    BY <1>4, <1>5 DEF Forward

LEMMA HelloAnswerInbox == ASSUME Inv, ReadHelloAnswer PROVE InboxOK'
  <1>1. UNCHANGED <<conn, hub, ran, route>> /\ toAgent # <<>>
    BY DEF ReadHelloAnswer, callVars
  <1>2. CASE agent' = "exited" /\ toAgent' = <<>>
    BY <1>2, InboxEmptied
  <1>3. CASE Head(toAgent).kind = "ack" /\ toAgent' = Tail(toAgent) /\ links' = links
    <2>1. toAgent \in Seq(FromHub) /\ Distinct(toAgent) /\ Fresh(toAgent, ran, route)
      BY DEF Inv, InboxOK
    <2>2. /\ Head(toAgent) \in FromHub /\ Head(toAgent) = toAgent[1] /\ 1 \in 1..Len(toAgent)
          /\ toAgent' \in Seq(FromHub) /\ Distinct(toAgent')
          /\ \A i \in 1..Len(toAgent') : /\ i + 1 \in 1..Len(toAgent)
                                         /\ toAgent'[i] = toAgent[i + 1]
                                         /\ toAgent'[i].call # Head(toAgent).call
      BY <1>1, <1>3, <2>1, TailDistinct
    <2>3. Head(toAgent).call = None
      BY <1>3, <2>2, MessageCalls
    <2>4. Answered /\ conn \in links
      BY <1>1, <1>3, <2>2 DEF Inv, InboxOK, OnlyCalls, Answered
    <2>5. Answered' /\ hub'[conn'].phase \notin Unserved
      BY <1>1, <1>3, <2>4 DEF Answered, Unserved
    <2>6. OnlyCalls(toAgent')
      <3> SUFFICES ASSUME NEW i \in 1..Len(toAgent') PROVE toAgent'[i].kind = "call"
        BY DEF OnlyCalls
      <3>1. toAgent'[i] \in FromHub /\ toAgent'[i].call # None
        BY <2>2, <2>3, ElementOfSeq
      <3> QED
        BY <3>1, MessageCalls
    <2>7. Fresh(toAgent', ran', route')
      BY <1>1, <2>1, <2>2 DEF Fresh
    <2> QED
      BY <1>1, <1>3, <2>2, <2>4, <2>5, <2>6, <2>7 DEF InboxOK
  <1> QED
    BY <1>2, <1>3 DEF ReadHelloAnswer

LEMMA DispatchInbox == ASSUME Inv, Dispatch PROVE InboxOK'
  <1> DEFINE k == Head(toAgent).call
  <1>1. /\ UNCHANGED <<conn, links, agent, hub, route>> /\ toAgent # <<>>
        /\ ran' = [ran EXCEPT ![k] = ran[k] + 1] /\ toAgent' = Tail(toAgent)
    BY DEF Dispatch, Taken, callVars
  <1>2. toAgent \in Seq(FromHub) /\ Distinct(toAgent) /\ Fresh(toAgent, ran, route)
    BY DEF Inv, InboxOK
  <1>3. /\ toAgent' \in Seq(FromHub) /\ Distinct(toAgent')
        /\ \A i \in 1..Len(toAgent') : /\ i + 1 \in 1..Len(toAgent)
                                       /\ toAgent'[i] = toAgent[i + 1]
                                       /\ toAgent'[i].call # k
    BY <1>1, <1>2, TailDistinct
  <1>4. Fresh(toAgent', ran', route')
    <2> SUFFICES ASSUME NEW i \in 1..Len(toAgent'), toAgent'[i].kind = "call"
                 PROVE  /\ ran'[toAgent'[i].call] = 0
                        /\ route'[toAgent'[i].call] \notin {"none", "new"}
      BY DEF Fresh
    <2>1. toAgent'[i] \in FromHub
      BY <1>3, ElementOfSeq
    <2>2. toAgent'[i].call \in Calls /\ toAgent'[i].call # k
      BY <1>3, <2>1, MessageCalls
    <2>3. ran[toAgent'[i].call] = 0 /\ route[toAgent'[i].call] \notin {"none", "new"}
      BY <1>2, <1>3 DEF Fresh
    <2> HIDE DEF k
    <2> QED
      BY <1>1, <2>2, <2>3 DEF Inv, CallsOK
  <1>5. OnlyCalls(toAgent) => OnlyCalls(toAgent')
    BY <1>3 DEF OnlyCalls
  <1>6. Answered' <=> Answered
    BY <1>1 DEF Answered
  <1> QED
    BY <1>1, <1>3, <1>4, <1>5, <1>6 DEF Inv, InboxOK

\* The answer to hello enters an inbox that holds calls only.
LEMMA AnswerInbox ==
    ASSUME Inv, NEW c \in links, NEW m \in FromHub, m.call = None, ~Answered,
           toAgent' = Append(toAgent, m), NEW p, Become(c, p),
           p \notin {"unused", "verify", "greet"},
           UNCHANGED <<conn, links, ran, route, agent>>
    PROVE  InboxOK'
  <1>1. c = conn /\ c \in Conns
    BY InboxOwner
  <1>2. conn' \in links' /\ hub'[conn'].phase = p
    BY <1>1 DEF Become, Inv, HubOK, Handler
  <1>3. Answered' /\ hub'[conn'].phase \notin Unserved
    BY <1>2 DEF Answered, Unserved
  <1>4. /\ toAgent \in Seq(FromHub) /\ Distinct(toAgent) /\ Fresh(toAgent, ran, route)
        /\ OnlyCalls(toAgent) /\ agent # "open"
    BY <1>1 DEF Inv, InboxOK
  <1>5. \A i \in 1..Len(toAgent) : toAgent[i].call # m.call
    BY <1>4, ElementOfSeq, MessageCalls, Sizes DEF OnlyCalls
  <1>6. toAgent' \in Seq(FromHub) /\ Distinct(toAgent')
    BY <1>4, <1>5, AppendDistinct
  <1>7. /\ Len(toAgent') = Len(toAgent) + 1 /\ Len(toAgent) \in Nat
        /\ \A i \in 1..Len(toAgent) : toAgent'[i] = toAgent[i]
        /\ toAgent'[Len(toAgent) + 1] = m
    BY <1>4, AppendProperties, LenProperties
  <1>8. Fresh(toAgent', ran', route')
    <2>1. m.kind # "call"
      BY MessageCalls, Sizes
    <2> QED
      BY <1>4, <1>7, <2>1 DEF Fresh
  <1> QED
    BY <1>2, <1>3, <1>4, <1>6, <1>8 DEF InboxOK

\* Register, Greet and the like, on the connection they serve.
LEMMA HelloInbox ==
    ASSUME Inv, NEW c \in Conns,
           Register(c) \/ RejectHello(c) \/ Greet(c) \/ GreetFails(c)
    PROVE  InboxOK'
  <1>1. UNCHANGED <<conn, ran, route, agent>>
    BY DEF Register, RejectHello, Greet, GreetFails, callVars, agentVars, linkVars
  <1>2. hub[c].phase \in {"verify", "greet"}
    BY DEF Register, RejectHello, Greet, GreetFails
  <1>3. PICK p \in Phases : Become(c, p)
    BY DEF Register, RejectHello, Greet, GreetFails, Phases
  <1>4. CASE c \notin links
    <2>1. toAgent' = toAgent /\ links' = links
      BY <1>4 DEF Register, RejectHello, Greet, GreetFails, Unlink, linkVars
    <2> QED
      BY <1>1, <1>3, <1>4, <2>1, InboxOfOthers
  <1>5. CASE c \in links
    <2>1. c = conn /\ ~Answered /\ agent # "open"
      BY <1>2, <1>5, InboxOwner DEF Answered, Inv, InboxOK
    <2>2. CASE Register(c)
      <3>1. toAgent' = <<>> /\ agent' # "open"
        BY <1>1, <2>1, <2>2, InboxOwner DEF Register, linkVars, Unserved
      <3> QED
        BY <3>1, InboxEmptied
    <2>3. CASE RejectHello(c)
      <3>1. [kind |-> "reject", call |-> None] \in FromHub
        BY DEF FromHub
      <3> QED
        BY <1>1, <1>5, <2>1, <2>3, <3>1, AnswerInbox DEF RejectHello
    <2>4. CASE Greet(c)
      <3>1. [kind |-> "ack", call |-> None] \in FromHub
        BY DEF FromHub
      <3> QED
        BY <1>1, <1>5, <2>1, <2>4, <3>1, AnswerInbox DEF Greet
    <2>5. CASE GreetFails(c)
      <3>1. toAgent' = <<>> /\ agent' # "open"
        BY <1>1, <1>5, <2>1, <2>5 DEF GreetFails, Unlink
      <3> QED
        BY <3>1, InboxEmptied
    <2> QED
      BY <2>2, <2>3, <2>4, <2>5
  <1> QED
    BY <1>4, <1>5

LEMMA InboxStep == Inv /\ [Next]_vars => InboxOK'
  <1> SUFFICES ASSUME Inv, [Next]_vars PROVE InboxOK'
    OBVIOUS
  <1>1. ASSUME UNCHANGED <<toAgent, conn, links, ran, hub>>, LeavesSent, agent' \in {agent, "down"}
        PROVE  InboxOK'
    BY <1>1, InboxKept DEF Answered
  <1>2. CASE Dial
    BY <1>2, InboxEmptied DEF Dial
  <1>3. CASE RestartAgent \/ Reply \/ NoticeLoss \/ PushSessions \/ Timer \/ ChangeSessions
    BY <1>1, <1>3 DEF RestartAgent, Reply, NoticeLoss, PushSessions, Timer, StartRefresh, ReadStatus,
       WriteStatus, ChangeSessions, callVars, agentVars, linkVars, LeavesSent
  <1>4. CASE Drop
    <2>1. conn' = conn /\ conn \notin links' /\ toAgent' = <<>>
      BY <1>4 DEF Drop
    <2> QED
      BY <2>1, InboxEmptied
  <1>5. CASE Crash
    BY <1>5, InboxEmptied DEF Crash
  <1>6. ASSUME NEW k \in Calls, Call(k) PROVE InboxOK'
    <2>1. LeavesSent
      BY <1>6 DEF Call, LeavesSent, Inv, CallsOK
    <2> QED
      BY <1>1, <1>6, <2>1 DEF Call, agentVars, linkVars
  <1>7. ASSUME NEW k \in Calls, StopWaiting(k) \/ GatewayTimeout(k) \/ Respond(k) PROVE InboxOK'
    <2>1. LeavesSent
      BY <1>7 DEF StopWaiting, GatewayTimeout, Respond, Refuse, LeavesSent, Inv, CallsOK
    <2> QED
      BY <1>1, <1>7, <2>1 DEF StopWaiting, GatewayTimeout, Respond, agentVars, linkVars
  <1>8. ASSUME NEW c \in Conns, ReadResponse(c) PROVE InboxOK'
    <2>1. LeavesSent
      BY <1>8 DEF ReadResponse, LeavesSent
    <2> QED
      BY <1>1, <1>8, <2>1 DEF ReadResponse, agentVars
  <1>9. ASSUME NEW c \in Conns,
               ReadSnapshot(c) \/ StoreSnapshot(c) \/ StoreFails(c) \/ Lost(c) \/ Clear(c)
        PROVE  InboxOK'
    <2>1. /\ UNCHANGED <<conn, ran, route, agent>>
          /\ UNCHANGED <<toAgent, links>> \/ Unlink(c)
          /\ hub[c].phase \in {"open", "store", "clear"}
      BY <1>9 DEF ReadSnapshot, StoreSnapshot, StoreFails, Lost, Clear, callVars, agentVars, linkVars
    <2>2. PICK h \in [phase : {"open", "store", "clear", "closed"}, sessions : Reported] :
            hub' = [hub EXCEPT ![c] = h]
      <3>1. hub[c] \in Handler
        BY DEF HubOK, Inv
      <3>2. ASSUME NEW p \in {"clear", "closed"}, Become(c, p)
            PROVE  /\ [hub[c] EXCEPT !.phase = p] \in
                        [phase : {"open", "store", "clear", "closed"}, sessions : Reported]
                   /\ hub' = [hub EXCEPT ![c] = [hub[c] EXCEPT !.phase = p]]
        BY <3>1, <3>2 DEF Become, Handler
      <3>3. CASE ReadSnapshot(c)
        BY <3>3, HeadOfReports DEF ReadSnapshot
      <3>4. CASE StoreSnapshot(c)
        BY <3>4 DEF StoreSnapshot, Reported
      <3>5. CASE StoreFails(c)
        BY <3>2, <3>5 DEF StoreFails
      <3>6. CASE Lost(c)
        BY <3>2, <3>6 DEF Lost
      <3>7. CASE Clear(c)
        BY <3>2, <3>7 DEF Clear
      <3> QED
        BY <1>9, <3>3, <3>4, <3>5, <3>6, <3>7
    <2>3. /\ hub'[c].phase \in {"open", "store", "clear", "closed"}
          /\ \A d \in Conns : d # c => hub'[d] = hub[d]
      BY <2>2 DEF HubOK, Inv
    <2>4. conn \in Conns
      BY <2>1, Sizes DEF Inv, HubOK, LinksOK, Conns
    <2>5. CASE UNCHANGED <<toAgent, links>>
      <3>1. Answered' <=> Answered
        BY <2>1, <2>3, <2>4, <2>5 DEF Answered
      <3> QED
        BY <2>1, <2>3, <2>4, <2>5, <3>1, InboxKept DEF LeavesSent, Unserved
    <2>6. CASE Unlink(c) /\ c \in links
      <3>1. c = conn /\ conn' \notin links' /\ toAgent' = <<>>
        BY <2>1, <2>6, InboxOwner DEF Unlink
      <3> QED
        BY <3>1, InboxEmptied
    <2>7. CASE Unlink(c) /\ c \notin links
      BY <2>5, <2>7 DEF Unlink
    <2> QED
      BY <2>1, <2>5, <2>6, <2>7
  <1>10. CASE UNCHANGED vars
    BY <1>1, <1>10 DEF vars, callVars, agentVars, linkVars, LeavesSent
  <1>11. ASSUME NEW k \in Calls, FlaskStep(k) PROVE InboxOK'
    BY <1>7, <1>11, ForwardInbox DEF FlaskStep
  <1>12. ASSUME NEW c \in Conns, HubStep(c) PROVE InboxOK'
    BY <1>8, <1>9, <1>12, HelloInbox DEF HubStep
  <1> QED
    BY <1>2, <1>3, <1>4, <1>5, <1>6, <1>7, <1>10, <1>11, <1>12, HelloAnswerInbox, DispatchInbox
    DEF Next, AgentStep

\* What was a true report stays one.
LEMMA ReportsGrow ==
    ASSUME Inv, ran' = ran \/ Dispatch
    PROVE  \A s : s \in Seq(GoodReport) => s \in Seq(GoodReport')
  <1>1. \A k \in Calls : ran[k] = 1 => ran'[k] = 1
    BY HeadOfInbox DEF Dispatch, Inv, CallsOK
  <1>2. GoodReport \subseteq GoodReport'
    BY <1>1 DEF GoodReport, FromAgent
  <1> QED
    BY <1>2, SeqMonotonic

LEMMA ReportsStep == Inv /\ [Next]_vars => ReportsOK'
  <1> SUFFICES ASSUME Inv, [Next]_vars PROVE ReportsOK'
    OBVIOUS
  <1>1. toHub \in [Conns -> Seq(GoodReport)] /\ (agent = "open" => conn \in Conns \/ conn \notin links)
    BY DEF Inv, ReportsOK, LinksOK
  <1>2. ASSUME UNCHANGED <<ran, toHub>> PROVE ReportsOK'
    BY <1>1, <1>2, ReportsGrow DEF ReportsOK
  <1>3. ASSUME NEW m \in GoodReport, conn \in links, ran' = ran,
               toHub' = [toHub EXCEPT ![conn] = Append(toHub[conn], m)]
        PROVE  ReportsOK'
    <2>1. conn \in Conns
      BY <1>3, InboxOwner
    <2>2. Append(toHub[conn], m) \in Seq(GoodReport)
      BY <1>1, <1>3, <2>1, AppendProperties
    <2>3. toHub' \in [Conns -> Seq(GoodReport)]
      BY <1>1, <1>3, <2>2
    <2> QED
      BY <1>3, <2>3, ReportsGrow DEF ReportsOK
  <1>4. CASE Dispatch
    BY <1>1, <1>4, ReportsGrow DEF Dispatch, ReportsOK
  <1>5. CASE Reply
    <2>1. CASE conn \in links
      <3>1. [kind |-> "response", call |-> job] \in GoodReport
        BY <1>5 DEF Reply, GoodReport, FromAgent, Inv, CallsOK
      <3> QED
        BY <1>3, <1>5, <2>1, <3>1 DEF Reply
    <2>2. CASE conn \notin links
      BY <1>2, <1>5, <2>2 DEF Reply
    <2> QED
      BY <2>1, <2>2
  <1>6. CASE PushSessions
    <2>1. [kind |-> "snapshot", sessions |-> vpn] \in GoodReport
      BY DEF GoodReport, FromAgent, Inv, TableOK
    <2> QED
      BY <1>3, <1>6, <2>1 DEF PushSessions
  <1>7. ASSUME NEW c \in Conns, ReadResponse(c) \/ ReadSnapshot(c) PROVE ReportsOK'
    <2>1. toHub' = [toHub EXCEPT ![c] = Tail(toHub[c])] /\ ran' = ran /\ toHub[c] # <<>>
      BY <1>7 DEF ReadResponse, ReadSnapshot, agentVars
    <2>2. Tail(toHub[c]) \in Seq(GoodReport)
      BY <2>1, HeadOfReports
    <2>3. toHub' \in [Conns -> Seq(GoodReport)]
      BY <1>1, <2>1, <2>2
    <2> QED
      BY <2>1, <2>3, ReportsGrow DEF ReportsOK
  <1>8. CASE Drop
    <2>1. conn \in Conns /\ ran' = ran
      BY <1>8, InboxOwner DEF Drop
    <2>2. PICK n \in 0..Len(toHub[conn]) :
            toHub' = [toHub EXCEPT ![conn] = SubSeq(toHub[conn], 1, n)]
      BY <1>8 DEF Drop
    <2>3. SubSeq(toHub[conn], 1, n) \in Seq(GoodReport)
      <3>1. toHub[conn] \in Seq(GoodReport) /\ Len(toHub[conn]) \in Nat
        BY <1>1, <2>1, LenProperties
      <3>2. \A i \in 1..n : toHub[conn][i] \in GoodReport
        BY <3>1, ElementOfSeq
      <3> QED
        BY <3>1, <3>2, SubSeqProperties
    <2>4. toHub' \in [Conns -> Seq(GoodReport)]
      BY <1>1, <2>2, <2>3
    <2> QED
      BY <2>1, <2>4, ReportsGrow DEF ReportsOK
  <1>9. CASE Crash
    BY <1>9, EmptySeq DEF Crash, ReportsOK
  <1>10. CASE Dial \/ ReadHelloAnswer \/ RestartAgent \/ NoticeLoss \/ Timer \/ ChangeSessions
    BY <1>2, <1>10 DEF Dial, ReadHelloAnswer, RestartAgent, NoticeLoss, Timer, StartRefresh,
       ReadStatus, WriteStatus, ChangeSessions, agentVars, linkVars
  <1>11. ASSUME NEW k \in Calls, Call(k) \/ StopWaiting(k) \/ FlaskStep(k) PROVE ReportsOK'
    BY <1>2, <1>11 DEF Call, StopWaiting, FlaskStep, Forward, GatewayTimeout, Respond, agentVars,
       linkVars
  <1>12. ASSUME NEW c \in Conns, GreetFails(c) \/ StoreFails(c) \/ Clear(c) PROVE ReportsOK'
    <2>1. ran' = ran /\ (toHub' = toHub \/ toHub' = [toHub EXCEPT ![c] = <<>>])
      BY <1>12 DEF GreetFails, StoreFails, Clear, Unlink, agentVars
    <2>2. [toHub EXCEPT ![c] = <<>>] \in [Conns -> Seq(GoodReport)]
      BY <1>1, EmptySeq
    <2> QED
      BY <1>2, <2>1, <2>2, ReportsGrow DEF ReportsOK
  <1>13. ASSUME NEW c \in Conns, HubStep(c) PROVE ReportsOK'
    BY <1>2, <1>7, <1>12, <1>13 DEF HubStep, Register, RejectHello, Greet, StoreSnapshot, Lost,
       agentVars, linkVars
  <1>14. CASE UNCHANGED vars
    BY <1>2, <1>14 DEF vars, agentVars, linkVars
  <1> QED
    BY <1>4, <1>5, <1>6, <1>8, <1>9, <1>10, <1>11, <1>13, <1>14 DEF Next, AgentStep

\* What the bounds on faults have been charged stays a record of numbers.
LEMMA ChargeType ==
    ASSUME faults \in [drops : Nat, late : Nat, crashes : Nat, errors : Nat],
           NEW kind \in {"drops", "late", "crashes", "errors"}, Charge(kind)
    PROVE  faults' \in [drops : Nat, late : Nat, crashes : Nat, errors : Nat]
    BY DEF Charge

LEMMA TableStep == Inv /\ [Next]_vars => TableOK'
  <1> SUFFICES ASSUME Inv, [Next]_vars PROVE TableOK'
    OBVIOUS
  <1> USE DEF TableOK, Reported
  <1>1. TableOK
    BY DEF Inv
  <1>2. CASE Dial \/ ReadHelloAnswer \/ RestartAgent \/ Dispatch \/ Reply \/ NoticeLoss \/ PushSessions
    BY <1>1, <1>2 DEF Dial, ReadHelloAnswer, RestartAgent, Dispatch, Reply, NoticeLoss,
       PushSessions, tableVars
  <1>3. CASE Timer
    <2>1. UNCHANGED <<told, token, vpn>>
      BY <1>3 DEF Timer, StartRefresh, ReadStatus, WriteStatus, agentVars
    <2>2. refresh' \in [phase : {"off", "idle", "read", "write"}, read : Reported, newer : BOOLEAN]
      <3>1. CASE StartRefresh
        BY <1>1, <3>1 DEF StartRefresh
      <3>2. CASE ReadStatus
        <4>1. \/ refresh' = [refresh EXCEPT !.phase = "write", !.read = vpn]
              \/ refresh' = [refresh EXCEPT !.phase = "write"]
              \/ refresh' = [refresh EXCEPT !.phase = "idle"]
          BY <3>2 DEF ReadStatus
        <4> QED
          BY <1>1, <4>1
      <3>3. CASE WriteStatus
        BY <1>1, <3>3 DEF WriteStatus
      <3> QED
        BY <1>3, <3>1, <3>2, <3>3 DEF Timer
    <2>3. shown' \in Reported
      BY <1>1, <1>3 DEF Timer, StartRefresh, ReadStatus, WriteStatus, Merged
    <2>4. faults' \in [drops : Nat, late : Nat, crashes : Nat, errors : Nat]
      BY <1>1, <1>3, ChargeType DEF Timer, StartRefresh, ReadStatus, WriteStatus
    <2> QED
      BY <1>1, <2>1, <2>2, <2>3, <2>4
  <1>4. CASE ChangeSessions
    BY <1>1, <1>4, Sizes DEF ChangeSessions, agentVars, tableVars
  <1>5. CASE Drop
    BY <1>1, <1>5, ChargeType DEF Drop, tableVars
  <1>6. CASE Crash
    BY <1>1, <1>6, ChargeType DEF Crash, agentVars, tableVars
  <1>7. ASSUME NEW k \in Calls, Call(k) \/ StopWaiting(k) \/ FlaskStep(k) PROVE TableOK'
    BY <1>1, <1>7 DEF Call, StopWaiting, FlaskStep, Forward, GatewayTimeout, Respond, agentVars,
       tableVars
  <1>8. ASSUME NEW c \in Conns, StoreSnapshot(c) PROVE TableOK'
    <2>1. hub[c].sessions \in Reported
      BY DEF Inv, HubOK, Handler
    <2> QED
      BY <1>1, <1>8, <2>1 DEF StoreSnapshot, Show, agentVars
  <1>9. ASSUME NEW c \in Conns, Clear(c) \/ GreetFails(c) \/ StoreFails(c) PROVE TableOK'
    BY <1>1, <1>9, ChargeType DEF Clear, GreetFails, StoreFails, Show, agentVars, tableVars
  <1>10. ASSUME NEW c \in Conns, HubStep(c) PROVE TableOK'
    BY <1>1, <1>8, <1>9, <1>10 DEF HubStep, Register, RejectHello, Greet, ReadResponse,
       ReadSnapshot, Lost, agentVars, tableVars
  <1>11. CASE UNCHANGED vars
    BY <1>1, <1>11 DEF vars, agentVars, tableVars
  <1> QED
    BY <1>2, <1>3, <1>4, <1>5, <1>6, <1>7, <1>10, <1>11 DEF Next, AgentStep

\* Where a call can be, what an inbox and the responses tell, and which
\* connection is registered: the invariant the theorems below rest on.
THEOREM Inductive == Spec => []Inv
  <1>1. Inv /\ [Next]_vars => Inv'
    BY CallsStep, LinksStep, HubOKStep, InboxStep, ReportsStep, TableStep DEF Inv
  <1> QED
    BY <1>1, InitInv, PTL DEF Spec

\* The state of calls, agent, connections and table keeps its type, and the
\* agent never runs a call twice.
THEOREM HubTypeCorrect == Spec => []TypeOK
  <1>1. Inv => TypeOK
    <2> SUFFICES ASSUME Inv PROVE TypeOK
      OBVIOUS
    <2>1. toHub \in [Conns -> Seq(FromAgent)]
      <3>1. GoodReport \subseteq FromAgent
        BY DEF GoodReport
      <3> QED
        BY <3>1, SeqMonotonic DEF Inv, ReportsOK
    <2>2. live \in 0..MaxConns
      BY Sizes DEF Inv, HubOK, LinksOK
    <2>3. pending \subseteq Calls /\ CallsOK
      BY DEF Inv, CallsOK, NoFutureLeaks
    <2>4. TableOK /\ hub \in [Conns -> Handler] /\ toAgent \in Seq(FromHub)
      BY DEF Inv, HubOK, InboxOK
    <2>5. agent \in Agents /\ conn \in 0..MaxConns /\ links \subseteq Conns
      BY DEF Inv, LinksOK
    <2> QED
      BY <2>1, <2>2, <2>3, <2>4, <2>5 DEF CallsOK, TableOK, TypeOK, Callers, Routes, Agents, Phases,
         Handler
  <1> QED
    BY <1>1, Inductive, PTL

\* `pending` holds exactly the futures that are waited for: responses,
\* time-outs, closed connections and restarts all take theirs out.
THEOREM FuturesNeverLeak == Spec => []NoFutureLeaks
  <1>1. Inv => NoFutureLeaks
    BY DEF Inv, CallsOK
  <1> QED
    BY <1>1, Inductive, PTL

-----------------------------------------------------------------------------
(* The registry.  MaxFaults.late = 0 leaves out a connection that is lost   *)
(* while its hello is verified and registers after the one that replaced    *)
(* it: without that assumption the theorem is false.                        *)

\* A hello is verified on the newest connection only.
NewestVerifies == \A c \in Conns : hub[c].phase = "verify" => c = conn /\ c \in links

RegistryOK == NewestVerifies /\ NewestIsRegistered

LEMMA RegistryStep ==
    ASSUME MaxFaults.late = 0, Inv, RegistryOK, [Next]_vars
    PROVE  RegistryOK'
  <1> USE DEF RegistryOK, NewestVerifies, NewestIsRegistered
  <1>1. /\ hub \in [Conns -> Handler] /\ conn \in 0..MaxConns /\ MaxConns \in Nat
        /\ \A c \in links : c = conn /\ c \in Conns
        /\ \A c \in Conns : hub[c].phase # "unused" => c <= conn
    BY InboxOwner, Sizes DEF Inv, HubOK, LinksOK
  <1>2. CASE UNCHANGED <<hub, conn, links, live>>
    BY <1>2
  <1>3. CASE Dial
    <2>1. links = {} /\ links' = {conn + 1} /\ live' = live /\ conn' = conn + 1 /\ conn + 1 \in Conns
      BY <1>1, <1>3 DEF Dial, Inv, LinksOK, Conns
    <2>2. \A c \in Conns : c # conn + 1 => hub'[c] = hub[c]
      BY <1>1, <1>3 DEF Dial
    <2>3. hub'[conn + 1].phase = "verify"
      BY <1>1, <1>3, <2>1 DEF Dial, Handler
    <2> QED
      BY <2>1, <2>2, <2>3
  <1>4. CASE ReadHelloAnswer
    <2>1. UNCHANGED <<hub, conn, live>> /\ links' \subseteq links
            /\ (links' = links \/ toAgent # <<>>)
      BY <1>4 DEF ReadHelloAnswer
    <2>2. toAgent # <<>> => hub[conn].phase # "verify"
      BY DEF Inv, InboxOK, Unserved
    <2> QED
      BY <2>1, <2>2
  <1>5. CASE Drop
    <2>1. faults.late \in Nat /\ faults.late >= 0
      BY DEF Inv, TableOK
    <2>2. hub[conn].phase # "verify"
      BY <1>5, <2>1 DEF Drop, Charge
    <2>3. UNCHANGED <<hub, conn, live>> /\ links' \subseteq links /\ \A c \in links : c # conn => c \in links'
      BY <1>5 DEF Drop
    <2> QED
      BY <2>2, <2>3
  <1>6. CASE Crash
    <2>1. links' = {} /\ \A c \in Conns : hub'[c].phase # "verify"
      BY <1>6 DEF Crash
    <2> QED
      BY <2>1
  <1>7. ASSUME NEW c \in Conns, NEW p \in Phases \ {"verify"},
               hub'[c].phase = p, \A d \in Conns : d # c => hub'[d] = hub[d],
               conn' = conn, links' \in {links, links \ {c}},
               live' = live \/ live = c \/ c = conn,
               c = conn /\ c \in links' /\ p \in {"greet", "open", "store"} => live' = conn,
               c # conn \/ links' = links \/ hub[c].phase # "verify",
               conn \in links /\ conn # c /\ hub[conn].phase \in {"greet", "open", "store"}
                 => live' = live
        PROVE  RegistryOK'
    BY <1>1, <1>7
  <1>8. ASSUME NEW c \in Conns, HubStep(c) PROVE RegistryOK'
    <2>1. conn' = conn
      BY <1>8 DEF HubStep, Register, RejectHello, Greet, GreetFails, ReadResponse, ReadSnapshot,
         StoreSnapshot, StoreFails, Lost, Clear, linkVars
    <2>2. ASSUME NEW p \in Phases, Become(c, p)
          PROVE  hub'[c].phase = p /\ \A d \in Conns : d # c => hub'[d] = hub[d]
      BY <1>1, <2>2 DEF Become, Handler
    <2>3. CASE Register(c)
      BY <1>1, <1>7, <2>1, <2>2, <2>3 DEF Register, Phases, linkVars
    <2>4. CASE RejectHello(c)
      BY <1>1, <1>7, <2>1, <2>2, <2>4 DEF RejectHello, Phases
    <2>5. CASE Greet(c)
      BY <1>1, <1>7, <2>1, <2>2, <2>5 DEF Greet, Phases
    <2>6. CASE GreetFails(c)
      BY <1>1, <1>7, <2>1, <2>2, <2>6 DEF GreetFails, Unlink, Phases
    <2>7. CASE ReadResponse(c)
      BY <1>2, <2>7 DEF ReadResponse
    <2>8. CASE ReadSnapshot(c)
      BY <1>1, <1>7, <2>1, <2>8 DEF ReadSnapshot, Phases
    <2>9. CASE StoreSnapshot(c)
      BY <1>1, <1>7, <2>1, <2>9 DEF StoreSnapshot, Phases, linkVars
    <2>10. CASE Lost(c)
      BY <1>1, <1>7, <2>1, <2>2, <2>10 DEF Lost, IsRegistered, Phases, linkVars
    <2>11. CASE Clear(c)
      BY <1>1, <1>7, <2>1, <2>2, <2>11 DEF Clear, Unlink, Phases
    <2>12. CASE StoreFails(c)
      BY <1>1, <1>7, <2>1, <2>2, <2>12 DEF StoreFails, Unlink, IsRegistered, Phases
    <2> QED
      BY <1>8, <2>3, <2>4, <2>5, <2>6, <2>7, <2>8, <2>9, <2>10, <2>11, <2>12 DEF HubStep
  <1>9. CASE RestartAgent \/ Dispatch \/ Reply \/ NoticeLoss \/ PushSessions \/ Timer \/ ChangeSessions
    BY <1>2, <1>9 DEF RestartAgent, Dispatch, Reply, NoticeLoss, PushSessions, Timer, StartRefresh,
       ReadStatus, WriteStatus, ChangeSessions, linkVars
  <1>10. ASSUME NEW k \in Calls, Call(k) \/ StopWaiting(k) \/ FlaskStep(k) PROVE RegistryOK'
    BY <1>2, <1>10 DEF Call, StopWaiting, FlaskStep, Forward, GatewayTimeout, Respond, linkVars
  <1>11. CASE UNCHANGED vars
    BY <1>2, <1>11 DEF vars, linkVars
  <1> QED
    BY <1>3, <1>4, <1>5, <1>6, <1>8, <1>9, <1>10, <1>11 DEF Next, AgentStep

\* Calls are sent to the newest connection once it is served: an older one
\* that notices its end later takes nothing out of the registry but itself.
THEOREM NewestStaysRegistered ==
    ASSUME MaxFaults.late = 0 PROVE Spec => []NewestIsRegistered
  <1>1. Init => RegistryOK
    BY DEF Init, RegistryOK, NewestVerifies, NewestIsRegistered
  <1>2. Inv /\ RegistryOK /\ [Next]_vars => RegistryOK'
    BY RegistryStep
  <1>3. RegistryOK => NewestIsRegistered
    BY DEF RegistryOK
  <1> QED
    BY <1>1, <1>2, <1>3, Inductive, PTL DEF Spec

-----------------------------------------------------------------------------
(* The promise of hub_client.call. *)

promised == <<ran, [k \in Calls |-> Outcome(k)]>>

LEMMA PromiseStep == Inv /\ [Next]_vars => [Promise!Next]_promised
  <1> SUFFICES ASSUME Inv, [Next]_vars PROVE Promise!Next \/ UNCHANGED promised
    OBVIOUS
  <1> DEFINE outcomes == [k \in Calls |-> Outcome(k)]
  <1>1. CallsOK
    BY DEF Inv
  <1>2. CASE UNCHANGED <<ran, caller>>
    BY <1>2 DEF promised, Outcome
  <1>3. ASSUME NEW S \in SUBSET Calls, \A k \in S : caller[k] = "wait", ran' = ran,
               caller' = [k \in Calls |-> IF k \in S THEN "error" ELSE caller[k]]
        PROVE  Promise!Next
    <2>1. \A k \in S : Outcome(k) = "none"
      BY <1>3 DEF Outcome
    <2>2. outcomes' = [k \in Calls |-> IF k \in S THEN "error" ELSE outcomes[k]]
      BY <1>3 DEF Outcome
    <2>3. Promise!Fail(S)
      BY <1>3, <2>1, <2>2 DEF Promise!Fail
    <2> QED
      BY <2>3 DEF Promise!Next
  <1>4. ASSUME NEW k \in Calls, NEW what \in {"ok", "notok", "error"}, caller' = Return(k, what),
               what = "ok" => ran[k] = 1, ran' = ran
        PROVE  Promise!Next \/ UNCHANGED promised
    <2>1. CASE caller[k] = "wait" /\ what = "error"
      <3>1. caller' = [i \in Calls |-> IF i \in {k} THEN "error" ELSE caller[i]]
        BY <1>1, <1>4, <2>1 DEF Return, CallsOK
      <3> QED
        BY <1>3, <1>4, <2>1, <3>1
    <2>2. CASE caller[k] = "wait" /\ what # "error"
      <3>1. outcomes' = [outcomes EXCEPT ![k] = what] /\ outcomes[k] = "none"
        BY <1>1, <1>4, <2>2 DEF Return, Outcome, CallsOK
      <3>2. Promise!Succeed(k) \/ Promise!Refuse(k)
        BY <1>4, <2>2, <3>1 DEF Promise!Succeed, Promise!Refuse, Promise!Tell
      <3> QED
        BY <3>2 DEF Promise!Next
    <2>3. CASE caller[k] # "wait"
      <3>1. caller' = caller
        BY <1>1, <1>4, <2>3 DEF Return, CallsOK
      <3> QED
        BY <1>2, <1>4, <3>1
    <2> QED
      BY <2>1, <2>2, <2>3
  <1>5. ASSUME NEW k \in Calls, Respond(k) PROVE Promise!Next \/ UNCHANGED promised
    <2>1. ran[k] = 1 /\ ran' = ran
      BY <1>1, <1>5 DEF Respond, CallsOK, agentVars
    <2>2. PICK what \in {"ok", "notok"} : caller' = Return(k, what)
      BY <1>5 DEF Respond
    <2> QED
      BY <1>4, <2>1, <2>2
  <1>6. CASE Dispatch
    <2>1. PICK k \in Calls : ran[k] = 0 /\ ran' = [ran EXCEPT ![k] = ran[k] + 1] /\ caller' = caller
      BY <1>6, HeadOfInbox DEF Dispatch, callVars
    <2>2. ran' = [ran EXCEPT ![k] = 1]
      BY <1>1, <2>1 DEF CallsOK
    <2>3. Promise!Run(k)
      BY <2>1, <2>2 DEF Promise!Run, Outcome
    <2> QED
      BY <2>3 DEF Promise!Next
  <1>7. CASE Crash
    <2> DEFINE S == {k \in Calls : caller[k] = "wait"}
    <2>1. caller' = [k \in Calls |-> IF k \in S THEN "error" ELSE caller[k]] /\ ran' = ran
      BY <1>1, <1>7 DEF Crash, CallsOK, agentVars
    <2>2. S \in SUBSET Calls /\ \A k \in S : caller[k] = "wait"
      OBVIOUS
    <2> HIDE DEF S
    <2> QED
      BY <1>3, <2>1, <2>2
  <1>8. ASSUME NEW k \in Calls, Call(k) PROVE UNCHANGED promised
    <2>1. ran' = ran /\ outcomes' = outcomes
      BY <1>1, <1>8 DEF Call, Outcome, CallsOK, agentVars
    <2> QED
      BY <2>1 DEF promised
  <1>9. ASSUME NEW k \in Calls, StopWaiting(k) \/ FlaskStep(k)
        PROVE  Promise!Next \/ UNCHANGED promised
    BY <1>2, <1>4, <1>5, <1>9 DEF StopWaiting, FlaskStep, Forward, GatewayTimeout, Refuse, agentVars
  <1>10. CASE Dial \/ ReadHelloAnswer \/ RestartAgent \/ Reply \/ NoticeLoss \/ PushSessions
                \/ Timer \/ ChangeSessions \/ Drop
    BY <1>2, <1>10 DEF Dial, ReadHelloAnswer, RestartAgent, Reply, NoticeLoss, PushSessions, Timer,
       StartRefresh, ReadStatus, WriteStatus, ChangeSessions, Drop, callVars, agentVars
  <1>11. ASSUME NEW c \in Conns, HubStep(c) PROVE Promise!Next \/ UNCHANGED promised
    BY <1>2, <1>11 DEF HubStep, Register, RejectHello, Greet, GreetFails, ReadResponse, ReadSnapshot,
       StoreSnapshot, StoreFails, Lost, Clear, callVars, agentVars
  <1>12. CASE UNCHANGED vars
    BY <1>2, <1>12 DEF vars, callVars, agentVars
  <1> QED
    BY <1>6, <1>7, <1>8, <1>9, <1>10, <1>11, <1>12 DEF Next, AgentStep

\* Calls with their time-outs, lost connections and restarts implement
\* RemoteCall: a call whose response is ok was run, none is run twice or told
\* two things; that a call was refused or failed says nothing of the agent.
THEOREM HubImplementsCall == Spec => ImplementsCall
  <1>1. Init => Promise!Init
    BY DEF Init, Promise!Init, Outcome
  <1>2. Inv /\ [Next]_vars => [Promise!Next]_promised
    BY PromiseStep
  <1> QED
    BY <1>1, <1>2, Inductive, PTL DEF Spec, ImplementsCall, Promise!Spec, promised
=============================================================================
