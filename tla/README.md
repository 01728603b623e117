# A TLA+ model of pivpn-webui

pivpn-webui is a Flask application that manages a PiVPN (OpenVPN) server: its
clients, its iptables rules and its logs. This directory holds TLA+ modules
that model the parts of it whose behaviour is hard to test, TLC
configurations that check them on small instances, and TLAPS proofs of the
results that hold for every instance. Every definition is translated from the
code; `PROJECT.json` says which lines each one stands for.

## 1. Inventory

| Component | State it keeps | Operations | Interacts through |
|---|---|---|---|
| **Firewall** (`app/firewall.py`) | the `firewall_rules` table and, beside it, the live iptables chains | add, toggle, disable, delete, reorder, block and unblock a client, `sync_all`, `discover_cli_rules`, import | the table, two locks, one iptables command at a time (`run_root`) |
| **Database** (`app/db.py`) | Postgres tables, the advisory lock | one connection per call; `locked_transaction` for read-check-write | every other component |
| **Event streams** (`agent.py`, `hub_gateway.py`, `deploy/ingest_logs.py`) | journal cursor per stream, rows of `vpn_events`, `traffic_flows` | follow, batch, send, store with cursor, acknowledge, resume; a timer's fallback ingest | WebSocket messages, two tables |
| **Hub gateway** (`hub_gateway.py`, `app/hub_client.py`, `agent.py`) | `live_agents`, `pending`; the agent's last pushed sessions | hello, call, response, snapshot, disconnect | Unix socket from Flask, WebSocket to the agent |
| **Client status cache** (`deploy/ingest_clients.py`, `app/db.py`) | `client_status_cache` | full refresh, agent snapshot, clear on disconnect | one table with two writers |
| **Client life cycle** (`app/pivpn_ctl.py`, `app/api.py`) | PiVPN's own certificate files, default rules | add, import, renew, remove | the `pivpn` command, the firewall |
| **Sessions** (`app/auth.py`, `app/routes.py`, `app/api.py`) | JWT claims in cookies, `session_generation`, login failures | login, lock, unlock, idle time-out, role and password changes | cookies, `users` table |
| **Overview stream** (`overview_stream.py`, `app/overview_notify.py`, `static/js/overview-page.js`) | a queue of 16 topics per subscriber; the page's timers and load | publish, listen, coalesce, drop; load, retry, reconnect | Postgres NOTIFY, server-sent events, the users table |
| **VPN log analysis** (`app/vpnlog.py`) | none (pure) | build sessions from events, peak concurrency | reads `vpn_events` |
| **VPN routes** (`app/vpn_routes.py`, its helper script) | `push "route …"` lines of server.conf | list, add, remove | a root helper |
| **Organisation cache** (`app/iplookup.py`) | `ip_org_cache` | look up, retry after 7 days | whois |
| **Browser controllers** (`app/static/js`) | selection, filters, timers | page by page | the HTTP API, the event stream |

What is hard about them, and what makes each correct:

* **Firewall.** Two stores, the table and the kernel's chains, that no
  transaction spans. Requests run in threads of several gunicorn workers;
  some of their steps hold the Postgres advisory lock, some the file lock of
  the rebuild, some none. Commands fail half way, workers are killed, an
  operator types rules at a shell. Correct means: changes that each passed
  the self-lockout check never add up to a lockout; a rule is live once and
  in the order of the table; nothing typed by hand is lost; a blocked client
  is blocked in both chains, an unblocked one in neither; a
  synchronisation repairs whatever a crash or a flush left behind; every
  request ends.
* **Event streams.** Messages are lost with the connection, batches are
  sent again, an old connection's batch may be stored after the new
  connection read its cursor. Correct means: the committed cursor never
  passes an event that is not stored, and every event is stored in the end.
* **Hub gateway.** A call races the hello that registers the agent, a
  reconnect races the clean-up of the old connection, time-outs run at both
  ends. Correct means: a call is run at most once, its answer reaches it and
  no other, it always ends; the newest connection carries the calls.
* **Client status cache.** Slow full refreshes overlap each other and the
  agent's snapshots. Correct means: whatever overlaps, the list ends up
  showing the valid clients and the live sessions, and no client nobody
  touched leaves it on the way.
* **Client life cycle.** Several external commands make one operation, and a
  command that was given up may run later. Correct means: creations of one
  name are decided one after the other, a new client is kept out of the
  private ranges, a removed one leaves no rule, every request ends.
* **Sessions.** Browsers send and receive out of order, and every answer
  signs the cookie again. Correct means: an account is signed in at one
  place, a sign-out is final, one administrator always remains.
* **Overview stream.** Bounded queues drop topics, connections break, loads
  overlap. Correct means: a watched page shows the tables in the end or says
  it cannot, and a stream whose token is superseded is told.
* **VPN log analysis.** Lines are missing, late or of the same second.
  Correct means: no session is lost, doubled or given a false duration, and
  the chart never shows more clients than there were.
* **Routes, organisation cache.** A file edited without a lock; a cache with
  a retry.

`PROJECT.json` lists these hazards one by one, at the line where each bites.

## 2. Plan

| | Modules | State |
|---|---|---|
| Firewall | `FirewallRules`, `Firewall`, `FirewallProperties`, `FirewallProofs`, `FirewallAccessProofs`, `FirewallRebuildProofs`, `FirewallSettledProofs` | modelled, thirteen theorems; section 3 |
| Event streams | `EventStream`, abstract `ResumableLog`, `EventStreamProofs` | modelled, three theorems; section 4 |
| Calls and live sessions | `HubGateway`, abstract `RemoteCall`, `HubGatewayProofs` | modelled, four theorems; section 5 |
| Clients and their list | `ClientLifecycle`, `ClientLifecycleProofs` | modelled, six theorems; section 6 |
| Sign-in | `Sessions` | modelled; section 7 |
| Overview page | `OverviewStream`, which extends `Sessions`; `OverviewStreamProofs` for both | modelled, five theorems; section 7 |
| Session history | `VpnLog` | modelled; section 8 |

Each `MC…` module holds the constant values of the runs of one of them.
Left, in this order:

1. Two renewals, or a renewal and a removal, in `ClientLifecycle` with three
   clients; the log pages' pagination on top of `VpnLog`.
2. Firewall runs for hand-typed rules that parsing changes, tied positions and
   chains without an enabled rule; event streams without a cursor and with
   flows that have no ports.

## 3. The firewall modules

### State

| TLA+ | Code |
|---|---|
| `rules`, `nextId` | table `firewall_rules` and its identity sequence (`app/db.py`) |
| `live[c]` | what `iptables -S c` lists: entries with the id of their `pivpn-webui:<id>` comment, 0 for none |
| `advisory` | the Postgres advisory lock of `db.locked_transaction` |
| `flock` | the lock file of `_rebuild_chain_lock` |
| `pc[w]`, `job[w]` | a request in thread or process `w`: where it is, its local variables |
| `spent` | bookkeeping of the bounds only |

A rule's text is abstracted to a *shape*: kind, ACCEPT or DROP, the admin
addresses whose web-UI traffic it matches, the same after a round trip through
the parser, whether the add forms refuse it, the client it blocks. That is all
the code's decisions look at. Positions are integers in steps of `1/Unit`, so
that midpoints stay exact.

### Actions

A request is a chain of steps, cut wherever another request can get in: taking
a lock (or timing out on it), the read of a transaction, the decision with
its commit, each statement of an unlocked insert, each iptables command, each
take and release of the file lock. `Lock`/`Read` and then one of `AddInput`,
`Toggle`, `Disable`, `Delete`, `Reorder`, `Block`, `Unblock` follow the
transactions; `ReadMax`/`Insert` follow `db.insert_rule`; `RunCommand` and
`FailCommand` run the command list the step before left in `job[w].cmds`, with
the code's reaction to a failure (compensate, swallow, raise, go on with the
next chain); `TakeFlock` to `ChainRebuilt` follow `_rebuild_chain`, and
`Snapshot` to `AllScanned` follow `discover_cli_rules`. Around them an operator
appends and deletes rules by hand, chains are flushed (`iptables -F`, a
reboot), workers are killed.

`FirewallRules` holds the pure parts: chains of a kind, the (position, id)
order, the first-match verdict, reorder positions and the positions discovery
gives to new rules.

### Runs

All bounds are constants of the configurations. `Unit = 8` lets midpoints be
taken three times; every run has at most three requests.

| Run | Shows | Bounds, and why they are enough |
|---|---|---|
| `firewall_access` | `AccessKept`: the self-lockout guard composes; `AtMostOneBlockRow`, `UnblockedIsClear` | 2 workers, 3 of 14 requests, one worker killed: the races need two checks, or two blocks, on one state; the third request allows a change between them |
| `firewall_rebuild` | `OneLiveCopy`, `SettledChains`, `ManualRulesConserved`, `AdoptsOnlyUntracked`, `ReorderLandsNextToTarget` | 2 workers, 2 requests that rebuild, 2 hand-typed rules, four rules in three chains, one of them in two. Two discoveries over one hand-typed rule are the shortest way to adopt it twice |
| `firewall_serial` | `TypeOK`, `SettledChains`, `LiveAccessKept`: what must hold without any concurrency; `SyncReconciles` | one worker, 3 of 18 requests, every kind among them, over two tables, one with two rules at one position; one kill at any step and one flush, reboot or hand deletion between requests. Two requests, a kill or a flush, then a synchronisation are the shortest way to a table and chains that differ in more than one rule |
| `firewall_terminates` | `EveryRequestEnds` | both locks contended, commands that fail, one kill, rules deleted or flushed at any step |

Four things that a comment or the README says of the firewall are not so, and
no run claims them:

* `src/app/firewall.py:4-6`: "re-running sync never produces duplicate
  rules". An add commits its row and appends the rule later, outside the
  rebuild lock; a synchronisation in between appends it too.
* `src/app/firewall.py:394-395`: the window of a rebuild is "of *less*
  restriction, not a lockout". Tagged rules are deleted in live order, so an
  ACCEPT goes before the DROP behind it.
* `src/app/firewall.py:763-769`, that the locked check closes the race of two
  changes: the undo of an add whose command failed takes no lock and removes
  an ACCEPT another add relied on.
* `src/README.md:45-48`, a block is in FORWARD and INPUT: when a block and an
  unblock of one client overlap, it may stay recorded with half of it gone.

`AdoptsOnlyUntracked` is about overlapping discoveries, which the rebuild lock
keeps apart from snapshot to rebuild. It does not say that adopting is always
right: a rule whose row was deleted but whose command failed is live without a
row and comes back as a hand-typed one, and an add that commits its row after
the snapshot and appends its rule before the scan can be adopted twice.

The passing runs leave these overlaps out and say so by their request sets:
`firewall_rebuild` has no adds or deletes, `firewall_access` no failing
commands, no discoveries and a property for the table, not for the window,
`firewall_serial` one worker. `SettledChains` and `LiveAccessKept` speak of
behaviours in which no worker was killed and no live rule was lost
(`Undisturbed`): what is true after those is `SyncReconciles`.
`CHECK_DEADLOCK FALSE` stands in every configuration because a
behaviour ends when its requests are used up; that no request is left hanging
is what `firewall_terminates` checks.

### Fairness

`FairSpec` assumes weak fairness of `Step(w)` for every worker: the operating
system keeps scheduling a thread that can run. Nothing is assumed of the
arrival of requests, of hand edits or of crashes. A step that waits for a lock
is not enabled while the lock is taken; as a worker that holds one keeps
running, and none takes a second one in the opposite order, weak fairness is
enough. `LockTimeout` models `lock_timeout`: it may happen whenever somebody
else holds the advisory lock.

## 4. The event stream modules

### State

`EventStream` models one of the two streams (OpenVPN events, traffic flows);
they share their code or have the same form, and touch no common table.
Journal entries are numbered, and a cursor is the number of an entry, 0 for
none.

| TLA+ | Code |
|---|---|
| `written` | the journal of the VPN server |
| `rows`, `stored` | `vpn_events` or `traffic_flows` with its UNIQUE key, and the stream's cursor table |
| `phase`, `cursor`, `batch` | locals of `_push_journal_stream`: whether it connects, starts the follower, reads, or waits for an answer |
| `acks` | answers on their way to the agent and in its `ack_queue` |
| `hub[c]` | the `handle_agent` coroutine of the c-th connection: batches received or in flight, the fate of the one a thread stores, the cursor of its hello |
| `tail`, `fetched` | the cursor file of journalctl, and what `deploy/ingest_logs.py` has fetched and not yet stored |
| `conn`, `sends`, `faults` | counters for the bounds; `sends` also stands for the batch's uuid |

### Actions

`Connect`, `HelloAck`, `StartFollower`, `ReadEntry`, `Send`, `ReceiveAck`,
`AckTimeout`, `FollowerExits` follow the agent; `ReadCursor`, `StoreBatch`,
`StoreFails`, `Answer` the hub, cut at each `await asyncio.to_thread`;
`Fetch`, `StoreFetched`, `LoseFetched` the timer's service. `Drop` ends a
connection with any suffix of its batches lost; the hub goes on with the
others and may store them after the next connection read its cursor.
`HubCrash` restarts the gateway.

`ResumableLog` is the promise: entries appended at the end, saved in any
order, and a mark that moves only over saved entries and in one step with the
batch that moves it. The mark may move back, and does: an old connection's
batch can be committed after a newer one's. `ImplementsLog` says that
`EventStream` implements it with the table as the saved entries and the
committed cursor as the mark.

### Runs

| Run | Shows | Bounds, and why they are enough |
|---|---|---|
| `stream_safe` | `TypeOK`, `ResumeIsSafe`, `ImplementsLog` | 3 connections, 3 batches, 3 entries, batches of at most 2; one late answer, one failed commit, one lost fallback read, any connection dropped or gateway restarted. Two batches with different ends and a late answer between them are the shortest way to a wrong cursor; a third connection lets an old commit land between two others |
| `stream_delivers` | `EveryEntryStored` | 3 connections, 4 entries, 9 batches, no fallback; a commit that fails, a follower that exits. 9 batches are more than any of its behaviours needs |

Both start with one entry saved and its cursor committed (`InitCursor = 1`).
Without a cursor the follower starts at the end of the journal and entries
before it are left to the fallback; no run starts that way.
`stream_delivers` allows no answer later than 30 s: a late one stays in the
queue, and every batch after it is compared with the answer to the one before,
until the connection ends. The last connection is never dropped, or nothing
could be said of delivery.

### Fairness

`FairSpec` assumes weak fairness of the agent's steps taken together (one
task, one event loop) and of each connection's coroutine on the hub. Both are
processes that systemd keeps running, and none of their steps waits for
another's scheduling. The journal need not grow, faults need not happen, the
fallback need not run.

## 5. The hub gateway modules

### State

`HubGateway` models one server id and one agent. A call stands for its request
id, a connection is its number.

| TLA+ | Code |
|---|---|
| `caller[k]` | `hub_client.call`, one Unix socket for each call |
| `route[k]`, `pending` | the `handle_flask` coroutine of the call, the dictionary of futures |
| `agent`, `job`, `told` | the agent's main task, the request its `_dispatch` runs, `previous` of the task that pushes sessions |
| `conn`, `links`, `toAgent`, `toHub` | connections, whether their transport works, messages on their way |
| `hub[c]`, `live` | the `handle_agent` coroutine of a connection, `live_agents` |
| `vpn`, `shown` | who is connected to the VPN, what the session columns of `client_status_cache` show; a number of changes stands for the set |
| `refresh` | the timer's refresh: what it read, and whether a snapshot was stored after it read the clock (the CASE on `session_updated_at`) |
| `ran`, `token`, `faults` | how often each call was run; whether the agent's token is good; bounds |

### Actions

`Call`, `StopWaiting`, `Forward`, `GatewayTimeout`, `Respond` follow a call on
the web server and in `handle_flask`; `Dial`, `ReadHelloAnswer`,
`RestartAgent`, `Dispatch`, `Reply`, `PushSessions`, `NoticeLoss` the agent;
`Register`, `RejectHello`, `Greet`, `GreetFails`, `ReadResponse`,
`ReadSnapshot`, `StoreSnapshot`, `StoreFails`, `Lost`, `Clear` one connection,
cut at each await; `StartRefresh`, `ReadStatus`, `WriteStatus` the timer. `Drop` and
`Crash` lose a connection and restart the gateway. An agent whose first
message after its hello is anything but an acknowledgement exits, also when it
is a call that was sent between the registration and the `hello_ack`. A
database error while a snapshot is stored (`StoreFails`) is caught by nobody:
the read loop is left through its `finally` block, the agent is unregistered,
its sessions are cleared, and the socket is closed with what was not read yet.

A call ends in one of three ways, as its callers see it: `"ok"` and `"notok"`
are the two shapes of a response, `"error"` is a `HubClientError`. The gateway
answers `{"ok": False}` itself when the agent is not connected, its connection
is closed or the response does not come in time (`Refuse`); the agent does when
the command failed (`Respond`).

`RemoteCall` is what a caller may rely on: a call whose response is ok was run,
none is run twice or told two things. Neither of the other two outcomes says
anything: the call may have been run, be run later, or never. `ImplementsCall`
says that `HubGateway` implements it.

`NotOkMeansRan` is the stronger promise of the docstring of `hub_client.call`:
not connected and time-out raise `HubClientError`, while an `{"ok": False}`
response "means the agent *did* run the command and it failed". The run
`hub_notok` refutes it with a call made before any agent is connected. Callers
tell the two apart: `pivpn_ctl.read_client_ovpn` turns a response that is not
ok into `FileNotFoundError`.

### Run and fairness

| Run | Shows | Bounds, and why they are enough |
|---|---|---|
| `hub_calls` | `TypeOK`, `NoFutureLeaks`, `NewestIsRegistered`, `ImplementsCall`, `EveryCallEnds`, `SessionsSettle` | two scenarios: two calls over an agent whose first hello is refused; sessions that change, with the timer. 3 connections: one lost, one lost or refused while the first is still being cleaned up, one that lasts. One drop, one restart of the gateway, one database error: before the hello is acknowledged, under a snapshot or under a clearing |
| `hub_notok` | that `NotOkMeansRan` does not hold | the same constants; two steps are enough |

`FairSpec`: the event loops of gateway and agent keep running, sockets time
out, systemd restarts the agent and keeps firing the timer. A connection may
be lost only while another is left (`Spare`), or nothing could be said of the
end. Sessions need not change, faults need not happen.

In the run a connection whose hello is still being verified is not lost
(`MaxFaults.late = 0`). With one that is, its handler may register it after
the newer connection has registered, and `NewestIsRegistered` fails: nothing
in `handle_agent` compares the two, although by the comment at
`src/hub_gateway.py:45-47` it is a later connection that replaces an earlier
one.

`OnlyRejectionStopsAgent` and `OldNeverClears` state two comments of the code
(`agent.py` on `SystemExit`, `handle_agent` on old connections). They do not
hold: the exit is described above, and a clearing that is awaited may land after
the next connection's first snapshot.

## 6. The client life cycle

### State

| TLA+ | Code |
|---|---|
| `cert`, `ip`, `issued` | PiVPN's index of certificates and the pinned addresses (ccd) |
| `rules` | the default DROP rules in `firewall_rules`: owner, source, range, the request that made it |
| `lock` | `_add_client_lock` |
| `orphans` | commands whose caller gave up and that may still run |
| `req`, `outcome` | where each request is, what it reported of each name |
| `view` | a run of `ingest_client_status` under way |
| `cached`, `above` | `client_status_cache`: the listed certificate, and for each row those with a later `expiration_changed_at` |
| `does`, `alone` | the requests of the scenario; whether one administrator waits for each answer |

### Actions

`ReadOwnAddress` and `Revoke` are `_revoke_client`; `TakeLock`,
`CheckAbsent`, `Issue`, `Confirm`, `ReadNewAddress`, `AddRule`, `RuleFails`
are `add_client`, inside its lock; `CollectRules`, `DeleteRule`,
`RemovalDone` are `remove_client_rules`; `RunOrphan` carries out a command
whose caller is gone. A look for the `.ovpn` file that is answered not ok, by
the gateway or by the agent, counts as a file that is not there
(`pivpn_ctl.py:176-177`): a creation goes on to `pivpn add`, which refuses a
name that exists, and the look after it reports the file as missing. `Aborts`
is an error that nobody catches while rules are added, listed or deleted (the
routes catch `PivpnError` only): the client is created or revoked, the rules
and names that are left are dropped, an API request does not refresh the list,
and the lock is released all the same. A request over several names (import, bulk removal)
takes them one after the other. `ReadList`, `ListFails`, `WriteCache` are a
refresh, by the timer or at the end of an API request. Serial numbers of
certificates are the truth the cached list is compared with; `Expiration`
maps those issued in the run to one day, so that a renewal on the day of an
earlier one leaves the text as it was.

### Run and fairness

| Run | Shows | Bounds, and why they are enough |
|---|---|---|
| `clients` | `TypeOK`, `AddsDecideOnce`, `DefaultBlockKept`, `UntouchedStayListed`, `RemovalCleans`, `AnsweredOnTop`, `CacheSettles`, `RequestsEnd` | five scenarios of two or three requests over two names, two addresses and two ranges, one fault: a removal whose address is reused and a renewal that may move, a day of renewals, a double click, an import during a removal, a bulk removal through the page during a renewal |

`FairSpec`: a request that was accepted runs to its end and waits for the lock
no longer than its holder, which nothing else can hold up; systemd fires the
timer. PiVPN pins an address to one client at a time, and a scenario starts
from such a state; a request that names nobody is refused before anything
happens and is left out, and only an import and a removal may name several.
`DefaultBlockKept` and `AnsweredOnTop` are for one administrator at a
time, `AddsDecideOnce` as long as no call fails. `CacheSettles` leaves out the
case that no client is left: an empty answer is not believed, so the last
client stays listed when it was removed through a page, which refreshes
nothing.

`RenewalKeepsPolicy` (the comment in `renew_client`) and
`RemovalSparesOthers` do not hold and are in no run; `MoveScenario` and
`ReuseScenario` of `MCClientLifecycle` show it. A renewed client may get
another address, which the old rules do not match; rules are also collected by
the address of the removed client, which a new client may have by then.

## 7. Sessions and the overview page

### State

`Sessions` keeps the `users` table (`accounts`: role, `session_generation`,
password), what each browser holds (`jar`: the cookie, the bearer token, the
lock cookie), where each request is with what it sent and what its answer sets
(`req`), the recent login failures (`fails`), the request inside
`locked_transaction` (`txn`), and, for the property only, the accounts last
signed out (`ended`). `OverviewStream` extends it with the version of the
dashboard's tables (`data`), the listener's connection and the notifications
on it (`link`, `wire`), the stream of each browser (`stream`: its claims and
its queue) and its page (`page`: what it shows, its timers, its load).

### Actions

A request is `Send` (the browser's cookies are taken), `Begin` (the user is
loaded, guards), then one step for each statement on the database (`Verify`,
`Bump`, `Guard`, `Erase`, `Insert`, `ChangePassword`, `Serve`, `Plain`), and
`Deliver` (the answer's cookies are stored), so that answers overtake one
another. Every answer of a signed-in user passes the hook that signs the
cookie again (`Refreshed`), with the generation loaded at the start. `Lapse`
drops a token that ran out.

`Commit` and `Sign` notify, `Notify`, `Break`, `NoticeBreak`, `Relisten` are
the broker's listener, `Authenticate`, `Subscribe`, `Greet`, `Take`, `Drain`,
`Cut` a stream. A full queue becomes the strongest of what it held
(`Overflowed`). `Remint`, `Load`, `Flush`, `Fallback`, `ClickRefresh`, `Read`,
`Show`, `LoadFails`, `Retry`, `Hide`, `Reveal`, `Arrive` are the page's
script.

### Runs and fairness

| Run | Shows | Bounds, and why they are enough |
|---|---|---|
| `sessions` | `TypeOK`, `OneSessionPerAccount`, `LogoutIsFinal`, `AtLeastOneAdmin`, `StaleStreamWarned`, `ViewerCatchesUp` | eight scenarios over three accounts, three browsers and up to four requests: sign-outs, three sign-ins of one account, idle locks, administrators who delete each other, accounts re-created, and an overview page whose account signs in elsewhere, whose tables change twice with one fault, whose token runs out. The queue holds 2, the throttle 1, so that both limits are met |
| `sessions_resume` | `OneSessionPerAccount` violated | a browser is locked, the account signs in from another, the first resumes: `src/app/db.py:186-187` says a fresh login ends every older session |

In the passing run no account signs in elsewhere while it is locked in a
browser; that is the other run's question. Nor does anybody sign in to a name
that is deleted and added again: `insert_user` starts its generation at 0, so
a token of the old account would count again once the new one had signed in
as often. `FairSpec`: the server's tasks run,
a broken listener is noticed and reconnects, the page's timers fire and its
requests are answered; nobody has to click, sign in or show a page, and faults
are finitely many.

## 8. The session history

`VpnLog` has two halves. A server with its open and ended connections
(`peers`, `past`) writes the log (`log`, the rows of `vpn_events`; `lines`
and `changes`, the times of the system log's lines and of its clock changes):
`Connect`, which replaces a client's connection without a line,
`Disconnect`, `LogLate` (the end of a replaced connection after all),
`Restart`, `Tick`, `WakeUp` (the clock jumps). This half is external and
follows what `vpnlog.py` says it met. The other half is the code:
`_build_sessions` as a fold of `GapSeen`, `RestartSeen`, `Connected` and
`Disconnected` over the merged events, `Sure` for clock changes, and the sweep
of `peak_concurrency_by_bucket` (`Peak`). `TruePeak` is the reference the
chart is compared with; `lossless` says when it must be equal.

| Run | Shows | Bounds, and why they are enough |
|---|---|---|
| `vpn_log` | `EveryConnectionOnce`, `DurationsAreTrue`, `ChartIsHonest` | two clients, two addresses, 4 lines, 5 seconds, gaps of 2, buckets of 2: three lines make a late end of a replaced connection, a fourth lets it meet a restart or a gap; times lie inside, at the edges of and across the buckets |

The server's clock only moves on, it does not restart twice in a second, and a
port is not used twice in one: rows are unique per second, so such lines share
one. A small correction of the clock after five quiet minutes splits every
open session; in the model that is one of the jumps of `WakeUp`.

## 9. Proofs

### Firewall

`FirewallProofs` proves, for every set of workers, clients, addresses,
requests, initial tables and bounds:

* `TypeCorrect`: `Spec => []TypeOK`;
* `OneBlockRowPerClient`: `Spec => []AtMostOneBlockRow`.

The only assumptions are those of the modules: `None` is none of the clients,
addresses or workers; requests have the form the routes give them; an
initial table holds at most one block row per client, as every table written
by the code does.

Both follow from one inductive invariant, `Inv`. `AtMostOneBlockRow` alone is
not inductive: the step that inserts a block row looks at a snapshot, not at
the table. `Inv` adds

* `PlaceOK`: what a handler may rely on at each place, such as that a chain
  is left to rebuild, or that a found rule is not a client block;
* whoever is at a place inside a transaction holds the advisory lock;
* `Covers`: a snapshot taken under that lock stays good for block rows.
  Without the lock, rows are only deleted or rows of other kinds inserted
  (`TableStep`), so a block row that is in the table is in the snapshot.

`InitInv` and one lemma per action group give `Init => Inv` and
`Inv /\ [Next]_vars => Inv'`; `StepInv` deals with what a step of one
worker means for the others once and for all. The lemmas at the start of the
module say what the table, position and chain operators return. `Sorted` and `Selected` are spelled
out in `FirewallRules` with cardinalities because the library's SelectSeq
and SortSeq are recursive or chosen with an operator parameter, and a prover
cannot open them.

`FirewallAccessProofs` proves three more, under hypotheses on the requests:

* `EditorStaysIn`: for an administrator `a` whom the initial tables let in and
  who alone edits INPUT rules (`OnlyEditor`), `Spec => []` the enabled INPUT
  rules let `a` in; `RequesterNeverShutOut` is `Spec => []AccessKept`, where he
  is the only requester the property is about.
* `UnblockedClientsAreClear`: `Spec => []UnblockedIsClear`.
* `ReordersLand`: `Spec => ReorderLandsNextToTarget`, under `OrderByRequest`
  and `Roomy(room)`.

The self-lockout guard checks a snapshot and commits a change of the table.
`AccessInv` says why such checks compose: while a request is inside
`locked_transaction`, its snapshot shows every INPUT rule of the table as it
is, so the verdict it computed is the one the commit has. Three things are
excluded by `OnlyEditor(a)`, since none of them asks the guard (section 3):
changes requested from elsewhere (whose guard looks after another address),
discoveries (a hand-typed rule is recorded as it is) and commands that fail
(the row of an add is taken back without a check).

An unblock deletes the two live halves first and then the row. `ClearInv`
follows those halves: `OneTrace`, at most one trace of a client's block in a
chain, live or about to be inserted, and none without a row; `NamesNoBlock` and `Orderly`, other requests insert
nothing that blocks a client; `ClearsBehind`, an unblock has cleared the chains
it has no command left for. `BlocksByRequest` leaves out failing commands,
synchronisations (which may insert a block from a table read before the
unblock), blocks typed by hand, and a toggle, disable or delete of a row that
is a block or was not there at the start.

`reorder_rule` gives the moved rule the midpoint between its target and the
target's neighbour, computed from a snapshot. That lands between them only if
the snapshot still shows the order of the table and the two are not yet next to
each other in the numbers. `OrderInv` says both. Every position is given under
the advisory lock, to a rule at the end or to the one that is moved, so a
decision agrees with the table on every row that has a place in the order
(`Agree`; a block has none: it is inserted without the lock, but shares no
chain). And rules that share a chain stay at least `room[Left]` apart, where
`Left` counts the reorders that may still come: requests not yet received and
requests received but undecided. A reorder halves one distance and lowers
`Left`, so `Roomy` asks that `room` at least doubles from each number to the
next and that the initial rows are `room[MaxRequests]` apart. Any bound on
the requests has such a `Unit`: 2 to the power of `MaxRequests`. The code's
positions are doubles, which halve the initial distance of 1.0 about fifty
times between the same two rules. `OrderByRequest` leaves out what gives a
position without the lock, a discovery and an add of a rule that is not an INPUT
rule, and the failing command of an add, which takes a row out again. The run
`firewall_rebuild` checks the property with discoveries among the requests.

`FirewallRebuildProofs` is about the table against the live chains:

* `RebuildsExclude`: at most one worker at a time is between taking and giving
  back the lock of `_rebuild_chain_lock`; no hypotheses;
* `NeverLiveTwice`: `Spec => []OneLiveCopy`, under `NoAdds`;
* `AdoptsNoRowTwice`: `Spec => AdoptsOnlyUntracked`, under `NoAdds` or `Alone`
  (an add that appends its rule between a discovery's snapshot and scan is the
  exception);
* `HandTypedKept`: `Spec => []ManualRulesConserved`, under `NothingDeleted` and
  `PlainStart`.

`NoAdds` leaves out adds, since the append of an add takes no rebuild lock: the
overlap of section 3 makes a rule live twice. `Alone` is one worker. Everything
else stays in: commands that fail, flushes, hand edits, kills at any step.
`LockInv` ties the places of a rebuild to `flock` and says what the commands of
each place are; with adds left out, nothing but the lock's holder puts a
tagged rule into a chain. `SingleInv` says that an id is at most once in a
chain, and follows a rebuild: the deletes still to come take away every tagged
rule of the chain (`Clean`), the inserts still to come name different ids, none
of them there. `TagInv` follows a discovery: a rule found without a row had an
id that was given out before, and no id is given out twice, so that a row that
comes after the snapshot never takes it.

`ManualRulesConserved` counts: the hand-typed rules still live and the rows made
from one are together as many as were typed, and one more while a discovery is
between the insert of a row and the delete of its original. The count alone is
not inductive, as a command that deletes a hand-typed rule would break it.
`HandInv` adds why there is none but the delete of an adoption: the commands of
a handler name tagged rules or blocks (`Hands`); a tag in a chain is that of a
row whose original is settled (`Unclaimed`), so no rebuild can take the one
for the other; what a discovery scans carries no tag, and the row it may
take back, because its delete failed, is the one it just inserted, which no
initial table has (`HandsOff`). By the rebuild lock one adoption at most is under
way (lemma `ClaimingStep`). Then each step moves the count by what it
executes: the lemmas on `Typed` add it up over the chains. A worker killed between insert and delete leaves
a rule in both places for good, which is why the property allows one more per
kill. `NothingDeleted` leaves out requests that add or delete a row, and
rules deleted or flushed by hand; what these take away is not to be conserved, or not
told apart from it. `PlainStart` fixes which rows are there at the start, so that
the others are the adopted ones, and has no block typed by hand. Commands may
fail, and workers be killed, at any step.

`FirewallSettledProofs` is about what is left when all of it is over:

* `SettlesAll`: `Spec => []SettledChains`, under `OnlyRebuilds` and
  `NothingLost`;
* `AdminStaysReachable`: `Spec => []LiveAccessKept`, under these and
  `OnlyAdmin(a)`, for the one requester `a`;
* `SyncPutsRight`: `CalmSpec => SyncReconciles`, under `Alone` and
  `~IptablesFails`.

While requests run, chains are far from settled: a rebuild deletes and appends
one rule at a time, and the commit of a reorder or of an adoption is ahead of
the chains. `SettleInv` says of each chain that a worker still owes it a
rebuild from the start (`Owes`), or is filling it and its commands are just
what it lacks (`Filling`, `Fits`), or that it is right. Owing is handed on: a
reorder that commits owes the chains of its row, an adoption that ends owes the
chain it touched until the discovery's own rebuild. What `Fits` needs is
`GenuineInv`: a tagged rule shows an enabled row of its chain with the rule the
row has, which holds although a rebuild reads the table in one transaction and
appends what it read in later steps. The exception is a row whose adoption is under way:
it is `Claimed`, not yet `Standing`, as its hand-typed original is still live.
At the end, two lists of the same rows in the same order are one
(`ListsOnce`), by counting the rows before each place.

`OnlyRebuilds` leaves requests that reorder, synchronise, discover, block and
unblock. An add, a delete and a toggle or disable that switches a rule off change
a chain under no rebuild lock, next to a rebuild that may have read the table
already (section 3). `NothingLost`
leaves out what the code does not repair by itself: a command that fails midway,
a killed worker, a rule deleted by hand. Hand-typed rules stay in, at any
step, and so does any number of workers and requests.

The second theorem takes the self-lockout check from the table to the kernel:
the live INPUT chain is settled, so its first tagged match is the row that the
check looked at. What could come before it carries no tag: the inserted
blocks and what is typed by hand. `SpareInv` says that nothing untagged in
the INPUT chain matches `a`, nor any block of the table, of a snapshot taken
under the advisory lock, or among the commands a handler is about to run.
`OnlyAdmin(a)` says what this needs: reorders and blocks are requested from `a`
himself (a block of the requester's own client is refused, one requested from
elsewhere is not), there is no discovery, no initial block matches `a`,
and nothing typed into INPUT does. A request from `a` to block his own
client is among those the theorem covers: that it is declined is a step of
the proof.

The third theorem is about what the second hypothesis leaves out. A killed
worker, a flush or a reboot leaves chains that miss rules, hold some twice or
show rows that are gone, and `sync_all` is what mends them. So `SyncInv`
assumes nothing of the chains when a synchronisation starts, and says what it
has done so far. The first loop deletes and inserts each block's two halves:
of every half the inserts to come are the last word (`WillHold`), and a delete
that fails, because its half was not there, gives up deletes only
(`SkipsDeletes`). Then every chain that a row needs is on the list or right
already (`Fitting`); a strip's deletes are the tagged entries of its chain, in
order and with their repetitions (`Stripping`), so each finds what it deletes
and nothing tagged is left for the fill to follow. `Alone`, a server with one
worker, is what the property says: a request beside the synchronisation may
change the table after its chain was filled. `CalmSpec` has rules lost by hand
only while nothing is in flight; those typed by hand come at any step.
A leftover rule in a chain that no enabled rule needs stays: `sync_all` does
not rebuild it, and the property does not speak of it.

### Event streams

`EventStreamProofs` proves, for every journal length, batch size, number of
connections, batches, faults and fallback reads, and for every `Keyed`:

* `ResumeSafe`: `Spec => []ResumeIsSafe`;
* `StreamImplementsLog`: `Spec => ImplementsLog`;
* `StreamTypeCorrect`: `Spec => []TypeOK`.

Each assumes `InitCursor # 0`, a stream that has a cursor to resume from, next
to the modules' assumptions that the bounds are natural numbers. All three
follow from the inductive invariant `Inv` (theorem `InFlightSafe`).
`ResumeIsSafe` is not inductive: the cursor a step commits or remembers comes
from a batch or an acknowledgement in flight. `Inv` says of each of them,
wherever it is, what makes it safe: everything before a batch's first entry is
saved (`GoodBatch`), everything up to the last entry of a batch with a positive
acknowledgement is (`GoodAck`, and `GoodConnection` for one not yet sent).
Saved entries stay saved (`GoodGrows`), so it does not matter how late a batch
is stored or in which order. The refinement needs exactly the first of these
facts, when a batch is stored.

### Hub gateway

`HubGatewayProofs` proves, for any number of calls, connections, faults and
changes of the sessions:

* `FuturesNeverLeak`: `Spec => []NoFutureLeaks`;
* `HubImplementsCall`: `Spec => ImplementsCall`;
* `HubTypeCorrect`: `Spec => []TypeOK`;
* `NewestStaysRegistered`: `Spec => []NewestIsRegistered`, if
  `MaxFaults.late = 0` (section 5).

They follow from one inductive invariant (theorem `Inductive`). Its heart is
where a call can be: until it is forwarded it is in no inbox and was not run;
an inbox holds it at most once, and only while it was not run. Without that,
that no call is run twice is not inductive. A response in flight, and one that
a future holds, are of a call that was run, which is what the refinement
needs. An agent that reads requests has taken the answer to its hello out of
the inbox. The last theorem adds `NewestVerifies`: a hello is verified on the
newest connection only.

### The client life cycle

`ClientLifecycleProofs` proves, for any clients, addresses, ranges, scenarios
and number of faults:

* `CreationsDecideOnce`: `Spec => []AddsDecideOnce`;
* `DefaultBlocksStay`: `Spec => []DefaultBlockKept`;
* `RemovalsClean`: `Spec => RemovalCleans`;
* `UntouchedAlwaysListed`: `Spec => []UntouchedStayListed`;
* `TypesAndOrder`: `Spec => []TypeOK`, the types of all variables and the order
  of the list;
* `AnswersOnTop`: `Spec => AnsweredOnTop`, if `MaxFaults <= 1`.

All rest on `Base`: every variable keeps its shape, a request is at a step of
its own operation, the one inside the creation lock holds it, an address
belongs to one client, and commands left behind name a client of the request
that gave them up. `CreateInv` adds that, while no call has failed, the name a
creation is about to issue is free, since only a holder of `_add_client_lock`
issues. `ListInv` carries a client nobody names through `view`, the answer of a
`pivpn list` that is about to be written. `CleanInv`: a removal at its deletions
has every rule of its client on its list, unless somebody is at work on the
name. `BlockInv`, for one administrator at a time: the rules of a client that is
neither removed nor renewed are written for the address it has (`RulesFollow`),
and no removal has read that address, or put one of those rules on its list
(`Informed`).

The order of the list is a relation that each refresh rewrites: the rows it
stamps go above the others by the serial numbers of its answer, the others stay
as they are to each other. That this is one order again (`OrderInv`) needs the
serial numbers of every answer under way to differ, and every row that is not
stamped to have been in the list, which is why a new row must be stamped.

`AnsweredOnTop` compares the row with the certificate at the end of a refresh,
while `pivpn list` was read earlier and a command given up may run in between.
`TopInv` says that it can only take the certificate away: a creation or renewal
that reported success has seen the certificate, and once that is gone again the
only call that could fail has failed and its command was carried out (`Spent`).
The hypothesis on `MaxFaults` is needed. With two calls that fail, a revocation
and a creation of the same name may both be left behind and run one after the
other between the read and the write; the list then shows the certificate
before, until the timer's next refresh. `SingleInv` is why the name that
`replace_client_status_cache` is told was touched is the one that succeeded.

### Sign-in and overview streams

`OverviewStreamProofs` proves, for any accounts, browsers, requests, queue
size of at least 2, throttle limit and number of faults:

* `OverviewTypeCorrect`: `Spec => []TypeOK`;
* `AdminRemains`: `Spec => []AtLeastOneAdmin`;
* `StaleStreamsHear`: `Spec => []StaleStreamWarned`.

The first rests on `SignInv`: a request about to delete an account is the one
inside `locked_transaction`, and some other account is an administrator at
that time; while it is there only additions touch the roles. The second adds
`StreamInv`: a subscribed stream whose listener is disconnected has an event
in its queue or batch that closes it, so that a change nobody hears then finds
every stream on its way out; and an overflowing queue keeps such an event
(lemma `QueuedKeeps`). It uses that a batch being gathered is empty unless the
server naps. Assumed is what the modules assume: a scenario begins with an
administrator, and sessions of accounts that exist.

Of the sign-ins, the same module proves:

* `SignOutEndsAll`: `Spec => []LogoutIsFinal`, under `NamesNotReused`;
* `OneBrowserPerAccount`: `Spec => []OneSessionPerAccount`, under
  `NamesNotReused` and `OnePlaceEach`.

Neither is inductive: a cookie may still be on its way, in the answer to a
request that was begun before the sign-out. `Wallet(b)` is all that could put a
token into browser `b`: its jar, what its requests took along, what their
answers set, what a request between its check and its commit is about to
issue. `TokenInv` says of every token in a wallet that it is of no later
generation than its account, and of an earlier one if the account was signed
out since; a token is used under a lock only by the request that resumes it.
`Alone` adds that the wallets of two browsers never hold tokens of one
account's current generation. The hypotheses are those of section 7:
`NamesNotReused`, a name that is deleted and added again is one nobody signs
in with; `OnePlaceEach`, no account starts signed in at two places, and a
browser that locks shares its account with no other. Every scenario of the run
`sessions` satisfies both, and `sessions_resume` shows what happens without the
second.

### Only model-checked

* The session history: `_build_sessions` is a fold over the log, and what a
  fold returns for every log needs an induction over data.
* Liveness, and fairness with it: `ENABLED` is outside what the prover does.

## 10. Not modelled

Of the firewall: `save_persistent`, the generated client scripts, the listing
of interfaces and addresses (I/O without a decision that a property depends
on); the rule import calls the add functions line by line and adds no step of
its own. Of the event streams: how a line becomes a row, the system log (it
has the fallback's half only), and the pruning of rows older than a week, which
does remove saved entries. HTML, CSS, templates, wording of messages.

Of the sessions: signatures, cookie attributes, the audit log. Of the hub
gateway: what an action does on the VPN server, certificates, durations
(`hub_client.call` keeps its `timeout` to itself, so that both other ends
always wait 15 s). Of the session history: search and pagination, the
look-up of relayed addresses. Of the browser: every page but the overview.

The routes helper filters a file into a copy and back without a lock: nothing
in it could keep two changes apart, so there is no property to check. The
organisation cache has one row per address, with the same external answer
whoever writes it. The server registry is an operator at a terminal.

## 11. How to run

    tlc -workers 2 -config FirewallAccess.cfg MCFirewall
    tlapm FirewallProofs.tla
    tlapm FirewallAccessProofs.tla
    tlapm FirewallRebuildProofs.tla
    tlapm FirewallSettledProofs.tla
    tlc -workers 2 -config StreamSafe.cfg MCEventStream
    tlapm EventStreamProofs.tla
    tlc -workers 2 -config HubCalls.cfg MCHubGateway
    tlapm HubGatewayProofs.tla
    tlc -workers 2 -config Clients.cfg MCClientLifecycle
    tlapm ClientLifecycleProofs.tla
    tlc -workers 2 -config Sessions.cfg MCOverviewStream
    tlapm OverviewStreamProofs.tla
    tlc -workers 2 -config VpnLog.cfg MCVpnLog
