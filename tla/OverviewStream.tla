--------------------------- MODULE OverviewStream ---------------------------
(***************************************************************************)
(* The overview page and what keeps it up to date: triggers that NOTIFY    *)
(* on commit (app/overview_notify.py), the one listener and the bounded    *)
(* queue per viewer of the stream server (overview_stream.py), and the     *)
(* page, which reloads what a frame says has changed                       *)
(* (static/js/overview-stream.js, overview-page.js, api-client.js).        *)
(*                                                                         *)
(* It extends Sessions: a stream is opened with a bearer token, and every  *)
(* change of the users table is notified so that each stream closes and    *)
(* must show its token again.  The dashboard's tables are one version      *)
(* number, the topics that only other pages or administrators read are     *)
(* left out, and a probe of the health loop is the one queued at opening.  *)
(***************************************************************************)
EXTENDS Sessions, Sequences, SequencesExt

CONSTANTS
    MaxQueue    \* asyncio.Queue(maxsize)

ASSUME OverviewStreamAssumption ==
    /\ MaxQueue \in Nat \ {0, 1}
    /\ \A s \in Scenarios : s.viewers \subseteq Browsers /\ s.commits \in Nat /\ s.faults \in Nat

VARIABLES
    data,     \* version of the tables the dashboard shows
    link,     \* the listener's connection: "up", "broken" unnoticed, "down"
    wire,     \* notifications on their way to the listener
    stream,   \* per browser: [step, claims, fresh, queue, topics]
    page,     \* per browser: what it shows, its timers and its load
    commits,  \* how often the tables still change in this run
    faults    \* how many connections and loads still fail

overview == <<data, link, wire, stream, page, commits, faults>>
vars == <<sends, sessions, overview>>

Topics == {"snapshot", "auth", "offline", "resync", "health"}
Closed == [step |-> "off", claims |-> None, fresh |-> FALSE, queue |-> <<>>, topics |-> {}]
NewPage == [at |-> "overview", visible |-> TRUE, loaded |-> FALSE, shown |-> 0, seen |-> 0,
            dirty |-> FALSE, timer |-> FALSE, retry |-> FALSE,
            load |-> "none", silent |-> FALSE, told |-> FALSE]
Fault == faults > 0 /\ faults' = faults - 1
Subscribed(b) == stream[b].step \in {"greet", "open", "nap"}

(* Mutations, each in place of the definition it is named for.             *)
MutForgetsAuth(q)  == <<"resync">>                \* Overflowed: every full queue alike
MutOnlyFirst(p)    == IF p.loaded THEN p ELSE [p EXCEPT !.loaded = TRUE, !.load = "asked"]  \* Greeted

-----------------------------------------------------------------------------
(* publish: a full queue is replaced by the strongest of what it held.     *)
Overflowed(q) ==
    << IF "auth" \in ToSet(q) THEN "auth" ELSE IF "offline" \in ToSet(q) THEN "offline" ELSE "resync" >>

Queued(q, topic) == IF Len(q) >= MaxQueue THEN Append(Overflowed(q), topic) ELSE Append(q, topic)

Published(topic) ==
    [b \in Browsers |-> IF Subscribed(b) THEN [stream[b] EXCEPT !.queue = Queued(@, topic)] ELSE stream[b]]

Init ==
    /\ SessionsInit
    /\ \E s \in Scenarios :
          /\ sends = s.sends
          /\ commits = s.commits
          /\ faults = s.faults
          /\ lapses = s.lapses
          /\ page = [b \in Browsers |-> IF b \in s.viewers THEN NewPage ELSE [NewPage EXCEPT !.at = "none"]]
    /\ data = 1
    /\ link = "up"
    /\ wire = {}
    /\ stream = [b \in Browsers |-> Closed]

(* The triggers: a commit notifies, if the listener is there to hear it.   *)
Announced(topic) == IF link = "up" THEN wire \cup {topic} ELSE wire

Commit ==
    /\ commits > 0
    /\ commits' = commits - 1
    /\ data' = data + 1
    /\ wire' = Announced("snapshot")
    /\ UNCHANGED <<sends, sessions, link, stream, page, faults>>

(* A step of Sessions; every change of a users row is notified.            *)
Sign ==
    /\ SessionStep
    /\ wire' = IF accounts' # accounts THEN Announced("auth") ELSE wire
    /\ UNCHANGED <<data, link, stream, page, commits, faults>>

(* listen: a notification is published to every queue; a broken connection *)
(* is noticed and announced, and a new one covers what was missed.         *)
Notify ==
    \E topic \in wire :
       /\ wire' = wire \ {topic}
       /\ stream' = Published(topic)
       /\ UNCHANGED <<sends, sessions, data, link, page, commits, faults>>

Break ==
    /\ Fault
    /\ link = "up"
    /\ link' = "broken"
    /\ wire' = {}
    /\ UNCHANGED <<sends, sessions, data, stream, page, commits>>

NoticeBreak ==
    /\ link = "broken"
    /\ link' = "down"
    /\ stream' = Published("offline")
    /\ UNCHANGED <<sends, sessions, data, wire, page, commits, faults>>

Relisten ==
    /\ link = "down"
    /\ link' = "up"
    /\ stream' = Published("resync")
    /\ UNCHANGED <<sends, sessions, data, wire, page, commits, faults>>

-----------------------------------------------------------------------------
(* ApiClient.call: a bearer token that no longer counts is minted anew     *)
(* from the cookie, and without a cookie the page goes to /login.          *)
Watching(b) == page[b].at = "overview" /\ page[b].visible
Calls(b) == 
    /\ page[b].at = "overview"
    /\ page[b].load = "asked" \/ (page[b].visible /\ stream[b].step = "off")

Remint(b) ==
    /\ Calls(b)
    /\ ~ Usable(jar[b].bearer)
    /\ IF Usable(jar[b].cookie)
       THEN /\ jar' = [jar EXCEPT ![b].bearer = Signs(jar[b].cookie.user)]
            /\ UNCHANGED <<stream, page>>
       ELSE /\ jar' = [jar EXCEPT ![b].bearer = None]
            /\ page' = [page EXCEPT ![b] = [NewPage EXCEPT !.at = "login"]]
            /\ stream' = [stream EXCEPT ![b] = Closed]
    /\ UNCHANGED <<sends, accounts, req, fails, txn, ended, lapses, data, link, wire, commits, faults>>

(* events: the token is checked in a thread, then the viewer is subscribed *)
(* if the listener is up, greeted, and given the last health probe.        *)
Authenticate(b) ==
    /\ Watching(b)
    /\ stream[b].step = "off"
    /\ Usable(jar[b].bearer)
    /\ stream' = [stream EXCEPT ![b] = [Closed EXCEPT !.step = "checked", !.claims = jar[b].bearer]]
    /\ UNCHANGED <<sends, sessions, data, link, wire, page, commits, faults>>

Subscribe(b) ==
    /\ stream[b].step = "checked"
    /\ stream' = [stream EXCEPT ![b] = IF link = "down" THEN Closed
                                       ELSE [stream[b] EXCEPT !.step = "greet", !.fresh = Usable(stream[b].claims)]]
    /\ UNCHANGED <<sends, sessions, data, link, wire, page, commits, faults>>

(* invalidate: what a frame says has changed is reloaded after a while.    *)
Invalid(p) == [p EXCEPT !.dirty = TRUE, !.timer = p.visible]

(* The first greeting loads the page, a later one reloads it.              *)
Greeted(p) == IF p.loaded THEN Invalid(p)
              ELSE [p EXCEPT !.loaded = TRUE, !.load = "asked", !.silent = FALSE]

Greet(b) ==
    /\ stream[b].step = "greet"
    /\ page' = [page EXCEPT ![b] = Greeted(@)]
    /\ stream' = [stream EXCEPT ![b] = IF Len(@.queue) >= MaxQueue THEN Closed
                                       ELSE [@ EXCEPT !.step = "open",
                                                      !.queue = Append(stream[b].queue, "health")]]
    /\ UNCHANGED <<sends, sessions, data, link, wire, commits, faults>>

(* A topic is taken, half a second gathers what follows it, and the batch  *)
(* closes the stream or tells the page what changed.                       *)
Take(b) ==
    /\ stream[b].step = "open"
    /\ stream[b].queue # <<>>
    /\ stream' = [stream EXCEPT ![b] = [@ EXCEPT !.step = "nap", !.topics = {Head(stream[b].queue)},
                                                  !.queue = Tail(stream[b].queue)]]
    /\ UNCHANGED <<sends, sessions, data, link, wire, page, commits, faults>>

Drain(b) ==
    LET topics == stream[b].topics \cup ToSet(stream[b].queue) IN
    /\ stream[b].step = "nap"
    /\ IF topics \cap {"auth", "offline"} # {}
       THEN stream' = [stream EXCEPT ![b] = Closed] /\ UNCHANGED page
       ELSE /\ stream' = [stream EXCEPT ![b].step = "open", ![b].queue = <<>>, ![b].topics = {}]
            /\ page' = IF topics \cap {"snapshot", "resync"} = {} THEN page
                       ELSE [page EXCEPT ![b] = Invalid(@)]
    /\ UNCHANGED <<sends, sessions, data, link, wire, commits, faults>>

(* The connection drops, the token runs out, the watchdog gives up.        *)
Cut(b) ==
    /\ Fault
    /\ stream[b].step # "off"
    /\ stream' = [stream EXCEPT ![b] = Closed]
    /\ UNCHANGED <<sends, sessions, data, link, wire, page, commits>>

-----------------------------------------------------------------------------
(* The page: one load at a time, half a second after the change that asks  *)
(* for it; a change during a load waits for its end.  A load the page      *)
(* started by itself is tried again when it fails; the first, and one the  *)
(* viewer asked for, only say so.  A hidden page stops its stream.         *)
Load(p, silent) == [p EXCEPT !.load = "asked", !.silent = silent, !.loaded = TRUE]
Changes(b, p) ==
    /\ page[b].at = "overview"
    /\ page' = [page EXCEPT ![b] = p]
    /\ UNCHANGED <<sends, sessions, data, link, wire, stream, commits>>

Flush(b) ==
    /\ page[b].dirty /\ page[b].timer /\ page[b].load = "none"
    /\ Changes(b, [Load(page[b], TRUE) EXCEPT !.dirty = FALSE, !.timer = FALSE])
    /\ UNCHANGED faults

Fallback(b) ==
    /\ ~ page[b].loaded
    /\ Changes(b, Load(page[b], FALSE))
    /\ UNCHANGED faults

ClickRefresh(b) ==
    /\ page[b].told /\ page[b].load = "none"
    /\ Changes(b, Load(page[b], FALSE))
    /\ UNCHANGED faults

Read(b) ==
    /\ page[b].load = "asked"
    /\ Usable(jar[b].bearer)
    /\ Changes(b, [page[b] EXCEPT !.load = "read", !.seen = data])
    /\ UNCHANGED faults

Show(b) ==
    /\ page[b].load = "read"
    /\ Changes(b, [page[b] EXCEPT !.load = "none", !.shown = page[b].seen, !.told = FALSE, !.retry = FALSE])
    /\ UNCHANGED faults

LoadFails(b) ==
    /\ Fault
    /\ page[b].load # "none"
    /\ Changes(b, [page[b] EXCEPT !.load = "none", !.told = @ \/ ~ page[b].silent,
                                  !.retry = @ \/ page[b].silent])

Retry(b) ==
    /\ page[b].retry
    /\ Changes(b, [Invalid(page[b]) EXCEPT !.retry = FALSE])
    /\ UNCHANGED faults

Hide(b) ==
    /\ Watching(b)
    /\ page' = [page EXCEPT ![b].visible = FALSE, ![b].timer = FALSE]
    /\ stream' = [stream EXCEPT ![b] = Closed]
    /\ UNCHANGED <<sends, sessions, data, link, wire, commits, faults>>

Reveal(b) ==
    /\ ~ page[b].visible
    /\ Changes(b, [page[b] EXCEPT !.visible = TRUE])
    /\ UNCHANGED faults

(* Whoever is signed in again finds the overview after /login.             *)
Arrive(b) ==
    /\ page[b].at = "login"
    /\ Usable(jar[b].cookie)
    /\ page' = [page EXCEPT ![b] = NewPage]
    /\ UNCHANGED <<sends, sessions, data, link, wire, stream, commits, faults>>

ServerStep(b) == Authenticate(b) \/ Subscribe(b) \/ Greet(b) \/ Take(b) \/ Drain(b)
PageStep(b) == Remint(b) \/ Flush(b) \/ Fallback(b) \/ Read(b) \/ Show(b) \/ Retry(b) \/ Arrive(b)

Next ==
    \/ Commit \/ Sign \/ Notify \/ Break \/ NoticeBreak \/ Relisten
    \/ \E b \in Browsers :
          \/ ServerStep(b) \/ PageStep(b) \/ Cut(b) \/ ClickRefresh(b) \/ LoadFails(b)
          \/ Hide(b) \/ Reveal(b)

Spec == Init /\ [][Next]_vars

(* The server's tasks run, the listener is told of its connection in the   *)
(* end and reconnects, the page's timers fire and its requests are         *)
(* answered.  Nobody has to click, sign in, hide or show a page.           *)
FairSpec ==
    /\ Spec
    /\ WF_vars(Notify) /\ WF_vars(NoticeBreak) /\ WF_vars(Relisten)
    /\ \A b \in Browsers : WF_vars(ServerStep(b)) /\ WF_vars(Remint(b)) /\ WF_vars(Flush(b))
       /\ WF_vars(Fallback(b)) /\ WF_vars(Read(b)) /\ WF_vars(Show(b)) /\ WF_vars(Retry(b))

-----------------------------------------------------------------------------
TypeOK ==
    /\ SessionsTypeOK
    /\ data \in Nat
    /\ link \in {"up", "broken", "down"}
    /\ wire \subseteq Topics
    /\ \A b \in Browsers :
          /\ stream[b].step \in {"off", "checked", "greet", "open", "nap"}
          /\ stream[b].claims \in Token \cup {None}
          /\ stream[b].queue \in Seq(Topics) /\ Len(stream[b].queue) <= MaxQueue
          /\ stream[b].topics \subseteq Topics
          /\ page[b] \in [at : {"none", "overview", "login"}, visible : BOOLEAN, loaded : BOOLEAN,
                          shown : Nat, seen : Nat, dirty : BOOLEAN, timer : BOOLEAN, retry : BOOLEAN,
                          load : {"none", "asked", "read"}, silent : BOOLEAN, told : BOOLEAN]

(* A stream whose token has been superseded since it was opened has been,  *)
(* or is about to be, told to close: however many events its queue has     *)
(* thrown away, the one that says so is not among them.                    *)
StaleStreamWarned ==
    \A b \in Browsers : Subscribed(b) /\ stream[b].fresh /\ ~ Usable(stream[b].claims) =>
       \/ link = "broken"
       \/ "auth" \in wire
       \/ {"auth", "offline"} \cap (ToSet(stream[b].queue) \cup stream[b].topics) # {}

(* A page that is watched and signed in ends up showing the tables as they *)
(* are, or saying that they could not be read, whatever connections broke, *)
(* queues overflowed and loads overlapped on the way.                      *)
ViewerCatchesUp ==
    \A b \in Browsers : <>[](Watching(b) /\ Usable(jar[b].cookie)) =>
                        <>[](page[b].shown = data \/ page[b].told)
=============================================================================
