--------------------------- MODULE AlertDelivery ---------------------------
(***************************************************************************)
(* How an alert travels from the stream service to the database:           *)
(*   - outbox.ts appends it to alerts.jsonl and keeps the ids a dashboard  *)
(*     has acknowledged in alerts.delivered.json;                          *)
(*   - index.ts broadcasts it to the connected dashboards, and replays the *)
(*     unacknowledged ones to each dashboard that connects;                *)
(*   - page.tsx posts every alert it receives to /api/alerts and           *)
(*     acknowledges a replay as soon as its posts are under way;           *)
(*   - api/alerts/route.ts upserts one row per user and dedupKey.          *)
(*                                                                         *)
(* The service can crash, between or inside its file writes, and restart;  *)
(* a write can be cut short; sockets drop with what they carry; tabs are   *)
(* closed with their requests; a post can be refused or get lost.          *)
(***************************************************************************)
EXTENDS Integers, Sequences, FiniteSets

CONSTANTS
    Alerts,       \* the alerts the detector may fire, by id
    Keys,         \* their dedupKeys: symbol and 10 s bucket
    KeyOf,        \* the dedupKey of each alert; a restart may repeat one
    Dashboards,   \* browser tabs
    Users,
    UserOf,       \* whose session a tab holds
    Torn,         \* a line of alerts.jsonl that does not parse
    PostsFail,    \* may a post be refused (401, 403, 429, 5xx) or get lost
    TabsClose,    \* may a tab be closed
    WritesTear,   \* may an append write less than its whole line
    UpsertRaces,  \* may an upsert collide with a concurrent insert (P2002)
    MaxFaults     \* bound on the faults of a behaviour

ASSUME KeyAssumption == KeyOf \in [Alerts -> Keys]
ASSUME UserAssumption == UserOf \in [Dashboards -> Users]
ASSUME TornAssumption == Torn \notin Alerts
ASSUME FaultAssumption ==
    /\ {PostsFail, TabsClose, WritesTear, UpsertRaces} \subseteq BOOLEAN
    /\ MaxFaults \in Nat

VARIABLES
    up,         \* the stream service is running
    log,        \* the lines of alerts.jsonl
    tailOpen,   \* its last line lacks the newline
    delivered,  \* what alerts.delivered.json reads as
    open,       \* tabs showing the dashboard
    connected,  \* dashboards with a socket to the service
    toClient,   \* per dashboard, messages on their way to it
    toServer,   \* per dashboard, acknowledgements on their way back
    seen,       \* per dashboard, the alerts in its list
    posts,      \* POST /api/alerts requests in flight
    rows,       \* the Alert table
    faults,     \* faults so far
    \* history variables, read by the properties alone:
    status,     \* what became of the firing of each alert
    acked,      \* alerts ever marked delivered
    lostPosts   \* alerts a post of which failed or was cancelled

fileVars == <<log, tailOpen, delivered, acked>>
socketVars == <<connected, toClient, toServer>>
tabVars == <<open, seen, posts, lostPosts>>
vars == <<up, fileVars, socketVars, tabVars, rows, faults, status>>

Message == [sync : BOOLEAN, alerts : SUBSET Alerts]
Post == [dashboard : Dashboards, alert : Alerts]
Row == [user : Users, key : Keys, copy : Nat]
Status == {"quiet",      \* not fired yet
           "recorded",   \* its whole line was appended
           "torn",       \* announced or readable, but its line is incomplete
           "lost"}       \* the service crashed before any of that

TypeOK ==
    /\ up \in BOOLEAN
    /\ log \in Seq(Alerts \cup {Torn})
    /\ tailOpen \in BOOLEAN
    /\ delivered \subseteq Alerts
    /\ open \subseteq Dashboards
    /\ connected \subseteq Dashboards
    /\ toClient \in [Dashboards -> Seq(Message)]
    /\ toServer \in [Dashboards -> Seq(SUBSET Alerts)]
    /\ seen \in [Dashboards -> SUBSET Alerts]
    /\ posts \subseteq Post
    /\ rows \subseteq Row
    /\ faults \in 0..MaxFaults
    /\ status \in [Alerts -> Status]
    /\ acked \subseteq Alerts
    /\ lostPosts \subseteq Alerts

Init ==
    /\ up = TRUE
    /\ log = <<>> /\ tailOpen = FALSE /\ delivered = {}
    /\ open = Dashboards /\ connected = {}
    /\ toClient = [d \in Dashboards |-> <<>>]
    /\ toServer = [d \in Dashboards |-> <<>>]
    /\ seen = [d \in Dashboards |-> {}]
    /\ posts = {} /\ rows = {} /\ faults = 0
    /\ status = [a \in Alerts |-> "quiet"]
    /\ acked = {} /\ lostPosts = {}

Fault == faults < MaxFaults /\ faults' = faults + 1

-----------------------------------------------------------------------------
(* The outbox files.                                                       *)

LinesOf(file) == {file[i] : i \in 1..Len(file)}

\* Faulty variant: lines that do not parse are not skipped.
ReadableWithTorn == LinesOf(log)

\* Lines that do not parse are skipped.
Readable == LinesOf(log) \ {Torn}

Pending == Readable \ delivered

\* What one append may leave of alert a: its line, its JSON without the
\* newline, a part of its JSON, or nothing.
Outcomes == IF WritesTear THEN {"line", "json", "part", "nothing"}
                          ELSE {"line", "nothing"}

\* Faulty variant: the newline is not written with the alert.
OutboxAppendWithoutNewline(a, outcome) ==
    /\ log' = IF outcome = "nothing" THEN log
              ELSE IF tailOpen THEN [log EXCEPT ![Len(log)] = Torn]
              ELSE Append(log, IF outcome = "part" THEN Torn ELSE a)
    /\ tailOpen' = (tailOpen \/ outcome # "nothing")
    /\ UNCHANGED <<delivered, acked>>

\* Bytes appended behind an open tail run on in the same line, which then
\* does not parse.
OutboxAppend(a, outcome) ==
    /\ log' = IF outcome = "nothing" THEN log
              ELSE IF tailOpen THEN [log EXCEPT ![Len(log)] = Torn]
              ELSE Append(log, IF outcome = "part" THEN Torn ELSE a)
    /\ tailOpen' = IF outcome = "nothing" THEN tailOpen ELSE outcome # "line"
    /\ UNCHANGED <<delivered, acked>>

MarkDelivered(ids) ==
    /\ delivered' = delivered \cup ids
    /\ acked' = acked \cup ids
    /\ UNCHANGED <<log, tailOpen>>

-----------------------------------------------------------------------------
(* The stream service.                                                     *)

Broadcast(a) ==
    toClient' = [d \in Dashboards |->
                    IF d \in connected
                    THEN Append(toClient[d], [sync |-> FALSE, alerts |-> {a}])
                    ELSE toClient[d]]

\* The process ends: every socket drops with what it carries.
GoDown ==
    /\ up' = FALSE
    /\ connected' = {}
    /\ toClient' = [d \in Dashboards |-> <<>>]
    /\ toServer' = [d \in Dashboards |-> <<>>]

\* Faulty variant: the outbox is for alerts that no dashboard is there to see.
FireAlertSkipsOutbox(a) ==
    /\ up /\ status[a] = "quiet"
    /\ IF connected = {} THEN OutboxAppend(a, "line") ELSE UNCHANGED fileVars
    /\ Broadcast(a)
    /\ status' = [status EXCEPT ![a] = "recorded"]
    /\ UNCHANGED <<up, connected, toServer, tabVars, rows, faults>>

\* outboxAppend, then io.emit, in one task.
FireAlert(a) ==
    /\ up /\ status[a] = "quiet"
    /\ OutboxAppend(a, "line")
    /\ Broadcast(a)
    /\ status' = [status EXCEPT ![a] = "recorded"]
    /\ UNCHANGED <<up, connected, toServer, tabVars, rows, faults>>

\* The disk is full or the write is short: append swallows the error and does
\* not look at the count of bytes written, and the alert is broadcast.
FireAlertTorn(a) ==
    /\ up /\ status[a] = "quiet"
    /\ WritesTear /\ Fault
    /\ \E outcome \in Outcomes \ {"line"} : OutboxAppend(a, outcome)
    /\ Broadcast(a)
    /\ status' = [status EXCEPT ![a] = "torn"]
    /\ UNCHANGED <<up, connected, toServer, tabVars, rows>>

\* The process dies during or right after the append, before io.emit.
CrashWhileFiring(a) ==
    /\ up /\ status[a] = "quiet"
    /\ Fault
    /\ \E outcome \in Outcomes :
        /\ OutboxAppend(a, outcome)
        /\ status' = [status EXCEPT ![a] =
                         CASE outcome = "line" -> "recorded"
                           [] outcome = "json" -> "torn"
                           [] OTHER -> "lost"]
    /\ GoDown
    /\ UNCHANGED <<tabVars, rows>>

Crash ==
    /\ up /\ Fault
    /\ GoDown
    /\ UNCHANGED <<fileVars, tabVars, rows, status>>

Restart ==
    /\ ~up
    /\ up' = TRUE
    /\ UNCHANGED <<fileVars, socketVars, tabVars, rows, faults, status>>

\* Faulty variant: a replay is marked delivered when it is sent.
ConnectMarksDelivered(d) ==
    /\ up /\ d \in open \ connected
    /\ connected' = connected \cup {d}
    /\ toClient' = [toClient EXCEPT ![d] =
                       IF Pending = {} THEN <<>>
                       ELSE <<[sync |-> TRUE, alerts |-> Pending]>>]
    /\ MarkDelivered(Pending)
    /\ UNCHANGED <<up, toServer, tabVars, rows, faults, status>>

\* Faulty variant: only a dashboard that finds no other one connected is sent
\* the replay.
ConnectReplaysToFirst(d) ==
    /\ up /\ d \in open \ connected
    /\ connected' = connected \cup {d}
    /\ toClient' = [toClient EXCEPT ![d] =
                       IF Pending = {} \/ connected # {} THEN <<>>
                       ELSE <<[sync |-> TRUE, alerts |-> Pending]>>]
    /\ UNCHANGED <<up, fileVars, toServer, tabVars, rows, faults, status>>

\* io.on('connection'): the pending alerts are replayed to the new socket,
\* which gets every broadcast from then on.
Connect(d) ==
    /\ up /\ d \in open \ connected
    /\ connected' = connected \cup {d}
    /\ toClient' = [toClient EXCEPT ![d] =
                       IF Pending = {} THEN <<>>
                       ELSE <<[sync |-> TRUE, alerts |-> Pending]>>]
    /\ UNCHANGED <<up, fileVars, toServer, tabVars, rows, faults, status>>

DropSocket(d) ==
    /\ connected' = connected \ {d}
    /\ toClient' = [toClient EXCEPT ![d] = <<>>]
    /\ toServer' = [toServer EXCEPT ![d] = <<>>]

Disconnect(d) ==
    /\ d \in connected /\ Fault
    /\ DropSocket(d)
    /\ UNCHANGED <<up, fileVars, tabVars, rows, status>>

TakeAck(d) ==
    /\ d \in connected /\ toServer[d] # <<>>
    /\ toServer' = [toServer EXCEPT ![d] = Tail(@)]
    /\ UNCHANGED <<up, connected, toClient, tabVars, rows, status>>

\* 'alert-acked': the delivered file is read, extended and rewritten.
ReceiveAck(d) ==
    /\ TakeAck(d)
    /\ MarkDelivered(Head(toServer[d]))
    /\ UNCHANGED faults

\* The rewrite truncates the file and then fails, or the process dies in it
\* (then Crash follows): what is left does not parse and reads as no ids.
ReceiveAckFails(d) ==
    /\ TakeAck(d)
    /\ Fault
    /\ delivered' = {}
    /\ UNCHANGED <<log, tailOpen, acked>>

-----------------------------------------------------------------------------
(* The dashboard (page.tsx).                                               *)

\* An 'alert' or 'outbox-sync' message: every alert in it is added to the list
\* and posted, the responses are not awaited, and a replay is acknowledged at
\* once.
ReceiveAlerts(d) ==
    /\ d \in connected /\ toClient[d] # <<>>
    /\ LET message == Head(toClient[d]) IN
        /\ seen' = [seen EXCEPT ![d] = @ \cup message.alerts]
        /\ posts' = posts \cup [dashboard : {d}, alert : message.alerts]
        /\ toServer' = IF message.sync
                       THEN [toServer EXCEPT ![d] = Append(@, message.alerts)]
                       ELSE toServer
    /\ toClient' = [toClient EXCEPT ![d] = Tail(@)]
    /\ UNCHANGED <<up, fileVars, connected, open, lostPosts, rows, faults, status>>

\* The tab is closed or reloaded: its list, its socket and the requests it has
\* in flight are gone.
CloseTab(d) ==
    /\ TabsClose /\ Fault
    /\ d \in open
    /\ open' = open \ {d}
    /\ seen' = [seen EXCEPT ![d] = {}]
    /\ posts' = {p \in posts : p.dashboard # d}
    /\ lostPosts' = lostPosts \cup {p.alert : p \in posts \ posts'}
    /\ DropSocket(d)
    /\ UNCHANGED <<up, fileVars, rows, status>>

OpenTab(d) ==
    /\ d \in Dashboards \ open
    /\ open' = open \cup {d}
    /\ UNCHANGED <<up, fileVars, socketVars, seen, posts, lostPosts, rows, faults, status>>

-----------------------------------------------------------------------------
(* POST /api/alerts (route.ts) and the table it writes.                    *)

RowsFor(p) ==
    {r \in rows : r.user = UserOf[p.dashboard] /\ r.key = KeyOf[p.alert]}

NewRow(p) == [user |-> UserOf[p.dashboard], key |-> KeyOf[p.alert],
              copy |-> Cardinality(RowsFor(p)) + 1]

\* Every check passes and the upsert finds the row or creates it.
PostStored(p) ==
    /\ p \in posts
    /\ posts' = posts \ {p}
    /\ rows' = IF RowsFor(p) = {} THEN rows \cup {NewRow(p)} ELSE rows
    /\ UNCHANGED <<up, fileVars, socketVars, open, seen, lostPosts, faults, status>>

\* The upsert reports P2002 (its insert lost a race): the handler creates a row
\* under the dedupKey with a suffix.
PostCollides(p) ==
    /\ UpsertRaces /\ Fault
    /\ p \in posts /\ RowsFor(p) # {}
    /\ posts' = posts \ {p}
    /\ rows' = rows \cup {NewRow(p)}
    /\ UNCHANGED <<up, fileVars, socketVars, open, seen, lostPosts, status>>

\* No session, wrong origin, rate limit, server error, or no network: the
\* browser ignores the outcome.
PostFails(p) ==
    /\ PostsFail /\ Fault
    /\ p \in posts
    /\ posts' = posts \ {p}
    /\ lostPosts' = lostPosts \cup {p.alert}
    /\ UNCHANGED <<up, fileVars, socketVars, open, seen, rows, status>>

-----------------------------------------------------------------------------

Service ==
    \/ \E a \in Alerts : FireAlert(a) \/ FireAlertTorn(a) \/ CrashWhileFiring(a)
    \/ Crash \/ Restart
    \/ \E d \in Dashboards : Connect(d) \/ ReceiveAck(d) \/ ReceiveAckFails(d)

Dashboard ==
    \E d \in Dashboards :
        ReceiveAlerts(d) \/ Disconnect(d) \/ CloseTab(d) \/ OpenTab(d)

Api == \E p \in posts : PostStored(p) \/ PostCollides(p) \/ PostFails(p)

Next == Service \/ Dashboard \/ Api

\* The container restarts the service (restart: unless-stopped), socket.io
\* reconnects an open tab (it tries ten times, for some 40 s: the service is
\* taken to be back by then, or the page to be reloaded), sockets deliver what
\* they carry while they live, and a request reaches its handler.  No alert
\* need be fired and no fault need happen.
Fairness ==
    /\ WF_vars(Restart)
    /\ \A d \in Dashboards :
        WF_vars(Connect(d)) /\ WF_vars(ReceiveAlerts(d)) /\ WF_vars(ReceiveAck(d))
    /\ \A p \in Post : WF_vars(PostStored(p))

Spec == Init /\ [][Next]_vars /\ Fairness

-----------------------------------------------------------------------------
(* Properties *)

Stored(a) == \E r \in rows : r.key = KeyOf[a]
InFlight(a) == \E p \in posts : p.alert = a
OnItsWayTo(d, a) == \E i \in 1..Len(toClient[d]) : a \in toClient[d][i].alerts

\* A connected dashboard misses nothing: every alert of the outbox that no
\* dashboard has acknowledged is in its list or on its way to it, whether the
\* alert was fired before, during or after a disconnection or a crash.
NothingMissed ==
    \A d \in connected, a \in Readable \ acked :
        a \in seen[d] \/ OnItsWayTo(d, a)

\* An acknowledged alert is missing from the database only while a post of it
\* is under way, or because a post of it was refused, lost or cancelled: no
\* crash, reconnection or race of replays and broadcasts loses it.
AckedIsStoredOrPosted ==
    \A a \in acked : Stored(a) \/ InFlight(a) \/ a \in lostPosts

\* An append that is cut short costs at most one other alert its place in the
\* outbox, the next one, whose line runs on behind it: however many appends are
\* torn or crash, in whatever order, no more whole ones are unreadable.
TornTailsSwallowOne ==
    Cardinality({a \in Alerts : status[a] = "recorded" /\ a \notin Readable})
        <= Cardinality({a \in Alerts : status[a] \in {"torn", "lost"}})

\* What outbox.ts says of alerts.delivered.json: the ids the dashboard has
\* persisted (or, generously, whose post is still under way).
DeliveredIsPersisted ==
    \A a \in delivered : Stored(a) \/ InFlight(a)

\* The promise of AlertLog, kept while no post fails and no write tears.
Log == INSTANCE AlertLog WITH
    raised <- {KeyOf[a] : a \in {b \in Alerts : status[b] \in {"recorded", "torn"}}},
    stored <- {r.key : r \in rows}

ImplementsAlertLog == Log!LogSpec

=============================================================================
