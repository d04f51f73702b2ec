------------------------ MODULE AlertDeliveryProofs ------------------------
(***************************************************************************)
(* What holds of AlertDelivery for any number of alerts, dashboards, users *)
(* and faults: a connected dashboard misses nothing, what is acknowledged  *)
(* is stored, under way or lost with a failed post, an append that is cut  *)
(* short costs at most one other alert its line, no step does what         *)
(* AlertLog does not allow, and no announced alert is forgotten.           *)
(***************************************************************************)
EXTENDS AlertDelivery, SequenceTheorems, FiniteSetTheorems, TLAPS

\* Types, with what the types of the steps rest on: a file whose last line is
\* open has a line, and the table is finite, so that its rows can be counted.
TypeInv ==
    /\ TypeOK
    /\ tailOpen => log # <<>>
    /\ IsFiniteSet(rows)

\* Only what was acknowledged is withheld from a replay.
MissedInv == NothingMissed /\ delivered \subseteq acked

\* An alert for which a post has been sent: it succeeded, failed or is under way.
Handled(a) == Stored(a) \/ InFlight(a) \/ a \in lostPosts

\* An acknowledgement never overtakes the posts of its alerts.
AckInv ==
    /\ \A a \in acked : Handled(a)
    /\ \A d \in Dashboards : \A i \in 1..Len(toServer[d]) :
        \A a \in toServer[d][i] : Handled(a)

\* The alerts the service has let the world see.
Announced == {a \in Alerts : status[a] \in {"recorded", "torn"}}

\* Nothing but announced alerts is in the outbox, under way or posted.
KnownInv ==
    /\ Readable \subseteq Announced
    /\ \A d \in Dashboards : \A i \in 1..Len(toClient[d]) :
        toClient[d][i].alerts \subseteq Announced
    /\ \A p \in posts : p.alert \in Announced

\* No append has been cut short: none can be, or no fault has happened yet.
Whole == ~WritesTear \/ faults = 0

\* Until an append is cut short, the outbox has every announced alert.
KeptInv == Whole => ~tailOpen /\ Announced \subseteq Readable

\* An alert is posted as it enters a list.
SeenInv == \A d \in Dashboards : \A a \in seen[d] : Handled(a)

\* The alerts whose whole line was appended and yet does not parse, and those
\* whose own append was cut short.
Swallowed == {a \in Alerts : status[a] = "recorded" /\ a \notin Readable}
Broken == {a \in Alerts : status[a] \in {"torn", "lost"}}

\* An open tail has still to swallow its one alert.
CountHolds ==
    /\ Cardinality(Swallowed) <= Cardinality(Broken)
    /\ tailOpen => Cardinality(Swallowed) < Cardinality(Broken)

\* The line an open tail ends is that of an alert cut short, so that what runs
\* on behind it costs no whole one its place.
SwallowInv ==
    /\ IsFiniteSet(Swallowed) /\ IsFiniteSet(Broken)
    /\ CountHolds
    /\ tailOpen => log[Len(log)] \in {Torn} \cup Broken

\* What the end of every alert in the table rests on: until an append is cut
\* short, an announced alert has had a post, or the next connection replays it
\* and every dashboard that is connected is being sent it.
NothingForgotten ==
    Whole => \A a \in Announced :
                \/ Handled(a)
                \/ a \in Pending /\ \A d \in connected : OnItsWayTo(d, a)

-----------------------------------------------------------------------------
(* Types.                                                                  *)

\* Whatever an append leaves of an alert, the outbox files keep their types.
LEMMA AppendType ==
    ASSUME TypeInv, NEW a \in Alerts, NEW outcome, OutboxAppend(a, outcome)
    PROVE  /\ log' \in Seq(Alerts \cup {Torn})
           /\ tailOpen' \in BOOLEAN
           /\ tailOpen' => log' # <<>>
           /\ delivered' \subseteq Alerts
           /\ acked' \subseteq Alerts
<1>1. /\ log \in Seq(Alerts \cup {Torn}) /\ (tailOpen => log # <<>>)
      /\ tailOpen \in BOOLEAN /\ delivered \subseteq Alerts /\ acked \subseteq Alerts
    BY DEF TypeInv, TypeOK
<1>2. delivered' \subseteq Alerts /\ acked' \subseteq Alerts
    BY <1>1 DEF OutboxAppend
<1>3. CASE outcome = "nothing"
    BY <1>1, <1>2, <1>3 DEF OutboxAppend
<1>4. CASE outcome # "nothing" /\ tailOpen
    <2>1. log' = [log EXCEPT ![Len(log)] = Torn]
        BY <1>4 DEF OutboxAppend
    <2>2. Len(log) \in 1..Len(log)
        BY <1>1, <1>4, EmptySeq
    <2>3. log' \in Seq(Alerts \cup {Torn}) /\ Len(log') = Len(log)
        BY <1>1, <2>1, <2>2, ExceptSeq
    <2>4. log' # <<>>
        BY <2>2, <2>3, EmptySeq
    <2> QED
        BY <1>2, <1>4, <2>3, <2>4 DEF OutboxAppend
<1>5. CASE outcome # "nothing" /\ ~tailOpen
    <2>1. PICK line \in Alerts \cup {Torn} : log' = Append(log, line)
        BY <1>5 DEF OutboxAppend
    <2>2. log' \in Seq(Alerts \cup {Torn}) /\ log' # <<>>
        BY <1>1, <2>1, AppendProperties
    <2> QED
        BY <1>2, <1>5, <2>2 DEF OutboxAppend
<1> QED
    BY <1>1, <1>3, <1>4, <1>5

\* Every message the service sends is a message.
LEMMA BroadcastType ==
    ASSUME TypeInv, NEW a \in Alerts, Broadcast(a)
    PROVE  toClient' \in [Dashboards -> Seq(Message)]
<1>1. [sync |-> FALSE, alerts |-> {a}] \in Message
    BY DEF Message
<1>2. \A d \in Dashboards :
        Append(toClient[d], [sync |-> FALSE, alerts |-> {a}]) \in Seq(Message)
    BY <1>1, AppendProperties DEF TypeInv, TypeOK
<1> QED
    BY <1>2 DEF Broadcast, TypeInv, TypeOK

\* What is replayed are alerts of the outbox.
LEMMA PendingType == TypeInv => Pending \subseteq Readable /\ Readable \subseteq Alerts
<1> SUFFICES ASSUME TypeInv PROVE Readable \subseteq Alerts
    BY DEF Pending
<1>1. log \in Seq(Alerts \cup {Torn})
    BY DEF TypeInv, TypeOK
<1>2. LinesOf(log) \subseteq Alerts \cup {Torn}
    BY <1>1, ElementOfSeq DEF LinesOf
<1> QED
    BY <1>2 DEF Readable

\* A table that is counted stays countable when a row joins it.
LEMMA NewRowType ==
    ASSUME TypeInv, NEW p \in posts
    PROVE  /\ rows \cup {NewRow(p)} \subseteq Row
           /\ IsFiniteSet(rows \cup {NewRow(p)})
<1>1. IsFiniteSet(RowsFor(p))
    BY FS_Subset DEF RowsFor, TypeInv
<1>2. Cardinality(RowsFor(p)) + 1 \in Nat
    BY <1>1, FS_CardinalityType
<1>3. p.dashboard \in Dashboards /\ p.alert \in Alerts
    BY DEF TypeInv, TypeOK, Post
<1>4. NewRow(p) \in Row
    BY <1>2, <1>3, UserAssumption, KeyAssumption DEF NewRow, Row
<1> QED
    BY <1>4, FS_AddElement DEF TypeInv, TypeOK

\* The state a service starts in has its types.
LEMMA InitType == Init => TypeInv
<1> SUFFICES ASSUME Init PROVE TypeInv
    OBVIOUS
<1>1. log \in Seq(Alerts \cup {Torn}) /\ <<>> \in Seq(Message) /\ <<>> \in Seq(SUBSET Alerts)
    BY EmptySeq DEF Init
<1>2. status \in [Alerts -> Status]
    BY DEF Init, Status
<1>3. IsFiniteSet(rows)
    BY FS_EmptySet DEF Init
<1>4. /\ toClient \in [Dashboards -> Seq(Message)]
      /\ toServer \in [Dashboards -> Seq(SUBSET Alerts)]
      /\ seen \in [Dashboards -> SUBSET Alerts]
    BY <1>1 DEF Init
<1>5. faults \in 0..MaxFaults /\ posts \subseteq Post /\ rows \subseteq Row
    BY FaultAssumption DEF Init
<1> QED
    BY <1>1, <1>2, <1>3, <1>4, <1>5 DEF Init, TypeInv, TypeOK

\* Every step keeps the types.
LEMMA StepType == TypeInv /\ [Next]_vars => TypeInv'
<1> SUFFICES ASSUME TypeInv, [Next]_vars PROVE TypeInv'
    OBVIOUS
<1>fault. Fault => faults' \in 0..MaxFaults
    BY FaultAssumption DEF Fault, TypeInv, TypeOK
<1>drop. ASSUME GoDown
         PROVE  /\ up' \in BOOLEAN /\ connected' \subseteq Dashboards
                /\ toClient' \in [Dashboards -> Seq(Message)]
                /\ toServer' \in [Dashboards -> Seq(SUBSET Alerts)]
    BY <1>drop, EmptySeq DEF GoDown
<1>dropOne. ASSUME NEW d \in Dashboards, DropSocket(d)
            PROVE  /\ connected' \subseteq Dashboards
                   /\ toClient' \in [Dashboards -> Seq(Message)]
                   /\ toServer' \in [Dashboards -> Seq(SUBSET Alerts)]
    BY <1>dropOne, EmptySeq DEF DropSocket, TypeInv, TypeOK
<1>1. ASSUME NEW a \in Alerts, FireAlert(a) PROVE TypeInv'
    <2>1. OutboxAppend(a, "line") /\ Broadcast(a)
        BY <1>1 DEF FireAlert
    <2>2. status' \in [Alerts -> Status]
        BY <1>1 DEF FireAlert, Status, TypeInv, TypeOK
    <2> QED
        BY <1>1, <2>1, <2>2, AppendType, BroadcastType
        DEF FireAlert, TypeInv, TypeOK, tabVars
<1>2. ASSUME NEW a \in Alerts, FireAlertTorn(a) PROVE TypeInv'
    <2>1. (\E outcome \in Outcomes : OutboxAppend(a, outcome)) /\ Broadcast(a)
        BY <1>2 DEF FireAlertTorn
    <2>2. status' \in [Alerts -> Status]
        BY <1>2 DEF FireAlertTorn, Status, TypeInv, TypeOK
    <2> QED
        BY <1>2, <1>fault, <2>1, <2>2, AppendType, BroadcastType
        DEF FireAlertTorn, TypeInv, TypeOK, tabVars
<1>3. ASSUME NEW a \in Alerts, CrashWhileFiring(a) PROVE TypeInv'
    <2>1. PICK outcome \in Outcomes :
            /\ OutboxAppend(a, outcome)
            /\ status' = [status EXCEPT ![a] =
                            CASE outcome = "line" -> "recorded"
                              [] outcome = "json" -> "torn"
                              [] OTHER -> "lost"]
        BY <1>3 DEF CrashWhileFiring
    <2>2. status' \in [Alerts -> Status]
        BY <2>1 DEF Status, TypeInv, TypeOK
    <2> QED
        BY <1>3, <1>fault, <1>drop, <2>1, <2>2, AppendType
        DEF CrashWhileFiring, TypeInv, TypeOK, tabVars
<1>4. ASSUME Crash PROVE TypeInv'
    BY <1>4, <1>fault, <1>drop DEF Crash, TypeInv, TypeOK, fileVars, tabVars
<1>5. ASSUME Restart PROVE TypeInv'
    BY <1>5 DEF Restart, TypeInv, TypeOK, fileVars, socketVars, tabVars
<1>6. ASSUME NEW d \in Dashboards, Connect(d) PROVE TypeInv'
    <2>1. Pending \subseteq Alerts
        BY PendingType
    <2>2. [sync |-> TRUE, alerts |-> Pending] \in Message
        BY <2>1 DEF Message
    <2>3. toClient' \in [Dashboards -> Seq(Message)]
        BY <1>6, <2>2, EmptySeq DEF Connect, TypeInv, TypeOK
    <2> QED
        BY <1>6, <2>3 DEF Connect, TypeInv, TypeOK, fileVars, tabVars
<1>7. ASSUME NEW d \in Dashboards, TakeAck(d)
      PROVE  /\ toServer' \in [Dashboards -> Seq(SUBSET Alerts)]
             /\ Head(toServer[d]) \subseteq Alerts
    BY <1>7, HeadTailProperties DEF TakeAck, TypeInv, TypeOK
<1>8. ASSUME NEW d \in Dashboards, ReceiveAck(d) PROVE TypeInv'
    <2>1. TakeAck(d)
        BY <1>8 DEF ReceiveAck
    <2> QED
        BY <1>7, <1>8, <2>1 DEF ReceiveAck, TakeAck, MarkDelivered, TypeInv, TypeOK, tabVars
<1>9. ASSUME NEW d \in Dashboards, ReceiveAckFails(d) PROVE TypeInv'
    <2>1. TakeAck(d)
        BY <1>9 DEF ReceiveAckFails
    <2> QED
        BY <1>7, <1>9, <1>fault, <2>1 DEF ReceiveAckFails, TakeAck, TypeInv, TypeOK, tabVars
<1>10. ASSUME NEW d \in Dashboards, ReceiveAlerts(d) PROVE TypeInv'
    <2> DEFINE message == Head(toClient[d])
    <2>1. message \in Message /\ Tail(toClient[d]) \in Seq(Message)
        BY <1>10, HeadTailProperties DEF ReceiveAlerts, TypeInv, TypeOK
    <2>2. message.alerts \subseteq Alerts
        BY <2>1 DEF Message
    <2>3. Append(toServer[d], message.alerts) \in Seq(SUBSET Alerts)
        BY <2>2, AppendProperties DEF TypeInv, TypeOK
    <2> HIDE DEF message
    <2>4. /\ seen' = [seen EXCEPT ![d] = @ \cup message.alerts]
          /\ posts' = posts \cup [dashboard : {d}, alert : message.alerts]
          /\ toServer' = IF message.sync
                         THEN [toServer EXCEPT ![d] = Append(@, message.alerts)]
                         ELSE toServer
          /\ toClient' = [toClient EXCEPT ![d] = Tail(@)]
          /\ UNCHANGED <<up, fileVars, connected, open, lostPosts, rows, faults, status>>
        BY <1>10 DEF ReceiveAlerts, message
    <2>5. posts' \subseteq Post
        BY <2>2, <2>4 DEF Post, TypeInv, TypeOK
    <2> QED
        BY <2>1, <2>2, <2>3, <2>4, <2>5 DEF TypeInv, TypeOK, fileVars
<1>11. ASSUME NEW d \in Dashboards, Disconnect(d) PROVE TypeInv'
    BY <1>11, <1>fault, <1>dropOne DEF Disconnect, TypeInv, TypeOK, fileVars, tabVars
<1>12. ASSUME NEW d \in Dashboards, CloseTab(d) PROVE TypeInv'
    <2>1. posts' \subseteq posts /\ lostPosts' \subseteq Alerts
        BY <1>12 DEF CloseTab, TypeInv, TypeOK, Post
    <2>2. DropSocket(d)
        BY <1>12 DEF CloseTab
    <2> QED
        BY <1>12, <1>fault, <1>dropOne, <2>1, <2>2 DEF CloseTab, TypeInv, TypeOK, fileVars
<1>13. ASSUME NEW d \in Dashboards, OpenTab(d) PROVE TypeInv'
    BY <1>13 DEF OpenTab, TypeInv, TypeOK, fileVars, socketVars
<1>14. ASSUME NEW p \in posts, PostStored(p) PROVE TypeInv'
    <2>1. rows' = rows \/ rows' = rows \cup {NewRow(p)}
        BY <1>14 DEF PostStored
    <2> QED
        BY <1>14, <2>1, NewRowType DEF PostStored, TypeInv, TypeOK, fileVars, socketVars
<1>15. ASSUME NEW p \in posts, PostCollides(p) PROVE TypeInv'
    BY <1>15, <1>fault, NewRowType DEF PostCollides, TypeInv, TypeOK, fileVars, socketVars
<1>16. ASSUME NEW p \in posts, PostFails(p) PROVE TypeInv'
    <2>1. p.alert \in Alerts
        BY DEF TypeInv, TypeOK, Post
    <2> QED
        BY <1>16, <1>fault, <2>1 DEF PostFails, TypeInv, TypeOK, fileVars, socketVars
<1>17. ASSUME UNCHANGED vars PROVE TypeInv'
    BY <1>17 DEF vars, TypeInv, TypeOK, fileVars, socketVars, tabVars
<1> QED
    BY <1>1, <1>2, <1>3, <1>4, <1>5, <1>6, <1>8, <1>9, <1>10, <1>11, <1>12, <1>13,
       <1>14, <1>15, <1>16, <1>17 DEF Next, Service, Dashboard, Api

-----------------------------------------------------------------------------
(* A connected dashboard misses nothing.                                   *)

\* An append makes at most its own alert readable, and may make the one
\* before it unreadable; half a line makes nothing readable.
LEMMA AppendReadable ==
    ASSUME TypeInv, NEW a \in Alerts, NEW outcome, OutboxAppend(a, outcome)
    PROVE  /\ Readable' \subseteq Readable \cup {a}
           /\ outcome \in {"part", "nothing"} => Readable' \subseteq Readable
<1>1. log \in Seq(Alerts \cup {Torn}) /\ (tailOpen => log # <<>>)
    BY DEF TypeInv, TypeOK
<1>2. CASE outcome = "nothing"
    BY <1>2 DEF OutboxAppend, Readable, LinesOf
<1>3. CASE outcome # "nothing" /\ tailOpen
    <2>1. log' = [log EXCEPT ![Len(log)] = Torn]
        BY <1>3 DEF OutboxAppend
    <2>2. Len(log) \in 1..Len(log)
        BY <1>1, <1>3, EmptySeq
    <2>3. /\ Len(log') = Len(log)
          /\ \A j \in 1..Len(log) : log'[j] = Torn \/ log'[j] = log[j]
        BY <1>1, <2>1, <2>2, ExceptSeq
    <2> QED
        BY <2>3 DEF Readable, LinesOf
<1>4. CASE outcome # "nothing" /\ ~tailOpen
    <2>1. PICK line \in {a, Torn} :
            log' = Append(log, line) /\ (outcome = "part" => line = Torn)
        BY <1>4 DEF OutboxAppend
    <2>2. /\ Len(log') = Len(log) + 1
          /\ \A j \in 1..Len(log) : log'[j] = log[j]
          /\ log'[Len(log) + 1] = line
        BY <1>1, <2>1, AppendProperties
    <2>3. Len(log) \in Nat
        BY <1>1, LenProperties
    <2> QED
        BY <1>4, <2>1, <2>2, <2>3 DEF Readable, LinesOf
<1> QED
    BY <1>2, <1>3, <1>4

\* A broadcast reaches every connected dashboard, behind what is on its way.
LEMMA BroadcastReaches ==
    ASSUME TypeInv, NEW a \in Alerts, Broadcast(a), NEW d \in connected
    PROVE  /\ OnItsWayTo(d, a)'
           /\ \A b \in Alerts : OnItsWayTo(d, b) => OnItsWayTo(d, b)'
<1> DEFINE message == [sync |-> FALSE, alerts |-> {a}]
<1>1. toClient[d] \in Seq(Message) /\ d \in Dashboards
    BY DEF TypeInv, TypeOK
<1>2. message \in Message /\ a \in message.alerts
    BY DEF Message
<1>3. toClient'[d] = Append(toClient[d], message)
    BY <1>1 DEF Broadcast
<1> HIDE DEF message
<1>4. /\ Len(toClient'[d]) = Len(toClient[d]) + 1
      /\ \A i \in 1..Len(toClient[d]) : toClient'[d][i] = toClient[d][i]
      /\ toClient'[d][Len(toClient[d]) + 1] = message
    BY <1>1, <1>2, <1>3, AppendProperties
<1>5. Len(toClient[d]) \in Nat
    BY <1>1, LenProperties
<1> QED
    BY <1>2, <1>4, <1>5 DEF OnItsWayTo

\* Nothing is missed by a step that shows no alert to the world: it makes none
\* pending, connects no dashboard, and takes nothing from a connected one.
LEMMA MissedFrame ==
    ASSUME MissedInv, connected' \subseteq connected,
           Readable' \ acked' \subseteq Readable \ acked, delivered' \subseteq acked',
           \A d \in connected' : seen'[d] = seen[d] /\ toClient'[d] = toClient[d]
    PROVE  MissedInv'
BY DEF MissedInv, NothingMissed, OnItsWayTo

\* Firing an alert makes it pending and sends it to every connected dashboard.
LEMMA FiringMissesNothing ==
    ASSUME TypeInv, MissedInv, NEW a \in Alerts, NEW outcome,
           OutboxAppend(a, outcome), Broadcast(a), UNCHANGED <<connected, seen>>
    PROVE  MissedInv'
<1>1. delivered' = delivered /\ acked' = acked
    BY DEF OutboxAppend
<1>2. Readable' \subseteq Readable \cup {a} /\ Readable \subseteq Alerts
    BY AppendReadable, PendingType
<1>3. ASSUME NEW d \in connected', NEW b \in Readable' \ acked'
      PROVE  b \in seen'[d] \/ OnItsWayTo(d, b)'
    <2>1. d \in connected /\ seen'[d] = seen[d]
        OBVIOUS
    <2>2. CASE b = a
        BY <2>1, <2>2, BroadcastReaches
    <2>3. CASE b # a
        <3>1. b \in Readable \ acked /\ b \in Alerts
            BY <1>1, <1>2, <1>3, <2>3
        <3>2. b \in seen[d] \/ OnItsWayTo(d, b)
            BY <2>1, <3>1 DEF MissedInv, NothingMissed
        <3> QED
            BY <2>1, <3>1, <3>2, BroadcastReaches
    <2> QED
        BY <2>2, <2>3
<1> QED
    BY <1>1, <1>3 DEF MissedInv, NothingMissed

\* A service that is down has no connected dashboard to miss anything.
LEMMA DownMissesNothing ==
    ASSUME GoDown, delivered' \subseteq acked' PROVE MissedInv'
BY DEF GoDown, MissedInv, NothingMissed

\* A dashboard that connects is sent all there is to replay.
LEMMA ConnectMissesNothing ==
    ASSUME TypeInv, MissedInv, NEW d \in Dashboards, Connect(d)
    PROVE  MissedInv'
<1>1. /\ toClient' = [toClient EXCEPT ![d] =
                         IF Pending = {} THEN <<>>
                         ELSE <<[sync |-> TRUE, alerts |-> Pending]>>]
      /\ connected' = connected \cup {d}
      /\ UNCHANGED <<log, delivered, acked, seen>> /\ d \notin connected
    BY DEF Connect, fileVars, tabVars
<1>2. Readable' = Readable
    BY <1>1 DEF Readable, LinesOf
<1>3. ASSUME NEW e \in connected', NEW b \in Readable \ acked
      PROVE  b \in seen'[e] \/ OnItsWayTo(e, b)'
    <2>1. CASE e = d
        <3>1. b \in Pending
            BY <1>3 DEF Pending, MissedInv
        <3>2. toClient'[e] = <<[sync |-> TRUE, alerts |-> Pending]>>
            BY <1>1, <2>1, <3>1 DEF TypeInv, TypeOK
        <3> QED
            BY <3>1, <3>2 DEF OnItsWayTo
    <2>2. CASE e # d
        <3>1. e \in connected /\ e \in Dashboards /\ toClient'[e] = toClient[e]
            BY <1>1, <1>3, <2>2 DEF TypeInv, TypeOK
        <3> QED
            BY <1>1, <1>3, <3>1 DEF MissedInv, NothingMissed, OnItsWayTo
    <2> QED
        BY <2>1, <2>2
<1> QED
    BY <1>1, <1>2, <1>3 DEF MissedInv, NothingMissed

\* What a dashboard takes from its socket goes into its list.
LEMMA ReceivingMissesNothing ==
    ASSUME TypeInv, MissedInv, NEW d \in Dashboards, ReceiveAlerts(d)
    PROVE  MissedInv'
<1> DEFINE message == Head(toClient[d])
<1>1. /\ toClient[d] \in Seq(Message) /\ toClient[d] # <<>>
      /\ toClient' = [toClient EXCEPT ![d] = Tail(@)]
      /\ seen' = [seen EXCEPT ![d] = @ \cup message.alerts]
      /\ UNCHANGED <<log, delivered, acked, connected>>
    BY DEF ReceiveAlerts, fileVars, TypeInv, TypeOK
<1>2. Readable' = Readable
    BY <1>1 DEF Readable, LinesOf
<1>3. ASSUME NEW e \in connected, NEW b \in Readable \ acked
      PROVE  b \in seen'[e] \/ OnItsWayTo(e, b)'
    <2>0. e \in Dashboards /\ (b \in seen[e] \/ OnItsWayTo(e, b))
        BY <1>3 DEF MissedInv, NothingMissed, TypeInv, TypeOK
    <2>1. CASE e = d
        <3>1. CASE b \in seen[d]
            BY <1>1, <2>0, <2>1, <3>1 DEF TypeInv, TypeOK
        <3>2. CASE OnItsWayTo(d, b)
            <4>1. PICK i \in 1..Len(toClient[d]) : b \in toClient[d][i].alerts
                BY <3>2 DEF OnItsWayTo
            <4>2. CASE i = 1
                <5>1. toClient[d][i] = message
                    BY <1>1, <4>2
                <5> QED
                    BY <1>1, <2>0, <2>1, <4>1, <5>1 DEF TypeInv, TypeOK
            <4>3. CASE i # 1
                <5>1. /\ Len(Tail(toClient[d])) = Len(toClient[d]) - 1
                      /\ \A j \in 1..Len(Tail(toClient[d])) :
                            Tail(toClient[d])[j] = toClient[d][j + 1]
                      /\ Len(toClient[d]) \in Nat
                    BY <1>1, HeadTailProperties, LenProperties
                <5>2. i - 1 \in 1..Len(Tail(toClient[d]))
                    BY <4>1, <4>3, <5>1
                <5>3. Tail(toClient[d])[i - 1] = toClient[d][i]
                    BY <5>1, <5>2
                <5>4. toClient'[d] = Tail(toClient[d])
                    BY <1>1 DEF TypeInv, TypeOK
                <5> QED
                    BY <2>1, <4>1, <5>2, <5>3, <5>4 DEF OnItsWayTo
            <4> QED
                BY <4>2, <4>3
        <3> QED
            BY <2>0, <2>1, <3>1, <3>2
    <2>2. CASE e # d
        <3>1. toClient'[e] = toClient[e] /\ seen'[e] = seen[e]
            BY <1>1, <2>0, <2>2 DEF TypeInv, TypeOK
        <3> QED
            BY <2>0, <3>1 DEF OnItsWayTo
    <2> QED
        BY <2>1, <2>2
<1> QED
    BY <1>1, <1>2, <1>3 DEF MissedInv, NothingMissed

\* No step makes a connected dashboard miss an alert.
LEMMA StepMissed == TypeInv /\ MissedInv /\ [Next]_vars => MissedInv'
<1> SUFFICES ASSUME TypeInv, MissedInv, [Next]_vars PROVE MissedInv'
    OBVIOUS
<1>same. log' = log => Readable' = Readable
    BY DEF Readable, LinesOf
<1>1. ASSUME NEW a \in Alerts, FireAlert(a) \/ FireAlertTorn(a) PROVE MissedInv'
    <2>1. /\ \E outcome : OutboxAppend(a, outcome)
          /\ Broadcast(a)
          /\ UNCHANGED <<connected, seen>>
        BY <1>1 DEF FireAlert, FireAlertTorn, tabVars
    <2> QED
        BY <2>1, FiringMissesNothing
<1>2. ASSUME NEW a \in Alerts, CrashWhileFiring(a) PROVE MissedInv'
    <2>1. GoDown /\ delivered' = delivered /\ acked' = acked
        BY <1>2 DEF CrashWhileFiring, OutboxAppend
    <2> QED
        BY <2>1, DownMissesNothing DEF MissedInv
<1>3. ASSUME Crash PROVE MissedInv'
    BY <1>3, DownMissesNothing DEF Crash, fileVars, MissedInv
<1>4. ASSUME NEW d \in Dashboards, Connect(d) PROVE MissedInv'
    BY <1>4, ConnectMissesNothing
<1>5. ASSUME NEW d \in Dashboards, ReceiveAlerts(d) PROVE MissedInv'
    BY <1>5, ReceivingMissesNothing
<1>6. ASSUME NEW d \in Dashboards, ReceiveAck(d) \/ ReceiveAckFails(d) PROVE MissedInv'
    <2>1. /\ UNCHANGED <<log, connected, toClient, seen>>
          /\ delivered' \subseteq acked' /\ acked \subseteq acked'
        BY <1>6 DEF ReceiveAck, ReceiveAckFails, TakeAck, MarkDelivered, MissedInv, tabVars
    <2> QED
        BY <1>same, <2>1, MissedFrame
<1>7. ASSUME NEW d \in Dashboards, Disconnect(d) \/ CloseTab(d) PROVE MissedInv'
    <2>1. /\ UNCHANGED <<log, delivered, acked>>
          /\ connected' = connected \ {d}
          /\ toClient' = [toClient EXCEPT ![d] = <<>>]
          /\ seen' = seen \/ seen' = [seen EXCEPT ![d] = {}]
        BY <1>7 DEF Disconnect, CloseTab, DropSocket, fileVars, tabVars
    <2>2. \A e \in connected' : seen'[e] = seen[e] /\ toClient'[e] = toClient[e]
        BY <2>1 DEF TypeInv, TypeOK
    <2> QED
        BY <1>same, <2>1, <2>2, MissedFrame DEF MissedInv
<1>8. ASSUME \/ Restart
             \/ \E d \in Dashboards : OpenTab(d)
             \/ Api
             \/ UNCHANGED vars
      PROVE  MissedInv'
    <2>1. UNCHANGED <<log, delivered, acked, connected, toClient, seen>>
        BY <1>8 DEF Restart, OpenTab, Api, PostStored, PostCollides, PostFails, vars,
                    fileVars, socketVars, tabVars
    <2> QED
        BY <1>same, <2>1, MissedFrame DEF MissedInv
<1> QED
    BY <1>1, <1>2, <1>3, <1>4, <1>5, <1>6, <1>7, <1>8 DEF Next, Service, Dashboard

-----------------------------------------------------------------------------
(* Acknowledged alerts are stored, posted, or lost with a failed post.     *)

\* A post that is stored leaves a row under the key of its alert.
LEMMA StoringStores ==
    ASSUME NEW p \in posts, PostStored(p) \/ PostCollides(p)
    PROVE  Stored(p.alert)'
<1>1. NewRow(p).key = KeyOf[p.alert]
    BY DEF NewRow
<1>2. rows \subseteq rows' /\ (NewRow(p) \in rows' \/ RowsFor(p) # {})
    BY DEF PostStored, PostCollides
<1>3. \A r \in RowsFor(p) : r \in rows /\ r.key = KeyOf[p.alert]
    BY DEF RowsFor
<1>4. \E r \in rows' : r.key = KeyOf[p.alert]
    BY <1>1, <1>2, <1>3
<1> QED
    BY <1>4 DEF Stored

\* A post that ends leaves its alert stored or counted as lost; nothing else
\* takes a post, a row or a loss away.
LEMMA StepHandled ==
    ASSUME TypeInv, [Next]_vars, NEW a, Handled(a) PROVE Handled(a)'
<1>1. rows \subseteq rows' /\ lostPosts \subseteq lostPosts'
    BY DEF Next, Service, Dashboard, Api, FireAlert, FireAlertTorn, CrashWhileFiring, Crash,
           Restart, Connect, ReceiveAck, ReceiveAckFails, TakeAck, ReceiveAlerts, Disconnect,
           CloseTab, OpenTab, PostStored, PostCollides, PostFails, vars, tabVars
<1>2. ASSUME NEW p \in posts, p \notin posts'
      PROVE  Stored(p.alert)' \/ p.alert \in lostPosts'
    <2>1. CASE \E d \in Dashboards : CloseTab(d)
        BY <1>2, <2>1 DEF CloseTab
    <2>2. CASE PostFails(p)
        BY <2>2 DEF PostFails
    <2>3. CASE PostStored(p) \/ PostCollides(p)
        BY <2>3, StoringStores
    <2> QED
        BY <1>2, <2>1, <2>2, <2>3
        DEF Next, Service, Dashboard, Api, FireAlert, FireAlertTorn, CrashWhileFiring, Crash,
            Restart, Connect, ReceiveAck, ReceiveAckFails, TakeAck, ReceiveAlerts, Disconnect,
            OpenTab, PostStored, PostCollides, PostFails, vars, tabVars
<1> QED
    BY <1>1, <1>2 DEF Handled, Stored, InFlight

\* Acknowledgements that were in order stay in order when no new one is sent.
LEMMA AckFrame ==
    ASSUME TypeInv, AckInv, [Next]_vars,
           acked' = acked,
           \A d \in Dashboards : toServer'[d] = toServer[d] \/ toServer'[d] = <<>>
    PROVE  AckInv'
<1>1. \A a : Handled(a) => Handled(a)'
    BY StepHandled
<1>2. ASSUME NEW d \in Dashboards, NEW i \in 1..Len(toServer'[d]), NEW a \in toServer'[d][i]
      PROVE  Handled(a)'
    BY <1>1, <1>2, EmptySeq DEF AckInv
<1> QED
    BY <1>1, <1>2 DEF AckInv

\* The post of an alert is sent before its acknowledgement.
LEMMA ReceivingIsHandled ==
    ASSUME TypeInv, AckInv, [Next]_vars, NEW d \in Dashboards, ReceiveAlerts(d)
    PROVE  AckInv'
<1> DEFINE message == Head(toClient[d])
<1>1. message.alerts \subseteq Alerts /\ toServer[d] \in Seq(SUBSET Alerts)
    <2>1. toClient[d] \in Seq(Message) /\ toClient[d] # <<>>
        BY DEF ReceiveAlerts, TypeInv, TypeOK
    <2>2. message \in Message
        BY <2>1, HeadTailProperties
    <2> HIDE DEF message
    <2>3. message.alerts \subseteq Alerts
        BY <2>2 DEF Message
    <2> QED
        BY <2>3 DEF TypeInv, TypeOK
<1>2. \A a \in message.alerts : Handled(a)'
    <2>1. posts' = posts \cup [dashboard : {d}, alert : message.alerts]
        BY DEF ReceiveAlerts
    <2>2. \A a \in message.alerts : [dashboard |-> d, alert |-> a] \in posts'
        BY <2>1
    <2> QED
        BY <2>2 DEF Handled, InFlight
<1>3. /\ acked' = acked
      /\ toServer' = IF message.sync
                     THEN [toServer EXCEPT ![d] = Append(@, message.alerts)]
                     ELSE toServer
    BY DEF ReceiveAlerts, fileVars
<1> HIDE DEF message
<1>4. \A a : Handled(a) => Handled(a)'
    BY StepHandled
<1>5. ASSUME NEW e \in Dashboards, NEW i \in 1..Len(toServer'[e]), NEW a \in toServer'[e][i]
      PROVE  Handled(a)'
    <2>1. CASE toServer'[e] = toServer[e]
        BY <1>4, <1>5, <2>1 DEF AckInv
    <2>2. CASE e = d /\ toServer'[d] = Append(toServer[d], message.alerts)
        <3>1. \/ i \in 1..Len(toServer[d]) /\ toServer'[d][i] = toServer[d][i]
              \/ toServer'[d][i] = message.alerts
            BY <1>1, <1>5, <2>2, AppendProperties, LenProperties
        <3> QED
            BY <1>2, <1>4, <1>5, <2>2, <3>1 DEF AckInv
    <2> QED
        BY <1>3, <2>1, <2>2 DEF TypeInv, TypeOK
<1> QED
    BY <1>3, <1>4, <1>5 DEF AckInv

\* What is marked delivered was acknowledged, hence posted.
LEMMA AckIsHandled ==
    ASSUME TypeInv, AckInv, [Next]_vars, NEW d \in Dashboards,
           ReceiveAck(d) \/ ReceiveAckFails(d)
    PROVE  AckInv'
<1>1. TakeAck(d)
    BY DEF ReceiveAck, ReceiveAckFails
<1>2. /\ toServer[d] \in Seq(SUBSET Alerts) /\ toServer[d] # <<>>
      /\ toServer' = [toServer EXCEPT ![d] = Tail(@)]
    BY <1>1 DEF TakeAck, TypeInv, TypeOK
<1>3. acked' \subseteq acked \cup Head(toServer[d])
    BY DEF ReceiveAck, ReceiveAckFails, MarkDelivered
<1>4. \A a : Handled(a) => Handled(a)'
    BY StepHandled
<1>5. /\ Len(toServer[d]) \in Nat \ {0} /\ Head(toServer[d]) = toServer[d][1]
      /\ Len(Tail(toServer[d])) = Len(toServer[d]) - 1
      /\ \A j \in 1..Len(Tail(toServer[d])) : Tail(toServer[d])[j] = toServer[d][j + 1]
    BY <1>2, HeadTailProperties, EmptySeq
<1>6. \A a \in acked' : Handled(a)'
    <2>1. 1 \in 1..Len(toServer[d])
        BY <1>5
    <2> QED
        BY <1>3, <1>4, <1>5, <2>1 DEF AckInv
<1>7. ASSUME NEW e \in Dashboards, NEW i \in 1..Len(toServer'[e]), NEW a \in toServer'[e][i]
      PROVE  Handled(a)'
    <2>1. CASE e = d
        <3>1. toServer'[e] = Tail(toServer[d])
            BY <1>2, <2>1 DEF TypeInv, TypeOK
        <3>2. i + 1 \in 1..Len(toServer[d]) /\ toServer'[e][i] = toServer[d][i + 1]
            BY <1>5, <1>7, <3>1
        <3> QED
            BY <1>4, <1>7, <3>2 DEF AckInv
    <2>2. CASE e # d
        <3>1. toServer'[e] = toServer[e]
            BY <1>2, <2>2 DEF TypeInv, TypeOK
        <3> QED
            BY <1>4, <1>7, <3>1 DEF AckInv
    <2> QED
        BY <2>1, <2>2
<1> QED
    BY <1>6, <1>7 DEF AckInv

\* No step lets an acknowledged alert be forgotten.
LEMMA StepAck == TypeInv /\ AckInv /\ [Next]_vars => AckInv'
<1> SUFFICES ASSUME TypeInv, AckInv, [Next]_vars PROVE AckInv'
    OBVIOUS
<1>1. ASSUME NEW d \in Dashboards, ReceiveAlerts(d) PROVE AckInv'
    BY <1>1, ReceivingIsHandled
<1>2. ASSUME NEW d \in Dashboards, ReceiveAck(d) \/ ReceiveAckFails(d) PROVE AckInv'
    BY <1>2, AckIsHandled
<1>3. ASSUME Crash \/ \E a \in Alerts : CrashWhileFiring(a) PROVE AckInv'
    <2>1. acked' = acked /\ GoDown
        BY <1>3 DEF Crash, CrashWhileFiring, OutboxAppend, fileVars
    <2>2. \A d \in Dashboards : toServer'[d] = <<>>
        BY <2>1 DEF GoDown
    <2> QED
        BY <2>1, <2>2, AckFrame
<1>4. ASSUME NEW d \in Dashboards, Disconnect(d) \/ CloseTab(d) PROVE AckInv'
    <2>1. acked' = acked /\ DropSocket(d)
        BY <1>4 DEF Disconnect, CloseTab, fileVars
    <2>2. \A e \in Dashboards : toServer'[e] = toServer[e] \/ toServer'[e] = <<>>
        BY <2>1 DEF DropSocket, TypeInv, TypeOK
    <2> QED
        BY <2>1, <2>2, AckFrame
<1>5. ASSUME \/ \E a \in Alerts : FireAlert(a) \/ FireAlertTorn(a)
             \/ Restart
             \/ \E d \in Dashboards : Connect(d) \/ OpenTab(d)
             \/ Api
             \/ UNCHANGED vars
      PROVE  AckInv'
    <2>1. acked' = acked /\ toServer' = toServer
        BY <1>5 DEF FireAlert, FireAlertTorn, OutboxAppend, Restart, Connect, OpenTab, Api,
                    PostStored, PostCollides, PostFails, vars, fileVars, socketVars
    <2> QED
        BY <2>1, AckFrame
<1> QED
    BY <1>1, <1>2, <1>3, <1>4, <1>5 DEF Next, Service, Dashboard

-----------------------------------------------------------------------------
(* Nothing is delivered that was not announced.                            *)

\* What was announced stays announced.
LEMMA StepAnnounced == TypeInv /\ [Next]_vars => Announced \subseteq Announced'
<1> SUFFICES ASSUME TypeInv, [Next]_vars PROVE Announced \subseteq Announced'
    OBVIOUS
<1>1. ASSUME NEW a \in Alerts, status[a] = "quiet", NEW s,
             status' = [status EXCEPT ![a] = s]
      PROVE  Announced \subseteq Announced'
    BY <1>1 DEF Announced, TypeInv, TypeOK
<1>2. CASE \E a \in Alerts : FireAlert(a) \/ FireAlertTorn(a) \/ CrashWhileFiring(a)
    BY <1>1, <1>2 DEF FireAlert, FireAlertTorn, CrashWhileFiring
<1>3. CASE UNCHANGED status
    BY <1>3 DEF Announced
<1> QED
    BY <1>2, <1>3
    DEF Next, Service, Dashboard, Api, Crash, Restart, Connect, ReceiveAck, ReceiveAckFails,
        TakeAck, ReceiveAlerts, Disconnect, CloseTab, OpenTab, PostStored, PostCollides,
        PostFails, vars

\* A fired alert is announced before anybody sees it.
LEMMA FiringIsKnown ==
    ASSUME TypeInv, KnownInv, [Next]_vars, NEW a \in Alerts, NEW outcome,
           OutboxAppend(a, outcome), Broadcast(a), a \in Announced', posts' = posts
    PROVE  KnownInv'
<1>1. Announced \subseteq Announced'
    BY StepAnnounced
<1>2. Readable' \subseteq Announced'
    BY <1>1, AppendReadable DEF KnownInv
<1>3. ASSUME NEW d \in Dashboards, NEW i \in 1..Len(toClient'[d])
      PROVE  toClient'[d][i].alerts \subseteq Announced'
    <2> DEFINE message == [sync |-> FALSE, alerts |-> {a}]
    <2>1. message \in Message /\ message.alerts = {a}
        BY DEF Message
    <2>2. toClient[d] \in Seq(Message)
        BY DEF TypeInv, TypeOK
    <2>3. toClient'[d] = toClient[d] \/ toClient'[d] = Append(toClient[d], message)
        BY DEF Broadcast
    <2> HIDE DEF message
    <2>4. \/ i \in 1..Len(toClient[d]) /\ toClient'[d][i] = toClient[d][i]
          \/ toClient'[d][i] = message
        BY <1>3, <2>1, <2>2, <2>3, AppendProperties, LenProperties
    <2> QED
        BY <1>1, <2>1, <2>4 DEF KnownInv
<1> QED
    BY <1>1, <1>2, <1>3 DEF KnownInv

\* Nothing unannounced appears when messages and posts are only taken away.
LEMMA KnownFrame ==
    ASSUME TypeInv, KnownInv, [Next]_vars,
           Readable' \subseteq Announced',
           \A d \in Dashboards : toClient'[d] = toClient[d] \/ toClient'[d] = <<>>,
           posts' \subseteq posts
    PROVE  KnownInv'
<1>1. Announced \subseteq Announced'
    BY StepAnnounced
<1>2. ASSUME NEW d \in Dashboards, NEW i \in 1..Len(toClient'[d])
      PROVE  toClient'[d][i].alerts \subseteq Announced'
    BY <1>1, <1>2, EmptySeq DEF KnownInv
<1> QED
    BY <1>1, <1>2 DEF KnownInv

\* A replay holds announced alerts only.
LEMMA ConnectIsKnown ==
    ASSUME TypeInv, KnownInv, [Next]_vars, NEW d \in Dashboards, Connect(d)
    PROVE  KnownInv'
<1>1. Announced \subseteq Announced'
    BY StepAnnounced
<1>2. /\ toClient' = [toClient EXCEPT ![d] =
                         IF Pending = {} THEN <<>>
                         ELSE <<[sync |-> TRUE, alerts |-> Pending]>>]
      /\ UNCHANGED <<log, posts>>
    BY DEF Connect, fileVars, tabVars
<1>3. Readable' = Readable /\ Pending \subseteq Announced
    BY <1>2, PendingType DEF Readable, LinesOf, KnownInv
<1>4. ASSUME NEW e \in Dashboards, NEW i \in 1..Len(toClient'[e])
      PROVE  toClient'[e][i].alerts \subseteq Announced'
    <2>1. CASE toClient'[e] = toClient[e]
        BY <1>1, <1>4, <2>1 DEF KnownInv
    <2>2. CASE toClient'[e] = <<>>
        BY <1>4, <2>2
    <2>3. CASE toClient'[e] = <<[sync |-> TRUE, alerts |-> Pending]>>
        BY <1>1, <1>3, <1>4, <2>3
    <2> QED
        BY <1>2, <2>1, <2>2, <2>3 DEF TypeInv, TypeOK
<1> QED
    BY <1>1, <1>2, <1>3, <1>4 DEF KnownInv

\* A dashboard posts announced alerts only.
LEMMA ReceivingIsKnown ==
    ASSUME TypeInv, KnownInv, [Next]_vars, NEW d \in Dashboards, ReceiveAlerts(d)
    PROVE  KnownInv'
<1> DEFINE message == Head(toClient[d])
<1>1. /\ toClient[d] \in Seq(Message) /\ toClient[d] # <<>>
      /\ toClient' = [toClient EXCEPT ![d] = Tail(@)]
      /\ posts' = posts \cup [dashboard : {d}, alert : message.alerts]
      /\ log' = log
    BY DEF ReceiveAlerts, fileVars, TypeInv, TypeOK
<1>2. Announced \subseteq Announced' /\ Readable' = Readable
    BY <1>1, StepAnnounced DEF Readable, LinesOf
<1>3. /\ Len(toClient[d]) \in Nat \ {0} /\ message = toClient[d][1]
      /\ Len(Tail(toClient[d])) = Len(toClient[d]) - 1
      /\ \A j \in 1..Len(Tail(toClient[d])) : Tail(toClient[d])[j] = toClient[d][j + 1]
    BY <1>1, HeadTailProperties, EmptySeq
<1> HIDE DEF message
<1>4. message.alerts \subseteq Announced
    <2>1. 1 \in 1..Len(toClient[d])
        BY <1>3
    <2> QED
        BY <1>3, <2>1 DEF KnownInv
<1>5. \A p \in posts' : p.alert \in Announced
    BY <1>1, <1>4 DEF KnownInv
<1>6. ASSUME NEW e \in Dashboards, NEW i \in 1..Len(toClient'[e])
      PROVE  toClient'[e][i].alerts \subseteq Announced
    <2>1. CASE e = d
        <3>1. toClient'[e] = Tail(toClient[d])
            BY <1>1, <2>1 DEF TypeInv, TypeOK
        <3>2. i + 1 \in 1..Len(toClient[d]) /\ toClient'[e][i] = toClient[d][i + 1]
            BY <1>3, <1>6, <3>1
        <3> QED
            BY <3>2 DEF KnownInv
    <2>2. CASE e # d
        <3>1. toClient'[e] = toClient[e]
            BY <1>1, <2>2 DEF TypeInv, TypeOK
        <3> QED
            BY <1>6, <3>1 DEF KnownInv
    <2> QED
        BY <2>1, <2>2
<1> QED
    BY <1>2, <1>5, <1>6 DEF KnownInv

\* No step delivers what was not announced.
LEMMA StepKnown == TypeInv /\ KnownInv /\ [Next]_vars => KnownInv'
<1> SUFFICES ASSUME TypeInv, KnownInv, [Next]_vars PROVE KnownInv'
    OBVIOUS
<1>same. log' = log => Readable' \subseteq Announced'
    BY StepAnnounced DEF Readable, LinesOf, KnownInv
<1>1. ASSUME NEW a \in Alerts, FireAlert(a) \/ FireAlertTorn(a) PROVE KnownInv'
    <2>1. /\ \E outcome : OutboxAppend(a, outcome)
          /\ Broadcast(a)
          /\ posts' = posts
        BY <1>1 DEF FireAlert, FireAlertTorn, tabVars
    <2>2. a \in Announced'
        BY <1>1 DEF FireAlert, FireAlertTorn, Announced, TypeInv, TypeOK
    <2> QED
        BY <2>1, <2>2, FiringIsKnown
<1>2. ASSUME NEW a \in Alerts, CrashWhileFiring(a) PROVE KnownInv'
    <2>1. PICK outcome \in Outcomes :
            /\ OutboxAppend(a, outcome)
            /\ status' = [status EXCEPT ![a] =
                            CASE outcome = "line" -> "recorded"
                              [] outcome = "json" -> "torn"
                              [] OTHER -> "lost"]
        BY <1>2 DEF CrashWhileFiring
    <2>2. outcome \in {"line", "json"} => a \in Announced'
        BY <2>1 DEF Announced, TypeInv, TypeOK
    <2>3. outcome \in {"part", "nothing"} \/ outcome \in {"line", "json"}
        BY DEF Outcomes
    <2>4. Readable' \subseteq Announced'
        BY <2>1, <2>2, <2>3, AppendReadable, StepAnnounced DEF KnownInv
    <2>5. posts' = posts /\ \A d \in Dashboards : toClient'[d] = <<>>
        BY <1>2 DEF CrashWhileFiring, GoDown, tabVars
    <2> QED
        BY <2>4, <2>5, KnownFrame
<1>3. ASSUME NEW d \in Dashboards, Connect(d) PROVE KnownInv'
    BY <1>3, ConnectIsKnown
<1>4. ASSUME NEW d \in Dashboards, ReceiveAlerts(d) PROVE KnownInv'
    BY <1>4, ReceivingIsKnown
<1>5. ASSUME Crash \/ \E d \in Dashboards : Disconnect(d) \/ CloseTab(d) PROVE KnownInv'
    <2>1. log' = log /\ posts' \subseteq posts
        BY <1>5 DEF Crash, Disconnect, CloseTab, fileVars, tabVars
    <2>2. \A e \in Dashboards : toClient'[e] = toClient[e] \/ toClient'[e] = <<>>
        BY <1>5 DEF Crash, GoDown, Disconnect, CloseTab, DropSocket, TypeInv, TypeOK
    <2> QED
        BY <1>same, <2>1, <2>2, KnownFrame
<1>6. ASSUME \/ Restart
             \/ \E d \in Dashboards : ReceiveAck(d) \/ ReceiveAckFails(d) \/ OpenTab(d)
             \/ Api
             \/ UNCHANGED vars
      PROVE  KnownInv'
    <2>1. log' = log /\ toClient' = toClient /\ posts' \subseteq posts
        BY <1>6 DEF Restart, ReceiveAck, ReceiveAckFails, TakeAck, MarkDelivered, OpenTab, Api,
                    PostStored, PostCollides, PostFails, vars, fileVars, socketVars, tabVars
    <2> QED
        BY <1>same, <2>1, KnownFrame
<1> QED
    BY <1>1, <1>2, <1>3, <1>4, <1>5, <1>6 DEF Next, Service, Dashboard

-----------------------------------------------------------------------------
(* A torn tail swallows one alert.                                         *)

\* A line that ends its file is readable, and nothing becomes unreadable but
\* the last line, when the file is open and the append leaves anything.
LEMMA AppendSwallows ==
    ASSUME TypeInv, NEW a \in Alerts, NEW outcome, OutboxAppend(a, outcome)
    PROVE  /\ \A b \in Readable \ Readable' : tailOpen /\ b = log[Len(log)]
           /\ ~tailOpen /\ outcome \in {"line", "json"} => a \in Readable'
           /\ tailOpen' => log'[Len(log')] \in {Torn, a} \/ (tailOpen /\ log' = log)
<1>1. log \in Seq(Alerts \cup {Torn}) /\ (tailOpen => log # <<>>)
    BY DEF TypeInv, TypeOK
<1>2. CASE outcome = "nothing"
    BY <1>2 DEF OutboxAppend, Readable, LinesOf
<1>3. CASE outcome # "nothing" /\ tailOpen
    <2>1. log' = [log EXCEPT ![Len(log)] = Torn]
        BY <1>3 DEF OutboxAppend
    <2>2. Len(log) \in 1..Len(log)
        BY <1>1, <1>3, EmptySeq
    <2>3. /\ Len(log') = Len(log) /\ log'[Len(log)] = Torn
          /\ \A j \in 1..Len(log) : j # Len(log) => log'[j] = log[j]
        BY <1>1, <2>1, <2>2, ExceptSeq
    <2> QED
        BY <1>3, <2>3 DEF Readable, LinesOf
<1>4. CASE outcome # "nothing" /\ ~tailOpen
    <2>1. PICK line \in {a, Torn} :
            log' = Append(log, line) /\ (outcome # "part" => line = a)
        BY <1>4 DEF OutboxAppend
    <2>2. /\ Len(log') = Len(log) + 1
          /\ \A j \in 1..Len(log) : log'[j] = log[j]
          /\ log'[Len(log) + 1] = line
        BY <1>1, <2>1, AppendProperties
    <2>3. Len(log) \in Nat
        BY <1>1, LenProperties
    <2>4. a # Torn
        BY TornAssumption
    <2> QED
        BY <1>4, <2>1, <2>2, <2>3, <2>4 DEF Readable, LinesOf
<1> QED
    BY <1>2, <1>3, <1>4

\* The count holds again when the sets grow as an append lets them grow: by the
\* alert appended behind an open tail, or by the one cut short.
LEMMA SwallowCount ==
    ASSUME SwallowInv, NEW a, tailOpen \in BOOLEAN, tailOpen' \in BOOLEAN,
           \/ /\ Broken' = Broken /\ ~tailOpen'
              /\ Swallowed' \subseteq Swallowed \cup (IF tailOpen THEN {a} ELSE {})
           \/ /\ Broken' = Broken \cup {a} /\ a \notin Broken
              /\ Swallowed' \subseteq Swallowed
    PROVE  IsFiniteSet(Swallowed') /\ IsFiniteSet(Broken') /\ CountHolds'
<1>1. /\ IsFiniteSet(Swallowed) /\ Cardinality(Swallowed) \in Nat
      /\ IsFiniteSet(Broken) /\ Cardinality(Broken) \in Nat
    BY FS_CardinalityType DEF SwallowInv
<1>2. Cardinality(Swallowed) <= Cardinality(Broken) /\ (tailOpen => Cardinality(Swallowed) < Cardinality(Broken))
    BY DEF SwallowInv, CountHolds
<1>3. CASE /\ Broken' = Broken /\ ~tailOpen'
           /\ Swallowed' \subseteq Swallowed \cup (IF tailOpen THEN {a} ELSE {})
    <2>1. CASE tailOpen
        <3>1. /\ IsFiniteSet(Swallowed \cup {a})
              /\ Cardinality(Swallowed \cup {a}) \in {Cardinality(Swallowed), Cardinality(Swallowed) + 1}
            BY <1>1, FS_AddElement, Zenon
        <3>2. /\ IsFiniteSet(Swallowed') /\ Cardinality(Swallowed') \in Nat
              /\ Cardinality(Swallowed') <= Cardinality(Swallowed \cup {a})
            BY <1>3, <2>1, <3>1, FS_Subset, FS_CardinalityType
        <3>3. Cardinality(Swallowed \cup {a}) \in Nat
            BY <3>1, FS_CardinalityType
        <3> QED
            BY <1>1, <1>2, <1>3, <2>1, <3>1, <3>2, <3>3 DEF CountHolds
    <2>2. CASE ~tailOpen
        <3>1. /\ IsFiniteSet(Swallowed') /\ Cardinality(Swallowed') \in Nat
              /\ Cardinality(Swallowed') <= Cardinality(Swallowed)
            BY <1>1, <1>3, <2>2, FS_Subset, FS_CardinalityType
        <3> QED
            BY <1>1, <1>2, <1>3, <3>1 DEF CountHolds
    <2> QED
        BY <2>1, <2>2
<1>4. CASE /\ Broken' = Broken \cup {a} /\ a \notin Broken
           /\ Swallowed' \subseteq Swallowed
    <2>1. IsFiniteSet(Broken') /\ Cardinality(Broken') = Cardinality(Broken) + 1
        BY <1>1, <1>4, FS_AddElement
    <2>2. /\ IsFiniteSet(Swallowed') /\ Cardinality(Swallowed') \in Nat
          /\ Cardinality(Swallowed') <= Cardinality(Swallowed)
        BY <1>1, <1>4, FS_Subset, FS_CardinalityType
    <2> QED
        BY <1>1, <1>2, <2>1, <2>2 DEF CountHolds
<1> QED
    BY <1>3, <1>4

\* What an append of an alert, with what becomes of it, does to the count.
LEMMA FiringSwallows ==
    ASSUME TypeInv, SwallowInv, NEW a \in Alerts, NEW outcome, status[a] = "quiet",
           OutboxAppend(a, outcome), NEW s, status' = [status EXCEPT ![a] = s],
           \/ outcome = "line" /\ s = "recorded"
           \/ outcome # "line" /\ s \in {"torn", "lost"}
    PROVE  SwallowInv'
<1>1. \A b \in Readable \ Readable' : tailOpen /\ b = log[Len(log)]
    BY AppendSwallows
<1>2. ~tailOpen /\ outcome \in {"line", "json"} => a \in Readable'
    BY AppendSwallows
<1>3. tailOpen' => log'[Len(log')] \in {Torn, a} \/ (tailOpen /\ log' = log)
    BY AppendSwallows
<1>4. tailOpen \in BOOLEAN /\ tailOpen' \in BOOLEAN
    BY AppendType DEF TypeInv, TypeOK
<1>5. status'[a] = s /\ \A b \in Alerts : b # a => status'[b] = status[b]
    BY DEF TypeInv, TypeOK
<1>6. tailOpen => log[Len(log)] \in {Torn} \cup Broken
    BY DEF SwallowInv
<1>7. \A b \in Alerts : status[b] = "recorded" /\ b \in Readable => b \in Readable'
    BY <1>1, <1>6, TornAssumption DEF Broken
<1>8. Swallowed' \subseteq Swallowed \cup {a}
    BY <1>5, <1>7 DEF Swallowed
<1>9. CASE outcome = "line" /\ s = "recorded"
    <2>1. Broken' = Broken
        BY <1>5, <1>9 DEF Broken
    <2>2. ~tailOpen'
        BY <1>9 DEF OutboxAppend
    <2>3. Swallowed' \subseteq Swallowed \cup (IF tailOpen THEN {a} ELSE {})
        BY <1>2, <1>8, <1>9 DEF Swallowed
    <2>4. IsFiniteSet(Swallowed') /\ IsFiniteSet(Broken') /\ CountHolds'
        BY <1>4, <2>1, <2>2, <2>3, SwallowCount
    <2> QED
        BY <2>2, <2>4 DEF SwallowInv
<1>10. CASE outcome # "line" /\ s \in {"torn", "lost"}
    <2>1. Broken' = Broken \cup {a} /\ a \notin Broken
        BY <1>5, <1>10 DEF Broken
    <2>2. Swallowed' \subseteq Swallowed
        BY <1>5, <1>8, <1>10 DEF Swallowed
    <2>3. IsFiniteSet(Swallowed') /\ IsFiniteSet(Broken') /\ CountHolds'
        BY <1>4, <2>1, <2>2, SwallowCount
    <2>4. tailOpen' => log'[Len(log')] \in {Torn} \cup Broken'
        BY <1>3, <1>6, <2>1
    <2> QED
        BY <2>3, <2>4 DEF SwallowInv
<1> QED
    BY <1>9, <1>10

\* An append with what becomes of its alert keeps the invariant; no other step
\* touches the log or the fate of an alert.
LEMMA StepSwallow == TypeInv /\ SwallowInv /\ [Next]_vars => SwallowInv'
<1> SUFFICES ASSUME TypeInv, SwallowInv, [Next]_vars PROVE SwallowInv'
    OBVIOUS
<1>1. ASSUME NEW a \in Alerts, FireAlert(a) PROVE SwallowInv'
    <2>1. /\ status[a] = "quiet" /\ OutboxAppend(a, "line")
          /\ status' = [status EXCEPT ![a] = "recorded"]
        BY <1>1 DEF FireAlert
    <2> QED
        BY <2>1, FiringSwallows
<1>2. ASSUME NEW a \in Alerts, FireAlertTorn(a) PROVE SwallowInv'
    <2>1. PICK outcome \in Outcomes \ {"line"} : OutboxAppend(a, outcome)
        BY <1>2 DEF FireAlertTorn
    <2>2. status[a] = "quiet" /\ status' = [status EXCEPT ![a] = "torn"]
        BY <1>2 DEF FireAlertTorn
    <2> QED
        BY <2>1, <2>2, FiringSwallows
<1>3. ASSUME NEW a \in Alerts, CrashWhileFiring(a) PROVE SwallowInv'
    <2>1. PICK outcome \in Outcomes :
            /\ OutboxAppend(a, outcome)
            /\ status' = [status EXCEPT ![a] =
                             CASE outcome = "line" -> "recorded"
                               [] outcome = "json" -> "torn"
                               [] OTHER -> "lost"]
        BY <1>3 DEF CrashWhileFiring
    <2>2. status[a] = "quiet"
        BY <1>3 DEF CrashWhileFiring
    <2>3. CASE outcome = "line"
        <3>1. status' = [status EXCEPT ![a] = "recorded"]
            BY <2>1, <2>3
        <3> QED
            BY <2>1, <2>2, <2>3, <3>1, FiringSwallows
    <2>4. CASE outcome = "json"
        <3>1. status' = [status EXCEPT ![a] = "torn"]
            BY <2>1, <2>4
        <3> QED
            BY <2>1, <2>2, <2>4, <3>1, FiringSwallows
    <2>5. CASE outcome \notin {"line", "json"}
        <3>1. status' = [status EXCEPT ![a] = "lost"]
            BY <2>1, <2>5
        <3> QED
            BY <2>1, <2>2, <2>5, <3>1, FiringSwallows
    <2> QED
        BY <2>3, <2>4, <2>5
<1>4. CASE UNCHANGED <<log, tailOpen, status>>
    BY <1>4 DEF SwallowInv, CountHolds, Swallowed, Broken, Readable, LinesOf
<1> QED
    BY <1>1, <1>2, <1>3, <1>4
    DEF Next, Service, Dashboard, Api, Crash, Restart, Connect, ReceiveAck, ReceiveAckFails,
        TakeAck, MarkDelivered, ReceiveAlerts, Disconnect, CloseTab, OpenTab, PostStored,
        PostCollides, PostFails, vars, fileVars

-----------------------------------------------------------------------------
(* No step does what AlertLog does not allow.                              *)

\* A step that fires an alert raises its key or shows it to nobody, a post that
\* is stored stores a raised key, and every other step is a stutter.
LEMMA StepLog == TypeInv /\ KnownInv /\ [Next]_vars => [Log!LogNext]_(Log!logVars)
<1> SUFFICES ASSUME TypeInv, KnownInv, [Next]_vars
             PROVE  [Log!LogNext]_(Log!logVars)
    OBVIOUS
<1> DEFINE raised == {KeyOf[a] : a \in Announced}
           stored == {r.key : r \in rows}
<1>log. /\ Log!logVars = <<raised, stored>> /\ Log!logVars' = <<raised', stored'>>
        /\ \A k : Log!Raise(k) <=> raised' = raised \cup {k} /\ stored' = stored
        /\ \A k : Log!Store(k) <=> /\ k \in raised
                                   /\ stored' = stored \cup {k}
                                   /\ raised' = raised
    BY DEF Log!logVars, Log!Raise, Log!Store, Announced
<1>key. \A a \in Alerts : KeyOf[a] \in Keys
    BY KeyAssumption
<1>1. ASSUME NEW a \in Alerts,
             FireAlert(a) \/ FireAlertTorn(a) \/ CrashWhileFiring(a)
      PROVE  Announced' = Announced \/ Announced' = Announced \cup {a}
    <2>1. PICK s : status' = [status EXCEPT ![a] = s]
        BY <1>1 DEF FireAlert, FireAlertTorn, CrashWhileFiring
    <2>2. status[a] = "quiet"
        BY <1>1 DEF FireAlert, FireAlertTorn, CrashWhileFiring
    <2>3. \A b \in Alerts : status'[b] = IF b = a THEN s ELSE status[b]
        BY <2>1 DEF TypeInv, TypeOK
    <2>4. \A b : b \in Announced' <=> b \in Alerts /\ status'[b] \in {"recorded", "torn"}
        BY DEF Announced
    <2> QED
        BY <2>2, <2>3, <2>4 DEF Announced
<1>2. ASSUME NEW a \in Alerts,
             FireAlert(a) \/ FireAlertTorn(a) \/ CrashWhileFiring(a)
      PROVE  [Log!LogNext]_(Log!logVars)
    <2>1. rows' = rows
        BY <1>2 DEF FireAlert, FireAlertTorn, CrashWhileFiring
    <2>2. stored' = stored
        BY <2>1
    <2>3. raised' = raised \/ raised' = raised \cup {KeyOf[a]}
        BY <1>1, <1>2
    <2> HIDE DEF raised, stored
    <2> QED
        BY <1>log, <1>key, <2>2, <2>3 DEF Log!LogNext
<1>3. ASSUME NEW p \in posts, PostStored(p) \/ PostCollides(p)
      PROVE  [Log!LogNext]_(Log!logVars)
    <2>1. p.alert \in Alerts /\ p.alert \in Announced
        BY DEF KnownInv, Announced
    <2>2. Announced' = Announced
        BY <1>3 DEF PostStored, PostCollides, Announced
    <2>3. KeyOf[p.alert] \in raised /\ raised' = raised
        BY <2>1, <2>2
    <2>4. stored' = stored \/ stored' = stored \cup {KeyOf[p.alert]}
        <3>1. rows' = rows \/ rows' = rows \cup {NewRow(p)}
            BY <1>3 DEF PostStored, PostCollides
        <3>2. NewRow(p).key = KeyOf[p.alert]
            BY DEF NewRow
        <3> QED
            BY <3>1, <3>2
    <2> HIDE DEF raised, stored
    <2> QED
        BY <1>log, <1>key, <2>1, <2>3, <2>4 DEF Log!LogNext
<1>4. CASE UNCHANGED <<status, rows>>
    <2>1. raised' = raised /\ stored' = stored
        BY <1>4 DEF Announced
    <2> HIDE DEF raised, stored
    <2> QED
        BY <1>log, <2>1
<1> QED
    BY <1>2, <1>3, <1>4
    DEF Next, Service, Dashboard, Api, Crash, Restart, Connect, ReceiveAck, ReceiveAckFails,
        TakeAck, ReceiveAlerts, Disconnect, CloseTab, OpenTab, PostFails, vars, tabVars

-----------------------------------------------------------------------------
(* No announced alert is forgotten while appends are whole.                *)

\* Only an append that is cut short ends the time in which appends are whole.
LEMMA StepWhole == TypeInv /\ [Next]_vars /\ Whole' => Whole
<1> SUFFICES ASSUME TypeInv, [Next]_vars PROVE faults' = faults \/ faults' = faults + 1
    BY FaultAssumption DEF Whole, TypeInv, TypeOK
<1> QED
    BY DEF Next, Service, Dashboard, Api, FireAlert, FireAlertTorn, CrashWhileFiring, Crash,
           Restart, Connect, ReceiveAck, ReceiveAckFails, TakeAck, ReceiveAlerts, Disconnect,
           CloseTab, OpenTab, PostStored, PostCollides, PostFails, vars, Fault

\* A fault leaves appends whole only where no append can be cut short.
LEMMA FaultIsWhole == TypeInv /\ Fault /\ Whole' => ~WritesTear
BY FaultAssumption DEF Whole, Fault, TypeInv, TypeOK

\* A whole line behind whole lines is readable, and hides none of them.
LEMMA WholeLine ==
    ASSUME TypeInv, NEW a \in Alerts, ~tailOpen, OutboxAppend(a, "line")
    PROVE  ~tailOpen' /\ Readable \cup {a} \subseteq Readable'
<1>1. log \in Seq(Alerts \cup {Torn}) /\ a \in Alerts \cup {Torn} /\ a # Torn
    BY TornAssumption DEF TypeInv, TypeOK
<1>2. log' = Append(log, a) /\ ~tailOpen'
    BY DEF OutboxAppend
<1>3. /\ Len(log') = Len(log) + 1
      /\ \A j \in 1..Len(log) : log'[j] = log[j]
      /\ log'[Len(log) + 1] = a
    BY <1>1, <1>2, AppendProperties
<1>4. Len(log) \in Nat
    BY <1>1, LenProperties
<1> QED
    BY <1>1, <1>2, <1>3, <1>4 DEF Readable, LinesOf

\* The outbox keeps what it is given until an append is cut short.
LEMMA StepKept == TypeInv /\ KeptInv /\ [Next]_vars => KeptInv'
<1> SUFFICES ASSUME TypeInv, KeptInv, [Next]_vars, Whole'
             PROVE  ~tailOpen' /\ Announced' \subseteq Readable'
    BY DEF KeptInv
<1>whole. Whole /\ ~tailOpen /\ Announced \subseteq Readable
    BY StepWhole DEF KeptInv
<1>status. ASSUME NEW a \in Alerts, NEW s, status' = [status EXCEPT ![a] = s]
           PROVE  Announced' \subseteq Announced \cup {a}
    BY <1>status DEF Announced, TypeInv, TypeOK
<1>1. ASSUME NEW a \in Alerts, FireAlert(a)
      PROVE  ~tailOpen' /\ Announced' \subseteq Readable'
    <2>1. Announced' \subseteq Announced \cup {a}
        BY <1>1, <1>status DEF FireAlert
    <2>2. OutboxAppend(a, "line")
        BY <1>1 DEF FireAlert
    <2> QED
        BY <1>whole, <2>1, <2>2, WholeLine
<1>2. ASSUME NEW a \in Alerts, FireAlertTorn(a) PROVE FALSE
    BY <1>2, FaultIsWhole DEF FireAlertTorn
<1>3. ASSUME NEW a \in Alerts, CrashWhileFiring(a)
      PROVE  ~tailOpen' /\ Announced' \subseteq Readable'
    <2>1. ~WritesTear
        BY <1>3, FaultIsWhole DEF CrashWhileFiring
    <2>2. CASE /\ OutboxAppend(a, "line")
               /\ status' = [status EXCEPT ![a] = "recorded"]
        <3>1. Announced' \subseteq Announced \cup {a}
            BY <1>status, <2>2
        <3> QED
            BY <1>whole, <2>2, <3>1, WholeLine
    <2>3. CASE /\ OutboxAppend(a, "nothing")
               /\ status' = [status EXCEPT ![a] = "lost"]
        <3>1. Announced' \subseteq Announced
            BY <2>3 DEF Announced, TypeInv, TypeOK
        <3>2. log' = log /\ tailOpen' = tailOpen
            BY <2>3 DEF OutboxAppend
        <3> QED
            BY <1>whole, <3>1, <3>2 DEF Readable, LinesOf
    <2> QED
        BY <1>3, <2>1, <2>2, <2>3 DEF CrashWhileFiring, Outcomes
<1>4. CASE UNCHANGED <<log, tailOpen, status>>
    BY <1>4, <1>whole DEF Readable, LinesOf, Announced
<1> QED
    BY <1>1, <1>2, <1>3, <1>4
    DEF Next, Service, Dashboard, Api, Crash, Restart, Connect, ReceiveAck, ReceiveAckFails,
        TakeAck, MarkDelivered, ReceiveAlerts, Disconnect, CloseTab, OpenTab, PostStored,
        PostCollides, PostFails, vars, fileVars

\* No step puts an alert into a list without posting it.
LEMMA StepSeen == TypeInv /\ SeenInv /\ [Next]_vars => SeenInv'
<1> SUFFICES ASSUME TypeInv, SeenInv, [Next]_vars PROVE SeenInv'
    OBVIOUS
<1>1. \A a : Handled(a) => Handled(a)'
    BY StepHandled
<1>2. ASSUME NEW d \in Dashboards, ReceiveAlerts(d) PROVE SeenInv'
    <2> DEFINE message == Head(toClient[d])
    <2>1. /\ seen' = [seen EXCEPT ![d] = @ \cup message.alerts]
          /\ posts' = posts \cup [dashboard : {d}, alert : message.alerts]
        BY <1>2 DEF ReceiveAlerts
    <2> HIDE DEF message
    <2>2. ASSUME NEW a \in message.alerts PROVE Handled(a)'
        <3>1. [dashboard |-> d, alert |-> a] \in posts'
            BY <2>1
        <3> QED
            BY <3>1 DEF Handled, InFlight
    <2>3. \A e \in Dashboards : seen'[e] \subseteq seen[e] \cup message.alerts
        BY <2>1 DEF TypeInv, TypeOK
    <2> QED
        BY <1>1, <2>2, <2>3 DEF SeenInv
<1>3. CASE \A d \in Dashboards : seen'[d] \subseteq seen[d]
    BY <1>1, <1>3 DEF SeenInv
<1>4. ASSUME NEW d \in Dashboards, CloseTab(d) PROVE \A e \in Dashboards : seen'[e] \subseteq seen[e]
    BY <1>4 DEF CloseTab, TypeInv, TypeOK
<1> QED
    BY <1>2, <1>3, <1>4
    DEF Next, Service, Dashboard, Api, FireAlert, FireAlertTorn, CrashWhileFiring, Crash,
        Restart, Connect, ReceiveAck, ReceiveAckFails, TakeAck, Disconnect, OpenTab,
        PostStored, PostCollides, PostFails, vars, tabVars

\* An alert nobody has posted is in the outbox, unacknowledged, hence not yet in
\* any list and still under way to every dashboard that is connected.
LEMMA NotForgotten ==
    TypeInv /\ MissedInv /\ AckInv /\ KeptInv /\ SeenInv => NothingForgotten
<1> SUFFICES ASSUME TypeInv, MissedInv, AckInv, KeptInv, SeenInv, Whole,
                    NEW a \in Announced, ~Handled(a)
             PROVE  a \in Pending /\ \A d \in connected : OnItsWayTo(d, a)
    BY DEF NothingForgotten
<1>1. a \in Readable
    BY DEF KeptInv
<1>2. a \notin acked
    BY DEF AckInv
<1>3. a \in Pending
    BY <1>1, <1>2 DEF MissedInv, Pending
<1>4. ASSUME NEW d \in connected PROVE OnItsWayTo(d, a)
    <2>1. a \notin seen[d]
        BY DEF SeenInv, TypeInv, TypeOK
    <2> QED
        BY <1>1, <1>2, <2>1 DEF MissedInv, NothingMissed
<1> QED
    BY <1>3, <1>4

-----------------------------------------------------------------------------
(* The theorems.                                                           *)

\* At the start nothing is acknowledged, announced, under way or stored.
LEMMA InitInvs ==
    Init => /\ MissedInv /\ AckInv /\ KnownInv /\ KeptInv /\ SeenInv
            /\ SwallowInv /\ Log!LogInit
<1> SUFFICES ASSUME Init
             PROVE  /\ MissedInv /\ AckInv /\ KnownInv /\ KeptInv /\ SeenInv
                    /\ SwallowInv /\ Log!LogInit
    OBVIOUS
<1>1. Readable = {} /\ Announced = {}
    BY DEF Init, Readable, LinesOf, Announced
<1>2. /\ \A d \in Dashboards : toClient[d] = <<>> /\ toServer[d] = <<>>
      /\ connected = {} /\ delivered = {} /\ acked = {} /\ posts = {} /\ rows = {}
    BY DEF Init
<1>3. MissedInv /\ AckInv /\ KnownInv
    BY <1>1, <1>2 DEF MissedInv, NothingMissed, AckInv, KnownInv
<1>4. KeptInv /\ SeenInv
    BY <1>1 DEF Init, KeptInv, SeenInv
<1>5. SwallowInv
    <2>1. Swallowed = {} /\ Broken = {} /\ ~tailOpen
        BY DEF Init, Swallowed, Broken
    <2> QED
        BY <2>1, FS_EmptySet DEF SwallowInv, CountHolds
<1> QED
    BY <1>1, <1>2, <1>3, <1>4, <1>5 DEF Log!LogInit, Announced

\* The types and what they rest on hold in every state.
LEMMA TypesHold == Spec => []TypeInv
<1> QED
    BY InitType, StepType, PTL DEF Spec

\* The outbox files, the sockets, the requests and the table have their types
\* in every state (outbox.ts, index.ts, page.tsx, route.ts).
THEOREM TypeCorrect == Spec => []TypeOK
<1>1. TypeInv => TypeOK
    BY DEF TypeInv
<1> QED
    BY <1>1, TypesHold, PTL

\* A connected dashboard has, or is being sent, every unacknowledged alert of
\* the outbox, whatever is fired, torn, crashed, dropped, closed and reopened
\* (io.on('connection') in index.ts, pending in outbox.ts).
THEOREM DashboardsMissNothing == Spec => []NothingMissed
<1>1. Init => MissedInv
    BY InitInvs
<1>2. MissedInv => NothingMissed
    BY DEF MissedInv
<1> QED
    BY <1>1, <1>2, StepMissed, TypesHold, PTL DEF Spec

\* An acknowledged alert is stored, posted, or lost with a post that failed or
\* was cancelled: an acknowledgement never overtakes the post of its alert
\* (the outbox-sync handler of page.tsx, markDelivered in outbox.ts).
THEOREM AckedNotForgotten == Spec => []AckedIsStoredOrPosted
<1>1. Init => AckInv
    BY InitInvs
<1>2. AckInv => AckedIsStoredOrPosted
    BY DEF AckInv, AckedIsStoredOrPosted, Handled
<1> QED
    BY <1>1, <1>2, StepAck, TypesHold, PTL DEF Spec

\* However many appends are cut short, at most one whole line for each of them
\* is unreadable: the next append runs on in the open line and closes it, and no
\* line before it is lost (append and pending in outbox.ts).
THEOREM AtMostOneSwallowed == Spec => []TornTailsSwallowOne
<1>1. Init => SwallowInv
    BY InitInvs
<1>2. SwallowInv => TornTailsSwallowOne
    BY DEF SwallowInv, CountHolds, Swallowed, Broken, TornTailsSwallowOne
<1> QED
    BY <1>1, <1>2, StepSwallow, TypesHold, PTL DEF Spec

\* Whatever fails, only alerts that the service raised are stored, and what is
\* raised or stored stays so: the safety half of AlertLog.
THEOREM DeliverySafe == Spec => Log!LogSafety
<1>1. Init => KnownInv /\ Log!LogInit
    BY InitInvs
<1> QED
    BY <1>1, StepKnown, StepLog, TypesHold, PTL DEF Spec, Log!LogSafety

\* While no append has been cut short, an announced alert has had a post, or it
\* waits in the outbox for the next connection and is under way to every
\* dashboard that is connected: whatever crashes, drops, closes and fails, a
\* step that fairness promises is left to take until each alert is posted
\* (outboxAppend and io.emit in index.ts, pending in outbox.ts, page.tsx).
THEOREM RaisedNotForgotten == Spec => []NothingForgotten
<1>1. Init => MissedInv /\ AckInv /\ KeptInv /\ SeenInv
    BY InitInvs
<1> QED
    BY <1>1, StepMissed, StepAck, StepKept, StepSeen, NotForgotten, TypesHold, PTL DEF Spec

=============================================================================
