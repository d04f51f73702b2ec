----------------------------- MODULE FeedHealth -----------------------------
(***************************************************************************)
(* Is the feed alive, and do the dashboards know?  The connection to        *)
(* Binance (connectBinance of binance-stream/index.ts), the staleness       *)
(* heartbeat, the `status` messages over socket.io, and what page.tsx makes *)
(* of them.  A connection may die silently: it stays open and brings        *)
(* nothing.                                                                 *)
(***************************************************************************)
EXTENDS Integers, Sequences

CONSTANTS Tabs,         \* open dashboards
          StaleAfter,   \* STALE_AFTER_MS: 15 s
          BeatEvery,    \* the heartbeat's interval: 5 s
          MaxInTransit  \* bound: messages on their way to a tab

VARIABLES ws,        \* binanceWs: "connecting", "open", or "closed" until the timer is due
          silence,   \* time since lastTickAt, or Never
          beat,      \* time since the heartbeat
          link,      \* tabs with a socket.io connection
          inbox,     \* tab -> events it has still to handle
          shown,     \* tab -> isConnected of its store
          told       \* history: tab -> has handled a stale status in this silence

vars == <<ws, silence, beat, link, inbox, shown, told>>

Never == -1
Connected == [event |-> "connect"]
Disconnected == [event |-> "disconnect"]
Status(stale) == [event |-> "status", connected |-> ws' = "open", stale |-> stale]
Events == {Connected, Disconnected}
          \cup [event : {"status"}, connected : BOOLEAN, stale : BOOLEAN]

Init ==
  /\ ws = "connecting" /\ silence = Never /\ beat = 0
  /\ link = {} /\ inbox = [t \in Tabs |-> <<>>]
  /\ shown = [t \in Tabs |-> FALSE] /\ told = [t \in Tabs |-> FALSE]

\* io.emit
Broadcast(m) ==
  /\ \A t \in link : Len(inbox[t]) < MaxInTransit
  /\ inbox' = [t \in Tabs |-> IF t \in link THEN Append(inbox[t], m) ELSE inbox[t]]

-----------------------------------------------------------------------------
(* The connection to Binance *)

Opened ==
  /\ ws = "connecting" /\ ws' = "open"
  /\ Broadcast(Status(FALSE))
  /\ UNCHANGED <<silence, beat, link, shown, told>>

\* (mutant: the last tick is forgotten)
ClosedForgets ==
  /\ ws \in {"connecting", "open"} /\ ws' = "closed" /\ silence' = Never
  /\ Broadcast(Status(FALSE))
  /\ UNCHANGED <<beat, link, shown, told>>

\* after an error, too
Closed ==
  /\ ws \in {"connecting", "open"} /\ ws' = "closed"
  /\ Broadcast(Status(FALSE))
  /\ UNCHANGED <<silence, beat, link, shown, told>>

\* setTimeout(connectBinance, 2000)
ConnectBinance ==
  /\ ws = "closed" /\ ws' = "connecting"
  /\ UNCHANGED <<silence, beat, link, inbox, shown, told>>

\* A depth message of the anchor, and of no other stream, stamps lastTickAt.
AnchorDepth ==
  /\ ws = "open" /\ silence' = 0 /\ told' = [t \in Tabs |-> FALSE]
  /\ UNCHANGED <<ws, beat, link, inbox, shown>>

-----------------------------------------------------------------------------
(* The heartbeat *)

Elapse ==
  /\ beat < BeatEvery /\ beat' = beat + 1
  /\ silence' = IF silence \in 0..StaleAfter THEN silence + 1 ELSE silence
  /\ UNCHANGED <<ws, link, inbox, shown, told>>

Stale == silence # Never /\ silence > StaleAfter

\* Before the first tick it says nothing, however long that takes.
Heartbeat ==
  /\ beat = BeatEvery /\ beat' = 0
  /\ UNCHANGED <<ws, silence, link, shown, told>>
  /\ IF Stale THEN Broadcast(Status(TRUE)) ELSE UNCHANGED inbox

-----------------------------------------------------------------------------
(* The dashboards *)

\* (mutant: a new dashboard is not told the status)
ConnectUntold(t) ==
  /\ t \notin link /\ inbox[t] = <<>>
  /\ link' = link \cup {t} /\ inbox' = [inbox EXCEPT ![t] = <<Connected>>]
  /\ UNCHANGED <<ws, silence, beat, shown, told>>

\* io.on('connection')
Connect(t) ==
  /\ t \notin link /\ inbox[t] = <<>>
  /\ UNCHANGED <<ws, silence, beat, shown, told>>
  /\ link' = link \cup {t}
  /\ inbox' = [inbox EXCEPT ![t] = <<Connected, Status(FALSE)>>]

\* What was on its way is lost.
DropSocket(t) ==
  /\ t \in link /\ link' = link \ {t}
  /\ inbox' = [inbox EXCEPT ![t] = <<Disconnected>>]
  /\ UNCHANGED <<ws, silence, beat, shown, told>>

\* The service dies and its container is restarted.
Restart ==
  /\ ws' = "connecting" /\ silence' = Never /\ beat' = 0
  /\ link' = {}
  /\ inbox' = [t \in Tabs |-> IF t \in link THEN <<Disconnected>> ELSE inbox[t]]
  /\ told' = [t \in Tabs |-> FALSE]
  /\ UNCHANGED shown

\* s.on('connect'), s.on('disconnect'), s.on('status'): setConnected
ShownAs(m) == m.event = "connect" \/ (m.event = "status" /\ m.connected)
Receive(t) ==
  /\ inbox[t] # <<>>
  /\ inbox' = [inbox EXCEPT ![t] = Tail(@)]
  /\ LET m == Head(inbox[t]) IN
     /\ shown' = [shown EXCEPT ![t] = ShownAs(m)]
     /\ told' = [told EXCEPT ![t] = @ \/ (m.event = "status" /\ m.stale)]
  /\ UNCHANGED <<ws, silence, beat, link>>

Next == \/ Opened \/ Closed \/ ConnectBinance \/ AnchorDepth \/ Elapse \/ Heartbeat \/ Restart
        \/ \E t \in Tabs : Connect(t) \/ DropSocket(t) \/ Receive(t)

\* Timers run (the heartbeat whenever MaxInTransit leaves it room), and a tab
\* handles what it receives.  Nothing makes Binance take a connection, or send.
Fairness == /\ WF_vars(Elapse) /\ SF_vars(Heartbeat)
            /\ \A t \in Tabs : WF_vars(Receive(t))
Spec == Init /\ [][Next]_vars /\ Fairness

-----------------------------------------------------------------------------
TypeOK ==
  /\ ws \in {"connecting", "open", "closed"}
  /\ silence \in Never..(StaleAfter + 1) /\ beat \in 0..BeatEvery
  /\ link \subseteq Tabs
  /\ inbox \in [Tabs -> Seq(Events)] /\ \A t \in Tabs : Len(inbox[t]) <= MaxInTransit
  /\ shown \in [Tabs -> BOOLEAN] /\ told \in [Tabs -> BOOLEAN]

\* "a dark dashboard must be distinguishable from calm": a tab that has
\* handled its events shows "connected" exactly when it hears the service and
\* the service has an open connection to Binance, whichever of the two was
\* lost and came back first.
ShowsTheFeed ==
  \A t \in Tabs : inbox[t] = <<>> => (shown[t] <=> t \in link /\ ws = "open")

\* A feed that goes silent, its connection closed or not, is reported to every
\* tab that stays connected, unless a tick comes after all.  (Only a feed that
\* has brought a tick since the service started: see Heartbeat.)
SilenceIsReported ==
  \A t \in Tabs : t \in link /\ Stale ~> told[t] \/ t \notin link \/ silence = 0
=============================================================================
