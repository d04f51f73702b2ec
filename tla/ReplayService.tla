---------------------------- MODULE ReplayService ----------------------------
(***************************************************************************)
(* The replay service (binance-stream/replay-service.ts) and the views of   *)
(* it (ReplayView.tsx).  One day, one position and one timer are shared by  *)
(* all views: any of them loads, plays, pauses, seeks.  Commands and events *)
(* travel over socket.io, in order and until the connection drops.          *)
(*                                                                         *)
(* A day is a name; its points are 1..Length.  A page sees the others' acts *)
(* only through the service, so pages besides Views are but the commands    *)
(* they send.                                                               *)
(***************************************************************************)
EXTENDS Naturals, Sequences

CONSTANTS Views,        \* open pages
          Others,       \* whether there are other pages
          Days,         \* labels with a file
          Length,       \* points of a day
          Speeds,       \* points of a tick
          MaxInTransit  \* bound: commands, and events, on their way

None == "none"          \* no day; also a label without a file
Other == "other"        \* a page that is not of Views

VARIABLES day, index, playing, speed,
          timers,   \* live setIntervals
          link,     \* views with a connection
          sent,     \* view -> commands on their way
          inbox,    \* view -> events on their way
          button,   \* view -> playing, as it shows it
          shown,    \* view -> its points: the day, the last, and whether each follows the one before
          moved     \* history: views another view has moved since the last points

server == <<day, index, playing, speed, timers>>
vars == <<server, link, sent, inbox, button, shown, moved>>

Empty == [day |-> None, last |-> 0, joined |-> TRUE]
Command(name, arg) == [name |-> name, arg |-> arg]
Load == [event : {"load"}, day : Days \cup {None}]
Data == [event : {"data"}, day : Days, from : Nat, to : Nat, moved : SUBSET Views]
State == [event : {"state"}, playing : BOOLEAN]
Loaded(d) == [event |-> "load", day |-> d]
StateOf(p) == [event |-> "state", playing |-> p]
Commands == [name : {"load"}, arg : Days \cup {None}] \cup [name : {"play", "pause"}, arg : {0}]
            \cup [name : {"speed"}, arg : Speeds] \cup [name : {"seek"}, arg : 0..Length]

Init ==
  /\ day = None /\ index = 0 /\ playing = FALSE /\ speed \in Speeds /\ timers = 0
  /\ link = {} /\ inbox = [v \in Views |-> <<>>]
  /\ sent \in [Views -> {<<Command("load", d)>> : d \in Days \cup {None}}]
  /\ button = [v \in Views |-> FALSE] /\ shown = [v \in Views |-> Empty] /\ moved = {}

Room(v, n) == Len(inbox[v]) + n <= MaxInTransit
Emit(events) ==
  /\ \A v \in link : Room(v, Len(events))
  /\ inbox' = [v \in Views |-> IF v \in link THEN inbox[v] \o events ELSE inbox[v]]

-----------------------------------------------------------------------------
(* replay-service.ts *)

Min2(a, b) == IF a < b THEN a ELSE b
Points(n) == [event |-> "data", day |-> day, from |-> index + 1, to |-> n, moved |-> moved]

\* (mutant: the end stops nothing)
TickRunsOn ==
  /\ timers > 0 /\ day # None /\ playing
  /\ index' = Min2(Length, index + speed)
  /\ Emit((IF index < Length THEN <<Points(index')>> ELSE <<>>) \o <<StateOf(TRUE)>>)
  /\ moved' = IF index < Length THEN {} ELSE moved
  /\ UNCHANGED <<playing, timers, day, speed, link, sent, button, shown>>

\* What an interval calls; with no day it does nothing, and goes on.
Tick ==
  /\ timers > 0 /\ day # None /\ playing
  /\ index' = Min2(Length, index + speed)
  /\ playing' = (index' < Length) /\ timers' = IF playing' THEN timers ELSE timers - 1
  /\ Emit((IF index < Length THEN <<Points(index')>> ELSE <<>>) \o <<StateOf(playing')>>)
  /\ moved' = IF index < Length THEN {} ELSE moved
  /\ UNCHANGED <<day, speed, link, sent, button, shown>>

\* (mutant: the interval before is not cleared)
ScheduleAnother == timers' = timers + 1
Schedule == timers' = 1

\* (mutant: the loader is not told)
OnLoadQuietly(v, d) ==
  /\ day' = d /\ index' = 0 /\ moved' = (moved \cup Views) \ {v}
  /\ UNCHANGED <<inbox, playing, speed, timers>>
\* socket.on('replay:load'): whoever loads is told of the day, and nobody else.
OnLoad(v, d) ==
  /\ day' = d /\ index' = 0 /\ moved' = (moved \cup Views) \ {v}
  /\ IF v = Other THEN UNCHANGED inbox
     ELSE Room(v, 1) /\ inbox' = [inbox EXCEPT ![v] = Append(@, Loaded(d))]
  /\ UNCHANGED <<playing, speed, timers>>

OnPlay == /\ IF day = None THEN UNCHANGED <<playing, timers>> ELSE playing' = TRUE /\ Schedule
          /\ UNCHANGED <<day, index, speed, inbox, moved>>
OnPause == /\ playing' = FALSE /\ timers' = IF timers > 0 THEN timers - 1 ELSE 0
           /\ UNCHANGED <<day, index, speed, inbox, moved>>
OnSpeed(x) == /\ speed' = x
              /\ UNCHANGED <<day, index, playing, timers, inbox, moved>>
\* The last point at the latest, so that a tick has one to send.
OnSeek(n) == /\ IF day = None THEN UNCHANGED <<index, moved>>
                ELSE index' = Min2(Length - 1, n) /\ moved' = Views
             /\ UNCHANGED <<day, playing, speed, timers, inbox>>

Do(v, c) ==
  CASE c.name = "load"  -> OnLoad(v, c.arg)
    [] c.name = "play"  -> OnPlay
    [] c.name = "pause" -> OnPause
    [] c.name = "speed" -> OnSpeed(c.arg)
    [] c.name = "seek"  -> OnSeek(c.arg)

Handle(v) == /\ v \in link /\ sent[v] # <<>>
             /\ sent' = [sent EXCEPT ![v] = Tail(@)] /\ Do(v, Head(sent[v]))
             /\ UNCHANGED <<link, button, shown>>
HandleOther == /\ Others /\ \E c \in Commands : Do(Other, c)
               /\ UNCHANGED <<sent, link, button, shown>>

\* io.on('connection')
Connect(v) ==
  /\ v \notin link /\ link' = link \cup {v}
  /\ inbox' = [inbox EXCEPT ![v] = <<Loaded(day), StateOf(playing)>>]
  /\ UNCHANGED <<server, sent, button, shown, moved>>

\* The page keeps what it shows.  Commands it has not sent yet wait (socket.io
\* buffers them), the others are lost: here, either.
Drop(v) ==
  /\ v \in link /\ link' = link \ {v}
  /\ inbox' = [inbox EXCEPT ![v] = <<>>]
  /\ sent' \in {sent, [sent EXCEPT ![v] = <<>>]}
  /\ UNCHANGED <<server, button, shown, moved>>

-----------------------------------------------------------------------------
(* ReplayView.tsx *)

Send(v, c) == Len(sent[v]) < MaxInTransit - 1 /\ sent' = [sent EXCEPT ![v] = Append(@, c)]

OnPlayClicked(v) ==
  /\ Send(v, Command(IF button[v] THEN "pause" ELSE "play", 0))
  /\ button' = [button EXCEPT ![v] = ~@]
  /\ UNCHANGED <<server, link, inbox, shown, moved>>

\* onLoad, onSpeed, onSeek
OnChosen(v) ==
  /\ \E c \in Commands : c.name \in {"load", "speed", "seek"} /\ Send(v, c)
  /\ UNCHANGED <<server, link, inbox, button, shown, moved>>

\* s.on('replay:load'): a label clears the points, none leaves them.
TakeLoad(v, d) == /\ shown' = [shown EXCEPT ![v] = IF d = None THEN @ ELSE Empty]
                  /\ UNCHANGED button
\* s.on('replay:data')
TakeData(v, m) ==
  LET s == shown[v]
      follows == s = Empty \/ v \in m.moved \/ (m.day = s.day /\ m.from = s.last + 1)
  IN /\ shown' = [shown EXCEPT ![v] = [day |-> m.day, last |-> m.to, joined |-> s.joined /\ follows]]
     /\ UNCHANGED button
\* s.on('replay:state')
TakeState(v, p) == button' = [button EXCEPT ![v] = p] /\ UNCHANGED shown

Receive(v) ==
  /\ v \in link /\ inbox[v] # <<>>
  /\ inbox' = [inbox EXCEPT ![v] = Tail(@)]
  /\ LET m == Head(inbox[v]) IN
     CASE m.event = "load"  -> TakeLoad(v, m.day)
       [] m.event = "data"  -> TakeData(v, m)
       [] m.event = "state" -> TakeState(v, m.playing)
  /\ UNCHANGED <<server, link, sent, moved>>

HandleAny == HandleOther \/ \E v \in Views : Handle(v)
Next == \/ Tick \/ HandleAny
        \/ \E v \in Views : Connect(v) \/ Drop(v) \/ OnPlayClicked(v) \/ OnChosen(v) \/ Receive(v)

\* An interval fires (as long as MaxInTransit lets it), and pages handle what
\* they receive.
Fairness == SF_vars(Tick) /\ \A v \in Views : WF_vars(Receive(v))
Spec == Init /\ [][Next]_vars /\ Fairness

-----------------------------------------------------------------------------
\* There is one interval while playing and none otherwise: two of them would
\* play at twice the speed, and only one could be cleared.
TypeOK ==
  /\ day \in Days \cup {None} /\ index \in 0..Length /\ playing \in BOOLEAN /\ speed \in Speeds
  /\ timers = IF playing THEN 1 ELSE 0
  /\ link \subseteq Views /\ moved \subseteq Views
  /\ sent \in [Views -> Seq(Commands)] /\ inbox \in [Views -> Seq(Load \cup Data \cup State)]
  /\ button \in [Views -> BOOLEAN]
  /\ shown \in [Views -> [day : Days \cup {None}, last : 0..Length, joined : BOOLEAN]]

\* A page shows points of one day, each next to the one before, over lost
\* connections, loads in mid-play and end of day; unless someone sought, or
\* another page loaded.
ViewContinues == \A v \in Views : shown[v].joined

\* A replay that is left alone plays to its end, and stops.
ReplayEnds == <>[][~HandleAny]_vars => <>[](~playing \/ day = None)

\* "replay:state {playing, speed, index} (ack/status)": once its commands and
\* the service's events have arrived, a page shows a loaded day as playing only
\* while it plays (violated: a pause is not acknowledged).
ButtonIsHonest ==
  \A v \in link : day # None /\ sent[v] = <<>> /\ inbox[v] = <<>> => (button[v] => playing)
=============================================================================
