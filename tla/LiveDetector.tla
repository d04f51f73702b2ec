---------------------------- MODULE LiveDetector ----------------------------
(***************************************************************************)
(* The two programs that watch a live feed in one process: `cli live`       *)
(* (data/live_stream.py, models/cascade.py, alert/router.py) and            *)
(* scripts/live_demo.py.  Each is a loop that connects, handles a message   *)
(* at a time and reconnects after an exception; what it has learnt outlives *)
(* the connection.                                                          *)
(*                                                                         *)
(* A book has two sides or it is a gap: without one of them there is no     *)
(* micro price and no weighted mid, and the feature vector holds a None.    *)
(***************************************************************************)
EXTENDS Naturals, FiniteSets, Sequences, SequencesExt

CONSTANTS Window,      \* ticks of a TCN window: 200
          NormWindow   \* ticks of the rolling normalization: 500

VARIABLES program,     \* "live" or "demo"
          configured,  \* the destinations of an alert that have their settings
          stage4,      \* "disabled", "enabled", or "corr": with a correlation module
          link,        \* "connecting", "open", "routing", "sleeping" or "ended"
          running, interrupted,
          lastBook,    \* _last_book, a gap as long as there is none
          hist, window,
          symbols,     \* what the cross-symbol stage has seen
          pending,     \* destinations the router has still to turn to
          offered, logRaised,  \* history: of the last alert
          seen,        \* history: ticks since the start or the last gap
          scored,      \* history: the last tick was scored
          alerted      \* history: there was an alert

config   == <<program, configured, stage4>>
learnt   == <<lastBook, hist, window, symbols>>
alerting == <<pending, offered, logRaised, alerted>>
history  == <<seen, scored>>
vars == <<config, link, running, interrupted, learnt, alerting, history>>

Channels == <<"log", "slack", "pagerduty", "webhook", "telegram", "email">>
Books == {"book", "gap"}
\* the last n
Cut(s, n) == IF Len(s) > n THEN Tail(s) ELSE s
Full == Len(window') = Window
Observe(book) ==
  seen' = IF book = "gap" THEN 0 ELSE IF seen = NormWindow THEN seen ELSE seen + 1
Reconnect == link' = "sleeping"

-----------------------------------------------------------------------------
\* cmd_live: slack, telegram and the rest from the environment, --log, --webhook
CmdLive == program = "live" /\ configured \in {{}, {"log", "slack", "email"}, {"webhook", "telegram"}}
                           /\ stage4 \in {"disabled", "enabled", "corr"}
RunLiveDemo == program = "demo" /\ configured \in {{}, {"log"}} /\ stage4 = "disabled"

Init == /\ CmdLive \/ RunLiveDemo
        /\ link = "connecting" /\ running = TRUE /\ interrupted = FALSE
        /\ lastBook = "gap" /\ hist = <<>> /\ window = <<>> /\ symbols = {}
        /\ pending = <<>> /\ offered = {} /\ logRaised = FALSE /\ alerted = FALSE
        /\ seen = 0 /\ scored = FALSE

\* (mutant: run() says it is running each time it connects)
ConnectAndRun == link = "connecting" /\ link' = "open" /\ running' = TRUE
                 /\ UNCHANGED <<config, interrupted, learnt, alerting, history>>
Connect == link = "connecting" /\ link' = "open"
           /\ UNCHANGED <<config, running, interrupted, learnt, alerting, history>>

\* ConnectionClosed, and any other exception of the loop
Lost == /\ link \in {"connecting", "open"} /\ Reconnect
        /\ UNCHANGED <<config, running, interrupted, learnt, alerting, history>>
\* A normal close ends the iteration, and there is no pause.
Closed == /\ link = "open" /\ link' = IF running THEN "connecting" ELSE "ended"
          /\ UNCHANGED <<config, running, interrupted, learnt, alerting, history>>
Wake == /\ link = "sleeping" /\ link' = IF running THEN "connecting" ELSE "ended"
        /\ UNCHANGED <<config, running, interrupted, learnt, alerting, history>>

\* Ctrl+C: asyncio.run cancels run(), which notices where it waits.
Interrupt == ~interrupted /\ link # "ended" /\ interrupted' = TRUE
             /\ UNCHANGED <<config, link, running, learnt, alerting, history>>
Cancelled == interrupted /\ link \notin {"routing", "ended"} /\ link' = "ended"
             /\ UNCHANGED <<config, running, interrupted, learnt, alerting, history>>
Stop == program = "live" /\ running /\ running' = FALSE
        /\ UNCHANGED <<config, link, interrupted, learnt, alerting, history>>
\* A stopped stream leaves its loop at the next message.
Break == /\ link = "open" /\ ~running /\ link' = "ended"
         /\ UNCHANGED <<config, running, interrupted, learnt, alerting, history>>

Receives(p) == program = p /\ link = "open" /\ running
\* json.loads raises; a message without "stream" or "data", or of another
\* stream, is passed over.
NotJson == /\ Receives("live") \/ Receives("demo")
           /\ Reconnect /\ UNCHANGED <<config, running, interrupted, learnt, alerting, history>>
Ignored == /\ Receives("live") \/ Receives("demo")
           /\ UNCHANGED vars

(***************************************************************************)
(* cli live                                                                 *)
(***************************************************************************)
\* numpy reads a None as NaN; mean and std of a history with one are NaN,
\* `std > 1e-8` is false, and the feature is 0 as a constant one is.
Normalize(vectors) ==
  IF Len(vectors) < 2 \/ \E i \in DOMAIN vectors : vectors[i] = "gap" THEN "zero" ELSE "z"

\* (mutant: [:window] for [-window:])
FeedKeepsFirst(book) ==
  /\ hist' = IF Len(hist) = NormWindow THEN hist ELSE Append(hist, book)
  /\ window' = Cut(Append(window, Normalize(hist')), Window)
Feed(book) ==
  /\ hist' = Cut(Append(hist, book), NormWindow)
  /\ window' = Cut(Append(window, Normalize(hist')), Window)

\* Depth and trades of one symbol, upper case in every tick.
\* (mutant: a trade's tick keeps the symbol as the URL has it)
TickSymbolAsGiven(stream) == IF stream = "trade" THEN "btcusdt" ELSE "BTCUSDT"
TickSymbol(stream) == "BTCUSDT"

\* The cross-symbol stage needs two symbols; a correlation module, or no
\* stage at all, vetoes nothing.
UpdateSymbol(stream) ==
  symbols' = IF stage4 = "enabled" THEN symbols \cup {TickSymbol(stream)} ELSE symbols
Stage4Passes == stage4 # "enabled" \/ Cardinality(symbols') >= 2

\* on_alert: the router writes the log, then turns to one destination after
\* the other, and offers the alert to those that have their settings.
Fire == /\ alerted' = TRUE /\ link' = "routing" /\ offered' = {} /\ logRaised' = FALSE
        /\ pending' = Channels
NoAlert == UNCHANGED <<link, alerting>>

\* Stages 1 and 2 veto nothing, so their scores do not appear; the posterior
\* may reach the threshold or not.
ProcessTick(book, stream) ==
  /\ Feed(book) /\ Observe(book) /\ scored' = Full
  /\ \/ NoAlert /\ UNCHANGED symbols                         \* warm-up, or below Stage 3's gate
     \/ Full /\ UpdateSymbol(stream) /\ NoAlert              \* Stage 4's veto, or the posterior
     \/ Full /\ UpdateSymbol(stream) /\ Stage4Passes /\ Fire

ParseDepth(book) ==
  /\ Receives("live")
  /\ lastBook' = book /\ ProcessTick(book, "depth")
  /\ UNCHANGED <<config, running, interrupted>>
\* The last real book, of whatever age; an empty one if there is none.
ParseTrade ==
  /\ Receives("live")
  /\ ProcessTick(lastBook, "trade")
  /\ UNCHANGED <<config, running, interrupted, lastBook>>

Offer == /\ pending' = Tail(pending) /\ offered' = offered \cup ({Head(pending)} \cap configured)
         /\ UNCHANGED <<link, logRaised>>
Abandon == pending' = <<>> /\ Reconnect /\ UNCHANGED offered

\* open() or write() of the log may raise, out of route() and process_tick
AppendLog == /\ link = "routing" /\ pending # <<>> /\ Head(pending) = "log"
             /\ Offer \/ ("log" \in configured /\ Abandon /\ logRaised' = TRUE)
             /\ UNCHANGED <<config, running, interrupted, learnt, alerted, history>>
\* (mutant: a refusal is raised)
DeliverOrRaise == /\ link = "routing" /\ pending # <<>> /\ Head(pending) # "log"
                  /\ Offer \/ (Head(pending) \in configured /\ Abandon /\ UNCHANGED logRaised)
                  /\ UNCHANGED <<config, running, interrupted, learnt, alerted, history>>
\* _post_json, _deliver_email: a failure is counted and logged
Deliver == /\ link = "routing" /\ pending # <<>> /\ Head(pending) # "log"
           /\ Offer
           /\ UNCHANGED <<config, running, interrupted, learnt, alerted, history>>
RouteReturns == /\ link = "routing" /\ pending = <<>> /\ link' = "open"
                /\ UNCHANGED <<config, running, interrupted, learnt, alerting, history>>

(***************************************************************************)
(* live_demo.py: raw vectors, of an array type None fits in; the tensor of  *)
(* a window with a None raises, after the window has moved on.              *)
(***************************************************************************)
\* (mutant: the deque lets nothing in when it is full)
DemoTickKeepsFirst(book) ==
  /\ window' = IF Len(window) = Window THEN window ELSE Append(window, book)
  /\ Observe(book)
  /\ IF Full /\ \E i \in 1..Window : window'[i] = "gap"
     THEN scored' = FALSE /\ Reconnect /\ UNCHANGED alerting
     ELSE scored' = Full /\ NoAlert
DemoTick(book) ==
  /\ window' = Cut(Append(window, book), Window) /\ Observe(book)
  /\ IF Full /\ \E i \in 1..Window : window'[i] = "gap"
     THEN scored' = FALSE /\ Reconnect /\ UNCHANGED alerting
     ELSE /\ scored' = Full
          /\ \/ NoAlert
             \/ /\ Full /\ alerted' = TRUE /\ UNCHANGED <<pending, offered, logRaised>>
                /\ UNCHANGED link \/ ("log" \in configured /\ Reconnect)

\* a trade fabricates a book of its own price
DemoMessage(book) == /\ Receives("demo") /\ DemoTick(book)
                     /\ UNCHANGED <<config, running, interrupted, lastBook, hist, symbols>>

-----------------------------------------------------------------------------
Routing == AppendLog \/ Deliver \/ RouteReturns
Next == \/ Connect \/ Lost \/ Closed \/ Wake \/ Interrupt \/ Cancelled \/ Stop \/ Break
        \/ NotJson \/ Ignored \/ ParseTrade \/ (\E book \in Books : ParseDepth(book) \/ DemoMessage(book))
        \/ Routing

\* asyncio wakes what slept; a cancellation waits until the received messages
\* are used up, for no more are received meanwhile; a delivery ends by its
\* timeout.  Binance accepts a connection now and then, and among the
\* messages of an open one there are always depth updates with two sides.
Fairness == /\ WF_vars(Wake) /\ SF_vars(Cancelled) /\ WF_vars(Routing) /\ SF_vars(Connect)
            /\ SF_vars(Break) /\ SF_vars(ParseDepth("book")) /\ SF_vars(DemoMessage("book"))
Spec == Init /\ [][Next]_vars /\ Fairness

-----------------------------------------------------------------------------
TypeOK ==
  /\ link \in {"connecting", "open", "routing", "sleeping", "ended"}
  /\ lastBook \in Books /\ hist \in BoundedSeq(Books, NormWindow)
  /\ window \in BoundedSeq({"z", "zero"} \cup Books, Window)
  /\ offered \subseteq configured /\ ToSet(pending) \subseteq ToSet(Channels)
  /\ seen \in 0..NormWindow

\* A book without one of its sides blinds the micro price for the
\* normalization window and no longer, whatever arrives meanwhile and however
\* often the connection is lost.
BlindOnlyWhileRecent ==
  window # <<>> /\ Last(window) = "zero" => seen < NormWindow

\* An alert of `cli live` is offered to every destination that is configured,
\* whichever of them fails, unless the log file could not be written.
EveryChannelIsTried ==
  program = "live" /\ alerted /\ link # "routing" => offered = configured \/ logRaised

\* With the cross-symbol stage enabled, as it is when the configuration does
\* not say, this one-symbol stream never alerts.
EnabledStage4NeverAlerts == stage4 = "enabled" => ~alerted

\* Once the books have two sides again, windows are scored again and again:
\* neither lost connections, nor messages that cannot be read, nor the demo's
\* exceptions over a window with a None, end it.
KeepsScoring == <>[](seen # 0) => []<>scored \/ <>(link = "ended")

\* Ctrl+C, or stop(), ends the program.
StopEnds == interrupted \/ ~running ~> link = "ended"
=============================================================================
