----------------------------- MODULE MCStreaming -----------------------------
(***************************************************************************)
(* What streams to somebody: the live feed to the dashboards, a replay to   *)
(* its pages, the live programs to an operator.  They share nothing, so a   *)
(* behaviour has one of them at work.                                       *)
(***************************************************************************)
EXTENDS FeedHealth

CONSTANTS Pages, Others, Days, Length, Speeds, Window, NormWindow

ASSUME FeedAssumption == {StaleAfter, BeatEvery} \subseteq Nat \ {0}
ASSUME ReplayAssumption ==
  /\ Length \in Nat \ {0} /\ Speeds \subseteq Nat \ {0} /\ 1 \in Speeds
  /\ "none" \notin Days /\ "other" \notin Pages /\ Others \in BOOLEAN
ASSUME TransitAssumption == MaxInTransit \in Nat \ 0..2
\* There is no deviation of one tick, so every one would be a constant.
ASSUME LiveAssumption == Window \in Nat \ {0} /\ NormWindow \in Nat \ 0..1

VARIABLES part,
          day, index, playing, speed, timers, pageLink, sent, pageInbox, button, points, moved,
          program, configured, stage4, liveLink, running, interrupted, lastBook, hist, window,
          symbols, pending, offered, logRaised, seen, scored, alerted

replayVars == <<day, index, playing, speed, timers, pageLink, sent, pageInbox, button, points, moved>>
liveVars == <<program, configured, stage4, liveLink, running, interrupted, lastBook, hist, window,
              symbols, pending, offered, logRaised, seen, scored, alerted>>
allVars == <<part, vars, replayVars, liveVars>>

R == INSTANCE ReplayService WITH Views <- Pages, MaxInTransit <- MaxInTransit - 1,
                             link <- pageLink, inbox <- pageInbox, shown <- points
L == INSTANCE LiveDetector WITH link <- liveLink

Feed == part = "feed"
Replay == part = "replay"
Live == part = "live"

\* Of the parts at rest, one initial state does.
AtRest == /\ Replay \/ (speed = 1 /\ \A v \in Pages : sent[v] = <<R!Command("load", R!None)>>)
          /\ Live \/ (program = "demo" /\ configured = {})
InitOfOne == part \in {"feed", "replay", "live"} /\ Init /\ R!Init /\ L!Init /\ AtRest

FeedNext   == Feed   /\ Next /\ UNCHANGED <<part, replayVars, liveVars>>
ReplayNext == Replay /\ R!Next /\ UNCHANGED <<part, vars, liveVars>>
LiveNext   == Live   /\ L!Next /\ UNCHANGED <<part, vars, replayVars>>
NextOfOne == FeedNext \/ ReplayNext \/ LiveNext

\* The fairness of the three modules, of the part at work.
FairnessOfOne ==
  /\ WF_vars(Feed /\ Elapse) /\ SF_vars(Feed /\ Heartbeat)
  /\ \A t \in Tabs : WF_vars(Feed /\ Receive(t))
  /\ SF_replayVars(Replay /\ R!Tick) /\ \A v \in Pages : WF_replayVars(Replay /\ R!Receive(v))
  /\ WF_liveVars(Live /\ L!Wake) /\ SF_liveVars(Live /\ L!Cancelled) /\ WF_liveVars(Live /\ L!Routing)
  /\ SF_liveVars(Live /\ L!Connect) /\ SF_liveVars(Live /\ L!Break)
  /\ SF_liveVars(Live /\ L!ParseDepth("book")) /\ SF_liveVars(Live /\ L!DemoMessage("book"))
SpecOfOne == InitOfOne /\ [][NextOfOne]_allVars /\ FairnessOfOne

\* The properties, as the modules state them, next to FeedHealth's.
TypesOK == TypeOK /\ R!TypeOK /\ L!TypeOK
ViewContinues == R!ViewContinues
ReplayEnds == R!ReplayEnds
BlindOnlyWhileRecent == L!BlindOnlyWhileRecent
EveryChannelIsTried == L!EveryChannelIsTried
EnabledStage4NeverAlerts == L!EnabledStage4NeverAlerts
KeepsScoring == L!KeepsScoring
StopEnds == L!StopEnds
=============================================================================
