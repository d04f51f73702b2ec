------------------------------ MODULE MCServing ------------------------------
(***************************************************************************)
(* What stands behind the dashboard: the sidecar's window and the ticks it  *)
(* is sent, the correlation detector, accounts and sessions, the alert      *)
(* history.  They share nothing, so a behaviour has one of them at work.    *)
(***************************************************************************)
EXTENDS WebApi

CONSTANTS Threads, MaxWindow, BufferCap, BatchCap, TcnThrottle, RequestsFail, Fallbacks, Resets,
          MaxOverlap, MaxTicks, MaxNow,
          Anchor, Basket, WindowBins, SustainBins, Cooldown, MaxLateness, MaxSeconds,
          Limits, MaxAlerts, MaxClock

ASSUME WindowAssumption ==
  /\ {MaxWindow, BufferCap, BatchCap, TcnThrottle} \subseteq Nat \ {0} /\ TcnThrottle <= MaxNow
  /\ IsFiniteSet(Threads) /\ {RequestsFail, Fallbacks, Resets} \subseteq BOOLEAN
  /\ {MaxOverlap, MaxTicks, MaxNow} \subseteq Nat
ASSUME CorrelationAssumption ==
  /\ Anchor \notin Basket /\ {WindowBins, SustainBins} \subseteq Nat \ {0}
  /\ {Cooldown, MaxLateness, MaxSeconds} \subseteq Nat
ASSUME ApiAssumption == {Window, AuthMax, AlertMax} \subseteq Nat \ {0} /\ MaxSessions \in Nat
ASSUME HistoryAssumption == Limits \subseteq Nat \ {0} /\ {MaxAlerts, MaxClock} \subseteq Nat

VARIABLES part,
          now, stamp, tickBuffer, lastTcnCall, lastFlushTs, requests, window, pc, left, holding,
          scored, interrupted,
          second, anchorSeen, known, series, corr, lastBin, belowCount, sinceAlert, evaluations, lowSeconds,
          lastLow, alerted,
          clock, alerts, reader, shown, listed

windowVars == <<now, stamp, tickBuffer, lastTcnCall, lastFlushTs, requests, window, pc, left, holding,
                scored, interrupted>>
correlationVars == <<second, anchorSeen, known, series, corr, lastBin, belowCount, sinceAlert,
                     evaluations, lowSeconds, lastLow, alerted>>
historyVars == <<clock, alerts, reader, shown, listed>>
allVars == <<part, windowVars, correlationVars, vars, historyVars>>

S == INSTANCE SidecarWindow WITH clock <- now, MaxClock <- MaxNow
C == INSTANCE CorrelationBreakdown WITH clock <- second, MaxClock <- MaxSeconds
H == INSTANCE AlertHistory WITH known <- listed, Symbols <- Basket

InitOfOne ==
  /\ part \in {"window", "correlation", "api", "history"}
  /\ S!Init /\ C!Init /\ Init /\ H!Init

NextOfOne ==
  /\ UNCHANGED part
  /\ \/ part = "window" /\ S!Next /\ UNCHANGED <<correlationVars, vars, historyVars>>
     \/ part = "correlation" /\ C!Next /\ UNCHANGED <<windowVars, vars, historyVars>>
     \/ part = "api" /\ Next /\ UNCHANGED <<windowVars, correlationVars, historyVars>>
     \/ part = "history" /\ H!Next /\ UNCHANGED <<windowVars, correlationVars, vars>>
SpecOfOne == InitOfOne /\ [][NextOfOne]_allVars

\* The properties, as the modules state them, next to WebApi's.
TypesOK == TypeOK /\ S!TypeOK /\ C!TypeOK /\ H!TypeOK
NoTickTwice == S!NoTickTwice
ReadyIsFullUnlessReset == S!ReadyIsFullUnlessReset
SeriesAligned == C!SeriesAligned
SustainedLowAlerts == C!SustainedLowAlerts
PagesLoseNothing == H!PagesLoseNothing
=============================================================================
