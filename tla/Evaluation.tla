----------------------------- MODULE Evaluation -----------------------------
(***************************************************************************)
(* A day of ticks in the offline half: ground truth (data/labels.py), the   *)
(* labels of training windows (data/windows.py and the extract, build and   *)
(* retrain scripts), replays and their metrics (eval/ and the backtest      *)
(* scripts), and the TCN's windows, online and in a batch.                  *)
(*                                                                         *)
(* The day grows by a tick at a time.  The loops of the code over the ticks *)
(* are actions; what it computes afterwards is an operator of the day so    *)
(* far, which is a day as well.                                             *)
(***************************************************************************)
EXTENDS Naturals, Sequences, FiniteSets, SequencesExt, FiniteSetsExt

CONSTANTS Kinds,       \* sets of ticks [dt, mid, fires]; a day's ticks are of one
          MaxTicks,    \* bound: ticks of a day
          CrashPct,    \* a drop is a crash, in percent: 2
          RecoveryPct, \* it is over when the price has recovered: 1
          PeakWindow,  \* within this time of the peak: 60 s
          Grace,       \* an alert may come before the crash: 5 s
          Cooldown,    \* one alert of a burst is kept: 10 s
          WindowSize,  \* ticks of a window: 200
          NormWindow,  \* ticks of the rolling normalization: 500
          Lookahead    \* a window is labeled by what follows: 5 s

VARIABLES kind, day,   \* the ticks [ts, mid, fires]; mid is 0 when the book lacks a side
          swing,       \* label_crashes: [peak, peakTs, inCrash, trough, troughTs]
          crashes,     \* label_crashes: events that have ended
          alerts,      \* times of the alerts that are kept
          fired,       \* times of all alerts, for the scripts without a cooldown
          baseline,    \* run_baseline_backtest: [peak, peakTs, alerts]
          hist, window,\* Stage3TCN
          online       \* history: the windows it has scored
vars == <<kind, day, swing, crashes, alerts, fired, baseline, hist, window, online>>

Drops(from, to) == (from - to) * 100 >= CrashPct * from /\ from > to
N == Len(day)
Gap(i) == day[i].mid = 0

-----------------------------------------------------------------------------
(***************************************************************************)
(* The loops over the ticks.                                                *)
(***************************************************************************)
Event(s) == [start |-> s.peakTs, end |-> s.troughTs, peak |-> s.peak, trough |-> s.trough]
Swing(tick) == [peak |-> tick.mid, peakTs |-> tick.ts, inCrash |-> FALSE, trough |-> 0, troughTs |-> 0]

Recovered(mid, s) == mid >= s.peak \/ (mid - s.trough) * 100 >= RecoveryPct * s.trough

\* From a swing peak, fresh or rolled forward; a trough is followed down
\* until the price recovers.
\* (mutant: every detection of a descent starts a new one, as it once did)
LabelCrashesInChains(tick) ==
  LET s == IF tick.mid > swing.peak \/ tick.ts > swing.peakTs + PeakWindow THEN Swing(tick) ELSE swing IN
  IF tick.mid = 0 THEN UNCHANGED <<swing, crashes>>
  ELSE IF Drops(s.peak, tick.mid)
       THEN /\ crashes' = Append(crashes, Event([s EXCEPT !.trough = tick.mid, !.troughTs = tick.ts]))
            /\ swing' = Swing(tick)
       ELSE swing' = s /\ UNCHANGED crashes
LabelCrashes(tick) ==
  IF tick.mid = 0 THEN UNCHANGED <<swing, crashes>>
  ELSE IF ~swing.inCrash
  THEN LET s == IF tick.mid > swing.peak \/ tick.ts > swing.peakTs + PeakWindow
                THEN Swing(tick) ELSE swing
       IN /\ swing' = IF Drops(s.peak, tick.mid)
                      THEN [s EXCEPT !.inCrash = TRUE, !.trough = tick.mid, !.troughTs = tick.ts]
                      ELSE s
          /\ UNCHANGED crashes
  ELSE LET s == IF tick.mid < swing.trough
                THEN [swing EXCEPT !.trough = tick.mid, !.troughTs = tick.ts] ELSE swing
       IN IF Recovered(tick.mid, s)
          THEN crashes' = Append(crashes, Event(s)) /\ swing' = Swing(tick)
          ELSE swing' = s /\ UNCHANGED crashes

\* An alert of a burst is dropped until the cooldown is over.
Replay(tick) ==
  alerts' = IF tick.fires /\ (alerts # <<>> => tick.ts >= Last(alerts) + Cooldown)
            THEN Append(alerts, tick.ts) ELSE alerts
\* backtest_windows.py and run_cascade_backtest.py keep every one.
Fire(tick) == fired' = IF tick.fires THEN Append(fired, tick.ts) ELSE fired

\* A circuit breaker: 2 % below the peak of the last minute.
\* (mutant: a peak stays until a higher price replaces it)
BaselineWithoutExpiry(tick) ==
  LET peak == IF tick.mid > baseline.peak
              THEN [baseline EXCEPT !.peak = tick.mid, !.peakTs = tick.ts] ELSE baseline
  IN baseline' = IF tick.mid = 0 THEN baseline
                 ELSE IF ~Drops(peak.peak, tick.mid) THEN peak
                 ELSE [peak |-> tick.mid, peakTs |-> tick.ts, alerts |-> Append(peak.alerts, tick.ts)]
RunBaselineBacktest(tick) ==
  LET peak == IF tick.mid > baseline.peak \/ tick.ts > baseline.peakTs + PeakWindow
              THEN [baseline EXCEPT !.peak = tick.mid, !.peakTs = tick.ts] ELSE baseline
  IN baseline' = IF tick.mid = 0 THEN baseline
                 ELSE IF ~Drops(peak.peak, tick.mid) THEN peak
                 ELSE [peak |-> tick.mid, peakTs |-> tick.ts, alerts |-> Append(peak.alerts, tick.ts)]

\* (mutant: the history is never cut)
Stage3FeedKeepsAll(row) ==
  LET h == Append(hist, row)
      w == Append(window, [row |-> row, from |-> h[1], blind |-> \E i \in DOMAIN h : day'[h[i]].mid = 0])
  IN /\ hist' = h
     /\ window' = IF Len(w) > WindowSize THEN Tail(w) ELSE w
     /\ online' = IF Len(window') = WindowSize THEN Append(online, window') ELSE online
\* Stage3TCN.feed and score_current: a row is normalized by the history up to
\* it.  A book without a side is NaN in some feature, whose mean and deviation
\* are then NaN, and which is 0 for as long as the row is in the history.  A
\* full window is scored.
Stage3Feed(row) ==
  LET all == Append(hist, row)
      h == IF Len(all) > NormWindow THEN Tail(all) ELSE all
      w == Append(window, [row |-> row, from |-> h[1], blind |-> \E i \in DOMAIN h : day'[h[i]].mid = 0])
  IN /\ hist' = h
     /\ window' = IF Len(w) > WindowSize THEN Tail(w) ELSE w
     /\ online' = IF Len(window') = WindowSize THEN Append(online, window') ELSE online

Init == /\ kind \in Kinds /\ day = <<>>
        /\ swing = Swing([mid |-> 0, ts |-> 0]) /\ crashes = <<>> /\ alerts = <<>> /\ fired = <<>>
        /\ baseline = [peak |-> 0, peakTs |-> 0, alerts |-> <<>>]
        /\ hist = <<>> /\ window = <<>> /\ online = <<>>

\* df_to_ticks: the next row
Tick(k) ==
  LET tick == [ts |-> k.dt + (IF day = <<>> THEN 0 ELSE Last(day).ts), mid |-> k.mid, fires |-> k.fires] IN
  /\ N < MaxTicks
  /\ day' = Append(day, tick)
  /\ LabelCrashes(tick) /\ Replay(tick) /\ Fire(tick) /\ RunBaselineBacktest(tick) /\ Stage3Feed(N + 1)
  /\ UNCHANGED kind
Next == \E k \in kind : Tick(k)
Spec == Init /\ [][Next]_vars

-----------------------------------------------------------------------------
(***************************************************************************)
(* Metrics.                                                                 *)
(***************************************************************************)
\* a descent that is unresolved at the end of the data is labeled too
Events == IF swing.inCrash THEN Append(crashes, Event(swing)) ELSE crashes

Within(ts, event, grace) == event.start <= ts + grace /\ ts <= event.end
Counts(tp, fp, fn) == [tp |-> tp, fp |-> fp, fn |-> fn]

\* alerts in order, each claims the first event that is free
\* (mutant: or the last one)
ClaimLast(matched, ts) ==
  LET free == {i \in DOMAIN Events \ matched : Within(ts, Events[i], Grace)}
  IN IF free = {} THEN matched ELSE matched \cup {Max(free)}
Claim(matched, ts) ==
  LET free == {i \in DOMAIN Events \ matched : Within(ts, Events[i], Grace)}
  IN IF free = {} THEN matched ELSE matched \cup {Min(free)}
MatchAlertsToCrashes(ts) ==
  LET tp == Cardinality(FoldLeft(Claim, {}, ts))
  IN Counts(tp, Len(ts) - tp, Len(Events) - tp)
\* run_cascade_backtest.py and backtest_windows.py
EvaluateAlerts(ts) == MatchAlertsToCrashes(ts)

\* run_backtest: an event counts when an alert is in it, without grace
RunBacktest(ts) ==
  LET caught == {i \in DOMAIN Events : \E j \in DOMAIN ts : Within(ts[j], Events[i], 0)}
      stray  == {j \in DOMAIN ts : \A i \in DOMAIN Events : ~Within(ts[j], Events[i], 0)}
  IN Counts(Cardinality(caught), Cardinality(stray), Len(Events) - Cardinality(caught))
\* run_backtest_batched.py and eval_magnitude.py: every alert in an event
\* counts, and catches the first event it is in.
Evaluate(ts) ==
  LET in(j) == {i \in DOMAIN Events : Within(ts[j], Events[i], 0)}
      hits  == {j \in DOMAIN ts : in(j) # {}}
  IN Counts(Cardinality(hits), Len(ts) - Cardinality(hits),
            Len(Events) - Cardinality({Min(in(j)) : j \in hits}))

\* The result of a day, none when float(None) raises in the loop that makes
\* the feature matrix: a side of some book was empty.
Scorable == \A i \in 1..N : ~Gap(i)
OfDay(result) == IF Scorable THEN {result} ELSE {}
RunDay          == OfDay(MatchAlertsToCrashes(alerts))
ScoreDay        == OfDay(Evaluate(alerts))
EvalDay         == OfDay(Evaluate(alerts))
RunTcnBacktest  == OfDay(EvaluateAlerts(fired))
RunFullCascade  == OfDay(EvaluateAlerts(fired))

(***************************************************************************)
(* Batched scores: rows normalized by a rolling window, one score for each  *)
(* window of rows, none for a day not longer than the window.               *)
(***************************************************************************)
\* (mutant: a row less in the rolling window)
NormalizeShort(row) == [row |-> row, from |-> Max({1, row - NormWindow + 2}), blind |-> FALSE]
NormalizeZ(row) ==
  [row |-> row, from |-> IF row > NormWindow THEN row - NormWindow + 1 ELSE 1, blind |-> FALSE]
WindowsOf(rows) == [j \in 1..(rows - WindowSize + 1) |->
                      [k \in 1..WindowSize |-> NormalizeZ(j + k - 1)]]
Stage3ScoresBatched == OfDay(IF N <= WindowSize THEN <<>> ELSE WindowsOf(N))
\* eval_magnitude.py's scores the window of a day as long as it, too
ScoreWindows == OfDay(IF N < WindowSize THEN <<>> ELSE WindowsOf(N))

(***************************************************************************)
(* Labels of windows.  A window is named by its last row.                   *)
(***************************************************************************)
Ends == WindowSize..(N - 1)     \* range(0, n - window_size)
Horizon(e) == day[e].ts + Lookahead
\* searchsorted(timestamps, t_horizon, side="right") - 1
\* (mutant: side="right" of the horizon's own tick is dropped from the slice)
UpToShort(e) == Max({i \in 1..N : day[i].ts <= Horizon(e)}) - 1
UpTo(e) == Max({i \in 1..N : day[i].ts <= Horizon(e)})
\* a book without a side has a mid of 0, a drop like any other
Label(e, last) == day[e].mid > 0 /\ \E i \in (e + 1)..last : Drops(day[e].mid, day[i].mid)

\* The horizon is covered when a tick is on it.
Covered(e) == day[Max({i \in 1..N : day[i].ts <= Horizon(e)})].ts >= Horizon(e)
LabelWindows == [e \in {x \in Ends : Covered(x)} |-> Label(e, UpTo(e))]
BuildWindowsFromDf == LabelWindows
\* retrain_adopt.py labels every window, those of a --normal day 0
BuildCorrectedWindows(normal) == OfDay([e \in Ends |-> ~normal /\ Label(e, UpTo(e))])
\* extract_windows_contiguous.py counts ticks; --lookahead is 50 if not told
BuildWindows(lookahead) == [e \in {x \in Ends : x < N - lookahead} |-> Label(e, e + lookahead)]
\* build_magnitude_windows.py: the lowest price ahead; --lookahead is 500
BuildFromParquet(lookahead) ==
  OfDay([e \in {x \in WindowSize..N : x + lookahead <= N} |->
           Min({day[e].mid} \cup {day[i].mid : i \in (e + 1)..(e + lookahead)})])

-----------------------------------------------------------------------------
TypeOK ==
  /\ N <= MaxTicks /\ Len(alerts) <= N /\ Len(crashes) <= N
  /\ swing.inCrash => swing.trough > 0 /\ swing.trough < swing.peak
  /\ Len(hist) <= NormWindow /\ Len(window) <= WindowSize

\* An event goes from a tick p with its highest to a tick q with its lowest
\* price, with a drop that is a crash within PeakWindow of its start.
Descent(ev, p, q) ==
  /\ p < q /\ day[p].ts = ev.start /\ day[p].mid = ev.peak
  /\ day[q].ts = ev.end /\ day[q].mid = ev.trough
  /\ \A j \in p..q : ~Gap(j) => ev.trough <= day[j].mid /\ day[j].mid <= ev.peak
  /\ \E j \in p..q : ~Gap(j) /\ day[j].ts <= ev.start + PeakWindow /\ Drops(ev.peak, day[j].mid)

\* "One continuous descent produces ONE label": events are descents, they
\* follow one another in time, and between two of them the price has recovered.
LabelsAreDescents ==
  /\ \A i \in DOMAIN Events : \E p, q \in 1..N : Descent(Events[i], p, q)
  /\ \A i \in 2..Len(Events) :
       LET prev == Events[i - 1] IN
       /\ prev.end <= Events[i].start
       /\ \E j \in 1..N : /\ prev.end <= day[j].ts /\ day[j].ts <= Events[i].start
                          /\ Recovered(day[j].mid, prev)

\* Every alert of the circuit breaker is a crash-sized drop below a price of
\* the last minute.
BaselineAlertsAreDrops ==
  \A a \in DOMAIN baseline.alerts : \E j, i \in 1..N :
    /\ day[i].ts = baseline.alerts[a] /\ j < i /\ day[j].ts + PeakWindow >= day[i].ts
    /\ Drops(day[j].mid, day[i].mid)

\* What the ground truth and the circuit breaker report happened.
DetectedDropsAreReal == LabelsAreDescents /\ BaselineAlertsAreDrops

\* However bursts, grace periods and events overlap, with a cooldown or
\* without, the canonical matching and its copies lose no event that some
\* assignment of alerts to events would catch.  (The scorers without a grace
\* period do: see MatchersAgree.)  (MostCatches is the size of a
\* maximum matching, by the deficiency version of Hall's theorem.)
MostCatches(ts) ==
  Min({Len(Events) - Cardinality(S)
       + Cardinality({j \in DOMAIN ts : \E i \in S : Within(ts[j], Events[i], Grace)})
       : S \in SUBSET DOMAIN Events})
MatchIsMaximum ==
  /\ \A result \in RunDay : result.tp = MostCatches(alerts)
  /\ \A result \in RunTcnBacktest \cup RunFullCascade : result.tp = MostCatches(fired)
  /\ EvaluateAlerts(baseline.alerts).tp = MostCatches(baseline.alerts)

\* metrics.py calls the canonical matching the one "every offline backtest must
\* use".  Those that count on their own agree with it when no alert comes
\* before its event, no event has two and none is in two.
MatchersAgree ==
  LET about(ts, event) == Within(ts, event, Grace) IN
  /\ \A i \in DOMAIN Events, j \in DOMAIN alerts :
       about(alerts[j], Events[i]) => Within(alerts[j], Events[i], 0)
  /\ \A i \in DOMAIN Events : Cardinality({j \in DOMAIN alerts : about(alerts[j], Events[i])}) <= 1
  /\ \A j \in DOMAIN alerts : Cardinality({i \in DOMAIN Events : about(alerts[j], Events[i])}) <= 1
  => \A canonical \in RunDay, counts \in {RunBacktest(alerts)} \cup ScoreDay \cup EvalDay :
       counts = canonical

\* What the metrics count.
CountsAreRight == MatchIsMaximum /\ MatchersAgree

\* "offline scores match the online path", whenever there are any: on a day
\* longer than the window (for eval_magnitude.py, as long as it) without a gap
\* the batch scores the windows the stream scored, each row normalized by the
\* same history, with every feature in it.  On a day with a gap the batch
\* raises; the stream goes on, and leaves a feature out of the rows that have
\* the gap in their history, and of no other.
OfflineMatchesOnline ==
  /\ N > WindowSize => \A scores \in Stage3ScoresBatched : scores = online
  /\ N >= WindowSize => \A scores \in ScoreWindows : scores = online
  /\ \A j \in DOMAIN online : \A k \in DOMAIN online[j] :
       LET r == online[j][k] IN r.blind <=> \E g \in r.from..r.row : Gap(g)

\* A drop, or a book without a side where one is taken for a price of 0.
Falls(e, i) == ~Gap(e) /\ (Gap(i) \/ Drops(day[e].mid, day[i].mid))

\* A window is labeled 1 when, and only when, the price drops within the
\* lookahead after it, by the clock, or the book lacks a side there
\* (extract_windows.py, build_windows_from_df).  retrain_adopt.py raises on a
\* day with such a book; it labels 0 whatever follows on a --normal day.
WallClockLabels ==
  LET follows(e) == \E i \in (e + 1)..N : day[i].ts <= Horizon(e) /\ Falls(e, i) IN
  /\ \A e \in DOMAIN LabelWindows : LabelWindows[e] <=> follows(e)
  /\ \A normal \in BOOLEAN : \A labels \in BuildCorrectedWindows(normal) : \A e \in DOMAIN labels :
       labels[e] <=> ~normal /\ follows(e)

\* The two builders that count ticks, each by a lookahead of its own: where
\* both have a window, the one that looks further sees what the other sees.
TickLabelsFollowMagnitude ==
  \A ticks, further \in 1..MaxTicks : \A targets \in BuildFromParquet(further) :
    \A e \in DOMAIN BuildWindows(ticks) \cap DOMAIN targets :
      LET crash == Drops(day[e].mid, targets[e]) IN
      /\ ticks <= further /\ BuildWindows(ticks)[e] => crash
      /\ further <= ticks /\ crash => BuildWindows(ticks)[e]

\* Labels of every builder say what follows the window, and nothing else, with
\* the exceptions named above: a book without a side, and --normal days.
LabelsLookAhead == WallClockLabels /\ TickLabelsFollowMagnitude

\* "Windows whose horizon is not fully covered by data are skipped", and no
\* other (violated: unless a tick falls on the horizon, to the millisecond).
CoveredWindowsAreKept ==
  \A e \in Ends : Last(day).ts >= Horizon(e) => e \in DOMAIN LabelWindows
=============================================================================
