------------------------ MODULE CorrelationBreakdown ------------------------
(***************************************************************************)
(* The correlation-breakdown detector (binance-stream/correlation.ts) and  *)
(* the trade handler of index.ts that feeds it: the mids of an anchor and  *)
(* of a basket are binned by second, the correlation of their returns over *)
(* the last bins is compared with a floor, and an alert is raised when it  *)
(* stays below.                                                            *)
(*                                                                         *)
(* Prices are left out: an entry of a series is the second it stands for,  *)
(* and a correlation is "low" (below the floor), "high", or "none".  Which *)
(* of them the prices give is open, once the series are long enough.       *)
(***************************************************************************)
EXTENDS Integers, Sequences, SequencesExt

CONSTANTS
    Anchor,       \* CORR_ANCHOR
    Basket,       \* CORRELATION_SYMBOLS
    WindowBins,   \* corrWindowBins
    SustainBins,  \* sustainBins
    Cooldown,     \* CORR_COOLDOWN_MS
    MaxLateness,  \* how far a trade's own time (data.T) lags behind the clock
    MaxClock      \* bound: seconds of a behaviour

Symbols == {Anchor} \cup Basket
Seconds == 0..MaxClock
Never == -1
Correlations == {"low", "high", "none"}

VARIABLES
    clock,         \* the present second
    anchorSeen,    \* currentPrice is known
    known,         \* symbols with a latestMid
    series,        \* per symbol, the seconds of its bins and returns, oldest first
    corr,          \* what currentCorr makes of the series
    lastBin,       \* the second of the last trade handled
    belowCount,    \* evaluations below the floor
    sinceAlert,    \* time since lastCorrAlertTs
    \* history variables, read by the properties alone:
    evaluations,   \* the last results of evaluate() that are not "none"
    lowSeconds,    \* seconds with a low one since the last high one
    lastLow,       \* the latest of these seconds
    alerted        \* the last step raised an alert

vars == <<clock, anchorSeen, known, series, corr, lastBin, belowCount, sinceAlert,
          evaluations, lowSeconds, lastLow, alerted>>

TypeOK ==
    /\ clock \in Seconds
    /\ anchorSeen \in BOOLEAN
    /\ known \subseteq Symbols
    /\ DOMAIN series \subseteq known
    /\ \A s \in DOMAIN series :
        series[s] \in Seq(Seconds) /\ Len(series[s]) <= WindowBins + 1
    /\ corr \in Correlations
    /\ lastBin \in Seconds \cup {Never}
    /\ belowCount \in 0..SustainBins
    /\ sinceAlert \in 0..(Cooldown + 1)
    /\ evaluations \in Seq({"low", "high"}) /\ Len(evaluations) <= SustainBins
    /\ lowSeconds \in 0..SustainBins
    /\ lastLow \in Seconds \cup {Never}
    /\ alerted \in BOOLEAN

\* Date.now() is far beyond the cooldown, so lastCorrAlertTs = 0 is long ago.
Init ==
    /\ clock = 0
    /\ anchorSeen = FALSE
    /\ known = {} /\ series = [s \in {} |-> <<>>]
    /\ corr = "none" /\ lastBin = Never
    /\ belowCount = 0
    /\ sinceAlert = Cooldown + 1
    /\ evaluations = <<>> /\ lowSeconds = 0 /\ lastLow = Never /\ alerted = FALSE

Capped(n, limit) == IF n > limit THEN limit ELSE n

\* Push and shift: the last entries of a sequence that grows at its end.
Pushed(s, e, limit) ==
    IF Len(s) < limit THEN Append(s, e) ELSE Append(Tail(s), e)

-----------------------------------------------------------------------------
(* correlation.ts                                                          *)

SeriesOf(s) == IF s \in DOMAIN series THEN series[s] ELSE <<>>

\* flushBin: every symbol known so far gets an entry for the new bin.
Flushed(symbols, bin) ==
    [s \in symbols |-> Pushed(SeriesOf(s), bin, WindowBins + 1)]

Fills(s, flushed) == s \in DOMAIN flushed /\ Len(flushed[s]) >= WindowBins

\* currentCorr: there is none before the anchor and a symbol of the basket fill
\* the window, nor when the prices stand still.
CurrentCorr(flushed) ==
    IF Fills(Anchor, flushed) /\ \E s \in Basket : Fills(s, flushed)
    THEN Correlations
    ELSE {"none"}

\* Faulty variant: the count is not reset.
BelowAfterKept(c) ==
    Capped(IF c = "low" THEN belowCount + 1 ELSE belowCount, SustainBins)

\* The count of evaluate(); more than SustainBins is as good as SustainBins.
BelowAfter(c) ==
    CASE c = "low"  -> Capped(belowCount + 1, SustainBins)
      [] c = "high" -> 0
      [] c = "none" -> belowCount

-----------------------------------------------------------------------------
(* index.ts                                                                *)

\* A depth message of the anchor sets currentPrice.
AnchorDepth ==
    /\ anchorSeen' = TRUE
    /\ alerted' = FALSE
    /\ UNCHANGED <<clock, known, series, corr, lastBin, belowCount, sinceAlert,
                   evaluations, lowSeconds, lastLow>>

\* update() for the anchor: a trade of another second than the one before it
\* flushes a bin of the given symbols.
Flush(ts, flushed) ==
    IF ts = lastBin
    THEN UNCHANGED <<series, corr>>
    ELSE series' = flushed /\ corr' \in CurrentCorr(flushed)

\* evaluate(), and the alert it may give rise to.
Detect ==
    /\ belowCount' = BelowAfter(corr')
    /\ evaluations' = IF corr' = "none" THEN evaluations
                      ELSE Pushed(evaluations, corr', SustainBins)
    /\ lastLow' = CASE corr' = "low"  -> clock
                    [] corr' = "high" -> Never
                    [] corr' = "none" -> lastLow
    /\ lowSeconds' = IF corr' = "high" THEN 0
                     ELSE IF lastLow' = lastLow THEN lowSeconds
                     ELSE Capped(lowSeconds + 1, SustainBins)
    /\ alerted' = (corr' # "none" /\ belowCount' >= SustainBins /\ sinceAlert > Cooldown)
    /\ sinceAlert' = IF alerted' THEN 0 ELSE sinceAlert

\* Faulty variant: a new second is flushed for the symbols of the trade alone.
BasketTradeFlushesOwn(s, ts) ==
    /\ anchorSeen
    /\ Flush(ts, [q \in known \cup {Anchor} |->
                     IF q \in {Anchor, s} THEN Flushed({q}, ts)[q] ELSE SeriesOf(q)])
    /\ known' = known \cup {Anchor, s}
    /\ lastBin' = ts
    /\ Detect
    /\ UNCHANGED <<clock, anchorSeen>>

\* A trade of the basket: the anchor is recorded first, which may flush, and
\* the trade's own symbol after that.
BasketTrade(s, ts) ==
    /\ anchorSeen
    /\ Flush(ts, Flushed(known \cup {Anchor}, ts))
    /\ known' = known \cup {Anchor, s}
    /\ lastBin' = ts
    /\ Detect
    /\ UNCHANGED <<clock, anchorSeen>>

Elapse ==
    /\ clock < MaxClock
    /\ clock' = clock + 1
    /\ sinceAlert' = Capped(sinceAlert + 1, Cooldown + 1)
    /\ alerted' = FALSE
    /\ UNCHANGED <<anchorSeen, known, series, corr, lastBin, belowCount,
                   evaluations, lowSeconds, lastLow>>

Next ==
    \/ AnchorDepth
    \/ \E s \in Basket, lateness \in 0..MaxLateness :
        lateness <= clock /\ BasketTrade(s, clock - lateness)
    \/ Elapse

Spec == Init /\ [][Next]_vars

-----------------------------------------------------------------------------
(* Properties *)

\* The series that are correlated are aligned: counted from their ends, their
\* entries stand for the same bins, although symbols join late, trades come
\* out of order, and the series are shortened one by one.
SeriesAligned ==
    \A s, q \in DOMAIN series : \A back \in 0..WindowBins :
        back < Len(series[s]) /\ back < Len(series[q]) =>
            series[s][Len(series[s]) - back] = series[q][Len(series[q]) - back]

\* What the detector makes of "stays below the floor for sustain seconds".  An
\* alert is raised only on an unbroken run of low results, none of the last
\* SustainBins having been above the floor; and once a low result has been seen
\* in SustainBins seconds and no high one since the first of them, there is an
\* alert that is not older than the cooldown.  The alert may come earlier,
\* within one second: evaluate() counts its calls, one per trade of the basket,
\* where its header speaks of seconds.
SustainedLowAlerts ==
    /\ alerted =>
        Len(evaluations) = SustainBins /\ \A i \in 1..SustainBins : evaluations[i] = "low"
    /\ lowSeconds = SustainBins /\ lastLow = clock => sinceAlert <= Cooldown

=============================================================================
