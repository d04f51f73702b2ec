--------------------------- MODULE StreamScoring ---------------------------
(***************************************************************************)
(* The detection path of the live stream service                           *)
(* (flash-crash-watchdog-web/mini-services/binance-stream/index.ts): how a *)
(* depth message becomes a score, how the service falls back from the TCN  *)
(* sidecar to its own heuristic and recovers, and when a score is alerted. *)
(*                                                                         *)
(* processStreamMessage is async and onmessage does not await it, so       *)
(* several depth messages are in flight at once, each suspended either on  *)
(* the response headers of its fetch or on the response body.  What runs   *)
(* between two suspensions runs to completion, and is one action here.     *)
(*                                                                         *)
(* Time: Date.now() is only ever compared with an earlier reading of       *)
(* itself, so each reading is kept as the time elapsed since it, capped at *)
(* the threshold it is compared with, and each timer as the time it has    *)
(* left.  A timer fires in the unit of time in which it falls due.         *)
(***************************************************************************)
EXTENDS Integers, FiniteSets

CONSTANTS
    UseTcn,         \* USE_TCN: ask the sidecar at all
    Anchor,         \* CORR_ANCHOR: the symbol the sidecar scores
    Watchlist,      \* WATCHLIST: symbols scored by the heuristic alone
    MaxScore,       \* scores are 0..MaxScore; 0 is the score "nothing seen"
    Threshold,      \* SYMBOL_ALERT_THRESHOLD
    TcnThrottle,    \* TCN_THROTTLE_MS
    FallbackAfter,  \* FALLBACK_AFTER_MS: the fetch is aborted after this long
    FallbackFor,    \* the 30 s retry timer
    FailureLimit,   \* failures that switch the sidecar off
    AlertCooldown,  \* the 10 s between two alerts of a symbol
    DedupBucket,    \* the 10 s bucket of a dedupKey
    MaxReading      \* bound: responses whose body is being read at once

ASSUME ModeAssumption == UseTcn \in BOOLEAN
ASSUME SymbolAssumption == Anchor \notin Watchlist
ASSUME ScoreAssumption == MaxScore \in Nat /\ Threshold \in Nat
ASSUME TimeAssumption ==
    /\ TcnThrottle \in Nat \ {0} /\ FallbackAfter \in Nat \ {0}
    /\ FallbackFor \in Nat \ {0} /\ FailureLimit \in Nat \ {0}
    /\ AlertCooldown \in Nat /\ DedupBucket \in Nat \ {0}
    /\ MaxReading \in Nat
ASSUME BucketAssumption == DedupBucket <= AlertCooldown + 1

Symbols == {Anchor} \cup Watchlist
Scores == 0..MaxScore
Sources == {"tcn", "heuristic", "warmup"}

VARIABLES
    currentScore,     \* score of the last anchor message handled
    tcnAvailable,     \* may the sidecar be asked
    tcnFailureCount,  \* failures since the last success or retry
    retryTimers,      \* time left on each pending 30 s retry timer
    sinceTcnCall,     \* Date.now() - lastTcnCall
    waiting,          \* ages of the requests waiting for response headers
    reading,          \* how many responses are having their body read
    sinceAlert,       \* per symbol, Date.now() - lastAlertTime
    clock,            \* Date.now() % 10_000, the position in the dedup bucket
    \* history variables, read by the properties alone:
    scoreIsModel,     \* currentScore was produced by the TCN
    output,           \* what scoreWithTCN returned last, and whence it came
    fallbackAge,      \* how long the sidecar has been switched off
    keyUses           \* per symbol, alerts carrying the current bucket's key

sidecarVars == <<tcnAvailable, tcnFailureCount, retryTimers, sinceTcnCall,
                 waiting, reading, fallbackAge>>
scoreVars == <<currentScore, scoreIsModel, output>>
alertVars == <<sinceAlert, keyUses>>
vars == <<sidecarVars, scoreVars, alertVars, clock>>

TypeOK ==
    /\ currentScore \in Scores
    /\ tcnAvailable \in BOOLEAN
    /\ tcnFailureCount \in 0..FailureLimit
    /\ retryTimers \in SUBSET (0..FallbackFor)
    /\ sinceTcnCall \in 0..TcnThrottle
    /\ waiting \in SUBSET (0..FallbackAfter)
    /\ reading \in 0..MaxReading
    /\ sinceAlert \in [Symbols -> 0..(AlertCooldown + 1)]
    /\ clock \in 0..(DedupBucket - 1)
    /\ scoreIsModel \in BOOLEAN
    /\ output \in [score : Scores, source : Sources, model : BOOLEAN]
    /\ fallbackAge \in 0..(FallbackFor + 1)
    /\ keyUses \in [Symbols -> Nat]

\* Date.now() starts far beyond every threshold, so lastTcnCall = 0 and
\* lastAlertTime = 0 read as "long ago".
Init ==
    /\ currentScore = 0 /\ scoreIsModel = FALSE
    /\ tcnAvailable = TRUE /\ tcnFailureCount = 0
    /\ retryTimers = {} /\ fallbackAge = 0
    /\ sinceTcnCall = TcnThrottle
    /\ waiting = {} /\ reading = 0
    /\ sinceAlert = [s \in Symbols |-> AlertCooldown + 1]
    /\ keyUses = [s \in Symbols |-> 0]
    /\ clock \in 0..(DedupBucket - 1)
    /\ output = [score |-> 0, source |-> "heuristic", model |-> FALSE]

Capped(n, limit) == IF n > limit THEN limit ELSE n

-----------------------------------------------------------------------------
(* Alerting: the score against the threshold, the trailing volatility      *)
(* against its gate, and the cooldown, all read after the await.           *)

ShouldAlert(s, score, gateOpen) ==
    score > Threshold /\ gateOpen /\ sinceAlert[s] > AlertCooldown

\* Faulty variant: a watchlist alert stamps the anchor's lastAlertTime.
AlertStampsAnchor(s, score, gateOpen) ==
    IF ShouldAlert(s, score, gateOpen)
    THEN /\ sinceAlert' = [sinceAlert EXCEPT ![Anchor] = 0]
         /\ keyUses' = [keyUses EXCEPT ![s] = @ + 1]
    ELSE UNCHANGED alertVars

Alert(s, score, gateOpen) ==
    IF ShouldAlert(s, score, gateOpen)
    THEN /\ sinceAlert' = [sinceAlert EXCEPT ![s] = 0]
         /\ keyUses' = [keyUses EXCEPT ![s] = @ + 1]
    ELSE UNCHANGED alertVars

\* The rest of processStreamMessage once scoreWithTCN has returned: every
\* result becomes currentScore, whatever its source.  The gate reads the
\* price history of that moment.
Finish(score, source, isModel) ==
    /\ currentScore' = score
    /\ scoreIsModel' = isModel
    /\ output' = [score |-> score, source |-> source, model |-> isModel]
    /\ \E gateOpen \in BOOLEAN : Alert(Anchor, score, gateOpen)
    /\ UNCHANGED clock

-----------------------------------------------------------------------------
(* An anchor depth message, up to its first suspension or its end.         *)

HeuristicMessage ==
    /\ ~UseTcn \/ ~tcnAvailable
    /\ \E h \in Scores : Finish(h, "heuristic", FALSE)
    /\ UNCHANGED sidecarVars

ThrottledMessage ==
    /\ UseTcn /\ tcnAvailable
    /\ sinceTcnCall < TcnThrottle
    /\ \/ /\ currentScore > 0
          /\ Finish(currentScore, "tcn", scoreIsModel)
       \/ /\ currentScore = 0
          /\ \E h \in Scores : Finish(h, "heuristic", FALSE)
    /\ UNCHANGED sidecarVars

RequestMessage ==
    /\ UseTcn /\ tcnAvailable
    /\ sinceTcnCall >= TcnThrottle
    /\ sinceTcnCall' = 0
    /\ waiting' = waiting \cup {0}
    /\ UNCHANGED <<tcnAvailable, tcnFailureCount, retryTimers, reading,
                   fallbackAge, scoreVars, alertVars, clock>>

-----------------------------------------------------------------------------
(* The sidecar answers, fails, or is aborted.                              *)

\* Faulty variant: a failure replaces the pending retry timer with a new one.
RecordFailureRestartsTimer ==
    LET failures == tcnFailureCount + 1 IN
    /\ tcnFailureCount' = Capped(failures, FailureLimit)
    /\ tcnAvailable' = IF failures >= FailureLimit THEN FALSE ELSE tcnAvailable
    /\ retryTimers' = IF failures >= FailureLimit
                      THEN {FallbackFor}
                      ELSE retryTimers

\* Faulty variant: off by one, the failure that switches the sidecar off sets
\* no timer.
RecordFailureSetsTimerLate ==
    LET failures == tcnFailureCount + 1 IN
    /\ tcnFailureCount' = Capped(failures, FailureLimit)
    /\ tcnAvailable' = IF failures >= FailureLimit THEN FALSE ELSE tcnAvailable
    /\ retryTimers' = IF failures > FailureLimit
                      THEN retryTimers \cup {FallbackFor}
                      ELSE retryTimers

\* The catch clause: count the failure; from the limit on every failure
\* switches the sidecar off and sets one more retry timer.
RecordFailure ==
    LET failures == tcnFailureCount + 1 IN
    /\ tcnFailureCount' = Capped(failures, FailureLimit)
    /\ tcnAvailable' = IF failures >= FailureLimit THEN FALSE ELSE tcnAvailable
    /\ retryTimers' = IF failures >= FailureLimit
                      THEN retryTimers \cup {FallbackFor}
                      ELSE retryTimers

Fail ==
    /\ RecordFailure
    /\ \E h \in Scores : Finish(h, "heuristic", FALSE)
    /\ UNCHANGED <<sinceTcnCall, fallbackAge>>

\* The headers of a 2xx response: the abort timer is cleared and the handler
\* suspends again, on the body.
ResponseHeaders(age) ==
    /\ age \in waiting
    /\ reading < MaxReading
    /\ waiting' = waiting \ {age}
    /\ reading' = reading + 1
    /\ UNCHANGED <<tcnAvailable, tcnFailureCount, retryTimers, sinceTcnCall,
                   fallbackAge, scoreVars, alertVars, clock>>

\* A connection error or a non-2xx status, at any time before the abort.
RequestFails(age) ==
    /\ age \in waiting
    /\ waiting' = waiting \ {age}
    /\ Fail
    /\ UNCHANGED reading

\* The abort timer.
RequestAborted == RequestFails(FallbackAfter)

\* The body of a response: a full-window TCN score, or any other source
\* (warmup, or the sidecar's own fallback), whose score is discarded.
ResponseBody ==
    /\ reading > 0
    /\ reading' = reading - 1
    /\ \/ /\ tcnFailureCount' = 0
          /\ \E s \in Scores : Finish(s, "tcn", TRUE)
       \/ /\ Finish(0, "warmup", FALSE)
          /\ UNCHANGED tcnFailureCount
    /\ UNCHANGED <<tcnAvailable, retryTimers, sinceTcnCall, waiting, fallbackAge>>

\* The body breaks off or is not JSON.
ResponseBodyFails ==
    /\ reading > 0
    /\ reading' = reading - 1
    /\ Fail
    /\ UNCHANGED waiting

\* Faulty variant: the retry does not clear the failure count.
RetryKeepsCount ==
    /\ 0 \in retryTimers
    /\ retryTimers' = retryTimers \ {0}
    /\ tcnAvailable' = TRUE
    /\ fallbackAge' = 0
    /\ UNCHANGED <<tcnFailureCount, sinceTcnCall, waiting, reading, scoreVars,
                   alertVars, clock>>

\* The callback of a retry timer.
RetrySidecar ==
    /\ 0 \in retryTimers
    /\ retryTimers' = retryTimers \ {0}
    /\ tcnAvailable' = TRUE
    /\ tcnFailureCount' = 0
    /\ fallbackAge' = 0
    /\ UNCHANGED <<sinceTcnCall, waiting, reading, scoreVars, alertVars, clock>>

-----------------------------------------------------------------------------
\* A depth message of a watchlist symbol: scored and alerted synchronously.
WatchlistMessage(s) ==
    /\ \E h \in Scores, gateOpen \in BOOLEAN : Alert(s, h, gateOpen)
    /\ UNCHANGED <<sidecarVars, scoreVars, clock>>

\* Time passes by one unit for every reading and timer.
Elapse ==
    /\ retryTimers' = {t - 1 : t \in retryTimers}
    /\ waiting' = {a + 1 : a \in waiting}
    /\ sinceTcnCall' = Capped(sinceTcnCall + 1, TcnThrottle)
    /\ sinceAlert' = [s \in Symbols |-> Capped(sinceAlert[s] + 1, AlertCooldown + 1)]
    /\ clock' = IF clock + 1 = DedupBucket THEN 0 ELSE clock + 1
    /\ keyUses' = IF clock' = 0 THEN [s \in Symbols |-> 0] ELSE keyUses
    /\ fallbackAge' = IF tcnAvailable THEN 0
                      ELSE Capped(fallbackAge + 1, FallbackFor + 1)
    /\ UNCHANGED <<tcnAvailable, tcnFailureCount, reading, scoreVars>>

\* Faulty variant: no abort timer guards the wait for the headers.
TickWithoutAbort == 0 \notin retryTimers /\ Elapse

\* Time passes once the callbacks that are due have run.
Tick ==
    /\ 0 \notin retryTimers
    /\ FallbackAfter \notin waiting
    /\ Elapse

AnchorMessage == HeuristicMessage \/ ThrottledMessage \/ RequestMessage

Response ==
    \/ \E age \in waiting : ResponseHeaders(age) \/ RequestFails(age)
    \/ ResponseBody
    \/ ResponseBodyFails

Next ==
    \/ AnchorMessage
    \/ Response
    \/ RetrySidecar
    \/ \E s \in Watchlist : WatchlistMessage(s)
    \/ Tick

\* Timers run and time passes.  Nothing obliges the market to send a message
\* or the sidecar to answer.
Fairness == WF_vars(Tick) /\ WF_vars(RetrySidecar) /\ WF_vars(RequestAborted)

Spec == Init /\ [][Next]_vars /\ Fairness

-----------------------------------------------------------------------------
(* Properties *)

\* An alert's dedupKey (symbol and 10 s bucket) is what the database and the
\* dashboards tell alerts apart by.  Within one run of the service no two
\* alerts of a symbol carry the same key, although the cooldown is measured
\* from the last alert and the bucket from the epoch.
OneAlertPerDedupKey == \A s \in Symbols : keyUses[s] <= 1

\* While the sidecar is switched off, some retry timer will switch it on again
\* no later than FallbackFor after it was switched off, however many failures
\* of requests still in flight set further timers meanwhile.
FallbackBounded ==
    ~tcnAvailable => \E t \in retryTimers : t + fallbackAge <= FallbackFor

\* The sidecar is never asked while FailureLimit failures stand against it:
\* a retry starts from a clean count, and no answer that arrives late leaves
\* the service available with the limit reached.
AvailableBelowLimit == tcnAvailable => tcnFailureCount < FailureLimit

\* The service never stays on the heuristic for good.
FallbackEnds == ~tcnAvailable ~> tcnAvailable

\* What the BUG-11 comment says of the throttle path: it returns the last REAL
\* TCN score, and a heuristic or fallback score is never stamped 'tcn'.
TcnLabelIsHonest == output.source = "tcn" => output.model

=============================================================================
