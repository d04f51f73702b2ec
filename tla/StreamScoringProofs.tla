------------------------ MODULE StreamScoringProofs ------------------------
(***************************************************************************)
(* What holds of StreamScoring for every choice of thresholds, intervals   *)
(* and watchlist: the service can always leave its fallback in time, it    *)
(* never asks a sidecar that has used up its failures, and no two alerts   *)
(* of a symbol share a dedupKey.                                           *)
(***************************************************************************)
EXTENDS StreamScoring, TLAPS

\* Why two alerts never share a key: while the current bucket's key is used,
\* the alert that used it is younger than the bucket is, hence too young for
\* the cooldown to let another one pass.
UsedKeyIsRecent ==
    \A s \in Symbols :
        /\ keyUses[s] <= 1
        /\ keyUses[s] = 1 => sinceAlert[s] <= clock

\* The age of a fallback is only counted while the sidecar is switched off.
AvailableHasNoFallbackAge == tcnAvailable => fallbackAge = 0

\* The inductive invariant: the last two conjuncts carry the history that the
\* properties themselves do not mention.
IInv ==
    /\ TypeOK
    /\ AvailableHasNoFallbackAge
    /\ FallbackBounded
    /\ AvailableBelowLimit
    /\ UsedKeyIsRecent

-----------------------------------------------------------------------------
(* Lemmas about the parts the actions share.                               *)

\* An alert is fired only for a symbol whose current key is unused, so firing
\* it keeps the alert history well typed and each key used at most once.
LEMMA AlertSafe ==
    ASSUME TypeOK, UsedKeyIsRecent, UNCHANGED clock,
           NEW s \in Symbols, NEW score \in Scores, NEW gateOpen \in BOOLEAN,
           Alert(s, score, gateOpen)
    PROVE  /\ sinceAlert' \in [Symbols -> 0..(AlertCooldown + 1)]
           /\ keyUses' \in [Symbols -> Nat]
           /\ UsedKeyIsRecent'
<1> USE TimeAssumption, BucketAssumption DEF TypeOK
<1>1. CASE ShouldAlert(s, score, gateOpen)
    <2>1. sinceAlert[s] > clock
        BY <1>1 DEF ShouldAlert
    <2>2. keyUses[s] = 0
        BY <2>1 DEF UsedKeyIsRecent
    <2>3. /\ sinceAlert' = [sinceAlert EXCEPT ![s] = 0]
          /\ keyUses' = [keyUses EXCEPT ![s] = @ + 1]
        BY <1>1 DEF Alert
    <2> QED
        BY <2>2, <2>3 DEF UsedKeyIsRecent
<1>2. CASE ~ShouldAlert(s, score, gateOpen)
    BY <1>2 DEF Alert, alertVars, UsedKeyIsRecent
<1> QED
    BY <1>1, <1>2

\* Handling a score to the end keeps the score and alert history well typed
\* and each key used at most once.
LEMMA FinishSafe ==
    ASSUME TypeOK, UsedKeyIsRecent,
           NEW score \in Scores, NEW source \in Sources, NEW isModel \in BOOLEAN,
           Finish(score, source, isModel)
    PROVE  /\ currentScore' \in Scores
           /\ scoreIsModel' \in BOOLEAN
           /\ output' \in [score : Scores, source : Sources, model : BOOLEAN]
           /\ clock' \in 0..(DedupBucket - 1)
           /\ sinceAlert' \in [Symbols -> 0..(AlertCooldown + 1)]
           /\ keyUses' \in [Symbols -> Nat]
           /\ UsedKeyIsRecent'
<1>1. PICK gateOpen \in BOOLEAN : Alert(Anchor, score, gateOpen)
    BY DEF Finish
<1>2. Anchor \in Symbols
    BY DEF Symbols
<1>3. UNCHANGED clock
    BY DEF Finish
<1>4. /\ sinceAlert' \in [Symbols -> 0..(AlertCooldown + 1)]
      /\ keyUses' \in [Symbols -> Nat]
      /\ UsedKeyIsRecent'
    BY <1>1, <1>2, <1>3, AlertSafe
<1> QED
    BY <1>3, <1>4 DEF Finish, TypeOK

\* Counting a failure keeps the sidecar state well typed, leaves a timer in
\* time for the fallback it begins, and never leaves the sidecar available
\* at the limit.
LEMMA FailureSafe ==
    ASSUME IInv, RecordFailure, UNCHANGED fallbackAge
    PROVE  /\ tcnAvailable' \in BOOLEAN
           /\ tcnFailureCount' \in 0..FailureLimit
           /\ retryTimers' \in SUBSET (0..FallbackFor)
           /\ AvailableHasNoFallbackAge'
           /\ FallbackBounded'
           /\ AvailableBelowLimit'
<1> DEFINE failures == tcnFailureCount + 1
<1>1. CASE failures >= FailureLimit
    <2>1. /\ tcnAvailable' = FALSE
          /\ retryTimers' = retryTimers \cup {FallbackFor}
        BY <1>1 DEF RecordFailure
    <2>2. tcnFailureCount' \in 0..FailureLimit
        BY TimeAssumption DEF RecordFailure, Capped, IInv, TypeOK
    <2>3. retryTimers' \in SUBSET (0..FallbackFor)
        BY <2>1, TimeAssumption DEF IInv, TypeOK
    <2>4. FallbackBounded'
        <3>1. CASE tcnAvailable
            <4>1. fallbackAge' = 0
                BY <3>1 DEF IInv, AvailableHasNoFallbackAge
            <4>2. FallbackFor \in retryTimers' /\ FallbackFor + fallbackAge' <= FallbackFor
                BY <2>1, <4>1, TimeAssumption
            <4> QED
                BY <4>2 DEF FallbackBounded
        <3>2. CASE ~tcnAvailable
            <4>1. PICK t \in retryTimers : t + fallbackAge <= FallbackFor
                BY <3>2 DEF IInv, FallbackBounded
            <4>2. t \in retryTimers' /\ t + fallbackAge' <= FallbackFor
                BY <2>1, <4>1
            <4> QED
                BY <4>2 DEF FallbackBounded
        <3> QED
            BY <3>1, <3>2
    <2> QED
        BY <2>1, <2>2, <2>3, <2>4 DEF AvailableHasNoFallbackAge, AvailableBelowLimit
<1>2. CASE ~(failures >= FailureLimit)
    <2>1. tcnAvailable' = tcnAvailable /\ retryTimers' = retryTimers
        BY <1>2 DEF RecordFailure
    <2>2. tcnFailureCount' \in 0..FailureLimit /\ tcnFailureCount' < FailureLimit
        BY <1>2, TimeAssumption DEF RecordFailure, Capped, IInv, TypeOK
    <2> QED
        BY <2>1, <2>2 DEF IInv, TypeOK, AvailableHasNoFallbackAge, FallbackBounded,
                          AvailableBelowLimit
<1> QED
    BY <1>1, <1>2

-----------------------------------------------------------------------------
(* The inductive invariant.                                                *)

\* The state of a service that has just started satisfies the invariant.
LEMMA InitIInv == Init => IInv
<1> SUFFICES ASSUME Init PROVE IInv
    OBVIOUS
<1>1. TypeOK
    <2>1. 0 \in Scores /\ "heuristic" \in Sources
        BY ScoreAssumption DEF Scores, Sources
    <2>2. output \in [score : Scores, source : Sources, model : BOOLEAN]
        BY <2>1 DEF Init
    <2>3. /\ sinceTcnCall \in 0..TcnThrottle
          /\ sinceAlert \in [Symbols -> 0..(AlertCooldown + 1)]
          /\ keyUses \in [Symbols -> Nat]
          /\ reading \in 0..MaxReading /\ tcnFailureCount \in 0..FailureLimit
          /\ fallbackAge \in 0..(FallbackFor + 1)
        BY TimeAssumption DEF Init
    <2> QED
        BY <2>1, <2>2, <2>3 DEF Init, TypeOK
<1>2. AvailableHasNoFallbackAge /\ FallbackBounded /\ AvailableBelowLimit
    BY TimeAssumption DEF Init, AvailableHasNoFallbackAge, FallbackBounded, AvailableBelowLimit
<1>3. UsedKeyIsRecent
    BY DEF Init, UsedKeyIsRecent
<1> QED
    BY <1>1, <1>2, <1>3 DEF IInv

\* The parts of IInv that speak of the sidecar alone.
LEMMA SidecarUnchanged ==
    ASSUME IInv, UNCHANGED <<tcnAvailable, tcnFailureCount, retryTimers, fallbackAge>>
    PROVE  AvailableHasNoFallbackAge' /\ FallbackBounded' /\ AvailableBelowLimit'
BY DEF IInv, AvailableHasNoFallbackAge, FallbackBounded, AvailableBelowLimit

\* An anchor message: a request changes no score, any other outcome is Finish.
LEMMA AnchorMessagePreserves == IInv /\ AnchorMessage => IInv'
<1> SUFFICES ASSUME IInv, AnchorMessage PROVE IInv'
    OBVIOUS
<1> USE DEF IInv
<1>1. 0 \in Scores
    BY ScoreAssumption DEF Scores
<1>2. CASE HeuristicMessage \/ ThrottledMessage
    <2>1. PICK score \in Scores, source \in Sources, isModel \in BOOLEAN :
              Finish(score, source, isModel)
        BY <1>2 DEF HeuristicMessage, ThrottledMessage, Sources, TypeOK
    <2>2. UNCHANGED sidecarVars
        BY <1>2 DEF HeuristicMessage, ThrottledMessage
    <2>3. AvailableHasNoFallbackAge' /\ FallbackBounded' /\ AvailableBelowLimit'
        BY <2>2, SidecarUnchanged DEF sidecarVars
    <2> QED
        BY <2>1, <2>2, <2>3, FinishSafe DEF TypeOK, sidecarVars
<1>3. CASE RequestMessage
    <2>1. TypeOK'
        BY <1>3, TimeAssumption DEF RequestMessage, TypeOK, scoreVars, alertVars
    <2>2. AvailableHasNoFallbackAge' /\ FallbackBounded' /\ AvailableBelowLimit'
        BY <1>3, SidecarUnchanged DEF RequestMessage
    <2>3. UsedKeyIsRecent'
        BY <1>3 DEF RequestMessage, alertVars, UsedKeyIsRecent
    <2> QED
        BY <2>1, <2>2, <2>3
<1> QED
    BY <1>2, <1>3 DEF AnchorMessage

\* An answer, an abort or a broken body: Finish, after counting a failure or not.
LEMMA ResponsePreserves == IInv /\ Response => IInv'
<1> SUFFICES ASSUME IInv, Response PROVE IInv'
    OBVIOUS
<1> USE DEF IInv
<1>1. ASSUME Fail, waiting' \in SUBSET (0..FallbackAfter), reading' \in 0..MaxReading
      PROVE  IInv'
    <2>1. PICK h \in Scores : Finish(h, "heuristic", FALSE)
        BY <1>1 DEF Fail
    <2>2. RecordFailure /\ UNCHANGED <<sinceTcnCall, fallbackAge>>
        BY <1>1 DEF Fail
    <2>3. "heuristic" \in Sources
        BY DEF Sources
    <2> QED
        BY <1>1, <2>1, <2>2, <2>3, FinishSafe, FailureSafe DEF TypeOK
<1>2. ASSUME NEW age \in waiting, ResponseHeaders(age)
      PROVE  IInv'
    <2>1. TypeOK'
        BY <1>2, TimeAssumption DEF ResponseHeaders, TypeOK, scoreVars, alertVars
    <2>2. AvailableHasNoFallbackAge' /\ FallbackBounded' /\ AvailableBelowLimit'
        BY <1>2, SidecarUnchanged DEF ResponseHeaders
    <2>3. UsedKeyIsRecent'
        BY <1>2 DEF ResponseHeaders, alertVars, UsedKeyIsRecent
    <2> QED
        BY <2>1, <2>2, <2>3
<1>3. ASSUME NEW age \in waiting, RequestFails(age)
      PROVE  IInv'
    BY <1>1, <1>3 DEF RequestFails, TypeOK
<1>4. CASE ResponseBody
    <2>1. PICK score \in Scores, source \in Sources, isModel \in BOOLEAN :
              Finish(score, source, isModel)
        <3>1. 0 \in Scores /\ "tcn" \in Sources /\ "warmup" \in Sources
            BY ScoreAssumption DEF Scores, Sources
        <3>2. (\E h \in Scores : Finish(h, "tcn", TRUE)) \/ Finish(0, "warmup", FALSE)
            BY <1>4 DEF ResponseBody
        <3> QED
            BY <3>1, <3>2, Zenon
    <2>2. /\ tcnFailureCount' = 0 \/ tcnFailureCount' = tcnFailureCount
          /\ UNCHANGED <<tcnAvailable, retryTimers, sinceTcnCall, waiting, fallbackAge>>
        BY <1>4 DEF ResponseBody
    <2>3. AvailableHasNoFallbackAge' /\ FallbackBounded'
        BY <2>2 DEF AvailableHasNoFallbackAge, FallbackBounded
    <2>4. AvailableBelowLimit'
        BY <2>2, TimeAssumption DEF AvailableBelowLimit
    <2>5. tcnFailureCount' \in 0..FailureLimit
        BY <2>2, TimeAssumption DEF TypeOK
    <2>6. reading' \in 0..MaxReading
        BY <1>4, TimeAssumption DEF ResponseBody, TypeOK
    <2> QED
        BY <2>1, <2>2, <2>3, <2>4, <2>5, <2>6, FinishSafe DEF TypeOK
<1>5. CASE ResponseBodyFails
    <2>1. reading' \in 0..MaxReading
        BY <1>5, TimeAssumption DEF ResponseBodyFails, TypeOK
    <2> QED
        BY <1>1, <1>5, <2>1 DEF ResponseBodyFails, TypeOK
<1> QED
    BY <1>2, <1>3, <1>4, <1>5 DEF Response

\* A retry timer: the fallback, if any, ends with a clean count.
LEMMA RetryPreserves == IInv /\ RetrySidecar => IInv'
<1> SUFFICES ASSUME IInv, RetrySidecar PROVE IInv'
    OBVIOUS
<1> USE DEF IInv
<1>1. TypeOK'
    BY TimeAssumption DEF RetrySidecar, TypeOK, scoreVars, alertVars
<1>2. AvailableHasNoFallbackAge' /\ FallbackBounded' /\ AvailableBelowLimit'
    BY TimeAssumption DEF RetrySidecar, AvailableHasNoFallbackAge, FallbackBounded,
                          AvailableBelowLimit
<1>3. UsedKeyIsRecent'
    BY DEF RetrySidecar, alertVars, UsedKeyIsRecent
<1> QED
    BY <1>1, <1>2, <1>3

\* A watchlist message touches the alert history of its own symbol alone.
LEMMA WatchlistPreserves ==
    ASSUME IInv, NEW s \in Watchlist, WatchlistMessage(s)
    PROVE  IInv'
<1> USE DEF IInv
<1>1. PICK h \in Scores, gateOpen \in BOOLEAN : Alert(s, h, gateOpen)
    BY DEF WatchlistMessage
<1>2. UNCHANGED <<sidecarVars, scoreVars, clock>>
    BY DEF WatchlistMessage
<1>3. /\ sinceAlert' \in [Symbols -> 0..(AlertCooldown + 1)]
      /\ keyUses' \in [Symbols -> Nat]
      /\ UsedKeyIsRecent'
    BY <1>1, <1>2, AlertSafe DEF Symbols
<1>4. AvailableHasNoFallbackAge' /\ FallbackBounded' /\ AvailableBelowLimit'
    BY <1>2, SidecarUnchanged DEF sidecarVars
<1> QED
    BY <1>2, <1>3, <1>4 DEF TypeOK, sidecarVars, scoreVars

\* Time: a fallback's timer comes nearer as the fallback grows older, and the
\* last alert grows older with its bucket.
LEMMA TickPreserves == IInv /\ Tick => IInv'
<1> SUFFICES ASSUME IInv, Tick PROVE IInv'
    OBVIOUS
<1> USE TimeAssumption DEF IInv, Tick, Elapse
<1>1. retryTimers' \in SUBSET (0..FallbackFor) /\ waiting' \in SUBSET (0..FallbackAfter)
    BY DEF TypeOK
<1>2. sinceTcnCall' \in 0..TcnThrottle
    BY DEF TypeOK, Capped
<1>3. sinceAlert' \in [Symbols -> 0..(AlertCooldown + 1)]
    BY DEF TypeOK, Capped
<1>4. clock' \in 0..(DedupBucket - 1)
    BY DEF TypeOK
<1>5. keyUses' \in [Symbols -> Nat]
    BY DEF TypeOK
<1>6. fallbackAge' \in 0..(FallbackFor + 1)
    BY DEF TypeOK, Capped
<1>7. AvailableHasNoFallbackAge' /\ AvailableBelowLimit'
    BY DEF AvailableHasNoFallbackAge, AvailableBelowLimit
<1>8. FallbackBounded'
    <2>1. SUFFICES ASSUME ~tcnAvailable' PROVE \E u \in retryTimers' : u + fallbackAge' <= FallbackFor
        BY DEF FallbackBounded
    <2>2. ~tcnAvailable /\ fallbackAge' <= fallbackAge + 1
        BY <2>1 DEF TypeOK, Capped
    <2>3. PICK t \in retryTimers : t + fallbackAge <= FallbackFor
        BY <2>2 DEF FallbackBounded
    <2>4. t - 1 \in retryTimers' /\ (t - 1) + fallbackAge' <= FallbackFor
        BY <1>6, <2>2, <2>3 DEF TypeOK
    <2> QED
        BY <2>4
<1>9. UsedKeyIsRecent'
    <2> SUFFICES ASSUME NEW s \in Symbols
                 PROVE  /\ keyUses'[s] <= 1
                        /\ keyUses'[s] = 1 => sinceAlert'[s] <= clock'
        BY DEF UsedKeyIsRecent
    <2>1. CASE clock + 1 = DedupBucket
        BY <2>1
    <2>2. CASE clock + 1 # DedupBucket
        <3>1. clock' = clock + 1 /\ keyUses' = keyUses
            BY <2>2 DEF TypeOK
        <3>2. /\ sinceAlert[s] \in Nat /\ sinceAlert'[s] \in Nat
              /\ sinceAlert'[s] <= sinceAlert[s] + 1
            BY DEF TypeOK, Capped
        <3>3. keyUses[s] <= 1 /\ (keyUses[s] = 1 => sinceAlert[s] <= clock)
            BY DEF UsedKeyIsRecent
        <3>4. clock \in Nat
            BY DEF TypeOK
        <3>5. CASE keyUses[s] = 1
            <4>1. sinceAlert[s] <= clock
                BY <3>3, <3>5
            <4>2. sinceAlert'[s] <= clock'
                <5> HIDE DEF Tick, Elapse, IInv
                <5> QED
                    BY <3>1, <3>2, <3>4, <4>1
            <4> QED
                BY <3>1, <3>5, <4>2
        <3> QED
            BY <3>1, <3>3, <3>5
    <2> QED
        BY <2>1, <2>2
<1> QED
    BY <1>1, <1>2, <1>3, <1>4, <1>5, <1>6, <1>7, <1>8, <1>9 DEF TypeOK, scoreVars

\* Every step, and every stutter.
LEMMA NextPreserves == IInv /\ [Next]_vars => IInv'
<1> SUFFICES ASSUME IInv, [Next]_vars PROVE IInv'
    OBVIOUS
<1>1. CASE UNCHANGED vars
    <2>1. UsedKeyIsRecent' /\ AvailableHasNoFallbackAge' /\ FallbackBounded' /\ AvailableBelowLimit'
        BY <1>1, SidecarUnchanged DEF IInv, vars, sidecarVars, alertVars, UsedKeyIsRecent
    <2> QED
        BY <1>1, <2>1 DEF IInv, vars, sidecarVars, scoreVars, alertVars, TypeOK
<1>2. CASE Next
    BY <1>2, AnchorMessagePreserves, ResponsePreserves, RetryPreserves,
       WatchlistPreserves, TickPreserves DEF Next
<1> QED
    BY <1>1, <1>2

\* The invariant holds of every behaviour of the service.
THEOREM IInvHolds == Spec => []IInv
BY InitIInv, NextPreserves, PTL DEF Spec

-----------------------------------------------------------------------------
(* The results.                                                            *)

\* Every variable of the service keeps its type: in particular no request
\* waits for its headers longer than the abort timer allows.
THEOREM TypeCorrect == Spec => []TypeOK
<1>1. IInv => TypeOK
    BY DEF IInv
<1> QED
    BY IInvHolds, <1>1, PTL

\* Two alerts of a symbol never carry the same dedupKey: the cooldown, which is
\* measured from the alert before, is long enough to leave its bucket.
THEOREM DedupKeysDistinct == Spec => []OneAlertPerDedupKey
<1>1. IInv => OneAlertPerDedupKey
    BY DEF IInv, UsedKeyIsRecent, OneAlertPerDedupKey
<1> QED
    BY IInvHolds, <1>1, PTL

\* A fallback is never left without a timer that ends it in time, however many
\* failures and late answers arrive during it.
THEOREM FallbackIsBounded == Spec => []FallbackBounded
<1>1. IInv => FallbackBounded
    BY DEF IInv
<1> QED
    BY IInvHolds, <1>1, PTL

\* The sidecar is never asked while the failures that switch it off stand.
THEOREM SidecarAskedBelowLimit == Spec => []AvailableBelowLimit
<1>1. IInv => AvailableBelowLimit
    BY DEF IInv
<1> QED
    BY IInvHolds, <1>1, PTL

=============================================================================
