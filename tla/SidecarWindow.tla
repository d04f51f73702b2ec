--------------------------- MODULE SidecarWindow ---------------------------
(***************************************************************************)
(* The path of a tick from the stream service into the window the TCN      *)
(* scores: scoreWithTCN (binance-stream/index.ts) buffers every tick and   *)
(* sends the ones not sent before in a batch, at most once per throttle    *)
(* interval; /score (ml-inference/server.py) feeds the batch, tick by      *)
(* tick, to the one Stage3TCN of the process and scores its window.        *)
(*                                                                         *)
(* A request in flight does not hold the next one back, requests overtake  *)
(* each other, and FastAPI runs the plain functions score and reset in a   *)
(* pool of threads, with no lock around the Stage3TCN: two requests are    *)
(* fed at once, and the interpreter may switch threads at any call.        *)
(*                                                                         *)
(* A tick is the number of its arrival.  What normalisation makes of its   *)
(* values is not modelled.  Date.now() is taken never to step back.        *)
(***************************************************************************)
EXTENDS Integers, Sequences, SequencesExt, FiniteSets

CONSTANTS
    Threads,       \* workers of the pool that runs the endpoints
    MaxWindow,     \* sequence_length: ticks the TCN is trained on
    BufferCap,     \* ticks kept in tickBuffer (500)
    BatchCap,      \* ticks sent in one request (40)
    TcnThrottle,   \* TCN_THROTTLE_MS
    RequestsFail,  \* may a request be lost on its way to the sidecar
    Fallbacks,     \* may the stream service be in its fallback
    Resets,        \* may /reset be called
    MaxOverlap,    \* bound: requests sent and not yet answered
    MaxTicks,      \* bound: ticks of a behaviour
    MaxClock       \* bound: Date.now()

VARIABLES
    clock,        \* Date.now()
    stamp,        \* timestamp_ms of every tick so far
    tickBuffer,   \* the last ticks, oldest first
    lastTcnCall,  \* when the last request was sent
    lastFlushTs,  \* timestamp_ms of the last tick sent
    requests,     \* batches on their way to the sidecar
    window,       \* Stage3TCN._window
    pc,           \* what each thread does next
    left,         \* per thread, the ticks of its batch not fed yet
    holding,      \* threads that hold the append method of the current list
    scored,       \* the window of the last answer with ready = true
    \* history variable, read by the properties alone:
    interrupted   \* threads with a reset between their check and their score

streamVars == <<clock, stamp, tickBuffer, lastTcnCall, lastFlushTs>>
vars == <<streamVars, requests, window, pc, left, holding, scored,
          interrupted>>

Ticks == 1..MaxTicks
Steps == {"idle", "bind", "append", "measure", "trim", "check", "score"}
Nothing == [ready |-> FALSE, reset |-> FALSE, window |-> <<>>]

TypeOK ==
    /\ clock \in 0..MaxClock
    /\ stamp \in Seq(0..MaxClock) /\ Len(stamp) <= MaxTicks
    /\ tickBuffer \in Seq(Ticks) /\ Len(tickBuffer) <= BufferCap
    /\ lastTcnCall \in 0..clock
    /\ lastFlushTs \in 0..clock
    /\ requests \subseteq Seq(Ticks)
    /\ window \in Seq(Ticks)
    \* longer than the model is trained on by what threads have yet to trim
    /\ Len(window) <= MaxWindow + Cardinality({t \in Threads : pc[t] \in {"measure", "trim"}})
    /\ pc \in [Threads -> Steps]
    /\ left \in [Threads -> Seq(Ticks)]
    /\ holding \subseteq Threads
    /\ scored \in [ready : BOOLEAN, reset : BOOLEAN, window : Seq(Ticks)]
    /\ interrupted \subseteq Threads

\* lastTcnCall = lastFlushTs = 0 lies in the distant past.
Init ==
    /\ clock = TcnThrottle
    /\ stamp = <<>> /\ tickBuffer = <<>>
    /\ lastTcnCall = 0 /\ lastFlushTs = 0
    /\ requests = {}
    /\ window = <<>>
    /\ pc = [t \in Threads |-> "idle"]
    /\ left = [t \in Threads |-> <<>>]
    /\ holding = {}
    /\ scored = Nothing /\ interrupted = {}

\* The JavaScript slice(-n) and the Python [-n:].
LastOf(s, n) == IF Len(s) <= n THEN s ELSE SubSeq(s, Len(s) - n + 1, Len(s))

-----------------------------------------------------------------------------
(* The stream service.                                                     *)

Buffer == LastOf(Append(tickBuffer, Len(stamp) + 1), BufferCap)

TakeTick ==
    /\ Len(stamp) < MaxTicks
    /\ stamp' = Append(stamp, clock)
    /\ tickBuffer' = Buffer

\* The throttle has not elapsed, or the sidecar is switched off.
UnsentTick ==
    /\ TakeTick
    /\ clock - lastTcnCall < TcnThrottle \/ Fallbacks
    /\ UNCHANGED <<clock, lastTcnCall, lastFlushTs, requests, window, pc, left,
                   holding, scored, interrupted>>

\* The ticks of the buffer that are newer than the last one sent: as the clock
\* does not step back, those that follow the ones that are not.
Sent == {i \in DOMAIN Buffer : stamp'[Buffer[i]] <= lastFlushTs}
Batch == LastOf(SubSeq(Buffer, Cardinality(Sent) + 1, Len(Buffer)), BatchCap)

Busy == {t \in Threads : pc[t] # "idle"}

\* Faulty variant: lastFlushTs moves on only when the answer is there.
RequestFlushesLate ==
    /\ TakeTick
    /\ clock - lastTcnCall >= TcnThrottle
    /\ Cardinality(requests) + Cardinality(Busy) < MaxOverlap
    /\ lastTcnCall' = clock
    /\ requests' = requests \cup {Batch}
    /\ lastFlushTs' = IF requests = {} /\ Busy = {} THEN stamp'[Last(Batch)]
                                                    ELSE lastFlushTs
    /\ UNCHANGED <<clock, window, pc, left, holding, scored, interrupted>>

\* The tick that asks: the batch is cut and lastFlushTs moves on before the
\* request is sent.
Request ==
    /\ TakeTick
    /\ clock - lastTcnCall >= TcnThrottle
    /\ Cardinality(requests) + Cardinality(Busy) < MaxOverlap
    /\ lastTcnCall' = clock
    /\ requests' = requests \cup
                       {IF Batch = <<>> THEN <<Last(Buffer)>> ELSE Batch}
    /\ lastFlushTs' = IF Batch = <<>> THEN lastFlushTs ELSE stamp'[Last(Batch)]
    /\ UNCHANGED <<clock, window, pc, left, holding, scored, interrupted>>

\* The sidecar is down or refuses the request.
LoseRequest ==
    /\ RequestsFail
    /\ \E b \in requests : requests' = requests \ {b}
    /\ UNCHANGED <<streamVars, window, pc, left, holding, scored, interrupted>>

Elapse ==
    /\ clock < MaxClock
    /\ clock' = clock + 1
    /\ UNCHANGED <<stamp, tickBuffer, lastTcnCall, lastFlushTs, requests, window,
                   pc, left, holding, scored, interrupted>>

-----------------------------------------------------------------------------
(* The sidecar: score(), one thread per request.                           *)

GoTo(t, step) == pc' = [pc EXCEPT ![t] = step]

ReceiveRequest(t) ==
    /\ pc[t] = "idle"
    /\ \E b \in requests :
        /\ requests' = requests \ {b}
        /\ left' = [left EXCEPT ![t] = b]
    /\ GoTo(t, "bind")
    /\ UNCHANGED <<streamVars, window, holding, scored, interrupted>>

\* feed(): self._window.append is looked up first, then its argument is
\* computed, which takes a while: the list may be replaced meanwhile.
FeedBind(t) ==
    /\ pc[t] = "bind"
    /\ holding' = holding \cup {t}
    /\ GoTo(t, "append")
    /\ UNCHANGED <<streamVars, requests, window, left, scored, interrupted>>

\* A tick appended to a list that has been replaced is lost.
FeedAppend(t) ==
    /\ pc[t] = "append"
    /\ window' = IF t \in holding THEN Append(window, Head(left[t])) ELSE window
    /\ holding' = holding \ {t}
    /\ left' = [left EXCEPT ![t] = Tail(@)]
    /\ GoTo(t, "measure")
    /\ UNCHANGED <<streamVars, requests, scored, interrupted>>

NextTick(t) == GoTo(t, IF left[t] = <<>> THEN "check" ELSE "bind")

\* Faulty variant: off by one.
FeedMeasureLate(t) ==
    /\ pc[t] = "measure"
    /\ IF Len(window) > MaxWindow + 1 THEN GoTo(t, "trim") ELSE NextTick(t)
    /\ UNCHANGED <<streamVars, requests, window, left, holding, scored, interrupted>>

FeedMeasure(t) ==
    /\ pc[t] = "measure"
    /\ IF Len(window) > MaxWindow THEN GoTo(t, "trim") ELSE NextTick(t)
    /\ UNCHANGED <<streamVars, requests, window, left, holding, scored, interrupted>>

\* Faulty variant: the window is emptied, not cut to its last ticks.
FeedTrimClears(t) ==
    /\ pc[t] = "trim"
    /\ window' = <<>>
    /\ holding' = {}
    /\ NextTick(t)
    /\ UNCHANGED <<streamVars, requests, left, scored, interrupted>>

\* The window is replaced by a new list of its last ticks.
FeedTrim(t) ==
    /\ pc[t] = "trim"
    /\ window' = LastOf(window, MaxWindow)
    /\ holding' = {}
    /\ NextTick(t)
    /\ UNCHANGED <<streamVars, requests, left, scored, interrupted>>

\* The batch is fed: with less than a full window the answer is 'warmup'.
CheckFull(t) ==
    /\ pc[t] = "check"
    /\ GoTo(t, IF Len(window) < MaxWindow THEN "idle" ELSE "score")
    /\ interrupted' = interrupted \ {t}
    /\ UNCHANGED <<streamVars, requests, window, left, holding, scored>>

\* Otherwise the window is read once more, and whatever score_current makes of
\* it (0.0, if it is no longer full) is answered with ready = true.
ScoreCurrent(t) ==
    /\ pc[t] = "score"
    /\ scored' = [ready |-> TRUE, reset |-> t \in interrupted, window |-> window]
    /\ GoTo(t, "idle")
    /\ UNCHANGED <<streamVars, requests, window, left, holding, interrupted>>

\* reset(), in a thread of its own.
Reset ==
    /\ Resets
    /\ window' = <<>>
    /\ holding' = {}
    /\ interrupted' = interrupted \cup {t \in Threads : pc[t] = "score"}
    /\ UNCHANGED <<streamVars, requests, pc, left, scored>>

-----------------------------------------------------------------------------

Score(t) ==
    \/ ReceiveRequest(t)
    \/ FeedBind(t) \/ FeedAppend(t) \/ FeedMeasure(t) \/ FeedTrim(t)
    \/ CheckFull(t) \/ ScoreCurrent(t)

Next ==
    \/ UnsentTick \/ Request \/ LoseRequest \/ Elapse
    \/ \E t \in Threads : Score(t)
    \/ Reset

Spec == Init /\ [][Next]_vars

-----------------------------------------------------------------------------
(* Properties *)

\* However requests overlap, overtake each other or fail, and whatever the
\* threads that feed them do to each other, no tick enters the window twice:
\* the window never counts one market event as two.
NoTickTwice ==
    \A i, j \in 1..Len(window) : window[i] = window[j] => i = j

\* An answer with ready = true scores at least a full window, although the
\* window is measured and read at different times while other threads feed it:
\* only a reset in between can leave less.
ReadyIsFullUnlessReset ==
    scored.ready /\ ~scored.reset => Len(scored.window) >= MaxWindow

=============================================================================
