----------------------------- MODULE DepthCapture -----------------------------
(***************************************************************************)
(* The live depth recorders: scripts/capture_depth_live.py (Binance) and    *)
(* scripts/capture_cross_exchange.py (Coinbase, Kraken, or both in one      *)
(* event loop).  A recorder keeps every record in memory, rewrites its      *)
(* whole parquet file from time to time, reconnects after any error, and    *)
(* stops when its duration is over or Ctrl+C reaches it.                    *)
(*                                                                         *)
(* Between two awaits a recorder runs alone, so one iteration of its loop   *)
(* (receive, handle, save if it is time to) is one step.  A clock is two    *)
(* flags: the duration is over, a save is due.                              *)
(***************************************************************************)
EXTENDS Naturals, Sequences, SequencesExt

CONSTANTS Sessions,       \* the sets of recorders run together
          Forever,        \* TRUE: --hours 0, the duration is infinite
          MaxRecords,     \* bound: records of one recorder
          MaxFailures     \* bound: failed saves

VARIABLES session,   \* the recorders of this process, in the order gather() has them
          pc,        \* recorder -> where its run() is
          running,   \* recorder -> self._running
          records,   \* recorder -> self.records
          due,       \* recorder -> _last_save is longer ago than the interval
          file,      \* recorder -> its parquet file: the records in it, or Torn
          handler,   \* whose signal handler SIGINT calls
          over,      \* the duration has elapsed
          interrupted, \* the recorders Ctrl+C has reached
          failures, alive

vars == <<session, pc, running, records, due, file, handler, over, interrupted, failures, alive>>
loop == <<session, handler, over, interrupted, alive>>

Torn == <<"torn">>
Recorders == ToSet(session)
Ended(r) == pc[r] \in {"done", "raised", "cancelled"}

(***************************************************************************)
(* What _handle_message does with a message: record it, skip it, or raise   *)
(* into the loop.  Messages: a two-sided book, a one-sided change, no depth *)
(* at all, something that is not JSON, JSON of an unexpected shape.         *)
(***************************************************************************)
Kinds == {"both", "oneSided", "other", "garbage", "odd"}

\* needs both sides; json.loads, msg.get and int(data["E"]) are not guarded
BinanceHandle(m) == CASE m = "both" -> "record"
                      [] m \in {"garbage", "odd"} -> "raise"
                      [] OTHER -> "skip"
\* l2update changes are recorded as if they were the book, one side or two
CoinbaseHandle(m) == CASE m \in {"both", "oneSided"} -> "record"
                       [] m = "garbage" -> "raise"
                       [] OTHER -> "skip"
\* everything is inside one try; an update carries one side, so only the
\* snapshots of a new subscription are recorded
KrakenHandle(m) == IF m = "both" THEN "record" ELSE "skip"

Handle(r, m) == CASE r = "binance"  -> BinanceHandle(m)
                  [] r = "coinbase" -> CoinbaseHandle(m)
                  [] r = "kraken"   -> KrakenHandle(m)

Init ==
  /\ session \in Sessions
  /\ pc = [r \in Recorders |-> "new"] /\ running = [r \in Recorders |-> FALSE]
  /\ records = [r \in Recorders |-> <<>>] /\ file = [r \in Recorders |-> <<>>]
  /\ due = [r \in Recorders |-> TRUE]      \* _last_save = 0.0
  /\ handler = "none" /\ over = FALSE /\ interrupted = {} /\ failures = 0 /\ alive = TRUE

\* while self._running and time.time() - self._start_time < duration_seconds
Going(r) == running[r] /\ ~over
At(r, p) == pc' = [pc EXCEPT ![r] = p]

(***************************************************************************)
(* _save(): nothing without records; otherwise the whole file is rewritten. *)
(* A failure raises; the file may be torn by then.                          *)
(***************************************************************************)
SaveOk(r) == /\ IF records'[r] = <<>> THEN UNCHANGED <<file, due>>
                ELSE /\ file' = [file EXCEPT ![r] = records'[r]]
                     /\ due' = [due EXCEPT ![r] = FALSE]
             /\ UNCHANGED failures
SaveFails(r) == /\ records'[r] # <<>> /\ failures < MaxFailures
                /\ failures' = failures + 1
                /\ \E f \in {file[r], Torn} : file' = [file EXCEPT ![r] = f]
                /\ UNCHANGED due

\* run() up to the loop: the last recorder to start owns SIGINT
Begin(r) ==
  /\ alive /\ pc[r] = "new"
  /\ \A i \in DOMAIN session : session[i] = r => \A j \in 1..i-1 : pc[session[j]] # "new"
  /\ running' = [running EXCEPT ![r] = TRUE] /\ handler' = r
  /\ At(r, "connect")
  /\ UNCHANGED <<session, records, due, file, over, interrupted, failures, alive>>

Connect(r) ==
  /\ alive /\ pc[r] = "connect"
  /\ \/ At(r, IF Going(r) THEN "waiting" ELSE "final")
     \/ At(r, "sleep")
  /\ UNCHANGED <<loop, running, records, due, file, failures>>

\* One iteration: a message or the 5 s timeout, then the periodic save.
AfterIteration(r) == IF Going(r) THEN "waiting" ELSE "final"
SaveIfDue(r) == IF due[r]
                THEN \/ SaveOk(r) /\ At(r, AfterIteration(r))
                     \/ SaveFails(r) /\ At(r, "sleep")
                ELSE UNCHANGED <<due, file, failures>> /\ At(r, AfterIteration(r))

Receive(r, m) ==
  /\ alive /\ pc[r] = "waiting"
  /\ Handle(r, m) # "raise"
  /\ Handle(r, m) = "record" => Len(records[r]) < MaxRecords
  /\ records' = [records EXCEPT ![r] = IF Handle(r, m) = "record" THEN Append(@, m) ELSE @]
  /\ SaveIfDue(r)
  /\ UNCHANGED <<loop, running>>

Timeout(r) ==
  /\ alive /\ pc[r] = "waiting"
  /\ UNCHANGED <<loop, running, records>>
  /\ SaveIfDue(r)

\* the connection breaks, or a message raises: reconnect in 2 s
Broken(r) ==
  /\ alive /\ pc[r] = "waiting"
  /\ At(r, "sleep")
  /\ UNCHANGED <<loop, running, records, due, file, failures>>

Wake(r) ==
  /\ alive /\ pc[r] = "sleep"
  /\ At(r, IF Going(r) THEN "connect" ELSE "final")
  /\ UNCHANGED <<loop, running, records, due, file, failures>>

\* (mutant: no save at the end unless one is due)
FinalSavesIfDue(r) == /\ alive /\ pc[r] = "final"
                      /\ UNCHANGED <<loop, running, records>>
                      /\ IF due[r] THEN SaveOk(r) ELSE UNCHANGED <<due, file, failures>>
                      /\ At(r, "done")
\* the last _save() is outside the loop's try
Final(r) ==
  /\ alive /\ pc[r] = "final"
  /\ UNCHANGED <<loop, running, records>>
  /\ \/ SaveOk(r) /\ At(r, "done")
     \/ SaveFails(r) /\ At(r, "raised")

\* asyncio.gather: one recorder that raises ends the process, and the others
\* are cancelled where they await, without a last save.
GatherCancels ==
  /\ alive /\ \E r \in Recorders : pc[r] = "raised"
  /\ \A r \in Recorders : pc[r] # "new"
  /\ pc' = [r \in Recorders |-> IF Ended(r) THEN pc[r] ELSE "cancelled"]
  /\ alive' = FALSE
  /\ UNCHANGED <<session, running, records, due, file, handler, over, interrupted, failures>>

\* Ctrl+C: the handler installed last clears its own recorder's flag.
Interrupt ==
  /\ alive /\ handler # "none"
  /\ running' = [running EXCEPT ![handler] = FALSE]
  /\ interrupted' = interrupted \cup {handler}
  /\ UNCHANGED <<session, pc, records, due, file, handler, over, failures, alive>>

DurationElapses ==
  /\ ~Forever /\ handler # "none" /\ over' = TRUE
  /\ UNCHANGED <<session, pc, running, records, due, file, handler, interrupted, failures, alive>>
SaveFallsDue(r) ==
  /\ alive /\ ~Ended(r) /\ due' = [due EXCEPT ![r] = TRUE]
  /\ UNCHANGED <<loop, pc, running, records, file, failures>>

\* the process is killed, perhaps within a save
Killed ==
  /\ alive /\ Recorders # {}
  /\ alive' = FALSE
  /\ \/ UNCHANGED file
     \/ \E r \in Recorders : /\ records[r] # <<>> /\ pc[r] \in {"waiting", "final"}
                             /\ file' = [file EXCEPT ![r] = Torn]
  /\ UNCHANGED <<session, pc, running, records, due, handler, over, interrupted, failures>>

Turn(r) == \/ Begin(r) \/ Connect(r) \/ Timeout(r) \/ Broken(r) \/ Wake(r) \/ Final(r)
           \/ \E m \in Kinds : Receive(r, m)
Next == \/ \E r \in Recorders : Turn(r) \/ SaveFallsDue(r)
        \/ GatherCancels \/ Interrupt \/ DurationElapses \/ Killed

\* The event loop gives every recorder its turns: connect, recv and sleep all
\* have timeouts.
Fairness == (\A r \in {"binance", "coinbase", "kraken"} : WF_vars(r \in Recorders /\ Turn(r)))
            /\ WF_vars(GatherCancels)
Spec == Init /\ [][Next]_vars /\ Fairness

-----------------------------------------------------------------------------
TypeOK ==
  /\ session \in Sessions /\ handler \in Recorders \cup {"none"}
  /\ DOMAIN pc = Recorders /\ DOMAIN records = Recorders
  /\ \A r \in Recorders :
       /\ pc[r] \in {"new", "connect", "waiting", "sleep", "final", "done", "raised", "cancelled"}
       /\ \A i \in DOMAIN records[r] : records[r][i] \in Kinds
       /\ file[r] = Torn \/ Len(file[r]) <= MaxRecords
       /\ interrupted \subseteq Recorders

\* Through reconnections, failed saves and interrupts the file is a prefix of
\* what was recorded; only a kill or a failed save within the write tears it,
\* and the next good save mends it.
FileIsPrefix ==
  \A r \in Recorders : \/ IsPrefix(file[r], records[r])
                       \/ file[r] = Torn /\ (failures > 0 \/ ~alive)

\* "Press Ctrl+C to stop early (partial data is saved)": a recorder that ends
\* by itself, interrupted or not, has all its records on disk; one that is
\* cancelled because the other raised may not.
FinishedIsSaved ==
  \A r \in Recorders : pc[r] = "done" => file[r] = records[r]

\* Once the duration is over the process ends, whatever the connections do.
TimeUpEnds == over ~> (\A r \in Recorders : Ended(r)) \/ ~alive

\* Ctrl+C ends the recorder it reaches, even while it waits to reconnect; with
\* both exchanges the second handler replaces the first, so it never reaches
\* the Coinbase recorder.
InterruptEnds == \A r \in {"binance", "coinbase", "kraken"} :
                   r \in interrupted ~> ~alive \/ (r \in Recorders /\ Ended(r))
=============================================================================
