-------------------------- MODULE MCDataCollection --------------------------
(***************************************************************************)
(* Where the data comes from: the scripts that download and convert files,  *)
(* and the recorders that capture live depth.  They write different files,  *)
(* so a behaviour has one or the other: a plan of script runs, or a         *)
(* capture session.                                                         *)
(***************************************************************************)
EXTENDS Naturals, Sequences

CONSTANTS Symbols, Dates, Patterns, MaxMishaps, Forever, MaxRecords, MaxFailures

ASSUME CollectionAssumption ==
  Patterns \in Nat \ {0} /\ {MaxMishaps, MaxRecords, MaxFailures} \subseteq Nat /\ Forever \in BOOLEAN

VARIABLES disk, script, todo, jobs, attempts, phase, body, success, total, exit, plan, mishaps,
          session, pc, running, records, due, file, handler, over, interrupted, failures, alive

(***************************************************************************)
(* Every category of every script, with the runs that can meet its files:   *)
(* itself again, and the scripts that write the same directory.             *)
(***************************************************************************)
Only(name, key) == <<name, {key}>>
Alone == {Only("everything", key) :
            key \in {"futures", "klines", "correlated", "coingecko", "fred", "more_crashes"}}
         \cup {Only("fixed", key) : key \in {"funding", "metrics"}}
         \cup {Only("extended", key) : key \in {"depth", "klines", "funding", "aggtrades",
                                                "coinbase", "kraken", "additional"}}
Shared == << {Only("everything", "depth"), Only("fixed", "depth"), <<"everything", {"depth", "okx"}>>},
             {Only("everything", "equities"), Only("fixed", "equities"),
              <<"everything", {"equities", "deribit"}>>},
             {Only("everything", "bybit"), Only("fixed", "bybit"), Only("bybit", "bybit")},
             {Only("context", "context")},
             {<<"fixed", {"funding", "equities"}>>} >>
Archives   == {Only("all", "trades"), Only("binance", "trades")}
Converters == {Only("convert_all", "convert"), Only("convert_one", "convert")}
Plans == {<<>>}
         \cup {<<r, r>> : r \in Alone}
         \cup UNION {Shared[i] \X Shared[i] : i \in DOMAIN Shared}
         \cup (Archives \X (Archives \cup Converters) \X (Archives \cup Converters))
         \cup (Archives \X Converters \X Archives \X Converters)

\* The recorder of capture_depth_live.py, and --exchange both.
Sessions == {<<>>, <<"binance">>, <<"coinbase", "kraken">>}

D == INSTANCE DatasetFiles
C == INSTANCE DepthCapture

Init == D!Init /\ C!Init /\ (plan = <<>> <=> session # <<>>)
datasetVars == <<disk, script, todo, jobs, attempts, phase, body, success, total, exit, plan, mishaps>>
captureVars == <<session, pc, running, records, due, file, handler, over, interrupted, failures, alive>>
Next == \/ D!Next /\ UNCHANGED captureVars
        \/ C!Next /\ UNCHANGED datasetVars
Spec == Init /\ [][Next]_<<datasetVars, captureVars>> /\ WF_datasetVars(D!Advance) /\ C!Fairness

\* The properties, as the two modules state them.
TypeOK == D!TypeOK /\ C!TypeOK
FilesAreSound == D!CountedIsOnDisk /\ D!ParquetHasItsArchive
KeptOnceWritten == D!KeptOnceWritten
RecordsAreKept == C!FileIsPrefix /\ C!FinishedIsSaved
RunsEnd == D!RunEnds /\ C!TimeUpEnds /\ C!InterruptEnds
=============================================================================
