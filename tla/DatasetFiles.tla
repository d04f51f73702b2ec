---------------------------- MODULE DatasetFiles ----------------------------
(***************************************************************************)
(* The data directory and the scripts that fill it: the downloaders         *)
(* (scripts/download_*.py, data/download_binance.py) and the converters     *)
(* (scripts/convert_*.py).  The scripts share nothing but the files: each   *)
(* decides from what an earlier run, of itself or of another script, left   *)
(* on disk whether to fetch again.  Any request may fail, answer something  *)
(* else than the data, any write may fail half way, and a run may be killed *)
(* at any instant.                                                          *)
(*                                                                         *)
(* A script is a sequence of categories, a category a set of jobs, a job a  *)
(* sequence of attempts of which the first that succeeds ends it.  Dates,   *)
(* symbols and URLs are abstracted to the file they are written to; the     *)
(* jobs of a category do not read each other's files, so their order is     *)
(* left open.                                                               *)
(***************************************************************************)
EXTENDS Naturals, Sequences

CONSTANTS Symbols,        \* trading symbols of the job tables
          Dates,          \* days of the job tables
          Patterns,       \* URL patterns tried for one file, in order
          Plans,          \* bound: runs tried one after the other, each a
                          \*   script and the set of its categories (--only)
          MaxMishaps      \* bound: killed runs and failed writes

VARIABLES disk,     \* file -> what it holds; a file not in the domain is absent
          script,   \* the script that runs
          todo,     \* its categories still to come: <<key, jobs>>
          jobs,     \* the current category's jobs still to come
          attempts, \* the current job's attempts still to come
          phase,    \* where the script is
          body,     \* the body being written
          success,  \* the current category's count, as the set of its files
          total,    \* the count of the categories that returned
          exit,     \* how the last run ended
          plan,     \* the runs still to come
          mishaps

run == <<script, todo, jobs, attempts, phase, body, success, total, exit>>
vars == <<disk, run, plan, mishaps>>

\* What a server may answer: the data, a page that is not it, a refusal in
\* JSON, a body under 100 bytes (or an empty table), a 200 with no body.
Answers == {"data", "page", "refusal", "short", "nothing"}
\* A file that was opened and not written is "empty", one that holds an
\* answer without a body "nothing": the code sees no difference.
Contents == Answers \cup {"empty", "partial"}

Exists(f)   == f \in DOMAIN disk
HasBytes(f) == Exists(f) /\ disk[f] \notin {"empty", "nothing"}
Put(f, c)   == [g \in DOMAIN disk \cup {f} |-> IF g = f THEN c ELSE disk[g]]

(***************************************************************************)
(* The helpers, by what they do: which existing file makes them return True *)
(* at once, which bodies they write and which other ones end the job,       *)
(* whether the body is read into memory before the file is opened, whether  *)
(* a failed request may end, or go on with, the job (errorEnds), whether a  *)
(* failed write raises out of the category, whether it reads an archive.    *)
(***************************************************************************)
Helper(skip, accepts) ==
  [skip |-> skip, accepts |-> accepts, ends |-> {}, buffered |-> TRUE,
   errorEnds |-> {FALSE}, writeRaises |-> FALSE, local |-> FALSE]

\* (mutants: a helper that takes any existing file for a download, and one that
\* always downloads)
SkipsEmptyFiles == Helper("exists", Answers)
AlwaysDownloads == Helper("never", Answers)

EverythingDownloadFile == Helper("bytes", Answers)
FixedDownloadFile      == Helper("bytes", Answers)
FixedDownloadJson      == Helper("bytes", {"data", "refusal"})
ExtendedDownloadFile   == Helper("bytes", Answers)
AllDownloadFile        == Helper("exists", Answers)
BybitDownloadFile      == Helper("bytes", Answers \ {"short", "nothing"})
BybitDownloadJson      == Helper("bytes", {"data"})
RetrieveFile           == [Helper("exists", Answers) EXCEPT !.buffered = FALSE]
History                == [Helper("never", {"data"}) EXCEPT !.errorEnds = {TRUE}]
ContextGet             == [Helper("never", {"data", "refusal"}) EXCEPT
                             !.ends = {"short"}, !.errorEnds = BOOLEAN, !.writeRaises = TRUE]
ConvertZip             == [Helper("exists", {"data"}) EXCEPT !.local = TRUE]
ConvertZipToParquet    == [Helper("never", {"data"}) EXCEPT !.local = TRUE, !.writeRaises = TRUE]

Try(f, helper)          == [out |-> f, by |-> helper, from |-> f]
Times(n, try)           == [i \in 1..n |-> try]
EachDay(dir, helper)    == {<<Try(<<dir, d>>, helper)>> : d \in Dates}
EachSymbolDay(dir, helper) == {<<Try(<<dir, s, d>>, helper)>> : s \in Symbols, d \in Dates}

\* download_everything.py
DownloadBinanceFutures    == EachSymbolDay("more/futures/funding.zip", EverythingDownloadFile)
DownloadBinanceDepth      == EachDay("more/depth", EverythingDownloadFile)
DownloadBinanceKlines     == EachDay("more/klines", EverythingDownloadFile)
DownloadCorrelatedSymbols == EachSymbolDay("more/correlated", EverythingDownloadFile)
DownloadBybit             == EachSymbolDay("more/bybit/1min", EverythingDownloadFile)
DownloadOkx               == {}     \* prints the command to run by hand
DownloadDeribit           == EachDay("more/deribit", EverythingDownloadFile)
DownloadEquities          == {Times(3, t[1]) : t \in EachSymbolDay("more/equities", History)}
DownloadCoingecko         == {<<Try(<<"more/coingecko", s>>, EverythingDownloadFile)>> : s \in Symbols}
DownloadFred              == {<<Try(<<"more/fred">>, EverythingDownloadFile)>>}
DownloadMoreCrashes       == EachSymbolDay("more/more_crashes", EverythingDownloadFile)

\* download_fixed.py writes under the same data/more/
DownloadFundingRatesApi   == EachSymbolDay("more/futures/funding.json", FixedDownloadJson)
Metrics                   == {"open-interest", "longshort", "taker"}
DownloadFuturesMetricsApi == {<<Try(<<"more/metrics", m, s>>, FixedDownloadJson)>> :
                                m \in Metrics, s \in Symbols}
DownloadDepthMulti        == {Times(Patterns, t[1]) : t \in EachDay("more/depth", FixedDownloadFile)}
FixedDownloadEquities     == {Times(4, t[1]) : t \in EachSymbolDay("more/equities", History)}
FixedDownloadBybit        == EachSymbolDay("more/bybit/1min", FixedDownloadFile)

\* download_extended.py
ExtendedDepth      == EachDay("extended/depth", ExtendedDownloadFile)
ExtendedKlines     == EachDay("extended/klines", ExtendedDownloadFile)
ExtendedFunding    == EachDay("extended/funding", ExtendedDownloadFile)
ExtendedAggtrades  == EachDay("extended/aggtrades", ExtendedDownloadFile)
ExtendedCoinbase   == {<<Try(<<"extended/coinbase">>, ExtendedDownloadFile)>>}
ExtendedKraken     == {<<Try(<<"extended/kraken">>, ExtendedDownloadFile)>>}
ExtendedAdditional == EachSymbolDay("extended/additional_crashes", ExtendedDownloadFile)

\* download_bybit_fixed.py: kline CSVs of each interval, then the trades, then the API
TryBybitKlineCsv(s, d)   == Times(Patterns, Try(<<"more/bybit/1min", s, d>>, BybitDownloadFile))
                            \o Times(Patterns, Try(<<"more/bybit/5min", s, d>>, BybitDownloadFile))
TryBybitTradingCsv(s, d) == Times(2, Try(<<"more/bybit/trades", s, d>>, BybitDownloadFile))
BybitApiKlines(s, d)     == <<Try(<<"more/bybit/json", s, d>>, BybitDownloadJson)>>
DownloadBybitFixed       == {TryBybitKlineCsv(s, d) \o TryBybitTradingCsv(s, d) \o BybitApiKlines(s, d) :
                               s \in Symbols, d \in Dates}

\* download_all_datasets.py and data/download_binance.py write the same
\* data/<symbol>-trades-<date>.zip
DownloadBinanceDataset == EachSymbolDay("data", AllDownloadFile)
DownloadBinanceData    == EachSymbolDay("data", RetrieveFile)

\* download_market_context.py asks each question three times
ContextJobs == {Times(3, Try(<<"more/context", q, s, d>>, ContextGet)) :
                  q \in {"funding", "klines"}, s \in Symbols, d \in Dates}

\* The converters read the archives that are in data/ when they start.
Zips == {f \in DOMAIN disk : f[1] = "data"}
Parquet(zip) == [zip EXCEPT ![1] = "data/parquet"]
Conversion(zip, helper) == <<[out |-> Parquet(zip), by |-> helper, from |-> zip]>>
ConvertAllJobs == {Conversion(zip, ConvertZip) : zip \in Zips}

(***************************************************************************)
(* The scripts: categories in order, whether a raising category spares the  *)
(* others, and whether the exit status looks at the count.                  *)
(***************************************************************************)
Main(guarded, counts, categories) ==
  [guarded |-> guarded, counts |-> counts, categories |-> categories]

EverythingMain == Main(TRUE, TRUE,
  << <<"futures", DownloadBinanceFutures>>, <<"depth", DownloadBinanceDepth>>,
     <<"klines", DownloadBinanceKlines>>, <<"correlated", DownloadCorrelatedSymbols>>,
     <<"bybit", DownloadBybit>>, <<"okx", DownloadOkx>>, <<"deribit", DownloadDeribit>>,
     <<"equities", DownloadEquities>>, <<"coingecko", DownloadCoingecko>>,
     <<"fred", DownloadFred>>, <<"more_crashes", DownloadMoreCrashes>> >>)
FixedMain == Main(FALSE, TRUE,
  << <<"funding", DownloadFundingRatesApi>>, <<"metrics", DownloadFuturesMetricsApi>>,
     <<"depth", DownloadDepthMulti>>, <<"equities", FixedDownloadEquities>>,
     <<"bybit", FixedDownloadBybit>> >>)
ExtendedMain == Main(FALSE, TRUE,
  << <<"depth", ExtendedDepth>>, <<"klines", ExtendedKlines>>, <<"funding", ExtendedFunding>>,
     <<"aggtrades", ExtendedAggtrades>>, <<"coinbase", ExtendedCoinbase>>,
     <<"kraken", ExtendedKraken>>, <<"additional", ExtendedAdditional>> >>)
BybitMain   == Main(FALSE, TRUE, << <<"bybit", DownloadBybitFixed>> >>)
AllMain     == Main(FALSE, TRUE, << <<"trades", DownloadBinanceDataset>> >>)
BinanceMain == Main(FALSE, TRUE, << <<"trades", DownloadBinanceData>> >>)
ContextMain == Main(FALSE, FALSE, << <<"context", ContextJobs>> >>)
ConvertAllMain == Main(FALSE, TRUE, << <<"convert", ConvertAllJobs>> >>)
ConvertOneMain(zip) == Main(FALSE, FALSE, << <<"convert", {Conversion(zip, ConvertZipToParquet)}>> >>)

Scripts == [everything |-> EverythingMain, fixed |-> FixedMain, extended |-> ExtendedMain,
            bybit |-> BybitMain, all |-> AllMain, binance |-> BinanceMain,
            context |-> ContextMain, convert_all |-> ConvertAllMain]
Guarded == script = "everything"
Counts  == script \notin {"context", "convert_one"}

-----------------------------------------------------------------------------
Init == /\ disk = <<>> /\ script = "none" /\ todo = <<>> /\ jobs = {} /\ attempts = <<>>
        /\ phase = "idle" /\ body = "none" /\ success = {} /\ total = {}
        /\ exit = "none" /\ plan \in Plans /\ mishaps = 0

\* --only: what is not selected does nothing.
Selected(category, only) == IF category[1] \in only THEN category ELSE <<category[1], {}>>

Launch(categories) ==
  /\ phase = "idle" /\ plan # <<>>
  /\ script' = Head(plan)[1] /\ plan' = Tail(plan)
  /\ todo' = [i \in DOMAIN categories |-> Selected(categories[i], Head(plan)[2])]
  /\ phase' = "categories" /\ exit' = "none"
  /\ UNCHANGED <<disk, jobs, attempts, body, success, total, mishaps>>

Start == plan # <<>> /\ Head(plan)[1] \in DOMAIN Scripts /\ Launch(Scripts[Head(plan)[1]].categories)
StartConvertOne ==
  /\ plan # <<>> /\ Head(plan)[1] = "convert_one"
  /\ \E zip \in Zips : Launch(ConvertOneMain(zip).categories)

\* download_equities returns 0 at once without yfinance.
NextCategory ==
  /\ phase = "categories" /\ todo # <<>>
  /\ todo' = Tail(todo) /\ phase' = "jobs"
  /\ \/ jobs' = Head(todo)[2]
     \/ Head(todo)[1] = "equities" /\ jobs' = {}
  /\ UNCHANGED <<disk, script, attempts, body, success, total, exit, plan, mishaps>>

TakeJob ==
  /\ phase = "jobs"
  /\ \E j \in jobs : attempts' = j /\ jobs' = jobs \ {j}
  /\ phase' = "asking"
  /\ UNCHANGED <<disk, script, todo, body, success, total, exit, plan, mishaps>>

\* `total += func(...)`: a category counts when it returns.
CategoryReturns ==
  /\ phase = "jobs" /\ jobs = {}
  /\ total' = total \cup success /\ success' = {} /\ phase' = "categories"
  /\ UNCHANGED <<disk, script, todo, jobs, attempts, body, exit, plan, mishaps>>

\* the process and its memory are gone
Gone == /\ phase' = "idle" /\ script' = "none" /\ body' = "none"
        /\ todo' = <<>> /\ jobs' = {} /\ attempts' = <<>> /\ success' = {} /\ total' = {}

MainReturns ==
  /\ phase = "categories" /\ todo = <<>>
  /\ exit' = IF Counts /\ total = {} THEN "1" ELSE "0"
  /\ Gone
  /\ UNCHANGED <<disk, plan, mishaps>>

(***************************************************************************)
(* One attempt.                                                             *)
(***************************************************************************)
Try1 == Head(attempts)
AlreadyThere == CASE Try1.by.skip = "bytes"  -> HasBytes(Try1.out)
                  [] Try1.by.skip = "exists" -> Exists(Try1.out)
                  [] OTHER -> FALSE

EndJob == attempts' = <<>> /\ phase' = "jobs"
Succeed == EndJob /\ success' = success \cup {Try1.out}
\* (mutant: the last attempt is dropped like the others)
FailGoesOn(stops) == /\ UNCHANGED success
                     /\ IF stops THEN EndJob
                        ELSE attempts' = Tail(attempts) /\ phase' = "asking"

\* False: the next attempt, if there is one and the helper goes on to it
Fail(stops) == /\ UNCHANGED success
               /\ IF stops \/ Len(attempts) = 1
                  THEN EndJob
                  ELSE attempts' = Tail(attempts) /\ phase' = "asking"

Skip ==
  /\ phase = "asking" /\ AlreadyThere
  /\ Succeed
  /\ UNCHANGED <<disk, script, todo, jobs, body, total, exit, plan, mishaps>>

NoAnswer ==
  /\ phase = "asking" /\ ~AlreadyThere /\ ~Try1.by.local
  /\ \E stops \in Try1.by.errorEnds : Fail(stops)
  /\ UNCHANGED <<disk, script, todo, jobs, body, total, exit, plan, mishaps>>

\* A body that is refused, and an archive that cannot be read.
Refused(answer) ==
  /\ phase = "asking" /\ ~AlreadyThere
  /\ IF Try1.by.local THEN answer = disk[Try1.from] ELSE answer \in Answers
  /\ answer \notin Try1.by.accepts
  /\ Try1.by.local => ~Try1.by.writeRaises
  /\ Fail(answer \in Try1.by.ends)
  /\ UNCHANGED <<disk, script, todo, jobs, body, total, exit, plan, mishaps>>

\* open(..., "wb") truncates the file before the body is in it.
OpenFile(answer) ==
  /\ phase = "asking" /\ ~AlreadyThere
  /\ IF Try1.by.local THEN answer = disk[Try1.from] ELSE answer \in Answers
  /\ answer \in Try1.by.accepts
  /\ disk' = Put(Try1.out, "empty") /\ body' = answer /\ phase' = "writing"
  /\ UNCHANGED <<script, todo, jobs, attempts, success, total, exit, plan, mishaps>>

Written ==
  /\ phase = "writing"
  /\ disk' = Put(Try1.out, body) /\ body' = "none"
  /\ Succeed
  /\ UNCHANGED <<script, todo, jobs, total, exit, plan, mishaps>>

\* What a write that does not finish may leave.
Remains == {"empty"} \cup (IF body = "nothing" THEN {} ELSE {"partial"})

\* urlretrieve writes while it reads: a connection that breaks leaves a part.
BrokenOff ==
  /\ phase = "writing" /\ ~Try1.by.buffered
  /\ \E c \in Remains : disk' = Put(Try1.out, c)
  /\ body' = "none" /\ Fail(FALSE)
  /\ UNCHANGED <<script, todo, jobs, total, exit, plan, mishaps>>

Abort(how) == Gone /\ exit' = how /\ UNCHANGED plan

WriteFails ==
  /\ phase = "writing" /\ mishaps < MaxMishaps
  /\ \E c \in Remains : disk' = Put(Try1.out, c)
  /\ mishaps' = mishaps + 1
  /\ IF Try1.by.writeRaises
     THEN Abort("traceback")
     ELSE /\ \E stops \in Try1.by.errorEnds : Fail(stops)
          /\ body' = "none" /\ UNCHANGED <<script, todo, jobs, total, exit, plan>>

Kill ==
  /\ phase # "idle" /\ mishaps < MaxMishaps
  /\ \/ UNCHANGED disk
     \/ phase = "writing" /\ \E c \in Remains : disk' = Put(Try1.out, c)
  /\ mishaps' = mishaps + 1
  /\ Abort("killed")

\* (mutant: what raised is put back among the category's jobs)
RaisesAgain ==
  /\ phase = "asking"
  /\ IF Guarded
     THEN /\ phase' = "jobs" /\ jobs' = jobs \cup {attempts} /\ attempts' = <<>>
          /\ UNCHANGED <<script, todo, body, success, total, exit, plan>>
     ELSE Abort("traceback")
  /\ UNCHANGED <<disk, mishaps>>

\* exists(), stat() and mkdir() are outside the helpers' try; so is the
\* archive that convert_binance_trades.py cannot read.  Only the main of
\* download_everything.py catches what a category raises, and then the
\* category's count is lost.
Raises ==
  /\ phase = "asking"
  /\ IF Guarded
     THEN /\ phase' = "categories" /\ jobs' = {} /\ attempts' = <<>> /\ success' = {}
          /\ UNCHANGED <<script, todo, body, total, exit, plan>>
     ELSE Abort("traceback")
  /\ UNCHANGED <<disk, mishaps>>

Step == \/ NextCategory \/ TakeJob \/ CategoryReturns \/ MainReturns
        \/ Skip \/ NoAnswer \/ (\E a \in Contents : Refused(a))
        \/ (\E a \in Answers : OpenFile(a))
        \/ Written \/ BrokenOff \/ WriteFails \/ Raises
Next == Start \/ StartConvertOne \/ Step \/ Kill

\* Two waits have no timeout: urlretrieve's, for an answer and for each block
\* of it, and that of download_fixed.py for the pip that installs yfinance.
WaitsWithoutTimeout ==
  \/ script = "binance" /\ (phase = "writing" \/ (phase = "asking" /\ ~AlreadyThere))
  \/ /\ script = "fixed" /\ phase = "categories" /\ todo # <<>>
     /\ Head(todo)[1] = "equities" /\ Head(todo)[2] # {}

\* A running script goes on wherever it waits for nothing, or with a timeout.
Advance == ~WaitsWithoutTimeout /\ Step
Spec == Init /\ [][Next]_vars /\ WF_vars(Advance)

-----------------------------------------------------------------------------
TypeOK ==
  /\ \A f \in DOMAIN disk : disk[f] \in Contents
  /\ phase \in {"idle", "categories", "jobs", "asking", "writing"}
  /\ body \in Answers \cup {"none"} /\ (phase = "writing") = (body # "none")
  /\ phase \in {"asking", "writing"} => attempts # <<>>
  /\ exit \in {"none", "0", "1", "traceback", "killed"}
  /\ mishaps \in 0..MaxMishaps

\* The files whose helper looks at the body it got: parses it, or measures it.
Examined == {"more/futures/funding.json", "more/metrics", "more/equities", "more/context",
             "more/bybit/5min", "more/bybit/trades", "more/bybit/json"}

\* What a run counts as downloaded is on disk, although later attempts, later
\* categories and failed writes come in between; only the scripts that ask
\* exists() alone count what a failed write left empty.  A file that is
\* counted with no bytes in it is otherwise one for which the server answered
\* nothing, to a download_file that does not look at the body.
CountedIsOnDisk ==
  \A f \in success \cup total :
     /\ Exists(f)
     /\ script \notin {"all", "binance", "convert_all"} =>
          /\ disk[f] # "empty"
          /\ disk[f] = "nothing" => f[1] \notin Examined /\ script # "bybit"

\* Whatever scripts run in whatever order over the shared directories, a
\* downloaded file that has bytes is never touched again: good data is never
\* lost to a bad answer (and a torn file is never repaired).  Equities,
\* market context and parquet files are rewritten by design.
KeptOnceWritten ==
  [][\A f \in DOMAIN disk :
       HasBytes(f) /\ f[1] \notin {"more/equities", "more/context", "data/parquet"}
         => disk'[f] = disk[f]]_vars

\* A complete parquet file stands for a complete archive, which still is
\* there: no torn archive or error page is ever converted, and no archive
\* changes after its conversion.
ParquetHasItsArchive ==
  \A f \in DOMAIN disk :
    f[1] = "data/parquet" /\ disk[f] = "data" =>
      \E zip \in Zips : Parquet(zip) = f /\ disk[zip] = "data"

\* Every run ends, since retries and fallbacks are bounded whatever fails,
\* unless it stays for ever in one of its two waits without a timeout.
RunEnds == phase # "idle" ~> (phase = "idle" \/ []WaitsWithoutTimeout)
=============================================================================
