----------------------------- MODULE Checkpoints -----------------------------
(***************************************************************************)
(* From windows to the checkpoint that serves: the scripts that build       *)
(* labeled windows, train, audit and pin checkpoints, and the sidecar's     *)
(* start (ml-inference/server.py, module level).  They share models/ and    *)
(* models/manifest.json and nothing else: a checkpoint is saved in place    *)
(* while the manifest is written, verified, and read by a server that       *)
(* starts.                                                                  *)
(*                                                                         *)
(* A checkpoint is what went into it: the days, how their windows were      *)
(* labeled, the provenance stamp, and the random numbers of its training    *)
(* (how the features were normalized is left out: no check reads more of it *)
(* than the stamp says).  A hash is the checkpoint itself: a trainer that fixes its *)
(* seed writes the same file again from the same windows, one that fixes    *)
(* none writes another with every run.                                      *)
(***************************************************************************)
EXTENDS Naturals, Sequences, FiniteSets, SequencesExt

CONSTANTS Days,        \* trading days with tick data
          CrashDays,   \* days with a 2 % drop within 5 s
          HeldOut,     \* validation.days of configs/operating.yml
          MaxEpochs,   \* bound: epochs of a training run
          MaxRuns      \* bound: training runs

VARIABLES store,     \* models/*.pt: name -> checkpoint or Torn
          manifest,  \* models/manifest.json: name -> hash, or Missing, or Torn
          writing,   \* the manifest model_manifest.py is about to have written
          verified,  \* --verify succeeded, and no file has changed since
          trainer,   \* the training process, or Idle
          server,    \* the sidecar's process
          runs

vars == <<store, manifest, writing, verified, trainer, server, runs>>

NoStamp == [inputs |-> {}, labelMode |-> "none", normalize |-> "none"]
\* the draw of a trainer that fixes its seed
Seeded == 0
Torn == [days |-> {}, labels |-> {}, stamp |-> NoStamp, draw |-> Seeded]
\* no file, and what json.loads refuses
Missing == [name \in {"missing"} |-> Torn]
Garbled == [name \in {"garbled"} |-> Torn]
Idle == [phase |-> "idle"]
Down == [phase |-> "down"]

(***************************************************************************)
(* The window builders, by the rule behind their labels.                    *)
(***************************************************************************)
Windows(day, label) == [day |-> day, label |-> label, crash |-> day \in CrashDays]

\* the lookahead is in milliseconds
ExtractWindows(day) == Windows(day, "wall-clock")
\* --lookahead is in ticks
ExtractWindowsContiguous(day) == Windows(day, "tick-count")
\* the target is the forward drop over --lookahead ticks
BuildMagnitudeWindows(day) == Windows(day, "magnitude")
\* in memory: from a parquet file
BuildWindowsFromDf(day) == Windows(day, "wall-clock")
BuildCorrectedWindows(day) == Windows(day, "wall-clock")

ClassWindows == {ExtractWindows(d) : d \in Days} \cup {ExtractWindowsContiguous(d) : d \in Days}
Mixes(files) == {{f, g} : f \in files, g \in files}
HasPositives(files) == \E f \in files : f.crash

(***************************************************************************)
(* The trainers: where the checkpoint goes, what it says of itself, and     *)
(* which epoch's weights are saved.                                         *)
(***************************************************************************)
Stamp(inputs) == [inputs |-> inputs, labelMode |-> "wall-clock", normalize |-> "rolling-z-500"]
Training(files, out, stamp, keeps) ==
  [phase |-> "epochs", out |-> out, keeps |-> keeps, losses |-> <<>>, best |-> 0, weights |-> 0,
   result |-> [days |-> {f.day : f \in files}, labels |-> {f.label : f \in files},
               stamp |-> stamp, draw |-> Seeded]]
\* the number of the run stands for what it drew
Unseeded(trainings) == {[t EXCEPT !.result.draw = runs + 1] : t \in trainings}

Loadable(name) == name \in DOMAIN store /\ store[name] # Torn

\* Nothing: main imports load_windows on a branch of --eval-data, which makes
\* the name local, and calls it before (line 267), so every run ends in an
\* UnboundLocalError.  Its train_tcn is what retrain_adopt.py trains with.
TrainTcnWindows == {}
\* the stamp has "source" and no "input_files"; days without a crash add negatives
RetrainAdopt == {Training(mix, "v2", Stamp({}), "best") :
                   mix \in {m \in Mixes({BuildCorrectedWindows(d) : d \in Days}) : HasPositives(m)}}
\* both go on from the weights of a checkpoint they can load
OnTopOf(base, trainings) ==
  {[t EXCEPT !.result.days = @ \cup store[base].days] : t \in {u \in trainings : Loadable(base)}}
FinetuneLuna == OnTopOf("prod", {Training({f}, "luna_finetuned", NoStamp, "best") : f \in ClassWindows})
TrainMagnitude == OnTopOf("prod", {Training(mix, "magnitude", NoStamp, "last") :
                                     mix \in Mixes({BuildMagnitudeWindows(d) : d \in Days})})
\* a day without crash labels is skipped
TrainStage3Gpu == Unseeded({Training({f}, "stage3_tcn", NoStamp, "bestOrLast") :
                              f \in {w \in {BuildWindowsFromDf(d) : d \in Days} : w.crash}})
TrainStage3Tcn == TrainStage3Gpu
\* resolve_windows_source: files of windows, or windows built on the fly
ResolveWindowsSource == Mixes(ClassWindows) \cup {{f} : f \in {BuildWindowsFromDf(d) : d \in Days}}
TrainTcn == Unseeded({Training(files, "tcn_baseline", NoStamp, "bestOrLast") :
                        files \in {s \in ResolveWindowsSource : HasPositives(s)}})

Trainings == TrainTcnWindows \cup RetrainAdopt \cup FinetuneLuna
             \cup TrainMagnitude \cup TrainStage3Gpu \cup TrainStage3Tcn \cup TrainTcn

-----------------------------------------------------------------------------
\* The shipped checkpoint, stage3_tcn_prod.pt, was trained before stamping.
Legacy == [days |-> CrashDays, labels |-> {"wall-clock"}, stamp |-> NoStamp,
           draw |-> Seeded]

Init == /\ store \in {<<>>, [name \in {"prod"} |-> Legacy]}
        /\ manifest \in {Missing, store} /\ writing = Missing /\ verified = FALSE
        /\ trainer = Idle /\ server = Down /\ runs = 0

StartTraining ==
  /\ trainer = Idle /\ runs < MaxRuns
  /\ trainer' \in Trainings /\ runs' = runs + 1
  /\ UNCHANGED <<store, manifest, writing, verified, server>>

\* (mutant: <= takes the last of the best epochs, and one after a NaN)
Losses == {1, 2}
NaN == 99
Less(loss, losses, best) == loss # NaN /\ (best = 0 \/ loss < losses[best])
LessOrUnordered(loss, losses, best) == best = 0 \/ loss = NaN \/ loss < losses[best]

\* `val_loss < best_val_loss`, which no NaN is
Better(loss, losses, best) == Less(loss, losses, best)
Epoch(loss) ==
  /\ trainer.phase = "epochs" /\ Len(trainer.losses) < MaxEpochs
  /\ LET n == Len(trainer.losses) + 1 IN
     trainer' = [trainer EXCEPT
        !.losses = Append(@, loss), !.weights = n,
        !.best = IF Better(loss, trainer.losses, @) THEN n ELSE @]
  /\ UNCHANGED <<store, manifest, writing, verified, server, runs>>

\* load_state_dict(best_state): unbound when no epoch was the best so far, or
\* None and skipped; max() of an empty history raises.
Restore ==
  /\ trainer.phase = "epochs"
  /\ LET restores == trainer.keeps # "last" /\ trainer.best # 0
         saves == \/ restores \/ trainer.keeps = "last"
                  \/ trainer.keeps = "bestOrLast" /\ trainer.losses # <<>>
     IN trainer' = IF ~saves THEN Idle
                   ELSE [trainer EXCEPT !.phase = "saving", !.weights = IF restores THEN trainer.best ELSE @]
  /\ UNCHANGED <<store, manifest, writing, verified, server, runs>>

\* A file of models/ changes; a server between its check and its load has
\* checked another one.
Write(name, checkpoint) ==
  /\ store' = [n \in DOMAIN store \cup {name} |-> IF n = name THEN checkpoint ELSE store[n]]
  /\ verified' = FALSE
  /\ server' = IF server.phase = "loading" /\ server.path = name
               THEN [server EXCEPT !.raced = TRUE] ELSE server

\* torch.save writes in place.
OpenCheckpoint ==
  /\ trainer.phase = "saving"
  /\ Write(trainer.out, Torn)
  /\ trainer' = [trainer EXCEPT !.phase = "open", !.losses = <<>>, !.best = 0, !.weights = 0]
  /\ UNCHANGED <<manifest, writing, runs>>
Save ==
  /\ trainer.phase = "open"
  /\ Write(trainer.out, trainer.result) /\ trainer' = Idle
  /\ UNCHANGED <<manifest, writing, runs>>
KillTrainer ==
  /\ trainer # Idle /\ trainer' = Idle
  /\ UNCHANGED <<store, manifest, writing, verified, server, runs>>

(***************************************************************************)
(* model_manifest.py: one entry per *.pt; --verify.                         *)
(***************************************************************************)
OpenManifest ==
  /\ writing = Missing
  /\ writing' = store /\ manifest' = Garbled /\ verified' = FALSE
  /\ UNCHANGED <<store, trainer, server, runs>>
WriteManifest ==
  /\ writing # Missing
  /\ manifest' = writing /\ writing' = Missing /\ verified' = FALSE
  /\ UNCHANGED <<store, trainer, server, runs>>
KillManifest ==
  /\ writing # Missing /\ writing' = Missing
  /\ UNCHANGED <<store, manifest, verified, trainer, server, runs>>

Readable == manifest \notin {Missing, Garbled}
ListedMatches(name) == name \in DOMAIN store /\ store[name] = manifest[name]
VerifyManifest ==
  /\ Readable /\ \A name \in DOMAIN manifest : ListedMatches(name)
  /\ verified' = TRUE
  /\ UNCHANGED <<store, manifest, writing, trainer, server, runs>>

(***************************************************************************)
(* audit_dataset.py                                                         *)
(***************************************************************************)
\* the (symbol, date) of a held-out day in the name of an input file; no
\* trainer that gets as far as saving lists any
Leaks(stamp) == stamp.inputs \cap HeldOut # {}
AuditDataset(checkpoint) ==
  LET stamp == checkpoint.stamp IN
  IF stamp = NoStamp THEN "legacy"
  ELSE IF stamp.labelMode # "wall-clock" \/ stamp.normalize # "rolling-z-500" \/ Leaks(stamp)
       THEN "error" ELSE "OK"

(***************************************************************************)
(* The sidecar: import, check, load.                                        *)
(***************************************************************************)
Candidates == <<"prod", "v2">>     \* "oos" and "trained" are never written
ModelPath == LET there == SelectSeq(Candidates, LAMBDA c : c \in DOMAIN store)
             IN IF there = <<>> THEN "none" ELSE there[1]

\* _load_dotenv: on a file it cannot read it logs with a logger that is
\* defined forty lines later, and the import ends in a NameError
LoadDotenv(dotenv) == IF dotenv = "unreadable" THEN "NameError" ELSE "loaded"

ServerImports(dotenv, production) ==
  /\ server = Down
  /\ server' = IF LoadDotenv(dotenv) = "NameError" THEN [phase |-> "crashed"]
                ELSE IF ModelPath = "none" THEN [phase |-> "fallback"]
                ELSE [phase |-> "checking", path |-> ModelPath, production |-> production]
  /\ UNCHANGED <<store, manifest, writing, verified, trainer, runs>>

\* (mutant: an entry that differs is taken for one that is not listed)
VerifyWarns(path, production) ==
  IF manifest = Missing THEN (IF production THEN "refused" ELSE "unpinned")
  ELSE IF ~Readable THEN "refused" ELSE "unpinned"
VerifyModelHash(path, production) ==
  IF manifest = Missing THEN (IF production THEN "refused" ELSE "unpinned")
  ELSE IF ~Readable THEN "refused"
  ELSE IF path \notin DOMAIN manifest THEN "unpinned"
  ELSE IF ListedMatches(path) THEN "pinned" ELSE "mismatch"

\* listed, unpinnable and raced are history: what the manifest said at this
\* point, and whether the file has changed since.
ServerChecks ==
  /\ server.phase = "checking"
  /\ server' =
       IF VerifyModelHash(server.path, server.production) \notin {"pinned", "unpinned"}
       THEN [phase |-> "fallback"]
       ELSE [phase |-> "loading", path |-> server.path, raced |-> FALSE,
             unpinnable |-> ~Readable /\ (manifest = Garbled \/ server.production),
             listed |-> IF Readable /\ server.path \in DOMAIN manifest
                        THEN manifest[server.path] ELSE Torn]
  /\ UNCHANGED <<store, manifest, writing, verified, trainer, runs>>

ServerLoads ==
  /\ server.phase = "loading"
  /\ server' = IF Loadable(server.path)
               THEN [phase |-> "serving", model |-> store[server.path], listed |-> server.listed,
                     raced |-> server.raced, unpinnable |-> server.unpinnable]
               ELSE [phase |-> "fallback"]
  /\ UNCHANGED <<store, manifest, writing, verified, trainer, runs>>

ServerStops ==
  /\ server # Down /\ server' = Down
  /\ UNCHANGED <<store, manifest, writing, verified, trainer, runs>>

Next == \/ StartTraining \/ (\E loss \in Losses \cup {NaN} : Epoch(loss))
        \/ Restore \/ OpenCheckpoint \/ Save \/ KillTrainer
        \/ OpenManifest \/ WriteManifest \/ KillManifest \/ VerifyManifest
        \/ (\E dotenv \in {"none", "good", "unreadable"}, production \in BOOLEAN :
              ServerImports(dotenv, production))
        \/ ServerChecks \/ ServerLoads \/ ServerStops
Spec == Init /\ [][Next]_vars

-----------------------------------------------------------------------------
Checkpoint(c) == /\ c.days \subseteq Days /\ c.labels \subseteq {"wall-clock", "tick-count", "magnitude"}
                 /\ c.stamp.inputs \subseteq Days /\ c.draw \in 0..MaxRuns
TypeOK ==
  /\ \A name \in DOMAIN store : Checkpoint(store[name])
  /\ trainer.phase \in {"idle", "epochs", "saving", "open"}
  /\ trainer # Idle => /\ Len(trainer.losses) <= MaxEpochs
                       /\ {trainer.best, trainer.weights} \subseteq 0..Len(trainer.losses)
  /\ server.phase \in {"down", "crashed", "checking", "loading", "serving", "fallback"}
  /\ runs \in 0..MaxRuns

\* "The best (lowest-val-loss) weights are restored" before a checkpoint is
\* saved, NaN losses or not; train_magnitude.py keeps the last weights.
SavedIsBest ==
  trainer.phase = "saving" /\ trainer.keeps # "last" =>
    LET finite == {i \in DOMAIN trainer.losses : trainer.losses[i] # NaN} IN
    IF finite = {} THEN trainer.keeps = "bestOrLast"
    ELSE /\ trainer.weights \in finite
         /\ \A i \in finite : trainer.losses[trainer.weights] <= trainer.losses[i]

\* The two readers of the manifest agree: once model_manifest.py --verify has
\* said OK, and while nothing is written, the sidecar refuses no checkpoint.
VerifiedLoads ==
  verified => \A name \in DOMAIN store : VerifyModelHash(name, TRUE) \in {"pinned", "unpinned"}

\* "fail-closed sha256 pin": the model that serves is the one the manifest
\* listed when it was checked, or the manifest did not list it; in production
\* there was a manifest.  A save between the check and the load, which reads
\* the file again, is the exception.
ServesPinned ==
  server.phase = "serving" =>
    /\ server.listed # Torn /\ ~server.raced => server.model = server.listed
    /\ ~server.unpinnable

\* What the audit's OK says: "provenance consistent; no training/held-out
\* overlap" (violated: retrain_adopt.py names its inputs otherwise).
AuditOkMeansNoLeak ==
  \A name \in DOMAIN store :
    AuditDataset(store[name]) = "OK" => store[name].days \cap HeldOut = {}
=============================================================================
