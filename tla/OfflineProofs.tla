----------------------------- MODULE OfflineProofs -----------------------------
(***************************************************************************)
(* Proofs about MCOffline: what the files under models/ and the sidecar     *)
(* that starts from them may be (CheckpointsInv), and what the loops over a *)
(* day have found when so many of its ticks are behind them (EvaluationInv).*)
(*                                                                         *)
(* A day's invariant names ticks: of a descent the one of its highest and   *)
(* the one of its lowest price, of an alert the one it is a drop from, of   *)
(* the stream's window the rows.  Its time stamps never decrease and may    *)
(* repeat, so times alone would not do.                                     *)
(***************************************************************************)
EXTENDS MCOffline, SequenceTheorems, FiniteSetTheorems, WellFoundedInduction, TLAPS

(***************************************************************************)
(* Checkpoints.                                                             *)
(***************************************************************************)
\* What a trainer may be given to keep, and what it reports of an epoch.
Keeps == {"best", "last", "bestOrLast"}
Results == C!Losses \cup {C!NaN}

\* A checkpoint, with nothing else in it.
Sane(c) == /\ c = [days |-> c.days, labels |-> c.labels, stamp |-> c.stamp, draw |-> c.draw]
           /\ C!Checkpoint(c)

\* The trainer, with the result it is going to save.
TrainerInv(t) ==
  /\ t = [phase |-> t.phase, out |-> t.out, keeps |-> t.keeps, losses |-> t.losses, best |-> t.best,
          weights |-> t.weights, result |-> t.result]
  /\ t.phase \in {"epochs", "saving", "open"} /\ t.keeps \in Keeps
  /\ t.losses \in Seq(Results) /\ Len(t.losses) <= MaxEpochs
  /\ t.best \in 0..Len(t.losses) /\ t.weights \in 0..Len(t.losses)
  /\ Sane(t.result)

\* The best epoch so far is the first of the lowest losses, NaN apart.
BestInv(t) ==
  t.phase = "epochs" =>
    IF t.best = 0 THEN \A i \in DOMAIN t.losses : t.losses[i] = C!NaN
    ELSE /\ t.losses[t.best] # C!NaN
         /\ \A i \in DOMAIN t.losses : t.losses[i] # C!NaN => t.losses[t.best] <= t.losses[i]

\* The server: what it loads is what it checked, unless the file has changed.
Vouched(s) ==
  /\ s = [phase |-> "loading", path |-> s.path, raced |-> s.raced,
          unpinnable |-> s.unpinnable, listed |-> s.listed]
  /\ ~s.unpinnable
  /\ s.listed # C!Torn /\ ~s.raced => s.path \in DOMAIN store /\ store[s.path] = s.listed

CheckpointsInv ==
  /\ \A name \in DOMAIN store : Sane(store[name])
  /\ trainer = C!Idle \/ (TrainerInv(trainer) /\ BestInv(trainer))
  /\ C!SavedIsBest
  /\ server.phase \in {"down", "crashed", "checking", "loading", "serving", "fallback"}
  /\ server.phase = "loading" => Vouched(server)
  /\ C!ServesPinned
  /\ verified => C!Readable /\ \A name \in DOMAIN manifest : C!ListedMatches(name)
  /\ runs \in 0..MaxRuns
-----------------------------------------------------------------------------
LEMMA NothingIsSane == Sane(C!Torn)
  BY OfflineAssumption DEF Sane, C!Checkpoint, C!Torn, C!NoStamp, C!Seeded

LEMMA LegacyIsSane == Sane(C!Legacy)
  BY OfflineAssumption DEF Sane, C!Checkpoint, C!Legacy, C!NoStamp, C!Seeded

\* What the trainers read: files of windows of a day.
File(f) == f.day \in Days /\ f.label \in {"wall-clock", "tick-count", "magnitude"}
Files(mix) == \A f \in mix : File(f)

LEMMA BuiltAreFiles ==
  ASSUME NEW date \in Days
  PROVE  /\ File(C!ExtractWindows(date)) /\ File(C!ExtractWindowsContiguous(date))
         /\ File(C!BuildMagnitudeWindows(date)) /\ File(C!BuildWindowsFromDf(date))
         /\ File(C!BuildCorrectedWindows(date))
  BY DEF File, C!Windows, C!ExtractWindows, C!ExtractWindowsContiguous, C!BuildMagnitudeWindows,
         C!BuildWindowsFromDf, C!BuildCorrectedWindows

LEMMA MixesAreFiles ==
  ASSUME NEW files, Files(files), NEW mix \in C!Mixes(files)
  PROVE  Files(mix) /\ mix # {}
  BY DEF C!Mixes, Files

LEMMA ClassWindowsAreFiles == Files(C!ClassWindows)
  BY BuiltAreFiles DEF C!ClassWindows, Files

\* A training run starts with no epoch behind it and a sound result before it.
Starting(t) == TrainerInv(t) /\ t.phase = "epochs" /\ t.losses = <<>> /\ t.best = 0

LEMMA TrainingStarts ==
  ASSUME NEW mix, Files(mix), NEW out, NEW keeps \in Keeps, NEW stamp \in {C!NoStamp, C!Stamp({})}
  PROVE  Starting(C!Training(mix, out, stamp, keeps))
<1> DEFINE days == {f.day : f \in mix}
           labels == {f.label : f \in mix}
           result == [days |-> days, labels |-> labels, stamp |-> stamp, draw |-> C!Seeded]
<1>1. days \subseteq Days /\ labels \subseteq {"wall-clock", "tick-count", "magnitude"}
  BY DEF Files, File
<1>2. stamp.inputs = {}
  BY DEF C!NoStamp, C!Stamp
<1>3. C!Seeded \in 0..MaxRuns
  BY OfflineAssumption DEF C!Seeded
<1> HIDE DEF days, labels
<1>4. Sane(result)
  BY <1>1, <1>2, <1>3 DEF Sane, C!Checkpoint
<1>5. <<>> \in Seq(Results) /\ Len(<<>>) = 0 /\ 0 <= MaxEpochs
  BY EmptySeq, OfflineAssumption
<1>6. C!Training(mix, out, stamp, keeps) =
        [phase |-> "epochs", out |-> out, keeps |-> keeps, losses |-> <<>>, best |-> 0, weights |-> 0,
         result |-> result]
  BY DEF C!Training, days, labels
<1> HIDE DEF result
<1> QED
  BY <1>4, <1>5, <1>6 DEF Starting, TrainerInv

\* A run that starts with another result that is sound.
LEMMA ResultsMayDiffer ==
  ASSUME NEW t, Starting(t), NEW r, Sane(r), NEW u, u = [t EXCEPT !.result = r]
  PROVE  Starting(u)
<1>1. TrainerInv(t) /\ t.phase = "epochs" /\ t.losses = <<>> /\ t.best = 0
  BY DEF Starting
<1>2. u = [phase |-> t.phase, out |-> t.out, keeps |-> t.keeps, losses |-> t.losses, best |-> t.best,
           weights |-> t.weights, result |-> r]
  BY <1>1 DEF TrainerInv
<1> QED
  BY <1>1, <1>2 DEF Starting, TrainerInv

\* Trainers that fix no seed.
LEMMA UnseededStart ==
  ASSUME NEW ts, \A t \in ts : Starting(t), runs \in Nat, runs < MaxRuns, NEW u \in C!Unseeded(ts)
  PROVE  Starting(u)
<1>1. PICK t \in ts : u = [t EXCEPT !.result.draw = runs + 1]
  BY DEF C!Unseeded
<1>2. TrainerInv(t) /\ Sane(t.result)
  BY <1>1 DEF Starting, TrainerInv
<1>3. runs + 1 \in 0..MaxRuns
  BY OfflineAssumption
<1>4. PICK n : n = runs + 1
  OBVIOUS
<1> DEFINE r == [t.result EXCEPT !.draw = n]
<1>5. r = [days |-> t.result.days, labels |-> t.result.labels, stamp |-> t.result.stamp, draw |-> n]
  BY <1>2 DEF Sane
<1>6. Sane(r)
  BY <1>2, <1>3, <1>4, <1>5 DEF Sane, C!Checkpoint
<1>7. u = [t EXCEPT !.result = r]
  BY <1>1, <1>4
<1> HIDE DEF r
<1> QED
  BY <1>1, <1>6, <1>7, ResultsMayDiffer

LEMMA OnTopStarts ==
  ASSUME NEW base, \A name \in DOMAIN store : Sane(store[name]), NEW ts, \A t \in ts : Starting(t),
         NEW u \in C!OnTopOf(base, ts)
  PROVE  Starting(u)
<1>1. PICK t \in ts : C!Loadable(base) /\ u = [t EXCEPT !.result.days = @ \cup store[base].days]
  BY DEF C!OnTopOf
<1>2. Sane(t.result) /\ base \in DOMAIN store /\ store[base].days \subseteq Days
  BY <1>1 DEF Starting, TrainerInv, C!Loadable, Sane, C!Checkpoint
<1>3. PICK d : d = t.result.days \cup store[base].days
  OBVIOUS
<1> DEFINE r == [t.result EXCEPT !.days = d]
<1>4. r = [days |-> d, labels |-> t.result.labels, stamp |-> t.result.stamp, draw |-> t.result.draw]
  BY <1>2 DEF Sane
<1>5. Sane(r)
  BY <1>2, <1>3, <1>4 DEF Sane, C!Checkpoint
<1>6. u = [t EXCEPT !.result = r]
  BY <1>1, <1>3
<1> HIDE DEF r
<1> QED
  BY <1>1, <1>5, <1>6, ResultsMayDiffer

LEMMA TrainingsStart ==
  ASSUME \A name \in DOMAIN store : Sane(store[name]), runs \in Nat, runs < MaxRuns, NEW t \in C!Trainings
  PROVE  Starting(t)
<1>1. ASSUME NEW mix \in C!Mixes(C!ClassWindows) PROVE Files(mix)
  BY ClassWindowsAreFiles, MixesAreFiles
<1>2. t \notin C!TrainTcnWindows
  BY DEF C!TrainTcnWindows
<1>3. CASE t \in C!RetrainAdopt
  <2>1. Files({C!BuildCorrectedWindows(d) : d \in Days})
    BY BuiltAreFiles DEF Files
  <2>2. PICK mix \in C!Mixes({C!BuildCorrectedWindows(d) : d \in Days}) :
          t = C!Training(mix, "v2", C!Stamp({}), "best")
    BY <1>3 DEF C!RetrainAdopt
  <2>3. Files(mix)
    BY <2>1, MixesAreFiles
  <2> QED
    BY <2>2, <2>3, TrainingStarts DEF Keeps
<1>4. CASE t \in C!FinetuneLuna
  <2> DEFINE ts == {C!Training({f}, "luna_finetuned", C!NoStamp, "best") : f \in C!ClassWindows}
  <2>1. ASSUME NEW u \in ts PROVE Starting(u)
    <3>1. PICK f \in C!ClassWindows : u = C!Training({f}, "luna_finetuned", C!NoStamp, "best")
      OBVIOUS
    <3>2. Files({f})
      BY ClassWindowsAreFiles DEF Files
    <3> QED
      BY <3>1, <3>2, TrainingStarts DEF Keeps
  <2>2. t \in C!OnTopOf("prod", ts)
    BY <1>4 DEF C!FinetuneLuna
  <2> HIDE DEF ts
  <2> QED
    BY <2>1, <2>2, OnTopStarts
<1>5. CASE t \in C!TrainMagnitude
  <2> DEFINE files == {C!BuildMagnitudeWindows(d) : d \in Days}
             ts == {C!Training(mix, "magnitude", C!NoStamp, "last") : mix \in C!Mixes(files)}
  <2>1. Files(files)
    BY BuiltAreFiles DEF Files
  <2>2. t \in C!OnTopOf("prod", ts)
    BY <1>5 DEF C!TrainMagnitude
  <2> HIDE DEF files
  <2>3. ASSUME NEW u \in ts PROVE Starting(u)
    <3>1. PICK mix \in C!Mixes(files) : u = C!Training(mix, "magnitude", C!NoStamp, "last")
      OBVIOUS
    <3>2. Files(mix)
      BY <2>1, MixesAreFiles
    <3> QED
      BY <3>1, <3>2, TrainingStarts DEF Keeps
  <2> HIDE DEF ts
  <2> QED
    BY <2>2, <2>3, OnTopStarts
<1>6. CASE t \in C!TrainStage3Gpu \cup C!TrainStage3Tcn
  <2> DEFINE ts == {C!Training({f}, "stage3_tcn", C!NoStamp, "bestOrLast") :
                      f \in {w \in {C!BuildWindowsFromDf(d) : d \in Days} : w.crash}}
  <2>1. t \in C!Unseeded(ts)
    BY <1>6 DEF C!TrainStage3Gpu, C!TrainStage3Tcn
  <2>2. ASSUME NEW u \in ts PROVE Starting(u)
    <3>1. PICK d \in Days : u = C!Training({C!BuildWindowsFromDf(d)}, "stage3_tcn", C!NoStamp, "bestOrLast")
      OBVIOUS
    <3>2. Files({C!BuildWindowsFromDf(d)})
      BY BuiltAreFiles DEF Files
    <3> QED
      BY <3>1, <3>2, TrainingStarts DEF Keeps
  <2> HIDE DEF ts
  <2> QED
    BY <2>1, <2>2, UnseededStart
<1>7. CASE t \in C!TrainTcn
  <2> DEFINE ts == {C!Training(mix, "tcn_baseline", C!NoStamp, "bestOrLast") :
                      mix \in {m \in C!ResolveWindowsSource : C!HasPositives(m)}}
  <2>1. t \in C!Unseeded(ts)
    BY <1>7 DEF C!TrainTcn
  <2>2. ASSUME NEW u \in ts PROVE Starting(u)
    <3>1. PICK mix \in C!ResolveWindowsSource : u = C!Training(mix, "tcn_baseline", C!NoStamp, "bestOrLast")
      OBVIOUS
    <3>2. Files(mix)
      BY <1>1, BuiltAreFiles DEF C!ResolveWindowsSource, Files
    <3> QED
      BY <3>1, <3>2, TrainingStarts DEF Keeps
  <2> HIDE DEF ts
  <2> QED
    BY <2>1, <2>2, UnseededStart
<1> QED
  BY <1>2, <1>3, <1>4, <1>5, <1>6, <1>7 DEF C!Trainings

-----------------------------------------------------------------------------
LEMMA CheckpointsStart == C!Init => CheckpointsInv
<1> SUFFICES ASSUME C!Init PROVE CheckpointsInv
  OBVIOUS
<1>1. \A name \in DOMAIN store : Sane(store[name])
  <2>1. CASE store = <<>>
    BY <2>1
  <2>2. CASE store = [name \in {"prod"} |-> C!Legacy]
    BY <2>2, LegacyIsSane
  <2> QED
    BY <2>1, <2>2 DEF C!Init
<1>2. server.phase = "down" /\ trainer.phase = "idle"
  BY DEF C!Init, C!Down, C!Idle
<1> QED
  BY <1>1, <1>2, OfflineAssumption DEF C!Init, CheckpointsInv, C!SavedIsBest, C!ServesPinned

\* A step of the trainer that writes nothing: to no run, or to a trainer that
\* is as it should be.
LEMMA TrainerSteps ==
  ASSUME CheckpointsInv, UNCHANGED <<store, manifest, writing, verified, server>>, runs' \in 0..MaxRuns,
         trainer' = C!Idle \/ (TrainerInv(trainer') /\ BestInv(trainer')), C!SavedIsBest'
  PROVE  CheckpointsInv'
  BY DEF CheckpointsInv, Vouched, C!ServesPinned, C!Readable, C!ListedMatches

LEMMA StartTrainingKeeps == CheckpointsInv /\ C!StartTraining => CheckpointsInv'
<1> SUFFICES ASSUME CheckpointsInv, C!StartTraining PROVE CheckpointsInv'
  OBVIOUS
<1>1. Starting(trainer')
  BY TrainingsStart, OfflineAssumption DEF CheckpointsInv, C!StartTraining
<1>2. BestInv(trainer') /\ C!SavedIsBest'
  BY <1>1 DEF Starting, BestInv, C!SavedIsBest
<1>3. runs' \in 0..MaxRuns
  BY OfflineAssumption DEF CheckpointsInv, C!StartTraining
<1> QED
  BY <1>1, <1>2, <1>3, TrainerSteps DEF C!StartTraining, Starting

LEMMA EpochKeeps ==
  ASSUME CheckpointsInv, NEW loss \in Results, C!Epoch(loss)
  PROVE  CheckpointsInv'
<1> DEFINE l == Append(trainer.losses, loss)
           n == Len(trainer.losses) + 1
           b == IF C!Better(loss, trainer.losses, trainer.best) THEN n ELSE trainer.best
<1>1. TrainerInv(trainer) /\ BestInv(trainer) /\ trainer.phase = "epochs"
  BY DEF CheckpointsInv, C!Epoch, C!Idle
<1>2. /\ trainer.losses \in Seq(Results) /\ Len(trainer.losses) \in Nat /\ n \in Nat
      /\ DOMAIN trainer.losses = 1..Len(trainer.losses)
      /\ \A i \in 1..Len(trainer.losses) : trainer.losses[i] \in Results
  BY <1>1, LenProperties, ElementOfSeq DEF TrainerInv
<1>3. /\ l \in Seq(Results) /\ Len(l) = n /\ DOMAIN l = 1..n /\ l[n] = loss
      /\ \A i \in 1..Len(trainer.losses) : l[i] = trainer.losses[i]
  <2>1. l \in Seq(Results) /\ Len(l) = n /\ l[n] = loss
        /\ \A i \in 1..Len(trainer.losses) : l[i] = trainer.losses[i]
    BY <1>2, AppendProperties
  <2> QED
    BY <2>1, LenProperties
<1>4. trainer' = [phase |-> "epochs", out |-> trainer.out, keeps |-> trainer.keeps, losses |-> l,
                  best |-> b, weights |-> n, result |-> trainer.result]
  BY <1>1 DEF C!Epoch, TrainerInv
<1>5. /\ trainer'.phase = "epochs" /\ trainer'.keeps = trainer.keeps /\ trainer'.losses = l
      /\ trainer'.best = b /\ trainer'.weights = n /\ trainer'.result = trainer.result
  BY <1>4
<1>6. Results \subseteq Nat
  BY DEF Results, C!Losses, C!NaN
<1>7. trainer.best \in 0..Len(trainer.losses) /\ b \in 0..n
  BY <1>1, <1>2 DEF TrainerInv
<1>8. n <= MaxEpochs
  BY <1>2, OfflineAssumption DEF C!Epoch
<1> HIDE DEF l, n
<1>9. TrainerInv(trainer')
  <2>1. trainer' = [phase |-> trainer'.phase, out |-> trainer'.out, keeps |-> trainer'.keeps,
                    losses |-> trainer'.losses, best |-> trainer'.best,
                    weights |-> trainer'.weights, result |-> trainer'.result]
    BY <1>4
  <2> HIDE DEF b
  <2>2. n \in 0..n
    BY <1>2
  <2> QED
    BY <2>1, <2>2, <1>1, <1>3, <1>5, <1>7, <1>8 DEF TrainerInv
<1>10. IF b = 0 THEN \A i \in 1..n : l[i] = C!NaN
       ELSE /\ l[b] # C!NaN
            /\ \A i \in 1..n : l[i] # C!NaN => l[b] <= l[i]
  <2>1. \A i \in 1..n : i \in 1..Len(trainer.losses) \/ i = n
    BY <1>2 DEF n
  <2>2. IF trainer.best = 0 THEN \A i \in 1..Len(trainer.losses) : trainer.losses[i] = C!NaN
        ELSE /\ trainer.losses[trainer.best] # C!NaN
             /\ \A i \in 1..Len(trainer.losses) :
                  trainer.losses[i] # C!NaN => trainer.losses[trainer.best] <= trainer.losses[i]
    BY <1>1, <1>2 DEF BestInv
  <2>3. n > 0
    BY <1>2 DEF n
  <2>4. CASE trainer.best = 0
    <3>1. CASE loss = C!NaN
      BY <2>1, <2>2, <2>4, <3>1, <1>3 DEF C!Better, C!Less
    <3>2. CASE loss # C!NaN
      <4>1. b = n
        BY <2>4, <3>2 DEF C!Better, C!Less
      <4>2. \A i \in 1..n : l[i] # C!NaN => i = n
        BY <2>1, <2>2, <2>4, <1>3
      <4> QED
        BY <4>1, <4>2, <3>2, <2>3, <1>3, <1>6
    <3> QED
      BY <3>1, <3>2
  <2>5. CASE trainer.best # 0
    <3>1. trainer.best \in 1..Len(trainer.losses) /\ trainer.losses[trainer.best] \in Nat /\ loss \in Nat
          /\ \A i \in 1..Len(trainer.losses) : trainer.losses[i] \in Nat
      <4>1. trainer.best \in 1..Len(trainer.losses)
        BY <2>5, <1>2, <1>7
      <4>2. \A i \in 1..Len(trainer.losses) : trainer.losses[i] \in Nat
        BY <1>2, <1>6
      <4>3. loss \in Nat
        BY <1>6
      <4> QED
        BY <4>1, <4>2, <4>3
    <3>2. CASE loss # C!NaN /\ loss < trainer.losses[trainer.best]
      <4>1. b = n
        BY <3>2 DEF C!Better, C!Less
      <4>2. \A i \in 1..Len(trainer.losses) : l[i] # C!NaN => loss <= l[i]
        BY <3>1, <3>2, <2>2, <2>5, <1>3
      <4> QED
        BY <4>1, <4>2, <3>1, <3>2, <2>1, <2>3, <1>3
    <3>3. CASE ~(loss # C!NaN /\ loss < trainer.losses[trainer.best])
      <4>1. b = trainer.best
        BY <3>3, <2>5 DEF C!Better, C!Less
      <4>2. loss # C!NaN => trainer.losses[trainer.best] <= loss
        BY <3>1, <3>3
      <4>3. l[b] = trainer.losses[trainer.best]
        BY <4>1, <3>1, <1>3
      <4> QED
        BY <4>1, <4>2, <4>3, <2>1, <2>2, <2>5, <1>3
    <3> QED
      BY <3>2, <3>3
  <2> QED
    BY <2>4, <2>5
<1>11. BestInv(trainer')
  BY <1>3, <1>5, <1>10 DEF BestInv
<1>12. C!SavedIsBest'
  BY <1>5 DEF C!SavedIsBest
<1>13. UNCHANGED <<store, manifest, writing, verified, server>> /\ runs' \in 0..MaxRuns
  BY DEF C!Epoch, CheckpointsInv
<1> QED
  BY <1>9, <1>11, <1>12, <1>13, TrainerSteps

LEMMA RestoreKeeps == CheckpointsInv /\ C!Restore => CheckpointsInv'
<1> SUFFICES ASSUME CheckpointsInv, C!Restore PROVE CheckpointsInv'
  OBVIOUS
<1>1. TrainerInv(trainer) /\ BestInv(trainer) /\ trainer.phase = "epochs"
  BY DEF CheckpointsInv, C!Restore, C!Idle
<1>2. UNCHANGED <<store, manifest, writing, verified, server>> /\ runs' \in 0..MaxRuns
  BY DEF C!Restore, CheckpointsInv
<1>3. PICK o, k, l, b, w, r :
        trainer = [phase |-> "epochs", out |-> o, keeps |-> k, losses |-> l, best |-> b, weights |-> w,
                   result |-> r]
  BY <1>1 DEF TrainerInv
<1>4. trainer.keeps = k /\ trainer.losses = l /\ trainer.best = b /\ trainer.weights = w /\ trainer.result = r
  BY <1>3
<1>5. /\ k \in Keeps /\ l \in Seq(Results) /\ Len(l) <= MaxEpochs /\ b \in 0..Len(l) /\ w \in 0..Len(l)
      /\ Sane(r) /\ DOMAIN l = 1..Len(l) /\ Len(l) \in Nat
  <2>1. k \in Keeps /\ l \in Seq(Results) /\ Len(l) <= MaxEpochs /\ b \in 0..Len(l) /\ w \in 0..Len(l)
        /\ Sane(r)
    BY <1>1, <1>4 DEF TrainerInv
  <2> QED
    BY <2>1, LenProperties
<1>6. CASE trainer' = C!Idle
  BY <1>2, <1>6, TrainerSteps DEF C!SavedIsBest, C!Idle
<1>7. CASE trainer' # C!Idle
  <2>1. PICK v \in {b, w} :
          /\ trainer' = [phase |-> "saving", out |-> o, keeps |-> k, losses |-> l, best |-> b, weights |-> v,
                         result |-> r]
          /\ k # "last" => IF b # 0 THEN v = b ELSE k = "bestOrLast"
    <3> DEFINE restores == trainer.keeps # "last" /\ trainer.best # 0
               v == IF restores THEN trainer.best ELSE trainer.weights
    <3>1. /\ trainer' = [trainer EXCEPT !.phase = "saving", !.weights = v]
          /\ restores \/ trainer.keeps = "last" \/ trainer.keeps = "bestOrLast"
      BY <1>7, <1>3 DEF C!Restore
    <3>2. v \in {b, w} /\ (k # "last" => IF b # 0 THEN v = b ELSE k = "bestOrLast")
      BY <1>4, <3>1
    <3> HIDE DEF v
    <3>3. trainer' = [phase |-> "saving", out |-> o, keeps |-> k, losses |-> l, best |-> b, weights |-> v,
                      result |-> r]
      BY <3>1, <1>3
    <3> QED
      BY <3>2, <3>3
  <2>2. /\ trainer'.phase = "saving" /\ trainer'.out = o /\ trainer'.keeps = k /\ trainer'.losses = l
        /\ trainer'.best = b /\ trainer'.weights = v /\ trainer'.result = r
    BY <2>1
  <2>3. v \in 0..Len(l)
    BY <1>5, <2>1
  <2>4. TrainerInv(trainer')
    BY <1>5, <2>1, <2>2, <2>3 DEF TrainerInv
  <2>5. BestInv(trainer')
    BY <2>2 DEF BestInv
  <2>6. C!SavedIsBest'
    <3> SUFFICES ASSUME k # "last"
                 PROVE  LET finite == {i \in DOMAIN l : l[i] # C!NaN} IN
                        IF finite = {} THEN k = "bestOrLast"
                        ELSE v \in finite /\ \A i \in finite : l[v] <= l[i]
      BY <2>2 DEF C!SavedIsBest
    <3>1. IF b = 0 THEN \A i \in DOMAIN l : l[i] = C!NaN
          ELSE l[b] # C!NaN /\ \A i \in DOMAIN l : l[i] # C!NaN => l[b] <= l[i]
      BY <1>1, <1>3, <1>4 DEF BestInv
    <3>2. CASE b = 0
      BY <3>1, <3>2, <2>1
    <3>3. CASE b # 0
      BY <3>1, <3>3, <2>1, <1>5
    <3> QED
      BY <3>2, <3>3
  <2> QED
    BY <1>2, <2>4, <2>5, <2>6, TrainerSteps
<1> QED
  BY <1>6, <1>7

\* A save, of a checkpoint or of what a save in place begins with.
LEMMA WriteKeeps ==
  ASSUME CheckpointsInv, NEW name, NEW c, Sane(c), C!Write(name, c),
         trainer' = C!Idle \/ (TrainerInv(trainer') /\ trainer'.phase = "open"),
         UNCHANGED <<manifest, writing, runs>>
  PROVE  CheckpointsInv'
<1>1. /\ \A n \in DOMAIN store' : store'[n] = IF n = name THEN c ELSE store[n]
      /\ DOMAIN store' = DOMAIN store \cup {name} /\ verified' = FALSE
  BY DEF C!Write
<1>2. \A n \in DOMAIN store' : Sane(store'[n])
  BY <1>1 DEF CheckpointsInv
<1>3. BestInv(trainer') \/ trainer' = C!Idle
  BY DEF BestInv
<1>4. C!SavedIsBest'
  BY DEF C!SavedIsBest, C!Idle
<1>5. CASE server.phase = "loading"
  <2>1. Vouched(server)
    BY <1>5 DEF CheckpointsInv
  <2>2. PICK q, r, u, l : server = [phase |-> "loading", path |-> q, raced |-> r, unpinnable |-> u, listed |-> l]
    BY <2>1 DEF Vouched
  <2>3. server.path = q /\ server.raced = r /\ server.unpinnable = u /\ server.listed = l
    BY <2>2
  <2>4. CASE q = name
    <3>1. server' = [phase |-> "loading", path |-> q, raced |-> TRUE, unpinnable |-> u, listed |-> l]
      BY <1>5, <2>2, <2>3, <2>4 DEF C!Write
    <3>2. server'.phase = "loading" /\ server'.path = q /\ server'.raced = TRUE /\ server'.unpinnable = u
          /\ server'.listed = l
      BY <3>1
    <3>3. Vouched(server)'
      BY <3>1, <3>2, <2>1, <2>3 DEF Vouched
    <3> QED
      BY <1>1, <1>2, <1>3, <1>4, <3>2, <3>3 DEF CheckpointsInv, C!ServesPinned
  <2>5. CASE q # name
    <3>1. server' = server
      BY <2>3, <2>5 DEF C!Write
    <3>2. Vouched(server)'
      BY <3>1, <2>1, <2>3, <2>5, <1>1 DEF Vouched
    <3> QED
      BY <1>1, <1>2, <1>3, <1>4, <1>5, <3>1, <3>2 DEF CheckpointsInv, C!ServesPinned
  <2> QED
    BY <2>4, <2>5
<1>6. CASE server.phase # "loading"
  <2>1. server' = server
    BY <1>6 DEF C!Write
  <2> QED
    BY <1>1, <1>2, <1>3, <1>4, <1>6, <2>1 DEF CheckpointsInv, C!ServesPinned
<1> QED
  BY <1>5, <1>6

LEMMA OpenCheckpointKeeps == CheckpointsInv /\ C!OpenCheckpoint => CheckpointsInv'
<1> SUFFICES ASSUME CheckpointsInv, C!OpenCheckpoint PROVE CheckpointsInv'
  OBVIOUS
<1>1. TrainerInv(trainer)
  BY DEF CheckpointsInv, C!OpenCheckpoint, C!Idle
<1>2. trainer' = [phase |-> "open", out |-> trainer.out, keeps |-> trainer.keeps, losses |-> <<>>,
                  best |-> 0, weights |-> 0, result |-> trainer.result]
  BY <1>1 DEF C!OpenCheckpoint, TrainerInv
<1>3. <<>> \in Seq(Results) /\ Len(<<>>) = 0 /\ 0 <= MaxEpochs
  BY EmptySeq, OfflineAssumption
<1>4. trainer'.phase = "open" /\ TrainerInv(trainer')
  BY <1>1, <1>2, <1>3 DEF TrainerInv
<1> QED
  BY <1>4, WriteKeeps, NothingIsSane DEF C!OpenCheckpoint

LEMMA SaveKeeps == CheckpointsInv /\ C!Save => CheckpointsInv'
<1> SUFFICES ASSUME CheckpointsInv, C!Save PROVE CheckpointsInv'
  OBVIOUS
<1>1. Sane(trainer.result)
  BY DEF CheckpointsInv, C!Save, C!Idle, TrainerInv
<1> QED
  BY <1>1, WriteKeeps DEF C!Save

LEMMA ServerChecksKeeps == CheckpointsInv /\ C!ServerChecks => CheckpointsInv'
<1> SUFFICES ASSUME CheckpointsInv, C!ServerChecks PROVE CheckpointsInv'
  OBVIOUS
<1>1. CASE server' = [phase |-> "fallback"]
  BY <1>1 DEF C!ServerChecks, CheckpointsInv, C!ServesPinned, C!Readable, C!ListedMatches, C!SavedIsBest
<1>2. CASE server' # [phase |-> "fallback"]
  <2> DEFINE path == server.path
             refusing == ~C!Readable /\ (manifest = C!Garbled \/ server.production)
             listed == IF C!Readable /\ path \in DOMAIN manifest THEN manifest[path] ELSE C!Torn
  <2>1. /\ C!VerifyModelHash(path, server.production) \in {"pinned", "unpinned"}
        /\ server' = [phase |-> "loading", path |-> path, raced |-> FALSE, unpinnable |-> refusing,
                      listed |-> listed]
    BY <1>2 DEF C!ServerChecks
  <2>2. C!Garbled # C!Missing
    <3>1. DOMAIN C!Garbled = {"garbled"} /\ DOMAIN C!Missing = {"missing"}
      BY DEF C!Garbled, C!Missing
    <3> QED
      BY <3>1
  <2>3. ~refusing
    BY <2>1, <2>2 DEF C!VerifyModelHash, C!Readable
  <2>4. listed # C!Torn => path \in DOMAIN store /\ store[path] = listed
    BY <2>1 DEF C!VerifyModelHash, C!Readable, C!ListedMatches
  <2> HIDE DEF path, refusing, listed
  <2>5. server'.phase = "loading" /\ server'.path = path /\ server'.raced = FALSE
        /\ server'.unpinnable = refusing /\ server'.listed = listed
    BY <2>1
  <2>6. Vouched(server)'
    BY <2>1, <2>3, <2>4, <2>5 DEF Vouched, C!ServerChecks
  <2> QED
    BY <2>5, <2>6 DEF C!ServerChecks, CheckpointsInv, C!ServesPinned, C!Readable, C!ListedMatches, C!SavedIsBest
<1> QED
  BY <1>1, <1>2

LEMMA ServerLoadsKeeps == CheckpointsInv /\ C!ServerLoads => CheckpointsInv'
<1> SUFFICES ASSUME CheckpointsInv, C!ServerLoads PROVE CheckpointsInv'
  OBVIOUS
<1>1. CASE server' = [phase |-> "fallback"]
  BY <1>1 DEF C!ServerLoads, CheckpointsInv, C!ServesPinned, C!Readable, C!ListedMatches, C!SavedIsBest
<1>2. CASE server' # [phase |-> "fallback"]
  <2>1. server' = [phase |-> "serving", model |-> store[server.path], listed |-> server.listed,
                   raced |-> server.raced, unpinnable |-> server.unpinnable]
    BY <1>2 DEF C!ServerLoads
  <2>2. /\ server'.phase = "serving" /\ server'.model = store[server.path] /\ server'.listed = server.listed
        /\ server'.raced = server.raced /\ server'.unpinnable = server.unpinnable
    BY <2>1
  <2>3. C!ServesPinned'
    BY <2>2 DEF C!ServesPinned, C!ServerLoads, CheckpointsInv, Vouched
  <2> QED
    BY <2>2, <2>3 DEF C!ServerLoads, CheckpointsInv, C!Readable, C!ListedMatches, C!SavedIsBest
<1> QED
  BY <1>1, <1>2

LEMMA ModelsUntouched ==
  ASSUME CheckpointsInv, UNCHANGED checkpointVars
  PROVE  CheckpointsInv'
  BY DEF CheckpointsInv, checkpointVars, Vouched, C!ServesPinned, C!SavedIsBest, C!Readable, C!ListedMatches

LEMMA CheckpointsNext == CheckpointsInv /\ C!Next => CheckpointsInv'
<1> SUFFICES ASSUME CheckpointsInv, C!Next PROVE CheckpointsInv'
  OBVIOUS
<1>1. CASE C!StartTraining
  BY <1>1, StartTrainingKeeps
<1>2. ASSUME NEW loss \in Results, C!Epoch(loss) PROVE CheckpointsInv'
  BY <1>2, EpochKeeps
<1>3. CASE C!Restore
  BY <1>3, RestoreKeeps
<1>4. CASE C!OpenCheckpoint
  BY <1>4, OpenCheckpointKeeps
<1>5. CASE C!Save
  BY <1>5, SaveKeeps
<1>6. CASE C!KillTrainer
  BY <1>6, TrainerSteps DEF C!KillTrainer, C!SavedIsBest, C!Idle, CheckpointsInv
\* a manifest that is being written vouches for nothing
<1>7. CASE C!OpenManifest \/ C!WriteManifest
  BY <1>7 DEF C!OpenManifest, C!WriteManifest, CheckpointsInv, Vouched, C!ServesPinned, C!SavedIsBest
<1>8. CASE C!KillManifest \/ C!VerifyManifest
  BY <1>8 DEF C!KillManifest, C!VerifyManifest, CheckpointsInv, Vouched, C!ServesPinned, C!SavedIsBest,
     C!Readable, C!ListedMatches
<1>9. ASSUME NEW dotenv, NEW production, C!ServerImports(dotenv, production)
      PROVE  CheckpointsInv'
  <2>1. server'.phase \in {"crashed", "fallback", "checking"}
    BY <1>9 DEF C!ServerImports
  <2> QED
    BY <1>9, <2>1 DEF C!ServerImports, CheckpointsInv, C!ServesPinned, C!SavedIsBest, C!Readable, C!ListedMatches
<1>10. CASE C!ServerChecks
  BY <1>10, ServerChecksKeeps
<1>11. CASE C!ServerLoads
  BY <1>11, ServerLoadsKeeps
<1>12. CASE C!ServerStops
  BY <1>12 DEF C!ServerStops, C!Down, CheckpointsInv, C!ServesPinned, C!SavedIsBest, C!Readable, C!ListedMatches
<1> QED
  BY <1>1, <1>2, <1>3, <1>4, <1>5, <1>6, <1>7, <1>8, <1>9, <1>10, <1>11, <1>12 DEF C!Next, Results

LEMMA CheckpointsHold ==
  CheckpointsInv => C!TypeOK /\ SavedIsBest /\ ServedIsVouchedFor
<1> SUFFICES ASSUME CheckpointsInv PROVE C!TypeOK /\ SavedIsBest /\ ServedIsVouchedFor
  OBVIOUS
<1>1. C!TypeOK
  <2>1. \A name \in DOMAIN store : C!Checkpoint(store[name])
    BY DEF CheckpointsInv, Sane
  <2>2. CASE trainer = C!Idle
    BY <2>1, <2>2 DEF CheckpointsInv, C!TypeOK, C!Idle
  <2>3. CASE TrainerInv(trainer)
    BY <2>1, <2>3 DEF CheckpointsInv, C!TypeOK, TrainerInv
  <2> QED
    BY <2>2, <2>3 DEF CheckpointsInv
<1>2. SavedIsBest
  BY DEF CheckpointsInv, SavedIsBest
<1>3. C!VerifiedLoads
  BY DEF CheckpointsInv, C!VerifiedLoads, C!VerifyModelHash, C!Readable
<1> QED
  BY <1>1, <1>2, <1>3 DEF CheckpointsInv, ServedIsVouchedFor

(***************************************************************************)
(* Evaluation.                                                              *)
(***************************************************************************)
Ticks == [ts : Nat, mid : Nat, fires : BOOLEAN]
CrashEvents == [start : Nat, end : Nat, peak : Nat, trough : Nat]
N == Len(day)

DayInv == /\ kind \in Kinds \cup {{}} /\ day \in Seq(Ticks) /\ N <= MaxTicks
          /\ \A i, j \in 1..N : i <= j => day[i].ts <= day[j].ts

\* Alerts are in order, each at the time of a tick.
Times(q) == /\ q \in Seq(Nat)
            /\ \A a \in 1..Len(q) : \E i \in 1..N : q[a] = day[i].ts
            /\ \A a, b \in 1..Len(q) : a <= b => q[a] <= q[b]
AlertsInv == Times(alerts) /\ Len(alerts) <= N /\ Times(fired)

\* p is the tick of the swing's peak, q the lowest tick since.
Peak(p) == /\ day[p].ts = swing.peakTs /\ day[p].mid = swing.peak
           /\ \A j \in p..N : day[j].mid <= swing.peak
Falling(p, q) == /\ \E ev \in {E!Event(swing)} : E!Descent(ev, p, q)
                 /\ \A j \in p..N : ~E!Gap(j) => swing.trough <= day[j].mid
\* Since the peak no price was a crash below it.
Steady(p) == \A j \in p..N : ~E!Gap(j) => ~E!Drops(swing.peak, day[j].mid)
SwingInv ==
  /\ swing \in [peak : Nat, peakTs : Nat, inCrash : BOOLEAN, trough : Nat, troughTs : Nat]
  /\ swing.inCrash => /\ 0 < swing.trough /\ swing.trough < swing.peak
                      /\ \E p, q \in 1..N : Peak(p) /\ Falling(p, q)
  /\ ~swing.inCrash /\ swing.peak # 0 => \E p \in 1..N : Peak(p) /\ Steady(p)

\* Between an event and a later time the price has recovered.
Apart(ev, ts) == /\ ev.end <= ts
                 /\ \E j \in 1..N : /\ ev.end <= day[j].ts /\ day[j].ts <= ts
                                    /\ E!Recovered(day[j].mid, ev)
CrashesInv ==
  /\ crashes \in Seq(CrashEvents) /\ Len(crashes) <= N
  /\ \A i \in 1..Len(crashes) : \E p, q \in 1..N : E!Descent(crashes[i], p, q)
  /\ \A i \in 2..Len(crashes) : Apart(crashes[i - 1], crashes[i].start)
  /\ Len(crashes) > 0 => swing.peak # 0 /\ Apart(crashes[Len(crashes)], swing.peakTs)

BaselineInv ==
  /\ baseline \in [peak : Nat, peakTs : Nat, alerts : Seq(Nat)]
  /\ baseline.peak # 0 => \E j \in 1..N : day[j].mid = baseline.peak /\ day[j].ts = baseline.peakTs
  /\ \A a \in 1..Len(baseline.alerts) : \E j, i \in 1..N :
       /\ day[i].ts = baseline.alerts[a] /\ j < i /\ day[j].ts + PeakWindow >= day[i].ts
       /\ E!Drops(day[j].mid, day[i].mid)
  /\ Times(baseline.alerts)

\* The stream's window is the end of what a batch would score, but for the
\* features that are blind.
Rows == [row : Nat, from : Nat, blind : BOOLEAN]
From(row) == IF row > NormWindow THEN row - NormWindow + 1 ELSE 1
RowOf(d, row) == [row |-> row, from |-> From(row), blind |-> \E g \in From(row)..row : d[g].mid = 0]
WindowInv ==
  /\ hist \in Seq(Nat) /\ Len(hist) = (IF N < NormWindow THEN N ELSE NormWindow)
  /\ \A k \in 1..Len(hist) : hist[k] = N - Len(hist) + k
  /\ window \in Seq(Rows) /\ Len(window) = (IF N < WindowSize THEN N ELSE WindowSize)
  /\ \A k \in 1..Len(window) : window[k] = RowOf(day, N - Len(window) + k)
  /\ online \in Seq(Seq(Rows)) /\ Len(online) = (IF N < WindowSize THEN 0 ELSE N - WindowSize + 1)
  /\ \A j \in 1..Len(online) : online[j] = [k \in 1..WindowSize |-> RowOf(day, j + k - 1)]

EvaluationInv == DayInv /\ AlertsInv /\ SwingInv /\ CrashesInv /\ BaselineInv /\ WindowInv
-----------------------------------------------------------------------------
LEMMA TickFields ==
  ASSUME NEW S, NEW T, NEW U, NEW k \in [dt : S, mid : T, fires : U]
  PROVE  k.dt \in S /\ k.mid \in T /\ k.fires \in U
  OBVIOUS

\* What the proofs use of Kinds.
LEMMA KindsAreTicks ==
  ASSUME NEW ks \in Kinds \cup {{}}, NEW k \in ks
  PROVE  k.dt \in Nat /\ k.mid \in Nat /\ k.fires \in BOOLEAN
<1>1. CASE k \in Crashing
  <2>1. k.dt \in {1} /\ k.mid \in Prices
    BY <1>1, TickFields DEF Crashing
  <2>4. k.fires \in BOOLEAN
    BY <1>1, TickFields DEF Crashing
  <2>2. Prices \subseteq Nat
    BY DEF Prices
  <2>3. k.dt \in Nat
    BY <2>1
  <2>5. k.mid \in Nat
    BY <2>1, <2>2, Zenon
  <2> QED
    BY <2>3, <2>4, <2>5, Zenon
<1>2. CASE k \in Uneven
  <2>1. k.dt \in {0, 1, 2} /\ k.mid \in {970, 1000} /\ k.fires \in NoAlerts
    BY <1>2, TickFields DEF Uneven
  <2>2. NoAlerts \subseteq BOOLEAN
    BY Zenon DEF NoAlerts
  <2> QED
    BY <2>1, <2>2
<1>3. k \in Crashing \/ k \in Uneven
  BY DEF Kinds
<1> QED
  BY <1>1, <1>2, <1>3

LEMMA NothingDropsFromItself == ASSUME NEW x \in Nat PROVE ~E!Drops(x, x)
  BY DEF E!Drops

LEMMA DropsFurther ==
  ASSUME NEW from \in Nat, NEW a \in Nat, NEW b \in Nat, E!Drops(from, a), b <= a
  PROVE  E!Drops(from, b)
<1>1. CrashPct \in Nat
  BY OfflineAssumption
<1>2. PICK c \in Int : c = CrashPct * from
  BY <1>1
<1>3. (from - a) * 100 >= c /\ from > a
  BY <1>2 DEF E!Drops
<1>4. (from - b) * 100 >= c /\ from > b
  BY <1>3
<1> QED
  BY <1>2, <1>4 DEF E!Drops

\* A day that has grown by a tick.
Grown(tick) ==
  /\ tick \in Ticks /\ N' = N + 1 /\ day' \in Seq(Ticks) /\ day'[N + 1] = tick
  /\ \A i \in 1..N : day'[i] = day[i]
  /\ \A i \in 1..N : day[i].ts <= tick.ts

LEMMA DayTypes ==
  ASSUME DayInv
  PROVE  /\ N \in Nat /\ E!N = N /\ DOMAIN day = 1..N
         /\ \A i \in 1..N : day[i] \in Ticks /\ day[i].ts \in Nat /\ day[i].mid \in Nat
<1>1. day \in Seq(Ticks)
  BY DEF DayInv
<1>2. N \in Nat /\ DOMAIN day = 1..N /\ \A i \in 1..N : day[i] \in Ticks
  BY <1>1, LenProperties, ElementOfSeq DEF N
<1>3. E!N = N
  BY DEF E!N, N
<1> QED
  BY <1>2, <1>3 DEF Ticks

LEMMA TickGrows ==
  ASSUME DayInv, NEW k \in kind, E!Tick(k)
  PROVE  /\ DayInv'
         /\ \E tick : /\ Grown(tick) /\ E!LabelCrashes(tick) /\ E!Replay(tick) /\ E!Fire(tick)
                      /\ E!RunBaselineBacktest(tick) /\ E!Stage3Feed(N + 1)
<1> DEFINE last == IF day = <<>> THEN 0 ELSE E!Last(day).ts
           tick == [ts |-> k.dt + last, mid |-> k.mid, fires |-> k.fires]
<1>1. k.dt \in Nat /\ k.mid \in Nat /\ k.fires \in BOOLEAN
  BY KindsAreTicks DEF DayInv
<1>2. /\ N \in Nat /\ E!N = N
      /\ \A i \in 1..N : day[i] \in Ticks /\ day[i].ts \in Nat
  BY DayTypes
<1>3. last \in Nat /\ \A i \in 1..N : day[i].ts <= last
  <2>1. CASE day = <<>>
    BY <2>1, EmptySeq DEF N
  <2>2. CASE day # <<>>
    <3>1. N > 0
      BY <2>2, <1>2, EmptySeq DEF N, DayInv
    <3>2. last = day[N].ts
      BY <2>2 DEF E!Last, N
    <3> QED
      BY <3>1, <3>2, <1>2 DEF DayInv
  <2> QED
    BY <2>1, <2>2
<1>4. tick \in Ticks /\ \A i \in 1..N : day[i].ts <= tick.ts
  <2> HIDE DEF last
  <2> QED
    BY <1>1, <1>2, <1>3 DEF Ticks
<1>5. /\ N < MaxTicks /\ day' = Append(day, tick)
      /\ E!LabelCrashes(tick) /\ E!Replay(tick) /\ E!Fire(tick) /\ E!RunBaselineBacktest(tick)
      /\ E!Stage3Feed(N + 1) /\ kind' = kind
  BY <1>2 DEF E!Tick
<1> HIDE DEF tick, last
<1>6. Grown(tick)
  <2>1. /\ day' \in Seq(Ticks) /\ Len(day') = N + 1 /\ day'[N + 1] = tick
        /\ \A i \in 1..N : day'[i] = day[i]
    BY <1>4, <1>5, AppendProperties DEF DayInv, N
  <2> QED
    BY <2>1, <1>4 DEF Grown, N
<1>7. DayInv'
  <2>1. N' <= MaxTicks
    BY <1>2, <1>5, <1>6, OfflineAssumption DEF Grown
  <2>2. ASSUME NEW i \in 1..N', NEW j \in 1..N', i <= j PROVE day'[i].ts <= day'[j].ts
    <3>1. (i \in 1..N \/ i = N + 1) /\ (j \in 1..N \/ j = N + 1)
      BY <1>2, <1>6 DEF Grown
    <3>2. CASE j \in 1..N
      <4>1. i \in 1..N
        BY <2>2, <3>1, <3>2, <1>2
      <4> QED
        BY <2>2, <3>2, <4>1, <1>6 DEF Grown, DayInv
    <3>3. CASE j = N + 1 /\ i \in 1..N
      BY <3>3, <1>6 DEF Grown
    <3>4. CASE j = N + 1 /\ i = N + 1
      <4>1. tick.ts \in Nat
        BY <1>4 DEF Ticks
      <4> QED
        BY <3>4, <4>1, <1>6 DEF Grown
    <3> QED
      BY <3>1, <3>2, <3>3, <3>4
  <2> QED
    BY <2>1, <2>2, <1>5, <1>6 DEF DayInv, Grown
<1> QED
  BY <1>5, <1>6, <1>7

LEMMA TimesGrow ==
  ASSUME DayInv, NEW tick, Grown(tick), NEW q, Times(q)
  PROVE  Times(q)' /\ Times(Append(q, tick.ts))'
<1>1. N \in Nat /\ N' = N + 1 /\ day'[N + 1] = tick /\ tick.ts \in Nat
  BY DayTypes DEF Grown, Ticks
<1>2. q \in Seq(Nat) /\ Len(q) \in Nat
  BY LenProperties DEF Times
<1>3. ASSUME NEW a \in 1..Len(q)
      PROVE  /\ q[a] \in Nat /\ q[a] <= tick.ts
             /\ \E i \in 1..N' : q[a] = day'[i].ts
  <2>1. PICK i \in 1..N : q[a] = day[i].ts
    BY DEF Times
  <2>2. i \in 1..N' /\ day'[i] = day[i] /\ day[i].ts <= tick.ts
    BY <1>1 DEF Grown
  <2>3. q[a] \in Nat
    BY <1>2, ElementOfSeq
  <2> QED
    BY <2>1, <2>2, <2>3
<1>4. Times(q)'
  BY <1>2, <1>3 DEF Times
<1> DEFINE r == Append(q, tick.ts)
<1>5. /\ r \in Seq(Nat) /\ Len(r) = Len(q) + 1 /\ r[Len(q) + 1] = tick.ts
      /\ \A a \in 1..Len(q) : r[a] = q[a]
  BY <1>1, <1>2, AppendProperties
<1> HIDE DEF r
<1>6. \A a \in 1..Len(r) : a \in 1..Len(q) \/ a = Len(q) + 1
  BY <1>2, <1>5
<1>7. ASSUME NEW a \in 1..Len(r) PROVE r[a] <= tick.ts /\ \E i \in 1..N' : r[a] = day'[i].ts
  <2>1. CASE a \in 1..Len(q)
    BY <2>1, <1>3, <1>5
  <2>2. CASE a = Len(q) + 1
    BY <2>2, <1>1, <1>5
  <2> QED
    BY <2>1, <2>2, <1>6
<1>8. ASSUME NEW a \in 1..Len(r), NEW b \in 1..Len(r), a <= b PROVE r[a] <= r[b]
  <2>1. CASE b = Len(q) + 1
    BY <2>1, <1>5, <1>7
  <2>2. CASE b \in 1..Len(q)
    <3>1. a \in 1..Len(q)
      BY <2>2, <1>2, <1>6, <1>8
    <3> QED
      BY <2>2, <3>1, <1>5, <1>8 DEF Times
  <2> QED
    BY <2>1, <2>2, <1>6
<1>9. Times(r)'
  BY <1>5, <1>7, <1>8 DEF Times
<1> QED
  BY <1>4, <1>9 DEF r

LEMMA ReplayKeeps ==
  ASSUME DayInv, AlertsInv, NEW tick, Grown(tick), E!Replay(tick), E!Fire(tick)
  PROVE  AlertsInv'
<1>1. PICK q, p : q = alerts /\ p = fired
  OBVIOUS
<1>2. /\ Times(q)' /\ Times(Append(q, tick.ts))' /\ Times(p)' /\ Times(Append(p, tick.ts))'
  BY <1>1, TimesGrow DEF AlertsInv
<1>3. alerts' = q \/ alerts' = Append(q, tick.ts)
  BY <1>1 DEF E!Replay
<1>4. fired' = p \/ fired' = Append(p, tick.ts)
  BY <1>1 DEF E!Fire
<1>5. ASSUME NEW r, Times(r)', alerts' = r PROVE Times(alerts)'
  BY <1>5 DEF Times
<1>6. ASSUME NEW r, Times(r)', fired' = r PROVE Times(fired)'
  BY <1>6 DEF Times
<1>7. Times(alerts)' /\ Times(fired)'
  BY <1>2, <1>3, <1>4, <1>5, <1>6, Zenon
<1>8. Len(alerts') <= N'
  <2>1. q \in Seq(Nat) /\ Len(q) \in Nat /\ Len(q) <= N /\ N \in Nat /\ tick.ts \in Nat /\ N' = N + 1
    BY <1>1, DayTypes, LenProperties DEF AlertsInv, Times, Grown, Ticks
  <2>2. Len(alerts') <= Len(q) + 1
    BY <2>1, <1>3, AppendProperties
  <2>3. Len(alerts') \in Nat
    BY <1>7, LenProperties DEF Times
  <2> QED
    BY <2>1, <2>2, <2>3
<1> QED
  BY <1>7, <1>8 DEF AlertsInv

-----------------------------------------------------------------------------
(***************************************************************************)
(* The labeler.                                                             *)
(***************************************************************************)
LEMMA DescentStays ==
  ASSUME DayInv, NEW tick, Grown(tick), NEW ev, NEW p \in 1..N, NEW q \in 1..N, E!Descent(ev, p, q)
  PROVE  p \in 1..N' /\ q \in 1..N' /\ E!Descent(ev, p, q)'
<1>1. N \in Nat /\ N' = N + 1
  BY DayTypes DEF Grown
<1>2. p \in 1..N' /\ q \in 1..N' /\ \A j \in p..q : j \in 1..N
  BY <1>1
<1>3. \A j \in 1..N : day'[j] = day[j] /\ (E!Gap(j)' <=> E!Gap(j))
  BY DEF Grown, E!Gap
<1> QED
  BY <1>2, <1>3 DEF E!Descent

LEMMA ApartStays ==
  ASSUME DayInv, NEW tick, Grown(tick), NEW ev, NEW ts \in Nat, NEW later \in Nat, ts <= later,
         ev.end \in Nat, Apart(ev, ts)
  PROVE  Apart(ev, later)'
<1>1. N \in Nat /\ N' = N + 1 /\ \A j \in 1..N : day[j].ts \in Nat
  BY DayTypes DEF Grown
<1>2. PICK j \in 1..N : ev.end <= day[j].ts /\ day[j].ts <= ts /\ E!Recovered(day[j].mid, ev)
  BY DEF Apart
<1>3. j \in 1..N' /\ day'[j] = day[j] /\ day[j].ts <= later /\ ev.end <= later
  BY <1>1, <1>2 DEF Apart, Grown
<1> QED
  BY <1>2, <1>3 DEF Apart

\* The events that have ended, when none is added.
LEMMA CrashesStay ==
  ASSUME DayInv, SwingInv, CrashesInv, NEW tick, Grown(tick), crashes' = crashes,
         swing'.peakTs \in Nat, swing.peak # 0 => swing'.peak # 0 /\ swing.peakTs <= swing'.peakTs
  PROVE  CrashesInv'
<1>1. /\ crashes \in Seq(CrashEvents) /\ Len(crashes) \in Nat
      /\ \A i \in 1..Len(crashes) : crashes[i].start \in Nat /\ crashes[i].end \in Nat
  <2>1. crashes \in Seq(CrashEvents)
    BY DEF CrashesInv
  <2>2. Len(crashes) \in Nat /\ \A i \in 1..Len(crashes) : crashes[i] \in CrashEvents
    BY <2>1, LenProperties, ElementOfSeq
  <2> QED
    BY <2>1, <2>2 DEF CrashEvents
<1>2. Len(crashes) <= N'
  BY <1>1, DayTypes DEF CrashesInv, Grown
<1>3. ASSUME NEW i \in 1..Len(crashes) PROVE \E p, q \in 1..N' : E!Descent(crashes[i], p, q)'
  <2>1. PICK p \in 1..N, q \in 1..N : E!Descent(crashes[i], p, q)
    BY DEF CrashesInv
  <2>2. PICK ev : ev = crashes[i]
    OBVIOUS
  <2>3. p \in 1..N' /\ q \in 1..N' /\ E!Descent(ev, p, q)'
    BY <2>1, <2>2, DescentStays
  <2>4. crashes'[i] = ev
    BY <2>2
  <2> QED
    BY <2>3, <2>4 DEF E!Descent
<1>4. ASSUME NEW i \in 2..Len(crashes) PROVE Apart(crashes[i - 1], crashes[i].start)'
  <2>1. PICK ev, ts : ev = crashes[i - 1] /\ ts = crashes[i].start
    OBVIOUS
  <2>2. ev.end \in Nat /\ ts \in Nat /\ Apart(ev, ts)
    BY <2>1, <1>1 DEF CrashesInv
  <2>3. Apart(ev, ts)'
    BY <2>2, ApartStays
  <2>4. ev = crashes'[i - 1] /\ ts = crashes'[i].start
    BY <2>1
  <2> QED
    BY <2>3, <2>4 DEF Apart
<1>5. ASSUME Len(crashes) > 0 PROVE swing'.peak # 0 /\ Apart(crashes[Len(crashes)], swing.peakTs)'
  <2>1. PICK ev, ts, later : ev = crashes[Len(crashes)] /\ ts = swing.peakTs /\ later = swing'.peakTs
    OBVIOUS
  <2>2. /\ ev.end \in Nat /\ ts \in Nat /\ later \in Nat /\ ts <= later /\ Apart(ev, ts)
        /\ swing'.peak # 0
    BY <2>1, <1>1, <1>5 DEF CrashesInv, SwingInv
  <2>3. Apart(ev, later)'
    BY <2>2, ApartStays
  <2>4. ev = crashes'[Len(crashes')] /\ later = swing'.peakTs
    BY <2>1
  <2> QED
    BY <2>2, <2>3, <2>4 DEF Apart
<1> QED
  BY <1>1, <1>2, <1>3, <1>4, <1>5 DEF CrashesInv

\* An event ends at a price from which the next swing starts.
LEMMA CrashEnds ==
  ASSUME DayInv, SwingInv, CrashesInv, NEW tick, Grown(tick), NEW ev \in CrashEvents,
         crashes' = Append(crashes, ev), swing' = E!Swing(tick), tick.mid # 0,
         ev.start = swing.peakTs, ev.end <= tick.ts, E!Recovered(tick.mid, ev),
         \E p, q \in 1..N' : E!Descent(ev, p, q)'
  PROVE  CrashesInv'
<1> DEFINE n == Len(crashes)
<1>1. /\ crashes \in Seq(CrashEvents) /\ n \in Nat /\ N \in Nat /\ n <= N
      /\ \A i \in 1..n : crashes[i].start \in Nat /\ crashes[i].end \in Nat
  <2>1. crashes \in Seq(CrashEvents) /\ n <= N
    BY DEF CrashesInv
  <2>2. n \in Nat /\ \A i \in 1..n : crashes[i] \in CrashEvents
    BY <2>1, LenProperties, ElementOfSeq
  <2> QED
    BY <2>1, <2>2, DayTypes DEF CrashEvents
<1>2. /\ crashes' \in Seq(CrashEvents) /\ Len(crashes') = n + 1 /\ crashes'[n + 1] = ev
      /\ \A i \in 1..n : crashes'[i] = crashes[i]
  BY <1>1, AppendProperties
<1>3. tick.ts \in Nat /\ tick.mid \in Nat /\ swing'.peak = tick.mid /\ swing'.peakTs = tick.ts
      /\ swing.peakTs \in Nat /\ ev.end \in Nat /\ ev.start \in Nat
      /\ N' = N + 1 /\ day'[N + 1] = tick
  BY DEF Grown, Ticks, E!Swing, CrashEvents, SwingInv
<1> HIDE DEF n
<1>4. ASSUME NEW i \in 1..(n + 1) PROVE \E p, q \in 1..N' : E!Descent(crashes[i], p, q)'
  <2>1. CASE i = n + 1
    BY <2>1, <1>2 DEF E!Descent
  <2>2. CASE i \in 1..n
    <3>1. PICK p \in 1..N, q \in 1..N : E!Descent(crashes[i], p, q)
      BY <2>2 DEF CrashesInv, n
    <3>2. PICK c : c = crashes[i]
      OBVIOUS
    <3>3. p \in 1..N' /\ q \in 1..N' /\ E!Descent(c, p, q)'
      BY <3>1, <3>2, DescentStays
    <3>4. crashes'[i] = c
      BY <3>2, <2>2, <1>2
    <3> QED
      BY <3>3, <3>4 DEF E!Descent
  <2>3. i = n + 1 \/ i \in 1..n
    BY <1>1
  <2> QED
    BY <2>1, <2>2, <2>3
<1>5. ASSUME NEW i \in 2..(n + 1) PROVE Apart(crashes[i - 1], crashes[i].start)'
  <2>1. PICK c, ts : c = crashes[i - 1] /\ ts = IF i = n + 1 THEN ev.start ELSE crashes[i].start
    OBVIOUS
  <2>2. i - 1 \in 1..n /\ (i # n + 1 => i \in 2..n /\ i \in 1..n)
    BY <1>1
  <2>3. c.end \in Nat /\ ts \in Nat /\ Apart(c, ts)
    <3>1. CASE i = n + 1
      <4>1. n > 0 /\ i - 1 = n
        BY <3>1, <2>2, <1>1
      <4>2. Apart(crashes[n], swing.peakTs)
        BY <4>1 DEF CrashesInv, n
      <4> QED
        BY <3>1, <4>1, <4>2, <2>1, <2>2, <1>1, <1>3
    <3>2. CASE i # n + 1
      <4>1. Apart(crashes[i - 1], crashes[i].start)
        BY <3>2, <2>2 DEF CrashesInv, n
      <4> QED
        BY <3>2, <4>1, <2>1, <2>2, <1>1
    <3> QED
      BY <3>1, <3>2
  <2>4. Apart(c, ts)'
    BY <2>3, ApartStays
  <2>5. c = crashes'[i - 1] /\ ts = crashes'[i].start
    BY <2>1, <2>2, <1>2
  <2> QED
    BY <2>4, <2>5 DEF Apart
<1>6. Apart(crashes[Len(crashes)], swing.peakTs)'
  <2>1. N + 1 \in 1..N'
    BY <1>1, <1>3
  <2> QED
    BY <2>1, <1>2, <1>3 DEF Apart
<1>7. \A i \in 1..Len(crashes') : \E p, q \in 1..N' : E!Descent(crashes[i], p, q)'
  BY <1>2, <1>4
<1>8. \A i \in 2..Len(crashes') : Apart(crashes[i - 1], crashes[i].start)'
  BY <1>2, <1>5
<1>9. Len(crashes') <= N' /\ swing'.peak # 0
  BY <1>1, <1>2, <1>3
<1> QED
  BY <1>2, <1>6, <1>7, <1>8, <1>9 DEF CrashesInv

LEMMA LabelCrashesKeeps ==
  ASSUME DayInv, SwingInv, CrashesInv, NEW tick, Grown(tick), E!LabelCrashes(tick)
  PROVE  SwingInv' /\ CrashesInv'
<1>0. PICK m : m = N + 1
  OBVIOUS
<1>1. /\ N \in Nat /\ N' = N + 1 /\ m = N + 1 /\ m \in Nat /\ day'[m] = tick /\ tick.ts \in Nat /\ tick.mid \in Nat
      /\ \A j \in 1..N : /\ day'[j] = day[j] /\ (E!Gap(j)' <=> E!Gap(j)) /\ day[j].ts <= tick.ts
                         /\ day[j].ts \in Nat /\ day[j].mid \in Nat
  <2>1. N \in Nat /\ \A j \in 1..N : day[j].ts \in Nat /\ day[j].mid \in Nat
    BY DayTypes
  <2>2. tick.ts \in Nat /\ tick.mid \in Nat
    BY DEF Grown, Ticks
  <2>3. N' = N + 1 /\ day'[m] = tick /\ \A j \in 1..N : day'[j] = day[j] /\ day[j].ts <= tick.ts
    BY <1>0 DEF Grown
  <2>4. \A j \in 1..N : E!Gap(j)' <=> E!Gap(j)
    BY <2>3 DEF E!Gap
  <2>5. m = N + 1 /\ m \in Nat
    BY <1>0, <2>1
  <2> QED
    BY <2>1, <2>2, <2>3, <2>4, <2>5
<1>2. \A j : j \in 1..N' <=> j \in 1..N \/ j = m
  BY <1>1
<1>3. ASSUME NEW p \in 1..N PROVE \A j : j \in p..N' <=> j \in p..N \/ j = m
  BY <1>1
<1>4. ASSUME NEW p \in 1..N PROVE \A j \in p..N : j \in 1..N
  BY <1>1
<1>5. PICK peak, peakTs, inCrash, trough, troughTs :
        /\ swing = [peak |-> peak, peakTs |-> peakTs, inCrash |-> inCrash, trough |-> trough,
                    troughTs |-> troughTs]
        /\ peak \in Nat /\ peakTs \in Nat /\ trough \in Nat /\ troughTs \in Nat
  BY DEF SwingInv
<1>6. /\ swing.peak = peak /\ swing.peakTs = peakTs /\ swing.trough = trough /\ swing.troughTs = troughTs
      /\ swing.inCrash = inCrash
  BY <1>5
<1>7. swing.inCrash \in BOOLEAN
  BY DEF SwingInv
<1>8. ASSUME swing.peak # 0 PROVE swing.peakTs <= tick.ts
  <2>1. PICK p \in 1..N : Peak(p)
    BY <1>7, <1>8 DEF SwingInv
  <2> QED
    BY <2>1, <1>1 DEF Peak
\* the next swing, from this tick
<1>9. ASSUME swing' = E!Swing(tick), tick.mid # 0 PROVE SwingInv'
  <2>1. /\ swing'.peak = tick.mid /\ swing'.peakTs = tick.ts /\ swing'.inCrash = FALSE
        /\ swing' \in [peak : Nat, peakTs : Nat, inCrash : BOOLEAN, trough : Nat, troughTs : Nat]
    BY <1>1, <1>9 DEF E!Swing
  <2>2. m \in 1..N' /\ \A j \in m..N' : j = m
    BY <1>1
  <2>3. Peak(m)'
    <3>1. day'[m].ts = swing'.peakTs /\ day'[m].mid = swing'.peak
      BY <1>1, <2>1
    <3>2. \A j \in m..N' : day'[j].mid <= swing'.peak
      BY <1>1, <2>1, <2>2
    <3> QED
      BY <3>1, <3>2, <1>1 DEF Peak
  <2>4. Steady(m)'
    <3>1. ~E!Drops(tick.mid, tick.mid)
      BY <1>1, NothingDropsFromItself
    <3> QED
      BY <3>1, <1>1, <2>1, <2>2 DEF Steady
  <2> QED
    BY <1>1, <2>1, <2>2, <2>3, <2>4 DEF SwingInv
<1>10. CASE tick.mid = 0
  <2>1. swing' = swing /\ crashes' = crashes
    BY <1>10 DEF E!LabelCrashes
  <2>2. E!Gap(m)'
    BY <1>1, <1>10 DEF E!Gap
  <2>3. ASSUME NEW p \in 1..N, Peak(p) PROVE p \in 1..N' /\ Peak(p)'
    <3>1. day'[m].mid <= swing.peak
      BY <1>1, <1>5, <1>6, <1>10
    <3>2. p \in 1..N'
      BY <1>1
    <3>3. day'[p] = day[p] /\ \A j \in p..N' : day'[j].mid <= swing.peak
      BY <3>1, <1>1, <1>3, <1>4, <2>3 DEF Peak
    <3> QED
      BY <3>2, <3>3, <2>1, <2>3 DEF Peak
  <2>4. ASSUME NEW p \in 1..N, NEW q \in 1..N, Falling(p, q) PROVE q \in 1..N' /\ Falling(p, q)'
    <3>1. PICK ev : ev = E!Event(swing) /\ E!Descent(ev, p, q)
      BY <2>4 DEF Falling
    <3>2. q \in 1..N' /\ E!Descent(ev, p, q)'
      BY <3>1, DescentStays
    <3>3. ev = E!Event(swing)'
      BY <3>1, <2>1 DEF E!Event
    <3>4. \A j \in p..N' : ~E!Gap(j)' => swing.trough <= day'[j].mid
      BY <1>1, <1>3, <1>4, <2>2, <2>4 DEF Falling
    <3> QED
      BY <3>2, <3>3, <3>4, <2>1 DEF Falling
  <2>5. ASSUME NEW p \in 1..N, Steady(p) PROVE Steady(p)'
    <3>1. \A j \in p..N' : ~E!Gap(j)' => ~E!Drops(swing.peak, day'[j].mid)
      BY <1>1, <1>3, <1>4, <2>2, <2>5 DEF Steady
    <3> QED
      BY <3>1, <2>1 DEF Steady, E!Drops
  <2>6. SwingInv'
    <3>1. swing.inCrash => \E p, q \in 1..N' : Peak(p)' /\ Falling(p, q)'
      BY <2>3, <2>4 DEF SwingInv
    <3>2. ~swing.inCrash /\ swing.peak # 0 => \E p \in 1..N' : Peak(p)' /\ Steady(p)'
      BY <2>3, <2>5 DEF SwingInv
    <3> QED
      BY <3>1, <3>2, <2>1 DEF SwingInv
  <2>7. CrashesInv'
    BY <2>1, <1>5, <1>6, CrashesStay
  <2> QED
    BY <2>6, <2>7
<1>11. CASE tick.mid # 0 /\ ~swing.inCrash
  <2> DEFINE fresh == tick.mid > swing.peak \/ tick.ts > swing.peakTs + PeakWindow
             s == IF fresh THEN E!Swing(tick) ELSE swing
  <2>1. /\ swing' = IF E!Drops(s.peak, tick.mid)
                    THEN [s EXCEPT !.inCrash = TRUE, !.trough = tick.mid, !.troughTs = tick.ts] ELSE s
        /\ crashes' = crashes
    BY <1>11 DEF E!LabelCrashes
  <2>2. CASE fresh
    <3>1. s.peak = tick.mid /\ s.peakTs = tick.ts
      BY <2>2 DEF E!Swing
    <3>2. swing' = E!Swing(tick)
      BY <2>1, <2>2, <3>1, <1>1, NothingDropsFromItself
    <3>3. swing'.peak # 0 /\ swing'.peakTs = tick.ts
      BY <3>2, <1>11 DEF E!Swing
    <3>4. CrashesInv'
      BY <3>3, <2>1, <1>1, <1>8, CrashesStay
    <3> QED
      BY <3>2, <3>4, <1>9, <1>11
  <2>3. CASE ~fresh
    <3>1. /\ tick.mid <= peak /\ tick.ts <= peakTs + PeakWindow /\ peak # 0
          /\ swing' = IF E!Drops(peak, tick.mid)
                      THEN [swing EXCEPT !.inCrash = TRUE, !.trough = tick.mid, !.troughTs = tick.ts]
                      ELSE swing
      BY <2>1, <2>3, <1>1, <1>5, <1>6, <1>11, OfflineAssumption
    <3>2. PICK p \in 1..N : Peak(p) /\ Steady(p)
      BY <3>1, <1>6, <1>11 DEF SwingInv
    <3>3. day[p].ts = peakTs /\ day[p].mid = peak /\ \A j \in p..N : day[j].mid <= peak
      BY <3>2, <1>6 DEF Peak
    <3>4. p \in 1..N' /\ day'[p] = day[p] /\ \A j \in p..N' : day'[j].mid <= peak
      BY <3>1, <3>3, <1>1, <1>2, <1>3, <1>4
    <3>5. ~E!Gap(m)'
      BY <1>1, <1>11 DEF E!Gap
    <3>6. CASE E!Drops(peak, tick.mid)
      <4>1. swing' = [peak |-> peak, peakTs |-> peakTs, inCrash |-> TRUE, trough |-> tick.mid,
                      troughTs |-> tick.ts]
        BY <3>1, <3>6, <1>5
      <4>2. /\ swing'.peak = peak /\ swing'.peakTs = peakTs /\ swing'.trough = tick.mid
            /\ swing'.troughTs = tick.ts /\ swing'.inCrash = TRUE
            /\ swing' \in [peak : Nat, peakTs : Nat, inCrash : BOOLEAN, trough : Nat, troughTs : Nat]
        BY <4>1, <1>1, <1>5
      <4>3. 0 < tick.mid /\ tick.mid < peak
        BY <3>6, <1>1, <1>5, <1>11 DEF E!Drops
      <4>4. ASSUME NEW j \in p..N', ~E!Gap(j)' PROVE tick.mid <= day'[j].mid
        <5>1. CASE j = m
          BY <5>1, <1>1
        <5>2. CASE j \in p..N
          <6>1. j \in 1..N /\ day'[j] = day[j] /\ ~E!Gap(j) /\ day[j].mid \in Nat
            BY <5>2, <4>4, <1>1, <1>4
          <6>2. ~E!Drops(peak, day[j].mid)
            BY <5>2, <6>1, <3>2, <1>6 DEF Steady
          <6>3. ~(day[j].mid <= tick.mid)
            BY <6>1, <6>2, <3>6, <1>1, <1>5, DropsFurther
          <6> QED
            BY <6>1, <6>3, <1>1
        <5> QED
          BY <5>1, <5>2, <1>3
      <4>5. Peak(p)'
        BY <4>2, <3>3, <3>4 DEF Peak
      <4> DEFINE ev == [start |-> peakTs, end |-> tick.ts, peak |-> peak, trough |-> tick.mid]
      <4>6. E!Event(swing)' = ev
        BY <4>2 DEF E!Event
      <4>7. /\ m \in 1..N' /\ p < m /\ m \in p..N'
            /\ \A j \in p..m : j \in p..N'
        BY <1>1
      <4>8. ev.start = peakTs /\ ev.end = tick.ts /\ ev.peak = peak /\ ev.trough = tick.mid
        OBVIOUS
      <4> HIDE DEF ev
      <4>9. E!Descent(ev, p, m)'
        <5>1. \A j \in p..m : ~E!Gap(j)' => ev.trough <= day'[j].mid /\ day'[j].mid <= ev.peak
          BY <4>4, <4>7, <4>8, <3>4
        <5>2. ~E!Gap(m)' /\ day'[m].ts <= ev.start + PeakWindow /\ E!Drops(ev.peak, day'[m].mid)
          BY <4>8, <3>1, <3>5, <3>6, <1>1
        <5>3. m \in p..m
          BY <1>1
        <5>4. /\ day'[p].ts = ev.start /\ day'[p].mid = ev.peak
              /\ day'[m].ts = ev.end /\ day'[m].mid = ev.trough
          BY <4>8, <3>3, <3>4, <1>1
        <5> QED
          BY <5>1, <5>2, <5>3, <5>4, <4>7 DEF E!Descent, E!Drops
      <4>10. Falling(p, m)'
        <5>1. \A j \in p..N' : ~E!Gap(j)' => swing'.trough <= day'[j].mid
          BY <4>2, <4>4
        <5> QED
          BY <5>1, <4>6, <4>9 DEF Falling
      <4>11. SwingInv'
        BY <4>2, <4>3, <4>5, <4>7, <4>10, <3>4 DEF SwingInv
      <4>12. CrashesInv'
        BY <4>2, <3>1, <2>1, <1>5, <1>6, CrashesStay
      <4> QED
        BY <4>11, <4>12
    <3>7. CASE ~E!Drops(peak, tick.mid)
      <4>1. swing' = swing
        BY <3>1, <3>7
      <4>2. Peak(p)'
        BY <4>1, <3>3, <3>4, <1>6 DEF Peak
      <4>3. Steady(p)'
        <5>1. \A j \in p..N' : ~E!Gap(j)' => ~E!Drops(swing.peak, day'[j].mid)
          BY <3>2, <3>7, <1>1, <1>3, <1>4, <1>6 DEF Steady
        <5> QED
          BY <5>1, <4>1 DEF Steady, E!Drops
      <4>4. SwingInv'
        BY <4>1, <4>2, <4>3, <3>4, <1>11 DEF SwingInv
      <4>5. CrashesInv'
        BY <4>1, <2>1, <1>5, <1>6, CrashesStay
      <4> QED
        BY <4>4, <4>5
    <3> QED
      BY <3>6, <3>7
  <2> QED
    BY <2>2, <2>3
<1>12. CASE tick.mid # 0 /\ swing.inCrash
  <2> DEFINE low == tick.mid < trough
             t == IF low THEN tick.mid ELSE trough
             tTs == IF low THEN tick.ts ELSE troughTs
             s == [peak |-> peak, peakTs |-> peakTs, inCrash |-> inCrash, trough |-> t, troughTs |-> tTs]
             ev == [start |-> peakTs, end |-> tTs, peak |-> peak, trough |-> t]
  <2>1. IF E!Recovered(tick.mid, s)
        THEN crashes' = Append(crashes, E!Event(s)) /\ swing' = E!Swing(tick)
        ELSE swing' = s /\ UNCHANGED crashes
    <3>1. s = IF tick.mid < swing.trough
              THEN [swing EXCEPT !.trough = tick.mid, !.troughTs = tick.ts] ELSE swing
      BY <1>5, <1>6
    <3> HIDE DEF s
    <3> QED
      BY <3>1, <1>12 DEF E!LabelCrashes
  <2>2. 0 < trough /\ trough < peak
    BY <1>6, <1>12 DEF SwingInv
  <2>3. PICK p \in 1..N, q \in 1..N : Peak(p) /\ Falling(p, q)
    BY <1>12 DEF SwingInv
  <2>4. /\ day[p].ts = peakTs /\ day[p].mid = peak /\ \A j \in p..N : day[j].mid <= peak
        /\ E!Descent(E!Event(swing), p, q)
        /\ \A j \in p..N : ~E!Gap(j) => trough <= day[j].mid
    BY <2>3, <1>6 DEF Peak, Falling
  <2>5. E!Event(swing) = [start |-> peakTs, end |-> troughTs, peak |-> peak, trough |-> trough]
    BY <1>6 DEF E!Event
  <2>6. /\ E!Event(s) = ev /\ t \in Nat /\ tTs \in Nat /\ 0 < t /\ t < peak /\ t <= tick.mid
        /\ s.peak = peak /\ s.trough = t
    BY <2>2, <1>1, <1>5, <1>12 DEF E!Event
  <2>7. ev.start = peakTs /\ ev.end = tTs /\ ev.peak = peak /\ ev.trough = t
    OBVIOUS
  <2>8. ev \in CrashEvents
    BY <2>6, <1>5 DEF CrashEvents
  <2>9. p \in 1..N' /\ \A j \in p..N' : ~E!Gap(j)' => t <= day'[j].mid
    <3>1. \A j \in p..N : ~E!Gap(j) => t <= day[j].mid
      BY <2>4, <1>1, <1>4, <1>5
    <3> QED
      BY <3>1, <2>6, <1>1, <1>2, <1>3, <1>4
  <2>10. tTs <= tick.ts /\ \E r \in 1..N' : E!Descent(ev, p, r)'
    <3>1. CASE low
      <4>1. tTs = tick.ts /\ t = tick.mid /\ tick.mid <= peak
        BY <3>1, <2>2, <1>1, <1>5
      <4>2. PICK d \in p..q :
              ~E!Gap(d) /\ day[d].ts <= peakTs + PeakWindow /\ E!Drops(peak, day[d].mid)
        BY <2>4, <2>5 DEF E!Descent
      <4>3. d \in 1..N /\ p..q \subseteq 1..N
        BY <1>1, <4>2
      <4>4. d \in p..m /\ ~E!Gap(d)' /\ day'[d].ts <= peakTs + PeakWindow /\ E!Drops(peak, day'[d].mid)
        BY <4>2, <4>3, <1>1
      <4>5. \A j \in p..m : ~E!Gap(j)' => t <= day'[j].mid /\ day'[j].mid <= peak
        BY <2>4, <2>9, <4>1, <1>1, <1>3, <1>4
      <4>6. /\ day'[p].ts = peakTs /\ day'[p].mid = peak /\ m \in 1..N' /\ p < m
            /\ day'[m].ts = tTs /\ day'[m].mid = t
        BY <4>1, <2>4, <1>1
      <4> HIDE DEF ev, t, tTs
      <4>7. E!Descent(ev, p, m)'
        BY <4>4, <4>5, <4>6, <2>7 DEF E!Descent, E!Drops
      <4> QED
        BY <4>1, <4>6, <4>7, <1>1
    <3>2. CASE ~low
      <4>1. ev = E!Event(swing) /\ tTs = troughTs
        BY <3>2, <2>5
      <4>2. E!Descent(ev, p, q)
        BY <4>1, <2>4
      <4>3. troughTs <= tick.ts
        <5>1. troughTs = day[q].ts
          BY <2>4, <2>5 DEF E!Descent
        <5> QED
          BY <5>1, <1>1
      <4> HIDE DEF ev, tTs
      <4>4. q \in 1..N' /\ E!Descent(ev, p, q)'
        BY <4>2, DescentStays
      <4> QED
        BY <4>1, <4>3, <4>4
    <3> QED
      BY <3>1, <3>2
  <2>11. CASE E!Recovered(tick.mid, s)
    <3>1. crashes' = Append(crashes, ev) /\ swing' = E!Swing(tick)
      BY <2>1, <2>6, <2>11
    <3>2. E!Recovered(tick.mid, ev)
      BY <2>11, <2>6, <2>7 DEF E!Recovered
    <3>3. \E p1, q1 \in 1..N' : E!Descent(ev, p1, q1)'
      BY <2>9, <2>10
    <3> HIDE DEF ev
    <3>4. CrashesInv'
      BY <3>1, <3>2, <3>3, <2>7, <2>8, <2>10, <1>6, <1>12, CrashEnds
    <3> QED
      BY <3>1, <3>4, <1>9, <1>12
  <2>12. CASE ~E!Recovered(tick.mid, s)
    <3>1. swing' = s /\ crashes' = crashes
      BY <2>1, <2>12
    <3>2. /\ swing'.peak = peak /\ swing'.peakTs = peakTs /\ swing'.trough = t /\ swing'.troughTs = tTs
          /\ swing'.inCrash = inCrash
      BY <3>1
    <3>3. swing' \in [peak : Nat, peakTs : Nat, inCrash : BOOLEAN, trough : Nat, troughTs : Nat]
      BY <3>1, <2>6, <1>5, <1>6, <1>7
    <3>4. tick.mid <= peak
      BY <2>6, <2>12, <1>1, <1>5 DEF E!Recovered
    <3>5. Peak(p)'
      <4>1. \A j \in p..N' : day'[j].mid <= peak
        BY <3>4, <2>4, <1>1, <1>3, <1>4
      <4> QED
        BY <4>1, <3>2, <2>4, <1>1 DEF Peak
    <3>6. PICK r \in 1..N' : E!Descent(ev, p, r)'
      BY <2>10
    <3>7. E!Event(swing)' = ev
      BY <3>2 DEF E!Event
    <3> HIDE DEF ev, s, t, tTs
    <3>8. Falling(p, r)'
      <4>1. \A j \in p..N' : ~E!Gap(j)' => swing'.trough <= day'[j].mid
        BY <3>2, <2>9
      <4> QED
        BY <4>1, <3>6, <3>7 DEF Falling
    <3>9. SwingInv'
      BY <3>2, <3>3, <3>5, <3>8, <2>6, <2>9, <1>6, <1>12 DEF SwingInv
    <3>10. CrashesInv'
      BY <3>1, <3>2, <2>2, <1>5, <1>6, CrashesStay
    <3> QED
      BY <3>9, <3>10
  <2> QED
    BY <2>11, <2>12
<1> QED
  BY <1>10, <1>11, <1>12

-----------------------------------------------------------------------------
(***************************************************************************)
(* The circuit breaker, and the stream's windows.                           *)
(***************************************************************************)
LEMMA BaselineKeeps ==
  ASSUME DayInv, BaselineInv, NEW tick, Grown(tick), E!RunBaselineBacktest(tick)
  PROVE  BaselineInv'
<1>1. /\ N \in Nat /\ N' = N + 1 /\ day'[N + 1] = tick /\ tick.ts \in Nat /\ tick.mid \in Nat
      /\ \A j \in 1..N : day'[j] = day[j] /\ day[j].ts \in Nat /\ day[j].mid \in Nat
  BY DayTypes DEF Grown, Ticks
<1>2. \A j : j \in 1..N => j \in 1..N' /\ j < N + 1
  BY <1>1
<1>3. N + 1 \in 1..N'
  BY <1>1
<1>4. PICK peak, peakTs, reported :
        /\ baseline = [peak |-> peak, peakTs |-> peakTs, alerts |-> reported]
        /\ peak \in Nat /\ peakTs \in Nat /\ reported \in Seq(Nat)
  BY DEF BaselineInv
<1>5. baseline.peak = peak /\ baseline.peakTs = peakTs /\ baseline.alerts = reported
  BY <1>4
<1>6. peak # 0 => \E j \in 1..N' : day'[j].mid = peak /\ day'[j].ts = peakTs
  BY <1>1, <1>2, <1>5 DEF BaselineInv
<1> DEFINE Real(ts) == \E j, i \in 1..N' :
                         /\ day'[i].ts = ts /\ j < i /\ day'[j].ts + PeakWindow >= day'[i].ts
                         /\ E!Drops(day'[j].mid, day'[i].mid)
<1>7. ASSUME NEW a \in 1..Len(reported) PROVE Real(reported[a])
  <2>1. PICK j \in 1..N, i \in 1..N :
          /\ day[i].ts = reported[a] /\ j < i /\ day[j].ts + PeakWindow >= day[i].ts
          /\ E!Drops(day[j].mid, day[i].mid)
    BY <1>5 DEF BaselineInv
  <2>2. j \in 1..N' /\ i \in 1..N' /\ day'[j] = day[j] /\ day'[i] = day[i]
    BY <1>1, <1>2
  <2> QED
    BY <2>1, <2>2
<1>8. Times(reported)' /\ Times(Append(reported, tick.ts))'
  BY <1>5, TimesGrow DEF BaselineInv
<1>9. CASE tick.mid = 0
  <2>1. baseline' = baseline
    BY <1>9 DEF E!RunBaselineBacktest
  <2>2. Times(baseline.alerts)'
    BY <2>1, <1>5, <1>8 DEF Times
  <2> QED
    BY <2>1, <2>2, <1>4, <1>5, <1>6, <1>7 DEF BaselineInv
<1>10. CASE tick.mid # 0
  <2> DEFINE fresh == tick.mid > peak \/ tick.ts > peakTs + PeakWindow
             p == IF fresh THEN tick.mid ELSE peak
             ts == IF fresh THEN tick.ts ELSE peakTs
             b == [peak |-> p, peakTs |-> ts, alerts |-> reported]
  <2>1. baseline' = IF ~E!Drops(b.peak, tick.mid) THEN b
                    ELSE [peak |-> tick.mid, peakTs |-> tick.ts, alerts |-> Append(b.alerts, tick.ts)]
    <3>1. b = IF tick.mid > baseline.peak \/ tick.ts > baseline.peakTs + PeakWindow
              THEN [baseline EXCEPT !.peak = tick.mid, !.peakTs = tick.ts] ELSE baseline
      BY <1>4, <1>5
    <3> HIDE DEF b
    <3> QED
      BY <3>1, <1>10 DEF E!RunBaselineBacktest
  <2>2. b.peak = p /\ b.alerts = reported
    OBVIOUS
  <2>3. p \in Nat /\ ts \in Nat /\ \E j \in 1..N' : day'[j].mid = p /\ day'[j].ts = ts
    <3>1. CASE fresh
      BY <3>1, <1>1, <1>3
    <3>2. CASE ~fresh
      <4>1. peak # 0
        BY <3>2, <1>1, <1>4, <1>10
      <4> QED
        BY <3>2, <4>1, <1>4, <1>6
    <3> QED
      BY <3>1, <3>2
  <2>4. CASE ~E!Drops(p, tick.mid)
    <3>1. baseline' = b
      BY <2>1, <2>2, <2>4
    <3>2. /\ baseline'.peak = p /\ baseline'.peakTs = ts /\ baseline'.alerts = reported
          /\ baseline' \in [peak : Nat, peakTs : Nat, alerts : Seq(Nat)]
      BY <3>1, <2>3, <1>4
    <3>3. Times(baseline.alerts)'
      BY <3>2, <1>8 DEF Times
    <3> HIDE DEF b, p, ts
    <3> QED
      BY <3>2, <3>3, <2>3, <1>7 DEF BaselineInv
  <2>5. CASE E!Drops(p, tick.mid)
    <3>1. ~fresh
      BY <2>5, <1>1, NothingDropsFromItself
    <3>2. peak # 0 /\ tick.ts <= peakTs + PeakWindow /\ E!Drops(peak, tick.mid)
      <4>1. p = peak /\ peak # 0
        BY <3>1, <1>1, <1>4, <1>10
      <4>2. PeakWindow \in Nat /\ peakTs \in Nat /\ tick.ts \in Nat
        BY <1>1, <1>4, OfflineAssumption
      <4>3. tick.ts <= peakTs + PeakWindow
        BY <3>1, <4>2
      <4> QED
        BY <4>1, <4>3, <2>5
    <3>3. Real(tick.ts)
      <4>1. PICK j \in 1..N : day[j].mid = peak /\ day[j].ts = peakTs
        BY <3>2, <1>5 DEF BaselineInv
      <4>2. j \in 1..N' /\ j < N + 1 /\ day'[j].mid = peak /\ day'[j].ts = peakTs
        BY <4>1, <1>1, <1>2
      <4> QED
        BY <4>2, <3>2, <1>1, <1>3, OfflineAssumption
    <3> DEFINE more == Append(reported, tick.ts)
    <3>4. /\ more \in Seq(Nat) /\ Len(more) = Len(reported) + 1 /\ Len(reported) \in Nat
          /\ more[Len(reported) + 1] = tick.ts
          /\ \A a \in 1..Len(reported) : more[a] = reported[a]
      BY <1>1, <1>4, AppendProperties, LenProperties
    <3>5. baseline' = [peak |-> tick.mid, peakTs |-> tick.ts, alerts |-> more]
      BY <2>1, <2>2, <2>5
    <3>8. Times(more)'
      BY <1>8
    <3> HIDE DEF more
    <3>6. /\ baseline'.peak = tick.mid /\ baseline'.peakTs = tick.ts /\ baseline'.alerts = more
          /\ baseline' \in [peak : Nat, peakTs : Nat, alerts : Seq(Nat)]
      BY <3>4, <3>5, <1>1
    <3>7. ASSUME NEW a \in 1..Len(more) PROVE Real(more[a])
      <4>1. a = Len(reported) + 1 \/ a \in 1..Len(reported)
        BY <3>4
      <4> HIDE DEF Real
      <4> QED
        BY <4>1, <3>3, <3>4, <1>7
    <3>9. Times(baseline.alerts)'
      BY <3>6, <3>8 DEF Times
    <3> QED
      BY <3>6, <3>7, <3>9, <1>1, <1>3 DEF BaselineInv
  <2> QED
    BY <2>4, <2>5
<1> QED
  BY <1>9, <1>10

\* A queue of at most n entries, the last of those that are appended.
Pushed(s, e, n) == IF Len(Append(s, e)) > n THEN Tail(Append(s, e)) ELSE Append(s, e)
LEMMA LastOnes ==
  ASSUME NEW S, NEW s \in Seq(S), NEW e \in S, NEW n \in Nat, n > 0, Len(s) <= n,
         NEW t, t = Pushed(s, e, n)
  PROVE  /\ t \in Seq(S) /\ Len(t) = (IF Len(s) < n THEN Len(s) + 1 ELSE n) /\ t[Len(t)] = e
         /\ \A k \in 1..(Len(t) - 1) : t[k] = s[k + (Len(s) + 1 - Len(t))]
<1>1. /\ Append(s, e) \in Seq(S) /\ Append(s, e) # <<>> /\ Len(Append(s, e)) = Len(s) + 1
      /\ Append(s, e)[Len(s) + 1] = e /\ \A i \in 1..Len(s) : Append(s, e)[i] = s[i] /\ Len(s) \in Nat
  BY AppendProperties, LenProperties
<1>2. Len(s) \in Nat
  BY LenProperties
<1>3. CASE Len(s) < n
  <2>1. t = Append(s, e) /\ Len(t) = Len(s) + 1
    BY <1>1, <1>2, <1>3 DEF Pushed
  <2>2. \A k \in 1..(Len(t) - 1) : k \in 1..Len(s) /\ k + (Len(s) + 1 - Len(t)) = k
    BY <2>1, <1>2
  <2>3. ASSUME NEW k \in 1..(Len(t) - 1) PROVE t[k] = s[k + (Len(s) + 1 - Len(t))]
    <3>1. k \in 1..Len(s) /\ k + (Len(s) + 1 - Len(t)) = k
      BY <2>2
    <3> QED
      BY <3>1, <2>1, <1>1
  <2> QED
    BY <1>1, <1>3, <2>1, <2>3
<1>4. CASE ~(Len(s) < n)
  <2>1. t = Tail(Append(s, e)) /\ Len(s) = n
    BY <1>1, <1>2, <1>4 DEF Pushed
  <2>2. t \in Seq(S) /\ Len(t) = n /\ \A i \in 1..n : t[i] = Append(s, e)[i + 1]
    BY <1>1, <1>2, <2>1, HeadTailProperties
  <2>3. t[Len(t)] = e
    BY <1>1, <2>1, <2>2
  <2>4. \A k \in 1..(n - 1) : k + 1 \in 1..n /\ k \in 1..n /\ k + (n + 1 - n) = k + 1
    OBVIOUS
  <2>5. ASSUME NEW k \in 1..(Len(t) - 1) PROVE t[k] = s[k + (Len(s) + 1 - Len(t))]
    <3>1. k \in 1..(n - 1) /\ k + (Len(s) + 1 - Len(t)) = k + (n + 1 - n)
      BY <2>1, <2>2
    <3>2. k + 1 \in 1..Len(s) /\ k \in 1..n /\ k + (n + 1 - n) = k + 1
      BY <3>1, <2>1, <2>4
    <3>3. t[k] = Append(s, e)[k + 1] /\ Append(s, e)[k + 1] = s[k + 1]
      BY <3>2, <2>2, <1>1
    <3> QED
      BY <3>1, <3>2, <3>3
  <2> QED
    BY <1>4, <2>2, <2>3, <2>5
<1> QED
  BY <1>3, <1>4

LEMMA RowStays ==
  ASSUME DayInv, NEW tick, Grown(tick), NEW row \in 1..N
  PROVE  RowOf(day', row) = RowOf(day, row)
<1>1. NormWindow \in Nat \ {0} /\ N \in Nat /\ row \in Nat
  BY DayTypes, OfflineAssumption
<1>2. \A g \in From(row)..row : g \in 1..N
  BY <1>1 DEF From
<1>3. \A g \in 1..N : day'[g] = day[g]
  BY DEF Grown
<1>4. (\E g \in From(row)..row : day'[g].mid = 0) <=> (\E g \in From(row)..row : day[g].mid = 0)
  BY <1>2, <1>3
<1> QED
  BY <1>4, Zenon DEF RowOf

LEMMA WindowKeeps ==
  ASSUME DayInv, WindowInv, NEW tick, Grown(tick), E!Stage3Feed(N + 1)
  PROVE  WindowInv'
<1>0. PICK m : m = N + 1
  OBVIOUS
<1>1. N \in Nat /\ N' = m /\ m = N + 1 /\ m \in Nat \ {0} /\ m \in Nat
  BY <1>0, DayTypes DEF Grown
<1>2. NormWindow \in Nat /\ NormWindow > 0 /\ WindowSize \in Nat /\ WindowSize > 0
  BY OfflineAssumption
<1> DEFINE h == IF Len(Append(hist, m)) > NormWindow THEN Tail(Append(hist, m)) ELSE Append(hist, m)
           row == [row |-> m, from |-> h[1], blind |-> \E i \in DOMAIN h : day'[h[i]].mid = 0]
           w == Append(window, row)
<1>3. /\ hist' = h
      /\ window' = IF Len(w) > WindowSize THEN Tail(w) ELSE w
      /\ online' = IF Len(window') = WindowSize THEN Append(online, window') ELSE online
  BY <1>0 DEF E!Stage3Feed
<1>10. hist' = Pushed(hist, m, NormWindow) /\ window' = Pushed(window, row, WindowSize)
  BY <1>3 DEF Pushed
<1>4. /\ hist \in Seq(Nat) /\ Len(hist) = (IF N < NormWindow THEN N ELSE NormWindow)
      /\ \A k \in 1..Len(hist) : hist[k] = N - Len(hist) + k
      /\ window \in Seq(Rows) /\ Len(window) = (IF N < WindowSize THEN N ELSE WindowSize)
      /\ \A k \in 1..Len(window) : window[k] = RowOf(day, N - Len(window) + k)
      /\ online \in Seq(Seq(Rows)) /\ Len(online) = (IF N < WindowSize THEN 0 ELSE N - WindowSize + 1)
      /\ \A j \in 1..Len(online) : online[j] = [k \in 1..WindowSize |-> RowOf(day, j + k - 1)]
  BY DEF WindowInv
<1>5. Len(hist) \in Nat /\ Len(window) \in Nat /\ Len(hist) <= NormWindow /\ Len(window) <= WindowSize
  BY <1>1, <1>2, <1>4
\* the history
<1>6. /\ hist' \in Seq(Nat) /\ Len(hist') = (IF m < NormWindow THEN m ELSE NormWindow)
      /\ \A k \in 1..Len(hist') : hist'[k] = m - Len(hist') + k
  <2> DEFINE S == Nat
  <2>0. hist \in Seq(S) /\ m \in S /\ Len(hist) <= NormWindow /\ hist' = Pushed(hist, m, NormWindow)
    BY <1>1, <1>10, <1>4, <1>5
  <2> HIDE DEF S
  <2>1. /\ hist' \in Seq(Nat) /\ Len(hist') = (IF Len(hist) < NormWindow THEN Len(hist) + 1 ELSE NormWindow)
        /\ hist'[Len(hist')] = m
        /\ \A k \in 1..(Len(hist') - 1) : hist'[k] = hist[k + (Len(hist) + 1 - Len(hist'))]
    <3>1. hist' \in Seq(S)
      BY <2>0, <1>2, LastOnes
    <3>2. Len(hist') = (IF Len(hist) < NormWindow THEN Len(hist) + 1 ELSE NormWindow)
      BY <2>0, <1>2, LastOnes
    <3>3. hist'[Len(hist')] = m
      BY <2>0, <1>2, LastOnes
    <3>4. \A k \in 1..(Len(hist') - 1) : hist'[k] = hist[k + (Len(hist) + 1 - Len(hist'))]
      BY <2>0, <1>2, LastOnes
    <3> QED
      BY <3>1, <3>2, <3>3, <3>4 DEF S
  <2>2. PICK n \in Nat : n = Len(hist')
    BY <2>1, <1>2, <1>5
  <2>3. n = (IF m < NormWindow THEN m ELSE NormWindow)
    BY <2>1, <2>2, <1>1, <1>2, <1>4
  <2>4. ASSUME NEW k \in 1..n PROVE hist'[k] = m - n + k
    <3>1. CASE k = n
      BY <3>1, <2>1, <2>2, <1>1
    <3>2. CASE k \in 1..(n - 1)
      <4>1. PICK i : i = k + (Len(hist) + 1 - n)
        OBVIOUS
      <4>2. hist'[k] = hist[i]
        BY <4>1, <3>2, <2>1, <2>2
      <4>3. i \in 1..Len(hist) /\ N - Len(hist) + i = m - n + k
        <5>1. n = Len(hist) + 1 \/ n = Len(hist)
          BY <2>1, <2>2, <1>2, <1>5
        <5> QED
          BY <5>1, <4>1, <3>2, <2>2, <1>1, <1>5
      <4> QED
        BY <4>2, <4>3, <1>4
    <3> QED
      BY <3>1, <3>2, <2>2
  <2> QED
    BY <2>1, <2>2, <2>3, <2>4
\* the row that is new
<1>7. row = RowOf(day', m) /\ row \in Rows
  <2>1. PICK n \in Nat : n = Len(hist')
    BY <1>6, <1>1, <1>2
  <2>2. /\ n = (IF m < NormWindow THEN m ELSE NormWindow) /\ n > 0 /\ n <= m
        /\ \A k \in 1..n : hist'[k] = m - n + k
    BY <2>1, <1>6, <1>1, <1>2
  <2>a. n > 0 /\ n <= m
    BY <2>2
  <2>b. \A k \in 1..n : hist'[k] = m - n + k
    BY <2>2
  <2>c. m \in Nat
    BY <1>1
  <2>3. DOMAIN hist' = 1..n
    BY <2>1, <1>6, LenProperties
  <2>4. From(m) = m - n + 1 /\ From(m) \in Nat
    BY <2>1, <2>2, <1>1, <1>2 DEF From
  <2>5. hist'[1] = From(m)
    BY <2>1, <2>2, <2>4
  <2>6. (\E i \in DOMAIN hist' : day'[hist'[i]].mid = 0) <=> \E g \in From(m)..m : day'[g].mid = 0
    <3>1. ASSUME NEW i \in 1..n, day'[hist'[i]].mid = 0 PROVE \E g \in From(m)..m : day'[g].mid = 0
      <4>1. hist'[i] = m - n + i
        BY <2>b
      <4>2. m - n + i \in From(m)..m
        BY <2>a, <2>c, <2>4
      <4> QED
        BY <4>1, <4>2, <3>1
    <3>2. ASSUME NEW g \in From(m)..m, day'[g].mid = 0 PROVE \E i \in 1..n : day'[hist'[i]].mid = 0
      <4>1. PICK i : i = g - (m - n)
        OBVIOUS
      <4>2. i \in 1..n /\ m - n + i = g
        BY <4>1, <2>a, <2>c, <2>4
      <4>3. hist'[i] = g
        BY <4>2, <2>b
      <4> QED
        BY <4>2, <4>3, <3>2
    <3> QED
      BY <2>3, <3>1, <3>2
  <2>7. row = [row |-> m, from |-> hist'[1], blind |-> \E i \in DOMAIN hist' : day'[hist'[i]].mid = 0]
    BY <1>3
  <2> HIDE DEF row
  <2>8. row = RowOf(day', m)
    BY <2>5, <2>6, <2>7, Zenon DEF RowOf
  <2>9. (\E g \in From(m)..m : day'[g].mid = 0) \in BOOLEAN
    OBVIOUS
  <2>10. row \in Rows
    BY <2>4, <2>8, <2>9, <1>1 DEF RowOf, Rows
  <2> QED
    BY <2>8, <2>10
<1> HIDE DEF row, h
\* the window
<1>8. /\ window' \in Seq(Rows) /\ Len(window') = (IF m < WindowSize THEN m ELSE WindowSize)
      /\ \A k \in 1..Len(window') : window'[k] = RowOf(day', m - Len(window') + k)
  <2>0. /\ window \in Seq(Rows) /\ row \in Rows /\ Len(window) <= WindowSize
        /\ window' = Pushed(window, row, WindowSize)
    BY <1>10, <1>4, <1>5, <1>7
  <2>1. /\ window' \in Seq(Rows)
        /\ Len(window') = (IF Len(window) < WindowSize THEN Len(window) + 1 ELSE WindowSize)
        /\ window'[Len(window')] = row
        /\ \A k \in 1..(Len(window') - 1) : window'[k] = window[k + (Len(window) + 1 - Len(window'))]
    <3>1. window' \in Seq(Rows)
      BY <2>0, <1>2, LastOnes
    <3>2. Len(window') = (IF Len(window) < WindowSize THEN Len(window) + 1 ELSE WindowSize)
      BY <2>0, <1>2, LastOnes
    <3>3. window'[Len(window')] = row
      BY <2>0, <1>2, LastOnes
    <3>4. \A k \in 1..(Len(window') - 1) : window'[k] = window[k + (Len(window) + 1 - Len(window'))]
      BY <2>0, <1>2, LastOnes
    <3> QED
      BY <3>1, <3>2, <3>3, <3>4
  <2>2. PICK n \in Nat : n = Len(window')
    BY <2>1, <1>2, <1>5
  <2>3. n = (IF m < WindowSize THEN m ELSE WindowSize)
    BY <2>1, <2>2, <1>1, <1>2, <1>4
  <2>4. ASSUME NEW k \in 1..n PROVE window'[k] = RowOf(day', m - n + k)
    <3>1. CASE k = n
      <4>1. m - n + k = m
        BY <3>1, <1>1, <2>2
      <4> QED
        BY <3>1, <4>1, <2>1, <2>2, <1>7
    <3>2. CASE k \in 1..(n - 1)
      <4>1. PICK i : i = k + (Len(window) + 1 - n)
        OBVIOUS
      <4>2. window'[k] = window[i]
        BY <4>1, <3>2, <2>1, <2>2
      <4>3. i \in 1..Len(window) /\ N - Len(window) + i = m - n + k
        <5>1. n = Len(window) + 1 \/ n = Len(window)
          BY <2>1, <2>2, <1>2, <1>5
        <5> QED
          BY <5>1, <4>1, <3>2, <2>2, <1>1, <1>5
      <4> QED
        <5>1. window[i] = RowOf(day, m - n + k)
          BY <4>3, <1>4
        <5>2. m - n + k \in 1..N
          BY <4>3, <3>2, <2>2, <2>3, <1>1, <1>2, <1>5
        <5> QED
          BY <4>2, <5>1, <5>2, RowStays
    <3> QED
      BY <3>1, <3>2, <2>2
  <2> QED
    BY <2>1, <2>2, <2>3, <2>4
\* what is scored
<1>11. ASSUME NEW j \in 1..Len(online)
       PROVE  online[j] = [k \in 1..WindowSize |-> RowOf(day', j + k - 1)]
  <2>1. \A k \in 1..WindowSize : j + k - 1 \in 1..N
    BY <1>1, <1>2, <1>4
  <2>2. \A k \in 1..WindowSize : RowOf(day', j + k - 1) = RowOf(day, j + k - 1)
    BY <2>1, RowStays
  <2> QED
    BY <2>2, <1>4
<1>9. /\ online' \in Seq(Seq(Rows)) /\ Len(online') = (IF m < WindowSize THEN 0 ELSE m - WindowSize + 1)
      /\ \A j \in 1..Len(online') : online'[j] = [k \in 1..WindowSize |-> RowOf(day', j + k - 1)]
  <2>1. CASE m < WindowSize
    <3>1. online' = online /\ Len(online) = 0
      BY <2>1, <1>1, <1>2, <1>3, <1>4, <1>8
    <3> QED
      BY <3>1, <2>1, <1>4, <1>11
  <2>2. CASE ~(m < WindowSize)
    <3>1. Len(window') = WindowSize /\ Len(online) = m - WindowSize /\ Len(online) \in Nat
      BY <2>2, <1>1, <1>2, <1>4, <1>8
    <3>2. online' = Append(online, window')
      BY <3>1, <1>3
    <3>3. /\ online' \in Seq(Seq(Rows)) /\ Len(online') = Len(online) + 1
          /\ online'[Len(online) + 1] = window' /\ \A j \in 1..Len(online) : online'[j] = online[j]
      BY <3>2, <1>4, <1>8, AppendProperties
    <3>4. window' = [k \in 1..WindowSize |-> RowOf(day', (Len(online) + 1) + k - 1)]
      <4>1. DOMAIN window' = 1..WindowSize /\ window' = [k \in DOMAIN window' |-> window'[k]]
        BY <3>1, <1>8, LenProperties, SeqDef
      <4>2. \A k \in 1..WindowSize : window'[k] = RowOf(day', (Len(online) + 1) + k - 1)
        <5>1. \A k \in 1..WindowSize : m - WindowSize + k = (Len(online) + 1) + k - 1
          BY <3>1, <1>1, <1>2
        <5> QED
          BY <5>1, <3>1, <1>8
      <4> QED
        BY <4>1, <4>2
    <3>5. ASSUME NEW j \in 1..Len(online')
          PROVE  online'[j] = [k \in 1..WindowSize |-> RowOf(day', j + k - 1)]
      <4>1. j = Len(online) + 1 \/ j \in 1..Len(online)
        BY <3>1, <3>3
      <4>2. CASE j = Len(online) + 1
        BY <4>2, <3>3, <3>4
      <4>3. CASE j \in 1..Len(online)
        BY <4>3, <3>3, <1>11
      <4> QED
        BY <4>1, <4>2, <4>3
    <3> QED
      BY <2>2, <3>1, <3>3, <3>5
  <2> QED
    BY <2>1, <2>2
<1> QED
  BY <1>1, <1>6, <1>8, <1>9 DEF WindowInv

-----------------------------------------------------------------------------
(***************************************************************************)
(* What the invariant says of a day.                                        *)
(***************************************************************************)
LEMMA LeastOf ==
  ASSUME NEW T \in SUBSET Nat, T # {}
  PROVE  \E x \in T : \A y \in T : x <= y
<1> DEFINE R == {ss \in Nat \X Nat : ss[1] < ss[2]}
<1>1. IsWellFoundedOn(R, Nat)
  BY NatLessThanWellFounded DEF OpToRel
<1> HIDE DEF R
<1>2. PICK x \in T : \A y \in T : ~(<<y, x>> \in R)
  BY <1>1, WFMin
<1>3. \A y \in T : ~(y < x)
  <2>1. \A y \in Nat : y < x => <<y, x>> \in R
    BY DEF R
  <2> QED
    BY <2>1, <1>2
<1> QED
  BY <1>2, <1>3

LEMMA MinIsLeast ==
  ASSUME NEW S \in SUBSET Nat, S # {}
  PROVE  E!Min(S) \in S /\ \A y \in S : E!Min(S) <= y
  BY LeastOf DEF E!Min

LEMMA MaxIsGreatest ==
  ASSUME NEW n \in Nat, NEW S \in SUBSET (1..n), S # {}
  PROVE  E!Max(S) \in S /\ \A y \in S : y <= E!Max(S)
<1> DEFINE T == {n - y : y \in S}
<1>1. T \in SUBSET Nat /\ T # {}
  <2>1. \A y \in S : y \in 1..n /\ n - y \in Nat
    OBVIOUS
  <2> QED
    BY <2>1
<1>2. PICK z \in T : \A y \in T : z <= y
  BY <1>1, LeastOf
<1>3. PICK x \in S : z = n - x
  OBVIOUS
<1>4. \A y \in S : x >= y
  <2> SUFFICES ASSUME NEW y \in S PROVE x >= y
    OBVIOUS
  <2>1. n - y \in T
    OBVIOUS
  <2>2. n - x <= n - y
    BY <2>1, <1>2, <1>3
  <2>3. x \in Nat /\ y \in Nat
    OBVIOUS
  <2> QED
    BY <2>2, <2>3
<1>5. E!Max(S) \in S /\ \A y \in S : E!Max(S) >= y
  <2>1. \E m \in S : \A y \in S : m >= y
    BY <1>4
  <2> QED
    BY <2>1 DEF E!Max
<1>6. \A y \in S : y \in Nat
  <2>1. \A y \in S : y \in 1..n
    OBVIOUS
  <2> QED
    BY <2>1
<1> QED
  BY <1>5, <1>6

LEMMA DayHasTypes == EvaluationInv => E!TypeOK
<1> SUFFICES ASSUME EvaluationInv PROVE E!TypeOK
  OBVIOUS
<1>1. N \in Nat /\ E!N = N /\ N <= MaxTicks
  BY DayTypes DEF EvaluationInv, DayInv
<1>2. Len(alerts) <= N /\ Len(crashes) <= N
  BY DEF EvaluationInv, AlertsInv, CrashesInv
<1>3. swing.inCrash => swing.trough > 0 /\ swing.trough < swing.peak
  BY DEF EvaluationInv, SwingInv
<1>4. Len(hist) <= NormWindow /\ Len(window) <= WindowSize
  BY <1>1, OfflineAssumption DEF EvaluationInv, WindowInv
<1> QED
  BY <1>1, <1>2, <1>3, <1>4 DEF E!TypeOK

LEMMA DropsHappened == EvaluationInv => E!DetectedDropsAreReal
<1> SUFFICES ASSUME EvaluationInv PROVE E!DetectedDropsAreReal
  OBVIOUS
<1>1. N \in Nat /\ E!N = N
  BY DayTypes DEF EvaluationInv
<1>2. /\ crashes \in Seq(CrashEvents) /\ Len(crashes) \in Nat /\ DOMAIN crashes = 1..Len(crashes)
      /\ \A i \in 1..Len(crashes) : \E p, q \in 1..N : E!Descent(crashes[i], p, q)
      /\ \A i \in 2..Len(crashes) : Apart(crashes[i - 1], crashes[i].start)
      /\ Len(crashes) > 0 => Apart(crashes[Len(crashes)], swing.peakTs)
  BY LenProperties DEF EvaluationInv, CrashesInv
<1>3. /\ \A i \in DOMAIN E!Events : \E p, q \in 1..N : E!Descent(E!Events[i], p, q)
      /\ \A i \in 2..Len(E!Events) : Apart(E!Events[i - 1], E!Events[i].start)
  <2>1. CASE ~swing.inCrash
    <3>1. E!Events = crashes
      BY <2>1 DEF E!Events
    <3> QED
      BY <3>1, <1>2
  <2>2. CASE swing.inCrash
    <3>1. PICK ev : ev = E!Event(swing)
      OBVIOUS
    <3>2. ev \in CrashEvents /\ ev.start = swing.peakTs
      BY <3>1 DEF EvaluationInv, SwingInv, E!Event, CrashEvents
    <3> DEFINE es == Append(crashes, ev)
               n == Len(crashes)
    <3>3. E!Events = es
      BY <2>2, <3>1 DEF E!Events
    <3>4. /\ es \in Seq(CrashEvents) /\ Len(es) = n + 1 /\ es[n + 1] = ev
          /\ \A i \in 1..n : es[i] = crashes[i]
      BY <3>2, <1>2, AppendProperties
    <3>5. DOMAIN es = 1..(n + 1) /\ n \in Nat
      BY <3>4, <1>2, LenProperties
    <3>6. \E p, q \in 1..N : E!Descent(ev, p, q)
      BY <2>2, <3>1 DEF EvaluationInv, SwingInv, Falling
    <3> HIDE DEF es
    <3>7. ASSUME NEW i \in DOMAIN es PROVE \E p, q \in 1..N : E!Descent(es[i], p, q)
      <4>1. i = n + 1 \/ i \in 1..n
        BY <3>5
      <4> QED
        BY <4>1, <3>4, <3>6, <1>2
    <3>8. ASSUME NEW i \in 2..Len(es) PROVE Apart(es[i - 1], es[i].start)
      <4>1. CASE i = n + 1
        <5>1. n > 0 /\ i - 1 = n /\ n \in 1..n
          BY <4>1, <3>4, <3>5
        <5> QED
          BY <4>1, <5>1, <3>2, <3>4, <1>2
      <4>2. CASE i # n + 1
        <5>1. i \in 2..n /\ i \in 1..n /\ i - 1 \in 1..n
          BY <4>2, <3>4, <3>5
        <5> QED
          BY <5>1, <3>4, <1>2
      <4> QED
        BY <4>1, <4>2
    <3> QED
      BY <3>3, <3>7, <3>8
  <2> QED
    BY <2>1, <2>2
<1>4. E!LabelsAreDescents
  BY <1>1, <1>3 DEF E!LabelsAreDescents, Apart
<1>5. E!BaselineAlertsAreDrops
  <2>1. baseline.alerts \in Seq(Nat)
    BY DEF EvaluationInv, BaselineInv
  <2>2. DOMAIN baseline.alerts = 1..Len(baseline.alerts)
    BY <2>1, LenProperties
  <2> QED
    BY <2>2, <1>1 DEF EvaluationInv, BaselineInv, E!BaselineAlertsAreDrops
<1> QED
  BY <1>4, <1>5 DEF E!DetectedDropsAreReal

LEMMA BatchedIsOnline == EvaluationInv => E!OfflineMatchesOnline
<1> SUFFICES ASSUME EvaluationInv PROVE E!OfflineMatchesOnline
  OBVIOUS
<1>1. N \in Nat /\ E!N = N /\ WindowSize \in Nat \ {0} /\ NormWindow \in Nat \ {0}
  BY DayTypes, OfflineAssumption DEF EvaluationInv
<1>2. /\ online \in Seq(Seq(Rows)) /\ Len(online) = (IF N < WindowSize THEN 0 ELSE N - WindowSize + 1)
      /\ \A j \in 1..Len(online) : online[j] = [k \in 1..WindowSize |-> RowOf(day, j + k - 1)]
  BY DEF EvaluationInv, WindowInv
<1>5. ASSUME E!Scorable, NEW row \in 1..N PROVE RowOf(day, row) = E!NormalizeZ(row)
  <2>1. \A g \in From(row)..row : g \in 1..N
    BY <1>1 DEF From
  <2>2. ~\E g \in From(row)..row : day[g].mid = 0
    BY <2>1, <1>1, <1>5 DEF E!Scorable, E!Gap
  <2> QED
    BY <2>2 DEF RowOf, From, E!NormalizeZ
<1>3. ASSUME E!Scorable, N >= WindowSize PROVE online = E!WindowsOf(N)
  <2>1. Len(online) = N - WindowSize + 1
    BY <1>1, <1>2, <1>3
  <2>2. online = [j \in 1..Len(online) |-> online[j]]
    <3>1. PICK n \in Nat : online \in [1..n -> Seq(Rows)]
      BY <1>2, SeqDef
    <3>2. DOMAIN online = 1..Len(online)
      BY <1>2, LenProperties
    <3> QED
      BY <3>1, <3>2
  <2>3. ASSUME NEW j \in 1..(N - WindowSize + 1)
        PROVE  online[j] = [k \in 1..WindowSize |-> E!NormalizeZ(j + k - 1)]
    <3>1. online[j] = [k \in 1..WindowSize |-> RowOf(day, j + k - 1)]
      BY <2>1, <1>2
    <3>2. \A k \in 1..WindowSize : j + k - 1 \in 1..N
      BY <1>1
    <3>3. \A k \in 1..WindowSize : RowOf(day, j + k - 1) = E!NormalizeZ(j + k - 1)
      BY <3>2, <1>3, <1>5
    <3> QED
      BY <3>1, <3>3
  <2>4. online = [j \in 1..(N - WindowSize + 1) |-> [k \in 1..WindowSize |-> E!NormalizeZ(j + k - 1)]]
    BY <2>1, <2>2, <2>3
  <2> QED
    BY <2>4 DEF E!WindowsOf
<1>4. (N > WindowSize => N >= WindowSize /\ ~(N <= WindowSize)) /\ (N >= WindowSize => ~(N < WindowSize))
  BY <1>1
<1>6. ASSUME NEW scores \in E!Stage3ScoresBatched, N > WindowSize PROVE scores = online
  BY <1>1, <1>3, <1>4, <1>6 DEF E!Stage3ScoresBatched, E!OfDay
<1>7. ASSUME NEW scores \in E!ScoreWindows, N >= WindowSize PROVE scores = online
  BY <1>1, <1>3, <1>4, <1>7 DEF E!ScoreWindows, E!OfDay
<1>8. ASSUME NEW j \in DOMAIN online, NEW k \in DOMAIN online[j]
      PROVE  online[j][k].blind <=> \E g \in online[j][k].from..online[j][k].row : E!Gap(g)
  <2>1. j \in 1..Len(online)
    BY <1>2, LenProperties
  <2>2. online[j] = [i \in 1..WindowSize |-> RowOf(day, j + i - 1)]
    BY <2>1, <1>2
  <2>3. online[j][k] = RowOf(day, j + k - 1)
    BY <2>2, <1>8
  <2>4. PICK r : r = j + k - 1
    OBVIOUS
  <2>5. online[j][k] = [row |-> r, from |-> From(r), blind |-> \E g \in From(r)..r : day[g].mid = 0]
    BY <2>3, <2>4 DEF RowOf
  <2> QED
    BY <2>5 DEF E!Gap
<1> QED
  BY <1>1, <1>6, <1>7, <1>8 DEF E!OfflineMatchesOnline

\* The last tick up to the horizon: the ticks after the window up to it are
\* those the horizon takes in.
LEMMA UpToTheHorizon ==
  ASSUME DayInv, NEW e \in 1..N
  PROVE  \A i \in (e + 1)..N : i \in (e + 1)..E!UpTo(e) <=> day[i].ts <= E!Horizon(e)
<1> DEFINE S == {i \in 1..N : day[i].ts <= E!Horizon(e)}
           u == E!UpTo(e)
<1>1. N \in Nat /\ E!N = N /\ \A i \in 1..N : day[i].ts \in Nat
  BY DayTypes
<1>2. E!Horizon(e) \in Nat /\ day[e].ts <= E!Horizon(e)
  BY <1>1, OfflineAssumption DEF E!Horizon
<1>3. S \in SUBSET (1..N) /\ S # {}
  BY <1>2
<1>4. u \in S /\ \A y \in S : y <= u
  BY <1>1, <1>3, MaxIsGreatest DEF E!UpTo
<1>5. u \in 1..N /\ day[u].ts <= E!Horizon(e)
  BY <1>4
<1> SUFFICES ASSUME NEW i \in (e + 1)..N
             PROVE  i \in (e + 1)..u <=> day[i].ts <= E!Horizon(e)
  OBVIOUS
<1> HIDE DEF u
<1>6. i \in 1..N
  BY <1>1
<1>7. ASSUME day[i].ts <= E!Horizon(e) PROVE i \in (e + 1)..u
  <2>1. i <= u
    BY <1>4, <1>6, <1>7
  <2> QED
    BY <2>1, <1>1, <1>5
<1>8. ASSUME i \in (e + 1)..u PROVE day[i].ts <= E!Horizon(e)
  <2>1. i <= u
    BY <1>8
  <2>2. day[i].ts <= day[u].ts
    BY <2>1, <1>5, <1>6 DEF DayInv
  <2> QED
    BY <2>2, <1>1, <1>2, <1>5, <1>6
<1> QED
  BY <1>7, <1>8

LEMMA ClockLabels ==
  ASSUME DayInv, NEW e \in 1..N
  PROVE  E!Label(e, E!UpTo(e)) <=>
           \E i \in (e + 1)..N : day[i].ts <= E!Horizon(e) /\ E!Drops(day[e].mid, day[i].mid)
<1>1. N \in Nat /\ E!N = N /\ \A i \in 1..N : day[i].mid \in Nat /\ day[i].ts \in Nat
  BY DayTypes
<1>2. \A i \in (e + 1)..N : i \in (e + 1)..E!UpTo(e) <=> day[i].ts <= E!Horizon(e)
  BY UpToTheHorizon
<1>3. \A i \in (e + 1)..E!UpTo(e) : i \in (e + 1)..N
  <2> DEFINE S == {i \in 1..N : day[i].ts <= E!Horizon(e)}
  <2>1. S \in SUBSET (1..N) /\ S # {}
    <3>1. day[e].ts <= E!Horizon(e)
      BY <1>1, OfflineAssumption DEF E!Horizon
    <3> QED
      BY <3>1
  <2>2. E!UpTo(e) \in 1..N
    BY <2>1, <1>1, MaxIsGreatest DEF E!UpTo
  <2> QED
    BY <2>2, <1>1
<1>4. \A i \in (e + 1)..N : i \in 1..N /\ (E!Drops(day[e].mid, day[i].mid) => day[e].mid > 0)
  BY <1>1 DEF E!Drops
<1> QED
  BY <1>2, <1>3, <1>4 DEF E!Label

\* A price of 0, of a book without a side, is a drop below any other.
LEMMA FallsAreDrops ==
  ASSUME NEW e, NEW i, day[e].mid \in Nat, day[i].mid \in Nat
  PROVE  E!Falls(e, i) <=> E!Drops(day[e].mid, day[i].mid)
<1>1. CrashPct \in 0..100
  BY OfflineAssumption
<1>2. PICK from \in Nat, to \in Nat : from = day[e].mid /\ to = day[i].mid
  OBVIOUS
<1>3. CrashPct * from <= 100 * from
  BY <1>1
<1>4. from # 0 /\ to = 0 => (from - to) * 100 >= CrashPct * from /\ from > to
  BY <1>1, <1>3
<1>5. from > to => from # 0
  OBVIOUS
<1> QED
  BY <1>2, <1>4, <1>5 DEF E!Falls, E!Gap, E!Drops

LEMMA LabelsFollow == EvaluationInv => E!LabelsLookAhead
<1> SUFFICES ASSUME EvaluationInv PROVE E!LabelsLookAhead
  OBVIOUS
<1>1. DayInv
  BY DEF EvaluationInv
<1>2. /\ N \in Nat /\ E!N = N /\ WindowSize \in Nat /\ WindowSize > 0 /\ Lookahead \in Nat
      /\ \A i \in 1..N : day[i].mid \in Nat
  BY <1>1, DayTypes, OfflineAssumption
<1>3. E!WallClockLabels
  <2> DEFINE follows(e) == \E i \in (e + 1)..N : day[i].ts <= E!Horizon(e) /\ E!Falls(e, i)
  <2>1. ASSUME NEW e \in E!Ends PROVE E!Label(e, E!UpTo(e)) <=> follows(e)
    <3>1. e \in 1..N
      BY <1>2 DEF E!Ends
    <3>2. \A i \in (e + 1)..N : i \in 1..N
      BY <3>1, <1>2
    <3>3. \A i \in (e + 1)..N : E!Falls(e, i) <=> E!Drops(day[e].mid, day[i].mid)
      BY <3>1, <3>2, <1>2, FallsAreDrops
    <3> QED
      BY <3>1, <3>3, <1>1, ClockLabels
  <2>2. ASSUME NEW e \in DOMAIN E!LabelWindows PROVE E!LabelWindows[e] <=> follows(e)
    <3>1. e \in E!Ends /\ E!LabelWindows[e] = E!Label(e, E!UpTo(e))
      BY DEF E!LabelWindows
    <3> QED
      BY <3>1, <2>1
  <2>3. ASSUME NEW normal \in BOOLEAN, NEW labels \in E!BuildCorrectedWindows(normal), NEW e \in DOMAIN labels
        PROVE  labels[e] <=> ~normal /\ follows(e)
    <3>1. labels = [x \in E!Ends |-> ~normal /\ E!Label(x, E!UpTo(x))]
      BY DEF E!BuildCorrectedWindows, E!OfDay
    <3>2. e \in E!Ends /\ (labels[e] <=> ~normal /\ E!Label(e, E!UpTo(e)))
      BY <3>1
    <3> QED
      BY <3>2, <2>1
  <2> QED
    BY <2>2, <2>3, <1>2 DEF E!WallClockLabels
<1>4. E!TickLabelsFollowMagnitude
  <2> SUFFICES ASSUME NEW ticks \in 1..MaxTicks, NEW further \in 1..MaxTicks,
                      NEW targets \in E!BuildFromParquet(further),
                      NEW e \in DOMAIN E!BuildWindows(ticks) \cap DOMAIN targets
               PROVE  /\ ticks <= further /\ E!BuildWindows(ticks)[e] => E!Drops(day[e].mid, targets[e])
                      /\ further <= ticks /\ E!Drops(day[e].mid, targets[e]) => E!BuildWindows(ticks)[e]
    BY DEF E!TickLabelsFollowMagnitude
  <2> DEFINE near == (e + 1)..(e + ticks)
             ahead == (e + 1)..(e + further)
             S == {day[e].mid} \cup {day[i].mid : i \in ahead}
  <2>0. ticks \in Nat /\ further \in Nat
    BY OfflineAssumption
  <2>1. e \in E!Ends /\ e < N - ticks /\ E!BuildWindows(ticks)[e] = E!Label(e, e + ticks)
    BY <1>2 DEF E!BuildWindows
  <2>2. e \in WindowSize..N /\ e + further <= N /\ targets[e] = E!Min(S)
    BY <1>2 DEF E!BuildFromParquet, E!OfDay
  <2>3. e \in 1..N /\ (\A i \in near : i \in 1..N) /\ \A i \in ahead : i \in 1..N
    BY <2>0, <2>1, <2>2, <1>2
  <2>4. S \in SUBSET Nat /\ S # {}
    BY <2>3, <1>2
  <2>5. E!Min(S) \in S /\ \A y \in S : E!Min(S) <= y
    BY <2>4, MinIsLeast
  <2>6. PICK m \in Nat : m = E!Min(S)
    BY <2>4, <2>5
  <2>7. ASSUME NEW i \in ahead, E!Drops(day[e].mid, day[i].mid) PROVE E!Drops(day[e].mid, m)
    BY <2>3, <2>5, <2>6, <2>7, <1>2, DropsFurther
  <2>8. ASSUME E!Drops(day[e].mid, m) PROVE day[e].mid > 0 /\ \E i \in ahead : E!Drops(day[e].mid, day[i].mid)
    <3>1. m # day[e].mid /\ day[e].mid > 0
      BY <2>3, <2>6, <2>8, <1>2 DEF E!Drops
    <3>2. PICK i \in ahead : m = day[i].mid
      BY <3>1, <2>5, <2>6
    <3> QED
      BY <3>1, <3>2, <2>8
  <2>9. E!BuildWindows(ticks)[e] <=> day[e].mid > 0 /\ \E i \in near : E!Drops(day[e].mid, day[i].mid)
    BY <2>1 DEF E!Label
  <2>10. /\ ticks <= further => \A i \in near : i \in ahead
         /\ further <= ticks => \A i \in ahead : i \in near
    BY <2>0, <2>3
  <2>11. targets[e] = m
    BY <2>2, <2>6
  <2> HIDE DEF S, ahead, near
  <2>12. ASSUME ticks <= further, E!BuildWindows(ticks)[e] PROVE E!Drops(day[e].mid, targets[e])
    BY <2>7, <2>9, <2>10, <2>11, <2>12
  <2>13. ASSUME further <= ticks, E!Drops(day[e].mid, targets[e]) PROVE E!BuildWindows(ticks)[e]
    BY <2>8, <2>9, <2>10, <2>11, <2>13
  <2> QED
    BY <2>12, <2>13
<1> QED
  BY <1>3, <1>4 DEF E!LabelsLookAhead

-----------------------------------------------------------------------------
(***************************************************************************)
(* The metrics.  Alerts claim events one after the other, each the first    *)
(* that is free (match_alerts_to_crashes); m[j] is what the first j of them *)
(* have claimed.                                                            *)
(***************************************************************************)
Places == 1..Len(E!Events)
Near(ts, j, i) == E!Within(ts[j], E!Events[i], Grace)
Claims(m, ts) == m[0] = {} /\ \A j \in 1..Len(ts) : m[j] = E!Claim(m[j - 1], ts[j])

EventsInOrder ==
  /\ E!Events \in Seq(CrashEvents)
  /\ \A i, j \in Places : i <= j => /\ E!Events[i].start <= E!Events[j].start
                                     /\ E!Events[i].end <= E!Events[j].end

\* The function that a fold over sequences chooses, here for sets of places of
\* at most n.
IsFold(g, n, ts) ==
  g = [s \in SUBSET (1..n) |-> IF s = {} THEN {}
                               ELSE LET x == E!Max(s) IN E!Claim(g[s \ {x}], ts[x])]

\* It exists for every n: a set that has n + 1 goes by what is left without it.
LEMMA FoldGrows ==
  ASSUME NEW n \in Nat, NEW ts, NEW g, IsFold(g, n, ts)
  PROVE  \E h : IsFold(h, n + 1, ts)
<1> DEFINE h == [s \in SUBSET (1..(n + 1)) |->
                   IF n + 1 \in s THEN E!Claim(g[s \ {n + 1}], ts[n + 1]) ELSE g[s]]
           Body(f, s) == IF s = {} THEN {} ELSE LET x == E!Max(s) IN E!Claim(f[s \ {x}], ts[x])
<1>1. \A s \in SUBSET (1..n) : s \in SUBSET (1..(n + 1)) /\ n + 1 \notin s /\ h[s] = g[s]
  OBVIOUS
<1>2. ASSUME NEW s \in SUBSET (1..(n + 1)) PROVE h[s] = Body(h, s)
  <2>1. CASE s = {}
    <3>1. s \in SUBSET (1..n)
      BY <2>1
    <3>2. h[s] = g[s]
      BY <3>1, <1>1
    <3>3. g[s] = {}
      BY <3>1, <2>1 DEF IsFold
    <3> QED
      BY <3>2, <3>3, <2>1
  <2>2. CASE s # {}
    <3>1. E!Max(s) \in s /\ \A y \in s : y <= E!Max(s)
      <4>1. PICK k \in Nat : k = n + 1
        OBVIOUS
      <4>2. s \in SUBSET (1..k)
        BY <4>1
      <4> QED
        BY <4>2, <2>2, MaxIsGreatest
    <3>2. CASE n + 1 \in s
      <4>1. E!Max(s) = n + 1
        <5>1. E!Max(s) \in 1..(n + 1) /\ n + 1 <= E!Max(s)
          BY <3>1, <3>2
        <5> QED
          BY <5>1
      <4>2. s \ {n + 1} \in SUBSET (1..n)
        OBVIOUS
      <4>3. h[s \ {n + 1}] = g[s \ {n + 1}]
        BY <4>2, <1>1
      <4>4. h[s] = E!Claim(g[s \ {n + 1}], ts[n + 1])
        BY <3>2
      <4> HIDE DEF h
      <4> QED
        BY <4>1, <4>3, <4>4, <2>2
    <3>3. CASE n + 1 \notin s
      <4>1. s \in SUBSET (1..n)
        BY <3>3
      <4>2. s \ {E!Max(s)} \in SUBSET (1..n)
        BY <4>1
      <4>3. h[s] = g[s] /\ h[s \ {E!Max(s)}] = g[s \ {E!Max(s)}]
        BY <4>1, <4>2, <1>1
      <4>4. g[s] = Body(g, s)
        BY <4>1 DEF IsFold
      <4> HIDE DEF h
      <4> QED
        BY <4>3, <4>4, <2>2
    <3> QED
      BY <3>2, <3>3
  <2> QED
    BY <2>1, <2>2
<1>3. h = [s \in SUBSET (1..(n + 1)) |-> Body(h, s)]
  <2>1. h = [s \in SUBSET (1..(n + 1)) |-> h[s]]
    OBVIOUS
  <2> HIDE DEF h, Body
  <2> QED
    BY <2>1, <1>2
<1>4. IsFold(h, n + 1, ts)
  <2> HIDE DEF h
  <2> QED
    BY <1>3 DEF IsFold
<1> QED
  BY <1>4

\* Were there an n without, its least would be one more than an n with.
LEMMA FoldExists ==
  ASSUME NEW ts, NEW n \in Nat
  PROVE  \E g : IsFold(g, n, ts)
<1> DEFINE Bad == {k \in Nat : ~\E g : IsFold(g, k, ts)}
<1>1. 0 \notin Bad
  <2> DEFINE g == [s \in SUBSET (1..0) |-> {}]
  <2>1. \A s \in SUBSET (1..0) : s = {}
    OBVIOUS
  <2>2. g = [s \in SUBSET (1..0) |-> IF s = {} THEN {} ELSE LET x == E!Max(s) IN E!Claim(g[s \ {x}], ts[x])]
    BY <2>1
  <2>3. IsFold(g, 0, ts)
    <3> HIDE DEF g
    <3> QED
      BY <2>2 DEF IsFold
  <2> QED
    BY <2>3
<1>2. ASSUME NEW k \in Bad PROVE FALSE
  <2>1. PICK x \in Bad : \A y \in Bad : x <= y
    BY <1>2, LeastOf
  <2>2. x # 0 /\ x \in Nat
    BY <1>1
  <2>3. PICK y \in Nat : x = y + 1
    BY <2>2
  <2>4. y \notin Bad
    BY <2>1, <2>3
  <2>5. \E g : IsFold(g, y, ts)
    BY <2>4
  <2>6. \E g : IsFold(g, x, ts)
    BY <2>3, <2>5, FoldGrows
  <2> QED
    BY <2>6
<1> QED
  BY <1>2

\* What the fold of the source's loop over the alerts returns.
LEMMA ClaimsExist ==
  ASSUME NEW ts \in Seq(Nat)
  PROVE  \E m : Claims(m, ts) /\ E!FoldLeft(E!Claim, {}, ts) = m[Len(ts)]
<1> DEFINE n == Len(ts)
           iter == CHOOSE g : IsFold(g, n, ts)
           m == [j \in 0..n |-> iter[1..j]]
<1>1. n \in Nat /\ DOMAIN ts = 1..n
  BY LenProperties
<1>2. IsFold(iter, n, ts)
  BY <1>1, FoldExists
<1>3. E!FoldLeft(E!Claim, {}, ts) = iter[1..n]
  <2>1. E!FoldLeft(E!Claim, {}, ts) =
          (CHOOSE g : g = [s \in SUBSET (DOMAIN ts) |->
             IF s = {} THEN {} ELSE LET x == E!Max(s) IN E!Claim(g[s \ {x}], ts[x])])[DOMAIN ts]
    BY DEF E!FoldLeft, E!MapThenFoldSet
  <2> QED
    BY <2>1, <1>1 DEF IsFold
<1> HIDE DEF iter, n
<1>4. ASSUME NEW j \in 1..n PROVE iter[1..j] = E!Claim(iter[1..(j - 1)], ts[j])
  <2> DEFINE s == 1..j
  <2>1. s \in SUBSET (1..n) /\ j \in s /\ s \ {j} = 1..(j - 1)
    BY <1>1
  <2>2. E!Max(s) = j
    <3>1. E!Max(s) \in s /\ \A y \in s : y <= E!Max(s)
      <4>1. s # {}
        BY <2>1
      <4> HIDE DEF s
      <4> QED
        BY <4>1, <2>1, <1>1, MaxIsGreatest
    <3> QED
      BY <3>1, <1>1
  <2>3. iter[s] = E!Claim(iter[s \ {j}], ts[j])
    <3> HIDE DEF s
    <3>1. s # {}
      BY <2>1
    <3> QED
      BY <3>1, <2>1, <2>2, <1>2 DEF IsFold
  <2> QED
    BY <2>1, <2>3
<1>5. iter[1..0] = {}
  <2>1. {} \in SUBSET (1..n) /\ 1..0 = {}
    OBVIOUS
  <2> QED
    BY <2>1, <1>2 DEF IsFold
<1>6. Claims(m, ts)
  <2>1. m[0] = {}
    BY <1>1, <1>5
  <2>2. \A j \in 1..n : m[j] = E!Claim(m[j - 1], ts[j])
    <3> SUFFICES ASSUME NEW j \in 1..n PROVE m[j] = E!Claim(m[j - 1], ts[j])
      OBVIOUS
    <3>1. j \in 0..n /\ j - 1 \in 0..n
      BY <1>1
    <3>2. m[j] = iter[1..j] /\ m[j - 1] = iter[1..(j - 1)]
      BY <3>1
    <3> HIDE DEF m
    <3> QED
      BY <3>2, <1>4
  <2> HIDE DEF m
  <2> QED
    BY <2>1, <2>2 DEF Claims, n
<1>7. m[n] = iter[1..n]
  BY <1>1
<1> HIDE DEF m
<1> QED
  BY <1>3, <1>6, <1>7 DEF n

\* With alert j, i is claimed: the first event it is near of those that are free.
Takes(m, ts, j, i) ==
  /\ j \in 1..Len(ts) /\ i \in Places \ m[j - 1] /\ Near(ts, j, i) /\ m[j] = m[j - 1] \cup {i}
  /\ \A k \in Places \ m[j - 1] : Near(ts, j, k) => i <= k
\* All the events that alert j is near have been claimed.
Passes(m, ts, j) == m[j] = m[j - 1] /\ \A i \in Places : Near(ts, j, i) => i \in m[j - 1]

\* The types of the events and of their places.
LEMMA PlacesAre ==
  ASSUME EventsInOrder
  PROVE  /\ Len(E!Events) \in Nat /\ Places = DOMAIN E!Events
         /\ \A i \in Places : i \in Nat /\ E!Events[i].start \in Nat /\ E!Events[i].end \in Nat
<1>1. Len(E!Events) \in Nat /\ Places = DOMAIN E!Events
  BY LenProperties DEF EventsInOrder, Places
<1>2. \A i \in Places : E!Events[i] \in CrashEvents
  BY ElementOfSeq DEF EventsInOrder, Places
<1>3. \A i \in Places : i \in Nat
  BY <1>1 DEF Places
<1> QED
  BY <1>1, <1>2, <1>3 DEF CrashEvents

LEMMA TakesOrPasses ==
  ASSUME EventsInOrder, NEW ts, NEW m, Claims(m, ts), NEW j \in 1..Len(ts)
  PROVE  (\E i : Takes(m, ts, j, i)) \/ Passes(m, ts, j)
<1> DEFINE free == {i \in DOMAIN E!Events \ m[j - 1] : E!Within(ts[j], E!Events[i], Grace)}
<1>1. m[j] = IF free = {} THEN m[j - 1] ELSE m[j - 1] \cup {E!Min(free)}
  BY DEF Claims, E!Claim
<1>2. \A i : i \in free <=> i \in Places \ m[j - 1] /\ Near(ts, j, i)
  BY PlacesAre DEF Near
<1>3. CASE free = {}
  BY <1>1, <1>2, <1>3 DEF Passes
<1>4. CASE free # {}
  <2>1. free \in SUBSET Nat
    BY <1>2, PlacesAre
  <2> HIDE DEF free
  <2>2. E!Min(free) \in free /\ \A y \in free : E!Min(free) <= y
    BY <2>1, <1>4, MinIsLeast
  <2>3. m[j] = m[j - 1] \cup {E!Min(free)}
    BY <1>1, <1>4
  <2>4. Takes(m, ts, j, E!Min(free))
    BY <2>2, <2>3, <1>2 DEF Takes
  <2> QED
    BY <2>4
<1> QED
  BY <1>3, <1>4

LEMMA ClaimStep ==
  ASSUME EventsInOrder, NEW ts, NEW m, Claims(m, ts), NEW j \in 1..Len(ts)
  PROVE  m[j - 1] \subseteq m[j] /\ m[j] \subseteq m[j - 1] \cup Places
  BY TakesOrPasses DEF Takes, Passes

\* What is claimed stays claimed.
LEMMA ClaimsGrow ==
  ASSUME EventsInOrder, NEW ts \in Seq(Nat), NEW m, Claims(m, ts), NEW h \in 0..Len(ts), NEW j \in h..Len(ts)
  PROVE  m[h] \subseteq m[j]
<1> SUFFICES ASSUME NEW i \in m[h], i \notin m[j] PROVE FALSE
  OBVIOUS
<1>1. Len(ts) \in Nat
  BY LenProperties
<1> DEFINE Lost == {k \in h..Len(ts) : i \notin m[k]}
<1>2. PICK k \in Lost : \A y \in Lost : k <= y
  <2>1. j \in Lost /\ Lost \in SUBSET Nat
    BY <1>1
  <2> HIDE DEF Lost
  <2> QED
    BY <2>1, LeastOf
<1>3. k \in h..Len(ts) /\ i \notin m[k] /\ k # h
  OBVIOUS
<1>4. k - 1 \in h..Len(ts) /\ k \in 1..Len(ts)
  BY <1>1, <1>3
<1>5. i \in m[k - 1]
  <2>1. k - 1 \notin Lost
    BY <1>2, <1>4
  <2> QED
    BY <2>1, <1>4
<1> QED
  BY <1>3, <1>4, <1>5, ClaimStep

\* An event that has been claimed was claimed by some alert.
LEMMA ClaimedByOne ==
  ASSUME EventsInOrder, NEW ts \in Seq(Nat), NEW m, Claims(m, ts), NEW h \in 0..Len(ts), NEW i \in m[h]
  PROVE  \E j \in 1..h : Takes(m, ts, j, i)
<1>1. Len(ts) \in Nat
  BY LenProperties
<1> DEFINE Had == {k \in 0..h : i \in m[k]}
<1>2. PICK j \in Had : \A y \in Had : j <= y
  <2>1. h \in Had /\ Had \in SUBSET Nat
    BY <1>1
  <2> HIDE DEF Had
  <2> QED
    BY <2>1, LeastOf
<1>3. j \in 0..h /\ i \in m[j] /\ j # 0
  BY DEF Claims
<1>4. j \in 1..h /\ j - 1 \in 0..h /\ j \in 1..Len(ts)
  BY <1>1, <1>3
<1>5. i \notin m[j - 1]
  <2>1. j - 1 \notin Had
    BY <1>2, <1>4
  <2> QED
    BY <2>1, <1>4
<1>6. Takes(m, ts, j, i)
  BY <1>3, <1>4, <1>5, TakesOrPasses DEF Takes, Passes
<1> QED
  BY <1>4, <1>6

LEMMA ClaimedArePlaces ==
  ASSUME EventsInOrder, NEW ts \in Seq(Nat), NEW m, Claims(m, ts), NEW h \in 0..Len(ts)
  PROVE  m[h] \subseteq Places
  BY ClaimedByOne DEF Takes

\* An alert claims one event, and an event is claimed by one alert.
LEMMA OneEach ==
  ASSUME EventsInOrder, NEW ts \in Seq(Nat), NEW m, Claims(m, ts), NEW j, NEW k, NEW i, NEW g,
         Takes(m, ts, j, i), Takes(m, ts, k, g)
  PROVE  j = k <=> i = g
<1>1. Len(ts) \in Nat /\ j \in 1..Len(ts) /\ k \in 1..Len(ts)
  BY LenProperties DEF Takes
<1>2. ASSUME j = k PROVE i = g
  BY <1>2 DEF Takes
<1>3. ASSUME NEW x \in 1..Len(ts), NEW y \in 1..Len(ts), Takes(m, ts, x, i), Takes(m, ts, y, i), x < y PROVE FALSE
  <2>1. x \in 0..Len(ts) /\ y - 1 \in x..Len(ts)
    BY <1>1, <1>3
  <2>2. m[x] \subseteq m[y - 1]
    BY <2>1, ClaimsGrow
  <2>3. i \in m[x] /\ i \notin m[y - 1]
    BY <1>3 DEF Takes
  <2> QED
    BY <2>2, <2>3
<1>4. ASSUME i = g PROVE j = k
  <2>1. ~(j < k) /\ ~(k < j)
    BY <1>1, <1>3, <1>4
  <2> QED
    BY <2>1, <1>1
<1> QED
  BY <1>2, <1>4

\* Alerts and events are in order: of an alert near x and a later one near a
\* later event, the first is near that, too, and likewise to the left.
LEMMA NearLater ==
  ASSUME EventsInOrder, Grace \in Nat, NEW ts, Times(ts),
         NEW j \in 1..Len(ts), NEW k \in 1..Len(ts), j <= k,
         NEW x \in Places, NEW y \in Places, x <= y, Near(ts, k, x), Near(ts, j, y)
  PROVE  Near(ts, k, y)
<1>1. ts[j] \in Nat /\ ts[k] \in Nat /\ ts[j] <= ts[k]
  BY ElementOfSeq DEF Times
<1>2. /\ E!Events[x].end <= E!Events[y].end
      /\ E!Events[x].end \in Nat /\ E!Events[y].end \in Nat /\ E!Events[y].start \in Nat
  BY PlacesAre DEF EventsInOrder
<1>3. E!Events[y].start <= ts[j] + Grace /\ ts[k] <= E!Events[x].end
  BY DEF Near, E!Within
<1>4. E!Events[y].start <= ts[k] + Grace /\ ts[k] <= E!Events[y].end
  BY <1>1, <1>2, <1>3
<1> QED
  BY <1>4 DEF Near, E!Within

LEMMA NearEarlier ==
  ASSUME EventsInOrder, Grace \in Nat, NEW ts, Times(ts),
         NEW j \in 1..Len(ts), NEW k \in 1..Len(ts), k <= j,
         NEW x \in Places, NEW y \in Places, y <= x, Near(ts, k, x), Near(ts, j, y)
  PROVE  Near(ts, k, y)
<1>1. ts[j] \in Nat /\ ts[k] \in Nat /\ ts[k] <= ts[j]
  BY ElementOfSeq DEF Times
<1>2. /\ E!Events[y].start <= E!Events[x].start
      /\ E!Events[x].start \in Nat /\ E!Events[y].start \in Nat /\ E!Events[y].end \in Nat
  BY PlacesAre DEF EventsInOrder
<1>3. E!Events[x].start <= ts[k] + Grace /\ ts[j] <= E!Events[y].end
  BY DEF Near, E!Within
<1>4. E!Events[y].start <= ts[k] + Grace /\ ts[k] <= E!Events[y].end
  BY <1>1, <1>2, <1>3
<1> QED
  BY <1>4 DEF Near, E!Within

LEMMA NearBetween ==
  ASSUME EventsInOrder, Grace \in Nat, NEW ts, Times(ts), NEW k \in 1..Len(ts),
         NEW x \in Places, NEW y \in Places, NEW z \in Places, x <= y, y <= z,
         Near(ts, k, x), Near(ts, k, z)
  PROVE  Near(ts, k, y)
<1>1. ts[k] \in Nat
  BY ElementOfSeq DEF Times
<1>2. /\ E!Events[y].start <= E!Events[z].start /\ E!Events[x].end <= E!Events[y].end
      /\ E!Events[y].start \in Nat /\ E!Events[y].end \in Nat
      /\ E!Events[z].start \in Nat /\ E!Events[x].end \in Nat
  BY PlacesAre DEF EventsInOrder
<1>3. E!Events[z].start <= ts[k] + Grace /\ ts[k] <= E!Events[x].end
  BY DEF Near, E!Within
<1>4. E!Events[y].start <= ts[k] + Grace /\ ts[k] <= E!Events[y].end
  BY <1>1, <1>2, <1>3
<1> QED
  BY <1>4 DEF Near, E!Within

\* Numbers of which none is less than the one before are in order.
LEMMA StepsAreInOrder ==
  ASSUME NEW n \in Nat, NEW f, \A k \in 1..n : f[k] \in Nat, \A k \in 2..n : f[k - 1] <= f[k],
         NEW i \in 1..n, NEW j \in i..n
  PROVE  f[i] <= f[j]
<1> SUFFICES ASSUME ~(f[i] <= f[j]) PROVE FALSE
  OBVIOUS
<1> DEFINE Bad == {k \in i..n : ~(f[i] <= f[k])}
<1>1. PICK k \in Bad : \A y \in Bad : k <= y
  <2>1. j \in Bad /\ Bad \in SUBSET Nat
    OBVIOUS
  <2> HIDE DEF Bad
  <2> QED
    BY <2>1, LeastOf
<1>2. k \in i..n /\ ~(f[i] <= f[k])
  OBVIOUS
<1>3. f[i] \in Nat /\ f[k] \in Nat
  BY <1>2
<1>4. k # i
  BY <1>2, <1>3
<1>5. k - 1 \in i..n /\ k - 1 \in 1..n /\ k \in 2..n /\ k - 1 < k
  BY <1>2, <1>4
<1>6. f[i] <= f[k - 1]
  <2>1. k - 1 \notin Bad
    BY <1>1, <1>5
  <2> QED
    BY <2>1, <1>5
<1>7. f[k - 1] \in Nat /\ f[k - 1] <= f[k]
  BY <1>5
<1> QED
  BY <1>2, <1>3, <1>6, <1>7

\* Events follow one another, and do so in time.
LEMMA EventsFollow == EvaluationInv => EventsInOrder
<1> SUFFICES ASSUME EvaluationInv PROVE EventsInOrder
  OBVIOUS
<1>1. E!Events \in Seq(CrashEvents)
  <2>1. crashes \in Seq(CrashEvents)
    BY DEF EvaluationInv, CrashesInv
  <2>2. E!Event(swing) \in CrashEvents
    BY DEF EvaluationInv, SwingInv, E!Event, CrashEvents
  <2> QED
    BY <2>1, <2>2, AppendProperties DEF E!Events
<1>2. Len(E!Events) \in Nat /\ Places = DOMAIN E!Events
  BY <1>1, LenProperties DEF Places
<1>3. \A i \in Places : E!Events[i].start \in Nat /\ E!Events[i].end \in Nat
  <2>1. \A i \in Places : E!Events[i] \in CrashEvents
    BY <1>1, ElementOfSeq DEF Places
  <2> QED
    BY <2>1 DEF CrashEvents
<1>4. \A i \in Places : E!Events[i].start <= E!Events[i].end
  <2> SUFFICES ASSUME NEW i \in Places PROVE E!Events[i].start <= E!Events[i].end
    OBVIOUS
  <2>1. E!LabelsAreDescents /\ DayInv /\ E!N = N /\ N \in Nat
    BY DropsHappened, DayTypes DEF EvaluationInv, E!DetectedDropsAreReal
  <2>2. PICK p \in 1..N, q \in 1..N : E!Descent(E!Events[i], p, q)
    BY <2>1, <1>2 DEF E!LabelsAreDescents
  <2>3. p < q /\ day[p].ts = E!Events[i].start /\ day[q].ts = E!Events[i].end
    BY <2>2 DEF E!Descent
  <2>4. p <= q
    BY <2>1, <2>3
  <2>5. day[p].ts <= day[q].ts
    BY <2>1, <2>4 DEF DayInv
  <2> QED
    BY <2>3, <2>5
<1>5. \A i \in 2..Len(E!Events) : E!Events[i - 1].end <= E!Events[i].start
  BY DropsHappened DEF E!DetectedDropsAreReal, E!LabelsAreDescents
<1>6. PICK n \in Nat : n = Len(E!Events)
  BY <1>2
<1> DEFINE starts == [i \in 1..n |-> E!Events[i].start]
           ends == [i \in 1..n |-> E!Events[i].end]
<1>7. /\ \A i \in 1..n : /\ starts[i] \in Nat /\ ends[i] \in Nat /\ starts[i] <= ends[i]
                         /\ starts[i] = E!Events[i].start /\ ends[i] = E!Events[i].end
      /\ \A i \in 2..n : ends[i - 1] <= starts[i]
  <2>1. \A i \in 2..n : i \in 1..n /\ i - 1 \in 1..n
    BY <1>6
  <2> QED
    BY <2>1, <1>3, <1>4, <1>5, <1>6 DEF Places
<1> HIDE DEF starts, ends
<1>8. \A i \in 2..n : starts[i - 1] <= starts[i] /\ ends[i - 1] <= ends[i]
  <2> SUFFICES ASSUME NEW i \in 2..n PROVE starts[i - 1] <= starts[i] /\ ends[i - 1] <= ends[i]
    OBVIOUS
  <2>1. i \in 1..n /\ i - 1 \in 1..n
    BY <1>6
  <2> QED
    BY <2>1, <1>7
<1>9. ASSUME NEW i \in Places, NEW j \in Places, i <= j
      PROVE  E!Events[i].start <= E!Events[j].start /\ E!Events[i].end <= E!Events[j].end
  <2>1. i \in 1..n /\ j \in i..n /\ j \in 1..n
    BY <1>6, <1>9 DEF Places
  <2>2. starts[i] <= starts[j] /\ ends[i] <= ends[j]
    BY <2>1, <1>7, <1>8, StepsAreInOrder
  <2> QED
    BY <2>1, <2>2, <1>7
<1> QED
  BY <1>1, <1>9 DEF EventsInOrder

\* With some alert near it, y is linked to an earlier event, which that alert
\* has claimed.  Those linked up to one that was never claimed are the places
\* around which there are too few alerts.
Link(m, ts, y) == \E j \in 1..Len(ts), g \in Places : g < y /\ Takes(m, ts, j, g) /\ Near(ts, j, y)
Short(m, ts) == {x \in Places : \E e \in Places \ m[Len(ts)] :
                                  x <= e /\ \A y \in (x + 1)..e : Link(m, ts, y)}

\* An alert that is near such a place claims one.
LEMMA NearShortTakes ==
  ASSUME EventsInOrder, Grace \in Nat, NEW ts, Times(ts), NEW m, Claims(m, ts),
         NEW k \in 1..Len(ts), NEW s \in Short(m, ts), Near(ts, k, s)
  PROVE  \E g \in Short(m, ts) : Takes(m, ts, k, g)
<1>1. ts \in Seq(Nat) /\ Len(ts) \in Nat
  BY LenProperties DEF Times
<1>2. PICK n \in Nat : n = Len(E!Events) /\ Places = 1..n
  BY PlacesAre DEF Places
<1>3. PICK e \in Places \ m[Len(ts)] : s <= e /\ \A y \in (s + 1)..e : Link(m, ts, y)
  BY DEF Short
<1>4. s \in 1..n /\ e \in 1..n /\ s <= e
  BY <1>2, <1>3 DEF Short
<1>5. e \notin m[k - 1]
  <2>1. k - 1 \in 0..Len(ts) /\ Len(ts) \in (k - 1)..Len(ts)
    BY <1>1
  <2> QED
    BY <2>1, <1>1, <1>3, ClaimsGrow
<1>6. ASSUME Passes(m, ts, k), \A g : ~Takes(m, ts, k, g) PROVE FALSE
  <2> DEFINE X == {x \in 1..e : Near(ts, k, x)}
  <2>1. PICK x \in X : \A y \in X : y <= x
    <3>1. s \in X /\ e \in Nat
      BY <1>4
    <3> HIDE DEF X
    <3>2. X \in SUBSET (1..e) /\ X # {}
      BY <3>1 DEF X
    <3> QED
      BY <3>1, <3>2, MaxIsGreatest
  <2>2. x \in 1..n /\ Near(ts, k, x) /\ s <= x /\ x <= e
    BY <2>1, <1>4
  <2>3. x \in m[k - 1]
    BY <2>2, <1>2, <1>6 DEF Passes
  <2>4. x < e
    BY <2>2, <2>3, <1>4, <1>5
  <2>5. x + 1 \in 1..n /\ x + 1 \in (s + 1)..e /\ x + 1 \in 1..e
    BY <2>2, <2>4, <1>4
  <2>6. PICK z \in 1..n : z = x + 1
    BY <2>5
  <2>7. Link(m, ts, z) /\ ~Near(ts, k, z)
    <3>1. ~(z <= x)
      BY <2>2, <2>6
    <3> QED
      BY <3>1, <2>1, <2>5, <2>6, <1>3
  <2>8. PICK j \in 1..Len(ts), g \in Places : g < z /\ Takes(m, ts, j, g) /\ Near(ts, j, z)
    BY <2>7 DEF Link
  <2>9. x <= z /\ g <= x
    BY <2>2, <2>6, <2>8, <1>2
  <2>10. ~(j <= k)
    BY <2>2, <2>7, <2>8, <2>9, <1>2, NearLater
  <2>11. k <= j /\ k <= j - 1
    BY <2>10, <1>1
  <2>12. Near(ts, j, g) /\ g \notin m[j - 1]
    BY <2>8 DEF Takes
  <2>13. Near(ts, k, g)
    BY <2>2, <2>9, <2>11, <2>12, <1>2, NearEarlier
  <2>14. g \in m[k - 1]
    BY <2>13, <1>6 DEF Passes
  <2>15. k - 1 \in 0..Len(ts) /\ j - 1 \in (k - 1)..Len(ts)
    BY <2>11, <1>1
  <2> QED
    BY <2>12, <2>14, <2>15, <1>1, ClaimsGrow
<1>7. PICK g : Takes(m, ts, k, g)
  BY <1>6, TakesOrPasses
<1>8. g \in Places /\ g \in 1..n /\ Near(ts, k, g)
  BY <1>2, <1>7 DEF Takes
<1>9. g <= e
  <2>1. ASSUME e < g PROVE Near(ts, k, e)
    <3>1. e <= g
      BY <2>1, <1>4, <1>8
    <3> QED
      BY <3>1, <1>2, <1>4, <1>8, NearBetween
  <2>2. Near(ts, k, e) => g <= e
    BY <1>2, <1>4, <1>5, <1>7 DEF Takes
  <2> QED
    BY <2>1, <2>2, <1>4, <1>8
<1>10. ASSUME NEW y \in (g + 1)..e PROVE Link(m, ts, y)
  <2>1. CASE y \in (s + 1)..e
    BY <2>1, <1>3
  <2>2. CASE y <= s
    <3>1. y \in 1..n /\ g <= y /\ g < y
      BY <1>4, <1>8, <1>10
    <3>2. Near(ts, k, y)
      BY <2>2, <3>1, <1>2, <1>4, <1>8, NearBetween
    <3> QED
      BY <3>1, <3>2, <1>7, <1>8 DEF Link
  <2> QED
    BY <2>1, <2>2, <1>4, <1>8
<1>11. g \in Short(m, ts)
  BY <1>3, <1>8, <1>9, <1>10 DEF Short
<1> QED
  BY <1>7, <1>11

\* Sizes of sets of places and of sets of alerts.
LEMMA SameSize == ASSUME NEW A PROVE E!Cardinality(A) = Cardinality(A)
  BY DEF E!Cardinality, Cardinality

LEMMA UpToSize == ASSUME NEW n \in Nat PROVE IsFiniteSet(1..n) /\ Cardinality(1..n) = n
<1>1. 1 \in Int /\ n \in Int
  OBVIOUS
<1>2. (IF 1 > n THEN 0 ELSE n - 1 + 1) = n
  OBVIOUS
<1> QED
  BY <1>1, <1>2, FS_Interval

\* The alerts that are near some event of S
NearSome(ts, S) == {j \in 1..Len(ts) : \E i \in S : Near(ts, j, i)}

LEMMA SizesOf ==
  ASSUME EventsInOrder, NEW ts \in Seq(Nat), NEW S \in SUBSET Places
  PROVE  /\ IsFiniteSet(S) /\ Cardinality(S) \in Nat /\ Cardinality(S) <= Len(E!Events)
         /\ \A T \in SUBSET (1..Len(ts)) : IsFiniteSet(T) /\ Cardinality(T) \in Nat /\ Cardinality(T) <= Len(ts)
<1>1. IsFiniteSet(Places) /\ Cardinality(Places) = Len(E!Events)
  <2>1. PICK n \in Nat : n = Len(E!Events) /\ Places = 1..n
    BY PlacesAre DEF Places
  <2> QED
    BY <2>1, UpToSize
<1>2. IsFiniteSet(1..Len(ts)) /\ Cardinality(1..Len(ts)) = Len(ts)
  <2>1. PICK n \in Nat : n = Len(ts)
    BY LenProperties
  <2> QED
    BY <2>1, UpToSize
<1> QED
  BY <1>1, <1>2, FS_Subset, FS_CardinalityType

\* As many alerts claim the events of A as A has, ...
LEMMA ClaimsAreNear ==
  ASSUME EventsInOrder, NEW ts \in Seq(Nat), NEW m, Claims(m, ts),
         NEW A \in SUBSET m[Len(ts)], NEW B \in SUBSET (1..Len(ts)),
         \A i \in A, j \in 1..Len(ts) : Takes(m, ts, j, i) => j \in B
  PROVE  Cardinality(A) <= Cardinality(B)
<1> DEFINE f == [i \in A |-> CHOOSE j \in B : Takes(m, ts, j, i)]
<1>1. Len(ts) \in Nat
  BY LenProperties
<1>2. \A i \in A : f[i] \in B /\ Takes(m, ts, f[i], i)
  <2> SUFFICES ASSUME NEW i \in A PROVE f[i] \in B /\ Takes(m, ts, f[i], i)
    OBVIOUS
  <2>1. \E j \in 1..Len(ts) : Takes(m, ts, j, i)
    BY <1>1, ClaimedByOne
  <2>2. \E j \in B : Takes(m, ts, j, i)
    BY <2>1
  <2> QED
    BY <2>2
<1>3. f \in [A -> B]
  <2>1. f = [i \in A |-> f[i]]
    OBVIOUS
  <2> HIDE DEF f
  <2> QED
    BY <2>1, <1>2
<1> HIDE DEF f
<1>4. \A i, g \in A : f[i] = f[g] => i = g
  BY <1>2, OneEach
<1>5. f \in Injection(A, B)
  BY <1>3, <1>4 DEF Injection, IsInjective
<1>6. IsFiniteSet(B)
  BY SizesOf
<1> QED
  BY <1>5, <1>6, FS_Injection

\* ... and the other way round.
LEMMA NearAreClaims ==
  ASSUME EventsInOrder, NEW ts \in Seq(Nat), NEW m, Claims(m, ts),
         NEW A \in SUBSET Places, NEW B \in SUBSET (1..Len(ts)),
         \A j \in B : \E i \in A : Takes(m, ts, j, i)
  PROVE  Cardinality(B) <= Cardinality(A)
<1> DEFINE f == [j \in B |-> CHOOSE i \in A : Takes(m, ts, j, i)]
<1>1. \A j \in B : f[j] \in A /\ Takes(m, ts, j, f[j])
  OBVIOUS
<1>2. f \in [B -> A]
  <2>1. f = [j \in B |-> f[j]]
    OBVIOUS
  <2> HIDE DEF f
  <2> QED
    BY <2>1, <1>1
<1> HIDE DEF f
<1>3. \A i, g \in B : f[i] = f[g] => i = g
  BY <1>1, OneEach
<1>4. f \in Injection(B, A)
  BY <1>2, <1>3 DEF Injection, IsInjective
<1>5. IsFiniteSet(A)
  BY SizesOf
<1> QED
  BY <1>4, <1>5, FS_Injection

\* What is claimed, in S and outside S.
LEMMA Split ==
  ASSUME EventsInOrder, NEW ts \in Seq(Nat), NEW M \in SUBSET Places, NEW S \in SUBSET Places
  PROVE  /\ Cardinality(M) = Cardinality(M \cap S) + Cardinality(M \ S)
         /\ Cardinality(M \ S) <= Len(E!Events) - Cardinality(S)
         /\ Places \ M \subseteq S => Cardinality(M \ S) = Len(E!Events) - Cardinality(S)
<1>1. IsFiniteSet(Places) /\ Cardinality(Places) = Len(E!Events) /\ Len(E!Events) \in Nat
  <2>1. PICK n \in Nat : n = Len(E!Events) /\ Places = 1..n
    BY PlacesAre DEF Places
  <2> QED
    BY <2>1, UpToSize
<1>2. IsFiniteSet(M) /\ Cardinality(M) \in Nat /\ Cardinality(S) \in Nat
  BY SizesOf
<1>3. Cardinality(M \cap S) \in Nat /\ Cardinality(M \ S) \in Nat /\ Cardinality(Places \ S) \in Nat
  <2>1. M \cap S \in SUBSET Places /\ M \ S \in SUBSET Places /\ Places \ S \in SUBSET Places
    OBVIOUS
  <2> QED
    BY <2>1, SizesOf
<1>4. Cardinality(M \ S) = Cardinality(M) - Cardinality(M \cap S)
  BY <1>2, FS_Difference
<1>5. Cardinality(Places \ S) = Len(E!Events) - Cardinality(S)
  <2>1. Cardinality(Places \ S) = Cardinality(Places) - Cardinality(Places \cap S)
    BY <1>1, FS_Difference
  <2>2. Places \cap S = S
    OBVIOUS
  <2> QED
    BY <2>1, <2>2, <1>1
<1>6. Cardinality(M \ S) <= Cardinality(Places \ S)
  <2>1. M \ S \in SUBSET (Places \ S) /\ IsFiniteSet(Places \ S)
    BY <1>1, FS_Difference
  <2> QED
    BY <2>1, FS_Subset
<1>7. Places \ M \subseteq S => Cardinality(M \ S) = Cardinality(Places \ S)
  <2>1. Places \ M \subseteq S => M \ S = Places \ S
    OBVIOUS
  <2> QED
    BY <2>1
<1>8. Cardinality(M) = Cardinality(M \cap S) + Cardinality(M \ S)
  BY <1>2, <1>3, <1>4
<1> QED
  BY <1>5, <1>6, <1>7, <1>8

\* Hall's theorem, for the claims: no set S of events lets more be caught than
\* those outside it and one for each alert near it, and the set of the places
\* around which there are too few alerts lets no more be caught than were.
LEMMA ClaimsAreMost ==
  ASSUME EventsInOrder, Grace \in Nat, NEW ts, Times(ts), NEW m, Claims(m, ts)
  PROVE  E!Cardinality(m[Len(ts)]) = E!MostCatches(ts)
<1>1. ts \in Seq(Nat) /\ Len(ts) \in Nat /\ DOMAIN ts = 1..Len(ts)
  BY LenProperties DEF Times
<1>2. Len(E!Events) \in Nat /\ DOMAIN E!Events = Places
  BY PlacesAre
<1> DEFINE M == m[Len(ts)]
           size(S) == Len(E!Events) - Cardinality(S) + Cardinality(NearSome(ts, S))
<1>3. M \in SUBSET Places
  BY <1>1, ClaimedArePlaces
<1>4. \A S : NearSome(ts, S) \in SUBSET (1..Len(ts))
  BY DEF NearSome
<1>5. ASSUME NEW S \in SUBSET Places
      PROVE  /\ Cardinality(S) \in Nat /\ Cardinality(S) <= Len(E!Events)
             /\ Cardinality(NearSome(ts, S)) \in Nat
             /\ Cardinality(M) \in Nat /\ Cardinality(M \cap S) \in Nat /\ Cardinality(M \ S) \in Nat
  <2>1. M \cap S \in SUBSET Places /\ M \ S \in SUBSET Places
    BY <1>3
  <2> QED
    BY <2>1, <1>1, <1>3, <1>4, SizesOf
<1>6. ASSUME NEW S \in SUBSET Places PROVE size(S) \in Nat /\ Cardinality(M) <= size(S)
  <2>1. Cardinality(M \cap S) <= Cardinality(NearSome(ts, S))
    <3>1. \A i \in M \cap S, j \in 1..Len(ts) : Takes(m, ts, j, i) => j \in NearSome(ts, S)
      BY DEF Takes, NearSome
    <3> QED
      BY <3>1, <1>1, <1>4, ClaimsAreNear
  <2>2. /\ Cardinality(M) = Cardinality(M \cap S) + Cardinality(M \ S)
        /\ Cardinality(M \ S) <= Len(E!Events) - Cardinality(S)
    BY <1>1, <1>3, Split
  <2> HIDE DEF M
  <2> QED
    BY <2>1, <2>2, <1>2, <1>5
<1>7. \E S \in SUBSET Places : Cardinality(M) = size(S)
  <2>1. PICK S : S = Short(m, ts)
    OBVIOUS
  <2>2. S \in SUBSET Places /\ Places \ M \subseteq S
    <3>1. ASSUME NEW x \in Places \ M PROVE x \in Short(m, ts)
      <4>1. x <= x /\ (x + 1)..x = {}
        BY PlacesAre
      <4> QED
        BY <4>1 DEF Short
    <3> QED
      BY <2>1, <3>1 DEF Short
  <2>3. Cardinality(NearSome(ts, S)) <= Cardinality(M \cap S)
    <3>1. ASSUME NEW k \in NearSome(ts, S) PROVE \E i \in M \cap S : Takes(m, ts, k, i)
      <4>1. PICK s \in S : k \in 1..Len(ts) /\ Near(ts, k, s)
        BY DEF NearSome
      <4>2. PICK g \in S : Takes(m, ts, k, g)
        BY <4>1, <2>1, NearShortTakes
      <4>3. g \in m[k]
        BY <4>2 DEF Takes
      <4>4. k \in 0..Len(ts) /\ Len(ts) \in k..Len(ts)
        BY <4>1, <1>1
      <4>5. g \in M
        BY <4>3, <4>4, <1>1, ClaimsGrow
      <4> QED
        BY <4>2, <4>5
    <3>2. M \cap S \in SUBSET Places
      BY <1>3
    <3> HIDE DEF M
    <3> QED
      BY <3>1, <3>2, <1>1, <1>4, NearAreClaims
  <2>4. /\ Cardinality(M) = Cardinality(M \cap S) + Cardinality(M \ S)
        /\ Cardinality(M \ S) = Len(E!Events) - Cardinality(S)
    BY <2>2, <1>1, <1>3, Split
  <2>5. Cardinality(M) <= size(S)
    BY <2>2, <1>6
  <2> HIDE DEF M
  <2>6. Cardinality(M) = size(S)
    BY <2>2, <2>3, <2>4, <2>5, <1>2, <1>5
  <2> QED
    BY <2>2, <2>6
<1> DEFINE T == {size(S) : S \in SUBSET Places}
<1>8. E!MostCatches(ts) = E!Min(T)
  <2>1. \A S \in SUBSET Places :
          size(S) = Len(E!Events) - E!Cardinality(S)
                    + E!Cardinality({j \in DOMAIN ts : \E i \in S : E!Within(ts[j], E!Events[i], Grace)})
    BY <1>1, SameSize DEF NearSome, Near
  <2> HIDE DEF size
  <2> QED
    BY <2>1, <1>2 DEF E!MostCatches
<1>9. T \in SUBSET Nat /\ Cardinality(M) \in T /\ \A y \in T : Cardinality(M) <= y
  <2> HIDE DEF size, M
  <2> QED
    BY <1>6, <1>7
<1>10. E!Min(T) = Cardinality(M)
  <2> HIDE DEF T, M
  <2>1. E!Min(T) \in T /\ \A y \in T : E!Min(T) <= y
    BY <1>9, MinIsLeast
  <2>2. E!Min(T) \in Nat /\ Cardinality(M) \in Nat
    BY <2>1, <1>9
  <2>3. E!Min(T) <= Cardinality(M) /\ Cardinality(M) <= E!Min(T)
    BY <2>1, <1>9
  <2> QED
    BY <2>2, <2>3
<1> HIDE DEF T
<1> QED
  BY <1>8, <1>10, SameSize

LEMMA AtMostOne ==
  ASSUME NEW S, IsFiniteSet(S), Cardinality(S) <= 1, NEW x \in S, NEW y \in S
  PROVE  x = y
<1> SUFFICES ASSUME x # y PROVE FALSE
  OBVIOUS
<1>1. IsFiniteSet({x}) /\ Cardinality({x}) = 1
  BY FS_Singleton
<1>2. Cardinality({x} \cup {y}) = 2 /\ {x} \cup {y} \in SUBSET S
  <2>1. Cardinality({x} \cup {y}) = Cardinality({x}) + 1
    <3>1. y \notin {x}
      OBVIOUS
    <3> QED
      BY <3>1, <1>1, FS_AddElement
  <2> QED
    BY <2>1, <1>1
<1>3. Cardinality({x} \cup {y}) <= Cardinality(S) /\ Cardinality(S) \in Nat
  BY <1>2, FS_Subset, FS_CardinalityType
<1> QED
  BY <1>2, <1>3

\* When each alert is in the one event that it is near, and no other is,
\* counting alerts, events and claims is the same.
LEMMA CountsAgree ==
  ASSUME EventsInOrder, Grace \in Nat, NEW ts \in Seq(Nat),
         \A j \in 1..Len(ts), i \in Places : Near(ts, j, i) => E!Within(ts[j], E!Events[i], 0),
         \A j, k \in 1..Len(ts), i \in Places : Near(ts, j, i) /\ Near(ts, k, i) => j = k,
         \A j \in 1..Len(ts), i, g \in Places : Near(ts, j, i) /\ Near(ts, j, g) => i = g
  PROVE  /\ E!RunBacktest(ts) = E!MatchAlertsToCrashes(ts)
         /\ E!Evaluate(ts) = E!MatchAlertsToCrashes(ts)
<1>1. Len(ts) \in Nat /\ DOMAIN ts = 1..Len(ts) /\ DOMAIN E!Events = Places /\ Len(E!Events) \in Nat
  BY LenProperties, PlacesAre
<1>2. PICK m : Claims(m, ts) /\ E!FoldLeft(E!Claim, {}, ts) = m[Len(ts)]
  BY ClaimsExist
<1> DEFINE M == m[Len(ts)]
           in(j) == {i \in Places : E!Within(ts[j], E!Events[i], 0)}
           caught == {i \in Places : \E j \in 1..Len(ts) : E!Within(ts[j], E!Events[i], 0)}
           stray == {j \in 1..Len(ts) : \A i \in Places : ~E!Within(ts[j], E!Events[i], 0)}
           hits == {j \in 1..Len(ts) : in(j) # {}}
           firsts == {E!Min(in(j)) : j \in hits}
<1>3. ASSUME NEW j \in 1..Len(ts), NEW i \in Places
      PROVE  E!Within(ts[j], E!Events[i], 0) <=> Near(ts, j, i)
  <2>1. ts[j] \in Nat /\ E!Events[i].start \in Nat
    BY PlacesAre, ElementOfSeq
  <2>2. E!Events[i].start <= ts[j] + 0 => E!Events[i].start <= ts[j] + Grace
    BY <2>1
  <2> QED
    BY <2>2 DEF Near, E!Within
<1>4. M \in SUBSET Places
  BY <1>1, <1>2, ClaimedArePlaces
<1>5. ASSUME NEW i \in M PROVE \E j \in 1..Len(ts) : Takes(m, ts, j, i)
  BY <1>1, <1>2, <1>4, ClaimedByOne
<1>6. ASSUME NEW j \in 1..Len(ts), NEW i \in Places, Near(ts, j, i)
      PROVE  Takes(m, ts, j, i) /\ i \in M
  <2>1. j - 1 \in 0..Len(ts) /\ j \in 0..Len(ts) /\ Len(ts) \in j..Len(ts)
    BY <1>1
  <2>2. i \notin m[j - 1]
    <3> SUFFICES ASSUME i \in m[j - 1] PROVE FALSE
      OBVIOUS
    <3>1. PICK k \in 1..(j - 1) : Takes(m, ts, k, i)
      BY <2>1, <1>2, ClaimedByOne
    <3>2. k \in 1..Len(ts) /\ k # j /\ Near(ts, k, i)
      BY <2>1, <3>1 DEF Takes
    <3> QED
      BY <3>2, <1>6
  <2>3. Takes(m, ts, j, i)
    <3>1. ~Passes(m, ts, j)
      BY <2>2, <1>6 DEF Passes
    <3>2. PICK g : Takes(m, ts, j, g)
      BY <3>1, <1>2, TakesOrPasses
    <3>3. g = i
      BY <3>2, <1>6 DEF Takes
    <3> QED
      BY <3>2, <3>3
  <2>4. i \in m[j]
    BY <2>3 DEF Takes
  <2> QED
    BY <2>1, <2>3, <2>4, <1>2, ClaimsGrow
<1>7. caught = M
  BY <1>3, <1>4, <1>5, <1>6 DEF Takes
<1>8. \A j \in 1..Len(ts) : j \in hits <=> \E i \in Places : Near(ts, j, i)
  BY <1>3
<1>9. IsFiniteSet(hits) /\ Cardinality(hits) = Cardinality(M)
  <2> HIDE DEF hits, M
  <2>1. hits \in SUBSET (1..Len(ts))
    BY DEF hits
  <2>2. \A i \in M, j \in 1..Len(ts) : Takes(m, ts, j, i) => j \in hits
    BY <1>8 DEF Takes
  <2>3. Cardinality(M) <= Cardinality(hits)
    BY <2>1, <2>2, <1>2, ClaimsAreNear DEF M
  <2>4. \A j \in hits : \E i \in M : Takes(m, ts, j, i)
    BY <2>1, <1>6, <1>8
  <2>5. Cardinality(hits) <= Cardinality(M)
    BY <2>1, <2>4, <1>2, <1>4, NearAreClaims
  <2>6. IsFiniteSet(hits) /\ Cardinality(hits) \in Nat /\ Cardinality(M) \in Nat
    BY <2>1, <1>4, SizesOf
  <2> QED
    BY <2>3, <2>5, <2>6
<1>10. Cardinality(stray) = Len(ts) - Cardinality(M)
  <2>1. stray = (1..Len(ts)) \ hits /\ (1..Len(ts)) \cap hits = hits
    BY <1>3
  <2> HIDE DEF stray, hits, M
  <2>2. IsFiniteSet(1..Len(ts)) /\ Cardinality(1..Len(ts)) = Len(ts)
    BY <1>1, UpToSize
  <2>3. PICK all : all = 1..Len(ts)
    OBVIOUS
  <2>4. Cardinality(all \ hits) = Cardinality(all) - Cardinality(all \cap hits)
    BY <2>2, <2>3, FS_Difference
  <2> QED
    BY <2>1, <2>2, <2>3, <2>4, <1>9
<1>11. firsts = M
  <2>1. ASSUME NEW j \in hits PROVE E!Min(in(j)) \in Places /\ Near(ts, j, E!Min(in(j)))
    <3>1. in(j) \in SUBSET Nat /\ in(j) # {} /\ j \in 1..Len(ts)
      BY PlacesAre
    <3>2. E!Min(in(j)) \in in(j)
      <4> HIDE DEF in
      <4> QED
        BY <3>1, MinIsLeast
    <3> QED
      BY <3>1, <3>2, <1>3
  <2>2. ASSUME NEW i \in M PROVE \E j \in hits : i = E!Min(in(j))
    <3>1. PICK j \in 1..Len(ts) : Takes(m, ts, j, i)
      BY <1>5
    <3>2. Near(ts, j, i) /\ i \in Places
      BY <3>1 DEF Takes
    <3>3. j \in hits
      BY <3>2, <1>8
    <3> HIDE DEF hits, in
    <3>4. i = E!Min(in(j))
      BY <3>2, <3>3, <2>1
    <3> QED
      BY <3>3, <3>4
  <2> HIDE DEF in, M
  <2>3. ASSUME NEW j \in hits PROVE E!Min(in(j)) \in M
    <3>1. j \in 1..Len(ts)
      OBVIOUS
    <3> HIDE DEF hits
    <3> QED
      BY <3>1, <2>1, <1>6
  <2> HIDE DEF hits
  <2> QED
    BY <2>2, <2>3
<1>12. E!MatchAlertsToCrashes(ts) =
         E!Counts(Cardinality(M), Len(ts) - Cardinality(M), Len(E!Events) - Cardinality(M))
  BY <1>2, SameSize DEF E!MatchAlertsToCrashes
<1>13. E!RunBacktest(ts) = E!Counts(Cardinality(caught), Cardinality(stray), Len(E!Events) - Cardinality(caught))
  <2> HIDE DEF M, hits, firsts, in
  <2> QED
    BY <1>1, SameSize DEF E!RunBacktest
<1>14. E!Evaluate(ts) = E!Counts(Cardinality(hits), Len(ts) - Cardinality(hits), Len(E!Events) - Cardinality(firsts))
  BY <1>1, SameSize DEF E!Evaluate
<1> HIDE DEF M, caught, stray, hits, firsts
<1> QED
  BY <1>7, <1>9, <1>10, <1>11, <1>12, <1>13, <1>14

\* What the metrics count, of any day that the loops have been over.
LEMMA CountsHold == EvaluationInv => E!CountsAreRight
<1> SUFFICES ASSUME EvaluationInv PROVE E!CountsAreRight
  OBVIOUS
<1>1. EventsInOrder /\ Grace \in Nat
  BY EventsFollow, OfflineAssumption
<1>2. Times(alerts) /\ Times(fired) /\ Times(baseline.alerts)
  BY DEF EvaluationInv, AlertsInv, BaselineInv
<1>3. ASSUME NEW ts, Times(ts) PROVE E!MatchAlertsToCrashes(ts).tp = E!MostCatches(ts)
  <2>1. PICK m : Claims(m, ts) /\ E!FoldLeft(E!Claim, {}, ts) = m[Len(ts)]
    BY <1>3, ClaimsExist DEF Times
  <2>2. E!MatchAlertsToCrashes(ts).tp = E!Cardinality(m[Len(ts)])
    BY <2>1 DEF E!MatchAlertsToCrashes, E!Counts
  <2> QED
    BY <2>1, <2>2, <1>1, <1>3, ClaimsAreMost
<1>4. E!MatchIsMaximum
  BY <1>2, <1>3 DEF E!MatchIsMaximum, E!RunDay, E!RunTcnBacktest, E!RunFullCascade, E!OfDay, E!EvaluateAlerts
<1>5. E!MatchersAgree
  <2> SUFFICES ASSUME \A i \in DOMAIN E!Events, j \in DOMAIN alerts :
                        E!Within(alerts[j], E!Events[i], Grace) => E!Within(alerts[j], E!Events[i], 0),
                      \A i \in DOMAIN E!Events :
                        E!Cardinality({j \in DOMAIN alerts : E!Within(alerts[j], E!Events[i], Grace)}) <= 1,
                      \A j \in DOMAIN alerts :
                        E!Cardinality({i \in DOMAIN E!Events : E!Within(alerts[j], E!Events[i], Grace)}) <= 1
               PROVE  \A canonical \in E!RunDay, counts \in {E!RunBacktest(alerts)} \cup E!ScoreDay \cup E!EvalDay :
                        counts = canonical
    BY DEF E!MatchersAgree
  <2>1. alerts \in Seq(Nat) /\ DOMAIN alerts = 1..Len(alerts) /\ DOMAIN E!Events = Places
    BY <1>1, <1>2, LenProperties, PlacesAre DEF Times
  <2>2. ASSUME NEW j \in 1..Len(alerts), NEW k \in 1..Len(alerts), NEW i \in Places,
               Near(alerts, j, i), Near(alerts, k, i)
        PROVE  j = k
    <3> DEFINE S == {x \in DOMAIN alerts : E!Within(alerts[x], E!Events[i], Grace)}
    <3>1. j \in S /\ k \in S /\ S \in SUBSET (1..Len(alerts)) /\ Cardinality(S) <= 1
      BY <2>1, <2>2, SameSize DEF Near
    <3>2. IsFiniteSet(S)
      BY <3>1, <1>1, <2>1, SizesOf
    <3> HIDE DEF S
    <3> QED
      BY <3>1, <3>2, AtMostOne
  <2>3. ASSUME NEW j \in 1..Len(alerts), NEW i \in Places, NEW g \in Places,
               Near(alerts, j, i), Near(alerts, j, g)
        PROVE  i = g
    <3> DEFINE S == {x \in DOMAIN E!Events : E!Within(alerts[j], E!Events[x], Grace)}
    <3>1. i \in S /\ g \in S /\ S \in SUBSET Places /\ Cardinality(S) <= 1
      BY <2>1, <2>3, SameSize DEF Near
    <3>2. IsFiniteSet(S)
      BY <3>1, <1>1, <2>1, SizesOf
    <3> HIDE DEF S
    <3> QED
      BY <3>1, <3>2, AtMostOne
  <2>4. \A j \in 1..Len(alerts), i \in Places :
          Near(alerts, j, i) => E!Within(alerts[j], E!Events[i], 0)
    BY <2>1 DEF Near
  <2>5. /\ E!RunBacktest(alerts) = E!MatchAlertsToCrashes(alerts)
        /\ E!Evaluate(alerts) = E!MatchAlertsToCrashes(alerts)
    BY <1>1, <2>1, <2>2, <2>3, <2>4, CountsAgree
  <2> QED
    BY <2>5 DEF E!RunDay, E!ScoreDay, E!EvalDay, E!OfDay
<1> QED
  BY <1>4, <1>5 DEF E!CountsAreRight

-----------------------------------------------------------------------------
(***************************************************************************)
(* The theorems.                                                            *)
(***************************************************************************)
OfflineInv == CheckpointsInv /\ EvaluationInv

LEMMA DayStarts == E!Init => EvaluationInv
<1> SUFFICES ASSUME E!Init PROVE EvaluationInv
  OBVIOUS
<1>1. /\ <<>> \in Seq(Ticks) /\ <<>> \in Seq(Nat) /\ <<>> \in Seq(CrashEvents) /\ <<>> \in Seq(Rows)
      /\ <<>> \in Seq(Seq(Rows)) /\ Len(<<>>) = 0
  BY EmptySeq
<1>2. kind \in Kinds \cup {{}} /\ day = <<>> /\ N = 0 /\ crashes = <<>> /\ alerts = <<>>
      /\ fired = <<>> /\ hist = <<>> /\ window = <<>> /\ online = <<>>
  BY <1>1 DEF E!Init, N
<1>3. DayInv /\ AlertsInv
  BY <1>1, <1>2, OfflineAssumption DEF DayInv, AlertsInv, Times
<1>4. SwingInv
  BY DEF SwingInv, E!Init, E!Swing
<1>5. CrashesInv
  BY <1>1, <1>2 DEF CrashesInv
<1>6. BaselineInv
  BY <1>1 DEF BaselineInv, Times, E!Init
<1>7. WindowInv
  BY <1>1, <1>2, OfflineAssumption DEF WindowInv
<1> QED
  BY <1>3, <1>4, <1>5, <1>6, <1>7 DEF EvaluationInv

LEMMA DayGrows == EvaluationInv /\ E!Next => EvaluationInv'
<1> SUFFICES ASSUME EvaluationInv, NEW k \in kind, E!Tick(k) PROVE EvaluationInv'
  BY DEF E!Next
<1>1. DayInv
  BY DEF EvaluationInv
<1>2. PICK tick : /\ DayInv' /\ Grown(tick) /\ E!LabelCrashes(tick) /\ E!Replay(tick) /\ E!Fire(tick)
                  /\ E!RunBaselineBacktest(tick) /\ E!Stage3Feed(N + 1)
  BY <1>1, TickGrows
<1>3. AlertsInv' /\ SwingInv' /\ CrashesInv'
  BY <1>1, <1>2, ReplayKeeps, LabelCrashesKeeps DEF EvaluationInv
<1>4. BaselineInv' /\ WindowInv'
  BY <1>1, <1>2, BaselineKeeps, WindowKeeps DEF EvaluationInv
<1> QED
  BY <1>2, <1>3, <1>4 DEF EvaluationInv

LEMMA DayUntouched == EvaluationInv /\ UNCHANGED dayVars => EvaluationInv'
<1> SUFFICES ASSUME EvaluationInv, UNCHANGED dayVars PROVE EvaluationInv'
  OBVIOUS
<1>1. /\ kind' = kind /\ day' = day /\ swing' = swing /\ crashes' = crashes /\ alerts' = alerts
      /\ fired' = fired /\ baseline' = baseline /\ hist' = hist /\ window' = window /\ online' = online
  BY DEF dayVars
<1>2. DayInv' /\ AlertsInv'
  BY <1>1 DEF EvaluationInv, DayInv, AlertsInv, Times, N
<1>3. SwingInv'
  <2>1. E!Event(swing)' = E!Event(swing)
    BY <1>1 DEF E!Event
  <2>2. ASSUME NEW ev, NEW p, NEW q, E!Descent(ev, p, q) PROVE E!Descent(ev, p, q)'
    BY <1>1, <2>2 DEF E!Descent, E!Drops, E!Gap
  <2>3. ASSUME NEW p, NEW q, Falling(p, q) PROVE Falling(p, q)'
    BY <1>1, <2>1, <2>2, <2>3 DEF Falling, N, E!Gap
  <2>4. ASSUME NEW p PROVE (Peak(p) => Peak(p)') /\ (Steady(p) => Steady(p)')
    BY <1>1 DEF Peak, Steady, N, E!Drops, E!Gap
  <2> QED
    BY <1>1, <2>3, <2>4 DEF EvaluationInv, SwingInv, N
<1>4. CrashesInv'
  <2>1. ASSUME NEW ev, NEW p, NEW q, E!Descent(ev, p, q) PROVE E!Descent(ev, p, q)'
    BY <1>1, <2>1 DEF E!Descent, E!Drops, E!Gap
  <2>2. ASSUME NEW ev, NEW ts, Apart(ev, ts) PROVE Apart(ev, ts)'
    BY <1>1, <2>2 DEF Apart, N, E!Recovered
  <2>3. CrashesInv /\ N' = N
    BY <1>1 DEF EvaluationInv, N
  <2>4. ASSUME NEW i \in 1..Len(crashes)
        PROVE  \E p, q \in 1..N : E!Descent(crashes[i], p, q)'
    <3>1. PICK ev : ev = crashes[i] /\ ev = crashes'[i]
      BY <1>1
    <3>2. PICK p \in 1..N, q \in 1..N : E!Descent(ev, p, q)
      BY <2>3, <3>1 DEF CrashesInv
    <3>3. E!Descent(ev, p, q)'
      BY <2>1, <3>2
    <3> QED
      BY <3>1, <3>3
  <2>5. /\ \A i \in 2..Len(crashes) : Apart(crashes[i - 1], crashes[i].start)'
        /\ Len(crashes) > 0 => Apart(crashes[Len(crashes)], swing.peakTs)'
    BY <2>2, <2>3, <1>1 DEF CrashesInv
  <2> QED
    BY <1>1, <2>3, <2>4, <2>5 DEF CrashesInv
<1>5. BaselineInv'
  BY <1>1 DEF EvaluationInv, BaselineInv, Times, N, E!Drops
<1>6. WindowInv'
  <2>1. WindowInv /\ N' = N
    BY <1>1 DEF EvaluationInv, N
  <2> QED
    BY <1>1, <2>1 DEF WindowInv
<1> QED
  BY <1>2, <1>3, <1>4, <1>5, <1>6 DEF EvaluationInv

\* The inductive invariant: checkpoints, trainer, manifest and server on one
\* side, a day and what the loops over it have found on the other.
THEOREM OfflineInvariant == Spec => []OfflineInv
<1>1. Init => OfflineInv
  BY CheckpointsStart, DayStarts DEF Init, OfflineInv
<1>2. OfflineInv /\ [Next]_<<checkpointVars, dayVars>> => OfflineInv'
  <2> SUFFICES ASSUME OfflineInv, [Next]_<<checkpointVars, dayVars>> PROVE OfflineInv'
    OBVIOUS
  <2>1. CASE C!Next /\ UNCHANGED dayVars
    BY <2>1, CheckpointsNext, DayUntouched DEF OfflineInv
  <2>2. CASE E!Next /\ UNCHANGED checkpointVars
    BY <2>2, ModelsUntouched, DayGrows DEF OfflineInv
  <2>3. CASE UNCHANGED <<checkpointVars, dayVars>>
    BY <2>3, ModelsUntouched, DayUntouched DEF OfflineInv
  <2> QED
    BY <2>1, <2>2, <2>3 DEF Next
<1> QED
  BY <1>1, <1>2, PTL DEF Spec

\* Checkpoints hold days, labels and normalizations that exist, the trainer and
\* the server are in one of their phases, the loops over a day in bounds
\* (train_*.py, server.py; labels.py, backtest.py, stage3_tcn.py).
THEOREM OfflineTypesHold == Spec => []TypeOK
<1>1. OfflineInv => TypeOK
  BY CheckpointsHold, DayHasTypes DEF OfflineInv, TypeOK
<1> QED
  BY <1>1, OfflineInvariant, PTL

\* The weights a trainer that keeps the best is about to save are those of an
\* epoch with the lowest loss, NaN losses or not (train_*.py, load_state_dict).
THEOREM BestIsSaved == Spec => []SavedIsBest
<1>1. OfflineInv => SavedIsBest
  BY CheckpointsHold DEF OfflineInv
<1> QED
  BY <1>1, OfflineInvariant, PTL

\* The model that serves is the one the manifest listed when it was checked,
\* saves between check and load apart, and a manifest that has been verified
\* refuses nothing (server.py, _verify_model_hash; model_manifest.py).
THEOREM ServedWasListed == Spec => []ServedIsVouchedFor
<1>1. OfflineInv => ServedIsVouchedFor
  BY CheckpointsHold DEF OfflineInv
<1> QED
  BY <1>1, OfflineInvariant, PTL

\* Labeled crashes are descents that happened, one for each, and every alert of
\* the circuit breaker is a drop from a price of the last minute
\* (data/labels.py, eval/backtest.py).
THEOREM LabeledDropsAreReal == Spec => []DetectedDropsAreReal
<1>1. OfflineInv => DetectedDropsAreReal
  BY DropsHappened DEF OfflineInv, DetectedDropsAreReal
<1> QED
  BY <1>1, OfflineInvariant, PTL

\* The batched scores of a day without a gap in its books are the scores of the
\* windows the stream has scored, each row normalized by the same history, with
\* every feature in it; on a day with a gap there are none, and the stream
\* leaves out a feature of exactly the rows with the gap in their history
\* (stage3_tcn.py, _normalize and normalize_z; run_backtest_batched.py).
THEOREM BatchedScoresAreOnline == Spec => []OfflineMatchesOnline
<1>1. OfflineInv => OfflineMatchesOnline
  BY BatchedIsOnline DEF OfflineInv, OfflineMatchesOnline
<1> QED
  BY <1>1, OfflineInvariant, PTL

\* A window is labeled 1 when, and only when, a crash-sized drop or a book
\* without a side follows within the lookahead, by the clock; 0 on a --normal
\* day.  Of the builders that count ticks the one with the longer lookahead
\* sees what the other sees (windows.py, the window builders).
THEOREM LabelsSayWhatFollows == Spec => []LabelsLookAhead
<1>1. OfflineInv => LabelsLookAhead
  BY LabelsFollow DEF OfflineInv, LabelsLookAhead
<1> QED
  BY <1>1, OfflineInvariant, PTL

\* The canonical matching and its copies catch as many events as any assignment
\* of alerts to events could, with a cooldown or without, and the metrics that
\* count on their own agree with it when nothing is ambiguous (metrics.py,
\* match_alerts_to_crashes; backtest.py and the backtest scripts).
THEOREM CatchesAreCounted == Spec => []CountsAreRight
<1>1. OfflineInv => CountsAreRight
  BY CountsHold DEF OfflineInv, CountsAreRight
<1> QED
  BY <1>1, OfflineInvariant, PTL
=============================================================================
