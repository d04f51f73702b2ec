------------------------------ MODULE MCOffline ------------------------------
(***************************************************************************)
(* From recorded days to the checkpoint that serves.  A behaviour is one    *)
(* of a day's ticks, which are labeled, windowed, replayed and scored       *)
(* (Evaluation), or of the processes around models/ (Checkpoints): only     *)
(* files of windows pass between the two, and they are inputs here.         *)
(***************************************************************************)
EXTENDS Naturals, Sequences, FiniteSets

CONSTANTS Days, CrashDays, HeldOut, MaxEpochs, MaxRuns,
          MaxTicks, CrashPct, RecoveryPct, PeakWindow, Grace, Cooldown,
          WindowSize, NormWindow, Lookahead

ASSUME OfflineAssumption ==
  /\ CrashDays \subseteq Days
  /\ {MaxEpochs, MaxRuns, MaxTicks, RecoveryPct, PeakWindow, Grace, Lookahead} \subseteq Nat
  /\ CrashPct \in 0..100
  /\ {WindowSize, NormWindow} \subseteq Nat \ {0}

VARIABLES store, manifest, writing, verified, trainer, server, runs,
          kind, day, swing, crashes, alerts, fired, baseline, hist, window, online

\* Days of one tick per second, on which some ticks alert: two crashes deep,
\* with a bounce that is too small to end one.  And days of two prices, with
\* ticks at one time or two seconds apart.
Prices == {0, 955, 960, 980, 1000}
Crashing == [dt : {1}, mid : Prices, fires : BOOLEAN]
NoAlerts == {FALSE}
Uneven == [dt : {0, 1, 2}, mid : {970, 1000}, fires : NoAlerts]
Kinds == {Crashing, Uneven}

C == INSTANCE Checkpoints
E == INSTANCE Evaluation WITH Kinds <- Kinds \cup {{}}

\* A day of no ticks, beside the checkpoints.
Init == C!Init /\ E!Init /\ (kind # {} => store = <<>> /\ manifest = C!Missing)
checkpointVars == <<store, manifest, writing, verified, trainer, server, runs>>
dayVars == <<kind, day, swing, crashes, alerts, fired, baseline, hist, window, online>>
Next == \/ kind = {} /\ C!Next /\ UNCHANGED dayVars
        \/ E!Next /\ UNCHANGED checkpointVars
Spec == Init /\ [][Next]_<<checkpointVars, dayVars>>

\* The properties, as the two modules state them.
TypeOK == C!TypeOK /\ E!TypeOK
SavedIsBest == C!SavedIsBest
ServedIsVouchedFor == C!VerifiedLoads /\ C!ServesPinned
AuditOkMeansNoLeak == C!AuditOkMeansNoLeak
DetectedDropsAreReal == E!DetectedDropsAreReal
CountsAreRight == E!CountsAreRight
OfflineMatchesOnline == E!OfflineMatchesOnline
LabelsLookAhead == E!LabelsLookAhead
CoveredWindowsAreKept == E!CoveredWindowsAreKept
=============================================================================
