--------------------------- MODULE CollectionProofs ---------------------------
(***************************************************************************)
(* Proofs about MCDataCollection: the recorders keep what they saved        *)
(* (CaptureInv), and whatever scripts run over the data directory, what     *)
(* they count is on disk, what is on disk is kept, and what is converted    *)
(* was complete (DatasetInv).  Every step of a run, and every turn of a     *)
(* recorder that is to stop, brings its end closer.                         *)
(*                                                                         *)
(* The dataset's invariant needs the job tables: every category of every    *)
(* script writes into directories of its own and every job of a category    *)
(* different files (Category), so that the work a run still has before it   *)
(* (Work) leaves alone what the run has counted.                            *)
(***************************************************************************)
EXTENDS MCDataCollection, SequenceTheorems, FiniteSetTheorems, TLAPS

(***************************************************************************)
(* The recorders.                                                           *)
(***************************************************************************)
Places == {"new", "connect", "waiting", "sleep", "final", "done", "raised", "cancelled"}
\* What a file may hold: records, or the mark of a torn one.
Saved == C!Kinds \cup {"torn"}
Torn == C!Torn
Starts(s, t) == Len(s) <= Len(t) /\ \A i \in 1..Len(s) : s[i] = t[i]

CaptureTypes ==
  /\ session \in Sessions /\ handler \in C!Recorders \cup {"none"} /\ interrupted \subseteq C!Recorders
  /\ pc \in [C!Recorders -> Places] /\ running \in [C!Recorders -> BOOLEAN]
  /\ records \in [C!Recorders -> Seq(C!Kinds)] /\ file \in [C!Recorders -> Seq(Saved)]
  /\ \A r \in C!Recorders : Len(records[r]) <= MaxRecords
  /\ failures \in Nat

\* The inductive invariant, of a recorder: its file starts its records, unless
\* it is torn, and is all of them once it is done; nothing is ever written
\* before there is a record, so that a torn file has some to mend it with.
Faithful(r) ==
  /\ Starts(file[r], records[r]) \/ (file[r] = Torn /\ (failures > 0 \/ alive = FALSE))
  /\ records[r] = <<>> => file[r] = <<>>
  /\ pc[r] = "done" => file[r] = records[r]
CaptureInv == CaptureTypes /\ \A r \in C!Recorders : Faithful(r)

-----------------------------------------------------------------------------
LEMMA StartsIsPrefix ==
  ASSUME NEW S, NEW s \in Seq(S), NEW T, NEW t \in Seq(T)
  PROVE  C!IsPrefix(s, t) <=> Starts(s, t)
<1>1. Len(s) \in Nat /\ Len(t) \in Nat
  BY LenProperties
<1>2. CASE Len(s) <= Len(t)
  <2>1. 1..Len(s) \subseteq DOMAIN s /\ 1..Len(s) \subseteq DOMAIN t
    BY <1>1, <1>2, LenProperties
  <2>2. /\ SubSeq(s, 1, Len(s)) = [i \in 1..Len(s) |-> s[i]]
        /\ SubSeq(t, 1, Len(s)) = [i \in 1..Len(s) |-> t[i]]
    BY <1>1
  <2> QED
    BY <1>2, <2>2 DEF C!IsPrefix, Starts
<1>3. CASE ~(Len(s) <= Len(t))
  BY <1>3 DEF C!IsPrefix, Starts
<1> QED
  BY <1>2, <1>3

LEMMA StartsItself == ASSUME NEW S, NEW s \in Seq(S) PROVE Starts(s, s)
  BY LenProperties DEF Starts

LEMMA StartsAppend ==
  ASSUME NEW S, NEW s \in Seq(S), NEW T, NEW t \in Seq(T), NEW e \in T, Starts(s, t)
  PROVE  Starts(s, Append(t, e))
<1>1. /\ Len(s) \in Nat /\ Len(t) \in Nat /\ Len(Append(t, e)) = Len(t) + 1 /\ Len(s) <= Len(t)
      /\ \A i \in 1..Len(t) : Append(t, e)[i] = t[i]
  BY LenProperties, AppendProperties DEF Starts
<1>2. \A i \in 1..Len(s) : i \in 1..Len(t)
  BY <1>1
<1> QED
  BY <1>1, <1>2 DEF Starts

\* Of the sequences a recorder may have handled: what it received is kept, or
\* appended to what it had.
LEMMA HandledStarts ==
  ASSUME NEW S, NEW s \in Seq(S), NEW t \in Seq(C!Kinds), NEW m \in C!Kinds, NEW q,
         q = t \/ q = Append(t, m)
  PROVE  q \in Seq(C!Kinds) /\ (Starts(s, t) => Starts(s, q)) /\ (q = <<>> => t = <<>>)
<1>1. CASE q = t
  BY <1>1
<1>2. CASE q = Append(t, m)
  <2>1. Append(t, m) \in Seq(C!Kinds) /\ Append(t, m) # <<>>
    BY AppendProperties, EmptySeq
  <2> QED
    BY <1>2, <2>1, StartsAppend
<1> QED
  BY <1>1, <1>2

LEMMA SeqOfMore ==
  ASSUME NEW S, NEW T, S \subseteq T, NEW q \in Seq(S)
  PROVE  q \in Seq(T)
<1>1. PICK n \in Nat : q \in [1..n -> S]
  BY SeqDef
<1>2. q \in [1..n -> T]
  BY <1>1
<1> QED
  BY <1>1, <1>2, SeqDef

LEMMA TornIsSaved == Torn \in Seq(Saved) /\ C!Kinds \subseteq Saved
  BY DEF Torn, C!Torn, Saved

\* A turn of one recorder, which handles a message or none, saves or does not,
\* and goes on elsewhere.
LEMMA TurnKeeps ==
  ASSUME CaptureInv, NEW r \in C!Recorders, pc[r] # "done",
         NEW p \in Places, pc' = [pc EXCEPT ![r] = p],
         NEW m \in C!Kinds, NEW q, q = records[r] \/ q = Append(records[r], m), Len(q) <= MaxRecords,
         records' = [records EXCEPT ![r] = q],
         UNCHANGED <<session, interrupted, alive>>,
         handler' \in C!Recorders \cup {"none"}, running' \in [C!Recorders -> BOOLEAN],
         \/ C!SaveOk(r)
         \/ C!SaveFails(r) /\ p # "done"
         \/ UNCHANGED <<file, failures>> /\ p # "done"
  PROVE  CaptureInv'
<1>1. /\ pc \in [C!Recorders -> Places] /\ records \in [C!Recorders -> Seq(C!Kinds)]
      /\ file \in [C!Recorders -> Seq(Saved)] /\ failures \in Nat
      /\ file[r] \in Seq(Saved) /\ records[r] \in Seq(C!Kinds) /\ Faithful(r)
  BY DEF CaptureInv, CaptureTypes
<1>2. q \in Seq(C!Kinds) /\ q \in Seq(Saved) /\ (Starts(file[r], records[r]) => Starts(file[r], q))
      /\ (q = <<>> => records[r] = <<>>)
  <2>1. q \in Seq(C!Kinds) /\ (Starts(file[r], records[r]) => Starts(file[r], q)) /\ (q = <<>> => records[r] = <<>>)
    BY <1>1, HandledStarts
  <2>2. C!Kinds \subseteq Saved
    BY TornIsSaved
  <2>4. q \in Seq(Saved)
    BY <2>1, <2>2, SeqOfMore
  <2> QED
    BY <2>1, <2>4
<1>3. records'[r] = q /\ C!Recorders' = C!Recorders
  BY <1>1 DEF C!Recorders
<1>4. PICK f \in Seq(Saved) :
        /\ file' = [file EXCEPT ![r] = f]
        /\ Starts(f, q) \/ (f = Torn /\ (failures' > 0 \/ alive' = FALSE))
        /\ q = <<>> => f = <<>>
        /\ p = "done" => f = q
        /\ failures' \in Nat /\ (failures > 0 => failures' > 0)
  <2>1. CASE UNCHANGED file /\ (p = "done" => q = <<>>) /\ UNCHANGED failures
    <3>1. file' = [file EXCEPT ![r] = file[r]]
      BY <1>1, <2>1
    <3>2. Starts(file[r], q) \/ (file[r] = Torn /\ (failures' > 0 \/ alive' = FALSE))
      BY <1>1, <1>2, <2>1 DEF Faithful
    <3>3. (q = <<>> => file[r] = <<>>) /\ (p = "done" => file[r] = q)
      BY <1>1, <1>2, <2>1 DEF Faithful
    <3> QED
      BY <1>1, <2>1, <3>1, <3>2, <3>3
  <2>2. CASE file' = [file EXCEPT ![r] = q] /\ UNCHANGED failures
    <3>1. Starts(q, q)
      BY <1>2, StartsItself
    <3> QED
      BY <1>1, <1>2, <2>2, <3>1
  <2>3. CASE C!SaveFails(r) /\ p # "done"
    <3>1. PICK f \in {file[r], Torn} : file' = [file EXCEPT ![r] = f]
      BY <2>3 DEF C!SaveFails, Torn
    <3>2. q # <<>> /\ failures' = failures + 1 /\ f \in Seq(Saved)
      BY <1>1, <1>3, <2>3, <3>1, TornIsSaved DEF C!SaveFails
    <3>3. failures' \in Nat /\ failures' > 0
      BY <1>1, <3>2
    <3>4. Starts(f, q) \/ f = Torn
      BY <1>1, <1>2, <3>1 DEF Faithful
    <3> QED
      BY <2>3, <3>1, <3>2, <3>3, <3>4
  <2>4. CASE C!SaveOk(r)
    BY <1>3, <2>1, <2>2, <2>4 DEF C!SaveOk
  <2> QED
    BY <2>1, <2>3, <2>4
<1>5. CaptureTypes'
  <2>1. pc' \in [C!Recorders -> Places] /\ records' \in [C!Recorders -> Seq(C!Kinds)]
    BY <1>1, <1>2
  <2>2. file' \in [C!Recorders -> Seq(Saved)]
    BY <1>1, <1>4
  <2>3. \A u \in C!Recorders : Len(records'[u]) <= MaxRecords
    BY <1>1 DEF CaptureInv, CaptureTypes
  <2> QED
    BY <1>3, <1>4, <2>1, <2>2, <2>3 DEF CaptureInv, CaptureTypes
<1>6. ASSUME NEW u \in C!Recorders PROVE Faithful(u)'
  <2>1. CASE u = r
    <3>1. records'[u] = q /\ file'[u] = f /\ pc'[u] = p
      BY <1>1, <1>4, <2>1
    <3> QED
      BY <1>4, <3>1 DEF Faithful
  <2>2. CASE u # r
    <3>1. records'[u] = records[u] /\ file'[u] = file[u] /\ pc'[u] = pc[u]
      BY <1>1, <1>4, <2>2
    <3>2. Faithful(u)
      BY DEF CaptureInv
    <3> QED
      BY <1>4, <3>1, <3>2 DEF Faithful
  <2> QED
    BY <2>1, <2>2
<1> QED
  BY <1>3, <1>5, <1>6 DEF CaptureInv

LEMMA StaysPut ==
  ASSUME CaptureInv, NEW r \in C!Recorders
  PROVE  /\ records = [records EXCEPT ![r] = records[r]] /\ Len(records[r]) <= MaxRecords
         /\ running \in [C!Recorders -> BOOLEAN] /\ handler \in C!Recorders \cup {"none"}
         /\ records[r] \in Seq(C!Kinds)
  BY DEF CaptureInv, CaptureTypes

LEMMA RecorderKeeps ==
  ASSUME CaptureInv, NEW r \in C!Recorders, C!Turn(r)
  PROVE  CaptureInv'
<1> USE DEF C!loop, C!At
<1>1. /\ records = [records EXCEPT ![r] = records[r]] /\ Len(records[r]) <= MaxRecords
      /\ running \in [C!Recorders -> BOOLEAN] /\ handler \in C!Recorders \cup {"none"}
      /\ records[r] \in Seq(C!Kinds)
  BY StaysPut
<1>2. "other" \in C!Kinds
  BY DEF C!Kinds
<1>3. CASE C!Begin(r)
  <2>1. /\ pc[r] = "new" /\ pc' = [pc EXCEPT ![r] = "connect"] /\ running' = [running EXCEPT ![r] = TRUE]
        /\ handler' = r /\ UNCHANGED <<session, records, file, interrupted, failures, alive>>
    BY <1>3 DEF C!Begin
  <2>2. running' \in [C!Recorders -> BOOLEAN] /\ "connect" \in Places
    BY <1>1, <2>1 DEF Places
  <2> QED
    BY <1>1, <1>2, <2>1, <2>2, TurnKeeps
<1>4. CASE C!Connect(r) \/ C!Broken(r) \/ C!Wake(r)
  <2>1. PICK p \in Places \ {"done"} : pc' = [pc EXCEPT ![r] = p]
    BY <1>4 DEF C!Connect, C!Broken, C!Wake, Places
  <2>2. /\ pc[r] # "done" /\ UNCHANGED <<session, handler, interrupted, running, records, file, failures, alive>>
    BY <1>4 DEF C!Connect, C!Broken, C!Wake
  <2> QED
    BY <1>1, <1>2, <2>1, <2>2, TurnKeeps
<1>5. ASSUME C!SaveIfDue(r)
      PROVE  \E p \in Places \ {"done"} :
                /\ pc' = [pc EXCEPT ![r] = p]
                /\ C!SaveOk(r) \/ C!SaveFails(r) \/ UNCHANGED <<file, failures>>
  <2>1. C!AfterIteration(r) \in Places \ {"done"} /\ "sleep" \in Places \ {"done"}
    BY DEF C!AfterIteration, Places
  <2> QED
    BY <1>5, <2>1 DEF C!SaveIfDue
<1>6. CASE C!Timeout(r)
  <2>1. /\ pc[r] = "waiting" /\ UNCHANGED <<session, handler, interrupted, running, records, alive>>
        /\ C!SaveIfDue(r)
    BY <1>6 DEF C!Timeout
  <2> QED
    BY <1>1, <1>2, <1>5, <2>1, TurnKeeps
<1>7. ASSUME NEW m \in C!Kinds, C!Receive(r, m) PROVE CaptureInv'
  <2> DEFINE q == IF C!Handle(r, m) = "record" THEN Append(records[r], m) ELSE records[r]
  <2>1. /\ pc[r] = "waiting" /\ UNCHANGED <<session, handler, interrupted, running, alive>>
        /\ C!SaveIfDue(r) /\ records' = [records EXCEPT ![r] = q]
        /\ C!Handle(r, m) = "record" => Len(records[r]) < MaxRecords
    BY <1>7 DEF C!Receive
  <2>2. (q = records[r] \/ q = Append(records[r], m)) /\ Len(q) <= MaxRecords
    <3>1. Len(Append(records[r], m)) = Len(records[r]) + 1 /\ Len(records[r]) \in Nat /\ MaxRecords \in Nat
      BY <1>1, AppendProperties, LenProperties, CollectionAssumption
    <3>2. C!Handle(r, m) = "record" => Len(Append(records[r], m)) <= MaxRecords
      BY <2>1, <3>1
    <3> QED
      BY <1>1, <3>2
  <2> HIDE DEF q
  <2> QED
    BY <1>1, <1>5, <2>1, <2>2, TurnKeeps
<1>8. CASE C!Final(r)
  <2>1. /\ pc[r] = "final" /\ UNCHANGED <<session, handler, interrupted, running, records, alive>>
        /\ \/ C!SaveOk(r) /\ pc' = [pc EXCEPT ![r] = "done"]
           \/ C!SaveFails(r) /\ pc' = [pc EXCEPT ![r] = "raised"]
    BY <1>8 DEF C!Final
  <2>2. "done" \in Places /\ "raised" \in Places
    BY DEF Places
  <2> QED
    BY <1>1, <1>2, <2>1, <2>2, TurnKeeps
<1> QED
  BY <1>3, <1>4, <1>6, <1>7, <1>8 DEF C!Turn

\* A step that lets every recorder keep its records and its file; one that had
\* ended ends as it did.
LEMMA QuietKeeps ==
  ASSUME CaptureInv, UNCHANGED <<session, handler, records, file, failures>>,
         pc' \in [C!Recorders -> Places], \A r \in C!Recorders : pc'[r] = "done" => pc[r] = "done",
         running' \in [C!Recorders -> BOOLEAN], interrupted' \subseteq C!Recorders,
         alive = FALSE => alive' = FALSE
  PROVE  CaptureInv'
<1>1. C!Recorders' = C!Recorders
  BY DEF C!Recorders
<1>2. CaptureTypes'
  BY <1>1 DEF CaptureInv, CaptureTypes
<1>3. \A r \in C!Recorders : Faithful(r)'
  BY DEF CaptureInv, Faithful
<1> QED
  BY <1>1, <1>2, <1>3 DEF CaptureInv

LEMMA KilledKeeps ==
  ASSUME CaptureInv, C!Killed
  PROVE  CaptureInv'
<1>1. /\ alive' = FALSE /\ UNCHANGED <<session, pc, running, records, handler, interrupted, failures>>
      /\ C!Recorders' = C!Recorders
  BY DEF C!Killed, C!Recorders
<1>2. CASE UNCHANGED file
  BY <1>1, <1>2, QuietKeeps DEF CaptureInv, CaptureTypes
<1>3. ASSUME NEW r \in C!Recorders, records[r] # <<>>, pc[r] \in {"waiting", "final"},
             file' = [file EXCEPT ![r] = Torn]
      PROVE  CaptureInv'
  <2>1. file \in [C!Recorders -> Seq(Saved)]
    BY DEF CaptureInv, CaptureTypes
  <2>2. CaptureTypes'
    <3>1. file' \in [C!Recorders -> Seq(Saved)]
      BY <1>3, <2>1, TornIsSaved
    <3> QED
      BY <1>1, <3>1 DEF CaptureInv, CaptureTypes
  <2>3. ASSUME NEW u \in C!Recorders PROVE Faithful(u)'
    <3>1. Faithful(u) /\ UNCHANGED <<records, pc, failures>> /\ alive' = FALSE
      BY <1>1 DEF CaptureInv
    <3>2. CASE u = r
      <4>1. file'[u] = Torn
        BY <1>3, <2>1, <3>2
      <4> QED
        BY <1>3, <3>1, <3>2, <4>1 DEF Faithful
    <3>3. CASE u # r
      <4>1. file'[u] = file[u]
        BY <1>3, <2>1, <3>3
      <4> QED
        BY <3>1, <4>1 DEF Faithful
    <3> QED
      BY <3>2, <3>3
  <2> QED
    BY <1>1, <2>2, <2>3 DEF CaptureInv
<1> QED
  BY <1>2, <1>3 DEF C!Killed, Torn

LEMMA CaptureInit == ASSUME C!Init PROVE CaptureInv
<1>1. /\ session \in Sessions /\ handler = "none" /\ interrupted = {} /\ failures = 0
      /\ pc = [r \in C!Recorders |-> "new"] /\ running = [r \in C!Recorders |-> FALSE]
      /\ records = [r \in C!Recorders |-> <<>>] /\ file = [r \in C!Recorders |-> <<>>]
  BY DEF C!Init
<1>2. \A S : <<>> \in Seq(S) /\ Len(<<>>) = 0
  OBVIOUS
<1>3. records \in [C!Recorders -> Seq(C!Kinds)] /\ file \in [C!Recorders -> Seq(Saved)]
  BY <1>1, <1>2
<1>4. \A r \in C!Recorders : Len(records[r]) <= MaxRecords
  BY <1>1, <1>2, CollectionAssumption
<1>5. pc \in [C!Recorders -> Places] /\ running \in [C!Recorders -> BOOLEAN]
  BY <1>1 DEF Places
<1>6. Starts(<<>>, <<>>)
  BY <1>2 DEF Starts
<1>7. \A r \in C!Recorders : Faithful(r)
  BY <1>1, <1>6 DEF Faithful
<1> QED
  BY <1>1, <1>3, <1>4, <1>5, <1>7 DEF CaptureInv, CaptureTypes

LEMMA CaptureKeeps ==
  ASSUME CaptureInv, [C!Next]_captureVars
  PROVE  CaptureInv'
<1>1. /\ pc \in [C!Recorders -> Places] /\ running \in [C!Recorders -> BOOLEAN]
      /\ interrupted \subseteq C!Recorders /\ handler \in C!Recorders \cup {"none"}
      /\ file \in [C!Recorders -> Seq(Saved)]
  BY DEF CaptureInv, CaptureTypes
<1>2. CASE UNCHANGED captureVars
  BY <1>1, <1>2, QuietKeeps DEF captureVars
<1>3. ASSUME NEW r \in C!Recorders, C!SaveFallsDue(r) PROVE CaptureInv'
  BY <1>1, <1>3, QuietKeeps DEF C!SaveFallsDue, C!loop
<1>4. CASE C!DurationElapses
  BY <1>1, <1>4, QuietKeeps DEF C!DurationElapses
<1>5. CASE C!Interrupt
  <2>1. handler \in C!Recorders /\ running' = [running EXCEPT ![handler] = FALSE]
        /\ interrupted' = interrupted \cup {handler}
        /\ UNCHANGED <<session, pc, records, file, handler, failures, alive>>
    BY <1>1, <1>5 DEF C!Interrupt
  <2>2. running' \in [C!Recorders -> BOOLEAN] /\ interrupted' \subseteq C!Recorders
    BY <1>1, <2>1
  <2> QED
    BY <1>1, <2>1, <2>2, QuietKeeps
<1>6. CASE C!GatherCancels
  <2>1. pc' = [r \in C!Recorders |-> IF C!Ended(r) THEN pc[r] ELSE "cancelled"] /\ alive' = FALSE
        /\ UNCHANGED <<session, running, records, file, handler, interrupted, failures>>
    BY <1>6 DEF C!GatherCancels
  <2>2. pc' \in [C!Recorders -> Places] /\ \A r \in C!Recorders : pc'[r] = "done" => pc[r] = "done"
    BY <1>1, <2>1 DEF Places
  <2> QED
    BY <1>1, <2>1, <2>2, QuietKeeps
<1> QED
  BY <1>2, <1>3, <1>4, <1>5, <1>6, RecorderKeeps, KilledKeeps DEF C!Next

LEMMA CaptureGoal ==
  ASSUME CaptureInv
  PROVE  C!TypeOK /\ C!FileIsPrefix /\ C!FinishedIsSaved
<1>1. ASSUME NEW r \in C!Recorders
      PROVE  /\ pc[r] \in Places /\ records[r] \in Seq(C!Kinds) /\ file[r] \in Seq(Saved) /\ Faithful(r)
             /\ Len(records[r]) <= MaxRecords /\ Len(records[r]) \in Nat /\ Len(file[r]) \in Nat
             /\ \A i \in DOMAIN records[r] : records[r][i] \in C!Kinds
             /\ C!IsPrefix(file[r], records[r]) <=> Starts(file[r], records[r])
  <2>1. /\ pc[r] \in Places /\ records[r] \in Seq(C!Kinds) /\ file[r] \in Seq(Saved) /\ Faithful(r)
        /\ Len(records[r]) <= MaxRecords
    BY DEF CaptureInv, CaptureTypes
  <2>2. Len(records[r]) \in Nat /\ Len(file[r]) \in Nat
    BY <2>1, LenProperties
  <2>3. \A i \in DOMAIN records[r] : records[r][i] \in C!Kinds
    BY <2>1, LenProperties, ElementOfSeq
  <2>4. C!IsPrefix(file[r], records[r]) <=> Starts(file[r], records[r])
    BY <2>1, StartsIsPrefix
  <2> QED
    BY <2>1, <2>2, <2>3, <2>4
<1>2. \A r \in C!Recorders : file[r] = C!Torn \/ Len(file[r]) <= MaxRecords
  <2>1. MaxRecords \in Nat
    BY CollectionAssumption
  <2>2. ASSUME NEW r \in C!Recorders, file[r] # C!Torn PROVE Len(file[r]) <= MaxRecords
    <3>1. Len(file[r]) <= Len(records[r])
      BY <1>1, <2>2 DEF Faithful, Starts, Torn
    <3> QED
      BY <1>1, <2>1, <3>1
  <2> QED
    BY <2>2
<1>3. C!TypeOK
  <2>1. DOMAIN pc = C!Recorders /\ DOMAIN records = C!Recorders
    BY DEF CaptureInv, CaptureTypes
  <2>2. session \in Sessions /\ handler \in C!Recorders \cup {"none"} /\ interrupted \subseteq C!Recorders
    BY DEF CaptureInv, CaptureTypes
  <2> QED
    BY <1>1, <1>2, <2>1, <2>2 DEF C!TypeOK, Places
<1>4. C!FileIsPrefix
  BY <1>1 DEF C!FileIsPrefix, Faithful, Torn
<1>5. C!FinishedIsSaved
  BY <1>1 DEF C!FinishedIsSaved, Faithful
<1> QED
  BY <1>3, <1>4, <1>5

-----------------------------------------------------------------------------
(***************************************************************************)
(* The job tables.                                                          *)
(***************************************************************************)
\* What is rewritten by design, and the scripts that count what merely exists.
Rewritten == {"more/equities", "more/context", "data/parquet"}
Lax == {"all", "binance", "convert_all"}

IsSeq(q) == q \in Seq({q[i] : i \in DOMAIN q})

\* Whoever counts the file f looked at the body.
Sees(f, s) == f[1] \in D!Examined \/ s = "bybit"

\* Nothing that j makes is opened again by k, whose attempts look for bytes.
Spares(k, f) == \A l \in DOMAIN k : k[l].by.skip # "exists" => k[l].out # f
Apart(j, k)  == \A i \in DOMAIN j : Spares(k, j[i].out)

\* A job's attempts, as the script s that has it may make them while the
\* archives zips are on disk.
GoodTry(t, s, zips) ==
  /\ 1 \in DOMAIN t.out /\ t.by.accepts \subseteq D!Answers
  /\ Sees(t.out, s) => "nothing" \notin t.by.accepts
  /\ t.by.skip \in {"bytes", "exists", "never"} /\ (s \notin Lax => t.by.skip # "exists")
  /\ t.by.skip = "never" => t.out[1] \in Rewritten
  /\ t.by.local = TRUE \/ t.by.local = FALSE
  /\ t.by.local = TRUE => /\ t.by.accepts = {"data"} /\ t.from \in zips /\ t.out = D!Parquet(t.from)
                          /\ t.out[1] = "data/parquet"
  /\ t.out[1] = "data/parquet" => t.by.local = TRUE
GoodTries(q, s, zips) == IsSeq(q) /\ \A i \in DOMAIN q : GoodTry(q[i], s, zips)
GoodJob(j, s, zips) == GoodTries(j, s, zips) /\ j # <<>>

\* A category of the script s: its files are in the directories dirs, and its
\* jobs make different ones.
Within(j, dirs) == \A i \in DOMAIN j : j[i].out[1] \in dirs
Category(J, dirs, s, zips) ==
  /\ \A j \in J : GoodJob(j, s, zips) /\ Within(j, dirs)
  /\ \A j, k \in J : j # k => Apart(j, k)

\* The script s may download with the helper into the directory dir.
Fits(dir, helper, s) ==
  /\ helper.local = FALSE /\ helper.accepts \subseteq D!Answers
  /\ dir \in D!Examined \/ s = "bybit" => "nothing" \notin helper.accepts
  /\ helper.skip \in {"bytes", "exists", "never"} /\ (s \notin Lax => helper.skip # "exists")
  /\ helper.skip = "never" => dir \in Rewritten
  /\ dir # "data/parquet"
Into(t, dir, helper) == t = D!Try(t.out, helper) /\ 1 \in DOMAIN t.out /\ t.out[1] = dir

-----------------------------------------------------------------------------
LEMMA SeqIsSeq ==
  ASSUME NEW S, NEW q \in Seq(S)
  PROVE  IsSeq(q)
<1>1. PICK n \in Nat : q \in [1..n -> S]
  BY SeqDef
<1>2. q \in [1..n -> {q[i] : i \in DOMAIN q}]
  BY <1>1
<1> QED
  BY <1>1, <1>2, SeqDef DEF IsSeq

LEMMA TimesIs ==
  ASSUME NEW n \in Nat \ {0}, NEW t
  PROVE  /\ IsSeq(D!Times(n, t)) /\ D!Times(n, t) # <<>> /\ DOMAIN D!Times(n, t) = 1..n
         /\ \A i \in DOMAIN D!Times(n, t) : D!Times(n, t)[i] = t
<1> DEFINE q == D!Times(n, t)
<1>1. q \in [1..n -> {t}] /\ DOMAIN q = 1..n /\ \A i \in DOMAIN q : q[i] = t
  BY DEF D!Times
<1>2. {q[i] : i \in DOMAIN q} = {t}
  <2>1. 1 \in DOMAIN q
    BY <1>1
  <2> QED
    BY <1>1, <2>1
<1>3. q # <<>>
  BY <1>1
<1> HIDE DEF q
<1>4. q \in Seq({t})
  BY <1>1, SeqDef
<1>5. IsSeq(q)
  BY <1>2, <1>4 DEF IsSeq
<1> QED
  BY <1>1, <1>3, <1>5 DEF q

LEMMA OneIs ==
  ASSUME NEW t
  PROVE  /\ IsSeq(<<t>>) /\ <<t>> # <<>> /\ DOMAIN <<t>> = 1..1 /\ <<t>>[1] = t
         /\ \A i \in DOMAIN <<t>> : <<t>>[i] = t
<1>1. {<<t>>[i] : i \in DOMAIN <<t>>} = {t} /\ <<t>> \in Seq({t})
  OBVIOUS
<1> QED
  BY <1>1 DEF IsSeq

LEMMA FirstOf == ASSUME NEW j, IsSeq(j), j # <<>> PROVE 1 \in DOMAIN j
<1>1. j \in Seq({j[i] : i \in DOMAIN j})
  BY DEF IsSeq
<1> QED
  BY <1>1, EmptySeq, LenProperties

\* The helpers, by what they look at.
Raw(helper) ==
  helper.skip = "bytes" /\ helper.accepts = D!Answers /\ helper.local = FALSE
Examining(helper) ==
  /\ helper.skip = "bytes" /\ helper.local = FALSE
  /\ helper.accepts \subseteq D!Answers /\ "nothing" \notin helper.accepts
Rewriter(helper) ==
  /\ helper.skip = "never" /\ helper.local = FALSE
  /\ helper.accepts \subseteq D!Answers /\ "nothing" \notin helper.accepts
LaxHelper(helper) ==
  helper.skip = "exists" /\ helper.accepts = D!Answers /\ helper.local = FALSE

LEMMA RawHelpers ==
  Raw(D!EverythingDownloadFile) /\ Raw(D!FixedDownloadFile) /\ Raw(D!ExtendedDownloadFile)
<1>1. PICK helper : helper = D!Helper("bytes", D!Answers)
  OBVIOUS
<1>2. helper.skip = "bytes" /\ helper.accepts = D!Answers /\ helper.local = FALSE
  BY <1>1 DEF D!Helper
<1>3. Raw(helper)
  BY <1>2 DEF Raw
<1> QED
  BY <1>1, <1>3 DEF D!EverythingDownloadFile, D!FixedDownloadFile, D!ExtendedDownloadFile

LEMMA ExaminingHelpers ==
  Examining(D!FixedDownloadJson) /\ Examining(D!BybitDownloadFile) /\ Examining(D!BybitDownloadJson)
<1>1. /\ {"data", "refusal"} \subseteq D!Answers /\ "nothing" \notin {"data", "refusal"}
      /\ {"data"} \subseteq D!Answers /\ "nothing" \notin {"data"}
      /\ D!Answers \ {"short", "nothing"} \subseteq D!Answers
      /\ "nothing" \notin D!Answers \ {"short", "nothing"}
  BY DEF D!Answers
<1>2. /\ D!FixedDownloadJson.skip = "bytes" /\ D!FixedDownloadJson.accepts = {"data", "refusal"}
      /\ D!FixedDownloadJson.local = FALSE
  BY DEF D!FixedDownloadJson, D!Helper
<1>3. /\ D!BybitDownloadFile.skip = "bytes" /\ D!BybitDownloadFile.accepts = D!Answers \ {"short", "nothing"}
      /\ D!BybitDownloadFile.local = FALSE
  BY DEF D!BybitDownloadFile, D!Helper
<1>4. /\ D!BybitDownloadJson.skip = "bytes" /\ D!BybitDownloadJson.accepts = {"data"}
      /\ D!BybitDownloadJson.local = FALSE
  BY DEF D!BybitDownloadJson, D!Helper
<1> QED
  BY <1>1, <1>2, <1>3, <1>4 DEF Examining

LEMMA Rewriters == Rewriter(D!History) /\ Rewriter(D!ContextGet)
<1>1. /\ {"data"} \subseteq D!Answers /\ {"data", "refusal"} \subseteq D!Answers
      /\ "nothing" \notin {"data"} /\ "nothing" \notin {"data", "refusal"}
  BY DEF D!Answers
<1>2. D!History.skip = "never" /\ D!History.accepts = {"data"} /\ D!History.local = FALSE
  BY DEF D!History, D!Helper
<1>3. D!ContextGet.skip = "never" /\ D!ContextGet.accepts = {"data", "refusal"} /\ D!ContextGet.local = FALSE
  BY DEF D!ContextGet, D!Helper
<1> QED
  BY <1>1, <1>2, <1>3 DEF Rewriter

LEMMA LaxHelpers == LaxHelper(D!AllDownloadFile) /\ LaxHelper(D!RetrieveFile)
<1>1. /\ D!AllDownloadFile.skip = "exists" /\ D!AllDownloadFile.accepts = D!Answers
      /\ D!AllDownloadFile.local = FALSE
  BY DEF D!AllDownloadFile, D!Helper
<1>2. D!RetrieveFile.skip = "exists" /\ D!RetrieveFile.accepts = D!Answers /\ D!RetrieveFile.local = FALSE
  BY DEF D!RetrieveFile, D!Helper
<1> QED
  BY <1>1, <1>2 DEF LaxHelper

LEMMA HelpersFit ==
  ASSUME NEW dir, NEW helper, NEW s, dir # "data/parquet",
         \/ Raw(helper) /\ dir \notin D!Examined /\ s # "bybit"
         \/ Examining(helper)
         \/ Rewriter(helper) /\ dir \in Rewritten
         \/ LaxHelper(helper) /\ dir \notin D!Examined /\ s \in {"all", "binance"}
  PROVE  Fits(dir, helper, s)
  BY DEF Fits, Raw, Examining, Rewriter, LaxHelper, Lax

LEMMA GoodInto ==
  ASSUME NEW dir, NEW helper, NEW s, NEW zips, Fits(dir, helper, s), NEW t, Into(t, dir, helper)
  PROVE  GoodTry(t, s, zips)
<1>1. t.by = helper /\ 1 \in DOMAIN t.out /\ t.out[1] = dir
  BY DEF Into, D!Try
<1> QED
  BY <1>1 DEF Fits, GoodTry, Sees

\* A job of its own for each of the tries T into one directory.
LEMMA TimesCategory ==
  ASSUME NEW n \in Nat \ {0}, NEW dir, NEW helper, NEW s, NEW zips, Fits(dir, helper, s),
         NEW T, \A t \in T : Into(t, dir, helper)
  PROVE  Category({D!Times(n, t) : t \in T}, {dir}, s, zips)
<1>1. ASSUME NEW t \in T
      PROVE  GoodJob(D!Times(n, t), s, zips) /\ Within(D!Times(n, t), {dir})
  <2>1. GoodTry(t, s, zips) /\ t.out[1] = dir
    BY GoodInto DEF Into
  <2> QED
    BY <2>1, TimesIs DEF GoodJob, GoodTries, Within
<1>2. ASSUME NEW t \in T, NEW u \in T, D!Times(n, t) # D!Times(n, u)
      PROVE  Apart(D!Times(n, t), D!Times(n, u))
  <2>1. t.out # u.out
    BY <1>2 DEF Into
  <2> QED
    BY <2>1, TimesIs DEF Apart, Spares
<1> QED
  BY <1>1, <1>2 DEF Category

LEMMA OnesCategory ==
  ASSUME NEW dir, NEW helper, NEW s, NEW zips, Fits(dir, helper, s),
         NEW T, \A t \in T : Into(t, dir, helper)
  PROVE  Category({<<t>> : t \in T}, {dir}, s, zips)
<1>1. ASSUME NEW t \in T
      PROVE  GoodJob(<<t>>, s, zips) /\ Within(<<t>>, {dir})
  <2>1. GoodTry(t, s, zips) /\ t.out[1] = dir
    BY GoodInto DEF Into
  <2>2. PICK j : j = <<t>> /\ IsSeq(j) /\ j # <<>> /\ \A i \in DOMAIN j : j[i] = t
    BY OneIs
  <2>3. GoodJob(j, s, zips) /\ Within(j, {dir})
    BY <2>1, <2>2 DEF GoodJob, GoodTries, Within
  <2> QED
    BY <2>2, <2>3
<1>2. ASSUME NEW t \in T, NEW u \in T, <<t>> # <<u>>
      PROVE  Apart(<<t>>, <<u>>)
  <2>1. t.out # u.out
    <3>1. t # u
      BY <1>2
    <3> QED
      BY <3>1 DEF Into
  <2>2. PICK j : j = <<t>> /\ \A i \in DOMAIN j : j[i] = t
    BY OneIs
  <2>3. PICK k : k = <<u>> /\ \A i \in DOMAIN k : k[i] = u
    BY OneIs
  <2>4. Apart(j, k)
    BY <2>1, <2>2, <2>3 DEF Apart, Spares
  <2> QED
    BY <2>2, <2>3, <2>4
<1> QED
  BY <1>1, <1>2 DEF Category

DayTries(dir, helper) == {D!Try(<<dir, d>>, helper) : d \in Dates}
SymbolTries(dir, helper) == {D!Try(<<dir, s, d>>, helper) : s \in Symbols, d \in Dates}

LEMMA TriesAreInto ==
  ASSUME NEW dir, NEW helper
  PROVE  /\ \A t \in DayTries(dir, helper) : Into(t, dir, helper)
         /\ \A t \in SymbolTries(dir, helper) : Into(t, dir, helper)
         /\ Into(D!Try(<<dir>>, helper), dir, helper)
         /\ \A a : Into(D!Try(<<dir, a>>, helper), dir, helper)
         /\ \A a, b : Into(D!Try(<<dir, a, b>>, helper), dir, helper)
  BY DEF DayTries, SymbolTries, Into, D!Try

LEMMA EachIs ==
  ASSUME NEW dir, NEW helper
  PROVE  /\ D!EachDay(dir, helper) = {<<t>> : t \in DayTries(dir, helper)}
         /\ D!EachSymbolDay(dir, helper) = {<<t>> : t \in SymbolTries(dir, helper)}
<1>1. ASSUME NEW j
      PROVE  j \in D!EachDay(dir, helper) <=> j \in {<<t>> : t \in DayTries(dir, helper)}
  BY DEF D!EachDay, DayTries
<1>2. ASSUME NEW j
      PROVE  j \in D!EachSymbolDay(dir, helper) <=> j \in {<<t>> : t \in SymbolTries(dir, helper)}
  <2>1. ASSUME NEW s \in Symbols, NEW d \in Dates, j = <<D!Try(<<dir, s, d>>, helper)>>
        PROVE  j \in {<<t>> : t \in SymbolTries(dir, helper)}
    <3>1. D!Try(<<dir, s, d>>, helper) \in SymbolTries(dir, helper)
      BY DEF SymbolTries
    <3> QED
      BY <2>1, <3>1
  <2>2. ASSUME NEW t \in SymbolTries(dir, helper), j = <<t>>
        PROVE  j \in D!EachSymbolDay(dir, helper)
    <3>1. PICK s \in Symbols, d \in Dates : t = D!Try(<<dir, s, d>>, helper)
      BY DEF SymbolTries
    <3> QED
      BY <2>2, <3>1 DEF D!EachSymbolDay
  <2>3. j \in D!EachSymbolDay(dir, helper) =>
          \E s \in Symbols, d \in Dates : j = <<D!Try(<<dir, s, d>>, helper)>>
    BY DEF D!EachSymbolDay
  <2> QED
    BY <2>1, <2>2, <2>3
<1> QED
  BY <1>1, <1>2

LEMMA EachCategory ==
  ASSUME NEW dir, NEW helper, NEW s, NEW zips, Fits(dir, helper, s)
  PROVE  /\ Category(D!EachDay(dir, helper), {dir}, s, zips)
         /\ Category(D!EachSymbolDay(dir, helper), {dir}, s, zips)
<1>1. /\ Category({<<t>> : t \in DayTries(dir, helper)}, {dir}, s, zips)
      /\ Category({<<t>> : t \in SymbolTries(dir, helper)}, {dir}, s, zips)
  BY OnesCategory, TriesAreInto
<1> QED
  BY <1>1, EachIs

LEMMA EachTimesCategory ==
  ASSUME NEW n \in Nat \ {0}, NEW dir, NEW helper, NEW s, NEW zips, Fits(dir, helper, s)
  PROVE  /\ Category({D!Times(n, j[1]) : j \in D!EachDay(dir, helper)}, {dir}, s, zips)
         /\ Category({D!Times(n, j[1]) : j \in D!EachSymbolDay(dir, helper)}, {dir}, s, zips)
<1>1. ASSUME NEW T PROVE {D!Times(n, j[1]) : j \in {<<t>> : t \in T}} = {D!Times(n, t) : t \in T}
  <2>1. \A j \in {<<t>> : t \in T} : j[1] \in T
    OBVIOUS
  <2>2. ASSUME NEW t \in T PROVE \E j \in {<<u>> : u \in T} : j[1] = t
    <3>1. <<t>> \in {<<u>> : u \in T} /\ <<t>>[1] = t
      OBVIOUS
    <3> QED
      BY <3>1, Zenon
  <2> QED
    BY <2>1, <2>2
<1>2. /\ Category({D!Times(n, t) : t \in DayTries(dir, helper)}, {dir}, s, zips)
      /\ Category({D!Times(n, t) : t \in SymbolTries(dir, helper)}, {dir}, s, zips)
  BY TimesCategory, TriesAreInto
<1> QED
  BY <1>1, <1>2, EachIs

LEMMA NoJobs == ASSUME NEW dirs, NEW s, NEW zips PROVE Category({}, dirs, s, zips)
  BY DEF Category

-----------------------------------------------------------------------------
(***************************************************************************)
(* The categories of the scripts.                                           *)
(***************************************************************************)
LEMMA RawCategory ==
  ASSUME NEW dir, dir \notin D!Examined \cup Rewritten, NEW s, s # "bybit", NEW zips,
         NEW helper, Raw(helper)
  PROVE  /\ Category(D!EachDay(dir, helper), {dir}, s, zips)
         /\ Category(D!EachSymbolDay(dir, helper), {dir}, s, zips)
<1>1. Fits(dir, helper, s)
  BY HelpersFit DEF Rewritten
<1> QED
  BY <1>1, EachCategory

\* The directories of the downloads that nobody looks into.
RawDirs == {"more/futures/funding.zip", "more/depth", "more/klines", "more/correlated",
            "more/bybit/1min", "more/deribit", "more/coingecko", "more/fred", "more/more_crashes",
            "extended/depth", "extended/klines", "extended/funding", "extended/aggtrades",
            "extended/coinbase", "extended/kraken", "extended/additional_crashes"}
LEMMA RawDirsAreRaw == \A dir \in RawDirs : dir \notin D!Examined \cup Rewritten
  BY DEF RawDirs, D!Examined, Rewritten

LEMMA EverythingCategories ==
  ASSUME NEW zips
  PROVE  /\ Category(D!DownloadBinanceFutures, {"more/futures/funding.zip"}, "everything", zips)
         /\ Category(D!DownloadBinanceDepth, {"more/depth"}, "everything", zips)
         /\ Category(D!DownloadBinanceKlines, {"more/klines"}, "everything", zips)
         /\ Category(D!DownloadCorrelatedSymbols, {"more/correlated"}, "everything", zips)
         /\ Category(D!DownloadBybit, {"more/bybit/1min"}, "everything", zips)
         /\ Category(D!DownloadOkx, {"okx"}, "everything", zips)
         /\ Category(D!DownloadDeribit, {"more/deribit"}, "everything", zips)
         /\ Category(D!DownloadEquities, {"more/equities"}, "everything", zips)
         /\ Category(D!DownloadCoingecko, {"more/coingecko"}, "everything", zips)
         /\ Category(D!DownloadFred, {"more/fred"}, "everything", zips)
         /\ Category(D!DownloadMoreCrashes, {"more/more_crashes"}, "everything", zips)
<1>1. ASSUME NEW dir \in RawDirs
      PROVE  /\ Category(D!EachDay(dir, D!EverythingDownloadFile), {dir}, "everything", zips)
             /\ Category(D!EachSymbolDay(dir, D!EverythingDownloadFile), {dir}, "everything", zips)
             /\ Fits(dir, D!EverythingDownloadFile, "everything")
  <2>1. dir \notin D!Examined \cup Rewritten
    BY RawDirsAreRaw
  <2>2. Raw(D!EverythingDownloadFile) /\ dir # "data/parquet"
    BY <2>1, RawHelpers DEF Rewritten
  <2> QED
    BY <2>1, <2>2, RawCategory, HelpersFit
<1>2. {"more/futures/funding.zip", "more/depth", "more/klines", "more/correlated", "more/bybit/1min",
       "more/deribit", "more/coingecko", "more/fred", "more/more_crashes"} \subseteq RawDirs
  BY DEF RawDirs
<1>3. /\ Category(D!DownloadBinanceFutures, {"more/futures/funding.zip"}, "everything", zips)
      /\ Category(D!DownloadBinanceDepth, {"more/depth"}, "everything", zips)
      /\ Category(D!DownloadBinanceKlines, {"more/klines"}, "everything", zips)
      /\ Category(D!DownloadCorrelatedSymbols, {"more/correlated"}, "everything", zips)
  BY <1>1, <1>2 DEF D!DownloadBinanceFutures, D!DownloadBinanceDepth, D!DownloadBinanceKlines,
                    D!DownloadCorrelatedSymbols
<1>4. /\ Category(D!DownloadBybit, {"more/bybit/1min"}, "everything", zips)
      /\ Category(D!DownloadDeribit, {"more/deribit"}, "everything", zips)
      /\ Category(D!DownloadMoreCrashes, {"more/more_crashes"}, "everything", zips)
  BY <1>1, <1>2 DEF D!DownloadBybit, D!DownloadDeribit, D!DownloadMoreCrashes
<1>5. Category(D!DownloadOkx, {"okx"}, "everything", zips)
  BY NoJobs DEF D!DownloadOkx
<1>6. Category(D!DownloadEquities, {"more/equities"}, "everything", zips)
  <2>1. Fits("more/equities", D!History, "everything")
    BY HelpersFit, Rewriters DEF Rewritten
  <2>2. PICK n \in Nat \ {0} : n = 3
    OBVIOUS
  <2>3. Category({D!Times(n, j[1]) : j \in D!EachSymbolDay("more/equities", D!History)}, {"more/equities"},
                 "everything", zips)
    BY <2>1, EachTimesCategory
  <2> QED
    BY <2>2, <2>3 DEF D!DownloadEquities
<1>7. Category(D!DownloadCoingecko, {"more/coingecko"}, "everything", zips)
  <2> DEFINE T == {D!Try(<<"more/coingecko", s>>, D!EverythingDownloadFile) : s \in Symbols}
  <2>1. \A t \in T : Into(t, "more/coingecko", D!EverythingDownloadFile)
    BY TriesAreInto
  <2>2. D!DownloadCoingecko = {<<t>> : t \in T}
    BY DEF D!DownloadCoingecko
  <2>3. Fits("more/coingecko", D!EverythingDownloadFile, "everything")
    BY <1>1, <1>2
  <2> HIDE DEF T
  <2> QED
    BY <2>1, <2>2, <2>3, OnesCategory
<1>8. Category(D!DownloadFred, {"more/fred"}, "everything", zips)
  <2>1. PICK T : T = {D!Try(<<"more/fred">>, D!EverythingDownloadFile)}
    OBVIOUS
  <2>2. \A t \in T : Into(t, "more/fred", D!EverythingDownloadFile)
    BY <2>1, TriesAreInto
  <2>3. D!DownloadFred = {<<t>> : t \in T}
    BY <2>1 DEF D!DownloadFred
  <2>4. Fits("more/fred", D!EverythingDownloadFile, "everything")
    BY <1>1, <1>2
  <2> QED
    BY <2>2, <2>3, <2>4, OnesCategory
<1> QED
  BY <1>3, <1>4, <1>5, <1>6, <1>7, <1>8

LEMMA FixedCategories ==
  ASSUME NEW zips, Patterns \in Nat \ {0}
  PROVE  /\ Category(D!DownloadFundingRatesApi, {"more/futures/funding.json"}, "fixed", zips)
         /\ Category(D!DownloadFuturesMetricsApi, {"more/metrics"}, "fixed", zips)
         /\ Category(D!DownloadDepthMulti, {"more/depth"}, "fixed", zips)
         /\ Category(D!FixedDownloadEquities, {"more/equities"}, "fixed", zips)
         /\ Category(D!FixedDownloadBybit, {"more/bybit/1min"}, "fixed", zips)
<1>1. /\ Fits("more/futures/funding.json", D!FixedDownloadJson, "fixed")
      /\ Fits("more/metrics", D!FixedDownloadJson, "fixed")
  BY HelpersFit, ExaminingHelpers
<1>2. ASSUME NEW dir \in {"more/depth", "more/bybit/1min"} PROVE Fits(dir, D!FixedDownloadFile, "fixed")
  <2>1. dir \notin D!Examined \cup Rewritten
    BY RawDirsAreRaw DEF RawDirs
  <2> QED
    BY <2>1, HelpersFit, RawHelpers DEF Rewritten
<1>3. Fits("more/equities", D!History, "fixed")
  BY HelpersFit, Rewriters DEF Rewritten
<1>4. Category(D!DownloadFundingRatesApi, {"more/futures/funding.json"}, "fixed", zips)
  BY <1>1, EachCategory DEF D!DownloadFundingRatesApi
<1>5. Category(D!DownloadFuturesMetricsApi, {"more/metrics"}, "fixed", zips)
  <2> DEFINE T == {D!Try(<<"more/metrics", m, s>>, D!FixedDownloadJson) : m \in D!Metrics, s \in Symbols}
  <2>1. \A t \in T : Into(t, "more/metrics", D!FixedDownloadJson)
    BY DEF Into, D!Try
  <2>2. ASSUME NEW j PROVE j \in D!DownloadFuturesMetricsApi <=> j \in {<<t>> : t \in T}
    <3>1. ASSUME NEW m \in D!Metrics, NEW s \in Symbols,
                 j = <<D!Try(<<"more/metrics", m, s>>, D!FixedDownloadJson)>>
          PROVE  j \in {<<t>> : t \in T}
      <4>1. D!Try(<<"more/metrics", m, s>>, D!FixedDownloadJson) \in T
        OBVIOUS
      <4> QED
        BY <3>1, <4>1
    <3>2. ASSUME NEW t \in T, j = <<t>> PROVE j \in D!DownloadFuturesMetricsApi
      <4>1. PICK m \in D!Metrics, s \in Symbols : t = D!Try(<<"more/metrics", m, s>>, D!FixedDownloadJson)
        OBVIOUS
      <4> QED
        BY <3>2, <4>1 DEF D!DownloadFuturesMetricsApi
    <3>3. j \in D!DownloadFuturesMetricsApi =>
            \E m \in D!Metrics, s \in Symbols : j = <<D!Try(<<"more/metrics", m, s>>, D!FixedDownloadJson)>>
      BY DEF D!DownloadFuturesMetricsApi
    <3> HIDE DEF T
    <3> QED
      BY <3>1, <3>2, <3>3
  <2>3. D!DownloadFuturesMetricsApi = {<<t>> : t \in T}
    BY <2>2
  <2> HIDE DEF T
  <2> QED
    BY <1>1, <2>1, <2>3, OnesCategory
<1>6. Category(D!DownloadDepthMulti, {"more/depth"}, "fixed", zips)
  BY <1>2, EachTimesCategory DEF D!DownloadDepthMulti
<1>7. Category(D!FixedDownloadEquities, {"more/equities"}, "fixed", zips)
  <2>1. PICK n \in Nat \ {0} : n = 4
    OBVIOUS
  <2>2. Category({D!Times(n, j[1]) : j \in D!EachSymbolDay("more/equities", D!History)}, {"more/equities"},
                 "fixed", zips)
    BY <1>3, EachTimesCategory
  <2> QED
    BY <2>1, <2>2 DEF D!FixedDownloadEquities
<1>8. Category(D!FixedDownloadBybit, {"more/bybit/1min"}, "fixed", zips)
  BY <1>2, EachCategory DEF D!FixedDownloadBybit
<1> QED
  BY <1>4, <1>5, <1>6, <1>7, <1>8

LEMMA ExtendedCategories ==
  ASSUME NEW zips
  PROVE  /\ Category(D!ExtendedDepth, {"extended/depth"}, "extended", zips)
         /\ Category(D!ExtendedKlines, {"extended/klines"}, "extended", zips)
         /\ Category(D!ExtendedFunding, {"extended/funding"}, "extended", zips)
         /\ Category(D!ExtendedAggtrades, {"extended/aggtrades"}, "extended", zips)
         /\ Category(D!ExtendedCoinbase, {"extended/coinbase"}, "extended", zips)
         /\ Category(D!ExtendedKraken, {"extended/kraken"}, "extended", zips)
         /\ Category(D!ExtendedAdditional, {"extended/additional_crashes"}, "extended", zips)
<1>1. ASSUME NEW dir \in RawDirs
      PROVE  /\ Category(D!EachDay(dir, D!ExtendedDownloadFile), {dir}, "extended", zips)
             /\ Category(D!EachSymbolDay(dir, D!ExtendedDownloadFile), {dir}, "extended", zips)
             /\ Category({<<D!Try(<<dir>>, D!ExtendedDownloadFile)>>}, {dir}, "extended", zips)
  <2>1. dir \notin D!Examined \cup Rewritten
    BY RawDirsAreRaw
  <2>2. Raw(D!ExtendedDownloadFile) /\ dir # "data/parquet"
    BY <2>1, RawHelpers DEF Rewritten
  <2>3. Fits(dir, D!ExtendedDownloadFile, "extended")
    BY <2>1, <2>2, HelpersFit
  <2>4. PICK t : t = D!Try(<<dir>>, D!ExtendedDownloadFile)
    OBVIOUS
  <2>5. \A u \in {t} : Into(u, dir, D!ExtendedDownloadFile)
    BY <2>4, TriesAreInto
  <2>6. Category({<<u>> : u \in {t}}, {dir}, "extended", zips)
    BY <2>3, <2>5, OnesCategory
  <2>7. {<<u>> : u \in {t}} = {<<t>>}
    OBVIOUS
  <2> QED
    BY <2>3, <2>4, <2>6, <2>7, EachCategory
<1>2. {"extended/depth", "extended/klines", "extended/funding", "extended/aggtrades",
       "extended/coinbase", "extended/kraken", "extended/additional_crashes"} \subseteq RawDirs
  BY DEF RawDirs
<1>3. /\ Category(D!ExtendedDepth, {"extended/depth"}, "extended", zips)
      /\ Category(D!ExtendedKlines, {"extended/klines"}, "extended", zips)
      /\ Category(D!ExtendedFunding, {"extended/funding"}, "extended", zips)
      /\ Category(D!ExtendedAggtrades, {"extended/aggtrades"}, "extended", zips)
  BY <1>1, <1>2 DEF D!ExtendedDepth, D!ExtendedKlines, D!ExtendedFunding, D!ExtendedAggtrades
<1>4. /\ Category(D!ExtendedCoinbase, {"extended/coinbase"}, "extended", zips)
      /\ Category(D!ExtendedKraken, {"extended/kraken"}, "extended", zips)
      /\ Category(D!ExtendedAdditional, {"extended/additional_crashes"}, "extended", zips)
  BY <1>1, <1>2 DEF D!ExtendedCoinbase, D!ExtendedKraken, D!ExtendedAdditional
<1> QED
  BY <1>3, <1>4

\* A job of download_bybit_fixed.py: attempts at the four files of one day.
BybitDirs == {"more/bybit/1min", "more/bybit/5min", "more/bybit/trades", "more/bybit/json"}
BybitTries(s, d) == {D!Try(<<dir, s, d>>, helper) :
                       dir \in BybitDirs, helper \in {D!BybitDownloadFile, D!BybitDownloadJson}}
BybitJob(s, d) == D!TryBybitKlineCsv(s, d) \o D!TryBybitTradingCsv(s, d) \o D!BybitApiKlines(s, d)

LEMMA TimesInSeq ==
  ASSUME NEW n \in Nat \ {0}, NEW S, NEW t \in S
  PROVE  D!Times(n, t) \in Seq(S)
  BY SeqDef DEF D!Times

LEMMA BybitJobIs ==
  ASSUME Patterns \in Nat \ {0}, NEW s, NEW d
  PROVE  BybitJob(s, d) \in Seq(BybitTries(s, d)) /\ BybitJob(s, d) # <<>>
<1> DEFINE S == BybitTries(s, d)
<1>1. \A dir \in BybitDirs : /\ D!Try(<<dir, s, d>>, D!BybitDownloadFile) \in S
                             /\ D!Try(<<dir, s, d>>, D!BybitDownloadJson) \in S
  BY DEF BybitTries
<1>2. {"more/bybit/1min", "more/bybit/5min", "more/bybit/trades", "more/bybit/json"} \subseteq BybitDirs
  BY DEF BybitDirs
<1> HIDE DEF S
<1>3. /\ D!Times(Patterns, D!Try(<<"more/bybit/1min", s, d>>, D!BybitDownloadFile)) \in Seq(S)
      /\ D!Times(Patterns, D!Try(<<"more/bybit/5min", s, d>>, D!BybitDownloadFile)) \in Seq(S)
      /\ D!Times(2, D!Try(<<"more/bybit/trades", s, d>>, D!BybitDownloadFile)) \in Seq(S)
  BY <1>1, <1>2, TimesInSeq
<1>4. D!TryBybitKlineCsv(s, d) \in Seq(S) /\ D!TryBybitTradingCsv(s, d) \in Seq(S)
  BY <1>3, ConcatProperties DEF D!TryBybitKlineCsv, D!TryBybitTradingCsv
<1>5. D!BybitApiKlines(s, d) \in Seq(S) /\ Len(D!BybitApiKlines(s, d)) = 1
  <2>1. PICK t \in S : t = D!Try(<<"more/bybit/json", s, d>>, D!BybitDownloadJson)
    BY <1>1, <1>2
  <2>2. D!BybitApiKlines(s, d) = <<t>>
    BY <2>1 DEF D!BybitApiKlines
  <2> QED
    BY <2>2
<1>6. PICK p \in Seq(S) : p = D!TryBybitKlineCsv(s, d) \o D!TryBybitTradingCsv(s, d)
  BY <1>4, ConcatProperties
<1>7. PICK q \in Seq(S) : q = D!BybitApiKlines(s, d) /\ Len(q) = 1
  BY <1>5
<1>8. p \o q \in Seq(S) /\ Len(p \o q) = Len(p) + 1 /\ Len(p) \in Nat
  BY <1>7, ConcatProperties, LenProperties
<1>9. p \o q # <<>>
  BY <1>8, EmptySeq
<1> QED
  BY <1>6, <1>7, <1>8, <1>9 DEF BybitJob, S

LEMMA BybitCategory ==
  ASSUME Patterns \in Nat \ {0}, NEW zips
  PROVE  Category(D!DownloadBybitFixed, BybitDirs, "bybit", zips)
<1>1. ASSUME NEW s, NEW d, NEW t \in BybitTries(s, d)
      PROVE  GoodTry(t, "bybit", zips) /\ t.out[1] \in BybitDirs /\ t.out[2] = s /\ t.out[3] = d
  <2>1. PICK dir \in BybitDirs, helper \in {D!BybitDownloadFile, D!BybitDownloadJson} :
          t = D!Try(<<dir, s, d>>, helper)
    BY DEF BybitTries
  <2>2. Examining(helper) /\ dir # "data/parquet"
    BY ExaminingHelpers DEF BybitDirs
  <2>3. Fits(dir, helper, "bybit") /\ Into(t, dir, helper)
    BY <2>1, <2>2, HelpersFit, TriesAreInto
  <2>4. t.out = <<dir, s, d>>
    BY <2>1 DEF D!Try
  <2> QED
    BY <2>3, <2>4, GoodInto
<1>2. ASSUME NEW s, NEW d
      PROVE  /\ GoodJob(BybitJob(s, d), "bybit", zips) /\ Within(BybitJob(s, d), BybitDirs)
             /\ \A i \in DOMAIN BybitJob(s, d) :
                  BybitJob(s, d)[i].out[2] = s /\ BybitJob(s, d)[i].out[3] = d
  <2>1. PICK j \in Seq(BybitTries(s, d)) : j = BybitJob(s, d) /\ j # <<>>
    BY BybitJobIs
  <2>2. IsSeq(j) /\ \A i \in DOMAIN j : j[i] \in BybitTries(s, d)
    BY SeqIsSeq, ElementOfSeq, LenProperties
  <2>3. GoodJob(j, "bybit", zips) /\ Within(j, BybitDirs)
    BY <1>1, <2>1, <2>2 DEF GoodJob, GoodTries, Within
  <2>4. \A i \in DOMAIN j : j[i].out[2] = s /\ j[i].out[3] = d
    BY <1>1, <2>2
  <2> QED
    BY <2>1, <2>3, <2>4
<1>3. ASSUME NEW j \in D!DownloadBybitFixed
      PROVE  \E s \in Symbols, d \in Dates : j = BybitJob(s, d)
  BY Z3 DEF D!DownloadBybitFixed, BybitJob
<1>4. ASSUME NEW j \in D!DownloadBybitFixed, NEW k \in D!DownloadBybitFixed, j # k
      PROVE  Apart(j, k)
  <2>1. PICK s \in Symbols, d \in Dates : j = BybitJob(s, d)
    BY <1>3
  <2>2. PICK u \in Symbols, e \in Dates : k = BybitJob(u, e)
    BY <1>3
  <2>3. s # u \/ d # e
    BY <1>4, <2>1, <2>2
  <2>4. \A i \in DOMAIN j : j[i].out[2] = s /\ j[i].out[3] = d
    BY <1>2, <2>1
  <2>5. \A i \in DOMAIN k : k[i].out[2] = u /\ k[i].out[3] = e
    BY <1>2, <2>2
  <2> QED
    BY <2>3, <2>4, <2>5 DEF Apart, Spares
<1> QED
  BY <1>2, <1>3, <1>4 DEF Category

LEMMA ContextCategory ==
  ASSUME NEW zips
  PROVE  Category(D!ContextJobs, {"more/context"}, "context", zips)
<1> DEFINE T == {D!Try(<<"more/context", q, s, d>>, D!ContextGet) :
                   q \in {"funding", "klines"}, s \in Symbols, d \in Dates}
<1>1. \A t \in T : Into(t, "more/context", D!ContextGet)
  BY DEF D!Try, Into
<1>2. D!ContextJobs = {D!Times(3, t) : t \in T}
  <2>1. ASSUME NEW j \in D!ContextJobs PROVE j \in {D!Times(3, t) : t \in T}
    <3>1. PICK q \in {"funding", "klines"}, s \in Symbols, d \in Dates :
            j = D!Times(3, D!Try(<<"more/context", q, s, d>>, D!ContextGet))
      BY Z3 DEF D!ContextJobs
    <3>2. D!Try(<<"more/context", q, s, d>>, D!ContextGet) \in T
      OBVIOUS
    <3> QED
      BY <3>1, <3>2
  <2>2. ASSUME NEW t \in T PROVE D!Times(3, t) \in D!ContextJobs
    <3>1. PICK q \in {"funding", "klines"}, s \in Symbols, d \in Dates :
            t = D!Try(<<"more/context", q, s, d>>, D!ContextGet)
      BY SMTT(30)
    <3>2. D!Times(3, t) = D!Times(3, D!Try(<<"more/context", q, s, d>>, D!ContextGet))
      BY <3>1
    <3> HIDE DEF T
    <3> QED
      BY <3>2 DEF D!ContextJobs
  <2> HIDE DEF T
  <2> QED
    BY <2>1, <2>2
<1> HIDE DEF T
<1>3. Fits("more/context", D!ContextGet, "context")
  BY HelpersFit, Rewriters DEF Rewritten
<1> QED
  BY <1>1, <1>2, <1>3, TimesCategory

LEMMA TradesCategories ==
  ASSUME NEW zips
  PROVE  /\ Category(D!DownloadBinanceDataset, {"data"}, "all", zips)
         /\ Category(D!DownloadBinanceData, {"data"}, "binance", zips)
<1>1. "data" \notin D!Examined
  BY DEF D!Examined
<1>2. Fits("data", D!AllDownloadFile, "all") /\ Fits("data", D!RetrieveFile, "binance")
  BY <1>1, HelpersFit, LaxHelpers
<1> QED
  BY <1>2, EachCategory DEF D!DownloadBinanceDataset, D!DownloadBinanceData

-----------------------------------------------------------------------------
(***************************************************************************)
(* The work of a script.                                                    *)
(***************************************************************************)
\* The categories of a script: no job makes again what another made.
Sound(cs, s, zips) ==
  /\ IsSeq(cs)
  /\ \A a \in DOMAIN cs : \A j \in cs[a][2] : GoodJob(j, s, zips)
  /\ \A a, b \in DOMAIN cs : \A j \in cs[a][2], k \in cs[b][2] : a # b \/ j # k => Apart(j, k)

\* The work a script has before it: categories cs, the jobs J of the current
\* one, the attempts q of the current job.  What it counted, the files done,
\* it leaves alone.
Coming(cs) == UNION {cs[a][2] : a \in DOMAIN cs}
Work(cs, J, q, done, s, zips) ==
  /\ Sound(cs, s, zips)
  /\ \A j \in J : GoodJob(j, s, zips)
  /\ \A j, k \in J : j # k => Apart(j, k)
  /\ \A j \in J, k \in Coming(cs) : Apart(j, k)
  /\ GoodTries(q, s, zips)
  /\ \A k \in J \cup Coming(cs) : Apart(q, k)
  /\ \A f \in done : \A k \in J \cup Coming(cs) \cup {q} : Spares(k, f)

-----------------------------------------------------------------------------
\* Categories that write into different directories.
LEMMA TableIsSound ==
  ASSUME NEW cs, IsSeq(cs), NEW dirs, NEW s, NEW zips,
         \A a \in DOMAIN cs : Category(cs[a][2], dirs[a], s, zips),
         \A a, b \in DOMAIN cs : a # b => dirs[a] \cap dirs[b] = {}
  PROVE  Sound(cs, s, zips)
<1>1. ASSUME NEW a \in DOMAIN cs, NEW b \in DOMAIN cs, NEW j \in cs[a][2], NEW k \in cs[b][2],
             a # b \/ j # k
      PROVE  Apart(j, k)
  <2>1. CASE a = b
    BY <1>1, <2>1 DEF Category
  <2>2. CASE a # b
    <3>1. Within(j, dirs[a]) /\ Within(k, dirs[b])
      BY DEF Category
    <3> QED
      BY <2>2, <3>1 DEF Within, Apart, Spares
  <2> QED
    BY <2>1, <2>2
<1> QED
  BY <1>1 DEF Sound, Category

LEMMA EverythingIsSound == ASSUME NEW zips PROVE Sound(D!EverythingMain.categories, "everything", zips)
<1> DEFINE cs == D!EverythingMain.categories
<1>0. \E S : cs \in Seq(S) /\ Len(cs) = 11
  <2> DEFINE S == {<<"futures", D!DownloadBinanceFutures>>, <<"depth", D!DownloadBinanceDepth>>,
     <<"klines", D!DownloadBinanceKlines>>, <<"correlated", D!DownloadCorrelatedSymbols>>,
     <<"bybit", D!DownloadBybit>>, <<"okx", D!DownloadOkx>>, <<"deribit", D!DownloadDeribit>>,
     <<"equities", D!DownloadEquities>>, <<"coingecko", D!DownloadCoingecko>>,
     <<"fred", D!DownloadFred>>, <<"more_crashes", D!DownloadMoreCrashes>>}
  <2>1. cs \in Seq(S) /\ Len(cs) = 11
    BY DEF D!EverythingMain, D!Main
  <2> QED
    BY <2>1
<1>1. /\ cs[1][2] = D!DownloadBinanceFutures /\ cs[2][2] = D!DownloadBinanceDepth
      /\ cs[3][2] = D!DownloadBinanceKlines /\ cs[4][2] = D!DownloadCorrelatedSymbols
      /\ cs[5][2] = D!DownloadBybit /\ cs[6][2] = D!DownloadOkx /\ cs[7][2] = D!DownloadDeribit
      /\ cs[8][2] = D!DownloadEquities /\ cs[9][2] = D!DownloadCoingecko
      /\ cs[10][2] = D!DownloadFred /\ cs[11][2] = D!DownloadMoreCrashes
  BY DEF D!EverythingMain, D!Main
<1> HIDE DEF cs
<1>2. IsSeq(cs) /\ DOMAIN cs = 1..11
  BY <1>0, SeqIsSeq, LenProperties
<1>3. PICK dirs : /\ dirs[1] = {"more/futures/funding.zip"} /\ dirs[2] = {"more/depth"}
                  /\ dirs[3] = {"more/klines"} /\ dirs[4] = {"more/correlated"}
                  /\ dirs[5] = {"more/bybit/1min"} /\ dirs[6] = {"okx"}
                  /\ dirs[7] = {"more/deribit"} /\ dirs[8] = {"more/equities"}
                  /\ dirs[9] = {"more/coingecko"} /\ dirs[10] = {"more/fred"}
                  /\ dirs[11] = {"more/more_crashes"}
  <2> WITNESS << {"more/futures/funding.zip"}, {"more/depth"}, {"more/klines"}, {"more/correlated"},
                 {"more/bybit/1min"}, {"okx"}, {"more/deribit"}, {"more/equities"}, {"more/coingecko"},
                 {"more/fred"}, {"more/more_crashes"} >>
  <2> QED
    OBVIOUS
<1>4. \A a \in 1..11 : a \in {1, 2, 3, 4, 5, 6, 7, 8, 9, 10, 11}
  OBVIOUS
<1>5. \A a \in 1..11 : Category(cs[a][2], dirs[a], "everything", zips)
  <2>1. /\ Category(cs[1][2], dirs[1], "everything", zips)
        /\ Category(cs[2][2], dirs[2], "everything", zips)
        /\ Category(cs[3][2], dirs[3], "everything", zips)
        /\ Category(cs[4][2], dirs[4], "everything", zips)
        /\ Category(cs[5][2], dirs[5], "everything", zips)
        /\ Category(cs[6][2], dirs[6], "everything", zips)
        /\ Category(cs[7][2], dirs[7], "everything", zips)
        /\ Category(cs[8][2], dirs[8], "everything", zips)
        /\ Category(cs[9][2], dirs[9], "everything", zips)
        /\ Category(cs[10][2], dirs[10], "everything", zips)
        /\ Category(cs[11][2], dirs[11], "everything", zips)
    BY <1>1, <1>3, EverythingCategories
  <2> QED
    BY <1>4, <2>1
<1>6. \A a, b \in 1..11 : a # b => dirs[a] \cap dirs[b] = {}
  BY <1>3, <1>4
<1>7. Sound(cs, "everything", zips)
  BY <1>2, <1>5, <1>6, TableIsSound
<1> QED
  BY <1>7 DEF cs

LEMMA FixedIsSound ==
  ASSUME NEW zips, Patterns \in Nat \ {0}
  PROVE  Sound(D!FixedMain.categories, "fixed", zips)
<1> DEFINE cs == D!FixedMain.categories
<1>0. \E S : cs \in Seq(S) /\ Len(cs) = 5
  <2> DEFINE S == {<<"funding", D!DownloadFundingRatesApi>>, <<"metrics", D!DownloadFuturesMetricsApi>>,
     <<"depth", D!DownloadDepthMulti>>, <<"equities", D!FixedDownloadEquities>>,
     <<"bybit", D!FixedDownloadBybit>>}
  <2>1. cs \in Seq(S) /\ Len(cs) = 5
    BY DEF D!FixedMain, D!Main
  <2> QED
    BY <2>1
<1>1. /\ cs[1][2] = D!DownloadFundingRatesApi /\ cs[2][2] = D!DownloadFuturesMetricsApi
      /\ cs[3][2] = D!DownloadDepthMulti /\ cs[4][2] = D!FixedDownloadEquities
      /\ cs[5][2] = D!FixedDownloadBybit
  BY DEF D!FixedMain, D!Main
<1> HIDE DEF cs
<1>2. IsSeq(cs) /\ DOMAIN cs = 1..5
  BY <1>0, SeqIsSeq, LenProperties
<1>3. PICK dirs : /\ dirs[1] = {"more/futures/funding.json"} /\ dirs[2] = {"more/metrics"}
                  /\ dirs[3] = {"more/depth"} /\ dirs[4] = {"more/equities"}
                  /\ dirs[5] = {"more/bybit/1min"}
  <2> WITNESS << {"more/futures/funding.json"}, {"more/metrics"}, {"more/depth"}, {"more/equities"},
                 {"more/bybit/1min"} >>
  <2> QED
    OBVIOUS
<1>4. \A a \in 1..5 : a \in {1, 2, 3, 4, 5}
  OBVIOUS
<1>5. \A a \in 1..5 : Category(cs[a][2], dirs[a], "fixed", zips)
  <2>1. /\ Category(cs[1][2], dirs[1], "fixed", zips)
        /\ Category(cs[2][2], dirs[2], "fixed", zips)
        /\ Category(cs[3][2], dirs[3], "fixed", zips)
        /\ Category(cs[4][2], dirs[4], "fixed", zips)
        /\ Category(cs[5][2], dirs[5], "fixed", zips)
    BY <1>1, <1>3, FixedCategories
  <2> QED
    BY <1>4, <2>1
<1>6. \A a, b \in 1..5 : a # b => dirs[a] \cap dirs[b] = {}
  BY <1>3, <1>4
<1>7. Sound(cs, "fixed", zips)
  BY <1>2, <1>5, <1>6, TableIsSound
<1> QED
  BY <1>7 DEF cs

LEMMA ExtendedIsSound == ASSUME NEW zips PROVE Sound(D!ExtendedMain.categories, "extended", zips)
<1> DEFINE cs == D!ExtendedMain.categories
<1>0. \E S : cs \in Seq(S) /\ Len(cs) = 7
  <2> DEFINE S == {<<"depth", D!ExtendedDepth>>, <<"klines", D!ExtendedKlines>>,
     <<"funding", D!ExtendedFunding>>, <<"aggtrades", D!ExtendedAggtrades>>,
     <<"coinbase", D!ExtendedCoinbase>>, <<"kraken", D!ExtendedKraken>>,
     <<"additional", D!ExtendedAdditional>>}
  <2>1. cs \in Seq(S) /\ Len(cs) = 7
    BY DEF D!ExtendedMain, D!Main
  <2> QED
    BY <2>1
<1>1. /\ cs[1][2] = D!ExtendedDepth /\ cs[2][2] = D!ExtendedKlines /\ cs[3][2] = D!ExtendedFunding
      /\ cs[4][2] = D!ExtendedAggtrades /\ cs[5][2] = D!ExtendedCoinbase
      /\ cs[6][2] = D!ExtendedKraken /\ cs[7][2] = D!ExtendedAdditional
  BY DEF D!ExtendedMain, D!Main
<1> HIDE DEF cs
<1>2. IsSeq(cs) /\ DOMAIN cs = 1..7
  BY <1>0, SeqIsSeq, LenProperties
<1>3. PICK dirs : /\ dirs[1] = {"extended/depth"} /\ dirs[2] = {"extended/klines"}
                  /\ dirs[3] = {"extended/funding"} /\ dirs[4] = {"extended/aggtrades"}
                  /\ dirs[5] = {"extended/coinbase"} /\ dirs[6] = {"extended/kraken"}
                  /\ dirs[7] = {"extended/additional_crashes"}
  <2> WITNESS << {"extended/depth"}, {"extended/klines"}, {"extended/funding"}, {"extended/aggtrades"},
                 {"extended/coinbase"}, {"extended/kraken"}, {"extended/additional_crashes"} >>
  <2> QED
    OBVIOUS
<1>4. \A a \in 1..7 : a \in {1, 2, 3, 4, 5, 6, 7}
  OBVIOUS
<1>5. \A a \in 1..7 : Category(cs[a][2], dirs[a], "extended", zips)
  <2>1. /\ Category(cs[1][2], dirs[1], "extended", zips)
        /\ Category(cs[2][2], dirs[2], "extended", zips)
        /\ Category(cs[3][2], dirs[3], "extended", zips)
        /\ Category(cs[4][2], dirs[4], "extended", zips)
        /\ Category(cs[5][2], dirs[5], "extended", zips)
        /\ Category(cs[6][2], dirs[6], "extended", zips)
        /\ Category(cs[7][2], dirs[7], "extended", zips)
    BY <1>1, <1>3, ExtendedCategories
  <2> QED
    BY <1>4, <2>1
<1>6. \A a, b \in 1..7 : a # b => dirs[a] \cap dirs[b] = {}
  BY <1>3, <1>4
<1>7. Sound(cs, "extended", zips)
  BY <1>2, <1>5, <1>6, TableIsSound
<1> QED
  BY <1>7 DEF cs

LEMMA OneIsSound ==
  ASSUME NEW name, NEW J, NEW dirs, NEW s, NEW zips, Category(J, dirs, s, zips)
  PROVE  Sound(<< <<name, J>> >>, s, zips)
<1>0. <<name, J>>[2] = J
  OBVIOUS
<1>1. PICK c : c = <<name, J>> /\ c[2] = J
  BY <1>0
<1>2. PICK cs : cs = <<c>> /\ IsSeq(cs) /\ DOMAIN cs = 1..1 /\ cs[1] = c
  BY OneIs
<1>3. \A a \in 1..1 : a = 1
  OBVIOUS
<1>4. Sound(cs, s, zips)
  BY <1>1, <1>2, <1>3 DEF Sound, Category
<1> QED
  BY <1>1, <1>2, <1>4

LEMMA SinglesAreSound ==
  ASSUME NEW zips, Patterns \in Nat \ {0}
  PROVE  /\ Sound(D!BybitMain.categories, "bybit", zips) /\ Sound(D!ContextMain.categories, "context", zips)
         /\ Sound(D!AllMain.categories, "all", zips) /\ Sound(D!BinanceMain.categories, "binance", zips)
<1>1. /\ D!BybitMain.categories = << <<"bybit", D!DownloadBybitFixed>> >>
      /\ D!ContextMain.categories = << <<"context", D!ContextJobs>> >>
      /\ D!AllMain.categories = << <<"trades", D!DownloadBinanceDataset>> >>
      /\ D!BinanceMain.categories = << <<"trades", D!DownloadBinanceData>> >>
  BY DEF D!BybitMain, D!ContextMain, D!AllMain, D!BinanceMain, D!Main
<1>2. /\ Sound(<< <<"bybit", D!DownloadBybitFixed>> >>, "bybit", zips)
      /\ Sound(<< <<"context", D!ContextJobs>> >>, "context", zips)
  BY BybitCategory, ContextCategory, OneIsSound
<1>3. /\ Sound(<< <<"trades", D!DownloadBinanceDataset>> >>, "all", zips)
      /\ Sound(<< <<"trades", D!DownloadBinanceData>> >>, "binance", zips)
  BY TradesCategories, OneIsSound
<1> QED
  BY <1>1, <1>2, <1>3

LEMMA SelectedIsSound ==
  ASSUME NEW cs, NEW s, NEW zips, Sound(cs, s, zips), NEW only
  PROVE  Sound([a \in DOMAIN cs |-> D!Selected(cs[a], only)], s, zips)
<1>1. PICK S : cs \in Seq(S)
  BY DEF Sound, IsSeq
<1>2. PICK ds : ds = [a \in DOMAIN cs |-> D!Selected(cs[a], only)]
  OBVIOUS
<1>3. DOMAIN ds = DOMAIN cs
  BY <1>2
<1>4. \A a \in DOMAIN ds : ds[a][2] \subseteq cs[a][2]
  BY <1>2 DEF D!Selected
<1>5. ds \in Seq({ds[a] : a \in DOMAIN ds})
  <2>1. PICK n \in Nat : cs \in [1..n -> S]
    BY <1>1, SeqDef
  <2>2. ds \in [1..n -> {ds[a] : a \in DOMAIN ds}]
    BY <1>2, <2>1
  <2> QED
    BY <2>2, SeqDef
<1>6. \A a \in DOMAIN ds : \A j \in ds[a][2] : GoodJob(j, s, zips)
  BY <1>3, <1>4 DEF Sound
<1>7. \A a, b \in DOMAIN ds : \A j \in ds[a][2], k \in ds[b][2] : a # b \/ j # k => Apart(j, k)
  BY <1>3, <1>4 DEF Sound
<1>8. Sound(ds, s, zips)
  BY <1>5, <1>6, <1>7 DEF Sound, IsSeq
<1> QED
  BY <1>2, <1>8


\* The converters: a job of one attempt for an archive.
LEMMA ConversionIs ==
  ASSUME NEW zips, NEW zip \in zips, 1 \in DOMAIN zip, NEW s,
         NEW helper \in {D!ConvertZip, D!ConvertZipToParquet},
         helper = D!ConvertZip => s \in Lax
  PROVE  /\ GoodJob(D!Conversion(zip, helper), s, zips)
         /\ \A i \in DOMAIN D!Conversion(zip, helper) : D!Conversion(zip, helper)[i].by = helper
<1>1. PICK t : t = [out |-> D!Parquet(zip), by |-> helper, from |-> zip]
  OBVIOUS
<1>2. D!Conversion(zip, helper) = <<t>>
  BY <1>1 DEF D!Conversion
<1>3. /\ helper.accepts = {"data"} /\ helper.local = TRUE
      /\ helper.skip \in {"exists", "never"} /\ (helper.skip = "exists" => s \in Lax)
  BY DEF D!ConvertZip, D!ConvertZipToParquet, D!Helper
<1>4. 1 \in DOMAIN D!Parquet(zip) /\ D!Parquet(zip)[1] = "data/parquet"
  BY DEF D!Parquet
<1>5. GoodTry(t, s, zips)
  BY <1>1, <1>3, <1>4 DEF GoodTry, Rewritten, D!Answers
<1>6. t.by = helper
  BY <1>1
<1> QED
  BY <1>2, <1>5, <1>6, OneIs DEF GoodJob, GoodTries

LEMMA ConvertersAreSound ==
  ASSUME NEW zips, \A zip \in zips : 1 \in DOMAIN zip
  PROVE  /\ Sound(<< <<"convert", {D!Conversion(zip, D!ConvertZip) : zip \in zips}>> >>, "convert_all", zips)
         /\ \A zip \in zips :
              Sound(<< <<"convert", {D!Conversion(zip, D!ConvertZipToParquet)}>> >>, "convert_one", zips)
<1>1. ASSUME NEW J, NEW s, \A j \in J : GoodJob(j, s, zips), \A j, k \in J : j # k => Apart(j, k)
      PROVE  Sound(<< <<"convert", J>> >>, s, zips)
  <2>0. <<"convert", J>>[2] = J
    OBVIOUS
  <2>1. PICK c : c = <<"convert", J>> /\ c[2] = J
    BY <2>0
  <2>2. PICK cs : cs = <<c>> /\ IsSeq(cs) /\ DOMAIN cs = 1..1 /\ cs[1] = c
    BY OneIs
  <2>4. \A a \in 1..1 : a = 1
    OBVIOUS
  <2>3. Sound(cs, s, zips)
    BY <1>1, <2>1, <2>2, <2>4 DEF Sound
  <2> QED
    BY <2>1, <2>2, <2>3
<1>2. ASSUME NEW zip \in zips
      PROVE  /\ GoodJob(D!Conversion(zip, D!ConvertZip), "convert_all", zips)
             /\ \A j : Apart(j, D!Conversion(zip, D!ConvertZip))
  <2>1. /\ GoodJob(D!Conversion(zip, D!ConvertZip), "convert_all", zips)
        /\ \A i \in DOMAIN D!Conversion(zip, D!ConvertZip) :
             D!Conversion(zip, D!ConvertZip)[i].by = D!ConvertZip
    BY ConversionIs DEF Lax
  <2>2. D!ConvertZip.skip = "exists"
    BY DEF D!ConvertZip, D!Helper
  <2> QED
    BY <2>1, <2>2 DEF Apart, Spares
<1>3. Sound(<< <<"convert", {D!Conversion(zip, D!ConvertZip) : zip \in zips}>> >>, "convert_all", zips)
  BY <1>1, <1>2
<1>4. ASSUME NEW zip \in zips
      PROVE  Sound(<< <<"convert", {D!Conversion(zip, D!ConvertZipToParquet)}>> >>, "convert_one", zips)
  <2>1. D!ConvertZipToParquet # D!ConvertZip
    <3>1. D!ConvertZipToParquet.skip = "never" /\ D!ConvertZip.skip = "exists"
      BY DEF D!ConvertZip, D!ConvertZipToParquet, D!Helper
    <3> QED
      BY <3>1
  <2>2. GoodJob(D!Conversion(zip, D!ConvertZipToParquet), "convert_one", zips)
    BY <2>1, ConversionIs
  <2> QED
    BY <1>1, <2>2
<1> QED
  BY <1>3, <1>4

-----------------------------------------------------------------------------
LEMMA NothingIsSeq == IsSeq(<<>>) /\ DOMAIN <<>> = {}
<1>1. <<>> \in Seq({}) /\ DOMAIN <<>> = {}
  OBVIOUS
<1>2. {<<>>[i] : i \in DOMAIN <<>>} = {}
  BY <1>1
<1> QED
  BY <1>1, <1>2, Zenon DEF IsSeq

\* What each step does to the work.
LEMMA NoWork == ASSUME NEW s, NEW zips PROVE Work(<<>>, {}, <<>>, {}, s, zips)
<1>1. IsSeq(<<>>) /\ DOMAIN <<>> = {}
  BY NothingIsSeq
<1> QED
  BY <1>1 DEF Work, Sound, GoodTries, Coming

LEMMA LaunchWork ==
  ASSUME NEW cs, NEW s, NEW zips, Sound(cs, s, zips)
  PROVE  Work(cs, {}, <<>>, {}, s, zips)
<1>1. IsSeq(<<>>) /\ DOMAIN <<>> = {}
  BY NothingIsSeq
<1> QED
  BY <1>1 DEF Work, GoodTries, Apart

LEMMA MoreArchives ==
  ASSUME NEW cs, NEW J, NEW q, NEW done, NEW s, NEW zips, Work(cs, J, q, done, s, zips),
         NEW more, zips \subseteq more
  PROVE  Work(cs, J, q, done, s, more)
<1>1. ASSUME NEW t, GoodTry(t, s, zips) PROVE GoodTry(t, s, more)
  BY <1>1 DEF GoodTry
<1>2. ASSUME NEW j, GoodTries(j, s, zips) PROVE GoodTries(j, s, more)
  BY <1>1, <1>2 DEF GoodTries
<1>3. ASSUME NEW j, GoodJob(j, s, zips) PROVE GoodJob(j, s, more)
  BY <1>2, <1>3 DEF GoodJob
<1>4. Sound(cs, s, more)
  BY <1>3 DEF Work, Sound
<1> QED
  BY <1>2, <1>3, <1>4 DEF Work

LEMMA LessWork ==
  ASSUME NEW cs, NEW J, NEW q, NEW done, NEW s, NEW zips, Work(cs, J, q, done, s, zips),
         NEW less, less \subseteq J, NEW kept, kept \subseteq done
  PROVE  Work(cs, less, q, kept, s, zips) /\ Work(cs, less, <<>>, kept, s, zips)
<1>1. IsSeq(<<>>) /\ DOMAIN <<>> = {}
  BY NothingIsSeq
<1>2. GoodTries(<<>>, s, zips) /\ (\A k : Apart(<<>>, k)) /\ \A f : Spares(<<>>, f)
  BY <1>1 DEF GoodTries, Apart, Spares
<1>3. Work(cs, less, q, kept, s, zips)
  BY DEF Work
<1>4. Work(cs, less, <<>>, kept, s, zips)
  BY <1>2 DEF Work
<1> QED
  BY <1>3, <1>4

LEMMA NextAttempt ==
  ASSUME NEW cs, NEW J, NEW q, NEW done, NEW s, NEW zips, Work(cs, J, q, done, s, zips), q # <<>>
  PROVE  Work(cs, J, Tail(q), done, s, zips)
<1>1. PICK S : q \in Seq(S)
  BY DEF Work, GoodTries, IsSeq
<1>2. PICK r : r = Tail(q)
  OBVIOUS
<1>3. r \in Seq(S) /\ \A i \in DOMAIN r : i + 1 \in DOMAIN q /\ r[i] = q[i + 1]
  <2>1. Len(q) \in Nat /\ Len(q) # 0 /\ DOMAIN q = 1..Len(q)
    BY <1>1, EmptySeq, LenProperties
  <2>2. /\ Tail(q) \in Seq(S) /\ Len(Tail(q)) = Len(q) - 1
        /\ \A i \in 1..Len(Tail(q)) : Tail(q)[i] = q[i + 1]
    BY <1>1, HeadTailProperties
  <2>3. r \in Seq(S) /\ Len(r) = Len(q) - 1 /\ \A i \in 1..Len(r) : r[i] = q[i + 1]
    BY <1>2, <2>2
  <2>4. DOMAIN r = 1..Len(r)
    BY <2>3, LenProperties
  <2>5. \A i \in 1..Len(r) : i + 1 \in 1..Len(q)
    BY <2>1, <2>3
  <2> QED
    BY <2>1, <2>3, <2>4, <2>5
<1>4. IsSeq(r)
  BY <1>3, SeqIsSeq
<1>5. GoodTries(r, s, zips)
  BY <1>3, <1>4 DEF Work, GoodTries
<1>6. \A k \in J \cup Coming(cs) : Apart(r, k)
  BY <1>3 DEF Work, Apart
<1>7. \A f \in done : Spares(r, f)
  BY <1>3 DEF Work, Spares
<1>8. Work(cs, J, r, done, s, zips)
  BY <1>5, <1>6, <1>7 DEF Work
<1> QED
  BY <1>2, <1>8

LEMMA JobDone ==
  ASSUME NEW cs, NEW J, NEW q, NEW done, NEW s, NEW zips, Work(cs, J, q, done, s, zips), q # <<>>
  PROVE  Work(cs, J, <<>>, done \cup {Head(q).out}, s, zips)
<1>1. PICK f : f = Head(q).out
  OBVIOUS
<1>2. \A k \in J \cup Coming(cs) : Spares(k, f)
  <2>1. IsSeq(q) /\ Head(q) = q[1]
    BY HeadTailProperties DEF Work, GoodTries, IsSeq
  <2>2. 1 \in DOMAIN q
    BY <2>1, FirstOf
  <2> QED
    BY <1>1, <2>1, <2>2 DEF Work, Apart
<1>3. IsSeq(<<>>) /\ DOMAIN <<>> = {}
  BY NothingIsSeq
<1>4. GoodTries(<<>>, s, zips) /\ (\A k : Apart(<<>>, k)) /\ \A g : Spares(<<>>, g)
  BY <1>3 DEF GoodTries, Apart, Spares
<1>5. Work(cs, J, <<>>, done \cup {f}, s, zips)
  BY <1>2, <1>4 DEF Work
<1> QED
  BY <1>1, <1>5

LEMMA JobTaken ==
  ASSUME NEW cs, NEW J, NEW q, NEW done, NEW s, NEW zips, Work(cs, J, q, done, s, zips), NEW j \in J
  PROVE  Work(cs, J \ {j}, j, done, s, zips)
<1>1. GoodTries(j, s, zips)
  BY DEF Work, GoodJob
<1>2. \A k \in (J \ {j}) \cup Coming(cs) : Apart(j, k)
  BY DEF Work
<1>3. \A f \in done : \A k \in (J \ {j}) \cup Coming(cs) \cup {j} : Spares(k, f)
  BY DEF Work
<1> QED
  BY <1>1, <1>2, <1>3 DEF Work

LEMMA NextWork ==
  ASSUME NEW cs, NEW J, NEW q, NEW done, NEW s, NEW zips, Work(cs, J, q, done, s, zips), cs # <<>>
  PROVE  /\ Work(Tail(cs), Head(cs)[2], q, done, s, zips)
         /\ Work(Tail(cs), {}, q, done, s, zips)
<1>1. PICK S : cs \in Seq(S)
  BY DEF Work, Sound, IsSeq
<1>2. PICK ds : ds = Tail(cs)
  OBVIOUS
<1>3. PICK K : K = Head(cs)[2]
  OBVIOUS
<1>4. /\ ds \in Seq(S) /\ 1 \in DOMAIN cs /\ K = cs[1][2]
      /\ \A a \in DOMAIN ds : a + 1 \in DOMAIN cs /\ a + 1 # 1 /\ ds[a] = cs[a + 1]
      /\ \A a, b \in DOMAIN ds : a # b => a + 1 # b + 1
  <2>1. Len(cs) \in Nat /\ Len(cs) # 0 /\ DOMAIN cs = 1..Len(cs)
    BY <1>1, EmptySeq, LenProperties
  <2>2. /\ Tail(cs) \in Seq(S) /\ Len(Tail(cs)) = Len(cs) - 1 /\ Head(cs) = cs[1]
        /\ \A a \in 1..Len(Tail(cs)) : Tail(cs)[a] = cs[a + 1]
    BY <1>1, HeadTailProperties
  <2>3. ds \in Seq(S) /\ Len(ds) = Len(cs) - 1 /\ \A a \in 1..Len(ds) : ds[a] = cs[a + 1]
    BY <1>2, <2>2
  <2>4. DOMAIN ds = 1..Len(ds)
    BY <2>3, LenProperties
  <2>5. \A a \in 1..Len(ds) : a + 1 \in 1..Len(cs) /\ a + 1 # 1
    BY <2>1, <2>3
  <2>6. 1 \in 1..Len(cs) /\ \A a, b \in 1..Len(ds) : a # b => a + 1 # b + 1
    BY <2>1, <2>3
  <2> QED
    BY <1>3, <2>1, <2>2, <2>3, <2>4, <2>5, <2>6
<1>5. Sound(ds, s, zips)
  <2>1. IsSeq(ds)
    BY <1>4, SeqIsSeq
  <2>2. \A a \in DOMAIN ds : \A j \in ds[a][2] : GoodJob(j, s, zips)
    BY <1>4 DEF Work, Sound
  <2>3. ASSUME NEW a \in DOMAIN ds, NEW b \in DOMAIN ds, NEW j \in ds[a][2], NEW k \in ds[b][2],
               a # b \/ j # k
        PROVE  Apart(j, k)
    <3>1. PICK c \in DOMAIN cs : c = a + 1 /\ ds[a] = cs[c]
      BY <1>4
    <3>2. PICK d \in DOMAIN cs : d = b + 1 /\ ds[b] = cs[d]
      BY <1>4
    <3>3. c # d \/ j # k
      BY <1>4, <2>3, <3>1, <3>2
    <3> QED
      BY <3>1, <3>2, <3>3 DEF Work, Sound
  <2> QED
    BY <2>1, <2>2, <2>3 DEF Sound
<1>6. K \cup Coming(ds) \subseteq Coming(cs)
  BY <1>4 DEF Coming
<1>7. /\ \A j \in K : GoodJob(j, s, zips)
      /\ \A j, k \in K : j # k => Apart(j, k)
  BY <1>4 DEF Work, Sound
<1>8. ASSUME NEW j \in K, NEW k \in Coming(ds) PROVE Apart(j, k)
  <2>1. PICK a \in DOMAIN ds : k \in ds[a][2]
    BY DEF Coming
  <2>2. PICK c \in DOMAIN cs : c # 1 /\ k \in cs[c][2]
    BY <1>4, <2>1
  <2> QED
    BY <1>4, <2>2 DEF Work, Sound
<1>9. Work(ds, K, q, done, s, zips)
  BY <1>5, <1>6, <1>7, <1>8 DEF Work
<1>10. Work(ds, {}, q, done, s, zips)
  BY <1>9 DEF Work
<1> QED
  BY <1>2, <1>3, <1>9, <1>10

-----------------------------------------------------------------------------
(***************************************************************************)
(* The scripts and the disk.                                                *)
(***************************************************************************)
Done == success \cup total
DiskInv ==
  /\ \A f \in DOMAIN disk : disk[f] \in D!Contents /\ 1 \in DOMAIN f
  /\ D!ParquetHasItsArchive
DatasetTypes ==
  /\ phase \in {"idle", "categories", "jobs", "asking", "writing"}
  /\ body \in D!Answers \cup {"none"}
  /\ phase = "writing" => body # "none"
  /\ phase # "writing" => body = "none"
  /\ phase \in {"asking", "writing"} => attempts # <<>>
  /\ exit \in {"none", "0", "1", "traceback", "killed"}
  /\ mishaps \in 0..MaxMishaps
WorkInv == Work(todo, jobs, attempts, Done, script, D!Zips)
IdleInv == phase = "idle" => jobs = {} /\ attempts = <<>> /\ Done = {}
\* While a body is written its file is the empty one that was opened; what is
\* converted is a complete archive.
WritingInv ==
  phase = "writing" => /\ D!Exists(D!Try1.out) /\ disk[D!Try1.out] = "empty"
                       /\ body \in D!Try1.by.accepts
                       /\ D!Try1.by.local = TRUE => disk[D!Try1.from] = "data"
DatasetInv ==
  /\ DiskInv /\ DatasetTypes /\ WorkInv /\ IdleInv /\ WritingInv /\ D!CountedIsOnDisk

Kept1 == \A f \in DOMAIN disk : D!HasBytes(f) /\ f[1] \notin Rewritten => disk'[f] = disk[f]

-----------------------------------------------------------------------------
LEMMA FirstAttempt ==
  ASSUME WorkInv, attempts # <<>>
  PROVE  /\ GoodTry(D!Try1, script, D!Zips)
         /\ D!Try1.by.skip # "exists" => D!Try1.out \notin Done
<1>1. IsSeq(attempts) /\ (\A i \in DOMAIN attempts : GoodTry(attempts[i], script, D!Zips))
      /\ \A f \in Done : Spares(attempts, f)
  BY DEF WorkInv, Work, GoodTries
<1>2. 1 \in DOMAIN attempts
  BY <1>1, FirstOf
<1>3. D!Try1 = attempts[1]
  BY <1>1, HeadTailProperties DEF D!Try1, IsSeq
<1> QED
  BY <1>1, <1>2, <1>3 DEF Spares

LEMMA DiskStays ==
  ASSUME DiskInv, UNCHANGED disk
  PROVE  DiskInv' /\ Kept1 /\ D!Zips' = D!Zips
  BY DEF DiskInv, Kept1, D!ParquetHasItsArchive, D!Zips

LEMMA DiskPut ==
  ASSUME DiskInv, NEW f, 1 \in DOMAIN f, NEW c \in D!Contents, disk' = D!Put(f, c),
         f[1] \in Rewritten \/ ~D!HasBytes(f),
         c = "data" /\ f[1] = "data/parquet" =>
           \E zip \in D!Zips : D!Parquet(zip) = f /\ disk[zip] = "data"
  PROVE  /\ DiskInv' /\ Kept1 /\ D!Zips \subseteq D!Zips'
         /\ DOMAIN disk' = DOMAIN disk \cup {f} /\ disk'[f] = c
         /\ \A g \in DOMAIN disk : g # f => disk'[g] = disk[g]
<1>1. /\ DOMAIN disk' = DOMAIN disk \cup {f} /\ disk'[f] = c
      /\ \A g \in DOMAIN disk : g # f => disk'[g] = disk[g]
  BY DEF D!Put
<1>2. D!Zips \subseteq D!Zips'
  BY <1>1 DEF D!Zips
<1>3. Kept1
  BY <1>1 DEF Kept1, D!HasBytes, D!Exists
<1>4. \A g \in DOMAIN disk' : disk'[g] \in D!Contents /\ 1 \in DOMAIN g
  BY <1>1 DEF DiskInv
<1>5. ASSUME NEW zip \in D!Zips, disk[zip] = "data" PROVE zip \in D!Zips' /\ disk'[zip] = "data"
  <2>1. zip \in DOMAIN disk /\ zip[1] = "data"
    BY DEF D!Zips
  <2> QED
    BY <1>2, <1>3, <1>5, <2>1 DEF Kept1, D!HasBytes, D!Exists, Rewritten
<1>6. ASSUME NEW g \in DOMAIN disk', g[1] = "data/parquet", disk'[g] = "data"
      PROVE  \E zip \in D!Zips' : D!Parquet(zip) = g /\ disk'[zip] = "data"
  <2>1. \E zip \in D!Zips : D!Parquet(zip) = g /\ disk[zip] = "data"
    <3>1. CASE g = f
      BY <1>1, <1>6, <3>1
    <3>2. CASE g # f
      BY <1>1, <1>6, <3>2 DEF DiskInv, D!ParquetHasItsArchive
    <3> QED
      BY <3>1, <3>2
  <2> QED
    BY <1>5, <2>1
<1>7. D!ParquetHasItsArchive'
  BY <1>6 DEF D!ParquetHasItsArchive, D!Parquet
<1> QED
  BY <1>1, <1>2, <1>3, <1>4, <1>7 DEF DiskInv

\* What is written over the file that was opened for it.
LEMMA PutWhileWriting ==
  ASSUME DatasetInv, phase = "writing", NEW c \in {body, "empty", "partial"},
         disk' = D!Put(D!Try1.out, c)
  PROVE  /\ DiskInv' /\ Kept1 /\ D!Zips \subseteq D!Zips'
         /\ DOMAIN disk' = DOMAIN disk \cup {D!Try1.out} /\ disk'[D!Try1.out] = c
         /\ \A g \in DOMAIN disk : g # D!Try1.out => disk'[g] = disk[g]
<1>1. PICK f : f = D!Try1.out
  OBVIOUS
<1>2. GoodTry(D!Try1, script, D!Zips)
  BY FirstAttempt DEF DatasetInv, DatasetTypes
<1>3. c \in D!Contents
  BY DEF DatasetInv, DatasetTypes, D!Contents
<1>4. ~D!HasBytes(f) /\ 1 \in DOMAIN f
  BY <1>1, <1>2 DEF DatasetInv, WritingInv, D!HasBytes, GoodTry
<1>5. f[1] = "data/parquet" => \E zip \in D!Zips : D!Parquet(zip) = f /\ disk[zip] = "data"
  BY <1>1, <1>2 DEF GoodTry, DatasetInv, WritingInv
<1>6. DiskInv /\ disk' = D!Put(f, c)
  BY <1>1 DEF DatasetInv
<1>7. /\ DiskInv' /\ Kept1 /\ D!Zips \subseteq D!Zips'
      /\ DOMAIN disk' = DOMAIN disk \cup {f} /\ disk'[f] = c
      /\ \A g \in DOMAIN disk : g # f => disk'[g] = disk[g]
  BY <1>3, <1>4, <1>5, <1>6, DiskPut
<1> QED
  BY <1>1, <1>7

\* An attempt that fails.
LEMMA FailKeeps ==
  ASSUME DatasetInv, phase \in {"asking", "writing"}, NEW stops, D!Fail(stops),
         UNCHANGED <<script, todo, jobs, total>>, D!Zips \subseteq D!Zips'
  PROVE  WorkInv' /\ phase' \in {"jobs", "asking"} /\ (phase' = "asking" => attempts' # <<>>) /\ Done' = Done
<1>1. Work(todo, jobs, attempts, Done, script, D!Zips')
  BY MoreArchives DEF DatasetInv, WorkInv
<1>2. Done' = Done
  BY DEF D!Fail, Done
<1>3. CASE D!EndJob
  <2>1. Work(todo, jobs, <<>>, Done, script, D!Zips')
    BY <1>1, LessWork
  <2> QED
    BY <1>2, <1>3, <2>1 DEF D!EndJob, WorkInv
<1>4. CASE attempts' = Tail(attempts) /\ phase' = "asking" /\ Len(attempts) # 1
  <2>1. attempts # <<>>
    BY DEF DatasetInv, DatasetTypes
  <2>2. Work(todo, jobs, Tail(attempts), Done, script, D!Zips')
    BY <1>1, <2>1, NextAttempt
  <2>3. Tail(attempts) # <<>>
    <3>1. IsSeq(attempts)
      BY DEF DatasetInv, WorkInv, Work, GoodTries
    <3>2. Len(attempts) \in Nat \ {0} /\ Len(Tail(attempts)) = Len(attempts) - 1
      BY <2>1, <3>1, EmptySeq, LenProperties, HeadTailProperties DEF IsSeq
    <3>3. Len(Tail(attempts)) # 0
      BY <1>4, <3>2
    <3> QED
      BY <3>3, EmptySeq
  <2> QED
    BY <1>2, <1>4, <2>2, <2>3 DEF WorkInv
<1> QED
  BY <1>3, <1>4 DEF D!Fail

\* An attempt that succeeds.
LEMMA SucceedKeeps ==
  ASSUME DatasetInv, phase \in {"asking", "writing"}, D!Succeed,
         UNCHANGED <<script, todo, jobs, total>>, D!Zips \subseteq D!Zips'
  PROVE  WorkInv' /\ phase' = "jobs" /\ attempts' = <<>> /\ Done' = Done \cup {D!Try1.out}
<1>1. Work(todo, jobs, attempts, Done, script, D!Zips')
  BY MoreArchives DEF DatasetInv, WorkInv
<1>2. attempts # <<>>
  BY DEF DatasetInv, DatasetTypes
<1>3. Work(todo, jobs, <<>>, Done \cup {D!Try1.out}, script, D!Zips')
  BY <1>1, <1>2, JobDone DEF D!Try1
<1>4. phase' = "jobs" /\ attempts' = <<>> /\ Done' = Done \cup {D!Try1.out}
  BY DEF D!Succeed, D!EndJob, Done
<1> QED
  BY <1>3, <1>4 DEF WorkInv

\* The process is gone.
LEMMA GoneKeeps ==
  ASSUME D!Gone
  PROVE  /\ WorkInv' /\ IdleInv' /\ WritingInv' /\ D!CountedIsOnDisk'
         /\ phase' = "idle" /\ body' = "none" /\ attempts' = <<>>
<1>1. /\ phase' = "idle" /\ script' = "none" /\ body' = "none" /\ todo' = <<>> /\ jobs' = {}
      /\ attempts' = <<>> /\ Done' = {} /\ success' \cup total' = {}
  BY DEF D!Gone, Done
<1>2. Work(<<>>, {}, <<>>, {}, "none", D!Zips')
  BY NoWork
<1>3. WorkInv'
  BY <1>1, <1>2 DEF WorkInv
<1>4. IdleInv' /\ WritingInv' /\ D!CountedIsOnDisk'
  BY <1>1 DEF IdleInv, WritingInv, D!CountedIsOnDisk
<1> QED
  BY <1>1, <1>3, <1>4

\* What was counted stays on disk as long as no file of it is touched.
LEMMA CountedStays ==
  ASSUME D!CountedIsOnDisk, script' = script, Done' \subseteq Done, DOMAIN disk \subseteq DOMAIN disk',
         \A f \in Done : disk'[f] = disk[f]
  PROVE  D!CountedIsOnDisk'
  BY DEF D!CountedIsOnDisk, Done, D!Exists, D!HasBytes

-----------------------------------------------------------------------------
\* The actions that leave the disk alone.
LEMMA LaunchKeeps ==
  ASSUME DatasetInv, NEW cs, D!Launch(cs),
         Sound([a \in DOMAIN cs |-> D!Selected(cs[a], Head(plan)[2])], Head(plan)[1], D!Zips)
  PROVE  DatasetInv' /\ Kept1
<1>1. /\ phase = "idle" /\ script' = Head(plan)[1] /\ phase' = "categories" /\ exit' = "none"
      /\ todo' = [a \in DOMAIN cs |-> D!Selected(cs[a], Head(plan)[2])]
      /\ UNCHANGED <<disk, jobs, attempts, body, success, total, mishaps>>
  BY DEF D!Launch
<1>2. DiskInv' /\ Kept1 /\ D!Zips' = D!Zips
  BY <1>1, DiskStays DEF DatasetInv
<1>3. jobs = {} /\ attempts = <<>> /\ Done = {} /\ Done' = {} /\ success' \cup total' = {}
  BY <1>1 DEF DatasetInv, IdleInv, Done
<1>4. Work(todo', {}, <<>>, {}, script', D!Zips')
  BY <1>1, <1>2, LaunchWork
<1>5. WorkInv'
  BY <1>1, <1>3, <1>4 DEF WorkInv
<1>6. DatasetTypes' /\ IdleInv' /\ WritingInv' /\ D!CountedIsOnDisk'
  BY <1>1, <1>3 DEF DatasetInv, DatasetTypes, IdleInv, WritingInv, D!CountedIsOnDisk
<1> QED
  BY <1>2, <1>5, <1>6 DEF DatasetInv

LEMMA StartKeeps ==
  ASSUME DatasetInv, Patterns \in Nat \ {0}, D!Start
  PROVE  DatasetInv' /\ Kept1
<1>1. PICK name : name = Head(plan)[1]
  OBVIOUS
<1>2. /\ name \in {"everything", "fixed", "extended", "bybit", "all", "binance", "context", "convert_all"}
      /\ D!Launch(D!Scripts[name].categories)
  BY <1>1 DEF D!Start, D!Scripts
<1>4. Sound(D!Scripts[name].categories, name, D!Zips)
  <2>1. CASE name = "everything"
    <3>1. D!Scripts[name].categories = D!EverythingMain.categories
      BY <2>1 DEF D!Scripts
    <3> QED
      BY <2>1, <3>1, EverythingIsSound
  <2>2. CASE name = "fixed"
    <3>1. D!Scripts[name].categories = D!FixedMain.categories
      BY <2>2 DEF D!Scripts
    <3> QED
      BY <2>2, <3>1, FixedIsSound
  <2>3. CASE name = "extended"
    <3>1. D!Scripts[name].categories = D!ExtendedMain.categories
      BY <2>3 DEF D!Scripts
    <3> QED
      BY <2>3, <3>1, ExtendedIsSound
  <2>4. CASE name = "bybit"
    <3>1. D!Scripts[name].categories = D!BybitMain.categories
      BY <2>4 DEF D!Scripts
    <3> QED
      BY <2>4, <3>1, SinglesAreSound
  <2>5. CASE name = "context"
    <3>1. D!Scripts[name].categories = D!ContextMain.categories
      BY <2>5 DEF D!Scripts
    <3> QED
      BY <2>5, <3>1, SinglesAreSound
  <2>6. CASE name = "all"
    <3>1. D!Scripts[name].categories = D!AllMain.categories
      BY <2>6 DEF D!Scripts
    <3> QED
      BY <2>6, <3>1, SinglesAreSound
  <2>7. CASE name = "binance"
    <3>1. D!Scripts[name].categories = D!BinanceMain.categories
      BY <2>7 DEF D!Scripts
    <3> QED
      BY <2>7, <3>1, SinglesAreSound
  <2>8. CASE name = "convert_all"
    <3>1. D!Scripts[name].categories = << <<"convert", D!ConvertAllJobs>> >>
      BY <2>8 DEF D!Scripts, D!ConvertAllMain, D!Main
    <3>2. \A zip \in D!Zips : 1 \in DOMAIN zip
      BY DEF DatasetInv, DiskInv, D!Zips
    <3>3. Sound(<< <<"convert", D!ConvertAllJobs>> >>, "convert_all", D!Zips)
      BY <3>2, ConvertersAreSound DEF D!ConvertAllJobs
    <3> QED
      BY <2>8, <3>1, <3>3
  <2> QED
    BY <1>2, <2>1, <2>2, <2>3, <2>4, <2>5, <2>6, <2>7, <2>8
<1>5. PICK cs : cs = D!Scripts[name].categories
  OBVIOUS
<1>6. Sound([a \in DOMAIN cs |-> D!Selected(cs[a], Head(plan)[2])], Head(plan)[1], D!Zips)
  BY <1>1, <1>4, <1>5, SelectedIsSound
<1> QED
  BY <1>2, <1>5, <1>6, LaunchKeeps

LEMMA StartConvertOneKeeps ==
  ASSUME DatasetInv, D!StartConvertOne
  PROVE  DatasetInv' /\ Kept1
<1>1. PICK zip \in D!Zips : D!Launch(D!ConvertOneMain(zip).categories)
  BY DEF D!StartConvertOne
<1>2. Head(plan)[1] = "convert_one"
  BY DEF D!StartConvertOne
<1>3. PICK cs : cs = << <<"convert", {D!Conversion(zip, D!ConvertZipToParquet)}>> >>
  OBVIOUS
<1>4. cs = D!ConvertOneMain(zip).categories
  BY <1>3 DEF D!ConvertOneMain, D!Main
<1>5. \A z \in D!Zips : 1 \in DOMAIN z
  BY DEF DatasetInv, DiskInv, D!Zips
<1>6. Sound(cs, "convert_one", D!Zips)
  BY <1>3, <1>5, ConvertersAreSound
<1>7. Sound([a \in DOMAIN cs |-> D!Selected(cs[a], Head(plan)[2])], Head(plan)[1], D!Zips)
  BY <1>2, <1>6, SelectedIsSound
<1> QED
  BY <1>1, <1>4, <1>7, LaunchKeeps

LEMMA NextCategoryKeeps ==
  ASSUME DatasetInv, D!NextCategory
  PROVE  DatasetInv' /\ Kept1
<1>1. /\ phase = "categories" /\ todo # <<>> /\ todo' = Tail(todo) /\ phase' = "jobs"
      /\ jobs' = Head(todo)[2] \/ jobs' = {}
      /\ UNCHANGED <<disk, script, attempts, body, success, total, exit, mishaps>>
  BY DEF D!NextCategory
<1>2. DiskInv' /\ Kept1 /\ D!Zips' = D!Zips
  BY <1>1, DiskStays DEF DatasetInv
<1>3. Done' = Done
  BY <1>1 DEF Done
<1>4. /\ Work(Tail(todo), Head(todo)[2], attempts, Done, script, D!Zips)
      /\ Work(Tail(todo), {}, attempts, Done, script, D!Zips)
  BY <1>1, NextWork DEF DatasetInv, WorkInv
<1>5. WorkInv'
  BY <1>1, <1>2, <1>3, <1>4 DEF WorkInv
<1>6. DatasetTypes' /\ IdleInv' /\ WritingInv' /\ D!CountedIsOnDisk'
  BY <1>1 DEF DatasetInv, DatasetTypes, IdleInv, WritingInv, D!CountedIsOnDisk, D!Exists, D!HasBytes
<1> QED
  BY <1>2, <1>5, <1>6 DEF DatasetInv

LEMMA TakeJobKeeps ==
  ASSUME DatasetInv, D!TakeJob
  PROVE  DatasetInv' /\ Kept1
<1>1. PICK j \in jobs : attempts' = j /\ jobs' = jobs \ {j}
  BY DEF D!TakeJob
<1>2. /\ phase = "jobs" /\ phase' = "asking"
      /\ UNCHANGED <<disk, script, todo, body, success, total, exit, mishaps>>
  BY DEF D!TakeJob
<1>3. DiskInv' /\ Kept1 /\ D!Zips' = D!Zips
  BY <1>2, DiskStays DEF DatasetInv
<1>4. Done' = Done
  BY <1>2 DEF Done
<1>5. Work(todo, jobs \ {j}, j, Done, script, D!Zips) /\ j # <<>>
  <2>1. Work(todo, jobs, attempts, Done, script, D!Zips)
    BY DEF DatasetInv, WorkInv
  <2> QED
    BY <2>1, JobTaken DEF Work, GoodJob
<1>6. WorkInv'
  BY <1>1, <1>2, <1>3, <1>4, <1>5 DEF WorkInv
<1>7. DatasetTypes' /\ IdleInv' /\ WritingInv' /\ D!CountedIsOnDisk'
  BY <1>1, <1>2, <1>5 DEF DatasetInv, DatasetTypes, IdleInv, WritingInv, D!CountedIsOnDisk, D!Exists, D!HasBytes
<1> QED
  BY <1>3, <1>6, <1>7 DEF DatasetInv

LEMMA CategoryReturnsKeeps ==
  ASSUME DatasetInv, D!CategoryReturns
  PROVE  DatasetInv' /\ Kept1
<1>1. /\ phase = "jobs" /\ total' = total \cup success /\ success' = {} /\ phase' = "categories"
      /\ UNCHANGED <<disk, script, todo, jobs, attempts, body, exit, mishaps>>
  BY DEF D!CategoryReturns
<1>2. DiskInv' /\ Kept1 /\ D!Zips' = D!Zips
  BY <1>1, DiskStays DEF DatasetInv
<1>3. Done' = Done
  BY <1>1 DEF Done
<1>4. WorkInv'
  BY <1>1, <1>2, <1>3 DEF DatasetInv, WorkInv
<1>5. D!CountedIsOnDisk'
  BY <1>1, <1>3, CountedStays DEF DatasetInv
<1>6. DatasetTypes' /\ IdleInv' /\ WritingInv'
  BY <1>1 DEF DatasetInv, DatasetTypes, IdleInv, WritingInv
<1> QED
  BY <1>2, <1>4, <1>5, <1>6 DEF DatasetInv

LEMMA MainReturnsKeeps ==
  ASSUME DatasetInv, D!MainReturns
  PROVE  DatasetInv' /\ Kept1
<1>1. D!Gone /\ exit' \in {"0", "1"} /\ UNCHANGED <<disk, mishaps>>
  BY DEF D!MainReturns
<1>2. DiskInv' /\ Kept1
  BY <1>1, DiskStays DEF DatasetInv
<1>3. /\ WorkInv' /\ IdleInv' /\ WritingInv' /\ D!CountedIsOnDisk'
      /\ phase' = "idle" /\ body' = "none" /\ attempts' = <<>>
  BY <1>1, GoneKeeps
<1>4. DatasetTypes'
  BY <1>1, <1>3 DEF DatasetInv, DatasetTypes
<1> QED
  BY <1>2, <1>3, <1>4 DEF DatasetInv

LEMMA SkipKeeps ==
  ASSUME DatasetInv, D!Skip
  PROVE  DatasetInv' /\ Kept1
<1>1. /\ phase = "asking" /\ D!AlreadyThere /\ D!Succeed
      /\ UNCHANGED <<disk, script, todo, jobs, body, total, exit, mishaps>>
  BY DEF D!Skip
<1>2. DiskInv' /\ Kept1 /\ D!Zips' = D!Zips
  BY <1>1, DiskStays DEF DatasetInv
<1>3. WorkInv' /\ phase' = "jobs" /\ attempts' = <<>> /\ Done' = Done \cup {D!Try1.out}
  BY <1>1, <1>2, SucceedKeeps
<1>4. D!Exists(D!Try1.out) /\ (script \notin Lax => disk[D!Try1.out] \notin {"empty", "nothing"})
  <2>1. GoodTry(D!Try1, script, D!Zips)
    BY <1>1, FirstAttempt DEF DatasetInv, DatasetTypes
  <2>2. CASE D!Try1.by.skip = "bytes"
    BY <1>1, <2>2 DEF D!AlreadyThere, D!HasBytes
  <2>3. CASE D!Try1.by.skip = "exists"
    BY <1>1, <2>1, <2>3 DEF D!AlreadyThere, GoodTry
  <2>4. CASE D!Try1.by.skip = "never"
    BY <1>1, <2>4 DEF D!AlreadyThere
  <2> QED
    BY <2>1, <2>2, <2>3, <2>4 DEF GoodTry
<1>5. D!CountedIsOnDisk'
  BY <1>1, <1>3, <1>4 DEF DatasetInv, D!CountedIsOnDisk, D!Exists, Done, Lax
<1>6. DatasetTypes' /\ IdleInv' /\ WritingInv'
  BY <1>1, <1>3 DEF DatasetInv, DatasetTypes, IdleInv, WritingInv
<1> QED
  BY <1>2, <1>3, <1>5, <1>6 DEF DatasetInv

\* An attempt that fails before a file was opened.
LEMMA AskFails ==
  ASSUME DatasetInv, phase = "asking", NEW stops, D!Fail(stops),
         UNCHANGED <<disk, script, todo, jobs, body, total, exit, mishaps>>
  PROVE  DatasetInv' /\ Kept1
<1>1. DiskInv' /\ Kept1 /\ D!Zips' = D!Zips
  BY DiskStays DEF DatasetInv
<1>2. WorkInv' /\ phase' \in {"jobs", "asking"} /\ (phase' = "asking" => attempts' # <<>>) /\ Done' = Done
  BY <1>1, FailKeeps
<1>3. D!CountedIsOnDisk'
  BY <1>2, CountedStays DEF DatasetInv
<1>4. DatasetTypes' /\ IdleInv' /\ WritingInv'
  BY <1>2 DEF DatasetInv, DatasetTypes, IdleInv, WritingInv
<1> QED
  BY <1>1, <1>2, <1>3, <1>4 DEF DatasetInv

LEMMA RaisesKeeps ==
  ASSUME DatasetInv, D!Raises
  PROVE  DatasetInv' /\ Kept1
<1>1. phase = "asking" /\ UNCHANGED <<disk, mishaps>>
  BY DEF D!Raises
<1>2. DiskInv' /\ Kept1 /\ D!Zips' = D!Zips
  BY <1>1, DiskStays DEF DatasetInv
<1>3. CASE D!Gone /\ exit' = "traceback"
  <2>1. /\ WorkInv' /\ IdleInv' /\ WritingInv' /\ D!CountedIsOnDisk'
        /\ phase' = "idle" /\ body' = "none" /\ attempts' = <<>>
    BY <1>3, GoneKeeps
  <2>2. DatasetTypes'
    BY <1>1, <1>3, <2>1 DEF DatasetInv, DatasetTypes
  <2> QED
    BY <1>2, <2>1, <2>2 DEF DatasetInv
<1>4. CASE /\ phase' = "categories" /\ jobs' = {} /\ attempts' = <<>> /\ success' = {}
           /\ UNCHANGED <<script, todo, body, total, exit>>
  <2>1. Done' \subseteq Done /\ Done' = total /\ success' \cup total' = total
    BY <1>4 DEF Done
  <2>2. Work(todo, {}, <<>>, total, script, D!Zips)
    BY <1>4, <2>1, LessWork DEF DatasetInv, WorkInv
  <2>3. WorkInv'
    BY <1>2, <1>4, <2>1, <2>2 DEF WorkInv
  <2>4. D!CountedIsOnDisk'
    BY <1>1, <1>4, <2>1, CountedStays DEF DatasetInv
  <2>5. DatasetTypes' /\ IdleInv' /\ WritingInv'
    BY <1>1, <1>4 DEF DatasetInv, DatasetTypes, IdleInv, WritingInv
  <2> QED
    BY <1>2, <2>3, <2>4, <2>5 DEF DatasetInv
<1> QED
  BY <1>3, <1>4 DEF D!Raises, D!Abort

-----------------------------------------------------------------------------
\* The actions that write.
LEMMA OpenFileKeeps ==
  ASSUME DatasetInv, NEW answer \in D!Answers, D!OpenFile(answer)
  PROVE  DatasetInv' /\ Kept1
<1>1. /\ phase = "asking" /\ ~D!AlreadyThere /\ answer \in D!Try1.by.accepts
      /\ disk' = D!Put(D!Try1.out, "empty") /\ body' = answer /\ phase' = "writing"
      /\ UNCHANGED <<script, todo, jobs, attempts, success, total, exit, mishaps>>
  BY DEF D!OpenFile
<1>2. D!Try1.by.local = TRUE => answer = disk[D!Try1.from]
  BY DEF D!OpenFile
<1>3. /\ GoodTry(D!Try1, script, D!Zips)
      /\ D!Try1.by.skip # "exists" => D!Try1.out \notin Done
  BY <1>1, FirstAttempt DEF DatasetInv, DatasetTypes
<1>4. PICK f : f = D!Try1.out
  OBVIOUS
<1>5. f[1] \in Rewritten \/ ~D!HasBytes(f)
  <2>1. CASE D!Try1.by.skip = "bytes"
    BY <1>1, <1>4, <2>1 DEF D!AlreadyThere
  <2>2. CASE D!Try1.by.skip = "exists"
    BY <1>1, <1>4, <2>2 DEF D!AlreadyThere, D!HasBytes
  <2>3. CASE D!Try1.by.skip = "never"
    BY <1>3, <1>4, <2>3 DEF GoodTry
  <2> QED
    BY <1>3, <2>1, <2>2, <2>3 DEF GoodTry
<1>6. /\ DiskInv' /\ Kept1 /\ D!Zips \subseteq D!Zips'
      /\ DOMAIN disk' = DOMAIN disk \cup {f} /\ disk'[f] = "empty"
      /\ \A g \in DOMAIN disk : g # f => disk'[g] = disk[g]
  <2>1. 1 \in DOMAIN f /\ disk' = D!Put(f, "empty") /\ "empty" \in D!Contents /\ "empty" # "data"
    BY <1>1, <1>3, <1>4 DEF GoodTry, D!Contents
  <2> QED
    BY <1>5, <2>1, DiskPut DEF DatasetInv
<1>7. Done' = Done
  BY <1>1 DEF Done
<1>8. WorkInv'
  BY <1>1, <1>6, <1>7, MoreArchives DEF DatasetInv, WorkInv
<1>9. script \notin Lax => f \notin Done
  BY <1>3, <1>4 DEF GoodTry
<1>10. D!CountedIsOnDisk'
  BY <1>1, <1>6, <1>7, <1>9 DEF DatasetInv, D!CountedIsOnDisk, D!Exists, D!HasBytes, Done, Lax
<1>11. WritingInv'
  <2>1. D!Try1' = D!Try1
    BY <1>1 DEF D!Try1
  <2>2. D!Try1.by.local = TRUE => disk'[D!Try1.from] = "data"
    <3> SUFFICES ASSUME D!Try1.by.local = TRUE PROVE disk'[D!Try1.from] = "data"
      OBVIOUS
    <3>1. D!Try1.from \in D!Zips /\ D!Try1.by.accepts = {"data"} /\ f[1] = "data/parquet"
      BY <1>3, <1>4 DEF GoodTry
    <3>2. disk[D!Try1.from] = "data"
      BY <1>1, <1>2, <3>1
    <3>3. D!Try1.from # f /\ D!Try1.from \in DOMAIN disk
      BY <3>1 DEF D!Zips
    <3> QED
      BY <1>6, <3>2, <3>3
  <2> QED
    BY <1>1, <1>4, <1>6, <2>1, <2>2 DEF WritingInv, D!Exists
<1>12. DatasetTypes' /\ IdleInv'
  <2>1. answer # "none"
    BY DEF D!Answers
  <2> QED
    BY <1>1, <2>1 DEF DatasetInv, DatasetTypes, IdleInv
<1> QED
  BY <1>6, <1>8, <1>10, <1>11, <1>12 DEF DatasetInv

LEMMA OpenedIsNotCounted ==
  ASSUME DatasetInv, phase = "writing", script \notin Lax
  PROVE  D!Try1.out \notin Done
<1>1. GoodTry(D!Try1, script, D!Zips) /\ (D!Try1.by.skip # "exists" => D!Try1.out \notin Done)
  BY FirstAttempt DEF DatasetInv, DatasetTypes
<1> QED
  BY <1>1 DEF GoodTry

\* What was counted is still there after the opened file is written.
LEMMA CountedWhileWriting ==
  ASSUME DatasetInv, phase = "writing", NEW c \in {body, "empty", "partial"},
         disk' = D!Put(D!Try1.out, c), script' = script, Done' = Done
  PROVE  D!CountedIsOnDisk'
<1>1. /\ DOMAIN disk' = DOMAIN disk \cup {D!Try1.out}
      /\ \A g \in DOMAIN disk : g # D!Try1.out => disk'[g] = disk[g]
  BY PutWhileWriting
<1>2. script \notin Lax => D!Try1.out \notin Done
  BY OpenedIsNotCounted
<1> QED
  BY <1>1, <1>2 DEF DatasetInv, D!CountedIsOnDisk, D!Exists, D!HasBytes, Done, Lax

LEMMA WrittenKeeps ==
  ASSUME DatasetInv, D!Written
  PROVE  DatasetInv' /\ Kept1
<1>1. /\ phase = "writing" /\ disk' = D!Put(D!Try1.out, body) /\ body' = "none" /\ D!Succeed
      /\ UNCHANGED <<script, todo, jobs, total, exit, mishaps>>
  BY DEF D!Written
<1>2. /\ DiskInv' /\ Kept1 /\ D!Zips \subseteq D!Zips'
      /\ DOMAIN disk' = DOMAIN disk \cup {D!Try1.out} /\ disk'[D!Try1.out] = body
      /\ \A g \in DOMAIN disk : g # D!Try1.out => disk'[g] = disk[g]
  BY <1>1, PutWhileWriting
<1>3. WorkInv' /\ phase' = "jobs" /\ attempts' = <<>> /\ Done' = Done \cup {D!Try1.out}
  BY <1>1, <1>2, SucceedKeeps
<1>4. body # "empty" /\ (body = "nothing" => ~Sees(D!Try1.out, script))
  <2>1. GoodTry(D!Try1, script, D!Zips)
    BY <1>1, FirstAttempt DEF DatasetInv, DatasetTypes
  <2>2. body \in D!Answers /\ body \in D!Try1.by.accepts
    BY <1>1, <2>1 DEF DatasetInv, WritingInv, GoodTry
  <2> QED
    BY <2>1, <2>2 DEF GoodTry, D!Answers
<1>5. D!CountedIsOnDisk'
  <2>1. PICK f : f = D!Try1.out
    OBVIOUS
  <2>2. f \in DOMAIN disk' /\ disk'[f] # "empty" /\ (disk'[f] = "nothing" => ~Sees(f, script))
    BY <1>2, <1>4, <2>1
  <2>3. ASSUME NEW g \in Done, g # f
        PROVE  /\ g \in DOMAIN disk'
               /\ script \notin Lax => disk'[g] # "empty" /\ (disk'[g] = "nothing" => ~Sees(g, script))
    <3>1. g \in DOMAIN disk /\ disk'[g] = disk[g] /\ g \in DOMAIN disk'
      BY <1>2, <2>1, <2>3 DEF DatasetInv, D!CountedIsOnDisk, D!Exists, Done
    <3> QED
      BY <3>1 DEF DatasetInv, D!CountedIsOnDisk, Done, Lax, Sees
  <2>4. success' \cup total' = Done \cup {f} /\ script' = script
    BY <1>1, <1>3, <2>1 DEF Done
  <2>5. ASSUME NEW g \in success' \cup total'
        PROVE  /\ g \in DOMAIN disk'
               /\ script' \notin Lax => disk'[g] # "empty" /\ (disk'[g] = "nothing" => ~Sees(g, script'))
    BY <2>2, <2>3, <2>4
  <2> QED
    BY <2>5 DEF D!CountedIsOnDisk, D!Exists, Lax, Sees
<1>6. DatasetTypes' /\ IdleInv' /\ WritingInv'
  BY <1>1, <1>3 DEF DatasetInv, DatasetTypes, IdleInv, WritingInv
<1> QED
  BY <1>2, <1>3, <1>5, <1>6 DEF DatasetInv

\* A write that fails, by the connection or the disk, and goes on.
LEMMA WriteBreaks ==
  ASSUME DatasetInv, phase = "writing", NEW c \in {"empty", "partial"},
         disk' = D!Put(D!Try1.out, c), body' = "none", NEW stops, D!Fail(stops),
         UNCHANGED <<script, todo, jobs, total, exit>>, mishaps' \in 0..MaxMishaps
  PROVE  DatasetInv' /\ Kept1
<1>1. DiskInv' /\ Kept1 /\ D!Zips \subseteq D!Zips'
  BY PutWhileWriting
<1>2. WorkInv' /\ phase' \in {"jobs", "asking"} /\ (phase' = "asking" => attempts' # <<>>) /\ Done' = Done
  BY <1>1, FailKeeps
<1>3. D!CountedIsOnDisk'
  BY <1>2, CountedWhileWriting
<1>4. DatasetTypes' /\ IdleInv' /\ WritingInv'
  BY <1>2 DEF DatasetInv, DatasetTypes, IdleInv, WritingInv
<1> QED
  BY <1>1, <1>2, <1>3, <1>4 DEF DatasetInv

\* A run that ends over a failed write or is killed.
LEMMA RunBreaks ==
  ASSUME DatasetInv, NEW how \in {"traceback", "killed"}, D!Abort(how), mishaps' \in 0..MaxMishaps,
         \/ UNCHANGED disk
         \/ phase = "writing" /\ \E c \in {"empty", "partial"} : disk' = D!Put(D!Try1.out, c)
  PROVE  DatasetInv' /\ Kept1
<1>1. DiskInv' /\ Kept1
  <2>1. CASE UNCHANGED disk
    BY <2>1, DiskStays DEF DatasetInv
  <2>2. ASSUME phase = "writing", NEW c \in {"empty", "partial"}, disk' = D!Put(D!Try1.out, c)
        PROVE  DiskInv' /\ Kept1
    BY <2>2, PutWhileWriting
  <2> QED
    BY <2>1, <2>2
<1>2. /\ WorkInv' /\ IdleInv' /\ WritingInv' /\ D!CountedIsOnDisk'
      /\ phase' = "idle" /\ body' = "none" /\ attempts' = <<>>
  BY GoneKeeps DEF D!Abort
<1>3. DatasetTypes'
  BY <1>2 DEF DatasetTypes, D!Abort
<1> QED
  BY <1>1, <1>2, <1>3 DEF DatasetInv

LEMMA WriteFailsKeeps ==
  ASSUME DatasetInv, MaxMishaps \in Nat, D!WriteFails
  PROVE  DatasetInv' /\ Kept1
<1>1. PICK c \in {"empty", "partial"} : disk' = D!Put(D!Try1.out, c)
  BY DEF D!WriteFails, D!Remains
<1>2. phase = "writing" /\ mishaps' \in 0..MaxMishaps
  BY DEF D!WriteFails, DatasetInv, DatasetTypes
<1>3. CASE D!Abort("traceback")
  BY <1>1, <1>2, <1>3, RunBreaks
<1>4. ASSUME NEW stops, D!Fail(stops), body' = "none", UNCHANGED <<script, todo, jobs, total, exit>>
      PROVE  DatasetInv' /\ Kept1
  BY <1>1, <1>2, <1>4, WriteBreaks
<1> QED
  BY <1>3, <1>4 DEF D!WriteFails

LEMMA BrokenOffKeeps ==
  ASSUME DatasetInv, D!BrokenOff
  PROVE  DatasetInv' /\ Kept1
<1>1. /\ phase = "writing" /\ body' = "none" /\ D!Fail(FALSE)
      /\ UNCHANGED <<script, todo, jobs, total, exit, mishaps>>
  BY DEF D!BrokenOff
<1>3. PICK c \in {"empty", "partial"} : disk' = D!Put(D!Try1.out, c)
  BY DEF D!BrokenOff, D!Remains
<1>2. mishaps' \in 0..MaxMishaps
  BY <1>1 DEF DatasetInv, DatasetTypes
<1> QED
  BY <1>1, <1>2, <1>3, WriteBreaks

LEMMA KillKeeps ==
  ASSUME DatasetInv, MaxMishaps \in Nat, D!Kill
  PROVE  DatasetInv' /\ Kept1
<1>1. /\ D!Abort("killed")
      /\ \/ UNCHANGED disk
         \/ phase = "writing" /\ \E c \in {"empty", "partial"} : disk' = D!Put(D!Try1.out, c)
  BY DEF D!Kill, D!Remains
<1>2. mishaps' \in 0..MaxMishaps
  BY DEF D!Kill, DatasetInv, DatasetTypes
<1> QED
  BY <1>1, <1>2, RunBreaks

LEMMA DatasetInit == ASSUME D!Init, MaxMishaps \in Nat PROVE DatasetInv
<1>1. /\ disk = <<>> /\ script = "none" /\ todo = <<>> /\ jobs = {} /\ attempts = <<>>
      /\ phase = "idle" /\ body = "none" /\ success = {} /\ total = {}
      /\ exit = "none" /\ mishaps = 0
  BY DEF D!Init
<1>2. DOMAIN disk = {} /\ Done = {}
  BY <1>1 DEF Done
<1>3. DiskInv /\ D!CountedIsOnDisk
  BY <1>1, <1>2 DEF DiskInv, D!ParquetHasItsArchive, D!CountedIsOnDisk
<1>4. Work(<<>>, {}, <<>>, {}, "none", D!Zips)
  BY NoWork
<1>5. WorkInv
  BY <1>1, <1>2, <1>4 DEF WorkInv
<1>6. DatasetTypes /\ IdleInv /\ WritingInv
  BY <1>1, <1>2 DEF DatasetTypes, IdleInv, WritingInv
<1> QED
  BY <1>3, <1>5, <1>6 DEF DatasetInv

LEMMA DatasetKeeps ==
  ASSUME DatasetInv, CollectionAssumption, [D!Next]_datasetVars
  PROVE  DatasetInv' /\ Kept1
<1> USE DEF CollectionAssumption
<1>1. CASE D!Next
  <2>1. CASE D!Start
    BY <2>1, StartKeeps
  <2>2. CASE D!StartConvertOne
    BY <2>2, StartConvertOneKeeps
  <2>3. CASE D!Kill
    BY <2>3, KillKeeps
  <2>4. CASE D!Step
    <3>1. CASE D!NextCategory \/ D!TakeJob \/ D!CategoryReturns \/ D!MainReturns
      BY <3>1, NextCategoryKeeps, TakeJobKeeps, CategoryReturnsKeeps, MainReturnsKeeps
    <3>2. CASE D!Skip \/ D!Raises
      BY <3>2, SkipKeeps, RaisesKeeps
    <3>3. ASSUME D!NoAnswer PROVE DatasetInv' /\ Kept1
      BY <3>3, AskFails DEF D!NoAnswer
    <3>4. ASSUME NEW a, D!Refused(a) PROVE DatasetInv' /\ Kept1
      BY <3>4, AskFails DEF D!Refused
    <3>5. ASSUME NEW a \in D!Answers, D!OpenFile(a) PROVE DatasetInv' /\ Kept1
      BY <3>5, OpenFileKeeps
    <3>6. CASE D!Written \/ D!BrokenOff
      BY <3>6, WrittenKeeps, BrokenOffKeeps
    <3>7. CASE D!WriteFails
      BY <3>7, WriteFailsKeeps
    <3> QED
      BY <2>4, <3>1, <3>2, <3>3, <3>4, <3>5, <3>6, <3>7 DEF D!Step
  <2> QED
    BY <1>1, <2>1, <2>2, <2>3, <2>4 DEF D!Next
<1>2. CASE UNCHANGED datasetVars
  <2>1. UNCHANGED <<disk, script, todo, jobs, attempts, phase, body, success, total, exit, mishaps>>
    BY <1>2 DEF datasetVars
  <2>2. DiskInv' /\ Kept1 /\ D!Zips' = D!Zips
    BY <2>1, DiskStays DEF DatasetInv
  <2>3. WorkInv'
    BY <2>1, <2>2 DEF DatasetInv, WorkInv, Done
  <2>4. D!CountedIsOnDisk'
    BY <2>1 DEF DatasetInv, D!CountedIsOnDisk, D!Exists, D!HasBytes
  <2>5. DatasetTypes' /\ IdleInv'
    BY <2>1 DEF DatasetInv, DatasetTypes, IdleInv, Done
  <2>6. WritingInv'
    BY <2>1 DEF DatasetInv, WritingInv, D!Try1, D!Exists
  <2> QED
    BY <2>2, <2>3, <2>4, <2>5, <2>6 DEF DatasetInv
<1> QED
  BY <1>1, <1>2

LEMMA DatasetGoal ==
  ASSUME DatasetInv
  PROVE  D!TypeOK /\ D!CountedIsOnDisk /\ D!ParquetHasItsArchive
<1>1. (phase = "writing") = (body # "none")
  <2>1. (phase = "writing") <=> (body # "none")
    BY DEF DatasetInv, DatasetTypes
  <2> QED
    BY <2>1
<1> QED
  BY <1>1 DEF DatasetInv, DatasetTypes, DiskInv, D!TypeOK

-----------------------------------------------------------------------------
(***************************************************************************)
(* What RunsEnd rests on: a run and a stop have only so far to go.          *)
(***************************************************************************)
\* Where a run is between two attempts, jobs or categories: what ends the loop
\* it is in comes after what it does in it.
Stage(p) == CASE p = "writing" -> 1 [] p = "asking" -> 2 [] p = "categories" -> 3
              [] p = "jobs" -> 4 [] OTHER -> 0

\* A category is done with; or one of its jobs; or one attempt at a job; or the
\* run is further in the same attempt.
ComesCloser ==
  \/ Len(todo') < Len(todo)
  \/ todo' = todo /\ jobs' \subseteq jobs /\ jobs' # jobs
  \/ UNCHANGED <<todo, jobs>> /\ Len(attempts') < Len(attempts)
  \/ UNCHANGED <<todo, jobs, attempts>> /\ Stage(phase') < Stage(phase)

\* Every step of a script that runs ends the run or brings its end closer.
RunsAdvance == [][phase # "idle" => phase' = "idle" \/ ComesCloser]_datasetVars

\* How many turns a recorder that is to stop has left at most.
TurnsLeft(p) == CASE p = "new" -> 4 [] p \in {"connect", "waiting"} -> 3 [] p = "sleep" -> 2
                  [] p = "final" -> 1 [] OTHER -> 0
Stopping(r) == over \/ r \in interrupted

\* A recorder whose time is up or that Ctrl+C has reached stays so, comes no
\* further from its end, and closer with every turn.
StopsAdvance ==
  [][\A r \in C!Recorders : Stopping(r) =>
       /\ Stopping(r)'
       /\ TurnsLeft(pc'[r]) <= TurnsLeft(pc[r])
       /\ (C!Turn(r) => TurnsLeft(pc'[r]) < TurnsLeft(pc[r]))]_captureVars

\* The handler is that of a recorder that began, and one it has reached no
\* longer runs.
StopInv ==
  /\ handler # "none" => pc[handler] # "new"
  /\ \A r \in interrupted : pc[r] # "new" /\ running[r] = FALSE

-----------------------------------------------------------------------------
\* Of a sequence that is not empty, the tail is shorter and the end is empty.
LEMMA ShorterTail ==
  ASSUME NEW q, IsSeq(q), q # <<>>
  PROVE  Len(Tail(q)) < Len(q) /\ Len(<<>>) < Len(q)
<1>1. PICK S : q \in Seq(S)
  BY DEF IsSeq
<1>2. Len(q) \in Nat /\ Len(q) # 0 /\ Len(Tail(q)) = Len(q) - 1
  BY <1>1, EmptySeq, HeadTailProperties, LenProperties
<1> QED
  BY <1>2

\* However an attempt ends, the job has fewer attempts before it.
LEMMA AttemptEnds ==
  ASSUME WorkInv, attempts # <<>>, UNCHANGED <<todo, jobs>>,
         attempts' = <<>> \/ attempts' = Tail(attempts)
  PROVE  ComesCloser
<1>1. IsSeq(attempts)
  BY DEF WorkInv, Work, GoodTries
<1> QED
  BY <1>1, ShorterTail DEF ComesCloser

LEMMA StepAdvances ==
  ASSUME DatasetInv, D!Step
  PROVE  phase' = "idle" \/ ComesCloser
<1>1. /\ WorkInv
      /\ phase \in {"asking", "writing"} => attempts # <<>>
  BY DEF DatasetInv, DatasetTypes
<1>2. CASE D!NextCategory
  <2>1. todo # <<>> /\ todo' = Tail(todo) /\ IsSeq(todo)
    BY <1>1, <1>2 DEF D!NextCategory, WorkInv, Work, Sound
  <2> QED
    BY <2>1, ShorterTail DEF ComesCloser
<1>3. CASE D!TakeJob
  <2>1. PICK j \in jobs : jobs' = jobs \ {j}
    BY <1>3 DEF D!TakeJob
  <2>2. todo' = todo
    BY <1>3 DEF D!TakeJob
  <2> QED
    BY <2>1, <2>2 DEF ComesCloser
<1>4. CASE D!CategoryReturns
  <2>1. UNCHANGED <<todo, jobs, attempts>> /\ phase = "jobs" /\ phase' = "categories"
    BY <1>4 DEF D!CategoryReturns
  <2> QED
    BY <2>1 DEF ComesCloser, Stage
<1>5. CASE D!MainReturns
  BY <1>5 DEF D!MainReturns, D!Gone
<1>6. ASSUME NEW stops, D!Fail(stops)
      PROVE  attempts' = <<>> \/ attempts' = Tail(attempts)
  BY <1>6 DEF D!Fail, D!EndJob
<1>7. CASE D!Skip \/ D!Written
  BY <1>1, <1>7, AttemptEnds DEF D!Skip, D!Written, D!Succeed, D!EndJob
<1>8. CASE D!NoAnswer \/ (\E a \in D!Contents : D!Refused(a)) \/ D!BrokenOff
  BY <1>1, <1>6, <1>8, AttemptEnds DEF D!NoAnswer, D!Refused, D!BrokenOff
<1>9. ASSUME NEW a \in D!Answers, D!OpenFile(a) PROVE ComesCloser
  <2>1. UNCHANGED <<todo, jobs, attempts>> /\ phase = "asking" /\ phase' = "writing"
    BY <1>9 DEF D!OpenFile
  <2> QED
    BY <2>1 DEF ComesCloser, Stage
<1>10. CASE D!WriteFails
  <2>1. \/ phase' = "idle"
        \/ /\ phase = "writing" /\ UNCHANGED <<todo, jobs>>
           /\ \E stops : D!Fail(stops)
    BY <1>10 DEF D!WriteFails, D!Abort, D!Gone
  <2> QED
    BY <1>1, <1>6, <2>1, AttemptEnds
<1>11. CASE D!Raises
  <2>1. \/ phase' = "idle"
        \/ phase = "asking" /\ todo' = todo /\ jobs' = {} /\ attempts' = <<>>
    BY <1>11 DEF D!Raises, D!Abort, D!Gone
  <2>2. CASE todo' = todo /\ jobs' = {} /\ jobs # {}
    BY <2>2 DEF ComesCloser
  <2> QED
    BY <1>1, <2>1, <2>2, AttemptEnds
<1> QED
  BY <1>2, <1>3, <1>4, <1>5, <1>7, <1>8, <1>9, <1>10, <1>11 DEF D!Step

\* A run that is under way is not started again, and a kill ends it.
LEMMA RunAdvances ==
  ASSUME DatasetInv, D!Next, phase # "idle"
  PROVE  phase' = "idle" \/ ComesCloser
<1>1. ~D!Start /\ ~D!StartConvertOne
  BY DEF D!Start, D!StartConvertOne, D!Launch
<1>2. D!Kill => phase' = "idle"
  BY DEF D!Kill, D!Abort, D!Gone
<1> QED
  BY <1>1, <1>2, StepAdvances DEF D!Next

-----------------------------------------------------------------------------
\* A turn of one recorder takes it to one other place.
LEMMA TurnMoves ==
  ASSUME CaptureInv, NEW r \in C!Recorders, C!Turn(r)
  PROVE  /\ \E p \in Places \ {"new"} : pc' = [pc EXCEPT ![r] = p]
         /\ UNCHANGED <<session, over, interrupted>>
         /\ \/ UNCHANGED <<running, handler>>
            \/ /\ pc[r] = "new" /\ handler' = r /\ running' = [running EXCEPT ![r] = TRUE]
<1> USE DEF C!loop, C!At
<1>1. ASSUME C!SaveIfDue(r)
      PROVE  \E p \in Places \ {"new"} : pc' = [pc EXCEPT ![r] = p]
  <2>1. C!AfterIteration(r) \in Places \ {"new"} /\ "sleep" \in Places \ {"new"}
    BY DEF C!AfterIteration, Places
  <2> QED
    BY <1>1, <2>1 DEF C!SaveIfDue
<1>2. CASE C!Begin(r) \/ C!Connect(r) \/ C!Broken(r) \/ C!Wake(r) \/ C!Final(r)
  BY <1>2 DEF C!Begin, C!Connect, C!Broken, C!Wake, C!Final, Places
<1>3. CASE C!Timeout(r) \/ \E m \in C!Kinds : C!Receive(r, m)
  BY <1>1, <1>3 DEF C!Timeout, C!Receive
<1> QED
  BY <1>2, <1>3 DEF C!Turn

\* A turn of a recorder that is to stop brings it closer to its end.
LEMMA StoppingTurn ==
  ASSUME CaptureInv, StopInv, NEW r \in C!Recorders, C!Turn(r), Stopping(r)
  PROVE  TurnsLeft(pc'[r]) < TurnsLeft(pc[r])
<1> USE DEF C!loop, C!At
<1>1. pc \in [C!Recorders -> Places]
  BY DEF CaptureInv, CaptureTypes
<1>2. pc[r] # "new" => ~C!Going(r) /\ C!AfterIteration(r) = "final"
  BY DEF Stopping, StopInv, C!Going, C!AfterIteration
<1>3. ASSUME C!SaveIfDue(r), pc[r] = "waiting"
      PROVE  pc' = [pc EXCEPT ![r] = "final"] \/ pc' = [pc EXCEPT ![r] = "sleep"]
  BY <1>2, <1>3 DEF C!SaveIfDue
<1>4. \/ pc[r] = "new" /\ pc'[r] = "connect"
      \/ pc[r] \in {"connect", "waiting"} /\ pc'[r] \in {"sleep", "final"}
      \/ pc[r] = "sleep" /\ pc'[r] = "final"
      \/ pc[r] = "final" /\ pc'[r] \in {"done", "raised"}
  <2>1. CASE C!Begin(r)
    BY <1>1, <2>1 DEF C!Begin
  <2>2. CASE C!Connect(r) \/ C!Broken(r)
    BY <1>1, <1>2, <2>2 DEF C!Connect, C!Broken
  <2>3. CASE C!Wake(r)
    BY <1>1, <1>2, <2>3 DEF C!Wake
  <2>4. CASE C!Final(r)
    BY <1>1, <2>4 DEF C!Final
  <2>5. CASE C!Timeout(r) \/ \E m \in C!Kinds : C!Receive(r, m)
    <3>1. C!SaveIfDue(r) /\ pc[r] = "waiting"
      BY <2>5 DEF C!Timeout, C!Receive
    <3> QED
      BY <1>1, <1>3, <3>1
  <2> QED
    BY <2>1, <2>2, <2>3, <2>4, <2>5 DEF C!Turn
<1> QED
  BY <1>4 DEF TurnsLeft

LEMMA StopAdvances ==
  ASSUME CaptureInv, StopInv, C!Next, NEW r \in C!Recorders, Stopping(r)
  PROVE  Stopping(r)' /\ TurnsLeft(pc'[r]) <= TurnsLeft(pc[r])
<1>1. pc \in [C!Recorders -> Places]
  BY DEF CaptureInv, CaptureTypes
<1>2. \A p \in Places : TurnsLeft(p) \in Nat
  BY DEF TurnsLeft, Places
<1>3. TurnsLeft(pc[r]) \in Nat
  BY <1>1, <1>2
<1>4. ASSUME NEW u \in C!Recorders, C!Turn(u)
      PROVE  Stopping(r)' /\ TurnsLeft(pc'[r]) <= TurnsLeft(pc[r])
  <2>1. Stopping(r)'
    BY <1>4, TurnMoves DEF Stopping
  <2>2. PICK p \in Places : pc' = [pc EXCEPT ![u] = p]
    BY <1>4, TurnMoves
  <2>3. CASE u # r
    BY <1>1, <1>3, <2>1, <2>2, <2>3
  <2>4. CASE u = r
    <3>1. TurnsLeft(pc'[r]) < TurnsLeft(pc[r])
      BY <1>4, <2>4, StoppingTurn
    <3>2. TurnsLeft(pc'[r]) \in Nat
      BY <1>1, <1>2, <2>2, <2>4
    <3> QED
      BY <1>3, <2>1, <3>1, <3>2
  <2> QED
    BY <2>3, <2>4
<1>5. CASE C!GatherCancels
  <2>1. pc'[r] = pc[r] \/ pc'[r] = "cancelled"
    BY <1>5 DEF C!GatherCancels
  <2>2. TurnsLeft("cancelled") = 0
    BY DEF TurnsLeft
  <2>3. Stopping(r)'
    BY <1>5 DEF C!GatherCancels, Stopping
  <2> QED
    BY <1>3, <2>1, <2>2, <2>3
<1>6. CASE \/ \E u \in C!Recorders : C!SaveFallsDue(u)
           \/ C!Interrupt \/ C!DurationElapses \/ C!Killed
  <2>1. pc' = pc /\ Stopping(r)'
    BY <1>6 DEF C!SaveFallsDue, C!Interrupt, C!DurationElapses, C!Killed, C!loop, Stopping
  <2> QED
    BY <1>3, <2>1
<1> QED
  BY <1>4, <1>5, <1>6 DEF C!Next

\* A handler is installed as its recorder begins, and only then is a flag set.
LEMMA StopKeeps ==
  ASSUME CaptureInv, StopInv, [C!Next]_captureVars
  PROVE  StopInv'
<1>1. /\ pc \in [C!Recorders -> Places] /\ running \in [C!Recorders -> BOOLEAN]
      /\ handler \in C!Recorders \cup {"none"} /\ interrupted \subseteq C!Recorders
  BY DEF CaptureInv, CaptureTypes
<1>2. ASSUME NEW r \in C!Recorders, C!Turn(r) PROVE StopInv'
  <2>1. PICK p \in Places \ {"new"} : pc' = [pc EXCEPT ![r] = p]
    BY <1>2, TurnMoves
  <2>2. /\ interrupted' = interrupted
        /\ \/ UNCHANGED <<running, handler>>
           \/ /\ pc[r] = "new" /\ handler' = r /\ running' = [running EXCEPT ![r] = TRUE]
    BY <1>2, TurnMoves
  <2>3. \A u \in C!Recorders : pc[u] # "new" => pc'[u] # "new"
    BY <1>1, <2>1
  <2>4. pc'[r] # "new"
    BY <1>1, <2>1
  <2>5. handler' # "none" => pc'[handler'] # "new"
    BY <1>1, <2>2, <2>3, <2>4 DEF StopInv
  <2>6. ASSUME NEW u \in interrupted PROVE pc'[u] # "new" /\ running'[u] = FALSE
    BY <1>1, <2>2, <2>3 DEF StopInv
  <2> QED
    BY <2>2, <2>5, <2>6 DEF StopInv
<1>3. CASE C!GatherCancels
  <2>1. /\ pc' = [r \in C!Recorders |-> IF C!Ended(r) THEN pc[r] ELSE "cancelled"]
        /\ UNCHANGED <<running, handler, interrupted>>
    BY <1>3 DEF C!GatherCancels
  <2> QED
    BY <1>1, <2>1 DEF StopInv
<1>4. CASE C!Interrupt
  <2>1. /\ running' = [running EXCEPT ![handler] = FALSE] /\ interrupted' = interrupted \cup {handler}
        /\ handler # "none" /\ UNCHANGED <<pc, handler>>
    BY <1>4 DEF C!Interrupt
  <2> QED
    BY <1>1, <2>1 DEF StopInv
<1>5. CASE \/ \E u \in C!Recorders : C!SaveFallsDue(u)
           \/ C!DurationElapses \/ C!Killed \/ UNCHANGED captureVars
  <2>1. UNCHANGED <<pc, running, handler, interrupted>>
    BY <1>5 DEF C!SaveFallsDue, C!DurationElapses, C!Killed, C!loop, captureVars
  <2> QED
    BY <2>1 DEF StopInv
<1> QED
  BY <1>2, <1>3, <1>4, <1>5 DEF C!Next

LEMMA StopInit == ASSUME C!Init PROVE StopInv
  BY DEF C!Init, StopInv

-----------------------------------------------------------------------------
(***************************************************************************)
(* Both together.                                                           *)
(***************************************************************************)
AllInv == DatasetInv /\ CaptureInv

LEMMA CollectionInit == ASSUME Init PROVE AllInv
  BY CollectionAssumption, DatasetInit, CaptureInit DEF Init, AllInv, CollectionAssumption

LEMMA CollectionKeeps ==
  ASSUME AllInv, [Next]_<<datasetVars, captureVars>>
  PROVE  AllInv' /\ Kept1
<1>1. [D!Next]_datasetVars /\ [C!Next]_captureVars
  BY DEF Next, datasetVars, captureVars
<1> QED
  BY <1>1, CollectionAssumption, DatasetKeeps, CaptureKeeps DEF AllInv

THEOREM CollectionInvariant == Spec => []AllInv
<1>1. Init => AllInv
  BY CollectionInit
<1>2. AllInv /\ [Next]_<<datasetVars, captureVars>> => AllInv'
  BY CollectionKeeps
<1> QED
  BY <1>1, <1>2, PTL DEF Spec

\* The state of the download scripts and of the recorders stays well formed.
THEOREM CollectionTypesHold == Spec => []TypeOK
<1>1. AllInv => TypeOK
  BY DatasetGoal, CaptureGoal DEF AllInv, TypeOK
<1> QED
  BY <1>1, CollectionInvariant, PTL

\* Whatever runs in whatever order and fails in whatever way, a script counts
\* only what is on disk; what a failed write left empty is counted only by the
\* scripts that ask exists() alone, an answer without a body only where nobody
\* looks at the body (the download_file of four scripts); and a complete
\* parquet file has its complete archive.
THEOREM FilesStaySound == Spec => []FilesAreSound
<1>1. AllInv => FilesAreSound
  BY DatasetGoal DEF AllInv, FilesAreSound
<1> QED
  BY <1>1, CollectionInvariant, PTL

\* A recorder's file holds the start of what it recorded, unless a crash or a
\* full disk tore it, and all of it once the recorder finished.
THEOREM RecordsStay == Spec => []RecordsAreKept
<1>1. AllInv => RecordsAreKept
  BY CaptureGoal DEF AllInv, RecordsAreKept
<1> QED
  BY <1>1, CollectionInvariant, PTL

\* No run of any script touches a downloaded file that has bytes.
THEOREM DownloadsAreKept == Spec => KeptOnceWritten
<1>1. Kept1 =>
      [\A f \in DOMAIN disk :
         D!HasBytes(f) /\ f[1] \notin {"more/equities", "more/context", "data/parquet"}
           => disk'[f] = disk[f]]_(D!vars)
  BY DEF Kept1, Rewritten
<1>2. AllInv /\ [Next]_<<datasetVars, captureVars>> =>
      [\A f \in DOMAIN disk :
         D!HasBytes(f) /\ f[1] \notin {"more/equities", "more/context", "data/parquet"}
           => disk'[f] = disk[f]]_(D!vars)
  BY <1>1, CollectionKeeps
<1> QED
  BY <1>2, CollectionInvariant, PTL DEF Spec, KeptOnceWritten, D!KeptOnceWritten

\* Every step of a running script ends the run, finishes a category, a job or
\* an attempt, or gets on in the same attempt: with finite tables no script can
\* go round for ever, whatever fails and however often (the loops of the
\* download scripts), although one may stop in a wait that has no timeout.
THEOREM RunsComeCloser == Spec => RunsAdvance
<1>1. AllInv /\ [Next]_<<datasetVars, captureVars>> =>
        [phase # "idle" => phase' = "idle" \/ ComesCloser]_datasetVars
  <2> SUFFICES ASSUME AllInv, [Next]_<<datasetVars, captureVars>>, ~UNCHANGED datasetVars,
                      phase # "idle"
               PROVE  phase' = "idle" \/ ComesCloser
    OBVIOUS
  <2>1. D!Next
    BY DEF Next, captureVars
  <2> QED
    BY <2>1, RunAdvances DEF AllInv
<1> QED
  BY <1>1, CollectionInvariant, PTL DEF Spec, RunsAdvance

\* Once the time is up, or Ctrl+C has reached a recorder, that is never
\* forgotten, and every turn of the recorder takes it closer to its last save:
\* a stop waits for at most four turns (run() and _save() of the recorders).
THEOREM StopsComeCloser == Spec => StopsAdvance
<1>1. Init => StopInv
  BY StopInit DEF Init
<1>2. AllInv /\ StopInv /\ [Next]_<<datasetVars, captureVars>> => StopInv'
  <2> SUFFICES ASSUME AllInv, StopInv, [Next]_<<datasetVars, captureVars>> PROVE StopInv'
    OBVIOUS
  <2>1. [C!Next]_captureVars
    BY DEF Next, datasetVars, captureVars
  <2> QED
    BY <2>1, StopKeeps DEF AllInv
<1>3. Spec => []StopInv
  BY <1>1, <1>2, CollectionInvariant, PTL DEF Spec
<1>4. AllInv /\ StopInv /\ [Next]_<<datasetVars, captureVars>> =>
        [\A r \in C!Recorders : Stopping(r) =>
           /\ Stopping(r)'
           /\ TurnsLeft(pc'[r]) <= TurnsLeft(pc[r])
           /\ (C!Turn(r) => TurnsLeft(pc'[r]) < TurnsLeft(pc[r]))]_captureVars
  <2> SUFFICES ASSUME AllInv, StopInv, [Next]_<<datasetVars, captureVars>>,
                      ~UNCHANGED captureVars, NEW r \in C!Recorders, Stopping(r)
               PROVE  /\ Stopping(r)'
                      /\ TurnsLeft(pc'[r]) <= TurnsLeft(pc[r])
                      /\ (C!Turn(r) => TurnsLeft(pc'[r]) < TurnsLeft(pc[r]))
    OBVIOUS
  <2>1. C!Next
    BY DEF Next, datasetVars
  <2> QED
    BY <2>1, StopAdvances, StoppingTurn DEF AllInv
<1> QED
  BY <1>3, <1>4, CollectionInvariant, PTL DEF Spec, StopsAdvance
=============================================================================
