---------------------------- MODULE ServingProofs ----------------------------
(***************************************************************************)
(* Proof of what the run Serving checks, for any number of threads, symbols, *)
(* requests and alerts and any sizes of windows, batches and pages: no tick  *)
(* is in the sidecar's window twice, the series of the correlation detector  *)
(* are cut at the same seconds, its alerts end a run of low results, and     *)
(* pages lose only the rows that were cut off with the row a cursor names.   *)
(* Each part has an inductive invariant of its own; at the end they are put  *)
(* together.                                                                 *)
(***************************************************************************)
EXTENDS MCServing, WebApiProofs

\* The modules that MCServing instantiates count as this one does.
LEMMA SameCardinality ==
  ASSUME NEW A
  PROVE  H!Cardinality(A) = Cardinality(A) /\ S!Cardinality(A) = Cardinality(A)
<1>1. H!Cardinality(A) = Cardinality(A)
  BY DEF H!Cardinality, Cardinality
<1>2. S!Cardinality(A) = Cardinality(A)
  BY DEF S!Cardinality, Cardinality
<1> QED
  BY <1>1, <1>2

-----------------------------------------------------------------------------
(***************************************************************************)
(* The sidecar's window and the ticks it is sent                            *)
(***************************************************************************)
Distinct(s) == \A i, j \in DOMAIN s : s[i] = s[j] => i = j
Disjoint(s, q) == \A i \in DOMAIN s, j \in DOMAIN q : s[i] # q[j]
\* The ticks of a sequence have been sent.
WasSent(s) == \A i \in DOMAIN s : s[i] \in DOMAIN stamp /\ stamp[s[i]] <= lastFlushTs

\* The stream service: the buffer holds the last ticks, and what was flushed
\* was flushed with a request.
StreamInv ==
  /\ \A i, j \in DOMAIN stamp : i <= j => stamp[i] <= stamp[j]
  /\ \A i \in DOMAIN stamp : stamp[i] <= now
  /\ \A i \in DOMAIN tickBuffer : tickBuffer[i] = Len(stamp) - Len(tickBuffer) + i
  /\ Len(tickBuffer) <= Len(stamp)
  /\ lastFlushTs <= lastTcnCall

\* A tick that was sent is in one place: in one batch on its way, with one
\* thread that feeds it, or in the window.
OnePlace ==
  /\ WasSent(window) /\ Distinct(window)
  /\ \A t \in Threads : WasSent(left[t]) /\ Distinct(left[t]) /\ Disjoint(left[t], window)
  /\ \A b \in requests : WasSent(b) /\ Distinct(b) /\ Disjoint(b, window)
  /\ \A t, u \in Threads : t # u => Disjoint(left[t], left[u])
  /\ \A b \in requests, t \in Threads : Disjoint(b, left[t])
  /\ \A b, c \in requests : b # c => Disjoint(b, c)

\* Batches are not empty, and a thread that feeds has something to feed.
Feeding ==
  /\ \A b \in requests : b # <<>>
  /\ \A t \in Threads : pc[t] \in {"bind", "append"} => left[t] # <<>>

\* A thread that found the window full finds it full, unless it was reset.
StaysFull == \A t \in Threads : pc[t] = "score" /\ t \notin interrupted => Len(window) >= MaxWindow

WindowInv == S!TypeOK /\ StreamInv /\ OnePlace /\ Feeding /\ StaysFull /\ S!ReadyIsFullUnlessReset

-----------------------------------------------------------------------------
LEMMA LastOfProperties ==
  ASSUME NEW T, NEW s \in Seq(T), NEW n \in Nat
  PROVE  LET l == S!LastOf(s, n)
         IN  /\ l \in Seq(T) /\ Len(l) = (IF Len(s) <= n THEN Len(s) ELSE n)
             /\ \A i \in DOMAIN l : i + (Len(s) - Len(l)) \in DOMAIN s /\ l[i] = s[i + (Len(s) - Len(l))]
<1>1. CASE Len(s) <= n
  BY <1>1 DEF S!LastOf
<1>2. CASE Len(s) > n
  <2> DEFINE m == Len(s) - n + 1
             l == SubSeq(s, m, Len(s))
  <2>1. m \in 1..(Len(s) + 1) /\ Len(s) \in Nat /\ Len(s) - m + 1 = n
    BY <1>2
  <2>2. \A i \in m..Len(s) : s[i] \in T
    BY <2>1
  <2>3. /\ l \in Seq(T) /\ Len(l) = n
        /\ \A i \in 1..n : l[i] = s[m + i - 1]
    BY <2>1, <2>2, SubSeqProperties
  <2>4. S!LastOf(s, n) = l
    BY <1>2 DEF S!LastOf
  <2> HIDE DEF l
  <2>5. DOMAIN l = 1..n /\ DOMAIN s = 1..Len(s)
    BY <2>3
  <2>6. \A i \in 1..n : i + (Len(s) - n) = m + i - 1 /\ m + i - 1 \in 1..Len(s)
    BY <1>2, <2>1
  <2> QED
    BY <1>2, <2>3, <2>4, <2>5, <2>6
<1> QED
  BY <1>1, <1>2

LEMMA DistinctLastOf ==
  ASSUME NEW T, NEW s \in Seq(T), NEW n \in Nat
  PROVE  LET l == S!LastOf(s, n)
         IN  /\ \A i \in DOMAIN l : \E j \in DOMAIN s : l[i] = s[j]
             /\ Distinct(s) => Distinct(l)
<1> DEFINE l == S!LastOf(s, n)
           d == Len(s) - Len(l)
<1>1. /\ l \in Seq(T) /\ Len(l) \in Nat /\ Len(s) \in Nat /\ DOMAIN l = 1..Len(l)
      /\ \A i \in DOMAIN l : i + d \in DOMAIN s /\ l[i] = s[i + d]
  BY LastOfProperties
<1> HIDE DEF l
<1>2. \A i, j \in DOMAIN l : i + d = j + d => i = j
  BY <1>1
<1> HIDE DEF d
<1> QED
  BY <1>1, <1>2 DEF Distinct, l

LEMMA WindowFacts ==
  ASSUME S!TypeOK
  PROVE  /\ now \in 0..MaxNow /\ stamp \in Seq(0..MaxNow) /\ Len(stamp) <= MaxTicks
         /\ DOMAIN stamp = 1..Len(stamp) /\ Len(stamp) \in Nat
         /\ \A i \in DOMAIN stamp : stamp[i] \in Nat
         /\ tickBuffer \in Seq(S!Ticks) /\ Len(tickBuffer) <= BufferCap
         /\ DOMAIN tickBuffer = 1..Len(tickBuffer) /\ Len(tickBuffer) \in Nat
         /\ lastTcnCall \in 0..now /\ lastFlushTs \in 0..now
         /\ window \in Seq(S!Ticks) /\ Len(window) \in Nat
         /\ \A t \in Threads : left[t] \in Seq(S!Ticks)
         /\ \A b \in requests : b \in Seq(S!Ticks)
         /\ {MaxWindow, BufferCap, BatchCap, TcnThrottle} \subseteq Nat \ {0}
         /\ MaxTicks \in Nat /\ MaxNow \in Nat
<1>1. /\ now \in 0..MaxNow /\ stamp \in Seq(0..MaxNow) /\ Len(stamp) <= MaxTicks
      /\ tickBuffer \in Seq(S!Ticks) /\ Len(tickBuffer) <= BufferCap
      /\ lastTcnCall \in 0..now /\ lastFlushTs \in 0..now
      /\ window \in Seq(S!Ticks) /\ left \in [Threads -> Seq(S!Ticks)] /\ requests \subseteq Seq(S!Ticks)
  BY DEF S!TypeOK
<1>2. \A i \in DOMAIN stamp : stamp[i] \in 0..MaxNow
  BY <1>1, LenProperties, ElementOfSeq
<1> QED
  BY <1>1, <1>2, WindowAssumption

-----------------------------------------------------------------------------
(* A tick arrives *)

LEMMA TickIsTaken ==
  ASSUME S!TypeOK, StreamInv, S!TakeTick, now' = now
  PROVE  /\ stamp' \in Seq(0..MaxNow) /\ Len(stamp') = Len(stamp) + 1 /\ Len(stamp') <= MaxTicks
         /\ DOMAIN stamp' = 1..(Len(stamp) + 1)
         /\ \A i \in DOMAIN stamp : stamp'[i] = stamp[i]
         /\ stamp'[Len(stamp) + 1] = now
         /\ \A i, j \in DOMAIN stamp' : i <= j => stamp'[i] <= stamp'[j]
         /\ \A i \in DOMAIN stamp' : stamp'[i] \in Nat /\ stamp'[i] <= now
         /\ tickBuffer' = S!Buffer
         /\ S!Buffer \in Seq(S!Ticks) /\ Len(S!Buffer) <= BufferCap /\ Len(S!Buffer) \in 1..Len(stamp')
         /\ \A i \in 1..Len(S!Buffer) : S!Buffer[i] = Len(stamp') - Len(S!Buffer) + i
<1>1. /\ now \in 0..MaxNow /\ stamp \in Seq(0..MaxNow) /\ Len(stamp) < MaxTicks
      /\ DOMAIN stamp = 1..Len(stamp) /\ Len(stamp) \in Nat /\ MaxTicks \in Nat
      /\ \A i \in DOMAIN stamp : stamp[i] \in Nat
      /\ tickBuffer \in Seq(S!Ticks) /\ Len(tickBuffer) \in Nat /\ BufferCap \in Nat \ {0}
      /\ stamp' = Append(stamp, now) /\ tickBuffer' = S!Buffer
  BY WindowFacts DEF S!TakeTick
<1>2. /\ stamp' \in Seq(0..MaxNow) /\ Len(stamp') = Len(stamp) + 1
      /\ \A i \in DOMAIN stamp : stamp'[i] = stamp[i]
      /\ stamp'[Len(stamp) + 1] = now
      /\ DOMAIN stamp' = 1..(Len(stamp) + 1)
  BY <1>1, AppendProperties
<1>3. \A i \in DOMAIN stamp' : i \in DOMAIN stamp \/ i = Len(stamp) + 1
  BY <1>1, <1>2
<1>4. \A i \in DOMAIN stamp' : stamp'[i] \in Nat /\ stamp'[i] <= now
  BY <1>1, <1>2, <1>3 DEF StreamInv
<1>5. ASSUME NEW i \in DOMAIN stamp', NEW j \in DOMAIN stamp', i <= j
      PROVE  stamp'[i] <= stamp'[j]
  <2>1. CASE j = Len(stamp) + 1
    BY <2>1, <1>2, <1>4
  <2>2. CASE j \in DOMAIN stamp
    <3>1. i \in DOMAIN stamp
      BY <2>2, <1>1, <1>2, <1>5
    <3> QED
      BY <3>1, <2>2, <1>2, <1>5 DEF StreamInv
  <2> QED
    BY <2>1, <2>2, <1>3
<1>6. /\ S!Buffer \in Seq(S!Ticks) /\ Len(S!Buffer) <= BufferCap /\ Len(S!Buffer) \in 1..Len(stamp')
      /\ \A i \in 1..Len(S!Buffer) : S!Buffer[i] = Len(stamp') - Len(S!Buffer) + i
  <2> DEFINE n == Len(stamp) + 1
             a == Append(tickBuffer, n)
             b == S!LastOf(a, BufferCap)
             d == Len(a) - Len(b)
  <2>1. n \in S!Ticks /\ n \in Nat
    BY <1>1 DEF S!Ticks
  <2>2. /\ a \in Seq(S!Ticks) /\ Len(a) = Len(tickBuffer) + 1 /\ a[Len(a)] = n
        /\ DOMAIN a = 1..Len(a) /\ \A i \in 1..Len(tickBuffer) : a[i] = tickBuffer[i]
    BY <2>1, <1>1, AppendProperties
  <2>3. \A i \in DOMAIN a : a[i] = n - Len(a) + i
    BY <2>2, <1>1 DEF StreamInv
  <2> HIDE DEF a
  <2>4. /\ b \in Seq(S!Ticks) /\ Len(b) = (IF Len(a) <= BufferCap THEN Len(a) ELSE BufferCap)
        /\ \A i \in DOMAIN b : i + d \in DOMAIN a /\ b[i] = a[i + d]
    BY <2>2, <1>1, LastOfProperties
  <2> HIDE DEF b
  <2>5. Len(b) \in Nat /\ Len(a) \in Nat /\ DOMAIN b = 1..Len(b)
    BY <2>2, <2>4
  <2>6. Len(b) \in 1..n /\ Len(b) <= BufferCap
    BY <2>1, <2>2, <2>4, <2>5, <1>1 DEF StreamInv
  <2>7. \A i \in 1..Len(b) : b[i] = n - Len(a) + (i + d)
    BY <2>3, <2>4, <2>5
  <2>8. \A i \in 1..Len(b) : b[i] = n - Len(b) + i
    BY <2>1, <2>5, <2>7
  <2>9. S!Buffer = b
    BY DEF b, a, S!Buffer
  <2> QED
    BY <2>4, <2>6, <2>8, <2>9, <1>2
<1> QED
  BY <1>1, <1>2, <1>4, <1>5, <1>6

\* What is sent are ticks that were not sent before, the newest of them last.
LEMMA BatchIsNew ==
  ASSUME S!TypeOK, StreamInv, S!TakeTick, now' = now, now - lastTcnCall >= TcnThrottle
  PROVE  /\ S!Batch \in Seq(S!Ticks) /\ Len(S!Batch) \in Nat \ {0} /\ Distinct(S!Batch)
         /\ \A i \in DOMAIN S!Batch : S!Batch[i] \in DOMAIN stamp' /\ stamp'[S!Batch[i]] > lastFlushTs
         /\ S!Batch[Len(S!Batch)] = Len(stamp')
<1> DEFINE b == S!Buffer
           m == Len(b)
           n == Len(stamp')
           k == Cardinality(S!Sent)
           t == SubSeq(b, k + 1, m)
           d == Len(t) - Len(S!Batch)
<1>1. /\ n \in Nat \ {0} /\ DOMAIN stamp' = 1..n /\ stamp'[n] = now
      /\ \A i, j \in DOMAIN stamp' : i <= j => stamp'[i] <= stamp'[j]
      /\ \A i \in DOMAIN stamp' : stamp'[i] \in Nat
      /\ b \in Seq(S!Ticks) /\ m \in 1..n /\ m \in Nat /\ DOMAIN b = 1..m
      /\ \A i \in 1..m : b[i] = n - m + i
  <2>1. Len(stamp) \in Nat /\ n = Len(stamp) + 1
    BY WindowFacts, TickIsTaken
  <2>2. /\ DOMAIN stamp' = 1..n /\ stamp'[n] = now
        /\ \A i, j \in DOMAIN stamp' : i <= j => stamp'[i] <= stamp'[j]
        /\ \A i \in DOMAIN stamp' : stamp'[i] \in Nat
    BY <2>1, TickIsTaken
  <2>3. b \in Seq(S!Ticks) /\ m \in 1..n /\ \A i \in 1..m : b[i] = n - m + i
    BY TickIsTaken
  <2> QED
    BY <2>1, <2>2, <2>3, LenProperties
<1>2. lastFlushTs \in Nat /\ lastFlushTs < now /\ BatchCap \in Nat \ {0} /\ now \in Nat
  <2>1. /\ lastFlushTs \in 0..now /\ lastTcnCall \in 0..now /\ TcnThrottle \in Nat \ {0}
        /\ lastFlushTs <= lastTcnCall /\ BatchCap \in Nat \ {0} /\ now \in 0..MaxNow /\ MaxNow \in Nat
    BY WindowFacts DEF StreamInv
  <2> QED
    BY <2>1
<1> HIDE DEF m, n
<1>3. \A i \in 1..m : b[i] \in DOMAIN stamp' /\ b[i] \in 1..n
  BY <1>1
<1>4. k \in 0..m /\ S!Sent = 1..k
  <2>1. S!Sent = {i \in 1..m : stamp'[b[i]] <= lastFlushTs}
    BY <1>1 DEF S!Sent
  <2>2. ASSUME NEW i \in 1..m, NEW j \in 1..m, i <= j, j \in S!Sent PROVE i \in S!Sent
    <3>1. b[i] <= b[j]
      BY <2>2, <1>1
    <3>2. stamp'[b[i]] <= stamp'[b[j]] /\ stamp'[b[j]] <= lastFlushTs
      BY <3>1, <2>1, <2>2, <1>1, <1>3
    <3> QED
      BY <3>2, <2>1, <1>1, <1>2, <1>3
  <2>3. S!Sent \in SUBSET (1..m)
    BY <2>1
  <2> QED
    BY <2>2, <2>3, <1>1, InitialSegment
<1>5. k < m
  <2>1. b[m] = n /\ ~(stamp'[b[m]] <= lastFlushTs)
    BY <1>1, <1>2
  <2>2. m \notin S!Sent
    BY <2>1 DEF S!Sent
  <2> QED
    BY <2>2, <1>1, <1>4
<1> HIDE DEF k
<1>6. /\ t \in Seq(S!Ticks) /\ Len(t) = m - k /\ DOMAIN t = 1..(m - k)
      /\ \A i \in 1..(m - k) : t[i] = b[k + i]
  <2>1. \A i \in (k + 1)..m : b[i] \in S!Ticks
    BY <1>1, <1>4, ElementOfSeq
  <2>2. /\ t \in Seq(S!Ticks) /\ Len(t) = m - (k + 1) + 1
        /\ \A i \in 1..(m - (k + 1) + 1) : t[i] = b[k + 1 + i - 1]
    <3>1. k + 1 \in Int /\ m \in Int /\ k + 1 <= m
      BY <1>1, <1>4, <1>5
    <3> QED
      BY <3>1, <2>1, SubSeqProperties
  <2>3. m - (k + 1) + 1 = m - k /\ \A i \in 1..(m - k) : k + 1 + i - 1 = k + i
    BY <1>1, <1>4
  <2> HIDE DEF t
  <2> QED
    BY <2>2, <2>3, LenProperties
<1>7. S!Batch = S!LastOf(t, BatchCap)
  BY SameCardinality DEF S!Batch, m, k
<1> HIDE DEF t
<1>8. /\ S!Batch \in Seq(S!Ticks) /\ Len(S!Batch) = (IF Len(t) <= BatchCap THEN Len(t) ELSE BatchCap)
      /\ \A i \in DOMAIN S!Batch : i + d \in DOMAIN t /\ S!Batch[i] = t[i + d]
  BY <1>2, <1>6, <1>7, LastOfProperties
<1>9. /\ Len(S!Batch) \in Nat \ {0} /\ Len(S!Batch) <= Len(t) /\ DOMAIN S!Batch = 1..Len(S!Batch)
      /\ d \in Nat /\ m - k \in Nat
  BY <1>1, <1>2, <1>4, <1>5, <1>6, <1>8
<1> HIDE DEF d
<1>10. \A i \in DOMAIN S!Batch : /\ k + (i + d) \in 1..m /\ S!Batch[i] = b[k + (i + d)]
                                 /\ S!Batch[i] = n - m + (k + (i + d)) /\ i \in Nat
  <2> SUFFICES ASSUME NEW i \in DOMAIN S!Batch
               PROVE  /\ k + (i + d) \in 1..m /\ S!Batch[i] = b[k + (i + d)]
                      /\ S!Batch[i] = n - m + (k + (i + d)) /\ i \in Nat
    OBVIOUS
  <2>1. i + d \in 1..(m - k) /\ i \in Nat /\ S!Batch[i] = t[i + d]
    BY <1>6, <1>8, <1>9 DEF d
  <2>2. S!Batch[i] = b[k + (i + d)] /\ k + (i + d) \in 1..m
    BY <2>1, <1>1, <1>4, <1>6
  <2> QED
    BY <2>1, <2>2, <1>1
<1>11. Distinct(S!Batch)
  <2> SUFFICES ASSUME NEW i \in DOMAIN S!Batch, NEW j \in DOMAIN S!Batch, S!Batch[i] = S!Batch[j]
               PROVE  i = j
    BY DEF Distinct
  <2>1. n - m + (k + (i + d)) = n - m + (k + (j + d)) /\ i \in Nat /\ j \in Nat
    BY <1>10
  <2> QED
    BY <2>1, <1>1, <1>4, <1>9
<1>12. ASSUME NEW i \in DOMAIN S!Batch
       PROVE  S!Batch[i] \in DOMAIN stamp' /\ stamp'[S!Batch[i]] > lastFlushTs
  <2> DEFINE j == k + (i + d)
  <2>1. j \in 1..m /\ j \notin S!Sent /\ S!Batch[i] = b[j]
    BY <1>1, <1>4, <1>9, <1>10
  <2>2. ~(stamp'[b[j]] <= lastFlushTs) /\ b[j] \in DOMAIN stamp'
    BY <2>1, <1>1, <1>3 DEF S!Sent
  <2> QED
    BY <2>1, <2>2, <1>1, <1>2
<1>13. S!Batch[Len(S!Batch)] = n
  <2>1. Len(S!Batch) \in DOMAIN S!Batch /\ Len(S!Batch) + d = m - k
    BY <1>9, <1>6 DEF d
  <2>2. S!Batch[Len(S!Batch)] = n - m + (k + (m - k))
    BY <2>1, <1>10
  <2> QED
    BY <2>2, <1>1, <1>4
<1> QED
  BY <1>8, <1>9, <1>11, <1>12, <1>13 DEF n

-----------------------------------------------------------------------------
(* Ticks and their places *)

\* Ticks that were sent stay sent.
LEMMA SentStays ==
  ASSUME S!TypeOK, DOMAIN stamp \subseteq DOMAIN stamp', \A i \in DOMAIN stamp : stamp'[i] = stamp[i],
         lastFlushTs' \in Nat, lastFlushTs <= lastFlushTs', NEW s, WasSent(s)
  PROVE  \A i \in DOMAIN s : s[i] \in DOMAIN stamp' /\ stamp'[s[i]] <= lastFlushTs'
<1>1. lastFlushTs \in Nat /\ \A i \in DOMAIN stamp : stamp[i] \in Nat
  BY WindowFacts
<1> QED
  BY <1>1 DEF WasSent

\* Steps of the stream service alone that send nothing.
LEMMA NothingSentKeeps ==
  ASSUME WindowInv, S!TypeOK', StreamInv',
         DOMAIN stamp \subseteq DOMAIN stamp', \A i \in DOMAIN stamp : stamp'[i] = stamp[i],
         UNCHANGED <<lastFlushTs, requests, window, pc, left, scored, interrupted>>
  PROVE  WindowInv'
<1>1. lastFlushTs' \in Nat /\ lastFlushTs <= lastFlushTs' /\ S!TypeOK
  BY WindowFacts DEF WindowInv
<1>2. \A s : WasSent(s) => \A i \in DOMAIN s : s[i] \in DOMAIN stamp' /\ stamp'[s[i]] <= lastFlushTs'
  BY <1>1, SentStays
<1>3. WasSent(window)' /\ Distinct(window)'
  BY <1>2 DEF WindowInv, OnePlace, WasSent, Distinct
<1>4. \A t \in Threads : WasSent(left[t])' /\ Distinct(left[t])' /\ Disjoint(left[t], window)'
  BY <1>2 DEF WindowInv, OnePlace, WasSent, Distinct, Disjoint
<1>5. \A b \in requests : /\ \A i \in DOMAIN b : b[i] \in DOMAIN stamp' /\ stamp'[b[i]] <= lastFlushTs'
                           /\ Distinct(b) /\ Disjoint(b, window)'
  BY <1>2 DEF WindowInv, OnePlace, Disjoint
<1>6. OnePlace'
  BY <1>3, <1>4, <1>5 DEF WindowInv, OnePlace, WasSent, Disjoint
<1> QED
  BY <1>6 DEF WindowInv, Feeding, StaysFull, S!ReadyIsFullUnlessReset

LEMMA UnsentTickKeeps ==
  ASSUME WindowInv, S!UnsentTick
  PROVE  WindowInv'
<1>1. /\ S!TypeOK /\ StreamInv /\ S!TakeTick
      /\ UNCHANGED <<now, lastTcnCall, lastFlushTs, requests, window, pc, left, holding, scored, interrupted>>
  BY DEF WindowInv, S!UnsentTick
<1>2. /\ stamp' \in Seq(0..MaxNow) /\ Len(stamp') = Len(stamp) + 1 /\ Len(stamp') <= MaxTicks
      /\ DOMAIN stamp' = 1..(Len(stamp) + 1)
      /\ \A i \in DOMAIN stamp : stamp'[i] = stamp[i]
      /\ \A i, j \in DOMAIN stamp' : i <= j => stamp'[i] <= stamp'[j]
      /\ \A i \in DOMAIN stamp' : stamp'[i] <= now
      /\ tickBuffer' \in Seq(S!Ticks) /\ Len(tickBuffer') <= BufferCap /\ Len(tickBuffer') \in 1..Len(stamp')
      /\ \A i \in 1..Len(tickBuffer') : tickBuffer'[i] = Len(stamp') - Len(tickBuffer') + i
  BY <1>1, TickIsTaken
<1>3. DOMAIN stamp \subseteq DOMAIN stamp' /\ Len(tickBuffer') <= Len(stamp')
  BY <1>2, <1>1, WindowFacts
<1>4. S!TypeOK'
  BY <1>1, <1>2 DEF S!TypeOK
<1>5. StreamInv'
  BY <1>1, <1>2, <1>3, LenProperties DEF StreamInv
<1> QED
  BY <1>1, <1>2, <1>3, <1>4, <1>5, NothingSentKeeps

LEMMA ElapseKeeps ==
  ASSUME WindowInv, S!Elapse
  PROVE  WindowInv'
<1>1. /\ now < MaxNow /\ now' = now + 1
      /\ UNCHANGED <<stamp, tickBuffer, lastTcnCall, lastFlushTs, requests, window, pc, left, holding,
                     scored, interrupted>>
  BY DEF S!Elapse
<1>2. /\ now \in 0..MaxNow /\ lastTcnCall \in 0..now /\ lastFlushTs \in 0..now /\ MaxNow \in Nat
      /\ \A i \in DOMAIN stamp : stamp[i] \in Nat
  BY WindowFacts DEF WindowInv
<1>3. now' \in 0..MaxNow /\ lastTcnCall \in 0..now' /\ lastFlushTs \in 0..now'
  BY <1>1, <1>2
<1>4. S!TypeOK'
  BY <1>1, <1>3 DEF WindowInv, S!TypeOK
<1>5. StreamInv'
  <2>1. \A i \in DOMAIN stamp : stamp[i] <= now'
    BY <1>1, <1>2 DEF WindowInv, StreamInv
  <2> QED
    BY <1>1, <2>1 DEF WindowInv, StreamInv
<1> QED
  BY <1>1, <1>4, <1>5, NothingSentKeeps

LEMMA RequestKeeps ==
  ASSUME WindowInv, S!Request
  PROVE  WindowInv'
<1>1. /\ S!TypeOK /\ StreamInv /\ OnePlace /\ S!TakeTick
      /\ UNCHANGED <<now, window, pc, left, holding, scored, interrupted>>
      /\ now - lastTcnCall >= TcnThrottle /\ lastTcnCall' = now
  BY DEF WindowInv, S!Request
<1>2. /\ stamp' \in Seq(0..MaxNow) /\ Len(stamp') = Len(stamp) + 1 /\ Len(stamp') <= MaxTicks
      /\ DOMAIN stamp' = 1..(Len(stamp) + 1)
      /\ \A i \in DOMAIN stamp : stamp'[i] = stamp[i]
      /\ stamp'[Len(stamp) + 1] = now
      /\ \A i, j \in DOMAIN stamp' : i <= j => stamp'[i] <= stamp'[j]
      /\ \A i \in DOMAIN stamp' : stamp'[i] \in Nat /\ stamp'[i] <= now
      /\ tickBuffer' \in Seq(S!Ticks) /\ Len(tickBuffer') <= BufferCap /\ Len(tickBuffer') \in 1..Len(stamp')
      /\ \A i \in 1..Len(tickBuffer') : tickBuffer'[i] = Len(stamp') - Len(tickBuffer') + i
  BY <1>1, TickIsTaken
<1>3. /\ S!Batch \in Seq(S!Ticks) /\ Len(S!Batch) \in Nat \ {0} /\ Distinct(S!Batch)
      /\ \A i \in DOMAIN S!Batch : S!Batch[i] \in DOMAIN stamp' /\ stamp'[S!Batch[i]] > lastFlushTs
      /\ S!Batch[Len(S!Batch)] = Len(stamp')
  BY <1>1, BatchIsNew
<1>4. /\ requests' = requests \cup {S!Batch} /\ lastFlushTs' = now /\ S!Batch # <<>>
  <2>1. S!Batch # <<>>
    BY <1>3
  <2>2. S!Last(S!Batch) = Len(stamp) + 1
    BY <1>2, <1>3 DEF S!Last
  <2> QED
    BY <2>1, <2>2, <1>2 DEF S!Request
<1>5. /\ now \in 0..now /\ now \in Nat /\ lastFlushTs \in 0..now /\ lastFlushTs <= now
      /\ DOMAIN stamp \subseteq DOMAIN stamp' /\ Len(tickBuffer') <= Len(stamp')
      /\ \A i \in DOMAIN stamp : stamp[i] \in Nat
  <2>1. now \in 0..MaxNow /\ MaxNow \in Nat /\ lastFlushTs \in 0..now /\ DOMAIN stamp = 1..Len(stamp)
        /\ Len(stamp) \in Nat /\ \A i \in DOMAIN stamp : stamp[i] \in Nat
    BY <1>1, WindowFacts
  <2> QED
    BY <2>1, <1>2
<1>6. S!TypeOK'
  BY <1>1, <1>2, <1>3, <1>4, <1>5 DEF S!TypeOK
<1>7. StreamInv'
  BY <1>1, <1>2, <1>4, <1>5, LenProperties DEF StreamInv
<1>8. \A s : WasSent(s) => \A i \in DOMAIN s : s[i] \in DOMAIN stamp' /\ stamp'[s[i]] <= lastFlushTs'
  BY <1>1, <1>2, <1>4, <1>5, SentStays
<1>9. \A s : WasSent(s) => Disjoint(S!Batch, s) /\ Disjoint(s, S!Batch)
  <2> SUFFICES ASSUME NEW s, WasSent(s), NEW i \in DOMAIN S!Batch, NEW j \in DOMAIN s, S!Batch[i] = s[j]
               PROVE  FALSE
    BY DEF Disjoint
  <2>1. s[j] \in DOMAIN stamp /\ stamp[s[j]] <= lastFlushTs
    BY DEF WasSent
  <2>2. stamp'[S!Batch[i]] > lastFlushTs /\ stamp'[s[j]] = stamp[s[j]] /\ stamp[s[j]] \in Nat
    BY <2>1, <1>2, <1>3, <1>5
  <2> QED
    BY <2>1, <2>2, <1>5
<1>10. \A i \in DOMAIN S!Batch : S!Batch[i] \in DOMAIN stamp' /\ stamp'[S!Batch[i]] <= lastFlushTs'
  BY <1>2, <1>3, <1>4
<1>11. PICK new : new = S!Batch
  OBVIOUS
<1>12. OnePlace'
  <2>1. WasSent(window)' /\ Distinct(window)'
    BY <1>1, <1>8 DEF OnePlace, WasSent, Distinct
  <2>2. \A t \in Threads : WasSent(left[t])' /\ Distinct(left[t])' /\ Disjoint(left[t], window)'
    BY <1>1, <1>8 DEF OnePlace, WasSent, Distinct, Disjoint
  <2>3. \A b \in requests' : /\ \A i \in DOMAIN b : b[i] \in DOMAIN stamp' /\ stamp'[b[i]] <= lastFlushTs'
                             /\ Distinct(b) /\ Disjoint(b, window)
                             /\ \A t \in Threads : Disjoint(b, left[t])
                             /\ \A c \in requests' : b # c => Disjoint(b, c)
    <3>1. \A b \in requests' : b \in requests \/ b = new
      BY <1>4, <1>11
    <3>2. \A b \in requests : WasSent(b)
      BY <1>1 DEF OnePlace
    <3>3. Disjoint(new, window) /\ \A t \in Threads : Disjoint(new, left[t])
      BY <1>1, <1>9, <1>11 DEF OnePlace
    <3>4. \A b \in requests : Disjoint(new, b) /\ Disjoint(b, new)
      BY <3>2, <1>9, <1>11
    <3> QED
      BY <3>1, <3>2, <3>3, <3>4, <1>1, <1>3, <1>8, <1>10, <1>11 DEF OnePlace
  <2> QED
    BY <2>1, <2>2, <2>3, <1>1 DEF OnePlace, WasSent, Disjoint
<1>13. Feeding'
  BY <1>1, <1>4 DEF WindowInv, Feeding
<1> QED
  BY <1>1, <1>6, <1>7, <1>12, <1>13 DEF WindowInv, StaysFull, S!ReadyIsFullUnlessReset

\* Steps of the sidecar, and a request that is lost, leave the stream service
\* as it is.
SideStep == UNCHANGED <<now, stamp, tickBuffer, lastTcnCall, lastFlushTs>>

LEMMA LoseRequestKeeps ==
  ASSUME WindowInv, S!LoseRequest
  PROVE  WindowInv'
<1>1. SideStep /\ requests' \subseteq requests /\ UNCHANGED <<window, pc, left, holding, scored, interrupted>>
  BY DEF S!LoseRequest, S!streamVars, SideStep
<1>2. S!TypeOK'
  BY <1>1 DEF WindowInv, SideStep, S!TypeOK
<1>3. StreamInv'
  BY <1>1 DEF WindowInv, SideStep, StreamInv
<1>4. OnePlace'
  BY <1>1 DEF WindowInv, SideStep, OnePlace, WasSent, Distinct, Disjoint
<1> QED
  BY <1>1, <1>2, <1>3, <1>4 DEF WindowInv, Feeding, StaysFull, S!ReadyIsFullUnlessReset

-----------------------------------------------------------------------------
(* The sidecar *)

\* Threads that have yet to trim what they appended.
Trimming(steps) == {t \in Threads : steps[t] \in {"measure", "trim"}}

LEMMA FewTrim ==
  ASSUME NEW steps
  PROVE  /\ IsFiniteSet(Trimming(steps)) /\ Cardinality(Trimming(steps)) \in Nat
         /\ S!Cardinality({t \in Threads : steps[t] \in {"measure", "trim"}}) = Cardinality(Trimming(steps))
<1>1. Trimming(steps) \in SUBSET Threads
  BY DEF Trimming
<1>2. IsFiniteSet(Trimming(steps))
  BY <1>1, FS_Subset, WindowAssumption
<1> QED
  BY <1>2, FS_CardinalityType, SameCardinality DEF Trimming

\* The types, without the bound on the window that changes with the threads.
LEMMA SideTypes ==
  ASSUME S!TypeOK, SideStep, requests' \subseteq requests, window' \in Seq(S!Ticks),
         Len(window') <= MaxWindow + Cardinality(Trimming(pc')),
         NEW t \in Threads, NEW step \in S!Steps, S!GoTo(t, step),
         left' \in [Threads -> Seq(S!Ticks)], holding' \subseteq Threads, interrupted' \subseteq Threads,
         scored' \in [ready : BOOLEAN, reset : BOOLEAN, window : Seq(S!Ticks)]
  PROVE  S!TypeOK' /\ \A u \in Threads : pc'[u] = IF u = t THEN step ELSE pc[u]
<1>1. pc \in [Threads -> S!Steps] /\ pc' = [pc EXCEPT ![t] = step]
  BY DEF S!TypeOK, S!GoTo
<1>2. pc' \in [Threads -> S!Steps] /\ \A u \in Threads : pc'[u] = IF u = t THEN step ELSE pc[u]
  BY <1>1
<1>3. Len(window') <= MaxWindow + S!Cardinality({u \in Threads : pc'[u] \in {"measure", "trim"}})
  BY FewTrim
<1> QED
  BY <1>2, <1>3 DEF SideStep, S!TypeOK

LEMMA WindowBound ==
  ASSUME S!TypeOK
  PROVE  /\ window \in Seq(S!Ticks) /\ Len(window) \in Nat /\ MaxWindow \in Nat \ {0}
         /\ Len(window) <= MaxWindow + Cardinality(Trimming(pc)) /\ Cardinality(Trimming(pc)) \in Nat
         /\ pc \in [Threads -> S!Steps]
<1>1. Len(window) <= MaxWindow + S!Cardinality({t \in Threads : pc[t] \in {"measure", "trim"}})
  BY DEF S!TypeOK
<1> QED
  BY <1>1, FewTrim, WindowFacts DEF S!TypeOK

\* A thread that neither begins nor ends to trim.
LEMMA SameTrimming ==
  ASSUME S!TypeOK, NEW t \in Threads, NEW step \in S!Steps, S!GoTo(t, step),
         pc[t] \in {"measure", "trim"} <=> step \in {"measure", "trim"}
  PROVE  Trimming(pc') = Trimming(pc)
<1>1. pc \in [Threads -> S!Steps] /\ pc' = [pc EXCEPT ![t] = step]
  BY DEF S!TypeOK, S!GoTo
<1> QED
  BY <1>1 DEF Trimming

LEMMA ReceiveRequestKeeps ==
  ASSUME WindowInv, NEW t \in Threads, S!ReceiveRequest(t)
  PROVE  WindowInv'
<1>1. PICK b \in requests : requests' = requests \ {b} /\ left' = [left EXCEPT ![t] = b]
  BY DEF S!ReceiveRequest
<1>2. /\ S!TypeOK /\ SideStep /\ pc[t] = "idle" /\ S!GoTo(t, "bind") /\ "bind" \in S!Steps
      /\ UNCHANGED <<window, holding, scored, interrupted>>
      /\ left \in [Threads -> Seq(S!Ticks)] /\ b \in Seq(S!Ticks) /\ OnePlace
  BY DEF WindowInv, S!TypeOK, S!ReceiveRequest, S!streamVars, SideStep, S!Steps
<1>3. left' \in [Threads -> Seq(S!Ticks)] /\ \A u \in Threads : left'[u] = IF u = t THEN b ELSE left[u]
  BY <1>1, <1>2
<1>4. S!TypeOK' /\ \A u \in Threads : pc'[u] = IF u = t THEN "bind" ELSE pc[u]
  <2>1. Len(window') <= MaxWindow + Cardinality(Trimming(pc'))
    BY <1>2, WindowBound, SameTrimming
  <2> QED
    BY <2>1, <1>1, <1>2, <1>3, SideTypes DEF S!TypeOK
<1>5. OnePlace'
  <2>1. WasSent(window)' /\ Distinct(window)'
    BY <1>2 DEF OnePlace, SideStep, WasSent, Distinct
  <2>2. /\ WasSent(b) /\ Distinct(b) /\ Disjoint(b, window)
        /\ \A u \in Threads : Disjoint(b, left[u]) /\ Disjoint(left[u], b)
        /\ \A c \in requests' : Disjoint(c, b)
    BY <1>1, <1>2 DEF OnePlace, Disjoint
  <2>3. ASSUME NEW u \in Threads PROVE WasSent(left[u])' /\ Distinct(left[u])' /\ Disjoint(left[u], window)'
    <3>1. CASE u = t
      BY <3>1, <1>2, <1>3, <2>2 DEF SideStep, WasSent, Distinct, Disjoint
    <3>2. CASE u # t
      BY <3>2, <1>2, <1>3 DEF OnePlace, SideStep, WasSent, Distinct, Disjoint
    <3> QED
      BY <3>1, <3>2
  <2>4. ASSUME NEW u \in Threads, NEW v \in Threads, u # v PROVE Disjoint(left[u], left[v])'
    <3>1. CASE u # t /\ v # t
      BY <2>4, <3>1, <1>2, <1>3 DEF OnePlace, Disjoint
    <3>2. CASE u = t \/ v = t
      BY <2>4, <3>2, <1>3, <2>2 DEF Disjoint
    <3> QED
      BY <3>1, <3>2
  <2>5. \A c \in requests' : c \in requests /\ \A u \in Threads : Disjoint(c, left[u])'
    BY <1>1, <1>2, <1>3, <2>2 DEF OnePlace, Disjoint
  <2>6. \A c \in requests' : WasSent(c)' /\ Distinct(c) /\ Disjoint(c, window)'
    BY <1>2, <2>5 DEF OnePlace, SideStep, WasSent, Disjoint
  <2>7. \A c, d \in requests' : c # d => Disjoint(c, d)
    BY <1>2, <2>5 DEF OnePlace
  <2> QED
    BY <2>1, <2>3, <2>4, <2>5, <2>6, <2>7 DEF OnePlace, WasSent, Disjoint
<1>6. Feeding'
  BY <1>1, <1>3, <1>4 DEF WindowInv, Feeding
<1>7. StaysFull'
  BY <1>2, <1>4 DEF WindowInv, StaysFull
<1> QED
  BY <1>2, <1>4, <1>5, <1>6, <1>7 DEF WindowInv, StreamInv, SideStep, S!ReadyIsFullUnlessReset

LEMMA FeedBindKeeps ==
  ASSUME WindowInv, NEW t \in Threads, S!FeedBind(t)
  PROVE  WindowInv'
<1>1. /\ S!TypeOK /\ SideStep /\ pc[t] = "bind" /\ S!GoTo(t, "append") /\ "append" \in S!Steps
      /\ UNCHANGED <<requests, window, left, scored, interrupted>> /\ holding' \subseteq Threads
  BY DEF WindowInv, S!TypeOK, S!FeedBind, S!streamVars, SideStep, S!Steps
<1>2. S!TypeOK' /\ \A u \in Threads : pc'[u] = IF u = t THEN "append" ELSE pc[u]
  <2>1. Len(window') <= MaxWindow + Cardinality(Trimming(pc'))
    BY <1>1, WindowBound, SameTrimming
  <2> QED
    BY <2>1, <1>1, SideTypes DEF S!TypeOK
<1>3. OnePlace'
  BY <1>1 DEF WindowInv, OnePlace, SideStep, WasSent, Distinct, Disjoint
<1>4. Feeding' /\ StaysFull'
  BY <1>1, <1>2 DEF WindowInv, Feeding, StaysFull
<1> QED
  BY <1>1, <1>2, <1>3, <1>4 DEF WindowInv, StreamInv, SideStep, S!ReadyIsFullUnlessReset

LEMMA FeedAppendKeeps ==
  ASSUME WindowInv, NEW t \in Threads, S!FeedAppend(t)
  PROVE  WindowInv'
<1>1. /\ S!TypeOK /\ SideStep /\ pc[t] = "append" /\ S!GoTo(t, "measure") /\ "measure" \in S!Steps
      /\ UNCHANGED <<requests, scored, interrupted>> /\ holding' \subseteq Threads
      /\ window' = IF t \in holding THEN Append(window, Head(left[t])) ELSE window
      /\ left' = [left EXCEPT ![t] = Tail(left[t])] /\ OnePlace
      /\ left \in [Threads -> Seq(S!Ticks)] /\ window \in Seq(S!Ticks) /\ Len(window) \in Nat
  BY WindowFacts DEF WindowInv, S!TypeOK, S!FeedAppend, S!streamVars, SideStep, S!Steps
<1>2. left[t] \in Seq(S!Ticks) /\ left[t] # <<>> /\ 1 \in DOMAIN left[t]
  BY <1>1 DEF WindowInv, Feeding
<1>3. PICK e : e = Head(left[t])
  OBVIOUS
<1>4. PICK rest : rest = Tail(left[t])
  OBVIOUS
<1>5. /\ e \in S!Ticks /\ e = left[t][1] /\ rest \in Seq(S!Ticks)
      /\ \A i \in DOMAIN rest : i + 1 \in DOMAIN left[t] /\ rest[i] = left[t][i + 1] /\ i + 1 # 1 /\ i \in Nat
  BY <1>2, <1>3, <1>4, HeadTailProperties
<1>6. left' \in [Threads -> Seq(S!Ticks)] /\ \A u \in Threads : left'[u] = IF u = t THEN rest ELSE left[u]
  BY <1>1, <1>4, <1>5
<1>7. /\ window' \in Seq(S!Ticks) /\ Len(window') \in Nat /\ Len(window) <= Len(window')
      /\ Len(window') <= Len(window) + 1
      /\ \A i \in DOMAIN window' : (i \in DOMAIN window /\ window'[i] = window[i])
                                   \/ (i = Len(window) + 1 /\ window'[i] = e)
  <2>1. CASE t \in holding
    <3>1. window' = Append(window, e)
      BY <2>1, <1>1, <1>3
    <3> QED
      BY <3>1, <1>1, <1>5
  <2>2. CASE t \notin holding
    BY <2>2, <1>1
  <2> QED
    BY <2>1, <2>2
<1>8. S!TypeOK' /\ \A u \in Threads : pc'[u] = IF u = t THEN "measure" ELSE pc[u]
  <2>1. Trimming(pc') = Trimming(pc) \cup {t} /\ t \notin Trimming(pc)
    <3>1. pc' = [pc EXCEPT ![t] = "measure"] /\ pc \in [Threads -> S!Steps]
      BY <1>1, WindowBound DEF S!GoTo
    <3> QED
      BY <3>1, <1>1 DEF Trimming
  <2>2. Cardinality(Trimming(pc')) = Cardinality(Trimming(pc)) + 1
    BY <2>1, FewTrim, FS_AddElement
  <2>3. Len(window') <= MaxWindow + Cardinality(Trimming(pc'))
    BY <2>2, <1>1, <1>7, WindowBound
  <2> QED
    BY <2>3, <1>1, <1>6, <1>7, SideTypes DEF S!TypeOK
\* The tick that moves was in the thread's batch, and so in no other place.
<1>9. OnePlace'
  <2>1. /\ WasSent(left[t]) /\ Distinct(left[t]) /\ Disjoint(left[t], window)
        /\ \A u \in Threads : u # t => Disjoint(left[t], left[u]) /\ Disjoint(left[u], left[t])
        /\ \A b \in requests : Disjoint(b, left[t])
    BY <1>1 DEF OnePlace
  <2>2. /\ e \in DOMAIN stamp /\ stamp[e] <= lastFlushTs
        /\ \A i \in DOMAIN window : window[i] # e
        /\ \A i \in DOMAIN rest : rest[i] # e
        /\ \A u \in Threads : u # t => \A i \in DOMAIN left[u] : left[u][i] # e
        /\ \A b \in requests : \A i \in DOMAIN b : b[i] # e
    BY <2>1, <1>2, <1>5 DEF WasSent, Distinct, Disjoint
  <2>3. WasSent(rest) /\ Distinct(rest) /\ Disjoint(rest, window)
    <3>1. WasSent(rest) /\ Disjoint(rest, window)
      BY <2>1, <1>5 DEF WasSent, Disjoint
    <3>2. ASSUME NEW i \in DOMAIN rest, NEW j \in DOMAIN rest, rest[i] = rest[j] PROVE i = j
      <4>1. i + 1 = j + 1 /\ i \in Nat /\ j \in Nat
        BY <3>2, <2>1, <1>5 DEF Distinct
      <4> QED
        BY <4>1
    <3> QED
      BY <3>1, <3>2 DEF Distinct
  <2>4. WasSent(window)'
    BY <1>1, <1>7, <2>2 DEF OnePlace, SideStep, WasSent
  <2>5. Distinct(window)'
    BY <1>1, <1>7, <2>2 DEF OnePlace, Distinct
  <2>6. Disjoint(rest, window)'
    BY <1>7, <2>2, <2>3 DEF Disjoint
  <2>7. \A u \in Threads : u # t => Disjoint(left[u], window')
    BY <1>1, <1>7, <2>2 DEF OnePlace, Disjoint
  <2>8. \A u \in Threads : WasSent(left[u])' /\ Distinct(left[u])' /\ Disjoint(left[u], window)'
    <3>1. ASSUME NEW u \in Threads PROVE WasSent(left'[u]) /\ Distinct(left'[u])
      <4>1. left'[u] = IF u = t THEN rest ELSE left[u]
        BY <1>6
      <4> QED
        BY <4>1, <1>1, <2>3 DEF OnePlace
    <3>2. ASSUME NEW u \in Threads PROVE Disjoint(left'[u], window')
      <4>1. left'[u] = IF u = t THEN rest ELSE left[u]
        BY <1>6
      <4>2. Disjoint(rest, window')
        BY <2>6 DEF Disjoint
      <4> QED
        BY <4>1, <4>2, <2>7
    <3>3. ASSUME NEW u \in Threads PROVE WasSent(left[u])' /\ Distinct(left[u])'
      <4>1. PICK q : q = left'[u]
        OBVIOUS
      <4>2. WasSent(q) /\ Distinct(q)
        BY <3>1, <4>1
      <4> QED
        BY <4>1, <4>2, <1>1 DEF SideStep, WasSent, Distinct
    <3>4. ASSUME NEW u \in Threads PROVE Disjoint(left[u], window)'
      BY <3>2 DEF Disjoint
    <3> QED
      BY <3>3, <3>4
  <2>9. \A u, v \in Threads : u # v => Disjoint(left[u], left[v])'
    <3>1. \A u \in Threads : u # t => Disjoint(rest, left[u]) /\ Disjoint(left[u], rest)
      BY <2>1, <1>5 DEF Disjoint
    <3> QED
      BY <3>1, <1>1, <1>6 DEF OnePlace, Disjoint
  <2>10. \A b \in requests : /\ WasSent(b)' /\ Distinct(b) /\ Disjoint(b, window')
                             /\ \A u \in Threads : Disjoint(b, left'[u])
    <3>1. \A b \in requests : Disjoint(b, rest)
      BY <2>1, <1>5 DEF Disjoint
    <3>2. \A b \in requests : Disjoint(b, window')
      BY <1>1, <1>7, <2>2 DEF OnePlace, Disjoint
    <3> QED
      BY <3>1, <3>2, <1>1, <1>6 DEF OnePlace, SideStep, WasSent
  <2> QED
    BY <2>4, <2>5, <2>8, <2>9, <2>10, <1>1 DEF OnePlace, WasSent, Disjoint
<1>10. Feeding'
  BY <1>1, <1>6, <1>8 DEF WindowInv, Feeding
<1>11. StaysFull'
  <2>1. \A u \in Threads : pc'[u] = "score" /\ u \notin interrupted' => pc[u] = "score" /\ u \notin interrupted
    BY <1>1, <1>8
  <2>2. Len(window) >= MaxWindow => Len(window') >= MaxWindow
    BY <1>1, <1>7, WindowFacts
  <2> QED
    BY <2>1, <2>2 DEF WindowInv, StaysFull
<1> QED
  BY <1>1, <1>8, <1>9, <1>10, <1>11 DEF WindowInv, StreamInv, SideStep, S!ReadyIsFullUnlessReset

\* A window that gets shorter and keeps its order, or stays as it is.
LEMMA ShorterKeepsPlace ==
  ASSUME OnePlace, SideStep, UNCHANGED <<left, requests>>, Distinct(window)',
         \A i \in DOMAIN window' : \E j \in DOMAIN window : window'[i] = window[j]
  PROVE  OnePlace'
<1>1. WasSent(window)'
  BY DEF OnePlace, SideStep, WasSent
<1>2. \A q : Disjoint(q, window) => Disjoint(q, window')
  BY DEF Disjoint
<1>3. \A t \in Threads : WasSent(left[t])' /\ Distinct(left[t])' /\ Disjoint(left[t], window)'
  BY <1>2 DEF OnePlace, SideStep, WasSent, Distinct, Disjoint
<1>4. \A b \in requests : WasSent(b)' /\ Distinct(b) /\ Disjoint(b, window')
  BY <1>2 DEF OnePlace, SideStep, WasSent
<1> QED
  BY <1>1, <1>3, <1>4 DEF OnePlace, WasSent, Disjoint

LEMMA FeedMeasureKeeps ==
  ASSUME WindowInv, NEW t \in Threads, S!FeedMeasure(t)
  PROVE  WindowInv'
<1>1. /\ S!TypeOK /\ SideStep /\ pc[t] = "measure"
      /\ UNCHANGED <<requests, window, left, holding, scored, interrupted>>
      /\ Len(window) \in Nat /\ MaxWindow \in Nat
  BY WindowFacts DEF WindowInv, S!FeedMeasure, S!streamVars, SideStep
<1>2. PICK step \in {"trim", "bind", "check"} :
        /\ S!GoTo(t, step) /\ (step = "trim" <=> Len(window) > MaxWindow)
        /\ step = "bind" => left[t] # <<>>
  BY DEF S!FeedMeasure, S!NextTick
<1>3. step \in S!Steps
  BY DEF S!Steps
<1>4. Len(window') <= MaxWindow + Cardinality(Trimming(pc'))
  <2>1. CASE step = "trim"
    BY <2>1, <1>1, <1>2, <1>3, WindowBound, SameTrimming
  <2>2. CASE step # "trim"
    <3>1. Cardinality(Trimming(pc')) \in Nat
      BY FewTrim
    <3>2. Len(window) <= MaxWindow
      BY <2>2, <1>1, <1>2
    <3> QED
      BY <3>1, <3>2, <1>1
  <2> QED
    BY <2>1, <2>2
<1>5. S!TypeOK' /\ \A u \in Threads : pc'[u] = IF u = t THEN step ELSE pc[u]
  BY <1>1, <1>2, <1>3, <1>4, SideTypes DEF S!TypeOK
<1>6. OnePlace'
  BY <1>1 DEF WindowInv, OnePlace, SideStep, WasSent, Distinct, Disjoint
<1>7. Feeding' /\ StaysFull'
  BY <1>1, <1>2, <1>5 DEF WindowInv, Feeding, StaysFull
<1> QED
  BY <1>1, <1>5, <1>6, <1>7 DEF WindowInv, StreamInv, SideStep, S!ReadyIsFullUnlessReset

LEMMA FeedTrimKeeps ==
  ASSUME WindowInv, NEW t \in Threads, S!FeedTrim(t)
  PROVE  WindowInv'
<1>1. /\ S!TypeOK /\ SideStep /\ pc[t] = "trim" /\ UNCHANGED <<requests, left, scored, interrupted>>
      /\ holding' \subseteq Threads /\ window' = S!LastOf(window, MaxWindow)
      /\ window \in Seq(S!Ticks) /\ Len(window) \in Nat /\ MaxWindow \in Nat
  BY WindowFacts DEF WindowInv, S!FeedTrim, S!streamVars, SideStep
<1>2. PICK step \in {"bind", "check"} : S!GoTo(t, step) /\ (step = "bind" => left[t] # <<>>)
  BY DEF S!FeedTrim, S!NextTick
<1>3. step \in S!Steps
  BY DEF S!Steps
<1>4. /\ window' \in Seq(S!Ticks) /\ Len(window') = IF Len(window) <= MaxWindow THEN Len(window) ELSE MaxWindow
      /\ Distinct(window) => Distinct(window')
      /\ \A i \in DOMAIN window' : \E j \in DOMAIN window : window'[i] = window[j]
  BY <1>1, LastOfProperties, DistinctLastOf
<1>5. Len(window') <= MaxWindow + Cardinality(Trimming(pc'))
  <2>1. Cardinality(Trimming(pc')) \in Nat
    BY FewTrim
  <2> QED
    BY <2>1, <1>1, <1>4
<1>6. S!TypeOK' /\ \A u \in Threads : pc'[u] = IF u = t THEN step ELSE pc[u]
  BY <1>1, <1>2, <1>3, <1>4, <1>5, SideTypes DEF S!TypeOK
<1>7. OnePlace'
  <2>1. Distinct(window)'
    BY <1>4 DEF WindowInv, OnePlace, Distinct
  <2> QED
    BY <2>1, <1>1, <1>4, ShorterKeepsPlace DEF WindowInv
<1>8. Feeding'
  BY <1>1, <1>2, <1>6 DEF WindowInv, Feeding
<1>9. StaysFull'
  <2>1. Len(window) >= MaxWindow => Len(window') >= MaxWindow
    BY <1>1, <1>4
  <2> QED
    BY <2>1, <1>1, <1>2, <1>6 DEF WindowInv, StaysFull
<1> QED
  BY <1>1, <1>6, <1>7, <1>8, <1>9 DEF WindowInv, StreamInv, SideStep, S!ReadyIsFullUnlessReset

LEMMA CheckFullKeeps ==
  ASSUME WindowInv, NEW t \in Threads, S!CheckFull(t)
  PROVE  WindowInv'
<1>1. /\ S!TypeOK /\ SideStep /\ pc[t] = "check" /\ UNCHANGED <<requests, window, left, holding, scored>>
      /\ interrupted' = interrupted \ {t} /\ interrupted' \subseteq Threads
      /\ Len(window) \in Nat /\ MaxWindow \in Nat
  BY WindowFacts DEF WindowInv, S!TypeOK, S!CheckFull, S!streamVars, SideStep
<1>2. PICK step \in {"idle", "score"} : S!GoTo(t, step) /\ (step = "score" => Len(window) >= MaxWindow)
  BY <1>1 DEF S!CheckFull
<1>3. step \in S!Steps
  BY DEF S!Steps
<1>4. S!TypeOK' /\ \A u \in Threads : pc'[u] = IF u = t THEN step ELSE pc[u]
  <2>1. Len(window') <= MaxWindow + Cardinality(Trimming(pc'))
    BY <1>1, <1>2, <1>3, WindowBound, SameTrimming
  <2> QED
    BY <2>1, <1>1, <1>2, <1>3, SideTypes DEF S!TypeOK
<1>5. OnePlace'
  BY <1>1 DEF WindowInv, OnePlace, SideStep, WasSent, Distinct, Disjoint
<1>6. Feeding' /\ StaysFull'
  BY <1>1, <1>2, <1>4 DEF WindowInv, Feeding, StaysFull
<1> QED
  BY <1>1, <1>4, <1>5, <1>6 DEF WindowInv, StreamInv, SideStep, S!ReadyIsFullUnlessReset

LEMMA ScoreCurrentKeeps ==
  ASSUME WindowInv, NEW t \in Threads, S!ScoreCurrent(t)
  PROVE  WindowInv'
<1>1. /\ S!TypeOK /\ SideStep /\ pc[t] = "score" /\ S!GoTo(t, "idle") /\ "idle" \in S!Steps
      /\ UNCHANGED <<requests, window, left, holding, interrupted>>
      /\ scored' = [ready |-> TRUE, reset |-> t \in interrupted, window |-> window]
      /\ window \in Seq(S!Ticks)
  BY WindowFacts DEF WindowInv, S!ScoreCurrent, S!streamVars, SideStep, S!Steps
<1>2. /\ scored' \in [ready : BOOLEAN, reset : BOOLEAN, window : Seq(S!Ticks)]
      /\ scored'.window = window /\ scored'.reset = (t \in interrupted)
  BY <1>1
<1>3. S!TypeOK' /\ \A u \in Threads : pc'[u] = IF u = t THEN "idle" ELSE pc[u]
  <2>1. Len(window') <= MaxWindow + Cardinality(Trimming(pc'))
    BY <1>1, WindowBound, SameTrimming
  <2> QED
    BY <2>1, <1>1, <1>2, SideTypes DEF S!TypeOK
<1>4. OnePlace'
  BY <1>1 DEF WindowInv, OnePlace, SideStep, WasSent, Distinct, Disjoint
<1>5. Feeding' /\ StaysFull'
  BY <1>1, <1>3 DEF WindowInv, Feeding, StaysFull
<1>6. S!ReadyIsFullUnlessReset'
  BY <1>1, <1>2 DEF WindowInv, StaysFull, S!ReadyIsFullUnlessReset
<1> QED
  BY <1>1, <1>3, <1>4, <1>5, <1>6 DEF WindowInv, StreamInv, SideStep

LEMMA ResetKeeps ==
  ASSUME WindowInv, S!Reset
  PROVE  WindowInv'
<1>1. /\ SideStep /\ UNCHANGED <<requests, pc, left, scored>> /\ holding' = {} /\ window' = <<>>
      /\ interrupted' = interrupted \cup {t \in Threads : pc[t] = "score"}
  BY DEF S!Reset, S!streamVars, SideStep
<1>2. window' \in Seq(S!Ticks) /\ DOMAIN window' = {} /\ Len(window') = 0
  BY <1>1
<1>3. S!TypeOK'
  <2>1. Len(window') <= MaxWindow + S!Cardinality({t \in Threads : pc'[t] \in {"measure", "trim"}})
    <3>1. S!Cardinality({t \in Threads : pc'[t] \in {"measure", "trim"}}) \in Nat /\ MaxWindow \in Nat
      BY FewTrim, WindowAssumption
    <3> QED
      BY <3>1, <1>2
  <2> QED
    BY <2>1, <1>1, <1>2 DEF WindowInv, SideStep, S!TypeOK
<1>4. OnePlace'
  BY <1>1, <1>2, ShorterKeepsPlace DEF WindowInv, Distinct
<1>5. Feeding' /\ StaysFull'
  BY <1>1 DEF WindowInv, Feeding, StaysFull
<1> QED
  BY <1>1, <1>3, <1>4, <1>5 DEF WindowInv, StreamInv, SideStep, S!ReadyIsFullUnlessReset

LEMMA WindowInit == ASSUME S!Init PROVE WindowInv
<1>1. /\ now = TcnThrottle /\ stamp = <<>> /\ tickBuffer = <<>> /\ lastTcnCall = 0 /\ lastFlushTs = 0
      /\ requests = {} /\ window = <<>> /\ holding = {} /\ interrupted = {} /\ scored = S!Nothing
      /\ pc = [t \in Threads |-> "idle"] /\ left = [t \in Threads |-> <<>>]
  BY DEF S!Init
<1>2. /\ TcnThrottle \in 0..MaxNow /\ 0 \in 0..TcnThrottle /\ {MaxTicks, BufferCap, MaxWindow} \subseteq Nat
  BY WindowAssumption
<1>3. /\ stamp \in Seq(0..MaxNow) /\ tickBuffer \in Seq(S!Ticks) /\ window \in Seq(S!Ticks)
      /\ DOMAIN stamp = {} /\ DOMAIN tickBuffer = {} /\ DOMAIN window = {}
      /\ Len(stamp) = 0 /\ Len(tickBuffer) = 0 /\ Len(window) = 0
  BY <1>1
<1>4. /\ pc \in [Threads -> S!Steps] /\ left \in [Threads -> Seq(S!Ticks)]
      /\ \A t \in Threads : pc[t] = "idle" /\ left[t] = <<>> /\ DOMAIN left[t] = {}
  BY <1>1 DEF S!Steps
<1>5. scored \in [ready : BOOLEAN, reset : BOOLEAN, window : Seq(S!Ticks)] /\ ~scored.ready
  BY <1>1 DEF S!Nothing
<1>6. S!TypeOK
  <2>1. Len(window) <= MaxWindow + S!Cardinality({t \in Threads : pc[t] \in {"measure", "trim"}})
    <3>1. S!Cardinality({t \in Threads : pc[t] \in {"measure", "trim"}}) \in Nat /\ MaxWindow \in Nat
      BY FewTrim, WindowAssumption
    <3> QED
      BY <3>1, <1>3
  <2> QED
    BY <2>1, <1>1, <1>2, <1>3, <1>4, <1>5 DEF S!TypeOK
<1>7. StreamInv
  BY <1>1, <1>3 DEF StreamInv
<1>8. OnePlace /\ Feeding /\ StaysFull
  BY <1>1, <1>3, <1>4 DEF OnePlace, Feeding, StaysFull, WasSent, Distinct, Disjoint
<1> QED
  BY <1>5, <1>6, <1>7, <1>8 DEF WindowInv, S!ReadyIsFullUnlessReset

LEMMA WindowNext ==
  ASSUME WindowInv, [S!Next]_windowVars
  PROVE  WindowInv'
<1>1. CASE UNCHANGED windowVars
  <2>1. S!TypeOK' /\ StreamInv' /\ Feeding' /\ StaysFull' /\ S!ReadyIsFullUnlessReset'
    BY <1>1 DEF windowVars, WindowInv, S!TypeOK, StreamInv, Feeding, StaysFull, S!ReadyIsFullUnlessReset
  <2>2. OnePlace'
    BY <1>1 DEF windowVars, WindowInv, OnePlace, WasSent, Distinct, Disjoint
  <2> QED
    BY <2>1, <2>2 DEF WindowInv
<1>2. ASSUME NEW t \in Threads, S!Score(t) PROVE WindowInv'
  BY <1>2, ReceiveRequestKeeps, FeedBindKeeps, FeedAppendKeeps, FeedMeasureKeeps, FeedTrimKeeps,
     CheckFullKeeps, ScoreCurrentKeeps DEF S!Score
<1> QED
  BY <1>1, <1>2, UnsentTickKeeps, RequestKeeps, LoseRequestKeeps, ElapseKeeps, ResetKeeps DEF S!Next

LEMMA WindowGoal == ASSUME WindowInv PROVE S!TypeOK /\ S!NoTickTwice /\ S!ReadyIsFullUnlessReset
<1>1. window \in Seq(S!Ticks) /\ DOMAIN window = 1..Len(window)
  BY WindowFacts DEF WindowInv
<1> QED
  BY <1>1 DEF WindowInv, OnePlace, Distinct, S!NoTickTwice

-----------------------------------------------------------------------------
(***************************************************************************)
(* The correlation detector                                                 *)
(***************************************************************************)

\* What Pushed does to a sequence counted from its end.
LEMMA PushedFromEnd ==
  ASSUME NEW T, NEW s \in Seq(T), NEW e \in T, NEW limit \in Nat \ {0}, Len(s) <= limit
  PROVE  LET p == C!Pushed(s, e, limit)
         IN  /\ p \in Seq(T) /\ Len(p) <= limit /\ Len(p) > 0 /\ p[Len(p)] = e
             /\ Len(p) = IF Len(s) < limit THEN Len(s) + 1 ELSE Len(s)
             /\ \A back \in Nat \ {0} :
                  back < Len(p) => back - 1 < Len(s) /\ p[Len(p) - back] = s[Len(s) - (back - 1)]
<1>1. CASE Len(s) < limit
  BY <1>1 DEF C!Pushed
<1>2. CASE Len(s) = limit
  <2>1. Tail(s) \in Seq(T) /\ Len(Tail(s)) = Len(s) - 1 /\ \A i \in 1..(Len(s) - 1) : Tail(s)[i] = s[i + 1]
    BY <1>2, HeadTailProperties
  <2> QED
    BY <1>2, <2>1 DEF C!Pushed
<1> QED
  BY <1>1, <1>2

Results == {"low", "high"}
\* The last n results are low.
LowEnd(n, s) == n <= Len(s) /\ \A back \in 0..(n - 1) : s[Len(s) - back] = "low"

LEMMA LowEndGrows ==
  ASSUME NEW s \in Seq(Results), NEW limit \in Nat \ {0}, Len(s) <= limit,
         NEW n \in 0..limit, LowEnd(n, s)
  PROVE  LET m == IF n + 1 > limit THEN limit ELSE n + 1
         IN  m \in 1..limit /\ LowEnd(m, C!Pushed(s, "low", limit))
<1> DEFINE m == IF n + 1 > limit THEN limit ELSE n + 1
           p == C!Pushed(s, "low", limit)
<1>1. "low" \in Results
  BY DEF Results
<1>2. /\ p \in Seq(Results) /\ p[Len(p)] = "low"
      /\ Len(p) = IF Len(s) < limit THEN Len(s) + 1 ELSE Len(s)
      /\ \A back \in Nat \ {0} :
           back < Len(p) => back - 1 < Len(s) /\ p[Len(p) - back] = s[Len(s) - (back - 1)]
  BY <1>1, PushedFromEnd
<1> HIDE DEF p
<1>3. m \in 1..limit /\ m - 1 <= n /\ n <= Len(s) /\ Len(s) \in Nat /\ Len(p) \in Nat
  BY <1>2 DEF LowEnd
<1>4. m <= Len(p)
  BY <1>2, <1>3
<1> HIDE DEF m
<1>5. ASSUME NEW back \in 0..(m - 1) PROVE p[Len(p) - back] = "low"
  <2>1. CASE back = 0
    BY <2>1, <1>2, <1>3
  <2>2. CASE back # 0
    <3>1. back \in Nat \ {0} /\ back < Len(p) /\ back - 1 \in 0..(n - 1)
      BY <2>2, <1>3, <1>4
    <3> QED
      BY <3>1, <1>2 DEF LowEnd
  <2> QED
    BY <2>1, <2>2
<1> QED
  BY <1>3, <1>4, <1>5 DEF LowEnd, m, p

\* The count stands for that many low results, the last ones.
LowRun == LowEnd(belowCount, evaluations)
\* No more seconds were low than results, and none is yet to come.
LowSoFar == (belowCount < SustainBins => lowSeconds <= belowCount) /\ lastLow <= second
CorrelationInv == C!TypeOK /\ C!SeriesAligned /\ LowRun /\ LowSoFar /\ C!SustainedLowAlerts

LEMMA CorrelationInit == ASSUME C!Init PROVE CorrelationInv
<1>1. /\ DOMAIN series = {} /\ evaluations = <<>> /\ belowCount = 0 /\ second = 0 /\ ~alerted
      /\ lowSeconds = 0 /\ lastLow = -1
  BY DEF C!Init, C!Never
<1>2. C!TypeOK
  <2>1. evaluations \in Seq({"low", "high"}) /\ Len(evaluations) <= SustainBins /\ 0 \in 0..SustainBins
    BY <1>1, CorrelationAssumption
  <2>2. 0 \in 0..MaxSeconds /\ Cooldown + 1 \in 0..(Cooldown + 1)
    BY CorrelationAssumption
  <2> QED
    BY <1>1, <2>1, <2>2 DEF C!Init, C!TypeOK, C!Seconds, C!Never, C!Correlations
<1>3. LowSoFar /\ ~(lowSeconds = SustainBins)
  BY <1>1, CorrelationAssumption DEF LowSoFar
<1> QED
  BY <1>1, <1>2, <1>3 DEF CorrelationInv, C!SeriesAligned, LowRun, LowEnd, C!SustainedLowAlerts

LEMMA FlushAligns ==
  ASSUME CorrelationInv, NEW ts \in C!Seconds, C!Flush(ts, C!Flushed(known \cup {Anchor}, ts))
  PROVE  /\ DOMAIN series' \subseteq known \cup {Anchor}
         /\ \A s \in DOMAIN series' :
              series'[s] \in Seq(C!Seconds) /\ Len(series'[s]) <= WindowBins + 1
         /\ C!SeriesAligned'
<1>1. CASE UNCHANGED <<series, corr>>
  BY <1>1 DEF CorrelationInv, C!TypeOK, C!SeriesAligned
<1>2. CASE series' = C!Flushed(known \cup {Anchor}, ts)
  <2> DEFINE old(s) == C!SeriesOf(s)
  <2>1. WindowBins + 1 \in Nat \ {0} /\ WindowBins \in Nat
    BY CorrelationAssumption
  <2>2. DOMAIN series' = known \cup {Anchor}
    BY <1>2 DEF C!Flushed
  <2>3. \A s \in DOMAIN series' : series'[s] = C!Pushed(old(s), ts, WindowBins + 1)
    BY <1>2 DEF C!Flushed
  <2>4. \A s : old(s) \in Seq(C!Seconds) /\ Len(old(s)) <= WindowBins + 1
    <3> SUFFICES ASSUME NEW s PROVE old(s) \in Seq(C!Seconds) /\ Len(old(s)) <= WindowBins + 1
      OBVIOUS
    <3>1. CASE s \in DOMAIN series
      BY <3>1 DEF CorrelationInv, C!TypeOK, C!SeriesOf
    <3>2. CASE s \notin DOMAIN series
      BY <3>2, <2>1 DEF C!SeriesOf
    <3> QED
      BY <3>1, <3>2
  <2>5. \A s, q : \A back \in 0..WindowBins :
          back < Len(old(s)) /\ back < Len(old(q)) => old(s)[Len(old(s)) - back] = old(q)[Len(old(q)) - back]
    <3> SUFFICES ASSUME NEW s, NEW q, NEW back \in 0..WindowBins, back < Len(old(s)), back < Len(old(q))
                 PROVE  old(s)[Len(old(s)) - back] = old(q)[Len(old(q)) - back]
      OBVIOUS
    <3>1. s \in DOMAIN series /\ q \in DOMAIN series
      BY DEF C!SeriesOf
    <3> QED
      BY <3>1 DEF CorrelationInv, C!SeriesAligned, C!SeriesOf
  <2> HIDE DEF old
  <2>6. \A s \in DOMAIN series' :
          /\ series'[s] \in Seq(C!Seconds) /\ Len(series'[s]) <= WindowBins + 1
          /\ Len(series'[s]) > 0 /\ series'[s][Len(series'[s])] = ts
          /\ \A back \in Nat \ {0} :
               back < Len(series'[s]) => /\ back - 1 < Len(old(s))
                                         /\ series'[s][Len(series'[s]) - back] = old(s)[Len(old(s)) - (back - 1)]
    BY <2>1, <2>3, <2>4, PushedFromEnd
  <2>7. ASSUME NEW s \in DOMAIN series', NEW q \in DOMAIN series', NEW back \in 0..WindowBins,
               back < Len(series'[s]), back < Len(series'[q])
        PROVE  series'[s][Len(series'[s]) - back] = series'[q][Len(series'[q]) - back]
    <3>1. CASE back = 0
      BY <3>1, <2>6, <2>7
    <3>2. CASE back # 0
      <4>1. back - 1 \in 0..WindowBins /\ back \in Nat \ {0}
        BY <3>2, <2>1
      <4>2. /\ back - 1 < Len(old(s)) /\ series'[s][Len(series'[s]) - back] = old(s)[Len(old(s)) - (back - 1)]
            /\ back - 1 < Len(old(q)) /\ series'[q][Len(series'[q]) - back] = old(q)[Len(old(q)) - (back - 1)]
        BY <4>1, <2>6, <2>7
      <4> QED
        BY <4>1, <4>2, <2>5
    <3> QED
      BY <3>1, <3>2
  <2> QED
    BY <2>2, <2>6, <2>7 DEF C!SeriesAligned
<1> QED
  BY <1>1, <1>2 DEF C!Flush

LEMMA DetectKeepsRun ==
  ASSUME CorrelationInv, corr' \in C!Correlations, second' = second, C!Detect
  PROVE  /\ belowCount' \in 0..SustainBins /\ evaluations' \in Seq({"low", "high"})
         /\ Len(evaluations') <= SustainBins /\ alerted' \in BOOLEAN
         /\ sinceAlert' \in 0..(Cooldown + 1)
         /\ lowSeconds' \in 0..SustainBins /\ lastLow' \in C!Seconds \cup {C!Never}
         /\ LowRun' /\ LowSoFar' /\ C!SustainedLowAlerts'
<1>1. /\ SustainBins \in Nat \ {0} /\ Cooldown \in Nat /\ belowCount \in 0..SustainBins
      /\ evaluations \in Seq(Results) /\ Len(evaluations) <= SustainBins
      /\ sinceAlert \in 0..(Cooldown + 1) /\ LowRun
  BY CorrelationAssumption DEF CorrelationInv, C!TypeOK, Results
<1>2. alerted' \in BOOLEAN /\ sinceAlert' \in 0..(Cooldown + 1) /\ (alerted' => belowCount' >= SustainBins)
  <2>1. alerted' = (corr' # "none" /\ belowCount' >= SustainBins /\ sinceAlert > Cooldown)
    BY DEF C!Detect
  <2>2. alerted' \in BOOLEAN /\ (alerted' => belowCount' >= SustainBins)
    BY <2>1, Zenon
  <2>3. sinceAlert' = sinceAlert \/ sinceAlert' = 0
    BY DEF C!Detect
  <2> QED
    BY <2>2, <2>3, <1>1
<1>3. /\ belowCount' \in 0..SustainBins /\ evaluations' \in Seq(Results)
      /\ Len(evaluations') <= SustainBins /\ LowRun'
  <2>1. CASE corr' = "none"
    BY <2>1, <1>1 DEF C!Detect, C!BelowAfter, LowRun
  <2>2. CASE corr' = "high"
    <3>1. belowCount' = 0 /\ evaluations' = C!Pushed(evaluations, "high", SustainBins)
      BY <2>2 DEF C!Detect, C!BelowAfter
    <3>2. "high" \in Results
      BY DEF Results
    <3>3. evaluations' \in Seq(Results) /\ Len(evaluations') <= SustainBins
      BY <3>1, <3>2, <1>1, PushedFromEnd
    <3> QED
      BY <3>1, <3>3, <1>1 DEF LowRun, LowEnd
  <2>3. CASE corr' = "low"
    <3>1. /\ belowCount' = IF belowCount + 1 > SustainBins THEN SustainBins ELSE belowCount + 1
          /\ evaluations' = C!Pushed(evaluations, "low", SustainBins)
      BY <2>3 DEF C!Detect, C!BelowAfter, C!Capped
    <3>2. "low" \in Results
      BY DEF Results
    <3>3. evaluations' \in Seq(Results) /\ Len(evaluations') <= SustainBins
      BY <3>1, <3>2, <1>1, PushedFromEnd
    <3>4. belowCount' \in 1..SustainBins /\ LowEnd(belowCount', evaluations')
      BY <3>1, <1>1, LowEndGrows DEF LowRun
    <3> QED
      BY <3>3, <3>4, <1>1 DEF LowRun
  <2> QED
    BY <2>1, <2>2, <2>3 DEF C!Correlations
<1>4. ASSUME alerted' PROVE Len(evaluations') = SustainBins /\ \A i \in 1..SustainBins : evaluations'[i] = "low"
  <2>1. belowCount' = SustainBins /\ Len(evaluations') = SustainBins
    BY <1>1, <1>2, <1>3, <1>4 DEF LowRun, LowEnd
  <2>2. ASSUME NEW i \in 1..SustainBins PROVE evaluations'[i] = "low"
    <3>1. SustainBins - i \in 0..(belowCount' - 1) /\ Len(evaluations') - (SustainBins - i) = i
      BY <2>1, <1>1
    <3> QED
      BY <3>1, <1>3 DEF LowRun, LowEnd
  <2> QED
    BY <2>1, <2>2
<1>5. /\ second \in C!Seconds /\ second \in Nat /\ lowSeconds \in 0..SustainBins
      /\ lastLow \in C!Seconds \cup {C!Never} /\ lastLow \in Int /\ lastLow <= second
      /\ belowCount < SustainBins => lowSeconds <= belowCount
      /\ lowSeconds = SustainBins /\ lastLow = second => sinceAlert <= Cooldown
  BY CorrelationAssumption DEF CorrelationInv, LowSoFar, C!TypeOK, C!Seconds, C!Never, C!SustainedLowAlerts
<1>6. /\ lowSeconds' \in 0..SustainBins /\ lastLow' \in C!Seconds \cup {C!Never}
      /\ lastLow' <= second /\ (belowCount' < SustainBins => lowSeconds' <= belowCount')
      /\ lowSeconds' = SustainBins /\ lastLow' = second => sinceAlert' <= Cooldown
  <2>1. CASE corr' = "none"
    <3>1. /\ belowCount' = belowCount /\ lastLow' = lastLow /\ lowSeconds' = lowSeconds
          /\ sinceAlert' = sinceAlert
      BY <2>1 DEF C!Detect, C!BelowAfter
    <3> QED
      BY <3>1, <1>5
  <2>2. CASE corr' = "high"
    <3>1. belowCount' = 0 /\ lastLow' = -1 /\ lowSeconds' = 0
      BY <2>2 DEF C!Detect, C!BelowAfter, C!Never
    <3> QED
      BY <3>1, <1>1, <1>5 DEF C!Never
  <2>3. CASE corr' = "low"
    <3>1. /\ belowCount' = IF belowCount + 1 > SustainBins THEN SustainBins ELSE belowCount + 1
          /\ lastLow' = second
          /\ lowSeconds' = lowSeconds \/ lowSeconds' = IF lowSeconds + 1 > SustainBins THEN SustainBins ELSE lowSeconds + 1
      BY <2>3 DEF C!Detect, C!BelowAfter, C!Capped
    <3>2. sinceAlert > Cooldown /\ belowCount' >= SustainBins => sinceAlert' = 0
      BY <2>3 DEF C!Detect
    <3>3. ~(sinceAlert > Cooldown /\ belowCount' >= SustainBins) => sinceAlert' = sinceAlert
      BY <2>3 DEF C!Detect
    <3>4. lowSeconds' \in 0..SustainBins /\ (belowCount' < SustainBins => lowSeconds' <= belowCount')
      BY <3>1, <1>1, <1>5
    <3>5. belowCount' >= SustainBins => sinceAlert' <= Cooldown
      BY <3>2, <3>3, <1>1
    <3> QED
      BY <3>1, <3>4, <3>5, <1>1, <1>3, <1>5
  <2> QED
    BY <2>1, <2>2, <2>3 DEF C!Correlations
<1>7. LowSoFar' /\ C!SustainedLowAlerts'
  BY <1>4, <1>6 DEF LowSoFar, C!SustainedLowAlerts
<1> QED
  BY <1>2, <1>3, <1>6, <1>7 DEF Results

LEMMA CorrelationNext ==
  ASSUME CorrelationInv, [C!Next]_correlationVars
  PROVE  CorrelationInv'
<1>1. CASE UNCHANGED correlationVars
  BY <1>1 DEF correlationVars, CorrelationInv, C!TypeOK, C!SeriesAligned, LowRun,
               LowSoFar, C!SustainedLowAlerts
<1>2. ASSUME UNCHANGED <<known, series, corr, lastBin, belowCount, evaluations, lowSeconds, lastLow>>,
             ~alerted', C!TypeOK',
             \/ second' = second /\ sinceAlert' = sinceAlert
             \/ second' = second + 1
      PROVE  CorrelationInv'
  <2>1. C!SeriesAligned'
    BY <1>2 DEF CorrelationInv, C!SeriesAligned
  <2>2. LowRun'
    BY <1>2 DEF CorrelationInv, LowRun
  <2>3. LowSoFar' /\ C!SustainedLowAlerts'
    <3>1. second \in Int /\ lastLow \in Int
      BY CorrelationAssumption DEF CorrelationInv, C!TypeOK, C!Seconds, C!Never
    <3> QED
      BY <1>2, <3>1 DEF CorrelationInv, LowSoFar, C!SustainedLowAlerts
  <2> QED
    BY <1>2, <2>1, <2>2, <2>3 DEF CorrelationInv
<1>3. CASE C!AnchorDepth
  <2>1. C!TypeOK'
    BY <1>3 DEF C!AnchorDepth, CorrelationInv, C!TypeOK
  <2> QED
    BY <1>3, <1>2, <2>1 DEF C!AnchorDepth
<1>4. CASE C!Elapse
  <2>1. second' \in C!Seconds /\ sinceAlert' \in 0..(Cooldown + 1)
    <3>1. /\ second \in Nat /\ second < MaxSeconds /\ second' = second + 1
          /\ sinceAlert' = C!Capped(sinceAlert + 1, Cooldown + 1)
          /\ sinceAlert \in 0..(Cooldown + 1)
      BY <1>4 DEF C!Elapse, C!Seconds, CorrelationInv, C!TypeOK
    <3>2. Cooldown \in Nat /\ MaxSeconds \in Nat
      BY CorrelationAssumption
    <3>3. second' \in C!Seconds
      BY <3>1, <3>2 DEF C!Seconds
    <3>4. sinceAlert' \in 0..(Cooldown + 1)
      BY <3>1, <3>2 DEF C!Capped
    <3> QED
      BY <3>3, <3>4
  <2>2. C!TypeOK'
    BY <1>4, <2>1 DEF C!Elapse, CorrelationInv, C!TypeOK
  <2> QED
    BY <1>4, <1>2, <2>2 DEF C!Elapse
<1>5. ASSUME NEW s \in Basket, NEW lateness \in 0..MaxLateness, lateness <= second,
             C!BasketTrade(s, second - lateness)
      PROVE  CorrelationInv'
  <2> DEFINE ts == second - lateness
  <2>1. ts \in C!Seconds
    BY <1>5, CorrelationAssumption DEF C!Seconds, CorrelationInv, C!TypeOK
  <2>2. corr' \in C!Correlations
    BY <1>5 DEF C!BasketTrade, C!Flush, C!CurrentCorr, C!Correlations, CorrelationInv, C!TypeOK
  <2>3. /\ DOMAIN series' \subseteq known \cup {Anchor}
        /\ \A q \in DOMAIN series' : series'[q] \in Seq(C!Seconds) /\ Len(series'[q]) <= WindowBins + 1
        /\ C!SeriesAligned'
    BY <1>5, <2>1, FlushAligns DEF C!BasketTrade
  <2>4. /\ belowCount' \in 0..SustainBins /\ evaluations' \in Seq({"low", "high"})
        /\ Len(evaluations') <= SustainBins /\ alerted' \in BOOLEAN
        /\ sinceAlert' \in 0..(Cooldown + 1)
        /\ lowSeconds' \in 0..SustainBins /\ lastLow' \in C!Seconds \cup {C!Never}
        /\ LowRun' /\ LowSoFar' /\ C!SustainedLowAlerts'
    BY <1>5, <2>2, DetectKeepsRun DEF C!BasketTrade
  <2>5. C!TypeOK'
    <3>1. /\ known' = known \cup {Anchor, s} /\ lastBin' = ts /\ UNCHANGED <<second, anchorSeen>>
      BY <1>5 DEF C!BasketTrade
    <3>2. known' \subseteq C!Symbols /\ DOMAIN series' \subseteq known'
      BY <3>1, <1>5, <2>3 DEF CorrelationInv, C!TypeOK, C!Symbols
    <3> QED
      BY <3>1, <3>2, <2>1, <2>2, <2>3, <2>4 DEF CorrelationInv, C!TypeOK
  <2> QED
    BY <2>3, <2>4, <2>5 DEF CorrelationInv
<1> QED
  BY <1>1, <1>3, <1>4, <1>5 DEF C!Next

-----------------------------------------------------------------------------
(***************************************************************************)
(* The alert history                                                        *)
(***************************************************************************)

Stored == [symbol : Basket, createdAt : Nat]
HistoryTypes == alerts \in Seq(Stored) /\ shown \in Seq(SUBSET Nat) /\ H!TypeOK

LEMMA TimesAreNat ==
  ASSUME NEW s \in Seq(Stored)
  PROVE  \A i \in DOMAIN s : s[i].createdAt \in Nat
<1>1. \A i \in DOMAIN s : s[i] \in Stored
  BY LenProperties, ElementOfSeq
<1> QED
  BY <1>1 DEF Stored

LEMMA EarliestIsLeast ==
  ASSUME alerts \in Seq(Stored), NEW page \in SUBSET DOMAIN alerts, page # {}
  PROVE  /\ H!Earliest(page) \in Nat
         /\ \E i \in page : H!At(i) = H!Earliest(page)
         /\ \A i \in page : H!Earliest(page) <= H!At(i)
<1> DEFINE T == {H!At(i) : i \in page}
<1>1. \A i \in DOMAIN alerts : alerts[i].createdAt \in Nat
  BY TimesAreNat
<1>2. T \in SUBSET Nat /\ T # {}
  BY <1>1 DEF H!At
<1>3. \E t \in T : \A n \in T : t <= n
  BY <1>2, LeastExists
<1>4. \E t \in T : \A i \in page : t <= H!At(i)
  BY <1>3
<1>5. H!Earliest(page) \in T /\ \A i \in page : H!Earliest(page) <= H!At(i)
  BY <1>4 DEF H!Earliest
<1> QED
  BY <1>2, <1>5

\* Rows once stored keep their time.
LEMMA EarliestStays ==
  ASSUME alerts \in Seq(Stored), alerts' \in Seq(Stored), DOMAIN alerts \subseteq DOMAIN alerts',
         \A i \in DOMAIN alerts : alerts'[i] = alerts[i],
         NEW page \in SUBSET DOMAIN alerts, page # {}
  PROVE  H!Earliest(page)' = H!Earliest(page)
<1> DEFINE e == H!Earliest(page)
           f == H!Earliest(page)'
<1>1. e \in Nat /\ (\E i \in page : H!At(i) = e) /\ \A i \in page : e <= H!At(i)
  BY EarliestIsLeast
<1>2. f \in Nat /\ (\E i \in page : H!At(i)' = f) /\ \A i \in page : f <= H!At(i)'
  <2> DEFINE T == {H!At(i)' : i \in page}
  <2>1. \A i \in DOMAIN alerts' : alerts'[i].createdAt \in Nat
    BY TimesAreNat
  <2>2. T \in SUBSET Nat /\ T # {}
    BY <2>1 DEF H!At
  <2>3. \E t \in T : \A n \in T : t <= n
    BY <2>2, LeastExists
  <2>4. \E t \in T : \A i \in page : t <= H!At(i)'
    BY <2>3
  <2>5. f \in T /\ \A i \in page : f <= H!At(i)'
    BY <2>4 DEF H!Earliest
  <2> QED
    BY <2>2, <2>5
<1>3. \A i \in page : H!At(i)' = H!At(i)
  BY DEF H!At
<1> HIDE DEF e, f
<1> QED
  BY <1>1, <1>2, <1>3 DEF e, f

Covered(i) == \E p \in DOMAIN shown : i \in shown[p]
\* At the edge of the last page: of the time of its last row, and not on it.
AtEdge(i) == shown # <<>> /\ i \notin shown[Len(shown)] /\ H!At(i) = H!Earliest(shown[Len(shown)])
Accounted(i) == Covered(i) \/ H!Cut(i) \/ H!At(i) < reader.cursor \/ AtEdge(i)

\* What is shown is not below the cursor, and what is not shown is below it, or
\* was cut off with the row the cursor comes from.
Reading ==
  /\ \A p \in DOMAIN shown : shown[p] # {} /\ \A i \in shown[p] : H!At(i) >= reader.cursor
  /\ \A i \in listed : alerts[i].symbol \in reader.symbols /\ Accounted(i)
  /\ shown # <<>> => reader.cursor = H!Earliest(shown[Len(shown)])
PagesDiffer == \A p, q \in DOMAIN shown : p # q => shown[p] \cap shown[q] = {}
\* Only the last page can be empty.
PagesFull == \A p \in DOMAIN shown : p # Len(shown) => shown[p] # {}

HistoryInv ==
  /\ HistoryTypes /\ PagesDiffer /\ PagesFull
  /\ reader.asks = "more" => Reading
  /\ reader = H!Idle => \A i \in listed : H!Cut(i) \/ Covered(i)

LEMMA HistoryTypesFacts ==
  ASSUME HistoryTypes
  PROVE  /\ DOMAIN alerts = 1..Len(alerts) /\ Len(alerts) \in Nat
         /\ \A i \in DOMAIN alerts : /\ H!At(i) \in 0..clock /\ alerts[i].symbol \in Basket
                                      /\ alerts[i] \in Stored
         /\ DOMAIN shown = 1..Len(shown) /\ Len(shown) \in Nat
         /\ \A p \in DOMAIN shown : shown[p] \in SUBSET DOMAIN alerts
         /\ clock \in 0..MaxClock /\ MaxClock \in Nat /\ listed \subseteq DOMAIN alerts
<1>1. alerts \in Seq(Stored) /\ shown \in Seq(SUBSET Nat) /\ H!TypeOK
  BY DEF HistoryTypes
<1>2. DOMAIN alerts = 1..Len(alerts) /\ Len(alerts) \in Nat /\ DOMAIN shown = 1..Len(shown) /\ Len(shown) \in Nat
  BY <1>1
<1>3. \A i \in DOMAIN alerts : alerts[i] \in [symbol : Basket, createdAt : 0..clock] /\ alerts[i] \in Stored
  BY <1>1, <1>2, ElementOfSeq DEF H!TypeOK
<1> QED
  BY <1>1, <1>2, <1>3, HistoryAssumption DEF H!TypeOK, H!At

LEMMA HistoryInit == ASSUME H!Init PROVE HistoryInv
<1>1. alerts = <<>> /\ shown = <<>> /\ listed = {} /\ reader = H!Idle /\ clock = 0
  BY DEF H!Init
<1>2. DOMAIN alerts = {} /\ DOMAIN shown = {} /\ Len(shown) = 0 /\ Len(alerts) = 0
  BY <1>1
<1>3. alerts \in Seq(Stored) /\ shown \in Seq(SUBSET Nat)
  BY <1>1
<1>4. HistoryTypes
  BY <1>1, <1>2, <1>3, HistoryAssumption DEF HistoryTypes, H!TypeOK
<1>5. reader.asks # "more"
  BY <1>1 DEF H!Idle
<1> QED
  BY <1>1, <1>2, <1>4, <1>5 DEF HistoryInv, PagesDiffer, PagesFull

\* Cut off by a page that is not the last.
CutBefore(i) == \E p \in DOMAIN shown : /\ p # Len(shown) /\ i \notin shown[p]
                                        /\ H!At(i) = H!Earliest(shown[p])

LEMMA CutIsBefore ==
  ASSUME shown \in Seq(SUBSET Nat)
  PROVE  \A i : H!Cut(i) <=> CutBefore(i)
<1>1. Len(shown) \in Nat /\ DOMAIN shown = 1..Len(shown)
  OBVIOUS
<1>2. ASSUME NEW n \in Nat PROVE \A p : p \in 1..(n - 1) <=> p \in 1..n /\ p # n
  OBVIOUS
<1>3. \A p : p \in 1..(Len(shown) - 1) <=> p \in DOMAIN shown /\ p # Len(shown)
  BY <1>1, <1>2
<1> QED
  BY <1>3 DEF H!Cut, CutBefore

\* Time that passes and rows that are stored change nothing for the reader.
LEMMA RowsStay ==
  ASSUME HistoryInv, UNCHANGED <<reader, shown, listed>>, HistoryTypes',
         DOMAIN alerts \subseteq DOMAIN alerts', \A i \in DOMAIN alerts : alerts'[i] = alerts[i]
  PROVE  HistoryInv'
<1>1. /\ DOMAIN shown = 1..Len(shown) /\ Len(shown) \in Nat /\ listed \subseteq DOMAIN alerts
      /\ \A p \in DOMAIN shown : shown[p] \in SUBSET DOMAIN alerts
      /\ alerts \in Seq(Stored) /\ alerts' \in Seq(Stored)
  BY HistoryTypesFacts DEF HistoryInv, HistoryTypes
<1>2. \A i \in DOMAIN alerts : H!At(i)' = H!At(i)
  BY DEF H!At
<1>3. \A p \in DOMAIN shown : shown[p] # {} => H!Earliest(shown[p])' = H!Earliest(shown[p])
  BY <1>1, EarliestStays
<1>4. \A i \in listed : (Covered(i)' <=> Covered(i)) /\ (H!Cut(i)' <=> H!Cut(i))
  <2> SUFFICES ASSUME NEW i \in listed PROVE (Covered(i)' <=> Covered(i)) /\ (H!Cut(i)' <=> H!Cut(i))
    OBVIOUS
  <2>1. \A p \in DOMAIN shown : p # Len(shown) => H!Earliest(shown[p])' = H!Earliest(shown[p])
    BY <1>3 DEF HistoryInv, PagesFull
  <2>2. H!At(i)' = H!At(i)
    BY <1>1, <1>2
  <2>3. CutBefore(i)' <=> CutBefore(i)
    BY <2>1, <2>2 DEF CutBefore
  <2>4. (H!Cut(i) <=> CutBefore(i)) /\ (H!Cut(i)' <=> CutBefore(i)')
    <3>1. H!Cut(i) <=> CutBefore(i)
      BY CutIsBefore DEF HistoryInv, HistoryTypes
    <3>2. H!Cut(i)' <=> CutBefore(i)'
      BY <3>1 DEF H!Cut, CutBefore
    <3> QED
      BY <3>1, <3>2
  <2> QED
    BY <2>3, <2>4 DEF Covered
<1>5. ASSUME reader.asks = "more" PROVE Reading'
  <2>1. Reading
    BY <1>5 DEF HistoryInv
  <2>2. shown # <<>> => Len(shown) \in DOMAIN shown /\ H!Earliest(shown[Len(shown)])' = H!Earliest(shown[Len(shown)])
    BY <2>1, <1>1, <1>3 DEF Reading
  <2>3. \A i \in listed : alerts'[i].symbol \in reader.symbols /\ Accounted(i)'
    BY <1>1, <1>2, <1>4, <2>1, <2>2 DEF Reading, Accounted, AtEdge
  <2>4. \A p \in DOMAIN shown : shown[p] # {} /\ \A i \in shown[p] : H!At(i)' >= reader.cursor
    BY <1>1, <1>2, <2>1 DEF Reading
  <2> QED
    BY <2>1, <2>2, <2>3, <2>4 DEF Reading
<1> QED
  BY <1>4, <1>5 DEF HistoryInv, PagesDiffer, PagesFull

\* The latest n of a finite set of rows: all of them, or the n that none of the
\* others is later than.
LEMMA LatestRows ==
  ASSUME NEW A, IsFiniteSet(A), NEW n \in Nat, NEW t \in H!Latest(A, n)
  PROVE  /\ t \subseteq A /\ IsFiniteSet(t) /\ Cardinality(t) \in Nat /\ Cardinality(A) \in Nat
         /\ Cardinality(t) = IF n < Cardinality(A) THEN n ELSE Cardinality(A)
         /\ Cardinality(t) < n => t = A
         /\ Cardinality(A) <= n => t = A
         /\ \A i \in t, j \in A \ t : H!At(i) >= H!At(j)
<1>1. /\ t \in SUBSET A /\ Cardinality(t) = IF n < Cardinality(A) THEN n ELSE Cardinality(A)
      /\ \A i \in t, j \in A \ t : H!At(i) >= H!At(j)
  BY SameCardinality DEF H!Latest
<1>2. IsFiniteSet(t) /\ (Cardinality(A) = Cardinality(t) => t = A) /\ Cardinality(A) \in Nat /\ Cardinality(t) \in Nat
  BY <1>1, FS_Subset, FS_CardinalityType
<1> QED
  BY <1>1, <1>2

LEMMA OpenKeeps ==
  ASSUME HistoryInv, NEW limit \in Limits, NEW symbols \in SUBSET Basket, H!Open(limit, symbols)
  PROVE  HistoryInv'
<1>1. /\ reader' = [asks |-> "more", limit |-> limit, symbols |-> symbols, cursor |-> H!NoCursor]
      /\ shown' = <<>> /\ listed' = {i \in DOMAIN alerts : alerts[i].symbol \in symbols}
      /\ UNCHANGED <<clock, alerts>>
  BY DEF H!Open
<1>2. DOMAIN shown' = {} /\ Len(shown') = 0 /\ shown' \in Seq(SUBSET Nat)
  BY <1>1
<1>3. /\ clock \in 0..MaxClock /\ MaxClock \in Nat /\ \A i \in DOMAIN alerts : H!At(i) \in 0..clock
  BY HistoryTypesFacts DEF HistoryInv
<1>4. HistoryTypes'
  <2>1. H!NoCursor \in 0..H!NoCursor
    BY <1>3 DEF H!NoCursor
  <2>2. reader' \in [asks : {"more"}, limit : Limits, symbols : SUBSET Basket, cursor : 0..H!NoCursor]
    BY <1>1, <2>1
  <2> QED
    BY <1>1, <1>2, <2>2 DEF HistoryInv, HistoryTypes, H!TypeOK, H!NoCursor
<1>5. Reading'
  <2>1. \A i \in listed' : /\ i \in DOMAIN alerts /\ alerts'[i].symbol \in reader'.symbols
                            /\ H!At(i)' = H!At(i) /\ H!At(i) < reader'.cursor
    BY <1>1, <1>3 DEF H!NoCursor, H!At
  <2> QED
    BY <1>1, <1>2, <2>1 DEF Reading, Accounted
<1>6. reader'.asks = "more"
  BY <1>1
<1> QED
  BY <1>2, <1>4, <1>5, <1>6 DEF HistoryInv, PagesDiffer, PagesFull, H!Idle

LEMMA GetPageKeeps ==
  ASSUME HistoryInv, H!GetPage
  PROVE  HistoryInv'
<1>1. reader.asks = "more" /\ UNCHANGED <<clock, alerts, listed>> /\ Reading
  BY DEF H!GetPage, HistoryInv
<1>2. PICK rows \in H!Latest(H!Where, reader.limit + 1) : \E page \in H!Latest(rows, reader.limit) :
        /\ shown' = Append(shown, page)
        /\ reader' = IF Cardinality(rows) > reader.limit
                     THEN [reader EXCEPT !.cursor = H!Cursor(page, rows)] ELSE H!Idle
  BY SameCardinality DEF H!GetPage
<1>3. PICK page \in H!Latest(rows, reader.limit) :
        /\ shown' = Append(shown, page)
        /\ reader' = IF Cardinality(rows) > reader.limit
                     THEN [reader EXCEPT !.cursor = H!Earliest(page)] ELSE H!Idle
  BY <1>2 DEF H!Cursor
<1>4. /\ reader \in [asks : {"more"}, limit : Limits, symbols : SUBSET Basket, cursor : 0..H!NoCursor]
      /\ reader.limit \in Nat \ {0} /\ reader.cursor \in Nat
  <2>1. H!Idle.asks # "more"
    BY DEF H!Idle
  <2>2. reader \in [asks : {"more"}, limit : Limits, symbols : SUBSET Basket, cursor : 0..H!NoCursor]
    BY <1>1, <2>1 DEF HistoryInv, HistoryTypes, H!TypeOK
  <2>3. H!NoCursor \in Nat
    BY HistoryAssumption DEF H!NoCursor
  <2>4. reader.limit \in Limits /\ reader.cursor \in 0..H!NoCursor
    BY <2>2
  <2>5. reader.limit \in Nat \ {0}
    BY <2>4, HistoryAssumption
  <2>6. reader.cursor \in Nat
    BY <2>3, <2>4
  <2> QED
    BY <2>2, <2>5, <2>6
<1>5. /\ DOMAIN alerts = 1..Len(alerts) /\ Len(alerts) \in Nat /\ alerts \in Seq(Stored)
      /\ \A i \in DOMAIN alerts : H!At(i) \in Nat
      /\ DOMAIN shown = 1..Len(shown) /\ Len(shown) \in Nat /\ shown \in Seq(SUBSET Nat)
      /\ \A p \in DOMAIN shown : shown[p] \in SUBSET DOMAIN alerts
      /\ listed \subseteq DOMAIN alerts /\ MaxClock \in Nat /\ \A i \in DOMAIN alerts : H!At(i) <= MaxClock
  BY HistoryTypesFacts DEF HistoryInv, HistoryTypes
<1>6. H!Where \subseteq DOMAIN alerts /\ IsFiniteSet(H!Where)
  <2>1. IsFiniteSet(DOMAIN alerts) /\ H!Where \in SUBSET DOMAIN alerts
    BY <1>5, FS_Interval DEF H!Where
  <2> QED
    BY <2>1, FS_Subset
<1>7. /\ rows \subseteq H!Where /\ IsFiniteSet(rows) /\ Cardinality(rows) \in Nat
      /\ Cardinality(rows) < reader.limit + 1 => rows = H!Where
      /\ \A i \in rows, j \in H!Where \ rows : H!At(i) >= H!At(j)
  BY <1>4, <1>6, LatestRows
<1>8. /\ page \subseteq rows /\ IsFiniteSet(page) /\ Cardinality(page) \in Nat
      /\ Cardinality(page) = IF reader.limit < Cardinality(rows) THEN reader.limit ELSE Cardinality(rows)
      /\ Cardinality(rows) <= reader.limit => page = rows
      /\ \A i \in page, j \in rows \ page : H!At(i) >= H!At(j)
  BY <1>4, <1>7, LatestRows
<1>9. /\ page \in SUBSET DOMAIN alerts /\ \A i \in page : H!At(i) < reader.cursor
      /\ \A i \in page, j \in H!Where \ page : H!At(i) >= H!At(j)
  BY <1>6, <1>7, <1>8 DEF H!Where
<1>10. /\ shown' \in Seq(SUBSET Nat) /\ Len(shown') = Len(shown) + 1
       /\ DOMAIN shown' = 1..(Len(shown) + 1) /\ shown'[Len(shown) + 1] = page
       /\ \A p \in DOMAIN shown : shown'[p] = shown[p]
  <2>1. page \in SUBSET Nat
    BY <1>5, <1>9
  <2> QED
    BY <1>3, <1>5, <2>1
<1>11. /\ \A i : H!At(i)' = H!At(i)
       /\ \A t : H!Earliest(t)' = H!Earliest(t)
  BY <1>1 DEF H!At, H!Earliest
<1>12. PagesDiffer'
  <2>1. \A p \in DOMAIN shown : shown[p] \cap page = {}
    BY <1>1, <1>4, <1>5, <1>9 DEF Reading
  <2> QED
    BY <1>5, <1>10, <2>1 DEF HistoryInv, PagesDiffer
<1>13. PagesFull'
  <2>1. \A p \in DOMAIN shown' : p # Len(shown') => p \in DOMAIN shown
    BY <1>5, <1>10
  <2> QED
    BY <2>1, <1>1, <1>10 DEF PagesFull, Reading
<1>14. HistoryTypes' 
  <2>1. reader' = H!Idle \/ reader' \in [asks : {"more"}, limit : Limits, symbols : SUBSET Basket, cursor : 0..H!NoCursor]
    <3>1. CASE Cardinality(rows) > reader.limit
      <4>1. page # {}
        BY <3>1, <1>4, <1>8, FS_EmptySet
      <4>2. H!Earliest(page) \in 0..H!NoCursor
        BY <4>1, <1>5, <1>9, EarliestIsLeast DEF H!NoCursor
      <4> QED
        BY <4>2, <3>1, <1>3, <1>4
    <3>2. CASE ~(Cardinality(rows) > reader.limit)
      BY <3>2, <1>3
    <3> QED
      BY <3>1, <3>2
  <2>2. \A p \in DOMAIN shown' : shown'[p] \subseteq DOMAIN alerts
    BY <1>5, <1>9, <1>10
  <2> QED
    BY <1>1, <1>10, <2>1, <2>2 DEF HistoryInv, HistoryTypes, H!TypeOK, H!NoCursor
<1>20. \A i : H!Cut(i)' <=> CutBefore(i)'
  <2>1. Len(shown') \in Nat /\ DOMAIN shown' = 1..Len(shown')
    BY <1>5, <1>10
  <2>2. ASSUME NEW n \in Nat PROVE \A p : p \in 1..(n - 1) <=> p \in 1..n /\ p # n
    OBVIOUS
  <2>3. \A p : p \in 1..(Len(shown') - 1) <=> p \in DOMAIN shown' /\ p # Len(shown')
    BY <2>1, <2>2
  <2> QED
    BY <2>3 DEF H!Cut, CutBefore
\* What was cut off before is no page's last any more, and stays cut off.
<1>15. \A i \in listed : (Covered(i) => Covered(i)') /\ (H!Cut(i) \/ AtEdge(i) => H!Cut(i)')
  <2> SUFFICES ASSUME NEW i \in listed
               PROVE  (Covered(i) => Covered(i)') /\ (H!Cut(i) \/ AtEdge(i) => H!Cut(i)')
    OBVIOUS
  <2>1. Covered(i) => Covered(i)'
    BY <1>5, <1>10 DEF Covered
  <2>2. \A p \in DOMAIN shown : p \in DOMAIN shown' /\ p # Len(shown') /\ shown'[p] = shown[p]
    BY <1>5, <1>10
  <2>3. H!Cut(i) => CutBefore(i)'
    <3>1. H!Cut(i) => CutBefore(i)
      BY <1>5, CutIsBefore
    <3> QED
      BY <3>1, <2>2, <1>11 DEF CutBefore
  <2>4. AtEdge(i) => CutBefore(i)'
    <3>1. shown # <<>> => Len(shown) \in DOMAIN shown
      BY <1>5
    <3> QED
      BY <3>1, <2>2, <1>11 DEF AtEdge, CutBefore
  <2> QED
    BY <2>1, <2>3, <2>4, <1>20
<1>16. \A i \in listed : Covered(i)' \/ H!Cut(i)' \/ i \in H!Where
  BY <1>1, <1>5, <1>15 DEF Reading, Accounted, H!Where
<1>17. \A i \in page : Covered(i)'
  BY <1>10 DEF Covered
<1>18. CASE Cardinality(rows) > reader.limit
  <2>1. page # {}
    BY <1>18, <1>4, <1>8, FS_EmptySet
  <2>2. /\ reader' = [reader EXCEPT !.cursor = H!Earliest(page)]
        /\ reader'.cursor = H!Earliest(page) /\ reader'.asks = "more" /\ reader'.symbols = reader.symbols
    BY <1>18, <1>3, <1>4
  <2>3. /\ H!Earliest(page) \in Nat /\ \A i \in page : H!Earliest(page) <= H!At(i)
        /\ \E i \in page : H!At(i) = H!Earliest(page)
    BY <2>1, <1>5, <1>9, EarliestIsLeast
  <2>4. \A p \in DOMAIN shown' : shown'[p] # {} /\ \A i \in shown'[p] : H!At(i)' >= reader'.cursor
    <3> SUFFICES ASSUME NEW p \in DOMAIN shown'
                 PROVE  shown'[p] # {} /\ \A i \in shown'[p] : H!At(i) >= H!Earliest(page)
      BY <1>11, <2>2
    <3>1. CASE p = Len(shown) + 1
      BY <3>1, <1>10, <2>1, <2>3, <1>5, <1>9
    <3>2. CASE p \in DOMAIN shown
      <4>1. H!Earliest(page) <= reader.cursor
        BY <1>4, <1>5, <1>9, <2>3
      <4>2. shown[p] # {} /\ \A i \in shown[p] : H!At(i) >= reader.cursor /\ H!At(i) \in Nat
        BY <3>2, <1>1, <1>5 DEF Reading
      <4> QED
        BY <3>2, <4>1, <4>2, <2>3, <1>4, <1>10
    <3> QED
      BY <3>1, <3>2, <1>5, <1>10
  <2>5. ASSUME NEW i \in listed PROVE Accounted(i)'
    <3>1. CASE i \in H!Where \ page
      <4>1. H!At(i) <= H!Earliest(page)
        BY <3>1, <1>9, <2>3
      <4>2. H!At(i) < H!Earliest(page) \/ H!At(i) = H!Earliest(page)
        BY <4>1, <2>3, <1>5
      <4>3. H!At(i) = H!Earliest(page) => AtEdge(i)'
        BY <3>1, <1>10, <1>11 DEF AtEdge
      <4> QED
        BY <4>2, <4>3, <2>2, <1>11 DEF Accounted
    <3> QED
      BY <3>1, <1>16, <1>17 DEF Accounted
  <2>6. Reading'
    BY <1>1, <1>10, <1>11, <2>2, <2>4, <2>5 DEF Reading
  <2> QED
    BY <1>12, <1>13, <1>14, <2>2, <2>6 DEF HistoryInv, H!Idle
<1>19. CASE ~(Cardinality(rows) > reader.limit)
  <2>1. page = H!Where
    BY <1>19, <1>4, <1>7, <1>8
  <2>2. \A i \in listed : H!Cut(i)' \/ Covered(i)'
    BY <2>1, <1>16, <1>17
  <2>3. reader' = H!Idle /\ H!Idle.asks # "more"
    BY <1>19, <1>3 DEF H!Idle
  <2> QED
    BY <1>1, <1>12, <1>13, <1>14, <2>2, <2>3 DEF HistoryInv
<1> QED
  BY <1>18, <1>19

LEMMA HistoryNext ==
  ASSUME HistoryInv, [H!Next]_historyVars
  PROVE  HistoryInv'
<1>1. CASE UNCHANGED historyVars
  <2>1. HistoryTypes'
    BY <1>1 DEF historyVars, HistoryInv, HistoryTypes, H!TypeOK
  <2> QED
    BY <1>1, <2>1, RowsStay DEF historyVars
<1>2. CASE H!Elapse
  <2>1. clock' \in 0..MaxClock /\ 0..clock \subseteq 0..clock'
    BY <1>2, HistoryTypesFacts DEF HistoryInv, H!Elapse
  <2>2. HistoryTypes'
    <3>1. \A i \in DOMAIN alerts : alerts'[i] \in [symbol : Basket, createdAt : 0..clock']
      BY <1>2, <2>1 DEF H!Elapse, HistoryInv, HistoryTypes, H!TypeOK
    <3> QED
      BY <1>2, <2>1, <3>1 DEF H!Elapse, HistoryInv, HistoryTypes, H!TypeOK
  <2> QED
    BY <1>2, <2>2, RowsStay DEF H!Elapse
<1>3. ASSUME NEW s \in Basket, H!Store(s) PROVE HistoryInv'
  <2> DEFINE row == [symbol |-> s, createdAt |-> clock]
  <2>1. /\ Len(alerts) < MaxAlerts /\ alerts' = Append(alerts, row)
        /\ UNCHANGED <<clock, reader, shown, listed>> /\ alerts \in Seq(Stored)
        /\ clock \in 0..clock /\ clock \in Nat /\ Len(alerts) \in Nat /\ MaxAlerts \in Nat
    BY <1>3, HistoryTypesFacts, HistoryAssumption DEF H!Store, HistoryInv, HistoryTypes
  <2>2. row \in Stored /\ row \in [symbol : Basket, createdAt : 0..clock]
    BY <2>1 DEF Stored
  <2> HIDE DEF row
  <2>3. /\ alerts' \in Seq(Stored) /\ Len(alerts') = Len(alerts) + 1 /\ DOMAIN alerts = 1..Len(alerts)
        /\ DOMAIN alerts' = 1..(Len(alerts) + 1) /\ alerts'[Len(alerts) + 1] = row
        /\ \A i \in DOMAIN alerts : alerts'[i] = alerts[i]
    BY <2>1, <2>2
  <2>4. DOMAIN alerts \subseteq DOMAIN alerts' /\ Len(alerts') <= MaxAlerts
    BY <2>1, <2>3
  <2>5. \A i \in DOMAIN alerts' : alerts'[i] \in [symbol : Basket, createdAt : 0..clock]
    BY <2>2, <2>3 DEF HistoryInv, HistoryTypes, H!TypeOK
  <2>6. HistoryTypes'
    BY <2>1, <2>3, <2>4, <2>5 DEF HistoryInv, HistoryTypes, H!TypeOK
  <2> QED
    BY <2>1, <2>3, <2>4, <2>6, RowsStay
<1>4. ASSUME NEW limit \in Limits, NEW symbols \in {Basket} \cup {{s} : s \in Basket}, H!Open(limit, symbols)
      PROVE  HistoryInv'
  BY <1>4, OpenKeeps
<1> QED
  BY <1>1, <1>2, <1>3, <1>4, GetPageKeeps DEF H!Next

LEMMA HistoryGoal == HistoryInv => H!TypeOK /\ H!PagesLoseNothing
  BY DEF HistoryInv, HistoryTypes, H!PagesLoseNothing, PagesDiffer, Covered

-----------------------------------------------------------------------------
(***************************************************************************)
(* All of them                                                              *)
(***************************************************************************)

\* The inductive invariant of the run: every part's own.
AllInv == WindowInv /\ CorrelationInv /\ IInv /\ Limiter /\ HistoryInv

LEMMA AllInit == InitOfOne => AllInv
<1> SUFFICES ASSUME InitOfOne PROVE AllInv
  OBVIOUS
<1>1. Bounds
  BY ApiAssumption DEF Bounds
<1>2. S!Init /\ C!Init /\ Init /\ H!Init
  BY DEF InitOfOne
<1>3. Limiter
  BY <1>1, <1>2, InitLimiter
<1> QED
  BY <1>1, <1>2, <1>3, WindowInit, CorrelationInit, InitIInv, HistoryInit DEF AllInv, Bounds

LEMMA AllNext == AllInv /\ [NextOfOne]_allVars => AllInv'
<1> SUFFICES ASSUME AllInv, [NextOfOne]_allVars PROVE AllInv'
  OBVIOUS
<1>1. Bounds
  BY ApiAssumption DEF Bounds
<1>2. /\ S!Next \/ UNCHANGED windowVars
      /\ C!Next \/ UNCHANGED correlationVars
      /\ Next \/ UNCHANGED vars
      /\ H!Next \/ UNCHANGED historyVars
  BY DEF NextOfOne, allVars
<1>3. WindowInv' /\ CorrelationInv' /\ HistoryInv'
  BY <1>2, WindowNext, CorrelationNext, HistoryNext DEF AllInv
<1>4. IInv' /\ Limiter'
  BY <1>1, <1>2, NextIInv, LimiterNext DEF AllInv, Bounds
<1> QED
  BY <1>3, <1>4 DEF AllInv

LEMMA AllInvHolds == SpecOfOne => []AllInv
  BY AllInit, AllNext, PTL DEF SpecOfOne

\* Every variable keeps its type; the sidecar's window grows past its size only
\* by what threads are about to trim, and the limiter's bucket never past what
\* it admits.
THEOREM ServingTypesHold == SpecOfOne => []TypesOK
<1>1. AllInv => TypesOK
  BY WindowGoal, HistoryGoal DEF AllInv, CorrelationInv, IInv, Types, Limiter, Most, TypeOK, TypesOK
<1> QED
  BY <1>1, AllInvHolds, PTL

\* The window never holds a tick twice, however threads interleave and whichever
\* requests are lost or late (index.ts sends what is newer than the last flush).
THEOREM TicksAreFedOnce == SpecOfOne => []NoTickTwice
<1>1. AllInv => NoTickTwice
  BY WindowGoal DEF AllInv, NoTickTwice
<1> QED
  BY <1>1, AllInvHolds, PTL

\* A score marked ready was made from a full window, unless a reset came between
\* the check and the score (server.py).
THEOREM ReadyIsFull == SpecOfOne => []ReadyIsFullUnlessReset
<1>1. AllInv => ReadyIsFullUnlessReset
  BY WindowGoal DEF AllInv, ReadyIsFullUnlessReset
<1> QED
  BY <1>1, AllInvHolds, PTL

\* Counted from their ends, the series of all symbols hold the returns of the
\* same seconds, whenever a symbol was first seen (correlation detector).
THEOREM SeriesAreAligned == SpecOfOne => []SeriesAligned
<1>1. AllInv => SeriesAligned
  BY DEF AllInv, CorrelationInv, SeriesAligned
<1> QED
  BY <1>1, AllInvHolds, PTL

\* A correlation alert comes after SustainBins low results in a row, and it has
\* come, within the cooldown, when SustainBins seconds had a low one and no high
\* one came between (evaluate in correlation.ts and the trade handler).
THEOREM SustainedLowsAlert == SpecOfOne => []SustainedLowAlerts
<1>1. AllInv => SustainedLowAlerts
  BY DEF AllInv, CorrelationInv, SustainedLowAlerts
<1> QED
  BY <1>1, AllInvHolds, PTL

\* A reader who pages to the end sees every row of the list it opened once,
\* but for those cut off with the time of a page's last row.
THEOREM PagesAreComplete == SpecOfOne => []PagesLoseNothing
<1>1. AllInv => PagesLoseNothing
  BY HistoryGoal DEF AllInv, PagesLoseNothing
<1> QED
  BY <1>1, AllInvHolds, PTL
=============================================================================
