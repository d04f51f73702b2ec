-------------------------- MODULE FeedHealthProofs --------------------------
(***************************************************************************)
(* Proof that the dashboards show the feed as it is, for any number of      *)
(* tabs, messages on their way, lost connections and restarts.  The event   *)
(* that decides what a tab will show is the last one on its way to it.      *)
(***************************************************************************)
EXTENDS FeedHealth, SequenceTheorems, TLAPS

Hears(t) == t \in link /\ ws = "open"

Types == /\ ws \in {"connecting", "open", "closed"} /\ link \subseteq Tabs
         /\ inbox \in [Tabs -> Seq(Events)] /\ shown \in [Tabs -> BOOLEAN]

\* The inductive invariant: a tab's last event tells it whether it hears the
\* feed; without one it knows.
IInv == /\ Types
        /\ \A t \in Tabs : IF inbox[t] = <<>> THEN shown[t] = Hears(t)
                           ELSE ShownAs(inbox[t][Len(inbox[t])]) = Hears(t)

\* What the heartbeat and the connection's handlers send is an event that
\* shows the connection to Binance as the step leaves it.
LEMMA StatusShows ==
  \A stale \in BOOLEAN : Status(stale) \in Events /\ ShownAs(Status(stale)) = (ws' = "open")
  BY DEF Status, Events, ShownAs

LEMMA OthersShow ==
  /\ Connected \in Events /\ Disconnected \in Events
  /\ ShownAs(Connected) = TRUE /\ ShownAs(Disconnected) = FALSE
  BY DEF Connected, Disconnected, Events, ShownAs

\* The last element of a short sequence, and of a sequence that loses its first.
LEMMA LastOfOne ==
  ASSUME NEW S, NEW a \in S
  PROVE  <<a>> \in Seq(S) /\ <<a>> # <<>> /\ <<a>>[Len(<<a>>)] = a
  OBVIOUS

LEMMA LastOfTwo ==
  ASSUME NEW S, NEW a \in S, NEW b \in S
  PROVE  <<a, b>> \in Seq(S) /\ <<a, b>> # <<>> /\ <<a, b>>[Len(<<a, b>>)] = b
  OBVIOUS

LEMMA LastOfTail ==
  ASSUME NEW S, NEW q \in Seq(S), q # <<>>
  PROVE  /\ Head(q) \in S /\ Tail(q) \in Seq(S)
         /\ Tail(q) = <<>> => Head(q) = q[Len(q)]
         /\ Tail(q) # <<>> => Tail(q)[Len(Tail(q))] = q[Len(q)]
<1>1. Head(q) = q[1] /\ Head(q) \in S /\ Tail(q) \in Seq(S) /\ Len(Tail(q)) = Len(q) - 1
      /\ Len(q) \in Nat \ {0} /\ \A i \in 1..(Len(q) - 1) : Tail(q)[i] = q[i + 1]
  BY HeadTailProperties
<1>2. ASSUME Tail(q) = <<>> PROVE Len(q) = 1
  <2>1. Len(Tail(q)) = 0
    BY <1>2, EmptySeq
  <2> DEFINE k == Len(q) l == Len(Tail(q))
  <2>2. l = k - 1 /\ k \in Nat /\ l = 0
    BY <1>1, <2>1
  <2> HIDE DEF k, l
  <2>3. k = 1
    BY <2>2
  <2> QED
    BY <2>3 DEF k
<1>3. Tail(q) # <<>> => Len(Tail(q)) # 0
  BY <1>1, EmptySeq
<1> QED
  BY <1>1, <1>2, <1>3

\* A step that broadcasts the status and changes nothing else of the sockets
\* keeps the invariant.
LEMMA BroadcastKeepsIInv ==
  ASSUME IInv, NEW stale \in BOOLEAN, Broadcast(Status(stale)),
         ws' \in {"connecting", "open", "closed"}, UNCHANGED <<link, shown>>
  PROVE  IInv'
<1> DEFINE m == Status(stale)
<1>1. m \in Events /\ ShownAs(m) = (ws' = "open")
  BY StatusShows
<1>2. inbox' = [t \in Tabs |-> IF t \in link THEN Append(inbox[t], m) ELSE inbox[t]]
  BY DEF Broadcast
<1> HIDE DEF m
<1>3. Types'
  BY <1>1, <1>2 DEF IInv, Types
<1>4. ASSUME NEW t \in Tabs
      PROVE  IF inbox'[t] = <<>> THEN shown'[t] = Hears(t)'
             ELSE ShownAs(inbox'[t][Len(inbox'[t])]) = Hears(t)'
  <2>1. CASE t \in link
    <3>1. inbox'[t] = Append(inbox[t], m) /\ inbox[t] \in Seq(Events)
      BY <1>2, <2>1 DEF IInv, Types
    <3>2. inbox'[t] # <<>> /\ inbox'[t][Len(inbox'[t])] = m
      BY <3>1, <1>1
    <3> QED
      BY <3>2, <1>1, <2>1 DEF Hears
  <2>2. CASE t \notin link
    <3>1. inbox'[t] = inbox[t] /\ shown'[t] = shown[t] /\ Hears(t) = FALSE /\ Hears(t)' = FALSE
      BY <1>2, <2>2 DEF Hears
    <3> QED
      BY <3>1 DEF IInv
  <2> QED
    BY <2>1, <2>2
<1> QED
  BY <1>3, <1>4 DEF IInv

\* Nor does a step that leaves the sockets, and what is heard, as they are.
LEMMA QuietKeepsIInv ==
  ASSUME IInv, UNCHANGED <<link, inbox, shown>>,
         ws' \in {"connecting", "open", "closed"}, (ws' = "open") = (ws = "open")
  PROVE  IInv'
  BY DEF IInv, Types, Hears

LEMMA InitIInv == Init => IInv
<1> SUFFICES ASSUME Init PROVE IInv
  OBVIOUS
<1>1. <<>> \in Seq(Events)
  OBVIOUS
<1>2. Types
  BY <1>1 DEF Init, Types
<1>3. \A t \in Tabs : inbox[t] = <<>> /\ shown[t] = FALSE /\ Hears(t) = FALSE
  BY DEF Init, Hears
<1> QED
  BY <1>2, <1>3 DEF IInv

LEMMA NextIInv == IInv /\ [Next]_vars => IInv'
<1> SUFFICES ASSUME IInv, [Next]_vars PROVE IInv'
  OBVIOUS
<1>0. ws \in {"connecting", "open", "closed"}
  BY DEF IInv, Types
<1>1. CASE Opened
  BY <1>1, BroadcastKeepsIInv DEF Opened
<1>2. CASE Closed
  BY <1>2, BroadcastKeepsIInv DEF Closed
<1>3. CASE ConnectBinance
  BY <1>3, QuietKeepsIInv DEF ConnectBinance
<1>4. CASE AnchorDepth
  BY <1>4, <1>0, QuietKeepsIInv DEF AnchorDepth
<1>5. CASE Elapse
  BY <1>5, <1>0, QuietKeepsIInv DEF Elapse
<1>6. CASE Heartbeat
  <2>1. CASE Stale
    BY <1>6, <2>1, <1>0, BroadcastKeepsIInv DEF Heartbeat
  <2>2. CASE ~Stale
    BY <1>6, <2>2, <1>0, QuietKeepsIInv DEF Heartbeat
  <2> QED
    BY <2>1, <2>2
<1>7. CASE Restart
  <2>1. Types'
    BY <1>7, OthersShow DEF Restart, IInv, Types
  <2>2. ASSUME NEW t \in Tabs
        PROVE  IF inbox'[t] = <<>> THEN shown'[t] = Hears(t)'
               ELSE ShownAs(inbox'[t][Len(inbox'[t])]) = Hears(t)'
    <3>1. Hears(t)' = FALSE
      BY <1>7 DEF Restart, Hears
    <3>2. CASE t \in link
      BY <1>7, <3>1, <3>2, OthersShow DEF Restart
    <3>3. CASE t \notin link
      BY <1>7, <3>1, <3>3 DEF Restart, IInv, Hears
    <3> QED
      BY <3>2, <3>3
  <2> QED
    BY <2>1, <2>2 DEF IInv
<1>8. ASSUME NEW t \in Tabs, Connect(t) PROVE IInv'
  <2>1. inbox' = [inbox EXCEPT ![t] = <<Connected, Status(FALSE)>>] /\ link' = link \cup {t}
        /\ ws' = ws /\ shown' = shown
    BY <1>8 DEF Connect
  <2>2. Status(FALSE) \in Events /\ ShownAs(Status(FALSE)) = (ws' = "open")
    BY StatusShows
  <2> DEFINE m == Status(FALSE)
  <2>m. /\ <<Connected, m>> \in Seq(Events) /\ <<Connected, m>> # <<>>
        /\ <<Connected, m>>[Len(<<Connected, m>>)] = m
    BY <2>2, OthersShow, LastOfTwo
  <2> DEFINE q == <<Connected, m>>
  <2>q. inbox' = [inbox EXCEPT ![t] = q] /\ q \in Seq(Events)
    BY <2>1, <2>m
  <2> HIDE DEF q
  <2>3. Types'
    BY <2>1, <2>q, <1>0 DEF IInv, Types
  <2>4. ASSUME NEW u \in Tabs
        PROVE  IF inbox'[u] = <<>> THEN shown'[u] = Hears(u)'
               ELSE ShownAs(inbox'[u][Len(inbox'[u])]) = Hears(u)'
    <3>1. CASE u = t
      <4>1. inbox'[u] = q /\ Hears(u)' = (ws' = "open")
        BY <2>1, <2>q, <3>1 DEF IInv, Types, Hears
      <4>2. q # <<>> /\ ShownAs(q[Len(q)]) = (ws' = "open")
        BY <2>m, <2>2 DEF q
      <4> QED
        BY <4>1, <4>2
    <3>2. CASE u # t
      <4>1. inbox'[u] = inbox[u] /\ shown'[u] = shown[u] /\ Hears(u)' = Hears(u)
        BY <2>1, <3>2 DEF IInv, Types, Hears
      <4> QED
        BY <4>1 DEF IInv
    <3> QED
      BY <3>1, <3>2
  <2> QED
    BY <2>3, <2>4 DEF IInv
<1>9. ASSUME NEW t \in Tabs, DropSocket(t) PROVE IInv'
  <2>1. inbox' = [inbox EXCEPT ![t] = <<Disconnected>>] /\ link' = link \ {t}
        /\ ws' = ws /\ shown' = shown
    BY <1>9 DEF DropSocket
  <2>d. /\ <<Disconnected>> \in Seq(Events) /\ <<Disconnected>> # <<>>
        /\ ShownAs(<<Disconnected>>[Len(<<Disconnected>>)]) = FALSE
    BY OthersShow, LastOfOne
  <2>2. Types'
    BY <2>1, <2>d, <1>0 DEF IInv, Types
  <2>3. ASSUME NEW u \in Tabs
        PROVE  IF inbox'[u] = <<>> THEN shown'[u] = Hears(u)'
               ELSE ShownAs(inbox'[u][Len(inbox'[u])]) = Hears(u)'
    <3>1. CASE u = t
      <4>1. inbox'[u] = <<Disconnected>> /\ Hears(u)' = FALSE
        BY <2>1, <3>1 DEF IInv, Types, Hears
      <4> QED
        BY <4>1, <2>d
    <3>2. CASE u # t
      <4>1. inbox'[u] = inbox[u] /\ shown'[u] = shown[u] /\ Hears(u)' = Hears(u)
        BY <2>1, <3>2 DEF IInv, Types, Hears
      <4> QED
        BY <4>1 DEF IInv
    <3> QED
      BY <3>1, <3>2
  <2> QED
    BY <2>2, <2>3 DEF IInv
<1>10. ASSUME NEW t \in Tabs, Receive(t) PROVE IInv'
  <2> DEFINE q == inbox[t]
  <2>1. q \in Seq(Events) /\ q # <<>>
    BY <1>10 DEF Receive, IInv, Types
  <2>2. /\ inbox' = [inbox EXCEPT ![t] = Tail(q)]
        /\ shown' = [shown EXCEPT ![t] = ShownAs(Head(q))] /\ UNCHANGED <<ws, link>>
    BY <1>10 DEF Receive
  <2>3. Head(q) \in Events /\ Tail(q) \in Seq(Events)
    BY <2>1, LastOfTail
  <2>4. ShownAs(Head(q)) \in BOOLEAN
    BY DEF ShownAs
  <2>5. Types'
    BY <2>2, <2>3, <2>4, <1>0 DEF IInv, Types
  <2>6. ASSUME NEW u \in Tabs
        PROVE  IF inbox'[u] = <<>> THEN shown'[u] = Hears(u)'
               ELSE ShownAs(inbox'[u][Len(inbox'[u])]) = Hears(u)'
    <3>1. Hears(u)' = Hears(u)
      BY <2>2 DEF Hears
    <3>2. CASE u = t
      <4>1. inbox'[u] = Tail(q) /\ shown'[u] = ShownAs(Head(q)) /\ ShownAs(q[Len(q)]) = Hears(u)
        BY <2>1, <2>2, <3>2 DEF IInv, Types
      <4>2. CASE Tail(q) = <<>>
        <5>1. Head(q) = q[Len(q)]
          BY <2>1, <4>2, LastOfTail
        <5> QED
          BY <5>1, <4>1, <4>2, <3>1
      <4>3. CASE Tail(q) # <<>>
        <5>1. Tail(q)[Len(Tail(q))] = q[Len(q)]
          BY <2>1, <4>3, LastOfTail
        <5> QED
          BY <5>1, <4>1, <4>3, <3>1
      <4> QED
        BY <4>2, <4>3
    <3>3. CASE u # t
      <4>1. inbox'[u] = inbox[u] /\ shown'[u] = shown[u]
        BY <2>2, <3>3 DEF IInv, Types
      <4> QED
        BY <4>1, <3>1 DEF IInv
    <3> QED
      BY <3>2, <3>3
  <2> QED
    BY <2>5, <2>6 DEF IInv
<1>11. CASE UNCHANGED vars
  BY <1>11, <1>0, QuietKeepsIInv DEF vars
<1> QED
  BY <1>1, <1>2, <1>3, <1>4, <1>5, <1>6, <1>7, <1>8, <1>9, <1>10, <1>11 DEF Next

\* "a dark dashboard must be distinguishable from calm": once a tab has handled
\* its events it shows the connection to Binance as it is.
THEOREM DashboardsShowTheFeed == Spec => []ShowsTheFeed
<1>1. IInv => ShowsTheFeed
  BY DEF IInv, Types, ShowsTheFeed, Hears
<1> QED
  BY InitIInv, NextIInv, <1>1, PTL DEF Spec

-----------------------------------------------------------------------------
(* Types and bounds *)

Bounds == {StaleAfter, BeatEvery} \subseteq Nat /\ MaxInTransit \in Nat \ 0..1

Fits == /\ silence \in Never..(StaleAfter + 1) /\ beat \in 0..BeatEvery
        /\ told \in [Tabs -> BOOLEAN] /\ \A t \in Tabs : Len(inbox[t]) <= MaxInTransit

\* What is broadcast finds room at every tab that hears it.
LEMMA BroadcastFits ==
  ASSUME Bounds, Types, Fits, NEW m \in Events, Broadcast(m)
  PROVE  \A t \in Tabs : Len(inbox'[t]) <= MaxInTransit
<1>1. /\ \A t \in Tabs : inbox'[t] = IF t \in link THEN Append(inbox[t], m) ELSE inbox[t]
      /\ \A t \in link : Len(inbox[t]) < MaxInTransit
      /\ \A t \in Tabs : inbox[t] \in Seq(Events)
  BY DEF Broadcast, Types
<1>2. MaxInTransit \in Nat /\ \A t \in Tabs : Len(inbox[t]) <= MaxInTransit
  BY DEF Bounds, Fits
<1> SUFFICES ASSUME NEW t \in Tabs PROVE Len(inbox'[t]) <= MaxInTransit
  OBVIOUS
<1>3. Len(inbox[t]) \in Nat
  BY <1>1, LenProperties
<1>4. CASE t \in link
  <2>1. inbox'[t] = Append(inbox[t], m) /\ Len(inbox[t]) < MaxInTransit /\ inbox[t] \in Seq(Events)
    BY <1>1, <1>4
  <2>2. Len(inbox'[t]) = Len(inbox[t]) + 1
    BY <2>1, AppendProperties
  <2> QED
    BY <2>1, <2>2, <1>2, <1>3
<1>5. CASE t \notin link
  <2>1. inbox'[t] = inbox[t]
    BY <1>1, <1>5
  <2> QED
    BY <2>1, <1>2
<1> QED
  BY <1>4, <1>5

LEMMA InitFits == ASSUME Bounds, Init PROVE Fits
<1>1. \A t \in Tabs : Len(inbox[t]) = 0 /\ told[t] = FALSE
  BY DEF Init
<1> QED
  BY <1>1 DEF Init, Fits, Bounds, Never

LEMMA NextFits ==
  ASSUME Bounds, Types, Fits, [Next]_vars
  PROVE  Fits'
<1>1. /\ StaleAfter \in Nat /\ BeatEvery \in Nat /\ MaxInTransit \in Nat /\ MaxInTransit >= 2
      /\ \A t \in Tabs : Len(inbox[t]) <= MaxInTransit /\ Len(inbox[t]) \in Nat
  BY LenProperties DEF Bounds, Fits, Types
<1>2. CASE Opened \/ Closed
  BY <1>2, BroadcastFits, StatusShows DEF Opened, Closed, Fits
<1>3. CASE ConnectBinance \/ UNCHANGED vars
  BY <1>3 DEF ConnectBinance, vars, Fits
<1>4. CASE AnchorDepth
  BY <1>1, <1>4 DEF AnchorDepth, Fits, Never
<1>5. CASE Elapse
  <2>1. silence' \in Never..(StaleAfter + 1) /\ beat' \in 0..BeatEvery
    BY <1>1, <1>5 DEF Elapse, Fits, Never
  <2> QED
    BY <1>5, <2>1 DEF Elapse, Fits
<1>6. CASE Heartbeat
  <2>1. beat' \in 0..BeatEvery
    BY <1>1, <1>6 DEF Heartbeat
  <2>2. \A t \in Tabs : Len(inbox'[t]) <= MaxInTransit
    BY <1>1, <1>6, BroadcastFits, StatusShows DEF Heartbeat
  <2> QED
    BY <1>6, <2>1, <2>2 DEF Heartbeat, Fits
<1>7. CASE Restart
  <2>1. PICK q : q = <<Disconnected>>
    OBVIOUS
  <2>2. Len(q) = 1 /\ Len(q) <= MaxInTransit
    BY <1>1, <2>1
  <2>3. \A t \in Tabs : Len(inbox'[t]) \in {Len(q), Len(inbox[t])}
    BY <1>7, <2>1 DEF Restart
  <2>4. silence' \in Never..(StaleAfter + 1) /\ beat' \in 0..BeatEvery /\ told' \in [Tabs -> BOOLEAN]
    BY <1>1, <1>7 DEF Restart, Never
  <2> QED
    BY <1>1, <2>2, <2>3, <2>4 DEF Fits
<1>8. ASSUME NEW t \in Tabs, Connect(t) \/ DropSocket(t) PROVE Fits'
  <2>1. PICK q : q = IF Connect(t) THEN <<Connected, Status(FALSE)>> ELSE <<Disconnected>>
    OBVIOUS
  <2>2. Len(q) <= MaxInTransit
    <3>1. 1 <= MaxInTransit /\ 2 <= MaxInTransit
      BY <1>1
    <3>2. CASE Len(q) = 1
      BY <3>1, <3>2, Zenon
    <3>3. CASE Len(q) = 2
      BY <3>1, <3>3, Zenon
    <3> QED
      BY <2>1, <3>2, <3>3
  <2>3. inbox' = [inbox EXCEPT ![t] = q]
    BY <1>8, <2>1, Zenon DEF Connect, DropSocket
  <2>4. \A u \in Tabs : Len(inbox'[u]) \in {Len(q), Len(inbox[u])}
    BY <2>3 DEF Types
  <2>5. \A u \in Tabs : Len(inbox'[u]) <= MaxInTransit
    BY <1>1, <2>2, <2>4
  <2> QED
    BY <1>8, <2>5 DEF Connect, DropSocket, Fits
<1>9. ASSUME NEW t \in Tabs, Receive(t) PROVE Fits'
  <2> DEFINE heard == told[t] \/ (Head(inbox[t]).event = "status" /\ Head(inbox[t]).stale)
  <2>1. /\ inbox[t] # <<>> /\ inbox' = [inbox EXCEPT ![t] = Tail(inbox[t])]
        /\ told' = [told EXCEPT ![t] = heard] /\ UNCHANGED <<silence, beat>>
    BY <1>9 DEF Receive
  <2>2. Len(Tail(inbox[t])) = Len(inbox[t]) - 1
    BY <2>1, HeadTailProperties DEF Types
  <2>3. \A u \in Tabs : Len(inbox'[u]) \in {Len(Tail(inbox[t])), Len(inbox[u])}
    BY <2>1 DEF Types
  <2>4. \A u \in Tabs : Len(inbox'[u]) <= MaxInTransit
    BY <1>1, <2>2, <2>3
  <2>5. heard \in BOOLEAN
    OBVIOUS
  <2> HIDE DEF heard
  <2>6. told' \in [Tabs -> BOOLEAN]
    BY <2>1, <2>5 DEF Fits
  <2> QED
    BY <2>1, <2>4, <2>6 DEF Fits
<1> QED
  BY <1>2, <1>3, <1>4, <1>5, <1>6, <1>7, <1>8, <1>9 DEF Next

\* Every variable keeps its type, and no tab has more events on their way than
\* the bound lets in.
THEOREM FeedTypesHold == ASSUME Bounds PROVE Spec => []TypeOK
<1>1. Init => IInv /\ Fits
  BY InitIInv, InitFits
<1>2. IInv /\ Fits /\ [Next]_vars => (IInv /\ Fits)'
  BY NextIInv, NextFits DEF IInv
<1>3. IInv /\ Fits => TypeOK
  BY DEF IInv, Types, Fits, TypeOK
<1> QED
  BY <1>1, <1>2, <1>3, PTL DEF Spec
=============================================================================
