--------------------------- MODULE StreamingProofs ---------------------------
(***************************************************************************)
(* Proof of what the run Streaming checks of the safety of its three parts,  *)
(* for any number of tabs, pages, days, points and speeds, windows of any    *)
(* size and any bound on what is on its way: the dashboards show the feed,   *)
(* a replay's pages show joined points, a gap in the book blinds `cli live`  *)
(* no longer than the normalization window, its router turns to every        *)
(* destination, and its fourth stage lets no alert of one symbol pass.       *)
(* Each part has an inductive invariant of its own; at the end they are put  *)
(* together.  Of the run's liveness properties, what a single step does      *)
(* about them is proved, too.                                                *)
(***************************************************************************)
EXTENDS MCStreaming, FeedHealthProofs, FiniteSetTheorems

-----------------------------------------------------------------------------
(***************************************************************************)
(* The replay and its pages                                                 *)
(***************************************************************************)
\* What a page shows, and what it shows once it has handled an event.
Showings == [day : Days \cup {R!None}, last : 0..Length, joined : BOOLEAN]
Follows(v, s, m) == s = R!Empty \/ v \in m.moved \/ (m.day = s.day /\ m.from = s.last + 1)
Taken(v, s, m) ==
  CASE m.event = "load" -> IF m.day = R!None THEN s ELSE R!Empty
    [] m.event = "data" -> [day |-> m.day, last |-> m.to, joined |-> s.joined /\ Follows(v, s, m)]
    [] m.event = "state" -> s

\* Event by event, q leads v from showing s to showing e, over joined points.
Leads(v, s, q, e) ==
  \E f \in [0..Len(q) -> Showings] :
     /\ f[0] = s /\ f[Len(q)] = e
     /\ \A i \in 1..Len(q) : f[i] = Taken(v, f[i - 1], q[i])
     /\ \A i \in 0..Len(q) : f[i].joined
\* The service's next points follow e, as far as v can tell.
Current(v, e) == v \in moved \/ day = R!None \/ e = R!Empty \/ (e.day = day /\ e.last = index)

\* The inductive invariant: what is on its way to a page leads it over joined
\* points to where the service is.
Led(v) == \E e \in Showings : Leads(v, points[v], pageInbox[v], e) /\ Current(v, e)
ReplayInv == R!TypeOK /\ R!ViewContinues /\ \A v \in pageLink : Led(v)

-----------------------------------------------------------------------------
LEMMA LeadsShows ==
  ASSUME NEW v, NEW s, NEW e, NEW q, Len(q) \in Nat, Leads(v, s, q, e)
  PROVE  s \in Showings /\ s.joined /\ e \in Showings /\ e.joined
<1>1. PICK f \in [0..Len(q) -> Showings] :
        f[0] = s /\ f[Len(q)] = e /\ \A i \in 0..Len(q) : f[i].joined
  BY DEF Leads
<1>2. 0 \in 0..Len(q) /\ Len(q) \in 0..Len(q)
  OBVIOUS
<1> QED
  BY <1>1, <1>2

LEMMA LeadsNone ==
  ASSUME NEW v, NEW s \in Showings, s.joined
  PROVE  Leads(v, s, <<>>, s)
<1> DEFINE f == [i \in 0..0 |-> s]
<1>1. Len(<<>>) = 0
  OBVIOUS
<1>2. f \in [0..0 -> Showings] /\ f[0] = s /\ \A i \in 0..0 : f[i].joined
  OBVIOUS
<1> HIDE DEF f
<1>3. \A i \in 1..0 : FALSE
  OBVIOUS
<1> QED
  BY <1>1, <1>2, <1>3 DEF Leads

LEMMA LeadsAppend ==
  ASSUME NEW T, NEW q \in Seq(T), NEW m \in T, NEW v, NEW s, NEW e, Leads(v, s, q, e),
         Taken(v, e, m) \in Showings, Taken(v, e, m).joined
  PROVE  Leads(v, s, Append(q, m), Taken(v, e, m))
<1> DEFINE n == Len(q)
           p == Append(q, m)
           t == Taken(v, e, m)
<1>1. PICK f \in [0..n -> Showings] :
        /\ f[0] = s /\ f[n] = e
        /\ \A i \in 1..n : f[i] = Taken(v, f[i - 1], q[i])
        /\ \A i \in 0..n : f[i].joined
  BY DEF Leads
<1> DEFINE g == [i \in 0..(n + 1) |-> IF i = n + 1 THEN t ELSE f[i]]
<1>2. n \in Nat /\ Len(p) = n + 1 /\ p[n + 1] = m /\ \A i \in 1..n : p[i] = q[i]
  BY AppendProperties
<1> HIDE DEF n, p, t
<1>3. \A i \in 0..n : i \in 0..(n + 1) /\ i # n + 1 /\ g[i] = f[i]
  BY <1>2
<1>4. g[n + 1] = t /\ t \in Showings /\ t.joined
  BY <1>2 DEF t
<1>5. \A i \in 0..(n + 1) : i \in 0..n \/ i = n + 1
  BY <1>2
<1>6. g \in [0..(n + 1) -> Showings]
  BY <1>1, <1>4, <1>5
<1> HIDE DEF g
<1>7. g[0] = s /\ \A i \in 0..(n + 1) : g[i].joined
  BY <1>1, <1>2, <1>3, <1>4, <1>5
<1>8. ASSUME NEW i \in 1..(n + 1) PROVE g[i] = Taken(v, g[i - 1], p[i])
  <2>1. CASE i = n + 1
    <3>1. g[i - 1] = e /\ p[i] = m
      BY <2>1, <1>1, <1>2, <1>3
    <3> QED
      BY <2>1, <3>1, <1>4 DEF t
  <2>2. CASE i \in 1..n
    <3>1. i - 1 \in 0..n /\ i \in 0..n
      BY <2>2, <1>2
    <3> QED
      BY <2>2, <3>1, <1>1, <1>2, <1>3
  <2> QED
    BY <2>1, <2>2, <1>2
<1> QED
  BY <1>2, <1>4, <1>6, <1>7, <1>8 DEF Leads, p, t

LEMMA LeadsTail ==
  ASSUME NEW T, NEW q \in Seq(T), q # <<>>, NEW v, NEW s, NEW e, Leads(v, s, q, e)
  PROVE  Leads(v, Taken(v, s, Head(q)), Tail(q), e)
<1> DEFINE n == Len(q)
           p == Tail(q)
<1>1. PICK f \in [0..n -> Showings] :
        /\ f[0] = s /\ f[n] = e
        /\ \A i \in 1..n : f[i] = Taken(v, f[i - 1], q[i])
        /\ \A i \in 0..n : f[i].joined
  BY DEF Leads
<1>2. /\ n \in Nat \ {0} /\ Len(p) = n - 1 /\ Head(q) = q[1]
      /\ \A i \in 1..(n - 1) : p[i] = q[i + 1]
  <2>1. n \in Nat \ {0}
    BY EmptySeq, LenProperties
  <2> QED
    BY <2>1, HeadTailProperties
<1> HIDE DEF n, p
<1> DEFINE g == [i \in 0..(n - 1) |-> f[i + 1]]
<1>3. \A i \in 0..(n - 1) : i + 1 \in 0..n /\ i + 1 \in 1..n /\ g[i] = f[i + 1]
  BY <1>2
<1>4. g \in [0..(n - 1) -> Showings]
  BY <1>1, <1>3
<1>5. g[0] = f[1] /\ g[n - 1] = f[n]
  BY <1>2
<1> HIDE DEF g
<1>6. f[1] = Taken(v, s, Head(q))
  BY <1>1, <1>2
<1>7. ASSUME NEW i \in 1..(n - 1) PROVE g[i] = Taken(v, g[i - 1], p[i])
  <2>1. i \in 0..(n - 1) /\ i - 1 \in 0..(n - 1) /\ i + 1 \in 1..n /\ i - 1 + 1 = i /\ i + 1 - 1 = i
    BY <1>2
  <2>2. g[i] = f[i + 1] /\ g[i - 1] = f[i]
    BY <2>1, <1>3
  <2> QED
    BY <2>1, <2>2, <1>1, <1>2
<1>8. g[0] = Taken(v, s, Head(q)) /\ g[n - 1] = e /\ \A i \in 0..(n - 1) : g[i].joined
  BY <1>1, <1>3, <1>5, <1>6
<1> QED
  BY <1>2, <1>4, <1>7, <1>8 DEF Leads, p

-----------------------------------------------------------------------------
PageEvents == R!Load \cup R!Data \cup R!State

LEMMA ReplayFacts ==
  ASSUME R!TypeOK
  PROVE  /\ day \in Days \cup {R!None} /\ index \in 0..Length /\ Length \in Nat \ {0}
         /\ R!None \notin Days /\ R!Empty \in Showings /\ R!Empty.joined
         /\ pageLink \subseteq Pages /\ moved \subseteq Pages
         /\ pageInbox \in [Pages -> Seq(PageEvents)] /\ points \in [Pages -> Showings]
         /\ sent \in [Pages -> Seq(R!Commands)]
<1>1. /\ day \in Days \cup {R!None} /\ index \in 0..Length
      /\ pageLink \subseteq Pages /\ moved \subseteq Pages
      /\ pageInbox \in [Pages -> Seq(PageEvents)] /\ points \in [Pages -> Showings]
      /\ sent \in [Pages -> Seq(R!Commands)]
  BY DEF R!TypeOK, PageEvents, Showings
<1>2. Length \in Nat \ {0} /\ R!None \notin Days
  BY ReplayAssumption DEF R!None
<1>3. R!Empty \in Showings /\ R!Empty.joined
  BY <1>2 DEF Showings, R!Empty
<1> QED
  BY <1>1, <1>2, <1>3

\* An event of the service, and what a page makes of it.
LEMMA StateIsTaken ==
  ASSUME NEW v, NEW s, NEW p \in BOOLEAN
  PROVE  R!StateOf(p) \in PageEvents /\ Taken(v, s, R!StateOf(p)) = s
  BY DEF R!StateOf, R!State, PageEvents, Taken

LEMMA LoadIsTaken ==
  ASSUME NEW v, NEW s, NEW d \in Days \cup {R!None}
  PROVE  /\ R!Loaded(d) \in PageEvents
         /\ Taken(v, s, R!Loaded(d)) = IF d = R!None THEN s ELSE R!Empty
  BY DEF R!Loaded, R!Load, PageEvents, Taken

LEMMA PointsAreTaken ==
  ASSUME R!TypeOK, day # R!None, NEW n \in 0..Length, NEW v, NEW s \in Showings, s.joined, Current(v, s)
  PROVE  /\ R!Points(n) \in PageEvents
         /\ Taken(v, s, R!Points(n)) = [day |-> day, last |-> n, joined |-> TRUE]
         /\ [day |-> day, last |-> n, joined |-> TRUE] \in Showings
<1> DEFINE m == R!Points(n)
<1>1. /\ m.event = "data" /\ m.day = day /\ m.from = index + 1 /\ m.to = n /\ m.moved = moved
      /\ m = [event |-> "data", day |-> day, from |-> index + 1, to |-> n, moved |-> moved]
  BY DEF R!Points
<1>2. m \in PageEvents
  BY <1>1, ReplayFacts DEF R!Data, PageEvents
<1> HIDE DEF m
<1>3. Follows(v, s, m)
  BY <1>1 DEF Current, Follows
<1>4. (s.joined /\ Follows(v, s, m)) = TRUE
  BY <1>3 DEF Showings
<1>5. Taken(v, s, m) = [day |-> day, last |-> n, joined |-> TRUE]
  BY <1>1, <1>4 DEF Taken
<1>6. [day |-> day, last |-> n, joined |-> TRUE] \in Showings
  BY ReplayFacts DEF Showings
<1> QED
  BY <1>2, <1>5, <1>6 DEF m

LEMMA ConcatOne == ASSUME NEW T, NEW q \in Seq(T), NEW a \in T PROVE q \o <<a>> = Append(q, a)
  OBVIOUS
LEMMA ConcatTwo ==
  ASSUME NEW T, NEW q \in Seq(T), NEW a \in T, NEW b \in T
  PROVE  q \o (<<a>> \o <<b>>) = Append(Append(q, a), b)
  OBVIOUS

(* The service *)

\* Led, of the state a step leads to.
LEMMA ServiceLeads ==
  ASSUME NEW v, NEW e \in Showings, Leads(v, points'[v], pageInbox'[v], e), Current(v, e)'
  PROVE  Led(v)'
  BY DEF Led

\* A step of the service that says nothing to its pages, and leads none astray.
LEMMA SilentKeeps ==
  ASSUME ReplayInv, UNCHANGED <<pageLink, pageInbox, points>>, R!TypeOK',
         \A v \in pageLink, e \in Showings : Current(v, e) => Current(v, e)'
  PROVE  ReplayInv'
<1>1. ASSUME NEW v \in pageLink' PROVE Led(v)'
  <2>1. PICK e \in Showings : Leads(v, points[v], pageInbox[v], e) /\ Current(v, e)
    BY DEF ReplayInv, Led
  <2>2. Leads(v, points'[v], pageInbox'[v], e) /\ Current(v, e)'
    BY <2>1
  <2> QED
    BY <2>2, ReplayFacts, ServiceLeads
<1> QED
  BY <1>1 DEF ReplayInv, R!ViewContinues

LEMMA CommandArgs ==
  ASSUME NEW c \in R!Commands
  PROVE  /\ c.name \in {"load", "play", "pause", "speed", "seek"}
         /\ c.name = "load" => c.arg \in Days \cup {R!None}
         /\ c.name = "speed" => c.arg \in Speeds
         /\ c.name = "seek" => c.arg \in 0..Length
  BY DEF R!Commands

\* Whoever loads is told; all others are moved.
LEMMA OnLoadKeeps ==
  ASSUME ReplayInv, NEW w \in pageLink \cup {R!Other}, NEW d \in Days \cup {R!None}, R!OnLoad(w, d),
         UNCHANGED <<pageLink, button, points>>, sent' \in [Pages -> Seq(R!Commands)]
  PROVE  ReplayInv'
<1>1. /\ R!TypeOK /\ R!Other \notin Pages /\ pageLink \subseteq Pages
      /\ pageInbox \in [Pages -> Seq(PageEvents)]
  BY ReplayAssumption, ReplayFacts DEF ReplayInv, R!Other
<1>2. /\ day' = d /\ index' = 0 /\ moved' = (moved \cup Pages) \ {w} /\ UNCHANGED <<playing, speed, timers>>
      /\ pageInbox' = IF w = R!Other THEN pageInbox
                      ELSE [pageInbox EXCEPT ![w] = Append(pageInbox[w], R!Loaded(d))]
  BY DEF R!OnLoad
<1>3. \A u \in Pages : pageInbox'[u] = IF u = w THEN Append(pageInbox[u], R!Loaded(d)) ELSE pageInbox[u]
  BY <1>1, <1>2
<1>4. R!TypeOK'
  <2>1. R!Loaded(d) \in PageEvents
    BY LoadIsTaken
  <2>2. pageInbox' \in [Pages -> Seq(PageEvents)]
    BY <1>1, <1>2, <2>1
  <2>3. index' \in 0..Length /\ moved' \subseteq Pages
    BY <1>1, <1>2, ReplayFacts
  <2> QED
    BY <1>1, <1>2, <2>2, <2>3 DEF R!TypeOK, PageEvents
<1>5. ASSUME NEW v \in pageLink PROVE Led(v)'
  <2>1. v \in Pages /\ pageInbox[v] \in Seq(PageEvents)
    BY <1>1
  <2>2. PICK e \in Showings : Leads(v, points[v], pageInbox[v], e) /\ Current(v, e)
    BY DEF ReplayInv, Led
  <2>3. CASE v # w
    <3>1. Current(v, e)'
      BY <1>2, <2>1, <2>3 DEF Current
    <3>2. Leads(v, points'[v], pageInbox'[v], e)
      BY <1>3, <2>1, <2>2, <2>3
    <3> QED
      BY <3>1, <3>2, ServiceLeads
  <2>4. CASE v = w
    <3> DEFINE t == Taken(v, e, R!Loaded(d))
    <3>1. R!Loaded(d) \in PageEvents /\ t = IF d = R!None THEN e ELSE R!Empty
      BY LoadIsTaken
    <3>2. Len(pageInbox[v]) \in Nat
      BY <2>1, LenProperties
    <3>3. e.joined /\ R!Empty.joined /\ R!Empty \in Showings
      BY <1>1, <2>2, <3>2, LeadsShows, ReplayFacts
    <3>4. t \in Showings /\ t.joined
      BY <3>1, <3>3
    <3>5. Leads(v, points[v], Append(pageInbox[v], R!Loaded(d)), t)
      BY <2>1, <2>2, <3>1, <3>4, LeadsAppend
    <3>6. Leads(v, points'[v], pageInbox'[v], t)
      BY <1>3, <2>1, <2>4, <3>5
    <3>7. Current(v, t)'
      BY <1>2, <3>1 DEF Current
    <3> HIDE DEF t
    <3> QED
      BY <3>4, <3>6, <3>7, ServiceLeads
  <2> QED
    BY <2>3, <2>4
<1> QED
  BY <1>4, <1>5 DEF ReplayInv, R!ViewContinues

LEMMA DoKeeps ==
  ASSUME ReplayInv, NEW w \in pageLink \cup {R!Other}, NEW c \in R!Commands, R!Do(w, c),
         UNCHANGED <<pageLink, button, points>>, sent' \in [Pages -> Seq(R!Commands)]
  PROVE  ReplayInv'
<1>1. R!TypeOK /\ index \in 0..Length /\ Length \in Nat \ {0} /\ pageLink \subseteq Pages
  BY ReplayFacts DEF ReplayInv
<1>2. CASE c.name = "load"
  BY <1>2, CommandArgs, OnLoadKeeps DEF R!Do
<1>3. CASE c.name = "play"
  <2>1. R!OnPlay
    BY <1>3 DEF R!Do
  <2>2. UNCHANGED <<day, index, speed, pageInbox, moved>>
    BY <2>1 DEF R!OnPlay
  <2>3. R!TypeOK'
    BY <1>1, <2>1, <2>2 DEF R!OnPlay, R!Schedule, R!TypeOK
  <2> QED
    BY <2>2, <2>3, SilentKeeps DEF Current
<1>4. CASE c.name = "pause"
  <2>1. R!OnPause
    BY <1>4 DEF R!Do
  <2>2. UNCHANGED <<day, index, speed, pageInbox, moved>>
    BY <2>1 DEF R!OnPause
  <2>3. playing' = FALSE /\ timers' = 0
    BY <1>1, <2>1 DEF R!OnPause, R!TypeOK
  <2>4. R!TypeOK'
    BY <1>1, <2>2, <2>3 DEF R!TypeOK
  <2> QED
    BY <2>2, <2>4, SilentKeeps DEF Current
<1>5. CASE c.name = "speed"
  <2>1. R!OnSpeed(c.arg) /\ c.arg \in Speeds
    BY <1>5, CommandArgs DEF R!Do
  <2>2. UNCHANGED <<day, index, playing, timers, pageInbox, moved>> /\ speed' \in Speeds
    BY <2>1 DEF R!OnSpeed
  <2>3. R!TypeOK'
    BY <1>1, <2>2 DEF R!TypeOK
  <2> QED
    BY <2>2, <2>3, SilentKeeps DEF Current
<1>6. CASE c.name = "seek"
  <2>1. R!OnSeek(c.arg) /\ c.arg \in 0..Length
    BY <1>6, CommandArgs DEF R!Do
  <2>2. /\ UNCHANGED <<day, playing, speed, timers, pageInbox>>
        /\ (UNCHANGED <<index, moved>>) \/ (index' = R!Min2(Length - 1, c.arg) /\ moved' = Pages)
    BY <2>1 DEF R!OnSeek
  <2>3. R!Min2(Length - 1, c.arg) \in 0..Length
    BY <1>1, <2>1 DEF R!Min2
  <2>4. R!TypeOK'
    BY <1>1, <2>2, <2>3 DEF R!TypeOK
  <2>5. \A v \in pageLink, e \in Showings : Current(v, e) => Current(v, e)'
    BY <1>1, <2>2 DEF Current
  <2> QED
    BY <2>2, <2>4, <2>5, SilentKeeps
<1> QED
  BY <1>2, <1>3, <1>4, <1>5, <1>6, CommandArgs

LEMMA HandleKeeps ==
  ASSUME ReplayInv, NEW v \in Pages, R!Handle(v)
  PROVE  ReplayInv'
<1>1. sent \in [Pages -> Seq(R!Commands)]
  BY ReplayFacts DEF ReplayInv
<1>2. /\ v \in pageLink /\ sent[v] # <<>> /\ sent' = [sent EXCEPT ![v] = Tail(sent[v])]
      /\ R!Do(v, Head(sent[v])) /\ UNCHANGED <<pageLink, button, points>>
  BY DEF R!Handle
<1>3. Head(sent[v]) \in R!Commands /\ Tail(sent[v]) \in Seq(R!Commands)
  BY <1>1, <1>2, HeadTailProperties
<1>4. sent' \in [Pages -> Seq(R!Commands)]
  BY <1>1, <1>2, <1>3
<1> QED
  BY <1>2, <1>3, <1>4, DoKeeps

LEMMA HandleOtherKeeps ==
  ASSUME ReplayInv, R!HandleOther
  PROVE  ReplayInv'
<1>1. PICK c \in R!Commands : R!Do(R!Other, c)
  BY DEF R!HandleOther
<1>2. UNCHANGED <<pageLink, button, points>> /\ sent' \in [Pages -> Seq(R!Commands)]
  BY ReplayFacts DEF R!HandleOther, ReplayInv
<1> QED
  BY <1>1, <1>2, DoKeeps

LEMMA TickKeeps ==
  ASSUME ReplayInv, R!Tick
  PROVE  ReplayInv'
<1>1. /\ R!TypeOK /\ pageLink \subseteq Pages /\ pageInbox \in [Pages -> Seq(PageEvents)]
      /\ index \in 0..Length /\ Length \in Nat \ {0} /\ speed \in Nat \ {0} /\ moved \subseteq Pages
  BY ReplayFacts, ReplayAssumption DEF ReplayInv, R!TypeOK
<1>2. /\ day # R!None /\ playing /\ timers > 0
      /\ UNCHANGED <<day, speed, pageLink, sent, button, points>>
      /\ index' = R!Min2(Length, index + speed) /\ playing' = (index' < Length)
      /\ timers' = IF playing' THEN timers ELSE timers - 1
      /\ moved' = IF index < Length THEN {} ELSE moved
  BY DEF R!Tick
<1>3. index' \in 0..Length /\ (index = Length => index' = index)
  BY <1>1, <1>2 DEF R!Min2
<1>4. R!StateOf(playing') \in PageEvents /\ playing' \in BOOLEAN /\ \A v, e : Taken(v, e, R!StateOf(playing')) = e
  <2>0. (index' < Length) \in BOOLEAN /\ playing' = (index' < Length)
    <3>1. (index' < Length) \in BOOLEAN
      BY <1>1, <1>3
    <3> QED
      BY <1>2, <3>1
  <2>1. PICK b \in BOOLEAN : b = playing'
    BY <2>0, Zenon
  <2>2. R!StateOf(b) \in PageEvents /\ \A v, e : Taken(v, e, R!StateOf(b)) = e
    BY StateIsTaken
  <2> QED
    BY <2>1, <2>2
<1>5. R!Points(index') \in PageEvents
  <2>1. day \in Days /\ index + 1 \in Nat /\ index' \in Nat
    BY <1>1, <1>2, <1>3, ReplayFacts
  <2> QED
    BY <1>1, <2>1 DEF R!Points, R!Data, PageEvents
<1>6. \A v \in Pages :
        pageInbox'[v] = IF v \in pageLink
                        THEN pageInbox[v] \o ((IF index < Length THEN <<R!Points(index')>> ELSE <<>>)
                                              \o <<R!StateOf(playing')>>)
                        ELSE pageInbox[v]
  BY DEF R!Tick, R!Emit
<1>7. PICK p \in PageEvents : p = R!Points(index')
  BY <1>5
<1>8. PICK st \in PageEvents : st = R!StateOf(playing')
  BY <1>4
<1>9. \A v \in pageLink : pageInbox'[v] = IF index < Length THEN Append(Append(pageInbox[v], p), st)
                                                           ELSE Append(pageInbox[v], st)
  <2> SUFFICES ASSUME NEW v \in pageLink
               PROVE  pageInbox'[v] = IF index < Length THEN Append(Append(pageInbox[v], p), st)
                                                        ELSE Append(pageInbox[v], st)
    OBVIOUS
  <2>1. pageInbox[v] \in Seq(PageEvents)
    BY <1>1
  <2>2. CASE index < Length
    <3>1. pageInbox'[v] = pageInbox[v] \o (<<p>> \o <<st>>)
      BY <1>1, <1>6, <1>7, <1>8, <2>2
    <3> QED
      BY <2>1, <2>2, <3>1, ConcatTwo
  <2>3. CASE ~(index < Length)
    <3>1. pageInbox'[v] = pageInbox[v] \o (<<>> \o <<st>>)
      BY <1>1, <1>6, <1>8, <2>3
    <3>2. <<>> \o <<st>> = <<st>>
      OBVIOUS
    <3> QED
      BY <2>1, <2>3, <3>1, <3>2, ConcatOne
  <2> QED
    BY <2>2, <2>3
<1>10. R!TypeOK'
  <2>1. pageInbox' \in [Pages -> Seq(PageEvents)]
    <3>1. pageInbox' = [v \in Pages |-> pageInbox'[v]]
      BY DEF R!Tick, R!Emit
    <3>2. \A v \in Pages : pageInbox'[v] \in Seq(PageEvents)
      <4>1. ASSUME NEW v \in pageLink PROVE pageInbox'[v] \in Seq(PageEvents)
        <5>1. pageInbox[v] \in Seq(PageEvents)
          BY <1>1
        <5>2. Append(pageInbox[v], st) \in Seq(PageEvents) /\ Append(Append(pageInbox[v], p), st) \in Seq(PageEvents)
          BY <5>1
        <5> QED
          BY <1>9, <5>2
      <4> QED
        BY <1>1, <1>6, <4>1
    <3> QED
      BY <3>1, <3>2
  <2>2. timers' = IF playing' THEN 1 ELSE 0
    BY <1>1, <1>2 DEF R!TypeOK
  <2>3. moved' \subseteq Pages
    BY <1>1, <1>2
  <2> QED
    BY <1>1, <1>2, <1>3, <1>4, <2>1, <2>2, <2>3 DEF R!TypeOK, PageEvents
<1>11. ASSUME NEW v \in pageLink PROVE Led(v)'
  <2>1. v \in Pages /\ pageInbox[v] \in Seq(PageEvents) /\ Len(pageInbox[v]) \in Nat
    BY <1>1, LenProperties
  <2>2. PICK e \in Showings : Leads(v, points[v], pageInbox[v], e) /\ Current(v, e)
    BY DEF ReplayInv, Led
  <2>3. e.joined
    BY <2>1, <2>2, LeadsShows
  <2>4. CASE index < Length
    <3>1. PICK t \in Showings : t = [day |-> day, last |-> index', joined |-> TRUE] /\ t = Taken(v, e, p)
      BY <1>1, <1>2, <1>3, <1>7, <2>2, <2>3, PointsAreTaken
    <3>2. t.joined /\ t.day = day /\ t.last = index'
      BY <3>1
    <3>3. Leads(v, points[v], Append(pageInbox[v], p), t)
      BY <2>1, <2>2, <3>1, <3>2, LeadsAppend
    <3>4. Append(pageInbox[v], p) \in Seq(PageEvents) /\ Taken(v, t, st) = t
      BY <1>4, <1>8, <2>1
    <3>5. Leads(v, points[v], Append(Append(pageInbox[v], p), st), t)
      BY <3>2, <3>3, <3>4, LeadsAppend
    <3>6. Leads(v, points'[v], pageInbox'[v], t)
      BY <1>2, <1>9, <2>4, <3>5
    <3>7. Current(v, t)'
      BY <1>2, <3>2 DEF Current
    <3> QED
      BY <3>6, <3>7, ServiceLeads
  <2>5. CASE ~(index < Length)
    <3>1. Taken(v, e, st) = e
      BY <1>4, <1>8
    <3>2. Leads(v, points[v], Append(pageInbox[v], st), e)
      BY <2>1, <2>2, <2>3, <3>1, LeadsAppend
    <3>3. Leads(v, points'[v], pageInbox'[v], e)
      BY <1>2, <1>9, <2>5, <3>2
    <3>4. index' = index /\ moved' = moved
      BY <1>1, <1>2, <1>3, <2>5
    <3>5. Current(v, e)'
      BY <1>2, <2>2, <3>4 DEF Current
    <3> QED
      BY <3>3, <3>5, ServiceLeads
  <2> QED
    BY <2>4, <2>5
<1> QED
  BY <1>2, <1>10, <1>11 DEF ReplayInv, R!ViewContinues

-----------------------------------------------------------------------------
(* The pages *)

\* A page's own doing, before it hears of the service, changes nothing of what
\* is on its way.
LEMMA PageActs ==
  ASSUME ReplayInv, UNCHANGED <<day, index, playing, speed, timers, pageLink, pageInbox, points, moved>>,
         sent' \in [Pages -> Seq(R!Commands)], button' \in [Pages -> BOOLEAN]
  PROVE  ReplayInv'
<1>1. R!TypeOK'
  BY DEF ReplayInv, R!TypeOK
<1> QED
  BY <1>1, SilentKeeps DEF Current

LEMMA SendTypes ==
  ASSUME R!TypeOK, NEW v \in Pages, NEW c \in R!Commands, R!Send(v, c)
  PROVE  sent' \in [Pages -> Seq(R!Commands)]
<1>1. sent' = [sent EXCEPT ![v] = Append(sent[v], c)] /\ sent \in [Pages -> Seq(R!Commands)]
  BY ReplayFacts DEF R!Send
<1> QED
  BY <1>1

LEMMA OnPlayClickedKeeps ==
  ASSUME ReplayInv, NEW v \in Pages, R!OnPlayClicked(v)
  PROVE  ReplayInv'
<1>1. R!Command(IF button[v] THEN "pause" ELSE "play", 0) \in R!Commands
  BY DEF R!Command, R!Commands
<1>2. sent' \in [Pages -> Seq(R!Commands)]
  BY <1>1, SendTypes DEF R!OnPlayClicked, ReplayInv
<1>3. button' \in [Pages -> BOOLEAN]
  <2>1. button \in [Pages -> BOOLEAN] /\ button' = [button EXCEPT ![v] = ~button[v]]
    BY DEF ReplayInv, R!TypeOK, R!OnPlayClicked
  <2>2. (~button[v]) \in BOOLEAN
    OBVIOUS
  <2> QED
    BY <2>1, <2>2
<1> QED
  BY <1>2, <1>3, PageActs DEF R!OnPlayClicked, R!server

LEMMA OnChosenKeeps ==
  ASSUME ReplayInv, NEW v \in Pages, R!OnChosen(v)
  PROVE  ReplayInv'
<1>1. PICK c \in R!Commands : R!Send(v, c)
  BY DEF R!OnChosen
<1>2. sent' \in [Pages -> Seq(R!Commands)]
  BY <1>1, SendTypes DEF ReplayInv
<1>3. button' \in [Pages -> BOOLEAN]
  BY DEF ReplayInv, R!TypeOK, R!OnChosen
<1> QED
  BY <1>2, <1>3, PageActs DEF R!OnChosen, R!server

LEMMA ConnectKeeps ==
  ASSUME ReplayInv, NEW v \in Pages, R!Connect(v)
  PROVE  ReplayInv'
<1>1. /\ R!TypeOK /\ pageLink \subseteq Pages /\ pageInbox \in [Pages -> Seq(PageEvents)]
      /\ day \in Days \cup {R!None} /\ points \in [Pages -> Showings] /\ playing \in BOOLEAN
  BY ReplayFacts DEF ReplayInv, R!TypeOK
<1>2. /\ pageLink' = pageLink \cup {v} /\ UNCHANGED <<day, index, playing, speed, timers, sent, button, points, moved>>
      /\ pageInbox' = [pageInbox EXCEPT ![v] = <<R!Loaded(day), R!StateOf(playing)>>] /\ v \notin pageLink
  BY DEF R!Connect, R!server
<1>3. PICK l \in PageEvents : l = R!Loaded(day) /\ \A s : Taken(v, s, l) = IF day = R!None THEN s ELSE R!Empty
  <2>1. R!Loaded(day) \in PageEvents /\ \A s : Taken(v, s, R!Loaded(day)) = IF day = R!None THEN s ELSE R!Empty
    BY <1>1, LoadIsTaken
  <2> QED
    BY <2>1
<1>4. PICK st \in PageEvents : st = R!StateOf(playing) /\ \A s : Taken(v, s, st) = s
  BY <1>1, StateIsTaken
<1>5. pageInbox' = [pageInbox EXCEPT ![v] = Append(Append(<<>>, l), st)]
  <2>1. <<l, st>> = Append(Append(<<>>, l), st)
    OBVIOUS
  <2> QED
    BY <1>2, <1>3, <1>4, <2>1
<1>6. <<>> \in Seq(PageEvents) /\ Append(<<>>, l) \in Seq(PageEvents) /\ Append(Append(<<>>, l), st) \in Seq(PageEvents)
  OBVIOUS
<1>7. R!TypeOK'
  <2>1. pageInbox' \in [Pages -> Seq(PageEvents)]
    BY <1>1, <1>5, <1>6
  <2>2. pageLink' \subseteq Pages
    BY <1>1, <1>2
  <2> QED
    BY <1>1, <1>2, <2>1, <2>2 DEF R!TypeOK, PageEvents
<1>8. Led(v)'
  <2>1. points[v] \in Showings /\ points[v].joined /\ R!Empty \in Showings /\ R!Empty.joined
    BY <1>1, ReplayFacts DEF ReplayInv, R!ViewContinues
  <2>s. PICK s \in Showings : s = points[v] /\ s.joined
    BY <2>1
  <2>e. PICK e \in Showings : e = IF day = R!None THEN s ELSE R!Empty
    BY <2>1
  <2>2. e \in Showings /\ e.joined /\ e = Taken(v, s, l) /\ e = Taken(v, e, st)
    BY <1>3, <1>4, <2>1, <2>s, <2>e
  <2>3. day = R!None \/ e = R!Empty
    BY <2>e
  <2>4. Leads(v, s, Append(<<>>, l), e)
    <3>1. Leads(v, s, <<>>, s)
      BY <2>s, LeadsNone
    <3> QED
      BY <1>6, <2>2, <3>1, LeadsAppend
  <2>5. Leads(v, s, Append(Append(<<>>, l), st), e)
    BY <1>6, <2>2, <2>4, LeadsAppend
  <2>6. Leads(v, points'[v], pageInbox'[v], e)
    BY <1>1, <1>2, <1>5, <2>s, <2>5
  <2>7. Current(v, e)'
    BY <1>2, <2>3 DEF Current
  <2> QED
    BY <2>2, <2>6, <2>7, ServiceLeads
<1>9. ASSUME NEW u \in pageLink PROVE Led(u)'
  <2>1. PICK e \in Showings : Leads(u, points[u], pageInbox[u], e) /\ Current(u, e)
    BY DEF ReplayInv, Led
  <2>2. Leads(u, points'[u], pageInbox'[u], e) /\ Current(u, e)'
    BY <1>1, <1>2, <2>1 DEF Current
  <2> QED
    BY <2>2, ServiceLeads
<1> QED
  BY <1>2, <1>7, <1>8, <1>9 DEF ReplayInv, R!ViewContinues

LEMMA DropKeeps ==
  ASSUME ReplayInv, NEW v \in Pages, R!Drop(v)
  PROVE  ReplayInv'
<1>1. /\ R!TypeOK /\ pageLink \subseteq Pages /\ pageInbox \in [Pages -> Seq(PageEvents)]
      /\ sent \in [Pages -> Seq(R!Commands)]
  BY ReplayFacts DEF ReplayInv
<1>2. /\ pageLink' = pageLink \ {v} /\ UNCHANGED <<day, index, playing, speed, timers, button, points, moved>>
      /\ pageInbox' = [pageInbox EXCEPT ![v] = <<>>] /\ sent' \in {sent, [sent EXCEPT ![v] = <<>>]}
  BY DEF R!Drop, R!server
<1>3. R!TypeOK'
  <2>1. pageInbox' \in [Pages -> Seq(PageEvents)] /\ pageLink' \subseteq Pages
    <3>1. <<>> \in Seq(PageEvents)
      OBVIOUS
    <3> QED
      BY <1>1, <1>2, <3>1
  <2>2. sent' \in [Pages -> Seq(R!Commands)]
    <3>1. <<>> \in Seq(R!Commands)
      OBVIOUS
    <3> QED
      BY <1>1, <1>2, <3>1
  <2> QED
    BY <1>1, <1>2, <2>1, <2>2 DEF R!TypeOK, PageEvents
<1>4. ASSUME NEW u \in pageLink' PROVE Led(u)'
  <2>1. u \in pageLink /\ u \in Pages /\ pageInbox'[u] = pageInbox[u]
    BY <1>1, <1>2
  <2>2. PICK e \in Showings : Leads(u, points[u], pageInbox[u], e) /\ Current(u, e)
    BY <2>1 DEF ReplayInv, Led
  <2>3. Leads(u, points'[u], pageInbox'[u], e) /\ Current(u, e)'
    BY <1>2, <2>1, <2>2 DEF Current
  <2> QED
    BY <2>3, ServiceLeads
<1> QED
  BY <1>2, <1>3, <1>4 DEF ReplayInv, R!ViewContinues

\* What a page makes of an event is what it was led to.
LEMMA ReceiveKeeps ==
  ASSUME ReplayInv, NEW v \in Pages, R!Receive(v)
  PROVE  ReplayInv'
<1>1. /\ R!TypeOK /\ pageLink \subseteq Pages /\ pageInbox \in [Pages -> Seq(PageEvents)]
      /\ points \in [Pages -> Showings] /\ button \in [Pages -> BOOLEAN] /\ v \in pageLink
      /\ pageInbox[v] \in Seq(PageEvents) /\ pageInbox[v] # <<>>
  BY ReplayFacts DEF ReplayInv, R!TypeOK, R!Receive
<1>2. PICK m \in PageEvents : m = Head(pageInbox[v])
  BY <1>1, HeadTailProperties
<1>3. PICK rest \in Seq(PageEvents) : rest = Tail(pageInbox[v])
  BY <1>1, HeadTailProperties
<1>4. /\ pageInbox' = [pageInbox EXCEPT ![v] = rest]
      /\ UNCHANGED <<day, index, playing, speed, timers, pageLink, sent, moved>>
  BY <1>3 DEF R!Receive, R!server
<1> DEFINE t == Taken(v, points[v], m)
<1>5. PICK e \in Showings : Leads(v, points[v], pageInbox[v], e) /\ Current(v, e)
  BY <1>1 DEF ReplayInv, Led
<1>6. Leads(v, t, rest, e)
  BY <1>1, <1>2, <1>3, <1>5, LeadsTail
<1>7. t \in Showings /\ t.joined
  BY <1>3, <1>6, LeadsShows, LenProperties
<1>8. points' = [points EXCEPT ![v] = t] /\ button' \in [Pages -> BOOLEAN]
  <2>1. CASE m.event = "load"
    <3>1. R!TakeLoad(v, m.day)
      BY <1>2, <2>1 DEF R!Receive
    <3>2. t = IF m.day = R!None THEN points[v] ELSE R!Empty
      BY <2>1 DEF Taken
    <3> QED
      BY <1>1, <3>1, <3>2 DEF R!TakeLoad
  <2>2. CASE m.event = "data"
    <3>1. R!TakeData(v, m)
      BY <1>2, <2>2 DEF R!Receive
    <3>2. t = [day |-> m.day, last |-> m.to, joined |-> points[v].joined /\ Follows(v, points[v], m)]
      BY <2>2 DEF Taken
    <3> HIDE DEF t
    <3> QED
      BY <1>1, <3>1, <3>2 DEF R!TakeData, Follows
  <2>3. CASE m.event = "state"
    <3>1. R!TakeState(v, m.playing) /\ m.playing \in BOOLEAN
      BY <1>2, <2>3 DEF R!Receive, PageEvents, R!State, R!Load, R!Data
    <3>2. t = points[v]
      BY <2>3 DEF Taken
    <3> QED
      BY <1>1, <3>1, <3>2 DEF R!TakeState
  <2> QED
    BY <2>1, <2>2, <2>3 DEF PageEvents, R!Load, R!Data, R!State
<1> HIDE DEF t
<1>9. R!TypeOK'
  <2>1. pageInbox' \in [Pages -> Seq(PageEvents)] /\ points' \in [Pages -> Showings]
    BY <1>1, <1>4, <1>7, <1>8
  <2> QED
    BY <1>1, <1>4, <1>8, <2>1 DEF R!TypeOK, PageEvents, Showings
<1>10. \A u \in Pages : points'[u].joined
  BY <1>1, <1>7, <1>8 DEF ReplayInv, R!ViewContinues
<1>11. Led(v)'
  <2>1. Leads(v, points'[v], pageInbox'[v], e) /\ Current(v, e)'
    BY <1>1, <1>4, <1>5, <1>6, <1>8 DEF Current
  <2> QED
    BY <2>1, ServiceLeads
<1>12. ASSUME NEW u \in pageLink, u # v PROVE Led(u)'
  <2>1. PICK e2 \in Showings : Leads(u, points[u], pageInbox[u], e2) /\ Current(u, e2)
    BY DEF ReplayInv, Led
  <2>2. Leads(u, points'[u], pageInbox'[u], e2) /\ Current(u, e2)'
    BY <1>1, <1>4, <1>8, <1>12, <2>1 DEF Current
  <2> QED
    BY <2>2, ServiceLeads
<1> QED
  BY <1>4, <1>9, <1>10, <1>11, <1>12 DEF ReplayInv, R!ViewContinues

-----------------------------------------------------------------------------
LEMMA ReplayInit == ASSUME R!Init PROVE ReplayInv
<1>1. /\ day = R!None /\ index = 0 /\ playing = FALSE /\ speed \in Speeds /\ timers = 0
      /\ pageLink = {} /\ pageInbox = [v \in Pages |-> <<>>] /\ moved = {}
      /\ button = [v \in Pages |-> FALSE] /\ points = [v \in Pages |-> R!Empty]
      /\ sent \in [Pages -> {<<R!Command("load", d)>> : d \in Days \cup {R!None}}]
  BY DEF R!Init
<1>2. \A d \in Days \cup {R!None} : <<R!Command("load", d)>> \in Seq(R!Commands)
  BY DEF R!Command, R!Commands
<1>3. sent \in [Pages -> Seq(R!Commands)]
  BY <1>1, <1>2
<1>4. R!Empty \in Showings /\ R!Empty.joined /\ Length \in Nat
  BY ReplayAssumption DEF Showings, R!Empty
<1>5. points \in [Pages -> Showings] /\ R!ViewContinues
  BY <1>1, <1>4 DEF R!ViewContinues
<1>6. pageInbox \in [Pages -> Seq(PageEvents)]
  BY <1>1
<1>7. R!TypeOK
  <2>0. index \in 0..Length /\ playing \in BOOLEAN
    <3>1. index = 0 /\ Length \in Nat
      BY <1>1, <1>4
    <3>2. index \in 0..Length
      BY <3>1
    <3>3. playing = FALSE
      BY <1>1
    <3> QED
      BY <3>2, <3>3
  <2>1. timers = (IF playing THEN 1 ELSE 0)
    BY <1>1
  <2>2. pageLink \subseteq Pages /\ moved \subseteq Pages /\ button \in [Pages -> BOOLEAN]
    BY <1>1
  <2> QED
    BY <1>1, <1>3, <1>5, <1>6, <2>0, <2>1, <2>2 DEF R!TypeOK, PageEvents, Showings
<1> QED
  BY <1>1, <1>5, <1>7 DEF ReplayInv

LEMMA ReplayKeeps ==
  ASSUME ReplayInv, [R!Next]_replayVars
  PROVE  ReplayInv'
<1>1. CASE UNCHANGED replayVars
  <2>1. R!TypeOK'
    BY <1>1 DEF replayVars, ReplayInv, R!TypeOK
  <2> QED
    BY <1>1, <2>1, SilentKeeps DEF replayVars, Current
<1> QED
  BY <1>1, TickKeeps, HandleKeeps, HandleOtherKeeps, ConnectKeeps, DropKeeps, OnPlayClickedKeeps, OnChosenKeeps,
     ReceiveKeeps DEF R!Next, R!HandleAny

-----------------------------------------------------------------------------
(***************************************************************************)
(* The live programs                                                        *)
(***************************************************************************)
Destinations == {"log", "slack", "pagerduty", "webhook", "telegram", "email"}
Inputs == {"z", "zero"} \cup L!Books

\* What a program keeps of its ticks: the history ends in the ticks since the last gap.
Sighted ==
  program = "live" =>
    /\ seen <= Len(hist)
    /\ \A i \in 1..Len(hist) : i > Len(hist) - seen => hist[i] = "book"
\* The demo's windows hold books as they are.
ZeroFree == program = "demo" => \A i \in 1..Len(window) : window[i] # "zero"
LastZero == window # <<>> /\ window[Len(window)] = "zero" => seen < NormWindow
TicksInv ==
  /\ program \in {"live", "demo"} /\ lastBook \in L!Books /\ seen \in 0..NormWindow
  /\ hist \in Seq(L!Books) /\ Len(hist) <= NormWindow
  /\ window \in Seq(Inputs) /\ Len(window) <= Window
  /\ Sighted /\ ZeroFree /\ LastZero

\* While an alert is routed, the destinations not yet turned to are pending.
RouteInv ==
  /\ configured \subseteq Destinations /\ offered \subseteq configured /\ pending \in Seq(Destinations)
  /\ liveLink \in {"connecting", "open", "routing", "sleeping", "ended"}
  /\ pending # <<>> => liveLink = "routing"
  /\ program = "live" /\ alerted => configured \subseteq offered \cup L!ToSet(pending) \/ logRaised
Stage4Inv ==
  /\ symbols \subseteq {"BTCUSDT"}
  /\ program = "demo" => stage4 = "disabled"
  /\ stage4 = "enabled" => ~alerted
LiveInv == TicksInv /\ RouteInv /\ Stage4Inv

-----------------------------------------------------------------------------
(* The last n of a sequence *)

\* c is what is left of s in a window of n when e has come.
Moved(T, n, s, e, c) ==
  /\ c \in Seq(T) /\ Len(c) = (IF Len(s) = n THEN n ELSE Len(s) + 1) /\ c[Len(c)] = e
  /\ \A i \in 1..(Len(c) - 1) : c[i] = IF Len(s) = n THEN s[i + 1] ELSE s[i]

LEMMA CutAppend ==
  ASSUME NEW T, NEW s \in Seq(T), NEW e \in T, NEW n \in Nat \ {0}, Len(s) <= n,
         NEW c, c = L!Cut(Append(s, e), n)
  PROVE  Moved(T, n, s, e, c)
<1>1. PICK q \in Seq(T) : q = Append(s, e)
  BY AppendProperties
<1>2. /\ Len(s) \in Nat /\ Len(q) = Len(s) + 1 /\ q[Len(s) + 1] = e
      /\ \A i \in 1..Len(s) : q[i] = s[i]
  BY <1>1, AppendProperties, LenProperties
<1>3. c = IF Len(q) > n THEN Tail(q) ELSE q
  BY <1>1 DEF L!Cut
<1>4. CASE Len(s) = n
  <2>1. c = Tail(q) /\ q # <<>>
    BY <1>2, <1>3, <1>4, EmptySeq
  <2>2. c \in Seq(T) /\ Len(c) = Len(q) - 1 /\ \A i \in 1..Len(c) : c[i] = q[i + 1]
    BY <2>1, HeadTailProperties
  <2>3. Len(c) = n /\ c[n] = e
    BY <1>2, <1>4, <2>2
  <2>4. \A i \in 1..(n - 1) : c[i] = s[i + 1]
    BY <1>2, <1>4, <2>2, <2>3
  <2> QED
    BY <1>4, <2>2, <2>3, <2>4 DEF Moved
<1>5. CASE Len(s) # n
  <2>1. c = q
    BY <1>2, <1>3, <1>5
  <2>2. \A i \in 1..(Len(c) - 1) : c[i] = s[i]
    BY <1>2, <2>1
  <2> QED
    BY <1>2, <1>5, <2>1, <2>2 DEF Moved
<1> QED
  BY <1>4, <1>5

LEMMA BoundedIsShort ==
  ASSUME NEW T, NEW n \in Nat, NEW s
  PROVE  s \in L!BoundedSeq(T, n) <=> s \in Seq(T) /\ Len(s) <= n
<1>1. ASSUME s \in L!BoundedSeq(T, n) PROVE s \in Seq(T) /\ Len(s) <= n
  <2>1. PICK m \in 0..n : s \in [1..m -> T]
    BY <1>1 DEF L!BoundedSeq, L!SeqOf
  <2>2. m \in Nat /\ m <= n
    BY <2>1
  <2>3. s \in Seq(T)
    BY <2>1, <2>2, SeqDef
  <2>4. Len(s) \in Nat /\ 1..Len(s) = 1..m
    BY <2>1, <2>3, LenProperties
  <2>5. Len(s) = m
    BY <2>2, <2>4
  <2> QED
    BY <2>2, <2>3, <2>5
<1>2. ASSUME s \in Seq(T), Len(s) <= n PROVE s \in L!BoundedSeq(T, n)
  <2>1. Len(s) \in 0..n /\ s \in [1..Len(s) -> T]
    BY <1>2, LenProperties
  <2> QED
    BY <2>1 DEF L!BoundedSeq, L!SeqOf
<1> QED
  BY <1>1, <1>2

-----------------------------------------------------------------------------
(* What a program learns of its ticks *)

LEMMA TicksTypes ==
  ASSUME TicksInv, NEW book \in L!Books
  PROVE  /\ NormWindow \in Nat \ 0..1 /\ Window \in Nat \ {0} /\ book \in Inputs
         /\ Len(hist) \in 0..NormWindow /\ Len(window) \in 0..Window
         /\ seen \in 0..NormWindow
<1>1. NormWindow \in Nat \ 0..1 /\ Window \in Nat \ {0} /\ book \in Inputs
  BY LiveAssumption DEF Inputs
<1>2. Len(hist) \in Nat /\ Len(window) \in Nat
  BY LenProperties DEF TicksInv
<1> QED
  BY <1>1, <1>2 DEF TicksInv

LEMMA ObservedSeen ==
  ASSUME TicksInv, NEW book \in L!Books, L!Observe(book)
  PROVE  /\ seen' \in 0..NormWindow
         /\ book = "gap" => seen' = 0
         /\ book # "gap" => seen' = IF seen = NormWindow THEN seen ELSE seen + 1
<1>1. NormWindow \in Nat \ 0..1 /\ seen \in 0..NormWindow
  BY TicksTypes
<1>2. seen' = IF book = "gap" THEN 0 ELSE IF seen = NormWindow THEN seen ELSE seen + 1
  BY DEF L!Observe
<1> QED
  BY <1>1, <1>2

\* The history ends in the ticks since the last gap, of which it drops none
\* before the oldest.
LEMMA HistoryKeeps ==
  ASSUME TicksInv, program = "live", NEW book \in L!Books, L!Feed(book), L!Observe(book)
  PROVE  /\ hist' \in Seq(L!Books) /\ Len(hist') \in 0..NormWindow
         /\ seen' <= Len(hist')
         /\ \A i \in 1..Len(hist') : i > Len(hist') - seen' => hist'[i] = "book"
<1>1. /\ NormWindow \in Nat \ 0..1 /\ Len(hist) \in 0..NormWindow /\ seen \in 0..NormWindow
      /\ seen <= Len(hist)
  BY TicksTypes DEF TicksInv, Sighted
<1>s. hist \in Seq(L!Books) /\ \A i \in 1..Len(hist) : i > Len(hist) - seen => hist[i] = "book"
  BY TicksTypes DEF TicksInv, Sighted
<1>2. PICK h : h = hist'
  OBVIOUS
<1>3. PICK n \in 0..NormWindow : n = Len(hist)
  BY <1>1
<1>4. /\ h \in Seq(L!Books) /\ Len(h) = (IF n = NormWindow THEN n ELSE n + 1) /\ h[Len(h)] = book
      /\ \A i \in 1..(Len(h) - 1) : h[i] = IF n = NormWindow THEN hist[i + 1] ELSE hist[i]
  <2>1. h = L!Cut(Append(hist, book), NormWindow)
    BY <1>2 DEF L!Feed
  <2>2. NormWindow \in Nat \ {0} /\ Len(hist) <= NormWindow
    BY <1>1
  <2>3. Moved(L!Books, NormWindow, hist, book, h)
    BY <1>s, <2>1, <2>2, CutAppend
  <2> QED
    BY <1>3, <2>3 DEF Moved
<1>5. PICK k \in 0..NormWindow : k = seen'
  BY ObservedSeen
<1>6. PICK m \in 1..NormWindow : m = Len(h)
  BY <1>1, <1>4
<1>7. m = IF n = NormWindow THEN n ELSE n + 1
  BY <1>4, <1>6
<1>8. CASE book = "gap"
  <2>1. k = 0
    BY <1>5, <1>8, ObservedSeen
  <2>2. h \in Seq(L!Books) /\ m \in 0..NormWindow /\ k <= m /\ \A i \in 1..m : ~(i > m - k)
    BY <1>4, <2>1
  <2> QED
    BY <1>2, <1>5, <1>6, <2>2
<1>9. CASE book # "gap"
  <2>1. book = "book"
    BY <1>9 DEF L!Books
  <2>2. k = IF seen = NormWindow THEN seen ELSE seen + 1
    BY <1>5, <1>9, ObservedSeen
  <2>3. k <= m
    BY <1>1, <1>3, <1>7, <2>2
  <2>4. ASSUME NEW i \in 1..m, i > m - k PROVE h[i] = "book"
    <3>1. CASE i = m
      BY <1>4, <1>6, <2>1, <3>1
    <3>2. CASE i # m /\ n = NormWindow
      <4>1. i \in 1..(m - 1) /\ i + 1 \in 1..n /\ i + 1 > n - seen
        <5>1. m = n /\ n \in Nat /\ k \in Nat /\ seen \in Nat /\ k <= seen + 1 /\ (seen = n => k = n)
          BY <1>1, <1>3, <1>5, <1>6, <1>7, <2>2, <3>2
        <5>2. i + 1 > n - seen
          BY <2>4, <5>1
        <5> QED
          BY <3>2, <5>1, <5>2
      <4>2. h[i] = hist[i + 1]
        BY <1>4, <1>6, <3>2, <4>1
      <4> QED
        BY <1>s, <1>3, <4>1, <4>2
    <3>3. CASE i # m /\ n # NormWindow
      <4>1. i \in 1..(m - 1) /\ i \in 1..n /\ i > n - seen
        <5>1. m = n + 1 /\ n \in Nat /\ k \in Nat /\ seen \in Nat /\ k <= seen + 1
          BY <1>1, <1>3, <1>5, <1>6, <1>7, <2>2, <3>3
        <5>2. i > n - seen
          BY <2>4, <5>1
        <5> QED
          BY <3>3, <5>1, <5>2
      <4>2. h[i] = hist[i]
        BY <1>4, <1>6, <3>3, <4>1
      <4> QED
        BY <1>s, <1>3, <4>1, <4>2
    <3> QED
      BY <3>1, <3>2, <3>3
  <2>5. h \in Seq(L!Books) /\ m \in 0..NormWindow
    BY <1>4
  <2> QED
    BY <1>2, <1>5, <1>6, <2>3, <2>4, <2>5
<1> QED
  BY <1>8, <1>9

\* An input that is zero has a gap behind it in the history.
LEMMA NormalizedZero ==
  ASSUME TicksInv, program = "live", NEW book \in L!Books, L!Feed(book), L!Observe(book),
         L!Normalize(hist') = "zero"
  PROVE  seen' < NormWindow
<1>1. /\ NormWindow \in Nat \ 0..1 /\ Len(hist') \in 0..NormWindow /\ seen' <= Len(hist')
      /\ \A i \in 1..Len(hist') : i > Len(hist') - seen' => hist'[i] = "book"
  BY TicksTypes, HistoryKeeps
<1>2. DOMAIN hist' = 1..Len(hist') /\ seen' \in 0..NormWindow
  BY HistoryKeeps, ObservedSeen, LenProperties
<1>3. Len(hist') < 2 \/ \E i \in 1..Len(hist') : hist'[i] = "gap"
  <2>1. "zero" # "z"
    OBVIOUS
  <2> QED
    BY <1>2, <2>1 DEF L!Normalize
<1>4. CASE Len(hist') < 2
  BY <1>1, <1>2, <1>4
<1>5. ASSUME NEW i \in 1..Len(hist'), hist'[i] = "gap" PROVE seen' < NormWindow
  <2>1. ~(i > Len(hist') - seen')
    BY <1>1, <1>5
  <2> QED
    BY <1>1, <1>2, <2>1
<1> QED
  BY <1>3, <1>4, <1>5

LEMMA FeedKeeps ==
  ASSUME TicksInv, program = "live", NEW book \in L!Books, L!Feed(book), L!Observe(book),
         UNCHANGED program, lastBook' \in L!Books
  PROVE  TicksInv'
<1>1. /\ hist' \in Seq(L!Books) /\ Len(hist') \in 0..NormWindow /\ seen' \in 0..NormWindow
      /\ NormWindow \in Nat \ 0..1
  BY HistoryKeeps, ObservedSeen, TicksTypes
<1>2. Sighted'
  BY HistoryKeeps DEF Sighted
<1>3. ZeroFree'
  BY DEF ZeroFree
<1>4. PICK z \in Inputs : z = L!Normalize(hist')
  BY DEF Inputs, L!Normalize
<1>5. PICK w : w = window'
  OBVIOUS
<1>6. w \in Seq(Inputs) /\ Len(w) <= Window /\ w[Len(w)] = z
  <2>1. w = L!Cut(Append(window, z), Window)
    BY <1>4, <1>5 DEF L!Feed
  <2>2. window \in Seq(Inputs) /\ Window \in Nat \ {0} /\ Len(window) \in Nat /\ Len(window) <= Window
    BY TicksTypes DEF TicksInv
  <2>3. Moved(Inputs, Window, window, z, w)
    BY <2>1, <2>2, CutAppend
  <2> QED
    BY <2>2, <2>3 DEF Moved
<1>7. LastZero'
  BY <1>4, <1>5, <1>6, NormalizedZero DEF LastZero
<1> QED
  BY <1>1, <1>2, <1>3, <1>5, <1>6, <1>7 DEF TicksInv

LEMMA DemoTickKeeps ==
  ASSUME TicksInv, program = "demo", NEW book \in L!Books, L!DemoTick(book),
         UNCHANGED <<program, lastBook, hist>>
  PROVE  TicksInv'
<1>1. window' = L!Cut(Append(window, book), Window) /\ L!Observe(book)
  BY DEF L!DemoTick
<1>2. seen' \in 0..NormWindow /\ book \in Inputs /\ book # "zero"
  BY <1>1, ObservedSeen, TicksTypes DEF L!Books
<1>3. /\ window \in Seq(Inputs) /\ Window \in Nat \ {0} /\ Len(window) \in Nat /\ Len(window) <= Window
      /\ \A i \in 1..Len(window) : window[i] # "zero"
  BY TicksTypes DEF TicksInv, ZeroFree
<1>4. PICK w : w = window'
  OBVIOUS
<1>5. /\ w \in Seq(Inputs) /\ Len(w) = (IF Len(window) = Window THEN Window ELSE Len(window) + 1)
      /\ w[Len(w)] = book
      /\ \A i \in 1..(Len(w) - 1) : w[i] = IF Len(window) = Window THEN window[i + 1] ELSE window[i]
  <2>1. Moved(Inputs, Window, window, book, w)
    BY <1>1, <1>2, <1>3, <1>4, CutAppend
  <2> QED
    BY <2>1 DEF Moved
<1>6. ASSUME NEW i \in 1..Len(w) PROVE w[i] # "zero"
  <2>1. CASE i = Len(w)
    BY <1>2, <1>5, <2>1
  <2>2. CASE i # Len(w)
    <3>1. PICK m \in Nat : m = Len(window)
      BY <1>3
    <3>2. PICK n \in Nat : n = Len(w) /\ n = IF m = Window THEN Window ELSE m + 1
      BY <1>3, <1>5, <3>1
    <3>3. i \in 1..(n - 1) /\ (m = Window => i + 1 \in 1..m) /\ (m # Window => i \in 1..m)
      BY <2>2, <3>1, <3>2
    <3>4. w[i] = IF m = Window THEN window[i + 1] ELSE window[i]
      BY <1>5, <3>1, <3>2, <3>3
    <3> QED
      BY <1>3, <3>1, <3>3, <3>4
  <2> QED
    BY <2>1, <2>2
<1>7. ZeroFree'
  BY <1>4, <1>6 DEF ZeroFree
<1>8. LastZero'
  <2>1. ASSUME w # <<>> PROVE w[Len(w)] # "zero"
    BY <1>2, <1>5
  <2> QED
    BY <1>4, <2>1 DEF LastZero
<1>9. Len(w) <= Window
  BY <1>3, <1>5
<1>10. Sighted'
  BY DEF Sighted
<1> QED
  BY <1>2, <1>4, <1>5, <1>7, <1>8, <1>9, <1>10 DEF TicksInv

-----------------------------------------------------------------------------
(* What it does about them *)

LEMMA SetOfRest ==
  ASSUME NEW T, NEW q \in Seq(T), q # <<>>
  PROVE  L!ToSet(q) \subseteq {Head(q)} \cup L!ToSet(Tail(q))
<1>1. /\ Len(q) \in Nat \ {0} /\ Head(q) = q[1] /\ DOMAIN q = 1..Len(q)
      /\ DOMAIN Tail(q) = 1..(Len(q) - 1) /\ \A i \in 1..(Len(q) - 1) : Tail(q)[i] = q[i + 1]
  <2>1. Len(q) \in Nat \ {0} /\ DOMAIN q = 1..Len(q) /\ Tail(q) \in Seq(T) /\ Len(Tail(q)) = Len(q) - 1
    BY EmptySeq, LenProperties, HeadTailProperties
  <2>2. DOMAIN Tail(q) = 1..Len(Tail(q))
    BY <2>1, LenProperties
  <2>3. Head(q) = q[1] /\ \A i \in 1..Len(Tail(q)) : Tail(q)[i] = q[i + 1]
    BY HeadTailProperties
  <2> QED
    BY <2>1, <2>2, <2>3
<1>2. ASSUME NEW i \in 1..Len(q), i # 1 PROVE q[i] \in {Tail(q)[j] : j \in DOMAIN Tail(q)}
  <2>1. i - 1 \in 1..(Len(q) - 1) /\ (i - 1) + 1 = i
    BY <1>1, <1>2
  <2> QED
    BY <1>1, <2>1
<1>3. ASSUME NEW x \in L!ToSet(q) PROVE x \in {Head(q)} \cup L!ToSet(Tail(q))
  <2>1. PICK i \in 1..Len(q) : x = q[i]
    BY <1>1 DEF L!ToSet
  <2> QED
    BY <1>1, <1>2, <2>1 DEF L!ToSet
<1> QED
  BY <1>3

LEMMA ChannelsAreAll == L!Channels \in Seq(Destinations) /\ Destinations \subseteq L!ToSet(L!Channels)
<1>1. L!Channels \in Seq(Destinations)
  BY DEF L!Channels, Destinations
<1>2. DOMAIN L!Channels = 1..6
  BY DEF L!Channels
<1>3. /\ L!Channels[1] = "log" /\ L!Channels[2] = "slack" /\ L!Channels[3] = "pagerduty"
      /\ L!Channels[4] = "webhook" /\ L!Channels[5] = "telegram" /\ L!Channels[6] = "email"
  BY DEF L!Channels
<1>4. {1, 2, 3, 4, 5, 6} \subseteq DOMAIN L!Channels
  BY <1>2
<1> HIDE DEF L!Channels
<1> QED
  BY <1>1, <1>3, <1>4 DEF Destinations, L!ToSet

\* One symbol is not two.
LEMMA OneSymbolVetoes ==
  ASSUME Stage4Inv, NEW stream, L!UpdateSymbol(stream), UNCHANGED stage4
  PROVE  /\ symbols' \subseteq {"BTCUSDT"}
         /\ L!Stage4Passes => stage4 # "enabled"
<1>1. symbols' \subseteq {"BTCUSDT"}
  BY DEF Stage4Inv, L!UpdateSymbol, L!TickSymbol
<1>2. symbols' = {} \/ symbols' = {"BTCUSDT"}
  BY <1>1
<1>3. \A S : L!Cardinality(S) = Cardinality(S)
  BY DEF L!Cardinality, L!IsFiniteSet, Cardinality, IsFiniteSet
<1>4. Cardinality({}) = 0 /\ Cardinality({"BTCUSDT"}) = 1
  BY FS_EmptySet, FS_Singleton
<1>5. Cardinality(symbols') \in {0, 1}
  BY <1>2, <1>4
<1>6. ~(L!Cardinality(symbols') >= 2)
  BY <1>3, <1>5
<1> QED
  BY <1>1, <1>6 DEF L!Stage4Passes

\* A step of the loop that handles no tick.
LEMMA LoopKeeps ==
  ASSUME LiveInv, UNCHANGED <<program, configured, stage4, lastBook, hist, window, symbols,
                              pending, offered, logRaised, alerted, seen>>,
         liveLink' \in {"connecting", "open", "routing", "sleeping", "ended"},
         pending # <<>> => liveLink' = "routing"
  PROVE  LiveInv'
<1>1. TicksInv'
  BY DEF LiveInv, TicksInv, Sighted, ZeroFree, LastZero
<1>2. RouteInv'
  BY DEF LiveInv, RouteInv
<1>3. Stage4Inv'
  BY DEF LiveInv, Stage4Inv
<1> QED
  BY <1>1, <1>2, <1>3 DEF LiveInv

LEMMA ProcessTickKeeps ==
  ASSUME LiveInv, L!Receives("live"), NEW book \in L!Books, NEW stream, L!ProcessTick(book, stream),
         UNCHANGED <<program, configured, stage4>>, lastBook' \in L!Books
  PROVE  LiveInv'
<1>1. program = "live" /\ liveLink = "open" /\ L!Feed(book) /\ L!Observe(book)
  BY DEF L!Receives, L!ProcessTick
<1>2. TicksInv'
  BY <1>1, FeedKeeps DEF LiveInv
<1>3. CASE UNCHANGED <<liveLink, pending, offered, logRaised, alerted>>
  <2>1. RouteInv'
    BY <1>3 DEF LiveInv, RouteInv
  <2>2. symbols' \subseteq {"BTCUSDT"}
    <3>1. UNCHANGED symbols \/ L!UpdateSymbol(stream)
      BY DEF L!ProcessTick
    <3> QED
      BY <3>1, OneSymbolVetoes DEF LiveInv, Stage4Inv
  <2>3. Stage4Inv'
    BY <1>3, <2>2 DEF LiveInv, Stage4Inv
  <2> QED
    BY <1>2, <2>1, <2>3 DEF LiveInv
<1>4. CASE L!UpdateSymbol(stream) /\ L!Stage4Passes /\ L!Fire
  <2>1. /\ alerted' = TRUE /\ liveLink' = "routing" /\ offered' = {} /\ logRaised' = FALSE
        /\ pending' = L!Channels
    BY <1>4 DEF L!Fire
  <2>2. pending' \in Seq(Destinations) /\ configured \subseteq L!ToSet(pending')
    BY <2>1, ChannelsAreAll DEF LiveInv, RouteInv
  <2>3. RouteInv'
    BY <2>1, <2>2 DEF LiveInv, RouteInv
  <2>4. Stage4Inv'
    BY <1>1, <1>4, OneSymbolVetoes DEF LiveInv, Stage4Inv
  <2> QED
    BY <1>2, <2>3, <2>4 DEF LiveInv
<1> QED
  BY <1>3, <1>4 DEF L!ProcessTick, L!NoAlert, L!alerting

\* Turning to the next destination, or giving the rest up as the log raises.
LEMMA RoutingKeeps ==
  ASSUME LiveInv, pending # <<>>,
         UNCHANGED <<program, configured, stage4, lastBook, hist, window, symbols, alerted, seen>>,
         \/ L!Offer /\ liveLink = "routing"
         \/ L!Abandon /\ logRaised' = TRUE
  PROVE  LiveInv'
<1>1. TicksInv' /\ Stage4Inv'
  BY DEF LiveInv, TicksInv, Sighted, ZeroFree, LastZero, Stage4Inv
<1>2. RouteInv'
  <2>1. CASE L!Offer /\ liveLink = "routing"
    <3>1. /\ pending' = Tail(pending) /\ offered' = offered \cup ({Head(pending)} \cap configured)
          /\ UNCHANGED <<liveLink, logRaised>>
      BY <2>1 DEF L!Offer
    <3>2. pending \in Seq(Destinations)
      BY DEF LiveInv, RouteInv
    <3>3. pending' \in Seq(Destinations)
      BY <3>1, <3>2, HeadTailProperties
    <3>4. L!ToSet(pending) \subseteq {Head(pending)} \cup L!ToSet(pending')
      BY <3>1, <3>2, SetOfRest
    <3> QED
      BY <2>1, <3>1, <3>3, <3>4 DEF LiveInv, RouteInv
  <2>2. CASE L!Abandon /\ logRaised' = TRUE
    <3>1. pending' = <<>> /\ liveLink' = "sleeping" /\ offered' = offered /\ logRaised' = TRUE
      BY <2>2 DEF L!Abandon, L!Reconnect
    <3>2. pending' \in Seq(Destinations)
      BY <3>1
    <3> QED
      BY <3>1, <3>2 DEF LiveInv, RouteInv
  <2> QED
    BY <2>1, <2>2
<1> QED
  BY <1>1, <1>2 DEF LiveInv

LEMMA DemoMessageKeeps ==
  ASSUME LiveInv, NEW book \in L!Books, L!DemoMessage(book)
  PROVE  LiveInv'
<1>1. /\ program = "demo" /\ liveLink = "open" /\ L!DemoTick(book)
      /\ UNCHANGED <<program, configured, stage4, lastBook, hist, symbols>>
  BY DEF L!DemoMessage, L!Receives, L!config
<1>2. TicksInv'
  BY <1>1, DemoTickKeeps DEF LiveInv
<1>3. UNCHANGED <<pending, offered, logRaised>> /\ liveLink' \in {liveLink, "sleeping"}
  BY <1>1 DEF L!DemoTick, L!Reconnect, L!NoAlert, L!alerting
<1>4. RouteInv'
  BY <1>1, <1>3 DEF LiveInv, RouteInv
<1>5. Stage4Inv'
  BY <1>1 DEF LiveInv, Stage4Inv
<1> QED
  BY <1>2, <1>4, <1>5 DEF LiveInv

LEMMA LiveInit == ASSUME L!Init PROVE LiveInv
<1>1. /\ liveLink = "connecting" /\ lastBook = "gap" /\ hist = <<>> /\ window = <<>> /\ symbols = {}
      /\ pending = <<>> /\ offered = {} /\ alerted = FALSE /\ seen = 0
  BY DEF L!Init
<1>2. /\ program \in {"live", "demo"} /\ configured \subseteq Destinations
      /\ program = "demo" => stage4 = "disabled"
  BY DEF L!Init, L!CmdLive, L!RunLiveDemo, Destinations
<1>3. NormWindow \in Nat \ 0..1 /\ Window \in Nat \ {0}
  BY LiveAssumption
<1>4. TicksInv
  <2>1. lastBook \in L!Books /\ seen \in 0..NormWindow
    BY <1>1, <1>3 DEF L!Books
  <2>2. hist \in Seq(L!Books) /\ Len(hist) = 0 /\ window \in Seq(Inputs) /\ Len(window) = 0
    BY <1>1
  <2>3. Sighted /\ ZeroFree /\ LastZero
    BY <1>1, <1>3, <2>2 DEF Sighted, ZeroFree, LastZero
  <2> QED
    BY <1>2, <1>3, <2>1, <2>2, <2>3 DEF TicksInv
<1>5. RouteInv
  <2>1. pending \in Seq(Destinations)
    BY <1>1
  <2> QED
    BY <1>1, <1>2, <2>1 DEF RouteInv
<1>6. Stage4Inv
  BY <1>1, <1>2 DEF Stage4Inv
<1> QED
  BY <1>4, <1>5, <1>6 DEF LiveInv

LEMMA LiveKeeps ==
  ASSUME LiveInv, [L!Next]_liveVars
  PROVE  LiveInv'
<1> USE DEF L!config, L!learnt, L!alerting, L!history, L!Reconnect
<1>1. /\ liveLink \in {"connecting", "open", "routing", "sleeping", "ended"}
      /\ pending # <<>> => liveLink = "routing"
      /\ lastBook \in L!Books
  BY DEF LiveInv, TicksInv, RouteInv
<1>2. CASE L!Connect
  BY <1>1, <1>2, LoopKeeps DEF L!Connect
<1>3. CASE L!Lost
  BY <1>1, <1>3, LoopKeeps DEF L!Lost
<1>4. CASE L!Closed
  BY <1>1, <1>4, LoopKeeps DEF L!Closed
<1>5. CASE L!Wake
  BY <1>1, <1>5, LoopKeeps DEF L!Wake
<1>6. CASE L!Interrupt
  BY <1>1, <1>6, LoopKeeps DEF L!Interrupt
<1>7. CASE L!Cancelled
  BY <1>1, <1>7, LoopKeeps DEF L!Cancelled
<1>8. CASE L!Stop
  BY <1>1, <1>8, LoopKeeps DEF L!Stop
<1>9. CASE L!Break
  BY <1>1, <1>9, LoopKeeps DEF L!Break
<1>10. CASE L!NotJson
  BY <1>1, <1>10, LoopKeeps DEF L!NotJson, L!Receives
<1>11. CASE L!Ignored \/ UNCHANGED liveVars
  BY <1>1, <1>11, LoopKeeps DEF L!Ignored, L!vars, liveVars
<1>12. CASE L!ParseTrade
  <2>1. L!Receives("live") /\ L!ProcessTick(lastBook, "trade") /\ UNCHANGED <<program, configured, stage4, lastBook>>
    BY <1>12 DEF L!ParseTrade
  <2> QED
    BY <1>1, <2>1, ProcessTickKeeps
<1>13. ASSUME NEW book \in L!Books, L!ParseDepth(book) PROVE LiveInv'
  <2>1. /\ L!Receives("live") /\ L!ProcessTick(book, "depth") /\ UNCHANGED <<program, configured, stage4>>
        /\ lastBook' = book
    BY <1>13 DEF L!ParseDepth
  <2> QED
    BY <2>1, ProcessTickKeeps
<1>14. ASSUME NEW book \in L!Books, L!DemoMessage(book) PROVE LiveInv'
  BY <1>14, DemoMessageKeeps
<1>15. CASE L!AppendLog
  BY <1>15, RoutingKeeps DEF L!AppendLog
<1>16. CASE L!Deliver
  BY <1>16, RoutingKeeps DEF L!Deliver
<1>17. CASE L!RouteReturns
  BY <1>1, <1>17, LoopKeeps DEF L!RouteReturns
<1> QED
  BY <1>2, <1>3, <1>4, <1>5, <1>6, <1>7, <1>8, <1>9, <1>10, <1>11, <1>12, <1>13, <1>14, <1>15, <1>16, <1>17
     DEF L!Next, L!Routing

\* The parts of the invariant are the module's properties, and its types.
LEMMA LiveInvHolds ==
  ASSUME LiveInv
  PROVE  L!TypeOK /\ L!BlindOnlyWhileRecent /\ L!EveryChannelIsTried /\ L!EnabledStage4NeverAlerts
<1>1. /\ NormWindow \in Nat /\ Window \in Nat
      /\ hist \in Seq(L!Books) /\ Len(hist) <= NormWindow
      /\ window \in Seq(Inputs) /\ Len(window) <= Window
  BY LiveAssumption DEF LiveInv, TicksInv
<1>2. hist \in L!BoundedSeq(L!Books, NormWindow) /\ window \in L!BoundedSeq(Inputs, Window)
  BY <1>1, BoundedIsShort
<1>3. L!ToSet(pending) \subseteq L!ToSet(L!Channels)
  <2>1. pending \in Seq(Destinations)
    BY DEF LiveInv, RouteInv
  <2>2. DOMAIN pending = 1..Len(pending) /\ \A i \in 1..Len(pending) : pending[i] \in Destinations
    BY <2>1, LenProperties, ElementOfSeq
  <2> QED
    BY <2>2, ChannelsAreAll DEF L!ToSet
<1>4. L!TypeOK
  BY <1>2, <1>3 DEF LiveInv, TicksInv, RouteInv, L!TypeOK, Inputs
<1>5. L!BlindOnlyWhileRecent
  BY DEF LiveInv, TicksInv, LastZero, L!BlindOnlyWhileRecent, L!Last
<1>6. L!EveryChannelIsTried
  <2>1. pending = <<>> => L!ToSet(pending) = {}
    BY DEF L!ToSet
  <2> QED
    BY <2>1 DEF LiveInv, RouteInv, L!EveryChannelIsTried
<1> QED
  BY <1>4, <1>5, <1>6 DEF LiveInv, Stage4Inv, L!EnabledStage4NeverAlerts

-----------------------------------------------------------------------------
(***************************************************************************)
(* What the run's liveness properties rest on: the step that fairness       *)
(* promises comes closer to the end, and no other step undoes that.         *)
(***************************************************************************)

\* Among what is on its way to a tab, at i there is the report of the silence.
ReportAt(t, i) == i \in 1..Len(inbox[t]) /\ inbox[t][i].event = "status" /\ inbox[t][i].stale
Reports(t) == \E i \in 1..Len(inbox[t]) : ReportAt(t, i)

\* A feed that has gone silent stays so until a tick comes; every heartbeat then
\* reports it to every tab that is connected, a report stays under way until the
\* tab handles it, every event the tab handles brings it closer, and a tab that
\* was told stays told.
ReportStep(t) ==
  /\ Stale'
  /\ told[t] => told'[t]
  /\ Heartbeat => Reports(t)'
  /\ \A i \in 1..Len(inbox[t]) : ReportAt(t, i) =>
       \/ told'[t]
       \/ ReportAt(t, i)' /\ ~Receive(t)
       \/ i > 1 /\ ReportAt(t, i - 1)'
ReportAdvances ==
  [][\A t \in link : Stale /\ t \in link' /\ silence' # 0 => ReportStep(t)]_vars

\* A replay that is left alone keeps its day, never starts again and never goes
\* back, and every tick of its interval goes on or stops it.
ReplayStep ==
  /\ day' = day /\ index' >= index
  /\ playing' => playing
  /\ R!Tick => index' > index \/ ~playing'
ReplayAdvances == [][~R!HandleAny => ReplayStep]_replayVars

\* What a live program that was stopped has left to do, and whether it can still
\* be interrupted.
StepsLeft == (CASE liveLink = "routing" -> 3 + Len(pending) [] liveLink = "connecting" -> 3
                [] liveLink = "open" -> 2 [] liveLink = "sleeping" -> 1 [] OTHER -> 0)
             + (IF interrupted THEN 0 ELSE 1)

\* A program that was stopped stays so and has one step less to go with every
\* step it takes, whatever its connection does.
StopAdvances == [][~running => ~running' /\ StepsLeft' < StepsLeft]_liveVars

\* An interrupt is not forgotten and an end is final; and what a cancellation
\* waits for ends: every step of a routing, but for those that stop or interrupt
\* the program, turns to one destination less or returns to the loop.
RoutingStep ==
  /\ interrupted => interrupted'
  /\ liveLink = "ended" => liveLink' = "ended"
  /\ liveLink = "routing" => \/ liveLink' # "routing"
                             \/ Len(pending') < Len(pending)
                             \/ pending' = pending /\ (L!Stop \/ L!Interrupt)
RoutingAdvances == [][RoutingStep]_liveVars

\* Where the window holds a book without one of its sides.
GapsAt == {i \in 1..Len(window) : window[i] = "gap"}

\* A program unlearns nothing over lost connections, alerts and unreadable
\* messages; and a book of two sides is scored, or the window is longer than
\* before, or each gap in it is a place nearer to falling out.
ScoringStep ==
  /\ Len(window') >= Len(window)
  /\ L!ParseDepth("book") \/ L!DemoMessage("book") =>
       scored' \/ Len(window') > Len(window) \/ \A i \in GapsAt' : i + 1 \in GapsAt
  /\ \/ L!ParseTrade
     \/ \E book \in L!Books : L!ParseDepth(book) \/ L!DemoMessage(book)
     \/ window' = window
ScoringAdvances == [][ScoringStep]_liveVars

-----------------------------------------------------------------------------
(* A silence is reported *)

\* What one step does to a tab that stays connected while the feed is silent.
LEMMA TabStep ==
  ASSUME IInv, Fits, Next, NEW t \in link, t \in link', Stale, silence' # 0
  PROVE  /\ Stale' /\ (told[t] => told'[t])
         /\ \/ inbox'[t] = inbox[t] /\ ~Heartbeat
            \/ \E m \in Events : /\ inbox'[t] = Append(inbox[t], m)
                                 /\ Heartbeat => m.event = "status" /\ m.stale
            \/ /\ inbox[t] # <<>> /\ inbox'[t] = Tail(inbox[t]) /\ ~Heartbeat
               /\ Head(inbox[t]).event = "status" /\ Head(inbox[t]).stale => told'[t]
<1>1. /\ t \in Tabs /\ inbox \in [Tabs -> Seq(Events)]
      /\ StaleAfter \in Nat /\ BeatEvery \in Nat \ {0} /\ told \in [Tabs -> BOOLEAN]
  BY FeedAssumption DEF IInv, Types, Fits
<1>2. ASSUME NEW m \in Events, Broadcast(m) PROVE inbox'[t] = Append(inbox[t], m)
  BY <1>1, <1>2 DEF Broadcast
<1>3. CASE Heartbeat
  <2>1. Broadcast(Status(TRUE)) /\ silence' = silence /\ told' = told
    BY <1>3 DEF Heartbeat
  <2>2. PICK m \in Events : m = Status(TRUE)
    BY StatusShows
  <2>3. m.event = "status" /\ m.stale
    BY <2>2 DEF Status
  <2>4. inbox'[t] = Append(inbox[t], m)
    BY <1>2, <2>1, <2>2
  <2> QED
    BY <2>1, <2>3, <2>4 DEF Stale
<1>4. CASE Opened \/ Closed
  <2>1. Broadcast(Status(FALSE)) /\ silence' = silence /\ told' = told /\ beat' = beat
    BY <1>4 DEF Opened, Closed
  <2>2. ~Heartbeat
    BY <1>1, <2>1 DEF Heartbeat
  <2>3. Status(FALSE) \in Events
    BY StatusShows
  <2>4. inbox'[t] = Append(inbox[t], Status(FALSE))
    BY <1>2, <2>1, <2>3
  <2> QED
    BY <2>1, <2>2, <2>3, <2>4 DEF Stale
<1>5. CASE ConnectBinance
  <2>1. UNCHANGED <<silence, beat, inbox, told>>
    BY <1>5 DEF ConnectBinance
  <2>2. ~Heartbeat
    BY <1>1, <2>1 DEF Heartbeat
  <2> QED
    BY <2>1, <2>2 DEF Stale
<1>e. CASE Elapse
  <2>1. /\ UNCHANGED <<inbox, told>> /\ beat < BeatEvery
        /\ silence' = IF silence \in 0..StaleAfter THEN silence + 1 ELSE silence
    BY <1>e DEF Elapse
  <2>2. ~Heartbeat
    <3>1. beat # BeatEvery
      BY <1>1, <2>1
    <3> QED
      BY <3>1 DEF Heartbeat
  <2>3. silence \notin 0..StaleAfter
    BY <1>1 DEF Stale
  <2> QED
    BY <2>1, <2>2, <2>3 DEF Stale
<1>6. CASE AnchorDepth \/ Restart
  BY <1>6 DEF AnchorDepth, Restart
<1>7. ASSUME NEW u \in Tabs, Connect(u) \/ DropSocket(u)
      PROVE  inbox'[t] = inbox[t] /\ ~Heartbeat /\ silence' = silence /\ told' = told
  <2>1. u # t
    BY <1>7 DEF Connect, DropSocket
  <2>2. beat' = beat /\ silence' = silence /\ told' = told
    BY <1>7 DEF Connect, DropSocket
  <2>3. inbox'[t] = inbox[t]
    BY <1>1, <1>7, <2>1 DEF Connect, DropSocket
  <2>4. ~Heartbeat
    BY <1>1, <2>2 DEF Heartbeat
  <2> QED
    BY <2>2, <2>3, <2>4
<1>8. ASSUME NEW u \in Tabs, Receive(u)
      PROVE  /\ silence' = silence /\ (told[t] => told'[t]) /\ ~Heartbeat
             /\ u # t => inbox'[t] = inbox[t]
             /\ u = t => /\ inbox[t] # <<>> /\ inbox'[t] = Tail(inbox[t])
                         /\ Head(inbox[t]).event = "status" /\ Head(inbox[t]).stale => told'[t]
  <2>1. /\ inbox[u] # <<>> /\ inbox' = [inbox EXCEPT ![u] = Tail(inbox[u])]
        /\ told' = [told EXCEPT ![u] = told[u] \/ (Head(inbox[u]).event = "status" /\ Head(inbox[u]).stale)]
        /\ beat' = beat /\ silence' = silence
    BY <1>8 DEF Receive
  <2>2. ~Heartbeat
    BY <1>1, <2>1 DEF Heartbeat
  <2>3. (told[t] => told'[t]) /\ (u # t => inbox'[t] = inbox[t])
    BY <1>1, <2>1
  <2>4. CASE u = t
    <3>1. inbox'[t] = Tail(inbox[t])
      BY <1>1, <2>1, <2>4
    <3>2. Head(inbox[t]).event = "status" /\ Head(inbox[t]).stale => told'[t]
      BY <1>1, <2>1, <2>4
    <3> QED
      BY <2>1, <2>2, <2>3, <2>4, <3>1, <3>2
  <2> QED
    BY <2>1, <2>2, <2>3, <2>4
<1>9. silence' = silence => Stale'
  BY DEF Stale
<1> QED
  BY <1>3, <1>4, <1>5, <1>e, <1>6, <1>7, <1>8, <1>9 DEF Next

\* An event that has come is handled first in, first out.
LEMMA ReportComes ==
  ASSUME IInv, Fits, Next, NEW t \in link, t \in link', Stale, silence' # 0
  PROVE  ReportStep(t)
<1>1. inbox[t] \in Seq(Events)
  BY DEF IInv, Types
<1>2. PICK n \in Nat : n = Len(inbox[t])
  BY <1>1, LenProperties
<1>3. Stale' /\ (told[t] => told'[t])
  BY TabStep
<1>4. ASSUME inbox'[t] = inbox[t], ~Heartbeat PROVE ReportStep(t)
  <2>1. ~Receive(t)
    <3>1. ASSUME Receive(t) PROVE FALSE
      <4>1. inbox[t] # <<>> /\ inbox'[t] = Tail(inbox[t])
        BY <3>1 DEF Receive, IInv, Types
      <4>2. Len(inbox'[t]) = n - 1
        BY <1>1, <1>2, <4>1, HeadTailProperties
      <4> QED
        BY <1>2, <1>4, <4>2
    <3> QED
      BY <3>1
  <2>2. \A i : ReportAt(t, i) => ReportAt(t, i)'
    BY <1>4 DEF ReportAt
  <2> QED
    BY <1>3, <1>4, <2>1, <2>2 DEF ReportStep
<1>5. ASSUME NEW m \in Events, inbox'[t] = Append(inbox[t], m),
             Heartbeat => m.event = "status" /\ m.stale
      PROVE  ReportStep(t)
  <2>1. /\ Len(inbox'[t]) = n + 1 /\ inbox'[t][n + 1] = m
        /\ \A i \in 1..n : inbox'[t][i] = inbox[t][i]
    BY <1>1, <1>2, <1>5, AppendProperties
  <2>2. ~Receive(t)
    <3>1. ASSUME Receive(t) PROVE FALSE
      <4>1. inbox[t] # <<>> /\ inbox'[t] = Tail(inbox[t])
        BY <3>1 DEF Receive, IInv, Types
      <4>2. Len(inbox'[t]) = n - 1
        BY <1>1, <1>2, <4>1, HeadTailProperties
      <4> QED
        BY <1>2, <2>1, <4>2
    <3> QED
      BY <3>1
  <2>3. \A i \in 1..n : ReportAt(t, i) => ReportAt(t, i)'
    BY <1>2, <2>1 DEF ReportAt
  <2>4. Heartbeat => Reports(t)'
    <3>1. n + 1 \in 1..Len(inbox'[t])
      BY <1>2, <2>1
    <3>2. Heartbeat => ReportAt(t, n + 1)'
      BY <1>5, <2>1, <3>1 DEF ReportAt
    <3> QED
      BY <3>1, <3>2 DEF Reports
  <2> QED
    BY <1>2, <1>3, <2>2, <2>3, <2>4 DEF ReportStep
<1>6. ASSUME inbox[t] # <<>>, inbox'[t] = Tail(inbox[t]), ~Heartbeat,
             Head(inbox[t]).event = "status" /\ Head(inbox[t]).stale => told'[t]
      PROVE  ReportStep(t)
  <2>1. /\ Len(inbox'[t]) = n - 1 /\ Head(inbox[t]) = inbox[t][1]
        /\ \A i \in 1..(n - 1) : inbox'[t][i] = inbox[t][i + 1]
    BY <1>1, <1>2, <1>6, HeadTailProperties
  <2>2. ASSUME NEW i \in 1..n, ReportAt(t, i)
        PROVE  told'[t] \/ (i > 1 /\ ReportAt(t, i - 1)')
    <3>1. CASE i = 1
      BY <1>6, <2>1, <2>2, <3>1 DEF ReportAt
    <3>2. CASE i # 1
      <4>1. PICK j \in 1..(n - 1) : j = i - 1 /\ i = j + 1
        BY <3>2
      <4>2. inbox'[t][j] = inbox[t][i] /\ j \in 1..Len(inbox'[t])
        BY <2>1, <4>1
      <4>3. ReportAt(t, j)'
        BY <2>2, <4>2 DEF ReportAt
      <4> QED
        BY <4>1, <4>3
    <3> QED
      BY <3>1, <3>2
  <2> QED
    BY <1>2, <1>3, <1>6, <2>2 DEF ReportStep
<1> QED
  BY <1>4, <1>5, <1>6, TabStep

-----------------------------------------------------------------------------
(* A replay ends *)

LEMMA ReplayGoesOn ==
  ASSUME R!TypeOK, R!Next, ~R!HandleAny
  PROVE  ReplayStep
<1>1. index \in 0..Length /\ Length \in Nat \ {0} /\ speed \in Nat \ {0} /\ playing \in BOOLEAN
  BY ReplayAssumption DEF R!TypeOK
<1>2. CASE R!Tick
  <2>1. /\ day' = day /\ playing /\ index' = R!Min2(Length, index + speed)
        /\ playing' = (index' < Length)
    BY <1>2 DEF R!Tick
  <2>2. index' \in 0..Length /\ index' >= index /\ (index' > index \/ index' = Length)
    BY <1>1, <2>1 DEF R!Min2
  <2>3. index' = Length => ~playing'
    <3>1. ~(Length < Length)
      BY <1>1
    <3> QED
      BY <2>1, <3>1
  <2> QED
    BY <2>1, <2>2, <2>3 DEF ReplayStep
<1>3. CASE ~R!Tick
  <2>1. UNCHANGED <<day, index, playing>>
    BY <1>3 DEF R!Next, R!Connect, R!Drop, R!OnPlayClicked, R!OnChosen, R!Receive, R!server
  <2> QED
    BY <1>1, <1>3, <2>1 DEF ReplayStep
<1> QED
  BY <1>2, <1>3

-----------------------------------------------------------------------------
(* A stop ends a live program, and a routing ends *)

\* What the step of a routing does; no other step is possible meanwhile.
LEMMA RoutingTurns ==
  ASSUME RouteInv, L!Routing
  PROVE  /\ liveLink = "routing" /\ UNCHANGED <<running, interrupted>>
         /\ \/ liveLink' \in {"open", "sleeping"}
            \/ liveLink' = "routing" /\ Len(pending') < Len(pending)
         /\ Len(pending) \in Nat /\ Len(pending') \in Nat
<1>1. pending \in Seq(Destinations) /\ Len(pending) \in Nat
  BY LenProperties DEF RouteInv
<1>2. ASSUME L!Offer, pending # <<>>, liveLink = "routing"
      PROVE  liveLink' = "routing" /\ Len(pending') < Len(pending) /\ Len(pending') \in Nat
  <2>1. pending' = Tail(pending) /\ liveLink' = liveLink
    BY <1>2 DEF L!Offer
  <2>2. Len(pending') = Len(pending) - 1 /\ pending' \in Seq(Destinations)
    BY <1>1, <1>2, <2>1, HeadTailProperties
  <2>3. Len(pending') \in Nat
    BY <2>2, LenProperties
  <2> QED
    BY <1>1, <1>2, <2>1, <2>2, <2>3
<1>3. CASE L!AppendLog
  <2>1. liveLink = "routing" /\ pending # <<>> /\ UNCHANGED <<running, interrupted>> /\ (L!Offer \/ L!Abandon)
    BY <1>3 DEF L!AppendLog
  <2>2. L!Abandon => liveLink' = "sleeping" /\ Len(pending') = 0
    BY DEF L!Abandon, L!Reconnect
  <2> QED
    BY <1>1, <1>2, <2>1, <2>2
<1>4. CASE L!Deliver
  <2>1. liveLink = "routing" /\ pending # <<>> /\ UNCHANGED <<running, interrupted>> /\ L!Offer
    BY <1>4 DEF L!Deliver
  <2> QED
    BY <1>1, <1>2, <2>1
<1>5. CASE L!RouteReturns
  <2>1. liveLink = "routing" /\ liveLink' = "open" /\ pending' = pending /\ UNCHANGED <<running, interrupted>>
    BY <1>5 DEF L!RouteReturns, L!alerting
  <2> QED
    BY <1>1, <2>1
<1> QED
  BY <1>3, <1>4, <1>5 DEF L!Routing

\* A stopped program receives no message; what it still does takes it on.
LEMMA StoppedMoves ==
  ASSUME RouteInv, L!Next, ~running
  PROVE  ~running' /\ StepsLeft' < StepsLeft
<1>1. Len(pending) \in Nat /\ liveLink \in {"connecting", "open", "routing", "sleeping", "ended"}
  BY LenProperties DEF RouteInv
<1>2. CASE L!Routing
  <2>1. /\ liveLink = "routing" /\ running' = running /\ interrupted' = interrupted
        /\ \/ liveLink' \in {"open", "sleeping"}
           \/ liveLink' = "routing" /\ Len(pending') < Len(pending)
        /\ Len(pending') \in Nat
    BY <1>2, RoutingTurns
  <2>2. PICK k \in 0..1 : k = (IF interrupted THEN 0 ELSE 1) /\ k = (IF interrupted' THEN 0 ELSE 1)
    BY <2>1
  <2>3. StepsLeft = 3 + Len(pending) + k
    BY <2>1, <2>2 DEF StepsLeft
  <2>4. CASE liveLink' \in {"open", "sleeping"}
    <3>1. StepsLeft' \in {1 + k, 2 + k}
      BY <2>2, <2>4 DEF StepsLeft
    <3> QED
      BY <1>1, <2>1, <2>2, <2>3, <3>1
  <2>5. CASE liveLink' = "routing" /\ Len(pending') < Len(pending)
    <3>1. StepsLeft' = 3 + Len(pending') + k
      BY <2>2, <2>5 DEF StepsLeft
    <3> QED
      BY <1>1, <2>1, <2>2, <2>3, <2>5, <3>1
  <2> QED
    BY <2>1, <2>4, <2>5
<1>3. CASE L!Interrupt
  <2>1. /\ liveLink' = liveLink /\ pending' = pending /\ running' = running
        /\ ~interrupted /\ interrupted' = TRUE
    BY <1>3 DEF L!Interrupt, L!alerting
  <2> QED
    BY <1>1, <2>1 DEF StepsLeft
<1>4. CASE L!Connect \/ L!Lost \/ L!Closed \/ L!Wake \/ L!Cancelled \/ L!Break
  <2>1. /\ running' = running /\ interrupted' = interrupted
        /\ \/ liveLink = "connecting" /\ liveLink' \in {"open", "sleeping", "ended"}
           \/ liveLink = "open" /\ liveLink' \in {"sleeping", "ended"}
           \/ liveLink = "sleeping" /\ liveLink' = "ended"
    BY <1>1, <1>4 DEF L!Connect, L!Lost, L!Closed, L!Wake, L!Cancelled, L!Break, L!Reconnect
  <2>2. PICK k \in 0..1 : k = (IF interrupted THEN 0 ELSE 1) /\ k = (IF interrupted' THEN 0 ELSE 1)
    BY <2>1
  <2>3. /\ liveLink = "connecting" => StepsLeft = 3 + k
        /\ liveLink = "open" => StepsLeft = 2 + k
        /\ liveLink = "sleeping" => StepsLeft = 1 + k
    BY <2>2 DEF StepsLeft
  <2>4. /\ liveLink' = "open" => StepsLeft' = 2 + k
        /\ liveLink' = "sleeping" => StepsLeft' = 1 + k
    BY <2>2 DEF StepsLeft
  <2>5. liveLink' = "ended" => StepsLeft' = 0 + k
    BY <2>2 DEF StepsLeft
  <2> QED
    BY <2>1, <2>2, <2>3, <2>4, <2>5
<1>5. ~L!Stop /\ ~L!Receives("live") /\ ~L!Receives("demo")
  BY DEF L!Stop, L!Receives
<1>6. ~L!NotJson /\ ~L!Ignored /\ ~L!ParseTrade
  BY <1>5 DEF L!NotJson, L!Ignored, L!ParseTrade
<1>7. \A book \in L!Books : ~L!ParseDepth(book) /\ ~L!DemoMessage(book)
  BY <1>5 DEF L!ParseDepth, L!DemoMessage
<1> QED
  BY <1>2, <1>3, <1>4, <1>5, <1>6, <1>7 DEF L!Next

LEMMA RoutingMoves ==
  ASSUME RouteInv, L!Next
  PROVE  RoutingStep
<1>1. CASE L!Routing
  <2>1. /\ liveLink = "routing" /\ interrupted' = interrupted
        /\ \/ liveLink' \in {"open", "sleeping"}
           \/ Len(pending') < Len(pending)
    BY <1>1, RoutingTurns
  <2> QED
    BY <2>1 DEF RoutingStep
<1>2. CASE L!Stop \/ L!Interrupt
  <2>1. liveLink' = liveLink /\ pending' = pending /\ (interrupted => interrupted')
    BY <1>2 DEF L!Stop, L!Interrupt, L!alerting
  <2> QED
    BY <1>2, <2>1 DEF RoutingStep
<1>3. CASE L!Connect \/ L!Lost \/ L!Closed \/ L!Wake \/ L!Cancelled \/ L!Break
  <2>1. interrupted' = interrupted /\ liveLink \notin {"routing", "ended"}
    BY <1>3 DEF L!Connect, L!Lost, L!Closed, L!Wake, L!Cancelled, L!Break
  <2> QED
    BY <2>1 DEF RoutingStep
<1>4. CASE \/ L!NotJson \/ L!Ignored \/ L!ParseTrade
           \/ \E book \in L!Books : L!ParseDepth(book) \/ L!DemoMessage(book)
  <2>1. interrupted' = interrupted /\ liveLink = "open"
    BY <1>4 DEF L!NotJson, L!Ignored, L!ParseTrade, L!ParseDepth, L!DemoMessage, L!Receives, L!vars
  <2> QED
    BY <2>1 DEF RoutingStep
<1> QED
  BY <1>1, <1>2, <1>3, <1>4 DEF L!Next

-----------------------------------------------------------------------------
(* Windows are scored *)

\* A window that takes one more input is full, or longer than before; what is
\* left of the window before moves a place towards its end.
LEMMA WindowMoves ==
  ASSUME TicksInv, NEW e \in Inputs, window' = L!Cut(Append(window, e), Window)
  PROVE  /\ Len(window') \in Nat /\ Len(window) \in Nat /\ Len(window') >= Len(window)
         /\ Len(window') = Window \/ Len(window') > Len(window)
         /\ Len(window') > Len(window) \/ \A i \in 1..(Len(window') - 1) : window'[i] = window[i + 1]
         /\ window'[Len(window')] = e
         /\ Len(window') > Len(window) \/ Len(window') = Len(window)
<1>1. window \in Seq(Inputs) /\ Window \in Nat \ {0} /\ Len(window) \in Nat /\ Len(window) <= Window
  BY LiveAssumption, LenProperties DEF TicksInv
<1>2. PICK w : w = window'
  OBVIOUS
<1>3. PICK n \in Nat : n = Len(window)
  BY <1>1
<1>4. /\ Len(w) = (IF n = Window THEN Window ELSE n + 1) /\ w[Len(w)] = e
      /\ \A i \in 1..(Len(w) - 1) : w[i] = IF n = Window THEN window[i + 1] ELSE window[i]
  <2>1. w = L!Cut(Append(window, e), Window)
    BY <1>2
  <2>2. Moved(Inputs, Window, window, e, w)
    BY <1>1, <2>1, CutAppend
  <2> QED
    BY <1>3, <2>2 DEF Moved
<1>5. CASE n = Window
  <2>1. Len(w) = n /\ \A i \in 1..(n - 1) : w[i] = window[i + 1]
    BY <1>3, <1>4, <1>5
  <2> QED
    BY <1>2, <1>3, <1>4, <1>5, <2>1
<1>6. CASE n # Window
  <2>1. Len(w) = n + 1
    BY <1>4, <1>6
  <2> QED
    BY <1>2, <1>3, <1>4, <2>1
<1> QED
  BY <1>5, <1>6

LEMMA ScoringMoves ==
  ASSUME LiveInv, L!Next
  PROVE  ScoringStep
<1>1. TicksInv /\ Len(window) \in Nat
  BY LenProperties DEF LiveInv, TicksInv
<1>2. ASSUME NEW book \in L!Books, NEW stream, L!ProcessTick(book, stream), L!Receives("live"),
             L!ParseTrade \/ \E b \in L!Books : L!ParseDepth(b) \/ L!DemoMessage(b)
      PROVE  ScoringStep
  <2>1. PICK z \in Inputs : z = L!Normalize(hist')
    BY DEF Inputs, L!Normalize
  <2>2. window' = L!Cut(Append(window, z), Window) /\ scored' = (Len(window') = Window)
    BY <1>2, <2>1 DEF L!ProcessTick, L!Feed, L!Full
  <2>3. Len(window') >= Len(window) /\ (scored' \/ Len(window') > Len(window))
    BY <1>1, <2>2, WindowMoves
  <2> QED
    BY <1>2, <2>3 DEF ScoringStep
<1>3. CASE L!ParseTrade
  <2>1. L!Receives("live") /\ L!ProcessTick(lastBook, "trade") /\ lastBook \in L!Books
    BY <1>1, <1>3 DEF L!ParseTrade, TicksInv
  <2> QED
    BY <1>2, <1>3, <2>1
<1>4. ASSUME NEW book \in L!Books, L!ParseDepth(book) PROVE ScoringStep
  <2>1. L!Receives("live") /\ L!ProcessTick(book, "depth")
    BY <1>4 DEF L!ParseDepth
  <2> QED
    BY <1>2, <1>4, <2>1
<1>5. ASSUME NEW book \in L!Books, L!DemoMessage(book) PROVE ScoringStep
  <2>1. program = "demo" /\ window' = L!Cut(Append(window, book), Window) /\ book \in Inputs
    BY <1>5 DEF L!DemoMessage, L!DemoTick, L!Receives, Inputs
  <2>2. /\ Len(window') \in Nat /\ Len(window') >= Len(window)
        /\ Len(window') > Len(window) \/ Len(window') = Len(window)
        /\ Len(window') > Len(window) \/ \A i \in 1..(Len(window') - 1) : window'[i] = window[i + 1]
        /\ window'[Len(window')] = book
    BY <1>1, <2>1, WindowMoves
  <2>3. ASSUME L!ParseDepth("book") \/ L!DemoMessage("book")
        PROVE  scored' \/ Len(window') > Len(window) \/ \A i \in GapsAt' : i + 1 \in GapsAt
    <3> SUFFICES ASSUME ~(Len(window') > Len(window)), NEW i \in GapsAt' PROVE i + 1 \in GapsAt
      OBVIOUS
    <3>1. L!DemoMessage("book")
      BY <2>1, <2>3 DEF L!ParseDepth, L!Receives
    <3>2. window' = L!Cut(Append(window, "book"), Window) /\ "book" \in Inputs
      BY <3>1 DEF L!DemoMessage, L!DemoTick, Inputs, L!Books
    <3>3. window'[Len(window')] = "book"
      BY <1>1, <3>2, WindowMoves
    <3>4. i \in 1..Len(window') /\ window'[i] = "gap" /\ i # Len(window')
      BY <3>3 DEF GapsAt
    <3>5. i \in 1..(Len(window') - 1) /\ i + 1 \in 1..Len(window)
      BY <1>1, <2>2, <3>4
    <3>6. window[i + 1] = "gap"
      BY <2>2, <3>4, <3>5
    <3> QED
      BY <3>5, <3>6 DEF GapsAt
  <2> QED
    BY <1>5, <2>2, <2>3 DEF ScoringStep
<1>6. CASE ~L!ParseTrade /\ ~\E book \in L!Books : L!ParseDepth(book) \/ L!DemoMessage(book)
  <2> USE DEF L!learnt
  <2>1. window' = window
    <3>1. CASE L!Routing
      BY <3>1 DEF L!Routing, L!AppendLog, L!Deliver, L!RouteReturns
    <3>2. CASE L!Connect \/ L!Lost \/ L!Closed \/ L!Wake \/ L!Interrupt
      BY <3>2 DEF L!Connect, L!Lost, L!Closed, L!Wake, L!Interrupt
    <3>3. CASE L!Cancelled \/ L!Stop \/ L!Break \/ L!NotJson \/ L!Ignored
      BY <3>3 DEF L!Cancelled, L!Stop, L!Break, L!NotJson, L!Ignored, L!vars
    <3> QED
      BY <1>6, <3>1, <3>2, <3>3 DEF L!Next
  <2>2. "book" \in L!Books
    BY DEF L!Books
  <2> QED
    BY <1>1, <1>6, <2>1, <2>2 DEF ScoringStep
<1> QED
  BY <1>3, <1>4, <1>5, <1>6

-----------------------------------------------------------------------------
(***************************************************************************)
(* All of them                                                              *)
(***************************************************************************)

\* The inductive invariant of the run: every part's own.
AllInv == IInv /\ Fits /\ ReplayInv /\ LiveInv

LEMMA FeedBounds == Bounds
  BY FeedAssumption, TransitAssumption DEF Bounds

LEMMA AllInit == InitOfOne => AllInv
  BY FeedBounds, InitIInv, InitFits, ReplayInit, LiveInit DEF InitOfOne, AllInv

LEMMA AllNext == AllInv /\ [NextOfOne]_allVars => AllInv'
<1> SUFFICES ASSUME AllInv, [NextOfOne]_allVars PROVE AllInv'
  OBVIOUS
<1>1. /\ Next \/ UNCHANGED vars
      /\ R!Next \/ UNCHANGED replayVars
      /\ L!Next \/ UNCHANGED liveVars
  BY DEF NextOfOne, FeedNext, ReplayNext, LiveNext, allVars
<1>2. IInv' /\ Fits'
  BY <1>1, FeedBounds, NextIInv, NextFits DEF AllInv, IInv
<1>3. ReplayInv' /\ LiveInv'
  BY <1>1, ReplayKeeps, LiveKeeps DEF AllInv
<1> QED
  BY <1>2, <1>3 DEF AllInv

LEMMA AllInvHolds == SpecOfOne => []AllInv
  BY AllInit, AllNext, PTL DEF SpecOfOne

\* Every variable keeps its type: a replay has an interval exactly while it
\* plays, its position stays within the day, and histories, windows and events
\* on their way stay within their bounds.
THEOREM StreamingTypesHold == SpecOfOne => []TypesOK
<1>1. IInv /\ Fits => TypeOK
  BY DEF IInv, Types, Fits, TypeOK
<1>2. AllInv => TypesOK
  BY <1>1, LiveInvHolds DEF AllInv, ReplayInv, TypesOK
<1> QED
  BY <1>2, AllInvHolds, PTL

\* A page shows points of one day, each next to the one before, unless someone
\* sought or another page loaded (replay-service.ts, ReplayView.tsx).
THEOREM PagesShowJoinedPoints == SpecOfOne => []ViewContinues
<1>1. AllInv => ViewContinues
  BY DEF AllInv, ReplayInv, ViewContinues
<1> QED
  BY <1>1, AllInvHolds, PTL

\* A gap in the book zeroes the micro price of `cli live` for as many ticks as
\* the normalization window has, and no longer (data/live_stream.py).
THEOREM BlindnessEnds == SpecOfOne => []BlindOnlyWhileRecent
<1>1. AllInv => BlindOnlyWhileRecent
  BY LiveInvHolds DEF AllInv, BlindOnlyWhileRecent
<1> QED
  BY <1>1, AllInvHolds, PTL

\* The router turns to every configured destination, whichever of them fails,
\* unless the log could not be written (alert/router.py).
THEOREM RouterTriesAll == SpecOfOne => []EveryChannelIsTried
<1>1. AllInv => EveryChannelIsTried
  BY LiveInvHolds DEF AllInv, EveryChannelIsTried
<1> QED
  BY <1>1, AllInvHolds, PTL

\* With the cross-symbol stage enabled, a stream of one symbol never alerts
\* (models/cascade.py).
THEOREM OneSymbolNeverAlerts == SpecOfOne => []EnabledStage4NeverAlerts
<1>1. AllInv => EnabledStage4NeverAlerts
  BY LiveInvHolds DEF AllInv, EnabledStage4NeverAlerts
<1> QED
  BY <1>1, AllInvHolds, PTL

\* A silence of the feed does not end by itself, every heartbeat reports it, and
\* no report is overtaken, lost or taken back on its way to a tab that stays
\* connected (checkStaleness of binance-stream/index.ts, page.tsx).
THEOREM ReportsComeCloser == SpecOfOne => ReportAdvances
<1>1. AllInv /\ [NextOfOne]_allVars =>
        [\A t \in link : Stale /\ t \in link' /\ silence' # 0 => ReportStep(t)]_vars
  <2> SUFFICES ASSUME AllInv, [NextOfOne]_allVars, ~UNCHANGED vars,
                      NEW t \in link, Stale, t \in link', silence' # 0
               PROVE  ReportStep(t)
    OBVIOUS
  <2>1. Next
    BY DEF NextOfOne, FeedNext, ReplayNext, LiveNext, allVars
  <2> QED
    BY <2>1, ReportComes DEF AllInv
<1> QED
  BY <1>1, AllInvHolds, PTL DEF SpecOfOne, ReportAdvances

\* A replay that nobody commands goes on with every tick of its interval, never
\* back, until it stops at its end (tick of replay-service.ts).
THEOREM ReplaysComeCloser == SpecOfOne => ReplayAdvances
<1>1. AllInv /\ [NextOfOne]_allVars => [~R!HandleAny => ReplayStep]_replayVars
  <2> SUFFICES ASSUME AllInv, [NextOfOne]_allVars, ~UNCHANGED replayVars, ~R!HandleAny
               PROVE  ReplayStep
    OBVIOUS
  <2>1. R!Next
    BY DEF NextOfOne, FeedNext, ReplayNext, LiveNext, allVars
  <2> QED
    BY <2>1, ReplayGoesOn DEF AllInv, ReplayInv
<1> QED
  BY <1>1, AllInvHolds, PTL DEF SpecOfOne, ReplayAdvances

\* A live program that stop() has reached is never back at receiving, and has
\* fewer steps to go with every step, however often its connection is lost
\* (run and stop of data/live_stream.py).
THEOREM LiveStopsComeCloser == SpecOfOne => StopAdvances
<1>1. AllInv /\ [NextOfOne]_allVars => [~running => ~running' /\ StepsLeft' < StepsLeft]_liveVars
  <2> SUFFICES ASSUME AllInv, [NextOfOne]_allVars, ~UNCHANGED liveVars, ~running
               PROVE  ~running' /\ StepsLeft' < StepsLeft
    OBVIOUS
  <2>1. L!Next
    BY DEF NextOfOne, FeedNext, ReplayNext, LiveNext, allVars
  <2> QED
    BY <2>1, StoppedMoves DEF AllInv, LiveInv
<1> QED
  BY <1>1, AllInvHolds, PTL DEF SpecOfOne, StopAdvances

\* While an alert is routed nothing else happens, and the routing ends: a
\* cancellation that waits for it is not kept waiting (route of
\* alert/router.py, asyncio.run).
THEOREM RoutingsEnd == SpecOfOne => RoutingAdvances
<1>1. AllInv /\ [NextOfOne]_allVars => [RoutingStep]_liveVars
  <2> SUFFICES ASSUME AllInv, [NextOfOne]_allVars, ~UNCHANGED liveVars
               PROVE  RoutingStep
    OBVIOUS
  <2>1. L!Next
    BY DEF NextOfOne, FeedNext, ReplayNext, LiveNext, allVars
  <2> QED
    BY <2>1, RoutingMoves DEF AllInv, LiveInv
<1> QED
  BY <1>1, AllInvHolds, PTL DEF SpecOfOne, RoutingAdvances

\* What a live program has learnt outlives its connection; with every book of
\* two sides it scores a window or comes closer to one that can be scored
\* (process_tick of models/cascade.py, main of scripts/live_demo.py).
THEOREM ScoringComesCloser == SpecOfOne => ScoringAdvances
<1>1. AllInv /\ [NextOfOne]_allVars => [ScoringStep]_liveVars
  <2> SUFFICES ASSUME AllInv, [NextOfOne]_allVars, ~UNCHANGED liveVars
               PROVE  ScoringStep
    OBVIOUS
  <2>1. L!Next
    BY DEF NextOfOne, FeedNext, ReplayNext, LiveNext, allVars
  <2> QED
    BY <2>1, ScoringMoves DEF AllInv
<1> QED
  BY <1>1, AllInvHolds, PTL DEF SpecOfOne, ScoringAdvances
=============================================================================
