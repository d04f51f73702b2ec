---------------------------- MODULE AlertHistory ----------------------------
(***************************************************************************)
(* The alerts of a user, read page by page (GET /api/alerts) while more are *)
(* stored.  A page goes on below the time of the last alert of the page     *)
(* before; alerts of one millisecond, as a replayed outbox leaves them,     *)
(* come in any order.                                                       *)
(***************************************************************************)
EXTENDS Naturals, Sequences, FiniteSets

CONSTANTS Symbols, Limits,       \* what a reader may ask for
          MaxAlerts, MaxClock    \* bounds

VARIABLES clock,     \* milliseconds
          alerts,    \* rows, in the order they were stored
          reader,    \* what it asked for, and the cursor, or NoCursor
          shown,     \* the pages it has got
          known      \* history: alerts there were at its first page

vars == <<clock, alerts, reader, shown, known>>

NoCursor == MaxClock + 1
Idle == [asks |-> "nothing"]

Init == clock = 0 /\ alerts = <<>> /\ reader = Idle /\ shown = <<>> /\ known = {}

\* createdAt: now, and a clock that does not go back
Store(symbol) ==
  /\ Len(alerts) < MaxAlerts /\ alerts' = Append(alerts, [symbol |-> symbol, createdAt |-> clock])
  /\ UNCHANGED <<clock, reader, shown, known>>
Elapse == clock < MaxClock /\ clock' = clock + 1 /\ UNCHANGED <<alerts, reader, shown, known>>

\* The first page; an earlier reading is forgotten.
Open(limit, symbols) ==
  /\ reader' = [asks |-> "more", limit |-> limit, symbols |-> symbols, cursor |-> NoCursor]
  /\ shown' = <<>> /\ known' = {i \in DOMAIN alerts : alerts[i].symbol \in symbols}
  /\ UNCHANGED <<clock, alerts>>

At(i) == alerts[i].createdAt
\* where
Where == {i \in DOMAIN alerts : alerts[i].symbol \in reader.symbols /\ At(i) < reader.cursor}
\* findMany with orderBy, take limit + 1: the latest, whichever comes first of
\* those of one time
Latest(rows, n) == {t \in SUBSET rows : /\ Cardinality(t) = IF n < Cardinality(rows) THEN n ELSE Cardinality(rows)
                                        /\ \A i \in t, j \in rows \ t : At(i) >= At(j)}
Earliest(page) == CHOOSE t \in {At(i) : i \in page} : \A i \in page : t <= At(i)
\* (mutant: the cursor is that of the row that shows there is more)
CursorOfExtra(page, rows) == Earliest(rows)
Cursor(page, rows) == Earliest(page)

\* GET: rows beyond the limit are dropped, and tell that there is another page.
GetPage ==
  /\ reader.asks = "more"
  /\ \E rows \in Latest(Where, reader.limit + 1) : \E page \in Latest(rows, reader.limit) :
       /\ shown' = Append(shown, page)
       /\ reader' = IF Cardinality(rows) > reader.limit
                    THEN [reader EXCEPT !.cursor = Cursor(page, rows)]
                    ELSE Idle
  /\ UNCHANGED <<clock, alerts, known>>

Next == \/ Elapse \/ GetPage
        \/ \E s \in Symbols : Store(s)
        \/ \E limit \in Limits, symbols \in {Symbols} \cup {{s} : s \in Symbols} : Open(limit, symbols)
Spec == Init /\ [][Next]_vars

-----------------------------------------------------------------------------
TypeOK ==
  /\ clock \in 0..MaxClock /\ Len(alerts) <= MaxAlerts
  /\ \A i \in DOMAIN alerts : alerts[i] \in [symbol : Symbols, createdAt : 0..clock]
  /\ reader = Idle \/ reader \in [asks : {"more"}, limit : Limits, symbols : SUBSET Symbols, cursor : 0..NoCursor]
  /\ \A p \in DOMAIN shown : shown[p] \subseteq DOMAIN alerts
  /\ known \subseteq DOMAIN alerts

\* The last alert of a page that another follows is the only one of its time.
Cut(i) == \E p \in 1..(Len(shown) - 1) : i \notin shown[p] /\ At(i) = Earliest(shown[p])

\* Whoever reads to the last page has got each alert there was at the first
\* page once, whatever was stored meanwhile; except those that share the
\* millisecond of a page's last.
PagesLoseNothing ==
  /\ \A p, q \in DOMAIN shown : p # q => shown[p] \cap shown[q] = {}
  /\ reader = Idle => \A i \in known : Cut(i) \/ \E p \in DOMAIN shown : i \in shown[p]
=============================================================================
