---------------------------- MODULE WebApiProofs ----------------------------
(***************************************************************************)
(* Proof that registration and revocation hold for any number of e-mails,   *)
(* browsers and requests handled at once: of those who register an e-mail   *)
(* one gets a session, and a session that was revoked serves no request     *)
(* that comes later.  And that the limiter remembers what is recent, and    *)
(* never more than it admits.                                               *)
(***************************************************************************)
EXTENDS WebApi, SequenceTheorems, FiniteSetTheorems, WellFoundedInduction, TLAPS

Registered(i, email) == sessions[i].made = "register" /\ sessions[i].user = email
\* The registrant of an e-mail who is about to get its session.
Signing(r) == r.step = "sign" /\ r.kind = "register"

\* What a handler relies on.  Its token has a row, and keeps it; a row that was
\* revoked when the request came is still revoked; the account it registered is
\* there, and has no registrant's session yet.
Knows(r) ==
  /\ r.step \in {"answer", "verify", "serve", "revoke"} => r.token \in 0..Len(sessions)
  /\ r.step = "verify" /\ r.gone => r.token \in DOMAIN sessions /\ sessions[r.token].is = "revoked"
  /\ r.step = "serve" => ~r.gone
  /\ Signing(r) => /\ r.email \in users
                   /\ \A i \in DOMAIN sessions : ~Registered(i, r.email)

Types == /\ sessions \in Seq(Row) /\ Len(sessions) <= MaxSessions /\ users \subseteq Emails
         /\ cookie \in [Browsers -> Tokens] /\ req \in [Handlers -> Steps]

OneSigns == \A g, h \in Handlers :
              Signing(req[g]) /\ Signing(req[h]) /\ req[g].email = req[h].email => g = h

\* The inductive invariant.
IInv == /\ Types
        /\ \A b \in Browsers : cookie[b] \in 0..Len(sessions)
        /\ \A h \in Handlers : Knows(req[h])
        /\ OneSigns
        /\ \A i \in DOMAIN sessions : sessions[i].made = "register" => sessions[i].user \in users
        /\ OneRegistrant

-----------------------------------------------------------------------------
(* The requests, by their step *)

LEMMA IdleStep == Idle \in Steps /\ Idle.step = "idle"
  BY DEF Steps, Idle

LEMMA FindStep ==
  ASSUME NEW r \in Steps, r.step = "find"
  PROVE  /\ r.kind = "register" => [r EXCEPT !.step = "create"] \in Steps
         /\ r.kind # "register" => [r EXCEPT !.step = "sign"] \in Steps
         /\ [r EXCEPT !.step = "create"].step = "create"
         /\ [r EXCEPT !.step = "sign"].kind = r.kind
  BY DEF Steps, Idle

LEMMA CreateStep ==
  ASSUME NEW r \in Steps, r.step = "create"
  PROVE  LET s == [r EXCEPT !.step = "sign"]
         IN  s \in Steps /\ Signing(s) /\ s.email = r.email /\ r.email \in Emails
  BY DEF Steps, Idle, Signing

LEMMA SignStep ==
  ASSUME NEW r \in Steps, r.step = "sign"
  PROVE  r.kind \in {"register", "login"} /\ r.by \in Browsers /\ r.email \in Emails
  BY DEF Steps, Idle

LEMMA CookieStep ==
  ASSUME NEW r \in Steps, r.step \in {"answer", "revoke"}
  PROVE  r.by \in Browsers /\ r.token \in Tokens
  BY DEF Steps, Idle

LEMMA VerifyStep ==
  ASSUME NEW r \in Steps, r.step = "verify"
  PROVE  LET s == [r EXCEPT !.step = "serve"]
         IN  s \in Steps /\ s.step = "serve" /\ s.gone = r.gone /\ s.token = r.token
  BY DEF Steps, Idle

-----------------------------------------------------------------------------
(* Steps of a handler that leave the tables and the cookies as they are *)

LEMMA QuietKeepsIInv ==
  ASSUME IInv, NEW h \in Handlers, NEW r \in Steps, Becomes(h, r),
         UNCHANGED <<users, sessions, cookie>>, Knows(r), ~Signing(r)
  PROVE  IInv'
<1>1. req' = [req EXCEPT ![h] = r] /\ req \in [Handlers -> Steps]
  BY DEF Becomes, IInv, Types
<1>2. Types'
  BY <1>1 DEF IInv, Types
<1>3. \A g \in Handlers : req'[g] = IF g = h THEN r ELSE req[g]
  BY <1>1
<1>4. \A q \in Steps : Knows(q)' <=> Knows(q)
  BY DEF Knows, Registered, Signing
<1>5. \A g \in Handlers : Knows(req[g])'
  BY <1>3, <1>4, <1>1 DEF IInv, Knows, Registered, Signing
<1>6. OneSigns'
  BY <1>3 DEF IInv, OneSigns, Signing
<1> QED
  BY <1>2, <1>5, <1>6 DEF IInv, OneRegistrant

LEMMA IdleKeepsIInv ==
  ASSUME IInv, NEW h \in Handlers, Ends(h), UNCHANGED <<users, sessions, cookie>>
  PROVE  IInv'
<1>1. Knows(Idle) /\ ~Signing(Idle)
  BY IdleStep DEF Knows, Signing
<1> QED
  BY <1>1, IdleStep, QuietKeepsIInv DEF Ends

LEMMA InitIInv == ASSUME MaxSessions \in Nat, Init PROVE IInv
<1>1. <<>> \in Seq(Row) /\ Len(<<>>) = 0 /\ DOMAIN <<>> = {}
  OBVIOUS
<1>2. req \in [Handlers -> Steps] /\ \A h \in Handlers : req[h] = Idle
  BY IdleStep DEF Init
<1>3. cookie \in [Browsers -> Tokens] /\ \A b \in Browsers : cookie[b] = 0
  BY DEF Init, NoToken, Tokens
<1>4. \A h \in Handlers : Knows(req[h]) /\ ~Signing(req[h])
  BY <1>2, IdleStep DEF Knows, Signing
<1> QED
  BY <1>1, <1>2, <1>3, <1>4 DEF Init, IInv, Types, OneSigns, OneRegistrant

LEMMA AuthenticateKeepsIInv ==
  ASSUME IInv, NEW h \in Handlers, NEW b \in Browsers, NEW email \in Emails,
         NEW kind \in {"register", "login"}, Authenticate(h, b, kind, email)
  PROVE  IInv'
<1> DEFINE r == [step |-> "find", kind |-> kind, by |-> b, email |-> email]
<1>1. r \in Steps /\ Knows(r) /\ ~Signing(r)
  BY DEF Steps, Knows, Signing
<1>2. CASE Becomes(h, r)
  BY <1>1, <1>2, QuietKeepsIInv DEF Authenticate
<1>3. CASE UNCHANGED req
  BY <1>3 DEF Authenticate, IInv, Types, Knows, OneSigns, OneRegistrant, Registered, Signing
<1> QED
  BY <1>2, <1>3 DEF Authenticate

LEMMA FindUserKeepsIInv ==
  ASSUME IInv, NEW h \in Handlers, FindUser(h)
  PROVE  IInv'
<1>1. req[h] \in Steps /\ req[h].step = "find" /\ UNCHANGED <<users, sessions, cookie>>
  BY DEF FindUser, IInv, Types
<1>2. CASE Ends(h)
  BY <1>1, <1>2, IdleKeepsIInv
<1>3. CASE req[h].kind = "register" /\ Becomes(h, [req[h] EXCEPT !.step = "create"])
  <2> DEFINE r == [req[h] EXCEPT !.step = "create"]
  <2>1. r \in Steps /\ r.step = "create"
    BY <1>1, <1>3, FindStep
  <2>2. Knows(r) /\ ~Signing(r)
    BY <2>1 DEF Knows, Signing
  <2> QED
    BY <1>1, <1>3, <2>1, <2>2, QuietKeepsIInv
<1>4. CASE req[h].kind # "register" /\ Becomes(h, [req[h] EXCEPT !.step = "sign"])
  <2> DEFINE r == [req[h] EXCEPT !.step = "sign"]
  <2>1. r \in Steps /\ r.step = "sign" /\ r.kind # "register"
    BY <1>1, <1>4, FindStep DEF Steps, Idle
  <2>2. Knows(r) /\ ~Signing(r)
    BY <2>1 DEF Knows, Signing
  <2> QED
    BY <1>1, <1>4, <2>1, <2>2, QuietKeepsIInv
<1> QED
  BY <1>2, <1>3, <1>4 DEF FindUser

LEMMA AskKeepsIInv ==
  ASSUME IInv, NEW h \in Handlers, NEW b \in Browsers, NEW kind \in {"post", "other"},
         Ask(h, b, kind)
  PROVE  IInv'
<1> DEFINE t == cookie[b]
           r == [step |-> "verify", kind |-> kind, token |-> t, gone |-> Revoked(t)]
<1>1. t \in Tokens /\ t \in 1..Len(sessions) /\ sessions \in Seq(Row)
  BY DEF Ask, IInv, Types, NoToken
<1>2. r \in Steps
  BY <1>1 DEF Steps, Revoked
<1>3. Knows(r) /\ ~Signing(r)
  <2>1. r.step = "verify" /\ r.token = t /\ r.gone = Revoked(t)
    OBVIOUS
  <2>2. Revoked(t) => t \in DOMAIN sessions /\ sessions[t].is = "revoked"
    BY <1>1 DEF Revoked
  <2> HIDE DEF r
  <2> QED
    BY <1>1, <2>1, <2>2 DEF Knows, Signing
<1> QED
  BY <1>2, <1>3, QuietKeepsIInv DEF Ask

LEMMA VerifySessionKeepsIInv ==
  ASSUME IInv, NEW h \in Handlers, VerifySession(h)
  PROVE  IInv'
<1> DEFINE r == [req[h] EXCEPT !.step = "serve"]
<1>1. req[h] \in Steps /\ req[h].step = "verify" /\ Knows(req[h]) /\ UNCHANGED <<users, sessions, cookie>>
  BY DEF VerifySession, IInv, Types
<1>2. CASE Ends(h)
  BY <1>1, <1>2, IdleKeepsIInv
<1>3. CASE Valid(req[h].token) /\ Becomes(h, r)
  <2>1. r \in Steps /\ r.step = "serve" /\ r.gone = req[h].gone /\ r.token = req[h].token
    BY <1>1, VerifyStep
  <2>2. ~r.gone /\ r.token \in 0..Len(sessions)
    BY <1>1, <1>3, <2>1 DEF Knows, Valid
  <2>3. Knows(r) /\ ~Signing(r)
    BY <2>1, <2>2 DEF Knows, Signing
  <2> QED
    BY <1>1, <1>3, <2>1, <2>3, QuietKeepsIInv
<1> QED
  BY <1>2, <1>3 DEF VerifySession

LEMMA LogoutKeepsIInv ==
  ASSUME IInv, NEW h \in Handlers, NEW b \in Browsers, Logout(h, b)
  PROVE  IInv'
<1> DEFINE r == [step |-> "revoke", by |-> b, token |-> cookie[b]]
<1>1. r \in Steps /\ cookie[b] \in 0..Len(sessions)
  BY DEF IInv, Types, Steps
<1>2. Knows(r) /\ ~Signing(r)
  BY <1>1 DEF Knows, Signing
<1> QED
  BY <1>1, <1>2, QuietKeepsIInv DEF Logout

-----------------------------------------------------------------------------
(* Steps that change the tables or the cookies *)

\* The e-mail that is registered had no row, so nobody registered it before.
LEMMA CreateUserKeepsIInv ==
  ASSUME IInv, NEW h \in Handlers, CreateUser(h)
  PROVE  IInv'
<1>0. PICK r : r = [req[h] EXCEPT !.step = "sign"]
  OBVIOUS
<1>1. /\ req[h] \in Steps /\ req[h].step = "create" /\ UNCHANGED <<sessions, cookie>>
      /\ req \in [Handlers -> Steps]
  BY DEF CreateUser, IInv, Types
<1>2. CASE Ends(h) /\ UNCHANGED users
  BY <1>1, <1>2, IdleKeepsIInv
<1>3. CASE req[h].email \notin users /\ users' = users \cup {req[h].email} /\ Becomes(h, r)
  <2>1. r \in Steps /\ Signing(r) /\ r.email = req[h].email /\ r.email \in Emails
    BY <1>0, <1>1, CreateStep
  <2>2. /\ req' = [req EXCEPT ![h] = r]
        /\ \A g \in Handlers : req'[g] = IF g = h THEN r ELSE req[g]
    BY <1>1, <1>3 DEF Becomes
  <2>3. Types'
    BY <1>1, <1>3, <2>1, <2>2 DEF IInv, Types
  <2>4. \A i \in DOMAIN sessions : ~Registered(i, r.email)
    BY <1>3, <2>1 DEF IInv, Registered
  <2>5. Knows(r)'
    BY <1>1, <1>3, <2>1, <2>4 DEF Knows, Signing, Registered
  <2>6. \A g \in Handlers : Knows(req[g])'
    <3>1. \A q \in Steps : Knows(q) => Knows(q)'
      BY <1>1, <1>3 DEF Knows, Signing, Registered
    <3> QED
      BY <3>1, <2>2, <2>5, <1>1 DEF IInv, Knows, Signing, Registered
  <2>7. \A g \in Handlers : Signing(req[g]) => req[g].email # r.email
    BY <1>3, <2>1 DEF IInv, Knows
  <2>8. OneSigns'
    BY <2>2, <2>7 DEF IInv, OneSigns, Signing
  <2> QED
    BY <1>1, <1>3, <2>3, <2>6, <2>8 DEF IInv, OneRegistrant
<1> QED
  BY <1>0, <1>2, <1>3 DEF CreateUser

\* The registrant's session is the first: it knows of no other.
LEMMA SignSessionKeepsIInv ==
  ASSUME MaxSessions \in Nat, IInv, NEW h \in Handlers, SignSession(h)
  PROVE  IInv'
<1> DEFINE s == [user |-> req[h].email, made |-> req[h].kind, is |-> "valid"]
           r == [step |-> "answer", by |-> req[h].by, token |-> Len(sessions')]
<1>1. /\ req[h] \in Steps /\ req[h].step = "sign" /\ Len(sessions) < MaxSessions
      /\ UNCHANGED <<users, cookie>> /\ sessions' = Append(sessions, s)
      /\ req' = [req EXCEPT ![h] = r] /\ req \in [Handlers -> Steps] /\ sessions \in Seq(Row)
  BY DEF SignSession, Becomes, IInv, Types
<1>2. s \in Row /\ s.user = req[h].email /\ s.made = req[h].kind
  BY <1>1, SignStep DEF Row
<1>3. /\ sessions' \in Seq(Row) /\ Len(sessions') = Len(sessions) + 1 /\ Len(sessions) \in Nat
      /\ DOMAIN sessions = 1..Len(sessions) /\ DOMAIN sessions' = 1..(Len(sessions) + 1)
      /\ \A i \in DOMAIN sessions : sessions'[i] = sessions[i]
      /\ sessions'[Len(sessions) + 1] = s
  BY <1>1, <1>2
<1>4. r \in Steps /\ r.step = "answer" /\ r.token = Len(sessions) + 1
  BY <1>1, <1>3, SignStep DEF Steps, Tokens
<1>5. \A g \in Handlers : req'[g] = IF g = h THEN r ELSE req[g]
  BY <1>1
<1>6. Knows(req[h])
  BY DEF IInv
<1> HIDE DEF s, r
<1>7. Types'
  BY <1>1, <1>3, <1>4 DEF IInv, Types
<1>8. \A b \in Browsers : cookie'[b] \in 0..Len(sessions')
  BY <1>1, <1>3 DEF IInv
<1>9. \A g \in Handlers : Knows(req[g])'
  <2> SUFFICES ASSUME NEW g \in Handlers PROVE Knows(req[g])'
    OBVIOUS
  <2>1. CASE g = h
    BY <2>1, <1>3, <1>4, <1>5 DEF Knows, Signing
  <2>2. CASE g # h
    <3>1. req'[g] = req[g] /\ Knows(req[g])
      BY <2>2, <1>5 DEF IInv
    <3>2. Signing(req[g]) /\ s.made = "register" => s.user # req[g].email
      BY <2>2, <1>1, <1>2 DEF IInv, OneSigns, Signing
    <3> QED
      BY <3>1, <3>2, <1>1, <1>3 DEF Knows, Signing, Registered
  <2> QED
    BY <2>1, <2>2
<1>10. OneSigns'
  BY <1>4, <1>5 DEF IInv, OneSigns, Signing
<1>11. \A i \in DOMAIN sessions' : sessions'[i].made = "register" => sessions'[i].user \in users'
  <2>1. s.made = "register" => s.user \in users
    BY <1>1, <1>2, <1>6 DEF Knows, Signing
  <2> QED
    BY <2>1, <1>1, <1>3 DEF IInv
<1>12. OneRegistrant'
  <2>1. s.made = "register" => \A i \in DOMAIN sessions : ~Registered(i, s.user)
    BY <1>1, <1>2, <1>6 DEF Knows, Signing
  <2>2. \A i \in DOMAIN sessions' : i \in DOMAIN sessions \/ i = Len(sessions) + 1
    BY <1>3
  <2> QED
    BY <2>1, <2>2, <1>3 DEF IInv, OneRegistrant, Registered
<1> QED
  BY <1>7, <1>8, <1>9, <1>10, <1>11, <1>12 DEF IInv

LEMMA AnswerKeepsIInv ==
  ASSUME IInv, NEW h \in Handlers, Answer(h)
  PROVE  IInv'
<1>1. /\ req[h] \in Steps /\ req[h].step = "answer" /\ UNCHANGED <<users, sessions>> /\ Ends(h)
      /\ req' = [req EXCEPT ![h] = Idle] /\ req \in [Handlers -> Steps] /\ cookie \in [Browsers -> Tokens]
      /\ cookie' \in {cookie, [cookie EXCEPT ![req[h].by] = req[h].token]}
  BY DEF Answer, Ends, Becomes, IInv, Types
<1>2. req[h].by \in Browsers /\ req[h].token \in Tokens /\ req[h].token \in 0..Len(sessions)
  BY <1>1, CookieStep DEF IInv, Knows
<1>3. cookie' \in [Browsers -> Tokens] /\ \A b \in Browsers : cookie'[b] \in 0..Len(sessions)
  BY <1>1, <1>2 DEF IInv
<1>4. \A g \in Handlers : req'[g] = IF g = h THEN Idle ELSE req[g]
  BY <1>1
<1>5. Types'
  BY <1>1, <1>3, IdleStep DEF IInv, Types
<1>6. \A g \in Handlers : Knows(req[g])'
  BY <1>1, <1>4, IdleStep DEF IInv, Knows, Signing, Registered
<1>7. OneSigns'
  BY <1>4, IdleStep DEF IInv, OneSigns, Signing
<1> QED
  BY <1>1, <1>3, <1>5, <1>6, <1>7 DEF IInv, OneRegistrant

\* A row that is marked keeps its place, its user and its origin; one that was
\* revoked stays so.
LEMMA MarkedRow ==
  ASSUME IInv, NEW t \in DOMAIN sessions, NEW mark \in {"expired", "revoked"},
         mark = "revoked" \/ sessions[t].is # "revoked",
         sessions' = [sessions EXCEPT ![t].is = mark], users' = users
  PROVE  /\ sessions' \in Seq(Row) /\ Len(sessions') = Len(sessions) /\ DOMAIN sessions' = DOMAIN sessions
         /\ \A i \in DOMAIN sessions : /\ sessions'[i].user = sessions[i].user
                                       /\ sessions'[i].made = sessions[i].made
         /\ \A q \in Steps : Knows(q) => Knows(q)'
<1>1. /\ sessions \in Seq(Row) /\ DOMAIN sessions = 1..Len(sessions) /\ Len(sessions) \in Nat
      /\ \A i \in DOMAIN sessions : sessions[i] \in Row
  BY DEF IInv, Types
<1>2. /\ sessions' \in Seq(Row) /\ Len(sessions') = Len(sessions) /\ DOMAIN sessions' = DOMAIN sessions
      /\ \A i \in DOMAIN sessions : sessions'[i] = IF i = t THEN [sessions[t] EXCEPT !.is = mark] ELSE sessions[i]
  <2>1. [sessions[t] EXCEPT !.is = mark] \in Row
    BY <1>1 DEF Row
  <2> QED
    BY <1>1, <2>1
<1>3. \A i \in DOMAIN sessions : /\ sessions'[i].user = sessions[i].user /\ sessions'[i].made = sessions[i].made
                                 /\ sessions[i].is = "revoked" => sessions'[i].is = "revoked"
  BY <1>1, <1>2 DEF Row
<1>4. \A q \in Steps : Knows(q) => Knows(q)'
  BY <1>2, <1>3 DEF Knows, Signing, Registered
<1> QED
  BY <1>2, <1>3, <1>4

LEMMA ExpireKeepsIInv ==
  ASSUME IInv, NEW t \in Tokens \ {NoToken}, Expire(t)
  PROVE  IInv'
<1>1. /\ t \in DOMAIN sessions /\ sessions[t].is # "revoked" /\ UNCHANGED <<users, cookie, req>>
      /\ sessions' = [sessions EXCEPT ![t].is = "expired"]
  BY DEF Expire, Valid, Tokens, NoToken, IInv, Types
<1>2. /\ sessions' \in Seq(Row) /\ Len(sessions') = Len(sessions) /\ DOMAIN sessions' = DOMAIN sessions
      /\ \A i \in DOMAIN sessions : /\ sessions'[i].user = sessions[i].user
                                    /\ sessions'[i].made = sessions[i].made
      /\ \A q \in Steps : Knows(q) => Knows(q)'
  BY <1>1, MarkedRow
<1>3. \A h \in Handlers : Knows(req[h])'
  BY <1>1, <1>2 DEF IInv, Types, Knows, Signing, Registered
<1> QED
  BY <1>1, <1>2, <1>3 DEF IInv, Types, OneSigns, Signing, OneRegistrant

LEMMA RevokeSessionKeepsIInv ==
  ASSUME MaxSessions \in Nat, IInv, NEW h \in Handlers, RevokeSession(h)
  PROVE  IInv'
<1>0. PICK r : r = [step |-> "answer", by |-> req[h].by, token |-> NoToken]
  OBVIOUS
<1>1. /\ req[h] \in Steps /\ req[h].step = "revoke" /\ UNCHANGED <<users, cookie>>
      /\ req' = [req EXCEPT ![h] = r] /\ req \in [Handlers -> Steps] /\ sessions \in Seq(Row)
  BY <1>0 DEF RevokeSession, Becomes, IInv, Types
<1>2. r \in Steps /\ r.step = "answer" /\ r.token = 0
  BY <1>0, <1>1, CookieStep DEF Steps, Tokens, NoToken
<1>3. req[h].token \in 0..Len(sessions)
  BY <1>1 DEF IInv, Knows
<1>4. /\ sessions' \in Seq(Row) /\ Len(sessions') = Len(sessions) /\ DOMAIN sessions' = DOMAIN sessions
      /\ \A i \in DOMAIN sessions : /\ sessions'[i].user = sessions[i].user
                                    /\ sessions'[i].made = sessions[i].made
      /\ \A q \in Steps : Knows(q) => Knows(q)'
  <2>1. CASE UNCHANGED sessions
    BY <1>1, <2>1 DEF Knows, Signing, Registered
  <2>2. CASE req[h].token # NoToken /\ sessions' = [sessions EXCEPT ![req[h].token].is = "revoked"]
    <3>1. req[h].token \in DOMAIN sessions
      BY <1>1, <1>3, <2>2 DEF NoToken
    <3> QED
      BY <1>1, <2>2, <3>1, MarkedRow
  <2> QED
    BY <2>1, <2>2 DEF RevokeSession
<1>5. \A g \in Handlers : req'[g] = IF g = h THEN r ELSE req[g]
  BY <1>1
<1>6. Types'
  BY <1>1, <1>2, <1>4 DEF IInv, Types
<1>7. \A g \in Handlers : Knows(req[g])'
  <2> SUFFICES ASSUME NEW g \in Handlers PROVE Knows(req[g])'
    OBVIOUS
  <2>1. CASE g = h
    BY <2>1, <1>2, <1>4, <1>5, <1>1 DEF Knows, Signing
  <2>2. CASE g # h
    <3>1. PICK q \in Steps : q = req[g]
      BY <1>1
    <3>2. Knows(q)' /\ req'[g] = q
      BY <2>2, <3>1, <1>4, <1>5 DEF IInv
    <3> QED
      BY <3>2 DEF Knows, Signing, Registered
  <2> QED
    BY <2>1, <2>2
<1>8. OneSigns'
  BY <1>2, <1>5 DEF IInv, OneSigns, Signing
<1> QED
  BY <1>1, <1>4, <1>6, <1>7, <1>8 DEF IInv, OneRegistrant

-----------------------------------------------------------------------------
(* The theorem *)

LEMMA NextIInv == ASSUME MaxSessions \in Nat, IInv, [Next]_vars PROVE IInv'
<1>1. ASSUME UNCHANGED <<users, sessions, cookie, req>> PROVE IInv'
  BY <1>1 DEF IInv, Types, Knows, Signing, Registered, OneSigns, OneRegistrant
<1>2. CASE Elapse \/ EvictStaleBuckets \/ UNCHANGED vars
  BY <1>1, <1>2 DEF Elapse, EvictStaleBuckets, vars
<1>3. ASSUME NEW h \in Handlers, Refuse(h) \/ Serve(h) PROVE IInv'
  BY <1>3, IdleKeepsIInv DEF Refuse, Serve
<1> QED
  BY <1>2, <1>3, ExpireKeepsIInv, AuthenticateKeepsIInv, AskKeepsIInv, LogoutKeepsIInv,
     FindUserKeepsIInv, CreateUserKeepsIInv, SignSessionKeepsIInv, AnswerKeepsIInv,
     VerifySessionKeepsIInv, RevokeSessionKeepsIInv DEF Next

\* Of those who register an e-mail one gets a session, and a request that comes
\* after its session was revoked is not served, for any number of e-mails,
\* browsers and requests handled at once.
THEOREM SessionsHold == ASSUME MaxSessions \in Nat PROVE Spec => []SessionsAreSound
<1>1. Init => IInv
  BY InitIInv
<1>2. IInv /\ [Next]_vars => IInv'
  BY NextIInv
<1>3. IInv => SessionsAreSound
  <2>1. ASSUME IInv, NEW h \in Handlers, req[h].step = "serve" PROVE ~req[h].gone
    BY <2>1 DEF IInv, Knows
  <2> QED
    BY <2>1 DEF SessionsAreSound, RevokedIsRefused, IInv
<1> QED
  BY <1>1, <1>2, <1>3, PTL DEF Spec

-----------------------------------------------------------------------------
(* The limiter *)

LEMMA LeastExists ==
  ASSUME NEW T \in SUBSET Nat, T # {}
  PROVE  \E m \in T : \A n \in T : m <= n
<1>1. \E m \in T : \A n \in T : ~(<<n, m>> \in OpToRel(<, Nat))
  BY NatLessThanWellFounded, WFMin
<1>2. \A m, n \in T : n < m => <<n, m>> \in OpToRel(<, Nat)
  BY DEF OpToRel
<1>3. \A m, n \in T : ~(n < m) => m <= n
  OBVIOUS
<1> QED
  BY <1>1, <1>2, <1>3

\* An initial segment of 1..n is as long as it has members.
LEMMA InitialSegment ==
  ASSUME NEW n \in Nat, NEW A \in SUBSET (1..n), \A i, j \in 1..n : i <= j /\ j \in A => i \in A
  PROVE  Cardinality(A) \in 0..n /\ A = 1..Cardinality(A)
<1> DEFINE B == (1..(n + 1)) \ A
<1>1. n + 1 \in B /\ B \in SUBSET Nat
  OBVIOUS
<1>2. PICK m \in B : \A k \in B : m <= k
  BY <1>1, LeastExists
<1>3. m \in 1..(n + 1)
  OBVIOUS
<1>4. \A i \in 1..(m - 1) : i \in A
  <2> SUFFICES ASSUME NEW i \in 1..(m - 1), i \notin A PROVE FALSE
    OBVIOUS
  <2>1. i \in B /\ i < m
    BY <1>3
  <2> QED
    BY <2>1, <1>2, <1>3
<1>5. \A i \in A : i \in 1..(m - 1)
  <2> SUFFICES ASSUME NEW i \in A, ~(i <= m - 1) PROVE FALSE
    OBVIOUS
  <2>1. m <= i /\ m \in 1..n
    BY <1>3
  <2>2. m \in A
    BY <2>1
  <2> QED
    BY <2>2
<1>6. A = 1..(m - 1)
  BY <1>4, <1>5
<1>7. Cardinality(1..(m - 1)) = m - 1
  BY <1>3, FS_Interval
<1> QED
  BY <1>3, <1>6, <1>7

Bounds == {Window, AuthMax, AlertMax} \subseteq Nat \ {0} /\ MaxSessions \in Nat
Most == IF AuthMax > AlertMax THEN AuthMax ELSE AlertMax
OldestFirst(ages) == \A i, j \in DOMAIN ages : i <= j => ages[i] >= ages[j]

\* What the limiter remembers: no more than it admits, the oldest first.
Limiter == bucket \in Seq(0..Window) /\ Len(bucket) <= Most /\ OldestFirst(bucket)

\* What it counts is what is recent, although it looks for where that begins.
LEMMA RecentIsRecent ==
  ASSUME Bounds, Limiter
  PROVE  /\ Recent \in Seq(0..Window) /\ Len(Recent) <= Len(bucket) /\ OldestFirst(Recent)
         /\ \A i \in DOMAIN bucket : bucket[i] < Window <=> i > Len(bucket) - Len(Recent)
         /\ \A i \in DOMAIN Recent : Recent[i] = bucket[Len(bucket) - Len(Recent) + i]
<1> DEFINE n == Len(bucket)
           k == Cardinality(Stale)
<1>1. /\ bucket \in Seq(0..Window) /\ n \in Nat /\ DOMAIN bucket = 1..n /\ Window \in Nat
      /\ \A i \in 1..n : bucket[i] \in 0..Window
      /\ \A i, j \in 1..n : i <= j => bucket[i] >= bucket[j]
  BY LenProperties, ElementOfSeq DEF Bounds, Limiter, OldestFirst
<1>2. k \in 0..n /\ Stale = 1..k
  <2>1. Stale = {i \in 1..n : bucket[i] >= Window}
    BY <1>1 DEF Stale
  <2>2. \A i, j \in 1..n : i <= j /\ j \in Stale => i \in Stale
    BY <2>1, <1>1
  <2>3. Stale \in SUBSET (1..n)
    BY <2>1
  <2> QED
    BY <1>1, <2>2, <2>3, InitialSegment
<1>3. Recent = SubSeq(bucket, k + 1, n)
  BY DEF Recent
<1> HIDE DEF n, k
<1>4. /\ Recent \in Seq(0..Window) /\ Len(Recent) = n - k
      /\ \A i \in 1..(n - k) : Recent[i] = bucket[k + i]
  <2>1. \A i \in (k + 1)..n : bucket[i] \in 0..Window
    BY <1>1, <1>2
  <2>2. k + 1 \in Int /\ n \in Int /\ k \in Int
    BY <1>1, <1>2
  <2>3. /\ Recent \in Seq(0..Window) /\ Len(Recent) = IF k + 1 <= n THEN n - (k + 1) + 1 ELSE 0
        /\ \A i \in 1..(n - (k + 1) + 1) : Recent[i] = bucket[k + 1 + i - 1]
    BY <2>1, <2>2, <1>3, SubSeqProperties
  <2>4. n - (k + 1) + 1 = n - k /\ \A i \in 1..(n - k) : k + 1 + i - 1 = k + i
    BY <2>2
  <2> QED
    BY <2>3, <2>4, <1>1, <1>2
<1>5. DOMAIN Recent = 1..(n - k) /\ n - Len(Recent) = k
  BY <1>1, <1>2, <1>4, LenProperties
<1>6. OldestFirst(Recent)
  <2> SUFFICES ASSUME NEW i \in 1..(n - k), NEW j \in 1..(n - k), i <= j PROVE Recent[i] >= Recent[j]
    BY <1>5 DEF OldestFirst
  <2>1. k + i \in 1..n /\ k + j \in 1..n /\ k + i <= k + j
    BY <1>1, <1>2
  <2> QED
    BY <2>1, <1>1, <1>4
<1>7. \A i \in DOMAIN bucket : bucket[i] < Window <=> i > k
  <2> SUFFICES ASSUME NEW i \in 1..n PROVE bucket[i] < Window <=> i > k
    BY <1>1
  <2>1. i \in Stale <=> i <= k
    BY <1>1, <1>2
  <2>2. i \in Stale <=> bucket[i] >= Window
    BY <1>1 DEF Stale
  <2> QED
    BY <2>1, <2>2, <1>1, <1>2
<1> QED
  BY <1>1, <1>2, <1>4, <1>5, <1>6, <1>7 DEF n

LEMMA CheckRateLimitKeeps ==
  ASSUME Bounds, Limiter, NEW max \in {AuthMax, AlertMax}, CheckRateLimit(max)
  PROVE  Limiter'
<1>1. /\ Recent \in Seq(0..Window) /\ Len(Recent) <= Len(bucket) /\ OldestFirst(Recent)
      /\ Len(Recent) \in Nat /\ DOMAIN Recent = 1..Len(Recent) /\ Len(bucket) \in Nat
      /\ Most \in Nat /\ max \in Nat /\ max <= Most /\ Len(bucket) <= Most /\ Window \in Nat
  <2>1. Recent \in Seq(0..Window) /\ Len(Recent) <= Len(bucket) /\ OldestFirst(Recent)
    BY RecentIsRecent
  <2>2. Most \in Nat /\ max \in Nat /\ max <= Most /\ Window \in Nat
    BY DEF Bounds, Most
  <2> QED
    BY <2>1, <2>2, LenProperties DEF Limiter
<1>2. CASE Len(Recent) < max
  <2> DEFINE next == Append(Recent, 0)
  <2>1. /\ next \in Seq(0..Window) /\ Len(next) = Len(Recent) + 1 /\ next[Len(Recent) + 1] = 0
        /\ DOMAIN next = 1..(Len(Recent) + 1) /\ \A i \in 1..Len(Recent) : next[i] = Recent[i]
    BY <1>1, AppendProperties
  <2>2. \A i \in 1..Len(Recent) : Recent[i] \in 0..Window
    BY <1>1, ElementOfSeq
  <2> HIDE DEF next
  <2>3. OldestFirst(next)
    <3> SUFFICES ASSUME NEW i \in 1..(Len(Recent) + 1), NEW j \in 1..(Len(Recent) + 1), i <= j
                 PROVE  next[i] >= next[j]
      BY <2>1 DEF OldestFirst
    <3>1. CASE j = Len(Recent) + 1
      BY <3>1, <2>1, <2>2, <1>1
    <3>2. CASE j # Len(Recent) + 1
      <4>1. i \in 1..Len(Recent) /\ j \in 1..Len(Recent)
        BY <3>2, <1>1
      <4> QED
        BY <4>1, <2>1, <1>1 DEF OldestFirst
    <3> QED
      BY <3>1, <3>2
  <2>4. Len(next) <= Most
    BY <1>1, <1>2, <2>1
  <2>5. bucket' = next
    BY <1>2 DEF CheckRateLimit, Admits, next
  <2> QED
    BY <2>1, <2>3, <2>4, <2>5 DEF Limiter
<1>3. CASE ~(Len(Recent) < max)
  <2>1. bucket' = Recent
    BY <1>3 DEF CheckRateLimit, Admits
  <2> QED
    BY <2>1, <1>1 DEF Limiter
<1> QED
  BY <1>2, <1>3

LEMMA LimiterElapses ==
  ASSUME Bounds, Limiter, Elapse
  PROVE  Limiter'
<1> DEFINE n == Len(bucket)
           older(a) == IF a < Window THEN a + 1 ELSE Window
<1>1. /\ bucket \in Seq(0..Window) /\ n \in Nat /\ DOMAIN bucket = 1..n /\ Window \in Nat
      /\ \A i \in 1..n : bucket[i] \in 0..Window
      /\ \A i, j \in 1..n : i <= j => bucket[i] >= bucket[j]
  BY LenProperties, ElementOfSeq DEF Bounds, Limiter, OldestFirst
<1>2. bucket' = [i \in 1..n |-> older(bucket[i])]
  BY <1>1 DEF Elapse
<1>3. \A a \in 0..Window : older(a) \in 0..Window
  BY <1>1
<1>4. \A a, b \in 0..Window : a >= b => older(a) >= older(b)
  BY <1>1
<1> HIDE DEF n, older
<1>5. bucket' \in Seq(0..Window) /\ Len(bucket') = n /\ DOMAIN bucket' = 1..n
  <2>1. bucket' \in [1..n -> 0..Window]
    BY <1>1, <1>2, <1>3
  <2> QED
    BY <2>1, <1>1
<1>6. OldestFirst(bucket')
  BY <1>1, <1>2, <1>4, <1>5 DEF OldestFirst
<1> QED
  BY <1>5, <1>6 DEF Limiter, n

LEMMA LimiterNext ==
  ASSUME Bounds, Limiter, [Next]_vars
  PROVE  Limiter'
<1>1. CASE UNCHANGED bucket
  BY <1>1 DEF Limiter
<1>2. CASE EvictStaleBuckets
  <2>1. bucket' = <<>> /\ Most \in Nat
    BY <1>2 DEF EvictStaleBuckets, Bounds, Most
  <2> QED
    BY <2>1 DEF Limiter, OldestFirst
<1>3. ASSUME NEW max \in {AuthMax, AlertMax}, CheckRateLimit(max) PROVE Limiter'
  BY <1>3, CheckRateLimitKeeps
<1>4. ASSUME NEW h \in Handlers, VerifySession(h) PROVE Limiter'
  BY <1>1, <1>3, <1>4 DEF VerifySession
<1>5. ASSUME NEW h \in Handlers, NEW b \in Browsers, NEW kind, NEW email, Authenticate(h, b, kind, email)
      PROVE  Limiter'
  BY <1>3, <1>5 DEF Authenticate
<1>6. ASSUME NEW h \in Handlers, NEW b \in Browsers, NEW kind, Ask(h, b, kind) \/ Logout(h, b)
      PROVE  Limiter'
  BY <1>1, <1>6 DEF Ask, Logout
<1>7. ASSUME NEW h \in Handlers,
             FindUser(h) \/ CreateUser(h) \/ SignSession(h) \/ Refuse(h) \/ Answer(h) \/ Serve(h) \/ RevokeSession(h)
      PROVE  Limiter'
  BY <1>1, <1>7 DEF FindUser, CreateUser, SignSession, Refuse, Answer, Serve, RevokeSession
<1>8. ASSUME NEW t, Expire(t) PROVE Limiter'
  BY <1>1, <1>8 DEF Expire
<1>9. CASE UNCHANGED vars
  BY <1>1, <1>9 DEF vars
<1> QED
  BY <1>2, <1>4, <1>5, <1>6, <1>7, <1>8, <1>9, LimiterElapses DEF Next

LEMMA InitLimiter == ASSUME Bounds, Init PROVE Limiter
<1>1. bucket = <<>> /\ Most \in Nat
  BY DEF Init, Bounds, Most
<1> QED
  BY <1>1 DEF Limiter, OldestFirst

\* The tables and requests keep their types, and the limiter never remembers
\* more requests than it admits in a window.
THEOREM ApiTypesHold == ASSUME Bounds PROVE Spec => []TypeOK
<1>1. Init => IInv /\ Limiter
  BY InitIInv, InitLimiter DEF Bounds
<1>2. IInv /\ Limiter /\ [Next]_vars => (IInv /\ Limiter)'
  BY NextIInv, LimiterNext DEF Bounds
<1>3. IInv /\ Limiter => TypeOK
  BY DEF IInv, Types, Limiter, Most, TypeOK
<1> QED
  BY <1>1, <1>2, <1>3, PTL DEF Spec
=============================================================================
