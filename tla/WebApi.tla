------------------------------- MODULE WebApi -------------------------------
(***************************************************************************)
(* Accounts, sessions and the rate limiter of the web application           *)
(* (src/app/api/auth, src/lib/session.ts, src/lib/rate-limit.ts).           *)
(* Requests are handled at once; a handler is cut at its awaits, where the  *)
(* others run.  All browsers come from one address, as they do behind the   *)
(* gateway.                                                                 *)
(***************************************************************************)
EXTENDS Naturals, Sequences, FiniteSets

CONSTANTS Emails, Browsers,
          Handlers,            \* bound: requests at once
          MaxSessions,         \* bound
          Window,              \* WINDOW_MS: a minute
          AuthMax, AlertMax    \* MAX_PER_WINDOW: 10, and what POST /api/alerts passes: 100

VARIABLES users,     \* e-mails of the rows of User
          sessions,  \* rows of Session; a token is its place
          cookie,    \* browser -> token
          bucket,    \* ages of the requests the limiter remembers
          req        \* handler -> request

vars == <<users, sessions, cookie, bucket, req>>

NoToken == 0
Tokens == 0..MaxSessions
Idle == [step |-> "idle"]
\* What a handler knows at each await.  `gone`, history: when the request came,
\* its session had been revoked.
Steps == {Idle}
  \cup [step : {"find"}, kind : {"register", "login"}, by : Browsers, email : Emails]
  \cup [step : {"create"}, kind : {"register"}, by : Browsers, email : Emails]
  \cup [step : {"sign"}, kind : {"register", "login"}, by : Browsers, email : Emails]
  \cup [step : {"answer"}, by : Browsers, token : Tokens]
  \cup [step : {"verify", "serve"}, kind : {"post", "other"}, token : Tokens, gone : BOOLEAN]
  \cup [step : {"revoke"}, by : Browsers, token : Tokens]
Row == [user : Emails, made : {"register", "login"}, is : {"valid", "expired", "revoked"}]

Init == /\ users = {} /\ sessions = <<>> /\ cookie = [b \in Browsers |-> NoToken]
        /\ bucket = <<>> /\ req = [h \in Handlers |-> Idle]

Becomes(h, s) == req' = [req EXCEPT ![h] = s]
Ends(h) == Becomes(h, Idle)
Revoked(t) == t # NoToken /\ sessions[t].is = "revoked"

-----------------------------------------------------------------------------
(* rate-limit.ts *)

\* The oldest come first, so what is recent follows what is not.
Stale == {i \in DOMAIN bucket : bucket[i] >= Window}
Recent == SubSeq(bucket, Cardinality(Stale) + 1, Len(bucket))
Admits(max) == Len(Recent) < max
CheckRateLimit(max) == bucket' = IF Admits(max) THEN Append(Recent, 0) ELSE Recent

Elapse == /\ bucket' = [i \in DOMAIN bucket |-> IF bucket[i] < Window THEN bucket[i] + 1 ELSE Window]
          /\ UNCHANGED <<users, sessions, cookie, req>>
\* Once there are enough addresses, buckets of which nothing is recent go.
EvictStaleBuckets == /\ Recent = <<>> /\ bucket' = <<>>
                     /\ UNCHANGED <<users, sessions, cookie, req>>

-----------------------------------------------------------------------------
(* register and login *)

Authenticate(h, b, kind, email) ==
  /\ req[h] = Idle /\ CheckRateLimit(AuthMax)
  /\ IF Admits(AuthMax)
     THEN Becomes(h, [step |-> "find", kind |-> kind, by |-> b, email |-> email])
     ELSE UNCHANGED req
  /\ UNCHANGED <<users, sessions, cookie>>

\* Missing fields, a weak or a wrong password, or a database error: an answer,
\* and no more.
Refuse(h) == /\ req[h].step \in {"find", "create", "sign"} /\ Ends(h)
             /\ UNCHANGED <<users, sessions, cookie, bucket>>

FindUser(h) ==
  /\ req[h].step = "find"
  /\ IF req[h].kind = "register"
     THEN IF req[h].email \in users THEN Ends(h) ELSE Becomes(h, [req[h] EXCEPT !.step = "create"])
     ELSE IF req[h].email \in users THEN Becomes(h, [req[h] EXCEPT !.step = "sign"]) ELSE Ends(h)
  /\ UNCHANGED <<users, sessions, cookie, bucket>>

\* (mutant: the row is made or found)
CreateOrFindUser(h) ==
  /\ req[h].step = "create" /\ users' = users \cup {req[h].email}
  /\ Becomes(h, [req[h] EXCEPT !.step = "sign"])
  /\ UNCHANGED <<sessions, cookie, bucket>>
\* The e-mail is unique: P2002 for whoever comes second.
CreateUser(h) ==
  /\ req[h].step = "create"
  /\ IF req[h].email \in users
     THEN Ends(h) /\ UNCHANGED users
     ELSE users' = users \cup {req[h].email} /\ Becomes(h, [req[h] EXCEPT !.step = "sign"])
  /\ UNCHANGED <<sessions, cookie, bucket>>

SignSession(h) ==
  /\ req[h].step = "sign" /\ Len(sessions) < MaxSessions
  /\ sessions' = Append(sessions, [user |-> req[h].email, made |-> req[h].kind, is |-> "valid"])
  /\ Becomes(h, [step |-> "answer", by |-> req[h].by, token |-> Len(sessions')])
  /\ UNCHANGED <<users, cookie, bucket>>

\* The browser takes the cookie, or its deletion, if the answer reaches it.
Answer(h) ==
  /\ req[h].step = "answer" /\ Ends(h)
  /\ cookie' \in {cookie, [cookie EXCEPT ![req[h].by] = req[h].token]}
  /\ UNCHANGED <<users, sessions, bucket>>

-----------------------------------------------------------------------------
(* Requests under a session, and logout *)

Ask(h, b, kind) ==
  /\ req[h] = Idle /\ cookie[b] # NoToken
  /\ Becomes(h, [step |-> "verify", kind |-> kind, token |-> cookie[b], gone |-> Revoked(cookie[b])])
  /\ UNCHANGED <<users, sessions, cookie, bucket>>

Valid(t) == sessions[t].is = "valid"

\* verifySession, and the limiter for alerts.  An error of the database is a
\* refusal.
VerifySession(h) ==
  /\ req[h].step = "verify"
  /\ \/ Valid(req[h].token) /\ req[h].kind = "other"
        /\ Becomes(h, [req[h] EXCEPT !.step = "serve"]) /\ UNCHANGED bucket
     \/ Valid(req[h].token) /\ req[h].kind = "post" /\ CheckRateLimit(AlertMax)
        /\ IF Admits(AlertMax) THEN Becomes(h, [req[h] EXCEPT !.step = "serve"]) ELSE Ends(h)
     \/ Ends(h) /\ UNCHANGED bucket
  /\ UNCHANGED <<users, sessions, cookie>>

\* Whatever was asked for is done, even if the session ended meanwhile.
Serve(h) == /\ req[h].step = "serve" /\ Ends(h)
            /\ UNCHANGED <<users, sessions, cookie, bucket>>

Logout(h, b) ==
  /\ req[h] = Idle
  /\ Becomes(h, [step |-> "revoke", by |-> b, token |-> cookie[b]])
  /\ UNCHANGED <<users, sessions, cookie, bucket>>

\* Best effort: the answer is the same when it fails.
RevokeSession(h) ==
  /\ req[h].step = "revoke"
  /\ LET t == req[h].token IN
     sessions' \in {sessions} \cup (IF t = NoToken THEN {}
                                    ELSE {[sessions EXCEPT ![t].is = "revoked"]})
  /\ Becomes(h, [step |-> "answer", by |-> req[h].by, token |-> NoToken])
  /\ UNCHANGED <<users, cookie, bucket>>

\* SESSION_TTL_MS: the token's own time and the row's, which are the same.
Expire(t) == /\ t <= Len(sessions) /\ Valid(t) /\ sessions' = [sessions EXCEPT ![t].is = "expired"]
             /\ UNCHANGED <<users, cookie, bucket, req>>

Next ==
  \/ Elapse \/ EvictStaleBuckets \/ \E t \in Tokens \ {NoToken} : Expire(t)
  \/ \E h \in Handlers :
       \/ \E b \in Browsers :
            \/ \E email \in Emails, kind \in {"register", "login"} : Authenticate(h, b, kind, email)
            \/ \E kind \in {"post", "other"} : Ask(h, b, kind)
            \/ Logout(h, b)
       \/ FindUser(h) \/ CreateUser(h) \/ SignSession(h) \/ Refuse(h) \/ Answer(h)
       \/ VerifySession(h) \/ Serve(h) \/ RevokeSession(h)
Spec == Init /\ [][Next]_vars

-----------------------------------------------------------------------------
\* The limiter remembers no more requests than it ever admits in a window.
TypeOK ==
  /\ users \subseteq Emails /\ sessions \in Seq(Row) /\ Len(sessions) <= MaxSessions
  /\ cookie \in [Browsers -> Tokens] /\ req \in [Handlers -> Steps]
  /\ bucket \in Seq(0..Window) /\ Len(bucket) <= IF AuthMax > AlertMax THEN AuthMax ELSE AlertMax

\* Of those who register an e-mail, at once or one after the other, one gets a
\* session of the account.
OneRegistrant ==
  \A i, j \in DOMAIN sessions :
    sessions[i].user = sessions[j].user /\ sessions[i].made = "register" /\ sessions[j].made = "register"
      => i = j

\* A request that comes after its session was revoked does nothing.  (One that
\* was verified before goes on; one whose session was not revoked, since the
\* revocation failed, is served.)
RevokedIsRefused == \A h \in Handlers : req[h].step = "serve" => ~req[h].gone

SessionsAreSound == OneRegistrant /\ RevokedIsRefused
=============================================================================
