------------------------------- MODULE Sessions -------------------------------
(***************************************************************************)
(* Sessions and re-authentication (internal/auth/manager.go and            *)
(* internal/httpapi/auth.go).  The server keeps no session: the cookie     *)
(* (external, gorilla/sessions) is all there is, and a browser that has    *)
(* several requests under way sends copies of it and stores the answers as *)
(* they come.  A cookie cannot be forged or changed.                       *)
(***************************************************************************)
EXTENDS LoginLimiter

CONSTANTS
    Calls,                  \* slots for requests of the browser under way
    SessionTTL, ReauthTTL,
    MaxLogins               \* bound: logins of the browser

ASSUME SessionsAssumption == {SessionTTL, ReauthTTL, MaxLogins} \subseteq Nat \ {0}

VARIABLES
    jar,        \* the cookie the browser has
    call,       \* call[r]: a request, the cookie sent with it, then its answer
    loginAt,    \* auxiliary, loginAt[i]: time of the i-th login of the browser, or 0
    verifiedAt  \* auxiliary, verifiedAt[i]: when the password was last given in
                \* session i, or 0

sessionVars == <<jar, call, loginAt, verifiedAt>>
vars == <<now, limiterVars, sessionVars>>

-----------------------------------------------------------------------------
Logins == 1..MaxLogins

\* login is auxiliary; 0 in created_at or reauth_at stands for a missing value.
Cookie    == [login: 0..MaxLogins, created: 0..MaxTime, reauth: 0..MaxTime]
NoSession == [login |-> 0, created |-> 0, reauth |-> 0]
NoCall    == [op |-> "none", pc |-> "idle", cookie |-> NoSession]

NextLogin == Cardinality({i \in Logins : loginAt[i] # 0}) + 1

Init ==
    /\ LimiterInit
    /\ jar = NoSession
    /\ call = [r \in Calls |-> NoCall]
    /\ loginAt = [i \in Logins |-> 0]
    /\ verifiedAt = [i \in Logins |-> 0]

-----------------------------------------------------------------------------
\* Mutant: reauth_at of the previous session is not deleted.
NewSessionKeepsReauth == [jar EXCEPT !.login = NextLogin, !.created = now]

\* Login writes into the session that the request came with.
NewSession == [jar EXCEPT !.login = NextLogin, !.created = now, !.reauth = 0]

\* Login after Authenticate; the browser waits for this answer.  Other clients
\* log in too, and saving the session may fail.
Login(a) ==
    /\ attempt[a].pc = "granted"
    /\ \/ /\ NextLogin \in Logins
          /\ jar' = NewSession
          /\ loginAt' = [loginAt EXCEPT ![NextLogin] = now]
       \/ UNCHANGED <<jar, loginAt>>
    /\ Reply(a)
    /\ UNCHANGED <<now, states, counted, call, verifiedAt>>

\* The browser sends a request with the cookie it has.
Send(r, op) ==
    /\ call[r] = NoCall
    /\ call' = [call EXCEPT ![r] = [op |-> op, pc |-> "sent", cookie |-> jar]]
    /\ UNCHANGED <<now, limiterVars, jar, loginAt, verifiedAt>>

\* CurrentUser, also in requireAuth before every handler.
CurrentUser(c) == c.created # 0 /\ now <= c.created + SessionTTL

\* Mutant: a password given once is enough for the session.
ReauthenticatedOnce(c) == CurrentUser(c) /\ c.reauth # 0

Reauthenticated(c) == CurrentUser(c) /\ c.reauth # 0 /\ now - c.reauth <= ReauthTTL

\* The answer sets a cookie, or says that the operation is done; an error is of
\* no consequence to the browser.
SetCookie(r, c) == call' = [call EXCEPT ![r].pc = "cookie", ![r].cookie = c]
Done(r)         == call' = [call EXCEPT ![r].pc = "done", ![r].cookie = NoSession]
Error(r)        == call' = [call EXCEPT ![r] = NoCall]

\* Mutant: the session is renewed with the password.
ReauthenticateExtends(r) ==
    /\ call[r].op = "reauthenticate" /\ call[r].pc = "sent"
    /\ LET c == call[r].cookie
       IN \/ /\ CurrentUser(c)
             /\ SetCookie(r, [c EXCEPT !.reauth = now, !.created = now])
             /\ verifiedAt' = [verifiedAt EXCEPT ![c.login] = now]
          \/ Error(r) /\ UNCHANGED verifiedAt
    /\ UNCHANGED <<now, limiterVars, jar, loginAt>>

\* Reauthenticate, alone or in front of revoking and of revealing a key.  The
\* password may be wrong and saving may fail.
Reauthenticate(r) ==
    /\ call[r].op = "reauthenticate" /\ call[r].pc = "sent"
    /\ LET c == call[r].cookie
       IN \/ /\ CurrentUser(c)
             /\ SetCookie(r, [c EXCEPT !.reauth = now])
             /\ verifiedAt' = [verifiedAt EXCEPT ![c.login] = now]
          \/ Error(r) /\ UNCHANGED verifiedAt
    /\ UNCHANGED <<now, limiterVars, jar, loginAt>>

\* Logout: an empty session that expires at once.
Logout(r) ==
    /\ call[r].op = "logout" /\ call[r].pc = "sent"
    /\ \/ CurrentUser(call[r].cookie) /\ SetCookie(r, NoSession)
       \/ Error(r)
    /\ UNCHANGED <<now, limiterVars, jar, loginAt, verifiedAt>>

\* A key is downloaded or copied, or a renewal forced.
Protected(r) ==
    /\ call[r].op = "protected" /\ call[r].pc = "sent"
    /\ IF Reauthenticated(call[r].cookie) THEN Done(r) ELSE Error(r)
    /\ UNCHANGED <<now, limiterVars, jar, loginAt, verifiedAt>>

\* The answer arrives, with a cookie or without.
Receive(r) ==
    /\ call[r].pc \in {"cookie", "done"}
    /\ jar' = IF call[r].pc = "cookie" THEN call[r].cookie ELSE jar
    /\ call' = [call EXCEPT ![r] = NoCall]
    /\ UNCHANGED <<now, limiterVars, loginAt, verifiedAt>>

-----------------------------------------------------------------------------
Tick ==
    /\ now < MaxTime
    /\ now' = now + 1
    /\ Forget
    /\ UNCHANGED <<states, attempt, sessionVars>>

\* The secret of the cookies is configured, so that sessions outlive the process.
Restart ==
    /\ LimiterRestart
    /\ call' = [r \in Calls |-> NoCall]
    /\ UNCHANGED <<now, jar, loginAt, verifiedAt>>

Next ==
    \/ \E a \in Attempts : Login(a) \/ (Authenticate(a) /\ UNCHANGED sessionVars)
    \/ \E r \in Calls :
         \/ \E op \in {"reauthenticate", "logout", "protected"} : Send(r, op)
         \/ Reauthenticate(r) \/ Logout(r) \/ Protected(r) \/ Receive(r)
    \/ Tick \/ Restart

Spec == Init /\ [][Next]_vars

-----------------------------------------------------------------------------
(* Correctness properties *)

\* The state keeps its types, the map of the limiter within its limit and every
\* list of failures shorter than the limit that locks.
TypeOK ==
    /\ LimiterTypeOK
    /\ jar \in Cookie
    /\ call \in [Calls -> [op: {"none", "reauthenticate", "logout", "protected"},
                           pc: {"idle", "sent", "cookie", "done"}, cookie: Cookie]]
    /\ loginAt \in [Logins -> 0..MaxTime]
    /\ verifiedAt \in [Logins -> 0..MaxTime]

\* A protected operation is done only if the password was given again in the same
\* session, at most reauthTTL before the server looked, whatever cookies of earlier
\* sessions and earlier answers the browser mixed.
PasswordInSession ==
    [][\A r \in Calls :
         call[r].pc = "sent" /\ call'[r].pc = "done"
         => LET t == verifiedAt[call[r].cookie.login]
            IN t # 0 /\ now - t <= ReauthTTL /\ t >= loginAt[call[r].cookie.login]]_vars

\* No request is served later than the session's life time after its login: giving
\* the password again does not prolong the session.
SessionEnds ==
    [][\A r \in Calls :
         call[r].pc = "sent" /\ call'[r].pc \in {"cookie", "done"}
         => now <= loginAt[call[r].cookie.login] + SessionTTL]_vars
=============================================================================
