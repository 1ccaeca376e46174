------------------------------- MODULE WebApp -------------------------------
(***************************************************************************)
(* The shell of the web interface in one browser tab (web/src/App.tsx,     *)
(* LoginPage.tsx, main.tsx and the core of api.ts): who is signed in       *)
(* according to the query cache, who is according to the cookie, and the   *)
(* route.  TanStack Query and React Router are external: a query that is   *)
(* mounted fetches again unless a fetch is under way, setQueryData does    *)
(* not cancel a fetch, and the onSuccess of a mutation runs even when the  *)
(* component that started it is gone.                                      *)
(***************************************************************************)
EXTENDS Integers

CONSTANT OpenPages      \* the pages of this instance that are opened

VARIABLES
    session,    \* the browser has a cookie that the server accepts
    csrfToken,  \* the module variable: not fetched, good, or of a cookie that is gone
    meta,       \* the query of the application's name, without which nothing renders
    route,
    user,       \* the query current-user; fetch is the answer under way
    signIn, signOut,
    expired     \* auxiliary: the session ended without a sign-out of this tab

appVars == <<session, csrfToken, meta, route, user, signIn, signOut, expired>>

-----------------------------------------------------------------------------
Pages == {"home", "create", "certificate", "credentials", "policy"}

ASSUME OpenPagesAssumption == "home" \in OpenPages /\ OpenPages \subseteq Pages

\* A request that the server accepts and that may still fail.
Pending == {"idle", "sent"}

NoQuery == [data |-> "undefined", error |-> FALSE, fetch |-> "idle"]

AppInit ==
    /\ session \in BOOLEAN
    /\ csrfToken = "unset"
    /\ meta = "pending"
    /\ route \in {"login", "home"}
    /\ user = NoQuery
    /\ signIn = "idle" /\ signOut = "idle"
    /\ expired = FALSE

-----------------------------------------------------------------------------
\* getCurrentUser: the server answers with the cookie as it is sent.
GetCurrentUser(valid) == IF valid THEN "user" ELSE "null"

\* A component with the query mounts.
Mount(q, valid) ==
    IF q.fetch = "idle"
    THEN [q EXCEPT !.fetch = GetCurrentUser(valid), !.error = @ /\ q.data # "undefined"]
    ELSE q

SetQueryData(q, value) == [q EXCEPT !.data = value, !.error = FALSE]

\* Between /login and the other routes another component with the query mounts.
Goto(r, q, valid) ==
    /\ route' = r
    /\ user' = IF (route = "login") # (r = "login") THEN Mount(q, valid) ELSE q

IsPending == user.data = "undefined" /\ ~user.error
Area      == meta = "ok" /\ route # "login" /\ user.data = "user"
LoginShown == meta = "ok" /\ route = "login" /\ ~IsPending /\ user.data # "user"

\* LoginRoute or AuthenticatedArea renders a Navigate.  It takes effect before the next
\* answer is handled.
Redirects == meta = "ok" /\ IF route = "login" THEN user.data = "user"
                            ELSE ~IsPending /\ user.data # "user"

\* Quiet: the tab waits for nothing but its user.
Quiet == user.fetch = "idle" /\ signIn = "idle" /\ signOut = "idle"

-----------------------------------------------------------------------------
\* getCSRFToken: fetched once and kept; the request for it may fail.
GetCSRFToken ==
    csrfToken' \in IF csrfToken = "unset" THEN {"unset", "good"} ELSE {csrfToken}

\* write and writeMethod, with the token of this step: the server refuses a token that
\* is not the cookie's, and without a session all but the login.  A request that is
\* refused leaves no more than a message.
Accepted(allowed) == allowed /\ csrfToken' = "good"
Write(allowed)    == IF Accepted(allowed) THEN "sent" ELSE "idle"

\* A page's own steps, without and with a request that writes.
Local == UNCHANGED appVars
Sends == GetCSRFToken /\ UNCHANGED <<session, meta, route, user, signIn, signOut, expired>>

\* The component of page p is mounted.  Bound: a page is at work when the shell waits
\* for nothing and has read its user without error.
On(p) == Area /\ route = p /\ Quiet /\ ~user.error

\* App: nothing is shown before the first answer, which is asked for twice.
MetaAnswers ==
    /\ meta \in {"pending", "retrying"}
    /\ \/ meta' = "ok" /\ user' = Mount(user, session)
       \/ /\ meta' = IF meta = "pending" THEN "retrying" ELSE "error"
          /\ UNCHANGED user
    /\ UNCHANGED <<session, csrfToken, route, signIn, signOut, expired>>

\* Mutant: the login page leaves only with the answer to its own query.
LoginRouteOnce ==
    /\ Redirects /\ route = "login" /\ user.fetch # "idle"
    /\ Goto("home", user, session)
    /\ UNCHANGED <<session, csrfToken, meta, signIn, signOut, expired>>

\* LoginRoute leaves when there is a user; AuthenticatedArea when there is none.
LoginRoute ==
    /\ Redirects /\ route = "login"
    /\ Goto("home", user, session)
    /\ UNCHANGED <<session, csrfToken, meta, signIn, signOut, expired>>

AuthenticatedArea ==
    /\ Redirects /\ route # "login"
    /\ Goto("login", user, session)
    /\ UNCHANGED <<session, csrfToken, meta, signIn, signOut, expired>>

\* Mutant: every error is taken for a missing session.
ErrorIsNull ==
    /\ user.fetch # "idle" /\ ~Redirects
    /\ \E data \in {user.fetch, "null"} :
          user' = [data |-> data, error |-> FALSE, fetch |-> "idle"]
    /\ UNCHANGED <<session, csrfToken, meta, route, signIn, signOut, expired>>

\* The answer to getCurrentUser, or an error that is not a 401; no retry.
UserAnswers ==
    /\ user.fetch # "idle" /\ ~Redirects
    /\ user' \in {[data |-> user.fetch, error |-> FALSE, fetch |-> "idle"],
                  [user EXCEPT !.error = TRUE, !.fetch = "idle"]}
    /\ UNCHANGED <<session, csrfToken, meta, route, signIn, signOut, expired>>

Login ==
    /\ LoginShown /\ signIn = "idle"
    /\ GetCSRFToken
    /\ signIn' = Write(TRUE)
    /\ UNCHANGED <<session, meta, route, user, signOut, expired>>

\* The answer brings the cookie; onSuccess sets the query and navigates.
LoginAnswers ==
    /\ signIn = "sent" /\ ~Redirects
    /\ signIn' = "idle"
    /\ \/ /\ session' = TRUE /\ expired' = FALSE
          /\ Goto("home", SetQueryData(user, "user"), TRUE)
       \/ UNCHANGED <<session, route, user, expired>>
    /\ UNCHANGED <<csrfToken, meta, signOut>>

\* Bound: the button, which every page has, is pressed on the first one.
SignOut ==
    /\ Area /\ route = "home" /\ signOut = "idle"
    /\ GetCSRFToken
    /\ signOut' = Write(session)
    /\ UNCHANGED <<session, meta, route, user, signIn, expired>>

SignOutAnswers ==
    /\ signOut = "sent" /\ ~Redirects
    /\ signOut' = "idle"
    /\ \/ /\ session' = FALSE
          /\ Goto("login", SetQueryData(user, "null"), FALSE)
       \/ UNCHANGED <<session, route, user>>
    /\ UNCHANGED <<csrfToken, meta, signIn, expired>>

\* A link, or the browser's back button.  The same bound, but for the first page.
Navigate(p) ==
    /\ Area /\ route # p
    /\ p = "home" \/ (Quiet /\ ~user.error)
    /\ Goto(p, user, session)
    /\ UNCHANGED <<session, csrfToken, meta, signIn, signOut, expired>>

\* The page is loaded anew: a new QueryClient and a new module api.ts.
Reload ==
    /\ csrfToken' = "unset" /\ meta' = "pending" /\ user' = NoQuery
    /\ signIn' = "idle" /\ signOut' = "idle"
    /\ UNCHANGED <<session, route, expired>>

\* SessionTTL passes, or another tab signs out.
SessionExpires ==
    /\ session
    /\ session' = FALSE /\ expired' = TRUE
    /\ UNCHANGED <<csrfToken, meta, route, user, signIn, signOut>>

\* gorilla/csrf (external) gives its cookie twelve hours and then makes another.
CsrfExpires ==
    /\ csrfToken = "good"
    /\ csrfToken' = "stale"
    /\ UNCHANGED <<session, meta, route, user, signIn, signOut, expired>>

AppNext ==
    \/ MetaAnswers \/ UserAnswers \/ LoginAnswers \/ SignOutAnswers
    \/ LoginRoute \/ AuthenticatedArea
    \/ Login \/ SignOut
    \/ \E p \in OpenPages : Navigate(p)
    \/ SessionExpires \/ CsrfExpires

-----------------------------------------------------------------------------
(* Correctness properties *)

AppTypeOK ==
    /\ session \in BOOLEAN /\ expired \in BOOLEAN
    /\ csrfToken \in {"unset", "good", "stale"}
    /\ meta \in {"pending", "retrying", "ok", "error"}
    /\ route \in Pages \cup {"login"}
    /\ user \in [data: {"undefined", "null", "user"}, error: BOOLEAN,
                 fetch: {"idle", "null", "user"}]
    /\ signIn \in Pending /\ signOut \in Pending

\* When nothing is under way, the interface shows its pages exactly to a browser with
\* a session, although answers of getCurrentUser from before a login or a sign-out may
\* arrive after it and overwrite what setQueryData has set.  Sessions that ended
\* elsewhere and a failed getCurrentUser are excluded.
SettledAgrees ==
    Quiet /\ (Area \/ LoginShown) /\ ~user.error /\ ~expired => (Area <=> session)

\* A browser with a session does not stay on the login page, whatever late answer put
\* it there.
SignInShown ==
    (meta = "ok" /\ session /\ route = "login")
    ~> (route # "login" \/ ~session \/ user.error \/ meta # "ok")
=============================================================================
