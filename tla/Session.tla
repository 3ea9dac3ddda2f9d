------------------------------- MODULE Session -------------------------------
(***************************************************************************)
(* Who is signed in: a browser tab of the frontend (stores/auth.ts, the    *)
(* route guard, the 401 handling of api/client.ts and App.vue, LoginView)  *)
(* with the HTTP API and the accounts behind it (server/internal/api,      *)
(* user).  An action is one event of the tab's loop, or one request        *)
(* served.  Pages are reduced to the login page and the protected ones.    *)
(***************************************************************************)
EXTENDS Naturals, FiniteSets

CONSTANTS
    Users, NoUser, Local,   \* accounts; nobody; user.LocalUser
    Tokens, NoToken,        \* JWTs that may be issued; none
    Reqs,                   \* requests that may be under way at one time
    MaxNavFails             \* bound on pages whose code cannot be loaded

ASSUME SessionAssumption ==
    /\ NoUser # Local /\ NoUser \notin Users /\ Local \notin Users
    /\ NoToken \notin Tokens /\ MaxNavFails \in Nat

VARIABLES
    mode,       \* server: jwt, or none (single user)
    accounts,   \* server: registered users
    owner,      \* server: the subject of an issued token
    stored, storedUser,     \* localStorage: omo_token, omo_user
    token, user,            \* auth store
    meta,       \* auth store: the mode the server declares, or unknown
    boot,       \* closed, pending (bootstrap under way) or mounted
    page,       \* what RouterView shows: blank, login or app
    nav,        \* the navigation under way: none, login or app
    data,       \* whose tasks the page shows
    reqs,       \* the requests under way
    navFails
serverVars == <<mode, accounts, owner>>
authVars == <<stored, storedUser, token, user>>
pageVars == <<page, nav, data, navFails>>
vars == <<serverVars, authVars, meta, boot, pageVars, reqs>>

Free == [op |-> "free"]
Request(o, u) ==    \* HTTP carries the token of localStorage
    [op |-> o, user |-> u, token |-> stored, live |-> TRUE, state |-> "sent",
     answer |-> NoUser, issued |-> NoToken]
Request_ ==
    [op : {"meta", "login", "register", "tasks"}, user : Users \cup {NoUser},
     token : Tokens \cup {NoToken}, live : BOOLEAN, state : {"sent", "ok", "refused", "error"},
     answer : Users \cup {NoUser, Local}, issued : Tokens \cup {NoToken}]

TypeOK ==
    /\ mode \in {"jwt", "none"} /\ meta \in {"jwt", "none", "unknown"}
    /\ accounts \subseteq Users
    /\ owner \in [Tokens -> Users \cup {NoUser}]
    /\ stored \in Tokens \cup {NoToken} /\ token \in Tokens \cup {NoToken}
    /\ storedUser \in Users \cup {NoUser} /\ user \in Users \cup {NoUser}
    /\ boot \in {"closed", "pending", "mounted"}
    /\ page \in {"blank", "login", "app"} /\ nav \in {"none", "login", "app"}
    /\ data \in Users \cup {NoUser, Local}
    /\ reqs \in [Reqs -> Request_ \cup {Free}]
    /\ navFails \in 0 .. MaxNavFails

Init ==
    /\ mode \in {"jwt", "none"}
    /\ accounts = {} /\ owner = [k \in Tokens |-> NoUser]
    /\ stored = NoToken /\ storedUser = NoUser
    /\ token = NoToken /\ user = NoUser
    /\ meta = "unknown" /\ boot = "closed"
    /\ page = "blank" /\ nav = "none" /\ data = NoUser
    /\ reqs = [r \in Reqs |-> Free]
    /\ navFails = 0

(* authRequired: true until the server has said otherwise.                 *)
Required(m) == m # "none"
AuthRequired == Required(meta)
Authenticated == ~AuthRequired \/ token # NoToken

(* authGuard: where a navigation to p leads.                               *)
Guard(p, required, signedIn) ==
    IF ~required \/ (p = "login" /\ signedIn) THEN "app"
    ELSE IF p = "app" /\ ~signedIn THEN "login"
    ELSE p

Is(r, o) == reqs[r] # Free /\ reqs[r].op = o
Got(r, o, s) == Is(r, o) /\ reqs[r].state = s
Done(r) == reqs' = [reqs EXCEPT ![r] = Free]
(* Which of the free requests is taken makes no difference.                *)
Send(r, o, u) ==
    /\ reqs[r] = Free /\ r = CHOOSE q \in Reqs : reqs[q] = Free
    /\ reqs' = [reqs EXCEPT ![r] = Request(o, u)]
-----------------------------------------------------------------------------
(* Starting.                                                               *)

(* The tab is opened or loaded again: the store is read from localStorage  *)
(* and bootstrap asks for meta; what was under way is given up.            *)
Load(r) ==
    /\ token' = stored /\ user' = storedUser
    /\ meta' = "unknown" /\ boot' = "pending"
    /\ page' = "blank" /\ nav' = "none" /\ data' = NoUser
    /\ reqs' = [q \in Reqs |-> IF q = r THEN Request("meta", NoUser) ELSE Free]
    /\ UNCHANGED <<serverVars, stored, storedUser, navFails>>

(* bootstrap is over, with meta or without, and the app is mounted on the  *)
(* page of its URL, if the guard lets it.  A failed meta is not asked for  *)
(* again until the tab is loaded again.                                    *)
Booted(r) ==
    /\ Is(r, "meta") /\ reqs[r].state # "sent"
    /\ meta' = IF reqs[r].state = "ok" THEN mode ELSE "unknown"
    /\ boot' = "mounted"
    /\ \E p \in {"login", "app"} : nav' = Guard(p, Required(meta'), token # NoToken)
    /\ Done(r)
    /\ UNCHANGED <<serverVars, authVars, page, data, navFails>>
-----------------------------------------------------------------------------
(* Moving between pages.                                                   *)

(* A link or the history: a new navigation replaces the one under way.     *)
Navigate(p) ==
    /\ page # "blank"
    /\ nav' = Guard(p, AuthRequired, token # NoToken)
    /\ UNCHANGED <<serverVars, authVars, meta, boot, page, data, reqs, navFails>>

(* Faulty variant: the view of the last page is kept.                      *)
FinishNav_KeepsView ==
    /\ nav # "none"
    /\ page' = nav /\ nav' = "none"
    /\ UNCHANGED <<serverVars, authVars, meta, boot, data, reqs, navFails>>

(* The code of the page is there: the old view is unmounted, whose answers *)
(* are shown to nobody, the new one is mounted; from the login page to     *)
(* itself the view is kept.                                                *)
FinishNav ==
    /\ nav # "none"
    /\ page' = nav /\ nav' = "none" /\ data' = NoUser
    /\ reqs' = [r \in Reqs |-> IF reqs[r] = Free \/ (page = "login" /\ nav = "login")
                              THEN reqs[r] ELSE [reqs[r] EXCEPT !.live = FALSE]]
    /\ UNCHANGED <<serverVars, authVars, meta, boot, navFails>>

(* ... or cannot be loaded: the page stays.                                *)
NavFails ==
    /\ navFails < MaxNavFails /\ navFails' = navFails + 1
    /\ nav # "none" /\ page # "blank" /\ nav' = "none"
    /\ UNCHANGED <<serverVars, authVars, meta, boot, page, data, reqs>>
-----------------------------------------------------------------------------
(* Signing in and out.                                                     *)

(* submit of LoginView, whose button is disabled while the view has one    *)
(* under way; a view that was left may have another.                       *)
Submit(r, o, u) ==
    /\ o \in {"login", "register"} /\ page = "login"
    /\ \A q \in Reqs : Is(q, "login") \/ Is(q, "register") => ~reqs[q].live
    /\ Send(r, o, u)
    /\ UNCHANGED <<serverVars, authVars, meta, boot, pageVars>>

ApplyAuth(k, u) ==
    token' = k /\ user' = u /\ stored' = k /\ storedUser' = u

(* login has its token; submit goes on to the page asked for.              *)
LoggedIn(r) ==
    /\ Got(r, "login", "ok")
    /\ ApplyAuth(reqs[r].issued, reqs[r].user)
    /\ nav' = Guard("app", AuthRequired, TRUE)
    /\ Done(r)
    /\ UNCHANGED <<serverVars, meta, boot, page, data, navFails>>

(* Faulty variant: no navigation follows.                                  *)
Logout_StaysOnPage ==
    /\ token' = NoToken /\ user' = NoUser /\ stored' = NoToken /\ storedUser' = NoUser
    /\ UNCHANGED nav

(* App.logout and the same two lines of onUnauthorized.                    *)
Logout ==
    /\ token' = NoToken /\ user' = NoUser /\ stored' = NoToken /\ storedUser' = NoUser
    /\ nav' = Guard("login", AuthRequired, FALSE)

(* The button of the header, shown to whom it may concern.                 *)
ClickLogout ==
    /\ page # "blank" /\ AuthRequired /\ token # NoToken
    /\ Logout
    /\ UNCHANGED <<serverVars, meta, boot, page, data, reqs, navFails>>

(* Faulty variant: the event is not heard, only localStorage is cleared.   *)
Unauthorized_NoEvent(r) ==
    /\ reqs[r] # Free /\ reqs[r].state = "refused"
    /\ stored' = NoToken
    /\ UNCHANGED <<storedUser, token, user, nav>>
    /\ Done(r)
    /\ UNCHANGED <<serverVars, meta, boot, page, data, navFails>>

(* A 401, to any request of any session: invoke clears localStorage and    *)
(* App.vue logs out and goes to the login page, unless in single-user      *)
(* mode.                                                                   *)
Unauthorized(r) ==
    /\ reqs[r] # Free /\ reqs[r].state = "refused"
    /\ IF AuthRequired THEN Logout
       ELSE stored' = NoToken /\ UNCHANGED <<storedUser, token, user, nav>>
    /\ Done(r)
    /\ UNCHANGED <<serverVars, meta, boot, page, data, navFails>>

(* Other answers: an error message, or a registration, which signs nobody  *)
(* in.                                                                     *)
Shown(r) ==
    /\ reqs[r] # Free /\ ~Is(r, "meta")
    /\ reqs[r].state = "error" \/ Got(r, "register", "ok")
    /\ Done(r)
    /\ UNCHANGED <<serverVars, authVars, meta, boot, pageVars>>
-----------------------------------------------------------------------------
(* Tasks: a protected page loads what it shows, and loads it again.        *)

LoadTasks(r) ==
    /\ page = "app"
    /\ Send(r, "tasks", NoUser)
    /\ UNCHANGED <<serverVars, authVars, meta, boot, pageVars>>

GotTasks(r) ==
    /\ Got(r, "tasks", "ok")
    /\ data' = IF reqs[r].live THEN reqs[r].answer ELSE data
    /\ Done(r)
    /\ UNCHANGED <<serverVars, authVars, meta, boot, page, nav, navFails>>
-----------------------------------------------------------------------------
(* The server.  A statement of the database that fails is answered as an   *)
(* unknown user or a bad token.                                            *)

Answer(r, s) == reqs' = [reqs EXCEPT ![r].state = s]
Unserved(r, o) == Got(r, o, "sent") /\ UNCHANGED <<mode, authVars, meta, boot, pageVars>>

ServeMeta(r) == Unserved(r, "meta") /\ Answer(r, "ok") /\ UNCHANGED <<accounts, owner>>

ServeRegister(r) ==
    LET u == reqs[r].user IN
    /\ Unserved(r, "register")
    /\ \/ mode = "none" /\ Answer(r, "refused") /\ UNCHANGED accounts
       \/ mode = "jwt" /\ u \notin accounts /\ accounts' = accounts \cup {u} /\ Answer(r, "ok")
       \/ mode = "jwt" /\ Answer(r, "error") /\ UNCHANGED accounts   \* name taken, or not valid
    /\ UNCHANGED owner

ServeLogin(r) ==
    LET u == reqs[r].user IN
    /\ Unserved(r, "login")
    /\ \/ /\ mode = "jwt" /\ u \in accounts
          /\ \E k \in Tokens :
               /\ owner[k] = NoUser
               /\ owner' = [owner EXCEPT ![k] = u]
               /\ reqs' = [reqs EXCEPT ![r].state = "ok", ![r].issued = k]
       \/ Answer(r, "refused") /\ UNCHANGED owner       \* wrong password, or the database failed
    /\ UNCHANGED accounts

(* VerifyToken: a token is good until its time is over, which may be at    *)
(* any moment.                                                             *)
ServeTasks(r) ==
    /\ Unserved(r, "tasks")
    /\ \/ /\ mode = "none" \/ reqs[r].token # NoToken
          /\ reqs' = [reqs EXCEPT ![r].state = "ok",
                  ![r].answer = IF mode = "none" THEN Local ELSE owner[reqs[r].token]]
       \/ mode = "jwt" /\ Answer(r, "refused")  \* no token, its time over, or the database failed
    /\ UNCHANGED <<accounts, owner>>

(* No answer, or one of another status.                                    *)
Lose(r) ==
    /\ reqs[r] # Free /\ reqs[r].state \in {"sent", "ok"}
    /\ Answer(r, "error")
    /\ UNCHANGED <<serverVars, authVars, meta, boot, pageVars>>

-----------------------------------------------------------------------------
Serve(r) == ServeMeta(r) \/ ServeRegister(r) \/ ServeLogin(r) \/ ServeTasks(r)
Receive(r) == Booted(r) \/ LoggedIn(r) \/ Unauthorized(r) \/ Shown(r) \/ GotTasks(r)

Next ==
    \/ \E r \in Reqs :
        \/ Load(r) \/ LoadTasks(r) \/ Serve(r) \/ Receive(r) \/ Lose(r)
        \/ \E o \in {"login", "register"}, u \in Users : Submit(r, o, u)
    \/ \E p \in {"login", "app"} : Navigate(p)
    \/ FinishNav \/ NavFails \/ ClickLogout

Spec == Init /\ [][Next]_vars
FairSpec == Spec /\ WF_vars(FinishNav)
                 /\ \A r \in Reqs : WF_vars(Serve(r)) /\ WF_vars(Receive(r))
-----------------------------------------------------------------------------
Signed(k, u) == IF k = NoToken THEN u = NoUser ELSE u # NoUser /\ owner[k] = u

(* One identity: while sign-in matters, the token of the store is that of  *)
(* localStorage, which requests carry, and the name shown is its owner.    *)
OneIdentity ==
    /\ boot # "closed" => token = stored /\ user = storedUser
    /\ Signed(stored, storedUser) /\ Signed(token, user)

(* What is shown is about to be replaced, or its replacement has failed.   *)
Replaced == nav = "app" \/ navFails > 0

(* A page that is shown to somebody shows that user's tasks, however late  *)
(* the answers to an earlier user's requests come in, or is being replaced *)
(* (a second sign-in, sent before the page of the first one was there).    *)
ShowsOwnData ==
    mode = "jwt" /\ token # NoToken => data \in {NoUser, user} \/ Replaced

(* No protected page is on its way to somebody who is not signed in, also  *)
(* when the session ends while its code is loaded, and none is shown       *)
(* without the way to the login page being taken, but for code that cannot *)
(* be loaded; in single-user mode there is no login page.                  *)
GuardStands ==
    /\ nav = "app" => Authenticated
    /\ page = "app" /\ ~Authenticated => nav = "login" \/ navFails > 0
    /\ meta = "none" => page # "login" /\ nav # "login"

(* A request under way: meta is asked for alone, a token was issued, to    *)
(* whom it was asked for, and only a page that is shown has live requests. *)
RequestOK(r) ==
    /\ boot # "closed" /\ (reqs[r].op = "meta" <=> boot = "pending")
    /\ reqs[r].op = "meta" => /\ reqs[r].state # "refused"
                             /\ \A q \in Reqs \ {r} : reqs[q] = Free
    /\ reqs[r].token # NoToken => owner[reqs[r].token] # NoUser
    /\ reqs[r].op \in {"login", "register"} => reqs[r].user \in Users
    /\ Got(r, "login", "ok") => /\ reqs[r].issued # NoToken
                                /\ owner[reqs[r].issued] = reqs[r].user
    /\ Is(r, "tasks") =>
          /\ mode = "none" => reqs[r].state # "refused"
          /\ mode = "jwt" => \/ reqs[r].answer = NoUser
                             \/ /\ reqs[r].token # NoToken
                                /\ reqs[r].answer = owner[reqs[r].token]
          /\ reqs[r].live => page = "app" /\ (reqs[r].token = token \/ token = NoToken \/ Replaced)
Requests == \A r \in Reqs : reqs[r] # Free => RequestOK(r)

Pages ==
    /\ boot # "mounted" => page = "blank" /\ nav = "none" /\ meta = "unknown"
    /\ boot = "mounted" /\ page = "blank" => nav # "none"
    /\ meta \in {"unknown", mode}
    /\ page # "app" => data = NoUser
    /\ mode = "none" => accounts = {} /\ stored = NoToken /\ \A k \in Tokens : owner[k] = NoUser

SessionInv == TypeOK /\ OneIdentity /\ Requests /\ Pages /\ ShowsOwnData /\ GuardStands

(* 401 leads to the login page (frontend/README.md), and so does signing   *)
(* out: a protected page does not stay open without a session, unless the  *)
(* user signs in again or the code of the login page cannot be loaded.     *)
SignedOutLeaves ==
    boot = "mounted" /\ AuthRequired /\ token = NoToken ~>
        page = "login" \/ token # NoToken \/ boot # "mounted" \/ navFails > 0
=============================================================================
