---------------------------- MODULE SessionProofs ----------------------------
(***************************************************************************)
(* SessionInv is inductive, for any users, tokens and requests.  Requests  *)
(* ties what is under way to the token it carries, Pages ties what is      *)
(* shown to the start of the tab; without the first a late answer could    *)
(* show another user's tasks, without the second a login could end in      *)
(* single-user mode.                                                       *)
(***************************************************************************)
EXTENDS Session, TLAPS

USE SessionAssumption

\* A request, sent, marked or answered, is a request.
LEMMA RequestTypes ==
    /\ \A o \in {"meta", "login", "register", "tasks"}, u \in Users \cup {NoUser} :
          stored \in Tokens \cup {NoToken} => Request(o, u) \in Request_
    /\ \A q \in Request_ :
        /\ [q EXCEPT !.live = FALSE] \in Request_
        /\ \A s \in {"ok", "refused", "error"} : [q EXCEPT !.state = s] \in Request_
        /\ \A k \in Tokens : [q EXCEPT !.state = "ok", !.issued = k] \in Request_
        /\ \A a \in Users \cup {NoUser, Local} : [q EXCEPT !.state = "ok", !.answer = a] \in Request_
  BY DEF Request, Request_

\* A free slot is no request.
LEMMA FreeIsNone == Free \notin Request_
  BY DEF Free, Request_

\* A function changed at one place.
LEMMA SetOne ==
    ASSUME NEW S, NEW f \in [Reqs -> S], NEW r \in Reqs, NEW x \in S
    PROVE  [f EXCEPT ![r] = x] \in [Reqs -> S]
  OBVIOUS

\* The types hold in the beginning.
LEMMA TypeInit == Init => TypeOK
  BY DEF Init, TypeOK

\* Every step keeps the types.
LEMMA TypeStep == TypeOK /\ Requests /\ [Next]_vars => TypeOK'
<1> SUFFICES ASSUME TypeOK, Requests, [Next]_vars PROVE TypeOK'
  OBVIOUS
<1> USE DEF TypeOK, serverVars, authVars, pageVars
<1>g. \A p \in {"login", "app"} : \A q, s \in BOOLEAN : Guard(p, q, s) \in {"login", "app"}
  BY DEF Guard
<1>1. ASSUME NEW r \in Reqs, Load(r) PROVE TypeOK'
  <2>1. Request("meta", NoUser) \in Request_
    BY RequestTypes
  <2> QED
    BY <1>1, <2>1 DEF Load
<1>2. ASSUME NEW r \in Reqs, Booted(r) PROVE TypeOK'
  BY <1>2, <1>g DEF Booted, Done, Required
<1>3. ASSUME NEW p \in {"login", "app"}, Navigate(p) PROVE TypeOK'
  BY <1>3, <1>g DEF Navigate, AuthRequired, Required
<1>4. CASE FinishNav
  <2>1. \A r \in Reqs : reqs'[r] \in Request_ \cup {Free}
    BY <1>4, RequestTypes DEF FinishNav, Is
  <2> QED
    BY <1>4, <2>1 DEF FinishNav
<1>5. CASE NavFails
  BY <1>5 DEF NavFails
<1>6. ASSUME NEW r \in Reqs, NEW o \in {"login", "register"}, NEW u \in Users, Submit(r, o, u)
      PROVE TypeOK'
  <2>1. Request(o, u) \in Request_
    BY RequestTypes
  <2> QED
    BY <1>6, <2>1 DEF Submit, Send
<1>7. ASSUME NEW r \in Reqs, LoggedIn(r) PROVE TypeOK'
  <2>1. reqs[r] \in Request_
    BY <1>7 DEF LoggedIn, Got, Is
  <2>2. reqs[r].issued \in Tokens \cup {NoToken} /\ reqs[r].user \in Users \cup {NoUser}
    BY <2>1 DEF Request_
  <2> QED
    BY <1>7, <1>g, <2>2 DEF LoggedIn, ApplyAuth, Done, AuthRequired, Required
<1>8. CASE ClickLogout
  BY <1>8, <1>g DEF ClickLogout, Logout, AuthRequired, Required
<1>9. ASSUME NEW r \in Reqs, Unauthorized(r) PROVE TypeOK'
  BY <1>9, <1>g DEF Unauthorized, Logout, Done, AuthRequired, Required
<1>10. ASSUME NEW r \in Reqs, Shown(r) PROVE TypeOK'
  BY <1>10 DEF Shown, Done
<1>11. ASSUME NEW r \in Reqs, LoadTasks(r) PROVE TypeOK'
  <2>1. Request("tasks", NoUser) \in Request_
    BY RequestTypes
  <2> QED
    BY <1>11, <2>1 DEF LoadTasks, Send
<1>12. ASSUME NEW r \in Reqs, GotTasks(r) PROVE TypeOK'
  <2>1. reqs[r].answer \in Users \cup {NoUser, Local}
    BY <1>12 DEF GotTasks, Got, Is, Request_
  <2> QED
    BY <1>12, <2>1 DEF GotTasks, Done
<1>13. ASSUME NEW r \in Reqs, Serve(r) \/ Lose(r) PROVE TypeOK'
  <2>1. reqs[r] \in Request_
    BY <1>13 DEF Serve, ServeMeta, ServeRegister, ServeLogin, ServeTasks, Lose, Unserved, Got, Is
  <2>a. reqs[r] \in Request_ /\ reqs \in [Reqs -> Request_ \cup {Free}]
    BY <2>1
  <2> HIDE DEF TypeOK
  <2>2. ASSUME NEW s \in {"ok", "refused", "error"}, Answer(r, s)
        PROVE  reqs' \in [Reqs -> Request_ \cup {Free}]
    <3>1. [reqs[r] EXCEPT !.state = s] \in Request_ \cup {Free}
      BY <2>1, RequestTypes
    <3> QED
      BY <2>2, <2>a, <3>1, SetOne DEF Answer
  <2>3. CASE ServeMeta(r)
    BY <2>3, <2>2 DEF ServeMeta, Unserved, TypeOK
  <2>4. CASE ServeRegister(r)
    <3>1. reqs[r].user \in Users
      BY <2>a, <2>4 DEF ServeRegister, Unserved, Got, Is, Requests, RequestOK
    <3>2. reqs' \in [Reqs -> Request_ \cup {Free}]
      BY <2>4, <2>2 DEF ServeRegister
    <3> QED
      BY <2>4, <3>1, <3>2 DEF ServeRegister, Unserved, TypeOK
  <2>5. CASE ServeLogin(r)
    <3>1. reqs[r].user \in Users \cup {NoUser}
      BY <2>1 DEF Request_
    <3>2. \A k \in Tokens : [reqs[r] EXCEPT !.state = "ok", !.issued = k] \in Request_
      BY <2>1, RequestTypes
    <3>3. reqs' \in [Reqs -> Request_ \cup {Free}]
      <4>1. ASSUME NEW k \in Tokens,
                   reqs' = [reqs EXCEPT ![r].state = "ok", ![r].issued = k]
            PROVE  reqs' \in [Reqs -> Request_ \cup {Free}]
        <5>1. reqs' = [reqs EXCEPT ![r] = [reqs[r] EXCEPT !.state = "ok", !.issued = k]]
          BY <2>a, <4>1
        <5> QED
          BY <2>a, <3>2, <5>1, SetOne
      <4> QED
        BY <2>5, <2>2, <4>1 DEF ServeLogin
    <3>4. owner' \in [Tokens -> Users \cup {NoUser}]
      BY <2>5, <3>1 DEF ServeLogin, TypeOK
    <3> QED
      BY <2>5, <3>3, <3>4 DEF ServeLogin, Unserved, TypeOK
  <2>6. CASE ServeTasks(r)
    <3>1. reqs[r].token \in Tokens \cup {NoToken}
      BY <2>1 DEF Request_
    <3>2. \A a \in Users \cup {NoUser, Local} :
            [reqs[r] EXCEPT !.state = "ok", !.answer = a] \in Request_
      BY <2>1, RequestTypes
    <3>3. ASSUME NEW a, a = (IF mode = "none" THEN Local ELSE owner[reqs[r].token]),
                 mode = "none" \/ reqs[r].token # NoToken,
                 reqs' = [reqs EXCEPT ![r].state = "ok", ![r].answer = a]
          PROVE  reqs' \in [Reqs -> Request_ \cup {Free}]
      <4>1. a \in Users \cup {NoUser, Local}
        BY <3>1, <3>3 DEF TypeOK
      <4>2. reqs' = [reqs EXCEPT ![r] = [reqs[r] EXCEPT !.state = "ok", !.answer = a]]
        BY <2>a, <3>3
      <4> QED
        BY <2>a, <3>2, <4>1, <4>2, SetOne
    <3>4. reqs' \in [Reqs -> Request_ \cup {Free}]
      BY <2>6, <2>2, <3>3 DEF ServeTasks
    <3> QED
      BY <2>6, <3>4 DEF ServeTasks, Unserved, TypeOK
  <2>7. CASE Lose(r)
    BY <2>7, <2>2 DEF Lose, TypeOK
  <2> QED
    BY <1>13, <2>3, <2>4, <2>5, <2>6, <2>7 DEF Serve
<1>14. CASE UNCHANGED vars
  BY <1>14 DEF vars
<1> QED
  BY <1>1, <1>2, <1>3, <1>4, <1>5, <1>6, <1>7, <1>8, <1>9, <1>10, <1>11, <1>12, <1>13, <1>14
     DEF Next, Receive
-----------------------------------------------------------------------------
Rest == OneIdentity /\ Requests /\ Pages /\ ShowsOwnData /\ GuardStands

\* The other parts hold in the beginning.
LEMMA RestInit == Init => Rest
  BY DEF Init, Rest, OneIdentity, Requests, Pages, ShowsOwnData, GuardStands, Signed, AuthRequired,
         Required, Authenticated

\* Every step keeps them: one case per action, one step per part.
LEMMA RestStep == SessionInv /\ [Next]_vars => Rest'
<1> SUFFICES ASSUME SessionInv, [Next]_vars PROVE Rest'
  OBVIOUS
<1>i. TypeOK /\ OneIdentity /\ Requests /\ Pages /\ ShowsOwnData /\ GuardStands
  BY DEF SessionInv
<1> USE DEF serverVars, authVars, pageVars, Got, Is, Done
<1>1. ASSUME NEW r \in Reqs, Load(r) PROVE Rest'
  <2>1. OneIdentity'
    BY <1>i, <1>1 DEF Load, TypeOK, OneIdentity, Requests, RequestOK, Request_, Pages, Signed
  <2>2. Requests'
    <3> SUFFICES ASSUME NEW q \in Reqs, reqs'[q] # Free PROVE RequestOK(q)'
      BY DEF Requests
    <3> QED
      BY <1>i, <1>1 DEF Load, TypeOK, OneIdentity, Signed, Requests, RequestOK, Pages, Request, Free, Replaced, Guard, AuthRequired, Required
  <2>3. Pages'
    BY <1>i, <1>1 DEF Load, TypeOK, OneIdentity, Requests, RequestOK, Request_, Pages, Guard, AuthRequired, Required, Signed
  <2>4. ShowsOwnData'
    BY <1>i, <1>1 DEF Load, TypeOK, Requests, RequestOK, Request_, Pages, ShowsOwnData, Replaced, OneIdentity, Signed, Guard, AuthRequired, Required
  <2>5. GuardStands'
    BY <1>i, <1>1 DEF Load, TypeOK, Requests, RequestOK, Request_, Pages, GuardStands, Guard, Authenticated, AuthRequired, Required
  <2> QED
    BY <2>1, <2>2, <2>3, <2>4, <2>5 DEF Rest
<1>2. ASSUME NEW r \in Reqs, Booted(r) PROVE Rest'
  <2>1. OneIdentity'
    BY <1>i, <1>2 DEF Booted, TypeOK, OneIdentity, Requests, RequestOK, Request_, Pages, Signed
  <2>0. \A q \in Reqs : reqs[q] # Free => reqs[q] \in Request_
    BY <1>i DEF TypeOK
  <2>2. Requests'
    <3> SUFFICES ASSUME NEW q \in Reqs, reqs'[q] # Free PROVE RequestOK(q)'
      BY DEF Requests
    <3>1. CASE q = r
      BY <1>i, <1>2, <2>0, <3>1 DEF Booted, TypeOK, OneIdentity, Signed, Requests, RequestOK, Pages, Request, Request_, Replaced, Free
    <3>2. CASE q # r
      BY <1>i, <1>2, <2>0, <3>2 DEF Booted, TypeOK, OneIdentity, Signed, Requests, RequestOK, Pages, Request_, Replaced, Guard, AuthRequired, Required
    <3> QED
      BY <3>1, <3>2
  <2>3. Pages'
    BY <1>i, <1>2 DEF Booted, TypeOK, OneIdentity, Requests, RequestOK, Request_, Pages, Guard, AuthRequired, Required, Signed
  <2>4. ShowsOwnData'
    BY <1>i, <1>2 DEF Booted, TypeOK, Requests, RequestOK, Request_, Pages, ShowsOwnData, Replaced, OneIdentity, Signed, Guard, AuthRequired, Required
  <2>5. GuardStands'
    BY <1>i, <1>2 DEF Booted, TypeOK, Requests, RequestOK, Request_, Pages, GuardStands, Guard, Authenticated, AuthRequired, Required
  <2> QED
    BY <2>1, <2>2, <2>3, <2>4, <2>5 DEF Rest
<1>3. ASSUME NEW p \in {"login", "app"}, Navigate(p) PROVE Rest'
  <2>1. OneIdentity'
    BY <1>i, <1>3 DEF Navigate, TypeOK, OneIdentity, Requests, RequestOK, Request_, Pages, Signed
  <2>2. Requests'
    <3> SUFFICES ASSUME NEW q \in Reqs, reqs'[q] # Free PROVE RequestOK(q)'
      BY DEF Requests
    <3> QED
      BY <1>i, <1>3 DEF Navigate, TypeOK, OneIdentity, Signed, Requests, RequestOK, Pages, Request, Free, Replaced, Guard, AuthRequired, Required
  <2>3. Pages'
    BY <1>i, <1>3 DEF Navigate, TypeOK, OneIdentity, Requests, RequestOK, Request_, Pages, Guard, AuthRequired, Required, Signed
  <2>4. ShowsOwnData'
    BY <1>i, <1>3 DEF Navigate, TypeOK, Requests, RequestOK, Request_, Pages, ShowsOwnData, Replaced, OneIdentity, Signed, Guard, AuthRequired, Required
  <2>5. GuardStands'
    BY <1>i, <1>3 DEF Navigate, TypeOK, Requests, RequestOK, Request_, Pages, GuardStands, Guard, Authenticated, AuthRequired, Required
  <2> QED
    BY <2>1, <2>2, <2>3, <2>4, <2>5 DEF Rest
<1>4. CASE FinishNav
  <2>1. OneIdentity'
    BY <1>i, <1>4 DEF FinishNav, TypeOK, OneIdentity, Requests, RequestOK, Request_, Pages, Signed
  <2>2. Requests'
    <3> SUFFICES ASSUME NEW q \in Reqs, reqs'[q] # Free PROVE RequestOK(q)'
      BY DEF Requests
    <3> QED
      BY <1>i, <1>4 DEF FinishNav, TypeOK, OneIdentity, Signed, Requests, RequestOK, Pages, Request, Free, Replaced, Guard, AuthRequired, Required
  <2>3. Pages'
    BY <1>i, <1>4 DEF FinishNav, TypeOK, OneIdentity, Requests, RequestOK, Request_, Pages, Guard, AuthRequired, Required, Signed
  <2>4. ShowsOwnData'
    BY <1>i, <1>4 DEF FinishNav, TypeOK, Requests, RequestOK, Request_, Pages, ShowsOwnData, Replaced, OneIdentity, Signed, Guard, AuthRequired, Required
  <2>5. GuardStands'
    BY <1>i, <1>4 DEF FinishNav, TypeOK, Requests, RequestOK, Request_, Pages, GuardStands, Guard, Authenticated, AuthRequired, Required
  <2> QED
    BY <2>1, <2>2, <2>3, <2>4, <2>5 DEF Rest
<1>5. CASE NavFails
  <2>1. OneIdentity'
    BY <1>i, <1>5 DEF NavFails, TypeOK, OneIdentity, Requests, RequestOK, Request_, Pages, Signed
  <2>2. Requests'
    <3> SUFFICES ASSUME NEW q \in Reqs, reqs'[q] # Free PROVE RequestOK(q)'
      BY DEF Requests
    <3> QED
      BY <1>i, <1>5 DEF NavFails, TypeOK, OneIdentity, Signed, Requests, RequestOK, Pages, Request, Free, Replaced, Guard, AuthRequired, Required
  <2>3. Pages'
    BY <1>i, <1>5 DEF NavFails, TypeOK, OneIdentity, Requests, RequestOK, Request_, Pages, Guard, AuthRequired, Required, Signed
  <2>4. ShowsOwnData'
    BY <1>i, <1>5 DEF NavFails, TypeOK, Requests, RequestOK, Request_, Pages, ShowsOwnData, Replaced, OneIdentity, Signed, Guard, AuthRequired, Required
  <2>5. GuardStands'
    BY <1>i, <1>5 DEF NavFails, TypeOK, Requests, RequestOK, Request_, Pages, GuardStands, Guard, Authenticated, AuthRequired, Required
  <2> QED
    BY <2>1, <2>2, <2>3, <2>4, <2>5 DEF Rest
<1>6. ASSUME NEW r \in Reqs, NEW o \in {"login", "register"}, NEW u \in Users, Submit(r, o, u) PROVE Rest'
  <2>1. OneIdentity'
    BY <1>i, <1>6 DEF Submit, Send, TypeOK, OneIdentity, Requests, RequestOK, Request_, Pages, Signed
  <2>0. \A q \in Reqs : reqs[q] # Free => reqs[q] \in Request_
    BY <1>i DEF TypeOK
  <2>2. Requests'
    <3> SUFFICES ASSUME NEW q \in Reqs, reqs'[q] # Free PROVE RequestOK(q)'
      BY DEF Requests
    <3>1. CASE q = r
      BY <1>i, <1>6, <2>0, <3>1 DEF Submit, Send, TypeOK, OneIdentity, Signed, Requests, RequestOK, Pages, Request, Request_, Replaced, Free
    <3>2. CASE q # r
      BY <1>i, <1>6, <2>0, <3>2 DEF Submit, Send, TypeOK, OneIdentity, Signed, Requests, RequestOK, Pages, Request_, Replaced, Guard, AuthRequired, Required
    <3> QED
      BY <3>1, <3>2
  <2>3. Pages'
    BY <1>i, <1>6 DEF Submit, Send, TypeOK, OneIdentity, Requests, RequestOK, Request_, Pages, Guard, AuthRequired, Required, Signed
  <2>4. ShowsOwnData'
    BY <1>i, <1>6 DEF Submit, Send, TypeOK, Requests, RequestOK, Request_, Pages, ShowsOwnData, Replaced, OneIdentity, Signed, Guard, AuthRequired, Required
  <2>5. GuardStands'
    BY <1>i, <1>6 DEF Submit, Send, TypeOK, Requests, RequestOK, Request_, Pages, GuardStands, Guard, Authenticated, AuthRequired, Required
  <2> QED
    BY <2>1, <2>2, <2>3, <2>4, <2>5 DEF Rest
<1>7. ASSUME NEW r \in Reqs, LoggedIn(r) PROVE Rest'
  <2>1. OneIdentity'
    BY <1>i, <1>7 DEF LoggedIn, ApplyAuth, TypeOK, OneIdentity, Requests, RequestOK, Request_, Pages, Signed
  <2>0. \A q \in Reqs : reqs[q] # Free => reqs[q] \in Request_
    BY <1>i DEF TypeOK
  <2>2. Requests'
    <3> SUFFICES ASSUME NEW q \in Reqs, reqs'[q] # Free PROVE RequestOK(q)'
      BY DEF Requests
    <3>1. CASE q = r
      BY <1>i, <1>7, <2>0, <3>1 DEF LoggedIn, ApplyAuth, TypeOK, OneIdentity, Signed, Requests, RequestOK, Pages, Request, Request_, Replaced, Free
    <3>2. CASE q # r
      BY <1>i, <1>7, <2>0, <3>2 DEF LoggedIn, ApplyAuth, TypeOK, OneIdentity, Signed, Requests, RequestOK, Pages, Request_, Replaced, Guard, AuthRequired, Required
    <3> QED
      BY <3>1, <3>2
  <2>3. Pages'
    BY <1>i, <1>7 DEF LoggedIn, ApplyAuth, TypeOK, OneIdentity, Requests, RequestOK, Request_, Pages, Guard, AuthRequired, Required, Signed
  <2>4. ShowsOwnData'
    BY <1>i, <1>7 DEF LoggedIn, ApplyAuth, TypeOK, Requests, RequestOK, Request_, Pages, ShowsOwnData, Replaced, OneIdentity, Signed, Guard, AuthRequired, Required
  <2>5. GuardStands'
    BY <1>i, <1>7 DEF LoggedIn, ApplyAuth, TypeOK, Requests, RequestOK, Request_, Pages, GuardStands, Guard, Authenticated, AuthRequired, Required
  <2> QED
    BY <2>1, <2>2, <2>3, <2>4, <2>5 DEF Rest
<1>8. CASE ClickLogout
  <2>1. OneIdentity'
    BY <1>i, <1>8 DEF ClickLogout, Logout, TypeOK, OneIdentity, Requests, RequestOK, Request_, Pages, Signed
  <2>2. Requests'
    <3> SUFFICES ASSUME NEW q \in Reqs, reqs'[q] # Free PROVE RequestOK(q)'
      BY DEF Requests
    <3> QED
      BY <1>i, <1>8 DEF ClickLogout, Logout, TypeOK, OneIdentity, Signed, Requests, RequestOK, Pages, Request, Free, Replaced, Guard, AuthRequired, Required
  <2>3. Pages'
    BY <1>i, <1>8 DEF ClickLogout, Logout, TypeOK, OneIdentity, Requests, RequestOK, Request_, Pages, Guard, AuthRequired, Required, Signed
  <2>4. ShowsOwnData'
    BY <1>i, <1>8 DEF ClickLogout, Logout, TypeOK, Requests, RequestOK, Request_, Pages, ShowsOwnData, Replaced, OneIdentity, Signed, Guard, AuthRequired, Required
  <2>5. GuardStands'
    BY <1>i, <1>8 DEF ClickLogout, Logout, TypeOK, Requests, RequestOK, Request_, Pages, GuardStands, Guard, Authenticated, AuthRequired, Required
  <2> QED
    BY <2>1, <2>2, <2>3, <2>4, <2>5 DEF Rest
<1>9. ASSUME NEW r \in Reqs, Unauthorized(r) PROVE Rest'
  <2>1. OneIdentity'
    <3>1. ~AuthRequired => stored = NoToken
      BY <1>i DEF AuthRequired, Required, Pages, TypeOK
    <3> QED
      BY <1>i, <1>9, <3>1 DEF Unauthorized, Logout, OneIdentity, Signed
  <2>0. \A q \in Reqs : reqs[q] # Free => reqs[q] \in Request_
    BY <1>i DEF TypeOK
  <2>2. Requests'
    <3> SUFFICES ASSUME NEW q \in Reqs, reqs'[q] # Free PROVE RequestOK(q)'
      BY DEF Requests
    <3>1. CASE q = r
      BY <1>i, <1>9, <2>0, <3>1 DEF Unauthorized, Logout, TypeOK, OneIdentity, Signed, Requests, RequestOK, Pages, Request, Request_, Replaced, Free
    <3>2. CASE q # r
      BY <1>i, <1>9, <2>0, <3>2 DEF Unauthorized, Logout, TypeOK, OneIdentity, Signed, Requests, RequestOK, Pages, Request_, Replaced, Guard, AuthRequired, Required
    <3> QED
      BY <3>1, <3>2
  <2>3. Pages'
    BY <1>i, <1>9 DEF Unauthorized, Logout, TypeOK, OneIdentity, Requests, RequestOK, Request_, Pages, Guard, AuthRequired, Required, Signed
  <2>4. ShowsOwnData'
    BY <1>i, <1>9 DEF Unauthorized, Logout, TypeOK, Requests, RequestOK, Request_, Pages, ShowsOwnData, Replaced, OneIdentity, Signed, Guard, AuthRequired, Required
  <2>5. GuardStands'
    BY <1>i, <1>9 DEF Unauthorized, Logout, TypeOK, Requests, RequestOK, Request_, Pages, GuardStands, Guard, Authenticated, AuthRequired, Required
  <2> QED
    BY <2>1, <2>2, <2>3, <2>4, <2>5 DEF Rest
<1>10. ASSUME NEW r \in Reqs, Shown(r) PROVE Rest'
  <2>1. OneIdentity'
    BY <1>i, <1>10 DEF Shown, TypeOK, OneIdentity, Requests, RequestOK, Request_, Pages, Signed
  <2>0. \A q \in Reqs : reqs[q] # Free => reqs[q] \in Request_
    BY <1>i DEF TypeOK
  <2>2. Requests'
    <3> SUFFICES ASSUME NEW q \in Reqs, reqs'[q] # Free PROVE RequestOK(q)'
      BY DEF Requests
    <3>1. CASE q = r
      BY <1>i, <1>10, <2>0, <3>1 DEF Shown, TypeOK, OneIdentity, Signed, Requests, RequestOK, Pages, Request, Request_, Replaced, Free
    <3>2. CASE q # r
      BY <1>i, <1>10, <2>0, <3>2 DEF Shown, TypeOK, OneIdentity, Signed, Requests, RequestOK, Pages, Request_, Replaced, Guard, AuthRequired, Required
    <3> QED
      BY <3>1, <3>2
  <2>3. Pages'
    BY <1>i, <1>10 DEF Shown, TypeOK, OneIdentity, Requests, RequestOK, Request_, Pages, Guard, AuthRequired, Required, Signed
  <2>4. ShowsOwnData'
    BY <1>i, <1>10 DEF Shown, TypeOK, Requests, RequestOK, Request_, Pages, ShowsOwnData, Replaced, OneIdentity, Signed, Guard, AuthRequired, Required
  <2>5. GuardStands'
    BY <1>i, <1>10 DEF Shown, TypeOK, Requests, RequestOK, Request_, Pages, GuardStands, Guard, Authenticated, AuthRequired, Required
  <2> QED
    BY <2>1, <2>2, <2>3, <2>4, <2>5 DEF Rest
<1>11. ASSUME NEW r \in Reqs, LoadTasks(r) PROVE Rest'
  <2>1. OneIdentity'
    BY <1>i, <1>11 DEF LoadTasks, Send, TypeOK, OneIdentity, Requests, RequestOK, Request_, Pages, Signed
  <2>0. \A q \in Reqs : reqs[q] # Free => reqs[q] \in Request_
    BY <1>i DEF TypeOK
  <2>2. Requests'
    <3> SUFFICES ASSUME NEW q \in Reqs, reqs'[q] # Free PROVE RequestOK(q)'
      BY DEF Requests
    <3>1. CASE q = r
      <4>1. /\ reqs'[q].op = "tasks" /\ reqs'[q].token = stored /\ reqs'[q].answer = NoUser
            /\ reqs'[q].state = "sent"
        BY <1>i, <1>11, <3>1 DEF LoadTasks, Send, TypeOK, Request
      <4>2. boot = "mounted" /\ stored = token /\ (stored # NoToken => owner[stored] # NoUser)
        <5>1. boot = "mounted"
          BY <1>i, <1>11 DEF LoadTasks, Pages, TypeOK
        <5> QED
          BY <1>i, <5>1 DEF OneIdentity, Signed, TypeOK
      <4> QED
        BY <1>11, <4>1, <4>2 DEF LoadTasks, RequestOK
    <3>2. CASE q # r
      BY <1>i, <1>11, <2>0, <3>2 DEF LoadTasks, Send, TypeOK, OneIdentity, Signed, Requests, RequestOK, Pages, Request_, Replaced, Guard, AuthRequired, Required
    <3> QED
      BY <3>1, <3>2
  <2>3. Pages'
    BY <1>i, <1>11 DEF LoadTasks, Send, TypeOK, OneIdentity, Requests, RequestOK, Request_, Pages, Guard, AuthRequired, Required, Signed
  <2>4. ShowsOwnData'
    BY <1>i, <1>11 DEF LoadTasks, Send, TypeOK, Requests, RequestOK, Request_, Pages, ShowsOwnData, Replaced, OneIdentity, Signed, Guard, AuthRequired, Required
  <2>5. GuardStands'
    BY <1>i, <1>11 DEF LoadTasks, Send, TypeOK, Requests, RequestOK, Request_, Pages, GuardStands, Guard, Authenticated, AuthRequired, Required
  <2> QED
    BY <2>1, <2>2, <2>3, <2>4, <2>5 DEF Rest
<1>12. ASSUME NEW r \in Reqs, GotTasks(r) PROVE Rest'
  <2>1. OneIdentity'
    BY <1>i, <1>12 DEF GotTasks, TypeOK, OneIdentity, Requests, RequestOK, Request_, Pages, Signed
  <2>0. \A q \in Reqs : reqs[q] # Free => reqs[q] \in Request_
    BY <1>i DEF TypeOK
  <2>2. Requests'
    <3> SUFFICES ASSUME NEW q \in Reqs, reqs'[q] # Free PROVE RequestOK(q)'
      BY DEF Requests
    <3>1. CASE q = r
      BY <1>i, <1>12, <2>0, <3>1 DEF GotTasks, TypeOK, OneIdentity, Signed, Requests, RequestOK, Pages, Request, Request_, Replaced, Free
    <3>2. CASE q # r
      BY <1>i, <1>12, <2>0, <3>2 DEF GotTasks, TypeOK, OneIdentity, Signed, Requests, RequestOK, Pages, Request_, Replaced, Guard, AuthRequired, Required
    <3> QED
      BY <3>1, <3>2
  <2>3. Pages'
    BY <1>i, <1>12 DEF GotTasks, TypeOK, OneIdentity, Requests, RequestOK, Request_, Pages, Guard, AuthRequired, Required, Signed
  <2>4. ShowsOwnData'
    BY <1>i, <1>12 DEF GotTasks, TypeOK, Requests, RequestOK, Request_, Pages, ShowsOwnData, Replaced, OneIdentity, Signed, Guard, AuthRequired, Required
  <2>5. GuardStands'
    BY <1>i, <1>12 DEF GotTasks, TypeOK, Requests, RequestOK, Request_, Pages, GuardStands, Guard, Authenticated, AuthRequired, Required
  <2> QED
    BY <2>1, <2>2, <2>3, <2>4, <2>5 DEF Rest
<1>13. ASSUME NEW r \in Reqs, ServeMeta(r) PROVE Rest'
  <2>1. OneIdentity'
    BY <1>i, <1>13 DEF ServeMeta, Unserved, Answer, TypeOK, OneIdentity, Requests, RequestOK, Request_, Pages, Signed
  <2>0. \A q \in Reqs : reqs[q] # Free => reqs[q] \in Request_
    BY <1>i DEF TypeOK
  <2>2. Requests'
    <3> SUFFICES ASSUME NEW q \in Reqs, reqs'[q] # Free PROVE RequestOK(q)'
      BY DEF Requests
    <3>1. CASE q = r
      BY <1>i, <1>13, <2>0, <3>1 DEF ServeMeta, Unserved, Answer, TypeOK, OneIdentity, Signed, Requests, RequestOK, Pages, Request, Request_, Replaced, Free
    <3>2. CASE q # r
      BY <1>i, <1>13, <2>0, <3>2 DEF ServeMeta, Unserved, Answer, TypeOK, OneIdentity, Signed, Requests, RequestOK, Pages, Request_, Replaced, Guard, AuthRequired, Required
    <3> QED
      BY <3>1, <3>2
  <2>3. Pages'
    BY <1>i, <1>13 DEF ServeMeta, Unserved, Answer, TypeOK, OneIdentity, Requests, RequestOK, Request_, Pages, Guard, AuthRequired, Required, Signed
  <2>4. ShowsOwnData'
    BY <1>i, <1>13 DEF ServeMeta, Unserved, Answer, TypeOK, Requests, RequestOK, Request_, Pages, ShowsOwnData, Replaced, OneIdentity, Signed, Guard, AuthRequired, Required
  <2>5. GuardStands'
    BY <1>i, <1>13 DEF ServeMeta, Unserved, Answer, TypeOK, Requests, RequestOK, Request_, Pages, GuardStands, Guard, Authenticated, AuthRequired, Required
  <2> QED
    BY <2>1, <2>2, <2>3, <2>4, <2>5 DEF Rest
<1>14. ASSUME NEW r \in Reqs, ServeRegister(r) PROVE Rest'
  <2>1. OneIdentity'
    BY <1>i, <1>14 DEF ServeRegister, Unserved, Answer, TypeOK, OneIdentity, Requests, RequestOK, Request_, Pages, Signed
  <2>0. \A q \in Reqs : reqs[q] # Free => reqs[q] \in Request_
    BY <1>i DEF TypeOK
  <2>2. Requests'
    <3> SUFFICES ASSUME NEW q \in Reqs, reqs'[q] # Free PROVE RequestOK(q)'
      BY DEF Requests
    <3>1. CASE q = r
      BY <1>i, <1>14, <2>0, <3>1 DEF ServeRegister, Unserved, Answer, TypeOK, OneIdentity, Signed, Requests, RequestOK, Pages, Request, Request_, Replaced, Free
    <3>2. CASE q # r
      BY <1>i, <1>14, <2>0, <3>2 DEF ServeRegister, Unserved, Answer, TypeOK, OneIdentity, Signed, Requests, RequestOK, Pages, Request_, Replaced, Guard, AuthRequired, Required
    <3> QED
      BY <3>1, <3>2
  <2>3. Pages'
    BY <1>i, <1>14 DEF ServeRegister, Unserved, Answer, TypeOK, OneIdentity, Requests, RequestOK, Request_, Pages, Guard, AuthRequired, Required, Signed
  <2>4. ShowsOwnData'
    BY <1>i, <1>14 DEF ServeRegister, Unserved, Answer, TypeOK, Requests, RequestOK, Request_, Pages, ShowsOwnData, Replaced, OneIdentity, Signed, Guard, AuthRequired, Required
  <2>5. GuardStands'
    BY <1>i, <1>14 DEF ServeRegister, Unserved, Answer, TypeOK, Requests, RequestOK, Request_, Pages, GuardStands, Guard, Authenticated, AuthRequired, Required
  <2> QED
    BY <2>1, <2>2, <2>3, <2>4, <2>5 DEF Rest
<1>15. ASSUME NEW r \in Reqs, ServeLogin(r) PROVE Rest'
  <2>1. OneIdentity'
    BY <1>i, <1>15 DEF ServeLogin, Unserved, Answer, TypeOK, OneIdentity, Requests, RequestOK, Request_, Pages, Signed
  <2>0. \A q \in Reqs : reqs[q] # Free => reqs[q] \in Request_
    BY <1>i DEF TypeOK
  <2>2. Requests'
    <3> SUFFICES ASSUME NEW q \in Reqs, reqs'[q] # Free PROVE RequestOK(q)'
      BY DEF Requests
    <3>1. CASE q = r
      BY <1>i, <1>15, <2>0, <3>1 DEF ServeLogin, Unserved, Answer, TypeOK, OneIdentity, Signed, Requests, RequestOK, Pages, Request, Request_, Replaced, Free
    <3>2. CASE q # r
      <4>1. \A j \in Tokens : owner[j] # NoUser => owner'[j] = owner[j]
        BY <1>i, <1>15 DEF ServeLogin, TypeOK
      <4>2. reqs'[q] = reqs[q] /\ reqs[q] # Free /\ reqs[q] \in Request_
        BY <1>i, <1>15, <2>0, <3>2 DEF ServeLogin, Answer, TypeOK
      <4>3. \A j \in Reqs : reqs'[j] = Free <=> reqs[j] = Free
        <5>1. reqs[r] # Free /\ reqs[r] \in Request_
          BY <1>15, <2>0 DEF ServeLogin, Unserved
        <5>2. reqs[r].op = "login" /\ reqs'[r].op = reqs[r].op
          BY <1>i, <1>15, <5>1 DEF ServeLogin, Unserved, Answer, TypeOK, Request_
        <5>3. reqs'[r] # Free
          BY <5>2 DEF Free
        <5> QED
          BY <1>i, <1>15, <5>1, <5>3 DEF ServeLogin, Answer, TypeOK
      <4> QED
        BY <1>i, <1>15, <4>1, <4>2, <4>3 DEF ServeLogin, Unserved, Requests, RequestOK, Request_, Replaced
    <3> QED
      BY <3>1, <3>2
  <2>3. Pages'
    BY <1>i, <1>15 DEF ServeLogin, Unserved, Answer, TypeOK, OneIdentity, Requests, RequestOK, Request_, Pages, Guard, AuthRequired, Required, Signed
  <2>4. ShowsOwnData'
    BY <1>i, <1>15 DEF ServeLogin, Unserved, Answer, TypeOK, Requests, RequestOK, Request_, Pages, ShowsOwnData, Replaced, OneIdentity, Signed, Guard, AuthRequired, Required
  <2>5. GuardStands'
    BY <1>i, <1>15 DEF ServeLogin, Unserved, Answer, TypeOK, Requests, RequestOK, Request_, Pages, GuardStands, Guard, Authenticated, AuthRequired, Required
  <2> QED
    BY <2>1, <2>2, <2>3, <2>4, <2>5 DEF Rest
<1>16. ASSUME NEW r \in Reqs, ServeTasks(r) PROVE Rest'
  <2>1. OneIdentity'
    BY <1>i, <1>16 DEF ServeTasks, Unserved, Answer, TypeOK, OneIdentity, Requests, RequestOK, Request_, Pages, Signed
  <2>0. \A q \in Reqs : reqs[q] # Free => reqs[q] \in Request_
    BY <1>i DEF TypeOK
  <2>2. Requests'
    <3> SUFFICES ASSUME NEW q \in Reqs, reqs'[q] # Free PROVE RequestOK(q)'
      BY DEF Requests
    <3>1. CASE q = r
      BY <1>i, <1>16, <2>0, <3>1 DEF ServeTasks, Unserved, Answer, TypeOK, OneIdentity, Signed, Requests, RequestOK, Pages, Request, Request_, Replaced, Free
    <3>2. CASE q # r
      BY <1>i, <1>16, <2>0, <3>2 DEF ServeTasks, Unserved, Answer, TypeOK, OneIdentity, Signed, Requests, RequestOK, Pages, Request_, Replaced, Guard, AuthRequired, Required
    <3> QED
      BY <3>1, <3>2
  <2>3. Pages'
    BY <1>i, <1>16 DEF ServeTasks, Unserved, Answer, TypeOK, OneIdentity, Requests, RequestOK, Request_, Pages, Guard, AuthRequired, Required, Signed
  <2>4. ShowsOwnData'
    BY <1>i, <1>16 DEF ServeTasks, Unserved, Answer, TypeOK, Requests, RequestOK, Request_, Pages, ShowsOwnData, Replaced, OneIdentity, Signed, Guard, AuthRequired, Required
  <2>5. GuardStands'
    BY <1>i, <1>16 DEF ServeTasks, Unserved, Answer, TypeOK, Requests, RequestOK, Request_, Pages, GuardStands, Guard, Authenticated, AuthRequired, Required
  <2> QED
    BY <2>1, <2>2, <2>3, <2>4, <2>5 DEF Rest
<1>17. ASSUME NEW r \in Reqs, Lose(r) PROVE Rest'
  <2>1. OneIdentity'
    BY <1>i, <1>17 DEF Lose, Answer, TypeOK, OneIdentity, Requests, RequestOK, Request_, Pages, Signed
  <2>0. \A q \in Reqs : reqs[q] # Free => reqs[q] \in Request_
    BY <1>i DEF TypeOK
  <2>2. Requests'
    <3> SUFFICES ASSUME NEW q \in Reqs, reqs'[q] # Free PROVE RequestOK(q)'
      BY DEF Requests
    <3>1. CASE q = r
      BY <1>i, <1>17, <2>0, <3>1 DEF Lose, Answer, TypeOK, OneIdentity, Signed, Requests, RequestOK, Pages, Request, Request_, Replaced, Free
    <3>2. CASE q # r
      BY <1>i, <1>17, <2>0, <3>2 DEF Lose, Answer, TypeOK, OneIdentity, Signed, Requests, RequestOK, Pages, Request_, Replaced, Guard, AuthRequired, Required
    <3> QED
      BY <3>1, <3>2
  <2>3. Pages'
    BY <1>i, <1>17 DEF Lose, Answer, TypeOK, OneIdentity, Requests, RequestOK, Request_, Pages, Guard, AuthRequired, Required, Signed
  <2>4. ShowsOwnData'
    BY <1>i, <1>17 DEF Lose, Answer, TypeOK, Requests, RequestOK, Request_, Pages, ShowsOwnData, Replaced, OneIdentity, Signed, Guard, AuthRequired, Required
  <2>5. GuardStands'
    BY <1>i, <1>17 DEF Lose, Answer, TypeOK, Requests, RequestOK, Request_, Pages, GuardStands, Guard, Authenticated, AuthRequired, Required
  <2> QED
    BY <2>1, <2>2, <2>3, <2>4, <2>5 DEF Rest
<1>18. CASE UNCHANGED vars
  BY <1>i, <1>18 DEF vars, Rest, OneIdentity, Requests, Pages, ShowsOwnData, GuardStands, Signed,
     AuthRequired, Required, Authenticated, Replaced, RequestOK
<1> QED
  BY <1>1, <1>2, <1>3, <1>4, <1>5, <1>6, <1>7, <1>8, <1>9, <1>10, <1>11, <1>12, <1>13, <1>14, <1>15, <1>16, <1>17, <1>18 DEF Next, Serve, Receive

(* The inductive invariant holds of every behaviour.                       *)
THEOREM Invariance == Spec => []SessionInv
<1>1. Init => SessionInv
  BY TypeInit, RestInit DEF SessionInv, Rest
<1>2. SessionInv /\ [Next]_vars => SessionInv'
  BY TypeStep, RestStep DEF SessionInv, Rest
<1> QED
  BY <1>1, <1>2, PTL DEF Spec

(* Whoever is signed in sees only their own tasks, however late the        *)
(* answers to the requests of an earlier session come in.                  *)
THEOREM NobodySeesOthers == Spec => []ShowsOwnData
BY Invariance, PTL DEF SessionInv

(* The route guard stands: nobody who is not signed in is on the way to a  *)
(* protected page, also when a 401 ends the session while it is loading.   *)
THEOREM GuardAlwaysStands == Spec => []GuardStands
BY Invariance, PTL DEF SessionInv
=============================================================================
