--------------------------- MODULE SessionsProofs ---------------------------
(***************************************************************************)
(* Theorems about Sessions for every number of clients, users, logins,     *)
(* restarts and half seconds.                                              *)
(***************************************************************************)
EXTENDS Sessions, TLAPS

(* A row is written for a user whose password was right, and is there      *)
(* until a restore removes it.                                             *)
LoginInv ==
    \A l \in Logins :
        /\ task[l] \in {"inserting", "created"} => right[l]
        /\ task[l] = "unsent" => owner[l] = NoUser /\ l \notin waiting
        /\ task[l] # "unsent" => name[l] \in Users /\ from[l] \in Clients
        /\ owner[l] # NoUser => owner[l] = name[l]
        /\ task[l] = "created" => owner[l] # NoUser \/ l \in wiped
        /\ l \in told => task[l] = "created"

(* A client has and sends only the cookies of its own logins.              *)
CookieInv ==
    \A c \in Clients :
        /\ jar[c] # NoLogin => jar[c] \in told /\ from[jar[c]] = c
        /\ request[c] # "none" => carried[c] \in told /\ from[carried[c]] = c
        /\ request[c] = "running" => actor[c] = name[carried[c]]

(* A journey logs in between its iterations, and keeps its cookie for one. *)
JourneyInv ==
    /\ \A k, l \in waiting : from[k] = from[l] => k = l
    /\ \A c \in Journeys :
        /\ request[c] # "none" => step[c] > 0 /\ carried[c] = jar[c]
        /\ \A l \in waiting : from[l] = c => step[c] = 0

SessionInv == ShapeOK /\ LoginInv /\ CookieInv /\ JourneyInv /\ CountedIsOrdered

-----------------------------------------------------------------------------
LEMMA Names ==
    /\ NoLogin \notin Logins /\ NoUser \notin Users /\ NoClient \notin Clients
    /\ Browsers \subseteq Clients /\ Journeys \subseteq Clients
BY ClientsAssumption, TimeAssumption DEF NoLogin, Logins, Clients

USE Names, TimeAssumption

LEMMA InitSession == Init => SessionInv
BY DEF Init, SessionInv, ShapeOK, LoginInv, CookieInv, JourneyInv, CountedIsOrdered, Running, Ended

USE DEF SessionInv, ShapeOK, Goto, EndRequest, EndIteration, PlaceOrder, SetCookie,
        loginVars, requestVars, journeyVars

LEMMA NextShape == SessionInv /\ [Next]_vars => ShapeOK'
<1> SUFFICES ASSUME SessionInv, [Next]_vars PROVE ShapeOK'
  OBVIOUS
<1> USE DEF Running, Ended
<1>1. CASE Tick
  BY <1>1 DEF Tick
<1>2. ASSUME NEW l \in Logins, NEW c \in Clients, SendLogin(c, l) PROVE ShapeOK'
  BY <1>2 DEF SendLogin
<1>3. ASSUME NEW l \in Logins, FindByUserName(l) PROVE ShapeOK'
  BY <1>3 DEF FindByUserName
<1>4. ASSUME NEW l \in Logins, ComparePassword(l) PROVE ShapeOK'
  BY <1>4 DEF ComparePassword
<1>5. ASSUME NEW l \in Logins, InsertSession(l) PROVE ShapeOK'
  BY <1>5 DEF InsertSession
<1>6. ASSUME NEW l \in Logins, Leave(l) PROVE ShapeOK'
  BY <1>6 DEF Leave
<1>7. ASSUME NEW l \in Logins, AnswerLogin(l) PROVE ShapeOK'
  BY <1>7 DEF AnswerLogin
<1>8. ASSUME NEW l \in Logins, ExpireLogin(l) PROVE ShapeOK'
  BY <1>8 DEF ExpireLogin
<1>9. ASSUME NEW c \in Clients, SendRequest(c) PROVE ShapeOK'
  BY <1>9 DEF SendRequest
<1>10. ASSUME NEW c \in Clients, CheckSession(c) PROVE ShapeOK'
  <2>1. /\ request' \in [Clients -> {"none", "sent", "running"}]
        /\ carried' \in [Clients -> Logins \union {NoLogin}]
        /\ jar' \in [Clients -> Logins \union {NoLogin}]
        /\ step' \in [Journeys -> 0 .. Steps]
    BY <1>10 DEF CheckSession
  <2>2. actor' \in [Clients -> Users \union {NoUser}]
    <3>1. carried[c] \in Logins
      BY <1>10 DEF CheckSession, CookieInv
    <3> QED
      BY <1>10, <3>1 DEF CheckSession
  <2> QED
    BY <1>10, <2>1, <2>2 DEF CheckSession
<1>11. ASSUME NEW c \in Clients, Serve(c) PROVE ShapeOK'
  <2>1. /\ request' \in [Clients -> {"none", "sent", "running"}]
        /\ carried' \in [Clients -> Logins \union {NoLogin}]
        /\ actor' \in [Clients -> Users \union {NoUser}]
        /\ jar' \in [Clients -> Logins \union {NoLogin}]
    BY <1>11 DEF Serve
  <2>2. step' \in [Journeys -> 0 .. Steps]
    <3>1. CASE Ordering(c)
      BY <1>11, <3>1 DEF Serve
    <3>2. CASE ~Ordering(c)
      <4>1. step' = [s \in Journeys |-> IF s = c THEN step[s] + 1 ELSE step[s]]
        BY <1>11, <3>2 DEF Serve
      <4>2. ASSUME NEW s \in Journeys PROVE step'[s] \in 0 .. Steps
        <5>1. step[s] \in Int /\ 0 <= step[s] /\ step[s] <= Steps
          OBVIOUS
        <5>2. CASE s = c
          BY <3>2, <4>1, <5>1, <5>2 DEF Ordering
        <5>3. CASE s # c
          BY <4>1, <5>1, <5>3
        <5> QED
          BY <5>2, <5>3
      <4> QED
        BY <4>1, <4>2
    <3> QED
      BY <3>1, <3>2
  <2>3. orders' \in [Users -> Nat] /\ counted' \in [Users -> Nat]
    <3>1. CASE Ordering(c)
      <4>1. /\ orders' = [orders EXCEPT ![actor[c]] = @ + 1]
            /\ counted' = [counted EXCEPT ![name[jar[c]]] = @ + 1]
        BY <1>11, <3>1 DEF Serve
      <4>2. carried[c] = jar[c] /\ jar[c] \in told /\ actor[c] = name[jar[c]]
        BY <1>11, <3>1 DEF Serve, Ordering, CookieInv, JourneyInv
      <4>3. name[jar[c]] \in Users
        BY <4>2 DEF LoginInv
      <4> QED
        BY <4>1, <4>2, <4>3
    <3>2. CASE ~Ordering(c)
      BY <1>11, <3>2 DEF Serve
    <3> QED
      BY <3>1, <3>2
  <2> QED
    BY <1>11, <2>1, <2>2, <2>3 DEF Serve
<1>12. ASSUME NEW c \in Clients, ServeFails(c) PROVE ShapeOK'
  BY <1>12 DEF ServeFails
<1>13. ASSUME NEW b \in Browsers, Logout(b) PROVE ShapeOK'
  BY <1>13 DEF Logout
<1>14. CASE Restart
  BY <1>14 DEF Restart
<1>15. CASE UNCHANGED vars
  BY <1>15 DEF vars
<1> QED
  BY <1>1, <1>2, <1>3, <1>4, <1>5, <1>6, <1>7, <1>8, <1>9, <1>10, <1>11, <1>12, <1>13, <1>14,
     <1>15 DEF Next, LoginStep, RequestStep

LEMMA NextLogin == SessionInv /\ [Next]_vars => LoginInv'
<1> SUFFICES ASSUME SessionInv, [Next]_vars PROVE LoginInv'
  OBVIOUS
<1> USE DEF LoginInv
<1>2. ASSUME NEW l \in Logins, NEW c \in Clients, SendLogin(c, l) PROVE LoginInv'
  BY <1>2 DEF SendLogin
<1>3. ASSUME NEW l \in Logins, FindByUserName(l) PROVE LoginInv'
  BY <1>3 DEF FindByUserName
<1>4. ASSUME NEW l \in Logins, ComparePassword(l) PROVE LoginInv'
  BY <1>4 DEF ComparePassword
<1>5. ASSUME NEW l \in Logins, InsertSession(l) PROVE LoginInv'
  BY <1>5 DEF InsertSession
<1>6. ASSUME NEW l \in Logins, Leave(l) PROVE LoginInv'
  BY <1>6 DEF Leave
<1>7. ASSUME NEW l \in Logins, AnswerLogin(l) PROVE LoginInv'
  BY <1>7 DEF AnswerLogin
<1>8. ASSUME NEW l \in Logins, ExpireLogin(l) PROVE LoginInv'
  BY <1>8 DEF ExpireLogin
<1>14. CASE Restart
  BY <1>14 DEF Restart, Running
<1>15. CASE UNCHANGED <<loginVars, told, wiped>>
  BY <1>15
<1> QED
  BY <1>2, <1>3, <1>4, <1>5, <1>6, <1>7, <1>8, <1>14, <1>15
     DEF Next, LoginStep, RequestStep, Tick, SendRequest, CheckSession, Serve, ServeFails,
         Logout, vars

LEMMA NextCookie == SessionInv /\ [Next]_vars => CookieInv'
<1> SUFFICES ASSUME SessionInv, [Next]_vars PROVE CookieInv'
  OBVIOUS
<1> USE DEF CookieInv, LoginInv
<1>2. ASSUME NEW l \in Logins, NEW c \in Clients, SendLogin(c, l) PROVE CookieInv'
  BY <1>2 DEF SendLogin
<1>7. ASSUME NEW l \in Logins, AnswerLogin(l) PROVE CookieInv'
  BY <1>7 DEF AnswerLogin, Ended
<1>9. ASSUME NEW c \in Clients, SendRequest(c) PROVE CookieInv'
  BY <1>9 DEF SendRequest, Carries
<1>10. ASSUME NEW c \in Clients, CheckSession(c) PROVE CookieInv'
  BY <1>10 DEF CheckSession, Alive
<1>11. ASSUME NEW c \in Clients, Serve(c) PROVE CookieInv'
  BY <1>11 DEF Serve
<1>12. ASSUME NEW c \in Clients, ServeFails(c) PROVE CookieInv'
  BY <1>12 DEF ServeFails
<1>13. ASSUME NEW b \in Browsers, Logout(b) PROVE CookieInv'
  BY <1>13 DEF Logout
<1>14. CASE Restart
  BY <1>14 DEF Restart
<1>15. CASE UNCHANGED <<from, name, jar, requestVars, told>>
  BY <1>15
<1> QED
  BY <1>2, <1>7, <1>9, <1>10, <1>11, <1>12, <1>13, <1>14, <1>15
     DEF Next, LoginStep, RequestStep, Tick, FindByUserName, ComparePassword, InsertSession,
         Leave, ExpireLogin, vars

LEMMA NextJourney == SessionInv /\ [Next]_vars => JourneyInv'
<1> SUFFICES ASSUME SessionInv, [Next]_vars PROVE JourneyInv'
  OBVIOUS
<1> USE DEF JourneyInv
<1>2. ASSUME NEW l \in Logins, NEW c \in Clients, SendLogin(c, l) PROVE JourneyInv'
  BY <1>2 DEF SendLogin, LoggingIn, LoginInv
<1>7. ASSUME NEW l \in Logins, AnswerLogin(l) PROVE JourneyInv'
  BY <1>7 DEF AnswerLogin
<1>8. ASSUME NEW l \in Logins, ExpireLogin(l) PROVE JourneyInv'
  BY <1>8 DEF ExpireLogin
<1>9. ASSUME NEW c \in Clients, SendRequest(c) PROVE JourneyInv'
  BY <1>9 DEF SendRequest
<1>10. ASSUME NEW c \in Clients, CheckSession(c) PROVE JourneyInv'
  BY <1>10 DEF CheckSession
<1>11. ASSUME NEW c \in Clients, Serve(c) PROVE JourneyInv'
  BY <1>11 DEF Serve
<1>12. ASSUME NEW c \in Clients, ServeFails(c) PROVE JourneyInv'
  BY <1>12 DEF ServeFails
<1>13. ASSUME NEW b \in Browsers, Logout(b) PROVE JourneyInv'
  BY <1>13, ClientsAssumption DEF Logout
<1>14. CASE Restart
  BY <1>14 DEF Restart
<1>15. CASE UNCHANGED <<from, waiting, jar, requestVars, step>>
  BY <1>15
<1> QED
  BY <1>2, <1>7, <1>8, <1>9, <1>10, <1>11, <1>12, <1>13, <1>14, <1>15
     DEF Next, LoginStep, RequestStep, Tick, FindByUserName, ComparePassword, InsertSession,
         Leave, vars

(* The order of a journey's last step is placed for the user it logged in  *)
(* as, which is the one the step is counted for.                           *)
LEMMA NextCounted == SessionInv /\ [Next]_vars => CountedIsOrdered'
<1> SUFFICES ASSUME SessionInv, [Next]_vars PROVE CountedIsOrdered'
  OBVIOUS
<1> USE DEF CountedIsOrdered
<1>1. ASSUME NEW c \in Clients, Serve(c) PROVE CountedIsOrdered'
  <2>1. CASE Ordering(c)
    <3>1. carried[c] = jar[c] /\ actor[c] = name[jar[c]]
      BY <1>1, <2>1 DEF Serve, Ordering, CookieInv, JourneyInv
    <3> QED
      BY <1>1, <2>1, <3>1 DEF Serve
  <2>2. CASE ~Ordering(c)
    BY <1>1, <2>2 DEF Serve
  <2> QED
    BY <2>1, <2>2
<1>2. ASSUME NEW c \in Clients, ServeFails(c) PROVE CountedIsOrdered'
  BY <1>2 DEF ServeFails
<1>3. CASE UNCHANGED <<orders, counted>>
  BY <1>3
<1> QED
  BY <1>1, <1>2, <1>3
     DEF Next, LoginStep, RequestStep, Tick, SendLogin, FindByUserName, ComparePassword,
         InsertSession, Leave, AnswerLogin, ExpireLogin, SendRequest, CheckSession, Logout,
         Restart, vars

LEMMA SessionInvariant == Spec => []SessionInv
<1>1. SessionInv /\ [Next]_vars => SessionInv'
  BY NextShape, NextLogin, NextCookie, NextJourney, NextCounted DEF SessionInv
<1> QED
  BY InitSession, <1>1, PTL DEF Spec

-----------------------------------------------------------------------------
(* Every variable keeps its shape, and no request is served without a      *)
(* user, for every value of the constants.                                 *)
THEOREM TypeCorrect == Spec => []TypeOK
<1>1. SessionInv => TypeOK
  BY DEF TypeOK, CookieInv, LoginInv
<1> QED
  BY <1>1, SessionInvariant, PTL

(* A request acts only for a user whose password its own client has given. *)
THEOREM ActsAsLoginAlways == Spec => []ActsAsLogin
<1>1. SessionInv => ActsAsLogin
  BY DEF ActsAsLogin, CookieInv, LoginInv
<1> QED
  BY <1>1, SessionInvariant, PTL

(* The score counts no journey whose order was not placed.                 *)
THEOREM CountedIsOrderedAlways == Spec => []CountedIsOrdered
<1>1. SessionInv => CountedIsOrdered
  OBVIOUS
<1> QED
  BY <1>1, SessionInvariant, PTL

(* The column rounds to the nearest second, the cookie is cut.             *)
LEMMA Ends ==
    ASSUME ShapeOK, NEW l \in Logins
    PROVE  /\ CookieEnd(l) <= RowEnd(l)
           /\ RowEnd(l) <= stamp[l] + Day + 1
BY DEF CookieEnd, RowEnd

(* A browser's cookie never outlives its session, unless a restore removes *)
(* the row.                                                                *)
THEOREM CookieIsAliveAlways == Spec => []CookieIsAlive
<1>1. SessionInv => CookieIsAlive
  <2> SUFFICES ASSUME SessionInv, NEW b \in Browsers, Carries(b), jar[b] \notin wiped
               PROVE  Alive(jar[b])
    BY DEF CookieIsAlive
  <2>1. jar[b] \in Logins /\ now < CookieEnd(jar[b]) /\ owner[jar[b]] # NoUser
    BY DEF Carries, CookieInv, LoginInv
  <2>2. now < RowEnd(jar[b])
    BY <2>1, Ends DEF CookieEnd, RowEnd
  <2> QED
    BY <2>1, <2>2 DEF Alive
<1> QED
  BY <1>1, SessionInvariant, PTL

(* No session lets anybody in after its end.                               *)
THEOREM SessionEndsAlways == Spec => SessionEnds
<1> DEFINE A == \A c \in Clients : request[c] = "sent" /\ request'[c] = "running" =>
                    now <= stamp[carried[c]] + Day
<1>1. SessionInv /\ [Next]_vars => [A]_vars
  <2> SUFFICES ASSUME SessionInv, Next PROVE A
    BY DEF vars
  <2>1. ASSUME NEW c \in Clients, CheckSession(c) PROVE A
    <3>1. ASSUME Alive(carried[c]) PROVE now <= stamp[carried[c]] + Day
      BY <2>1, <3>1, Ends DEF CheckSession, Alive, CookieInv, RowEnd
    <3> QED
      BY <2>1, <3>1 DEF CheckSession
  <2>2. CASE \A c \in Clients : request[c] = "sent" => request'[c] # "running"
    BY <2>2
  <2> QED
    BY <2>1, <2>2
       DEF Next, LoginStep, RequestStep, Tick, SendLogin, FindByUserName, ComparePassword,
           InsertSession, Leave, AnswerLogin, ExpireLogin, SendRequest, Serve, ServeFails,
           Logout, Restart
<1> QED
  BY <1>1, SessionInvariant, PTL DEF Spec, SessionEnds
=============================================================================
