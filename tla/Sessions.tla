------------------------------ MODULE Sessions ------------------------------
(***************************************************************************)
(* Sessions of StoreLink's users: a login checks the password in the       *)
(* goroutine of utils.WithTimeout, writes a row of user_sessions and sets  *)
(* a cookie; every request of a user is let in by the cookie's row, and    *)
(* then acts for the user of that row to its end.                          *)
(*                                                                         *)
(* Clients are browsers, which drop a cookie at its end and may log out,   *)
(* and virtual users in userJourneyScenario, which send the cookie of      *)
(* their login by hand: a log-in, lists, an order, and one more point.     *)
(*                                                                         *)
(* Time passes in half seconds: a DATETIME column rounds to the nearest    *)
(* second, a cookie's Expires is cut to the second.                        *)
(***************************************************************************)
EXTENDS Integers, FiniteSets

CONSTANTS
    Browsers, Journeys,  \* clients: browsers, virtual users of k6
    Users,               \* rows of users
    NoUser,              \* the owner of a session that has no row
    NoClient,            \* the client of a login that is not sent
    Day,                 \* half seconds a session lasts (24 hours)
    Steps,               \* requests of a journey after its login; the last orders
    MaxTime,             \* bound: half seconds
    MaxLogins,           \* bound: logins sent
    MaxRestarts          \* bound: restarts of the containers

Clients == Browsers \union Journeys
Logins == 1 .. MaxLogins   \* a login, and the session it creates
NoLogin == 0

ASSUME ClientsAssumption ==
    Browsers \intersect Journeys = {} /\ NoUser \notin Users /\ NoClient \notin Clients

ASSUME TimeAssumption ==
    Day \in Nat /\ Steps \in Nat \ {0} /\ MaxTime \in Nat /\ MaxLogins \in Nat
        /\ MaxRestarts \in Nat

VARIABLES
    now,       \* the clock of backend, database and browsers
    restarts,  \* restarts so far
    from,      \* login -> the client that sent it
    name,      \* login -> the user it names
    right,     \* login -> the password is that user's
    task,      \* login -> how far its goroutine is
    waiting,   \* logins whose handler has not answered
    stamp,     \* login -> when Create read the clock
    owner,     \* session -> user_id of its row, or NoUser
    jar,       \* client -> the session of its cookie
    request,   \* client -> "none", "sent" or "running"
    carried,   \* client -> the session its request was sent with
    actor,     \* client -> the user in the context of its request
    step,      \* journey -> the next request of its iteration; 0: log in
    orders,    \* user -> orders placed by journeys
    counted,   \* user -> journeys as this user counted as a success
    told,      \* history: sessions whose cookie reached the client
    wiped      \* history: sessions whose row a restore removed

loginVars == <<from, name, right, task, waiting, stamp, owner>>
requestVars == <<request, carried, actor>>
journeyVars == <<step, orders, counted>>
vars == <<now, restarts, loginVars, jar, requestVars, journeyVars, told, wiped>>

Running == {"asked", "found", "inserting"}
Ended == {"created", "refused", "failed"}

Init ==
    /\ now = 0 /\ restarts = 0
    /\ from = [l \in Logins |-> NoClient] /\ name = [l \in Logins |-> NoUser]
    /\ right = [l \in Logins |-> FALSE]
    /\ task = [l \in Logins |-> "unsent"]
    /\ waiting = {}
    /\ stamp = [l \in Logins |-> 0]
    /\ owner = [l \in Logins |-> NoUser]
    /\ jar = [c \in Clients |-> NoLogin]
    /\ request = [c \in Clients |-> "none"]
    /\ carried = [c \in Clients |-> NoLogin]
    /\ actor = [c \in Clients |-> NoUser]
    /\ step = [c \in Journeys |-> 0]
    /\ orders = [u \in Users |-> 0] /\ counted = [u \in Users |-> 0]
    /\ told = {} /\ wiped = {}

-----------------------------------------------------------------------------
(* The two ends of a session.                                              *)

(* Variant: the fraction is cut off, a second early for the browser.       *)
RowEnd_Cut(l) == 2 * ((stamp[l] + Day - 1) \div 2)

(* expires_at, as the DATETIME column keeps it.                            *)
RowEnd(l) == 2 * ((stamp[l] + Day + 1) \div 2)

(* The cookie's Expires.                                                   *)
CookieEnd(l) == 2 * ((stamp[l] + Day) \div 2)

(* Variant: the look-up keeps a session whose user it does not find.       *)
Alive_LeftJoin(l) == now < RowEnd(l)

(* Variant: the look-up does not ask for expires_at.                       *)
Alive_AnyAge(l) == owner[l] # NoUser

(* FindUserBySessionID finds the row.                                      *)
Alive(l) == owner[l] # NoUser /\ now < RowEnd(l)

(* The client has a cookie to send; RootPage asks for no more.             *)
Carries(c) == jar[c] # NoLogin /\ (c \in Browsers => now < CookieEnd(jar[c]))

Tick ==
    /\ now < MaxTime
    /\ now' = now + 1
    /\ UNCHANGED <<restarts, loginVars, jar, requestVars, journeyVars, told, wiped>>

-----------------------------------------------------------------------------
(* AuthService.Login.  The context of the goroutine lives while the        *)
(* handler waits; database/sql sends nothing once it has ended.            *)

Goto(l, label) == task' = [task EXCEPT ![l] = label]

LoggingIn(c) == \E l \in waiting : from[l] = c

(* A form that waits is disabled, a journey goes step by step.             *)
SendLogin(c, l) ==
    /\ task[l] = "unsent" /\ \A k \in 1 .. l - 1 : task[k] # "unsent"
    /\ ~LoggingIn(c)
    /\ c \in Journeys => step[c] = 0
    /\ from' = [from EXCEPT ![l] = c]
    /\ \E u \in Users : name' = [name EXCEPT ![l] = u]
    /\ \E b \in BOOLEAN : right' = [right EXCEPT ![l] = b]
    /\ Goto(l, "asked")
    /\ waiting' = waiting \union {l}
    /\ UNCHANGED <<now, restarts, stamp, owner, jar, requestVars, journeyVars, told, wiped>>

FindByUserName(l) ==
    /\ task[l] = "asked" /\ l \in waiting
    /\ Goto(l, "found") \/ Goto(l, "failed")
    /\ UNCHANGED <<now, restarts, from, name, right, waiting, stamp, owner, jar,
                   requestVars, journeyVars, told, wiped>>

(* CompareHashAndPassword, and Create up to the INSERT it sends.           *)
ComparePassword(l) ==
    /\ task[l] = "found" /\ l \in waiting
    /\ IF right[l]
       THEN Goto(l, "inserting") /\ stamp' = [stamp EXCEPT ![l] = now]
       ELSE Goto(l, "refused") /\ UNCHANGED stamp
    /\ UNCHANGED <<now, restarts, from, name, right, waiting, owner, jar, requestVars,
                   journeyVars, told, wiped>>

(* The INSERT is run, whether or not anybody still waits for it; or it     *)
(* fails, or the connection breaks when it has been run.                   *)
InsertSession(l) ==
    /\ task[l] = "inserting"
    /\ \/ Goto(l, "created") /\ owner' = [owner EXCEPT ![l] = name[l]]
       \/ Goto(l, "failed") /\ owner' \in {owner, [owner EXCEPT ![l] = name[l]]}
    /\ UNCHANGED <<now, restarts, from, name, right, waiting, stamp, jar, requestVars,
                   journeyVars, told, wiped>>

(* The handler has left: the next call to the database is not sent.        *)
Leave(l) ==
    /\ task[l] \in {"asked", "found"} /\ l \notin waiting
    /\ Goto(l, "failed")
    /\ UNCHANGED <<now, restarts, from, name, right, waiting, stamp, owner, jar,
                   requestVars, journeyVars, told, wiped>>

(* Variant: sessionID is a field of the service, not of the call.          *)
SetCookie_Shared(l) ==
    \E k \in Logins :
        /\ task[k] = "created" /\ \A i \in Logins : task[i] = "created" => stamp[i] <= stamp[k]
        /\ jar' = [jar EXCEPT ![from[l]] = k]
        /\ told' = told \union {k}

(* http.SetCookie, and the client that takes it.                           *)
SetCookie(l) ==
    /\ jar' = [jar EXCEPT ![from[l]] = l]
    /\ told' = told \union {l}

(* WithTimeout takes the result.  A journey goes on, or ends by fail().    *)
AnswerLogin(l) ==
    /\ l \in waiting /\ task[l] \in Ended
    /\ waiting' = waiting \ {l}
    /\ IF task[l] = "created" THEN SetCookie(l) ELSE UNCHANGED <<jar, told>>
    /\ step' = [c \in Journeys |->
                   IF c = from[l] /\ task[l] = "created" THEN 1 ELSE step[c]]
    /\ UNCHANGED <<now, restarts, from, name, right, task, stamp, owner, requestVars,
                   orders, counted, wiped>>

(* WithTimeout takes ctx.Done: the deadline, or the client has gone.       *)
ExpireLogin(l) ==
    /\ l \in waiting
    /\ waiting' = waiting \ {l}
    /\ UNCHANGED <<now, restarts, from, name, right, task, stamp, owner, jar, requestVars,
                   journeyVars, told, wiped>>

-----------------------------------------------------------------------------
(* Requests under a session.                                               *)

SendRequest(c) ==
    /\ request[c] = "none" /\ Carries(c)
    /\ c \in Journeys => step[c] > 0
    /\ request' = [request EXCEPT ![c] = "sent"]
    /\ carried' = [carried EXCEPT ![c] = jar[c]]
    /\ UNCHANGED <<now, restarts, loginVars, jar, actor, journeyVars, told, wiped>>

(* The request is over; an iteration ends and forgets its cookie.          *)
EndRequest(c) ==
    /\ request' = [request EXCEPT ![c] = "none"]
    /\ carried' = [carried EXCEPT ![c] = NoLogin]
    /\ actor' = [actor EXCEPT ![c] = NoUser]

EndIteration(c) ==
    /\ step' = [s \in Journeys |-> IF s = c THEN 0 ELSE step[s]]
    /\ jar' = IF c \in Journeys THEN [jar EXCEPT ![c] = NoLogin] ELSE jar

(* UserAuthMiddleware: 401 without a row, or when the look-up fails.  What *)
(* it puts into the context stays with the request.                        *)
CheckSession(c) ==
    /\ request[c] = "sent"
    /\ \/ /\ Alive(carried[c])
          /\ request' = [request EXCEPT ![c] = "running"]
          /\ actor' = [actor EXCEPT ![c] = owner[carried[c]]]
          /\ UNCHANGED <<jar, carried, step>>
       \/ EndRequest(c) /\ EndIteration(c)
    /\ UNCHANGED <<now, restarts, loginVars, orders, counted, told, wiped>>

Ordering(c) == c \in Journeys /\ step[c] = Steps

PlaceOrder(c) == orders' = [orders EXCEPT ![actor[c]] = @ + 1]

(* The handler succeeds.  The journey takes its next step; after the last  *)
(* one it is counted and starts anew.                                      *)
Serve(c) ==
    /\ request[c] = "running"
    /\ EndRequest(c)
    /\ IF Ordering(c)
       THEN /\ PlaceOrder(c)
            /\ counted' = [counted EXCEPT ![name[jar[c]]] = @ + 1]
            /\ EndIteration(c)
       ELSE /\ step' = [s \in Journeys |-> IF s = c THEN step[s] + 1 ELSE step[s]]
            /\ UNCHANGED <<jar, orders, counted>>
    /\ UNCHANGED <<now, restarts, loginVars, told, wiped>>

(* Variant: check() without fail(): the iteration goes on.                 *)
ServeFails_Unchecked(c) ==
    /\ request[c] = "running"
    /\ EndRequest(c)
    /\ IF Ordering(c)
       THEN /\ counted' = [counted EXCEPT ![name[jar[c]]] = @ + 1]
            /\ EndIteration(c)
       ELSE /\ step' = [s \in Journeys |-> IF s = c THEN step[s] + 1 ELSE step[s]]
            /\ UNCHANGED <<jar, counted>>
    /\ UNCHANGED <<now, restarts, loginVars, orders, told, wiped>>

(* An error, or an answer that got lost with the order already taken.      *)
ServeFails(c) ==
    /\ request[c] = "running"
    /\ EndRequest(c) /\ EndIteration(c)
    /\ UNCHANGED orders \/ (Ordering(c) /\ PlaceOrder(c))
    /\ UNCHANGED <<now, restarts, loginVars, counted, told, wiped>>

(* clearCookieAction: the row stays, and so does a request on its way.     *)
Logout(b) ==
    /\ jar[b] # NoLogin
    /\ jar' = [jar EXCEPT ![b] = NoLogin]
    /\ UNCHANGED <<now, restarts, loginVars, requestVars, journeyVars, told, wiped>>

(* restart_container.sh ends every request and goroutine; with the restore *)
(* script the tables are made anew.  An INSERT under way is run or not.  A *)
(* journey whose request fails starts anew, one between two requests goes  *)
(* on with its cookie: k6 runs on another machine.                         *)
Restart ==
    /\ restarts < MaxRestarts
    /\ restarts' = restarts + 1
    /\ task' = [l \in Logins |-> IF task[l] \in Running THEN "failed" ELSE task[l]]
    /\ waiting' = {}
    /\ request' = [c \in Clients |-> "none"]
    /\ carried' = [c \in Clients |-> NoLogin] /\ actor' = [c \in Clients |-> NoUser]
    /\ step' = [c \in Journeys |-> IF request[c] = "none" THEN step[c] ELSE 0]
    /\ jar' = [c \in Clients |-> IF c \in Browsers \/ request[c] = "none" THEN jar[c] ELSE NoLogin]
    /\ \/ /\ owner' = [l \in Logins |-> NoUser]
          /\ wiped' = wiped \union {l \in Logins : owner[l] # NoUser}
       \/ /\ \E L \in SUBSET {l \in Logins : task[l] = "inserting"} :
                owner' = [l \in Logins |-> IF l \in L THEN name[l] ELSE owner[l]]
          /\ UNCHANGED wiped
    /\ UNCHANGED <<now, from, name, right, stamp, orders, counted, told>>

-----------------------------------------------------------------------------
LoginStep(l) ==
    \/ \E c \in Clients : SendLogin(c, l)
    \/ FindByUserName(l) \/ ComparePassword(l) \/ InsertSession(l) \/ Leave(l)
    \/ AnswerLogin(l) \/ ExpireLogin(l)

RequestStep(c) == SendRequest(c) \/ CheckSession(c) \/ Serve(c) \/ ServeFails(c)

Next ==
    \/ Tick
    \/ \E l \in Logins : LoginStep(l)
    \/ \E c \in Clients : RequestStep(c)
    \/ \E b \in Browsers : Logout(b)
    \/ Restart

Spec == Init /\ [][Next]_vars

-----------------------------------------------------------------------------
ShapeOK ==
    /\ now \in 0 .. MaxTime /\ restarts \in 0 .. MaxRestarts
    /\ from \in [Logins -> Clients \union {NoClient}]
    /\ name \in [Logins -> Users \union {NoUser}]
    /\ right \in [Logins -> BOOLEAN]
    /\ task \in [Logins -> {"unsent"} \union Running \union Ended]
    /\ waiting \subseteq Logins
    /\ stamp \in [Logins -> 0 .. MaxTime]
    /\ owner \in [Logins -> Users \union {NoUser}]
    /\ jar \in [Clients -> Logins \union {NoLogin}]
    /\ request \in [Clients -> {"none", "sent", "running"}]
    /\ carried \in [Clients -> Logins \union {NoLogin}]
    /\ actor \in [Clients -> Users \union {NoUser}]
    /\ step \in [Journeys -> 0 .. Steps]
    /\ orders \in [Users -> Nat] /\ counted \in [Users -> Nat]
    /\ told \subseteq Logins /\ wiped \subseteq Logins

(* Every variable keeps its shape, and a request that a handler serves has *)
(* a user in its context.                                                  *)
TypeOK == ShapeOK /\ \A c \in Clients : request[c] = "running" => actor[c] \in Users

(* A request acts for a user whose password its own client has given, by a *)
(* login that was answered: not for another client's user, however logins  *)
(* overlap, and not by a session that a timed out login left behind.       *)
ActsAsLogin ==
    \A c \in Clients : request[c] = "running" =>
        LET l == carried[c]
        IN  /\ l \in told /\ from[l] = c /\ right[l]
            /\ actor[c] = name[l]

(* As long as a browser keeps its cookie the session is alive, so that     *)
(* RootPage may send it to the products without asking: only a restore of  *)
(* the database makes a cookie stale.                                      *)
CookieIsAlive ==
    \A b \in Browsers : Carries(b) /\ jar[b] \notin wiped => Alive(jar[b])

(* A session lets nobody in after its 24 hours, beyond the half second by  *)
(* which the column rounds, whatever a client still sends.                 *)
SessionEnds ==
    [][\A c \in Clients : request[c] = "sent" /\ request'[c] = "running" =>
            now <= stamp[carried[c]] + Day]_vars

(* bench_uj_success_count counts no journey through the products whose     *)
(* order was not placed for its user, whatever failed or expired on the    *)
(* way.                                                                    *)
CountedIsOrdered == \A u \in Users : counted[u] <= orders[u]
=============================================================================
