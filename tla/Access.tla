------------------------------- MODULE Access -------------------------------
(***************************************************************************)
(* Who may act where: session tokens (internal/auth/session.go), the two   *)
(* sign-ins and RequireAuth (internal/handlers/auth.go), the choice of the *)
(* active restaurant (tables.go) and the status of accounts (platform.go). *)
(*                                                                         *)
(* The server keeps no sessions.  A browser holds a token of 24 hours for  *)
(* each surface and, for 30 days, the restaurant it last worked in; what a *)
(* token is good for is looked up with every request, statement by         *)
(* statement.  Several people use one browser one after the other.  HMAC   *)
(* and passwords are not modelled: a token is what the server has signed.  *)
(***************************************************************************)
EXTENDS Naturals

CONSTANTS
    Browser, User, Account, Restaurant,
    AccountOf,   \* restaurants.account_id
    MemberOf,    \* active memberships, [User -> SUBSET Restaurant]
    RoleOf,      \* platform_admins.role, or "none"
    Lifetime,    \* of a token
    MaxTime,     \* a bound
    None

VARIABLES
    now,
    suspended, \* accounts with status = 'suspended'
    cookies,   \* what each browser holds
    pc,        \* the next statement of the request of a browser
    req,       \* gin's context of that request
    barred     \* accounts suspended ever since it began, for the properties only

vars == <<now, suspended, cookies, pc, req, barred>>

-----------------------------------------------------------------------------
(* Tokens, cookies, requests                                               *)

NoCookies == [session |-> None, platform |-> None, active |-> None]
NoRequest == [user |-> None, role |-> "none", cookie |-> None, restaurant |-> None]

Init ==
    /\ now = 0
    /\ suspended = {}
    /\ cookies = [b \in Browser |-> NoCookies]
    /\ pc = [b \in Browser |-> "idle"]
    /\ req = [b \in Browser |-> NoRequest]
    /\ barred = [b \in Browser |-> {}]

At(b, statement) == pc[b] = statement
Goto(b, statement) == pc' = [pc EXCEPT ![b] = statement]

GenerateSessionToken(u) == [user |-> u, expiry |-> now + Lifetime]

VerifySessionToken(token) == token # None /\ now <= token.expiry

Tick == now < MaxTime /\ now' = now + 1 /\ UNCHANGED <<suspended, cookies, pc, req, barred>>

\* By hand at the database: UpdateAccountStatus does not get that far.
Suspend(a) ==
    /\ suspended' = suspended \cup {a}
    /\ UNCHANGED <<now, cookies, pc, req, barred>>

Reinstate(a) ==
    /\ suspended' = suspended \ {a}
    /\ barred' = [b \in Browser |-> barred[b] \ {a}]
    /\ UNCHANGED <<now, cookies, pc, req>>

-----------------------------------------------------------------------------
(* Signing in and out                                                      *)

Holding(b, held) ==
    /\ At(b, "idle")
    /\ cookies' = [cookies EXCEPT ![b] = held]
    /\ UNCHANGED <<now, suspended, pc, req, barred>>

HandleLogin(b, u) ==
    RoleOf[u] = "none" /\ Holding(b, [cookies[b] EXCEPT !.session = GenerateSessionToken(u)])

HandlePlatformLogin(b, u) ==
    RoleOf[u] # "none" /\ Holding(b, [cookies[b] EXCEPT !.platform = GenerateSessionToken(u)])

\* rms_active_restaurant stays.
HandleLogout(b) == Holding(b, [cookies[b] EXCEPT !.session = None])

HandlePlatformLogout(b) == Holding(b, [cookies[b] EXCEPT !.platform = None])

-----------------------------------------------------------------------------
(* A request of a customer                                                 *)

Refuse(b, held) ==
    /\ cookies' = [cookies EXCEPT ![b] = held]
    /\ req' = [req EXCEPT ![b] = NoRequest]
    /\ Goto(b, "idle")
    /\ UNCHANGED <<now, suspended, barred>>

Go(b, mine, next) ==
    /\ req' = [req EXCEPT ![b] = mine]
    /\ Goto(b, next)
    /\ UNCHANGED <<now, suspended, cookies>>

\* RequireAuth: the cookies are those the browser sent with the request.
RequireAuth(b) ==
    LET token == cookies[b].session
    IN  /\ At(b, "idle")
        /\ VerifySessionToken(token)
        /\ Go(b, [NoRequest EXCEPT !.user = token.user, !.cookie = cookies[b].active], "role")
        /\ barred' = [barred EXCEPT ![b] = suspended]

\* SELECT role FROM platform_admins: its staff has no business here.  A query
\* that fails is taken for one that finds no role.
ReadRole(b) ==
    /\ At(b, "role")
    /\ \E role \in {RoleOf[req[b].user], "none"} :
         \/ role = "none" /\ Go(b, req[b], "memberships") /\ UNCHANGED barred
         \/ role # "none" /\ Refuse(b, [cookies[b] EXCEPT !.session = None])

Anywhere(u) == MemberOf[u]

\* Memberships of active accounts, read with every request.
ActiveRestaurants(u) == {r \in MemberOf[u] : AccountOf[r] \notin suspended}

TrustCookie(cookie, mine) == IF cookie # None THEN {cookie} ELSE mine

\* The restaurant of the cookie if it is one of the user's, else the first.
GetActiveRestaurantID(cookie, mine) == IF cookie \in mine THEN {cookie} ELSE mine

\* Whoever has none is signed out, and so is everyone when the query fails.
ReadMemberships(b) ==
    LET mine == ActiveRestaurants(req[b].user)
    IN  /\ At(b, "memberships")
        /\ \/ \E r \in GetActiveRestaurantID(req[b].cookie, mine) :
                /\ mine # {}
                /\ Go(b, [req[b] EXCEPT !.restaurant = r], "act")
                /\ UNCHANGED barred
           \/ Refuse(b, [cookies[b] EXCEPT !.session = None])

\* Any handler of this surface, with the transaction that it runs.
Act(b) == At(b, "act") /\ Go(b, NoRequest, "idle") /\ UNCHANGED barred

\* SwitchRestaurant stores what the form names without a look at it.
SwitchRestaurant(b, r) == At(b, "act") /\ Refuse(b, [cookies[b] EXCEPT !.active = r])

-----------------------------------------------------------------------------
(* A request of the platform's staff                                       *)

RequirePlatformAuth(b) ==
    LET token == cookies[b].platform
    IN  /\ At(b, "idle")
        /\ VerifySessionToken(token)
        /\ Go(b, [NoRequest EXCEPT !.user = token.user], "platform role")
        /\ UNCHANGED barred

\* Here a query that fails signs the user out.
ReadPlatformRole(b) ==
    /\ At(b, "platform role")
    /\ \/ /\ RoleOf[req[b].user] # "none"
          /\ Go(b, [req[b] EXCEPT !.role = RoleOf[req[b].user]], "platform")
          /\ UNCHANGED barred
       \/ Refuse(b, [cookies[b] EXCEPT !.platform = None])

\* Pages, and the handlers of module Tenancy and Subscriptions.
PlatformAct(b) == At(b, "platform") /\ Go(b, NoRequest, "idle") /\ UNCHANGED barred

\* superadmin(c), SELECT status ... FOR UPDATE, and then
\* UPDATE accounts SET status = $1, locked_reason = CASE WHEN $1 = 'active' ...
\* PostgreSQL gives $1 the type text in the comparison and account_status in
\* the assignment, and refuses the statement, whatever is in the row: nothing
\* is changed, and account_status_log is never written.
UpdateAccountStatus(b, a) ==
    /\ At(b, "platform")
    /\ req[b].role = "superadmin"
    /\ Go(b, NoRequest, "idle")
    /\ UNCHANGED barred

-----------------------------------------------------------------------------
(* The specification                                                       *)

Next ==
    \/ Tick
    \/ \E a \in Account : Suspend(a) \/ Reinstate(a)
    \/ \E b \in Browser :
        \/ \E u \in User : HandleLogin(b, u) \/ HandlePlatformLogin(b, u)
        \/ HandleLogout(b) \/ HandlePlatformLogout(b)
        \/ RequireAuth(b) \/ ReadRole(b) \/ ReadMemberships(b) \/ Act(b)
        \/ \E r \in Restaurant : SwitchRestaurant(b, r)
        \/ RequirePlatformAuth(b) \/ ReadPlatformRole(b) \/ PlatformAct(b)
        \/ \E a \in Account : UpdateAccountStatus(b, a)

Spec == Init /\ [][Next]_vars

-----------------------------------------------------------------------------
(* Properties                                                              *)

\* A suspension takes effect with the next request, whatever a token is still
\* good for: nobody acts in an account that has been suspended ever since his
\* request began (session.go:43, auth.go:78).
BarredNeverActs ==
    \A b \in Browser : At(b, "act") => AccountOf[req[b].restaurant] \notin barred[b]

\* Whoever signs in to a browser acts in restaurants of his own, even with the
\* cookie of the one who used it before, or of a restaurant nobody has checked
\* (tables.go:284); and no one of the platform acts as a customer, even if he is a
\* member and the query for his role fails (auth.go:64): he has no session.
ActsAsMember ==
    \A b \in Browser :
        At(b, "act") => /\ req[b].restaurant \in MemberOf[req[b].user]
                        /\ RoleOf[req[b].user] = "none"

=============================================================================
