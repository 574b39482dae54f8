------------------------------- MODULE Access -------------------------------
(***************************************************************************)
(* First-run setup, operator accounts, sessions and the filters in front   *)
(* of every state-changing request (internal/auth, internal/handler).      *)
(*                                                                         *)
(* Requests run concurrently.  Setup is a chain of separate commits        *)
(* (company row, chart, profile, user, session), each of which may fail;   *)
(* what makes it safe is only the unique index one_company.  The process   *)
(* may stop anywhere; at start it completes the chart (SyncChart).         *)
(***************************************************************************)
EXTENDS Integers, FiniteSets

CONSTANTS Request,    \* requests in flight
          Email,      \* e-mail addresses of operators
          Token,      \* session tokens randToken can return
          NoOne,      \* no address
          SessionTTL, \* sessionTTL
          MaxTime     \* bound on the clock

ASSUME AccessAssumption ==
  /\ NoOne \notin Email
  /\ SessionTTL \in Nat /\ MaxTime \in Nat

VARIABLES
  company, \* NoOne, or the address in the form of the setup that created it
  chart,   \* every account of CoreChart is there
  profile, \* NoOne, or the address of whoever wrote the company's profile last
  role,    \* role[e]: the users table
  issued,  \* history: issued[t], what InsertSession stored under t
  rows,    \* tokens with a row in sessions
  ended,   \* history: tokens whose operator logged out
  call,    \* call[r]: what request r is doing
  writes,  \* history: the writes made by requests of the application group
  clock

vars == <<company, chart, profile, role, issued, rows, ended, call, writes, clock>>

Idle == [at |-> "idle"]

NoSession == [email |-> NoOne, expires |-> 0]

Init ==
  /\ company = NoOne /\ chart = FALSE /\ profile = NoOne
  /\ role = [e \in Email |-> "none"]
  /\ issued = [t \in Token |-> NoSession] /\ rows = {} /\ ended = {}
  /\ call = [r \in Request |-> Idle]
  /\ writes = {} /\ clock = 0

goto(r, c) == call' = [call EXCEPT ![r] = c]

-----------------------------------------------------------------------------
\* The request fails or is refused here: a database error, an error page.
Fails(r) ==
  /\ call[r] # Idle
  /\ goto(r, Idle)
  /\ UNCHANGED <<company, chart, profile, role, issued, rows, ended, writes, clock>>

\* An unsafe method needs the token of the browser's own cookie in the form.
csrfProtect(own) == own

HasUsers == \E e \in Email : role[e] # "none"

\* POST /setup.  HasUsers is read first; its error is ignored and then counts
\* as "no users".
handleSetup(r, e, own, readFails) ==
  /\ call[r] = Idle /\ csrfProtect(own)
  /\ readFails \/ ~HasUsers
  /\ goto(r, [at |-> "bootstrap", email |-> e])
  /\ UNCHANGED <<company, chart, profile, role, issued, rows, ended, writes, clock>>

\* Fault: a second company row is accepted.
InsertCompanyAgain(r) ==
  /\ call[r].at = "bootstrap"
  /\ company' = call[r].email
  /\ goto(r, [call[r] EXCEPT !.at = "seed"])
  /\ UNCHANGED <<chart, profile, role, issued, rows, ended, writes, clock>>

\* BootstrapCompany's INSERT, under the unique index one_company.
InsertCompany(r) ==
  /\ call[r].at = "bootstrap" /\ company = NoOne
  /\ company' = call[r].email
  /\ goto(r, [call[r] EXCEPT !.at = "seed"])
  /\ UNCHANGED <<chart, profile, role, issued, rows, ended, writes, clock>>

\* The rest of BootstrapCompany: one upsert per account; the first failure ends
\* the setup (Fails), with the company row committed.
seedChart(r) ==
  /\ call[r].at = "seed"
  /\ chart' = TRUE
  /\ goto(r, [call[r] EXCEPT !.at = "profile"])
  /\ UNCHANGED <<company, profile, role, issued, rows, ended, writes, clock>>

\* UpdateCompanyProfile of the setup form, best effort.
setupProfile(r) ==
  /\ call[r].at = "profile"
  /\ profile' \in {profile, call[r].email}
  /\ goto(r, [call[r] EXCEPT !.at = "user"])
  /\ UNCHANGED <<company, chart, role, issued, rows, ended, writes, clock>>

\* CreateUser: any role but viewer becomes owner; the address is unique.
CreateUser(e, asked) ==
  /\ role[e] = "none"
  /\ role' = [role EXCEPT ![e] = IF asked = "viewer" THEN "viewer" ELSE "owner"]

\* CreateUser of the setup, then Login with the same credentials.
setupUser(r) ==
  /\ call[r].at = "user"
  /\ CreateUser(call[r].email, "owner")
  /\ goto(r, [at |-> "session", email |-> call[r].email])
  /\ UNCHANGED <<company, chart, profile, issued, rows, ended, writes, clock>>

\* Login up to its INSERT: the user exists and the password matches.
Login(r, e) == role[e] # "none" /\ goto(r, [at |-> "session", email |-> e])

\* POST /login.
handleLogin(r, e, own) ==
  /\ call[r] = Idle /\ csrfProtect(own)
  /\ Login(r, e)
  /\ UNCHANGED <<company, chart, profile, role, issued, rows, ended, writes, clock>>

\* InsertSession with a fresh token.
InsertSession(r, t) ==
  /\ call[r].at = "session" /\ issued[t] = NoSession
  /\ issued' = [issued EXCEPT ![t] = [email |-> call[r].email, expires |-> clock + SessionTTL]]
  /\ rows' = rows \cup {t}
  /\ goto(r, Idle)
  /\ UNCHANGED <<company, chart, profile, role, ended, writes, clock>>

\* Fault: the row is left in the table, only the cookie is cleared.
logoutKeepsRow(r, t, own) ==
  /\ call[r] = Idle /\ csrfProtect(own) /\ issued[t] # NoSession
  /\ ended' = ended \cup {t}
  /\ UNCHANGED <<company, chart, profile, role, issued, rows, call, writes, clock>>

\* POST /logout deletes the row of the cookie's token.
handleLogout(r, t, own) ==
  /\ call[r] = Idle /\ csrfProtect(own) /\ issued[t] # NoSession
  /\ rows' = rows \ {t} /\ ended' = ended \cup {t}
  /\ UNCHANGED <<company, chart, profile, role, issued, call, writes, clock>>

-----------------------------------------------------------------------------
\* Validate: a row that is not past its expiry.
Validate(t) == t \in rows /\ ~(issued[t].expires < clock)

\* blockViewerWrites of an unsafe method.
blockViewerWrites(e) == role[e] # "viewer"

\* A POST to a page of the application group passes its filters: csrfProtect,
\* requireSession (session and company) and blockViewerWrites.
requireSession(r, t, own) ==
  /\ call[r] = Idle /\ csrfProtect(own)
  /\ Validate(t) /\ company # NoOne /\ blockViewerWrites(issued[t].email)
  /\ goto(r, [at |-> "handle", email |-> issued[t].email, own |-> own,
              past |-> clock > issued[t].expires \/ t \in ended])
  /\ UNCHANGED <<company, chart, profile, role, issued, rows, ended, writes, clock>>

\* The write of r, for the properties.
wrote(r) == writes' = writes \cup {[email |-> call[r].email, own |-> call[r].own,
                                    past |-> call[r].past]}

\* POST /users: an invited account is a viewer.
handleInviteUser(r, e) ==
  /\ call[r].at = "handle"
  /\ CreateUser(e, "viewer")
  /\ wrote(r) /\ goto(r, Idle)
  /\ UNCHANGED <<company, chart, profile, issued, rows, ended, clock>>

\* POST /settings, standing for every other write of the group as well.
handleSettingsSave(r) ==
  /\ call[r].at = "handle"
  /\ profile' = call[r].email
  /\ wrote(r) /\ goto(r, Idle)
  /\ UNCHANGED <<company, chart, role, issued, rows, ended, clock>>

-----------------------------------------------------------------------------
\* Fault: sessions that expire now are deleted too.
sweepToday ==
  /\ rows' = {t \in rows : issued[t].expires > clock}
  /\ UNCHANGED <<company, chart, profile, role, issued, ended, call, writes, clock>>

\* DeleteExpiredSessions, first part of Sweep, at start and every hour.
Sweep ==
  /\ rows' = {t \in rows : ~(issued[t].expires < clock)}
  /\ UNCHANGED <<company, chart, profile, role, issued, ended, call, writes, clock>>

\* The process stops, losing the requests in flight, and starts again: SyncChart
\* must succeed before the server listens.
Restart ==
  /\ call' = [r \in Request |-> Idle]
  /\ chart' = (company # NoOne)
  /\ UNCHANGED <<company, profile, role, issued, rows, ended, writes, clock>>

Tick ==
  /\ clock < MaxTime /\ clock' = clock + 1
  /\ UNCHANGED <<company, chart, profile, role, issued, rows, ended, call, writes>>

setup(r) == InsertCompany(r) \/ seedChart(r) \/ setupProfile(r) \/ setupUser(r)

Next ==
  \/ \E r \in Request : Fails(r) \/ setup(r) \/ handleSettingsSave(r)
  \/ \E r \in Request, e \in Email, own, readFails \in BOOLEAN : handleSetup(r, e, own, readFails)
  \/ \E r \in Request, e \in Email, own \in BOOLEAN : handleLogin(r, e, own)
  \/ \E r \in Request, e \in Email : handleInviteUser(r, e)
  \/ \E r \in Request, t \in Token : InsertSession(r, t)
  \/ \E r \in Request, t \in Token, own \in BOOLEAN :
       handleLogout(r, t, own) \/ requireSession(r, t, own)
  \/ Sweep \/ Restart \/ Tick

Spec == Init /\ [][Next]_vars

\* The hourly sweep is tried again until the database answers.
FairSpec == Spec /\ WF_vars(Sweep)

-----------------------------------------------------------------------------
Step == {"bootstrap", "seed", "profile", "user", "session"}

Call == [at : {"idle"}] \cup [at : Step, email : Email]
          \cup [at : {"handle"}, email : Email, own : BOOLEAN, past : BOOLEAN]

\* Every variable holds values of its kind; a row is an issued token of a user.
TypeOK ==
  /\ company \in Email \cup {NoOne} /\ profile \in Email \cup {NoOne} /\ chart \in BOOLEAN
  /\ role \in [Email -> {"none", "owner", "viewer"}]
  /\ issued \in [Token -> [email : Email \cup {NoOne}, expires : Nat]]
  /\ rows \cup ended \subseteq Token
  /\ \A t \in rows : issued[t].email \in Email /\ role[issued[t].email] # "none"
  /\ call \in [Request -> Call]
  /\ writes \subseteq [email : Email, own : BOOLEAN, past : BOOLEAN]
  /\ clock \in 0..MaxTime

\* However many setups race, and even when HasUsers cannot be read, the only
\* owner is the one whose setup created the company, and no other request's
\* data ends up in its profile (handleSetup).
OwnerIsFounder ==
  /\ \A e \in Email : role[e] = "owner" => e = company
  /\ profile \in {NoOne, company}

\* No user without a company and a complete chart: a setup that stops half way,
\* or a chart that could not be seeded, leaves no account behind (handleSetup).
UsersHaveBooks ==
  \A e \in Email : role[e] # "none" => company # NoOne /\ chart

\* Every write was made for the owner, from a form of the application, by a
\* request whose session was neither expired nor logged out when it came.
WritesByLiveOwner ==
  \A w \in writes : role[w.email] = "owner" /\ w.own /\ ~w.past

\* A session that is still good disappears only by its own logout: neither the
\* sweep nor a restart logs an operator out.
LiveSessionsStay ==
  [][\A t \in rows : t \notin rows' => t \in ended' \/ issued[t].expires < clock]_vars

\* Every session past its time is deleted in the end.
ExpiredSessionsGo ==
  \A t \in Token : (t \in rows /\ issued[t].expires < clock) ~> t \notin rows

\* First-run setup is sound however many of them race, fail half way or are
\* tried again: one founder, one set of books, and no account without them.
SetupSound == TypeOK /\ OwnerIsFounder /\ UsersHaveBooks

\* A session lasts exactly its time: the sweep takes none that is good and
\* leaves none that is past.
SessionsEndOnTime == LiveSessionsStay /\ ExpiredSessionsGo

-----------------------------------------------------------------------------
(* The inductive invariant behind them.                                    *)

\* A setup past its INSERT is the founder's, and past the seeding it has a chart.
SetupHeld ==
  \A r \in Request :
    /\ call[r].at \in {"seed", "profile", "user"} => call[r].email = company
    /\ call[r].at \in {"profile", "user"} => chart

\* A session is given to an account only, and a write is on behalf of an owner
\* whose session was good.
CallsHeld ==
  \A r \in Request :
    /\ call[r].at = "session" => role[call[r].email] # "none"
    /\ call[r].at = "handle" => role[call[r].email] = "owner" /\ call[r].own /\ ~call[r].past

\* A token that was logged out had been issued, and has no row.
EndedGone == ended \cap rows = {} /\ \A t \in ended : issued[t] # NoSession

AccessInv ==
  /\ TypeOK /\ OwnerIsFounder /\ UsersHaveBooks /\ SetupHeld
  /\ CallsHeld /\ EndedGone /\ WritesByLiveOwner
=============================================================================
