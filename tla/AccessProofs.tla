---------------------------- MODULE AccessProofs ----------------------------
(***************************************************************************)
(* Proofs about Access, for any number of requests, addresses and tokens.  *)
(***************************************************************************)
EXTENDS Access, TLAPS

\* What the stages of a request say about its fields.
LEMMA CallType ==
  ASSUME TypeOK, NEW r \in Request
  PROVE  /\ call[r] \in Call
         /\ call[r].at \in Step => call[r] \in [at : Step, email : Email] /\ call[r].email \in Email
         /\ call[r].at = "handle" =>
              /\ call[r] \in [at : {"handle"}, email : Email, own : BOOLEAN, past : BOOLEAN]
              /\ call[r].email \in Email
  BY DEF TypeOK, Call, Step

\* What AccessInv says of one request in the state c.
Held(c) ==
  /\ c \in Call
  /\ c.at \in {"seed", "profile", "user"} => c.email = company
  /\ c.at \in {"profile", "user"} => chart
  /\ c.at = "session" => role[c.email] # "none"
  /\ c.at = "handle" => role[c.email] = "owner" /\ c.own /\ ~c.past

\* SetupHeld, CallsHeld and the type of call, request by request.
LEMMA HeldByAll ==
  ASSUME TypeOK, SetupHeld, CallsHeld
  PROVE  \A r \in Request : Held(call[r])
  BY CallType DEF SetupHeld, CallsHeld, Held

\* A step that only moves a request on keeps the invariant when the request's
\* new state is one the tables allow.
LEMMA OnlyCall ==
  ASSUME AccessInv, NEW r \in Request, NEW c, Held(c), goto(r, c),
         UNCHANGED <<company, chart, profile, role, issued, rows, ended, writes, clock>>
  PROVE  AccessInv'
<1>1. TypeOK'
  BY DEF AccessInv, TypeOK, goto, Held
<1>2. SetupHeld' /\ CallsHeld'
  BY DEF AccessInv, TypeOK, goto, Held, SetupHeld, CallsHeld
<1> QED
  BY <1>1, <1>2 DEF AccessInv, OwnerIsFounder, UsersHaveBooks, EndedGone, WritesByLiveOwner

\* An idle request is allowed by any tables.
LEMMA IdleHeld == Held(Idle)
  BY DEF Held, Idle, Call

\* What wrote adds to writes.
LEMMA WriteType ==
  ASSUME NEW r \in Request, wrote(r), writes \subseteq [email : Email, own : BOOLEAN, past : BOOLEAN],
         call[r].email \in Email, call[r].own \in BOOLEAN, call[r].past \in BOOLEAN
  PROVE  writes' \subseteq [email : Email, own : BOOLEAN, past : BOOLEAN]
<1>1. [email |-> call[r].email, own |-> call[r].own, past |-> call[r].past]
        \in [email : Email, own : BOOLEAN, past : BOOLEAN]
  BY Zenon
<1> QED
  BY <1>1, Zenon DEF wrote

\* A new installation.
LEMMA AccessInit == Init => AccessInv
<1> SUFFICES ASSUME Init PROVE AccessInv
  OBVIOUS
<1>1. TypeOK
  <2>1. clock \in 0..MaxTime
    BY AccessAssumption DEF Init
  <2>2. issued \in [Token -> [email : Email \cup {NoOne}, expires : Nat]]
    BY DEF Init, NoSession
  <2>3. call \in [Request -> Call]
    BY DEF Init, Idle, Call
  <2> QED
    BY <2>1, <2>2, <2>3 DEF Init, TypeOK
<1> QED
  BY <1>1 DEF Init, AccessInv, Idle, OwnerIsFounder, UsersHaveBooks, SetupHeld, CallsHeld,
     EndedGone, WritesByLiveOwner

\* Every step keeps the invariant.
LEMMA AccessStep == AccessInv /\ [Next]_vars => AccessInv'
<1> SUFFICES ASSUME AccessInv, [Next]_vars PROVE AccessInv'
  OBVIOUS
<1>0. /\ TypeOK /\ OwnerIsFounder /\ UsersHaveBooks /\ EndedGone /\ WritesByLiveOwner
      /\ SetupHeld /\ CallsHeld /\ \A r \in Request : Held(call[r])
  BY HeldByAll DEF AccessInv
<1>1. ASSUME NEW r \in Request, Fails(r) PROVE AccessInv'
  BY <1>1, OnlyCall, IdleHeld DEF Fails
<1>2. ASSUME NEW r \in Request, InsertCompany(r) PROVE AccessInv'
  <2>1. call[r].email \in Email /\ company = NoOne /\ company' = call[r].email
    BY <1>0, <1>2, CallType DEF InsertCompany, Step
  <2>2. \A e \in Email : role[e] = "none"
    BY <1>0, <2>1 DEF UsersHaveBooks
  <2>3. TypeOK'
    BY <1>0, <1>2, <2>1, CallType DEF InsertCompany, TypeOK, goto, Call, Step
  <2>4. SetupHeld'
    BY <1>0, <1>2, <2>1, AccessAssumption DEF InsertCompany, SetupHeld, goto, Held, TypeOK, Call, Step
  <2>5. CallsHeld'
    BY <1>0, <1>2, <2>1 DEF InsertCompany, CallsHeld, goto, TypeOK, Call, Step
  <2> QED
    BY <1>0, <1>2, <2>1, <2>2, <2>3, <2>4, <2>5
    DEF InsertCompany, AccessInv, OwnerIsFounder, UsersHaveBooks, EndedGone, WritesByLiveOwner, TypeOK
<1>3. ASSUME NEW r \in Request, seedChart(r) PROVE AccessInv'
  <2>1. TypeOK'
    BY <1>0, <1>3, CallType DEF seedChart, TypeOK, goto, Call, Step
  <2>2. SetupHeld' /\ CallsHeld'
    BY <1>0, <1>3, CallType DEF seedChart, SetupHeld, CallsHeld, goto, TypeOK, Step
  <2> QED
    BY <1>0, <1>3, <2>1, <2>2
    DEF seedChart, AccessInv, OwnerIsFounder, UsersHaveBooks, EndedGone, WritesByLiveOwner
<1>4. ASSUME NEW r \in Request, setupProfile(r) PROVE AccessInv'
  <2>1. call[r].email \in Email /\ call[r].email = company
    BY <1>0, <1>4, CallType DEF setupProfile, SetupHeld, Step
  <2>2. TypeOK'
    BY <1>0, <1>4, <2>1, CallType DEF setupProfile, TypeOK, goto, Call, Step
  <2>3. SetupHeld' /\ CallsHeld'
    BY <1>0, <1>4, CallType DEF setupProfile, SetupHeld, CallsHeld, goto, TypeOK, Step
  <2> QED
    BY <1>0, <1>4, <2>1, <2>2, <2>3
    DEF setupProfile, AccessInv, OwnerIsFounder, UsersHaveBooks, EndedGone, WritesByLiveOwner
<1>5. ASSUME NEW r \in Request, setupUser(r) PROVE AccessInv'
  <2>1. call[r].email \in Email /\ call[r].email = company /\ chart
    BY <1>0, <1>5, CallType DEF setupUser, SetupHeld, Step
  <2>2. role[company] = "none" /\ role' = [role EXCEPT ![company] = "owner"]
    BY <1>5, <2>1 DEF setupUser, CreateUser
  <2>3. TypeOK'
    BY <1>0, <1>5, <2>1, <2>2 DEF setupUser, TypeOK, goto, Call, Step
  <2>4. SetupHeld' /\ CallsHeld'
    BY <1>0, <1>5, <2>1, <2>2, CallType DEF setupUser, SetupHeld, CallsHeld, goto, TypeOK, Step
  <2> QED
    BY <1>0, <1>5, <2>1, <2>2, <2>3, <2>4, AccessAssumption
    DEF setupUser, AccessInv, OwnerIsFounder, UsersHaveBooks, EndedGone, WritesByLiveOwner, TypeOK
<1>6. ASSUME NEW r \in Request, handleSettingsSave(r) PROVE AccessInv'
  <2>1. /\ call[r].email \in Email /\ role[call[r].email] = "owner" /\ call[r].email = company
        /\ call[r].own \in BOOLEAN /\ call[r].past \in BOOLEAN /\ call[r].own /\ ~call[r].past
    BY <1>0, <1>6, CallType DEF handleSettingsSave, CallsHeld, OwnerIsFounder
  <2>2. TypeOK'
    <3>1. writes' \subseteq [email : Email, own : BOOLEAN, past : BOOLEAN]
      BY <1>0, <1>6, <2>1, WriteType DEF handleSettingsSave, TypeOK
    <3>2. call' \in [Request -> Call]
      BY <1>0, <1>6 DEF handleSettingsSave, TypeOK, goto, Call, Idle
    <3> QED
      BY <1>0, <1>6, <2>1, <3>1, <3>2 DEF handleSettingsSave, TypeOK
  <2>3. SetupHeld' /\ CallsHeld'
    BY <1>0, <1>6, CallType DEF handleSettingsSave, SetupHeld, CallsHeld, goto, TypeOK, Idle
  <2>4. WritesByLiveOwner'
    BY <1>0, <1>6, <2>1 DEF handleSettingsSave, wrote, WritesByLiveOwner
  <2> QED
    BY <1>0, <1>6, <2>1, <2>2, <2>3, <2>4
    DEF handleSettingsSave, AccessInv, OwnerIsFounder, UsersHaveBooks, EndedGone
<1>7. ASSUME NEW r \in Request, NEW e \in Email, NEW own \in BOOLEAN, NEW f \in BOOLEAN,
             handleSetup(r, e, own, f)
      PROVE  AccessInv'
  <2>1. Held([at |-> "bootstrap", email |-> e])
    BY DEF Held, Call, Step
  <2> QED
    BY <1>7, <2>1, OnlyCall DEF handleSetup
<1>8. ASSUME NEW r \in Request, NEW e \in Email, NEW own \in BOOLEAN, handleLogin(r, e, own)
      PROVE  AccessInv'
  <2>1. Held([at |-> "session", email |-> e])
    BY <1>8 DEF handleLogin, Login, Held, Call, Step
  <2> QED
    BY <1>8, <2>1, OnlyCall DEF handleLogin, Login
<1>9. ASSUME NEW r \in Request, NEW e \in Email, handleInviteUser(r, e) PROVE AccessInv'
  <2>1. /\ call[r].email \in Email /\ role[call[r].email] = "owner" /\ call[r].email = company
        /\ call[r].own \in BOOLEAN /\ call[r].past \in BOOLEAN /\ call[r].own /\ ~call[r].past
    BY <1>0, <1>9, CallType DEF handleInviteUser, CallsHeld, OwnerIsFounder
  <2>2. role[e] = "none" /\ role' = [role EXCEPT ![e] = "viewer"]
    BY <1>9 DEF handleInviteUser, CreateUser
  <2>3. TypeOK'
    <3>1. writes' \subseteq [email : Email, own : BOOLEAN, past : BOOLEAN]
      BY <1>0, <1>9, <2>1, WriteType DEF handleInviteUser, TypeOK
    <3>2. call' \in [Request -> Call]
      BY <1>0, <1>9 DEF handleInviteUser, TypeOK, goto, Call, Idle
    <3> QED
      BY <1>0, <1>9, <2>2, <3>1, <3>2 DEF handleInviteUser, TypeOK
  <2>4. SetupHeld' /\ CallsHeld'
    BY <1>0, <1>9, <2>2, CallType DEF handleInviteUser, SetupHeld, CallsHeld, goto, TypeOK, Idle, Step
  <2>5. WritesByLiveOwner'
    BY <1>0, <1>9, <2>1, <2>2 DEF handleInviteUser, wrote, WritesByLiveOwner, TypeOK
  <2> QED
    BY <1>0, <1>9, <2>1, <2>2, <2>3, <2>4, <2>5, AccessAssumption
    DEF handleInviteUser, AccessInv, OwnerIsFounder, UsersHaveBooks, EndedGone, TypeOK
<1>10. ASSUME NEW r \in Request, NEW t \in Token, InsertSession(r, t) PROVE AccessInv'
  <2>1. call[r].email \in Email /\ role[call[r].email] # "none"
    BY <1>0, <1>10, CallType DEF InsertSession, CallsHeld, Step
  <2>2. clock + SessionTTL \in Nat
    BY <1>0, AccessAssumption DEF TypeOK
  <2>3. TypeOK'
    BY <1>0, <1>10, <2>1, <2>2 DEF InsertSession, TypeOK, goto, Call, Idle
  <2>4. SetupHeld' /\ CallsHeld'
    BY <1>0, <1>10, CallType DEF InsertSession, SetupHeld, CallsHeld, goto, TypeOK, Idle
  <2>5. EndedGone'
    BY <1>0, <1>10, <2>1, AccessAssumption DEF InsertSession, EndedGone, TypeOK, NoSession
  <2> QED
    BY <1>0, <1>10, <2>3, <2>4, <2>5
    DEF InsertSession, AccessInv, OwnerIsFounder, UsersHaveBooks, WritesByLiveOwner
<1>11. ASSUME NEW r \in Request, NEW t \in Token, NEW own \in BOOLEAN, handleLogout(r, t, own)
       PROVE  AccessInv'
  BY <1>0, <1>11 DEF handleLogout, AccessInv, TypeOK, OwnerIsFounder, UsersHaveBooks, SetupHeld,
     CallsHeld, EndedGone, WritesByLiveOwner
<1>12. ASSUME NEW r \in Request, NEW t \in Token, NEW own \in BOOLEAN, requireSession(r, t, own)
       PROVE  AccessInv'
  <2> DEFINE c == [at |-> "handle", email |-> issued[t].email, own |-> own,
                   past |-> clock > issued[t].expires \/ t \in ended]
  <2>1. t \in rows /\ ~(issued[t].expires < clock) /\ own
    BY <1>12 DEF requireSession, Validate, csrfProtect
  <2>2. issued[t].email \in Email /\ role[issued[t].email] = "owner"
    BY <1>0, <1>12, <2>1 DEF requireSession, blockViewerWrites, TypeOK
  <2>3. ~(clock > issued[t].expires \/ t \in ended)
    BY <1>0, <2>1 DEF EndedGone, TypeOK
  <2>4. Held(c)
    BY <2>1, <2>2, <2>3 DEF Held, Call
  <2> QED
    BY <1>12, <2>4, OnlyCall DEF requireSession
<1>13. CASE Sweep
  BY <1>0, <1>13 DEF Sweep, AccessInv, TypeOK, OwnerIsFounder, UsersHaveBooks, SetupHeld,
     CallsHeld, EndedGone, WritesByLiveOwner
<1>14. CASE Restart
  <2>1. TypeOK'
    BY <1>0, <1>14 DEF Restart, TypeOK, Call, Idle
  <2>2. SetupHeld' /\ CallsHeld'
    BY <1>14 DEF Restart, SetupHeld, CallsHeld, Idle
  <2> QED
    BY <1>0, <1>14, <2>1, <2>2
    DEF Restart, AccessInv, OwnerIsFounder, UsersHaveBooks, EndedGone, WritesByLiveOwner
<1>15. CASE Tick
  <2>1. clock' \in 0..MaxTime
    BY <1>0, <1>15, AccessAssumption DEF Tick, TypeOK
  <2> QED
    BY <1>0, <1>15, <2>1 DEF Tick, AccessInv, TypeOK, OwnerIsFounder, UsersHaveBooks, SetupHeld,
       CallsHeld, EndedGone, WritesByLiveOwner
<1>16. CASE UNCHANGED vars
  BY <1>0, <1>16 DEF vars, AccessInv, TypeOK, OwnerIsFounder, UsersHaveBooks, SetupHeld,
     CallsHeld, EndedGone, WritesByLiveOwner
<1> QED
  BY <1>1, <1>2, <1>3, <1>4, <1>5, <1>6, <1>7, <1>8, <1>9, <1>10, <1>11, <1>12, <1>13, <1>14,
     <1>15, <1>16 DEF Next, setup

\* The inductive invariant holds for ever.
THEOREM AccessInvariance == Spec => []AccessInv
  BY AccessInit, AccessStep, PTL DEF Spec

\* However many setups race, fail or are repeated, there is one founder, and no
\* account without books (handleSetup, BootstrapCompany).
THEOREM SetupIsSound == Spec => []SetupSound
<1>1. AccessInv => SetupSound
  BY DEF AccessInv, SetupSound
<1> QED
  BY <1>1, AccessInvariance, PTL

\* Every write was made for the owner by a request whose session was good.
THEOREM OwnersWrite == Spec => []WritesByLiveOwner
<1>1. AccessInv => WritesByLiveOwner
  BY DEF AccessInv
<1> QED
  BY <1>1, AccessInvariance, PTL

\* A session that is still good disappears only by its own logout, never by the
\* sweep or a restart (DeleteExpiredSessions).
THEOREM GoodSessionsStay == Spec => LiveSessionsStay
<1>1. ASSUME [Next]_vars, NEW t \in rows, t \notin rows'
      PROVE  t \in ended' \/ issued[t].expires < clock
  <2>1. CASE Sweep
    BY <1>1, <2>1 DEF Sweep
  <2>2. ASSUME NEW r \in Request, NEW u \in Token, NEW own \in BOOLEAN, handleLogout(r, u, own)
        PROVE  t \in ended'
    BY <1>1, <2>2 DEF handleLogout
  <2>3. ASSUME NEW r \in Request, NEW u \in Token, InsertSession(r, u) PROVE FALSE
    BY <1>1, <2>3 DEF InsertSession
  <2>4. ASSUME UNCHANGED rows PROVE FALSE
    BY <1>1, <2>4
  <2> QED
    BY <1>1, <2>1, <2>2, <2>3, <2>4
    DEF Next, vars, setup, Fails, InsertCompany, seedChart, setupProfile, setupUser, handleSettingsSave,
        handleSetup, handleLogin, handleInviteUser, requireSession, Restart, Tick
<1>2. [Next]_vars => [\A t \in rows : t \notin rows' => t \in ended' \/ issued[t].expires < clock]_vars
  BY <1>1
<1> QED
  BY <1>2, PTL DEF Spec, LiveSessionsStay
=============================================================================
