----------------------------- MODULE SignInProofs -----------------------------
(***************************************************************************)
(* Theorems about SignIn, for any attempts, browsers and accounts and any  *)
(* set of faults.                                                          *)
(***************************************************************************)
EXTENDS SignIn, TLAPS

\* Nothing is bound, signed in or under way at first.
LEMMA IInvInit == Init => IInv
  BY DEF Init, IInv, TypeOK, Flows, Steps, Handling, Answers, RowsRefer,
         OneBrowser, SessionsMade, ReturningFinds, CookieIsLive, LogoutHolds

\* A request for /login touches an attempt nothing refers to yet, and one state
\* cookie.
LEMMA LoginKeeps ==
  ASSUME IInv, NEW a \in Attempts, NEW b \in Browsers, Login(a, b)
  PROVE  IInv'
<1> USE DEF IInv, TypeOK, Login
<1>1. TypeOK'
  <2>1. flow[a] \in Flows
    OBVIOUS
  <2>2. [flow[a] EXCEPT !.pc = "atGitHub", !.home = b] \in Flows
    BY <2>1 DEF Flows, Steps
  <2>3. flow' = [flow EXCEPT
                   ![a] = [flow[a] EXCEPT !.pc = "atGitHub", !.home = b]]
    OBVIOUS
  <2>4. flow' \in [Attempts -> Flows]
    BY <2>2, <2>3
  <2>5. QED BY <2>4 DEF db
<1>2. RowsRefer'
  BY DEF db, RowsRefer
<1>3. OneBrowser'
  BY DEF Handling, Answers, Flows, OneBrowser
<1>4. SessionsMade'
  BY DEF db, Answers, SessionsMade
<1>5. ReturningFinds'
  BY DEF db, ReturningFinds
<1>6. CookieIsLive'
  BY DEF db, CookieIsLive
<1>7. LogoutHolds'
  BY DEF db, LogoutHolds
<1>8. QED BY <1>1, <1>2, <1>3, <1>4, <1>5, <1>6, <1>7

\* A state cookie that goes away takes nothing with it.
LEMMA StateExpiresKeeps ==
  ASSUME IInv, NEW b \in Browsers, StateExpires(b)
  PROVE  IInv'
<1> USE DEF IInv, TypeOK, StateExpires
<1>1. TypeOK'
  BY DEF db
<1>2. RowsRefer'
  BY DEF db, RowsRefer
<1>3. OneBrowser'
  BY DEF OneBrowser
<1>4. SessionsMade'
  BY DEF db, SessionsMade
<1>5. ReturningFinds'
  BY DEF db, ReturningFinds
<1>6. CookieIsLive'
  BY DEF db, CookieIsLive
<1>7. LogoutHolds'
  BY DEF db, LogoutHolds
<1>8. QED BY <1>1, <1>2, <1>3, <1>4, <1>5, <1>6, <1>7

\* A callback is let in for the browser whose cookie names it.
LEMMA CallbackArrivesKeeps ==
  ASSUME IInv, NEW a \in Attempts,
         NEW b \in Browsers, NEW acc \in Accounts, CallbackArrives(a, b, acc)
  PROVE  IInv'
<1> USE DEF IInv, TypeOK, CallbackArrives, StateMatches, Bound
<1>1. TypeOK'
  BY DEF db, browser, Steps, Handling, Flows
<1>2. RowsRefer'
  BY DEF db, Flows, RowsRefer
<1>3. OneBrowser'
  BY NoOneAssumption DEF browser, Handling, Answers, Flows, OneBrowser
<1>4. SessionsMade'
  BY DEF db, Answers, Flows, SessionsMade
<1>5. ReturningFinds'
  BY DEF db, Flows, OneBrowser, ReturningFinds
<1>6. CookieIsLive'
  BY DEF db, browser, CookieIsLive
<1>7. LogoutHolds'
  BY DEF db, Flows, LogoutHolds
<1>8. QED BY <1>1, <1>2, <1>3, <1>4, <1>5, <1>6, <1>7

\* The lookup finds the user the account is bound to, or makes an id.
LEMMA IdentifyKeeps ==
  ASSUME IInv, NEW a \in Attempts, Identify(a)
  PROVE  IInv'
<1> USE DEF IInv, TypeOK, Identify, Bound, Learn, Move
<1>1. TypeOK'
  BY DEF db, browser, Steps, Handling, Answers, Flows
<1>2. RowsRefer'
  BY DEF db, Handling, Flows, RowsRefer, OneBrowser
<1>3. OneBrowser'
  BY DEF browser, Handling, Flows, OneBrowser
<1>4. SessionsMade'
  BY DEF db, Answers, Flows, SessionsMade
<1>5. ReturningFinds'
  BY DEF db, Flows, ReturningFinds
<1>6. CookieIsLive'
  BY DEF db, browser, CookieIsLive
<1>7. LogoutHolds'
  BY DEF db, Flows, LogoutHolds
<1>8. QED BY <1>1, <1>2, <1>3, <1>4, <1>5, <1>6, <1>7

\* The user's row is there before anything refers to it.
LEMMA CreateUserKeeps ==
  ASSUME IInv, NEW a \in Attempts, CreateUser(a)
  PROVE  IInv'
<1> USE DEF IInv, TypeOK, CreateUser, Move
<1>1. TypeOK'
  BY DEF browser, Steps, Handling, Answers, Flows
<1>2. RowsRefer'
  BY DEF Flows, RowsRefer, OneBrowser
<1>3. OneBrowser'
  BY DEF browser, Handling, Flows, OneBrowser
<1>4. SessionsMade'
  BY DEF Answers, Flows, SessionsMade
<1>5. ReturningFinds'
  BY DEF Flows, ReturningFinds
<1>6. CookieIsLive'
  BY DEF browser, CookieIsLive
<1>7. LogoutHolds'
  BY DEF Flows, LogoutHolds
<1>8. QED BY <1>1, <1>2, <1>3, <1>4, <1>5, <1>6, <1>7

\* The upsert binds an account once; an attempt that found a user keeps it.
LEMMA BindIdentityKeeps ==
  ASSUME IInv, NEW a \in Attempts, BindIdentity(a)
  PROVE  IInv'
<1> USE DEF IInv, TypeOK, BindIdentity, UpsertIdentity, Move
<1>1. TypeOK'
  BY DEF browser, Steps, Handling, Answers, Flows
<1>2. RowsRefer'
  BY DEF Flows, RowsRefer
<1>3. OneBrowser'
  BY DEF browser, Handling, Flows, OneBrowser
<1>4. SessionsMade'
  BY DEF Answers, Flows, SessionsMade
<1>5. ReturningFinds'
  BY DEF Flows, ReturningFinds
<1>6. CookieIsLive'
  BY DEF browser, CookieIsLive
<1>7. LogoutHolds'
  BY DEF Flows, LogoutHolds
<1>8. QED BY <1>1, <1>2, <1>3, <1>4, <1>5, <1>6, <1>7

\* Only a session that was answered can be presented and deleted.
LEMMA LogoutKeeps ==
  ASSUME IInv, NEW a \in Attempts, Logout(a)
  PROVE  IInv'
<1> USE DEF IInv, TypeOK, Logout, Move
<1>1. TypeOK'
  BY DEF browser, Steps, Handling, Flows
<1>2. RowsRefer'
  BY DEF RowsRefer
<1>3. OneBrowser'
  BY DEF browser, Handling, OneBrowser
<1>4. SessionsMade'
  BY DEF Answers, OneBrowser, SessionsMade
<1>5. ReturningFinds'
  BY DEF ReturningFinds
<1>6. CookieIsLive'
  BY DEF browser, CookieIsLive
<1>7. LogoutHolds'
  BY DEF DbFails, Flows, LogoutHolds
<1>8. QED BY <1>1, <1>2, <1>3, <1>4, <1>5, <1>6, <1>7

\* The new session is one nobody has been given yet.
LEMMA NewSessionKeeps ==
  ASSUME IInv, NEW a \in Attempts, NewSession(a)
  PROVE  IInv'
<1> USE DEF IInv, TypeOK, NewSession, Move
<1>1. TypeOK'
  BY DEF browser, Steps, Answers, Flows
<1>2. RowsRefer'
  BY DEF Flows, RowsRefer
<1>3. OneBrowser'
  BY DEF browser, Handling, Flows, OneBrowser
<1>4. SessionsMade'
  BY NoOneAssumption DEF Answers, Flows, RowsRefer, SessionsMade
<1>5. ReturningFinds'
  BY DEF Flows, ReturningFinds
<1>6. CookieIsLive'
  BY DEF browser, Flows, OneBrowser, CookieIsLive
<1>7. LogoutHolds'
  BY DEF Flows, OneBrowser, LogoutHolds
<1>8. QED BY <1>1, <1>2, <1>3, <1>4, <1>5, <1>6, <1>7

\* The answer replaces the cookie the attempt presented.
LEMMA DeliverKeeps ==
  ASSUME IInv, NEW a \in Attempts, Deliver(a)
  PROVE  IInv'
<1> USE DEF IInv, TypeOK, Deliver, CookieAfter, Outcome
<1>1. TypeOK'
  BY DEF db, Steps, Answers, Flows, OneBrowser
<1>2. RowsRefer'
  BY DEF db, RowsRefer
<1>3. OneBrowser'
  BY DEF Answers, OneBrowser
<1>4. SessionsMade'
  BY DEF db, SessionsMade
<1>5. ReturningFinds'
  BY DEF db, ReturningFinds
<1>6. CookieIsLive'
  BY DEF db, Answers, OneBrowser, SessionsMade, CookieIsLive
<1>7. LogoutHolds'
  BY DEF db, LogoutHolds
<1>8. QED BY <1>1, <1>2, <1>3, <1>4, <1>5, <1>6, <1>7

\* A lost answer changes no cookie.
LEMMA LoseResponseKeeps ==
  ASSUME IInv, NEW a \in Attempts, LoseResponse(a)
  PROVE  IInv'
<1> USE DEF IInv, TypeOK, LoseResponse
<1>1. TypeOK'
  BY DEF db, browser, Steps, Flows
<1>2. RowsRefer'
  BY DEF db, RowsRefer
<1>3. OneBrowser'
  BY DEF browser, Answers, OneBrowser
<1>4. SessionsMade'
  BY DEF db, SessionsMade
<1>5. ReturningFinds'
  BY DEF db, ReturningFinds
<1>6. CookieIsLive'
  BY DEF CookieIsLive
<1>7. LogoutHolds'
  BY DEF LogoutHolds
<1>8. QED BY <1>1, <1>2, <1>3, <1>4, <1>5, <1>6, <1>7

\* Every step keeps the inductive invariant.
LEMMA IInvStep == IInv /\ [Next]_vars => IInv'
<1> SUFFICES ASSUME IInv, [Next]_vars PROVE IInv'
  OBVIOUS
<1>1. ASSUME NEW a \in Attempts, NEW b \in Browsers, Login(a, b) PROVE IInv'
  BY <1>1, LoginKeeps
<1>2. ASSUME NEW a \in Attempts, NEW b \in Browsers, NEW acc \in Accounts,
             CallbackArrives(a, b, acc)
      PROVE  IInv'
  BY <1>2, CallbackArrivesKeeps
<1>3. ASSUME NEW a \in Attempts, Callback(a) PROVE IInv'
  BY <1>3, IdentifyKeeps, CreateUserKeeps, BindIdentityKeeps, LogoutKeeps,
     NewSessionKeeps, DeliverKeeps, LoseResponseKeeps DEF Callback
<1>4. ASSUME NEW b \in Browsers, StateExpires(b) PROVE IInv'
  BY <1>4, StateExpiresKeeps
<1>5. CASE UNCHANGED vars
  BY <1>5 DEF vars, IInv, TypeOK, Flows, RowsRefer, OneBrowser, SessionsMade,
              ReturningFinds, CookieIsLive, LogoutHolds
<1>6. QED BY <1>1, <1>2, <1>3, <1>4, <1>5 DEF Next

\* The inductive invariant holds in every reachable state.
THEOREM SignInInvariance == Spec => []IInv
  BY IInvInit, IInvStep, PTL DEF Spec

\* A sign-in that began when its account had a user ends as that user.
THEOREM ReturningUser == Spec => []ReturningUserIsSame
<1>1. IInv => ReturningUserIsSame
  BY DEF IInv, SessionsMade, ReturningFinds, ReturningUserIsSame, TypeOK
<1>2. QED BY <1>1, SignInInvariance, PTL

\* A browser is signed in by a round trip of its own.
THEOREM HomeCookies == Spec => []CookieFromHome
<1>1. IInv => CookieFromHome
  BY DEF IInv, TypeOK, OneBrowser, CookieFromHome
<1>2. QED BY <1>1, SignInInvariance, PTL

\* A browser is not left with a deleted session.
THEOREM LiveCookies == Spec => []CookieIsLive
  BY SignInInvariance, PTL DEF IInv

\* The session a sign-in was presented with is gone when it succeeds.
THEOREM ReplacedSessions == Spec => []SignInReplacesSession
<1>1. IInv => SignInReplacesSession
  BY DEF IInv, LogoutHolds, SignInReplacesSession
<1>2. QED BY <1>1, SignInInvariance, PTL

\* A step binds only an account that has no user.
LEMMA BoundStep ==
  IInv /\ [Next]_vars =>
    \A acc \in Accounts :
      identity[acc] # NoOne => identity'[acc] = identity[acc]
<1> SUFFICES ASSUME IInv, [Next]_vars,
                    NEW acc \in Accounts, identity[acc] # NoOne
             PROVE  identity'[acc] = identity[acc]
  OBVIOUS
<1>1. ASSUME NEW a \in Attempts, BindIdentity(a)
      PROVE  identity'[acc] = identity[acc]
  BY <1>1 DEF BindIdentity, UpsertIdentity, IInv, TypeOK
<1>2. CASE UNCHANGED identity
  BY <1>2
<1>3. ASSUME NEW a \in Attempts, NEW b \in Browsers,
             \/ Login(a, b)
             \/ \E x \in Accounts : CallbackArrives(a, b, x)
      PROVE  UNCHANGED identity
  BY <1>3 DEF Login, CallbackArrives, db
<1>4. ASSUME NEW b \in Browsers, StateExpires(b) PROVE UNCHANGED identity
  BY <1>4 DEF StateExpires, db
<1>5. ASSUME NEW a \in Attempts,
             Identify(a) \/ CreateUser(a) \/ Logout(a) \/ NewSession(a)
      PROVE  UNCHANGED identity
  BY <1>5 DEF Identify, CreateUser, Logout, NewSession, db
<1>6. ASSUME NEW a \in Attempts, Deliver(a) \/ LoseResponse(a)
      PROVE  UNCHANGED identity
  BY <1>6 DEF Deliver, LoseResponse, db
<1>7. CASE UNCHANGED vars
  BY <1>7 DEF vars
<1>8. QED
  BY <1>1, <1>2, <1>3, <1>4, <1>5, <1>6, <1>7 DEF Next, Callback

\* The user an account is bound to is bound for good.
THEOREM BoundForGood == Spec => AccountKeepsUser
<1>1. IInv /\ [Next]_vars =>
        [\A acc \in Accounts :
           identity[acc] # NoOne => identity'[acc] = identity[acc]]_vars
  BY BoundStep
<1>2. QED BY <1>1, SignInInvariance, PTL DEF Spec, AccountKeepsUser

=============================================================================
