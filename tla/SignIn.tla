-------------------------------- MODULE SignIn --------------------------------
(***************************************************************************)
(* Signing in with GitHub (core/adapter/http/auth): the OAuth round trip,  *)
(* the state cookie that ties its two halves together, the account's       *)
(* identity, the user it creates and the session it ends with.             *)
(*                                                                         *)
(* A step is one database call, or one response as it reaches the browser, *)
(* with the code around it.  An attempt is one round trip: a request for   *)
(* /login and the callback GitHub redirects to.  Ids are fresh, so the     *)
(* state, the user and the session an attempt makes are all named for it.  *)
(***************************************************************************)
EXTENDS FiniteSets

CONSTANTS
  Attempts,
  Browsers,
  Accounts,  \* GitHub accounts
  NoOne,     \* no id: nothing found, no cookie
  Faults     \* a subset of AllFaults: the calls that may fail

\* Database calls, calls of GitHub, and clients that go away: their requests'
\* calls may fail, and the responses are lost.
AllFaults == {"db", "github", "disconnect"}

ASSUME NoOneAssumption == NoOne \notin Attempts \cup Browsers \cup Accounts
ASSUME FaultsAssumption == Faults \subseteq AllFaults

VARIABLES
  users,        \* users with a row
  identity,     \* the user each account is bound to
  sessions,     \* the user of each session
  stateCookie,  \* the state each browser holds
  cookie,       \* the session each browser holds
  flow,         \* where each attempt is, and what it knows
  faulty,       \* the kinds of call that fail now and then in this behaviour
  returning     \* history: attempts whose callback found the account bound

db == <<users, identity, sessions>>
browser == <<stateCookie, cookie>>
vars == <<users, identity, sessions, stateCookie, cookie, flow, faulty,
          returning>>

\* The callback's handler is between identify and session; then it has an
\* answer, which is delivered or lost.
Handling == {"identify", "create", "bind", "logout", "session"}
Answers == {"welcome", "refused", "error"}
Steps ==
  {"idle", "atGitHub", "signedIn", "failed", "lost"} \cup Handling \cup Answers

Flows == [pc : Steps,
          home : Browsers \cup {NoOne},    \* the browser that asked for /login
          tab : Browsers \cup {NoOne},     \* the browser the callback came from
          account : Accounts \cup {NoOne},
          sent : Attempts \cup {NoOne},    \* the session cookie it came with
          uid : Attempts \cup {NoOne}]

TypeOK ==
  /\ users \subseteq Attempts
  /\ identity \in [Accounts -> Attempts \cup {NoOne}]
  /\ sessions \in [Attempts -> Attempts \cup {NoOne}]
  /\ stateCookie \in [Browsers -> Attempts \cup {NoOne}]
  /\ cookie \in [Browsers -> Attempts \cup {NoOne}]
  /\ flow \in [Attempts -> Flows]
  /\ faulty \subseteq Faults
  /\ returning \subseteq Attempts

Init ==
  /\ users = {}
  /\ identity = [acc \in Accounts |-> NoOne]
  /\ sessions = [a \in Attempts |-> NoOne]
  /\ stateCookie = [b \in Browsers |-> NoOne]
  /\ cookie = [b \in Browsers |-> NoOne]
  /\ flow = [a \in Attempts |->
       [pc |-> "idle", home |-> NoOne, tab |-> NoOne, account |-> NoOne,
        sent |-> NoOne, uid |-> NoOne]]
  /\ faulty \in SUBSET Faults
  /\ returning = {}

\* Calls made with the request's context.
DbFails == faulty \cap {"db", "disconnect"} # {}
GitHubFails == faulty \cap {"github", "disconnect"} # {}

\* The attempt goes from one step to another and may learn its user.
Move(a, from, to) ==
  /\ flow[a].pc = from
  /\ flow' = [flow EXCEPT ![a].pc = to]

Learn(a, from, to, uid) ==
  /\ flow[a].pc = from
  /\ flow' = [flow EXCEPT ![a].pc = to, ![a].uid = uid]

------------------------------------------------------------------------------
(* OAuth.Login. *)

\* A browser that already has a state cookie gets a new one.
Login(a, b) ==
  /\ flow[a].pc = "idle"
  /\ flow' = [flow EXCEPT ![a].pc = "atGitHub", ![a].home = b]
  /\ stateCookie' = [stateCookie EXCEPT ![b] = a]
  /\ UNCHANGED <<db, cookie, faulty, returning>>

\* The state cookie lives for ten minutes.
StateExpires(b) ==
  /\ stateCookie' = [stateCookie EXCEPT ![b] = NoOne]
  /\ UNCHANGED <<db, cookie, flow, faulty, returning>>

------------------------------------------------------------------------------
(* OAuth.Callback. *)

Bound(acc) == identity[acc] # NoOne

\* Mutant: the state is not compared with the cookie.
BugStateMatches(a, b) == TRUE

StateMatches(a, b) == stateCookie[b] = a

\* The redirect comes back, usually in the browser that asked for it; with
\* another state than its cookie's it is turned away.
CallbackArrives(a, b, acc) ==
  /\ flow[a].pc = "atGitHub"
  /\ IF StateMatches(a, b)
       THEN /\ flow' = [flow EXCEPT ![a].pc = "identify", ![a].tab = b,
                                    ![a].account = acc, ![a].sent = cookie[b]]
            /\ returning' =
                 IF Bound(acc) THEN returning \cup {a} ELSE returning
       ELSE /\ flow' = [flow EXCEPT ![a].pc = "failed"]
            /\ UNCHANGED returning
  /\ UNCHANGED <<db, browser, faulty>>

\* Mutant: any error of the lookup counts as a missing identity.
BugIdentify(a) ==
  LET acc == flow[a].account IN
  /\ flow[a].pc = "identify"
  /\ \/ Bound(acc) /\ Learn(a, "identify", "bind", identity[acc])
     \/ /\ ~Bound(acc) \/ DbFails
        /\ Learn(a, "identify", "create", a)
     \/ GitHubFails /\ Move(a, "identify", "error")
  /\ UNCHANGED <<db, browser, faulty, returning>>

\* The code is exchanged, the account fetched and its identity looked up; a user
\* id is made for an account without one.
Identify(a) ==
  LET acc == flow[a].account IN
  /\ flow[a].pc = "identify"
  /\ \/ Bound(acc) /\ Learn(a, "identify", "bind", identity[acc])
     \/ ~Bound(acc) /\ Learn(a, "identify", "create", a)
     \/ /\ DbFails \/ GitHubFails
        /\ Move(a, "identify", "error")
  /\ UNCHANGED <<db, browser, faulty, returning>>

\* Mutant: the error of the upsert is ignored.
BugCreateUser(a) ==
  /\ Move(a, "create", "bind")
  /\ \/ users' = users \cup {a}
     \/ DbFails /\ UNCHANGED users
  /\ UNCHANGED <<identity, sessions, browser, faulty, returning>>

\* A call that fails may or may not have taken effect.
CreateUser(a) ==
  /\ \/ Move(a, "create", "bind") /\ users' = users \cup {a}
     \/ /\ DbFails
        /\ Move(a, "create", "error")
        /\ users' \in {users, users \cup {a}}
  /\ UNCHANGED <<identity, sessions, browser, faulty, returning>>

\* Mutant: the conflict clause sets the user as well.
BugUpsertIdentity(acc, uid) == identity' = [identity EXCEPT ![acc] = uid]

\* On a conflict of the account only its login and email are written.
UpsertIdentity(acc, uid) ==
  identity' = [identity EXCEPT ![acc] = IF @ = NoOne THEN uid ELSE @]

BindIdentity(a) ==
  /\ \/ /\ Move(a, "bind", "logout")
        /\ UpsertIdentity(flow[a].account, flow[a].uid)
     \/ /\ DbFails
        /\ Move(a, "bind", "error")
        /\ \/ UpsertIdentity(flow[a].account, flow[a].uid)
           \/ UNCHANGED identity
  /\ UNCHANGED <<users, sessions, browser, faulty, returning>>

\* Mutant: the session of a user that signs in again is kept.
BugLogout(a) ==
  /\ Move(a, "logout", "session")
  /\ IF flow[a].sent # NoOne /\ sessions[flow[a].sent] # flow[a].uid
       THEN sessions' = [sessions EXCEPT ![flow[a].sent] = NoOne]
       ELSE UNCHANGED sessions
  /\ UNCHANGED <<users, identity, browser, faulty, returning>>

\* The session the request came with is deleted; an error is ignored.
Logout(a) ==
  /\ Move(a, "logout", "session")
  /\ \/ /\ flow[a].sent # NoOne
        /\ sessions' = [sessions EXCEPT ![flow[a].sent] = NoOne]
     \/ /\ flow[a].sent = NoOne \/ DbFails
        /\ UNCHANGED sessions
  /\ UNCHANGED <<users, identity, browser, faulty, returning>>

NewSession(a) ==
  /\ \/ /\ Move(a, "session", "welcome")
        /\ sessions' = [sessions EXCEPT ![a] = flow[a].uid]
     \/ /\ DbFails
        /\ Move(a, "session", "refused")
        /\ sessions' \in {sessions, [sessions EXCEPT ![a] = flow[a].uid]}
  /\ UNCHANGED <<users, identity, browser, faulty, returning>>

------------------------------------------------------------------------------
(* Responses. *)

\* The session cookie a response leaves behind: the new one, or none once the
\* old one is logged out; on an early error it is left alone.
CookieAfter(a) ==
  CASE flow[a].pc = "welcome" -> a
    [] flow[a].pc = "refused" -> NoOne
    [] flow[a].pc = "error" -> cookie[flow[a].tab]

Outcome(answer) == IF answer = "welcome" THEN "signedIn" ELSE "failed"

\* Mutant: a failed sign-in leaves the session cookie alone.
BugDeliver(a) ==
  LET b == flow[a].tab IN
  /\ flow[a].pc \in Answers
  /\ flow' = [flow EXCEPT ![a].pc = Outcome(@)]
  /\ cookie' =
       [cookie EXCEPT ![b] = IF flow[a].pc = "welcome" THEN a ELSE @]
  /\ stateCookie' = [stateCookie EXCEPT ![b] = NoOne]
  /\ UNCHANGED <<db, faulty, returning>>

\* Whatever the outcome, the state cookie is cleared, also when another tab has
\* set it again.
Deliver(a) ==
  LET b == flow[a].tab IN
  /\ flow[a].pc \in Answers
  /\ flow' = [flow EXCEPT ![a].pc = Outcome(@)]
  /\ cookie' = [cookie EXCEPT ![b] = CookieAfter(a)]
  /\ stateCookie' = [stateCookie EXCEPT ![b] = NoOne]
  /\ UNCHANGED <<db, faulty, returning>>

\* The browser has gone away.
LoseResponse(a) ==
  /\ "disconnect" \in faulty
  /\ flow[a].pc \in Answers
  /\ flow' = [flow EXCEPT ![a].pc = "lost"]
  /\ UNCHANGED <<db, browser, faulty, returning>>

------------------------------------------------------------------------------

Callback(a) ==
  \/ Identify(a)
  \/ CreateUser(a)
  \/ BindIdentity(a)
  \/ Logout(a)
  \/ NewSession(a)
  \/ Deliver(a)
  \/ LoseResponse(a)

Next ==
  \/ \E a \in Attempts :
       \/ \E b \in Browsers : Login(a, b)
       \/ \E b \in Browsers, acc \in Accounts : CallbackArrives(a, b, acc)
       \/ Callback(a)
  \/ \E b \in Browsers : StateExpires(b)

Spec == Init /\ [][Next]_vars

------------------------------------------------------------------------------
(* Safety. *)

\* However many sign-ins of an account run at once, the user it is bound to is
\* bound for good.
AccountKeepsUser ==
  [][\A acc \in Accounts :
       identity[acc] # NoOne => identity'[acc] = identity[acc]]_vars

\* A sign-in that began when its account had a user ends with a session of that
\* user, whatever first sign-ins were still under way.  Only sign-ins that found
\* no user may end with a session of one of their own.
ReturningUserIsSame ==
  \A a \in Attempts :
    a \in returning /\ sessions[a] # NoOne =>
      sessions[a] = identity[flow[a].account]

\* A browser is signed in by a round trip it began itself, even if a callback
\* is opened in another browser or the browser has several tabs signing in.
CookieFromHome ==
  \A b \in Browsers : cookie[b] # NoOne => flow[cookie[b]].home = b

\* If responses arrive, a browser holds a deleted session only until the answer
\* to the sign-in that deleted it, also when creating the new one fails.
CookieIsLive ==
  "disconnect" \notin faulty =>
    \A b \in Browsers :
      cookie[b] # NoOne /\ sessions[cookie[b]] = NoOne =>
        \E a \in Attempts :
          /\ flow[a].sent = cookie[b]
          /\ flow[a].pc \in {"session", "welcome", "refused"}

\* If the database answers, a session that was presented to a sign-in that
\* succeeded never resolves again.
SignInReplacesSession ==
  faulty \cap {"db", "disconnect"} = {} =>
    \A a \in Attempts :
      flow[a].pc \in {"welcome", "signedIn"} /\ flow[a].sent # NoOne =>
        sessions[flow[a].sent] = NoOne

------------------------------------------------------------------------------
(* The inductive strengthening of the safety properties. *)

\* Foreign keys: no write of an identity or a session is refused for want of its
\* user.
RowsRefer ==
  /\ \A acc \in Accounts : identity[acc] # NoOne => identity[acc] \in users
  /\ \A a \in Attempts :
       /\ sessions[a] # NoOne => sessions[a] \in users
       /\ flow[a].pc \in {"bind", "logout", "session", "welcome"} =>
            flow[a].uid \in users

\* A handler works for the browser that began the attempt; cookies are those of
\* attempts that ended with one, in their own browser.
OneBrowser ==
  /\ \A a \in Attempts :
       /\ flow[a].pc \in Handling \cup Answers \cup {"signedIn"} =>
            /\ flow[a].tab \in Browsers
            /\ flow[a].tab = flow[a].home
            /\ flow[a].account \in Accounts
       /\ flow[a].pc \in {"idle", "atGitHub", "identify"} => flow[a].uid = NoOne
       /\ flow[a].pc = "create" => flow[a].uid = a
       /\ flow[a].sent # NoOne =>
            /\ flow[flow[a].sent].pc = "signedIn"
            /\ flow[flow[a].sent].tab = flow[a].tab
            /\ flow[a].pc \notin {"idle", "atGitHub"}
  /\ \A b \in Browsers :
       /\ stateCookie[b] # NoOne =>
            /\ flow[stateCookie[b]].home = b
            /\ flow[stateCookie[b]].pc # "idle"
       /\ cookie[b] # NoOne =>
            /\ flow[cookie[b]].pc = "signedIn"
            /\ flow[cookie[b]].tab = b

\* A session is of the user its attempt found or made.
SessionsMade ==
  \A a \in Attempts :
    /\ sessions[a] # NoOne =>
         /\ flow[a].pc \in Answers \cup {"signedIn", "failed", "lost"}
         /\ sessions[a] = flow[a].uid
    /\ flow[a].pc = "welcome" => sessions[a] # NoOne

\* What a returning attempt finds is what its account is bound to.
ReturningFinds ==
  \A a \in returning :
    /\ flow[a].account \in Accounts
    /\ flow[a].pc \notin {"idle", "atGitHub"}
    /\ identity[flow[a].account] # NoOne
    /\ flow[a].uid \in {NoOne, identity[flow[a].account]}

\* SignInReplacesSession from the moment of the logout.
LogoutHolds ==
  faulty \cap {"db", "disconnect"} = {} =>
    \A a \in Attempts :
      flow[a].sent # NoOne =>
        \/ flow[a].pc \notin {"session", "welcome", "signedIn"}
        \/ sessions[flow[a].sent] = NoOne

IInv ==
  /\ TypeOK
  /\ RowsRefer
  /\ OneBrowser
  /\ SessionsMade
  /\ ReturningFinds
  /\ CookieIsLive
  /\ LogoutHolds

=============================================================================
