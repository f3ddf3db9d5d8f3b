----------------------------- MODULE Installations -----------------------------
(***************************************************************************)
(* GitHub App installations (core/adapter/ghapp, installations_repo.go):   *)
(* the callback that records an installation and the repositories GitHub   *)
(* lists for it, the webhook that removes it, and the lookup that mints a  *)
(* token for a repository.                                                 *)
(*                                                                         *)
(* The callback, the deliveries and the lookups are requests of their own  *)
(* and meet in the table of installations.  GitHub's own state changes     *)
(* beneath them.  A step is one database call or one call of GitHub, with  *)
(* the code around it.                                                     *)
(***************************************************************************)
EXTENDS Naturals, FiniteSets

CONSTANTS
  Installs,   \* installation ids
  Users,
  Repos,
  NoOne,      \* no user, no installation, no repository
  Callbacks,  \* bound: install callbacks at a time
  Handlers,   \* bound: deliveries handled at a time
  Lookups,    \* bound: lookups; each is made once
  PageSize,   \* repositories GitHub lists in its first page
  Faults      \* a subset of AllFaults: the calls that may fail

\* Database calls, calls of GitHub, and clients that go away.
AllFaults == {"db", "github", "disconnect"}

ASSUME NoOneAssumption == NoOne \notin Installs \cup Users \cup Repos
ASSUME ReposAssumption == IsFiniteSet(Repos)
ASSUME PageSizeAssumption == PageSize \in Nat \ {0}
ASSUME FaultsAssumption == Faults \subseteq AllFaults

VARIABLES
  github,   \* what each installation is at GitHub
  grants,   \* the repositories each installation has at GitHub
  changed,  \* history: installations whose repositories were changed
  row,      \* the table of installations
  seen,     \* deliveries remembered, in memory
  handling, \* the deletion each handler is about to carry out
  call,     \* the install callbacks in progress
  look,     \* the lookups
  faulty,   \* the kinds of call that fail now and then in this behaviour
  writers,  \* history: users whose callbacks wrote each row
  removed,  \* history: installations removed with no callback about to write
  overtaken \* history: installations removed with a callback about to write

hub == <<github, grants, changed>>
memory == <<seen, handling, call>>
history == <<writers, removed, overtaken>>
vars == <<github, grants, changed, row, seen, handling, call, look, faulty,
          writers, removed, overtaken>>

\* A delivery of the event "installation" has one of several actions.
Deliveries == Installs \X {"created", "deleted"}

Rows == [user : Users \cup {NoOne}, repos : SUBSET Repos]
NoRow == [user |-> NoOne, repos |-> {}]

Calls == [pc : {"idle", "token", "list", "upsert"},
          user : Users \cup {NoOne},
          inst : Installs \cup {NoOne},
          repos : SUBSET Repos]
NoCall == [pc |-> "idle", user |-> NoOne, inst |-> NoOne, repos |-> {}]

Looks == [pc : {"idle", "token", "granted", "notFound", "error"},
          user : Users \cup {NoOne},
          repo : Repos \cup {NoOne},
          inst : Installs \cup {NoOne}]
NoLook == [pc |-> "idle", user |-> NoOne, repo |-> NoOne, inst |-> NoOne]

TypeOK ==
  /\ github \in [Installs -> {"none", "live", "gone"}]
  /\ grants \in [Installs -> SUBSET Repos]
  /\ changed \subseteq Installs
  /\ row \in [Installs -> Rows]
  /\ seen \subseteq Deliveries
  /\ handling \in [Handlers -> Installs \cup {NoOne}]
  /\ call \in [Callbacks -> Calls]
  /\ look \in [Lookups -> Looks]
  /\ faulty \subseteq Faults
  /\ writers \in [Installs -> SUBSET Users]
  /\ removed \subseteq Installs
  /\ overtaken \subseteq Installs

Init ==
  /\ github = [i \in Installs |-> "none"]
  /\ grants = [i \in Installs |-> {}]
  /\ changed = {}
  /\ row = [i \in Installs |-> NoRow]
  /\ seen = {}
  /\ handling = [h \in Handlers |-> NoOne]
  /\ call = [k \in Callbacks |-> NoCall]
  /\ look = [f \in Lookups |-> NoLook]
  /\ faulty \in SUBSET Faults
  /\ writers = [i \in Installs |-> {}]
  /\ removed = {}
  /\ overtaken = {}

\* Calls made with a request's context.
DbFails == faulty \cap {"db", "disconnect"} # {}
GitHubFails == faulty \cap {"github", "disconnect"} # {}

------------------------------------------------------------------------------
(* GitHub. *)

Install(i, R) ==
  /\ github[i] = "none"
  /\ github' = [github EXCEPT ![i] = "live"]
  /\ grants' = [grants EXCEPT ![i] = R]
  /\ UNCHANGED <<changed, row, memory, look, faulty, history>>

\* The account gives the installation other repositories; the code handles no
\* delivery about that.
Regrant(i, R) ==
  /\ github[i] = "live"
  /\ R # grants[i]
  /\ grants' = [grants EXCEPT ![i] = R]
  /\ changed' = changed \cup {i}
  /\ UNCHANGED <<github, row, memory, look, faulty, history>>

\* Tokens of the installation are void from now on.
Uninstall(i) ==
  /\ github[i] = "live"
  /\ github' = [github EXCEPT ![i] = "gone"]
  /\ UNCHANGED <<grants, changed, row, memory, look, faulty, history>>

\* Mutant: an error answer of GitHub is taken for an empty list.
BugListed(i) == {{}, grants[i]}

\* The first page of an installation's repositories.
Listed(i) ==
  {R \in SUBSET grants[i] :
     R = grants[i] \/ (Cardinality(R) = PageSize /\ Cardinality(grants[i]) > PageSize)}

------------------------------------------------------------------------------
(* InstallHandler.Callback. *)

\* A signed-in user comes back from GitHub; a request without a session or an
\* installation id ends at once.
CallbackStart(k, u, i) ==
  /\ call[k].pc = "idle"
  /\ github[i] # "none"
  /\ call' = [call EXCEPT ![k] = [pc |-> "token", user |-> u, inst |-> i, repos |-> {}]]
  /\ UNCHANGED <<hub, row, seen, handling, look, faulty, history>>

\* The request ends with an error.
CallbackFails(k) ==
  /\ call' = [call EXCEPT ![k] = NoCall]
  /\ UNCHANGED <<hub, row, seen, handling, look, faulty, history>>

\* AppClient.InstallationToken: GitHub mints tokens for live installations.
TokenMinted(i) == github[i] = "live"

CallbackToken(k) ==
  /\ call[k].pc = "token"
  /\ \/ /\ TokenMinted(call[k].inst)
        /\ call' = [call EXCEPT ![k].pc = "list"]
        /\ UNCHANGED <<hub, row, seen, handling, look, faulty, history>>
     \/ ~TokenMinted(call[k].inst) /\ CallbackFails(k)
     \/ GitHubFails /\ CallbackFails(k)

\* Mutant: a void token's answer is not noticed.
BugCallbackList(k) ==
  /\ call[k].pc = "list"
  /\ \E R \in Listed(call[k].inst) :
       call' = [call EXCEPT ![k].pc = "upsert", ![k].repos = R]
  /\ UNCHANGED <<hub, row, seen, handling, look, faulty, history>>

\* fetchAccountAndRepos: an answer other than 200 is an error.
CallbackList(k) ==
  /\ call[k].pc = "list"
  /\ \/ /\ github[call[k].inst] = "live"
        /\ \E R \in Listed(call[k].inst) :
             call' = [call EXCEPT ![k].pc = "upsert", ![k].repos = R]
        /\ UNCHANGED <<hub, row, seen, handling, look, faulty, history>>
     \/ github[call[k].inst] # "live" /\ CallbackFails(k)
     \/ GitHubFails /\ CallbackFails(k)

\* InstallationsRepo.Upsert: a row that is there is given the user and the
\* repositories of the callback.
Upsert(i, u, R) ==
  /\ row' = [row EXCEPT ![i] = [user |-> u, repos |-> R]]
  /\ writers' = [writers EXCEPT ![i] = @ \cup {u}]

\* An Upsert that fails may or may not have taken effect.
CallbackUpsert(k) ==
  /\ call[k].pc = "upsert"
  /\ \/ Upsert(call[k].inst, call[k].user, call[k].repos)
     \/ DbFails /\ UNCHANGED <<row, writers>>
  /\ call' = [call EXCEPT ![k] = NoCall]
  /\ UNCHANGED <<hub, seen, handling, look, faulty, removed, overtaken>>

------------------------------------------------------------------------------
(* WebhookHandler.Handle. *)

\* GitHub tells of what has happened, and may tell it again.
Sent(d) ==
  \/ d[2] = "created" /\ github[d[1]] # "none"
  \/ d[2] = "deleted" /\ github[d[1]] = "gone"

\* Mutant: the action is not looked at.
BugActedOn(d) == TRUE

ActedOn(d) == d[2] = "deleted"

\* alreadyDelivered, under the handler's lock.  A delivery without an id is never
\* taken for a replay, nor remembered.
AlreadyDelivered(d, named) == named /\ d \in seen

\* One that was delivered already is answered without being looked at.
Receive(h, d, named) ==
  /\ handling[h] = NoOne
  /\ Sent(d)
  /\ ~AlreadyDelivered(d, named)
  /\ seen' = IF named THEN seen \cup {d} ELSE seen
  /\ handling' = IF ActedOn(d) THEN [handling EXCEPT ![h] = d[1]] ELSE handling
  /\ UNCHANGED <<hub, row, call, look, faulty, history>>

AboutToWrite(i) == \E k \in Callbacks : call[k].pc = "upsert" /\ call[k].inst = i

\* InstallationsRepo.Delete, whose error is ignored: the delivery has been
\* answered, and one that failed may or may not have taken effect.
Delete(h) ==
  LET i == handling[h] IN
  /\ i # NoOne
  /\ \/ /\ row' = [row EXCEPT ![i] = NoRow]
        /\ removed' = IF AboutToWrite(i) THEN removed ELSE removed \cup {i}
        /\ overtaken' = IF AboutToWrite(i) THEN overtaken \cup {i} ELSE overtaken
     \/ DbFails /\ UNCHANGED <<row, removed, overtaken>>
  /\ handling' = [handling EXCEPT ![h] = NoOne]
  /\ UNCHANGED <<hub, seen, call, look, faulty, writers>>

\* Ten minutes after a delivery its id no longer counts.
Expire(d) ==
  /\ d \in seen
  /\ seen' = seen \ {d}
  /\ UNCHANGED <<hub, row, handling, call, look, faulty, history>>

------------------------------------------------------------------------------
(* RepoCredsProvider.For, on behalf of an enqueue request. *)

\* Mutant: the rows of other users are looked at too.
BugCovers(i, u, r) ==
  row[i].user # NoOne /\ (row[i].repos = {} \/ r \in row[i].repos)

\* A row without repositories stands for all of them.
Covers(i, u, r) ==
  row[i].user = u /\ (row[i].repos = {} \/ r \in row[i].repos)

\* InstallationsRepo.ByUserAndRepo: the first row that covers the repository,
\* in whatever order the database returns them.
Lookup(f, u, r) ==
  /\ look[f].pc = "idle"
  /\ \/ \E i \in Installs :
          /\ Covers(i, u, r)
          /\ look' = [look EXCEPT ![f] =
               [pc |-> "token", user |-> u, repo |-> r, inst |-> i]]
     \/ /\ \A i \in Installs : ~Covers(i, u, r)
        /\ look' = [look EXCEPT ![f] =
             [pc |-> "notFound", user |-> u, repo |-> r, inst |-> NoOne]]
     \/ /\ DbFails
        /\ look' = [look EXCEPT ![f] =
             [pc |-> "error", user |-> u, repo |-> r, inst |-> NoOne]]
  /\ UNCHANGED <<hub, row, memory, faulty, history>>

LookupToken(f) ==
  /\ look[f].pc = "token"
  /\ \/ TokenMinted(look[f].inst) /\ look' = [look EXCEPT ![f].pc = "granted"]
     \/ /\ ~TokenMinted(look[f].inst) \/ GitHubFails
        /\ look' = [look EXCEPT ![f].pc = "error"]
  /\ UNCHANGED <<hub, row, memory, faulty, history>>

------------------------------------------------------------------------------
(* The process. *)

\* Mutant: the ids outlive the process.
BugForgotten == UNCHANGED seen

Forgotten == seen' = {}

\* What the process remembered and was doing is gone.
Restart ==
  /\ Forgotten
  /\ handling' = [h \in Handlers |-> NoOne]
  /\ call' = [k \in Callbacks |-> NoCall]
  /\ look' = [f \in Lookups |->
       IF look[f].pc = "token" THEN [look[f] EXCEPT !.pc = "error"] ELSE look[f]]
  /\ UNCHANGED <<hub, row, faulty, history>>

Next ==
  \/ \E i \in Installs :
       \/ \E R \in SUBSET Repos : Install(i, R) \/ Regrant(i, R)
       \/ Uninstall(i)
       \/ \E k \in Callbacks, u \in Users : CallbackStart(k, u, i)
  \/ \E k \in Callbacks : CallbackToken(k) \/ CallbackList(k) \/ CallbackUpsert(k)
  \/ \E h \in Handlers :
       Delete(h) \/ \E d \in Deliveries, named \in BOOLEAN : Receive(h, d, named)
  \/ \E d \in Deliveries : Expire(d)
  \/ \E f \in Lookups :
       LookupToken(f) \/ \E u \in Users, r \in Repos : Lookup(f, u, r)
  \/ Restart

Spec == Init /\ [][Next]_vars

------------------------------------------------------------------------------
(* Properties. *)

\* However late and however often deliveries come, the row of an installation
\* that GitHub still has is never removed.
RowsKept ==
  \A i \in Installs : row[i] # NoRow /\ row'[i] = NoRow => github[i] = "gone"

LiveRowStays == [][RowsKept]_vars

\* The id of a delivery is recorded before the delivery is acted on, and a copy
\* is answered by the id alone.  While the database answers, such a copy still
\* misses nothing, across restarts, expiries and deliveries without an id: the
\* row is gone, a handler is about to remove it, or the removal was overtaken by
\* a callback.
DroppedCopiesMissNothing ==
  ~DbFails => \A i \in Installs :
    AlreadyDelivered(<<i, "deleted">>, TRUE) /\ row[i] # NoRow =>
      i \in overtaken \/ \E h \in Handlers : handling[h] = i

\* Once the deletion of an installation has been carried out while no callback
\* was about to write its row, no callback brings the row back, whenever its user
\* came from GitHub.
RemovedStays == \A i \in removed : row[i] = NoRow

\* Unless its repositories were changed at GitHub or GitHub listed none, a row
\* gives tokens for no repository that the installation does not have, however
\* the callback that wrote it went.
GrantedCovers ==
  \A f \in Lookups :
    look[f].pc = "granted" /\ look[f].inst \notin changed /\ grants[look[f].inst] # {} =>
      look[f].repo \in grants[look[f].inst]

\* A job runs with the token of an installation that its own user has recorded,
\* also while another user's callback takes the row over.
TokenForUser ==
  \A f \in Lookups :
    look[f].pc \in {"token", "granted"} => look[f].user \in writers[look[f].inst]

------------------------------------------------------------------------------
(* The inductive strengthening. *)

\* Deletions are handled for installations that are gone, and a remembered one
\* is being handled or has been.
DeletionsAreTrue ==
  /\ \A h \in Handlers : handling[h] # NoOne => github[handling[h]] = "gone"
  /\ ~DbFails => \A i \in Installs :
       <<i, "deleted">> \in seen =>
         i \in removed \cup overtaken \/ \E h \in Handlers : handling[h] = i

\* What a removal can no longer be undone by.
RemovedIsOver ==
  \A i \in removed : github[i] = "gone" /\ row[i] = NoRow /\ ~AboutToWrite(i)

\* A list of unchanged repositories is empty only if there are none.
ListIsPart(R, i) == R \subseteq grants[i] /\ (R = {} => grants[i] = {})

\* Callbacks and rows hold what GitHub listed for the installation.
ListsAgree ==
  /\ \A k \in Callbacks :
       /\ call[k].pc # "idle" =>
            /\ call[k].inst \in Installs /\ call[k].user \in Users
            /\ github[call[k].inst] # "none"
       /\ call[k].pc = "upsert" =>
            call[k].inst \in changed \/ ListIsPart(call[k].repos, call[k].inst)
  /\ \A i \in Installs :
       /\ github[i] = "none" => row[i] = NoRow
       /\ row[i] # NoRow => i \in changed \/ ListIsPart(row[i].repos, i)

\* A lookup's installation was recorded by its user, and has its repository.
LooksAgree ==
  /\ \A i \in Installs : row[i].user # NoOne => row[i].user \in writers[i]
  /\ \A f \in Lookups :
       look[f].pc \in {"token", "granted"} =>
         /\ look[f].inst \in Installs
         /\ github[look[f].inst] # "none"
         /\ look[f].user \in writers[look[f].inst]
         /\ \/ look[f].inst \in changed
            \/ grants[look[f].inst] = {}
            \/ look[f].repo \in grants[look[f].inst]

IInv ==
  /\ TypeOK
  /\ DeletionsAreTrue
  /\ RemovedIsOver
  /\ ListsAgree
  /\ LooksAgree
=============================================================================
