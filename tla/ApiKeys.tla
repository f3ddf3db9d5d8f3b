-------------------------------- MODULE ApiKeys --------------------------------
(***************************************************************************)
(* API keys and credentials: how a request is authenticated (the bearer    *)
(* key first, then the session), and what an authenticated request may do  *)
(* to the keys and to the stored credential of its user.                   *)
(*                                                                         *)
(* Requests run side by side and meet in the tables of keys and of         *)
(* secrets.  A step is one database call with the code around it; an       *)
(* answer is given in the step of the last call.                           *)
(***************************************************************************)
EXTENDS Naturals, FiniteSets

CONSTANTS
  Keys,      \* bound: plaintexts (each with a row id) that are ever minted
  Prefixes,
  PrefixOf,  \* the first eight characters of each plaintext
  Users,
  Values,    \* credentials a user may store
  Masters,   \* master keys the process may be configured with
  Requests,  \* bound: requests at a time
  NoKey, NoOne, NoValue,
  Faults     \* a subset of AllFaults: the calls that may fail

AllFaults == {"db", "disconnect"}

ASSUME PrefixAssumption == PrefixOf \in [Keys -> Prefixes]
ASSUME NoneAssumption == NoKey \notin Keys /\ NoOne \notin Users /\ NoValue \notin Values
ASSUME FaultsAssumption == Faults \subseteq AllFaults

VARIABLES
  keys,     \* the table api_keys
  secrets,  \* the table user_secrets
  master,   \* the master key of the running process
  req,      \* the requests in progress
  faulty,   \* the kinds of call that fail now and then in this behaviour
  minter,   \* history: the user each key was minted for
  shown,    \* history: keys whose plaintext was given to the user
  revoked,  \* history: keys whose revocation was answered with success
  latest    \* history: the credential of each user's last call that took effect

history == <<minter, shown, revoked, latest>>
vars == <<keys, secrets, master, req, faulty, history>>

\* What bcrypt makes of a plaintext.
Digests == {"bcrypt"} \X Keys

\* Mutant: the plaintext is stored as it is.
BugDigest(k) == <<"plain", k>>

\* keyhash.Repo.Create hashes what MintAPIKey passes as the hash.
Digest(k) == <<"bcrypt", k>>

Rows == [user : Users, prefix : Prefixes, hash : Digests, used : BOOLEAN]
NoRow == [user |-> NoOne]

\* A stored credential, encrypted under a master key.
Secrets == [val : Values, under : Masters]
NoSecret == [val |-> NoValue]

\* "hit" is the key that authenticated the request; "live" and "dead" say how things
\* were when it came: whether its key had a row, and whether the revocation of its
\* key had been answered.
Reqs == [pc : {"idle", "list", "touch", "cookie", "act", "page", "done"},
         key : Keys \cup {NoKey}, cookie : Users \cup {NoOne},
         hit : Keys \cup {NoKey}, user : Users \cup {NoOne},
         live : BOOLEAN, dead : BOOLEAN,
         val : Values \cup {NoValue}, page : {"none", "unset", "set", "refused"}]
NoReq == [pc |-> "idle", key |-> NoKey, cookie |-> NoOne, hit |-> NoKey,
          user |-> NoOne, live |-> FALSE, dead |-> FALSE,
          val |-> NoValue, page |-> "none"]

TypeOK ==
  /\ keys \in [Keys -> Rows \cup {NoRow}]
  /\ secrets \in [Users -> Secrets \cup {NoSecret}]
  /\ master \in Masters
  /\ req \in [Requests -> Reqs]
  /\ faulty \subseteq Faults
  /\ minter \in [Keys -> Users \cup {NoOne}]
  /\ shown \subseteq Keys
  /\ revoked \subseteq Keys
  /\ latest \in [Users -> Values \cup {NoValue}]

Init ==
  /\ keys = [k \in Keys |-> NoRow]
  /\ secrets = [u \in Users |-> NoSecret]
  /\ master \in Masters
  /\ req = [r \in Requests |-> NoReq]
  /\ faulty \in SUBSET Faults
  /\ minter = [k \in Keys |-> NoOne]
  /\ shown = {}
  /\ revoked = {}
  /\ latest = [u \in Users |-> NoValue]

\* Calls made with a request's context.
DbFails == faulty \cap {"db", "disconnect"} # {}

Present(k) == keys[k].user # NoOne
Stored(u) == secrets[u].val # NoValue

------------------------------------------------------------------------------
(* Resolver.Resolve, on behalf of BearerOrSession. *)

\* A request brings a key that was shown to somebody, a session, both or none.  A
\* bearer that was never minted matches no row, and is like none.
Arrive(r, k, u) ==
  /\ req[r].pc = "idle"
  /\ k \in shown \cup {NoKey}
  /\ req' = [req EXCEPT ![r] =
       [NoReq EXCEPT !.pc = IF k = NoKey THEN "cookie" ELSE "list",
                     !.key = k, !.cookie = u,
                     !.live = k \in {l \in Keys : Present(l)},
                     !.dead = k \in revoked]]
  /\ UNCHANGED <<keys, secrets, master, faulty, history>>

\* Mutant: the candidates are not compared with the plaintext.
BugMatches(k, plain) == TRUE

\* bcrypt.CompareHashAndPassword.
Matches(k, plain) == keys[k].hash = <<"bcrypt", plain>>

\* APIKeysRepo.GetByPrefix.
GetByPrefix(p) == {k \in Keys : Present(k) /\ keys[k].prefix = p}

\* resolveBearer up to its first match, after which the session is not looked at;
\* whatever goes wrong, the session is next.
ResolveBearer(r) ==
  LET plain == req[r].key IN
  /\ req[r].pc = "list"
  /\ \/ \E k \in GetByPrefix(PrefixOf[plain]) :
          /\ Matches(k, plain)
          /\ req' = [req EXCEPT ![r].pc = "touch", ![r].hit = k,
                                ![r].user = keys[k].user, ![r].cookie = NoOne]
     \/ /\ DbFails \/ \A k \in GetByPrefix(PrefixOf[plain]) : ~Matches(k, plain)
        /\ req' = [req EXCEPT ![r].pc = "cookie"]
  /\ UNCHANGED <<keys, secrets, master, faulty, history>>

\* Mutant: the touch writes the row it has read.
BugRecordUsed(k) ==
  keys' = [keys EXCEPT ![k] =
    [user |-> minter[k], prefix |-> PrefixOf[k], hash |-> Digest(k), used |-> TRUE]]

\* APIKeysRepo.RecordUsed updates by id: a row that is gone stays gone.
RecordUsed(k) ==
  IF Present(k) THEN keys' = [keys EXCEPT ![k].used = TRUE] ELSE UNCHANGED keys

\* The error of RecordUsed is ignored.
Touch(r) ==
  /\ req[r].pc = "touch"
  /\ RecordUsed(req[r].hit) \/ (DbFails /\ UNCHANGED keys)
  /\ req' = [req EXCEPT ![r].pc = "act"]
  /\ UNCHANGED <<secrets, master, faulty, history>>

\* Sessions.UserFromRequest: the session may be over.  Without a user the answer
\* is 401.
ResolveSession(r) ==
  /\ req[r].pc = "cookie"
  /\ \/ /\ req[r].cookie # NoOne
        /\ req' = [req EXCEPT ![r].pc = "act", ![r].user = req[r].cookie]
     \/ req' = [req EXCEPT ![r] = NoReq]
  /\ UNCHANGED <<keys, secrets, master, faulty, history>>

------------------------------------------------------------------------------
(* What an authenticated request does. *)

\* The routes not modelled here.
Other(r) ==
  /\ req[r].pc \in {"act", "done"}
  /\ req' = [req EXCEPT ![r] = NoReq]
  /\ UNCHANGED <<keys, secrets, master, faulty, history>>

\* How a request's body is encoded: JSON by the clients of the API, url-encoded by
\* the forms of the settings page.
Bodies == {"json", "form"}

\* json.NewDecoder.Decode.
Decodes(b) == b = "json"

\* NewAPIKeyPlaintext and NewAPIKeyID are fresh.  Create may fail and yet have
\* taken effect: then there is a row whose key nobody knows.  The body is JSON.
Mint(r, k) ==
  /\ req[r].pc = "act"
  /\ minter[k] = NoOne
  /\ LET row == [user |-> req[r].user, prefix |-> PrefixOf[k],
                 hash |-> Digest(k), used |-> FALSE]
     IN \/ /\ keys' = [keys EXCEPT ![k] = row]
           /\ minter' = [minter EXCEPT ![k] = req[r].user]
           /\ shown' = shown \cup {k} \/ (DbFails /\ UNCHANGED shown)
        \/ DbFails /\ UNCHANGED <<keys, minter, shown>>
  /\ req' = [req EXCEPT ![r] = NoReq]
  /\ UNCHANGED <<secrets, master, faulty, revoked, latest>>

\* Mutant: the row is found by its id alone.
BugDeletes(u, k) == Present(k)

\* APIKeysRepo.Delete finds the row by its id and its user.
Deletes(u, k) == Present(k) /\ keys[k].user = u

\* RevokeAPIKey of any id: without a row of the user the answer is 404.
Revoke(r, k) ==
  LET gone == [keys EXCEPT ![k] = NoRow] IN
  /\ req[r].pc = "act"
  /\ \/ /\ Deletes(req[r].user, k)
        /\ keys' = gone
        /\ revoked' = revoked \cup {k} \/ (DbFails /\ UNCHANGED revoked)
     \/ /\ ~Deletes(req[r].user, k) \/ DbFails
        /\ UNCHANGED <<keys, revoked>>
  /\ req' = [req EXCEPT ![r] = NoReq]
  /\ UNCHANGED <<secrets, master, faulty, minter, shown, latest>>

\* Mutant: a credential that is there is left as it is.
BugUpserted(u, s) ==
  IF Stored(u) THEN secrets ELSE [secrets EXCEPT ![u] = s]

\* SecretsRepo.SetAnthropicCreds replaces the user's row.
Upserted(u, s) == [secrets EXCEPT ![u] = s]

Encrypt(v) == [val |-> v, under |-> master]

\* SetAnthropicCredentials of a JSON body; a call that fails may have taken effect.
SetCreds(r, v) ==
  LET u == req[r].user IN
  /\ req[r].pc = "act"
  /\ \/ /\ secrets' = Upserted(u, Encrypt(v))
        /\ latest' = [latest EXCEPT ![u] = v]
     \/ DbFails /\ UNCHANGED <<secrets, latest>>
  /\ req' = [req EXCEPT ![r] = NoReq]
  /\ UNCHANGED <<keys, master, faulty, minter, shown, revoked>>

\* AESGCM.Decrypt under another key than the value's is an error.
Readable(u) == Stored(u) /\ secrets[u].under = master

\* The request goes on as its user; how it was authenticated matters no more.
GoesOn(r, at, v, p) ==
  req' = [req EXCEPT ![r] =
    [NoReq EXCEPT !.pc = at, !.user = req[r].user, !.val = v, !.page = p]]

Done(r, v, p) == GoesOn(r, "done", v, p)

\* SetAnthropic and MintAPIKey of a body they cannot decode: the answer is 400.
Undecoded(r, b) ==
  /\ req[r].pc = "act"
  /\ ~Decodes(b)
  /\ Done(r, NoValue, "refused")
  /\ UNCHANGED <<keys, secrets, master, faulty, history>>

\* AnthropicCredsProvider.For, on behalf of an enqueue request; without a
\* credential, or with an error, no job is started.
Credentials(r) ==
  LET u == req[r].user IN
  /\ req[r].pc = "act"
  /\ \/ Readable(u) /\ Done(r, secrets[u].val, "none")
     \/ /\ ~Readable(u) \/ DbFails
        /\ req' = [req EXCEPT ![r] = NoReq]
  /\ UNCHANGED <<keys, secrets, master, faulty, history>>

\* Mutant: every error is taken for a missing credential.
BugSaysUnset(u) == ~Readable(u)

SaysUnset(u) == ~Stored(u)

\* The settings page lists the user's keys first; an error is answered with 500.
SettingsKeys(r) ==
  /\ req[r].pc = "act"
  /\ \/ GoesOn(r, "page", NoValue, "none")
     \/ DbFails /\ req' = [req EXCEPT ![r] = NoReq]
  /\ UNCHANGED <<keys, secrets, master, faulty, history>>

\* Then it says whether there is a credential; an error other than a missing row is
\* answered with 500.
Settings(r) ==
  LET u == req[r].user IN
  /\ req[r].pc = "page"
  /\ \/ Readable(u) /\ Done(r, NoValue, "set")
     \/ SaysUnset(u) /\ Done(r, NoValue, "unset")
     \/ /\ DbFails \/ ~(Readable(u) \/ SaysUnset(u))
        /\ req' = [req EXCEPT ![r] = NoReq]
  /\ UNCHANGED <<keys, secrets, master, faulty, history>>

\* The process stops and starts, perhaps with another master key.
Restart(m) ==
  /\ master' = m
  /\ req' = [r \in Requests |-> NoReq]
  /\ UNCHANGED <<keys, secrets, faulty, history>>

Next ==
  \/ \E r \in Requests :
       \/ \E k \in Keys \cup {NoKey}, u \in Users \cup {NoOne} : Arrive(r, k, u)
       \/ ResolveBearer(r) \/ Touch(r) \/ ResolveSession(r)
       \/ \E k \in Keys : Mint(r, k) \/ Revoke(r, k)
       \/ \E v \in Values : SetCreds(r, v)
       \/ \E b \in Bodies : Undecoded(r, b)
       \/ Credentials(r) \/ SettingsKeys(r) \/ Settings(r) \/ Other(r)
  \/ \E m \in Masters : Restart(m)

Spec == Init /\ [][Next]_vars

------------------------------------------------------------------------------
(* Properties. *)

\* Once a revocation has been answered, its key authenticates no request that
\* comes later, whatever the requests it authenticated before still do.
RevokedStaysOut == \A r \in Requests : req[r].hit # NoKey => ~req[r].dead

\* A request acts as the user its key was minted for, or as its session's user;
\* as the latter only if its key had no row when it came, has none now, or a call
\* failed.  Keys may share their prefix.
ActsAsHolder ==
  \A r \in Requests :
    req[r].pc = "act" =>
      \/ /\ req[r].hit \in Keys /\ req[r].hit = req[r].key
         /\ req[r].user = minter[req[r].key]
      \/ /\ req[r].hit = NoKey /\ req[r].user = req[r].cookie
         /\ req[r].live => ~Present(req[r].key) \/ DbFails

\* A key's row goes only in a request with a key or with the session of its user.
RemovedByHolder ==
  \A k \in Keys :
    Present(k) /\ ~Present(k)' =>
      \E r \in Requests :
        /\ req[r].pc = "act" /\ req'[r].pc = "idle"
        /\ keys[k].user \in {req[r].cookie} \cup {minter[l] : l \in {req[r].key} \cap Keys}

OnlyHolderRevokes == [][RemovedByHolder]_vars

\* What a job is given is the credential that its user stored last.
GivenIsLatest ==
  \A r \in Requests :
    req'[r].val # NoValue /\ req[r].val = NoValue => req'[r].val = latest[req[r].user]

CredentialIsLatest == [][GivenIsLatest]_vars

\* The settings page says that there is no credential only to a user who never
\* stored one, also after a restart with another master key.
PageIsTrue ==
  \A r \in Requests :
    req'[r].page = "unset" /\ req[r].page # "unset" => latest[req[r].user] = NoValue

SettingsPageIsTrue == [][PageIsTrue]_vars

\* What the forms of the settings page post is decoded: settings.templ has the user
\* paste a credential there "to enable job execution".
FormsAreTaken == \A r \in Requests : req[r].page # "refused"

------------------------------------------------------------------------------
(* The inductive strengthening. *)

\* Rows are what the mints wrote, and a revoked key has none.
RowsAreMinted ==
  /\ \A k \in Keys :
       Present(k) =>
         /\ keys[k].user = minter[k] /\ minter[k] # NoOne
         /\ keys[k].prefix = PrefixOf[k] /\ keys[k].hash = Digest(k)
  /\ \A k \in shown \cup revoked : minter[k] # NoOne
  /\ \A k \in revoked : ~Present(k)

\* What a request has found out about its key.
KnowsItsKey(r) ==
  /\ req[r].pc # "idle" => req[r].key \in shown \cup {NoKey}
  /\ req[r].pc = "list" => req[r].key # NoKey
  /\ req[r].pc = "touch" => req[r].hit # NoKey
  /\ req[r].dead => req[r].key \in revoked
  /\ req[r].live => req[r].key # NoKey
  /\ req[r].hit # NoKey =>
       req[r].hit = req[r].key /\ ~req[r].dead /\ req[r].user = minter[req[r].key]
  /\ req[r].pc \in {"idle", "list", "cookie"} => req[r].hit = NoKey
  /\ req[r].pc = "cookie" /\ req[r].live => ~Present(req[r].key) \/ DbFails
  /\ req[r].pc \in {"touch", "act", "page", "done"} => req[r].user # NoOne

RequestsAgree == \A r \in Requests : KnowsItsKey(r)

\* Rows hold what was stored last.
SecretsAgree == \A u \in Users : secrets[u].val = latest[u]

IInv ==
  /\ TypeOK
  /\ RowsAreMinted
  /\ RequestsAgree
  /\ ActsAsHolder
  /\ SecretsAgree
================================================================================
