---------------------------- MODULE ApiKeysProofs ----------------------------
(***************************************************************************)
(* What every instance of ApiKeys keeps.  The first lemmas say what each   *)
(* action does to the variables, entry by entry; then each part of the     *)
(* inductive invariant has a lemma with one step per action.               *)
(***************************************************************************)
EXTENDS ApiKeys, TLAPS

\* The request r becomes q.
ReqBecomes(r, q) ==
  /\ req' \in [Requests -> Reqs]
  /\ req'[r] = q
  /\ \A s \in Requests \ {r} : req'[s] = req[s]

\* The row of k becomes x.
KeyBecomes(k, x) ==
  /\ keys' \in [Keys -> Rows \cup {NoRow}]
  /\ keys'[k] = x
  /\ \A l \in Keys \ {k} : keys'[l] = keys[l]

\* The request r has ended.
Ended(r) == ReqBecomes(r, NoReq)

------------------------------------------------------------------------------
(* The actions. *)

LEMMA EmptyRecords ==
  /\ NoReq \in Reqs /\ NoReq.pc = "idle" /\ NoReq.key = NoKey /\ NoReq.hit = NoKey
  /\ ~NoReq.live /\ ~NoReq.dead /\ NoReq.user = NoOne
  /\ NoReq.val = NoValue /\ NoReq.page = "none"
  /\ NoRow.user = NoOne /\ NoSecret.val = NoValue
  BY DEF NoReq, Reqs, NoRow, NoSecret

LEMMA RowFields ==
  ASSUME NEW u \in Users, NEW k \in Keys, NEW b \in BOOLEAN
  PROVE  LET x == [user |-> u, prefix |-> PrefixOf[k], hash |-> Digest(k), used |-> b]
         IN  /\ x \in Rows /\ x.user = u
             /\ x.prefix = PrefixOf[k] /\ x.hash = Digest(k)
  BY PrefixAssumption DEF Rows, Digest, Digests

\* Ending a request, wherever it is.
LEMMA EndDoes ==
  ASSUME TypeOK, NEW r \in Requests, req' = [req EXCEPT ![r] = NoReq]
  PROVE  Ended(r)
  BY EmptyRecords DEF TypeOK, Ended, ReqBecomes

LEMMA ArriveDoes ==
  ASSUME TypeOK, NEW r \in Requests, NEW k \in Keys \cup {NoKey},
         NEW u \in Users \cup {NoOne}, Arrive(r, k, u)
  PROVE  /\ ReqBecomes(r, req'[r])
         /\ k \in shown \cup {NoKey}
         /\ req'[r].pc = IF k = NoKey THEN "cookie" ELSE "list"
         /\ req'[r].key = k /\ req'[r].hit = NoKey
         /\ req'[r].live => k \in Keys /\ Present(k)
         /\ req'[r].dead => k \in revoked
         /\ UNCHANGED <<keys, secrets, master, faulty, minter, shown, revoked, latest>>
<1> DEFINE p == IF k = NoKey THEN "cookie" ELSE "list"
           lv == k \in {l \in Keys : Present(l)}
           dd == k \in revoked
           q == [NoReq EXCEPT !.pc = p, !.key = k, !.cookie = u, !.live = lv, !.dead = dd]
<1>0. /\ p \in {"cookie", "list"} /\ lv \in BOOLEAN /\ dd \in BOOLEAN
      /\ lv => k \in Keys /\ Present(k)
      /\ dd => k \in revoked
  OBVIOUS
<1> HIDE DEF p, lv, dd
<1>1. /\ q \in Reqs /\ q.pc = p /\ q.key = k /\ q.hit = NoKey
      /\ q.live = lv /\ q.dead = dd
  BY <1>0 DEF NoReq, Reqs
<1>2. req' = [req EXCEPT ![r] = q]
  BY DEF Arrive, p, lv, dd
<1> HIDE DEF q
<1>3. ReqBecomes(r, q)
  BY <1>1, <1>2 DEF TypeOK, ReqBecomes
<1>4. QED BY <1>0, <1>1, <1>3 DEF Arrive, ReqBecomes, history, p

LEMMA ResolveBearerDoes ==
  ASSUME TypeOK, RowsAreMinted, RequestsAgree, NEW r \in Requests, ResolveBearer(r)
  PROVE  /\ req[r].pc = "list" /\ req[r].key \in Keys
         /\ ReqBecomes(r, req'[r])
         /\ \/ /\ req'[r].pc = "touch"
               /\ req'[r].hit = req[r].key /\ Present(req[r].key)
               /\ req'[r].user = keys[req[r].key].user
            \/ /\ req'[r].pc = "cookie" /\ req'[r].hit = req[r].hit
               /\ ~Present(req[r].key) \/ DbFails
         /\ req'[r].key = req[r].key
         /\ req'[r].live = req[r].live /\ req'[r].dead = req[r].dead
         /\ UNCHANGED <<keys, secrets, master, faulty, minter, shown, revoked, latest>>
<1> DEFINE plain == req[r].key
<1>1. req[r].pc = "list" /\ plain \in Keys /\ req[r] \in Reqs
  BY DEF ResolveBearer, TypeOK, RequestsAgree, KnowsItsKey
<1>2. UNCHANGED <<keys, secrets, master, faulty, minter, shown, revoked, latest>>
  BY DEF ResolveBearer, history
<1>3. ASSUME NEW k \in GetByPrefix(PrefixOf[plain]), Matches(k, plain),
             req' = [req EXCEPT ![r].pc = "touch", ![r].hit = k,
                                ![r].user = keys[k].user, ![r].cookie = NoOne]
      PROVE  /\ ReqBecomes(r, req'[r]) /\ req'[r].pc = "touch"
             /\ req'[r].hit = plain /\ Present(plain) /\ req'[r].user = keys[plain].user
             /\ req'[r].key = plain
             /\ req'[r].live = req[r].live /\ req'[r].dead = req[r].dead
  <2>1. k \in Keys /\ Present(k) /\ keys[k].hash = <<"bcrypt", plain>>
    BY <1>3 DEF GetByPrefix, Matches
  <2>2. k = plain
    BY <2>1 DEF RowsAreMinted, Digest
  <2>3. keys[k].user \in Users
    BY <2>1 DEF RowsAreMinted, TypeOK
  <2> DEFINE q == [req[r] EXCEPT !.pc = "touch", !.hit = k,
                                 !.user = keys[k].user, !.cookie = NoOne]
  <2>4. /\ q \in Reqs /\ q.pc = "touch" /\ q.hit = k /\ q.user = keys[k].user
        /\ q.key = plain /\ q.live = req[r].live /\ q.dead = req[r].dead
    BY <1>1, <2>1, <2>3 DEF Reqs
  <2>5. req' = [req EXCEPT ![r] = q]
    BY <1>3
  <2> HIDE DEF q
  <2>6. ReqBecomes(r, q)
    BY <2>4, <2>5 DEF TypeOK, ReqBecomes
  <2>7. QED BY <2>1, <2>2, <2>4, <2>6 DEF ReqBecomes
<1>4. ASSUME DbFails \/ \A k \in GetByPrefix(PrefixOf[plain]) : ~Matches(k, plain),
             req' = [req EXCEPT ![r].pc = "cookie"]
      PROVE  /\ ReqBecomes(r, req'[r]) /\ req'[r].pc = "cookie"
             /\ ~Present(plain) \/ DbFails
             /\ req'[r].key = plain /\ req'[r].hit = req[r].hit
             /\ req'[r].live = req[r].live /\ req'[r].dead = req[r].dead
  <2>1. Present(plain) => plain \in GetByPrefix(PrefixOf[plain]) /\ Matches(plain, plain)
    BY <1>1 DEF RowsAreMinted, GetByPrefix, Matches, Digest
  <2> DEFINE q == [req[r] EXCEPT !.pc = "cookie"]
  <2>2. /\ q \in Reqs /\ q.pc = "cookie" /\ q.hit = req[r].hit
        /\ q.key = plain /\ q.live = req[r].live /\ q.dead = req[r].dead
    BY <1>1 DEF Reqs
  <2>3. req' = [req EXCEPT ![r] = q]
    BY <1>4
  <2> HIDE DEF q
  <2>4. ReqBecomes(r, q)
    BY <2>2, <2>3 DEF TypeOK, ReqBecomes
  <2>5. QED BY <1>4, <2>1, <2>2, <2>4 DEF ReqBecomes
<1>5. QED BY <1>1, <1>2, <1>3, <1>4 DEF ResolveBearer

LEMMA TouchDoes ==
  ASSUME TypeOK, RequestsAgree, NEW r \in Requests, Touch(r)
  PROVE  /\ req[r].pc = "touch" /\ ReqBecomes(r, req'[r])
         /\ req'[r].pc = "act"
         /\ req'[r].key = req[r].key /\ req'[r].hit = req[r].hit
         /\ req'[r].user = req[r].user
         /\ req'[r].live = req[r].live /\ req'[r].dead = req[r].dead
         /\ keys' \in [Keys -> Rows \cup {NoRow}]
         /\ \A k \in Keys : /\ keys'[k].user = keys[k].user
                            /\ Present(k) => /\ keys'[k].prefix = keys[k].prefix
                                             /\ keys'[k].hash = keys[k].hash
         /\ UNCHANGED <<secrets, master, faulty, minter, shown, revoked, latest>>
<1>1. req[r].pc = "touch" /\ req[r] \in Reqs /\ req[r].hit \in Keys
  BY DEF Touch, TypeOK, RequestsAgree, KnowsItsKey, Reqs
<1> DEFINE q == [req[r] EXCEPT !.pc = "act"]
           k == req[r].hit
<1>2. /\ q \in Reqs /\ q.pc = "act" /\ q.hit = k /\ q.key = req[r].key
      /\ q.user = req[r].user /\ q.live = req[r].live /\ q.dead = req[r].dead
  BY <1>1 DEF Reqs
<1>3. req' = [req EXCEPT ![r] = q]
  BY DEF Touch
<1>4. UNCHANGED <<secrets, master, faulty, minter, shown, revoked, latest>>
  BY DEF Touch, history
<1>5. \/ UNCHANGED keys
      \/ Present(k) /\ keys' = [keys EXCEPT ![k].used = TRUE]
  BY DEF Touch, RecordUsed
<1> HIDE DEF q
<1>6. ReqBecomes(r, q)
  BY <1>2, <1>3 DEF TypeOK, ReqBecomes
<1>7. /\ keys' \in [Keys -> Rows \cup {NoRow}]
      /\ \A l \in Keys : /\ keys'[l].user = keys[l].user
                         /\ Present(l) => /\ keys'[l].prefix = keys[l].prefix
                                          /\ keys'[l].hash = keys[l].hash
  <2>1. CASE UNCHANGED keys
    BY <2>1 DEF TypeOK
  <2>2. CASE Present(k) /\ keys' = [keys EXCEPT ![k].used = TRUE]
    <3> DEFINE x == [keys[k] EXCEPT !.used = TRUE]
    <3>1. keys[k] \in Rows
      BY <1>1, <2>2, EmptyRecords DEF TypeOK, Present
    <3>2. /\ x \in Rows /\ x.user = keys[k].user
          /\ x.prefix = keys[k].prefix /\ x.hash = keys[k].hash
      BY <3>1 DEF Rows
    <3>3. keys' = [keys EXCEPT ![k] = x]
      BY <2>2
    <3> HIDE DEF x, k
    <3>4. QED BY <1>1, <3>2, <3>3 DEF TypeOK, k
  <2>3. QED BY <1>5, <2>1, <2>2
<1>8. QED BY <1>1, <1>2, <1>4, <1>6, <1>7 DEF ReqBecomes

LEMMA ResolveSessionDoes ==
  ASSUME TypeOK, NEW r \in Requests, ResolveSession(r)
  PROVE  /\ req[r].pc = "cookie" /\ ReqBecomes(r, req'[r])
         /\ \/ req'[r] = NoReq
            \/ /\ req'[r].pc = "act" /\ req'[r].user = req[r].cookie
               /\ req'[r].user # NoOne /\ req'[r].cookie = req[r].cookie
               /\ req'[r].key = req[r].key /\ req'[r].hit = req[r].hit
               /\ req'[r].live = req[r].live /\ req'[r].dead = req[r].dead
         /\ UNCHANGED <<keys, secrets, master, faulty, minter, shown, revoked, latest>>
<1>1. req[r].pc = "cookie" /\ req[r] \in Reqs
  BY DEF ResolveSession, TypeOK
<1>2. UNCHANGED <<keys, secrets, master, faulty, minter, shown, revoked, latest>>
  BY DEF ResolveSession, history
<1>3. CASE req' = [req EXCEPT ![r] = NoReq]
  BY <1>1, <1>2, <1>3, EndDoes DEF Ended, ReqBecomes
<1>4. CASE /\ req[r].cookie # NoOne
           /\ req' = [req EXCEPT ![r].pc = "act", ![r].user = req[r].cookie]
  <2> DEFINE q == [req[r] EXCEPT !.pc = "act", !.user = req[r].cookie]
  <2>1. /\ q \in Reqs /\ q.pc = "act" /\ q.hit = req[r].hit /\ q.key = req[r].key
        /\ q.user = req[r].cookie /\ q.cookie = req[r].cookie
        /\ q.live = req[r].live /\ q.dead = req[r].dead
    BY <1>1 DEF Reqs
  <2>2. req' = [req EXCEPT ![r] = q]
    BY <1>4
  <2> HIDE DEF q
  <2>3. ReqBecomes(r, q)
    BY <2>1, <2>2 DEF TypeOK, ReqBecomes
  <2>4. QED BY <1>1, <1>2, <1>4, <2>1, <2>3 DEF ReqBecomes
<1>5. QED BY <1>3, <1>4 DEF ResolveSession

LEMMA OtherDoes ==
  ASSUME TypeOK, NEW r \in Requests, Other(r)
  PROVE  /\ Ended(r)
         /\ UNCHANGED <<keys, secrets, master, faulty, minter, shown, revoked, latest>>
  BY EndDoes DEF Other, history

LEMMA MintDoes ==
  ASSUME TypeOK, RequestsAgree, NEW r \in Requests, NEW k \in Keys, Mint(r, k)
  PROVE  /\ Ended(r) /\ minter[k] = NoOne
         /\ \/ /\ KeyBecomes(k, keys'[k]) /\ keys'[k].user \in Users
               /\ keys'[k].prefix = PrefixOf[k] /\ keys'[k].hash = Digest(k)
               /\ minter' = [minter EXCEPT ![k] = keys'[k].user]
               /\ shown' = shown \cup {k} \/ UNCHANGED shown
            \/ UNCHANGED <<keys, minter, shown>>
         /\ UNCHANGED <<secrets, master, faulty, revoked, latest>>
<1> DEFINE u == req[r].user
           x == [user |-> u, prefix |-> PrefixOf[k], hash |-> Digest(k), used |-> FALSE]
<1>1. u \in Users
  BY DEF Mint, TypeOK, RequestsAgree, KnowsItsKey, Reqs
<1>2. x \in Rows /\ x.user = u /\ x.prefix = PrefixOf[k] /\ x.hash = Digest(k)
  BY <1>1, RowFields
<1>3. /\ minter[k] = NoOne
      /\ \/ /\ keys' = [keys EXCEPT ![k] = x]
            /\ minter' = [minter EXCEPT ![k] = u]
            /\ shown' = shown \cup {k} \/ UNCHANGED shown
         \/ UNCHANGED <<keys, minter, shown>>
      /\ req' = [req EXCEPT ![r] = NoReq]
      /\ UNCHANGED <<secrets, master, faulty, revoked, latest>>
  BY DEF Mint
<1> HIDE DEF x, u
<1>4. keys' = [keys EXCEPT ![k] = x] => KeyBecomes(k, x)
  BY <1>2 DEF TypeOK, KeyBecomes
<1>5. Ended(r)
  BY <1>3, EndDoes
<1>6. QED BY <1>1, <1>2, <1>3, <1>4, <1>5 DEF KeyBecomes

LEMMA RevokeDoes ==
  ASSUME TypeOK, NEW r \in Requests, NEW k \in Keys, Revoke(r, k)
  PROVE  /\ req[r].pc = "act" /\ Ended(r)
         /\ \/ /\ KeyBecomes(k, NoRow) /\ Present(k) /\ keys[k].user = req[r].user
               /\ revoked' = revoked \cup {k} \/ UNCHANGED revoked
            \/ UNCHANGED <<keys, revoked>>
         /\ UNCHANGED <<secrets, master, faulty, minter, shown, latest>>
<1>1. req[r].pc = "act" /\ Ended(r)
  BY EndDoes DEF Revoke
<1>2. keys' = [keys EXCEPT ![k] = NoRow] => KeyBecomes(k, NoRow)
  BY DEF TypeOK, KeyBecomes
<1>3. QED BY <1>1, <1>2 DEF Revoke, Deletes

LEMMA SetCredsDoes ==
  ASSUME TypeOK, RequestsAgree, NEW r \in Requests, NEW v \in Values, SetCreds(r, v)
  PROVE  /\ Ended(r)
         /\ secrets' \in [Users -> Secrets \cup {NoSecret}]
         /\ latest' \in [Users -> Values \cup {NoValue}]
         /\ \A u \in Users : \/ secrets'[u].val = v /\ latest'[u] = v
                             \/ secrets'[u] = secrets[u] /\ latest'[u] = latest[u]
         /\ UNCHANGED <<keys, master, faulty, minter, shown, revoked>>
<1> DEFINE w == req[r].user
           c == [val |-> v, under |-> master]
<1>1. w \in Users
  BY DEF SetCreds, TypeOK, RequestsAgree, KnowsItsKey, Reqs
<1>2. c \in Secrets /\ c.val = v
  BY DEF TypeOK, Secrets
<1>3. /\ \/ secrets' = [secrets EXCEPT ![w] = c] /\ latest' = [latest EXCEPT ![w] = v]
         \/ UNCHANGED <<secrets, latest>>
      /\ req' = [req EXCEPT ![r] = NoReq]
      /\ UNCHANGED <<keys, master, faulty, minter, shown, revoked>>
  BY DEF SetCreds, Upserted, Encrypt
<1>4. Ended(r)
  BY <1>3, EndDoes
<1> HIDE DEF w, c
<1>5. QED BY <1>1, <1>2, <1>3, <1>4 DEF TypeOK

\* A request that goes on without what authenticated it.
LEMMA GoesOnDoes ==
  ASSUME TypeOK, NEW r \in Requests, NEW at \in {"page", "done"},
         NEW v \in Values \cup {NoValue}, NEW p \in {"none", "unset", "set", "refused"},
         GoesOn(r, at, v, p)
  PROVE  /\ ReqBecomes(r, req'[r])
         /\ req'[r].pc = at /\ req'[r].key = NoKey /\ req'[r].hit = NoKey
         /\ req'[r].user = req[r].user /\ ~req'[r].live /\ ~req'[r].dead
         /\ req'[r].val = v /\ req'[r].page = p
<1> DEFINE q == [NoReq EXCEPT !.pc = at, !.user = req[r].user, !.val = v, !.page = p]
<1>1. req[r].user \in Users \cup {NoOne}
  BY DEF TypeOK, Reqs
<1>2. /\ q \in Reqs /\ q.pc = at /\ q.key = NoKey /\ q.hit = NoKey
      /\ q.user = req[r].user /\ ~q.live /\ ~q.dead /\ q.val = v /\ q.page = p
  BY <1>1 DEF NoReq, Reqs
<1>3. req' = [req EXCEPT ![r] = q]
  BY DEF GoesOn
<1> HIDE DEF q
<1>4. ReqBecomes(r, q)
  BY <1>2, <1>3 DEF TypeOK, ReqBecomes
<1>5. QED BY <1>2, <1>4 DEF ReqBecomes

\* How the requests with answers that are looked at go on: what they tell is what is
\* stored.
LEMMA TellDoes ==
  ASSUME TypeOK, RequestsAgree, NEW r \in Requests,
         \/ Credentials(r) \/ SettingsKeys(r) \/ Settings(r)
         \/ \E b \in Bodies : Undecoded(r, b)
  PROVE  /\ req[r].pc \in {"act", "page"} /\ ReqBecomes(r, req'[r])
         /\ \/ req'[r] = NoReq
            \/ /\ req'[r].pc \in {"page", "done"} /\ req'[r].key = NoKey
               /\ req'[r].hit = NoKey
               /\ req'[r].user = req[r].user /\ ~req'[r].live /\ ~req'[r].dead
               /\ req'[r].val \in {NoValue, secrets[req[r].user].val}
               /\ req'[r].page = "unset" => ~Stored(req[r].user)
         /\ UNCHANGED <<keys, secrets, master, faulty, minter, shown, revoked, latest>>
<1> DEFINE u == req[r].user
<1>1. req[r].pc \in {"act", "page"} /\ u \in Users
  BY DEF Credentials, SettingsKeys, Settings, Undecoded, TypeOK, RequestsAgree,
         KnowsItsKey, Reqs
<1>2. UNCHANGED <<keys, secrets, master, faulty, minter, shown, revoked, latest>>
  BY DEF Credentials, SettingsKeys, Settings, Undecoded, history
<1>3. CASE req' = [req EXCEPT ![r] = NoReq]
  BY <1>1, <1>2, <1>3, EndDoes DEF Ended, ReqBecomes
<1>4. ASSUME Readable(u), Done(r, secrets[u].val, "none")
      PROVE  /\ ReqBecomes(r, req'[r])
             /\ req'[r].pc = "done" /\ req'[r].key = NoKey /\ req'[r].hit = NoKey
             /\ req'[r].user = u /\ ~req'[r].live /\ ~req'[r].dead
             /\ req'[r].val = secrets[u].val /\ req'[r].page = "none"
  <2>1. secrets[u].val \in Values \cup {NoValue}
    BY <1>1, EmptyRecords DEF TypeOK, Secrets
  <2>2. QED BY <1>4, <2>1, GoesOnDoes DEF Done
<1>5. \/ req' = [req EXCEPT ![r] = NoReq]
      \/ Readable(u) /\ Done(r, secrets[u].val, "none")
      \/ GoesOn(r, "page", NoValue, "none")
      \/ Done(r, NoValue, "set") \/ Done(r, NoValue, "refused")
      \/ Done(r, NoValue, "unset") /\ ~Stored(u)
  BY DEF Credentials, SettingsKeys, Settings, Undecoded, SaysUnset
<1>6. CASE \/ GoesOn(r, "page", NoValue, "none")
           \/ Done(r, NoValue, "set") \/ Done(r, NoValue, "refused")
  BY <1>1, <1>2, <1>6, GoesOnDoes DEF Done
<1>7. CASE Done(r, NoValue, "unset") /\ ~Stored(u)
  BY <1>1, <1>2, <1>7, GoesOnDoes DEF Done
<1>8. CASE Readable(u) /\ Done(r, secrets[u].val, "none")
  BY <1>1, <1>2, <1>4, <1>8
<1>9. QED BY <1>3, <1>5, <1>6, <1>7, <1>8

LEMMA RestartDoes ==
  ASSUME NEW m \in Masters, Restart(m)
  PROVE  /\ master' \in Masters
         /\ req' \in [Requests -> Reqs] /\ \A r \in Requests : req'[r] = NoReq
         /\ UNCHANGED <<keys, secrets, faulty, minter, shown, revoked, latest>>
  BY EmptyRecords DEF Restart, history

------------------------------------------------------------------------------
(* The parts of the invariant. *)

\* Every step keeps every variable in its type.
LEMMA TypeStep == IInv /\ [Next]_vars => TypeOK'
<1> SUFFICES ASSUME IInv, [Next]_vars PROVE TypeOK'
  OBVIOUS
<1>1. TypeOK /\ RowsAreMinted /\ RequestsAgree
  BY DEF IInv
<1>2. ASSUME NEW r \in Requests, NEW k \in Keys \cup {NoKey}, NEW u \in Users \cup {NoOne},
             Arrive(r, k, u)
      PROVE  TypeOK'
  BY <1>1, <1>2, ArriveDoes, EmptyRecords
     DEF TypeOK, ReqBecomes
<1>3. ASSUME NEW r \in Requests, ResolveBearer(r)
      PROVE  TypeOK'
  BY <1>1, <1>3, ResolveBearerDoes
     DEF TypeOK, ReqBecomes
<1>4. ASSUME NEW r \in Requests, Touch(r)
      PROVE  TypeOK'
  BY <1>1, <1>4, TouchDoes
     DEF TypeOK, ReqBecomes
<1>5. ASSUME NEW r \in Requests, ResolveSession(r)
      PROVE  TypeOK'
  BY <1>1, <1>5, ResolveSessionDoes, EmptyRecords
     DEF TypeOK, ReqBecomes
<1>6. ASSUME NEW r \in Requests, NEW k \in Keys, Mint(r, k)
      PROVE  TypeOK'
  BY <1>1, <1>6, MintDoes, EmptyRecords
     DEF TypeOK, Ended, ReqBecomes, KeyBecomes
<1>7. ASSUME NEW r \in Requests, NEW k \in Keys, Revoke(r, k)
      PROVE  TypeOK'
  BY <1>1, <1>7, RevokeDoes, EmptyRecords
     DEF TypeOK, Ended, ReqBecomes, KeyBecomes
<1>8. ASSUME NEW r \in Requests, NEW v \in Values, SetCreds(r, v)
      PROVE  TypeOK'
  BY <1>1, <1>8, SetCredsDoes, EmptyRecords
     DEF TypeOK, Ended, ReqBecomes
<1>9. ASSUME NEW r \in Requests,
             \/ Credentials(r) \/ SettingsKeys(r) \/ Settings(r)
             \/ \E b \in Bodies : Undecoded(r, b)
      PROVE  TypeOK'
  BY <1>1, <1>9, TellDoes, EmptyRecords
     DEF TypeOK, ReqBecomes
<1>10. ASSUME NEW r \in Requests, Other(r)
      PROVE  TypeOK'
  BY <1>1, <1>10, OtherDoes, EmptyRecords
     DEF TypeOK, Ended, ReqBecomes
<1>11. ASSUME NEW m \in Masters, Restart(m)
      PROVE  TypeOK'
  BY <1>1, <1>11, RestartDoes, EmptyRecords
     DEF TypeOK
<1>12. CASE UNCHANGED vars
  BY <1>1, <1>12 DEF vars, history, TypeOK
<1> QED
  BY <1>2, <1>3, <1>4, <1>5, <1>6, <1>7, <1>8,
     <1>9, <1>10, <1>11, <1>12 DEF Next

\* A key is minted once, and its row is removed for good.
LEMMA RowsStep == IInv /\ [Next]_vars => RowsAreMinted'
<1> SUFFICES ASSUME IInv, [Next]_vars PROVE RowsAreMinted'
  OBVIOUS
<1>1. TypeOK /\ RowsAreMinted /\ RequestsAgree
  BY DEF IInv
<1>2. ASSUME NEW r \in Requests, NEW k \in Keys \cup {NoKey}, NEW u \in Users \cup {NoOne},
             Arrive(r, k, u)
      PROVE  RowsAreMinted'
  <2>1. /\ ReqBecomes(r, req'[r])
        /\ k \in shown \cup {NoKey}
        /\ req'[r].pc = IF k = NoKey THEN "cookie" ELSE "list"
        /\ req'[r].key = k /\ req'[r].hit = NoKey
        /\ req'[r].live => k \in Keys /\ Present(k)
        /\ req'[r].dead => k \in revoked
        /\ UNCHANGED <<keys, secrets, master, faulty, minter, shown, revoked, latest>>
    BY <1>1, <1>2, ArriveDoes
  <2>2. QED BY <1>1, <2>1 DEF RowsAreMinted, Present
<1>3. ASSUME NEW r \in Requests, ResolveBearer(r)
      PROVE  RowsAreMinted'
  BY <1>1, <1>3, ResolveBearerDoes
     DEF TypeOK, RowsAreMinted, Present, ReqBecomes
<1>4. ASSUME NEW r \in Requests, Touch(r)
      PROVE  RowsAreMinted'
  BY <1>1, <1>4, TouchDoes
     DEF TypeOK, RowsAreMinted, Present, ReqBecomes
<1>5. ASSUME NEW r \in Requests, ResolveSession(r)
      PROVE  RowsAreMinted'
  BY <1>1, <1>5, ResolveSessionDoes, EmptyRecords
     DEF TypeOK, RowsAreMinted, Present, ReqBecomes
<1>6. ASSUME NEW r \in Requests, NEW k \in Keys, Mint(r, k)
      PROVE  RowsAreMinted'
  <2>1. CASE UNCHANGED <<keys, minter, shown>>
    BY <1>1, <1>6, <2>1, MintDoes DEF RowsAreMinted, Present
  <2>2. CASE ~UNCHANGED <<keys, minter, shown>>
    <3>1. /\ minter[k] = NoOne /\ keys'[k].user \in Users
          /\ \A l \in Keys \ {k} : keys'[l] = keys[l] /\ minter'[l] = minter[l]
          /\ keys'[k].prefix = PrefixOf[k] /\ keys'[k].hash = Digest(k)
          /\ minter'[k] = keys'[k].user
          /\ shown' \subseteq shown \cup {k} /\ revoked' = revoked
      BY <1>1, <1>6, <2>2, MintDoes DEF TypeOK, KeyBecomes
    <3>2. shown \subseteq Keys /\ revoked \subseteq Keys /\ k \notin revoked
      BY <1>1, <3>1 DEF TypeOK, RowsAreMinted
    <3>3. QED BY <1>1, <3>1, <3>2, NoneAssumption DEF RowsAreMinted, Present
  <2>3. QED BY <2>1, <2>2
<1>7. ASSUME NEW r \in Requests, NEW k \in Keys, Revoke(r, k)
      PROVE  RowsAreMinted'
  BY <1>1, <1>7, RevokeDoes, EmptyRecords
     DEF TypeOK, RowsAreMinted, Present, Ended, ReqBecomes, KeyBecomes
<1>8. ASSUME NEW r \in Requests, NEW v \in Values, SetCreds(r, v)
      PROVE  RowsAreMinted'
  BY <1>1, <1>8, SetCredsDoes, EmptyRecords
     DEF TypeOK, RowsAreMinted, Present, Ended, ReqBecomes
<1>9. ASSUME NEW r \in Requests,
             \/ Credentials(r) \/ SettingsKeys(r) \/ Settings(r)
             \/ \E b \in Bodies : Undecoded(r, b)
      PROVE  RowsAreMinted'
  BY <1>1, <1>9, TellDoes, EmptyRecords
     DEF TypeOK, RowsAreMinted, Present, ReqBecomes
<1>10. ASSUME NEW r \in Requests, Other(r)
      PROVE  RowsAreMinted'
  BY <1>1, <1>10, OtherDoes, EmptyRecords
     DEF TypeOK, RowsAreMinted, Present, Ended, ReqBecomes
<1>11. ASSUME NEW m \in Masters, Restart(m)
      PROVE  RowsAreMinted'
  BY <1>1, <1>11, RestartDoes, EmptyRecords
     DEF TypeOK, RowsAreMinted, Present
<1>12. CASE UNCHANGED vars
  BY <1>1, <1>12 DEF vars, history, TypeOK, RowsAreMinted, Present
<1> QED
  BY <1>2, <1>3, <1>4, <1>5, <1>6, <1>7, <1>8,
     <1>9, <1>10, <1>11, <1>12 DEF Next

\* What a request knows of its key stays true.
LEMMA RequestsStep == IInv /\ [Next]_vars => RequestsAgree'
<1> SUFFICES ASSUME IInv, [Next]_vars PROVE RequestsAgree'
  OBVIOUS
<1>1. TypeOK /\ RowsAreMinted /\ RequestsAgree
  BY DEF IInv
<1>2. ASSUME NEW r \in Requests, NEW k \in Keys \cup {NoKey}, NEW u \in Users \cup {NoOne},
             Arrive(r, k, u)
      PROVE  RequestsAgree'
  <2>1. /\ ReqBecomes(r, req'[r])
        /\ k \in shown \cup {NoKey}
        /\ req'[r].pc = IF k = NoKey THEN "cookie" ELSE "list"
        /\ req'[r].key = k /\ req'[r].hit = NoKey
        /\ req'[r].live => k \in Keys /\ Present(k)
        /\ req'[r].dead => k \in revoked
        /\ UNCHANGED <<keys, secrets, master, faulty, minter, shown, revoked, latest>>
    BY <1>1, <1>2, ArriveDoes
  <2>2. k = NoKey \/ k \in Keys
    OBVIOUS
  <2>3. ASSUME NEW s \in Requests, s # r PROVE KnowsItsKey(s)'
    BY <1>1, <2>1, <2>3 DEF RequestsAgree, KnowsItsKey, ReqBecomes, Present, DbFails
  <2>4. KnowsItsKey(r)'
    BY <2>1, <2>2, NoneAssumption DEF KnowsItsKey, ReqBecomes
  <2>5. QED BY <2>3, <2>4 DEF RequestsAgree
<1>3. ASSUME NEW r \in Requests, ResolveBearer(r)
      PROVE  RequestsAgree'
  BY <1>1, <1>3, ResolveBearerDoes
     DEF TypeOK, RowsAreMinted, RequestsAgree, KnowsItsKey, Present, DbFails, ReqBecomes
<1>4. ASSUME NEW r \in Requests, Touch(r)
      PROVE  RequestsAgree'
  BY <1>1, <1>4, TouchDoes
     DEF TypeOK, RowsAreMinted, RequestsAgree, KnowsItsKey, Present, DbFails, ReqBecomes
<1>5. ASSUME NEW r \in Requests, ResolveSession(r)
      PROVE  RequestsAgree'
  BY <1>1, <1>5, ResolveSessionDoes, EmptyRecords
     DEF TypeOK, RowsAreMinted, RequestsAgree, KnowsItsKey, Present, DbFails, ReqBecomes
<1>6. ASSUME NEW r \in Requests, NEW k \in Keys, Mint(r, k)
      PROVE  RequestsAgree'
  BY <1>1, <1>6, MintDoes, EmptyRecords
     DEF TypeOK, RowsAreMinted, RequestsAgree, KnowsItsKey, Present, DbFails, Ended, ReqBecomes, KeyBecomes
<1>7. ASSUME NEW r \in Requests, NEW k \in Keys, Revoke(r, k)
      PROVE  RequestsAgree'
  BY <1>1, <1>7, RevokeDoes, EmptyRecords
     DEF TypeOK, RowsAreMinted, RequestsAgree, KnowsItsKey, Present, DbFails, Ended, ReqBecomes, KeyBecomes
<1>8. ASSUME NEW r \in Requests, NEW v \in Values, SetCreds(r, v)
      PROVE  RequestsAgree'
  BY <1>1, <1>8, SetCredsDoes, EmptyRecords
     DEF TypeOK, RowsAreMinted, RequestsAgree, KnowsItsKey, Present, DbFails, Ended, ReqBecomes
<1>9. ASSUME NEW r \in Requests,
             \/ Credentials(r) \/ SettingsKeys(r) \/ Settings(r)
             \/ \E b \in Bodies : Undecoded(r, b)
      PROVE  RequestsAgree'
  BY <1>1, <1>9, TellDoes, EmptyRecords
     DEF TypeOK, RowsAreMinted, RequestsAgree, KnowsItsKey, Present, DbFails, ReqBecomes
<1>10. ASSUME NEW r \in Requests, Other(r)
      PROVE  RequestsAgree'
  BY <1>1, <1>10, OtherDoes, EmptyRecords
     DEF TypeOK, RowsAreMinted, RequestsAgree, KnowsItsKey, Present, DbFails, Ended, ReqBecomes
<1>11. ASSUME NEW m \in Masters, Restart(m)
      PROVE  RequestsAgree'
  BY <1>1, <1>11, RestartDoes, EmptyRecords
     DEF TypeOK, RowsAreMinted, RequestsAgree, KnowsItsKey, Present, DbFails
<1>12. CASE UNCHANGED vars
  BY <1>1, <1>12 DEF vars, history, TypeOK, RowsAreMinted, RequestsAgree, KnowsItsKey, Present, DbFails
<1> QED
  BY <1>2, <1>3, <1>4, <1>5, <1>6, <1>7, <1>8,
     <1>9, <1>10, <1>11, <1>12 DEF Next

\* Whom a request acts as is settled when it is authenticated.
LEMMA HolderStep == IInv /\ [Next]_vars => ActsAsHolder'
<1> SUFFICES ASSUME IInv, [Next]_vars PROVE ActsAsHolder'
  OBVIOUS
<1>1. TypeOK /\ RowsAreMinted /\ RequestsAgree /\ ActsAsHolder
  BY DEF IInv
<1>2. ASSUME NEW r \in Requests, NEW k \in Keys \cup {NoKey}, NEW u \in Users \cup {NoOne},
             Arrive(r, k, u)
      PROVE  ActsAsHolder'
  <2>1. /\ ReqBecomes(r, req'[r])
        /\ k \in shown \cup {NoKey}
        /\ req'[r].pc = IF k = NoKey THEN "cookie" ELSE "list"
        /\ req'[r].key = k /\ req'[r].hit = NoKey
        /\ req'[r].live => k \in Keys /\ Present(k)
        /\ req'[r].dead => k \in revoked
        /\ UNCHANGED <<keys, secrets, master, faulty, minter, shown, revoked, latest>>
    BY <1>1, <1>2, ArriveDoes
  <2>2. req'[r].pc # "act"
    BY <2>1
  <2>3. QED BY <1>1, <2>1, <2>2 DEF ActsAsHolder, ReqBecomes, Present, DbFails
<1>3. ASSUME NEW r \in Requests, ResolveBearer(r)
      PROVE  ActsAsHolder'
  BY <1>1, <1>3, ResolveBearerDoes
     DEF TypeOK, RowsAreMinted, RequestsAgree, KnowsItsKey, ActsAsHolder, Present, DbFails, ReqBecomes
<1>4. ASSUME NEW r \in Requests, Touch(r)
      PROVE  ActsAsHolder'
  BY <1>1, <1>4, TouchDoes
     DEF TypeOK, RowsAreMinted, RequestsAgree, KnowsItsKey, ActsAsHolder, Present, DbFails, ReqBecomes
<1>5. ASSUME NEW r \in Requests, ResolveSession(r)
      PROVE  ActsAsHolder'
  BY <1>1, <1>5, ResolveSessionDoes, EmptyRecords
     DEF TypeOK, RowsAreMinted, RequestsAgree, KnowsItsKey, ActsAsHolder, Present, DbFails, ReqBecomes
<1>6. ASSUME NEW r \in Requests, NEW k \in Keys, Mint(r, k)
      PROVE  ActsAsHolder'
  BY <1>1, <1>6, MintDoes, EmptyRecords
     DEF TypeOK, RowsAreMinted, RequestsAgree, KnowsItsKey, ActsAsHolder, Present, DbFails, Ended, ReqBecomes, KeyBecomes
<1>7. ASSUME NEW r \in Requests, NEW k \in Keys, Revoke(r, k)
      PROVE  ActsAsHolder'
  BY <1>1, <1>7, RevokeDoes, EmptyRecords
     DEF TypeOK, RowsAreMinted, RequestsAgree, KnowsItsKey, ActsAsHolder, Present, DbFails, Ended, ReqBecomes, KeyBecomes
<1>8. ASSUME NEW r \in Requests, NEW v \in Values, SetCreds(r, v)
      PROVE  ActsAsHolder'
  BY <1>1, <1>8, SetCredsDoes, EmptyRecords
     DEF TypeOK, RowsAreMinted, RequestsAgree, KnowsItsKey, ActsAsHolder, Present, DbFails, Ended, ReqBecomes
<1>9. ASSUME NEW r \in Requests,
             \/ Credentials(r) \/ SettingsKeys(r) \/ Settings(r)
             \/ \E b \in Bodies : Undecoded(r, b)
      PROVE  ActsAsHolder'
  BY <1>1, <1>9, TellDoes, EmptyRecords
     DEF TypeOK, RowsAreMinted, RequestsAgree, KnowsItsKey, ActsAsHolder, Present, DbFails, ReqBecomes
<1>10. ASSUME NEW r \in Requests, Other(r)
      PROVE  ActsAsHolder'
  BY <1>1, <1>10, OtherDoes, EmptyRecords
     DEF TypeOK, RowsAreMinted, RequestsAgree, KnowsItsKey, ActsAsHolder, Present, DbFails, Ended, ReqBecomes
<1>11. ASSUME NEW m \in Masters, Restart(m)
      PROVE  ActsAsHolder'
  BY <1>1, <1>11, RestartDoes, EmptyRecords
     DEF TypeOK, RowsAreMinted, RequestsAgree, KnowsItsKey, ActsAsHolder, Present, DbFails
<1>12. CASE UNCHANGED vars
  BY <1>1, <1>12 DEF vars, history, TypeOK, RowsAreMinted, RequestsAgree, KnowsItsKey, ActsAsHolder, Present, DbFails
<1> QED
  BY <1>2, <1>3, <1>4, <1>5, <1>6, <1>7, <1>8,
     <1>9, <1>10, <1>11, <1>12 DEF Next

\* A credential is stored as its user's last call has it.
LEMMA SecretsStep == IInv /\ [Next]_vars => SecretsAgree'
<1> SUFFICES ASSUME IInv, [Next]_vars PROVE SecretsAgree'
  OBVIOUS
<1>1. TypeOK /\ RowsAreMinted /\ RequestsAgree /\ SecretsAgree
  BY DEF IInv
<1>2. ASSUME NEW r \in Requests, NEW k \in Keys \cup {NoKey}, NEW u \in Users \cup {NoOne},
             Arrive(r, k, u)
      PROVE  SecretsAgree'
  BY <1>1, <1>2, ArriveDoes, EmptyRecords
     DEF TypeOK, SecretsAgree, ReqBecomes
<1>3. ASSUME NEW r \in Requests, ResolveBearer(r)
      PROVE  SecretsAgree'
  BY <1>1, <1>3, ResolveBearerDoes
     DEF TypeOK, SecretsAgree, ReqBecomes
<1>4. ASSUME NEW r \in Requests, Touch(r)
      PROVE  SecretsAgree'
  BY <1>1, <1>4, TouchDoes
     DEF TypeOK, SecretsAgree, ReqBecomes
<1>5. ASSUME NEW r \in Requests, ResolveSession(r)
      PROVE  SecretsAgree'
  BY <1>1, <1>5, ResolveSessionDoes, EmptyRecords
     DEF TypeOK, SecretsAgree, ReqBecomes
<1>6. ASSUME NEW r \in Requests, NEW k \in Keys, Mint(r, k)
      PROVE  SecretsAgree'
  BY <1>1, <1>6, MintDoes, EmptyRecords
     DEF TypeOK, SecretsAgree, Ended, ReqBecomes, KeyBecomes
<1>7. ASSUME NEW r \in Requests, NEW k \in Keys, Revoke(r, k)
      PROVE  SecretsAgree'
  BY <1>1, <1>7, RevokeDoes, EmptyRecords
     DEF TypeOK, SecretsAgree, Ended, ReqBecomes, KeyBecomes
<1>8. ASSUME NEW r \in Requests, NEW v \in Values, SetCreds(r, v)
      PROVE  SecretsAgree'
  BY <1>1, <1>8, SetCredsDoes, EmptyRecords
     DEF TypeOK, SecretsAgree, Ended, ReqBecomes
<1>9. ASSUME NEW r \in Requests,
             \/ Credentials(r) \/ SettingsKeys(r) \/ Settings(r)
             \/ \E b \in Bodies : Undecoded(r, b)
      PROVE  SecretsAgree'
  BY <1>1, <1>9, TellDoes, EmptyRecords
     DEF TypeOK, SecretsAgree, ReqBecomes
<1>10. ASSUME NEW r \in Requests, Other(r)
      PROVE  SecretsAgree'
  BY <1>1, <1>10, OtherDoes, EmptyRecords
     DEF TypeOK, SecretsAgree, Ended, ReqBecomes
<1>11. ASSUME NEW m \in Masters, Restart(m)
      PROVE  SecretsAgree'
  BY <1>1, <1>11, RestartDoes, EmptyRecords
     DEF TypeOK, SecretsAgree
<1>12. CASE UNCHANGED vars
  BY <1>1, <1>12 DEF vars, history, TypeOK, SecretsAgree
<1> QED
  BY <1>2, <1>3, <1>4, <1>5, <1>6, <1>7, <1>8,
     <1>9, <1>10, <1>11, <1>12 DEF Next

------------------------------------------------------------------------------
(* The theorems. *)

LEMMA IInvInit == Init => IInv
<1> SUFFICES ASSUME Init PROVE IInv
  OBVIOUS
<1>1. TypeOK
  BY EmptyRecords DEF Init, TypeOK
<1>2. RowsAreMinted /\ SecretsAgree
  BY EmptyRecords DEF Init, RowsAreMinted, SecretsAgree, Present
<1>3. RequestsAgree /\ ActsAsHolder
  BY EmptyRecords DEF Init, RequestsAgree, KnowsItsKey, ActsAsHolder
<1>4. QED BY <1>1, <1>2, <1>3 DEF IInv

\* The invariant is inductive and holds in every reachable state.
THEOREM ApiKeysInvariance == Spec => []IInv
<1>1. IInv /\ [Next]_vars => IInv'
  BY TypeStep, RowsStep, RequestsStep, HolderStep, SecretsStep DEF IInv
<1>2. QED BY <1>1, IInvInit, PTL DEF Spec

\* Requests that come after the answer to a revocation are not let in by the key,
\* for any number of keys, requests and failures.
THEOREM RevokedAreOut == Spec => []RevokedStaysOut
<1>1. IInv => RevokedStaysOut
  BY DEF IInv, RequestsAgree, KnowsItsKey, RevokedStaysOut
<1>2. QED BY <1>1, ApiKeysInvariance, PTL

\* Whom a request acts as, however many keys share a prefix.
THEOREM HolderActs == Spec => []ActsAsHolder
<1>1. IInv => ActsAsHolder
  BY DEF IInv
<1>2. QED BY <1>1, ApiKeysInvariance, PTL

\* Nobody else revokes a key.
THEOREM HolderRevokes == Spec => OnlyHolderRevokes
<1>1. IInv /\ [Next]_vars => [RemovedByHolder]_vars
  <2> SUFFICES ASSUME IInv, [Next]_vars, NEW k \in Keys, Present(k), ~Present(k)'
               PROVE  \E r \in Requests :
                 /\ req[r].pc = "act" /\ req'[r].pc = "idle"
                 /\ keys[k].user \in
                      {req[r].cookie} \cup {minter[l] : l \in {req[r].key} \cap Keys}
    BY DEF RemovedByHolder
  <2>1. TypeOK /\ RowsAreMinted /\ RequestsAgree /\ ActsAsHolder
    BY DEF IInv
  <2>2. ASSUME NEW r \in Requests, NEW l \in Keys, Revoke(r, l)
        PROVE  /\ req[r].pc = "act" /\ req'[r].pc = "idle"
               /\ keys[k].user \in
                    {req[r].cookie} \cup {minter[j] : j \in {req[r].key} \cap Keys}
    <3>1. k = l /\ req[r].pc = "act" /\ req'[r].pc = "idle" /\ keys[k].user = req[r].user
      BY <2>1, <2>2, RevokeDoes, EmptyRecords DEF KeyBecomes, Present, Ended, ReqBecomes
    <3>2. QED BY <2>1, <3>1 DEF ActsAsHolder
  <2>3. ASSUME NEW r \in Requests, NEW l \in Keys, Mint(r, l) PROVE FALSE
    BY <2>1, <2>3, MintDoes, NoneAssumption DEF KeyBecomes, Present
  <2>4. ASSUME NEW r \in Requests, Touch(r) PROVE FALSE
    BY <2>1, <2>4, TouchDoes DEF Present
  <2>5. CASE UNCHANGED keys
    BY <2>5 DEF Present
  <2>6. ASSUME NEW r \in Requests,
               \/ \E l \in Keys \cup {NoKey}, u \in Users \cup {NoOne} : Arrive(r, l, u)
               \/ ResolveBearer(r) \/ ResolveSession(r)
               \/ \E v \in Values : SetCreds(r, v)
               \/ \E b \in Bodies : Undecoded(r, b)
               \/ Credentials(r) \/ SettingsKeys(r) \/ Settings(r) \/ Other(r)
        PROVE  UNCHANGED keys
    BY <2>6 DEF Arrive, ResolveBearer, ResolveSession, SetCreds, Credentials, SettingsKeys,
                Settings, Undecoded, Other
  <2>7. ASSUME (\E m \in Masters : Restart(m)) \/ UNCHANGED vars
        PROVE  UNCHANGED keys
    BY <2>7 DEF Restart, vars
  <2>8. QED BY <2>2, <2>3, <2>4, <2>5, <2>6, <2>7 DEF Next
<1>2. QED BY <1>1, ApiKeysInvariance, PTL DEF Spec, OnlyHolderRevokes

\* What a step tells of a credential is what was stored last.
LEMMA TellsLatest == IInv /\ [Next]_vars => [GivenIsLatest /\ PageIsTrue]_vars
<1> SUFFICES ASSUME IInv, [Next]_vars, NEW r \in Requests
             PROVE  /\ req'[r].val \notin {req[r].val, NoValue} =>
                         req'[r].val = latest[req[r].user]
                    /\ req'[r].page = "unset" /\ req[r].page # "unset" =>
                         latest[req[r].user] = NoValue
  BY DEF GivenIsLatest, PageIsTrue
<1> DEFINE Same(s) == req'[s].val \in {req[s].val, NoValue} /\ req'[s].page \in {req[s].page, "none"}
<1>1. TypeOK /\ RowsAreMinted /\ RequestsAgree /\ SecretsAgree
  BY DEF IInv
<1>2. ASSUME NEW s \in Requests,
             \/ Credentials(s) \/ SettingsKeys(s) \/ Settings(s)
             \/ \E b \in Bodies : Undecoded(s, b)
      PROVE  \/ Same(r)
             \/ /\ req'[r].val \in {NoValue, latest[req[r].user]}
                /\ req'[r].page = "unset" => latest[req[r].user] = NoValue
  <2>1. CASE s # r
    BY <1>1, <1>2, <2>1, TellDoes DEF ReqBecomes
  <2>2. CASE s = r
    <3>1. req[r].user \in Users
      BY <1>1, <1>2, <2>2, TellDoes DEF RequestsAgree, KnowsItsKey, TypeOK, Reqs
    <3>2. QED BY <1>1, <1>2, <2>2, <3>1, TellDoes, EmptyRecords
              DEF ReqBecomes, SecretsAgree, Stored
  <2>3. QED BY <2>1, <2>2
<1>3. ASSUME NEW s \in Requests,
             \/ \E l \in Keys \cup {NoKey}, u \in Users \cup {NoOne} : Arrive(s, l, u)
             \/ ResolveBearer(s) \/ Touch(s) \/ ResolveSession(s) \/ Other(s)
             \/ \E l \in Keys : Mint(s, l) \/ Revoke(s, l)
             \/ \E v \in Values : SetCreds(s, v)
      PROVE  Same(r)
  <2>1. r # s => req'[r] = req[r]
    BY <1>1, <1>3 DEF TypeOK, Arrive, ResolveBearer, Touch, ResolveSession, Other, Mint,
                      Revoke, SetCreds
  <2>2. ASSUME NEW l \in Keys \cup {NoKey}, NEW u \in Users \cup {NoOne}, Arrive(s, l, u)
        PROVE  req'[s].val = NoValue /\ req'[s].page = "none"
    BY <1>1, <2>2, EmptyRecords DEF Arrive, TypeOK, NoReq
  <2>3. CASE req' = [req EXCEPT ![s] = NoReq]
    BY <1>1, <2>1, <2>3, EmptyRecords DEF TypeOK
  <2>4. ASSUME ResolveBearer(s) \/ Touch(s) \/ ResolveSession(s)
        PROVE  \/ req' = [req EXCEPT ![s] = NoReq]
               \/ req'[s].val = req[s].val /\ req'[s].page = req[s].page
    <3>1. req \in [Requests -> Reqs]
      BY <1>1 DEF TypeOK
    <3>2. CASE ResolveBearer(s)
      <4> DEFINE Q(q) == q.val = req[s].val /\ q.page = req[s].page
      <4>1. \A k \in Keys :
              Q([req[s] EXCEPT !.pc = "touch", !.hit = k, !.user = keys[k].user,
                               !.cookie = NoOne])
        BY <3>1 DEF Reqs
      <4>2. Q([req[s] EXCEPT !.pc = "cookie"])
        BY <3>1 DEF Reqs
      <4>3. \/ req'[s] = [req[s] EXCEPT !.pc = "cookie"]
            \/ \E k \in Keys :
                 req'[s] = [req[s] EXCEPT !.pc = "touch", !.hit = k, !.user = keys[k].user,
                                          !.cookie = NoOne]
        BY <3>1, <3>2 DEF ResolveBearer, GetByPrefix
      <4>4. QED BY <4>1, <4>2, <4>3
    <3>3. CASE Touch(s)
      BY <3>1, <3>3 DEF Touch, Reqs
    <3>4. CASE ResolveSession(s)
      BY <3>1, <3>4 DEF ResolveSession, Reqs
    <3>5. QED BY <2>4, <3>2, <3>3, <3>4
  <2>5. ASSUME \/ Other(s)
               \/ \E l \in Keys : Mint(s, l) \/ Revoke(s, l)
               \/ \E v \in Values : SetCreds(s, v)
        PROVE  req' = [req EXCEPT ![s] = NoReq]
    BY <2>5 DEF Other, Mint, Revoke, SetCreds
  <2>6. QED BY <1>3, <2>1, <2>2, <2>3, <2>4, <2>5
<1>4. ASSUME (\E m \in Masters : Restart(m)) \/ UNCHANGED vars
      PROVE  Same(r)
  BY <1>1, <1>4, EmptyRecords DEF Restart, vars
<1> HIDE DEF Same
<1>5. \/ Same(r)
      \/ /\ req'[r].val \in {NoValue, latest[req[r].user]}
         /\ req'[r].page = "unset" => latest[req[r].user] = NoValue
  BY <1>2, <1>3, <1>4 DEF Next
<1>6. QED BY <1>5 DEF Same

\* A job gets its user's last credential, under whatever master keys it was stored.
THEOREM LatestCredential == Spec => CredentialIsLatest
<1>1. IInv /\ [Next]_vars => [GivenIsLatest]_vars
  BY TellsLatest
<1>2. QED BY <1>1, ApiKeysInvariance, PTL DEF Spec, CredentialIsLatest

\* The settings page asks only those for a credential who have none.
THEOREM PageTrue == Spec => SettingsPageIsTrue
<1>1. IInv /\ [Next]_vars => [PageIsTrue]_vars
  BY TellsLatest
<1>2. QED BY <1>1, ApiKeysInvariance, PTL DEF Spec, SettingsPageIsTrue
=============================================================================
