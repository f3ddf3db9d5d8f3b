------------------------- MODULE InstallationsProofs -------------------------
(***************************************************************************)
(* What every instance of Installations keeps.  The first lemmas say what  *)
(* each action does to the variables, entry by entry; then each part of    *)
(* the inductive invariant has a lemma with one step per action.           *)
(***************************************************************************)
EXTENDS Installations, FiniteSetTheorems, TLAPS

\* The callback k becomes c.
CallBecomes(k, c) ==
  /\ call' \in [Callbacks -> Calls]
  /\ call'[k] = c
  /\ \A l \in Callbacks \ {k} : call'[l] = call[l]

\* The row of i becomes r.
RowBecomes(i, r) ==
  /\ row' \in [Installs -> Rows]
  /\ row'[i] = r
  /\ \A m \in Installs \ {i} : row'[m] = row[m]

\* The lookup f becomes l.
LookBecomes(f, l) ==
  /\ look' \in [Lookups -> Looks]
  /\ look'[f] = l
  /\ \A g \in Lookups \ {f} : look'[g] = look[g]

------------------------------------------------------------------------------
(* The actions. *)

\* A page is not empty unless there is nothing to list.
LEMMA ListedIsPart ==
  ASSUME NEW i \in Installs, NEW R \in Listed(i)
  PROVE  ListIsPart(R, i)
<1>1. R \subseteq grants[i]
  BY DEF Listed
<1>2. Cardinality({}) # PageSize
  BY FS_EmptySet, PageSizeAssumption
<1>3. QED BY <1>1, <1>2 DEF Listed, ListIsPart

LEMMA EmptyRecords ==
  /\ NoCall \in Calls /\ NoCall.pc = "idle"
  /\ NoRow \in Rows /\ NoRow.user = NoOne /\ NoRow.repos = {}
  BY DEF NoCall, Calls, NoRow, Rows

LEMMA InstallDoes ==
  ASSUME TypeOK, NEW i \in Installs, NEW R \in SUBSET Repos, Install(i, R)
  PROVE  /\ github' \in [Installs -> {"none", "live", "gone"}]
         /\ grants' \in [Installs -> SUBSET Repos]
         /\ github[i] = "none" /\ github'[i] = "live"
         /\ \A m \in Installs \ {i} : github'[m] = github[m] /\ grants'[m] = grants[m]
         /\ UNCHANGED <<changed, row, seen, handling, call, look, faulty, writers, removed, overtaken>>
  BY DEF Install, TypeOK, memory, history

LEMMA RegrantDoes ==
  ASSUME TypeOK, NEW i \in Installs, NEW R \in SUBSET Repos, Regrant(i, R)
  PROVE  /\ grants' \in [Installs -> SUBSET Repos]
         /\ changed' = changed \cup {i}
         /\ \A m \in Installs \ {i} : grants'[m] = grants[m]
         /\ UNCHANGED <<github, row, seen, handling, call, look, faulty, writers, removed, overtaken>>
  BY DEF Regrant, TypeOK, memory, history

LEMMA UninstallDoes ==
  ASSUME TypeOK, NEW i \in Installs, Uninstall(i)
  PROVE  /\ github' \in [Installs -> {"none", "live", "gone"}]
         /\ github[i] = "live" /\ github'[i] = "gone"
         /\ \A m \in Installs \ {i} : github'[m] = github[m]
         /\ UNCHANGED <<grants, changed, row, seen, handling, call, look, faulty,
                        writers, removed, overtaken>>
  BY DEF Uninstall, TypeOK, memory, history

LEMMA CallbackStartDoes ==
  ASSUME TypeOK, NEW k \in Callbacks, NEW u \in Users, NEW i \in Installs,
         CallbackStart(k, u, i)
  PROVE  /\ github[i] # "none"
         /\ CallBecomes(k, call'[k])
         /\ call'[k].pc = "token" /\ call'[k].inst = i /\ call'[k].user = u
         /\ UNCHANGED <<github, grants, changed, row, seen, handling, look, faulty,
                        writers, removed, overtaken>>
<1> DEFINE c == [pc |-> "token", user |-> u, inst |-> i, repos |-> {}]
<1>1. c \in Calls /\ c.pc = "token" /\ c.inst = i /\ c.user = u
  BY DEF Calls
<1> HIDE DEF c
<1>2. call' = [call EXCEPT ![k] = c]
  BY DEF CallbackStart, c
<1>3. CallBecomes(k, c)
  BY <1>1, <1>2 DEF TypeOK, CallBecomes
<1>4. QED BY <1>1, <1>3 DEF CallbackStart, CallBecomes, hub, history

LEMMA CallbackFailsDoes ==
  ASSUME TypeOK, NEW k \in Callbacks, CallbackFails(k)
  PROVE  /\ CallBecomes(k, NoCall)
         /\ UNCHANGED <<github, grants, changed, row, seen, handling, look, faulty,
                        writers, removed, overtaken>>
<1>1. CallBecomes(k, NoCall)
  BY EmptyRecords DEF TypeOK, CallBecomes, CallbackFails
<1>2. QED BY <1>1 DEF CallbackFails, hub, history

LEMMA CallbackTokenDoes ==
  ASSUME TypeOK, NEW k \in Callbacks, CallbackToken(k)
  PROVE  /\ call[k].pc = "token"
         /\ CallBecomes(k, call'[k])
         /\ \/ call'[k] = NoCall
            \/ /\ call'[k].pc = "list"
               /\ call'[k].inst = call[k].inst /\ call'[k].user = call[k].user
         /\ UNCHANGED <<github, grants, changed, row, seen, handling, look, faulty,
                        writers, removed, overtaken>>
<1>1. CASE CallbackFails(k)
  BY <1>1, CallbackFailsDoes DEF CallbackToken, CallBecomes
<1>2. CASE call' = [call EXCEPT ![k].pc = "list"]
  <2>1. call[k] \in Calls
    BY DEF TypeOK
  <2> DEFINE c == [call[k] EXCEPT !.pc = "list"]
  <2>2. c \in Calls /\ c.pc = "list" /\ c.inst = call[k].inst /\ c.user = call[k].user
    BY <2>1 DEF Calls
  <2>3. call' = [call EXCEPT ![k] = c]
    BY <1>2
  <2> HIDE DEF c
  <2>4. CallBecomes(k, c)
    BY <2>2, <2>3 DEF TypeOK, CallBecomes
  <2>5. QED BY <1>2, <2>2, <2>4, CallbackFailsDoes
               DEF CallbackToken, CallbackFails, CallBecomes, hub, history
<1>3. QED BY <1>1, <1>2 DEF CallbackToken

LEMMA CallbackListDoes ==
  ASSUME TypeOK, ListsAgree, NEW k \in Callbacks, CallbackList(k)
  PROVE  /\ call[k].pc = "list"
         /\ CallBecomes(k, call'[k])
         /\ \/ call'[k] = NoCall
            \/ /\ call'[k].pc = "upsert"
               /\ call'[k].inst = call[k].inst /\ call'[k].user = call[k].user
               /\ github[call[k].inst] = "live"
               /\ call'[k].repos \in Listed(call[k].inst)
         /\ UNCHANGED <<github, grants, changed, row, seen, handling, look, faulty,
                        writers, removed, overtaken>>
<1>0. call[k].pc = "list"
  BY DEF CallbackList
<1>1. CASE CallbackFails(k)
  BY <1>0, <1>1, CallbackFailsDoes DEF CallBecomes
<1>2. ASSUME github[call[k].inst] = "live", NEW R \in Listed(call[k].inst),
             call' = [call EXCEPT ![k].pc = "upsert", ![k].repos = R],
             UNCHANGED <<hub, row, seen, handling, look, faulty, history>>
      PROVE  /\ CallBecomes(k, call'[k])
             /\ call'[k].pc = "upsert"
             /\ call'[k].inst = call[k].inst /\ call'[k].user = call[k].user
             /\ call'[k].repos \in Listed(call[k].inst)
  <2>1. call[k] \in Calls /\ R \in SUBSET Repos
    <3>1. call[k] \in Calls
      BY DEF TypeOK
    <3>2. call[k].inst \in Installs
      BY <1>0 DEF ListsAgree
    <3>3. QED BY <1>2, <3>1, <3>2 DEF Listed, TypeOK
  <2> DEFINE c == [call[k] EXCEPT !.pc = "upsert", !.repos = R]
  <2>2. c \in Calls /\ c.pc = "upsert" /\ c.inst = call[k].inst
        /\ c.user = call[k].user /\ c.repos = R
    BY <2>1 DEF Calls
  <2>3. call' = [call EXCEPT ![k] = c]
    BY <1>2
  <2> HIDE DEF c
  <2>4. CallBecomes(k, c)
    BY <2>2, <2>3 DEF TypeOK, CallBecomes
  <2>5. QED BY <1>2, <2>2, <2>4 DEF CallBecomes
<1>3. QED BY <1>0, <1>1, <1>2 DEF CallbackList, hub, history

LEMMA CallbackUpsertDoes ==
  ASSUME TypeOK, ListsAgree, NEW k \in Callbacks, CallbackUpsert(k)
  PROVE  /\ call[k].pc = "upsert" /\ CallBecomes(k, NoCall)
         /\ call[k].inst \in Installs /\ call[k].user \in Users
         /\ \/ /\ RowBecomes(call[k].inst, row'[call[k].inst])
               /\ row'[call[k].inst].user = call[k].user
               /\ row'[call[k].inst].repos = call[k].repos
               /\ writers' \in [Installs -> SUBSET Users]
               /\ \A m \in Installs : writers[m] \subseteq writers'[m]
               /\ call[k].user \in writers'[call[k].inst]
            \/ UNCHANGED <<row, writers>>
         /\ UNCHANGED <<github, grants, changed, seen, handling, look, faulty, removed,
                        overtaken>>
<1>1. call[k].pc = "upsert" /\ call[k] \in Calls
      /\ call[k].inst \in Installs /\ call[k].user \in Users
  BY DEF CallbackUpsert, TypeOK, ListsAgree
<1>2. call[k].repos \in SUBSET Repos
  BY <1>1 DEF Calls
<1>3. CallBecomes(k, NoCall)
  BY EmptyRecords DEF TypeOK, CallBecomes, CallbackUpsert
<1>4. CASE Upsert(call[k].inst, call[k].user, call[k].repos)
  <2> DEFINE r == [user |-> call[k].user, repos |-> call[k].repos]
  <2>1. r \in Rows /\ r.user = call[k].user /\ r.repos = call[k].repos
    BY <1>1, <1>2 DEF Rows
  <2>2. row' = [row EXCEPT ![call[k].inst] = r]
    BY <1>4 DEF Upsert
  <2> HIDE DEF r
  <2>3. RowBecomes(call[k].inst, r)
    BY <1>1, <2>1, <2>2 DEF TypeOK, RowBecomes
  <2>4. /\ writers' \in [Installs -> SUBSET Users]
        /\ \A m \in Installs : writers[m] \subseteq writers'[m]
        /\ call[k].user \in writers'[call[k].inst]
    BY <1>1, <1>4 DEF Upsert, TypeOK
  <2>5. QED BY <1>1, <1>3, <2>1, <2>3, <2>4 DEF CallbackUpsert, RowBecomes, hub
<1>5. CASE UNCHANGED <<row, writers>>
  BY <1>1, <1>3, <1>5 DEF CallbackUpsert, hub
<1>6. QED BY <1>4, <1>5 DEF CallbackUpsert

LEMMA ReceiveDoes ==
  ASSUME TypeOK, NEW h \in Handlers, NEW d \in Deliveries, NEW named \in BOOLEAN,
         Receive(h, d, named)
  PROVE  /\ Sent(d) /\ seen' \in {seen, seen \cup {d}}
         /\ handling' \in [Handlers -> Installs \cup {NoOne}]
         /\ handling[h] = NoOne
         /\ \A g \in Handlers \ {h} : handling'[g] = handling[g]
         /\ \/ handling'[h] = NoOne /\ d[2] # "deleted"
            \/ handling'[h] = d[1] /\ d[1] \in Installs /\ d = <<d[1], "deleted">>
         /\ UNCHANGED <<github, grants, changed, row, call, look, faulty,
                        writers, removed, overtaken>>
<1>1. d[1] \in Installs /\ d = <<d[1], d[2]>>
  BY DEF Deliveries
<1>2. /\ UNCHANGED <<github, grants, changed, row, call, look, faulty,
                     writers, removed, overtaken>>
      /\ Sent(d) /\ seen' \in {seen, seen \cup {d}} /\ handling[h] = NoOne
  BY DEF Receive, hub, history
<1>3. CASE ActedOn(d)
  BY <1>1, <1>2, <1>3 DEF Receive, ActedOn, TypeOK
<1>4. CASE ~ActedOn(d)
  BY <1>2, <1>4 DEF Receive, ActedOn, TypeOK
<1>5. QED BY <1>3, <1>4

LEMMA DeleteDoes ==
  ASSUME TypeOK, NEW h \in Handlers, Delete(h)
  PROVE  /\ handling[h] \in Installs /\ handling[h] # NoOne
         /\ \/ /\ RowBecomes(handling[h], NoRow)
               /\ \/ removed' = removed /\ overtaken' = overtaken \cup {handling[h]}
                  \/ /\ ~AboutToWrite(handling[h])
                     /\ removed' = removed \cup {handling[h]} /\ overtaken' = overtaken
            \/ DbFails /\ UNCHANGED <<row, removed, overtaken>>
         /\ handling' \in [Handlers -> Installs \cup {NoOne}]
         /\ handling'[h] = NoOne
         /\ \A g \in Handlers \ {h} : handling'[g] = handling[g]
         /\ UNCHANGED <<github, grants, changed, seen, call, look, faulty, writers>>
<1>1. handling[h] \in Installs /\ handling[h] # NoOne
  BY DEF Delete, TypeOK
<1>2. row' = [row EXCEPT ![handling[h]] = NoRow] => RowBecomes(handling[h], NoRow)
  BY <1>1, EmptyRecords DEF TypeOK, RowBecomes
<1>3. handling' \in [Handlers -> Installs \cup {NoOne}] /\ handling'[h] = NoOne
      /\ \A g \in Handlers \ {h} : handling'[g] = handling[g]
  BY DEF Delete, TypeOK
<1>4. QED BY <1>1, <1>2, <1>3 DEF Delete, hub

LEMMA ExpireDoes ==
  ASSUME TypeOK, NEW d \in Deliveries, Expire(d)
  PROVE  /\ seen' \subseteq seen
         /\ UNCHANGED <<github, grants, changed, row, handling, call, look, faulty,
                        writers, removed, overtaken>>
  BY DEF Expire, hub, history

LEMMA LookupDoes ==
  ASSUME TypeOK, NEW f \in Lookups, NEW u \in Users, NEW r \in Repos, Lookup(f, u, r)
  PROVE  /\ LookBecomes(f, look'[f])
         /\ \/ /\ look'[f].pc = "token" /\ look'[f].user = u /\ look'[f].repo = r
               /\ look'[f].inst \in Installs /\ Covers(look'[f].inst, u, r)
            \/ look'[f].pc \in {"notFound", "error"}
         /\ UNCHANGED <<github, grants, changed, row, seen, handling, call, faulty,
                        writers, removed, overtaken>>
<1>1. ASSUME NEW pc \in {"token", "notFound", "error"}, NEW i \in Installs \cup {NoOne},
             look' = [look EXCEPT ![f] =
               [pc |-> pc, user |-> u, repo |-> r, inst |-> i]]
      PROVE  /\ LookBecomes(f, look'[f]) /\ look'[f].pc = pc /\ look'[f].user = u
             /\ look'[f].repo = r /\ look'[f].inst = i
  <2> DEFINE l == [pc |-> pc, user |-> u, repo |-> r, inst |-> i]
  <2>1. l \in Looks /\ l.pc = pc /\ l.user = u /\ l.repo = r /\ l.inst = i
    BY DEF Looks
  <2>2. look' = [look EXCEPT ![f] = l]
    BY <1>1
  <2> HIDE DEF l
  <2>3. LookBecomes(f, l)
    BY <2>1, <2>2 DEF TypeOK, LookBecomes
  <2>4. QED BY <2>1, <2>3 DEF LookBecomes
<1>2. UNCHANGED <<github, grants, changed, row, seen, handling, call, faulty,
                  writers, removed, overtaken>>
  BY DEF Lookup, hub, memory, history
<1>3. \/ \E i \in Installs :
           /\ Covers(i, u, r)
           /\ look' = [look EXCEPT ![f] =
                [pc |-> "token", user |-> u, repo |-> r, inst |-> i]]
      \/ \E pc \in {"notFound", "error"} :
           look' = [look EXCEPT ![f] =
             [pc |-> pc, user |-> u, repo |-> r, inst |-> NoOne]]
  BY DEF Lookup
<1>4. QED BY <1>1, <1>2, <1>3

LEMMA LookupTokenDoes ==
  ASSUME TypeOK, NEW f \in Lookups, LookupToken(f)
  PROVE  /\ look[f].pc = "token"
         /\ LookBecomes(f, look'[f])
         /\ look'[f].user = look[f].user /\ look'[f].repo = look[f].repo
         /\ look'[f].inst = look[f].inst
         /\ UNCHANGED <<github, grants, changed, row, seen, handling, call, faulty,
                        writers, removed, overtaken>>
<1>1. PICK pc \in {"granted", "error"} : look' = [look EXCEPT ![f].pc = pc]
  BY DEF LookupToken
<1>2. look[f] \in Looks
  BY DEF TypeOK
<1> DEFINE l == [look[f] EXCEPT !.pc = pc]
<1>3. l \in Looks /\ l.user = look[f].user /\ l.repo = look[f].repo
      /\ l.inst = look[f].inst
  BY <1>2 DEF Looks
<1>4. look' = [look EXCEPT ![f] = l]
  BY <1>1
<1> HIDE DEF l
<1>5. LookBecomes(f, l)
  BY <1>3, <1>4 DEF TypeOK, LookBecomes
<1>6. QED BY <1>3, <1>5 DEF LookupToken, LookBecomes, hub, memory, history

LEMMA RestartDoes ==
  ASSUME TypeOK, Restart
  PROVE  /\ seen' = {} /\ handling' \in [Handlers -> Installs \cup {NoOne}]
         /\ \A h \in Handlers : handling'[h] = NoOne
         /\ call' \in [Callbacks -> Calls]
         /\ \A k \in Callbacks : call'[k] = NoCall
         /\ look' \in [Lookups -> Looks]
         /\ \A f \in Lookups : look'[f] = look[f] \/ look'[f].pc = "error"
         /\ UNCHANGED <<github, grants, changed, row, faulty, writers, removed, overtaken>>
<1>1. \A f \in Lookups :
        /\ [look[f] EXCEPT !.pc = "error"] \in Looks
        /\ [look[f] EXCEPT !.pc = "error"].pc = "error"
  BY DEF TypeOK, Looks
<1>2. /\ look' \in [Lookups -> Looks]
      /\ \A f \in Lookups : look'[f] = look[f] \/ look'[f].pc = "error"
  BY <1>1 DEF Restart, TypeOK
<1>3. QED BY <1>2, EmptyRecords DEF Restart, Forgotten, hub, history

------------------------------------------------------------------------------
(* The parts of the invariant. *)

\* Every step keeps every variable in its type.
LEMMA TypeStep == IInv /\ [Next]_vars => TypeOK'
<1> SUFFICES ASSUME IInv, [Next]_vars PROVE TypeOK'
  OBVIOUS
<1>1. TypeOK /\ ListsAgree
  BY DEF IInv
<1>2. ASSUME NEW i \in Installs, NEW R \in SUBSET Repos, Install(i, R)
      PROVE  TypeOK'
  BY <1>1, <1>2, InstallDoes
     DEF TypeOK
<1>3. ASSUME NEW i \in Installs, NEW R \in SUBSET Repos, Regrant(i, R)
      PROVE  TypeOK'
  BY <1>1, <1>3, RegrantDoes
     DEF TypeOK
<1>4. ASSUME NEW i \in Installs, Uninstall(i)
      PROVE  TypeOK'
  BY <1>1, <1>4, UninstallDoes
     DEF TypeOK
<1>5. ASSUME NEW k \in Callbacks, NEW u \in Users, NEW i \in Installs,
             CallbackStart(k, u, i)
      PROVE  TypeOK'
  BY <1>1, <1>5, CallbackStartDoes
     DEF TypeOK, CallBecomes
<1>6. ASSUME NEW k \in Callbacks, CallbackToken(k)
      PROVE  TypeOK'
  BY <1>1, <1>6, CallbackTokenDoes, EmptyRecords
     DEF TypeOK, CallBecomes
<1>7. ASSUME NEW k \in Callbacks, CallbackList(k)
      PROVE  TypeOK'
  BY <1>1, <1>7, CallbackListDoes, EmptyRecords
     DEF TypeOK, CallBecomes
<1>8. ASSUME NEW k \in Callbacks, CallbackUpsert(k)
      PROVE  TypeOK'
  BY <1>1, <1>8, CallbackUpsertDoes, EmptyRecords
     DEF TypeOK, CallBecomes, RowBecomes
<1>9. ASSUME NEW h \in Handlers, NEW d \in Deliveries,
             NEW named \in BOOLEAN, Receive(h, d, named)
      PROVE  TypeOK'
  BY <1>1, <1>9, ReceiveDoes
     DEF TypeOK
<1>10. ASSUME NEW h \in Handlers, Delete(h)
      PROVE  TypeOK'
  BY <1>1, <1>10, DeleteDoes, EmptyRecords
     DEF TypeOK, RowBecomes
<1>11. ASSUME NEW d \in Deliveries, Expire(d)
      PROVE  TypeOK'
  BY <1>1, <1>11, ExpireDoes
     DEF TypeOK
<1>12. ASSUME NEW f \in Lookups, NEW u \in Users, NEW r \in Repos, Lookup(f, u, r)
      PROVE  TypeOK'
  BY <1>1, <1>12, LookupDoes
     DEF TypeOK, LookBecomes
<1>13. ASSUME NEW f \in Lookups, LookupToken(f)
      PROVE  TypeOK'
  BY <1>1, <1>13, LookupTokenDoes
     DEF TypeOK, LookBecomes
<1>14. CASE Restart
  BY <1>1, <1>14, RestartDoes, EmptyRecords
     DEF TypeOK
<1>15. CASE UNCHANGED vars
  BY <1>1, <1>15 DEF vars, TypeOK
<1> QED
  BY <1>2, <1>3, <1>4, <1>5, <1>6, <1>7, <1>8,
     <1>9, <1>10, <1>11, <1>12, <1>13, <1>14, <1>15 DEF Next

\* A delivery is acted on by the handler that remembered it, and nobody else.
LEMMA DeletionsStep == IInv /\ [Next]_vars => DeletionsAreTrue'
<1> SUFFICES ASSUME IInv, [Next]_vars PROVE DeletionsAreTrue'
  OBVIOUS
<1>1. TypeOK /\ DeletionsAreTrue /\ ListsAgree
  BY DEF IInv
<1>2. ASSUME NEW i \in Installs, NEW R \in SUBSET Repos, Install(i, R)
      PROVE  DeletionsAreTrue'
  BY <1>1, <1>2, InstallDoes
     DEF TypeOK, DeletionsAreTrue, DbFails
<1>3. ASSUME NEW i \in Installs, NEW R \in SUBSET Repos, Regrant(i, R)
      PROVE  DeletionsAreTrue'
  BY <1>1, <1>3, RegrantDoes
     DEF TypeOK, DeletionsAreTrue, DbFails
<1>4. ASSUME NEW i \in Installs, Uninstall(i)
      PROVE  DeletionsAreTrue'
  BY <1>1, <1>4, UninstallDoes
     DEF TypeOK, DeletionsAreTrue, DbFails
<1>5. ASSUME NEW k \in Callbacks, NEW u \in Users, NEW i \in Installs,
             CallbackStart(k, u, i)
      PROVE  DeletionsAreTrue'
  BY <1>1, <1>5, CallbackStartDoes
     DEF TypeOK, DeletionsAreTrue, DbFails, CallBecomes
<1>6. ASSUME NEW k \in Callbacks, CallbackToken(k)
      PROVE  DeletionsAreTrue'
  BY <1>1, <1>6, CallbackTokenDoes, EmptyRecords
     DEF TypeOK, DeletionsAreTrue, DbFails, CallBecomes
<1>7. ASSUME NEW k \in Callbacks, CallbackList(k)
      PROVE  DeletionsAreTrue'
  BY <1>1, <1>7, CallbackListDoes, EmptyRecords
     DEF TypeOK, DeletionsAreTrue, DbFails, CallBecomes
<1>8. ASSUME NEW k \in Callbacks, CallbackUpsert(k)
      PROVE  DeletionsAreTrue'
  BY <1>1, <1>8, CallbackUpsertDoes, EmptyRecords
     DEF TypeOK, DeletionsAreTrue, DbFails, CallBecomes, RowBecomes
<1>9. ASSUME NEW h \in Handlers, NEW d \in Deliveries,
             NEW named \in BOOLEAN, Receive(h, d, named)
      PROVE  DeletionsAreTrue'
  <2>1. \A g \in Handlers : handling'[g] # NoOne => github'[handling'[g]] = "gone"
    BY <1>1, <1>9, ReceiveDoes DEF DeletionsAreTrue, Sent
  <2>2. ASSUME NEW i \in Installs, <<i, "deleted">> \in seen', ~DbFails
        PROVE  i \in removed' \cup overtaken' \/ \E g \in Handlers : handling'[g] = i
    <3>1. CASE d = <<i, "deleted">>
      BY <1>1, <1>9, <3>1, ReceiveDoes
    <3>2. CASE d # <<i, "deleted">>
      <4>1. i # NoOne /\ <<i, "deleted">> \in seen
        BY <1>1, <1>9, <2>2, <3>2, ReceiveDoes, NoOneAssumption
      <4>2. i \in removed \cup overtaken \/ \E g \in Handlers : handling[g] = i
        BY <1>1, <2>2, <4>1 DEF DeletionsAreTrue
      <4>3. QED BY <1>1, <1>9, <4>1, <4>2, ReceiveDoes
    <3>3. QED BY <3>1, <3>2
  <2>3. DbFails' = DbFails
    BY <1>1, <1>9, ReceiveDoes DEF DbFails
  <2>4. QED BY <2>1, <2>2, <2>3 DEF DeletionsAreTrue
<1>10. ASSUME NEW h \in Handlers, Delete(h)
      PROVE  DeletionsAreTrue'
  <2>1. \A g \in Handlers : handling'[g] # NoOne => github'[handling'[g]] = "gone"
    BY <1>1, <1>10, DeleteDoes DEF DeletionsAreTrue
  <2>2. ASSUME NEW i \in Installs, <<i, "deleted">> \in seen', ~DbFails
        PROVE  i \in removed' \cup overtaken' \/ \E g \in Handlers : handling'[g] = i
    <3>1. i \in removed \cup overtaken \/ \E g \in Handlers : handling[g] = i
      BY <1>1, <1>10, <2>2, DeleteDoes DEF DeletionsAreTrue
    <3>2. CASE handling[h] = i
      BY <1>1, <1>10, <2>2, <3>2, DeleteDoes
    <3>3. CASE handling[h] # i
      BY <1>1, <1>10, <2>2, <3>1, <3>3, DeleteDoes
    <3>4. QED BY <3>2, <3>3
  <2>3. DbFails' = DbFails
    BY <1>1, <1>10, DeleteDoes DEF DbFails
  <2>4. QED BY <2>1, <2>2, <2>3 DEF DeletionsAreTrue
<1>11. ASSUME NEW d \in Deliveries, Expire(d)
      PROVE  DeletionsAreTrue'
  BY <1>1, <1>11, ExpireDoes
     DEF TypeOK, DeletionsAreTrue, DbFails
<1>12. ASSUME NEW f \in Lookups, NEW u \in Users, NEW r \in Repos, Lookup(f, u, r)
      PROVE  DeletionsAreTrue'
  BY <1>1, <1>12, LookupDoes
     DEF TypeOK, DeletionsAreTrue, DbFails, LookBecomes
<1>13. ASSUME NEW f \in Lookups, LookupToken(f)
      PROVE  DeletionsAreTrue'
  BY <1>1, <1>13, LookupTokenDoes
     DEF TypeOK, DeletionsAreTrue, DbFails, LookBecomes
<1>14. CASE Restart
  BY <1>1, <1>14, RestartDoes, EmptyRecords
     DEF TypeOK, DeletionsAreTrue, DbFails
<1>15. CASE UNCHANGED vars
  BY <1>1, <1>15 DEF vars, TypeOK, DeletionsAreTrue, DbFails
<1> QED
  BY <1>2, <1>3, <1>4, <1>5, <1>6, <1>7, <1>8,
     <1>9, <1>10, <1>11, <1>12, <1>13, <1>14, <1>15 DEF Next

\* A callback gets as far as writing only while the installation is live.
LEMMA RemovedStep == IInv /\ [Next]_vars => RemovedIsOver'
<1> SUFFICES ASSUME IInv, [Next]_vars PROVE RemovedIsOver'
  OBVIOUS
<1>1. TypeOK /\ DeletionsAreTrue /\ RemovedIsOver /\ ListsAgree
  BY DEF IInv
<1>2. ASSUME NEW i \in Installs, NEW R \in SUBSET Repos, Install(i, R)
      PROVE  RemovedIsOver'
  BY <1>1, <1>2, InstallDoes
     DEF TypeOK, RemovedIsOver, AboutToWrite
<1>3. ASSUME NEW i \in Installs, NEW R \in SUBSET Repos, Regrant(i, R)
      PROVE  RemovedIsOver'
  BY <1>1, <1>3, RegrantDoes
     DEF TypeOK, RemovedIsOver, AboutToWrite
<1>4. ASSUME NEW i \in Installs, Uninstall(i)
      PROVE  RemovedIsOver'
  BY <1>1, <1>4, UninstallDoes
     DEF TypeOK, RemovedIsOver, AboutToWrite
<1>5. ASSUME NEW k \in Callbacks, NEW u \in Users, NEW i \in Installs,
             CallbackStart(k, u, i)
      PROVE  RemovedIsOver'
  BY <1>1, <1>5, CallbackStartDoes
     DEF TypeOK, RemovedIsOver, AboutToWrite, CallBecomes
<1>6. ASSUME NEW k \in Callbacks, CallbackToken(k)
      PROVE  RemovedIsOver'
  BY <1>1, <1>6, CallbackTokenDoes, EmptyRecords
     DEF TypeOK, RemovedIsOver, AboutToWrite, CallBecomes
<1>7. ASSUME NEW k \in Callbacks, CallbackList(k)
      PROVE  RemovedIsOver'
  BY <1>1, <1>7, CallbackListDoes, EmptyRecords
     DEF TypeOK, RemovedIsOver, AboutToWrite, CallBecomes
<1>8. ASSUME NEW k \in Callbacks, CallbackUpsert(k)
      PROVE  RemovedIsOver'
  BY <1>1, <1>8, CallbackUpsertDoes, EmptyRecords
     DEF TypeOK, RemovedIsOver, AboutToWrite, CallBecomes, RowBecomes
<1>9. ASSUME NEW h \in Handlers, NEW d \in Deliveries,
             NEW named \in BOOLEAN, Receive(h, d, named)
      PROVE  RemovedIsOver'
  BY <1>1, <1>9, ReceiveDoes
     DEF TypeOK, RemovedIsOver, AboutToWrite
<1>10. ASSUME NEW h \in Handlers, Delete(h)
      PROVE  RemovedIsOver'
  <2>1. github[handling[h]] = "gone"
    BY <1>1, <1>10, DeleteDoes DEF DeletionsAreTrue
  <2>2. \A i \in Installs : AboutToWrite(i)' = AboutToWrite(i)
    BY <1>1, <1>10, DeleteDoes DEF AboutToWrite
  <2>3. QED BY <1>1, <1>10, <2>1, <2>2, DeleteDoes DEF RemovedIsOver, RowBecomes, TypeOK
<1>11. ASSUME NEW d \in Deliveries, Expire(d)
      PROVE  RemovedIsOver'
  BY <1>1, <1>11, ExpireDoes
     DEF TypeOK, RemovedIsOver, AboutToWrite
<1>12. ASSUME NEW f \in Lookups, NEW u \in Users, NEW r \in Repos, Lookup(f, u, r)
      PROVE  RemovedIsOver'
  BY <1>1, <1>12, LookupDoes
     DEF TypeOK, RemovedIsOver, AboutToWrite, LookBecomes
<1>13. ASSUME NEW f \in Lookups, LookupToken(f)
      PROVE  RemovedIsOver'
  BY <1>1, <1>13, LookupTokenDoes
     DEF TypeOK, RemovedIsOver, AboutToWrite, LookBecomes
<1>14. CASE Restart
  BY <1>1, <1>14, RestartDoes, EmptyRecords
     DEF TypeOK, RemovedIsOver, AboutToWrite
<1>15. CASE UNCHANGED vars
  BY <1>1, <1>15 DEF vars, TypeOK, RemovedIsOver, AboutToWrite
<1> QED
  BY <1>2, <1>3, <1>4, <1>5, <1>6, <1>7, <1>8,
     <1>9, <1>10, <1>11, <1>12, <1>13, <1>14, <1>15 DEF Next

\* Lists stay what GitHub gave until the repositories are changed there.
LEMMA ListsStep == IInv /\ [Next]_vars => ListsAgree'
<1> SUFFICES ASSUME IInv, [Next]_vars PROVE ListsAgree'
  OBVIOUS
<1>1. TypeOK /\ ListsAgree
  BY DEF IInv
<1>2. ASSUME NEW i \in Installs, NEW R \in SUBSET Repos, Install(i, R)
      PROVE  ListsAgree'
  BY <1>1, <1>2, InstallDoes
     DEF TypeOK, ListsAgree, ListIsPart
<1>3. ASSUME NEW i \in Installs, NEW R \in SUBSET Repos, Regrant(i, R)
      PROVE  ListsAgree'
  BY <1>1, <1>3, RegrantDoes
     DEF TypeOK, ListsAgree, ListIsPart
<1>4. ASSUME NEW i \in Installs, Uninstall(i)
      PROVE  ListsAgree'
  BY <1>1, <1>4, UninstallDoes
     DEF TypeOK, ListsAgree, ListIsPart
<1>5. ASSUME NEW k \in Callbacks, NEW u \in Users, NEW i \in Installs,
             CallbackStart(k, u, i)
      PROVE  ListsAgree'
  BY <1>1, <1>5, CallbackStartDoes
     DEF TypeOK, ListsAgree, ListIsPart, CallBecomes
<1>6. ASSUME NEW k \in Callbacks, CallbackToken(k)
      PROVE  ListsAgree'
  BY <1>1, <1>6, CallbackTokenDoes, EmptyRecords
     DEF TypeOK, ListsAgree, ListIsPart, CallBecomes
<1>7. ASSUME NEW k \in Callbacks, CallbackList(k)
      PROVE  ListsAgree'
  <2>1. call'[k].pc = "upsert" => ListIsPart(call'[k].repos, call[k].inst)
    BY <1>1, <1>7, CallbackListDoes, ListedIsPart, EmptyRecords DEF ListsAgree
  <2>2. QED BY <1>1, <1>7, <2>1, CallbackListDoes, EmptyRecords
        DEF TypeOK, ListsAgree, ListIsPart, CallBecomes
<1>8. ASSUME NEW k \in Callbacks, CallbackUpsert(k)
      PROVE  ListsAgree'
  BY <1>1, <1>8, CallbackUpsertDoes, EmptyRecords
     DEF TypeOK, ListsAgree, ListIsPart, CallBecomes, RowBecomes
<1>9. ASSUME NEW h \in Handlers, NEW d \in Deliveries,
             NEW named \in BOOLEAN, Receive(h, d, named)
      PROVE  ListsAgree'
  BY <1>1, <1>9, ReceiveDoes
     DEF TypeOK, ListsAgree, ListIsPart
<1>10. ASSUME NEW h \in Handlers, Delete(h)
      PROVE  ListsAgree'
  BY <1>1, <1>10, DeleteDoes, EmptyRecords
     DEF TypeOK, ListsAgree, ListIsPart, RowBecomes
<1>11. ASSUME NEW d \in Deliveries, Expire(d)
      PROVE  ListsAgree'
  BY <1>1, <1>11, ExpireDoes
     DEF TypeOK, ListsAgree, ListIsPart
<1>12. ASSUME NEW f \in Lookups, NEW u \in Users, NEW r \in Repos, Lookup(f, u, r)
      PROVE  ListsAgree'
  BY <1>1, <1>12, LookupDoes
     DEF TypeOK, ListsAgree, ListIsPart, LookBecomes
<1>13. ASSUME NEW f \in Lookups, LookupToken(f)
      PROVE  ListsAgree'
  BY <1>1, <1>13, LookupTokenDoes
     DEF TypeOK, ListsAgree, ListIsPart, LookBecomes
<1>14. CASE Restart
  BY <1>1, <1>14, RestartDoes, EmptyRecords
     DEF TypeOK, ListsAgree, ListIsPart
<1>15. CASE UNCHANGED vars
  BY <1>1, <1>15 DEF vars, TypeOK, ListsAgree, ListIsPart
<1> QED
  BY <1>2, <1>3, <1>4, <1>5, <1>6, <1>7, <1>8,
     <1>9, <1>10, <1>11, <1>12, <1>13, <1>14, <1>15 DEF Next

\* A lookup finds what a callback of its user wrote.
LEMMA LooksStep == IInv /\ [Next]_vars => LooksAgree'
<1> SUFFICES ASSUME IInv, [Next]_vars PROVE LooksAgree'
  OBVIOUS
<1>1. TypeOK /\ ListsAgree /\ LooksAgree
  BY DEF IInv
<1>2. ASSUME NEW i \in Installs, NEW R \in SUBSET Repos, Install(i, R)
      PROVE  LooksAgree'
  BY <1>1, <1>2, InstallDoes
     DEF TypeOK, LooksAgree
<1>3. ASSUME NEW i \in Installs, NEW R \in SUBSET Repos, Regrant(i, R)
      PROVE  LooksAgree'
  BY <1>1, <1>3, RegrantDoes
     DEF TypeOK, LooksAgree
<1>4. ASSUME NEW i \in Installs, Uninstall(i)
      PROVE  LooksAgree'
  BY <1>1, <1>4, UninstallDoes
     DEF TypeOK, LooksAgree
<1>5. ASSUME NEW k \in Callbacks, NEW u \in Users, NEW i \in Installs,
             CallbackStart(k, u, i)
      PROVE  LooksAgree'
  BY <1>1, <1>5, CallbackStartDoes
     DEF TypeOK, LooksAgree, CallBecomes
<1>6. ASSUME NEW k \in Callbacks, CallbackToken(k)
      PROVE  LooksAgree'
  BY <1>1, <1>6, CallbackTokenDoes, EmptyRecords
     DEF TypeOK, LooksAgree, CallBecomes
<1>7. ASSUME NEW k \in Callbacks, CallbackList(k)
      PROVE  LooksAgree'
  BY <1>1, <1>7, CallbackListDoes, EmptyRecords
     DEF TypeOK, LooksAgree, CallBecomes
<1>8. ASSUME NEW k \in Callbacks, CallbackUpsert(k)
      PROVE  LooksAgree'
  BY <1>1, <1>8, CallbackUpsertDoes, EmptyRecords
     DEF TypeOK, LooksAgree, CallBecomes, RowBecomes, ListsAgree
<1>9. ASSUME NEW h \in Handlers, NEW d \in Deliveries,
             NEW named \in BOOLEAN, Receive(h, d, named)
      PROVE  LooksAgree'
  BY <1>1, <1>9, ReceiveDoes
     DEF TypeOK, LooksAgree
<1>10. ASSUME NEW h \in Handlers, Delete(h)
      PROVE  LooksAgree'
  BY <1>1, <1>10, DeleteDoes, EmptyRecords
     DEF TypeOK, LooksAgree, RowBecomes
<1>11. ASSUME NEW d \in Deliveries, Expire(d)
      PROVE  LooksAgree'
  BY <1>1, <1>11, ExpireDoes
     DEF TypeOK, LooksAgree
<1>12. ASSUME NEW f \in Lookups, NEW u \in Users, NEW r \in Repos, Lookup(f, u, r)
      PROVE  LooksAgree'
  <2>1. CASE look'[f].pc = "token"
    <3> DEFINE i == look'[f].inst
    <3>1. /\ look'[f].user = u /\ look'[f].repo = r /\ i \in Installs
          /\ row[i].user = u /\ (row[i].repos = {} \/ r \in row[i].repos)
      BY <1>1, <1>12, <2>1, LookupDoes DEF Covers
    <3>2. row[i] # NoRow /\ u # NoOne
      BY <3>1, NoOneAssumption, EmptyRecords
    <3>3. /\ github[i] # "none" /\ u \in writers[i]
          /\ i \in changed \/ grants[i] = {} \/ r \in grants[i]
      BY <1>1, <3>1, <3>2 DEF ListsAgree, LooksAgree, ListIsPart
    <3>4. QED BY <1>1, <1>12, <2>1, <3>1, <3>3, LookupDoes DEF LooksAgree, LookBecomes
  <2>2. CASE look'[f].pc \in {"notFound", "error"}
    BY <1>1, <1>12, <2>2, LookupDoes DEF LooksAgree, LookBecomes
  <2>3. QED BY <1>1, <1>12, <2>1, <2>2, LookupDoes
<1>13. ASSUME NEW f \in Lookups, LookupToken(f)
      PROVE  LooksAgree'
  BY <1>1, <1>13, LookupTokenDoes
     DEF TypeOK, LooksAgree, LookBecomes
<1>14. CASE Restart
  BY <1>1, <1>14, RestartDoes, EmptyRecords
     DEF TypeOK, LooksAgree
<1>15. CASE UNCHANGED vars
  BY <1>1, <1>15 DEF vars, TypeOK, LooksAgree
<1> QED
  BY <1>2, <1>3, <1>4, <1>5, <1>6, <1>7, <1>8,
     <1>9, <1>10, <1>11, <1>12, <1>13, <1>14, <1>15 DEF Next

------------------------------------------------------------------------------
(* The theorems. *)

LEMMA IInvInit == Init => IInv
<1> SUFFICES ASSUME Init PROVE IInv
  OBVIOUS
<1>1. /\ NoLook \in Looks /\ NoLook.pc = "idle"
  BY DEF NoLook, Looks
<1>2. TypeOK
  BY <1>1, EmptyRecords DEF Init, TypeOK
<1>3. DeletionsAreTrue /\ RemovedIsOver
  BY DEF Init, DeletionsAreTrue, RemovedIsOver
<1>4. ListsAgree /\ LooksAgree
  BY <1>1, EmptyRecords DEF Init, ListsAgree, LooksAgree
<1>5. QED BY <1>2, <1>3, <1>4 DEF IInv

\* The invariant is inductive and holds in every reachable state.
THEOREM InstallationsInvariance == Spec => []IInv
<1>1. IInv /\ [Next]_vars => IInv'
  BY TypeStep, DeletionsStep, RemovedStep, ListsStep, LooksStep DEF IInv
<1>2. QED BY <1>1, IInvInit, PTL DEF Spec

\* While the database answers, a copy of a deletion's delivery that is dropped
\* for its id leaves no row behind, unless a callback overtakes the removal.
THEOREM CopiesMissNothing == Spec => []DroppedCopiesMissNothing
<1>1. IInv => DroppedCopiesMissNothing
  BY DEF IInv, DeletionsAreTrue, RemovedIsOver, AlreadyDelivered,
         DroppedCopiesMissNothing
<1>2. QED BY <1>1, InstallationsInvariance, PTL

\* A removal with no callback about to write is final: callbacks that come to
\* GitHub after the installation is gone get no list.
THEOREM RemovalIsFinal == Spec => []RemovedStays
<1>1. IInv => RemovedStays
  BY DEF IInv, RemovedIsOver, RemovedStays
<1>2. QED BY <1>1, InstallationsInvariance, PTL

\* Tokens are granted for listed repositories.
THEOREM GrantsCover == Spec => []GrantedCovers
<1>1. IInv => GrantedCovers
  BY DEF IInv, LooksAgree, GrantedCovers
<1>2. QED BY <1>1, InstallationsInvariance, PTL

\* Tokens are granted for installations the job's user has recorded.
THEOREM TokensAreUsers == Spec => []TokenForUser
<1>1. IInv => TokenForUser
  BY DEF IInv, LooksAgree, TokenForUser
<1>2. QED BY <1>1, InstallationsInvariance, PTL

\* Deletions are delivered, and so carried out, only for what is gone.
THEOREM LiveRowsStay == Spec => LiveRowStays
<1>1. IInv /\ [Next]_vars => [RowsKept]_vars
  <2> SUFFICES ASSUME IInv, [Next]_vars, NEW i \in Installs,
                      row[i] # NoRow, row'[i] = NoRow
               PROVE  github[i] = "gone"
    BY DEF RowsKept
  <2>1. TypeOK /\ DeletionsAreTrue /\ ListsAgree
    BY DEF IInv
  <2>2. ASSUME NEW h \in Handlers, Delete(h) PROVE github[i] = "gone"
    BY <2>1, <2>2, DeleteDoes DEF DeletionsAreTrue, RowBecomes
  <2>3. ASSUME NEW k \in Callbacks, CallbackUpsert(k) PROVE FALSE
    <3>1. NoOne \notin Users
      BY NoOneAssumption
    <3>2. QED BY <2>1, <2>3, <3>1, CallbackUpsertDoes, EmptyRecords DEF RowBecomes
  <2>4. CASE UNCHANGED row
    BY <2>4
  <2>5. ASSUME NEW k \in Callbacks,
               \/ CallbackToken(k) \/ CallbackList(k)
               \/ \E u \in Users, j \in Installs : CallbackStart(k, u, j)
        PROVE  UNCHANGED row
    BY <2>5 DEF CallbackToken, CallbackList, CallbackStart, CallbackFails
  <2>6. ASSUME NEW j \in Installs,
               \/ Uninstall(j)
               \/ \E R \in SUBSET Repos : Install(j, R) \/ Regrant(j, R)
        PROVE  UNCHANGED row
    BY <2>6 DEF Uninstall, Install, Regrant
  <2>7. ASSUME NEW d \in Deliveries,
               Expire(d) \/ \E h \in Handlers, named \in BOOLEAN : Receive(h, d, named)
        PROVE  UNCHANGED row
    BY <2>7 DEF Expire, Receive
  <2>8. ASSUME NEW f \in Lookups,
               \/ LookupToken(f)
               \/ \E u \in Users, r \in Repos : Lookup(f, u, r)
        PROVE  UNCHANGED row
    BY <2>8 DEF LookupToken, Lookup
  <2>9. CASE Restart \/ UNCHANGED vars
    BY <2>9 DEF Restart, vars
  <2>10. QED BY <2>2, <2>3, <2>4, <2>5, <2>6, <2>7, <2>8, <2>9 DEF Next
<1>2. QED BY <1>1, InstallationsInvariance, PTL DEF Spec, LiveRowStays
=============================================================================
