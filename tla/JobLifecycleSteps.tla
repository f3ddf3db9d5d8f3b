--------------------------- MODULE JobLifecycleSteps ---------------------------
(***************************************************************************)
(* What each action of JobLifecycle does to the variables, job by job.     *)
(* The lemmas turn updates of functions and records into equations between *)
(* values, so that the proofs of the invariants need no others.            *)
(***************************************************************************)
EXTENDS JobLifecycle, FiniteSetTheorems, TLAPS

\* The enqueue request of j goes from one state to another.
EnqMoves(j, from, to) ==
  /\ enq' \in [Jobs -> EnqueueStates]
  /\ enq[j] = from
  /\ enq'[j] = to
  /\ \A k \in Jobs \ {j} : enq'[k] = enq[k]

\* The supervisor of j goes from one state to another.
SupMoves(j, from, to) ==
  /\ sup' \in [Jobs -> Supervisors]
  /\ sup[j].pc = from
  /\ sup'[j].pc = to
  /\ \A k \in Jobs \ {j} : sup'[k] = sup[k]

\* The row of j is written, and no other.
RowWritten(j, job) ==
  /\ row' \in [Jobs -> Rows]
  /\ row'[j] = job
  /\ \A k \in Jobs \ {j} : row'[k] = row[k]
  /\ settled' \subseteq Jobs
  /\ settled \subseteq settled'
  /\ settled' \subseteq settled \cup {j}
  /\ job.st \in Terminal => j \in settled'

\* At most the container of j changes.
ContMoves(j) ==
  /\ cont' \in [Jobs -> {"none", "up", "exited", "gone"}]
  /\ exit' \in [Jobs -> {"none", "zero", "nonzero"}]
  /\ \A k \in Jobs \ {j} : cont'[k] = cont[k] /\ exit'[k] = exit[k]

\* The process is killed if there is one.
Killed(j) ==
  /\ ContMoves(j)
  /\ \/ cont[j] = "up" /\ cont'[j] = "exited" /\ exit'[j] = "nonzero"
     \/ cont'[j] = cont[j] /\ exit'[j] = exit[j]
  /\ "docker" \notin faulty => cont'[j] # "up"

------------------------------------------------------------------------------
(* Records. *)

\* The values written to a row are rows.
LEMMA MarksAreRows ==
  /\ NewJob \in Rows /\ NoRow \in Rows
  /\ MarkRunning(NewJob) \in Rows /\ MarkFailed(NewJob) \in Rows
  /\ \A r \in Rows : MarkSucceeded(r) \in Rows /\ MarkFailed(r) \in Rows
  /\ \A b \in BOOLEAN : [st |-> "cancelled", cid |-> b] \in Rows
  BY DEF NewJob, NoRow, Rows, Status, Active, Terminal, MarkRunning,
         MarkSucceeded, MarkFailed

\* The fields of the marked values.
LEMMA MarkedFields ==
  /\ NewJob.st = "queued" /\ NewJob.cid = FALSE
  /\ MarkRunning(NewJob).st = "running"
  /\ MarkFailed(NewJob).st = "failed" /\ MarkFailed(NewJob).cid = FALSE
  /\ \A r \in Rows :
       /\ MarkSucceeded(r).st = "succeeded" /\ MarkSucceeded(r).cid = r.cid
       /\ MarkFailed(r).st = "failed" /\ MarkFailed(r).cid = r.cid
  BY DEF NewJob, Rows, MarkRunning, MarkSucceeded, MarkFailed

LEMMA SupervisorTyped ==
  ASSUME NEW pc \in SuperviseStates
  PROVE  /\ Supervisor(pc) \in Supervisors
         /\ Supervisor(pc).pc = pc
         /\ Supervisor(pc).code = "none"
  BY MarksAreRows DEF Supervisor, Supervisors, Codes

LEMMA SupervisorFields ==
  ASSUME NEW s \in Supervisors
  PROVE  s.pc \in SuperviseStates /\ s.code \in Codes /\ s.hook \in BOOLEAN /\ s.job \in Rows
  BY DEF Supervisors

\* A supervisor whose state is replaced.
LEMMA SupervisorPc ==
  ASSUME NEW s \in Supervisors, NEW pc \in SuperviseStates
  PROVE  /\ [s EXCEPT !.pc = pc] \in Supervisors
         /\ [s EXCEPT !.pc = pc].pc = pc
         /\ [s EXCEPT !.pc = pc].code = s.code
         /\ [s EXCEPT !.pc = pc].job = s.job
  BY DEF Supervisors

\* Replacing the supervisor of one job.
LEMMA SupSet ==
  ASSUME TypeOK, NEW j \in Jobs, NEW s \in Supervisors, sup' = [sup EXCEPT ![j] = s]
  PROVE  /\ sup' \in [Jobs -> Supervisors]
         /\ sup'[j] = s
         /\ \A k \in Jobs \ {j} : sup'[k] = sup[k]
  BY DEF TypeOK

LEMMA SuperviseAtDoes ==
  ASSUME TypeOK, NEW j \in Jobs, NEW from, NEW to \in SuperviseStates,
         SuperviseAt(j, from, to)
  PROVE  /\ SupMoves(j, from, to)
         /\ sup'[j].code = sup[j].code
         /\ sup'[j].job = sup[j].job
<1>1. sup[j] \in Supervisors /\ sup[j].pc = from
  BY DEF TypeOK, SuperviseAt
<1>2. sup' = [sup EXCEPT ![j] = [sup[j] EXCEPT !.pc = to]]
  BY DEF SuperviseAt
<1>3. [sup[j] EXCEPT !.pc = to] \in Supervisors
  BY <1>1, SupervisorPc
<1>4. sup'[j] = [sup[j] EXCEPT !.pc = to] /\ sup' \in [Jobs -> Supervisors]
      /\ \A k \in Jobs \ {j} : sup'[k] = sup[k]
  BY <1>2, <1>3, SupSet
<1>5. QED BY <1>1, <1>4, SupervisorPc DEF SupMoves

LEMMA SuperviseDoneDoes ==
  ASSUME TypeOK, NEW j \in Jobs, NEW from, SuperviseDone(j, from)
  PROVE  SupMoves(j, from, "done")
<1>1. Supervisor("done") \in Supervisors /\ Supervisor("done").pc = "done"
  BY SupervisorTyped DEF SuperviseStates
<1>2. sup[j].pc = from /\ sup' = [sup EXCEPT ![j] = Supervisor("done")]
  BY DEF SuperviseDone
<1>3. sup' \in [Jobs -> Supervisors] /\ sup'[j] = Supervisor("done")
      /\ \A k \in Jobs \ {j} : sup'[k] = sup[k]
  BY <1>1, <1>2, SupSet
<1>4. QED BY <1>1, <1>2, <1>3 DEF SupMoves

LEMMA EnqueueAtDoes ==
  ASSUME TypeOK, NEW j \in Jobs, NEW from, NEW to \in EnqueueStates,
         EnqueueAt(j, from, to)
  PROVE  EnqMoves(j, from, to)
  BY DEF TypeOK, EnqueueAt, EnqMoves

\* Writing a row forgets no ending.
LEMMA WriteRowDoes ==
  ASSUME TypeOK, NEW j \in Jobs, NEW job \in Rows, WriteRow(j, job)
  PROVE  RowWritten(j, job)
<1>1. row' \in [Jobs -> Rows] /\ row'[j] = job /\ \A k \in Jobs \ {j} : row'[k] = row[k]
  BY DEF TypeOK, WriteRow
<1>2. settled' \subseteq Jobs /\ settled \subseteq settled'
      /\ settled' \subseteq settled \cup {j} /\ (job.st \in Terminal => j \in settled')
  BY DEF TypeOK, WriteRow, IsTerminal
<1>3. QED BY <1>1, <1>2 DEF RowWritten

LEMMA KillDoes ==
  ASSUME TypeOK, NEW j \in Jobs, TryKill(j)
  PROVE  Killed(j)
<1>1. CASE cont[j] = "up" /\ Kill(j)
  BY <1>1 DEF TypeOK, Kill, Killed, ContMoves
<1>2. CASE cont[j] # "up" /\ Kill(j)
  BY <1>2 DEF TypeOK, Kill, Killed, ContMoves
<1>3. CASE "docker" \in faulty /\ UNCHANGED <<cont, exit>>
  BY <1>3 DEF TypeOK, Killed, ContMoves
<1>4. QED BY <1>1, <1>2, <1>3 DEF TryKill

------------------------------------------------------------------------------
(* Requests and containers. *)

LEMMA ContainerExitDoes ==
  ASSUME TypeOK, NEW j \in Jobs, ContainerExit(j)
  PROVE  /\ ContMoves(j) /\ cont[j] = "up" /\ cont'[j] = "exited"
         /\ UNCHANGED <<row, settled, secrets, workspace, enq, cnl, sup, posted, tries,
                        srv, todo, adopted, stops, faulty>>
<1>1. PICK c \in {"zero", "nonzero"} : exit' = [exit EXCEPT ![j] = c]
  BY DEF ContainerExit
<1>2. cont[j] = "up" /\ cont' = [cont EXCEPT ![j] = "exited"]
  BY DEF ContainerExit
<1>3. ContMoves(j) /\ cont'[j] = "exited"
  BY <1>1, <1>2 DEF TypeOK, ContMoves
<1>4. QED BY <1>2, <1>3 DEF ContainerExit, db, hooks, process

LEMMA EnqueueReturnsDoes ==
  ASSUME TypeOK, NEW j \in Jobs, NEW from, EnqueueReturns(j, from)
  PROVE  /\ EnqMoves(j, from, "done")
         /\ UNCHANGED <<row, settled, cont, exit, secrets, workspace, cnl, sup, posted,
                        tries, srv, todo, adopted, stops, faulty>>
<1>1. EnqMoves(j, from, "done")
  BY EnqueueAtDoes DEF EnqueueReturns, EnqueueStates
<1>2. QED BY <1>1 DEF EnqueueReturns, db, host, hooks, process

\* The write of an enqueue request that may fail.
LEMMA EnqueueWritesDoes ==
  ASSUME TypeOK, NEW j \in Jobs, NEW job \in Rows, NEW from,
         NEW to \in EnqueueStates, EnqueueWrites(j, job, from, to)
  PROVE  /\ EnqMoves(j, from, to) \/ EnqMoves(j, from, "done")
         /\ \/ RowWritten(j, job)
            \/ UNCHANGED <<row, settled>> /\ EnqMoves(j, from, "done")
         /\ "db" \notin faulty /\ "disconnect" \notin faulty =>
              EnqMoves(j, from, to) /\ RowWritten(j, job)
         /\ UNCHANGED <<cont, exit, secrets, workspace, cnl, sup, posted, tries,
                        srv, todo, adopted, stops, faulty>>
<1>1. UNCHANGED <<cont, exit, secrets, workspace, cnl, sup, posted, tries,
                  srv, todo, adopted, stops, faulty>>
  BY DEF EnqueueWrites, host, hooks, process
<1>2. CASE EnqueueAt(j, from, to) /\ WriteRow(j, job)
  <2>1. EnqMoves(j, from, to) /\ RowWritten(j, job)
    BY <1>2, EnqueueAtDoes, WriteRowDoes
  <2>2. QED BY <1>1, <2>1
<1>3. CASE /\ RequestDbFails
           /\ EnqueueAt(j, from, "done")
           /\ WriteRow(j, job) \/ UNCHANGED db
  <2>1. EnqMoves(j, from, "done")
    BY <1>3, EnqueueAtDoes DEF EnqueueStates
  <2>2. RowWritten(j, job) \/ UNCHANGED <<row, settled>>
    BY <1>3, WriteRowDoes DEF db
  <2>3. QED BY <1>1, <1>3, <2>1, <2>2 DEF RequestDbFails
<1>4. QED BY <1>2, <1>3 DEF EnqueueWrites

LEMMA EnqueueCreateDoes ==
  ASSUME TypeOK, NEW j \in Jobs, EnqueueCreate(j)
  PROVE  /\ srv = "up" /\ enq[j] = "idle"
         /\ EnqMoves(j, "idle", "created") \/ EnqMoves(j, "idle", "done")
         /\ \/ RowWritten(j, NewJob)
            \/ UNCHANGED <<row, settled>> /\ EnqMoves(j, "idle", "done")
         /\ "db" \notin faulty /\ "disconnect" \notin faulty => EnqMoves(j, "idle", "created")
         /\ UNCHANGED <<cont, exit, secrets, workspace, cnl, sup, posted, tries,
                        srv, todo, adopted, stops, faulty>>
<1>1. "created" \in EnqueueStates /\ NewJob \in Rows
  BY MarksAreRows DEF EnqueueStates
<1>2. srv = "up" /\ EnqueueWrites(j, NewJob, "idle", "created")
  BY DEF EnqueueCreate
<1>3. enq[j] = "idle"
  BY <1>2 DEF EnqueueWrites, EnqueueAt
<1>4. QED BY <1>1, <1>2, <1>3, EnqueueWritesDoes

\* The two counts and the credentials: the request goes on or returns.
LEMMA EnqueueChecksDoes ==
  ASSUME TypeOK, NEW j \in Jobs,
         EnqueueCountUser(j) \/ EnqueueCountGlobal(j) \/ EnqueueCreds(j)
  PROVE  /\ \/ EnqMoves(j, "created", "userOk") \/ EnqMoves(j, "userOk", "capsOk")
            \/ EnqMoves(j, "capsOk", "ready")
            \/ \E from \in {"created", "userOk", "capsOk"} : EnqMoves(j, from, "done")
         /\ UNCHANGED <<row, settled, cont, exit, secrets, workspace, cnl, sup, posted,
                        tries, srv, todo, adopted, stops, faulty>>
<1> USE DEF db, host, hooks, process
<1>1. ASSUME NEW from \in {"created", "userOk", "capsOk"}, EnqueueReturns(j, from)
      PROVE  EnqMoves(j, from, "done")
  BY <1>1, EnqueueReturnsDoes
<1>2. ASSUME NEW from, NEW to \in EnqueueStates, EnqueueAt(j, from, to)
      PROVE  EnqMoves(j, from, to)
  BY <1>2, EnqueueAtDoes
<1>3. {"userOk", "capsOk", "ready"} \subseteq EnqueueStates
  BY DEF EnqueueStates
<1>4. CASE EnqueueCountUser(j)
  <2>1. EnqueueAt(j, "created", "userOk") \/ EnqueueReturns(j, "created")
    BY <1>4 DEF EnqueueCountUser
  <2>2. UNCHANGED <<row, settled, cont, exit, secrets, workspace, cnl, sup, posted,
                    tries, srv, todo, adopted, stops, faulty>>
    BY <1>4 DEF EnqueueCountUser, EnqueueReturns
  <2>3. QED BY <1>1, <1>2, <1>3, <2>1, <2>2
<1>5. CASE EnqueueCountGlobal(j)
  <2>1. EnqueueAt(j, "userOk", "capsOk") \/ EnqueueReturns(j, "userOk")
    BY <1>5 DEF EnqueueCountGlobal
  <2>2. UNCHANGED <<row, settled, cont, exit, secrets, workspace, cnl, sup, posted,
                    tries, srv, todo, adopted, stops, faulty>>
    BY <1>5 DEF EnqueueCountGlobal, EnqueueReturns
  <2>3. QED BY <1>1, <1>2, <1>3, <2>1, <2>2
<1>6. CASE EnqueueCreds(j)
  <2>1. EnqueueAt(j, "capsOk", "ready") \/ EnqueueReturns(j, "capsOk")
    BY <1>6 DEF EnqueueCreds
  <2>2. UNCHANGED <<row, settled, cont, exit, secrets, workspace, cnl, sup, posted,
                    tries, srv, todo, adopted, stops, faulty>>
    BY <1>6 DEF EnqueueCreds, EnqueueReturns
  <2>3. QED BY <1>1, <1>2, <1>3, <2>1, <2>2
<1>7. QED BY <1>4, <1>5, <1>6

\* The removal of one directory.
LEMMA RemoveDoes ==
  ASSUME NEW j \in Jobs
  PROVE  /\ RemoveWorkspace(j) =>
              workspace \ {j} \subseteq workspace' /\ workspace' \subseteq workspace
         /\ RemoveSecrets(j) =>
              /\ secrets \ {j} \subseteq secrets' /\ secrets' \subseteq secrets
              /\ j \notin secrets' \/ "disk" \in faulty
  BY DEF RemoveWorkspace, RemoveSecrets

\* What a request does to the directories of its job, before docker run and after
\* one that failed.
LEMMA EnqueueDirsDoes ==
  ASSUME TypeOK, NEW j \in Jobs, EnqueuePrepare(j) \/ EnqueueUndo(j)
  PROVE  /\ \/ EnqMoves(j, "ready", "made") /\ secrets' = secrets
            \/ EnqMoves(j, "made", "prepared") /\ j \in secrets'
            \/ /\ EnqMoves(j, "ready", "startFailed") \/ EnqMoves(j, "made", "startFailed")
               /\ "disk" \in faulty
            \/ /\ EnqMoves(j, "runFailed", "emptied") \/ EnqMoves(j, "runCut", "emptiedCut")
               /\ secrets' = secrets
            \/ /\ EnqMoves(j, "emptied", "startFailed") \/ EnqMoves(j, "emptiedCut", "done")
               /\ j \notin secrets' \/ "disk" \in faulty
         /\ secrets \ {j} \subseteq secrets' /\ secrets' \subseteq secrets \cup {j}
         /\ workspace \ {j} \subseteq workspace' /\ workspace' \subseteq workspace \cup {j}
         /\ UNCHANGED <<row, settled, cont, exit, cnl, sup, posted, tries,
                        srv, todo, adopted, stops, faulty>>
<1>1. ASSUME NEW from, NEW to \in {"made", "prepared", "startFailed", "emptied",
                                   "emptiedCut", "done"}, EnqueueAt(j, from, to)
      PROVE  EnqMoves(j, from, to)
  BY <1>1, EnqueueAtDoes DEF EnqueueStates
<1>2. UNCHANGED <<row, settled, cont, exit, cnl, sup, posted, tries,
                  srv, todo, adopted, stops, faulty>>
  BY DEF EnqueuePrepare, EnqueueMakeWorkspace, EnqueueWriteSecrets, EnqueueUndo,
         db, hooks, process
<1>3. CASE EnqueueMakeWorkspace(j)
  BY <1>1, <1>2, <1>3 DEF EnqueueMakeWorkspace
<1>4. CASE EnqueueWriteSecrets(j)
  BY <1>1, <1>2, <1>4, RemoveDoes DEF EnqueueWriteSecrets
<1>5. CASE EnqueueUndo(j)
  <2>1. CASE /\ EnqueueAt(j, "runFailed", "emptied") \/ EnqueueAt(j, "runCut", "emptiedCut")
             /\ RemoveWorkspace(j)
             /\ UNCHANGED secrets
    BY <1>1, <1>2, <2>1, RemoveDoes
  <2>2. CASE /\ EnqueueAt(j, "emptied", "startFailed") \/ EnqueueAt(j, "emptiedCut", "done")
             /\ RemoveSecrets(j)
             /\ UNCHANGED workspace
    BY <1>1, <1>2, <2>2, RemoveDoes
  <2>3. QED BY <1>5, <2>1, <2>2 DEF EnqueueUndo
<1>6. QED BY <1>3, <1>4, <1>5 DEF EnqueuePrepare

LEMMA EnqueueDockerRunDoes ==
  ASSUME TypeOK, NEW j \in Jobs, EnqueueDockerRun(j)
  PROVE  /\ ContMoves(j) /\ exit' = exit /\ cont'[j] \in {cont[j], "up"}
         /\ \/ /\ EnqMoves(j, "prepared", "started")
               /\ SupMoves(j, sup[j].pc, "wait")
               /\ sup'[j].code = "none"
               /\ cont'[j] = "up"
            \/ /\ \/ EnqMoves(j, "prepared", "runFailed")
                  \/ EnqMoves(j, "prepared", "runCut") /\ "disconnect" \in faulty
               /\ sup' = sup
         /\ UNCHANGED <<row, settled, secrets, workspace, cnl, posted, tries, srv,
                        todo, adopted, stops, faulty>>
<1>1. {"started", "runFailed", "runCut"} \subseteq EnqueueStates
  BY DEF EnqueueStates
<1>2. UNCHANGED <<row, settled, exit, secrets, workspace, cnl, posted, tries, srv,
                  todo, adopted, stops, faulty>>
  BY DEF EnqueueDockerRun, db, hooks, process
<1>3. cont' \in {cont, [cont EXCEPT ![j] = "up"]}
  BY DEF EnqueueDockerRun
<1>4. ContMoves(j) /\ cont'[j] \in {cont[j], "up"}
  BY <1>2, <1>3 DEF TypeOK, ContMoves
<1>5. CASE /\ EnqueueAt(j, "prepared", "started")
           /\ cont' = [cont EXCEPT ![j] = "up"]
           /\ sup' = [sup EXCEPT ![j] = Supervisor("wait")]
  <2>1. EnqMoves(j, "prepared", "started")
    BY <1>1, <1>5, EnqueueAtDoes
  <2>2. Supervisor("wait") \in Supervisors /\ Supervisor("wait").pc = "wait"
        /\ Supervisor("wait").code = "none"
    BY SupervisorTyped DEF SuperviseStates
  <2>3. sup' \in [Jobs -> Supervisors] /\ sup'[j] = Supervisor("wait")
        /\ \A k \in Jobs \ {j} : sup'[k] = sup[k]
    BY <1>5, <2>2, SupSet
  <2>4. cont'[j] = "up"
    BY <1>5 DEF TypeOK
  <2>5. QED BY <1>2, <1>4, <2>1, <2>2, <2>3, <2>4 DEF SupMoves
<1>6. CASE /\ \/ "docker" \in faulty /\ EnqueueAt(j, "prepared", "runFailed")
              \/ "disconnect" \in faulty /\ EnqueueAt(j, "prepared", "runCut")
           /\ UNCHANGED sup
  <2>1. \/ EnqMoves(j, "prepared", "runFailed")
        \/ EnqMoves(j, "prepared", "runCut") /\ "disconnect" \in faulty
    BY <1>1, <1>6, EnqueueAtDoes
  <2>2. QED BY <1>2, <1>4, <1>6, <2>1
<1>7. QED BY <1>5, <1>6 DEF EnqueueDockerRun

LEMMA EnqueueStartFailedDoes ==
  ASSUME TypeOK, NEW j \in Jobs, EnqueueStartFailed(j)
  PROVE  /\ EnqMoves(j, "startFailed", "done")
         /\ RowWritten(j, MarkFailed(NewJob)) \/ UNCHANGED <<row, settled>>
         /\ "db" \notin faulty /\ "disconnect" \notin faulty => RowWritten(j, MarkFailed(NewJob))
         /\ UNCHANGED <<cont, exit, secrets, workspace, cnl, sup, posted, tries,
                        srv, todo, adopted, stops, faulty>>
<1>1. "done" \in EnqueueStates /\ MarkFailed(NewJob) \in Rows
  BY MarksAreRows DEF EnqueueStates
<1>2. QED BY <1>1, EnqueueWritesDoes DEF EnqueueStartFailed

LEMMA EnqueueMarkRunningDoes ==
  ASSUME TypeOK, NEW j \in Jobs, EnqueueMarkRunning(j)
  PROVE  /\ EnqMoves(j, "started", "done")
         /\ RowWritten(j, MarkRunning(NewJob)) \/ UNCHANGED <<row, settled>>
         /\ "db" \notin faulty /\ "disconnect" \notin faulty => RowWritten(j, MarkRunning(NewJob))
         /\ UNCHANGED <<cont, exit, secrets, workspace, cnl, sup, posted, tries,
                        srv, todo, adopted, stops, faulty>>
<1>1. "done" \in EnqueueStates /\ MarkRunning(NewJob) \in Rows
  BY MarksAreRows DEF EnqueueStates
<1>2. QED BY <1>1, EnqueueWritesDoes DEF EnqueueMarkRunning

LEMMA CancelReadDoes ==
  ASSUME TypeOK, NEW j \in Jobs, CancelRead(j)
  PROVE  /\ srv = "up" /\ row[j].st \in Active
         /\ cnl' \in [Jobs -> CancelStates]
         /\ \/ cnl'[j] = "stopping" /\ row[j].cid
            \/ cnl'[j] = "writingUnstarted" /\ ~row[j].cid
         /\ \A k \in Jobs \ {j} : cnl'[k] = cnl[k]
         /\ UNCHANGED <<row, settled, cont, exit, secrets, workspace, enq, sup, posted,
                        tries, srv, todo, adopted, stops, faulty>>
<1>1. row[j].cid \in BOOLEAN
  BY DEF TypeOK, Rows
<1>2. cnl' \in [Jobs -> CancelStates] /\ \A k \in Jobs \ {j} : cnl'[k] = cnl[k]
  BY DEF CancelRead, TypeOK, CancelStates
<1>3. cnl'[j] = IF row[j].cid THEN "stopping" ELSE "writingUnstarted"
  BY DEF CancelRead, TypeOK
<1>4. QED BY <1>1, <1>2, <1>3 DEF CancelRead, CanMarkCancelled, db, host, hooks, process

LEMMA CancelStopDoes ==
  ASSUME TypeOK, NEW j \in Jobs, CancelStop(j)
  PROVE  /\ cnl[j] = "stopping" /\ cnl'[j] = "writingStarted"
         /\ cnl' \in [Jobs -> CancelStates]
         /\ \A k \in Jobs \ {j} : cnl'[k] = cnl[k]
         /\ ContMoves(j)
         /\ \/ cont'[j] = "exited" /\ cont[j] = "up"
            \/ cont'[j] = cont[j] /\ exit'[j] = exit[j]
         /\ "docker" \notin faulty /\ "disconnect" \notin faulty => cont'[j] # "up"
         /\ UNCHANGED <<row, settled, secrets, workspace, enq, sup, posted, tries,
                        srv, todo, adopted, stops, faulty>>
<1>1. cnl[j] = "stopping" /\ cnl' = [cnl EXCEPT ![j] = "writingStarted"]
  BY DEF CancelStop
<1>2. /\ cnl'[j] = "writingStarted" /\ cnl' \in [Jobs -> CancelStates]
      /\ \A k \in Jobs \ {j} : cnl'[k] = cnl[k]
  BY <1>1 DEF TypeOK, CancelStates
<1>3. UNCHANGED <<row, settled, secrets, workspace, enq, sup, posted, tries,
                  srv, todo, adopted, stops, faulty>>
  BY DEF CancelStop, db, hooks, process
<1>4. CASE TryKill(j)
  <2>1. Killed(j)
    BY <1>4, KillDoes
  <2>2. /\ ContMoves(j)
        /\ \/ cont'[j] = "exited" /\ cont[j] = "up"
           \/ cont'[j] = cont[j] /\ exit'[j] = exit[j]
    BY <2>1 DEF Killed
  <2>3. "docker" \notin faulty /\ "disconnect" \notin faulty => cont'[j] # "up"
    BY <2>1 DEF Killed
  <2>4. QED BY <1>1, <1>2, <1>3, <2>2, <2>3
<1>5. CASE "disconnect" \in faulty /\ UNCHANGED <<cont, exit>>
  <2>1. ContMoves(j)
    BY <1>5 DEF TypeOK, ContMoves
  <2>2. QED BY <1>1, <1>2, <1>3, <1>5, <2>1
<1>6. QED BY <1>4, <1>5 DEF CancelStop

LEMMA CancelledFields ==
  ASSUME NEW b \in BOOLEAN
  PROVE  /\ [st |-> "cancelled", cid |-> b] \in Rows
         /\ [st |-> "cancelled", cid |-> b].st = "cancelled"
         /\ [st |-> "cancelled", cid |-> b].cid = b
  BY MarksAreRows

LEMMA CancelWriteDoes ==
  ASSUME TypeOK, NEW j \in Jobs, CancelWrite(j)
  PROVE  /\ cnl[j] \in {"writingStarted", "writingUnstarted"} /\ cnl'[j] = "idle"
         /\ cnl' \in [Jobs -> CancelStates]
         /\ \A k \in Jobs \ {j} : cnl'[k] = cnl[k]
         /\ \/ /\ RowWritten(j, row'[j]) /\ row'[j].st = "cancelled"
               /\ row'[j].cid => cnl[j] = "writingStarted"
            \/ UNCHANGED <<row, settled>>
         /\ UNCHANGED <<cont, exit, secrets, workspace, enq, sup, posted, tries,
                        srv, todo, adopted, stops, faulty>>
<1> DEFINE b == cnl[j] = "writingStarted"
<1> DEFINE job == [st |-> "cancelled", cid |-> b]
<1>1. b \in BOOLEAN
  OBVIOUS
<1>2. job \in Rows /\ job.st = "cancelled" /\ job.cid = b
  BY <1>1, CancelledFields
<1>3. WriteRow(j, job) \/ UNCHANGED <<row, settled>>
  BY DEF CancelWrite, db
<1>4. /\ cnl[j] \in {"writingStarted", "writingUnstarted"} /\ cnl'[j] = "idle"
      /\ cnl' \in [Jobs -> CancelStates]
      /\ \A k \in Jobs \ {j} : cnl'[k] = cnl[k]
  BY DEF CancelWrite, TypeOK, CancelStates
<1>5. UNCHANGED <<cont, exit, secrets, workspace, enq, sup, posted, tries,
                  srv, todo, adopted, stops, faulty>>
  BY DEF CancelWrite, host, hooks, process
<1>6. CASE WriteRow(j, job)
  <2> HIDE DEF job
  <2>1. RowWritten(j, job)
    BY <1>2, <1>6, WriteRowDoes
  <2>2. row'[j] = job
    BY <2>1 DEF RowWritten
  <2>3. row'[j].st = "cancelled" /\ (row'[j].cid => b)
    BY <1>2, <2>2
  <2>4. RowWritten(j, row'[j])
    BY <2>1, <2>2
  <2>5. QED BY <1>4, <1>5, <2>3, <2>4
<1>7. QED BY <1>3, <1>4, <1>5, <1>6

------------------------------------------------------------------------------
(* The supervisor and the completion it reports. *)

LEMMA SuperviseWaitDoes ==
  ASSUME TypeOK, NEW j \in Jobs, SuperviseWait(j)
  PROVE  /\ SupMoves(j, "wait", "collect")
         /\ sup'[j].code = sup[j].code
         /\ cont[j] = "exited" \/ "docker" \in faulty
         /\ UNCHANGED <<row, settled, cont, exit, secrets, workspace, enq, cnl, posted,
                        tries, srv, todo, adopted, stops, faulty>>
<1>1. "collect" \in SuperviseStates
  BY DEF SuperviseStates
<1>2. SuperviseAt(j, "wait", "collect")
  BY DEF SuperviseWait
<1>3. SupMoves(j, "wait", "collect") /\ sup'[j].code = sup[j].code
  BY <1>1, <1>2, SuperviseAtDoes
<1>4. QED BY <1>3 DEF SuperviseWait, db, host, hooks, process

LEMMA SuperviseTimeoutDoes ==
  ASSUME TypeOK, NEW j \in Jobs, SuperviseTimeout(j)
  PROVE  /\ SupMoves(j, "wait", "collect")
         /\ sup'[j].code = "timeout"
         /\ Killed(j)
         /\ UNCHANGED <<row, settled, secrets, workspace, enq, cnl, posted, tries,
                        srv, todo, adopted, stops, faulty>>
<1>1. "collect" \in SuperviseStates /\ "timeout" \in Codes /\ sup[j] \in Supervisors
  BY DEF SuperviseStates, Codes, TypeOK
<1>2. /\ sup[j].pc = "wait"
      /\ sup' = [sup EXCEPT ![j] = [sup[j] EXCEPT !.pc = "collect", !.code = "timeout"]]
  BY DEF SuperviseTimeout
<1> DEFINE s == [sup[j] EXCEPT !.pc = "collect", !.code = "timeout"]
<1>3. s \in Supervisors /\ s.pc = "collect" /\ s.code = "timeout"
  BY <1>1 DEF Supervisors
<1> HIDE DEF s
<1>4. sup' = [sup EXCEPT ![j] = s]
  BY <1>2 DEF s
<1>5. sup' \in [Jobs -> Supervisors] /\ sup'[j] = s /\ \A k \in Jobs \ {j} : sup'[k] = sup[k]
  BY <1>3, <1>4, SupSet
<1>6. SupMoves(j, "wait", "collect") /\ sup'[j].code = "timeout"
  BY <1>2, <1>3, <1>5 DEF SupMoves
<1>7. Killed(j)
  BY KillDoes DEF SuperviseTimeout
<1>8. QED BY <1>6, <1>7 DEF SuperviseTimeout, db, hooks, process

LEMMA SuperviseCollectDoes ==
  ASSUME TypeOK, NEW j \in Jobs, SuperviseCollect(j)
  PROVE  /\ SupMoves(j, "collect", "clean")
         /\ sup'[j].code \in ReportedCodes(j)
         /\ UNCHANGED <<row, settled, cont, exit, secrets, workspace, enq, cnl, posted,
                        tries, srv, todo, adopted, stops, faulty>>
<1>1. "clean" \in SuperviseStates /\ sup[j] \in Supervisors
  BY DEF SuperviseStates, TypeOK
<1>2. exit[j] \in {"none", "zero", "nonzero"}
  BY DEF TypeOK
<1>3. ReportedCodes(j) \subseteq Codes
  BY <1>2 DEF ReportedCodes, InspectedCodes, Codes
<1>4. PICK h \in BOOLEAN, c \in ReportedCodes(j) :
        sup' = [sup EXCEPT ![j] = [sup[j] EXCEPT !.pc = "clean", !.code = c, !.hook = h]]
  BY DEF SuperviseCollect
<1> DEFINE s == [sup[j] EXCEPT !.pc = "clean", !.code = c, !.hook = h]
<1>5. s \in Supervisors /\ s.pc = "clean" /\ s.code = c
  BY <1>1, <1>3 DEF Supervisors
<1> HIDE DEF s
<1>6. sup' = [sup EXCEPT ![j] = s]
  BY <1>4 DEF s
<1>7. sup' \in [Jobs -> Supervisors] /\ sup'[j] = s /\ \A k \in Jobs \ {j} : sup'[k] = sup[k]
  BY <1>5, <1>6, SupSet
<1>8. sup[j].pc = "collect"
  BY DEF SuperviseCollect
<1>9. SupMoves(j, "collect", "clean") /\ sup'[j].code \in ReportedCodes(j)
  BY <1>5, <1>7, <1>8 DEF SupMoves
<1>10. QED BY <1>9 DEF SuperviseCollect, db, host, hooks, process

\* The removal of the container and of its directories.
LEMMA SuperviseTidyDoes ==
  ASSUME TypeOK, NEW j \in Jobs, SuperviseClean(j) \/ SuperviseRemove(j)
  PROVE  /\ \/ /\ SupMoves(j, "clean", "rmWorkspace")
               /\ \/ cont'[j] = "gone" /\ (cont[j] # "up" => exit'[j] = exit[j])
                  \/ "docker" \in faulty /\ UNCHANGED <<cont, exit>>
               /\ secrets' = secrets
            \/ /\ SupMoves(j, "rmWorkspace", "rmSecrets")
               /\ UNCHANGED <<cont, exit, secrets>>
            \/ /\ SupMoves(j, "rmSecrets", "report")
               /\ j \notin secrets' \/ "disk" \in faulty
               /\ UNCHANGED <<cont, exit>>
         /\ sup'[j].code = sup[j].code
         /\ ContMoves(j)
         /\ secrets \ {j} \subseteq secrets' /\ secrets' \subseteq secrets
         /\ workspace \ {j} \subseteq workspace' /\ workspace' \subseteq workspace
         /\ UNCHANGED <<row, settled, enq, cnl, posted, tries, srv, todo, adopted,
                        stops, faulty>>
<1>1. ASSUME NEW from, NEW to \in {"rmWorkspace", "rmSecrets", "report"},
             SuperviseAt(j, from, to)
      PROVE  SupMoves(j, from, to) /\ sup'[j].code = sup[j].code
  BY <1>1, SuperviseAtDoes DEF SuperviseStates
<1>2. UNCHANGED <<row, settled, enq, cnl, posted, tries, srv, todo, adopted,
                  stops, faulty>>
  BY DEF SuperviseClean, SuperviseRemove, db, hooks, process
<1>3. CASE SuperviseClean(j)
  <2>1. SupMoves(j, "clean", "rmWorkspace") /\ sup'[j].code = sup[j].code
    BY <1>1, <1>3 DEF SuperviseClean
  <2>2. /\ ContMoves(j)
        /\ \/ cont'[j] = "gone" /\ (cont[j] # "up" => exit'[j] = exit[j])
           \/ "docker" \in faulty /\ UNCHANGED <<cont, exit>>
    BY <1>3 DEF SuperviseClean, TypeOK, ContMoves
  <2>3. QED BY <1>2, <1>3, <2>1, <2>2 DEF SuperviseClean
<1>4. CASE SuperviseRemove(j)
  <2>1. UNCHANGED <<cont, exit>> /\ ContMoves(j)
    BY <1>4 DEF SuperviseRemove, TypeOK, ContMoves
  <2>2. CASE /\ SuperviseAt(j, "rmWorkspace", "rmSecrets")
             /\ RemoveWorkspace(j)
             /\ UNCHANGED secrets
    BY <1>1, <1>2, <2>1, <2>2, RemoveDoes
  <2>3. CASE /\ SuperviseAt(j, "rmSecrets", "report")
             /\ RemoveSecrets(j)
             /\ UNCHANGED workspace
    BY <1>1, <1>2, <2>1, <2>3, RemoveDoes
  <2>4. QED BY <1>4, <2>2, <2>3 DEF SuperviseRemove
<1>5. QED BY <1>3, <1>4

LEMMA CompleteGetDoes ==
  ASSUME TypeOK, NEW j \in Jobs, CompleteGet(j)
  PROVE  /\ \/ SupMoves(j, "report", "done")
            \/ /\ SupMoves(j, "report", "update")
               /\ sup'[j].job.cid = row[j].cid
               /\ \/ /\ sup'[j].job.st = "succeeded" /\ sup[j].code = "zero"
                     /\ row[j].st = "running"
                  \/ sup'[j].job.st = "failed" /\ row[j].st \notin Terminal
         /\ UNCHANGED <<row, settled, cont, exit, secrets, workspace, enq, cnl, posted,
                        tries, srv, todo, adopted, stops, faulty>>
<1>1. row[j] \in Rows /\ sup[j] \in Supervisors /\ "update" \in SuperviseStates
  BY DEF TypeOK, SuperviseStates
<1>2. ASSUME NEW job \in Rows, sup[j].pc = "report",
             sup' = [sup EXCEPT ![j] = [sup[j] EXCEPT !.pc = "update", !.job = job]]
      PROVE  SupMoves(j, "report", "update") /\ sup'[j].job = job
  <2> DEFINE s == [sup[j] EXCEPT !.pc = "update", !.job = job]
  <2>1. s \in Supervisors /\ s.pc = "update" /\ s.job = job
    BY <1>1 DEF Supervisors
  <2> HIDE DEF s
  <2>2. sup' = [sup EXCEPT ![j] = s]
    BY <1>2 DEF s
  <2>3. sup' \in [Jobs -> Supervisors] /\ sup'[j] = s
        /\ \A k \in Jobs \ {j} : sup'[k] = sup[k]
    BY <2>1, <2>2, SupSet
  <2>4. QED BY <1>2, <2>1, <2>3 DEF SupMoves
<1>3. UNCHANGED <<row, settled, cont, exit, secrets, workspace, enq, cnl, posted,
                  tries, srv, todo, adopted, stops, faulty>>
  BY DEF CompleteGet, db, host, hooks, process
<1>4. CASE /\ sup[j].pc = "report"
           /\ sup[j].code = "zero"
           /\ CanMarkSucceeded(row[j])
           /\ sup' = [sup EXCEPT ![j] = [sup[j] EXCEPT !.pc = "update",
                                                !.job = MarkSucceeded(row[j])]]
  <2>1. MarkSucceeded(row[j]) \in Rows /\ MarkSucceeded(row[j]).st = "succeeded"
        /\ MarkSucceeded(row[j]).cid = row[j].cid
    BY <1>1, MarksAreRows, MarkedFields
  <2>2. SupMoves(j, "report", "update") /\ sup'[j].job = MarkSucceeded(row[j])
    BY <1>2, <1>4, <2>1
  <2>3. row[j].st = "running"
    BY <1>4 DEF CanMarkSucceeded
  <2>4. QED BY <1>3, <1>4, <2>1, <2>2, <2>3
<1>5. CASE /\ sup[j].pc = "report"
           /\ sup[j].code # "zero"
           /\ CanMarkFailed(row[j])
           /\ sup' = [sup EXCEPT ![j] = [sup[j] EXCEPT !.pc = "update",
                                                !.job = MarkFailed(row[j])]]
  <2>1. MarkFailed(row[j]) \in Rows /\ MarkFailed(row[j]).st = "failed"
        /\ MarkFailed(row[j]).cid = row[j].cid
    BY <1>1, MarksAreRows, MarkedFields
  <2>2. SupMoves(j, "report", "update") /\ sup'[j].job = MarkFailed(row[j])
    BY <1>2, <1>5, <2>1
  <2>3. row[j].st \notin Terminal
    BY <1>5 DEF CanMarkFailed, IsTerminal
  <2>4. QED BY <1>3, <2>1, <2>2, <2>3
<1>6. CASE SuperviseDone(j, "report")
  BY <1>3, <1>6, SuperviseDoneDoes
<1>7. QED BY <1>4, <1>5, <1>6 DEF CompleteGet

LEMMA CompleteUpdateDoes ==
  ASSUME TypeOK, NEW j \in Jobs, CompleteUpdate(j)
  PROVE  /\ sup[j].pc = "update" /\ sup[j].job \in Rows
         /\ \/ /\ SupMoves(j, "update", "hook") /\ sup'[j].job = sup[j].job
               /\ RowWritten(j, sup[j].job)
            \/ /\ SupMoves(j, "update", "done")
               /\ RowWritten(j, sup[j].job) \/ UNCHANGED <<row, settled>>
         /\ UNCHANGED <<cont, exit, secrets, workspace, enq, cnl, posted, tries,
                        srv, todo, adopted, stops, faulty>>
<1>1. sup[j].job \in Rows
  BY SupervisorFields DEF TypeOK
<1>2. WriteRow(j, sup[j].job) => RowWritten(j, sup[j].job)
  BY <1>1, WriteRowDoes
<1>3. SuperviseAt(j, "update", "hook") =>
        SupMoves(j, "update", "hook") /\ sup'[j].job = sup[j].job
  BY SuperviseAtDoes DEF SuperviseStates
<1>4. SuperviseDone(j, "update") => SupMoves(j, "update", "done")
  BY SuperviseDoneDoes
<1>5. sup[j].pc = "update"
  BY DEF CompleteUpdate, SuperviseAt, SuperviseDone
<1>6. UNCHANGED <<cont, exit, secrets, workspace, enq, cnl, posted, tries,
                  srv, todo, adopted, stops, faulty>>
  BY DEF CompleteUpdate, host, hooks, process
<1>7. \/ SuperviseAt(j, "update", "hook") /\ WriteRow(j, sup[j].job)
      \/ SuperviseDone(j, "update") /\ (WriteRow(j, sup[j].job) \/ UNCHANGED db)
  BY DEF CompleteUpdate
<1>8. UNCHANGED db => UNCHANGED <<row, settled>>
  BY DEF db
<1>9. QED BY <1>1, <1>2, <1>3, <1>4, <1>5, <1>6, <1>7, <1>8

LEMMA CompleteDispatchDoes ==
  ASSUME TypeOK, NEW j \in Jobs, CompleteDispatch(j)
  PROVE  /\ sup[j].pc = "hook"
         /\ \/ SupMoves(j, "hook", "done")
            \/ sup' = sup /\ tries[j] + 1 # MaxAttempts
         /\ tries' = [tries EXCEPT ![j] = @ + 1]
         /\ posted' = posted \/ posted' = [posted EXCEPT ![j] = sup[j].job.st]
         /\ UNCHANGED <<row, settled, cont, exit, secrets, workspace, enq, cnl,
                        srv, todo, adopted, stops, faulty>>
<1>1. SuperviseDone(j, "hook") => SupMoves(j, "hook", "done")
  BY SuperviseDoneDoes
<1>2. /\ sup[j].pc = "hook"
      /\ tries' = [tries EXCEPT ![j] = @ + 1]
      /\ UNCHANGED <<row, settled, cont, exit, secrets, workspace, enq, cnl,
                     srv, todo, adopted, stops, faulty>>
  BY DEF CompleteDispatch, db, host, process
<1>3. SuperviseDone(j, "hook") \/ (~LastAttempt(j) /\ UNCHANGED sup)
  BY DEF CompleteDispatch
<1>4. posted' = posted \/ posted' = [posted EXCEPT ![j] = sup[j].job.st]
  BY DEF CompleteDispatch, Heard, HookMessage
<1>5. QED BY <1>1, <1>2, <1>3, <1>4 DEF LastAttempt

------------------------------------------------------------------------------
(* The process. *)

LEMMA LossDoes ==
  ASSUME TypeOK, Crash \/ Exit
  PROVE  /\ srv \in {"reattach", "sweep", "up", "draining"} /\ srv' = "down"
         /\ enq' \in [Jobs -> EnqueueStates] /\ cnl' \in [Jobs -> CancelStates]
         /\ sup' \in [Jobs -> Supervisors]
         /\ \A k \in Jobs :
              /\ enq'[k] = IF enq[k] = "idle" THEN "idle" ELSE "done"
              /\ cnl'[k] = "idle"
              /\ sup[k].pc \in {"none", "done"} => sup'[k] = sup[k]
              /\ sup[k].pc \notin {"none", "done"} => sup'[k].pc = "lost"
         /\ Crash => todo' = {} /\ stops' = stops + 1 /\ stops < MaxStops
         /\ Exit => srv = "draining" /\ UNCHANGED <<todo, stops>>
         /\ UNCHANGED <<row, settled, cont, exit, secrets, workspace, posted, tries,
                        adopted, faulty>>
<1>1. LoseGoroutines
  BY DEF Crash, Exit
<1>2. enq' \in [Jobs -> EnqueueStates] /\ cnl' \in [Jobs -> CancelStates]
  BY <1>1 DEF LoseGoroutines, EnqueueStates, CancelStates
<1>3. Supervisor("lost") \in Supervisors /\ Supervisor("lost").pc = "lost"
  BY SupervisorTyped DEF SuperviseStates
<1>4. sup' = [k \in Jobs |-> IF sup[k].pc \in {"none", "done"} THEN sup[k]
                                                            ELSE Supervisor("lost")]
  BY <1>1 DEF LoseGoroutines
<1>5. /\ sup' \in [Jobs -> Supervisors]
      /\ \A k \in Jobs : /\ sup[k].pc \in {"none", "done"} => sup'[k] = sup[k]
                         /\ sup[k].pc \notin {"none", "done"} => sup'[k].pc = "lost"
  BY <1>3, <1>4 DEF TypeOK
<1>6. \A k \in Jobs : enq'[k] = (IF enq[k] = "idle" THEN "idle" ELSE "done")
                      /\ cnl'[k] = "idle"
  BY <1>1 DEF LoseGoroutines
<1>7. /\ srv \in {"reattach", "sweep", "up", "draining"} /\ srv' = "down"
      /\ Crash => todo' = {} /\ stops' = stops + 1 /\ stops < MaxStops
      /\ Exit => srv = "draining" /\ UNCHANGED <<todo, stops>>
      /\ UNCHANGED <<row, settled, cont, exit, secrets, workspace, posted, tries,
                     adopted, faulty>>
  BY DEF Crash, Exit, db, host, hooks
<1>8. QED BY <1>2, <1>5, <1>6, <1>7

\* The other steps of the process, those on a dead job's row aside.
LEMMA ProcessDoes ==
  ASSUME TypeOK,
         \/ SigTerm \/ StartList \/ ReattachDone \/ Sweep
         \/ \E j \in Jobs : ReattachAlive(j)
  PROVE  /\ \/ srv = "up" /\ srv' = "draining" /\ todo' = todo /\ adopted' = adopted
                          /\ stops' = stops + 1 /\ stops < MaxStops
            \/ srv = "down" /\ srv' = "reattach" /\ todo' = RunningRows /\ adopted' = {}
                            /\ stops' = stops
            \/ srv = "down" /\ srv' = "sweep" /\ todo' = todo /\ adopted' = {}
                            /\ stops' = stops /\ "db" \in faulty
            \/ srv = "reattach" /\ srv' = "reattach" /\ stops' = stops
                 /\ \E j \in todo : todo' = todo \ {j} /\ adopted' = adopted \cup {j}
            \/ srv = "reattach" /\ srv' = "sweep" /\ stops' = stops
                 /\ todo = {} /\ todo' = {} /\ adopted' = adopted
            \/ srv = "sweep" /\ srv' = "up" /\ UNCHANGED <<todo, adopted, stops>>
         /\ \/ secrets' = secrets
            \/ /\ srv = "sweep" /\ srv' = "up" /\ secrets' \subseteq secrets
               /\ secrets \cap RunningRows \subseteq secrets'
               /\ "disk" \notin faulty => secrets' \subseteq RunningRows
         /\ (srv' = "up" /\ "db" \notin faulty /\ "disk" \notin faulty) => secrets' \subseteq RunningRows
         /\ UNCHANGED <<row, settled, cont, exit, workspace, enq, cnl, sup, posted,
                        tries, faulty>>
<1> USE DEF db, host, hooks
<1>1. CASE SigTerm
  BY <1>1 DEF SigTerm
<1>2. CASE StartList
  BY <1>2 DEF StartList, BackgroundDbFails
<1>3. CASE ReattachDone
  BY <1>3 DEF ReattachDone
<1>4. CASE \E j \in Jobs : ReattachAlive(j)
  BY <1>4 DEF ReattachAlive
<1>5. CASE Sweep
  <2>1. /\ srv = "sweep" /\ srv' = "up"
        /\ UNCHANGED <<row, settled, cont, exit, workspace, enq, cnl, sup, posted,
                       tries, todo, adopted, stops, faulty>>
    BY <1>5 DEF Sweep
  <2>2. CASE secrets' \in SweepOrphanSecrets(RunningRows)
    <3>1. PICK kept \in IF "disk" \in faulty THEN SUBSET secrets ELSE {{}} :
            secrets' = kept \cup (secrets \cap RunningRows)
      BY <2>2 DEF SweepOrphanSecrets
    <3>2. kept \subseteq secrets /\ ("disk" \notin faulty => kept = {})
      BY <3>1
    <3>3. /\ secrets' \subseteq secrets /\ secrets \cap RunningRows \subseteq secrets'
          /\ "disk" \notin faulty => secrets' \subseteq RunningRows
      BY <3>1, <3>2
    <3>4. QED BY <2>1, <3>3
  <2>3. CASE BackgroundDbFails /\ UNCHANGED secrets
    BY <2>1, <2>3 DEF BackgroundDbFails
  <2>4. QED BY <1>5, <2>2, <2>3 DEF Sweep
<1>6. QED BY <1>1, <1>2, <1>3, <1>4, <1>5

LEMMA ReattachDeadDoes ==
  ASSUME TypeOK, NEW j \in Jobs, ReattachDead(j)
  PROVE  /\ srv = "reattach" /\ j \in todo
         /\ \/ /\ RowWritten(j, MarkFailed(row[j]))
               /\ srv' = "reattach" /\ todo' = todo \ {j}
            \/ /\ "db" \in faulty
               /\ RowWritten(j, MarkFailed(row[j])) \/ UNCHANGED <<row, settled>>
               /\ srv' = "sweep" /\ todo' = {}
         /\ MarkFailed(row[j]).st = "failed" /\ MarkFailed(row[j]).cid = row[j].cid
         /\ UNCHANGED <<cont, exit, secrets, workspace, enq, cnl, sup, posted, tries,
                        adopted, stops, faulty>>
<1>1. row[j] \in Rows
  BY DEF TypeOK
<1>2. MarkFailed(row[j]) \in Rows /\ MarkFailed(row[j]).st = "failed"
      /\ MarkFailed(row[j]).cid = row[j].cid
  BY <1>1, MarksAreRows, MarkedFields
<1>3. WriteRow(j, MarkFailed(row[j])) => RowWritten(j, MarkFailed(row[j]))
  BY <1>2, WriteRowDoes
<1>4. QED
  BY <1>2, <1>3 DEF ReattachDead, BackgroundDbFails, db, host, hooks
=============================================================================
