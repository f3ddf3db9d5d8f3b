---------------------------- MODULE JobBoardProofs ----------------------------
(***************************************************************************)
(* JobLifecycle implements JobBoard: each of its steps is a step of the    *)
(* board seen through the refinement mapping, or leaves the board alone.   *)
(***************************************************************************)
EXTENDS JobLifecycleProofs

status == [j \in Jobs |-> row[j].st]
starting == {j \in Jobs : enq[j] \notin {"idle", "done"}}
report == [j \in Jobs |-> ReportOf(j)]

\* The board's variables under the mapping.
LEMMA BoardSame ==
  UNCHANGED <<status, starting, report, posted>> => UNCHANGED Board!boardVars
  BY DEF Board!boardVars, status, starting, report

\* Writing a row sets the status of that row on the board.
LEMMA WriteRowSets ==
  ASSUME TypeOK, NEW j \in Jobs, NEW job \in Rows, WriteRow(j, job)
  PROVE  status' = [status EXCEPT ![j] = job.st]
<1>1. row' \in [Jobs -> Rows] /\ row'[j] = job /\ \A k \in Jobs \ {j} : row'[k] = row[k]
  BY DEF WriteRow, TypeOK
<1>2. QED BY <1>1 DEF status

\* A report is open, an outcome, or closed.
LEMMA ReportTyped ==
  ASSUME TypeOK, OutcomeKnown
  PROVE  \A j \in Jobs : ReportOf(j) \in {"open", "closed", "succeeded", "failed"}
  BY DEF OutcomeKnown, ReportOf

\* A step that leaves rows and announcements alone, ends requests and closes
\* reports is the board's Lose.
LEMMA LoseStep ==
  ASSUME TypeOK, OutcomeKnown, OutcomeKnown', UNCHANGED <<row, posted>>,
         \A j \in Jobs : enq'[j] \in {enq[j], "done"},
         \A j \in Jobs : ReportOf(j)' \in {ReportOf(j), "closed"}
  PROVE  Board!Lose
<1>1. \A j \in Jobs : ReportOf(j)' \in {"open", "closed", "succeeded", "failed"}
  BY ReportTyped
<1>2. report' \in [Jobs -> {"open", "closed"} \cup Board!Outcomes]
  BY <1>1 DEF report, Board!Outcomes
<1>3. starting' \in SUBSET starting
  BY DEF starting
<1>4. \A j \in Jobs : report'[j] \in {report[j], "closed"}
  BY DEF report
<1>5. QED BY <1>2, <1>3, <1>4 DEF Board!Lose, report, starting

\* The supervisor's report is over once its goroutine is.
LEMMA SuperviseDoneReports ==
  ASSUME TypeOK, NEW j \in Jobs, NEW from, SuperviseDone(j, from)
  PROVE  /\ ReportOf(j)' = "closed"
         /\ \A k \in Jobs \ {j} : ReportOf(k)' = ReportOf(k)
  BY SuperviseDoneDoes DEF SupMoves, ReportOf

\* A write of the enqueue request is its only visible step.
LEMMA EnqueueWritesBoard ==
  ASSUME TypeOK, OutcomeKnown, OutcomeKnown', NEW j \in Jobs, NEW job \in Rows,
         NEW from, NEW to, EnqueueWrites(j, job, from, to)
  PROVE  \/ /\ status' = [status EXCEPT ![j] = job.st]
            /\ \/ starting' = starting \ {j}
               \/ to \notin {"idle", "done"} /\ starting' = starting \cup {j}
            /\ UNCHANGED <<report, posted>>
         \/ Board!Lose
<1> USE DEF host, process, db, hooks
<1>1. UNCHANGED <<sup, posted>>
  BY DEF EnqueueWrites
<1>2. UNCHANGED report
  BY <1>1 DEF report, ReportOf
<1>3. ASSUME WriteRow(j, job), NEW at, enq' = [enq EXCEPT ![j] = at], at \in {to, "done"}
      PROVE  /\ status' = [status EXCEPT ![j] = job.st]
             /\ \/ starting' = starting \ {j}
                \/ to \notin {"idle", "done"} /\ starting' = starting \cup {j}
  <2>1. status' = [status EXCEPT ![j] = job.st]
    BY <1>3, WriteRowSets
  <2>2. enq'[j] = at /\ \A k \in Jobs \ {j} : enq'[k] = enq[k]
    BY <1>3 DEF TypeOK
  <2>3. CASE at \in {"idle", "done"}
    BY <2>1, <2>2, <2>3 DEF starting
  <2>4. CASE at \notin {"idle", "done"}
    BY <1>3, <2>1, <2>2, <2>4 DEF starting
  <2>5. QED BY <2>3, <2>4
<1>4. CASE enq' = [enq EXCEPT ![j] = "done"] /\ UNCHANGED db
  <2>1. \A k \in Jobs : enq'[k] \in {enq[k], "done"}
    BY <1>4 DEF TypeOK
  <2>2. \A k \in Jobs : ReportOf(k)' \in {ReportOf(k), "closed"}
    BY <1>1 DEF ReportOf
  <2>3. QED BY <1>1, <1>4, <2>1, <2>2, LoseStep
<1>5. QED BY <1>1, <1>2, <1>3, <1>4 DEF EnqueueWrites, EnqueueAt

\* Every step of the enqueue request is seen as a submission, a start, a lost
\* request, or not at all.
LEMMA EnqueueBoard ==
  ASSUME IInv, IInv', NEW j \in Jobs, EnqueueCreate(j) \/ EnqueueStep(j)
  PROVE  [Board!Next]_(Board!boardVars)
<1> USE DEF host, process, db, hooks
<1>1. TypeOK /\ OutcomeKnown /\ OutcomeKnown' /\ RowsTracked /\ RunningSupervised
  BY DEF IInv
<1>2. CASE EnqueueCreate(j)
  <2>1. NewJob \in Rows /\ NewJob.st = "queued"
    BY MarksAreRows DEF NewJob
  <2>2. enq[j] = "idle" /\ row[j].st = "none" /\ j \notin starting
    BY <1>1, <1>2 DEF EnqueueCreate, EnqueueWrites, EnqueueAt, RowsTracked, starting
  <2>3. starting \ {j} = starting
    BY <2>2
  <2>4. Board!Lose \/ Board!Submit(j)
    BY <1>1, <1>2, <2>1, <2>2, <2>3, EnqueueWritesBoard
       DEF EnqueueCreate, Board!Submit, Board!Set, status, starting, report
  <2>5. QED BY <2>4 DEF Board!Next
<1>3. CASE EnqueueStartFailed(j) \/ EnqueueMarkRunning(j)
  <2>1. /\ MarkFailed(NewJob) \in Rows /\ MarkFailed(NewJob).st = "failed"
        /\ MarkRunning(NewJob) \in Rows /\ MarkRunning(NewJob).st = "running"
    BY MarksAreRows DEF NewJob, MarkFailed, MarkRunning
  <2>2. enq[j] \in {"startFailed", "started"} /\ j \in starting
    BY <1>3 DEF EnqueueStartFailed, EnqueueMarkRunning, EnqueueWrites, EnqueueAt,
                starting
  <2>3. Board!Lose \/ Board!Start(j)
    BY <1>1, <1>3, <2>1, <2>2, EnqueueWritesBoard
       DEF EnqueueStartFailed, EnqueueMarkRunning, Board!Start, Board!Set, status, starting, report
  <2>4. QED BY <2>3 DEF Board!Next
<1>4. ASSUME NEW from, EnqueueReturns(j, from) PROVE Board!Lose
  <2>1. UNCHANGED <<row, posted, sup>> /\ \A k \in Jobs : enq'[k] \in {enq[k], "done"}
    BY <1>1, <1>4 DEF EnqueueReturns, EnqueueAt, TypeOK
  <2>2. \A k \in Jobs : ReportOf(k)' \in {ReportOf(k), "closed"}
    BY <2>1 DEF ReportOf
  <2>3. QED BY <1>1, <2>1, <2>2, LoseStep
<1>5. ASSUME NEW from, NEW to, EnqueueAt(j, from, to), from \notin {"idle", "done"},
             to \notin {"idle", "done"}, UNCHANGED <<row, posted>>,
             \A k \in Jobs : ReportOf(k)' = ReportOf(k)
      PROVE  UNCHANGED Board!boardVars
  <2>1. UNCHANGED <<status, report, posted>>
    BY <1>5 DEF status, report
  <2>2. UNCHANGED starting
    BY <1>1, <1>5 DEF EnqueueAt, starting, TypeOK
  <2>3. QED BY <2>1, <2>2, BoardSame
<1>6. CASE EnqueueCountUser(j) \/ EnqueueCountGlobal(j) \/ EnqueueCreds(j)
  <2>1. \/ \E from : EnqueueReturns(j, from)
        \/ /\ \E from, to : /\ EnqueueAt(j, from, to)
                            /\ from \notin {"idle", "done"} /\ to \notin {"idle", "done"}
           /\ UNCHANGED <<row, posted, sup>>
    BY <1>6 DEF EnqueueCountUser, EnqueueCountGlobal, EnqueueCreds
  <2>2. CASE \E from : EnqueueReturns(j, from)
    BY <1>4, <2>2 DEF Board!Next
  <2>3. ASSUME NEW from, NEW to, EnqueueAt(j, from, to), from \notin {"idle", "done"},
               to \notin {"idle", "done"}, UNCHANGED <<row, posted, sup>>
        PROVE  UNCHANGED Board!boardVars
    <3>1. \A k \in Jobs : ReportOf(k)' = ReportOf(k)
      BY <2>3 DEF ReportOf
    <3>2. QED BY <1>5, <2>3, <3>1
  <2>4. QED BY <2>1, <2>2, <2>3
<1>7. CASE EnqueueDockerRun(j)
  <2>1. UNCHANGED <<row, posted>> /\ enq[j] = "prepared" /\ sup[j].pc = "none"
    BY <1>1, <1>7 DEF EnqueueDockerRun, EnqueueAt, RunningSupervised
  <2>2. \A k \in Jobs : ReportOf(k)' = ReportOf(k)
    BY <1>1, <1>7, <2>1 DEF EnqueueDockerRun, ReportOf, Supervisor, TypeOK
  <2>3. \/ EnqueueAt(j, "prepared", "started") \/ EnqueueAt(j, "prepared", "runFailed")
        \/ EnqueueAt(j, "prepared", "runCut")
    BY <1>7 DEF EnqueueDockerRun
  <2>4. QED BY <1>5, <2>1, <2>2, <2>3
<1>8. CASE EnqueuePrepare(j) \/ EnqueueUndo(j)
  <2>1. /\ UNCHANGED <<row, posted, sup>> /\ j \in starting
        /\ \A k \in Jobs \ {j} : enq'[k] = enq[k]
    BY <1>1, <1>8, EnqueueDirsDoes DEF EnqMoves, starting
  <2>2. \A k \in Jobs : ReportOf(k)' = ReportOf(k)
    BY <2>1 DEF ReportOf
  <2>3. CASE enq'[j] = "done"
    <3>1. \A k \in Jobs : enq'[k] \in {enq[k], "done"}
      BY <2>1, <2>3
    <3>2. QED BY <1>1, <2>1, <2>2, <3>1, LoseStep DEF Board!Next
  <2>4. CASE enq'[j] # "done"
    <3>1. enq'[j] # "idle"
      BY <1>1, <1>8, EnqueueDirsDoes DEF EnqMoves
    <3>2. UNCHANGED starting
      BY <2>1, <2>4, <3>1 DEF starting
    <3>3. UNCHANGED <<status, report>>
      BY <2>1, <2>2 DEF status, report
    <3>4. QED BY <2>1, <3>2, <3>3, BoardSame
  <2>5. QED BY <2>3, <2>4
<1>9. QED BY <1>2, <1>3, <1>6, <1>7, <1>8 DEF EnqueueStep

\* Up to its last two steps a supervisor is not seen; then it reports, loses its
\* report, or announces it.
LEMMA SuperviseBoard ==
  ASSUME IInv, IInv', NEW j \in Jobs, SuperviseStep(j)
  PROVE  [Board!Next]_(Board!boardVars)
<1>1. TypeOK /\ OutcomeKnown /\ OutcomeKnown' /\ SupervisedStarted /\ RowsTracked
      /\ SuccessIsLast
  BY DEF IInv
<1>2. ASSUME NEW from \in {"wait", "collect", "clean", "rmWorkspace", "rmSecrets", "report"},
             NEW to \in {"collect", "clean", "rmWorkspace", "rmSecrets", "report", "update"},
             SupMoves(j, from, to), UNCHANGED <<row, enq, posted>>
      PROVE  UNCHANGED Board!boardVars
  <2>1. \A k \in Jobs : ReportOf(k)' = ReportOf(k)
    BY <1>2 DEF SupMoves, ReportOf
  <2>2. UNCHANGED <<status, starting, report, posted>>
    BY <1>2, <2>1 DEF status, starting, report
  <2>3. QED BY <2>2, BoardSame
<1>3. ASSUME NEW from, SupMoves(j, from, "done"), UNCHANGED <<row, enq, posted>>
      PROVE  Board!Lose
  <2>1. \A k \in Jobs : ReportOf(k)' \in {ReportOf(k), "closed"}
    BY <1>3 DEF SupMoves, ReportOf
  <2>2. \A k \in Jobs : enq'[k] \in {enq[k], "done"}
    BY <1>3
  <2>3. QED BY <1>1, <1>3, <2>1, <2>2, LoseStep
<1>4. CASE SuperviseWait(j)
  BY <1>1, <1>2, <1>4, SuperviseWaitDoes
<1>5. CASE SuperviseTimeout(j)
  BY <1>1, <1>2, <1>5, SuperviseTimeoutDoes
<1>6. CASE SuperviseCollect(j)
  BY <1>1, <1>2, <1>6, SuperviseCollectDoes
<1>7. CASE SuperviseClean(j) \/ SuperviseRemove(j)
  BY <1>1, <1>2, <1>7, SuperviseTidyDoes
<1>8. CASE CompleteGet(j)
  BY <1>1, <1>2, <1>3, <1>8, CompleteGetDoes DEF Board!Next
<1>9. CASE CompleteUpdate(j)
  <2>1. /\ sup[j].pc = "update" /\ sup[j].job \in Rows
        /\ UNCHANGED <<enq, posted>> /\ UNCHANGED starting
        /\ ReportOf(j) = "open"
    BY <1>1, <1>9, CompleteUpdateDoes DEF ReportOf, starting
  <2>2. sup[j].job.st \in Board!Outcomes
    BY <1>1, <2>1 DEF OutcomeKnown, Board!Outcomes
  <2>3. /\ ReportOf(j)' \in {sup[j].job.st, "closed"}
        /\ \A k \in Jobs \ {j} : ReportOf(k)' = ReportOf(k)
    BY <1>1, <1>9, CompleteUpdateDoes DEF SupMoves, ReportOf
  <2>4. CASE RowWritten(j, sup[j].job)
    <3>1. status' = [status EXCEPT ![j] = sup[j].job.st]
      BY <2>4 DEF RowWritten, status
    <3>2. row[j].st # "none"
      BY <1>1, <2>1 DEF SupervisedStarted, RowsTracked
    <3>3. sup[j].job.st = "succeeded" => j \notin starting
      BY <1>1, <2>1 DEF SuccessIsLast, starting
    <3>4. report' \in {[report EXCEPT ![j] = sup[j].job.st],
                       [report EXCEPT ![j] = "closed"]}
      BY <2>3 DEF report
    <3>5. Board!Report(j)
      BY <2>1, <2>2, <3>1, <3>2, <3>3, <3>4
         DEF Board!Report, Board!Set, status, report, starting
    <3>6. QED BY <3>5 DEF Board!Next
  <2>5. CASE UNCHANGED row /\ SupMoves(j, "update", "done")
    BY <1>3, <2>1, <2>5 DEF Board!Next
  <2>6. QED BY <1>1, <1>9, <2>4, <2>5, CompleteUpdateDoes
<1>10. CASE CompleteDispatch(j)
  <2>1. /\ sup[j].pc = "hook" /\ ReportOf(j) = sup[j].job.st
        /\ ReportOf(j) \in Board!Outcomes
        /\ UNCHANGED <<row, enq>>
    BY <1>1, <1>10, CompleteDispatchDoes DEF ReportOf, OutcomeKnown, Board!Outcomes
  <2>2. UNCHANGED <<status, starting>>
    BY <2>1 DEF status, starting
  <2>3. /\ ReportOf(j)' \in {ReportOf(j), "closed"}
        /\ \A k \in Jobs \ {j} : ReportOf(k)' = ReportOf(k)
    BY <1>1, <1>10, CompleteDispatchDoes DEF SupMoves, ReportOf
  <2>4. report' \in {report, [report EXCEPT ![j] = "closed"]}
    BY <2>3 DEF report
  <2>5. CASE posted' = [posted EXCEPT ![j] = sup[j].job.st]
    <3>1. Board!Announce(j)
      BY <2>1, <2>2, <2>4, <2>5 DEF Board!Announce, report, status, starting
    <3>2. QED BY <3>1 DEF Board!Next
  <2>6. CASE posted' = posted
    <3>1. CASE SupMoves(j, "hook", "done")
      BY <1>3, <2>1, <2>6, <3>1 DEF Board!Next
    <3>2. CASE sup' = sup
      <4>1. UNCHANGED report
        BY <3>2 DEF report, ReportOf
      <4>2. QED BY <2>2, <2>6, <4>1, BoardSame
    <3>3. QED BY <1>1, <1>10, <3>1, <3>2, CompleteDispatchDoes
  <2>7. QED BY <1>1, <1>10, <2>5, <2>6, CompleteDispatchDoes
<1>11. QED BY <1>4, <1>5, <1>6, <1>7, <1>8, <1>9, <1>10 DEF SuperviseStep

\* Cancels, the steps of the process, and containers that exit.
LEMMA OtherBoard ==
  ASSUME IInv, IInv', NEW j \in Jobs,
         \/ ContainerExit(j) \/ CancelRead(j) \/ CancelStep(j)
         \/ ReattachAlive(j) \/ ReattachDead(j)
         \/ Crash \/ SigTerm \/ Exit \/ StartList \/ ReattachDone \/ Sweep
  PROVE  [Board!Next]_(Board!boardVars)
<1> USE DEF host, process, db, hooks
<1>1. TypeOK /\ OutcomeKnown /\ OutcomeKnown' /\ RowsTracked /\ StartAlone
      /\ RunningSupervised
  BY DEF IInv
<1>2. ASSUME UNCHANGED <<row, enq, sup, posted>> PROVE UNCHANGED Board!boardVars
  <2>1. UNCHANGED <<status, starting, report, posted>>
    BY <1>2 DEF status, starting, report, ReportOf
  <2>2. QED BY <2>1, BoardSame
<1>3. CASE \/ ContainerExit(j) \/ CancelRead(j) \/ CancelStop(j) \/ ReattachAlive(j)
           \/ SigTerm \/ StartList \/ ReattachDone \/ Sweep
  BY <1>2, <1>3 DEF ContainerExit, CancelRead, CancelStop, ReattachAlive, SigTerm,
                    StartList, ReattachDone, Sweep
<1>4. CASE CancelWrite(j)
  <2>1. UNCHANGED <<enq, sup, posted>> /\ row[j].st # "none"
    BY <1>1, <1>4 DEF CancelWrite, RowsTracked
  <2>2. CASE UNCHANGED db
    BY <1>2, <2>1, <2>2
  <2>3. CASE WriteRow(j, [st |-> "cancelled", cid |-> cnl[j] = "writingStarted"])
    <3>1. [st |-> "cancelled", cid |-> cnl[j] = "writingStarted"] \in Rows
      BY MarksAreRows
    <3>2. status' = [status EXCEPT ![j] = "cancelled"]
      BY <1>1, <2>3, <3>1, WriteRowSets
    <3>3. UNCHANGED <<starting, report, posted>>
      BY <2>1 DEF starting, report, ReportOf
    <3>4. Board!Cancel(j)
      BY <2>1, <3>2, <3>3 DEF Board!Cancel, Board!Set, status, starting, report
    <3>5. QED BY <3>4 DEF Board!Next
  <2>4. QED BY <1>4, <2>2, <2>3 DEF CancelWrite
<1>5. CASE ReattachDead(j)
  <2>1. /\ UNCHANGED <<enq, sup, posted>> /\ row[j].st = "running"
        /\ j \notin starting /\ ReportOf(j) = "closed"
    BY <1>1, <1>5 DEF ReattachDead, StartAlone, RunningSupervised, starting, ReportOf
  <2>2. CASE UNCHANGED db
    BY <1>2, <2>1, <2>2
  <2>3. CASE WriteRow(j, MarkFailed(row[j]))
    <3>1. MarkFailed(row[j]) \in Rows /\ MarkFailed(row[j]).st = "failed"
      BY <1>1, MarksAreRows DEF TypeOK, Rows, MarkFailed
    <3>2. status' = [status EXCEPT ![j] = "failed"]
      BY <1>1, <2>3, <3>1, WriteRowSets
    <3>3. UNCHANGED <<starting, report, posted>>
      BY <2>1 DEF starting, report, ReportOf
    <3>4. Board!Abandon(j)
      BY <2>1, <3>2, <3>3 DEF Board!Abandon, Board!Set, status, starting, report
    <3>5. QED BY <3>4 DEF Board!Next
  <2>4. QED BY <1>5, <2>2, <2>3 DEF ReattachDead
<1>6. CASE Crash \/ Exit
  <2>1. UNCHANGED <<row, posted>> /\ LoseGoroutines
    BY <1>6 DEF Crash, Exit
  <2>2. \A k \in Jobs : enq'[k] \in {enq[k], "done"}
    BY <2>1 DEF LoseGoroutines
  <2>3. \A k \in Jobs : ReportOf(k)' \in {ReportOf(k), "closed"}
    BY <1>1, <2>1 DEF LoseGoroutines, Supervisor, ReportOf, TypeOK
  <2>4. QED BY <1>1, <2>1, <2>2, <2>3, LoseStep DEF Board!Next
<1>7. QED BY <1>3, <1>4, <1>5, <1>6 DEF CancelStep

\* A client of the orchestrator sees what JobBoard allows and nothing else.
THEOREM ImplementsBoard == Spec => BoardSpec
<1>1. Init => Board!Init
  <2> SUFFICES ASSUME Init PROVE Board!Init
    OBVIOUS
  <2>1. \A j \in Jobs : row[j].st = "none" /\ enq[j] = "idle" /\ ReportOf(j) = "open"
    BY DEF Init, NoRow, Supervisor, ReportOf
  <2>2. QED BY <2>1 DEF Init, Board!Init
<1>2. IInv /\ IInv' /\ [Next]_vars => [Board!Next]_(Board!boardVars)
  <2> SUFFICES ASSUME IInv, IInv', [Next]_vars PROVE [Board!Next]_(Board!boardVars)
    OBVIOUS
  <2>1. CASE UNCHANGED vars
    <3>1. UNCHANGED <<status, starting, report, posted>>
      BY <2>1 DEF vars, status, starting, report, ReportOf
    <3>2. QED BY <3>1, BoardSame
  <2>2. CASE Jobs = {}
    <3>1. UNCHANGED posted
      BY <2>2 DEF Next, StartStep, Crash, Exit, SigTerm, StartList, ReattachDone, Sweep,
                  hooks, vars
    <3>2. UNCHANGED <<status, starting, report, posted>>
      BY <2>2, <3>1 DEF status, starting, report
    <3>3. QED BY <3>2, BoardSame
  <2>3. CASE Next /\ Jobs # {}
    BY <2>3, EnqueueBoard, SuperviseBoard, OtherBoard DEF Next, StartStep
  <2>4. QED BY <2>1, <2>2, <2>3
<1>3. QED
  BY <1>1, <1>2, Invariance, PTL DEF Spec, BoardSpec, Board!Spec
=============================================================================
