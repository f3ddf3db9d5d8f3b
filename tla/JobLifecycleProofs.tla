-------------------------- MODULE JobLifecycleProofs --------------------------
(***************************************************************************)
(* The inductive invariant of JobLifecycle and what follows from it.  Each *)
(* part of the invariant has one lemma: every action keeps it, by what     *)
(* JobLifecycleSteps says the action does.                                 *)
(***************************************************************************)
EXTENDS JobLifecycleSteps

------------------------------------------------------------------------------
(* The parts of the invariant. *)

\* Every step keeps every variable in its type.
LEMMA TypeStep == IInv /\ [Next]_vars => TypeOK'
<1> SUFFICES ASSUME IInv, [Next]_vars PROVE TypeOK'
  OBVIOUS
<1>1. TypeOK /\ OutcomeKnown /\ AttemptsCounted
  BY DEF IInv
<1>2. ASSUME UNCHANGED <<row, settled, cont, exit, secrets, workspace, enq, cnl, sup,
                       posted, tries, srv, todo, adopted, stops, faulty>>
      PROVE  TypeOK'
  BY <1>2, <1>1 DEF TypeOK
<1>3. ASSUME NEW j \in Jobs, ContainerExit(j) PROVE TypeOK'
  BY <1>1, <1>3, ContainerExitDoes DEF TypeOK, ContMoves
<1>4. ASSUME NEW j \in Jobs, EnqueueCreate(j) PROVE TypeOK'
  BY <1>1, <1>4, EnqueueCreateDoes DEF TypeOK, EnqMoves, RowWritten
<1>5. ASSUME NEW j \in Jobs,
             EnqueueCountUser(j) \/ EnqueueCountGlobal(j) \/ EnqueueCreds(j)
      PROVE  TypeOK'
  BY <1>1, <1>5, EnqueueChecksDoes DEF TypeOK, EnqMoves
<1>6. ASSUME NEW j \in Jobs, EnqueuePrepare(j) \/ EnqueueUndo(j) PROVE TypeOK'
  BY <1>1, <1>6, EnqueueDirsDoes DEF TypeOK, EnqMoves
<1>7. ASSUME NEW j \in Jobs, EnqueueDockerRun(j) PROVE TypeOK'
  BY <1>1, <1>7, EnqueueDockerRunDoes DEF TypeOK, EnqMoves, SupMoves, ContMoves
<1>8. ASSUME NEW j \in Jobs, EnqueueStartFailed(j) PROVE TypeOK'
  BY <1>1, <1>8, EnqueueStartFailedDoes DEF TypeOK, EnqMoves, RowWritten
<1>9. ASSUME NEW j \in Jobs, EnqueueMarkRunning(j) PROVE TypeOK'
  BY <1>1, <1>9, EnqueueMarkRunningDoes DEF TypeOK, EnqMoves, RowWritten
<1>10. ASSUME NEW j \in Jobs, CancelRead(j) PROVE TypeOK'
  BY <1>1, <1>10, CancelReadDoes DEF TypeOK
<1>11. ASSUME NEW j \in Jobs, CancelStop(j) PROVE TypeOK'
  BY <1>1, <1>11, CancelStopDoes DEF TypeOK, ContMoves
<1>12. ASSUME NEW j \in Jobs, CancelWrite(j) PROVE TypeOK'
  BY <1>1, <1>12, CancelWriteDoes DEF TypeOK, RowWritten
<1>13. ASSUME NEW j \in Jobs, SuperviseWait(j) PROVE TypeOK'
  BY <1>1, <1>13, SuperviseWaitDoes DEF TypeOK, SupMoves
<1>14. ASSUME NEW j \in Jobs, SuperviseTimeout(j) PROVE TypeOK'
  BY <1>1, <1>14, SuperviseTimeoutDoes DEF TypeOK, SupMoves, ContMoves, Killed
<1>15. ASSUME NEW j \in Jobs, SuperviseCollect(j) PROVE TypeOK'
  BY <1>1, <1>15, SuperviseCollectDoes DEF TypeOK, SupMoves
<1>16. ASSUME NEW j \in Jobs, SuperviseClean(j) \/ SuperviseRemove(j) PROVE TypeOK'
  BY <1>1, <1>16, SuperviseTidyDoes DEF TypeOK, SupMoves, ContMoves
<1>17. ASSUME NEW j \in Jobs, CompleteGet(j) PROVE TypeOK'
  BY <1>1, <1>17, CompleteGetDoes DEF TypeOK, SupMoves
<1>18. ASSUME NEW j \in Jobs, CompleteUpdate(j) PROVE TypeOK'
  BY <1>1, <1>18, CompleteUpdateDoes DEF TypeOK, SupMoves, RowWritten
<1>19. ASSUME NEW j \in Jobs, CompleteDispatch(j) PROVE TypeOK'
  <2>1. /\ sup[j].job.st \in {"succeeded", "failed"} /\ tries[j] \in 0 .. MaxAttempts
        /\ tries[j] < MaxAttempts
    BY <1>1, <1>19, CompleteDispatchDoes DEF OutcomeKnown, AttemptsCounted, TypeOK
  <2>2. tries[j] + 1 \in 0 .. MaxAttempts
    BY <2>1 DEF MaxAttempts
  <2>3. /\ posted' \in [Jobs -> {"none", "succeeded", "failed"}]
        /\ tries' \in [Jobs -> 0 .. MaxAttempts]
    BY <1>1, <1>19, <2>1, <2>2, CompleteDispatchDoes DEF TypeOK
  <2>4. QED BY <1>1, <1>19, <2>3, CompleteDispatchDoes DEF TypeOK, SupMoves
<1>20. ASSUME NEW j \in Jobs, ReattachDead(j) PROVE TypeOK'
  BY <1>1, <1>20, ReattachDeadDoes DEF TypeOK, RowWritten
<1>21. CASE Crash \/ Exit
  <2>1. stops' \in 0 .. MaxStops /\ srv' = "down" /\ todo' \subseteq Jobs
    BY <1>1, <1>21, LossDoes, StopsAssumption DEF TypeOK
  <2>2. QED BY <1>1, <1>21, <2>1, LossDoes DEF TypeOK
<1>22. CASE SigTerm \/ StartList \/ ReattachDone \/ Sweep \/ \E j \in Jobs : ReattachAlive(j)
  <2>1. stops' \in 0 .. MaxStops
    BY <1>1, <1>22, ProcessDoes, StopsAssumption DEF TypeOK
  <2>2. srv' \in {"down", "reattach", "sweep", "up", "draining"}
    BY <1>1, <1>22, ProcessDoes
  <2>3. todo' \subseteq Jobs /\ adopted' \subseteq Jobs
    BY <1>1, <1>22, ProcessDoes DEF TypeOK, RunningRows
  <2>4. secrets' \subseteq Jobs
    BY <1>1, <1>22, ProcessDoes DEF TypeOK
  <2>5. UNCHANGED <<row, settled, cont, exit, workspace, enq, cnl, sup, posted, tries,
                    faulty>>
    BY <1>1, <1>22, ProcessDoes
  <2>6. QED BY <1>1, <2>1, <2>2, <2>3, <2>4, <2>5 DEF TypeOK
<1>23. CASE UNCHANGED vars
  BY <1>2, <1>23 DEF vars
<1> QED
  BY <1>2, <1>3, <1>4, <1>5, <1>6, <1>7, <1>8, <1>9, <1>10, <1>11, <1>12, <1>13,
     <1>14, <1>15, <1>16, <1>17, <1>18, <1>19, <1>20, <1>21, <1>22, <1>23
     DEF Next, EnqueueStep, CancelStep, SuperviseStep, StartStep

\* A supervisor reaches "update" only with the outcome it has just marked.
LEMMA OutcomeStep == IInv /\ [Next]_vars => OutcomeKnown'
<1> SUFFICES ASSUME IInv, [Next]_vars PROVE OutcomeKnown'
  OBVIOUS
<1>1. TypeOK /\ OutcomeKnown
  BY DEF IInv
<1>2. ASSUME UNCHANGED <<sup>> PROVE OutcomeKnown'
  BY <1>2, <1>1 DEF OutcomeKnown
<1>3. ASSUME NEW j \in Jobs,
             \/ ContainerExit(j) \/ EnqueueCreate(j) \/ EnqueueCountUser(j)
             \/ EnqueueCountGlobal(j) \/ EnqueueCreds(j)
             \/ EnqueuePrepare(j) \/ EnqueueUndo(j)
             \/ EnqueueStartFailed(j) \/ EnqueueMarkRunning(j) \/ CancelRead(j)
             \/ CancelStop(j) \/ CancelWrite(j) \/ ReattachDead(j)
      PROVE  UNCHANGED <<sup>>
  BY <1>1, <1>3, ContainerExitDoes, EnqueueCreateDoes, EnqueueChecksDoes,
     EnqueueDirsDoes, EnqueueStartFailedDoes, EnqueueMarkRunningDoes,
     CancelReadDoes, CancelStopDoes, CancelWriteDoes, ReattachDeadDoes
<1>4. ASSUME NEW j \in Jobs, EnqueueDockerRun(j) PROVE OutcomeKnown'
  BY <1>1, <1>4, EnqueueDockerRunDoes
     DEF OutcomeKnown, EnqMoves, SupMoves, ContMoves
<1>5. ASSUME NEW j \in Jobs, SuperviseWait(j) PROVE OutcomeKnown'
  BY <1>1, <1>5, SuperviseWaitDoes DEF OutcomeKnown, SupMoves
<1>6. ASSUME NEW j \in Jobs, SuperviseTimeout(j) PROVE OutcomeKnown'
  BY <1>1, <1>6, SuperviseTimeoutDoes DEF OutcomeKnown, SupMoves, ContMoves, Killed
<1>7. ASSUME NEW j \in Jobs, SuperviseCollect(j) PROVE OutcomeKnown'
  BY <1>1, <1>7, SuperviseCollectDoes DEF OutcomeKnown, SupMoves
<1>8. ASSUME NEW j \in Jobs, SuperviseClean(j) \/ SuperviseRemove(j) PROVE OutcomeKnown'
  BY <1>1, <1>8, SuperviseTidyDoes DEF OutcomeKnown, SupMoves, ContMoves
<1>9. ASSUME NEW j \in Jobs, CompleteGet(j) PROVE OutcomeKnown'
  BY <1>1, <1>9, CompleteGetDoes DEF OutcomeKnown, SupMoves
<1>10. ASSUME NEW j \in Jobs, CompleteUpdate(j) PROVE OutcomeKnown'
  BY <1>1, <1>10, CompleteUpdateDoes DEF OutcomeKnown, SupMoves, RowWritten
<1>11. ASSUME NEW j \in Jobs, CompleteDispatch(j) PROVE OutcomeKnown'
  BY <1>1, <1>11, CompleteDispatchDoes DEF OutcomeKnown, SupMoves
<1>12. CASE Crash \/ Exit
  BY <1>1, <1>12, LossDoes DEF OutcomeKnown
<1>13. CASE SigTerm \/ StartList \/ ReattachDone \/ Sweep \/ \E j \in Jobs : ReattachAlive(j)
  BY <1>1, <1>2, <1>13, ProcessDoes
<1>14. CASE UNCHANGED vars
  BY <1>2, <1>14 DEF vars
<1> QED
  BY <1>2, <1>3, <1>4, <1>5, <1>6, <1>7, <1>8, <1>9, <1>10, <1>11, <1>12, <1>13,
     <1>14
     DEF Next, EnqueueStep, CancelStep, SuperviseStep, StartStep

\* A supervisor starts with its container, and containers do not disappear
\* without having been there.
LEMMA SupervisedStep == IInv /\ [Next]_vars => SupervisedStarted'
<1> SUFFICES ASSUME IInv, [Next]_vars PROVE SupervisedStarted'
  OBVIOUS
<1>1. TypeOK /\ SupervisedStarted
  BY DEF IInv
<1>2. ASSUME UNCHANGED <<sup, cont>> PROVE SupervisedStarted'
  BY <1>2, <1>1 DEF SupervisedStarted
<1>3. ASSUME NEW j \in Jobs,
             \/ EnqueueCreate(j) \/ EnqueueCountUser(j) \/ EnqueueCountGlobal(j)
             \/ EnqueueCreds(j) \/ EnqueuePrepare(j) \/ EnqueueUndo(j) \/ EnqueueStartFailed(j)
             \/ EnqueueMarkRunning(j) \/ CancelRead(j) \/ CancelWrite(j)
             \/ ReattachDead(j)
      PROVE  UNCHANGED <<sup, cont>>
  BY <1>1, <1>3, EnqueueCreateDoes, EnqueueChecksDoes, EnqueueDirsDoes,
     EnqueueStartFailedDoes, EnqueueMarkRunningDoes, CancelReadDoes,
     CancelWriteDoes, ReattachDeadDoes
<1>4. ASSUME NEW j \in Jobs, ContainerExit(j) PROVE SupervisedStarted'
  BY <1>1, <1>4, ContainerExitDoes DEF SupervisedStarted, ContMoves
<1>5. ASSUME NEW j \in Jobs, EnqueueDockerRun(j) PROVE SupervisedStarted'
  BY <1>1, <1>5, EnqueueDockerRunDoes
     DEF SupervisedStarted, EnqMoves, SupMoves, ContMoves
<1>6. ASSUME NEW j \in Jobs, CancelStop(j) PROVE SupervisedStarted'
  BY <1>1, <1>6, CancelStopDoes DEF SupervisedStarted, ContMoves
<1>7. ASSUME NEW j \in Jobs, SuperviseWait(j) PROVE SupervisedStarted'
  BY <1>1, <1>7, SuperviseWaitDoes DEF SupervisedStarted, SupMoves
<1>8. ASSUME NEW j \in Jobs, SuperviseTimeout(j) PROVE SupervisedStarted'
  BY <1>1, <1>8, SuperviseTimeoutDoes
     DEF SupervisedStarted, SupMoves, ContMoves, Killed
<1>9. ASSUME NEW j \in Jobs, SuperviseCollect(j) PROVE SupervisedStarted'
  BY <1>1, <1>9, SuperviseCollectDoes DEF SupervisedStarted, SupMoves
<1>10. ASSUME NEW j \in Jobs, SuperviseClean(j) \/ SuperviseRemove(j) PROVE SupervisedStarted'
  BY <1>1, <1>10, SuperviseTidyDoes DEF SupervisedStarted, SupMoves, ContMoves
<1>11. ASSUME NEW j \in Jobs, CompleteGet(j) PROVE SupervisedStarted'
  BY <1>1, <1>11, CompleteGetDoes DEF SupervisedStarted, SupMoves
<1>12. ASSUME NEW j \in Jobs, CompleteUpdate(j) PROVE SupervisedStarted'
  BY <1>1, <1>12, CompleteUpdateDoes DEF SupervisedStarted, SupMoves, RowWritten
<1>13. ASSUME NEW j \in Jobs, CompleteDispatch(j) PROVE SupervisedStarted'
  BY <1>1, <1>13, CompleteDispatchDoes DEF SupervisedStarted, SupMoves
<1>14. CASE Crash \/ Exit
  BY <1>1, <1>14, LossDoes DEF SupervisedStarted
<1>15. CASE SigTerm \/ StartList \/ ReattachDone \/ Sweep \/ \E j \in Jobs : ReattachAlive(j)
  BY <1>1, <1>2, <1>15, ProcessDoes
<1>16. CASE UNCHANGED vars
  BY <1>2, <1>16 DEF vars
<1> QED
  BY <1>2, <1>3, <1>4, <1>5, <1>6, <1>7, <1>8, <1>9, <1>10, <1>11, <1>12, <1>13,
     <1>14, <1>15, <1>16
     DEF Next, EnqueueStep, CancelStep, SuperviseStep, StartStep

\* A row is inserted before a container is started for it, and never deleted.
LEMMA RowsStep == IInv /\ [Next]_vars => RowsTracked'
<1> SUFFICES ASSUME IInv, [Next]_vars PROVE RowsTracked'
  OBVIOUS
<1>1. TypeOK /\ OutcomeKnown /\ SupervisedStarted /\ RowsTracked /\ StartAlone
  BY DEF IInv
<1>2. ASSUME UNCHANGED <<row, settled, cont, enq, cnl>> PROVE RowsTracked'
  BY <1>2, <1>1 DEF RowsTracked, Terminal
<1>3. ASSUME NEW j \in Jobs,
             \/ SuperviseWait(j) \/ SuperviseCollect(j) \/ CompleteGet(j)
             \/ CompleteDispatch(j)
      PROVE  UNCHANGED <<row, settled, cont, enq, cnl>>
  BY <1>1, <1>3, SuperviseWaitDoes, SuperviseCollectDoes, CompleteGetDoes,
     CompleteDispatchDoes
<1>4. ASSUME NEW j \in Jobs, ContainerExit(j) PROVE RowsTracked'
  BY <1>1, <1>4, ContainerExitDoes DEF RowsTracked, ContMoves, Terminal
<1>5. ASSUME NEW j \in Jobs, EnqueueCreate(j) PROVE RowsTracked'
  BY <1>1, <1>5, EnqueueCreateDoes, MarkedFields
     DEF RowsTracked, EnqMoves, RowWritten, Terminal
<1>6. ASSUME NEW j \in Jobs,
             EnqueueCountUser(j) \/ EnqueueCountGlobal(j) \/ EnqueueCreds(j)
      PROVE  RowsTracked'
  BY <1>1, <1>6, EnqueueChecksDoes DEF RowsTracked, EnqMoves, Terminal
<1>7. ASSUME NEW j \in Jobs, EnqueuePrepare(j) \/ EnqueueUndo(j) PROVE RowsTracked'
  BY <1>1, <1>7, EnqueueDirsDoes DEF RowsTracked, EnqMoves, Terminal
<1>8. ASSUME NEW j \in Jobs, EnqueueDockerRun(j) PROVE RowsTracked'
  BY <1>1, <1>8, EnqueueDockerRunDoes
     DEF RowsTracked, EnqMoves, SupMoves, ContMoves, Terminal
<1>9. ASSUME NEW j \in Jobs, EnqueueStartFailed(j) PROVE RowsTracked'
  BY <1>1, <1>9, EnqueueStartFailedDoes, MarkedFields
     DEF RowsTracked, EnqMoves, RowWritten, Terminal
<1>10. ASSUME NEW j \in Jobs, EnqueueMarkRunning(j) PROVE RowsTracked'
  BY <1>1, <1>10, EnqueueMarkRunningDoes, MarkedFields
     DEF RowsTracked, EnqMoves, RowWritten, Terminal
<1>11. ASSUME NEW j \in Jobs, CancelRead(j) PROVE RowsTracked'
  BY <1>1, <1>11, CancelReadDoes DEF RowsTracked, Active, Terminal
<1>12. ASSUME NEW j \in Jobs, CancelStop(j) PROVE RowsTracked'
  BY <1>1, <1>12, CancelStopDoes DEF RowsTracked, ContMoves, Terminal
<1>13. ASSUME NEW j \in Jobs, CancelWrite(j) PROVE RowsTracked'
  BY <1>1, <1>13, CancelWriteDoes DEF RowsTracked, RowWritten, Terminal
<1>14. ASSUME NEW j \in Jobs, SuperviseTimeout(j) PROVE RowsTracked'
  BY <1>1, <1>14, SuperviseTimeoutDoes
     DEF RowsTracked, SupMoves, ContMoves, Killed, SupervisedStarted, Terminal
<1>15. ASSUME NEW j \in Jobs, SuperviseClean(j) \/ SuperviseRemove(j) PROVE RowsTracked'
  BY <1>1, <1>15, SuperviseTidyDoes
     DEF RowsTracked, SupMoves, ContMoves, SupervisedStarted, Terminal
<1>16. ASSUME NEW j \in Jobs, CompleteUpdate(j) PROVE RowsTracked'
  BY <1>1, <1>16, CompleteUpdateDoes
     DEF RowsTracked, SupMoves, RowWritten, OutcomeKnown, SupervisedStarted,
         Terminal
<1>17. ASSUME NEW j \in Jobs, ReattachDead(j) PROVE RowsTracked'
  BY <1>1, <1>17, ReattachDeadDoes DEF RowsTracked, RowWritten, StartAlone, Terminal
<1>18. CASE Crash \/ Exit
  BY <1>1, <1>18, LossDoes DEF RowsTracked, Terminal
<1>19. CASE SigTerm \/ StartList \/ ReattachDone \/ Sweep \/ \E j \in Jobs : ReattachAlive(j)
  BY <1>1, <1>2, <1>19, ProcessDoes
<1>20. CASE UNCHANGED vars
  BY <1>2, <1>20 DEF vars
<1> QED
  BY <1>2, <1>3, <1>4, <1>5, <1>6, <1>7, <1>8, <1>9, <1>10, <1>11, <1>12, <1>13,
     <1>14, <1>15, <1>16, <1>17, <1>18, <1>19, <1>20
     DEF Next, EnqueueStep, CancelStep, SuperviseStep, StartStep

\* Supervisors do not vanish, and the request reaches its last write through
\* the step that starts one.
LEMMA RunningStep == IInv /\ [Next]_vars => RunningSupervised'
<1> SUFFICES ASSUME IInv, [Next]_vars PROVE RunningSupervised'
  OBVIOUS
<1>1. TypeOK /\ OutcomeKnown /\ RunningSupervised
  BY DEF IInv
<1>2. ASSUME UNCHANGED <<row, enq, sup>> PROVE RunningSupervised'
  BY <1>2, <1>1 DEF RunningSupervised
<1>3. ASSUME NEW j \in Jobs,
             \/ ContainerExit(j) \/ CancelRead(j) \/ CancelStop(j)
      PROVE  UNCHANGED <<row, enq, sup>>
  BY <1>1, <1>3, ContainerExitDoes, CancelReadDoes, CancelStopDoes
<1>4. ASSUME NEW j \in Jobs, EnqueueCreate(j) PROVE RunningSupervised'
  BY <1>1, <1>4, EnqueueCreateDoes, MarkedFields
     DEF RunningSupervised, EnqMoves, RowWritten
<1>5. ASSUME NEW j \in Jobs,
             EnqueueCountUser(j) \/ EnqueueCountGlobal(j) \/ EnqueueCreds(j)
      PROVE  RunningSupervised'
  BY <1>1, <1>5, EnqueueChecksDoes DEF RunningSupervised, EnqMoves
<1>6. ASSUME NEW j \in Jobs, EnqueuePrepare(j) \/ EnqueueUndo(j) PROVE RunningSupervised'
  BY <1>1, <1>6, EnqueueDirsDoes DEF RunningSupervised, EnqMoves
<1>7. ASSUME NEW j \in Jobs, EnqueueDockerRun(j) PROVE RunningSupervised'
  BY <1>1, <1>7, EnqueueDockerRunDoes
     DEF RunningSupervised, EnqMoves, SupMoves, ContMoves
<1>8. ASSUME NEW j \in Jobs, EnqueueStartFailed(j) PROVE RunningSupervised'
  BY <1>1, <1>8, EnqueueStartFailedDoes, MarkedFields
     DEF RunningSupervised, EnqMoves, RowWritten
<1>9. ASSUME NEW j \in Jobs, EnqueueMarkRunning(j) PROVE RunningSupervised'
  BY <1>1, <1>9, EnqueueMarkRunningDoes, MarkedFields
     DEF RunningSupervised, EnqMoves, RowWritten
<1>10. ASSUME NEW j \in Jobs, CancelWrite(j) PROVE RunningSupervised'
  BY <1>1, <1>10, CancelWriteDoes DEF RunningSupervised, RowWritten
<1>11. ASSUME NEW j \in Jobs, SuperviseWait(j) PROVE RunningSupervised'
  BY <1>1, <1>11, SuperviseWaitDoes DEF RunningSupervised, SupMoves
<1>12. ASSUME NEW j \in Jobs, SuperviseTimeout(j) PROVE RunningSupervised'
  BY <1>1, <1>12, SuperviseTimeoutDoes
     DEF RunningSupervised, SupMoves, ContMoves, Killed
<1>13. ASSUME NEW j \in Jobs, SuperviseCollect(j) PROVE RunningSupervised'
  BY <1>1, <1>13, SuperviseCollectDoes DEF RunningSupervised, SupMoves
<1>14. ASSUME NEW j \in Jobs, SuperviseClean(j) \/ SuperviseRemove(j) PROVE RunningSupervised'
  BY <1>1, <1>14, SuperviseTidyDoes DEF RunningSupervised, SupMoves, ContMoves
<1>15. ASSUME NEW j \in Jobs, CompleteGet(j) PROVE RunningSupervised'
  BY <1>1, <1>15, CompleteGetDoes DEF RunningSupervised, SupMoves
<1>16. ASSUME NEW j \in Jobs, CompleteUpdate(j) PROVE RunningSupervised'
  BY <1>1, <1>16, CompleteUpdateDoes
     DEF RunningSupervised, SupMoves, RowWritten, OutcomeKnown
<1>17. ASSUME NEW j \in Jobs, CompleteDispatch(j) PROVE RunningSupervised'
  BY <1>1, <1>17, CompleteDispatchDoes DEF RunningSupervised, SupMoves
<1>18. ASSUME NEW j \in Jobs, ReattachDead(j) PROVE RunningSupervised'
  BY <1>1, <1>18, ReattachDeadDoes DEF RunningSupervised, RowWritten
<1>19. CASE Crash \/ Exit
  BY <1>1, <1>19, LossDoes DEF RunningSupervised
<1>20. CASE SigTerm \/ StartList \/ ReattachDone \/ Sweep \/ \E j \in Jobs : ReattachAlive(j)
  BY <1>1, <1>2, <1>20, ProcessDoes
<1>21. CASE UNCHANGED vars
  BY <1>2, <1>21 DEF vars
<1> QED
  BY <1>2, <1>3, <1>4, <1>5, <1>6, <1>7, <1>8, <1>9, <1>10, <1>11, <1>12, <1>13,
     <1>14, <1>15, <1>16, <1>17, <1>18, <1>19, <1>20, <1>21
     DEF Next, EnqueueStep, CancelStep, SuperviseStep, StartStep

\* A process that starts up is alone with the rows it has listed.
LEMMA AloneStep == IInv /\ [Next]_vars => StartAlone'
<1> SUFFICES ASSUME IInv, [Next]_vars PROVE StartAlone'
  OBVIOUS
<1>1. TypeOK /\ StartAlone
  BY DEF IInv
<1>2. ASSUME UNCHANGED <<row, enq, cnl, sup, srv, todo>> PROVE StartAlone'
  BY <1>2, <1>1 DEF StartAlone
<1>3. ASSUME NEW j \in Jobs,
             \/ ContainerExit(j)
      PROVE  UNCHANGED <<row, enq, cnl, sup, srv, todo>>
  BY <1>1, <1>3, ContainerExitDoes
<1>4. ASSUME NEW j \in Jobs, EnqueueCreate(j) PROVE StartAlone'
  BY <1>1, <1>4, EnqueueCreateDoes
     DEF StartAlone, EnqMoves, RowWritten, EnqueueStates
<1>5. ASSUME NEW j \in Jobs,
             EnqueueCountUser(j) \/ EnqueueCountGlobal(j) \/ EnqueueCreds(j)
      PROVE  StartAlone'
  BY <1>1, <1>5, EnqueueChecksDoes DEF StartAlone, EnqMoves
<1>6. ASSUME NEW j \in Jobs, EnqueuePrepare(j) \/ EnqueueUndo(j) PROVE StartAlone'
  BY <1>1, <1>6, EnqueueDirsDoes DEF StartAlone, EnqMoves
<1>7. ASSUME NEW j \in Jobs, EnqueueDockerRun(j) PROVE StartAlone'
  BY <1>1, <1>7, EnqueueDockerRunDoes DEF StartAlone, EnqMoves, SupMoves, ContMoves
<1>8. ASSUME NEW j \in Jobs, EnqueueStartFailed(j) PROVE StartAlone'
  BY <1>1, <1>8, EnqueueStartFailedDoes DEF StartAlone, EnqMoves, RowWritten
<1>9. ASSUME NEW j \in Jobs, EnqueueMarkRunning(j) PROVE StartAlone'
  BY <1>1, <1>9, EnqueueMarkRunningDoes DEF StartAlone, EnqMoves, RowWritten
<1>10. ASSUME NEW j \in Jobs, CancelRead(j) PROVE StartAlone'
  BY <1>1, <1>10, CancelReadDoes DEF StartAlone
<1>11. ASSUME NEW j \in Jobs, CancelStop(j) PROVE StartAlone'
  BY <1>1, <1>11, CancelStopDoes DEF StartAlone, ContMoves
<1>12. ASSUME NEW j \in Jobs, CancelWrite(j) PROVE StartAlone'
  BY <1>1, <1>12, CancelWriteDoes DEF StartAlone, RowWritten
<1>13. ASSUME NEW j \in Jobs, SuperviseWait(j) PROVE StartAlone'
  BY <1>1, <1>13, SuperviseWaitDoes DEF StartAlone, SupMoves
<1>14. ASSUME NEW j \in Jobs, SuperviseTimeout(j) PROVE StartAlone'
  BY <1>1, <1>14, SuperviseTimeoutDoes DEF StartAlone, SupMoves, ContMoves, Killed
<1>15. ASSUME NEW j \in Jobs, SuperviseCollect(j) PROVE StartAlone'
  BY <1>1, <1>15, SuperviseCollectDoes DEF StartAlone, SupMoves
<1>16. ASSUME NEW j \in Jobs, SuperviseClean(j) \/ SuperviseRemove(j) PROVE StartAlone'
  BY <1>1, <1>16, SuperviseTidyDoes DEF StartAlone, SupMoves, ContMoves
<1>17. ASSUME NEW j \in Jobs, CompleteGet(j) PROVE StartAlone'
  BY <1>1, <1>17, CompleteGetDoes DEF StartAlone, SupMoves
<1>18. ASSUME NEW j \in Jobs, CompleteUpdate(j) PROVE StartAlone'
  BY <1>1, <1>18, CompleteUpdateDoes DEF StartAlone, SupMoves, RowWritten
<1>19. ASSUME NEW j \in Jobs, CompleteDispatch(j) PROVE StartAlone'
  BY <1>1, <1>19, CompleteDispatchDoes DEF StartAlone, SupMoves
<1>20. ASSUME NEW j \in Jobs, ReattachDead(j) PROVE StartAlone'
  <2>1. /\ \A k \in Jobs \ {j} : row'[k] = row[k]
        /\ todo' \subseteq todo \ {j} /\ srv' \in {"reattach", "sweep"}
        /\ srv = "reattach" /\ UNCHANGED <<enq, cnl, sup>>
        /\ srv' = "sweep" => todo' = {}
    BY <1>1, <1>20, ReattachDeadDoes DEF RowWritten
  <2>2. QED BY <1>1, <2>1 DEF StartAlone, TypeOK
<1>21. CASE Crash \/ Exit
  BY <1>1, <1>21, LossDoes DEF StartAlone
<1>22. CASE SigTerm \/ StartList \/ ReattachDone \/ Sweep \/ \E j \in Jobs : ReattachAlive(j)
  BY <1>1, <1>22, ProcessDoes DEF StartAlone, RunningRows
<1>23. CASE UNCHANGED vars
  BY <1>2, <1>23 DEF vars
<1> QED
  BY <1>2, <1>3, <1>4, <1>5, <1>6, <1>7, <1>8, <1>9, <1>10, <1>11, <1>12, <1>13,
     <1>14, <1>15, <1>16, <1>17, <1>18, <1>19, <1>20, <1>21, <1>22, <1>23
     DEF Next, EnqueueStep, CancelStep, SuperviseStep, StartStep

\* Each writer of a row leaves the order of enqueue, completion and success.
LEMMA SuccessStep == IInv /\ [Next]_vars => SuccessIsLast'
<1> SUFFICES ASSUME IInv, [Next]_vars PROVE SuccessIsLast'
  OBVIOUS
<1>1. TypeOK /\ OutcomeKnown /\ StartAlone /\ SuccessIsLast
  BY DEF IInv
<1>2. ASSUME UNCHANGED <<row, enq, sup>> PROVE SuccessIsLast'
  BY <1>2, <1>1 DEF SuccessIsLast
<1>3. ASSUME NEW j \in Jobs,
             \/ ContainerExit(j) \/ CancelRead(j) \/ CancelStop(j)
      PROVE  UNCHANGED <<row, enq, sup>>
  BY <1>1, <1>3, ContainerExitDoes, CancelReadDoes, CancelStopDoes
<1>4. ASSUME NEW j \in Jobs, EnqueueCreate(j) PROVE SuccessIsLast'
  BY <1>1, <1>4, EnqueueCreateDoes, MarkedFields
     DEF SuccessIsLast, EnqMoves, RowWritten
<1>5. ASSUME NEW j \in Jobs,
             EnqueueCountUser(j) \/ EnqueueCountGlobal(j) \/ EnqueueCreds(j)
      PROVE  SuccessIsLast'
  BY <1>1, <1>5, EnqueueChecksDoes DEF SuccessIsLast, EnqMoves
<1>6. ASSUME NEW j \in Jobs, EnqueuePrepare(j) \/ EnqueueUndo(j) PROVE SuccessIsLast'
  BY <1>1, <1>6, EnqueueDirsDoes DEF SuccessIsLast, EnqMoves
<1>7. ASSUME NEW j \in Jobs, EnqueueDockerRun(j) PROVE SuccessIsLast'
  BY <1>1, <1>7, EnqueueDockerRunDoes
     DEF SuccessIsLast, EnqMoves, SupMoves, ContMoves
<1>8. ASSUME NEW j \in Jobs, EnqueueStartFailed(j) PROVE SuccessIsLast'
  BY <1>1, <1>8, EnqueueStartFailedDoes, MarkedFields
     DEF SuccessIsLast, EnqMoves, RowWritten
<1>9. ASSUME NEW j \in Jobs, EnqueueMarkRunning(j) PROVE SuccessIsLast'
  BY <1>1, <1>9, EnqueueMarkRunningDoes, MarkedFields
     DEF SuccessIsLast, EnqMoves, RowWritten
<1>10. ASSUME NEW j \in Jobs, CancelWrite(j) PROVE SuccessIsLast'
  BY <1>1, <1>10, CancelWriteDoes DEF SuccessIsLast, RowWritten
<1>11. ASSUME NEW j \in Jobs, SuperviseWait(j) PROVE SuccessIsLast'
  BY <1>1, <1>11, SuperviseWaitDoes DEF SuccessIsLast, SupMoves
<1>12. ASSUME NEW j \in Jobs, SuperviseTimeout(j) PROVE SuccessIsLast'
  BY <1>1, <1>12, SuperviseTimeoutDoes
     DEF SuccessIsLast, SupMoves, ContMoves, Killed
<1>13. ASSUME NEW j \in Jobs, SuperviseCollect(j) PROVE SuccessIsLast'
  BY <1>1, <1>13, SuperviseCollectDoes DEF SuccessIsLast, SupMoves
<1>14. ASSUME NEW j \in Jobs, SuperviseClean(j) \/ SuperviseRemove(j) PROVE SuccessIsLast'
  BY <1>1, <1>14, SuperviseTidyDoes DEF SuccessIsLast, SupMoves, ContMoves
<1>15. ASSUME NEW j \in Jobs, CompleteGet(j) PROVE SuccessIsLast'
  BY <1>1, <1>15, CompleteGetDoes DEF SuccessIsLast, SupMoves
<1>16. ASSUME NEW j \in Jobs, CompleteUpdate(j) PROVE SuccessIsLast'
  BY <1>1, <1>16, CompleteUpdateDoes
     DEF SuccessIsLast, SupMoves, RowWritten, OutcomeKnown
<1>17. ASSUME NEW j \in Jobs, CompleteDispatch(j) PROVE SuccessIsLast'
  BY <1>1, <1>17, CompleteDispatchDoes DEF SuccessIsLast, SupMoves
<1>18. ASSUME NEW j \in Jobs, ReattachDead(j) PROVE SuccessIsLast'
  BY <1>1, <1>18, ReattachDeadDoes DEF SuccessIsLast, RowWritten, StartAlone
<1>19. CASE Crash \/ Exit
  BY <1>1, <1>19, LossDoes DEF SuccessIsLast
<1>20. CASE SigTerm \/ StartList \/ ReattachDone \/ Sweep \/ \E j \in Jobs : ReattachAlive(j)
  BY <1>1, <1>2, <1>20, ProcessDoes
<1>21. CASE UNCHANGED vars
  BY <1>2, <1>21 DEF vars
<1> QED
  BY <1>2, <1>3, <1>4, <1>5, <1>6, <1>7, <1>8, <1>9, <1>10, <1>11, <1>12, <1>13,
     <1>14, <1>15, <1>16, <1>17, <1>18, <1>19, <1>20, <1>21
     DEF Next, EnqueueStep, CancelStep, SuperviseStep, StartStep

\* Each attempt but the last leaves the supervisor another.
LEMMA AttemptsStep == IInv /\ [Next]_vars => AttemptsCounted'
<1> SUFFICES ASSUME IInv, [Next]_vars PROVE AttemptsCounted'
  OBVIOUS
<1>1. TypeOK /\ RunningSupervised /\ AttemptsCounted
  BY DEF IInv
<1>2. ASSUME UNCHANGED <<sup, tries>> PROVE AttemptsCounted'
  BY <1>2, <1>1 DEF AttemptsCounted
<1>3. ASSUME NEW j \in Jobs,
             \/ ContainerExit(j) \/ EnqueueCreate(j) \/ EnqueueCountUser(j)
             \/ EnqueueCountGlobal(j) \/ EnqueueCreds(j)
             \/ EnqueuePrepare(j) \/ EnqueueUndo(j)
             \/ EnqueueStartFailed(j) \/ EnqueueMarkRunning(j) \/ CancelRead(j)
             \/ CancelStop(j) \/ CancelWrite(j) \/ ReattachDead(j)
      PROVE  UNCHANGED <<sup, tries>>
  BY <1>1, <1>3, ContainerExitDoes, EnqueueCreateDoes, EnqueueChecksDoes,
     EnqueueDirsDoes, EnqueueStartFailedDoes, EnqueueMarkRunningDoes,
     CancelReadDoes, CancelStopDoes, CancelWriteDoes, ReattachDeadDoes
<1>4. ASSUME NEW j \in Jobs, EnqueueDockerRun(j) PROVE AttemptsCounted'
  BY <1>1, <1>4, EnqueueDockerRunDoes
     DEF AttemptsCounted, EnqMoves, SupMoves, ContMoves, RunningSupervised
<1>5. ASSUME NEW j \in Jobs, SuperviseWait(j) PROVE AttemptsCounted'
  BY <1>1, <1>5, SuperviseWaitDoes DEF AttemptsCounted, SupMoves
<1>6. ASSUME NEW j \in Jobs, SuperviseTimeout(j) PROVE AttemptsCounted'
  BY <1>1, <1>6, SuperviseTimeoutDoes
     DEF AttemptsCounted, SupMoves, ContMoves, Killed
<1>7. ASSUME NEW j \in Jobs, SuperviseCollect(j) PROVE AttemptsCounted'
  BY <1>1, <1>7, SuperviseCollectDoes DEF AttemptsCounted, SupMoves
<1>8. ASSUME NEW j \in Jobs, SuperviseClean(j) \/ SuperviseRemove(j) PROVE AttemptsCounted'
  BY <1>1, <1>8, SuperviseTidyDoes DEF AttemptsCounted, SupMoves, ContMoves
<1>9. ASSUME NEW j \in Jobs, CompleteGet(j) PROVE AttemptsCounted'
  BY <1>1, <1>9, CompleteGetDoes DEF AttemptsCounted, SupMoves
<1>10. ASSUME NEW j \in Jobs, CompleteUpdate(j) PROVE AttemptsCounted'
  BY <1>1, <1>10, CompleteUpdateDoes
     DEF AttemptsCounted, SupMoves, RowWritten, MaxAttempts
<1>11. ASSUME NEW j \in Jobs, CompleteDispatch(j) PROVE AttemptsCounted'
  <2>1. tries[j] \in 0 .. 3 /\ tries[j] < 3
    BY <1>1, <1>11, CompleteDispatchDoes DEF AttemptsCounted, TypeOK, MaxAttempts
  <2>2. /\ tries'[j] = tries[j] + 1
        /\ \A k \in Jobs \ {j} : tries'[k] = tries[k]
    BY <1>1, <1>11, CompleteDispatchDoes DEF TypeOK
  <2>3. CASE SupMoves(j, "hook", "done")
    BY <1>1, <2>2, <2>3 DEF AttemptsCounted, SupMoves
  <2>4. CASE sup' = sup /\ tries[j] + 1 # MaxAttempts
    <3>1. sup[j].pc = "hook" /\ tries'[j] < MaxAttempts
      BY <1>11, <1>1, <2>1, <2>2, <2>4, CompleteDispatchDoes DEF MaxAttempts
    <3>2. QED BY <1>1, <2>2, <2>4, <3>1 DEF AttemptsCounted
  <2>5. QED BY <1>1, <1>11, <2>3, <2>4, CompleteDispatchDoes
<1>12. CASE Crash \/ Exit
  BY <1>1, <1>12, LossDoes DEF AttemptsCounted
<1>13. CASE SigTerm \/ StartList \/ ReattachDone \/ Sweep \/ \E j \in Jobs : ReattachAlive(j)
  BY <1>1, <1>2, <1>13, ProcessDoes
<1>14. CASE UNCHANGED vars
  BY <1>2, <1>14 DEF vars
<1> QED
  BY <1>2, <1>3, <1>4, <1>5, <1>6, <1>7, <1>8, <1>9, <1>10, <1>11, <1>12, <1>13,
     <1>14
     DEF Next, EnqueueStep, CancelStep, SuperviseStep, StartStep

\* The outcome is written with the step to the first attempt, and after that only
\* a cancel writes the row of a success.
LEMMA AnnouncedStep == IInv /\ [Next]_vars => AnnouncedWasWritten'
<1> SUFFICES ASSUME IInv, [Next]_vars PROVE AnnouncedWasWritten'
  OBVIOUS
<1>1. TypeOK /\ OutcomeKnown /\ StartAlone /\ RunningSupervised
      /\ SuccessIsLast /\ RowsTracked /\ AnnouncedWasWritten
  BY DEF IInv
<1>2. ASSUME UNCHANGED <<row, settled, enq, sup, posted>> PROVE AnnouncedWasWritten'
  BY <1>2, <1>1 DEF AnnouncedWasWritten
<1>3. ASSUME NEW j \in Jobs,
             \/ ContainerExit(j) \/ CancelRead(j) \/ CancelStop(j)
      PROVE  UNCHANGED <<row, settled, enq, sup, posted>>
  BY <1>1, <1>3, ContainerExitDoes, CancelReadDoes, CancelStopDoes
<1>4. ASSUME NEW j \in Jobs, EnqueueCreate(j) PROVE AnnouncedWasWritten'
  BY <1>1, <1>4, EnqueueCreateDoes, MarkedFields
     DEF AnnouncedWasWritten, EnqMoves, RowWritten, RowsTracked
<1>5. ASSUME NEW j \in Jobs,
             EnqueueCountUser(j) \/ EnqueueCountGlobal(j) \/ EnqueueCreds(j)
      PROVE  AnnouncedWasWritten'
  BY <1>1, <1>5, EnqueueChecksDoes DEF AnnouncedWasWritten, EnqMoves
<1>6. ASSUME NEW j \in Jobs, EnqueuePrepare(j) \/ EnqueueUndo(j) PROVE AnnouncedWasWritten'
  BY <1>1, <1>6, EnqueueDirsDoes DEF AnnouncedWasWritten, EnqMoves
<1>7. ASSUME NEW j \in Jobs, EnqueueDockerRun(j) PROVE AnnouncedWasWritten'
  BY <1>1, <1>7, EnqueueDockerRunDoes
     DEF AnnouncedWasWritten, EnqMoves, SupMoves, ContMoves, RunningSupervised
<1>8. ASSUME NEW j \in Jobs, EnqueueStartFailed(j) PROVE AnnouncedWasWritten'
  BY <1>1, <1>8, EnqueueStartFailedDoes, MarkedFields
     DEF AnnouncedWasWritten, EnqMoves, RowWritten, RunningSupervised
<1>9. ASSUME NEW j \in Jobs, EnqueueMarkRunning(j) PROVE AnnouncedWasWritten'
  BY <1>1, <1>9, EnqueueMarkRunningDoes, MarkedFields
     DEF AnnouncedWasWritten, EnqMoves, RowWritten, RunningSupervised
<1>10. ASSUME NEW j \in Jobs, CancelWrite(j) PROVE AnnouncedWasWritten'
  BY <1>1, <1>10, CancelWriteDoes DEF AnnouncedWasWritten, RowWritten, Terminal
<1>11. ASSUME NEW j \in Jobs, SuperviseWait(j) PROVE AnnouncedWasWritten'
  BY <1>1, <1>11, SuperviseWaitDoes DEF AnnouncedWasWritten, SupMoves
<1>12. ASSUME NEW j \in Jobs, SuperviseTimeout(j) PROVE AnnouncedWasWritten'
  BY <1>1, <1>12, SuperviseTimeoutDoes
     DEF AnnouncedWasWritten, SupMoves, ContMoves, Killed
<1>13. ASSUME NEW j \in Jobs, SuperviseCollect(j) PROVE AnnouncedWasWritten'
  BY <1>1, <1>13, SuperviseCollectDoes DEF AnnouncedWasWritten, SupMoves
<1>14. ASSUME NEW j \in Jobs, SuperviseClean(j) \/ SuperviseRemove(j) PROVE AnnouncedWasWritten'
  BY <1>1, <1>14, SuperviseTidyDoes DEF AnnouncedWasWritten, SupMoves, ContMoves
<1>15. ASSUME NEW j \in Jobs, CompleteGet(j) PROVE AnnouncedWasWritten'
  BY <1>1, <1>15, CompleteGetDoes DEF AnnouncedWasWritten, SupMoves
<1>16. ASSUME NEW j \in Jobs, CompleteUpdate(j) PROVE AnnouncedWasWritten'
  BY <1>1, <1>16, CompleteUpdateDoes
     DEF AnnouncedWasWritten, SupMoves, RowWritten, OutcomeKnown, SuccessIsLast,
         Terminal
<1>17. ASSUME NEW j \in Jobs, CompleteDispatch(j) PROVE AnnouncedWasWritten'
  <2>1. /\ sup[j].pc = "hook" /\ sup'[j].pc \in {"hook", "done"}
        /\ sup'[j].pc = "hook" => sup' = sup
        /\ \A k \in Jobs \ {j} : sup'[k] = sup[k]
        /\ UNCHANGED <<row, settled, enq>>
    BY <1>1, <1>17, CompleteDispatchDoes DEF SupMoves
  <2>2. /\ posted'[j] \in {posted[j], sup[j].job.st}
        /\ \A k \in Jobs \ {j} : posted'[k] = posted[k]
    BY <1>1, <1>17, CompleteDispatchDoes DEF TypeOK
  <2>3. QED BY <1>1, <2>1, <2>2 DEF AnnouncedWasWritten
<1>18. ASSUME NEW j \in Jobs, ReattachDead(j) PROVE AnnouncedWasWritten'
  BY <1>1, <1>18, ReattachDeadDoes DEF AnnouncedWasWritten, RowWritten, StartAlone
<1>19. CASE Crash \/ Exit
  BY <1>1, <1>19, LossDoes DEF AnnouncedWasWritten
<1>20. CASE SigTerm \/ StartList \/ ReattachDone \/ Sweep \/ \E j \in Jobs : ReattachAlive(j)
  BY <1>1, <1>2, <1>20, ProcessDoes
<1>21. CASE UNCHANGED vars
  BY <1>2, <1>21 DEF vars
<1> QED
  BY <1>2, <1>3, <1>4, <1>5, <1>6, <1>7, <1>8, <1>9, <1>10, <1>11, <1>12, <1>13,
     <1>14, <1>15, <1>16, <1>17, <1>18, <1>19, <1>20, <1>21
     DEF Next, EnqueueStep, CancelStep, SuperviseStep, StartStep

\* While docker answers, the code a supervisor reports is that of a container that
\* exited, and containers that exited do not change.
LEMMA ExitStep == IInv /\ [Next]_vars => ExitSeen'
<1> SUFFICES ASSUME IInv, [Next]_vars PROVE ExitSeen'
  OBVIOUS
<1>1. TypeOK /\ OutcomeKnown /\ SupervisedStarted /\ RunningSupervised
      /\ SuccessIsLast /\ StartAlone /\ ExitSeen
  BY DEF IInv
<1>2. ASSUME UNCHANGED <<row, cont, exit, sup, faulty>> PROVE ExitSeen'
  BY <1>2, <1>1 DEF ExitSeen
<1>3. ASSUME NEW j \in Jobs,
             \/ EnqueueCountUser(j) \/ EnqueueCountGlobal(j) \/ EnqueueCreds(j)
             \/ EnqueuePrepare(j) \/ EnqueueUndo(j) \/ CancelRead(j)
      PROVE  UNCHANGED <<row, cont, exit, sup, faulty>>
  BY <1>1, <1>3, EnqueueChecksDoes, EnqueueDirsDoes, CancelReadDoes
<1>4. ASSUME NEW j \in Jobs, ContainerExit(j) PROVE ExitSeen'
  BY <1>1, <1>4, ContainerExitDoes DEF ExitSeen, ContMoves
<1>5. ASSUME NEW j \in Jobs, EnqueueCreate(j) PROVE ExitSeen'
  BY <1>1, <1>5, EnqueueCreateDoes, MarkedFields DEF ExitSeen, EnqMoves, RowWritten
<1>6. ASSUME NEW j \in Jobs, EnqueueDockerRun(j) PROVE ExitSeen'
  BY <1>1, <1>6, EnqueueDockerRunDoes
     DEF ExitSeen, EnqMoves, SupMoves, ContMoves, RunningSupervised, SuccessIsLast
<1>7. ASSUME NEW j \in Jobs, EnqueueStartFailed(j) PROVE ExitSeen'
  BY <1>1, <1>7, EnqueueStartFailedDoes, MarkedFields
     DEF ExitSeen, EnqMoves, RowWritten
<1>8. ASSUME NEW j \in Jobs, EnqueueMarkRunning(j) PROVE ExitSeen'
  BY <1>1, <1>8, EnqueueMarkRunningDoes, MarkedFields
     DEF ExitSeen, EnqMoves, RowWritten
<1>9. ASSUME NEW j \in Jobs, CancelStop(j) PROVE ExitSeen'
  BY <1>1, <1>9, CancelStopDoes DEF ExitSeen, ContMoves
<1>10. ASSUME NEW j \in Jobs, CancelWrite(j) PROVE ExitSeen'
  BY <1>1, <1>10, CancelWriteDoes DEF ExitSeen, RowWritten
<1>11. ASSUME NEW j \in Jobs, SuperviseWait(j) PROVE ExitSeen'
  BY <1>1, <1>11, SuperviseWaitDoes DEF ExitSeen, SupMoves
<1>12. ASSUME NEW j \in Jobs, SuperviseTimeout(j) PROVE ExitSeen'
  BY <1>1, <1>12, SuperviseTimeoutDoes DEF ExitSeen, SupMoves, ContMoves, Killed
<1>13. ASSUME NEW j \in Jobs, SuperviseCollect(j) PROVE ExitSeen'
  <2>1. /\ sup[j].pc = "collect" /\ sup'[j].pc = "clean"
        /\ \A k \in Jobs \ {j} : sup'[k] = sup[k]
        /\ UNCHANGED <<row, cont, exit, faulty>>
    BY <1>1, <1>13, SuperviseCollectDoes DEF SupMoves
  <2>2. "docker" \notin faulty /\ sup'[j].code = "zero" =>
          cont[j] = "exited" /\ exit[j] = "zero"
    BY <1>1, <1>13, <2>1, SuperviseCollectDoes DEF ExitSeen, ReportedCodes, InspectedCodes
  <2>3. QED BY <1>1, <2>1, <2>2 DEF ExitSeen
<1>14. ASSUME NEW j \in Jobs, SuperviseClean(j) \/ SuperviseRemove(j) PROVE ExitSeen'
  BY <1>1, <1>14, SuperviseTidyDoes DEF ExitSeen, SupMoves, ContMoves
<1>15. ASSUME NEW j \in Jobs, CompleteGet(j) PROVE ExitSeen'
  BY <1>1, <1>15, CompleteGetDoes DEF ExitSeen, SupMoves
<1>16. ASSUME NEW j \in Jobs, CompleteUpdate(j) PROVE ExitSeen'
  BY <1>1, <1>16, CompleteUpdateDoes DEF ExitSeen, SupMoves, RowWritten
<1>17. ASSUME NEW j \in Jobs, CompleteDispatch(j) PROVE ExitSeen'
  BY <1>1, <1>17, CompleteDispatchDoes DEF ExitSeen, SupMoves
<1>18. ASSUME NEW j \in Jobs, ReattachDead(j) PROVE ExitSeen'
  BY <1>1, <1>18, ReattachDeadDoes DEF ExitSeen, RowWritten
<1>19. CASE Crash \/ Exit
  BY <1>1, <1>19, LossDoes DEF ExitSeen
<1>20. CASE SigTerm \/ StartList \/ ReattachDone \/ Sweep \/ \E j \in Jobs : ReattachAlive(j)
  BY <1>1, <1>2, <1>20, ProcessDoes
<1>21. CASE UNCHANGED vars
  BY <1>2, <1>21 DEF vars
<1> QED
  BY <1>2, <1>3, <1>4, <1>5, <1>6, <1>7, <1>8, <1>9, <1>10, <1>11, <1>12, <1>13,
     <1>14, <1>15, <1>16, <1>17, <1>18, <1>19, <1>20, <1>21
     DEF Next, EnqueueStep, CancelStep, SuperviseStep, StartStep

\* The last write of the enqueue request records the container id, after the
\* container has started.
LEMMA StoppedStep == IInv /\ [Next]_vars => StoppedFirst'
<1> SUFFICES ASSUME IInv, [Next]_vars PROVE StoppedFirst'
  OBVIOUS
<1>1. TypeOK /\ OutcomeKnown /\ RunningSupervised /\ StoppedFirst /\ RowsTracked
  BY DEF IInv
<1>2. ASSUME UNCHANGED <<row, cont, enq, cnl, sup, faulty>> PROVE StoppedFirst'
  BY <1>2, <1>1 DEF StoppedFirst
<1>3. ASSUME NEW j \in Jobs, ContainerExit(j) PROVE StoppedFirst'
  BY <1>1, <1>3, ContainerExitDoes DEF StoppedFirst, ContMoves
<1>4. ASSUME NEW j \in Jobs, EnqueueCreate(j) PROVE StoppedFirst'
  BY <1>1, <1>4, EnqueueCreateDoes, MarkedFields
     DEF StoppedFirst, EnqMoves, RowWritten, RowsTracked
<1>5. ASSUME NEW j \in Jobs,
             EnqueueCountUser(j) \/ EnqueueCountGlobal(j) \/ EnqueueCreds(j)
      PROVE  StoppedFirst'
  BY <1>1, <1>5, EnqueueChecksDoes DEF StoppedFirst, EnqMoves
<1>6. ASSUME NEW j \in Jobs, EnqueuePrepare(j) \/ EnqueueUndo(j) PROVE StoppedFirst'
  BY <1>1, <1>6, EnqueueDirsDoes DEF StoppedFirst, EnqMoves
<1>7. ASSUME NEW j \in Jobs, EnqueueDockerRun(j) PROVE StoppedFirst'
  BY <1>1, <1>7, EnqueueDockerRunDoes
     DEF StoppedFirst, EnqMoves, SupMoves, ContMoves
<1>8. ASSUME NEW j \in Jobs, EnqueueStartFailed(j) PROVE StoppedFirst'
  BY <1>1, <1>8, EnqueueStartFailedDoes, MarkedFields
     DEF StoppedFirst, EnqMoves, RowWritten
<1>9. ASSUME NEW j \in Jobs, EnqueueMarkRunning(j) PROVE StoppedFirst'
  BY <1>1, <1>9, EnqueueMarkRunningDoes, MarkedFields
     DEF StoppedFirst, EnqMoves, RowWritten
<1>10. ASSUME NEW j \in Jobs, CancelRead(j) PROVE StoppedFirst'
  BY <1>1, <1>10, CancelReadDoes DEF StoppedFirst
<1>11. ASSUME NEW j \in Jobs, CancelStop(j) PROVE StoppedFirst'
  BY <1>1, <1>11, CancelStopDoes DEF StoppedFirst, ContMoves
<1>12. ASSUME NEW j \in Jobs, CancelWrite(j) PROVE StoppedFirst'
  BY <1>1, <1>12, CancelWriteDoes DEF StoppedFirst, RowWritten
<1>13. ASSUME NEW j \in Jobs, SuperviseWait(j) PROVE StoppedFirst'
  BY <1>1, <1>13, SuperviseWaitDoes DEF StoppedFirst, SupMoves
<1>14. ASSUME NEW j \in Jobs, SuperviseTimeout(j) PROVE StoppedFirst'
  BY <1>1, <1>14, SuperviseTimeoutDoes DEF StoppedFirst, SupMoves, ContMoves, Killed
<1>15. ASSUME NEW j \in Jobs, SuperviseCollect(j) PROVE StoppedFirst'
  BY <1>1, <1>15, SuperviseCollectDoes DEF StoppedFirst, SupMoves
<1>16. ASSUME NEW j \in Jobs, SuperviseClean(j) \/ SuperviseRemove(j) PROVE StoppedFirst'
  BY <1>1, <1>16, SuperviseTidyDoes DEF StoppedFirst, SupMoves, ContMoves
<1>17. ASSUME NEW j \in Jobs, CompleteGet(j) PROVE StoppedFirst'
  BY <1>1, <1>17, CompleteGetDoes DEF StoppedFirst, SupMoves
<1>18. ASSUME NEW j \in Jobs, CompleteUpdate(j) PROVE StoppedFirst'
  BY <1>1, <1>18, CompleteUpdateDoes
     DEF StoppedFirst, SupMoves, RowWritten, OutcomeKnown
<1>19. ASSUME NEW j \in Jobs, CompleteDispatch(j) PROVE StoppedFirst'
  BY <1>1, <1>19, CompleteDispatchDoes DEF StoppedFirst, SupMoves
<1>20. ASSUME NEW j \in Jobs, ReattachDead(j) PROVE StoppedFirst'
  BY <1>1, <1>20, ReattachDeadDoes DEF StoppedFirst, RowWritten
<1>21. CASE Crash \/ Exit
  BY <1>1, <1>21, LossDoes DEF StoppedFirst
<1>22. CASE SigTerm \/ StartList \/ ReattachDone \/ Sweep \/ \E j \in Jobs : ReattachAlive(j)
  BY <1>1, <1>2, <1>22, ProcessDoes
<1>23. CASE UNCHANGED vars
  BY <1>2, <1>23 DEF vars
<1> QED
  BY <1>2, <1>3, <1>4, <1>5, <1>6, <1>7, <1>8, <1>9, <1>10, <1>11, <1>12, <1>13,
     <1>14, <1>15, <1>16, <1>17, <1>18, <1>19, <1>20, <1>21, <1>22, <1>23
     DEF Next, EnqueueStep, CancelStep, SuperviseStep, StartStep

\* Secrets are written before the container starts, and removed with it.
LEMMA SecretsStep == IInv /\ [Next]_vars => SecretsHeld'
<1> SUFFICES ASSUME IInv, [Next]_vars PROVE SecretsHeld'
  OBVIOUS
<1>1. TypeOK /\ OutcomeKnown /\ RunningSupervised /\ StartAlone /\ SuccessIsLast /\ SecretsHeld
  BY DEF IInv
<1>2. ASSUME UNCHANGED <<row, cont, enq, sup, secrets, faulty>> PROVE SecretsHeld'
  BY <1>2, <1>1 DEF SecretsHeld
<1>3. ASSUME NEW j \in Jobs,
             \/ CancelRead(j)
      PROVE  UNCHANGED <<row, cont, enq, sup, secrets, faulty>>
  BY <1>1, <1>3, CancelReadDoes
<1>4. ASSUME NEW j \in Jobs, ContainerExit(j) PROVE SecretsHeld'
  BY <1>1, <1>4, ContainerExitDoes DEF SecretsHeld, ContMoves
<1>5. ASSUME NEW j \in Jobs, EnqueueCreate(j) PROVE SecretsHeld'
  BY <1>1, <1>5, EnqueueCreateDoes, MarkedFields
     DEF SecretsHeld, EnqMoves, RowWritten
<1>6. ASSUME NEW j \in Jobs,
             EnqueueCountUser(j) \/ EnqueueCountGlobal(j) \/ EnqueueCreds(j)
      PROVE  SecretsHeld'
  BY <1>1, <1>6, EnqueueChecksDoes DEF SecretsHeld, EnqMoves
<1>7. ASSUME NEW j \in Jobs, EnqueuePrepare(j) \/ EnqueueUndo(j) PROVE SecretsHeld'
  BY <1>1, <1>7, EnqueueDirsDoes
     DEF SecretsHeld, EnqMoves, RunningSupervised, SuccessIsLast
<1>8. ASSUME NEW j \in Jobs, EnqueueDockerRun(j) PROVE SecretsHeld'
  BY <1>1, <1>8, EnqueueDockerRunDoes
     DEF SecretsHeld, EnqMoves, SupMoves, ContMoves, RunningSupervised,
         SuccessIsLast
<1>9. ASSUME NEW j \in Jobs, EnqueueStartFailed(j) PROVE SecretsHeld'
  BY <1>1, <1>9, EnqueueStartFailedDoes, MarkedFields
     DEF SecretsHeld, EnqMoves, RowWritten
<1>10. ASSUME NEW j \in Jobs, EnqueueMarkRunning(j) PROVE SecretsHeld'
  <2>1. sup[j].pc \in SuperviseStates \ {"none", "lost"}
    <3>1. sup[j].pc \in SuperviseStates
      BY <1>1, SupervisorFields DEF TypeOK
    <3>2. QED BY <1>1, <1>10, <3>1, EnqueueMarkRunningDoes
              DEF EnqMoves, RunningSupervised, SecretsHeld
  <2>2. "docker" \notin faulty /\ cont[j] = "up" => j \in secrets
    BY <1>1, <2>1 DEF SecretsHeld, SuperviseStates
  <2>3. QED BY <1>1, <1>10, <2>2, EnqueueMarkRunningDoes, MarkedFields
            DEF SecretsHeld, EnqMoves, RowWritten
<1>11. ASSUME NEW j \in Jobs, CancelStop(j) PROVE SecretsHeld'
  BY <1>1, <1>11, CancelStopDoes DEF SecretsHeld, ContMoves
<1>12. ASSUME NEW j \in Jobs, CancelWrite(j) PROVE SecretsHeld'
  BY <1>1, <1>12, CancelWriteDoes DEF SecretsHeld, RowWritten
<1>13. ASSUME NEW j \in Jobs, SuperviseWait(j) PROVE SecretsHeld'
  BY <1>1, <1>13, SuperviseWaitDoes DEF SecretsHeld, SupMoves
<1>14. ASSUME NEW j \in Jobs, SuperviseTimeout(j) PROVE SecretsHeld'
  BY <1>1, <1>14, SuperviseTimeoutDoes DEF SecretsHeld, SupMoves, ContMoves, Killed
<1>15. ASSUME NEW j \in Jobs, SuperviseCollect(j) PROVE SecretsHeld'
  BY <1>1, <1>15, SuperviseCollectDoes DEF SecretsHeld, SupMoves
<1>16. ASSUME NEW j \in Jobs, SuperviseClean(j) \/ SuperviseRemove(j) PROVE SecretsHeld'
  <2>1. /\ "docker" \notin faulty /\ sup'[j].pc = "rmWorkspace" => cont'[j] # "up"
        /\ sup'[j].pc # "rmWorkspace" => cont' = cont
        /\ sup[j].pc = "clean" => secrets' = secrets
        /\ \A k \in Jobs \ {j} : cont'[k] = cont[k] /\ sup'[k] = sup[k]
        /\ \/ sup[j].pc = "clean" /\ sup'[j].pc = "rmWorkspace"
           \/ sup[j].pc = "rmWorkspace" /\ sup'[j].pc = "rmSecrets"
           \/ sup[j].pc = "rmSecrets" /\ sup'[j].pc = "report"
    BY <1>1, <1>16, SuperviseTidyDoes DEF ContMoves, SupMoves
  <2>2. secrets \ {j} \subseteq secrets' /\ UNCHANGED <<row, enq, faulty>>
    BY <1>1, <1>16, SuperviseTidyDoes
  <2>3. enq[j] # "prepared"
    BY <1>1, <2>1 DEF RunningSupervised
  <2>4. "docker" \notin faulty => cont'[j] # "up"
    BY <1>1, <2>1 DEF SecretsHeld
  <2>5. QED BY <1>1, <2>1, <2>2, <2>3, <2>4 DEF SecretsHeld
<1>17. ASSUME NEW j \in Jobs, CompleteGet(j) PROVE SecretsHeld'
  BY <1>1, <1>17, CompleteGetDoes DEF SecretsHeld, SupMoves
<1>18. ASSUME NEW j \in Jobs, CompleteUpdate(j) PROVE SecretsHeld'
  BY <1>1, <1>18, CompleteUpdateDoes
     DEF SecretsHeld, SupMoves, RowWritten, OutcomeKnown
<1>19. ASSUME NEW j \in Jobs, CompleteDispatch(j) PROVE SecretsHeld'
  BY <1>1, <1>19, CompleteDispatchDoes DEF SecretsHeld, SupMoves
<1>20. ASSUME NEW j \in Jobs, ReattachDead(j) PROVE SecretsHeld'
  BY <1>1, <1>20, ReattachDeadDoes DEF SecretsHeld, RowWritten
<1>21. CASE Crash \/ Exit
  BY <1>1, <1>21, LossDoes DEF SecretsHeld, RunningSupervised
<1>22. CASE SigTerm \/ StartList \/ ReattachDone \/ Sweep \/ \E j \in Jobs : ReattachAlive(j)
  BY <1>1, <1>22, ProcessDoes DEF SecretsHeld, StartAlone, RunningRows
<1>23. CASE UNCHANGED vars
  BY <1>2, <1>23 DEF vars
<1> QED
  BY <1>2, <1>3, <1>4, <1>5, <1>6, <1>7, <1>8, <1>9, <1>10, <1>11, <1>12, <1>13,
     <1>14, <1>15, <1>16, <1>17, <1>18, <1>19, <1>20, <1>21, <1>22, <1>23
     DEF Next, EnqueueStep, CancelStep, SuperviseStep, StartStep

\* No row becomes running while the process starts up, and the loop passes over
\* none that it does not adopt or fail.
LEMMA WatchedStep == IInv /\ [Next]_vars => RowsWatched'
<1> SUFFICES ASSUME IInv, [Next]_vars PROVE RowsWatched'
  OBVIOUS
<1>1. TypeOK /\ OutcomeKnown /\ RunningSupervised /\ StartAlone /\ SecretsHeld /\ RowsWatched
  BY DEF IInv
<1>2. ASSUME UNCHANGED <<row, sup, srv, todo, adopted, faulty>> PROVE RowsWatched'
  BY <1>2, <1>1 DEF RowsWatched, RunningIsWatched, RunningRows
<1>3. ASSUME NEW j \in Jobs,
             \/ ContainerExit(j) \/ EnqueueCountUser(j) \/ EnqueueCountGlobal(j)
             \/ EnqueueCreds(j) \/ EnqueuePrepare(j) \/ EnqueueUndo(j) \/ CancelRead(j)
             \/ CancelStop(j)
      PROVE  UNCHANGED <<row, sup, srv, todo, adopted, faulty>>
  BY <1>1, <1>3, ContainerExitDoes, EnqueueChecksDoes, EnqueueDirsDoes,
     CancelReadDoes, CancelStopDoes
<1>4. ASSUME NEW j \in Jobs, EnqueueCreate(j) PROVE RowsWatched'
  BY <1>1, <1>4, EnqueueCreateDoes, MarkedFields
     DEF RowsWatched, EnqMoves, RowWritten, RunningIsWatched, RunningRows
<1>5. ASSUME NEW j \in Jobs, EnqueueDockerRun(j) PROVE RowsWatched'
  BY <1>1, <1>5, EnqueueDockerRunDoes
     DEF RowsWatched, EnqMoves, SupMoves, ContMoves, RunningIsWatched, RunningRows
<1>6. ASSUME NEW j \in Jobs, EnqueueStartFailed(j) PROVE RowsWatched'
  BY <1>1, <1>6, EnqueueStartFailedDoes, MarkedFields
     DEF RowsWatched, EnqMoves, RowWritten, RunningIsWatched, RunningRows
<1>7. ASSUME NEW j \in Jobs, EnqueueMarkRunning(j) PROVE RowsWatched'
  BY <1>1, <1>7, EnqueueMarkRunningDoes, MarkedFields
     DEF RowsWatched, EnqMoves, RowWritten, RunningSupervised, SecretsHeld,
         StartAlone, RunningIsWatched, RunningRows
<1>8. ASSUME NEW j \in Jobs, CancelWrite(j) PROVE RowsWatched'
  BY <1>1, <1>8, CancelWriteDoes
     DEF RowsWatched, RowWritten, RunningIsWatched, RunningRows
<1>9. ASSUME NEW j \in Jobs, SuperviseWait(j) PROVE RowsWatched'
  BY <1>1, <1>9, SuperviseWaitDoes
     DEF RowsWatched, SupMoves, RunningIsWatched, RunningRows
<1>10. ASSUME NEW j \in Jobs, SuperviseTimeout(j) PROVE RowsWatched'
  BY <1>1, <1>10, SuperviseTimeoutDoes
     DEF RowsWatched, SupMoves, ContMoves, Killed, RunningIsWatched, RunningRows
<1>11. ASSUME NEW j \in Jobs, SuperviseCollect(j) PROVE RowsWatched'
  BY <1>1, <1>11, SuperviseCollectDoes
     DEF RowsWatched, SupMoves, RunningIsWatched, RunningRows
<1>12. ASSUME NEW j \in Jobs, SuperviseClean(j) \/ SuperviseRemove(j) PROVE RowsWatched'
  BY <1>1, <1>12, SuperviseTidyDoes
     DEF RowsWatched, SupMoves, ContMoves, RunningIsWatched, RunningRows
<1>13. ASSUME NEW j \in Jobs, CompleteGet(j) PROVE RowsWatched'
  BY <1>1, <1>13, CompleteGetDoes
     DEF RowsWatched, SupMoves, RunningIsWatched, RunningRows
<1>14. ASSUME NEW j \in Jobs, CompleteUpdate(j) PROVE RowsWatched'
  BY <1>1, <1>14, CompleteUpdateDoes
     DEF RowsWatched, SupMoves, RowWritten, OutcomeKnown, StartAlone,
         RunningIsWatched, RunningRows
<1>15. ASSUME NEW j \in Jobs, CompleteDispatch(j) PROVE RowsWatched'
  BY <1>1, <1>15, CompleteDispatchDoes
     DEF RowsWatched, SupMoves, RunningIsWatched, RunningRows
<1>16. ASSUME NEW j \in Jobs, ReattachDead(j) PROVE RowsWatched'
  BY <1>1, <1>16, ReattachDeadDoes
     DEF RowsWatched, RowWritten, RunningIsWatched, RunningRows
<1>17. CASE Crash \/ Exit
  BY <1>1, <1>17, LossDoes DEF RowsWatched, RunningIsWatched, RunningRows
<1>18. CASE SigTerm \/ StartList \/ ReattachDone \/ Sweep \/ \E j \in Jobs : ReattachAlive(j)
  BY <1>1, <1>18, ProcessDoes DEF RowsWatched, RunningIsWatched, RunningRows
<1>19. CASE UNCHANGED vars
  BY <1>2, <1>19 DEF vars
<1> QED
  BY <1>2, <1>3, <1>4, <1>5, <1>6, <1>7, <1>8, <1>9, <1>10, <1>11, <1>12, <1>13,
     <1>14, <1>15, <1>16, <1>17, <1>18, <1>19
     DEF Next, EnqueueStep, CancelStep, SuperviseStep, StartStep

\* Every directory has somebody who removes it, or is swept.
LEMMA StrayStep == IInv /\ [Next]_vars => NoStraySecrets'
<1> SUFFICES ASSUME IInv, [Next]_vars PROVE NoStraySecrets'
  OBVIOUS
<1>1. TypeOK /\ StartAlone /\ RowsWatched /\ NoStraySecrets
  BY DEF IInv
<1>2. ASSUME UNCHANGED <<enq, sup, secrets, srv, adopted, faulty>> PROVE NoStraySecrets'
  BY <1>2, <1>1 DEF NoStraySecrets
<1>3. ASSUME NEW j \in Jobs,
             \/ ContainerExit(j) \/ CancelRead(j) \/ CancelStop(j)
             \/ CancelWrite(j)
      PROVE  UNCHANGED <<enq, sup, secrets, srv, adopted, faulty>>
  BY <1>1, <1>3, ContainerExitDoes, CancelReadDoes, CancelStopDoes, CancelWriteDoes
<1>4. ASSUME NEW j \in Jobs, EnqueueCreate(j) PROVE NoStraySecrets'
  BY <1>1, <1>4, EnqueueCreateDoes DEF NoStraySecrets, EnqMoves, RowWritten
<1>5. ASSUME NEW j \in Jobs,
             EnqueueCountUser(j) \/ EnqueueCountGlobal(j) \/ EnqueueCreds(j)
      PROVE  NoStraySecrets'
  BY <1>1, <1>5, EnqueueChecksDoes DEF NoStraySecrets, EnqMoves
<1>6. ASSUME NEW j \in Jobs, EnqueuePrepare(j) \/ EnqueueUndo(j) PROVE NoStraySecrets'
  BY <1>1, <1>6, EnqueueDirsDoes DEF NoStraySecrets, EnqMoves
<1>7. ASSUME NEW j \in Jobs, EnqueueDockerRun(j) PROVE NoStraySecrets'
  BY <1>1, <1>7, EnqueueDockerRunDoes
     DEF NoStraySecrets, EnqMoves, SupMoves, ContMoves
<1>8. ASSUME NEW j \in Jobs, EnqueueStartFailed(j) PROVE NoStraySecrets'
  BY <1>1, <1>8, EnqueueStartFailedDoes DEF NoStraySecrets, EnqMoves, RowWritten
<1>9. ASSUME NEW j \in Jobs, EnqueueMarkRunning(j) PROVE NoStraySecrets'
  BY <1>1, <1>9, EnqueueMarkRunningDoes DEF NoStraySecrets, EnqMoves, RowWritten
<1>10. ASSUME NEW j \in Jobs, SuperviseWait(j) PROVE NoStraySecrets'
  BY <1>1, <1>10, SuperviseWaitDoes DEF NoStraySecrets, SupMoves
<1>11. ASSUME NEW j \in Jobs, SuperviseTimeout(j) PROVE NoStraySecrets'
  BY <1>1, <1>11, SuperviseTimeoutDoes
     DEF NoStraySecrets, SupMoves, ContMoves, Killed
<1>12. ASSUME NEW j \in Jobs, SuperviseCollect(j) PROVE NoStraySecrets'
  BY <1>1, <1>12, SuperviseCollectDoes DEF NoStraySecrets, SupMoves
<1>13. ASSUME NEW j \in Jobs, SuperviseClean(j) \/ SuperviseRemove(j) PROVE NoStraySecrets'
  BY <1>1, <1>13, SuperviseTidyDoes DEF NoStraySecrets, SupMoves, ContMoves
<1>14. ASSUME NEW j \in Jobs, CompleteGet(j) PROVE NoStraySecrets'
  BY <1>1, <1>14, CompleteGetDoes DEF NoStraySecrets, SupMoves
<1>15. ASSUME NEW j \in Jobs, CompleteUpdate(j) PROVE NoStraySecrets'
  BY <1>1, <1>15, CompleteUpdateDoes DEF NoStraySecrets, SupMoves, RowWritten
<1>16. ASSUME NEW j \in Jobs, CompleteDispatch(j) PROVE NoStraySecrets'
  BY <1>1, <1>16, CompleteDispatchDoes DEF NoStraySecrets, SupMoves
<1>17. ASSUME NEW j \in Jobs, ReattachDead(j) PROVE NoStraySecrets'
  BY <1>1, <1>17, ReattachDeadDoes DEF NoStraySecrets, RowWritten
<1>18. CASE Crash \/ Exit
  BY <1>1, <1>18, LossDoes DEF NoStraySecrets
<1>19. CASE SigTerm \/ StartList \/ ReattachDone \/ Sweep \/ \E j \in Jobs : ReattachAlive(j)
  BY <1>1, <1>19, ProcessDoes
     DEF NoStraySecrets, RowsWatched, RunningIsWatched, RunningRows
<1>20. CASE UNCHANGED vars
  BY <1>2, <1>20 DEF vars
<1> QED
  BY <1>2, <1>3, <1>4, <1>5, <1>6, <1>7, <1>8, <1>9, <1>10, <1>11, <1>12, <1>13,
     <1>14, <1>15, <1>16, <1>17, <1>18, <1>19, <1>20
     DEF Next, EnqueueStep, CancelStep, SuperviseStep, StartStep

\* Directories and a container come with a request that goes on to its last write.
LEMMA PreparedStep == IInv /\ [Next]_vars => PreparedHolds'
<1> SUFFICES ASSUME IInv, [Next]_vars PROVE PreparedHolds'
  OBVIOUS
<1>1. TypeOK /\ OutcomeKnown /\ SupervisedStarted /\ RowsTracked
      /\ RunningSupervised /\ StartAlone /\ SuccessIsLast /\ PreparedHolds
  BY DEF IInv
<1>2. ASSUME UNCHANGED <<row, cont, enq, secrets, workspace, srv, stops, faulty>>
      PROVE  PreparedHolds'
  BY <1>2, <1>1 DEF PreparedHolds
<1>3. ASSUME NEW j \in Jobs,
             \/ CancelRead(j) \/ SuperviseWait(j) \/ SuperviseCollect(j)
             \/ CompleteGet(j) \/ CompleteDispatch(j)
      PROVE  UNCHANGED <<row, cont, enq, secrets, workspace, srv, stops, faulty>>
  BY <1>1, <1>3, CancelReadDoes, SuperviseWaitDoes, SuperviseCollectDoes,
     CompleteGetDoes, CompleteDispatchDoes
<1>4. ASSUME NEW j \in Jobs, ContainerExit(j) PROVE PreparedHolds'
  BY <1>1, <1>4, ContainerExitDoes DEF PreparedHolds, ContMoves
<1>5. ASSUME NEW j \in Jobs, EnqueueCreate(j) PROVE PreparedHolds'
  BY <1>1, <1>5, EnqueueCreateDoes, MarkedFields
     DEF PreparedHolds, EnqMoves, RowWritten, RowsTracked
<1>6. ASSUME NEW j \in Jobs,
             EnqueueCountUser(j) \/ EnqueueCountGlobal(j) \/ EnqueueCreds(j)
      PROVE  PreparedHolds'
  BY <1>1, <1>6, EnqueueChecksDoes DEF PreparedHolds, EnqMoves
<1>7. ASSUME NEW j \in Jobs, EnqueuePrepare(j) \/ EnqueueUndo(j) PROVE PreparedHolds'
  BY <1>1, <1>7, EnqueueDirsDoes DEF PreparedHolds, EnqMoves
<1>8. ASSUME NEW j \in Jobs, EnqueueDockerRun(j) PROVE PreparedHolds'
  BY <1>1, <1>8, EnqueueDockerRunDoes
     DEF PreparedHolds, EnqMoves, SupMoves, ContMoves
<1>9. ASSUME NEW j \in Jobs, EnqueueStartFailed(j) PROVE PreparedHolds'
  BY <1>1, <1>9, EnqueueStartFailedDoes, MarkedFields
     DEF PreparedHolds, EnqMoves, RowWritten
<1>10. ASSUME NEW j \in Jobs, EnqueueMarkRunning(j) PROVE PreparedHolds'
  BY <1>1, <1>10, EnqueueMarkRunningDoes, MarkedFields
     DEF PreparedHolds, EnqMoves, RowWritten
<1>11. ASSUME NEW j \in Jobs, CancelStop(j) PROVE PreparedHolds'
  BY <1>1, <1>11, CancelStopDoes DEF PreparedHolds, ContMoves
<1>12. ASSUME NEW j \in Jobs, CancelWrite(j) PROVE PreparedHolds'
  BY <1>1, <1>12, CancelWriteDoes DEF PreparedHolds, RowWritten
<1>13. ASSUME NEW j \in Jobs, SuperviseTimeout(j) PROVE PreparedHolds'
  BY <1>1, <1>13, SuperviseTimeoutDoes
     DEF PreparedHolds, SupMoves, ContMoves, Killed, SupervisedStarted
<1>14. ASSUME NEW j \in Jobs, SuperviseClean(j) \/ SuperviseRemove(j) PROVE PreparedHolds'
  BY <1>1, <1>14, SuperviseTidyDoes
     DEF PreparedHolds, SupMoves, ContMoves, SupervisedStarted
<1>15. ASSUME NEW j \in Jobs, CompleteUpdate(j) PROVE PreparedHolds'
  BY <1>1, <1>15, CompleteUpdateDoes
     DEF PreparedHolds, SupMoves, RowWritten, OutcomeKnown
<1>16. ASSUME NEW j \in Jobs, ReattachDead(j) PROVE PreparedHolds'
  BY <1>1, <1>16, ReattachDeadDoes DEF PreparedHolds, RowWritten
<1>17. CASE Crash \/ Exit
  <2>1. stops \in Nat
    BY <1>1, StopsAssumption DEF TypeOK
  <2>2. stops' > 0 /\ srv' = "down"
    BY <1>1, <1>17, <2>1, LossDoes DEF PreparedHolds
  <2>3. \A k \in Jobs : enq'[k] \in {"idle", "done"}
    BY <1>1, <1>17, LossDoes
  <2>4. QED BY <2>2, <2>3 DEF PreparedHolds
<1>18. CASE SigTerm \/ StartList \/ ReattachDone \/ Sweep \/ \E j \in Jobs : ReattachAlive(j)
  <2>1. stops \in Nat
    BY <1>1, StopsAssumption DEF TypeOK
  <2>2. /\ stops' = 0 => stops = 0
        /\ srv' = "draining" => stops' > 0
    BY <1>1, <1>18, <2>1, ProcessDoes DEF PreparedHolds
  <2>3. UNCHANGED <<row, cont, enq, workspace, faulty>> /\ secrets' \subseteq secrets
    BY <1>1, <1>18, ProcessDoes
  <2>4. QED BY <1>1, <2>2, <2>3 DEF PreparedHolds
<1>19. CASE UNCHANGED vars
  BY <1>2, <1>19 DEF vars
<1> QED
  BY <1>2, <1>3, <1>4, <1>5, <1>6, <1>7, <1>8, <1>9, <1>10, <1>11, <1>12, <1>13,
     <1>14, <1>15, <1>16, <1>17, <1>18, <1>19
     DEF Next, EnqueueStep, CancelStep, SuperviseStep, StartStep

------------------------------------------------------------------------------
(* The caps. *)

\* A part of a finite set of jobs is no larger than the set.
LEMMA JobsCardinality ==
  ASSUME NEW S, NEW T, S \subseteq T, T \subseteq Jobs
  PROVE  /\ Cardinality(S) \in Nat /\ Cardinality(T) \in Nat
         /\ Cardinality(S) <= Cardinality(T)
  <1>1. IsFiniteSet(T)
    BY JobsAssumption, FS_Subset
  <1>2. QED BY <1>1, FS_Subset, FS_CardinalityType

\* Jobs past a check that have not ended are active, so each later count of
\* active rows includes them.
LEMMA AdmittedAreActive ==
  ASSUME TypeOK, RowsTracked
  PROVE  /\ \A u \in Users : UserAdmitted(u) \subseteq ActiveOf(u)
         /\ Admitted \subseteq ActiveAll
<1>1. \A k \in Jobs : k \notin settled /\ row[k].st # "none" => row[k].st \in Active
  BY DEF TypeOK, RowsTracked, Rows, Status
<1>2. \A k \in Jobs : PastUserCap(k) \/ PastCaps(k) => row[k].st # "none"
  BY DEF RowsTracked, PastUserCap, PastCaps
<1>3. QED BY <1>1, <1>2 DEF UserAdmitted, Admitted, ActiveOf, ActiveAll

\* A step that lets no job past a check keeps the slots.
LEMMA SlotsShrink ==
  ASSUME SlotsHold, settled \subseteq settled',
         \A k \in Jobs : /\ PastUserCap(k)' => PastUserCap(k)
                         /\ PastCaps(k)' => PastCaps(k)
  PROVE  SlotsHold'
<1>1. ASSUME MaxPerUser > 0, NEW u \in Users
      PROVE  Cardinality(UserAdmitted(u)') <= MaxPerUser
  <2>1. UserAdmitted(u)' \subseteq UserAdmitted(u) /\ UserAdmitted(u) \subseteq Jobs
    BY DEF UserAdmitted
  <2>2. Cardinality(UserAdmitted(u)) <= MaxPerUser
    BY <1>1 DEF SlotsHold
  <2>3. /\ Cardinality(UserAdmitted(u)') \in Nat /\ Cardinality(UserAdmitted(u)) \in Nat
        /\ Cardinality(UserAdmitted(u)') <= Cardinality(UserAdmitted(u))
    BY <2>1, JobsCardinality
  <2>4. QED BY <2>2, <2>3, CapsAssumption
<1>2. ASSUME MaxGlobal > 0 PROVE Cardinality(Admitted') <= MaxGlobal
  <2>1. Admitted' \subseteq Admitted /\ Admitted \subseteq Jobs
    BY DEF Admitted
  <2>2. Cardinality(Admitted) <= MaxGlobal
    BY <1>2 DEF SlotsHold
  <2>3. /\ Cardinality(Admitted') \in Nat /\ Cardinality(Admitted) \in Nat
        /\ Cardinality(Admitted') <= Cardinality(Admitted)
    BY <2>1, JobsCardinality
  <2>4. QED BY <2>2, <2>3, CapsAssumption
<1> QED
  BY <1>1, <1>2 DEF SlotsHold

\* The three checks, seen from the request that passes one.
LEMMA CheckPasses ==
  ASSUME TypeOK, NEW j \in Jobs,
         EnqueueCountUser(j) \/ EnqueueCountGlobal(j) \/ EnqueueCreds(j)
  PROVE  /\ enq'[j] = "userOk" => ~OverCap(ActiveOf(Owner[j]), MaxPerUser)
         /\ enq'[j] = "capsOk" => ~OverCap(ActiveAll, MaxGlobal)
<1>1. ASSUME NEW from, NEW to, EnqueueAt(j, from, to) PROVE enq'[j] = to
  BY <1>1 DEF EnqueueAt, TypeOK
<1>2. CASE EnqueueCountUser(j)
  <2>1. \/ EnqueueAt(j, "created", "userOk") /\ ~OverCap(ActiveOf(Owner[j]), MaxPerUser)
        \/ EnqueueAt(j, "created", "done")
    BY <1>2 DEF EnqueueCountUser, EnqueueReturns
  <2>2. QED BY <1>1, <2>1
<1>3. CASE EnqueueCountGlobal(j)
  <2>1. \/ EnqueueAt(j, "userOk", "capsOk") /\ ~OverCap(ActiveAll, MaxGlobal)
        \/ EnqueueAt(j, "userOk", "done")
    BY <1>3 DEF EnqueueCountGlobal, EnqueueReturns
  <2>2. QED BY <1>1, <2>1
<1>4. CASE EnqueueCreds(j)
  <2>1. EnqueueAt(j, "capsOk", "ready") \/ EnqueueAt(j, "capsOk", "done")
    BY <1>4 DEF EnqueueCreds, EnqueueReturns
  <2>2. QED BY <1>1, <2>1
<1>5. QED BY <1>2, <1>3, <1>4

\* A check that lets a job pass counted it and every job admitted before it.
LEMMA CountAdmits ==
  ASSUME TypeOK, RowsTracked, SlotsHold, NEW j \in Jobs,
         EnqueueCountUser(j) \/ EnqueueCountGlobal(j) \/ EnqueueCreds(j)
  PROVE  SlotsHold'
<1>1. /\ UNCHANGED <<row, settled, cont>>
      /\ \A k \in Jobs \ {j} : enq'[k] = enq[k]
      /\ \/ enq[j] = "created" /\ enq'[j] = "userOk"
         \/ enq[j] = "userOk" /\ enq'[j] = "capsOk"
         \/ enq[j] = "capsOk" /\ enq'[j] = "ready"
         \/ enq'[j] = "done"
  BY EnqueueChecksDoes DEF EnqMoves
<1>2. CASE enq'[j] = "done" \/ (enq[j] = "capsOk" /\ enq'[j] = "ready")
  <2>1. \A k \in Jobs : /\ PastUserCap(k)' => PastUserCap(k)
                        /\ PastCaps(k)' => PastCaps(k)
    BY <1>1, <1>2 DEF PastUserCap, PastCaps
  <2>2. QED BY <1>1, <2>1, SlotsShrink
<1>3. CASE enq[j] = "created" /\ enq'[j] = "userOk"
  <2>1. ~OverCap(ActiveOf(Owner[j]), MaxPerUser)
    BY <1>3, CheckPasses
  <2>2. Admitted' = Admitted
    BY <1>1, <1>3 DEF Admitted, PastCaps
  <2>3. ASSUME MaxPerUser > 0, NEW u \in Users
        PROVE  Cardinality(UserAdmitted(u)') <= MaxPerUser
    <3>1. CASE u = Owner[j]
      <4>1. \A k \in Jobs \ {j} : PastUserCap(k)' = PastUserCap(k)
        BY <1>1 DEF PastUserCap
      <4>2. j \in UserAdmitted(u)' => j \in ActiveOf(u)
        <5>1. row[j].st # "none" /\ (row[j].st \in Terminal => j \in settled)
          BY <1>3 DEF RowsTracked
        <5>2. row[j].st \in Active \/ j \in settled
          BY <5>1 DEF TypeOK, Rows, Status
        <5>3. QED BY <1>1, <3>1, <5>2 DEF UserAdmitted, ActiveOf
      <4>3. UserAdmitted(u) \subseteq ActiveOf(u)
        BY AdmittedAreActive
      <4>4. UserAdmitted(u)' \subseteq ActiveOf(u) /\ ActiveOf(u) \subseteq Jobs
        BY <1>1, <4>1, <4>2, <4>3 DEF UserAdmitted, ActiveOf
      <4>5. /\ Cardinality(UserAdmitted(u)') \in Nat /\ Cardinality(ActiveOf(u)) \in Nat
            /\ Cardinality(UserAdmitted(u)') <= Cardinality(ActiveOf(u))
        BY <4>4, JobsCardinality
      <4>6. Cardinality(ActiveOf(u)) <= MaxPerUser
        BY <2>1, <2>3, <3>1, <4>5, CapsAssumption DEF OverCap
      <4>7. QED BY <4>5, <4>6, CapsAssumption
    <3>2. CASE u # Owner[j]
      <4>1. UserAdmitted(u)' = UserAdmitted(u)
        BY <1>1, <3>2 DEF UserAdmitted, PastUserCap
      <4>2. QED BY <2>3, <4>1 DEF SlotsHold
    <3>3. QED BY <3>1, <3>2
  <2>4. QED BY <2>2, <2>3 DEF SlotsHold
<1>4. CASE enq[j] = "userOk" /\ enq'[j] = "capsOk"
  <2>1. ~OverCap(ActiveAll, MaxGlobal)
    BY <1>4, CheckPasses
  <2>2. \A u \in Users : UserAdmitted(u)' = UserAdmitted(u)
    BY <1>1, <1>4 DEF UserAdmitted, PastUserCap
  <2>3. ASSUME MaxGlobal > 0 PROVE Cardinality(Admitted') <= MaxGlobal
    <3>1. \A k \in Jobs \ {j} : PastCaps(k)' = PastCaps(k)
      BY <1>1 DEF PastCaps
    <3>2. j \in Admitted' => j \in ActiveAll
      <4>1. row[j].st # "none" /\ (row[j].st \in Terminal => j \in settled)
        BY <1>4 DEF RowsTracked
      <4>2. row[j].st \in Active \/ j \in settled
        BY <4>1 DEF TypeOK, Rows, Status
      <4>3. QED BY <1>1, <4>2 DEF Admitted, ActiveAll
    <3>3. Admitted \subseteq ActiveAll
      BY AdmittedAreActive
    <3>4. Admitted' \subseteq ActiveAll /\ ActiveAll \subseteq Jobs
      BY <1>1, <3>1, <3>2, <3>3 DEF Admitted, ActiveAll
    <3>5. /\ Cardinality(Admitted') \in Nat /\ Cardinality(ActiveAll) \in Nat
          /\ Cardinality(Admitted') <= Cardinality(ActiveAll)
      BY <3>4, JobsCardinality
    <3>6. Cardinality(ActiveAll) <= MaxGlobal
      BY <2>1, <2>3, <3>5, CapsAssumption DEF OverCap
    <3>7. QED BY <3>5, <3>6, CapsAssumption
  <2>4. QED BY <2>2, <2>3 DEF SlotsHold
<1> QED
  BY <1>1, <1>2, <1>3, <1>4

\* Every step keeps the slots.
LEMMA SlotsStep == IInv /\ [Next]_vars => SlotsHold'
<1> SUFFICES ASSUME IInv, [Next]_vars PROVE SlotsHold'
  OBVIOUS
<1>1. TypeOK /\ SupervisedStarted /\ RowsTracked /\ SlotsHold
  BY DEF IInv
<1>2. ASSUME UNCHANGED <<settled, enq, cont>> PROVE SlotsHold'
  BY <1>2, <1>1, SlotsShrink DEF PastUserCap, PastCaps
<1>3. ASSUME NEW j \in Jobs,
             \/ CancelRead(j) \/ SuperviseWait(j) \/ SuperviseCollect(j)
             \/ CompleteGet(j) \/ CompleteDispatch(j)
      PROVE  UNCHANGED <<settled, enq, cont>>
  BY <1>1, <1>3, CancelReadDoes, SuperviseWaitDoes, SuperviseCollectDoes,
     CompleteGetDoes, CompleteDispatchDoes
<1>4. ASSUME NEW j \in Jobs, ContainerExit(j) PROVE SlotsHold'
  <2>1. settled \subseteq settled'
    BY <1>1, <1>4, ContainerExitDoes
  <2>2. \A k \in Jobs : /\ PastUserCap(k)' => PastUserCap(k)
                        /\ PastCaps(k)' => PastCaps(k)
    BY <1>1, <1>4, ContainerExitDoes
       DEF PastUserCap, PastCaps, ContMoves
  <2>3. QED BY <1>1, <2>1, <2>2, SlotsShrink
<1>5. ASSUME NEW j \in Jobs, EnqueueCreate(j) PROVE SlotsHold'
  <2>1. settled \subseteq settled'
    BY <1>1, <1>5, EnqueueCreateDoes DEF RowWritten
  <2>2. \A k \in Jobs : /\ PastUserCap(k)' => PastUserCap(k)
                        /\ PastCaps(k)' => PastCaps(k)
    BY <1>1, <1>5, EnqueueCreateDoes
       DEF PastUserCap, PastCaps, EnqMoves
  <2>3. QED BY <1>1, <2>1, <2>2, SlotsShrink
<1>6. ASSUME NEW j \in Jobs,
             EnqueueCountUser(j) \/ EnqueueCountGlobal(j) \/ EnqueueCreds(j)
      PROVE  SlotsHold'
  BY <1>1, <1>6, CountAdmits
<1>7. ASSUME NEW j \in Jobs, EnqueuePrepare(j) \/ EnqueueUndo(j) PROVE SlotsHold'
  <2>1. settled \subseteq settled'
    BY <1>1, <1>7, EnqueueDirsDoes
  <2>2. \A k \in Jobs : /\ PastUserCap(k)' => PastUserCap(k)
                        /\ PastCaps(k)' => PastCaps(k)
    BY <1>1, <1>7, EnqueueDirsDoes
       DEF PastUserCap, PastCaps, EnqMoves
  <2>3. QED BY <1>1, <2>1, <2>2, SlotsShrink
<1>8. ASSUME NEW j \in Jobs, EnqueueDockerRun(j) PROVE SlotsHold'
  <2>1. settled \subseteq settled'
    BY <1>1, <1>8, EnqueueDockerRunDoes
  <2>2. \A k \in Jobs : /\ PastUserCap(k)' => PastUserCap(k)
                        /\ PastCaps(k)' => PastCaps(k)
    BY <1>1, <1>8, EnqueueDockerRunDoes
       DEF PastUserCap, PastCaps, EnqMoves, ContMoves
  <2>3. QED BY <1>1, <2>1, <2>2, SlotsShrink
<1>9. ASSUME NEW j \in Jobs, EnqueueStartFailed(j) PROVE SlotsHold'
  <2>1. settled \subseteq settled'
    BY <1>1, <1>9, EnqueueStartFailedDoes DEF RowWritten
  <2>2. \A k \in Jobs : /\ PastUserCap(k)' => PastUserCap(k)
                        /\ PastCaps(k)' => PastCaps(k)
    BY <1>1, <1>9, EnqueueStartFailedDoes
       DEF PastUserCap, PastCaps, EnqMoves
  <2>3. QED BY <1>1, <2>1, <2>2, SlotsShrink
<1>10. ASSUME NEW j \in Jobs, EnqueueMarkRunning(j) PROVE SlotsHold'
  <2>1. settled \subseteq settled'
    BY <1>1, <1>10, EnqueueMarkRunningDoes DEF RowWritten
  <2>2. \A k \in Jobs : /\ PastUserCap(k)' => PastUserCap(k)
                        /\ PastCaps(k)' => PastCaps(k)
    BY <1>1, <1>10, EnqueueMarkRunningDoes
       DEF PastUserCap, PastCaps, EnqMoves
  <2>3. QED BY <1>1, <2>1, <2>2, SlotsShrink
<1>11. ASSUME NEW j \in Jobs, CancelStop(j) PROVE SlotsHold'
  <2>1. settled \subseteq settled'
    BY <1>1, <1>11, CancelStopDoes
  <2>2. \A k \in Jobs : /\ PastUserCap(k)' => PastUserCap(k)
                        /\ PastCaps(k)' => PastCaps(k)
    BY <1>1, <1>11, CancelStopDoes
       DEF PastUserCap, PastCaps, ContMoves
  <2>3. QED BY <1>1, <2>1, <2>2, SlotsShrink
<1>12. ASSUME NEW j \in Jobs, CancelWrite(j) PROVE SlotsHold'
  <2>1. settled \subseteq settled' /\ UNCHANGED <<enq, cont>>
    BY <1>1, <1>12, CancelWriteDoes DEF RowWritten
  <2>2. QED BY <1>1, <2>1, SlotsShrink DEF PastUserCap, PastCaps
<1>13. ASSUME NEW j \in Jobs, SuperviseTimeout(j) PROVE SlotsHold'
  <2>1. settled \subseteq settled'
    BY <1>1, <1>13, SuperviseTimeoutDoes
  <2>2. \A k \in Jobs : /\ PastUserCap(k)' => PastUserCap(k)
                        /\ PastCaps(k)' => PastCaps(k)
    BY <1>1, <1>13, SuperviseTimeoutDoes
       DEF PastUserCap, PastCaps, Killed, ContMoves, SupMoves, SupervisedStarted
  <2>3. QED BY <1>1, <2>1, <2>2, SlotsShrink
<1>14. ASSUME NEW j \in Jobs, SuperviseClean(j) \/ SuperviseRemove(j) PROVE SlotsHold'
  <2>1. settled \subseteq settled'
    BY <1>1, <1>14, SuperviseTidyDoes
  <2>2. \A k \in Jobs : /\ PastUserCap(k)' => PastUserCap(k)
                        /\ PastCaps(k)' => PastCaps(k)
    BY <1>1, <1>14, SuperviseTidyDoes
       DEF PastUserCap, PastCaps, ContMoves, SupMoves, SupervisedStarted
  <2>3. QED BY <1>1, <2>1, <2>2, SlotsShrink
<1>15. ASSUME NEW j \in Jobs, CompleteUpdate(j) PROVE SlotsHold'
  <2>1. settled \subseteq settled' /\ UNCHANGED <<enq, cont>>
    BY <1>1, <1>15, CompleteUpdateDoes DEF RowWritten
  <2>2. QED BY <1>1, <2>1, SlotsShrink DEF PastUserCap, PastCaps
<1>16. ASSUME NEW j \in Jobs, ReattachDead(j) PROVE SlotsHold'
  <2>1. settled \subseteq settled' /\ UNCHANGED <<enq, cont>>
    BY <1>1, <1>16, ReattachDeadDoes DEF RowWritten
  <2>2. QED BY <1>1, <2>1, SlotsShrink DEF PastUserCap, PastCaps
<1>17. CASE Crash \/ Exit
  <2>1. settled \subseteq settled'
    BY <1>1, <1>17, LossDoes
  <2>2. \A k \in Jobs : cont'[k] = cont[k] /\ enq'[k] \in {"idle", "done"}
    BY <1>1, <1>17, LossDoes
  <2>3. QED BY <1>1, <2>1, <2>2, SlotsShrink DEF PastUserCap, PastCaps
<1>18. CASE SigTerm \/ StartList \/ ReattachDone \/ Sweep \/ \E j \in Jobs : ReattachAlive(j)
  BY <1>1, <1>2, <1>18, ProcessDoes
<1>19. CASE UNCHANGED vars
  BY <1>2, <1>19 DEF vars
<1> QED
  BY <1>2, <1>3, <1>4, <1>5, <1>6, <1>7, <1>8, <1>9, <1>10, <1>11, <1>12, <1>13,
     <1>14, <1>15, <1>16, <1>17, <1>18, <1>19
     DEF Next, EnqueueStep, CancelStep, SuperviseStep, StartStep

------------------------------------------------------------------------------
(* The theorems. *)

LEMMA IInvInit == Init => IInv
<1> SUFFICES ASSUME Init PROVE IInv
  OBVIOUS
<1>1. Supervisor("none") \in Supervisors /\ Supervisor("none").pc = "none"
  BY SupervisorTyped DEF SuperviseStates
<1>2. NoRow \in Rows /\ NoRow.st = "none" /\ NoRow.cid = FALSE
  BY MarksAreRows DEF NoRow
<1>3. /\ \A j \in Jobs :
           /\ row[j] = NoRow /\ cont[j] = "none" /\ exit[j] = "none"
           /\ enq[j] = "idle" /\ cnl[j] = "idle" /\ sup[j] = Supervisor("none")
           /\ posted[j] = "none" /\ tries[j] = 0
      /\ secrets = {} /\ workspace = {} /\ srv = "down" /\ todo = {}
      /\ adopted = {} /\ stops = 0 /\ settled = {}
  BY DEF Init
<1>4. TypeOK
  <2>1. /\ row \in [Jobs -> Rows] /\ sup \in [Jobs -> Supervisors]
        /\ cont \in [Jobs -> {"none", "up", "exited", "gone"}]
        /\ exit \in [Jobs -> {"none", "zero", "nonzero"}]
    BY <1>1, <1>2 DEF Init
  <2>2. /\ enq \in [Jobs -> EnqueueStates] /\ cnl \in [Jobs -> CancelStates]
        /\ posted \in [Jobs -> {"none", "succeeded", "failed"}]
    BY DEF Init, EnqueueStates, CancelStates
  <2>3. tries \in [Jobs -> 0 .. MaxAttempts]
    BY DEF Init, MaxAttempts
  <2>4. stops \in 0 .. MaxStops /\ faulty \subseteq Faults
    BY StopsAssumption DEF Init
  <2>5. QED BY <1>3, <2>1, <2>2, <2>3, <2>4 DEF TypeOK
<1>5. \A j \in Jobs : row[j].st = "none" /\ row[j].cid = FALSE /\ sup[j].pc = "none"
  BY <1>1, <1>2, <1>3
<1>6. OutcomeKnown /\ SupervisedStarted /\ RowsTracked /\ RunningSupervised
  BY <1>3, <1>5 DEF OutcomeKnown, SupervisedStarted, RowsTracked, RunningSupervised,
                    Terminal
<1>7. StartAlone /\ SuccessIsLast /\ AttemptsCounted /\ AnnouncedWasWritten
  BY <1>3, <1>5 DEF StartAlone, SuccessIsLast, AttemptsCounted, AnnouncedWasWritten
<1>8. ExitSeen /\ SecretsHeld /\ NoStraySecrets
  BY <1>3, <1>5 DEF ExitSeen, SecretsHeld, NoStraySecrets
<1>9. StoppedFirst
  <2>1. \A j \in Jobs : row[j] # [st |-> "cancelled", cid |-> TRUE]
    BY <1>3, <1>2
  <2>2. QED BY <1>3, <1>5, <2>1 DEF StoppedFirst
<1>10. RowsWatched
  BY <1>3, <1>5 DEF RowsWatched, RunningIsWatched
<1>11. PreparedHolds
  BY <1>3, <1>5 DEF PreparedHolds
<1>12. SlotsHold
  <2>1. Admitted = {} /\ \A u \in Users : UserAdmitted(u) = {}
    BY <1>3 DEF Admitted, UserAdmitted, PastCaps, PastUserCap
  <2>2. QED BY <2>1, FS_EmptySet, CapsAssumption DEF SlotsHold
<1> QED
  BY <1>4, <1>6, <1>7, <1>8, <1>9, <1>10, <1>11, <1>12 DEF IInv

\* The invariant is inductive: each part is kept by every step.
LEMMA IInvStep == IInv /\ [Next]_vars => IInv'
  BY TypeStep, OutcomeStep, SupervisedStep, RowsStep, RunningStep, SlotsStep,
     AloneStep, SuccessStep, AttemptsStep, AnnouncedStep, ExitStep, StoppedStep,
     SecretsStep, WatchedStep, StrayStep, PreparedStep
     DEF IInv

\* The invariant holds in every state the orchestrator reaches.
THEOREM Invariance == Spec => []IInv
  BY IInvInit, IInvStep, PTL DEF Spec

\* Every variable keeps its type.
THEOREM TypeCorrect == Spec => []TypeOK
<1>1. IInv => TypeOK
  BY DEF IInv
<1> QED
  BY <1>1, Invariance, PTL

\* No user ever has more containers for unsettled jobs than the user's cap:
\* they are among the jobs admitted since and still active, all of which the
\* last admission counted.
THEOREM UserCap == Spec => []UserCapHolds
<1>1. IInv => UserCapHolds
  <2> SUFFICES ASSUME IInv, MaxPerUser > 0, NEW u \in Users
               PROVE  Cardinality({j \in LiveUnsettled : Owner[j] = u}) <= MaxPerUser
    BY DEF UserCapHolds
  <2> DEFINE Live == {j \in LiveUnsettled : Owner[j] = u}
  <2>1. Live \subseteq UserAdmitted(u) /\ UserAdmitted(u) \subseteq Jobs
    BY DEF LiveUnsettled, UserAdmitted, PastUserCap
  <2>2. /\ Cardinality(Live) \in Nat /\ Cardinality(UserAdmitted(u)) \in Nat
        /\ Cardinality(Live) <= Cardinality(UserAdmitted(u))
    BY <2>1, JobsCardinality
  <2>3. Cardinality(UserAdmitted(u)) <= MaxPerUser
    BY DEF IInv, SlotsHold
  <2>4. QED BY <2>2, <2>3, CapsAssumption
<1> QED
  BY <1>1, Invariance, PTL

\* The same for the cap over all users.
THEOREM GlobalCap == Spec => []GlobalCapHolds
<1>1. IInv => GlobalCapHolds
  <2> SUFFICES ASSUME IInv, MaxGlobal > 0
               PROVE  Cardinality(LiveUnsettled) <= MaxGlobal
    BY DEF GlobalCapHolds
  <2>1. LiveUnsettled \subseteq Admitted /\ Admitted \subseteq Jobs
    BY DEF LiveUnsettled, Admitted, PastCaps
  <2>2. /\ Cardinality(LiveUnsettled) \in Nat /\ Cardinality(Admitted) \in Nat
        /\ Cardinality(LiveUnsettled) <= Cardinality(Admitted)
    BY <2>1, JobsCardinality
  <2>3. Cardinality(Admitted) <= MaxGlobal
    BY DEF IInv, SlotsHold
  <2>4. QED BY <2>2, <2>3, CapsAssumption
<1> QED
  BY <1>1, Invariance, PTL

\* A webhook announces only what was written before, and a success it announced
\* is overwritten by a cancel at most.
THEOREM WebhookAgrees == Spec => []WebhookAgreesWithRow
<1>1. IInv => WebhookAgreesWithRow
  BY DEF IInv, AnnouncedWasWritten, WebhookAgreesWithRow
<1> QED
  BY <1>1, Invariance, PTL

\* A recorded success is one of the container's process.
THEOREM SuccessReal == Spec => []SuccessIsReal
<1>1. IInv => SuccessIsReal
  BY DEF IInv, ExitSeen, SuccessIsReal
<1> QED
  BY <1>1, Invariance, PTL

\* No clean-up and no sweep takes the secrets of a running job.
THEOREM RunningSecrets == Spec => []RunningKeepsSecrets
<1>1. IInv => RunningKeepsSecrets
  BY DEF IInv, SecretsHeld, RunningKeepsSecrets
<1> QED
  BY <1>1, Invariance, PTL

\* Secrets are kept for containers that are accounted for, and no others.
THEOREM NoStray == Spec => []NoStraySecrets
<1>1. IInv => NoStraySecrets
  BY DEF IInv
<1> QED
  BY <1>1, Invariance, PTL

\* Every running row is somebody's to end.
THEOREM Watched == Spec => []RunningIsWatched
<1>1. IInv => RunningIsWatched
  BY DEF IInv, RowsWatched, RunningIsWatched
<1> QED
  BY <1>1, Invariance, PTL

\* A cancel that saw a container leaves none running.
THEOREM CancelStops == Spec => []CancelledIsStopped
<1>1. IInv => CancelledIsStopped
  BY DEF IInv, StoppedFirst, CancelledIsStopped
<1> QED
  BY <1>1, Invariance, PTL

\* A job left in the queue holds nothing on the host.
THEOREM QueuedClean == Spec => []QueuedHoldsNothing
<1>1. IInv => QueuedHoldsNothing
  BY DEF IInv, PreparedHolds, QueuedHoldsNothing
<1> QED
  BY <1>1, Invariance, PTL

------------------------------------------------------------------------------
(* Action properties. *)

\* Who may change a row, and to what.
LEMMA RowWriters ==
  ASSUME IInv, [Next]_vars, NEW j \in Jobs, row'[j] # row[j]
  PROVE  \/ enq[j] = "idle" /\ row'[j] = NewJob
         \/ enq[j] = "startFailed" /\ row'[j] = MarkFailed(NewJob)
         \/ enq[j] = "started" /\ row'[j] = MarkRunning(NewJob)
         \/ cnl[j] \in {"writingStarted", "writingUnstarted"} /\ row'[j].st = "cancelled"
         \/ sup[j].pc = "update" /\ row'[j] = sup[j].job
         \/ j \in todo /\ row'[j].st = "failed"
<1>1. TypeOK
  BY DEF IInv
<1>2. ASSUME NEW k \in Jobs, EnqueueCreate(k)
      PROVE  k = j /\ enq[j] = "idle" /\ row'[j] = NewJob
  BY <1>1, <1>2, EnqueueCreateDoes DEF RowWritten
<1>3. ASSUME NEW k \in Jobs, EnqueueStartFailed(k)
      PROVE  k = j /\ enq[j] = "startFailed" /\ row'[j] = MarkFailed(NewJob)
  BY <1>1, <1>3, EnqueueStartFailedDoes DEF RowWritten, EnqMoves
<1>4. ASSUME NEW k \in Jobs, EnqueueMarkRunning(k)
      PROVE  k = j /\ enq[j] = "started" /\ row'[j] = MarkRunning(NewJob)
  BY <1>1, <1>4, EnqueueMarkRunningDoes DEF RowWritten, EnqMoves
<1>5. ASSUME NEW k \in Jobs, CancelWrite(k)
      PROVE  /\ cnl[j] \in {"writingStarted", "writingUnstarted"}
             /\ row'[j].st = "cancelled"
  BY <1>1, <1>5, CancelWriteDoes DEF RowWritten
<1>6. ASSUME NEW k \in Jobs, CompleteUpdate(k)
      PROVE  sup[j].pc = "update" /\ row'[j] = sup[j].job
  BY <1>1, <1>6, CompleteUpdateDoes DEF RowWritten
<1>7. ASSUME NEW k \in Jobs, ReattachDead(k)
      PROVE  j \in todo /\ row'[j].st = "failed"
  BY <1>1, <1>7, ReattachDeadDoes DEF RowWritten
<1>8. ASSUME NEW k \in Jobs,
             \/ EnqueueCountUser(k) \/ EnqueueCountGlobal(k) \/ EnqueueCreds(k)
      PROVE  FALSE
  BY <1>1, <1>8, EnqueueChecksDoes
<1>9. ASSUME NEW k \in Jobs, EnqueuePrepare(k) \/ EnqueueUndo(k) PROVE FALSE
  BY <1>1, <1>9, EnqueueDirsDoes
<1>10. ASSUME NEW k \in Jobs, EnqueueDockerRun(k) PROVE FALSE
  BY <1>1, <1>10, EnqueueDockerRunDoes
<1>11. ASSUME NEW k \in Jobs, CancelRead(k) \/ CancelStop(k) \/ ContainerExit(k)
       PROVE  FALSE
  BY <1>1, <1>11, CancelReadDoes, CancelStopDoes, ContainerExitDoes
<1>12. ASSUME NEW k \in Jobs,
              \/ SuperviseWait(k) \/ SuperviseTimeout(k) \/ SuperviseCollect(k)
              \/ SuperviseClean(k) \/ SuperviseRemove(k) \/ CompleteGet(k) \/ CompleteDispatch(k)
       PROVE  UNCHANGED row
  BY <1>12 DEF SuperviseWait, SuperviseTimeout, SuperviseCollect, SuperviseClean,
                SuperviseRemove,
               CompleteGet, CompleteDispatch, db
<1>13. CASE Crash \/ Exit
  BY <1>1, <1>13, LossDoes
<1>14. CASE SigTerm \/ StartList \/ ReattachDone \/ Sweep \/ \E k \in Jobs : ReattachAlive(k)
  BY <1>1, <1>14, ProcessDoes
<1>15. CASE UNCHANGED vars
  BY <1>15 DEF vars
<1> QED
  BY <1>2, <1>3, <1>4, <1>5, <1>6, <1>7, <1>8, <1>9, <1>10, <1>11, <1>12, <1>13,
     <1>14, <1>15
     DEF Next, EnqueueStep, CancelStep, SuperviseStep, StartStep

\* Only a cancel request overwrites a recorded success: the enqueue request is
\* over, the supervisor has reported, and the start-up loop lists running rows.
THEOREM SuccessLost == Spec => SuccessLostOnlyToCancel
<1>1. IInv /\ [Next]_vars => [SuccessKept]_vars
  <2> SUFFICES ASSUME IInv, [Next]_vars, NEW j \in Jobs,
                      row[j].st = "succeeded", row'[j] # row[j]
               PROVE  /\ row'[j].st = "cancelled"
                      /\ cnl[j] \in {"writingStarted", "writingUnstarted"}
    BY DEF vars, SuccessKept
  <2>1. /\ enq[j] = "done" /\ sup[j].pc \in {"hook", "done", "lost"} /\ j \notin todo
    BY DEF IInv, SuccessIsLast, StartAlone
  <2>2. QED BY <2>1, RowWriters
<1> QED
  BY <1>1, Invariance, PTL DEF Spec, SuccessLostOnlyToCancel

\* What has ended changes again only by a call that was under way.
THEOREM EndedChanges == Spec => EndedChangesOnlyUnderWay
<1>1. IInv /\ [Next]_vars => [EndedKept]_vars
  <2> SUFFICES ASSUME IInv, [Next]_vars, NEW j \in Jobs,
                      row[j].st \in Terminal, row'[j].st # row[j].st
               PROVE  /\ row'[j].st = "running" =>
                           row[j].st # "succeeded" /\ enq[j] = "started"
                      /\ row'[j].st = "failed" =>
                           enq[j] = "startFailed" \/ sup[j].pc = "update"
                      /\ row'[j].st = "succeeded" =>
                           row[j].st = "cancelled" /\ sup[j].pc = "update"
    BY DEF vars, EndedKept, IsTerminal
  <2>1. /\ row[j].st = "succeeded" =>
             enq[j] = "done" /\ sup[j].pc \in {"hook", "done", "lost"}
        /\ j \notin todo
        /\ enq[j] # "idle"
        /\ sup[j].pc = "update" => sup[j].job.st \in {"succeeded", "failed"}
        /\ sup[j].pc = "update" /\ sup[j].job.st = "succeeded" => row[j].st # "failed"
    BY DEF IInv, SuccessIsLast, StartAlone, RowsTracked, OutcomeKnown, Terminal
  <2>2. row'[j] # row[j]
    OBVIOUS
  <2>3. /\ MarkFailed(NewJob).st = "failed" /\ MarkRunning(NewJob).st = "running"
    BY MarkedFields
  <2>4. QED BY <2>1, <2>2, <2>3, RowWriters DEF Terminal
<1> QED
  BY <1>1, Invariance, PTL DEF Spec, EndedChangesOnlyUnderWay

\* A receiver hears one outcome of a job: only the supervisor past its write
\* announces, and it announces the value it wrote.
THEOREM OneOutcome == Spec => HearsOneOutcome
<1> DEFINE Kept == \A j \in Jobs : posted[j] # "none" => posted'[j] = posted[j]
<1>1. IInv /\ [Next]_vars => [Kept]_vars
  <2> SUFFICES ASSUME IInv, [Next]_vars, NEW j \in Jobs, posted[j] # "none"
               PROVE  posted'[j] = posted[j]
    BY DEF vars
  <2>1. TypeOK /\ AnnouncedWasWritten
    BY DEF IInv
  <2>2. ASSUME NEW k \in Jobs, CompleteDispatch(k) PROVE posted'[j] = posted[j]
    BY <2>1, <2>2, CompleteDispatchDoes DEF AnnouncedWasWritten, TypeOK
  <2>3. ASSUME NEW k \in Jobs,
               \/ ContainerExit(k) \/ EnqueueCreate(k) \/ EnqueueStep(k)
               \/ CancelRead(k) \/ CancelStep(k)
               \/ ReattachAlive(k) \/ ReattachDead(k)
        PROVE  UNCHANGED posted
    BY <2>3 DEF ContainerExit, EnqueueCreate, EnqueueStep, EnqueueCountUser,
                EnqueueCountGlobal, EnqueueCreds, EnqueuePrepare,
                EnqueueMakeWorkspace, EnqueueWriteSecrets, EnqueueDockerRun, EnqueueUndo,
                EnqueueStartFailed, EnqueueMarkRunning, EnqueueReturns, EnqueueWrites,
                CancelRead, CancelStep, CancelStop, CancelWrite, ReattachAlive,
                ReattachDead, hooks
  <2>4. ASSUME NEW k \in Jobs,
               \/ SuperviseWait(k) \/ SuperviseTimeout(k) \/ SuperviseCollect(k)
               \/ SuperviseClean(k) \/ SuperviseRemove(k) \/ CompleteGet(k) \/ CompleteUpdate(k)
        PROVE  UNCHANGED posted
    BY <2>4 DEF SuperviseWait, SuperviseTimeout, SuperviseCollect, SuperviseClean,
                SuperviseRemove,
                CompleteGet, CompleteUpdate, hooks
  <2>5. CASE \/ Crash \/ Exit \/ SigTerm \/ StartList \/ ReattachDone \/ Sweep
             \/ UNCHANGED vars
    BY <2>5 DEF Crash, Exit, SigTerm, StartList, ReattachDone, Sweep, hooks, vars
  <2> QED
    BY <2>2, <2>3, <2>4, <2>5 DEF Next, SuperviseStep, StartStep
<1> QED
  BY <1>1, Invariance, PTL DEF Spec, HearsOneOutcome

------------------------------------------------------------------------------
(* Every process has a bounded number of steps to take. *)

\* The steps an enqueue request may still take, from Create to Update.
EnqueueRank(state) ==
  CASE state = "idle" -> 10 [] state = "created" -> 9 [] state = "userOk" -> 8
    [] state = "capsOk" -> 7 [] state = "ready" -> 6 [] state = "made" -> 5
    [] state = "prepared" -> 4 [] state \in {"runFailed", "runCut"} -> 3
    [] state \in {"emptied", "emptiedCut"} -> 2
    [] state \in {"started", "startFailed"} -> 1 [] OTHER -> 0

EnqueueLeft(j) == EnqueueRank(enq[j])

\* The steps a supervisor may still take, of which MaxAttempts to deliver the webhook.
SuperviseRank(pc, made) ==
  CASE pc = "none" -> MaxAttempts + 8 [] pc = "wait" -> MaxAttempts + 7
    [] pc = "collect" -> MaxAttempts + 6 [] pc = "clean" -> MaxAttempts + 5
    [] pc = "rmWorkspace" -> MaxAttempts + 4 [] pc = "rmSecrets" -> MaxAttempts + 3
    [] pc = "report" -> MaxAttempts + 2 [] pc = "update" -> MaxAttempts + 1
    [] pc = "hook" -> MaxAttempts - made [] OTHER -> 0

SuperviseLeft(j) == SuperviseRank(sup[j].pc, tries[j])

\* The steps of a start-up, one for each job it lists.
StartRank(state, listed) ==
  CASE state = "down" -> Cardinality(Jobs) + 3 [] state = "reattach" -> Cardinality(listed) + 2
    [] state = "sweep" -> 1 [] OTHER -> 0

StartLeft == StartRank(srv, todo)

LeftTyped ==
  /\ StartLeft \in Nat
  /\ \A j \in Jobs : EnqueueLeft(j) \in Nat /\ SuperviseLeft(j) \in Nat

\* A process that takes a step has fewer left, whatever fails, and no other process
\* adds to them; only a stop of the process makes another start-up.
WorkShrinks ==
  /\ StartStep => StartLeft' < StartLeft
  /\ srv' # "down" => StartLeft' <= StartLeft
  /\ \A j \in Jobs :
       /\ EnqueueCreate(j) \/ EnqueueStep(j) => EnqueueLeft(j)' < EnqueueLeft(j)
       /\ EnqueueLeft(j)' <= EnqueueLeft(j)
       /\ SuperviseStep(j) => SuperviseLeft(j)' < SuperviseLeft(j)
       /\ SuperviseLeft(j)' <= SuperviseLeft(j)

LEMMA EnqueueRanks ==
  /\ \A state : EnqueueRank(state) \in Nat
  /\ EnqueueRank("idle") = 10 /\ EnqueueRank("created") = 9 /\ EnqueueRank("userOk") = 8
  /\ EnqueueRank("capsOk") = 7 /\ EnqueueRank("ready") = 6 /\ EnqueueRank("made") = 5
  /\ EnqueueRank("prepared") = 4
  /\ EnqueueRank("runFailed") = 3 /\ EnqueueRank("runCut") = 3
  /\ EnqueueRank("emptied") = 2 /\ EnqueueRank("emptiedCut") = 2
  /\ EnqueueRank("started") = 1 /\ EnqueueRank("startFailed") = 1 /\ EnqueueRank("done") = 0
  BY DEF EnqueueRank

LEMMA SuperviseRanks ==
  ASSUME NEW made \in 0 .. MaxAttempts
  PROVE  /\ \A pc : SuperviseRank(pc, made) \in Nat
         /\ SuperviseRank("none", made) = 11 /\ SuperviseRank("wait", made) = 10
         /\ SuperviseRank("collect", made) = 9 /\ SuperviseRank("clean", made) = 8
         /\ SuperviseRank("rmWorkspace", made) = 7 /\ SuperviseRank("rmSecrets", made) = 6
         /\ SuperviseRank("report", made) = 5 /\ SuperviseRank("update", made) = 4
         /\ SuperviseRank("hook", made) = 3 - made
         /\ SuperviseRank("done", made) = 0 /\ SuperviseRank("lost", made) = 0
  BY DEF SuperviseRank, MaxAttempts

LEMMA StartRanks ==
  ASSUME NEW listed \in SUBSET Jobs
  PROVE  /\ IsFiniteSet(listed) /\ Cardinality(listed) \in Nat /\ Cardinality(Jobs) \in Nat
         /\ Cardinality(listed) <= Cardinality(Jobs)
         /\ \A state : StartRank(state, listed) \in Nat
         /\ StartRank("down", listed) = Cardinality(Jobs) + 3
         /\ StartRank("reattach", listed) = Cardinality(listed) + 2
         /\ StartRank("sweep", listed) = 1
         /\ StartRank("up", listed) = 0 /\ StartRank("draining", listed) = 0
<1>1. IsFiniteSet(Jobs) /\ IsFiniteSet(listed) /\ Cardinality(listed) <= Cardinality(Jobs)
  BY JobsAssumption, FS_Subset
<1>2. Cardinality(listed) \in Nat /\ Cardinality(Jobs) \in Nat
  BY <1>1, FS_CardinalityType
<1> QED BY <1>1, <1>2 DEF StartRank

LEMMA LeftType == TypeOK => LeftTyped
<1> SUFFICES ASSUME TypeOK PROVE LeftTyped
  OBVIOUS
<1>1. StartLeft \in Nat
  BY StartRanks DEF TypeOK, StartLeft
<1>2. ASSUME NEW j \in Jobs PROVE EnqueueLeft(j) \in Nat /\ SuperviseLeft(j) \in Nat
  <2>1. tries[j] \in 0 .. MaxAttempts
    BY DEF TypeOK
  <2> QED BY <2>1, EnqueueRanks, SuperviseRanks DEF EnqueueLeft, SuperviseLeft
<1> QED BY <1>1, <1>2 DEF LeftTyped

\* A request that moves has fewer steps left, and no other request has more.
LEMMA EnqMovesDown ==
  ASSUME NEW k \in Jobs, NEW from, NEW to, EnqMoves(k, from, to),
         EnqueueRank(to) < EnqueueRank(from)
  PROVE  /\ EnqueueLeft(k)' < EnqueueLeft(k)
         /\ \A j \in Jobs \ {k} : EnqueueLeft(j)' = EnqueueLeft(j)
  BY DEF EnqMoves, EnqueueLeft

LEMMA EnqueueProgress ==
  ASSUME TypeOK, NEW k \in Jobs, EnqueueCreate(k) \/ EnqueueStep(k)
  PROVE  /\ EnqueueLeft(k)' < EnqueueLeft(k)
         /\ \A j \in Jobs \ {k} : EnqueueLeft(j)' = EnqueueLeft(j)
         /\ UNCHANGED <<srv, todo>>
<1>1. CASE EnqueueCreate(k)
  BY <1>1, EnqueueCreateDoes, EnqueueRanks, EnqMovesDown
<1>2. CASE EnqueueCountUser(k) \/ EnqueueCountGlobal(k) \/ EnqueueCreds(k)
  <2>1. ASSUME NEW from \in {"created", "userOk", "capsOk"}
        PROVE  EnqueueRank("done") < EnqueueRank(from)
    BY EnqueueRanks
  <2>2. PICK from, to : EnqMoves(k, from, to) /\ EnqueueRank(to) < EnqueueRank(from)
    BY <1>2, <2>1, EnqueueChecksDoes, EnqueueRanks
  <2> QED BY <1>2, <2>2, EnqueueChecksDoes, EnqMovesDown
<1>3. CASE EnqueuePrepare(k) \/ EnqueueUndo(k)
  BY <1>3, EnqueueDirsDoes, EnqueueRanks, EnqMovesDown
<1>4. CASE EnqueueDockerRun(k)
  BY <1>4, EnqueueDockerRunDoes, EnqueueRanks, EnqMovesDown
<1>5. CASE EnqueueStartFailed(k)
  BY <1>5, EnqueueStartFailedDoes, EnqueueRanks, EnqMovesDown
<1>6. CASE EnqueueMarkRunning(k)
  BY <1>6, EnqueueMarkRunningDoes, EnqueueRanks, EnqMovesDown
<1> QED BY <1>1, <1>2, <1>3, <1>4, <1>5, <1>6 DEF EnqueueStep

\* Only docker run starts a supervisor, which there was none of before.
LEMMA EnqueueSupervises ==
  ASSUME TypeOK, RunningSupervised, NEW k \in Jobs, EnqueueCreate(k) \/ EnqueueStep(k)
  PROVE  \A j \in Jobs : SuperviseLeft(j)' <= SuperviseLeft(j)
<1>1. \A j \in Jobs : tries[j] \in 0 .. MaxAttempts /\ SuperviseLeft(j) \in Nat
  BY LeftType DEF TypeOK, LeftTyped
<1>2. CASE UNCHANGED <<sup, tries>>
  BY <1>1, <1>2 DEF SuperviseLeft
<1>3. CASE EnqueueDockerRun(k)
  <2>1. tries' = tries
    BY <1>3, EnqueueDockerRunDoes
  <2>2. CASE SupMoves(k, sup[k].pc, "wait")
    <3>1. sup[k].pc = "none"
      BY <1>3 DEF RunningSupervised, EnqueueDockerRun, EnqueueAt
    <3>2. SuperviseLeft(k)' = 10 /\ SuperviseLeft(k) = 11
      BY <1>1, <2>1, <2>2, <3>1, SuperviseRanks DEF SuperviseLeft, SupMoves
    <3>3. \A j \in Jobs \ {k} : SuperviseLeft(j)' = SuperviseLeft(j)
      BY <2>1, <2>2 DEF SuperviseLeft, SupMoves
    <3> QED BY <1>1, <3>2, <3>3
  <2> QED BY <1>2, <1>3, <2>1, <2>2, EnqueueDockerRunDoes
<1>4. \/ EnqueueDockerRun(k)
      \/ UNCHANGED <<sup, tries>>
  BY EnqueueCreateDoes, EnqueueChecksDoes, EnqueueDirsDoes, EnqueueStartFailedDoes,
     EnqueueMarkRunningDoes DEF EnqueueStep
<1> QED BY <1>2, <1>3, <1>4

LEMMA SuperviseProgress ==
  ASSUME TypeOK, AttemptsCounted, NEW k \in Jobs, SuperviseStep(k)
  PROVE  /\ SuperviseLeft(k)' < SuperviseLeft(k)
         /\ \A j \in Jobs \ {k} : SuperviseLeft(j)' = SuperviseLeft(j)
         /\ UNCHANGED <<enq, srv, todo>>
<1>1. tries[k] \in 0 .. MaxAttempts /\ MaxAttempts = 3
  BY DEF TypeOK, MaxAttempts
<1>2. ASSUME NEW from, NEW to, SupMoves(k, from, to), tries' = tries,
             SuperviseRank(to, tries[k]) < SuperviseRank(from, tries[k])
      PROVE  /\ SuperviseLeft(k)' < SuperviseLeft(k)
             /\ \A j \in Jobs \ {k} : SuperviseLeft(j)' = SuperviseLeft(j)
  BY <1>2 DEF SupMoves, SuperviseLeft
<1>3. /\ SuperviseRank("collect", tries[k]) < SuperviseRank("wait", tries[k])
      /\ SuperviseRank("clean", tries[k]) < SuperviseRank("collect", tries[k])
      /\ SuperviseRank("rmWorkspace", tries[k]) < SuperviseRank("clean", tries[k])
      /\ SuperviseRank("rmSecrets", tries[k]) < SuperviseRank("rmWorkspace", tries[k])
      /\ SuperviseRank("report", tries[k]) < SuperviseRank("rmSecrets", tries[k])
      /\ SuperviseRank("update", tries[k]) < SuperviseRank("report", tries[k])
      /\ SuperviseRank("done", tries[k]) < SuperviseRank("report", tries[k])
      /\ SuperviseRank("hook", tries[k]) < SuperviseRank("update", tries[k])
      /\ SuperviseRank("done", tries[k]) < SuperviseRank("update", tries[k])
  BY <1>1, SuperviseRanks
<1>4. CASE SuperviseWait(k)
  BY <1>2, <1>3, <1>4, SuperviseWaitDoes
<1>5. CASE SuperviseTimeout(k)
  BY <1>2, <1>3, <1>5, SuperviseTimeoutDoes
<1>6. CASE SuperviseCollect(k)
  BY <1>2, <1>3, <1>6, SuperviseCollectDoes
<1>7. CASE SuperviseClean(k) \/ SuperviseRemove(k)
  BY <1>2, <1>3, <1>7, SuperviseTidyDoes
<1>8. CASE CompleteGet(k)
  BY <1>2, <1>3, <1>8, CompleteGetDoes
<1>9. CASE CompleteUpdate(k)
  BY <1>2, <1>3, <1>9, CompleteUpdateDoes
<1>10. CASE CompleteDispatch(k)
  <2>1. /\ sup[k].pc = "hook" /\ tries[k] < MaxAttempts
        /\ tries' = [tries EXCEPT ![k] = @ + 1]
        /\ UNCHANGED <<enq, srv, todo>>
        /\ SupMoves(k, "hook", "done") \/ sup' = sup
    BY <1>10, CompleteDispatchDoes DEF AttemptsCounted
  <2>2. /\ tries'[k] = tries[k] + 1 /\ tries'[k] \in 0 .. MaxAttempts
        /\ \A j \in Jobs \ {k} : tries'[j] = tries[j]
    BY <1>1, <2>1 DEF TypeOK
  <2>3. sup'[k].pc \in {"hook", "done"} /\ \A j \in Jobs \ {k} : sup'[j] = sup[j]
    BY <2>1 DEF SupMoves
  <2>4. SuperviseLeft(k) = 3 - tries[k] /\ SuperviseLeft(k)' \in {3 - tries'[k], 0}
    BY <1>1, <2>1, <2>2, <2>3, SuperviseRanks DEF SuperviseLeft
  <2>5. SuperviseLeft(k)' < SuperviseLeft(k)
    BY <1>1, <2>1, <2>2, <2>4
  <2> QED BY <2>1, <2>2, <2>3, <2>5 DEF SuperviseLeft
<1> QED BY <1>4, <1>5, <1>6, <1>7, <1>8, <1>9, <1>10 DEF SuperviseStep

LEMMA StartProgress ==
  ASSUME TypeOK, StartStep
  PROVE  StartLeft' < StartLeft /\ UNCHANGED <<enq, sup, tries>>
<1>1. todo \in SUBSET Jobs /\ RunningRows \in SUBSET Jobs
  BY DEF TypeOK, RunningRows
<1>2. ASSUME NEW j \in todo, todo' = todo \ {j}, srv = "reattach", srv' = "reattach"
      PROVE  StartLeft' < StartLeft
  <2>1. IsFiniteSet(todo) /\ Cardinality(todo) \in Nat
    BY <1>1, StartRanks
  <2>2. Cardinality(todo') = Cardinality(todo) - 1
    BY <1>2, <2>1, FS_RemoveElement
  <2>3. todo' \in SUBSET Jobs
    BY <1>1, <1>2
  <2>4. StartLeft' = Cardinality(todo') + 2 /\ StartLeft = Cardinality(todo) + 2
    BY <1>1, <1>2, <2>3, StartRanks DEF StartLeft
  <2> QED BY <2>1, <2>2, <2>4
<1>3. CASE StartList
  <2>1. srv = "down" /\ UNCHANGED <<enq, sup, tries>>
    BY <1>3 DEF StartList, hooks
  <2>2. StartLeft = Cardinality(Jobs) + 3 /\ Cardinality(Jobs) \in Nat
    BY <1>1, <2>1, StartRanks DEF StartLeft
  <2>3. CASE srv' = "reattach" /\ todo' = RunningRows
    <3>1. StartLeft' = Cardinality(RunningRows) + 2
      BY <1>1, <2>3, StartRanks DEF StartLeft
    <3>2. Cardinality(RunningRows) \in Nat /\ Cardinality(RunningRows) <= Cardinality(Jobs)
      BY <1>1, StartRanks
    <3> QED BY <2>1, <2>2, <3>1, <3>2
  <2>4. CASE srv' = "sweep" /\ todo' = todo
    <3>1. StartLeft' = 1
      BY <1>1, <2>4, StartRanks DEF StartLeft
    <3> QED BY <2>1, <2>2, <3>1
  <2> QED BY <1>3, <2>3, <2>4 DEF StartList
<1>4. CASE ReattachDone
  <2>1. srv = "reattach" /\ srv' = "sweep" /\ todo' = todo /\ UNCHANGED <<enq, sup, tries>>
    BY <1>4 DEF ReattachDone, hooks
  <2> QED BY <1>1, <2>1, StartRanks DEF StartLeft
<1>5. CASE Sweep
  <2>1. srv = "sweep" /\ srv' = "up" /\ todo' = todo /\ UNCHANGED <<enq, sup, tries>>
    BY <1>5 DEF Sweep, hooks
  <2> QED BY <1>1, <2>1, StartRanks DEF StartLeft
<1>6. ASSUME NEW j \in Jobs, ReattachAlive(j)
      PROVE  StartLeft' < StartLeft /\ UNCHANGED <<enq, sup, tries>>
  <2>1. /\ srv = "reattach" /\ srv' = "reattach" /\ j \in todo /\ todo' = todo \ {j}
        /\ UNCHANGED <<enq, sup, tries>>
    BY <1>6 DEF ReattachAlive, hooks
  <2> QED BY <1>2, <2>1
<1>7. ASSUME NEW j \in Jobs, ReattachDead(j)
      PROVE  StartLeft' < StartLeft /\ UNCHANGED <<enq, sup, tries>>
  <2>1. /\ srv = "reattach" /\ j \in todo /\ UNCHANGED <<enq, sup, tries>>
        /\ \/ srv' = "reattach" /\ todo' = todo \ {j}
           \/ srv' = "sweep" /\ todo' = {}
    BY <1>7, ReattachDeadDoes
  <2>2. CASE srv' = "sweep" /\ todo' = {}
    BY <1>1, <2>1, <2>2, StartRanks DEF StartLeft
  <2> QED BY <1>2, <2>1, <2>2
<1> QED BY <1>3, <1>4, <1>5, <1>6, <1>7 DEF StartStep

\* The steps each process has left are finitely many, each step it takes uses one up,
\* and no step of any other, no failure and no cancel gives it more: an enqueue request
\* ends within ten steps of its own, a supervisor within seven and MaxAttempts, a
\* start-up within three and one for each job.  What the liveness properties add is that
\* steps are taken.
THEOREM WorkIsBounded == Spec => []LeftTyped /\ [][WorkShrinks]_vars
<1>1. IInv => LeftTyped
  BY LeftType DEF IInv
<1>2. TypeOK' => LeftTyped'
  BY LeftType, PTL
<1>3. IInv /\ [Next]_vars => [WorkShrinks]_vars
  <2> SUFFICES ASSUME IInv, Next PROVE WorkShrinks
    OBVIOUS
  <2> DEFINE Kept == /\ srv' # "down" => StartLeft' <= StartLeft
                     /\ \A j \in Jobs : EnqueueLeft(j)' <= EnqueueLeft(j)
                     /\ \A j \in Jobs : SuperviseLeft(j)' <= SuperviseLeft(j)
  <2>1. TypeOK /\ AttemptsCounted /\ RunningSupervised /\ LeftTyped
    BY LeftType DEF IInv
  <2>2. /\ StartLeft \in Nat
        /\ \A j \in Jobs : EnqueueLeft(j) \in Nat /\ SuperviseLeft(j) \in Nat
    BY <2>1 DEF LeftTyped
  <2>3. UNCHANGED <<srv, todo>> => StartLeft' <= StartLeft
    BY <2>2 DEF StartLeft
  <2>4. UNCHANGED enq => \A j \in Jobs : EnqueueLeft(j)' <= EnqueueLeft(j)
    BY <2>2 DEF EnqueueLeft
  <2>5. UNCHANGED <<sup, tries>> => \A j \in Jobs : SuperviseLeft(j)' <= SuperviseLeft(j)
    BY <2>2 DEF SuperviseLeft
  <2>6. LeftTyped'
    <3>1. TypeOK'
      BY IInvStep DEF IInv
    <3> QED BY <1>2, <3>1
  <2>7. ASSUME NEW k \in Jobs, ContainerExit(k) \/ CancelRead(k) \/ CancelStop(k) \/ CancelWrite(k)
        PROVE  UNCHANGED <<srv, todo, enq, sup, tries>>
    BY <2>1, <2>7, ContainerExitDoes, CancelReadDoes, CancelStopDoes, CancelWriteDoes
  <2>8. ASSUME NEW k \in Jobs, EnqueueCreate(k) \/ EnqueueStep(k)
        PROVE  /\ UNCHANGED <<srv, todo>>
               /\ \A j \in Jobs : EnqueueLeft(j)' <= EnqueueLeft(j)
               /\ \A j \in Jobs : SuperviseLeft(j)' <= SuperviseLeft(j)
    <3>1. EnqueueLeft(k)' \in Nat
      BY <2>6 DEF LeftTyped
    <3> QED BY <2>1, <2>2, <2>8, <3>1, EnqueueProgress, EnqueueSupervises
  <2>9. ASSUME NEW k \in Jobs, SuperviseStep(k)
        PROVE  /\ UNCHANGED <<enq, srv, todo>>
               /\ \A j \in Jobs : SuperviseLeft(j)' <= SuperviseLeft(j)
    <3>1. SuperviseLeft(k)' \in Nat
      BY <2>6 DEF LeftTyped
    <3> QED BY <2>1, <2>2, <2>9, <3>1, SuperviseProgress
  <2>10. ASSUME StartStep PROVE Kept
    <3>1. StartLeft' \in Nat
      BY <2>6 DEF LeftTyped
    <3> QED BY <2>1, <2>2, <2>4, <2>5, <2>10, <3>1, StartProgress
  <2>11. ASSUME SigTerm PROVE Kept
    <3>1. srv = "up" /\ srv' = "draining" /\ UNCHANGED <<todo, enq, sup, tries>>
      BY <2>11 DEF SigTerm, hooks
    <3>2. StartLeft = 0 /\ StartLeft' = 0
      BY <2>1, <3>1, StartRanks DEF StartLeft, TypeOK
    <3> QED BY <2>4, <2>5, <3>1, <3>2
  <2>12. ASSUME Crash \/ Exit PROVE Kept
    <3>1. /\ srv' = "down" /\ tries' = tries
          /\ \A j \in Jobs : /\ enq'[j] = IF enq[j] = "idle" THEN "idle" ELSE "done"
                             /\ sup[j].pc \in {"none", "done"} => sup'[j] = sup[j]
                             /\ sup[j].pc \notin {"none", "done"} => sup'[j].pc = "lost"
      BY <2>1, <2>12, LossDoes
    <3>2. ASSUME NEW j \in Jobs PROVE EnqueueLeft(j)' <= EnqueueLeft(j)
      BY <2>2, <3>1, EnqueueRanks DEF EnqueueLeft
    <3>3. ASSUME NEW j \in Jobs PROVE SuperviseLeft(j)' <= SuperviseLeft(j)
      <4>1. tries[j] \in 0 .. MaxAttempts
        BY <2>1 DEF TypeOK
      <4>2. CASE sup[j].pc \in {"none", "done"}
        BY <2>2, <3>1, <4>2 DEF SuperviseLeft
      <4>3. CASE sup[j].pc \notin {"none", "done"}
        <5>1. SuperviseLeft(j)' = 0
          BY <3>1, <4>1, <4>3, SuperviseRanks DEF SuperviseLeft
        <5> QED BY <2>2, <5>1
      <4> QED BY <4>2, <4>3
    <3> QED BY <3>1, <3>2, <3>3
  <2>13. Kept
    BY <2>3, <2>4, <2>5, <2>7, <2>8, <2>9, <2>10, <2>11, <2>12 DEF Next, CancelStep
  <2>14. /\ StartStep => StartLeft' < StartLeft
         /\ \A j \in Jobs : EnqueueCreate(j) \/ EnqueueStep(j) => EnqueueLeft(j)' < EnqueueLeft(j)
         /\ \A j \in Jobs : SuperviseStep(j) => SuperviseLeft(j)' < SuperviseLeft(j)
    BY <2>1, EnqueueProgress, SuperviseProgress, StartProgress
  <2> QED BY <2>13, <2>14 DEF WorkShrinks
<1> QED
  BY <1>1, <1>3, Invariance, PTL DEF Spec
=============================================================================
