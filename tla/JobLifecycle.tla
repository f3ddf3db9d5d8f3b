----------------------------- MODULE JobLifecycle -----------------------------
(***************************************************************************)
(* The life of jobs in the orchestrator: the request that enqueues and     *)
(* starts a job (EnqueueJob), the requests that cancel it (CancelJob), the *)
(* supervisor goroutine of its container and the completion it reports     *)
(* (docker.Runner.supervise, HandleRunnerCompletion), and the orchestrator *)
(* process that stops and starts around them (runServe).                   *)
(*                                                                         *)
(* These share three things: the jobs table in Postgres, the docker        *)
(* daemon's containers, and the per-job directories on the host.  Each     *)
(* database call and each docker command is one step; the in-memory code   *)
(* between two such calls belongs to the step before it.  Every writer of  *)
(* a row replaces the whole row with the job value it read or built        *)
(* earlier, so a value read in one step and written in a later one is kept *)
(* in the state of the process that holds it.                              *)
(***************************************************************************)
EXTENDS Job, Integers, FiniteSets

CONSTANTS
  Jobs,         \* job ids; each is used by one enqueue request
  Users,
  Owner,        \* the user that enqueues each job
  MaxPerUser,   \* AGENTIC_MAX_CONCURRENT_PER_USER, 0 = unlimited
  MaxGlobal,    \* AGENTIC_MAX_CONCURRENT_GLOBAL, 0 = unlimited
  Faults,       \* the kinds of call that may fail, see FaultKinds
  MaxStops      \* bound: how often the orchestrator process stops

(***************************************************************************)
(* db: a database call fails.  creds: a credentials lookup fails.  disk: a *)
(* directory or file cannot be written or removed.  docker: a docker       *)
(* command fails.  disconnect: the client goes away, which cancels the     *)
(* request's context and with it the request's later calls.  hook: the     *)
(* receiver of a completion webhook cannot be reached, refuses the message *)
(* or answers too late.                                                    *)
(***************************************************************************)
FaultKinds == {"db", "creds", "disk", "docker", "disconnect", "hook"}

ASSUME JobsAssumption == IsFiniteSet(Jobs)
ASSUME OwnerAssumption == Owner \in [Jobs -> Users]
ASSUME CapsAssumption == MaxPerUser \in Nat /\ MaxGlobal \in Nat
ASSUME FaultsAssumption == Faults \subseteq FaultKinds
ASSUME StopsAssumption == MaxStops \in Nat

VARIABLES
  row,        \* the jobs table
  cont,       \* the container of each job
  exit,       \* the status the container's process really exited with
  secrets,    \* jobs with a <job>.secrets directory
  workspace,  \* jobs with a workspace directory
  enq,        \* the enqueue request of each job
  cnl,        \* the cancel request in progress for each job
  sup,        \* the supervisor goroutine of each job's container
  posted,     \* the outcome the receiver of the job's webhook last heard
  tries,      \* attempts made to deliver the job's completion webhook
  srv,        \* the orchestrator process
  todo,       \* running jobs the start-up loop has still to inspect
  adopted,    \* jobs whose container this start-up found alive
  stops,      \* how often the process was stopped
  faulty,     \* the kinds of call that fail now and then in this behaviour
  settled     \* history: jobs whose row has ever been terminal

db == <<row, settled>>
host == <<cont, exit, secrets, workspace>>
process == <<srv, todo, adopted, stops, faulty>>
hooks == <<posted, tries>>
vars == <<row, cont, exit, secrets, workspace, enq, cnl, sup, posted, tries,
          srv, todo, adopted, stops, faulty, settled>>

\* A failed docker run leaves directories to remove; "Cut" is without a client.
EnqueueStates == {"idle", "created", "userOk", "capsOk", "ready", "made", "prepared",
                  "runFailed", "emptied", "runCut", "emptiedCut",
                  "startFailed", "started", "done"}

\* A cancel request past its read: whether the job it read has a container id.
CancelStates == {"idle", "stopping", "writingStarted", "writingUnstarted"}

\* What the supervisor believes the exit code to be; "timeout" is 124.
Codes == {"none", "zero", "nonzero", "timeout"}

SuperviseStates == {"none", "wait", "collect", "clean", "rmWorkspace", "rmSecrets",
                    "report", "update", "hook", "done", "lost"}

\* maxAttempts: one delivery and its retries.
MaxAttempts == 3

Supervisors == [pc : SuperviseStates, code : Codes, hook : BOOLEAN, job : Rows]

Supervisor(pc) == [pc |-> pc, code |-> "none", hook |-> FALSE, job |-> NoRow]

TypeOK ==
  /\ row \in [Jobs -> Rows]
  /\ cont \in [Jobs -> {"none", "up", "exited", "gone"}]
  /\ exit \in [Jobs -> {"none", "zero", "nonzero"}]
  /\ secrets \subseteq Jobs
  /\ workspace \subseteq Jobs
  /\ enq \in [Jobs -> EnqueueStates]
  /\ cnl \in [Jobs -> CancelStates]
  /\ sup \in [Jobs -> Supervisors]
  /\ posted \in [Jobs -> {"none", "succeeded", "failed"}]
  /\ tries \in [Jobs -> 0 .. MaxAttempts]
  /\ srv \in {"down", "reattach", "sweep", "up", "draining"}
  /\ todo \subseteq Jobs
  /\ adopted \subseteq Jobs
  /\ stops \in 0 .. MaxStops
  /\ faulty \subseteq Faults
  /\ settled \subseteq Jobs

Init ==
  /\ row = [j \in Jobs |-> NoRow]
  /\ cont = [j \in Jobs |-> "none"]
  /\ exit = [j \in Jobs |-> "none"]
  /\ secrets = {}
  /\ workspace = {}
  /\ enq = [j \in Jobs |-> "idle"]
  /\ cnl = [j \in Jobs |-> "idle"]
  /\ sup = [j \in Jobs |-> Supervisor("none")]
  /\ posted = [j \in Jobs |-> "none"]
  /\ tries = [j \in Jobs |-> 0]
  /\ srv = "down"
  /\ todo = {}
  /\ adopted = {}
  /\ stops = 0
  /\ faulty \in SUBSET Faults
  /\ settled = {}

------------------------------------------------------------------------------
(* The jobs table. *)

\* JobsRepo.Create and JobsRepo.Update: the whole row is written.
WriteRow(j, job) ==
  /\ row' = [row EXCEPT ![j] = job]
  /\ settled' = IF IsTerminal(job) THEN settled \cup {j} ELSE settled

\* Mutants: the counts leave out the jobs that are queued.
BugActiveOf(u) == {j \in Jobs : Owner[j] = u /\ row[j].st = "running"}
BugActiveAll == {j \in Jobs : row[j].st = "running"}

ActiveOf(u) == {j \in Jobs : Owner[j] = u /\ row[j].st \in Active}

ActiveAll == {j \in Jobs : row[j].st \in Active}

\* Mutant: the listing has the rows that have not ended.
BugRunningRows == {j \in Jobs : row[j].st \in Active}

RunningRows == {j \in Jobs : row[j].st = "running"}

\* Calls made with the request's context, and with a background context.
RequestDbFails == faulty \cap {"db", "disconnect"} # {}
BackgroundDbFails == "db" \in faulty

------------------------------------------------------------------------------
(* Containers and directories. *)

\* The container's process is killed if it is still running.
Kill(j) ==
  IF cont[j] = "up"
    THEN /\ cont' = [cont EXCEPT ![j] = "exited"]
         /\ exit' = [exit EXCEPT ![j] = "nonzero"]
    ELSE UNCHANGED <<cont, exit>>

\* A docker kill whose error, if any, the caller ignores.
TryKill(j) ==
  \/ Kill(j)
  \/ "docker" \in faulty /\ UNCHANGED <<cont, exit>>

\* Each os.RemoveAll, whose error the callers ignore.
RemoveWorkspace(j) ==
  \/ workspace' = workspace \ {j}
  \/ "disk" \in faulty /\ UNCHANGED workspace

\* Mutant: the secrets directory is forgotten.
BugRemoveSecrets(j) == UNCHANGED secrets

RemoveSecrets(j) ==
  \/ secrets' = secrets \ {j}
  \/ "disk" \in faulty /\ UNCHANGED secrets

\* The container's entrypoint ends by itself.
ContainerExit(j) ==
  /\ cont[j] = "up"
  /\ cont' = [cont EXCEPT ![j] = "exited"]
  /\ \E c \in {"zero", "nonzero"} : exit' = [exit EXCEPT ![j] = c]
  /\ UNCHANGED <<db, secrets, workspace, enq, cnl, sup, hooks, process>>

------------------------------------------------------------------------------
(* EnqueueJob.Execute, one request per job. *)

EnqueueAt(j, from, to) ==
  /\ enq[j] = from
  /\ enq' = [enq EXCEPT ![j] = to]

\* An early return that changes nothing outside the request.
EnqueueReturns(j, from) ==
  /\ EnqueueAt(j, from, "done")
  /\ UNCHANGED <<db, host, cnl, sup, hooks, process>>

\* The request writes the row and goes on, or the call fails and the request
\* ends; a write that fails may or may not have taken effect.
EnqueueWrites(j, job, from, to) ==
  /\ \/ EnqueueAt(j, from, to) /\ WriteRow(j, job)
     \/ /\ RequestDbFails
        /\ EnqueueAt(j, from, "done")
        /\ WriteRow(j, job) \/ UNCHANGED db
  /\ UNCHANGED <<host, cnl, sup, hooks, process>>

EnqueueCreate(j) ==
  /\ srv = "up"
  /\ EnqueueWrites(j, NewJob, "idle", "created")

\* The count includes the job's own row; the cap is exceeded, not reached.
OverCap(active, max) == max > 0 /\ Cardinality(active) > max

EnqueueCountUser(j) ==
  \/ /\ ~OverCap(ActiveOf(Owner[j]), MaxPerUser)
     /\ EnqueueAt(j, "created", "userOk")
     /\ UNCHANGED <<db, host, cnl, sup, hooks, process>>
  \/ OverCap(ActiveOf(Owner[j]), MaxPerUser) /\ EnqueueReturns(j, "created")
  \/ MaxPerUser > 0 /\ RequestDbFails /\ EnqueueReturns(j, "created")

EnqueueCountGlobal(j) ==
  \/ /\ ~OverCap(ActiveAll, MaxGlobal)
     /\ EnqueueAt(j, "userOk", "capsOk")
     /\ UNCHANGED <<db, host, cnl, sup, hooks, process>>
  \/ OverCap(ActiveAll, MaxGlobal) /\ EnqueueReturns(j, "userOk")
  \/ MaxGlobal > 0 /\ RequestDbFails /\ EnqueueReturns(j, "userOk")

\* Mutant: the workspace is made before the credentials are looked up.
BugEnqueueCreds(j) ==
  /\ \/ EnqueueAt(j, "capsOk", "ready")
     \/ faulty \cap {"creds", "disconnect"} # {} /\ EnqueueAt(j, "capsOk", "done")
  /\ workspace' = workspace \cup {j}
  /\ UNCHANGED <<db, cont, exit, secrets, cnl, sup, hooks, process>>

\* RepoCreds.For and AnthropicCreds.For; on an error the row stays queued.
EnqueueCreds(j) ==
  \/ /\ EnqueueAt(j, "capsOk", "ready")
     /\ UNCHANGED <<db, host, cnl, sup, hooks, process>>
  \/ faulty \cap {"creds", "disconnect"} # {} /\ EnqueueReturns(j, "capsOk")

\* Runner.Start: MkdirAll and Chmod of the workspace.
EnqueueMakeWorkspace(j) ==
  /\ \/ EnqueueAt(j, "ready", "made") /\ workspace' = workspace \cup {j}
     \/ /\ "disk" \in faulty
        /\ EnqueueAt(j, "ready", "startFailed")
        /\ workspace' \in {workspace \ {j}, workspace \cup {j}}
  /\ UNCHANGED <<db, cont, exit, secrets, cnl, sup, hooks, process>>

(***************************************************************************)
(* writeSecrets makes the directory and then its files.  When it fails     *)
(* after the directory it returns "" for its path, so that the caller's    *)
(* RemoveAll of that path removes nothing.                                 *)
(***************************************************************************)
EnqueueWriteSecrets(j) ==
  /\ \/ /\ EnqueueAt(j, "made", "prepared")
        /\ secrets' = secrets \cup {j}
        /\ UNCHANGED workspace
     \/ /\ "disk" \in faulty
        /\ EnqueueAt(j, "made", "startFailed")
        /\ secrets' \in {secrets, secrets \cup {j}}
        /\ RemoveWorkspace(j)
  /\ UNCHANGED <<db, cont, exit, cnl, sup, hooks, process>>

EnqueuePrepare(j) == EnqueueMakeWorkspace(j) \/ EnqueueWriteSecrets(j)

\* docker run -d, whose CLI may fail or be killed before or after the daemon
\* has started the container.
EnqueueDockerRun(j) ==
  /\ \/ /\ EnqueueAt(j, "prepared", "started")
        /\ cont' = [cont EXCEPT ![j] = "up"]
        /\ sup' = [sup EXCEPT ![j] = Supervisor("wait")]
     \/ /\ \/ "docker" \in faulty /\ EnqueueAt(j, "prepared", "runFailed")
           \/ "disconnect" \in faulty /\ EnqueueAt(j, "prepared", "runCut")
        /\ cont' \in {cont, [cont EXCEPT ![j] = "up"]}
        /\ UNCHANGED sup
  /\ UNCHANGED <<db, exit, secrets, workspace, cnl, hooks, process>>

\* After a failed docker run, the workspace and then the secrets are removed.  With
\* the client gone the Update that records the failure fails as well, so that the
\* request ends here.
EnqueueUndo(j) ==
  /\ \/ /\ \/ EnqueueAt(j, "runFailed", "emptied")
           \/ EnqueueAt(j, "runCut", "emptiedCut")
        /\ RemoveWorkspace(j)
        /\ UNCHANGED secrets
     \/ /\ \/ EnqueueAt(j, "emptied", "startFailed")
           \/ EnqueueAt(j, "emptiedCut", "done")
        /\ RemoveSecrets(j)
        /\ UNCHANGED workspace
  /\ UNCHANGED <<db, cont, exit, cnl, sup, hooks, process>>

\* Mutant: a failed start is returned to the client but not recorded.
BugEnqueueStartFailed(j) == EnqueueReturns(j, "startFailed")

EnqueueStartFailed(j) ==
  EnqueueWrites(j, MarkFailed(NewJob), "startFailed", "done")

\* The job marked running is the one built at the start of the request.
EnqueueMarkRunning(j) ==
  EnqueueWrites(j, MarkRunning(NewJob), "started", "done")

EnqueueStep(j) ==
  \/ EnqueueCountUser(j) \/ EnqueueCountGlobal(j) \/ EnqueueCreds(j)
  \/ EnqueuePrepare(j) \/ EnqueueDockerRun(j) \/ EnqueueUndo(j)
  \/ EnqueueStartFailed(j) \/ EnqueueMarkRunning(j)

------------------------------------------------------------------------------
(* CancelJob.Execute; a job may be cancelled again after the request ends. *)

\* Mutant: the container is not stopped.
BugCancelRead(j) ==
  /\ srv = "up"
  /\ cnl[j] = "idle"
  /\ CanMarkCancelled(row[j])
  /\ cnl' = [cnl EXCEPT ![j] = IF row[j].cid THEN "writingStarted"
                                             ELSE "writingUnstarted"]
  /\ UNCHANGED <<db, host, enq, sup, hooks, process>>

CancelRead(j) ==
  /\ srv = "up"
  /\ cnl[j] = "idle"
  /\ CanMarkCancelled(row[j])
  /\ cnl' = [cnl EXCEPT ![j] = IF row[j].cid THEN "stopping"
                                             ELSE "writingUnstarted"]
  /\ UNCHANGED <<db, host, enq, sup, hooks, process>>

\* Runner.Stop never reports an error.
CancelStop(j) ==
  /\ cnl[j] = "stopping"
  /\ cnl' = [cnl EXCEPT ![j] = "writingStarted"]
  /\ \/ TryKill(j)
     \/ "disconnect" \in faulty /\ UNCHANGED <<cont, exit>>
  /\ UNCHANGED <<db, secrets, workspace, enq, sup, hooks, process>>

CancelWrite(j) ==
  /\ cnl[j] \in {"writingStarted", "writingUnstarted"}
  /\ cnl' = [cnl EXCEPT ![j] = "idle"]
  /\ \/ WriteRow(j, [st |-> "cancelled", cid |-> cnl[j] = "writingStarted"])
     \/ RequestDbFails /\ UNCHANGED db
  /\ UNCHANGED <<host, enq, sup, hooks, process>>

CancelStep(j) == CancelStop(j) \/ CancelWrite(j)

------------------------------------------------------------------------------
(* Runner.supervise, and HandleRunnerCompletion.Execute at its end. *)

SuperviseAt(j, from, to) ==
  /\ sup[j].pc = from
  /\ sup' = [sup EXCEPT ![j].pc = to]

SuperviseDone(j, from) ==
  /\ sup[j].pc = from
  /\ sup' = [sup EXCEPT ![j] = Supervisor("done")]

\* docker wait returns because the container has exited, or fails.
SuperviseWait(j) ==
  /\ cont[j] = "exited" \/ "docker" \in faulty
  /\ SuperviseAt(j, "wait", "collect")
  /\ UNCHANGED <<db, host, enq, cnl, hooks, process>>

\* Mutant: docker wait has no deadline, so the kill comes only after the exit.
BugSuperviseTimeout(j) ==
  /\ sup[j].pc = "wait"
  /\ cont[j] = "exited"
  /\ sup' = [sup EXCEPT ![j] = [@ EXCEPT !.pc = "collect", !.code = "timeout"]]
  /\ UNCHANGED <<db, host, enq, cnl, hooks, process>>

\* MaxJobDuration elapses first.
SuperviseTimeout(j) ==
  /\ sup[j].pc = "wait"
  /\ sup' = [sup EXCEPT ![j] = [@ EXCEPT !.pc = "collect", !.code = "timeout"]]
  /\ TryKill(j)
  /\ UNCHANGED <<db, secrets, workspace, enq, cnl, hooks, process>>

\* Mutant: the exit code is never read.
BugInspectedCodes(j) == {"zero"}

\* docker inspect: 0 for a container that still runs, and 0 when it fails.
InspectedCodes(j) ==
  {IF cont[j] = "exited" THEN exit[j] ELSE "zero"}
    \cup (IF "docker" \in faulty THEN {"zero"} ELSE {})

\* 124 after a timeout, else what docker inspect says.
ReportedCodes(j) ==
  IF sup[j].code = "timeout" THEN {"timeout"} ELSE InspectedCodes(j)

\* The exit code and the artifacts, among them the repository's webhook URL.
SuperviseCollect(j) ==
  /\ sup[j].pc = "collect"
  /\ \E h \in BOOLEAN, c \in ReportedCodes(j) :
       sup' = [sup EXCEPT ![j] = [@ EXCEPT !.pc = "clean", !.code = c, !.hook = h]]
  /\ UNCHANGED <<db, host, enq, cnl, hooks, process>>

\* docker rm -f.
SuperviseClean(j) ==
  /\ SuperviseAt(j, "clean", "rmWorkspace")
  /\ \/ /\ cont' = [cont EXCEPT ![j] = "gone"]
        /\ exit' = [exit EXCEPT ![j] = IF cont[j] = "up" THEN "nonzero" ELSE @]
     \/ "docker" \in faulty /\ UNCHANGED <<cont, exit>>
  /\ UNCHANGED <<db, secrets, workspace, enq, cnl, hooks, process>>

\* Then the workspace, then the secrets.
SuperviseRemove(j) ==
  /\ \/ /\ SuperviseAt(j, "rmWorkspace", "rmSecrets")
        /\ RemoveWorkspace(j)
        /\ UNCHANGED secrets
     \/ /\ SuperviseAt(j, "rmSecrets", "report")
        /\ RemoveSecrets(j)
        /\ UNCHANGED workspace
  /\ UNCHANGED <<db, cont, exit, enq, cnl, hooks, process>>

\* Jobs.Get, and the transition on the job value it returned.
CompleteGet(j) ==
  /\ \/ /\ sup[j].pc = "report"
        /\ sup[j].code = "zero"
        /\ CanMarkSucceeded(row[j])
        /\ sup' = [sup EXCEPT ![j] = [@ EXCEPT !.pc = "update",
                                               !.job = MarkSucceeded(row[j])]]
     \/ /\ sup[j].pc = "report"
        /\ sup[j].code # "zero"
        /\ CanMarkFailed(row[j])
        /\ sup' = [sup EXCEPT ![j] = [@ EXCEPT !.pc = "update",
                                               !.job = MarkFailed(row[j])]]
     \/ /\ \/ sup[j].code = "zero" /\ ~CanMarkSucceeded(row[j])
           \/ sup[j].code # "zero" /\ ~CanMarkFailed(row[j])
           \/ BackgroundDbFails
        /\ SuperviseDone(j, "report")
  /\ UNCHANGED <<db, host, enq, cnl, hooks, process>>

\* Mutant: the webhook is dispatched although the Update failed.
BugCompleteUpdate(j) ==
  /\ \/ WriteRow(j, sup[j].job)
     \/ BackgroundDbFails /\ UNCHANGED db
  /\ \/ sup[j].hook /\ SuperviseAt(j, "update", "hook")
     \/ ~sup[j].hook /\ SuperviseDone(j, "update")
  /\ UNCHANGED <<host, enq, cnl, hooks, process>>

\* A failed Update may or may not have taken effect.
CompleteUpdate(j) ==
  /\ \/ /\ WriteRow(j, sup[j].job)
        /\ \/ sup[j].hook /\ SuperviseAt(j, "update", "hook")
           \/ ~sup[j].hook /\ SuperviseDone(j, "update")
     \/ /\ BackgroundDbFails
        /\ WriteRow(j, sup[j].job) \/ UNCHANGED db
        /\ SuperviseDone(j, "update")
  /\ UNCHANGED <<host, enq, cnl, hooks, process>>

\* Mutant: the job is read again for every attempt.
BugHookMessage(j) == row[j].st

\* DispatchCompletionWebhook sends the job value that was written.
HookMessage(j) == sup[j].job.st

Heard(j) == posted' = [posted EXCEPT ![j] = HookMessage(j)]

LastAttempt(j) == tries[j] + 1 = MaxAttempts

\* Mutant: the attempts are counted round and round.
BugCompleteDispatch(j) ==
  /\ sup[j].pc = "hook"
  /\ tries' = [tries EXCEPT ![j] = (@ + 1) % MaxAttempts]
  /\ \/ Heard(j) /\ SuperviseDone(j, "hook")
     \/ /\ "hook" \in faulty
        /\ Heard(j) \/ UNCHANGED posted
        /\ UNCHANGED sup
  /\ UNCHANGED <<db, host, enq, cnl, process>>

(***************************************************************************)
(* HTTPWebhook.Dispatch, one attempt.  An attempt succeeds when the        *)
(* receiver answers below 400 in time; one that fails may have been heard. *)
(* The last failure is given up, and its error only logged.                *)
(***************************************************************************)
CompleteDispatch(j) ==
  /\ sup[j].pc = "hook"
  /\ tries' = [tries EXCEPT ![j] = @ + 1]
  /\ \/ Heard(j) /\ SuperviseDone(j, "hook")
     \/ /\ "hook" \in faulty
        /\ Heard(j) \/ UNCHANGED posted
        /\ \/ LastAttempt(j) /\ SuperviseDone(j, "hook")
           \/ ~LastAttempt(j) /\ UNCHANGED sup
  /\ UNCHANGED <<db, host, enq, cnl, process>>

SuperviseStep(j) ==
  \/ SuperviseWait(j) \/ SuperviseTimeout(j)
  \/ SuperviseCollect(j) \/ SuperviseClean(j) \/ SuperviseRemove(j)
  \/ CompleteGet(j) \/ CompleteUpdate(j) \/ CompleteDispatch(j)

------------------------------------------------------------------------------
(* The orchestrator process: runServe. *)

\* Everything the process was doing is gone; containers are detached and stay.
LoseGoroutines ==
  /\ enq' = [j \in Jobs |-> IF enq[j] = "idle" THEN "idle" ELSE "done"]
  /\ cnl' = [j \in Jobs |-> "idle"]
  /\ sup' = [j \in Jobs |-> IF sup[j].pc \in {"none", "done"} THEN sup[j]
                                                         ELSE Supervisor("lost")]

Crash ==
  /\ srv \in {"reattach", "sweep", "up"}
  /\ stops < MaxStops
  /\ stops' = stops + 1
  /\ srv' = "down"
  /\ todo' = {}
  /\ LoseGoroutines
  /\ UNCHANGED <<db, host, hooks, adopted, faulty>>

\* SIGTERM: Shutdown closes the listener and waits for the open requests.
SigTerm ==
  /\ srv = "up"
  /\ stops < MaxStops
  /\ stops' = stops + 1
  /\ srv' = "draining"
  /\ UNCHANGED <<db, host, enq, cnl, sup, hooks, todo, adopted, faulty>>

\* ListenAndServe returns as soon as Shutdown is called, and main with it.
Exit ==
  /\ srv = "draining"
  /\ srv' = "down"
  /\ LoseGoroutines
  /\ UNCHANGED <<db, host, hooks, todo, adopted, stops, faulty>>

\* ReattachRunningJobs lists the running rows; its error is only logged.
StartList ==
  /\ srv = "down"
  /\ adopted' = {}
  /\ \/ srv' = "reattach" /\ todo' = RunningRows
     \/ BackgroundDbFails /\ srv' = "sweep" /\ UNCHANGED todo
  /\ UNCHANGED <<db, host, enq, cnl, sup, hooks, stops, faulty>>

\* Runner.Inspect takes a docker failure for a container that is gone.
Inspect(j) == {cont[j] = "up"} \cup (IF "docker" \in faulty THEN {FALSE} ELSE {})

ReattachAlive(j) ==
  /\ srv = "reattach"
  /\ j \in todo
  /\ TRUE \in Inspect(j)
  /\ adopted' = adopted \cup {j}
  /\ todo' = todo \ {j}
  /\ UNCHANGED <<db, host, enq, cnl, sup, hooks, srv, stops, faulty>>

\* Mutant: the failure is not written back.
BugReattachDead(j) ==
  /\ srv = "reattach"
  /\ j \in todo
  /\ FALSE \in Inspect(j)
  /\ todo' = todo \ {j}
  /\ UNCHANGED <<db, host, enq, cnl, sup, hooks, srv, adopted, stops, faulty>>

\* A failed Update ends the loop, and may or may not have taken effect.
ReattachDead(j) ==
  /\ srv = "reattach"
  /\ j \in todo
  /\ FALSE \in Inspect(j)
  /\ \/ /\ WriteRow(j, MarkFailed(row[j]))
        /\ todo' = todo \ {j}
        /\ UNCHANGED srv
     \/ /\ BackgroundDbFails
        /\ WriteRow(j, MarkFailed(row[j])) \/ UNCHANGED db
        /\ todo' = {}
        /\ srv' = "sweep"
  /\ UNCHANGED <<host, enq, cnl, sup, hooks, adopted, stops, faulty>>

ReattachDone ==
  /\ srv = "reattach"
  /\ todo = {}
  /\ srv' = "sweep"
  /\ UNCHANGED <<db, host, enq, cnl, sup, hooks, todo, adopted, stops, faulty>>

\* Mutant: the sweep has no set of directories to keep.
BugSweep ==
  /\ srv = "sweep"
  /\ srv' = "up"
  /\ secrets' = {}
  /\ UNCHANGED <<db, cont, exit, workspace, enq, cnl, sup, hooks,
                 todo, adopted, stops, faulty>>

\* What is left of the secrets directories; one that cannot be removed stays.
SweepOrphanSecrets(running) ==
  {kept \cup (secrets \cap running) :
     kept \in IF "disk" \in faulty THEN SUBSET secrets ELSE {{}}}

\* The directories of running rows are kept; then the process serves requests.
Sweep ==
  /\ srv = "sweep"
  /\ srv' = "up"
  /\ \/ secrets' \in SweepOrphanSecrets(RunningRows)
     \/ BackgroundDbFails /\ UNCHANGED secrets
  /\ UNCHANGED <<db, cont, exit, workspace, enq, cnl, sup, hooks,
                 todo, adopted, stops, faulty>>

StartStep ==
  \/ StartList \/ ReattachDone \/ Sweep
  \/ \E j \in Jobs : ReattachAlive(j) \/ ReattachDead(j)

------------------------------------------------------------------------------

Next ==
  \/ \E j \in Jobs :
       \/ ContainerExit(j)
       \/ EnqueueCreate(j) \/ EnqueueStep(j)
       \/ CancelRead(j) \/ CancelStep(j)
       \/ SuperviseStep(j)
  \/ Crash \/ SigTerm \/ Exit \/ StartStep

Spec == Init /\ [][Next]_vars

(***************************************************************************)
(* A goroutine that can take a step takes it: the Go scheduler is fair,    *)
(* every call returns, and a supervisor's wait is bounded by               *)
(* MaxJobDuration.  The service manager starts the process again.  Nothing *)
(* forces a client to send a request, a container to exit by itself, or    *)
(* the process to stop.                                                    *)
(***************************************************************************)
Fairness ==
  /\ \A j \in Jobs : /\ WF_vars(EnqueueStep(j))
                     /\ WF_vars(CancelStep(j))
                     /\ WF_vars(SuperviseStep(j))
  /\ WF_vars(StartStep)
  /\ WF_vars(Exit)

FairSpec == Spec /\ Fairness

------------------------------------------------------------------------------
(* Safety. *)

\* Containers that run for a job whose row has been active ever since it was
\* inserted: what the concurrency caps are meant to bound.
LiveUnsettled == {j \in Jobs : cont[j] = "up" /\ j \notin settled}

\* Enqueue inserts first and counts afterwards, without a transaction, so two
\* requests may each see the other's row; still no user ever has more
\* containers for unsettled jobs than the cap allows.
UserCapHolds ==
  MaxPerUser > 0 =>
    \A u \in Users :
      Cardinality({j \in LiveUnsettled : Owner[j] = u}) <= MaxPerUser

\* The same for the cap over all users.
GlobalCapHolds == MaxGlobal > 0 => Cardinality(LiveUnsettled) <= MaxGlobal

SuccessKept ==
  \A j \in Jobs :
    row[j].st = "succeeded" /\ row'[j] # row[j] =>
      row'[j].st = "cancelled" /\ cnl[j] \in {"writingStarted", "writingUnstarted"}

\* Rows are overwritten whole by whoever read them last, but a recorded
\* success can only be lost to a cancel request that read the row before it:
\* never to the enqueue request, the completion or the start-up loop.
SuccessLostOnlyToCancel == [][SuccessKept]_vars

\* While docker commands answer, a row says succeeded only if the container's
\* process exited with 0, whatever timeouts, cancels and restarts race with it.
SuccessIsReal ==
  "docker" \notin faulty =>
    \A j \in Jobs : row[j].st = "succeeded" => exit[j] = "zero"

\* A row that has ended changes again only by a call that was under way when it
\* ended: it runs again only by the start request that a cancel or the
\* completion overtook, it fails by a start that failed or by a completion that
\* had read the row, and it succeeds by such a completion of a cancelled job.
EndedKept ==
  \A j \in Jobs :
    IsTerminal(row[j]) /\ row'[j].st # row[j].st =>
      /\ row'[j].st = "running" => row[j].st # "succeeded" /\ enq[j] = "started"
      /\ row'[j].st = "failed" => enq[j] = "startFailed" \/ sup[j].pc = "update"
      /\ row'[j].st = "succeeded" =>
           row[j].st = "cancelled" /\ sup[j].pc = "update"

EndedChangesOnlyUnderWay == [][EndedKept]_vars

\* A webhook goes out only for an outcome that was persisted first, and a
\* success it announced stays on the row unless a cancel overwrites it.
WebhookAgreesWithRow ==
  \A j \in Jobs :
    /\ posted[j] # "none" => j \in settled
    /\ posted[j] = "succeeded" => row[j].st \in {"succeeded", "cancelled"}

\* However often a delivery is tried again, a receiver never hears of a job first
\* one outcome and then another, also when a cancel overwrites the row meanwhile.
HearsOneOutcome ==
  [][\A j \in Jobs : posted[j] # "none" => posted'[j] = posted[j]]_vars

\* While docker commands answer, the secrets of a job that is running, as its
\* row and its container both say, stay mounted: no clean-up and no start-up
\* sweep removes them.
RunningKeepsSecrets ==
  "docker" \notin faulty =>
    \A j \in Jobs :
      row[j].st = "running" /\ cont[j] = "up" => j \in secrets

\* While the database and the disk answer and requests are served, a secrets
\* directory belongs to a container that is being started, whose start is being
\* undone, that is supervised, or that was found alive by the last start-up.
NoStraySecrets ==
  "db" \notin faulty /\ "disk" \notin faulty /\ srv \in {"up", "draining"} =>
    \A j \in Jobs :
      j \in secrets =>
        \/ enq[j] \in {"prepared", "runFailed", "emptied", "runCut", "emptiedCut"}
        \/ sup[j].pc \in {"wait", "collect", "clean", "rmWorkspace", "rmSecrets"}
        \/ j \in adopted

\* While the database answers and requests are served, a running row has a
\* supervisor that saw or will see its container exit, or a container the last
\* start-up found alive.
RunningIsWatched ==
  "db" \notin faulty /\ srv \in {"up", "draining"} =>
    \A j \in Jobs :
      row[j].st = "running" => sup[j].pc \notin {"none", "lost"} \/ j \in adopted

\* Where docker kill works and clients stay, a cancel that read a running row has
\* stopped the container by the time the row says cancelled, and nothing revives
\* it.
CancelledIsStopped ==
  "docker" \notin faulty /\ "disconnect" \notin faulty =>
    \A j \in Jobs : row[j] = [st |-> "cancelled", cid |-> TRUE] => cont[j] # "up"

\* Until the process first stops, and if no write fails, a job whose request
\* ended with the row still queued holds no container and no directory.
QueuedHoldsNothing ==
  "db" \notin faulty /\ "disconnect" \notin faulty /\ stops = 0 =>
    \A j \in Jobs :
      row[j].st = "queued" /\ enq[j] = "done" =>
        cont[j] = "none" /\ j \notin secrets /\ j \notin workspace

------------------------------------------------------------------------------
(* The inductive strengthening of the safety properties. *)

\* The outcome a completion writes, and announces, is one of the two.
OutcomeKnown ==
  \A j \in Jobs :
    sup[j].pc \in {"update", "hook"} => sup[j].job.st \in {"succeeded", "failed"}

\* A supervisor has a container.
SupervisedStarted ==
  \A j \in Jobs : sup[j].pc \notin {"none", "lost", "done"} => cont[j] # "none"

\* The row is there before anything is done for the job, and its endings are
\* remembered.
RowsTracked ==
  \A j \in Jobs :
    /\ enq[j] \notin {"idle", "done"} \/ cnl[j] # "idle" \/ cont[j] # "none" =>
         row[j].st # "none"
    /\ row[j].st # "none" => enq[j] # "idle"
    /\ row[j].st \in Terminal => j \in settled

\* The supervisor starts with the container, before the enqueue request marks
\* the job running.
RunningSupervised ==
  \A j \in Jobs :
    /\ enq[j] \notin {"started", "done"} => sup[j].pc = "none"
    /\ enq[j] = "started" \/ row[j].st = "running" => sup[j].pc # "none"

\* Jobs past the check of the user's cap, and past the check of the global cap.
PastUserCap(j) ==
  \/ enq[j] \notin {"idle", "created", "done"}
  \/ cont[j] # "none"

PastCaps(j) ==
  \/ enq[j] \notin {"idle", "created", "userOk", "done"}
  \/ cont[j] # "none"

UserAdmitted(u) ==
  {j \in Jobs : Owner[j] = u /\ PastUserCap(j) /\ j \notin settled}

Admitted == {j \in Jobs : PastCaps(j) /\ j \notin settled}

\* The jobs a check admitted and that have stayed active since all counted when
\* the last of them was admitted.
SlotsHold ==
  /\ MaxPerUser > 0 =>
       \A u \in Users : Cardinality(UserAdmitted(u)) <= MaxPerUser
  /\ MaxGlobal > 0 => Cardinality(Admitted) <= MaxGlobal

\* Goroutines exist only in a process that has started up, and the start-up
\* loop looks at running rows only.
StartAlone ==
  /\ srv \in {"down", "reattach", "sweep"} =>
       \A j \in Jobs : /\ enq[j] \in {"idle", "done"}
                       /\ cnl[j] = "idle"
                       /\ sup[j].pc \in {"none", "done", "lost"}
  /\ todo # {} => srv = "reattach"
  /\ \A j \in todo : row[j].st = "running"

\* A row says running or succeeded, or is about to, only when the enqueue
\* request is over, so that only a cancel can come before the success; and it
\* says succeeded only when the supervisor has reported.
SuccessIsLast ==
  \A j \in Jobs :
    /\ row[j].st \in {"running", "succeeded"} => enq[j] = "done"
    /\ sup[j].pc = "update" /\ sup[j].job.st = "succeeded" =>
         enq[j] = "done" /\ row[j].st \in {"running", "cancelled"}
    /\ row[j].st = "succeeded" => sup[j].pc \in {"hook", "done", "lost"}

\* Deliveries are counted from the first attempt to the last.
AttemptsCounted ==
  \A j \in Jobs :
    /\ sup[j].pc \notin {"hook", "done", "lost"} => tries[j] = 0
    /\ sup[j].pc = "hook" => tries[j] < MaxAttempts

\* What is announced was written first, and a success that is announced is
\* overwritten by a cancel at most.
AnnouncedWasWritten ==
  \A j \in Jobs :
    /\ posted[j] # "none" => sup[j].pc \in {"hook", "done", "lost"}
    /\ posted[j] # "none" /\ sup[j].pc = "hook" => posted[j] = sup[j].job.st
    /\ posted[j] # "none" \/ sup[j].pc = "hook" => j \in settled
    /\ \/ posted[j] = "succeeded"
       \/ sup[j].pc = "hook" /\ sup[j].job.st = "succeeded"
       => enq[j] = "done" /\ row[j].st \in {"succeeded", "cancelled"}

\* A container that has exited with 0 stays that way on its way to a success.
ExitSeen ==
  "docker" \notin faulty =>
    \A j \in Jobs :
      /\ sup[j].pc = "collect" /\ sup[j].code # "timeout" => cont[j] = "exited"
      /\ \/ /\ sup[j].pc \in {"clean", "rmWorkspace", "rmSecrets", "report"}
            /\ sup[j].code = "zero"
         \/ sup[j].pc = "update" /\ sup[j].job.st = "succeeded"
         \/ row[j].st = "succeeded"
         => cont[j] \in {"exited", "gone"} /\ exit[j] = "zero"

\* A container id is recorded by the last write of the enqueue request, and a
\* cancel that saw it stops the container before it writes.
StoppedFirst ==
  /\ \A j \in Jobs :
       \/ row[j].cid
       \/ cnl[j] \in {"stopping", "writingStarted"}
       \/ sup[j].pc \in {"update", "hook"} /\ sup[j].job.cid
       => enq[j] = "done"
  /\ "docker" \notin faulty /\ "disconnect" \notin faulty =>
       \A j \in Jobs :
         cnl[j] = "writingStarted" \/ row[j] = [st |-> "cancelled", cid |-> TRUE]
           => cont[j] # "up"

\* Secrets are there from the start of the container until it is removed.
SecretsHeld ==
  /\ \A j \in Jobs : enq[j] = "prepared" => j \in secrets
  /\ \A j \in Jobs : sup[j].pc = "lost" => enq[j] = "done"
  /\ "docker" \notin faulty =>
       \A j \in Jobs :
         /\ sup[j].pc \in {"wait", "collect", "clean"} => j \in secrets
         /\ sup[j].pc \in {"rmWorkspace", "rmSecrets", "report", "update", "hook", "done"}
              => cont[j] # "up"
         /\ row[j].st = "running" /\ cont[j] = "up" => j \in secrets

\* The start-up loop accounts for every running row.
RowsWatched ==
  "db" \notin faulty =>
    /\ srv = "reattach" => RunningRows \subseteq (todo \cup adopted)
    /\ srv = "sweep" => RunningRows \subseteq adopted
    /\ RunningIsWatched

\* Before anything stopped or failed to be written, only a request past its
\* preparation holds anything.
PreparedHolds ==
  /\ srv = "draining" => stops > 0
  /\ \A j \in Jobs : enq[j] \in {"runCut", "emptiedCut"} => "disconnect" \in faulty
  /\ "db" \notin faulty /\ "disconnect" \notin faulty /\ stops = 0 =>
       \A j \in Jobs :
         \/ enq[j] \in {"idle", "created", "userOk", "capsOk", "ready"}
         \/ row[j].st = "queued" /\ enq[j] = "done"
         => cont[j] = "none" /\ j \notin secrets /\ j \notin workspace

IInv ==
  /\ TypeOK
  /\ OutcomeKnown
  /\ SupervisedStarted
  /\ RowsTracked
  /\ RunningSupervised
  /\ SlotsHold
  /\ StartAlone
  /\ SuccessIsLast
  /\ AttemptsCounted
  /\ AnnouncedWasWritten
  /\ ExitSeen
  /\ StoppedFirst
  /\ SecretsHeld
  /\ RowsWatched
  /\ NoStraySecrets
  /\ PreparedHolds

------------------------------------------------------------------------------
(* Liveness, under Fairness. *)

\* If no write fails, a job that passes the caps and gets its credentials does
\* not stay queued, also when the directories or the container cannot be made.
AdmittedLeavesQueue ==
  "db" \notin faulty /\ "disconnect" \notin faulty =>
    \A j \in Jobs : enq[j] = "ready" ~> row[j].st # "queued" \/ srv = "down"

\* The supervisor of a job comes to its end, whatever fails, whether or not its
\* process exits by itself and a receiver ever accepts the webhook.  While docker
\* and the disk answer, it removes the container with its directories, unless the
\* process stops.
SupervisionEnds ==
  \A j \in Jobs :
    /\ sup[j].pc = "wait" ~> sup[j].pc \in {"done", "lost"}
    /\ "docker" \notin faulty /\ "disk" \notin faulty =>
         sup[j].pc = "wait" ~>
           \/ cont[j] = "gone" /\ j \notin secrets /\ j \notin workspace
           \/ srv = "down"

------------------------------------------------------------------------------
(* What a client sees: the board this specification implements. *)

\* The report of a job is open until its supervisor has written the outcome or
\* can no longer do so.
ReportOf(j) ==
  IF sup[j].pc = "hook" THEN sup[j].job.st
  ELSE IF sup[j].pc \in {"done", "lost"} THEN "closed"
  ELSE "open"

Board == INSTANCE JobBoard
  WITH status <- [j \in Jobs |-> row[j].st],
       starting <- {j \in Jobs : enq[j] \notin {"idle", "done"}},
       report <- [j \in Jobs |-> ReportOf(j)]

\* Through every interleaving of requests, supervisors and restarts, a client
\* sees a job started at most once, reported at most once and given up only when
\* no report can come, with announcements that match the report.
BoardSpec == Board!Spec

------------------------------------------------------------------------------
(* What the repository says and the code does not do. *)

\* cmd/agentic-delegator/main.go:199 "drain in-flight requests before exiting".
DrainsBeforeExit ==
  [][srv = "draining" /\ srv' = "down" =>
       \A j \in Jobs : enq[j] \in {"idle", "done"} /\ cnl[j] = "idle"]_vars

\* docs/design/2026-05-21-mvp-design.md:260: when the container has exited,
\* HandleRunnerCompletion updates the job's status.
ExitEndsJob == \A j \in Jobs : cont[j] = "exited" ~> IsTerminal(row[j])
=============================================================================
