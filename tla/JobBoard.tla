------------------------------- MODULE JobBoard -------------------------------
(***************************************************************************)
(* What a client of the orchestrator may rely on when it reads the status  *)
(* of its jobs and receives their completion webhooks, whatever happens in *)
(* between: the statuses of core/domain/job.go as rows show them, without  *)
(* containers, requests, supervisors or restarts.                          *)
(*                                                                         *)
(* A job has one request that starts it and one report of its outcome.     *)
(* Each writes the status at most once, either may come first, and either  *)
(* may be lost.  A job may be cancelled at any time.                       *)
(***************************************************************************)
EXTENDS Job

CONSTANT Jobs

VARIABLES
  status,    \* the status each row shows; "none" before it is inserted
  starting,  \* jobs whose request has not ended
  report,    \* open, then the outcome that is to be announced, then closed
  posted     \* the outcome that was announced

boardVars == <<status, starting, report, posted>>

Outcomes == {"succeeded", "failed"}

Init ==
  /\ status = [j \in Jobs |-> "none"]
  /\ starting = {}
  /\ report = [j \in Jobs |-> "open"]
  /\ posted = [j \in Jobs |-> "none"]

Set(j, st) == status' = [status EXCEPT ![j] = st]

\* The request may end with the row inserted and nothing more.
Submit(j) ==
  /\ status[j] = "none"
  /\ Set(j, "queued")
  /\ starting' \in {starting, starting \cup {j}}
  /\ UNCHANGED <<report, posted>>

\* The request's last write.
Start(j) ==
  /\ j \in starting
  /\ \/ Set(j, "running")
     \/ Set(j, "failed")
  /\ starting' = starting \ {j}
  /\ UNCHANGED <<report, posted>>

\* A success is reported only for a job whose request is over; the outcome may
\* be written and yet never announced.
Report(j) ==
  /\ report[j] = "open"
  /\ status[j] # "none"
  /\ \E o \in Outcomes :
       /\ o = "succeeded" => j \notin starting
       /\ Set(j, o)
       /\ report' \in {[report EXCEPT ![j] = o], [report EXCEPT ![j] = "closed"]}
  /\ UNCHANGED <<starting, posted>>

\* An announcement may be repeated before it is over.
Announce(j) ==
  /\ report[j] \in Outcomes
  /\ posted' = [posted EXCEPT ![j] = report[j]]
  /\ report' \in {report, [report EXCEPT ![j] = "closed"]}
  /\ UNCHANGED <<status, starting>>

\* Start-up gives a running job up only when its outcome can no longer be
\* reported.
Abandon(j) ==
  /\ status[j] = "running"
  /\ j \notin starting
  /\ report[j] = "closed"
  /\ Set(j, "failed")
  /\ UNCHANGED <<starting, report, posted>>

Cancel(j) ==
  /\ status[j] # "none"
  /\ Set(j, "cancelled")
  /\ UNCHANGED <<starting, report, posted>>

\* Requests end early, and reports are lost, also several at a time.
Lose ==
  /\ starting' \in SUBSET starting
  /\ report' \in [Jobs -> {"open", "closed"} \cup Outcomes]
  /\ \A j \in Jobs : report'[j] \in {report[j], "closed"}
  /\ UNCHANGED <<status, posted>>

Next ==
  \/ \E j \in Jobs :
       Submit(j) \/ Start(j) \/ Report(j) \/ Announce(j) \/ Abandon(j) \/ Cancel(j)
  \/ Lose

Spec == Init /\ [][Next]_boardVars

=============================================================================
