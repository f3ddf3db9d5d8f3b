--------------------------------- MODULE Job ---------------------------------
(***************************************************************************)
(* The domain entity Job (core/domain/job.go): its statuses, and the       *)
(* transition methods as operators on a job value.  A job value keeps the  *)
(* two fields the other components branch on, the status and whether a     *)
(* container id is recorded; the descriptive fields are abstracted.        *)
(*                                                                         *)
(* A method that returns ErrInvalidState is an operator CanMarkX that is   *)
(* FALSE; MarkX is the value the method leaves behind when it returns nil. *)
(***************************************************************************)

Active == {"queued", "running"}

Terminal == {"succeeded", "failed", "cancelled"}

Status == Active \cup Terminal

\* A row that was never inserted.
NoRow == [st |-> "none", cid |-> FALSE]

Rows == [st : Status \cup {"none"}, cid : BOOLEAN]

NewJob == [st |-> "queued", cid |-> FALSE]

IsTerminal(job) == job.st \in Terminal

CanMarkRunning(job) == job.st = "queued"

MarkRunning(job) == [st |-> "running", cid |-> TRUE]

\* Mutant: any job that has not ended may succeed.
BugCanMarkSucceeded(job) == ~IsTerminal(job)

CanMarkSucceeded(job) == job.st = "running"

MarkSucceeded(job) == [job EXCEPT !.st = "succeeded"]

CanMarkFailed(job) == ~IsTerminal(job)

MarkFailed(job) == [job EXCEPT !.st = "failed"]

CanMarkCancelled(job) == job.st \in Active

MarkCancelled(job) == [job EXCEPT !.st = "cancelled"]

=============================================================================
