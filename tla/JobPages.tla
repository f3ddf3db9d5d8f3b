------------------------------- MODULE JobPages -------------------------------
(***************************************************************************)
(* What users are shown of their jobs: the lists of jobs, a job's status   *)
(* page with the end of its log, and the poll that keeps the log of an     *)
(* open page up to date, beside the supervisor that writes the log.        *)
(*                                                                         *)
(* The table holds the jobs in the order of their creation.  The first has *)
(* its supervisor modelled, as far as the log is concerned: how its steps  *)
(* race with enqueue, cancel and restarts is the subject of JobLifecycle.  *)
(* One browser looks on; a request's database call and its reads of the    *)
(* file are steps of their own.                                            *)
(***************************************************************************)
EXTENDS Integers, FiniteSets, SequencesExt

CONSTANTS
  Users, NoOne,
  Owner,         \* of the first job
  Paths,         \* paths of log files
  Derived,       \* the one that EnqueueJob derives from LogDir and the job's id
  NoPath,        \* the empty path
  LogPaths,      \* what callers of EnqueueJob pass for LogPath
  MaxLogBytes,   \* maxLogReadBytes
  MaxLines,      \* the lines of a log page
  TailBytes,     \* logTailBytes
  DefaultLimit,  \* the jobs of a list for which no limit is given
  Limits,        \* limits given to ListJobs; 0 for none, and a client may send a negative one
  MaxJobs,       \* bound: jobs in the table
  MaxOutput,     \* bound: bytes a container writes
  Faults         \* a subset of AllFaults: the calls that may fail

AllFaults == {"db", "log"}

ASSUME NamesAssumption ==
  /\ Owner \in Users /\ NoOne \notin Users
  /\ Derived \in Paths /\ NoPath \notin Paths
  /\ LogPaths \subseteq Paths \cup {NoPath}
ASSUME SizesAssumption ==
  /\ {MaxLogBytes, MaxLines, TailBytes, DefaultLimit} \subseteq Nat \ {0}
  /\ Limits \subseteq Int /\ MaxJobs \in Nat /\ MaxOutput \in Nat
ASSUME FaultsAssumption == Faults \subseteq AllFaults

VARIABLES
  table,    \* the table of jobs, oldest first
  run,      \* the first job's supervisor and what its container wrote
  files,    \* the log files
  req,      \* the browser's request
  page,     \* what the browser shows
  faulty    \* the kinds of call that fail now and then in this behaviour

vars == <<table, run, files, req, page, faulty>>

Active == {"queued", "running"}
Ended == {"succeeded", "failed"}
Terminal == Ended \cup {"cancelled"}

\* A log is made of newlines and of anything else.
Texts == Seq({"nl", "x"})
Absent == <<"absent">>

Rows == [user : Users, st : Active \cup Terminal, log : Paths]

NoRun == [pc |-> "none", path |-> NoPath, out |-> <<>>, tail |-> <<>>]
NoReq == [pc |-> "idle", path |-> NoPath, from |-> 0]
Blank == [kind |-> "none", user |-> NoOne, st |-> "queued",
          text |-> <<>>, upTo |-> 0, ids |-> <<>>, limit |-> 0]

TypeOK ==
  /\ table \in Seq(Rows) /\ Len(table) <= MaxJobs
  /\ run \in [pc : {"none", "wait", "open", "copy", "collect", "report", "done", "lost"},
              path : Paths \cup {NoPath}, out : Texts, tail : Texts]
  /\ files \in [Paths -> Texts \cup {Absent}]
  /\ req \in [pc : {"idle", "open", "read"}, path : Paths \cup {NoPath},
              from : 0 .. MaxOutput]
  /\ page \in [kind : {"none", "refused", "job", "json", "list"},
               user : Users \cup {NoOne}, st : Active \cup Terminal,
               text : Texts, upTo : 0 .. MaxOutput,
               ids : Seq(1 .. MaxJobs), limit : Limits \cup {0}]
  /\ faulty \subseteq Faults

Init ==
  /\ table = <<>>
  /\ run = NoRun
  /\ files = [p \in Paths |-> Absent]
  /\ req = NoReq
  /\ page = Blank
  /\ faulty \in SUBSET Faults

------------------------------------------------------------------------------
(* Jobs come and go. *)

\* EnqueueJob.Execute up to Jobs.Create: the row gets the path of the caller or the
\* derived one.  Jobs but the first come over HTTP, where none is passed.
Create(u, p) ==
  /\ Len(table) < MaxJobs
  /\ table' = Append(table, [user |-> u, st |-> "queued",
                            log |-> IF p = NoPath THEN Derived ELSE p])
  /\ \/ table = <<>> /\ u = Owner /\ run' = [run EXCEPT !.path = p]
     \/ table # <<>> /\ p = NoPath /\ UNCHANGED run
  /\ UNCHANGED <<files, req, page, faulty>>

Status == table[1].st

Marked(st) == table' = [table EXCEPT ![1].st = st]

\* Runner.Start with the path of the caller, then MarkRunning; or MarkFailed.
Start ==
  /\ table # <<>>
  /\ run.pc = "none"
  /\ Status = "queued"
  /\ \/ Marked("running") /\ run' = [run EXCEPT !.pc = "wait"]
     \/ Marked("failed") /\ UNCHANGED run
  /\ UNCHANGED <<files, req, page, faulty>>

\* CancelJob.
Cancel ==
  /\ table # <<>>
  /\ Status \in Active
  /\ Marked("cancelled")
  /\ UNCHANGED <<run, files, req, page, faulty>>

\* The process stops: the supervisor and the request are gone, the page stays in
\* the browser.  At the next start a running job fails unless its container is up.
\* A stop without a supervisor would only lose the request.
Restart ==
  /\ run.pc \notin {"none", "done", "lost"}
  /\ run' = [run EXCEPT !.pc = "lost"]
  /\ req' = NoReq
  /\ \/ Status = "running" /\ Marked("failed")
     \/ UNCHANGED table
  /\ UNCHANGED <<files, page, faulty>>

------------------------------------------------------------------------------
(* Runner.supervise, as far as the log goes. *)

\* docker wait returns, or the time is up and the container is killed.
ContainerEnds ==
  /\ run.pc = "wait"
  /\ \E o \in BoundedSeq({"nl", "x"}, MaxOutput) :
       run' = [run EXCEPT !.pc = "open", !.out = o]
  /\ UNCHANGED <<table, files, req, page, faulty>>

\* os.OpenFile, which creates or truncates; its error leaves the log out.
OpenLog ==
  /\ run.pc = "open"
  /\ \/ /\ run.path \in Paths
        /\ files' = [files EXCEPT ![run.path] = <<>>]
        /\ run' = [run EXCEPT !.pc = "copy"]
     \/ /\ run.path = NoPath \/ "log" \in faulty
        /\ run' = [run EXCEPT !.pc = "collect"]
        /\ UNCHANGED files
  /\ UNCHANGED <<table, req, page, faulty>>

\* docker logs writes the file piece by piece, to the end unless it fails.
CopyLog ==
  /\ run.pc = "copy"
  /\ \E n \in Len(files[run.path]) + 1 .. Len(run.out) :
       files' = [files EXCEPT ![run.path] = SubSeq(run.out, 1, n)]
  /\ UNCHANGED <<table, run, req, page, faulty>>

\* Mutant: the supervisor goes on while docker logs is still writing.
BugCopied == TRUE

\* logsCmd.Run returns; its error is ignored.
Copied == files[run.path] = run.out \/ "log" \in faulty

CopyEnds ==
  /\ run.pc = "copy"
  /\ Copied
  /\ run' = [run EXCEPT !.pc = "collect"]
  /\ UNCHANGED <<table, files, req, page, faulty>>

LastOf(s, n) == IF Len(s) <= n THEN s ELSE SubSeq(s, Len(s) - n + 1, Len(s))

Newlines(s) == {i \in 1 .. Len(s) : s[i] = "nl"}

\* Mutant: the newline at the very end counts.
BugAfterNewline(b) ==
  IF Newlines(b) = {} THEN b ELSE SubSeq(b, Min(Newlines(b)) + 1, Len(b))

\* What follows the first newline, if there is one and something follows it.
AfterNewline(b) ==
  IF Newlines(b) = {} \/ Min(Newlines(b)) = Len(b) THEN b
  ELSE SubSeq(b, Min(Newlines(b)) + 1, Len(b))

TailFile(p) ==
  IF p = NoPath \/ files[p] = Absent THEN <<>>
  ELSE IF Len(files[p]) > TailBytes THEN AfterNewline(LastOf(files[p], TailBytes))
       ELSE files[p]

\* The end of the log for the completion webhook.
Collect ==
  /\ run.pc = "collect"
  /\ run' = [run EXCEPT !.pc = "report", !.tail = TailFile(run.path)]
  /\ UNCHANGED <<table, files, req, page, faulty>>

\* HandleRunnerCompletion; a job that has ended otherwise stays as it is.
Report ==
  /\ run.pc = "report"
  /\ \/ Status = "running" /\ (Marked("succeeded") \/ Marked("failed"))
     \/ /\ Status # "running" \/ "db" \in faulty
        /\ UNCHANGED table
  /\ run' = [run EXCEPT !.pc = "done"]
  /\ UNCHANGED <<files, req, page, faulty>>

Supervise ==
  ContainerEnds \/ OpenLog \/ CopyLog \/ CopyEnds \/ Collect \/ Report

------------------------------------------------------------------------------
(* Requests. *)

Refused == [Blank EXCEPT !.kind = "refused"]

\* Mutant: the row is found by its id alone.
BugGetForUser(u) == table # <<>>

\* JobsRepo.GetForUser finds the first job.
GetForUser(u) == table # <<>> /\ table[1].user = u

\* A page that follows from the row alone.
Shown(u, kind) == [Blank EXCEPT !.kind = kind, !.user = u, !.st = Status]

\* JobsHandler.GetJob answers with the row.
GetJob(u) ==
  /\ req.pc = "idle"
  /\ \/ GetForUser(u) /\ page' = Shown(u, "json")
     \/ (~GetForUser(u) \/ "db" \in faulty) /\ page' = Refused
  /\ UNCHANGED <<table, run, files, req, faulty>>

\* StatusPage.Render goes on with the log; after any error it answers 404.
Render(u) ==
  /\ req.pc = "idle"
  /\ \/ /\ GetForUser(u)
        /\ page' = Shown(u, "none")
        /\ req' = [NoReq EXCEPT !.pc = "open", !.path = table[1].log]
     \/ /\ ~GetForUser(u) \/ "db" \in faulty
        /\ page' = Refused
        /\ UNCHANGED req
  /\ UNCHANGED <<table, run, files, faulty>>

\* logRefreshTrigger is rendered with the page and stays as it was then.
Polls == page.kind = "job" /\ page.st \in Active

\* StatusPage.LogTail; an answer other than 200 is not swapped in.
Poll ==
  /\ req.pc = "idle"
  /\ Polls
  /\ \/ /\ GetForUser(page.user)
        /\ req' = [NoReq EXCEPT !.pc = "open", !.path = table[1].log]
     \/ "db" \in faulty /\ UNCHANGED req
  /\ UNCHANGED <<table, run, files, page, faulty>>

\* The page with its log, or the log in a page that is open.
Answer(text, n) ==
  /\ page' = [page EXCEPT !.kind = "job", !.text = text, !.upTo = n]
  /\ req' = NoReq

\* Mutant: the size is not compared with the bound.
BugOffset(size) == size - MaxLogBytes

\* Where the read begins.
Offset(size) == IF size > MaxLogBytes THEN size - MaxLogBytes ELSE 0

\* readLogTail: os.Open, Stat and Seek.  Without the file there is no text; an error
\* of the other two is ignored, and all of the file is read.
OpenTail ==
  /\ req.pc = "open"
  /\ \/ /\ files[req.path] # Absent
        /\ \E n \in {0, Offset(Len(files[req.path]))} :
             /\ n = Offset(Len(files[req.path])) \/ "log" \in faulty
             /\ req' = [req EXCEPT !.pc = "read", !.from = n]
        /\ UNCHANGED page
     \/ /\ files[req.path] = Absent \/ "log" \in faulty
        /\ Answer(<<>>, 0)
  /\ UNCHANGED <<table, run, files, faulty>>

\* splitLines has read a byte: a newline ends the line.
SplitStep(a, c) ==
  IF c = "nl" THEN [out |-> Append(a.out, a.cur), cur |-> <<>>]
  ELSE [a EXCEPT !.cur = Append(@, c)]

\* What it has at the end, the lines and what came after the last newline.
Scan(s) == FoldLeft(SplitStep, [out |-> <<>>, cur |-> <<>>], s)

\* Mutant: a last line without a newline is left out.
BugSplitLines(s) == Scan(s).out

SplitLines(s) ==
  IF Scan(s).cur # <<>> THEN Append(Scan(s).out, Scan(s).cur) ELSE Scan(s).out

JoinStep(a, l) == a \o <<"nl">> \o l

JoinLines(ls) == IF ls = <<>> THEN <<>> ELSE FoldLeft(JoinStep, Head(ls), Tail(ls))

\* readLogTail: all from there to the end, and of that the last lines.  What was
\* appended since OpenTail is read as well.  An error of io.ReadAll leaves no text.
ReadTail ==
  /\ req.pc = "read"
  /\ LET log == files[req.path]
         lines == SplitLines(SubSeq(log, req.from + 1, Len(log)))
     IN \/ Answer(JoinLines(LastOf(lines, MaxLines)), Len(log))
        \/ "log" \in faulty /\ Answer(<<>>, 0)
  /\ UNCHANGED <<table, run, files, faulty>>

\* Mutant: a negative limit is passed on, and the query has none then.
BugLimit(n) == IF n = 0 THEN DefaultLimit ELSE n

\* JobsHandler.ListJobs and ListJobs.Execute put the default for one that is
\* not positive.
Limit(n) == IF n <= 0 THEN DefaultLimit ELSE n

\* JobsRepo.ListForUser: the user's jobs by their time of creation, the last first.
OwnJobs(u) ==
  FoldLeft(LAMBDA a, i : IF table[i].user = u THEN <<i>> \o a ELSE a,
           <<>>, [i \in 1 .. Len(table) |-> i])

ListForUser(u, n) ==
  IF n > 0 /\ n < Len(OwnJobs(u)) THEN SubSeq(OwnJobs(u), 1, n) ELSE OwnJobs(u)

\* JobsHandler.ListJobs answers with such a list; an error is 500.
ListJobs(u, n) ==
  /\ req.pc = "idle"
  /\ \/ page' = [Blank EXCEPT !.kind = "list", !.user = u, !.limit = n,
                              !.ids = ListForUser(u, Limit(n))]
     \/ "db" \in faulty /\ page' = Refused
  /\ UNCHANGED <<table, run, files, req, faulty>>

\* DashboardHandler.Dashboard gives no limit.
Dashboard(u) == ListJobs(u, 0)

\* What goes on without the user.
Refresh == Poll \/ OpenTail \/ ReadTail

Browse ==
  \/ \E u \in Users :
       GetJob(u) \/ Render(u) \/ Dashboard(u) \/ \E n \in Limits : ListJobs(u, n)
  \/ Refresh

Next ==
  \/ \E u \in Users, p \in LogPaths : Create(u, p)
  \/ Start \/ Cancel \/ Restart
  \/ Supervise
  \/ Browse

Spec == Init /\ [][Next]_vars

\* The supervisor is a goroutine that waits for nothing but commands that end, and
\* for the container at most MaxJobDuration; the browser polls every two seconds,
\* and a handler once begun goes on.
Fairness == WF_vars(Supervise) /\ WF_vars(Refresh)

FairSpec == Spec /\ Fairness

------------------------------------------------------------------------------
(* Properties. *)

\* A text is the end of a log: no more than MaxLines lines, without the newline
\* after the last, and neither begun within a line nor with lines to spare unless
\* MaxLogBytes have been read.
IsEndOf(text, log) ==
  LET end == IF log # <<>> /\ Last(log) = "nl" THEN Len(log) - 1 ELSE Len(log)
      lines == Cardinality(Newlines(text)) + 1
  IN \E i \in 1 .. end + 1 :
       /\ text = SubSeq(log, i, end)
       /\ lines <= MaxLines
       /\ \/ i = 1
          \/ log[i - 1] = "nl" /\ lines = MaxLines
          \/ Len(log) - i + 1 >= MaxLogBytes

\* A page shows the end of the log as it was at one moment, although the log
\* grows between the Stat, the Seek and the read of a request.
ShowsEndOfLog ==
  page.kind = "job" => IsEndOf(page.text, SubSeq(run.out, 1, page.upTo))

\* The end of the log that goes out with the webhook is at most TailBytes of what
\* the supervisor wrote, is all of it if it fits, is not empty unless the log is,
\* and begins with a line if there is a place for that.
NoticeIsEnd ==
  run.pc \in {"report", "done"} /\ run.path \in Paths =>
    LET log == IF files[run.path] = Absent THEN <<>> ELSE files[run.path]
        cut == Len(log) - Len(run.tail)
    IN /\ Len(run.tail) <= TailBytes
       /\ run.tail = SubSeq(log, cut + 1, Len(log))
       /\ Len(log) <= TailBytes => cut = 0
       /\ log # <<>> => run.tail # <<>>
       /\ \/ cut = 0 \/ log[cut] = "nl"
          \/ Newlines(run.tail) \subseteq {Len(run.tail)}

\* Whoever is shown a job or finds it in a list owns it, and a list has the latest
\* of the user's jobs in order, up to the limit or to the default.
ShownToOwner(p) ==
  /\ p.kind \in {"job", "json"} => p.user = table[1].user
  /\ p.kind = "list" =>
       LET own == {i \in 1 .. Len(table) : table[i].user = p.user}
           limit == IF p.limit <= 0 THEN DefaultLimit ELSE p.limit
       IN /\ ToSet(p.ids) \subseteq own
          /\ Len(p.ids) = Min({limit, Cardinality(own)})
          /\ \A a, b \in 1 .. Len(p.ids) : a < b => p.ids[a] > p.ids[b]
          /\ \A i \in own \ ToSet(p.ids), k \in ToSet(p.ids) : i < k

OwnJobsOnly == [][page' # page => ShownToOwner(page')]_vars

\* The job on the page has been reported and the page no longer polls: what it
\* calls final stays.
Final == page.kind = "job" /\ page.st \in Ended /\ run.pc = "done"

WholeLog == IsEndOf(page.text, run.out)

\* The outcome is recorded after the log has been written, so a page that shows
\* the outcome and calls its log final shows the end of the whole log, if the
\* caller chose where the log goes.
FinalPageIsWhole ==
  Final /\ faulty = {} /\ table[1].log = run.path => WholeLog

\* The same for every job: domain/job.go has the log path of the row as the
\* "filesystem path the runner streams stdout to".
ReportedLogIsShown == Final /\ faulty = {} => WholeLog

\* A page opened while the job was active goes on polling, and gets to the end of
\* the whole log unless the user leaves it, or the process stops first, also
\* when the job is cancelled meanwhile.
PageCatchesUp ==
  faulty = {} =>
    (Polls /\ run.pc # "none" /\ table[1].log = run.path)
      ~> (run.pc = "lost" \/ ~Polls \/ (run.pc = "done" /\ WholeLog))

------------------------------------------------------------------------------
(* The inductive strengthening of the safety properties. *)

\* The rows: the first has the path its caller gave, its outcome is recorded by the
\* supervisor's last step, or without a supervisor, and it runs when that has begun.
RowsInv ==
  /\ run.pc # "none" => table # <<>>
  /\ table # <<>> =>
       /\ table[1].log = IF run.path = NoPath THEN Derived ELSE run.path
       /\ Status \in Ended => run.pc \in {"none", "lost", "done"}
       /\ IF run.pc = "none" THEN Status # "running" ELSE Status # "queued"

\* The log files: there is none but the one that the supervisor writes, which has the
\* container's output up to some byte, all of it once the supervisor has gone on.
FilesInv ==
  /\ Len(run.out) <= MaxOutput
  /\ \A p \in Paths : files[p] # Absent =>
       /\ p = run.path /\ run.pc \notin {"none", "wait", "open"}
       /\ Len(files[p]) <= Len(run.out)
       /\ files[p] = SubSeq(run.out, 1, Len(files[p]))
  /\ run.pc = "copy" => run.path \in Paths /\ files[run.path] # Absent
  /\ run.pc \in {"collect", "report", "done"} /\ run.path \in Paths /\ faulty = {} =>
       files[run.path] = run.out

\* A request reads the log of the first row for its owner, from a place that the file
\* has and that leaves MaxLogBytes to read.
ReqInv ==
  req.pc # "idle" =>
    /\ table # <<>> /\ req.path = table[1].log
    /\ page.user = table[1].user
    /\ req.pc = "read" =>
         /\ files[req.path] # Absent /\ req.from <= Len(files[req.path])
         /\ req.from = 0 \/ Len(files[req.path]) - req.from >= MaxLogBytes

\* The page is the owner's, an outcome on it is the row's, it shows no more than was
\* written, and all of it if the outcome was there before it read the log.
PageInv ==
  /\ page.kind \in {"job", "json"} => table # <<>> /\ page.user = table[1].user
  /\ page.st \in Ended => table # <<>> /\ Status = page.st
  /\ page.kind = "job" =>
       /\ page.upTo <= Len(run.out)
       /\ run.pc \in {"none", "wait"} => page.upTo = 0
       /\ page.st \in Ended /\ run.pc = "done" /\ run.path \in Paths /\ faulty = {} =>
            page.upTo = Len(run.out)

IInv ==
  /\ TypeOK /\ RowsInv /\ FilesInv /\ ReqInv /\ PageInv
  /\ ShowsEndOfLog /\ NoticeIsEnd

===============================================================================
