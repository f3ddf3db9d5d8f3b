---------------------------- MODULE JobPagesProofs ----------------------------
(***************************************************************************)
(* What users are shown of their jobs, for any tables, logs and limits:    *)
(* the invariants of JobPages and the action property OwnJobsOnly, and     *)
(* that the first job's row behaves as JobBoard has it.                    *)
(***************************************************************************)
EXTENDS JobPagesLemmas

------------------------------------------------------------------------------
(* Texts and rows. *)

\* The beginning of a text.
LEMMA Beginning ==
  ASSUME NEW s \in Texts, NEW n \in 0 .. Len(s)
  PROVE  SubSeq(s, 1, n) \in Texts /\ Len(SubSeq(s, 1, n)) = n
<1>1. s \in Seq(Chars) /\ Len(s) \in Nat /\ Texts = Seq(Chars) /\ n \in Int /\ 1 \in Int
  BY DEF Texts, Chars
<1>2. \A i \in 1 .. n : s[i] \in Chars
  BY <1>1
<1>3. /\ SubSeq(s, 1, n) \in Seq(Chars)
      /\ Len(SubSeq(s, 1, n)) = IF 1 <= n THEN n - 1 + 1 ELSE 0
  BY <1>1, <1>2, SubSeqProperties
<1>4. (IF 1 <= n THEN n - 1 + 1 ELSE 0) = n
  BY <1>1
<1> QED BY <1>1, <1>3, <1>4

\* What a container writes is a text within the bound.
LEMMA OutputType ==
  ASSUME NEW o \in BoundedSeq({"nl", "x"}, MaxOutput)
  PROVE  o \in Texts /\ Len(o) <= MaxOutput
<1>1. PICK m \in 0 .. MaxOutput : o \in [1 .. m -> {"nl", "x"}]
  BY DEF BoundedSeq, SeqOf
<1>2. m \in Nat /\ m <= MaxOutput
  BY SizesAssumption
<1> QED BY <1>1, <1>2, SeqDef DEF Texts

LEMMA NoTexts ==
  /\ Absent \notin Texts /\ <<>> \in Texts /\ Len(<<>>) = 0
  /\ \A s \in Texts : Len(s) \in Nat /\ SubSeq(s, 1, Len(s)) = s /\ SubSeq(s, 1, 0) = <<>>
<1>1. Absent \notin Texts
  <2>1. Absent[1] = "absent" /\ Len(Absent) = 1
    BY DEF Absent
  <2>2. \A s \in Texts : \A i \in 1 .. Len(s) : s[i] \in {"nl", "x"}
    BY DEF Texts
  <2> QED BY <2>1, <2>2
<1> QED BY <1>1, SubSeqFull, SubSeqEmpty DEF Texts

\* An end of a text is a text.
LEMMA EndIsText ==
  ASSUME NEW log \in Texts, NEW text, IsEndOf(text, log)
  PROVE  text \in Texts
<1>1. log \in Seq(Chars) /\ Len(log) \in Nat /\ Texts = Seq(Chars)
  BY DEF Texts, Chars
<1>2. log = <<>> <=> Len(log) = 0
  BY <1>1, EmptySeq
<1>3. EndOf(log) \in 0 .. Len(log)
  BY <1>1, <1>2 DEF EndOf
<1>4. PICK i \in 1 .. EndOf(log) + 1 : text = SubSeq(log, i, EndOf(log))
  BY DEF IsEndOf, EndOf
<1>5. i \in Int /\ EndOf(log) \in Int /\ \A j \in i .. EndOf(log) : log[j] \in Chars
  BY <1>1, <1>3, <1>4
<1> QED BY <1>1, <1>4, <1>5, SubSeqProperties

\* A log without a file shows as nothing, which is its end.
LEMMA NothingIsEnd == IsEndOf(<<>>, <<>>)
<1>1. Newlines(<<>>) = {} /\ Cardinality({}) = 0 /\ MaxLines \in Nat \ {0}
  BY SizesAssumption, FS_EmptySet DEF Newlines
<1>2. SubSeq(<<>>, 1, 0) = <<>> /\ Len(<<>>) = 0
  BY SubSeqEmpty
<1>3. SUFFICES ASSUME NEW log, log = <<>> PROVE IsEndOf(log, log)
  OBVIOUS
<1>4. EndOf(log) = 0 /\ 1 \in 1 .. EndOf(log) + 1
  BY <1>2, <1>3 DEF EndOf
<1> QED BY <1>1, <1>2, <1>3, <1>4 DEF IsEndOf, EndOf

\* Writing a status leaves everything else of the rows.
LEMMA MarkedRow ==
  ASSUME table \in Seq(Rows), table # <<>>, NEW st \in Active \cup Terminal, Marked(st)
  PROVE  /\ table' \in Seq(Rows) /\ Len(table') = Len(table) /\ table' # <<>>
         /\ Status' = st
         /\ table'[1].log = table[1].log /\ table'[1].user = table[1].user
<1> DEFINE row == [table[1] EXCEPT !.st = st]
<1>1. Len(table) \in Nat /\ Len(table) # 0
  BY EmptySeq
<1>2. 1 \in 1 .. Len(table) /\ table[1] \in Rows
  BY <1>1
<1>3. row \in Rows /\ row.st = st /\ row.log = table[1].log /\ row.user = table[1].user
  BY <1>2 DEF Rows
<1>4. table' = [table EXCEPT ![1] = row]
  BY DEF Marked
<1> HIDE DEF row
<1>5. /\ [table EXCEPT ![1] = row] \in Seq(Rows)
      /\ Len([table EXCEPT ![1] = row]) = Len(table)
      /\ [table EXCEPT ![1] = row][1] = row
  BY <1>2, <1>3, ExceptSeq
<1>6. table' # <<>>
  BY <1>1, <1>4, <1>5, NoTexts
<1> QED BY <1>3, <1>4, <1>5, <1>6 DEF Status

LEMMA FirstRow ==
  ASSUME table \in Seq(Rows), table # <<>>
  PROVE  table[1] \in Rows /\ Status \in Active \cup Terminal
         /\ table[1].log \in Paths /\ table[1].user \in Users
<1>1. Len(table) \in Nat /\ Len(table) # 0
  BY EmptySeq
<1>2. table[1] \in Rows
  BY <1>1
<1> QED BY <1>2 DEF Rows, Status

------------------------------------------------------------------------------
(* Each step keeps the invariant. *)

LEMMA InitInv == Init => IInv
<1> SUFFICES ASSUME Init PROVE IInv
  OBVIOUS
<1>1. /\ MaxOutput \in Nat /\ MaxJobs \in Nat /\ 0 \in 0 .. MaxOutput
      /\ <<>> \in Texts /\ Len(<<>>) = 0 /\ <<>> \in Seq(Rows) /\ <<>> \in Seq(1 .. MaxJobs)
  BY SizesAssumption, NoTexts
<1>2. TypeOK
  BY <1>1 DEF Init, TypeOK, NoRun, NoReq, Blank, Active
<1>3. RowsInv
  BY DEF Init, RowsInv, NoRun
<1>4. FilesInv
  BY <1>1 DEF Init, FilesInv, NoRun
<1>5. ReqInv /\ PageInv /\ ShowsEndOfLog /\ NoticeIsEnd
  BY DEF Init, ReqInv, PageInv, ShowsEndOfLog, NoticeIsEnd, NoReq, NoRun, Blank, Ended
<1> QED BY <1>2, <1>3, <1>4, <1>5 DEF IInv

LEMMA CreateInv ==
  ASSUME IInv, NEW u \in Users, NEW p \in LogPaths, Create(u, p)
  PROVE  IInv'
<1> DEFINE row == [user |-> u, st |-> "queued", log |-> IF p = NoPath THEN Derived ELSE p]
<1>1. TypeOK /\ RowsInv /\ FilesInv /\ ReqInv /\ PageInv /\ ShowsEndOfLog /\ NoticeIsEnd
  BY DEF IInv
<1>2. row \in Rows /\ p \in Paths \cup {NoPath}
  BY NamesAssumption DEF Rows, Active
<1>3. table \in Seq(Rows) /\ Len(table) \in Nat /\ Len(table) < MaxJobs /\ table' = Append(table, row)
  BY <1>1 DEF TypeOK, Create
<1>4. /\ table' \in Seq(Rows) /\ table' # <<>> /\ Len(table') = Len(table) + 1
      /\ \A i \in 1 .. Len(table) : table'[i] = table[i]
      /\ table'[Len(table) + 1] = row
  <2> HIDE DEF row
  <2> QED BY <1>2, <1>3, AppendProperties
<1>5. Len(table') <= MaxJobs
  BY <1>3, <1>4, SizesAssumption
<1> HIDE DEF row
<1>6. CASE table = <<>>
  <2>1. table'[1] = row /\ run' = [run EXCEPT !.path = p]
    BY <1>4, <1>6, NoTexts DEF Create
  <2>2. UNCHANGED <<files, req, page, faulty>>
    BY DEF Create
  <2>3. run.pc = "none" /\ req.pc = "idle" /\ page.kind \notin {"job", "json"} /\ page.st \notin Ended
    BY <1>1, <1>6 DEF RowsInv, ReqInv, PageInv
  <2>4. /\ run' \in [pc : {"none", "wait", "open", "copy", "collect", "report", "done", "lost"},
                     path : Paths \cup {NoPath}, out : Texts, tail : Texts]
        /\ run'.pc = "none" /\ run'.path = p /\ run'.out = run.out
    BY <1>1, <1>2, <2>1, <2>3 DEF TypeOK
  <2>5. TypeOK'
    BY <1>1, <1>4, <1>5, <2>2, <2>4 DEF TypeOK
  <2>6. RowsInv'
    BY <1>4, <2>1, <2>4 DEF RowsInv, row, Status, Ended
  <2>7. FilesInv'
    BY <1>1, <2>2, <2>3, <2>4 DEF FilesInv
  <2>8. ReqInv' /\ PageInv' /\ ShowsEndOfLog' /\ NoticeIsEnd'
    BY <2>2, <2>3, <2>4 DEF ReqInv, PageInv, ShowsEndOfLog, NoticeIsEnd
  <2> QED BY <2>5, <2>6, <2>7, <2>8 DEF IInv
<1>7. CASE table # <<>>
  <2>1. UNCHANGED <<run, files, req, page, faulty>>
    BY <1>7 DEF Create
  <2>2. table'[1] = table[1] /\ Status' = Status
    <3>1. Len(table) # 0
      BY <1>3, <1>7, EmptySeq
    <3>2. 1 \in 1 .. Len(table)
      BY <1>3, <3>1
    <3> QED BY <1>4, <3>2 DEF Status
  <2>3. TypeOK'
    BY <1>1, <1>4, <1>5, <2>1 DEF TypeOK
  <2>4. RowsInv'
    BY <1>1, <1>4, <1>7, <2>1, <2>2 DEF RowsInv
  <2>5. FilesInv'
    BY <1>1, <2>1 DEF FilesInv
  <2>6. ReqInv' /\ PageInv'
    BY <1>1, <1>4, <1>7, <2>1, <2>2 DEF ReqInv, PageInv
  <2>7. ShowsEndOfLog' /\ NoticeIsEnd'
    BY <1>1, <2>1 DEF ShowsEndOfLog, NoticeIsEnd
  <2> QED BY <2>3, <2>4, <2>5, <2>6, <2>7 DEF IInv
<1> QED BY <1>6, <1>7

\* A status is written, and the supervisor may go to where no log is written.
LEMMA MarkInv ==
  ASSUME IInv, table # <<>>, NEW st \in Active \cup Terminal, Marked(st),
         Status \notin Ended,
         UNCHANGED <<files, page, faulty>>, req' = req \/ req' = NoReq,
         NEW pc \in {"none", "wait", "open", "copy", "collect", "report", "done", "lost"},
         run' = [run EXCEPT !.pc = pc],
         st \in Ended => pc \in {"none", "lost", "done"},
         st # "queued", st = "running" => pc # "none",
         \/ pc = run.pc \/ pc = "lost"
         \/ run.pc = "none" /\ pc = "wait"
         \/ run.pc = "report" /\ pc = "done"
  PROVE  IInv'
<1>1. TypeOK /\ RowsInv /\ FilesInv /\ ReqInv /\ PageInv /\ ShowsEndOfLog /\ NoticeIsEnd
  BY DEF IInv
<1>2. /\ table' \in Seq(Rows) /\ Len(table') = Len(table) /\ table' # <<>>
      /\ Status' = st
      /\ table'[1].log = table[1].log /\ table'[1].user = table[1].user
  BY <1>1, MarkedRow DEF TypeOK
<1>3. /\ run' \in [pc : {"none", "wait", "open", "copy", "collect", "report", "done", "lost"},
                   path : Paths \cup {NoPath}, out : Texts, tail : Texts]
      /\ run'.pc = pc /\ run'.path = run.path /\ run'.out = run.out /\ run'.tail = run.tail
  BY <1>1 DEF TypeOK
<1>4. page.st \notin Ended
  BY <1>1 DEF PageInv
<1>5. TypeOK'
  <2>1. req' \in [pc : {"idle", "open", "read"}, path : Paths \cup {NoPath}, from : 0 .. MaxOutput]
    BY <1>1, SizesAssumption DEF TypeOK, NoReq
  <2> QED BY <1>1, <1>2, <1>3, <2>1 DEF TypeOK
<1>6. RowsInv'
  BY <1>1, <1>2, <1>3 DEF RowsInv
<1>7. FilesInv'
  BY <1>1, <1>3 DEF FilesInv
<1>8. ReqInv'
  BY <1>1, <1>2 DEF ReqInv, NoReq
<1>9. PageInv'
  BY <1>1, <1>2, <1>3, <1>4 DEF PageInv
<1>10. ShowsEndOfLog'
  BY <1>1, <1>3 DEF ShowsEndOfLog
<1>11. NoticeIsEnd'
  BY <1>1, <1>3 DEF NoticeIsEnd
<1> QED BY <1>5, <1>6, <1>7, <1>8, <1>9, <1>10, <1>11 DEF IInv

LEMMA StartInv ==
  ASSUME IInv, Start
  PROVE  IInv'
<1>1. /\ table # <<>> /\ run.pc = "none" /\ Status = "queued"
      /\ UNCHANGED <<files, req, page, faulty>>
  BY DEF Start
<1>2. Status \notin Ended /\ run = [run EXCEPT !.pc = run.pc]
  BY <1>1 DEF Ended, IInv, TypeOK
<1>3. CASE Marked("running") /\ run' = [run EXCEPT !.pc = "wait"]
  BY <1>1, <1>2, <1>3, MarkInv DEF Active, Ended
<1>4. CASE Marked("failed") /\ UNCHANGED run
  <2>1. run' = [run EXCEPT !.pc = "none"]
    BY <1>1, <1>2, <1>4
  <2> QED BY <1>1, <1>2, <1>4, <2>1, MarkInv DEF Terminal, Ended
<1> QED BY <1>3, <1>4 DEF Start

LEMMA CancelInv ==
  ASSUME IInv, Cancel
  PROVE  IInv'
<1>1. /\ table # <<>> /\ Status \in Active /\ Marked("cancelled")
      /\ UNCHANGED <<run, files, req, page, faulty>>
  BY DEF Cancel
<1>2. /\ Status \notin Ended /\ run' = [run EXCEPT !.pc = run.pc]
      /\ run.pc \in {"none", "wait", "open", "copy", "collect", "report", "done", "lost"}
  BY <1>1 DEF Active, Ended, IInv, TypeOK
<1> DEFINE pc == run.pc
<1> HIDE DEF pc
<1>3. run' = [run EXCEPT !.pc = pc] /\ pc = run.pc
  BY <1>2 DEF pc
<1>4. "cancelled" \notin Ended /\ "cancelled" \in Active \cup Terminal
      /\ "cancelled" \notin {"queued", "running"}
  BY DEF Ended, Terminal
<1> QED BY <1>1, <1>2, <1>3, <1>4, MarkInv

\* The supervisor is lost or done, and no status is written.
LEMMA EndInv ==
  ASSUME IInv, UNCHANGED <<table, files, page, faulty>>, req' = req \/ req' = NoReq,
         NEW pc \in {"done", "lost"}, run' = [run EXCEPT !.pc = pc],
         pc = "done" => run.pc = "report",
         run.pc # "none"
  PROVE  IInv'
<1>1. TypeOK /\ RowsInv /\ FilesInv /\ ReqInv /\ PageInv /\ ShowsEndOfLog /\ NoticeIsEnd
  BY DEF IInv
<1>2. /\ run' \in [pc : {"none", "wait", "open", "copy", "collect", "report", "done", "lost"},
                   path : Paths \cup {NoPath}, out : Texts, tail : Texts]
      /\ run'.pc = pc /\ run'.path = run.path /\ run'.out = run.out /\ run'.tail = run.tail
  BY <1>1 DEF TypeOK
<1>3. TypeOK'
  <2>1. req' \in [pc : {"idle", "open", "read"}, path : Paths \cup {NoPath}, from : 0 .. MaxOutput]
    BY <1>1, SizesAssumption DEF TypeOK, NoReq
  <2> QED BY <1>1, <1>2, <2>1 DEF TypeOK
<1>4. RowsInv'
  BY <1>1, <1>2 DEF RowsInv, Status
<1>5. FilesInv'
  BY <1>1, <1>2 DEF FilesInv
<1>6. ReqInv'
  BY <1>1 DEF ReqInv, NoReq
<1>7. PageInv'
  <2>1. ASSUME page.st \in Ended PROVE run.pc \in {"none", "lost", "done"}
    BY <1>1, <2>1 DEF PageInv, RowsInv
  <2> QED BY <1>1, <1>2, <2>1 DEF PageInv, Status
<1>8. ShowsEndOfLog' /\ NoticeIsEnd'
  BY <1>1, <1>2 DEF ShowsEndOfLog, NoticeIsEnd
<1> QED BY <1>3, <1>4, <1>5, <1>6, <1>7, <1>8 DEF IInv

LEMMA RestartInv ==
  ASSUME IInv, Restart
  PROVE  IInv'
<1>1. /\ run.pc \notin {"none", "done", "lost"} /\ run' = [run EXCEPT !.pc = "lost"]
      /\ req' = NoReq /\ UNCHANGED <<files, page, faulty>>
  BY DEF Restart
<1>2. table # <<>>
  BY <1>1 DEF IInv, RowsInv
<1>3. CASE Status = "running" /\ Marked("failed")
  <2>1. Status \notin Ended /\ "failed" \in Active \cup Terminal
    BY <1>3 DEF Ended, Terminal
  <2> QED BY <1>1, <1>2, <1>3, <2>1, MarkInv
<1>4. CASE UNCHANGED table
  BY <1>1, <1>4, EndInv
<1> QED BY <1>3, <1>4 DEF Restart

LEMMA ReportInv ==
  ASSUME IInv, Report
  PROVE  IInv'
<1>1. /\ run.pc = "report" /\ run' = [run EXCEPT !.pc = "done"]
      /\ UNCHANGED <<files, req, page, faulty>>
  BY DEF Report
<1>2. table # <<>>
  BY <1>1 DEF IInv, RowsInv
<1>3. ASSUME NEW st \in Ended, Status = "running", Marked(st) PROVE IInv'
  <2>1. Status \notin Ended /\ st \in Active \cup Terminal /\ st \notin {"queued", "running"}
    BY <1>3 DEF Ended, Terminal
  <2> QED BY <1>1, <1>2, <1>3, <2>1, MarkInv
<1>4. CASE UNCHANGED table
  BY <1>1, <1>4, EndInv
<1> QED BY <1>3, <1>4 DEF Report, Ended

LEMMA ContainerEndsInv ==
  ASSUME IInv, ContainerEnds
  PROVE  IInv'
<1>1. TypeOK /\ RowsInv /\ FilesInv /\ ReqInv /\ PageInv /\ ShowsEndOfLog /\ NoticeIsEnd
  BY DEF IInv
<1>2. PICK o \in BoundedSeq({"nl", "x"}, MaxOutput) : run' = [run EXCEPT !.pc = "open", !.out = o]
  BY DEF ContainerEnds
<1>3. run.pc = "wait" /\ UNCHANGED <<table, files, req, page, faulty>>
  BY DEF ContainerEnds
<1>4. /\ run' \in [pc : {"none", "wait", "open", "copy", "collect", "report", "done", "lost"},
                   path : Paths \cup {NoPath}, out : Texts, tail : Texts]
      /\ run'.pc = "open" /\ run'.path = run.path /\ run'.out = o
      /\ o \in Texts /\ Len(o) \in Nat /\ Len(o) <= MaxOutput
  BY <1>1, <1>2, OutputType, NoTexts DEF TypeOK
<1>5. TypeOK'
  BY <1>1, <1>3, <1>4 DEF TypeOK
<1>6. RowsInv'
  BY <1>1, <1>3, <1>4 DEF RowsInv, Status, Ended
<1>7. FilesInv'
  BY <1>1, <1>3, <1>4 DEF FilesInv
<1>8. ReqInv'
  BY <1>1, <1>3 DEF ReqInv
<1>9. PageInv'
  BY <1>1, <1>3, <1>4 DEF PageInv, Status
<1>10. ShowsEndOfLog'
  <2>1. ASSUME page.kind = "job" PROVE IsEndOf(page.text, SubSeq(o, 1, page.upTo))
    <3>1. page.upTo = 0 /\ IsEndOf(page.text, SubSeq(run.out, 1, page.upTo))
      BY <1>1, <1>3, <2>1 DEF PageInv, ShowsEndOfLog
    <3>2. run.out \in Texts
      BY <1>1 DEF TypeOK
    <3>3. SubSeq(o, 1, 0) = <<>> /\ SubSeq(run.out, 1, 0) = <<>>
      BY <1>4, <3>2, NoTexts
    <3> QED BY <3>1, <3>3
  <2> QED BY <1>3, <1>4, <2>1 DEF ShowsEndOfLog
<1>11. NoticeIsEnd'
  BY <1>4 DEF NoticeIsEnd
<1> QED BY <1>5, <1>6, <1>7, <1>8, <1>9, <1>10, <1>11 DEF IInv

LEMMA OpenLogInv ==
  ASSUME IInv, OpenLog
  PROVE  IInv'
<1>1. TypeOK /\ RowsInv /\ FilesInv /\ ReqInv /\ PageInv /\ ShowsEndOfLog /\ NoticeIsEnd
  BY DEF IInv
<1>2. run.pc = "open" /\ UNCHANGED <<table, req, page, faulty>>
  BY DEF OpenLog
<1>3. PICK pc \in {"copy", "collect"} : run' = [run EXCEPT !.pc = pc]
  BY DEF OpenLog
<1>4. /\ run' \in [pc : {"none", "wait", "open", "copy", "collect", "report", "done", "lost"},
                   path : Paths \cup {NoPath}, out : Texts, tail : Texts]
      /\ run'.pc = pc /\ run'.path = run.path /\ run'.out = run.out /\ run'.tail = run.tail
  BY <1>1, <1>3 DEF TypeOK
<1>5. \A p \in Paths : files[p] = Absent
  BY <1>1, <1>2 DEF FilesInv
<1>6. /\ files' \in [Paths -> Texts \cup {Absent}]
      /\ \A p \in Paths : files'[p] # Absent =>
           p = run.path /\ files'[p] = SubSeq(run.out, 1, 0) /\ Len(files'[p]) = 0
      /\ pc = "copy" => run.path \in Paths /\ files'[run.path] # Absent
      /\ pc = "collect" => UNCHANGED files /\ (run.path = NoPath \/ faulty # {})
  <2>1. CASE /\ run.path \in Paths /\ files' = [files EXCEPT ![run.path] = <<>>]
             /\ run' = [run EXCEPT !.pc = "copy"]
    <3>1. pc = "copy"
      BY <1>4, <2>1, <1>1 DEF TypeOK
    <3>2. SubSeq(run.out, 1, 0) = <<>> /\ <<>> \in Texts /\ Absent # <<>> /\ Len(<<>>) = 0
      BY <1>1, NoTexts DEF TypeOK
    <3>3. files \in [Paths -> Texts \cup {Absent}]
      BY <1>1 DEF TypeOK
    <3> QED BY <1>5, <2>1, <3>1, <3>2, <3>3
  <2>2. CASE /\ run.path = NoPath \/ "log" \in faulty
             /\ run' = [run EXCEPT !.pc = "collect"]
             /\ UNCHANGED files
    <3>1. pc = "collect"
      BY <1>4, <2>2, <1>1 DEF TypeOK
    <3> QED BY <1>1, <1>5, <2>2, <3>1 DEF TypeOK
  <2> QED BY <2>1, <2>2 DEF OpenLog
<1>7. req.pc # "read"
  <2>1. ASSUME req.pc = "read" PROVE FALSE
    <3>1. table # <<>> /\ req.path = table[1].log /\ files[req.path] # Absent
      BY <1>1, <2>1 DEF ReqInv
    <3>2. table[1].log \in Paths
      BY <1>1, <3>1, FirstRow DEF TypeOK
    <3> QED BY <1>5, <3>1, <3>2
  <2> QED BY <2>1
<1>8. TypeOK'
  BY <1>1, <1>2, <1>4, <1>6 DEF TypeOK
<1>9. RowsInv'
  BY <1>1, <1>2, <1>4 DEF RowsInv, Status
<1>10. FilesInv'
  <2>1. Len(run.out) \in Nat /\ NoPath \notin Paths
    BY <1>1, NoTexts, NamesAssumption DEF TypeOK
  <2>2. ASSUME NEW p \in Paths, files'[p] # Absent
        PROVE  /\ p = run'.path /\ run'.pc \notin {"none", "wait", "open"}
               /\ Len(files'[p]) <= Len(run'.out)
               /\ files'[p] = SubSeq(run'.out, 1, Len(files'[p]))
    BY <1>4, <1>6, <2>1, <2>2
  <2>3. ASSUME run'.pc \in {"collect", "report", "done"}, run'.path \in Paths, faulty' = {}
        PROVE  files'[run'.path] = run'.out
    BY <1>2, <1>4, <1>6, <2>1, <2>3
  <2> QED BY <1>1, <1>4, <1>6, <2>2, <2>3 DEF FilesInv
<1>11. ReqInv'
  BY <1>1, <1>2, <1>7 DEF ReqInv
<1>12. PageInv'
  BY <1>1, <1>2, <1>4 DEF PageInv, Status
<1>13. ShowsEndOfLog' /\ NoticeIsEnd'
  BY <1>1, <1>2, <1>4 DEF ShowsEndOfLog, NoticeIsEnd
<1> QED BY <1>8, <1>9, <1>10, <1>11, <1>12, <1>13 DEF IInv

LEMMA CopyLogInv ==
  ASSUME IInv, CopyLog
  PROVE  IInv'
<1>1. TypeOK /\ RowsInv /\ FilesInv /\ ReqInv /\ PageInv /\ ShowsEndOfLog /\ NoticeIsEnd
  BY DEF IInv
<1>2. run.pc = "copy" /\ UNCHANGED <<table, run, req, page, faulty>>
  BY DEF CopyLog
<1> DEFINE old == files[run.path]
<1>3. /\ run.path \in Paths /\ old # Absent /\ old \in Texts
      /\ run.out \in Texts /\ Len(run.out) \in Nat /\ Len(old) \in Nat
  BY <1>1, <1>2, NoTexts DEF TypeOK, FilesInv
<1>4. PICK n \in Len(old) + 1 .. Len(run.out) :
        files' = [files EXCEPT ![run.path] = SubSeq(run.out, 1, n)]
  BY DEF CopyLog
<1> DEFINE new == SubSeq(run.out, 1, n)
<1>5. n \in 0 .. Len(run.out) /\ n \in Nat /\ n <= Len(run.out) /\ Len(old) < n
  BY <1>3
<1>6. new \in Texts /\ Len(new) = n /\ new # Absent
  BY <1>3, <1>5, Beginning, NoTexts
<1>7. /\ files' = [files EXCEPT ![run.path] = new]
      /\ new = SubSeq(run.out, 1, Len(new))
  BY <1>4, <1>6
<1> HIDE DEF new
<1>8. /\ files'[run.path] = new /\ \A p \in Paths \ {run.path} : files'[p] = files[p]
      /\ files' \in [Paths -> Texts \cup {Absent}]
  BY <1>1, <1>3, <1>6, <1>7 DEF TypeOK
<1>9. TypeOK'
  BY <1>1, <1>2, <1>8 DEF TypeOK
<1>10. RowsInv'
  BY <1>1, <1>2 DEF RowsInv, Status
<1>11. FilesInv'
  <2>1. ASSUME NEW p \in Paths, files'[p] # Absent
        PROVE  /\ p = run.path
               /\ Len(files'[p]) <= Len(run.out)
               /\ files'[p] = SubSeq(run.out, 1, Len(files'[p]))
    <3>1. CASE p = run.path
      BY <1>5, <1>6, <1>7, <1>8, <3>1
    <3>2. CASE p # run.path
      BY <1>1, <1>8, <2>1, <3>2 DEF FilesInv
    <3> QED BY <3>1, <3>2
  <2> QED BY <1>1, <1>2, <1>3, <1>6, <1>8, <2>1 DEF FilesInv
<1>12. ReqInv'
  <2>1. ASSUME req.pc = "read"
        PROVE  /\ files'[req.path] # Absent /\ req.from <= Len(files'[req.path])
               /\ req.from = 0 \/ Len(files'[req.path]) - req.from >= MaxLogBytes
    <3>1. /\ files[req.path] # Absent /\ req.from <= Len(files[req.path])
          /\ req.from = 0 \/ Len(files[req.path]) - req.from >= MaxLogBytes
          /\ req.path = table[1].log /\ table # <<>>
      BY <1>1, <2>1 DEF ReqInv
    <3>2. req.path \in Paths
      BY <1>1, <3>1, FirstRow DEF TypeOK
    <3>3. req.path = run.path /\ files'[req.path] = new
      BY <1>1, <1>8, <3>1, <3>2 DEF FilesInv
    <3>4. req.from \in Nat /\ MaxLogBytes \in Nat
      BY <1>1, SizesAssumption DEF TypeOK
    <3> HIDE DEF old
    <3>5. req.from <= n /\ (req.from = 0 \/ n - req.from >= MaxLogBytes)
      <4>1. req.from <= Len(old) /\ (req.from = 0 \/ Len(old) - req.from >= MaxLogBytes)
        BY <3>1, <3>3 DEF old
      <4> QED BY <1>3, <1>5, <3>4, <4>1
    <3> QED BY <1>6, <3>3, <3>5
  <2> QED BY <1>1, <1>2, <2>1 DEF ReqInv
<1>13. PageInv'
  BY <1>1, <1>2 DEF PageInv, Status
<1>14. ShowsEndOfLog' /\ NoticeIsEnd'
  BY <1>1, <1>2 DEF ShowsEndOfLog, NoticeIsEnd
<1> QED BY <1>9, <1>10, <1>11, <1>12, <1>13, <1>14 DEF IInv

LEMMA CopyEndsInv ==
  ASSUME IInv, CopyEnds
  PROVE  IInv'
<1>1. TypeOK /\ RowsInv /\ FilesInv /\ ReqInv /\ PageInv /\ ShowsEndOfLog /\ NoticeIsEnd
  BY DEF IInv
<1>2. /\ run.pc = "copy" /\ run' = [run EXCEPT !.pc = "collect"]
      /\ UNCHANGED <<table, files, req, page, faulty>>
  BY DEF CopyEnds
<1>3. faulty = {} => files[run.path] = run.out
  BY DEF CopyEnds, Copied
<1>4. /\ run' \in [pc : {"none", "wait", "open", "copy", "collect", "report", "done", "lost"},
                   path : Paths \cup {NoPath}, out : Texts, tail : Texts]
      /\ run'.pc = "collect" /\ run'.path = run.path /\ run'.out = run.out
  BY <1>1, <1>2 DEF TypeOK
<1>5. TypeOK'
  BY <1>1, <1>2, <1>4 DEF TypeOK
<1>6. RowsInv' /\ PageInv'
  BY <1>1, <1>2, <1>4 DEF RowsInv, PageInv, Status
<1>7. FilesInv'
  BY <1>1, <1>2, <1>3, <1>4 DEF FilesInv
<1>8. ReqInv'
  BY <1>1, <1>2 DEF ReqInv
<1>9. ShowsEndOfLog' /\ NoticeIsEnd'
  BY <1>1, <1>2, <1>4 DEF ShowsEndOfLog, NoticeIsEnd
<1> QED BY <1>5, <1>6, <1>7, <1>8, <1>9 DEF IInv

\* NoticeIsEnd, said of the file that tailFile reads.
LEMMA TailFileOf ==
  ASSUME files \in [Paths -> Texts \cup {Absent}], NEW p \in Paths
  PROVE  /\ TailFile(p) \in Texts
         /\ IsNoticeOf(TailFile(p), IF files[p] = Absent THEN <<>> ELSE files[p])
<1>1. p # NoPath
  BY NamesAssumption
<1>2. CASE files[p] = Absent
  <2>1. TailFile(p) = <<>>
    BY <1>2 DEF TailFile
  <2>2. <<>> \in Texts /\ ~(Len(<<>>) > TailBytes)
    BY NoTexts, SizesAssumption
  <2>3. IsNoticeOf(<<>>, <<>>)
    BY <2>2, TailFileIsNotice
  <2> QED BY <1>2, <2>1, <2>2, <2>3
<1>3. CASE files[p] # Absent
  <2> DEFINE log == files[p]
  <2>1. log \in Texts
    BY <1>3
  <2>2. TailFile(p) = IF Len(log) > TailBytes THEN AfterNewline(LastOf(log, TailBytes)) ELSE log
    BY <1>1, <1>3 DEF TailFile
  <2> HIDE DEF log
  <2>3. TailFile(p) \in Texts /\ IsNoticeOf(TailFile(p), log)
    BY <2>1, <2>2, TailFileIsNotice
  <2> QED BY <1>3, <2>3 DEF log
<1> QED BY <1>2, <1>3

LEMMA CollectInv ==
  ASSUME IInv, Collect
  PROVE  IInv'
<1>1. TypeOK /\ RowsInv /\ FilesInv /\ ReqInv /\ PageInv /\ ShowsEndOfLog /\ NoticeIsEnd
  BY DEF IInv
<1>2. /\ run.pc = "collect" /\ run' = [run EXCEPT !.pc = "report", !.tail = TailFile(run.path)]
      /\ UNCHANGED <<table, files, req, page, faulty>>
  BY DEF Collect
<1>3. TailFile(run.path) \in Texts
  <2>1. CASE run.path = NoPath
    BY <2>1, NoTexts DEF TailFile
  <2>2. CASE run.path \in Paths
    BY <1>1, <2>2, TailFileOf DEF TypeOK
  <2> QED BY <1>1, <2>1, <2>2 DEF TypeOK
<1>4. /\ run' \in [pc : {"none", "wait", "open", "copy", "collect", "report", "done", "lost"},
                   path : Paths \cup {NoPath}, out : Texts, tail : Texts]
      /\ run'.pc = "report" /\ run'.path = run.path /\ run'.out = run.out
      /\ run'.tail = TailFile(run.path)
  BY <1>1, <1>2, <1>3 DEF TypeOK
<1>5. TypeOK'
  BY <1>1, <1>2, <1>4 DEF TypeOK
<1>6. RowsInv' /\ PageInv'
  BY <1>1, <1>2, <1>4 DEF RowsInv, PageInv, Status
<1>7. FilesInv'
  BY <1>1, <1>2, <1>4 DEF FilesInv
<1>8. ReqInv'
  BY <1>1, <1>2 DEF ReqInv
<1>9. ShowsEndOfLog'
  BY <1>1, <1>2, <1>4 DEF ShowsEndOfLog
<1>10. NoticeIsEnd'
  <2>1. ASSUME run.path \in Paths
        PROVE  IsNoticeOf(run'.tail, IF files[run.path] = Absent THEN <<>> ELSE files[run.path])
    BY <1>1, <1>4, <2>1, TailFileOf DEF TypeOK
  <2> QED BY <1>2, <1>4, <2>1 DEF NoticeIsEnd, IsNoticeOf
<1> QED BY <1>5, <1>6, <1>7, <1>8, <1>9, <1>10 DEF IInv

\* A page that is not the log leaves the jobs alone.
LEMMA PageStep ==
  ASSUME IInv, UNCHANGED <<table, run, files, faulty>>,
         page' \in [kind : {"none", "refused", "json", "list"},
                    user : Users \cup {NoOne}, st : Active \cup Terminal,
                    text : Texts, upTo : 0 .. MaxOutput,
                    ids : Seq(1 .. MaxJobs), limit : Limits \cup {0}],
         page'.kind = "json" => table # <<>> /\ page'.user = table[1].user,
         page'.st \in Ended => table # <<>> /\ Status = page'.st,
         req' \in [pc : {"idle", "open"}, path : Paths \cup {NoPath}, from : 0 .. MaxOutput],
         req'.pc = "open" => /\ table # <<>> /\ req'.path = table[1].log
                             /\ page'.user = table[1].user
  PROVE  IInv'
<1>1. TypeOK /\ RowsInv /\ FilesInv /\ NoticeIsEnd
  BY DEF IInv
<1>2. TypeOK'
  <2>1. /\ page' \in [kind : {"none", "refused", "job", "json", "list"},
                      user : Users \cup {NoOne}, st : Active \cup Terminal,
                      text : Texts, upTo : 0 .. MaxOutput,
                      ids : Seq(1 .. MaxJobs), limit : Limits \cup {0}]
        /\ req' \in [pc : {"idle", "open", "read"}, path : Paths \cup {NoPath}, from : 0 .. MaxOutput]
    OBVIOUS
  <2> QED BY <1>1, <2>1 DEF TypeOK
<1>3. RowsInv' /\ FilesInv' /\ NoticeIsEnd'
  BY <1>1 DEF RowsInv, FilesInv, NoticeIsEnd, Status
<1>4. ReqInv'
  BY DEF ReqInv
<1>5. PageInv' /\ ShowsEndOfLog'
  BY DEF PageInv, ShowsEndOfLog, Status
<1> QED BY <1>2, <1>3, <1>4, <1>5 DEF IInv

\* A refusal says nothing.
LEMMA RefusedType ==
  /\ Refused \in [kind : {"none", "refused", "json", "list"},
                  user : Users \cup {NoOne}, st : Active \cup Terminal,
                  text : Texts, upTo : 0 .. MaxOutput,
                  ids : Seq(1 .. MaxJobs), limit : Limits \cup {0}]
  /\ Refused.kind = "refused" /\ Refused.st \notin Ended
<1>1. <<>> \in Texts /\ 0 \in 0 .. MaxOutput /\ <<>> \in Seq(1 .. MaxJobs)
  BY NoTexts, SizesAssumption
<1>2. Refused = [kind |-> "refused", user |-> NoOne, st |-> "queued",
                 text |-> <<>>, upTo |-> 0, ids |-> <<>>, limit |-> 0]
  BY DEF Refused, Blank
<1>3. "queued" \in Active \cup Terminal /\ "queued" \notin Ended
  BY DEF Active, Ended
<1> QED BY <1>1, <1>2, <1>3

LEMMA ShownType ==
  ASSUME TypeOK, NEW u \in Users, GetForUser(u), NEW kind \in {"none", "json"}
  PROVE  /\ Shown(u, kind) \in [kind : {"none", "refused", "json", "list"},
                                user : Users \cup {NoOne}, st : Active \cup Terminal,
                                text : Texts, upTo : 0 .. MaxOutput,
                                ids : Seq(1 .. MaxJobs), limit : Limits \cup {0}]
         /\ Shown(u, kind).kind = kind /\ Shown(u, kind).user = table[1].user
         /\ Shown(u, kind).st = Status
         /\ table # <<>>
<1>1. <<>> \in Texts /\ 0 \in 0 .. MaxOutput /\ <<>> \in Seq(1 .. MaxJobs)
  BY NoTexts, SizesAssumption
<1>2. table # <<>> /\ table[1].user = u
  BY DEF GetForUser
<1>3. Status \in Active \cup Terminal
  BY <1>2, FirstRow DEF TypeOK
<1>4. Blank \in [kind : {"none", "refused", "json", "list"},
                user : Users \cup {NoOne}, st : Active \cup Terminal,
                text : Texts, upTo : 0 .. MaxOutput,
                ids : Seq(1 .. MaxJobs), limit : Limits \cup {0}]
  BY <1>1 DEF Blank, Active
<1> QED BY <1>2, <1>3, <1>4 DEF Shown

\* A request for a log that is there or not.
LEMMA OpenedReq ==
  ASSUME NEW path \in Paths
  PROVE  /\ [NoReq EXCEPT !.pc = "open", !.path = path]
              \in [pc : {"idle", "open"}, path : Paths \cup {NoPath}, from : 0 .. MaxOutput]
         /\ [NoReq EXCEPT !.pc = "open", !.path = path].pc = "open"
         /\ [NoReq EXCEPT !.pc = "open", !.path = path].path = path
<1>1. 0 \in 0 .. MaxOutput
  BY SizesAssumption
<1>2. NoReq \in [pc : {"idle", "open"}, path : Paths \cup {NoPath}, from : 0 .. MaxOutput]
  BY <1>1 DEF NoReq
<1> QED BY <1>2

LEMMA GetJobInv ==
  ASSUME IInv, NEW u \in Users, GetJob(u)
  PROVE  IInv' /\ ShownToOwner(page')
<1>1. TypeOK /\ req.pc = "idle" /\ UNCHANGED <<table, run, files, req, faulty>>
  BY DEF IInv, GetJob
<1>2. req' \in [pc : {"idle", "open"}, path : Paths \cup {NoPath}, from : 0 .. MaxOutput]
      /\ req'.pc = "idle"
  BY <1>1 DEF TypeOK
<1>3. CASE GetForUser(u) /\ page' = Shown(u, "json")
  <2>1. /\ page' \in [kind : {"none", "refused", "json", "list"},
                      user : Users \cup {NoOne}, st : Active \cup Terminal,
                      text : Texts, upTo : 0 .. MaxOutput,
                      ids : Seq(1 .. MaxJobs), limit : Limits \cup {0}]
        /\ page'.kind = "json" /\ page'.user = table[1].user /\ page'.st = Status
        /\ table # <<>>
    BY <1>1, <1>3, ShownType
  <2>2. ShownToOwner(page')
    BY <2>1 DEF ShownToOwner
  <2> QED BY <1>1, <1>2, <2>1, <2>2, PageStep
<1>4. CASE page' = Refused
  <2>1. ShownToOwner(page')
    BY <1>4, RefusedType DEF ShownToOwner
  <2> QED BY <1>1, <1>2, <1>4, <2>1, RefusedType, PageStep
<1> QED BY <1>3, <1>4 DEF GetJob

LEMMA RenderInv ==
  ASSUME IInv, NEW u \in Users, Render(u)
  PROVE  IInv' /\ ShownToOwner(page')
<1>1. TypeOK /\ req.pc = "idle" /\ UNCHANGED <<table, run, files, faulty>>
  BY DEF IInv, Render
<1>2. CASE /\ GetForUser(u) /\ page' = Shown(u, "none")
           /\ req' = [NoReq EXCEPT !.pc = "open", !.path = table[1].log]
  <2>1. /\ page' \in [kind : {"none", "refused", "json", "list"},
                      user : Users \cup {NoOne}, st : Active \cup Terminal,
                      text : Texts, upTo : 0 .. MaxOutput,
                      ids : Seq(1 .. MaxJobs), limit : Limits \cup {0}]
        /\ page'.kind = "none" /\ page'.user = table[1].user /\ page'.st = Status
        /\ table # <<>>
    BY <1>1, <1>2, ShownType
  <2>2. table[1].log \in Paths
    BY <1>1, <2>1, FirstRow DEF TypeOK
  <2>3. /\ req' \in [pc : {"idle", "open"}, path : Paths \cup {NoPath}, from : 0 .. MaxOutput]
        /\ req'.path = table[1].log
    BY <1>2, <2>2, OpenedReq
  <2>4. ShownToOwner(page')
    BY <2>1 DEF ShownToOwner
  <2> QED BY <1>1, <2>1, <2>3, <2>4, PageStep
<1>3. CASE page' = Refused /\ UNCHANGED req
  <2>1. ShownToOwner(page')
    BY <1>3, RefusedType DEF ShownToOwner
  <2>2. req' \in [pc : {"idle", "open"}, path : Paths \cup {NoPath}, from : 0 .. MaxOutput]
        /\ req'.pc = "idle"
    BY <1>1, <1>3 DEF TypeOK
  <2> QED BY <1>1, <1>3, <2>1, <2>2, RefusedType, PageStep
<1> QED BY <1>2, <1>3 DEF Render

LEMMA ListJobsInv ==
  ASSUME IInv, NEW u \in Users, NEW n \in Limits \cup {0}, ListJobs(u, n)
  PROVE  IInv' /\ ShownToOwner(page')
<1>1. TypeOK /\ req.pc = "idle" /\ UNCHANGED <<table, run, files, req, faulty>>
  BY DEF IInv, ListJobs
<1>2. req' \in [pc : {"idle", "open"}, path : Paths \cup {NoPath}, from : 0 .. MaxOutput]
      /\ req'.pc = "idle"
  BY <1>1 DEF TypeOK
<1> DEFINE ids == ListForUser(u, Limit(n))
<1>3. CASE page' = [Blank EXCEPT !.kind = "list", !.user = u, !.limit = n, !.ids = ids]
  <2>1. Limit(n) \in Nat \ {0} /\ Limit(n) = IF n <= 0 THEN DefaultLimit ELSE n
    BY SizesAssumption DEF Limit
  <2>2. table \in Seq(Rows) /\ Len(table) \in Nat /\ Len(table) <= MaxJobs /\ MaxJobs \in Nat
    BY <1>1, SizesAssumption DEF TypeOK
  <2>3. ids \in Seq(1 .. Len(table)) /\ LatestOf(ids, OwnUpTo(u, Len(table)), Limit(n))
    BY <2>1, <2>2, ListForUserLatest
  <2> HIDE DEF ids
  <2>4. ids \in Seq(1 .. MaxJobs)
    <3>1. 1 .. Len(table) \subseteq 1 .. MaxJobs
      BY <2>2
    <3> QED BY <2>3, <3>1, SeqMonotonic
  <2>5. /\ page' \in [kind : {"none", "refused", "json", "list"},
                      user : Users \cup {NoOne}, st : Active \cup Terminal,
                      text : Texts, upTo : 0 .. MaxOutput,
                      ids : Seq(1 .. MaxJobs), limit : Limits \cup {0}]
        /\ page'.kind = "list" /\ page'.user = u /\ page'.ids = ids /\ page'.limit = n
        /\ page'.st = "queued"
    <3>1. <<>> \in Texts /\ 0 \in 0 .. MaxOutput
      BY NoTexts, SizesAssumption
    <3> QED BY <1>3, <2>4, <3>1 DEF Blank, Active
  <2>6. ShownToOwner(page')
    <3> DEFINE own == {i \in 1 .. Len(table) : table[i].user = page'.user}
               limit == IF page'.limit <= 0 THEN DefaultLimit ELSE page'.limit
    <3>1. own = OwnUpTo(u, Len(table)) /\ limit = Limit(n)
      BY <2>1, <2>5 DEF OwnUpTo
    <3> HIDE DEF own, limit
    <3>2. LatestOf(page'.ids, own, limit)
      BY <2>3, <2>5, <3>1
    <3> QED BY <2>5, <3>2 DEF ShownToOwner, LatestOf, own, limit
  <2>7. "queued" \notin Ended
    BY DEF Ended
  <2> QED BY <1>1, <1>2, <2>5, <2>6, <2>7, PageStep
<1>4. CASE page' = Refused
  <2>1. ShownToOwner(page')
    BY <1>4, RefusedType DEF ShownToOwner
  <2> QED BY <1>1, <1>2, <1>4, <2>1, RefusedType, PageStep
<1> QED BY <1>3, <1>4 DEF ListJobs

LEMMA StutterInv ==
  ASSUME IInv, UNCHANGED vars
  PROVE  IInv' /\ page' = page
<1>1. UNCHANGED <<table, run, files, req, page, faulty>>
  BY DEF vars
<1>2. TypeOK'
  BY <1>1 DEF IInv, TypeOK
<1>3. RowsInv' /\ FilesInv'
  BY <1>1 DEF IInv, RowsInv, FilesInv, Status
<1>4. ReqInv' /\ PageInv'
  BY <1>1 DEF IInv, ReqInv, PageInv, Status
<1>5. ShowsEndOfLog' /\ NoticeIsEnd'
  BY <1>1 DEF IInv, ShowsEndOfLog, NoticeIsEnd
<1> QED BY <1>1, <1>2, <1>3, <1>4, <1>5 DEF IInv

LEMMA PollInv ==
  ASSUME IInv, Poll
  PROVE  IInv' /\ page' = page
<1>1. /\ TypeOK /\ RowsInv /\ FilesInv /\ PageInv /\ ShowsEndOfLog /\ NoticeIsEnd
      /\ req.pc = "idle" /\ page.kind = "job" /\ UNCHANGED <<table, run, files, page, faulty>>
  BY DEF IInv, Poll, Polls
<1>2. CASE GetForUser(page.user) /\ req' = [NoReq EXCEPT !.pc = "open", !.path = table[1].log]
  <2>1. table # <<>> /\ page.user = table[1].user
    BY <1>2 DEF GetForUser
  <2>2. table[1].log \in Paths
    BY <1>1, <2>1, FirstRow DEF TypeOK
  <2>3. /\ req' \in [pc : {"idle", "open"}, path : Paths \cup {NoPath}, from : 0 .. MaxOutput]
        /\ req'.pc = "open" /\ req'.path = table[1].log
    BY <1>2, <2>2, OpenedReq
  <2>4. TypeOK'
    BY <1>1, <2>3 DEF TypeOK
  <2>5. ReqInv'
    BY <1>1, <2>1, <2>3 DEF ReqInv
  <2> QED BY <1>1, <2>4, <2>5
      DEF IInv, RowsInv, FilesInv, PageInv, ShowsEndOfLog, NoticeIsEnd, Status
<1>3. CASE UNCHANGED req
  <2>1. UNCHANGED vars
    BY <1>1, <1>3 DEF vars
  <2> QED BY <1>1, <2>1, StutterInv
<1> QED BY <1>2, <1>3 DEF Poll

\* The log is shown, an end of what was written up to some byte.
LEMMA AnswerInv ==
  ASSUME IInv, req.pc # "idle", UNCHANGED <<table, run, files, faulty>>,
         NEW text \in Texts, NEW n \in 0 .. Len(run.out), Answer(text, n),
         IsEndOf(text, SubSeq(run.out, 1, n)),
         run.pc \in {"none", "wait"} => n = 0,
         run.pc = "done" /\ run.path \in Paths /\ faulty = {} => n = Len(run.out)
  PROVE  IInv' /\ ShownToOwner(page')
<1>1. TypeOK /\ RowsInv /\ FilesInv /\ ReqInv /\ PageInv /\ NoticeIsEnd
  BY DEF IInv
<1>2. run.out \in Texts /\ Len(run.out) \in Nat /\ Len(run.out) <= MaxOutput /\ MaxOutput \in Nat
  BY <1>1, NoTexts, SizesAssumption DEF TypeOK, FilesInv
<1>3. n \in 0 .. MaxOutput /\ n <= Len(run.out)
  BY <1>2
<1>4. table # <<>> /\ page.user = table[1].user
  BY <1>1 DEF ReqInv
<1>5. /\ page' \in [kind : {"none", "refused", "job", "json", "list"},
                    user : Users \cup {NoOne}, st : Active \cup Terminal,
                    text : Texts, upTo : 0 .. MaxOutput,
                    ids : Seq(1 .. MaxJobs), limit : Limits \cup {0}]
      /\ page'.kind = "job" /\ page'.user = page.user /\ page'.st = page.st
      /\ page'.text = text /\ page'.upTo = n
  BY <1>1, <1>3 DEF TypeOK, Answer
<1>6. req' \in [pc : {"idle", "open", "read"}, path : Paths \cup {NoPath}, from : 0 .. MaxOutput]
      /\ req'.pc = "idle"
  BY SizesAssumption DEF Answer, NoReq
<1>7. TypeOK' /\ RowsInv' /\ FilesInv' /\ ReqInv' /\ NoticeIsEnd'
  <2>1. TypeOK'
    BY <1>1, <1>5, <1>6 DEF TypeOK
  <2> QED BY <1>1, <1>6, <2>1 DEF RowsInv, FilesInv, ReqInv, NoticeIsEnd, Status
<1>8. PageInv'
  BY <1>1, <1>3, <1>4, <1>5 DEF PageInv, Status
<1>9. ShowsEndOfLog'
  BY <1>5 DEF ShowsEndOfLog
<1>10. ShownToOwner(page')
  BY <1>4, <1>5 DEF ShownToOwner
<1> QED BY <1>7, <1>8, <1>9, <1>10 DEF IInv

\* No text is shown, of a log that is not there or could not be read.
LEMMA NoTextInv ==
  ASSUME IInv, req.pc # "idle", UNCHANGED <<table, run, files, faulty>>,
         Answer(<<>>, 0), files[req.path] = Absent \/ faulty # {}
  PROVE  IInv' /\ ShownToOwner(page')
<1>1. TypeOK /\ RowsInv /\ FilesInv /\ ReqInv
  BY DEF IInv
<1>2. table # <<>> /\ req.path = table[1].log
  BY <1>1 DEF ReqInv
<1>3. run.out \in Texts /\ Len(run.out) \in Nat
  BY <1>1, NoTexts DEF TypeOK
<1>4. <<>> \in Texts /\ 0 \in 0 .. Len(run.out) /\ SubSeq(run.out, 1, 0) = <<>>
  BY <1>3, NoTexts
<1>5. IsEndOf(<<>>, SubSeq(run.out, 1, 0))
  BY <1>4, NothingIsEnd
<1>6. ASSUME run.pc = "done", run.path \in Paths, faulty = {} PROVE FALSE
  <2>1. files[run.path] = run.out
    BY <1>1, <1>6 DEF FilesInv
  <2>2. req.path = run.path
    BY <1>1, <1>2, <1>6, NamesAssumption DEF RowsInv
  <2> QED BY <1>3, <1>6, <2>1, <2>2, NoTexts
<1> QED BY <1>4, <1>5, <1>6, AnswerInv

LEMMA OpenTailInv ==
  ASSUME IInv, OpenTail
  PROVE  IInv' /\ (page' # page => ShownToOwner(page'))
<1>1. /\ TypeOK /\ RowsInv /\ FilesInv /\ ReqInv /\ PageInv /\ ShowsEndOfLog /\ NoticeIsEnd
      /\ req.pc = "open" /\ UNCHANGED <<table, run, files, faulty>>
  BY DEF IInv, OpenTail
<1>2. table # <<>> /\ req.path = table[1].log /\ page.user = table[1].user
  BY <1>1 DEF ReqInv
<1>3. req.path \in Paths
  BY <1>1, <1>2, FirstRow DEF TypeOK
<1>4. run.out \in Texts /\ Len(run.out) \in Nat /\ Len(run.out) <= MaxOutput /\ MaxOutput \in Nat
  BY <1>1, NoTexts, SizesAssumption DEF TypeOK, FilesInv
<1> DEFINE size == Len(files[req.path])
<1>5. ASSUME files[req.path] # Absent, NEW n \in {0, Offset(size)},
             req' = [req EXCEPT !.pc = "read", !.from = n], UNCHANGED page
      PROVE  IInv'
  <2>1. size \in Nat /\ size <= Len(run.out)
    BY <1>1, <1>3, <1>5, NoTexts DEF TypeOK, FilesInv
  <2>2. n \in 0 .. MaxOutput /\ n <= size /\ (n = 0 \/ size - n >= MaxLogBytes)
    BY <1>4, <1>5, <2>1, SizesAssumption DEF Offset
  <2>3. /\ req' \in [pc : {"idle", "open", "read"}, path : Paths \cup {NoPath}, from : 0 .. MaxOutput]
        /\ req'.path = req.path /\ req'.from = n
    BY <1>1, <1>5, <2>2 DEF TypeOK
  <2>4. TypeOK'
    BY <1>1, <1>5, <2>3 DEF TypeOK
  <2>5. ReqInv'
    BY <1>1, <1>2, <1>5, <2>2, <2>3 DEF ReqInv
  <2> QED BY <1>1, <1>5, <2>4, <2>5
      DEF IInv, RowsInv, FilesInv, PageInv, ShowsEndOfLog, NoticeIsEnd, Status
<1>6. CASE (files[req.path] = Absent \/ "log" \in faulty) /\ Answer(<<>>, 0)
  BY <1>1, <1>6, NoTextInv
<1> QED BY <1>5, <1>6 DEF OpenTail

LEMMA ReadTailInv ==
  ASSUME IInv, ReadTail
  PROVE  IInv' /\ ShownToOwner(page')
<1>1. /\ TypeOK /\ RowsInv /\ FilesInv /\ ReqInv
      /\ req.pc = "read" /\ UNCHANGED <<table, run, files, faulty>>
  BY DEF IInv, ReadTail
<1>2. /\ table # <<>> /\ req.path = table[1].log
      /\ files[req.path] # Absent /\ req.from <= Len(files[req.path])
      /\ req.from = 0 \/ Len(files[req.path]) - req.from >= MaxLogBytes
  BY <1>1 DEF ReqInv
<1>3. req.path \in Paths
  BY <1>1, <1>2, FirstRow DEF TypeOK
<1>4. run.out \in Texts /\ Len(run.out) \in Nat
  BY <1>1, NoTexts DEF TypeOK
<1> DEFINE log == files[req.path]
           text == JoinLines(LastOf(SplitLines(SubSeq(log, req.from + 1, Len(log))), MaxLines))
<1>5. Answer(text, Len(log)) \/ ("log" \in faulty /\ Answer(<<>>, 0))
  BY DEF ReadTail
<1>6. /\ log \in Texts /\ Len(log) \in Nat
      /\ req.path = run.path /\ run.pc \notin {"none", "wait", "open"}
      /\ Len(log) <= Len(run.out) /\ log = SubSeq(run.out, 1, Len(log))
  BY <1>1, <1>2, <1>3, NoTexts DEF TypeOK, FilesInv
<1>7. req.from \in 0 .. Len(log) /\ (req.from = 0 \/ Len(log) - req.from >= MaxLogBytes)
  BY <1>1, <1>2, <1>6 DEF TypeOK
<1>8. run.pc = "done" /\ faulty = {} => Len(log) = Len(run.out)
  BY <1>1, <1>3, <1>6 DEF FilesInv
<1>9. IsEndOf(text, log)
  <2> HIDE DEF log
  <2> QED BY <1>6, <1>7, TailIsEnd
<1> HIDE DEF log, text
<1>10. text \in Texts
  BY <1>6, <1>9, EndIsText
<1>11. Len(log) \in 0 .. Len(run.out)
  BY <1>4, <1>6
<1>12. IsEndOf(text, SubSeq(run.out, 1, Len(log)))
  BY <1>6, <1>9
<1>13. CASE Answer(text, Len(log))
  BY <1>1, <1>6, <1>8, <1>10, <1>11, <1>12, <1>13, AnswerInv
<1>14. CASE "log" \in faulty /\ Answer(<<>>, 0)
  BY <1>1, <1>14, NoTextInv
<1> QED BY <1>5, <1>13, <1>14

------------------------------------------------------------------------------
(* Every step. *)

\* The jobs' own steps leave the page as it is.
LEMMA JobsStep ==
  ASSUME IInv,
         \/ \E u \in Users, p \in LogPaths : Create(u, p)
         \/ Start \/ Cancel \/ Restart \/ Supervise
  PROVE  IInv' /\ page' = page
<1>1. ASSUME NEW u \in Users, NEW p \in LogPaths, Create(u, p) PROVE IInv' /\ page' = page
  BY <1>1, CreateInv DEF Create
<1>2. CASE Start
  BY <1>2, StartInv DEF Start
<1>3. CASE Cancel
  BY <1>3, CancelInv DEF Cancel
<1>4. CASE Restart
  BY <1>4, RestartInv DEF Restart
<1>5. CASE ContainerEnds
  BY <1>5, ContainerEndsInv DEF ContainerEnds
<1>6. CASE OpenLog
  BY <1>6, OpenLogInv DEF OpenLog
<1>7. CASE CopyLog
  BY <1>7, CopyLogInv DEF CopyLog
<1>8. CASE CopyEnds
  BY <1>8, CopyEndsInv DEF CopyEnds
<1>9. CASE Collect
  BY <1>9, CollectInv DEF Collect
<1>10. CASE Report
  BY <1>10, ReportInv DEF Report
<1> QED BY <1>1, <1>2, <1>3, <1>4, <1>5, <1>6, <1>7, <1>8, <1>9, <1>10 DEF Supervise

\* What the browser does shows a job or a list to its owner, if it shows another page.
LEMMA BrowseStep ==
  ASSUME IInv, Browse
  PROVE  IInv' /\ (page' # page => ShownToOwner(page'))
<1>1. ASSUME NEW u \in Users, GetJob(u) PROVE IInv' /\ ShownToOwner(page')
  BY <1>1, GetJobInv
<1>2. ASSUME NEW u \in Users, Render(u) PROVE IInv' /\ ShownToOwner(page')
  BY <1>2, RenderInv
<1>3. ASSUME NEW u \in Users, Dashboard(u) PROVE IInv' /\ ShownToOwner(page')
  BY <1>3, ListJobsInv DEF Dashboard
<1>4. ASSUME NEW u \in Users, NEW n \in Limits, ListJobs(u, n) PROVE IInv' /\ ShownToOwner(page')
  BY <1>4, ListJobsInv
<1>5. CASE Poll
  BY <1>5, PollInv
<1>6. CASE OpenTail
  BY <1>6, OpenTailInv
<1>7. CASE ReadTail
  BY <1>7, ReadTailInv
<1> QED BY <1>1, <1>2, <1>3, <1>4, <1>5, <1>6, <1>7 DEF Browse, Refresh

LEMMA StepInv ==
  ASSUME IInv, [Next]_vars
  PROVE  IInv' /\ (page' # page => ShownToOwner(page'))
<1>1. CASE UNCHANGED vars
  BY <1>1, StutterInv
<1>2. CASE \/ \E u \in Users, p \in LogPaths : Create(u, p)
           \/ Start \/ Cancel \/ Restart \/ Supervise
  BY <1>2, JobsStep
<1>3. CASE Browse
  BY <1>3, BrowseStep
<1> QED BY <1>1, <1>2, <1>3 DEF Next

\* The invariant of every behaviour, whatever fails, with TypeOK as its first part: no
\* table, request or page is ever what the declarations rule out, for any bounds.
THEOREM PagesInvariance == Spec => []IInv
<1>1. IInv /\ [Next]_vars => IInv'
  BY StepInv
<1> QED BY InitInv, <1>1, PTL DEF Spec

------------------------------------------------------------------------------
(* The properties. *)

\* A page shows the end of the log as it was at one moment, for logs, numbers of
\* lines and bounds of the read of any size: readLogTail's Stat, Seek and read race
\* with the copy of the log without showing a text that was never the log's end.
THEOREM PagesShowEnds == Spec => []ShowsEndOfLog
<1>1. IInv => ShowsEndOfLog
  BY DEF IInv
<1> QED BY PagesInvariance, <1>1, PTL

\* The end of the log in the webhook's notice is at most TailBytes of what the
\* supervisor wrote, all of it if it fits, and begins with a line where it can.
THEOREM NoticesAreEnds == Spec => []NoticeIsEnd
<1>1. IInv => NoticeIsEnd
  BY DEF IInv
<1> QED BY PagesInvariance, <1>1, PTL

\* A page with an outcome and a log that is called final shows the end of the whole
\* log, if nothing failed and the caller chose where the log goes: the supervisor
\* records the outcome only after the log is written, and the page reads the row
\* before the log.
THEOREM FinalPages == Spec => []FinalPageIsWhole
<1>1. ASSUME IInv, Final, faulty = {}, table[1].log = run.path PROVE WholeLog
  <2>1. /\ TypeOK /\ PageInv /\ ShowsEndOfLog
        /\ page.kind = "job" /\ page.st \in Ended /\ run.pc = "done"
    BY <1>1 DEF IInv, Final, Ended
  <2>2. table # <<>>
    BY <2>1 DEF PageInv
  <2>3. run.path \in Paths
    BY <1>1, <2>1, <2>2, FirstRow DEF TypeOK
  <2>4. page.upTo = Len(run.out)
    BY <1>1, <2>1, <2>3 DEF PageInv
  <2>5. SubSeq(run.out, 1, Len(run.out)) = run.out
    BY <2>1, NoTexts DEF TypeOK
  <2> QED BY <2>1, <2>4, <2>5 DEF ShowsEndOfLog, WholeLog
<1>2. IInv => FinalPageIsWhole
  BY <1>1 DEF FinalPageIsWhole
<1> QED BY PagesInvariance, <1>2, PTL

\* Whoever is shown a job or finds it in a list owns it, and the list has the latest
\* of the user's jobs in order up to the limit, for tables and limits of any size,
\* negative ones as well.
THEOREM ShownToOwners == Spec => OwnJobsOnly
<1>1. IInv /\ [Next]_vars => [page' # page => ShownToOwner(page')]_vars
  BY StepInv
<1> QED BY PagesInvariance, <1>1, PTL DEF Spec, OwnJobsOnly

------------------------------------------------------------------------------
(* The first job's row is a row of JobBoard, as the rows of JobLifecycle   *)
(* are: what this model leaves out of the life of a job, its container,    *)
(* queue and webhook, takes nothing away from what a client may rely on.   *)

FirstStatus == IF table = <<>> THEN "none" ELSE Status

\* Start has still to come, or would if the job had not been cancelled.
FirstStarting ==
  table # <<>> /\ run.pc = "none" /\ Status \in {"queued", "cancelled"}

FirstReport == IF run.pc \in {"done", "lost"} THEN "closed" ELSE "open"

Board == INSTANCE JobBoard WITH
  Jobs <- {1},
  status <- [j \in {1} |-> FirstStatus],
  starting <- IF FirstStarting THEN {1} ELSE {},
  report <- [j \in {1} |-> FirstReport],
  posted <- [j \in {1} |-> "none"]

\* The board's variables depend on the first row and on run alone.
LEMMA BoardSame ==
  ASSUME FirstStatus' = FirstStatus, FirstStarting' = FirstStarting, FirstReport' = FirstReport
  PROVE  UNCHANGED Board!boardVars
  BY DEF Board!boardVars

\* A write to the first row.
LEMMA MarkedStatus ==
  ASSUME TypeOK, table # <<>>, NEW st \in Active \cup Terminal, Marked(st)
  PROVE  table' # <<>> /\ FirstStatus' = st /\ FirstStatus = Status /\ Status' = st
  BY DEF TypeOK, Marked, FirstStatus, Status, Rows

LEMMA BoardInit == Init => Board!Init
  BY DEF Init, Board!Init, FirstStatus, FirstStarting, FirstReport, NoRun

\* The first row is inserted, or the row is not the first.
LEMMA BoardCreate ==
  ASSUME IInv, NEW u \in Users, NEW p \in LogPaths, Create(u, p)
  PROVE  Board!Next \/ UNCHANGED Board!boardVars
<1>1. table \in Seq(Rows) /\ (run.pc # "none" => table # <<>>)
  BY DEF IInv, TypeOK, RowsInv
<1>2. table' # <<>>
  BY <1>1 DEF Create
<1>3. CASE table = <<>> /\ run' = [run EXCEPT !.path = p]
  <2>1. run.pc = "none" /\ run'.pc = "none" /\ table'[1].st = "queued"
    BY <1>1, <1>3 DEF Create, IInv, TypeOK
  <2>2. /\ FirstStatus = "none" /\ FirstStatus' = "queued"
        /\ ~FirstStarting /\ FirstStarting'
        /\ FirstReport' = FirstReport
    BY <1>2, <1>3, <2>1 DEF FirstStatus, FirstStarting, FirstReport, Status
  <2>3. Board!Submit(1)
    BY <2>2 DEF Board!Submit, Board!Set
  <2> QED BY <2>3 DEF Board!Next
<1>4. CASE table # <<>> /\ UNCHANGED run
  <2>1. table'[1] = table[1]
    BY <1>1, <1>4 DEF Create
  <2>2. FirstStatus' = FirstStatus /\ FirstStarting' = FirstStarting /\ FirstReport' = FirstReport
    BY <1>2, <1>4, <2>1 DEF FirstStatus, FirstStarting, FirstReport, Status
  <2> QED BY <2>2, BoardSame
<1> QED BY <1>3, <1>4 DEF Create

LEMMA BoardStart ==
  ASSUME IInv, Start
  PROVE  Board!Next
<1>1. TypeOK /\ table # <<>> /\ run.pc = "none" /\ Status = "queued"
  BY DEF IInv, Start
<1>2. FirstStarting /\ FirstReport = "open"
  BY <1>1 DEF FirstStarting, FirstReport
<1>3. CASE Marked("running") /\ run' = [run EXCEPT !.pc = "wait"]
  <2>1. FirstStatus' = "running"
    BY <1>1, <1>3, MarkedStatus DEF Active
  <2>2. run'.pc = "wait"
    BY <1>1, <1>3 DEF TypeOK
  <2>3. ~FirstStarting' /\ FirstReport' = "open"
    BY <2>2 DEF FirstStarting, FirstReport
  <2>4. Board!Start(1)
    BY <1>2, <2>1, <2>3 DEF Board!Start, Board!Set
  <2> QED BY <2>4 DEF Board!Next
<1>4. CASE Marked("failed") /\ UNCHANGED run
  <2>1. FirstStatus' = "failed" /\ Status' = "failed"
    BY <1>1, <1>4, MarkedStatus DEF Terminal, Ended
  <2>2. ~FirstStarting' /\ FirstReport' = "open"
    BY <1>1, <1>4, <2>1 DEF FirstStarting, FirstReport
  <2>3. Board!Start(1)
    BY <1>2, <2>1, <2>2 DEF Board!Start, Board!Set
  <2> QED BY <2>3 DEF Board!Next
<1> QED BY <1>3, <1>4 DEF Start

LEMMA BoardCancel ==
  ASSUME IInv, Cancel
  PROVE  Board!Next
<1>1. TypeOK /\ RowsInv /\ table # <<>> /\ Status \in Active /\ UNCHANGED run
  BY DEF IInv, Cancel
<1>2. table' # <<>> /\ FirstStatus' = "cancelled" /\ FirstStatus = Status /\ Status' = "cancelled"
  BY <1>1, MarkedStatus DEF Cancel, Terminal
<1>3. FirstStarting' = FirstStarting /\ FirstReport' = FirstReport
  BY <1>1, <1>2 DEF FirstStarting, FirstReport, RowsInv, Active
<1>4. Board!Cancel(1)
  BY <1>1, <1>2, <1>3 DEF Board!Cancel, Board!Set, Active
<1> QED BY <1>4 DEF Board!Next

\* The supervisor is done or lost: the outcome is written, or never will be.
LEMMA BoardReport ==
  ASSUME IInv, run.pc \notin {"none", "done", "lost"},
         NEW pc \in {"done", "lost"}, run' = [run EXCEPT !.pc = pc],
         \/ \E st \in Ended : Marked(st)
         \/ UNCHANGED table
  PROVE  Board!Next
<1>1. TypeOK /\ table # <<>> /\ run'.pc = pc
  BY DEF IInv, TypeOK, RowsInv
<1>2. ~FirstStarting /\ ~FirstStarting' /\ FirstReport = "open" /\ FirstReport' = "closed"
  BY <1>1 DEF FirstStarting, FirstReport
<1>3. ASSUME NEW st \in Ended, Marked(st) PROVE Board!Next
  <2>1. FirstStatus' = st /\ FirstStatus = Status
    BY <1>1, <1>3, MarkedStatus DEF Terminal
  <2>2. Status \in Active \cup Terminal /\ "none" \notin Active \cup Terminal
    BY <1>1, FirstRow DEF TypeOK, Active, Terminal, Ended
  <2>3. st \in Board!Outcomes
    BY DEF Ended, Board!Outcomes
  <2>4. Board!Report(1)
    BY <1>2, <2>1, <2>2, <2>3 DEF Board!Report, Board!Set
  <2> QED BY <2>4 DEF Board!Next
<1>4. CASE UNCHANGED table
  <2>1. FirstStatus' = FirstStatus
    BY <1>4 DEF FirstStatus, Status
  <2>2. Board!Lose
    BY <1>2, <2>1 DEF Board!Lose
  <2> QED BY <2>2 DEF Board!Next
<1> QED BY <1>3, <1>4

\* The steps of the supervisor before its last one, and those of the browser.
LEMMA BoardQuiet ==
  ASSUME IInv, UNCHANGED table,
         \/ UNCHANGED run
         \/ /\ run.pc \in {"wait", "open", "copy", "collect"}
            /\ run'.pc \in {"open", "copy", "collect", "report"}
  PROVE  UNCHANGED Board!boardVars
<1>1. FirstStatus' = FirstStatus
  BY DEF FirstStatus, Status
<1>2. FirstStarting' = FirstStarting /\ FirstReport' = FirstReport
  BY DEF FirstStarting, FirstReport, Status
<1> QED BY <1>1, <1>2, BoardSame

LEMMA BoardSupervise ==
  ASSUME IInv, Supervise
  PROVE  Board!Next \/ UNCHANGED Board!boardVars
<1>1. run \in [pc : {"none", "wait", "open", "copy", "collect", "report", "done", "lost"},
              path : Paths \cup {NoPath}, out : Texts, tail : Texts]
  BY DEF IInv, TypeOK
<1>2. CASE ContainerEnds
  BY <1>1, <1>2, BoardQuiet DEF ContainerEnds
<1>3. CASE OpenLog
  BY <1>1, <1>3, BoardQuiet DEF OpenLog
<1>4. CASE CopyLog
  BY <1>4, BoardQuiet DEF CopyLog
<1>5. CASE CopyEnds
  BY <1>1, <1>5, BoardQuiet DEF CopyEnds
<1>6. CASE Collect
  BY <1>1, <1>6, BoardQuiet DEF Collect
<1>7. CASE Report
  BY <1>7, BoardReport DEF Report, Ended
<1> QED BY <1>2, <1>3, <1>4, <1>5, <1>6, <1>7 DEF Supervise

LEMMA BoardBrowse ==
  ASSUME IInv, Browse
  PROVE  UNCHANGED Board!boardVars
<1>1. UNCHANGED <<table, run>>
  BY DEF Browse, Refresh, GetJob, Render, Dashboard, ListJobs, Poll, OpenTail, ReadTail
<1> QED BY <1>1, BoardQuiet

\* Every step is a step of the board or leaves it as it is.
LEMMA BoardStep ==
  ASSUME IInv, [Next]_vars
  PROVE  [Board!Next]_Board!boardVars
<1>1. CASE UNCHANGED vars
  BY <1>1, BoardQuiet DEF vars
<1>2. ASSUME NEW u \in Users, NEW p \in LogPaths, Create(u, p)
      PROVE  [Board!Next]_Board!boardVars
  BY <1>2, BoardCreate
<1>3. CASE Start \/ Cancel
  BY <1>3, BoardStart, BoardCancel
<1>4. CASE Restart
  BY <1>4, BoardReport DEF Restart, Ended
<1>5. CASE Supervise
  BY <1>5, BoardSupervise
<1>6. CASE Browse
  BY <1>6, BoardBrowse
<1> QED BY <1>1, <1>2, <1>3, <1>4, <1>5, <1>6 DEF Next

\* The statuses that the pages read change as JobBoard has it, which JobLifecycle
\* implements too: the first row is written by a request once, by a report or a
\* start-up once, and by cancels, and the pages never see a status that the
\* lifecycle rules out.
THEOREM FirstJobOnBoard == Spec => Board!Spec
<1>1. IInv /\ [Next]_vars => [Board!Next]_Board!boardVars
  BY BoardStep
<1> QED BY BoardInit, PagesInvariance, <1>1, PTL DEF Spec, Board!Spec

=============================================================================
