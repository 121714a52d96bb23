----------------------------- MODULE SolveProofs -----------------------------
(* For any directories, flags and answers, any number of runs and any moment   *)
(* at which a container dies: what the table and the exit code of solve and    *)
(* bench say is what the runs left on disk.                                    *)
EXTENDS SolveRun, SequenceTheorems, TLAPS

Active == {"running", "ended", "mark"}
Rows == [dir : Dirs, ran : Nat, of : Nat,
         status : Statuses \cup {"error"}, flag : Flags \cup {NoFlag}]

(* Types; a run is only started when the bound allows all that were asked for. *)
HostInv ==
  /\ cmd \in {"none", "solve", "bench"}
  /\ todo \in Seq(Dirs) /\ asked \in Seq(Dirs) /\ rows \in Seq(Rows)
  /\ pc \in {"idle", "next"} \cup Active
  /\ pc \in Active => todo # << >>
  /\ before \in Nat /\ rc \in {0, 1, 3, 137} /\ exit \in {0, 1, 2, 3, 130, 137}
RunsInv ==
  /\ run \in 0..MaxRuns
  /\ pc = "next" => run + Len(todo) <= MaxRuns
  /\ pc \in Active => run + Len(todo) <= MaxRuns + 1 /\ run >= 1
DiskInv ==
  /\ found \in Flags \cup {NoFlag}
  /\ result \in [Dirs -> Results] /\ mtime \in [Dirs -> Nat]
  /\ history \in [Dirs -> SUBSET (1..MaxRuns)]
  /\ quits \subseteq (1..MaxRuns) \X Codes
SessionInv ==
  /\ phase \in {"open", "decided", "written", "returned", "raised", "exited"}
  /\ accepted \in {"nothing", "flag", "runbook"}
  /\ phase = "open" => status = "unsolved"
  /\ phase # "open" => status = Run!StatusOf(accepted)
  /\ accepted = "flag" => found \in Flags

LEMMA StatusOfIs ==
  /\ Run!StatusOf("flag") = "solved"
  /\ Run!StatusOf("runbook") = "runbook"
  /\ Run!StatusOf("nothing") = "unsolved"
BY DEF Run!StatusOf

LEMMA ResultTypes ==
  ASSUME run \in 0..MaxRuns, NEW s \in Statuses, NEW f \in Flags \cup {NoFlag}
  PROVE  /\ ResultOf(s, f) \in Results /\ NoResult \in Results
         /\ ResultOf(s, f).run = run /\ ResultOf(s, f).status = s /\ ResultOf(s, f).flag = f
         /\ NoResult.run = 0 /\ NoResult.status = "none" /\ NoResult.flag = NoFlag
BY SolveAssumption DEF ResultOf, NoResult, Results, Statuses

LEMMA DirIs ==
  ASSUME HostInv, pc \in Active
  PROVE  Dir \in Dirs
BY HeadTailProperties DEF HostInv, Dir

LEMMA TailIs ==
  ASSUME NEW q \in Seq(Dirs), q # << >>
  PROVE  Tail(q) \in Seq(Dirs) /\ Len(Tail(q)) = Len(q) - 1 /\ Len(q) \in Nat /\ Len(q) >= 1
<1>1. Len(q) \in Nat /\ Len(q) # 0
  BY EmptySeq
<1> QED
  BY <1>1, HeadTailProperties

(* What a store leaves. *)
LEMMA Stored ==
  ASSUME HostInv, DiskInv, pc \in Active, NEW r \in Results, Store(r)
  PROVE  /\ result' \in [Dirs -> Results] /\ mtime' \in [Dirs -> Nat]
         /\ result'[Dir] = r /\ mtime'[Dir] = mtime[Dir] + 1
         /\ \A d \in Dirs \ {Dir} : result'[d] = result[d]
<1>1. Dir \in Dirs
  BY DirIs
<1> QED
  BY <1>1 DEF DiskInv, Store

LEMMA ReportIs ==
  ASSUME HostInv, DiskInv, pc = "ended"
  PROVE  /\ Report \in {Error, result[Dir]}
         /\ Report # Error => /\ Report = result[Dir]
                              /\ result[Dir].status \notin {"none", "torn"}
                              /\ ~ (~ sandbox /\ phase = "raised")
                              /\ ~ (sandbox /\ rc # 0 /\ ~ Fresh)
BY DEF Report

LEMMA RowIs ==
  ASSUME HostInv, DiskInv, RunsInv, pc = "ended"
  PROVE  LET r == CheckAnswer(Dir, Report)
             row == [dir |-> Dir, ran |-> run, of |-> r.run, status |-> r.status, flag |-> r.flag]
         IN  /\ row \in Rows /\ row.dir = Dir /\ row.ran = run /\ row.of = Report.run
             /\ row.flag = Report.flag
             /\ row.status = "error" <=> Report = Error
             /\ row.status = "solved" => Expected[Dir] \in {NoFlag, row.flag}
<1> DEFINE r == CheckAnswer(Dir, Report)
           d == Dir
           p == Report
<1>1. d \in Dirs
  BY DirIs DEF Active
<1>2. p \in {Error, result[d]} /\ result[d] \in Results
  BY <1>1, ReportIs DEF DiskInv
<1>3. run \in Nat
  BY SolveAssumption DEF RunsInv
<1>4. r = IF Contradicted(d, p) THEN [p EXCEPT !.status = "wrong"] ELSE p
  BY DEF CheckAnswer
<1> HIDE DEF p, d, r
<1>5. p \in [run : Nat, status : Statuses \cup {"error"}, flag : Flags \cup {NoFlag}]
      /\ (p.status = "error" <=> p = Error)
  BY <1>2, SolveAssumption DEF Error, Results, Statuses
<1>6. r \in [run : Nat, status : Statuses \cup {"error"}, flag : Flags \cup {NoFlag}]
      /\ r.run = p.run /\ r.flag = p.flag
      /\ r.status = (IF Contradicted(d, p) THEN "wrong" ELSE p.status)
  BY <1>4, <1>5 DEF Statuses
<1>7. r.status = "error" <=> p = Error
  BY <1>5, <1>6 DEF Contradicted
<1>8. r.status = "solved" => Expected[d] \in {NoFlag, r.flag}
  BY <1>6 DEF Contradicted
<1> DEFINE row == [dir |-> d, ran |-> run, of |-> r.run, status |-> r.status, flag |-> r.flag]
<1>9. row \in Rows /\ row.dir = d /\ row.ran = run /\ row.of = r.run /\ row.status = r.status
      /\ row.flag = r.flag
  BY <1>1, <1>3, <1>6 DEF Rows
<1> QED
  BY <1>6, <1>7, <1>8, <1>9 DEF p, d, r

-----------------------------------------------------------------------------
(* What one run has left in its directory so far, by what it has done. *)
Mine == ResultOf(status, found)
Torn == ResultOf("torn", NoFlag)

RunInv ==
  pc \in {"running", "ended"} =>
    /\ mtime[Dir] # before => result[Dir] = NoResult \/ result[Dir].run = run
    /\ phase \in {"written", "returned"} => result[Dir] = Mine
    /\ result[Dir].run = run =>
         \/ result[Dir] = Torn
         \/ /\ result[Dir] = Mine
            /\ phase \in {"written", "returned"} \/ (phase = "raised" /\ status = "unsolved")
EndInv ==
  pc = "ended" =>
    \/ rc = 137 /\ sandbox
    \/ rc = 1 /\ phase = "raised"
    \/ rc = ExitOf(status) /\ phase = "returned" /\ run \in history[Dir]
    \/ sandbox /\ phase = "exited" /\ <<run, rc>> \in quits
MarkInv ==
  pc = "mark" => /\ cmd = "solve" /\ result[Dir].flag \in Flags
                 /\ Expected[Dir] \notin {NoFlag, result[Dir].flag}
PastInv == \A d \in Dirs : result[d].run <= run
WrongInv == \A d \in Dirs :
              /\ result[d].status = "solved" => result[d].flag \in Flags
              /\ result[d].status = "wrong" =>
                   result[d].flag \in Flags /\ Expected[d] \notin {NoFlag, result[d].flag}
RowInv == \A i \in 1..Len(rows) :
            /\ rows[i].status # "error" => rows[i].of = rows[i].ran \/ <<rows[i].ran, 0>> \in quits
            /\ rows[i].status = "solved" => Expected[rows[i].dir] \in {NoFlag, rows[i].flag}
IdleInv ==
  pc = "idle" /\ cmd = "solve" =>
    /\ <<run, exit>> \notin quits =>
         /\ exit = 0 => result[Dir].run = run /\ Proven(Dir, result[Dir]) /\ run \in history[Dir]
         /\ exit = 3 => result[Dir].run = run /\ result[Dir].status = "runbook"
    /\ exit \in {0, 1, 3} /\ run > 0 /\ result[Dir].run = run => ~ Contradicted(Dir, result[Dir])
BenchInv ==
  pc = "idle" /\ cmd = "bench" /\ exit = 0 /\ <<run, exit>> \notin quits =>
    \A i \in 1..Len(rows) : rows[i].status = "solved"

Inv ==
  /\ HostInv /\ RunsInv /\ DiskInv /\ SessionInv
  /\ RunInv /\ EndInv /\ MarkInv /\ PastInv /\ WrongInv /\ RowInv /\ IdleInv /\ BenchInv

LEMMA SolveInit == Init => Inv
<1> SUFFICES ASSUME Init PROVE Inv
  OBVIOUS
<1>1. << >> \in Seq(Dirs) /\ << >> \in Seq(Rows) /\ Len(<< >>) = 0
  OBVIOUS
<1>2. /\ cmd = "none" /\ todo = << >> /\ asked = << >> /\ rows = << >> /\ pc = "idle"
      /\ before = 0 /\ rc = 0 /\ exit = 0 /\ run = 0 /\ found = NoFlag
      /\ result = [d \in Dirs |-> NoResult] /\ mtime = [d \in Dirs |-> 0]
      /\ history = [d \in Dirs |-> {}]
      /\ phase = "open" /\ accepted = "nothing" /\ status = "unsolved" /\ quits = {}
  BY DEF Init, Run!Init
<1>3. HostInv
  BY <1>1, <1>2 DEF HostInv, Active
<1>4. RunsInv
  BY <1>2, SolveAssumption DEF RunsInv, Active
<1>5. NoResult \in Results /\ NoResult.run = 0 /\ NoResult.status = "none"
  BY SolveAssumption DEF NoResult, Results, Statuses
<1>6. DiskInv
  BY <1>2, <1>5 DEF DiskInv
<1>7. SessionInv
  BY <1>2 DEF SessionInv
<1>8. PastInv /\ WrongInv
  BY <1>2, <1>5 DEF PastInv, WrongInv
<1>9. RunInv /\ EndInv /\ MarkInv /\ IdleInv /\ BenchInv
  BY <1>2 DEF RunInv, EndInv, MarkInv, IdleInv, BenchInv
<1>10. RowInv
  BY <1>1, <1>2 DEF RowInv
<1> QED
  BY <1>3, <1>4, <1>6, <1>7, <1>8, <1>9, <1>10 DEF Inv

-----------------------------------------------------------------------------
(* The host's steps. *)
LEMMA InvokeStep ==
  ASSUME Inv, NEW c \in {"solve", "bench"}, NEW dirs \in Seq(Dirs), Invoke(c, dirs)
  PROVE  Inv'
<1>1. /\ pc = "idle" /\ run + Len(dirs) <= MaxRuns /\ cmd' = c /\ todo' = dirs /\ asked' = dirs
      /\ rows' = << >>
      /\ (pc' = "next" /\ exit' = exit) \/ (pc' = "idle" /\ exit' = 2)
      /\ before' = before /\ rc' = rc /\ run' = run /\ found' = found
      /\ result' = result /\ mtime' = mtime /\ history' = history /\ quits' = quits
      /\ phase' = phase /\ accepted' = accepted /\ status' = status
  BY DEF Invoke, disk, agent, session
<1>2. << >> \in Seq(Rows) /\ Len(<< >>) = 0
  OBVIOUS
<1>3. HostInv'
  BY <1>1, <1>2 DEF Inv, HostInv, Active
<1>4. RunsInv'
  BY <1>1 DEF Inv, RunsInv, Active
<1>5. DiskInv' /\ SessionInv' /\ PastInv' /\ WrongInv'
  BY <1>1 DEF Inv, DiskInv, SessionInv, PastInv, WrongInv
<1>6. RunInv' /\ EndInv' /\ MarkInv' /\ IdleInv' /\ BenchInv'
  BY <1>1 DEF RunInv, EndInv, MarkInv, IdleInv, BenchInv
<1>7. RowInv'
  BY <1>1, <1>2 DEF RowInv
<1> QED
  BY <1>3, <1>4, <1>5, <1>6, <1>7 DEF Inv

LEMMA StartStep ==
  ASSUME Inv, StartRun
  PROVE  Inv'
<1>1. /\ pc = "next" /\ todo # << >> /\ pc' = "running" /\ before' = mtime[Dir]
      /\ run' = run + 1 /\ found' = NoFlag
      /\ phase' = "open" /\ accepted' = "nothing" /\ status' = "unsolved"
      /\ cmd' = cmd /\ asked' = asked /\ todo' = todo /\ rc' = rc /\ rows' = rows /\ exit' = exit
      /\ result' = result /\ mtime' = mtime /\ history' = history /\ quits' = quits
  BY DEF StartRun, cli, disk
<1>2. todo \in Seq(Dirs) /\ Dir \in Dirs /\ Dir' = Dir
  BY <1>1, HeadTailProperties DEF Inv, HostInv, Dir
<1>3. mtime[Dir] \in Nat
  BY <1>2 DEF Inv, DiskInv
<1>4. HostInv'
  BY <1>1, <1>3 DEF Inv, HostInv, Active
<1>5. Len(todo) >= 1 /\ Len(todo) \in Nat
  BY <1>1, <1>2, TailIs
<1>6. RunsInv'
  BY <1>1, <1>5, SolveAssumption DEF Inv, RunsInv, Active
<1>7. DiskInv' /\ SessionInv' /\ WrongInv'
  BY <1>1 DEF Inv, DiskInv, SessionInv, WrongInv
<1>8. \A d \in Dirs : result[d].run \in Nat
  BY SolveAssumption DEF Inv, DiskInv, Results
<1>9. run \in Nat /\ \A d \in Dirs : result[d].run <= run
  BY SolveAssumption DEF Inv, RunsInv, PastInv
<1>10. PastInv'
  BY <1>1, <1>8, <1>9 DEF PastInv
<1>11. RunInv'
  <2>1. result'[Dir'].run # run'
    BY <1>1, <1>2, <1>8, <1>9
  <2> QED
    BY <1>1, <1>2, <2>1 DEF RunInv
<1>12. EndInv' /\ MarkInv' /\ IdleInv' /\ BenchInv' /\ RowInv'
  BY <1>1 DEF Inv, EndInv, MarkInv, IdleInv, BenchInv, RowInv
<1> QED
  BY <1>4, <1>6, <1>7, <1>10, <1>11, <1>12 DEF Inv

-----------------------------------------------------------------------------
(* The steps of a run, which leave the host alone. *)
LEMMA InRun ==
  ASSUME Inv, pc = "running", UNCHANGED host, run' = run, quits' = quits,
         DiskInv', SessionInv', RunInv', PastInv', WrongInv'
  PROVE  Inv'
<1>1. /\ cmd' = cmd /\ asked' = asked /\ todo' = todo /\ pc' = pc /\ before' = before
      /\ rc' = rc /\ rows' = rows /\ exit' = exit
  BY DEF host, cli
<1>2. HostInv' /\ RunsInv' /\ RowInv'
  BY <1>1 DEF Inv, HostInv, RunsInv, RowInv
<1>3. EndInv' /\ MarkInv' /\ IdleInv' /\ BenchInv'
  BY <1>1 DEF EndInv, MarkInv, IdleInv, BenchInv
<1> QED
  BY <1>2, <1>3 DEF Inv

LEMMA AcceptsStep ==
  ASSUME Inv, NEW f \in Flags, Accepts(f)
  PROVE  Inv'
<1>1. /\ pc = "running" /\ UNCHANGED host /\ run' = run /\ quits' = quits
      /\ result' = result /\ mtime' = mtime /\ history' = history
      /\ phase = "open" /\ phase' = phase /\ status' = status
      /\ \/ accepted' = "flag" /\ found' = f
         \/ accepted' = "runbook" /\ found' = found
  BY DEF Accepts, disk, Run!Accept
<1>2. pc' = pc /\ todo' = todo /\ before' = before
  BY <1>1 DEF host
<1>3. DiskInv' /\ PastInv' /\ WrongInv' /\ SessionInv'
  BY <1>1 DEF Inv, DiskInv, PastInv, WrongInv, SessionInv
<1>4. RunInv'
  BY <1>1, <1>2 DEF Inv, RunInv, Dir, Mine, Torn, ResultOf
<1> QED
  BY <1>1, <1>3, <1>4, InRun

LEMMA DecidesStep ==
  ASSUME Inv, Decides
  PROVE  Inv'
<1>1. /\ pc = "running" /\ UNCHANGED host /\ run' = run /\ found' = found /\ quits' = quits
      /\ result' = result /\ mtime' = mtime /\ history' = history
      /\ phase = "open" /\ phase' = "decided" /\ accepted' = accepted
      /\ status' = Run!StatusOf(accepted)
  BY DEF Decides, disk, Run!Decide
<1>2. pc' = pc /\ todo' = todo /\ before' = before
  BY <1>1 DEF host
<1>3. DiskInv' /\ PastInv' /\ WrongInv' /\ SessionInv'
  BY <1>1 DEF Inv, DiskInv, PastInv, WrongInv, SessionInv
<1>4. RunInv'
  BY <1>1, <1>2 DEF Inv, RunInv, Dir, Torn, ResultOf
<1> QED
  BY <1>1, <1>3, <1>4, InRun

(* Steps that store a result, while the run is not over. *)
LEMMA StoresStep ==
  ASSUME Inv, pc = "running", UNCHANGED host, run' = run, quits' = quits,
         history' \in [Dirs -> SUBSET (1..MaxRuns)], found' = found, SessionInv', NEW r \in Results, Store(r),
         r = NoResult \/ r.run = run, r.status # "wrong",
         phase' \in {"written", "returned"} => r = Mine',
         r.status = "solved" => r.flag \in Flags,
         r.run = run => \/ r = Torn
                        \/ r = Mine' /\ phase' = "written"
  PROVE  Inv'
<1>1. pc' = pc /\ todo' = todo /\ before' = before
  BY DEF host
<1>2. Dir \in Dirs /\ Dir' = Dir
  BY <1>1, DirIs DEF Inv, Active, Dir
<1>3. /\ result' \in [Dirs -> Results] /\ mtime' \in [Dirs -> Nat]
      /\ result'[Dir] = r /\ mtime'[Dir] = mtime[Dir] + 1
      /\ \A d \in Dirs \ {Dir} : result'[d] = result[d]
  BY Stored DEF Inv, Active
<1>4. DiskInv'
  BY <1>3 DEF Inv, DiskInv
<1>5. run \in Nat /\ r.run <= run
  BY SolveAssumption DEF Inv, RunsInv, NoResult
<1>6. PastInv' /\ WrongInv'
  BY <1>3, <1>5 DEF Inv, PastInv, WrongInv
<1>7. Torn' = Torn
  BY DEF Torn, ResultOf
<1>8. RunInv'
  BY <1>1, <1>2, <1>3, <1>7 DEF RunInv
<1> QED
  BY <1>4, <1>6, <1>8, InRun

LEMMA DeletesStep ==
  ASSUME Inv, DeletesResult
  PROVE  Inv'
<1>1. /\ pc = "running" /\ phase = "open" /\ Store(NoResult) /\ UNCHANGED host
      /\ run' = run /\ found' = found /\ quits' = quits
      /\ phase' = phase /\ accepted' = accepted /\ status' = status
  BY DEF DeletesResult, agent, session
<1>2. NoResult \in Results /\ NoResult.run = 0 /\ NoResult.status = "none"
  BY SolveAssumption DEF NoResult, Results, Statuses
<1>3. run >= 1 /\ run \in Nat
  BY <1>1, SolveAssumption DEF Inv, RunsInv, Active
<1>4. SessionInv'
  BY <1>1 DEF Inv, SessionInv
<1>5. history' \in [Dirs -> SUBSET (1..MaxRuns)]
  BY DEF Inv, DiskInv, DeletesResult
<1> HIDE DEF NoResult
<1> QED
  BY <1>1, <1>2, <1>3, <1>4, <1>5, StoresStep

LEMMA OpensStep ==
  ASSUME Inv, OpensResult
  PROVE  Inv'
<1>1. /\ pc = "running" /\ phase = "decided" /\ Store(Torn) /\ UNCHANGED host
      /\ history' = history /\ run' = run /\ found' = found /\ quits' = quits
      /\ phase' = phase /\ accepted' = accepted /\ status' = status
  BY DEF OpensResult, agent, session, Torn
<1>2. Torn \in Results /\ Torn.run = run /\ Torn.status = "torn"
  BY ResultTypes DEF Torn, Inv, RunsInv, Statuses
<1>4. SessionInv' /\ history' \in [Dirs -> SUBSET (1..MaxRuns)]
  BY <1>1 DEF Inv, SessionInv, DiskInv
<1> QED
  BY <1>1, <1>2, <1>4, StoresStep

LEMMA WritesStep ==
  ASSUME Inv, WritesResult
  PROVE  Inv'
<1>1. /\ pc = "running" /\ phase = "decided" /\ phase' = "written" /\ Store(Mine) /\ UNCHANGED host
      /\ history' = history /\ run' = run /\ found' = found /\ quits' = quits
      /\ accepted' = accepted /\ status' = status
  BY DEF WritesResult, Run!Write, Mine
<1>2. status \in {"solved", "runbook", "unsolved"}
  BY <1>1, StatusOfIs DEF Inv, SessionInv
<1>3. Mine \in Results /\ Mine.run = run /\ Mine.status = status /\ Mine.flag = found
  BY <1>2, ResultTypes DEF Mine, Inv, RunsInv, DiskInv, Statuses
<1>4. Mine' = Mine
  BY <1>1 DEF Mine, ResultOf
<1>5. SessionInv' /\ history' \in [Dirs -> SUBSET (1..MaxRuns)]
  BY <1>1 DEF Inv, SessionInv, DiskInv
<1>6. status = "solved" => found \in Flags
  BY <1>1, StatusOfIs DEF Inv, SessionInv
<1> QED
  BY <1>1, <1>2, <1>3, <1>4, <1>5, <1>6, StoresStep

LEMMA AppendsStep ==
  ASSUME Inv, AppendsHistory
  PROVE  Inv'
<1>1. /\ pc = "running" /\ UNCHANGED host /\ run' = run /\ found' = found /\ quits' = quits
      /\ result' = result /\ mtime' = mtime
      /\ history' = [history EXCEPT ![Dir] = @ \cup {run}]
      /\ phase' = phase /\ accepted' = accepted /\ status' = status
  BY DEF AppendsHistory, agent, session
<1>2. pc' = pc /\ todo' = todo /\ before' = before
  BY <1>1 DEF host
<1>3. run \in 1..MaxRuns
  BY <1>1, SolveAssumption DEF Inv, RunsInv, Active
<1>4. history' \in [Dirs -> SUBSET (1..MaxRuns)]
  BY <1>1, <1>3 DEF Inv, DiskInv
<1>5. DiskInv' /\ PastInv' /\ WrongInv' /\ SessionInv'
  BY <1>1, <1>4 DEF Inv, DiskInv, PastInv, WrongInv, SessionInv
<1>6. RunInv'
  BY <1>1, <1>2 DEF Inv, RunInv, Dir, Mine, Torn, ResultOf
<1> QED
  BY <1>1, <1>5, <1>6, InRun

-----------------------------------------------------------------------------
(* The end of a run. *)
LEMMA EndsStep ==
  ASSUME Inv, pc = "running", NEW code \in {0, 1, 3, 137}, Ended(code),
         accepted' = accepted, status' = status,
         quits \subseteq quits', quits' \subseteq (1..MaxRuns) \X Codes,
         phase' \in {phase, "returned", "raised", "exited"}, phase' = "returned" => phase \in {"written", "returned"},
         phase' = "raised" => phase \in {"decided", "raised"} \/ (phase = "written" /\ status = "unsolved"),
         phase' # phase /\ phase' # "exited" => phase # "open",
         phase' = "exited" => phase = "exited" \/ (phase = "open" /\ accepted = "nothing"),
         \/ code = 137 /\ sandbox
         \/ code = 1 /\ phase' = "raised"
         \/ code = ExitOf(status) /\ phase' = "returned" /\ run \in history[Dir]
         \/ sandbox /\ phase' = "exited" /\ <<run, code>> \in quits'
  PROVE  Inv'
<1>1. /\ pc' = "ended" /\ rc' = code /\ cmd' = cmd /\ asked' = asked /\ todo' = todo
      /\ before' = before /\ rows' = rows /\ exit' = exit /\ sandbox' = sandbox
      /\ result' = result /\ mtime' = mtime /\ history' = history /\ run' = run /\ found' = found
  BY DEF Ended, cli, disk
<1>2. Dir' = Dir /\ Mine' = Mine /\ Torn' = Torn /\ ExitOf(status)' = ExitOf(status)
  BY <1>1 DEF Dir, Mine, Torn, ResultOf, ExitOf
<1>3. HostInv' /\ RunsInv' /\ RowInv'
  BY <1>1 DEF Inv, HostInv, RunsInv, RowInv, Active
<1>4. DiskInv' /\ PastInv' /\ WrongInv'
  BY <1>1 DEF Inv, DiskInv, PastInv, WrongInv
<1>5. SessionInv'
  BY <1>1, StatusOfIs DEF Inv, SessionInv
<1>6. RunInv'
  BY <1>1, <1>2 DEF Inv, RunInv
<1>7. EndInv'
  BY <1>1, <1>2 DEF EndInv
<1>8. MarkInv' /\ IdleInv' /\ BenchInv'
  BY <1>1 DEF MarkInv, IdleInv, BenchInv
<1> QED
  BY <1>3, <1>4, <1>5, <1>6, <1>7, <1>8 DEF Inv

LEMMA RunEnds ==
  ASSUME Inv, Returns \/ Raises \/ ContainerDies
  PROVE  Inv'
<1>0. quits' = quits /\ quits \subseteq (1..MaxRuns) \X Codes
  BY DEF Returns, Raises, ContainerDies, Inv, DiskInv
<1>1. CASE Returns
  <2>1. /\ pc = "running" /\ run \in history[Dir] /\ phase = "written" /\ phase' = "returned"
        /\ accepted' = accepted /\ status' = status /\ Ended(ExitOf(status))
    BY <1>1 DEF Returns, Run!Return
  <2>2. ExitOf(status) \in {0, 1, 3, 137}
    BY DEF ExitOf
  <2> QED
    BY <1>0, <2>1, <2>2, EndsStep
<1>2. CASE Raises
  <2>1. /\ pc = "running" /\ phase' = "raised" /\ accepted' = accepted /\ status' = status
        /\ phase = "decided" \/ (phase = "written" /\ status = "unsolved")
        /\ Ended(1)
    BY <1>2 DEF Raises, Run!Raise
  <2> QED
    BY <1>0, <2>1, EndsStep
<1>3. CASE ContainerDies
  <2>1. /\ pc = "running" /\ sandbox /\ Ended(137)
        /\ phase' = phase /\ accepted' = accepted /\ status' = status
    BY <1>3 DEF ContainerDies, session
  <2>2. phase # "raised" \/ phase = "raised"
    OBVIOUS
  <2> QED
    BY <1>0, <2>1, EndsStep
<1> QED
  BY <1>1, <1>2, <1>3

-----------------------------------------------------------------------------
(* After a run.  What is reported of it is an error or its own result: a       *)
(* container that failed must have written since the run began, and a run that *)
(* returned has written.                                                       *)
LEMMA ReportIsOwn ==
  ASSUME Inv, pc = "ended", Report # Error
  PROVE  Report.run = run \/ <<run, 0>> \in quits
<1>1. /\ Report = result[Dir] /\ result[Dir].status \notin {"none", "torn"}
      /\ ~ (~ sandbox /\ phase = "raised") /\ ~ (sandbox /\ rc # 0 /\ ~ Fresh)
  BY ReportIs DEF Inv
<1>2. NoResult.status = "none"
  BY DEF NoResult
<1>3. Fresh => result[Dir].run = run
  BY <1>1, <1>2 DEF Fresh, Inv, RunInv
<1>4. CASE rc = 137 /\ sandbox
  BY <1>1, <1>3, <1>4
<1>5. CASE rc = 1 /\ phase = "raised"
  BY <1>1, <1>3, <1>5
<1>6. CASE phase = "returned"
  <2>1. result[Dir] = Mine /\ Mine.run = run
    BY <1>6 DEF Inv, RunInv, Mine, ResultOf
  <2> QED
    BY <1>1, <2>1
<1>7. CASE sandbox /\ <<run, rc>> \in quits
  <2>1. CASE rc = 0
    BY <1>7, <2>1
  <2>2. CASE rc # 0
    BY <1>1, <1>3, <1>7, <2>2
  <2> QED
    BY <2>1, <2>2
<1> QED
  BY <1>4, <1>5, <1>6, <1>7 DEF Inv, EndInv

LEMMA AddRowStep ==
  ASSUME Inv, AddRow
  PROVE  Inv'
<1> DEFINE r == CheckAnswer(Dir, Report)
           row == [dir |-> Dir, ran |-> run, of |-> r.run, status |-> r.status, flag |-> r.flag]
<1>1. /\ pc = "ended" /\ cmd = "bench" /\ rows' = Append(rows, row) /\ todo' = Tail(todo)
      /\ pc' = "next" /\ cmd' = cmd /\ asked' = asked /\ before' = before /\ rc' = rc /\ exit' = exit
      /\ result' = result /\ mtime' = mtime /\ history' = history /\ run' = run /\ found' = found
      /\ phase' = phase /\ accepted' = accepted /\ status' = status /\ quits' = quits
  BY DEF AddRow, cli, disk, agent, session
<1>2. /\ row \in Rows /\ row.dir = Dir /\ row.ran = run /\ row.of = Report.run
      /\ row.status = "error" <=> Report = Error
      /\ row.status = "solved" => Expected[Dir] \in {NoFlag, row.flag}
  BY <1>1, RowIs DEF Inv
<1> HIDE DEF row
<1>3. row.status # "error" => row.of = row.ran \/ <<row.ran, 0>> \in quits
  BY <1>1, <1>2, ReportIsOwn
<1>4. todo # << >> /\ todo \in Seq(Dirs) /\ rows \in Seq(Rows)
  BY <1>1 DEF Inv, HostInv, Active
<1>5. /\ rows' \in Seq(Rows) /\ Len(rows') = Len(rows) + 1 /\ Len(rows) \in Nat
      /\ \A i \in 1..Len(rows) : rows'[i] = rows[i]
      /\ rows'[Len(rows) + 1] = row
  BY <1>1, <1>2, <1>4, AppendProperties
<1>6. Tail(todo) \in Seq(Dirs) /\ Len(Tail(todo)) = Len(todo) - 1 /\ Len(todo) \in Nat
  BY <1>4, TailIs
<1>7. HostInv'
  BY <1>1, <1>5, <1>6 DEF Inv, HostInv, Active
<1>8. RunsInv'
  BY <1>1, <1>6, SolveAssumption DEF Inv, RunsInv, Active
<1>9. DiskInv' /\ SessionInv' /\ PastInv' /\ WrongInv'
  BY <1>1 DEF Inv, DiskInv, SessionInv, PastInv, WrongInv
<1>10. RunInv' /\ EndInv' /\ MarkInv' /\ IdleInv' /\ BenchInv'
  BY <1>1 DEF RunInv, EndInv, MarkInv, IdleInv, BenchInv
<1>11. RowInv'
  <2> SUFFICES ASSUME NEW i \in 1..Len(rows')
               PROVE  /\ rows'[i].status # "error" =>
                           rows'[i].of = rows'[i].ran \/ <<rows'[i].ran, 0>> \in quits
                      /\ rows'[i].status = "solved" => Expected[rows'[i].dir] \in {NoFlag, rows'[i].flag}
    BY <1>1 DEF RowInv
  <2>1. CASE i \in 1..Len(rows)
    BY <1>5, <2>1 DEF Inv, RowInv
  <2>2. CASE i = Len(rows) + 1
    BY <1>2, <1>3, <1>5, <2>2
  <2> QED
    BY <1>5, <2>1, <2>2
<1> QED
  BY <1>7, <1>8, <1>9, <1>10, <1>11 DEF Inv

(* Steps that end the invocation without touching the disk. *)
LEMMA ToIdle ==
  ASSUME Inv, pc' = "idle", NEW code \in {0, 1, 2, 3, 130, 137}, exit' = code,
         UNCHANGED <<cli, todo, before, rc, rows, disk, agent>>,
         IdleInv', BenchInv'
  PROVE  Inv'
<1>1. /\ cmd' = cmd /\ asked' = asked /\ todo' = todo /\ before' = before /\ rc' = rc /\ rows' = rows
      /\ result' = result /\ mtime' = mtime /\ history' = history /\ run' = run /\ found' = found
      /\ phase' = phase /\ accepted' = accepted /\ status' = status /\ quits' = quits
  BY DEF cli, disk, agent, session
<1>2. HostInv' /\ RunsInv' /\ RowInv'
  BY <1>1 DEF Inv, HostInv, RunsInv, RowInv, Active
<1>3. DiskInv' /\ SessionInv' /\ PastInv' /\ WrongInv'
  BY <1>1 DEF Inv, DiskInv, SessionInv, PastInv, WrongInv
<1>4. RunInv' /\ EndInv' /\ MarkInv'
  BY DEF RunInv, EndInv, MarkInv
<1> QED
  BY <1>2, <1>3, <1>4 DEF Inv

LEMMA PassStep ==
  ASSUME Inv, PassCode
  PROVE  Inv'
<1>1. /\ pc = "ended" /\ cmd = "solve" /\ ~ NeedsMark /\ pc' = "idle" /\ exit' = rc
      /\ UNCHANGED <<cli, todo, before, rc, rows, disk, agent>>
  BY DEF PassCode
<1>2. /\ cmd' = cmd /\ todo' = todo /\ result' = result /\ history' = history /\ run' = run
      /\ quits' = quits
  BY <1>1 DEF cli, disk, agent
<1>3. rc \in {0, 1, 2, 3, 130, 137}
  BY DEF Inv, HostInv
<1>4. Dir \in Dirs /\ Dir' = Dir
  BY <1>1, <1>2, DirIs DEF Inv, Active, Dir
<1>5. Mine.run = run /\ Mine.status = status /\ Mine.flag = found /\ Torn.status = "torn"
  BY DEF Mine, Torn, ResultOf
<1>6. /\ ExitOf(status) = 0 => status = "solved"
      /\ ExitOf(status) = 3 => status = "runbook"
      /\ ExitOf(status) \in {0, 1, 3} /\ (status = "solved" => ExitOf(status) = 0)
  BY DEF ExitOf
<1>7. phase = "returned" => result[Dir] = Mine
  BY <1>1 DEF Inv, RunInv
<1>8. rc = 0 /\ <<run, rc>> \notin quits =>
                /\ result[Dir].run = run /\ result[Dir].status = "solved" /\ run \in history[Dir]
                /\ Expected[Dir] \in {NoFlag, result[Dir].flag}
  <2> SUFFICES ASSUME rc = 0, <<run, rc>> \notin quits
               PROVE  /\ result[Dir].run = run /\ result[Dir].status = "solved" /\ run \in history[Dir]
                      /\ Expected[Dir] \in {NoFlag, result[Dir].flag}
    OBVIOUS
  <2>1. ExitOf(status) = 0 /\ phase = "returned" /\ run \in history[Dir]
    BY <1>1 DEF Inv, EndInv
  <2>2. result[Dir] = Mine /\ status = "solved"
    BY <1>6, <1>7, <2>1
  <2>3. ~ Contradicted(Dir, result[Dir])
    BY <1>1 DEF NeedsMark
  <2> QED
    BY <1>5, <2>1, <2>2, <2>3 DEF Contradicted
<1>9. rc = 3 /\ <<run, rc>> \notin quits =>
        result[Dir].run = run /\ result[Dir].status = "runbook"
  <2> SUFFICES ASSUME rc = 3, <<run, rc>> \notin quits PROVE result[Dir].run = run /\ result[Dir].status = "runbook"
    OBVIOUS
  <2>1. ExitOf(status) = 3 /\ phase = "returned"
    BY <1>1 DEF Inv, EndInv
  <2> QED
    BY <1>5, <1>6, <1>7, <2>1
<1>10. rc \in {1, 3} /\ result[Dir].run = run => result[Dir].status # "solved"
  <2> SUFFICES ASSUME rc \in {1, 3}, result[Dir].run = run PROVE result[Dir].status # "solved"
    OBVIOUS
  <2>1. CASE phase = "raised"
    BY <1>1, <1>5, <2>1 DEF Inv, RunInv
  <2>2. CASE rc = ExitOf(status) /\ phase = "returned"
    BY <1>5, <1>6, <1>7, <2>2
  <2>3. CASE phase = "exited"
    BY <1>1, <1>5, <2>3 DEF Inv, RunInv
  <2> QED
    BY <1>1, <2>1, <2>2, <2>3 DEF Inv, EndInv
<1>11. IdleInv'
  <2>1. rc = 0 => ~ Contradicted(Dir, result[Dir])
    BY <1>1 DEF NeedsMark
  <2> QED
    BY <1>1, <1>2, <1>4, <1>8, <1>9, <1>10, <2>1 DEF IdleInv, Proven, Contradicted
<1>12. BenchInv'
  BY <1>1, <1>2 DEF BenchInv
<1> QED
  BY <1>1, <1>3, <1>11, <1>12, ToIdle

LEMMA TableStep ==
  ASSUME Inv, PrintTable
  PROVE  Inv'
<1>1. /\ pc = "next" /\ cmd = "bench" /\ pc' = "idle"
      /\ exit' = IF \A i \in 1..Len(rows) : rows[i].status = "solved" THEN 0 ELSE 1
      /\ UNCHANGED <<cli, todo, before, rc, rows, disk, agent>>
  BY DEF PrintTable
<1>2. cmd' = "bench" /\ rows' = rows
  BY <1>1 DEF cli
<1>3. IdleInv' /\ BenchInv'
  BY <1>1, <1>2 DEF IdleInv, BenchInv
<1>4. exit' \in {0, 1}
  BY <1>1
<1> QED
  BY <1>1, <1>3, <1>4, ToIdle

LEMMA InterruptStep ==
  ASSUME Inv, Interrupt
  PROVE  Inv'
<1>1. pc' = "idle" /\ exit' = 130 /\ UNCHANGED <<cli, todo, before, rc, rows, disk, agent>>
  BY DEF Interrupt
<1>2. IdleInv' /\ BenchInv'
  BY <1>1 DEF IdleInv, BenchInv
<1> QED
  BY <1>1, <1>2, ToIdle

(* The mark replaces what lies there as solved, be it of this run or older.    *)
LEMMA MarkStep ==
  ASSUME Inv, OpensMark \/ MarksWrong
  PROVE  Inv'
<1> DEFINE old == result[Dir]
<1>1. /\ pc \in Active /\ cmd' = cmd /\ asked' = asked /\ todo' = todo /\ before' = before
      /\ rc' = rc /\ rows' = rows /\ history' = history /\ run' = run /\ found' = found
      /\ phase' = phase /\ accepted' = accepted /\ status' = status /\ quits' = quits
      /\ pc' \in {"mark", "idle"} /\ exit' \in {exit, 1}
  BY DEF OpensMark, MarksWrong, cli, agent, session, Active
<1>2. PICK s \in {"torn", "wrong"} : Store([old EXCEPT !.status = s])
  BY DEF OpensMark, MarksWrong
<1> DEFINE r == [old EXCEPT !.status = s]
<1>4. Dir \in Dirs /\ Dir' = Dir
  BY <1>1, DirIs DEF Inv, Dir
<1>3. old \in Results /\ r \in Results /\ r.run = old.run /\ r.status = s /\ r.flag = old.flag
  BY <1>4 DEF Inv, DiskInv, Results, Statuses
<1> HIDE DEF r
<1>5. /\ result' \in [Dirs -> Results] /\ mtime' \in [Dirs -> Nat]
      /\ result'[Dir] = r /\ \A d \in Dirs \ {Dir} : result'[d] = result[d]
  <2>1. Store(r)
    BY <1>2 DEF r
  <2> QED
    BY <1>1, <1>3, <2>1, Stored DEF Inv
<1>6. HostInv' /\ RunsInv' /\ RowInv'
  BY <1>1 DEF Inv, HostInv, RunsInv, RowInv, Active
<1>7. DiskInv' /\ SessionInv'
  BY <1>1, <1>5 DEF Inv, DiskInv, SessionInv
<1>8. run \in Nat /\ old.run <= run
  BY <1>4, SolveAssumption DEF Inv, RunsInv, PastInv
<1>9. PastInv'
  BY <1>1, <1>3, <1>4, <1>5, <1>8 DEF Inv, PastInv
<1>10. /\ cmd = "solve" /\ old.flag \in Flags /\ Expected[Dir] \notin {NoFlag, old.flag}
  <2>1. CASE OpensMark
    <3>1. cmd = "solve" /\ Contradicted(Dir, old)
      BY <2>1 DEF OpensMark, NeedsMark
    <3> QED
      BY <1>4, <3>1 DEF Contradicted, Inv, WrongInv
  <2>2. CASE MarksWrong
    BY <2>2 DEF MarksWrong, Inv, MarkInv
  <2> QED
    BY <2>1, <2>2
<1>11. WrongInv'
  BY <1>2, <1>3, <1>4, <1>5, <1>10 DEF Inv, WrongInv
<1>12. RunInv' /\ EndInv' /\ BenchInv'
  BY <1>1, <1>10 DEF RunInv, EndInv, BenchInv
<1>13. MarkInv'
  BY <1>1, <1>3, <1>4, <1>5, <1>10 DEF MarkInv
<1>14. IdleInv'
  <2>1. pc' = "idle" => exit' = 1
    BY DEF OpensMark, MarksWrong
  <2>2. ~ Contradicted(Dir, r)
    BY <1>2, <1>3 DEF Contradicted
  <2>3. result'[Dir'] = r
    BY <1>4, <1>5
  <2> QED
    BY <1>4, <2>1, <2>2, <2>3 DEF IdleInv, Contradicted
<1> QED
  BY <1>6, <1>7, <1>9, <1>11, <1>12, <1>13, <1>14 DEF Inv

(* A tool exits: in a container the run has ended with that code, on the host  *)
(* the invocation has; no result was written by the run.                       *)
LEMMA ExitsStep ==
  ASSUME Inv, NEW code \in Codes, Exits(code)
  PROVE  Inv'
<1>1. /\ pc = "running" /\ phase = "open" /\ accepted = "nothing" /\ phase' = "exited"
      /\ accepted' = accepted /\ status' = status /\ quits' = quits \cup {<<run, code>>}
      /\ code \in {0, 1, 3}
  BY DEF Exits, Run!Exit, Codes
<1>2. run \in 1..MaxRuns
  BY <1>1, SolveAssumption DEF Inv, RunsInv, Active
<1>3. quits \subseteq quits' /\ <<run, code>> \in quits' /\ quits' \subseteq (1..MaxRuns) \X Codes
  BY <1>1, <1>2 DEF Inv, DiskInv
<1>4. CASE sandbox /\ Ended(code)
  BY <1>1, <1>3, <1>4, EndsStep
<1>5. CASE ~ sandbox /\ pc' = "idle" /\ exit' = code
           /\ UNCHANGED <<cli, todo, before, rc, rows, disk, run, found>>
  <2>1. /\ cmd' = cmd /\ asked' = asked /\ todo' = todo /\ before' = before /\ rc' = rc /\ rows' = rows
        /\ result' = result /\ mtime' = mtime /\ history' = history /\ run' = run /\ found' = found
    BY <1>5 DEF cli, disk
  <2>2. HostInv' /\ RunsInv' /\ RowInv'
    BY <1>1, <1>3, <1>5, <2>1 DEF Inv, HostInv, RunsInv, RowInv, Active
  <2>3. DiskInv' /\ SessionInv' /\ PastInv' /\ WrongInv'
    BY <1>1, <1>3, <2>1, StatusOfIs DEF Inv, DiskInv, SessionInv, PastInv, WrongInv
  <2>4. RunInv' /\ EndInv' /\ MarkInv' /\ BenchInv'
    BY <1>3, <1>5, <2>1 DEF RunInv, EndInv, MarkInv, BenchInv
  <2>5. Dir' = Dir /\ Torn.status = "torn"
    BY <2>1 DEF Dir, Torn, ResultOf
  <2>6. result[Dir].run = run => result[Dir].status # "solved"
    BY <1>1, <2>5 DEF Inv, RunInv
  <2>7. IdleInv'
    BY <1>3, <1>5, <2>1, <2>5, <2>6 DEF IdleInv, Contradicted
  <2> QED
    BY <2>2, <2>3, <2>4, <2>7 DEF Inv
<1> QED
  BY <1>4, <1>5 DEF Exits

LEMMA SolveStep == Inv /\ [Next]_vars => Inv'
<1> SUFFICES ASSUME Inv, [Next]_vars PROVE Inv'
  OBVIOUS
<1>1. ASSUME NEW d \in Dirs, Invoke("solve", <<d>>) PROVE Inv'
  <2>1. <<d>> \in Seq(Dirs)
    OBVIOUS
  <2> QED
    BY <1>1, <2>1, InvokeStep
<1>2. ASSUME NEW n \in 1..MaxRows, NEW dirs \in [1..n -> Dirs], Invoke("bench", dirs) PROVE Inv'
  <2>1. dirs \in Seq(Dirs)
    OBVIOUS
  <2> QED
    BY <1>2, <2>1, InvokeStep
<1>3. CASE UNCHANGED vars
  <2>1. /\ cmd' = cmd /\ asked' = asked /\ todo' = todo /\ pc' = pc /\ before' = before
        /\ rc' = rc /\ rows' = rows /\ exit' = exit /\ sandbox' = sandbox
        /\ result' = result /\ mtime' = mtime /\ history' = history /\ run' = run /\ found' = found
        /\ phase' = phase /\ accepted' = accepted /\ status' = status /\ quits' = quits
    BY <1>3 DEF vars, host, cli, disk, agent, session
  <2>2. HostInv' /\ RunsInv' /\ DiskInv' /\ SessionInv' /\ PastInv' /\ WrongInv' /\ RowInv'
    BY <2>1 DEF Inv, HostInv, RunsInv, DiskInv, SessionInv, PastInv, WrongInv, RowInv
  <2>3. Dir' = Dir /\ Mine' = Mine /\ Torn' = Torn
    BY <2>1 DEF Dir, Mine, Torn, ResultOf
  <2>4. RunInv' /\ EndInv' /\ MarkInv'
    BY <2>1, <2>3 DEF Inv, RunInv, EndInv, MarkInv, ExitOf
  <2>5. IdleInv' /\ BenchInv'
    BY <2>1, <2>3 DEF Inv, IdleInv, BenchInv, Proven, Contradicted
  <2> QED
    BY <2>2, <2>4, <2>5 DEF Inv
<1> QED
  BY <1>1, <1>2, <1>3, StartStep, AcceptsStep, DeletesStep, DecidesStep, OpensStep, WritesStep,
     AppendsStep, RunEnds, ExitsStep, AddRowStep, TableStep, PassStep, MarkStep, InterruptStep DEF Next

(* A row of the table that is not an error is about the run that was made for  *)
(* it, never an older result of the directory, whatever killed the container,  *)
(* unless a tool exited from that run with code 0.                             *)
THEOREM RowsAreTrue == Spec => []RowsAreOfTheirRuns
<1>1. Inv => RowsAreOfTheirRuns
  BY DEF Inv, RowInv, RowsAreOfTheirRuns
<1> QED
  BY <1>1, SolveInit, SolveStep, PTL DEF Spec

(* Unless a tool exited with that very code:                                   *)
(* the exit code 0 is only given for this run's own flag, on disk, in the      *)
(* history and not contradicted by ANSWERS.md; 3 only for its runbook; for     *)
(* bench, 0 only when all rows are such flags.                                 *)
THEOREM ExitCodesAreTrue == Spec => []ExitCodeIsTrue
<1>1. Inv => ExitCodeIsTrue
  <2> SUFFICES ASSUME Inv, pc = "idle", <<run, exit>> \notin quits
               PROVE  /\ cmd = "solve" /\ exit = 0 =>
                           result[Dir].run = run /\ Proven(Dir, result[Dir]) /\ run \in history[Dir]
                      /\ cmd = "solve" /\ exit = 3 =>
                           result[Dir].run = run /\ result[Dir].status = "runbook"
                      /\ cmd = "bench" /\ exit = 0 =>
                           \A i \in 1..Len(rows) : Proven(rows[i].dir, rows[i])
    BY DEF ExitCodeIsTrue
  <2>1. cmd = "bench" /\ exit = 0 => \A i \in 1..Len(rows) : Proven(rows[i].dir, rows[i])
    BY DEF Inv, BenchInv, RowInv, Proven
  <2> QED
    BY <2>1 DEF Inv, IdleInv
<1> QED
  BY <1>1, SolveInit, SolveStep, PTL DEF Spec

(* A solve that ended by itself leaves no flag as solved that ANSWERS.md       *)
(* contradicts, and nothing is ever marked wrong that it does not contradict.  *)
THEOREM WrongFlagsAreMarked == Spec => []WrongIsMarked
<1>1. Inv => WrongIsMarked
  BY DEF Inv, IdleInv, WrongInv, WrongIsMarked
<1> QED
  BY <1>1, SolveInit, SolveStep, PTL DEF Spec

-----------------------------------------------------------------------------
(* The table of a bench: rows and what is still to run make up what was asked. *)
MakesUp(done, left, all) ==
  /\ Len(all) = Len(done) + Len(left)
  /\ \A i \in 1..Len(done) : done[i].dir = all[i]
  /\ \A i \in 1..Len(left) : left[i] = all[Len(done) + i]

TableInv ==
  cmd = "bench" =>
    /\ pc \in {"next", "running", "ended"} => MakesUp(rows, todo, asked)
    /\ pc = "idle" /\ exit \in {0, 1} /\ ~ QuitOnHost => MakesUp(rows, todo, asked) /\ todo = << >>

(* A step of a bench between its first directory and its table. *)
Goes == /\ cmd' = cmd /\ todo' = todo /\ rows' = rows /\ asked' = asked
        /\ pc \in {"next", "running", "ended"} /\ pc' \in {"next", "running", "ended"}

LEMMA GoesStep ==
  ASSUME TableInv, Goes
  PROVE  TableInv'
BY DEF TableInv, Goes

LEMMA TableInvStep ==
  ASSUME Inv, TableInv, [Next]_vars
  PROVE  TableInv'
<1>1. ASSUME NEW c \in {"solve", "bench"}, NEW dirs \in Seq(Dirs), Invoke(c, dirs) PROVE TableInv'
  <2>1. /\ todo' = dirs /\ asked' = dirs /\ rows' = << >>
        /\ pc' = "next" \/ (pc' = "idle" /\ exit' = 2)
    BY <1>1 DEF Invoke
  <2>2. Len(<< >>) = 0 /\ Len(dirs) \in Nat
    OBVIOUS
  <2>3. MakesUp(<< >>, dirs, dirs)
    BY <2>2 DEF MakesUp
  <2> QED
    BY <2>1, <2>3 DEF TableInv
<1>2. CASE StartRun
  BY <1>2, GoesStep DEF StartRun, cli, Goes
<1>3. CASE (\E f \in Flags : Accepts(f)) \/ DeletesResult \/ Decides \/ OpensResult \/ WritesResult
           \/ AppendsHistory
  <2>1. pc = "running" /\ UNCHANGED host
    BY <1>3 DEF Accepts, DeletesResult, Decides, OpensResult, WritesResult, AppendsHistory
  <2> QED
    BY <2>1, GoesStep DEF host, cli, Goes
<1>4. CASE Returns \/ Raises \/ ContainerDies
  <2>1. pc = "running" /\ pc' = "ended" /\ UNCHANGED <<cli, todo, rows>>
    BY <1>4 DEF Returns, Raises, ContainerDies, Ended
  <2> QED
    BY <2>1, GoesStep DEF cli, Goes
<1>12. ASSUME NEW code \in Codes, Exits(code) PROVE TableInv'
  <2>1. pc = "running" /\ UNCHANGED <<cli, todo, rows>> /\ <<run, code>> \in quits' /\ run' = run
    BY <1>12 DEF Exits, Ended
  <2>2. CASE pc' = "ended"
    BY <2>1, <2>2, GoesStep DEF cli, Goes
  <2>3. CASE ~ sandbox /\ pc' = "idle"
    <3>1. QuitOnHost'
      BY <2>1, <2>3 DEF cli, QuitOnHost
    <3> QED
      BY <2>3, <3>1 DEF TableInv
  <2> QED
    BY <1>12, <2>2, <2>3 DEF Exits, Ended
<1>5. CASE AddRow
  <2> DEFINE d == Dir
  <2>1. /\ pc = "ended" /\ cmd = "bench" /\ cmd' = cmd /\ asked' = asked /\ todo' = Tail(todo) /\ pc' = "next"
    BY <1>5 DEF AddRow, cli
  <2>2. PICK row \in Rows : rows' = Append(rows, row) /\ row.dir = d
    BY <1>5, <2>1, RowIs DEF AddRow, Inv
  <2>3. todo # << >> /\ todo \in Seq(Dirs) /\ rows \in Seq(Rows) /\ asked \in Seq(Dirs)
    BY <2>1 DEF Inv, HostInv, Active
  <2>4. /\ Len(rows') = Len(rows) + 1 /\ Len(rows) \in Nat
        /\ \A i \in 1..Len(rows) : rows'[i] = rows[i]
        /\ rows'[Len(rows) + 1] = row
    BY <2>2, <2>3, AppendProperties
  <2>5. /\ Len(Tail(todo)) = Len(todo) - 1 /\ Len(todo) \in Nat /\ Len(todo) >= 1
        /\ \A i \in 1..Len(Tail(todo)) : Tail(todo)[i] = todo[i + 1]
    BY <2>3, TailIs, HeadTailProperties
  <2>6. d = todo[1]
    BY <2>3 DEF Dir
  <2>7. MakesUp(rows, todo, asked)
    BY <2>1 DEF TableInv
  <2> DEFINE l == Len(rows)
             rest == Tail(todo)
             new == rows'
  <2>8. Len(asked) = Len(new) + Len(rest)
    <3>1. Len(asked) = l + Len(todo)
      BY <2>7 DEF MakesUp
    <3>2. Len(new) = l + 1 /\ l \in Nat /\ Len(rest) = Len(todo) - 1 /\ Len(todo) \in Nat
      BY <2>4, <2>5
    <3> HIDE DEF l, new, rest
    <3> QED
      BY <3>1, <3>2
  <2>9. ASSUME NEW i \in 1..Len(new) PROVE new[i].dir = asked[i]
    <3>1. CASE i = l + 1
      <4>1. todo[1] = asked[l + 1]
        BY <2>5, <2>7 DEF MakesUp
      <4> QED
        BY <2>2, <2>4, <2>6, <3>1, <4>1
    <3>2. CASE i \in 1..l
      BY <2>4, <2>7, <3>2 DEF MakesUp
    <3> QED
      BY <2>4, <3>1, <3>2
  <2>10. ASSUME NEW i \in 1..Len(rest) PROVE rest[i] = asked[Len(new) + i]
    <3>1. rest[i] = todo[i + 1] /\ i + 1 \in 1..Len(todo)
      BY <2>5
    <3>2. todo[i + 1] = asked[l + (i + 1)]
      BY <2>7, <3>1 DEF MakesUp
    <3>3. l + (i + 1) = Len(new) + i
      BY <2>4, <2>5
    <3> QED
      BY <3>1, <3>2, <3>3
  <2>11. MakesUp(new, rest, asked)
    BY <2>8, <2>9, <2>10 DEF MakesUp
  <2> QED
    BY <2>1, <2>11 DEF TableInv
<1>6. CASE PrintTable
  <2>1. pc = "next" /\ cmd = "bench" /\ todo = << >> /\ UNCHANGED <<cli, todo, rows>> /\ pc' = "idle"
    BY <1>6 DEF PrintTable
  <2> QED
    BY <2>1 DEF cli, TableInv
<1>7. CASE PassCode \/ OpensMark \/ MarksWrong
  <2>1. cmd = "solve" /\ cmd' = cmd
    BY <1>7 DEF PassCode, OpensMark, MarksWrong, cli, Inv, MarkInv
  <2> QED
    BY <2>1 DEF TableInv
<1>8. CASE Interrupt
  BY <1>8 DEF Interrupt, TableInv
<1>9. CASE UNCHANGED vars
  BY <1>9 DEF vars, host, cli, agent, TableInv, QuitOnHost
<1>10. ASSUME NEW d \in Dirs, Invoke("solve", <<d>>) PROVE TableInv'
  <2>1. <<d>> \in Seq(Dirs)
    OBVIOUS
  <2> QED
    BY <1>1, <1>10, <2>1
<1>11. ASSUME NEW n \in 1..MaxRows, NEW dirs \in [1..n -> Dirs], Invoke("bench", dirs) PROVE TableInv'
  <2>1. dirs \in Seq(Dirs)
    OBVIOUS
  <2> QED
    BY <1>1, <1>11, <2>1
<1> QED
  BY <1>2, <1>3, <1>4, <1>5, <1>6, <1>7, <1>8, <1>9, <1>10, <1>11, <1>12 DEF Next

(* One directory that fails, dies or raises costs the others nothing: a bench  *)
(* that was not interrupted, and that no tool exited from on the host, prints  *)
(* one row for each directory, in their order.                                 *)
THEOREM TablesAreComplete == Spec => []EveryDirHasItsRow
<1>1. Init => TableInv
  BY DEF Init, TableInv
<1>2. Inv /\ TableInv /\ [Next]_vars => TableInv'
  BY TableInvStep
<1>3. Inv /\ TableInv => EveryDirHasItsRow
  <2> SUFFICES ASSUME Inv, TableInv, pc = "idle", cmd = "bench", exit \in {0, 1}, ~ QuitOnHost
               PROVE  [i \in 1..Len(rows) |-> rows[i].dir] = asked
    BY DEF EveryDirHasItsRow
  <2>1. MakesUp(rows, todo, asked) /\ todo = << >>
    BY DEF TableInv
  <2>2. asked \in Seq(Dirs) /\ Len(rows) \in Nat /\ Len(<< >>) = 0
    BY DEF Inv, HostInv
  <2>3. Len(asked) = Len(rows) /\ \A i \in 1..Len(rows) : rows[i].dir = asked[i]
    BY <2>1, <2>2 DEF MakesUp
  <2>4. asked = [i \in 1..Len(asked) |-> asked[i]]
    BY <2>2
  <2> QED
    BY <2>3, <2>4
<1> QED
  BY <1>1, <1>2, <1>3, SolveInit, SolveStep, PTL DEF Spec

(* Every variable keeps its type, and no bound of the model is passed.         *)
THEOREM HostTypes == Spec => []TypeOK
<1> DEFINE SandboxType == sandbox \in BOOLEAN
<1>1. Init => SandboxType
  BY DEF Init
<1>2. SandboxType /\ [Next]_vars => SandboxType'
  <2> SUFFICES ASSUME sandbox \in BOOLEAN, [Next]_vars, ~ (sandbox' \in BOOLEAN) PROVE FALSE
    OBVIOUS
  <2>1. sandbox' # sandbox
    OBVIOUS
  <2> QED
    BY <2>1 DEF Next, Invoke, StartRun, Accepts, DeletesResult, Decides, OpensResult, WritesResult,
                AppendsHistory, Returns, Raises, ContainerDies, Exits, Ended, AddRow, PrintTable,
                PassCode, OpensMark, MarksWrong, Interrupt, vars, host, cli
<1>3. Inv /\ SandboxType => TypeOK
  BY DEF Inv, HostInv, RunsInv, DiskInv, TypeOK, Active
<1> HIDE DEF SandboxType
<1> QED
  BY <1>1, <1>2, <1>3, SolveInit, SolveStep, PTL DEF Spec

=============================================================================
