------------------------------- MODULE SolveRun -------------------------------
(* The command line over one or several directories: `solve` and `bench`, on   *)
(* the host or in a container, invocation after invocation.  One run of the    *)
(* agent is a Session; its result.json, which lies in the directory between    *)
(* runs, is all the host learns of a run in a container.  A container may die  *)
(* between any two steps of its run, a tool may exit the program (solve_check  *)
(* runs the model's Python), and the user may interrupt everything.  Not       *)
(* modelled: a container that outlives the docker client killed at 15 s.       *)
EXTENDS Integers, Sequences, FiniteSets

CONSTANTS
  Dirs,         \* challenge directories
  Flags,        \* flags a run may submit
  NoFlag,
  Expected,     \* directory -> the flag in ANSWERS.md, NoFlag without a row
  MaxRuns,      \* bound: runs of the agent
  MaxRows       \* bound: directories of one bench

ASSUME SolveAssumption ==
  /\ NoFlag \notin Flags /\ Expected \in [Dirs -> Flags \cup {NoFlag}]
  /\ MaxRuns \in Nat /\ MaxRows \in Nat

VARIABLES
  cmd, sandbox, todo,      \* the invocation, and its directories still to run
  pc,                      \* of the host: idle, next, running, ended or mark
  before,                  \* modification time of result.json before the run
  rc, rows, exit,          \* of the run; the table; of the invocation
  result, mtime, history,  \* per directory: result.json, its time, results.jsonl
  run, found,              \* the run's number, the flag it submitted
  phase, accepted, status, \* the run, as a session
  asked, quits             \* history: all directories of the invocation; the
                           \* runs a tool exited from, each with the code

session == <<phase, accepted, status>>
cli == <<cmd, sandbox, asked>>
host == <<cli, todo, pc, before, rc, rows, exit>>
disk == <<result, mtime, history>>
agent == <<run, found, session, quits>>
vars == <<host, disk, agent>>

Run == INSTANCE Session

Statuses == {"solved", "unsolved", "runbook", "wrong", "torn", "none"}
Results == [run : 0..MaxRuns, status : Statuses, flag : Flags \cup {NoFlag}]
NoResult == [run |-> 0, status |-> "none", flag |-> NoFlag]
ResultOf(s, f) == [run |-> run, status |-> s, flag |-> f]

Dir == Head(todo)
Store(r) ==
  /\ result' = [result EXCEPT ![Dir] = r]
  /\ mtime' = [mtime EXCEPT ![Dir] = @ + 1]

(* check_answer: the downgrade of a flag that ANSWERS.md contradicts. *)
Contradicted(d, r) ==
  r.status = "solved" /\ Expected[d] # NoFlag /\ r.flag # Expected[d]
CheckAnswer(d, r) == IF Contradicted(d, r) THEN [r EXCEPT !.status = "wrong"] ELSE r

Init ==
  /\ cmd = "none" /\ sandbox = FALSE /\ todo = <<>> /\ asked = <<>> /\ pc = "idle" /\ before = 0
  /\ rc = 0 /\ rows = <<>> /\ exit = 0
  /\ result = [d \in Dirs |-> NoResult] /\ mtime = [d \in Dirs |-> 0]
  /\ history = [d \in Dirs |-> {}] /\ quits = {}
  /\ run = 0 /\ found = NoFlag /\ Run!Init

------------------------------------------------------------------------------
(* main: the command line, and the preflight that is done once.              *)
Invoke(c, dirs) ==
  /\ pc = "idle" /\ run + Len(dirs) <= MaxRuns
  /\ cmd' = c /\ todo' = dirs /\ asked' = dirs /\ rows' = <<>> /\ sandbox' \in BOOLEAN
  /\ \/ pc' = "next" /\ exit' = exit
     \/ pc' = "idle" /\ exit' = 2              \* no docker, no .secure
  /\ UNCHANGED <<before, rc, disk, agent>>

(* _run_one up to the start: the host remembers the time of the old result.   *)
StartRun ==
  /\ pc = "next" /\ todo # <<>>
  /\ pc' = "running" /\ before' = mtime[Dir]
  /\ run' = run + 1 /\ found' = NoFlag
  /\ phase' = "open" /\ accepted' = "nothing" /\ status' = "unsolved"
  /\ UNCHANGED <<cli, todo, rc, rows, exit, disk, quits>>

(* The agent's run. *)
Accepts(f) ==
  /\ pc = "running"
  /\ \/ Run!Accept("flag") /\ found' = f
     \/ Run!Accept("runbook") /\ found' = found
  /\ UNCHANGED <<host, disk, run, quits>>

(* The agent's bash may delete the old result, alone or with all of .revagent. *)
DeletesResult ==
  /\ pc = "running" /\ phase = "open" /\ result[Dir] # NoResult
  /\ Store(NoResult)
  /\ history' \in {history, [history EXCEPT ![Dir] = {}]}
  /\ UNCHANGED <<host, agent>>

Decides ==
  /\ pc = "running" /\ Run!Decide
  /\ UNCHANGED <<host, disk, run, found, quits>>

(* _finish: write_text empties the file before it fills it. *)
OpensResult ==
  /\ pc = "running" /\ phase = "decided" /\ result[Dir] # ResultOf("torn", NoFlag)
  /\ Store(ResultOf("torn", NoFlag))
  /\ UNCHANGED <<host, history, agent>>

WritesResult ==
  /\ pc = "running" /\ result[Dir] = ResultOf("torn", NoFlag) /\ Run!Write
  /\ Store(ResultOf(status, found))
  /\ UNCHANGED <<host, history, run, found, quits>>

AppendsHistory ==
  /\ pc = "running" /\ phase = "written" /\ run \notin history[Dir]
  /\ history' = [history EXCEPT ![Dir] = @ \cup {run}]
  /\ UNCHANGED <<host, result, mtime, agent>>

Ended(code) ==
  /\ pc' = "ended" /\ rc' = code
  /\ UNCHANGED <<cli, todo, before, rows, exit, disk, run, found>>

ExitUnlessUnsolved(s) == IF s = "unsolved" THEN 1 ELSE 0             \* mutant

Codes == {0, 1, 3}                            \* of exit(), those the host tells apart
ExitOf(s) == CASE s = "solved" -> 0 [] s = "runbook" -> 3 [] OTHER -> 1

Returns ==
  /\ pc = "running" /\ run \in history[Dir] /\ Run!Return
  /\ Ended(ExitOf(status)) /\ quits' = quits

Raises ==
  /\ pc = "running" /\ Run!Raise /\ (phase = "written" => run \in history[Dir])
  /\ Ended(1) /\ quits' = quits

(* docker run fails, or the container is killed, before, in or after the write. *)
ContainerDies ==
  /\ pc = "running" /\ sandbox
  /\ Ended(137)
  /\ UNCHANGED <<session, quits>>

(* Python of the model's calls exit(): SystemExit passes every `except         *)
(* Exception` of the tools, the agent and bench.  In a container it ends the   *)
(* run; on the host, the whole invocation.                                     *)
Exits(code) ==
  /\ pc = "running" /\ Run!Exit
  /\ quits' = quits \cup {<<run, code>>}
  /\ \/ sandbox /\ Ended(code)
     \/ /\ ~sandbox /\ pc' = "idle" /\ exit' = code
        /\ UNCHANGED <<cli, todo, before, rc, rows, disk, run, found>>

------------------------------------------------------------------------------
(* _run_one after the run, with _read_result. *)
Exists == result[Dir] # NoResult              \* mutant: any result.json will do
Fresh == mtime[Dir] # before /\ result[Dir] # NoResult
Error == [run |-> 0, status |-> "error", flag |-> NoFlag]

Report ==
  CASE sandbox /\ rc # 0 /\ ~Fresh -> Error
    [] ~sandbox /\ phase = "raised" -> Error   \* bench catches the exception
    [] result[Dir].status \in {"none", "torn"} -> Error
    [] OTHER -> result[Dir]

RowUnlessError ==                             \* mutant: the except clause only logs
  /\ pc = "ended" /\ cmd = "bench"
  /\ rows' = IF Report = Error THEN rows
             ELSE Append(rows, [dir |-> Dir, ran |-> run, of |-> Report.run,
                                status |-> Report.status, flag |-> Report.flag])
  /\ todo' = Tail(todo) /\ pc' = "next"
  /\ UNCHANGED <<cli, before, rc, exit, disk, agent>>

(* bench: one row, whatever became of the run. *)
AddRow ==
  /\ pc = "ended" /\ cmd = "bench"
  /\ LET r == CheckAnswer(Dir, Report)
     IN rows' = Append(rows, [dir |-> Dir, ran |-> run, of |-> r.run,
                              status |-> r.status, flag |-> r.flag])
  /\ todo' = Tail(todo) /\ pc' = "next"
  /\ UNCHANGED <<cli, before, rc, exit, disk, agent>>

PrintTable ==
  /\ pc = "next" /\ cmd = "bench" /\ todo = <<>>
  /\ exit' = IF \A i \in 1..Len(rows) : rows[i].status = "solved" THEN 0 ELSE 1
  /\ pc' = "idle"
  /\ UNCHANGED <<cli, todo, before, rc, rows, disk, agent>>

(* solve: _mark_wrong_if_answer_mismatch, and the container's exit code. *)
MarksAnyKnown ==                              \* mutant: does not compare the flags
  rc = 0 /\ result[Dir].status = "solved" /\ Expected[Dir] # NoFlag
NeedsMark == rc = 0 /\ Contradicted(Dir, result[Dir])

PassCode ==
  /\ pc = "ended" /\ cmd = "solve" /\ ~NeedsMark
  /\ pc' = "idle" /\ exit' = rc
  /\ UNCHANGED <<cli, todo, before, rc, rows, disk, agent>>

OpensMark ==
  /\ pc = "ended" /\ cmd = "solve" /\ NeedsMark
  /\ Store([result[Dir] EXCEPT !.status = "torn"]) /\ pc' = "mark"
  /\ UNCHANGED <<cli, todo, before, rc, rows, exit, history, agent>>

MarksTooLate ==                               \* mutant: the status is set after the write
  /\ pc = "mark"
  /\ Store([result[Dir] EXCEPT !.status = "solved"]) /\ pc' = "idle" /\ exit' = 1
  /\ UNCHANGED <<cli, todo, before, rc, rows, history, agent>>

MarksWrong ==
  /\ pc = "mark"
  /\ Store([result[Dir] EXCEPT !.status = "wrong"]) /\ pc' = "idle" /\ exit' = 1
  /\ UNCHANGED <<cli, todo, before, rc, rows, history, agent>>

(* Ctrl-C reaches the program and the container; bench does not catch it. *)
Interrupt ==
  /\ pc # "idle"
  /\ pc' = "idle" /\ exit' = 130
  /\ UNCHANGED <<cli, todo, before, rc, rows, disk, agent>>

Next ==
  \/ \E d \in Dirs : Invoke("solve", <<d>>)
  \/ \E n \in 1..MaxRows : \E dirs \in [1..n -> Dirs] : Invoke("bench", dirs)
  \/ StartRun \/ (\E f \in Flags : Accepts(f)) \/ DeletesResult \/ Decides
  \/ OpensResult \/ WritesResult \/ AppendsHistory \/ Returns \/ Raises
  \/ ContainerDies \/ (\E code \in Codes : Exits(code)) \/ AddRow \/ PrintTable \/ PassCode \/ OpensMark \/ MarksWrong
  \/ Interrupt

Spec == Init /\ [][Next]_vars

------------------------------------------------------------------------------
(* The state has its types.                                                    *)
TypeOK ==
  /\ cmd \in {"none", "solve", "bench"} /\ sandbox \in BOOLEAN /\ todo \in Seq(Dirs)
  /\ pc \in {"idle", "next", "running", "ended", "mark"}
  /\ pc \in {"running", "ended", "mark"} => todo # <<>>
  /\ before \in Nat /\ rc \in {0, 1, 3, 137} /\ exit \in {0, 1, 2, 3, 130, 137}
  /\ run \in 0..MaxRuns /\ found \in Flags \cup {NoFlag}
  /\ result \in [Dirs -> Results] /\ mtime \in [Dirs -> Nat]
  /\ history \in [Dirs -> SUBSET (1..MaxRuns)]
  /\ quits \subseteq (1..MaxRuns) \X Codes

(* A row of the table that is not an error is about the run that was made for  *)
(* it, never an older result of the directory, whatever killed the container   *)
(* (_run_one compares modification times), unless a tool exited with code 0.   *)
RowsAreOfTheirRuns ==
  \A i \in 1..Len(rows) :
    rows[i].status # "error" => rows[i].of = rows[i].ran \/ <<rows[i].ran, 0>> \in quits

(* __main__.py:139, without that exception: "never report a stale result.json  *)
(* as this run".  A run that exits with 0 before it has a result breaks it.    *)
StaleNeverReported ==
  \A i \in 1..Len(rows) : rows[i].status # "error" => rows[i].of = rows[i].ran

(* Unless a tool exited with that very code: solve exits with 0 only when what *)
(* lies on disk is this run's own result, a flag that ANSWERS.md does not      *)
(* contradict, and is in the history; with 3 only when it is this run's        *)
(* runbook; and bench with 0 only when all rows are such flags.                *)
Proven(d, r) == r.status = "solved" /\ Expected[d] \in {NoFlag, r.flag}

ExitCodeIsTrue ==
  pc = "idle" /\ <<run, exit>> \notin quits =>
    /\ cmd = "solve" /\ exit = 0 =>
         result[Dir].run = run /\ Proven(Dir, result[Dir]) /\ run \in history[Dir]
    /\ cmd = "solve" /\ exit = 3 =>
         result[Dir].run = run /\ result[Dir].status = "runbook"
    /\ cmd = "bench" /\ exit = 0 =>
         \A i \in 1..Len(rows) : Proven(rows[i].dir, rows[i])

(* A solve that ended by itself leaves no flag as solved that ANSWERS.md       *)
(* contradicts (captain-hook run 9), and no result.json ever says "wrong" of   *)
(* a flag that ANSWERS.md does not contradict.                                 *)
WrongIsMarked ==
  /\ pc = "idle" /\ cmd = "solve" /\ exit \in {0, 1, 3} /\ run > 0
       /\ result[Dir].run = run => ~ Contradicted(Dir, result[Dir])
  /\ \A d \in Dirs : result[d].status = "wrong" =>
       result[d].flag \in Flags /\ Expected[d] \notin {NoFlag, result[d].flag}

(* One directory that fails, dies or raises costs the others nothing: bench    *)
(* prints one row for each directory, in their order, unless a tool exited     *)
(* from a run on the host, which ends bench itself.                            *)
QuitOnHost == ~sandbox /\ \E code \in Codes : <<run, code>> \in quits

EveryDirHasItsRow ==
  pc = "idle" /\ cmd = "bench" /\ exit \in {0, 1} /\ ~QuitOnHost =>
    [i \in 1..Len(rows) |-> rows[i].dir] = asked
=============================================================================
