# revagent in TLA+

revagent is an autonomous reverse-engineering agent: a loop that sends a conversation to an LLM, runs
the tool calls of the answer, and goes on until a flag is submitted, a runbook is handed over, or a
limit is hit. This directory holds TLA+ models of its control logic, TLC configurations that check
them on small instances, and TLAPS proofs of the properties that matter most.

Paths below are relative to `src/revagent/` unless they start with another directory.

- [1. The system](#1-the-system)
- [2. Modules](#2-modules)
- [3. Runs](#3-runs)
- [4. Fairness and deadlock](#4-fairness-and-deadlock)
- [5. Proofs](#5-proofs)
- [6. Where code and documentation disagree](#6-where-code-and-documentation-disagree)
- [7. Not modelled](#7-not-modelled)
- [8. What could follow](#8-what-could-follow)

## 1. The system

The agent is one thread. What makes it hard is not parallelism but a long loop over carried-over
state, with an environment that may do anything between two steps: the model answers what it likes,
requests fail, overflow the context or break off mid-stream, tools fail, time out, exit the whole
program (`solve_check` runs the model's Python in the agent's process) or, through an unrestricted
`bash`, rewrite, garble and delete the agent's own files.

| component | state it keeps | operations | interacts with |
|---|---|---|---|
| agent loop, `agent.py` | messages, step counter, streaks (`no_tool_streak`, `over_streak`), critic and compaction counts, `recent`, progress marker | `run`, `_run_tools`, `_critic`, `_reduce_context`, `_compact`, `_finish`, `_report` | calls everything below |
| G3 gate, `gate.py`, `detectors.py` | streak, last script, blocking, blocked steps, cooldown | `check(step, calls)` before the calls of a message run | agent loop; `scripts/replay_detectors.py` runs the same class over transcripts |
| context compaction, `context.py` | none of its own: edits messages and the case file | `split_messages`, `compact`, `prune_log`, `shrink_casefile` | LLM client, case file |
| case file, `casefile.py` | `.revagent/case.md`, re-parsed from text on each access | `add`, `replace_section` | notes tool, `observe`, critic, compaction; bash can edit it |
| critic, `critic.py` | none | `run_critic`: one `complete`, ledger lines | agent loop, case file |
| LLM client, `llm.py` | `max_tokens`, `total_retries`, `last_prompt_tokens`, `last_finish_reason` | `chat`, `complete`, `_create` (retries), `collect_stream` | agent loop, compaction, critic, summarize |
| tool context, `tools/base.py` | deadline, `env_blocked` and its bookkeeping, flag attempts, `out_counter`, flag, runbook | `clamp_timeout`, `observe`, `block_env`, `note_start_failure`, `next_out_id` | every tool |
| tools that run the target, `tools/run_binary.py`, `tools/run_gui.py` | as above | start it, watch it, classify what happened | tool context |
| tools that end a session, `tools/submit_flag.py`, `tools/handoff_runbook.py` | as above | accept, turn down | tool context, agent loop |
| truncation, `truncate.py` | `.revagent/out/<n>.txt` | cut a result, save the rest, keep the environment note | agent loop, tool context |
| decompile, `ghidra.py`, `tools/decompile.py` | dumps on disk by name and digest, `function_dbs` with remembered failures, `current_binary` | `analyze`, `FunctionDB.load`, `_get_db` | a JVM in a session of its own; binaries patched through bash |
| emulate, `emulate.py`, `tools/emulate.py` | `emulate_images` by path, time and size | load, call one function | cle and unicorn |
| solve_check, `tools/solve_check.py` | `_TABLES` across calls, the alarm | run the transform symbolically, ask z3, run it again on integers | z3; code of the model's in the same process |
| bash, `tools/bash.py` | none | one timed call | process groups |
| CLI, bench, sandbox, `__main__.py`, `sandbox.py` | `result.json` across runs and containers | `solve`, `bench`, cross-check with ANSWERS.md | agent loop in a container |
| console log, prompts, image build | - | - | - |

What is hard, and what correctness means:

- **Agent loop.** Messages are appended at half a dozen places and removed by compactions; the API
  rejects a conversation in which a `tool_calls` message is not followed at once by its replies. One
  message may carry several calls, one of which ends the session. Compaction, shrink, critic, G4
  warning, nudge and repeat notice interleave. The loop must end and `result.json` must agree with
  what the tools accepted, also when requests fail.
- **Gate.** Five counters are carried from step to step and reset on different paths, with several
  scripts in a message, exceptions half-way, releases and cooldowns. A leftover counter blocks honest
  work.
- **Case file.** It is the only memory across compactions and it is text that models write: summaries
  quote headers, notes contain headers or begin like parts of a summary, blocks are cut apart by line shapes
  again and again, and a rewrite by the model may replace all of it. The observation ledger, notes and
  results must survive all but the rewrites that drop them.
- **LLM client.** A budget raised for one call must come back however the call ends; retries must be
  bounded and counted; a stream that breaks off must leave no trace; the number the compaction
  threshold is compared with must be that of the last chat.
- **Deadline.** The clock is looked at between steps only; tools cut their own timeouts, but not every
  wait of a tool is cut.
- **decompile.** An analysis takes up to twenty minutes, so its result is kept on disk beyond the run;
  the agent, the JVM or both may die half-way, a JVM may outlive its agent, import a binary patched since
  and write into the next run's file, and the binary may be patched or restored between any two calls.
- **solve_check.** z3 computes on words that wrap, with signed and unsigned operators; Python on
  integers that do not. The verdicts `[sat]` and `[unsat]` must be about Python. One alarm guards code
  that may swallow it, and only `Exception` is caught of code that may call `exit()`.
- **CLI, bench, sandbox.** All the host learns of a run in a container is a file that older runs also
  wrote. The container may die, the user may interrupt, and a tool may exit the program with code 0,
  between any two writes.
- **Session.** Writing a runbook is only allowed with evidence that the target cannot run here, the
  model must learn of it even if the output is cut, pointers to saved outputs must stay right.

`PROJECT.json` lists every hazard with its line and the properties that cover it.

## 2. Modules

Each module starts from the handlers of one component, one action per handler or step of it. History
variables (commented as such) record what happened independently of the code's own counters, so that a
property is never a restatement of an assignment. Definitions commented `mutant:` are plausible bugs;
each property is violated when its definition is replaced by one of them.

| module | what it models | how state and actions correspond |
|---|---|---|
| `Gate` | `Gate.check` | the attributes of `Gate` by name; one check is `Quiet`, `NoScripts` or `BeginCheck`, then `NeutralCall`/`ReEdit`/`OtherScript` per call, then `FinishStep` or `CheckError` (the `except` clause). Scripts are model values, `similar` any relation. |
| `Session` | what one run promises: open, decided once by the first thing a tool accepted, then written, then returned or raised; or, before anything is accepted, exited by a tool | an abstract specification; no line of code is a line of it |
| `Agent` | `Agent.run` with what it calls in `context.py` and `critic.py` | `pc` is the place in `run`; messages are records of role, step and calls, since that is all the loop and `split_messages` look at. The model, the tools, the clock and the gate's verdicts are nondeterministic. A tool call is `PlainCall`, `NoteCall`, `FlagCall`, `RunbookCall`, `BashOnOwnFiles`, `BlockedCall`, or one that leaves the message: `ExitCall` (SystemExit passes every `except Exception`) and `CutFails` (the output is cut outside of `_execute`'s `try`). The case file is whole, broken (a header is missing), garbled (not UTF-8, which only the loop's own `try` catches) or gone. |
| `AgentSession` | the refinement mapping from `Agent` to `Session` | `phase` from `pc`, `accepted` from the tools' flags |
| `SolveRun` | `solve` and `bench` with `_run_one`, `_read_result`, `check_answer`, `_mark_wrong_if_answer_mismatch`, and the end of a run (`_finish`) | an instance of `Session` for the run; per directory `result.json`, its modification time and `results.jsonl`. `write_text` is two steps, since it empties the file first. `ContainerDies` and `Interrupt` may come between any two steps, `Exits(code)` while nothing is accepted: in a container it ends the run with that code, on the host the whole invocation. |
| `BinaryCache` | `analyze`, `FunctionDB.load`, `_get_db`, the JVM's script, `emulate`'s images | `pc` is the place in `_get_db`; a file of the cache is known by the JVM that created it and keeps that identity when it is truncated, renamed or unlinked, so two JVMs may write into one; a JVM imports the binary (what it contains then, not when the digest was taken), opens, writes, and is done or cut off. `stamp` is a binary's modification time and size, which a patch may leave as it was. `NewRun` is a killed or ended agent: memory is lost, files stay, a JVM goes with it or on alone. |
| `SolveCheck` | `_symbolic_solve`, `Sym`, `Table`, `_concrete_matches`, `_time_limit` | a transform is any sequence of `Apply` and `Lookup`; `sym` is what z3 believes it computes for each input, `py` what Python computes. `Begin`, `AskZ3`, `Sat`, `Unsat`, `Unknown`, `Recheck`, `RecheckRaises`, `Alarm` are the call's steps, and `Exits` the transform's SystemExit. |
| `CaseFile` | `CaseFile`, the file half of `compact`, `prune_log`, `shrink_casefile` | the file is a sequence of lines reduced to their shape (header, bullet, ledger line, block, part heading, text) and origin. A note may quote a header, or begin "(a)" to "(d)", which `_is_heading` takes for a part. `Compaction(shape)` is add the block, replace Todo, prune, as one action, as in the code, and stops where a header is missing. `Shrink(reply)` puts any reply that names the four headers in the place of the file; the history variable `faithful` remembers whether every one so far was what SHRINK_PROMPT asks for (`Asked`). |
| `Deadline` | `clamp_timeout`, the timed tools, the clock check | `now` in seconds; a call is `StartCall` or `Summarize`, `PhaseEnds` per phase, `TimesOut`, `Swallows`, `Reply`. `solve_check` has three phases and may swallow an alarm in two of them; a killed process group lingers; `run_gui` has two phases with timeouts of their own and waits for its X tools outside of them; `summarize` is a request inside a call. |
| `LlmClient` | `chat`, `complete`, `_create`, `collect_stream` | `pc`: idle, request, stream, wait. A reply is sequences of fragments; `Text`, `Arguments`, `Finish`, `Usage` take them in any order the server may send, and `Dropped` may happen after any of them. |
| `ToolSession` | `ToolContext` between calls, `run_binary`, `run_gui`, `submit_flag`, `handoff_runbook`, `truncate`, several runs in one directory | one action is one tool call, with the truncation the agent applies to its result. |
| `GateProofs`, `AgentProofs`, `SolveProofs`, `StoreProofs`, `CheckProofs`, `DeadlineProofs`, `LlmProofs`, `SessionProofs` | theorems about the module named, or what is kept on disk (`BinaryCache`, `CaseFile`), `SolveCheck`, `LlmClient`, `ToolSession` | section 5 |
| `MC*` | instances for TLC | the values their `.cfg` files name |

Composition. `Session` stands between the two halves of the program: `Agent` implements it, checked and
proved, and `SolveRun` uses an instance of it as the run whose files the host reads, so what is shown
of the command line holds of the agent loop as modelled. `Agent` leaves the gate's verdicts, the LLM
client's answers and the file's inside nondeterministic, so what it shows holds for any of them;
`Gate`, `LlmClient` and `CaseFile` say which ones there are. `Agent` keeps only whether the file is
whole, broken, garbled or gone, and `CaseFile` starts from a whole one.

## 3. Runs

Twelve runs: nine that pass and three that exhibit a disagreement (section 6).

| run | instance and bounds | what it shows |
|---|---|---|
| `gate` | 3 scripts of which `mid` is similar to both others, 8 steps, 2 calls a message, limits 3/3, cooldown 2, exceptions; 322 561 states. `old` and `new` are interchangeable, hence the symmetry. | blocks are earned (`BlockJustified`), releases are quiet (`QuietAfterRelease`), other work lifts a block (`LiftUnblocks`), and a model that sends nothing but re-edits is blocked in at most RELEASE_AFTER checks in a row (`BlockCostBounded`) |
| `agent_run` | 4 steps, 2 calls a message, every effect a tool can have, requests that fail for good, 2 kept exchanges, critic and warnings on; every answer thinks long, and calls have one signature; 1 288 946 states | `TypeOK`, `SentWellFormed`, `ContextShape`, `CompactionKeepsRecent`, `GivesUpAfterTwoCompactions`, `AfterAcceptance`, `RepeatIsTrue`; the loop implements `Session` (`ImplementsSession`), and under fairness `RunReturns` |
| `solve_run` | 2 directories, one with a row in ANSWERS.md, 3 runs, benches of up to 2, containers that die, tools that exit with 0, 1 or 3, files deleted by the run, interrupts; 3 536 919 states | `RowsAreOfTheirRuns`, `ExitCodeIsTrue`, `WrongIsMarked`, `EveryDirHasItsRow` |
| `binary_cache` | 1 binary with 2 contents, 2 patches that take a new modification time or keep an old one, 2 analyses, any number of runs; 727 652 states | `PublishedIsWhole`, `ListingIsOfContent`, `AnalysedOnce`, `EmulatesCurrent`, and under fairness `CallEnds` |
| `solve_check` | bytes of 2 bits, words of 4, two operations shared by two calls, constants 0, 2, 5, 9 and the input itself, 2 tables, 2 charsets, alarms at any moment, transforms that exit; 902 495 states | `SatIsTrue`, `UnsatIsTrue`, and under fairness `CallEnds` |
| `case_file` | 4 operations, Keep = 1, 4 summary shapes (one quotes a section header and has a `### (b)` heading), notes that quote headers or begin "(b)" or "(d)", and besides the rewrites the prompt asks for two that lose ledger and notes and have headers inside other lines or doubled; 249 874 states | `CaseTypeOK`, `LedgerSurvives`, `FactsSurvive`, `ResultsSurvive`, `BlocksInLog`, each until a rewrite loses something |
| `deadline` | budget of three MAX_TIMEOUT, 2 calls a message of any tool that waits, requested timeouts below, above and outside the range; 11 125 states | `CallEndsInTime`, `RunEndsInTime` |
| `llm_client` | 3 calls, 2 retries, 3 replies (one with interleaved tool calls, one without finish and usage); 93 413 states | `BudgetOfCall`, `RetriesAreCounted`, `ThresholdIsLastChat`, `ReplyIsWhole` |
| `tool_session` | 4 calls over any number of runs, 2 targets, one for another machine, and calls without a path; 86 714 states | `RunbookHasEvidence`, `BlockedTargetsFailed`, `ModelIsTold`, `PointersIntact` |
| `agent_deleted_case`, `solve_unsat`, `solve_run_stale` | as small as shows the case (`solve_run_stale`: the instance of `solve_run`) | section 6 |

A type invariant that is proved for every instance is not checked again on a small one; every module
states one, and `agent_run` and `case_file` check theirs all the same, because there it says more than types: the
limits the loop keeps, the four headers of the file.

Why the bounds are enough. The gate needs three re-edits, the last of which is blocked, two more blocked
steps, a release and two quiet steps: seven steps and one to spare; two calls a message let a script
that is no re-edit, or one more re-edit, stand in the same message. A run is given up as irreducible
after an over-size step, a compaction, a second over-size step and compaction, and a third: three steps,
so four allow a fitting step in between, which must reset the streak. Four steps with calls also are one
more than the three a repeat needs, and two more than what a compaction keeps. In the case file a block
is reduced once Keep later ones follow it, so with Keep = 1 two compactions with a note or a record
before, between or behind them need three operations; the fourth is a rewrite or a third compaction.
Three LLM calls let a `complete` stand between two chats. On the command line a stale result needs two
runs of one directory; three leave one for another directory, or for a bench of two after a solve. In
the cache, a second JVM is what an orphan needs to interfere with, and two patches are a patch and its
restoration; paths share nothing but `current_binary`, so one is enough. A transform of two operations
is the least in which one overflows and the next sees it (a sum, then a shift right), and the second
call is what a constraint left over from the first would reach; a word of 4 bits has a top bit, a byte
of 2 does not reach it. In `deadline` two calls are what it takes to add up what a single one may
outlive the budget by, and the budget leaves room for a long call before it.

Constants are scaled down where only their order matters (KEEP_RECENT, CRITIC_MAX, the limit of long
thoughts, STREAK_LIMIT, `prune_log`'s `keep`, timeouts, word sizes). In `Deadline` `GuiLook` stands for
about 201 s (leftover windows, a capture, its windows and two OCRs, `tools/run_gui.py:251-272`) and `GuiLast` for
about 141 s (one action begun in time, a capture, its OCR and the clean-up), at the timeouts of
the subprocess calls.

## 4. Fairness and deadlock

- `RunReturns` needs `WF_vars(Next)`: the loop takes its next step whenever it can. The code justifies
  it because nothing the loop waits for is unbounded: requests have a timeout of 600 s and
  `LLM.retries` retries, tools have timeouts, and the loop itself is a single thread without waiting.
  Three things are outside that argument: `ask_user` waits for a person (only with `--ask`); `run_cmd`
  collects the output of a killed group without a timeout (`tools/bash.py:54`), so a child that left
  the group and keeps the pipe open holds the loop for as long as it lives (in `Deadline` that is the
  constant `Escape`); and a request timeout is per read, so a server that trickles is not cut off. No
  fairness is put on the model's choices: it need not ever submit a flag. `RunReturns` excuses runs in
  which the agent's own files were deleted or garbled, because then the code does fail (section 6), and
  runs that a tool exits from.
- `CallEnds` of `BinaryCache` needs that the agent goes on while a call is open (`CallSteps`), among
  which is the timeout of `communicate` (`ghidra.py:58`). Nothing is assumed of the JVM, which may hang.
- `CallEnds` of `SolveCheck` needs that z3 answers or gives up, since it is given a timeout of its own,
  and that the alarm goes off once it is set. Nothing is assumed of the transform, which may loop; a
  transform that catches every exception can swallow the one alarm, and the property says so. A
  transform that exits the program ends the call.

All configurations say `CHECK_DEADLOCK FALSE`: every modelled system stops, by returning (`Agent`,
`Deadline`) or because the bound on operations is used up (the others).

## 5. Proofs

All proofs are checked by TLAPS from nothing, for every value of the constants that satisfies the
`ASSUME`s of the module. They ask for little more than types; the ones that restrict are positive
limits, STREAK_LIMIT > 1, that no tool call of a reply has empty arguments, and that a word holds whole
bytes. `PowersAssumption` of `SolveCheck` is a fact of arithmetic (powers of two are positive) that the
provers do not know. TLC evaluates each of them in a passing run.

- **AgentProofs.** `RunsAreSessions` is the refinement: initial states map to initial states and each
  action of the loop to a step of `Session` or a stutter, which needs `OutcomeInv`, that the status was
  chosen from what the tools accepted. `EveryStepIsNearer` and `ResultAtTheEnd` are the argument under
  `RunReturns` as far as it is one of safety: every step of the loop lowers `Remaining`, a natural
  number, so a run takes at most MaxSteps * (MaxCalls + 14) + 3 of them. Where it returned, the result is
  written; where an exception left it, the agent's files are gone or garbled; a tool's exit is the third
  end, and leaves nothing. That number is not obvious from the loop, which passes the critic twice in a
  step, before the context check and again in a compaction; the two are told apart by `cause`, which
  `CauseInv` keeps. The safety properties come from one inductive invariant
  `LoopInv`: types and ranges (`DataInv`, `BoolInv`, `CountInv`), the outcome (`OutcomeInv`), the shape
  of the conversation (`MsgInv`), that each reply stands right behind the message that asked
  (`PairInv`), and what may stand after an acceptance (`FinalInv`). `SentWellFormed` alone is not
  inductive: it says nothing of the moments between a message and its last reply, and a compaction cuts
  the sequence at a place that is only right because of `PairInv`. Three properties need invariants of
  their own on top of it: the streak of over-size steps against the compactions since the last fitting
  one (`GivesUpAfterTwoCompactions`), what `recent` remembers against the last call that ran
  (`RepeatIsTrue`), and where the exchanges that are kept begin (`CompactionKeepsRecent`).
- **SolveProofs.** One invariant for the rows (a result with a new modification time was written by the
  run just ended, and a run that a tool exited from has written none), one for what is true when the host
  is idle, one for the marks, and one that the rows printed followed by the directories to do are what
  was asked for. `RowsAreTrue` and `ExitCodesAreTrue` except a run that a tool exited from with the very
  code that would be trusted; `solve_run_stale` shows that the exception is needed.
- **StoreProofs, the cache.** `FileInv` says who can still write into what: each file of the cache was
  created by a JVM of the name it has (`Creates`), all JVMs that opened a published one are done or one
  of them has strayed (`OutInv`), every live JVM is the one the agent waits for or an orphan (`AliveInv`),
  what the run's own JVM imported is what the digest was taken of (`JobInv`), and no other JVM of this run
  has the awaited dump open (`OwnInv`). `PublishedIsWhole` alone is not inductive: it does not know who can
  still write, nor when the binary was read. On top of it `RunInv` (a path is looked up only while nothing is
  known of it, and analyses and exceptions balance) and `TraceInv` (a listing in memory is of what the
  binary contains unless it was changed since or the file has strayed; an image is of a content that the
  binary had with the stamp the image is known by).
- **StoreProofs, the case file.** `CaseInv` says what the file looks like after any operations (`Filed`):
  the four headers in their order, and behind each its running lines followed by the headers that notes
  or the model's todo quoted there, which is where the code sees the section end. Notes are only in the
  sections they were made for, ledger lines and compaction blocks only in the Log, and each kind, read
  from top to bottom, is the history (`Kept`). `LedgerSurvives` alone is not inductive: it does not know
  that the ledger lines stand in the part of the file that pruning reads as the Log, nor that replacing
  Todo cannot reach them. The lemmas under it say what splicing, selecting and cutting at block lines do
  to such a file; the longest is that `Pruned`, piece by piece, selects the same ledger lines. These
  theorems hold for any notes and summaries, any `Keep`, any `Replies` and any number of operations, until an
  accepted rewrite is not what SHRINK_PROMPT asks for (`faithful`): `shrink_casefile` looks at headers only,
  so of what such a rewrite leaves nothing can be said, and the files it leaves are part of the behaviours all the
  same. A rewrite that does as asked keeps the form, since what it drops is text (`Worth`).
- **StoreProofs, the results of compactions.** `ResultsAreKept` says when what summaries reported under
  (a) and (d) is never lost. Pruning finds a part by the last heading of its name in a block
  (`context.py:198`) and finds blocks by their `### ` lines (`context.py:222`), so it keeps exactly what
  the invariant `Bears` asks for: each result stands under an (a) or (d) heading with no heading and no
  block line between them (`Under`), and no block has two headings of such a part, or (d) before (a)
  (`Ordered`); both together are `Tidy`. `ResultsSurvive` alone is not inductive, since it does not know
  where in the Log a result stands. The proof shows that concatenation, selection, cutting at block lines and
  reducing a block keep a sequence tidy, and that a reduced tidy block has all its results: the part
  that is found is the whole stretch up to the next heading, and no result is outside of the two parts.
  Results carry the number of the operation they are of, and `Late` and `Free` say that those to come
  are not there yet. A note may be a heading too: one that begins "(b)" or "(c)" ends the part above it,
  which is harmless behind the summary's last line, and one that begins "(a)" or "(d)" in the Log takes the
  place of the summary's part, which is what `posed` remembers and `ResultsSurvive` excepts. The theorem has
  one hypothesis, `AllAsked`: every summary
  keeps to the form SUMMARY_PROMPT asks for (`context.py:19`) as far as results depend on it (`AsAsked`).
  Each heading is there once at most and in order, the (a) and (d) headings are not `### ` lines, and no
  line reported under them is a `### ` line or a section header. A summary may have any subset of the
  headings, may quote headers elsewhere and may write its (b) and (c) headings with `### `. The prompt is not
  enforced by the code; section 6 says what a summary of another form loses. TLC evaluates `AsAsked`
  on the shapes of the `case_file` run.
- **CheckProofs.** First the remainders: adding, subtracting, multiplying before or after `% Modulus` is
  the same. Then `OpAgrees`, one operation: where its operands are as the tool asks, z3's word is
  Python's integer modulo the size of a word. The invariant `AgreeInv` carries that through transforms
  of any length: the two agree on each input Python accepts, and the tables exclude only inputs on
  which Python raises. With it an `[unsat]` about words is one about integers.
- **GateProofs.** Type correctness; then one inductive invariant per property on top of it. For
  `BlockJustified` it says that the last `streak` entries of the trail are a chain of similar scripts
  ending in `lastBody`; for `QuietAfterRelease` that `cooldownUntil` is still the last release plus
  COOLDOWN_STEPS; for `LiftUnblocks` that a step without a re-edit so far has nothing pending; for
  `BlockCostBounded` that a run of blocked steps with no other script between them is never longer than
  `blockedSteps` while a script is remembered, for messages of any length. It needs no property of
  `similar`, neither symmetry nor transitivity.
- **DeadlineProofs.** A call has used at most its timeout per finished phase and its lingering once
  (`CallInv`), so it ends within `SlackOf` of the budget, which counts what is not cut: lingering children, swallowed
  alarms, the X tools of `run_gui`, the request of `summarize`; and a step with k calls behind it is at
  most k grants late (`StepInv`), which bounds the whole run. `CallEndsInTime` alone is not inductive: it
  does not know how much of the timeout the phases before have used.
- **LlmProofs.** `ControlInv`: the budget (`BudgetInv` adds that a `complete` keeps the default aside)
  and the retries (`RetryInv` counts those of earlier calls and of this one apart). `StreamInv`: while
  a reply comes in, what came followed by what is to come is the reply, text by text and call by call.
  When everything is sent, what came is the reply. The proof covers replies of any length, any number
  of calls and any order of chunks.
- **SessionProofs.** `start_failures` never exceeds the failures seen in this run, an open gate has
  enough of them or a refusal behind it, and numbers given to saved outputs only grow, so no pointer
  of a run is overwritten in it.

Some theorems state what no run checks, because it follows for every instance at once: the type
invariants, `StatusMatchesOutcome`, `StepsAreBounded` and `EndsWithResult` of the agent loop,
`SignalsAgree` of `Gate`, `OutageIsBounded` of `LlmClient`.

Only model-checked is liveness: `RunReturns` and the two `CallEnds`, since fairness and ENABLED are beyond
these provers. For `RunReturns` what remains to TLC is that the loop is never stuck before its end. Every
safety invariant and action property of the passing runs is stated by a theorem.

The library's `SelectSeq` and `FlattenSeq` are recursive and opaque to the provers; `CaseFile` has a
recursive function, `Joined`, in their place. The library's induction rules take a predicate and cannot
be instantiated here; the proofs about `Joined` use two lemmas that take a set in its place (`UpTo`,
`BySteps`), proved from the least element of a set of numbers.

## 6. Where code and documentation disagree

Shown by runs (`findings` in `PROJECT.json`):

1. `agent_deleted_case`: `agent.py:287` calls a deleted case file a mistake to recover from; the next
   compaction reads it unguarded and the run ends with an error.
2. `solve_unsat`: `tools/solve_check.py:8` says that values are non-negative 64-bit integers and `%`
   follows Python; `%` of z3's words is signed (`tools/solve_check.py:136`), so a remainder of a value
   of 2^63 or more, in range as the tool asks, makes it say `[unsat]` although an input exists.
3. `solve_run_stale`: `__main__.py:139` says that a stale `result.json` is never reported as this run's.
   `solve_check` runs the model's Python and catches `Exception` (`tools/solve_check.py:233`), and so do
   the agent (`agent.py:107`, `:312`) and `bench` (`__main__.py:265`). A transform that calls `exit()` raises
   SystemExit, which passes them all: the container ends with code 0 and no result, `_run_one` looks at
   the age of `result.json` only for other codes (`__main__.py:138`), and an earlier run's result becomes
   the row, or `solve`'s exit code. On the host the whole `bench` ends with that code and prints no table.

Met while modelling, described here and not kept as runs:

- `gate.py:5` says a wrong block costs at most RELEASE_AFTER steps. With several scripts in a message, a
  different script resets `blocked_steps` (`gate.py:71`) in the same step in which a re-edit is blocked;
  the block can go on for ever. `BlockCostBounded` counts the checks in a row that did nothing but
  re-edits, for which the claim holds, whatever the length of the messages.
- `context.py:210` says pruning keeps old compactions' facts; a `### ` line inside a summary's facts
  starts a block of its own (`context.py:222`), and the facts under it are dropped; a part given twice
  keeps only its last (`context.py:198`). `ResultsSurvive` is violated when `Summaries` has such a shape,
  and `ResultsAreKept` says for which shapes it holds. The same happens without any odd summary when a
  note in the Log begins "(a)" or "(d)" (`context.py:195`): it becomes the bullet "- (d) ...", which is
  taken for the last part of that name of the block above it, and the summary's own part is dropped at
  the next compaction but Keep. Without `~posed` in `ResultsSurvive`, TLC finds that in three operations.
- `agent.py:135` says the ledger survives compaction, "through prune_log and shrink". `shrink_casefile`
  only asks the model to keep it: any reply that begins "# Case:" and contains the four headers, if only
  inside other lines or twice, replaces the file (`context.py:281-288`), and a file beyond
  SHRINK_INPUT_CAP is shown in part only (`context.py:272`). Without `faithful` in `LedgerSurvives`, TLC
  finds a ledger that is not the one recorded after two operations. `prune_log` keeps the ledger, as `LedgerIsKept` proves.
- `tests/test_tools.py:917` says no tool call may outlive the run's budget; `solve_check` uses its
  clamped timeout three times and may swallow an alarm, `run_gui` waits for its X tools outside of what is
  cut, and `summarize` sends a request with retries. `CallEndsInTime` states the bound that holds.
- `tools/handoff_runbook.py:17` says the tool is rejected if the sandbox can run the program; two start
  failures (`tools/base.py:88`) open the gate for good, also of a program that runs otherwise.
  `RunbookHasEvidence` states what the code asks for.
- `tools/decompile.py:50` says a binary that failed is never analysed again; a dump cut inside a
  character raises an exception that is no `GhidraError` (`ghidra.py:78`) and is not remembered.
  `AnalysedOnce` counts those; `NeverRerun` is the claim without them and does not hold.
- A JVM runs in a session of its own (`ghidra.py:55`) and is not killed when the agent is. It goes on,
  and since the temporary file is named after the binary it can truncate the next agent's dump between
  validation and `os.replace` (`ghidra.py:81`), write into the same file after it was published, and
  be of a binary patched before the import. A broken file is removed by the next call that looks; one that
  is valid JSON of other bytes is not noticed. `PublishedIsWhole` and `ListingIsOfContent` except files such
  a JVM has opened (`Strayed`).
- The session's listing of a binary stays that of the bytes first analysed when the binary is patched
  in place (`tools/decompile.py:39`), while `emulate` follows the patch (`tools/emulate.py:132`) as long as
  time or size of the file change with it. `ListingIsOfContent` excepts paths changed in this run
  (`changed`), `EmulatesCurrent` contents that have had the same time and size (`StampsTell`).
- `README.md` of the repository says a flag that contradicts ANSWERS.md is rewritten as `wrong` in
  `result.json`; `bench` only shows it so in its table. `WrongIsMarked` is about `solve`; and a container
  killed after it wrote its result leaves a contradicted `solved` behind, since `solve` only marks after
  an exit code of 0.
- A run killed between `result.json` and `results.jsonl` is missing from the history.
- `detectors.py:11` speaks of 3 consecutively blocked steps before a release; `gate.py:82` counts
  blocked checks, and an answer without tool calls (which never reaches the gate) or a check that ended
  in an exception may stand in between without the count starting over.
- `agent.py:176` speaks of the third consecutive over-size context; steps that narrate leave
  `over_streak` as it is, as only a fitting tool step resets it (`agent.py:308`). The property
  `GivesUpAfterTwoCompactions` states what the code does.
- `_finish` writes `result.json` into `.revagent`, which the model may have deleted (`agent.py:343`),
  and `_report` reads the case file without a guard when the run is unsolved (`agent.py:359`): the
  exception leaves `run`. In the model that is `pc = "raised"`.
- `agent.py:286` expects `OSError` only; a case file that `bash` left undecodable (`casefile.py:38`) raises
  UnicodeDecodeError there, which ends the run as "error", and again in `_report`, after the result is
  written. In the model that is `caseFile = "garbled"`.
- A note in the Log section is pruned with the narrative when it stands after a block's (c) part
  (`context.py:195`). `FactsSurvive` is stated for the sections that are not pruned.
- Saved outputs are numbered from 1 in every run, so a second run in a directory overwrites the files
  that the case file of the first one mentions. `PointersIntact` is stated for the pointers of one run.

## 7. Not modelled

- `emulate.py` beyond the cache of images: loading is cle's and running is unicorn's; what is left is
  straight-line arithmetic on addresses that runs once and keeps nothing.
- How processes, windows, OCR and docker are driven: I/O. Their outcomes are nondeterministic.
- `script_body`, `similar`, `_is_start_failure`, the flag's format and vocabulary: text matching; they
  are parameters or nondeterministic outcomes, so results hold for any answer of theirs.
- Two names of one binary in the cache, and a clock too coarse to tell two versions of `result.json` apart
  (`__main__.py:129`): `SolveRun` takes a write to change the file's time.
- A container that outlives the docker client: after an interrupt and 15 s `sandbox.py:94` kills the client
  only, and the agent may go on writing into the directory.
- What a transform of `solve_check` keeps between its calls: the model takes it for a function, the same
  on words, in the re-check and in Python.
- Prompts, wording, rendering, transcripts, console log, token totals: no property is about them.
- `ask_user` (it waits for a person, only with `--ask`), the replay script, secrets and image build: no state, or none that anything
  depends on.

## 8. What could follow

1. `Agent` with `Gate`'s verdicts instead of arbitrary ones, and the replay of a transcript shown to
   give the verdicts of the live gate.
2. A composition of `Agent` and `ToolSession`, so that a runbook's evidence and a run's outcome are in
   one state.
3. The memory layout of `emulate.py`: that its regions never overlap.
