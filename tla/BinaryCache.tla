----------------------------- MODULE BinaryCache -----------------------------
(* The analyses kept of the binaries under test: Ghidra's dump on disk, which  *)
(* outlives the agent; the functions loaded from it and the images loaded for  *)
(* emulation, which live as long as the run.  The agent may die between any    *)
(* two steps; a JVM it started may die, be cut off in the middle of its dump,  *)
(* or outlive the agent, and then import the binary or write its dump under a  *)
(* later run.  Between calls the model may patch or restore a binary in place. *)
(* A file of the cache is named after the binary and its digest; two names for *)
(* one binary are left out.  A file is known by the JVM that created it, and   *)
(* keeps that identity when it is truncated, renamed or unlinked.              *)
EXTENDS Integers, Sequences

CONSTANTS
  Paths, Contents,     \* resolved paths; what a binary can contain
  None,
  MaxJobs, MaxPatches  \* bounds: analyses started, changes of binaries

ASSUME CacheAssumption ==
  /\ None \notin Paths \cup Contents
  /\ MaxJobs \in Nat /\ MaxPatches \in Nat

VARIABLES
  content, stamp,      \* what each binary contains, its modification time and size
  patches,             \* changes made
  jobs,                \* the JVMs ever started: see Jobs
  orphans,             \* those whose agent is gone
  out, tmp,            \* per path and content, the file of that name, or 0
  pc, path,            \* the agent in _get_db, and the path of the call
  dbs, current,        \* function_dbs, current_binary
  images,              \* emulate_images
  started, escaped,    \* history, per path of this run: analyses started, and
                       \* errors other than GhidraError
  changed,             \* history: paths changed since this run loaded their listing
  seen,                \* history: contents with the stamps they have had
  answered, emulated   \* history: what the last call's answer was about

files == <<out, tmp>>
world == <<content, stamp, patches, seen>>
memory == <<dbs, current, images>>
past == <<started, escaped, changed, answered, emulated>>
vars == <<world, jobs, orphans, files, pc, path, memory, past>>

Keys == Paths \X Contents
NameOnly == <<path, CHOOSE c \in Contents : TRUE>>   \* mutant: no digest in the name
Key == <<path, content[path]>>             \* name and digest, read at the start

(* A JVM: the name its dump is to have, the content it imported, the file it   *)
(* has open, under the number of the JVM that created it.                      *)
JobStates == {"starts", "analyses", "writes", "done", "cut", "odd"}
Jobs == [key : Keys, content : Contents \cup {None}, file : Nat, state : JobStates]
Alive(j) == jobs[j].state \in {"starts", "analyses", "writes"}
Mine == Len(jobs)                          \* the JVM this agent waits for

(* What reading a file may find: valid JSON, less, or (Odd) not even UTF-8, so *)
(* that json.loads is not reached.  What two JVMs have written over each other *)
(* may or may not fit together.                                                *)
Openers(f) == {j \in 1..Len(jobs) : jobs[j].file = f}
Shared(f) == \E i, j \in Openers(f) : i # j
Whole(f) == \E j \in Openers(f) : jobs[j].state = "done"
Broken(f) == f # 0 /\ (Shared(f) \/ \E j \in Openers(f) : jobs[j].state \in {"writes", "cut"})
Odd(f) == f # 0 /\ (Shared(f) \/ \E j \in Openers(f) : jobs[j].state = "odd")
Strayed(f) == Openers(f) \cap orphans # {}

Failure == [is |-> "failed", of |-> None, file |-> 0]
Unknown == [is |-> "unknown", of |-> None, file |-> 0]
Listing(f, c) == [is |-> "listing", of |-> c, file |-> f]
Answer(p, db) == {[of |-> db.of, file |-> db.file, now |-> content[p], changed |-> p \in changed]}

Zero == [p \in Paths |-> 0]
NoDbs == [p \in Paths |-> Unknown]

Init ==
  /\ content \in [Paths -> Contents] /\ stamp = Zero /\ patches = 0
  /\ seen = {<<p, 0, content[p]>> : p \in Paths}
  /\ jobs = <<>> /\ orphans = {}
  /\ out = [k \in Keys |-> 0] /\ tmp = [k \in Keys |-> 0]
  /\ pc = "idle" /\ path = None
  /\ dbs = NoDbs /\ current = None /\ images = {}
  /\ started = Zero /\ escaped = Zero /\ changed = {} /\ answered = {} /\ emulated = {}

------------------------------------------------------------------------------
Goto(l) == pc' = l /\ UNCHANGED <<world, path, memory, past>>

FailForgets == Goto("idle")                    \* mutant: no negative cache

(* A GhidraError is kept for the run; any other exception is not.             *)
Fail ==
  /\ pc' = "idle" /\ dbs' = [dbs EXCEPT ![path] = Failure]
  /\ UNCHANGED <<world, path, current, images, past>>

Escape ==
  /\ pc' = "idle" /\ escaped' = [escaped EXCEPT ![path] = @ + 1]
  /\ UNCHANGED <<world, path, memory, started, changed, answered, emulated>>

(* _get_db with a binary: from the run's memory, or by analyze.               *)
Decompile(p) ==
  /\ pc = "idle" /\ Len(jobs) < MaxJobs /\ escaped[p] < MaxJobs
  /\ CASE dbs[p] = Failure -> UNCHANGED <<pc, path, current>> /\ answered' = {}
       [] dbs[p] = Unknown -> pc' = "look" /\ path' = p /\ UNCHANGED current /\ answered' = {}
       [] OTHER -> /\ current' = p /\ answered' = Answer(p, dbs[p])
                   /\ UNCHANGED <<pc, path>>
  /\ emulated' = {}
  /\ UNCHANGED <<world, jobs, orphans, files, dbs, images, started, escaped, changed>>

(* _get_db without one.                                                       *)
DecompileCurrent ==
  /\ pc = "idle" /\ current # None
  /\ answered' = Answer(current, dbs[current]) /\ emulated' = {}
  /\ UNCHANGED <<world, jobs, orphans, files, pc, path, memory, started, escaped, changed>>

(* A dump that is there is read; a broken one is removed.                     *)
Look ==
  /\ pc = "look" /\ UNCHANGED <<jobs, orphans, tmp>>
  /\ \/ out[Key] = 0 /\ Goto("start") /\ UNCHANGED out
     \/ out[Key] # 0 /\ Whole(out[Key]) /\ Goto("load") /\ UNCHANGED out
     \/ Broken(out[Key]) /\ out' = [out EXCEPT ![Key] = 0] /\ Goto("start")
     \/ Odd(out[Key]) /\ Escape /\ UNCHANGED out

Start ==
  /\ pc = "start" /\ UNCHANGED <<orphans, out>>
  /\ \/ Fail /\ UNCHANGED <<jobs, tmp>>                   \* no Ghidra, no JDK
     \/ /\ tmp' = [tmp EXCEPT ![Key] = 0]
        /\ \/ Escape /\ UNCHANGED jobs                      \* Popen fails
           \/ /\ jobs' = Append(jobs, [key |-> Key, content |-> None, file |-> 0,
                                       state |-> "starts"])
              /\ pc' = "wait" /\ started' = [started EXCEPT ![path] = @ + 1]
              /\ UNCHANGED <<world, path, memory, escaped, changed, answered, emulated>>

NeverTimesOut ==                               \* mutant: communicate() without timeout
  pc = "wait" /\ ~Alive(Mine) /\ Fail /\ UNCHANGED <<jobs, orphans, files>>

(* Killed with its group.  Output that does not decode is no GhidraError.      *)
TimesOut ==
  /\ pc = "wait" /\ Alive(Mine)
  /\ jobs' = [jobs EXCEPT ![Mine].state = "cut"]
  /\ \/ tmp' = [tmp EXCEPT ![Key] = 0] /\ Fail
     \/ Escape /\ UNCHANGED tmp
  /\ UNCHANGED <<orphans, out>>

JvmEnds ==
  /\ pc = "wait" /\ ~Alive(Mine)
  /\ Goto("validate") \/ Escape
  /\ UNCHANGED <<jobs, orphans, files>>

TrustsDump ==                                  \* mutant: the dump need only exist
  /\ pc = "validate" /\ UNCHANGED <<jobs, orphans, files>>
  /\ IF tmp[Key] = 0 THEN Fail ELSE Goto("publish")

Validate ==
  /\ pc = "validate" /\ UNCHANGED <<jobs, orphans, out>>
  /\ \/ tmp[Key] = 0 /\ Fail /\ UNCHANGED tmp
     \/ tmp[Key] # 0 /\ Whole(tmp[Key]) /\ Goto("publish") /\ UNCHANGED tmp
     \/ Broken(tmp[Key]) /\ tmp' = [tmp EXCEPT ![Key] = 0] /\ Fail
     \/ Odd(tmp[Key]) /\ Escape /\ UNCHANGED tmp

Publish ==
  /\ pc = "publish"
  /\ out' = [out EXCEPT ![Key] = tmp[Key]] /\ tmp' = [tmp EXCEPT ![Key] = 0]
  /\ Goto("load") /\ UNCHANGED <<jobs, orphans>>

(* FunctionDB.load, outside the clause that remembers failures.               *)
Load ==
  /\ pc = "load" /\ UNCHANGED <<jobs, orphans, files>>
  /\ \/ (Broken(out[Key]) \/ Odd(out[Key])) /\ Escape
     \/ \E j \in Openers(out[Key]) :
          LET db == Listing(out[Key], jobs[j].content)
          IN /\ jobs[j].state = "done"
             /\ dbs' = [dbs EXCEPT ![path] = db] /\ current' = path
             /\ changed' = changed \ {path}
             /\ answered' = {[of |-> db.of, file |-> db.file, now |-> content[path], changed |-> FALSE]}
             /\ pc' = "idle" /\ UNCHANGED <<world, path, images, started, escaped, emulated>>

(* The JVM: it imports the binary some time after it was started, and opening  *)
(* the dump empties the file of that name, whoever else writes it.             *)
JvmImports(j) ==
  /\ jobs[j].state = "starts"
  /\ jobs' = [jobs EXCEPT ![j].state = "analyses", ![j].content = content[jobs[j].key[1]]]
  /\ UNCHANGED <<world, orphans, files, pc, path, memory, past>>

JvmOpens(j) ==
  /\ jobs[j].state = "analyses"
  /\ LET f == IF tmp[jobs[j].key] = 0 THEN j ELSE tmp[jobs[j].key]
     IN /\ jobs' = [jobs EXCEPT ![j].state = "writes", ![j].file = f]
        /\ tmp' = [tmp EXCEPT ![jobs[j].key] = f]
  /\ UNCHANGED <<world, orphans, out, pc, path, memory, past>>

JvmWrites(j) ==
  /\ jobs[j].state = "writes"
  /\ jobs' = [jobs EXCEPT ![j].state = "done"]
  /\ UNCHANGED <<world, orphans, files, pc, path, memory, past>>

JvmDies(j) ==
  /\ Alive(j)
  /\ \/ jobs' = [jobs EXCEPT ![j].state = "cut"]
     \/ jobs[j].state = "writes" /\ jobs' = [jobs EXCEPT ![j].state = "odd"]
  /\ UNCHANGED <<world, orphans, files, pc, path, memory, past>>

------------------------------------------------------------------------------
(* emulate: an image is known by path, modification time and size.  A patch    *)
(* changes the time, or not: a clock that is too coarse, a copy that keeps it. *)
ImageKeyOfPath(p) == <<p, 0>>                  \* mutant: the path alone
ImageKey(p) == <<p, stamp[p]>>

Emulate(p) ==
  /\ pc = "idle"
  /\ IF \E i \in images : i.key = ImageKey(p)
     THEN \E i \in images :
            i.key = ImageKey(p) /\ emulated' = {<<p, i.of, content[p]>>} /\ UNCHANGED images
     ELSE \/ emulated' = {<<p, content[p], content[p]>>}
             /\ images' = images \cup {[key |-> ImageKey(p), of |-> content[p]]}
          \/ emulated' = {} /\ UNCHANGED images             \* cannot be loaded
  /\ answered' = {}
  /\ UNCHANGED <<world, jobs, orphans, files, pc, path, dbs, current, started, escaped, changed>>

Patch(p, c) ==
  /\ pc = "idle" /\ content[p] # c /\ patches < MaxPatches
  /\ content' = [content EXCEPT ![p] = c] /\ patches' = patches + 1
  /\ \E t \in 0..patches' : /\ stamp' = [stamp EXCEPT ![p] = t]
                            /\ seen' = seen \cup {<<p, t, c>>}
  /\ changed' = changed \cup {p} /\ answered' = {} /\ emulated' = {}
  /\ UNCHANGED <<jobs, orphans, files, pc, path, memory, started, escaped>>

(* The agent is killed, or its run ends, and another run begins: memory is     *)
(* lost, the files stay, and a JVM is killed with it or goes on alone.         *)
NewRun ==
  /\ pc' = "idle" /\ path' = None
  /\ dbs' = NoDbs /\ current' = None /\ images' = {}
  /\ started' = Zero /\ escaped' = Zero /\ changed' = {} /\ answered' = {} /\ emulated' = {}
  /\ \/ UNCHANGED jobs
     \/ pc = "wait" /\ Alive(Mine) /\ jobs' = [jobs EXCEPT ![Mine].state = "cut"]
  /\ orphans' = orphans \cup {j \in 1..Len(jobs) :
                             jobs'[j].state \in {"starts", "analyses", "writes"}}
  /\ UNCHANGED <<world, files>>

Agent ==
  \/ \E p \in Paths : Decompile(p) \/ Emulate(p)
  \/ DecompileCurrent
  \/ Look \/ Start \/ TimesOut \/ JvmEnds \/ Validate \/ Publish \/ Load

Next ==
  \/ Agent
  \/ \E p \in Paths, c \in Contents : Patch(p, c)
  \/ \E j \in 1..Len(jobs) : JvmImports(j) \/ JvmOpens(j) \/ JvmWrites(j) \/ JvmDies(j)
  \/ NewRun

Spec == Init /\ [][Next]_vars

(* The agent goes on while a call is open; nothing is assumed of the JVM.      *)
CallSteps == Look \/ Start \/ TimesOut \/ JvmEnds \/ Validate \/ Publish \/ Load
FairSpec == Spec /\ WF_vars(CallSteps)

------------------------------------------------------------------------------
(* The state has its types, and current_binary, which calls without a binary   *)
(* are answered from, always has a listing.                                    *)
TypeOK ==
  /\ content \in [Paths -> Contents] /\ stamp \in [Paths -> 0..MaxPatches]
  /\ patches \in 0..MaxPatches
  /\ jobs \in Seq(Jobs) /\ orphans \subseteq 1..Len(jobs)
  /\ out \in [Keys -> 0..Len(jobs)] /\ tmp \in [Keys -> 0..Len(jobs)]
  /\ pc \in {"idle", "look", "start", "wait", "validate", "publish", "load"}
  /\ pc # "idle" => path \in Paths
  /\ current # None => dbs[current].is = "listing"

(* What is published in the cache is a whole dump of the content its name      *)
(* gives, through crashes, kills and timeouts.  The one exception is a file    *)
(* that a JVM which outlived its agent has opened too: such a JVM may truncate *)
(* the file just before the next agent publishes it (ghidra.py:81), write into *)
(* it afterwards, and be of a binary patched before it was imported.           *)
PublishedIsWhole ==
  \A k \in Keys : out[k] # 0 =>
    /\ \A j \in Openers(out[k]) : jobs[j].key = k
    /\ Strayed(out[k]) \/ \A j \in Openers(out[k]) : jobs[j].state = "done" /\ jobs[j].content = k[2]

(* An answer of decompile is about the bytes that the binary has at that time, *)
(* whatever it contained in earlier runs, with two exceptions: the model has   *)
(* changed it since this run first looked (decompile.py:39 looks for the path  *)
(* only), or the dump is one that a JVM which outlived its agent has opened.   *)
ListingIsOfContent ==
  \A a \in answered : a.of = a.now \/ a.changed \/ Strayed(a.file)

(* An analysis, which may take twenty minutes, is started at most once for a   *)
(* path and run, whether it fails or not (decompile.py:50), plus once for each *)
(* exception that is not a GhidraError.                                        *)
AnalysedOnce == \A p \in Paths : started[p] <= 1 + escaped[p]

(* decompile.py:50 without that exception: "never re-run analysis on a binary  *)
(* that already failed".                                                       *)
NeverRerun == \A p \in Paths : started[p] <= 1

(* emulate runs what the binary contains at the time of the call, also after   *)
(* it was patched or restored (tools/emulate.py:132), as long as no two of its *)
(* contents have had the same modification time and size.                      *)
StampsTell(p) ==
  \A t, u \in seen : t[1] = p /\ u[1] = p /\ t[2] = u[2] => t[3] = u[3]
EmulatesCurrent == \A e \in emulated : StampsTell(e[1]) => e[2] = e[3]

(* A call of decompile comes to an end although the JVM may hang.              *)
CallEnds == (pc # "idle") ~> (pc = "idle")
=============================================================================
