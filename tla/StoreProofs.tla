----------------------------- MODULE StoreProofs -----------------------------
(* Proofs about what the agent keeps on disk, for any constants.               *)
(* The cache of the decompiler: what is published in it is whole, or in a file *)
(* that a stray JVM has open too; a listing is of the bytes the binary has or  *)
(* of such a file; an analysis is not repeated; emulate runs what is there.    *)
(* The case file: its headers, the notes, the ledger, the blocks of            *)
(* compactions and the results of summaries survive any number of operations,  *)
(* until an accepted rewrite loses something.                                  *)
EXTENDS BinaryCache, CaseFile, SequenceTheorems, FiniteSetTheorems, TLAPS

-----------------------------------------------------------------------------
(* The cache: the JVMs, the files they have open and the names of these.       *)
PCs == {"idle", "look", "start", "wait", "validate", "publish", "load"}

Types ==
  /\ content \in [Paths -> Contents] /\ stamp \in [Paths -> 0..MaxPatches]
  /\ patches \in 0..MaxPatches
  /\ jobs \in Seq(Jobs) /\ orphans \subseteq 1..Len(jobs)
  /\ out \in [Keys -> 0..Len(jobs)] /\ tmp \in [Keys -> 0..Len(jobs)]
  /\ pc \in PCs /\ (pc # "idle" => path \in Paths)

(* A file is known by its creator, whose key all who open it share.  What the  *)
(* run's own JVM has imported is what the digest was taken of.                 *)
Creates(f, k) == f \in 1..Len(jobs) /\ jobs[f].file = f /\ jobs[f].key = k
JobInv == \A j \in 1..Len(jobs) :
  /\ jobs[j].file # 0 => Creates(jobs[j].file, jobs[j].key)
  /\ jobs[j].state \in {"starts", "analyses"} => jobs[j].file = 0
  /\ jobs[j].state \in {"analyses", "writes", "done", "odd"} => jobs[j].content # None
  /\ j \notin orphans /\ jobs[j].content # None => jobs[j].content = jobs[j].key[2]

AllDone(f) == \A j \in 1..Len(jobs) : jobs[j].file = f => jobs[j].state = "done"
OutInv == \A k \in Keys : out[k] # 0 => Creates(out[k], k) /\ (Strayed(out[k]) \/ AllDone(out[k]))
TmpInv == \A k \in Keys : tmp[k] # 0 => Creates(tmp[k], k) /\ tmp[k] # out[k]

(* A JVM that works is the one the agent waits for, or an orphan, and no other *)
(* JVM of this run has opened the dump that is waited for.                     *)
AliveInv == /\ \A j \in 1..Len(jobs) : Alive(j) => j \in orphans \/ (pc = "wait" /\ j = Mine)
            /\ pc \in {"wait", "validate", "publish"} => Mine \in 1..Len(jobs)
            /\ pc = "wait" => jobs[Mine].key = Key
OwnInv == pc \in {"wait", "validate", "publish"} /\ tmp[Key] # 0 =>
            \A j \in 1..Len(jobs) : jobs[j].file = tmp[Key] => j \in orphans \cup {Mine}
StageInv == /\ pc = "publish" => tmp[Key] # 0 /\ (Strayed(tmp[Key]) \/ jobs[Mine].state = "done")
            /\ pc = "load" => out[Key] # 0
FileInv == Types /\ JobInv /\ OutInv /\ TmpInv /\ AliveInv /\ OwnInv /\ StageInv

(* What has strayed stays so. *)
Grows == /\ Len(jobs) <= Len(jobs') /\ orphans \subseteq orphans'
         /\ \A i \in 1..Len(jobs) : jobs[i].file # 0 => jobs'[i].file = jobs[i].file

LEMMA KeyIs ==
  ASSUME Types, pc # "idle"
  PROVE  Key \in Keys /\ Key[1] = path /\ Key[2] = content[path] /\ path \in Paths
BY DEF Types, Key, Keys

LEMMA Strays ==
  ASSUME Types, Grows, NEW f \in 1..Len(jobs), Strayed(f)
  PROVE  Strayed(f)'
<1>1. PICK j \in orphans : j \in 1..Len(jobs) /\ jobs[j].file = f
  BY DEF Strayed, Openers
<1>2. Len(jobs) \in Nat /\ f # 0
  BY DEF Types
<1>3. jobs'[j].file = f /\ j \in orphans' /\ Len(jobs) <= Len(jobs')
  BY <1>1, <1>2 DEF Grows
<1>4. Len(jobs') \in Nat => j \in 1..Len(jobs')
  BY <1>1, <1>2, <1>3
<1> QED
  BY <1>3, <1>4 DEF Strayed, Openers

LEMMA JobChanges ==
  ASSUME Types, NEW j \in 1..Len(jobs), NEW m \in Jobs, jobs' = [jobs EXCEPT ![j] = m]
  PROVE  /\ jobs' \in Seq(Jobs) /\ Len(jobs') = Len(jobs) /\ jobs'[j] = m
         /\ \A i \in 1..Len(jobs) : i # j => jobs'[i] = jobs[i]
<1>1. jobs \in Seq(Jobs)
  BY DEF Types
<1> QED
  BY <1>1, ExceptSeq

LEMMA JobAdded ==
  ASSUME Types, NEW m \in Jobs, jobs' = Append(jobs, m)
  PROVE  /\ jobs' \in Seq(Jobs) /\ Len(jobs') = Len(jobs) + 1 /\ Len(jobs) \in Nat
         /\ jobs'[Len(jobs) + 1] = m
         /\ \A i \in 1..Len(jobs) : jobs'[i] = jobs[i]
BY AppendProperties DEF Types

LEMMA FileInit == Init => FileInv
<1> SUFFICES ASSUME Init PROVE FileInv
  OBVIOUS
<1>1. << >> \in Seq(Jobs) /\ Len(<< >>) = 0
  OBVIOUS
<1>2. Types
  BY <1>1, CacheAssumption DEF Init, Types, PCs, Zero
<1>3. JobInv /\ OutInv /\ TmpInv /\ AliveInv /\ OwnInv /\ StageInv
  BY <1>1 DEF Init, JobInv, OutInv, TmpInv, AliveInv, OwnInv, StageInv
<1> QED
  BY <1>2, <1>3 DEF FileInv

(* Steps that touch no JVM; they may unlink files and move one. *)
LEMMA JobsStay ==
  ASSUME FileInv, jobs' = jobs, orphans' = orphans
  PROVE  /\ Grows /\ JobInv'
         /\ \A f \in 0..Len(jobs) : Strayed(f)' = Strayed(f) /\ AllDone(f)' = AllDone(f)
         /\ \A f \in 0..Len(jobs), k \in Keys : Creates(f, k)' = Creates(f, k)
<1>1. Grows
  BY DEF Grows, FileInv, Types
<1>2. JobInv'
  BY DEF FileInv, JobInv, Creates
<1> QED
  BY <1>1, <1>2 DEF Strayed, Openers, AllDone, Creates

(* Steps that change no file and no JVM, and keep the agent's key. *)
LEMMA AgentMoves ==
  ASSUME FileInv, UNCHANGED <<jobs, orphans, files, world>>, path' = path,
         pc' \in PCs \ {"wait", "publish"}, pc' # "idle" => pc # "idle",
         pc = "wait" => ~ Alive(Mine),
         pc' = "validate" => pc \in {"wait", "validate"},
         pc' = "load" => pc = "load" \/ out[Key] # 0
  PROVE  FileInv' /\ Grows
<1>1. /\ out' = out /\ tmp' = tmp /\ jobs' = jobs /\ orphans' = orphans
      /\ content' = content /\ stamp' = stamp /\ patches' = patches
  BY DEF files, world
<1>2. Types'
  BY <1>1 DEF FileInv, Types
<1>3. Grows /\ JobInv' /\ OutInv' /\ TmpInv'
  BY <1>1, JobsStay DEF FileInv, OutInv, TmpInv, Types
<1>4. AliveInv'
  BY <1>1 DEF FileInv, AliveInv, Alive, Mine
<1>5. Key' = Key
  BY <1>1 DEF Key
<1>6. OwnInv'
  BY <1>1, <1>5 DEF FileInv, OwnInv, Mine
<1>7. StageInv'
  BY <1>1, <1>5 DEF FileInv, StageInv
<1> QED
  BY <1>2, <1>3, <1>4, <1>6, <1>7 DEF FileInv

LEMMA LookFiles ==
  ASSUME FileInv, Look
  PROVE  FileInv' /\ Grows
<1>1. pc = "look" /\ jobs' = jobs /\ orphans' = orphans /\ tmp' = tmp
  BY DEF Look
<1>2. /\ UNCHANGED world /\ path' = path
      /\ \/ pc' \in {"start", "load", "idle"} /\ out' = out /\ (pc' = "load" => out[Key] # 0)
         \/ pc' = "start" /\ out' = [out EXCEPT ![Key] = 0]
  BY DEF Look, Goto, Escape
<1>3. CASE pc' \in {"start", "load", "idle"} /\ out' = out /\ (pc' = "load" => out[Key] # 0)
  BY <1>1, <1>2, <1>3, AgentMoves DEF files, PCs
<1>4. CASE pc' = "start" /\ out' = [out EXCEPT ![Key] = 0]
  <2>1. Key \in Keys /\ Len(jobs) \in Nat
    BY <1>1, KeyIs DEF FileInv, Types
  <2>2. Types'
    BY <1>1, <1>2, <1>4, <2>1 DEF FileInv, Types, PCs, world
  <2>3. \A k \in Keys : out'[k] = out[k] \/ out'[k] = 0
    BY <1>4, <2>1 DEF FileInv, Types
  <2>4. Grows /\ JobInv' /\ OutInv' /\ TmpInv'
    BY <1>1, <2>3, JobsStay DEF FileInv, OutInv, TmpInv, Types
  <2>5. AliveInv' /\ OwnInv' /\ StageInv'
    BY <1>1, <1>4 DEF FileInv, AliveInv, OwnInv, StageInv, Alive, Mine
  <2> QED
    BY <2>2, <2>4, <2>5 DEF FileInv
<1> QED
  BY <1>2, <1>3, <1>4

(* Unlinking the dump that is waited for, with which the call may fail. *)
LEMMA Unlinks ==
  ASSUME FileInv, UNCHANGED <<jobs, orphans, out, world>>, path' = path,
         pc # "idle", pc' = "idle", tmp' \in {tmp, [tmp EXCEPT ![Key] = 0]},
         pc = "wait" => ~ Alive(Mine)
  PROVE  FileInv' /\ Grows
<1>1. Key \in Keys /\ Len(jobs) \in Nat
  BY KeyIs DEF FileInv, Types
<1>2. tmp' \in [Keys -> 0..Len(jobs)] /\ \A k \in Keys : tmp'[k] = tmp[k] \/ tmp'[k] = 0
  <2> DEFINE cleared == [tmp EXCEPT ![Key] = 0]
  <2>1. tmp \in [Keys -> 0..Len(jobs)]
    BY DEF FileInv, Types
  <2>2. cleared \in [Keys -> 0..Len(jobs)] /\ \A k \in Keys : cleared[k] = tmp[k] \/ cleared[k] = 0
    BY <1>1, <2>1
  <2>3. tmp' = tmp \/ tmp' = cleared
    OBVIOUS
  <2> HIDE DEF cleared
  <2> QED
    BY <2>1, <2>2, <2>3
<1>3. Types'
  BY <1>2 DEF FileInv, Types, world, PCs
<1>4. Grows /\ JobInv' /\ OutInv' /\ TmpInv'
  BY <1>2, JobsStay DEF FileInv, OutInv, TmpInv, Types
<1>5. AliveInv'
  BY DEF FileInv, AliveInv, Alive, Mine
<1>6. OwnInv' /\ StageInv'
  BY DEF OwnInv, StageInv
<1> QED
  BY <1>3, <1>4, <1>5, <1>6 DEF FileInv

LEMMA StartFiles ==
  ASSUME FileInv, Start
  PROVE  FileInv' /\ Grows
<1>1. pc = "start" /\ orphans' = orphans /\ out' = out
  BY DEF Start
<1>2. CASE Fail /\ UNCHANGED <<jobs, tmp>>
  BY <1>1, <1>2, Unlinks DEF Fail
<1>3. CASE tmp' = [tmp EXCEPT ![Key] = 0] /\ Escape /\ UNCHANGED jobs
  BY <1>1, <1>3, Unlinks DEF Escape
<1>4. CASE ~ (Fail /\ UNCHANGED <<jobs, tmp>>)
           /\ ~ (tmp' = [tmp EXCEPT ![Key] = 0] /\ Escape /\ UNCHANGED jobs)
  <2> DEFINE m == [key |-> Key, content |-> None, file |-> 0, state |-> "starts"]
  <2>1. /\ tmp' = [tmp EXCEPT ![Key] = 0] /\ jobs' = Append(jobs, m) /\ pc' = "wait"
        /\ UNCHANGED world /\ path' = path
    BY <1>4 DEF Start
  <2>2. Key \in Keys /\ path \in Paths /\ Key' = Key
    BY <1>1, <2>1, KeyIs DEF FileInv, Key, world
  <2>3. m \in Jobs /\ m.key = Key /\ m.content = None /\ m.file = 0 /\ m.state = "starts"
    BY <2>2 DEF Jobs, JobStates
  <2> HIDE DEF m
  <2>4. /\ jobs' \in Seq(Jobs) /\ Len(jobs') = Len(jobs) + 1 /\ Len(jobs) \in Nat
        /\ jobs'[Len(jobs) + 1] = m
        /\ \A i \in 1..Len(jobs) : jobs'[i] = jobs[i]
    BY <2>1, <2>3, JobAdded DEF FileInv
  <2>5. /\ \A k \in Keys : tmp'[k] = tmp[k] \/ tmp'[k] = 0
        /\ tmp'[Key] = 0
    BY <2>1, <2>2 DEF FileInv, Types
  <2>6. \A k \in Keys : out[k] \in 0..Len(jobs) /\ tmp[k] \in 0..Len(jobs)
    BY DEF FileInv, Types
  <2>7. out' \in [Keys -> 0..Len(jobs')] /\ tmp' \in [Keys -> 0..Len(jobs')]
    BY <1>1, <2>1, <2>2, <2>4 DEF FileInv, Types
  <2>8. orphans' \subseteq 1..Len(jobs')
    BY <1>1, <2>4 DEF FileInv, Types
  <2>9. Types'
    BY <2>1, <2>2, <2>4, <2>7, <2>8 DEF FileInv, Types, PCs, world
  <2>10. Grows
    BY <1>1, <2>4 DEF Grows
  <2>11. JobInv'
    BY <1>1, <2>3, <2>4 DEF FileInv, JobInv, Creates
  <2>12. \A f \in 1..Len(jobs) : AllDone(f) => AllDone(f)'
    BY <2>3, <2>4 DEF AllDone
  <2>13. \A f \in 1..Len(jobs), k \in Keys : Creates(f, k) => Creates(f, k)'
    BY <2>4 DEF Creates
  <2>14. OutInv'
    <3>1. \A f \in 1..Len(jobs) : Strayed(f) => Strayed(f)'
      BY <2>10, Strays DEF FileInv
    <3> QED
      BY <1>1, <2>6, <2>12, <2>13, <3>1 DEF FileInv, OutInv
  <2>15. TmpInv'
    BY <1>1, <2>5, <2>6, <2>13 DEF FileInv, TmpInv
  <2>16. AliveInv'
    BY <1>1, <2>1, <2>2, <2>3, <2>4 DEF FileInv, AliveInv, Alive, Mine
  <2>17. OwnInv' /\ StageInv'
    BY <2>1, <2>2, <2>5 DEF OwnInv, StageInv
  <2> QED
    BY <2>9, <2>10, <2>11, <2>14, <2>15, <2>16, <2>17 DEF FileInv
<1> QED
  BY <1>2, <1>3, <1>4

LEMMA ValidateFiles ==
  ASSUME FileInv, Validate
  PROVE  FileInv' /\ Grows
<1>1. pc = "validate" /\ UNCHANGED <<jobs, orphans, out>>
  BY DEF Validate
<1>2. CASE pc' = "idle"
  <2>1. UNCHANGED world /\ path' = path /\ tmp' \in {tmp, [tmp EXCEPT ![Key] = 0]}
    BY <1>2 DEF Validate, Fail, Escape, Goto
  <2> QED
    BY <1>1, <1>2, <2>1, Unlinks
<1>3. CASE pc' # "idle"
  <2>1. /\ pc' = "publish" /\ tmp' = tmp /\ tmp[Key] # 0 /\ Whole(tmp[Key])
        /\ UNCHANGED world /\ path' = path
    BY <1>3 DEF Validate, Fail, Escape, Goto
  <2>2. Types' /\ Key' = Key
    BY <1>1, <2>1 DEF FileInv, Types, PCs, world, Key
  <2>3. Grows /\ JobInv' /\ OutInv' /\ TmpInv'
    BY <1>1, <2>1, JobsStay DEF FileInv, OutInv, TmpInv, Types
  <2>4. AliveInv' /\ OwnInv'
    BY <1>1, <2>1, <2>2 DEF FileInv, AliveInv, OwnInv, Alive, Mine
  <2>5. Strayed(tmp[Key]) \/ jobs[Mine].state = "done"
    BY <1>1, <2>1 DEF FileInv, OwnInv, Whole, Strayed, Openers
  <2>6. StageInv'
    BY <1>1, <2>1, <2>2, <2>5 DEF StageInv, Strayed, Openers, Mine
  <2> QED
    BY <2>2, <2>3, <2>4, <2>6 DEF FileInv
<1> QED
  BY <1>2, <1>3

LEMMA PublishFiles ==
  ASSUME FileInv, Publish
  PROVE  FileInv' /\ Grows
<1>1. /\ pc = "publish" /\ pc' = "load" /\ jobs' = jobs /\ orphans' = orphans
      /\ UNCHANGED world /\ path' = path
      /\ out' = [out EXCEPT ![Key] = tmp[Key]] /\ tmp' = [tmp EXCEPT ![Key] = 0]
  BY DEF Publish, Goto
<1>2. Key \in Keys /\ Len(jobs) \in Nat /\ path \in Paths /\ Key' = Key
  BY <1>1, KeyIs DEF FileInv, Types, world, Key
<1>3. Types'
  BY <1>1, <1>2 DEF FileInv, Types, PCs, world
<1>4. tmp[Key] # 0 /\ (Strayed(tmp[Key]) \/ AllDone(tmp[Key])) /\ Creates(tmp[Key], Key)
  <2>1. tmp[Key] # 0 /\ (Strayed(tmp[Key]) \/ jobs[Mine].state = "done")
    BY <1>1 DEF FileInv, StageInv
  <2>2. ~ Strayed(tmp[Key]) => \A j \in 1..Len(jobs) : jobs[j].file = tmp[Key] => j = Mine
    BY <1>1, <2>1 DEF FileInv, OwnInv, Strayed, Openers
  <2> QED
    BY <1>2, <2>1, <2>2 DEF AllDone, FileInv, TmpInv
<1>5. /\ tmp'[Key] = 0 /\ \A k \in Keys : k # Key => tmp'[k] = tmp[k]
      /\ \A k \in Keys : k # Key => out'[k] = out[k]
      /\ out'[Key] = tmp[Key]
      /\ \A k \in Keys : tmp[k] \in 0..Len(jobs) /\ out[k] \in 0..Len(jobs)
  BY <1>1, <1>2 DEF FileInv, Types
<1>6. /\ Grows /\ JobInv'
      /\ \A f \in 0..Len(jobs) : Strayed(f)' = Strayed(f) /\ AllDone(f)' = AllDone(f)
      /\ \A f \in 0..Len(jobs), k \in Keys : Creates(f, k)' = Creates(f, k)
  BY <1>1, JobsStay
<1>7. OutInv'
  BY <1>2, <1>4, <1>5, <1>6 DEF FileInv, OutInv
<1>8. TmpInv'
  BY <1>2, <1>5, <1>6 DEF FileInv, TmpInv
<1>9. AliveInv' /\ OwnInv'
  BY <1>1 DEF FileInv, AliveInv, OwnInv, Alive, Mine
<1>10. StageInv'
  BY <1>1, <1>2, <1>4, <1>5 DEF StageInv
<1> QED
  BY <1>3, <1>6, <1>7, <1>8, <1>9, <1>10 DEF FileInv

(* A JVM that works comes to its end, one way or another. *)
NoneRises(j) == \A i \in 1..Len(jobs) :
  /\ Alive(i)' => Alive(i)
  /\ Alive(i)' => i # j
  /\ jobs'[i].file = jobs[i].file /\ jobs'[i].key = jobs[i].key
  /\ jobs[i].state = "done" => jobs'[i].state = "done"

Ends(j, s) ==
  /\ Alive(j) /\ s \in {"done", "cut", "odd"}
  /\ s \in {"done", "odd"} => jobs[j].state = "writes"
  /\ jobs' = [jobs EXCEPT ![j].state = s] /\ out' = out
  /\ orphans \subseteq orphans' /\ orphans' \subseteq 1..Len(jobs)
  /\ \A k \in Keys : tmp'[k] = tmp[k] \/ tmp'[k] = 0

LEMMA JobEnds ==
  ASSUME FileInv, NEW j \in 1..Len(jobs), NEW s, Ends(j, s)
  PROVE  /\ jobs' \in Seq(Jobs) /\ Len(jobs') = Len(jobs) /\ jobs'[j].state = s
         /\ Grows /\ JobInv' /\ OutInv' /\ TmpInv' /\ NoneRises(j)
<1> DEFINE new == [jobs[j] EXCEPT !.state = s]
<1>1. jobs[j] \in Jobs /\ jobs \in Seq(Jobs) /\ Len(jobs) \in Nat
  BY DEF FileInv, Types
<1>0. /\ Alive(j) /\ s \in {"done", "cut", "odd"} /\ out' = out /\ orphans \subseteq orphans'
      /\ s \in {"done", "odd"} => jobs[j].state = "writes"
  BY DEF Ends
<1>2. /\ new \in Jobs /\ new.state = s /\ new.key = jobs[j].key
      /\ new.content = jobs[j].content /\ new.file = jobs[j].file
  BY <1>0, <1>1 DEF Jobs, JobStates
<1>3. jobs' = [jobs EXCEPT ![j] = new]
  BY DEF Ends
<1> HIDE DEF new
<1>4. /\ jobs' \in Seq(Jobs) /\ Len(jobs') = Len(jobs) /\ jobs'[j] = new
      /\ \A i \in 1..Len(jobs) : i # j => jobs'[i] = jobs[i]
  BY <1>2, <1>3, JobChanges DEF FileInv
<1>5. \A i \in 1..Len(jobs) : /\ jobs'[i].key = jobs[i].key /\ jobs'[i].content = jobs[i].content
                              /\ jobs'[i].file = jobs[i].file
  BY <1>2, <1>4
<1>6. \A i \in 1..Len(jobs) : Alive(i)' => Alive(i) /\ i # j
  BY <1>0, <1>2, <1>4 DEF Alive
<1>7. Grows
  BY <1>0, <1>4, <1>5, <1>1 DEF Grows
<1>9. JobInv'
  <2> SUFFICES ASSUME NEW i \in 1..Len(jobs)
               PROVE /\ jobs'[i].file # 0 => Creates(jobs[i].file, jobs[i].key)'
                     /\ jobs'[i].state \in {"starts", "analyses"} => jobs'[i].file = 0
                     /\ jobs'[i].state \in {"analyses", "writes", "done", "odd"} => jobs'[i].content # None
                     /\ i \notin orphans' /\ jobs'[i].content # None => jobs'[i].content = jobs'[i].key[2]
    BY <1>4 DEF JobInv
  <2>1. /\ jobs[i].file # 0 => Creates(jobs[i].file, jobs[i].key)
        /\ jobs[i].state \in {"starts", "analyses"} => jobs[i].file = 0
        /\ jobs[i].state \in {"analyses", "writes", "done", "odd"} => jobs[i].content # None
        /\ i \notin orphans /\ jobs[i].content # None => jobs[i].content = jobs[i].key[2]
    BY DEF FileInv, JobInv
  <2>2. jobs[i].file # 0 => Creates(jobs[i].file, jobs[i].key)'
    BY <1>4, <1>5, <2>1 DEF Creates
  <2>3. i # j => jobs'[i].state = jobs[i].state
    BY <1>4
  <2>4. i = j => jobs'[i].state = s
    BY <1>4, <1>2
  <2> QED
    BY <1>0, <1>5, <2>1, <2>2, <2>3, <2>4
<1>10. \A k \in Keys : /\ out[k] \in 0..Len(jobs) /\ tmp[k] \in 0..Len(jobs)
                       /\ tmp[k] # 0 => Creates(tmp[k], k)
                       /\ out[k] # 0 => Creates(out[k], k)
  BY DEF FileInv, Types, OutInv, TmpInv
<1>11. \A i \in 1..Len(jobs) : jobs[i].state = "done" => jobs'[i].state = "done"
  BY <1>0, <1>4 DEF Alive
<1>12. OutInv'
  <2> SUFFICES ASSUME NEW k \in Keys, out[k] # 0
               PROVE  Creates(out[k], k)' /\ (Strayed(out[k])' \/ AllDone(out[k])')
    BY <1>0 DEF OutInv
  <2>1. PICK f : f = out[k] /\ f = out'[k]
    BY <1>0
  <2>3. f \in 1..Len(jobs) /\ Creates(f, k) /\ (Strayed(f) \/ AllDone(f))
    BY <1>1, <1>10, <2>1 DEF FileInv, OutInv, Creates
  <2>4. Creates(f, k)'
    BY <1>4, <1>5, <2>3 DEF Creates
  <2>5. Strayed(f) => Strayed(f)'
    BY <1>7, <2>3, Strays DEF FileInv
  <2>6. AllDone(f) => AllDone(f)'
    BY <1>4, <1>5, <1>11, <2>3 DEF AllDone
  <2> QED
    BY <2>1, <2>3, <2>4, <2>5, <2>6 DEF Creates, Strayed, Openers, AllDone
<1>13. TmpInv'
  <2>1. \A k \in Keys : tmp'[k] = tmp[k] \/ tmp'[k] = 0
    BY DEF Ends
  <2> QED
    BY <2>1, <1>0, <1>4, <1>5, <1>10 DEF FileInv, TmpInv, Creates
<1>14. NoneRises(j)
  BY <1>5, <1>6, <1>11 DEF NoneRises
<1> QED
  BY <1>2, <1>4, <1>7, <1>9, <1>12, <1>13, <1>14

LEMMA TimesOutFiles ==
  ASSUME FileInv, TimesOut
  PROVE  FileInv' /\ Grows
<1>1. /\ pc = "wait" /\ Alive(Mine) /\ pc' = "idle"
      /\ jobs' = [jobs EXCEPT ![Mine].state = "cut"] /\ orphans' = orphans /\ out' = out
      /\ tmp' = tmp \/ tmp' = [tmp EXCEPT ![Key] = 0]
      /\ UNCHANGED world /\ path' = path
  BY DEF TimesOut, Fail, Escape
<1>2. Key \in Keys /\ Len(jobs) \in Nat /\ Mine \in 1..Len(jobs)
  BY <1>1, KeyIs DEF FileInv, Types, AliveInv
<1>3. /\ tmp' \in [Keys -> 0..Len(jobs)]
      /\ \A k \in Keys : tmp'[k] = tmp[k] \/ tmp'[k] = 0
  <2>1. tmp \in [Keys -> 0..Len(jobs)]
    BY DEF FileInv, Types
  <2>2. CASE tmp' = tmp
    BY <2>1, <2>2
  <2>3. CASE tmp' = [tmp EXCEPT ![Key] = 0]
    BY <1>2, <2>1, <2>3
  <2> QED
    BY <1>1, <2>2, <2>3
<1>4. orphans' \subseteq 1..Len(jobs)
  BY <1>1 DEF FileInv, Types
<1>5. /\ jobs' \in Seq(Jobs) /\ Len(jobs') = Len(jobs) /\ Grows /\ JobInv' /\ OutInv' /\ TmpInv'
      /\ NoneRises(Mine)
  <2>1. "cut" \in {"done", "cut", "odd"} /\ ~ ("cut" \in {"done", "odd"})
    OBVIOUS
  <2>2. orphans \subseteq orphans'
    BY <1>1
  <2>3. Ends(Mine, "cut")
    BY <1>1, <1>3, <1>4, <2>1, <2>2 DEF Ends
  <2> QED
    BY <1>2, <2>3, JobEnds
<1>6. Types'
  BY <1>1, <1>2, <1>3, <1>5 DEF FileInv, Types, PCs, world
<1>7. AliveInv'
  BY <1>1, <1>5 DEF FileInv, AliveInv, NoneRises
<1>8. OwnInv' /\ StageInv'
  BY <1>1 DEF OwnInv, StageInv
<1> QED
  BY <1>5, <1>6, <1>7, <1>8 DEF FileInv

LEMMA JvmEndFiles ==
  ASSUME FileInv, NEW j \in 1..Len(jobs), JvmWrites(j) \/ JvmDies(j)
  PROVE  FileInv' /\ Grows
<1>1. /\ Alive(j) /\ orphans' = orphans /\ out' = out /\ tmp' = tmp
      /\ pc' = pc /\ UNCHANGED world /\ path' = path
  BY DEF JvmWrites, JvmDies, Alive, files
<1>2. PICK s \in {"done", "cut", "odd"} : /\ jobs' = [jobs EXCEPT ![j].state = s]
                                          /\ s \in {"done", "odd"} => jobs[j].state = "writes"
  BY DEF JvmWrites, JvmDies
<1>3. /\ jobs' \in Seq(Jobs) /\ Len(jobs') = Len(jobs) /\ Grows /\ JobInv' /\ OutInv' /\ TmpInv'
      /\ NoneRises(j)
  <2>1. orphans' \subseteq 1..Len(jobs) /\ orphans \subseteq orphans'
    BY <1>1 DEF FileInv, Types
  <2>2. \A k \in Keys : tmp'[k] = tmp[k] \/ tmp'[k] = 0
    BY <1>1
  <2>3. Ends(j, s)
    BY <1>1, <1>2, <2>1, <2>2 DEF Ends
  <2> QED
    BY <2>3, JobEnds
<1>4. Types' /\ Key' = Key /\ Mine' = Mine
  BY <1>1, <1>3 DEF FileInv, Types, world, Key, Mine
<1>5. AliveInv'
  <2>1. pc = "wait" => Mine \in 1..Len(jobs)
    BY DEF FileInv, AliveInv
  <2> QED
    BY <1>1, <1>3, <1>4, <2>1 DEF FileInv, AliveInv, NoneRises
<1>6. OwnInv'
  BY <1>1, <1>3, <1>4 DEF FileInv, OwnInv, NoneRises
<1>7. StageInv'
  <2>1. CASE pc = "publish"
    <3>1. /\ Key \in Keys /\ tmp[Key] # 0 /\ (Strayed(tmp[Key]) \/ jobs[Mine].state = "done")
          /\ Mine \in 1..Len(jobs) /\ tmp[Key] \in 0..Len(jobs)
      BY <2>1, KeyIs DEF FileInv, Types, StageInv, AliveInv
    <3>2. Strayed(tmp[Key])' \/ jobs'[Mine].state = "done"
      <4>1. tmp[Key] \in 1..Len(jobs) /\ tmp'[Key'] = tmp[Key]
        BY <1>1, <1>4, <3>1
      <4>2. CASE Strayed(tmp[Key])
        <5>1. \A f \in 1..Len(jobs) : Strayed(f) => Strayed(f)'
          BY <1>3, Strays DEF FileInv
        <5> QED
          BY <4>1, <4>2, <5>1, <1>4 DEF Strayed
      <4>3. CASE jobs[Mine].state = "done"
        BY <1>3, <3>1, <4>3 DEF NoneRises
      <4> QED
        BY <3>1, <4>2, <4>3
    <3> QED
      BY <1>1, <1>4, <2>1, <3>1, <3>2 DEF StageInv
  <2>2. CASE pc # "publish"
    BY <1>1, <1>4, <2>2 DEF FileInv, StageInv
  <2> QED
    BY <2>1, <2>2
<1> QED
  BY <1>3, <1>4, <1>5, <1>6, <1>7 DEF FileInv

LEMMA NewRunFiles ==
  ASSUME FileInv, NewRun
  PROVE  FileInv' /\ Grows
<1> DEFINE living == {j \in 1..Len(jobs) : jobs'[j].state \in {"starts", "analyses", "writes"}}
<1>1. /\ pc' = "idle" /\ out' = out /\ tmp' = tmp /\ UNCHANGED world
      /\ orphans' = orphans \cup living
      /\ \/ jobs' = jobs
         \/ pc = "wait" /\ Alive(Mine) /\ jobs' = [jobs EXCEPT ![Mine].state = "cut"]
  BY DEF NewRun, files
<1>2. orphans \subseteq orphans' /\ orphans' \subseteq 1..Len(jobs) /\ Len(jobs) \in Nat
  BY <1>1 DEF FileInv, Types
<1>3. jobs' \in Seq(Jobs) /\ Len(jobs') = Len(jobs) /\ Grows /\ JobInv' /\ OutInv' /\ TmpInv'
  <2>1. CASE jobs' = jobs
    <3>1. Grows
      BY <1>2, <2>1 DEF Grows
    <3>2. \A f \in 1..Len(jobs) : Strayed(f) => Strayed(f)'
      BY <3>1, Strays DEF FileInv
    <3>3. \A f, k : Creates(f, k)' = Creates(f, k)
      BY <2>1 DEF Creates
    <3>4. \A f : AllDone(f)' = AllDone(f)
      BY <2>1 DEF AllDone
    <3>5. JobInv' /\ TmpInv'
      BY <1>1, <1>2, <2>1, <3>3 DEF FileInv, JobInv, TmpInv
    <3>6. OutInv'
      BY <1>1, <3>2, <3>3, <3>4 DEF FileInv, Types, OutInv
    <3> QED
      BY <2>1, <3>1, <3>5, <3>6 DEF FileInv, Types
  <2>2. CASE pc = "wait" /\ Alive(Mine) /\ jobs' = [jobs EXCEPT ![Mine].state = "cut"]
    <3>1. Mine \in 1..Len(jobs)
      BY <2>2 DEF FileInv, AliveInv
    <3>2. "cut" \in {"done", "cut", "odd"} /\ ~ ("cut" \in {"done", "odd"})
      OBVIOUS
    <3>3. Ends(Mine, "cut")
      BY <1>1, <1>2, <2>2, <3>2 DEF Ends
    <3> QED
      BY <3>1, <3>3, JobEnds
  <2> QED
    BY <1>1, <2>1, <2>2
<1>4. Types'
  BY <1>1, <1>2, <1>3 DEF FileInv, Types, PCs, world
<1>5. AliveInv'
  BY <1>1, <1>3 DEF AliveInv, Alive
<1>6. OwnInv' /\ StageInv'
  BY <1>1 DEF OwnInv, StageInv
<1> QED
  BY <1>3, <1>4, <1>5, <1>6 DEF FileInv

(* The import: what the agent's own JVM reads is what the digest was taken of. *)
LEMMA ImportFiles ==
  ASSUME FileInv, NEW j \in 1..Len(jobs), JvmImports(j)
  PROVE  FileInv' /\ Grows
<1> DEFINE new == [jobs[j] EXCEPT !.state = "analyses", !.content = content[jobs[j].key[1]]]
<1>1. /\ jobs[j].state = "starts" /\ orphans' = orphans /\ out' = out /\ tmp' = tmp
      /\ pc' = pc /\ UNCHANGED world /\ path' = path
  BY DEF JvmImports, files
<1>2. /\ jobs[j] \in Jobs /\ jobs \in Seq(Jobs) /\ Len(jobs) \in Nat
      /\ jobs[j].key[1] \in Paths /\ content[jobs[j].key[1]] \in Contents
  <2>1. jobs[j] \in Jobs /\ jobs \in Seq(Jobs) /\ Len(jobs) \in Nat /\ content \in [Paths -> Contents]
    BY DEF FileInv, Types
  <2>2. jobs[j].key \in Paths \X Contents
    BY <2>1 DEF Jobs, Keys
  <2>3. jobs[j].key[1] \in Paths
    BY <2>2
  <2> QED
    BY <2>1, <2>3
<1>3. /\ new \in Jobs /\ new.state = "analyses" /\ new.key = jobs[j].key
      /\ new.content = content[jobs[j].key[1]] /\ new.file = jobs[j].file
  BY <1>2 DEF Jobs, JobStates
<1>4. /\ jobs' \in Seq(Jobs) /\ Len(jobs') = Len(jobs) /\ jobs'[j] = new
      /\ \A i \in 1..Len(jobs) : i # j => jobs'[i] = jobs[i]
  <2>1. jobs' = [jobs EXCEPT ![j] = new]
    BY DEF JvmImports
  <2> HIDE DEF new
  <2> QED
    BY <2>1, <1>3, JobChanges DEF FileInv
<1> HIDE DEF new
<1>5. \A i \in 1..Len(jobs) : /\ jobs'[i].key = jobs[i].key /\ jobs'[i].file = jobs[i].file
                              /\ jobs'[i].state = "done" => jobs[i].state = "done"
                              /\ jobs[i].state = "done" => jobs'[i].state = "done"
                              /\ Alive(i)' => Alive(i)
  <2> SUFFICES ASSUME NEW i \in 1..Len(jobs)
               PROVE /\ jobs'[i].key = jobs[i].key /\ jobs'[i].file = jobs[i].file
                     /\ jobs'[i].state = "done" => jobs[i].state = "done"
                     /\ jobs[i].state = "done" => jobs'[i].state = "done"
                     /\ Alive(i)' => Alive(i)
    OBVIOUS
  <2>1. CASE i = j
    BY <1>1, <1>3, <1>4, <2>1 DEF Alive
  <2>2. CASE i # j
    BY <1>4, <2>2 DEF Alive
  <2> QED
    BY <2>1, <2>2
<1>6. Types' /\ Key' = Key /\ Mine' = Mine
  BY <1>1, <1>4 DEF FileInv, Types, world, Key, Mine
<1>7. Grows
  BY <1>1, <1>2, <1>4, <1>5 DEF Grows
<1>9. j \notin orphans => new.content = jobs[j].key[2]
  <2>1. SUFFICES ASSUME j \notin orphans PROVE new.content = jobs[j].key[2]
    OBVIOUS
  <2>2. pc = "wait" /\ jobs[j].key = Key
    BY <1>1, <2>1 DEF FileInv, AliveInv, Alive
  <2>3. Key[1] = path /\ Key[2] = content[path]
    BY <2>2, KeyIs DEF FileInv
  <2> QED
    BY <1>3, <2>2, <2>3
<1>10. JobInv'
  <2> SUFFICES ASSUME NEW i \in 1..Len(jobs)
               PROVE /\ jobs'[i].file # 0 => Creates(jobs[i].file, jobs[i].key)'
                     /\ jobs'[i].state \in {"starts", "analyses"} => jobs'[i].file = 0
                     /\ jobs'[i].state \in {"analyses", "writes", "done", "odd"} => jobs'[i].content # None
                     /\ i \notin orphans' /\ jobs'[i].content # None => jobs'[i].content = jobs'[i].key[2]
    BY <1>4 DEF JobInv
  <2>1. /\ jobs[i].file # 0 => Creates(jobs[i].file, jobs[i].key)
        /\ jobs[i].state \in {"starts", "analyses"} => jobs[i].file = 0
        /\ jobs[i].state \in {"analyses", "writes", "done", "odd"} => jobs[i].content # None
        /\ i \notin orphans /\ jobs[i].content # None => jobs[i].content = jobs[i].key[2]
    BY DEF FileInv, JobInv
  <2>2. jobs[i].file # 0 => Creates(jobs[i].file, jobs[i].key)'
    BY <1>4, <1>5, <2>1 DEF Creates
  <2>3. CASE i # j
    BY <1>1, <1>4, <2>1, <2>2, <2>3
  <2>4. CASE i = j
    <3>1. new.content # None /\ jobs[j].file = 0
      BY <1>1, <1>2, <1>3, <2>1, <2>4, CacheAssumption
    <3> QED
      BY <1>1, <1>3, <1>4, <1>9, <2>4, <3>1
  <2> QED
    BY <2>3, <2>4
<1>11. OutInv'
  <2> SUFFICES ASSUME NEW k \in Keys, out[k] # 0
               PROVE  Creates(out[k], k)' /\ (Strayed(out[k])' \/ AllDone(out[k])')
    BY <1>1 DEF OutInv
  <2>1. PICK f : f = out[k] /\ f = out'[k]
    BY <1>1
  <2>2. f \in 1..Len(jobs) /\ Creates(f, k) /\ (Strayed(f) \/ AllDone(f))
    BY <2>1 DEF FileInv, OutInv, Creates
  <2>3. Creates(f, k)'
    BY <1>4, <1>5, <2>2 DEF Creates
  <2>4. Strayed(f) => Strayed(f)'
    BY <1>7, <2>2, Strays DEF FileInv
  <2>5. AllDone(f) => AllDone(f)'
    BY <1>4, <1>5, <2>2 DEF AllDone
  <2> QED
    BY <2>1, <2>2, <2>3, <2>4, <2>5 DEF Creates, Strayed, Openers, AllDone
<1>12. TmpInv'
  BY <1>1, <1>4, <1>5 DEF FileInv, TmpInv, Creates
<1>13. AliveInv'
  <2>1. pc = "wait" => Mine \in 1..Len(jobs)
    BY DEF FileInv, AliveInv
  <2> QED
    BY <1>1, <1>4, <1>5, <1>6, <2>1 DEF FileInv, AliveInv
<1>14. OwnInv'
  BY <1>1, <1>4, <1>5, <1>6 DEF FileInv, OwnInv
<1>15. StageInv'
  <2>1. pc = "publish" => Mine \in 1..Len(jobs)
    BY DEF FileInv, AliveInv
  <2>2. Strayed(tmp[Key]) => Strayed(tmp[Key])'
    BY <1>1, <1>4, <1>5, <1>6 DEF Strayed, Openers
  <2> QED
    BY <1>1, <1>5, <1>6, <2>1, <2>2 DEF FileInv, StageInv
<1> QED
  BY <1>6, <1>7, <1>10, <1>11, <1>12, <1>13, <1>14, <1>15 DEF FileInv

(* Opening the dump: the file that has its name, or a new one. *)
LEMMA OpenFiles ==
  ASSUME FileInv, NEW j \in 1..Len(jobs), JvmOpens(j)
  PROVE  FileInv' /\ Grows
<1>1. PICK k, f : /\ k = jobs[j].key /\ f = IF tmp[k] = 0 THEN j ELSE tmp[k]
  OBVIOUS
<1> DEFINE new == [jobs[j] EXCEPT !.state = "writes", !.file = f]
<1>2. /\ jobs[j].state = "analyses" /\ orphans' = orphans /\ out' = out
      /\ pc' = pc /\ UNCHANGED world /\ path' = path
      /\ tmp' = [tmp EXCEPT ![k] = f]
  BY <1>1 DEF JvmOpens
<1>3. /\ jobs[j] \in Jobs /\ jobs \in Seq(Jobs) /\ Len(jobs) \in Nat /\ k \in Keys
      /\ tmp \in [Keys -> 0..Len(jobs)] /\ orphans \subseteq 1..Len(jobs)
  <2>1. /\ jobs[j] \in Jobs /\ jobs \in Seq(Jobs) /\ Len(jobs) \in Nat
        /\ tmp \in [Keys -> 0..Len(jobs)] /\ orphans \subseteq 1..Len(jobs)
    BY DEF FileInv, Types
  <2>2. jobs[j].key \in Keys
    BY <2>1 DEF Jobs
  <2> QED
    BY <1>1, <2>1, <2>2
<1>4. /\ jobs[j].file = 0 /\ jobs[j].content # None
      /\ j \notin orphans => jobs[j].content = k[2]
      /\ j \in orphans \/ (pc = "wait" /\ j = Mine)
  BY <1>1, <1>2 DEF FileInv, JobInv, AliveInv, Alive
<1>5. /\ tmp[k] \in 0..Len(jobs) /\ out[k] \in 0..Len(jobs) /\ f \in 1..Len(jobs)
      /\ tmp[k] # 0 => Creates(f, k) /\ f = tmp[k] /\ f # j
      /\ tmp[k] = 0 => f = j
  <2>1. tmp[k] # 0 => Creates(tmp[k], k)
    BY <1>3 DEF FileInv, TmpInv
  <2> QED
    BY <1>1, <1>3, <1>4, <2>1 DEF FileInv, Types, Creates
<1>6. /\ new \in Jobs /\ new.state = "writes" /\ new.key = k
      /\ new.content = jobs[j].content /\ new.file = f
  <2>1. f \in Nat /\ jobs[j].key = k
    BY <1>1, <1>3, <1>5
  <2> QED
    BY <1>3, <2>1 DEF Jobs, JobStates
<1>7. /\ jobs' \in Seq(Jobs) /\ Len(jobs') = Len(jobs) /\ jobs'[j] = new
      /\ \A i \in 1..Len(jobs) : i # j => jobs'[i] = jobs[i]
  <2>1. jobs' = [jobs EXCEPT ![j] = new]
    BY <1>1 DEF JvmOpens
  <2> HIDE DEF new
  <2> QED
    BY <2>1, <1>6, JobChanges DEF FileInv
<1> HIDE DEF new
<1>8. Grows
  BY <1>2, <1>3, <1>4, <1>7 DEF Grows
<1>9. /\ tmp' \in [Keys -> 0..Len(jobs)] /\ tmp'[k] = f
      /\ \A l \in Keys : l # k => tmp'[l] = tmp[l]
  BY <1>2, <1>3, <1>5
<1>10. Types' /\ Key' = Key /\ Mine' = Mine
  BY <1>2, <1>3, <1>7, <1>9 DEF FileInv, Types, world, Key, Mine
<1>11. Creates(f, k)'
  <2>1. CASE tmp[k] = 0
    BY <1>5, <1>6, <1>7, <2>1 DEF Creates
  <2>2. CASE tmp[k] # 0
    BY <1>5, <1>7, <2>2 DEF Creates
  <2> QED
    BY <2>1, <2>2
(* Whoever created a file before keeps it. *)
<1>12. ASSUME NEW g, NEW l, Creates(g, l)
       PROVE  Creates(g, l)' /\ g # j
  BY <1>4, <1>7, <1>12 DEF Creates
<1>13. JobInv'
  <2> SUFFICES ASSUME NEW i \in 1..Len(jobs)
               PROVE /\ jobs'[i].file # 0 => \E g, l : g = jobs'[i].file /\ l = jobs'[i].key /\ Creates(g, l)'
                     /\ jobs'[i].state \in {"starts", "analyses"} => jobs'[i].file = 0
                     /\ jobs'[i].state \in {"analyses", "writes", "done", "odd"} => jobs'[i].content # None
                     /\ i \notin orphans' /\ jobs'[i].content # None => jobs'[i].content = jobs'[i].key[2]
    BY <1>7 DEF JobInv, Creates
  <2>1. CASE i = j
    BY <1>2, <1>4, <1>6, <1>7, <1>11, <2>1
  <2>2. CASE i # j
    <3>1. /\ jobs[i].file # 0 => Creates(jobs[i].file, jobs[i].key)
          /\ jobs[i].state \in {"starts", "analyses"} => jobs[i].file = 0
          /\ jobs[i].state \in {"analyses", "writes", "done", "odd"} => jobs[i].content # None
          /\ i \notin orphans /\ jobs[i].content # None => jobs[i].content = jobs[i].key[2]
      BY DEF FileInv, JobInv
    <3>2. PICK g, l : g = jobs[i].file /\ l = jobs[i].key
      OBVIOUS
    <3>3. jobs'[i] = jobs[i]
      BY <1>7, <2>2
    <3>4. g # 0 => Creates(g, l)'
      BY <1>12, <3>1, <3>2
    <3> QED
      BY <1>2, <3>1, <3>2, <3>3, <3>4
  <2> QED
    BY <2>1, <2>2
<1>14. ASSUME NEW l \in Keys, out[l] # 0
       PROVE  out[l] # f /\ Creates(out[l], l)
  <2>1. Creates(out[l], l)
    BY <1>14 DEF FileInv, OutInv
  <2>2. CASE tmp[k] = 0
    BY <1>5, <1>12, <2>1, <2>2
  <2>3. CASE tmp[k] # 0 /\ l # k
    BY <1>5, <2>1, <2>3 DEF Creates
  <2>4. CASE tmp[k] # 0 /\ l = k
    <3>1. tmp[k] # out[k]
      BY <1>3, <2>4 DEF FileInv, TmpInv
    <3> QED
      BY <1>5, <2>1, <2>4, <3>1
  <2> QED
    BY <2>1, <2>2, <2>3, <2>4
<1>15. OutInv'
  <2> SUFFICES ASSUME NEW l \in Keys, out[l] # 0
               PROVE  Creates(out[l], l)' /\ (Strayed(out[l])' \/ AllDone(out[l])')
    BY <1>2 DEF OutInv
  <2>1. PICK g : g = out[l] /\ g = out'[l]
    BY <1>2
  <2>2. g \in 1..Len(jobs) /\ Creates(g, l) /\ g # f /\ (Strayed(g) \/ AllDone(g))
    BY <1>14, <2>1 DEF FileInv, OutInv, Creates
  <2>3. Creates(g, l)'
    BY <1>12, <2>2
  <2>4. Strayed(g) => Strayed(g)'
    BY <1>8, <2>2, Strays DEF FileInv
  <2>5. AllDone(g) => AllDone(g)'
    BY <1>6, <1>7, <2>2 DEF AllDone
  <2> QED
    BY <2>1, <2>2, <2>3, <2>4, <2>5 DEF Creates, Strayed, Openers, AllDone
<1>16. TmpInv'
  <2> SUFFICES ASSUME NEW l \in Keys, tmp'[l] # 0
               PROVE  Creates(tmp[l], l)' /\ tmp'[l] # out'[l]
    BY DEF TmpInv
  <2>1. CASE l = k
    <3>1. tmp'[l] = f /\ f # out[l]
      BY <1>5, <1>9, <1>14, <2>1
    <3> QED
      BY <1>2, <1>11, <2>1, <3>1 DEF Creates
  <2>2. CASE l # k
    <3>1. PICK g : g = tmp[l] /\ g = tmp'[l]
      BY <1>9, <2>2
    <3>2. Creates(g, l) /\ g # out[l]
      BY <3>1 DEF FileInv, TmpInv
    <3>3. Creates(g, l)'
      BY <1>12, <3>2
    <3> QED
      BY <1>2, <3>1, <3>2, <3>3 DEF Creates
  <2> QED
    BY <2>1, <2>2
<1>17. AliveInv'
  <2>1. \A i \in 1..Len(jobs) : Alive(i)' => Alive(i)
    <3> SUFFICES ASSUME NEW i \in 1..Len(jobs), Alive(i)' PROVE Alive(i)
      OBVIOUS
    <3> QED
      BY <1>2, <1>7 DEF Alive
  <2>2. \A i \in 1..Len(jobs) : jobs'[i].key = jobs[i].key
    BY <1>1, <1>6, <1>7
  <2>3. pc = "wait" => Mine \in 1..Len(jobs)
    BY DEF FileInv, AliveInv
  <2> QED
    BY <1>2, <1>7, <1>10, <2>1, <2>2, <2>3 DEF FileInv, AliveInv
<1>18. OwnInv'
  <2> SUFFICES ASSUME pc \in {"wait", "validate", "publish"}, tmp'[Key] # 0,
                      NEW i \in 1..Len(jobs), jobs'[i].file = tmp'[Key]
               PROVE  i \in orphans \cup {Mine}
    BY <1>2, <1>7, <1>10 DEF OwnInv
  <2>1. CASE i = j
    BY <1>4, <2>1
  <2>2. CASE i # j
    <3>1. jobs[i].file = tmp'[Key] /\ Key \in Keys
      BY <1>7, <2>2, KeyIs DEF FileInv
    <3>2. CASE Key = k /\ tmp[k] = 0
      <4>1. jobs[i].file = j /\ j # 0
        BY <1>5, <1>9, <3>1, <3>2
      <4>2. Creates(j, jobs[i].key)
        BY <4>1 DEF FileInv, JobInv
      <4> QED
        BY <1>4, <4>1, <4>2 DEF Creates
    <3>3. CASE Key # k \/ tmp[k] # 0
      <4>1. tmp'[Key] = tmp[Key]
        BY <1>5, <1>9, <3>1, <3>3
      <4> QED
        BY <3>1, <4>1 DEF FileInv, OwnInv
    <3> QED
      BY <3>2, <3>3
  <2> QED
    BY <2>1, <2>2
<1>19. StageInv'
  <2>1. CASE pc = "publish"
    <3>1. /\ Key \in Keys /\ tmp[Key] # 0 /\ (Strayed(tmp[Key]) \/ jobs[Mine].state = "done")
          /\ Mine \in 1..Len(jobs) /\ tmp[Key] \in 0..Len(jobs) /\ j \in orphans
      BY <1>4, <2>1, KeyIs DEF FileInv, Types, StageInv, AliveInv
    <3>2. PICK g : g = tmp[Key] /\ g = tmp'[Key] /\ g \in 1..Len(jobs)
      <4>1. tmp'[Key] = tmp[Key]
        BY <1>5, <1>9, <3>1
      <4> QED
        BY <3>1, <4>1
    <3>3. Strayed(g) => Strayed(g)'
      BY <1>8, <3>2, Strays DEF FileInv
    <3>4. jobs[Mine].state = "done" => jobs'[Mine].state = "done"
      BY <1>2, <1>7, <3>1
    <3> QED
      BY <1>2, <1>10, <2>1, <3>1, <3>2, <3>3, <3>4 DEF StageInv, Strayed, Openers
  <2>2. CASE pc # "publish"
    BY <1>2, <1>10, <2>2 DEF FileInv, StageInv
  <2> QED
    BY <2>1, <2>2
<1> QED
  BY <1>8, <1>10, <1>13, <1>15, <1>16, <1>17, <1>18, <1>19 DEF FileInv

LEMMA PatchFiles ==
  ASSUME FileInv, NEW p \in Paths, NEW c \in Contents, Patch(p, c)
  PROVE  FileInv' /\ Grows
<1>1. /\ pc = "idle" /\ pc' = pc /\ jobs' = jobs /\ orphans' = orphans /\ out' = out /\ tmp' = tmp
      /\ content' = [content EXCEPT ![p] = c] /\ patches' = patches + 1 /\ patches < MaxPatches
      /\ \E t \in 0..patches' : stamp' = [stamp EXCEPT ![p] = t]
  BY DEF Patch, files
<1>2. content' \in [Paths -> Contents] /\ patches' \in 0..MaxPatches
  BY <1>1, CacheAssumption DEF FileInv, Types
<1>3. stamp' \in [Paths -> 0..MaxPatches]
  <2>1. PICK t \in 0..patches' : stamp' = [stamp EXCEPT ![p] = t]
    BY <1>1
  <2>2. t \in 0..MaxPatches
    BY <1>2, <2>1, CacheAssumption
  <2> QED
    BY <2>1, <2>2 DEF FileInv, Types
<1>4. Types'
  BY <1>1, <1>2, <1>3 DEF FileInv, Types
<1>5. Grows /\ JobInv' /\ OutInv' /\ TmpInv'
  BY <1>1, JobsStay DEF FileInv, OutInv, TmpInv, Types
<1>6. AliveInv' /\ OwnInv' /\ StageInv'
  BY <1>1 DEF FileInv, AliveInv, OwnInv, StageInv, Alive, Mine
<1> QED
  BY <1>4, <1>5, <1>6 DEF FileInv

LEMMA DecompileFiles ==
  ASSUME FileInv, NEW p \in Paths, Decompile(p)
  PROVE  FileInv' /\ Grows
<1>1. /\ pc = "idle" /\ jobs' = jobs /\ orphans' = orphans /\ out' = out /\ tmp' = tmp
      /\ UNCHANGED world
      /\ pc' = "idle" \/ (pc' = "look" /\ path' = p)
  BY DEF Decompile, files
<1>2. Types'
  BY <1>1 DEF FileInv, Types, PCs, world
<1>3. Grows /\ JobInv' /\ OutInv' /\ TmpInv'
  BY <1>1, JobsStay DEF FileInv, OutInv, TmpInv, Types
<1>4. AliveInv' /\ OwnInv' /\ StageInv'
  BY <1>1 DEF FileInv, AliveInv, OwnInv, StageInv, Alive, Mine
<1> QED
  BY <1>2, <1>3, <1>4 DEF FileInv

Jvm(j) == JvmImports(j) \/ JvmOpens(j) \/ JvmWrites(j) \/ JvmDies(j)

LEMMA FileStep == FileInv /\ [Next]_vars => FileInv' /\ Grows
<1> SUFFICES ASSUME FileInv, [Next]_vars PROVE FileInv' /\ Grows
  OBVIOUS
<1>1. CASE \E p \in Paths : Decompile(p)
  BY <1>1, DecompileFiles
<1>2. CASE DecompileCurrent \/ \E p \in Paths : Emulate(p)
  <2>1. pc = "idle" /\ pc' = pc /\ UNCHANGED <<jobs, orphans, files, world>> /\ path' = path
    BY <1>2 DEF Emulate, DecompileCurrent
  <2> QED
    BY <2>1, AgentMoves DEF PCs
<1>3. CASE JvmEnds
  <2>1. /\ pc = "wait" /\ ~ Alive(Mine) /\ pc' \in {"validate", "idle"}
        /\ UNCHANGED <<jobs, orphans, files, world>> /\ path' = path
    BY <1>3 DEF JvmEnds, Goto, Escape
  <2> QED
    BY <2>1, AgentMoves DEF PCs
<1>4. CASE Load
  <2>1. pc = "load" /\ pc' = "idle" /\ UNCHANGED <<jobs, orphans, files, world>> /\ path' = path
    BY <1>4 DEF Load, Escape
  <2> QED
    BY <2>1, AgentMoves DEF PCs
<1>5. CASE \E p \in Paths, c \in Contents : Patch(p, c)
  BY <1>5, PatchFiles
<1>6. CASE \E j \in 1..Len(jobs) : Jvm(j)
  BY <1>6, ImportFiles, OpenFiles, JvmEndFiles DEF Jvm
<1>7. CASE UNCHANGED vars
  <2>1. /\ pc' = pc /\ jobs' = jobs /\ orphans' = orphans /\ out' = out /\ tmp' = tmp
        /\ content' = content /\ stamp' = stamp /\ path' = path /\ patches' = patches
    BY <1>7 DEF vars, files, world
  <2>2. Types'
    BY <2>1 DEF FileInv, Types
  <2>3. Grows /\ JobInv' /\ OutInv' /\ TmpInv'
    BY <2>1, JobsStay DEF FileInv, OutInv, TmpInv, Types
  <2>4. AliveInv' /\ OwnInv' /\ StageInv'
    BY <2>1 DEF FileInv, AliveInv, OwnInv, StageInv, Alive, Strayed, Openers, Mine, Key
  <2> QED
    BY <2>2, <2>3, <2>4 DEF FileInv
<1> QED
  BY <1>1, <1>2, <1>3, <1>4, <1>5, <1>6, <1>7, LookFiles, StartFiles, TimesOutFiles,
     ValidateFiles, PublishFiles, NewRunFiles DEF Next, Agent, Jvm

------------------------------------------------------------------------------
Dbs == {Failure, Unknown} \cup [is : {"listing"}, of : Contents, file : Nat]
Pending == {"wait", "validate", "publish", "load"}

(* A path is looked up only while nothing is known of it; its analyses and     *)
(* exceptions balance until one is started and not yet accounted for.          *)
MemTypes == dbs \in [Paths -> Dbs] /\ started \in [Paths -> Nat] /\ escaped \in [Paths -> Nat]
BusyInv == pc # "idle" => dbs[path] = Unknown
CurrentInv == current # None => current \in Paths /\ dbs[current].is = "listing"
CountInv == \A p \in Paths :
  /\ started[p] <= 1 + escaped[p]
  /\ dbs[p] = Unknown /\ ~ (pc \in Pending /\ path = p) => started[p] <= escaped[p]
RunInv == MemTypes /\ BusyInv /\ CurrentInv /\ CountInv

(* What is remembered of a path is of what it contains, but for the two        *)
(* exceptions of ListingIsOfContent.                                           *)
ListingInv == \A p \in Paths : dbs[p].is = "listing" =>
  /\ dbs[p].file \in 1..Len(jobs)
  /\ dbs[p].of = content[p] \/ p \in changed \/ Strayed(dbs[p].file)
AnswerInv == \A a \in answered :
  a.file \in 1..Len(jobs) /\ (a.of = a.now \/ a.changed = TRUE \/ Strayed(a.file))

(* An image is of a content that its path has had with the stamp of its key.   *)
SeenInv == \A p \in Paths : <<p, stamp[p], content[p]>> \in seen
ImageInv == \A i \in images : <<i.key[1], i.key[2], i.of>> \in seen
EmulInv == \A e \in emulated : \E t : <<e[1], t, e[2]>> \in seen /\ <<e[1], t, e[3]>> \in seen
TraceInv == ListingInv /\ AnswerInv /\ SeenInv /\ ImageInv /\ EmulInv
CacheInv == FileInv /\ RunInv /\ TraceInv

LEMMA DbKinds ==
  /\ Failure.is = "failed" /\ Unknown.is = "unknown" /\ Failure # Unknown
  /\ Failure \in Dbs /\ Unknown \in Dbs
  /\ \A d \in Dbs : d = Failure \/ d = Unknown \/ d.is = "listing"
<1>1. Failure.is = "failed" /\ Unknown.is = "unknown"
  BY DEF Failure, Unknown
<1> QED
  BY <1>1 DEF Dbs

LEMMA MemInit == Init => RunInv /\ TraceInv
<1> SUFFICES ASSUME Init PROVE RunInv /\ TraceInv
  OBVIOUS
<1>1. /\ dbs = NoDbs /\ current = None /\ images = {} /\ pc = "idle" /\ answered = {}
      /\ started = Zero /\ escaped = Zero /\ emulated = {} /\ stamp = Zero
      /\ seen = {<<p, 0, content[p]>> : p \in Paths}
  BY DEF Init
<1>2. MemTypes /\ CountInv /\ ListingInv
  BY <1>1, DbKinds DEF MemTypes, CountInv, ListingInv, NoDbs, Zero
<1>3. SeenInv
  BY <1>1 DEF SeenInv, Zero
<1> QED
  BY <1>1, <1>2, <1>3 DEF RunInv, TraceInv, BusyInv, CurrentInv, ImageInv, AnswerInv, EmulInv

(* Steps that leave the run's memory and counts alone. *)
LEMMA RunStays ==
  ASSUME RunInv, UNCHANGED <<dbs, current, started, escaped>>,
         \/ pc' = pc /\ path' = path
         \/ pc # "idle" /\ path' = path /\ (pc \in Pending => pc' \in Pending)
  PROVE  RunInv'
<1>1. MemTypes' /\ CurrentInv'
  BY DEF RunInv, MemTypes, CurrentInv
<1>2. BusyInv'
  BY DEF RunInv, BusyInv
<1>3. CountInv'
  BY DEF RunInv, CountInv
<1> QED
  BY <1>1, <1>2, <1>3 DEF RunInv

LEMMA FailRun ==
  ASSUME RunInv, Fail, path \in Paths, pc # "idle"
  PROVE  RunInv'
<1>1. /\ pc' = "idle" /\ dbs' = [dbs EXCEPT ![path] = Failure] /\ path' = path
      /\ current' = current /\ started' = started /\ escaped' = escaped
  BY DEF Fail, past
<1>2. dbs[path] = Unknown /\ dbs \in [Paths -> Dbs]
  BY DEF RunInv, BusyInv, MemTypes
<1>3. /\ dbs' \in [Paths -> Dbs] /\ dbs'[path] = Failure
      /\ \A p \in Paths : p # path => dbs'[p] = dbs[p]
  BY <1>1, <1>2, DbKinds
<1>4. MemTypes' /\ BusyInv'
  BY <1>1, <1>3 DEF RunInv, MemTypes, BusyInv
<1>5. CurrentInv'
  BY <1>1, <1>2, <1>3, DbKinds DEF RunInv, CurrentInv
<1>6. CountInv'
  BY <1>1, <1>3, DbKinds DEF RunInv, CountInv
<1> QED
  BY <1>4, <1>5, <1>6 DEF RunInv

LEMMA EscapeRun ==
  ASSUME RunInv, Escape, path \in Paths, pc # "idle"
  PROVE  RunInv'
<1>1. /\ pc' = "idle" /\ escaped' = [escaped EXCEPT ![path] = @ + 1]
      /\ dbs' = dbs /\ path' = path /\ current' = current /\ started' = started
  BY DEF Escape, memory
<1>2. escaped \in [Paths -> Nat] /\ started \in [Paths -> Nat]
  BY DEF RunInv, MemTypes
<1>3. /\ escaped' \in [Paths -> Nat] /\ escaped'[path] = escaped[path] + 1
      /\ \A p \in Paths : p # path => escaped'[p] = escaped[p]
  BY <1>1, <1>2
<1>4. MemTypes' /\ BusyInv' /\ CurrentInv'
  BY <1>1, <1>3 DEF RunInv, MemTypes, BusyInv, CurrentInv
<1>5. CountInv'
  <2> SUFFICES ASSUME NEW p \in Paths
               PROVE  started[p] <= 1 + escaped'[p] /\ (dbs[p] = Unknown => started[p] <= escaped'[p])
    BY <1>1 DEF CountInv
  <2>1. /\ started[p] <= 1 + escaped[p]
        /\ dbs[p] = Unknown /\ path # p => started[p] <= escaped[p]
    BY DEF RunInv, CountInv
  <2>2. started[p] \in Nat /\ escaped[p] \in Nat
    BY <1>2
  <2>3. CASE p = path
    BY <1>3, <2>1, <2>2, <2>3
  <2>4. CASE p # path
    BY <1>3, <2>1, <2>4
  <2> QED
    BY <2>3, <2>4
<1> QED
  BY <1>4, <1>5 DEF RunInv

LEMMA StartRun ==
  ASSUME RunInv, Start, path \in Paths
  PROVE  RunInv'
<1>1. pc = "start"
  BY DEF Start
<1>2. CASE Fail \/ Escape
  BY <1>1, <1>2, FailRun, EscapeRun
<1>3. CASE ~ Fail /\ ~ Escape
  <2>1. /\ pc' = "wait" /\ started' = [started EXCEPT ![path] = @ + 1]
        /\ dbs' = dbs /\ path' = path /\ current' = current /\ escaped' = escaped
    BY <1>3 DEF Start, memory
  <2>2. escaped \in [Paths -> Nat] /\ started \in [Paths -> Nat]
    BY DEF RunInv, MemTypes
  <2>3. /\ started' \in [Paths -> Nat] /\ started'[path] = started[path] + 1
        /\ \A p \in Paths : p # path => started'[p] = started[p]
    BY <2>1, <2>2
  <2>4. MemTypes' /\ CurrentInv'
    BY <2>1, <2>3 DEF RunInv, MemTypes, CurrentInv
  <2>5. dbs[path] = Unknown
    BY <1>1 DEF RunInv, BusyInv
  <2>6. BusyInv'
    BY <2>1, <2>5 DEF BusyInv
  <2>7. CountInv'
    <3> SUFFICES ASSUME NEW p \in Paths
                 PROVE  /\ started'[p] <= 1 + escaped[p]
                        /\ dbs[p] = Unknown /\ path # p => started'[p] <= escaped[p]
      BY <2>1 DEF CountInv, Pending
    <3>1. /\ started[p] <= 1 + escaped[p]
          /\ dbs[p] = Unknown => started[p] <= escaped[p]
      BY <1>1 DEF RunInv, CountInv, Pending
    <3>2. started[p] \in Nat /\ escaped[p] \in Nat
      BY <2>2
    <3>3. CASE p = path
      BY <2>3, <2>5, <3>1, <3>2, <3>3
    <3>4. CASE p # path
      BY <2>3, <3>1, <3>4
    <3> QED
      BY <3>3, <3>4
  <2> QED
    BY <2>4, <2>6, <2>7 DEF RunInv
<1> QED
  BY <1>2, <1>3

(* What Load reads. *)
LEMMA LoadReads ==
  ASSUME FileInv, Load, ~ Escape
  PROVE  /\ pc = "load" /\ path \in Paths
         /\ \E f \in 1..Len(jobs), c \in Contents :
              /\ dbs' = [dbs EXCEPT ![path] = Listing(f, c)]
              /\ answered' = {[of |-> c, file |-> f, now |-> content[path], changed |-> FALSE]}
              /\ c = content[path] \/ Strayed(f)
<1>1. pc = "load" /\ path \in Paths /\ Key \in Keys /\ Key[2] = content[path]
  BY KeyIs DEF Load, FileInv
<1>2. PICK j \in Openers(out[Key]) :
        /\ jobs[j].state = "done"
        /\ dbs' = [dbs EXCEPT ![path] = Listing(out[Key], jobs[j].content)]
        /\ answered' = {[of |-> jobs[j].content, file |-> out[Key], now |-> content[path],
                         changed |-> FALSE]}
  BY DEF Load, Listing
<1>3. /\ out[Key] \in 1..Len(jobs) /\ j \in 1..Len(jobs) /\ jobs[j].file = out[Key]
      /\ jobs[out[Key]].key = Key /\ jobs[j] \in Jobs /\ jobs[j].file # 0
  <2>1. out[Key] # 0
    BY <1>1 DEF FileInv, StageInv
  <2> QED
    BY <1>1, <1>2, <2>1 DEF FileInv, OutInv, Creates, Openers, Types
<1>4. jobs[j].key = Key
  BY <1>3 DEF FileInv, JobInv, Creates
<1>5. jobs[j].content # None /\ jobs[j].content \in Contents
  BY <1>2, <1>3 DEF FileInv, JobInv, Jobs
<1>6. jobs[j].content = content[path] \/ Strayed(out[Key])
  BY <1>1, <1>3, <1>4, <1>5 DEF FileInv, JobInv, Strayed, Openers
<1> QED
  BY <1>1, <1>2, <1>3, <1>5, <1>6

LEMMA LoadRun ==
  ASSUME FileInv, RunInv, Load
  PROVE  RunInv'
<1>1. pc = "load" /\ path \in Paths
  BY KeyIs DEF Load, FileInv
<1>2. CASE Escape
  BY <1>1, <1>2, EscapeRun
<1>3. CASE ~ Escape
  <2>1. PICK f \in 1..Len(jobs), c \in Contents : dbs' = [dbs EXCEPT ![path] = Listing(f, c)]
    BY <1>3, LoadReads
  <2> DEFINE new == Listing(f, c)
  <2>2. /\ current' = path /\ pc' = "idle" /\ path' = path
        /\ started' = started /\ escaped' = escaped
    BY <1>3 DEF Load
  <2>3. new \in Dbs /\ new.is = "listing" /\ new # Unknown
    <3>1. new.is = "listing" /\ new \in [is : {"listing"}, of : Contents, file : Nat]
      BY DEF Listing
    <3> QED
      BY <3>1, DbKinds DEF Dbs
  <2>4. dbs' = [dbs EXCEPT ![path] = new]
    BY <2>1
  <2> HIDE DEF new
  <2>5. /\ dbs' \in [Paths -> Dbs] /\ dbs'[path] = new
        /\ \A p \in Paths : p # path => dbs'[p] = dbs[p]
    BY <1>1, <2>3, <2>4 DEF RunInv, MemTypes
  <2>6. MemTypes' /\ BusyInv' /\ CurrentInv'
    BY <1>1, <2>2, <2>3, <2>5 DEF RunInv, MemTypes, BusyInv, CurrentInv
  <2>7. CountInv'
    BY <2>2, <2>3, <2>5 DEF RunInv, CountInv
  <2> QED
    BY <2>6, <2>7 DEF RunInv
<1> QED
  BY <1>2, <1>3

LEMMA DecompileRun ==
  ASSUME RunInv, NEW p \in Paths, Decompile(p)
  PROVE  RunInv'
<1>1. pc = "idle" /\ dbs' = dbs /\ started' = started /\ escaped' = escaped
  BY DEF Decompile
<1>2. MemTypes'
  BY <1>1 DEF RunInv, MemTypes
<1>3. \/ dbs[p] = Unknown /\ pc' = "look" /\ path' = p /\ current' = current
      \/ pc' = "idle" /\ (current' = current \/ (current' = p /\ dbs[p].is = "listing"))
  <2>1. dbs[p] \in Dbs
    BY DEF RunInv, MemTypes
  <2> QED
    BY <1>1, <2>1, DbKinds DEF Decompile
<1>4. BusyInv' /\ CurrentInv'
  BY <1>1, <1>3 DEF RunInv, BusyInv, CurrentInv
<1>5. CountInv'
  BY <1>1, <1>3 DEF RunInv, CountInv, Pending
<1> QED
  BY <1>2, <1>4, <1>5 DEF RunInv

LEMMA NewRunRun ==
  ASSUME NewRun
  PROVE  RunInv' /\ ListingInv' /\ AnswerInv' /\ ImageInv' /\ EmulInv'
<1>1. /\ dbs' = NoDbs /\ current' = None /\ images' = {} /\ pc' = "idle" /\ answered' = {}
      /\ started' = Zero /\ escaped' = Zero /\ emulated' = {}
  BY DEF NewRun
<1>2. MemTypes' /\ CountInv' /\ ListingInv'
  BY <1>1, DbKinds DEF MemTypes, CountInv, ListingInv, NoDbs, Zero
<1> QED
  BY <1>1, <1>2 DEF RunInv, BusyInv, CurrentInv, ImageInv, AnswerInv, EmulInv

LEMMA RunStep == FileInv /\ RunInv /\ [Next]_vars => RunInv'
<1> SUFFICES ASSUME FileInv, RunInv, [Next]_vars PROVE RunInv'
  OBVIOUS
<1>0. pc # "idle" => path \in Paths
  BY DEF FileInv, Types
<1>1. CASE \E p \in Paths : Decompile(p)
  BY <1>1, DecompileRun
<1>2. CASE DecompileCurrent \/ \E p \in Paths : Emulate(p)
  <2>1. UNCHANGED <<dbs, current, started, escaped>> /\ pc' = pc /\ path' = path
    BY <1>2 DEF DecompileCurrent, Emulate, memory
  <2> QED
    BY <2>1, RunStays
<1>3. CASE Look
  <2>1. pc = "look" /\ (Escape \/ (UNCHANGED <<dbs, current, started, escaped>> /\ path' = path))
    BY <1>3 DEF Look, Goto, memory, past
  <2> QED
    BY <1>0, <2>1, EscapeRun, RunStays DEF Pending
<1>4. CASE Start
  <2>1. pc = "start"
    BY <1>4 DEF Start
  <2> QED
    BY <1>0, <1>4, <2>1, StartRun
<1>5. CASE TimesOut
  <2>1. pc = "wait" /\ (Fail \/ Escape)
    BY <1>5 DEF TimesOut
  <2> QED
    BY <1>0, <2>1, FailRun, EscapeRun
<1>6. CASE JvmEnds \/ Publish
  <2>1. /\ pc # "idle"
        /\ \/ Escape
           \/ UNCHANGED <<dbs, current, started, escaped>> /\ path' = path /\ pc' \in Pending
    BY <1>6 DEF JvmEnds, Publish, Goto, Pending, memory, past
  <2> QED
    BY <1>0, <2>1, EscapeRun, RunStays
<1>7. CASE Validate
  <2>1. /\ pc = "validate"
        /\ \/ Fail
           \/ Escape
           \/ UNCHANGED <<dbs, current, started, escaped>> /\ path' = path /\ pc' = "publish"
    BY <1>7 DEF Validate, Goto, memory, past
  <2> QED
    BY <1>0, <2>1, FailRun, EscapeRun, RunStays DEF Pending
<1>8. CASE Load
  BY <1>8, LoadRun
<1>9. CASE (\E p \in Paths, c \in Contents : Patch(p, c)) \/ (\E j \in 1..Len(jobs) : Jvm(j))
           \/ UNCHANGED vars
  <2>1. UNCHANGED <<dbs, current, started, escaped>> /\ pc' = pc /\ path' = path
    BY <1>9 DEF Patch, Jvm, JvmImports, JvmOpens, JvmWrites, JvmDies, memory, past, vars
  <2> QED
    BY <2>1, RunStays
<1>10. CASE NewRun
  BY <1>10, NewRunRun
<1> QED
  BY <1>1, <1>2, <1>3, <1>4, <1>5, <1>6, <1>7, <1>8, <1>9, <1>10 DEF Next, Agent, Jvm

LEMMA ListingStays ==
  ASSUME FileInv, ListingInv, Grows, UNCHANGED <<dbs, content, changed>>
  PROVE  ListingInv'
<1> SUFFICES ASSUME NEW p \in Paths, dbs[p].is = "listing"
             PROVE  /\ dbs[p].file \in 1..Len(jobs')
                    /\ dbs[p].of = content[p] \/ p \in changed \/ Strayed(dbs[p].file)'
  BY DEF ListingInv
<1>1. PICK f \in 1..Len(jobs) : f = dbs[p].file /\ f = dbs'[p].file
  BY DEF ListingInv
<1>2. dbs[p].of = content[p] \/ p \in changed \/ Strayed(f)
  BY <1>1 DEF ListingInv
<1>3. Strayed(f) => Strayed(f)'
  BY <1>1, Strays DEF FileInv
<1>4. f \in 1..Len(jobs')
  BY <1>1 DEF Grows, FileInv, Types
<1> QED
  BY <1>1, <1>2, <1>3, <1>4 DEF Strayed, Openers

LEMMA AnswerStays ==
  ASSUME FileInv, AnswerInv, Grows, answered' \subseteq answered
  PROVE  AnswerInv'
<1> SUFFICES ASSUME NEW a \in answered
             PROVE  /\ a.file \in 1..Len(jobs')
                    /\ a.of = a.now \/ a.changed = TRUE \/ Strayed(a.file)'
  BY DEF AnswerInv
<1>1. a.file \in 1..Len(jobs) /\ (a.of = a.now \/ a.changed = TRUE \/ Strayed(a.file))
  BY DEF AnswerInv
<1>2. Strayed(a.file) => Strayed(a.file)'
  BY <1>1, Strays DEF FileInv
<1>3. a.file \in 1..Len(jobs')
  BY <1>1 DEF Grows, FileInv, Types
<1> QED
  BY <1>1, <1>2, <1>3

(* An answer from the memory of the run. *)
LEMMA AnswerIs ==
  ASSUME FileInv, ListingInv, Grows, NEW p \in Paths, dbs[p].is = "listing",
         answered' = Answer(p, dbs[p])
  PROVE  AnswerInv'
<1>1. PICK f, o : /\ f \in 1..Len(jobs) /\ f = dbs[p].file /\ o = dbs[p].of
                  /\ o = content[p] \/ p \in changed \/ Strayed(f)
  BY DEF ListingInv
<1>2. answered' = {[of |-> o, file |-> f, now |-> content[p], changed |-> p \in changed]}
  BY <1>1 DEF Answer
<1>3. Strayed(f) => Strayed(f)'
  BY <1>1, Strays DEF FileInv
<1>4. f \in 1..Len(jobs')
  BY <1>1 DEF Grows, FileInv, Types
<1>5. ASSUME NEW a \in answered'
      PROVE  a.of = o /\ a.file = f /\ a.now = content[p] /\ a.changed = (p \in changed)
  BY <1>2
<1> SUFFICES ASSUME NEW a \in answered'
             PROVE  /\ a.file \in 1..Len(jobs')
                    /\ a.of = a.now \/ a.changed = TRUE \/ Strayed(a.file)'
  BY DEF AnswerInv
<1>6. CASE o = content[p]
  BY <1>4, <1>5, <1>6
<1>7. CASE p \in changed
  BY <1>4, <1>5, <1>7
<1>8. CASE Strayed(f)
  BY <1>3, <1>4, <1>5, <1>8
<1> QED
  BY <1>1, <1>6, <1>7, <1>8

LEMMA LoadTraces ==
  ASSUME FileInv, RunInv, ListingInv, Load, ~ Escape, Grows
  PROVE  ListingInv' /\ AnswerInv'
<1>1. PICK f \in 1..Len(jobs), c \in Contents :
        /\ dbs' = [dbs EXCEPT ![path] = Listing(f, c)]
        /\ answered' = {[of |-> c, file |-> f, now |-> content[path], changed |-> FALSE]}
        /\ c = content[path] \/ Strayed(f)
  BY LoadReads
<1>2. path \in Paths /\ content' = content /\ changed' = changed \ {path}
  BY LoadReads DEF Load, world
<1>3. Strayed(f) => Strayed(f)'
  BY Strays DEF FileInv
<1>4. \A g \in 1..Len(jobs) : g \in 1..Len(jobs')
  BY DEF Grows, FileInv, Types
<1>5. AnswerInv'
  <2>1. ASSUME NEW a \in answered'
        PROVE  a.of = c /\ a.file = f /\ a.now = content[path]
    BY <1>1
  <2>2. ASSUME NEW a \in answered'
        PROVE  /\ a.file \in 1..Len(jobs')
               /\ a.of = a.now \/ a.changed = TRUE \/ Strayed(a.file)'
    <3>1. a.of = c /\ a.file = f /\ a.now = content[path]
      BY <2>1
    <3> QED
      BY <1>1, <1>3, <1>4, <3>1
  <2> QED
    BY <2>2 DEF AnswerInv
<1>6. ListingInv'
  <2> DEFINE new == Listing(f, c)
  <2>1. new.is = "listing" /\ new.file = f /\ new.of = c
    BY DEF Listing
  <2>2. dbs' = [dbs EXCEPT ![path] = new] /\ dbs \in [Paths -> Dbs]
    BY <1>1 DEF RunInv, MemTypes
  <2> HIDE DEF new
  <2>3. /\ dbs'[path] = new
        /\ \A p \in Paths : p # path => dbs'[p] = dbs[p]
    BY <1>2, <2>2
  <2> SUFFICES ASSUME NEW p \in Paths, dbs'[p].is = "listing"
               PROVE  \E g : /\ g = dbs'[p].file /\ g \in 1..Len(jobs')
                             /\ dbs'[p].of = content[p] \/ p \in changed' \/ Strayed(g)'
    BY <1>2 DEF ListingInv, Strayed, Openers
  <2>4. CASE p = path
    BY <1>1, <1>3, <1>4, <2>1, <2>3, <2>4
  <2>5. CASE p # path
    <3>1. PICK g \in 1..Len(jobs) : g = dbs[p].file /\ g = dbs'[p].file
      BY <2>3, <2>5 DEF ListingInv
    <3>2. dbs[p].of = content[p] \/ p \in changed \/ Strayed(g)
      BY <2>3, <2>5, <3>1 DEF ListingInv
    <3>3. Strayed(g) => Strayed(g)'
      BY Strays DEF FileInv
    <3> QED
      BY <1>2, <1>4, <2>3, <2>5, <3>1, <3>2, <3>3
  <2> QED
    BY <2>4, <2>5
<1> QED
  BY <1>5, <1>6

LEMMA FailTraces ==
  ASSUME FileInv, RunInv, ListingInv, Fail, pc # "idle", Grows
  PROVE  ListingInv'
<1>1. /\ dbs' = [dbs EXCEPT ![path] = Failure] /\ dbs \in [Paths -> Dbs]
      /\ content' = content /\ changed' = changed /\ path \in Paths
  BY KeyIs DEF Fail, world, past, RunInv, MemTypes, FileInv
<1>2. dbs'[path].is = "failed" /\ \A p \in Paths : p # path => dbs'[p] = dbs[p]
  <2>1. dbs'[path] = Failure /\ \A p \in Paths : p # path => dbs'[p] = dbs[p]
    BY <1>1
  <2> QED
    BY <2>1, DbKinds
<1> SUFFICES ASSUME NEW p \in Paths, dbs'[p].is = "listing"
             PROVE  \E g : /\ g = dbs'[p].file /\ g \in 1..Len(jobs')
                           /\ dbs'[p].of = content[p] \/ p \in changed \/ Strayed(g)'
  BY <1>1 DEF ListingInv, Strayed, Openers
<1>3. dbs'[p] = dbs[p]
  BY <1>2
<1>4. PICK g \in 1..Len(jobs) : g = dbs[p].file
  BY <1>3 DEF ListingInv
<1>5. dbs[p].of = content[p] \/ p \in changed \/ Strayed(g)
  BY <1>3, <1>4 DEF ListingInv
<1>6. Strayed(g) => Strayed(g)'
  BY Strays DEF FileInv
<1>7. g \in 1..Len(jobs')
  BY DEF Grows, FileInv, Types
<1> QED
  BY <1>3, <1>4, <1>5, <1>6, <1>7

LEMMA PatchTraces ==
  ASSUME FileInv, ListingInv, NEW q \in Paths, NEW c \in Contents, Patch(q, c), Grows
  PROVE  ListingInv'
<1>1. /\ content' = [content EXCEPT ![q] = c] /\ changed' = changed \cup {q} /\ dbs' = dbs
      /\ content \in [Paths -> Contents]
  BY DEF Patch, memory, FileInv, Types
<1> SUFFICES ASSUME NEW p \in Paths, dbs[p].is = "listing"
             PROVE  \E g : /\ g = dbs[p].file /\ g \in 1..Len(jobs')
                           /\ dbs[p].of = content'[p] \/ p \in changed' \/ Strayed(g)'
  BY <1>1 DEF ListingInv, Strayed, Openers
<1>2. PICK g \in 1..Len(jobs) : g = dbs[p].file
  BY DEF ListingInv
<1>3. dbs[p].of = content[p] \/ p \in changed \/ Strayed(g)
  BY <1>2 DEF ListingInv
<1>4. Strayed(g) => Strayed(g)'
  BY Strays DEF FileInv
<1>5. g \in 1..Len(jobs')
  BY DEF Grows, FileInv, Types
<1>6. p = q \/ content'[p] = content[p]
  BY <1>1
<1> QED
  BY <1>1, <1>2, <1>3, <1>4, <1>5, <1>6

LEMMA ListingStep ==
  ASSUME FileInv, RunInv, ListingInv, AnswerInv, [Next]_vars
  PROVE  ListingInv' /\ AnswerInv'
<1>0. Grows
  BY FileStep
<1>1. CASE UNCHANGED <<dbs, content, changed>> /\ answered' \subseteq answered
  BY <1>0, <1>1, ListingStays, AnswerStays
<1>2. CASE \E p \in Paths : Decompile(p)
  <2>1. PICK p \in Paths : Decompile(p)
    BY <1>2
  <2>2. UNCHANGED <<dbs, content, changed>>
    BY <2>1 DEF Decompile, world
  <2>3. answered' = {} \/ (dbs[p].is = "listing" /\ answered' = Answer(p, dbs[p]))
    <3>1. dbs[p] \in Dbs
      BY DEF RunInv, MemTypes
    <3> QED
      BY <2>1, <3>1, DbKinds DEF Decompile
  <2> QED
    BY <1>0, <2>2, <2>3, ListingStays, AnswerStays, AnswerIs
<1>3. CASE DecompileCurrent
  <2>1. UNCHANGED <<dbs, content, changed>> /\ answered' = Answer(current, dbs[current])
    BY <1>3 DEF DecompileCurrent, world, memory
  <2>2. current \in Paths /\ dbs[current].is = "listing"
    BY <1>3 DEF DecompileCurrent, RunInv, CurrentInv
  <2> QED
    BY <1>0, <2>1, <2>2, ListingStays, AnswerIs
<1>4. CASE (\E p \in Paths : Emulate(p)) \/ Publish \/ Escape \/ UNCHANGED vars
  <2>1. UNCHANGED <<dbs, content, changed>> /\ answered' \subseteq answered
    BY <1>4 DEF Emulate, Publish, Escape, Goto, vars, memory, past, world
  <2> QED
    BY <1>1, <2>1
<1>5. CASE Fail /\ pc # "idle"
  <2>1. answered' \subseteq answered
    BY <1>5 DEF Fail, past
  <2> QED
    BY <1>0, <1>5, <2>1, FailTraces, AnswerStays
<1>6. CASE Look \/ Start \/ TimesOut \/ JvmEnds \/ Validate
  <2>1. pc # "idle" /\ (Fail \/ Escape \/ UNCHANGED <<dbs, content, changed, answered>>)
    BY <1>6 DEF Look, Start, TimesOut, JvmEnds, Validate, Goto, memory, past, world
  <2> QED
    BY <1>1, <1>4, <1>5, <2>1
<1>7. CASE Load
  BY <1>0, <1>4, <1>7, LoadTraces
<1>8. CASE \E p \in Paths, c \in Contents : Patch(p, c)
  <2>1. answered' \subseteq answered
    BY <1>8 DEF Patch
  <2> QED
    BY <1>0, <1>8, <2>1, PatchTraces, AnswerStays
<1>9. CASE \E j \in 1..Len(jobs) : Jvm(j)
  <2>1. UNCHANGED <<dbs, content, changed, answered>>
    BY <1>9 DEF Jvm, JvmImports, JvmOpens, JvmWrites, JvmDies, memory, past, world
  <2> QED
    BY <1>1, <2>1
<1>10. CASE NewRun
  BY <1>10, NewRunRun
<1> QED
  BY <1>2, <1>3, <1>4, <1>6, <1>7, <1>8, <1>9, <1>10 DEF Next, Agent, Jvm

LEMMA ImageStep ==
  ASSUME FileInv, SeenInv, ImageInv, EmulInv, [Next]_vars
  PROVE  SeenInv' /\ ImageInv' /\ EmulInv'
<1>1. CASE UNCHANGED <<world, images>> /\ emulated' \subseteq emulated
  BY <1>1 DEF world, SeenInv, ImageInv, EmulInv
<1>2. CASE \E p \in Paths : Emulate(p)
  <2>1. PICK p \in Paths : Emulate(p)
    BY <1>2
  <2>2. seen' = seen /\ SeenInv'
    BY <2>1 DEF Emulate, world, SeenInv
  <2>3. <<p, stamp[p], content[p]>> \in seen
    BY DEF SeenInv
  <2>4. CASE \E i \in images : i.key = ImageKey(p)
    <3>1. PICK i \in images : /\ i.key = ImageKey(p) /\ images' = images
                              /\ emulated' = {<<p, i.of, content[p]>>}
      BY <2>1, <2>4 DEF Emulate
    <3>2. <<p, stamp[p], i.of>> \in seen
      BY <3>1 DEF ImageInv, ImageKey
    <3>3. EmulInv'
      <4> SUFFICES ASSUME NEW e \in emulated'
                   PROVE \E t : <<e[1], t, e[2]>> \in seen /\ <<e[1], t, e[3]>> \in seen
        BY <2>2 DEF EmulInv
      <4>1. e[1] = p /\ e[2] = i.of /\ e[3] = content[p]
        BY <3>1
      <4> QED
        BY <2>3, <3>2, <4>1
    <3> QED
      BY <2>2, <3>1, <3>3 DEF ImageInv
  <2>5. CASE ~ \E i \in images : i.key = ImageKey(p)
    <3>1. CASE emulated' = {} /\ images' = images
      BY <2>2, <3>1 DEF ImageInv, EmulInv
    <3>2. CASE /\ emulated' = {<<p, content[p], content[p]>>}
               /\ images' = images \cup {[key |-> ImageKey(p), of |-> content[p]]}
      <4>1. EmulInv'
        <5> SUFFICES ASSUME NEW e \in emulated'
                     PROVE \E t : <<e[1], t, e[2]>> \in seen /\ <<e[1], t, e[3]>> \in seen
          BY <2>2 DEF EmulInv
        <5>1. e[1] = p /\ e[2] = content[p] /\ e[3] = content[p]
          BY <3>2
        <5> QED
          BY <2>3, <5>1
      <4>2. ImageInv'
        <5> SUFFICES ASSUME NEW i \in images' PROVE <<i.key[1], i.key[2], i.of>> \in seen
          BY <2>2 DEF ImageInv
        <5>1. i \in images \/ (i.key = <<p, stamp[p]>> /\ i.of = content[p])
          BY <3>2 DEF ImageKey
        <5> QED
          BY <2>3, <5>1 DEF ImageInv
      <4> QED
        BY <2>2, <4>1, <4>2
    <3> QED
      BY <2>1, <2>5, <3>1, <3>2 DEF Emulate
  <2> QED
    BY <2>4, <2>5
<1>3. CASE \E p \in Paths, c \in Contents : Patch(p, c)
  <2>1. PICK p, c, t :
          /\ p \in Paths /\ c \in Contents
          /\ content' = [content EXCEPT ![p] = c] /\ stamp' = [stamp EXCEPT ![p] = t]
          /\ seen' = seen \cup {<<p, t, c>>} /\ images' = images /\ emulated' = {}
    BY <1>3 DEF Patch, memory
  <2>2. DOMAIN content = Paths /\ DOMAIN stamp = Paths
    BY DEF FileInv, Types
  <2>3. SeenInv'
    BY <2>1, <2>2 DEF SeenInv
  <2> QED
    BY <2>1, <2>3 DEF ImageInv, EmulInv
<1>4. CASE NewRun
  <2>1. UNCHANGED world
    BY <1>4 DEF NewRun
  <2> QED
    BY <1>4, <2>1, NewRunRun DEF world, SeenInv
<1>5. CASE ~ (\E p \in Paths : Emulate(p)) /\ ~ (\E p \in Paths, c \in Contents : Patch(p, c)) /\ ~ NewRun
  <2>1. UNCHANGED <<world, images>> /\ emulated' \subseteq emulated
    <3>1. CASE (\E p \in Paths : Decompile(p)) \/ DecompileCurrent \/ Publish \/ Load \/ UNCHANGED vars
      BY <3>1 DEF Decompile, DecompileCurrent, Publish, Load, Escape, Goto, memory, past, vars
    <3>2. CASE Look \/ Start \/ TimesOut \/ JvmEnds \/ Validate
      BY <3>2 DEF Look, Start, TimesOut, JvmEnds, Validate, Goto, Fail, Escape, memory, past
    <3>3. CASE \E j \in 1..Len(jobs) : Jvm(j)
      BY <3>3 DEF Jvm, JvmImports, JvmOpens, JvmWrites, JvmDies, memory, past
    <3> QED
      BY <1>5, <3>1, <3>2, <3>3 DEF Next, Agent, Jvm
  <2> QED
    BY <1>1, <2>1
<1> QED
  BY <1>2, <1>3, <1>4, <1>5

LEMMA CacheInvariant == Spec => []CacheInv
<1>1. Init => CacheInv
  BY FileInit, MemInit DEF CacheInv
<1>2. CacheInv /\ [Next]_vars => CacheInv'
  BY FileStep, RunStep, ListingStep, ImageStep DEF CacheInv, TraceInv
<1> QED
  BY <1>1, <1>2, PTL DEF Spec

------------------------------------------------------------------------------
(* The state has its types, and current_binary, which calls without a binary   *)
(* are answered from, always has a listing (decompile.py:55-60).               *)
THEOREM CacheTypes == Spec => []TypeOK
<1>1. CacheInv => TypeOK
  BY DEF CacheInv, FileInv, Types, PCs, RunInv, CurrentInv, TypeOK
<1> QED
  BY <1>1, CacheInvariant, PTL

(* Whatever is killed and whenever, a dump in the cache is whole and of the    *)
(* content in its name, unless a JVM that outlived its agent has opened the    *)
(* file too (ghidra.py:55, 81).                                                *)
THEOREM DumpsAreWhole == Spec => []PublishedIsWhole
<1>1. CacheInv => PublishedIsWhole
  <2> SUFFICES ASSUME CacheInv, NEW k \in Keys, out[k] # 0
               PROVE  /\ \A j \in Openers(out[k]) : jobs[j].key = k
                      /\ \/ Strayed(out[k])
                         \/ \A j \in Openers(out[k]) : jobs[j].state = "done" /\ jobs[j].content = k[2]
    BY DEF PublishedIsWhole
  <2>1. Creates(out[k], k) /\ (Strayed(out[k]) \/ AllDone(out[k]))
    BY DEF CacheInv, FileInv, OutInv
  <2>2. \A j \in Openers(out[k]) : j \in 1..Len(jobs) /\ jobs[j].file = out[k] /\ jobs[j].key = k
    BY <2>1 DEF Openers, CacheInv, FileInv, JobInv, Creates
  <2>3. CASE ~ Strayed(out[k])
    <3> SUFFICES ASSUME NEW j \in Openers(out[k])
                 PROVE  jobs[j].state = "done" /\ jobs[j].content = k[2]
      BY <2>2
    <3>1. jobs[j].state = "done" /\ j \notin orphans /\ j \in 1..Len(jobs) /\ jobs[j].key = k
      BY <2>1, <2>2, <2>3 DEF AllDone, Strayed
    <3> QED
      BY <3>1 DEF CacheInv, FileInv, JobInv
  <2> QED
    BY <2>2, <2>3
<1> QED
  BY <1>1, CacheInvariant, PTL

(* An answer of decompile is about the bytes that the binary has when it is    *)
(* given, for any number of patches, runs and crashes, unless the binary was   *)
(* changed in this run since it was first looked at (decompile.py:39), or the  *)
(* dump is one that a JVM which outlived its agent has opened (ghidra.py:55).  *)
THEOREM ListingsAreTrue == Spec => []ListingIsOfContent
<1>1. CacheInv => ListingIsOfContent
  BY DEF CacheInv, TraceInv, AnswerInv, ListingIsOfContent
<1> QED
  BY <1>1, CacheInvariant, PTL

(* In a run, a path is analysed once, and once more for each exception that is *)
(* not remembered (decompile.py:50).                                           *)
THEOREM AnalysesAreBounded == Spec => []AnalysedOnce
<1>1. CacheInv => AnalysedOnce
  BY DEF CacheInv, RunInv, CountInv, AnalysedOnce
<1> QED
  BY <1>1, CacheInvariant, PTL

(* emulate runs the bytes that are there, unless two contents of the binary    *)
(* have had the same modification time and size (tools/emulate.py:132).        *)
THEOREM EmulationIsCurrent == Spec => []EmulatesCurrent
<1>1. CacheInv => EmulatesCurrent
  <2> SUFFICES ASSUME EmulInv, NEW e \in emulated, StampsTell(e[1])
               PROVE  e[2] = e[3]
    BY DEF CacheInv, TraceInv, EmulatesCurrent
  <2>1. PICK t : <<e[1], t, e[2]>> \in seen /\ <<e[1], t, e[3]>> \in seen
    BY DEF EmulInv
  <2> QED
    BY <2>1 DEF StampsTell
<1> QED
  BY <1>1, CacheInvariant, PTL

-----------------------------------------------------------------------------
(* The case file.  First sequences: least positions, bounded induction and     *)
(* what Joined and Select, the model's helpers, are.                           *)
(* A set of positions has a least element. *)
LEMMA First ==
  ASSUME NEW n \in Nat, NEW S \in SUBSET (1..n), S # {}
  PROVE  \E m \in S : \A x \in S : m <= x
<1> DEFINE U == {i \in 1..n : \E x \in S : x <= i}
           c == Cardinality(U)
           m == n + 1 - c
<1>1. \A a, b \in Int : IsFiniteSet(a..b) /\ Cardinality(a..b) = IF a > b THEN 0 ELSE b - a + 1
  BY FS_Interval
<1>2. IsFiniteSet(U) /\ c \in Nat
  <2>1. IsFiniteSet(1..n)
    BY <1>1
  <2> QED
    BY <2>1, FS_Subset, FS_CardinalityType
<1>3. ASSUME NEW i \in U PROVE m <= i
  <2>1. i..n \subseteq U
    OBVIOUS
  <2>2. Cardinality(i..n) = n - i + 1
    BY <1>1
  <2>3. Cardinality(i..n) <= c
    BY <1>2, <2>1, FS_Subset
  <2> HIDE DEF c
  <2> QED
    BY <1>2, <2>2, <2>3
<1>4. ASSUME NEW i \in (1..n) \ U PROVE i < m
  <2>1. U \subseteq (i + 1)..n
    OBVIOUS
  <2>2. IsFiniteSet((i + 1)..n) /\ Cardinality((i + 1)..n) <= n - i
    <3>1. i \in Int /\ n \in Int /\ i + 1 \in Int /\ i <= n
      OBVIOUS
    <3>2. Cardinality((i + 1)..n) = IF i + 1 > n THEN 0 ELSE n - (i + 1) + 1
      BY <1>1, <3>1
    <3> QED
      BY <1>1, <3>1, <3>2
  <2>3. c <= Cardinality((i + 1)..n)
    BY <2>1, <2>2, FS_Subset
  <2>4. Cardinality((i + 1)..n) \in Nat
    BY <2>2, FS_CardinalityType
  <2> HIDE DEF c
  <2> QED
    BY <1>2, <2>2, <2>3, <2>4
<1>5. PICK s \in S : TRUE
  OBVIOUS
<1>6. m \in 1..n
  <2>1. s \in U
    BY <1>5
  <2>2. m <= s
    BY <2>1, <1>3
  <2>3. U \subseteq 1..n /\ IsFiniteSet(1..n) /\ Cardinality(1..n) = n
    BY <1>1
  <2>4. c <= n
    BY <2>3, FS_Subset
  <2> HIDE DEF c
  <2> QED
    BY <1>2, <2>2, <2>4
<1>7. m \in U
  <2> SUFFICES ASSUME m \notin U PROVE FALSE
    OBVIOUS
  <2>1. m \in (1..n) \ U
    BY <1>6
  <2>2. m < m
    BY <2>1, <1>4
  <2> HIDE DEF m, U
  <2> QED
    BY <1>6, <2>2
<1>8. PICK x \in S : x <= m
  BY <1>7
<1>9. \A y \in S : m <= y
  <2>1. S \subseteq U
    OBVIOUS
  <2> QED
    BY <2>1, <1>3
<1>10. x = m
  BY <1>6, <1>8, <1>9
<1> QED
  BY <1>9, <1>10

(* Induction up to a bound, with a set in the place of a predicate. *)
LEMMA UpTo ==
  ASSUME NEW n \in Nat, NEW S, 0 \in S, \A i \in 1..n : i - 1 \in S => i \in S
  PROVE  \A i \in 0..n : i \in S
<1> DEFINE Bad == {i \in 1..n : i \notin S}
<1>1. CASE Bad = {}
  <2> SUFFICES ASSUME NEW i \in 0..n PROVE i \in S
    OBVIOUS
  <2>1. i = 0 \/ i \in 1..n
    OBVIOUS
  <2> QED
    BY <1>1, <2>1
<1>2. CASE Bad # {}
  <2>1. Bad \in SUBSET (1..n)
    OBVIOUS
  <2> HIDE DEF Bad
  <2>2. PICK m \in Bad : \A x \in Bad : m <= x
    BY <1>2, <2>1, First
  <2>3. m \in 1..n /\ m \notin S
    BY <2>2 DEF Bad
  <2>4. m - 1 \notin Bad
    BY <2>1, <2>2, <2>3
  <2>5. m - 1 \in S
    <3>1. CASE m = 1
      BY <3>1
    <3>2. CASE m # 1
      <4>1. m - 1 \in 1..n
        BY <2>3, <3>2
      <4> QED
        BY <4>1, <2>4 DEF Bad
    <3> QED
      BY <3>1, <3>2
  <2> QED
    BY <2>3, <2>5
<1> QED
  BY <1>1, <1>2

(* Induction over sequences, with a set in the place of a predicate. *)
LEMMA BySteps ==
  ASSUME NEW X, NEW P, << >> \in P,
         \A s \in Seq(X) : \A x \in X : s \in P => Append(s, x) \in P
  PROVE  \A s \in Seq(X) : s \in P
<1> SUFFICES ASSUME NEW s \in Seq(X) PROVE s \in P
  OBVIOUS
<1> DEFINE T == {k \in 0..Len(s) : SubSeq(s, 1, k) \in P}
<1>1. Len(s) \in Nat /\ \A i \in 1..Len(s) : s[i] \in X
  BY ElementOfSeq
<1>2. 0 \in T
  <2>1. SubSeq(s, 1, 0) = << >>
    BY SubSeqEmpty
  <2>2. 0 \in 0..Len(s)
    BY <1>1
  <2> QED
    BY <2>1, <2>2
<1>3. ASSUME NEW k \in 1..Len(s), k - 1 \in T PROVE k \in T
  <2>1. SubSeq(s, 1, k) = SubSeq(s, 1, k - 1) \o <<s[k]>>
    <3>1. 1 \in 1..Len(s) /\ k \in 1..Len(s)
      BY <1>1
    <3> QED
      BY <3>1, SubSeqRecursiveSecond
  <2>2. SubSeq(s, 1, k - 1) \in Seq(X)
    <3>1. \A i \in 1..(k - 1) : s[i] \in X
      BY <1>1
    <3>2. k - 1 \in Int
      OBVIOUS
    <3> QED
      BY <3>1, <3>2, SubSeqProperties
  <2>3. SubSeq(s, 1, k) = Append(SubSeq(s, 1, k - 1), s[k])
    BY <1>1, <2>1, <2>2, AppendIsConcat
  <2>4. SubSeq(s, 1, k - 1) \in P
    BY <1>3
  <2>5. SubSeq(s, 1, k) \in P
    BY <1>1, <2>2, <2>3, <2>4
  <2>6. k \in 0..Len(s)
    BY <1>1
  <2> QED
    BY <2>5, <2>6
<1> HIDE DEF T
<1>4. \A k \in 0..Len(s) : k \in T
  BY <1>1, <1>2, <1>3, UpTo
<1>5. Len(s) \in T
  BY <1>1, <1>4
<1> QED
  <2>1. SubSeq(s, 1, Len(s)) \in P
    BY <1>5 DEF T
  <2>2. SubSeq(s, 1, Len(s)) = s
    BY SubSeqFull
  <2> QED
    BY <2>1, <2>2

-----------------------------------------------------------------------------
(* Pieces joined: the recursion in Joined has a value, and it is the sum. *)
Sums(f, ss) == f = [i \in 0..Len(ss) |-> IF i = 0 THEN << >> ELSE f[i - 1] \o ss[i]]

(* The partial sums of pieces exist, and those of a beginning are the same. *)
LEMMA SumsExist ==
  ASSUME NEW X, NEW ss \in Seq(Seq(X))
  PROVE  \E f \in [0..Len(ss) -> Seq(X)] : Sums(f, ss)
<1> DEFINE G(k) == {f \in [0..k -> Seq(X)] :
                      f[0] = << >> /\ \A i \in 1..k : f[i] = f[i - 1] \o ss[i]}
           T == {k \in 0..Len(ss) : G(k) # {}}
<1>1. Len(ss) \in Nat /\ \A i \in 1..Len(ss) : ss[i] \in Seq(X)
  BY ElementOfSeq
<1>2. 0 \in T
  <2> DEFINE f == [i \in 0..0 |-> << >>]
  <2>1. << >> \in Seq(X)
    BY EmptySeq
  <2>2. f \in G(0)
    BY <2>1
  <2>3. 0 \in 0..Len(ss)
    BY <1>1
  <2> HIDE DEF f, G
  <2> QED
    BY <2>2, <2>3
<1>3. ASSUME NEW k \in 1..Len(ss), k - 1 \in T PROVE k \in T
  <2>1. PICK f : f \in G(k - 1)
    BY <1>3
  <2> DEFINE g == [i \in 0..k |-> IF i = k THEN f[k - 1] \o ss[k] ELSE f[i]]
  <2>2. f \in [0..(k - 1) -> Seq(X)] /\ f[0] = << >>
        /\ \A i \in 1..(k - 1) : f[i] = f[i - 1] \o ss[i]
    BY <2>1
  <2>3. f[k - 1] \o ss[k] \in Seq(X)
    <3>1. f[k - 1] \in Seq(X) /\ ss[k] \in Seq(X)
      BY <1>1, <2>2
    <3> QED
      BY <3>1, ConcatProperties
  <2>4. g \in [0..k -> Seq(X)]
    <3> SUFFICES ASSUME NEW i \in 0..k PROVE g[i] \in Seq(X)
      OBVIOUS
    <3>1. i = k \/ i \in 0..(k - 1)
      OBVIOUS
    <3> QED
      BY <2>2, <2>3, <3>1
  <2>5. g[0] = << >>
    BY <2>2
  <2>6. ASSUME NEW i \in 1..k PROVE g[i] = g[i - 1] \o ss[i]
    <3>1. i - 1 \in 0..k /\ i - 1 # k /\ i \in 0..k
      OBVIOUS
    <3>2. g[i - 1] = f[i - 1]
      BY <3>1
    <3>3. CASE i = k
      BY <3>1, <3>2, <3>3
    <3>4. CASE i # k
      <4>1. i \in 1..(k - 1)
        BY <3>4
      <4>2. g[i] = f[i]
        BY <3>1, <3>4
      <4>3. f[i] = f[i - 1] \o ss[i]
        BY <2>2, <4>1
      <4> QED
        BY <3>2, <4>2, <4>3
    <3> QED
      BY <3>3, <3>4
  <2> HIDE DEF g
  <2>7. g \in G(k)
    BY <2>4, <2>5, <2>6
  <2>8. k \in 0..Len(ss)
    BY <1>1
  <2> HIDE DEF G
  <2> QED
    BY <2>7, <2>8
<1> HIDE DEF T
<1>4. Len(ss) \in T
  <2>1. \A k \in 0..Len(ss) : k \in T
    BY <1>1, <1>2, <1>3, UpTo
  <2> QED
    BY <1>1, <2>1
<1>5. PICK f : f \in G(Len(ss))
  BY <1>4 DEF T
<1>6. f = [i \in 0..Len(ss) |-> IF i = 0 THEN << >> ELSE f[i - 1] \o ss[i]]
  <2>1. ASSUME NEW i \in 0..Len(ss)
        PROVE  f[i] = IF i = 0 THEN << >> ELSE f[i - 1] \o ss[i]
    <3>1. i = 0 \/ i \in 1..Len(ss)
      BY <1>1
    <3> QED
      BY <1>5, <3>1
  <2> QED
    BY <1>5, <2>1
<1> QED
  BY <1>5, <1>6 DEF Sums

(* Two sums agree as far as their pieces do. *)
Starts(ss, tt) ==
  Len(ss) \in Nat /\ Len(tt) \in Nat /\ Len(ss) <= Len(tt) /\ \A i \in 1..Len(ss) : ss[i] = tt[i]

LEMMA SumsAgree ==
  ASSUME NEW ss, NEW tt, NEW f, NEW g, Sums(f, ss), Sums(g, tt), Starts(ss, tt)
  PROVE  \A i \in 0..Len(ss) : f[i] = g[i]
<1> USE DEF Starts
<1> DEFINE n == Len(ss)
           T == {i \in 0..n : f[i] = g[i]}
<1>1. \A i \in 0..n : /\ f[i] = IF i = 0 THEN << >> ELSE f[i - 1] \o ss[i]
                      /\ g[i] = IF i = 0 THEN << >> ELSE g[i - 1] \o tt[i]
  <2> SUFFICES ASSUME NEW i \in 0..n
               PROVE  /\ f[i] = IF i = 0 THEN << >> ELSE f[i - 1] \o ss[i]
                      /\ g[i] = IF i = 0 THEN << >> ELSE g[i - 1] \o tt[i]
    OBVIOUS
  <2>1. i \in 0..Len(ss) /\ i \in 0..Len(tt)
    OBVIOUS
  <2> QED
    BY <2>1 DEF Sums
<1>2. 0 \in T
  BY <1>1
<1>3. ASSUME NEW i \in 1..n, i - 1 \in T PROVE i \in T
  <2>1. f[i - 1] = g[i - 1] /\ ss[i] = tt[i] /\ i \in 0..n /\ i # 0
    BY <1>3
  <2> QED
    BY <1>1, <2>1
<1> HIDE DEF T, n
<1>4. \A i \in 0..n : i \in T
  <2>1. n \in Nat
    BY DEF n
  <2> QED
    BY <1>2, <1>3, <2>1, UpTo
<1> QED
  BY <1>4 DEF T, n

(* Joined is the last partial sum. *)
LEMMA JoinedIs ==
  ASSUME NEW X, NEW ss \in Seq(Seq(X))
  PROVE  \E f \in [0..Len(ss) -> Seq(X)] : Sums(f, ss) /\ Joined(ss) = f[Len(ss)]
<1>1. PICK f \in [0..Len(ss) -> Seq(X)] : Sums(f, ss)
  BY SumsExist
<1> DEFINE g == CHOOSE h : Sums(h, ss)
<1>2. Sums(g, ss) /\ Joined(ss) = g[Len(ss)]
  BY <1>1 DEF Sums, Joined
<1>3. g = f
  <2>1. Starts(ss, ss)
    BY DEF Starts
  <2> HIDE DEF g
  <2>2. \A i \in 0..Len(ss) : f[i] = g[i]
    BY <1>1, <1>2, <2>1, SumsAgree
  <2>3. g = [i \in 0..Len(ss) |-> IF i = 0 THEN << >> ELSE g[i - 1] \o ss[i]]
    BY <1>2 DEF Sums
  <2>4. DOMAIN g = 0..Len(ss)
    BY <2>3
  <2>5. g = [i \in 0..Len(ss) |-> g[i]]
    BY <2>3, <2>4
  <2>6. f = [i \in 0..Len(ss) |-> f[i]]
    OBVIOUS
  <2> QED
    BY <2>2, <2>5, <2>6
<1> QED
  BY <1>1, <1>2, <1>3

LEMMA JoinedEmpty == Joined(<< >>) = << >>
<1>1. << >> \in Seq(Seq({})) /\ Len(<< >>) = 0
  BY EmptySeq
<1>2. PICK f \in [0..Len(<< >>) -> Seq({})] : Sums(f, << >>) /\ Joined(<< >>) = f[Len(<< >>)]
  BY <1>1, JoinedIs
<1> QED
  BY <1>1, <1>2 DEF Sums

LEMMA JoinedType ==
  ASSUME NEW X, NEW ss \in Seq(Seq(X))
  PROVE  Joined(ss) \in Seq(X)
<1>1. PICK f \in [0..Len(ss) -> Seq(X)] : Sums(f, ss) /\ Joined(ss) = f[Len(ss)]
  BY JoinedIs
<1> QED
  BY <1>1

(* The last piece comes last. *)
LEMMA JoinedLast ==
  ASSUME NEW X, NEW ss \in Seq(Seq(X)), NEW tt \in Seq(Seq(X)),
         Len(tt) = Len(ss) + 1, \A i \in 1..Len(ss) : tt[i] = ss[i]
  PROVE  Joined(tt) = Joined(ss) \o tt[Len(tt)]
<1>1. PICK f \in [0..Len(ss) -> Seq(X)] : Sums(f, ss) /\ Joined(ss) = f[Len(ss)]
  BY JoinedIs
<1>2. PICK g \in [0..Len(tt) -> Seq(X)] : Sums(g, tt) /\ Joined(tt) = g[Len(tt)]
  BY JoinedIs
<1>3. Len(ss) \in Nat /\ Len(tt) \in Nat
  OBVIOUS
<1>4. \A i \in 0..Len(ss) : f[i] = g[i]
  <2>1. Starts(ss, tt)
    BY <1>3 DEF Starts
  <2>2. Sums(f, ss) /\ Sums(g, tt)
    BY <1>1, <1>2
  <2> QED
    BY <2>1, <2>2, SumsAgree
<1>5. g[Len(tt)] = g[Len(ss)] \o tt[Len(tt)]
  <2>1. Len(tt) \in 0..Len(tt) /\ Len(tt) # 0 /\ Len(tt) - 1 = Len(ss)
    BY <1>3
  <2> QED
    BY <1>2, <2>1 DEF Sums
<1>6. f[Len(ss)] = g[Len(ss)]
  BY <1>3, <1>4
<1> QED
  BY <1>1, <1>2, <1>5, <1>6

-----------------------------------------------------------------------------
(* Select keeps the members of a set, in order. *)
Pieces(s, S) == [i \in DOMAIN s |-> IF s[i] \in S THEN <<s[i]>> ELSE << >>]

(* What Select puts together. *)
LEMMA PiecesAre ==
  ASSUME NEW X, NEW s \in Seq(X), NEW S
  PROVE  /\ Pieces(s, S) \in Seq(Seq(X)) /\ Len(Pieces(s, S)) = Len(s)
         /\ \A i \in 1..Len(s) : Pieces(s, S)[i] = IF s[i] \in S THEN <<s[i]>> ELSE << >>
         /\ Select(s, S) = Joined(Pieces(s, S))
<1>1. DOMAIN s = 1..Len(s) /\ Len(s) \in Nat /\ \A i \in 1..Len(s) : s[i] \in X
  BY ElementOfSeq, LenProperties
<1>2. \A x \in X : <<x>> \in Seq(X)
  OBVIOUS
<1>3. << >> \in Seq(X)
  BY EmptySeq
<1>4. \A i \in 1..Len(s) : (IF s[i] \in S THEN <<s[i]>> ELSE << >>) \in Seq(X)
  BY <1>1, <1>2, <1>3
<1>5. Pieces(s, S) = [i \in 1..Len(s) |-> IF s[i] \in S THEN <<s[i]>> ELSE << >>]
  BY <1>1 DEF Pieces
<1>6. Select(s, S) = Joined(Pieces(s, S))
  BY DEF Select, Pieces
<1> QED
  BY <1>1, <1>4, <1>5, <1>6

LEMMA SelectType ==
  ASSUME NEW X, NEW s \in Seq(X), NEW S
  PROVE  Select(s, S) \in Seq(X)
BY PiecesAre, JoinedType

LEMMA SelectEmpty ==
  ASSUME NEW S
  PROVE  Select(<< >>, S) = << >>
<1>1. << >> \in Seq({}) /\ Len(<< >>) = 0
  BY EmptySeq
<1>2. Pieces(<< >>, S) \in Seq(Seq({})) /\ Len(Pieces(<< >>, S)) = 0
      /\ Select(<< >>, S) = Joined(Pieces(<< >>, S))
  BY <1>1, PiecesAre
<1>3. Pieces(<< >>, S) = << >>
  BY <1>2, EmptySeq
<1> QED
  BY <1>2, <1>3, JoinedEmpty

(* Select line by line, and over a concatenation. *)
LEMMA SelectAppend ==
  ASSUME NEW X, NEW s \in Seq(X), NEW x \in X, NEW S
  PROVE  Select(Append(s, x), S) = IF x \in S THEN Append(Select(s, S), x) ELSE Select(s, S)
<1> DEFINE t == Append(s, x)
<1>1. t \in Seq(X) /\ Len(t) = Len(s) + 1 /\ t[Len(s) + 1] = x /\ \A i \in 1..Len(s) : t[i] = s[i]
  BY AppendProperties
<1> HIDE DEF t
<1>2. /\ Pieces(s, S) \in Seq(Seq(X)) /\ Len(Pieces(s, S)) = Len(s)
      /\ \A i \in 1..Len(s) : Pieces(s, S)[i] = IF s[i] \in S THEN <<s[i]>> ELSE << >>
      /\ Select(s, S) = Joined(Pieces(s, S))
  BY PiecesAre
<1>3. /\ Pieces(t, S) \in Seq(Seq(X)) /\ Len(Pieces(t, S)) = Len(t)
      /\ \A i \in 1..Len(t) : Pieces(t, S)[i] = IF t[i] \in S THEN <<t[i]>> ELSE << >>
      /\ Select(t, S) = Joined(Pieces(t, S))
  BY <1>1, PiecesAre
<1>4. \A i \in 1..Len(s) : Pieces(t, S)[i] = Pieces(s, S)[i]
  <2> SUFFICES ASSUME NEW i \in 1..Len(s) PROVE Pieces(t, S)[i] = Pieces(s, S)[i]
    OBVIOUS
  <2>1. i \in 1..Len(t) /\ t[i] = s[i]
    BY <1>1
  <2> QED
    BY <1>2, <1>3, <2>1
<1>5. Joined(Pieces(t, S)) = Joined(Pieces(s, S)) \o Pieces(t, S)[Len(Pieces(t, S))]
  <2>1. Len(Pieces(t, S)) = Len(Pieces(s, S)) + 1
    BY <1>1, <1>2, <1>3
  <2>2. \A i \in 1..Len(Pieces(s, S)) : Pieces(t, S)[i] = Pieces(s, S)[i]
    BY <1>2, <1>4
  <2> QED
    BY <1>2, <1>3, <2>1, <2>2, JoinedLast
<1>6. Pieces(t, S)[Len(t)] = IF x \in S THEN <<x>> ELSE << >>
  <2>1. Len(t) \in 1..Len(t) /\ t[Len(t)] = x
    BY <1>1
  <2> QED
    BY <1>3, <2>1
<1>7. Select(t, S) = Select(s, S) \o (IF x \in S THEN <<x>> ELSE << >>)
  BY <1>2, <1>3, <1>5, <1>6
<1>8. Select(s, S) \in Seq(X)
  BY SelectType
<1>9. CASE x \in S
  <2>1. Select(t, S) = Select(s, S) \o <<x>>
    BY <1>7, <1>9
  <2>2. Append(Select(s, S), x) = Select(s, S) \o <<x>>
    BY <1>8, AppendIsConcat
  <2> QED
    BY <1>9, <2>1, <2>2 DEF t
<1>10. CASE x \notin S
  <2>1. Select(t, S) = Select(s, S) \o << >>
    BY <1>7, <1>10
  <2>2. Select(s, S) \o << >> = Select(s, S)
    BY <1>8, ConcatEmptySeq
  <2> QED
    BY <1>10, <2>1, <2>2 DEF t
<1> QED
  BY <1>9, <1>10

LEMMA SelectOne ==
  ASSUME NEW x, NEW S
  PROVE  Select(<<x>>, S) = IF x \in S THEN <<x>> ELSE << >>
<1>1. << >> \in Seq({x}) /\ x \in {x}
  BY EmptySeq
<1>2. Append(<< >>, x) = <<x>>
  <2>1. <<x>> \in Seq({x})
    OBVIOUS
  <2>2. Append(<< >>, x) = << >> \o <<x>>
    BY <1>1, AppendIsConcat
  <2> QED
    BY <2>1, <2>2, ConcatEmptySeq
<1>3. Select(Append(<< >>, x), S) = IF x \in S THEN Append(Select(<< >>, S), x) ELSE Select(<< >>, S)
  BY <1>1, SelectAppend
<1> QED
  BY <1>2, <1>3, SelectEmpty

Glued(x, y, z) == (x \o y) \o z = x \o (y \o z)
LEMMA GluedIs ==
  ASSUME NEW X, NEW x \in Seq(X), NEW y \in Seq(X), NEW z \in Seq(X)
  PROVE  Glued(x, y, z)
BY ConcatAssociative DEF Glued

LEMMA SelectConcat ==
  ASSUME NEW X, NEW s \in Seq(X), NEW t \in Seq(X), NEW S
  PROVE  Select(s \o t, S) = Select(s, S) \o Select(t, S)
<1> DEFINE P == {u \in Seq(X) : Select(s \o u, S) = Select(s, S) \o Select(u, S)}
<1>1. Select(s, S) \in Seq(X) /\ << >> \in Seq(X)
  BY SelectType, EmptySeq
<1>2. << >> \in P
  BY <1>1, ConcatEmptySeq, SelectEmpty
<1>3. ASSUME NEW u \in Seq(X), NEW x \in X, u \in P PROVE Append(u, x) \in P
  <2>1. Append(u, x) \in Seq(X) /\ s \o u \in Seq(X)
    BY AppendProperties, ConcatProperties
  <2>2. s \o Append(u, x) = Append(s \o u, x)
    <3>1. <<x>> \in Seq(X)
      OBVIOUS
    <3>2. Append(u, x) = u \o <<x>> /\ Append(s \o u, x) = (s \o u) \o <<x>>
      BY <2>1, AppendIsConcat
    <3>3. (s \o u) \o <<x>> = s \o (u \o <<x>>)
      BY <3>1, ConcatAssociative
    <3> QED
      BY <3>2, <3>3
  <2>3. Select(s \o u, S) = Select(s, S) \o Select(u, S) /\ Select(u, S) \in Seq(X)
    BY <1>3, SelectType
  <2>4. Select(Append(s \o u, x), S)
          = IF x \in S THEN Append(Select(s \o u, S), x) ELSE Select(s \o u, S)
    BY <2>1, SelectAppend
  <2>5. Select(Append(u, x), S) = IF x \in S THEN Append(Select(u, S), x) ELSE Select(u, S)
    BY SelectAppend
  <2>6. Append(Select(s, S) \o Select(u, S), x) = Select(s, S) \o Append(Select(u, S), x)
    <3>1. <<x>> \in Seq(X) /\ Select(s, S) \o Select(u, S) \in Seq(X)
      BY <1>1, <2>3, ConcatProperties
    <3>2. Append(Select(u, S), x) = Select(u, S) \o <<x>>
      BY <2>3, AppendIsConcat
    <3>3. Append(Select(s, S) \o Select(u, S), x) = (Select(s, S) \o Select(u, S)) \o <<x>>
      BY <3>1, AppendIsConcat
    <3>4. (Select(s, S) \o Select(u, S)) \o <<x>> = Select(s, S) \o (Select(u, S) \o <<x>>)
      <4> DEFINE y == Select(s, S)
                 z == Select(u, S)
                 v == <<x>>
      <4>1. y \in Seq(X) /\ z \in Seq(X) /\ v \in Seq(X)
        BY <1>1, <2>3, <3>1
      <4> HIDE DEF y, z, v
      <4>2. Glued(y, z, v)
        BY <4>1, GluedIs
      <4> QED
        BY <4>2 DEF Glued, y, z, v
    <3> QED
      BY <3>2, <3>3, <3>4
  <2>7. Select(s \o Append(u, x), S) = Select(s, S) \o Select(Append(u, x), S)
    BY <2>2, <2>3, <2>4, <2>5, <2>6
  <2> QED
    BY <2>1, <2>7
<1> HIDE DEF P
<1>4. \A u \in Seq(X) : u \in P
  BY <1>2, <1>3, BySteps
<1> QED
  BY <1>4 DEF P

(* Nothing is kept of a sequence without members of the set. *)
LEMMA SelectNone ==
  ASSUME NEW X, NEW s \in Seq(X), NEW S, \A x \in X : x \notin S
  PROVE  Select(s, S) = << >>
<1> DEFINE P == {u \in Seq(X) : Select(u, S) = << >>}
<1>1. << >> \in P
  BY SelectEmpty, EmptySeq
<1>2. ASSUME NEW u \in Seq(X), NEW x \in X, u \in P PROVE Append(u, x) \in P
  <2>1. Append(u, x) \in Seq(X) /\ x \notin S /\ Select(u, S) = << >>
    BY <1>2, AppendProperties
  <2>2. Select(Append(u, x), S) = << >>
    BY <2>1, SelectAppend
  <2> QED
    BY <2>1, <2>2
<1> HIDE DEF P
<1>3. \A u \in Seq(X) : u \in P
  BY <1>1, <1>2, BySteps
<1> QED
  BY <1>3 DEF P

(* What is kept is in the set, and keeping more first changes nothing. *)
LEMMA SelectIn ==
  ASSUME NEW X, NEW s \in Seq(X), NEW S
  PROVE  Select(s, S) \in Seq({x \in X : x \in S})
<1> DEFINE Y == {x \in X : x \in S}
           P == {u \in Seq(X) : Select(u, S) \in Seq(Y)}
<1>1. << >> \in P
  BY SelectEmpty, EmptySeq
<1>2. ASSUME NEW u \in Seq(X), NEW x \in X, u \in P PROVE Append(u, x) \in P
  <2>1. Append(u, x) \in Seq(X) /\ Select(u, S) \in Seq(Y)
    BY <1>2, AppendProperties
  <2>2. Select(Append(u, x), S) = IF x \in S THEN Append(Select(u, S), x) ELSE Select(u, S)
    BY SelectAppend
  <2>3. x \in S => x \in Y
    OBVIOUS
  <2> HIDE DEF Y
  <2>4. Select(Append(u, x), S) \in Seq(Y)
    BY <2>1, <2>2, <2>3, AppendProperties
  <2> QED
    BY <2>1, <2>4
<1> HIDE DEF P
<1>3. \A u \in Seq(X) : u \in P
  BY <1>1, <1>2, BySteps
<1> QED
  BY <1>3 DEF P

LEMMA SelectNested ==
  ASSUME NEW X, NEW s \in Seq(X), NEW S, NEW T, \A x \in X : x \in T => x \in S
  PROVE  Select(Select(s, S), T) = Select(s, T)
<1> DEFINE P == {u \in Seq(X) : Select(Select(u, S), T) = Select(u, T)}
<1>1. << >> \in P
  BY SelectEmpty, EmptySeq
<1>2. ASSUME NEW u \in Seq(X), NEW x \in X, u \in P PROVE Append(u, x) \in P
  <2>1. Append(u, x) \in Seq(X) /\ Select(u, S) \in Seq(X)
        /\ Select(Select(u, S), T) = Select(u, T) /\ (x \in T => x \in S)
    BY <1>2, AppendProperties, SelectType
  <2>2. Select(Append(u, x), S) = IF x \in S THEN Append(Select(u, S), x) ELSE Select(u, S)
    BY SelectAppend
  <2>3. Select(Append(u, x), T) = IF x \in T THEN Append(Select(u, T), x) ELSE Select(u, T)
    BY SelectAppend
  <2>4. Select(Append(Select(u, S), x), T)
          = IF x \in T THEN Append(Select(Select(u, S), T), x) ELSE Select(Select(u, S), T)
    <3> DEFINE y == Select(u, S)
    <3>1. y \in Seq(X)
      BY SelectType
    <3> HIDE DEF y
    <3>2. Select(Append(y, x), T) = IF x \in T THEN Append(Select(y, T), x) ELSE Select(y, T)
      BY <3>1, SelectAppend
    <3> QED
      BY <3>2 DEF y
  <2>5. Select(Select(Append(u, x), S), T) = Select(Append(u, x), T)
    BY <2>1, <2>2, <2>3, <2>4
  <2> QED
    BY <2>1, <2>5
<1> HIDE DEF P
<1>3. \A u \in Seq(X) : u \in P
  BY <1>1, <1>2, BySteps
<1> QED
  BY <1>3 DEF P

(* Everything is kept of a sequence of members of the set. *)
LEMMA SelectAll ==
  ASSUME NEW X, NEW s \in Seq(X), NEW S, \A x \in X : x \in S
  PROVE  Select(s, S) = s
<1> DEFINE P == {u \in Seq(X) : Select(u, S) = u}
<1>1. << >> \in P
  BY SelectEmpty, EmptySeq
<1>2. ASSUME NEW u \in Seq(X), NEW x \in X, u \in P PROVE Append(u, x) \in P
  <2>1. Append(u, x) \in Seq(X)
    BY AppendProperties
  <2>2. Select(Append(u, x), S) = Append(Select(u, S), x)
    BY SelectAppend
  <2> QED
    BY <1>2, <2>1, <2>2
<1> HIDE DEF P
<1>3. s \in P
  BY <1>1, <1>2, BySteps
<1> QED
  BY <1>3 DEF P

-----------------------------------------------------------------------------
(* Positions. *)
LEMMA FirstIndexIs ==
  ASSUME NEW n \in Nat, NEW S \in SUBSET (1..n), NEW x \in S
  PROVE  FirstIndex(S) \in S /\ \A y \in S : FirstIndex(S) <= y
<1>1. \E m \in S : \A y \in S : m <= y
  BY First
<1> QED
  BY <1>1 DEF FirstIndex

LEMMA FirstIndexBy ==
  ASSUME NEW n \in Nat, NEW S \in SUBSET (1..n), NEW x \in S, \A y \in S : x <= y
  PROVE  FirstIndex(S) = x
<1>1. FirstIndex(S) \in S /\ \A y \in S : FirstIndex(S) <= y
  <2>1. \E m \in S : \A y \in S : m <= y
    OBVIOUS
  <2> QED
    BY <2>1 DEF FirstIndex
<1> DEFINE m == FirstIndex(S)
<1> HIDE DEF m
<1>2. m \in S /\ m <= x /\ x <= m
  BY <1>1 DEF m
<1>3. m \in Int /\ x \in Int
  BY <1>2
<1>4. m = x
  BY <1>2, <1>3
<1> QED
  BY <1>4 DEF m

LEMMA LastIndexIs ==
  ASSUME NEW n \in Nat, NEW S \in SUBSET (1..n), NEW x \in S
  PROVE  LastIndex(S) \in S
<1> DEFINE T == {n + 1 - i : i \in S}
<1>1. T \in SUBSET (1..n)
  OBVIOUS
<1>2. n + 1 - x \in T
  OBVIOUS
<1> HIDE DEF T
<1>3. PICK m \in T : \A y \in T : m <= y
  BY <1>1, <1>2, First
<1>4. PICK k \in S : m = n + 1 - k
  BY <1>3 DEF T
<1>5. ASSUME NEW y \in S PROVE y <= k
  <2>1. n + 1 - y \in T
    BY DEF T
  <2>2. n + 1 - k <= n + 1 - y
    BY <1>3, <1>4, <2>1
  <2>3. y \in Int /\ k \in Int
    OBVIOUS
  <2> QED
    BY <2>2, <2>3
<1>6. \E i \in S : \A j \in S : j <= i
  BY <1>5
<1> QED
  BY <1>6 DEF LastIndex

(* A stretch of a sequence, and a sequence cut where it was put together. *)
LEMMA StretchType ==
  ASSUME NEW X, NEW s \in Seq(X), NEW m \in 1..(Len(s) + 1), NEW k \in 0..Len(s)
  PROVE  SubSeq(s, m, k) \in Seq(X)
<1>1. \A i \in m..k : s[i] \in X
  BY ElementOfSeq
<1>2. m \in Int /\ k \in Int
  OBVIOUS
<1> QED
  BY <1>1, <1>2, SubSeqProperties

LEMMA CutBack ==
  ASSUME NEW X, NEW u \in Seq(X), NEW v \in Seq(X), NEW w \in Seq(X)
  PROVE  /\ SubSeq(u \o (v \o w), 1, Len(u)) = u
         /\ SubSeq(u \o (v \o w), Len(u) + 1, Len(u) + Len(v)) = v
         /\ SubSeq(u \o v, Len(u) + 1, Len(u \o v)) = v
<1>1. v \o w \in Seq(X) /\ u \o v \in Seq(X) /\ u \o (v \o w) \in Seq(X)
  BY ConcatProperties
<1>2. Len(u) \in Nat /\ Len(v) \in Nat /\ Len(w) \in Nat
  BY LenProperties
<1>3. /\ Len(v \o w) = Len(v) + Len(w) /\ Len(u \o v) = Len(u) + Len(v)
      /\ \A i \in 1..Len(v) + Len(w) : (v \o w)[i] = IF i <= Len(v) THEN v[i] ELSE w[i - Len(v)]
      /\ \A i \in 1..Len(u) + Len(v) : (u \o v)[i] = IF i <= Len(u) THEN u[i] ELSE v[i - Len(u)]
  BY ConcatProperties
<1> DEFINE t == v \o w
           z == u \o t
           y == u \o v
<1> HIDE DEF t, y
<1>4. /\ Len(z) = Len(u) + Len(t)
      /\ \A i \in 1..Len(u) + Len(t) : z[i] = IF i <= Len(u) THEN u[i] ELSE t[i - Len(u)]
  BY <1>1, ConcatProperties DEF t
<1> HIDE DEF z
<1>5. /\ t \in Seq(X) /\ z \in Seq(X) /\ y \in Seq(X) /\ Len(t) = Len(v) + Len(w) /\ Len(y) = Len(u) + Len(v)
      /\ \A i \in 1..Len(t) : t[i] = IF i <= Len(v) THEN v[i] ELSE w[i - Len(v)]
      /\ \A i \in 1..Len(y) : y[i] = IF i <= Len(u) THEN u[i] ELSE v[i - Len(u)]
  BY <1>1, <1>3 DEF t, z, y
<1>6. SubSeq(z, 1, Len(u)) = u
  <2>1. 1 \in 1..(Len(z) + 1) /\ Len(u) \in 0..Len(z)
    BY <1>2, <1>4, <1>5
  <2>2. SubSeq(z, 1, Len(u)) \in Seq(X)
    BY <1>5, <2>1, StretchType
  <2>3. \A i \in 1..Len(u) : z[i] = u[i] /\ z[i] \in X
    BY <1>2, <1>4, <1>5, ElementOfSeq
  <2>4. /\ Len(SubSeq(z, 1, Len(u))) = Len(u)
        /\ \A i \in 1..Len(u) : SubSeq(z, 1, Len(u))[i] = z[i]
    <3>1. /\ Len(SubSeq(z, 1, Len(u))) = IF 1 <= Len(u) THEN Len(u) - 1 + 1 ELSE 0
          /\ \A i \in 1..(Len(u) - 1 + 1) : SubSeq(z, 1, Len(u))[i] = z[1 + i - 1]
      BY <1>2, <2>3, SubSeqProperties
    <3> QED
      BY <1>2, <3>1
  <2> QED
    BY <2>2, <2>3, <2>4, SeqEqual
<1>7. SubSeq(z, Len(u) + 1, Len(u) + Len(v)) = v
  <2> DEFINE a == Len(u) + 1
             b == Len(u) + Len(v)
             q == SubSeq(z, a, b)
  <2>1. a \in 1..(Len(z) + 1) /\ b \in 0..Len(z) /\ a \in Int /\ b \in Int
    BY <1>2, <1>4, <1>5
  <2>2. q \in Seq(X)
    <3> HIDE DEF a, b
    <3> QED
      BY <1>5, <2>1, StretchType
  <2>3. \A i \in 1..Len(v) : z[a + i - 1] = v[i]
    <3> SUFFICES ASSUME NEW i \in 1..Len(v) PROVE z[a + i - 1] = v[i]
      OBVIOUS
    <3>1. a + i - 1 = Len(u) + i /\ Len(u) + i \in 1..Len(u) + Len(t) /\ ~(Len(u) + i <= Len(u))
          /\ Len(u) + i - Len(u) = i /\ i \in 1..Len(t) /\ i <= Len(v)
      BY <1>2, <1>5
    <3>2. z[Len(u) + i] = t[i]
      BY <1>4, <3>1
    <3> QED
      BY <1>5, <3>1, <3>2
  <2>4. \A i \in a..b : z[i] \in X
    BY <1>2, <1>4, <1>5, ElementOfSeq
  <2>5. /\ Len(q) = Len(v)
        /\ \A i \in 1..Len(v) : q[i] = z[a + i - 1]
    <3>1. /\ Len(q) = IF a <= b THEN b - a + 1 ELSE 0
          /\ \A i \in 1..(b - a + 1) : q[i] = z[a + i - 1]
      <4> HIDE DEF a, b
      <4> QED
        BY <2>1, <2>4, SubSeqProperties DEF q
    <3>2. b - a + 1 = Len(v) /\ (a <= b <=> Len(v) > 0)
      BY <1>2
    <3> QED
      BY <1>2, <3>1, <3>2
  <2> HIDE DEF a, b, q
  <2>6. q = v
    BY <2>2, <2>3, <2>5, SeqEqual
  <2> QED
    BY <2>6 DEF a, b, q
<1>8. SubSeq(y, Len(u) + 1, Len(y)) = v
  <2> DEFINE a == Len(u) + 1
             b == Len(y)
             q == SubSeq(y, a, b)
  <2>1. a \in 1..(Len(y) + 1) /\ b \in 0..Len(y) /\ a \in Int /\ b \in Int
    BY <1>2, <1>5
  <2>2. q \in Seq(X)
    <3> HIDE DEF a, b
    <3> QED
      BY <1>5, <2>1, StretchType
  <2>3. \A i \in 1..Len(v) : y[a + i - 1] = v[i]
    <3> SUFFICES ASSUME NEW i \in 1..Len(v) PROVE y[a + i - 1] = v[i]
      OBVIOUS
    <3>1. a + i - 1 = Len(u) + i /\ Len(u) + i \in 1..Len(y) /\ ~(Len(u) + i <= Len(u))
          /\ Len(u) + i - Len(u) = i
      BY <1>2, <1>5
    <3> QED
      BY <1>5, <3>1
  <2>4. \A i \in a..b : y[i] \in X
    BY <1>2, <1>5, ElementOfSeq
  <2>5. /\ Len(q) = Len(v)
        /\ \A i \in 1..Len(v) : q[i] = y[a + i - 1]
    <3>1. /\ Len(q) = IF a <= b THEN b - a + 1 ELSE 0
          /\ \A i \in 1..(b - a + 1) : q[i] = y[a + i - 1]
      <4> HIDE DEF a, b
      <4> QED
        BY <2>1, <2>4, SubSeqProperties DEF q
    <3>2. b - a + 1 = Len(v) /\ (a <= b <=> Len(v) > 0)
      BY <1>2, <1>5
    <3> QED
      BY <1>2, <3>1, <3>2
  <2> HIDE DEF a, b, q
  <2>6. q = v
    BY <2>2, <2>3, <2>5, SeqEqual
  <2> QED
    BY <2>6 DEF a, b, q
<1> QED
  BY <1>6, <1>7, <1>8 DEF z, t, y

-----------------------------------------------------------------------------
(* Pruning keeps the ledger lines and the blocks of compactions, in order. *)
Running == {l \in Lines : ~EndsSection(l)}
Inner == {l \in Running : l.shape # "block"}
Narrated == {l \in Inner : ~IsLedger(l)}
KeptSets == {LedgerLines, CompactionBlocks}

(* A part that is kept has neither ledger lines nor headings of blocks. *)
LEMMA PartKept ==
  ASSUME NEW rest \in Seq(Inner), NEW t
  PROVE  PartOf(rest, t) \in Seq(Narrated)
<1> DEFINE own == Headings(rest, t)
           ends == {Len(rest) + 1} \cup {i \in PartHeads(rest) : i > LastIndex(own)}
           mid == SubSeq(rest, LastIndex(own), FirstIndex(ends) - 1)
           said == {l \in Lines : ~IsLedger(l)}
<1>1. PartOf(rest, t) = IF own = {} THEN << >> ELSE Select(mid, said)
  BY DEF PartOf
<1>2. Len(rest) \in Nat /\ DOMAIN rest = 1..Len(rest)
  BY LenProperties
<1>3. CASE own = {}
  BY <1>1, <1>3, EmptySeq
<1>4. CASE own # {}
  <2>1. PICK x : x \in own
    BY <1>4
  <2>2. own \in SUBSET (1..Len(rest))
    BY <1>2 DEF Headings
  <2> HIDE DEF own
  <2>3. LastIndex(own) \in 1..Len(rest)
    BY <1>2, <2>1, <2>2, LastIndexIs
  <2> DEFINE n == Len(rest) + 1
  <2>4. ends \in SUBSET (1..n) /\ n \in ends /\ n \in Nat
    BY <1>2 DEF PartHeads
  <2> HIDE DEF ends, n
  <2>5. FirstIndex(ends) \in 1..n
    BY <2>4, FirstIndexIs
  <2>6. LastIndex(own) \in 1..(Len(rest) + 1) /\ FirstIndex(ends) - 1 \in 0..Len(rest)
    BY <1>2, <2>3, <2>5 DEF n
  <2>7. mid \in Seq(Inner)
    BY <2>6, StretchType
  <2> HIDE DEF mid, said
  <2>8. Select(mid, said) \in Seq({l \in Inner : l \in said})
    BY <2>7, SelectIn
  <2>9. {l \in Inner : l \in said} = Narrated
    BY DEF Inner, Running, Narrated, said
  <2> QED
    BY <1>1, <1>4, <2>8, <2>9
<1> QED
  BY <1>3, <1>4

(* A reduced block keeps its heading and its ledger lines. *)
LEMMA ReduceKeeps ==
  ASSUME NEW block \in Seq(Running), block # << >>,
         \A i \in 2..Len(block) : block[i].shape # "block"
  PROVE  /\ ReduceBlock(block) \in Seq(Running)
         /\ \A S \in KeptSets : block[1].shape = "block" => Select(ReduceBlock(block), S) = Select(block, S)
<1> DEFINE h == Head(block)
           rest == Tail(block)
           said == KeptParts(rest)
           kept == KeptLedger(rest)
           short == \A i \in PartHeads(rest) : rest[i].of \in {"a", "d"}
<1>1. /\ h \in Running /\ rest \in Seq(Running) /\ Len(rest) = Len(block) - 1
      /\ \A i \in 1..Len(rest) : rest[i] = block[i + 1]
      /\ Len(block) \in Nat
  BY HeadTailProperties, LenProperties
<1>2. h = block[1] /\ block = <<h>> \o rest
  <2>1. Len(block) \in Nat \ {0}
    BY EmptySeq
  <2>2. 1 \in 1..Len(block) /\ Len(block) \in 1..Len(block)
    BY <2>1
  <2>3. h = SubSeq(block, 1, Len(block))[1] /\ SubSeq(block, 1, Len(block)) = block
    BY SubSeqFull
  <2>4. rest = SubSeq(block, 2, Len(block))
    BY TailIsSubSeq
  <2>5. SubSeq(block, 1, Len(block)) = <<block[1]>> \o SubSeq(block, 1 + 1, Len(block))
    BY <2>2, SubSeqRecursiveFirst
  <2>6. 1 + 1 = 2
    OBVIOUS
  <2> QED
    BY <2>3, <2>4, <2>5, <2>6
<1> HIDE DEF h, rest
<1> DEFINE H == <<h>>
<1>3. rest \in Seq(Inner)
  <2>1. \A i \in 1..Len(rest) : rest[i] \in Inner
    <3> SUFFICES ASSUME NEW i \in 1..Len(rest) PROVE rest[i] \in Inner
      OBVIOUS
    <3>1. i + 1 \in 2..Len(block)
      BY <1>1
    <3>2. rest[i] = block[i + 1] /\ rest[i] \in Running
      BY <1>1, ElementOfSeq
    <3> QED
      BY <3>1, <3>2 DEF Inner
  <2>2. Len(rest) \in Nat /\ rest = [i \in 1..Len(rest) |-> rest[i]]
    BY <1>1, LenProperties
  <2> QED
    BY <2>1, <2>2
<1>4. said \in Seq(Narrated)
  <2>1. PartOf(rest, "a") \in Seq(Narrated) /\ PartOf(rest, "d") \in Seq(Narrated)
    BY <1>3, PartKept
  <2> QED
    BY <2>1, ConcatProperties DEF KeptParts
<1> DEFINE Ls == {l \in Lines : IsLedger(l)}
<1>5. kept = Select(rest, Ls) /\ kept \in Seq(Inner)
  BY <1>3, SelectType DEF KeptLedger
<1>6. ReduceBlock(block) = IF short THEN block ELSE (H \o said) \o kept
  BY DEF ReduceBlock, h, rest
<1>10. block = H \o rest /\ H \in Seq(Running)
  BY <1>1, <1>2
<1> HIDE DEF said, kept, short, Ls, H
<1>7. H \in Seq(Running) /\ said \in Seq(Running) /\ kept \in Seq(Running)
  <2>1. Narrated \subseteq Running /\ Inner \subseteq Running
    BY DEF Narrated, Inner
  <2> QED
    BY <1>4, <1>5, <1>10, <2>1, SeqMonotonic
<1>8. H \o said \in Seq(Running) /\ (H \o said) \o kept \in Seq(Running)
  BY <1>7, ConcatProperties
<1>9. ASSUME NEW S \in KeptSets, block[1].shape = "block"
      PROVE  Select((H \o said) \o kept, S) = Select(block, S)
  <2>1. Select((H \o said) \o kept, S) = (Select(H, S) \o Select(said, S)) \o Select(kept, S)
    <3>1. Select((H \o said) \o kept, S) = Select(H \o said, S) \o Select(kept, S)
      <4> DEFINE q == H \o said
      <4>1. q \in Seq(Running) /\ kept \in Seq(Running)
        BY <1>7, <1>8
      <4> HIDE DEF q
      <4>2. Select(q \o kept, S) = Select(q, S) \o Select(kept, S)
        BY <4>1, SelectConcat
      <4> QED
        BY <4>2 DEF q
    <3>2. Select(H \o said, S) = Select(H, S) \o Select(said, S)
      <4>1. H \in Seq(Running) /\ said \in Seq(Running)
        BY <1>7
      <4> QED
        BY <4>1, SelectConcat
    <3> QED
      BY <3>1, <3>2
  <2>2. Select(block, S) = Select(H, S) \o Select(rest, S)
    <3>1. Select(H \o rest, S) = Select(H, S) \o Select(rest, S)
      <4>1. H \in Seq(Running) /\ rest \in Seq(Running)
        BY <1>1, <1>7
      <4> QED
        BY <4>1, SelectConcat
    <3> QED
      BY <1>10, <3>1
  <2>3. \A x \in Narrated : x \notin S
    BY <1>9 DEF KeptSets, Narrated, Inner, LedgerLines, CompactionBlocks
  <2>4. Select(said, S) = << >>
    BY <1>4, <2>3, SelectNone
  <2>5. Select(H, S) \in Seq(Running)
    BY <1>7, SelectType
  <2>6. Select(H, S) \o Select(said, S) = Select(H, S)
    BY <2>4, <2>5, ConcatEmptySeq
  <2>7. \A x \in Inner : x \in S => x \in Ls
    <3>1. CASE S = LedgerLines
      BY <3>1 DEF LedgerLines, Ls
    <3>2. CASE S = CompactionBlocks
      BY <3>2 DEF CompactionBlocks, Inner
    <3> QED
      BY <3>1, <3>2 DEF KeptSets
  <2>8. Select(Select(rest, Ls), S) = Select(rest, S)
    BY <1>3, <2>7, SelectNested
  <2> QED
    BY <1>5, <2>1, <2>2, <2>6, <2>8
<1> QED
  BY <1>6, <1>8, <1>9

(* Where the block of a position ends; before the first block, the position. *)
NextStart(body, i) == FirstIndex({Len(body) + 1} \cup {j \in BlockStarts(body) : j > i})
EndOf(body, i) ==
  IF \E j \in BlockStarts(body) : j <= i THEN NextStart(body, i) - 1 ELSE i

(* Where the block of a position ends. *)
LEMMA NextStartIs ==
  ASSUME NEW body \in Seq(Running), NEW i \in 0..Len(body)
  PROVE  /\ NextStart(body, i) \in (i + 1)..(Len(body) + 1)
         /\ NextStart(body, i) = Len(body) + 1 \/ NextStart(body, i) \in BlockStarts(body)
         /\ \A j \in BlockStarts(body) : j > i => NextStart(body, i) <= j
         /\ i + 1 \in BlockStarts(body) => NextStart(body, i) = i + 1
         /\ i + 1 \notin BlockStarts(body) /\ i < Len(body) => NextStart(body, i) = NextStart(body, i + 1)
<1> DEFINE n == Len(body) + 1
           B == BlockStarts(body)
           After == {n} \cup {j \in B : j > i}
           Later == {n} \cup {j \in B : j > i + 1}
<1>1. Len(body) \in Nat /\ DOMAIN body = 1..Len(body)
  BY LenProperties
<1>2. B \in SUBSET (1..Len(body))
  BY <1>1 DEF BlockStarts
<1>3. NextStart(body, i) = FirstIndex(After) /\ NextStart(body, i + 1) = FirstIndex(Later)
  BY DEF NextStart
<1> HIDE DEF B
<1>4. /\ n \in Nat /\ n \in After /\ After \in SUBSET (1..n) /\ i \in Int /\ i + 1 <= n
      /\ \A j \in After : i + 1 <= j
  <2>1. n \in Nat /\ n \in After /\ i \in Int /\ i + 1 <= n
    BY <1>1
  <2>2. \A j \in B : j \in 1..n
    BY <1>1, <1>2
  <2>3. After \in SUBSET (1..n)
    BY <1>1, <2>2
  <2>4. ASSUME NEW j \in After PROVE i + 1 <= j
    <3>1. j = n \/ (j \in B /\ j > i)
      OBVIOUS
    <3>2. CASE j = n
      BY <2>1, <3>2
    <3>3. CASE j \in B /\ j > i
      <4>1. j \in Int
        BY <2>2, <3>3
      <4> QED
        BY <2>1, <3>3, <4>1
    <3> QED
      BY <3>1, <3>2, <3>3
  <2> QED
    BY <2>1, <2>3, <2>4
<1> HIDE DEF n, After, Later
<1>5. FirstIndex(After) \in After /\ \A y \in After : FirstIndex(After) <= y
  BY <1>4, FirstIndexIs
<1>6. FirstIndex(After) \in (i + 1)..n
  <2>1. FirstIndex(After) \in 1..n /\ i + 1 <= FirstIndex(After)
    BY <1>4, <1>5
  <2> QED
    BY <1>4, <2>1
<1>7. FirstIndex(After) = n \/ FirstIndex(After) \in B
  BY <1>5 DEF After
<1>8. \A j \in B : j > i => FirstIndex(After) <= j
  BY <1>5 DEF After
<1>9. ASSUME i + 1 \in B PROVE FirstIndex(After) = i + 1
  <2>1. i + 1 \in After
    BY <1>4, <1>9 DEF After
  <2>2. \A y \in After : i + 1 <= y
    BY <1>4
  <2> DEFINE k == i + 1
  <2> HIDE DEF k
  <2>3. k \in After /\ \A y \in After : k <= y
    BY <2>1, <2>2 DEF k
  <2>4. FirstIndex(After) = k
    BY <1>4, <2>3, FirstIndexBy
  <2> QED
    BY <2>4 DEF k
<1>10. ASSUME i + 1 \notin B, i < Len(body) PROVE FirstIndex(After) = FirstIndex(Later)
  <2>1. After = Later
    <3>1. ASSUME NEW j \in B PROVE j > i <=> j > i + 1
      <4>1. j \in Int /\ j # i + 1
        BY <1>2, <1>10
      <4> QED
        BY <1>4, <4>1
    <3> QED
      BY <3>1 DEF After, Later
  <2> QED
    BY <2>1
<1> QED
  BY <1>3, <1>6, <1>7, <1>8, <1>9, <1>10 DEF n, B

(* A block is its heading and lines that are no heading. *)
LEMMA BlockAtIs ==
  ASSUME NEW body \in Seq(Running), NEW i \in BlockStarts(body)
  PROVE  /\ i \in 1..Len(body) /\ NextStart(body, i) - 1 \in i..Len(body)
         /\ BlockAt(body, i) = SubSeq(body, i, NextStart(body, i) - 1)
         /\ BlockAt(body, i) \in Seq(Running) /\ BlockAt(body, i) # << >>
         /\ BlockAt(body, i)[1].shape = "block"
         /\ \A k \in 2..Len(BlockAt(body, i)) : BlockAt(body, i)[k].shape # "block"
<1> DEFINE e == NextStart(body, i) - 1
           b == SubSeq(body, i, e)
<1>1. Len(body) \in Nat /\ DOMAIN body = 1..Len(body) /\ i \in 1..Len(body) /\ body[i].shape = "block"
  BY LenProperties DEF BlockStarts
<1>2. /\ NextStart(body, i) \in (i + 1)..(Len(body) + 1)
      /\ \A j \in BlockStarts(body) : j > i => NextStart(body, i) <= j
  <2>1. i \in 0..Len(body)
    BY <1>1
  <2> QED
    BY <2>1, NextStartIs
<1>3. e \in i..Len(body) /\ e \in Int /\ i \in Int /\ e = NextStart(body, i) - 1
  BY <1>1, <1>2
<1>4. BlockAt(body, i) = b
  BY DEF BlockAt, NextStart
<1> HIDE DEF e
<1>5. \A k \in i..e : body[k] \in Running
  <2>1. \A k \in i..e : k \in 1..Len(body)
    BY <1>1, <1>3
  <2> QED
    BY <2>1, ElementOfSeq
<1>6. b \in Seq(Running) /\ Len(b) = e - i + 1 /\ \A k \in 1..(e - i + 1) : b[k] = body[i + k - 1]
  <2>1. /\ b \in Seq(Running) /\ Len(b) = (IF i <= e THEN e - i + 1 ELSE 0)
        /\ \A k \in 1..(e - i + 1) : b[k] = body[i + k - 1]
    BY <1>3, <1>5, SubSeqProperties
  <2> QED
    BY <1>3, <2>1
<1> HIDE DEF b
<1>7. b # << >> /\ b[1] = body[i]
  <2>1. Len(b) # 0 /\ 1 \in 1..(e - i + 1) /\ i + 1 - 1 = i
    BY <1>3, <1>6
  <2> QED
    BY <1>6, <2>1, EmptySeq
<1>8. ASSUME NEW k \in 2..Len(b) PROVE b[k].shape # "block"
  <2>1. k \in 1..(e - i + 1) /\ i + k - 1 \in 1..Len(body) /\ i + k - 1 > i /\ i + k - 1 <= e
        /\ i + k - 1 \in Int
    BY <1>1, <1>3, <1>6
  <2> DEFINE j == i + k - 1
  <2> HIDE DEF j
  <2>2. j \in 1..Len(body) /\ j > i /\ j <= e /\ j \in Int
    BY <2>1 DEF j
  <2>3. j \notin BlockStarts(body)
    <3> SUFFICES ASSUME j \in BlockStarts(body) PROVE FALSE
      OBVIOUS
    <3>1. NextStart(body, i) <= j
      BY <1>2, <2>2
    <3>2. NextStart(body, i) \in Int
      BY <1>2
    <3> QED
      BY <1>3, <2>2, <3>1, <3>2
  <2>4. body[j].shape # "block"
    BY <1>1, <2>2, <2>3 DEF BlockStarts
  <2> QED
    BY <1>6, <2>1, <2>4 DEF j
<1> QED
  BY <1>1, <1>3, <1>4, <1>6, <1>7, <1>8 DEF b, e

(* The last position accounted for by the pieces up to another. *)
LEMMA EndOfIs ==
  ASSUME NEW body \in Seq(Running)
  PROVE  /\ EndOf(body, 0) = 0 /\ EndOf(body, Len(body)) = Len(body)
         /\ \A i \in 1..Len(body) :
              /\ i \in BlockStarts(body)
                   => EndOf(body, i - 1) = i - 1 /\ EndOf(body, i) = NextStart(body, i) - 1
              /\ (\A j \in BlockStarts(body) : i < j)
                   => EndOf(body, i - 1) = i - 1 /\ EndOf(body, i) = i
              /\ i \notin BlockStarts(body) /\ ~(\A j \in BlockStarts(body) : i < j)
                   => EndOf(body, i) = EndOf(body, i - 1)
<1> DEFINE B == BlockStarts(body)
           n == Len(body)
<1>1. n \in Nat /\ B \in SUBSET (1..n)
  BY LenProperties DEF BlockStarts
<1>2. \A i \in 0..n : EndOf(body, i) = IF \E j \in B : j <= i THEN NextStart(body, i) - 1 ELSE i
  BY DEF EndOf
<1>3. \A i \in 0..n : /\ NextStart(body, i) \in (i + 1)..(n + 1)
                      /\ i + 1 \in B => NextStart(body, i) = i + 1
                      /\ i + 1 \notin B /\ i < n => NextStart(body, i) = NextStart(body, i + 1)
  BY NextStartIs
<1> HIDE DEF B, n
<1>4. EndOf(body, 0) = 0
  <2>1. 0 \in 0..n /\ \A j \in B : ~(j <= 0)
    BY <1>1
  <2> QED
    BY <1>2, <2>1
<1>5. EndOf(body, n) = n
  <2>1. n \in 0..n
    BY <1>1
  <2>2. NextStart(body, n) \in (n + 1)..(n + 1)
    BY <1>3, <2>1
  <2>3. NextStart(body, n) - 1 = n
    BY <1>1, <2>2
  <2> QED
    BY <1>2, <2>1, <2>3
<1>6. ASSUME NEW i \in 1..n
      PROVE  /\ i \in B => EndOf(body, i - 1) = i - 1 /\ EndOf(body, i) = NextStart(body, i) - 1
             /\ (\A j \in B : i < j) => EndOf(body, i - 1) = i - 1 /\ EndOf(body, i) = i
             /\ i \notin B /\ ~(\A j \in B : i < j) => EndOf(body, i) = EndOf(body, i - 1)
  <2> DEFINE h == i - 1
  <2>1. h \in 0..n /\ i \in 0..n /\ h + 1 = i /\ h < n /\ h < i /\ h \in Int /\ i \in Int
    BY <1>1
  <2> HIDE DEF h
  <2>2. /\ EndOf(body, h) = IF \E j \in B : j <= h THEN NextStart(body, h) - 1 ELSE h
        /\ EndOf(body, i) = IF \E j \in B : j <= i THEN NextStart(body, i) - 1 ELSE i
    BY <1>2, <2>1
  <2>3. /\ i \in B => NextStart(body, h) = i
        /\ i \notin B => NextStart(body, h) = NextStart(body, i)
    BY <1>3, <2>1
  <2>4. \A j \in B : j \in Int /\ (j <= h <=> j < i) /\ (j <= i <=> j < i \/ j = i) /\ (i < j <=> ~(j <= i))
    BY <1>1, <2>1
  <2>5. i - 1 = h
    BY DEF h
  <2>6. CASE i \in B
    <3>1. i <= i /\ ~(i < i)
      BY <2>1
    <3>2. EndOf(body, i) = NextStart(body, i) - 1
      BY <2>2, <2>6, <3>1
    <3>3. EndOf(body, h) = h
      BY <2>2, <2>3, <2>5, <2>6
    <3> QED
      BY <2>5, <2>6, <3>1, <3>2, <3>3
  <2>7. CASE i \notin B
    <3>1. (\E j \in B : j <= h) <=> (\E j \in B : j <= i)
      BY <2>4, <2>7
    <3>2. (\A j \in B : i < j) <=> ~(\E j \in B : j <= i)
      BY <2>4
    <3> QED
      BY <2>2, <2>3, <2>5, <2>7, <3>1, <3>2
  <2> QED
    BY <2>6, <2>7
<1> QED
  BY <1>4, <1>5, <1>6 DEF B, n

LEMMA JoinedStep ==
  ASSUME NEW X, NEW ss \in Seq(Seq(X)), NEW i \in 1..Len(ss)
  PROVE  Joined(SubSeq(ss, 1, i)) = Joined(SubSeq(ss, 1, i - 1)) \o ss[i]
<1> DEFINE a == SubSeq(ss, 1, i - 1)
           b == SubSeq(ss, 1, i)
<1>1. Len(ss) \in Nat /\ i \in Int /\ i - 1 \in Int /\ 1 \in Int
  OBVIOUS
<1>2. \A k \in 1..Len(ss) : ss[k] \in Seq(X)
  BY ElementOfSeq
<1>3. (\A k \in 1..(i - 1) : ss[k] \in Seq(X)) /\ (\A k \in 1..i : ss[k] \in Seq(X))
  BY <1>1, <1>2
<1>4. /\ a \in Seq(Seq(X)) /\ Len(a) = (IF 1 <= i - 1 THEN i - 1 - 1 + 1 ELSE 0)
      /\ \A k \in 1..(i - 1 - 1 + 1) : a[k] = ss[1 + k - 1]
  BY <1>1, <1>3, SubSeqProperties
<1>5. /\ b \in Seq(Seq(X)) /\ Len(b) = (IF 1 <= i THEN i - 1 + 1 ELSE 0)
      /\ \A k \in 1..(i - 1 + 1) : b[k] = ss[1 + k - 1]
  BY <1>1, <1>3, SubSeqProperties
<1> HIDE DEF a, b
<1>6. Len(a) = i - 1 /\ Len(b) = i
  BY <1>1, <1>4, <1>5
<1>7. \A k \in 1..Len(a) : b[k] = a[k]
  <2> SUFFICES ASSUME NEW k \in 1..Len(a) PROVE b[k] = a[k]
    OBVIOUS
  <2>1. k \in 1..(i - 1 - 1 + 1) /\ k \in 1..(i - 1 + 1) /\ 1 + k - 1 = k
    BY <1>1, <1>6
  <2> QED
    BY <1>4, <1>5, <2>1
<1>8. b[i] = ss[i]
  <2>1. i \in 1..(i - 1 + 1) /\ 1 + i - 1 = i
    BY <1>1
  <2> QED
    BY <1>5, <2>1
<1>9. Len(b) = Len(a) + 1
  BY <1>1, <1>6
<1>10. Joined(b) = Joined(a) \o b[Len(b)]
  BY <1>4, <1>5, <1>7, <1>9, JoinedLast
<1> QED
  BY <1>6, <1>8, <1>10 DEF a, b

LEMMA PieceType ==
  ASSUME NEW body \in Seq(Running), NEW i \in 1..Len(body)
  PROVE  Piece(body, i) \in Seq(Running)
<1>1. body[i] \in Running
  BY ElementOfSeq
<1>2. <<body[i]>> \in Seq(Running)
  BY <1>1
<1>3. << >> \in Seq(Running)
  BY EmptySeq
<1>4. CASE i \in BlockStarts(body)
  <2>1. /\ BlockAt(body, i) \in Seq(Running) /\ BlockAt(body, i) # << >>
        /\ \A k \in 2..Len(BlockAt(body, i)) : BlockAt(body, i)[k].shape # "block"
    BY <1>4, BlockAtIs
  <2>2. ReduceBlock(BlockAt(body, i)) \in Seq(Running)
    BY <2>1, ReduceKeeps
  <2> QED
    BY <1>4, <2>1, <2>2 DEF Piece
<1> QED
  BY <1>2, <1>3, <1>4 DEF Piece

(* prune_log: whatever is reduced, the ledger lines and the blocks' headings stay. *)
LEMMA PrunedKeeps ==
  ASSUME NEW body \in Seq(Running)
  PROVE  /\ Pruned(body) \in Seq(Running)
         /\ \A S \in KeptSets : Select(Pruned(body), S) = Select(body, S)
<1> DEFINE n == Len(body)
           pcs == [i \in DOMAIN body |-> Piece(body, i)]
           U(i) == Joined(SubSeq(pcs, 1, i))
           V(i) == SubSeq(body, 1, EndOf(body, i))
<1>1. n \in Nat /\ DOMAIN body = 1..n
  BY LenProperties
<1>2. pcs = [i \in 1..n |-> Piece(body, i)] /\ \A i \in 1..n : Piece(body, i) \in Seq(Running)
  BY <1>1, PieceType
<1>3. Pruned(body) = Joined(pcs)
  BY DEF Pruned
<1> HIDE DEF pcs
<1>4. pcs \in Seq(Seq(Running)) /\ Len(pcs) = n /\ \A i \in 1..n : pcs[i] = Piece(body, i)
  BY <1>1, <1>2
<1>5. Joined(pcs) \in Seq(Running) /\ U(n) = Joined(pcs) /\ U(0) = << >>
  <2>1. SubSeq(pcs, 1, n) = pcs
    BY <1>4, SubSeqFull
  <2>2. SubSeq(pcs, 1, 0) = << >>
    BY SubSeqEmpty
  <2> QED
    BY <1>4, <2>1, <2>2, JoinedType, JoinedEmpty
<1>6. \A i \in 1..n : U(i) = U(i - 1) \o Piece(body, i)
  BY <1>4, JoinedStep
<1>7. ASSUME NEW i \in 0..n PROVE U(i) \in Seq(Running)
  <2>1. 1 \in 1..(Len(pcs) + 1) /\ i \in 0..Len(pcs)
    BY <1>1, <1>4
  <2>2. SubSeq(pcs, 1, i) \in Seq(Seq(Running))
    BY <1>4, <2>1, StretchType
  <2> QED
    BY <2>2, JoinedType
<1> HIDE DEF U
<1>8. V(0) = << >> /\ V(n) = body
  BY EndOfIs, SubSeqEmpty, SubSeqFull
<1>9. ASSUME NEW S \in KeptSets PROVE Select(Joined(pcs), S) = Select(body, S)
  <2> DEFINE T == {i \in 0..n : Select(U(i), S) = Select(V(i), S)}
  <2>1. 0 \in T
    <3>1. 0 \in 0..n
      BY <1>1
    <3> QED
      BY <1>5, <1>8, <3>1
  <2>2. ASSUME NEW i \in 1..n, i - 1 \in T PROVE i \in T
    <3> DEFINE h == i - 1
               p == Piece(body, i)
               B == BlockStarts(body)
    <3>1. Select(U(h), S) = Select(V(h), S) /\ i \in 0..n /\ h \in 0..n /\ h \in Int
      BY <1>1, <2>2
    <3>2. U(h) \in Seq(Running) /\ p \in Seq(Running) /\ U(i) = U(h) \o p
      BY <1>2, <1>6, <1>7, <3>1
    <3> HIDE DEF h, p
    <3>3. Select(U(i), S) = Select(U(h), S) \o Select(p, S)
      BY <3>2, SelectConcat
    <3>4. Select(U(i), S) = Select(V(h), S) \o Select(p, S)
      BY <3>1, <3>3
    <3>5. CASE i \in B
      <4> DEFINE e == NextStart(body, i) - 1
                 b == BlockAt(body, i)
      <4>1. EndOf(body, h) = h /\ EndOf(body, i) = e
        BY <3>5, EndOfIs DEF h
      <4>2. /\ e \in i..n /\ b = SubSeq(body, i, e) /\ b \in Seq(Running)
            /\ b # << >> /\ b[1].shape = "block"
            /\ \A k \in 2..Len(b) : b[k].shape # "block"
        BY <3>5, BlockAtIs
      <4>3. p = b \/ p = ReduceBlock(b)
        BY <3>5 DEF p, Piece
      <4> HIDE DEF b, e
      <4>4. Select(ReduceBlock(b), S) = Select(b, S)
        BY <4>2, ReduceKeeps
      <4>5. Select(p, S) = Select(b, S)
        BY <4>3, <4>4
      <4>6. V(i) = V(h) \o b
        <5>1. SubSeq(body, 1, h) \o SubSeq(body, h + 1, e) = SubSeq(body, 1, e)
          <6>1. 1 \in 1..(Len(body) + 1) /\ h \in (1 - 1)..Len(body) /\ e \in h..Len(body)
            BY <1>1, <4>2 DEF h
          <6> QED
            BY <6>1, ConcatAdjacentSubSeq
        <5>2. h + 1 = i
          BY DEF h
        <5> QED
          BY <4>1, <4>2, <5>1, <5>2
      <4>7. V(h) \in Seq(Running)
        <5>1. 1 \in 1..(Len(body) + 1) /\ h \in 0..Len(body)
          BY <1>1, <3>1
        <5> QED
          BY <4>1, <5>1, StretchType
      <4> HIDE DEF V
      <4>8. Select(V(i), S) = Select(V(h), S) \o Select(b, S)
        <5>1. b \in Seq(Running) /\ V(h) \in Seq(Running)
          BY <4>2, <4>7
        <5>2. Select(V(h) \o b, S) = Select(V(h), S) \o Select(b, S)
          BY <5>1, SelectConcat
        <5> QED
          BY <4>6, <5>2
      <4>9. Select(U(i), S) = Select(V(i), S)
        BY <3>4, <4>5, <4>8
      <4> QED
        BY <3>1, <4>9
    <3>6. CASE \A j \in B : i < j
      <4> DEFINE b == <<body[i]>>
      <4>1. EndOf(body, h) = h /\ EndOf(body, i) = i
        BY <3>6, EndOfIs DEF h
      <4>2. i \notin B
        <5>1. ~(i < i)
          BY <1>1
        <5> QED
          BY <3>6, <5>1
      <4>3. p = b /\ body[i] \in Running
        BY <3>6, <4>2, ElementOfSeq DEF p, Piece
      <4>4. b \in Seq(Running)
        BY <4>3
      <4>5. V(i) = V(h) \o b
        <5>1. 1 \in 1..Len(body) /\ i \in 1..Len(body)
          BY <1>1
        <5>2. SubSeq(body, 1, i) = SubSeq(body, 1, i - 1) \o <<body[i]>>
          BY <5>1, SubSeqRecursiveSecond
        <5> QED
          BY <4>1, <5>2 DEF h
      <4>6. V(h) \in Seq(Running)
        <5>1. 1 \in 1..(Len(body) + 1) /\ h \in 0..Len(body)
          BY <1>1, <3>1
        <5> QED
          BY <4>1, <5>1, StretchType
      <4> HIDE DEF V, b
      <4>7. Select(V(i), S) = Select(V(h), S) \o Select(b, S)
        <5>1. Select(V(h) \o b, S) = Select(V(h), S) \o Select(b, S)
          BY <4>4, <4>6, SelectConcat
        <5> QED
          BY <4>5, <5>1
      <4>8. Select(U(i), S) = Select(V(i), S)
        BY <3>4, <4>3, <4>7
      <4> QED
        BY <3>1, <4>8
    <3>7. CASE i \notin B /\ ~(\A j \in B : i < j)
      <4>1. EndOf(body, i) = EndOf(body, h)
        BY <3>7, EndOfIs DEF h
      <4>2. p = << >>
        BY <3>7 DEF p, Piece
      <4>3. U(i) = U(h)
        BY <3>2, <4>2, ConcatEmptySeq
      <4>4. V(i) = V(h)
        BY <4>1
      <4> HIDE DEF V
      <4> QED
        BY <3>1, <4>3, <4>4
    <3> QED
      BY <3>5, <3>6, <3>7
  <2> HIDE DEF T
  <2>3. \A i \in 0..n : i \in T
    BY <1>1, <2>1, <2>2, UpTo
  <2>4. n \in T
    BY <1>1, <2>3
  <2> QED
    BY <1>5, <1>8, <2>4 DEF T
<1> QED
  BY <1>3, <1>5, <1>9

-----------------------------------------------------------------------------
(* A section between what stands before its header and after its lines: the    *)
(* edits of casefile.py change its lines only.                                 *)
Plain == {l \in Lines : ~IsHeader(l)}
Other(s) == {l \in Lines : l # Header(s)}
Cut(X) == FirstIndex({Len(X) + 1} \cup {i \in DOMAIN X : EndsSection(X[i])}) - 1
Before(X) == SubSeq(X, 1, Cut(X))
After(X) == SubSeq(X, Cut(X) + 1, Len(X))
Opened(s, pre) == pre \o <<Header(s)>>
Framed(s, pre, X, post) == Opened(s, pre) \o (X \o post)
Follows(post) == post \in Seq(Lines) /\ (post = << >> \/ IsHeader(post[1]))

LEMMA CutIs ==
  ASSUME NEW X \in Seq(Plain)
  PROVE  /\ Cut(X) \in 0..Len(X) /\ Len(X) \in Nat
         /\ \A i \in 1..Cut(X) : ~EndsSection(X[i])
         /\ Cut(X) < Len(X) => EndsSection(X[Cut(X) + 1])
         /\ Before(X) \in Seq(Plain) /\ After(X) \in Seq(Plain) /\ X = Before(X) \o After(X)
         /\ Len(Before(X)) = Cut(X)
<1> DEFINE n == Len(X) + 1
           S == {n} \cup {i \in DOMAIN X : EndsSection(X[i])}
           m == FirstIndex(S)
<1>1. Len(X) \in Nat /\ DOMAIN X = 1..Len(X)
  BY LenProperties
<1>2. n \in Nat /\ n \in S /\ S \in SUBSET (1..n)
  BY <1>1
<1>3. \A i \in S : i = n \/ EndsSection(X[i])
  OBVIOUS
<1>4. \A i \in 1..Len(X) : EndsSection(X[i]) => i \in S
  BY <1>1
<1>5. Cut(X) = m - 1
  BY DEF Cut
<1> HIDE DEF S
<1>6. m \in S /\ \A y \in S : m <= y
  <2> HIDE DEF n
  <2> QED
    BY <1>2, FirstIndexIs
<1> HIDE DEF m
<1>7. m \in 1..(Len(X) + 1) /\ Cut(X) \in 0..Len(X) /\ Cut(X) + 1 = m
  BY <1>1, <1>2, <1>5, <1>6
<1>8. ASSUME NEW i \in 1..Cut(X) PROVE ~EndsSection(X[i])
  <2>1. i \in 1..Len(X) /\ ~(m <= i)
    BY <1>1, <1>7
  <2> QED
    BY <1>4, <1>6, <2>1
<1>9. ASSUME Cut(X) < Len(X) PROVE EndsSection(X[Cut(X) + 1])
  <2>1. m # n
    BY <1>1, <1>7, <1>9
  <2> QED
    BY <1>3, <1>6, <1>7, <2>1
<1>10. Before(X) \in Seq(Plain) /\ After(X) \in Seq(Plain)
  <2>1. /\ 1 \in 1..(Len(X) + 1) /\ Cut(X) \in 0..Len(X)
        /\ Cut(X) + 1 \in 1..(Len(X) + 1) /\ Len(X) \in 0..Len(X)
    BY <1>1, <1>7
  <2> QED
    BY <2>1, StretchType DEF Before, After
<1>11. X = Before(X) \o After(X)
  <2>1. /\ 1 \in 1..(Len(X) + 1) /\ Cut(X) \in (1 - 1)..Len(X) /\ Len(X) \in Cut(X)..Len(X)
    BY <1>1, <1>7
  <2>2. Before(X) \o After(X) = SubSeq(X, 1, Len(X))
    BY <2>1, ConcatAdjacentSubSeq DEF Before, After
  <2> QED
    BY <2>2, SubSeqFull
<1>12. Len(Before(X)) = Cut(X)
  <2>1. 1 \in Int /\ Cut(X) \in Int /\ \A i \in 1..Cut(X) : X[i] \in Plain
    BY <1>1, <1>7, ElementOfSeq
  <2>2. Len(Before(X)) = IF 1 <= Cut(X) THEN Cut(X) - 1 + 1 ELSE 0
    BY <2>1, SubSeqProperties DEF Before
  <2> QED
    BY <1>7, <2>2
<1> QED
  BY <1>1, <1>7, <1>8, <1>9, <1>10, <1>11, <1>12

(* Where the lines of such a file are. *)
LEMMA FramePlaces ==
  ASSUME NEW s \in SectionSet, NEW pre \in Seq(Other(s)), NEW X \in Seq(Plain),
         NEW post, Follows(post), NEW ls, ls = Framed(s, pre, X, post)
  PROVE  /\ ls \in Seq(Lines) /\ Len(pre) \in Nat /\ Len(X) \in Nat /\ Len(post) \in Nat
         /\ Len(ls) = Len(pre) + 1 + Len(X) + Len(post) /\ DOMAIN ls = 1..Len(ls)
         /\ \A i \in 1..Len(pre) : ls[i] # Header(s)
         /\ ls[Len(pre) + 1] = Header(s)
         /\ \A i \in 1..Len(X) : ls[Len(pre) + 1 + i] = X[i] /\ X[i] \in Plain
         /\ Len(post) > 0 => IsHeader(ls[Len(pre) + 1 + Len(X) + 1])
         /\ Opened(s, pre) \in Seq(Lines) /\ Len(Opened(s, pre)) = Len(pre) + 1
         /\ X \in Seq(Lines) /\ post \in Seq(Lines)
<1> DEFINE H == <<Header(s)>>
           u == pre \o H
           v == X \o post
           p == Len(pre)
<1>1. Header(s) \in Lines
  BY DEF Header, Line, Lines, Shapes, Marks
<1>2. H \in Seq(Lines) /\ Len(H) = 1 /\ H[1] = Header(s)
  BY <1>1
<1>3. Other(s) \subseteq Lines /\ Plain \subseteq Lines
  BY DEF Other, Plain
<1>4. pre \in Seq(Lines) /\ X \in Seq(Lines) /\ post \in Seq(Lines)
  BY <1>3, SeqMonotonic DEF Follows
<1> HIDE DEF H
<1>5. /\ u \in Seq(Lines) /\ Len(u) = Len(pre) + Len(H)
      /\ \A i \in 1..Len(pre) + Len(H) : u[i] = IF i <= Len(pre) THEN pre[i] ELSE H[i - Len(pre)]
  BY <1>2, <1>4, ConcatProperties
<1>6. /\ v \in Seq(Lines) /\ Len(v) = Len(X) + Len(post)
      /\ \A i \in 1..Len(X) + Len(post) : v[i] = IF i <= Len(X) THEN X[i] ELSE post[i - Len(X)]
  BY <1>4, ConcatProperties
<1>7. p \in Nat /\ Len(X) \in Nat /\ Len(post) \in Nat
  BY <1>4, LenProperties
<1>8. \A i \in 1..p : pre[i] # Header(s)
  BY ElementOfSeq DEF Other
<1>9. \A i \in 1..Len(X) : X[i] \in Plain
  BY ElementOfSeq
<1>10. Len(post) > 0 => IsHeader(post[1])
  <2>1. post = << >> => Len(post) = 0
    BY EmptySeq
  <2> QED
    BY <2>1 DEF Follows
<1>11. ls = u \o v
  BY DEF H, Framed, Opened
<1> HIDE DEF u, v
<1>12. /\ ls \in Seq(Lines) /\ Len(ls) = Len(u) + Len(v)
       /\ \A i \in 1..Len(u) + Len(v) : ls[i] = IF i <= Len(u) THEN u[i] ELSE v[i - Len(u)]
  <2>1. u \in Seq(Lines) /\ v \in Seq(Lines)
    BY <1>5, <1>6
  <2> DEFINE w == u \o v
  <2>2. /\ w \in Seq(Lines) /\ Len(w) = Len(u) + Len(v)
        /\ \A i \in 1..Len(u) + Len(v) : w[i] = IF i <= Len(u) THEN u[i] ELSE v[i - Len(u)]
    BY <2>1, ConcatProperties
  <2> HIDE DEF w
  <2>3. ls = w
    BY <1>11 DEF w
  <2> QED
    BY <2>2, <2>3
<1> HIDE DEF p
<1>13. Len(u) = p + 1 /\ Len(ls) = p + 1 + Len(X) + Len(post) /\ p = Len(pre)
  BY <1>2, <1>5, <1>6, <1>7, <1>12 DEF p
<1>14. ASSUME NEW i \in 1..p PROVE ls[i] # Header(s)
  <2>1. i \in 1..Len(u) + Len(v) /\ i <= Len(u) /\ i \in 1..Len(pre) + Len(H) /\ i <= Len(pre)
    BY <1>2, <1>6, <1>7, <1>13
  <2>2. ls[i] = pre[i]
    BY <1>5, <1>12, <2>1
  <2> QED
    BY <1>8, <2>2
<1>15. ls[p + 1] = Header(s)
  <2>1. /\ p + 1 \in 1..Len(u) + Len(v) /\ p + 1 <= Len(u)
        /\ p + 1 \in 1..Len(pre) + Len(H) /\ ~(p + 1 <= Len(pre)) /\ p + 1 - Len(pre) = 1
    BY <1>2, <1>6, <1>7, <1>13
  <2> QED
    BY <1>2, <1>5, <1>12, <2>1
<1>16. ASSUME NEW i \in 1..Len(X) PROVE ls[p + 1 + i] = X[i]
  <2> DEFINE k == p + 1 + i
  <2>1. /\ k \in 1..Len(u) + Len(v) /\ ~(k <= Len(u)) /\ k - Len(u) = i
        /\ i \in 1..Len(X) + Len(post) /\ i <= Len(X)
    BY <1>6, <1>7, <1>13
  <2> HIDE DEF k
  <2>2. ls[k] = X[i]
    BY <1>6, <1>12, <2>1
  <2> QED
    BY <2>2 DEF k
<1>17. ASSUME Len(post) > 0 PROVE IsHeader(ls[p + 1 + Len(X) + 1])
  <2> DEFINE i == Len(X) + 1
             k == p + 1 + Len(X) + 1
  <2>1. /\ k \in 1..Len(u) + Len(v) /\ ~(k <= Len(u)) /\ k - Len(u) = i
        /\ i \in 1..Len(X) + Len(post) /\ ~(i <= Len(X)) /\ i - Len(X) = 1
    BY <1>6, <1>7, <1>13, <1>17
  <2> HIDE DEF i, k
  <2>2. ls[k] = post[1]
    BY <1>6, <1>12, <2>1
  <2> QED
    BY <1>10, <1>17, <2>2 DEF k
<1>18. DOMAIN ls = 1..Len(ls)
  BY <1>12, LenProperties
<1> QED
  BY <1>4, <1>5, <1>7, <1>9, <1>12, <1>13, <1>14, <1>15, <1>16, <1>17, <1>18 DEF u, H, Opened

(* section_span finds the section, and SectionOf all that is in it. *)
LEMMA FrameSection ==
  ASSUME NEW s \in SectionSet, NEW pre \in Seq(Other(s)), NEW X \in Seq(Plain),
         NEW post, Follows(post), NEW ls, ls = Framed(s, pre, X, post)
  PROVE  /\ HasSection(ls, s) /\ SectionStart(ls, s) = Len(pre) + 1
         /\ SectionEnd(ls, s) = Len(pre) + 2 + Cut(X)
         /\ SectionOf(ls, s) = X
<1> DEFINE p == Len(pre)
           c == Cut(X)
           k == Len(X)
           q == Len(post)
           z == Len(ls)
           D == DOMAIN ls
<1>1. p \in Nat /\ k \in Nat /\ q \in Nat /\ c \in 0..k /\ z = p + 1 + k + q
  BY FramePlaces, CutIs
<1>2. D = 1..z /\ ls[p + 1] = Header(s) /\ \A i \in 1..p : ls[i] # Header(s)
  BY FramePlaces
<1>3. /\ \A i \in 1..k : ls[p + 1 + i] = X[i] /\ X[i] \in Plain
      /\ q > 0 => IsHeader(ls[p + 1 + k + 1])
  BY FramePlaces
<1>4. (\A i \in 1..c : ~EndsSection(X[i])) /\ (c < k => EndsSection(X[c + 1]))
  BY CutIs
<1>5. (\A l : IsHeader(l) => EndsSection(l)) /\ \A l \in Plain : ~IsHeader(l)
  BY DEF IsHeader, EndsSection, Plain
<1> DEFINE from == p + 1
           n == z + 1
           S == {i \in D : ls[i] = Header(s)}
           E == {n} \cup {i \in D : i > from /\ EndsSection(ls[i])}
           N == {n} \cup {i \in D : i > from /\ IsHeader(ls[i])}
<1>6. /\ SectionStart(ls, s) = FirstIndex(S) /\ (HasSection(ls, s) <=> S # {})
      /\ SectionStart(ls, s) = from =>
           /\ SectionEnd(ls, s) = FirstIndex(E)
           /\ SectionOf(ls, s) = SubSeq(ls, from + 1, FirstIndex(N) - 1)
  BY DEF SectionStart, HasSection, SectionEnd, SectionOf
<1>7. Opened(s, pre) \in Seq(Lines) /\ Len(Opened(s, pre)) = from /\ X \in Seq(Lines) /\ post \in Seq(Lines)
  BY FramePlaces
<1> HIDE DEF p, c, k, q, z, D
<1>8. FirstIndex(S) = from /\ from \in S
  <2>1. from \in S /\ S \in SUBSET (1..z) /\ z \in Nat /\ from \in Int
    BY <1>1, <1>2
  <2>2. ASSUME NEW y \in S PROVE from <= y
    <3>1. y \in 1..z /\ y \notin 1..p
      BY <1>2
    <3> QED
      BY <1>1, <3>1
  <2> HIDE DEF S, from
  <2> QED
    BY <2>1, <2>2, FirstIndexBy
<1>9. FirstIndex(E) = from + 1 + c
  <2> DEFINE x == from + 1 + c
  <2>1. x \in 1..n /\ n \in Nat /\ x > from /\ (x = n \/ x \in 1..z) /\ x \in Int /\ from \in Int
    BY <1>1
  <2>2. E \in SUBSET (1..n)
    BY <1>1, <1>2
  <2>3. x = n \/ EndsSection(ls[x])
    <3>1. CASE c < k
      <4> DEFINE i == c + 1
      <4>1. i \in 1..k /\ p + 1 + i = x
        BY <1>1, <3>1
      <4>2. EndsSection(X[i])
        BY <1>4, <3>1
      <4> HIDE DEF i, x
      <4>3. ls[p + 1 + i] = X[i]
        BY <1>3, <4>1
      <4> QED
        BY <4>1, <4>2, <4>3
    <3>2. CASE c = k /\ q > 0
      <4>1. p + 1 + k + 1 = x
        BY <1>1, <3>2
      <4> QED
        BY <1>3, <1>5, <3>2, <4>1
    <3>3. CASE c = k /\ ~(q > 0)
      <4>1. x = n
        BY <1>1, <3>3
      <4> QED
        BY <4>1
    <3>4. c < k \/ c = k
      BY <1>1
    <3> QED
      BY <3>1, <3>2, <3>3, <3>4
  <2> HIDE DEF x
  <2>4. x \in E
    BY <1>2, <2>1, <2>3
  <2>5. ASSUME NEW y \in E PROVE x <= y
    <3>1. CASE y = n
      BY <2>1, <3>1
    <3>2. CASE y # n
      <4>1. y \in 1..z /\ y > from /\ EndsSection(ls[y])
        BY <1>2, <3>2
      <4> SUFFICES ASSUME y < x PROVE FALSE
        BY <2>1, <4>1
      <4> DEFINE i == y - from
      <4>2. i \in 1..c /\ i \in 1..k /\ p + 1 + i = y
        BY <1>1, <4>1 DEF x
      <4> HIDE DEF i
      <4>3. ls[p + 1 + i] = X[i] /\ ~EndsSection(X[i])
        BY <1>3, <1>4, <4>2
      <4> QED
        BY <4>1, <4>2, <4>3
    <3> QED
      BY <3>1, <3>2
  <2> HIDE DEF E, n
  <2>6. FirstIndex(E) = x
    BY <2>1, <2>2, <2>4, <2>5, FirstIndexBy
  <2> QED
    BY <2>6 DEF x
<1>10. FirstIndex(N) = from + 1 + k
  <2> DEFINE x == from + 1 + k
  <2>1. x \in 1..n /\ n \in Nat /\ x > from /\ (x = n \/ x \in 1..z) /\ x \in Int /\ from \in Int
    BY <1>1
  <2>2. N \in SUBSET (1..n)
    BY <1>1, <1>2
  <2>3. x = n \/ IsHeader(ls[x])
    <3>1. CASE q > 0
      <4>1. p + 1 + k + 1 = x
        BY <1>1
      <4> QED
        BY <1>3, <3>1, <4>1
    <3>2. CASE ~(q > 0)
      <4>1. x = n
        BY <1>1, <3>2
      <4> QED
        BY <4>1
    <3> QED
      BY <3>1, <3>2
  <2> HIDE DEF x
  <2>4. x \in N
    BY <1>2, <2>1, <2>3
  <2>5. ASSUME NEW y \in N PROVE x <= y
    <3>1. CASE y = n
      BY <2>1, <3>1
    <3>2. CASE y # n
      <4>1. y \in 1..z /\ y > from /\ IsHeader(ls[y])
        BY <1>2, <3>2
      <4> SUFFICES ASSUME y < x PROVE FALSE
        BY <2>1, <4>1
      <4> DEFINE i == y - from
      <4>2. i \in 1..k /\ p + 1 + i = y
        BY <1>1, <4>1 DEF x
      <4> HIDE DEF i
      <4>3. ls[p + 1 + i] = X[i] /\ X[i] \in Plain
        BY <1>3, <4>2
      <4> QED
        BY <1>5, <4>1, <4>2, <4>3
    <3> QED
      BY <3>1, <3>2
  <2> HIDE DEF N, n
  <2>6. FirstIndex(N) = x
    BY <2>1, <2>2, <2>4, <2>5, FirstIndexBy
  <2> QED
    BY <2>6 DEF x
<1>11. SubSeq(ls, from + 1, FirstIndex(N) - 1) = X
  <2> DEFINE u == Opened(s, pre)
  <2>1. u \in Seq(Lines) /\ X \in Seq(Lines) /\ post \in Seq(Lines) /\ Len(u) = from
    BY <1>7
  <2>2. ls = u \o (X \o post)
    BY DEF Framed
  <2> HIDE DEF u
  <2>3. SubSeq(u \o (X \o post), Len(u) + 1, Len(u) + Len(X)) = X
    BY <2>1, CutBack
  <2>4. FirstIndex(N) - 1 = from + k
    BY <1>1, <1>10
  <2> QED
    BY <2>1, <2>2, <2>3, <2>4 DEF k
<1>12. S # {}
  BY <1>8
<1> HIDE DEF S, E, N
<1>13. /\ HasSection(ls, s) /\ SectionStart(ls, s) = from
       /\ SectionEnd(ls, s) = from + 1 + c /\ SectionOf(ls, s) = X
  BY <1>6, <1>8, <1>9, <1>11, <1>12
<1>14. from + 1 + c = p + 2 + c
  BY <1>1
<1> QED
  BY <1>13, <1>14 DEF p, c

(* add_finding and replace_section change the lines of the section only. *)
LEMMA FrameEdits ==
  ASSUME NEW s \in SectionSet, NEW pre \in Seq(Other(s)), NEW X \in Seq(Plain),
         NEW post, Follows(post), NEW ls, ls = Framed(s, pre, X, post),
         NEW e \in Seq(Plain)
  PROVE  /\ SectionBody(ls, s) = Before(X)
         /\ Add(ls, s, e) = Framed(s, pre, Before(X) \o (e \o After(X)), post)
         /\ ReplaceSection(ls, s, e) = Framed(s, pre, e \o After(X), post)
<1> DEFINE u == Opened(s, pre)
           b == Before(X)
           a == After(X)
           w == a \o post
           ub == u \o b
           m == Len(pre)
           c == Cut(X)
<1>1. m \in Nat /\ u \in Seq(Lines) /\ post \in Seq(Lines) /\ Len(u) = m + 1
  BY FramePlaces
<1>2. SectionStart(ls, s) = m + 1 /\ SectionEnd(ls, s) = m + 2 + c
  BY FrameSection
<1>3. c \in 0..Len(X) /\ Len(X) \in Nat /\ Len(b) = c /\ X = b \o a
  BY CutIs
<1>4. b \in Seq(Lines) /\ a \in Seq(Lines) /\ e \in Seq(Lines)
  <2>1. b \in Seq(Plain) /\ a \in Seq(Plain)
    BY CutIs
  <2>2. Plain \subseteq Lines
    BY DEF Plain
  <2> HIDE DEF b, a
  <2> QED
    BY <2>1, <2>2, SeqMonotonic
<1>5. ls = u \o ((b \o a) \o post)
  BY <1>3 DEF Framed
<1> HIDE DEF u, a, b, m, c
<1>6. u \in Seq(Lines) /\ b \in Seq(Lines) /\ a \in Seq(Lines) /\ e \in Seq(Lines) /\ post \in Seq(Lines)
  BY <1>1, <1>4
<1> DEFINE Ls == Seq(Lines)
<1>as. \A x, y, z \in Ls : Glued(x, y, z)
  BY GluedIs
<1> HIDE DEF Ls
<1>at. /\ u \in Ls /\ b \in Ls /\ a \in Ls /\ e \in Ls /\ post \in Ls
  BY <1>6 DEF Ls
<1>7. w \in Seq(Lines) /\ ub \in Seq(Lines) /\ Len(ub) = Len(u) + Len(b)
  BY <1>6, ConcatProperties
<1>8. (b \o a) \o post = b \o w
  <2>1. Glued(b, a, post)
    BY <1>as, <1>at
  <2> QED
    BY <2>1 DEF Glued
<1> HIDE DEF w
<1>9. w \in Seq(Lines) /\ w \in Ls
  BY <1>7 DEF Ls
<1>10. u \o (b \o w) = ub \o w
  <2>1. Glued(u, b, w)
    BY <1>as, <1>at, <1>9
  <2> QED
    BY <2>1 DEF Glued
<1>ub. \A y \in Ls : ub \o y = u \o (b \o y)
  <2>1. ASSUME NEW y \in Ls PROVE Glued(u, b, y)
    BY <1>as, <1>at
  <2> QED
    BY <2>1 DEF Glued
<1> HIDE DEF ub
<1>11. ub \in Seq(Lines) /\ ub \in Ls
  BY <1>7 DEF Ls
<1>12. ls = u \o (b \o w) /\ ls = ub \o w
  BY <1>5, <1>8, <1>10
<1>13. /\ SubSeq(u \o (b \o w), 1, Len(u)) = u
       /\ SubSeq(u \o (b \o w), Len(u) + 1, Len(u) + Len(b)) = b
  <2>1. u \in Seq(Lines) /\ b \in Seq(Lines) /\ w \in Seq(Lines)
    BY <1>6, <1>9
  <2> QED
    BY <2>1, CutBack
<1>14. SubSeq(ub \o w, Len(ub) + 1, Len(ub \o w)) = w
  BY <1>9, <1>11, CutBack
<1>15. SubSeq(ub \o w, 1, Len(ub)) = ub
  <2>1. << >> \in Seq(Lines)
    BY EmptySeq
  <2>2. w \o << >> = w
    BY <1>9, ConcatEmptySeq
  <2> DEFINE nil == << >>
  <2> HIDE DEF nil
  <2>3. SubSeq(ub \o (w \o nil), 1, Len(ub)) = ub
    <3>1. nil \in Seq(Lines)
      BY <2>1 DEF nil
    <3> QED
      BY <1>9, <1>11, <3>1, CutBack
  <2> QED
    BY <2>2, <2>3 DEF nil
<1> DEFINE from == SectionStart(ls, s) + 1
           to == SectionEnd(ls, s)
<1>16. /\ from = Len(u) + 1 /\ to - 1 = Len(u) + Len(b) /\ to = Len(ub) + 1
       /\ to - 1 = Len(ub) /\ from - 1 = Len(u)
  BY <1>1, <1>2, <1>3, <1>7
<1>17. SectionBody(ls, s) = b
  <2>1. SectionBody(ls, s) = SubSeq(ls, from, to - 1)
    BY DEF SectionBody
  <2> HIDE DEF from, to
  <2> QED
    BY <1>12, <1>13, <1>16, <2>1
<1>18. Add(ls, s, e) = (ub \o e) \o w
  <2>1. Add(ls, s, e) = (SubSeq(ls, 1, to - 1) \o e) \o SubSeq(ls, to, Len(ls))
    BY DEF Add, Splice
  <2> HIDE DEF from, to
  <2> QED
    BY <1>12, <1>14, <1>15, <1>16, <2>1
<1>19. ReplaceSection(ls, s, e) = (u \o e) \o w
  <2>1. ReplaceSection(ls, s, e) = (SubSeq(ls, 1, from - 1) \o e) \o SubSeq(ls, to, Len(ls))
    BY DEF ReplaceSection, Splice
  <2> HIDE DEF from, to
  <2>2. SubSeq(ls, 1, from - 1) = u /\ SubSeq(ls, to, Len(ls)) = w
    BY <1>12, <1>13, <1>14, <1>16
  <2> QED
    BY <2>1, <2>2
<1> DEFINE ea == e \o a
           ew == e \o w
<1>20. ea \in Ls /\ ew \in Ls
  BY <1>6, <1>9, ConcatProperties DEF Ls
<1>21. ea \o post = ew
  <2>1. Glued(e, a, post)
    BY <1>as, <1>at
  <2> QED
    BY <2>1 DEF Glued, w
<1>22. (u \o e) \o w = u \o ew /\ (ub \o e) \o w = ub \o ew
  <2>1. u \in Ls /\ ub \in Ls /\ e \in Ls /\ w \in Ls
    BY <1>at, <1>9, <1>11
  <2>2. Glued(u, e, w) /\ Glued(ub, e, w)
    BY <1>as, <2>1
  <2> QED
    BY <2>2 DEF Glued, ew
<1> HIDE DEF ea, ew
<1>23. ub \o ew = u \o (b \o ew) /\ (b \o ea) \o post = b \o ew
  <2>1. ub \o ew = u \o (b \o ew)
    BY <1>ub, <1>20
  <2>2. (b \o ea) \o post = b \o (ea \o post)
    <3>1. Glued(b, ea, post)
      BY <1>as, <1>at, <1>20
    <3> QED
      BY <3>1 DEF Glued
  <2> QED
    BY <1>21, <2>1, <2>2
<1>24. Add(ls, s, e) = Framed(s, pre, b \o ea, post)
  BY <1>18, <1>22, <1>23 DEF Framed, u
<1>25. ReplaceSection(ls, s, e) = Framed(s, pre, ea, post)
  BY <1>19, <1>21, <1>22 DEF Framed, u
<1> QED
  BY <1>17, <1>24, <1>25 DEF ea, b, a

-----------------------------------------------------------------------------
(* The file as its four sections, each a header and the lines put under it.    *)
Bodies == [SectionSet -> Seq(Plain)]
Titled(s, X) == <<Header(s)>> \o X
File(f) ==
  Titled("facts", f["facts"]) \o
    (Titled("hypotheses", f["hypotheses"]) \o
       (Titled("todo", f["todo"]) \o Titled("log", f["log"])))

(* The four headers differ. *)
LEMMA HeaderIs ==
  ASSUME NEW s \in SectionSet
  PROVE  /\ Header(s) \in Lines /\ IsHeader(Header(s)) /\ Header(s) \notin Plain
         /\ \A t \in SectionSet : Header(t) = Header(s) => t = s
  BY DEF Header, Line, Lines, Shapes, Marks, IsHeader, Plain, SectionSet

(* A section begins with its header and has no other. *)
LEMMA TitledIs ==
  ASSUME NEW s \in SectionSet, NEW X \in Seq(Plain)
  PROVE  /\ Titled(s, X) \in Seq(Lines) /\ Titled(s, X) # << >>
         /\ \A Z \in Seq(Lines) : Follows(Titled(s, X) \o Z)
         /\ Follows(Titled(s, X))
         /\ \A t \in SectionSet \ {s} : Titled(s, X) \in Seq(Other(t))
<1> DEFINE H == <<Header(s)>>
           T == H \o X
<1>1. H \in Seq(Lines) /\ Len(H) = 1 /\ H[1] = Header(s)
  BY HeaderIs
<1>2. X \in Seq(Lines)
  <2>1. Plain \subseteq Lines
    BY DEF Plain
  <2> QED
    BY <2>1, SeqMonotonic
<1>3. ASSUME NEW t \in SectionSet \ {s} PROVE H \in Seq(Other(t)) /\ X \in Seq(Other(t))
  <2>1. Header(s) \in Other(t)
    BY HeaderIs DEF Other
  <2>2. Plain \subseteq Other(t)
    BY HeaderIs DEF Other, Plain
  <2> QED
    BY <2>1, <2>2, SeqMonotonic
<1> HIDE DEF H
<1>4. /\ T \in Seq(Lines) /\ Len(T) = Len(H) + Len(X)
      /\ \A i \in 1..Len(H) + Len(X) : T[i] = IF i <= Len(H) THEN H[i] ELSE X[i - Len(H)]
  BY <1>1, <1>2, ConcatProperties
<1>5. ASSUME NEW t \in SectionSet \ {s} PROVE T \in Seq(Other(t))
  BY <1>3, ConcatProperties
<1> HIDE DEF T
<1>6. Len(X) \in Nat
  BY <1>2, LenProperties
<1>7. Len(T) \in Nat /\ Len(T) > 0 /\ T[1] = Header(s)
  <2>1. 1 \in 1..Len(H) + Len(X) /\ 1 <= Len(H)
    BY <1>1, <1>6
  <2> QED
    BY <1>1, <1>4, <1>6, <2>1
<1>8. T # << >>
  BY <1>7, EmptySeq
<1>9. ASSUME NEW Z \in Seq(Lines) PROVE Follows(T \o Z)
  <2> DEFINE W == T \o Z
  <2>0. T \in Seq(Lines) /\ Z \in Seq(Lines)
    BY <1>4
  <2>1. /\ W \in Seq(Lines) /\ Len(W) = Len(T) + Len(Z)
        /\ \A i \in 1..Len(T) + Len(Z) : W[i] = IF i <= Len(T) THEN T[i] ELSE Z[i - Len(T)]
    BY <2>0, ConcatProperties
  <2> HIDE DEF W
  <2>2. Len(Z) \in Nat
    BY LenProperties
  <2>3. 1 \in 1..Len(T) + Len(Z) /\ 1 <= Len(T)
    BY <1>7, <2>2
  <2>4. W[1] = Header(s)
    BY <1>7, <2>1, <2>3
  <2>5. IsHeader(W[1])
    BY <2>4, HeaderIs
  <2>6. Follows(W)
    BY <2>1, <2>5 DEF Follows
  <2> QED
    BY <2>6 DEF W
<1>10. Follows(T)
  <2>1. IsHeader(T[1])
    BY <1>7, HeaderIs
  <2> QED
    BY <1>4, <2>1 DEF Follows
<1> QED
  BY <1>4, <1>5, <1>8, <1>9, <1>10 DEF T, H, Titled

(* A title, its lines and what follows, and the same behind a start. *)
LEMMA FrameBehind ==
  ASSUME NEW s \in SectionSet, NEW pre \in Seq(Lines), NEW X \in Seq(Plain), NEW post \in Seq(Lines)
  PROVE  /\ pre \o (Titled(s, X) \o post) = Framed(s, pre, X, post)
         /\ Titled(s, X) \o post = Framed(s, << >>, X, post)
         /\ pre \o Titled(s, X) = Framed(s, pre, X, << >>)
<1> DEFINE H == <<Header(s)>>
           Ls == Seq(Lines)
           nil == << >>
           Xp == X \o post
<1>1. \A x, y, z \in Ls : Glued(x, y, z)
  BY GluedIs
<1>c. \A x, y \in Ls : x \o y \in Ls
  BY ConcatProperties
<1>e. \A x \in Ls : x \o nil = x /\ nil \o x = x
  BY ConcatEmptySeq
<1>2. H \in Ls /\ pre \in Ls /\ post \in Ls /\ nil \in Ls
  BY HeaderIs, EmptySeq
<1>3. X \in Ls
  <2>1. Plain \subseteq Lines
    BY DEF Plain
  <2> QED
    BY <2>1, SeqMonotonic
<1>f. /\ Titled(s, X) = H \o X
      /\ Framed(s, pre, X, post) = (pre \o H) \o Xp
      /\ Framed(s, nil, X, post) = (nil \o H) \o Xp
      /\ Framed(s, pre, X, nil) = (pre \o H) \o (X \o nil)
  BY DEF Titled, Framed, Opened
<1> HIDE DEF H, Ls, nil
<1>4. (H \o X) \o post = H \o Xp
  <2>1. Glued(H, X, post)
    BY <1>1, <1>2, <1>3
  <2> QED
    BY <2>1 DEF Glued
<1>5. Xp \in Ls
  BY <1>c, <1>2, <1>3
<1> HIDE DEF Xp
<1>6. (pre \o H) \o Xp = pre \o (H \o Xp)
  <2>1. Glued(pre, H, Xp)
    BY <1>1, <1>2, <1>5
  <2> QED
    BY <2>1 DEF Glued
<1>7. (pre \o H) \o X = pre \o (H \o X)
  <2>1. Glued(pre, H, X)
    BY <1>1, <1>2, <1>3
  <2> QED
    BY <2>1 DEF Glued
<1>11. X \o nil = X /\ nil \o H = H
  BY <1>e, <1>2, <1>3
<1>8. Titled(s, X) \o post = Framed(s, nil, X, post)
  BY <1>f, <1>4, <1>11
<1>9. pre \o (Titled(s, X) \o post) = Framed(s, pre, X, post)
  BY <1>f, <1>4, <1>6
<1>10. pre \o Titled(s, X) = Framed(s, pre, X, nil)
  BY <1>f, <1>7, <1>11
<1> QED
  BY <1>8, <1>9, <1>10 DEF nil

(* Each section of the file is framed by the others, whatever its lines are.   *)
LEMMA FileFrames ==
  ASSUME NEW f \in Bodies, NEW s \in SectionSet
  PROVE  \E pre \in Seq(Other(s)), post \in Seq(Other(s)) :
           /\ Follows(post)
           /\ \A X \in Seq(Plain) : File([f EXCEPT ![s] = X]) = Framed(s, pre, X, post)
<1> DEFINE a == Titled("facts", f["facts"])
           b == Titled("hypotheses", f["hypotheses"])
           c == Titled("todo", f["todo"])
           d == Titled("log", f["log"])
           Ls == Seq(Lines)
<1>1. /\ a \in Ls /\ b \in Ls /\ c \in Ls /\ d \in Ls
      /\ Follows(d) /\ (\A Z \in Ls : Follows(b \o Z) /\ Follows(c \o Z))
  BY TitledIs DEF Bodies, SectionSet
<1>2. /\ \A t \in SectionSet \ {"facts"} : a \in Seq(Other(t))
      /\ \A t \in SectionSet \ {"hypotheses"} : b \in Seq(Other(t))
      /\ \A t \in SectionSet \ {"todo"} : c \in Seq(Other(t))
      /\ \A t \in SectionSet \ {"log"} : d \in Seq(Other(t))
  BY TitledIs DEF Bodies, SectionSet
<1>3. ASSUME NEW X
      PROVE  /\ File([f EXCEPT !["facts"] = X]) = Titled("facts", X) \o (b \o (c \o d))
             /\ File([f EXCEPT !["hypotheses"] = X]) = a \o (Titled("hypotheses", X) \o (c \o d))
             /\ File([f EXCEPT !["todo"] = X]) = a \o (b \o (Titled("todo", X) \o d))
             /\ File([f EXCEPT !["log"] = X]) = a \o (b \o (c \o Titled("log", X)))
  BY DEF File, Bodies, SectionSet
<1>s. {"facts", "hypotheses", "todo", "log"} = SectionSet
  BY DEF SectionSet
<1> HIDE DEF a, b, c, d
<1> DEFINE cd == c \o d
           ab == a \o b
<1>as. \A x, y, z \in Ls : Glued(x, y, z)
  BY GluedIs
<1>c. \A x, y \in Ls : x \o y \in Ls
  BY ConcatProperties
<1>4. ASSUME NEW X \in Seq(Plain), NEW t \in SectionSet PROVE Titled(t, X) \in Ls
  BY TitledIs
<1>5. CASE s = "facts"
  <2> DEFINE post == b \o cd
             pre == << >>
  <2>1. cd \in Ls
    BY <1>1, <1>c
  <2>a. b \in Seq(Other(s)) /\ c \in Seq(Other(s)) /\ d \in Seq(Other(s))
    BY <1>2, <1>5, <1>s
  <2>b. cd \in Seq(Other(s))
    BY <2>a, ConcatProperties
  <2> HIDE DEF cd
  <2>c. post \in Seq(Other(s))
    BY <2>a, <2>b, ConcatProperties
  <2>2. post \in Ls /\ Follows(post)
    BY <1>1, <1>c, <2>1
  <2>3. \A X : File([f EXCEPT !["facts"] = X]) = Titled("facts", X) \o post
    BY <1>3 DEF cd
  <2> HIDE DEF post, pre
  <2>4. pre \in Seq(Other(s)) /\ pre \in Seq(Lines)
    BY EmptySeq DEF pre
  <2>5. ASSUME NEW X \in Seq(Plain) PROVE File([f EXCEPT ![s] = X]) = Framed(s, pre, X, post)
    <3>1. Titled(s, X) \o post = Framed(s, << >>, X, post)
      BY <2>2, <2>4, FrameBehind DEF Ls
    <3> QED
      BY <1>5, <2>3, <3>1 DEF pre
  <2> QED
    BY <2>2, <2>4, <2>5, <2>c
<1>6. CASE s = "hypotheses"
  <2>1. cd \in Ls /\ Follows(cd)
    BY <1>1, <1>c
  <2>2. a \in Seq(Other(s)) /\ a \in Seq(Lines)
    BY <1>1, <1>2, <1>6, <1>s
  <2>a. c \in Seq(Other(s)) /\ d \in Seq(Other(s))
    BY <1>2, <1>6, <1>s
  <2>b. cd \in Seq(Other(s))
    BY <2>a, ConcatProperties
  <2>3. \A X : File([f EXCEPT !["hypotheses"] = X]) = a \o (Titled("hypotheses", X) \o cd)
    BY <1>3
  <2> HIDE DEF cd
  <2>4. ASSUME NEW X \in Seq(Plain) PROVE File([f EXCEPT ![s] = X]) = Framed(s, a, X, cd)
    <3>1. a \o (Titled(s, X) \o cd) = Framed(s, a, X, cd)
      BY <2>1, <2>2, FrameBehind DEF Ls
    <3> QED
      BY <1>6, <2>3, <3>1
  <2> QED
    BY <2>1, <2>2, <2>4, <2>b
<1>7. CASE s = "todo"
  <2>1. a \in Seq(Other(s)) /\ b \in Seq(Other(s)) /\ d \in Seq(Other(s))
    BY <1>2, <1>7, <1>s
  <2>2. ab \in Seq(Other(s))
    BY <2>1, ConcatProperties
  <2>3. ab \in Ls
    BY <1>1, <1>c
  <2>4. \A x \in Ls : a \o (b \o x) = ab \o x
    <3>1. ASSUME NEW x \in Ls PROVE Glued(a, b, x)
      BY <1>1, <1>as
    <3> QED
      BY <3>1 DEF Glued
  <2> HIDE DEF ab
  <2>5. ASSUME NEW X \in Seq(Plain) PROVE File([f EXCEPT ![s] = X]) = Framed(s, ab, X, d)
    <3> DEFINE T == Titled(s, X)
    <3>0. T \in Ls
      BY <1>4
    <3>1. ab \o (T \o d) = Framed(s, ab, X, d)
      BY <1>1, <2>3, FrameBehind DEF Ls
    <3>2. File([f EXCEPT ![s] = X]) = a \o (b \o (T \o d))
      BY <1>3, <1>7
    <3> HIDE DEF T
    <3>3. T \o d \in Ls
      BY <1>1, <1>c, <3>0
    <3>4. a \o (b \o (T \o d)) = ab \o (T \o d)
      BY <2>4, <3>3
    <3> QED
      BY <3>1, <3>2, <3>4
  <2> QED
    BY <1>1, <2>1, <2>2, <2>5
<1>8. CASE s = "log"
  <2> DEFINE abc == ab \o c
             nil == << >>
  <2>1. a \in Seq(Other(s)) /\ b \in Seq(Other(s)) /\ c \in Seq(Other(s))
    BY <1>2, <1>8, <1>s
  <2>2. ab \in Seq(Other(s))
    BY <2>1, ConcatProperties
  <2>3. ab \in Ls
    BY <1>1, <1>c
  <2>4. \A x \in Ls : a \o (b \o x) = ab \o x
    <3>1. ASSUME NEW x \in Ls PROVE Glued(a, b, x)
      BY <1>1, <1>as
    <3> QED
      BY <3>1 DEF Glued
  <2> HIDE DEF ab
  <2>5. abc \in Seq(Other(s)) /\ abc \in Ls
    BY <1>1, <1>c, <2>1, <2>2, <2>3, ConcatProperties
  <2>6. \A x \in Ls : ab \o (c \o x) = abc \o x
    <3>1. ASSUME NEW x \in Ls PROVE Glued(ab, c, x)
      BY <1>1, <1>as, <2>3
    <3> QED
      BY <3>1 DEF Glued
  <2> HIDE DEF abc, nil
  <2>7. nil \in Ls /\ nil \in Seq(Other(s)) /\ Follows(nil)
    BY EmptySeq DEF Follows, nil
  <2>8. ASSUME NEW X \in Seq(Plain) PROVE File([f EXCEPT ![s] = X]) = Framed(s, abc, X, nil)
    <3> DEFINE T == Titled(s, X)
    <3>0. T \in Ls
      BY <1>4
    <3>1. abc \o T = Framed(s, abc, X, << >>)
      BY <1>1, <2>5, FrameBehind DEF Ls
    <3>2. File([f EXCEPT ![s] = X]) = a \o (b \o (c \o T))
      BY <1>3, <1>8
    <3> HIDE DEF T
    <3>3. c \o T \in Ls
      BY <1>1, <1>c, <3>0
    <3>4. a \o (b \o (c \o T)) = abc \o T
      BY <2>4, <2>6, <3>0, <3>3
    <3> QED
      BY <3>1, <3>2, <3>4 DEF nil
  <2> QED
    BY <2>5, <2>7, <2>8
<1> QED
  BY <1>5, <1>6, <1>7, <1>8 DEF SectionSet

(* What casefile.py does to such a file: a section is found, read, extended    *)
(* and replaced for itself, and each header stands once.                       *)
LEMMA FileEdits ==
  ASSUME NEW f \in Bodies, NEW s \in SectionSet, NEW e \in Seq(Plain)
  PROVE  /\ HasSection(File(f), s)
         /\ SectionBody(File(f), s) = Before(f[s]) /\ SectionOf(File(f), s) = f[s]
         /\ Add(File(f), s, e) = File([f EXCEPT ![s] = Before(f[s]) \o (e \o After(f[s]))])
         /\ ReplaceSection(File(f), s, e) = File([f EXCEPT ![s] = e \o After(f[s])])
<1>1. PICK pre \in Seq(Other(s)), post \in Seq(Other(s)) :
        /\ Follows(post)
        /\ \A X \in Seq(Plain) : File([f EXCEPT ![s] = X]) = Framed(s, pre, X, post)
  BY FileFrames
<1> DEFINE X == f[s]
           ls == File(f)
           add == Before(X) \o (e \o After(X))
           new == e \o After(X)
<1>2. X \in Seq(Plain) /\ [f EXCEPT ![s] = X] = f
  BY DEF Bodies
<1>3. ls = Framed(s, pre, X, post)
  BY <1>1, <1>2
<1> HIDE DEF ls, X
<1>4. HasSection(ls, s) /\ SectionOf(ls, s) = X
  BY <1>1, <1>2, <1>3, FrameSection
<1>5. /\ SectionBody(ls, s) = Before(X)
      /\ Add(ls, s, e) = Framed(s, pre, add, post)
      /\ ReplaceSection(ls, s, e) = Framed(s, pre, new, post)
  BY <1>1, <1>2, <1>3, FrameEdits
<1>6. add \in Seq(Plain) /\ new \in Seq(Plain)
  <2> DEFINE b == Before(X)
             a == After(X)
  <2>1. b \in Seq(Plain) /\ a \in Seq(Plain)
    BY <1>2, CutIs
  <2> HIDE DEF b, a
  <2>2. e \o a \in Seq(Plain)
    BY <2>1, ConcatProperties
  <2> DEFINE n == e \o a
  <2> HIDE DEF n
  <2>3. n \in Seq(Plain)
    BY <2>2 DEF n
  <2>4. b \o n \in Seq(Plain)
    BY <2>1, <2>3, ConcatProperties
  <2> QED
    BY <2>2, <2>4 DEF n, a, b
<1> HIDE DEF add, new
<1>7. /\ File([f EXCEPT ![s] = add]) = Framed(s, pre, add, post)
      /\ File([f EXCEPT ![s] = new]) = Framed(s, pre, new, post)
  BY <1>1, <1>6
<1>8. /\ Add(ls, s, e) = File([f EXCEPT ![s] = add])
      /\ ReplaceSection(ls, s, e) = File([f EXCEPT ![s] = new])
  BY <1>5, <1>7
<1> QED
  BY <1>4, <1>5, <1>8 DEF ls, X, add, new

LEMMA FileHeaders ==
  ASSUME NEW f \in Bodies, NEW s \in SectionSet
  PROVE  /\ File(f) \in Seq(Lines)
         /\ \E i \in DOMAIN File(f) : \A j \in DOMAIN File(f) : File(f)[j] = Header(s) <=> j = i
<1>1. PICK pre \in Seq(Other(s)), post \in Seq(Other(s)) :
        /\ Follows(post)
        /\ \A X \in Seq(Plain) : File([f EXCEPT ![s] = X]) = Framed(s, pre, X, post)
  BY FileFrames
<1> DEFINE X == f[s]
           ls == File(f)
           u == Opened(s, pre)
           v == X \o post
           p == Len(pre)
<1>2. X \in Seq(Plain) /\ [f EXCEPT ![s] = X] = f
  BY DEF Bodies
<1>3. ls = Framed(s, pre, X, post)
  BY <1>1, <1>2
<1> HIDE DEF ls, X
<1>4. /\ ls \in Seq(Lines) /\ Len(pre) \in Nat /\ DOMAIN ls = 1..Len(ls)
      /\ Len(ls) = Len(pre) + 1 + Len(X) + Len(post) /\ Len(X) \in Nat /\ Len(post) \in Nat
  BY <1>1, <1>2, <1>3, FramePlaces
<1>5. (\A i \in 1..Len(pre) : ls[i] # Header(s)) /\ ls[Len(pre) + 1] = Header(s)
  BY <1>1, <1>2, <1>3, FramePlaces
<1>6. u \in Seq(Lines) /\ Len(u) = Len(pre) + 1
  BY <1>1, <1>2, <1>3, FramePlaces
<1>7. v \in Seq(Other(s))
  <2>1. Plain \subseteq Other(s)
    BY HeaderIs DEF Other, Plain
  <2>2. X \in Seq(Other(s)) /\ post \in Seq(Other(s))
    BY <1>2, <2>1, SeqMonotonic
  <2> QED
    BY <2>2, ConcatProperties
<1>8. ls = u \o v
  BY <1>3 DEF Framed
<1> HIDE DEF u, v, p
<1>9. v \in Seq(Lines) /\ \A i \in 1..Len(v) : v[i] # Header(s)
  <2>1. Other(s) \subseteq Lines
    BY DEF Other
  <2>2. v \in Seq(Lines)
    BY <1>7, <2>1, SeqMonotonic
  <2>3. ASSUME NEW i \in 1..Len(v) PROVE v[i] \in Other(s)
    BY <1>7, ElementOfSeq
  <2> QED
    BY <2>2, <2>3 DEF Other
<1>10. /\ Len(u \o v) = Len(u) + Len(v)
       /\ \A i \in 1..Len(u) + Len(v) : (u \o v)[i] = IF i <= Len(u) THEN u[i] ELSE v[i - Len(u)]
  <2>1. u \in Seq(Lines) /\ v \in Seq(Lines)
    BY <1>6, <1>9
  <2> QED
    BY <2>1, ConcatProperties
<1>11. Len(v) \in Nat
  BY <1>9, LenProperties
<1>12. p = Len(pre) /\ p \in Nat /\ Len(u) = p + 1 /\ Len(ls) = p + 1 + Len(v)
  BY <1>4, <1>6, <1>8, <1>10 DEF p
<1>13. ASSUME NEW j \in 1..Len(ls), j # p + 1 PROVE ls[j] # Header(s)
  <2>1. CASE j <= p
    <3>1. j \in 1..Len(pre)
      BY <1>12, <2>1
    <3> QED
      BY <1>5, <3>1
  <2>2. CASE ~(j <= p)
    <3> DEFINE k == j - Len(u)
    <3>1. j \in 1..Len(u) + Len(v) /\ ~(j <= Len(u)) /\ k \in 1..Len(v)
      BY <1>11, <1>12, <1>13, <2>2
    <3>2. ls[j] = v[k]
      BY <1>8, <1>10, <3>1
    <3> HIDE DEF k
    <3> QED
      BY <1>9, <3>1, <3>2
  <2> QED
    BY <2>1, <2>2
<1>14. p + 1 \in 1..Len(ls) /\ ls[p + 1] = Header(s)
  BY <1>5, <1>11, <1>12
<1> DEFINE k == p + 1
           D == DOMAIN ls
<1> HIDE DEF k
<1>15. k \in D /\ \A j \in D : ls[j] = Header(s) <=> j = k
  BY <1>4, <1>13, <1>14 DEF k
<1> HIDE DEF D
<1>16. \E i \in D : \A j \in D : ls[j] = Header(s) <=> j = i
  BY <1>15
<1> QED
  BY <1>4, <1>16 DEF ls, D

(* The lines of a kind in the file are those in its sections.                  *)
LEMMA SelectTitled ==
  ASSUME NEW s \in SectionSet, NEW X \in Seq(Plain), NEW S
  PROVE  /\ Header(s) \notin S => Select(Titled(s, X), S) = Select(X, S)
         /\ Header(s) \in S => Select(Titled(s, X), S) = Titled(s, Select(X, S))
         /\ Select(X, S) \in Seq(Plain) /\ Select(X, S) \in Seq(Lines)
<1> DEFINE H == <<Header(s)>>
           T == Select(X, S)
<1>1. H \in Seq(Lines)
  BY HeaderIs
<1>2. X \in Seq(Lines)
  <2>1. Plain \subseteq Lines
    BY DEF Plain
  <2> QED
    BY <2>1, SeqMonotonic
<1>3. Select(H, S) = IF Header(s) \in S THEN H ELSE << >>
  BY SelectOne
<1>4. Titled(s, X) = H \o X /\ Titled(s, T) = H \o T
  BY DEF Titled
<1> HIDE DEF H
<1>5. Select(H \o X, S) = Select(H, S) \o Select(X, S)
  BY <1>1, <1>2, SelectConcat
<1>6. T \in Seq(Lines) /\ T \in Seq(Plain)
  BY <1>2, SelectType
<1> HIDE DEF T
<1>7. << >> \o T = T
  BY <1>6, ConcatEmptySeq
<1>8. CASE Header(s) \in S
  BY <1>3, <1>4, <1>5, <1>6, <1>8 DEF T
<1>9. CASE Header(s) \notin S
  BY <1>3, <1>4, <1>5, <1>6, <1>7, <1>9 DEF T
<1> QED
  BY <1>8, <1>9

LEMMA SelectFile ==
  ASSUME NEW f \in Bodies, NEW S
  PROVE  /\ (\A s \in SectionSet : Header(s) \notin S) =>
              Select(File(f), S) =
                Select(f["facts"], S) \o
                  (Select(f["hypotheses"], S) \o (Select(f["todo"], S) \o Select(f["log"], S)))
         /\ (\A s \in SectionSet : Header(s) \in S) =>
              Select(File(f), S) = File([s \in SectionSet |-> Select(f[s], S)])
<1> DEFINE a == Titled("facts", f["facts"])
           b == Titled("hypotheses", f["hypotheses"])
           c == Titled("todo", f["todo"])
           d == Titled("log", f["log"])
           g == [s \in SectionSet |-> Select(f[s], S)]
<1>1. a \in Seq(Lines) /\ b \in Seq(Lines) /\ c \in Seq(Lines) /\ d \in Seq(Lines)
  BY TitledIs DEF Bodies, SectionSet
<1>2. File(f) = a \o (b \o (c \o d))
  BY DEF File
<1>3. File(g) = Titled("facts", Select(f["facts"], S)) \o
                  (Titled("hypotheses", Select(f["hypotheses"], S)) \o
                     (Titled("todo", Select(f["todo"], S)) \o Titled("log", Select(f["log"], S))))
  BY DEF File, SectionSet
<1>4. ASSUME NEW s \in SectionSet
      PROVE  /\ Header(s) \notin S => Select(Titled(s, f[s]), S) = Select(f[s], S)
             /\ Header(s) \in S => Select(Titled(s, f[s]), S) = Titled(s, Select(f[s], S))
  BY SelectTitled DEF Bodies
<1>5. /\ "facts" \in SectionSet /\ "hypotheses" \in SectionSet
      /\ "todo" \in SectionSet /\ "log" \in SectionSet
  BY DEF SectionSet
<1>6. ASSUME \A s \in SectionSet : Header(s) \notin S
      PROVE  /\ Select(a, S) = Select(f["facts"], S) /\ Select(b, S) = Select(f["hypotheses"], S)
             /\ Select(c, S) = Select(f["todo"], S) /\ Select(d, S) = Select(f["log"], S)
  BY <1>4, <1>5, <1>6
<1>7. ASSUME \A s \in SectionSet : Header(s) \in S
      PROVE  /\ Select(a, S) = Titled("facts", Select(f["facts"], S))
             /\ Select(b, S) = Titled("hypotheses", Select(f["hypotheses"], S))
             /\ Select(c, S) = Titled("todo", Select(f["todo"], S))
             /\ Select(d, S) = Titled("log", Select(f["log"], S))
  BY <1>4, <1>5, <1>7
<1> HIDE DEF a, b, c, d, g
<1> DEFINE cd == c \o d
           bcd == b \o cd
<1>8. cd \in Seq(Lines) /\ Select(cd, S) = Select(c, S) \o Select(d, S)
  <2>1. c \in Seq(Lines) /\ d \in Seq(Lines)
    BY <1>1
  <2> QED
    BY <2>1, ConcatProperties, SelectConcat
<1> HIDE DEF cd
<1>9. bcd \in Seq(Lines) /\ Select(bcd, S) = Select(b, S) \o Select(cd, S)
  <2>1. b \in Seq(Lines) /\ cd \in Seq(Lines)
    BY <1>1, <1>8
  <2> QED
    BY <2>1, ConcatProperties, SelectConcat
<1> HIDE DEF bcd
<1>10. Select(a \o bcd, S) = Select(a, S) \o Select(bcd, S)
  <2>1. a \in Seq(Lines) /\ bcd \in Seq(Lines)
    BY <1>1, <1>9
  <2> QED
    BY <2>1, SelectConcat
<1>11. Select(File(f), S) = Select(a, S) \o (Select(b, S) \o (Select(c, S) \o Select(d, S)))
  BY <1>2, <1>8, <1>9, <1>10 DEF bcd, cd
<1>12. ASSUME \A s \in SectionSet : Header(s) \in S
       PROVE  Select(File(f), S) = File(g)
  BY <1>3, <1>7, <1>11, <1>12
<1>13. ASSUME \A s \in SectionSet : Header(s) \notin S
       PROVE  Select(File(f), S) =
                Select(f["facts"], S) \o
                  (Select(f["hypotheses"], S) \o (Select(f["todo"], S) \o Select(f["log"], S)))
  BY <1>6, <1>11, <1>13
<1> QED
  BY <1>12, <1>13 DEF g

(* Lines no other section has are those of the Log.                            *)
LEMMA SelectLog ==
  ASSUME NEW f \in Bodies, NEW S, \A s \in SectionSet : Header(s) \notin S,
         \A s \in SectionSet \ {"log"} : Select(f[s], S) = << >>
  PROVE  Select(File(f), S) = Select(f["log"], S)
<1> DEFINE L == Select(f["log"], S)
           nil == << >>
<1>1. Select(File(f), S) =
        Select(f["facts"], S) \o (Select(f["hypotheses"], S) \o (Select(f["todo"], S) \o L))
  BY SelectFile
<1>2. Select(f["facts"], S) = nil /\ Select(f["hypotheses"], S) = nil /\ Select(f["todo"], S) = nil
  BY DEF SectionSet
<1>3. f["log"] \in Seq(Plain)
  BY DEF Bodies, SectionSet
<1>4. L \in Seq(Plain)
  BY <1>3, SelectType
<1> HIDE DEF L
<1>5. nil \o L = L
  BY <1>4, ConcatEmptySeq
<1> HIDE DEF nil
<1> QED
  BY <1>1, <1>2, <1>5 DEF L

-----------------------------------------------------------------------------
(* A section is the lines casefile.py takes for it and, behind them, the       *)
(* header lines that notes quote: each ends the section for the next edit.     *)
QuotedLines == {l \in Lines : l.shape = "quoted header"}
Fronts == [SectionSet -> Seq(Running)]
Quotes == [SectionSet -> Seq(QuotedLines)]
Put(b, s, X) == [b EXCEPT ![s] = X]
Filed(b, q) == File([s \in SectionSet |-> b[s] \o q[s]])
AddIs(b, q, s, e, d) ==
  Add(Filed(b, q), s, e \o d) = Filed(Put(b, s, b[s] \o e), Put(q, s, d \o q[s]))
ReplaceIs(b, q, s, e) == ReplaceSection(Filed(b, q), s, e) = Filed(Put(b, s, e), q)

(* Where the edits take a section to end. *)
LEMMA CutAt ==
  ASSUME NEW B \in Seq(Running), NEW Q \in Seq(QuotedLines)
  PROVE  B \o Q \in Seq(Plain) /\ Before(B \o Q) = B /\ After(B \o Q) = Q
<1> DEFINE X == B \o Q
           n == Len(B)
<1>1. Running \subseteq Plain /\ QuotedLines \subseteq Plain
  BY DEF Running, Plain, QuotedLines, EndsSection, IsHeader
<1>2. B \in Seq(Plain) /\ Q \in Seq(Plain)
  BY <1>1, SeqMonotonic
<1>3. X \in Seq(Plain) /\ Len(X) = Len(B) + Len(Q)
  BY <1>2, ConcatProperties
<1>4. \A i \in 1..Len(B) + Len(Q) : X[i] = IF i <= Len(B) THEN B[i] ELSE Q[i - Len(B)]
  BY <1>2, ConcatProperties
<1>5. Len(B) \in Nat /\ Len(Q) \in Nat
  BY LenProperties
<1>6. \A i \in 1..Len(B) : ~EndsSection(B[i])
  BY ElementOfSeq DEF Running
<1>7. ASSUME NEW i \in 1..Len(Q) PROVE EndsSection(Q[i])
  <2>1. Q[i] \in QuotedLines
    BY ElementOfSeq
  <2> QED
    BY <2>1 DEF QuotedLines, EndsSection
<1>8. /\ SubSeq(X, 1, Len(B)) = B /\ SubSeq(X, Len(B) + 1, Len(X)) = Q
  <2>1. SubSeq(X, Len(B) + 1, Len(X)) = Q
    BY <1>2, CutBack
  <2> DEFINE nil == << >>
  <2>2. nil \in Seq(Plain) /\ Q \o nil = Q
    BY <1>2, EmptySeq, ConcatEmptySeq
  <2> HIDE DEF nil
  <2>3. SubSeq(B \o (Q \o nil), 1, Len(B)) = B
    BY <1>2, <2>2, CutBack
  <2> QED
    BY <2>1, <2>2, <2>3
<1> HIDE DEF X, n
<1>9. /\ Cut(X) \in 0..Len(X) /\ (\A i \in 1..Cut(X) : ~EndsSection(X[i]))
      /\ Cut(X) < Len(X) => EndsSection(X[Cut(X) + 1])
  BY <1>3, CutIs
<1> DEFINE c == Cut(X)
<1>10. Cut(X) = n
  <2>1. c \in Nat /\ n \in Nat /\ c <= Len(X) /\ Len(X) = n + Len(Q) /\ Len(X) \in Nat
    BY <1>3, <1>5, <1>9 DEF n
  <2>2. ASSUME c < n PROVE FALSE
    <3> DEFINE i == c + 1
    <3>1. i \in 1..Len(B) + Len(Q) /\ i <= Len(B) /\ i \in 1..Len(B) /\ c < Len(X)
      BY <1>5, <2>1, <2>2 DEF n
    <3>2. EndsSection(X[i])
      BY <1>9, <3>1
    <3> HIDE DEF i
    <3>3. X[i] = B[i]
      BY <1>4, <3>1
    <3> QED
      BY <1>6, <3>1, <3>2, <3>3
  <2>3. ASSUME c > n PROVE FALSE
    <3> DEFINE i == n + 1
    <3>1. i \in 1..Len(B) + Len(Q) /\ ~(i <= Len(B)) /\ i - Len(B) = 1 /\ 1 \in 1..Len(Q) /\ i \in 1..c
      BY <1>5, <2>1, <2>3 DEF n
    <3> HIDE DEF i
    <3>2. X[i] = Q[1]
      BY <1>4, <3>1
    <3>3. ~EndsSection(X[i])
      BY <1>9, <3>1
    <3> QED
      BY <1>7, <3>1, <3>2, <3>3
  <2> QED
    BY <2>1, <2>2, <2>3
<1>11. Before(X) = SubSeq(X, 1, n) /\ After(X) = SubSeq(X, n + 1, Len(X))
  BY <1>10 DEF Before, After
<1> QED
  BY <1>3, <1>8, <1>11 DEF X, n

(* The edits in these terms. *)
LEMMA FiledEdits ==
  ASSUME NEW b \in Fronts, NEW q \in Quotes, NEW s \in SectionSet,
         NEW e \in Seq(Running), NEW d \in Seq(QuotedLines)
  PROVE  /\ HasSection(Filed(b, q), s)
         /\ SectionBody(Filed(b, q), s) = b[s] /\ SectionOf(Filed(b, q), s) = b[s] \o q[s]
         /\ AddIs(b, q, s, e, d)
         /\ ReplaceIs(b, q, s, e)
<1> DEFINE f == [t \in SectionSet |-> b[t] \o q[t]]
           B == b[s]
           Q == q[s]
           ed == e \o d
           ad == [f EXCEPT ![s] = B \o (ed \o Q)]
           re == [f EXCEPT ![s] = e \o Q]
           b1 == [b EXCEPT ![s] = B \o e]
           q1 == [q EXCEPT ![s] = d \o Q]
           b2 == [b EXCEPT ![s] = e]
<1>1. B \in Seq(Running) /\ Q \in Seq(QuotedLines)
  BY DEF Fronts, Quotes
<1>2. f \in Bodies
  <2>1. ASSUME NEW t \in SectionSet PROVE b[t] \o q[t] \in Seq(Plain)
    <3>1. b[t] \in Seq(Running) /\ q[t] \in Seq(QuotedLines)
      BY DEF Fronts, Quotes
    <3> QED
      BY <3>1, CutAt
  <2> QED
    BY <2>1 DEF Bodies
<1>3. Before(f[s]) = B /\ After(f[s]) = Q /\ f[s] = B \o Q
  BY <1>1, CutAt
<1>4. Running \subseteq Plain /\ QuotedLines \subseteq Plain
  BY DEF Running, Plain, QuotedLines, EndsSection, IsHeader
<1>5. e \in Seq(Plain) /\ d \in Seq(Plain) /\ B \in Seq(Plain) /\ Q \in Seq(Plain)
  BY <1>1, <1>4, SeqMonotonic
<1>6. ed \in Seq(Plain)
  BY <1>5, ConcatProperties
<1>7. B \o (ed \o Q) = (B \o e) \o (d \o Q)
  <2> DEFINE Ps == Seq(Plain)
             dQ == d \o Q
  <2>as. \A x, y, z \in Ps : Glued(x, y, z)
    BY GluedIs
  <2> HIDE DEF B, Q
  <2>1. dQ \in Seq(Plain)
    BY <1>5, ConcatProperties
  <2> HIDE DEF Ps
  <2>2. e \in Ps /\ d \in Ps /\ B \in Ps /\ Q \in Ps /\ dQ \in Ps
    BY <1>5, <2>1 DEF Ps
  <2>3. ed \o Q = e \o dQ
    <3>1. Glued(e, d, Q)
      BY <2>as, <2>2
    <3> QED
      BY <3>1 DEF Glued
  <2> HIDE DEF dQ
  <2>4. (B \o e) \o dQ = B \o (e \o dQ)
    <3>1. Glued(B, e, dQ)
      BY <2>as, <2>2
    <3> QED
      BY <3>1 DEF Glued
  <2> QED
    BY <2>3, <2>4 DEF dQ
<1>8. ad = [t \in SectionSet |-> b1[t] \o q1[t]]
  <2>1. ASSUME NEW t \in SectionSet PROVE ad[t] = b1[t] \o q1[t]
    <3>1. CASE t = s
      BY <1>7, <3>1 DEF Fronts, Quotes
    <3>2. CASE t # s
      BY <3>2 DEF Fronts, Quotes
    <3> QED
      BY <3>1, <3>2
  <2>2. ad = [t \in SectionSet |-> ad[t]]
    OBVIOUS
  <2> HIDE DEF ad, b1, q1
  <2> QED
    BY <2>1, <2>2
<1>9. re = [t \in SectionSet |-> b2[t] \o q[t]]
  <2>1. ASSUME NEW t \in SectionSet PROVE re[t] = b2[t] \o q[t]
    <3>1. CASE t = s
      BY <3>1 DEF Fronts, Quotes
    <3>2. CASE t # s
      BY <3>2 DEF Fronts, Quotes
    <3> QED
      BY <3>1, <3>2
  <2>2. re = [t \in SectionSet |-> re[t]]
    OBVIOUS
  <2> HIDE DEF re, b2
  <2> QED
    BY <2>1, <2>2
<1>10. Filed(b, q) = File(f) /\ Filed(b1, q1) = File(ad) /\ Filed(b2, q) = File(re)
  <2>1. Filed(b, q) = File(f)
    BY DEF Filed
  <2>2. Filed(b1, q1) = File([t \in SectionSet |-> b1[t] \o q1[t]])
    BY DEF Filed
  <2>3. Filed(b2, q) = File([t \in SectionSet |-> b2[t] \o q[t]])
    BY DEF Filed
  <2> HIDE DEF f, b1, q1, b2, ad, re
  <2> QED
    BY <1>8, <1>9, <2>1, <2>2, <2>3
<1>11. /\ HasSection(File(f), s) /\ SectionBody(File(f), s) = Before(f[s]) /\ SectionOf(File(f), s) = f[s]
       /\ Add(File(f), s, ed) = File([f EXCEPT ![s] = Before(f[s]) \o (ed \o After(f[s]))])
  <2> HIDE DEF f, ed
  <2> QED
    BY <1>2, <1>6, FileEdits
<1>12. ReplaceSection(File(f), s, e) = File([f EXCEPT ![s] = e \o After(f[s])])
  <2> HIDE DEF f
  <2> QED
    BY <1>2, <1>5, FileEdits
<1>13. /\ [f EXCEPT ![s] = Before(f[s]) \o (ed \o After(f[s]))] = ad
       /\ [f EXCEPT ![s] = e \o After(f[s])] = re
  BY <1>3
<1> HIDE DEF f, ad, re, b1, q1, b2, ed, B, Q
<1>14. /\ HasSection(Filed(b, q), s) /\ SectionBody(Filed(b, q), s) = B /\ SectionOf(Filed(b, q), s) = B \o Q
       /\ Add(Filed(b, q), s, ed) = Filed(b1, q1) /\ ReplaceSection(Filed(b, q), s, e) = Filed(b2, q)
  BY <1>3, <1>10, <1>11, <1>12, <1>13
<1> QED
  BY <1>14 DEF b1, q1, b2, ed, B, Q, Put, AddIs, ReplaceIs

(* Notes, ledger lines and blocks are never quoted headers. *)
LEMMA FiledSelect ==
  ASSUME NEW b \in Fronts, NEW q \in Quotes, NEW S,
         \A s \in SectionSet : Header(s) \notin S, \A l \in QuotedLines : l \notin S
  PROVE  /\ \A s \in SectionSet : Select(b[s] \o q[s], S) = Select(b[s], S)
         /\ (\A s \in SectionSet \ {"log"} : Select(b[s], S) = << >>) =>
              Select(Filed(b, q), S) = Select(b["log"], S)
<1> DEFINE f == [s \in SectionSet |-> b[s] \o q[s]]
<1>1. ASSUME NEW s \in SectionSet PROVE Select(b[s] \o q[s], S) = Select(b[s], S)
  <2> DEFINE B == b[s]
             Q == q[s]
             T == Select(B, S)
  <2>1. B \in Seq(Running) /\ Q \in Seq(QuotedLines)
    BY DEF Fronts, Quotes
  <2>2. Running \subseteq Plain /\ QuotedLines \subseteq Plain
    BY DEF Running, Plain, QuotedLines, EndsSection, IsHeader
  <2> HIDE DEF B, Q
  <2>3. B \in Seq(Plain) /\ Q \in Seq(Plain)
    BY <2>1, <2>2, SeqMonotonic
  <2>4. Select(B \o Q, S) = T \o Select(Q, S)
    BY <2>3, SelectConcat
  <2>5. Select(Q, S) = << >>
    BY <2>1, SelectNone
  <2>6. T \in Seq(Plain)
    BY <2>3, SelectType
  <2> HIDE DEF T
  <2>7. T \o << >> = T
    BY <2>6, ConcatEmptySeq
  <2> QED
    BY <2>4, <2>5, <2>7 DEF T, B, Q
<1>2. f \in Bodies
  <2>1. ASSUME NEW s \in SectionSet PROVE b[s] \o q[s] \in Seq(Plain)
    <3>1. b[s] \in Seq(Running) /\ q[s] \in Seq(QuotedLines)
      BY DEF Fronts, Quotes
    <3> QED
      BY <3>1, CutAt
  <2> QED
    BY <2>1 DEF Bodies
<1>3. \A s \in SectionSet : f[s] = b[s] \o q[s]
  OBVIOUS
<1>4. Filed(b, q) = File(f)
  BY DEF Filed
<1> HIDE DEF f
<1>5. \A s \in SectionSet : Select(f[s], S) = Select(b[s], S)
  BY <1>1, <1>3
<1>6. ASSUME \A s \in SectionSet \ {"log"} : Select(b[s], S) = << >>
      PROVE  Select(Filed(b, q), S) = Select(b["log"], S)
  <2>1. \A s \in SectionSet \ {"log"} : Select(f[s], S) = << >>
    BY <1>5, <1>6
  <2>2. Select(File(f), S) = Select(f["log"], S)
    BY <1>2, <2>1, SelectLog
  <2> QED
    BY <1>4, <1>5, <2>2 DEF SectionSet
<1> QED
  BY <1>1, <1>6

(* A rewrite that keeps every header, quoted or not. *)
LEMMA FiledWorth ==
  ASSUME NEW b \in Fronts, NEW q \in Quotes, NEW S,
         \A s \in SectionSet : Header(s) \in S, \A l \in QuotedLines : l \in S
  PROVE  /\ Select(Filed(b, q), S) = Filed([s \in SectionSet |-> Select(b[s], S)], q)
         /\ [s \in SectionSet |-> Select(b[s], S)] \in Fronts
<1> DEFINE f == [s \in SectionSet |-> b[s] \o q[s]]
           g == [s \in SectionSet |-> Select(b[s], S)]
<1>1. ASSUME NEW s \in SectionSet PROVE Select(b[s] \o q[s], S) = Select(b[s], S) \o q[s]
  <2> DEFINE B == b[s]
             Q == q[s]
  <2>1. B \in Seq(Running) /\ Q \in Seq(QuotedLines)
    BY DEF Fronts, Quotes
  <2>2. Running \subseteq Plain /\ QuotedLines \subseteq Plain
    BY DEF Running, Plain, QuotedLines, EndsSection, IsHeader
  <2> HIDE DEF B, Q
  <2>3. B \in Seq(Plain) /\ Q \in Seq(Plain)
    BY <2>1, <2>2, SeqMonotonic
  <2>4. Select(B \o Q, S) = Select(B, S) \o Select(Q, S)
    BY <2>3, SelectConcat
  <2>5. Select(Q, S) = Q
    BY <2>1, SelectAll
  <2> QED
    BY <2>4, <2>5 DEF B, Q
<1>2. f \in Bodies
  <2>1. ASSUME NEW s \in SectionSet PROVE b[s] \o q[s] \in Seq(Plain)
    <3>1. b[s] \in Seq(Running) /\ q[s] \in Seq(QuotedLines)
      BY DEF Fronts, Quotes
    <3> QED
      BY <3>1, CutAt
  <2> QED
    BY <2>1 DEF Bodies
<1>3. [s \in SectionSet |-> Select(f[s], S)] = [s \in SectionSet |-> g[s] \o q[s]]
  <2>1. ASSUME NEW s \in SectionSet PROVE Select(f[s], S) = g[s] \o q[s]
    BY <1>1
  <2> HIDE DEF f, g
  <2> QED
    BY <2>1
<1>4. Filed(b, q) = File(f) /\ Filed(g, q) = File([s \in SectionSet |-> g[s] \o q[s]])
  <2>1. Filed(b, q) = File(f)
    BY DEF Filed
  <2> HIDE DEF g
  <2> QED
    BY <2>1 DEF Filed
<1>5. g \in Fronts
  <2>1. ASSUME NEW s \in SectionSet PROVE Select(b[s], S) \in Seq(Running)
    <3>1. b[s] \in Seq(Running)
      BY DEF Fronts
    <3> QED
      BY <3>1, SelectType
  <2> QED
    BY <2>1 DEF Fronts
<1> HIDE DEF f, g
<1>6. Select(File(f), S) = File([s \in SectionSet |-> Select(f[s], S)])
  BY <1>2, SelectFile
<1> QED
  BY <1>3, <1>4, <1>5, <1>6 DEF g

-----------------------------------------------------------------------------
(* What holds of the file after any number of operations: only the Log has     *)
(* ledger lines and blocks of compactions, and there, as in the sections of    *)
(* notes, they stand in order before every quoted header.                      *)
Memo == {l \in Running : l \notin LedgerLines /\ l \notin CompactionBlocks}
Kept(b, led, nts, n) ==
  /\ \A s \in SectionSet \ {"log"} : b[s] \in Seq(Memo)
  /\ \A s \in {"facts", "hypotheses"} : Select(b[s], NoteLines) = nts[s]
  /\ Select(b["log"], LedgerLines) = led
  /\ Select(b["log"], CompactionBlocks) = [i \in 1..n |-> Block("compaction", i)]
Stands(ls, led, nts, n) ==
  \E b \in Fronts, q \in Quotes : ls = Filed(b, q) /\ Kept(b, led, nts, n)
CaseTypes ==
  /\ lines \in Seq(Lines) /\ events \in 0..MaxEvents /\ compactions \in 0..events
  /\ ledger \in Seq(Lines) /\ noted \in [SectionSet -> Seq(Lines)] /\ results \in Seq(Lines)
  /\ faithful \in BOOLEAN /\ posed \in BOOLEAN
InForm == Stands(lines, ledger, noted, compactions)
CaseInv == CaseTypes /\ (faithful => InForm)

(* The kinds of lines the properties count are apart. *)
LEMMA KindsApart ==
  /\ \A s \in SectionSet : Header(s) \notin LedgerLines /\ Header(s) \notin CompactionBlocks
                           /\ Header(s) \notin NoteLines
  /\ \A l \in QuotedLines : l \notin LedgerLines /\ l \notin CompactionBlocks /\ l \notin NoteLines
  /\ \A l : ~(l \in LedgerLines /\ l \in CompactionBlocks)
  /\ \A l \in Memo : l \notin LedgerLines /\ l \notin CompactionBlocks
  /\ Memo \subseteq Running /\ Running \subseteq Lines /\ QuotedLines \subseteq Lines
<1>1. \A s \in SectionSet : Header(s).shape = "header"
  BY DEF Header, Line
<1>2. \A l \in LedgerLines : l.shape = "ledger"
  BY DEF LedgerLines, IsLedger
<1>3. \A l \in CompactionBlocks : l.shape = "block"
  BY DEF CompactionBlocks
<1>4. \A l \in NoteLines : l.shape = "bullet"
  BY DEF NoteLines
<1>5. \A l \in QuotedLines : l.shape = "quoted header" /\ l \in Lines
  BY DEF QuotedLines
<1>6. \A l \in Memo : l \in Running /\ l \notin LedgerLines /\ l \notin CompactionBlocks
  BY DEF Memo
<1>7. \A l \in Running : l \in Lines
  BY DEF Running
<1> QED
  BY <1>1, <1>2, <1>3, <1>4, <1>5, <1>6, <1>7

(* What notes, the ledger and compactions write is of these kinds. *)
LEMMA LinesMade ==
  ASSUME NEW n \in Nat, n > 0
  PROVE  /\ \A t \in Parts \cup {""} : Bullet(t, n) \in Memo /\ Bullet(t, n) \in NoteLines
         /\ Quoted("todo") \in QuotedLines
         /\ Ledger(n) \in LedgerLines /\ Ledger(n) \in Running
         /\ Block("compaction", n) \in CompactionBlocks /\ Block("compaction", n) \in Running
<1> SUFFICES ASSUME NEW t \in Parts \cup {""}
             PROVE  /\ Bullet(t, n) \in Memo /\ Bullet(t, n) \in NoteLines /\ Quoted("todo") \in QuotedLines
                    /\ Ledger(n) \in LedgerLines /\ Ledger(n) \in Running
                    /\ Block("compaction", n) \in CompactionBlocks /\ Block("compaction", n) \in Running
  OBVIOUS
<1> DEFINE B == Bullet(t, n)
           Q == Quoted("todo")
           L == Ledger(n)
           C == Block("compaction", n)
<1>1. /\ B \in Lines /\ B.shape = "bullet" /\ B.at = n
      /\ Q \in Lines /\ Q.shape = "quoted header"
      /\ L \in Lines /\ L.shape = "ledger" /\ L.at = n
      /\ C \in Lines /\ C.shape = "block" /\ C.at = n /\ C.of = "compaction"
  BY DEF Bullet, Quoted, Ledger, Block, Line, Lines, Shapes, Marks, SectionSet, Parts
<1> HIDE DEF B, Q, L, C
<1>2. B \in NoteLines /\ Q \in QuotedLines /\ L \in LedgerLines /\ C \in CompactionBlocks
  BY <1>1 DEF NoteLines, QuotedLines, LedgerLines, CompactionBlocks, IsLedger
<1>3. B \in Running /\ L \in Running /\ C \in Running
  BY <1>1 DEF Running, EndsSection
<1>4. B \notin LedgerLines /\ B \notin CompactionBlocks
  BY <1>1 DEF LedgerLines, CompactionBlocks, IsLedger
<1>5. B \in Memo
  BY <1>3, <1>4 DEF Memo
<1> QED
  BY <1>2, <1>3, <1>5 DEF B, Q, L, C

(* A sanitized summary ends no section and names no block of a compaction.     *)
LEMMA SummaryIs ==
  ASSUME NEW shape \in Seq(SummaryLines), NEW e \in Nat, NEW w,
         w = [i \in DOMAIN shape |-> IF shape[i].shape = "text" THEN Text(e, i) ELSE shape[i]]
  PROVE  /\ Sanitize(w) \in Seq(Memo)
         /\ Unfinished(Sanitize(w)) \in Seq(Memo)
         /\ ResultLines(w) \in Seq(Lines)
<1> DEFINE sm == Sanitize(w)
           m == Len(shape)
<1>1. shape \in Seq(SummaryLines)
  OBVIOUS
<1>2. m \in Nat /\ DOMAIN shape = 1..m
  BY <1>1, LenProperties
<1>3. ASSUME NEW i \in 1..m PROVE shape[i] \in SummaryLines
  BY <1>1, ElementOfSeq
<1>4. w = [i \in 1..m |-> IF shape[i].shape = "text" THEN Text(e, i) ELSE shape[i]]
  BY <1>2
<1>e. e \in Nat
  OBVIOUS
<1> HIDE DEF m
<1>5. ASSUME NEW i \in 1..m
      PROVE  w[i] \in Lines /\ w[i].nth \in Nat /\ (w[i].shape # "text" => w[i].at = 0)
  <2>1. CASE shape[i].shape = "text"
    <3>0. i \in Nat
      BY <1>2
    <3>1. w[i] = Text(e, i)
      BY <1>4, <2>1
    <3>2. Text(e, i) \in Lines /\ Text(e, i).nth = i /\ Text(e, i).shape = "text"
      BY <1>e, <3>0 DEF Text, Line, Lines, Shapes, Marks
    <3>3. w[i] \in Lines /\ w[i].nth \in Nat /\ w[i].shape = "text"
      BY <3>0, <3>1, <3>2
    <3> QED
      BY <3>3
  <2>2. CASE shape[i].shape # "text"
    <3>1. w[i] = shape[i]
      BY <1>4, <2>2
    <3>s. \A l \in SummaryLines : l \in Lines /\ l.at = 0 /\ l.nth = 0
      BY DEF SummaryLines
    <3>2. shape[i] \in Lines /\ shape[i].at = 0 /\ shape[i].nth \in Nat
      BY <1>3, <3>s
    <3>3. w[i] \in Lines /\ w[i].at = 0 /\ w[i].nth \in Nat
      BY <3>1, <3>2
    <3> QED
      BY <3>3
  <2> QED
    BY <2>1, <2>2
<1>6. w \in Seq(Lines) /\ Len(w) = m /\ DOMAIN w = 1..m
  <2>1. \A i \in 1..m : w[i] \in Lines
    BY <1>5
  <2>2. w \in [1..m -> Lines]
    BY <1>4, <2>1
  <2> QED
    BY <1>2, <2>2
<1>7. sm = [i \in 1..m |->
              CASE w[i].shape = "header" -> Block(w[i].of, 0)
                [] w[i].shape = "quoted header" -> Line("text", w[i].of, 0, 0)
                [] OTHER -> w[i]]
  BY <1>6 DEF Sanitize
<1> HIDE DEF sm
<1>8. ASSUME NEW i \in 1..m PROVE sm[i] \in Memo
  <2> DEFINE x == w[i]
             y == sm[i]
  <2>1. x \in Lines /\ x.of \in Marks /\ (x.shape # "text" => x.at = 0)
    BY <1>5 DEF Lines
  <2>2. /\ x.shape = "header" => y = Block(x.of, 0)
        /\ x.shape = "quoted header" => y = Line("text", x.of, 0, 0)
        /\ x.shape # "header" /\ x.shape # "quoted header" => y = x
    BY <1>7
  <2> HIDE DEF x, y
  <2>3. /\ Block(x.of, 0) \in Lines /\ Block(x.of, 0).shape = "block" /\ Block(x.of, 0).at = 0
        /\ Line("text", x.of, 0, 0) \in Lines /\ Line("text", x.of, 0, 0).shape = "text"
    BY <2>1 DEF Block, Line, Lines, Shapes
  <2>4. /\ y \in Lines /\ y.shape # "header" /\ y.shape # "quoted header"
        /\ y.shape # "text" => y.at = 0
    <3>1. CASE x.shape = "header"
      BY <2>2, <2>3, <3>1
    <3>2. CASE x.shape = "quoted header"
      BY <2>2, <2>3, <3>2
    <3>3. CASE x.shape # "header" /\ x.shape # "quoted header"
      BY <2>1, <2>2, <3>3
    <3> QED
      BY <3>1, <3>2, <3>3
  <2>5. y \notin LedgerLines /\ y \notin CompactionBlocks
    <3>1. ~(0 > 0)
      OBVIOUS
    <3>2. ASSUME y \in LedgerLines \/ y \in CompactionBlocks PROVE FALSE
      <4>1. (y.shape = "ledger" \/ y.shape = "block") /\ y.at > 0
        BY <3>2 DEF LedgerLines, CompactionBlocks, IsLedger
      <4>2. y.shape # "text"
        BY <4>1
      <4>3. y.at = 0
        BY <2>4, <4>2
      <4> QED
        BY <3>1, <4>1, <4>3
    <3> QED
      BY <3>2
  <2>6. y \in Memo
    BY <2>4, <2>5 DEF Memo, Running, EndsSection
  <2> QED
    BY <2>6 DEF y
<1>9. sm \in Seq(Memo) /\ Len(sm) = m /\ DOMAIN sm = 1..m
  <2>1. sm \in [1..m -> Memo]
    BY <1>7, <1>8
  <2> QED
    BY <1>2, <2>1
<1>10. Unfinished(sm) \in Seq(Memo)
  <2> DEFINE own == Headings(sm, "c")
             c == FirstIndex(own)
             n == Len(sm) + 1
             ends == {n} \cup {i \in Headings(sm, "d") : i > c}
             d == FirstIndex(ends)
  <2>1. Unfinished(sm) = IF own = {} THEN << >> ELSE SubSeq(sm, c + 1, d - 1)
    BY DEF Unfinished
  <2>2. own \in SUBSET (1..Len(sm)) /\ Headings(sm, "d") \in SUBSET (1..Len(sm)) /\ Len(sm) \in Nat
    BY <1>2, <1>9 DEF Headings
  <2>3. CASE own = {}
    BY <2>1, <2>3, EmptySeq
  <2>4. CASE own # {}
    <3>1. PICK x : x \in own
      BY <2>4
    <3>d. Len(sm) \in Nat /\ n \in Nat
      BY <2>2
    <3>e. n \in ends /\ ends \in SUBSET (1..n)
      <4>1. n \in 1..n /\ 1..Len(sm) \subseteq 1..n
        BY <3>d
      <4>2. Headings(sm, "d") \subseteq 1..n
        BY <2>2, <4>1
      <4> HIDE DEF n, c
      <4> QED
        BY <4>1, <4>2
    <3> HIDE DEF own, ends
    <3>2. c \in 1..Len(sm)
      BY <2>2, <3>d, <3>1, FirstIndexIs
    <3> HIDE DEF c, n
    <3>3. d \in 1..n
      BY <3>d, <3>e, FirstIndexIs
    <3> HIDE DEF d
    <3>4. c + 1 \in 1..(Len(sm) + 1) /\ d - 1 \in 0..Len(sm)
      BY <3>d, <3>2, <3>3 DEF n
    <3>5. SubSeq(sm, c + 1, d - 1) \in Seq(Memo)
      BY <1>9, <3>4, StretchType
    <3> QED
      BY <2>1, <2>4, <3>5 
  <2> QED
    BY <2>3, <2>4
<1>11. ResultLines(w) \in Seq(Lines)
  <2> DEFINE pcs == [i \in DOMAIN w |-> IF w[i].shape = "text" /\ Reported(w, i) THEN <<w[i]>> ELSE << >>]
  <2>1. ResultLines(w) = Joined(pcs)
    BY DEF ResultLines
  <2>2. \A i \in 1..m : pcs[i] = <<w[i]>> \/ pcs[i] = << >>
    BY <1>6
  <2>3. DOMAIN pcs = 1..m /\ pcs = [i \in 1..m |-> pcs[i]]
    BY <1>6
  <2> HIDE DEF pcs
  <2>4. ASSUME NEW i \in 1..m PROVE pcs[i] \in Seq(Lines)
    <3>1. w[i] \in Lines
      BY <1>5
    <3>2. << >> \in Seq(Lines)
      BY EmptySeq
    <3> DEFINE x == w[i]
    <3>3. pcs[i] = <<x>> \/ pcs[i] = << >>
      BY <2>2
    <3> HIDE DEF x
    <3>4. <<x>> \in Seq(Lines)
      BY <3>1 DEF x
    <3> QED
      BY <3>2, <3>3, <3>4
  <2>5. pcs \in [1..m -> Seq(Lines)]
    BY <2>3, <2>4
  <2>6. pcs \in Seq(Seq(Lines))
    BY <1>2, <2>5
  <2> QED
    BY <2>1, <2>6, JoinedType
<1> QED
  BY <1>9, <1>10, <1>11 DEF sm

(* One line added in a section, and the quoted header lines of a note.         *)
LEMMA GrownBy ==
  ASSUME NEW b \in Fronts, NEW s \in SectionSet, NEW x \in Running
  PROVE  /\ Put(b, s, b[s] \o <<x>>) \in Fronts
         /\ \A t \in SectionSet \ {s} : Put(b, s, b[s] \o <<x>>)[t] = b[t]
         /\ b[s] \in Seq(Memo) /\ x \in Memo => Put(b, s, b[s] \o <<x>>)[s] \in Seq(Memo)
         /\ \A T : Select(Put(b, s, b[s] \o <<x>>)[s], T) =
                     IF x \in T THEN Append(Select(b[s], T), x) ELSE Select(b[s], T)
<1> DEFINE B == b[s]
           C == B \o <<x>>
           b1 == [b EXCEPT ![s] = C]
<1>1. B \in Seq(Running)
  BY DEF Fronts
<1>2. b1[s] = C /\ \A t \in SectionSet \ {s} : b1[t] = b[t]
  BY DEF Fronts
<1>3. C = Append(B, x)
  <2> HIDE DEF B
  <2> QED
    BY <1>1, AppendIsConcat
<1>4. C \in Seq(Running)
  <2> HIDE DEF B
  <2>1. Append(B, x) \in Seq(Running)
    BY <1>1, AppendProperties
  <2> HIDE DEF C
  <2> QED
    BY <1>3, <2>1
<1>5. b1 \in Fronts
  <2> HIDE DEF C
  <2> QED
    BY <1>4 DEF Fronts
<1>6. ASSUME B \in Seq(Memo), x \in Memo PROVE C \in Seq(Memo)
  <2> HIDE DEF B
  <2>1. Append(B, x) \in Seq(Memo)
    BY <1>6, AppendProperties
  <2> HIDE DEF C
  <2> QED
    BY <1>3, <2>1
<1>7. ASSUME NEW T PROVE Select(C, T) = IF x \in T THEN Append(Select(B, T), x) ELSE Select(B, T)
  <2> HIDE DEF B
  <2>1. Select(Append(B, x), T) = IF x \in T THEN Append(Select(B, T), x) ELSE Select(B, T)
    BY <1>1, SelectAppend
  <2> HIDE DEF C
  <2> QED
    BY <1>3, <2>1
<1> HIDE DEF C
<1>8. \A T : Select(b1[s], T) = IF x \in T THEN Append(Select(B, T), x) ELSE Select(B, T)
  BY <1>2, <1>7
<1>9. B \in Seq(Memo) /\ x \in Memo => b1[s] \in Seq(Memo)
  BY <1>2, <1>6
<1> HIDE DEF b1
<1> QED
  BY <1>2, <1>5, <1>8, <1>9 DEF b1, C, Put

(* A section found, a line added to it and quotes behind.                      *)
LEMMA LineAdded ==
  ASSUME NEW b \in Fronts, NEW q \in Quotes, NEW s \in SectionSet, NEW x \in Running,
         NEW d \in Seq(QuotedLines)
  PROVE  \E q1 \in Quotes : Add(Filed(b, q), s, <<x>> \o d) = Filed(Put(b, s, b[s] \o <<x>>), q1)
<1> DEFINE e == <<x>>
           ed == e \o d
           be == b[s] \o e
           dq == d \o q[s]
           q1 == Put(q, s, dq)
<1>1. e \in Seq(Running)
  OBVIOUS
<1> HIDE DEF e
<1>2. Add(Filed(b, q), s, ed) = Filed(Put(b, s, be), Put(q, s, dq))
  <2>1. AddIs(b, q, s, e, d)
    BY <1>1, FiledEdits
  <2> QED
    BY <2>1 DEF AddIs
<1>3. q1 \in Quotes
  <2> DEFINE Q == q[s]
             D == d \o Q
  <2>1. Q \in Seq(QuotedLines)
    BY DEF Quotes
  <2> HIDE DEF Q
  <2>2. D \in Seq(QuotedLines)
    BY <2>1, ConcatProperties
  <2>3. q1 = [q EXCEPT ![s] = D]
    BY DEF Q, Put
  <2> HIDE DEF D, q1
  <2> QED
    BY <2>2, <2>3 DEF Quotes
<1> QED
  BY <1>2, <1>3 DEF e

(* A note, a ledger line: the section gains it at its end. *)
LEMMA NoteStands ==
  ASSUME NEW b \in Fronts, NEW q \in Quotes, NEW led, NEW nts \in [SectionSet -> Seq(Lines)],
         NEW n, Kept(b, led, nts, n), NEW s \in SectionSet, NEW x \in Memo, x \in NoteLines,
         NEW d \in Seq(QuotedLines)
  PROVE  Stands(Add(Filed(b, q), s, <<x>> \o d), led, [nts EXCEPT ![s] = Append(@, x)], n)
<1> DEFINE b1 == Put(b, s, b[s] \o <<x>>)
           nts1 == [nts EXCEPT ![s] = Append(nts[s], x)]
<1>1. x \in Running /\ x \notin LedgerLines /\ x \notin CompactionBlocks
  BY KindsApart
<1>2. PICK q1 \in Quotes : Add(Filed(b, q), s, <<x>> \o d) = Filed(b1, q1)
  BY <1>1, LineAdded
<1>3. b1 \in Fronts /\ \A t \in SectionSet \ {s} : b1[t] = b[t]
  BY <1>1, GrownBy
<1>4. b[s] \in Seq(Memo) => b1[s] \in Seq(Memo)
  BY <1>1, GrownBy
<1>5. \A T : Select(b1[s], T) = IF x \in T THEN Append(Select(b[s], T), x) ELSE Select(b[s], T)
  BY <1>1, GrownBy
<1>6. nts1[s] = Append(nts[s], x) /\ \A t \in SectionSet \ {s} : nts1[t] = nts[t]
  OBVIOUS
<1>7. /\ \A t \in SectionSet \ {"log"} : b[t] \in Seq(Memo)
      /\ \A t \in {"facts", "hypotheses"} : Select(b[t], NoteLines) = nts[t]
      /\ Select(b["log"], LedgerLines) = led
      /\ Select(b["log"], CompactionBlocks) = [i \in 1..n |-> Block("compaction", i)]
  BY DEF Kept
<1>8. "log" \in SectionSet /\ "facts" \in SectionSet /\ "hypotheses" \in SectionSet
  BY DEF SectionSet
<1> HIDE DEF b1, nts1
<1>9. ASSUME NEW t \in SectionSet \ {"log"} PROVE b1[t] \in Seq(Memo)
  BY <1>3, <1>4, <1>7
<1>10. ASSUME NEW t \in {"facts", "hypotheses"} PROVE Select(b1[t], NoteLines) = nts1[t]
  <2>1. t \in SectionSet /\ Select(b[t], NoteLines) = nts[t]
    BY <1>7, <1>8
  <2>2. CASE t = s
    BY <1>5, <1>6, <2>1, <2>2
  <2>3. CASE t # s
    BY <1>3, <1>6, <2>1, <2>3
  <2> QED
    BY <2>2, <2>3
<1>11. ASSUME NEW T, x \notin T PROVE Select(b1["log"], T) = Select(b["log"], T)
  BY <1>3, <1>5, <1>8, <1>11
<1>12. Kept(b1, led, nts1, n)
  BY <1>1, <1>7, <1>9, <1>10, <1>11 DEF Kept
<1>13. Stands(Filed(b1, q1), led, nts1, n)
  BY <1>3, <1>12 DEF Stands
<1> QED
  BY <1>2, <1>13 DEF nts1

LEMMA RecordStands ==
  ASSUME NEW b \in Fronts, NEW q \in Quotes, NEW led, NEW nts, NEW n, Kept(b, led, nts, n),
         NEW x \in Running, x \in LedgerLines
  PROVE  Stands(Add(Filed(b, q), "log", <<x>>), Append(led, x), nts, n)
<1> DEFINE s == "log"
           e == <<x>>
           nil == << >>
           b1 == Put(b, s, b[s] \o <<x>>)
<1>1. x \notin CompactionBlocks /\ s \in SectionSet
  BY KindsApart DEF SectionSet
<1>2. nil \in Seq(QuotedLines) /\ e \o nil = e
  BY EmptySeq, ConcatEmptySeq
<1> HIDE DEF s, nil
<1>3. PICK q1 \in Quotes : Add(Filed(b, q), s, <<x>> \o nil) = Filed(b1, q1)
  BY <1>1, <1>2, LineAdded
<1>4. b1 \in Fronts /\ \A t \in SectionSet \ {s} : b1[t] = b[t]
  BY <1>1, GrownBy
<1>5. \A T : Select(b1[s], T) = IF x \in T THEN Append(Select(b[s], T), x) ELSE Select(b[s], T)
  BY <1>1, GrownBy
<1>7. /\ \A t \in SectionSet \ {s} : b[t] \in Seq(Memo)
      /\ \A t \in {"facts", "hypotheses"} : Select(b[t], NoteLines) = nts[t]
      /\ Select(b[s], LedgerLines) = led
      /\ Select(b[s], CompactionBlocks) = [i \in 1..n |-> Block("compaction", i)]
  BY DEF Kept, s
<1>8. \A t \in {"facts", "hypotheses"} : t \in SectionSet \ {s}
  BY DEF SectionSet, s
<1> HIDE DEF b1
<1>9. /\ \A t \in SectionSet \ {s} : b1[t] \in Seq(Memo)
      /\ \A t \in {"facts", "hypotheses"} : Select(b1[t], NoteLines) = nts[t]
  BY <1>4, <1>7, <1>8
<1>10. Select(b1[s], LedgerLines) = Append(led, x)
  BY <1>5, <1>7
<1>11. Select(b1[s], CompactionBlocks) = [i \in 1..n |-> Block("compaction", i)]
  BY <1>1, <1>5, <1>7
<1>12. Kept(b1, Append(led, x), nts, n)
  BY <1>9, <1>10, <1>11 DEF Kept, s
<1>13. Stands(Filed(b1, q1), Append(led, x), nts, n)
  BY <1>4, <1>12 DEF Stands
<1> QED
  BY <1>2, <1>3, <1>13 DEF s

(* The file behind a compaction: the Log with the new block, pruned, and the   *)
(* Todo section as it was or replaced.                                         *)
LogIs(B, b, m, sm) == B["log"] = Pruned(b["log"] \o (<<Block("compaction", m)>> \o sm))
OthersAre(B, b, un) ==
  /\ \A s \in {"facts", "hypotheses"} : B[s] = b[s]
  /\ B["todo"] = b["todo"] \/ B["todo"] = un
LEMMA CompactedIs ==
  ASSUME NEW b \in Fronts, NEW q \in Quotes, NEW m \in Nat, m > 0,
         NEW sm \in Seq(Memo), Unfinished(sm) \in Seq(Memo)
  PROVE  \E B \in Fronts : /\ Compacted(Filed(b, q), m, sm) = Filed(B, q)
                           /\ LogIs(B, b, m, sm) /\ OthersAre(B, b, Unfinished(sm))
<1> DEFINE x == Block("compaction", m)
           h == <<x>>
           blk == h \o sm
           L == b["log"]
           L1 == L \o blk
           un == Unfinished(sm)
           P == Pruned(L1)
           ls == Filed(b, q)
           ls1 == AddBlock(ls, m, sm)
           ls2 == SetTodo(ls1, sm)
           b1 == Put(b, "log", L1)
           b2 == IF un = << >> THEN b1 ELSE Put(b1, "todo", un)
           b3 == Put(b2, "log", P)
           nil == << >>
           dq == nil \o q["log"]
<1>1. "log" \in SectionSet /\ "todo" \in SectionSet /\ "facts" \in SectionSet /\ "hypotheses" \in SectionSet
  BY DEF SectionSet
<1>2. m \in Nat /\ m > 0
  OBVIOUS
<1>3. Compacted(Filed(b, q), m, sm) = PruneLog(ls2)
  BY DEF Compacted
<1>4. ls1 = Add(ls, "log", blk)
  BY DEF AddBlock
<1>5. ls2 = IF un = << >> THEN ls1 ELSE ReplaceSection(ls1, "todo", un)
  BY DEF SetTodo
<1>6. HasSection(ls2, "log") => PruneLog(ls2) = ReplaceSection(ls2, "log", Pruned(SectionBody(ls2, "log")))
  BY DEF PruneLog
<1>8. L \in Seq(Running)
  BY <1>1 DEF Fronts
<1>9. x \in Running
  BY <1>2, LinesMade
<1> HIDE DEF x
<1>10. h \in Seq(Running)
  BY <1>9
<1>11. sm \in Seq(Running) /\ un \in Seq(Running)
  <2>1. Memo \subseteq Running
    BY KindsApart
  <2> HIDE DEF un
  <2>2. un \in Seq(Memo)
    BY DEF un
  <2> QED
    BY <2>1, <2>2, SeqMonotonic
<1> HIDE DEF h, L, un, nil
<1>14. nil \in Seq(Running) /\ nil \in Seq(QuotedLines) /\ blk \in Seq(Running) /\ blk \o nil = blk
  <2>1. nil \in Seq(Running) /\ nil \in Seq(QuotedLines)
    BY EmptySeq DEF nil
  <2>2. blk \in Seq(Running)
    BY <1>10, <1>11, ConcatProperties
  <2> HIDE DEF blk
  <2> QED
    BY <2>1, <2>2, ConcatEmptySeq DEF nil
<1> HIDE DEF blk
<1>16. L1 \in Seq(Running)
  BY <1>8, <1>14, ConcatProperties
<1> HIDE DEF L1
<1>18. P \in Seq(Running)
  BY <1>16, PrunedKeeps
<1>19. b1 \in Fronts /\ b1["log"] = L1 /\ \A s \in SectionSet \ {"log"} : b1[s] = b[s]
  BY <1>16 DEF Fronts, Put, SectionSet
<1>20. ls1 = Filed(b1, q)
  <2>1. AddIs(b, q, "log", blk, nil)
    BY <1>1, <1>14, FiledEdits
  <2>2. Add(Filed(b, q), "log", blk \o nil) = Filed(Put(b, "log", b["log"] \o blk), Put(q, "log", dq))
    BY <2>1 DEF AddIs
  <2>3. q["log"] \in Seq(QuotedLines)
    BY <1>1 DEF Quotes
  <2>4. dq = q["log"]
    BY <2>3, ConcatEmptySeq DEF nil
  <2> HIDE DEF dq
  <2>5. Put(q, "log", dq) = q
    BY <1>1, <2>4 DEF Put, Quotes
  <2> QED
    BY <1>4, <1>14, <2>2, <2>5 DEF L, L1
<1> HIDE DEF b1, ls1, dq
<1>21. b2 \in Fronts /\ b2["log"] = L1 /\ (\A s \in {"facts", "hypotheses"} : b2[s] = b[s])
       /\ (un = << >> => b2 = b1) /\ (un # << >> => b2 = Put(b1, "todo", un))
       /\ (b2["todo"] = b["todo"] \/ b2["todo"] = un)
  BY <1>11, <1>19 DEF Fronts, Put, SectionSet
<1> HIDE DEF b2
<1>22. ls2 = Filed(b2, q)
  <2>1. CASE un = << >>
    BY <1>5, <1>20, <1>21, <2>1
  <2>2. CASE un # << >>
    <3>1. ReplaceSection(Filed(b1, q), "todo", un) = Filed(Put(b1, "todo", un), q)
      <4>1. ReplaceIs(b1, q, "todo", un)
        BY <1>1, <1>11, <1>14, <1>19, FiledEdits
      <4> QED
        BY <4>1 DEF ReplaceIs
    <3> QED
      BY <1>5, <1>20, <1>21, <2>2, <3>1
  <2> QED
    BY <2>1, <2>2
<1> HIDE DEF ls2
<1>23. HasSection(Filed(b2, q), "log") /\ SectionBody(Filed(b2, q), "log") = L1
  BY <1>1, <1>14, <1>21, FiledEdits
<1>24. ReplaceSection(Filed(b2, q), "log", P) = Filed(b3, q)
  <2> HIDE DEF P
  <2>1. ReplaceIs(b2, q, "log", P)
    BY <1>1, <1>14, <1>18, <1>21, FiledEdits
  <2> QED
    BY <2>1 DEF ReplaceIs
<1>25. PruneLog(ls2) = Filed(b3, q)
  BY <1>6, <1>22, <1>23, <1>24
<1> HIDE DEF P
<1>26. b3 \in Fronts /\ b3["log"] = P /\ \A s \in SectionSet \ {"log"} : b3[s] = b2[s]
  BY <1>18, <1>21 DEF Fronts, Put, SectionSet
<1> HIDE DEF b3
<1>27. LogIs(b3, b, m, sm)
  BY <1>26 DEF LogIs, P, L1, L, blk, h, x
<1>28. OthersAre(b3, b, un)
  BY <1>1, <1>21, <1>26 DEF OthersAre
<1> QED
  BY <1>3, <1>25, <1>26, <1>27, <1>28 DEF un

(* A compaction: its block in the Log, the Todo section, the Log pruned.       *)
LEMMA BlockStands ==
  ASSUME NEW b \in Fronts, NEW q \in Quotes, NEW led, NEW nts, NEW n \in Nat, Kept(b, led, nts, n),
         NEW sm \in Seq(Memo), Unfinished(sm) \in Seq(Memo)
  PROVE  Stands(Compacted(Filed(b, q), n + 1, sm), led, nts, n + 1)
<1> DEFINE m == n + 1
           x == Block("compaction", m)
           h == <<x>>
           blk == h \o sm
           L == b["log"]
           L1 == L \o blk
           un == Unfinished(sm)
           P == Pruned(L1)
           nil == << >>
<1>1. "log" \in SectionSet
  BY DEF SectionSet
<1>2. m \in Nat /\ m > 0
  OBVIOUS
<1>7. /\ \A s \in SectionSet \ {"log"} : b[s] \in Seq(Memo)
      /\ \A s \in {"facts", "hypotheses"} : Select(b[s], NoteLines) = nts[s]
      /\ Select(L, LedgerLines) = led
      /\ Select(L, CompactionBlocks) = [i \in 1..n |-> Block("compaction", i)]
  BY DEF Kept
<1>8. L \in Seq(Running)
  BY <1>1 DEF Fronts
<1> HIDE DEF m
<1>3. PICK B \in Fronts : /\ Compacted(Filed(b, q), m, sm) = Filed(B, q)
                          /\ LogIs(B, b, m, sm) /\ OthersAre(B, b, un)
  BY <1>2, CompactedIs
<1>4. B["log"] = P
  BY <1>3 DEF LogIs
<1>5. (\A s \in {"facts", "hypotheses"} : B[s] = b[s]) /\ (B["todo"] = b["todo"] \/ B["todo"] = un)
  BY <1>3 DEF OthersAre
<1>9. x \in CompactionBlocks /\ x \in Running /\ x \notin LedgerLines
  <2>1. x \in CompactionBlocks /\ x \in Running
    BY <1>2, LinesMade
  <2> QED
    BY <2>1, KindsApart
<1> HIDE DEF x
<1>10. h \in Seq(Running) /\ Select(h, LedgerLines) = nil /\ Select(h, CompactionBlocks) = h
  <2>1. h \in Seq(Running)
    BY <1>9
  <2>2. Select(h, LedgerLines) = << >> /\ Select(h, CompactionBlocks) = <<x>>
    BY <1>9, SelectOne
  <2> QED
    BY <2>1, <2>2
<1>11. sm \in Seq(Running)
  BY KindsApart, SeqMonotonic
<1>12. Select(sm, LedgerLines) = nil /\ Select(sm, CompactionBlocks) = nil
  BY KindsApart, SelectNone
<1> HIDE DEF h, L, un, nil
<1>13. nil \in Seq(Running) /\ h \o nil = h /\ nil \o nil = nil
  <2>1. nil \in Seq(Running)
    BY EmptySeq DEF nil
  <2> QED
    BY <1>10, <2>1, ConcatEmptySeq DEF nil
<1>15. /\ blk \in Seq(Running)
       /\ Select(blk, LedgerLines) = nil /\ Select(blk, CompactionBlocks) = h
  <2>1. h \in Seq(Running) /\ sm \in Seq(Running)
    BY <1>10, <1>11
  <2>2. blk \in Seq(Running)
    BY <2>1, ConcatProperties
  <2>3. Select(blk, LedgerLines) = Select(h, LedgerLines) \o Select(sm, LedgerLines)
    BY <2>1, SelectConcat
  <2>4. Select(blk, CompactionBlocks) = Select(h, CompactionBlocks) \o Select(sm, CompactionBlocks)
    BY <2>1, SelectConcat
  <2> HIDE DEF blk
  <2> QED
    BY <1>10, <1>12, <1>13, <2>2, <2>3, <2>4
<1> HIDE DEF blk
<1>16. /\ L1 \in Seq(Running) /\ Select(L1, LedgerLines) = led
       /\ Select(L1, CompactionBlocks) = Select(L, CompactionBlocks) \o h
  <2>1. L \in Seq(Running) /\ blk \in Seq(Running)
    BY <1>8, <1>15
  <2>2. L1 \in Seq(Running)
    BY <2>1, ConcatProperties
  <2>3. Select(L1, LedgerLines) = Select(L, LedgerLines) \o Select(blk, LedgerLines)
    BY <2>1, SelectConcat
  <2>4. Select(L1, CompactionBlocks) = Select(L, CompactionBlocks) \o Select(blk, CompactionBlocks)
    BY <2>1, SelectConcat
  <2>5. Select(L, LedgerLines) \in Seq(Running)
    BY <2>1, SelectType
  <2>6. Select(L, LedgerLines) \o nil = Select(L, LedgerLines)
    BY <2>5, ConcatEmptySeq DEF nil
  <2> HIDE DEF L1
  <2> QED
    BY <1>7, <1>15, <2>2, <2>3, <2>4, <2>6
<1> HIDE DEF L1
<1>17. Select(L1, CompactionBlocks) = [i \in 1..m |-> Block("compaction", i)]
  <2> DEFINE F == [i \in 1..n |-> Block("compaction", i)]
             G == [i \in 1..m |-> Block("compaction", i)]
  <2>1. \A i \in 1..n : Block("compaction", i) \in Lines
    BY DEF Block, Line, Lines, Shapes, Marks
  <2>2. F \in Seq(Lines) /\ Len(F) = n
    BY <2>1
  <2>3. x \in Lines
    BY <1>9 DEF Running
  <2>4. Append(F, x) = F \o h
    <3> HIDE DEF F
    <3> QED
      BY <2>2, <2>3, AppendIsConcat DEF h
  <2>5. Append(F, x) = G
    BY <1>2, <2>2 DEF m, x
  <2> QED
    BY <1>7, <1>16, <2>4, <2>5
<1>18. Select(P, LedgerLines) = led
       /\ Select(P, CompactionBlocks) = [i \in 1..m |-> Block("compaction", i)]
  <2>1. \A S \in KeptSets : Select(P, S) = Select(L1, S)
    BY <1>16, PrunedKeeps
  <2> HIDE DEF P
  <2>2. Select(P, LedgerLines) = Select(L1, LedgerLines) /\ Select(P, CompactionBlocks) = Select(L1, CompactionBlocks)
    BY <2>1 DEF KeptSets
  <2> QED
    BY <1>16, <1>17, <2>2
<1> HIDE DEF P
<1>27. Kept(B, led, nts, m)
  <2>1. un \in Seq(Memo)
    BY DEF un
  <2>2. ASSUME NEW s \in SectionSet \ {"log"} PROVE B[s] \in Seq(Memo)
    <3>1. s \in {"facts", "hypotheses", "todo"} /\ b[s] \in Seq(Memo)
      BY <1>7 DEF SectionSet
    <3> QED
      BY <1>5, <2>1, <3>1
  <2>3. ASSUME NEW s \in {"facts", "hypotheses"} PROVE Select(B[s], NoteLines) = nts[s]
    BY <1>5, <1>7
  <2> QED
    BY <1>4, <1>18, <2>2, <2>3 DEF Kept
<1>28. Stands(Filed(B, q), led, nts, m)
  BY <1>27 DEF Stands
<1> QED
  BY <1>3, <1>28 DEF m

(* A rewrite of the whole file that keeps what is worth keeping.               *)
LEMMA RewriteStands ==
  ASSUME NEW b \in Fronts, NEW q \in Quotes, NEW led, NEW nts, NEW n, Kept(b, led, nts, n), NEW W,
         \A s \in SectionSet : Header(s) \in W, \A l \in QuotedLines : l \in W,
         \A l \in Running : l \in LedgerLines \/ l \in CompactionBlocks \/ l \in NoteLines => l \in W
  PROVE  Stands(Select(Filed(b, q), W), led, nts, n)
<1> DEFINE g == [s \in SectionSet |-> Select(b[s], W)]
<1>1. Select(Filed(b, q), W) = Filed(g, q) /\ g \in Fronts
  BY FiledWorth
<1>2. /\ \A s \in SectionSet \ {"log"} : b[s] \in Seq(Memo)
      /\ \A s \in {"facts", "hypotheses"} : Select(b[s], NoteLines) = nts[s]
      /\ Select(b["log"], LedgerLines) = led
      /\ Select(b["log"], CompactionBlocks) = [i \in 1..n |-> Block("compaction", i)]
  BY DEF Kept
<1>3. \A s \in SectionSet : g[s] = Select(b[s], W)
  OBVIOUS
<1>4. ASSUME NEW s \in SectionSet, NEW T \in {LedgerLines, CompactionBlocks, NoteLines}
      PROVE  Select(g[s], T) = Select(b[s], T)
  <2>1. b[s] \in Seq(Running)
    BY DEF Fronts
  <2>2. \A l \in Running : l \in T => l \in W
    OBVIOUS
  <2>3. Select(Select(b[s], W), T) = Select(b[s], T)
    BY <2>1, <2>2, SelectNested
  <2> QED
    BY <1>3, <2>3
<1>5. ASSUME NEW s \in SectionSet \ {"log"} PROVE g[s] \in Seq(Memo)
  <2>1. b[s] \in Seq(Memo)
    BY <1>2
  <2>2. Select(b[s], W) \in Seq(Memo)
    BY <2>1, SelectType
  <2> QED
    BY <1>3, <2>2
<1> HIDE DEF g
<1>6. "log" \in SectionSet /\ \A s \in {"facts", "hypotheses"} : s \in SectionSet
  BY DEF SectionSet
<1>7. Kept(g, led, nts, n)
  BY <1>2, <1>4, <1>5, <1>6 DEF Kept
<1> QED
  BY <1>1, <1>7 DEF Stands

(* Tuples as concatenations. *)
LEMMA FourLines ==
  ASSUME NEW a, NEW b, NEW c, NEW d
  PROVE  <<a>> \o (<<b>> \o (<<c>> \o <<d>>)) = <<a, b, c, d>>
<1> DEFINE X == {a, b, c, d}
           A == <<a>>
           B == <<b>>
           C == <<c>>
           D == <<d>>
           CD == C \o D
           BCD == B \o CD
           t == <<a, b, c, d>>
<1>1. /\ A \in Seq(X) /\ Len(A) = 1 /\ A[1] = a
      /\ B \in Seq(X) /\ Len(B) = 1 /\ B[1] = b
      /\ C \in Seq(X) /\ Len(C) = 1 /\ C[1] = c
      /\ D \in Seq(X) /\ Len(D) = 1 /\ D[1] = d
  OBVIOUS
<1>2. t \in Seq(X) /\ Len(t) = 4 /\ t[1] = a /\ t[2] = b /\ t[3] = c /\ t[4] = d
  OBVIOUS
<1> HIDE DEF A, B, C, D, X, t
<1>3. CD \in Seq(X) /\ Len(CD) = 2 /\ CD[1] = c /\ CD[2] = d
  BY <1>1, ConcatProperties
<1> HIDE DEF CD
<1>4. BCD \in Seq(X) /\ Len(BCD) = 3 /\ BCD[1] = b /\ BCD[2] = c /\ BCD[3] = d
  <2>1. B \in Seq(X) /\ CD \in Seq(X)
    BY <1>1, <1>3
  <2>2. /\ BCD \in Seq(X) /\ Len(BCD) = Len(B) + Len(CD)
        /\ \A i \in 1..Len(B) + Len(CD) : BCD[i] = IF i <= Len(B) THEN B[i] ELSE CD[i - Len(B)]
    BY <2>1, ConcatProperties
  <2> HIDE DEF BCD
  <2>3. Len(B) = 1 /\ Len(CD) = 2
    BY <1>1, <1>3
  <2>4. \A i \in 1..1 + 2 : BCD[i] = IF i <= 1 THEN B[i] ELSE CD[i - 1]
    BY <2>2, <2>3
  <2> QED
    BY <1>1, <1>3, <2>2, <2>3, <2>4
<1> HIDE DEF BCD
<1> DEFINE z == A \o BCD
<1>5. z \in Seq(X) /\ Len(z) = 4 /\ z[1] = a /\ z[2] = b /\ z[3] = c /\ z[4] = d
  <2>1. A \in Seq(X) /\ BCD \in Seq(X)
    BY <1>1, <1>3, <1>4
  <2>2. /\ z \in Seq(X) /\ Len(z) = Len(A) + Len(BCD)
        /\ \A i \in 1..Len(A) + Len(BCD) : z[i] = IF i <= Len(A) THEN A[i] ELSE BCD[i - Len(A)]
    BY <2>1, ConcatProperties
  <2> HIDE DEF z
  <2>3. Len(A) = 1 /\ Len(BCD) = 3
    BY <1>1, <1>3, <1>4
  <2>4. \A i \in 1..1 + 3 : z[i] = IF i <= 1 THEN A[i] ELSE BCD[i - 1]
    BY <2>2, <2>3
  <2> QED
    BY <1>1, <1>3, <1>4, <2>2, <2>3, <2>4
<1> HIDE DEF z
<1>6. z = t
  <2>1. ASSUME NEW i \in 1..4 PROVE z[i] = t[i]
    <3>1. i = 1 \/ i = 2 \/ i = 3 \/ i = 4
      OBVIOUS
    <3> QED
      BY <1>2, <1>5, <3>1
  <2> QED
    BY <1>2, <1>5, <2>1, SeqEqual
<1> QED
  BY <1>6 DEF z, t, A, B, C, D, CD, BCD

(* ensure writes the four headers and nothing else. *)
LEMMA NewFile ==
  ASSUME CaseInit
  PROVE  \E b \in Fronts : b \in Quotes /\ lines = Filed(b, b) /\ \A s \in SectionSet : b[s] = << >>
<1> DEFINE nil == << >>
           b == [s \in SectionSet |-> nil]
           a1 == Header("facts")
           a2 == Header("hypotheses")
           a3 == Header("todo")
           a4 == Header("log")
<1>1. b \in Fronts /\ b \in Quotes
  <2>1. nil \in Seq(Running) /\ nil \in Seq(QuotedLines)
    BY EmptySeq
  <2> HIDE DEF nil
  <2> QED
    BY <2>1 DEF Fronts, Quotes
<1>2. ASSUME NEW s \in SectionSet PROVE Titled(s, nil \o nil) = <<Header(s)>>
  <2> DEFINE H == <<Header(s)>>
  <2>1. Header(s) \in Lines
    BY HeaderIs
  <2>2. H \in Seq(Lines) /\ nil \in Seq(Lines)
    BY <2>1, EmptySeq
  <2>3. Titled(s, nil \o nil) = H \o (nil \o nil)
    BY DEF Titled
  <2> HIDE DEF H
  <2>4. nil \o nil = nil /\ H \o nil = H
    BY <2>2, ConcatEmptySeq
  <2> HIDE DEF nil
  <2>5. Titled(s, nil \o nil) = H
    BY <2>3, <2>4
  <2> QED
    BY <2>5 DEF H
<1>3. Filed(b, b) = <<a1>> \o (<<a2>> \o (<<a3>> \o <<a4>>))
  <2> DEFINE f == [s \in SectionSet |-> b[s] \o b[s]]
  <2>1. \A s \in SectionSet : f[s] = nil \o nil
    OBVIOUS
  <2>2. Filed(b, b) = File(f)
    BY DEF Filed
  <2> HIDE DEF f, nil
  <2>3. \A s \in SectionSet : Titled(s, f[s]) = <<Header(s)>>
    BY <1>2, <2>1
  <2>4. /\ Titled("facts", f["facts"]) = <<a1>> /\ Titled("hypotheses", f["hypotheses"]) = <<a2>>
        /\ Titled("todo", f["todo"]) = <<a3>> /\ Titled("log", f["log"]) = <<a4>>
    BY <2>3 DEF SectionSet
  <2> QED
    BY <2>2, <2>4 DEF File
<1>4. <<a1>> \o (<<a2>> \o (<<a3>> \o <<a4>>)) = <<a1, a2, a3, a4>>
  BY FourLines
<1>5. lines = Filed(b, b)
  BY <1>3, <1>4 DEF CaseInit
<1>6. \A s \in SectionSet : b[s] = << >>
  OBVIOUS
<1> HIDE DEF b
<1> QED
  BY <1>1, <1>5, <1>6

(* A file of four sections is a sequence of lines. *)
LEMMA FiledLines ==
  ASSUME NEW b \in Fronts, NEW q \in Quotes
  PROVE  Filed(b, q) \in Seq(Lines)
<1> DEFINE f == [s \in SectionSet |-> b[s] \o q[s]]
<1>1. f \in Bodies
  <2>1. ASSUME NEW s \in SectionSet PROVE b[s] \o q[s] \in Seq(Plain)
    <3>1. b[s] \in Seq(Running) /\ q[s] \in Seq(QuotedLines)
      BY DEF Fronts, Quotes
    <3> QED
      BY <3>1, CutAt
  <2> QED
    BY <2>1 DEF Bodies
<1>2. Filed(b, q) = File(f)
  BY DEF Filed
<1> HIDE DEF f
<1>3. "facts" \in SectionSet
  BY DEF SectionSet
<1> QED
  BY <1>1, <1>2, <1>3, FileHeaders

(* The new file keeps what there is to keep. *)
LEMMA CaseInitInv == CaseInit => CaseInv
<1> SUFFICES ASSUME CaseInit PROVE CaseInv
  OBVIOUS
<1> DEFINE nil == << >>
<1>1. CaseTypes
  <2>1. nil \in Seq(Lines)
    BY EmptySeq
  <2>2. events = 0 /\ compactions = 0 /\ MaxEvents \in Nat
    BY CaseFileAssumption DEF CaseInit
  <2>3. events \in 0..MaxEvents /\ compactions \in 0..events
    BY <2>2
  <2>4. ledger = nil /\ noted = [s \in SectionSet |-> nil] /\ results = nil
    BY DEF CaseInit
  <2> HIDE DEF nil
  <2>5. ledger \in Seq(Lines) /\ noted \in [SectionSet -> Seq(Lines)] /\ results \in Seq(Lines)
    BY <2>1, <2>4
  <2>6. lines \in Seq(Lines)
    <3>1. PICK b \in Fronts : b \in Quotes /\ lines = Filed(b, b)
      BY NewFile
    <3> QED
      BY <3>1, FiledLines
  <2>7. faithful \in BOOLEAN /\ posed \in BOOLEAN
    BY DEF CaseInit
  <2> QED
    BY <2>3, <2>5, <2>6, <2>7 DEF CaseTypes
<1>2. PICK b \in Fronts : b \in Quotes /\ lines = Filed(b, b) /\ \A s \in SectionSet : b[s] = nil
  BY NewFile
<1>3. Kept(b, ledger, noted, compactions)
  <2>1. \A T : Select(nil, T) = nil
    BY SelectEmpty
  <2>2. nil \in Seq(Memo)
    BY EmptySeq
  <2>3. [i \in 1..0 |-> Block("compaction", i)] = nil
    <3> DEFINE F == [i \in 1..0 |-> Block("compaction", i)]
    <3>1. F \in Seq(Lines) /\ Len(F) = 0
      OBVIOUS
    <3> HIDE DEF F
    <3>2. F = << >>
      BY <3>1, EmptySeq
    <3> QED
      BY <3>2 DEF F
  <2>4. ledger = nil /\ noted = [s \in SectionSet |-> nil] /\ compactions = 0
    BY DEF CaseInit
  <2> HIDE DEF nil
  <2>5. /\ \A s \in SectionSet \ {"log"} : b[s] \in Seq(Memo)
        /\ \A s \in {"facts", "hypotheses"} : Select(b[s], NoteLines) = noted[s]
        /\ Select(b["log"], LedgerLines) = ledger
        /\ Select(b["log"], CompactionBlocks) = nil
    BY <1>2, <2>1, <2>2, <2>4 DEF SectionSet
  <2> QED
    BY <2>3, <2>4, <2>5 DEF Kept
<1> HIDE DEF nil
<1>4. Stands(lines, ledger, noted, compactions)
  BY <1>2, <1>3 DEF Stands
<1> QED
  BY <1>1, <1>4 DEF CaseInv, InForm

-----------------------------------------------------------------------------
(* Each operation keeps the invariant. *)
LEMMA Eventful == CaseTypes /\ Happens => events \in Nat /\ events' \in 1..MaxEvents /\ events' \in Nat
                                          /\ events' > 0 /\ compactions \in 0..events' /\ compactions + 1 \in 0..events'
<1> SUFFICES ASSUME CaseTypes, Happens
             PROVE  events \in Nat /\ events' \in 1..MaxEvents /\ events' \in Nat
                    /\ events' > 0 /\ compactions \in 0..events' /\ compactions + 1 \in 0..events'
  OBVIOUS
<1>1. MaxEvents \in Nat
  BY CaseFileAssumption
<1>2. events \in 0..MaxEvents /\ compactions \in 0..events
  BY DEF CaseTypes
<1>3. events < MaxEvents /\ events' = events + 1
  BY DEF Happens
<1> QED
  BY <1>1, <1>2, <1>3

(* A section of any file that has its header line. *)
LEMMA SpanIs ==
  ASSUME NEW ls \in Seq(Lines), NEW s \in SectionSet, HasSection(ls, s)
  PROVE  /\ SectionStart(ls, s) \in 1..Len(ls)
         /\ SectionEnd(ls, s) \in (SectionStart(ls, s) + 1)..(Len(ls) + 1)
         /\ \A i \in (SectionStart(ls, s) + 1)..(SectionEnd(ls, s) - 1) : ~EndsSection(ls[i])
<1> DEFINE n == Len(ls)
           m == n + 1
           S == {i \in DOMAIN ls : ls[i] = Header(s)}
           a == SectionStart(ls, s)
           T == {n + 1} \cup {i \in DOMAIN ls : i > a /\ EndsSection(ls[i])}
           z == SectionEnd(ls, s)
<1>1. n \in Nat /\ DOMAIN ls = 1..n
  BY LenProperties
<1>2. PICK x : x \in S
  BY DEF HasSection
<1>3. S \in SUBSET (1..n)
  BY <1>1
<1>4. a = FirstIndex(S)
  BY DEF SectionStart
<1>5. z = FirstIndex(T)
  BY DEF SectionEnd
<1> HIDE DEF S, n
<1>6. FirstIndex(S) \in S
  BY <1>1, <1>2, <1>3, FirstIndexIs
<1>7. a \in 1..n
  BY <1>3, <1>4, <1>6
<1> HIDE DEF a
<1>8. m \in Nat /\ T \in SUBSET (1..m) /\ m \in T
  BY <1>1
<1> HIDE DEF T, z
<1>9. FirstIndex(T) \in T /\ \A y \in T : FirstIndex(T) <= y
  <2> HIDE DEF m
  <2> QED
    BY <1>8, FirstIndexIs
<1>10. z \in T /\ \A y \in T : z <= y
  BY <1>5, <1>9
<1>11. z \in (a + 1)..(n + 1)
  BY <1>1, <1>7, <1>10 DEF T
<1>12. ASSUME NEW i \in (a + 1)..(z - 1) PROVE ~EndsSection(ls[i])
  <2>1. i \in 1..n /\ i > a /\ i < z
    BY <1>1, <1>7, <1>11
  <2>2. i \notin T
    BY <1>10, <1>11, <2>1
  <2> QED
    BY <1>1, <2>1, <2>2 DEF T
<1> QED
  BY <1>7, <1>11, <1>12 DEF a, z, n

(* What the edits make of any file is a file, and adding loses no header.      *)
LEMMA EditTypes ==
  ASSUME NEW ls \in Seq(Lines), NEW s \in SectionSet, HasSection(ls, s), NEW e \in Seq(Lines)
  PROVE  /\ Add(ls, s, e) \in Seq(Lines) /\ ReplaceSection(ls, s, e) \in Seq(Lines)
         /\ SectionBody(ls, s) \in Seq(Running)
         /\ \A t \in SectionSet : HasSection(ls, t) => HasSection(Add(ls, s, e), t)
<1> DEFINE n == Len(ls)
           a == SectionStart(ls, s)
           z == SectionEnd(ls, s)
           u == SubSeq(ls, 1, z - 1)
           v == SubSeq(ls, z, n)
           w == SubSeq(ls, 1, a)
           b == SubSeq(ls, a + 1, z - 1)
<1>1. n \in Nat /\ DOMAIN ls = 1..n /\ a \in 1..n /\ z \in (a + 1)..(n + 1)
      /\ \A i \in (a + 1)..(z - 1) : ~EndsSection(ls[i])
  BY LenProperties, SpanIs
<1>2. Add(ls, s, e) = u \o e \o v
  BY DEF Add, Splice
<1>4. ReplaceSection(ls, s, e) = w \o e \o v
  <2> DEFINE k == a + 1
  <2>1. ReplaceSection(ls, s, e) = Splice(ls, k, z, e)
    BY DEF ReplaceSection
  <2> HIDE DEF a, z
  <2>2. k - 1 = a
    BY <1>1
  <2> HIDE DEF k
  <2>3. Splice(ls, k, z, e) = SubSeq(ls, 1, k - 1) \o e \o SubSeq(ls, z, n)
    BY DEF Splice
  <2> QED
    BY <2>1, <2>2, <2>3
<1>5. SectionBody(ls, s) = b
  BY DEF SectionBody
<1> HIDE DEF n, a, z
<1>6. u \in Seq(Lines) /\ v \in Seq(Lines) /\ w \in Seq(Lines)
  <2>1. 1 \in 1..(Len(ls) + 1) /\ z - 1 \in 0..Len(ls) /\ z \in 1..(Len(ls) + 1) /\ n \in 0..Len(ls) /\ a \in 0..Len(ls)
    BY <1>1 DEF n
  <2> QED
    BY <2>1, StretchType
<1>7. b \in Seq(Running)
  <2>1. ASSUME NEW i \in (a + 1)..(z - 1) PROVE ls[i] \in Running
    <3>1. i \in 1..Len(ls)
      BY <1>1 DEF n
    <3>2. ls[i] \in Lines
      BY <3>1, ElementOfSeq
    <3> QED
      BY <1>1, <3>2 DEF Running
  <2>2. a + 1 \in Int /\ z - 1 \in Int
    BY <1>1
  <2> QED
    BY <2>1, <2>2, SubSeqProperties
<1>8. /\ Len(u) = z - 1 /\ \A i \in 1..(z - 1) : u[i] = ls[i]
      /\ Len(v) = n - z + 1 /\ \A i \in 1..(n - z + 1) : v[i] = ls[z + i - 1]
  <2>1. \A i \in 1..n : ls[i] \in Lines
    BY ElementOfSeq DEF n
  <2>2. \A i \in 1..(z - 1) : ls[i] \in Lines
    BY <1>1, <2>1
  <2>3. \A i \in z..n : ls[i] \in Lines
    BY <1>1, <2>1
  <2>4. z \in Int /\ z - 1 \in Int /\ n \in Int /\ 1 \in Int
    BY <1>1
  <2>5. Len(u) = (IF 1 <= z - 1 THEN z - 1 - 1 + 1 ELSE 0) /\ \A i \in 1..(z - 1 - 1 + 1) : u[i] = ls[1 + i - 1]
    BY <2>2, <2>4, SubSeqProperties
  <2>6. Len(v) = (IF z <= n THEN n - z + 1 ELSE 0) /\ \A i \in 1..(n - z + 1) : v[i] = ls[z + i - 1]
    BY <2>3, <2>4, SubSeqProperties
  <2> HIDE DEF u, v
  <2>7. Len(u) = z - 1 /\ Len(v) = n - z + 1
    BY <1>1, <2>5, <2>6
  <2>8. ASSUME NEW i \in 1..(z - 1) PROVE u[i] = ls[i]
    <3>1. i \in 1..(z - 1 - 1 + 1) /\ 1 + i - 1 = i
      BY <1>1
    <3> QED
      BY <2>5, <3>1
  <2> QED
    BY <2>6, <2>7, <2>8
<1> HIDE DEF u, v, w, b
<1> DEFINE ue == u \o e
           r == ue \o v
<1>9. /\ ue \in Seq(Lines) /\ Len(ue) = Len(u) + Len(e) /\ \A i \in 1..Len(u) : ue[i] = u[i]
  <2>1. u \in Seq(Lines) /\ e \in Seq(Lines)
    BY <1>6
  <2> QED
    BY <2>1, ConcatProperties
<1> HIDE DEF ue
<1>10. /\ r \in Seq(Lines) /\ Len(r) = Len(ue) + Len(v) /\ \A i \in 1..Len(ue) : r[i] = ue[i]
       /\ \A i \in 1..Len(v) : r[Len(ue) + i] = v[i]
  <2>1. \A i \in 1..(Len(ue) + Len(v)) : r[i] = IF i <= Len(ue) THEN ue[i] ELSE v[i - Len(ue)]
    BY <1>6, <1>9, ConcatProperties
  <2>2. r \in Seq(Lines) /\ Len(r) = Len(ue) + Len(v)
    BY <1>6, <1>9, ConcatProperties
  <2>3. Len(ue) \in Nat /\ Len(v) \in Nat
    BY <1>6, <1>9, LenProperties
  <2> HIDE DEF r
  <2>4. ASSUME NEW i \in 1..Len(ue) PROVE r[i] = ue[i]
    BY <2>1, <2>3
  <2>5. ASSUME NEW i \in 1..Len(v) PROVE r[Len(ue) + i] = v[i]
    <3>1. Len(ue) + i \in 1..(Len(ue) + Len(v)) /\ ~(Len(ue) + i <= Len(ue)) /\ Len(ue) + i - Len(ue) = i
      BY <2>3
    <3> QED
      BY <2>1, <3>1
  <2> QED
    BY <2>2, <2>4, <2>5
<1> HIDE DEF r
<1>11. w \o e \in Seq(Lines)
  BY <1>6, ConcatProperties
<1>12. (w \o e) \o v \in Seq(Lines)
  BY <1>6, <1>11, ConcatProperties
<1>13. Add(ls, s, e) = r
  BY <1>2 DEF r, ue
<1>14. ASSUME NEW t \in SectionSet, HasSection(ls, t) PROVE HasSection(r, t)
  <2>1. PICK i \in 1..n : ls[i] = Header(t)
    BY <1>1, <1>14 DEF HasSection
  <2>2. DOMAIN r = 1..Len(r) /\ Len(e) \in Nat /\ Len(r) = z - 1 + Len(e) + (n - z + 1)
    BY <1>8, <1>9, <1>10, LenProperties
  <2>3. CASE i < z
    <3>1. i \in 1..Len(u) /\ i \in 1..(z - 1) /\ i \in 1..Len(ue) /\ i \in 1..Len(r)
      BY <1>1, <1>8, <1>9, <2>2, <2>3
    <3>2. r[i] = ls[i]
      BY <1>8, <1>9, <1>10, <3>1
    <3> QED
      BY <2>1, <2>2, <3>1, <3>2 DEF HasSection
  <2>4. CASE ~(i < z)
    <3> DEFINE k == i - z + 1
               j == Len(ue) + k
    <3>1. k \in 1..Len(v) /\ k \in 1..(n - z + 1) /\ z + k - 1 = i /\ j \in 1..Len(r)
      BY <1>1, <1>8, <1>9, <2>2, <2>4
    <3>2. r[j] = v[k] /\ v[k] = ls[z + k - 1]
      BY <1>8, <1>10, <3>1
    <3> HIDE DEF k, j
    <3>3. r[j] = Header(t) /\ j \in DOMAIN r
      BY <2>1, <2>2, <3>1, <3>2
    <3> QED
      BY <3>3 DEF HasSection
  <2> QED
    BY <2>3, <2>4
<1> QED
  BY <1>4, <1>5, <1>7, <1>10, <1>12, <1>13, <1>14

(* What a compaction makes of any file. *)
LEMMA CompactedTypes ==
  ASSUME NEW ls \in Seq(Lines), HasSection(ls, "log"), NEW m \in Nat, m > 0,
         NEW sm \in Seq(Memo), Unfinished(sm) \in Seq(Memo)
  PROVE  /\ AddBlock(ls, m, sm) \in Seq(Lines)
         /\ \A t \in SectionSet : HasSection(ls, t) => HasSection(AddBlock(ls, m, sm), t)
         /\ Unfinished(sm) = << >> \/ HasSection(ls, "todo") => Compacted(ls, m, sm) \in Seq(Lines)
<1> DEFINE x == Block("compaction", m)
           h == <<x>>
           blk == h \o sm
           un == Unfinished(sm)
           ls1 == AddBlock(ls, m, sm)
           ls2 == SetTodo(ls1, sm)
           P == Pruned(SectionBody(ls2, "log"))
<1>1. "log" \in SectionSet /\ "todo" \in SectionSet
  BY DEF SectionSet
<1>2. Memo \subseteq Running /\ Running \subseteq Lines
  BY KindsApart
<1>3. x \in Lines
  BY <1>2, LinesMade
<1>4. ls1 = Add(ls, "log", blk)
  BY DEF AddBlock
<1>5. ls2 = IF un = << >> THEN ls1 ELSE ReplaceSection(ls1, "todo", un)
  BY DEF SetTodo
<1>6. Compacted(ls, m, sm) = PruneLog(ls2)
  BY DEF Compacted
<1>7. PruneLog(ls2) = IF HasSection(ls2, "log") THEN ReplaceSection(ls2, "log", P) ELSE ls2
  BY DEF PruneLog
<1> HIDE DEF x, un
<1>8. sm \in Seq(Lines) /\ un \in Seq(Lines)
  <2>1. un \in Seq(Memo)
    BY DEF un
  <2> QED
    BY <1>2, <2>1, SeqMonotonic
<1>9. h \in Seq(Lines)
  BY <1>3
<1> HIDE DEF h
<1>10. blk \in Seq(Lines)
  BY <1>8, <1>9, ConcatProperties
<1> HIDE DEF blk
<1>11. /\ ls1 \in Seq(Lines)
       /\ \A t \in SectionSet : HasSection(ls, t) => HasSection(ls1, t)
  <2> HIDE DEF ls1
  <2> QED
    BY <1>1, <1>4, <1>10, EditTypes
<1> HIDE DEF ls1, ls2, P
<1>12. ASSUME un = << >> \/ HasSection(ls, "todo") PROVE Compacted(ls, m, sm) \in Seq(Lines)
  <2>1. ls2 \in Seq(Lines)
    <3>1. CASE un = << >>
      BY <1>5, <1>11, <3>1
    <3>2. CASE un # << >>
      <4>1. HasSection(ls1, "todo")
        BY <1>1, <1>11, <1>12, <3>2
      <4>2. ReplaceSection(ls1, "todo", un) \in Seq(Lines)
        BY <1>1, <1>8, <1>11, <4>1, EditTypes
      <4> QED
        BY <1>5, <3>2, <4>2
    <3> QED
      BY <3>1, <3>2
  <2>2. CASE HasSection(ls2, "log")
    <3> DEFINE body == SectionBody(ls2, "log")
    <3>1. body \in Seq(Running)
      <4>1. << >> \in Seq(Lines)
        BY EmptySeq
      <4> QED
        BY <1>1, <2>1, <2>2, <4>1, EditTypes
    <3>2. Pruned(body) \in Seq(Running)
      <4> HIDE DEF body
      <4> QED
        BY <3>1, PrunedKeeps
    <3>3. P \in Seq(Lines)
      <4>1. P \in Seq(Running)
        BY <3>2 DEF P
      <4> QED
        BY <1>2, <4>1, SeqMonotonic
    <3>4. ReplaceSection(ls2, "log", P) \in Seq(Lines)
      BY <1>1, <2>1, <2>2, <3>3, EditTypes
    <3> QED
      BY <1>6, <1>7, <2>2, <3>4
  <2>3. CASE ~HasSection(ls2, "log")
    BY <1>6, <1>7, <2>1, <2>3
  <2> QED
    BY <2>2, <2>3
<1> QED
  BY <1>11, <1>12 DEF ls1, un

(* What a note writes. *)
LEMMA NoteIs ==
  ASSUME CaseTypes, NEW s \in SectionSet, NEW noteShape, Note(s, noteShape)
  PROVE  \E x \in Memo, d \in Seq(QuotedLines) :
           /\ x \in NoteLines /\ lines' = Add(lines, s, <<x>> \o d)
           /\ noted' = [noted EXCEPT ![s] = Append(@, x)]
           /\ s = "log" /\ ~posed' => x.of \notin {"a", "d"}
<1> DEFINE t == Begins(noteShape)
           x == Bullet(t, events')
           d1 == << >>
           d2 == <<Quoted("todo")>>
           d == IF noteShape = "with header" THEN d2 ELSE d1
<1>1. events' \in Nat /\ events' > 0
  BY Eventful DEF Note
<1>2. t \in Parts \cup {""}
  BY DEF Begins
<1>3. x.of = t
  BY DEF Bullet, Line
<1> HIDE DEF t
<1>4. x \in Memo /\ x \in NoteLines /\ Quoted("todo") \in QuotedLines
  BY <1>1, <1>2, LinesMade
<1>5. /\ lines' = Add(lines, s, <<x>> \o d) /\ noted' = [noted EXCEPT ![s] = Append(@, x)]
      /\ posed' = (posed \/ (s = "log" /\ noteShape \in {"a", "d"}))
  BY DEF Note, t
<1> HIDE DEF x
<1>6. d \in Seq(QuotedLines)
  <2>1. d1 \in Seq(QuotedLines)
    BY EmptySeq
  <2>2. d2 \in Seq(QuotedLines)
    BY <1>4
  <2> HIDE DEF d1, d2
  <2> QED
    BY <2>1, <2>2
<1> HIDE DEF d
<1>7. s = "log" /\ ~posed' => x.of \notin {"a", "d"}
  <2>1. t \in {"a", "d"} => t = noteShape
    BY DEF t, Begins
  <2> QED
    BY <1>3, <1>5, <2>1
<1> QED
  BY <1>4, <1>5, <1>6, <1>7

LEMMA NoteKeeps ==
  ASSUME CaseInv, NEW s \in SectionSet, NEW noteShape, Note(s, noteShape)
  PROVE  CaseInv'
<1>1. CaseTypes /\ Happens
  BY DEF CaseInv, Note
<1>2. events' \in 0..MaxEvents /\ events' \in Nat /\ compactions \in 0..events'
  <2>1. events' \in 1..MaxEvents /\ events' \in Nat /\ compactions \in 0..events'
    BY <1>1, Eventful
  <2> QED
    BY <2>1
<1>3. PICK x \in Memo, d \in Seq(QuotedLines) :
        /\ x \in NoteLines /\ lines' = Add(lines, s, <<x>> \o d)
        /\ noted' = [noted EXCEPT ![s] = Append(@, x)]
  BY <1>1, NoteIs
<1> DEFINE nts == [noted EXCEPT ![s] = Append(@, x)]
           h == <<x>>
<1>4. /\ compactions' = compactions /\ ledger' = ledger /\ results' = results
      /\ faithful' = faithful /\ HasSection(lines, s)
      /\ posed' = (posed \/ (s = "log" /\ noteShape \in {"a", "d"}))
  BY DEF Note
<1>5. /\ noted \in [SectionSet -> Seq(Lines)] /\ ledger \in Seq(Lines) /\ results \in Seq(Lines)
      /\ lines \in Seq(Lines) /\ faithful \in BOOLEAN /\ posed \in BOOLEAN
  BY <1>1 DEF CaseTypes
<1>6. x \in Lines /\ QuotedLines \subseteq Lines
  BY KindsApart
<1>7. nts \in [SectionSet -> Seq(Lines)]
  <2>1. noted[s] \in Seq(Lines)
    BY <1>5
  <2>2. Append(noted[s], x) \in Seq(Lines)
    BY <1>6, <2>1, AppendProperties
  <2> DEFINE y == Append(noted[s], x)
  <2>3. nts = [noted EXCEPT ![s] = y]
    OBVIOUS
  <2> HIDE DEF y, nts
  <2>4. y \in Seq(Lines)
    BY <2>2 DEF y
  <2> QED
    BY <1>5, <2>3, <2>4
<1>8. Add(lines, s, <<x>> \o d) \in Seq(Lines)
  <2>1. h \in Seq(Lines) /\ d \in Seq(Lines)
    BY <1>6, SeqMonotonic
  <2> HIDE DEF h
  <2>2. h \o d \in Seq(Lines)
    BY <2>1, ConcatProperties
  <2>3. Add(lines, s, h \o d) \in Seq(Lines)
    BY <1>4, <1>5, <2>2, EditTypes
  <2> QED
    BY <2>3 DEF h
<1>9. CaseTypes'
  <2>1. noted' = nts
    BY <1>3
  <2> HIDE DEF nts
  <2>2. lines' \in Seq(Lines) /\ posed' \in BOOLEAN
    BY <1>3, <1>4, <1>8
  <2> QED
    BY <1>2, <1>4, <1>5, <1>7, <2>1, <2>2 DEF CaseTypes
<1>10. ASSUME faithful PROVE InForm'
  <2>1. PICK b \in Fronts, q \in Quotes : lines = Filed(b, q) /\ Kept(b, ledger, noted, compactions)
    BY <1>10 DEF CaseInv, InForm, Stands
  <2>2. Stands(Add(Filed(b, q), s, <<x>> \o d), ledger, nts, compactions)
    BY <1>3, <1>5, <2>1, NoteStands
  <2> DEFINE ls == Add(Filed(b, q), s, <<x>> \o d)
  <2>3. lines' = ls /\ noted' = nts
    BY <1>3, <2>1
  <2> HIDE DEF ls, nts
  <2>4. Stands(ls, ledger, nts, compactions)
    BY <2>2 DEF ls
  <2> QED
    BY <1>4, <2>3, <2>4 DEF InForm
<1> QED
  BY <1>4, <1>9, <1>10 DEF CaseInv

LEMMA RecordKeeps == CaseInv /\ Record => CaseInv'
<1> SUFFICES ASSUME CaseInv, Record PROVE CaseInv'
  OBVIOUS
<1> DEFINE x == Ledger(events')
           led == Append(ledger, x)
           h == <<x>>
<1>1. CaseTypes /\ Happens
  BY DEF CaseInv, Record
<1>2. events' \in 0..MaxEvents /\ events' \in Nat /\ events' > 0 /\ compactions \in 0..events'
  <2>1. events' \in 1..MaxEvents /\ events' \in Nat /\ events' > 0 /\ compactions \in 0..events'
    BY <1>1, Eventful
  <2> QED
    BY <2>1
<1>3. x \in LedgerLines /\ x \in Running
  BY <1>2, LinesMade
<1>4. /\ ledger' = led /\ compactions' = compactions /\ noted' = noted /\ results' = results
      /\ lines' = Add(lines, "log", h) /\ HasSection(lines, "log")
      /\ faithful' = faithful /\ posed' = posed
  BY DEF Record
<1>5. /\ noted \in [SectionSet -> Seq(Lines)] /\ ledger \in Seq(Lines) /\ results \in Seq(Lines)
      /\ lines \in Seq(Lines) /\ faithful \in BOOLEAN /\ posed \in BOOLEAN
  BY <1>1 DEF CaseTypes
<1>6. x \in Lines
  BY <1>3, KindsApart
<1> HIDE DEF x
<1>7. led \in Seq(Lines) /\ h \in Seq(Lines)
  BY <1>5, <1>6, AppendProperties
<1> HIDE DEF led
<1>8. Add(lines, "log", h) \in Seq(Lines)
  <2>1. "log" \in SectionSet
    BY DEF SectionSet
  <2> HIDE DEF h
  <2> QED
    BY <1>4, <1>5, <1>7, <2>1, EditTypes
<1>9. CaseTypes'
  <2>1. lines' \in Seq(Lines)
    BY <1>4, <1>8
  <2> QED
    BY <1>2, <1>4, <1>5, <1>7, <2>1 DEF CaseTypes
<1>10. ASSUME faithful PROVE InForm'
  <2>1. PICK b \in Fronts, q \in Quotes : lines = Filed(b, q) /\ Kept(b, ledger, noted, compactions)
    BY <1>10 DEF CaseInv, InForm, Stands
  <2>2. Stands(Add(Filed(b, q), "log", <<x>>), led, noted, compactions)
    BY <1>3, <2>1, RecordStands DEF led
  <2> DEFINE ls == Add(Filed(b, q), "log", <<x>>)
  <2>3. lines' = ls
    BY <1>4, <2>1
  <2> HIDE DEF ls
  <2>4. Stands(ls, led, noted, compactions)
    BY <2>2 DEF ls
  <2> QED
    BY <1>4, <2>3, <2>4 DEF InForm
<1> QED
  BY <1>4, <1>9, <1>10 DEF CaseInv

(* compact, with any summary; one that has to raise finds a file that has lost *)
(* a header.                                                                   *)
LEMMA CompactionKeeps ==
  ASSUME CaseInv, NEW shape \in Summaries, Compaction(shape)
  PROVE  CaseInv'
<1> DEFINE w == Written(shape)
           sm == Sanitize(w)
           n == compactions
           m == n + 1
           res == ResultLines(w)
           rr == results \o res
           settles == Unfinished(sm) = << >> \/ HasSection(lines, "todo")
<1>1. CaseTypes /\ Happens
  BY DEF CaseInv, Compaction
<1>2. events' \in 0..MaxEvents /\ events' \in Nat /\ m \in 0..events'
  <2>1. events' \in 1..MaxEvents /\ events' \in Nat /\ m \in 0..events'
    BY <1>1, Eventful
  <2> QED
    BY <2>1
<1>3. shape \in Seq(SummaryLines)
  BY CaseFileAssumption
<1>4. w = [i \in DOMAIN shape |-> IF shape[i].shape = "text" THEN Text(events', i) ELSE shape[i]]
  BY DEF Written
<1>5. /\ compactions' = m /\ ledger' = ledger /\ noted' = noted /\ results' = rr
      /\ faithful' = faithful /\ posed' = posed /\ HasSection(lines, "log")
  BY DEF Compaction
<1>6. \/ settles /\ lines' = Compacted(lines, m, sm)
      \/ ~settles /\ lines' = AddBlock(lines, m, sm)
  BY DEF Compaction
<1>7. /\ noted \in [SectionSet -> Seq(Lines)] /\ ledger \in Seq(Lines) /\ results \in Seq(Lines)
      /\ lines \in Seq(Lines) /\ n \in Nat /\ faithful \in BOOLEAN /\ posed \in BOOLEAN
  BY <1>1 DEF CaseTypes
<1> HIDE DEF w
<1>8. sm \in Seq(Memo) /\ Unfinished(sm) \in Seq(Memo) /\ res \in Seq(Lines)
  <2> DEFINE e == events'
  <2>1. e \in Nat /\ w = [i \in DOMAIN shape |-> IF shape[i].shape = "text" THEN Text(e, i) ELSE shape[i]]
    BY <1>2, <1>4
  <2> HIDE DEF e
  <2> QED
    BY <1>3, <2>1, SummaryIs
<1> HIDE DEF sm, res, n
<1>9. rr \in Seq(Lines) /\ m \in Nat /\ m > 0
  BY <1>7, <1>8, ConcatProperties
<1> HIDE DEF rr, m
<1>10. /\ AddBlock(lines, m, sm) \in Seq(Lines)
       /\ settles => Compacted(lines, m, sm) \in Seq(Lines)
  BY <1>5, <1>7, <1>8, <1>9, CompactedTypes
<1>11. lines' \in Seq(Lines)
  BY <1>6, <1>10
<1>12. CaseTypes'
  <2>1. compactions' \in 0..events'
    BY <1>2, <1>5
  <2> QED
    BY <1>2, <1>5, <1>7, <1>9, <1>11, <2>1 DEF CaseTypes
<1>13. ASSUME faithful PROVE InForm'
  <2>1. PICK b \in Fronts, q \in Quotes : lines = Filed(b, q) /\ Kept(b, ledger, noted, n)
    BY <1>13 DEF CaseInv, InForm, Stands, n
  <2>2. HasSection(Filed(b, q), "todo")
    <3>1. << >> \in Seq(Running) /\ << >> \in Seq(QuotedLines) /\ "todo" \in SectionSet
      BY EmptySeq DEF SectionSet
    <3> QED
      BY <3>1, FiledEdits
  <2>3. lines' = Compacted(Filed(b, q), m, sm)
    BY <1>6, <2>1, <2>2
  <2>4. Stands(Compacted(Filed(b, q), n + 1, sm), ledger, noted, n + 1)
    BY <1>7, <1>8, <2>1, BlockStands
  <2> DEFINE ls == Compacted(Filed(b, q), m, sm)
  <2>5. Stands(ls, ledger, noted, m)
    BY <2>4 DEF m
  <2>6. lines' = ls
    BY <2>3
  <2> HIDE DEF ls
  <2> QED
    BY <1>5, <2>5, <2>6 DEF InForm
<1> QED
  BY <1>5, <1>12, <1>13 DEF CaseInv

(* shrink_casefile: a reply that keeps what was asked for is a selection from  *)
(* the file, and of any other one nothing is said.                             *)
LEMMA ShrinkKeeps ==
  ASSUME CaseInv, NEW reply \in Replies \cup {Asked(Shown)}, Shrink(reply)
  PROVE  CaseInv'
<1>1. CaseTypes /\ Happens
  BY DEF CaseInv, Shrink
<1>2. events' \in 0..MaxEvents /\ compactions \in 0..events'
  <2>1. events' \in 1..MaxEvents /\ compactions \in 0..events'
    BY <1>1, Eventful
  <2> QED
    BY <2>1
<1>3. /\ compactions' = compactions /\ ledger' = ledger /\ noted' = noted /\ results' = results
      /\ posed' = posed /\ lines' = reply /\ faithful' = (faithful /\ reply = Asked(lines))
  BY DEF Shrink
<1>4. lines \in Seq(Lines)
  BY <1>1 DEF CaseTypes
<1>5. reply \in Seq(Lines)
  <2>1. CASE reply \in Replies
    BY <2>1, CaseFileAssumption
  <2>2. CASE reply = Asked(Shown)
    <3> DEFINE k == IF Len(lines) > ShrinkCap THEN ShrinkCap ELSE Len(lines)
    <3>1. Len(lines) \in Nat /\ ShrinkCap \in Nat
      BY <1>4, LenProperties, CaseFileAssumption
    <3>2. 1 \in 1..(Len(lines) + 1) /\ k \in 0..Len(lines)
      BY <3>1
    <3>3. Shown = SubSeq(lines, 1, k)
      BY DEF Shown
    <3> HIDE DEF k
    <3>4. Shown \in Seq(Lines)
      BY <1>4, <3>2, <3>3, StretchType
    <3>5. Select(Shown, Worth) \in Seq(Lines)
      BY <3>4, SelectType
    <3> QED
      BY <2>2, <3>5 DEF Asked
  <2> QED
    BY <2>1, <2>2
<1>6. CaseTypes'
  BY <1>1, <1>2, <1>3, <1>5 DEF CaseTypes
<1>7. ASSUME faithful' PROVE InForm'
  <2>1. faithful /\ reply = Select(lines, Worth)
    BY <1>3, <1>7 DEF Asked
  <2>2. PICK b \in Fronts, q \in Quotes : lines = Filed(b, q) /\ Kept(b, ledger, noted, compactions)
    BY <2>1 DEF CaseInv, InForm, Stands
  <2>3. /\ \A s \in SectionSet : Header(s) \in Worth
        /\ \A l \in QuotedLines : l \in Worth
        /\ \A l \in Running : l \in LedgerLines \/ l \in CompactionBlocks \/ l \in NoteLines => l \in Worth
    <3>1. \A l \in Lines : l.shape # "text" => l \in Worth
      BY DEF Worth
    <3>2. \A s \in SectionSet : Header(s) \in Lines /\ Header(s).shape = "header"
      BY HeaderIs DEF IsHeader
    <3>3. \A l \in QuotedLines : l \in Lines /\ l.shape = "quoted header"
      BY DEF QuotedLines
    <3>4. \A l \in Running : l \in Lines
      BY DEF Running
    <3>5. \A l : l \in LedgerLines => l.shape = "ledger"
      BY DEF LedgerLines, IsLedger
    <3>6. \A l : l \in CompactionBlocks => l.shape = "block"
      BY DEF CompactionBlocks
    <3>7. \A l : l \in NoteLines => l.shape = "bullet"
      BY DEF NoteLines
    <3> QED
      BY <3>1, <3>2, <3>3, <3>4, <3>5, <3>6, <3>7
  <2>4. Stands(Select(Filed(b, q), Worth), ledger, noted, compactions)
    BY <2>2, <2>3, RewriteStands
  <2> DEFINE ls == Select(Filed(b, q), Worth)
  <2>5. lines' = ls
    BY <1>3, <2>1, <2>2
  <2> HIDE DEF ls
  <2>6. Stands(ls, ledger, noted, compactions)
    BY <2>4 DEF ls
  <2> QED
    BY <1>3, <2>5, <2>6 DEF InForm
<1> QED
  BY <1>6, <1>7 DEF CaseInv

(* The invariant and what it gives. *)
LEMMA CaseStep == CaseInv /\ [CaseNext]_caseVars => CaseInv'
<1> SUFFICES ASSUME CaseInv, [CaseNext]_caseVars PROVE CaseInv'
  OBVIOUS
<1>1. ASSUME NEW s \in SectionSet, NEW shape \in NoteShapes, Note(s, shape) PROVE CaseInv'
  BY <1>1, NoteKeeps
<1>2. CASE Record
  BY <1>2, RecordKeeps
<1>3. ASSUME NEW summary \in Summaries, Compaction(summary) PROVE CaseInv'
  BY <1>3, CompactionKeeps
<1>4. ASSUME NEW reply \in Replies \cup {Asked(Shown)}, Shrink(reply) PROVE CaseInv'
  BY <1>4, ShrinkKeeps
<1>5. CASE UNCHANGED caseVars
  BY <1>5 DEF caseVars, CaseInv, InForm, CaseTypes, Stands
<1> QED
  BY <1>1, <1>2, <1>3, <1>4, <1>5 DEF CaseNext

LEMMA CaseInvariant == CaseSpec => []CaseInv
<1> DEFINE I == CaseInv
<1>1. CaseInit => I
  BY CaseInitInv
<1>2. I /\ [CaseNext]_caseVars => I'
  BY CaseStep
<1> HIDE DEF I
<1>3. CaseSpec => []I
  BY <1>1, <1>2, PTL DEF CaseSpec
<1> QED
  BY <1>3 DEF I

LEMMA InFormGives ==
  ASSUME InForm
  PROVE  /\ \A s \in SectionSet :
              \E i \in DOMAIN lines : \A j \in DOMAIN lines : lines[j] = Header(s) <=> j = i
         /\ Select(lines, LedgerLines) = ledger
         /\ \A s \in {"facts", "hypotheses"} : Select(SectionOf(lines, s), NoteLines) = noted[s]
         /\ Select(lines, CompactionBlocks) = [n \in 1..compactions |-> Block("compaction", n)]
         /\ Select(SectionOf(lines, "log"), CompactionBlocks) = Select(lines, CompactionBlocks)
<1>1. PICK b \in Fronts, q \in Quotes : lines = Filed(b, q) /\ Kept(b, ledger, noted, compactions)
  BY DEF InForm, Stands
<1> DEFINE f == [s \in SectionSet |-> b[s] \o q[s]]
<1>2. f \in Bodies
  <2>1. ASSUME NEW s \in SectionSet PROVE b[s] \o q[s] \in Seq(Plain)
    <3>1. b[s] \in Seq(Running) /\ q[s] \in Seq(QuotedLines)
      BY DEF Fronts, Quotes
    <3> QED
      BY <3>1, CutAt
  <2> QED
    BY <2>1 DEF Bodies
<1>3. lines = File(f)
  BY <1>1 DEF Filed
<1> HIDE DEF f
<1>4. ASSUME NEW s \in SectionSet
      PROVE  \E i \in DOMAIN lines : \A j \in DOMAIN lines : lines[j] = Header(s) <=> j = i
  BY <1>2, <1>3, FileHeaders
<1>5. /\ \A s \in SectionSet \ {"log"} : b[s] \in Seq(Memo)
      /\ \A s \in {"facts", "hypotheses"} : Select(b[s], NoteLines) = noted[s]
      /\ Select(b["log"], LedgerLines) = ledger
      /\ Select(b["log"], CompactionBlocks) = [i \in 1..compactions |-> Block("compaction", i)]
  BY <1>1 DEF Kept
<1>6. "log" \in SectionSet /\ \A s \in {"facts", "hypotheses"} : s \in SectionSet
  BY DEF SectionSet
<1>7. ASSUME NEW S \in {LedgerLines, CompactionBlocks} PROVE Select(lines, S) = Select(b["log"], S)
  <2>1. \A s \in SectionSet : Header(s) \notin S
    BY KindsApart
  <2>2. \A l \in QuotedLines : l \notin S
    BY KindsApart
  <2>3. ASSUME NEW s \in SectionSet \ {"log"} PROVE Select(b[s], S) = << >>
    <3>1. b[s] \in Seq(Memo) /\ \A l \in Memo : l \notin S
      BY <1>5, KindsApart
    <3> QED
      BY <3>1, SelectNone
  <2>4. Select(Filed(b, q), S) = Select(b["log"], S)
    BY <2>1, <2>2, <2>3, FiledSelect
  <2> QED
    BY <1>1, <2>4
<1>8. ASSUME NEW s \in SectionSet PROVE SectionOf(lines, s) = b[s] \o q[s]
  <2> DEFINE nil == << >>
  <2>1. nil \in Seq(Running) /\ nil \in Seq(QuotedLines)
    BY EmptySeq
  <2> HIDE DEF nil
  <2>2. SectionOf(Filed(b, q), s) = b[s] \o q[s]
    BY <2>1, FiledEdits
  <2> QED
    BY <1>1, <2>2
<1>9. ASSUME NEW S \in {CompactionBlocks, NoteLines}, NEW s \in SectionSet
      PROVE  Select(SectionOf(lines, s), S) = Select(b[s], S)
  <2>1. \A t \in SectionSet : Header(t) \notin S
    BY KindsApart
  <2>2. \A l \in QuotedLines : l \notin S
    BY KindsApart
  <2>3. Select(b[s] \o q[s], S) = Select(b[s], S)
    BY <2>1, <2>2, FiledSelect
  <2> QED
    BY <1>8, <2>3
<1> QED
  BY <1>4, <1>5, <1>6, <1>7, <1>9

LEMMA CaseInvGives == CaseInv => CaseTypeOK /\ LedgerSurvives /\ FactsSurvive /\ BlocksInLog
<1>1. CaseInv => CaseTypes /\ (faithful => InForm)
  BY DEF CaseInv
<1>2. CaseTypes /\ (faithful => InForm) => CaseTypeOK
  BY InFormGives DEF CaseTypes, CaseTypeOK
<1>3. (faithful => InForm) => LedgerSurvives /\ FactsSurvive /\ BlocksInLog
  BY InFormGives DEF LedgerSurvives, FactsSurvive, BlocksInLog
<1> QED
  BY <1>1, <1>2, <1>3

(* Until a rewrite that shrink_casefile accepts loses something, the file has  *)
(* its four headers, each once, through any notes, summaries and compactions   *)
(* (casefile.py's sections are always found).                                  *)
THEOREM CaseFileTypes == CaseSpec => []CaseTypeOK
<1>1. CaseInv => CaseTypeOK
  BY CaseInvGives
<1> QED
  BY <1>1, CaseInvariant, PTL

(* Until then the ledger of observations is in the file in full, once each and *)
(* in order, whatever summaries and notes say and however often the Log is     *)
(* pruned.                                                                     *)
THEOREM LedgerIsKept == CaseSpec => []LedgerSurvives
<1>1. CaseInv => LedgerSurvives
  BY CaseInvGives
<1> QED
  BY <1>1, CaseInvariant, PTL

(* Until then every note on facts and hypotheses stays in its section, in      *)
(* order, even when notes quote section headers.                               *)
THEOREM FactsAreKept == CaseSpec => []FactsSurvive
<1>1. CaseInv => FactsSurvive
  BY CaseInvGives
<1> QED
  BY <1>1, CaseInvariant, PTL

(* Until then the block of every compaction stays in the Log, in order, under  *)
(* its heading.                                                                *)
THEOREM BlocksStayInLog == CaseSpec => []BlocksInLog
<1>1. CaseInv => BlocksInLog
  BY CaseInvGives
<1> QED
  BY <1>1, CaseInvariant, PTL

-----------------------------------------------------------------------------
(* Selections again: which place a selected member came from.                *)

(* The last index, by what it is. *)
LEMMA LastIndexBy ==
  ASSUME NEW n \in Nat, NEW S \in SUBSET (1..n), NEW x \in S, \A y \in S : y <= x
  PROVE  LastIndex(S) = x
<1>1. LastIndex(S) \in S /\ \A y \in S : y <= LastIndex(S)
  <2>1. \E m \in S : \A y \in S : y <= m
    OBVIOUS
  <2> QED
    BY <2>1 DEF LastIndex
<1> DEFINE m == LastIndex(S)
<1> HIDE DEF m
<1>2. m \in S /\ m <= x /\ x <= m
  BY <1>1 DEF m
<1>3. m \in Int /\ x \in Int
  BY <1>2
<1>4. m = x
  BY <1>2, <1>3
<1> QED
  BY <1>4 DEF m

(* Sets that agree on the members of a sequence select the same. *)
LEMMA SelectSame ==
  ASSUME NEW X, NEW s \in Seq(X), NEW S, NEW T, \A x \in X : x \in S <=> x \in T
  PROVE  Select(s, S) = Select(s, T)
<1>1. DOMAIN s = 1..Len(s) /\ \A i \in 1..Len(s) : s[i] \in X
  BY ElementOfSeq, LenProperties
<1>2. \A i \in DOMAIN s : s[i] \in S <=> s[i] \in T
  BY <1>1
<1>3. Pieces(s, S) = Pieces(s, T)
  BY <1>2 DEF Pieces
<1> QED
  BY <1>3, PiecesAre

(* Where what Select keeps comes from: places in the sequence, in order, and   *)
(* all that hold a member of the set.                                          *)
Embeds(f, t, s, S) ==
  /\ \A i \in 1..Len(t) : f[i] \in 1..Len(s) /\ t[i] = s[f[i]]
  /\ \A i, j \in 1..Len(t) : i < j => f[i] < f[j]
  /\ \A k \in 1..Len(s) : s[k] \in S => \E i \in 1..Len(t) : f[i] = k

(* An embedding goes on with the next member. *)
LEMMA EmbedsNext ==
  ASSUME NEW X, NEW s \in Seq(X), NEW x \in X, NEW S, NEW t \in Seq(X), NEW f, Embeds(f, t, s, S)
  PROVE  /\ x \notin S => Embeds(f, t, Append(s, x), S)
         /\ x \in S => \E g : Embeds(g, Append(t, x), Append(s, x), S)
<1> DEFINE u == Append(s, x)
           v == Append(t, x)
           n == Len(t) + 1
           m == Len(s) + 1
           g == [i \in 1..n |-> IF i = n THEN m ELSE f[i]]
<1>1. u \in Seq(X) /\ Len(u) = m /\ u[m] = x /\ \A i \in 1..Len(s) : u[i] = s[i]
  BY AppendProperties
<1>2. v \in Seq(X) /\ Len(v) = n /\ v[n] = x /\ \A i \in 1..Len(t) : v[i] = t[i]
  BY AppendProperties
<1>3. Len(s) \in Nat /\ Len(t) \in Nat
  BY LenProperties
<1> HIDE DEF u, v
<1>4. /\ \A i \in 1..Len(t) : f[i] \in 1..Len(s) /\ t[i] = s[f[i]]
      /\ \A i, j \in 1..Len(t) : i < j => f[i] < f[j]
      /\ \A k \in 1..Len(s) : s[k] \in S => \E i \in 1..Len(t) : f[i] = k
  BY DEF Embeds
<1>5. ASSUME x \notin S PROVE Embeds(f, t, u, S)
  <2>1. \A i \in 1..Len(t) : f[i] \in 1..Len(u) /\ t[i] = u[f[i]]
    BY <1>1, <1>3, <1>4
  <2>2. ASSUME NEW k \in 1..Len(u), u[k] \in S PROVE \E i \in 1..Len(t) : f[i] = k
    <3>1. k \in 1..Len(s) /\ u[k] = s[k]
      BY <1>1, <1>3, <1>5, <2>2
    <3> QED
      BY <1>4, <2>2, <3>1
  <2> QED
    BY <1>4, <2>1, <2>2 DEF Embeds
<1>6. ASSUME x \in S PROVE Embeds(g, v, u, S)
  <2>1. g[n] = m /\ \A i \in 1..Len(t) : g[i] = f[i]
    BY <1>3
  <2> HIDE DEF g
  <2>2. \A i \in 1..Len(v) : i \in 1..Len(t) \/ i = n
    BY <1>2, <1>3
  <2>3. \A k \in 1..Len(u) : k \in 1..Len(s) \/ k = m
    BY <1>1, <1>3
  <2>4. ASSUME NEW i \in 1..Len(v) PROVE g[i] \in 1..Len(u) /\ v[i] = u[g[i]]
    <3>1. CASE i \in 1..Len(t)
      <4>1. f[i] \in 1..Len(s) /\ t[i] = s[f[i]] /\ g[i] = f[i] /\ v[i] = t[i]
        BY <1>2, <1>4, <2>1, <3>1
      <4>2. u[f[i]] = s[f[i]] /\ f[i] \in 1..Len(u)
        BY <1>1, <1>3, <4>1
      <4> QED
        BY <4>1, <4>2
    <3>2. CASE i = n
      <4>1. v[i] = x /\ g[i] = m
        BY <1>2, <2>1, <3>2
      <4>2. u[m] = x /\ m \in 1..Len(u)
        BY <1>1, <1>3
      <4> QED
        BY <4>1, <4>2
    <3> QED
      BY <2>2, <3>1, <3>2
  <2>5. ASSUME NEW i \in 1..Len(v), NEW j \in 1..Len(v), i < j PROVE g[i] < g[j]
    <3>1. i \in 1..Len(t)
      BY <1>2, <1>3, <2>5
    <3>2. g[i] = f[i] /\ f[i] \in 1..Len(s)
      BY <1>4, <2>1, <3>1
    <3>3. CASE j \in 1..Len(t)
      <4>1. g[j] = f[j] /\ f[i] < f[j]
        BY <1>4, <2>1, <2>5, <3>1, <3>3
      <4> QED
        BY <3>2, <4>1
    <3>4. CASE j = n
      <4>1. g[j] = m
        BY <2>1, <3>1, <3>4
      <4> QED
        BY <1>3, <3>2, <4>1
    <3> QED
      BY <2>2, <3>3, <3>4
  <2>6. ASSUME NEW k \in 1..Len(u), u[k] \in S PROVE \E i \in 1..Len(v) : g[i] = k
    <3>1. CASE k \in 1..Len(s)
      <4>1. s[k] \in S
        BY <1>1, <2>6, <3>1
      <4>2. PICK i \in 1..Len(t) : f[i] = k
        BY <1>4, <3>1, <4>1
      <4>3. i \in 1..Len(v) /\ g[i] = k
        BY <1>2, <1>3, <2>1, <4>2
      <4> QED
        BY <4>3
    <3>2. CASE k = m
      <4>1. n \in 1..Len(v) /\ g[n] = m
        BY <1>2, <1>3, <2>1
      <4> QED
        BY <3>2, <4>1
    <3> QED
      BY <2>3, <3>1, <3>2
  <2> QED
    BY <2>4, <2>5, <2>6 DEF Embeds
<1> HIDE DEF g
<1> QED
  BY <1>5, <1>6 DEF u, v

(* What is in order in the sequence is in order in the selection. *)
LEMMA EmbedsBack ==
  ASSUME NEW X, NEW Y, NEW s \in Seq(X), NEW t \in Seq(Y), NEW S, NEW f, Embeds(f, t, s, S),
         NEW i \in 1..Len(t), NEW j \in 1..Len(t), f[i] < f[j]
  PROVE  i < j
<1>1. /\ \A k \in 1..Len(t) : f[k] \in 1..Len(s)
      /\ \A k, l \in 1..Len(t) : k < l => f[k] < f[l]
  BY DEF Embeds
<1>2. Len(s) \in Nat /\ Len(t) \in Nat
  BY LenProperties
<1>3. f[i] \in Int /\ f[j] \in Int /\ i \in Int /\ j \in Int
  BY <1>1, <1>2
<1>4. CASE i = j
  BY <1>3, <1>4
<1>5. CASE j < i
  <2>1. f[j] < f[i]
    BY <1>1, <1>5
  <2> QED
    BY <1>3, <2>1
<1> QED
  BY <1>3, <1>4, <1>5

(* A selection is embedded in what it is selected from. *)
LEMMA SelectEmbeds ==
  ASSUME NEW X, NEW s \in Seq(X), NEW S
  PROVE  \E f : Embeds(f, Select(s, S), s, S)
<1> DEFINE P == {u \in Seq(X) : \E f : Embeds(f, Select(u, S), u, S)}
<1>1. << >> \in P
  <2>1. Select(<< >>, S) = << >> /\ << >> \in Seq(X) /\ Len(<< >>) = 0
    BY SelectEmpty, EmptySeq
  <2>2. Embeds(<< >>, << >>, << >>, S)
    <3>1. 1..Len(<< >>) = {}
      BY <2>1
    <3> QED
      BY <3>1 DEF Embeds
  <2> QED
    BY <2>1, <2>2
<1>2. ASSUME NEW u \in Seq(X), NEW x \in X, u \in P PROVE Append(u, x) \in P
  <2>1. PICK f : Embeds(f, Select(u, S), u, S)
    BY <1>2
  <2>2. Append(u, x) \in Seq(X) /\ Select(u, S) \in Seq(X)
    BY AppendProperties, SelectType
  <2> DEFINE t == Select(u, S)
  <2>3. Select(Append(u, x), S) = IF x \in S THEN Append(t, x) ELSE t
    BY SelectAppend
  <2> HIDE DEF t
  <2>4. /\ x \notin S => Embeds(f, t, Append(u, x), S)
        /\ x \in S => \E g : Embeds(g, Append(t, x), Append(u, x), S)
    <3>1. t \in Seq(X) /\ Embeds(f, t, u, S)
      BY <2>1, <2>2 DEF t
    <3> QED
      BY <3>1, EmbedsNext
  <2>5. \E g : Embeds(g, Select(Append(u, x), S), Append(u, x), S)
    BY <2>3, <2>4
  <2> QED
    BY <2>2, <2>5
<1> HIDE DEF P
<1>3. s \in P
  BY <1>1, <1>2, BySteps
<1> QED
  BY <1>3 DEF P

-----------------------------------------------------------------------------
(* Results in the Log: below their headings, and in what is made of such lines. *)

(* The order of the lines that matter to results: a result stands below the    *)
(* heading of an (a) or (d) part, with no other heading in between; and of such*)
(* headings a block has at most one of each, (a) before (d).                   *)
ResultHeads == {l \in Lines : l.shape \in {"part", "bullet"} /\ l.of \in {"a", "d"}}
Stops == {l \in Lines : l.shape = "block" \/ IsHeading(l)}
Under(B, R) ==
  \A i \in 1..Len(B) : B[i] \in R =>
    \E h \in 1..Len(B) : /\ h < i /\ B[h] \in ResultHeads
                         /\ \A k \in 1..Len(B) : h < k /\ k < i => B[k] \notin Stops
Ordered(B) ==
  \A g, h \in 1..Len(B) :
    g < h /\ B[g] \in ResultHeads /\ B[h] \in ResultHeads
      /\ (\A k \in 1..Len(B) : g < k /\ k < h => B[k].shape # "block")
    => B[g].of = "a" /\ B[h].of = "d"

(* The headings of results are headings. *)
LEMMA HeadsStop ==
  /\ ResultHeads \subseteq Stops
  /\ \A l \in ResultHeads : l.shape \in {"part", "bullet"} /\ l.shape # "block" /\ IsHeading(l)
BY DEF ResultHeads, Stops, IsHeading, Parts

(* Both survive a selection that keeps every heading and every block line. *)
LEMMA UnderSelect ==
  ASSUME NEW X, NEW s \in Seq(X), NEW R, NEW S, Under(s, R), \A x \in X : x \in Stops => x \in S
  PROVE  Under(Select(s, S), R)
<1> DEFINE t == Select(s, S)
<1>1. PICK f : Embeds(f, t, s, S)
  BY SelectEmbeds
<1>2. Len(s) \in Nat /\ \A i \in 1..Len(s) : s[i] \in X
  BY ElementOfSeq, LenProperties
<1>3. t \in Seq(X) /\ Len(t) \in Nat
  <2>1. t \in Seq(X)
    BY SelectType
  <2> QED
    BY <2>1, LenProperties
<1> HIDE DEF t
<1>4. /\ \A i \in 1..Len(t) : f[i] \in 1..Len(s) /\ t[i] = s[f[i]]
      /\ \A i, j \in 1..Len(t) : i < j => f[i] < f[j]
      /\ \A k \in 1..Len(s) : s[k] \in S => \E i \in 1..Len(t) : f[i] = k
  BY <1>1 DEF Embeds
<1>5. ASSUME NEW i \in 1..Len(t), NEW j \in 1..Len(t), f[i] < f[j] PROVE i < j
  BY <1>1, <1>3, <1>5, EmbedsBack
<1>6. ASSUME NEW i \in 1..Len(t), t[i] \in R
      PROVE  \E h \in 1..Len(t) : /\ h < i /\ t[h] \in ResultHeads
                                  /\ \A k \in 1..Len(t) : h < k /\ k < i => t[k] \notin Stops
  <2>1. f[i] \in 1..Len(s) /\ s[f[i]] \in R
    BY <1>4, <1>6
  <2>2. PICK g \in 1..Len(s) : /\ g < f[i] /\ s[g] \in ResultHeads
                               /\ \A k \in 1..Len(s) : g < k /\ k < f[i] => s[k] \notin Stops
    BY <2>1 DEF Under
  <2>3. s[g] \in S
    BY <1>2, <2>2, HeadsStop
  <2>4. PICK h \in 1..Len(t) : f[h] = g
    BY <1>4, <2>3
  <2>5. h < i /\ t[h] \in ResultHeads
    BY <1>4, <1>5, <2>2, <2>4
  <2>6. ASSUME NEW k \in 1..Len(t), h < k, k < i PROVE t[k] \notin Stops
    <3>1. f[h] < f[k] /\ f[k] < f[i] /\ f[k] \in 1..Len(s) /\ t[k] = s[f[k]]
      BY <1>4, <2>6
    <3> QED
      BY <2>2, <2>4, <3>1
  <2> QED
    BY <2>5, <2>6
<1> QED
  BY <1>6 DEF t, Under

LEMMA OrderedSelect ==
  ASSUME NEW X, X \subseteq Lines, NEW s \in Seq(X), NEW S, Ordered(s), \A x \in X : x \in Stops => x \in S
  PROVE  Ordered(Select(s, S))
<1> DEFINE t == Select(s, S)
<1>1. PICK f : Embeds(f, t, s, S)
  BY SelectEmbeds
<1>2. Len(s) \in Nat /\ \A i \in 1..Len(s) : s[i] \in X
  BY ElementOfSeq, LenProperties
<1>3. t \in Seq(X) /\ Len(t) \in Nat
  <2>1. t \in Seq(X)
    BY SelectType
  <2> QED
    BY <2>1, LenProperties
<1> HIDE DEF t
<1>4. /\ \A i \in 1..Len(t) : f[i] \in 1..Len(s) /\ t[i] = s[f[i]]
      /\ \A i, j \in 1..Len(t) : i < j => f[i] < f[j]
      /\ \A k \in 1..Len(s) : s[k] \in S => \E i \in 1..Len(t) : f[i] = k
  BY <1>1 DEF Embeds
<1>5. ASSUME NEW i \in 1..Len(t), NEW j \in 1..Len(t), f[i] < f[j] PROVE i < j
  BY <1>1, <1>3, <1>5, EmbedsBack
<1>6. ASSUME NEW g \in 1..Len(t), NEW h \in 1..Len(t), g < h, t[g] \in ResultHeads, t[h] \in ResultHeads,
             \A k \in 1..Len(t) : g < k /\ k < h => t[k].shape # "block"
      PROVE  t[g].of = "a" /\ t[h].of = "d"
  <2>1. f[g] \in 1..Len(s) /\ f[h] \in 1..Len(s) /\ f[g] < f[h] /\ t[g] = s[f[g]] /\ t[h] = s[f[h]]
    BY <1>4, <1>6
  <2>2. ASSUME NEW k \in 1..Len(s), f[g] < k, k < f[h] PROVE s[k].shape # "block"
    <3> SUFFICES ASSUME s[k].shape = "block" PROVE FALSE
      OBVIOUS
    <3>1. s[k] \in S
      BY <1>2 DEF Stops
    <3>2. PICK j \in 1..Len(t) : f[j] = k
      BY <1>4, <3>1
    <3>3. g < j /\ j < h /\ t[j] = s[k]
      BY <1>4, <1>5, <2>2, <3>2
    <3> QED
      BY <1>6, <3>3
  <2> DEFINE a == f[g]
             b == f[h]
  <2>3. /\ a \in 1..Len(s) /\ b \in 1..Len(s) /\ a < b
        /\ s[a] \in ResultHeads /\ s[b] \in ResultHeads
        /\ \A k \in 1..Len(s) : a < k /\ k < b => s[k].shape # "block"
    BY <1>6, <2>1, <2>2
  <2> HIDE DEF a, b
  <2>4. s[a].of = "a" /\ s[b].of = "d"
    BY <2>3 DEF Ordered
  <2> QED
    BY <2>1, <2>4 DEF a, b
<1> QED
  BY <1>6 DEF t, Ordered

(* A concatenation, by its places. *)
Chained(u, v, w) ==
  /\ Len(u) \in Nat /\ Len(v) \in Nat /\ Len(w) = Len(u) + Len(v)
  /\ \A i \in 1..Len(u) : w[i] = u[i]
  /\ \A j \in 1..Len(v) : w[Len(u) + j] = v[j]

LEMMA ChainIs ==
  ASSUME NEW X, NEW u \in Seq(X), NEW v \in Seq(X)
  PROVE  Chained(u, v, u \o v) /\ u \o v \in Seq(X)
<1> DEFINE w == u \o v
<1>1. /\ w \in Seq(X) /\ Len(w) = Len(u) + Len(v)
      /\ \A i \in 1..(Len(u) + Len(v)) : w[i] = IF i <= Len(u) THEN u[i] ELSE v[i - Len(u)]
  BY ConcatProperties
<1>2. Len(u) \in Nat /\ Len(v) \in Nat
  BY LenProperties
<1> HIDE DEF w
<1>3. \A i \in 1..Len(u) : w[i] = u[i]
  BY <1>1, <1>2
<1>4. ASSUME NEW j \in 1..Len(v) PROVE w[Len(u) + j] = v[j]
  <2>1. Len(u) + j \in 1..(Len(u) + Len(v)) /\ ~(Len(u) + j <= Len(u)) /\ Len(u) + j - Len(u) = j
    BY <1>2
  <2> QED
    BY <1>1, <2>1
<1> QED
  BY <1>1, <1>2, <1>3, <1>4 DEF Chained, w

(* Results below their headings, in a concatenation and in its pieces. *)
LEMMA UnderChain ==
  ASSUME NEW u, NEW v, NEW w, Chained(u, v, w), NEW R
  PROVE  /\ Under(u, R) /\ Under(v, R) => Under(w, R)
         /\ Under(w, R) => Under(u, R)
         /\ Under(w, R) /\ (Len(v) > 0 => v[1] \in Stops /\ v[1] \notin R) => Under(v, R)
<1> DEFINE n == Len(u)
           m == Len(v)
<1>1. /\ n \in Nat /\ m \in Nat /\ Len(w) = n + m
      /\ \A i \in 1..n : w[i] = u[i]
      /\ \A j \in 1..m : w[n + j] = v[j]
  BY DEF Chained
<1> HIDE DEF n, m
<1>2. ASSUME Under(u, R), Under(v, R) PROVE Under(w, R)
  <2> SUFFICES ASSUME NEW i \in 1..(n + m), w[i] \in R
               PROVE  \E h \in 1..(n + m) : /\ h < i /\ w[h] \in ResultHeads
                                            /\ \A k \in 1..(n + m) : h < k /\ k < i => w[k] \notin Stops
    BY <1>1 DEF Under
  <2>1. CASE i \in 1..n
    <3>1. u[i] \in R
      BY <1>1, <2>1
    <3>2. PICK h \in 1..n : /\ h < i /\ u[h] \in ResultHeads
                            /\ \A k \in 1..n : h < k /\ k < i => u[k] \notin Stops
      BY <1>2, <2>1, <3>1 DEF Under, n
    <3>3. h \in 1..(n + m) /\ w[h] \in ResultHeads
      BY <1>1, <3>2
    <3>4. \A k \in 1..(n + m) : h < k /\ k < i => w[k] \notin Stops
      BY <1>1, <2>1, <3>2
    <3> QED
      BY <3>2, <3>3, <3>4
  <2>2. CASE i \notin 1..n
    <3> DEFINE j == i - n
    <3>1. j \in 1..m /\ i = n + j
      BY <1>1, <2>2
    <3>2. v[j] \in R
      BY <1>1, <3>1
    <3> HIDE DEF j
    <3>3. PICK h \in 1..m : /\ h < j /\ v[h] \in ResultHeads
                            /\ \A k \in 1..m : h < k /\ k < j => v[k] \notin Stops
      BY <1>2, <3>1, <3>2 DEF Under, m
    <3>4. n + h \in 1..(n + m) /\ n + h < i /\ w[n + h] \in ResultHeads
      BY <1>1, <3>1, <3>3
    <3>5. ASSUME NEW k \in 1..(n + m), n + h < k, k < i PROVE w[k] \notin Stops
      <4>1. k - n \in 1..m /\ h < k - n /\ k - n < j /\ k = n + (k - n)
        BY <1>1, <3>1, <3>3, <3>5
      <4>2. w[n + (k - n)] = v[k - n]
        BY <1>1, <4>1
      <4> QED
        BY <3>3, <4>1, <4>2
    <3> QED
      BY <3>4, <3>5
  <2> QED
    BY <2>1, <2>2
<1>3. ASSUME Under(w, R) PROVE Under(u, R)
  <2> SUFFICES ASSUME NEW i \in 1..n, u[i] \in R
               PROVE  \E h \in 1..n : /\ h < i /\ u[h] \in ResultHeads
                                      /\ \A k \in 1..n : h < k /\ k < i => u[k] \notin Stops
    BY DEF Under, n
  <2>1. i \in 1..Len(w) /\ w[i] \in R
    BY <1>1
  <2>2. PICK h \in 1..Len(w) : /\ h < i /\ w[h] \in ResultHeads
                               /\ \A k \in 1..Len(w) : h < k /\ k < i => w[k] \notin Stops
    BY <1>3, <2>1 DEF Under
  <2>3. h \in 1..n /\ u[h] \in ResultHeads
    BY <1>1, <2>2
  <2>4. \A k \in 1..n : h < k /\ k < i => u[k] \notin Stops
    BY <1>1, <2>2
  <2> QED
    BY <2>2, <2>3, <2>4
<1>4. ASSUME Under(w, R), m > 0 => v[1] \in Stops /\ v[1] \notin R PROVE Under(v, R)
  <2> SUFFICES ASSUME NEW j \in 1..m, v[j] \in R
               PROVE  \E h \in 1..m : /\ h < j /\ v[h] \in ResultHeads
                                      /\ \A k \in 1..m : h < k /\ k < j => v[k] \notin Stops
    BY DEF Under, m
  <2>1. n + j \in 1..Len(w) /\ w[n + j] \in R
    BY <1>1
  <2>2. PICK g \in 1..Len(w) : /\ g < n + j /\ w[g] \in ResultHeads
                               /\ \A k \in 1..Len(w) : g < k /\ k < n + j => w[k] \notin Stops
    BY <1>4, <2>1 DEF Under
  <2>3. 1 \in 1..m /\ j # 1
    BY <1>1, <1>4
  <2>4. w[n + 1] \in Stops /\ n + 1 < n + j /\ n + 1 \in 1..Len(w)
    BY <1>1, <1>4, <2>3
  <2>5. ~(g < n + 1)
    BY <2>2, <2>4
  <2> DEFINE h == g - n
  <2>6. h \in 1..m /\ h < j /\ g = n + h
    BY <1>1, <2>2, <2>5
  <2> HIDE DEF h
  <2>7. v[h] \in ResultHeads
    BY <1>1, <2>2, <2>6
  <2>8. ASSUME NEW k \in 1..m, h < k, k < j PROVE v[k] \notin Stops
    <3>1. n + k \in 1..Len(w) /\ g < n + k /\ n + k < n + j /\ w[n + k] = v[k]
      BY <1>1, <2>6, <2>8
    <3> QED
      BY <2>2, <3>1
  <2> QED
    BY <2>6, <2>7, <2>8
<1> QED
  BY <1>2, <1>3, <1>4 DEF m

(* In a concatenation the order holds if no block has result headings of both. *)
Sundered(u, v) ==
  \/ \A i \in 1..Len(u) : u[i] \notin ResultHeads
  \/ \A j \in 1..Len(v) : v[j] \notin ResultHeads
  \/ v[1].shape = "block"
LEMMA OrderedChain ==
  ASSUME NEW u, NEW v, NEW w, Chained(u, v, w)
  PROVE  /\ Ordered(u) /\ Ordered(v) /\ Sundered(u, v) => Ordered(w)
         /\ Ordered(w) => Ordered(u) /\ Ordered(v)
<1> DEFINE n == Len(u)
           m == Len(v)
<1>1. /\ n \in Nat /\ m \in Nat /\ Len(w) = n + m
      /\ \A i \in 1..n : w[i] = u[i]
      /\ \A j \in 1..m : w[n + j] = v[j]
  BY DEF Chained
<1> HIDE DEF n, m
<1>2. ASSUME Ordered(u), Ordered(v), Sundered(u, v) PROVE Ordered(w)
  <2> SUFFICES ASSUME NEW g \in 1..(n + m), NEW h \in 1..(n + m), g < h,
                      w[g] \in ResultHeads, w[h] \in ResultHeads,
                      \A k \in 1..(n + m) : g < k /\ k < h => w[k].shape # "block"
               PROVE  w[g].of = "a" /\ w[h].of = "d"
    BY <1>1 DEF Ordered
  <2>1. CASE h \in 1..n
    <3>1. g \in 1..n /\ u[g] \in ResultHeads /\ u[h] \in ResultHeads
      BY <1>1, <2>1
    <3>2. \A k \in 1..n : g < k /\ k < h => u[k].shape # "block"
      BY <1>1
    <3>3. u[g].of = "a" /\ u[h].of = "d"
      BY <1>2, <2>1, <3>1, <3>2 DEF Ordered, n
    <3> QED
      BY <1>1, <2>1, <3>1, <3>3
  <2>2. CASE g \notin 1..n
    <3> DEFINE a == g - n
               b == h - n
    <3>1. a \in 1..m /\ b \in 1..m /\ a < b /\ g = n + a /\ h = n + b
      BY <1>1, <2>2
    <3> HIDE DEF a, b
    <3>2. v[a] = w[g] /\ v[b] = w[h]
      BY <1>1, <3>1
    <3>3. ASSUME NEW k \in 1..m, a < k, k < b PROVE v[k].shape # "block"
      <4>1. n + k \in 1..(n + m) /\ g < n + k /\ n + k < h /\ w[n + k] = v[k]
        BY <1>1, <3>1, <3>3
      <4> QED
        BY <4>1
    <3>4. v[a].of = "a" /\ v[b].of = "d"
      BY <1>2, <3>1, <3>2, <3>3 DEF Ordered, m
    <3> QED
      BY <3>2, <3>4
  <2>3. CASE g \in 1..n /\ h \notin 1..n
    <3> DEFINE b == h - n
    <3>1. b \in 1..m /\ h = n + b
      BY <1>1, <2>3
    <3> HIDE DEF b
    <3>2. v[b] \in ResultHeads /\ u[g] \in ResultHeads
      BY <1>1, <2>3, <3>1
    <3>3. v[1].shape = "block"
      BY <1>2, <2>3, <3>1, <3>2 DEF Sundered, n, m
    <3>4. 1 \in 1..m /\ w[n + 1] = v[1]
      BY <1>1, <3>1
    <3>5. b # 1
      BY <3>2, <3>3, HeadsStop
    <3>6. n + 1 \in 1..(n + m) /\ g < n + 1 /\ n + 1 < h
      BY <1>1, <2>3, <3>1, <3>5
    <3> QED
      BY <3>3, <3>4, <3>6
  <2> QED
    BY <1>1, <2>1, <2>2, <2>3
<1>3. ASSUME Ordered(w) PROVE Ordered(u)
  <2> SUFFICES ASSUME NEW g \in 1..n, NEW h \in 1..n, g < h,
                      u[g] \in ResultHeads, u[h] \in ResultHeads,
                      \A k \in 1..n : g < k /\ k < h => u[k].shape # "block"
               PROVE  u[g].of = "a" /\ u[h].of = "d"
    BY DEF Ordered, n
  <2>1. g \in 1..Len(w) /\ h \in 1..Len(w) /\ w[g] = u[g] /\ w[h] = u[h]
    BY <1>1
  <2>2. \A k \in 1..Len(w) : g < k /\ k < h => w[k].shape # "block"
    BY <1>1
  <2> QED
    BY <1>3, <2>1, <2>2 DEF Ordered
<1>4. ASSUME Ordered(w) PROVE Ordered(v)
  <2> SUFFICES ASSUME NEW g \in 1..m, NEW h \in 1..m, g < h,
                      v[g] \in ResultHeads, v[h] \in ResultHeads,
                      \A k \in 1..m : g < k /\ k < h => v[k].shape # "block"
               PROVE  v[g].of = "a" /\ v[h].of = "d"
    BY DEF Ordered, m
  <2> DEFINE a == n + g
             b == n + h
  <2>1. a \in 1..Len(w) /\ b \in 1..Len(w) /\ a < b /\ w[a] = v[g] /\ w[b] = v[h]
    BY <1>1
  <2>2. ASSUME NEW k \in 1..Len(w), a < k, k < b PROVE w[k].shape # "block"
    <3>1. k - n \in 1..m /\ g < k - n /\ k - n < h /\ k = n + (k - n)
      BY <1>1, <2>2
    <3>2. w[n + (k - n)] = v[k - n]
      BY <1>1, <3>1
    <3> QED
      BY <3>1, <3>2
  <2> HIDE DEF a, b
  <2>3. w[a].of = "a" /\ w[b].of = "d"
    BY <1>4, <2>1, <2>2 DEF Ordered
  <2> QED
    BY <2>1, <2>3
<1> QED
  BY <1>2, <1>3, <1>4

Said == {l \in Lines : ~IsLedger(l)}
Sections(x, y, z, rest, h) ==
  /\ rest = x \o (y \o z) /\ Len(x) = h - 1 /\ Len(y) > 0 /\ y[1] = rest[h]
  /\ \A k \in 2..Len(y) : ~IsHeading(y[k])
  /\ Len(z) > 0 => IsHeading(z[1])

(* Every heading cuts what it stands in into three. *)
LEMMA SplitAt ==
  ASSUME NEW rest \in Seq(Inner), NEW h \in 1..Len(rest)
  PROVE  \E x, y, z \in Seq(Inner) : Sections(x, y, z, rest, h)
<1> DEFINE n == Len(rest)
           ends == {n + 1} \cup {i \in 1..n : IsHeading(rest[i]) /\ i > h}
           e == FirstIndex(ends)
           x == SubSeq(rest, 1, h - 1)
           y == SubSeq(rest, h, e - 1)
           z == SubSeq(rest, e, n)
<1>1. n \in Nat /\ h \in Int /\ \A i \in 1..n : rest[i] \in Inner
  BY ElementOfSeq, LenProperties
<1>2. e \in ends /\ \A i \in ends : e <= i
  <2> DEFINE m == n + 1
  <2>1. ends \in SUBSET (1..m) /\ m \in ends /\ m \in Nat
    BY <1>1
  <2> HIDE DEF ends, m
  <2> QED
    BY <2>1, FirstIndexIs
<1>3. e \in (h + 1)..(n + 1) /\ (e <= n => IsHeading(rest[e])) /\ \A i \in 1..n : h < i /\ i < e => ~IsHeading(rest[i])
  <2> DEFINE d == e
  <2>1. d \in ends /\ \A i \in ends : d <= i
    BY <1>2
  <2> HIDE DEF d
  <2>2. d = n + 1 \/ (d \in 1..n /\ IsHeading(rest[d]) /\ d > h)
    BY <2>1
  <2>3. d \in (h + 1)..(n + 1) /\ (d <= n => IsHeading(rest[d]))
    BY <1>1, <2>2
  <2>4. ASSUME NEW i \in 1..n, h < i, i < d PROVE ~IsHeading(rest[i])
    <3>1. ~(d <= i)
      BY <1>1, <2>3, <2>4
    <3>2. i > h
      BY <2>4
    <3> QED
      BY <2>1, <3>1, <3>2
  <2> QED
    BY <2>3, <2>4 DEF d
<1> HIDE DEF e, ends
<1>4. /\ x \in Seq(Inner) /\ Len(x) = h - 1
      /\ y \in Seq(Inner) /\ Len(y) = e - h /\ \A k \in 1..(e - h) : y[k] = rest[h + k - 1]
      /\ z \in Seq(Inner) /\ Len(z) = n + 1 - e /\ \A k \in 1..(n + 1 - e) : z[k] = rest[e + k - 1]
  <2>1. x \in Seq(Inner) /\ Len(x) = h - 1
    <3>1. \A i \in 1..(h - 1) : rest[i] \in Inner
      BY <1>1
    <3>2. 1 \in Int /\ h - 1 \in Int
      BY <1>1
    <3>3. SubSeq(rest, 1, h - 1) \in Seq(Inner) /\ Len(SubSeq(rest, 1, h - 1)) = IF 1 <= h - 1 THEN (h - 1) - 1 + 1 ELSE 0
      BY <3>1, <3>2, SubSeqProperties
    <3> QED
      BY <1>1, <3>3
  <2>2. y \in Seq(Inner) /\ Len(y) = e - h /\ \A k \in 1..(e - h) : y[k] = rest[h + k - 1]
    <3> DEFINE m == e - 1
    <3>1. \A i \in h..m : rest[i] \in Inner
      BY <1>1, <1>3
    <3>2. h \in Int /\ m \in Int /\ h <= m /\ m - h + 1 = e - h
      BY <1>1, <1>3
    <3> HIDE DEF m
    <3>3. /\ SubSeq(rest, h, m) \in Seq(Inner)
          /\ Len(SubSeq(rest, h, m)) = IF h <= m THEN m - h + 1 ELSE 0
          /\ \A k \in 1..(m - h + 1) : SubSeq(rest, h, m)[k] = rest[h + k - 1]
      BY <3>1, <3>2, SubSeqProperties
    <3> QED
      BY <3>2, <3>3 DEF m
  <2>3. z \in Seq(Inner) /\ Len(z) = n + 1 - e /\ \A k \in 1..(n + 1 - e) : z[k] = rest[e + k - 1]
    <3>1. \A i \in e..n : rest[i] \in Inner
      BY <1>1, <1>3
    <3>2. e \in Int /\ n \in Int /\ e <= n + 1 /\ n - e + 1 = n + 1 - e
      BY <1>1, <1>3
    <3>3. /\ SubSeq(rest, e, n) \in Seq(Inner)
          /\ Len(SubSeq(rest, e, n)) = IF e <= n THEN n - e + 1 ELSE 0
          /\ \A k \in 1..(n - e + 1) : SubSeq(rest, e, n)[k] = rest[e + k - 1]
      BY <3>1, <3>2, SubSeqProperties
    <3> QED
      BY <3>2, <3>3
  <2> QED
    BY <2>1, <2>2, <2>3
<1>5. rest = x \o (y \o z)
  <2>1. SubSeq(rest, h, e - 1) \o SubSeq(rest, (e - 1) + 1, n) = SubSeq(rest, h, n)
    <3>1. h \in 1..(Len(rest) + 1) /\ e - 1 \in (h - 1)..Len(rest) /\ n \in (e - 1)..Len(rest)
      BY <1>1, <1>3
    <3> QED
      BY <3>1, ConcatAdjacentSubSeq
  <2>2. SubSeq(rest, 1, h - 1) \o SubSeq(rest, (h - 1) + 1, n) = SubSeq(rest, 1, n)
    <3>1. 1 \in 1..(Len(rest) + 1) /\ h - 1 \in (1 - 1)..Len(rest) /\ n \in (h - 1)..Len(rest)
      BY <1>1
    <3> QED
      BY <3>1, ConcatAdjacentSubSeq
  <2>3. (e - 1) + 1 = e /\ (h - 1) + 1 = h
    BY <1>1, <1>3
  <2>4. SubSeq(rest, 1, n) = rest
    BY SubSeqFull
  <2> QED
    BY <2>1, <2>2, <2>3, <2>4
<1> HIDE DEF x, y, z
<1>6. Len(y) > 0 /\ y[1] = rest[h] /\ \A k \in 2..Len(y) : ~IsHeading(y[k])
  <2>1. Len(y) > 0 /\ 1 \in 1..(e - h) /\ h + 1 - 1 = h
    BY <1>1, <1>3, <1>4
  <2>2. ASSUME NEW k \in 2..Len(y) PROVE ~IsHeading(y[k])
    <3>1. k \in 1..(e - h) /\ h + k - 1 \in 1..n /\ h < h + k - 1 /\ h + k - 1 < e
      BY <1>1, <1>3, <1>4
    <3> QED
      BY <1>3, <1>4, <3>1
  <2> QED
    BY <1>4, <2>1, <2>2
<1>7. Len(z) > 0 => IsHeading(z[1])
  <2> SUFFICES ASSUME Len(z) > 0 PROVE IsHeading(z[1])
    OBVIOUS
  <2>1. e <= n /\ 1 \in 1..(n + 1 - e) /\ e + 1 - 1 = e
    BY <1>1, <1>3, <1>4
  <2> QED
    BY <1>3, <1>4, <2>1
<1>8. Sections(x, y, z, rest, h)
  BY <1>4, <1>5, <1>6, <1>7 DEF Sections
<1> QED
  BY <1>4, <1>8

Opens(y, t) == IsHeading(y[1]) /\ y[1].of = t
Lacks(z, t) == \A k \in 1..Len(z) : ~(IsHeading(z[k]) /\ z[k].of = t)

(* A part is found behind the last heading of its kind. *)
LEMMA PartOfIs ==
  ASSUME NEW rest \in Seq(Inner), NEW x \in Seq(Inner), NEW y \in Seq(Inner), NEW z \in Seq(Inner),
         NEW h \in 1..Len(rest), Sections(x, y, z, rest, h), NEW t, Opens(y, t), Lacks(z, t)
  PROVE  PartOf(rest, t) = Select(y, Said)
<1>0. \A k \in 1..Len(z) : ~(IsHeading(z[k]) /\ z[k].of = t)
  BY DEF Lacks
<1> DEFINE v == y \o z
           a == Len(x)
           b == Len(y)
           c == Len(z)
           own == Headings(rest, t)
           heads == {i \in PartHeads(rest) : i > h}
           ends == {Len(rest) + 1} \cup heads
<1>1. v \in Seq(Inner) /\ Chained(y, z, v)
  BY ChainIs
<1>2. /\ rest = x \o v /\ a = h - 1 /\ b > 0 /\ y[1] = rest[h]
      /\ \A k \in 2..b : ~IsHeading(y[k])
      /\ c > 0 => IsHeading(z[1])
  BY DEF Sections
<1> HIDE DEF v
<1>3. Chained(x, v, rest)
  BY <1>1, <1>2, ChainIs
<1>4. /\ a \in Nat /\ b \in Nat /\ c \in Nat /\ Len(v) = b + c /\ Len(rest) = a + (b + c)
      /\ \A i \in 1..b : v[i] = y[i]
      /\ \A j \in 1..c : v[b + j] = z[j]
      /\ \A j \in 1..Len(v) : rest[a + j] = v[j]
  BY <1>1, <1>3 DEF Chained
<1>5. \A i \in 1..b : rest[a + i] = y[i]
  BY <1>4
<1>6. ASSUME NEW j \in 1..c PROVE rest[(a + b) + j] = z[j]
  <2>1. b + j \in 1..Len(v) /\ a + (b + j) = (a + b) + j
    BY <1>4
  <2> QED
    BY <1>4, <2>1
<1> DEFINE n == Len(rest)
<1>7. DOMAIN rest = 1..n /\ n \in Nat /\ n = a + (b + c) /\ h = a + 1 /\ h \in 1..n
  BY <1>2, <1>4, LenProperties
<1> HIDE DEF a, b, c, n
<1>8. h \in own
  BY <1>2, <1>7 DEF Headings, n, Opens
<1>9. ASSUME NEW i \in 1..n, i > h, IsHeading(rest[i]) PROVE i > a + b /\ rest[i].of # t
  <2>1. CASE i <= a + b
    <3>1. i - a \in 2..b /\ i - a \in 1..b /\ a + (i - a) = i
      BY <1>4, <1>7, <1>9, <2>1
    <3>2. rest[a + (i - a)] = y[i - a]
      BY <1>5, <3>1
    <3> QED
      BY <1>2, <1>9, <3>1, <3>2
  <2>2. CASE i > a + b
    <3>1. i - (a + b) \in 1..c /\ (a + b) + (i - (a + b)) = i
      BY <1>4, <1>7, <1>9, <2>2
    <3>2. rest[(a + b) + (i - (a + b))] = z[i - (a + b)]
      BY <1>6, <3>1
    <3> QED
      BY <1>0, <1>9, <2>2, <3>1, <3>2 DEF c
  <2> QED
    BY <1>4, <1>7, <2>1, <2>2
<1>10. LastIndex(own) = h
  <2>1. own \in SUBSET (1..n)
    BY <1>7 DEF Headings
  <2>2. \A i \in own : IsHeading(rest[i]) /\ rest[i].of = t /\ i \in 1..n
    BY <2>1 DEF Headings
  <2> HIDE DEF own
  <2>3. ASSUME NEW i \in own PROVE i <= h
    <3>1. i \in 1..n /\ IsHeading(rest[i]) /\ rest[i].of = t
      BY <2>2
    <3>2. ~(i > h)
      BY <1>9, <3>1
    <3>3. n \in Nat /\ h \in 1..n
      BY <1>7
    <3> QED
      BY <3>1, <3>2, <3>3
  <2> QED
    BY <1>7, <1>8, <2>1, <2>3, LastIndexBy
<1>11. FirstIndex(ends) = (a + b) + 1
  <2> DEFINE m == n + 1
             f == (a + b) + 1
  <2>1. ends \in SUBSET (1..m) /\ m \in Nat /\ m \in ends
    BY <1>7 DEF PartHeads, n
  <2>2. \A i \in ends : i = m \/ (i \in 1..n /\ i > h /\ IsHeading(rest[i]))
    BY <1>7 DEF PartHeads, n
  <2>3. f \in ends
    <3>1. CASE c = 0
      <4>1. f = m
        BY <1>4, <1>7, <3>1
      <4> QED
        BY <2>1, <4>1
    <3>2. CASE c > 0
      <4>1. 1 \in 1..c /\ f \in 1..n /\ f > h
        BY <1>2, <1>4, <1>7, <3>2
      <4>2. IsHeading(rest[f])
        BY <1>2, <1>6, <3>2, <4>1
      <4> QED
        BY <1>7, <4>1, <4>2 DEF PartHeads
    <3> QED
      BY <1>4, <3>1, <3>2
  <2> HIDE DEF ends
  <2>4. ASSUME NEW i \in ends PROVE f <= i
    <3>1. CASE i = m
      BY <1>4, <1>7, <3>1
    <3>2. CASE i # m
      <4>1. i \in 1..n /\ i > h /\ IsHeading(rest[i])
        BY <2>2, <3>2
      <4>2. i > a + b
        BY <1>9, <4>1
      <4> QED
        BY <1>4, <1>7, <4>1, <4>2
    <3> QED
      BY <3>1, <3>2
  <2> HIDE DEF m, f
  <2>5. FirstIndex(ends) = f
    BY <2>1, <2>3, <2>4, FirstIndexBy
  <2> QED
    BY <2>5 DEF f
<1>12. PartOf(rest, t) = Select(SubSeq(rest, h, a + b), Said)
  <2>1. own # {}
    BY <1>8
  <2>2. ((a + b) + 1) - 1 = a + b
    BY <1>4
  <2> HIDE DEF ends
  <2>3. PartOf(rest, t) = Select(SubSeq(rest, h, FirstIndex(ends) - 1), Said)
    BY <1>10, <2>1 DEF PartOf, Said, ends, n
  <2> QED
    BY <1>11, <2>2, <2>3
<1>13. SubSeq(rest, h, a + b) = y
  <2>1. SubSeq(x \o (y \o z), Len(x) + 1, Len(x) + Len(y)) = y
    BY CutBack
  <2> QED
    BY <1>2, <1>7, <2>1 DEF v, a, b
<1> QED
  BY <1>12, <1>13

Tidy(B, R) == Under(B, R) /\ Ordered(B)
Texts == {l \in Lines : l.shape = "text"}

(* The kinds of lines inside a block. *)
LEMMA InnerHeads ==
  /\ \A l \in Inner : IsHeading(l) => l.shape \in {"part", "bullet"} /\ l \in Stops /\ l \in Said /\ l \in Narrated
  /\ \A l \in Inner : l \in ResultHeads <=> IsHeading(l) /\ l.of \in {"a", "d"}
  /\ \A l \in Inner : l \in Stops <=> IsHeading(l)
  /\ \A l \in Texts : ~IsHeading(l) /\ l \in Said /\ l \notin Stops /\ l.shape # "block" /\ ~IsLedger(l)
  /\ Inner \subseteq Lines /\ Narrated \subseteq Inner /\ Inner \subseteq Running /\ Running \subseteq Lines
  /\ \A l \in Narrated : l \in Said
  /\ \A l \in Running : l \in Inner \/ l.shape = "block"
BY DEF Inner, Running, Narrated, Stops, Said, ResultHeads, IsHeading, Parts, IsLedger, Texts

(* What a section gains behind its last line leaves it tidy. *)
LEMMA TidyAfter ==
  ASSUME NEW X, NEW u \in Seq(X), NEW v \in Seq(X), NEW R, Tidy(u, R),
         \A j \in 1..Len(v) : v[j] \notin R /\ v[j] \notin ResultHeads
  PROVE  Tidy(u \o v, R)
<1> DEFINE w == u \o v
<1>1. Chained(u, v, w)
  BY ChainIs
<1> HIDE DEF w
<1>2. Under(v, R) /\ Ordered(v) /\ Sundered(u, v)
  BY DEF Under, Ordered, Sundered
<1>3. Under(w, R) /\ Ordered(w)
  BY <1>1, <1>2, UnderChain, OrderedChain DEF Tidy
<1> QED
  BY <1>3 DEF Tidy, w

LEMMA TidyBehind ==
  ASSUME NEW X, NEW u \in Seq(X), NEW v \in Seq(X), NEW R, Tidy(u, R), Tidy(v, R), Sundered(u, v)
  PROVE  Tidy(u \o v, R)
<1> DEFINE w == u \o v
<1>1. Chained(u, v, w)
  BY ChainIs
<1> HIDE DEF w
<1>2. Under(w, R) /\ Ordered(w)
  BY <1>1, UnderChain, OrderedChain DEF Tidy
<1> QED
  BY <1>2 DEF Tidy, w

(* A stretch below no result heading has no results. *)
LEMMA Barren ==
  ASSUME NEW x \in Seq(Inner), NEW R, Under(x, R), \A i \in 1..Len(x) : x[i] \notin ResultHeads
  PROVE  Select(x, R) = << >>
<1> DEFINE Y == {l \in Inner : l \notin R}
<1>1. \A i \in 1..Len(x) : x[i] \in Inner
  BY ElementOfSeq
<1>2. \A i \in 1..Len(x) : x[i] \notin R
  BY DEF Under
<1>3. \A i \in 1..Len(x) : x[i] \in Y
  BY <1>1, <1>2
<1>4. Len(x) \in Nat /\ x = [i \in 1..Len(x) |-> x[i]]
  BY LenProperties
<1>5. x \in Seq(Y)
  BY <1>3, <1>4
<1>6. \A l \in Y : l \notin R
  OBVIOUS
<1> HIDE DEF Y
<1> QED
  BY <1>5, <1>6, SelectNone

(* A part that is taken: its heading comes first, and no other follows. *)
LEMMA SaidShape ==
  ASSUME NEW y \in Seq(Inner), Len(y) > 0, IsHeading(y[1]), \A k \in 2..Len(y) : ~IsHeading(y[k])
  PROVE  /\ Len(Select(y, Said)) > 0 /\ Select(y, Said)[1] = y[1]
         /\ \A k \in 2..Len(Select(y, Said)) : ~IsHeading(Select(y, Said)[k])
<1> DEFINE t == Select(y, Said)
<1>1. PICK f : Embeds(f, t, y, Said)
  BY SelectEmbeds
<1>2. t \in Seq(Inner) /\ Len(t) \in Nat
  <2>1. t \in Seq(Inner)
    BY SelectType
  <2> QED
    BY <2>1, LenProperties
<1> HIDE DEF t
<1>3. /\ \A i \in 1..Len(t) : f[i] \in 1..Len(y) /\ t[i] = y[f[i]]
      /\ \A i, j \in 1..Len(t) : i < j => f[i] < f[j]
      /\ \A k \in 1..Len(y) : y[k] \in Said => \E i \in 1..Len(t) : f[i] = k
  BY <1>1 DEF Embeds
<1>4. Len(y) \in Nat /\ 1 \in 1..Len(y) /\ y[1] \in Inner
  <2>1. Len(y) \in Nat
    BY LenProperties
  <2>2. 1 \in 1..Len(y)
    BY <2>1
  <2> QED
    BY <2>1, <2>2, ElementOfSeq
<1>5. y[1] \in Said
  BY <1>4, InnerHeads
<1>6. PICK i \in 1..Len(t) : f[i] = 1
  BY <1>3, <1>4, <1>5
<1>7. 1 \in 1..Len(t) /\ i \in Int /\ f[1] \in 1..Len(y)
  BY <1>2, <1>3, <1>6
<1>8. i = 1
  <2>1. CASE 1 < i
    <3>1. f[1] < f[i]
      BY <1>3, <1>6, <1>7, <2>1
    <3> QED
      BY <1>4, <1>6, <1>7, <3>1
  <2> QED
    BY <1>2, <1>6, <2>1
<1>9. Len(t) > 0 /\ t[1] = y[1]
  BY <1>2, <1>3, <1>6, <1>7, <1>8
<1>10. ASSUME NEW k \in 2..Len(t) PROVE ~IsHeading(t[k])
  <2>1. k \in 1..Len(t) /\ 1 < k
    BY <1>2
  <2>2. f[1] < f[k] /\ f[k] \in 1..Len(y) /\ t[k] = y[f[k]]
    BY <1>3, <1>7, <2>1
  <2>3. f[k] \in 2..Len(y)
    BY <1>4, <1>6, <1>8, <2>2
  <2> QED
    BY <2>2, <2>3
<1> QED
  BY <1>9, <1>10 DEF t

(* PartOf, in general: nothing, or a heading of its kind and no other behind it. *)
OnePart(P, t) ==
  P = << >> \/ (Len(P) > 0 /\ IsHeading(P[1]) /\ P[1].of = t /\ \A k \in 2..Len(P) : ~IsHeading(P[k]))

(* What _reduce_log_block finds of a part: nothing, or its last section. *)
LEMMA PartOfNone ==
  ASSUME NEW rest \in Seq(Inner), NEW t, Lacks(rest, t)
  PROVE  PartOf(rest, t) = << >>
<1>1. DOMAIN rest = 1..Len(rest)
  BY LenProperties
<1>2. Headings(rest, t) = {}
  BY <1>1 DEF Headings, Lacks
<1> QED
  BY <1>2 DEF PartOf

LEMMA LastHeading ==
  ASSUME NEW rest \in Seq(Inner), NEW t, NEW i \in 1..Len(rest), IsHeading(rest[i]), rest[i].of = t
  PROVE  \E h \in 1..Len(rest) : /\ IsHeading(rest[h]) /\ rest[h].of = t
                                 /\ \A k \in 1..Len(rest) : IsHeading(rest[k]) /\ rest[k].of = t => k <= h
<1> DEFINE n == Len(rest)
           S == {k \in 1..n : IsHeading(rest[k]) /\ rest[k].of = t}
           T == {n + 1 - k : k \in S}
<1>1. n \in Nat
  BY LenProperties
<1>2. i \in S /\ S \in SUBSET (1..n)
  OBVIOUS
<1>3. T \in SUBSET (1..n) /\ n + 1 - i \in T
  BY <1>1, <1>2
<1> HIDE DEF T
<1>4. PICK m \in T : \A y \in T : m <= y
  BY <1>1, <1>3, First
<1>5. PICK h \in S : m = n + 1 - h
  BY <1>4 DEF T
<1>6. ASSUME NEW k \in S PROVE k <= h
  <2>1. n + 1 - k \in T
    BY DEF T
  <2>2. n + 1 - h <= n + 1 - k
    BY <1>4, <1>5, <2>1
  <2>3. k \in Int /\ h \in Int
    BY <1>2
  <2> QED
    BY <1>1, <2>2, <2>3
<1> QED
  BY <1>5, <1>6

PartIs(rest, t, h, x, y, z) ==
  /\ Sections(x, y, z, rest, h) /\ IsHeading(y[1]) /\ y[1].of = t /\ Lacks(z, t)
  /\ PartOf(rest, t) = Select(y, Said)

LEMMA PartFound ==
  ASSUME NEW rest \in Seq(Inner), NEW t, ~Lacks(rest, t)
  PROVE  \E h \in 1..Len(rest) : \E x, y, z \in Seq(Inner) : PartIs(rest, t, h, x, y, z)
<1>1. PICK h \in 1..Len(rest) : /\ IsHeading(rest[h]) /\ rest[h].of = t
                                /\ \A k \in 1..Len(rest) : IsHeading(rest[k]) /\ rest[k].of = t => k <= h
  BY LastHeading DEF Lacks
<1>2. PICK x \in Seq(Inner), y \in Seq(Inner), z \in Seq(Inner) : Sections(x, y, z, rest, h)
  BY SplitAt
<1>3. /\ rest = x \o (y \o z) /\ Len(x) = h - 1 /\ Len(y) > 0 /\ y[1] = rest[h]
      /\ \A k \in 2..Len(y) : ~IsHeading(y[k])
  BY <1>2 DEF Sections
<1>4. ASSUME NEW k \in 1..Len(z), IsHeading(z[k]), z[k].of = t PROVE FALSE
  <2> DEFINE v == y \o z
  <2>1. v \in Seq(Inner) /\ Chained(y, z, v)
    BY ChainIs
  <2>2. rest = x \o v
    BY <1>3
  <2> HIDE DEF v
  <2>3. Chained(x, v, rest)
    BY <2>1, <2>2, ChainIs
  <2>4. /\ Len(x) \in Nat /\ Len(y) \in Nat /\ Len(z) \in Nat /\ Len(v) = Len(y) + Len(z)
        /\ v[Len(y) + k] = z[k] /\ Len(rest) = Len(x) + Len(v)
        /\ \A j \in 1..Len(v) : rest[Len(x) + j] = v[j]
    BY <2>1, <2>3 DEF Chained
  <2> DEFINE j == Len(y) + k
             g == Len(x) + j
  <2>5. j \in 1..Len(v) /\ g \in 1..Len(rest) /\ g > h
    BY <1>3, <2>4
  <2>6. rest[g] = z[k]
    BY <2>4, <2>5
  <2> HIDE DEF j, g
  <2>7. g <= h
    BY <1>1, <1>4, <2>5, <2>6
  <2> QED
    BY <2>5, <2>7
<1>5. Lacks(z, t)
  BY <1>4 DEF Lacks
<1>6. IsHeading(y[1]) /\ y[1].of = t
  BY <1>1, <1>3
<1>7. PartOf(rest, t) = Select(y, Said)
  <2>1. Opens(y, t)
    BY <1>6 DEF Opens
  <2> QED
    BY <1>2, <1>5, <2>1, PartOfIs
<1>8. PartIs(rest, t, h, x, y, z)
  BY <1>2, <1>5, <1>6, <1>7 DEF PartIs
<1> QED
  BY <1>2, <1>8

LEMMA PartShape ==
  ASSUME NEW rest \in Seq(Inner), NEW t
  PROVE  OnePart(PartOf(rest, t), t)
<1>1. CASE Lacks(rest, t)
  BY <1>1, PartOfNone DEF OnePart
<1>2. CASE ~Lacks(rest, t)
  <2>1. PICK h \in 1..Len(rest), x \in Seq(Inner), y \in Seq(Inner), z \in Seq(Inner) : PartIs(rest, t, h, x, y, z)
    BY <1>2, PartFound
  <2>2. /\ IsHeading(y[1]) /\ y[1].of = t /\ PartOf(rest, t) = Select(y, Said)
        /\ Len(y) > 0 /\ \A k \in 2..Len(y) : ~IsHeading(y[k])
    BY <2>1 DEF PartIs, Sections
  <2> QED
    BY <2>1, <2>2, SaidShape DEF OnePart
<1> QED
  BY <1>1, <1>2

(* Select over the three stretches. *)
ThreeAre(x, y, z, S) == Select(x \o (y \o z), S) = Select(x, S) \o (Select(y, S) \o Select(z, S))
LEMMA SelectThree ==
  ASSUME NEW X, NEW x \in Seq(X), NEW y \in Seq(X), NEW z \in Seq(X), NEW S
  PROVE  ThreeAre(x, y, z, S)
<1> DEFINE v == y \o z
<1>1. v \in Seq(X)
  BY ConcatProperties
<1>2. Select(v, S) = Select(y, S) \o Select(z, S)
  BY SelectConcat
<1> HIDE DEF v
<1>3. Select(x \o v, S) = Select(x, S) \o Select(v, S)
  BY <1>1, SelectConcat, SMTT(30)
<1> QED
  BY <1>2, <1>3 DEF v, ThreeAre

(* No result is a ledger line. *)
LEMMA SaidResults ==
  ASSUME NEW y \in Seq(Inner), NEW R, R \subseteq Texts
  PROVE  Select(Select(y, Said), R) = Select(y, R)
<1>1. \A l \in Inner : l \in R => l \in Said
  BY InnerHeads
<1> QED
  BY <1>1, SelectNested

(* The stretches of a tidy sequence are tidy. *)
LEMMA TidyThree ==
  ASSUME NEW rest \in Seq(Inner), NEW x \in Seq(Inner), NEW y \in Seq(Inner), NEW z \in Seq(Inner),
         NEW h \in 1..Len(rest), Sections(x, y, z, rest, h), IsHeading(rest[h]),
         NEW R, R \subseteq Texts, Tidy(rest, R)
  PROVE  Tidy(x, R) /\ Tidy(z, R)
<1> DEFINE v == y \o z
<1>1. v \in Seq(Inner) /\ Chained(y, z, v)
  BY ChainIs
<1>2. /\ rest = x \o v /\ Len(y) > 0 /\ y[1] = rest[h]
      /\ Len(z) > 0 => IsHeading(z[1])
  BY DEF Sections
<1> HIDE DEF v
<1>3. Chained(x, v, rest)
  BY <1>1, <1>2, ChainIs
<1>4. Len(y) \in Nat /\ Len(z) \in Nat /\ Len(v) = Len(y) + Len(z) /\ \A i \in 1..Len(y) : v[i] = y[i]
  BY <1>1 DEF Chained
<1>5. v[1] = y[1] /\ v[1] \in Inner /\ IsHeading(v[1])
  <2>1. 1 \in 1..Len(y)
    BY <1>2, <1>4
  <2>2. y[1] \in Inner
    BY <2>1, ElementOfSeq
  <2> QED
    BY <1>2, <1>4, <2>1, <2>2
<1>6. v[1] \in Stops /\ v[1] \notin R
  BY <1>5, InnerHeads
<1>7. Under(x, R) /\ Under(v, R) /\ Ordered(x) /\ Ordered(v)
  BY <1>3, <1>6, UnderChain, OrderedChain DEF Tidy
<1>8. Len(z) > 0 => z[1] \in Stops /\ z[1] \notin R
  <2> SUFFICES ASSUME Len(z) > 0 PROVE z[1] \in Stops /\ z[1] \notin R
    OBVIOUS
  <2>1. 1 \in 1..Len(z)
    BY <1>4
  <2>2. z[1] \in Inner
    BY <2>1, ElementOfSeq
  <2> QED
    BY <1>2, <2>2, InnerHeads
<1>9. Under(z, R) /\ Ordered(z)
  BY <1>1, <1>7, <1>8, UnderChain, OrderedChain
<1> QED
  BY <1>7, <1>9 DEF Tidy

(* Within a block each result heading occurs once, (a) before (d). *)
LEMMA HeadOnce ==
  ASSUME NEW rest \in Seq(Inner), Ordered(rest), NEW g \in 1..Len(rest), NEW h \in 1..Len(rest),
         rest[g] \in ResultHeads, rest[h] \in ResultHeads, g < h
  PROVE  rest[g].of = "a" /\ rest[h].of = "d"
<1>1. \A k \in 1..Len(rest) : rest[k].shape # "block"
  <2>1. \A k \in 1..Len(rest) : rest[k] \in Inner
    BY ElementOfSeq
  <2> QED
    BY <2>1 DEF Inner
<1> QED
  BY <1>1 DEF Ordered

(* With result headings of one kind only, the part of that kind has all.       *)
LEMMA PartAlone ==
  ASSUME NEW rest \in Seq(Inner), NEW R, R \subseteq Texts, Tidy(rest, R), NEW t \in {"a", "d"},
         \A k \in 1..Len(rest) : rest[k] \in ResultHeads => rest[k].of = t
  PROVE  Select(PartOf(rest, t), R) = Select(rest, R)
<1>1. \A k \in 1..Len(rest) : rest[k] \in Inner
  BY ElementOfSeq
<1>2. CASE \A k \in 1..Len(rest) : rest[k] \notin ResultHeads
  <2>1. Select(rest, R) = << >>
    BY <1>2, Barren DEF Tidy
  <2>2. Lacks(rest, t)
    BY <1>1, <1>2, InnerHeads DEF Lacks
  <2>3. PartOf(rest, t) = << >>
    BY <2>2, PartOfNone
  <2> QED
    BY <2>1, <2>3, SelectEmpty
<1>3. CASE \E k \in 1..Len(rest) : rest[k] \in ResultHeads
  <2>1. PICK h \in 1..Len(rest) : rest[h] \in ResultHeads
    BY <1>3
  <2>2. IsHeading(rest[h]) /\ rest[h].of = t
    BY <2>1, HeadsStop
  <2>3. \A k \in 1..Len(rest) : rest[k] \in ResultHeads => k = h
    <3> SUFFICES ASSUME NEW k \in 1..Len(rest), rest[k] \in ResultHeads, k # h PROVE FALSE
      OBVIOUS
    <3>1. k \in Int /\ h \in Int /\ Ordered(rest)
      BY DEF Tidy
    <3>2. rest[k].of = t /\ rest[h].of = t
      BY <2>1
    <3>3. CASE k < h
      BY <2>1, <3>1, <3>2, <3>3, HeadOnce
    <3>4. CASE h < k
      BY <2>1, <3>1, <3>2, <3>4, HeadOnce
    <3> QED
      BY <3>1, <3>3, <3>4
  <2>4. PICK x \in Seq(Inner), y \in Seq(Inner), z \in Seq(Inner) : Sections(x, y, z, rest, h)
    BY SplitAt
  <2>5. /\ rest = x \o (y \o z) /\ Len(x) = h - 1 /\ Len(y) > 0 /\ y[1] = rest[h]
    BY <2>4 DEF Sections
  <2>6. Tidy(x, R) /\ Tidy(z, R)
    BY <2>2, <2>4, TidyThree
  <2> DEFINE v == y \o z
  <2>7. v \in Seq(Inner) /\ Chained(y, z, v)
    BY ChainIs
  <2>8. rest = x \o v
    BY <2>5
  <2> HIDE DEF v
  <2>9. Chained(x, v, rest)
    BY <2>7, <2>8, ChainIs
  <2>10. /\ Len(x) \in Nat /\ Len(y) \in Nat /\ Len(z) \in Nat /\ Len(v) = Len(y) + Len(z)
         /\ Len(rest) = Len(x) + Len(v)
         /\ \A j \in 1..Len(z) : v[Len(y) + j] = z[j]
         /\ \A i \in 1..Len(x) : rest[i] = x[i]
         /\ \A j \in 1..Len(v) : rest[Len(x) + j] = v[j]
    BY <2>7, <2>9 DEF Chained
  <2>10a. /\ Len(x) \in Nat /\ Len(y) \in Nat /\ Len(z) \in Nat /\ Len(v) = Len(y) + Len(z)
          /\ Len(rest) = Len(x) + Len(v) /\ Len(x) = h - 1 /\ Len(y) > 0 /\ h \in Nat
    BY <2>5, <2>10
  <2>11. \A i \in 1..Len(x) : x[i] \notin ResultHeads
    <3> SUFFICES ASSUME NEW i \in 1..Len(x), x[i] \in ResultHeads PROVE FALSE
      OBVIOUS
    <3>1. i \in 1..Len(rest) /\ i # h
      BY <2>10a
    <3>2. rest[i] = x[i]
      BY <2>10
    <3> QED
      BY <2>3, <3>1, <3>2
  <2>12. \A j \in 1..Len(z) : z[j] \notin ResultHeads
    <3> SUFFICES ASSUME NEW j \in 1..Len(z), z[j] \in ResultHeads PROVE FALSE
      OBVIOUS
    <3> DEFINE b == Len(y) + j
               g == Len(x) + b
    <3>1. b \in 1..Len(v) /\ g \in 1..Len(rest) /\ g # h
      BY <2>10a
    <3>2. rest[g] = z[j]
      <4>1. v[b] = z[j]
        BY <2>10
      <4>2. rest[g] = v[b]
        BY <2>10, <3>1
      <4> QED
        BY <4>1, <4>2
    <3> HIDE DEF b, g
    <3> QED
      BY <2>3, <3>1, <3>2
  <2>13. Select(x, R) = << >> /\ Select(z, R) = << >>
    BY <2>6, <2>11, <2>12, Barren DEF Tidy
  <2>14. Select(rest, R) = Select(y, R)
    <3>1. Select(rest, R) = << >> \o (Select(y, R) \o << >>)
      <4>1. ThreeAre(x, y, z, R)
        BY <2>4, SelectThree
      <4> QED
        BY <2>5, <2>13, <4>1 DEF ThreeAre
    <3>2. Select(y, R) \in Seq(Inner)
      BY SelectType
    <3>3. Select(y, R) \o << >> = Select(y, R) /\ << >> \o Select(y, R) = Select(y, R)
      BY <3>2, ConcatEmptySeq
    <3> QED
      BY <3>1, <3>3
  <2>15. PartOf(rest, t) = Select(y, Said)
    <3>1. Opens(y, t)
      BY <2>2, <2>5 DEF Opens
    <3>2. \A k \in 1..Len(z) : z[k] \in Inner
      BY ElementOfSeq
    <3>3. Lacks(z, t)
      BY <2>12, <3>2, InnerHeads DEF Lacks
    <3> QED
      BY <2>4, <3>1, <3>3, PartOfIs
  <2> QED
    BY <2>14, <2>15, SaidResults
<1> QED
  BY <1>2, <1>3

(* What stands before does not matter to a part found behind it. *)
LEMMA PartOfBehind ==
  ASSUME NEW u \in Seq(Inner), NEW z \in Seq(Inner), NEW t, ~Lacks(z, t)
  PROVE  PartOf(u \o z, t) = PartOf(z, t)
<1> DEFINE rest == u \o z
<1>1. rest \in Seq(Inner) /\ Chained(u, z, rest)
  BY ChainIs
<1>2. PICK h \in 1..Len(z), a \in Seq(Inner), b \in Seq(Inner), c \in Seq(Inner) : PartIs(z, t, h, a, b, c)
  BY PartFound
<1>3. /\ z = a \o (b \o c) /\ Len(a) = h - 1 /\ Len(b) > 0 /\ b[1] = z[h]
      /\ \A k \in 2..Len(b) : ~IsHeading(b[k])
      /\ Len(c) > 0 => IsHeading(c[1])
      /\ IsHeading(b[1]) /\ b[1].of = t /\ Lacks(c, t)
      /\ PartOf(z, t) = Select(b, Said)
  BY <1>2 DEF PartIs, Sections
<1> DEFINE w == u \o a
           v == b \o c
           g == Len(u) + h
<1>4. w \in Seq(Inner) /\ Chained(u, a, w) /\ v \in Seq(Inner)
  BY <1>2, ChainIs
<1>5. rest = w \o (b \o c)
  <2>1. Glued(u, a, v)
    BY <1>2, <1>4, GluedIs
  <2> QED
    BY <1>3, <2>1 DEF Glued
<1> HIDE DEF rest, w, v
<1>6. /\ Len(u) \in Nat /\ Len(rest) = Len(u) + Len(z) /\ Len(w) = Len(u) + Len(a) /\ Len(z) \in Nat
      /\ rest[Len(u) + h] = z[h]
  BY <1>1, <1>4 DEF Chained
<1>7. g \in 1..Len(rest) /\ Len(w) = g - 1 /\ rest[g] = b[1]
  BY <1>3, <1>6
<1> HIDE DEF g
<1>8. Sections(w, b, c, rest, g)
  BY <1>3, <1>5, <1>7 DEF Sections
<1>9. PartOf(rest, t) = Select(b, Said)
  <2>1. /\ rest \in Seq(Inner) /\ w \in Seq(Inner) /\ b \in Seq(Inner) /\ c \in Seq(Inner)
        /\ Opens(b, t) /\ Lacks(c, t) /\ g \in 1..Len(rest)
    BY <1>1, <1>2, <1>3, <1>4, <1>7 DEF Opens
  <2> QED
    BY <1>8, <2>1, PartOfIs
<1> QED
  BY <1>3, <1>9 DEF rest

(* The places of the three stretches. *)
LEMMA SectionPlaces ==
  ASSUME NEW rest \in Seq(Inner), NEW x \in Seq(Inner), NEW y \in Seq(Inner), NEW z \in Seq(Inner),
         NEW h \in 1..Len(rest), Sections(x, y, z, rest, h)
  PROVE  /\ Len(x) \in Nat /\ Len(y) \in Nat /\ Len(z) \in Nat /\ h = Len(x) + 1
         /\ Len(rest) = Len(x) + Len(y) + Len(z)
         /\ \A i \in 1..Len(x) : rest[i] = x[i]
         /\ \A i \in 1..Len(y) : rest[Len(x) + i] = y[i]
         /\ \A i \in 1..Len(z) : rest[Len(x) + Len(y) + i] = z[i]
<1> DEFINE v == y \o z
<1>1. v \in Seq(Inner) /\ Chained(y, z, v)
  BY ChainIs
<1>2. rest = x \o v /\ Len(x) = h - 1
  BY DEF Sections
<1> HIDE DEF v
<1>3. Chained(x, v, rest)
  BY <1>1, <1>2, ChainIs
<1>4. /\ Len(x) \in Nat /\ Len(y) \in Nat /\ Len(z) \in Nat /\ Len(v) = Len(y) + Len(z)
      /\ Len(rest) = Len(x) + Len(v)
      /\ \A i \in 1..Len(y) : v[i] = y[i]
      /\ \A j \in 1..Len(z) : v[Len(y) + j] = z[j]
      /\ \A i \in 1..Len(x) : rest[i] = x[i]
      /\ \A j \in 1..Len(v) : rest[Len(x) + j] = v[j]
  BY <1>1, <1>3 DEF Chained
<1>5. \A i \in 1..Len(y) : rest[Len(x) + i] = y[i]
  BY <1>4
<1>6. ASSUME NEW i \in 1..Len(z) PROVE rest[Len(x) + Len(y) + i] = z[i]
  <2>1. Len(y) + i \in 1..Len(v) /\ Len(x) + (Len(y) + i) = Len(x) + Len(y) + i
    BY <1>4
  <2> QED
    BY <1>4, <2>1
<1>7. h = Len(x) + 1 /\ Len(rest) = Len(x) + Len(y) + Len(z)
  BY <1>2, <1>4
<1>8. \A i \in 1..Len(x) : rest[i] = x[i]
  BY <1>4
<1> QED
  BY <1>4, <1>5, <1>6, <1>7, <1>8

(* With result headings of both kinds, the two parts have all. *)
LEMMA PartsBoth ==
  ASSUME NEW rest \in Seq(Inner), NEW R, R \subseteq Texts, Tidy(rest, R),
         NEW g \in 1..Len(rest), NEW h \in 1..Len(rest),
         rest[g] \in ResultHeads, rest[h] \in ResultHeads, rest[g].of = "a", rest[h].of = "d"
  PROVE  Select(KeptParts(rest), R) = Select(rest, R)
<1>1. Ordered(rest) /\ \A k \in 1..Len(rest) : rest[k] \in Inner
  BY ElementOfSeq DEF Tidy
<1>2. g < h
  <2>1. g \in Int /\ h \in Int /\ g # h
    OBVIOUS
  <2>2. ~(h < g)
    BY <1>1, HeadOnce
  <2> QED
    BY <2>1, <2>2
<1>3. \A k \in 1..Len(rest) : rest[k] \in ResultHeads /\ k < g => FALSE
  BY <1>1, HeadOnce
<1>4. \A k \in 1..Len(rest) : rest[k] \in ResultHeads /\ g < k => rest[k].of = "d"
  BY <1>1, HeadOnce
<1>5. PICK x \in Seq(Inner), y \in Seq(Inner), z \in Seq(Inner) : Sections(x, y, z, rest, g)
  BY SplitAt
<1>6. /\ rest = x \o (y \o z) /\ Len(y) > 0 /\ y[1] = rest[g] /\ \A k \in 2..Len(y) : ~IsHeading(y[k])
  BY <1>5 DEF Sections
<1>7. /\ Len(x) \in Nat /\ Len(y) \in Nat /\ Len(z) \in Nat /\ g = Len(x) + 1
      /\ Len(rest) = Len(x) + Len(y) + Len(z)
      /\ \A i \in 1..Len(x) : rest[i] = x[i]
      /\ \A i \in 1..Len(y) : rest[Len(x) + i] = y[i]
      /\ \A i \in 1..Len(z) : rest[Len(x) + Len(y) + i] = z[i]
  BY <1>5, SectionPlaces
<1>8. IsHeading(rest[g]) /\ IsHeading(rest[h])
  BY HeadsStop
<1>9. Tidy(x, R) /\ Tidy(z, R)
  BY <1>5, <1>8, TidyThree
<1>10. \A i \in 1..Len(x) : x[i] \notin ResultHeads
  <2> SUFFICES ASSUME NEW i \in 1..Len(x), x[i] \in ResultHeads PROVE FALSE
    OBVIOUS
  <2>1. i \in 1..Len(rest) /\ i < g /\ rest[i] = x[i]
    BY <1>7
  <2> QED
    BY <1>3, <2>1
<1>11. \A i \in 1..Len(z) : z[i] \in ResultHeads => z[i].of = "d"
  <2> SUFFICES ASSUME NEW i \in 1..Len(z), z[i] \in ResultHeads PROVE z[i].of = "d"
    OBVIOUS
  <2> DEFINE k == Len(x) + Len(y) + i
  <2>1. k \in 1..Len(rest) /\ g < k /\ rest[k] = z[i]
    BY <1>6, <1>7
  <2> HIDE DEF k
  <2> QED
    BY <1>4, <2>1
<1>12. \A i \in 1..Len(z) : z[i] \in Inner
  BY <1>5, ElementOfSeq
<1>13. Lacks(z, "a")
  <2> SUFFICES ASSUME NEW i \in 1..Len(z), IsHeading(z[i]), z[i].of = "a" PROVE FALSE
    BY DEF Lacks
  <2>1. z[i] \in ResultHeads
    BY <1>12, InnerHeads
  <2> QED
    BY <1>11, <2>1
<1>14. ~Lacks(z, "d")
  <2> DEFINE k == h - Len(x) - Len(y)
             b == h - Len(x)
  <2>1. CASE h > Len(x) + Len(y)
    <3>1. k \in 1..Len(z) /\ Len(x) + Len(y) + k = h
      BY <1>7, <2>1
    <3>2. z[k] = rest[h]
      BY <1>7, <3>1
    <3> QED
      BY <1>8, <3>1, <3>2 DEF Lacks
  <2>2. CASE h <= Len(x) + Len(y)
    <3>1. b \in 1..Len(y) /\ b \in 2..Len(y) /\ Len(x) + b = h
      BY <1>2, <1>7, <2>2
    <3>2. y[b] = rest[h]
      BY <1>7, <3>1
    <3> QED
      BY <1>6, <1>8, <3>1, <3>2
  <2> QED
    BY <1>7, <2>1, <2>2
<1>15. PartOf(rest, "a") = Select(y, Said)
  <2>1. Opens(y, "a")
    BY <1>6, <1>8 DEF Opens
  <2> QED
    BY <1>5, <1>13, <2>1, PartOfIs
<1>16. PartOf(rest, "d") = PartOf(z, "d")
  <2> DEFINE u == x \o y
  <2>1. u \in Seq(Inner)
    BY <1>5, ConcatProperties
  <2>2. Glued(x, y, z)
    BY <1>5, GluedIs
  <2>3. rest = u \o z
    BY <1>6, <2>2 DEF Glued
  <2> HIDE DEF u
  <2>4. PartOf(u \o z, "d") = PartOf(z, "d")
    BY <1>5, <1>14, <2>1, PartOfBehind
  <2> QED
    BY <2>3, <2>4
<1>17. Select(PartOf(z, "d"), R) = Select(z, R)
  BY <1>5, <1>9, <1>11, PartAlone
<1>18. Select(Select(y, Said), R) = Select(y, R)
  BY <1>5, SaidResults
<1>19. Select(x, R) = << >>
  BY <1>5, <1>9, <1>10, Barren DEF Tidy
<1>20. Select(rest, R) = Select(y, R) \o Select(z, R)
  <2>1. ThreeAre(x, y, z, R)
    BY <1>5, SelectThree
  <2>2. Select(rest, R) = << >> \o (Select(y, R) \o Select(z, R))
    BY <1>6, <1>19, <2>1 DEF ThreeAre
  <2> DEFINE p == Select(y, R) \o Select(z, R)
  <2>3. Select(y, R) \in Seq(Inner) /\ Select(z, R) \in Seq(Inner)
    BY <1>5, SelectType
  <2>4. p \in Seq(Inner)
    BY <2>3, ConcatProperties
  <2> HIDE DEF p
  <2>5. << >> \o p = p
    BY <2>4, ConcatEmptySeq
  <2> QED
    BY <2>2, <2>5 DEF p
<1>21. Select(KeptParts(rest), R) = Select(PartOf(rest, "a"), R) \o Select(PartOf(rest, "d"), R)
  <2> DEFINE a == PartOf(rest, "a")
             d == PartOf(rest, "d")
  <2>1. a \in Seq(Narrated) /\ d \in Seq(Narrated)
    BY PartKept
  <2> HIDE DEF a, d
  <2>2. Select(a \o d, R) = Select(a, R) \o Select(d, R)
    BY <2>1, SelectConcat
  <2> QED
    BY <2>2 DEF a, d, KeptParts
<1> QED
  BY <1>15, <1>16, <1>17, <1>18, <1>20, <1>21

(* _reduce_log_block's selection keeps every result of a tidy block. *)
LEMMA PartsHaveAll ==
  ASSUME NEW rest \in Seq(Inner), NEW R, R \subseteq Texts, Tidy(rest, R)
  PROVE  Select(KeptParts(rest), R) = Select(rest, R)
<1>1. \A k \in 1..Len(rest) : rest[k] \in Inner
  BY ElementOfSeq
<1>2. \A k \in 1..Len(rest) : rest[k] \in ResultHeads => rest[k].of \in {"a", "d"}
  BY DEF ResultHeads
<1> DEFINE a == PartOf(rest, "a")
           d == PartOf(rest, "d")
<1>3. a \in Seq(Narrated) /\ d \in Seq(Narrated) /\ KeptParts(rest) = a \o d
  BY PartKept DEF KeptParts
<1>4. CASE \E g \in 1..Len(rest) : rest[g] \in ResultHeads /\ rest[g].of = "a"
  <2>1. CASE \E h \in 1..Len(rest) : rest[h] \in ResultHeads /\ rest[h].of = "d"
    BY <1>4, <2>1, PartsBoth
  <2>2. CASE \A h \in 1..Len(rest) : ~(rest[h] \in ResultHeads /\ rest[h].of = "d")
    <3>1. Lacks(rest, "d")
      BY <1>1, <2>2, InnerHeads DEF Lacks
    <3>2. d = << >>
      BY <3>1, PartOfNone
    <3>3. Select(a, R) = Select(rest, R)
      BY <1>2, <2>2, PartAlone
    <3> HIDE DEF a, d
    <3>4. a \o << >> = a
      BY <1>3, ConcatEmptySeq
    <3> QED
      BY <1>3, <3>2, <3>3, <3>4
  <2> QED
    BY <2>1, <2>2
<1>5. CASE \A g \in 1..Len(rest) : ~(rest[g] \in ResultHeads /\ rest[g].of = "a")
  <2>1. Lacks(rest, "a")
    BY <1>1, <1>5, InnerHeads DEF Lacks
  <2>2. a = << >>
    BY <2>1, PartOfNone
  <2>3. Select(d, R) = Select(rest, R)
    BY <1>2, <1>5, PartAlone
  <2> HIDE DEF a, d
  <2>4. << >> \o d = d
    BY <1>3, ConcatEmptySeq
  <2> QED
    BY <1>3, <2>2, <2>3, <2>4
<1> QED
  BY <1>4, <1>5

-----------------------------------------------------------------------------
(* What _reduce_log_block and prune_log make of a tidy Log.                  *)

(* Below lines that are no result headings, and above any. *)
LEMMA UnderBehind ==
  ASSUME NEW u, NEW v, NEW w, Chained(u, v, w), NEW R, Under(w, R), \A i \in 1..Len(u) : u[i] \notin ResultHeads
  PROVE  Under(v, R)
<1> DEFINE n == Len(u)
           m == Len(v)
<1>1. /\ n \in Nat /\ m \in Nat /\ Len(w) = n + m
      /\ \A i \in 1..n : w[i] = u[i]
      /\ \A j \in 1..m : w[n + j] = v[j]
  BY DEF Chained
<1> HIDE DEF n, m
<1> SUFFICES ASSUME NEW j \in 1..m, v[j] \in R
             PROVE  \E h \in 1..m : /\ h < j /\ v[h] \in ResultHeads
                                    /\ \A k \in 1..m : h < k /\ k < j => v[k] \notin Stops
  BY DEF Under, m
<1>2. n + j \in 1..Len(w) /\ w[n + j] \in R
  BY <1>1
<1>3. PICK g \in 1..Len(w) : /\ g < n + j /\ w[g] \in ResultHeads
                             /\ \A k \in 1..Len(w) : g < k /\ k < n + j => w[k] \notin Stops
  BY <1>2 DEF Under
<1>4. g \notin 1..n
  BY <1>1, <1>3 DEF n
<1> DEFINE h == g - n
<1>5. h \in 1..m /\ h < j /\ g = n + h
  BY <1>1, <1>3, <1>4
<1> HIDE DEF h
<1>6. v[h] \in ResultHeads
  BY <1>1, <1>3, <1>5
<1>7. ASSUME NEW k \in 1..m, h < k, k < j PROVE v[k] \notin Stops
  <2>1. n + k \in 1..Len(w) /\ g < n + k /\ n + k < n + j /\ w[n + k] = v[k]
    BY <1>1, <1>5, <1>7
  <2> QED
    BY <1>3, <2>1
<1> QED
  BY <1>5, <1>6, <1>7

(* A prefix of a tidy sequence is tidy. *)
LEMMA PrefixTidy ==
  ASSUME NEW X, NEW s \in Seq(X), NEW R, Tidy(s, R), NEW k \in 0..Len(s)
  PROVE  Tidy(SubSeq(s, 1, k), R)
<1> DEFINE u == SubSeq(s, 1, k)
           v == SubSeq(s, k + 1, Len(s))
<1>1. Len(s) \in Nat
  BY LenProperties
<1>2. u \in Seq(X) /\ v \in Seq(X)
  <2>1. 1 \in 1..(Len(s) + 1) /\ k + 1 \in 1..(Len(s) + 1) /\ Len(s) \in 0..Len(s)
    BY <1>1
  <2> QED
    BY <2>1, StretchType
<1>3. s = u \o v
  <2>1. 1 \in 1..(Len(s) + 1) /\ k \in (1 - 1)..Len(s) /\ Len(s) \in k..Len(s)
    BY <1>1
  <2>2. u \o v = SubSeq(s, 1, Len(s))
    BY <2>1, ConcatAdjacentSubSeq
  <2> QED
    BY <2>2, SubSeqFull
<1> HIDE DEF u, v
<1>4. Chained(u, v, s)
  BY <1>2, <1>3, ChainIs
<1>5. Under(u, R) /\ Ordered(u)
  BY <1>4, UnderChain, OrderedChain DEF Tidy
<1> QED
  BY <1>5 DEF Tidy, u

(* A part that is taken is tidy. *)
LEMMA OneTidy ==
  ASSUME NEW p \in Seq(Inner), NEW t \in {"a", "d"}, OnePart(p, t), NEW R, R \subseteq Texts
  PROVE  Tidy(p, R)
<1>1. Len(p) \in Nat /\ \A i \in 1..Len(p) : p[i] \in Inner
  BY ElementOfSeq, LenProperties
<1>2. CASE p = << >>
  <2>1. Len(p) = 0
    BY <1>2, EmptySeq
  <2> QED
    BY <2>1 DEF Tidy, Under, Ordered
<1>3. CASE Len(p) > 0 /\ IsHeading(p[1]) /\ p[1].of = t /\ \A k \in 2..Len(p) : ~IsHeading(p[k])
  <2>1. 1 \in 1..Len(p) /\ p[1] \in ResultHeads /\ p[1] \notin R
    <3>1. 1 \in 1..Len(p)
      BY <1>1, <1>3
    <3> QED
      BY <1>1, <1>3, <3>1, InnerHeads
  <2>2. \A k \in 1..Len(p) : k = 1 \/ k \in 2..Len(p)
    BY <1>1
  <2>3. \A k \in 2..Len(p) : p[k] \notin Stops /\ p[k] \notin ResultHeads
    <3>1. \A k \in 2..Len(p) : k \in 1..Len(p)
      BY <1>1
    <3> QED
      BY <1>1, <1>3, <3>1, InnerHeads
  <2>4. Under(p, R)
    <3> SUFFICES ASSUME NEW i \in 1..Len(p), p[i] \in R
                 PROVE  \E h \in 1..Len(p) : /\ h < i /\ p[h] \in ResultHeads
                                             /\ \A k \in 1..Len(p) : h < k /\ k < i => p[k] \notin Stops
      BY DEF Under
    <3>1. i \in 2..Len(p)
      BY <2>1, <2>2
    <3>2. 1 < i /\ \A k \in 1..Len(p) : 1 < k => p[k] \notin Stops
      BY <2>2, <2>3, <3>1
    <3> QED
      BY <2>1, <3>2
  <2>5. Ordered(p)
    <3>1. \A g, h \in 1..Len(p) : g < h => h \in 2..Len(p)
      BY <1>1
    <3> QED
      BY <2>3, <3>1 DEF Ordered
  <2> QED
    BY <2>4, <2>5 DEF Tidy
<1> QED
  BY <1>2, <1>3 DEF OnePart

(* So are the two together. *)
LEMMA PartsTidy ==
  ASSUME NEW rest \in Seq(Inner), NEW R, R \subseteq Texts
  PROVE  Tidy(KeptParts(rest), R)
<1> DEFINE a == PartOf(rest, "a")
           d == PartOf(rest, "d")
           w == a \o d
<1>1. a \in Seq(Narrated) /\ d \in Seq(Narrated) /\ w = KeptParts(rest)
  BY PartKept DEF KeptParts
<1>2. a \in Seq(Inner) /\ d \in Seq(Inner)
  <2>1. Narrated \subseteq Inner
    BY InnerHeads
  <2> QED
    BY <1>1, <2>1, SeqMonotonic
<1>3. OnePart(a, "a") /\ OnePart(d, "d")
  BY PartShape
<1> HIDE DEF a, d
<1>4. Chained(a, d, w)
  BY <1>2, ChainIs
<1>5. Tidy(a, R) /\ Tidy(d, R)
  BY <1>2, <1>3, OneTidy
<1> HIDE DEF w
<1>6. Under(w, R)
  BY <1>4, <1>5, UnderChain DEF Tidy
<1> DEFINE n == Len(a)
           m == Len(d)
<1>7. /\ n \in Nat /\ m \in Nat /\ Len(w) = n + m
      /\ \A i \in 1..n : w[i] = a[i]
      /\ \A j \in 1..m : w[n + j] = d[j]
  BY <1>4 DEF Chained
<1>8. /\ \A i \in 1..n : a[i] \in Inner
      /\ \A j \in 1..m : d[j] \in Inner
  BY <1>2, ElementOfSeq
<1>9. /\ \A i \in 1..n : a[i] \in ResultHeads => i = 1 /\ a[i].of = "a"
      /\ \A j \in 1..m : d[j] \in ResultHeads => j = 1 /\ d[j].of = "d"
  <2>1. ASSUME NEW p \in Seq(Inner), NEW t, OnePart(p, t), NEW i \in 1..Len(p), p[i] \in ResultHeads
        PROVE  i = 1 /\ p[i].of = t
    <3>1. p # << >> /\ Len(p) \in Nat
      <4>1. p = << >> => Len(p) = 0
        BY EmptySeq
      <4> QED
        BY <4>1, LenProperties
    <3>2. IsHeading(p[i])
      BY <2>1, HeadsStop
    <3> QED
      BY <2>1, <3>1, <3>2 DEF OnePart
  <2> QED
    BY <1>2, <1>3, <2>1
<1> HIDE DEF n, m
<1>10. Ordered(w)
  <2> SUFFICES ASSUME NEW g \in 1..(n + m), NEW h \in 1..(n + m), g < h,
                      w[g] \in ResultHeads, w[h] \in ResultHeads
               PROVE  w[g].of = "a" /\ w[h].of = "d"
    BY <1>7 DEF Ordered
  <2>1. ASSUME NEW i \in 1..(n + m), w[i] \in ResultHeads
        PROVE  (i = 1 /\ i \in 1..n /\ w[i].of = "a") \/ (i = n + 1 /\ w[i].of = "d")
    <3>1. CASE i \in 1..n
      BY <1>7, <1>9, <2>1, <3>1
    <3>2. CASE i \notin 1..n
      <4> DEFINE j == i - n
      <4>1. j \in 1..m /\ i = n + j
        BY <1>7, <3>2
      <4>2. w[n + j] = d[j]
        BY <1>7, <4>1
      <4> HIDE DEF j
      <4> QED
        BY <1>9, <2>1, <4>1, <4>2
    <3> QED
      BY <3>1, <3>2
  <2>2. /\ (g = 1 /\ g \in 1..n /\ w[g].of = "a") \/ (g = n + 1 /\ w[g].of = "d")
        /\ (h = 1 /\ h \in 1..n /\ w[h].of = "a") \/ (h = n + 1 /\ w[h].of = "d")
    BY <2>1
  <2> QED
    BY <1>7, <2>2
<1> QED
  BY <1>1, <1>6, <1>10 DEF Tidy

(* A block that is reduced keeps its results, and stays tidy. *)
LEMMA ReduceHasResults ==
  ASSUME NEW block \in Seq(Running), block # << >>, block[1].shape = "block",
         \A i \in 2..Len(block) : block[i].shape # "block",
         NEW R, R \subseteq Texts, Tidy(block, R)
  PROVE  /\ Select(ReduceBlock(block), R) = Select(block, R)
         /\ Tidy(ReduceBlock(block), R)
         /\ Len(ReduceBlock(block)) > 0 /\ ReduceBlock(block)[1] = block[1]
<1> DEFINE rest == Tail(block)
           said == KeptParts(rest)
           kept == KeptLedger(rest)
           short == \A i \in PartHeads(rest) : rest[i].of \in {"a", "d"}
           H == <<Head(block)>>
           p == H \o said
<1>1. /\ Head(block) \in Running /\ rest \in Seq(Running) /\ Len(rest) = Len(block) - 1
      /\ \A i \in 1..Len(rest) : rest[i] = block[i + 1]
      /\ Len(block) \in Nat
  BY HeadTailProperties, LenProperties
<1>2. Head(block) = block[1] /\ block = H \o rest
  <2>1. Len(block) \in Nat \ {0}
    BY EmptySeq
  <2>2. 1 \in 1..Len(block) /\ Len(block) \in 1..Len(block)
    BY <2>1
  <2>3. Head(block) = SubSeq(block, 1, Len(block))[1] /\ SubSeq(block, 1, Len(block)) = block
    BY SubSeqFull
  <2>4. rest = SubSeq(block, 2, Len(block))
    BY TailIsSubSeq
  <2>5. SubSeq(block, 1, Len(block)) = <<block[1]>> \o SubSeq(block, 1 + 1, Len(block))
    BY <2>2, SubSeqRecursiveFirst
  <2>6. 1 + 1 = 2
    OBVIOUS
  <2> QED
    BY <2>3, <2>4, <2>5, <2>6
<1>3. ReduceBlock(block) = IF short THEN block ELSE p \o kept
  BY DEF ReduceBlock
<1>4. H \in Seq(Running) /\ Len(H) = 1 /\ H[1] = block[1]
  BY <1>1, <1>2
<1> HIDE DEF rest, H, short
<1>5. rest \in Seq(Inner)
  <2>1. \A i \in 1..Len(rest) : rest[i] \in Inner
    <3> SUFFICES ASSUME NEW i \in 1..Len(rest) PROVE rest[i] \in Inner
      OBVIOUS
    <3>1. i + 1 \in 2..Len(block)
      BY <1>1
    <3>2. rest[i] = block[i + 1] /\ rest[i] \in Running
      BY <1>1, ElementOfSeq
    <3> QED
      BY <3>1, <3>2 DEF Inner
  <2>2. Len(rest) \in Nat /\ rest = [i \in 1..Len(rest) |-> rest[i]]
    BY <1>1, LenProperties
  <2> QED
    BY <2>1, <2>2
<1>6. said \in Seq(Running) /\ said \in Seq(Narrated) /\ kept \in Seq(Running) /\ \A j \in 1..Len(kept) : IsLedger(kept[j])
  <2>1. PartOf(rest, "a") \in Seq(Narrated) /\ PartOf(rest, "d") \in Seq(Narrated)
    BY <1>5, PartKept
  <2>2. said \in Seq(Narrated)
    BY <2>1, ConcatProperties DEF KeptParts
  <2> DEFINE Ls == {l \in Lines : IsLedger(l)}
  <2>3. kept \in Seq({l \in Running : l \in Ls})
    <3>1. kept = Select(rest, Ls)
      BY DEF KeptLedger
    <3> HIDE DEF Ls
    <3>2. Select(rest, Ls) \in Seq({l \in Running : l \in Ls})
      BY <1>1, SelectIn
    <3> QED
      BY <3>1, <3>2
  <2>4. \A j \in 1..Len(kept) : kept[j] \in {l \in Running : l \in Ls}
    BY <2>3, ElementOfSeq
  <2>5. Narrated \subseteq Running /\ {l \in Running : l \in Ls} \subseteq Running
    BY DEF Narrated, Inner
  <2> QED
    BY <2>2, <2>3, <2>4, <2>5, SeqMonotonic
<1>7. Tidy(said, R) /\ Select(said, R) = Select(rest, R)
  <2>1. Chained(H, rest, block)
    BY <1>1, <1>2, <1>4, ChainIs
  <2>2. \A i \in 1..Len(H) : H[i] \notin ResultHeads
    BY <1>4, HeadsStop
  <2>3. Under(rest, R) /\ Ordered(rest)
    BY <2>1, <2>2, UnderBehind, OrderedChain DEF Tidy
  <2>4. Tidy(rest, R)
    BY <2>3 DEF Tidy
  <2> QED
    BY <1>5, <2>4, PartsTidy, PartsHaveAll
<1> HIDE DEF said, kept
<1>8. Tidy(H, R) /\ Sundered(H, said) /\ Select(H, R) = << >>
  <2>1. \A i \in 1..Len(H) : i = 1
    BY <1>4
  <2>2. block[1] \notin R /\ block[1] \notin ResultHeads
    BY HeadsStop DEF Texts
  <2>3. H = <<block[1]>>
    BY <1>2 DEF H
  <2> QED
    BY <1>4, <2>1, <2>2, <2>3, SelectOne DEF Tidy, Under, Ordered, Sundered
<1>9. p \in Seq(Running) /\ Tidy(p, R) /\ Select(p, R) = Select(rest, R) /\ Len(p) > 0 /\ p[1] = block[1]
  <2>1. p \in Seq(Running) /\ Chained(H, said, p)
    BY <1>4, <1>6, ChainIs
  <2>2. Tidy(p, R)
    BY <1>4, <1>6, <1>7, <1>8, TidyBehind
  <2>3. Select(p, R) = Select(H, R) \o Select(said, R)
    <3>1. H \in Seq(Running) /\ said \in Seq(Running)
      BY <1>4, <1>6
    <3> QED
      BY <3>1, SelectConcat
  <2>4. Select(rest, R) \in Seq(Running)
    BY <1>1, SelectType
  <2>5. Select(p, R) = Select(rest, R)
    <3>1. Select(p, R) = << >> \o Select(rest, R)
      BY <1>7, <1>8, <2>3
    <3> QED
      BY <2>4, <3>1, ConcatEmptySeq
  <2> HIDE DEF p
  <2>6. Len(p) > 0 /\ p[1] = block[1]
    BY <1>4, <2>1 DEF Chained
  <2> QED
    BY <2>1, <2>2, <2>5, <2>6
<1> HIDE DEF p
<1>10. /\ Tidy(p \o kept, R) /\ Select(p \o kept, R) = Select(rest, R)
       /\ Len(p \o kept) > 0 /\ (p \o kept)[1] = block[1]
  <2>1. \A j \in 1..Len(kept) : kept[j] \notin R /\ kept[j] \notin ResultHeads
    <3>1. \A j \in 1..Len(kept) : kept[j].shape = "ledger"
      BY <1>6 DEF IsLedger
    <3> QED
      BY <3>1, HeadsStop DEF Texts
  <2>2. Tidy(p \o kept, R)
    BY <1>6, <1>9, <2>1, TidyAfter
  <2>3. Select(kept, R) = << >>
    <3> DEFINE Y == {l \in Running : l \notin R}
    <3>1. \A j \in 1..Len(kept) : kept[j] \in Y
      BY <1>6, <2>1, ElementOfSeq
    <3>2. Len(kept) \in Nat /\ kept = [i \in 1..Len(kept) |-> kept[i]]
      BY <1>6, LenProperties
    <3>3. kept \in Seq(Y) /\ \A l \in Y : l \notin R
      BY <3>1, <3>2
    <3> HIDE DEF Y
    <3> QED
      BY <3>3, SelectNone
  <2>4. Select(p \o kept, R) = Select(p, R) \o Select(kept, R)
    <3>1. p \in Seq(Running) /\ kept \in Seq(Running)
      BY <1>6, <1>9
    <3> QED
      BY <3>1, SelectConcat
  <2>5. Select(p, R) \in Seq(Running)
    BY <1>9, SelectType
  <2>6. Select(p \o kept, R) = Select(p, R)
    BY <2>3, <2>4, <2>5, ConcatEmptySeq
  <2> DEFINE q == p \o kept
  <2>7. Chained(p, kept, q)
    BY <1>6, <1>9, ChainIs
  <2> HIDE DEF q
  <2>8. Len(q) > 0 /\ q[1] = block[1]
    BY <1>9, <2>7 DEF Chained
  <2> QED
    BY <1>9, <2>2, <2>6, <2>8 DEF q
<1>11. Select(block, R) = Select(rest, R)
  <2>1. Select(H \o rest, R) = Select(H, R) \o Select(rest, R)
    BY <1>1, <1>4, SelectConcat
  <2>2. Select(rest, R) \in Seq(Running)
    BY <1>1, SelectType
  <2> QED
    BY <1>2, <1>8, <2>1, <2>2, ConcatEmptySeq
<1>12. Len(block) > 0
  BY <1>1, EmptySeq
<1> QED
  BY <1>3, <1>10, <1>11, <1>12

(* prune_log keeps every result of a tidy Log, in order, and the Log tidy. *)
LEMMA PrunedHasResults ==
  ASSUME NEW body \in Seq(Running), NEW R, R \subseteq Texts, Tidy(body, R)
  PROVE  Select(Pruned(body), R) = Select(body, R) /\ Tidy(Pruned(body), R)
<1> DEFINE n == Len(body)
           B == BlockStarts(body)
           pcs == [i \in DOMAIN body |-> Piece(body, i)]
           U(i) == Joined(SubSeq(pcs, 1, i))
           V(i) == SubSeq(body, 1, EndOf(body, i))
<1>1. n \in Nat /\ DOMAIN body = 1..n
  BY LenProperties
<1>2. pcs = [i \in 1..n |-> Piece(body, i)] /\ \A i \in 1..n : Piece(body, i) \in Seq(Running)
  BY <1>1, PieceType
<1>3. Pruned(body) = Joined(pcs)
  BY DEF Pruned
<1> HIDE DEF pcs
<1>4. pcs \in Seq(Seq(Running)) /\ Len(pcs) = n /\ \A i \in 1..n : pcs[i] = Piece(body, i)
  BY <1>1, <1>2
<1>5. U(n) = Joined(pcs) /\ U(0) = << >>
  <2>1. SubSeq(pcs, 1, n) = pcs
    BY <1>4, SubSeqFull
  <2>2. SubSeq(pcs, 1, 0) = << >>
    BY SubSeqEmpty
  <2> QED
    BY <1>4, <2>1, <2>2, JoinedEmpty
<1>6. \A i \in 1..n : U(i) = U(i - 1) \o Piece(body, i)
  BY <1>4, JoinedStep
<1>7. ASSUME NEW i \in 0..n PROVE U(i) \in Seq(Running)
  <2>1. 1 \in 1..(Len(pcs) + 1) /\ i \in 0..Len(pcs)
    BY <1>1, <1>4
  <2>2. SubSeq(pcs, 1, i) \in Seq(Seq(Running))
    BY <1>4, <2>1, StretchType
  <2> QED
    BY <2>2, JoinedType
<1> HIDE DEF U
<1>8. V(0) = << >> /\ V(n) = body
  BY EndOfIs, SubSeqEmpty, SubSeqFull
<1>9. \A k \in 0..n : SubSeq(body, 1, k) \in Seq(Running) /\ Tidy(SubSeq(body, 1, k), R)
  <2> SUFFICES ASSUME NEW k \in 0..n PROVE SubSeq(body, 1, k) \in Seq(Running) /\ Tidy(SubSeq(body, 1, k), R)
    OBVIOUS
  <2>1. 1 \in 1..(Len(body) + 1)
    BY <1>1
  <2> QED
    BY <2>1, StretchType, PrefixTidy
<1> DEFINE Same(i) == /\ Select(U(i), R) = Select(V(i), R) /\ Tidy(U(i), R)
                      /\ (\A j \in B : i < j) => U(i) = V(i)
           T == {i \in 0..n : Same(i)}
<1>10. 0 \in T
  <2>1. 0 \in 0..n
    BY <1>1
  <2>2. Tidy(<< >>, R)
    <3>1. Len(<< >>) = 0
      BY EmptySeq
    <3> QED
      BY <3>1 DEF Tidy, Under, Ordered
  <2> QED
    BY <1>5, <1>8, <2>1, <2>2
<1>11. ASSUME NEW i \in 1..n, i - 1 \in T PROVE i \in T
  <2> DEFINE h == i - 1
             p == Piece(body, i)
  <2>1. /\ Select(U(h), R) = Select(V(h), R) /\ Tidy(U(h), R)
        /\ (\A j \in B : h < j) => U(h) = V(h)
        /\ i \in 0..n /\ h \in 0..n /\ h \in Int /\ i \in Int /\ h < i
    <3>1. i \in 0..n /\ h \in 0..n /\ h \in Int /\ i \in Int /\ h < i
      BY <1>1
    <3>2. h \in T
      BY <1>11
    <3> HIDE DEF h, Same
    <3>3. Same(h)
      BY <3>2
    <3>4. /\ Select(U(h), R) = Select(V(h), R) /\ Tidy(U(h), R)
          /\ (\A j \in B : h < j) => U(h) = V(h)
      BY <3>3 DEF Same
    <3> QED
      BY <3>1, <3>4
  <2>2. U(h) \in Seq(Running) /\ p \in Seq(Running) /\ U(i) = U(h) \o p
    BY <1>2, <1>6, <1>7, <2>1
  <2>3. B \in SUBSET (1..n)
    BY <1>1 DEF BlockStarts
  <2> HIDE DEF h, p
  <2>4. Select(U(i), R) = Select(U(h), R) \o Select(p, R)
    BY <2>2, SelectConcat
  <2>5. CASE i \in B
    <3> DEFINE e == NextStart(body, i) - 1
               b == BlockAt(body, i)
    <3>1. EndOf(body, h) = h /\ EndOf(body, i) = e
      BY <2>5, EndOfIs DEF h
    <3>2. /\ e \in i..n /\ b = SubSeq(body, i, e) /\ b \in Seq(Running)
          /\ b # << >> /\ b[1].shape = "block"
          /\ \A k \in 2..Len(b) : b[k].shape # "block"
      BY <2>5, BlockAtIs
    <3>3. p = b \/ p = ReduceBlock(b)
      BY <2>5 DEF p, Piece
    <3> HIDE DEF b, e
    <3>4. V(i) = V(h) \o b /\ V(h) \in Seq(Running) /\ V(i) \in Seq(Running) /\ Tidy(V(i), R)
      <4>1. SubSeq(body, 1, h) \o SubSeq(body, h + 1, e) = SubSeq(body, 1, e)
        <5>1. 1 \in 1..(Len(body) + 1) /\ h \in (1 - 1)..Len(body) /\ e \in h..Len(body)
          BY <1>1, <3>2 DEF h
        <5> QED
          BY <5>1, ConcatAdjacentSubSeq
      <4>2. h + 1 = i /\ e \in 0..n
        BY <1>1, <3>2 DEF h
      <4> QED
        BY <1>9, <2>1, <3>1, <3>2, <4>1, <4>2
    <3> DEFINE v == V(h)
               w == V(i)
    <3>5. Chained(v, b, w) /\ w = v \o b /\ v \in Seq(Running) /\ Tidy(w, R)
      <4>1. Chained(v, b, v \o b)
        BY <3>2, <3>4, ChainIs
      <4> QED
        BY <3>4, <4>1
    <3> HIDE DEF v, w, V
    <3>6. Select(w, R) = Select(v, R) \o Select(b, R)
      <4>1. b \in Seq(Running) /\ v \in Seq(Running)
        BY <3>2, <3>5
      <4>2. Select(v \o b, R) = Select(v, R) \o Select(b, R)
        BY <4>1, SelectConcat
      <4> QED
        BY <3>5, <4>2
    <3>7. Len(b) > 0 /\ b[1] \in Stops /\ b[1] \notin R
      <4>1. Len(b) \in Nat /\ Len(b) # 0
        BY <3>2, EmptySeq
      <4>2. b[1] \in Running
        BY <3>2, <4>1, ElementOfSeq
      <4> QED
        BY <3>2, <4>1, <4>2 DEF Stops, Running, Texts
    <3>8. Under(b, R) /\ Ordered(b)
      BY <3>5, <3>7, UnderChain, OrderedChain DEF Tidy
    <3>9. Tidy(b, R)
      BY <3>8 DEF Tidy
    <3>10. /\ Select(ReduceBlock(b), R) = Select(b, R) /\ Tidy(ReduceBlock(b), R)
           /\ ReduceBlock(b)[1] = b[1]
      BY <3>2, <3>9, ReduceHasResults
    <3>11. Select(p, R) = Select(b, R) /\ Tidy(p, R) /\ p[1].shape = "block"
      BY <3>2, <3>3, <3>9, <3>10
    <3> DEFINE u == U(h)
    <3>12. Tidy(u \o p, R)
      <4>1. u \in Seq(Running) /\ p \in Seq(Running) /\ Tidy(u, R) /\ Tidy(p, R) /\ Sundered(u, p)
        BY <2>1, <2>2, <3>11 DEF Sundered
      <4> HIDE DEF u
      <4> QED
        BY <4>1, TidyBehind
    <3>13. Select(U(i), R) = Select(w, R)
      BY <2>1, <2>4, <3>6, <3>11 DEF v
    <3>14. ~(\A j \in B : i < j)
      BY <2>1, <2>5
    <3> QED
      BY <2>1, <2>2, <3>12, <3>13, <3>14 DEF w
  <2>6. CASE \A j \in B : i < j
    <3> DEFINE b == <<body[i]>>
    <3>1. EndOf(body, h) = h /\ EndOf(body, i) = i
      BY <2>6, EndOfIs DEF h
    <3>2. i \notin B
      BY <2>1, <2>6
    <3>3. p = b
      BY <2>6, <3>2 DEF p, Piece
    <3>4. V(i) = V(h) \o b
      <4>1. 1 \in 1..Len(body) /\ i \in 1..Len(body)
        BY <1>1
      <4>2. SubSeq(body, 1, i) = SubSeq(body, 1, i - 1) \o <<body[i]>>
        BY <4>1, SubSeqRecursiveSecond
      <4> QED
        BY <3>1, <4>2 DEF h
    <3>5. U(h) = V(h)
      <4>1. \A j \in B : h < j
        BY <2>1, <2>3, <2>6
      <4> QED
        BY <2>1, <4>1
    <3>6. U(i) = V(i)
      BY <2>2, <3>3, <3>4, <3>5
    <3>7. Tidy(V(i), R)
      BY <1>9, <2>1, <3>1
    <3> HIDE DEF V
    <3> QED
      BY <2>1, <3>6, <3>7
  <2>7. CASE i \notin B /\ ~(\A j \in B : i < j)
    <3>1. EndOf(body, i) = EndOf(body, h)
      BY <2>7, EndOfIs DEF h
    <3>2. p = << >>
      BY <2>7 DEF p, Piece
    <3>3. U(i) = U(h)
      BY <2>2, <3>2, ConcatEmptySeq
    <3>4. V(i) = V(h)
      BY <3>1
    <3> HIDE DEF V
    <3> QED
      BY <2>1, <2>7, <3>3, <3>4
  <2> QED
    BY <2>5, <2>6, <2>7
<1> HIDE DEF T
<1>12. \A i \in 0..n : i \in T
  BY <1>1, <1>10, <1>11, UpTo
<1>13. n \in T
  BY <1>1, <1>12
<1>14. Select(U(n), R) = Select(V(n), R) /\ Tidy(U(n), R)
  <2> HIDE DEF Same
  <2>1. Same(n)
    BY <1>13 DEF T
  <2> QED
    BY <2>1 DEF Same
<1> HIDE DEF V
<1> QED
  BY <1>3, <1>5, <1>8, <1>14

-----------------------------------------------------------------------------
(* Sequences without lines of a kind, and the lines of a summary.            *)

(* Sequences without members of a set. *)
Free(s, S) == \A i \in 1..Len(s) : s[i] \notin S
Members(s) == {s[i] : i \in 1..Len(s)}

(* Nothing is selected from a free sequence, and the other way round. *)
LEMMA FreeNone ==
  ASSUME NEW X, NEW s \in Seq(X), NEW S
  PROVE  Free(s, S) <=> Select(s, S) = << >>
<1>1. ASSUME Free(s, S) PROVE Select(s, S) = << >>
  <2> DEFINE Y == {x \in X : x \notin S}
  <2>1. \A i \in 1..Len(s) : s[i] \in X
    BY ElementOfSeq
  <2>2. \A i \in 1..Len(s) : s[i] \in Y
    BY <1>1, <2>1 DEF Free
  <2>3. Len(s) \in Nat /\ s = [i \in 1..Len(s) |-> s[i]]
    BY LenProperties
  <2>4. s \in Seq(Y) /\ \A y \in Y : y \notin S
    BY <2>2, <2>3
  <2> HIDE DEF Y
  <2> QED
    BY <2>4, SelectNone
<1>2. ASSUME Select(s, S) = << >> PROVE Free(s, S)
  <2>1. PICK f : Embeds(f, Select(s, S), s, S)
    BY SelectEmbeds
  <2>2. 1..Len(Select(s, S)) = {}
    <3>1. Len(<< >>) = 0
      BY EmptySeq
    <3> QED
      BY <1>2, <3>1
  <2>3. \A k \in 1..Len(s) : s[k] \in S => \E i \in 1..Len(Select(s, S)) : f[i] = k
    BY <2>1 DEF Embeds
  <2> QED
    BY <2>2, <2>3 DEF Free
<1> QED
  BY <1>1, <1>2

LEMMA FreeConcat ==
  ASSUME NEW X, NEW u \in Seq(X), NEW v \in Seq(X), NEW S
  PROVE  Free(u \o v, S) <=> Free(u, S) /\ Free(v, S)
<1> DEFINE w == u \o v
<1>1. Chained(u, v, w)
  BY ChainIs
<1> HIDE DEF w
<1>2. /\ Len(u) \in Nat /\ Len(v) \in Nat /\ Len(w) = Len(u) + Len(v)
      /\ \A i \in 1..Len(u) : w[i] = u[i]
      /\ \A j \in 1..Len(v) : w[Len(u) + j] = v[j]
  BY <1>1 DEF Chained
<1>3. ASSUME Free(u, S), Free(v, S), NEW i \in 1..Len(w) PROVE w[i] \notin S
  <2>1. CASE i \in 1..Len(u)
    BY <1>2, <1>3, <2>1 DEF Free
  <2>2. CASE i \notin 1..Len(u)
    <3>1. i - Len(u) \in 1..Len(v) /\ Len(u) + (i - Len(u)) = i
      BY <1>2, <2>2
    <3>2. w[Len(u) + (i - Len(u))] = v[i - Len(u)]
      BY <1>2, <3>1
    <3> QED
      BY <1>3, <3>1, <3>2 DEF Free
  <2> QED
    BY <2>1, <2>2
<1>4. ASSUME Free(w, S) PROVE Free(u, S) /\ Free(v, S)
  <2>1. ASSUME NEW i \in 1..Len(u) PROVE u[i] \notin S
    <3>1. i \in 1..Len(w)
      BY <1>2
    <3> QED
      BY <1>2, <1>4, <3>1 DEF Free
  <2>2. ASSUME NEW j \in 1..Len(v) PROVE v[j] \notin S
    <3>1. Len(u) + j \in 1..Len(w)
      BY <1>2
    <3> QED
      BY <1>2, <1>4, <3>1 DEF Free
  <2> QED
    BY <2>1, <2>2 DEF Free
<1>5. Free(w, S) <=> Free(u, S) /\ Free(v, S)
  BY <1>3, <1>4 DEF Free
<1> QED
  BY <1>5 DEF w

LEMMA FreeSelect ==
  ASSUME NEW X, NEW s \in Seq(X), NEW S, NEW T, Free(s, S)
  PROVE  Free(Select(s, T), S)
<1> DEFINE t == Select(s, T)
<1>1. PICK f : Embeds(f, t, s, T)
  BY SelectEmbeds
<1> HIDE DEF t
<1>2. \A i \in 1..Len(t) : f[i] \in 1..Len(s) /\ t[i] = s[f[i]]
  BY <1>1 DEF Embeds
<1>3. Free(t, S)
  BY <1>2 DEF Free
<1> QED
  BY <1>3 DEF t

(* What is absent may be looked for in addition. *)
LEMMA SelectBoth ==
  ASSUME NEW X, NEW s \in Seq(X), NEW R, NEW N, Free(s, N)
  PROVE  /\ Select(s, R \cup N) = Select(s, R) /\ Select(s, N \cup R) = Select(s, R)
         /\ Tidy(s, R) => Tidy(s, R \cup N) /\ Tidy(s, N \cup R)
<1> DEFINE Y == {x \in X : x \notin N}
<1>1. s \in Seq(Y)
  <2>1. \A i \in 1..Len(s) : s[i] \in X
    BY ElementOfSeq
  <2>2. \A i \in 1..Len(s) : s[i] \in Y
    BY <2>1 DEF Free
  <2>3. Len(s) \in Nat /\ s = [i \in 1..Len(s) |-> s[i]]
    BY LenProperties
  <2> QED
    BY <2>2, <2>3
<1>2. N \cup R = R \cup N
  OBVIOUS
<1> DEFINE T == R \cup N
<1>3. \A y \in Y : y \in T <=> y \in R
  OBVIOUS
<1>4. \A i \in 1..Len(s) : s[i] \in T => s[i] \in R
  BY DEF Free
<1> HIDE DEF Y, T
<1>5. Select(s, T) = Select(s, R)
  BY <1>1, <1>3, SelectSame
<1>6. Tidy(s, R) => Tidy(s, T)
  BY <1>4 DEF Tidy, Under
<1> QED
  BY <1>2, <1>5, <1>6 DEF T

(* Two sequences alike but for lines not looked for. *)
LEMMA SelectAlike ==
  ASSUME NEW X, NEW s \in Seq(X), NEW t \in Seq(X), Len(s) = Len(t), NEW S,
         \A i \in 1..Len(s) : s[i] \in S \/ t[i] \in S => s[i] = t[i]
  PROVE  Select(s, S) = Select(t, S)
<1>1. DOMAIN s = 1..Len(s) /\ DOMAIN t = 1..Len(s)
  BY LenProperties
<1>2. ASSUME NEW i \in 1..Len(s)
      PROVE  (IF s[i] \in S THEN <<s[i]>> ELSE << >>) = (IF t[i] \in S THEN <<t[i]>> ELSE << >>)
  <2>1. CASE s[i] \in S \/ t[i] \in S
    <3>1. s[i] = t[i]
      BY <2>1
    <3> QED
      BY <3>1
  <2>2. CASE s[i] \notin S /\ t[i] \notin S
    BY <2>2
  <2> QED
    BY <2>1, <2>2
<1>3. Pieces(s, S) = Pieces(t, S)
  BY <1>1, <1>2 DEF Pieces
<1> QED
  BY <1>3, PiecesAre

(* The members of what is selected. *)
LEMMA SelectMembers ==
  ASSUME NEW X, NEW s \in Seq(X), NEW S, S \subseteq Members(s)
  PROVE  Members(Select(s, S)) = S
<1> DEFINE t == Select(s, S)
<1>1. PICK f : Embeds(f, t, s, S)
  BY SelectEmbeds
<1>2. t \in Seq({x \in X : x \in S})
  BY SelectIn
<1> HIDE DEF t
<1>3. \A i \in 1..Len(t) : t[i] \in S
  BY <1>2, ElementOfSeq
<1>4. ASSUME NEW x \in S PROVE x \in Members(t)
  <2>1. PICK k \in 1..Len(s) : s[k] = x
    BY DEF Members
  <2>2. PICK i \in 1..Len(t) : f[i] = k /\ t[i] = s[f[i]]
    BY <1>1, <2>1 DEF Embeds
  <2> QED
    BY <2>1, <2>2 DEF Members
<1>5. Members(t) = S
  BY <1>3, <1>4 DEF Members
<1> QED
  BY <1>5 DEF t

LEMMA MembersConcat ==
  ASSUME NEW X, NEW u \in Seq(X), NEW v \in Seq(X)
  PROVE  Members(u \o v) = Members(u) \cup Members(v)
<1> DEFINE w == u \o v
<1>1. Chained(u, v, w)
  BY ChainIs
<1> HIDE DEF w
<1>2. /\ Len(u) \in Nat /\ Len(v) \in Nat /\ Len(w) = Len(u) + Len(v)
      /\ \A i \in 1..Len(u) : w[i] = u[i]
      /\ \A j \in 1..Len(v) : w[Len(u) + j] = v[j]
  BY <1>1 DEF Chained
<1>3. ASSUME NEW i \in 1..Len(w) PROVE w[i] \in Members(u) \cup Members(v)
  <2>1. CASE i \in 1..Len(u)
    BY <1>2, <2>1 DEF Members
  <2>2. CASE i \notin 1..Len(u)
    <3>1. i - Len(u) \in 1..Len(v) /\ Len(u) + (i - Len(u)) = i
      BY <1>2, <2>2
    <3>2. w[Len(u) + (i - Len(u))] = v[i - Len(u)]
      BY <1>2, <3>1
    <3> QED
      BY <3>1, <3>2 DEF Members
  <2> QED
    BY <2>1, <2>2
<1>4. ASSUME NEW i \in 1..Len(u) PROVE u[i] \in Members(w)
  <2>1. i \in 1..Len(w) /\ w[i] = u[i]
    BY <1>2
  <2> QED
    BY <2>1 DEF Members
<1>5. ASSUME NEW j \in 1..Len(v) PROVE v[j] \in Members(w)
  <2>1. Len(u) + j \in 1..Len(w) /\ w[Len(u) + j] = v[j]
    BY <1>2
  <2> QED
    BY <2>1 DEF Members
<1>6. Members(w) = Members(u) \cup Members(v)
  BY <1>3, <1>4, <1>5 DEF Members
<1> QED
  BY <1>6 DEF w

(* The lines of a summary that was given as shapes. *)
WrittenAs(shape, e, w) ==
  w = [i \in DOMAIN shape |-> IF shape[i].shape = "text" THEN Text(e, i) ELSE shape[i]]
Fresh(e) == {l \in Texts : l.at = e}

LikeShape(shape, e, w) ==
  /\ w \in Seq(Lines) /\ Len(w) = Len(shape) /\ DOMAIN w = 1..Len(w) /\ DOMAIN shape = 1..Len(w)
  /\ Len(w) \in Nat
  /\ \A i \in 1..Len(w) : /\ shape[i].shape = w[i].shape /\ (w[i].shape # "text" => shape[i] = w[i])
                          /\ w[i].shape = "text" => w[i].at = e /\ w[i].nth = i
                          /\ w[i].shape \in {"header", "quoted header"} => w[i].of \in SectionSet
                          /\ w[i] \in Lines

(* Written gives lines like those of the shape. *)
LEMMA WrittenIs ==
  ASSUME NEW shape \in Seq(SummaryLines), NEW e \in Nat, NEW w, WrittenAs(shape, e, w)
  PROVE  LikeShape(shape, e, w)
<1> DEFINE m == Len(shape)
<1>1. shape \in Seq(SummaryLines) /\ e \in Nat
  OBVIOUS
<1>2. m \in Nat /\ DOMAIN shape = 1..m
  BY <1>1, LenProperties
<1>3. ASSUME NEW i \in 1..m PROVE shape[i] \in SummaryLines
  BY <1>1, ElementOfSeq
<1>4. w = [i \in 1..m |-> IF shape[i].shape = "text" THEN Text(e, i) ELSE shape[i]]
  BY <1>2 DEF WrittenAs
<1> HIDE DEF m
<1>5. ASSUME NEW i \in 1..m
      PROVE  /\ shape[i].shape = w[i].shape /\ (w[i].shape # "text" => shape[i] = w[i])
             /\ w[i].shape = "text" => w[i].at = e /\ w[i].nth = i
             /\ w[i].shape \in {"header", "quoted header"} => w[i].of \in SectionSet
             /\ w[i] \in Lines
  <2>1. CASE shape[i].shape = "text"
    <3>0. i \in Nat
      BY <1>2
    <3>1. w[i] = Text(e, i)
      BY <1>4, <2>1
    <3>2. Text(e, i) \in Lines /\ Text(e, i).nth = i /\ Text(e, i).shape = "text" /\ Text(e, i).at = e
      BY <1>1, <3>0 DEF Text, Line, Lines, Shapes, Marks
    <3> DEFINE y == w[i]
    <3>3. y \in Lines /\ y.nth = i /\ y.shape = "text" /\ y.at = e
      BY <3>1, <3>2
    <3> HIDE DEF y
    <3>4. /\ shape[i].shape = y.shape /\ (y.shape # "text" => shape[i] = y)
          /\ y.shape = "text" => y.at = e /\ y.nth = i
          /\ y.shape \in {"header", "quoted header"} => y.of \in SectionSet
          /\ y \in Lines
      BY <2>1, <3>3
    <3> QED
      BY <3>4 DEF y
  <2>2. CASE shape[i].shape # "text"
    <3>1. w[i] = shape[i]
      BY <1>4, <2>2
    <3> DEFINE x == shape[i]
    <3>2. x \in Lines /\ (x.shape \in {"header", "quoted header"} => x.of \in SectionSet)
      BY <1>3 DEF SummaryLines
    <3> DEFINE y == w[i]
    <3>3. y = x /\ x.shape # "text"
      BY <2>2, <3>1
    <3> HIDE DEF x, y
    <3>4. /\ x.shape = y.shape /\ (y.shape # "text" => x = y)
          /\ y.shape = "text" => y.at = e /\ y.nth = i
          /\ y.shape \in {"header", "quoted header"} => y.of \in SectionSet
          /\ y \in Lines
      BY <3>2, <3>3
    <3> QED
      BY <3>4 DEF x, y
  <2> QED
    BY <2>1, <2>2
<1>6. w \in Seq(Lines) /\ Len(w) = m /\ DOMAIN w = 1..m
  <2>1. \A i \in 1..m : w[i] \in Lines
    BY <1>5
  <2>2. w \in [1..m -> Lines]
    BY <1>4, <2>1
  <2> QED
    BY <1>2, <2>2
<1> QED
  BY <1>2, <1>5, <1>6 DEF m, LikeShape

(* Its headings are those asked for. *)
LEMMA WrittenAsAsked ==
  ASSUME NEW shape \in Seq(SummaryLines), NEW e \in Nat, NEW w, WrittenAs(shape, e, w), AsAsked(shape)
  PROVE  AsAsked(w)
<1>1. /\ DOMAIN w = 1..Len(w) /\ DOMAIN shape = 1..Len(w)
      /\ \A i \in 1..Len(w) : shape[i].shape = w[i].shape /\ (w[i].shape # "text" => shape[i] = w[i])
  <2>1. LikeShape(shape, e, w)
    BY WrittenIs
  <2> QED
    BY <2>1 DEF LikeShape
<1>2. ASSUME NEW i \in 1..Len(w) PROVE IsHeading(w[i]) <=> IsHeading(shape[i])
  BY <1>1 DEF IsHeading
<1>3. PartHeads(w) = PartHeads(shape) /\ \A i \in PartHeads(w) : i \in 1..Len(w) /\ w[i] = shape[i]
  <2>1. PartHeads(w) = {i \in 1..Len(w) : IsHeading(w[i])} /\ PartHeads(shape) = {i \in 1..Len(w) : IsHeading(shape[i])}
    BY <1>1 DEF PartHeads
  <2>2. PartHeads(w) = PartHeads(shape)
    BY <1>2, <2>1
  <2>3. ASSUME NEW i \in PartHeads(w) PROVE i \in 1..Len(w) /\ w[i] = shape[i]
    <3>1. i \in 1..Len(w) /\ w[i].shape # "text"
      BY <2>1 DEF IsHeading
    <3> QED
      BY <1>1, <3>1
  <2> QED
    BY <2>2, <2>3
<1>4. ASSUME NEW i PROVE Reported(w, i) <=> Reported(shape, i)
  <2> DEFINE hs == HeadsBefore(w, i)
  <2>1. hs = HeadsBefore(shape, i) /\ \A j \in hs : j \in PartHeads(w)
    BY <1>3 DEF HeadsBefore
  <2>2. hs \in SUBSET (1..Len(w)) /\ Len(w) \in Nat
    <3>1. Len(w) \in Nat
      BY WrittenIs DEF LikeShape
    <3> QED
      BY <1>3, <2>1, <3>1
  <2> HIDE DEF hs
  <2>3. hs # {} => LastIndex(hs) \in hs
    BY <2>2, LastIndexIs
  <2>4. hs # {} => w[LastIndex(hs)] = shape[LastIndex(hs)]
    BY <1>3, <2>1, <2>3
  <2>5. Reported(w, i) <=> hs # {} /\ w[LastIndex(hs)].of \in {"a", "d"}
    BY DEF Reported, hs
  <2>6. Reported(shape, i) <=> hs # {} /\ shape[LastIndex(hs)].of \in {"a", "d"}
    BY <2>1 DEF Reported
  <2> QED
    BY <2>4, <2>5, <2>6
<1> QED
  BY <1>1, <1>3, <1>4 DEF AsAsked

(* The last heading before a reported line. *)
LEMMA ReportedBy ==
  ASSUME NEW w \in Seq(Lines), NEW i \in 1..Len(w)
  PROVE  Reported(w, i) <=>
           \E h \in 1..Len(w) : /\ h < i /\ IsHeading(w[h]) /\ w[h].of \in {"a", "d"}
                                /\ \A k \in 1..Len(w) : h < k /\ k < i => ~IsHeading(w[k])
<1> DEFINE hs == HeadsBefore(w, i)
           l == LastIndex(hs)
<1>1. Len(w) \in Nat /\ DOMAIN w = 1..Len(w)
  BY LenProperties
<1>2. hs = {j \in 1..Len(w) : IsHeading(w[j]) /\ j < i}
  BY <1>1 DEF HeadsBefore, PartHeads
<1>3. Reported(w, i) <=> hs # {} /\ w[l].of \in {"a", "d"}
  BY DEF Reported
<1>4. hs \in SUBSET (1..Len(w))
  BY <1>2
<1>5. ASSUME hs # {} PROVE l \in hs /\ \A j \in hs : j <= l
  <2> HIDE DEF hs
  <2> DEFINE n == Len(w)
             T == {n + 1 - j : j \in hs}
  <2>1. PICK x : x \in hs
    BY <1>5
  <2>2. T \in SUBSET (1..n) /\ n + 1 - x \in T /\ n \in Nat
    BY <1>1, <1>4, <2>1
  <2> HIDE DEF T
  <2>3. PICK m \in T : \A y \in T : m <= y
    BY <2>2, First
  <2>4. PICK k \in hs : m = n + 1 - k
    BY <2>3 DEF T
  <2>5. ASSUME NEW j \in hs PROVE j <= k
    <3>1. n + 1 - j \in T
      BY DEF T
    <3>2. n + 1 - k <= n + 1 - j
      BY <2>3, <2>4, <3>1
    <3>3. j \in Int /\ k \in Int
      BY <1>4
    <3> QED
      BY <2>2, <3>2, <3>3
  <2>6. l = k
    BY <1>1, <1>4, <2>5, LastIndexBy
  <2> QED
    BY <2>5, <2>6
<1> HIDE DEF l
<1>6. ASSUME Reported(w, i)
      PROVE  \E h \in 1..Len(w) : /\ h < i /\ IsHeading(w[h]) /\ w[h].of \in {"a", "d"}
                                  /\ \A k \in 1..Len(w) : h < k /\ k < i => ~IsHeading(w[k])
  <2>1. l \in hs /\ (\A j \in hs : j <= l) /\ w[l].of \in {"a", "d"}
    BY <1>3, <1>5, <1>6
  <2>2. l \in 1..Len(w) /\ l < i /\ IsHeading(w[l])
    BY <1>2, <2>1
  <2>3. ASSUME NEW k \in 1..Len(w), l < k, k < i PROVE ~IsHeading(w[k])
    <3>1. ~(k <= l)
      BY <1>1, <2>2, <2>3
    <3> QED
      BY <1>2, <2>1, <2>3, <3>1
  <2> QED
    BY <2>1, <2>2, <2>3
<1>7. ASSUME NEW h \in 1..Len(w), h < i, IsHeading(w[h]), w[h].of \in {"a", "d"},
             \A k \in 1..Len(w) : h < k /\ k < i => ~IsHeading(w[k])
      PROVE  Reported(w, i)
  <2>1. h \in hs
    BY <1>2, <1>7
  <2>2. l \in hs /\ \A j \in hs : j <= l
    BY <1>5, <2>1
  <2>3. l \in 1..Len(w) /\ l < i /\ IsHeading(w[l]) /\ h <= l
    BY <1>2, <2>1, <2>2
  <2>4. l = h
    BY <1>1, <1>7, <2>3
  <2> QED
    BY <1>3, <1>7, <2>1, <2>4
<1> QED
  BY <1>6, <1>7

Yields(w, i) == w[i].shape = "text" /\ Reported(w, i)
Yield(w) == {w[i] : i \in {j \in 1..Len(w) : Yields(w, j)}}

(* The result lines of a summary are its own text lines. *)
LEMMA ResultsAre ==
  ASSUME NEW shape, NEW e, NEW w, LikeShape(shape, e, w)
  PROVE  /\ \A i \in 1..Len(w) : w[i] \in Yield(w) <=> Yields(w, i)
         /\ Yield(w) \subseteq Fresh(e)
         /\ ResultLines(w) = Select(w, Yield(w)) /\ Members(ResultLines(w)) = Yield(w)
<1>1. /\ w \in Seq(Lines) /\ DOMAIN w = 1..Len(w) /\ Len(w) \in Nat
      /\ \A i \in 1..Len(w) : (w[i].shape = "text" => w[i].at = e /\ w[i].nth = i) /\ w[i] \in Lines
  BY DEF LikeShape
<1>2. ASSUME NEW i \in 1..Len(w), w[i] \in Yield(w) PROVE Yields(w, i)
  <2>1. PICK j \in 1..Len(w) : Yields(w, j) /\ w[i] = w[j]
    BY <1>2 DEF Yield
  <2>2. w[j].shape = "text" /\ w[i].shape = "text"
    BY <2>1 DEF Yields
  <2>3. w[j].nth = j /\ w[i].nth = i
    BY <1>1, <2>2
  <2>4. i = j
    BY <2>1, <2>3
  <2> QED
    BY <2>1, <2>4
<1>3. \A i \in 1..Len(w) : w[i] \in Yield(w) <=> Yields(w, i)
  BY <1>2 DEF Yield
<1>4. Yield(w) \subseteq Fresh(e)
  BY <1>1 DEF Yield, Yields, Fresh, Texts
<1> DEFINE K == Yield(w)
           pcs == [i \in DOMAIN w |-> IF w[i].shape = "text" /\ Reported(w, i) THEN <<w[i]>> ELSE << >>]
<1>5. ResultLines(w) = Joined(pcs)
  BY DEF ResultLines
<1>6. pcs = Pieces(w, K)
  <2>1. pcs = [i \in 1..Len(w) |-> IF Yields(w, i) THEN <<w[i]>> ELSE << >>]
    BY <1>1 DEF Yields
  <2>2. Pieces(w, K) = [i \in 1..Len(w) |-> IF w[i] \in K THEN <<w[i]>> ELSE << >>]
    BY <1>1 DEF Pieces
  <2> HIDE DEF pcs, K
  <2>3. \A i \in 1..Len(w) : w[i] \in K <=> Yields(w, i)
    BY <1>3 DEF K
  <2> QED
    BY <2>1, <2>2, <2>3
<1> HIDE DEF pcs
<1>7. ResultLines(w) = Select(w, K)
  BY <1>1, <1>5, <1>6, PiecesAre
<1>8. Members(Select(w, K)) = K
  <2>1. K \subseteq Members(w)
    BY DEF Yield, Members
  <2> HIDE DEF K
  <2> QED
    BY <1>1, <2>1, SelectMembers
<1> QED
  BY <1>3, <1>4, <1>7, <1>8

(* sanitize_summary, line by line. *)
LEMMA SanitizeIs ==
  ASSUME NEW w \in Seq(Lines)
  PROVE  /\ Len(Sanitize(w)) = Len(w)
         /\ \A i \in 1..Len(w) :
              /\ w[i].shape = "header" => Sanitize(w)[i].shape = "block"
              /\ w[i].shape = "quoted header" => Sanitize(w)[i].shape = "text" /\ Sanitize(w)[i].at = 0
              /\ w[i].shape \notin {"header", "quoted header"} => Sanitize(w)[i] = w[i]
              /\ Sanitize(w)[i].of = w[i].of /\ Sanitize(w)[i] \in Lines
<1> DEFINE sm == Sanitize(w)
<1>1. DOMAIN w = 1..Len(w) /\ Len(w) \in Nat
  BY LenProperties
<1>2. sm = [i \in 1..Len(w) |->
              CASE w[i].shape = "header" -> Block(w[i].of, 0)
                [] w[i].shape = "quoted header" -> Line("text", w[i].of, 0, 0)
                [] OTHER -> w[i]]
  BY <1>1 DEF Sanitize
<1> HIDE DEF sm
<1>3. ASSUME NEW i \in 1..Len(w)
      PROVE  /\ w[i].shape = "header" => sm[i].shape = "block"
             /\ w[i].shape = "quoted header" => sm[i].shape = "text" /\ sm[i].at = 0
             /\ w[i].shape \notin {"header", "quoted header"} => sm[i] = w[i]
             /\ sm[i].of = w[i].of /\ sm[i] \in Lines
  <2> DEFINE x == w[i]
             y == sm[i]
  <2>1. x \in Lines
    BY ElementOfSeq
  <2>2. /\ x.shape = "header" => y = Block(x.of, 0)
        /\ x.shape = "quoted header" => y = Line("text", x.of, 0, 0)
        /\ x.shape \notin {"header", "quoted header"} => y = x
    BY <1>2
  <2> HIDE DEF x, y
  <2>3. /\ Block(x.of, 0) \in Lines /\ Block(x.of, 0).shape = "block" /\ Block(x.of, 0).of = x.of
        /\ Line("text", x.of, 0, 0) \in Lines /\ Line("text", x.of, 0, 0).shape = "text"
        /\ Line("text", x.of, 0, 0).at = 0 /\ Line("text", x.of, 0, 0).of = x.of
    BY <2>1 DEF Block, Line, Lines, Shapes
  <2>4. CASE x.shape = "header"
    BY <2>2, <2>3, <2>4 DEF x, y
  <2>5. CASE x.shape = "quoted header"
    BY <2>2, <2>3, <2>5 DEF x, y
  <2>6. CASE x.shape \notin {"header", "quoted header"}
    BY <2>1, <2>2, <2>6 DEF x, y
  <2> QED
    BY <2>4, <2>5, <2>6
<1>4. Len(sm) = Len(w)
  <2>1. sm \in [1..Len(w) -> Lines]
    BY <1>2, <1>3
  <2> DEFINE m == Len(w)
  <2> HIDE DEF m
  <2>2. m \in Nat /\ sm \in [1..m -> Lines]
    BY <1>1, <2>1 DEF m
  <2>3. Len(sm) = m
    BY <2>2
  <2> QED
    BY <2>3 DEF m
<1> QED
  BY <1>3, <1>4 DEF sm

(* What sanitizing changes: nothing that is a heading or a text line of the    *)
(* summary's own.                                                              *)
Cleaned(w, s, e) ==
  /\ s \in Seq(Lines) /\ Len(s) = Len(w) /\ Len(w) \in Nat
  /\ \A i \in 1..Len(w) : /\ IsHeading(s[i]) <=> IsHeading(w[i])
                          /\ IsHeading(w[i]) => s[i] = w[i]
                          /\ s[i].shape = "block" => w[i].shape \in {"header", "block"}
                          /\ s[i] \in Fresh(e) \/ w[i] \in Fresh(e) => s[i] = w[i]
                          /\ s[i].shape = "text" => s[i].at \in {0, e}

LEMMA CleanedIs ==
  ASSUME NEW shape, NEW e \in Nat, e > 0, NEW w, LikeShape(shape, e, w)
  PROVE  Cleaned(w, Sanitize(w), e)
<1> DEFINE sm == Sanitize(w)
           n == Len(w)
<1>1. /\ w \in Seq(Lines) /\ n \in Nat
      /\ \A i \in 1..n : /\ w[i].shape = "text" => w[i].at = e
                         /\ w[i].shape \in {"header", "quoted header"} => w[i].of \in SectionSet
  BY DEF LikeShape
<1>2. /\ Len(sm) = n
      /\ \A i \in 1..n :
           /\ w[i].shape = "header" => sm[i].shape = "block"
           /\ w[i].shape = "quoted header" => sm[i].shape = "text" /\ sm[i].at = 0
           /\ w[i].shape \notin {"header", "quoted header"} => sm[i] = w[i]
           /\ sm[i].of = w[i].of /\ sm[i] \in Lines
  BY <1>1, SanitizeIs
<1>3. sm \in Seq(Lines)
  <2>1. DOMAIN w = 1..n
    BY DEF LikeShape
  <2>2. sm = [i \in 1..n |-> sm[i]]
    BY <2>1 DEF Sanitize
  <2> HIDE DEF sm, n
  <2>3. sm \in [1..n -> Lines]
    BY <1>2, <2>2
  <2>4. n \in Nat
    BY <1>1
  <2> QED
    BY <2>3, <2>4
<1> HIDE DEF sm, n
<1>4. ASSUME NEW i \in 1..n
      PROVE  /\ IsHeading(sm[i]) <=> IsHeading(w[i])
             /\ IsHeading(w[i]) => sm[i] = w[i]
             /\ sm[i].shape = "block" => w[i].shape \in {"header", "block"}
             /\ sm[i] \in Fresh(e) \/ w[i] \in Fresh(e) => sm[i] = w[i]
             /\ sm[i].shape = "text" => sm[i].at \in {0, e}
  <2> DEFINE x == w[i]
             y == sm[i]
  <2>1. /\ x.shape = "header" => y.shape = "block"
        /\ x.shape = "quoted header" => y.shape = "text" /\ y.at = 0
        /\ x.shape \notin {"header", "quoted header"} => y = x
        /\ y.of = x.of
        /\ x.shape = "text" => x.at = e
        /\ x.shape \in {"header", "quoted header"} => x.of \in SectionSet
    BY <1>1, <1>2
  <2> HIDE DEF x, y
  <2>2. \A s \in SectionSet : s \notin Parts
    BY DEF SectionSet, Parts
  <2>3. \A l \in Fresh(e) : l.shape = "text" /\ l.at = e /\ e # 0
    BY DEF Fresh, Texts
  <2>4. /\ IsHeading(y) <=> IsHeading(x)
        /\ IsHeading(x) => y = x
        /\ y.shape = "block" => x.shape \in {"header", "block"}
        /\ y \in Fresh(e) \/ x \in Fresh(e) => y = x
        /\ y.shape = "text" => y.at \in {0, e}
    <3>1. CASE x.shape = "header"
      BY <2>1, <2>2, <2>3, <3>1 DEF IsHeading
    <3>2. CASE x.shape = "quoted header"
      BY <2>1, <2>2, <2>3, <3>2 DEF IsHeading
    <3>3. CASE x.shape \notin {"header", "quoted header"}
      BY <2>1, <3>3 DEF IsHeading
    <3> QED
      BY <3>1, <3>2, <3>3
  <2> QED
    BY <2>4 DEF x, y
<1> QED
  BY <1>1, <1>2, <1>3, <1>4 DEF Cleaned, sm, n

(* A summary as asked for, by its lines. *)
AskedFor(w) ==
  /\ \A i \in 1..Len(w) : IsHeading(w[i]) /\ w[i].of \in {"a", "d"} => w[i].shape = "part"
  /\ \A i, j \in 1..Len(w) : IsHeading(w[i]) /\ IsHeading(w[j]) /\ i < j => <<w[i].of, w[j].of>> \in InOrder
  /\ \A i \in 1..Len(w) :
       ~IsHeading(w[i]) /\ w[i].shape \in {"header", "block"} => ~Reported(w, i)
LEMMA AsAskedIs ==
  ASSUME NEW w \in Seq(Lines), AsAsked(w)
  PROVE  AskedFor(w)
<1>1. DOMAIN w = 1..Len(w)
  BY LenProperties
<1>2. \A i \in 1..Len(w) : IsHeading(w[i]) <=> i \in PartHeads(w)
  BY <1>1 DEF PartHeads
<1> QED
  BY <1>1, <1>2 DEF AsAsked, AskedFor

(* Its results stand tidy, and all of them stay. *)
LEMMA SummaryTidy ==
  ASSUME NEW shape, NEW e \in Nat, NEW w, LikeShape(shape, e, w), AsAsked(w), NEW s, Cleaned(w, s, e)
  PROVE  /\ Tidy(s, Yield(w))
         /\ Select(s, Yield(w)) = ResultLines(w)
<1> DEFINE K == Yield(w)
           n == Len(w)
<1>1. /\ \A i \in 1..n : w[i] \in K <=> Yields(w, i)
      /\ K \subseteq Fresh(e) /\ ResultLines(w) = Select(w, K)
  BY ResultsAre
<1>2. /\ w \in Seq(Lines) /\ n \in Nat
      /\ \A i \in 1..n : w[i] \in Lines
  BY DEF LikeShape
<1>3. /\ s \in Seq(Lines) /\ Len(s) = n
      /\ \A i \in 1..n : /\ IsHeading(s[i]) <=> IsHeading(w[i])
                         /\ IsHeading(w[i]) => s[i] = w[i]
                         /\ s[i].shape = "block" => w[i].shape \in {"header", "block"}
                         /\ s[i] \in Fresh(e) \/ w[i] \in Fresh(e) => s[i] = w[i]
  BY DEF Cleaned
<1>4. AskedFor(w)
  BY <1>2, AsAskedIs
<1>5. /\ \A i \in 1..n : IsHeading(w[i]) /\ w[i].of \in {"a", "d"} => w[i].shape = "part"
      /\ \A i, j \in 1..n : IsHeading(w[i]) /\ IsHeading(w[j]) /\ i < j => <<w[i].of, w[j].of>> \in InOrder
      /\ \A i \in 1..n : ~IsHeading(w[i]) /\ w[i].shape \in {"header", "block"} => ~Reported(w, i)
  BY <1>4 DEF AskedFor
<1> HIDE DEF K, n
<1>6. \A i \in 1..n : s[i] \in K \/ w[i] \in K => s[i] = w[i]
  BY <1>1, <1>3
<1>7. ASSUME NEW i \in 1..n, s[i] \in K
      PROVE  \E h \in 1..n : /\ h < i /\ s[h] \in ResultHeads
                             /\ \A k \in 1..n : h < k /\ k < i => s[k] \notin Stops
  <2>1. Yields(w, i)
    BY <1>1, <1>6, <1>7
  <2>2. Reported(w, i)
    BY <2>1 DEF Yields
  <2>3. PICK h \in 1..n : /\ h < i /\ IsHeading(w[h]) /\ w[h].of \in {"a", "d"}
                          /\ \A k \in 1..n : h < k /\ k < i => ~IsHeading(w[k])
    BY <1>2, <2>2, ReportedBy DEF n
  <2>4. s[h] \in ResultHeads
    BY <1>2, <1>3, <1>5, <2>3 DEF ResultHeads
  <2>5. ASSUME NEW k \in 1..n, h < k, k < i, s[k] \in Stops PROVE FALSE
    <3>1. ~IsHeading(w[k]) /\ ~IsHeading(s[k])
      BY <1>3, <2>3, <2>5
    <3>2. s[k].shape = "block"
      BY <2>5, <3>1 DEF Stops
    <3>3. ~Reported(w, k)
      BY <1>3, <1>5, <3>1, <3>2
    <3>4. \A j \in 1..n : h < j /\ j < k => ~IsHeading(w[j])
      BY <1>2, <2>3, <2>5
    <3>5. Reported(w, k)
      BY <1>2, <2>3, <2>5, <3>4, ReportedBy DEF n
    <3> QED
      BY <3>3, <3>5
  <2> QED
    BY <2>3, <2>4, <2>5
<1>8. Under(s, K)
  BY <1>3, <1>7 DEF Under
<1>9. ASSUME NEW g \in 1..n, NEW h \in 1..n, g < h, s[g] \in ResultHeads, s[h] \in ResultHeads
      PROVE  s[g].of = "a" /\ s[h].of = "d"
  <2>1. IsHeading(s[g]) /\ IsHeading(s[h]) /\ s[g].of \in {"a", "d"} /\ s[h].of \in {"a", "d"}
    BY <1>9, HeadsStop DEF ResultHeads
  <2>2. s[g] = w[g] /\ s[h] = w[h] /\ IsHeading(w[g]) /\ IsHeading(w[h])
    BY <1>3, <2>1
  <2>3. <<s[g].of, s[h].of>> \in InOrder
    BY <1>5, <1>9, <2>2
  <2> DEFINE x == s[g].of
             y == s[h].of
  <2>4. x \in {"a", "d"} /\ y \in {"a", "d"} /\ <<x, y>> \in InOrder
    BY <2>1, <2>3
  <2> HIDE DEF x, y
  <2>5. x = "a" /\ y = "d"
    BY <2>4 DEF InOrder
  <2> QED
    BY <2>5 DEF x, y
<1>10. Ordered(s)
  BY <1>3, <1>9 DEF Ordered
<1>11. Select(s, K) = Select(w, K)
  BY <1>2, <1>3, <1>6, SelectAlike DEF n
<1> QED
  BY <1>1, <1>8, <1>10, <1>11 DEF Tidy, K

(* A line extract_unfinished keeps stands behind a (c) heading and before any  *)
(* (d) heading behind that.                                                    *)
LEMMA UnfinishedAt ==
  ASSUME NEW s \in Seq(Lines), NEW j \in 1..Len(Unfinished(s))
  PROVE  \E c \in 1..Len(s), i \in 1..Len(s) :
           /\ Unfinished(s)[j] = s[i] /\ c < i /\ IsHeading(s[c]) /\ s[c].of = "c"
           /\ \A h \in 1..Len(s) : c < h /\ IsHeading(s[h]) /\ s[h].of = "d" => i < h
<1> DEFINE own == Headings(s, "c")
           n == Len(s)
           c == FirstIndex(own)
           m == n + 1
           ends == {m} \cup {i \in Headings(s, "d") : i > c}
           d == FirstIndex(ends)
           t == SubSeq(s, c + 1, d - 1)
<1>1. n \in Nat /\ DOMAIN s = 1..n /\ s \in Seq(Lines)
  BY LenProperties
<1>2. /\ own \in SUBSET (1..n)
      /\ \A i \in own : IsHeading(s[i]) /\ s[i].of = "c"
      /\ Headings(s, "d") \in SUBSET (1..n)
      /\ \A h \in 1..n : IsHeading(s[h]) /\ s[h].of = "d" => h \in Headings(s, "d")
  BY <1>1 DEF Headings
<1>3. Unfinished(s) = IF own = {} THEN << >> ELSE t
  BY DEF Unfinished
<1>4. own # {}
  <2>1. CASE own = {}
    <3>1. Unfinished(s) = << >>
      BY <1>3, <2>1
    <3>2. 1..Len(<< >>) = {}
      OBVIOUS
    <3> QED
      BY <3>1, <3>2
  <2> QED
    BY <2>1
<1>5. PICK x : x \in own
  BY <1>4
<1> HIDE DEF own
<1>6. c \in own
  BY <1>1, <1>2, <1>5, FirstIndexIs
<1>7. c \in 1..n
  BY <1>2, <1>6
<1> HIDE DEF c
<1>8. m \in Nat /\ m \in ends /\ ends \in SUBSET (1..m)
  <2>1. m \in Nat /\ m \in 1..m /\ 1..n \subseteq 1..m
    BY <1>1
  <2> HIDE DEF m, n
  <2> QED
    BY <1>2, <2>1
<1>9. \A h \in 1..n : c < h /\ IsHeading(s[h]) /\ s[h].of = "d" => h \in ends
  <2>1. \A h \in 1..n : h \in Int /\ c \in Int
    BY <1>1, <1>7
  <2> HIDE DEF n
  <2> QED
    BY <1>2, <2>1
<1> HIDE DEF ends, m
<1>10. d \in ends /\ \A y \in ends : d <= y
  BY <1>8, FirstIndexIs
<1>11. d \in 1..m
  BY <1>8, <1>10
<1> HIDE DEF d, n
<1>12. /\ c + 1 \in 1..(n + 1) /\ d - 1 \in 0..n
  BY <1>1, <1>7, <1>11 DEF m
<1>13. Unfinished(s) = t
  BY <1>3, <1>4
<1>14. \A i \in 1..Len(t) : t[i] = s[c + i] /\ c < c + i /\ c + i < d /\ c + i \in 1..n
  <2> DEFINE u == c + 1
             v == d - 1
  <2>1. /\ Len(SubSeq(s, u, v)) = IF u <= v THEN v - u + 1 ELSE 0
        /\ \A i \in 1..(v - u + 1) : SubSeq(s, u, v)[i] = s[u + i - 1]
    <3>1. u \in 1..(Len(s) + 1) /\ v \in 0..Len(s)
      BY <1>12 DEF n
    <3> HIDE DEF u, v
    <3> QED
      BY <3>1, SubSeqProperties
  <2>2. t = SubSeq(s, u, v)
    OBVIOUS
  <2> HIDE DEF t
  <2>3. ASSUME NEW i \in 1..Len(t) PROVE t[i] = s[c + i] /\ c < c + i /\ c + i < d /\ c + i \in 1..n
    <3>1. c \in Int /\ d \in Int /\ n \in Nat /\ c \in 1..n /\ d - 1 \in 0..n
      BY <1>1, <1>7, <1>11, <1>12 DEF m
    <3>2. i \in 1..(v - u + 1)
      BY <2>1, <2>2, <3>1
    <3>3. t[i] = s[u + i - 1]
      BY <2>1, <2>2, <3>2
    <3>4. u + i - 1 = c + i /\ c < c + i /\ c + i < d /\ c + i \in 1..n
      BY <3>1, <3>2
    <3> QED
      BY <3>3, <3>4
  <2> QED
    BY <2>3
<1>15. j \in 1..Len(t) /\ Unfinished(s)[j] = t[j]
  BY <1>13
<1> HIDE DEF t
<1>16. Unfinished(s)[j] = s[c + j] /\ c < c + j /\ c + j < d /\ c + j \in 1..n
  BY <1>14, <1>15
<1> DEFINE i == c + j
<1>17. Unfinished(s)[j] = s[i] /\ c < i /\ i < d /\ i \in 1..n
  BY <1>16
<1> HIDE DEF i
<1>18. ASSUME NEW h \in 1..n, c < h, IsHeading(s[h]), s[h].of = "d" PROVE i < h
  <2>1. d <= h
    BY <1>9, <1>10, <1>18
  <2>2. d \in Int /\ h \in Int /\ i \in Int
    BY <1>1, <1>8, <1>11, <1>17
  <2> QED
    BY <1>17, <2>1, <2>2
<1>19. IsHeading(s[c]) /\ s[c].of = "c"
  BY <1>2, <1>6
<1> QED
  BY <1>7, <1>17, <1>18, <1>19 DEF n

(* What it keeps of a summary as asked for are lines of the summary, and none  *)
(* of its results.                                                             *)
LEMMA SummaryTodo ==
  ASSUME NEW shape, NEW e \in Nat, NEW w, LikeShape(shape, e, w), AsAsked(w), NEW s, Cleaned(w, s, e)
  PROVE  /\ Free(Unfinished(s), Yield(w))
         /\ Members(Unfinished(s)) \subseteq Members(s)
<1> DEFINE K == Yield(w)
           n == Len(s)
           u == Unfinished(s)
<1>1. Under(s, K)
  BY SummaryTidy DEF Tidy
<1>2. s \in Seq(Lines) /\ n \in Nat /\ n = Len(w) /\ w \in Seq(Lines)
  BY DEF Cleaned, LikeShape
<1>3. \A i \in 1..n : IsHeading(s[i]) => IsHeading(w[i]) /\ s[i] = w[i]
  BY <1>2 DEF Cleaned
<1>4. \A i, j \in 1..n : IsHeading(w[i]) /\ IsHeading(w[j]) /\ i < j => <<w[i].of, w[j].of>> \in InOrder
  BY <1>2, AsAskedIs DEF AskedFor
<1>5. \A l \in ResultHeads : IsHeading(l) /\ l.of \in {"a", "d"}
  BY HeadsStop DEF ResultHeads
<1>6. \A i \in 1..n : s[i] \in K =>
         \E h \in 1..n : /\ h < i /\ s[h] \in ResultHeads
                         /\ \A k \in 1..n : h < k /\ k < i => s[k] \notin Stops
  BY <1>1 DEF Under
<1>7. \A i \in 1..n : IsHeading(s[i]) => s[i] \in Stops
  <2>1. \A i \in 1..n : s[i] \in Lines
    BY <1>2, ElementOfSeq
  <2> QED
    BY <2>1 DEF Stops
<1>8. ASSUME NEW j \in 1..Len(u)
      PROVE  \E c \in 1..n, i \in 1..n :
               /\ u[j] = s[i] /\ c < i /\ IsHeading(s[c]) /\ s[c].of = "c"
               /\ \A h \in 1..n : c < h /\ IsHeading(s[h]) /\ s[h].of = "d" => i < h
  BY <1>2, <1>8, UnfinishedAt
<1> HIDE DEF K, n, u
<1>9. ASSUME NEW j \in 1..Len(u), u[j] \in K PROVE FALSE
  <2>1. PICK c \in 1..n, i \in 1..n :
               /\ u[j] = s[i] /\ c < i /\ IsHeading(s[c]) /\ s[c].of = "c"
               /\ \A h \in 1..n : c < h /\ IsHeading(s[h]) /\ s[h].of = "d" => i < h
    BY <1>8
  <2>2. s[i] \in K
    BY <1>9, <2>1
  <2>3. PICK h \in 1..n : /\ h < i /\ s[h] \in ResultHeads
                          /\ \A k \in 1..n : h < k /\ k < i => s[k] \notin Stops
    BY <1>6, <2>2
  <2>4. IsHeading(s[h]) /\ s[h].of \in {"a", "d"} /\ h # c
    BY <1>5, <2>1, <2>3
  <2>5. ~(h < c)
    BY <1>7, <2>1, <2>3
  <2>6. c < h
    <3>1. c \in Int /\ h \in Int
      BY <1>2
    <3> QED
      BY <2>4, <2>5, <3>1
  <2>7. <<s[c].of, s[h].of>> \in InOrder
    BY <1>3, <1>4, <2>1, <2>4, <2>6
  <2> DEFINE x == s[c].of
             y == s[h].of
  <2>8. x = "c" /\ y \in {"a", "d"} /\ <<x, y>> \in InOrder
    BY <2>1, <2>4, <2>7
  <2> HIDE DEF x, y
  <2>9. y = "d"
    BY <2>8 DEF InOrder
  <2>10. i < h
    BY <2>1, <2>4, <2>6, <2>9 DEF y
  <2> QED
    <3>1. i \in Int /\ h \in Int
      BY <1>2
    <3> QED
      BY <2>3, <2>10, <3>1
<1>10. Free(u, K)
  BY <1>9 DEF Free
<1>11. Members(u) \subseteq Members(s)
  <2>1. ASSUME NEW j \in 1..Len(u) PROVE u[j] \in Members(s)
    BY <1>8 DEF Members, n
  <2> QED
    BY <2>1 DEF Members
<1> QED
  BY <1>10, <1>11 DEF K, u

-----------------------------------------------------------------------------
(* Results in the file.                                                      *)

(* The invariant of results: every result so far stands in the Log, in order   *)
(* and below its heading, and no line is of a later summary.                   *)
Dated(e) == {l \in Texts : 0 < l.at /\ l.at <= e}
Late(e) == {l \in Texts : l.at > e}
Rich(b, res, e) ==
  /\ \A s \in SectionSet : Free(b[s], Late(e))
  /\ \A s \in SectionSet \ {"log"} : Free(b[s], Members(res))
  /\ Tidy(b["log"], Members(res)) /\ Select(b["log"], Members(res)) = res
Bears(ls, res, e) ==
  /\ res \in Seq(Dated(e))
  /\ \E b \in Fronts, q \in Quotes : ls = Filed(b, q) /\ Rich(b, res, e)

LEMMA FreeWithin ==
  ASSUME NEW s, NEW S, NEW T, T \subseteq S, Free(s, S)
  PROVE  Free(s, T)
BY DEF Free

(* Which lines these are. *)
LEMMA DatedAre ==
  ASSUME NEW e \in Nat
  PROVE  /\ Dated(e) \subseteq Dated(e + 1) /\ Late(e + 1) \subseteq Late(e) /\ Fresh(e + 1) \subseteq Late(e)
         /\ Fresh(e + 1) \subseteq Dated(e + 1) /\ Dated(e) \subseteq Texts /\ Late(e) \subseteq Texts
         /\ Late(e + 1) \subseteq Texts /\ Fresh(e + 1) \subseteq Texts
         /\ \A l \in Dated(e) \cup Late(e + 1) : l.at # 0 /\ l.at # e + 1
         /\ \A l \in Texts : l.shape = "text" /\ l \notin ResultHeads
<1>1. \A l \in Texts : l.at \in Nat /\ l.shape = "text"
  BY DEF Texts, Lines
<1>2. \A l \in Texts : l \notin ResultHeads
  BY <1>1 DEF ResultHeads
<1>3. ASSUME NEW l \in Texts
      PROVE  /\ l.at <= e => l.at <= e + 1 /\ l.at # e + 1
             /\ l.at > e + 1 => l.at > e /\ l.at # e + 1 /\ l.at # 0
             /\ l.at = e + 1 => l.at > e /\ 0 < l.at /\ l.at <= e + 1
             /\ 0 < l.at => l.at # 0
  BY <1>1
<1> QED
  BY <1>1, <1>2, <1>3 DEF Dated, Late, Fresh

(* Results so far stay of that date. *)
LEMMA ResultsDated ==
  ASSUME NEW e \in Nat, NEW res \in Seq(Dated(e))
  PROVE  /\ Members(res) \subseteq Dated(e) /\ Members(res) \subseteq Texts
         /\ res \in Seq(Dated(e + 1))
<1>1. Members(res) \subseteq Dated(e)
  BY ElementOfSeq DEF Members
<1>2. res \in Seq(Dated(e + 1))
  BY DatedAre, SeqMonotonic
<1> QED
  BY <1>1, <1>2, DatedAre

(* A note or a ledger line. *)
LEMMA LineRich ==
  ASSUME NEW b \in Fronts, NEW q \in Quotes, NEW e \in Nat, NEW res \in Seq(Dated(e)), Rich(b, res, e),
         NEW s \in SectionSet, NEW x \in Running, x.shape # "text", s = "log" => x \notin ResultHeads,
         NEW d \in Seq(QuotedLines)
  PROVE  Bears(Add(Filed(b, q), s, <<x>> \o d), res, e + 1)
<1> DEFINE b1 == Put(b, s, b[s] \o <<x>>)
           h == <<x>>
           R == Members(res)
<1>1. PICK q1 \in Quotes : Add(Filed(b, q), s, <<x>> \o d) = Filed(b1, q1)
  BY LineAdded
<1>2. /\ b1 \in Fronts /\ \A t \in SectionSet \ {s} : b1[t] = b[t]
      /\ \A T : Select(b1[s], T) = IF x \in T THEN Append(Select(b[s], T), x) ELSE Select(b[s], T)
  BY GrownBy
<1>3. b1[s] = b[s] \o h
  BY DEF Put, Fronts
<1>4. R \subseteq Texts /\ res \in Seq(Dated(e + 1))
  BY ResultsDated
<1>5. Late(e + 1) \subseteq Late(e) /\ Late(e) \subseteq Texts
  BY DatedAre
<1>6. x \notin Texts /\ (s = "log" => x \notin ResultHeads)
  BY DEF Texts
<1>7. b[s] \in Seq(Running) /\ h \in Seq(Running) /\ Len(h) = 1 /\ h[1] = x
  BY DEF Fronts
<1>8. /\ \A t \in SectionSet : Free(b[t], Late(e))
      /\ \A t \in SectionSet \ {"log"} : Free(b[t], R)
      /\ Tidy(b["log"], R) /\ Select(b["log"], R) = res
  BY DEF Rich
<1>9. "log" \in SectionSet
  BY DEF SectionSet
<1> HIDE DEF b1, h, R
<1>10. ASSUME NEW T, T \subseteq Texts, Free(b[s], T) PROVE Free(b1[s], T)
  <2>1. Free(h, T)
    BY <1>6, <1>7, <1>10 DEF Free
  <2> DEFINE u == b[s]
  <2>2. u \in Seq(Running) /\ h \in Seq(Running) /\ Free(u, T)
    BY <1>7, <1>10
  <2> HIDE DEF u
  <2>3. Free(u \o h, T)
    BY <2>1, <2>2, FreeConcat
  <2> QED
    BY <1>3, <2>3 DEF u
<1>11. ASSUME NEW t \in SectionSet PROVE Free(b1[t], Late(e + 1))
  <2>1. Free(b[t], Late(e + 1)) /\ Late(e + 1) \subseteq Texts
    BY <1>5, <1>8, FreeWithin
  <2> QED
    BY <1>2, <1>10, <2>1
<1>12. ASSUME NEW t \in SectionSet \ {"log"} PROVE Free(b1[t], R)
  BY <1>2, <1>4, <1>8, <1>10
<1>13. Tidy(b1["log"], R) /\ Select(b1["log"], R) = res
  <2>1. CASE s # "log"
    BY <1>2, <1>8, <1>9, <2>1
  <2>2. CASE s = "log"
    <3> DEFINE u == b[s]
    <3>1. u \in Seq(Running) /\ h \in Seq(Running) /\ Tidy(u, R)
      BY <1>7, <1>8, <2>2
    <3> HIDE DEF u
    <3>2. \A j \in 1..Len(h) : h[j] \notin R /\ h[j] \notin ResultHeads
      BY <1>4, <1>6, <1>7, <2>2
    <3>3. Tidy(u \o h, R)
      BY <3>1, <3>2, TidyAfter
    <3>4. x \notin R
      BY <1>4, <1>6
    <3> QED
      BY <1>2, <1>3, <1>8, <2>2, <3>3, <3>4 DEF u
  <2> QED
    BY <2>1, <2>2
<1>14. Rich(b1, res, e + 1)
  BY <1>11, <1>12, <1>13 DEF Rich, R
<1> QED
  BY <1>1, <1>2, <1>4, <1>14 DEF Bears

(* A rewrite that keeps the headings, and the results so far.                  *)
LEMMA RewriteRich ==
  ASSUME NEW b \in Fronts, NEW q \in Quotes, NEW e \in Nat, NEW res \in Seq(Dated(e)), Rich(b, res, e),
         NEW W, \A s \in SectionSet : Header(s) \in W, \A l \in QuotedLines : l \in W,
         \A l \in Running : l \in Stops \/ l \in Members(res) => l \in W
  PROVE  Bears(Select(Filed(b, q), W), res, e + 1)
<1> DEFINE g == [s \in SectionSet |-> Select(b[s], W)]
           R == Members(res)
<1>1. Select(Filed(b, q), W) = Filed(g, q) /\ g \in Fronts
  BY FiledWorth
<1>2. \A s \in SectionSet : g[s] = Select(b[s], W)
  OBVIOUS
<1>3. /\ \A t \in SectionSet : Free(b[t], Late(e))
      /\ \A t \in SectionSet \ {"log"} : Free(b[t], R)
      /\ Tidy(b["log"], R) /\ Select(b["log"], R) = res
  BY DEF Rich
<1>4. "log" \in SectionSet /\ \A s \in SectionSet : b[s] \in Seq(Running)
  BY DEF SectionSet, Fronts
<1>5. Late(e + 1) \subseteq Late(e) /\ res \in Seq(Dated(e + 1))
  BY DatedAre, ResultsDated
<1> HIDE DEF g, R
<1>6. ASSUME NEW s \in SectionSet, NEW T, Free(b[s], T) PROVE Free(g[s], T)
  <2>1. Free(Select(b[s], W), T)
    BY <1>4, <1>6, FreeSelect
  <2> QED
    BY <1>2, <2>1
<1>7. ASSUME NEW s \in SectionSet PROVE Free(g[s], Late(e + 1))
  BY <1>3, <1>5, <1>6, FreeWithin
<1>8. \A s \in SectionSet \ {"log"} : Free(g[s], R)
  BY <1>3, <1>6
<1>9. Tidy(g["log"], R) /\ Select(g["log"], R) = res
  <2> DEFINE u == b["log"]
  <2>1. u \in Seq(Running) /\ Under(u, R) /\ Ordered(u) /\ g["log"] = Select(u, W) /\ Select(u, R) = res
    BY <1>2, <1>3, <1>4 DEF Tidy
  <2>2. Running \subseteq Lines /\ \A l \in Running : (l \in Stops => l \in W) /\ (l \in R => l \in W)
    BY DEF Running, R
  <2> HIDE DEF u
  <2>3. Under(Select(u, W), R)
    BY <2>1, <2>2, UnderSelect
  <2>4. Ordered(Select(u, W))
    BY <2>1, <2>2, OrderedSelect
  <2>5. Select(Select(u, W), R) = Select(u, R)
    BY <2>1, <2>2, SelectNested
  <2> QED
    BY <2>1, <2>3, <2>4, <2>5 DEF Tidy
<1>10. Rich(g, res, e + 1)
  BY <1>7, <1>8, <1>9 DEF Rich, R
<1> QED
  BY <1>1, <1>5, <1>10 DEF Bears

(* One block line by itself. *)
LEMMA BlockLine ==
  ASSUME NEW x \in Running, x.shape = "block", NEW R, R \subseteq Texts
  PROVE  /\ <<x>> \in Seq(Running) /\ Len(<<x>>) = 1 /\ <<x>>[1] = x
         /\ Free(<<x>>, R) /\ Tidy(<<x>>, R) /\ Select(<<x>>, R) = << >>
<1> DEFINE h == <<x>>
<1>1. h \in Seq(Running) /\ Len(h) = 1 /\ h[1] = x
  OBVIOUS
<1>2. x \notin R /\ x \notin ResultHeads
  BY DEF Texts, ResultHeads
<1>3. Select(h, R) = << >>
  BY <1>2, SelectOne
<1> HIDE DEF h
<1>4. Free(h, R) /\ Under(h, R) /\ Ordered(h)
  BY <1>1, <1>2 DEF Free, Under, Ordered
<1> QED
  BY <1>1, <1>3, <1>4 DEF Tidy, h

(* A summary's lines beside the results R so far and those to come.            *)
Beside(sm, w, R, N) ==
  /\ Free(sm, N)
  /\ Free(Unfinished(sm), R) /\ Free(Unfinished(sm), N) /\ Free(Unfinished(sm), Yield(w))
  /\ Tidy(sm, R \cup Yield(w)) /\ Select(sm, R \cup Yield(w)) = ResultLines(w)

LEMMA SummaryBeside ==
  ASSUME NEW shape, NEW e \in Nat, NEW w, LikeShape(shape, e + 1, w), AsAsked(w),
         NEW sm \in Seq(Memo), sm = Sanitize(w), NEW R, R \subseteq Dated(e)
  PROVE  Beside(sm, w, R, Late(e + 1))
<1> DEFINE K == Yield(w)
           un == Unfinished(sm)
<1>1. e + 1 \in Nat /\ e + 1 > 0
  OBVIOUS
<1>2. Cleaned(w, sm, e + 1)
  BY <1>1, CleanedIs
<1>3. Tidy(sm, K) /\ Select(sm, K) = ResultLines(w)
  BY <1>1, <1>2, SummaryTidy
<1>4. Free(un, K) /\ Members(un) \subseteq Members(sm)
  BY <1>1, <1>2, SummaryTodo
<1>5. \A l \in Dated(e) \cup Late(e + 1) : l.at # 0 /\ l.at # e + 1 /\ l.shape = "text"
  BY DatedAre
<1>6. \A i \in 1..Len(sm) : sm[i].shape = "text" => sm[i].at \in {0, e + 1}
  BY <1>2 DEF Cleaned
<1>7. Free(sm, Dated(e)) /\ Free(sm, Late(e + 1))
  BY <1>5, <1>6 DEF Free
<1>8. Free(sm, R)
  BY <1>7, FreeWithin
<1> HIDE DEF un, K
<1>9. ASSUME NEW T, Free(sm, T) PROVE Free(un, T)
  BY <1>4, <1>9 DEF Free, Members
<1>10. Select(sm, R \cup K) = Select(sm, K) /\ Tidy(sm, R \cup K)
  BY <1>3, <1>8, SelectBoth
<1> QED
  BY <1>3, <1>4, <1>7, <1>8, <1>9, <1>10 DEF Beside, un, K

(* The Log with the block of a compaction behind it, and pruned.               *)
LogGrown(P, L, x, sm) == P = Pruned(L \o (<<x>> \o sm))
LogHolds(P, L, sm, R, K, N) ==
  /\ Tidy(P, R \cup K) /\ Free(P, N)
  /\ Select(P, R \cup K) = Select(L, R) \o Select(sm, R \cup K)
LEMMA LogRich ==
  ASSUME NEW L \in Seq(Running), NEW sm \in Seq(Running), NEW x \in Running, x.shape = "block",
         NEW R, R \subseteq Texts, NEW K, K \subseteq Texts, NEW N, N \subseteq Texts,
         Tidy(L, R), Free(L, K), Free(L, N),
         Tidy(sm, R \cup K), Free(sm, N),
         NEW P, LogGrown(P, L, x, sm)
  PROVE  LogHolds(P, L, sm, R, K, N)
<1> DEFINE R2 == R \cup K
           h == <<x>>
           blk == h \o sm
           L1 == L \o blk
<1>1. R2 \subseteq Texts
  OBVIOUS
<1> HIDE DEF R2
<1>2. /\ h \in Seq(Running) /\ Len(h) = 1 /\ h[1] = x /\ Free(h, N)
      /\ Tidy(h, R2) /\ Select(h, R2) = << >>
  BY <1>1, BlockLine
<1> HIDE DEF h
<1>3. Tidy(L, R2) /\ Select(L, R2) = Select(L, R)
  BY SelectBoth DEF R2
<1>4. Tidy(sm, R2)
  BY DEF R2
<1>5. h \in Seq(Running) /\ Sundered(h, sm)
  BY <1>2 DEF Sundered, ResultHeads
<1>6. /\ blk \in Seq(Running) /\ Tidy(blk, R2) /\ Free(blk, N)
      /\ Select(blk, R2) = Select(sm, R2) /\ blk[1] = x
  <2>1. Tidy(blk, R2)
    BY <1>2, <1>4, <1>5, TidyBehind
  <2>2. Free(blk, N)
    <3>1. Free(h, N)
      BY <1>2
    <3> QED
      BY <1>5, <3>1, FreeConcat
  <2>3. Select(blk, R2) = Select(h, R2) \o Select(sm, R2)
    BY <1>5, SelectConcat
  <2>4. Select(sm, R2) \in Seq(Running)
    BY SelectType
  <2>5. << >> \o Select(sm, R2) = Select(sm, R2)
    BY <2>4, ConcatEmptySeq
  <2>6. blk \in Seq(Running) /\ Chained(h, sm, blk)
    BY <1>5, ChainIs
  <2> HIDE DEF blk
  <2>7. blk[1] = h[1]
    BY <1>2, <2>6 DEF Chained
  <2> QED
    BY <1>2, <2>1, <2>2, <2>3, <2>5, <2>6, <2>7
<1> HIDE DEF blk
<1>7. blk \in Seq(Running) /\ Sundered(L, blk)
  BY <1>6 DEF Sundered
<1>8. L1 \in Seq(Running)
  BY <1>7, ConcatProperties
<1>9. Tidy(L1, R2)
  BY <1>3, <1>6, <1>7, TidyBehind
<1>10. Free(L1, N)
  <2>1. Free(blk, N)
    BY <1>6
  <2> QED
    BY <1>7, <2>1, FreeConcat
<1>11. Select(L1, R2) = Select(L, R2) \o Select(blk, R2)
  BY <1>7, SelectConcat
<1>12. P = Pruned(L1)
  BY DEF LogGrown, L1, blk, h
<1> HIDE DEF L1
<1>13. Select(Pruned(L1), R2) = Select(L1, R2) /\ Tidy(Pruned(L1), R2)
  BY <1>1, <1>8, <1>9, PrunedHasResults
<1>14. Tidy(L1, N) /\ Select(L1, N) = << >>
  <2>1. Under(L1, N)
    BY <1>10 DEF Under, Free
  <2>2. Ordered(L1)
    BY <1>9 DEF Tidy
  <2>3. Select(L1, N) = << >>
    BY <1>8, <1>10, FreeNone
  <2> QED
    BY <2>1, <2>2, <2>3 DEF Tidy
<1>15. Select(Pruned(L1), N) = << >>
  BY <1>8, <1>14, PrunedHasResults
<1>16. Pruned(L1) \in Seq(Running)
  BY <1>8, PrunedKeeps
<1>17. Free(Pruned(L1), N)
  BY <1>15, <1>16, FreeNone
<1> QED
  BY <1>3, <1>6, <1>11, <1>12, <1>13, <1>17 DEF R2, LogHolds

(* A compaction: the file bears the results of its summary as well.            *)
LEMMA BlockRich ==
  ASSUME NEW b \in Fronts, NEW q \in Quotes, NEW e \in Nat, NEW res \in Seq(Dated(e)), Rich(b, res, e),
         NEW m \in Nat, m > 0, NEW shape, NEW w, LikeShape(shape, e + 1, w), AsAsked(w),
         NEW sm \in Seq(Memo), sm = Sanitize(w), Unfinished(sm) \in Seq(Memo)
  PROVE  Bears(Compacted(Filed(b, q), m, sm), res \o ResultLines(w), e + 1)
<1> DEFINE R == Members(res)
           K == Yield(w)
           RL == ResultLines(w)
           N == Late(e + 1)
           un == Unfinished(sm)
           L == b["log"]
           x == Block("compaction", m)
           all == res \o RL
<1>1. PICK B \in Fronts : /\ Compacted(Filed(b, q), m, sm) = Filed(B, q)
                          /\ LogIs(B, b, m, sm) /\ OthersAre(B, b, un)
  BY CompactedIs
<1>2. R \subseteq Dated(e) /\ R \subseteq Texts /\ res \in Seq(Dated(e + 1))
  BY ResultsDated
<1>3. /\ N \subseteq Late(e) /\ Fresh(e + 1) \subseteq Late(e) /\ Fresh(e + 1) \subseteq Dated(e + 1)
      /\ N \subseteq Texts /\ Fresh(e + 1) \subseteq Texts
  BY DatedAre
<1>4. K \subseteq Fresh(e + 1) /\ Members(RL) = K /\ RL = Select(w, K)
  BY ResultsAre
<1>5. /\ \A t \in SectionSet : Free(b[t], Late(e))
      /\ \A t \in SectionSet \ {"log"} : Free(b[t], R)
      /\ Tidy(L, R) /\ Select(L, R) = res
  BY DEF Rich
<1>6. /\ Free(sm, N)
      /\ Free(un, R) /\ Free(un, N) /\ Free(un, K)
      /\ Tidy(sm, R \cup K) /\ Select(sm, R \cup K) = RL
  <2>1. R \subseteq Dated(e)
    BY <1>2
  <2>2. Beside(sm, w, R, N)
    BY <2>1, SummaryBeside
  <2> QED
    BY <2>2 DEF Beside
<1>7. "log" \in SectionSet /\ L \in Seq(Running) /\ sm \in Seq(Running)
  <2>1. "log" \in SectionSet
    BY DEF SectionSet
  <2>2. L \in Seq(Running)
    BY <2>1 DEF Fronts
  <2>3. sm \in Seq(Running)
    BY KindsApart, SeqMonotonic
  <2> QED
    BY <2>1, <2>2, <2>3
<1>8. x \in Running /\ x.shape = "block"
  BY LinesMade DEF CompactionBlocks
<1>9. RL \in Seq(Dated(e + 1))
  <2>1. w \in Seq(Lines) 
    BY DEF LikeShape
  <2>2. RL \in Seq({l \in Lines : l \in K})
    BY <1>4, <2>1, SelectIn
  <2>3. {l \in Lines : l \in K} \subseteq Dated(e + 1)
    BY <1>3, <1>4
  <2> HIDE DEF RL
  <2> QED
    BY <2>2, <2>3, SeqMonotonic
<1> HIDE DEF R, K, RL, N, un, x
<1>10. \A t \in SectionSet : Free(b[t], K) /\ Free(b[t], N)
  BY <1>3, <1>4, <1>5, FreeWithin
<1> DEFINE P == B["log"]
<1>11. LogGrown(P, L, x, sm)
  BY <1>1 DEF LogIs, LogGrown, x
<1>12. Free(L, K) /\ Free(L, N) /\ K \subseteq Texts
  BY <1>3, <1>4, <1>7, <1>10
<1> HIDE DEF P, L
<1>13. /\ Tidy(P, R \cup K) /\ Free(P, N)
       /\ Select(P, R \cup K) = Select(L, R) \o Select(sm, R \cup K)
  <2>1. /\ L \in Seq(Running) /\ sm \in Seq(Running) /\ x \in Running /\ x.shape = "block"
        /\ R \subseteq Texts /\ K \subseteq Texts /\ N \subseteq Texts
        /\ Tidy(L, R) /\ Free(L, K) /\ Free(L, N) /\ Tidy(sm, R \cup K) /\ Free(sm, N)
    BY <1>2, <1>3, <1>5, <1>6, <1>7, <1>8, <1>12
  <2>2. LogHolds(P, L, sm, R, K, N)
    BY <1>11, <2>1, LogRich
  <2> QED
    BY <2>2 DEF LogHolds
<1>14. Select(P, R \cup K) = all
  BY <1>5, <1>6, <1>13
<1>15. all \in Seq(Dated(e + 1)) /\ Members(all) = R \cup K
  <2> DEFINE D == Dated(e + 1)
  <2>1. res \in Seq(D) /\ RL \in Seq(D)
    BY <1>2, <1>9
  <2> HIDE DEF D
  <2>2. all \in Seq(D)
    BY <2>1, ConcatProperties
  <2>3. Members(all) = Members(res) \cup Members(RL)
    BY <2>1, MembersConcat
  <2> HIDE DEF all
  <2> QED
    BY <1>4, <2>2, <2>3 DEF R, D
<1> HIDE DEF all
<1>16. ASSUME NEW t \in SectionSet \ {"log"} PROVE B[t] = b[t] \/ B[t] = un
  <2>1. t \in {"facts", "hypotheses", "todo"}
    BY DEF SectionSet
  <2> QED
    BY <1>1, <2>1 DEF OthersAre
<1>17. ASSUME NEW t \in SectionSet \ {"log"} PROVE Free(B[t], N) /\ Free(B[t], R \cup K)
  <2>1. Free(b[t], N) /\ Free(b[t], K) /\ Free(b[t], R)
    BY <1>5, <1>10
  <2>2. Free(B[t], N) /\ Free(B[t], K) /\ Free(B[t], R)
    BY <1>6, <1>16, <2>1
  <2> QED
    BY <2>2 DEF Free
<1>18. \A t \in SectionSet : Free(B[t], N)
  BY <1>13, <1>17 DEF P
<1>19. Rich(B, all, e + 1)
  BY <1>13, <1>14, <1>15, <1>17, <1>18 DEF Rich, P, N
<1> QED
  BY <1>1, <1>15, <1>19 DEF Bears, all, RL

-----------------------------------------------------------------------------
(* Every operation leaves a file that bears the results.                       *)
RichInv == CaseTypes /\ Bears(lines, results, events)

(* The notes tool. *)
LEMMA NoteBears ==
  ASSUME RichInv, NEW s \in SectionSet, NEW noteShape, Note(s, noteShape), ~posed'
  PROVE  Bears(lines, results, events)'
<1>1. CaseTypes /\ Happens /\ results' = results
  BY DEF RichInv, Note
<1>2. events \in Nat /\ events' = events + 1
  BY <1>1, Eventful DEF Happens
<1>3. /\ results \in Seq(Dated(events))
      /\ \E b \in Fronts, q \in Quotes : lines = Filed(b, q) /\ Rich(b, results, events)
  BY DEF RichInv, Bears
<1>4. PICK b \in Fronts, q \in Quotes : lines = Filed(b, q) /\ Rich(b, results, events)
  BY <1>3
<1>5. PICK x \in Memo, d \in Seq(QuotedLines) :
        /\ x \in NoteLines /\ lines' = Add(lines, s, <<x>> \o d)
        /\ s = "log" /\ ~posed' => x.of \notin {"a", "d"}
  BY <1>1, NoteIs
<1>6. x \in Running /\ x.shape # "text" /\ (s = "log" => x \notin ResultHeads)
  BY <1>5 DEF Memo, NoteLines, ResultHeads
<1>7. Bears(Add(Filed(b, q), s, <<x>> \o d), results, events + 1)
  BY <1>2, <1>3, <1>4, <1>6, LineRich
<1> DEFINE ls == Add(Filed(b, q), s, <<x>> \o d)
<1>8. lines' = ls /\ Bears(ls, results, events + 1)
  BY <1>4, <1>5, <1>7
<1> HIDE DEF ls
<1> QED
  BY <1>1, <1>2, <1>8

(* observe, the critic and the gate. *)
LEMMA RecordBears ==
  ASSUME RichInv, Record
  PROVE  Bears(lines, results, events)'
<1> DEFINE x == Ledger(events')
           s == "log"
           h == <<x>>
           nil == << >>
<1>1. CaseTypes /\ Happens /\ results' = results
  BY DEF RichInv, Record
<1>2. events \in Nat /\ events' = events + 1 /\ events' \in Nat /\ events' > 0
  BY <1>1, Eventful DEF Happens
<1>3. /\ results \in Seq(Dated(events))
      /\ \E b \in Fronts, q \in Quotes : lines = Filed(b, q) /\ Rich(b, results, events)
  BY DEF RichInv, Bears
<1>4. PICK b \in Fronts, q \in Quotes : lines = Filed(b, q) /\ Rich(b, results, events)
  BY <1>3
<1>5. lines' = Add(lines, s, h) /\ s \in SectionSet
  BY DEF Record, SectionSet
<1>6. x \in LedgerLines /\ x \in Running
  BY <1>2, LinesMade
<1> HIDE DEF x, s
<1>7. x.shape # "text" /\ x \notin ResultHeads
  BY <1>6 DEF LedgerLines, IsLedger, ResultHeads
<1>8. nil \in Seq(QuotedLines) /\ h \o nil = h
  <2>1. h \in Seq(Running)
    BY <1>6
  <2> HIDE DEF h
  <2> QED
    BY <2>1, EmptySeq, ConcatEmptySeq
<1> HIDE DEF nil
<1>9. Bears(Add(Filed(b, q), s, <<x>> \o nil), results, events + 1)
  BY <1>2, <1>3, <1>4, <1>5, <1>6, <1>7, <1>8, LineRich
<1>10. Bears(Add(Filed(b, q), s, h), results, events + 1)
  BY <1>8, <1>9
<1> DEFINE ls == Add(Filed(b, q), s, h)
<1>11. lines' = ls /\ Bears(ls, results, events + 1)
  BY <1>4, <1>5, <1>10
<1> HIDE DEF ls
<1> QED
  BY <1>1, <1>2, <1>11

(* compact, with a summary as asked for. *)
LEMMA CompactionBears ==
  ASSUME RichInv, NEW shape \in Summaries, AsAsked(shape), Compaction(shape)
  PROVE  Bears(lines, results, events)'
<1> DEFINE w == Written(shape)
           sm == Sanitize(w)
           e == events
           m == compactions + 1
           RL == ResultLines(w)
<1>1. CaseTypes /\ Happens
  BY DEF RichInv, Compaction
<1>2. e \in Nat /\ events' = e + 1 /\ m \in Nat /\ m > 0
  <2>1. compactions \in 0..events
    BY <1>1 DEF CaseTypes
  <2> QED
    BY <1>1, <2>1, Eventful DEF Happens
<1>3. /\ results \in Seq(Dated(e))
      /\ \E b \in Fronts, q \in Quotes : lines = Filed(b, q) /\ Rich(b, results, e)
  BY DEF RichInv, Bears
<1>4. PICK b \in Fronts, q \in Quotes : lines = Filed(b, q) /\ Rich(b, results, e)
  BY <1>3
<1>5. shape \in Seq(SummaryLines)
  BY CaseFileAssumption
<1>6. w = [i \in DOMAIN shape |-> IF shape[i].shape = "text" THEN Text(events', i) ELSE shape[i]]
  BY DEF Written
<1>7. lines' = Compacted(lines, m, sm) /\ results' = results \o RL
  <2>1. HasSection(lines, "todo")
    <3>1. << >> \in Seq(Running) /\ << >> \in Seq(QuotedLines) /\ "todo" \in SectionSet
      BY EmptySeq DEF SectionSet
    <3> QED
      BY <1>4, <3>1, FiledEdits
  <2> QED
    BY <2>1 DEF Compaction
<1> HIDE DEF w, e, m
<1> DEFINE E == e + 1
<1>8. E \in Nat /\ WrittenAs(shape, E, w)
       /\ w = [i \in DOMAIN shape |-> IF shape[i].shape = "text" THEN Text(E, i) ELSE shape[i]]
  BY <1>2, <1>6 DEF WrittenAs
<1> HIDE DEF E
<1>9. sm \in Seq(Memo) /\ Unfinished(sm) \in Seq(Memo)
  BY <1>5, <1>8, SummaryIs
<1>10. LikeShape(shape, E, w) /\ AsAsked(w)
  <2>1. E \in Nat /\ WrittenAs(shape, E, w)
    BY <1>8
  <2> QED
    BY <1>5, <2>1, WrittenIs, WrittenAsAsked
<1> HIDE DEF RL
<1>11. sm = Sanitize(w)
  OBVIOUS
<1> HIDE DEF sm
<1>12. Bears(Compacted(Filed(b, q), m, sm), results \o ResultLines(w), e + 1)
  <2>1. LikeShape(shape, e + 1, w)
    BY <1>10 DEF E
  <2>2. e \in Nat /\ m \in Nat /\ m > 0
    BY <1>2
  <2> QED
    BY <1>3, <1>4, <1>9, <1>10, <1>11, <2>1, <2>2, BlockRich
<1> DEFINE ls == Compacted(Filed(b, q), m, sm)
           rs == results \o ResultLines(w)
<1>13. lines' = ls /\ results' = rs /\ Bears(ls, rs, e + 1)
  BY <1>4, <1>7, <1>12 DEF RL
<1> HIDE DEF ls, rs
<1> QED
  BY <1>2, <1>13

(* shrink_casefile. *)
LEMMA ShrinkBears ==
  ASSUME RichInv, NEW reply, Shrink(reply), faithful'
  PROVE  Bears(lines, results, events)'
<1>1. CaseTypes /\ Happens /\ results' = results
  BY DEF RichInv, Shrink
<1>2. events \in Nat /\ events' = events + 1
  BY <1>1, Eventful DEF Happens
<1>3. /\ results \in Seq(Dated(events))
      /\ \E b \in Fronts, q \in Quotes : lines = Filed(b, q) /\ Rich(b, results, events)
  BY DEF RichInv, Bears
<1>4. PICK b \in Fronts, q \in Quotes : lines = Filed(b, q) /\ Rich(b, results, events)
  BY <1>3
<1>6. lines' = Select(lines, Worth)
  BY DEF Shrink, Asked
<1>7. /\ \A s \in SectionSet : Header(s) \in Worth
      /\ \A l \in QuotedLines : l \in Worth
      /\ \A l \in Running : l \in Stops \/ l \in Members(results) => l \in Worth
  <2>1. \A l \in Lines : l.shape # "text" => l \in Worth
    BY DEF Worth
  <2>2. \A s \in SectionSet : Header(s) \in Lines /\ Header(s).shape = "header"
    BY HeaderIs DEF IsHeader
  <2>3. \A l \in QuotedLines : l \in Lines /\ l.shape = "quoted header"
    BY DEF QuotedLines
  <2>4. \A l \in Running : l \in Lines
    BY DEF Running
  <2>5. \A l \in Stops : l.shape # "text"
    BY DEF Stops, IsHeading
  <2>6. \A l \in Lines : l \in Members(results) => l \in Worth
    <3>1. DOMAIN results = 1..Len(results)
      BY <1>3, LenProperties
    <3>2. Members(results) = ResultSet
      BY <3>1 DEF Members, ResultSet
    <3> QED
      BY <3>2 DEF Worth
  <2> QED
    BY <2>1, <2>2, <2>3, <2>4, <2>5, <2>6
<1>8. Bears(Select(Filed(b, q), Worth), results, events + 1)
  BY <1>2, <1>3, <1>4, <1>7, RewriteRich
<1> QED
  BY <1>1, <1>2, <1>4, <1>6, <1>8

LEMMA InitBears ==
  ASSUME CaseInit
  PROVE  Bears(lines, results, events)
<1> DEFINE nil == << >>
<1>1. PICK b \in Fronts : b \in Quotes /\ lines = Filed(b, b) /\ \A s \in SectionSet : b[s] = nil
  BY NewFile
<1>2. results = nil /\ events = 0
  BY DEF CaseInit
<1>3. nil \in Seq(Dated(0)) /\ 1..Len(nil) = {}
  BY EmptySeq
<1>4. \A T : Select(nil, T) = nil
  BY SelectEmpty
<1>5. "log" \in SectionSet
  BY DEF SectionSet
<1> HIDE DEF nil
<1>6. \A T : Free(nil, T) /\ Under(nil, T) /\ Ordered(nil)
  BY <1>3 DEF Free, Under, Ordered
<1>7. Rich(b, nil, 0)
  BY <1>1, <1>4, <1>5, <1>6 DEF Rich, Tidy
<1> QED
  BY <1>1, <1>2, <1>3, <1>7 DEF Bears

(* What the summaries have to be for their results to stay.                    *)
AllAsked == \A summary \in Summaries : AsAsked(summary)

(* All of them, and what the invariant gives. *)
LEMMA BearsStep ==
  ASSUME AllAsked, CaseTypes, faithful /\ ~posed => Bears(lines, results, events), [CaseNext]_caseVars
  PROVE  faithful' /\ ~posed' => Bears(lines, results, events)'
<1> DEFINE J == Bears(lines, results, events)'
<1> SUFFICES ASSUME faithful', ~posed' PROVE J
  OBVIOUS
<1>1. faithful /\ ~posed
  <2>1. CASE UNCHANGED caseVars
    BY <2>1 DEF caseVars
  <2>2. ASSUME NEW s \in SectionSet, NEW shape \in NoteShapes, Note(s, shape) PROVE faithful /\ ~posed
    <3>1. faithful' = faithful /\ posed' = (posed \/ (s = "log" /\ shape \in {"a", "d"}))
      BY <2>2 DEF Note
    <3> QED
      BY <3>1
  <2>3. CASE Record
    BY <2>3 DEF Record
  <2>4. ASSUME NEW summary \in Summaries, Compaction(summary) PROVE faithful /\ ~posed
    <3>1. faithful' = faithful /\ posed' = posed
      BY <2>4 DEF Compaction
    <3> QED
      BY <3>1
  <2>5. ASSUME NEW reply \in Replies \cup {Asked(Shown)}, Shrink(reply) PROVE faithful /\ ~posed
    <3>1. faithful' = (faithful /\ reply = Asked(lines)) /\ posed' = posed
      BY <2>5 DEF Shrink
    <3> QED
      BY <3>1
  <2> QED
    BY <2>1, <2>2, <2>3, <2>4, <2>5 DEF CaseNext
<1>2. RichInv
  BY <1>1 DEF RichInv
<1>3. ASSUME NEW s \in SectionSet, NEW shape \in NoteShapes, Note(s, shape) PROVE J
  BY <1>2, <1>3, NoteBears
<1>4. CASE Record
  BY <1>2, <1>4, RecordBears
<1>5. ASSUME NEW summary \in Summaries, Compaction(summary) PROVE J
  <2>1. AsAsked(summary)
    BY DEF AllAsked
  <2> QED
    BY <1>2, <1>5, <2>1, CompactionBears
<1>6. CASE UNCHANGED caseVars
  BY <1>2, <1>6 DEF caseVars, RichInv
<1>7. ASSUME NEW reply \in Replies \cup {Asked(Shown)}, Shrink(reply) PROVE J
  BY <1>2, <1>7, ShrinkBears
<1> QED
  BY <1>3, <1>4, <1>5, <1>6, <1>7 DEF CaseNext

LEMMA BearsAll ==
  ASSUME Bears(lines, results, events)
  PROVE  Select(lines, ResultSet) = results
<1> DEFINE R == Members(results)
<1>1. /\ results \in Seq(Dated(events))
      /\ \E b \in Fronts, q \in Quotes : lines = Filed(b, q) /\ Rich(b, results, events)
  BY DEF Bears
<1>2. PICK b \in Fronts, q \in Quotes : lines = Filed(b, q) /\ Rich(b, results, events)
  BY <1>1
<1>3. R = ResultSet
  <2>1. DOMAIN results = 1..Len(results)
    BY <1>1, LenProperties
  <2> QED
    BY <2>1 DEF Members, ResultSet
<1>4. \A l \in R : l.shape = "text"
  <2>1. \A i \in 1..Len(results) : results[i] \in Dated(events)
    BY <1>1, ElementOfSeq
  <2> QED
    BY <2>1 DEF Members, Dated, Texts
<1>5. /\ \A s \in SectionSet \ {"log"} : Free(b[s], R)
      /\ Select(b["log"], R) = results
  BY <1>2 DEF Rich
<1>6. \A s \in SectionSet : b[s] \in Seq(Running)
  BY DEF Fronts
<1> HIDE DEF R
<1>7. (\A s \in SectionSet : Header(s) \notin R) /\ (\A l \in QuotedLines : l \notin R)
  BY <1>4, HeaderIs DEF QuotedLines, IsHeader
<1>8. ASSUME NEW s \in SectionSet \ {"log"} PROVE Select(b[s], R) = << >>
  <2>1. Free(b[s], R) /\ b[s] \in Seq(Running)
    BY <1>5, <1>6
  <2> QED
    BY <2>1, FreeNone
<1>9. Select(Filed(b, q), R) = Select(b["log"], R)
  BY <1>7, <1>8, FiledSelect
<1> QED
  BY <1>2, <1>3, <1>5, <1>9

(* Every line a summary listed under its facts and artifacts stays in the file,*)
(* once and in order, if the model keeps to the form SUMMARY_PROMPT asks for,  *)
(* until a rewrite loses something or a note in the Log begins like such a     *)
(* part; compactions prune, notes quote headers and begin like other parts.    *)
THEOREM ResultsAreKept == AllAsked /\ CaseSpec => []ResultsSurvive
<1> DEFINE B == Bears(lines, results, events)
           I == AllAsked /\ CaseInv /\ (faithful /\ ~posed => B)
<1>1. AllAsked /\ CaseInit => I
  BY CaseInitInv, InitBears
<1>2. I /\ [CaseNext]_caseVars => I'
  <2> SUFFICES ASSUME I, [CaseNext]_caseVars PROVE I'
    OBVIOUS
  <2>1. CaseInv'
    BY CaseStep
  <2>2. faithful' /\ ~posed' => B'
    <3>1. CaseTypes
      BY DEF CaseInv
    <3> QED
      BY <3>1, BearsStep
  <2>3. AllAsked'
    BY DEF AllAsked, AsAsked, PartHeads, IsHeading, Reported, HeadsBefore, LastIndex
  <2> QED
    BY <2>1, <2>2, <2>3
<1>3. I => ResultsSurvive
  BY BearsAll DEF ResultsSurvive
<1> HIDE DEF I
<1> QED
  BY <1>1, <1>2, <1>3, PTL DEF CaseSpec
=============================================================================
