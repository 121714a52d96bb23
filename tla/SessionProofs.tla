--------------------------- MODULE SessionProofs ---------------------------
(* For any programs, flags, limits and number of calls: a runbook has evidence *)
(* behind it, the model is told of it, and saved outputs stay where it was     *)
(* pointed.                                                                    *)
EXTENDS ToolSession, FiniteSetTheorems, TLAPS

(* What was counted is what was seen: start_failures never exceeds the         *)
(* failures of this run, and an open gate stays open until the next run.       *)
Enough == Seen({"cannot"}) # {} \/ Cardinality(Seen(Failures)) >= BlockAt
EventInv ==
  /\ IsFiniteSet(events)
  /\ \A e \in events : e.call \in Nat /\ e.call <= calls
  /\ start_failures <= Cardinality(Seen(Failures))
  /\ env_blocked => Enough
  /\ runbook => env_blocked

(* The numbers of files the model was pointed to in this run have been given. *)
PointerInv ==
  \A q \in pointers : q[1] \in 1..out_counter /\ q[1] \in DOMAIN out /\ out[q[1]] = q[2]

Inv == TypeOK /\ EventInv /\ BlockedTargetsFailed /\ ModelIsTold /\ PointerInv

-----------------------------------------------------------------------------
(* The reply to a call, whatever the call. *)
LEMMA ReplyStep ==
  ASSUME TypeOK, PointerInv, NEW r, Reply(r)
  PROVE  /\ calls' = calls + 1 /\ calls' \in 0..MaxCalls
         /\ out_counter' \in Nat
         /\ PointerInv'
<1> USE SessionAssumption
<1>1. calls' = calls + 1 /\ calls' \in 0..MaxCalls
  BY DEF Reply, TypeOK
<1>2. CASE UNCHANGED <<out_counter, out, pointers>>
  BY <1>1, <1>2 DEF TypeOK, PointerInv
<1>3. CASE /\ out_counter' = NextId
           /\ out' = [i \in DOMAIN out \cup {NextId} |-> IF i = NextId THEN calls' ELSE out[i]]
           /\ pointers' = pointers \cup {<<NextId, calls'>>}
  <2>1. NextId = out_counter + 1 /\ out_counter \in Nat
    BY DEF NextId, TypeOK
  <2>2. ASSUME NEW q \in pointers
        PROVE  q[1] \in 1..out_counter' /\ q[1] \in DOMAIN out' /\ out'[q[1]] = q[2]
    <3>1. q[1] \in 1..out_counter /\ q[1] \in DOMAIN out /\ out[q[1]] = q[2]
      BY <2>2 DEF PointerInv
    <3>2. q[1] # NextId /\ q[1] \in 1..NextId
      BY <2>1, <3>1
    <3> QED
      BY <1>3, <3>1, <3>2
  <2>3. NextId \in 1..out_counter' /\ NextId \in DOMAIN out' /\ out'[NextId] = calls'
    BY <1>3, <2>1
  <2>4. PointerInv'
    <3>1. ASSUME NEW q \in pointers'
          PROVE  q[1] \in 1..out_counter' /\ q[1] \in DOMAIN out' /\ out'[q[1]] = q[2]
      <4>1. q \in pointers \/ q = <<NextId, calls'>>
        BY <1>3, <3>1
      <4>2. CASE q = <<NextId, calls'>>
        <5>1. q[1] = NextId /\ q[2] = calls'
          BY <4>2
        <5> QED
          BY <2>3, <5>1
      <4> QED
        BY <2>2, <4>1, <4>2
    <3> QED
      BY <3>1 DEF PointerInv
  <2> QED
    BY <1>1, <1>3, <2>1, <2>4
<1> QED
  BY <1>1, <1>2, <1>3 DEF Reply

(* A result with the note tells the model, however much of it is cut. *)
LEMMA ReplyTells ==
  ASSUME NEW long \in BOOLEAN, NEW quotes \in BOOLEAN, NEW note \in BOOLEAN,
         told \in BOOLEAN, Reply(Results(long, quotes, note))
  PROVE  told' = (told \/ note)
BY DEF Reply, Results, FooterKept

(* One more event: nothing seen is lost, and a failure counts. *)
LEMMA OneMoreEvent ==
  ASSUME TypeOK, EventInv, NEW p \in Targets \cup {NoTarget}, NEW o \in BinaryOutcomes \cup GuiOutcomes,
         events' = events \cup {[target |-> p, what |-> o, call |-> calls + 1]}
  PROVE  /\ IsFiniteSet(events')
         /\ \A e \in events' : e.call \in Nat /\ e.call <= calls + 1
         /\ Cardinality(Seen(Failures)) \in Nat /\ Cardinality(Seen(Failures)') \in Nat
         /\ Cardinality(Seen(Failures)') = Cardinality(Seen(Failures))
                                           + (IF o \in Failures THEN 1 ELSE 0)
         /\ \A what : Seen(what) \subseteq Seen(what)'
         /\ \A what : o \in what => \E e \in Seen(what)' : e.target = p
<1> DEFINE new == [target |-> p, what |-> o, call |-> calls + 1]
<1>1. calls \in Nat
  BY SessionAssumption DEF TypeOK
<1>2. new \notin events
  BY <1>1 DEF EventInv
<1>3. IsFiniteSet(events')
  BY FS_AddElement DEF EventInv
<1>4. \A e \in events' : e.call \in Nat /\ e.call <= calls + 1
  BY <1>1 DEF EventInv
<1>5. \A what : Seen(what)' = IF o \in what THEN Seen(what) \cup {new} ELSE Seen(what)
  BY DEF Seen
<1>6. IsFiniteSet(Seen(Failures)) /\ new \notin Seen(Failures)
  BY <1>2, FS_Subset DEF EventInv, Seen
<1>7. Cardinality(Seen(Failures)) \in Nat
  BY <1>6, FS_CardinalityType
<1> HIDE DEF new
<1>8. Cardinality(Seen(Failures) \cup {new}) = Cardinality(Seen(Failures)) + 1
  BY <1>6, FS_AddElement
<1>9. Cardinality(Seen(Failures)') = Cardinality(Seen(Failures))
                                     + (IF o \in Failures THEN 1 ELSE 0)
  <2>1. CASE o \in Failures
    <3>1. Seen(Failures)' = Seen(Failures) \cup {new}
      BY <1>5, <2>1
    <3> QED
      BY <1>8, <2>1, <3>1
  <2>2. CASE o \notin Failures
    <3>1. Seen(Failures)' = Seen(Failures)
      BY <1>5, <2>2
    <3> QED
      BY <1>7, <2>2, <3>1
  <2> QED
    BY <2>1, <2>2
<1>10. new.target = p
  BY DEF new
<1>11. \A what : o \in what => \E e \in Seen(what)' : e.target = p
  BY <1>5, <1>10
<1> QED
  BY <1>3, <1>4, <1>5, <1>7, <1>9, <1>11

(* What a run of a target does to the session: block_env, note_start_failure   *)
(* and record_blocked_path.                                                    *)
LEMMA ObserveStep ==
  ASSUME Inv, NEW p \in Targets \cup {NoTarget}, NEW o \in BinaryOutcomes \cup GuiOutcomes, Observe(p, o),
         calls' = calls + 1, UNCHANGED runbook, p = NoTarget => o \in {"cannot", "error"}
  PROVE  /\ EventInv' /\ BlockedTargetsFailed'
         /\ env_blocked' \in BOOLEAN /\ start_failures' \in Nat
         /\ env_blocked_paths' \subseteq Targets
         /\ UNCHANGED gui_tools
         /\ o = "error" => UNCHANGED env_blocked
<1> USE SessionAssumption DEF Inv
<1>0. p = NoTarget => o \notin Failures
  BY DEF Failures
<1>1. /\ calls \in Nat /\ start_failures \in Nat /\ env_blocked \in BOOLEAN
      /\ env_blocked_paths \subseteq Targets
  BY DEF TypeOK
<1>2. events' = events \cup {[target |-> p, what |-> o, call |-> calls + 1]}
  BY DEF Observe
<1>3. /\ IsFiniteSet(events')
      /\ \A e \in events' : e.call \in Nat /\ e.call <= calls + 1
      /\ Cardinality(Seen(Failures)) \in Nat /\ Cardinality(Seen(Failures)') \in Nat
      /\ Cardinality(Seen(Failures)') = Cardinality(Seen(Failures))
                                        + (IF o \in Failures THEN 1 ELSE 0)
      /\ \A what : Seen(what) \subseteq Seen(what)'
      /\ \A what : o \in what => \E e \in Seen(what)' : e.target = p
  BY <1>2, OneMoreEvent
<1>4. Enough => Enough'
  BY <1>3 DEF Enough
<1>5. ASSUME UNCHANGED <<env_blocked, env_blocked_paths>>
      PROVE  BlockedTargetsFailed'
  <2>1. Seen(Failures \cup {"cannot"}) \subseteq Seen(Failures \cup {"cannot"})'
    BY <1>3
  <2>2. \A t \in env_blocked_paths : \E e \in Seen(Failures \cup {"cannot"}) : e.target = t
    BY DEF BlockedTargetsFailed
  <2>3. \A t \in env_blocked_paths' : \E e \in Seen(Failures \cup {"cannot"})' : e.target = t
    BY <1>5, <2>1, <2>2
  <2>4. env_blocked' => \/ env_blocked_paths' # {}
                        \/ \E e \in Seen({"cannot"})' : e.target = NoTarget
    <3>1. Seen({"cannot"}) \subseteq Seen({"cannot"})'
      BY <1>3
    <3>2. env_blocked => \/ env_blocked_paths # {}
                        \/ \E e \in Seen({"cannot"}) : e.target = NoTarget
      BY DEF BlockedTargetsFailed
    <3> QED
      BY <1>5, <3>1, <3>2
  <2> QED
    BY <2>3, <2>4 DEF BlockedTargetsFailed
<1>6. ASSUME o \in Failures \cup {"cannot"}, p = NoTarget => o = "cannot",
             env_blocked_paths' = env_blocked_paths \cup ({p} \ {NoTarget})
      PROVE  BlockedTargetsFailed'
  <2>1. Seen(Failures \cup {"cannot"}) \subseteq Seen(Failures \cup {"cannot"})'
    BY <1>3
  <2>2. \E e \in Seen(Failures \cup {"cannot"})' : e.target = p
    BY <1>3, <1>6
  <2>3. \A t \in env_blocked_paths' : \E e \in Seen(Failures \cup {"cannot"})' : e.target = t
    BY <1>6, <2>1, <2>2 DEF BlockedTargetsFailed
  <2>4. \/ env_blocked_paths' # {}
        \/ \E e \in Seen({"cannot"})' : e.target = NoTarget
    <3>1. p = NoTarget => \E e \in Seen({"cannot"})' : e.target = NoTarget
      BY <1>3, <1>6
    <3> QED
      BY <1>6, <3>1
  <2> QED
    BY <2>3, <2>4 DEF BlockedTargetsFailed
<1>7. CASE o = "cannot" /\ block_env(p)
  <2>1. Seen({"cannot"})' # {}
    BY <1>3, <1>7
  <2>2. EventInv'
    <3>1. Enough' /\ UNCHANGED start_failures
      BY <1>7, <2>1 DEF Enough, block_env
    <3>2. start_failures' <= Cardinality(Seen(Failures)')
      <4>1. start_failures <= Cardinality(Seen(Failures)) /\ o \notin Failures
        BY <1>7 DEF EventInv, Failures
      <4> QED
        BY <1>1, <1>3, <3>1, <4>1
    <3> QED
      BY <1>3, <1>7, <3>1, <3>2 DEF EventInv, block_env
  <2> QED
    BY <1>1, <1>6, <1>7, <2>2 DEF block_env, record_blocked_path
<1>8. CASE o \in Failures /\ note_start_failure(p)
  <2>1. start_failures' = start_failures + 1 /\ start_failures <= Cardinality(Seen(Failures))
    BY <1>8 DEF note_start_failure, Strikes, EventInv
  <2>2. start_failures' <= Cardinality(Seen(Failures)')
    BY <1>1, <1>3, <1>8, <2>1
  <2>3. EnoughStrikes => Enough'
    BY <1>1, <1>3, <2>1, <2>2 DEF EnoughStrikes, Strikes, Enough
  <2>4. EventInv'
    <3>1. env_blocked' => Enough'
      BY <1>4, <1>8, <2>3 DEF EventInv, note_start_failure
    <3>2. runbook' => env_blocked'
      <4>1. env_blocked' = TRUE \/ env_blocked' = env_blocked
        BY <1>8 DEF note_start_failure
      <4>2. runbook => env_blocked
        BY DEF EventInv
      <4> QED
        <5>1. CASE env_blocked' = TRUE
          BY <5>1, Zenon
        <5>2. CASE env_blocked' = env_blocked
          BY <4>2, <5>2
        <5> QED
          BY <4>1, <5>1, <5>2, Zenon
    <3> QED
      BY <1>3, <2>2, <3>1, <3>2 DEF EventInv
  <2>5. BlockedTargetsFailed'
    BY <1>0, <1>5, <1>6, <1>8 DEF note_start_failure, record_blocked_path
  <2> QED
    <3>1. o # "error" /\ UNCHANGED gui_tools /\ start_failures' \in Nat
      <4>1. o # "error"
        BY <1>8 DEF Failures
      <4>2. UNCHANGED gui_tools
        BY <1>8 DEF note_start_failure
      <4> QED
        BY <1>1, <2>1, <4>1, <4>2
    <3>2. env_blocked' \in BOOLEAN /\ env_blocked_paths' \subseteq Targets
      <4>1. \/ env_blocked' = TRUE
               /\ env_blocked_paths' = env_blocked_paths \cup ({p} \ {NoTarget})
            \/ env_blocked' = env_blocked /\ env_blocked_paths' = env_blocked_paths
        BY <1>8 DEF note_start_failure, record_blocked_path
      <4> QED
        BY <1>1, <4>1
    <3> QED
      BY <2>4, <2>5, <3>1, <3>2
<1>9. CASE o \in {"ran", "error"} /\ UNCHANGED environment
  <2>1. EventInv'
    <3>1. /\ start_failures' = start_failures /\ env_blocked' = env_blocked
          /\ runbook' = runbook /\ o \notin Failures
      BY <1>9 DEF environment, Failures
    <3>2. start_failures <= Cardinality(Seen(Failures))
      BY DEF EventInv
    <3>3. start_failures' <= Cardinality(Seen(Failures)')
      BY <1>1, <1>3, <3>1, <3>2
    <3>4. (env_blocked' => Enough') /\ (runbook' => env_blocked')
      <4>1. (env_blocked => Enough) /\ (runbook => env_blocked)
        BY DEF EventInv
      <4> QED
        BY <1>4, <3>1, <4>1
    <3> QED
      BY <1>3, <3>3, <3>4 DEF EventInv
  <2> QED
    BY <1>1, <1>5, <1>9, <2>1 DEF environment
<1> QED
  BY <1>7, <1>8, <1>9 DEF Observe

(* A call that is neither of a target nor a tool that ends the session. *)
LEMMA QuietCall ==
  ASSUME Inv, UNCHANGED <<environment, events>>, calls' \in Nat, calls' >= calls,
         runbook' => env_blocked
  PROVE  EventInv' /\ BlockedTargetsFailed'
<1> USE DEF Inv
<1>1. /\ start_failures' = start_failures /\ env_blocked' = env_blocked
      /\ env_blocked_paths' = env_blocked_paths /\ events' = events
  BY DEF environment
<1>2. \A what : Seen(what)' = Seen(what)
  BY <1>1 DEF Seen
<1>3. BlockedTargetsFailed'
  BY <1>1, <1>2 DEF BlockedTargetsFailed
<1>4. calls \in Nat
  BY SessionAssumption DEF TypeOK
<1>5. \A e \in events' : e.call \in Nat /\ e.call <= calls'
  BY <1>1, <1>4 DEF EventInv
<1>6. /\ IsFiniteSet(events')
      /\ start_failures' <= Cardinality(Seen(Failures)')
  BY <1>1, <1>2 DEF EventInv
<1>7. env_blocked' => Enough'
  BY <1>1, <1>2 DEF EventInv, Enough
<1>8. runbook' => env_blocked'
  BY <1>1
<1> QED
  BY <1>3, <1>5, <1>6, <1>7, <1>8 DEF EventInv

LEMMA InitInv == Init => Inv
<1> SUFFICES ASSUME Init PROVE Inv
  OBVIOUS
<1> USE SessionAssumption DEF Init
<1>1. Seen(Failures) = {} /\ Cardinality(Seen(Failures)) = 0
  BY FS_EmptySet DEF Seen
<1>2. TypeOK
  <2>1. flag = {} /\ Cardinality(flag) = 0
    BY FS_EmptySet
  <2>2. flag_attempts \in [Flags -> 0..SameFlagLimit]
    OBVIOUS
  <2>3. calls \in 0..MaxCalls
    OBVIOUS
  <2>4. env_blocked \in BOOLEAN /\ runbook \in BOOLEAN /\ told \in BOOLEAN
    OBVIOUS
  <2> QED
    BY <2>1, <2>2, <2>3, <2>4 DEF TypeOK
<1>3. EventInv
  BY <1>1, FS_EmptySet DEF EventInv
<1>4. BlockedTargetsFailed /\ ModelIsTold /\ PointerInv
  BY DEF BlockedTargetsFailed, ModelIsTold, PointerInv
<1> QED
  BY <1>2, <1>3, <1>4 DEF Inv

(* run_binary and run_gui are alike in what they leave behind. *)
LEMMA TargetCall ==
  ASSUME Inv, NEW p \in Targets \cup {NoTarget}, NEW o \in BinaryOutcomes \cup GuiOutcomes,
         p = NoTarget => o \in {"cannot", "error"}, NEW long \in BOOLEAN, NEW quotes \in BOOLEAN, NEW note \in BOOLEAN,
         Observe(p, o), Reply(Results(long, quotes, note)), UNCHANGED ending,
         o # "error" => note = env_blocked'
  PROVE  Inv'
<1> USE DEF Inv
<1>1. /\ calls' = calls + 1 /\ calls' \in 0..MaxCalls /\ out_counter' \in Nat
      /\ PointerInv'
  BY ReplyStep
<1>2. /\ flag_attempts' = flag_attempts /\ flag' = flag /\ runbook' = runbook
  BY DEF ending
<1>3. /\ EventInv' /\ BlockedTargetsFailed'
      /\ env_blocked' \in BOOLEAN /\ start_failures' \in Nat
      /\ env_blocked_paths' \subseteq Targets
      /\ o = "error" => UNCHANGED env_blocked
  BY <1>1, <1>2, ObserveStep
<1>4. told \in BOOLEAN
  BY DEF TypeOK
<1>5. told' = (told \/ note)
  BY <1>4, ReplyTells
<1>6. told' \in BOOLEAN
  BY <1>5
<1>7. ModelIsTold'
  <2>1. CASE o = "error"
    BY <1>3, <1>5, <2>1 DEF ModelIsTold
  <2>2. CASE o # "error"
    BY <1>5, <2>2 DEF ModelIsTold
  <2> QED
    BY <2>1, <2>2
<1>8. TypeOK'
  <2>1. flag_attempts' \in [Flags -> 0..SameFlagLimit] /\ runbook' \in BOOLEAN
    BY <1>2 DEF TypeOK
  <2>2. flag' \subseteq Flags /\ Cardinality(flag') <= 1
    BY <1>2 DEF TypeOK
  <2> QED
    BY <1>1, <1>3, <1>6, <2>1, <2>2 DEF TypeOK
<1> QED
  BY <1>1, <1>3, <1>7, <1>8

(* So are the calls that say nothing of the environment. *)
LEMMA OtherCall ==
  ASSUME Inv, NEW long \in BOOLEAN, NEW quotes \in BOOLEAN,
         Reply(Results(long, quotes, FALSE)), UNCHANGED <<environment, events>>,
         flag_attempts' \in [Flags -> 0..SameFlagLimit],
         flag' \subseteq Flags, Cardinality(flag') <= 1,
         runbook' \in BOOLEAN, runbook' => env_blocked
  PROVE  Inv'
<1> USE DEF Inv
<1>1. /\ calls' = calls + 1 /\ calls' \in 0..MaxCalls /\ out_counter' \in Nat
      /\ PointerInv'
  BY ReplyStep
<1>2. /\ start_failures' = start_failures /\ env_blocked' = env_blocked
      /\ env_blocked_paths' = env_blocked_paths
  BY DEF environment
<1>3. calls' \in Nat /\ calls' >= calls
  BY <1>1, SessionAssumption DEF TypeOK
<1>4. EventInv' /\ BlockedTargetsFailed'
  BY <1>3, QuietCall
<1>5. told \in BOOLEAN
  BY DEF TypeOK
<1>6. told' = told
  BY <1>5, ReplyTells
<1>7. ModelIsTold'
  BY <1>2, <1>6 DEF ModelIsTold
<1>8. TypeOK'
  <2>1. /\ env_blocked' \in BOOLEAN /\ start_failures' \in Nat
        /\ env_blocked_paths' \subseteq Targets
    BY <1>2 DEF TypeOK
  <2>2. told' \in BOOLEAN
    BY <1>5, <1>6
  <2> QED
    BY <1>1, <2>1, <2>2 DEF TypeOK
<1> QED
  BY <1>1, <1>4, <1>7, <1>8

LEMMA NextInv == Inv /\ [Next]_vars => Inv'
<1> SUFFICES ASSUME Inv, [Next]_vars PROVE Inv'
  OBVIOUS
<1> USE SessionAssumption
<1>1. CASE UNCHANGED vars
  <2>1. EventInv' /\ BlockedTargetsFailed'
    BY <1>1, QuietCall DEF vars, environment, Inv, TypeOK, EventInv
  <2>2. TypeOK'
    BY <1>1 DEF vars, Inv, TypeOK
  <2>3. ModelIsTold' /\ PointerInv'
    BY <1>1 DEF vars, Inv, ModelIsTold, PointerInv
  <2> QED
    BY <2>1, <2>2, <2>3 DEF Inv
<1>2. ASSUME NEW p \in Targets, NEW o \in BinaryOutcomes, NEW long \in BOOLEAN,
             NEW quotes \in BOOLEAN, RunBinary(p, o, long, quotes)
      PROVE  Inv'
  <2>1. /\ Observe(p, o) /\ Reply(Results(long, quotes, env_blocked')) /\ UNCHANGED ending
    BY <1>2 DEF RunBinary
  <2>2. calls' = calls + 1 /\ runbook' = runbook
    BY <2>1, ReplyStep DEF Inv, ending
  <2>3. env_blocked' \in BOOLEAN
    BY <2>1, <2>2, ObserveStep
  <2>4. CASE env_blocked' = TRUE
    <3>1. Reply(Results(long, quotes, TRUE))
      BY <2>1, <2>4
    <3> QED
      BY <2>1, <2>4, <3>1, TargetCall
  <2>5. CASE env_blocked' = FALSE
    <3>1. Reply(Results(long, quotes, FALSE))
      BY <2>1, <2>5
    <3> QED
      BY <2>1, <2>5, <3>1, TargetCall
  <2> QED
    BY <2>3, <2>4, <2>5
<1>3. ASSUME NEW p \in Targets \cup {NoTarget}, NEW o \in GuiOutcomes, NEW long \in BOOLEAN,
             NEW quotes \in BOOLEAN, RunGui(p, o, long, quotes)
      PROVE  Inv'
  <2>1. /\ Observe(p, o) /\ Reply(Results(long, quotes, env_blocked' /\ o # "error"))
        /\ UNCHANGED ending
        /\ p = NoTarget => o \in {"cannot", "error"}
    BY <1>3 DEF RunGui
  <2>2. calls' = calls + 1 /\ runbook' = runbook
    BY <2>1, ReplyStep DEF Inv, ending
  <2>3. env_blocked' \in BOOLEAN
    BY <2>1, <2>2, ObserveStep
  <2>4. CASE env_blocked' = TRUE /\ o # "error"
    <3>1. Reply(Results(long, quotes, TRUE))
      BY <2>1, <2>4
    <3> QED
      BY <2>1, <2>4, <3>1, TargetCall
  <2>5. CASE ~(env_blocked' = TRUE /\ o # "error")
    <3>1. (env_blocked' /\ o # "error") = FALSE
      BY <2>3, <2>5
    <3>2. Reply(Results(long, quotes, FALSE))
      BY <2>1, <3>1
    <3>3. o # "error" => env_blocked' = FALSE
      BY <2>3, <2>5
    <3> QED
      BY <2>1, <3>2, <3>3, TargetCall
  <2> QED
    BY <2>4, <2>5
<1>4. ASSUME NEW long \in BOOLEAN, NEW quotes \in BOOLEAN, OtherTool(long, quotes)
      PROVE  Inv'
  BY <1>4, OtherCall DEF OtherTool, ending, Inv, TypeOK, EventInv
<1>5. ASSUME NEW f \in Flags, NEW e \in Evidence, NEW n \in 1..2, SubmitFlag(f, e, n)
      PROVE  Inv'
  <2>1. /\ Reply(Results(FALSE, FALSE, FALSE)) /\ UNCHANGED <<environment, events>>
        /\ runbook' = runbook
    BY <1>5 DEF SubmitFlag
  <2>2. flag_attempts' \in [Flags -> 0..SameFlagLimit]
    BY <1>5 DEF SubmitFlag, MayTryAgain, Inv, TypeOK
  <2>3. flag' \subseteq Flags /\ Cardinality(flag') <= 1
    <3>1. Cardinality({f}) = 1
      BY FS_Singleton
    <3>2. flag' = flag \/ flag' = {f}
      BY <1>5 DEF SubmitFlag
    <3>3. flag \subseteq Flags /\ Cardinality(flag) <= 1
      BY DEF Inv, TypeOK
    <3> QED
      BY <3>1, <3>2, <3>3
  <2>4. runbook' \in BOOLEAN /\ (runbook' => env_blocked)
    BY <2>1 DEF Inv, TypeOK, EventInv
  <2> QED
    BY <2>1, <2>2, <2>3, <2>4, OtherCall
<1>6. CASE SubmitRejected
  BY <1>6, OtherCall DEF SubmitRejected, ending, Inv, TypeOK, EventInv
<1>7. ASSUME NEW steps \in BOOLEAN, HandoffRunbook(steps)
      PROVE  Inv'
  <2>1. /\ Reply(Results(FALSE, FALSE, FALSE)) /\ UNCHANGED <<environment, events>>
        /\ flag_attempts' = flag_attempts /\ flag' = flag
    BY <1>7 DEF HandoffRunbook
  <2>2. runbook' \in BOOLEAN /\ (runbook' => env_blocked)
    BY <1>7 DEF HandoffRunbook
  <2>3. /\ flag_attempts' \in [Flags -> 0..SameFlagLimit]
        /\ flag' \subseteq Flags /\ Cardinality(flag') <= 1
    BY <2>1 DEF Inv, TypeOK
  <2> QED
    BY <2>1, <2>2, <2>3, OtherCall
<1>8. CASE NewRun
  <2>1. Seen(Failures)' = {} /\ Cardinality(Seen(Failures)') = 0
    BY <1>8, FS_EmptySet DEF NewRun, Seen
  <2>2. Cardinality(flag') = 0 /\ flag' = {}
    BY <1>8, FS_EmptySet DEF NewRun
  <2>3. TypeOK'
    <3>1. flag_attempts' \in [Flags -> 0..SameFlagLimit]
      BY <1>8 DEF NewRun
    <3>2. calls' \in 0..MaxCalls
      BY <1>8 DEF NewRun, Inv, TypeOK
    <3>3. env_blocked' \in BOOLEAN /\ runbook' \in BOOLEAN /\ told' \in BOOLEAN
      BY <1>8 DEF NewRun
    <3>4. start_failures' \in Nat /\ env_blocked_paths' \subseteq Targets /\ out_counter' \in Nat
      BY <1>8 DEF NewRun
    <3> QED
      BY <2>2, <3>1, <3>2, <3>3, <3>4 DEF TypeOK
  <2>4. EventInv'
    BY <1>8, <2>1, FS_EmptySet DEF NewRun, EventInv
  <2>5. BlockedTargetsFailed' /\ ModelIsTold' /\ PointerInv'
    BY <1>8 DEF NewRun, BlockedTargetsFailed, ModelIsTold, PointerInv
  <2> QED
    BY <2>3, <2>4, <2>5 DEF Inv
<1> QED
  BY <1>1, <1>2, <1>3, <1>4, <1>5, <1>6, <1>7, <1>8 DEF Next

-----------------------------------------------------------------------------
LEMMA Invariance == Spec => []Inv
BY InitInv, NextInv, PTL DEF Spec

(* The session's state keeps its types: no flag is turned down with advice     *)
(* more often than SameFlagLimit, and at most one is accepted (submit_flag).   *)
THEOREM TypeCorrect == Spec => []TypeOK
<1>1. Inv => TypeOK
  BY DEF Inv
<1> QED
  BY Invariance, <1>1, PTL

(* handoff_runbook writes only after a refusal or BlockAt failed starts in     *)
(* this run.                                                                   *)
THEOREM RunbooksHaveEvidence == Spec => []RunbookHasEvidence
<1>1. Inv => RunbookHasEvidence
  BY DEF Inv, EventInv, Enough, RunbookHasEvidence
<1> QED
  BY Invariance, <1>1, PTL

(* The programs the runbook names did fail to start, and it names one at least *)
(* unless a call without a path was refused (record_blocked_path).             *)
THEOREM BlockedTargetsDidFail == Spec => []BlockedTargetsFailed
<1>1. Inv => BlockedTargetsFailed
  BY DEF Inv
<1> QED
  BY Invariance, <1>1, PTL

(* truncate never drops the note: the model knows of an open gate.             *)
THEOREM NoteReachesModel == Spec => []ModelIsTold
<1>1. Inv => ModelIsTold
  BY DEF Inv
<1> QED
  BY Invariance, <1>1, PTL

(* next_out_id numbers outputs so that no pointer of a run is overwritten in   *)
(* that run, whatever files were there before.                                 *)
THEOREM PointersStayIntact == Spec => []PointersIntact
<1>1. Inv => PointersIntact
  BY DEF Inv, PointerInv, PointersIntact
<1> QED
  BY Invariance, <1>1, PTL
=============================================================================
