----------------------------- MODULE SolveCheck -----------------------------
(* solve_check: the model's transform is run on symbolic inputs, z3 is asked   *)
(* for an input that maps to the target, and an answer is run again on plain   *)
(* integers.  A transform is any sequence of operations on an accumulator that *)
(* starts as the input; `sym` is what z3 believes it computes, in words of     *)
(* Modulus values, `py` what Python computes, without bound, for each input.   *)
(* One input value stands for the vector of bytes.  The operations & | ^ with  *)
(* a mask commute with % Modulus and are represented by Mask.                  *)
EXTENDS Integers, Sequences, FiniteSets

CONSTANTS
  Byte, Modulus,       \* 256 and 2^64
  Width,               \* Modulus = 2^Width
  Constants,           \* constants of transforms
  Tables,              \* lookup tables, sequences of constants
  Charsets,            \* the inputs that charsets allow
  MaxOps, MaxCalls     \* bounds: operations of all transforms, calls

ASSUME CheckAssumption ==
  /\ Byte \in Nat \ {0} /\ Width \in Nat \ {0}
  /\ Modulus \in Nat \ {0} /\ Modulus = 2 ^ Width /\ Width <= Modulus
  /\ Modulus % Byte = 0 /\ Modulus >= 2 * Byte
  /\ Constants \subseteq Nat /\ (\A c \in Constants : c < Modulus)
  /\ Tables \subseteq Seq(0..(Modulus - 1)) /\ Charsets \subseteq SUBSET (0..(Byte - 1))
  /\ MaxOps \in Nat /\ MaxCalls \in Nat

(* Of arithmetic, and true of every Modulus.                                   *)
ASSUME PowersAssumption == \A b \in 0..(Modulus - 1) : 2 ^ b \in Nat \ {0}

VARIABLES
  pc, timer,           \* "idle", "python", "z3", "recheck", "exited"; the alarm
  target, charset,     \* of the call; charset as the inputs it allows
  sym, py, fails,      \* values by input; inputs on which Python raises
  excluded,            \* inputs excluded by the bounds of table lookups (_TABLES)
  answer, status,      \* z3's model; the tool's verdict
  ops, calls,          \* operations so far, calls made
  exact, positive,     \* history: see Note
  swallowed            \* history: the transform has caught the alarm

vars == <<pc, timer, target, charset, sym, py, fails, excluded, answer, status,
          ops, calls, exact, positive, swallowed>>

Inputs == 0..(Byte - 1)
Words == 0..(Modulus - 1)
Kinds == {"add", "sub", "rsub", "mul", "mask", "shl", "shr", "div", "mod"}
Signed(a) == IF 2 * a >= Modulus THEN a - Modulus ELSE a

(* Sym's operators: z3's bit-vector arithmetic. *)
SymOp(kind, a, b) ==
  CASE kind = "add"  -> (a + b) % Modulus
    [] kind = "sub"  -> (a - b) % Modulus
    [] kind = "rsub" -> (b - a) % Modulus
    [] kind = "mul"  -> (a * b) % Modulus
    [] kind = "mask" -> a % Byte
    [] kind = "shl"  -> IF b >= Width THEN 0 ELSE (a * 2 ^ b) % Modulus
    [] kind = "shr"  -> IF b >= Width THEN 0 ELSE a \div 2 ^ b
    [] kind = "div"  -> IF b = 0 THEN Modulus - 1 ELSE a \div b
    [] kind = "mod"  -> LET sa == Signed(a)  sb == Signed(b)         \* bvsmod
                        IN  CASE sb = 0 -> a
                              [] sb > 0 -> sa % sb
                              [] sb < 0 -> (- ((- sa) % (- sb))) % Modulus

(* Python's operators on integers. *)
Raises(kind, b) == (kind \in {"div", "mod"} /\ b = 0) \/ (kind \in {"shl", "shr"} /\ b < 0)
PyOp(kind, a, b) ==
  CASE kind = "add"  -> a + b
    [] kind = "sub"  -> a - b
    [] kind = "rsub" -> b - a
    [] kind = "mul"  -> a * b
    [] kind = "mask" -> a % Byte
    [] kind = "shl"  -> a * 2 ^ b
    [] kind = "shr"  -> a \div 2 ^ b
    [] kind = "div"  -> a \div b
    [] kind = "mod"  -> a % b

Init ==
  /\ pc = "idle" /\ timer = "off" /\ target = 0 /\ charset = {}
  /\ sym = [x \in Inputs |-> x] /\ py = sym /\ fails = {} /\ excluded = {}
  /\ answer = 0 /\ status = "none" /\ ops = 0 /\ calls = 0
  /\ exact = TRUE /\ positive = TRUE /\ swallowed = FALSE

call == <<target, charset, calls>>
transform == <<sym, py, fails, excluded, ops, exact, positive>>

------------------------------------------------------------------------------
KeepsTables(t, cs) ==                          \* mutant: _TABLES is not cleared
  /\ pc = "idle" /\ calls < MaxCalls
  /\ pc' = "python" /\ timer' = "armed" /\ target' = t /\ charset' = cs
  /\ sym' = [x \in Inputs |-> x] /\ py' = sym' /\ fails' = {}
  /\ calls' = calls + 1 /\ exact' = TRUE /\ positive' = TRUE /\ swallowed' = FALSE
  /\ UNCHANGED <<ops, excluded, answer, status>>

(* _symbolic_solve: the tables of earlier calls are forgotten, the alarm armed. *)
Begin(t, cs) ==
  /\ pc = "idle" /\ calls < MaxCalls
  /\ pc' = "python" /\ timer' = "armed" /\ target' = t /\ charset' = cs
  /\ sym' = [x \in Inputs |-> x] /\ py' = sym' /\ fails' = {} /\ excluded' = {}
  /\ calls' = calls + 1 /\ exact' = TRUE /\ positive' = TRUE
  /\ swallowed' = FALSE
  /\ UNCHANGED <<ops, answer, status>>

(* The operand: a constant, or the input itself.                              *)
Itself == -1
Operand(c, x) == IF c = Itself THEN x ELSE c
Proper == Inputs \ fails
InWords(f) == \A x \in Proper : f[x] \in Words

(* What the tool's description asks for: shifts right, division, remainder and *)
(* lookups see values from 0 to Modulus - 1, and shifts are by less than the   *)
(* word.  `positive`: no remainder was taken of a word whose top bit is set.   *)
Note(kind, c) ==
  /\ exact' = (exact /\ (kind \in {"shr", "div", "mod", "table"} => InWords(py))
                     /\ (kind \in {"shl", "shr"} =>
                           \A x \in Proper : Operand(c, x) < Width))
  /\ positive' = (positive /\ (kind = "mod" =>
                     \A x \in Proper : 2 * py[x] < Modulus /\ 2 * Operand(c, x) < Modulus))

Apply(kind, c) ==
  /\ pc = "python" /\ ops < MaxOps /\ ops' = ops + 1
  /\ sym' = [x \in Inputs |-> SymOp(kind, sym[x], Operand(c, x))]
  /\ fails' = fails \cup {x \in Inputs : Raises(kind, Operand(c, x))}
  /\ py' = [x \in Inputs |-> IF x \in fails' THEN 0 ELSE PyOp(kind, py[x], Operand(c, x))]
  /\ Note(kind, c)
  /\ UNCHANGED <<pc, timer, call, excluded, answer, status, swallowed>>

(* Table.__getitem__: an index past the end is no solution; Python's lists     *)
(* also take indices from -Len to -1.                                          *)
Indexed(t, i) == IF i >= 0 THEN t[i + 1] ELSE t[Len(t) + i + 1]

Lookup(t) ==
  /\ pc = "python" /\ ops < MaxOps /\ ops' = ops + 1
  /\ excluded' = excluded \cup {x \in Inputs : sym[x] >= Len(t)}
  /\ fails' = fails \cup {x \in Inputs : py[x] \notin (- Len(t))..(Len(t) - 1)}
  /\ sym' = [x \in Inputs |-> IF sym[x] < Len(t) THEN t[sym[x] + 1] ELSE 0]
  /\ py' = [x \in Inputs |-> IF x \in fails' THEN 0 ELSE Indexed(t, py[x])]
  /\ Note("table", 0)
  /\ UNCHANGED <<pc, timer, call, answer, status, swallowed>>

End(s) == pc' = "idle" /\ timer' = "off" /\ status' = s /\ UNCHANGED <<call, transform>>

(* The file raises an Exception on import or on symbols, branches on a symbol, *)
(* or returns too little.                                                      *)
NotSymbolic ==
  /\ pc = "python" /\ End("error") /\ UNCHANGED <<answer, swallowed>>

(* The transform is done: the alarm is taken back before z3 is asked.          *)
AskZ3 ==
  /\ pc = "python" /\ pc' = "z3" /\ timer' = "off"
  /\ UNCHANGED <<call, transform, answer, status, swallowed>>

(* z3 answers about `sym`, under the constraints of charset and tables.        *)
Models == {x \in charset \ excluded : sym[x] % Byte = target}

Sat(x) ==
  /\ pc = "z3" /\ x \in Models
  /\ pc' = "recheck" /\ timer' = "armed" /\ answer' = x
  /\ UNCHANGED <<call, transform, status, swallowed>>

Unsat == pc = "z3" /\ Models = {} /\ End("unsat") /\ UNCHANGED <<answer, swallowed>>
Unknown == pc = "z3" /\ End("timeout") /\ UNCHANGED <<answer, swallowed>>

(* _concrete_matches.  What the transform returns for plain integers need not  *)
(* be integers, and int(v) stands outside the try: its exception leaves the    *)
(* tool without a verdict.                                                     *)
Matches(x) == x \notin fails /\ py[x] % Byte = target

TrustZ3 == pc = "recheck" /\ End("sat") /\ UNCHANGED <<answer, swallowed>>  \* mutant

Recheck ==
  /\ pc = "recheck"
  /\ End(IF Matches(answer) THEN "sat" ELSE "unverified") /\ UNCHANGED <<answer, swallowed>>

RecheckRaises ==
  /\ pc = "recheck" /\ End("tool error") /\ UNCHANGED <<answer, swallowed>>

(* SystemExit is no Exception: a file that exits, on import, on symbols or in  *)
(* the re-check, leaves the call and ends the program.                         *)
Exits ==
  /\ pc \in {"python", "recheck"} /\ pc' = "exited" /\ timer' = "off"
  /\ UNCHANGED <<call, transform, answer, status, swallowed>>

AlarmAsException ==                            \* mutant: `except Exception` catches it
  timer = "armed" /\ timer' = "off" /\ UNCHANGED <<pc, call, transform, answer, status, swallowed>>

(* The alarm goes off once.  It leaves the call unless the transform has a     *)
(* clause that catches every exception.                                        *)
Alarm ==
  /\ timer = "armed" /\ timer' = "off" /\ UNCHANGED answer
  /\ \/ End("timeout: transform") /\ UNCHANGED swallowed
     \/ swallowed' = TRUE /\ UNCHANGED <<pc, call, transform, status>>

Next ==
  \/ \E t \in Inputs, cs \in Charsets : Begin(t, cs)
  \/ \E kind \in Kinds, c \in Constants \cup {Itself} : Apply(kind, c)
  \/ \E t \in Tables : Lookup(t)
  \/ NotSymbolic \/ AskZ3 \/ (\E x \in Inputs : Sat(x)) \/ Unsat \/ Unknown
  \/ Recheck \/ RecheckRaises \/ Exits \/ Alarm

Spec == Init /\ [][Next]_vars

(* z3 has a timeout of its own; the transform may compute or loop for ever.    *)
FairSpec == Spec /\ WF_vars(Unsat \/ Unknown) /\ WF_vars(Alarm)

------------------------------------------------------------------------------
(* The state has its types; an alarm is pending only while the transform runs, *)
(* so it can never discard an answer of z3 (solve_check.py:71).                *)
TypeOK ==
  /\ pc \in {"idle", "python", "z3", "recheck", "exited"} /\ timer \in {"off", "armed"}
  /\ timer = "armed" => pc \in {"python", "recheck"}
  /\ target \in Inputs /\ charset \subseteq Inputs
  /\ sym \in [Inputs -> Words] /\ py \in [Inputs -> Int]
  /\ fails \subseteq Inputs /\ excluded \subseteq Inputs /\ answer \in Inputs
  /\ ops \in 0..MaxOps /\ calls \in 0..MaxCalls
  /\ exact \in BOOLEAN /\ positive \in BOOLEAN /\ swallowed \in BOOLEAN

(* "never as a wrong [sat]" (solve_check.py:12): whatever overflowed, [sat] is *)
(* only said of an input that Python maps to the target.                       *)
SatIsTrue == status = "sat" /\ pc = "idle" => Matches(answer)

(* [unsat] is true of Python when every shift right, division, remainder and   *)
(* lookup had operands in range and no remainder one with its top bit set,     *)
(* whatever sums, products, shifts left and negative values came in between.   *)
UnsatIsTrue ==
  status = "unsat" /\ pc = "idle" /\ exact /\ positive =>
    \A x \in charset : ~ Matches(x)

(* What solve_check.py:8-11 and the tool's description say: values are         *)
(* non-negative 64-bit integers and % follows Python.                          *)
UnsatAsDescribed ==
  status = "unsat" /\ pc = "idle" /\ exact /\ InWords(py) => \A x \in charset : ~ Matches(x)

(* Every call ends, in a verdict or with the program, also when the transform  *)
(* loops, unless the transform itself catches the alarm: it is not armed again *)
(* (solve_check.py:82).                                                        *)
CallEnds == (pc # "idle") ~> (pc \in {"idle", "exited"} \/ swallowed)
=============================================================================
