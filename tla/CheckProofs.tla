----------------------------- MODULE CheckProofs -----------------------------
(* For words and bytes of any size, transforms of any length, and any tables   *)
(* and charsets: solve_check's [sat] is always true of Python, and its [unsat] *)
(* where the transform keeps to what the tool asks.  The remainders of sums,   *)
(* differences and products come first, then one operation, then the steps.    *)
EXTENDS SolveCheck, TLAPS

LEMMA ModParts ==
  ASSUME NEW m \in Nat \ {0}, NEW a \in Int
  PROVE  /\ a % m \in 0..(m - 1) /\ a \div m \in Int
         /\ a = m * (a \div m) + (a % m)
OBVIOUS

LEMMA Strict ==
  ASSUME NEW m \in Nat \ {0}, NEW d \in Int, - m < m * d, m * d < m
  PROVE  d = 0
<1>1. d >= 1 => m * d >= m
  OBVIOUS
<1>2. d <= -1 => m * d <= - m
  OBVIOUS
<1> QED
  BY <1>1, <1>2

LEMMA ModUnique ==
  ASSUME NEW m \in Nat \ {0}, NEW a \in Int, NEW q \in Int, NEW r \in 0..(m - 1), a = m * q + r
  PROVE  a % m = r
<1> DEFINE p == a \div m  s == a % m
<1>1. s \in 0..(m - 1) /\ p \in Int /\ a = m * p + s
  BY ModParts
<1> HIDE DEF p, s
<1>2. m * (p - q) = r - s
  BY <1>1
<1>3. - m < r - s /\ r - s < m
  BY <1>1
<1>4. p - q = 0
  BY <1>1, <1>2, <1>3, Strict
<1>5. s = r
  BY <1>1, <1>4
<1> QED
  BY <1>5 DEF s

LEMMA ModAdd ==
  ASSUME NEW m \in Nat \ {0}, NEW a \in Int, NEW b \in Int
  PROVE  ((a % m) + b) % m = (a + b) % m
<1> DEFINE q == a \div m  r == a % m  s == r + b  p == s \div m  t == s % m
<1>1. r \in 0..(m - 1) /\ q \in Int /\ a = m * q + r
  BY ModParts
<1>2. t \in 0..(m - 1) /\ p \in Int /\ s = m * p + t
  <2>1. s \in Int
    BY <1>1
  <2> HIDE DEF s
  <2> QED
    BY <2>1, ModParts
<1>3. s = r + b /\ ((a % m) + b) % m = t
  OBVIOUS
<1> HIDE DEF q, r, s, p, t
<1>4. a + b = m * (q + p) + t
  BY <1>1, <1>2, <1>3
<1>5. q + p \in Int /\ a + b \in Int
  BY <1>1, <1>2
<1>6. (a + b) % m = t
  BY <1>2, <1>4, <1>5, ModUnique
<1> QED
  BY <1>3, <1>6

LEMMA IntTimes ==
  ASSUME NEW a \in Int, NEW b \in Nat \ {0}
  PROVE  a * b \in Int
OBVIOUS

LEMMA ModSmall ==
  ASSUME NEW m \in Nat \ {0}, NEW a \in 0..(m - 1)
  PROVE  a % m = a
<1>1. a = m * 0 + a
  OBVIOUS
<1> QED
  BY <1>1, ModUnique

LEMMA ModSub ==
  ASSUME NEW m \in Nat \ {0}, NEW a \in Int, NEW b \in Int
  PROVE  ((a % m) - b) % m = (a - b) % m
<1>1. PICK c \in Int : c = - b
  OBVIOUS
<1>2. ((a % m) + c) % m = (a + c) % m
  BY ModAdd
<1>3. (a % m) + c = (a % m) - b /\ a + c = a - b
  BY <1>1, ModParts
<1> QED
  BY <1>2, <1>3, Zenon

LEMMA ModMinus ==
  ASSUME NEW m \in Nat \ {0}, NEW a \in Int, NEW b \in Int
  PROVE  (b - (a % m)) % m = (b - a) % m
<1> DEFINE q == a \div m  r == a % m  s == b - r  p == s \div m  t == s % m
<1>1. r \in 0..(m - 1) /\ q \in Int /\ a = m * q + r
  BY ModParts
<1>2. t \in 0..(m - 1) /\ p \in Int /\ s = m * p + t
  <2>1. s \in Int
    BY <1>1
  <2> HIDE DEF s
  <2> QED
    BY <2>1, ModParts
<1>3. s = b - r /\ (b - (a % m)) % m = t
  OBVIOUS
<1> HIDE DEF q, r, s, p, t
<1>4. b - a = m * (p - q) + t
  BY <1>1, <1>2, <1>3
<1>5. p - q \in Int /\ b - a \in Int
  BY <1>1, <1>2
<1>6. (b - a) % m = t
  BY <1>2, <1>4, <1>5, ModUnique
<1> QED
  BY <1>3, <1>6

LEMMA ModTimes ==
  ASSUME NEW m \in Nat \ {0}, NEW a \in Int, NEW b \in Int
  PROVE  ((a % m) * b) % m = (a * b) % m
<1> DEFINE q == a \div m  r == a % m  s == r * b  p == s \div m  t == s % m
<1>1. r \in 0..(m - 1) /\ q \in Int /\ a = m * q + r
  BY ModParts
<1>2. t \in 0..(m - 1) /\ p \in Int /\ s = m * p + t
  <2>1. s \in Int
    BY <1>1
  <2> HIDE DEF s
  <2> QED
    BY <2>1, ModParts
<1>3. s = r * b /\ ((a % m) * b) % m = t
  OBVIOUS
<1> HIDE DEF q, r, s, p, t
<1>4. a * b = m * (q * b) + r * b
  BY <1>1
<1>5. q * b \in Int /\ a * b \in Int
  BY <1>1
<1>6. a * b = m * (q * b + p) + t
  BY <1>2, <1>3, <1>4, <1>5
<1>7. (a * b) % m = t
  <2>1. q * b + p \in Int
    BY <1>2, <1>5
  <2> QED
    BY <1>2, <1>5, <1>6, <2>1, ModUnique
<1> QED
  BY <1>3, <1>7

LEMMA ModMod ==
  ASSUME NEW m \in Nat \ {0}, NEW n \in Nat \ {0}, m % n = 0, NEW a \in Int
  PROVE  (a % m) % n = a % n
<1> DEFINE q == a \div m  r == a % m  k == m \div n  p == r \div n  t == r % n
<1>1. r \in 0..(m - 1) /\ q \in Int /\ a = m * q + r
  BY ModParts
<1>2. k \in Int /\ m = n * k
  BY ModParts
<1>3. t \in 0..(n - 1) /\ p \in Int /\ r = n * p + t
  <2>1. r \in Int
    BY <1>1
  <2> HIDE DEF r
  <2> QED
    BY <2>1, ModParts
<1>4. (a % m) % n = t
  OBVIOUS
<1> HIDE DEF q, r, k, p, t
<1>5. m * q = n * (k * q) /\ k * q \in Int
  BY <1>1, <1>2
<1>6. a = n * (k * q + p) + t /\ k * q + p \in Int
  BY <1>1, <1>3, <1>5
<1>7. a % n = t
  BY <1>3, <1>6, ModUnique
<1> QED
  BY <1>4, <1>7

LEMMA DivSmall ==
  ASSUME NEW m \in Nat \ {0}, NEW a \in 0..(m - 1), NEW b \in Nat \ {0}
  PROVE  a \div b \in 0..(m - 1)
<1> DEFINE q == a \div b  r == a % b
<1>1. r \in 0..(b - 1) /\ q \in Int /\ a = b * q + r
  BY ModParts
<1> HIDE DEF q, r
<1>2. q >= 0
  <2>1. q <= -1 => b * q <= - b
    BY <1>1
  <2> QED
    BY <1>1, <2>1
<1>3. q <= b * q
  BY <1>1, <1>2
<1>4. q \in 0..(m - 1)
  BY <1>1, <1>2, <1>3
<1> QED
  BY <1>4 DEF q

------------------------------------------------------------------------------
LEMMA Sizes ==
  /\ Byte \in Nat \ {0} /\ Modulus \in Nat \ {0} /\ Width \in Nat \ {0}
  /\ Modulus % Byte = 0 /\ Byte <= Modulus /\ Width <= Modulus
  /\ Inputs \subseteq Words /\ Inputs \subseteq Int /\ Words \subseteq Int
<1>1. Byte \in Nat \ {0} /\ Width \in Nat \ {0} /\ Modulus % Byte = 0 /\ Modulus >= 2 * Byte
      /\ Width <= Modulus
  BY CheckAssumption
<1>2. Modulus \in Nat \ {0}
  BY CheckAssumption
<1> QED
  BY <1>1, <1>2 DEF Inputs, Words

(* One operation: where its operands are as the tool asks, z3's word is        *)
(* Python's integer modulo the size of a word.                                 *)
LEMMA OpAgrees ==
  ASSUME NEW kind \in Kinds, NEW a \in Int, NEW o \in Words, ~ Raises(kind, o),
         kind \in {"shl", "shr"} => o < Width,
         kind \in {"shr", "div", "mod"} => a \in Words,
         kind = "mod" => 2 * a < Modulus /\ 2 * o < Modulus
  PROVE  /\ PyOp(kind, a, o) \in Int
         /\ SymOp(kind, a % Modulus, o) = PyOp(kind, a, o) % Modulus
<1> DEFINE M == Modulus  sa == a % M
<1>0. /\ M \in Nat \ {0} /\ o \in Int /\ o >= 0 /\ a \in Int /\ sa \in 0..(M - 1)
      /\ Byte \in Nat \ {0}
  BY Sizes, ModParts DEF Words
<1>1. CASE kind = "add"
  <2>1. SymOp(kind, sa, o) = (sa + o) % M /\ PyOp(kind, a, o) = a + o
    BY <1>1 DEF SymOp, PyOp
  <2> QED
    <3>0. (sa + o) % M = (a + o) % M
      BY <1>0, ModAdd
    <3>1. PyOp(kind, a, o) \in Int
      BY <1>0, <2>1
    <3>2. SymOp(kind, sa, o) = PyOp(kind, a, o) % M
      BY <2>1, <3>0, Zenon
    <3> QED
      BY <3>1, <3>2
<1>2. CASE kind = "sub"
  <2>1. SymOp(kind, sa, o) = (sa - o) % M /\ PyOp(kind, a, o) = a - o
    BY <1>2 DEF SymOp, PyOp
  <2>2. (sa - o) % M = (a - o) % M
    BY <1>0, ModSub
  <2> QED
    <3>1. PyOp(kind, a, o) \in Int
      BY <1>0, <2>1
    <3>2. SymOp(kind, sa, o) = PyOp(kind, a, o) % M
      BY <2>1, <2>2, Zenon
    <3> QED
      BY <3>1, <3>2
<1>3. CASE kind = "rsub"
  <2>1. SymOp(kind, sa, o) = (o - sa) % M /\ PyOp(kind, a, o) = o - a
    BY <1>3 DEF SymOp, PyOp
  <2> QED
    <3>0. (o - sa) % M = (o - a) % M
      BY <1>0, ModMinus
    <3>1. PyOp(kind, a, o) \in Int
      BY <1>0, <2>1
    <3>2. SymOp(kind, sa, o) = PyOp(kind, a, o) % M
      BY <2>1, <3>0, Zenon
    <3> QED
      BY <3>1, <3>2
<1>4. CASE kind = "mul"
  <2>1. SymOp(kind, sa, o) = (sa * o) % M /\ PyOp(kind, a, o) = a * o
    BY <1>4 DEF SymOp, PyOp
  <2> QED
    <3>0. (sa * o) % M = (a * o) % M
      BY <1>0, ModTimes
    <3>1. PyOp(kind, a, o) \in Int
      BY <1>0, <2>1
    <3>2. SymOp(kind, sa, o) = PyOp(kind, a, o) % M
      BY <2>1, <3>0, Zenon
    <3> QED
      BY <3>1, <3>2
<1>5. CASE kind = "mask"
  <2>1. SymOp(kind, sa, o) = sa % Byte /\ PyOp(kind, a, o) = a % Byte
    BY <1>5 DEF SymOp, PyOp
  <2>2. sa % Byte = a % Byte
    BY <1>0, Sizes, ModMod
  <2>3. a % Byte \in 0..(M - 1)
    <3>1. a % Byte \in 0..(Byte - 1)
      BY <1>0, ModParts
    <3> QED
      BY <1>0, <3>1, Sizes
  <2>4. (a % Byte) % M = a % Byte
    BY <1>0, <2>3, ModSmall
  <2> QED
    BY <1>0, <2>1, <2>2, <2>3, <2>4
<1>6. CASE kind = "shl"
  <2>1. o < Width /\ o \in 0..(Width - 1)
    BY <1>0, <1>6, Sizes
  <2> DEFINE p == 2 ^ o
  <2>2. p \in Nat \ {0}
    BY PowersAssumption DEF Words
  <2>3. SymOp(kind, sa, o) = (sa * p) % M /\ PyOp(kind, a, o) = a * p
    BY <1>0, <1>6, <2>1, Sizes DEF SymOp, PyOp
  <2> HIDE DEF p
  <2> QED
    <3>1. (sa * p) % M = (a * p) % M
      <4>1. p \in Int
        BY <2>2
      <4> QED
        BY <1>0, <4>1, ModTimes
    <3>2. SymOp(kind, sa, o) = PyOp(kind, a, o) % M
      BY <2>3, <3>1, Zenon
    <3>3. a * p \in Int
      BY <1>0, <2>2, IntTimes
    <3> QED
      BY <2>3, <3>2, <3>3, Zenon
<1>7. CASE kind = "shr"
  <2>1. o < Width /\ o \in 0..(Width - 1)
    BY <1>0, <1>7, Sizes
  <2> DEFINE p == 2 ^ o
  <2>2. p \in Nat \ {0}
    BY PowersAssumption DEF Words
  <2>3. SymOp(kind, sa, o) = sa \div p /\ PyOp(kind, a, o) = a \div p
    BY <1>0, <1>7, <2>1, Sizes DEF SymOp, PyOp
  <2> HIDE DEF p
  <2>4. a \in 0..(M - 1) /\ sa = a
    BY <1>0, <1>7, ModSmall DEF Words
  <2>5. a \div p \in 0..(M - 1)
    BY <1>0, <2>2, <2>4, DivSmall
  <2>6. (a \div p) % M = a \div p
    BY <1>0, <2>5, ModSmall
  <2> QED
    BY <1>0, <2>3, <2>4, <2>5, <2>6
<1>8. CASE kind = "div"
  <2>1. o # 0
    BY <1>8 DEF Raises
  <2>2. SymOp(kind, sa, o) = sa \div o /\ PyOp(kind, a, o) = a \div o
    BY <1>0, <1>8, <2>1 DEF SymOp, PyOp
  <2>4. a \in 0..(M - 1) /\ sa = a
    BY <1>0, <1>8, ModSmall DEF Words
  <2>5. a \div o \in 0..(M - 1)
    BY <1>0, <2>1, <2>4, DivSmall
  <2>6. (a \div o) % M = a \div o
    BY <1>0, <2>5, ModSmall
  <2> QED
    BY <1>0, <2>2, <2>4, <2>5, <2>6
<1>9. CASE kind = "mod"
  <2>1. o # 0
    BY <1>9 DEF Raises
  <2>2. a \in 0..(M - 1) /\ sa = a /\ 2 * a < M /\ 2 * o < M
    BY <1>0, <1>9, ModSmall DEF Words
  <2>3. Signed(sa) = a /\ Signed(o) = o
    BY <1>0, <2>2 DEF Signed
  <2>4. SymOp(kind, sa, o) = a % o /\ PyOp(kind, a, o) = a % o
    BY <1>0, <1>9, <2>1, <2>3 DEF SymOp, PyOp
  <2>5. a % o \in 0..(o - 1)
    BY <1>0, <2>1, ModParts
  <2>6. a % o \in 0..(M - 1)
    BY <1>0, <2>2, <2>5
  <2>7. (a % o) % M = a % o
    BY <1>0, <2>6, ModSmall
  <2> QED
    BY <1>0, <2>4, <2>6, <2>7
<1> QED
  BY <1>1, <1>2, <1>3, <1>4, <1>5, <1>6, <1>7, <1>8, <1>9 DEF Kinds

------------------------------------------------------------------------------
(* While every operation was as the tool asks, z3 and Python agree on each     *)
(* input that Python accepts, and the tables exclude only inputs on which      *)
(* Python raises.                                                              *)
StageInv == /\ pc \in {"idle", "python", "z3", "recheck", "exited"}
            /\ timer = "armed" => pc \in {"python", "recheck"}
            /\ charset \subseteq Inputs
Agree(x) == /\ x \notin fails => py[x] \in Int /\ sym[x] = py[x] % Modulus
            /\ x \in excluded => x \in fails
AgreeInv == exact /\ positive => \A x \in Inputs : Agree(x)
CheckInv == StageInv /\ AgreeInv /\ SatIsTrue /\ UnsatIsTrue

LEMMA ExactMeans ==
  ASSUME NEW kind, NEW c, Note(kind, c), exact', positive'
  PROVE  /\ exact /\ positive
         /\ kind \in {"shr", "div", "mod", "table"} => \A x \in Proper : py[x] \in Words
         /\ kind \in {"shl", "shr"} => \A x \in Proper : Operand(c, x) < Width
         /\ kind = "mod" => \A x \in Proper : 2 * py[x] < Modulus /\ 2 * Operand(c, x) < Modulus
BY Zenon DEF Note, InWords

LEMMA ElementOf ==
  ASSUME NEW S, NEW s \in Seq(S), NEW i \in 1..Len(s)
  PROVE  s[i] \in S
OBVIOUS

LEMMA CheckInit == Init => CheckInv
<1> SUFFICES ASSUME Init PROVE CheckInv
  OBVIOUS
<1>1. /\ pc = "idle" /\ timer = "off" /\ charset = {} /\ status = "none"
      /\ sym = [x \in Inputs |-> x] /\ py = sym /\ excluded = {}
  BY DEF Init
<1>2. \A x \in Inputs : Agree(x)
  BY <1>1, Sizes, ModSmall DEF Agree, Words
<1> QED
  BY <1>1, <1>2 DEF CheckInv, StageInv, AgreeInv, SatIsTrue, UnsatIsTrue

LEMMA BeginAgrees ==
  ASSUME NEW t \in Inputs, NEW cs \in Charsets, Begin(t, cs)
  PROVE  CheckInv'
<1>1. /\ pc' = "python" /\ charset' = cs
      /\ sym' = [x \in Inputs |-> x] /\ py' = sym' /\ excluded' = {}
  BY DEF Begin
<1>2. cs \subseteq Inputs
  BY CheckAssumption DEF Inputs
<1>3. \A x \in Inputs : Agree(x)'
  BY <1>1, Sizes, ModSmall DEF Agree, Words
<1> QED
  BY <1>1, <1>2, <1>3 DEF CheckInv, StageInv, AgreeInv, SatIsTrue, UnsatIsTrue

LEMMA ApplyAgrees ==
  ASSUME CheckInv, NEW kind \in Kinds, NEW c \in Constants \cup {Itself}, Apply(kind, c)
  PROVE  CheckInv'
<1>1. /\ pc = "python" /\ pc' = pc /\ timer' = timer /\ charset' = charset
      /\ excluded' = excluded
      /\ sym' = [x \in Inputs |-> SymOp(kind, sym[x], Operand(c, x))]
      /\ fails' = fails \cup {x \in Inputs : Raises(kind, Operand(c, x))}
      /\ py' = [x \in Inputs |-> IF x \in fails' THEN 0 ELSE PyOp(kind, py[x], Operand(c, x))]
      /\ Note(kind, c)
  BY DEF Apply, call
<1>2. ASSUME exact', positive', NEW x \in Inputs
      PROVE  Agree(x)'
  <2> DEFINE o == Operand(c, x)
  <2>1. o \in Words
    <3>1. c \in Constants => c \in Words
      BY CheckAssumption, Sizes DEF Words
    <3>2. x \in Words
      BY Sizes
    <3> QED
      BY <3>1, <3>2 DEF Operand
  <2>2. /\ exact /\ positive
        /\ x \in Proper /\ kind \in {"shr", "div", "mod"} => py[x] \in Words
        /\ x \in Proper /\ kind \in {"shl", "shr"} => o < Width
        /\ x \in Proper /\ kind = "mod" => 2 * py[x] < Modulus /\ 2 * o < Modulus
    BY <1>1, <1>2, ExactMeans
  <2>3. Agree(x)
    BY <2>2 DEF CheckInv, AgreeInv
  <2>4. x \in excluded' => x \in fails'
    BY <1>1, <2>3 DEF Agree
  <2>5. ASSUME x \notin fails'
        PROVE  py'[x] \in Int /\ sym'[x] = py'[x] % Modulus
    <3>1. x \notin fails /\ ~ Raises(kind, o) /\ x \in Proper
      BY <1>1, <2>5 DEF Proper
    <3>2. sym'[x] = SymOp(kind, sym[x], o) /\ py'[x] = PyOp(kind, py[x], o)
      BY <1>1, <2>5
    <3> HIDE DEF o
    <3>3. py[x] \in Int /\ sym[x] = py[x] % Modulus
      BY <2>3, <3>1 DEF Agree
    <3>4. /\ PyOp(kind, py[x], o) \in Int
          /\ SymOp(kind, py[x] % Modulus, o) = PyOp(kind, py[x], o) % Modulus
      BY <2>1, <2>2, <3>1, <3>3, OpAgrees
    <3> QED
      BY <3>2, <3>3, <3>4, Zenon
  <2> QED
    BY <2>4, <2>5 DEF Agree
<1>3. AgreeInv'
  BY <1>2 DEF AgreeInv
<1>4. StageInv' /\ SatIsTrue' /\ UnsatIsTrue'
  BY <1>1 DEF CheckInv, StageInv, SatIsTrue, UnsatIsTrue
<1> QED
  BY <1>3, <1>4 DEF CheckInv

LEMMA LookupAgrees ==
  ASSUME CheckInv, NEW t \in Tables, Lookup(t)
  PROVE  CheckInv'
<1>1. /\ pc = "python" /\ pc' = pc /\ timer' = timer /\ charset' = charset
      /\ excluded' = excluded \cup {x \in Inputs : sym[x] >= Len(t)}
      /\ fails' = fails \cup {x \in Inputs : py[x] \notin (- Len(t))..(Len(t) - 1)}
      /\ sym' = [x \in Inputs |-> IF sym[x] < Len(t) THEN t[sym[x] + 1] ELSE 0]
      /\ py' = [x \in Inputs |-> IF x \in fails' THEN 0 ELSE Indexed(t, py[x])]
      /\ Note("table", 0)
  BY DEF Lookup, call
<1>2. t \in Seq(0..(Modulus - 1)) /\ Len(t) \in Nat
  BY CheckAssumption
<1>3. ASSUME exact', positive', NEW x \in Inputs
      PROVE  Agree(x)'
  <2>1. exact /\ positive /\ (x \in Proper => py[x] \in Words)
    BY <1>1, <1>3, ExactMeans
  <2>2. Agree(x)
    BY <2>1 DEF CheckInv, AgreeInv
  <2>3. x \notin fails => py[x] \in 0..(Modulus - 1) /\ sym[x] = py[x]
    <3>1. x \notin fails => py[x] \in 0..(Modulus - 1)
      BY <2>1 DEF Proper, Words
    <3>2. x \notin fails => py[x] % Modulus = py[x]
      BY <3>1, Sizes, ModSmall
    <3> QED
      BY <2>2, <3>1, <3>2 DEF Agree
  <2>4. ASSUME x \notin fails'
        PROVE  /\ x \notin excluded'
               /\ py'[x] \in Int /\ sym'[x] = py'[x] % Modulus
    <3>1. x \notin fails /\ py[x] \in (- Len(t))..(Len(t) - 1)
      BY <1>1, <2>4
    <3>2. py[x] \in 0..(Len(t) - 1) /\ sym[x] = py[x]
      BY <1>2, <2>3, <3>1
    <3>3. sym'[x] = t[sym[x] + 1] /\ py'[x] = t[py[x] + 1]
      BY <1>1, <1>2, <2>4, <3>2 DEF Indexed
    <3>4. t[py[x] + 1] \in 0..(Modulus - 1)
      <4>1. py[x] + 1 \in 1..Len(t)
        BY <1>2, <3>2
      <4> QED
        BY <1>2, <4>1, ElementOf
    <3>5. t[py[x] + 1] % Modulus = t[py[x] + 1]
      BY <3>4, Sizes, ModSmall
    <3>6. x \notin excluded
      BY <2>2, <3>1 DEF Agree
    <3>7. x \notin excluded'
      BY <1>1, <1>2, <3>2, <3>6
    <3>8. py'[x] \in Int
      BY <3>3, <3>4, Sizes
    <3> QED
      BY <3>2, <3>3, <3>5, <3>7, <3>8, Zenon
  <2> QED
    BY <2>4 DEF Agree
<1>4. AgreeInv'
  BY <1>3 DEF AgreeInv
<1>5. StageInv' /\ SatIsTrue' /\ UnsatIsTrue'
  BY <1>1 DEF CheckInv, StageInv, SatIsTrue, UnsatIsTrue
<1> QED
  BY <1>4, <1>5 DEF CheckInv

(* Steps that keep the transform, and the verdict while the call is over. *)
LEMMA VerdictsStay ==
  ASSUME CheckInv, UNCHANGED <<transform, call>>, StageInv',
         \/ pc' # "idle"
         \/ status' \notin {"sat", "unsat"}
         \/ status' = "sat" /\ Matches(answer) /\ answer' = answer
         \/ status' = "unsat" /\ Models = {}
         \/ pc = "idle" /\ status' = status /\ answer' = answer
  PROVE  CheckInv'
<1>1. /\ sym' = sym /\ py' = py /\ fails' = fails /\ excluded' = excluded
      /\ exact' = exact /\ positive' = positive /\ target' = target /\ charset' = charset
  BY DEF transform, call
<1>2. AgreeInv'
  <2>1. ASSUME exact', positive', NEW x \in Inputs PROVE Agree(x)'
    <3>1. exact /\ positive
      BY <1>1, <2>1, Zenon
    <3>2. Agree(x)
      BY <3>1 DEF CheckInv, AgreeInv
    <3> QED
      BY <1>1, <3>2 DEF Agree
  <2> QED
    BY <2>1 DEF AgreeInv
<1>3. SatIsTrue'
  BY <1>1 DEF CheckInv, SatIsTrue, Matches
<1>4. UnsatIsTrue'
  <2> SUFFICES ASSUME status' = "unsat", pc' = "idle", exact, positive, NEW x \in charset
               PROVE  ~ Matches(x)
    BY <1>1 DEF UnsatIsTrue, Matches
  <2>1. CASE Models = {}
    <3>1. x \in Inputs /\ Agree(x)
      BY DEF CheckInv, StageInv, AgreeInv
    <3>2. CASE x \in excluded
      BY <3>1, <3>2 DEF Agree, Matches
    <3>3. CASE x \notin excluded /\ x \notin fails
      <4>1. sym[x] % Byte # target
        BY <2>1, <3>3 DEF Models
      <4>2. py[x] \in Int /\ sym[x] = py[x] % Modulus
        BY <3>1, <3>3 DEF Agree
      <4>3. (py[x] % Modulus) % Byte = py[x] % Byte
        BY <4>2, Sizes, ModMod
      <4> QED
        BY <4>1, <4>2, <4>3, Zenon DEF Matches
    <3> QED
      BY <3>2, <3>3 DEF Matches
  <2>2. CASE pc = "idle" /\ status' = status
    BY <2>2 DEF CheckInv, UnsatIsTrue
  <2> QED
    BY <2>1, <2>2
<1> QED
  BY <1>2, <1>3, <1>4 DEF CheckInv

LEMMA CheckStep == CheckInv /\ [Next]_vars => CheckInv'
<1> SUFFICES ASSUME CheckInv, [Next]_vars PROVE CheckInv'
  OBVIOUS
<1>0. StageInv
  BY DEF CheckInv
<1>1. CASE \E t \in Inputs, cs \in Charsets : Begin(t, cs)
  BY <1>1, BeginAgrees
<1>2. CASE \E kind \in Kinds, c \in Constants \cup {Itself} : Apply(kind, c)
  BY <1>2, ApplyAgrees
<1>3. CASE \E t \in Tables : Lookup(t)
  BY <1>3, LookupAgrees
<1>4. CASE NotSymbolic \/ Unknown \/ RecheckRaises
  <2>1. /\ UNCHANGED <<transform, call>> /\ pc' = "idle" /\ timer' = "off"
        /\ status' \notin {"sat", "unsat"}
    BY <1>4 DEF NotSymbolic, Unknown, RecheckRaises, End
  <2>2. StageInv'
    BY <1>0, <2>1 DEF StageInv, call
  <2> QED
    BY <2>1, <2>2, VerdictsStay
<1>5. CASE AskZ3
  <2>1. UNCHANGED <<transform, call>> /\ pc' = "z3" /\ timer' = "off"
    BY <1>5 DEF AskZ3
  <2>2. StageInv'
    BY <1>0, <2>1 DEF StageInv, call
  <2> QED
    BY <2>1, <2>2, VerdictsStay
<1>6. CASE \E x \in Inputs : Sat(x)
  <2>1. UNCHANGED <<transform, call>> /\ pc' = "recheck" /\ timer' = "armed"
    BY <1>6 DEF Sat
  <2>2. StageInv'
    BY <1>0, <2>1 DEF StageInv, call
  <2> QED
    BY <2>1, <2>2, VerdictsStay
<1>7. CASE Unsat
  <2>1. /\ UNCHANGED <<transform, call>> /\ pc' = "idle" /\ timer' = "off"
        /\ status' = "unsat" /\ Models = {}
    BY <1>7 DEF Unsat, End
  <2>2. StageInv'
    BY <1>0, <2>1 DEF StageInv, call
  <2> QED
    BY <2>1, <2>2, VerdictsStay
<1>8. CASE Recheck
  <2>1. /\ UNCHANGED <<transform, call>> /\ pc' = "idle" /\ timer' = "off" /\ answer' = answer
        /\ \/ status' = "sat" /\ Matches(answer)
           \/ status' = "unverified"
    BY <1>8 DEF Recheck, End
  <2>2. StageInv'
    BY <1>0, <2>1 DEF StageInv, call
  <2> QED
    BY <2>1, <2>2, VerdictsStay
<1>11. CASE Exits
  <2>1. /\ UNCHANGED <<transform, call>> /\ pc' = "exited" /\ timer' = "off" /\ status' = status
        /\ answer' = answer
    BY <1>11 DEF Exits
  <2>2. StageInv' /\ pc # "idle"
    BY <1>0, <1>11, <2>1 DEF Exits, StageInv, call
  <2> QED
    BY <2>1, <2>2, VerdictsStay
<1>9. CASE Alarm
  <2>1. /\ UNCHANGED <<transform, call>> /\ timer = "armed" /\ timer' = "off"
        /\ \/ pc' = "idle" /\ status' = "timeout: transform"
           \/ pc' = pc
    BY <1>9 DEF Alarm, End
  <2>2. StageInv' /\ pc # "idle"
    BY <1>0, <2>1 DEF StageInv, call
  <2> QED
    BY <2>1, <2>2, VerdictsStay
<1>10. CASE UNCHANGED vars
  <2>1. UNCHANGED <<transform, call>> /\ pc' = pc /\ timer' = timer /\ status' = status
        /\ answer' = answer
    BY <1>10, Zenon DEF vars, transform, call
  <2>2. StageInv'
    BY <1>0, <2>1 DEF StageInv, call
  <2> QED
    BY <2>1, <2>2, VerdictsStay
<1> QED
  BY <1>1, <1>2, <1>3, <1>4, <1>5, <1>6, <1>7, <1>8, <1>9, <1>10, <1>11 DEF Next

LEMMA CheckInvariant == Spec => []CheckInv
<1>1. Init => CheckInv
  BY CheckInit
<1>2. CheckInv /\ [Next]_vars => CheckInv'
  BY CheckStep
<1> QED
  BY <1>1, <1>2, PTL DEF Spec

------------------------------------------------------------------------------
LEMMA SymRange ==
  ASSUME NEW kind \in Kinds, NEW a \in Words, NEW o \in Words
  PROVE  SymOp(kind, a, o) \in Words
<1> DEFINE M == Modulus  sa == Signed(a)  so == Signed(o)
<1>0. /\ M \in Nat \ {0} /\ o \in 0..(M - 1) /\ a \in 0..(M - 1) /\ Words = 0..(M - 1)
      /\ Byte \in Nat \ {0} /\ Byte <= M
  BY Sizes DEF Words
<1>1. \A i \in Int : i % M \in Words
  BY <1>0, ModParts
<1>2. CASE kind \in {"add", "sub", "rsub", "mul"}
  <2>1. a + o \in Int /\ a - o \in Int /\ o - a \in Int /\ a * o \in Int
    BY <1>0
  <2>2. SymOp(kind, a, o) \in {(a + o) % M, (a - o) % M, (o - a) % M, (a * o) % M}
    BY <1>2 DEF SymOp
  <2> QED
    BY <1>1, <2>1, <2>2
<1>3. CASE kind = "mask"
  <2>1. SymOp(kind, a, o) = a % Byte
    BY <1>3 DEF SymOp
  <2>2. a % Byte \in 0..(Byte - 1)
    BY <1>0, ModParts
  <2> QED
    BY <1>0, <2>1, <2>2
<1>4. CASE kind \in {"shl", "shr"}
  <2> DEFINE p == 2 ^ o
  <2>1. p \in Nat \ {0}
    BY PowersAssumption DEF Words
  <2>2. SymOp(kind, a, o) \in {0, (a * p) % M, a \div p}
    BY <1>4 DEF SymOp
  <2> HIDE DEF p
  <2>3. a * p \in Int
    BY <1>0, <2>1, IntTimes
  <2>4. a \div p \in Words
    BY <1>0, <2>1, DivSmall
  <2>5. (a * p) % M \in Words
    BY <1>1, <2>3
  <2>6. 0 \in Words
    BY <1>0
  <2> QED
    BY <2>2, <2>4, <2>5, <2>6, Zenon
<1>5. CASE kind = "div"
  <2>1. o = 0 => SymOp(kind, a, o) = M - 1
    BY <1>5 DEF SymOp
  <2>2. o # 0 => SymOp(kind, a, o) = a \div o
    BY <1>5 DEF SymOp
  <2>3. ASSUME o # 0 PROVE a \div o \in Words
    <3>1. o \in Nat \ {0}
      BY <1>0, <2>3
    <3> QED
      BY <1>0, <3>1, DivSmall
  <2>4. M - 1 \in Words
    BY <1>0
  <2> QED
    BY <2>1, <2>2, <2>3, <2>4, Zenon
<1>6. CASE kind = "mod"
  <2>1. sa \in Int /\ so \in Int /\ so < M
    BY <1>0 DEF Signed
  <2>2. /\ so = 0 => SymOp(kind, a, o) = a
        /\ so > 0 => SymOp(kind, a, o) = sa % so
        /\ so < 0 => SymOp(kind, a, o) = (- ((- sa) % (- so))) % M
    BY <1>6, <2>1 DEF SymOp
  <2> HIDE DEF sa, so
  <2>3. CASE so = 0
    BY <1>0, <2>2, <2>3
  <2>4. CASE so > 0
    <3>1. sa % so \in 0..(so - 1)
      BY <2>1, <2>4, ModParts
    <3> QED
      BY <1>0, <2>1, <2>2, <2>4, <3>1
  <2>5. CASE so < 0
    <3> DEFINE r == (- sa) % (- so)
    <3>1. r \in Int
      <4>1. PICK u \in Int, v \in Nat \ {0} : u = - sa /\ v = - so
        BY <2>1, <2>5
      <4>2. u % v \in Int
        BY ModParts
      <4> QED
        BY <4>1, <4>2
    <3> HIDE DEF r
    <3>2. - r \in Int
      BY <3>1
    <3>3. (- r) % M \in Words
      BY <1>1, <3>2
    <3> QED
      BY <2>2, <2>5, <3>3 DEF r
  <2> QED
    BY <2>1, <2>3, <2>4, <2>5
<1> QED
  BY <1>2, <1>3, <1>4, <1>5, <1>6 DEF Kinds

LEMMA PyRange ==
  ASSUME NEW kind \in Kinds, NEW a \in Int, NEW o \in Words, ~ Raises(kind, o)
  PROVE  PyOp(kind, a, o) \in Int
<1>0. o \in Int /\ o >= 0 /\ Byte \in Nat \ {0}
  BY Sizes DEF Words
<1>1. CASE kind \in {"add", "sub", "rsub", "mul"}
  <2>1. a + o \in Int /\ a - o \in Int /\ o - a \in Int /\ a * o \in Int
    BY <1>0
  <2>2. PyOp(kind, a, o) \in {a + o, a - o, o - a, a * o}
    BY <1>1 DEF PyOp
  <2> QED
    BY <2>1, <2>2
<1>2. CASE kind = "mask"
  <2>1. PyOp(kind, a, o) = a % Byte
    BY <1>2 DEF PyOp
  <2>2. a % Byte \in Int
    BY <1>0, ModParts
  <2> QED
    BY <2>1, <2>2
<1>3. CASE kind \in {"shl", "shr"}
  <2> DEFINE p == 2 ^ o
  <2>1. p \in Nat \ {0}
    BY PowersAssumption DEF Words
  <2>2. PyOp(kind, a, o) \in {a * p, a \div p}
    BY <1>3 DEF PyOp
  <2> HIDE DEF p
  <2>3. a * p \in Int
    BY <2>1, IntTimes
  <2>4. a \div p \in Int
    BY <2>1, ModParts
  <2> QED
    BY <2>2, <2>3, <2>4
<1>4. CASE kind \in {"div", "mod"}
  <2>1. o \in Nat \ {0}
    BY <1>0, <1>4 DEF Raises
  <2>2. PyOp(kind, a, o) \in {a \div o, a % o}
    BY <1>4 DEF PyOp
  <2>3. a \div o \in Int /\ a % o \in Int
    BY <2>1, ModParts
  <2> QED
    BY <2>2, <2>3
<1> QED
  BY <1>1, <1>2, <1>3, <1>4 DEF Kinds

(* Types of the numbers, and the rest of TypeOK. *)
NumInv == /\ sym \in [Inputs -> Words] /\ py \in [Inputs -> Int]
          /\ fails \subseteq Inputs /\ excluded \subseteq Inputs /\ answer \in Inputs
          /\ target \in Inputs /\ ops \in 0..MaxOps /\ calls \in 0..MaxCalls
          /\ timer \in {"off", "armed"}
BoolInv == exact \in BOOLEAN /\ positive \in BOOLEAN /\ swallowed \in BOOLEAN

LEMMA NumInit == Init => NumInv /\ BoolInv
<1> SUFFICES ASSUME Init PROVE NumInv /\ BoolInv
  OBVIOUS
<1>1. NumInv
  BY Sizes, CheckAssumption DEF Init, NumInv, Inputs, Words
<1> QED
  BY <1>1, Zenon DEF Init, BoolInv

LEMMA NumStep == NumInv /\ [Next]_vars => NumInv'
<1> SUFFICES ASSUME NumInv, [Next]_vars PROVE NumInv'
  OBVIOUS
<1>0. /\ sym \in [Inputs -> Words] /\ py \in [Inputs -> Int]
      /\ fails \subseteq Inputs /\ excluded \subseteq Inputs /\ answer \in Inputs
      /\ target \in Inputs /\ ops \in 0..MaxOps /\ calls \in 0..MaxCalls
      /\ timer \in {"off", "armed"} /\ MaxOps \in Nat /\ MaxCalls \in Nat
  BY CheckAssumption DEF NumInv
<1>1. ASSUME NEW t \in Inputs, NEW cs \in Charsets, Begin(t, cs) PROVE NumInv'
  <2>1. /\ sym' = [x \in Inputs |-> x] /\ py' = sym' /\ fails' = {} /\ excluded' = {}
        /\ answer' = answer /\ target' = t /\ ops' = ops /\ timer' = "armed"
        /\ calls < MaxCalls /\ calls' = calls + 1
    BY <1>1 DEF Begin
  <2>2. sym' \in [Inputs -> Words] /\ py' \in [Inputs -> Int]
    BY <2>1, Sizes
  <2> QED
    BY <1>0, <2>1, <2>2 DEF NumInv
<1>2. ASSUME NEW kind \in Kinds, NEW c \in Constants \cup {Itself}, Apply(kind, c) PROVE NumInv'
  <2>1. /\ ops < MaxOps /\ ops' = ops + 1 /\ timer' = timer /\ answer' = answer
        /\ target' = target /\ calls' = calls /\ excluded' = excluded
        /\ sym' = [x \in Inputs |-> SymOp(kind, sym[x], Operand(c, x))]
        /\ fails' = fails \cup {x \in Inputs : Raises(kind, Operand(c, x))}
        /\ py' = [x \in Inputs |-> IF x \in fails' THEN 0 ELSE PyOp(kind, py[x], Operand(c, x))]
    BY <1>2 DEF Apply, call
  <2>2. ASSUME NEW x \in Inputs
        PROVE  /\ SymOp(kind, sym[x], Operand(c, x)) \in Words
               /\ (IF x \in fails' THEN 0 ELSE PyOp(kind, py[x], Operand(c, x))) \in Int
    <3> DEFINE o == Operand(c, x)
    <3>1. o \in Words
      <4>1. c \in Constants => c \in Words
        BY CheckAssumption, Sizes DEF Words
      <4>2. x \in Words
        BY Sizes
      <4> QED
        BY <4>1, <4>2 DEF Operand
    <3>2. x \notin fails' => ~ Raises(kind, o)
      BY <2>1
    <3> HIDE DEF o
    <3>3. SymOp(kind, sym[x], o) \in Words
      BY <1>0, <3>1, SymRange
    <3>4. x \notin fails' => PyOp(kind, py[x], o) \in Int
      BY <1>0, <3>1, <3>2, PyRange
    <3> QED
      BY <3>3, <3>4 DEF o
  <2>3. sym' \in [Inputs -> Words] /\ py' \in [Inputs -> Int]
    BY <2>1, <2>2
  <2>4. fails' \subseteq Inputs
    BY <1>0, <2>1
  <2> QED
    BY <1>0, <2>1, <2>3, <2>4 DEF NumInv
<1>3. ASSUME NEW t \in Tables, Lookup(t) PROVE NumInv'
  <2>1. /\ ops < MaxOps /\ ops' = ops + 1 /\ timer' = timer /\ answer' = answer
        /\ target' = target /\ calls' = calls
        /\ excluded' = excluded \cup {x \in Inputs : sym[x] >= Len(t)}
        /\ fails' = fails \cup {x \in Inputs : py[x] \notin (- Len(t))..(Len(t) - 1)}
        /\ sym' = [x \in Inputs |-> IF sym[x] < Len(t) THEN t[sym[x] + 1] ELSE 0]
        /\ py' = [x \in Inputs |-> IF x \in fails' THEN 0 ELSE Indexed(t, py[x])]
    BY <1>3 DEF Lookup, call
  <2>2. t \in Seq(0..(Modulus - 1)) /\ Len(t) \in Nat
    BY CheckAssumption
  <2>3. \A i \in 1..Len(t) : t[i] \in 0..(Modulus - 1)
    BY <2>2, ElementOf
  <2>4. ASSUME NEW x \in Inputs
        PROVE  /\ (IF sym[x] < Len(t) THEN t[sym[x] + 1] ELSE 0) \in Words
               /\ (IF x \in fails' THEN 0 ELSE Indexed(t, py[x])) \in Int
    <3>1. sym[x] \in Words /\ sym[x] \in Int /\ sym[x] >= 0 /\ py[x] \in Int /\ 0 \in Words
      BY <1>0, Sizes DEF Words
    <3>2. sym[x] < Len(t) => t[sym[x] + 1] \in Words
      BY <2>2, <2>3, <3>1 DEF Words
    <3>3. ASSUME x \notin fails' PROVE Indexed(t, py[x]) \in Int
      <4>1. py[x] \in (- Len(t))..(Len(t) - 1)
        BY <2>1, <3>3
      <4>2. py[x] >= 0 => py[x] + 1 \in 1..Len(t)
        BY <2>2, <3>1, <4>1
      <4>3. py[x] < 0 => Len(t) + py[x] + 1 \in 1..Len(t)
        BY <2>2, <3>1, <4>1
      <4>4. 0..(Modulus - 1) \subseteq Int
        OBVIOUS
      <4> QED
        BY <2>3, <3>1, <4>2, <4>3, <4>4 DEF Indexed
    <3> QED
      BY <3>1, <3>2, <3>3
  <2>5. sym' \in [Inputs -> Words] /\ py' \in [Inputs -> Int]
    BY <2>1, <2>4
  <2>6. fails' \subseteq Inputs /\ excluded' \subseteq Inputs
    BY <1>0, <2>1
  <2> QED
    BY <1>0, <2>1, <2>5, <2>6 DEF NumInv
<1>4. ASSUME UNCHANGED <<transform, call>>, timer' \in {"off", "armed"}, answer' \in Inputs
      PROVE  NumInv'
  <2>1. /\ sym' = sym /\ py' = py /\ fails' = fails /\ excluded' = excluded
        /\ target' = target /\ ops' = ops /\ calls' = calls
    BY <1>4 DEF transform, call
  <2> QED
    BY <1>0, <1>4, <2>1 DEF NumInv
<1>5. CASE NotSymbolic \/ AskZ3 \/ (\E x \in Inputs : Sat(x)) \/ Unsat \/ Unknown
           \/ Recheck \/ RecheckRaises \/ Exits \/ Alarm
  <2>1. UNCHANGED <<transform, call>> /\ timer' \in {"off", "armed"}
    BY <1>5 DEF NotSymbolic, AskZ3, Sat, Unsat, Unknown, Recheck, RecheckRaises,
              Exits, Alarm, End
  <2>2. answer' \in Inputs
    BY <1>0, <1>5 DEF NotSymbolic, AskZ3, Sat, Unsat, Unknown, Recheck, RecheckRaises,
              Exits, Alarm, End
  <2> QED
    BY <1>4, <2>1, <2>2
<1>6. CASE UNCHANGED vars
  <2>1. UNCHANGED <<transform, call>> /\ timer' = timer /\ answer' = answer
    BY <1>6, Zenon DEF vars, transform, call
  <2> QED
    BY <1>0, <1>4, <2>1
<1> QED
  BY <1>1, <1>2, <1>3, <1>5, <1>6 DEF Next

LEMMA BoolStep == BoolInv /\ [Next]_vars => BoolInv'
<1> SUFFICES ASSUME BoolInv, [Next]_vars PROVE BoolInv'
  OBVIOUS
<1>1. ASSUME NEW t \in Inputs, NEW cs \in Charsets, Begin(t, cs) PROVE BoolInv'
  BY <1>1, Zenon DEF Begin, BoolInv
<1>2. ASSUME NEW kind \in Kinds, NEW c \in Constants \cup {Itself}, Apply(kind, c) PROVE BoolInv'
  BY <1>2, Zenon DEF Apply, Note, BoolInv
<1>3. ASSUME NEW t \in Tables, Lookup(t) PROVE BoolInv'
  BY <1>3, Zenon DEF Lookup, Note, BoolInv
<1>4. CASE NotSymbolic \/ Unsat \/ Unknown \/ Recheck \/ RecheckRaises
  BY <1>4, Zenon DEF NotSymbolic, Unsat, Unknown, Recheck, RecheckRaises, End, transform, BoolInv
<1>8. CASE Exits
  BY <1>8, Zenon DEF Exits, transform, BoolInv
<1>5. CASE AskZ3 \/ \E x \in Inputs : Sat(x)
  BY <1>5, Zenon DEF AskZ3, Sat, transform, BoolInv
<1>6. CASE Alarm
  BY <1>6, Zenon DEF Alarm, End, transform, BoolInv
<1>7. CASE UNCHANGED vars
  BY <1>7, Zenon DEF vars, BoolInv
<1> QED
  BY <1>1, <1>2, <1>3, <1>4, <1>5, <1>6, <1>7, <1>8 DEF Next

(* The state has its types, and an alarm is pending only while the transform   *)
(* or its re-check runs, so it cannot discard an answer of z3                  *)
(* (solve_check.py:71).                                                        *)
THEOREM CheckTypes == Spec => []TypeOK
<1>1. Init => NumInv /\ BoolInv
  BY NumInit
<1>2. NumInv /\ BoolInv /\ [Next]_vars => NumInv' /\ BoolInv'
  BY NumStep, BoolStep
<1>3. CheckInv /\ NumInv /\ BoolInv => TypeOK
  <2>1. CheckInv /\ NumInv => StageInv /\ NumInv
    BY DEF CheckInv
  <2> QED
    BY <2>1, Zenon DEF StageInv, NumInv, BoolInv, TypeOK
<1> QED
  BY <1>1, <1>2, <1>3, CheckInvariant, PTL DEF Spec

(* Whatever a transform computes and however its words overflow, [sat] is only *)
(* said of an input that Python maps to the target (solve_check.py:12, 278).   *)
THEOREM SatVerdicts == Spec => []SatIsTrue
<1>1. CheckInv => SatIsTrue
  BY DEF CheckInv
<1> QED
  BY <1>1, CheckInvariant, PTL

(* [unsat] is true of Python, for transforms of any length over words of any   *)
(* width, tables and charsets, when every operation had operands in range and  *)
(* no remainder one with its top bit set (solve_check.py:100-137, 278-282).    *)
THEOREM UnsatVerdicts == Spec => []UnsatIsTrue
<1>1. CheckInv => UnsatIsTrue
  BY DEF CheckInv
<1> QED
  BY <1>1, CheckInvariant, PTL
=============================================================================
