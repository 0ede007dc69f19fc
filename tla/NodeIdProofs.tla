---------------------------- MODULE NodeIdProofs ----------------------------
(***************************************************************************)
(* Theorems about NodeId: addresses of any length, with numbers of any     *)
(* size, survive the keys of the stores.                                   *)
(*                                                                         *)
(* Value, Decimal and String are loops over data of any length.  What they *)
(* compute is proved by induction in the form of a least counterexample:   *)
(* a set of numbers that has 0, and n + 1 with every n, is all of Nat.     *)
(***************************************************************************)
EXTENDS NodeId, WellFoundedInduction, TLAPS

Digit == 0..Base - 1

\* Parts as String writes them and Parse takes them; and segments as Parse
\* makes them.
Parts == [name : Plain, digits : Seq(Digit)]
Segments == [name : IdNames, index : -1..MaxIndex]

-----------------------------------------------------------------------------
(* Induction.                                                              *)

\* Every set of numbers has a least one.
LEMMA LeastNumber ==
  ASSUME NEW T \in SUBSET Nat, T # {}
  PROVE  \E m \in T : \A k \in T : m <= k
<1> DEFINE R == OpToRel(<, Nat)
<1>1. R = {ss \in Nat \X Nat : ss[1] < ss[2]}
  BY DEF OpToRel
<1>2. \A x, y \in Nat : <<x, y>> \in R <=> x < y
  BY <1>1
<1>3. IsWellFoundedOn(R, Nat)
  BY NatLessThanWellFounded
<1>4. \E m \in T : \A k \in T : <<k, m>> \notin R
  <2> HIDE DEF R
  <2> QED
    BY <1>3, WFMin
<1>5. PICK m \in T : \A k \in T : <<k, m>> \notin R
  BY <1>4
<1>6. \A k \in T : ~(k < m)
  BY <1>2, <1>5
<1> QED
  BY <1>6

\* What holds of 0, and of n + 1 when of n, holds of all numbers.
LEMMA Induction ==
  ASSUME NEW S, 0 \in S, \A n \in Nat : n \in S => n + 1 \in S
  PROVE  \A n \in Nat : n \in S
<1> DEFINE T == Nat \ S
<1> SUFFICES ASSUME T # {} PROVE FALSE
  OBVIOUS
<1>1. T \in SUBSET Nat
  OBVIOUS
<1>2. PICK m \in T : \A k \in T : m <= k
  <2> HIDE DEF T
  <2> QED
    BY <1>1, LeastNumber
<1>3. m # 0 /\ m - 1 \in Nat /\ m - 1 \notin T
  BY <1>2
<1> QED
  BY <1>2, <1>3

\* What holds of n when it holds of all smaller ones holds of all numbers.
LEMMA StrongInduction ==
  ASSUME NEW S, \A n \in Nat : (\A m \in 0..n - 1 : m \in S) => n \in S
  PROVE  \A n \in Nat : n \in S
<1> DEFINE T == Nat \ S
<1> SUFFICES ASSUME T # {} PROVE FALSE
  OBVIOUS
<1>1. T \in SUBSET Nat
  OBVIOUS
<1>2. PICK m \in T : \A k \in T : m <= k
  <2> HIDE DEF T
  <2> QED
    BY <1>1, LeastNumber
<1>3. \A k \in 0..m - 1 : k \in S
  BY <1>2
<1> QED
  BY <1>2, <1>3

\* What a loop of n turns leaves after every turn; each is made of what the
\* one before it has left, and of its number.
Loops(T, c, n, turn) ==
  {f \in [0..n -> T] : f[0] = c /\ \A k \in 1..n : f[k] = turn[k][f[k - 1]]}

Turns(T, n, turn) == \A k \in 1..n, t \in T : turn[k][t] \in T

\* There is such a function.
LEMMA LoopDefined ==
  ASSUME NEW T, NEW c \in T, NEW n \in Nat, NEW turn, Turns(T, n, turn)
  PROVE  Loops(T, c, n, turn) # {}
<1> DEFINE S == {m \in Nat : m <= n => Loops(T, c, m, turn) # {}}
<1>1. 0 \in S
  <2>1. [k \in 0..0 |-> c] \in Loops(T, c, 0, turn)
    BY DEF Loops
  <2> QED
    BY <2>1
<1>2. ASSUME NEW m \in Nat, m \in S PROVE m + 1 \in S
  <2> SUFFICES ASSUME m + 1 <= n PROVE Loops(T, c, m + 1, turn) # {}
    OBVIOUS
  <2>1. PICK f \in Loops(T, c, m, turn) : TRUE
    BY <1>2
  <2> DEFINE g == [k \in 0..m + 1 |-> IF k <= m THEN f[k] ELSE turn[m + 1][f[m]]]
  <2>2. /\ f \in [0..m -> T] /\ f[0] = c
        /\ \A k \in 1..m : f[k] = turn[k][f[k - 1]]
    BY DEF Loops
  <2>3. turn[m + 1][f[m]] \in T
    BY <2>2 DEF Turns
  <2>4. g \in [0..m + 1 -> T] /\ g[0] = c
    BY <2>2, <2>3
  <2>5. ASSUME NEW k \in 1..m + 1 PROVE g[k] = turn[k][g[k - 1]]
    BY <2>2
  <2>6. g \in Loops(T, c, m + 1, turn)
    <3> HIDE DEF g
    <3> QED
      BY <2>4, <2>5 DEF Loops
  <2> QED
    BY <2>6
<1>3. n \in S
  <2> HIDE DEF S
  <2> QED
    BY <1>1, <1>2, Induction
<1> QED
  BY <1>3

\* Two loops that begin alike, and go on alike, are alike.
Alike(n, f, g) == \A k \in 0..n : f[k] = g[k]

LEMMA SameLoop ==
  ASSUME NEW n \in Nat, NEW f, NEW g, f[0] = g[0],
         \A k \in 1..n : f[k - 1] = g[k - 1] => f[k] = g[k]
  PROVE  Alike(n, f, g)
<1> DEFINE S == {k \in Nat : k <= n => f[k] = g[k]}
<1>1. 0 \in S
  OBVIOUS
<1>2. ASSUME NEW k \in Nat, k \in S PROVE k + 1 \in S
  <2> SUFFICES ASSUME k + 1 <= n PROVE f[k + 1] = g[k + 1]
    OBVIOUS
  <2>1. f[k] = g[k] /\ k + 1 \in 1..n /\ (k + 1) - 1 = k
    BY <1>2
  <2> QED
    BY <2>1
<1>3. \A k \in Nat : k \in S
  <2> HIDE DEF S
  <2> QED
    BY <1>1, <1>2, Induction
<1> QED
  BY <1>3 DEF Alike

-----------------------------------------------------------------------------
(* Numbers and their digits.                                               *)

\* What Value's loop leaves after every turn, v, and in the end.
ValueRuns(d, v) ==
  /\ v \in [0..Len(d) -> Nat]
  /\ v[0] = 0
  /\ \A k \in 1..Len(d) : v[k] = v[k - 1] * Base + d[k]

LEMMA ValueLoop ==
  ASSUME NEW d \in Seq(Digit)
  PROVE  \E v : ValueRuns(d, v) /\ Value(d) = v[Len(d)]
<1> DEFINE turn == [k \in 1..Len(d) |-> [t \in Nat |-> t * Base + d[k]]]
           Loop(w) == [k \in 0..Len(d) |-> IF k = 0 THEN 0 ELSE w[k - 1] * Base + d[k]]
           v == CHOOSE w : w = Loop(w)
<1>1. Len(d) \in Nat /\ \A k \in 1..Len(d) : d[k] \in Nat
  BY IdAssumption DEF Digit
<1>2. Turns(Nat, Len(d), turn)
  BY <1>1, IdAssumption DEF Turns
<1>3. PICK f \in Loops(Nat, 0, Len(d), turn) : TRUE
  <2> HIDE DEF turn
  <2> QED
    BY <1>1, <1>2, LoopDefined
<1>4. /\ f \in [0..Len(d) -> Nat] /\ f[0] = 0
      /\ \A k \in 1..Len(d) : f[k] = f[k - 1] * Base + d[k]
  <2>1. /\ f \in [0..Len(d) -> Nat] /\ f[0] = 0
        /\ \A k \in 1..Len(d) : f[k] = turn[k][f[k - 1]]
    BY DEF Loops
  <2>2. ASSUME NEW k \in 1..Len(d) PROVE f[k] = f[k - 1] * Base + d[k]
    <3>1. k - 1 \in 0..Len(d)
      BY <1>1
    <3>2. f[k - 1] \in Nat
      <4> HIDE DEF turn
      <4> QED
        BY <2>1, <3>1
    <3> QED
      BY <2>1, <3>2
  <2> QED
    BY <2>1, <2>2
<1>5. f = Loop(f)
  BY <1>1, <1>4
<1>6. v = Loop(v)
  BY <1>5
<1>7. v[0] = 0 /\ \A k \in 1..Len(d) : v[k] = v[k - 1] * Base + d[k]
  <2> HIDE DEF v
  <2> QED
    BY <1>1, <1>6
<1>8. Alike(Len(d), v, f)
  <2> HIDE DEF v
  <2>1. \A k \in 1..Len(d) : v[k - 1] = f[k - 1] => v[k] = f[k]
    BY <1>4, <1>7
  <2> QED
    BY <1>1, <1>4, <1>7, <2>1, SameLoop
<1>9. v \in [0..Len(d) -> Nat]
  <2>1. v = [k \in 0..Len(d) |-> v[k]]
    BY <1>6
  <2> HIDE DEF v
  <2> QED
    BY <1>4, <1>8, <2>1 DEF Alike
<1>10. Value(d) = v[Len(d)]
  BY DEF Value
<1> QED
  BY <1>7, <1>9, <1>10 DEF ValueRuns

\* The value of no digits, of one more, and its type.
LEMMA ValueOfNone == Value(<<>>) = 0
<1>1. <<>> \in Seq(Digit) /\ Len(<<>>) = 0
  OBVIOUS
<1>2. PICK v : ValueRuns(<<>>, v) /\ Value(<<>>) = v[0]
  BY <1>1, ValueLoop
<1> QED
  BY <1>2 DEF ValueRuns

LEMMA ValueType ==
  ASSUME NEW d \in Seq(Digit)
  PROVE  Value(d) \in Nat
<1>1. PICK v : ValueRuns(d, v) /\ Value(d) = v[Len(d)]
  BY ValueLoop
<1> QED
  BY <1>1 DEF ValueRuns

LEMMA ValueOfAppend ==
  ASSUME NEW d \in Seq(Digit), NEW x \in Digit
  PROVE  Value(Append(d, x)) = Value(d) * Base + x
<1> DEFINE e == Append(d, x)
<1>1. /\ e \in Seq(Digit) /\ Len(e) = Len(d) + 1 /\ Len(d) \in Nat
      /\ e[Len(d) + 1] = x /\ \A k \in 1..Len(d) : e[k] = d[k]
  OBVIOUS
<1> HIDE DEF e
<1>2. PICK v : ValueRuns(d, v) /\ Value(d) = v[Len(d)]
  BY ValueLoop
<1>3. PICK w : ValueRuns(e, w) /\ Value(e) = w[Len(e)]
  BY <1>1, ValueLoop
<1>4. Alike(Len(d), v, w)
  <2>1. \A k \in 1..Len(d) : v[k - 1] = w[k - 1] => v[k] = w[k]
    BY <1>1, <1>2, <1>3 DEF ValueRuns
  <2>2. v[0] = w[0]
    BY <1>2, <1>3 DEF ValueRuns
  <2> QED
    BY <1>1, <2>1, <2>2, SameLoop
<1>5. w[Len(d) + 1] = w[Len(d)] * Base + x
  BY <1>1, <1>3 DEF ValueRuns
<1> QED
  BY <1>1, <1>2, <1>3, <1>4, <1>5 DEF e, Alike


\* What Decimal writes for a number, when g has what it writes for smaller ones.
Write(g, i) == IF i < Base THEN <<i>> ELSE Append(g[i \div Base], i % Base)

Writes(m, g) ==
  /\ g \in [0..m -> Seq(Digit)]
  /\ \A i \in 0..m : g[i] = Write(g, i)

\* Dividing by the base ends.
LEMMA Division ==
  ASSUME NEW i \in Nat
  PROVE  /\ i \div Base \in Nat /\ i % Base \in Digit
         /\ i = (i \div Base) * Base + (i % Base)
         /\ i >= Base => i \div Base < i /\ i \div Base >= 1
<1>1. /\ i \div Base \in Nat /\ i % Base \in 0..Base - 1
      /\ i = (i \div Base) * Base + (i % Base)
  BY IdAssumption
<1>2. ASSUME i >= Base PROVE i \div Base < i
  BY <1>2, IdAssumption
<1>3. ASSUME i >= Base PROVE i \div Base # 0
  <2> SUFFICES ASSUME i \div Base = 0 PROVE FALSE
    OBVIOUS
  <2>1. i = i % Base /\ i % Base < Base
    BY <1>1, IdAssumption
  <2> QED
    BY <1>3, <2>1, IdAssumption
<1> QED
  BY <1>1, <1>2, <1>3 DEF Digit

LEMMA Multiplication ==
  ASSUME NEW q \in Nat, q >= 1, NEW x \in Digit
  PROVE  /\ q * Base + x \in Nat /\ ~(q * Base + x < Base)
         /\ (q * Base + x) \div Base = q /\ (q * Base + x) % Base = x
<1>1. x \in Nat /\ x < Base /\ q * Base \in Nat
  BY IdAssumption DEF Digit
<1>2. q * Base >= Base
  <2>1. q - 1 \in Nat /\ (q - 1) * Base \in Nat
    BY IdAssumption
  <2>2. q * Base = (q - 1) * Base + Base
    BY <2>1, IdAssumption
  <2> QED
    BY <2>1, <2>2, IdAssumption
<1>3. (q * Base + x) \div Base = q
  BY <1>1, IdAssumption
<1>4. (q * Base + x) % Base = x
  BY <1>1, IdAssumption
<1> QED
  BY <1>1, <1>2, <1>3, <1>4, IdAssumption

LEMMA WriteType ==
  ASSUME NEW g, NEW i \in Nat, i >= Base => g[i \div Base] \in Seq(Digit)
  PROVE  Write(g, i) \in Seq(Digit) \ {<<>>}
<1>1. CASE i < Base
  BY <1>1, IdAssumption DEF Write, Digit
<1>2. CASE i >= Base
  <2> DEFINE d == g[i \div Base]
             x == i % Base
  <2>1. d \in Seq(Digit) /\ x \in Digit
    BY <1>2, Division
  <2>2. Write(g, i) = Append(d, x)
    BY <1>2, IdAssumption DEF Write
  <2> HIDE DEF d, x
  <2> QED
    BY <2>1, <2>2
<1> QED
  BY <1>1, <1>2, IdAssumption

LEMMA WritesExists ==
  ASSUME NEW m \in Nat
  PROVE  \E g : Writes(m, g)
<1> DEFINE S == {n \in Nat : \E g : Writes(n, g)}
<1>1. 0 \in S
  <2> DEFINE g == [i \in 0..0 |-> <<i>>]
  <2>1. Writes(0, g)
    BY IdAssumption DEF Writes, Write, Digit
  <2> QED
    BY <2>1
<1>2. ASSUME NEW n \in Nat, n \in S PROVE n + 1 \in S
  <2>1. PICK f : Writes(n, f)
    BY <1>2
  <2> DEFINE g == [i \in 0..n + 1 |-> IF i <= n THEN f[i] ELSE Write(f, n + 1)]
  <2>2. \A i \in 0..n + 1 : i >= Base => i \div Base \in 0..n
    BY Division, IdAssumption
  <2>3. Write(f, n + 1) \in Seq(Digit)
    BY <2>1, <2>2, WriteType DEF Writes
  <2>4. g \in [0..n + 1 -> Seq(Digit)]
    BY <2>1, <2>3 DEF Writes
  <2>5. \A i \in 0..n : g[i] = f[i]
    OBVIOUS
  <2>6. g[n + 1] = Write(f, n + 1)
    OBVIOUS
  <2> HIDE DEF g
  <2>7. ASSUME NEW i \in 0..n + 1 PROVE Write(g, i) = Write(f, i)
    BY <2>2, <2>5, IdAssumption DEF Write
  <2>8. Writes(n + 1, g)
    BY <2>1, <2>4, <2>5, <2>6, <2>7 DEF Writes
  <2> QED
    BY <2>8
<1> QED
  <2> HIDE DEF S
  <2>1. m \in S
    BY <1>1, <1>2, Induction
  <2> QED
    BY <2>1 DEF S

LEMMA WritesAlike ==
  ASSUME NEW m \in Nat, NEW n \in Nat, NEW g, NEW h, Writes(m, g), Writes(n, h)
  PROVE  \A i \in Nat : i <= m /\ i <= n => g[i] = h[i]
<1> DEFINE S == {i \in Nat : i <= m /\ i <= n => g[i] = h[i]}
<1>1. ASSUME NEW i \in Nat, \A j \in 0..i - 1 : j \in S PROVE i \in S
  <2> SUFFICES ASSUME i <= m, i <= n PROVE g[i] = h[i]
    OBVIOUS
  <2>1. g[i] = Write(g, i) /\ h[i] = Write(h, i)
    BY DEF Writes
  <2>2. i >= Base => g[i \div Base] = h[i \div Base]
    BY <1>1, Division
  <2> QED
    BY <2>1, <2>2, IdAssumption DEF Write
<1> QED
  <2> HIDE DEF S
  <2>1. \A i \in Nat : i \in S
    BY <1>1, StrongInduction
  <2> QED
    BY <2>1 DEF S

\* Decimal is what its definition says.
LEMMA DecimalWrites ==
  ASSUME NEW i \in Nat
  PROVE  Decimal[i] = Write(Decimal, i)
<1> DEFINE F == [m \in Nat |-> CHOOSE g : Writes(m, g)]
           f == [m \in Nat |-> F[m][m]]
           Turn(h) == [m \in Nat |-> IF m < Base THEN <<m>>
                                     ELSE Append(h[m \div Base], m % Base)]
<1>1. \A m \in Nat : Writes(m, F[m])
  BY WritesExists
<1> HIDE DEF F
<1>2. ASSUME NEW m \in Nat PROVE f[m] = Write(f, m)
  <2>1. F[m][m] = Write(F[m], m)
    BY <1>1 DEF Writes
  <2>2. ASSUME m >= Base PROVE F[m][m \div Base] = F[m \div Base][m \div Base]
    BY <1>1, <2>2, Division, WritesAlike
  <2>3. m >= Base => m \div Base \in Nat
    BY Division
  <2> QED
    BY <2>1, <2>2, <2>3, IdAssumption DEF Write
<1>3. f = Turn(f)
  BY <1>2 DEF Write
<1>4. Decimal = Turn(Decimal)
  <2> HIDE DEF f
  <2> QED
    BY <1>3 DEF Decimal
<1> QED
  BY <1>4 DEF Write

LEMMA DecimalType ==
  ASSUME NEW i \in Nat
  PROVE  Decimal[i] \in Seq(Digit) \ {<<>>}
<1> DEFINE S == {n \in Nat : Decimal[n] \in Seq(Digit) \ {<<>>}}
<1>1. ASSUME NEW n \in Nat, \A j \in 0..n - 1 : j \in S PROVE n \in S
  <2>1. n >= Base => Decimal[n \div Base] \in Seq(Digit)
    BY <1>1, Division
  <2> QED
    BY <2>1, DecimalWrites, WriteType
<1> QED
  <2> HIDE DEF S
  <2>1. i \in S
    BY <1>1, StrongInduction
  <2> QED
    BY <2>1 DEF S

\* Atoi gives back the number that %d has written.
LEMMA ValueOfDecimal ==
  ASSUME NEW i \in Nat
  PROVE  Value(Decimal[i]) = i
<1> DEFINE S == {n \in Nat : Value(Decimal[n]) = n}
<1>1. ASSUME NEW n \in Nat, \A j \in 0..n - 1 : j \in S PROVE n \in S
  <2>1. CASE n < Base
    <3>1. <<>> \in Seq(Digit) /\ n \in Digit /\ <<n>> = Append(<<>>, n)
      BY <2>1, IdAssumption DEF Digit
    <3>2. Decimal[n] = <<n>>
      BY <2>1, DecimalWrites DEF Write
    <3>3. Value(Append(<<>>, n)) = Value(<<>>) * Base + n
      BY <3>1, ValueOfAppend
    <3> QED
      BY <3>1, <3>2, <3>3, ValueOfNone, IdAssumption
  <2>2. CASE n >= Base
    <3> DEFINE q == n \div Base
               x == n % Base
    <3>0. n >= Base
      BY <2>2
    <3>1. q \in Nat /\ x \in Digit /\ n = q * Base + x /\ q \in 0..n - 1
      BY <3>0, Division
    <3>2. Decimal[n] = Append(Decimal[q], x)
      <4>1. ~(n < Base)
        BY <3>0, IdAssumption
      <4>2. Decimal[n] = Write(Decimal, n)
        BY DecimalWrites
      <4> QED
        BY <4>1, <4>2 DEF Write
    <3> HIDE DEF q, x
    <3>3. Value(Append(Decimal[q], x)) = Value(Decimal[q]) * Base + x
      BY <3>1, DecimalType, ValueOfAppend
    <3> QED
      BY <1>1, <3>1, <3>2, <3>3
  <2> QED
    BY <2>1, <2>2, IdAssumption
<1> QED
  <2> HIDE DEF S
  <2>1. i \in S
    BY <1>1, StrongInduction
  <2> QED
    BY <2>1 DEF S


\* Digits without a needless zero are what %d writes for their value.
LEMMA DecimalOfValue ==
  ASSUME NEW d \in Seq(Digit), d # <<>>, Len(d) > 1 => d[1] # 0
  PROVE  Decimal[Value(d)] = d
<1> DEFINE Kept(e) == Decimal[Value(e)] = e /\ (e[1] # 0 => Value(e) >= 1)
           S == {n \in Nat : \A e \in Seq(Digit) :
                   Len(e) = n + 1 /\ (n > 0 => e[1] # 0) => Kept(e)}
<1>1. ASSUME NEW e \in Seq(Digit), Len(e) = 1 PROVE Kept(e)
  <2>1. PICK x \in Digit : e = <<x>> /\ x = e[1]
    BY <1>1
  <2>2. <<>> \in Seq(Digit) /\ <<x>> = Append(<<>>, x) /\ x \in Nat /\ x < Base
    BY IdAssumption DEF Digit
  <2>3. Value(<<x>>) = x
    <3>1. Value(Append(<<>>, x)) = Value(<<>>) * Base + x
      BY <2>2, ValueOfAppend
    <3> QED
      BY <2>2, <3>1, ValueOfNone, IdAssumption
  <2>4. Decimal[x] = <<x>>
    BY <2>2, DecimalWrites DEF Write
  <2> QED
    BY <2>1, <2>2, <2>3, <2>4
<1>2. 0 \in S
  BY <1>1
<1>3. ASSUME NEW n \in Nat, n \in S PROVE n + 1 \in S
  <2> SUFFICES ASSUME NEW e \in Seq(Digit), Len(e) = n + 2, e[1] # 0
               PROVE  Kept(e)
    OBVIOUS
  <2> DEFINE h == SubSeq(e, 1, n + 1)
             x == e[n + 2]
             q == Value(h)
  <2>1. /\ h \in Seq(Digit) /\ Len(h) = n + 1 /\ h[1] # 0 /\ x \in Digit
        /\ e = Append(h, x)
    OBVIOUS
  <2>2. Kept(h)
    BY <1>3, <2>1
  <2> HIDE DEF h, x
  <2>3. q \in Nat /\ q >= 1 /\ Decimal[q] = h
    BY <2>1, <2>2, ValueType
  <2>4. Value(e) = q * Base + x
    BY <2>1, ValueOfAppend
  <2> HIDE DEF q
  <2>5. /\ q * Base + x \in Nat /\ ~(q * Base + x < Base)
        /\ (q * Base + x) \div Base = q /\ (q * Base + x) % Base = x
    BY <2>1, <2>3, Multiplication
  <2>6. Decimal[q * Base + x] = Append(h, x)
    <3>1. Decimal[q * Base + x] = Write(Decimal, q * Base + x)
      BY <2>5, DecimalWrites
    <3> QED
      BY <2>3, <2>5, <3>1 DEF Write
  <2> QED
    BY <2>1, <2>4, <2>5, <2>6, IdAssumption
<1>4. ASSUME NEW n \in Nat PROVE n \in S
  <2> HIDE DEF S
  <2> QED
    BY <1>2, <1>3, Induction
<1>5. Len(d) - 1 \in Nat /\ Len(d) = (Len(d) - 1) + 1
  OBVIOUS
<1>6. Len(d) - 1 \in S
  BY <1>4, <1>5
<1> QED
  BY <1>5, <1>6

-----------------------------------------------------------------------------
(* Addresses and their texts.                                              *)

\* Segments with names that are parts, or a text with dots or brackets.
Writable == [name : Plain \cup (Seq(Parts) \ {<<>>}), index : Int]

LEMMA RenderType ==
  ASSUME NEW seg \in Writable
  PROVE  Render(seg) \in Seq(Parts) \ {<<>>}
<1> DEFINE parts == TextOf(seg.name)
<1>1. parts \in Seq(Parts) /\ parts # <<>>
  <2>1. CASE seg.name \in Plain
    <3>1. Part(seg.name, <<>>) \in Parts
      BY <2>1 DEF Part, Parts
    <3> QED
      BY <2>1, <3>1 DEF TextOf
  <2>2. CASE seg.name \notin Plain
    BY <2>2 DEF TextOf, Writable
  <2> QED
    BY <2>1, <2>2
<1> HIDE DEF parts
<1>2. Front(parts) \in Seq(Parts) /\ Last(parts) \in Parts
  BY <1>1 DEF Front, Last
<1>3. ASSUME NEW part \in Parts, NEW i \in Int PROVE Bracketed(part, i) \in Parts
  <2>1. Part(Garbled, <<>>) \in Parts
    BY DEF Part, Parts, Plain
  <2>2. i >= 0 => Part(part.name, Decimal[i]) \in Parts
    BY DecimalType DEF Part, Parts
  <2> QED
    BY <2>1, <2>2 DEF Bracketed
<1>4. Bracketed(Last(parts), seg.index) \in Parts
  BY <1>2, <1>3 DEF Writable
<1>5. Append(Front(parts), Bracketed(Last(parts), seg.index)) \in Seq(Parts) \ {<<>>}
  <2>1. ASSUME NEW s \in Seq(Parts), NEW part \in Parts
        PROVE  Append(s, part) \in Seq(Parts) \ {<<>>}
    <3>1. Append(s, part) \in Seq(Parts) /\ Len(Append(s, part)) = Len(s) + 1
      OBVIOUS
    <3>2. Len(s) \in Nat /\ Len(<<>>) = 0
      OBVIOUS
    <3> QED
      BY <3>1, <3>2
  <2> QED
    BY <1>2, <1>4, <2>1
<1> QED
  BY <1>1, <1>5 DEF Render, parts

\* What String's loop leaves after every turn, and in the end.
Joined(w, a, k) == w[k - 1] \o Render(a[k])

StringRuns(a, sb) ==
  /\ sb \in [0..Len(a) -> Seq(Parts)]
  /\ sb[0] = <<>>
  /\ \A k \in 1..Len(a) : sb[k] = Joined(sb, a, k)

LEMMA StringLoop ==
  ASSUME NEW a \in Seq(Writable), a # <<>>
  PROVE  \E sb : StringRuns(a, sb) /\ String(a) = sb[Len(a)]
<1> DEFINE turn == [k \in 1..Len(a) |-> [t \in Seq(Parts) |-> t \o Render(a[k])]]
           Loop(w) == [k \in 0..Len(a) |-> IF k = 0 THEN <<>> ELSE Joined(w, a, k)]
           sb == CHOOSE w : w = Loop(w)
<1>1. Len(a) \in Nat /\ \A k \in 1..Len(a) : Render(a[k]) \in Seq(Parts)
  BY RenderType
<1>2. Turns(Seq(Parts), Len(a), turn)
  BY <1>1 DEF Turns
<1>3. PICK f \in Loops(Seq(Parts), <<>>, Len(a), turn) : TRUE
  <2> HIDE DEF turn
  <2>1. <<>> \in Seq(Parts)
    OBVIOUS
  <2> QED
    BY <1>1, <1>2, <2>1, LoopDefined
<1>4. /\ f \in [0..Len(a) -> Seq(Parts)] /\ f[0] = <<>>
      /\ \A k \in 1..Len(a) : f[k] = Joined(f, a, k)
  <2>1. /\ f \in [0..Len(a) -> Seq(Parts)] /\ f[0] = <<>>
        /\ \A k \in 1..Len(a) : f[k] = turn[k][f[k - 1]]
    BY DEF Loops
  <2>2. ASSUME NEW k \in 1..Len(a) PROVE f[k] = Joined(f, a, k)
    <3>1. k - 1 \in 0..Len(a)
      BY <1>1
    <3>2. f[k - 1] \in Seq(Parts)
      <4> HIDE DEF turn
      <4> QED
        BY <2>1, <3>1
    <3> QED
      BY <2>1, <3>2 DEF Joined
  <2> QED
    BY <2>1, <2>2
<1>5. f = Loop(f)
  BY <1>1, <1>4
<1>6. sb = Loop(sb)
  BY <1>5
<1>7. sb[0] = <<>> /\ \A k \in 1..Len(a) : sb[k] = Joined(sb, a, k)
  <2> HIDE DEF sb
  <2>1. ASSUME NEW k \in 0..Len(a)
        PROVE  sb[k] = IF k = 0 THEN <<>> ELSE Joined(sb, a, k)
    BY <1>6
  <2> QED
    BY <1>1, <2>1
<1>8. Alike(Len(a), sb, f)
  <2> HIDE DEF sb
  <2>1. \A k \in 1..Len(a) : sb[k - 1] = f[k - 1] => sb[k] = f[k]
    BY <1>4, <1>7 DEF Joined
  <2> QED
    BY <1>1, <1>4, <1>7, <2>1, SameLoop
<1>9. sb \in [0..Len(a) -> Seq(Parts)]
  <2>1. sb = [k \in 0..Len(a) |-> sb[k]]
    BY <1>6
  <2> HIDE DEF sb
  <2> QED
    BY <1>4, <1>8, <2>1 DEF Alike
<1>10. String(a) = sb[Len(a)]
  BY DEF String, Joined
<1> QED
  BY <1>7, <1>9, <1>10 DEF StringRuns

\* Every address has a text.
LEMMA StringType ==
  ASSUME NEW a \in Seq(Writable)
  PROVE  String(a) \in Seq(Parts) \ {<<>>}
<1>1. CASE a = <<>>
  <2>1. String(a) = <<Part(Blank, <<>>)>>
    BY <1>1 DEF String
  <2>2. Part(Blank, <<>>) \in Parts
    BY DEF Part, Parts, Plain
  <2> QED
    BY <2>1, <2>2
<1>2. CASE a # <<>>
  <2>1. PICK sb : StringRuns(a, sb) /\ String(a) = sb[Len(a)]
    BY <1>2, StringLoop
  <2> DEFINE n == Len(a)
             t == sb[n - 1]
             u == Render(a[n])
  <2>2. n \in Nat \ {0} /\ a[n] \in Writable
    BY <1>2
  <2>3. t \in Seq(Parts) /\ sb[n] = t \o u
    <3>1. n - 1 \in 0..n /\ n \in 1..n
      BY <2>2
    <3>2. sb \in [0..n -> Seq(Parts)]
      BY <2>1 DEF StringRuns
    <3>3. t \in Seq(Parts)
      BY <3>1, <3>2
    <3>4. sb[n] = Joined(sb, a, n)
      BY <2>1, <3>1 DEF StringRuns
    <3> QED
      BY <3>3, <3>4 DEF Joined
  <2>4. u \in Seq(Parts) \ {<<>>}
    BY <2>2, RenderType
  <2> HIDE DEF t, u
  <2>5. t \o u \in Seq(Parts) \ {<<>>}
    BY <2>3, <2>4
  <2> QED
    BY <2>1, <2>3, <2>5
<1> QED
  BY <1>1, <1>2


\* What String writes for a segment with a name and an index as Parse makes
\* them: one part.
PartOf(seg) == Part(seg.name, IF seg.index = -1 THEN <<>> ELSE Decimal[seg.index])

LEMMA SegmentsAreWritable == Segments \subseteq Writable
BY IdAssumption DEF Segments, Writable, Plain

LEMMA RenderPart ==
  ASSUME NEW seg \in Segments
  PROVE  /\ Render(seg) = <<PartOf(seg)>>
         /\ PartOf(seg) \in Parts
         /\ PartOf(seg).name = seg.name
         /\ seg.index = -1 => PartOf(seg).digits = <<>>
         /\ seg.index # -1 => /\ PartOf(seg).digits # <<>>
                              /\ Value(PartOf(seg).digits) = seg.index
<1> DEFINE n == seg.name
           i == seg.index
           d == IF i = -1 THEN <<>> ELSE Decimal[i]
<1>1. /\ n \in Plain /\ n \notin {Blank, Garbled} /\ i \in Int
      /\ i # -1 => i \in Nat
  BY IdAssumption DEF Segments, Plain
<1>2. d \in Seq(Digit) /\ (i # -1 => d # <<>> /\ Value(d) = i)
  BY <1>1, DecimalType, ValueOfDecimal
<1>3. PartOf(seg) = [name |-> n, digits |-> d]
  BY DEF PartOf, Part
<1>4. Render(seg) = <<PartOf(seg)>>
  <2>1. TextOf(n) = <<Part(n, <<>>)>>
    BY <1>1 DEF TextOf
  <2>2. Front(<<Part(n, <<>>)>>) = <<>> /\ Last(<<Part(n, <<>>)>>) = Part(n, <<>>)
    BY DEF Front, Last
  <2>3. i # -1 => Bracketed(Part(n, <<>>), i) = Part(n, Decimal[i])
    BY <1>1 DEF Bracketed, Part
  <2>4. CASE i = -1
    BY <2>1, <2>4 DEF Render, PartOf
  <2>5. CASE i # -1
    <3>1. Render(seg) = Append(<<>>, Part(n, Decimal[i]))
      BY <2>1, <2>2, <2>3, <2>5 DEF Render
    <3>2. PartOf(seg) = Part(n, Decimal[i])
      BY <2>5 DEF PartOf
    <3> QED
      BY <3>1, <3>2
  <2> QED
    BY <2>4, <2>5
<1>5. [name |-> n, digits |-> d] \in Parts
  BY <1>1, <1>2 DEF Parts
<1> HIDE DEF d
<1>6. PartOf(seg).name = n /\ PartOf(seg).digits = d
  BY <1>3
<1>7. i = -1 => d = <<>>
  BY DEF d
<1> QED
  BY <1>1, <1>2, <1>3, <1>4, <1>5, <1>6, <1>7

\* String writes segment after segment.
LEMMA StringOfSegments ==
  ASSUME NEW a \in Seq(Segments), a # <<>>
  PROVE  String(a) = [i \in 1..Len(a) |-> PartOf(a[i])]
<1> DEFINE n == Len(a)
           g == [k \in 0..n |-> [i \in 1..k |-> PartOf(a[i])]]
<1>1. a \in Seq(Writable) /\ n \in Nat
  BY SegmentsAreWritable
<1>2. PICK sb : StringRuns(a, sb) /\ String(a) = sb[n]
  BY <1>1, StringLoop
<1>3. ASSUME NEW k \in 1..n PROVE Joined(g, a, k) = g[k]
  <2>1. a[k] \in Segments /\ Render(a[k]) = <<PartOf(a[k])>>
    BY RenderPart
  <2>2. /\ k - 1 \in 0..n /\ k - 1 \in Nat
        /\ g[k - 1] = [i \in 1..k - 1 |-> PartOf(a[i])]
        /\ g[k] = [i \in 1..k |-> PartOf(a[i])]
    BY <1>1
  <2>3. \A i \in 1..k : PartOf(a[i]) \in Parts
    BY RenderPart
  <2> DEFINE s == g[k - 1]
             t == g[k]
             part == PartOf(a[k])
  <2>4. s \in Seq(Parts) /\ Len(s) = k - 1 /\ t \in Seq(Parts) /\ Len(t) = k
    BY <2>2, <2>3
  <2>5. part \in Parts /\ t[k] = part /\ \A i \in 1..k - 1 : t[i] = s[i]
    BY <2>2, <2>3
  <2> HIDE DEF s, t, part
  <2>6. s \o <<part>> = t
    BY <2>4, <2>5
  <2> QED
    BY <2>1, <2>6 DEF Joined, s, t, part
<1>4. Alike(n, sb, g)
  <2>1. sb[0] = g[0]
    <3>1. g[0] = [i \in 1..0 |-> PartOf(a[i])]
      BY <1>1
    <3>2. g[0] = <<>>
      BY <3>1
    <3> QED
      BY <1>2, <3>2 DEF StringRuns
  <2>2. ASSUME NEW k \in 1..n, sb[k - 1] = g[k - 1] PROVE sb[k] = g[k]
    <3> HIDE DEF g
    <3>1. sb[k] = Joined(sb, a, k)
      BY <1>2 DEF StringRuns
    <3> QED
      BY <1>3, <2>2, <3>1 DEF Joined
  <2> HIDE DEF g
  <2> QED
    BY <1>1, <2>1, <2>2, SameLoop
<1>5. sb[n] = g[n]
  <2> HIDE DEF g
  <2> QED
    BY <1>1, <1>4 DEF Alike
<1> QED
  BY <1>1, <1>2, <1>5

\* Parse makes of a text that String wrote the address that it wrote.
LEMMA ParseOfString ==
  ASSUME NEW a \in Seq(Segments), a # <<>>
  PROVE  Parse(String(a)) = a
<1> DEFINE n == Len(a)
           s == String(a)
<1>1. n \in Nat /\ \A i \in 1..n : a[i] \in Segments
  OBVIOUS
<1>2. s = [i \in 1..n |-> PartOf(a[i])]
  BY StringOfSegments
<1> HIDE DEF s
<1>3. DOMAIN s = 1..n /\ \A i \in 1..n : s[i] = PartOf(a[i])
  BY <1>2
<1>4. ASSUME NEW i \in 1..n PROVE ~Refused(s[i])
  <2>1. /\ s[i].name = a[i].name
        /\ s[i].digits # <<>> => Value(s[i].digits) = a[i].index
    BY <1>1, <1>3, RenderPart
  <2>2. a[i].name \in IdNames /\ a[i].index \in -1..MaxIndex
    BY <1>1 DEF Segments
  <2> QED
    BY <2>1, <2>2, IdAssumption DEF Refused
<1>5. Parse(s) = [i \in 1..n |->
                    [name |-> s[i].name,
                     index |-> IF s[i].digits = <<>> THEN -1 ELSE Value(s[i].digits)]]
  BY <1>3, <1>4 DEF Parse
<1>6. ASSUME NEW i \in 1..n
      PROVE  [name |-> s[i].name,
              index |-> IF s[i].digits = <<>> THEN -1 ELSE Value(s[i].digits)] = a[i]
  <2>1. /\ s[i].name = a[i].name
        /\ a[i].index = IF s[i].digits = <<>> THEN -1 ELSE Value(s[i].digits)
    BY <1>1, <1>3, RenderPart
  <2>2. a[i] = [name |-> a[i].name, index |-> a[i].index]
    BY <1>1 DEF Segments
  <2> QED
    BY <2>1, <2>2
<1>7. Parse(s) = [i \in 1..n |-> a[i]]
  BY <1>5, <1>6
<1>8. a = [i \in 1..n |-> a[i]]
  OBVIOUS
<1> QED
  BY <1>7, <1>8 DEF s

\* What Parse makes of a text that it does not refuse.
Parsed(text) == \A i \in DOMAIN text : ~Refused(text[i])

LEMMA ParseType ==
  ASSUME NEW text \in Seq(Parts), text # <<>>, Parsed(text)
  PROVE  /\ Parse(text) \in Seq(Segments) /\ Parse(text) # <<>>
         /\ Len(Parse(text)) = Len(text)
         /\ \A i \in 1..Len(text) :
              /\ Parse(text)[i].name = text[i].name
              /\ Parse(text)[i].index =
                   IF text[i].digits = <<>> THEN -1 ELSE Value(text[i].digits)
<1> DEFINE seg(i) ==
      [name |-> text[i].name,
       index |-> IF text[i].digits = <<>> THEN -1 ELSE Value(text[i].digits)]
<1>1. Parse(text) = [i \in 1..Len(text) |-> seg(i)]
  <2>1. DOMAIN text = 1..Len(text)
    OBVIOUS
  <2>2. Parse(text) = [i \in DOMAIN text |-> seg(i)]
    BY DEF Parse, Parsed
  <2> HIDE DEF seg
  <2> QED
    BY <2>1, <2>2
<1>2. ASSUME NEW i \in 1..Len(text) PROVE seg(i) \in Segments
  <2>1. text[i] \in Parts /\ ~Refused(text[i])
    BY DEF Parsed
  <2>2. text[i].name \in IdNames
    BY <2>1 DEF Parts, Refused, Plain
  <2>3. text[i].digits # <<>> => Value(text[i].digits) \in 0..MaxIndex
    BY <2>1, ValueType, IdAssumption DEF Parts, Refused
  <2> QED
    BY <2>2, <2>3, IdAssumption DEF Segments
<1>3. Len(text) \in Nat \ {0}
  OBVIOUS
<1>4. \A i \in 1..Len(text) :
        /\ seg(i).name = text[i].name
        /\ seg(i).index = IF text[i].digits = <<>> THEN -1 ELSE Value(text[i].digits)
  OBVIOUS
<1> HIDE DEF seg
<1>5. [i \in 1..Len(text) |-> seg(i)] \in Seq(Segments)
  BY <1>2, <1>3
<1> QED
  BY <1>1, <1>3, <1>4, <1>5

\* And String gives the text back, if no number has needless zeros.
LEMMA StringOfParse ==
  ASSUME NEW text \in Seq(Parts), text # <<>>, Parsed(text), Canonical(text)
  PROVE  String(Parse(text)) = text
<1> DEFINE a == Parse(text)
           n == Len(text)
<1>1. /\ a \in Seq(Segments) /\ a # <<>> /\ Len(a) = n
      /\ \A i \in 1..n : /\ a[i].name = text[i].name
                         /\ a[i].index = IF text[i].digits = <<>> THEN -1
                                         ELSE Value(text[i].digits)
  BY ParseType
<1> HIDE DEF a
<1>2. String(a) = [i \in 1..n |-> PartOf(a[i])]
  BY <1>1, StringOfSegments
<1>3. ASSUME NEW i \in 1..n PROVE PartOf(a[i]) = text[i]
  <2> DEFINE d == text[i].digits
  <2>1. text[i] = [name |-> text[i].name, digits |-> d] /\ d \in Seq(Digit)
    <3>1. text[i] \in Parts
      OBVIOUS
    <3> QED
      BY <3>1 DEF Parts
  <2>2. d # <<>> => Value(d) \in Nat /\ Decimal[Value(d)] = d
    BY <2>1, ValueType, DecimalOfValue DEF Canonical
  <2>3. d = IF a[i].index = -1 THEN <<>> ELSE Decimal[a[i].index]
    <3> HIDE DEF d
    <3> QED
      BY <1>1, <2>2 DEF d
  <2> QED
    BY <1>1, <2>1, <2>3 DEF PartOf, Part
<1>4. text = [i \in 1..n |-> text[i]]
  OBVIOUS
<1> QED
  BY <1>2, <1>3, <1>4 DEF a


-----------------------------------------------------------------------------
(* The way of an address through the topology store.                       *)

\* A text to parse has parts; an address was parsed or built; its key is its
\* text, and what comes back is the parse of the key.
IdInv ==
  /\ idAt \in {"raw", "failed", "held", "stored", "read"}
  /\ raw # <<>> => raw \in Seq(Parts)
  /\ idAt = "raw" => raw # <<>>
  /\ idAt \in {"held", "stored", "read"} =>
       /\ address \in Seq(Writable)
       /\ raw # <<>> => address \in Seq(Segments) /\ address # <<>>
  /\ idAt \in {"stored", "read"} => key = String(address)
  /\ idAt = "read" => back = Parse(key)

LEMMA SeqOfIsSeq ==
  ASSUME NEW S, NEW n
  PROVE  SeqOf(S, n) \subseteq Seq(S)
BY DEF SeqOf

LEMMA DigitsAreSeq == Digits \subseteq Seq(Digit) \ {<<>>}
<1> SUFFICES ASSUME NEW k \in 1..MaxDigits, NEW d \in [1..k -> 0..Base - 1]
             PROVE  d \in Seq(Digit) \ {<<>>}
  BY DEF Digits
<1>1. k \in Nat \ {0} /\ d \in Seq(Digit) /\ Len(d) = k
  BY IdAssumption DEF Digit
<1> QED
  BY <1>1

LEMMA TextsAreParts == Texts \subseteq Seq(Parts)
<1> DEFINE P == {Part(n, d) : n \in IdNames \cup {Dash}, d \in Digits \cup {<<>>}}
                  \cup {Part(Blank, <<>>), Part(Garbled, <<>>)}
<1>1. P \subseteq Parts
  <2>1. ASSUME NEW n \in IdNames \cup {Dash}, NEW d \in Digits \cup {<<>>}
        PROVE  Part(n, d) \in Parts
    <3>1. <<>> \in Seq(Digit)
      OBVIOUS
    <3>2. d \in Seq(Digit)
      BY <3>1, DigitsAreSeq
    <3> QED
      BY <3>2 DEF Part, Parts, Plain
  <2>2. Part(Blank, <<>>) \in Parts /\ Part(Garbled, <<>>) \in Parts
    BY DEF Part, Parts, Plain
  <2> QED
    BY <2>1, <2>2
<1>2. Texts \subseteq Seq(P)
  <2> HIDE DEF P
  <2>1. SeqOf(P, MaxParts) \subseteq Seq(P)
    BY SeqOfIsSeq
  <2> QED
    BY <2>1 DEF Texts, P
<1> HIDE DEF P
<1> QED
  BY <1>1, <1>2

LEMMA BuiltAreWritable == Built \subseteq Seq(Writable)
<1> DEFINE N == Plain \cup {<<Part(n, <<>>), Part(m, <<>>)>> : n, m \in IdNames}
                      \cup {<<Part(n, d)>> : n \in IdNames, d \in Digits}
           W == [name : N, index : -2..1]
<1>1. ASSUME NEW n \in IdNames, NEW d \in Seq(Digit) PROVE Part(n, d) \in Parts
  BY DEF Part, Parts, Plain
<1>2. N \subseteq Plain \cup (Seq(Parts) \ {<<>>})
  <2>1. ASSUME NEW n \in IdNames, NEW m \in IdNames
        PROVE  <<Part(n, <<>>), Part(m, <<>>)>> \in Seq(Parts) \ {<<>>}
    <3> DEFINE p == Part(n, <<>>)
               q == Part(m, <<>>)
    <3>0. <<>> \in Seq(Digit)
      OBVIOUS
    <3>1. p \in Parts /\ q \in Parts
      BY <1>1, <3>0
    <3> HIDE DEF p, q
    <3>2. <<p, q>> \in Seq(Parts) /\ <<p, q>> # <<>>
      BY <3>1
    <3> QED
      BY <3>2 DEF p, q
  <2>2. ASSUME NEW n \in IdNames, NEW d \in Digits
        PROVE  <<Part(n, d)>> \in Seq(Parts) \ {<<>>}
    BY <1>1, DigitsAreSeq
  <2>3. ASSUME NEW x \in N, x \notin Plain
        PROVE  \/ \E n, m \in IdNames : x = <<Part(n, <<>>), Part(m, <<>>)>>
               \/ \E n \in IdNames, d \in Digits : x = <<Part(n, d)>>
    BY <2>3
  <2> HIDE DEF N
  <2> QED
    BY <2>1, <2>2, <2>3
<1>3. W \subseteq Writable
  <2> HIDE DEF N
  <2> QED
    BY <1>2 DEF Writable
<1>4. Built \subseteq Seq(W)
  <2>1. SeqOf(W, MaxParts) \subseteq Seq(W)
    BY SeqOfIsSeq
  <2> QED
    BY <2>1 DEF Built
<1> HIDE DEF W
<1> QED
  BY <1>3, <1>4

LEMMA WellNamedAreSegments == WellNamed \subseteq Seq(Segments) \ {<<>>}
<1>1. SeqOf(Segments, MaxParts) \subseteq Seq(Segments)
  BY SeqOfIsSeq
<1> QED
  BY <1>1 DEF WellNamed, Segments

\* IdInv holds from the start on, and through every step.
THEOREM IdInvariant == IdSpec => []IdInv
<1>1. IdInit => IdInv
  BY TextsAreParts, BuiltAreWritable DEF IdInit, IdInv, Texts
<1>2. IdInv /\ [IdNext]_idVars => IdInv'
  <2> SUFFICES ASSUME IdInv, [IdNext]_idVars PROVE IdInv'
    OBVIOUS
  <2>1. CASE ParseRaw
    <3>1. raw \in Seq(Parts) /\ raw # <<>> /\ raw' = raw
      BY <2>1 DEF ParseRaw, IdInv
    <3>2. ASSUME idAt' # "failed"
          PROVE  address' \in Seq(Segments) /\ address' # <<>>
      <4>1. Parsed(raw)
        BY <2>1, <3>2 DEF ParseRaw, Parse, Parsed
      <4> QED
        BY <2>1, <3>1, <4>1, ParseType DEF ParseRaw
    <3>3. idAt' # "failed" => address' \in Seq(Writable)
      BY <3>2, SegmentsAreWritable
    <3>4. idAt' \in {"failed", "held"}
      BY <2>1 DEF ParseRaw
    <3> QED
      BY <3>1, <3>2, <3>3, <3>4 DEF IdInv
  <2>2. CASE AddDependency
    BY <2>2 DEF AddDependency, IdInv
  <2>3. CASE DependenciesOf
    BY <2>3 DEF DependenciesOf, IdInv
  <2>4. CASE UNCHANGED idVars
    BY <2>4 DEF idVars, IdInv
  <2> QED
    BY <2>1, <2>2, <2>3, <2>4 DEF IdNext
<1> QED
  BY <1>1, <1>2, PTL DEF IdSpec

\* An address comes back as it went in, however many segments it has and
\* however large their indices are, if it was parsed or has names and
\* indices that a text can have.
THEOREM AddressesComeBack == IdSpec => []ReadBackIsSame
<1>1. IdInv => ReadBackIsSame
  <2> SUFFICES ASSUME IdInv, idAt = "read", raw # <<>> \/ address \in WellNamed
               PROVE  back = address
    BY DEF ReadBackIsSame
  <2>1. address \in Seq(Segments) /\ address # <<>>
    BY WellNamedAreSegments DEF IdInv
  <2>2. back = Parse(String(address))
    BY DEF IdInv
  <2> QED
    BY <2>1, <2>2, ParseOfString
<1> QED
  BY <1>1, IdInvariant, PTL

\* No two addresses of that kind share a key: the stores keep their nodes
\* apart.
THEOREM KeysTellAddresses == IdSpec => []KeyTellsAddress
<1>1. IdInv => KeyTellsAddress
  <2> SUFFICES ASSUME IdInv, idAt = "stored", raw # <<>> \/ address \in WellNamed,
                      NEW other \in WellNamed, String(other) = key
               PROVE  other = address
    BY DEF KeyTellsAddress
  <2>1. /\ address \in Seq(Segments) /\ address # <<>>
        /\ other \in Seq(Segments) /\ other # <<>>
    BY WellNamedAreSegments DEF IdInv
  <2>2. String(other) = String(address)
    BY DEF IdInv
  <2>3. Parse(String(other)) = other /\ Parse(String(address)) = address
    BY <2>1, ParseOfString
  <2> QED
    BY <2>2, <2>3
<1> QED
  BY <1>1, IdInvariant, PTL

\* Whatever address was built, one that is read back has the key that it was
\* read from.
THEOREM KeysComeBack == IdSpec => []ReadBackHasKey
<1>1. IdInv => ReadBackHasKey
  <2> SUFFICES ASSUME IdInv, idAt = "read", back # Failed, Canonical(key)
               PROVE  String(back) = key
    BY DEF ReadBackHasKey
  <2>1. key \in Seq(Parts) /\ key # <<>>
    BY StringType DEF IdInv
  <2>2. back = Parse(key)
    BY DEF IdInv
  <2>3. Parsed(key)
    BY <2>2 DEF Parse, Parsed
  <2> QED
    BY <2>1, <2>2, <2>3, StringOfParse
<1> QED
  BY <1>1, IdInvariant, PTL

=============================================================================
