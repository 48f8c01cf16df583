--------------------------- MODULE LibraryProofs ---------------------------
(***************************************************************************)
(* The two libraries the processes rest on.                                *)
(*                                                                         *)
(* The erasure code: that ReedSolomon inverts what it is given, is never   *)
(* given a matrix that has no inverse and restores every stripe, for every *)
(* number of data and parity shards and over every field whose elements    *)
(* are their own negatives.  The argument has three parts: the elimination *)
(* keeps the solutions of a system of equations; a polynomial has no more  *)
(* roots than its degree, so any rows of a Vandermonde matrix have an      *)
(* inverse, and so have any rows of the coding matrix; and the stripe in   *)
(* ErasureInv.                                                             *)
(*                                                                         *)
(* The calls: that the threads which share a connection get their own      *)
(* answers and that none of them waits in vain, the invariant RpcInv of    *)
(* Rpc and what follows from it, for every number of threads, all the      *)
(* calls they may make and every bound on the numbers of the calls.        *)
(***************************************************************************)
EXTENDS ReedSolomon, Rpc, FiniteSetTheorems, WellFoundedInduction, TLAPS

\* A field in which every element is its own negative.
FieldLaws ==
  /\ PairLaws
  /\ \A a, b, c \in Elements :
       /\ add(add(a, b), c) = add(a, add(b, c))
       /\ multiply(multiply(a, b), c) = multiply(a, multiply(b, c))
       /\ multiply(a, add(b, c)) = add(multiply(a, b), multiply(a, c))

\* A set of numbers has a least one.
LEMMA LeastNumber ==
  ASSUME NEW T \in SUBSET Nat, T # {}
  PROVE  \E x \in T : \A y \in T : x <= y
<1>1. IsWellFoundedOn(OpToRel(<, Nat), Nat)
  BY NatLessThanWellFounded, Zenon
<1>2. \E x \in T : \A y \in T : <<y, x>> \notin OpToRel(<, Nat)
  BY <1>1, WFMin, Zenon
<1>3. \A x, y \in Nat : <<y, x>> \notin OpToRel(<, Nat) => ~(y < x)
  BY Zenon DEF OpToRel
<1>4. \A x, y \in Nat : ~(y < x) => x <= y
  OBVIOUS
<1> QED
  BY <1>2, <1>3, <1>4, Zenon

\* The laws that TLC tries on the tables of Galois.cpp are all the laws.
THEOREM FieldFromGenerator ==
  ASSUME NEW g, NEW log, NEW bits, GeneratorLaws(g, log, bits)
  PROVE  FieldLaws
<1>1. PairLaws /\ g \in Elements /\ bits \subseteq Elements /\ Elements \subseteq Nat
  BY DEF GeneratorLaws
<1>2. /\ {0, 1} \subseteq Elements
      /\ \A a, b \in Elements :
           /\ add(a, b) \in Elements /\ add(a, b) = add(b, a)
           /\ multiply(a, b) \in Elements /\ multiply(a, b) = multiply(b, a)
      /\ \A a \in Elements :
           /\ add(0, a) = a
           /\ multiply(1, a) = a /\ multiply(0, a) = 0
  BY <1>1 DEF PairLaws
\* Addition.
<1> DEFINE Sums(a) == \A b, c \in Elements : add(add(a, b), c) = add(a, add(b, c))
<1>3. \A p \in bits : Sums(p)
  BY DEF GeneratorLaws
<1>4. ASSUME NEW p \in bits, NEW a \in Elements, Sums(a)
      PROVE  Sums(add(p, a))
  <2> SUFFICES ASSUME NEW b \in Elements, NEW c \in Elements
               PROVE  add(add(add(p, a), b), c) = add(add(p, a), add(b, c))
    OBVIOUS
  <2>0. p \in Elements /\ add(a, b) \in Elements /\ add(b, c) \in Elements
    BY <1>1, <1>2
  <2>1. add(add(add(p, a), b), c) = add(add(p, add(a, b)), c)
    BY <1>3
  <2>2. add(add(p, add(a, b)), c) = add(p, add(add(a, b), c))
    BY <1>3, <2>0
  <2>3. add(p, add(add(a, b), c)) = add(p, add(a, add(b, c)))
    BY <1>4
  <2>4. add(p, add(a, add(b, c))) = add(add(p, a), add(b, c))
    BY <1>3, <2>0
  <2> QED
    BY <2>1, <2>2, <2>3, <2>4
<1>5. Sums(0)
  BY <1>2
<1>6. \A a \in Elements : Sums(a)
  <2> DEFINE T == {a \in Elements : ~Sums(a)}
  <2> HIDE DEF Sums
  <2>1. T \in SUBSET Nat
    BY <1>1
  <2> SUFFICES ASSUME T # {} PROVE FALSE
    OBVIOUS
  <2>2. PICK x \in T : \A y \in T : x <= y
    <3> HIDE DEF T
    <3> QED
      BY <2>1, LeastNumber
  <2>3. x \in Elements \ {0} /\ ~Sums(x)
    BY <1>5, <2>2
  <2>4. PICK p \in bits, b \in Elements : x = add(p, b) /\ b < x
    BY <2>3 DEF GeneratorLaws
  <2>5. b \notin T
    BY <1>1, <2>2, <2>3, <2>4
  <2> QED
    BY <1>4, <2>3, <2>4, <2>5
\* Multiplication: what holds of g holds of its powers.
<1> DEFINE Factor(a) ==
      \A b, c \in Elements :
        /\ multiply(multiply(a, b), c) = multiply(a, multiply(b, c))
        /\ multiply(a, add(b, c)) = add(multiply(a, b), multiply(a, c))
<1>7. Factor(g)
  BY DEF GeneratorLaws
<1>8. ASSUME NEW a \in Elements, Factor(a)
      PROVE  Factor(multiply(g, a))
  <2> SUFFICES ASSUME NEW b \in Elements, NEW c \in Elements
               PROVE  /\ multiply(multiply(multiply(g, a), b), c) =
                           multiply(multiply(g, a), multiply(b, c))
                      /\ multiply(multiply(g, a), add(b, c)) =
                           add(multiply(multiply(g, a), b), multiply(multiply(g, a), c))
    OBVIOUS
  <2>0. /\ g \in Elements
        /\ multiply(a, b) \in Elements /\ multiply(b, c) \in Elements
        /\ multiply(a, c) \in Elements /\ add(b, c) \in Elements
    BY <1>1, <1>2
  <2>1. /\ multiply(multiply(g, a), b) = multiply(g, multiply(a, b))
        /\ multiply(multiply(g, a), c) = multiply(g, multiply(a, c))
        /\ multiply(multiply(g, a), multiply(b, c)) = multiply(g, multiply(a, multiply(b, c)))
        /\ multiply(multiply(g, a), add(b, c)) = multiply(g, multiply(a, add(b, c)))
    BY <1>7, <2>0
  <2>2. multiply(multiply(g, multiply(a, b)), c) = multiply(g, multiply(multiply(a, b), c))
    BY <1>7, <2>0
  <2>3. multiply(g, add(multiply(a, b), multiply(a, c))) =
          add(multiply(g, multiply(a, b)), multiply(g, multiply(a, c)))
    BY <1>7, <2>0
  <2> QED
    BY <1>8, <2>1, <2>2, <2>3
<1>9. Factor(0) /\ Factor(1)
  BY <1>2
<1>10. \A a \in Elements : Factor(a)
  <2> DEFINE T == {log[a] : a \in {e \in Elements \ {0} : ~Factor(e)}}
  <2> HIDE DEF Factor
  <2> SUFFICES ASSUME NEW e \in Elements, ~Factor(e) PROVE FALSE
    OBVIOUS
  <2>1. T \in SUBSET Nat /\ T # {}
    BY <1>9 DEF GeneratorLaws
  <2>2. PICK n \in T : \A y \in T : n <= y
    <3> HIDE DEF T
    <3> QED
      BY <2>1, LeastNumber
  <2>3. PICK x \in Elements \ {0} : ~Factor(x) /\ n = log[x]
    BY <2>2
  <2>4. x # 1
    BY <1>9, <2>3
  <2>5. PICK b \in Elements \ {0} : x = multiply(g, b) /\ log[b] < log[x]
    BY <2>4 DEF GeneratorLaws
  <2>6. log[b] \in Nat /\ log[x] \in Nat
    BY DEF GeneratorLaws
  <2>7. Factor(b)
    <3>1. log[b] \notin T
      <4> HIDE DEF T
      <4> QED
        BY <2>1, <2>2, <2>3, <2>5, <2>6
    <3> QED
      BY <3>1, Zenon
  <2> QED
    BY <1>8, <2>3, <2>5, <2>7
<1> QED
  BY <1>1, <1>6, <1>10 DEF FieldLaws

\* The laws, one by one.
LEMMA Closed ==
  ASSUME FieldLaws
  PROVE  /\ 0 \in Elements /\ 1 \in Elements
         /\ \A a, b \in Elements : add(a, b) \in Elements
         /\ \A a, b \in Elements : multiply(a, b) \in Elements
  BY DEF FieldLaws, PairLaws

\* 0 and 1, and every element is its own negative.
LEMMA Neutral ==
  ASSUME FieldLaws
  PROVE  /\ \A a \in Elements : add(0, a) = a /\ add(a, 0) = a /\ add(a, a) = 0
         /\ \A a \in Elements :
              /\ multiply(1, a) = a /\ multiply(a, 1) = a
              /\ multiply(0, a) = 0 /\ multiply(a, 0) = 0
  BY DEF FieldLaws, PairLaws

\* The order of the operands does not matter.
LEMMA Commutes ==
  ASSUME FieldLaws
  PROVE  /\ \A a, b \in Elements : add(a, b) = add(b, a)
         /\ \A a, b \in Elements : multiply(a, b) = multiply(b, a)
  BY DEF FieldLaws, PairLaws

\* Nor do the parentheses.
LEMMA Associates ==
  ASSUME FieldLaws
  PROVE  /\ \A a, b, c \in Elements : add(add(a, b), c) = add(a, add(b, c))
         /\ \A a, b, c \in Elements :
              multiply(multiply(a, b), c) = multiply(a, multiply(b, c))
  BY DEF FieldLaws

\* Products of sums, from both sides.
LEMMA Distributes ==
  ASSUME FieldLaws, NEW a \in Elements, NEW b \in Elements, NEW c \in Elements
  PROVE  /\ multiply(a, add(b, c)) = add(multiply(a, b), multiply(a, c))
         /\ multiply(add(b, c), a) = add(multiply(b, a), multiply(c, a))
<1>1. multiply(a, add(b, c)) = add(multiply(a, b), multiply(a, c))
  BY DEF FieldLaws
<1>2. multiply(add(b, c), a) = multiply(a, add(b, c))
  BY Closed, Commutes
<1>3. multiply(a, b) = multiply(b, a) /\ multiply(a, c) = multiply(c, a)
  BY Commutes
<1> QED
  BY <1>1, <1>2, <1>3

\* The four summands of two sums change places.
LEMMA AddFour ==
  ASSUME FieldLaws, NEW a \in Elements, NEW b \in Elements, NEW c \in Elements, NEW d \in Elements
  PROVE  add(add(a, b), add(c, d)) = add(add(a, c), add(b, d))
<1>1. add(b, add(c, d)) = add(c, add(b, d))
  <2>1. add(b, add(c, d)) = add(add(b, c), d) /\ add(c, add(b, d)) = add(add(c, b), d)
    BY Associates
  <2> QED
    BY <2>1, Commutes
<1>2. add(c, d) \in Elements /\ add(b, d) \in Elements
  BY Closed
<1>3. add(add(a, b), add(c, d)) = add(a, add(b, add(c, d)))
  BY <1>2, Associates
<1>4. add(add(a, c), add(b, d)) = add(a, add(c, add(b, d)))
  BY <1>2, Associates
<1> QED
  BY <1>1, <1>3, <1>4

\* A function that adds up f step by step is the sum of f.
LEMMA SumIs ==
  ASSUME NEW n \in Nat, NEW f, NEW g, g[0] = 0,
         \A i \in 0..(n - 1) : g[i + 1] = add(g[i], f[i])
  PROVE  SumOf(f, n) = g[n]
<1> DEFINE h == [i \in 0..n |-> g[i]]
           s == CHOOSE x : x = [i \in 0..n |-> IF i = 0 THEN 0 ELSE add(x[i - 1], f[i - 1])]
<1>1. \A i \in 1..n : i - 1 \in 0..(n - 1) /\ (i - 1) + 1 = i
  OBVIOUS
<1>2. \A i \in 0..n : i = 0 \/ i \in 1..n
  OBVIOUS
<1>3. \A i \in 0..n : g[i] = IF i = 0 THEN 0 ELSE add(g[i - 1], f[i - 1])
  BY <1>1, <1>2, Zenon
<1>4. h = [i \in 0..n |-> IF i = 0 THEN 0 ELSE add(h[i - 1], f[i - 1])]
  <2>1. \A i \in 0..n : i = 0 \/ h[i - 1] = g[i - 1]
    OBVIOUS
  <2>2. \A i \in 0..n : h[i] = IF i = 0 THEN 0 ELSE add(h[i - 1], f[i - 1])
    BY <1>3, <2>1
  <2> QED
    BY <2>2
<1>5. s = [i \in 0..n |-> IF i = 0 THEN 0 ELSE add(s[i - 1], f[i - 1])]
  <2>1. \E x : x = [i \in 0..n |-> IF i = 0 THEN 0 ELSE add(x[i - 1], f[i - 1])]
    BY <1>4, Zenon
  <2> QED
    BY <2>1, Zenon
<1>6. SumOf(f, n) = s[n]
  BY Zenon DEF SumOf
<1> HIDE DEF s, h
<1>7. \A i \in 0..n : s[i] = IF i = 0 THEN 0 ELSE add(s[i - 1], f[i - 1])
  BY <1>5, Zenon
<1>8. \A i \in 0..n : s[i] = g[i]
  <2> DEFINE T == {i \in 0..n : s[i] # g[i]}
  <2> SUFFICES ASSUME T # {} PROVE FALSE
    OBVIOUS
  <2>1. T \in SUBSET Nat
    OBVIOUS
  <2>2. PICK x \in T : \A y \in T : x <= y
    <3> HIDE DEF T
    <3> QED
      BY <2>1, LeastNumber
  <2>3. x \in 0..n /\ s[x] # g[x]
    BY <2>2
  <2>4. x # 0
    BY <1>3, <1>7, <2>3
  <2>5. x - 1 \in 0..n /\ x - 1 \notin T
    BY <2>2, <2>3, <2>4
  <2>6. s[x - 1] = g[x - 1]
    BY <2>5
  <2> QED
    BY <1>3, <1>7, <2>3, <2>4, <2>6, Zenon
<1> QED
  BY <1>6, <1>8

\* There is such a function.
LEMMA SumExists ==
  ASSUME NEW f, NEW n \in Nat
  PROVE  \E g : g[0] = 0 /\ \A i \in 0..(n - 1) : g[i + 1] = add(g[i], f[i])
<1> DEFINE Upto(g, m) == g[0] = 0 /\ \A i \in 0..(m - 1) : g[i + 1] = add(g[i], f[i])
           T == {m \in Nat : ~\E g : Upto(g, m)}
<1> SUFFICES ASSUME T # {} PROVE FALSE
  OBVIOUS
<1>1. PICK x \in T : \A y \in T : x <= y
  <2>1. T \in SUBSET Nat
    OBVIOUS
  <2> HIDE DEF T
  <2> QED
    BY <2>1, LeastNumber
<1>2. x \in Nat /\ ~\E g : Upto(g, x)
  BY <1>1
<1>3. x # 0
  <2>1. Upto([i \in {0} |-> 0], 0)
    OBVIOUS
  <2> QED
    BY <1>2, <2>1
<1>4. x - 1 \in Nat /\ x - 1 \notin T
  BY <1>1, <1>2, <1>3
<1>5. PICK g : Upto(g, x - 1)
  BY <1>4
<1> DEFINE h == [i \in 0..x |-> IF i = x THEN add(g[x - 1], f[x - 1]) ELSE g[i]]
<1>6. Upto(h, x)
  <2>1. h[0] = 0
    BY <1>2, <1>3, <1>5
  <2>2. ASSUME NEW i \in 0..(x - 1) PROVE h[i + 1] = add(h[i], f[i])
    <3>1. CASE i = x - 1
      BY <1>2, <1>3, <3>1
    <3>2. CASE i # x - 1
      <4>1. i \in 0..((x - 1) - 1) /\ i + 1 \in 0..x /\ i + 1 # x /\ i \in 0..x /\ i # x
        BY <1>2, <1>3, <3>2
      <4>2. h[i + 1] = g[i + 1] /\ h[i] = g[i]
        BY <4>1
      <4> QED
        BY <1>5, <4>1, <4>2
    <3> QED
      BY <3>1, <3>2
  <2> QED
    BY <2>1, <2>2
<1> QED
  BY <1>2, <1>6

\* So SumOf adds one term at a time.
LEMMA SumDef ==
  ASSUME NEW f, NEW n \in Nat
  PROVE  /\ SumOf(f, 0) = 0
         /\ SumOf(f, n + 1) = add(SumOf(f, n), f[n])
<1>1. PICK g : g[0] = 0 /\ \A i \in 0..((n + 1) - 1) : g[i + 1] = add(g[i], f[i])
  BY SumExists
<1>2. SumOf(f, 0) = g[0]
  BY <1>1, SumIs
<1>3. SumOf(f, n) = g[n]
  <2>1. \A i \in 0..(n - 1) : g[i + 1] = add(g[i], f[i])
    BY <1>1
  <2> QED
    BY <1>1, <2>1, SumIs
<1>4. SumOf(f, n + 1) = g[n + 1]
  BY <1>1, SumIs
<1>5. g[n + 1] = add(g[n], f[n])
  BY <1>1
<1> QED
  BY <1>1, <1>2, <1>3, <1>4, <1>5

\* A sum depends on its terms only.
LEMMA SumCong ==
  ASSUME NEW n \in Nat, NEW f, NEW g, \A i \in 0..(n - 1) : f[i] = g[i]
  PROVE  SumOf(f, n) = SumOf(g, n)
<1> DEFINE s == [i \in 0..n |-> SumOf(g, i)]
<1>1. s[0] = 0
  <2>1. s[0] = SumOf(g, 0)
    OBVIOUS
  <2> QED
    BY <2>1, SumDef
<1>2. ASSUME NEW i \in 0..(n - 1) PROVE s[i + 1] = add(s[i], f[i])
  <2>1. s[i + 1] = SumOf(g, i + 1) /\ s[i] = SumOf(g, i)
    OBVIOUS
  <2> QED
    BY <2>1, SumDef
<1>3. s[n] = SumOf(g, n)
  OBVIOUS
<1> HIDE DEF s
<1> QED
  BY <1>1, <1>2, <1>3, SumIs

\* Sums of bytes are bytes, so far and altogether.
LEMMA SumType ==
  ASSUME FieldLaws, NEW n \in Nat, NEW f, \A i \in 0..(n - 1) : f[i] \in Elements
  PROVE  \A m \in 0..n : SumOf(f, m) \in Elements
<1> DEFINE T == {m \in 0..n : SumOf(f, m) \notin Elements}
<1> SUFFICES ASSUME T # {} PROVE FALSE
  OBVIOUS
<1>1. PICK x \in T : \A y \in T : x <= y
  <2>1. T \in SUBSET Nat
    OBVIOUS
  <2> HIDE DEF T
  <2> QED
    BY <2>1, LeastNumber
<1>2. x \in 0..n /\ SumOf(f, x) \notin Elements
  BY <1>1
<1>3. x # 0
  BY <1>2, SumDef, Closed
<1>4. x - 1 \in 0..(n - 1) /\ x - 1 \in Nat /\ (x - 1) + 1 = x /\ x - 1 \notin T
  BY <1>1, <1>2, <1>3
<1>5. SumOf(f, x - 1) \in Elements
  BY <1>4
<1>6. SumOf(f, x) = add(SumOf(f, x - 1), f[x - 1])
  BY <1>4, SumDef
<1>7. f[x - 1] \in Elements
  BY <1>4
<1> HIDE DEF T
<1> QED
  BY <1>2, <1>5, <1>6, <1>7, Closed

\* The sum of sums, term by term.
LEMMA SumAdd ==
  ASSUME FieldLaws, NEW n \in Nat, NEW f, NEW g, NEW h,
         \A i \in 0..(n - 1) : f[i] \in Elements /\ g[i] \in Elements /\ h[i] = add(f[i], g[i])
  PROVE  SumOf(h, n) = add(SumOf(f, n), SumOf(g, n))
<1> DEFINE s == [i \in 0..n |-> add(SumOf(f, i), SumOf(g, i))]
<1>0. \A m \in 0..n : SumOf(f, m) \in Elements /\ SumOf(g, m) \in Elements
  BY SumType
<1>1. s[0] = 0
  <2>1. SumOf(f, 0) = 0 /\ SumOf(g, 0) = 0
    BY SumDef
  <2> QED
    BY <2>1, Closed, Neutral
<1>2. ASSUME NEW i \in 0..(n - 1) PROVE s[i + 1] = add(s[i], h[i])
  <2>1. s[i + 1] = add(SumOf(f, i + 1), SumOf(g, i + 1)) /\ s[i] = add(SumOf(f, i), SumOf(g, i))
    OBVIOUS
  <2>2. SumOf(f, i + 1) = add(SumOf(f, i), f[i]) /\ SumOf(g, i + 1) = add(SumOf(g, i), g[i])
    BY SumDef
  <2>3. SumOf(f, i) \in Elements /\ SumOf(g, i) \in Elements
    BY <1>0
  <2> QED
    BY <2>1, <2>2, <2>3, AddFour
<1>3. s[n] = add(SumOf(f, n), SumOf(g, n))
  OBVIOUS
<1> HIDE DEF s
<1> QED
  BY <1>1, <1>2, <1>3, SumIs

\* A factor of every term is a factor of the sum.
LEMMA SumScale ==
  ASSUME FieldLaws, NEW n \in Nat, NEW f, NEW h, NEW c \in Elements,
         \A i \in 0..(n - 1) : f[i] \in Elements /\ h[i] = multiply(c, f[i])
  PROVE  SumOf(h, n) = multiply(c, SumOf(f, n))
<1> DEFINE s == [i \in 0..n |-> multiply(c, SumOf(f, i))]
<1>0. \A m \in 0..n : SumOf(f, m) \in Elements
  BY SumType
<1>1. s[0] = 0
  <2>1. SumOf(f, 0) = 0
    BY SumDef
  <2> QED
    BY <2>1, Neutral
<1>2. ASSUME NEW i \in 0..(n - 1) PROVE s[i + 1] = add(s[i], h[i])
  <2>1. s[i + 1] = multiply(c, SumOf(f, i + 1)) /\ s[i] = multiply(c, SumOf(f, i))
    OBVIOUS
  <2>2. SumOf(f, i + 1) = add(SumOf(f, i), f[i])
    BY SumDef
  <2>3. SumOf(f, i) \in Elements /\ f[i] \in Elements
    BY <1>0
  <2>4. multiply(c, add(SumOf(f, i), f[i])) = add(multiply(c, SumOf(f, i)), multiply(c, f[i]))
    BY <2>3, Distributes
  <2> QED
    BY <2>1, <2>2, <2>4
<1>3. s[n] = multiply(c, SumOf(f, n))
  OBVIOUS
<1> HIDE DEF s
<1> QED
  BY <1>1, <1>2, <1>3, SumIs

\* A sum with one term that is not zero.
LEMMA SumOne ==
  ASSUME FieldLaws, NEW n \in Nat, NEW f, NEW k \in 0..(n - 1), f[k] \in Elements,
         \A i \in 0..(n - 1) : i # k => f[i] = 0
  PROVE  SumOf(f, n) = f[k]
<1> DEFINE s == [i \in 0..n |-> IF i <= k THEN 0 ELSE f[k]]
<1>1. s[0] = 0
  OBVIOUS
<1>2. ASSUME NEW i \in 0..(n - 1) PROVE s[i + 1] = add(s[i], f[i])
  <2>1. CASE i < k
    <3>1. s[i + 1] = 0 /\ s[i] = 0 /\ f[i] = 0
      BY <2>1
    <3> QED
      BY <3>1, Closed, Neutral
  <2>2. CASE i = k
    <3>1. s[i + 1] = f[k] /\ s[i] = 0
      BY <2>2
    <3> QED
      BY <2>2, <3>1, Neutral
  <2>3. CASE i > k
    <3>1. s[i + 1] = f[k] /\ s[i] = f[k] /\ f[i] = 0
      BY <2>3
    <3> QED
      BY <3>1, Neutral
  <2> QED
    BY <2>1, <2>2, <2>3
<1>3. s[n] = f[k]
  OBVIOUS
<1> HIDE DEF s
<1> QED
  BY <1>1, <1>2, <1>3, SumIs

\* Rows first or columns first.
LEMMA SumSwap ==
  ASSUME FieldLaws, NEW n \in Nat, NEW m \in Nat, NEW f,
         \A i \in 0..(n - 1), j \in 0..(m - 1) : f[i][j] \in Elements
  PROVE  SumOf([i \in 0..(n - 1) |-> SumOf([j \in 0..(m - 1) |-> f[i][j]], m)], n)
           = SumOf([j \in 0..(m - 1) |-> SumOf([i \in 0..(n - 1) |-> f[i][j]], n)], m)
<1> DEFINE row(i) == SumOf([j \in 0..(m - 1) |-> f[i][j]], m)
           col(j, k) == SumOf([i \in 0..(n - 1) |-> f[i][j]], k)
           part(k) == [j \in 0..(m - 1) |-> col(j, k)]
           s == [k \in 0..n |-> SumOf(part(k), m)]
<1>1. s[0] = 0
  <2>1. \A j \in 0..(m - 1) : part(0)[j] = 0
    BY SumDef
  <2>2. SumOf(part(0), m) = 0
    <3> DEFINE z == [i \in 0..m |-> 0]
    <3>1. \A i \in 0..(m - 1) : z[i + 1] = add(z[i], part(0)[i])
      BY <2>1, Closed, Neutral
    <3>2. z[0] = 0 /\ z[m] = 0
      OBVIOUS
    <3> HIDE DEF z, part
    <3> QED
      BY <3>1, <3>2, SumIs
  <2> QED
    BY <2>2
<1>2. ASSUME NEW k \in 0..(n - 1) PROVE s[k + 1] = add(s[k], row(k))
  <2>1. ASSUME NEW j \in 0..(m - 1)
        PROVE  /\ part(k)[j] \in Elements /\ f[k][j] \in Elements
               /\ part(k + 1)[j] = add(part(k)[j], [l \in 0..(m - 1) |-> f[k][l]][j])
    <3> DEFINE c == [i \in 0..(n - 1) |-> f[i][j]]
    <3>1. \A i \in 0..(n - 1) : c[i] \in Elements /\ c[i] = f[i][j]
      OBVIOUS
    <3>2. part(k)[j] = SumOf(c, k) /\ part(k + 1)[j] = SumOf(c, k + 1)
      OBVIOUS
    <3> HIDE DEF c, part
    <3>3. SumOf(c, k) \in Elements
      BY <3>1, SumType
    <3>4. SumOf(c, k + 1) = add(SumOf(c, k), c[k])
      BY SumDef
    <3> QED
      BY <3>1, <3>2, <3>3, <3>4
  <2>2. s[k + 1] = SumOf(part(k + 1), m) /\ s[k] = SumOf(part(k), m)
    OBVIOUS
  <2>3. \A j \in 0..(m - 1) : [l \in 0..(m - 1) |-> f[k][l]][j] \in Elements
    OBVIOUS
  <2> HIDE DEF part
  <2>4. SumOf(part(k + 1), m) = add(SumOf(part(k), m), SumOf([l \in 0..(m - 1) |-> f[k][l]], m))
    BY <2>1, <2>3, SumAdd
  <2> QED
    BY <2>2, <2>4
<1>3. s[n] = SumOf([j \in 0..(m - 1) |-> SumOf([i \in 0..(n - 1) |-> f[i][j]], n)], m)
  OBVIOUS
<1>4. \A k \in 0..(n - 1) : [i \in 0..(n - 1) |-> row(i)][k] = row(k)
  OBVIOUS
<1> HIDE DEF s, row
<1>5. SumOf([i \in 0..(n - 1) |-> row(i)], n) = s[n]
  BY <1>1, <1>2, <1>4, SumIs
<1> QED
  BY <1>3, <1>5 DEF row

-----------------------------------------------------------------------------
\* The product of two rows of d elements; Code with its number of columns named.
Row(d) == [0..(d - 1) -> Elements]
Dot(a, x, d) == SumOf([i \in 0..(d - 1) |-> multiply(a[i], x[i])], d)
Unit(k, d) == [j \in 0..(d - 1) |-> IF j = k THEN 1 ELSE 0]

\* A row of the identity is a row.
LEMMA UnitType ==
  ASSUME FieldLaws, NEW d \in Nat, NEW k
  PROVE  Unit(k, d) \in Row(d)
  BY Closed DEF Unit, Row

\* The product of two rows is a byte ...
LEMMA DotType ==
  ASSUME FieldLaws, NEW d \in Nat, NEW a, NEW x,
         \A i \in 0..(d - 1) : a[i] \in Elements /\ x[i] \in Elements
  PROVE  Dot(a, x, d) \in Elements
<1> DEFINE f == [i \in 0..(d - 1) |-> multiply(a[i], x[i])]
<1>1. \A i \in 0..(d - 1) : f[i] \in Elements
  BY Closed
<1>2. Dot(a, x, d) = SumOf(f, d) /\ d \in 0..d
  BY DEF Dot
<1> HIDE DEF f
<1> QED
  BY <1>1, <1>2, SumType

\* ... depends on their elements only ...
LEMMA DotCong ==
  ASSUME NEW d \in Nat, NEW a, NEW x, NEW b, NEW y,
         \A i \in 0..(d - 1) : a[i] = b[i] /\ x[i] = y[i]
  PROVE  Dot(a, x, d) = Dot(b, y, d)
<1>1. [i \in 0..(d - 1) |-> multiply(a[i], x[i])] = [i \in 0..(d - 1) |-> multiply(b[i], y[i])]
  OBVIOUS
<1> QED
  BY <1>1, Zenon DEF Dot

\* ... and not on their order.
LEMMA DotCommutes ==
  ASSUME FieldLaws, NEW d \in Nat, NEW a, NEW x,
         \A i \in 0..(d - 1) : a[i] \in Elements /\ x[i] \in Elements
  PROVE  Dot(a, x, d) = Dot(x, a, d)
<1>1. [i \in 0..(d - 1) |-> multiply(a[i], x[i])] = [i \in 0..(d - 1) |-> multiply(x[i], a[i])]
  BY Commutes
<1> QED
  BY <1>1, Zenon DEF Dot

\* The product is linear in its first row ...
LEMMA DotLinear ==
  ASSUME FieldLaws, NEW d \in Nat, NEW a, NEW b, NEW c, NEW x, NEW f \in Elements,
         \A i \in 0..(d - 1) : /\ a[i] \in Elements /\ b[i] \in Elements /\ x[i] \in Elements
                               /\ c[i] = add(a[i], multiply(f, b[i]))
  PROVE  Dot(c, x, d) = add(Dot(a, x, d), multiply(f, Dot(b, x, d)))
<1> DEFINE u == [i \in 0..(d - 1) |-> multiply(a[i], x[i])]
           v == [i \in 0..(d - 1) |-> multiply(b[i], x[i])]
           fv == [i \in 0..(d - 1) |-> multiply(f, v[i])]
           w == [i \in 0..(d - 1) |-> multiply(c[i], x[i])]
<1>1. ASSUME NEW i \in 0..(d - 1)
      PROVE  /\ u[i] \in Elements /\ v[i] \in Elements /\ fv[i] \in Elements
             /\ w[i] = add(u[i], fv[i])
  <2>1. u[i] = multiply(a[i], x[i]) /\ v[i] = multiply(b[i], x[i])
        /\ w[i] = multiply(c[i], x[i]) /\ fv[i] = multiply(f, multiply(b[i], x[i]))
    OBVIOUS
  <2>2. /\ multiply(a[i], x[i]) \in Elements /\ multiply(b[i], x[i]) \in Elements
        /\ multiply(f, multiply(b[i], x[i])) \in Elements /\ multiply(f, b[i]) \in Elements
    BY Closed
  <2>3. multiply(add(a[i], multiply(f, b[i])), x[i])
          = add(multiply(a[i], x[i]), multiply(multiply(f, b[i]), x[i]))
    BY <2>2, Distributes
  <2>4. multiply(multiply(f, b[i]), x[i]) = multiply(f, multiply(b[i], x[i]))
    BY Associates
  <2> HIDE DEF u, v, w, fv
  <2> QED
    BY <2>1, <2>2, <2>3, <2>4
<1>2. Dot(a, x, d) = SumOf(u, d) /\ Dot(b, x, d) = SumOf(v, d) /\ Dot(c, x, d) = SumOf(w, d)
  BY DEF Dot
<1>3. \A i \in 0..(d - 1) : fv[i] = multiply(f, v[i])
  OBVIOUS
<1> HIDE DEF u, v, w, fv
<1>4. SumOf(w, d) = add(SumOf(u, d), SumOf(fv, d))
  BY <1>1, SumAdd
<1>5. SumOf(fv, d) = multiply(f, SumOf(v, d))
  BY <1>1, <1>3, SumScale
<1> QED
  BY <1>2, <1>4, <1>5

\* A factor of the first row is a factor of the product.
LEMMA DotScale ==
  ASSUME FieldLaws, NEW d \in Nat, NEW a, NEW c, NEW x, NEW f \in Elements,
         \A i \in 0..(d - 1) : /\ a[i] \in Elements /\ x[i] \in Elements
                               /\ c[i] = multiply(a[i], f)
  PROVE  Dot(c, x, d) = multiply(f, Dot(a, x, d))
<1> DEFINE u == [i \in 0..(d - 1) |-> multiply(a[i], x[i])]
           w == [i \in 0..(d - 1) |-> multiply(c[i], x[i])]
<1>1. ASSUME NEW i \in 0..(d - 1)
      PROVE  u[i] \in Elements /\ w[i] = multiply(f, u[i])
  <2>1. u[i] = multiply(a[i], x[i]) /\ w[i] = multiply(c[i], x[i])
    OBVIOUS
  <2>2. c[i] = multiply(f, a[i])
    BY Commutes
  <2>3. multiply(multiply(f, a[i]), x[i]) = multiply(f, multiply(a[i], x[i]))
    BY Associates
  <2>4. multiply(a[i], x[i]) \in Elements
    BY Closed
  <2> HIDE DEF u, w
  <2> QED
    BY <2>1, <2>2, <2>3, <2>4
<1>2. Dot(a, x, d) = SumOf(u, d) /\ Dot(c, x, d) = SumOf(w, d)
  BY DEF Dot
<1> HIDE DEF u, w
<1> QED
  BY <1>1, <1>2, SumScale

\* ... and with a row of the identity it is one element.
LEMMA DotUnit ==
  ASSUME FieldLaws, NEW d \in Nat, NEW x, NEW k \in 0..(d - 1),
         \A i \in 0..(d - 1) : x[i] \in Elements
  PROVE  Dot(Unit(k, d), x, d) = x[k] /\ Dot(x, Unit(k, d), d) = x[k]
<1> DEFINE u == [i \in 0..(d - 1) |-> multiply(Unit(k, d)[i], x[i])]
<1>1. \A i \in 0..(d - 1) : u[i] = IF i = k THEN x[k] ELSE 0
  <2>1. \A i \in 0..(d - 1) : Unit(k, d)[i] = IF i = k THEN 1 ELSE 0
    BY DEF Unit
  <2> QED
    BY <2>1, Neutral
<1>2. Dot(Unit(k, d), x, d) = SumOf(u, d)
  BY DEF Dot
<1>3. SumOf(u, d) = x[k]
  <2> HIDE DEF u
  <2> QED
    BY <1>1, SumOne
<1>4. \A i \in 0..(d - 1) : Unit(k, d)[i] \in Elements
  BY Closed DEF Unit
<1> QED
  BY <1>2, <1>3, <1>4, DotCommutes

\* Nothing is left of a product with zeros.
LEMMA DotZero ==
  ASSUME FieldLaws, NEW d \in Nat, d # 0, NEW a, NEW x,
         \A i \in 0..(d - 1) : a[i] \in Elements /\ x[i] = 0
  PROVE  Dot(a, x, d) = 0
<1> DEFINE u == [i \in 0..(d - 1) |-> multiply(a[i], x[i])]
<1>1. \A i \in 0..(d - 1) : u[i] = 0
  BY Neutral
<1>2. Dot(a, x, d) = SumOf(u, d) /\ 0 \in 0..(d - 1)
  BY DEF Dot
<1> HIDE DEF u
<1> QED
  BY <1>1, <1>2, SumOne, Closed

\* Sums with the same second summand.
LEMMA Cancels ==
  ASSUME FieldLaws, NEW a \in Elements, NEW b \in Elements, NEW c \in Elements
  PROVE  /\ (add(a, c) = add(b, c)) <=> (a = b)
         /\ (add(a, b) = 0) <=> (a = b)
         /\ add(add(a, c), c) = a
<1>1. add(add(a, c), c) = a /\ add(add(b, c), c) = b /\ add(add(a, b), b) = a
  BY Associates, Neutral
<1> QED
  BY <1>1, Neutral

\* What divide(1, a) is for.
LEMMA Reciprocal ==
  ASSUME FieldLaws, NEW a \in Elements, a # 0
  PROVE  divide(1, a) \in Elements /\ multiply(a, divide(1, a)) = 1
  BY DEF FieldLaws, PairLaws

\* A product is 0 only if a factor is.
LEMMA NoZeroDivisors ==
  ASSUME FieldLaws, NEW a \in Elements, NEW b \in Elements, multiply(a, b) = 0, a # 0
  PROVE  b = 0
<1>1. divide(1, a) \in Elements /\ multiply(a, divide(1, a)) = 1
  BY Reciprocal
<1>2. multiply(divide(1, a), multiply(a, b)) = multiply(multiply(divide(1, a), a), b)
  BY <1>1, Associates
<1>3. multiply(divide(1, a), a) = 1
  BY <1>1, Commutes
<1>4. multiply(divide(1, a), multiply(a, b)) = 0
  BY <1>1, Neutral
<1> QED
  BY <1>2, <1>3, <1>4, Neutral

-----------------------------------------------------------------------------
(***************************************************************************)
(* Elimination: the rows of an augmented matrix are equations, the left    *)
(* half over x and the right half over y, and no operation on the rows     *)
(* changes which x and y satisfy them all.                                 *)
(***************************************************************************)
Square(d) == [0..(d - 1) -> Row(d)]
Wide(d) == [0..(2 * d - 1) -> Elements]
Right(row, d) == [j \in 0..(d - 1) |-> row[d + j]]
Holds(row, x, y, d) == Dot(row, x, d) = Dot(Right(row, d), y, d)
Solves(w, x, y, d) == \A q \in 0..(d - 1) : Holds(w[q], x, y, d)

\* m * x = y has the same solutions as the equations of w.
Product(m, x, y, d) == \A q \in 0..(d - 1) : Dot(m[q], x, d) = y[q]
SameSolutions(w, m, d) == \A x, y \in Row(d) : Solves(w, x, y, d) <=> Product(m, x, y, d)

\* The elements of both halves are bytes.
LEMMA WideHalves ==
  ASSUME NEW d \in Nat, NEW a \in Wide(d)
  PROVE  \A i \in 0..(d - 1) :
           a[i] \in Elements /\ Right(a, d)[i] \in Elements /\ Right(a, d)[i] = a[d + i]
<1>1. \A i \in 0..(d - 1) : i \in 0..(2 * d - 1) /\ d + i \in 0..(2 * d - 1)
  OBVIOUS
<1> QED
  BY <1>1 DEF Wide, Right

\* Adding a multiple of an equation that holds ...
LEMMA HoldsAdd ==
  ASSUME FieldLaws, NEW d \in Nat, NEW a \in Wide(d), NEW b \in Wide(d), NEW c \in Wide(d),
         NEW f \in Elements, NEW x \in Row(d), NEW y \in Row(d),
         \A j \in 0..(2 * d - 1) : c[j] = add(a[j], multiply(f, b[j])),
         Holds(b, x, y, d)
  PROVE  Holds(c, x, y, d) <=> Holds(a, x, y, d)
<1>1. \A i \in 0..(d - 1) : i \in 0..(2 * d - 1) /\ d + i \in 0..(2 * d - 1)
  OBVIOUS
<1>2. \A i \in 0..(d - 1) : x[i] \in Elements /\ y[i] \in Elements
  BY DEF Row
<1>3. Dot(c, x, d) = add(Dot(a, x, d), multiply(f, Dot(b, x, d)))
  BY <1>1, <1>2, WideHalves, DotLinear
<1>4. Dot(Right(c, d), y, d) = add(Dot(Right(a, d), y, d), multiply(f, Dot(Right(b, d), y, d)))
  <2>1. \A i \in 0..(d - 1) : Right(c, d)[i] = add(Right(a, d)[i], multiply(f, Right(b, d)[i]))
    BY <1>1, WideHalves
  <2> QED
    BY <1>2, <2>1, WideHalves, DotLinear
<1>5. /\ Dot(a, x, d) \in Elements /\ Dot(Right(a, d), y, d) \in Elements
      /\ Dot(b, x, d) \in Elements
  BY <1>2, WideHalves, DotType
<1>6. multiply(f, Dot(b, x, d)) \in Elements
  BY <1>5, Closed
<1> QED
  BY <1>3, <1>4, <1>5, <1>6, Cancels DEF Holds

\* ... and multiplying by what is not 0 change nothing.
LEMMA HoldsScale ==
  ASSUME FieldLaws, NEW d \in Nat, NEW a \in Wide(d), NEW c \in Wide(d),
         NEW f \in Elements, f # 0, NEW x \in Row(d), NEW y \in Row(d),
         \A j \in 0..(2 * d - 1) : c[j] = multiply(a[j], f)
  PROVE  Holds(c, x, y, d) <=> Holds(a, x, y, d)
<1>1. \A i \in 0..(d - 1) : i \in 0..(2 * d - 1) /\ d + i \in 0..(2 * d - 1)
  OBVIOUS
<1>2. \A i \in 0..(d - 1) : x[i] \in Elements /\ y[i] \in Elements
  BY DEF Row
<1>3. Dot(c, x, d) = multiply(f, Dot(a, x, d))
  BY <1>1, <1>2, WideHalves, DotScale
<1>4. Dot(Right(c, d), y, d) = multiply(f, Dot(Right(a, d), y, d))
  <2>1. \A i \in 0..(d - 1) : Right(c, d)[i] = multiply(Right(a, d)[i], f)
    BY <1>1, WideHalves
  <2> QED
    BY <1>2, <2>1, WideHalves, DotScale
<1>5. Dot(a, x, d) \in Elements /\ Dot(Right(a, d), y, d) \in Elements
  BY <1>2, WideHalves, DotType
<1>6. \A u \in Elements : multiply(divide(1, f), multiply(f, u)) = u
  <2>1. divide(1, f) \in Elements /\ multiply(f, divide(1, f)) = 1
    BY Reciprocal
  <2>2. multiply(divide(1, f), f) = 1
    BY <2>1, Commutes
  <2> QED
    BY <2>1, <2>2, Associates, Neutral
<1> QED
  BY <1>3, <1>4, <1>5, <1>6 DEF Holds

\* An equation is its coefficients.
LEMMA HoldsCong ==
  ASSUME NEW d \in Nat, NEW a, NEW c, NEW x, NEW y, \A j \in 0..(2 * d - 1) : c[j] = a[j]
  PROVE  Holds(c, x, y, d) <=> Holds(a, x, y, d)
<1>1. \A i \in 0..(d - 1) : i \in 0..(2 * d - 1) /\ d + i \in 0..(2 * d - 1)
  OBVIOUS
<1>2. Right(c, d) = Right(a, d)
  BY <1>1 DEF Right
<1>3. Dot(c, x, d) = Dot(a, x, d)
  BY <1>1, DotCong
<1> QED
  BY <1>2, <1>3 DEF Holds

\* Two matrices with the same solutions.
LEMMA SolutionsKept ==
  ASSUME NEW d, NEW w, NEW v, NEW m, SameSolutions(w, m, d),
         \A x, y \in Row(d) : Solves(v, x, y, d) <=> Solves(w, x, y, d)
  PROVE  SameSolutions(v, m, d)
  BY DEF SameSolutions

\* The matrix next to the identity is where it begins.
LEMMA AugmentSolves ==
  ASSUME FieldLaws, NEW d \in Nat, d # 0, NEW m, NEW w,
         \A i \in 0..(d - 1), j \in 0..(2 * d - 1) :
           w[i][j] = IF j < d THEN m[i][j] ELSE IF j = d + i THEN 1 ELSE 0
  PROVE  SameSolutions(w, m, d)
<1> SUFFICES ASSUME NEW x \in Row(d), NEW y \in Row(d), NEW q \in 0..(d - 1)
             PROVE  Holds(w[q], x, y, d) <=> Dot(m[q], x, d) = y[q]
  BY DEF SameSolutions, Solves, Product
<1>1. \A i \in 0..(d - 1) : i \in 0..(2 * d - 1) /\ d + i \in 0..(2 * d - 1)
                            /\ i < d /\ ~(d + i < d) /\ (d + i = d + q <=> i = q)
  OBVIOUS
<1>2. Dot(w[q], x, d) = Dot(m[q], x, d)
  BY <1>1, DotCong
<1>3. Right(w[q], d) = Unit(q, d)
  BY <1>1 DEF Right, Unit
<1>4. Dot(Unit(q, d), y, d) = y[q]
  <2>1. \A i \in 0..(d - 1) : y[i] \in Elements
    BY DEF Row
  <2> QED
    BY <2>1, DotUnit
<1> QED
  BY <1>2, <1>3, <1>4 DEF Holds

\* Two equations change places.
LEMMA SwapSolves ==
  ASSUME NEW d \in Nat, NEW w \in [0..(d - 1) -> Wide(d)], NEW m, SameSolutions(w, m, d),
         NEW s \in 0..(d - 1), NEW p \in 0..(d - 1)
  PROVE  SameSolutions([w EXCEPT ![s] = w[p], ![p] = w[s]], m, d)
<1> DEFINE v == [w EXCEPT ![s] = w[p], ![p] = w[s]]
<1>1. ASSUME NEW x, NEW y PROVE Solves(v, x, y, d) <=> Solves(w, x, y, d)
  <2>1. /\ v[p] = w[s] /\ v[s] = w[p]
        /\ \A q \in 0..(d - 1) : q # s /\ q # p => v[q] = w[q]
    OBVIOUS
  <2> HIDE DEF v
  <2> QED
    BY <2>1, Zenon DEF Solves
<1> QED
  BY <1>1, SolutionsKept

\* v is w with row s multiplied by f.
Scaled(v, w, s, f, d) ==
  /\ \A j \in 0..(2 * d - 1) : v[s][j] = multiply(w[s][j], f)
  /\ \A q \in 0..(d - 1) \ {s} : v[q] = w[q]

\* One equation is multiplied.
LEMMA ScaleSolves ==
  ASSUME FieldLaws, NEW d \in Nat, NEW w \in [0..(d - 1) -> Wide(d)],
         NEW m, SameSolutions(w, m, d), NEW s \in 0..(d - 1), NEW f \in Elements, f # 0,
         NEW v \in [0..(d - 1) -> Wide(d)], Scaled(v, w, s, f, d)
  PROVE  SameSolutions(v, m, d)
<1>1. ASSUME NEW x \in Row(d), NEW y \in Row(d)
      PROVE  Solves(v, x, y, d) <=> Solves(w, x, y, d)
  <2>1. Holds(v[s], x, y, d) <=> Holds(w[s], x, y, d)
    <3>1. \A j \in 0..(2 * d - 1) : v[s][j] = multiply(w[s][j], f)
      BY DEF Scaled
    <3>2. v[s] \in Wide(d) /\ w[s] \in Wide(d)
      OBVIOUS
    <3> QED
      BY <3>1, <3>2, HoldsScale
  <2> QED
    BY <2>1 DEF Solves, Scaled
<1> QED
  BY <1>1, SolutionsKept

\* v is w with multiples of row s added to the rows in Q, that clear its column s.
Eliminated(v, w, s, Q, d) ==
  \A q \in 0..(d - 1) :
    IF q \in Q THEN \A j \in 0..(2 * d - 1) : v[q][j] = add(w[q][j], multiply(w[q][s], w[s][j]))
    ELSE v[q] = w[q]

\* A multiple of one equation is added to others.
LEMMA EliminateSolves ==
  ASSUME FieldLaws, NEW d \in Nat, NEW w \in [0..(d - 1) -> Wide(d)],
         NEW m, SameSolutions(w, m, d), NEW s \in 0..(d - 1), NEW Q, s \notin Q,
         NEW v \in [0..(d - 1) -> Wide(d)], Eliminated(v, w, s, Q, d)
  PROVE  SameSolutions(v, m, d)
<1>1. ASSUME NEW x \in Row(d), NEW y \in Row(d)
      PROVE  Solves(v, x, y, d) <=> Solves(w, x, y, d)
  <2>1. v[s] = w[s]
    BY DEF Eliminated
  <2>2. ASSUME NEW q \in 0..(d - 1), Holds(w[s], x, y, d)
        PROVE  Holds(v[q], x, y, d) <=> Holds(w[q], x, y, d)
    <3>1. CASE q \in Q
      <4>1. w[q] \in Wide(d) /\ w[s] \in Wide(d) /\ v[q] \in Wide(d)
        OBVIOUS
      <4>2. w[q][s] \in Elements
        <5>1. s \in 0..(2 * d - 1)
          OBVIOUS
        <5> QED
          BY <4>1, <5>1 DEF Wide
      <4>3. \A j \in 0..(2 * d - 1) : v[q][j] = add(w[q][j], multiply(w[q][s], w[s][j]))
        BY <3>1 DEF Eliminated
      <4> QED
        BY <2>2, <4>1, <4>2, <4>3, HoldsAdd
    <3>2. CASE q \notin Q
      BY <3>2 DEF Eliminated
    <3> QED
      BY <3>1, <3>2
  <2> QED
    BY <2>1, <2>2 DEF Solves
<1> QED
  BY <1>1, SolutionsKept

-----------------------------------------------------------------------------
(***************************************************************************)
(* What the equations say when the left half is the identity: the right    *)
(* half is the inverse, from both sides.                                   *)
(***************************************************************************)
LeftIsIdentity(w, d) == \A q, j \in 0..(d - 1) : w[q][j] = IF j = q THEN 1 ELSE 0
RightHalves(w, d) == [q \in 0..(d - 1) |-> Right(w[q], d)]

\* The right half, applied to y, gives the x that the matrix takes to y.
LEMMA InverseSolves ==
  ASSUME FieldLaws, NEW d \in Nat, NEW w \in [0..(d - 1) -> Wide(d)],
         NEW m, SameSolutions(w, m, d), LeftIsIdentity(w, d)
  PROVE  \A x, y \in Row(d) : Product(RightHalves(w, d), y, x, d) <=> Product(m, x, y, d)
<1> TAKE x \in Row(d), y \in Row(d)
<1>1. \A q \in 0..(d - 1) : Dot(w[q], x, d) = x[q]
  <2> TAKE q \in 0..(d - 1)
  <2>1. \A i \in 0..(d - 1) : x[i] \in Elements
    BY DEF Row
  <2>2. Dot(w[q], x, d) = Dot(Unit(q, d), x, d)
    <3>1. \A i \in 0..(d - 1) : w[q][i] = Unit(q, d)[i]
      BY DEF Unit, LeftIsIdentity
    <3> QED
      BY <3>1, DotCong
  <2> QED
    BY <2>1, <2>2, DotUnit
<1>2. Solves(w, x, y, d) <=> Product(RightHalves(w, d), y, x, d)
  BY <1>1 DEF Solves, Holds, Product, RightHalves
<1> QED
  BY <1>2 DEF SameSolutions

\* Column j of the matrix is a solution for column j of the identity.
LEMMA HalvesSolve ==
  ASSUME FieldLaws, NEW d \in Nat, NEW w \in [0..(d - 1) -> Wide(d)],
         NEW m \in Square(d), SameSolutions(w, m, d),
         NEW q \in 0..(d - 1), NEW j \in 0..(d - 1)
  PROVE  Dot(Right(w[q], d), [i \in 0..(d - 1) |-> m[i][j]], d) = w[q][j]
<1> DEFINE y == [i \in 0..(d - 1) |-> m[i][j]]
<1>1. y \in Row(d) /\ \A i \in 0..(d - 1) : m[i] \in Row(d) /\ y[i] = m[i][j]
  BY DEF Row, Square
<1>2. \A i \in 0..(d - 1) : Dot(m[i], Unit(j, d), d) = y[i]
  <2> TAKE i \in 0..(d - 1)
  <2>1. \A k \in 0..(d - 1) : m[i][k] \in Elements
    BY <1>1 DEF Row
  <2> QED
    BY <1>1, <2>1, DotUnit
<1>3. Unit(j, d) \in Row(d)
  BY UnitType
<1> HIDE DEF y
<1>4. Holds(w[q], Unit(j, d), y, d)
  BY <1>1, <1>2, <1>3 DEF SameSolutions, Solves, Product
<1>5. Dot(w[q], Unit(j, d), d) = w[q][j]
  <2>1. \A k \in 0..(d - 1) : w[q][k] \in Elements
    BY WideHalves
  <2> QED
    BY <2>1, DotUnit
<1> QED
  BY <1>4, <1>5 DEF Holds, y

-----------------------------------------------------------------------------
(***************************************************************************)
(* The Vandermonde matrix: row i times c is the value at i of the          *)
(* polynomial with the coefficients c, and a polynomial with as many roots *)
(* as coefficients is zero.                                                *)
(***************************************************************************)
Powers(P, d) ==
  \A a \in P : exp(a, 0) = 1 /\ \A j \in 1..(d - 1) : exp(a, j) = multiply(a, exp(a, j - 1))

Poly(c, n, a) == SumOf([j \in 0..(n - 1) |-> multiply(exp(a, j), c[j])], n)

\* Powers are bytes.
LEMMA PowersType ==
  ASSUME FieldLaws, NEW P \in SUBSET Elements, NEW d \in Nat, Powers(P, d),
         NEW a \in P, NEW j \in 0..(d - 1)
  PROVE  exp(a, j) \in Elements
<1> DEFINE T == {k \in 0..(d - 1) : exp(a, k) \notin Elements}
<1> SUFFICES ASSUME T # {} PROVE FALSE
  OBVIOUS
<1>1. PICK k \in T : \A l \in T : k <= l
  <2>1. T \in SUBSET Nat
    OBVIOUS
  <2> HIDE DEF T
  <2> QED
    BY <2>1, LeastNumber
<1>2. k \in 0..(d - 1) /\ exp(a, k) \notin Elements
  OBVIOUS
<1>3. k # 0
  BY <1>2, Closed DEF Powers
<1>4. k \in 1..(d - 1) /\ k - 1 \in 0..(d - 1) /\ k - 1 \notin T
  BY <1>1, <1>2, <1>3
<1>5. exp(a, k - 1) \in Elements
  BY <1>4
<1>6. exp(a, k) = multiply(a, exp(a, k - 1))
  BY <1>4 DEF Powers
<1> QED
  BY <1>2, <1>5, <1>6, Closed

\* The first term of a sum.
LEMMA SumFirst ==
  ASSUME FieldLaws, NEW n \in Nat, NEW f, NEW g,
         \A i \in 0..n : f[i] \in Elements, \A i \in 0..(n - 1) : g[i] = f[i + 1]
  PROVE  SumOf(f, n + 1) = add(f[0], SumOf(g, n))
<1> DEFINE s == [i \in 0..(n + 1) |-> IF i = 0 THEN 0 ELSE add(f[0], SumOf(g, i - 1))]
<1>0. \A i \in 0..n : SumOf(g, i) \in Elements
  <2>1. \A i \in 0..(n - 1) : i + 1 \in 0..n
    OBVIOUS
  <2>2. \A i \in 0..(n - 1) : g[i] \in Elements
    BY <2>1
  <2> QED
    BY <2>2, SumType
<1>1. s[0] = 0
  OBVIOUS
<1>2. ASSUME NEW i \in 0..((n + 1) - 1) PROVE s[i + 1] = add(s[i], f[i])
  <2>1. CASE i = 0
    <3>1. s[i + 1] = add(f[0], SumOf(g, 0)) /\ s[i] = 0
      BY <2>1
    <3>2. SumOf(g, 0) = 0 /\ f[0] \in Elements
      BY SumDef
    <3> QED
      BY <2>1, <3>1, <3>2, Neutral
  <2>2. CASE i # 0
    <3>1. s[i + 1] = add(f[0], SumOf(g, (i - 1) + 1)) /\ s[i] = add(f[0], SumOf(g, i - 1))
      BY <2>2
    <3>2. i - 1 \in Nat /\ i - 1 \in 0..(n - 1) /\ (i - 1) + 1 = i /\ i - 1 \in 0..n
      BY <2>2
    <3>3. SumOf(g, (i - 1) + 1) = add(SumOf(g, i - 1), g[i - 1]) /\ g[i - 1] = f[i]
      BY <3>2, SumDef
    <3>4. SumOf(g, i - 1) \in Elements /\ f[0] \in Elements /\ f[i] \in Elements
      BY <1>0, <3>2
    <3> HIDE DEF s
    <3> QED
      BY <3>1, <3>3, <3>4, Associates
  <2> QED
    BY <2>1, <2>2
<1>3. s[n + 1] = add(f[0], SumOf(g, n))
  OBVIOUS
<1> HIDE DEF s
<1> QED
  BY <1>1, <1>2, <1>3, SumIs

\* The value of a polynomial is a byte.
LEMMA PolyType ==
  ASSUME FieldLaws, NEW P \in SUBSET Elements, NEW d \in Nat, Powers(P, d),
         NEW n \in 0..d, NEW c, \A j \in 0..(n - 1) : c[j] \in Elements, NEW a \in P
  PROVE  Poly(c, n, a) \in Elements
<1> DEFINE f == [j \in 0..(n - 1) |-> multiply(exp(a, j), c[j])]
<1>1. \A j \in 0..(n - 1) : f[j] \in Elements
  <2>1. \A j \in 0..(n - 1) : j \in 0..(d - 1)
    OBVIOUS
  <2> QED
    BY <2>1, PowersType, Closed
<1>2. Poly(c, n, a) = SumOf(f, n) /\ n \in 0..n /\ n \in Nat
  BY DEF Poly
<1> HIDE DEF f
<1> QED
  BY <1>1, <1>2, SumType

\* Horner: the first coefficient, and a times the polynomial of the others.
LEMMA PolyShift ==
  ASSUME FieldLaws, NEW P \in SUBSET Elements, NEW d \in Nat, Powers(P, d),
         NEW n \in 0..(d - 1), NEW c, NEW e, \A j \in 0..n : c[j] \in Elements,
         \A j \in 0..(n - 1) : e[j] = c[j + 1], NEW a \in P
  PROVE  Poly(c, n + 1, a) = add(c[0], multiply(a, Poly(e, n, a)))
<1> DEFINE f == [j \in 0..n |-> multiply(exp(a, j), c[j])]
           g == [j \in 0..(n - 1) |-> f[j + 1]]
           h == [j \in 0..(n - 1) |-> multiply(exp(a, j), e[j])]
<1>0. \A j \in 0..n : j \in 0..(d - 1) /\ exp(a, j) \in Elements
  <2>1. \A j \in 0..n : j \in 0..(d - 1)
    OBVIOUS
  <2> QED
    BY <2>1, PowersType
<1>1. \A j \in 0..n : f[j] \in Elements
  BY <1>0, Closed
<1>2. f[0] = c[0]
  <2>1. f[0] = multiply(exp(a, 0), c[0]) /\ c[0] \in Elements
    OBVIOUS
  <2> QED
    BY <2>1, Neutral DEF Powers
<1>3. ASSUME NEW j \in 0..(n - 1)
      PROVE  h[j] \in Elements /\ g[j] = multiply(a, h[j]) /\ g[j] = f[j + 1]
  <2>1. j + 1 \in 0..n /\ j \in 0..n /\ j + 1 \in 1..(d - 1) /\ (j + 1) - 1 = j
    OBVIOUS
  <2>2. g[j] = multiply(exp(a, j + 1), c[j + 1]) /\ h[j] = multiply(exp(a, j), c[j + 1])
    BY <2>1
  <2>3. exp(a, j + 1) = multiply(a, exp(a, j))
    BY <2>1 DEF Powers
  <2>4. exp(a, j) \in Elements /\ c[j + 1] \in Elements
    BY <1>0, <2>1
  <2>5. multiply(multiply(a, exp(a, j)), c[j + 1]) = multiply(a, multiply(exp(a, j), c[j + 1]))
    BY <2>4, Associates
  <2>6. g[j] = f[j + 1]
    OBVIOUS
  <2> HIDE DEF f, g, h
  <2> QED
    BY <2>2, <2>3, <2>4, <2>5, <2>6, Closed
<1>4. Poly(c, n + 1, a) = SumOf(f, n + 1) /\ Poly(e, n, a) = SumOf(h, n) /\ n \in Nat
  <2>1. (n + 1) - 1 = n /\ n \in Nat
    OBVIOUS
  <2> QED
    BY <2>1, Zenon DEF Poly
<1> HIDE DEF f, g, h
<1>5. SumOf(f, n + 1) = add(f[0], SumOf(g, n))
  BY <1>1, <1>3, <1>4, SumFirst
<1>6. SumOf(g, n) = multiply(a, SumOf(h, n))
  BY <1>3, <1>4, SumScale
<1> QED
  BY <1>2, <1>4, <1>5, <1>6

\* q is the quotient of the polynomial c, of degree n, by a: c(x) = (x - a) q(x) + c(a).
IsQuotient(q, c, n, a, P) ==
  /\ q \in [0..(n - 1) -> Elements]
  /\ \A x \in P : Poly(c, n + 1, x) = add(multiply(add(x, a), Poly(q, n, x)), Poly(c, n + 1, a))
  /\ (Poly(c, n + 1, a) = 0 /\ \A k \in 0..(n - 1) : q[k] = 0) => \A k \in 0..n : c[k] = 0

\* Polynomials of no and of one coefficient.
LEMMA PolyConstant ==
  ASSUME FieldLaws, NEW c, c[0] \in Elements, NEW a, exp(a, 0) = 1
  PROVE  Poly(c, 1, a) = c[0] /\ Poly(c, 0, a) = 0
<1> DEFINE f == [j \in 0..0 |-> multiply(exp(a, j), c[j])]
<1>1. Poly(c, 1, a) = SumOf(f, 1) /\ f[0] = c[0]
  <2>1. 1 - 1 = 0
    OBVIOUS
  <2>2. f[0] = multiply(exp(a, 0), c[0])
    OBVIOUS
  <2> QED
    BY <2>1, <2>2, Neutral DEF Poly
<1> HIDE DEF f
<1>2. SumOf(f, 0 + 1) = add(SumOf(f, 0), f[0]) /\ SumOf(f, 0) = 0 /\ 0 + 1 = 1
  BY SumDef
<1>3. Poly(c, 0, a) = 0
  BY SumDef DEF Poly
<1> QED
  BY <1>1, <1>2, <1>3, Neutral

\* The quotient by x - a of a polynomial from that of one of a smaller degree.
LEMMA QuotientStep ==
  ASSUME FieldLaws, NEW P \in SUBSET Elements, NEW d \in Nat, Powers(P, d),
         NEW n \in 1..(d - 1), NEW a \in P, NEW c \in [0..n -> Elements],
         NEW e \in [0..(n - 1) -> Elements], \A j \in 0..(n - 1) : e[j] = c[j + 1],
         NEW p \in [0..((n - 1) - 1) -> Elements], IsQuotient(p, e, n - 1, a, P)
  PROVE  \E q \in [0..(n - 1) -> Elements] : IsQuotient(q, c, n, a, P)
<1> DEFINE q == [j \in 0..(n - 1) |-> IF j = 0 THEN Poly(e, n, a) ELSE p[j - 1]]
<1>0. n - 1 \in Nat /\ (n - 1) + 1 = n /\ n \in 0..(d - 1) /\ n - 1 \in 0..(d - 1) /\ n \in 0..d
      /\ n - 1 \in 0..d /\ 0 \in 0..n
  OBVIOUS
<1>1. \A x \in P : Poly(e, n, x) \in Elements /\ Poly(p, n - 1, x) \in Elements
  <2>1. /\ \A j \in 0..(n - 1) : e[j] \in Elements
        /\ \A j \in 0..((n - 1) - 1) : p[j] \in Elements
    OBVIOUS
  <2> QED
    BY <1>0, <2>1, PolyType, Zenon
<1>2. q \in [0..(n - 1) -> Elements]
  BY <1>1
<1>3. ASSUME NEW x \in P
      PROVE  Poly(c, n + 1, x) = add(c[0], multiply(x, Poly(e, n, x)))
  <2>1. \A j \in 0..n : c[j] \in Elements
    OBVIOUS
  <2> QED
    BY <1>0, <2>1, PolyShift
<1>4. \A x \in P : Poly(q, n, x) = add(Poly(e, n, a), multiply(x, Poly(p, n - 1, x)))
  <2>1. \A j \in 0..(n - 1) : q[j] \in Elements
    BY <1>1
  <2>2. \A j \in 0..((n - 1) - 1) : p[j] = q[j + 1]
    OBVIOUS
  <2>3. q[0] = Poly(e, n, a)
    OBVIOUS
  <2> HIDE DEF q
  <2>4. ASSUME NEW x \in P
        PROVE  Poly(q, (n - 1) + 1, x) = add(q[0], multiply(x, Poly(p, n - 1, x)))
    BY <1>0, <2>1, <2>2, PolyShift
  <2> QED
    BY <1>0, <2>3, <2>4
<1>5. \A x \in P : Poly(e, n, x) = add(multiply(add(x, a), Poly(p, n - 1, x)), Poly(e, n, a))
  BY <1>0 DEF IsQuotient
<1>6. ASSUME NEW x \in P
      PROVE  Poly(c, n + 1, x) = add(multiply(add(x, a), Poly(q, n, x)), Poly(c, n + 1, a))
  <2> DEFINE u == Poly(p, n - 1, x)
             v == Poly(e, n, a)
             b == add(x, a)
  <2>1. u \in Elements /\ v \in Elements /\ x \in Elements /\ a \in Elements /\ b \in Elements
        /\ c[0] \in Elements
    BY <1>0, <1>1, Closed
  <2>2. Poly(c, n + 1, x) = add(c[0], multiply(x, add(multiply(b, u), v)))
    BY <1>3, <1>5
  <2>3. Poly(c, n + 1, a) = add(c[0], multiply(a, v))
    BY <1>3
  <2>4. Poly(q, n, x) = add(v, multiply(x, u))
    BY <1>4
  <2> HIDE DEF u, v, b
  <2>5. /\ multiply(b, u) \in Elements /\ multiply(x, u) \in Elements
        /\ multiply(a, v) \in Elements /\ multiply(x, v) \in Elements
        /\ multiply(x, multiply(b, u)) \in Elements /\ multiply(b, v) \in Elements
    BY <2>1, Closed
  <2>6. multiply(b, add(v, multiply(x, u))) = add(multiply(b, v), multiply(x, multiply(b, u)))
    <3>1. multiply(b, add(v, multiply(x, u))) = add(multiply(b, v), multiply(b, multiply(x, u)))
      BY <2>1, <2>5, Distributes
    <3>2. multiply(b, multiply(x, u)) = multiply(x, multiply(b, u))
      <4>1. multiply(b, multiply(x, u)) = multiply(multiply(b, x), u)
            /\ multiply(x, multiply(b, u)) = multiply(multiply(x, b), u)
        BY <2>1, Associates
      <4> QED
        BY <2>1, <4>1, Commutes
    <3> QED
      BY <3>1, <3>2
  <2>7. multiply(x, add(multiply(b, u), v)) = add(multiply(x, multiply(b, u)), multiply(x, v))
    BY <2>1, <2>5, Distributes
  \* (x + a) v + a v = x v
  <2>8. add(multiply(b, v), multiply(a, v)) = multiply(x, v)
    <3>1. multiply(b, v) = add(multiply(x, v), multiply(a, v))
      BY <2>1, Distributes DEF b
    <3> QED
      BY <2>5, <3>1, Cancels
  <2> DEFINE X == multiply(x, multiply(b, u))
             Y == multiply(b, v)
             Z == multiply(a, v)
  <2>9. add(add(Y, X), add(c[0], Z)) = add(c[0], add(X, add(Y, Z)))
    <3>1. X \in Elements /\ Y \in Elements /\ Z \in Elements
      BY <2>5
    <3> HIDE DEF X, Y, Z
    <3>2. add(Y, X) = add(X, Y) /\ add(c[0], Z) = add(Z, c[0])
      BY <2>1, <3>1, Commutes
    <3>3. add(add(X, Y), add(Z, c[0])) = add(add(add(X, Y), Z), c[0])
      <4>1. add(X, Y) \in Elements
        BY <3>1, Closed
      <4> QED
        BY <2>1, <3>1, <4>1, Associates
    <3>4. add(add(X, Y), Z) = add(X, add(Y, Z))
      BY <3>1, Associates
    <3>5. add(add(X, add(Y, Z)), c[0]) = add(c[0], add(X, add(Y, Z)))
      BY <2>1, <3>1, Commutes, Closed
    <3> QED
      BY <3>2, <3>3, <3>4, <3>5
  <2>10. Poly(c, n + 1, x) = add(c[0], add(X, multiply(x, v)))
    BY <2>2, <2>7
  <2>11. multiply(add(x, a), Poly(q, n, x)) = add(Y, X)
    BY <2>4, <2>6 DEF b
  <2> HIDE DEF X, Y, Z
  <2>12. multiply(x, v) = add(Y, Z)
    BY <2>8 DEF Y, Z
  <2>13. Poly(c, n + 1, a) = add(c[0], Z)
    BY <2>3 DEF Z
  <2> QED
    BY <2>9, <2>10, <2>11, <2>12, <2>13
<1>7. ASSUME Poly(c, n + 1, a) = 0, \A k \in 0..(n - 1) : q[k] = 0
      PROVE  \A k \in 0..n : c[k] = 0
  <2>1. Poly(e, n, a) = 0
    BY <1>0, <1>7
  <2>2. \A k \in 0..((n - 1) - 1) : p[k] = 0
    <3>1. \A k \in 0..((n - 1) - 1) : k + 1 \in 0..(n - 1) /\ q[k + 1] = p[k]
      OBVIOUS
    <3> HIDE DEF q
    <3> QED
      BY <1>7, <3>1
  <2>3. \A k \in 0..(n - 1) : e[k] = 0
    BY <1>0, <2>1, <2>2 DEF IsQuotient
  <2>4. c[0] = 0
    <3>1. c[0] \in Elements
      BY <1>0
    <3>2. add(c[0], multiply(a, 0)) = 0
      BY <1>3, <1>7, <2>1
    <3> QED
      BY <3>1, <3>2, Neutral
  <2>5. \A k \in 1..n : k - 1 \in 0..(n - 1) /\ e[k - 1] = c[k]
    OBVIOUS
  <2> QED
    BY <2>3, <2>4, <2>5
<1> HIDE DEF q
<1>8. IsQuotient(q, c, n, a, P)
  BY <1>2, <1>6, <1>7 DEF IsQuotient
<1> QED
  BY <1>2, <1>8

\* So every polynomial is a multiple of x - a, and its value at a.
LEMMA QuotientExists ==
  ASSUME FieldLaws, NEW P \in SUBSET Elements, NEW d \in Nat, Powers(P, d), NEW a \in P,
         NEW n \in 0..(d - 1), NEW c \in [0..n -> Elements]
  PROVE  \E q \in [0..(n - 1) -> Elements] : IsQuotient(q, c, n, a, P)
<1> DEFINE Has(k) == \A b \in [0..k -> Elements] :
                       \E q \in [0..(k - 1) -> Elements] : IsQuotient(q, b, k, a, P)
           T == {k \in 0..(d - 1) : ~Has(k)}
<1> SUFFICES ASSUME T # {} PROVE FALSE
  OBVIOUS
<1>1. PICK k \in T : \A l \in T : k <= l
  <2>1. T \in SUBSET Nat
    OBVIOUS
  <2> HIDE DEF T
  <2> QED
    BY <2>1, LeastNumber
<1>2. k \in 0..(d - 1)
  OBVIOUS
<1>3. PICK b \in [0..k -> Elements] :
        ~\E q \in [0..(k - 1) -> Elements] : IsQuotient(q, b, k, a, P)
  OBVIOUS
<1>4. CASE k = 0
  <2> DEFINE q == [j \in 0..(k - 1) |-> 0]
  <2>1. q \in [0..(k - 1) -> Elements] /\ b[0] \in Elements /\ k + 1 = 1
    BY <1>4
  <2>2. \A x \in P : Poly(b, k + 1, x) = b[0] /\ Poly(q, k, x) = 0
    <3>1. \A x \in P : exp(x, 0) = 1
      BY DEF Powers
    <3>2. \A x \in P : Poly(b, 1, x) = b[0]
      BY <2>1, <3>1, PolyConstant
    <3>3. \A x : Poly(q, 0, x) = 0
      BY SumDef DEF Poly
    <3> QED
      BY <1>4, <2>1, <3>2, <3>3
  <2>3. \A x \in P :
          Poly(b, k + 1, x) = add(multiply(add(x, a), Poly(q, k, x)), Poly(b, k + 1, a))
    <3>1. \A x \in P : add(x, a) \in Elements
      BY Closed
    <3> HIDE DEF q
    <3> QED
      BY <2>1, <2>2, <3>1, Neutral
  <2>4. \A i \in 0..k : i = 0
    BY <1>4
  <2> HIDE DEF q
  <2>5. IsQuotient(q, b, k, a, P)
    BY <2>1, <2>2, <2>3, <2>4 DEF IsQuotient
  <2> QED
    BY <1>3, <2>1, <2>5
<1>5. CASE k # 0
  <2> DEFINE e == [j \in 0..(k - 1) |-> b[j + 1]]
  <2>1. k \in 1..(d - 1) /\ k - 1 \in 0..(d - 1) /\ k - 1 \notin T
    BY <1>1, <1>2, <1>5
  <2>2. e \in [0..(k - 1) -> Elements] /\ \A j \in 0..(k - 1) : e[j] = b[j + 1]
    BY <1>2
  <2>3. PICK p \in [0..((k - 1) - 1) -> Elements] : IsQuotient(p, e, k - 1, a, P)
    BY <2>1, <2>2
  <2> HIDE DEF e, Has, T
  <2> QED
    BY <1>3, <2>1, <2>2, <2>3, QuotientStep
<1> QED
  BY <1>4, <1>5

Distinct(p, d) == \A i, j \in 0..(d - 1) : p[i] = p[j] => i = j
RootsAt(c, p, d) == \A i \in 0..(d - 1) : Poly(c, d, p[i]) = 0

\* As many roots as coefficients.
LEMMA Roots ==
  ASSUME FieldLaws, NEW P \in SUBSET Elements, NEW d \in Nat, Powers(P, d),
         NEW c \in Row(d), NEW p \in [0..(d - 1) -> P], Distinct(p, d), RootsAt(c, p, d)
  PROVE  \A k \in 0..(d - 1) : c[k] = 0
<1> DEFINE Has(m) == \A b \in Row(m) : RootsAt(b, p, m) => \A k \in 0..(m - 1) : b[k] = 0
           T == {m \in 0..d : ~Has(m)}
<1> SUFFICES ASSUME T # {} PROVE FALSE
  <2>1. d \in 0..d
    OBVIOUS
  <2> QED
    BY <2>1
<1>1. PICK m \in T : \A l \in T : m <= l
  <2>1. T \in SUBSET Nat
    OBVIOUS
  <2> HIDE DEF T
  <2> QED
    BY <2>1, LeastNumber
<1>2. m \in 0..d
  OBVIOUS
<1>3. PICK b \in Row(m) : RootsAt(b, p, m) /\ ~(\A k \in 0..(m - 1) : b[k] = 0)
  OBVIOUS
<1>4. m # 0
  BY <1>3
<1> DEFINE h == m - 1
<1>5. /\ h \in 0..(d - 1) /\ h + 1 = m /\ h \in Nat /\ h \in 0..d
      /\ b \in [0..h -> Elements]
      /\ h \notin T
  <2>1. h \in 0..(d - 1) /\ h + 1 = m /\ h \in 0..d /\ h \in Nat
    BY <1>2, <1>4
  <2>2. h \notin T
    <3>1. ~(m <= h)
      BY <1>2
    <3> HIDE DEF T, h
    <3> QED
      BY <1>1, <3>1, Zenon
  <2> QED
    BY <2>1, <2>2 DEF Row
<1>6. Has(h)
  BY <1>5
<1> HIDE DEF T, h
<1> DEFINE a == p[h]
<1>7. a \in P
  BY <1>5
<1>8. PICK q \in [0..(h - 1) -> Elements] : IsQuotient(q, b, h, a, P)
  <2> HIDE DEF Has, a
  <2> QED
    BY <1>5, <1>7, QuotientExists
<1>9. Poly(b, h + 1, a) = 0
  BY <1>3, <1>5 DEF RootsAt
<1>10. ASSUME NEW i \in 0..(h - 1) PROVE Poly(q, h, p[i]) = 0
  <2>1. i \in 0..(m - 1) /\ i \in 0..(d - 1) /\ i # h
    BY <1>2, <1>5
  <2>2. p[i] \in P /\ p[i] # a /\ Poly(b, h + 1, p[i]) = 0
    BY <1>3, <1>5, <2>1 DEF Distinct, RootsAt
  <2>3. Poly(q, h, p[i]) \in Elements
    <3>1. \A j \in 0..(h - 1) : q[j] \in Elements
      OBVIOUS
    <3> QED
      BY <1>5, <2>2, <3>1, PolyType
  <2>4. 0 = add(multiply(add(p[i], a), Poly(q, h, p[i])), 0)
    BY <1>8, <1>9, <2>2 DEF IsQuotient
  <2>5. add(p[i], a) \in Elements /\ add(p[i], a) # 0
    <3>1. p[i] \in Elements /\ a \in Elements
      BY <1>7, <2>2
    <3> HIDE DEF a
    <3> QED
      BY <2>2, <3>1, Closed, Cancels
  <2>6. multiply(add(p[i], a), Poly(q, h, p[i])) = 0
    BY <2>3, <2>4, <2>5, Closed, Neutral
  <2> QED
    BY <2>3, <2>5, <2>6, NoZeroDivisors
<1>11. \A k \in 0..(h - 1) : q[k] = 0
  BY <1>6, <1>10 DEF RootsAt, Row
<1> QED
  BY <1>3, <1>5, <1>8, <1>9, <1>11 DEF IsQuotient

-----------------------------------------------------------------------------
Column(inv, k, d) == [q \in 0..(d - 1) |-> inv[q][k]]
RowTimes(v, inv, d) == [k \in 0..(d - 1) |-> Dot(v, Column(inv, k, d), d)]
TimesColumn(inv, x, d) == [q \in 0..(d - 1) |-> Dot(inv[q], x, d)]

\* (v * inv) * x is v * (inv * x), for one row v.
LEMMA DotAssociates ==
  ASSUME FieldLaws, NEW d \in Nat, NEW v \in Row(d), NEW inv \in Square(d), NEW x \in Row(d)
  PROVE  Dot(RowTimes(v, inv, d), x, d) = Dot(v, TimesColumn(inv, x, d), d)
<1> DEFINE N == 0..(d - 1)
           f == [k \in N |-> [j \in N |-> multiply(multiply(v[j], inv[j][k]), x[k])]]
           byColumn == [k \in N |-> SumOf([j \in N |-> f[k][j]], d)]
           byRow == [j \in N |-> SumOf([k \in N |-> f[k][j]], d)]
           left == RowTimes(v, inv, d)
           right == TimesColumn(inv, x, d)
<1>0. /\ \A i, j \in N : v[i] \in Elements /\ inv[i][j] \in Elements /\ x[i] \in Elements
      /\ \A k \in N : left[k] = Dot(v, Column(inv, k, d), d)
      /\ \A q \in N : right[q] = Dot(inv[q], x, d)
  BY DEF Row, Square, RowTimes, TimesColumn
<1> HIDE DEF left, right
<1>1. \A k, j \in N : f[k][j] \in Elements /\ f[k][j] = multiply(multiply(v[j], inv[j][k]), x[k])
  BY <1>0, Closed
<1>2. SumOf(byColumn, d) = SumOf(byRow, d)
  <2> HIDE DEF f
  <2> QED
    BY <1>1, SumSwap
<1>3. ASSUME NEW k \in N PROVE multiply(left[k], x[k]) = byColumn[k]
  <2> DEFINE g == [j \in N |-> multiply(v[j], inv[j][k])]
             g2 == [j \in N |-> f[k][j]]
  <2>1. left[k] = SumOf(g, d)
    <3>1. [j \in N |-> multiply(v[j], Column(inv, k, d)[j])] = g
      BY DEF Column
    <3>2. left[k] = Dot(v, Column(inv, k, d), d)
      BY <1>0
    <3> QED
      BY <3>1, <3>2 DEF Dot
  <2>2. byColumn[k] = SumOf(g2, d)
    OBVIOUS
  <2>3. \A j \in N : g[j] \in Elements /\ g2[j] = multiply(x[k], g[j])
    <3>1. \A j \in N : /\ g[j] = multiply(v[j], inv[j][k])
                     /\ g2[j] = multiply(multiply(v[j], inv[j][k]), x[k])
      OBVIOUS
    <3>2. \A j \in N : g[j] \in Elements
      BY <1>0, Closed
    <3> HIDE DEF g, g2
    <3> QED
      BY <1>0, <3>1, <3>2, Commutes
  <2> HIDE DEF g, g2, byColumn, f
  <2>4. SumOf(g2, d) = multiply(x[k], SumOf(g, d))
    BY <1>0, <2>3, SumScale
  <2>5. SumOf(g, d) \in Elements
    <3>1. d \in 0..d
      OBVIOUS
    <3> QED
      BY <2>3, <3>1, SumType
  <2> QED
    BY <1>0, <2>1, <2>2, <2>4, <2>5, Commutes
<1>4. ASSUME NEW j \in N PROVE multiply(v[j], right[j]) = byRow[j]
  <2> DEFINE g == [k \in N |-> multiply(inv[j][k], x[k])]
             g2 == [k \in N |-> f[k][j]]
  <2>1. right[j] = SumOf(g, d)
    <3>1. right[j] = Dot(inv[j], x, d)
      BY <1>0
    <3> QED
      BY <3>1 DEF Dot
  <2>2. byRow[j] = SumOf(g2, d)
    OBVIOUS
  <2>3. \A k \in N : g[k] \in Elements /\ g2[k] = multiply(v[j], g[k])
    <3>1. \A k \in N : /\ g[k] = multiply(inv[j][k], x[k])
                     /\ g2[k] = multiply(multiply(v[j], inv[j][k]), x[k])
      OBVIOUS
    <3>2. \A k \in N : g[k] \in Elements
      BY <1>0, Closed
    <3> HIDE DEF g, g2
    <3> QED
      BY <1>0, <3>1, <3>2, Associates
  <2> HIDE DEF g, g2, byRow, f
  <2>4. SumOf(g2, d) = multiply(v[j], SumOf(g, d))
    BY <1>0, <2>3, SumScale
  <2> QED
    BY <2>1, <2>2, <2>4
<1>5. Dot(left, x, d) = SumOf(byColumn, d)
  <2> HIDE DEF f
  <2>1. [k \in N |-> multiply(left[k], x[k])] = byColumn
    BY <1>3
  <2> QED
    BY <2>1, Zenon DEF Dot
<1>6. Dot(v, right, d) = SumOf(byRow, d)
  <2> HIDE DEF f
  <2>1. [j \in N |-> multiply(v[j], right[j])] = byRow
    BY <1>4
  <2> QED
    BY <2>1, Zenon DEF Dot
<1> QED
  BY <1>2, <1>5, <1>6 DEF left, right

-----------------------------------------------------------------------------
\* With d shards left there is an i-th one of them.
Place(s, lost) == Cardinality(0..(s - 1) \ lost)
Enough(t, lost, d) == t - Cardinality(lost) >= d

\* With d shards left there is an i-th one among them, for every i below d.
LEMMA ShardExists ==
  \A t \in Nat, d \in Nat : \A lost \in SUBSET (0..(t - 1)) :
    Enough(t, lost, d) =>
      \A i \in 0..(d - 1) : \E s \in 0..(t - 1) : s \notin lost /\ Place(s, lost) = i
<1> TAKE t \in Nat, d \in Nat
<1> TAKE lost \in SUBSET (0..(t - 1))
<1> HAVE Enough(t, lost, d)
<1> TAKE i \in 0..(d - 1)
<1> DEFINE count(s) == Cardinality(0..(s - 1) \ lost)
           T == {s \in 0..t : count(s) > i}
<1>0. \A s \in Nat : /\ IsFiniteSet(0..(s - 1) \ lost) /\ count(s) \in Nat
  <2> TAKE s \in Nat
  <2>1. IsFiniteSet(0..(s - 1))
    BY FS_Interval
  <2>2. IsFiniteSet(0..(s - 1) \ lost)
    BY <2>1, FS_Difference
  <2> QED
    BY <2>2, FS_CardinalityType
<1>1. count(0) = 0
  <2>1. 0..(0 - 1) \ lost = {}
    OBVIOUS
  <2> QED
    BY <2>1, FS_EmptySet
<1>2. ASSUME NEW s \in Nat
      PROVE  count(s + 1) = IF s \in lost THEN count(s) ELSE count(s) + 1
  <2>1. CASE s \in lost
    <3>1. 0..((s + 1) - 1) \ lost = 0..(s - 1) \ lost
      BY <2>1
    <3> QED
      BY <2>1, <3>1
  <2>2. CASE s \notin lost
    <3>1. 0..((s + 1) - 1) \ lost = (0..(s - 1) \ lost) \cup {s} /\ s \notin 0..(s - 1) \ lost
      BY <2>2
    <3> QED
      BY <1>0, <2>2, <3>1, FS_AddElement
  <2> QED
    BY <2>1, <2>2
<1>3. count(t) >= d
  <2>1. IsFiniteSet(0..(t - 1)) /\ Cardinality(0..(t - 1)) = t
    <3>1. 0 \in Int /\ t - 1 \in Int
      OBVIOUS
    <3>2. /\ IsFiniteSet(0..(t - 1))
          /\ Cardinality(0..(t - 1)) = IF 0 > t - 1 THEN 0 ELSE (t - 1) - 0 + 1
      BY <3>1, FS_Interval, Zenon
    <3> QED
      BY <3>2
  <2>2. Cardinality(0..(t - 1) \ lost) = t - Cardinality(0..(t - 1) \cap lost)
    BY <2>1, FS_Difference
  <2>3. 0..(t - 1) \cap lost = lost
    OBVIOUS
  <2> QED
    BY <2>2, <2>3 DEF Enough
<1>4. T \in SUBSET Nat /\ t \in T
  BY <1>0, <1>3
<1>5. PICK m \in T : \A l \in T : m <= l
  <2> HIDE DEF T
  <2> QED
    BY <1>4, LeastNumber
<1>6. m \in 0..t /\ count(m) > i /\ m # 0
  <2>1. m \in 0..t /\ count(m) > i
    OBVIOUS
  <2> HIDE DEF count
  <2> QED
    BY <1>1, <2>1
<1> DEFINE s == m - 1
<1>7. s \in Nat /\ s \in 0..(t - 1) /\ s + 1 = m /\ s \in 0..t /\ s < m
  BY <1>6
<1>8. s \notin T
  <2> HIDE DEF T, s
  <2> QED
    BY <1>5, <1>6, <1>7
<1> HIDE DEF s
<1>9. ~(count(s) > i)
  <2> HIDE DEF count
  <2> QED
    BY <1>7, <1>8
<1>10. count(s + 1) = IF s \in lost THEN count(s) ELSE count(s) + 1
  BY <1>2, <1>7
<1>11. s \notin lost /\ count(s) = i
  <2>1. count(s) \in Nat /\ count(s + 1) > i
    BY <1>0, <1>6, <1>7
  <2> HIDE DEF count
  <2> QED
    BY <1>9, <1>10, <2>1
<1> QED
  BY <1>7, <1>11 DEF Place

\* A multiple of one element of the second row.
Plus(x, k, f, d) == [i \in 0..(d - 1) |-> IF i = k THEN add(x[i], f) ELSE x[i]]

\* Adding f to one element of a row adds f times its coefficient.
LEMMA DotPlus ==
  ASSUME FieldLaws, NEW d \in Nat, NEW a \in Row(d), NEW x \in Row(d), NEW k \in 0..(d - 1),
         NEW f \in Elements
  PROVE  /\ Plus(x, k, f, d) \in Row(d)
         /\ Dot(a, Plus(x, k, f, d), d) = add(Dot(a, x, d), multiply(f, a[k]))
<1> DEFINE z == Plus(x, k, f, d)
<1>0. \A i \in 0..(d - 1) : a[i] \in Elements /\ x[i] \in Elements
  BY DEF Row
<1>1. ASSUME NEW i \in 0..(d - 1)
      PROVE  /\ Unit(k, d)[i] \in Elements /\ z[i] \in Elements
             /\ z[i] = add(x[i], multiply(f, Unit(k, d)[i]))
  <2>1. Unit(k, d)[i] = (IF i = k THEN 1 ELSE 0) /\ z[i] = IF i = k THEN add(x[i], f) ELSE x[i]
    BY DEF Unit, Plus
  <2>2. multiply(f, 1) = f /\ multiply(f, 0) = 0 /\ add(x[i], 0) = x[i]
    BY <1>0, Neutral
  <2> HIDE DEF z
  <2> QED
    BY <1>0, <2>1, <2>2, Closed
<1>2. Dot(z, a, d) = add(Dot(x, a, d), multiply(f, Dot(Unit(k, d), a, d)))
  <2> HIDE DEF z
  <2> QED
    BY <1>0, <1>1, DotLinear
<1>3. Dot(Unit(k, d), a, d) = a[k]
  BY <1>0, DotUnit
<1>4. Dot(z, a, d) = Dot(a, z, d) /\ Dot(x, a, d) = Dot(a, x, d)
  <2> HIDE DEF z
  <2> QED
    BY <1>0, <1>1, DotCommutes
<1>5. z \in Row(d)
  <2>1. \A i \in 0..(d - 1) : z[i] \in Elements
    BY <1>1
  <2> QED
    BY <2>1 DEF Plus, Row
<1> QED
  BY <1>2, <1>3, <1>4, <1>5

-----------------------------------------------------------------------------
\* The first n columns are zero below a diagonal of ones.
Reduced(w, n, d) ==
  \A j \in 0..(n - 1) : w[j][j] = 1 /\ \A q \in (j + 1)..(d - 1) : w[q][j] = 0

Zeros(d) == [i \in 0..(d - 1) |-> 0]

\* A column without a pivot: back substitution finds a solution that is not zero.
LEMMA NoPivot ==
  ASSUME FieldLaws, NEW d \in Nat, d # 0, NEW w \in [0..(d - 1) -> Wide(d)],
         NEW m, SameSolutions(w, m, d), NEW s \in 0..(d - 1), Reduced(w, s, d),
         \A q \in s..(d - 1) : w[q][s] = 0
  PROVE  \E x \in Row(d) : x[s] = 1 /\ Product(m, x, Zeros(d), d)
<1> DEFINE From(k, x) == x[s] = 1 /\ \A q \in k..(d - 1) : Dot(w[q], x, d) = 0
           T == {k \in 0..s : \E x \in Row(d) : From(k, x)}
<1>0. \A q, i \in 0..(d - 1) : w[q][i] \in Elements
  <2> TAKE q, i \in 0..(d - 1)
  <2>1. w[q] \in Wide(d)
    OBVIOUS
  <2> QED
    BY <2>1, WideHalves
<1>1. s \in T
  <2>1. Unit(s, d) \in Row(d) /\ Unit(s, d)[s] = 1
    BY UnitType DEF Unit
  <2>2. \A q \in s..(d - 1) : Dot(w[q], Unit(s, d), d) = 0
    <3> TAKE q \in s..(d - 1)
    <3>1. q \in 0..(d - 1)
      OBVIOUS
    <3> QED
      BY <1>0, <3>1, DotUnit
  <2> QED
    BY <2>1, <2>2
<1>2. PICK k \in T : \A l \in T : k <= l
  <2>1. T \in SUBSET Nat
    OBVIOUS
  <2> HIDE DEF T
  <2> QED
    BY <1>1, <2>1, LeastNumber
<1>3. PICK x \in Row(d) : From(k, x)
  OBVIOUS
<1>4. CASE k # 0
  <2>0. PICK h \in 0..(d - 1) : k = h + 1
    BY <1>4
  <2> DEFINE f == Dot(w[h], x, d)
             z == Plus(x, h, f, d)
  <2>1. h \in 0..(s - 1) /\ h \in 0..s /\ h \in 0..(d - 1) /\ h < k /\ h # s /\ k \in 0..s
    BY <2>0
  <2>2. \A i \in 0..(d - 1) : x[i] \in Elements
    BY DEF Row
  <2>3. f \in Elements
    BY <1>0, <2>1, <2>2, DotType
  <2> HIDE DEF f
  <2>4. z \in Row(d) /\ z[s] = 1
    <3>1. z[s] = x[s]
      BY <2>1 DEF Plus
    <3>2. z \in Row(d)
      <4>1. Unit(h, d) \in Row(d)
        BY UnitType
      <4> QED
        BY <2>3, <4>1, DotPlus
    <3> QED
      BY <1>3, <3>1, <3>2
  <2>5. ASSUME NEW q \in h..(d - 1) PROVE Dot(w[q], z, d) = 0
    <3>0. q \in 0..(d - 1)
      BY <2>1
    <3>1. Dot(w[q], z, d) = add(Dot(w[q], x, d), multiply(f, w[q][h]))
      <4> DEFINE row == [i \in 0..(d - 1) |-> w[q][i]]
      <4>1. row \in Row(d) /\ \A i \in 0..(d - 1) : row[i] = w[q][i]
        BY <1>0, <3>0 DEF Row
      <4> HIDE DEF row
      <4>2. Dot(row, z, d) = add(Dot(row, x, d), multiply(f, row[h]))
        BY <2>1, <2>3, <4>1, DotPlus
      <4>3. /\ Dot(row, z, d) = Dot(w[q], z, d)
            /\ Dot(row, x, d) = Dot(w[q], x, d)
            /\ row[h] = w[q][h]
        <5> HIDE DEF z
        <5> QED
          BY <4>1, DotCong
      <4> QED
        BY <4>2, <4>3
    <3>2. CASE q = h
      <4>1. w[h][h] = 1
        BY <2>1 DEF Reduced
      <4> QED
        BY <2>3, <3>1, <3>2, <4>1, Neutral DEF f
    <3>3. CASE q # h
      <4>1. q \in (h + 1)..(d - 1) /\ q \in k..(d - 1)
        BY <2>0, <3>3
      <4>2. w[q][h] = 0 /\ Dot(w[q], x, d) = 0
        BY <1>3, <2>1, <4>1 DEF Reduced
      <4> QED
        BY <2>3, <3>1, <4>2, Closed, Neutral
    <3> QED
      BY <3>2, <3>3
  <2>6. h \in T
    <3> HIDE DEF z
    <3> QED
      BY <2>1, <2>4, <2>5
  <2> HIDE DEF T
  <2> QED
    BY <1>2, <2>1, <2>6
<1>5. CASE k = 0
  <2> DEFINE o == Zeros(d)
  <2>1. o \in Row(d) /\ \A i \in 0..(d - 1) : o[i] = 0
    BY Closed DEF Row, Zeros
  <2> HIDE DEF o
  <2>2. Solves(w, x, o, d)
    <3> SUFFICES ASSUME NEW q \in 0..(d - 1) PROVE Holds(w[q], x, o, d)
      BY DEF Solves
    <3>1. Dot(w[q], x, d) = 0
      BY <1>3, <1>5
    <3>2. \A i \in 0..(d - 1) : Right(w[q], d)[i] \in Elements
      BY WideHalves
    <3>3. Dot(Right(w[q], d), o, d) = 0
      BY <2>1, <3>2, DotZero
    <3> QED
      BY <3>1, <3>3 DEF Holds
  <2>3. Product(m, x, o, d)
    BY <2>1, <2>2 DEF SameSolutions
  <2> QED
    BY <1>3, <2>3 DEF o
<1> QED
  BY <1>4, <1>5

-----------------------------------------------------------------------------
(***************************************************************************)
(* The coding matrix: the Vandermonde matrix times a matrix, with the      *)
(* identity on top.                                                        *)
(***************************************************************************)
Systematic(m, d, P) ==
  /\ \E inv \in Square(d) :
       \A i \in P, k \in 0..(d - 1) : m[i][k] = Poly(Column(inv, k, d), d, i)
  /\ \A k \in 0..(d - 1) : m[k] = Unit(k, d)

\* Without coefficients there is nothing to add up.
LEMMA PolyZero ==
  ASSUME FieldLaws, NEW P \in SUBSET Elements, NEW d \in Nat, d # 0, Powers(P, d),
         NEW c, \A k \in 0..(d - 1) : c[k] = 0, NEW a \in P
  PROVE  Poly(c, d, a) = 0
<1> DEFINE e == [j \in 0..(d - 1) |-> exp(a, j)]
<1>1. \A j \in 0..(d - 1) : e[j] \in Elements
  BY PowersType
<1>2. Dot(e, c, d) = Poly(c, d, a)
  <2>1. [j \in 0..(d - 1) |-> multiply(e[j], c[j])] =
        [j \in 0..(d - 1) |-> multiply(exp(a, j), c[j])]
    OBVIOUS
  <2> QED
    BY <2>1 DEF Dot, Poly
<1> HIDE DEF e
<1> QED
  BY <1>1, <1>2, DotZero

\* Any d rows are independent: what the rows of the shards in p take to zero is zero.
LEMMA AnyRows ==
  ASSUME FieldLaws, NEW d \in Nat, d # 0,
         NEW P \in SUBSET Elements, Powers(P, d), 0..(d - 1) \subseteq P,
         NEW m \in [P -> Row(d)], Systematic(m, d, P),
         NEW p \in [0..(d - 1) -> P], Distinct(p, d),
         NEW x \in Row(d), \A q \in 0..(d - 1) : Dot(m[p[q]], x, d) = 0
  PROVE  \A k \in 0..(d - 1) : x[k] = 0
<1>1. PICK inv \in Square(d) :
        \A i \in P, k \in 0..(d - 1) : m[i][k] = Poly(Column(inv, k, d), d, i)
  BY DEF Systematic
<1>2. \A i, j \in 0..(d - 1) : inv[i][j] \in Elements /\ x[i] \in Elements
  BY DEF Row, Square
<1> DEFINE c == TimesColumn(inv, x, d)
<1>3. c \in Row(d)
  BY <1>2, DotType DEF Row, TimesColumn
<1>4. ASSUME NEW i \in P PROVE Dot(m[i], x, d) = Poly(c, d, i)
  <2> DEFINE v == [j \in 0..(d - 1) |-> exp(i, j)]
  <2>1. v \in Row(d) /\ \A j \in 0..(d - 1) : v[j] = exp(i, j)
    BY PowersType DEF Row
  <2>2. \A e : Dot(v, e, d) = Poly(e, d, i)
    <3> TAKE e
    <3>1. [j \in 0..(d - 1) |-> multiply(v[j], e[j])] =
          [j \in 0..(d - 1) |-> multiply(exp(i, j), e[j])]
      BY <2>1
    <3> QED
      BY <3>1 DEF Dot, Poly
  <2> HIDE DEF v
  <2>3. m[i] = RowTimes(v, inv, d)
    <3>1. \A k \in 0..(d - 1) : m[i][k] = RowTimes(v, inv, d)[k]
      BY <1>1, <2>2 DEF RowTimes
    <3>2. m[i] \in Row(d)
      OBVIOUS
    <3> QED
      BY <3>1, <3>2 DEF Row, RowTimes
  <2>4. Dot(RowTimes(v, inv, d), x, d) = Dot(v, TimesColumn(inv, x, d), d)
    BY <2>1, DotAssociates
  <2> QED
    BY <2>2, <2>3, <2>4
<1> HIDE DEF c
<1>5. RootsAt(c, p, d)
  BY <1>4 DEF RootsAt
<1>6. \A k \in 0..(d - 1) : c[k] = 0
  BY <1>3, <1>5, Roots
<1>7. ASSUME NEW k \in 0..(d - 1) PROVE x[k] = 0
  <2>1. k \in P
    OBVIOUS
  <2>2. Dot(m[k], x, d) = 0
    BY <1>4, <1>6, <2>1, PolyZero
  <2>3. Dot(m[k], x, d) = x[k]
    BY <1>2, DotUnit DEF Systematic
  <2> QED
    BY <2>2, <2>3
<1> QED
  BY <1>7

\* The same of the Vandermonde matrix itself, whose top is inverted.
LEMMA TopRows ==
  ASSUME FieldLaws, NEW d \in Nat, d # 0,
         NEW P \in SUBSET Elements, Powers(P, d), 0..(d - 1) \subseteq P,
         NEW m,
         \A i, j \in 0..(d - 1) : m[i][j] = exp(i, j),
         NEW x \in Row(d), \A q \in 0..(d - 1) : Dot(m[q], x, d) = 0
  PROVE  \A k \in 0..(d - 1) : x[k] = 0
<1> DEFINE p == [q \in 0..(d - 1) |-> q]
<1>1. \A q \in 0..(d - 1) : p[q] = q /\ q \in P
  OBVIOUS
<1>2. p \in [0..(d - 1) -> P] /\ Distinct(p, d)
  BY <1>1 DEF Distinct
<1>3. RootsAt(x, p, d)
  <2> SUFFICES ASSUME NEW q \in 0..(d - 1) PROVE Poly(x, d, p[q]) = 0
    BY DEF RootsAt
  <2>1. [j \in 0..(d - 1) |-> multiply(m[q][j], x[j])] =
        [j \in 0..(d - 1) |-> multiply(exp(q, j), x[j])]
    OBVIOUS
  <2>2. Dot(m[q], x, d) = Poly(x, d, q)
    BY <2>1 DEF Dot, Poly
  <2> QED
    BY <1>1, <2>2
<1> HIDE DEF p
<1> QED
  BY <1>2, <1>3, Roots

\* Every data shard has a part in every parity shard.
LEMMA ParityUsesData ==
  ASSUME FieldLaws, NEW d \in Nat, d # 0,
         NEW P \in SUBSET Elements, Powers(P, d), 0..(d - 1) \subseteq P,
         NEW m, Systematic(m, d, P),
         NEW i \in P \ 0..(d - 1), NEW k \in 0..(d - 1)
  PROVE  m[i][k] # 0
<1> SUFFICES ASSUME m[i][k] = 0 PROVE FALSE
  OBVIOUS
<1>1. PICK inv \in Square(d) :
        \A j \in P, l \in 0..(d - 1) : m[j][l] = Poly(Column(inv, l, d), d, j)
  BY DEF Systematic
<1> DEFINE c == Column(inv, k, d)
           p == [q \in 0..(d - 1) |-> IF q = k THEN i ELSE q]
<1>2. c \in Row(d)
  BY DEF Column, Row, Square
<1>3. /\ \A q \in 0..(d - 1) : p[q] = (IF q = k THEN i ELSE q) /\ q \in P
      /\ i \in P
  OBVIOUS
<1>0. p \in [0..(d - 1) -> P]
  OBVIOUS
<1>4. Distinct(p, d)
  BY <1>3 DEF Distinct
<1> HIDE DEF p, c
<1>5. RootsAt(c, p, d)
  <2> SUFFICES ASSUME NEW q \in 0..(d - 1) PROVE Poly(c, d, p[q]) = 0
    BY DEF RootsAt
  <2>1. CASE q = k
    BY <1>1, <1>3, <2>1 DEF c
  <2>2. CASE q # k
    <3>1. m[q] = Unit(q, d) /\ Unit(q, d)[k] = 0
      BY <2>2 DEF Systematic, Unit
    <3> QED
      BY <1>1, <1>3, <2>2, <3>1 DEF c
  <2> QED
    BY <2>1, <2>2
<1>6. \A j \in 0..(d - 1) : c[j] = 0
  BY <1>0, <1>2, <1>4, <1>5, Roots
<1>7. m[k][k] = Poly(c, d, k)
  BY <1>1, <1>3 DEF c
<1>8. m[k][k] = 1
  <2>1. m[k] = Unit(k, d) /\ Unit(k, d)[k] = 1
    BY DEF Systematic, Unit
  <2> QED
    BY <2>1
<1>9. Poly(c, d, k) = 0
  BY <1>3, <1>6, PolyZero
<1>10. 0 # 1
  OBVIOUS
<1> QED
  BY <1>7, <1>8, <1>9, <1>10, Zenon

\* The Vandermonde matrix times the inverse of its top.
LEMMA SystematicBuilt ==
  ASSUME FieldLaws, NEW d \in Nat, d # 0,
         NEW P \in SUBSET Elements, Powers(P, d), 0..(d - 1) \subseteq P,
         NEW w \in [0..(d - 1) -> Wide(d)], NEW m, SameSolutions(w, m, d), LeftIsIdentity(w, d),
         \A i, j \in 0..(d - 1) : m[i][j] = exp(i, j),
         NEW c \in [P -> Row(d)],
         \A i \in P, k \in 0..(d - 1) : c[i][k] = Poly(Column(RightHalves(w, d), k, d), d, i)
  PROVE  Systematic(c, d, P)
<1> DEFINE inv == RightHalves(w, d)
<1>1. inv \in Square(d) /\ \A q, k \in 0..(d - 1) : inv[q][k] \in Elements /\ inv[q] \in Row(d)
  <2>1. \A q, k \in 0..(d - 1) : Right(w[q], d)[k] \in Elements
    BY WideHalves
  <2>2. \A q \in 0..(d - 1) : Right(w[q], d) \in Row(d)
    BY <2>1 DEF Right, Row
  <2> QED
    BY <2>1, <2>2 DEF Square, RightHalves
<1> HIDE DEF inv
<1>2. \A i \in P, k \in 0..(d - 1) : c[i][k] = Poly(Column(inv, k, d), d, i)
  BY DEF inv
<1>3. ASSUME NEW k \in 0..(d - 1) PROVE c[k] = Unit(k, d)
  <2>1. ASSUME NEW l \in 0..(d - 1) PROVE c[k][l] = Unit(k, d)[l]
    <3> DEFINE x == Column(inv, l, d)
    <3>1. x \in Row(d) /\ Unit(l, d) \in Row(d)
      BY <1>1, UnitType DEF Row, Column
    <3>2. Product(inv, Unit(l, d), x, d)
      <4> SUFFICES ASSUME NEW q \in 0..(d - 1) PROVE Dot(inv[q], Unit(l, d), d) = x[q]
        BY DEF Product
      <4>1. Dot(inv[q], Unit(l, d), d) = inv[q][l]
        BY <1>1, DotUnit
      <4> QED
        BY <4>1 DEF Column
    <3> HIDE DEF x
    <3>3. Product(m, x, Unit(l, d), d)
      BY <3>1, <3>2, InverseSolves DEF inv
    <3>4. Dot(m[k], x, d) = Poly(x, d, k)
      <4>1. [j \in 0..(d - 1) |-> multiply(m[k][j], x[j])] =
            [j \in 0..(d - 1) |-> multiply(exp(k, j), x[j])]
        OBVIOUS
      <4> QED
        BY <4>1 DEF Dot, Poly
    <3>5. c[k][l] = Poly(x, d, k)
      <4>1. k \in P
        OBVIOUS
      <4> QED
        BY <1>2, <4>1 DEF x
    <3>6. Unit(l, d)[k] = Unit(k, d)[l]
      BY DEF Unit
    <3> QED
      BY <3>3, <3>4, <3>5, <3>6 DEF Product
  <2>2. c[k] \in Row(d) /\ Unit(k, d) \in Row(d)
    <3>1. k \in P
      OBVIOUS
    <3> QED
      BY <3>1, UnitType
  <2> QED
    BY <2>1, <2>2 DEF Row
<1> QED
  BY <1>1, <1>2, <1>3 DEF Systematic

-----------------------------------------------------------------------------
(***************************************************************************)
(* How far the left half is reduced.                                       *)
(***************************************************************************)
Cleared(w, n) == \A j \in 0..(n - 1) : \A q \in 0..(j - 1) : w[q][j] = 0

\* A row that is still to do is swapped for another ...
LEMMA SwapReduced ==
  ASSUME NEW d \in Nat, NEW w \in [0..(d - 1) -> Wide(d)],
         NEW s \in 0..(d - 1), NEW p \in s..(d - 1), Reduced(w, s, d)
  PROVE  Reduced([w EXCEPT ![s] = w[p], ![p] = w[s]], s, d)
<1> DEFINE v == [w EXCEPT ![s] = w[p], ![p] = w[s]]
<1>1. /\ \A q \in 0..(d - 1) : q # s /\ q # p => v[q] = w[q]
      /\ v[s] = w[p] /\ v[p] = w[s]
  OBVIOUS
<1> HIDE DEF v
<1>2. ASSUME NEW j \in 0..(s - 1)
      PROVE  v[j][j] = 1 /\ \A q \in (j + 1)..(d - 1) : v[q][j] = 0
  <2>1. j \in 0..(d - 1) /\ j # s /\ j # p
    OBVIOUS
  <2>2. s \in (j + 1)..(d - 1) /\ p \in (j + 1)..(d - 1)
    OBVIOUS
  <2>3. w[j][j] = 1 /\ \A q \in (j + 1)..(d - 1) : w[q][j] = 0
    BY DEF Reduced
  <2>4. \A q \in (j + 1)..(d - 1) : q \in 0..(d - 1)
    OBVIOUS
  <2> QED
    BY <1>1, <2>1, <2>2, <2>3, <2>4
<1> QED
  BY <1>2 DEF Reduced, v

\* ... is divided by its pivot ...
LEMMA ScaleReduced ==
  ASSUME FieldLaws, NEW d \in Nat, NEW w, NEW s \in 0..(d - 1), NEW f \in Elements,
         NEW v, Scaled(v, w, s, f, d), Reduced(w, s, d), multiply(w[s][s], f) = 1
  PROVE  Reduced(v, s, d) /\ v[s][s] = 1
<1>1. \A j \in 0..(d - 1) : v[s][j] = multiply(w[s][j], f)
  <2>1. \A j \in 0..(d - 1) : j \in 0..(2 * d - 1)
    OBVIOUS
  <2> QED
    BY <2>1 DEF Scaled
<1>2. ASSUME NEW j \in 0..(s - 1)
      PROVE  v[j][j] = 1 /\ \A q \in (j + 1)..(d - 1) : v[q][j] = 0
  <2>1. w[j][j] = 1 /\ \A q \in (j + 1)..(d - 1) : w[q][j] = 0
    BY DEF Reduced
  <2>2. v[j][j] = 1
    BY <2>1 DEF Scaled
  <2>3. ASSUME NEW q \in (j + 1)..(d - 1) PROVE v[q][j] = 0
    <3>1. CASE q = s
      BY <1>1, <2>1, <3>1, Neutral
    <3>2. CASE q # s
      BY <2>1, <3>2 DEF Scaled
    <3> QED
      BY <3>1, <3>2
  <2> QED
    BY <2>2, <2>3
<1> QED
  BY <1>1, <1>2 DEF Reduced

\* ... and cleared out of the rows below.
LEMMA BelowReduced ==
  ASSUME FieldLaws, NEW d \in Nat, NEW w \in [0..(d - 1) -> Wide(d)], NEW s \in 0..(d - 1),
         NEW v, Eliminated(v, w, s, (s + 1)..(d - 1), d), Reduced(w, s, d), w[s][s] = 1
  PROVE  Reduced(v, s + 1, d)
<1>0. \A q, j \in 0..(d - 1) : w[q][j] \in Elements
  <2> TAKE q, j \in 0..(d - 1)
  <2>1. w[q] \in Wide(d)
    OBVIOUS
  <2> QED
    BY <2>1, WideHalves
<1>1. \A q \in (s + 1)..(d - 1), j \in 0..(d - 1) :
        v[q][j] = add(w[q][j], multiply(w[q][s], w[s][j]))
  <2>1. \A j \in 0..(d - 1) : j \in 0..(2 * d - 1)
    OBVIOUS
  <2>2. \A q \in (s + 1)..(d - 1) : q \in 0..(d - 1)
    OBVIOUS
  <2> QED
    BY <2>1, <2>2 DEF Eliminated
<1>2. \A q \in 0..s : v[q] = w[q]
  BY DEF Eliminated
<1>3. ASSUME NEW j \in 0..s
      PROVE  v[j][j] = 1 /\ \A q \in (j + 1)..(d - 1) : v[q][j] = 0
  <2>1. CASE j = s
    <3>1. v[j][j] = 1
      BY <1>2, <2>1
    <3>2. ASSUME NEW q \in (s + 1)..(d - 1) PROVE v[q][s] = 0
      <4>1. v[q][s] = add(w[q][s], multiply(w[q][s], 1)) /\ w[q][s] \in Elements
        BY <1>0, <1>1
      <4> QED
        BY <4>1, Neutral
    <3> QED
      BY <2>1, <3>1, <3>2
  <2>2. CASE j # s
    <3>1. j \in 0..(s - 1)
      BY <2>2
    <3>2. w[j][j] = 1 /\ \A q \in (j + 1)..(d - 1) : w[q][j] = 0
      BY <3>1 DEF Reduced
    <3>3. ASSUME NEW q \in (j + 1)..(d - 1) PROVE v[q][j] = 0
      <4>1. CASE q <= s
        BY <1>2, <3>2, <4>1
      <4>2. CASE q > s
        <5>1. q \in (s + 1)..(d - 1) /\ s \in (j + 1)..(d - 1) /\ q \in 0..(d - 1)
          BY <3>1, <4>2
        <5>2. w[q][j] = 0 /\ w[s][j] = 0 /\ w[q][s] \in Elements
          BY <1>0, <3>2, <5>1
        <5>3. v[q][j] = add(0, multiply(w[q][s], 0))
          BY <1>1, <5>1, <5>2
        <5> QED
          BY <5>2, <5>3, Closed, Neutral
      <4> QED
        BY <4>1, <4>2
    <3> QED
      BY <1>2, <3>2, <3>3
  <2> QED
    BY <2>1, <2>2
<1>4. (s + 1) - 1 = s
  OBVIOUS
<1> QED
  BY <1>3, <1>4 DEF Reduced

\* In the second loop a column is cleared above the diagonal.
LEMMA AboveReduced ==
  ASSUME FieldLaws, NEW d \in Nat, NEW w \in [0..(d - 1) -> Wide(d)], NEW s \in 0..(d - 1),
         NEW v, Eliminated(v, w, s, 0..(s - 1), d), Reduced(w, d, d), Cleared(w, s)
  PROVE  Reduced(v, d, d) /\ Cleared(v, s + 1)
<1>0. \A q, j \in 0..(d - 1) : w[q][j] \in Elements
  <2> TAKE q, j \in 0..(d - 1)
  <2>1. w[q] \in Wide(d)
    OBVIOUS
  <2> QED
    BY <2>1, WideHalves
<1>1. \A q \in 0..(s - 1), j \in 0..(d - 1) :
        v[q][j] = add(w[q][j], multiply(w[q][s], w[s][j]))
  <2>1. \A j \in 0..(d - 1) : j \in 0..(2 * d - 1)
    OBVIOUS
  <2>2. \A q \in 0..(s - 1) : q \in 0..(d - 1)
    OBVIOUS
  <2> QED
    BY <2>1, <2>2 DEF Eliminated
<1>2. \A q \in s..(d - 1) : v[q] = w[q]
  BY DEF Eliminated
\* Row s is zero left of its one.
<1>3. \A j \in 0..(s - 1) : w[s][j] = 0
  <2> TAKE j \in 0..(s - 1)
  <2>1. j \in 0..(d - 1) /\ s \in (j + 1)..(d - 1)
    OBVIOUS
  <2> QED
    BY <2>1 DEF Reduced
<1>4. \A q \in 0..(s - 1), j \in 0..(s - 1) : v[q][j] = w[q][j]
  <2> TAKE q \in 0..(s - 1), j \in 0..(s - 1)
  <2>1. q \in 0..(d - 1) /\ j \in 0..(d - 1)
    OBVIOUS
  <2>2. /\ v[q][j] = add(w[q][j], multiply(w[q][s], 0))
        /\ w[q][j] \in Elements
        /\ w[q][s] \in Elements
    BY <1>0, <1>1, <1>3, <2>1
  <2> QED
    BY <2>2, Neutral
<1>5. ASSUME NEW j \in 0..(d - 1)
      PROVE  v[j][j] = 1 /\ \A q \in (j + 1)..(d - 1) : v[q][j] = 0
  <2>1. w[j][j] = 1 /\ \A q \in (j + 1)..(d - 1) : w[q][j] = 0
    BY DEF Reduced
  <2>2. v[j][j] = 1
    <3>1. CASE j < s
      <4>1. j \in 0..(s - 1)
        BY <3>1
      <4> QED
        BY <1>4, <2>1, <4>1
    <3>2. CASE j >= s
      BY <1>2, <2>1, <3>2
    <3> QED
      BY <3>1, <3>2
  <2>3. ASSUME NEW q \in (j + 1)..(d - 1) PROVE v[q][j] = 0
    <3>1. CASE q < s
      <4>1. q \in 0..(s - 1) /\ j \in 0..(s - 1)
        BY <3>1
      <4> QED
        BY <1>4, <2>1, <4>1
    <3>2. CASE q >= s
      BY <1>2, <2>1, <3>2
    <3> QED
      BY <3>1, <3>2
  <2> QED
    BY <2>2, <2>3
<1>6. ASSUME NEW j \in 0..s, NEW q \in 0..(j - 1) PROVE v[q][j] = 0
  <2>0. q \in 0..(s - 1) /\ q \in 0..(d - 1)
    OBVIOUS
  <2>1. CASE j = s
    <3>1. w[s][s] = 1
      BY DEF Reduced
    <3>2. v[q][s] = add(w[q][s], multiply(w[q][s], 1)) /\ w[q][s] \in Elements
      BY <1>0, <1>1, <2>0, <3>1
    <3> QED
      BY <2>1, <3>2, Neutral
  <2>2. CASE j # s
    <3>1. j \in 0..(s - 1)
      BY <2>2
    <3>2. w[q][j] = 0
      BY <3>1 DEF Cleared
    <3> QED
      BY <1>4, <2>0, <3>1, <3>2
  <2> QED
    BY <2>1, <2>2
<1>7. (s + 1) - 1 = s
  OBVIOUS
<1> QED
  BY <1>5, <1>6, <1>7 DEF Reduced, Cleared

\* After both loops the left half is the identity.
LEMMA ReducedIsIdentity ==
  ASSUME NEW d \in Nat, NEW w, Reduced(w, d, d), Cleared(w, d)
  PROVE  LeftIsIdentity(w, d)
<1> SUFFICES ASSUME NEW q \in 0..(d - 1), NEW j \in 0..(d - 1)
             PROVE  w[q][j] = IF j = q THEN 1 ELSE 0
  BY DEF LeftIsIdentity
<1>1. CASE q = j
  BY <1>1 DEF Reduced
<1>2. CASE q > j
  <2>1. q \in (j + 1)..(d - 1)
    BY <1>2
  <2> QED
    BY <1>2, <2>1 DEF Reduced
<1>3. CASE q < j
  <2>1. q \in 0..(j - 1)
    BY <1>3
  <2> QED
    BY <1>3, <2>1 DEF Cleared
<1> QED
  BY <1>1, <1>2, <1>3

-----------------------------------------------------------------------------
(***************************************************************************)
(* The inductive invariant of the erasure code.                            *)
(***************************************************************************)
Numbers == 0..(total - 1)
Eliminating == stage \in {"pivot", "scale", "below", "above", "inverted"}

\* Gaussian elimination: the columns done so far, in both loops.
Reduction ==
  /\ stage \in {"pivot", "scale", "below"} => r < data /\ Reduced(work, r, data)
  /\ stage = "scale" => work[r][r] # 0
  /\ stage = "below" => work[r][r] = 1
  /\ stage \in {"above", "inverted"} => Reduced(work, data, data) /\ Cleared(work, r)
  /\ stage = "above" => r < data
  /\ stage = "inverted" => r = data

\* The object: what is inverted, and the coding matrix.
MatrixBuilt ==
  /\ matrix = <<>> => /\ Eliminating /\ Missing = {}
                      /\ \A i, j \in 0..(data - 1) : sub[i][j] = exp(i, j)
  /\ matrix # <<>> => Systematic(matrix, data, Numbers)
  /\ stage \in {"ready", "encoded"} => Missing = {}

\* The stripe: what is there is as encoded, and what is inverted are the rows of the
\* shards that are used.
Decoding ==
  /\ matrix # <<>> /\ stage # "ready" =>
       /\ \A i \in Numbers \ (0..(data - 1)) : original[i] = Dot(matrix[i], original, data)
       /\ \A i \in Numbers : present[i] => shards[i] = original[i]
       /\ Eliminating => /\ total - Cardinality(Missing) >= data
                         /\ \A i \in 0..(data - 1) : sub[i] = matrix[Used(Missing)[i]]
  /\ stage = "data" => \A i \in 0..(data - 1) : shards[i] = original[i]
  /\ stage = "decoded" => shards = original
  /\ stage = "thrown" => total - Cardinality(Missing) < data

ErasureInv ==
  /\ ErasureTypeOK
  /\ Eliminating => SameSolutions(work, sub, data)
  /\ Reduction
  /\ MatrixBuilt
  /\ Decoding

\* The numbers of the shards are bytes, and exp takes powers of them.
LEMMA ShapeFacts ==
  ASSUME FieldLaws, ErasureTypeOK
  PROVE  /\ data \in Nat /\ data # 0 /\ total \in Nat /\ data < total
         /\ Numbers \in SUBSET Elements /\ Powers(Numbers, data)
         /\ 0..(data - 1) \subseteq Numbers
<1>1. <<data, total - data>> \in (Nat \ {0}) \X (Nat \ {0}) /\ total \in Nat
  BY ReedSolomonAssumption DEF ErasureTypeOK
<1>2. /\ data \in Nat
      /\ data # 0
      /\ total \in Nat
      /\ data < total
      /\ data + (total - data) - 1 = total - 1
  BY <1>1
<1>3. PICK s \in Shapes : s[1] = data /\ s[2] = total - data
  BY DEF ErasureTypeOK
<1>4. 0..(s[1] + s[2] - 1) = Numbers /\ s[1] - 1 = data - 1
  BY <1>2, <1>3 DEF Numbers
<1>5. Numbers \in SUBSET Elements
  BY <1>4, ReedSolomonAssumption
<1>6. Powers(Numbers, data)
  <2>1. \A i \in Numbers :
          exp(i, 0) = 1 /\ \A j \in 1..(s[1] - 1) : exp(i, j) = multiply(i, exp(i, j - 1))
    BY <1>4, Zenon DEF FieldLaws, PairLaws
  <2> QED
    BY <1>4, <2>1 DEF Powers
<1> QED
  BY <1>2, <1>5, <1>6 DEF Numbers

\* What the coding loop computes.
LEMMA CodeIsDot ==
  ASSUME NEW row, NEW inputs
  PROVE  Code(row, inputs) = Dot(row, inputs, data)
  BY DEF Code, Dot

\* The shards that are used are present, and no two of them are the same.
LEMMA UsedFacts ==
  ASSUME data \in Nat, total \in Nat, NEW lost \in SUBSET Numbers,
         total - Cardinality(lost) >= data
  PROVE  /\ \A i \in 0..(data - 1) : Used(lost)[i] \in Numbers \ lost
         /\ Used(lost) \in [0..(data - 1) -> Numbers]
         /\ Distinct(Used(lost), data)
<1>1. ASSUME NEW i \in 0..(data - 1)
      PROVE  Used(lost)[i] \in Numbers \ lost /\ Cardinality(0..(Used(lost)[i] - 1) \ lost) = i
  <2>1. \E s \in Numbers : s \notin lost /\ Place(s, lost) = i
    <3>1. Enough(total, lost, data) /\ lost \in SUBSET (0..(total - 1))
      BY DEF Enough, Numbers
    <3> QED
      BY <3>1, ShardExists DEF Numbers
  <2>2. Used(lost)[i] = CHOOSE s \in Numbers \ lost : Cardinality(0..(s - 1) \ lost) = i
    BY DEF Used, Numbers
  <2> QED
    BY <2>1, <2>2, Zenon DEF Place
<1>2. Used(lost) \in [0..(data - 1) -> Numbers]
  BY <1>1 DEF Used
<1>3. Distinct(Used(lost), data)
  BY <1>1, Zenon DEF Distinct
<1> QED
  BY <1>1, <1>2, <1>3

\* What is inverted takes nothing but zero to zero: the matrix is never singular.
LEMMA Invertible ==
  ASSUME FieldLaws, ErasureInv, Eliminating, NEW x \in Row(data),
         Product(sub, x, Zeros(data), data)
  PROVE  \A k \in 0..(data - 1) : x[k] = 0
<1>0. /\ data \in Nat /\ data # 0 /\ total \in Nat
      /\ Numbers \in SUBSET Elements /\ Powers(Numbers, data) /\ 0..(data - 1) \subseteq Numbers
  BY ShapeFacts DEF ErasureInv
<1>1. \A q \in 0..(data - 1) : Dot(sub[q], x, data) = 0
  BY DEF Product, Zeros
<1>2. CASE matrix = <<>>
  <2>1. \A i, j \in 0..(data - 1) : sub[i][j] = exp(i, j)
    BY <1>2 DEF ErasureInv, MatrixBuilt
  <2> QED
    BY <1>0, <1>1, <2>1, TopRows
<1>3. CASE matrix # <<>>
  <2>1. /\ total - Cardinality(Missing) >= data
        /\ \A i \in 0..(data - 1) : sub[i] = matrix[Used(Missing)[i]]
    BY <1>3 DEF ErasureInv, Decoding, Eliminating
  <2>2. Missing \in SUBSET Numbers
    BY DEF Missing, Numbers
  <2>3. Used(Missing) \in [0..(data - 1) -> Numbers] /\ Distinct(Used(Missing), data)
    BY <1>0, <2>1, <2>2, UsedFacts
  <2>4. matrix \in [Numbers -> Row(data)] /\ Systematic(matrix, data, Numbers)
    BY <1>3 DEF ErasureInv, ErasureTypeOK, MatrixBuilt, Numbers, Row
  <2>5. \A q \in 0..(data - 1) : Dot(matrix[Used(Missing)[q]], x, data) = 0
    BY <1>1, <2>1
  <2> QED
    BY <1>0, <2>3, <2>4, <2>5, AnyRows
<1> QED
  BY <1>2, <1>3

-----------------------------------------------------------------------------
(***************************************************************************)
(* The steps.                                                              *)
(***************************************************************************)
\* The elimination leaves the stripe and the coding matrix alone.
LEMMA ObjectKept ==
  ASSUME MatrixBuilt, Decoding, Eliminating, Eliminating', UNCHANGED object
  PROVE  MatrixBuilt' /\ Decoding'
<1>1. Numbers' = Numbers /\ Missing' = Missing
  BY DEF Numbers, Missing, object
<1>2. Used(Missing)' = Used(Missing)
  BY <1>1 DEF Used, object
<1>3. stage' \notin {"ready", "encoded", "data", "decoded", "thrown"} /\ stage # "ready"
  BY DEF Eliminating
<1>4. MatrixBuilt'
  BY <1>1, <1>3 DEF MatrixBuilt, object
<1>5. Decoding'
  BY <1>1, <1>2, <1>3 DEF Decoding, object
<1> QED
  BY <1>4, <1>5

\* The types, with the names of this module.
LEMMA ObjectFacts ==
  ASSUME FieldLaws, ErasureTypeOK
  PROVE  /\ data \in Nat /\ data # 0 /\ total \in Nat /\ data < total
         /\ work \in [0..(data - 1) -> Wide(data)]
         /\ sub \in Square(data)
         /\ original \in [Numbers -> Elements] /\ shards \in [Numbers -> Elements]
         /\ Numbers \in SUBSET Elements /\ Powers(Numbers, data)
         /\ 0..(data - 1) \subseteq Numbers
  BY ShapeFacts DEF ErasureTypeOK, Wide, Square, Row, Numbers

\* A step of the elimination changes the work matrix and no more.
LEMMA EliminationStep ==
  ASSUME FieldLaws, ErasureInv, Eliminating, Eliminating', UNCHANGED object,
         work' \in [0..(data - 1) -> Wide(data)], r' \in 0..data,
         SameSolutions(work', sub, data), Reduction'
  PROVE  ErasureInv'
<1>1. data' = data /\ sub' = sub
  BY DEF object
<1>2. MatrixBuilt' /\ Decoding'
  BY ObjectKept DEF ErasureInv
<1>3. ErasureTypeOK'
  BY DEF ErasureTypeOK, ErasureInv, object, Eliminating, Wide
<1>4. SameSolutions(work, sub, data)'
  BY <1>1
<1> QED
  BY <1>2, <1>3, <1>4 DEF ErasureInv

\* A pivot is found: without one a vector that is not zero would be taken to zero.
LEMMA StepPivot ==
  ASSUME FieldLaws, ErasureInv, Pivot
  PROVE  ErasureInv'
<1> DEFINE below == {q \in (r + 1)..(data - 1) : work[q][r] # 0}
           p     == IF work[r][r] = 0 /\ below # {} THEN Least(below) ELSE r
<1>0. /\ data \in Nat /\ data # 0
      /\ work \in [0..(data - 1) -> Wide(data)]
      /\ Eliminating /\ SameSolutions(work, sub, data)
      /\ r \in 0..(data - 1) /\ Reduced(work, r, data)
  <2>1. ErasureTypeOK /\ stage = "pivot"
    BY DEF ErasureInv, Pivot
  <2>2. Eliminating
    BY <2>1 DEF Eliminating
  <2>3. r < data /\ Reduced(work, r, data) /\ SameSolutions(work, sub, data)
    BY <2>1, <2>2 DEF ErasureInv, Reduction
  <2>4. r \in 0..data
    BY <2>1 DEF ErasureTypeOK
  <2> QED
    BY <2>1, <2>2, <2>3, <2>4, ObjectFacts
<1>1. below \in SUBSET Nat /\ below \subseteq r..(data - 1)
  BY <1>0
<1>2. below # {} => Least(below) \in below
  <2> HIDE DEF below
  <2> QED
    BY <1>1, LeastNumber DEF Least
<1>3. p \in r..(data - 1)
  <2> HIDE DEF below
  <2>1. r \in r..(data - 1)
    BY <1>0
  <2>2. below # {} => Least(below) \in r..(data - 1)
    BY <1>1, <1>2
  <2> QED
    BY <2>1, <2>2, Zenon
<1>4. work[p][r] # 0
  <2>1. CASE work[r][r] = 0 /\ below = {}
    <3>1. \A q \in r..(data - 1) : work[q][r] = 0
      BY <1>0, <2>1
    <3>2. PICK x \in Row(data) : x[r] = 1 /\ Product(sub, x, Zeros(data), data)
      BY <1>0, <3>1, NoPivot
    <3>3. \A k \in 0..(data - 1) : x[k] = 0
      BY <1>0, <3>2, Invertible
    <3>4. x[r] = 0 /\ x[r] = 1
      BY <1>0, <3>2, <3>3
    <3> QED
      BY <3>4
  <2>2. CASE work[r][r] = 0 /\ below # {}
    BY <1>2, <2>2
  <2>3. CASE work[r][r] # 0
    BY <2>3
  <2> QED
    BY <2>1, <2>2, <2>3
<1>5. /\ work' = [work EXCEPT ![r] = work[p], ![p] = work[r]]
      /\ stage' = "scale" /\ r' = r /\ UNCHANGED object
  BY <1>4 DEF Pivot
<1> HIDE DEF p
<1>6. work' \in [0..(data - 1) -> Wide(data)] /\ work'[r] = work[p] /\ p \in 0..(data - 1)
  BY <1>0, <1>3, <1>5
<1>7. SameSolutions(work', sub, data)
  BY <1>0, <1>5, <1>6, SwapSolves
<1>8. Reduced(work', r, data)
  BY <1>0, <1>3, <1>5, SwapReduced
<1>9. Reduction'
  <2>1. work'[r'][r'] # 0 /\ r' < data /\ data' = data
    BY <1>0, <1>4, <1>5, <1>6 DEF object
  <2>2. Reduced(work, r, data)'
    BY <1>5, <1>8, <2>1
  <2> QED
    BY <1>5, <2>1, <2>2 DEF Reduction
<1>10. Eliminating' /\ r' \in 0..data
  BY <1>0, <1>5 DEF Eliminating
<1> QED
  BY <1>0, <1>5, <1>6, <1>7, <1>9, <1>10, EliminationStep

\* The row of the pivot is divided by it.
LEMMA StepScale ==
  ASSUME FieldLaws, ErasureInv, Scale
  PROVE  ErasureInv'
<1> DEFINE f == divide(1, work[r][r])
<1>0. /\ data \in Nat /\ data # 0
      /\ work \in [0..(data - 1) -> Wide(data)]
      /\ Eliminating /\ SameSolutions(work, sub, data)
      /\ r \in 0..(data - 1) /\ Reduced(work, r, data) /\ work[r][r] # 0
      /\ work[r][r] \in Elements
  <2>1. ErasureTypeOK /\ stage = "scale"
    BY DEF ErasureInv, Scale
  <2>2. Eliminating
    BY <2>1 DEF Eliminating
  <2>3. r < data /\ Reduced(work, r, data) /\ SameSolutions(work, sub, data) /\ work[r][r] # 0
    BY <2>1, <2>2 DEF ErasureInv, Reduction
  <2>4. r \in 0..data
    BY <2>1 DEF ErasureTypeOK
  <2>5. data \in Nat /\ data # 0 /\ work \in [0..(data - 1) -> Wide(data)]
    BY <2>1, ObjectFacts
  <2> QED
    BY <2>2, <2>3, <2>4, <2>5 DEF Wide
<1>1. f \in Elements /\ multiply(work[r][r], f) = 1
  BY <1>0, Reciprocal
<1>2. f # 0
  BY <1>0, <1>1, Neutral
<1>3. /\ stage' = "below" /\ r' = r /\ UNCHANGED object
      /\ work' = [work EXCEPT ![r] = [j \in DOMAIN @ |-> multiply(@[j], f)]]
  BY DEF Scale
<1> HIDE DEF f
<1>4. work' = [work EXCEPT ![r] = [j \in 0..(2 * data - 1) |-> multiply(work[r][j], f)]]
  BY <1>0, <1>3 DEF Wide
<1>5. work' \in [0..(data - 1) -> Wide(data)]
  <2>1. [j \in 0..(2 * data - 1) |-> multiply(work[r][j], f)] \in Wide(data)
    BY <1>0, <1>1, Closed DEF Wide
  <2> QED
    BY <1>0, <1>4, <2>1
<1>6. Scaled(work', work, r, f, data)
  BY <1>0, <1>4 DEF Scaled
<1>7. SameSolutions(work', sub, data)
  BY <1>0, <1>1, <1>2, <1>5, <1>6, ScaleSolves
<1>8. Reduced(work', r, data) /\ work'[r][r] = 1
  BY <1>0, <1>1, <1>6, ScaleReduced
<1>9. Reduction'
  <2>1. work'[r'][r'] = 1 /\ r' < data /\ data' = data
    BY <1>0, <1>3, <1>8 DEF object
  <2>2. Reduced(work, r, data)'
    BY <1>3, <1>8, <2>1
  <2> QED
    BY <1>3, <2>1, <2>2 DEF Reduction
<1>10. Eliminating' /\ r' \in 0..data
  BY <1>0, <1>3 DEF Eliminating
<1> QED
  BY <1>0, <1>3, <1>5, <1>7, <1>9, <1>10, EliminationStep

\* The rows that AddRow leaves.
RowsAdded(w, s, Q, d) ==
  [q \in 0..(d - 1) |-> IF q \in Q THEN AddRow(w, q, s, w[q][s]) ELSE w[q]]

\* They are what the lemmas about elimination speak of.
LEMMA AddedFacts ==
  ASSUME FieldLaws, NEW d \in Nat, NEW w \in [0..(d - 1) -> Wide(d)], NEW s \in 0..(d - 1),
         NEW Q, NEW v, v = RowsAdded(w, s, Q, d)
  PROVE  v \in [0..(d - 1) -> Wide(d)] /\ Eliminated(v, w, s, Q, d)
<1>1. ASSUME NEW q \in 0..(d - 1)
      PROVE  /\ AddRow(w, q, s, w[q][s]) =
                  [j \in 0..(2 * d - 1) |-> add(w[q][j], multiply(w[q][s], w[s][j]))]
             /\ AddRow(w, q, s, w[q][s]) \in Wide(d)
  <2>1. AddRow(w, q, s, w[q][s]) =
          [j \in 0..(2 * d - 1) |-> add(w[q][j], multiply(w[q][s], w[s][j]))]
    BY DEF AddRow, Wide
  <2>2. \A j \in 0..(2 * d - 1) : w[q][j] \in Elements /\ w[s][j] \in Elements
    BY DEF Wide
  <2>3. w[q][s] \in Elements
    BY <2>2
  <2>4. \A j \in 0..(2 * d - 1) : add(w[q][j], multiply(w[q][s], w[s][j])) \in Elements
    BY <2>2, <2>3, Closed
  <2> QED
    BY <2>1, <2>4 DEF Wide
<1>2. \A q \in 0..(d - 1) : v[q] = IF q \in Q THEN AddRow(w, q, s, w[q][s]) ELSE w[q]
  BY DEF RowsAdded
<1>3. v \in [0..(d - 1) -> Wide(d)]
  <2>1. \A q \in 0..(d - 1) : (IF q \in Q THEN AddRow(w, q, s, w[q][s]) ELSE w[q]) \in Wide(d)
    BY <1>1
  <2> QED
    BY <2>1 DEF RowsAdded
<1>4. Eliminated(v, w, s, Q, d)
  <2> SUFFICES ASSUME NEW q \in 0..(d - 1)
               PROVE  /\ q \in Q => \A j \in 0..(2 * d - 1) :
                                   v[q][j] = add(w[q][j], multiply(w[q][s], w[s][j]))
                      /\ q \notin Q => v[q] = w[q]
    BY DEF Eliminated
  <2>1. CASE q \in Q
    <3>1. v[q] = [j \in 0..(2 * d - 1) |-> add(w[q][j], multiply(w[q][s], w[s][j]))]
      BY <1>1, <1>2, <2>1
    <3> QED
      BY <2>1, <3>1
  <2>2. CASE q \notin Q
    BY <1>2, <2>2
  <2> QED
    BY <2>1, <2>2
<1> QED
  BY <1>3, <1>4

\* The first loop.
LEMMA StepBelow ==
  ASSUME FieldLaws, ErasureInv, EliminateBelow
  PROVE  ErasureInv'
<1> DEFINE Q == (r + 1)..(data - 1)
<1>0. /\ data \in Nat /\ data # 0
      /\ work \in [0..(data - 1) -> Wide(data)]
      /\ Eliminating /\ SameSolutions(work, sub, data)
      /\ r \in 0..(data - 1) /\ Reduced(work, r, data) /\ work[r][r] = 1
  <2>1. ErasureTypeOK /\ stage = "below"
    BY DEF ErasureInv, EliminateBelow
  <2>2. Eliminating
    BY <2>1 DEF Eliminating
  <2>3. r < data /\ Reduced(work, r, data) /\ SameSolutions(work, sub, data) /\ work[r][r] = 1
    BY <2>1, <2>2 DEF ErasureInv, Reduction
  <2>4. r \in 0..data
    BY <2>1 DEF ErasureTypeOK
  <2>5. data \in Nat /\ data # 0 /\ work \in [0..(data - 1) -> Wide(data)]
    BY <2>1, ObjectFacts
  <2> QED
    BY <2>2, <2>3, <2>4, <2>5
<1>1. /\ work' = [q \in 0..(data - 1) |->
                    IF q > r THEN AddRow(work, q, r, work[q][r]) ELSE work[q]]
      /\ r' = IF r + 1 = data THEN 0 ELSE r + 1
      /\ stage' = IF r + 1 = data THEN "above" ELSE "pivot"
      /\ UNCHANGED object /\ data' = data
  BY DEF EliminateBelow, object
<1>2. \A q \in 0..(data - 1) : q > r <=> q \in Q
  BY <1>0
<1> HIDE DEF Q
<1>3. work' = RowsAdded(work, r, Q, data)
  BY <1>1, <1>2, Zenon DEF RowsAdded
<1>4. work' \in [0..(data - 1) -> Wide(data)] /\ Eliminated(work', work, r, Q, data)
  BY <1>0, <1>3, AddedFacts
<1>5. SameSolutions(work', sub, data)
  <2>1. r \notin Q
    BY <1>0 DEF Q
  <2> QED
    BY <1>0, <1>4, <2>1, EliminateSolves
<1>6. Reduced(work', r + 1, data)
  BY <1>0, <1>4, BelowReduced DEF Q
<1>7. Reduction' /\ Eliminating' /\ r' \in 0..data
  <2>1. CASE r + 1 = data
    <3>1. stage' = "above" /\ r' = 0 /\ Reduced(work', data', data') /\ Cleared(work', r')
      BY <1>0, <1>1, <1>6, <2>1 DEF Cleared
    <3> QED
      BY <1>0, <1>1, <3>1 DEF Reduction, Eliminating
  <2>2. CASE r + 1 # data
    <3>1. stage' = "pivot" /\ r' = r + 1 /\ Reduced(work', r', data') /\ r' < data'
      BY <1>0, <1>1, <1>6, <2>2
    <3> QED
      BY <1>0, <1>1, <3>1 DEF Reduction, Eliminating
  <2> QED
    BY <2>1, <2>2
<1> QED
  BY <1>0, <1>1, <1>4, <1>5, <1>7, EliminationStep

\* The second loop.
LEMMA StepAbove ==
  ASSUME FieldLaws, ErasureInv, EliminateAbove
  PROVE  ErasureInv'
<1> DEFINE Q == 0..(r - 1)
<1>0. /\ data \in Nat /\ data # 0
      /\ work \in [0..(data - 1) -> Wide(data)]
      /\ Eliminating /\ SameSolutions(work, sub, data)
      /\ r \in 0..(data - 1) /\ Reduced(work, data, data) /\ Cleared(work, r)
  <2>1. ErasureTypeOK /\ stage = "above"
    BY DEF ErasureInv, EliminateAbove
  <2>2. Eliminating
    BY <2>1 DEF Eliminating
  <2>3. /\ r < data
        /\ Reduced(work, data, data)
        /\ SameSolutions(work, sub, data)
        /\ Cleared(work, r)
    BY <2>1, <2>2 DEF ErasureInv, Reduction
  <2>4. r \in 0..data
    BY <2>1 DEF ErasureTypeOK
  <2>5. data \in Nat /\ data # 0 /\ work \in [0..(data - 1) -> Wide(data)]
    BY <2>1, ObjectFacts
  <2> QED
    BY <2>2, <2>3, <2>4, <2>5
<1>1. /\ work' = [q \in 0..(data - 1) |->
                    IF q < r THEN AddRow(work, q, r, work[q][r]) ELSE work[q]]
      /\ r' = r + 1
      /\ stage' = IF r + 1 = data THEN "inverted" ELSE "above"
      /\ UNCHANGED object /\ data' = data
  BY DEF EliminateAbove, object
<1>2. \A q \in 0..(data - 1) : q < r <=> q \in Q
  BY <1>0
<1> HIDE DEF Q
<1>3. work' = RowsAdded(work, r, Q, data)
  BY <1>1, <1>2, Zenon DEF RowsAdded
<1>4. work' \in [0..(data - 1) -> Wide(data)] /\ Eliminated(work', work, r, Q, data)
  BY <1>0, <1>3, AddedFacts
<1>5. SameSolutions(work', sub, data)
  <2>1. r \notin Q
    BY <1>0 DEF Q
  <2> QED
    BY <1>0, <1>4, <2>1, EliminateSolves
<1>6. Reduced(work', data, data) /\ Cleared(work', r + 1)
  BY <1>0, <1>4, AboveReduced DEF Q
<1>7. Reduction' /\ Eliminating' /\ r' \in 0..data
  <2>1. Reduced(work', data', data') /\ Cleared(work', r') /\ r' \in 0..data
    BY <1>0, <1>1, <1>6
  <2>2. CASE r + 1 = data
    BY <1>1, <2>1, <2>2 DEF Reduction, Eliminating
  <2>3. CASE r + 1 # data
    <3>1. r' < data'
      BY <1>0, <1>1, <2>3
    <3> QED
      BY <1>1, <2>1, <2>3, <3>1 DEF Reduction, Eliminating
  <2> QED
    BY <2>2, <2>3
<1> QED
  BY <1>0, <1>1, <1>4, <1>5, <1>7, EliminationStep

\* The constructor begins to invert the top of the Vandermonde matrix.
LEMMA ErasureInitially ==
  ASSUME FieldLaws, ErasureInit
  PROVE  ErasureInv
<1>0. ErasureTypeOK
  <2>1. PICK s \in Shapes : data = s[1] /\ total = s[1] + s[2]
    BY DEF ErasureInit
  <2>2. s[1] \in Nat \ {0} /\ s[2] \in Nat \ {0} /\ s = <<s[1], s[2]>>
    BY ReedSolomonAssumption
  <2>3. total - data = s[2] /\ data \in Nat /\ data # 0 /\ total \in Nat /\ data < total
    BY <2>1, <2>2
  <2>4. <<data, total - data>> \in Shapes
    BY <2>1, <2>2, <2>3
  <2>5. 0 \in Elements /\ 1 \in Elements
    BY Closed
  <2>6. \A i \in 0..(total - 1) : \A j \in 0..(data - 1) : exp(i, j) \in Elements
    <3>1. 0..(s[1] + s[2] - 1) \in SUBSET Elements /\ s[1] + s[2] - 1 = total - 1
      BY <2>1, <2>2, ReedSolomonAssumption
    <3>2. \A i \in 0..(s[1] + s[2] - 1) :
             exp(i, 0) = 1 /\ \A j \in 1..(s[1] - 1) : exp(i, j) = multiply(i, exp(i, j - 1))
      BY Zenon DEF FieldLaws, PairLaws
    <3>3. Powers(0..(total - 1), data)
      BY <2>1, <3>1, <3>2 DEF Powers
    <3> QED
      BY <2>3, <3>1, <3>3, PowersType
  <2>7. sub \in [0..(data - 1) -> [0..(data - 1) -> Elements]]
    BY <2>3, <2>6 DEF ErasureInit, Vandermonde
  <2>8. work \in [0..(data - 1) -> [0..(2 * data - 1) -> Elements]]
    <3>1. work = Augment(sub)
      BY DEF ErasureInit
    <3>2. \A i \in 0..(data - 1), j \in 0..(2 * data - 1) :
            (IF j < data THEN sub[i][j] ELSE IF j = data + i THEN 1 ELSE 0) \in Elements
      BY <2>3, <2>5, <2>7
    <3> QED
      BY <3>1, <3>2 DEF Augment
  <2>9. /\ stage = "pivot" /\ matrix = <<>> /\ r \in 0..data
        /\ shards \in [0..(total - 1) -> Elements] /\ original \in [0..(total - 1) -> Elements]
        /\ present \in [0..(total - 1) -> BOOLEAN]
    BY <2>3, <2>5 DEF ErasureInit
  <2> QED
    BY <2>3, <2>4, <2>7, <2>8, <2>9 DEF ErasureTypeOK
<1>1. data \in Nat /\ data # 0 /\ data < total /\ total \in Nat
  BY <1>0, ObjectFacts
<1>2. stage = "pivot" /\ Eliminating /\ matrix = <<>> /\ r = 0
  BY DEF ErasureInit, Eliminating
<1>3. SameSolutions(work, sub, data)
  <2>1. \A i \in 0..(data - 1), j \in 0..(2 * data - 1) :
          work[i][j] = IF j < data THEN sub[i][j] ELSE IF j = data + i THEN 1 ELSE 0
    BY DEF ErasureInit, Augment
  <2> QED
    BY <1>1, <2>1, AugmentSolves
<1>4. Reduction
  BY <1>1, <1>2 DEF Reduction, Reduced
<1>5. MatrixBuilt
  <2>1. Missing = {}
    BY DEF ErasureInit, Missing
  <2>2. \A i, j \in 0..(data - 1) : sub[i][j] = exp(i, j)
    BY <1>1 DEF ErasureInit, Vandermonde
  <2> QED
    BY <1>2, <2>1, <2>2 DEF MatrixBuilt
<1>6. Decoding
  BY <1>2 DEF Decoding
<1> QED
  BY <1>0, <1>3, <1>4, <1>5, <1>6 DEF ErasureInv

\* The coding matrix, once there is one.
LEMMA MatrixFacts ==
  ASSUME FieldLaws, ErasureInv, matrix # <<>>
  PROVE  /\ matrix \in [Numbers -> Row(data)] /\ Systematic(matrix, data, Numbers)
         /\ \A i \in Numbers : Dot(matrix[i], original, data) \in Elements
         /\ \A i \in 0..(data - 1) : matrix[i] = Unit(i, data)
<1>1. matrix \in [Numbers -> Row(data)] /\ Systematic(matrix, data, Numbers)
  BY DEF ErasureInv, ErasureTypeOK, MatrixBuilt, Numbers, Row
<1>2. data \in Nat /\ original \in [Numbers -> Elements] /\ 0..(data - 1) \subseteq Numbers
  BY ObjectFacts DEF ErasureInv
<1>3. ASSUME NEW i \in Numbers PROVE Dot(matrix[i], original, data) \in Elements
  <2>1. \A j \in 0..(data - 1) : matrix[i][j] \in Elements /\ original[j] \in Elements
    BY <1>1, <1>2 DEF Row
  <2> QED
    BY <1>2, <2>1, DotType
<1> QED
  BY <1>1, <1>3 DEF Systematic

\* The inverse is found: the rest of buildMatrix.
LEMMA StepBuild ==
  ASSUME FieldLaws, ErasureInv, BuildMatrix
  PROVE  ErasureInv'
<1> DEFINE inv == RightHalves(work, data)
<1>0. /\ data \in Nat /\ data # 0 /\ total \in Nat /\ data < total
      /\ work \in [0..(data - 1) -> Wide(data)]
      /\ Numbers \in SUBSET Elements /\ Powers(Numbers, data) /\ 0..(data - 1) \subseteq Numbers
  BY ObjectFacts DEF ErasureInv
<1>1. /\ stage = "inverted" /\ matrix = <<>> /\ stage' = "ready"
      /\ matrix' = Times(Vandermonde, total, RightHalf(work))
      /\ UNCHANGED <<data, total, shards, present, sub, work, r, original>>
  BY DEF BuildMatrix
<1>2. SameSolutions(work, sub, data) /\ LeftIsIdentity(work, data)
  <2>1. Reduced(work, data, data) /\ Cleared(work, data)
    BY <1>1 DEF ErasureInv, Reduction
  <2> QED
    BY <1>0, <1>1, <2>1, ReducedIsIdentity DEF ErasureInv, Eliminating
<1>3. Missing = {} /\ \A i, j \in 0..(data - 1) : sub[i][j] = exp(i, j)
  BY <1>1 DEF ErasureInv, MatrixBuilt
<1>4. RightHalf(work) = inv /\ \A q, k \in 0..(data - 1) : inv[q][k] \in Elements
  BY <1>0 DEF RightHalf, RightHalves, Right, Wide
<1>5. ASSUME NEW i \in Numbers, NEW k \in 0..(data - 1)
      PROVE  /\ matrix'[i][k] = Poly(Column(inv, k, data), data, i)
             /\ matrix'[i][k] \in Elements
  <2> DEFINE col == [q \in 0..(data - 1) |-> inv[q][k]]
  <2>1. matrix'[i][k] = Code(Vandermonde[i], col)
    <3> HIDE DEF inv
    <3> QED
      BY <1>1, <1>4 DEF Times, Numbers
  <2>2. Code(Vandermonde[i], col) = Poly(col, data, i)
    <3>1. \A j \in 0..(data - 1) : Vandermonde[i][j] = exp(i, j)
      BY DEF Vandermonde, Numbers
    <3>2. [j \in 0..(data - 1) |-> multiply(Vandermonde[i][j], col[j])] =
          [j \in 0..(data - 1) |-> multiply(exp(i, j), col[j])]
      BY <3>1
    <3> QED
      BY <3>2 DEF Code, Poly
  <2>3. \A j \in 0..(data - 1) : col[j] \in Elements
    BY <1>4
  <2>4. data \in 0..data
    BY <1>0
  <2> HIDE DEF col
  <2>5. Poly(col, data, i) \in Elements
    BY <1>0, <2>3, <2>4, PolyType
  <2> QED
    BY <2>1, <2>2, <2>5 DEF Column, col
<1>6. matrix' \in [Numbers -> Row(data)]
  <2> DEFINE M == [i \in Numbers |-> [k \in 0..(data - 1) |->
                     Code(Vandermonde[i], [q \in 0..(data - 1) |-> inv[q][k]])]]
  <2>1. matrix' = M
    <3> HIDE DEF inv
    <3> QED
      BY <1>1, <1>4 DEF Times, Numbers
  <2>2. \A i \in Numbers, k \in 0..(data - 1) :
          Code(Vandermonde[i], [q \in 0..(data - 1) |-> inv[q][k]]) \in Elements
    <3> SUFFICES ASSUME NEW i \in Numbers, NEW k \in 0..(data - 1)
                 PROVE  Code(Vandermonde[i], [q \in 0..(data - 1) |-> inv[q][k]]) \in Elements
      OBVIOUS
    <3>1. M[i][k] \in Elements
      <4> HIDE DEF M
      <4> QED
        BY <1>5, <2>1
    <3> HIDE DEF inv
    <3> QED
      BY <3>1
  <2> HIDE DEF inv
  <2> QED
    BY <2>1, <2>2 DEF Row
<1> HIDE DEF inv
<1>7. Systematic(matrix', data, Numbers)
  BY <1>0, <1>2, <1>3, <1>5, <1>6, SystematicBuilt DEF inv
<1>8. matrix' # <<>>
  <2>1. 0 \in Numbers /\ DOMAIN matrix' = Numbers
    BY <1>0, <1>6 DEF Numbers
  <2> QED
    BY <2>1
<1>9. ErasureTypeOK'
  <2>1. matrix' \in [0..(total' - 1) -> [0..(data' - 1) -> Elements]]
    BY <1>1, <1>6 DEF Numbers, Row
  <2> QED
    BY <1>1, <2>1 DEF ErasureInv, ErasureTypeOK
<1>10. ~Eliminating' /\ Reduction'
  BY <1>1 DEF Eliminating, Reduction
<1>11. MatrixBuilt'
  <2>1. Missing' = {} /\ data' = data /\ Numbers' = Numbers
    BY <1>1, <1>3 DEF Missing, Numbers
  <2>2. Systematic(matrix, data, Numbers)'
    BY <1>7, <2>1
  <2> QED
    BY <1>8, <2>1, <2>2 DEF MatrixBuilt
<1>12. Decoding'
  BY <1>1 DEF Decoding
<1> QED
  BY <1>9, <1>10, <1>11, <1>12 DEF ErasureInv

\* The parity shards of a new stripe are computed.
LEMMA StepEncode ==
  ASSUME FieldLaws, ErasureInv, NEW row \in [0..(data - 1) -> Samples], EncodeParity(row)
  PROVE  ErasureInv'
<1>0. /\ data \in Nat /\ data # 0 /\ total \in Nat /\ data < total
      /\ 0..(data - 1) \subseteq Numbers
  BY ObjectFacts DEF ErasureInv
<1>1. /\ stage = "ready" /\ stage' = "encoded"
      /\ shards' = WithParity(row) /\ original' = WithParity(row)
      /\ UNCHANGED <<data, total, matrix, present, sub, work, r>>
  BY DEF EncodeParity
<1>2. matrix # <<>> /\ Missing = {} /\ ~Eliminating
  BY <1>1 DEF ErasureInv, MatrixBuilt, Eliminating
<1>3. matrix \in [Numbers -> Row(data)]
  BY <1>2, MatrixFacts
<1>4. \A j \in 0..(data - 1) : row[j] \in Elements
  BY ReedSolomonAssumption
<1>5. ASSUME NEW i \in Numbers
      PROVE  /\ Code(matrix[i], row) \in Elements
             /\ Code(matrix[i], row) = Dot(matrix[i], row, data)
  <2>1. \A j \in 0..(data - 1) : matrix[i][j] \in Elements
    BY <1>3 DEF Row
  <2> QED
    BY <1>0, <1>4, <2>1, DotType, CodeIsDot
<1>6. WithParity(row) \in [Numbers -> Elements]
  <2>1. \A i \in Numbers : (IF i < data THEN row[i] ELSE Code(matrix[i], row)) \in Elements
    <3> SUFFICES ASSUME NEW i \in Numbers
                 PROVE  (IF i < data THEN row[i] ELSE Code(matrix[i], row)) \in Elements
      OBVIOUS
    <3>1. i < data => i \in 0..(data - 1)
      BY <1>0 DEF Numbers
    <3> QED
      BY <1>4, <1>5, <3>1
  <2> QED
    BY <2>1 DEF WithParity, Numbers
<1>7. \A i \in Numbers : WithParity(row)[i] = IF i < data THEN row[i] ELSE Code(matrix[i], row)
  BY DEF WithParity, Numbers
<1>8. ErasureTypeOK'
  BY <1>1, <1>6 DEF ErasureInv, ErasureTypeOK, Numbers
<1>9. ~Eliminating' /\ Reduction'
  BY <1>1 DEF Eliminating, Reduction
<1>10. Missing' = {} /\ Numbers' = Numbers /\ data' = data
  BY <1>1, <1>2 DEF Missing, Numbers
<1>11. MatrixBuilt'
  <2>1. Systematic(matrix, data, Numbers)'
    BY <1>1, <1>2, <1>10, MatrixFacts
  <2> QED
    BY <1>1, <1>2, <1>10, <2>1 DEF MatrixBuilt
<1>12. ASSUME NEW i \in Numbers \ (0..(data - 1))
       PROVE  original'[i] = Dot(matrix[i], original', data)
  <2>1. original'[i] = Dot(matrix[i], row, data)
    <3>1. ~(i < data)
      BY <1>0 DEF Numbers
    <3> QED
      BY <1>1, <1>5, <1>7, <3>1
  <2>2. \A j \in 0..(data - 1) : original'[j] = row[j]
    BY <1>0, <1>1, <1>7
  <2>3. Dot(matrix[i], row, data) = Dot(matrix[i], original', data)
    BY <1>0, <2>2, DotCong
  <2> QED
    BY <2>1, <2>3
<1>13. Decoding'
  BY <1>1, <1>9, <1>10, <1>12 DEF Decoding
<1> QED
  BY <1>8, <1>9, <1>11, <1>13 DEF ErasureInv

\* Numbers of shards can be compared.
LEMMA CountLost ==
  ASSUME data \in Nat, total \in Nat, NEW lost \in SUBSET Numbers,
         ~(total - Cardinality(lost) < data)
  PROVE  total - Cardinality(lost) >= data
<1>1. IsFiniteSet(0..(total - 1))
  <2>1. 0 \in Int /\ total - 1 \in Int
    OBVIOUS
  <2> QED
    BY <2>1, FS_Interval, Zenon
<1>2. IsFiniteSet(lost)
  BY <1>1, FS_Subset DEF Numbers
<1>3. Cardinality(lost) \in Nat
  BY <1>2, FS_CardinalityType
<1> QED
  BY <1>3

\* A step between stripes, or within one, that leaves the object and what was encoded.
LEMMA StripeStep ==
  ASSUME FieldLaws, ErasureInv, matrix # <<>>, stage # "ready",
         UNCHANGED <<data, total, matrix, original>>
  PROVE  /\ Numbers' = Numbers /\ matrix' # <<>> /\ Systematic(matrix, data, Numbers)'
         /\ \A i \in Numbers \ (0..(data - 1)) : original[i] = Dot(matrix[i], original, data)
         /\ (\A i \in Numbers \ (0..(data - 1)) : original[i] = Dot(matrix[i], original, data))'
<1>1. Numbers' = Numbers
  BY DEF Numbers
<1>2. \A i \in Numbers \ (0..(data - 1)) : original[i] = Dot(matrix[i], original, data)
  BY DEF ErasureInv, Decoding
<1>3. Systematic(matrix, data, Numbers)
  BY MatrixFacts
<1> QED
  BY <1>1, <1>2, <1>3

\* Shards are lost, and the matrix of those to use is set up.
LEMMA StepDecode ==
  ASSUME FieldLaws, ErasureInv, NEW lost \in SUBSET (0..(total - 1)), DecodeMissing(lost)
  PROVE  ErasureInv'
<1>0. /\ data \in Nat /\ data # 0 /\ total \in Nat /\ data < total
      /\ shards \in [Numbers -> Elements] /\ original \in [Numbers -> Elements]
  BY ObjectFacts DEF ErasureInv
<1>1. /\ stage = "encoded"
      /\ present' = [i \in DOMAIN present |-> i \notin lost]
      /\ shards' = [i \in DOMAIN shards |-> IF i \in lost THEN 0 ELSE shards[i]]
      /\ UNCHANGED <<data, total, matrix, original>>
  BY DEF DecodeMissing
<1>2. matrix # <<>> /\ Missing = {}
  BY <1>1 DEF ErasureInv, MatrixBuilt, Eliminating
<1>3. matrix \in [Numbers -> Row(data)]
  BY <1>2, MatrixFacts
<1>4. /\ Numbers' = Numbers /\ matrix' # <<>> /\ Systematic(matrix, data, Numbers)'
      /\ (\A i \in Numbers \ (0..(data - 1)) : original[i] = Dot(matrix[i], original, data))'
  BY <1>1, <1>2, StripeStep
<1>5. present \in [Numbers -> BOOLEAN] /\ lost \in SUBSET Numbers
  BY DEF ErasureInv, ErasureTypeOK, Numbers
<1>6. \A i \in Numbers : present'[i] = (i \notin lost)
  BY <1>1, <1>5
<1>7. Missing' = lost
  BY <1>4, <1>5, <1>6 DEF Missing, Numbers
<1>8. \A i \in Numbers : present[i] /\ shards[i] = original[i]
  <2>1. \A i \in Numbers : present[i]
    BY <1>2 DEF Missing, Numbers
  <2> QED
    BY <1>1, <1>2, <2>1 DEF ErasureInv, Decoding
<1>9. \A i \in Numbers : present'[i] => shards'[i] = original'[i]
  BY <1>0, <1>1, <1>6, <1>8
<1>10. /\ shards' \in [0..(total' - 1) -> Elements]
       /\ present' \in [0..(total' - 1) -> BOOLEAN]
  <2>1. \A i \in Numbers : (IF i \in lost THEN 0 ELSE shards[i]) \in Elements
    BY <1>0, Closed
  <2> QED
    BY <1>0, <1>1, <1>5, <2>1 DEF Numbers
<1>11. CASE lost = {} \/ total - Cardinality(lost) < data
  <2>1. /\ stage' = IF lost = {} THEN "decoded" ELSE "thrown"
        /\ UNCHANGED <<sub, work, r>>
    BY <1>11 DEF DecodeMissing
  <2>2. ErasureTypeOK'
    BY <1>1, <1>10, <2>1 DEF ErasureInv, ErasureTypeOK
  <2>3. ~Eliminating' /\ Reduction'
    BY <2>1 DEF Eliminating, Reduction
  <2>4. MatrixBuilt'
    BY <1>4, <2>1 DEF MatrixBuilt
  <2>5. lost = {} => shards' = original'
    <3> SUFFICES ASSUME lost = {} PROVE shards' = original'
      OBVIOUS
    <3>1. \A i \in Numbers : shards'[i] = original[i]
      BY <1>0, <1>1, <1>8
    <3>2. /\ shards' \in [Numbers -> Elements]
          /\ original' \in [Numbers -> Elements]
          /\ original' = original
      BY <1>0, <1>1, <1>10 DEF Numbers
    <3> QED
      BY <3>1, <3>2
  <2>6. Decoding'
    <3>1. total' - Cardinality(Missing') < data' \/ lost = {}
      BY <1>1, <1>7, <1>11
    <3> QED
      BY <1>4, <1>9, <2>1, <2>3, <2>5, <3>1 DEF Decoding
  <2> QED
    BY <2>2, <2>3, <2>4, <2>6 DEF ErasureInv
<1>12. CASE ~(lost = {} \/ total - Cardinality(lost) < data)
  <2>1. /\ stage' = "pivot" /\ r' = 0
        /\ sub' = [i \in 0..(data - 1) |-> matrix[Used(lost)[i]]]
        /\ work' = Augment([i \in 0..(data - 1) |-> matrix[Used(lost)[i]]])
    BY <1>12 DEF DecodeMissing
  <2>2. total - Cardinality(lost) >= data
    BY <1>0, <1>5, <1>12, CountLost
  <2>3. \A i \in 0..(data - 1) : Used(lost)[i] \in Numbers
    BY <1>0, <1>5, <2>2, UsedFacts
  <2>4. sub' \in Square(data)
    BY <1>3, <2>1, <2>3 DEF Square
  <2>5. \A i \in 0..(data - 1), j \in 0..(2 * data - 1) :
          work'[i][j] = IF j < data THEN sub'[i][j] ELSE IF j = data + i THEN 1 ELSE 0
    <3>1. work' = Augment(sub')
      BY <2>1
    <3> QED
      BY <3>1 DEF Augment
  <2>6. SameSolutions(work', sub', data)
    BY <1>0, <2>5, AugmentSolves
  <2>7. work' \in [0..(data - 1) -> Wide(data)]
    <3>1. \A i \in 0..(data - 1), j \in 0..(2 * data - 1) :
            (IF j < data THEN sub'[i][j] ELSE IF j = data + i THEN 1 ELSE 0) \in Elements
      BY <1>0, <2>4, Closed DEF Square, Row
    <3>2. work' = Augment(sub')
      BY <2>1
    <3> QED
      BY <3>1, <3>2 DEF Augment, Wide
  <2>8. ErasureTypeOK'
    <3>1. sub' \in [0..(data' - 1) -> [0..(data' - 1) -> Elements]]
      BY <1>1, <2>4 DEF Square, Row
    <3>2. work' \in [0..(data' - 1) -> [0..(2 * data' - 1) -> Elements]]
      BY <1>1, <2>7 DEF Wide
    <3>3. r' \in 0..data' /\ stage' = "pivot"
      BY <1>0, <1>1, <2>1
    <3> QED
      BY <1>1, <1>10, <3>1, <3>2, <3>3 DEF ErasureInv, ErasureTypeOK
  <2>9. Reduction'
    BY <1>0, <1>1, <2>1 DEF Reduction, Reduced
  <2>10. MatrixBuilt'
    BY <1>4, <2>1 DEF MatrixBuilt
  <2>11. Decoding'
    <3>1. Used(Missing)' = Used(lost)
      BY <1>1, <1>7 DEF Used
    <3>2. \A i \in 0..(data' - 1) : sub'[i] = matrix'[Used(Missing)'[i]]
      BY <1>1, <2>1, <3>1
    <3>3. total' - Cardinality(Missing') >= data'
      BY <1>1, <1>7, <2>2
    <3> QED
      BY <1>4, <1>9, <2>1, <3>2, <3>3 DEF Decoding
  <2>12. SameSolutions(work, sub, data)'
    BY <1>1, <2>6
  <2> QED
    BY <2>8, <2>9, <2>10, <2>11, <2>12 DEF ErasureInv
<1> QED
  BY <1>11, <1>12

\* The inverse of the rows that were used recovers the data ...
LEMMA StepData ==
  ASSUME FieldLaws, ErasureInv, RecreateData
  PROVE  ErasureInv'
<1> DEFINE inputs == [i \in 0..(data - 1) |-> shards[Used(Missing)[i]]]
           x      == [i \in 0..(data - 1) |-> original[i]]
           inv    == RightHalves(work, data)
<1>0. /\ data \in Nat /\ data # 0 /\ total \in Nat /\ data < total
      /\ work \in [0..(data - 1) -> Wide(data)]
      /\ shards \in [Numbers -> Elements] /\ original \in [Numbers -> Elements]
      /\ 0..(data - 1) \subseteq Numbers
  BY ObjectFacts DEF ErasureInv
<1>1. /\ stage = "inverted" /\ matrix # <<>> /\ stage' = "data"
      /\ shards' = [i \in DOMAIN shards |->
                      IF i \in Missing /\ i < data THEN Code(RightHalf(work)[i], inputs)
                      ELSE shards[i]]
      /\ UNCHANGED <<data, total, matrix, present, sub, work, r, original>>
  BY DEF RecreateData
<1>2. /\ total - Cardinality(Missing) >= data
      /\ \A i \in 0..(data - 1) : sub[i] = matrix[Used(Missing)[i]]
      /\ \A i \in Numbers : present[i] => shards[i] = original[i]
  BY <1>1 DEF ErasureInv, Decoding, Eliminating
<1>3. Missing \in SUBSET Numbers /\ \A i \in Numbers \ Missing : present[i]
  BY DEF Missing, Numbers
<1>4. \A i \in 0..(data - 1) : Used(Missing)[i] \in Numbers \ Missing
  BY <1>0, <1>2, <1>3, UsedFacts
<1>5. SameSolutions(work, sub, data) /\ LeftIsIdentity(work, data)
  <2>1. Reduced(work, data, data) /\ Cleared(work, data)
    BY <1>1 DEF ErasureInv, Reduction
  <2> QED
    BY <1>0, <1>1, <2>1, ReducedIsIdentity DEF ErasureInv, Eliminating
<1>6. inputs \in Row(data) /\ x \in Row(data)
  BY <1>0, <1>4 DEF Row
<1>7. /\ Numbers' = Numbers /\ matrix' # <<>> /\ Systematic(matrix, data, Numbers)'
      /\ \A i \in Numbers \ (0..(data - 1)) : original[i] = Dot(matrix[i], original, data)
      /\ (\A i \in Numbers \ (0..(data - 1)) : original[i] = Dot(matrix[i], original, data))'
  BY <1>1, StripeStep
<1>8. Product(sub, x, inputs, data)
  <2> SUFFICES ASSUME NEW q \in 0..(data - 1)
               PROVE  Dot(sub[q], x, data) = inputs[q]
    BY DEF Product
  <2> DEFINE u == Used(Missing)[q]
  <2>1. u \in Numbers /\ sub[q] = matrix[u] /\ inputs[q] = original[u]
    BY <1>2, <1>3, <1>4
  <2> HIDE DEF u, inputs
  <2>2. CASE u \in 0..(data - 1)
    <3>1. matrix[u] = Unit(u, data)
      BY <1>1, <2>2, MatrixFacts
    <3>2. \A i \in 0..(data - 1) : x[i] \in Elements
      BY <1>0
    <3> HIDE DEF x
    <3>3. Dot(Unit(u, data), x, data) = x[u]
      BY <1>0, <2>2, <3>2, DotUnit
    <3> QED
      BY <2>1, <2>2, <3>1, <3>3 DEF x
  <2>3. CASE u \notin 0..(data - 1)
    <3>1. original[u] = Dot(matrix[u], original, data)
      BY <1>7, <2>1, <2>3
    <3>2. \A i \in 0..(data - 1) : original[i] = x[i]
      OBVIOUS
    <3> HIDE DEF x
    <3>3. Dot(matrix[u], original, data) = Dot(matrix[u], x, data)
      BY <1>0, <3>2, DotCong
    <3> QED
      BY <2>1, <3>1, <3>3
  <2> QED
    BY <2>2, <2>3
<1> HIDE DEF inputs, x
<1>9. Product(inv, inputs, x, data)
  BY <1>0, <1>5, <1>6, <1>8, InverseSolves
<1>10. ASSUME NEW i \in 0..(data - 1) PROVE Code(RightHalf(work)[i], inputs) = original[i]
  <2>1. RightHalf(work)[i] = inv[i]
    BY DEF RightHalf, RightHalves, Right
  <2>2. Dot(inv[i], inputs, data) = x[i]
    BY <1>9 DEF Product
  <2> QED
    BY <2>1, <2>2, CodeIsDot DEF x
<1>11. ASSUME NEW i \in Numbers
       PROVE  /\ present[i] => shards'[i] = original[i]
              /\ i \in 0..(data - 1) => shards'[i] = original[i]
              /\ shards'[i] \in Elements
  <2>1. shards'[i] = IF i \in Missing /\ i < data THEN Code(RightHalf(work)[i], inputs)
                     ELSE shards[i]
    BY <1>0, <1>1
  <2>2. present[i] => i \notin Missing
    BY DEF Missing
  <2>3. i < data <=> i \in 0..(data - 1)
    BY <1>0 DEF Numbers
  <2>4. shards[i] \in Elements /\ original[i] \in Elements
    BY <1>0
  <2>5. present[i] => shards'[i] = original[i]
    BY <1>2, <2>1, <2>2
  <2>6. i \in Missing /\ i < data => shards'[i] = original[i]
    BY <1>10, <2>1, <2>3
  <2>7. ~(i \in Missing /\ i < data) => shards'[i] = shards[i]
    BY <2>1
  <2>8. i \in Missing \/ present[i]
    BY <1>3
  <2> QED
    BY <2>3, <2>4, <2>5, <2>6, <2>7, <2>8
<1>12. ErasureTypeOK'
  <2>1. shards' \in [Numbers -> Elements]
    BY <1>0, <1>1, <1>11
  <2>2. shards' \in [0..(total' - 1) -> Elements]
    BY <1>1, <2>1 DEF Numbers
  <2> QED
    BY <1>1, <2>2 DEF ErasureInv, ErasureTypeOK
<1>13. ~Eliminating' /\ Reduction'
  BY <1>1 DEF Eliminating, Reduction
<1>14. MatrixBuilt'
  BY <1>1, <1>7 DEF MatrixBuilt
<1>15. Decoding'
  <2>1. \A i \in Numbers' : present'[i] => shards'[i] = original'[i]
    BY <1>1, <1>7, <1>11
  <2>2. \A i \in 0..(data' - 1) : shards'[i] = original'[i]
    BY <1>0, <1>1, <1>11
  <2> QED
    BY <1>1, <1>7, <1>13, <2>1, <2>2 DEF Decoding
<1> QED
  BY <1>12, <1>13, <1>14, <1>15 DEF ErasureInv

\* ... and the coding matrix the parity.
LEMMA StepParity ==
  ASSUME FieldLaws, ErasureInv, RecreateParity
  PROVE  ErasureInv'
<1>0. /\ data \in Nat /\ data # 0 /\ total \in Nat /\ data < total
      /\ shards \in [Numbers -> Elements] /\ original \in [Numbers -> Elements]
      /\ 0..(data - 1) \subseteq Numbers
  BY ObjectFacts DEF ErasureInv
<1>1. /\ stage = "data" /\ stage' = "decoded"
      /\ shards' = [i \in DOMAIN shards |->
                      IF i \in Missing /\ i >= data THEN Code(matrix[i], shards) ELSE shards[i]]
      /\ UNCHANGED <<data, total, matrix, present, sub, work, r, original>>
  BY DEF RecreateParity
<1>2. matrix # <<>>
  BY <1>1 DEF ErasureInv, MatrixBuilt, Eliminating
<1>3. /\ Numbers' = Numbers /\ matrix' # <<>> /\ Systematic(matrix, data, Numbers)'
      /\ \A i \in Numbers \ (0..(data - 1)) : original[i] = Dot(matrix[i], original, data)
      /\ (\A i \in Numbers \ (0..(data - 1)) : original[i] = Dot(matrix[i], original, data))'
  BY <1>1, <1>2, StripeStep
<1>4. /\ \A i \in Numbers : present[i] => shards[i] = original[i]
      /\ \A i \in 0..(data - 1) : shards[i] = original[i]
  BY <1>1, <1>2 DEF ErasureInv, Decoding
<1>5. ASSUME NEW i \in Numbers PROVE shards'[i] = original[i]
  <2>1. CASE i \in Missing /\ i >= data
    <3>1. i \in Numbers \ (0..(data - 1))
      BY <1>0, <2>1 DEF Numbers
    <3>2. shards'[i] = Dot(matrix[i], shards, data)
      BY <1>0, <1>1, <2>1, CodeIsDot
    <3>3. Dot(matrix[i], shards, data) = Dot(matrix[i], original, data)
      BY <1>0, <1>4, DotCong
    <3> QED
      BY <1>3, <3>1, <3>2, <3>3
  <2>2. CASE ~(i \in Missing /\ i >= data)
    <3>1. shards'[i] = shards[i]
      BY <1>0, <1>1, <2>2
    <3>2. present[i] \/ i \in 0..(data - 1)
      BY <1>0, <2>2 DEF Missing, Numbers
    <3> QED
      BY <1>4, <3>1, <3>2
  <2> QED
    BY <2>1, <2>2
<1>6. shards' = original' /\ shards' \in [Numbers -> Elements]
  <2>1. DOMAIN shards' = Numbers
    BY <1>0, <1>1
  <2>2. shards' = [i \in Numbers |-> shards'[i]]
    BY <1>0, <1>1
  <2> QED
    BY <1>0, <1>1, <1>5, <2>2
<1>7. ErasureTypeOK'
  <2>1. shards' \in [0..(total' - 1) -> Elements]
    BY <1>1, <1>6 DEF Numbers
  <2> QED
    BY <1>1, <2>1 DEF ErasureInv, ErasureTypeOK
<1>8. ~Eliminating' /\ Reduction'
  BY <1>1 DEF Eliminating, Reduction
<1>9. MatrixBuilt'
  BY <1>1, <1>3 DEF MatrixBuilt
<1>10. Decoding'
  BY <1>1, <1>3, <1>6, <1>8 DEF Decoding
<1> QED
  BY <1>7, <1>8, <1>9, <1>10 DEF ErasureInv

\* The next stripe begins.
LEMMA StepReturn ==
  ASSUME FieldLaws, ErasureInv, Return
  PROVE  ErasureInv'
<1>1. /\ stage' = "ready" /\ matrix # <<>> /\ stage # "ready"
      /\ present' = [i \in DOMAIN present |-> TRUE]
      /\ UNCHANGED <<data, total, matrix, shards, sub, work, r, original>>
  BY DEF Return
<1>2. present \in [Numbers -> BOOLEAN]
  BY DEF ErasureInv, ErasureTypeOK, Numbers
<1>3. Numbers' = Numbers /\ matrix' # <<>> /\ Systematic(matrix, data, Numbers)'
  BY <1>1, StripeStep
<1>4. Missing' = {}
  BY <1>1, <1>2, <1>3 DEF Missing, Numbers
<1>5. ErasureTypeOK'
  BY <1>1, <1>2 DEF ErasureInv, ErasureTypeOK, Numbers
<1>6. ~Eliminating' /\ Reduction'
  BY <1>1 DEF Eliminating, Reduction
<1>7. MatrixBuilt'
  BY <1>3, <1>4 DEF MatrixBuilt
<1>8. Decoding'
  BY <1>1 DEF Decoding
<1> QED
  BY <1>5, <1>6, <1>7, <1>8 DEF ErasureInv

\* Nothing happens.
LEMMA StepNone ==
  ASSUME ErasureInv, UNCHANGED erasureVars
  PROVE  ErasureInv'
<1>1. /\ UNCHANGED <<stage, data, total, matrix, shards>>
      /\ UNCHANGED <<present, sub, work, r, original>>
  BY DEF erasureVars
<1>2. Numbers' = Numbers /\ Missing' = Missing /\ Eliminating' = Eliminating
  BY <1>1 DEF Numbers, Missing, Eliminating
<1>3. ErasureTypeOK'
  BY <1>1 DEF ErasureInv, ErasureTypeOK
<1>4. Reduction'
  BY <1>1 DEF ErasureInv, Reduction
<1>5. MatrixBuilt'
  BY <1>1, <1>2 DEF ErasureInv, MatrixBuilt
<1>6. Used(Missing)' = Used(Missing)
  BY <1>1, <1>2 DEF Used
<1>7. Decoding'
  BY <1>1, <1>2, <1>6 DEF ErasureInv, Decoding
<1>8. (Eliminating => SameSolutions(work, sub, data))'
  BY <1>1, <1>2 DEF ErasureInv
<1> QED
  BY <1>3, <1>4, <1>5, <1>7, <1>8 DEF ErasureInv

\* The invariant: the equations have the solutions they began with, the coding matrix is
\* the identity on top of values of polynomials, and what is present of a stripe is as
\* it was encoded.
THEOREM ErasureInvariant ==
  ASSUME FieldLaws
  PROVE  ErasureSpec => []ErasureInv
<1>1. ErasureInit => ErasureInv
  BY ErasureInitially
<1>2. ErasureInv /\ [ErasureNext]_erasureVars => ErasureInv'
  <2> SUFFICES ASSUME ErasureInv, [ErasureNext]_erasureVars
               PROVE  ErasureInv'
    OBVIOUS
  <2>1. CASE Pivot
    BY <2>1, StepPivot
  <2>2. CASE Scale
    BY <2>2, StepScale
  <2>3. CASE EliminateBelow
    BY <2>3, StepBelow
  <2>4. CASE EliminateAbove
    BY <2>4, StepAbove
  <2>5. CASE BuildMatrix
    BY <2>5, StepBuild
  <2>6. CASE RecreateData
    BY <2>6, StepData
  <2>7. CASE RecreateParity
    BY <2>7, StepParity
  <2>8. CASE Return
    BY <2>8, StepReturn
  <2>9. CASE \E row \in [0..(data - 1) -> Samples] : EncodeParity(row)
    BY <2>9, StepEncode
  <2>10. CASE \E lost \in SUBSET (0..(total - 1)) : DecodeMissing(lost)
    BY <2>10, StepDecode
  <2>11. CASE UNCHANGED erasureVars
    BY <2>11, StepNone
  <2> QED
    BY <2>1, <2>2, <2>3, <2>4, <2>5, <2>6, <2>7, <2>8, <2>9, <2>10, <2>11 DEF ErasureNext
<1> QED
  BY <1>1, <1>2, PTL DEF ErasureSpec

\* Every byte is a byte, every index is in its bounds: the type invariant.
THEOREM ErasureTypes ==
  ASSUME FieldLaws
  PROVE  ErasureSpec => []ErasureTypeOK
<1>1. ErasureInv => ErasureTypeOK
  BY DEF ErasureInv
<1> QED
  BY <1>1, ErasureInvariant, PTL

\* The solutions for the columns of the identity are the columns of the matrix.
LEMMA HalvesAgreeHere ==
  ASSUME FieldLaws, ErasureInv
  PROVE  HalvesAgree
<1> SUFFICES ASSUME Eliminating
             PROVE  Times(RightHalf(work), data, sub) =
                      [i \in 0..(data - 1) |-> [j \in 0..(data - 1) |-> work[i][j]]]
  BY DEF HalvesAgree, Eliminating
<1>0. /\ data \in Nat /\ work \in [0..(data - 1) -> Wide(data)] /\ sub \in Square(data)
      /\ SameSolutions(work, sub, data)
  BY ObjectFacts DEF ErasureInv
<1>1. ASSUME NEW i \in 0..(data - 1), NEW j \in 0..(data - 1)
      PROVE  Code(RightHalf(work)[i], [q \in 0..(data - 1) |-> sub[q][j]]) = work[i][j]
  <2>1. RightHalf(work)[i] = Right(work[i], data)
    BY DEF RightHalf, Right
  <2>2. Dot(Right(work[i], data), [q \in 0..(data - 1) |-> sub[q][j]], data) = work[i][j]
    BY <1>0, HalvesSolve
  <2> QED
    BY <2>1, <2>2, CodeIsDot
<1> QED
  BY <1>1, Zenon DEF Times

\* A coefficient that is 0 would make a square of other rows singular.
LEMMA NeverSingularHere ==
  ASSUME FieldLaws, ErasureInv
  PROVE  NeverSingular
<1>0. /\ data \in Nat /\ data # 0 /\ total \in Nat /\ data < total
      /\ Numbers \in SUBSET Elements /\ Powers(Numbers, data) /\ 0..(data - 1) \subseteq Numbers
  BY ObjectFacts DEF ErasureInv
<1>1. stage = "thrown" => total - Cardinality(Missing) < data
  BY DEF ErasureInv, Decoding
<1>2. ASSUME stage = "encoded", NEW k \in 0..(data - 1), NEW i \in data..(total - 1)
      PROVE  matrix[i][k] # 0
  <2>1. matrix # <<>>
    BY <1>2 DEF ErasureInv, MatrixBuilt, Eliminating
  <2>2. Systematic(matrix, data, Numbers)
    BY <2>1, MatrixFacts
  <2>3. i \in Numbers \ 0..(data - 1)
    BY <1>0 DEF Numbers
  <2> QED
    BY <1>0, <2>2, <2>3, ParityUsesData
<1> QED
  BY <1>1, <1>2 DEF NeverSingular

\* The product is linear in the data.
LEMMA DeltaHere ==
  ASSUME FieldLaws, ErasureInv
  PROVE  DeltaUpdatesParity
<1> SUFFICES ASSUME stage = "encoded", NEW k \in 0..(data - 1), NEW new \in Samples
             PROVE  /\ matrix[k] = [j \in 0..(data - 1) |-> IF j = k THEN 1 ELSE 0]
                    /\ \A i \in data..(total - 1) :
                         Code(matrix[i], [shards EXCEPT ![k] = new]) =
                           add(shards[i], multiply(matrix[i][k], add(shards[k], new)))
  BY DEF DeltaUpdatesParity
<1>0. /\ data \in Nat /\ total \in Nat /\ data < total
      /\ shards \in [Numbers -> Elements] /\ 0..(data - 1) \subseteq Numbers
      /\ original \in [Numbers -> Elements]
  BY ObjectFacts DEF ErasureInv
<1>1. matrix # <<>> /\ Missing = {}
  BY DEF ErasureInv, MatrixBuilt, Eliminating
<1>2. matrix[k] = [j \in 0..(data - 1) |-> IF j = k THEN 1 ELSE 0]
  BY <1>1, MatrixFacts DEF Unit
<1>3. ASSUME NEW i \in data..(total - 1)
      PROVE  Code(matrix[i], [shards EXCEPT ![k] = new]) =
               add(shards[i], multiply(matrix[i][k], add(shards[k], new)))
  <2> DEFINE x == [j \in 0..(data - 1) |-> shards[j]]
             a == matrix[i]
             f == add(shards[k], new)
             y == Plus(x, k, f, data)
  <2>1. i \in Numbers \ (0..(data - 1)) /\ i \in Numbers
    BY <1>0 DEF Numbers
  <2>2. \A j \in Numbers : shards[j] = original[j]
    BY <1>1 DEF ErasureInv, Decoding, Missing, Numbers
  <2>3. /\ a \in Row(data) /\ x \in Row(data) /\ f \in Elements /\ new \in Elements
        /\ shards[k] \in Elements
    BY <1>0, <1>1, <2>1, MatrixFacts, Closed, ReedSolomonAssumption DEF Row
  <2>4. shards[i] = Dot(a, x, data)
    <3>1. original[i] = Dot(a, original, data)
      BY <1>1, <2>1 DEF ErasureInv, Decoding
    <3>2. \A j \in 0..(data - 1) : original[j] = x[j]
      BY <1>0, <2>2
    <3> HIDE DEF x, a
    <3>3. Dot(a, original, data) = Dot(a, x, data)
      BY <1>0, <3>2, DotCong
    <3> QED
      BY <2>1, <2>2, <3>1, <3>3
  <2>5. \A j \in 0..(data - 1) : [shards EXCEPT ![k] = new][j] = y[j]
    <3>1. add(shards[k], f) = new
      <4>1. add(shards[k], f) = add(add(shards[k], shards[k]), new)
        BY <2>3, Associates
      <4> QED
        BY <2>3, <4>1, Neutral
    <3> HIDE DEF f
    <3> QED
      BY <1>0, <3>1 DEF Plus
  <2> DEFINE z == [shards EXCEPT ![k] = new]
  <2> HIDE DEF x, a, f, y, z
  <2>6. Code(a, z) = Dot(a, y, data)
    <3>1. \A j \in 0..(data - 1) : z[j] = y[j]
      BY <2>5 DEF z
    <3> QED
      BY <1>0, <3>1, CodeIsDot, DotCong
  <2>7. Dot(a, y, data) = add(Dot(a, x, data), multiply(f, a[k]))
    BY <1>0, <2>3, DotPlus DEF y
  <2>8. multiply(f, a[k]) = multiply(a[k], f)
    <3>1. a[k] \in Elements
      BY <2>3 DEF Row
    <3> QED
      BY <2>3, <3>1, Commutes
  <2> QED
    BY <2>4, <2>6, <2>7, <2>8 DEF a, f, z
<1> QED
  BY <1>2, <1>3

\* Between the passes of gaussianElimination the right half of the work matrix, times what
\* is inverted, is the left half.
THEOREM HalvesAgreeAlways ==
  ASSUME FieldLaws
  PROVE  ErasureSpec => []HalvesAgree
<1>1. ErasureInv => HalvesAgree
  BY HalvesAgreeHere
<1> QED
  BY <1>1, ErasureInvariant, PTL

\* decodeMissing throws only when too few shards are left, and never because a matrix has
\* no inverse; no coefficient of a parity shard is 0.
THEOREM NeverSingularAlways ==
  ASSUME FieldLaws
  PROVE  ErasureSpec => []NeverSingular
<1>1. ErasureInv => NeverSingular
  BY NeverSingularHere
<1> QED
  BY <1>1, ErasureInvariant, PTL

\* Whatever decodeMissing returns from is the stripe that was encoded.
THEOREM DecodeRestoresAlways ==
  ASSUME FieldLaws
  PROVE  ErasureSpec => []DecodeRestores
<1>1. ErasureInv => DecodeRestores
  BY DEF ErasureInv, Decoding, DecodeRestores
<1> QED
  BY <1>1, ErasureInvariant, PTL

\* Adding the coefficient times the difference of a byte to a parity shard gives the
\* parity of the new data: what every update scheme relies on.
THEOREM DeltaUpdatesParityAlways ==
  ASSUME FieldLaws
  PROVE  ErasureSpec => []DeltaUpdatesParity
<1>1. ErasureInv => DeltaUpdatesParity
  BY DeltaHere
<1> QED
  BY <1>1, ErasureInvariant, PTL

-----------------------------------------------------------------------------
(***************************************************************************)
(* The calls.                                                              *)
(***************************************************************************)
\* A stub sends the name of its procedure and expects it back, and a processor answers
\* with the name of the request.
LEMMA StubNames ==
  ASSUME NEW c, NEW m \in MethodNames
  PROVE  StubOf(c, m).name = m /\ StubOf(c, m).expects = m
<1>1. ASSUME NEW s, NEW n, NEW a, NEW reason, NEW e, s = Stub(n, a, reason, e)
      PROVE  s.name = n /\ s.expects = e
  BY <1>1 DEF Stub
<1>2. /\ Client_create.name = "create" /\ Client_create.expects = "create"
      /\ Client_write.name = "write" /\ Client_write.expects = "write"
      /\ Client_read.name = "read" /\ Client_read.expects = "read"
      /\ Client_degrade_read.name = "degrade_read"
      /\ Client_degrade_read.expects = "degrade_read"
      /\ Client_merge.name = "merge" /\ Client_merge.expects = "merge"
      /\ Client_clear.name = "clear" /\ Client_clear.expects = "clear"
      /\ Client_getChunkServer.name = "getChunkServer"
      /\ Client_getChunkServer.expects = "getChunkServer"
  BY <1>1, Zenon DEF Client_create, Client_write, Client_read, Client_degrade_read,
     Client_merge, Client_clear, Client_getChunkServer
<1>3. /\ ConcurrentClient_create.name = "create" /\ ConcurrentClient_create.expects = "create"
      /\ ConcurrentClient_write.name = "write" /\ ConcurrentClient_write.expects = "write"
      /\ ConcurrentClient_read.name = "read" /\ ConcurrentClient_read.expects = "read"
      /\ ConcurrentClient_degrade_read.name = "degrade_read"
      /\ ConcurrentClient_degrade_read.expects = "degrade_read"
      /\ ConcurrentClient_merge.name = "merge" /\ ConcurrentClient_merge.expects = "merge"
      /\ ConcurrentClient_clear.name = "clear" /\ ConcurrentClient_clear.expects = "clear"
      /\ ConcurrentClient_getChunkServer.name = "getChunkServer"
      /\ ConcurrentClient_getChunkServer.expects = "getChunkServer"
  BY <1>1, Zenon DEF ConcurrentClient_create, ConcurrentClient_write, ConcurrentClient_read,
     ConcurrentClient_degrade_read, ConcurrentClient_merge, ConcurrentClient_clear,
     ConcurrentClient_getChunkServer
<1> QED
  BY <1>2, <1>3 DEF StubOf, MethodNames

LEMMA ProcessNames ==
  ASSUME NEW m \in DOMAIN ProcessMap
  PROVE  m \in MethodNames /\ ProcessMap[m].name = m
<1>1. ASSUME NEW s, NEW n, NEW a, NEW reason, s = Procedure(n, a, reason)
      PROVE  s.name = n
  BY <1>1 DEF Procedure
<1>2. /\ process_create.name = "create" /\ process_write.name = "write"
      /\ process_read.name = "read" /\ process_degrade_read.name = "degrade_read"
      /\ process_merge.name = "merge" /\ process_clear.name = "clear"
      /\ process_getChunkServer.name = "getChunkServer"
  BY <1>1, Zenon DEF process_create, process_write, process_read, process_degrade_read,
     process_merge, process_clear, process_getChunkServer
<1>3. CASE service = "store"
  <2>1. ProcessMap = StoreProcessMap
    BY <1>3 DEF ProcessMap
  <2> QED
    BY <1>2, <2>1 DEF StoreProcessMap, MethodNames
<1>4. CASE service # "store"
  <2>1. ProcessMap = MasterProcessMap
    BY <1>4 DEF ProcessMap
  <2> QED
    BY <1>2, <2>1 DEF MasterProcessMap, MethodNames
<1> QED
  BY <1>3, <1>4

\* What recv_X makes of the answer to its own call.
IsOwnEnd(end, t) ==
  /\ end.good
  /\ \/ /\ end.pc = "returned" /\ end.value = Why("success", t)
        /\ method[t] \in DOMAIN ProcessMap
     \/ /\ end.pc = "thrown" /\ end.value = Why("handler", t)
        /\ method[t] \in DOMAIN ProcessMap
     \/ /\ end.pc = "thrown" /\ end.value = Why("UNKNOWN_METHOD", t)
        /\ method[t] \notin DOMAIN ProcessMap

LEMMA OutcomeFits ==
  ASSUME NEW t \in Threads, method[t] \in MethodNames, NEW m, AnswerTo(m, t), m.body = t
  PROVE  IsOwnEnd(Outcome(t, m), t)
<1>1. PICK end : end = Outcome(t, m)
  OBVIOUS
<1>2. StubFor(t).expects = method[t]
  BY StubNames DEF StubFor
<1>3. m.type = "exception" => end = [pc |-> "thrown", value |-> Why(m.reason, t), good |-> TRUE]
  BY <1>1 DEF Outcome, OfAnother
<1>4. m.type # "exception" /\ m.name = method[t] =>
        end = [pc |-> "returned", value |-> Why("success", t), good |-> TRUE]
  BY <1>1, <1>2 DEF Outcome, OfAnother
<1> QED
  BY <1>1, <1>3, <1>4 DEF AnswerTo, IsOwnEnd

\* What LeaveSync changes.
IsLeft(l, s, t, good) ==
  /\ l \in Syncs
  /\ l.next = s.next /\ l.registered = s.registered \ {t} /\ l.reader = NoThread
  /\ l.pending = s.pending /\ l.wakeup = TRUE /\ l.stop = (s.stop \/ ~good)
  /\ s.notified \ {t} \subseteq l.notified
  /\ ~good => \A u \in s.registered \ {t} : pc[u] = "waiting" => u \in l.notified
  /\ good => \A u \in Latest(s.registered \ {t}) : pc[u] = "waiting" => u \in l.notified

LEMMA LeaveSyncFields ==
  ASSUME NEW s \in Syncs, NEW t, NEW good \in BOOLEAN
  PROVE  IsLeft(LeaveSync(s, t, good), s, t, good)
<1> DEFINE rest == s.registered \ {t}
           woken == {u \in (IF good THEN Latest(rest) ELSE rest) : pc[u] = "waiting"}
<1>1. PICK l : l = LeaveSync(s, t, good)
  OBVIOUS
<1>2. l = [s EXCEPT !.registered = rest, !.wakeup = TRUE, !.stop = @ \/ ~good,
                    !.reader = NoThread, !.notified = (@ \ {t}) \cup woken]
  BY <1>1, Zenon DEF LeaveSync
<1>3. PICK stop \in BOOLEAN : stop = (s.stop \/ ~good)
  BY DEF Syncs
<1>4. PICK notified \in SUBSET Threads : notified = (s.notified \ {t}) \cup woken
  BY DEF Syncs, Latest
<1> HIDE DEF woken
<1>5. l = [s EXCEPT !.registered = rest, !.wakeup = TRUE, !.stop = stop,
                    !.reader = NoThread, !.notified = notified]
  BY <1>2, <1>3, <1>4 DEF Syncs
<1>6. /\ l \in Syncs
      /\ l.next = s.next /\ l.registered = s.registered \ {t} /\ l.reader = NoThread
      /\ l.pending = s.pending /\ l.wakeup = TRUE /\ l.stop = stop /\ l.notified = notified
  BY <1>5 DEF Syncs
<1>7. IsLeft(l, s, t, good)
  BY <1>3, <1>4, <1>6 DEF woken, IsLeft
<1> QED
  BY <1>1, <1>7

-----------------------------------------------------------------------------
\* The connection: the head is taken off one end, a message is put on the other.
LEMMA HeadTaken ==
  ASSUME NEW s \in Seq(Messages), s # <<>>, Once(s)
  PROVE  /\ Head(s) \in Messages /\ Head(s) \in ToSet(s) /\ Tail(s) \in Seq(Messages)
         /\ ToSet(s) = ToSet(Tail(s)) \cup {Head(s)} /\ Once(Tail(s))
         /\ \A n \in ToSet(Tail(s)) : n.body # Head(s).body
<1>1. /\ Head(s) = s[1] /\ Head(s) \in Messages /\ Tail(s) \in Seq(Messages)
      /\ DOMAIN s = 1..Len(s) /\ Len(s) \in Nat /\ Len(s) >= 1
      /\ DOMAIN Tail(s) = 1..(Len(s) - 1)
      /\ \A k \in DOMAIN Tail(s) : Tail(s)[k] = s[k + 1]
  OBVIOUS
<1>2. \A k \in DOMAIN Tail(s) : k + 1 \in DOMAIN s /\ k + 1 # 1
  BY <1>1
<1>3. \A k \in DOMAIN s : k = 1 \/ (k - 1 \in DOMAIN Tail(s) /\ Tail(s)[k - 1] = s[k])
  BY <1>1
<1>4. ToSet(s) = ToSet(Tail(s)) \cup {Head(s)}
  BY <1>1, <1>2, <1>3 DEF ToSet
<1>5. Once(Tail(s))
  BY <1>1, <1>2 DEF Once
<1>6. \A n \in ToSet(Tail(s)) : n.body # Head(s).body
  BY <1>1, <1>2 DEF Once, ToSet
<1> QED
  BY <1>1, <1>4, <1>5, <1>6

LEMMA LastAdded ==
  ASSUME NEW s \in Seq(Messages), Once(s), NEW m \in Messages,
         \A n \in ToSet(s) : n.body # m.body
  PROVE  /\ Append(s, m) \in Seq(Messages) /\ ToSet(Append(s, m)) = ToSet(s) \cup {m}
         /\ Once(Append(s, m))
<1> DEFINE a == Append(s, m)
<1>1. /\ a \in Seq(Messages) /\ Len(s) \in Nat /\ DOMAIN s = 1..Len(s)
      /\ DOMAIN a = DOMAIN s \cup {Len(s) + 1} /\ Len(s) + 1 \notin DOMAIN s
      /\ a[Len(s) + 1] = m /\ \A k \in DOMAIN s : a[k] = s[k]
  OBVIOUS
<1> HIDE DEF a
<1>2. ToSet(a) = ToSet(s) \cup {m}
  BY <1>1 DEF ToSet
<1>3. Once(a)
  BY <1>1 DEF Once, ToSet
<1> QED
  BY <1>1, <1>2, <1>3 DEF a

LEMMA NoneThere == ToSet(<<>>) = {} /\ Once(<<>>)
  BY DEF ToSet, Once

\* The parts of the invariant.
LEMMA PartsTyped ==
  ASSUME TypeOK
  PROVE  /\ ToSet(out) \subseteq Messages /\ ToSet(in) \subseteq Messages
         /\ Held \subseteq Messages /\ AllMessages \subseteq Messages
         /\ \A m \in AllMessages : m.body \in Threads /\ m # NoMessage
<1>1. ToSet(out) \subseteq Messages /\ ToSet(in) \subseteq Messages
  BY DEF TypeOK, ToSet
<1>2. Held \subseteq Messages
  BY DEF TypeOK, Held, Syncs
<1>3. AllMessages \subseteq Messages
  BY <1>1, <1>2 DEF AllMessages
<1> QED
  BY <1>1, <1>2, <1>3, RpcAssumption DEF Messages


-----------------------------------------------------------------------------
\* A thread of the concurrent client gives up after the server has stopped.
LEMMA LeavingKeeps ==
  ASSUME RpcInv, NEW t \in Threads, NEW reason \in {"TRANSPORT", "NOT_OPEN"},
         client = "concurrent", link = "broken", ~Idle(t),
         Ends(t, "thrown", Why(reason, NoThread)),
         UNCHANGED <<client, service, link, out, in, method, seq>>,
         sync' \in Syncs, sync'.next = sync.next, sync'.stop,
         sync'.reader = IF sync.reader = t THEN NoThread ELSE sync.reader,
         \/ sync'.registered = sync.registered
         \/ sync'.registered = sync.registered \ {t} /\ sync.reader \in {t, NoThread},
         sync'.pending = sync.pending \/ (sync'.pending = got[t] /\ got[t] # NoMessage),
         \A u \in sync.registered \ {t} : pc[u] = "waiting" => u \in sync'.notified
  PROVE  RpcInv'
<1>1. TypeOK /\ DOMAIN pc = Threads
  BY DEF RpcInv, TypeOK
<1>2. /\ /\ pc' = [pc EXCEPT ![t] = "thrown"]
      /\ result' = [result EXCEPT ![t] = Why(reason, NoThread)]
      /\ got' = [got EXCEPT ![t] = NoMessage]
  BY DEF Ends
<1>3. \A u \in Threads : pc'[u] = IF u = t THEN "thrown" ELSE pc[u]
  BY <1>1, <1>2
<1>4. \A u \in Threads : got'[u] = IF u = t THEN NoMessage ELSE got[u]
  BY <1>1, <1>2 DEF TypeOK
<1>5. \A u \in Threads : result'[u] = IF u = t THEN Why(reason, NoThread) ELSE result[u]
  BY <1>1, <1>2 DEF TypeOK
<1>6. Held' \subseteq Held /\ AllMessages' \subseteq AllMessages
  BY <1>4 DEF Held, AllMessages
<1>7. TypeOK'
  BY <1>1, <1>2 DEF TypeOK, Why, Reasons
<1>8. OneCallAtATime'
  BY DEF OneCallAtATime
<1>9. MutexHeld'
  BY <1>1, <1>3, <1>4, RpcAssumption DEF RpcInv, MutexHeld
<1>10. BadAfterStop'
  BY DEF RpcInv, BadAfterStop
<1>11. CallsNumbered'
  BY <1>3 DEF RpcInv, CallsNumbered, Idle
<1>12. OwnersRegistered'
  <2> SUFFICES ASSUME NEW m \in AllMessages', NEW u \in Threads, pc'[u] \in {"blocked", "read"}
               PROVE  m.body \in sync'.registered /\ seq[m.body] = m.seqid
    BY DEF OwnersRegistered
  <2>1. u # t /\ pc[u] \in {"blocked", "read"} /\ sync.reader = u
    BY <1>3 DEF RpcInv, MutexHeld
  <2>2. sync'.registered = sync.registered
    BY <2>1, RpcAssumption
  <2> QED
    BY <1>6, <2>1, <2>2 DEF RpcInv, OwnersRegistered
<1>13. \A u \in Threads : HasSent(u)' => HasSent(u) /\ u # t
  BY <1>3 DEF HasSent
<1>14. \A m \in AllMessages' : m.body \in Threads
  BY <1>1, <1>6, PartsTyped
<1>15. MessagesFit'
  <2>1. \A m \in AllMessages' : HasSent(m.body)' => m.seqid = seq'[m.body]
    BY <1>6, <1>13, <1>14 DEF RpcInv, MessagesFit
  <2>2. \A m \in ToSet(out') : HasSent(m.body)' => RequestOf(m, m.body)'
    BY <1>13, <1>14 DEF RpcInv, MessagesFit, AllMessages, RequestOf
  <2>3. \A m \in ToSet(in') \cup Held' : HasSent(m.body)' => AnswerTo(m, m.body)'
    BY <1>6, <1>13, <1>14 DEF RpcInv, MessagesFit, AllMessages, AnswerTo, ProcessMap
  <2> QED
    BY <2>1, <2>2, <2>3 DEF MessagesFit
<1>16. OneMessage'
  BY <1>3, <1>6 DEF RpcInv, OneMessage, MessageOf
<1>17. SomebodyAwake'
  BY <1>3 DEF RpcInv, SomebodyAwake, CallsNumbered, Asleep, Idle
<1>18. OwnAnswers'
  <2>1. OwnAnswer(t)'
    BY <1>3, <1>5 DEF OwnAnswer, Why
  <2>2. ASSUME NEW u \in Threads, u # t PROVE OwnAnswer(u)'
    <3>1. pc'[u] = pc[u] /\ result'[u] = result[u] /\ OwnAnswer(u)
      BY <1>3, <1>5, <2>2 DEF RpcInv, OwnAnswers
    <3> QED
      BY <3>1 DEF OwnAnswer, ProcessMap
  <2> QED
    BY <2>1, <2>2 DEF OwnAnswers
<1> QED
  BY <1>7, <1>8, <1>9, <1>10, <1>11, <1>12, <1>15, <1>16, <1>17, <1>18 DEF RpcInv


\* And one of the plain client, whose answer will not come.
LEMMA PlainThrowsKeeps ==
  ASSUME RpcInv, NEW t \in Threads,
         client = "plain", link = "broken", pc[t] \in {"sending", "sent"}, ~MessageOf(t),
         Ends(t, "thrown", Why("TRANSPORT", NoThread)),
         UNCHANGED <<client, service, link, out, in, method, seq, sync>>
  PROVE  RpcInv'
<1>1. TypeOK /\ DOMAIN pc = Threads
  BY DEF RpcInv, TypeOK
<1>2. /\ pc' = [pc EXCEPT ![t] = "thrown"]
      /\ result' = [result EXCEPT ![t] = Why("TRANSPORT", NoThread)]
      /\ got' = [got EXCEPT ![t] = NoMessage]
  BY DEF Ends
<1>3. \A u \in Threads : pc'[u] = IF u = t THEN "thrown" ELSE pc[u]
  BY <1>1, <1>2
<1>4. \A u \in Threads : got'[u] = got[u]
  BY <1>1, <1>2 DEF TypeOK, RpcInv, MutexHeld
<1>5. \A u \in Threads : result'[u] = IF u = t THEN Why("TRANSPORT", NoThread) ELSE result[u]
  BY <1>1, <1>2 DEF TypeOK
<1>6. Held' = Held /\ AllMessages' = AllMessages
  BY <1>4 DEF Held, AllMessages
<1>7. TypeOK'
  BY <1>1, <1>2 DEF TypeOK, Why, Reasons
<1>8. OneCallAtATime'
  <2>1. \A m \in AllMessages' : pc'[m.body] = "sent"
    BY <1>1, <1>3, <1>6, PartsTyped DEF RpcInv, OneCallAtATime, MessageOf
  <2> QED
    BY <1>3, <2>1 DEF RpcInv, OneCallAtATime, Idle
<1>9. MutexHeld'
  BY <1>3, <1>4 DEF RpcInv, MutexHeld
<1>10. BadAfterStop' /\ CallsNumbered' /\ OwnersRegistered'
  BY DEF RpcInv, BadAfterStop, CallsNumbered, OwnersRegistered
<1>11. \A u \in Threads : HasSent(u)' => HasSent(u)
  BY <1>3 DEF HasSent
<1>12. MessagesFit'
  <2>1. \A m \in AllMessages' : m.body \in Threads
    BY <1>1, <1>6, PartsTyped
  <2>2. \A m \in AllMessages' : HasSent(m.body)' => m.seqid = seq'[m.body]
    BY <1>6, <1>11, <2>1 DEF RpcInv, MessagesFit
  <2>3. \A m \in ToSet(out') : HasSent(m.body)' => RequestOf(m, m.body)'
    BY <1>11, <1>6, <2>1 DEF RpcInv, MessagesFit, AllMessages, RequestOf
  <2>4. \A m \in ToSet(in') \cup Held' : HasSent(m.body)' => AnswerTo(m, m.body)'
    BY <1>6, <1>11, <2>1 DEF RpcInv, MessagesFit, AllMessages, AnswerTo, ProcessMap
  <2> QED
    BY <2>2, <2>3, <2>4 DEF MessagesFit
<1>13. OneMessage'
  BY <1>3, <1>6, <1>11 DEF RpcInv, OneMessage, MessageOf
<1>14. SomebodyAwake'
  BY <1>3 DEF RpcInv, SomebodyAwake, OneCallAtATime, Asleep
<1>15. OwnAnswers'
  <2>1. OwnAnswer(t)'
    BY <1>3, <1>5 DEF OwnAnswer, Why
  <2>2. ASSUME NEW u \in Threads, u # t PROVE OwnAnswer(u)'
    <3>1. pc'[u] = pc[u] /\ result'[u] = result[u] /\ OwnAnswer(u)
      BY <1>3, <1>5, <2>2 DEF RpcInv, OwnAnswers
    <3> QED
      BY <3>1 DEF OwnAnswer, ProcessMap
  <2> QED
    BY <2>1, <2>2 DEF OwnAnswers
<1> QED
  BY <1>7, <1>8, <1>9, <1>10, <1>12, <1>13, <1>14, <1>15 DEF RpcInv

LEMMA SendThrowsKeeps ==
  ASSUME RpcInv, NEW t \in Threads, SendThrows(t)
  PROVE  RpcInv'
<1>1. /\ pc[t] = "sending" /\ link = "broken" /\ Ends(t, "thrown", Why("TRANSPORT", NoThread))
      /\ UNCHANGED <<client, service, link, out, in, method, seq>>
  BY DEF SendThrows
<1>2. CASE client = "plain"
  <2>1. ~MessageOf(t) /\ sync' = sync
    BY <1>1, <1>2 DEF RpcInv, OneMessage, SendThrows
  <2> QED
    BY <1>1, <1>2, <2>1, PlainThrowsKeeps
<1>3. CASE client # "plain"
  <2>1. TypeOK /\ sync \in Syncs /\ client = "concurrent"
    BY <1>3 DEF RpcInv, TypeOK
  <2>2. PICK l : l = LeaveSync(sync, NoThread, FALSE)
    OBVIOUS
  <2>3. sync' = [l EXCEPT !.reader = sync.reader]
    BY <1>3, <2>2 DEF SendThrows
  <2>4. IsLeft(l, sync, NoThread, FALSE)
    BY <2>1, <2>2, LeaveSyncFields
  <2>5. sync.registered \ {NoThread} = sync.registered /\ sync.reader # t
    BY <1>1, <2>1, RpcAssumption DEF Syncs, RpcInv, MutexHeld
  <2>6. sync.reader \in Threads \cup {NoThread}
    BY <2>1 DEF Syncs
  <2>7. /\ sync' \in Syncs /\ sync'.next = sync.next /\ sync'.registered = sync.registered
        /\ sync'.pending = sync.pending /\ sync'.stop /\ sync'.reader = sync.reader
        /\ \A u \in sync.registered : pc[u] = "waiting" => u \in sync'.notified
    BY <2>3, <2>4, <2>5, <2>6 DEF Syncs, IsLeft
  <2> QED
    BY <1>1, <2>1, <2>5, <2>7, LeavingKeeps DEF Idle
<1> QED
  BY <1>2, <1>3

LEMMA ReceiveThrowsKeeps ==
  ASSUME RpcInv, NEW t \in Threads, ReceiveThrows(t)
  PROVE  RpcInv'
<1>1. /\ client = "plain" /\ pc[t] = "sent" /\ in = <<>> /\ link = "broken"
      /\ Ends(t, "thrown", Why("TRANSPORT", NoThread))
      /\ UNCHANGED <<client, service, link, out, in, method, seq, sync>>
  BY DEF ReceiveThrows
<1>2. out = <<>> /\ Held = {}
  BY <1>1 DEF RpcInv, BadAfterStop, OneCallAtATime, MutexHeld, Held, Idle
<1>3. ~MessageOf(t)
  BY <1>1, <1>2, NoneThere DEF MessageOf, AllMessages
<1> QED
  BY <1>1, <1>3, PlainThrowsKeeps


-----------------------------------------------------------------------------
\* A thread of the concurrent client goes on with its call: messages move between the
\* connection, the threads and what is pending, and the mutex and the notifications
\* change.
LEMMA RunningKeeps ==
  ASSUME RpcInv, NEW t \in Threads, client = "concurrent", HasSent(t),
         NEW p \in {"reading", "blocked", "read", "waiting"}, pc' = [pc EXCEPT ![t] = p],
         p \in {"blocked", "read"} => ~sync.stop \/ pc[t] \in {"blocked", "read"},
         NEW g \in Messages \cup {NoMessage}, got' = [got EXCEPT ![t] = g],
         UNCHANGED <<client, service, link, out, method, seq, result>>,
         sync' \in Syncs, sync'.next = sync.next, sync'.registered = sync.registered,
         sync'.stop = sync.stop,
         in' \in Seq(Messages), Once(in'), ToSet(in') \cup Held' = ToSet(in) \cup Held,
         \A m \in ToSet(in'), n \in Held' : m.body # n.body,
         MutexHeld', SomebodyAwake'
  PROVE  RpcInv'
<1>1. TypeOK
  BY DEF RpcInv
<1>2. \A u \in Threads : pc'[u] = IF u = t THEN p ELSE pc[u]
  BY <1>1 DEF TypeOK
<1>3. TypeOK'
  BY <1>1 DEF TypeOK
<1>4. AllMessages' = AllMessages
  BY DEF AllMessages
<1>5. \A m \in AllMessages : m.body \in Threads
  BY <1>1, PartsTyped
<1>6. \A u \in Threads : HasSent(u)' = HasSent(u)
  BY <1>2 DEF HasSent
<1>7. OneCallAtATime' /\ BadAfterStop'
  BY DEF RpcInv, OneCallAtATime, BadAfterStop
<1>8. CallsNumbered'
  BY <1>2 DEF RpcInv, CallsNumbered, Idle, HasSent
<1>9. OwnersRegistered'
  <2>1. (\E u \in Threads : pc'[u] \in {"blocked", "read"}) =>
          ~sync.stop \/ \E u \in Threads : pc[u] \in {"blocked", "read"}
    BY <1>2
  <2> QED
    BY <1>4, <2>1 DEF RpcInv, OwnersRegistered
<1>10. MessagesFit'
  <2>1. \A m \in AllMessages' : HasSent(m.body)' => m.seqid = seq'[m.body]
    BY <1>4, <1>5, <1>6 DEF RpcInv, MessagesFit
  <2>2. \A m \in ToSet(out') : HasSent(m.body)' => RequestOf(m, m.body)'
    BY <1>5, <1>6 DEF RpcInv, MessagesFit, AllMessages, RequestOf
  <2>3. \A m \in ToSet(in) \cup Held : HasSent(m.body)' => AnswerTo(m, m.body)'
    BY <1>5, <1>6 DEF RpcInv, MessagesFit, AllMessages, AnswerTo, ProcessMap
  <2> QED
    BY <2>1, <2>2, <2>3, Zenon DEF MessagesFit
<1>11. OneMessage'
  <2>1. \A u \in Threads : pc'[u] = "sending" => pc[u] = "sending"
    BY <1>2
  <2> QED
    BY <1>4, <1>6, <2>1 DEF RpcInv, OneMessage, MessageOf
<1>12. OwnAnswers'
  <2>1. OwnAnswer(t)'
    BY <1>2 DEF OwnAnswer
  <2>2. ASSUME NEW u \in Threads, u # t PROVE OwnAnswer(u)'
    <3>1. pc'[u] = pc[u] /\ OwnAnswer(u)
      BY <1>2, <2>2 DEF RpcInv, OwnAnswers
    <3> QED
      BY <3>1 DEF OwnAnswer, ProcessMap
  <2> QED
    BY <2>1, <2>2 DEF OwnAnswers
<1> QED
  BY <1>3, <1>7, <1>8, <1>9, <1>10, <1>11, <1>12 DEF RpcInv

\* A thread locks the read mutex.
LEMMA LockReadKeeps ==
  ASSUME RpcInv, NEW t \in Threads, LockRead(t)
  PROVE  RpcInv'
<1>1. /\ client = "concurrent" /\ pc[t] = "sent" /\ sync.reader = NoThread
      /\ sync' = [sync EXCEPT !.reader = t] /\ pc' = [pc EXCEPT ![t] = "reading"]
      /\ UNCHANGED <<client, service, link, out, in, method, seq, got, result>>
  BY DEF LockRead
<1>2. TypeOK /\ sync \in Syncs
  BY DEF RpcInv, TypeOK
<1>3. /\ sync' \in Syncs /\ sync'.next = sync.next /\ sync'.registered = sync.registered
      /\ sync'.stop = sync.stop /\ sync'.pending = sync.pending /\ sync'.reader = t
      /\ sync'.wakeup = sync.wakeup /\ sync'.notified = sync.notified
  BY <1>1, <1>2 DEF Syncs
<1>4. \A u \in Threads : pc'[u] = IF u = t THEN "reading" ELSE pc[u]
  BY <1>1, <1>2 DEF TypeOK
<1>5. Held' = Held
  BY <1>1, <1>3 DEF Held
<1>6. MutexHeld'
  BY <1>1, <1>3, <1>4, RpcAssumption DEF RpcInv, MutexHeld
<1>7. SomebodyAwake'
  <2>1. t \in sync.registered
    BY <1>1 DEF RpcInv, CallsNumbered, Idle
  <2> QED
    BY <1>1, <1>3, <1>4, <2>1 DEF RpcInv, SomebodyAwake, Asleep
<1>8. got[t] \in Messages \cup {NoMessage} /\ got' = [got EXCEPT ![t] = got[t]]
  BY <1>1, <1>2 DEF TypeOK
<1>9. in \in Seq(Messages) /\ HasSent(t)
  BY <1>1, <1>2 DEF TypeOK, HasSent
<1>10. Once(in) /\ \A m \in ToSet(in), n \in Held : m.body # n.body
  BY DEF RpcInv, OneMessage
<1> QED
  BY <1>1, <1>3, <1>5, <1>6, <1>7, <1>8, <1>9, <1>10, RunningKeeps


\* A thread takes the message that is pending, or finds the client bad.
LEMMA GetPendingKeeps ==
  ASSUME RpcInv, NEW t \in Threads, GetPending(t)
  PROVE  RpcInv'
<1>1. /\ pc[t] = "reading" /\ UNCHANGED <<client, service, link, out, in, method, seq>>
  BY DEF GetPending
<1>2. TypeOK /\ sync \in Syncs
  BY DEF RpcInv, TypeOK
<1>3. client = "concurrent" /\ sync.reader = t
  BY <1>1, <1>2 DEF TypeOK, RpcInv, OneCallAtATime, MutexHeld, Idle
<1>4. CASE sync.stop
  <2>1. Ends(t, "thrown", Why("NOT_OPEN", NoThread)) /\ sync' = LeaveSync(sync, t, FALSE)
    BY <1>4 DEF GetPending
  <2>2. IsLeft(sync', sync, t, FALSE)
    BY <1>2, <2>1, LeaveSyncFields
  <2>3. /\ sync' \in Syncs /\ sync'.next = sync.next
        /\ sync'.registered = sync.registered \ {t} /\ sync'.pending = sync.pending
        /\ sync'.stop /\ sync'.reader = NoThread
        /\ \A u \in sync.registered \ {t} : pc[u] = "waiting" => u \in sync'.notified
    BY <2>2 DEF IsLeft
  <2>4. link = "broken" /\ ~Idle(t)
    BY <1>1, <1>4 DEF RpcInv, BadAfterStop, Idle
  <2> QED
    BY <1>1, <1>3, <2>1, <2>3, <2>4, LeavingKeeps
<1>5. CASE ~sync.stop
  <2>1. PICK g : g = sync.pending
    OBVIOUS
  <2>2. PICK p : p = IF g = NoMessage THEN "blocked" ELSE "read"
    OBVIOUS
  <2>3. /\ got' = [got EXCEPT ![t] = g] /\ pc' = [pc EXCEPT ![t] = p]
        /\ sync' = [sync EXCEPT !.wakeup = FALSE, !.pending = NoMessage]
        /\ result' = result
    BY <1>5, <2>1, <2>2 DEF GetPending
  <2>4. g \in Messages \cup {NoMessage}
    BY <1>2, <2>1 DEF Syncs
  <2>5. /\ sync' \in Syncs /\ sync'.next = sync.next /\ sync'.registered = sync.registered
        /\ sync'.stop = sync.stop /\ sync'.pending = NoMessage /\ sync'.reader = t
    BY <1>2, <1>3, <2>3 DEF Syncs
  <2>6. \A u \in Threads : pc'[u] = IF u = t THEN p ELSE pc[u]
    BY <1>2, <2>3 DEF TypeOK
  <2>7. \A u \in Threads : got'[u] = IF u = t THEN g ELSE got[u]
    BY <1>2, <2>3 DEF TypeOK
  <2>8. got[t] = NoMessage
    BY <1>1 DEF RpcInv, MutexHeld
  <2>9. Held' = Held
    BY <2>1, <2>5, <2>7, <2>8 DEF Held
  <2>10. MutexHeld'
    BY <1>1, <1>3, <2>2, <2>5, <2>6, <2>7 DEF RpcInv, MutexHeld
  <2>11. SomebodyAwake'
    <3>1. t \in sync.registered
      BY <1>1, <1>3 DEF RpcInv, CallsNumbered, Idle
    <3>2. p # "waiting"
      BY <2>2
    <3> QED
      BY <1>5, <2>5, <2>6, <3>1, <3>2 DEF SomebodyAwake, Asleep
  <2>12. in \in Seq(Messages) /\ HasSent(t)
    BY <1>1, <1>2 DEF TypeOK, HasSent
  <2>13. Once(in) /\ \A m \in ToSet(in), n \in Held : m.body # n.body
    BY DEF RpcInv, OneMessage
  <2>14. p \in {"reading", "blocked", "read", "waiting"}
    BY <2>2
  <2> QED
    BY <1>1, <1>3, <1>5, <2>3, <2>4, <2>5, <2>9, <2>10, <2>11, <2>12, <2>13, <2>14, RunningKeeps
<1> QED
  BY <1>4, <1>5

\* A thread reads a message off the connection, or finds it closed.
LEMMA ReadMessageKeeps ==
  ASSUME RpcInv, NEW t \in Threads, ReadMessage(t)
  PROVE  RpcInv'
<1>1. PICK m : m = Head(in)
  OBVIOUS
<1>2. /\ pc[t] = "blocked" /\ in # <<>> /\ got' = [got EXCEPT ![t] = m] /\ in' = Tail(in)
      /\ pc' = [pc EXCEPT ![t] = "read"]
      /\ UNCHANGED <<client, service, link, out, method, seq, result, sync>>
  BY <1>1 DEF ReadMessage
<1>3. TypeOK /\ sync \in Syncs /\ in \in Seq(Messages)
  BY DEF RpcInv, TypeOK
<1>4. client = "concurrent" /\ sync.reader = t
  BY <1>2, <1>3 DEF TypeOK, RpcInv, OneCallAtATime, MutexHeld, Idle
<1>5. Once(in) /\ \A a \in ToSet(in), n \in Held : a.body # n.body
  BY DEF RpcInv, OneMessage
<1>6. /\ m \in Messages /\ m \in ToSet(in) /\ in' \in Seq(Messages) /\ Once(in')
      /\ ToSet(in) = ToSet(in') \cup {m}
      /\ \A n \in ToSet(in') : n.body # m.body
  BY <1>1, <1>2, <1>3, <1>5, HeadTaken
<1>7. m # NoMessage
  BY <1>6, RpcAssumption
<1>8. \A u \in Threads : pc'[u] = IF u = t THEN "read" ELSE pc[u]
  BY <1>2, <1>3 DEF TypeOK
<1>9. \A u \in Threads : got'[u] = IF u = t THEN m ELSE got[u]
  BY <1>2, <1>3 DEF TypeOK
<1>10. got[t] = NoMessage
  BY <1>2 DEF RpcInv, MutexHeld
<1>11. Held' = Held \cup {m}
  BY <1>2, <1>7, <1>9, <1>10 DEF Held
<1>12. MutexHeld'
  BY <1>2, <1>4, <1>7, <1>8, <1>9 DEF RpcInv, MutexHeld
<1>13. SomebodyAwake'
  <2>1. t \in sync.registered
    BY <1>2, <1>4 DEF RpcInv, CallsNumbered, Idle
  <2> QED
    BY <1>2, <1>8, <2>1 DEF RpcInv, SomebodyAwake, Asleep
<1>14. ToSet(in') \cup Held' = ToSet(in) \cup Held
  BY <1>6, <1>11
<1>15. \A a \in ToSet(in'), n \in Held' : a.body # n.body
  BY <1>5, <1>6, <1>11
<1>16. HasSent(t)
  BY <1>2 DEF HasSent
<1> QED
  BY <1>2, <1>3, <1>4, <1>6, <1>12, <1>13, <1>14, <1>15, <1>16, RunningKeeps

LEMMA ReadThrowsKeeps ==
  ASSUME RpcInv, NEW t \in Threads, ReadThrows(t)
  PROVE  RpcInv'
<1>1. /\ pc[t] = "blocked" /\ link = "broken" /\ Ends(t, "thrown", Why("TRANSPORT", NoThread))
      /\ sync' = LeaveSync(sync, t, FALSE)
      /\ UNCHANGED <<client, service, link, out, in, method, seq>>
  BY DEF ReadThrows
<1>2. TypeOK /\ sync \in Syncs
  BY DEF RpcInv, TypeOK
<1>3. client = "concurrent" /\ sync.reader = t /\ ~Idle(t)
  BY <1>1, <1>2 DEF TypeOK, RpcInv, OneCallAtATime, MutexHeld, Idle
<1>4. IsLeft(sync', sync, t, FALSE)
  BY <1>1, <1>2, LeaveSyncFields
<1>5. /\ sync' \in Syncs /\ sync'.next = sync.next
      /\ sync'.registered = sync.registered \ {t} /\ sync'.pending = sync.pending
      /\ sync'.stop /\ sync'.reader = NoThread
      /\ \A u \in sync.registered \ {t} : pc[u] = "waiting" => u \in sync'.notified
  BY <1>4 DEF IsLeft
<1> QED
  BY <1>1, <1>3, <1>5, LeavingKeeps


-----------------------------------------------------------------------------
\* Whoever has read a message holds the only one that is held, and its call is
\* registered.
LEMMA ReadsForOwner ==
  ASSUME RpcInv, NEW t \in Threads, pc[t] = "read", NEW m, m = got[t]
  PROVE  /\ client = "concurrent" /\ sync.reader = t /\ sync.pending = NoMessage
         /\ m \in Messages /\ m # NoMessage /\ Held = {m}
         /\ m.body \in Threads /\ m.body \in sync.registered /\ seq[m.body] = m.seqid
         /\ t \in sync.registered
         /\ \A u \in sync.registered : seq[u] = m.seqid => u = m.body
<1>1. TypeOK /\ sync \in Syncs
  BY DEF RpcInv, TypeOK
<1>2. client = "concurrent" /\ sync.reader = t /\ sync.pending = NoMessage /\ m # NoMessage
  BY <1>1 DEF TypeOK, RpcInv, OneCallAtATime, MutexHeld, Idle
<1>3. \A u \in Threads : u # t => got[u] = NoMessage
  BY <1>2 DEF RpcInv, MutexHeld
<1>4. Held = {m}
  BY <1>2, <1>3 DEF Held
<1>5. m \in AllMessages
  BY <1>4 DEF AllMessages
<1>6. m \in Messages /\ m.body \in Threads
  BY <1>1, <1>5, PartsTyped
<1>7. m.body \in sync.registered /\ seq[m.body] = m.seqid
  BY <1>2, <1>5 DEF RpcInv, OwnersRegistered
<1>8. t \in sync.registered
  BY <1>2 DEF RpcInv, CallsNumbered, Idle
<1>9. \A u \in sync.registered : seq[u] = m.seqid => u = m.body
  BY <1>2, <1>7 DEF RpcInv, CallsNumbered
<1> QED
  BY <1>2, <1>4, <1>6, <1>7, <1>8, <1>9

\* A thread has read the answer of another one.
LEMMA HandOverKeeps ==
  ASSUME RpcInv, NEW t \in Threads, HandOver(t)
  PROVE  RpcInv'
<1>1. PICK m : m = got[t]
  OBVIOUS
<1>2. PICK owner : owner = {u \in sync.registered : seq[u] = m.seqid}
  OBVIOUS
<1>3. PICK notified : notified = sync.notified \cup {u \in owner : pc[u] = "waiting"}
  OBVIOUS
<1>4. PICK given : given = [sync EXCEPT !.pending = m, !.notified = notified]
  OBVIOUS
<1>5. TypeOK /\ sync \in Syncs /\ in \in Seq(Messages)
  BY DEF RpcInv, TypeOK
<1>6. /\ pc[t] = "read" /\ m.seqid # seq[t]
      /\ UNCHANGED <<client, service, link, out, in, method, seq>>
  BY <1>1 DEF HandOver
<1>7. /\ client = "concurrent" /\ sync.reader = t /\ sync.pending = NoMessage
      /\ m \in Messages /\ m # NoMessage /\ Held = {m}
      /\ m.body \in Threads /\ m.body \in sync.registered /\ seq[m.body] = m.seqid
      /\ t \in sync.registered
      /\ \A u \in sync.registered : seq[u] = m.seqid => u = m.body
  BY <1>1, <1>6, ReadsForOwner
<1>8. owner = {m.body} /\ m.body # t
  BY <1>2, <1>6, <1>7
<1>9. notified \in SUBSET Threads
  BY <1>3, <1>5, <1>7, <1>8 DEF Syncs
<1>10. /\ given \in Syncs /\ given.next = sync.next /\ given.registered = sync.registered
       /\ given.pending = m /\ given.stop = sync.stop /\ given.notified = notified
       /\ given.reader = t /\ given.wakeup = sync.wakeup
  BY <1>4, <1>5, <1>7, <1>9 DEF Syncs
<1>11. IF sync.stop
       THEN Ends(t, "thrown", Why("NOT_OPEN", NoThread)) /\ sync' = LeaveSync(given, t, FALSE)
       ELSE /\ sync' = [given EXCEPT !.reader = NoThread]
            /\ pc' = [pc EXCEPT ![t] = "waiting"] /\ got' = [got EXCEPT ![t] = NoMessage]
            /\ UNCHANGED result
  <2>1. owner # {}
    BY <1>8
  <2>2. given = [sync EXCEPT !.pending = m, !.notified = @ \cup {u \in owner : pc[u] = "waiting"}]
    BY <1>3, <1>4
  <2> QED
    BY <1>1, <1>2, <2>1, <2>2, Zenon DEF HandOver
<1>12. CASE sync.stop
  <2>1. IsLeft(sync', given, t, FALSE)
    BY <1>10, <1>11, <1>12, LeaveSyncFields
  <2>2. /\ sync' \in Syncs /\ sync'.next = sync.next
        /\ sync'.registered = sync.registered \ {t} /\ sync'.pending = m
        /\ sync'.stop /\ sync'.reader = NoThread
        /\ \A u \in sync.registered \ {t} : pc[u] = "waiting" => u \in sync'.notified
    BY <1>10, <2>1 DEF IsLeft
  <2>3. link = "broken" /\ ~Idle(t)
    BY <1>6, <1>12 DEF RpcInv, BadAfterStop, Idle
  <2> QED
    BY <1>1, <1>6, <1>7, <1>11, <1>12, <2>2, <2>3, LeavingKeeps
<1>13. CASE ~sync.stop
  <2>1. /\ sync' = [given EXCEPT !.reader = NoThread]
        /\ pc' = [pc EXCEPT ![t] = "waiting"] /\ got' = [got EXCEPT ![t] = NoMessage]
        /\ UNCHANGED result
    BY <1>11, <1>13
  <2>2. /\ sync' \in Syncs /\ sync'.next = sync.next /\ sync'.registered = sync.registered
        /\ sync'.stop = sync.stop /\ sync'.pending = m /\ sync'.reader = NoThread
        /\ sync'.notified = notified /\ sync'.wakeup = sync.wakeup
    BY <1>10, <2>1 DEF Syncs
  <2>3. \A u \in Threads : pc'[u] = IF u = t THEN "waiting" ELSE pc[u]
    BY <1>5, <2>1 DEF TypeOK
  <2>4. \A u \in Threads : got'[u] = NoMessage
    BY <1>5, <1>7, <2>1 DEF TypeOK, RpcInv, MutexHeld
  <2>5. Held' = {m}
    BY <1>7, <2>2, <2>4 DEF Held
  <2>6. MutexHeld'
    BY <1>7, <2>2, <2>3, <2>4, RpcAssumption DEF RpcInv, MutexHeld
  <2>7. SomebodyAwake'
    <3>1. Asleep(m.body)' => FALSE
      BY <1>3, <1>7, <1>8, <2>2, <2>3 DEF Asleep
    <3>2. pc'[m.body] # "waiting" \/ m.body \in notified
      BY <3>1, <2>2 DEF Asleep
    <3> QED
      BY <1>7, <1>13, <2>2, <3>1, <3>2 DEF SomebodyAwake
  <2>8. HasSent(t)
    BY <1>6 DEF HasSent
  <2>9. Once(in) /\ \A a \in ToSet(in), n \in Held : a.body # n.body
    BY DEF RpcInv, OneMessage
  <2> QED
    BY <1>5, <1>6, <1>7, <2>1, <2>2, <2>5, <2>6, <2>7, <2>8, <2>9, RunningKeeps
<1> QED
  BY <1>12, <1>13


\* A notified thread finds work, waits on, or finds the client bad.
LEMMA WakeKeeps ==
  ASSUME RpcInv, NEW t \in Threads, Wake(t)
  PROVE  RpcInv'
<1>1. /\ pc[t] = "waiting" /\ t \in sync.notified /\ sync.reader = NoThread
      /\ UNCHANGED <<client, service, link, out, in, method, seq>>
  BY DEF Wake
<1>2. TypeOK /\ sync \in Syncs /\ in \in Seq(Messages)
  BY DEF RpcInv, TypeOK
<1>3. client = "concurrent" /\ ~Idle(t) /\ HasSent(t)
  BY <1>1, <1>2 DEF TypeOK, RpcInv, OneCallAtATime, Idle, HasSent
<1>4. t \in sync.registered
  BY <1>3 DEF RpcInv, CallsNumbered
<1>5. PICK notified : notified = sync.notified \ {t}
  OBVIOUS
<1>6. PICK woken : woken = [sync EXCEPT !.notified = notified]
  OBVIOUS
<1>7. /\ woken \in Syncs /\ woken.next = sync.next /\ woken.registered = sync.registered
      /\ woken.pending = sync.pending /\ woken.stop = sync.stop /\ woken.notified = notified
      /\ woken.reader = NoThread /\ woken.wakeup = sync.wakeup
  BY <1>1, <1>2, <1>5, <1>6 DEF Syncs
<1>8. PICK may \in BOOLEAN : may <=>
        sync.wakeup \/ (sync.pending # NoMessage /\ sync.pending.seqid = seq[t])
  OBVIOUS
<1>9. IF sync.stop
      THEN Ends(t, "thrown", Why("NOT_OPEN", NoThread)) /\ sync' = LeaveSync(woken, t, FALSE)
      ELSE /\ sync' = [woken EXCEPT !.reader = IF may THEN t ELSE NoThread]
           /\ pc' = [pc EXCEPT ![t] = IF may THEN "reading" ELSE "waiting"]
           /\ UNCHANGED <<got, result>>
  <2>1. woken = [sync EXCEPT !.notified = @ \ {t}]
    BY <1>5, <1>6
  <2> QED
    BY <1>8, <2>1, Zenon DEF Wake
<1>10. CASE sync.stop
  <2>1. IsLeft(sync', woken, t, FALSE)
    BY <1>7, <1>9, <1>10, LeaveSyncFields
  <2>2. /\ sync' \in Syncs /\ sync'.next = sync.next
        /\ sync'.registered = sync.registered \ {t} /\ sync'.pending = sync.pending
        /\ sync'.stop /\ sync'.reader = NoThread
        /\ \A u \in sync.registered \ {t} : pc[u] = "waiting" => u \in sync'.notified
    BY <1>7, <2>1 DEF IsLeft
  <2>3. link = "broken"
    BY <1>10 DEF RpcInv, BadAfterStop
  <2> QED
    BY <1>1, <1>3, <1>9, <1>10, <2>2, <2>3, LeavingKeeps, RpcAssumption
<1>11. CASE ~sync.stop
  <2>1. PICK p : p = IF may THEN "reading" ELSE "waiting"
    OBVIOUS
  <2>2. PICK reader : reader = IF may THEN t ELSE NoThread
    OBVIOUS
  <2>3. /\ sync' = [woken EXCEPT !.reader = reader] /\ pc' = [pc EXCEPT ![t] = p]
        /\ UNCHANGED <<got, result>>
    BY <1>9, <1>11, <2>1, <2>2
  <2>4. /\ sync' \in Syncs /\ sync'.next = sync.next /\ sync'.registered = sync.registered
        /\ sync'.stop = sync.stop /\ sync'.pending = sync.pending /\ sync'.reader = reader
        /\ sync'.notified = notified /\ sync'.wakeup = sync.wakeup
    BY <1>7, <2>2, <2>3 DEF Syncs
  <2>5. \A u \in Threads : pc'[u] = IF u = t THEN p ELSE pc[u]
    BY <1>2, <2>3 DEF TypeOK
  <2>6. Held' = Held
    BY <2>3, <2>4 DEF Held
  <2>7. MutexHeld'
    BY <1>1, <2>1, <2>2, <2>3, <2>4, <2>5, RpcAssumption DEF RpcInv, MutexHeld
  <2>8. sync.pending # NoMessage /\ sync.pending.body = t => may
    <3>1. sync.pending # NoMessage => sync.pending \in AllMessages
      BY DEF AllMessages, Held
    <3> QED
      BY <1>3, <1>8, <3>1 DEF RpcInv, MessagesFit
  <2>9. \A u \in Threads : Asleep(u)' => Asleep(u) \/ (u = t /\ ~may)
    BY <1>5, <2>1, <2>4, <2>5 DEF Asleep
  <2>10. SomebodyAwake'
    <3>1. \A u \in Threads : Asleep(u)' =>
            ~sync'.stop /\ (sync'.pending = NoMessage \/ sync'.pending.body # u)
      BY <1>11, <2>4, <2>8, <2>9 DEF RpcInv, SomebodyAwake
    <3>2. CASE may
      <4>1. pc'[t] # "waiting"
        BY <2>1, <2>5, <3>2
      <4> QED
        BY <1>4, <2>4, <3>1, <4>1 DEF SomebodyAwake
    <3>3. CASE ~may
      <4>1. PICK u \in sync.registered :
              \/ pc[u] # "waiting"
              \/ u \in sync.notified /\ sync.pending # NoMessage /\ sync.pending.body = u
        BY <1>4, <1>8, <1>11, <3>3 DEF RpcInv, SomebodyAwake
      <4>2. u # t /\ u \in Threads
        BY <1>1, <1>2, <2>8, <3>3, <4>1 DEF Syncs
      <4> QED
        BY <1>5, <2>4, <2>5, <3>1, <4>1, <4>2 DEF SomebodyAwake
    <3> QED
      BY <3>2, <3>3
  <2>11. Once(in) /\ \A a \in ToSet(in), n \in Held : a.body # n.body
    BY DEF RpcInv, OneMessage
  <2>12. got[t] \in Messages \cup {NoMessage} /\ got' = [got EXCEPT ![t] = got[t]]
    BY <1>2, <2>3 DEF TypeOK
  <2>13. p \in {"reading", "waiting"}
    BY <2>1
  <2> QED
    BY <1>1, <1>2, <1>3, <2>3, <2>4, <2>6, <2>7, <2>10, <2>11, <2>12, <2>13, RunningKeeps
<1> QED
  BY <1>10, <1>11


-----------------------------------------------------------------------------
\* Of some calls one is the latest.
LEMMA LatestExists ==
  ASSUME TypeOK, NEW S \in SUBSET Threads, S # {}
  PROVE  \E u \in S : u \in Latest(S)
<1> DEFINE T == {MaxSeq - seq[u] : u \in S}
<1>1. \A u \in S : seq[u] \in Nat /\ MaxSeq - seq[u] \in Nat /\ MaxSeq \in Nat
  BY RpcAssumption DEF TypeOK
<1>2. T \in SUBSET Nat /\ T # {}
  BY <1>1
<1>3. IsWellFoundedOn(OpToRel(<, Nat), Nat)
  BY NatLessThanWellFounded, Zenon
<1> HIDE DEF T
<1>4. PICK x \in T : \A y \in T : <<y, x>> \notin OpToRel(<, Nat)
  BY <1>2, <1>3, WFMin, Zenon
<1>5. \A y \in T : ~(y < x)
  BY <1>2, <1>4 DEF OpToRel
<1>6. PICK u \in S : x = MaxSeq - seq[u]
  BY DEF T
<1>7. \A v \in S : seq[v] <= seq[u]
  <2> TAKE v \in S
  <2>1. MaxSeq - seq[v] \in T
    BY DEF T
  <2> QED
    BY <1>1, <1>5, <1>6, <2>1
<1> QED
  BY <1>6, <1>7 DEF Latest

\* A call ends with the answer to it, and there is no other message of it.
LEMMA AnsweredKeeps ==
  ASSUME RpcInv, NEW t \in Threads, NEW m, m.body = t, AnswerTo(m, t),
         HasSent(t), NEW end, end = Outcome(t, m), Ends(t, end.pc, end.value),
         UNCHANGED <<client, service, link, out, method, seq>>,
         in' \in Seq(Messages), Once(in'), ToSet(in') \subseteq ToSet(in), Held' \subseteq Held,
         AllMessages' = AllMessages \ {m}, \A n \in AllMessages' : n.body # t,
         sync' \in Syncs, sync'.next = sync.next, sync'.stop = sync.stop,
         IF client = "plain" THEN sync' = sync
         ELSE sync.reader = t /\ sync'.registered = sync.registered \ {t},
         MutexHeld', SomebodyAwake'
  PROVE  RpcInv'
<1>1. TypeOK /\ method[t] \in MethodNames
  BY DEF RpcInv, TypeOK
<1>2. IsOwnEnd(end, t)
  BY <1>1, OutcomeFits
<1>3. PICK p, v : p = end.pc /\ v = end.value
  OBVIOUS
<1>4. p \in {"returned", "thrown"} /\ v \in [why : Reasons, of : Threads \cup {NoThread}]
  BY <1>2, <1>3 DEF IsOwnEnd, Why, Reasons
<1>5. /\ pc' = [pc EXCEPT ![t] = p] /\ result' = [result EXCEPT ![t] = v]
      /\ got' = [got EXCEPT ![t] = NoMessage]
  BY <1>3 DEF Ends
<1>6. \A u \in Threads : pc'[u] = IF u = t THEN p ELSE pc[u]
  BY <1>1, <1>5 DEF TypeOK
<1>7. \A u \in Threads : result'[u] = IF u = t THEN v ELSE result[u]
  BY <1>1, <1>5 DEF TypeOK
<1>8. TypeOK'
  <2>1. pc' \in [Threads -> {"idle", "sending", "sent", "reading", "blocked", "read",
                             "waiting", "returned", "thrown"}]
    BY <1>1, <1>4, <1>5 DEF TypeOK
  <2>2. result' \in [Threads -> [why : Reasons, of : Threads \cup {NoThread}]]
    BY <1>1, <1>4, <1>5 DEF TypeOK
  <2> QED
    BY <1>1, <1>5, <2>1, <2>2 DEF TypeOK
<1>9. \A n \in AllMessages : n.body \in Threads
  BY <1>1, PartsTyped
<1>10. \A u \in Threads : u # t => (HasSent(u)' = HasSent(u))
  BY <1>6 DEF HasSent
<1>11. ~HasSent(t)' /\ ~Idle(t) /\ Idle(t)'
  BY <1>4, <1>6 DEF HasSent, Idle
<1>12. OneCallAtATime'
  <2> SUFFICES ASSUME client = "plain" PROVE OneCallAtATime'
    BY DEF OneCallAtATime
  <2>1. \A n \in AllMessages' : n.body = t
    BY <1>9, <1>11 DEF RpcInv, OneCallAtATime, Idle
  <2> QED
    BY <1>6, <1>11, <2>1 DEF RpcInv, OneCallAtATime, Idle
<1>13. BadAfterStop'
  BY DEF RpcInv, BadAfterStop
<1>14. CallsNumbered'
  <2> SUFFICES ASSUME client = "concurrent" PROVE CallsNumbered'
    BY DEF CallsNumbered
  <2>1. sync'.registered = sync.registered \ {t} /\ sync.registered \subseteq Threads
    BY <1>1 DEF TypeOK, Syncs
  <2>2. \A u \in Threads : u # t => (Idle(u)' = Idle(u))
    BY <1>6 DEF Idle
  <2> QED
    BY <1>11, <2>1, <2>2 DEF RpcInv, CallsNumbered
<1>15. OwnersRegistered'
  <2> SUFFICES ASSUME client = "concurrent", NEW n \in AllMessages',
                      ~sync.stop \/ (\E u \in Threads : pc'[u] \in {"blocked", "read"})
               PROVE  n.body \in sync'.registered /\ seq[n.body] = n.seqid
    BY DEF OwnersRegistered
  <2>1. sync.reader = t /\ sync'.registered = sync.registered \ {t}
    OBVIOUS
  <2>2. \A u \in Threads : pc'[u] \notin {"blocked", "read"}
    BY <1>4, <1>6, <2>1 DEF RpcInv, MutexHeld
  <2> QED
    BY <2>1, <2>2 DEF RpcInv, OwnersRegistered
<1>16. MessagesFit'
  <2>1. \A n \in AllMessages' : HasSent(n.body)' => n.seqid = seq'[n.body]
    BY <1>9, <1>10 DEF RpcInv, MessagesFit
  <2>2. \A n \in AllMessages : HasSent(n.body)' => HasSent(n.body)
    BY <1>9, <1>10, <1>11
  <2>3. \A n \in ToSet(out') : HasSent(n.body)' => RequestOf(n, n.body)'
    BY <2>2 DEF RpcInv, MessagesFit, AllMessages, RequestOf
  <2>4. \A n \in ToSet(in') \cup Held' : HasSent(n.body)' => AnswerTo(n, n.body)'
    BY <2>2 DEF RpcInv, MessagesFit, AllMessages, AnswerTo, ProcessMap
  <2> QED
    BY <2>1, <2>3, <2>4, Zenon DEF MessagesFit
<1>17. OneMessage'
  <2>1. \A u \in Threads : pc'[u] = "sending" => ~MessageOf(u)'
    BY <1>4, <1>6 DEF RpcInv, OneMessage, MessageOf
  <2>2. \A u \in Threads : link' = "open" /\ HasSent(u)' => MessageOf(u)'
    BY <1>10, <1>11 DEF RpcInv, OneMessage, MessageOf
  <2> QED
    BY <2>1, <2>2 DEF RpcInv, OneMessage
<1>18. OwnAnswers'
  <2>1. OwnAnswer(t)'
    BY <1>2, <1>3, <1>6, <1>7 DEF IsOwnEnd, OwnAnswer, ProcessMap
  <2>2. ASSUME NEW u \in Threads, u # t PROVE OwnAnswer(u)'
    <3>1. pc'[u] = pc[u] /\ result'[u] = result[u] /\ OwnAnswer(u)
      BY <1>6, <1>7, <2>2 DEF RpcInv, OwnAnswers
    <3> QED
      BY <3>1 DEF OwnAnswer, ProcessMap
  <2> QED
    BY <2>1, <2>2 DEF OwnAnswers
<1> QED
  BY <1>8, <1>12, <1>13, <1>14, <1>15, <1>16, <1>17, <1>18 DEF RpcInv


\* A thread of the plain client receives the next message.
LEMMA ReceiveKeeps ==
  ASSUME RpcInv, NEW t \in Threads, Receive(t)
  PROVE  RpcInv'
<1>1. PICK m : m = Head(in)
  OBVIOUS
<1>2. PICK end : end = Outcome(t, m)
  OBVIOUS
<1>3. /\ client = "plain" /\ pc[t] = "sent" /\ in # <<>> /\ in' = Tail(in)
      /\ ~OfAnother(t, m) => Ends(t, end.pc, end.value)
      /\ UNCHANGED <<client, service, link, out, method, seq, sync>>
  BY <1>1, <1>2, Zenon DEF Receive
<1>4. TypeOK /\ sync \in Syncs /\ in \in Seq(Messages)
  BY DEF RpcInv, TypeOK
<1>5. /\ Once(in) /\ \A a \in ToSet(out), b \in ToSet(in) \cup Held : a.body # b.body
      /\ \A a \in ToSet(in), b \in Held : a.body # b.body
  BY DEF RpcInv, OneMessage
<1>6. /\ m \in Messages /\ m \in ToSet(in) /\ in' \in Seq(Messages) /\ Once(in')
      /\ ToSet(in) = ToSet(in') \cup {m}
      /\ \A n \in ToSet(in') : n.body # m.body
  BY <1>1, <1>3, <1>4, <1>5, HeadTaken
<1>7. \A u \in Threads : got[u] = NoMessage
  BY <1>3 DEF RpcInv, MutexHeld, OneCallAtATime, Idle
<1>8. m.body = t
  <2>1. m \in AllMessages /\ m.body \in Threads
    BY <1>4, <1>6, PartsTyped DEF AllMessages
  <2> QED
    BY <1>3, <2>1 DEF RpcInv, OneCallAtATime, Idle
<1>9. HasSent(t)
  BY <1>3 DEF HasSent
<1>10. AnswerTo(m, t)
  BY <1>6, <1>8, <1>9 DEF RpcInv, MessagesFit
<1>11. ~OfAnother(t, m)
  <2>1. StubFor(t).expects = method[t]
    BY <1>4, StubNames DEF StubFor, TypeOK
  <2> QED
    BY <1>10, <2>1 DEF OfAnother, AnswerTo
<1>12. Ends(t, end.pc, end.value)
  BY <1>3, <1>11
<1>13. got' = [got EXCEPT ![t] = NoMessage]
  BY <1>12 DEF Ends
<1>14. \A u \in Threads : got'[u] = NoMessage
  BY <1>4, <1>7, <1>13 DEF TypeOK
<1>15. sync.pending = NoMessage
  BY <1>3 DEF RpcInv, OneCallAtATime
<1>16. Held = {} /\ Held' = {}
  BY <1>3, <1>7, <1>14, <1>15 DEF Held
<1>17. AllMessages' = AllMessages \ {m}
  BY <1>3, <1>5, <1>6, <1>16 DEF AllMessages
<1>18. \A n \in AllMessages' : n.body # t
  BY <1>3, <1>5, <1>6, <1>8, <1>16 DEF AllMessages
<1>19. end.pc \in {"returned", "thrown"} /\ pc' = [pc EXCEPT ![t] = end.pc]
  <2>1. IsOwnEnd(end, t)
    BY <1>2, <1>4, <1>8, <1>10, OutcomeFits DEF TypeOK
  <2> QED
    BY <1>12, <2>1 DEF IsOwnEnd, Ends
<1>20. \A u \in Threads : pc'[u] = IF u = t THEN end.pc ELSE pc[u]
  BY <1>4, <1>19 DEF TypeOK
<1>21. MutexHeld'
  BY <1>3, <1>7, <1>14, <1>19, <1>20 DEF RpcInv, MutexHeld
<1>22. SomebodyAwake'
  BY <1>3, <1>19, <1>20 DEF RpcInv, SomebodyAwake, OneCallAtATime, Asleep
<1> QED
  BY <1>2, <1>3, <1>4, <1>6, <1>8, <1>9, <1>10, <1>12, <1>16, <1>17, <1>18, <1>21, <1>22, AnsweredKeeps

\* A thread of the concurrent client has read the answer to its own call.
LEMMA FinishKeeps ==
  ASSUME RpcInv, NEW t \in Threads, Finish(t)
  PROVE  RpcInv'
<1>1. PICK m : m = got[t]
  OBVIOUS
<1>2. PICK end : end = Outcome(t, m)
  OBVIOUS
<1>3. /\ pc[t] = "read" /\ m.seqid = seq[t] /\ Ends(t, end.pc, end.value)
      /\ sync' = LeaveSync(sync, t, end.good)
      /\ UNCHANGED <<client, service, link, out, in, method, seq>>
  BY <1>1, <1>2, Zenon DEF Finish
<1>4. TypeOK /\ sync \in Syncs /\ in \in Seq(Messages)
  BY DEF RpcInv, TypeOK
<1>5. /\ client = "concurrent" /\ sync.reader = t /\ sync.pending = NoMessage
      /\ m \in Messages /\ m # NoMessage /\ Held = {m}
      /\ m.body \in Threads /\ m.body \in sync.registered /\ seq[m.body] = m.seqid
      /\ t \in sync.registered
      /\ \A u \in sync.registered : seq[u] = m.seqid => u = m.body
  BY <1>1, <1>3, ReadsForOwner
<1>6. m.body = t /\ HasSent(t)
  BY <1>3, <1>5 DEF HasSent
<1>7. AnswerTo(m, t)
  BY <1>5, <1>6 DEF RpcInv, MessagesFit
<1>8. IsOwnEnd(end, t)
  BY <1>2, <1>4, <1>6, <1>7, OutcomeFits DEF TypeOK
<1>9. end.good /\ end.pc \in {"returned", "thrown"}
  BY <1>8 DEF IsOwnEnd
<1>10. IsLeft(sync', sync, t, TRUE)
  <2>1. end.good = TRUE
    BY <1>2, <1>9 DEF Outcome
  <2> QED
    BY <1>3, <1>4, <2>1, LeaveSyncFields
<1>11. /\ sync' \in Syncs /\ sync'.next = sync.next
       /\ sync'.registered = sync.registered \ {t} /\ sync'.pending = NoMessage
       /\ sync'.stop = sync.stop /\ sync'.reader = NoThread /\ sync'.wakeup
       /\ sync.notified \ {t} \subseteq sync'.notified
       /\ \A u \in Latest(sync.registered \ {t}) : pc[u] = "waiting" => u \in sync'.notified
  BY <1>4, <1>5, <1>10 DEF IsLeft, Syncs
<1>12. pc' = [pc EXCEPT ![t] = end.pc] /\ got' = [got EXCEPT ![t] = NoMessage]
  BY <1>3 DEF Ends
<1>13. \A u \in Threads : pc'[u] = IF u = t THEN end.pc ELSE pc[u]
  BY <1>4, <1>12 DEF TypeOK
<1>14. \A u \in Threads : got'[u] = NoMessage
  BY <1>4, <1>5, <1>12 DEF TypeOK, RpcInv, MutexHeld
<1>15. Held' = {}
  BY <1>11, <1>14 DEF Held
<1>16. \A n \in ToSet(out) \cup ToSet(in) : n.body # t
  BY <1>5, <1>6 DEF RpcInv, OneMessage
<1>17. AllMessages' = AllMessages \ {m} /\ \A n \in AllMessages' : n.body # t
  BY <1>3, <1>5, <1>6, <1>15, <1>16 DEF AllMessages
<1>18. MutexHeld'
  BY <1>5, <1>9, <1>11, <1>13, <1>14, RpcAssumption DEF RpcInv, MutexHeld
<1>19. SomebodyAwake'
  <2>1. \A u \in Threads : Asleep(u)' => Asleep(u)
    BY <1>9, <1>11, <1>13 DEF Asleep
  <2>2. \A u \in Threads : Asleep(u)' =>
          ~sync'.stop /\ (sync'.pending = NoMessage \/ sync'.pending.body # u)
    BY <1>11, <2>1 DEF RpcInv, SomebodyAwake
  <2>3. ASSUME sync'.registered # {} PROVE \E u \in sync'.registered : ~Asleep(u)'
    <3>1. sync.registered \ {t} \in SUBSET Threads
      BY <1>4 DEF Syncs
    <3>2. PICK u \in sync.registered \ {t} : u \in Latest(sync.registered \ {t})
      BY <1>4, <1>11, <2>3, <3>1, LatestExists
    <3> QED
      BY <1>11, <1>13, <3>1, <3>2 DEF Asleep
  <2> QED
    BY <1>11, <2>2, <2>3 DEF SomebodyAwake
<1>20. Once(in)
  BY DEF RpcInv, OneMessage
<1> QED
  BY <1>2, <1>3, <1>4, <1>5, <1>6, <1>7, <1>11, <1>15, <1>17, <1>18, <1>19, <1>20, AnsweredKeeps


-----------------------------------------------------------------------------
\* A request is sent.
LEMMA SendKeeps ==
  ASSUME RpcInv, NEW t \in Threads, Send(t)
  PROVE  RpcInv'
<1>1. PICK m : m = CallMessage(t)
  OBVIOUS
<1>2. /\ pc[t] = "sending" /\ pc' = [pc EXCEPT ![t] = "sent"]
      /\ out' = IF link = "open" THEN Append(out, m) ELSE out
      /\ UNCHANGED <<client, service, link, in, method, seq, got, result, sync>>
  BY <1>1, Zenon DEF Send
<1>3. TypeOK /\ out \in Seq(Messages)
  BY DEF RpcInv, TypeOK
<1>4. method[t] \in MethodNames /\ StubFor(t).name = method[t]
  BY <1>3, StubNames DEF TypeOK, StubFor
<1>5. m \in Messages /\ m.body = t /\ m.seqid = seq[t] /\ RequestOf(m, t) /\ m # NoMessage
  BY <1>1, <1>3, <1>4, RpcAssumption DEF CallMessage, Message, TypeOK, Messages, RequestOf
<1>6. \A u \in Threads : pc'[u] = IF u = t THEN "sent" ELSE pc[u]
  BY <1>2, <1>3 DEF TypeOK
<1>7. Held' = Held
  BY <1>2 DEF Held
<1>8. \A n \in AllMessages : n.body # t /\ n.body \in Threads
  BY <1>2, <1>3, PartsTyped DEF RpcInv, OneMessage, MessageOf
<1>9. /\ out' \in Seq(Messages) /\ Once(out')
      /\ \/ link = "broken" /\ ToSet(out') = ToSet(out)
         \/ link = "open" /\ ToSet(out') = ToSet(out) \cup {m}
  <2>1. Once(out) /\ \A n \in ToSet(out) : n.body # m.body
    BY <1>5, <1>8 DEF RpcInv, OneMessage, AllMessages
  <2>2. CASE link = "open"
    <3>1. out' = Append(out, m)
      BY <1>2, <2>2
    <3> QED
      BY <1>3, <1>5, <2>1, <2>2, <3>1, LastAdded
  <2>3. CASE link # "open"
    BY <1>2, <1>3, <2>1, <2>3 DEF TypeOK
  <2> QED
    BY <2>2, <2>3
<1>10. \/ link = "broken" /\ AllMessages' = AllMessages
       \/ link = "open" /\ AllMessages' = AllMessages \cup {m}
  BY <1>2, <1>7, <1>9 DEF AllMessages
<1>11. TypeOK'
  BY <1>2, <1>3, <1>9 DEF TypeOK
<1>12. OneCallAtATime'
  <2> SUFFICES ASSUME client = "plain" PROVE OneCallAtATime'
    BY <1>2 DEF OneCallAtATime
  <2>1. \A n \in AllMessages' : pc'[n.body] = "sent"
    BY <1>5, <1>6, <1>8, <1>10 DEF RpcInv, OneCallAtATime
  <2> QED
    BY <1>2, <1>6, <2>1 DEF RpcInv, OneCallAtATime, Idle
<1>13. MutexHeld'
  BY <1>2, <1>6 DEF RpcInv, MutexHeld
<1>14. BadAfterStop'
  <2>1. link = "broken" => out' = out
    BY <1>2
  <2> QED
    BY <1>2, <2>1 DEF RpcInv, BadAfterStop
<1>15. CallsNumbered'
  <2>1. \A u \in Threads : Idle(u)' = Idle(u)
    BY <1>2, <1>6 DEF Idle
  <2>2. sync.registered \subseteq Threads
    BY <1>3 DEF TypeOK, Syncs
  <2> QED
    BY <1>2, <2>1, <2>2 DEF RpcInv, CallsNumbered
<1>16. OwnersRegistered'
  <2> SUFFICES ASSUME client = "concurrent", NEW n \in AllMessages',
                      ~sync.stop \/ (\E u \in Threads : pc'[u] \in {"blocked", "read"})
               PROVE  n.body \in sync.registered /\ seq[n.body] = n.seqid
    BY <1>2 DEF OwnersRegistered
  <2>1. ~sync.stop \/ (\E u \in Threads : pc[u] \in {"blocked", "read"})
    BY <1>6
  <2>2. t \in sync.registered
    BY <1>2 DEF RpcInv, CallsNumbered, Idle
  <2> QED
    BY <1>5, <1>10, <2>1, <2>2 DEF RpcInv, OwnersRegistered
<1>17. \A u \in Threads : u # t => (HasSent(u)' = HasSent(u))
  BY <1>6 DEF HasSent
<1>18. MessagesFit'
  <2>1. \A n \in AllMessages' : HasSent(n.body)' => n.seqid = seq'[n.body]
    BY <1>2, <1>5, <1>8, <1>10, <1>17 DEF RpcInv, MessagesFit
  <2>2. \A n \in ToSet(out') : HasSent(n.body)' => RequestOf(n, n.body)'
    BY <1>2, <1>5, <1>8, <1>9, <1>17 DEF RpcInv, MessagesFit, AllMessages, RequestOf
  <2>3. \A n \in ToSet(in') \cup Held' : HasSent(n.body)' => AnswerTo(n, n.body)'
    BY <1>2, <1>7, <1>8, <1>17 DEF RpcInv, MessagesFit, AllMessages, AnswerTo, ProcessMap
  <2> QED
    BY <2>1, <2>2, <2>3, Zenon DEF MessagesFit
<1>19. OneMessage'
  <2>1. \A u \in Threads : pc'[u] = "sending" => ~MessageOf(u)'
    BY <1>5, <1>6, <1>10 DEF RpcInv, OneMessage, MessageOf
  <2>2. \A u \in Threads : link' = "open" /\ HasSent(u)' => MessageOf(u)'
    BY <1>2, <1>5, <1>10, <1>17 DEF RpcInv, OneMessage, MessageOf
  <2>3. \A n \in ToSet(out'), a \in ToSet(in') \cup Held' : n.body # a.body
    BY <1>2, <1>5, <1>7, <1>8, <1>9 DEF RpcInv, OneMessage, AllMessages
  <2>4. \A n \in ToSet(in'), a \in Held' : n.body # a.body
    BY <1>2, <1>7 DEF RpcInv, OneMessage
  <2> QED
    BY <1>2, <1>9, <2>1, <2>2, <2>3, <2>4 DEF RpcInv, OneMessage
<1>20. SomebodyAwake'
  BY <1>2, <1>6 DEF RpcInv, SomebodyAwake, Asleep
<1>21. OwnAnswers'
  <2>1. OwnAnswer(t)'
    BY <1>6 DEF OwnAnswer
  <2>2. ASSUME NEW u \in Threads, u # t PROVE OwnAnswer(u)'
    <3>1. pc'[u] = pc[u] /\ OwnAnswer(u)
      BY <1>6, <2>2 DEF RpcInv, OwnAnswers
    <3> QED
      BY <1>2, <3>1 DEF OwnAnswer, ProcessMap
  <2> QED
    BY <2>1, <2>2 DEF OwnAnswers
<1> QED
  BY <1>11, <1>12, <1>13, <1>14, <1>15, <1>16, <1>18, <1>19, <1>20, <1>21 DEF RpcInv


-----------------------------------------------------------------------------
\* The server answers a request.
LEMMA ProcessKeeps ==
  ASSUME RpcInv, NEW throws \in BOOLEAN, Process(throws)
  PROVE  RpcInv'
<1>1. PICK m : m = Head(out)
  OBVIOUS
<1>2. PICK a : a = IF m.name \notin DOMAIN ProcessMap
                   THEN Answer(m.name, "exception", m, "UNKNOWN_METHOD")
                   ELSE IF throws
                   THEN Answer(ProcessMap[m.name].name, "exception", m, "handler")
                   ELSE Answer(ProcessMap[m.name].name, "reply", m, "success")
  OBVIOUS
<1>3. /\ link = "open" /\ out # <<>> /\ in' = Append(in, a) /\ out' = Tail(out)
      /\ UNCHANGED <<client, service, link, pc, method, seq, got, result, sync>>
  BY <1>1, <1>2, Zenon DEF Process
<1>4. TypeOK /\ out \in Seq(Messages) /\ in \in Seq(Messages)
  BY DEF RpcInv, TypeOK
<1>5. /\ Once(out) /\ Once(in)
      /\ \A n \in ToSet(out), b \in ToSet(in) \cup Held : n.body # b.body
      /\ \A n \in ToSet(in), b \in Held : n.body # b.body
  BY DEF RpcInv, OneMessage
<1>6. /\ m \in Messages /\ m \in ToSet(out) /\ out' \in Seq(Messages) /\ Once(out')
      /\ ToSet(out) = ToSet(out') \cup {m}
      /\ \A n \in ToSet(out') : n.body # m.body
  BY <1>1, <1>3, <1>4, <1>5, HeadTaken
<1>7. m.name \in DOMAIN ProcessMap => ProcessMap[m.name].name = m.name
  BY ProcessNames
<1>8. /\ a \in Messages /\ a.body = m.body /\ a.seqid = m.seqid /\ a.name = m.name
      /\ IF m.name \in DOMAIN ProcessMap
         THEN a.type = "reply" \/ (a.type = "exception" /\ a.reason = "handler")
         ELSE a.type = "exception" /\ a.reason = "UNKNOWN_METHOD"
  BY <1>2, <1>6, <1>7 DEF Answer, Message, Messages
<1>9. /\ in' \in Seq(Messages) /\ ToSet(in') = ToSet(in) \cup {a} /\ Once(in')
  BY <1>3, <1>4, <1>5, <1>6, <1>8, LastAdded
<1>10. Held' = Held
  BY <1>3 DEF Held
<1>11. m \in AllMessages /\ a \in AllMessages'
  BY <1>6, <1>9 DEF AllMessages
<1>12. \A n \in AllMessages' : n = a \/ n \in AllMessages
  BY <1>6, <1>9, <1>10 DEF AllMessages
<1>13. \A n \in AllMessages : n = m \/ n \in AllMessages'
  BY <1>6, <1>9, <1>10 DEF AllMessages
<1>14. TypeOK'
  BY <1>3, <1>4, <1>6, <1>9 DEF TypeOK
<1>15. OneCallAtATime'
  BY <1>3, <1>8, <1>11, <1>12 DEF RpcInv, OneCallAtATime, Idle
<1>16. MutexHeld' /\ CallsNumbered' /\ SomebodyAwake'
  BY <1>3 DEF RpcInv, MutexHeld, CallsNumbered, SomebodyAwake, Idle, Asleep
<1>17. BadAfterStop'
  BY <1>3 DEF RpcInv, BadAfterStop
<1>18. OwnersRegistered'
  BY <1>3, <1>8, <1>11, <1>12 DEF RpcInv, OwnersRegistered
<1>19. \A t : HasSent(t)' = HasSent(t)
  BY <1>3 DEF HasSent
<1>20. MessagesFit'
  <2>1. \A n \in AllMessages' : HasSent(n.body)' => n.seqid = seq'[n.body]
    BY <1>3, <1>8, <1>11, <1>12, <1>19 DEF RpcInv, MessagesFit
  <2>2. \A n \in ToSet(out') : HasSent(n.body)' => RequestOf(n, n.body)'
    BY <1>3, <1>6, <1>19 DEF RpcInv, MessagesFit, RequestOf
  <2>3. HasSent(a.body)' => AnswerTo(a, a.body)'
    BY <1>3, <1>6, <1>8, <1>19 DEF RpcInv, MessagesFit, RequestOf, AnswerTo, ProcessMap
  <2>4. \A n \in ToSet(in) \cup Held : HasSent(n.body)' => AnswerTo(n, n.body)'
    BY <1>3, <1>19 DEF RpcInv, MessagesFit, AnswerTo, ProcessMap
  <2> QED
    BY <1>9, <1>10, <2>1, <2>2, <2>3, <2>4, Zenon DEF MessagesFit
<1>21. OneMessage'
  <2>1. \A t : MessageOf(t)' = MessageOf(t)
    BY <1>8, <1>11, <1>12, <1>13 DEF MessageOf
  <2>2. \A n \in ToSet(out'), b \in ToSet(in') \cup Held' : n.body # b.body
    BY <1>5, <1>6, <1>8, <1>9, <1>10
  <2>3. \A n \in ToSet(in'), b \in Held' : n.body # b.body
    BY <1>5, <1>6, <1>8, <1>9, <1>10
  <2> QED
    BY <1>3, <1>6, <1>9, <1>19, <2>1, <2>2, <2>3 DEF RpcInv, OneMessage
<1>22. OwnAnswers'
  BY <1>3 DEF RpcInv, OwnAnswers, OwnAnswer, ProcessMap
<1> QED
  BY <1>14, <1>15, <1>16, <1>17, <1>18, <1>20, <1>21, <1>22 DEF RpcInv

\* The server stops: requests are lost, and perhaps answers.
LEMMA BreakKeeps ==
  ASSUME RpcInv, Break
  PROVE  RpcInv'
<1>1. /\ link' = "broken" /\ out' = <<>> /\ in' \in {in, <<>>}
      /\ UNCHANGED <<client, service, pc, method, seq, got, result, sync>>
  BY DEF Break
<1>2. TypeOK
  BY DEF RpcInv
<1>3. Held' = Held
  BY <1>1 DEF Held
<1>4. /\ ToSet(out') = {} /\ Once(out') /\ ToSet(in') \subseteq ToSet(in) /\ Once(in')
  BY <1>1, NoneThere DEF RpcInv, OneMessage
<1>5. AllMessages' \subseteq AllMessages
  BY <1>3, <1>4 DEF AllMessages
<1>6. TypeOK'
  <2>1. <<>> \in Seq(Messages) /\ in \in Seq(Messages)
    BY <1>2 DEF TypeOK
  <2>2. out' \in Seq(Messages) /\ in' \in Seq(Messages)
    BY <1>1, <2>1
  <2> QED
    BY <1>1, <1>2, <2>2 DEF TypeOK
<1>7. OneCallAtATime'
  BY <1>1, <1>5 DEF RpcInv, OneCallAtATime, Idle
<1>8. MutexHeld' /\ CallsNumbered' /\ SomebodyAwake'
  BY <1>1 DEF RpcInv, MutexHeld, CallsNumbered, SomebodyAwake, Idle, Asleep
<1>9. BadAfterStop'
  BY <1>1 DEF BadAfterStop
<1>10. OwnersRegistered'
  BY <1>1, <1>5 DEF RpcInv, OwnersRegistered
<1>11. MessagesFit'
  <2>1. \A t : HasSent(t)' = HasSent(t)
    BY <1>1 DEF HasSent
  <2>2. \A n \in AllMessages' : HasSent(n.body)' => n.seqid = seq'[n.body]
    BY <1>1, <1>5, <2>1 DEF RpcInv, MessagesFit
  <2>3. \A n \in ToSet(in') \cup Held' : HasSent(n.body)' => AnswerTo(n, n.body)'
    BY <1>1, <1>3, <1>4, <2>1 DEF RpcInv, MessagesFit, AnswerTo, ProcessMap
  <2> QED
    BY <1>4, <2>2, <2>3 DEF MessagesFit
<1>12. OneMessage'
  BY <1>1, <1>3, <1>4, <1>5 DEF RpcInv, OneMessage, MessageOf
<1>13. OwnAnswers'
  BY <1>1 DEF RpcInv, OwnAnswers, OwnAnswer, ProcessMap
<1> QED
  BY <1>6, <1>7, <1>8, <1>9, <1>10, <1>11, <1>12, <1>13 DEF RpcInv

\* A new client object.
Fresh ==
  /\ TypeOK /\ link = "open" /\ out = <<>> /\ in = <<>>
  /\ \A t \in Threads : pc[t] = "idle" /\ got[t] = NoMessage
  /\ sync = NewSync

LEMMA FreshClient == Fresh => RpcInv
<1> SUFFICES ASSUME Fresh PROVE RpcInv
  OBVIOUS
<1> USE DEF Fresh
<1>1. /\ sync.next = 0 /\ sync.registered = {} /\ sync.reader = NoThread
      /\ sync.pending = NoMessage /\ ~sync.stop
  BY DEF NewSync
<1>2. ToSet(out) = {} /\ ToSet(in) = {} /\ Once(out) /\ Once(in)
  BY NoneThere
<1>3. Held = {}
  BY <1>1 DEF Held
<1>4. AllMessages = {}
  BY <1>2, <1>3 DEF AllMessages
<1>5. OneCallAtATime /\ CallsNumbered /\ OwnersRegistered
  BY <1>1, <1>4 DEF OneCallAtATime, CallsNumbered, OwnersRegistered, Idle
<1>6. MutexHeld /\ BadAfterStop
  BY <1>1, RpcAssumption DEF MutexHeld, BadAfterStop
<1>7. MessagesFit /\ OneMessage
  BY <1>2, <1>3, <1>4 DEF MessagesFit, OneMessage, HasSent, MessageOf
<1>8. SomebodyAwake /\ OwnAnswers
  BY <1>1 DEF SomebodyAwake, OwnAnswers, OwnAnswer, Asleep
<1> QED
  BY <1>5, <1>6, <1>7, <1>8 DEF RpcInv

LEMMA NewSyncTyped == NewSync \in Syncs
  BY RpcAssumption DEF NewSync, Syncs

LEMMA InitInv ==
  ASSUME Init
  PROVE  RpcInv
<1>1. TypeOK
  BY NewSyncTyped, RpcAssumption DEF Init, TypeOK, MethodNames, None, Why, Reasons
<1> QED
  BY <1>1, FreshClient DEF Init, Fresh

LEMMA ConnectKeeps ==
  ASSUME RpcInv, Connect
  PROVE  RpcInv'
<1>1. /\ link' = "open" /\ out' = <<>> /\ in' = <<>> /\ pc' = [t \in Threads |-> "idle"]
      /\ seq' = [t \in Threads |-> 0] /\ result' = [t \in Threads |-> None]
      /\ sync' = NewSync /\ UNCHANGED <<client, service, method, got>>
      /\ \A t \in Threads : Idle(t)
  BY DEF Connect
<1>2. TypeOK'
  BY <1>1, NewSyncTyped, RpcAssumption DEF RpcInv, TypeOK, None, Why, Reasons
<1>3. \A t \in Threads : pc'[t] = "idle" /\ got'[t] = NoMessage
  BY <1>1 DEF RpcInv, MutexHeld, Idle
<1>4. Fresh'
  BY <1>1, <1>2, <1>3, RpcAssumption DEF Fresh, NewSync, Messages
<1> QED
  BY <1>4, FreshClient, PTL


-----------------------------------------------------------------------------
\* A call begins: no message is left of the thread's earlier one.
LEMMA IdleHasNoMessage ==
  ASSUME RpcInv, NEW t \in Threads, Idle(t),
         client = "concurrent" => ~sync.stop
  PROVE  ~MessageOf(t)
<1> SUFFICES ASSUME NEW m \in AllMessages, m.body = t PROVE FALSE
  BY DEF MessageOf
<1>1. CASE client = "concurrent"
  <2>1. t \in sync.registered
    BY <1>1 DEF RpcInv, OwnersRegistered
  <2> QED
    BY <1>1, <2>1 DEF RpcInv, CallsNumbered
<1>2. CASE client # "concurrent"
  <2>1. client = "plain"
    BY <1>2 DEF RpcInv, TypeOK
  <2> QED
    BY <2>1 DEF RpcInv, OneCallAtATime, Idle
<1> QED
  BY <1>1, <1>2

\* The thread that calls, and the rest of the invariant.
LEMMA OthersKeep ==
  ASSUME RpcInv, NEW t \in Threads, Idle(t), ~HasSent(t)',
         NEW p, pc' = [pc EXCEPT ![t] = p], p = "sending" => ~MessageOf(t),
         UNCHANGED <<client, service, link, out, in, got>>, sync'.pending = sync.pending,
         \A u \in Threads : u # t =>
           method'[u] = method[u] /\ seq'[u] = seq[u] /\ result'[u] = result[u],
         OwnAnswer(t)'
  PROVE  MessagesFit' /\ OneMessage' /\ OwnAnswers' /\ AllMessages' = AllMessages
<1>1. TypeOK
  BY DEF RpcInv
<1>2. \A u \in Threads : pc'[u] = IF u = t THEN p ELSE pc[u]
  BY <1>1 DEF TypeOK
<1>3. Held' = Held /\ AllMessages' = AllMessages
  BY DEF Held, AllMessages
<1>4. \A u \in Threads : HasSent(u)' <=> u # t /\ HasSent(u)
  BY <1>2 DEF HasSent
<1>5. \A m \in AllMessages : m.body \in Threads
  BY <1>1, PartsTyped
<1>6. MessagesFit'
  <2>1. \A m \in AllMessages' : HasSent(m.body)' => m.seqid = seq'[m.body]
    BY <1>3, <1>4, <1>5 DEF RpcInv, MessagesFit
  <2>2. \A m \in ToSet(out') : HasSent(m.body)' => RequestOf(m, m.body)'
    BY <1>4, <1>5 DEF RpcInv, MessagesFit, AllMessages, RequestOf
  <2>3. \A m \in ToSet(in') \cup Held' : HasSent(m.body)' => AnswerTo(m, m.body)'
    BY <1>3, <1>4, <1>5 DEF RpcInv, MessagesFit, AllMessages, AnswerTo, ProcessMap
  <2> QED
    BY <2>1, <2>2, <2>3, Zenon DEF MessagesFit
<1>7. OneMessage'
  BY <1>2, <1>3, <1>4 DEF RpcInv, OneMessage, MessageOf
<1>8. OwnAnswers'
  <2>1. ASSUME NEW u \in Threads, u # t PROVE OwnAnswer(u)'
    <3>1. pc'[u] = pc[u] /\ result'[u] = result[u] /\ method'[u] = method[u] /\ OwnAnswer(u)
      BY <1>2, <2>1 DEF RpcInv, OwnAnswers
    <3> QED
      BY <3>1 DEF OwnAnswer, ProcessMap
  <2> QED
    BY <2>1 DEF OwnAnswers
<1> QED
  BY <1>3, <1>6, <1>7, <1>8

LEMMA CallKeeps ==
  ASSUME RpcInv, NEW t \in Threads, NEW m \in Methods[client][t], Call(t, m)
  PROVE  RpcInv'
<1>1. /\ Idle(t) /\ (client = "plain" => \A u \in Threads : Idle(u)) /\ sync.next < MaxSeq
      /\ method' = [method EXCEPT ![t] = m] /\ UNCHANGED <<client, service, link, out, in>>
  BY DEF Call
<1>2. TypeOK /\ sync \in Syncs /\ client \in {"plain", "concurrent"} /\ got[t] = NoMessage
  BY <1>1 DEF RpcInv, TypeOK, MutexHeld, Idle
<1>3. m \in MethodNames
  BY <1>2, RpcAssumption
<1>4. \A u \in Threads : u # t => method'[u] = method[u]
  BY <1>1, <1>2 DEF TypeOK
<1>5. method' \in [Threads -> MethodNames]
  BY <1>1, <1>2, <1>3 DEF TypeOK
<1>6. MaxSeq \in Nat /\ sync.next \in 0..MaxSeq /\ sync.registered \in SUBSET Threads
  BY <1>2, RpcAssumption DEF Syncs
<1>7. CASE client = "concurrent" /\ sync.stop
  <2>1. Ends(t, "thrown", Why("NOT_OPEN", NoThread)) /\ UNCHANGED <<seq, sync>>
    BY <1>7 DEF Call
  <2>2. PICK v : v = Why("NOT_OPEN", NoThread)
    OBVIOUS
  <2>3. /\ pc' = [pc EXCEPT ![t] = "thrown"] /\ result' = [result EXCEPT ![t] = v]
        /\ got' = [got EXCEPT ![t] = NoMessage]
    BY <2>1, <2>2 DEF Ends
  <2>4. got' = got
    BY <1>2, <2>3 DEF TypeOK
  <2>5. \A u \in Threads : pc'[u] = IF u = t THEN "thrown" ELSE pc[u]
    BY <1>2, <2>3 DEF TypeOK
  <2>6. \A u \in Threads : result'[u] = IF u = t THEN v ELSE result[u]
    BY <1>2, <2>3 DEF TypeOK
  <2>7. link = "broken"
    BY <1>7 DEF RpcInv, BadAfterStop
  <2>8. OwnAnswer(t)'
    BY <1>1, <2>2, <2>5, <2>6, <2>7 DEF OwnAnswer, Why
  <2>9. ~HasSent(t)'
    BY <2>5 DEF HasSent
  <2>10. MessagesFit' /\ OneMessage' /\ OwnAnswers' /\ AllMessages' = AllMessages
    BY <1>1, <1>4, <2>1, <2>3, <2>4, <2>6, <2>8, <2>9, OthersKeep
  <2>11. TypeOK'
    <3>1. v \in [why : Reasons, of : Threads \cup {NoThread}]
      BY <2>2 DEF Why, Reasons
    <3> QED
      BY <1>1, <1>2, <1>5, <2>1, <2>3, <2>4, <3>1 DEF TypeOK
  <2>12. OneCallAtATime' /\ BadAfterStop'
    BY <1>1, <1>7, <2>1 DEF RpcInv, OneCallAtATime, BadAfterStop
  <2>13. MutexHeld'
    BY <1>1, <2>1, <2>4, <2>5 DEF RpcInv, MutexHeld, Idle
  <2>14. CallsNumbered'
    BY <1>1, <1>7, <2>1, <2>5 DEF RpcInv, CallsNumbered, Idle
  <2>15. OwnersRegistered'
    BY <1>1, <2>1, <2>5, <2>10 DEF RpcInv, OwnersRegistered
  <2>16. SomebodyAwake'
    BY <1>1, <1>7, <2>1, <2>5 DEF RpcInv, SomebodyAwake, Asleep
  <2> QED
    BY <2>10, <2>11, <2>12, <2>13, <2>14, <2>15, <2>16 DEF RpcInv
<1>8. CASE ~(client = "concurrent" /\ sync.stop)
  <2>1. PICK number : number = IF client = "plain" THEN 0 ELSE sync.next
    OBVIOUS
  <2>2. PICK next : next = sync.next + 1
    OBVIOUS
  <2>3. PICK registered : registered = IF client = "plain" THEN sync.registered
                                       ELSE sync.registered \cup {t}
    OBVIOUS
  <2>4. /\ seq' = [seq EXCEPT ![t] = number] /\ pc' = [pc EXCEPT ![t] = "sending"]
        /\ sync' = [sync EXCEPT !.next = next, !.registered = registered]
        /\ result' = [result EXCEPT ![t] = None] /\ got' = got
    <3>1. [sync EXCEPT !.next = next, !.registered = registered]
            = [sync EXCEPT !.next = @ + 1,
                 !.registered = IF client = "plain" THEN @ ELSE @ \cup {t}]
      BY <2>2, <2>3
    <3> QED
      BY <1>8, <2>1, <3>1, Zenon DEF Call
  <2>5. number \in 0..MaxSeq /\ next \in 0..MaxSeq /\ registered \in SUBSET Threads
    BY <1>1, <1>6, <2>1, <2>2, <2>3
  <2>6. /\ sync' \in Syncs /\ sync'.next = next /\ sync'.registered = registered
        /\ sync'.pending = sync.pending /\ sync'.stop = sync.stop
        /\ sync'.reader = sync.reader /\ sync'.wakeup = sync.wakeup
        /\ sync'.notified = sync.notified
    BY <1>2, <2>4, <2>5 DEF Syncs
  <2>7. \A u \in Threads : pc'[u] = IF u = t THEN "sending" ELSE pc[u]
    BY <1>2, <2>4 DEF TypeOK
  <2>8. \A u \in Threads : seq'[u] = IF u = t THEN number ELSE seq[u]
    BY <1>2, <2>4 DEF TypeOK
  <2>9. \A u \in Threads : u # t => result'[u] = result[u]
    BY <1>2, <2>4 DEF TypeOK
  <2>10. OwnAnswer(t)' /\ ~HasSent(t)'
    BY <2>7 DEF OwnAnswer, HasSent
  <2>11. ~MessageOf(t)
    BY <1>1, <1>8, IdleHasNoMessage
  <2>12. MessagesFit' /\ OneMessage' /\ OwnAnswers' /\ AllMessages' = AllMessages
    BY <1>1, <1>4, <2>4, <2>6, <2>8, <2>9, <2>10, <2>11, OthersKeep
  <2>13. \A a \in AllMessages : a.body \in Threads /\ a.body # t
    BY <1>2, <2>11, PartsTyped DEF MessageOf
  <2>14. TypeOK'
    <3>1. None \in [why : Reasons, of : Threads \cup {NoThread}]
      BY DEF None, Why, Reasons
    <3>2. seq' \in [Threads -> 0..MaxSeq]
      BY <1>2, <2>4, <2>5 DEF TypeOK
    <3>3. result' \in [Threads -> [why : Reasons, of : Threads \cup {NoThread}]]
      BY <1>2, <2>4, <3>1 DEF TypeOK
    <3> QED
      BY <1>1, <1>2, <1>5, <2>4, <2>6, <3>2, <3>3 DEF TypeOK
  <2>15. OneCallAtATime'
    <3> SUFFICES ASSUME client = "plain" PROVE OneCallAtATime'
      BY <1>1 DEF OneCallAtATime
    <3>1. \A a \in AllMessages' : pc'[a.body] = "sent"
      BY <2>7, <2>12, <2>13 DEF RpcInv, OneCallAtATime
    <3> QED
      BY <1>1, <2>3, <2>6, <2>7, <3>1 DEF RpcInv, OneCallAtATime, Idle
  <2>16. MutexHeld'
    BY <1>1, <2>4, <2>6, <2>7 DEF RpcInv, MutexHeld, Idle
  <2>17. BadAfterStop'
    BY <1>1, <2>6 DEF RpcInv, BadAfterStop
  <2>18. CallsNumbered'
    <3> SUFFICES ASSUME client = "concurrent" PROVE CallsNumbered'
      BY <1>1 DEF CallsNumbered
    <3>1. /\ registered = sync.registered \cup {t} /\ number = sync.next
          /\ \A u \in sync.registered : seq[u] < sync.next /\ u # t
      BY <1>1, <1>8, <2>1, <2>3 DEF RpcInv, CallsNumbered
    <3>2. \A u \in Threads : Idle(u)' => u # t /\ Idle(u)
      BY <2>7 DEF Idle
    <3>3. \A u \in Threads : u # t => (Idle(u) => Idle(u)')
      BY <2>7 DEF Idle
    <3>4. \A u \in Threads : ~Idle(u)' => u \in sync'.registered
      BY <2>6, <3>1, <3>3 DEF RpcInv, CallsNumbered
    <3>5. ~sync'.stop => \A u \in sync'.registered : ~Idle(u)'
      BY <1>6, <2>6, <3>1, <3>2 DEF RpcInv, CallsNumbered
    <3>6. \A u \in sync'.registered : seq'[u] < sync'.next
      <4>1. \A u \in sync.registered : seq[u] \in Int
        BY <1>2, <1>6 DEF TypeOK
      <4> QED
        BY <1>6, <2>2, <2>6, <2>8, <3>1, <4>1
    <3>7. \A u, v \in sync'.registered : seq'[u] = seq'[v] => u = v
      <4>1. \A u \in sync.registered : seq[u] \in Int /\ seq[u] # number
        BY <1>2, <1>6, <3>1 DEF TypeOK
      <4> QED
        BY <1>6, <2>6, <2>8, <3>1, <4>1 DEF RpcInv, CallsNumbered
    <3> QED
      BY <3>4, <3>5, <3>6, <3>7 DEF CallsNumbered
  <2>19. OwnersRegistered'
    <3> SUFFICES ASSUME client = "concurrent", NEW a \in AllMessages
                 PROVE  a.body \in sync'.registered /\ seq'[a.body] = a.seqid
      BY <1>1, <2>12 DEF OwnersRegistered
    <3>1. a.body \in sync.registered /\ seq[a.body] = a.seqid
      BY <1>8 DEF RpcInv, OwnersRegistered
    <3> QED
      BY <2>3, <2>6, <2>8, <2>13, <3>1
  <2>20. SomebodyAwake'
    <3>1. \A u \in Threads : Asleep(u)' => Asleep(u)
      BY <2>6, <2>7 DEF Asleep
    <3>2. client = "concurrent" => t \in sync'.registered /\ pc'[t] # "waiting"
      BY <2>3, <2>6, <2>7
    <3>3. client = "plain" => sync'.registered = {}
      BY <2>3, <2>6 DEF RpcInv, OneCallAtATime
    <3> QED
      BY <1>2, <2>6, <3>1, <3>2, <3>3 DEF RpcInv, SomebodyAwake
  <2> QED
    BY <2>12, <2>14, <2>15, <2>16, <2>17, <2>18, <2>19, <2>20 DEF RpcInv
<1> QED
  BY <1>7, <1>8


-----------------------------------------------------------------------------
LEMMA StutterKeeps ==
  ASSUME RpcInv, UNCHANGED vars
  PROVE  RpcInv'
<1>1. UNCHANGED <<client, service, link, out, in, pc, method, seq, got, result, sync>>
  BY DEF vars
<1>2. TypeOK' /\ MutexHeld' /\ BadAfterStop'
  BY <1>1 DEF RpcInv, TypeOK, MutexHeld, BadAfterStop
<1>3. AllMessages' = AllMessages /\ Held' = Held
  BY <1>1 DEF AllMessages, Held
<1>4. OneCallAtATime' /\ CallsNumbered' /\ OwnersRegistered' /\ SomebodyAwake'
  BY <1>1, <1>3 DEF RpcInv, OneCallAtATime, CallsNumbered, OwnersRegistered, SomebodyAwake,
     Asleep, Idle
<1>5. MessagesFit'
  BY <1>1, <1>3 DEF RpcInv, MessagesFit, HasSent, RequestOf, AnswerTo, ProcessMap
<1>6. OneMessage'
  BY <1>1, <1>3 DEF RpcInv, OneMessage, HasSent, MessageOf
<1>7. OwnAnswers'
  BY <1>1 DEF RpcInv, OwnAnswers, OwnAnswer, ProcessMap
<1> QED
  BY <1>2, <1>4, <1>5, <1>6, <1>7 DEF RpcInv

\* The inductive invariant, for every number of threads, every choice of the calls they
\* make and every bound on the calls.
THEOREM RpcInvariant == Spec => []RpcInv
<1>1. Init => RpcInv
  BY InitInv
<1>2. RpcInv /\ [Next]_vars => RpcInv'
  <2> SUFFICES ASSUME RpcInv, [Next]_vars PROVE RpcInv'
    OBVIOUS
  <2>1. ASSUME NEW t \in Threads, ThreadStep(t) PROVE RpcInv'
    BY <2>1, SendKeeps, SendThrowsKeeps, ReceiveKeeps, ReceiveThrowsKeeps, LockReadKeeps,
       GetPendingKeeps, ReadMessageKeeps, ReadThrowsKeeps, FinishKeeps, HandOverKeeps,
       WakeKeeps DEF ThreadStep
  <2>2. ASSUME NEW t \in Threads, NEW m \in Methods[client][t], Call(t, m) PROVE RpcInv'
    BY <2>2, CallKeeps
  <2>3. CASE ServerStep
    BY <2>3, ProcessKeeps DEF ServerStep
  <2>4. CASE Break
    BY <2>4, BreakKeeps
  <2>5. CASE Connect
    BY <2>5, ConnectKeeps
  <2>6. CASE UNCHANGED vars
    BY <2>6, StutterKeeps
  <2> QED
    BY <2>1, <2>2, <2>3, <2>4, <2>5, <2>6 DEF Next
<1> QED
  BY <1>1, <1>2, PTL DEF Spec

\* A call returns what the handler made of its own request, however the threads take
\* turns at the connection.
THEOREM OwnAnswersAlways == Spec => []OwnAnswers
<1>1. RpcInv => OwnAnswers
  BY DEF RpcInv
<1>2. Spec => []RpcInv
  BY RpcInvariant
<1> QED
  BY <1>1, <1>2, PTL


\* The size of a set in which any two members are the same.
LEMMA AtMostOne ==
  ASSUME NEW S, \A x, y \in S : x = y
  PROVE  Cardinality(S) = IF S = {} THEN 0 ELSE 1
<1>1. CASE S = {}
  BY <1>1, FS_EmptySet
<1>2. CASE S # {}
  <2>1. PICK x \in S : S = {x}
    BY <1>2
  <2> QED
    BY <1>2, <2>1, FS_Singleton
<1> QED
  BY <1>1, <1>2

\* While the server runs, the message of a call that has been sent is in one place.
LEMMA InOnePlace ==
  ASSUME RpcInv, NEW t \in Threads, link = "open", HasSent(t),
         NEW o, o = {k \in DOMAIN out : out[k].body = t},
         NEW i, i = {k \in DOMAIN in : in[k].body = t},
         NEW g, g = {u \in Threads : got[u] # NoMessage /\ got[u].body = t}
  PROVE  Cardinality(o) + Cardinality(i) + Cardinality(g)
           + (IF sync.pending # NoMessage /\ sync.pending.body = t THEN 1 ELSE 0) = 1
<1>1. Once(out) /\ Once(in) /\ MutexHeld /\ OneMessage
  BY DEF RpcInv, OneMessage
<1>2. /\ \A k, l \in o : k = l
      /\ \A k, l \in i : k = l
      /\ \A u, v \in g : u = v
  BY <1>1 DEF Once, MutexHeld
<1>3. PICK p \in BOOLEAN : p <=> sync.pending # NoMessage /\ sync.pending.body = t
  OBVIOUS
<1>4. o # {} <=> \E m \in ToSet(out) : m.body = t
  BY DEF ToSet
<1>5. i # {} <=> \E m \in ToSet(in) : m.body = t
  BY DEF ToSet
<1>6. (g # {} \/ p) <=> \E m \in Held : m.body = t
  BY <1>3 DEF Held
<1>7. o # {} \/ i # {} \/ g # {} \/ p
  BY <1>1, <1>4, <1>5, <1>6 DEF OneMessage, MessageOf, AllMessages
<1>8. ~(o # {} /\ i # {}) /\ ~(o # {} /\ (g # {} \/ p)) /\ ~(i # {} /\ (g # {} \/ p))
  BY <1>1, <1>4, <1>5, <1>6 DEF OneMessage
<1>9. ~(g # {} /\ p)
  BY <1>1, <1>3 DEF MutexHeld
<1>10. /\ Cardinality(o) = IF o = {} THEN 0 ELSE 1
       /\ Cardinality(i) = IF i = {} THEN 0 ELSE 1
       /\ Cardinality(g) = IF g = {} THEN 0 ELSE 1
  BY <1>2, AtMostOne
<1> QED
  BY <1>3, <1>7, <1>8, <1>9, <1>10

\* No thread waits in vain.
LEMMA ForgetsNobody ==
  ASSUME RpcInv
  PROVE  NobodyForgotten
<1> DEFINE ofCall(t, m) == m # NoMessage /\ m.seqid = seq[t] /\ m.body = t
           onWire(t) == Cardinality({k \in DOMAIN out : ofCall(t, out[k])})
                          + Cardinality({k \in DOMAIN in : ofCall(t, in[k])})
           held(t) == Cardinality({u \in Threads : ofCall(t, got[u])})
                        + (IF ofCall(t, sync.pending) THEN 1 ELSE 0)
<1>1. TypeOK
  BY DEF RpcInv
<1>2. ASSUME NEW t \in Threads, link = "open", HasSent(t)
      PROVE  onWire(t) + held(t) = 1
  <2>1. \A m \in AllMessages : (ofCall(t, m) <=> m.body = t)
    BY <1>1, <1>2, PartsTyped DEF RpcInv, MessagesFit
  <2>2. /\ \A k \in DOMAIN out : out[k] \in AllMessages
        /\ \A k \in DOMAIN in : in[k] \in AllMessages
        /\ \A u \in Threads : got[u] # NoMessage => got[u] \in AllMessages
        /\ sync.pending # NoMessage => sync.pending \in AllMessages
    BY DEF AllMessages, ToSet, Held
  <2>3. PICK o : o = {k \in DOMAIN out : out[k].body = t}
    OBVIOUS
  <2>4. PICK i : i = {k \in DOMAIN in : in[k].body = t}
    OBVIOUS
  <2>5. PICK g : g = {u \in Threads : got[u] # NoMessage /\ got[u].body = t}
    OBVIOUS
  <2>6. /\ {k \in DOMAIN out : ofCall(t, out[k])} = o
        /\ {k \in DOMAIN in : ofCall(t, in[k])} = i
        /\ {u \in Threads : ofCall(t, got[u])} = g
        /\ ofCall(t, sync.pending) <=> sync.pending # NoMessage /\ sync.pending.body = t
    <3>1. \A k \in DOMAIN out : ofCall(t, out[k]) <=> out[k].body = t
      BY <2>1, <2>2, Zenon
    <3>2. \A k \in DOMAIN in : ofCall(t, in[k]) <=> in[k].body = t
      BY <2>1, <2>2, Zenon
    <3>3. \A u \in Threads : ofCall(t, got[u]) <=> got[u] # NoMessage /\ got[u].body = t
      BY <2>1, <2>2, Zenon
    <3>4. ofCall(t, sync.pending) <=> sync.pending # NoMessage /\ sync.pending.body = t
      BY <2>1, <2>2, Zenon
    <3> HIDE DEF ofCall
    <3> QED
      BY <2>3, <2>4, <2>5, <3>1, <3>2, <3>3, <3>4
  <2>7. Cardinality(o) + Cardinality(i) + Cardinality(g)
          + (IF sync.pending # NoMessage /\ sync.pending.body = t THEN 1 ELSE 0) = 1
    BY <1>2, <2>3, <2>4, <2>5, InOnePlace
  <2>8. /\ Cardinality(o) \in Nat /\ Cardinality(i) \in Nat /\ Cardinality(g) \in Nat
    <3>1. \A k, l \in o : k = l
      BY <2>3 DEF RpcInv, OneMessage, Once
    <3>2. \A k, l \in i : k = l
      BY <2>4 DEF RpcInv, OneMessage, Once
    <3>3. \A k, l \in g : k = l
      BY <2>5 DEF RpcInv, MutexHeld
    <3> QED
      BY <3>1, <3>2, <3>3, AtMostOne
  <2>9. PICK p \in {0, 1} :
          /\ p = IF ofCall(t, sync.pending) THEN 1 ELSE 0
          /\ p = IF sync.pending # NoMessage /\ sync.pending.body = t THEN 1 ELSE 0
    BY <2>6
  <2>10. onWire(t) = Cardinality(o) + Cardinality(i) /\ held(t) = Cardinality(g) + p
    BY <2>6, <2>9, Zenon
  <2>11. Cardinality(o) + Cardinality(i) + Cardinality(g) + p = 1
    BY <2>7, <2>9
  <2> HIDE DEF onWire, held
  <2> QED
    BY <2>8, <2>10, <2>11
<1>3. ASSUME NEW t \in Threads, Asleep(t)
      PROVE  /\ ~sync.stop /\ ~ofCall(t, sync.pending)
             /\ \E u \in sync.registered : ~Asleep(u)
  <2>1. ~sync.stop /\ (sync.pending = NoMessage \/ sync.pending.body # t)
    BY <1>3 DEF RpcInv, SomebodyAwake
  <2>2. client = "concurrent"
    BY <1>1, <1>3 DEF RpcInv, TypeOK, OneCallAtATime, Idle, Asleep
  <2>3. t \in sync.registered
    BY <1>3, <2>2 DEF RpcInv, CallsNumbered, Idle, Asleep
  <2>4. \E u \in sync.registered : ~Asleep(u)
    BY <2>1, <2>3 DEF RpcInv, SomebodyAwake, Asleep
  <2> QED
    BY <2>1, <2>4
<1> QED
  BY <1>2, <1>3 DEF NobodyForgotten, HasSent, Asleep

THEOREM NobodyForgottenAlways == Spec => []NobodyForgotten
<1>1. RpcInv => NobodyForgotten
  BY ForgetsNobody
<1>2. Spec => []RpcInv
  BY RpcInvariant
<1> QED
  BY <1>1, <1>2, PTL
=============================================================================
