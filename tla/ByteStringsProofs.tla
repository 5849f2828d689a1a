------------------------- MODULE ByteStringsProofs --------------------------
(***************************************************************************)
(* Byte strings and the numbers they stand for, of whatever length: what a *)
(* recursive definition counts up is what any chain of the same steps      *)
(* counts up, a word reads back as the number it was made from, and a      *)
(* number is written as the word it was read from.                         *)
(***************************************************************************)
EXTENDS ByteStrings, SequenceTheorems, WellFoundedInduction, TLAPS

\* A byte is a natural number.
LEMMA ByteRange ==
    ASSUME NEW c \in Byte
    PROVE  c \in Nat /\ c <= 255
BY DEF Byte

-----------------------------------------------------------------------------
(* Counting up                                                             *)

\* What some natural number does, a least one does.
LEMMA LeastOf ==
    ASSUME NEW T, T \subseteq Nat, T # {}
    PROVE  \E n \in T : \A m \in T : n <= m
<1>1. PICK n \in T : \A m \in T : ~(<<m, n>> \in OpToRel(<, Nat))
  BY WFMin, NatLessThanWellFounded
<1>2. ASSUME NEW m \in T PROVE n <= m
  <2>1. n \in Nat /\ m \in Nat
    OBVIOUS
  <2>2. ~(m < n)
    BY <1>1, <2>1 DEF OpToRel
  <2> QED BY <2>1, <2>2
<1> QED BY <1>2

\* The first n steps from a by g.
Steps(S, a, g, n) ==
    {h \in [0..n -> S] : h[0] = a /\ \A k \in 0..n - 1 : h[k + 1] = g[<<k, h[k]>>]}

LEMMA StepsExist ==
    ASSUME NEW S, NEW a \in S, NEW g \in [Nat \X S -> S], NEW n \in Nat
    PROVE  Steps(S, a, g, n) # {}
<1> DEFINE T == {m \in Nat : Steps(S, a, g, m) = {}}
<1>1. ASSUME T # {} PROVE FALSE
  <2>1. T \subseteq Nat
    OBVIOUS
  <2>2. PICK m \in T : \A i \in T : m <= i
    <3> HIDE DEF T
    <3> QED BY <1>1, <2>1, LeastOf
  <2>3. m # 0
    <3> DEFINE h == [k \in 0..0 |-> a]
    <3>1. h \in Steps(S, a, g, 0)
      BY DEF Steps
    <3> HIDE DEF h
    <3> QED BY <3>1
  <2>4. m - 1 \in Nat /\ m - 1 \notin T
    BY <2>2, <2>3
  <2>5. PICK h \in Steps(S, a, g, m - 1) : TRUE
    BY <2>4
  <2> DEFINE i == [k \in 0..m |-> IF k = m THEN g[<<m - 1, h[m - 1]>>] ELSE h[k]]
  <2>6. h \in [0..m - 1 -> S] /\ h[0] = a /\ \A k \in 0..(m - 1) - 1 : h[k + 1] = g[<<k, h[k]>>]
    BY <2>5 DEF Steps
  <2>7. g[<<m - 1, h[m - 1]>>] \in S
    <3>1. h[m - 1] \in S
      BY <2>4, <2>6
    <3> QED BY <2>4, <3>1
  <2>8. i \in [0..m -> S]
    BY <2>4, <2>6, <2>7
  <2>9. i[0] = a
    BY <2>3, <2>6
  <2>10. ASSUME NEW k \in 0..m - 1 PROVE i[k + 1] = g[<<k, i[k]>>]
    <3>1. i[k] = h[k] /\ k \in 0..m - 1
      BY <2>4
    <3>2. CASE k = m - 1
      BY <2>4, <3>1, <3>2
    <3>3. CASE k # m - 1
      <4>1. k \in 0..(m - 1) - 1 /\ i[k + 1] = h[k + 1]
        BY <2>4, <3>3
      <4> QED BY <2>6, <3>1, <4>1
    <3> QED BY <3>2, <3>3
  <2>11. i \in Steps(S, a, g, m)
    <3> HIDE DEF i
    <3> QED BY <2>8, <2>9, <2>10 DEF Steps
  <2> QED BY <2>11
<1> QED BY <1>1

\* Two chains of the same steps are the same as far as both go.
LEMMA StepsAgree ==
    ASSUME NEW S, NEW a, NEW g, NEW n \in Nat, NEW m \in Nat, n <= m,
           NEW h \in Steps(S, a, g, n), NEW i \in Steps(S, a, g, m)
    PROVE  \A k \in 0..n : h[k] = i[k]
<1> DEFINE T == {k \in 0..n : h[k] # i[k]}
<1>1. ASSUME T # {} PROVE FALSE
  <2>1. T \subseteq Nat
    OBVIOUS
  <2>2. PICK k \in T : \A j \in T : k <= j
    <3> HIDE DEF T
    <3> QED BY <1>1, <2>1, LeastOf
  <2>3. k # 0
    BY DEF Steps
  <2>4. k - 1 \in 0..n - 1 /\ k - 1 \in 0..m - 1 /\ k - 1 \in 0..n /\ k - 1 \notin T
    BY <2>2, <2>3
  <2>5. h[k - 1] = i[k - 1]
    BY <2>4
  <2>6. h[(k - 1) + 1] = i[(k - 1) + 1]
    BY <2>4, <2>5 DEF Steps
  <2>7. (k - 1) + 1 = k
    OBVIOUS
  <2> QED BY <2>6, <2>7
<1> QED BY <1>1

\* A chain of such steps that never ends.
Chain(S, a, g, f) ==
    f \in [Nat -> S] /\ f[0] = a /\ \A n \in Nat : f[n + 1] = g[<<n, f[n]>>]

\* Recursion: from a, step by step, there is always a next value.
LEMMA Recursion ==
    ASSUME NEW S, NEW a \in S, NEW g \in [Nat \X S -> S]
    PROVE  \E f : Chain(S, a, g, f)
<1> DEFINE far == [n \in Nat |-> CHOOSE h : h \in Steps(S, a, g, n)]
           f == [n \in Nat |-> far[n][n]]
<1>1. ASSUME NEW n \in Nat PROVE far[n] \in Steps(S, a, g, n)
  BY StepsExist
<1> HIDE DEF far
<1>2. ASSUME NEW n \in Nat PROVE f[n] \in S
  BY <1>1 DEF Steps
<1>3. f[0] = a
  BY <1>1 DEF Steps
<1>4. ASSUME NEW n \in Nat PROVE f[n + 1] = g[<<n, f[n]>>]
  <2>1. far[n + 1] \in Steps(S, a, g, n + 1) /\ far[n] \in Steps(S, a, g, n)
    BY <1>1
  <2>2. far[n][n] = far[n + 1][n]
    BY <2>1, StepsAgree
  <2>3. n \in 0..(n + 1) - 1
    OBVIOUS
  <2>4. far[n + 1][n + 1] = g[<<n, far[n + 1][n]>>]
    BY <2>1, <2>3 DEF Steps
  <2> QED BY <2>2, <2>4
<1> HIDE DEF f
<1>5. f \in [Nat -> S]
  BY <1>2 DEF f
<1> QED BY <1>3, <1>4, <1>5 DEF Chain

\* g makes a value from what it is given for whatever measures less.
Contracts(D, S, m, g) ==
    /\ m \in [D -> Nat]
    /\ g \in [[D -> S] -> [D -> S]]
    /\ \A r, q \in [D -> S] : \A d \in D :
         (\A e \in D : m[e] < m[d] => r[e] = q[e]) => g[r][d] = g[q][d]

Fixed(D, S, g) == \E f \in [D -> S] : f = g[f]

\* What is defined from its values at whatever measures less is defined.
LEMMA MeasuredRecursion ==
    ASSUME NEW D, NEW S, NEW a \in S, NEW m, NEW g, Contracts(D, S, m, g)
    PROVE  Fixed(D, S, g)
<1>0. \A r, q \in [D -> S] : \A d \in D :
        (\A e \in D : m[e] < m[d] => r[e] = q[e]) => g[r][d] = g[q][d]
  BY DEF Contracts
<1>10. m \in [D -> Nat] /\ g \in [[D -> S] -> [D -> S]]
  BY DEF Contracts
<1> USE <1>10
<1> DEFINE F == [D -> S]
           next == [p \in Nat \X F |-> g[p[2]]]
<1>1. PICK h : Chain(F, [d \in D |-> a], next, h)
  <2>1. next \in [Nat \X F -> F] /\ [d \in D |-> a] \in F
    OBVIOUS
  <2> HIDE DEF next, F
  <2> QED BY <2>1, Recursion
<1>2. /\ h \in [Nat -> F]
      /\ \A n \in Nat : h[n + 1] = g[h[n]]
  <2>1. h \in [Nat -> F] /\ \A n \in Nat : h[n + 1] = next[<<n, h[n]>>]
    <3> HIDE DEF next, F
    <3> QED BY <1>1 DEF Chain
  <2> QED BY <2>1
\* From its measure on, a value stays as it is.
<1> DEFINE T == {k \in Nat : \E d \in D : m[d] < k /\ h[k + 1][d] # h[k][d]}
<1>3. ASSUME T # {} PROVE FALSE
  <2>1. T \subseteq Nat
    OBVIOUS
  <2>2. PICK k \in T : \A i \in T : k <= i
    <3> HIDE DEF T
    <3> QED BY <1>3, <2>1, LeastOf
  <2>3. PICK d \in D : m[d] < k /\ h[k + 1][d] # h[k][d]
    OBVIOUS
  <2>4. PICK j \in Nat : k = j + 1 /\ m[d] <= j /\ j \notin T
    <3>1. k \in Nat /\ m[d] \in Nat
      OBVIOUS
    <3>2. k - 1 \in Nat /\ k = (k - 1) + 1 /\ m[d] <= k - 1 /\ ~(k <= k - 1)
      BY <2>3, <3>1
    <3> QED BY <2>2, <3>2
  <2>5. \A e \in D : m[e] < m[d] => h[j + 1][e] = h[j][e]
    <3> SUFFICES ASSUME NEW e \in D, m[e] < m[d] PROVE h[j + 1][e] = h[j][e]
      OBVIOUS
    <3>1. m[e] < j
      BY <2>4
    <3> QED BY <2>4, <3>1
  <2>6. h[k + 1] = g[h[k]] /\ h[k] = g[h[j]] /\ h[k] \in F /\ h[j] \in F
    BY <1>2, <2>4
  <2>7. \A e \in D : m[e] < m[d] => h[k][e] = h[j][e]
    BY <2>4, <2>5
  <2>8. g[h[k]][d] = g[h[j]][d]
    <3> HIDE DEF T
    <3> QED BY <1>0, <2>6, <2>7
  <2> QED BY <2>3, <2>6, <2>8
<1> HIDE DEF T
<1>4. ASSUME NEW k \in Nat, NEW d \in D, m[d] < k
      PROVE  h[k + 1][d] = h[k][d]
  BY <1>3, <1>4 DEF T
<1> DEFINE U == {k \in Nat : \E d \in D : m[d] < k /\ h[k][d] # h[m[d] + 1][d]}
<1>5. ASSUME U # {} PROVE FALSE
  <2>1. U \subseteq Nat
    OBVIOUS
  <2>2. PICK k \in U : \A i \in U : k <= i
    <3> HIDE DEF U
    <3> QED BY <1>5, <2>1, LeastOf
  <2>3. PICK d \in D : m[d] < k /\ h[k][d] # h[m[d] + 1][d]
    OBVIOUS
  <2>4. PICK j \in Nat : k = j + 1 /\ m[d] < j /\ j \notin U
    <3>1. k \in Nat /\ m[d] \in Nat /\ k # m[d] + 1
      BY <2>3
    <3>2. k - 1 \in Nat /\ k = (k - 1) + 1 /\ m[d] < k - 1 /\ ~(k <= k - 1)
      BY <2>3, <3>1
    <3> QED BY <2>2, <3>2
  <2>5. h[j][d] = h[m[d] + 1][d]
    BY <2>4
  <2>6. h[j + 1][d] = h[j][d]
    BY <1>4, <2>4
  <2> QED BY <2>3, <2>4, <2>5, <2>6
<1> HIDE DEF U
<1>6. ASSUME NEW k \in Nat, NEW d \in D, m[d] < k
      PROVE  h[k][d] = h[m[d] + 1][d]
  BY <1>5, <1>6 DEF U
<1> DEFINE f == [d \in D |-> h[m[d] + 1][d]]
<1>7. f \in F
  BY <1>2
<1>8. ASSUME NEW d \in D PROVE f[d] = g[f][d]
  <2>1. PICK n \in Nat : n = m[d]
    OBVIOUS
  <2>2. f[d] = g[h[n]][d] /\ h[n] \in F
    BY <1>2, <2>1
  <2>3. \A e \in D : m[e] < m[d] => f[e] = h[n][e]
    BY <1>6, <2>1
  <2> HIDE DEF f
  <2> QED BY <1>7, <2>1, <2>2, <2>3, <1>0
<1> HIDE DEF f
<1>9. g[f] \in F
  BY <1>7
<1> QED BY <1>7, <1>8, <1>9 DEF Fixed

-----------------------------------------------------------------------------
(* Numbers                                                                 *)

\* The numbers that the first bytes of b stand for, one by one.
Reads(b, v) ==
    /\ v \in [0..Len(b) -> Nat]
    /\ v[0] = 0
    /\ \A k \in 1..Len(b) : v[k] = 256 * v[k - 1] + b[k]

LEMMA ReadsExists ==
    ASSUME NEW b \in Seq(Byte)
    PROVE  \E v : Reads(b, v)
<1> DEFINE g == [p \in Nat \X Nat |->
                   256 * p[2] + IF p[1] + 1 \in DOMAIN b THEN b[p[1] + 1] ELSE 0]
<1>1. g \in [Nat \X Nat -> Nat]
  <2>1. SUFFICES ASSUME NEW p \in Nat \X Nat
                 PROVE  256 * p[2] + (IF p[1] + 1 \in DOMAIN b THEN b[p[1] + 1] ELSE 0) \in Nat
    OBVIOUS
  <2>2. CASE p[1] + 1 \in DOMAIN b
    <3>1. b[p[1] + 1] \in Nat
      BY <2>2, ByteRange
    <3> QED BY <2>2, <3>1
  <2>3. CASE p[1] + 1 \notin DOMAIN b
    BY <2>3
  <2> QED BY <2>2, <2>3
<1>2. PICK f : Chain(Nat, 0, g, f)
  <2> HIDE DEF g
  <2>1. 0 \in Nat
    OBVIOUS
  <2> QED BY <1>1, <2>1, Recursion
<1> DEFINE v == [k \in 0..Len(b) |-> f[k]]
<1>3. ASSUME NEW k \in 1..Len(b)
      PROVE  v[k] = 256 * v[k - 1] + b[k]
  <2>1. k - 1 \in Nat /\ (k - 1) + 1 = k /\ k \in DOMAIN b
    OBVIOUS
  <2>2. f[(k - 1) + 1] = g[<<k - 1, f[k - 1]>>] /\ f \in [Nat -> Nat]
    <3> HIDE DEF g
    <3> QED BY <1>2, <2>1 DEF Chain
  <2>3. f[k - 1] \in Nat
    BY <2>1, <2>2
  <2>4. g[<<k - 1, f[k - 1]>>] = 256 * f[k - 1] + b[k]
    BY <2>1, <2>3
  <2>5. f[(k - 1) + 1] = 256 * f[k - 1] + b[k]
    <3> HIDE DEF g
    <3> QED BY <2>2, <2>4
  <2> QED BY <2>1, <2>5
<1>4. v \in [0..Len(b) -> Nat] /\ v[0] = 0
  BY <1>2 DEF Chain
<1>5. Reads(b, v)
  <2> HIDE DEF v
  <2> QED BY <1>3, <1>4 DEF Reads
<1> QED BY <1>5

\* What the recursion of BigEndian defines, and whatever else reads b that way.
LEMMA BigEndianIs ==
    ASSUME NEW b \in Seq(Byte), NEW v, Reads(b, v)
    PROVE  BigEndian(b) = v[Len(b)]
<1> DEFINE Step(r) == [k \in 0..Len(b) |-> IF k = 0 THEN 0 ELSE 256 * r[k - 1] + b[k]]
           read == CHOOSE r : r = Step(r)
<1>1. v = Step(v)
  BY DEF Reads
<1>2. read = Step(read)
  <2> HIDE DEF Step
  <2> QED BY <1>1
<1>3. BigEndian(b) = read[Len(b)]
  BY DEF BigEndian
<1> DEFINE T == {k \in 0..Len(b) : read[k] # v[k]}
<1>4. ASSUME T # {} PROVE FALSE
  <2>1. T \subseteq Nat
    OBVIOUS
  <2>2. PICK k \in T : \A j \in T : k <= j
    <3> HIDE DEF T
    <3> QED BY <1>4, <2>1, LeastOf
  <2> HIDE DEF read
  <2>3. k \in 0..Len(b) /\ read[k] # v[k]
    OBVIOUS
  <2>4. read[k] = Step(read)[k] /\ v[k] = Step(v)[k]
    <3> HIDE DEF Step
    <3> QED BY <1>1, <1>2
  <2>5. k # 0
    BY <2>3, <2>4
  <2>6. read[k - 1] = v[k - 1]
    BY <2>2, <2>5
  <2> QED BY <2>3, <2>4, <2>6
<1> HIDE DEF read
<1> QED BY <1>3, <1>4

\* The length a prefix announces is a natural number, whatever the slice it is read from.
LEMMA BigEndianNat ==
    ASSUME NEW b \in Seq(Byte)
    PROVE  BigEndian(b) \in Nat
<1>1. PICK v : Reads(b, v)
  BY ReadsExists
<1> QED BY <1>1, BigEndianIs DEF Reads

LEMMA PowerIs ==
    /\ Power[0] = 1
    /\ \A k \in Nat : Power[k] \in Nat \ {0} /\ Power[k + 1] = 256 * Power[k]
<1> DEFINE g == [p \in Nat \X Nat |-> 256 * p[2]]
           Step(r) == [k \in Nat |-> IF k = 0 THEN 1 ELSE 256 * r[k - 1]]
<1>1. g \in [Nat \X Nat -> Nat] /\ 1 \in Nat
  OBVIOUS
<1>2. PICK f : Chain(Nat, 1, g, f)
  <2> HIDE DEF g
  <2> QED BY <1>1, Recursion
<1>3. f[0] = 1 /\ f \in [Nat -> Nat] /\ \A n \in Nat : f[n + 1] = 256 * f[n]
  BY <1>2 DEF Chain
<1>4. f = Step(f)
  <2>1. ASSUME NEW k \in Nat, k # 0 PROVE f[k] = 256 * f[k - 1]
    <3>1. k - 1 \in Nat /\ (k - 1) + 1 = k
      BY <2>1
    <3>2. f[(k - 1) + 1] = 256 * f[k - 1]
      BY <1>3, <3>1
    <3> QED BY <3>1, <3>2
  <2> QED BY <1>3, <2>1
<1>5. Power = Step(Power)
  <2>1. Power = CHOOSE r : r = Step(r)
    BY DEF Power
  <2> HIDE DEF Step
  <2> QED BY <1>4, <2>1
<1>6. Power[0] = 1 /\ \A k \in Nat : Power[k + 1] = 256 * Power[k]
  <2>1. \A k \in Nat : Power[k] = IF k = 0 THEN 1 ELSE 256 * Power[k - 1]
    BY <1>5
  <2> QED BY <2>1
<1> DEFINE T == {k \in Nat : Power[k] \notin Nat \ {0}}
<1>7. ASSUME T # {} PROVE FALSE
  <2>1. T \subseteq Nat
    OBVIOUS
  <2>2. PICK k \in T : \A j \in T : k <= j
    <3> HIDE DEF T
    <3> QED BY <1>7, <2>1, LeastOf
  <2>3. k # 0
    BY <1>6
  <2>4. k - 1 \in Nat /\ (k - 1) + 1 = k /\ Power[k - 1] \in Nat \ {0}
    BY <2>2, <2>3
  <2>5. Power[(k - 1) + 1] = 256 * Power[k - 1]
    BY <1>6, <2>4
  <2> QED BY <2>4, <2>5
<1> QED BY <1>6, <1>7

\* A quotient is determined by its remainder's range.
LEMMA Quotient ==
    ASSUME NEW n \in Nat, NEW d \in Nat \ {0}, NEW q \in Nat, NEW r \in 0..d - 1,
           n = d * q + r
    PROVE  n \div d = q
OBVIOUS

\* The last byte of a number, and the others.
LEMMA LastByte ==
    ASSUME NEW x \in Nat, NEW c \in Byte
    PROVE  (256 * x + c) \div 256 = x /\ (256 * x + c) % 256 = c
BY DEF Byte

\* A byte less, and another one.
LEMMA ShiftShift ==
    ASSUME NEW n \in Nat, NEW k \in Nat
    PROVE  n \div Power[k + 1] = (n \div Power[k]) \div 256 /\ n \div Power[k] \in Nat
<1>1. PICK d \in Nat \ {0} : d = Power[k] /\ Power[k + 1] = 256 * d
  BY PowerIs
<1> DEFINE q == n \div d
           r == n % d
           s == q \div 256
           t == q % 256
<1>2. q \in Nat /\ r \in 0..d - 1 /\ n = d * q + r
  OBVIOUS
<1>3. s \in Nat /\ t \in 0..255 /\ q = 256 * s + t
  BY <1>2
<1> HIDE DEF q, r, s, t
<1>4. PICK u \in Nat : u = d * t /\ u <= d * 255
  BY <1>3
<1>5. n = 256 * d * s + (u + r)
  BY <1>2, <1>3, <1>4
<1>6. u + r \in 0..256 * d - 1
  BY <1>2, <1>4
<1>7. n \div (256 * d) = s
  BY <1>3, <1>5, <1>6, Quotient
<1> QED BY <1>1, <1>2, <1>7 DEF q, s

\* The first bytes stand for what is left when the others are dropped.
LEMMA ReadsShift ==
    ASSUME NEW b \in Seq(Byte), NEW v, Reads(b, v), NEW k \in 0..Len(b)
    PROVE  v[Len(b)] \div Power[Len(b) - k] = v[k]
<1> DEFINE L == Len(b)
           T == {m \in 0..L : v[L] \div Power[m] # v[L - m]}
<1>0. L \in Nat /\ v \in [0..L -> Nat]
  BY DEF Reads
<1>1. ASSUME T # {} PROVE FALSE
  <2>1. T \subseteq Nat
    OBVIOUS
  <2>2. PICK m \in T : \A j \in T : m <= j
    <3> HIDE DEF T
    <3> QED BY <1>1, <2>1, LeastOf
  <2>3. m \in 0..L /\ v[L] \div Power[m] # v[L - m]
    OBVIOUS
  <2>4. m # 0
    <3>1. v[L] \div 1 = v[L] /\ L - 0 = L
      BY <1>0
    <3> QED BY <2>3, <3>1, PowerIs
  <2>5. PICK j \in 0..L - 1 : m = j + 1
    BY <1>0, <2>3, <2>4
  <2>6. v[L] \div Power[j] = v[L - j]
    BY <1>0, <2>2, <2>5
  <2>7. L - j \in 1..L /\ (L - j) - 1 = L - m
    BY <1>0, <2>5
  <2>8. v[L - j] = 256 * v[L - m] + b[L - j]
    BY <2>7 DEF Reads
  <2>9. v[L - m] \in Nat /\ v[L] \in Nat /\ j \in Nat
    BY <1>0, <2>3
  <2>10. v[L - j] \div 256 = v[L - m]
    <3>1. PICK c \in Byte : c = b[L - j]
      BY <2>7
    <3>2. PICK x \in Nat : x = v[L - m]
      BY <2>9
    <3>3. (256 * x + c) \div 256 = x
      BY LastByte
    <3> QED BY <2>8, <3>1, <3>2, <3>3
  <2>11. v[L] \div Power[j + 1] = (v[L] \div Power[j]) \div 256
    BY <2>9, ShiftShift
  <2> QED BY <2>3, <2>5, <2>6, <2>10, <2>11
<1>2. L - k \in 0..L /\ L - (L - k) = k
  BY <1>0
<1> QED BY <1>1, <1>2

\* A number is written as the bytes it was read from: byte k of b is the last byte of what
\* is left when the bytes behind it are dropped.
LEMMA WrittenAsRead ==
    ASSUME NEW b \in Seq(Byte), NEW k \in 1..Len(b)
    PROVE  (BigEndian(b) \div Power[Len(b) - k]) % 256 = b[k]
<1>1. PICK v : Reads(b, v)
  BY ReadsExists
<1>2. BigEndian(b) \div Power[Len(b) - k] = v[k]
  <2>1. k \in 0..Len(b)
    OBVIOUS
  <2> QED BY <1>1, <2>1, BigEndianIs, ReadsShift
<1>3. v[k] = 256 * v[k - 1] + b[k]
  BY <1>1 DEF Reads
<1>4. v[k] % 256 = b[k]
  <2>1. PICK x \in Nat : x = v[k - 1]
    BY <1>1 DEF Reads
  <2>2. PICK c \in Byte : c = b[k]
    OBVIOUS
  <2>3. (256 * x + c) % 256 = c
    BY LastByte
  <2> QED BY <1>3, <2>1, <2>2, <2>3
<1> QED BY <1>2, <1>4

\* A number that fits reads back from the bytes it is written as.
LEMMA ReadAsWritten ==
    ASSUME NEW b \in Seq(Byte), NEW n \in 0..Power[Len(b)] - 1,
           \A k \in 1..Len(b) : b[k] = (n \div Power[Len(b) - k]) % 256
    PROVE  BigEndian(b) = n
<1> DEFINE L == Len(b)
           v == [k \in 0..L |-> n \div Power[L - k]]
<1>0. L \in Nat /\ n \in Nat /\ n < Power[L]
  <2>1. L \in Nat
    OBVIOUS
  <2>2. Power[L] \in Nat
    BY <2>1, PowerIs
  <2> QED BY <2>1, <2>2
<1>1. ASSUME NEW k \in 0..L PROVE v[k] \in Nat
  <2>1. L - k \in Nat
    BY <1>0
  <2> QED BY <1>0, <2>1, ShiftShift
<1>2. v[0] = 0
  <2>1. Power[L] \in Nat \ {0} /\ L - 0 = L
    BY <1>0, PowerIs
  <2> QED BY <1>0, <2>1
<1>3. ASSUME NEW k \in 1..L PROVE v[k] = 256 * v[k - 1] + b[k]
  <2>1. L - k \in Nat /\ L - (k - 1) = (L - k) + 1 /\ k - 1 \in 0..L /\ k \in 0..L
    BY <1>0
  <2>2. v[k - 1] = (n \div Power[L - k]) \div 256
    BY <1>0, <2>1, ShiftShift
  <2>3. b[k] = (n \div Power[L - k]) % 256
    OBVIOUS
  <2>4. PICK q \in Nat : q = n \div Power[L - k]
    BY <1>1, <2>1
  <2>5. q = 256 * (q \div 256) + (q % 256)
    OBVIOUS
  <2>6. v[k] = q
    BY <2>1, <2>4
  <2> HIDE DEF v
  <2> QED BY <2>2, <2>3, <2>4, <2>5, <2>6
<1>4. Reads(b, v)
  <2>1. v \in [0..L -> Nat]
    BY <1>1
  <2> HIDE DEF v
  <2> QED BY <1>2, <1>3, <2>1 DEF Reads
<1>5. v[L] = n
  <2>1. L - L = 0 /\ n \div 1 = n /\ L \in 0..L
    BY <1>0
  <2> QED BY <2>1, PowerIs
<1> HIDE DEF v
<1> QED BY <1>4, <1>5, BigEndianIs

\* A slice of a byte string is one, so the length it holds is a natural number.
LEMMA LengthNat ==
    ASSUME NEW b \in Seq(Byte), NEW from \in Nat, NEW to \in Nat
    PROVE  BigEndian(Slice(b, from, to)) \in Nat
<1>1. Slice(b, from, to) \in Seq(Byte)
  BY DEF Slice
<1> QED BY <1>1, BigEndianNat

-----------------------------------------------------------------------------
(* Slices                                                                  *)

\* A slice that is there, byte by byte.
IsSlice(x, b, from, to) ==
    x \in Seq(Byte) /\ Len(x) = to - from /\ \A k \in 1..to - from : x[k] = b[from + k]

LEMMA SliceIs ==
    ASSUME NEW b \in Seq(Byte), NEW from \in Nat, NEW to \in Nat,
           from <= to, to <= Len(b)
    PROVE  IsSlice(Slice(b, from, to), b, from, to)
<1>1. Slice(b, from, to) = SubSeq(b, from + 1, to)
  BY DEF Slice
<1>2. /\ SubSeq(b, from + 1, to) \in Seq(Byte)
      /\ Len(SubSeq(b, from + 1, to)) = IF from + 1 <= to THEN to - (from + 1) + 1 ELSE 0
      /\ \A k \in 1..to - (from + 1) + 1 : SubSeq(b, from + 1, to)[k] = b[(from + 1) + k - 1]
  <2>1. \A k \in from + 1..to : b[k] \in Byte
    OBVIOUS
  <2> QED BY <2>1, SubSeqProperties
<1> QED BY <1>1, <1>2 DEF IsSlice

\* Two byte strings of one length that agree everywhere are the same.
LEMMA SameBytes ==
    ASSUME NEW b \in Seq(Byte), NEW c \in Seq(Byte), Len(b) = Len(c),
           \A k \in 1..Len(b) : b[k] = c[k]
    PROVE  b = c
OBVIOUS

\* A slice of a slice.
LEMMA SliceOfSlice ==
    ASSUME NEW b \in Seq(Byte), NEW low \in Nat, NEW from \in Nat, NEW to \in Nat,
           from <= to, low + to <= Len(b)
    PROVE  Slice(Slice(b, low, Len(b)), from, to) = Slice(b, low + from, low + to)
<1> DEFINE d == Slice(b, low, Len(b))
           f == low + from
           t == low + to
<1>1. f \in Nat /\ t \in Nat /\ f <= t /\ t <= Len(b) /\ t - f = to - from
  OBVIOUS
<1>2. low <= Len(b) /\ Len(b) \in Nat /\ from <= Len(b) - low /\ to <= Len(b) - low
  OBVIOUS
<1>3. IsSlice(d, b, low, Len(b))
  BY <1>2, SliceIs
<1> HIDE DEF d
<1>4. IsSlice(Slice(d, from, to), d, from, to)
  BY <1>2, <1>3, SliceIs DEF IsSlice
<1>5. IsSlice(Slice(b, f, t), b, f, t)
  <2> HIDE DEF f, t
  <2> QED BY <1>1, SliceIs
<1>6. \A k \in 1..to - from : d[from + k] = b[f + k]
  <2> TAKE k \in 1..to - from
  <2>1. from + k \in 1..Len(b) - low /\ low + (from + k) = f + k
    OBVIOUS
  <2> QED BY <1>3, <2>1 DEF IsSlice
<1> HIDE DEF f, t
<1>7. Slice(d, from, to) = Slice(b, f, t)
  <2>1. PICK x \in Seq(Byte) : x = Slice(d, from, to) /\ IsSlice(x, d, from, to)
    BY <1>4 DEF IsSlice
  <2>2. PICK y \in Seq(Byte) : y = Slice(b, f, t) /\ IsSlice(y, b, f, t)
    BY <1>5 DEF IsSlice
  <2>3. Len(x) = to - from /\ \A k \in 1..to - from : x[k] = d[from + k]
    BY <2>1 DEF IsSlice
  <2>4. Len(y) = to - from /\ \A k \in 1..to - from : y[k] = b[f + k]
    BY <1>1, <2>2 DEF IsSlice
  <2>5. x = y
    BY <1>6, <2>3, <2>4, SameBytes
  <2> QED BY <2>1, <2>2, <2>5
<1> QED BY <1>7 DEF d, f, t

\* Two byte strings, one behind the other.
LEMMA Joined ==
    ASSUME NEW x \in Seq(Byte), NEW y \in Seq(Byte)
    PROVE  /\ x \o y \in Seq(Byte) /\ Len(x \o y) = Len(x) + Len(y)
           /\ \A k \in 1..Len(x) + Len(y) :
                (x \o y)[k] = IF k <= Len(x) THEN x[k] ELSE y[k - Len(x)]
OBVIOUS

\* s starts with a.
Begins(s, a) == Len(a) <= Len(s) /\ \A k \in 1..Len(a) : s[k] = a[k]

\* What starts with a and c behind it starts with a, and c is in its place.
LEMMA Placed ==
    ASSUME NEW s \in Seq(Byte), NEW a \in Seq(Byte), NEW c \in Seq(Byte), Begins(s, a \o c)
    PROVE  Begins(s, a) /\ Slice(s, Len(a), Len(a) + Len(c)) = c
<1>1. /\ Len(a \o c) = Len(a) + Len(c) /\ Len(a) \in Nat /\ Len(c) \in Nat
      /\ \A k \in 1..Len(a) + Len(c) : (a \o c)[k] = IF k <= Len(a) THEN a[k] ELSE c[k - Len(a)]
  OBVIOUS
<1>2. Len(a) + Len(c) <= Len(s) /\ \A k \in 1..Len(a) + Len(c) : s[k] = (a \o c)[k]
  BY <1>1 DEF Begins
<1>3. Begins(s, a)
  BY <1>1, <1>2 DEF Begins
<1>4. ASSUME NEW k \in 1..Len(c) PROVE s[Len(a) + k] = c[k]
  <2>1. Len(a) + k \in 1..Len(a) + Len(c) /\ ~(Len(a) + k <= Len(a)) /\ (Len(a) + k) - Len(a) = k
    BY <1>1
  <2> QED BY <1>1, <1>2, <2>1
<1> DEFINE f == Len(a)
           t == Len(a) + Len(c)
<1>5. f \in Nat /\ t \in Nat /\ f <= t /\ t <= Len(s) /\ t - f = Len(c)
  BY <1>1, <1>2
<1>6. \A k \in 1..Len(c) : s[f + k] = c[k]
  BY <1>4
<1> HIDE DEF f, t
<1>7. IsSlice(Slice(s, f, t), s, f, t)
  BY <1>5, SliceIs
<1>8. Slice(s, f, t) = c
  BY <1>5, <1>6, <1>7, SameBytes DEF IsSlice
<1> QED BY <1>3, <1>8 DEF f, t

\* Two slices side by side.
LEMMA SlicesJoin ==
    ASSUME NEW b \in Seq(Byte), NEW from \in Nat, NEW m \in Nat, NEW to \in Nat,
           from <= m, m <= to, to <= Len(b)
    PROVE  Slice(b, from, m) \o Slice(b, m, to) = Slice(b, from, to)
<1> DEFINE x == Slice(b, from, m)
           y == Slice(b, m, to)
           z == Slice(b, from, to)
<1>0. m <= Len(b) /\ from <= to
  OBVIOUS
<1>1. IsSlice(x, b, from, m) /\ IsSlice(y, b, m, to) /\ IsSlice(z, b, from, to)
  BY <1>0, SliceIs
<1> HIDE DEF x, y, z
<1>2. x \in Seq(Byte) /\ Len(x) = m - from /\ \A k \in 1..m - from : x[k] = b[from + k]
  BY <1>1 DEF IsSlice
<1>3. y \in Seq(Byte) /\ Len(y) = to - m /\ \A k \in 1..to - m : y[k] = b[m + k]
  BY <1>1 DEF IsSlice
<1>4. z \in Seq(Byte) /\ Len(z) = to - from /\ \A k \in 1..to - from : z[k] = b[from + k]
  BY <1>1 DEF IsSlice
<1>5. /\ x \o y \in Seq(Byte) /\ Len(x \o y) = to - from
      /\ \A k \in 1..to - from :
           (x \o y)[k] = IF k <= m - from THEN x[k] ELSE y[k - (m - from)]
  <2>1. /\ x \o y \in Seq(Byte) /\ Len(x \o y) = Len(x) + Len(y)
        /\ \A k \in 1..Len(x) + Len(y) : (x \o y)[k] = IF k <= Len(x) THEN x[k] ELSE y[k - Len(x)]
    <3>1. x \in Seq(Byte) /\ y \in Seq(Byte)
      BY <1>2, <1>3
    <3> QED BY ONLY <3>1, Joined
  <2>2. Len(x) = m - from /\ Len(x) + Len(y) = to - from
    BY <1>2, <1>3
  <2> QED BY <2>1, <2>2
<1>6. \A k \in 1..to - from : (x \o y)[k] = z[k]
  <2> TAKE k \in 1..to - from
  <2>1. CASE k <= m - from
    BY <1>2, <1>4, <1>5, <2>1
  <2>2. CASE ~(k <= m - from)
    <3>1. k - (m - from) \in 1..to - m /\ m + (k - (m - from)) = from + k
      BY <2>2
    <3> QED BY <1>3, <1>4, <1>5, <2>2, <3>1
  <2> QED BY <2>1, <2>2
<1>7. x \o y = z
  BY <1>4, <1>5, <1>6, SameBytes
<1> QED BY <1>7 DEF x, y, z
=============================================================================
