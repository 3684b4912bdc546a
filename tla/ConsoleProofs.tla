--------------------------- MODULE ConsoleProofs ---------------------------
(***************************************************************************)
(* For every screen, word, set of texts and set of numbers: a number that  *)
(* is printed reads back, a character changes one cell, and the screen of  *)
(* video.c implements Terminal.                                            *)
(***************************************************************************)
EXTENDS Console, WellFoundedInduction, TLAPS

----------------------------------------------------------------------------
\* Numbers. The induction is over the least number that fails.

\* A set of naturals that is not empty has a least element.
LEMMA LeastNatural ==
  ASSUME NEW S, S \subseteq Nat, S # {}
  PROVE  \E s \in S : \A r \in S : s <= r
<1>1. PICK s \in S : \A r \in S : ~(<<r, s>> \in OpToRel(<, Nat))
  BY WFMin, NatLessThanWellFounded, Zenon
<1>2. \A r \in S : ~(r < s)
  BY <1>1 DEF OpToRel
<1> QED BY <1>2

\* The last digit of a number and what is left of it.
LEMMA LastDigit ==
  ASSUME NEW v \in Nat
  PROVE  /\ v % 10 \in 0 .. 9 /\ v \div 10 \in Nat
         /\ v = 10 * (v \div 10) + (v % 10)
         /\ v # 0 => v \div 10 < v
  OBVIOUS

\* The digits that the loop of itoa gives for v, when low gives the others.
Digits(low, v) == <<48 + (v % 10)>> \o IF v \div 10 = 0 THEN <<>> ELSE low[v \div 10]

\* The function that itoa defines by recursion.
Low(value) ==
  CHOOSE low : low = [v \in 0 .. value |->
    <<48 + (v % 10)>> \o IF v \div 10 = 0 THEN <<>> ELSE low[v \div 10]]

\* There is such a function.
LEMMA LowDefined ==
  ASSUME NEW N \in Nat
  PROVE  Low(N) = [v \in 0 .. N |-> Digits(Low(N), v)]
<1> DEFINE Good(m) == \E f : f = [v \in 0 .. m |-> Digits(f, v)]
           Bad == {m \in Nat : ~Good(m)}
<1>1. Good(0)
  <2> DEFINE g == [v \in 0 .. 0 |-> <<48 + (v % 10)>> \o <<>>]
  <2>1. \A v \in 0 .. 0 : Digits(g, v) = <<48 + (v % 10)>> \o <<>>
    BY DEF Digits
  <2>2. g = [v \in 0 .. 0 |-> Digits(g, v)]
    <3> HIDE DEF g
    <3> QED BY <2>1 DEF g
  <2> QED BY <2>2
<1>2. ASSUME NEW m \in Nat, m # 0, Good(m - 1) PROVE Good(m)
  <2>1. PICK f : f = [v \in 0 .. m - 1 |-> Digits(f, v)]
    BY <1>2
  <2> DEFINE g == [v \in 0 .. m |-> IF v = m THEN Digits(f, v) ELSE f[v]]
  <2>2. \A v \in 0 .. m - 1 : g[v] = f[v]
    OBVIOUS
  <2>3. \A v \in 0 .. m : Digits(g, v) = Digits(f, v)
    <3> TAKE v \in 0 .. m
    <3>1. v \div 10 # 0 => v \div 10 \in 0 .. m - 1
      BY LastDigit
    <3> HIDE DEF g
    <3> QED BY <2>2, <3>1 DEF Digits
  <2>4. \A v \in 0 .. m - 1 : f[v] = Digits(f, v)
    BY <2>1
  <2>5. \A v \in 0 .. m : g[v] = Digits(g, v)
    BY <2>2, <2>3, <2>4
  <2>6. g = [v \in 0 .. m |-> Digits(g, v)]
    <3>1. g = [v \in 0 .. m |-> g[v]]
      OBVIOUS
    <3> HIDE DEF g
    <3> QED BY <2>5, <3>1
  <2> QED BY <2>6
<1> HIDE DEF Good
<1>3. Bad = {}
  <2> SUFFICES ASSUME Bad # {} PROVE FALSE
    OBVIOUS
  <2>1. PICK m \in Bad : \A r \in Bad : m <= r
    BY LeastNatural
  <2>2. m # 0
    BY <1>1
  <2>3. m - 1 \in Nat /\ m - 1 \notin Bad
    BY <2>1, <2>2
  <2> QED BY <2>1, <2>2, <2>3, <1>2
<1>4. \E f : f = [v \in 0 .. N |-> Digits(f, v)]
  BY <1>3 DEF Good
<1>5. Low(N) = CHOOSE f : f = [v \in 0 .. N |-> Digits(f, v)]
  BY DEF Low, Digits
<1> QED BY <1>4, <1>5

\* s holds the digits of v from the lowest on, with no zero at the end unless
\* v is 0: q are the quotients from which they are the remainders.
Decimal(v, s, q) ==
  /\ s \in Seq(48 .. 57) /\ Len(s) > 0
  /\ s[Len(s)] = 48 => Len(s) = 1
  /\ q \in [1 .. Len(s) + 1 -> Nat] /\ q[1] = v /\ q[Len(s) + 1] = 0
  /\ \A j \in 1 .. Len(s) : q[j] = 10 * q[j + 1] + s[j] - 48

\* A digit before the digits of a tenth gives the digits of the number.
LEMMA DecimalStep ==
  ASSUME NEW v \in Nat, v \div 10 # 0, NEW s, NEW q, Decimal(v \div 10, s, q)
  PROVE  \E p : Decimal(v, <<48 + (v % 10)>> \o s, p)
<1> DEFINE r == <<48 + (v % 10)>> \o s
           n == Len(s)
           p == [j \in 1 .. n + 2 |-> IF j = 1 THEN v ELSE q[j - 1]]
<1>1. /\ v % 10 \in 0 .. 9 /\ v \div 10 \in Nat
      /\ v = 10 * (v \div 10) + (v % 10)
  BY LastDigit
<1>2. /\ s \in Seq(48 .. 57) /\ n \in Nat /\ n > 0
      /\ s[n] = 48 => n = 1
  BY DEF Decimal
<1>q. /\ q \in [1 .. n + 1 -> Nat] /\ q[1] = v \div 10 /\ q[n + 1] = 0
      /\ \A j \in 1 .. n : q[j] = 10 * q[j + 1] + s[j] - 48
  BY DEF Decimal
<1>n. n \in Nat /\ n > 0
  BY <1>2
<1>3. /\ r \in Seq(48 .. 57) /\ Len(r) = n + 1
      /\ r[1] = 48 + (v % 10)
      /\ \A j \in 1 .. n : r[j + 1] = s[j]
  <2> DEFINE d == 48 + (v % 10)
  <2>1. d \in 48 .. 57
    BY <1>1
  <2> HIDE DEF d
  <2> QED BY <2>1, <1>2
<1>4. \A j \in 1 .. n : s[j] \in 48 .. 57
  BY <1>2
<1> HIDE DEF n, r
<1>5. s[n] # 48
  <2> SUFFICES ASSUME s[n] = 48 PROVE FALSE
    OBVIOUS
  <2>1. n = 1 /\ s[1] = 48
    BY <1>2
  <2>2. q[1] = 10 * q[2] + s[1] - 48 /\ q[2] = 0
    <3>1. 1 \in 1 .. n /\ 1 + 1 = 2 /\ n + 1 = 2
      BY <2>1
    <3>2. q[1] = 10 * q[1 + 1] + s[1] - 48
      BY <3>1, <1>q
    <3> QED BY <3>1, <3>2, <1>q
  <2> QED BY <2>1, <2>2, <1>q
<1>6. r[Len(r)] = s[n]
  BY <1>2, <1>3
<1>7. /\ p \in [1 .. n + 2 -> Nat] /\ p[1] = v /\ p[n + 2] = 0
      /\ \A j \in 1 .. n + 1 : p[j + 1] = q[j]
  <2>1. \A j \in 1 .. n + 1 : q[j] \in Nat
    BY <1>q
  <2>2. \A j \in 1 .. n + 2 : j = 1 \/ j - 1 \in 1 .. n + 1
    BY <1>n
  <2>3. \A j \in 1 .. n + 2 : p[j] \in Nat
    BY <2>1, <2>2
  <2>4. p \in [1 .. n + 2 -> Nat]
    BY <2>3
  <2>5. p[1] = v
    BY <1>n
  <2>6. \A j \in 1 .. n + 1 : j + 1 \in 1 .. n + 2 /\ j + 1 # 1 /\ (j + 1) - 1 = j
    BY <1>n
  <2>7. \A j \in 1 .. n + 1 : p[j + 1] = q[j]
    BY <2>6
  <2>8. n + 1 \in 1 .. n + 1 /\ (n + 1) + 1 = n + 2
    BY <1>n
  <2>9. p[n + 2] = 0
    <3> HIDE DEF p
    <3> QED BY <2>7, <2>8, <1>q
  <2> QED BY <2>4, <2>5, <2>7, <2>9
<1> HIDE DEF p
<1>8. \A j \in 1 .. n + 1 : p[j] = 10 * p[j + 1] + r[j] - 48
  <2> TAKE j \in 1 .. n + 1
  <2>1. CASE j = 1
    <3>1. p[1] = v /\ p[1 + 1] = v \div 10 /\ r[1] = 48 + (v % 10)
      BY <1>n, <1>q, <1>3, <1>7
    <3> QED BY <2>1, <3>1, <1>1
  <2>2. CASE j # 1
    <3>1. PICK k \in 1 .. n : j = k + 1
      <4>1. j - 1 \in 1 .. n /\ j = (j - 1) + 1
        BY <2>2, <1>n
      <4> QED BY <4>1
    <3>2. p[k + 1] = q[k] /\ r[k + 1] = s[k]
      BY <1>n, <1>3, <1>7
    <3>3. p[(k + 1) + 1] = q[k + 1]
      <4>1. k + 1 \in 1 .. n + 1
        BY <1>n
      <4> QED BY <4>1, <1>7
    <3>4. q[k] = 10 * q[k + 1] + s[k] - 48
      BY <1>q
    <3> QED BY <3>1, <3>2, <3>3, <3>4
  <2> QED BY <2>1, <2>2
<1>9. Len(r) + 1 = n + 2 /\ Len(r) > 0
  BY <1>2, <1>3
<1>10. Decimal(v, r, p)
  BY <1>3, <1>5, <1>6, <1>7, <1>8, <1>9 DEF Decimal
<1> QED BY <1>10 DEF r

\* The loop of itoa gives the digits of every number.
LEMMA LowDecimal ==
  ASSUME NEW N \in Nat
  PROVE  \E q : Decimal(N, Low(N)[N], q)
<1> DEFINE low == Low(N)
           Bad == {v \in 0 .. N : ~ \E q : Decimal(v, low[v], q)}
<1>1. \A v \in 0 .. N : low[v] = Digits(low, v)
  BY LowDefined
<1> HIDE DEF low
<1>2. Bad = {}
  <2> SUFFICES ASSUME Bad # {} PROVE FALSE
    OBVIOUS
  <2>1. PICK v \in Bad : \A r \in Bad : v <= r
    <3>1. Bad \subseteq Nat
      OBVIOUS
    <3> HIDE DEF Bad
    <3> QED BY <3>1, LeastNatural
  <2>2. v \in Nat /\ v \in 0 .. N /\ low[v] = Digits(low, v)
    BY <1>1
  <2>3. CASE v \div 10 = 0
    <3>1. v \in 0 .. 9 /\ v % 10 = v
      BY <2>2, <2>3, LastDigit
    <3>2. low[v] = <<48 + v>>
      BY <2>2, <2>3, <3>1 DEF Digits
    <3> DEFINE q == [j \in 1 .. 2 |-> IF j = 1 THEN v ELSE 0]
    <3>3. Decimal(v, <<48 + v>>, q)
      BY <3>1 DEF Decimal
    <3> QED BY <3>2, <3>3
  <2>4. CASE v \div 10 # 0
    <3>1. v \div 10 \in 0 .. N /\ v \div 10 < v
      BY <2>2, <2>4, LastDigit
    <3>2. v \div 10 \notin Bad
      <4> DEFINE w == v \div 10
      <4>1. w < v /\ w \in Nat
        BY <3>1
      <4> HIDE DEF w
      <4> QED BY <4>1, <2>1, <2>2 DEF w
    <3>3. PICK q : Decimal(v \div 10, low[v \div 10], q)
      BY <3>1, <3>2
    <3>4. \E p : Decimal(v, <<48 + (v % 10)>> \o low[v \div 10], p)
      BY <2>2, <2>4, <3>3, DecimalStep
    <3>5. low[v] = <<48 + (v % 10)>> \o low[v \div 10]
      BY <2>2, <2>4 DEF Digits
    <3> QED BY <3>4, <3>5
  <2> QED BY <2>3, <2>4
<1>3. N \in 0 .. N
  OBVIOUS
<1> QED BY <1>2, <1>3 DEF low

\* What the loop of atoi makes of the text from i on, when val tells what it
\* makes of the text after i.
Rest(val, s, i) ==
  [v \in Nat |->
     IF i <= Len(s) /\ s[i] \in 48 .. 57 THEN val[i + 1][v * 10 + s[i] - 48] ELSE v]

\* The function that atoi defines by recursion.
Value(s) ==
  CHOOSE value : value = [i \in 1 .. Len(s) + 1 |->
    [v \in Nat |->
       IF i <= Len(s) /\ s[i] \in 48 .. 57 THEN value[i + 1][v * 10 + s[i] - 48] ELSE v]]

\* There is such a function: it is built from the end of the text.
LEMMA ValueDefined ==
  ASSUME NEW s, Len(s) \in Nat
  PROVE  Value(s) = [i \in 1 .. Len(s) + 1 |-> Rest(Value(s), s, i)]
<1> DEFINE n == Len(s)
           Good(m) == \E f : f = [i \in n + 1 - m .. n + 1 |-> Rest(f, s, i)]
           Bad == {m \in Nat : m <= n /\ ~Good(m)}
<1>n. n \in Nat /\ n = Len(s)
  OBVIOUS
<1> HIDE DEF n
<1>1. Good(0)
  <2> DEFINE g == [i \in n + 1 - 0 .. n + 1 |-> [v \in Nat |-> v]]
  <2>1. \A i \in n + 1 - 0 .. n + 1 : Rest(g, s, i) = [v \in Nat |-> v]
    BY <1>n DEF Rest
  <2>2. g = [i \in n + 1 - 0 .. n + 1 |-> Rest(g, s, i)]
    <3> HIDE DEF g
    <3> QED BY <2>1 DEF g
  <2> QED BY <2>2
<1>2. ASSUME NEW m \in Nat, m # 0, m <= n, Good(m - 1) PROVE Good(m)
  <2> DEFINE a == n + 1 - m
  <2>a. a \in Nat /\ a >= 1 /\ a <= n /\ n + 1 - (m - 1) = a + 1
    BY <1>2, <1>n
  <2>1. PICK f : f = [i \in a + 1 .. n + 1 |-> Rest(f, s, i)]
    <3> HIDE DEF a
    <3> QED BY <1>2, <2>a
  <2> HIDE DEF a
  <2> DEFINE g == [i \in a .. n + 1 |-> IF i = a THEN Rest(f, s, i) ELSE f[i]]
  <2>2. \A i \in a + 1 .. n + 1 : g[i] = f[i]
    BY <2>a, <1>n
  <2>3. \A i \in a .. n + 1 : Rest(g, s, i) = Rest(f, s, i)
    <3> TAKE i \in a .. n + 1
    <3>1. i <= n => i + 1 \in a + 1 .. n + 1
      BY <2>a, <1>n
    <3>2. i <= n => g[i + 1] = f[i + 1]
      BY <3>1, <2>2
    <3> HIDE DEF g
    <3> QED BY <3>2, <1>n DEF Rest
  <2>4. \A i \in a + 1 .. n + 1 : f[i] = Rest(f, s, i)
    BY <2>1
  <2>5. \A i \in a .. n + 1 : i = a \/ i \in a + 1 .. n + 1
    BY <2>a, <1>n
  <2>6. \A i \in a .. n + 1 : g[i] = Rest(g, s, i)
    BY <2>2, <2>3, <2>4, <2>5
  <2>7. g = [i \in a .. n + 1 |-> Rest(g, s, i)]
    <3>1. g = [i \in a .. n + 1 |-> g[i]]
      OBVIOUS
    <3> HIDE DEF g
    <3> QED BY <2>6, <3>1
  <2> QED BY <2>7 DEF a
<1> HIDE DEF Good
<1>3. Bad = {}
  <2> SUFFICES ASSUME Bad # {} PROVE FALSE
    OBVIOUS
  <2>1. PICK m \in Bad : \A r \in Bad : m <= r
    BY LeastNatural
  <2>2. m # 0 /\ m <= n
    BY <1>1
  <2>3. m - 1 \in Nat /\ m - 1 <= n /\ m - 1 \notin Bad
    BY <2>1, <2>2, <1>n
  <2>4. Good(m - 1)
    BY <2>3
  <2> QED BY <2>1, <2>2, <2>4, <1>2
<1>4. Good(n)
  BY <1>3, <1>n
<1>5. n + 1 - n = 1
  BY <1>n
<1>6. \E f : f = [i \in 1 .. n + 1 |-> Rest(f, s, i)]
  BY <1>4, <1>5 DEF Good
<1>7. Value(s) = CHOOSE f : f = [i \in 1 .. n + 1 |-> Rest(f, s, i)]
  BY <1>n DEF Value, Rest
<1> QED BY <1>6, <1>7, <1>n

\* atoi reads the digits, the highest first, back as their number.
LEMMA AtoiReadsDecimal ==
  ASSUME NEW v \in Nat, NEW s, NEW q, Decimal(v, s, q)
  PROVE  /\ Reverse(s) # <<>> /\ atoi(Reverse(s)) = v
         /\ Reverse(s)[1] = 48 => Len(Reverse(s)) = 1
         /\ Reverse(s) \in Seq(48 .. 57)
<1> DEFINE n == Len(s)
           r == Reverse(s)
           val == Value(r)
<1>1. /\ s \in Seq(48 .. 57) /\ n \in Nat /\ n > 0
      /\ s[n] = 48 => n = 1
  BY DEF Decimal
<1>2. /\ q \in [1 .. n + 1 -> Nat] /\ q[1] = v /\ q[n + 1] = 0
      /\ \A j \in 1 .. n : q[j] = 10 * q[j + 1] + s[j] - 48
  BY DEF Decimal
<1>3. \A j \in 1 .. n : s[j] \in 48 .. 57
  BY <1>1
<1>4. /\ r = [i \in 1 .. n |-> s[(n - i) + 1]]
      /\ \A i \in 1 .. n : (n - i) + 1 \in 1 .. n
  BY <1>1 DEF Reverse
<1>n. n \in Nat /\ n > 0
  BY <1>1
<1> HIDE DEF n
<1>5. /\ r \in Seq(48 .. 57) /\ Len(r) = n
      /\ \A i \in 1 .. n : r[i] = s[(n - i) + 1] /\ r[i] \in 48 .. 57
  <2>1. r \in [1 .. n -> 48 .. 57]
    BY <1>3, <1>4
  <2> HIDE DEF r
  <2> QED BY <2>1, <1>3, <1>4, <1>n
<1> HIDE DEF r
<1>6. \A i \in 1 .. n + 1 : val[i] = Rest(val, r, i)
  BY <1>5, <1>n, ValueDefined
<1> HIDE DEF val
<1>7. val[n + 1][v] = v
  <2>1. n + 1 \in 1 .. n + 1 /\ ~(n + 1 <= Len(r))
    BY <1>n, <1>5
  <2>2. val[n + 1] = Rest(val, r, n + 1)
    BY <2>1, <1>6
  <2> QED BY <2>1, <2>2 DEF Rest
<1>8. ASSUME NEW m \in 1 .. n
      PROVE  val[n + 1 - m][q[m + 1]] = val[n + 1 - (m - 1)][q[m]]
  <2> DEFINE i == n + 1 - m
  <2>1. /\ i \in 1 .. n /\ i \in 1 .. n + 1 /\ i <= n /\ i + 1 = n + 1 - (m - 1)
        /\ (n - i) + 1 = m /\ m + 1 \in 1 .. n + 1 /\ m \in 1 .. n + 1
    BY <1>n
  <2> HIDE DEF i
  <2>2. q[m + 1] \in Nat /\ q[m] \in Nat /\ s[m] \in 48 .. 57
    BY <2>1, <1>2, <1>3
  <2>3. r[i] = s[m] /\ r[i] \in 48 .. 57
    BY <2>1, <1>5
  <2>4. q[m + 1] * 10 + r[i] - 48 = q[m]
    <3>1. q[m] = 10 * q[m + 1] + s[m] - 48
      BY <1>2
    <3> QED BY <3>1, <2>2, <2>3
  <2>5. val[i] = Rest(val, r, i)
    BY <2>1, <1>6
  <2>6. Rest(val, r, i)[q[m + 1]] = val[i + 1][q[m + 1] * 10 + r[i] - 48]
    BY <2>1, <2>2, <2>3, <1>5 DEF Rest
  <2>7. val[i][q[m + 1]] = val[i + 1][q[m]]
    BY <2>4, <2>5, <2>6
  <2> QED BY <2>1, <2>7 DEF i
<1> DEFINE Bad == {m \in 0 .. n : val[n + 1 - m][q[m + 1]] # v}
<1>9. Bad = {}
  <2> SUFFICES ASSUME Bad # {} PROVE FALSE
    OBVIOUS
  <2>1. PICK m \in Bad : \A k \in Bad : m <= k
    <3>1. Bad \subseteq Nat
      BY <1>n
    <3> HIDE DEF Bad
    <3> QED BY <3>1, LeastNatural
  <2>2. m \in 0 .. n /\ val[n + 1 - m][q[m + 1]] # v
    OBVIOUS
  <2>3. m # 0
    BY <2>2, <1>2, <1>7, <1>n
  <2>4. m \in 1 .. n /\ m - 1 \in 0 .. n /\ m - 1 < m /\ (m - 1) + 1 = m
    BY <2>2, <2>3, <1>n
  <2>5. m - 1 \notin Bad
    <3> HIDE DEF Bad
    <3> QED BY <2>1, <2>2, <2>4
  <2>6. val[n + 1 - (m - 1)][q[m]] = v
    BY <2>4, <2>5
  <2> QED BY <2>2, <2>4, <2>6, <1>8
<1>10. val[1][0] = v
  <2>1. n \in 0 .. n /\ n + 1 - n = 1
    BY <1>n
  <2>2. val[n + 1 - n][q[n + 1]] = v
    BY <2>1, <1>9
  <2> QED BY <2>1, <2>2, <1>2
<1>11. r[1] \in 48 .. 57 /\ r # <<>>
  BY <1>5, <1>n
<1>12. atoi(r) = Value(r)[1][0]
  <2>1. ~(r # <<>> /\ r[1] \in {43, 45})
    BY <1>11
  <2> QED BY <2>1 DEF atoi, Value
<1>13. r[1] = s[n]
  BY <1>5, <1>n
<1> QED BY <1>1, <1>5, <1>10, <1>11, <1>12, <1>13 DEF r, val

\* What itoa gives for a number.
LEMMA ItoaReadsBack ==
  ASSUME NEW N \in Nat
  PROVE  /\ itoa(N) # <<>> /\ atoi(itoa(N)) = N
         /\ itoa(N)[1] = 48 => Len(itoa(N)) = 1
         /\ itoa(N) \in Seq(48 .. 57)
<1>1. PICK q : Decimal(N, Low(N)[N], q)
  BY LowDecimal
<1>2. itoa(N) = Reverse(Low(N)[N])
  BY DEF itoa, Low
<1> QED BY <1>1, <1>2, AtoiReadsDecimal

----------------------------------------------------------------------------
\* The screen.

\* Arithmetic of size_t: what is less than the word is its own remainder, what
\* passes it wraps, and so does what is below 0.
LEMMA WordWraps ==
  ASSUME NEW d \in Nat \ {0}, NEW x \in Nat
  PROVE  /\ x % d \in 0 .. d - 1
         /\ x < d => x % d = x
         /\ d <= x /\ x < 2 * d => x % d = x - d
         /\ (0 - 1) % d = d - 1
<1>1. x % d \in 0 .. d - 1 /\ (x < d => x % d = x)
  OBVIOUS
<1>2. d <= x /\ x < 2 * d => x % d = x - d
  OBVIOUS
<1>3. (0 - 1) % d = d - 1
  OBVIOUS
<1> QED BY <1>1, <1>2, <1>3

\* The rows of the screen in its memory.
LEMMA Rows ==
  ASSUME NEW r \in 0 .. g_vga_height - 1
  PROVE  /\ r * g_vga_width \in Nat
         /\ r > 0 => r * g_vga_width >= g_vga_width
         /\ (r + 1) * g_vga_width = r * g_vga_width + g_vga_width
         /\ r * g_vga_width + g_vga_width <= g_vga_width * g_vga_height
         /\ g_vga_width * g_vga_height \in Nat
         /\ g_vga_width * g_vga_height + g_vga_width < Word
         /\ g_vga_height < Word
<1> DEFINE w == g_vga_width
           h == g_vga_height
<1>1. w \in Nat /\ w > 0 /\ h \in Nat /\ h > 0 /\ Word \in Nat /\ Word > w * (h + 1)
  BY VideoAssumption
<1>2. r \in Nat /\ r + 1 <= h
  BY <1>1
<1> HIDE DEF w, h
<1>3. r * w \in Nat /\ w * h \in Nat /\ w * (h + 1) = w * h + w
  BY <1>1, <1>2
<1>4. (r + 1) * w = r * w + w
  BY <1>1, <1>2
<1>5. r > 0 => r * w >= w
  <2> SUFFICES ASSUME r > 0 PROVE r * w >= w
    OBVIOUS
  <2>1. PICK e \in Nat : r = e + 1
    <3>1. r - 1 \in Nat /\ r = (r - 1) + 1
      BY <1>2
    <3> QED BY <3>1
  <2>2. r * w = e * w + w /\ e * w \in Nat
    BY <2>1, <1>1
  <2> QED BY <2>2, <1>1
<1>6. r * w + w <= w * h
  <2>1. PICK e \in Nat : h = r + 1 + e
    <3>1. h - (r + 1) \in Nat /\ h = r + 1 + (h - (r + 1))
      BY <1>1, <1>2
    <3> QED BY <3>1
  <2>2. w * h = (r * w + w) + w * e /\ w * e \in Nat
    BY <2>1, <1>1, <1>2
  <2> QED BY <2>2, <1>3, <1>1
<1>7. h <= w * h
  <2>1. PICK e \in Nat : w = e + 1
    <3>1. w - 1 \in Nat /\ w = (w - 1) + 1
      BY <1>1
    <3> QED BY <3>1
  <2>2. w * h = h + e * h /\ e * h \in Nat
    BY <2>1, <1>1
  <2> QED BY <2>2, <1>1
<1>8. h < Word
  <2> DEFINE a == w * h
  <2>1. a \in Nat /\ h <= a /\ a + w < Word
    BY <1>1, <1>3, <1>7
  <2> HIDE DEF a
  <2> QED BY <2>1, <1>1
<1> QED BY <1>1, <1>3, <1>4, <1>5, <1>6, <1>8 DEF w, h

\* The states of the cursor and the cells, and those with the text on screen.
Crt == [row : 0 .. Word - 1, col : 0 .. Word - 1, cells : [Screen -> Entries]]
OnScreen(s) ==
  /\ s.row < g_vga_height
  /\ s.col < g_vga_width \/ s.row * g_vga_width + s.col >= Word

\* Where the next character goes while the text is on the screen.
LEMMA IndexOnScreen ==
  ASSUME NEW s \in Crt, OnScreen(s)
  PROVE  /\ Index(s) \in Screen
         /\ s.row \in 0 .. g_vga_height - 1
         /\ s.col < g_vga_width => Index(s) = s.row * g_vga_width + s.col
         /\ ~(s.col < g_vga_width) =>
              /\ Index(s) = s.row * g_vga_width + s.col - Word
              /\ s.row * g_vga_width + s.col >= Word
              /\ s.row > 0
              /\ s.col > g_vga_width
<1> DEFINE w == g_vga_width
           h == g_vga_height
           p == s.row * w
           a == w * h
<1>1. /\ s.row \in 0 .. h - 1 /\ s.col \in 0 .. Word - 1
      /\ s.col < w \/ p + s.col >= Word
      /\ w \in Nat /\ w > 0 /\ h \in Nat /\ Word \in Nat
  BY VideoAssumption DEF Crt, OnScreen
<1>2. /\ p \in Nat /\ p + w <= a /\ a \in Nat /\ a + w < Word
      /\ s.row = 0 => p = 0
  <2>1. /\ p \in Nat /\ p + w <= a /\ a \in Nat /\ a + w < Word
    <3> HIDE DEF p, a
    <3> QED BY <1>1, Rows DEF p, a
  <2>2. s.row = 0 => p = 0
    BY <1>1
  <2> QED BY <2>1, <2>2
<1>3. Index(s) = (p + s.col) % Word /\ Screen = 0 .. a - 1
  BY DEF Index, Screen
<1> HIDE DEF w, h, p, a
<1>4. CASE s.col < w
  <2>1. p + s.col \in Nat /\ p + s.col < Word /\ p + s.col \in 0 .. a - 1
    BY <1>1, <1>2, <1>4
  <2>2. (p + s.col) % Word = p + s.col
    BY <2>1, <1>1, WordWraps
  <2> QED BY <1>1, <1>3, <1>4, <2>1, <2>2 DEF w, h, p
<1>5. CASE ~(s.col < w)
  <2>1. /\ p + s.col \in Nat /\ p + s.col >= Word /\ p + s.col < 2 * Word
        /\ p + s.col - Word \in 0 .. a - 1
        /\ s.row > 0 /\ s.col > w
    BY <1>1, <1>2, <1>5
  <2>2. PICK x : x = p + s.col
    OBVIOUS
  <2>3. x \in Nat /\ Word <= x /\ x < 2 * Word /\ Word \in Nat \ {0}
    BY <2>1, <2>2, <1>1, <1>2
  <2>4. x % Word = x - Word
    BY <2>3, WordWraps
  <2>5. Index(s) = x % Word
    BY <2>2, <1>3, Zenon
  <2>6. Index(s) = p + s.col - Word
    BY <2>2, <2>3, <2>4, <2>5, <1>1, <1>2
  <2> QED BY <1>1, <1>3, <1>5, <2>1, <2>6 DEF w, h, p
<1> QED BY <1>4, <1>5

\* putc_at writes one cell of the screen, or none.
LEMMA PutcAt ==
  ASSUME NEW s \in Crt, NEW c \in Chars, color \in Colors
  PROVE  /\ putc_at(s, c) \in Crt
         /\ putc_at(s, c).row = s.row /\ putc_at(s, c).col = s.col
         /\ Index(s) \in Screen =>
              putc_at(s, c).cells = [s.cells EXCEPT ![Index(s)] = vga_entry(c, color)]
         /\ Index(s) \notin Screen => putc_at(s, c).cells = s.cells
<1>1. vga_entry(c, color) \in Entries
  BY DEF Entries
<1>2. s.cells \in [Screen -> Entries] /\ s.row \in 0 .. Word - 1 /\ s.col \in 0 .. Word - 1
  BY DEF Crt
<1>3. CASE Index(s) \in Screen
  <2> DEFINE k == Index(s)
             e == vga_entry(c, color)
  <2>1. putc_at(s, c) = [s EXCEPT !.cells[k] = e]
    BY <1>3 DEF putc_at
  <2>2. k \in Screen /\ e \in Entries
    BY <1>1, <1>3
  <2> HIDE DEF k, e
  <2>3. [s.cells EXCEPT ![k] = e] \in [Screen -> Entries]
    BY <1>2, <2>2
  <2> QED BY <1>2, <1>3, <2>1, <2>2, <2>3 DEF Crt, k, e
<1>4. CASE Index(s) \notin Screen
  BY <1>4 DEF putc_at
<1> QED BY <1>3, <1>4

\* Where putc of a plain character leaves the cursor.
LEMMA PutPlain ==
  ASSUME NEW s \in Crt, NEW c \in Chars, color \in Colors
  PROVE  /\ put_plain(s, c) \in Crt
         /\ put_plain(s, c).cells = putc_at(s, c).cells
         /\ (s.col + 1) % Word # g_vga_width =>
              /\ put_plain(s, c).row = s.row
              /\ put_plain(s, c).col = (s.col + 1) % Word
         /\ (s.col + 1) % Word = g_vga_width =>
              /\ put_plain(s, c).row =
                   IF (s.row + 1) % Word = g_vga_height THEN 0 ELSE (s.row + 1) % Word
              /\ put_plain(s, c).col = 0
<1> DEFINE t == putc_at(s, c)
           row == (s.row + 1) % Word
           col == (s.col + 1) % Word
           next == IF row = g_vga_height THEN 0 ELSE row
<1>1. t \in Crt /\ t.row = s.row
  BY PutcAt
<1>2. Word \in Nat \ {0} /\ s.row \in 0 .. Word - 1 /\ s.col \in 0 .. Word - 1
  BY VideoAssumption DEF Crt
<1>3. s.row + 1 \in Nat /\ s.col + 1 \in Nat
  BY <1>2
<1>4. row \in 0 .. Word - 1 /\ col \in 0 .. Word - 1
  <2> HIDE DEF row, col
  <2> QED BY <1>2, <1>3, WordWraps DEF row, col
<1>5. put_plain(s, c) = IF col # g_vga_width THEN [t EXCEPT !.col = col]
                        ELSE [t EXCEPT !.col = 0, !.row = next]
  BY DEF put_plain
<1>6. next \in 0 .. Word - 1 /\ 0 \in 0 .. Word - 1
  BY <1>2, <1>4
<1> HIDE DEF t, row, col, next
<1>7. CASE col # g_vga_width
  BY <1>1, <1>4, <1>5, <1>7 DEF t, col, Crt
<1>8. CASE col = g_vga_width
  <2>1. /\ put_plain(s, c) \in Crt /\ put_plain(s, c).cells = t.cells
        /\ put_plain(s, c).row = next /\ put_plain(s, c).col = 0
    BY <1>1, <1>5, <1>6, <1>8 DEF Crt
  <2> QED BY <2>1, <1>8 DEF t, row, col, next
<1> QED BY <1>7, <1>8

\* A plain character on the screen goes to the cell of the cursor, and the next
\* one after it: at the end of the row in the next row, at that of the last row
\* in the first.
LEMMA PutOnScreen ==
  ASSUME NEW s \in Crt, OnScreen(s), NEW c \in Chars, color \in Colors
  PROVE  LET t == put_plain(s, c)
         IN  /\ OnScreen(t)
             /\ t.cells = [s.cells EXCEPT ![Index(s)] = vga_entry(c, color)]
             /\ IF Index(s) + 1 = (s.row + 1) * g_vga_width
                THEN t.row = (s.row + 1) % g_vga_height /\ Index(t) = t.row * g_vga_width
                ELSE Index(t) = Index(s) + 1 /\ t.row = s.row
<1> DEFINE t == put_plain(s, c)
           w == g_vga_width
           h == g_vga_height
           p == s.row * w
           a == w * h
<1>1. /\ s.row \in 0 .. h - 1 /\ s.col \in 0 .. Word - 1
      /\ w \in Nat /\ w > 0 /\ h \in Nat /\ h > 0 /\ Word \in Nat \ {0}
  BY IndexOnScreen, VideoAssumption DEF Crt
<1>2. /\ p \in Nat /\ p + w <= a /\ a \in Nat /\ a + w < Word
      /\ (s.row + 1) * w = p + w
  <2> HIDE DEF p, a
  <2> QED BY <1>1, Rows DEF p, a
<1>3. h < Word
  BY <1>1, Rows DEF h
<1>4. /\ t \in Crt
      /\ t.cells = [s.cells EXCEPT ![Index(s)] = vga_entry(c, color)]
  <2>1. Index(s) \in Screen
    BY IndexOnScreen
  <2> QED BY <2>1, PutcAt, PutPlain
<1>5. /\ (s.col + 1) % Word # w => t.row = s.row /\ t.col = (s.col + 1) % Word
      /\ (s.col + 1) % Word = w =>
           /\ t.row = IF (s.row + 1) % Word = h THEN 0 ELSE (s.row + 1) % Word
           /\ t.col = 0
  BY PutPlain
<1>6. /\ s.col < w => Index(s) = p + s.col
      /\ ~(s.col < w) => /\ Index(s) = p + s.col - Word
                          /\ p + s.col >= Word
                          /\ s.col > w
  BY IndexOnScreen
<1>7. OnScreen(t) <=> t.row < h /\ (t.col < w \/ t.row * w + t.col >= Word)
  BY DEF OnScreen
<1> HIDE DEF t, w, h, p, a
<1>8. CASE s.col = w - 1
  <2>1. (s.col + 1) % Word = w
    <3>1. s.col + 1 = w /\ w < Word
      BY <1>1, <1>2, <1>8
    <3>2. w % Word = w
      BY <3>1, <1>1, WordWraps
    <3> QED BY <3>1, <3>2
  <2>2. (s.row + 1) % Word = s.row + 1
    <3>1. s.row + 1 \in Nat /\ s.row + 1 < Word
      BY <1>1, <1>3
    <3> QED BY <3>1, <1>1, WordWraps
  <2>3. t.row = IF s.row + 1 = h THEN 0 ELSE s.row + 1
    BY <1>5, <2>1, <2>2
  <2>4. t.col = 0
    BY <1>5, <2>1
  <2>5. t.row = (s.row + 1) % h
    <3>1. CASE s.row + 1 = h
      <4>1. h % h = 0
        BY <1>1
      <4> QED BY <4>1, <3>1, <2>3
    <3>2. CASE s.row + 1 # h
      <4>1. s.row + 1 \in Nat /\ s.row + 1 < h /\ h \in Nat \ {0}
        BY <3>2, <1>1
      <4>2. (s.row + 1) % h = s.row + 1
        BY <4>1, WordWraps
      <4> QED BY <4>2, <3>2, <2>3
    <3> QED BY <3>1, <3>2
  <2>6. t.row \in 0 .. h - 1
    BY <2>3, <1>1
  <2>7. OnScreen(t)
    BY <2>4, <2>6, <1>1, <1>7
  <2>8. Index(t) = t.row * w + 0
    BY <2>4, <2>7, <1>1, <1>4, IndexOnScreen DEF w
  <2>9. Index(t) = t.row * w
    <3>1. t.row * w \in Nat
      BY <2>6, <1>1
    <3> QED BY <2>8, <3>1
  <2>10. Index(s) + 1 = p + w
    BY <1>1, <1>2, <1>6, <1>8
  <2> QED BY <2>5, <2>7, <2>9, <2>10, <1>2, <1>4 DEF t, w, h, p
<1>9. CASE s.col < w - 1
  <2>1. (s.col + 1) % Word = s.col + 1 /\ s.col + 1 # w
    <3>1. s.col + 1 \in Nat /\ s.col + 1 < Word /\ s.col + 1 # w
      BY <1>1, <1>2, <1>9
    <3> QED BY <3>1, <1>1, WordWraps
  <2>2. t.row = s.row /\ t.col = s.col + 1
    BY <1>5, <2>1
  <2>3. OnScreen(t) /\ t.col < w
    BY <2>2, <1>1, <1>7, <1>9
  <2>4. Index(t) = t.row * w + t.col
    BY <2>3, <1>4, IndexOnScreen DEF w
  <2>5. Index(t) = p + (s.col + 1)
    BY <2>2, <2>4 DEF p
  <2>6. Index(t) = Index(s) + 1 /\ Index(s) + 1 # p + w
    BY <2>5, <1>1, <1>2, <1>6, <1>9
  <2> QED BY <2>2, <2>3, <2>6, <1>2, <1>4 DEF t, w, p
<1>10. CASE ~(s.col < w) /\ s.col = Word - 1
  <2>1. (s.col + 1) % Word = 0 /\ 0 # w
    <3>1. s.col + 1 = Word
      BY <1>1, <1>10
    <3>2. Word % Word = 0
      BY <1>1
    <3> QED BY <3>1, <3>2, <1>1
  <2>2. t.row = s.row /\ t.col = 0
    BY <1>5, <2>1
  <2>3. OnScreen(t) /\ t.col < w
    BY <2>2, <1>1, <1>7
  <2>4. Index(t) = t.row * w + t.col
    BY <2>3, <1>4, IndexOnScreen DEF w
  <2>5. Index(t) = p + 0
    BY <2>2, <2>4 DEF p
  <2>6. Index(t) = Index(s) + 1 /\ Index(s) + 1 # p + w
    BY <2>5, <1>1, <1>2, <1>6, <1>10
  <2> QED BY <2>2, <2>3, <2>6, <1>2, <1>4 DEF t, w, p
<1>11. CASE ~(s.col < w) /\ s.col < Word - 1
  <2>1. (s.col + 1) % Word = s.col + 1 /\ s.col + 1 # w
    <3>1. s.col + 1 \in Nat /\ s.col + 1 < Word /\ s.col + 1 # w
      BY <1>1, <1>6, <1>11
    <3> QED BY <3>1, <1>1, WordWraps
  <2>2. t.row = s.row /\ t.col = s.col + 1
    BY <1>5, <2>1
  <2>3. t.row * w = p
    BY <2>2 DEF p
  <2>4. OnScreen(t) /\ ~(t.col < w)
    BY <2>2, <2>3, <1>1, <1>2, <1>6, <1>7, <1>11
  <2>5. Index(t) = t.row * w + t.col - Word
    BY <2>4, <1>4, IndexOnScreen DEF w
  <2>6. Index(t) = Index(s) + 1 /\ Index(s) + 1 # p + w
    BY <2>2, <2>3, <2>5, <1>1, <1>2, <1>6, <1>11
  <2> QED BY <2>2, <2>4, <2>6, <1>2, <1>4 DEF t, w, p
<1>12. \/ s.col = w - 1 \/ s.col < w - 1 \/ (~(s.col < w) /\ s.col = Word - 1)
       \/ (~(s.col < w) /\ s.col < Word - 1)
  BY <1>1
<1> QED BY <1>8, <1>9, <1>10, <1>11, <1>12

\* The cursor one place back, where backspace puts its blank.
Back(s) ==
  IF s.col = 0 THEN [s EXCEPT !.row = @ - 1, !.col = g_vga_width - 1]
  ELSE [s EXCEPT !.col = @ - 1]

\* What backspace does, on the screen or not.
LEMMA BackspaceEffect ==
  ASSUME NEW s \in Crt, color \in Colors, ~(s.col = 0 /\ s.row = 0)
  PROVE  LET u == put_plain(Back(s), 32)
             t == backspace(s)
         IN  /\ Back(s) \in Crt /\ Back(s).cells = s.cells
             /\ s.col = 0 => Back(s).row = s.row - 1 /\ Back(s).col = g_vga_width - 1
             /\ s.col # 0 => Back(s).row = s.row /\ Back(s).col = s.col - 1
             /\ t \in Crt /\ t.cells = putc_at(Back(s), 32).cells /\ t.row = u.row
             /\ u.col = 0 => t.col = Word - 1
             /\ u.col # 0 => t.col = u.col - 1
<1> DEFINE k == Back(s)
           u == put_plain(k, 32)
           t == backspace(s)
           w == g_vga_width
<1>1. /\ Word \in Nat \ {0} /\ s.row \in 0 .. Word - 1 /\ s.col \in 0 .. Word - 1
      /\ s.cells \in [Screen -> Entries]
  BY VideoAssumption DEF Crt
<1>2. w \in Nat /\ w > 0 /\ w < Word
  <2>1. 0 \in 0 .. g_vga_height - 1 /\ w \in Nat /\ w > 0
    BY VideoAssumption
  <2>2. g_vga_width * g_vga_height \in Nat /\ g_vga_width * g_vga_height + w < Word
    BY <2>1, Rows
  <2> DEFINE a == g_vga_width * g_vga_height
  <2>3. a \in Nat /\ a + w < Word
    BY <2>2
  <2> HIDE DEF a, w
  <2> QED BY <2>1, <2>3, <1>1
<1> HIDE DEF w
<1>3. /\ k \in Crt /\ k.cells = s.cells
      /\ s.col = 0 => k.row = s.row - 1 /\ k.col = w - 1
      /\ s.col # 0 => k.row = s.row /\ k.col = s.col - 1
  <2>1. CASE s.col = 0
    <3>1. k = [s EXCEPT !.row = s.row - 1, !.col = w - 1]
      BY <2>1 DEF Back, w
    <3>2. s.row - 1 \in 0 .. Word - 1 /\ w - 1 \in 0 .. Word - 1
      BY <1>1, <1>2, <2>1
    <3> HIDE DEF k
    <3> QED BY <2>1, <3>1, <3>2 DEF Crt
  <2>2. CASE s.col # 0
    <3>1. k = [s EXCEPT !.col = s.col - 1]
      BY <2>2 DEF Back
    <3>2. s.col - 1 \in 0 .. Word - 1
      BY <1>1, <2>2
    <3> HIDE DEF k
    <3> QED BY <2>2, <3>1, <3>2 DEF Crt
  <2> QED BY <2>1, <2>2
<1>4. t = [u EXCEPT !.col = (u.col - 1) % Word]
  BY DEF backspace, Back
<1> HIDE DEF k, t
<1>5. 32 \in Chars
  BY VideoAssumption
<1>6. u \in Crt /\ u.cells = putc_at(k, 32).cells
  BY <1>3, <1>5, PutPlain
<1> HIDE DEF u
<1>7. u.col \in 0 .. Word - 1
  BY <1>6 DEF Crt
<1>8. u.col = 0 => (u.col - 1) % Word = Word - 1
  BY <1>1, WordWraps
<1>9. u.col # 0 => (u.col - 1) % Word = u.col - 1
  <2>1. u.col # 0 => u.col - 1 \in Nat /\ u.col - 1 < Word
    BY <1>1, <1>7
  <2> QED BY <2>1, <1>1, WordWraps
<1>10. (u.col - 1) % Word \in 0 .. Word - 1
  BY <1>1, <1>7, <1>8, <1>9
<1>11. t \in Crt /\ t.cells = u.cells /\ t.row = u.row /\ t.col = (u.col - 1) % Word
  BY <1>4, <1>6, <1>10 DEF Crt
<1> QED BY <1>3, <1>6, <1>8, <1>9, <1>11 DEF k, u, t, w

\* A backspace on the screen blanks the cell before the cursor and leaves the
\* cursor on it. In the first cell it does nothing, or the text leaves the
\* screen when the cursor has come there from a later row.
LEMMA BackspaceOnScreen ==
  ASSUME NEW s \in Crt, OnScreen(s), color \in Colors
  PROVE  LET t == backspace(s)
         IN  \/ t = s
             \/ /\ Index(s) > 0 /\ OnScreen(t)
                /\ t.cells = [s.cells EXCEPT ![Index(s) - 1] = vga_entry(32, color)]
                /\ Index(t) = Index(s) - 1 /\ t.row = s.row
             \/ /\ Index(s) = 0 /\ s.row > 0
                /\ t.cells = s.cells /\ Index(t) \notin Screen
<1>0. CASE s.col = 0 /\ s.row = 0
  BY <1>0 DEF backspace
<1>1. CASE ~(s.col = 0 /\ s.row = 0)
  <2> DEFINE k == Back(s)
             u == put_plain(k, 32)
             t == backspace(s)
             w == g_vga_width
             h == g_vga_height
             p == s.row * w
             a == w * h
  <2>1. /\ s.row \in 0 .. h - 1 /\ s.col \in 0 .. Word - 1
        /\ w \in Nat /\ w > 0 /\ h \in Nat /\ h > 0 /\ Word \in Nat \ {0}
    BY IndexOnScreen, VideoAssumption DEF Crt
  <2>2. /\ p \in Nat /\ p + w <= a /\ a \in Nat /\ a + w < Word /\ h < Word
        /\ s.row > 0 => p >= w
    <3> HIDE DEF p, a
    <3> QED BY <2>1, Rows DEF p, a
  <2>3. /\ k \in Crt /\ k.cells = s.cells
        /\ s.col = 0 => k.row = s.row - 1 /\ k.col = w - 1
        /\ s.col # 0 => k.row = s.row /\ k.col = s.col - 1
        /\ t \in Crt /\ t.cells = putc_at(k, 32).cells /\ t.row = u.row
        /\ u.col = 0 => t.col = Word - 1
        /\ u.col # 0 => t.col = u.col - 1
    BY <1>1, BackspaceEffect
  <2>4. /\ (k.col + 1) % Word # w => u.row = k.row /\ u.col = (k.col + 1) % Word
        /\ (k.col + 1) % Word = w =>
             /\ u.row = IF (k.row + 1) % Word = h THEN 0 ELSE (k.row + 1) % Word
             /\ u.col = 0
    <3>1. 32 \in Chars
      BY VideoAssumption
    <3> HIDE DEF k
    <3> QED BY <2>3, <3>1, PutPlain
  <2>5. /\ s.col < w => Index(s) = p + s.col
        /\ ~(s.col < w) => /\ Index(s) = p + s.col - Word
                            /\ p + s.col >= Word
                            /\ s.col > w
                            /\ s.row > 0
    BY IndexOnScreen
  <2>6. \A r \in {k, t} :
          /\ OnScreen(r) <=> r.row < h /\ (r.col < w \/ r.row * w + r.col >= Word)
          /\ OnScreen(r) /\ r.col < w => Index(r) = r.row * w + r.col
          /\ OnScreen(r) /\ ~(r.col < w) => Index(r) = r.row * w + r.col - Word
          /\ OnScreen(r) => Index(r) \in Screen
    <3> TAKE r \in {k, t}
    <3>1. r \in Crt
      BY <2>3
    <3> HIDE DEF k, t
    <3> QED BY <3>1, IndexOnScreen DEF OnScreen
  <2>7. Index(k) \in Screen =>
          t.cells = [s.cells EXCEPT ![Index(k)] = vga_entry(32, color)]
    <3>1. 32 \in Chars
      BY VideoAssumption
    <3> HIDE DEF k, t
    <3> QED BY <2>3, <3>1, PutcAt
  <2>8. Index(k) \notin Screen => t.cells = s.cells
    <3>1. 32 \in Chars
      BY VideoAssumption
    <3> HIDE DEF k, t
    <3> QED BY <2>3, <3>1, PutcAt
  <2>9. Index(k) = (k.row * w + k.col) % Word /\ Index(t) = (t.row * w + t.col) % Word
        /\ Screen = 0 .. a - 1
    BY DEF Index, Screen
  <2> HIDE DEF k, u, t, w, h, p, a
  <2>10. CASE s.col = 0
    <3>1. s.row > 0 /\ k.row = s.row - 1 /\ k.col = w - 1
      BY <1>1, <2>1, <2>3, <2>10
    <3>2. k.row * w = p - w
      BY <3>1, <2>1 DEF p
    <3>3. OnScreen(k) /\ k.col < w
      BY <3>1, <2>1, <2>6
    <3>4. Index(k) = p - w + (w - 1)
      BY <3>1, <3>2, <3>3, <2>6
    <3>5. Index(k) = Index(s) - 1 /\ Index(s) > 0
      BY <3>1, <3>4, <2>1, <2>2, <2>5, <2>10
    <3>6. (k.col + 1) % Word = w
      <4>1. k.col + 1 = w /\ w < Word
        BY <3>1, <2>1, <2>2
      <4>2. w % Word = w
        BY <4>1, <2>1, WordWraps
      <4> QED BY <4>1, <4>2
    <3>7. (k.row + 1) % Word = s.row
      <4>1. k.row + 1 = s.row /\ s.row < Word /\ s.row \in Nat
        BY <3>1, <2>1, <2>2
      <4>2. s.row % Word = s.row
        BY <4>1, <2>1, WordWraps
      <4> QED BY <4>1, <4>2
    <3>8. t.row = s.row /\ t.col = Word - 1
      BY <3>6, <3>7, <2>1, <2>3, <2>4
    <3>9. t.row * w = p
      BY <3>8 DEF p
    <3>10. OnScreen(t) /\ ~(t.col < w)
      BY <3>1, <3>8, <3>9, <2>1, <2>2, <2>6
    <3>11. Index(t) = p + (Word - 1) - Word
      BY <3>8, <3>9, <3>10, <2>6
    <3>12. Index(t) = Index(s) - 1
      BY <3>11, <2>1, <2>2, <2>5, <2>10
    <3>13. t.cells = [s.cells EXCEPT ![Index(s) - 1] = vga_entry(32, color)]
      BY <3>3, <3>5, <2>6, <2>7
    <3> QED BY <3>5, <3>8, <3>10, <3>12, <3>13 DEF t
  <2>11. ASSUME s.col # 0, s.col # w
         PROVE  t.row = s.row /\ t.col = s.col - 1 /\ k.row = s.row /\ k.col = s.col - 1
    <3>1. k.row = s.row /\ k.col = s.col - 1
      BY <2>3, <2>11
    <3>2. (k.col + 1) % Word = s.col
      <4>1. k.col + 1 = s.col /\ s.col < Word /\ s.col \in Nat
        BY <3>1, <2>1
      <4>2. s.col % Word = s.col
        BY <4>1, <2>1, WordWraps
      <4> QED BY <4>1, <4>2
    <3>3. u.row = s.row /\ u.col = s.col
      BY <3>1, <3>2, <2>4, <2>11
    <3> QED BY <3>1, <3>3, <2>3, <2>11
  <2>12. CASE s.col # 0 /\ s.col < w
    <3>1. t.row = s.row /\ t.col = s.col - 1 /\ k.row = s.row /\ k.col = s.col - 1
      BY <2>1, <2>11, <2>12
    <3>2. t.row * w = p /\ k.row * w = p
      BY <3>1 DEF p
    <3>3. OnScreen(k) /\ k.col < w /\ OnScreen(t) /\ t.col < w
      BY <3>1, <2>1, <2>6, <2>12
    <3>4. Index(k) = p + (s.col - 1) /\ Index(t) = p + (s.col - 1)
      BY <3>1, <3>2, <3>3, <2>6
    <3>5. Index(k) = Index(s) - 1 /\ Index(t) = Index(s) - 1 /\ Index(s) > 0
      BY <3>4, <2>1, <2>2, <2>5, <2>12
    <3>6. t.cells = [s.cells EXCEPT ![Index(s) - 1] = vga_entry(32, color)]
      BY <3>3, <3>5, <2>6, <2>7
    <3> QED BY <3>1, <3>3, <3>5, <3>6 DEF t
  <2>13. CASE ~(s.col < w)
    <3>1. t.row = s.row /\ t.col = s.col - 1 /\ k.row = s.row /\ k.col = s.col - 1
      BY <2>1, <2>5, <2>11, <2>13
    <3>2. t.row * w = p /\ k.row * w = p
      BY <3>1 DEF p
    <3>3. CASE p + s.col > Word
      <4>1. OnScreen(k) /\ ~(k.col < w) /\ OnScreen(t) /\ ~(t.col < w)
        BY <3>1, <3>2, <3>3, <2>1, <2>2, <2>5, <2>6, <2>13
      <4>2. Index(k) = p + (s.col - 1) - Word /\ Index(t) = p + (s.col - 1) - Word
        BY <3>1, <3>2, <4>1, <2>6
      <4>3. Index(k) = Index(s) - 1 /\ Index(t) = Index(s) - 1 /\ Index(s) > 0
        BY <4>2, <3>3, <2>1, <2>2, <2>5, <2>13
      <4>4. t.cells = [s.cells EXCEPT ![Index(s) - 1] = vga_entry(32, color)]
        BY <4>1, <4>3, <2>6, <2>7
      <4> QED BY <3>1, <4>1, <4>3, <4>4 DEF t
    <3>4. CASE p + s.col = Word
      <4>1. p + (s.col - 1) = Word - 1
        BY <3>4, <2>1, <2>2
      <4>2. (Word - 1) % Word = Word - 1
        <5>1. Word - 1 \in Nat /\ Word - 1 < Word
          BY <2>1
        <5> QED BY <5>1, <2>1, WordWraps
      <4>3. Index(k) = Word - 1 /\ Index(t) = Word - 1
        BY <3>1, <3>2, <4>1, <4>2, <2>9
      <4>4. Index(k) \notin Screen /\ Index(t) \notin Screen
        BY <4>3, <2>1, <2>2, <2>9
      <4>5. Index(s) = 0 /\ s.row > 0
        BY <3>4, <2>1, <2>2, <2>5, <2>13
      <4> QED BY <4>4, <4>5, <2>8 DEF t
    <3> QED BY <3>3, <3>4, <2>1, <2>2, <2>5, <2>13
  <2> QED BY <2>10, <2>12, <2>13
<1> QED BY <1>0, <1>1

\* A new line on the screen leaves the cells alone and goes to the start of the
\* next row; on the last row the text leaves the screen.
LEMMA NewlineOnScreen ==
  ASSUME NEW s \in Crt, OnScreen(s)
  PROVE  LET t == newline(s)
         IN  /\ t.cells = s.cells
             /\ t.row = s.row + 1
             /\ s.row + 1 < g_vga_height => OnScreen(t) /\ Index(t) = t.row * g_vga_width
<1> DEFINE t == newline(s)
           w == g_vga_width
           h == g_vga_height
<1>1. /\ s.row \in 0 .. h - 1 /\ s.col \in 0 .. Word - 1
      /\ w \in Nat /\ w > 0 /\ h \in Nat /\ h > 0 /\ Word \in Nat \ {0} /\ h < Word
  <2>1. /\ s.row \in 0 .. h - 1 /\ s.col \in 0 .. Word - 1
        /\ w \in Nat /\ w > 0 /\ h \in Nat /\ h > 0 /\ Word \in Nat \ {0}
    BY IndexOnScreen, VideoAssumption DEF Crt
  <2> QED BY <2>1, Rows
<1>2. (s.row + 1) % Word = s.row + 1
  <2>1. s.row + 1 \in Nat /\ s.row + 1 < Word
    BY <1>1
  <2> QED BY <2>1, <1>1, WordWraps
<1>3. t \in Crt /\ t.row = s.row + 1 /\ t.col = 0 /\ t.cells = s.cells
  <2>1. t = [s EXCEPT !.row = s.row + 1, !.col = 0]
    BY <1>2 DEF newline
  <2>2. s.row + 1 \in 0 .. Word - 1 /\ 0 \in 0 .. Word - 1
    BY <1>1
  <2> HIDE DEF t
  <2> QED BY <2>1, <2>2 DEF Crt
<1> HIDE DEF t
<1>4. ASSUME s.row + 1 < h
      PROVE  OnScreen(t) /\ Index(t) = t.row * w
  <2>1. OnScreen(t) /\ t.col < w
    BY <1>1, <1>3, <1>4 DEF OnScreen
  <2>2. Index(t) = t.row * w + 0
    BY <2>1, <1>3, IndexOnScreen
  <2>3. t.row * w \in Nat
    BY <1>1, <1>3
  <2> QED BY <2>1, <2>2, <2>3
<1> QED BY <1>3, <1>4 DEF t

\* What putc leaves of the screen s.
Printed(s, c) ==
  CASE c = 10 -> newline(s)
    [] c = 8  -> backspace(s)
    [] OTHER  -> put_plain(s, c)

\* cells are those of s but for one that shows a character in the color, or for
\* none.
OneCellPut(s, cells) ==
  \/ cells = s.cells
  \/ \E k \in Screen, d \in Chars : cells = [s.cells EXCEPT ![k] = vga_entry(d, color)]

LEMMA PutcAtOneCell ==
  ASSUME NEW s \in Crt, NEW c \in Chars, color \in Colors
  PROVE  OneCellPut(s, putc_at(s, c).cells)
<1>1. CASE Index(s) \in Screen
  <2>1. putc_at(s, c).cells = [s.cells EXCEPT ![Index(s)] = vga_entry(c, color)]
    BY <1>1, PutcAt
  <2> QED BY <1>1, <2>1 DEF OneCellPut
<1>2. CASE Index(s) \notin Screen
  BY <1>2, PutcAt DEF OneCellPut
<1> QED BY <1>1, <1>2

\* putc, on the screen or not, changes one cell at most.
LEMMA OneCell ==
  ASSUME NEW s \in Crt, NEW c \in Chars, color \in Colors
  PROVE  LET t == Printed(s, c)
         IN  t \in Crt /\ OneCellPut(s, t.cells)
<1>1. CASE c = 10
  <2>1. Printed(s, c) = [s EXCEPT !.row = (s.row + 1) % Word, !.col = 0]
    BY <1>1 DEF Printed, newline
  <2>2. Word \in Nat \ {0} /\ s.row + 1 \in Nat
    BY VideoAssumption DEF Crt
  <2>3. (s.row + 1) % Word \in 0 .. Word - 1 /\ 0 \in 0 .. Word - 1
    BY <2>2, WordWraps
  <2> QED BY <2>1, <2>3 DEF Crt, OneCellPut
<1>2. CASE c = 8
  <2>1. Printed(s, c) = backspace(s)
    BY <1>2 DEF Printed
  <2>2. CASE s.col = 0 /\ s.row = 0
    BY <2>1, <2>2 DEF backspace, OneCellPut
  <2>3. CASE ~(s.col = 0 /\ s.row = 0)
    <3>1. /\ Back(s) \in Crt /\ Back(s).cells = s.cells /\ backspace(s) \in Crt
          /\ backspace(s).cells = putc_at(Back(s), 32).cells
      BY <2>3, BackspaceEffect
    <3>2. 32 \in Chars
      BY VideoAssumption
    <3>3. OneCellPut(Back(s), putc_at(Back(s), 32).cells)
      BY <3>1, <3>2, PutcAtOneCell
    <3> QED BY <2>1, <3>1, <3>3 DEF OneCellPut
  <2> QED BY <2>2, <2>3
<1>3. CASE c # 10 /\ c # 8
  <2>1. Printed(s, c) = put_plain(s, c)
    BY <1>3 DEF Printed
  <2>2. put_plain(s, c) \in Crt /\ put_plain(s, c).cells = putc_at(s, c).cells
    BY PutPlain
  <2> QED BY <2>1, <2>2, PutcAtOneCell
<1> QED BY <1>1, <1>2, <1>3

\* While no text is lost, putc keeps the cursor on the screen or loses the text.
LEMMA StaysOnScreen ==
  ASSUME NEW s \in Crt, OnScreen(s), NEW c \in Chars, color \in Colors,
         Index(Printed(s, c)) \in Screen, Printed(s, c).row < g_vga_height
  PROVE  OnScreen(Printed(s, c))
<1>1. CASE c = 10
  <2>1. Printed(s, c) = newline(s)
    BY <1>1 DEF Printed
  <2> QED BY <2>1, NewlineOnScreen
<1>2. CASE c = 8
  <2>1. Printed(s, c) = backspace(s)
    BY <1>2 DEF Printed
  <2> QED BY <2>1, BackspaceOnScreen
<1>3. CASE c # 10 /\ c # 8
  <2>1. Printed(s, c) = put_plain(s, c)
    BY <1>3 DEF Printed
  <2> QED BY <2>1, PutOnScreen
<1> QED BY <1>1, <1>2, <1>3

\* The code of a character stays in its byte: the other byte of a cell is the
\* color, or full.
LEMMA EntryColor ==
  ASSUME NEW c \in Chars, NEW clr \in Colors
  PROVE  vga_entry(c, clr) \div 256 \in {clr, 255}
<1>1. c \in 0 .. 255 /\ clr \in 0 .. 15
  BY VideoAssumption
<1>2. (c + 256 * clr) \div 256 = clr /\ (c + 256 * 255) \div 256 = 255
  BY <1>1
<1> QED BY <1>2 DEF vga_entry

----------------------------------------------------------------------------
\* The invariant.

\* The screen starts in it.
LEMMA ConsoleStarts == Init => ConsoleInv
<1> SUFFICES ASSUME Init PROVE ConsoleInv
  OBVIOUS
<1>1. /\ crt = [row |-> 0, col |-> 0, cells |-> crt.cells]
      /\ crt.cells = [i \in Screen |->
                        IF 2 * i < g_vga_width * g_vga_height THEN Black
                        ELSE vga_entry(32, VGA_COLOR_WHITE)]
      /\ color = 15 /\ lost = FALSE /\ data = <<>> /\ number = None
  BY DEF Init, VideoInit, VGA_COLOR_WHITE
<1>2. Black \in Entries /\ vga_entry(32, VGA_COLOR_WHITE) \in Entries
  BY VideoAssumption DEF Entries, VGA_COLOR_WHITE
<1>3. crt.cells \in [Screen -> Entries]
  BY <1>1, <1>2
<1>4. /\ 0 \in 0 .. Word - 1 /\ 0 < g_vga_height /\ 0 < g_vga_width
      /\ 15 \in Colors
  <2>1. 0 \in 0 .. g_vga_height - 1 /\ 0 < g_vga_height /\ 0 < g_vga_width
        /\ 15 \in Colors /\ Word \in Nat /\ g_vga_height \in Nat
    BY VideoAssumption
  <2> QED BY <2>1, Rows
<1>5. crt.row = 0 /\ crt.col = 0
  BY <1>1
<1>6. data \in Seq(Chars)
  BY <1>1
<1>7. crt \in [row : 0 .. Word - 1, col : 0 .. Word - 1, cells : [Screen -> Entries]]
  BY <1>1, <1>3, <1>4
<1> QED BY <1>1, <1>4, <1>5, <1>6, <1>7 DEF ConsoleInv

\* putc keeps what ConsoleInv says of the screen.
LEMMA PutcKeeps ==
  ASSUME ConsoleInv, NEW c \in Chars, putc(c)
  PROVE  /\ crt' \in Crt /\ color' \in Colors /\ lost' \in BOOLEAN
         /\ ~lost' => OnScreen(crt')
<1>1. /\ crt \in Crt /\ color \in Colors /\ lost \in BOOLEAN
      /\ ~lost => OnScreen(crt)
  BY DEF ConsoleInv, Crt, OnScreen
<1>2. /\ crt' = Printed(crt, c) /\ color' = color
      /\ lost' = (lost \/ Index(crt') \notin Screen \/ crt'.row >= g_vga_height)
  BY DEF putc, Printed
<1>3. crt' \in Crt
  BY <1>1, <1>2, OneCell
<1>4. ASSUME ~lost' PROVE OnScreen(crt')
  <2>1. ~lost /\ Index(crt') \in Screen /\ ~(crt'.row >= g_vga_height)
    BY <1>2, <1>4
  <2>2. crt'.row < g_vga_height
    BY <1>3, <2>1, VideoAssumption DEF Crt
  <2> QED BY <1>1, <1>2, <2>1, <2>2, StaysOnScreen
<1>5. lost' \in BOOLEAN
  BY <1>2
<1> QED BY <1>1, <1>2, <1>3, <1>4, <1>5

\* So does clear.
LEMMA ClearKeeps ==
  ASSUME ConsoleInv, clear
  PROVE  /\ crt' \in Crt /\ color' \in Colors /\ lost' = FALSE
         /\ OnScreen(crt') /\ crt'.row = 0 /\ Index(crt') = 0
<1>1. /\ crt' = [row |-> 0, col |-> 0, cells |-> crt'.cells]
      /\ crt'.cells = [i \in Screen |->
                         IF 2 * i < g_vga_width * g_vga_height THEN Black ELSE crt.cells[i]]
      /\ color' = 15 /\ lost' = FALSE
  BY DEF clear, VGA_COLOR_WHITE
<1>2. Black \in Entries /\ crt.cells \in [Screen -> Entries]
  BY DEF Entries, ConsoleInv
<1>3. crt'.cells \in [Screen -> Entries]
  BY <1>1, <1>2
<1>4. /\ 0 \in 0 .. Word - 1 /\ 0 < g_vga_height /\ 0 < g_vga_width
      /\ 15 \in Colors /\ g_vga_width \in Nat
  <2>1. 0 \in 0 .. g_vga_height - 1 /\ 0 < g_vga_height /\ 0 < g_vga_width
        /\ 15 \in Colors /\ Word \in Nat /\ g_vga_height \in Nat /\ g_vga_width \in Nat
    BY VideoAssumption
  <2> QED BY <2>1, Rows
<1>5. crt' \in Crt /\ crt'.row = 0 /\ crt'.col = 0
  BY <1>1, <1>3, <1>4 DEF Crt
<1>6. OnScreen(crt')
  BY <1>4, <1>5 DEF OnScreen
<1>7. Index(crt') = 0 * g_vga_width + 0
  BY <1>4, <1>5, <1>6, IndexOnScreen
<1> QED BY <1>1, <1>4, <1>5, <1>6, <1>7

\* What is still to be put stays a text, and the digits those of the number.
LEMMA ConsoleStep == ConsoleInv /\ [Next]_vars => ConsoleInv'
<1> SUFFICES ASSUME ConsoleInv, [Next]_vars PROVE ConsoleInv'
  OBVIOUS
<1>1. /\ crt \in Crt /\ color \in Colors /\ lost \in BOOLEAN /\ data \in Seq(Chars)
      /\ ~lost => OnScreen(crt)
      /\ number # None => number \in Numbers /\ str = itoa(number)
  BY DEF ConsoleInv, Crt, OnScreen
<1>2. SUFFICES
        /\ crt' \in Crt /\ color' \in Colors /\ lost' \in BOOLEAN
        /\ ~lost' => OnScreen(crt')
        /\ data' \in Seq(Chars)
        /\ number' # None => number' \in Numbers /\ str' = itoa(number')
  <2> QED BY DEF ConsoleInv, Crt, OnScreen
<1>3. CASE UNCHANGED vars
  BY <1>1, <1>3 DEF vars, videoVars
<1>4. ASSUME NEW text \in Texts, print(text)
      PROVE  /\ UNCHANGED videoVars /\ data' \in Seq(Chars)
             /\ number' # None => number' \in Numbers /\ str' = itoa(number')
  BY <1>4, ConsoleAssumption DEF print
<1>5. ASSUME NEW n \in Numbers, print_number(n)
      PROVE  /\ UNCHANGED videoVars /\ data' \in Seq(Chars)
             /\ number' # None => number' \in Numbers /\ str' = itoa(number')
  <2>1. number' = n /\ str' = itoa(n) /\ data' = itoa(n) /\ UNCHANGED videoVars
    BY <1>5 DEF print_number
  <2>2. itoa(n) \in Seq(48 .. 57) /\ 48 .. 57 \subseteq Chars
    BY ItoaReadsBack, ConsoleAssumption
  <2>3. itoa(n) \in Seq(Chars)
    <3> DEFINE D == 48 .. 57
    <3>1. itoa(n) \in Seq(D) /\ D \subseteq Chars
      BY <2>2
    <3> HIDE DEF D
    <3> QED BY <3>1
  <2> QED BY <2>1, <2>3
<1>6. CASE write
  <2>1. data # <<>> /\ putc(Head(data)) /\ data' = Tail(data) /\ UNCHANGED <<number, str>>
    BY <1>6 DEF write
  <2>2. Head(data) \in Chars /\ Tail(data) \in Seq(Chars)
    BY <1>1, <2>1
  <2>3. /\ crt' \in Crt /\ color' \in Colors /\ lost' \in BOOLEAN
        /\ ~lost' => OnScreen(crt')
    BY <2>1, <2>2, PutcKeeps
  <2> QED BY <1>1, <2>1, <2>2, <2>3
<1>7. ASSUME NEW clr \in Colors, change_color(clr)
      PROVE  color' \in Colors /\ UNCHANGED <<crt, lost, data, number, str>>
  BY <1>7 DEF change_color, set_color
<1>8. CASE ostream
  <2>1. clear /\ UNCHANGED <<data, number, str>>
    BY <1>8 DEF ostream
  <2> QED BY <1>1, <2>1, ClearKeeps
<1>9. CASE UNCHANGED videoVars /\ data' \in Seq(Chars)
           /\ (number' # None => number' \in Numbers /\ str' = itoa(number'))
  BY <1>1, <1>9 DEF videoVars
<1>10. CASE color' \in Colors /\ UNCHANGED <<crt, lost, data, number, str>>
  BY <1>1, <1>10
<1> QED BY <1>3, <1>4, <1>5, <1>6, <1>7, <1>8, <1>9, <1>10 DEF Next

\* The inductive invariant of the console.
THEOREM ConsoleCorrect == Spec => []ConsoleInv
<1> QED BY ConsoleStarts, ConsoleStep, PTL DEF Spec

\* print_number prints every number so that atoi reads it back, with no zero
\* before it: itoa and its reversal in place lose no digit.
THEOREM ConsoleNumbersReadBack == Spec => []NumbersReadBack
<1>1. ConsoleInv => NumbersReadBack
  <2> SUFFICES ASSUME ConsoleInv, number # None
               PROVE  /\ str # <<>> /\ atoi(str) = number
                      /\ str[1] = 48 => Len(str) = 1
    BY DEF NumbersReadBack
  <2>1. number \in Nat /\ str = itoa(number)
    BY ConsoleAssumption DEF ConsoleInv
  <2> QED BY <2>1, ItoaReadsBack
<1> QED BY <1>1, ConsoleCorrect, PTL

\* A character that is put changes one cell at most, on the screen or off it,
\* and that cell to the color of the moment, or to the full byte that a negative
\* char gives.
THEOREM ConsoleOneCellInColor == Spec => OneCellInColor
<1> DEFINE Shown ==
      data # <<>> =>
        \A i, j \in Screen :
          /\ crt'.cells[i] # crt.cells[i] /\ crt'.cells[j] # crt.cells[j] => i = j
          /\ crt'.cells[i] # crt.cells[i] => crt'.cells[i] \div 256 \in {color, 255}
<1>1. ConsoleInv /\ [Next]_vars => [Shown]_vars
  <2> SUFFICES ASSUME ConsoleInv, Next, data # <<>>,
                      NEW i \in Screen, NEW j \in Screen, crt'.cells[i] # crt.cells[i]
               PROVE  /\ crt'.cells[j] # crt.cells[j] => i = j
                      /\ crt'.cells[i] \div 256 \in {color, 255}
    OBVIOUS
  <2>1. write
    BY DEF Next, print, print_number, change_color, ostream
  <2>2. Head(data) \in Chars /\ crt \in Crt /\ color \in Colors
    BY DEF ConsoleInv, Crt
  <2>3. crt' = Printed(crt, Head(data))
    BY <2>1 DEF write, putc, Printed
  <2>4. OneCellPut(crt, crt'.cells)
    BY <2>2, <2>3, OneCell
  <2>5. PICK k \in Screen, d \in Chars :
          crt'.cells = [crt.cells EXCEPT ![k] = vga_entry(d, color)]
    BY <2>4 DEF OneCellPut
  <2>6. crt.cells \in [Screen -> Entries]
    BY <2>2 DEF Crt
  <2>7. i = k /\ crt'.cells[i] = vga_entry(d, color) /\ (crt'.cells[j] # crt.cells[j] => j = k)
    BY <2>5, <2>6
  <2> QED BY <2>2, <2>7, EntryColor
<1> QED BY <1>1, ConsoleCorrect, PTL DEF Spec, OneCellInColor

----------------------------------------------------------------------------
\* The refinement.

\* The two screens are one.
LEMMA SameScreen == Promise!Screen = Screen
  BY DEF Promise!Screen, Screen

\* Every character is a step of the terminal: a plain one is put, a new line
\* goes on below, a backspace takes one back, or the text leaves the screen.
LEMMA PutcImplements ==
  ASSUME ConsoleInv, NEW c \in Chars, putc(c)
  PROVE  Promise!Next \/ UNCHANGED <<crt, lost>>
<1> DEFINE t == Printed(crt, c)
<1>1. /\ crt \in Crt /\ color \in Colors /\ lost \in BOOLEAN
      /\ ~lost => OnScreen(crt)
  BY DEF ConsoleInv, Crt, OnScreen
<1>2. /\ crt' = t
      /\ lost' = (lost \/ Index(t) \notin Screen \/ t.row >= g_vga_height)
  BY DEF putc, Printed
<1>3. Index(crt)' = Index(t) /\ crt'.row = t.row /\ crt'.cells = t.cells
  BY <1>2 DEF Index
<1>4. CASE lost
  <2>1. lost'
    BY <1>2, <1>4
  <2> QED BY <1>4, <2>1 DEF Promise!Next, Promise!Anything
<1>5. CASE ~lost
  <2>1. /\ OnScreen(crt) /\ crt.row \in 0 .. g_vga_height - 1 /\ g_vga_height \in Nat
        /\ g_vga_height > 0
    BY <1>1, <1>5, IndexOnScreen, VideoAssumption
  <2>2. t \in Crt
    BY <1>1, OneCell
  <2>3. OnScreen(t) => Index(t) \in Screen /\ ~(t.row >= g_vga_height)
    BY <2>1, <2>2, IndexOnScreen
  <2>4. OnScreen(t) => ~lost'
    BY <1>2, <1>5, <2>3
  <2>5. vga_entry(c, color) \in Entries /\ vga_entry(32, color) \in Entries
    BY <1>1, VideoAssumption DEF Entries
  <2>6. CASE c = 10
    <3>1. t = newline(crt)
      BY <2>6 DEF Printed
    <3>2. /\ t.cells = crt.cells /\ t.row = crt.row + 1
          /\ crt.row + 1 < g_vga_height => OnScreen(t) /\ Index(t) = t.row * g_vga_width
      BY <1>1, <2>1, <3>1, NewlineOnScreen
    <3> HIDE DEF t
    <3>3. CASE crt.row + 1 < g_vga_height
      <4>1. Promise!NewLine
        BY <1>3, <1>5, <2>4, <3>2, <3>3 DEF Promise!NewLine
      <4> QED BY <4>1 DEF Promise!Next
    <3>4. CASE ~(crt.row + 1 < g_vga_height)
      <4>1. crt.row = g_vga_height - 1 /\ t.row >= g_vga_height
        BY <2>1, <3>2, <3>4
      <4>2. lost'
        BY <1>2, <4>1
      <4>3. Promise!Leave
        BY <1>3, <1>5, <3>2, <4>1, <4>2 DEF Promise!Leave
      <4> QED BY <4>3 DEF Promise!Next
    <3> QED BY <3>3, <3>4
  <2>7. CASE c = 8
    <3>1. t = backspace(crt)
      BY <2>7 DEF Printed
    <3>2. \/ t = crt
          \/ /\ Index(crt) > 0 /\ OnScreen(t)
             /\ t.cells = [crt.cells EXCEPT ![Index(crt) - 1] = vga_entry(32, color)]
             /\ Index(t) = Index(crt) - 1 /\ t.row = crt.row
          \/ /\ Index(crt) = 0 /\ crt.row > 0
             /\ t.cells = crt.cells /\ Index(t) \notin Screen
      BY <1>1, <2>1, <3>1, BackspaceOnScreen
    <3> HIDE DEF t
    <3>3. CASE t = crt
      <4>1. lost' = lost
        <5>1. ~lost' /\ lost' \in BOOLEAN
          BY <2>1, <2>4, <3>3, PutcKeeps
        <5> QED BY <1>1, <1>5, <5>1
      <4> QED BY <1>2, <3>3, <4>1
    <3>4. CASE /\ Index(crt) > 0 /\ OnScreen(t)
               /\ t.cells = [crt.cells EXCEPT ![Index(crt) - 1] = vga_entry(32, color)]
               /\ Index(t) = Index(crt) - 1 /\ t.row = crt.row
      <4>1. Promise!Backspace
        BY <1>3, <1>5, <2>4, <2>5, <3>4 DEF Promise!Backspace
      <4> QED BY <4>1 DEF Promise!Next
    <3>5. CASE /\ Index(crt) = 0 /\ crt.row > 0
               /\ t.cells = crt.cells /\ Index(t) \notin Screen
      <4>1. Promise!Leave
        BY <1>2, <1>3, <1>5, <3>5 DEF Promise!Leave
      <4> QED BY <4>1 DEF Promise!Next
    <3> QED BY <3>2, <3>3, <3>4, <3>5
  <2>8. CASE c # 10 /\ c # 8
    <3>1. t = put_plain(crt, c)
      BY <2>8 DEF Printed
    <3>2. /\ OnScreen(t)
          /\ t.cells = [crt.cells EXCEPT ![Index(crt)] = vga_entry(c, color)]
          /\ IF Index(crt) + 1 = (crt.row + 1) * g_vga_width
             THEN t.row = (crt.row + 1) % g_vga_height /\ Index(t) = t.row * g_vga_width
             ELSE Index(t) = Index(crt) + 1 /\ t.row = crt.row
      BY <1>1, <2>1, <3>1, PutOnScreen
    <3> HIDE DEF t
    <3>3. Promise!Put
      BY <1>3, <1>5, <2>4, <2>5, <3>2 DEF Promise!Put
    <3> QED BY <3>3 DEF Promise!Next
  <2> QED BY <2>6, <2>7, <2>8
<1> QED BY <1>1, <1>4, <1>5

\* The text screen of video.c keeps the promise of Terminal for whatever the
\* kernel prints: row and column, wrapped or not, stand for one position, and
\* no character is lost, doubled or put into another cell while the text is on
\* the screen.
THEOREM ConsoleImplementsTerminal == Spec => TerminalSpec
<1>1. Init => Promise!Init
  <2> SUFFICES ASSUME Init PROVE Promise!Init
    OBVIOUS
  <2>1. ConsoleInv
    BY ConsoleStarts
  <2>2. crt.row = 0 /\ crt.col = 0 /\ lost = FALSE
    BY DEF Init, VideoInit
  <2>3. crt \in Crt /\ OnScreen(crt) /\ 0 < g_vga_width /\ g_vga_width \in Nat
    BY <2>1, <2>2, VideoAssumption DEF ConsoleInv, Crt, OnScreen
  <2>4. Index(crt) = 0 * g_vga_width + 0
    BY <2>2, <2>3, IndexOnScreen
  <2>5. crt.cells \in [Screen -> Entries]
    BY <2>3 DEF Crt
  <2> QED BY <2>2, <2>3, <2>4, <2>5, SameScreen DEF Promise!Init
<1>2. ConsoleInv /\ [Next]_vars => [Promise!Next]_(Promise!vars)
  <2> SUFFICES ASSUME ConsoleInv, [Next]_vars PROVE [Promise!Next]_(Promise!vars)
    OBVIOUS
  <2>1. ASSUME UNCHANGED <<crt, lost>> PROVE UNCHANGED Promise!vars
    BY <2>1 DEF Promise!vars, Index
  <2>2. CASE write
    <3>1. Head(data) \in Chars
      BY <2>2 DEF write, ConsoleInv
    <3> QED BY <2>1, <2>2, <3>1, PutcImplements DEF write
  <2>3. CASE ostream
    <3>1. clear
      BY <2>3 DEF ostream
    <3>2. /\ crt' \in Crt /\ lost' = FALSE /\ crt'.row = 0 /\ Index(crt') = 0
      BY <3>1, ClearKeeps
    <3>3. crt'.cells = [i \in Screen |->
                          IF 2 * i < g_vga_width * g_vga_height THEN Black ELSE crt.cells[i]]
      BY <3>1 DEF clear
    <3>4. \A i \in Screen :
            \/ crt'.cells[i] = Black
            \/ 2 * i >= g_vga_width * g_vga_height /\ crt'.cells[i] = crt.cells[i]
      <4> TAKE i \in Screen
      <4> DEFINE a == g_vga_width * g_vga_height
      <4>1. a \in Nat /\ i \in Int
        BY VideoAssumption DEF Screen
      <4>2. crt'.cells[i] = IF 2 * i < a THEN Black ELSE crt.cells[i]
        BY <3>3
      <4> HIDE DEF a
      <4>3. crt'.cells[i] = Black \/ (2 * i >= a /\ crt'.cells[i] = crt.cells[i])
        BY <4>1, <4>2
      <4> QED BY <4>3 DEF a
    <3>5. Index(crt)' = 0
      BY <3>2 DEF Index
    <3>6. crt'.cells \in [Screen -> Entries]
      BY <3>2 DEF Crt
    <3>7. Promise!Clear
      BY <3>2, <3>4, <3>5, <3>6, SameScreen DEF Promise!Clear
    <3> QED BY <3>7 DEF Promise!Next
  <2>4. ASSUME NEW text \in Texts, print(text) PROVE UNCHANGED <<crt, lost>>
    BY <2>4 DEF print, videoVars
  <2>5. ASSUME NEW n \in Numbers, print_number(n) PROVE UNCHANGED <<crt, lost>>
    BY <2>5 DEF print_number, videoVars
  <2>6. ASSUME NEW clr \in Colors, change_color(clr) PROVE UNCHANGED <<crt, lost>>
    BY <2>6 DEF change_color, set_color
  <2>7. CASE UNCHANGED vars
    BY <2>1, <2>7 DEF vars, videoVars
  <2> QED BY <2>1, <2>2, <2>3, <2>4, <2>5, <2>6, <2>7 DEF Next
<1> QED BY <1>1, <1>2, ConsoleCorrect, PTL DEF Spec, TerminalSpec, Promise!Spec
=============================================================================
