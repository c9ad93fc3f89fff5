---------------------------- MODULE PortRangeProofs ----------------------------
(* A range of ports as value/mask pairs, for every width of the port: the pairs *)
(* admit the ports of the range and no others, and there is no shorter way to   *)
(* say it.  The argument is that the call at the head still holds the start of  *)
(* the range, that what stands right of it is made of the longest windows there *)
(* are, and that two windows never overlap in part.                             *)
EXTENDS PortRange, SequenceTheorems, WellFoundedInduction, TLAPS

-----------------------------------------------------------------------------
(* Powers of two *)

\* A set of natural numbers that is not empty has a first one.
LEMMA FirstOne ==
    ASSUME NEW I, I \subseteq Nat, I # {}
    PROVE  \E m \in I : \A i \in I : m <= i
<1> DEFINE R == OpToRel(<, Nat)
<1>1. IsWellFoundedOn(R, Nat)
  BY NatLessThanWellFounded
<1>2. \A i, j \in Nat : <<i, j>> \in R <=> i < j
  BY DEF OpToRel
<1> HIDE DEF R
<1>3. PICK m \in I : \A i \in I : ~(<<i, m>> \in R)
  BY <1>1, WFMin
<1>4. ASSUME NEW i \in I PROVE m <= i
  <2>1. m \in Nat /\ i \in Nat
    OBVIOUS
  <2>2. ~(i < m)
    BY <1>2, <1>3, <2>1
  <2>3. QED
    BY <2>1, <2>2
<1>5. QED
  BY <1>4

\* A set that holds 0 and with a number the next one holds them all.
LEMMA Count ==
    ASSUME NEW S, 0 \in S, \A n \in Nat : n \in S => n + 1 \in S
    PROVE  Nat \subseteq S
<1>1. SUFFICES ASSUME ~(Nat \subseteq S) PROVE FALSE
  OBVIOUS
<1>2. PICK m \in Nat \ S : \A i \in Nat \ S : m <= i
  BY <1>1, FirstOne
<1>3. m # 0 /\ m - 1 \in Nat /\ m = (m - 1) + 1
  BY <1>2
<1>4. m - 1 \notin S
  BY <1>2, <1>3
<1>5. m - 1 \in Nat \ S /\ ~(m <= m - 1)
  BY <1>3, <1>4
<1>6. QED
  BY <1>2, <1>5

\* The first n powers.
Powers(n) == {g \in [0..n -> Nat] : g[0] = 1 /\ \A i \in 1..n : g[i] = 2 * g[i - 1]}

\* There are first powers, however many.
LEMMA PowersExist == \A n \in Nat : Powers(n) # {}
<1> DEFINE S == {n \in Nat : Powers(n) # {}}
<1>1. 0 \in S
  <2>1. [i \in 0..0 |-> 1] \in Powers(0)
    BY DEF Powers
  <2>2. QED
    BY <2>1
<1>2. ASSUME NEW n \in Nat, n \in S PROVE n + 1 \in S
  <2>1. PICK g : g \in Powers(n)
    BY <1>2
  <2>2. g \in [0..n -> Nat] /\ g[0] = 1 /\ \A i \in 1..n : g[i] = 2 * g[i - 1]
    BY <2>1 DEF Powers
  <2>3. PICK h : h = [i \in 0..n + 1 |-> IF i = n + 1 THEN 2 * g[n] ELSE g[i]]
    OBVIOUS
  <2>4. h \in [0..n + 1 -> Nat] /\ h[0] = 1
    BY <2>2, <2>3
  <2>5. ASSUME NEW i \in 1..n + 1 PROVE h[i] = 2 * h[i - 1]
    <3>1. CASE i = n + 1
      BY <2>2, <2>3, <3>1
    <3>2. CASE i \in 1..n
      BY <2>2, <2>3, <3>2
    <3>3. QED
      BY <3>1, <3>2
  <2>6. h \in Powers(n + 1)
    BY <2>4, <2>5 DEF Powers
  <2>7. QED
    BY <2>6
<1>3. Nat \subseteq S
  <2> HIDE DEF S
  <2>1. QED
    BY <1>1, <1>2, Count
<1>4. QED
  BY <1>3

\* However many are taken, they are the same.
LEMMA PowersAgree ==
    \A i, n, m \in Nat : i <= n /\ i <= m =>
        \A g \in Powers(n), h \in Powers(m) : g[i] = h[i]
<1> DEFINE S == {i \in Nat : \A n, m \in Nat : i <= n /\ i <= m =>
                                \A g \in Powers(n), h \in Powers(m) : g[i] = h[i]}
<1>1. 0 \in S
  BY DEF Powers
<1>2. ASSUME NEW i \in Nat, i \in S PROVE i + 1 \in S
  <2>1. ASSUME NEW n \in Nat, NEW m \in Nat, i + 1 <= n, i + 1 <= m,
               NEW g \in Powers(n), NEW h \in Powers(m)
        PROVE  g[i + 1] = h[i + 1]
    <3>1. g[i] = h[i]
      BY <1>2, <2>1
    <3>2. i + 1 \in 1..n /\ i + 1 \in 1..m /\ (i + 1) - 1 = i
      BY <2>1
    <3>3. g[i + 1] = 2 * g[i] /\ h[i + 1] = 2 * h[i]
      BY <3>2 DEF Powers
    <3>4. QED
      BY <3>1, <3>3
  <2>2. QED
    BY <2>1
<1>3. Nat \subseteq S
  <2> HIDE DEF S
  <2>1. QED
    BY <1>1, <1>2, Count
<1>4. QED
  BY <1>3

\* So the function of all of them, which Pow2 chooses, is there.
LEMMA Pow2IsDefined ==
    Pow2 = [n \in Nat |-> IF n = 0 THEN 1 ELSE 2 * Pow2[n - 1]]
<1> DEFINE f == [n \in Nat |-> (CHOOSE g : g \in Powers(n))[n]]
<1>1. \A n \in Nat : \E g \in Powers(n) : f[n] = g[n]
  BY PowersExist
<1> HIDE DEF f
<1>2. \A n \in Nat : \A g \in Powers(n) : f[n] = g[n]
  BY <1>1, PowersAgree
<1>3. ASSUME NEW n \in Nat PROVE f[n] = IF n = 0 THEN 1 ELSE 2 * f[n - 1]
  <2>1. PICK g : g \in Powers(n)
    BY PowersExist
  <2>2. CASE n = 0
    BY <1>2, <2>1, <2>2 DEF Powers
  <2>3. CASE n # 0
    <3>1. n - 1 \in Nat /\ n \in 1..n
      BY <2>3
    <3>2. PICK h : h \in Powers(n - 1)
      BY <3>1, PowersExist
    <3>3. g[n] = 2 * g[n - 1]
      BY <2>1, <3>1 DEF Powers
    <3>4. g[n - 1] = h[n - 1]
      BY <2>1, <3>1, <3>2, PowersAgree
    <3>5. f[n] = g[n] /\ f[n - 1] = h[n - 1]
      BY <1>2, <2>1, <3>1, <3>2
    <3>6. QED
      BY <2>3, <3>3, <3>4, <3>5
  <2>4. QED
    BY <2>2, <2>3
<1>4. f = [n \in Nat |-> IF n = 0 THEN 1 ELSE 2 * f[n - 1]]
  <2>1. f = [n \in Nat |-> f[n]]
    BY DEF f
  <2>2. QED
    BY <1>3, <2>1
<1>5. \E p : p = [n \in Nat |-> IF n = 0 THEN 1 ELSE 2 * p[n - 1]]
  BY <1>4
<1>6. QED
  BY <1>5, Zenon DEF Pow2

\* What is known of the powers: one after the other, and what lies between two.
LEMMA Pow2Facts ==
    /\ Pow2[0] = 1
    /\ \A n \in Nat : Pow2[n] \in Nat \ {0} /\ Pow2[n + 1] = 2 * Pow2[n]
<1>1. Pow2[0] = 1 /\ \A n \in Nat : Pow2[n + 1] = 2 * Pow2[n]
  <2>1. ASSUME NEW n \in Nat PROVE Pow2[n] = IF n = 0 THEN 1 ELSE 2 * Pow2[n - 1]
    BY Pow2IsDefined, Zenon
  <2>2. ASSUME NEW n \in Nat PROVE Pow2[n + 1] = 2 * Pow2[n]
    <3>1. n + 1 \in Nat /\ n + 1 # 0 /\ (n + 1) - 1 = n
      OBVIOUS
    <3>2. QED
      BY <2>1, <3>1
  <2>3. QED
    BY <2>1, <2>2
<1> DEFINE S == {n \in Nat : Pow2[n] \in Nat \ {0}}
<1>2. 0 \in S
  BY <1>1
<1>3. ASSUME NEW n \in Nat, n \in S PROVE n + 1 \in S
  <2>1. Pow2[n] \in Nat \ {0} /\ Pow2[n + 1] = 2 * Pow2[n]
    BY <1>1, <1>3
  <2>2. QED
    BY <2>1
<1>4. Nat \subseteq S
  <2> HIDE DEF S
  <2>1. QED
    BY <1>2, <1>3, Count
<1>5. QED
  BY <1>1, <1>4

\* A power is a multiple of every smaller one.
LEMMA Pow2Divides ==
    \A a, d \in Nat : \E k \in Nat \ {0} : Pow2[a + d] = Pow2[a] * k
<1> SUFFICES ASSUME NEW a \in Nat
             PROVE  \A d \in Nat : \E k \in Nat \ {0} : Pow2[a + d] = Pow2[a] * k
  OBVIOUS
<1> DEFINE S == {d \in Nat : \E k \in Nat \ {0} : Pow2[a + d] = Pow2[a] * k}
<1>1. 0 \in S
  <2>1. Pow2[a + 0] = Pow2[a] * 1
    BY Pow2Facts
  <2>2. QED
    BY <2>1
<1>2. ASSUME NEW d \in Nat, d \in S PROVE d + 1 \in S
  <2>1. PICK k \in Nat \ {0} : Pow2[a + d] = Pow2[a] * k
    BY <1>2
  <2>2. a + d \in Nat /\ a + (d + 1) = (a + d) + 1
    OBVIOUS
  <2>3. Pow2[a + (d + 1)] = 2 * (Pow2[a] * k)
    BY <2>1, <2>2, Pow2Facts
  <2>4. PICK p \in Nat : p = Pow2[a]
    BY Pow2Facts
  <2>5. 2 * (p * k) = p * (2 * k)
    OBVIOUS
  <2>6. 2 * k \in Nat \ {0} /\ Pow2[a + (d + 1)] = Pow2[a] * (2 * k)
    BY <2>3, <2>4, <2>5
  <2>7. QED
    BY <2>6
<1>3. Nat \subseteq S
  <2> HIDE DEF S
  <2>1. QED
    BY <1>1, <1>2, Count
<1>4. QED
  BY <1>3

-----------------------------------------------------------------------------
(* Windows *)

\* Division with remainder.
LEMMA Division ==
    ASSUME NEW s \in Nat \ {0}, NEW a \in Nat
    PROVE  a % s \in 0..(s - 1) /\ a \div s \in Nat /\ a = s * (a \div s) + (a % s)
OBVIOUS

\* Multiples lie a whole length apart.
LEMMA Apart ==
    ASSUME NEW s \in Nat \ {0}, NEW i \in Nat, NEW j \in Nat
    PROVE  /\ s * i \in Nat
           /\ s * i < s * j => i < j
           /\ i < j => s * i + s <= s * j
<1>1. i < j => s * i + s <= s * j
  <2>1. ASSUME i < j PROVE s * (i + 1) <= s * j
    <3>1. j - (i + 1) \in Nat
      BY <2>1
    <3>2. s * (j - (i + 1)) \in Nat
      BY <3>1
    <3>3. s * (j - (i + 1)) = s * j - s * (i + 1)
      OBVIOUS
    <3>4. QED
      BY <3>2, <3>3
  <2>2. QED
    BY <2>1
<1>2. s * i < s * j => i < j
  <2>1. ASSUME ~(i < j) PROVE ~(s * i < s * j)
    <3>1. i - j \in Nat /\ s * (i - j) = s * i - s * j
      BY <2>1
    <3>2. s * (i - j) \in Nat
      BY <3>1
    <3>3. QED
      BY <3>1, <3>2
  <2>2. QED
    BY <2>1
<1>3. QED
  BY <1>1, <1>2

\* What is on a boundary is a multiple, and a multiple is on one.
LEMMA Boundary ==
    ASSUME NEW s \in Nat \ {0}, NEW a \in Nat
    PROVE  (a % s = 0) <=> \E i \in Nat : a = s * i
<1>1. ASSUME a % s = 0 PROVE \E i \in Nat : a = s * i
  <2>1. a \div s \in Nat /\ a = s * (a \div s)
    BY <1>1, Division
  <2>2. QED
    BY <2>1
<1>2. ASSUME NEW i \in Nat, a = s * i PROVE a % s = 0
  <2>1. PICK j \in Nat, k \in 0..(s - 1) : j = a \div s /\ k = a % s /\ a = s * j + k
    BY Division
  <2>2. CASE i < j
    <3>1. s * i + s <= s * j
      BY <2>2, Apart
    <3>2. QED
      BY <1>2, <2>1, <3>1, Apart
  <2>3. CASE j < i
    <3>1. s * j + s <= s * i
      BY <2>3, Apart
    <3>2. QED
      BY <1>2, <2>1, <3>1, Apart
  <2>4. CASE i = j
    BY <1>2, <2>1, <2>4
  <2>5. QED
    BY <2>2, <2>3, <2>4
<1>3. QED
  BY <1>1, <1>2

\* The window of a length that holds a port.
LEMMA Holds ==
    ASSUME NEW s \in Nat \ {0}, NEW p \in Nat
    PROVE  /\ RangeStart(p, s) \in 0..p /\ RangeEnd(p, s) \in Nat
           /\ p <= RangeEnd(p, s)
           /\ RangeStart(p, s) % s = 0
<1>1. p % s \in 0..(s - 1) /\ p \div s \in Nat /\ p = s * (p \div s) + (p % s)
  BY Division
<1>2. PICK i \in Nat, k \in 0..(s - 1) : i = p \div s /\ k = p % s /\ p = s * i + k
  BY <1>1
<1>3. RangeStart(p, s) = s * i /\ s * i \in 0..p
  BY <1>2, Apart DEF RangeStart
<1>4. (s * i) % s = 0
  BY <1>3, Boundary
<1>5. QED
  BY <1>2, <1>3, <1>4 DEF RangeEnd

\* A window admits what lies in it.
LEMMA WindowAdmits ==
    ASSUME NEW s \in Nat \ {0}, NEW a \in Nat, a % s = 0, NEW p \in Nat
    PROVE  RangeStart(p, s) = a <=> p \in a..(a + s - 1)
<1>1. PICK b \in Nat : b = RangeStart(p, s) /\ b % s = 0 /\ b <= p /\ p <= b + s - 1
  <2>1. /\ RangeStart(p, s) \in 0..p /\ p <= RangeEnd(p, s)
        /\ RangeStart(p, s) % s = 0
    BY Holds
  <2>2. PICK b : b = RangeStart(p, s)
    OBVIOUS
  <2>3. b \in Nat /\ b <= p /\ b % s = 0 /\ p <= b + s - 1
    BY <2>1, <2>2 DEF RangeEnd
  <2>4. QED
    BY <2>2, <2>3
<1>2. PICK i \in Nat, j \in Nat : a = s * i /\ b = s * j
  BY <1>1, Boundary
<1>3. CASE i < j
  <2>1. s * i + s <= s * j
    BY <1>3, Apart
  <2>2. QED
    BY <1>1, <1>2, <2>1
<1>4. CASE j < i
  <2>1. s * j + s <= s * i
    BY <1>4, Apart
  <2>2. QED
    BY <1>1, <1>2, <2>1
<1>5. CASE i = j
  BY <1>1, <1>2, <1>5
<1>6. QED
  BY <1>3, <1>4, <1>5

\* The lengths: from one port to all of them; half a length is one, too.
LEMMA Lengths ==
    /\ MaxPort \in Nat \ {0}
    /\ 1 \in Sizes
    /\ \A s \in Sizes : /\ s \in Nat \ {0} /\ s <= MaxPort + 1
                        /\ s # 1 => s \div 2 \in Sizes /\ s = 2 * (s \div 2)
<1>1. Pow2[Width] \in Nat /\ MaxPort = Pow2[Width] - 1
  BY Pow2Facts, WidthAssumption DEF MaxPort
<1>2. 1 \in Sizes
  BY Pow2Facts, WidthAssumption DEF Sizes
<1>3. ASSUME NEW s \in Sizes
      PROVE  /\ s \in Nat \ {0} /\ s <= MaxPort + 1
             /\ s # 1 => s \div 2 \in Sizes /\ s = 2 * (s \div 2)
  <2>1. PICK b \in 0..Width : s = Pow2[b]
    BY DEF Sizes
  <2>2. s \in Nat \ {0}
    BY <2>1, Pow2Facts, WidthAssumption
  <2>3. s <= Pow2[Width]
    <3>1. Width - b \in Nat /\ b \in Nat /\ Width = b + (Width - b)
      BY WidthAssumption
    <3>2. PICK k \in Nat \ {0} : Pow2[Width] = s * k
      BY <2>1, <3>1, Pow2Divides
    <3>3. CASE k = 1
      BY <2>2, <3>2, <3>3
    <3>4. CASE k # 1
      <4>1. s * 0 + s <= s * k
        BY <2>2, Apart
      <4>2. QED
        BY <2>2, <3>2, <4>1
    <3>5. QED
      BY <3>3, <3>4
  <2>4. ASSUME s # 1 PROVE s \div 2 \in Sizes /\ s = 2 * (s \div 2)
    <3>1. b - 1 \in 0..Width /\ b - 1 \in Nat /\ b = (b - 1) + 1
      BY <2>1, <2>4, Pow2Facts, WidthAssumption
    <3>2. PICK h \in Nat : h = Pow2[b - 1]
      BY <3>1, Pow2Facts
    <3>3. s = 2 * h
      BY <2>1, <3>1, <3>2, Pow2Facts
    <3>4. s \div 2 = h
      BY <3>3
    <3>5. QED
      BY <3>1, <3>2, <3>3, <3>4 DEF Sizes
  <2>5. QED
    BY <1>1, <2>2, <2>3, <2>4
<1>4. Pow2[Width] # 1
  <2>1. Width - 1 \in Nat /\ Width = (Width - 1) + 1
    BY WidthAssumption
  <2>2. Pow2[Width] = 2 * Pow2[Width - 1] /\ Pow2[Width - 1] \in Nat
    BY <2>1, Pow2Facts
  <2>3. QED
    BY <2>2
<1>5. Pow2[Width] # 0
  BY Pow2Facts, WidthAssumption
<1>6. QED
  BY <1>1, <1>2, <1>3, <1>4, <1>5

\* Of two lengths the longer is a multiple of the shorter.
LEMMA LengthsDivide ==
    ASSUME NEW s \in Sizes, NEW t \in Sizes, s <= t
    PROVE  \E k \in Nat \ {0} : t = s * k
<1>1. PICK a \in 0..Width, b \in 0..Width : s = Pow2[a] /\ t = Pow2[b]
  BY DEF Sizes
<1>2. a \in Nat /\ b \in Nat /\ s \in Nat \ {0} /\ t \in Nat \ {0}
  BY <1>1, Lengths, WidthAssumption
<1>3. CASE a <= b
  <2>1. b - a \in Nat /\ b = a + (b - a)
    BY <1>2, <1>3
  <2>2. QED
    BY <1>1, <1>2, <2>1, Pow2Divides
<1>4. CASE b < a
  <2>1. a - b \in Nat /\ a = b + (a - b)
    BY <1>2, <1>4
  <2>2. PICK k \in Nat \ {0} : s = t * k
    BY <1>1, <1>2, <2>1, Pow2Divides
  <2>3. CASE k = 1
    BY <1>2, <2>2, <2>3
  <2>4. CASE k # 1
    <3>1. t * 1 + t <= t * k
      BY <1>2, <2>4, Apart
    <3>2. QED
      BY <1>2, <2>2, <3>1
  <2>5. QED
    BY <2>3, <2>4
<1>5. QED
  BY <1>2, <1>3, <1>4

\* Two windows that share a port do not overlap in part: the longer holds the

\* shorter.
LEMMA Nested ==
    ASSUME NEW s \in Sizes, NEW t \in Sizes, s <= t,
           NEW a \in Nat, a % s = 0, NEW b \in Nat, b % t = 0,
           NEW p \in Nat, p \in a..(a + s - 1), p \in b..(b + t - 1)
    PROVE  b <= a /\ a + s <= b + t
<1>1. s \in Nat \ {0} /\ t \in Nat \ {0}
  BY Lengths
<1>2. PICK k \in Nat \ {0} : t = s * k
  BY LengthsDivide
<1>3. PICK i \in Nat, n \in Nat : a = s * i /\ b = t * n
  <2>1. \E i \in Nat : a = s * i
    BY <1>1, Boundary
  <2>2. \E n \in Nat : b = t * n
    BY <1>1, Boundary
  <2>3. QED
    BY <2>1, <2>2
<1>4. PICK j \in Nat : j = k * n
  OBVIOUS
<1>5. b = s * j
  BY <1>1, <1>2, <1>3, <1>4
<1>6. b <= a
  <2>1. ~(i < j)
    <3>1. i < j => s * i + s <= s * j
      BY <1>1, Apart
    <3>2. QED
      BY <1>1, <1>3, <1>5, <3>1
  <2>2. ~(s * i < s * j)
    BY <1>1, <2>1, Apart
  <2>3. QED
    BY <1>3, <1>5, <2>2
<1>7. a + s <= b + t
  <2>1. b + t = s * (j + k)
    BY <1>1, <1>2, <1>5
  <2>2. s * i < s * (j + k)
    BY <1>1, <1>3, <2>1
  <2>3. i < j + k
    BY <1>1, <2>2, Apart
  <2>4. s * i + s <= s * (j + k)
    BY <1>1, <2>3, Apart
  <2>5. QED
    BY <1>3, <2>1, <2>4
<1>8. QED
  BY <1>6, <1>7

-----------------------------------------------------------------------------
(* What has been done, and what is left *)

\* The pieces of a range: blocks that are returned, and the work left.
Pair  == [value : Port, mask : Port]
Piece == [is : {"call", "block"}, start : Int, end : Int]
Done(o) == [i \in DOMAIN o |-> Item(o[i].value, MaxPort - o[i].mask + 1)]
Parts == Done(out) \o todo

Typed ==
    /\ range \in [start : Port, end : Port]
    /\ todo \in Seq(Piece)
    /\ out \in Seq(Pair)
    /\ size \in Sizes \cup {0}
    /\ result \in {"busy", "ok", "invalid"}

\* One after the other, from a to b.
Chain(s, a, b) ==
    /\ s # <<>>
    /\ s[1].start = a
    /\ s[Len(s)].end = b
    /\ \A i \in 1..Len(s) : a <= s[i].start /\ s[i].start <= s[i].end /\ s[i].end <= b
    /\ \A i \in 1..(Len(s) - 1) : s[i + 1].start = s[i].end + 1

\* A block is one of the longest windows.
Good(p) == [start |-> p.start, size |-> p.end - p.start + 1] \in Longest(range)

\* Only the head may be a call, and then nothing has been returned.
Shape ==
    /\ \A i \in 2..Len(todo) : todo[i].is = "block"
    /\ todo # <<>> /\ todo[1].is = "call" => out = <<>>
    /\ \A i \in 1..Len(Parts) : Parts[i].is = "block" => Good(Parts[i])

\* The windows that have been tried were too long.
Tried ==
    size # 0 =>
        /\ todo # <<>> /\ todo[1].is = "call" /\ todo[1].start # todo[1].end
        /\ size <= todo[1].end - todo[1].start + 1
        /\ \A t \in Sizes : size < t /\ t <= todo[1].end - todo[1].start + 1
                               => RangeEnd(todo[1].end, t) # todo[1].end

Taken ==
    Proper => /\ result # "invalid"
              /\ Chain(Parts, range.start, range.end)
              /\ Shape
              /\ Tried
              /\ result = "ok" => todo = <<>>

Refused ==
    ~Proper => /\ todo = <<Call(range.start, range.end)>> /\ out = <<>> /\ size = 0
               /\ result # "ok"

RangeInv == Typed /\ Taken /\ Refused

\* A sequence of which the first piece is known.
LEMMA FirstPiece ==
    ASSUME NEW x \in Piece, NEW t \in Seq(Piece)
    PROVE  LET s == <<x>> \o t
           IN /\ s \in Seq(Piece) /\ s # <<>> /\ Len(s) = Len(t) + 1 /\ Len(t) \in Nat
              /\ s[1] = x /\ \A i \in 1..Len(t) : s[i + 1] = t[i]
OBVIOUS

\* One whose first piece is taken off.
LEMMA HeadAndTail ==
    ASSUME NEW s \in Seq(Piece), s # <<>>
    PROVE  /\ Head(s) \in Piece /\ Tail(s) \in Seq(Piece) /\ Head(s) = s[1]
           /\ Len(s) = Len(Tail(s)) + 1 /\ Len(Tail(s)) \in Nat
           /\ \A i \in 1..Len(Tail(s)) : Tail(s)[i] = s[i + 1]
OBVIOUS

\* The first piece becomes another one of the same extent.
LEMMA Replaced ==
    ASSUME NEW s \in Seq(Piece), NEW u \in Seq(Piece), NEW a \in Int, NEW b \in Int,
           Chain(s, a, b), Len(u) = Len(s),
           u[1].start = s[1].start, u[1].end = s[1].end,
           \A i \in 2..Len(s) : u[i] = s[i]
    PROVE  Chain(u, a, b)
<1>1. /\ Len(s) \in Nat \ {0} /\ s[1].start = a /\ s[Len(s)].end = b
      /\ \A i \in 1..Len(s) : a <= s[i].start /\ s[i].start <= s[i].end /\ s[i].end <= b
      /\ \A i \in 1..(Len(s) - 1) : s[i + 1].start = s[i].end + 1
  BY DEF Chain
<1>2. \A i \in 1..Len(s) : u[i].start = s[i].start /\ u[i].end = s[i].end
  <2>1. ASSUME NEW i \in 1..Len(s) PROVE u[i].start = s[i].start /\ u[i].end = s[i].end
    <3>1. CASE i = 1
      BY <3>1
    <3>2. CASE i # 1
      <4>1. i \in 2..Len(s)
        BY <1>1, <3>2
      <4>2. QED
        BY <4>1
    <3>3. QED
      BY <3>1, <3>2
  <2>2. QED
    BY <2>1
<1>3. u # <<>> /\ u[1].start = a /\ u[Len(u)].end = b
  BY <1>1, <1>2
<1>4. \A i \in 1..Len(u) : a <= u[i].start /\ u[i].start <= u[i].end /\ u[i].end <= b
  BY <1>1, <1>2
<1>5. ASSUME NEW i \in 1..(Len(u) - 1) PROVE u[i + 1].start = u[i].end + 1
  <2>1. i \in 1..Len(s) /\ i + 1 \in 1..Len(s) /\ i \in 1..(Len(s) - 1)
    BY <1>1
  <2>2. QED
    BY <1>1, <1>2, <2>1
<1>6. QED
  BY <1>3, <1>4, <1>5 DEF Chain

\* The first piece is cut in two.
LEMMA CutInTwo ==
    ASSUME NEW s \in Seq(Piece), NEW u \in Seq(Piece), NEW a \in Int, NEW b \in Int,
           Chain(s, a, b), Len(u) = Len(s) + 1,
           u[1].start = s[1].start, u[2].end = s[1].end, u[2].start = u[1].end + 1,
           u[1].start <= u[1].end, u[2].start <= u[2].end,
           \A i \in 2..Len(s) : u[i + 1] = s[i]
    PROVE  Chain(u, a, b)
<1>1. /\ Len(s) \in Nat \ {0} /\ s[1].start = a /\ s[Len(s)].end = b
      /\ \A i \in 1..Len(s) : a <= s[i].start /\ s[i].start <= s[i].end /\ s[i].end <= b
      /\ \A i \in 1..(Len(s) - 1) : s[i + 1].start = s[i].end + 1
  BY DEF Chain
<1>2. u[1] \in Piece /\ u[2] \in Piece /\ s[1] \in Piece
  <2>1. 1 \in 1..Len(u) /\ 2 \in 1..Len(u) /\ 1 \in 1..Len(s)
    BY <1>1
  <2>2. QED
    BY <2>1, ElementOfSeq
<1>3. /\ u[1].start \in Int /\ u[1].end \in Int /\ u[2].start \in Int /\ u[2].end \in Int
      /\ a <= s[1].start /\ s[1].end <= b
  BY <1>1, <1>2 DEF Piece
<1>4. u # <<>> /\ u[1].start = a
  BY <1>1
<1>5. u[Len(u)].end = b
  <2>1. CASE Len(s) = 1
    BY <1>1, <2>1
  <2>2. CASE Len(s) # 1
    <3>1. PICK l \in Nat \ {0} : l = Len(s)
      BY <1>1
    <3>2. l \in 2..l
      BY <2>2, <3>1
    <3>3. u[l + 1] = s[l]
      BY <3>1, <3>2
    <3>4. QED
      BY <1>1, <3>1, <3>3
  <2>3. QED
    BY <2>1, <2>2
<1>6. ASSUME NEW i \in 1..Len(u)
      PROVE  a <= u[i].start /\ u[i].start <= u[i].end /\ u[i].end <= b
  <2>1. CASE i = 1
    BY <1>1, <1>3, <2>1
  <2>2. CASE i = 2
    BY <1>1, <1>3, <2>2
  <2>3. CASE i > 2
    <3>1. i - 1 \in 2..Len(s) /\ i - 1 \in 1..Len(s) /\ (i - 1) + 1 = i
      BY <1>1, <2>3
    <3>2. u[i] = s[i - 1]
      BY <3>1
    <3>3. QED
      BY <1>1, <3>1, <3>2
  <2>4. QED
    BY <2>1, <2>2, <2>3
<1>7. ASSUME NEW i \in 1..(Len(u) - 1) PROVE u[i + 1].start = u[i].end + 1
  <2>1. CASE i = 1
    BY <2>1
  <2>2. CASE i = 2
    <3>1. 2 \in 2..Len(s) /\ 1 \in 1..(Len(s) - 1)
      BY <1>1, <2>2
    <3>2. u[3] = s[2] /\ s[2].start = s[1].end + 1
      BY <1>1, <3>1
    <3>3. QED
      BY <2>2, <3>2
  <2>3. CASE i > 2
    <3>1. i - 1 \in 2..Len(s) /\ i \in 2..Len(s) /\ i - 1 \in 1..(Len(s) - 1) /\ (i - 1) + 1 = i
      BY <1>1, <2>3
    <3>2. u[i] = s[i - 1] /\ u[i + 1] = s[i]
      BY <3>1
    <3>3. QED
      BY <1>1, <3>1, <3>2
  <2>4. QED
    BY <2>1, <2>2, <2>3
<1>8. QED
  BY <1>4, <1>5, <1>6, <1>7 DEF Chain

\* Every port of a chain lies in one of its pieces.
LEMMA ChainCovers ==
    ASSUME NEW s \in Seq(Piece), NEW a \in Int, NEW b \in Int, Chain(s, a, b), NEW p \in a..b
    PROVE  \E i \in 1..Len(s) : s[i].start <= p /\ p <= s[i].end
<1> DEFINE I == {i \in 1..Len(s) : p <= s[i].end}
<1>1. /\ Len(s) \in Nat \ {0} /\ s[1].start = a /\ s[Len(s)].end = b
      /\ \A i \in 1..(Len(s) - 1) : s[i + 1].start = s[i].end + 1
  BY DEF Chain
<1>2. I \subseteq Nat /\ Len(s) \in I
  BY <1>1
<1>3. PICK m \in I : \A i \in I : m <= i
  <2> HIDE DEF I
  <2>1. QED
    BY <1>2, FirstOne
<1>4. m \in 1..Len(s) /\ p <= s[m].end
  OBVIOUS
<1>5. CASE m = 1
  BY <1>1, <1>4, <1>5
<1>6. CASE m # 1
  <2>1. m - 1 \in 1..(Len(s) - 1) /\ m - 1 \in 1..Len(s) /\ (m - 1) + 1 = m
    BY <1>1, <1>4, <1>6
  <2>2. m - 1 \notin I
    BY <1>3, <2>1
  <2>3. ~(p <= s[m - 1].end)
    BY <2>1, <2>2
  <2>4. s[m].start = s[m - 1].end + 1 /\ s[m - 1] \in Piece
    BY <1>1, <2>1, ElementOfSeq
  <2>5. s[m - 1].end \in Int
    BY <2>4 DEF Piece
  <2>6. s[m].start <= p
    BY <2>3, <2>4, <2>5
  <2>7. QED
    BY <1>4, <2>6
<1>7. QED
  BY <1>5, <1>6

\* What a longest window is.
LEMMA LongestFacts ==
    ASSUME Typed, NEW a, NEW s
    PROVE  [start |-> a, size |-> s] \in Longest(range)
             <=> /\ a \in range.start..range.end /\ s \in Sizes
                 /\ a % s = 0 /\ a + s - 1 <= range.end
                 /\ \A b \in range.start..range.end, t \in Sizes :
                      b % t = 0 /\ b + t - 1 <= range.end /\ b <= a /\ a < b + t => t <= s
<1> DEFINE w == [start |-> a, size |-> s]
<1>1. w \in Windows(range) <=> /\ a \in range.start..range.end /\ s \in Sizes
                               /\ a % s = 0 /\ a + s - 1 <= range.end
  BY DEF Windows
<1>2. w \in Longest(range) <=>
        /\ w \in Windows(range)
        /\ \A v \in Windows(range) : v.start <= a /\ a < v.start + v.size => v.size <= s
  BY DEF Longest
<1>3. (\A v \in Windows(range) : v.start <= a /\ a < v.start + v.size => v.size <= s)
        <=> \A b \in range.start..range.end, t \in Sizes :
              b % t = 0 /\ b + t - 1 <= range.end /\ b <= a /\ a < b + t => t <= s
  <2>1. ASSUME \A v \in Windows(range) : v.start <= a /\ a < v.start + v.size => v.size <= s,
               NEW b \in range.start..range.end, NEW t \in Sizes,
               b % t = 0, b + t - 1 <= range.end, b <= a, a < b + t
        PROVE  t <= s
    <3>1. [start |-> b, size |-> t] \in Windows(range)
      BY <2>1 DEF Windows
    <3>2. QED
      BY <2>1, <3>1
  <2>2. ASSUME \A b \in range.start..range.end, t \in Sizes :
                 b % t = 0 /\ b + t - 1 <= range.end /\ b <= a /\ a < b + t => t <= s,
               NEW v \in Windows(range), v.start <= a, a < v.start + v.size
        PROVE  v.size <= s
    <3>1. /\ v.start \in range.start..range.end /\ v.size \in Sizes
          /\ v.start % v.size = 0 /\ v.start + v.size - 1 <= range.end
      BY DEF Windows
    <3>2. QED
      BY <2>2, <3>1
  <2>3. QED
    BY <2>1, <2>2
<1>4. QED
  BY <1>1, <1>2, <1>3

\* The last window that ends at e, before a longest window or the end of the

\* range, is a longest window, if no longer one ends at e.
LEMMA LastWindow ==
    ASSUME Typed, Proper, NEW e \in range.start..range.end, NEW s \in Sizes,
           RangeEnd(e, s) = e, s <= e - range.start + 1,
           \A t \in Sizes : s < t /\ t <= e - range.start + 1 => RangeEnd(e, t) # e,
           e = range.end \/ \E n : [start |-> e + 1, size |-> n] \in Longest(range)
    PROVE  [start |-> RangeStart(e, s), size |-> s] \in Longest(range)
<1>1. /\ range.start \in Nat \ {0} /\ range.end \in Nat /\ range.start <= range.end /\ e \in Nat
      /\ s \in Nat \ {0}
  BY Lengths DEF Typed, Port, Proper
<1>2. PICK a : a = RangeStart(e, s)
  OBVIOUS
<1>3. a \in Nat /\ a % s = 0 /\ a + s - 1 = e
  <2>1. RangeStart(e, s) \in 0..e /\ RangeStart(e, s) % s = 0
    BY <1>1, Holds
  <2>2. QED
    BY <1>2, <2>1 DEF RangeEnd
<1>4. a \in range.start..range.end /\ a <= e
  BY <1>1, <1>3
<1>5. ASSUME NEW b \in range.start..range.end, NEW t \in Sizes,
             b % t = 0, b + t - 1 <= range.end, b <= a, a < b + t, ~(t <= s)
      PROVE  FALSE
  <2>1. t \in Nat \ {0} /\ b \in Nat /\ s <= t
    BY <1>1, <1>5, Lengths
  <2>2. a \in a..(a + s - 1) /\ a \in b..(b + t - 1)
    BY <1>1, <1>3, <1>5, <2>1
  <2>3. a + s <= b + t
    BY <1>3, <1>5, <2>1, <2>2, Nested
  <2>4. CASE b + t - 1 = e
    <3>1. e \in b..(b + t - 1)
      BY <1>1, <2>1, <2>4
    <3>2. RangeStart(e, t) = b
      BY <1>1, <1>5, <2>1, <3>1, WindowAdmits
    <3>3. RangeEnd(e, t) = e
      BY <2>4, <3>2 DEF RangeEnd
    <3>4. t <= e - range.start + 1
      BY <1>1, <1>5, <2>1, <2>4
    <3>5. s < t
      BY <1>1, <1>5, <2>1
    <3>6. QED
      BY <3>3, <3>4, <3>5
  <2>5. CASE b + t - 1 # e
    <3>1. e < b + t - 1 /\ e < range.end
      BY <1>1, <1>3, <1>5, <2>1, <2>3, <2>5
    <3>2. PICK n : [start |-> e + 1, size |-> n] \in Longest(range)
      <4>1. e # range.end
        BY <1>1, <3>1
      <4>2. QED
        BY <4>1, Zenon
    <3>3. PICK c : c = e + 1
      OBVIOUS
    <3>4. /\ c \in range.start..range.end /\ n \in Sizes /\ c % n = 0
          /\ b % t = 0 /\ b + t - 1 <= range.end /\ b <= c /\ c < b + t => t <= n
      <4>1. [start |-> c, size |-> n] \in Longest(range)
        BY <3>2, <3>3
      <4>2. QED
        BY <4>1, LongestFacts
    <3>5. b <= c /\ c < b + t /\ c \in Nat
      BY <1>1, <1>3, <1>4, <1>5, <2>1, <3>1, <3>3
    <3>6. t <= n /\ n \in Nat \ {0}
      BY <1>5, <3>4, <3>5, Lengths
    <3>7. c \in b..(b + t - 1) /\ c \in c..(c + n - 1)
      BY <2>1, <3>5, <3>6
    <3>8. c <= b
      BY <1>5, <2>1, <3>4, <3>5, <3>6, <3>7, Nested
    <3>9. QED
      BY <1>1, <1>3, <1>4, <1>5, <2>1, <3>3, <3>8
  <2>6. QED
    BY <2>4, <2>5
<1>6. a + s - 1 <= range.end
  BY <1>1, <1>3
<1>7. \A b \in range.start..range.end, t \in Sizes :
        b % t = 0 /\ b + t - 1 <= range.end /\ b <= a /\ a < b + t => t <= s
  BY <1>5
<1>8. [start |-> a, size |-> s] \in Longest(range)
  BY <1>3, <1>4, <1>6, <1>7, LongestFacts
<1>9. QED
  BY <1>2, <1>8

\* The blocks returned, as pieces.
LEMMA DoneFacts ==
    ASSUME NEW o \in Seq(Pair)
    PROVE  /\ Done(o) \in Seq(Piece) /\ Len(Done(o)) = Len(o) /\ Len(o) \in Nat
           /\ \A i \in 1..Len(o) : Done(o)[i] = Item(o[i].value, MaxPort - o[i].mask + 1)
<1>1. DOMAIN o = 1..Len(o) /\ Len(o) \in Nat
  OBVIOUS
<1>2. Done(o) = [i \in 1..Len(o) |-> Item(o[i].value, MaxPort - o[i].mask + 1)]
  BY <1>1 DEF Done
<1>3. ASSUME NEW i \in 1..Len(o) PROVE Item(o[i].value, MaxPort - o[i].mask + 1) \in Piece
  <2>1. o[i] \in Pair
    OBVIOUS
  <2>2. o[i].value \in Int /\ o[i].mask \in Int /\ MaxPort \in Int
    BY <2>1, Lengths DEF Pair, Port
  <2>3. QED
    BY <2>2 DEF Item, Piece
<1>4. QED
  BY <1>1, <1>2, <1>3

\* As long as nothing has been returned, the parts are the work left.
LEMMA NothingDone ==
    ASSUME NEW t \in Seq(Piece)
    PROVE  Done(<<>>) \o t = t
<1>1. <<>> \in Seq(Pair) /\ Len(<<>>) = 0
  OBVIOUS
<1>2. PICK d \in Seq(Piece) : d = Done(<<>>) /\ Len(d) = 0
  BY <1>1, DoneFacts
<1>3. d = <<>>
  BY <1>2
<1>4. <<>> \o t = t
  OBVIOUS
<1>5. QED
  BY <1>2, <1>3, <1>4

\* A call that is due, of a range that can be taken.
LEMMA CallFacts ==
    ASSUME RangeInv, Busy("call"), Proper
    PROVE  LET x == Head(todo)
           IN /\ todo # <<>> /\ x = todo[1] /\ x \in Piece /\ out = <<>>
              /\ Chain(todo, range.start, range.end)
              /\ x.is = "call" /\ x.start = range.start /\ x.end \in range.start..range.end
              /\ x.end = range.end \/ \E n : [start |-> x.end + 1, size |-> n] \in Longest(range)
              /\ \A i \in 2..Len(todo) : todo[i].is = "block" /\ Good(todo[i])
<1>1. /\ Typed /\ Chain(Parts, range.start, range.end) /\ Shape
      /\ todo # <<>> /\ todo \in Seq(Piece) /\ Head(todo).is = "call"
  BY DEF RangeInv, Taken, Busy, Typed
<1>2. Head(todo) = todo[1] /\ todo[1] \in Piece /\ Len(todo) \in Nat \ {0}
  BY <1>1, HeadAndTail
<1>3. out = <<>> /\ Parts = todo
  BY <1>1, <1>2, NothingDone DEF Shape, Parts
<1>4. Chain(todo, range.start, range.end)
  BY <1>1, <1>3
<1>5. \A i \in 2..Len(todo) : todo[i].is = "block" /\ Good(todo[i])
  BY <1>1, <1>2, <1>3 DEF Shape
<1>6. PICK x \in Piece : x = todo[1]
  BY <1>2
<1>7. x.start = range.start /\ x.end \in range.start..range.end
  <2>1. x.start = range.start /\ x.start <= x.end /\ x.end <= range.end
    BY <1>2, <1>4, <1>6 DEF Chain
  <2>2. QED
    BY <1>6, <2>1 DEF Piece
<1>8. x.end = range.end \/ \E n : [start |-> x.end + 1, size |-> n] \in Longest(range)
  <2>1. CASE Len(todo) = 1
    BY <1>4, <1>6, <2>1 DEF Chain
  <2>2. CASE Len(todo) # 1
    <3>1. 2 \in 2..Len(todo) /\ 1 \in 1..(Len(todo) - 1)
      BY <1>2, <2>2
    <3>2. Good(todo[2])
      BY <1>5, <3>1
    <3>3. todo[1 + 1].start = todo[1].end + 1
      BY <1>4, <3>1 DEF Chain
    <3>4. todo[2].start = x.end + 1
      BY <1>6, <3>3
    <3>5. QED
      BY <3>2, <3>4 DEF Good
  <2>3. QED
    BY <2>1, <2>2
<1>9. QED
  BY <1>1, <1>2, <1>3, <1>4, <1>5, <1>6, <1>7, <1>8

\* A block whose turn it is.
LEMMA BlockFacts ==
    ASSUME RangeInv, Busy("block")
    PROVE  /\ Proper /\ todo # <<>> /\ Head(todo) \in Piece /\ Good(Head(todo))
           /\ Head(todo).is = "block" /\ size = 0
<1>1. todo # <<>> /\ todo \in Seq(Piece) /\ Head(todo).is = "block"
  BY DEF RangeInv, Typed, Busy
<1>2. Proper
  <2>1. SUFFICES ASSUME ~Proper PROVE FALSE
    OBVIOUS
  <2>2. Head(todo) = Call(range.start, range.end)
    BY <2>1 DEF RangeInv, Refused
  <2>3. QED
    BY <1>1, <2>2 DEF Call
<1>3. Head(todo) = todo[1] /\ todo[1] \in Piece
  BY <1>1, HeadAndTail
<1>4. Shape /\ size = 0
  BY <1>1, <1>2, <1>3 DEF RangeInv, Taken, Tried
<1>5. Good(todo[1])
  <2>1. PICK d \in Seq(Piece) : d = Done(out)
    BY DoneFacts DEF RangeInv, Typed
  <2>2. Parts = d \o todo /\ Len(d) \in Nat
    BY <2>1 DEF Parts
  <2>3. Len(d) + 1 \in 1..Len(Parts) /\ Parts[Len(d) + 1] = todo[1]
    BY <1>1, <2>2
  <2>4. QED
    BY <1>1, <1>3, <1>4, <2>3 DEF Shape
<1>6. QED
  BY <1>1, <1>2, <1>3, <1>4, <1>5

-----------------------------------------------------------------------------
(* Every step keeps it *)

\* A range that can be taken, and one that cannot.
LEMMA CallIsProper ==
    ASSUME RangeInv, Busy("call")
    PROVE  IsInvalid(Head(todo)) <=> ~Proper
<1>1. range.start \in Nat /\ range.end \in Nat
  BY Lengths DEF RangeInv, Typed, Port
<1>2. ASSUME Proper PROVE ~IsInvalid(Head(todo))
  <2>1. PICK x : x = Head(todo)
    OBVIOUS
  <2>2. x.start = range.start /\ x.end \in range.start..range.end
    BY <1>2, <2>1, CallFacts
  <2>3. ~IsInvalid(x)
    BY <1>1, <1>2, <2>2 DEF IsInvalid, Proper
  <2>4. QED
    BY <2>1, <2>3
<1>3. ASSUME ~Proper PROVE IsInvalid(Head(todo))
  <2>1. Head(todo) = Call(range.start, range.end)
    BY <1>3 DEF RangeInv, Refused
  <2>2. QED
    BY <1>1, <1>3, <2>1 DEF IsInvalid, Proper, Call
<1>4. QED
  BY <1>2, <1>3

\* The work left is another one, and nothing has been returned.
LEMMA WorkKeeps ==
    ASSUME RangeInv, Proper, UNCHANGED <<range, out, result>>, out = <<>>, result = "busy",
           NEW u \in Seq(Piece), todo' = u, Chain(u, range.start, range.end),
           \A i \in 2..Len(u) : u[i].is = "block",
           \A i \in 1..Len(u) : u[i].is = "block" => Good(u[i]),
           NEW n \in Sizes \cup {0}, size' = n,
           n # 0 => /\ u # <<>> /\ u[1].is = "call" /\ u[1].start # u[1].end
                    /\ n <= u[1].end - u[1].start + 1
                    /\ \A t \in Sizes : n < t /\ t <= u[1].end - u[1].start + 1
                                           => RangeEnd(u[1].end, t) # u[1].end
    PROVE  RangeInv'
<1>1. Typed'
  BY DEF RangeInv, Typed
<1>2. Parts' = u
  BY NothingDone DEF Parts
<1>3. Proper'
  BY DEF Proper
<1>4. Chain(Parts, range.start, range.end)'
  BY <1>2 DEF Chain
<1>5. Shape'
  BY <1>2 DEF Shape, Good
<1>6. Tried'
  BY DEF Tried
<1>7. result' = "busy"
  OBVIOUS
<1>8. QED
  BY <1>1, <1>3, <1>4, <1>5, <1>6, <1>7 DEF RangeInv, Taken, Refused

\* A call of one port becomes a block of one.
LEMMA OneKeeps ==
    ASSUME RangeInv, One
    PROVE  RangeInv'
<1>1. Busy("call") /\ Proper /\ result = "busy"
  BY CallIsProper DEF One, Busy
<1>2. PICK x \in Piece, t \in Seq(Piece) :
        /\ x = Head(todo) /\ x = todo[1] /\ t = Tail(todo)
        /\ Len(todo) = Len(t) + 1 /\ Len(t) \in Nat /\ \A i \in 1..Len(t) : t[i] = todo[i + 1]
  BY <1>1, HeadAndTail DEF RangeInv, Typed, Busy
<1>3. /\ out = <<>> /\ Chain(todo, range.start, range.end) /\ todo \in Seq(Piece)
      /\ x.is = "call" /\ x.start = range.start /\ x.end \in range.start..range.end
      /\ x.end = range.end \/ \E n : [start |-> x.end + 1, size |-> n] \in Longest(range)
      /\ \A i \in 2..Len(todo) : todo[i].is = "block" /\ Good(todo[i])
  BY <1>1, <1>2, CallFacts DEF RangeInv, Typed
<1>4. /\ x.start = x.end /\ todo' = <<Item(x.start, 1)>> \o t
      /\ UNCHANGED <<range, size, out, result>>
  BY <1>2 DEF One
<1>5. PICK e \in Nat : e = x.end /\ e = x.start
  <2>1. range.start \in Nat /\ range.end \in Nat
    BY Lengths DEF RangeInv, Typed, Port
  <2>2. QED
    BY <1>3, <1>4, <2>1
<1>6. PICK y : y = Item(e, 1)
  OBVIOUS
<1>7. y \in Piece /\ y.is = "block" /\ y.start = e /\ y.end = e
  BY <1>6 DEF Item, Piece
<1>8. PICK u \in Seq(Piece) :
        /\ u = <<y>> \o t /\ Len(u) = Len(todo) /\ u[1] = y
        /\ \A i \in 1..Len(t) : u[i + 1] = t[i]
  <2>1. PICK u : u = <<y>> \o t
    OBVIOUS
  <2>2. /\ u \in Seq(Piece) /\ Len(u) = Len(t) + 1 /\ u[1] = y
        /\ \A i \in 1..Len(t) : u[i + 1] = t[i]
    BY <1>7, <2>1, FirstPiece
  <2>3. QED
    BY <1>2, <2>1, <2>2
<1>9. \A i \in 2..Len(todo) : u[i] = todo[i]
  <2>1. ASSUME NEW i \in 2..Len(todo) PROVE u[i] = todo[i]
    <3>1. i - 1 \in 1..Len(t) /\ (i - 1) + 1 = i
      BY <1>2
    <3>2. u[(i - 1) + 1] = t[i - 1] /\ t[i - 1] = todo[(i - 1) + 1]
      BY <1>2, <1>8, <3>1
    <3>3. QED
      BY <3>1, <3>2
  <2>2. QED
    BY <2>1
<1>10. Chain(u, range.start, range.end)
  <2>1. range.start \in Int /\ range.end \in Int
    BY Lengths DEF RangeInv, Typed, Port
  <2>2. u[1].start = todo[1].start /\ u[1].end = todo[1].end
    BY <1>2, <1>4, <1>5, <1>7, <1>8
  <2>3. QED
    BY <1>3, <1>8, <1>9, <2>1, <2>2, Replaced
<1>11. Good(y)
  <2>1. RangeStart(e, 1) = e /\ RangeEnd(e, 1) = e
    BY DEF RangeStart, RangeEnd
  <2>2. /\ e \in range.start..range.end /\ 1 \in Sizes
        /\ 1 <= e - range.start + 1
        /\ \A n \in Sizes : ~(1 < n /\ n <= e - range.start + 1)
    <3>1. PICK b \in Nat : b = range.start /\ b = e
      BY <1>3, <1>5
    <3>2. e - b + 1 = 1 /\ \A n \in Sizes : n \in Nat
      BY <3>1, Lengths
    <3>3. \A n \in Sizes : ~(1 < n /\ n <= e - b + 1)
      BY <3>2
    <3>4. QED
      BY <1>3, <1>5, <3>1, <3>2, <3>3, Lengths
  <2>3. e = range.end \/ \E n : [start |-> e + 1, size |-> n] \in Longest(range)
    BY <1>3, <1>5
  <2>4. [start |-> e, size |-> 1] \in Longest(range)
    <3>1. [start |-> RangeStart(e, 1), size |-> 1] \in Longest(range)
      BY <1>1, <2>1, <2>2, <2>3, LastWindow DEF RangeInv
    <3>2. QED
      BY <2>1, <3>1
  <2>5. y.end - y.start + 1 = 1
    BY <1>7
  <2>6. QED
    BY <1>7, <2>4, <2>5 DEF Good
<1>12. /\ \A i \in 2..Len(u) : u[i].is = "block"
       /\ \A i \in 1..Len(u) : u[i].is = "block" => Good(u[i])
  <2>1. ASSUME NEW i \in 1..Len(u), i # 1 PROVE u[i].is = "block" /\ Good(u[i])
    <3>1. i \in 2..Len(todo)
      BY <1>8, <2>1
    <3>2. QED
      BY <1>3, <1>9, <3>1
  <2>2. Len(u) \in Nat /\ \A i \in 2..Len(u) : i \in 1..Len(u) /\ i # 1
    OBVIOUS
  <2>3. \A i \in 2..Len(u) : u[i].is = "block"
    BY <2>1, <2>2
  <2>4. ASSUME NEW i \in 1..Len(u) PROVE Good(u[i])
    <3>1. CASE i = 1
      BY <1>8, <1>11, <3>1
    <3>2. CASE i # 1
      BY <2>1, <3>2
    <3>3. QED
      BY <3>1, <3>2
  <2>5. QED
    BY <2>3, <2>4
<1>13. size' = 0
  <2>1. size = 0
    BY <1>1, <1>2, <1>4 DEF RangeInv, Taken, Tried
  <2>2. QED
    BY <1>4, <2>1
<1>14. todo' = u
  BY <1>4, <1>5, <1>6, <1>8
<1>15. QED
  BY <1>1, <1>3, <1>4, <1>8, <1>10, <1>12, <1>13, <1>14, WorkKeeps

\* The largest length of those that fit is one of them.
LEMMA LargestFits ==
    ASSUME NEW n \in Nat \ {0}
    PROVE  /\ Largest(n) \in Sizes /\ Largest(n) <= n
           /\ \A t \in Sizes : t <= n => t <= Largest(n)
<1> DEFINE I == {n - s : s \in {s \in Sizes : s <= n}}
<1>1. \A s \in Sizes : s \in Nat
  BY Lengths
<1>2. I \subseteq Nat
  BY <1>1
<1>3. n - 1 \in I
  BY Lengths
<1>4. PICK m \in I : \A i \in I : m <= i
  <2> HIDE DEF I
  <2>1. QED
    BY <1>2, <1>3, FirstOne
<1>5. PICK s \in Sizes : s <= n /\ m = n - s
  OBVIOUS
<1>6. ASSUME NEW t \in Sizes, t <= n PROVE t <= s
  <2>1. n - t \in I
    BY <1>6
  <2>2. m <= n - t
    BY <1>4, <2>1
  <2>3. QED
    BY <1>1, <1>5, <2>2
<1>7. QED
  BY <1>5, <1>6 DEF Largest

\* What a call says of its range, in numbers.
LEMMA CallExtent ==
    ASSUME RangeInv, Busy("call"), Proper, NEW x, x = Head(todo)
    PROVE  /\ x.start \in Nat \ {0} /\ x.end \in Nat /\ x.start <= x.end /\ x.end <= MaxPort
           /\ MaxPort \in Nat
<1>1. x.start = range.start /\ x.end \in range.start..range.end
  BY CallFacts
<1>2. range.start \in Nat \ {0} /\ range.end \in Nat /\ range.end <= MaxPort /\ MaxPort \in Nat
  BY Lengths DEF RangeInv, Typed, Port, Proper
<1>3. QED
  BY <1>1, <1>2

\* The first length tried is the largest that fits.
LEMMA BeginKeeps ==
    ASSUME RangeInv, Begin
    PROVE  RangeInv'
<1>1. Busy("call") /\ Proper /\ result = "busy"
  BY CallIsProper DEF Begin, Busy
<1>2. PICK x : x = Head(todo)
  OBVIOUS
<1>3. /\ out = <<>> /\ Chain(todo, range.start, range.end) /\ todo \in Seq(Piece)
      /\ todo # <<>> /\ x = todo[1] /\ x.is = "call"
      /\ \A i \in 2..Len(todo) : todo[i].is = "block" /\ Good(todo[i])
  BY <1>1, <1>2, CallFacts DEF RangeInv, Typed
<1>4. /\ x.start \in Nat \ {0} /\ x.end \in Nat /\ x.start <= x.end /\ x.end <= MaxPort
      /\ MaxPort \in Nat
  BY <1>1, <1>2, CallExtent
<1>5. /\ x.start # x.end /\ size' = Largest(Window(x))
      /\ UNCHANGED <<range, todo, out, result>>
  BY <1>2 DEF Begin
<1>6. PICK n \in Nat \ {0} : n = x.end - x.start + 1 /\ n <= MaxPort
  BY <1>4
<1>7. Window(x) = n
  <2>1. Pow2[Width] = MaxPort + 1
    BY Pow2Facts, WidthAssumption DEF MaxPort
  <2>2. PICK m \in Nat \ {0} : m = Pow2[Width] /\ n < m
    BY <1>4, <1>6, <2>1
  <2>3. n % m = n
    BY <2>2
  <2>4. QED
    BY <1>6, <2>2, <2>3 DEF Window
<1>8. PICK s \in Sizes : s = Largest(n) /\ s <= n /\ \A t \in Sizes : t <= n => t <= s
  BY LargestFits
<1>9. /\ s <= x.end - x.start + 1
      /\ \A t \in Sizes : ~(s < t /\ t <= x.end - x.start + 1)
  BY <1>6, <1>8, Lengths
<1>10. \A i \in 1..Len(todo) : todo[i].is = "block" => Good(todo[i])
  <2>1. ASSUME NEW i \in 1..Len(todo), todo[i].is = "block" PROVE Good(todo[i])
    <3>1. i # 1
      BY <1>3, <2>1
    <3>2. i \in 2..Len(todo)
      BY <3>1
    <3>3. QED
      BY <1>3, <3>2
  <2>2. QED
    BY <2>1
<1>11. PICK u \in Seq(Piece) : u = todo
  BY <1>3
<1>12. /\ todo' = u /\ Chain(u, range.start, range.end)
       /\ \A i \in 2..Len(u) : u[i].is = "block"
       /\ \A i \in 1..Len(u) : u[i].is = "block" => Good(u[i])
       /\ u # <<>> /\ u[1] = x
  BY <1>3, <1>5, <1>10, <1>11
<1>13. size' = s /\ s \in Sizes \cup {0}
  BY <1>5, <1>7, <1>8
<1>14. QED
  BY <1>1, <1>3, <1>5, <1>9, <1>12, <1>13, WorkKeeps

\* Half a length is tried next: between the two there is none.
LEMMA ShrinkKeeps ==
    ASSUME RangeInv, Shrink
    PROVE  RangeInv'
<1>1. Busy("call") /\ result = "busy" /\ size # 0
  BY DEF Shrink, Busy
<1>2. Proper
  BY <1>1 DEF RangeInv, Refused
<1>3. PICK x : x = Head(todo)
  OBVIOUS
<1>4. /\ out = <<>> /\ Chain(todo, range.start, range.end) /\ todo \in Seq(Piece)
      /\ todo # <<>> /\ x = todo[1] /\ x.is = "call"
      /\ \A i \in 2..Len(todo) : todo[i].is = "block" /\ Good(todo[i])
  BY <1>1, <1>2, <1>3, CallFacts DEF RangeInv, Typed
<1>5. /\ x.start \in Nat \ {0} /\ x.end \in Nat /\ x.start <= x.end /\ x.end <= MaxPort
  BY <1>1, <1>2, <1>3, CallExtent
<1>6. PICK n \in Nat \ {0} : n = x.end - x.start + 1
  BY <1>5
<1>7. PICK s \in Sizes : s = size /\ s \in Nat \ {0}
  BY <1>1, Lengths DEF RangeInv, Typed
<1>8. /\ s <= n /\ x.start # x.end
      /\ \A t \in Sizes : s < t /\ t <= n => RangeEnd(x.end, t) # x.end
  BY <1>1, <1>2, <1>4, <1>6, <1>7 DEF RangeInv, Taken, Tried
<1>9. /\ RangeEnd(x.end, s) > x.end /\ size' = s \div 2
      /\ UNCHANGED <<range, todo, out, result>>
  BY <1>3, <1>7 DEF Shrink, TooLong
<1>10. s # 1
  BY <1>5, <1>9 DEF RangeEnd, RangeStart
<1>11. PICK h \in Sizes : h = s \div 2 /\ s = 2 * h /\ h \in Nat \ {0}
  BY <1>7, <1>10, Lengths
<1>12. ASSUME NEW t \in Sizes, h < t, t <= n PROVE RangeEnd(x.end, t) # x.end
  <2>1. t \in Nat \ {0}
    BY Lengths
  <2>2. CASE s < t
    BY <1>8, <1>12, <2>2
  <2>3. CASE t = s
    <3>1. RangeEnd(x.end, s) \in Nat
      BY <1>5, <1>7, Holds
    <3>2. QED
      BY <1>5, <1>9, <2>3, <3>1
  <2>4. CASE t < s
    <3>1. PICK k \in Nat \ {0} : s = t * k
      BY <1>7, <2>1, <2>4, LengthsDivide
    <3>2. k # 1
      BY <1>7, <2>1, <2>4, <3>1
    <3>3. t * 1 + t <= t * k
      BY <2>1, <3>2, Apart
    <3>4. QED
      BY <1>11, <1>12, <2>1, <3>1, <3>3
  <2>5. QED
    BY <1>7, <2>1, <2>2, <2>3, <2>4
<1>13. \A i \in 1..Len(todo) : todo[i].is = "block" => Good(todo[i])
  <2>1. ASSUME NEW i \in 1..Len(todo), todo[i].is = "block" PROVE Good(todo[i])
    <3>1. i # 1
      BY <1>4, <2>1
    <3>2. i \in 2..Len(todo)
      BY <3>1
    <3>3. QED
      BY <1>4, <3>2
  <2>2. QED
    BY <2>1
<1>14. PICK u \in Seq(Piece) : u = todo
  BY <1>4
<1>15. /\ todo' = u /\ Chain(u, range.start, range.end)
       /\ \A i \in 2..Len(u) : u[i].is = "block"
       /\ \A i \in 1..Len(u) : u[i].is = "block" => Good(u[i])
       /\ u # <<>> /\ u[1] = x
  BY <1>4, <1>9, <1>13, <1>14
<1>16. /\ size' = h /\ h \in Sizes \cup {0} /\ h <= x.end - x.start + 1
       /\ \A t \in Sizes : h < t /\ t <= x.end - x.start + 1 => RangeEnd(x.end, t) # x.end
  BY <1>6, <1>7, <1>8, <1>9, <1>11, <1>12
<1>17. QED
  BY <1>1, <1>2, <1>4, <1>8, <1>9, <1>15, <1>16, WorkKeeps

\* The window that fits becomes a block, and what is left of it a call.
LEMMA SplitKeeps ==
    ASSUME RangeInv, Split
    PROVE  RangeInv'
<1>1. Busy("call") /\ result = "busy" /\ size # 0
  BY DEF Split, Busy
<1>2. Proper
  BY <1>1 DEF RangeInv, Refused
<1>3. PICK x \in Piece, t \in Seq(Piece) :
        /\ x = Head(todo) /\ x = todo[1] /\ t = Tail(todo)
        /\ Len(todo) = Len(t) + 1 /\ Len(t) \in Nat /\ \A i \in 1..Len(t) : t[i] = todo[i + 1]
  BY <1>1, HeadAndTail DEF RangeInv, Typed, Busy
<1>4. /\ out = <<>> /\ Chain(todo, range.start, range.end) /\ todo \in Seq(Piece)
      /\ todo # <<>> /\ x.is = "call"
      /\ x.start = range.start /\ x.end \in range.start..range.end
      /\ x.end = range.end \/ \E n : [start |-> x.end + 1, size |-> n] \in Longest(range)
      /\ \A i \in 2..Len(todo) : todo[i].is = "block" /\ Good(todo[i])
  BY <1>1, <1>2, <1>3, CallFacts DEF RangeInv, Typed
<1>5. PICK f \in Nat \ {0}, e \in Nat : f = x.start /\ e = x.end /\ f <= e
  BY <1>1, <1>2, <1>3, CallExtent
<1>6. PICK s \in Sizes : s = size /\ s \in Nat \ {0}
  BY <1>1, Lengths DEF RangeInv, Typed
<1>7. /\ s <= e - f + 1
      /\ \A n \in Sizes : s < n /\ n <= e - f + 1 => RangeEnd(e, n) # e
  BY <1>1, <1>2, <1>3, <1>5, <1>6 DEF RangeInv, Taken, Tried
<1>8. /\ ~(RangeEnd(e, s) > e) /\ size' = 0 /\ UNCHANGED <<range, out, result>>
      /\ todo' = Left(x) \o <<Item(RangeStart(e, s), s)>> \o Right(x) \o t
  BY <1>3, <1>5, <1>6 DEF Split, TooLong
<1>9. PICK a \in Nat : a = RangeStart(e, s) /\ RangeEnd(e, s) = e /\ a + s - 1 = e
  <2>1. RangeStart(e, s) \in 0..e /\ RangeEnd(e, s) \in Nat /\ e <= RangeEnd(e, s)
    BY <1>5, <1>6, Holds
  <2>2. PICK a \in Nat, b \in Nat : a = RangeStart(e, s) /\ b = RangeEnd(e, s)
    BY <2>1
  <2>3. b = e
    BY <1>8, <2>1, <2>2
  <2>4. b = a + s - 1
    BY <2>2 DEF RangeEnd
  <2>5. QED
    BY <2>2, <2>3, <2>4
<1>10. f <= a /\ a <= e
  BY <1>5, <1>6, <1>7, <1>9
<1>11. PICK y : y = Item(a, s)
  OBVIOUS
<1>12. y \in Piece /\ y.is = "block" /\ y.start = a /\ y.end = e
  BY <1>5, <1>6, <1>9, <1>11 DEF Item, Piece
<1>13. Good(y)
  <2>1. /\ e \in range.start..range.end
        /\ s <= e - range.start + 1
        /\ \A n \in Sizes : s < n /\ n <= e - range.start + 1 => RangeEnd(e, n) # e
        /\ e = range.end \/ \E n : [start |-> e + 1, size |-> n] \in Longest(range)
    BY <1>4, <1>5, <1>7
  <2>2. [start |-> RangeStart(e, s), size |-> s] \in Longest(range)
    BY <1>2, <1>9, <2>1, LastWindow DEF RangeInv
  <2>3. y.end - y.start + 1 = s
    BY <1>5, <1>6, <1>9, <1>12
  <2>4. QED
    BY <1>9, <1>12, <2>2, <2>3 DEF Good
<1>14. PICK w \in Seq(Piece) :
        /\ w = <<y>> \o t /\ Len(w) = Len(todo) /\ w[1] = y
        /\ \A i \in 1..Len(t) : w[i + 1] = t[i]
  <2>1. PICK w : w = <<y>> \o t
    OBVIOUS
  <2>2. /\ w \in Seq(Piece) /\ Len(w) = Len(t) + 1 /\ w[1] = y
        /\ \A i \in 1..Len(t) : w[i + 1] = t[i]
    BY <1>12, <2>1, FirstPiece
  <2>3. QED
    BY <1>3, <2>1, <2>2
<1>15. \A i \in 2..Len(todo) : w[i] = todo[i]
  <2>1. ASSUME NEW i \in 2..Len(todo) PROVE w[i] = todo[i]
    <3>1. i - 1 \in 1..Len(t) /\ (i - 1) + 1 = i
      BY <1>3
    <3>2. w[(i - 1) + 1] = t[i - 1] /\ t[i - 1] = todo[(i - 1) + 1]
      BY <1>3, <1>14, <3>1
    <3>3. QED
      BY <3>1, <3>2
  <2>2. QED
    BY <2>1
<1>16. \A i \in 1..Len(w) : w[i].is = "block" /\ Good(w[i])
  <2>1. ASSUME NEW i \in 1..Len(w) PROVE w[i].is = "block" /\ Good(w[i])
    <3>1. CASE i = 1
      BY <1>12, <1>13, <1>14, <3>1
    <3>2. CASE i # 1
      <4>1. i \in 2..Len(todo)
        BY <1>14, <3>2
      <4>2. QED
        BY <1>4, <1>15, <4>1
    <3>3. QED
      BY <3>1, <3>2
  <2>2. QED
    BY <2>1
<1>17. Right(x) = <<>>
  BY <1>5, <1>6, <1>9 DEF Right
<1>18. range.start \in Int /\ range.end \in Int
  BY Lengths DEF RangeInv, Typed, Port
<1>19. CASE f = a
  <2>1. Left(x) = <<>>
    BY <1>5, <1>6, <1>9, <1>19 DEF Left
  <2>2. todo' = w
    <3>1. todo' = <<>> \o <<y>> \o <<>> \o t
      BY <1>8, <1>9, <1>11, <1>17, <2>1
    <3>2. <<>> \o <<y>> \o <<>> = <<y>>
      BY <1>12
    <3>3. QED
      BY <1>14, <3>1, <3>2
  <2>3. Chain(w, range.start, range.end)
    <3>1. w[1].start = todo[1].start /\ w[1].end = todo[1].end
      BY <1>3, <1>5, <1>12, <1>14, <1>19
    <3>2. QED
      BY <1>4, <1>14, <1>15, <1>18, <3>1, Replaced
  <2>4. Len(w) \in Nat /\ \A i \in 2..Len(w) : i \in 1..Len(w)
    OBVIOUS
  <2>5. \A i \in 2..Len(w) : w[i].is = "block"
    BY <1>16, <2>4
  <2>6. QED
    BY <1>1, <1>2, <1>4, <1>8, <1>16, <2>2, <2>3, <2>5, WorkKeeps
<1>20. CASE f # a
  <2>1. PICK c : c = Call(f, a - 1)
    OBVIOUS
  <2>2. /\ c \in Piece /\ c.is = "call" /\ c.start = f /\ c.end = a - 1
        /\ c.start <= c.end
    BY <1>10, <1>20, <2>1 DEF Call, Piece
  <2>3. Left(x) = <<c>>
    BY <1>5, <1>6, <1>9, <1>20, <2>1 DEF Left
  <2>4. PICK u : u = <<c>> \o w
    OBVIOUS
  <2>5. /\ u \in Seq(Piece) /\ Len(u) = Len(w) + 1 /\ u[1] = c
        /\ \A i \in 1..Len(w) : u[i + 1] = w[i]
    BY <2>2, <2>4, FirstPiece
  <2>6. todo' = u
    <3>1. todo' = <<c>> \o <<y>> \o <<>> \o t
      BY <1>8, <1>9, <1>11, <1>17, <2>3
    <3>2. <<c>> \in Seq(Piece) /\ <<y>> \in Seq(Piece)
      BY <1>12, <2>2
    <3>3. (<<c>> \o <<y>>) \o <<>> = <<c>> \o <<y>>
      BY <3>2
    <3>4. (<<c>> \o <<y>>) \o t = <<c>> \o (<<y>> \o t)
      BY <3>2, ConcatAssociative
    <3>5. QED
      BY <1>14, <2>4, <3>1, <3>3, <3>4
  <2>7. Chain(u, range.start, range.end)
    <3>1. 1 \in 1..Len(w) /\ u[1 + 1] = w[1]
      BY <1>3, <1>14, <2>5
    <3>2. u[2] = y
      BY <1>14, <3>1
    <3>3. /\ u[1].start = todo[1].start /\ u[2].end = todo[1].end
          /\ u[2].start = u[1].end + 1
          /\ u[1].start <= u[1].end /\ u[2].start <= u[2].end
      BY <1>3, <1>5, <1>10, <1>12, <2>2, <2>5, <3>2
    <3>4. ASSUME NEW i \in 2..Len(todo) PROVE u[i + 1] = todo[i]
      <4>1. i \in 1..Len(w)
        BY <1>3, <1>14
      <4>2. QED
        BY <1>15, <2>5, <4>1
    <3>5. Len(u) = Len(todo) + 1
      BY <1>14, <2>5
    <3>6. QED
      BY <1>4, <1>18, <2>5, <3>3, <3>4, <3>5, CutInTwo
  <2>8. ASSUME NEW i \in 1..Len(u), i # 1 PROVE u[i].is = "block" /\ Good(u[i])
    <3>1. i - 1 \in 1..Len(w) /\ (i - 1) + 1 = i
      BY <1>3, <1>14, <2>5, <2>8
    <3>2. u[i] = w[i - 1]
      BY <2>5, <3>1
    <3>3. QED
      BY <1>16, <3>1, <3>2
  <2>9. \A i \in 1..Len(u) : u[i].is = "block" => Good(u[i])
    BY <2>2, <2>5, <2>8
  <2>10. Len(u) \in Nat /\ \A i \in 2..Len(u) : i \in 1..Len(u) /\ i # 1
    BY <2>5
  <2>11. \A i \in 2..Len(u) : u[i].is = "block"
    BY <2>8, <2>10
  <2>12. QED
    BY <1>1, <1>2, <1>4, <1>8, <2>5, <2>6, <2>7, <2>9, <2>11, WorkKeeps
<1>21. QED
  BY <1>19, <1>20

\* A block whose turn has come is returned: the parts stay as they are.
LEMMA EmitKeeps ==
    ASSUME RangeInv, Emit
    PROVE  RangeInv'
<1>1. Busy("block") /\ result = "busy"
  BY DEF Emit, Busy
<1>2. PICK b \in Piece : b = Head(todo)
  BY <1>1, BlockFacts
<1>3. Proper /\ todo # <<>> /\ Good(b) /\ b.is = "block" /\ size = 0
  BY <1>1, <1>2, BlockFacts
<1>4. PICK n \in Sizes, a \in Nat :
        /\ n = b.end - b.start + 1 /\ n \in Nat \ {0} /\ n <= MaxPort + 1
        /\ a = b.start /\ a \in Port
  <2>1. [start |-> b.start, size |-> b.end - b.start + 1] \in Longest(range)
    BY <1>3 DEF Good
  <2>2. PICK n, a : n = b.end - b.start + 1 /\ a = b.start
    OBVIOUS
  <2>3. n \in Sizes /\ a \in range.start..range.end
    BY <2>1, <2>2, LongestFacts DEF RangeInv
  <2>4. a \in Port /\ a \in Nat
    <3>1. range.start \in Nat /\ range.end \in Nat /\ range.end <= MaxPort /\ MaxPort \in Nat
      BY Lengths DEF RangeInv, Typed, Port
    <3>2. QED
      BY <2>3, <3>1 DEF Port
  <2>5. QED
    BY <2>2, <2>3, <2>4, Lengths
<1>5. PICK q \in Pair : q = [value |-> a, mask |-> Mask(n)]
                        /\ Item(q.value, MaxPort - q.mask + 1) = b
  <2>1. PICK m : m = Mask(n)
    OBVIOUS
  <2>2. m \in Port /\ MaxPort - m + 1 = n
    BY <1>4, <2>1, Lengths DEF Mask, Port
  <2>3. [value |-> a, mask |-> m] \in Pair
    BY <1>4, <2>2 DEF Pair
  <2>4. Item(a, n) = b
    <3>1. a + n - 1 = b.end
      BY <1>2, <1>4 DEF Piece
    <3>2. b = [is |-> b.is, start |-> b.start, end |-> b.end]
      BY DEF Piece
    <3>3. QED
      BY <1>3, <1>4, <3>1, <3>2 DEF Item
  <2>5. QED
    BY <2>1, <2>2, <2>3, <2>4
<1>6. /\ out' = Append(out, q) /\ todo' = Tail(todo) /\ UNCHANGED <<range, size, result>>
  BY <1>2, <1>4, <1>5 DEF Emit
<1>7. out \in Seq(Pair) /\ todo \in Seq(Piece)
  BY DEF RangeInv, Typed
<1>8. out' \in Seq(Pair) /\ todo' \in Seq(Piece) /\ out' # <<>>
  BY <1>3, <1>6, <1>7
<1>9. Parts' = Parts
  <2>1. PICK o \in Seq(Pair) : o = out /\ out' = Append(o, q)
    BY <1>6, <1>7
  <2>2. PICK d \in Seq(Piece), g \in Seq(Piece) : d = Done(o) /\ g = Done(Append(o, q))
    <3>1. Done(o) \in Seq(Piece) /\ Append(o, q) \in Seq(Pair)
      BY DoneFacts
    <3>2. Done(Append(o, q)) \in Seq(Piece)
      BY <3>1, DoneFacts
    <3>3. QED
      BY <3>1, <3>2
  <2>3. g = Append(d, b)
    <3>1. /\ Append(o, q) \in Seq(Pair) /\ Len(Append(o, q)) = Len(o) + 1 /\ Len(o) \in Nat
          /\ Append(o, q)[Len(o) + 1] = q
          /\ \A i \in 1..Len(o) : Append(o, q)[i] = o[i]
      OBVIOUS
    <3>2. /\ Len(g) = Len(o) + 1
          /\ \A i \in 1..(Len(o) + 1) :
               g[i] = Item(Append(o, q)[i].value, MaxPort - Append(o, q)[i].mask + 1)
      BY <2>2, <3>1, DoneFacts
    <3>3. /\ Len(d) = Len(o)
          /\ \A i \in 1..Len(o) : d[i] = Item(o[i].value, MaxPort - o[i].mask + 1)
      BY <2>2, DoneFacts
    <3>4. \A i \in 1..Len(o) : g[i] = d[i]
      BY <3>1, <3>2, <3>3
    <3>5. g[Len(o) + 1] = b
      BY <1>5, <3>1, <3>2
    <3>6. /\ Append(d, b) \in Seq(Piece) /\ Len(Append(d, b)) = Len(o) + 1
          /\ Append(d, b)[Len(o) + 1] = b
          /\ \A i \in 1..Len(o) : Append(d, b)[i] = d[i]
      BY <3>3
    <3>7. ASSUME NEW i \in 1..Len(g) PROVE g[i] = Append(d, b)[i]
      <4>1. CASE i \in 1..Len(o)
        BY <3>4, <3>6, <4>1
      <4>2. CASE i = Len(o) + 1
        BY <3>5, <3>6, <4>2
      <4>3. PICK k \in Nat : k = Len(o) /\ i \in 1..(k + 1)
        BY <3>1, <3>2
      <4>4. i \in 1..k \/ i = k + 1
        BY <4>3
      <4>5. QED
        BY <4>1, <4>2, <4>3, <4>4
    <3>8. QED
      BY <3>2, <3>6, <3>7, SeqEqual
  <2>4. PICK t \in Seq(Piece), l \in Seq(Piece) : t = todo /\ l = Tail(todo) /\ t # <<>>
    <3>1. todo \in Seq(Piece) /\ Tail(todo) \in Seq(Piece)
      BY <1>3, <1>7
    <3>2. QED
      BY <1>3, <3>1
  <2>5. Append(d, b) \o l = d \o t
    <3>1. Append(d, b) = d \o <<b>> /\ <<b>> \in Seq(Piece)
      BY AppendIsConcat
    <3>2. (d \o <<b>>) \o l = d \o (<<b>> \o l)
      BY <3>1, ConcatAssociative
    <3>3. <<b>> \o l = t
      BY <1>2, <2>4
    <3>4. QED
      BY <3>1, <3>2, <3>3
  <2>6. QED
    BY <1>6, <2>1, <2>2, <2>3, <2>4, <2>5 DEF Parts
<1>10. Typed'
  BY <1>6, <1>8 DEF RangeInv, Typed
<1>11. Shape'
  <2>1. \A i \in 2..Len(todo) : todo[i].is = "block"
    BY <1>3 DEF RangeInv, Taken, Shape
  <2>2. PICK l \in Seq(Piece) :
          l = Tail(todo) /\ Len(todo) = Len(l) + 1 /\ \A i \in 1..Len(l) : l[i] = todo[i + 1]
    BY <1>3, <1>7, HeadAndTail
  <2>3. ASSUME NEW i \in 1..Len(l) PROVE l[i].is = "block"
    <3>1. i + 1 \in 2..Len(todo)
      BY <2>2
    <3>2. QED
      BY <2>1, <2>2, <3>1
  <2>4. todo' = l
    BY <1>6, <2>2
  <2>5. (\A i \in 2..Len(todo) : todo[i].is = "block")'
    BY <2>3, <2>4
  <2>6. todo' # <<>> => todo'[1].is = "block"
    BY <2>3, <2>4
  <2>7. \A i \in 1..Len(Parts) : Parts[i].is = "block" => Good(Parts[i])
    BY <1>3 DEF RangeInv, Taken, Shape
  <2>8. (\A i \in 1..Len(Parts) : Parts[i].is = "block" => Good(Parts[i]))'
    BY <1>6, <1>9, <2>7 DEF Good
  <2>9. QED
    BY <2>5, <2>6, <2>8 DEF Shape
<1>12. Chain(Parts, range.start, range.end)'
  BY <1>3, <1>6, <1>9 DEF RangeInv, Taken, Chain
<1>13. Proper' /\ Tried' /\ result' = "busy"
  BY <1>1, <1>3, <1>6 DEF Proper, Tried
<1>14. QED
  BY <1>10, <1>11, <1>12, <1>13 DEF RangeInv, Taken, Refused

\* A range that cannot be taken is refused, and only such a one.
LEMMA InvalidKeeps ==
    ASSUME RangeInv, Invalid
    PROVE  RangeInv'
<1>1. Busy("call") /\ ~Proper /\ result' = "invalid" /\ UNCHANGED <<range, todo, size, out>>
  BY CallIsProper DEF Invalid
<1>2. Typed'
  BY <1>1 DEF RangeInv, Typed
<1>3. ~Proper'
  BY <1>1 DEF Proper
<1>4. Refused'
  BY <1>1, <1>3 DEF RangeInv, Refused
<1>5. QED
  BY <1>2, <1>3, <1>4 DEF RangeInv, Taken

\* When no work is left, what has been returned is the result.
LEMMA ReturnKeeps ==
    ASSUME RangeInv, Return
    PROVE  RangeInv'
<1>1. todo = <<>> /\ result' = "ok" /\ result = "busy" /\ UNCHANGED <<range, todo, size, out>>
  BY DEF Return
<1>2. Proper
  <2>1. <<Call(range.start, range.end)>> # <<>>
    OBVIOUS
  <2>2. QED
    BY <1>1, <2>1 DEF RangeInv, Refused
<1>3. Typed' /\ Proper'
  BY <1>1, <1>2 DEF RangeInv, Typed, Proper
<1>4. Parts' = Parts
  BY <1>1 DEF Parts
<1>5. Chain(Parts, range.start, range.end)'
  BY <1>1, <1>2, <1>4 DEF RangeInv, Taken, Chain
<1>6. Shape'
  BY <1>1, <1>2, <1>4 DEF RangeInv, Taken, Shape, Good
<1>7. Tried'
  BY <1>1, <1>2 DEF RangeInv, Taken, Tried
<1>8. QED
  BY <1>1, <1>3, <1>5, <1>6, <1>7 DEF RangeInv, Taken, Refused

\* At the start there is one call, of the whole range.
LEMMA RangeInit ==
    ASSUME Init
    PROVE  RangeInv
<1>1. /\ range \in [start : Port, end : Port] /\ size = 0 /\ out = <<>> /\ result = "busy"
      /\ range.start \in Nat /\ range.end \in Nat
  BY Lengths DEF Init, Port
<1>2. PICK c \in Piece : c = Call(range.start, range.end)
  <2>1. PICK a \in Nat, b \in Nat : a = range.start /\ b = range.end
    BY <1>1
  <2>2. Call(a, b) \in Piece
    BY DEF Call, Piece
  <2>3. QED
    BY <2>1, <2>2
<1>3. PICK u \in Seq(Piece) : u = <<c>> /\ u = todo
  <2>1. <<c>> \in Seq(Piece)
    OBVIOUS
  <2>2. <<c>> = todo
    BY <1>2 DEF Init
  <2>3. QED
    BY <2>1, <2>2
<1>4. Len(u) = 1 /\ u[1] = c /\ u # <<>>
  BY <1>3
<1>5. Typed
  <2>1. out \in Seq(Pair)
    BY <1>1
  <2>2. QED
    BY <1>1, <1>3, <2>1 DEF Typed
<1>6. Parts = u
  BY <1>1, <1>3, NothingDone DEF Parts
<1>7. c.is = "call" /\ c.start = range.start /\ c.end = range.end
  BY <1>2 DEF Call
<1>8. ASSUME Proper PROVE Chain(u, range.start, range.end)
  <2>1. range.start <= range.end
    BY <1>1, <1>8 DEF Proper
  <2>2. QED
    BY <1>1, <1>4, <1>7, <2>1 DEF Chain
<1>9. Shape
  <2>1. \A i \in 2..Len(todo) : todo[i].is = "block"
    BY <1>3, <1>4
  <2>2. ASSUME NEW i \in 1..Len(u) PROVE u[i].is # "block"
    <3>1. i = 1
      BY <1>4
    <3>2. QED
      BY <1>4, <1>7, <3>1
  <2>3. \A i \in 1..Len(Parts) : Parts[i].is # "block"
    BY <1>6, <2>2
  <2>4. QED
    BY <1>1, <2>1, <2>3 DEF Shape
<1>10. Tried
  BY <1>1 DEF Tried
<1>11. Refused
  BY <1>1, <1>2, <1>3 DEF Refused
<1>12. QED
  BY <1>1, <1>5, <1>6, <1>8, <1>9, <1>10, <1>11 DEF RangeInv, Taken

\* No step of the recursion breaks it.
LEMMA RangeStep ==
    ASSUME RangeInv, [Next]_vars
    PROVE  RangeInv'
<1>1. CASE Invalid
  BY <1>1, InvalidKeeps
<1>2. CASE One
  BY <1>2, OneKeeps
<1>3. CASE Begin
  BY <1>3, BeginKeeps
<1>4. CASE Shrink
  BY <1>4, ShrinkKeeps
<1>5. CASE Split
  BY <1>5, SplitKeeps
<1>6. CASE Emit
  BY <1>6, EmitKeeps
<1>7. CASE Return
  BY <1>7, ReturnKeeps
<1>8. CASE UNCHANGED vars
  <2>1. UNCHANGED <<range, todo, size, out, result>>
    BY <1>8 DEF vars
  <2>2. Parts' = Parts /\ (Proper' <=> Proper)
    BY <2>1 DEF Parts, Proper
  <2>3. Typed'
    BY <2>1 DEF RangeInv, Typed
  <2>4. Proper => Chain(Parts, range.start, range.end)' /\ Shape' /\ Tried'
    BY <2>1, <2>2 DEF RangeInv, Taken, Chain, Shape, Good, Tried
  <2>5. QED
    BY <2>1, <2>2, <2>3, <2>4 DEF RangeInv, Taken, Refused
<1>9. QED
  BY <1>1, <1>2, <1>3, <1>4, <1>5, <1>6, <1>7, <1>8 DEF Next

\* It holds throughout.
LEMMA RangeInvHolds == Spec => []RangeInv
<1>1. Init => RangeInv
  BY RangeInit
<1>2. RangeInv /\ [Next]_vars => RangeInv'
  BY RangeStep
<1>3. QED
  BY <1>1, <1>2, PTL DEF Spec

-----------------------------------------------------------------------------
(* What that means for the callers *)

\* What is returned is a chain of longest windows from end to end.
LEMMA ResultFacts ==
    ASSUME RangeInv, result = "ok"
    PROVE  /\ Proper /\ out \in Seq(Pair)
           /\ Chain(Done(out), range.start, range.end)
           /\ \A i \in 1..Len(out) :
                [start |-> out[i].value, size |-> MaxPort - out[i].mask + 1] \in Longest(range)
<1>1. Proper /\ out \in Seq(Pair) /\ todo = <<>> /\ Typed
  BY DEF RangeInv, Typed, Taken, Refused
<1>2. PICK d \in Seq(Piece) : d = Done(out)
  BY <1>1, DoneFacts
<1>3. Parts = d
  <2>1. d \o <<>> = d
    OBVIOUS
  <2>2. QED
    BY <1>1, <1>2, <2>1 DEF Parts
<1>4. Chain(d, range.start, range.end)
  BY <1>1, <1>3 DEF RangeInv, Taken
<1>5. ASSUME NEW i \in 1..Len(out)
      PROVE  [start |-> out[i].value, size |-> MaxPort - out[i].mask + 1] \in Longest(range)
  <2>1. PICK q \in Pair : q = out[i]
    BY <1>1, ElementOfSeq
  <2>2. PICK n \in Int : n = MaxPort - q.mask + 1
    BY Lengths DEF Pair, Port
  <2>3. q.value \in Int
    BY DEF Pair, Port
  <2>4. Len(d) = Len(out) /\ d[i] = Item(q.value, n)
    BY <1>1, <1>2, <2>1, <2>2, DoneFacts
  <2>5. d[i].is = "block" /\ d[i].start = q.value /\ d[i].end = q.value + n - 1
    BY <2>4 DEF Item
  <2>6. Good(d[i])
    BY <1>1, <1>3, <2>4, <2>5 DEF RangeInv, Taken, Shape
  <2>7. d[i].end - d[i].start + 1 = n
    BY <2>3, <2>5
  <2>8. QED
    BY <2>1, <2>2, <2>5, <2>6, <2>7 DEF Good
<1>6. QED
  BY <1>1, <1>2, <1>4, <1>5

\* A returned pair, as a window in numbers.
LEMMA PairFacts ==
    ASSUME RangeInv, result = "ok", NEW i \in 1..Len(out)
    PROVE  LET s == MaxPort - out[i].mask + 1
           IN /\ out[i] \in Pair /\ out[i] = [value |-> out[i].value, mask |-> Mask(s)]
              /\ s \in Sizes /\ s \in Nat \ {0}
              /\ out[i].value \in Nat /\ out[i].value % s = 0
              /\ out[i].value \in range.start..range.end
              /\ out[i].value + s - 1 <= range.end
<1>1. out \in Seq(Pair) /\ Typed
  BY DEF RangeInv, Typed
<1>2. PICK q \in Pair : q = out[i]
  BY <1>1, ElementOfSeq
<1>3. PICK s \in Int : s = MaxPort - q.mask + 1
  BY Lengths DEF Pair, Port
<1>4. [start |-> q.value, size |-> s] \in Longest(range)
  BY <1>2, <1>3, ResultFacts
<1>5. /\ q.value \in range.start..range.end /\ s \in Sizes
      /\ q.value % s = 0 /\ q.value + s - 1 <= range.end
  BY <1>1, <1>4, LongestFacts
<1>6. q.value \in Nat /\ q.mask \in Int
  BY Lengths DEF Pair, Port
<1>7. q = [value |-> q.value, mask |-> Mask(s)]
  <2>1. Mask(s) = q.mask
    BY <1>3, <1>6, Lengths DEF Mask
  <2>2. q = [value |-> q.value, mask |-> q.mask]
    BY DEF Pair
  <2>3. QED
    BY <2>1, <2>2
<1>8. QED
  BY <1>2, <1>3, <1>5, <1>6, <1>7, Lengths

\* Every port of the range lies in a returned window.
LEMMA EachHasPair ==
    ASSUME RangeInv, result = "ok", NEW p \in range.start..range.end
    PROVE  \E i \in 1..Len(out) :
             p \in out[i].value..(out[i].value + (MaxPort - out[i].mask + 1) - 1)
<1>1. /\ out \in Seq(Pair) /\ Chain(Done(out), range.start, range.end)
      /\ range.start \in Int /\ range.end \in Int
  BY ResultFacts, Lengths DEF RangeInv, Typed, Port
<1>2. PICK d \in Seq(Piece) : d = Done(out) /\ Len(d) = Len(out)
  BY <1>1, DoneFacts
<1>3. PICK i \in 1..Len(d) : d[i].start <= p /\ p <= d[i].end
  BY <1>1, <1>2, ChainCovers
<1>4. d[i] = Item(out[i].value, MaxPort - out[i].mask + 1)
  BY <1>1, <1>2, DoneFacts
<1>5. out[i].value \in Int /\ MaxPort - out[i].mask + 1 \in Int
  <2>1. PICK s : s = MaxPort - out[i].mask + 1
    OBVIOUS
  <2>2. i \in 1..Len(out) /\ RangeInv /\ result = "ok"
    BY <1>2
  <2>3. out[i].value \in Nat /\ s \in Nat \ {0}
    BY <2>1, <2>2, PairFacts
  <2>4. QED
    BY <2>1, <2>3
<1>6. QED
  BY <1>1, <1>2, <1>3, <1>4, <1>5 DEF Item

\* From it, one by one, what the runs check.
LEMMA RangeInvTyped == RangeInv => TypeOK
<1>1. SUFFICES ASSUME RangeInv PROVE TypeOK
  OBVIOUS
<1>2. /\ range \in [start : Port, end : Port] /\ todo \in Seq(Piece) /\ out \in Seq(Pair)
      /\ range.start \in Port /\ range.end \in Port
  BY <1>1 DEF RangeInv, Typed
<1>3. \A i \in DOMAIN out : out[i].value \in Port /\ out[i].mask \in Port
  <2>1. ASSUME NEW i \in DOMAIN out PROVE out[i] \in Pair
    BY <1>2
  <2>2. QED
    BY <2>1 DEF Pair
<1>4. ASSUME NEW i \in DOMAIN todo PROVE todo[i].start \in Port /\ todo[i].end \in Port
  <2>1. CASE Proper
    <3>1. PICK d \in Seq(Piece) : d = Done(out)
      BY <1>2, DoneFacts
    <3>2. Parts = d \o todo /\ Len(d) \in Nat /\ i \in 1..Len(todo) /\ Len(todo) \in Nat
      BY <1>2, <3>1 DEF Parts
    <3>3. Len(d) + i \in 1..Len(Parts) /\ Parts[Len(d) + i] = todo[i]
      BY <1>2, <3>2
    <3>4. Chain(Parts, range.start, range.end)
      BY <1>1, <2>1 DEF RangeInv, Taken
    <3>5. range.start <= todo[i].start /\ todo[i].start <= todo[i].end /\ todo[i].end <= range.end
      BY <3>3, <3>4 DEF Chain
    <3>6. PICK x \in Piece : x = todo[i]
      BY <1>2, <3>2, ElementOfSeq
    <3>7. x.start \in Int /\ x.end \in Int
      BY DEF Piece
    <3>8. QED
      BY <1>2, <3>5, <3>6, <3>7, Lengths DEF Port
  <2>2. CASE ~Proper
    <3>1. todo = <<Call(range.start, range.end)>>
      BY <1>1, <2>2 DEF RangeInv, Refused
    <3>2. i = 1 /\ todo[i] = Call(range.start, range.end)
      BY <3>1
    <3>3. QED
      BY <1>2, <3>2 DEF Call
  <2>3. QED
    BY <2>1, <2>2
<1>5. QED
  BY <1>1, <1>3, <1>4 DEF RangeInv, Typed, TypeOK

\* The parts of Tiled are the chain.
LEMMA RangeInvTiled == RangeInv => Tiled
<1>1. SUFFICES ASSUME RangeInv, result # "invalid", Proper PROVE Tiled
  BY DEF Tiled
<1>2. PICK u : u = Parts
  OBVIOUS
<1>3. u = [i \in DOMAIN out |-> Item(out[i].value, MaxPort - out[i].mask + 1)] \o todo
  BY <1>2 DEF Parts, Done
<1>4. /\ u # <<>> /\ u[1].start = range.start /\ u[Len(u)].end = range.end
      /\ \A i \in 1..Len(u) : u[i].start <= u[i].end
      /\ \A i \in 1..(Len(u) - 1) : u[i + 1].start = u[i].end + 1
  BY <1>1, <1>2 DEF RangeInv, Taken, Chain
<1>5. QED
  BY <1>3, <1>4 DEF Tiled

\* A port is admitted by the window it lies in, and every port of the range

\* lies in one.
LEMMA RangeInvMatches == RangeInv => MatchesRange
<1>1. SUFFICES ASSUME RangeInv, result = "ok", NEW p \in Port
               PROVE  (\E i \in DOMAIN out : Admits(out[i], p)) <=> p \in range.start..range.end
  BY DEF MatchesRange
<1>2. DOMAIN out = 1..Len(out) /\ p \in Nat /\ range.start \in Int /\ range.end \in Int
  BY <1>1, Lengths DEF RangeInv, Typed, Port
<1>3. ASSUME NEW i \in 1..Len(out)
      PROVE  Admits(out[i], p)
               <=> p \in out[i].value..(out[i].value + (MaxPort - out[i].mask + 1) - 1)
  <2>1. PICK s, a : s = MaxPort - out[i].mask + 1 /\ a = out[i].value
    OBVIOUS
  <2>2. s \in Nat \ {0} /\ a \in Nat /\ a % s = 0
    BY <1>1, <2>1, PairFacts
  <2>3. RangeStart(p, s) = a <=> p \in a..(a + s - 1)
    BY <1>2, <2>2, WindowAdmits
  <2>4. QED
    BY <2>1, <2>3 DEF Admits
<1>4. ASSUME NEW i \in 1..Len(out), Admits(out[i], p) PROVE p \in range.start..range.end
  <2>1. PICK s, a : s = MaxPort - out[i].mask + 1 /\ a = out[i].value
    OBVIOUS
  <2>2. /\ s \in Nat \ {0} /\ a \in Nat /\ a \in range.start..range.end
        /\ a + s - 1 <= range.end
    BY <1>1, <2>1, PairFacts
  <2>3. p \in a..(a + s - 1)
    BY <1>3, <1>4, <2>1
  <2>4. QED
    BY <1>2, <2>2, <2>3
<1>5. ASSUME p \in range.start..range.end PROVE \E i \in 1..Len(out) : Admits(out[i], p)
  BY <1>1, <1>3, <1>5, EachHasPair
<1>6. QED
  BY <1>2, <1>4, <1>5

\* A longest window holds the returned one that its first port lies in, and is
\* held by it.
LEMMA RangeInvShortest == RangeInv => Shortest
<1>1. SUFFICES ASSUME RangeInv, result = "ok"
               PROVE  {out[i] : i \in DOMAIN out}
                        = {[value |-> w.start, mask |-> Mask(w.size)] : w \in Longest(range)}
  BY DEF Shortest
<1>2. Typed /\ DOMAIN out = 1..Len(out)
  BY <1>1 DEF RangeInv, Typed
<1>3. ASSUME NEW i \in 1..Len(out)
      PROVE  \E w \in Longest(range) : out[i] = [value |-> w.start, mask |-> Mask(w.size)]
  <2>1. PICK a, s : a = out[i].value /\ s = MaxPort - out[i].mask + 1
    OBVIOUS
  <2>2. PICK w \in Longest(range) : w = [start |-> a, size |-> s]
    BY <1>1, <2>1, ResultFacts
  <2>3. out[i] = [value |-> a, mask |-> Mask(s)]
    BY <1>1, <2>1, PairFacts
  <2>4. QED
    BY <2>2, <2>3
<1>4. ASSUME NEW w \in Longest(range)
      PROVE  \E i \in 1..Len(out) : out[i] = [value |-> w.start, mask |-> Mask(w.size)]
  <2>1. PICK a, s : a = w.start /\ s = w.size
    OBVIOUS
  <2>2. w = [start |-> a, size |-> s]
    <3>1. w \in [start : range.start..range.end, size : Sizes]
      BY DEF Longest, Windows
    <3>2. QED
      BY <2>1, <3>1
  <2>3. /\ a \in range.start..range.end /\ s \in Sizes
        /\ a % s = 0 /\ a + s - 1 <= range.end
        /\ \A b \in range.start..range.end, t \in Sizes :
             b % t = 0 /\ b + t - 1 <= range.end /\ b <= a /\ a < b + t => t <= s
    BY <1>2, <2>2, LongestFacts
  <2>4. PICK i \in 1..Len(out) :
          a \in out[i].value..(out[i].value + (MaxPort - out[i].mask + 1) - 1)
    BY <1>1, <2>3, EachHasPair
  <2>5. PICK b, t : b = out[i].value /\ t = MaxPort - out[i].mask + 1
    OBVIOUS
  <2>6. /\ out[i] = [value |-> b, mask |-> Mask(t)]
        /\ t \in Sizes /\ t \in Nat \ {0} /\ b \in Nat /\ b % t = 0
        /\ b \in range.start..range.end /\ b + t - 1 <= range.end
    BY <1>1, <2>5, PairFacts
  <2>7. \A c \in range.start..range.end, u \in Sizes :
          c % u = 0 /\ c + u - 1 <= range.end /\ c <= b /\ b < c + u => u <= t
    <3>1. [start |-> b, size |-> t] \in Longest(range)
      BY <1>1, <2>5, ResultFacts
    <3>2. QED
      BY <1>2, <3>1, LongestFacts
  <2>8. a \in Nat /\ s \in Nat \ {0} /\ a \in a..(a + s - 1) /\ a \in b..(b + t - 1)
    <3>1. range.start \in Nat /\ range.end \in Nat
      BY <1>2, Lengths DEF Typed, Port
    <3>2. a \in Nat /\ s \in Nat \ {0}
      BY <2>3, <3>1, Lengths
    <3>3. a \in b..(b + t - 1)
      BY <2>4, <2>5
    <3>4. QED
      BY <3>2, <3>3
  <2>9. t <= s
    <3>1. b <= a /\ a < b + t
      BY <2>6, <2>8
    <3>2. QED
      BY <2>3, <2>6, <3>1
  <2>10. a <= b /\ b + t <= a + s
    BY <2>3, <2>6, <2>8, <2>9, Nested
  <2>11. a = b
    BY <2>6, <2>8, <2>10
  <2>12. s <= t
    <3>1. b < a + s
      BY <2>8, <2>11
    <3>2. QED
      BY <2>3, <2>7, <2>10, <3>1
  <2>13. s = t
    BY <2>6, <2>8, <2>9, <2>12
  <2>14. QED
    BY <2>1, <2>6, <2>11, <2>13
<1>5. QED
  BY <1>2, <1>3, <1>4

-----------------------------------------------------------------------------
(* The theorems *)

\* Everything getRange and getMask compute stays within the width of a port.
THEOREM RangeTyped == Spec => []TypeOK
  BY RangeInvHolds, RangeInvTyped, PTL

\* At every point of BitwiseMatch's recursion the pairs returned and the work
\* left tile the range that was asked for.
THEOREM StaysTiled == Spec => []Tiled
  BY RangeInvHolds, RangeInvTiled, PTL

\* The pairs BitwiseMatch returns admit the ports of the range and no others.
THEOREM MatchesExactly == Spec => []MatchesRange
  BY RangeInvHolds, RangeInvMatches, PTL

\* And there are as few of them as can be: one for each longest window.
THEOREM IsShortest == Spec => []Shortest
  BY RangeInvHolds, RangeInvShortest, PTL

\* ErrInvalidPortRange is never the answer for a range of ports with its ends
\* in order, whatever the recursion makes of it; for any other the answer is
\* never anything else.
THEOREM RefusesOnlyInvalid ==
    Spec => [](/\ Proper => result # "invalid"
               /\ ~Proper => result # "ok")
<1>1. RangeInv => (/\ Proper => result # "invalid"
                   /\ ~Proper => result # "ok")
  BY DEF RangeInv, Taken, Refused
<1>2. QED
  BY <1>1, RangeInvHolds, PTL
=============================================================================
