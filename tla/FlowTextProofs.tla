--------------------------- MODULE FlowTextProofs ---------------------------
(* Flows on their way through text, for every set of flows that are asked    *)
(* for, every bridge that others have filled and every width of a number:    *)
(* what is read fits its field, actions are split where they end, and a flow *)
(* that is read is the flow that was written, and is deleted by its match.   *)
EXTENDS FlowText, SequenceTheorems, FiniteSetTheorems, WellFoundedInduction, TLAPS

-----------------------------------------------------------------------------
(* Recursive functions *)

\* A set of natural numbers that is not empty has a first one.
LEMMA FirstOne ==
    ASSUME NEW I, I \subseteq Nat, I # {}
    PROVE  \E m \in I : \A i \in I : m <= i
<1> DEFINE R == OpToRel(<, Nat)
<1>1. IsWellFoundedOn(R, Nat)
  BY NatLessThanWellFounded
<1>2. \A i, j \in Nat : <<i, j>> \in R <=> i < j
  BY DEF OpToRel
<1> HIDE DEF R
<1>3. PICK m \in I : \A i \in I : ~(<<i, m>> \in R)
  BY <1>1, WFMin
<1>4. ASSUME NEW i \in I PROVE m <= i
  <2>1. m \in Nat /\ i \in Nat
    OBVIOUS
  <2>2. ~(i < m)
    BY <1>2, <1>3, <2>1
  <2>3. QED
    BY <2>1, <2>2
<1>5. QED
  BY <1>4

\* What holds of 0, and of a number up to n if it holds of the one before, holds
\* up to n.
LEMMA CountTo ==
    ASSUME NEW n \in Nat, NEW S, 0 \in S, \A i \in 1..n : i - 1 \in S => i \in S
    PROVE  0..n \subseteq S
<1>1. SUFFICES ASSUME (0..n) \ S # {} PROVE FALSE
  OBVIOUS
<1>2. PICK m \in (0..n) \ S : \A i \in (0..n) \ S : m <= i
  <2>1. (0..n) \ S \subseteq Nat
    OBVIOUS
  <2>2. QED
    BY <1>1, <2>1, FirstOne
<1>3. m \in 1..n /\ m - 1 \in 0..n
  BY <1>2
<1>4. m - 1 \notin S
  BY <1>2, <1>3
<1>5. QED
  BY <1>2, <1>3, <1>4

\* Steps from one value to the next, and the values they go through.
AreSteps(step, n, T)     == step \in [1..n -> [T -> T]]
Follows(f, b, step, n, T) ==
    f \in [0..n -> T] /\ f[0] = b /\ \A i \in 1..n : f[i] = step[i][f[i - 1]]

\* There are such values.
LEMMA Computed ==
    ASSUME NEW T, NEW b \in T, NEW n \in Nat, NEW step, AreSteps(step, n, T)
    PROVE  \E f : Follows(f, b, step, n, T)
<1> USE DEF AreSteps, Follows
<1> DEFINE Upto(m) == {f \in [0..m -> T] : f[0] = b /\ \A i \in 1..m : f[i] = step[i][f[i - 1]]}
           S == {m \in Nat : Upto(m) # {}}
<1>1. 0 \in S
  <2>1. [i \in 0..0 |-> b] \in Upto(0)
    OBVIOUS
  <2>2. QED
    BY <2>1
<1>2. ASSUME NEW m \in 1..n, m - 1 \in S PROVE m \in S
  <2>1. PICK f : f \in Upto(m - 1)
    BY <1>2
  <2>2. PICK g : g = [i \in 0..m |-> IF i = m THEN step[m][f[m - 1]] ELSE f[i]]
    OBVIOUS
  <2>3. f[m - 1] \in T /\ step[m] \in [T -> T]
    BY <1>2, <2>1
  <2>4. step[m][f[m - 1]] \in T
    BY <2>3
  <2>5. g \in [0..m -> T] /\ g[0] = b
    BY <1>2, <2>1, <2>2, <2>4
  <2>6. ASSUME NEW i \in 1..m PROVE g[i] = step[i][g[i - 1]]
    <3>1. CASE i = m
      BY <1>2, <2>2, <3>1
    <3>2. CASE i # m
      <4>1. i \in 1..m - 1 /\ i \in 0..m /\ i - 1 \in 0..m /\ i - 1 # m
        BY <2>6, <3>2
      <4>2. g[i] = f[i] /\ g[i - 1] = f[i - 1]
        BY <2>2, <3>2, <4>1
      <4>3. QED
        BY <2>1, <4>1, <4>2
    <3>3. QED
      BY <3>1, <3>2
  <2>7. g \in Upto(m)
    BY <2>5, <2>6
  <2>8. m \in Nat
    OBVIOUS
  <2>9. QED
    BY <2>7, <2>8
<1>3. n \in S
  <2> HIDE DEF S
  <2>1. 0..n \subseteq S
    BY <1>1, <1>2, CountTo
  <2>2. QED
    BY <2>1
<1>4. QED
  BY <1>3 DEF Follows

-----------------------------------------------------------------------------
(* Joining *)

\* What is joined of the first sequences, and of one more.
IsJoined(j, seqs) ==
    /\ DOMAIN j = 0..Len(seqs) /\ j[0] = <<>>
    /\ \A i \in 1..Len(seqs) :
          j[i] = IF i = 1 THEN seqs[1] ELSE j[i - 1] \o <<Comma>> \o seqs[i]

\* Join computes it.
LEMMA JoinIsJoined ==
    ASSUME NEW T, Comma \in T, NEW seqs \in Seq(Seq(T))
    PROVE  \E j \in [0..Len(seqs) -> Seq(T)] : IsJoined(j, seqs) /\ Join(seqs) = j[Len(seqs)]
<1> DEFINE n == Len(seqs)
           Next1(j, i) == CASE i = 0 -> <<>>
                            [] i = 1 -> seqs[1]
                            [] OTHER -> j[i - 1] \o <<Comma>> \o seqs[i]
           step == [i \in 1..n |-> [x \in Seq(T) |->
                       IF i = 1 THEN seqs[1] ELSE x \o <<Comma>> \o seqs[i]]]
<1>1. n \in Nat /\ <<>> \in Seq(T)
  OBVIOUS
<1>2. step \in [1..n -> [Seq(T) -> Seq(T)]]
  <2>1. ASSUME NEW i \in 1..n, NEW x \in Seq(T)
        PROVE  (IF i = 1 THEN seqs[1] ELSE x \o <<Comma>> \o seqs[i]) \in Seq(T)
    <3>1. seqs[i] \in Seq(T) /\ <<Comma>> \in Seq(T)
      BY <2>1
    <3>2. x \o <<Comma>> \in Seq(T)
      BY <3>1
    <3>3. x \o <<Comma>> \o seqs[i] \in Seq(T)
      BY <3>1, <3>2
    <3>4. QED
      BY <3>1, <3>3
  <2>2. QED
    BY <2>1
<1>3. PICK f \in [0..n -> Seq(T)] : f[0] = <<>> /\ \A i \in 1..n : f[i] = step[i][f[i - 1]]
  <2>1. AreSteps(step, n, Seq(T))
    BY <1>2 DEF AreSteps
  <2>2. PICK f : Follows(f, <<>>, step, n, Seq(T))
    <3> HIDE DEF n, step
    <3>1. QED
      BY <1>1, <2>1, Computed
  <2> HIDE DEF n, step
  <2>3. QED
    BY <2>2 DEF Follows
<1>4. f = [i \in 0..n |-> Next1(f, i)]
  <2>1. ASSUME NEW i \in 0..n PROVE f[i] = Next1(f, i)
    <3>1. CASE i = 0
      BY <1>3, <3>1
    <3>2. CASE i # 0
      <4>1. i \in 1..n /\ i - 1 \in 0..n
        BY <1>1, <3>2
      <4>4. f[i - 1] \in Seq(T)
        BY <1>3, <4>1
      <4>2. f[i] = step[i][f[i - 1]]
        BY <1>3, <4>1
      <4>3. QED
        BY <3>2, <4>1, <4>2, <4>4
    <3>3. QED
      BY <3>1, <3>2
  <2> HIDE DEF n, Next1
  <2>2. QED
    BY <1>3, <2>1
<1>5. PICK j : j = CHOOSE k : k = [i \in 0..n |-> Next1(k, i)]
  OBVIOUS
<1>6. j = [i \in 0..n |-> Next1(j, i)]
  <2> HIDE DEF n, Next1
  <2>1. QED
    BY <1>4, <1>5
<1>7. Join(seqs) = j[n]
  BY <1>5 DEF Join
<1>8. \A i \in 0..n : j[i] = Next1(j, i)
  <2> HIDE DEF n, Next1
  <2>1. QED
    BY <1>6
<1>9. IsJoined(j, seqs)
  <2>1. DOMAIN j = 0..n
    BY <1>6
  <2>2. ASSUME NEW i \in 1..n
        PROVE  j[i] = IF i = 1 THEN seqs[1] ELSE j[i - 1] \o <<Comma>> \o seqs[i]
    <3>1. i \in 0..n /\ i # 0
      BY <1>1
    <3>2. j[i] = Next1(j, i)
      BY <1>8, <3>1
    <3>3. QED
      BY <3>1, <3>2
  <2>3. j[0] = <<>>
    <3>1. 0 \in 0..n
      BY <1>1
    <3>2. j[0] = Next1(j, 0)
      <4> HIDE DEF n, Next1
      <4>1. QED
        BY <1>8, <3>1
    <3>3. QED
      BY <3>2
  <2>4. QED
    BY <2>1, <2>2, <2>3 DEF IsJoined
<1>10. ASSUME NEW i \in 0..n PROVE j[i] = f[i]
  <2> DEFINE S == {k \in Nat : k <= n => j[k] = f[k]}
  <2>1. 0 \in S
    BY <1>3, <1>9 DEF IsJoined
  <2>2. ASSUME NEW k \in 1..n, k - 1 \in S PROVE k \in S
    <3>1. k - 1 <= n /\ k \in 0..n /\ k \in Nat
      BY <1>1
    <3>2. j[k - 1] = f[k - 1]
      BY <2>2, <3>1
    <3>3. j[k] = Next1(j, k) /\ f[k] = Next1(f, k)
      <4>1. f[k] = Next1(f, k)
        <5> HIDE DEF n, Next1
        <5>1. QED
          BY <1>4, <3>1
      <4>2. QED
        BY <1>8, <3>1, <4>1
    <3>4. j[k] = f[k]
      BY <3>2, <3>3
    <3>5. QED
      BY <3>1, <3>4
  <2>3. 0..n \subseteq S
    <3> HIDE DEF S
    <3>1. QED
      BY <1>1, <2>1, <2>2, CountTo
  <2>4. QED
    BY <2>3, <1>1
<1>11. j \in [0..n -> Seq(T)]
  <2>1. DOMAIN j = 0..n
    BY <1>6
  <2>2. ASSUME NEW i \in 0..n PROVE j[i] \in Seq(T)
    BY <1>3, <1>10
  <2>3. j = [i \in 0..n |-> j[i]]
    BY <1>6
  <2> HIDE DEF n
  <2>4. QED
    BY <2>2, <2>3
<1>12. QED
  BY <1>7, <1>9, <1>11

\* Of nothing, nothing is joined; of one sequence more, it comes after a comma.
LEMMA JoinOfMore ==
    ASSUME NEW T, Comma \in T, NEW seqs \in Seq(Seq(T))
    PROVE  /\ Join(seqs) \in Seq(T)
           /\ seqs = <<>> => Join(seqs) = <<>>
           /\ \A s \in Seq(T) : Join(Append(seqs, s)) =
                 IF seqs = <<>> THEN s ELSE Join(seqs) \o <<Comma>> \o s
<1> DEFINE n == Len(seqs)
<1>1. PICK j \in [0..n -> Seq(T)] : IsJoined(j, seqs) /\ Join(seqs) = j[n]
  BY JoinIsJoined
<1>2. n \in Nat
  OBVIOUS
<1>3. Join(seqs) \in Seq(T)
  BY <1>1, <1>2
<1>4. seqs = <<>> => Join(seqs) = <<>>
  BY <1>1 DEF IsJoined
<1>5. ASSUME NEW s \in Seq(T)
      PROVE  Join(Append(seqs, s)) = IF seqs = <<>> THEN s ELSE Join(seqs) \o <<Comma>> \o s
  <2>1. PICK more \in Seq(Seq(T)) : more = Append(seqs, s)
    OBVIOUS
  <2>2. Len(more) = n + 1 /\ more[n + 1] = s /\ \A i \in 1..n : more[i] = seqs[i]
    BY <2>1
  <2>3. PICK k : IsJoined(k, more) /\ Join(more) = k[Len(more)]
    BY JoinIsJoined
  <2>4. 0..n \subseteq {i \in Nat : i <= n => k[i] = j[i]}
    <3> DEFINE S == {i \in Nat : i <= n => k[i] = j[i]}
    <3>1. 0 \in S
      BY <1>1, <2>3 DEF IsJoined
    <3>2. ASSUME NEW i \in 1..n, i - 1 \in S PROVE i \in S
      <4>1. i \in 1..Len(more) /\ i \in 1..Len(seqs) /\ i \in Nat /\ i - 1 <= n
        BY <1>2, <2>2
      <4>2. k[i - 1] = j[i - 1]
        BY <3>2, <4>1
      <4>3. k[i] = IF i = 1 THEN more[1] ELSE k[i - 1] \o <<Comma>> \o more[i]
        BY <2>3, <4>1 DEF IsJoined
      <4>4. j[i] = IF i = 1 THEN seqs[1] ELSE j[i - 1] \o <<Comma>> \o seqs[i]
        BY <1>1, <4>1 DEF IsJoined
      <4>5. more[i] = seqs[i] /\ (i = 1 => more[1] = seqs[1])
        BY <2>2, <4>1
      <4>6. k[i] = j[i]
        BY <4>2, <4>3, <4>4, <4>5
      <4>7. QED
        BY <4>1, <4>6
    <3>3. 0..n \subseteq S
      <4> HIDE DEF S, n
      <4>1. QED
        BY <1>2, <3>1, <3>2, CountTo
    <3>4. QED
      BY <3>3
  <2>5. k[n] = j[n]
    BY <1>2, <2>4
  <2>6. n + 1 \in 1..Len(more) /\ (n + 1) - 1 = n /\ (n + 1 = 1 <=> seqs = <<>>)
    BY <1>2, <2>2
  <2>7. k[n + 1] = IF n + 1 = 1 THEN more[1] ELSE k[(n + 1) - 1] \o <<Comma>> \o more[n + 1]
    BY <2>3, <2>6 DEF IsJoined
  <2>8. n + 1 = 1 => more[1] = s
    BY <2>2
  <2>9. Join(more) = k[n + 1]
    BY <2>2, <2>3
  <2>10. k[n + 1] = IF seqs = <<>> THEN s ELSE k[n] \o <<Comma>> \o s
    <3> HIDE DEF n
    <3>1. QED
      BY <2>2, <2>6, <2>7, <2>8
  <2>11. QED
    BY <1>1, <2>1, <2>5, <2>9, <2>10
<1>6. QED
  BY <1>3, <1>4, <1>5
-----------------------------------------------------------------------------
(* What is at some places *)

\* What is taken of the first elements, and of one more.
IsTaken(a, s, places) ==
    /\ DOMAIN a = 0..Len(s) /\ a[0] = <<>>
    /\ \A i \in 1..Len(s) : a[i] = IF i \in places THEN Append(a[i - 1], s[i]) ELSE a[i - 1]

\* Among computes it.
LEMMA AmongIsTaken ==
    ASSUME NEW T, NEW s \in Seq(T), NEW places
    PROVE  \E a \in [0..Len(s) -> Seq(T)] : IsTaken(a, s, places) /\ Among(s, places) = a[Len(s)]
<1> DEFINE n == Len(s)
           Next1(a, i) == IF i = 0 THEN <<>>
                          ELSE IF i \in places THEN Append(a[i - 1], s[i]) ELSE a[i - 1]
           step == [i \in 1..n |-> [x \in Seq(T) |-> IF i \in places THEN Append(x, s[i]) ELSE x]]
<1>1. n \in Nat /\ <<>> \in Seq(T)
  OBVIOUS
<1>2. step \in [1..n -> [Seq(T) -> Seq(T)]]
  <2>1. ASSUME NEW i \in 1..n, NEW x \in Seq(T)
        PROVE  (IF i \in places THEN Append(x, s[i]) ELSE x) \in Seq(T)
    OBVIOUS
  <2>2. QED
    BY <2>1
<1>3. PICK f \in [0..n -> Seq(T)] : f[0] = <<>> /\ \A i \in 1..n : f[i] = step[i][f[i - 1]]
  <2>1. AreSteps(step, n, Seq(T))
    BY <1>2 DEF AreSteps
  <2>2. PICK f : Follows(f, <<>>, step, n, Seq(T))
    <3> HIDE DEF n, step
    <3>1. QED
      BY <1>1, <2>1, Computed
  <2> HIDE DEF n, step
  <2>3. QED
    BY <2>2 DEF Follows
<1>4. f = [i \in 0..n |-> Next1(f, i)]
  <2>1. ASSUME NEW i \in 0..n PROVE f[i] = Next1(f, i)
    <3>1. CASE i = 0
      BY <1>3, <3>1
    <3>2. CASE i # 0
      <4>1. i \in 1..n /\ i - 1 \in 0..n
        BY <1>1, <3>2
      <4>2. f[i] = step[i][f[i - 1]]
        BY <1>3, <4>1
      <4>3. f[i - 1] \in Seq(T)
        BY <1>3, <4>1
      <4>4. QED
        BY <3>2, <4>1, <4>2, <4>3
    <3>3. QED
      BY <3>1, <3>2
  <2> HIDE DEF n, Next1
  <2>2. QED
    BY <1>3, <2>1
<1>5. PICK a : a = CHOOSE k : k = [i \in 0..n |-> Next1(k, i)]
  OBVIOUS
<1>6. a = [i \in 0..n |-> Next1(a, i)]
  <2> HIDE DEF n, Next1
  <2>1. QED
    BY <1>4, <1>5
<1>7. Among(s, places) = a[n]
  BY <1>5 DEF Among
<1>8. \A i \in 0..n : a[i] = Next1(a, i)
  <2> HIDE DEF n, Next1
  <2>1. QED
    BY <1>6
<1>9. IsTaken(a, s, places)
  <2>1. DOMAIN a = 0..n
    BY <1>6
  <2>2. ASSUME NEW i \in 1..n
        PROVE  a[i] = IF i \in places THEN Append(a[i - 1], s[i]) ELSE a[i - 1]
    <3>1. i \in 0..n /\ i # 0
      BY <1>1
    <3>2. a[i] = Next1(a, i)
      BY <1>8, <3>1
    <3>3. QED
      BY <3>1, <3>2
  <2>3. a[0] = <<>>
    <3>1. 0 \in 0..n
      BY <1>1
    <3>2. a[0] = Next1(a, 0)
      <4> HIDE DEF n, Next1
      <4>1. QED
        BY <1>8, <3>1
    <3>3. QED
      BY <3>2
  <2>4. QED
    BY <2>1, <2>2, <2>3 DEF IsTaken
<1>10. ASSUME NEW i \in 0..n PROVE a[i] \in Seq(T)
  <2> DEFINE S == {k \in Nat : k <= n => a[k] \in Seq(T)}
  <2>1. 0 \in S
    BY <1>1, <1>9 DEF IsTaken
  <2>2. ASSUME NEW k \in 1..n, k - 1 \in S PROVE k \in S
    <3>1. k - 1 <= n /\ k \in 1..Len(s) /\ k \in Nat
      BY <1>1
    <3>2. a[k - 1] \in Seq(T) /\ s[k] \in T
      BY <2>2, <3>1
    <3>3. a[k] = IF k \in places THEN Append(a[k - 1], s[k]) ELSE a[k - 1]
      BY <1>9, <3>1 DEF IsTaken
    <3>4. a[k] \in Seq(T)
      BY <3>2, <3>3
    <3>5. QED
      BY <3>1, <3>4
  <2>3. 0..n \subseteq S
    <3> HIDE DEF S, n
    <3>1. QED
      BY <1>1, <2>1, <2>2, CountTo
  <2>4. QED
    BY <2>3, <1>1
<1>11. a \in [0..n -> Seq(T)]
  <2>1. DOMAIN a = 0..n
    BY <1>6
  <2>2. a = [i \in 0..n |-> a[i]]
    BY <1>6
  <2> HIDE DEF n
  <2>3. QED
    BY <1>10, <2>2
<1>12. QED
  BY <1>7, <1>9, <1>11

\* What is at some places of a sequence is a sequence of what it consists of.
LEMMA AmongType ==
    ASSUME NEW T, NEW s \in Seq(T), NEW places
    PROVE  Among(s, places) \in Seq(T)
<1>1. PICK a \in [0..Len(s) -> Seq(T)] : Among(s, places) = a[Len(s)]
  BY AmongIsTaken
<1>2. Len(s) \in 0..Len(s)
  OBVIOUS
<1>3. QED
  BY <1>1, <1>2

\* What is at places that follow each other is a part of the sequence.
LEMMA AmongInterval ==
    ASSUME NEW T, NEW s \in Seq(T), NEW places, NEW m \in Nat, NEW n \in Nat,
           1 <= m, m <= n + 1, n <= Len(s),
           \A i \in 1..Len(s) : i \in places <=> m <= i /\ i <= n
    PROVE  Among(s, places) = SubSeq(s, m, n)
<1>1. PICK a \in [0..Len(s) -> Seq(T)] : IsTaken(a, s, places) /\ Among(s, places) = a[Len(s)]
  BY AmongIsTaken
<1>2. Len(s) \in Nat
  OBVIOUS
<1> DEFINE upto(i) == IF i <= n THEN i ELSE n
           S == {i \in Nat : i <= Len(s) => a[i] = SubSeq(s, m, upto(i))}
<1>3. 0 \in S
  BY <1>1 DEF IsTaken
<1>4. ASSUME NEW i \in 1..Len(s), i - 1 \in S PROVE i \in S
  <2>1. i \in Nat /\ i - 1 \in Nat /\ i - 1 <= Len(s)
    BY <1>2
  <2>2. a[i - 1] = SubSeq(s, m, upto(i - 1))
    BY <1>4, <2>1
  <2>3. a[i] = IF i \in places THEN Append(a[i - 1], s[i]) ELSE a[i - 1]
    BY <1>1 DEF IsTaken
  <2>4. CASE i < m
    <3>1. i \notin places /\ upto(i) < m /\ upto(i - 1) < m /\ upto(i) \in Int /\ upto(i - 1) \in Int
      BY <2>1, <2>4
    <3>2. SubSeq(s, m, upto(i)) = <<>> /\ SubSeq(s, m, upto(i - 1)) = <<>>
      <4> HIDE DEF upto
      <4>1. QED
        BY <3>1, SubSeqEmpty
    <3>3. QED
      BY <2>1, <2>2, <2>3, <3>1, <3>2
  <2>5. CASE m <= i /\ i <= n
    <3>1. i \in places /\ upto(i) = i /\ upto(i - 1) = i - 1 /\ m \in 1..Len(s) /\ i \in m..Len(s)
      BY <2>1, <2>5, <1>2
    <3>2. SubSeq(s, m, i) = SubSeq(s, m, i - 1) \o <<s[i]>>
      BY <3>1, SubSeqRecursiveSecond
    <3>3. SubSeq(s, m, i - 1) \in Seq(T) /\ s[i] \in T
      <4>1. a[i - 1] \in Seq(T)
        BY <1>2, <2>1
      <4>2. QED
        BY <2>2, <3>1, <4>1
    <3>4. Append(SubSeq(s, m, i - 1), s[i]) = SubSeq(s, m, i - 1) \o <<s[i]>>
      BY <3>3, AppendIsConcat
    <3>5. a[i] = SubSeq(s, m, i)
      BY <2>2, <2>3, <3>1, <3>2, <3>4
    <3>6. QED
      BY <2>1, <3>1, <3>5
  <2>6. CASE n < i
    <3>1. i \notin places /\ upto(i) = n /\ upto(i - 1) = n
      BY <2>1, <2>6
    <3>2. QED
      BY <2>1, <2>2, <2>3, <3>1
  <2>7. QED
    BY <2>1, <2>4, <2>5, <2>6
<1>5. 0..Len(s) \subseteq S
  <2> HIDE DEF S
  <2>1. QED
    BY <1>2, <1>3, <1>4, CountTo
<1>6. a[Len(s)] = SubSeq(s, m, upto(Len(s))) /\ upto(Len(s)) = n
  BY <1>2, <1>5
<1>7. QED
  BY <1>1, <1>6
-----------------------------------------------------------------------------
(* Decimal digits read as hexadecimal *)

\* How the first numbers are read.
Readings(n) ==
    {g \in [0..n -> Nat] :
        \A i \in 0..n : g[i] = IF i < 10 THEN i ELSE 16 * g[i \div 10] + (i % 10)}

\* A number without its last digit.
LEMMA Shorter ==
    ASSUME NEW i \in Nat, ~(i < 10)
    PROVE  i \div 10 \in Nat /\ i \div 10 < i /\ i % 10 \in Nat
OBVIOUS

\* However many are taken, there is a way to read them, and it is the only one.
LEMMA ReadingsExist == \A n \in Nat : Readings(n) # {}
<1>1. SUFFICES ASSUME NEW n \in Nat PROVE Readings(n) # {}
  OBVIOUS
<1> DEFINE S == {m \in Nat : Readings(m) # {}}
<1>2. 0 \in S
  <2>1. [i \in 0..0 |-> 0] \in Readings(0)
    BY DEF Readings
  <2>2. QED
    BY <2>1
<1>3. ASSUME NEW m \in 1..n, m - 1 \in S PROVE m \in S
  <2>1. PICK g : g \in Readings(m - 1)
    BY <1>3
  <2>2. /\ g \in [0..m - 1 -> Nat]
        /\ \A i \in 0..m - 1 : g[i] = IF i < 10 THEN i ELSE 16 * g[i \div 10] + (i % 10)
    BY <2>1 DEF Readings
  <2>3. PICK d : d = IF m < 10 THEN m ELSE 16 * g[m \div 10] + (m % 10)
    OBVIOUS
  <2>4. m \in Nat /\ d \in Nat
    <3>1. CASE m < 10
      BY <2>3, <3>1
    <3>2. CASE ~(m < 10)
      <4>1. m \div 10 \in 0..m - 1 /\ m % 10 \in Nat
        BY <3>2, Shorter
      <4>2. g[m \div 10] \in Nat
        BY <2>2, <4>1
      <4>3. QED
        BY <2>3, <3>2, <4>1, <4>2
    <3>3. QED
      BY <3>1, <3>2
  <2>5. PICK h : h = [i \in 0..m |-> IF i = m THEN d ELSE g[i]]
    OBVIOUS
  <2>6. h \in [0..m -> Nat] /\ h[m] = d /\ \A i \in 0..m - 1 : h[i] = g[i]
    BY <2>2, <2>4, <2>5
  <2>7. ASSUME NEW i \in 0..m PROVE h[i] = IF i < 10 THEN i ELSE 16 * h[i \div 10] + (i % 10)
    <3>1. i \in Nat /\ (i = m \/ i \in 0..m - 1)
      OBVIOUS
    <3>2. CASE i < 10
      BY <2>2, <2>3, <2>6, <3>1, <3>2
    <3>3. CASE ~(i < 10)
      <4>1. i \div 10 \in 0..m - 1
        BY <3>1, <3>3, Shorter
      <4>2. h[i \div 10] = g[i \div 10]
        BY <2>6, <4>1
      <4>3. CASE i = m
        BY <2>3, <2>6, <3>3, <4>2, <4>3
      <4>4. CASE i \in 0..m - 1
        BY <2>2, <2>6, <3>3, <4>2, <4>4
      <4>5. QED
        BY <3>1, <4>3, <4>4
    <3>4. QED
      BY <3>2, <3>3
  <2>8. h \in Readings(m)
    BY <2>6, <2>7 DEF Readings
  <2>9. QED
    BY <2>4, <2>8
<1>4. 0..n \subseteq S
  <2> HIDE DEF S
  <2>1. QED
    BY <1>2, <1>3, CountTo
<1>5. QED
  BY <1>4

\* Two ways to read the first numbers are the same one as far as both go.
LEMMA ReadingsAgree ==
    ASSUME NEW n \in Nat, NEW m \in Nat, NEW g \in Readings(n), NEW h \in Readings(m),
           NEW k \in Nat, k <= n, k <= m
    PROVE  g[k] = h[k]
<1> DEFINE I == {i \in Nat : i <= n /\ i <= m /\ g[i] # h[i]}
<1>1. SUFFICES ASSUME I # {} PROVE FALSE
  OBVIOUS
<1>2. PICK i \in I : \A j \in I : i <= j
  <2>1. I \subseteq Nat
    OBVIOUS
  <2> HIDE DEF I
  <2>2. QED
    BY <1>1, <2>1, FirstOne
<1>3. /\ i \in Nat /\ i \in 0..n /\ i \in 0..m
      /\ g[i] = IF i < 10 THEN i ELSE 16 * g[i \div 10] + (i % 10)
      /\ h[i] = IF i < 10 THEN i ELSE 16 * h[i \div 10] + (i % 10)
  BY DEF Readings
<1>4. CASE i < 10
  BY <1>3, <1>4
<1>5. CASE ~(i < 10)
  <2>1. i \div 10 \in Nat /\ i \div 10 < i
    BY <1>3, <1>5, Shorter
  <2>2. i \div 10 \notin I
    <3> HIDE DEF I
    <3>1. QED
      BY <1>2, <1>3, <2>1
  <2>3. g[i \div 10] = h[i \div 10]
    BY <1>3, <2>1, <2>2
  <2>4. g[i] = h[i]
    BY <1>3, <1>5, <2>3
  <2>5. QED
    BY <2>4
<1>6. QED
  BY <1>4, <1>5

\* So DecAsHex reads every number.
LEMMA DecAsHexType == DecAsHex \in [Nat -> Nat]
<1> DEFINE f == [n \in Nat |-> (CHOOSE g : g \in Readings(n))[n]]
<1>1. ASSUME NEW n \in Nat, NEW m \in Nat, n <= m, NEW g \in Readings(m) PROVE f[n] = g[n]
  <2>1. PICK h : h = CHOOSE k : k \in Readings(n)
    OBVIOUS
  <2>2. h \in Readings(n)
    BY <2>1, ReadingsExist
  <2>3. h[n] = g[n]
    BY <1>1, <2>2, ReadingsAgree
  <2>4. QED
    BY <2>1, <2>3
<1>2. DOMAIN f = Nat /\ f = [n \in Nat |-> f[n]]
  OBVIOUS
<1> HIDE DEF f
<1>3. ASSUME NEW n \in Nat
      PROVE  f[n] \in Nat /\ f[n] = IF n < 10 THEN n ELSE 16 * f[n \div 10] + (n % 10)
  <2>1. PICK g : g \in Readings(n)
    BY ReadingsExist
  <2>2. g \in [0..n -> Nat] /\ g[n] = IF n < 10 THEN n ELSE 16 * g[n \div 10] + (n % 10)
    BY <2>1 DEF Readings
  <2>3. f[n] = g[n]
    BY <1>1, <2>1
  <2>4. CASE n < 10
    BY <2>2, <2>3, <2>4
  <2>5. CASE ~(n < 10)
    <3>1. n \div 10 \in Nat /\ n \div 10 < n
      BY <2>5, Shorter
    <3>2. f[n \div 10] = g[n \div 10]
      BY <1>1, <2>1, <3>1
    <3>3. QED
      BY <2>2, <2>3, <2>5, <3>2
  <2>6. QED
    BY <2>4, <2>5
<1>4. f = [n \in Nat |-> IF n < 10 THEN n ELSE 16 * f[n \div 10] + (n % 10)]
  BY <1>2, <1>3
<1>5. DecAsHex = [n \in Nat |-> IF n < 10 THEN n ELSE 16 * DecAsHex[n \div 10] + (n % 10)]
  BY <1>4 DEF DecAsHex
<1>6. \A n \in Nat : DecAsHex[n] = IF n < 10 THEN n ELSE 16 * DecAsHex[n \div 10] + (n % 10)
  BY <1>5
<1> DEFINE I == {i \in Nat : DecAsHex[i] \notin Nat}
<1>7. I = {}
  <2>1. SUFFICES ASSUME I # {} PROVE FALSE
    OBVIOUS
  <2>2. PICK i \in I : \A j \in I : i <= j
    <3>1. I \subseteq Nat
      OBVIOUS
    <3> HIDE DEF I
    <3>2. QED
      BY <2>1, <3>1, FirstOne
  <2>3. i \in Nat /\ DecAsHex[i] \notin Nat
    OBVIOUS
  <2>4. ~(i < 10)
    BY <1>6, <2>3
  <2>5. i \div 10 \in Nat /\ i \div 10 < i /\ i % 10 \in Nat
    BY <2>3, <2>4, Shorter
  <2>6. i \div 10 \notin I
    <3> HIDE DEF I
    <3>1. QED
      BY <2>2, <2>3, <2>5
  <2>7. DecAsHex[i \div 10] \in Nat
    BY <2>5, <2>6
  <2>8. DecAsHex[i] = 16 * DecAsHex[i \div 10] + (i % 10)
    BY <1>6, <2>3, <2>4
  <2>9. QED
    BY <2>3, <2>5, <2>7, <2>8
<1>8. \A n \in Nat : DecAsHex[n] \in Nat
  BY <1>7
<1>9. DOMAIN DecAsHex = Nat /\ DecAsHex = [n \in Nat |-> DecAsHex[n]]
  BY <1>5
<1>10. QED
  BY <1>8, <1>9
-----------------------------------------------------------------------------
(* What is written *)

\* A function on the first numbers is a sequence.
LEMMA AsSequence ==
    ASSUME NEW S, NEW n \in Nat, NEW f \in [1..n -> S]
    PROVE  f \in Seq(S) /\ Len(f) = n /\ DOMAIN f = 1..n
OBVIOUS

\* Numbers and words are parts of a value.
LEMMA PartsOf ==
    /\ \A n \in Int : Num(n) \in Parts /\ Dec(n) \in Parts /\ Hex(n) \in Parts
    /\ \A w \in Names : Word(w) \in Parts
    /\ \A s \in Names, w \in Names : Signed(s, w) \in Parts
BY NamesAssumption DEF Num, Dec, Hex, Word, Signed, Part, Parts

\* What a part consists of.
LEMMA PartTypes ==
    ASSUME NEW p \in Parts
    PROVE  p.base \in {0, 10, 16} /\ p.n \in Int /\ p.word \in Names /\ p.sign \in Names
<1>1. CASE p \in [base : {0, 10, 16}, n : Int, word : {Empty}, sign : {Empty}]
  BY <1>1, NamesAssumption
<1>2. CASE p \in [base : {0}, n : {0}, word : Names, sign : Names]
  BY <1>2
<1>3. QED
  BY <1>1, <1>2 DEF Parts

\* And that a word is not a number.
LEMMA PartFields ==
    ASSUME NEW p \in Parts
    PROVE  /\ p.base \in {0, 10, 16} /\ p.n \in Int /\ p.word \in Names /\ p.sign \in Names
           /\ p = [base |-> p.base, n |-> p.n, word |-> p.word, sign |-> p.sign]
           /\ p.word # Empty \/ p.sign # Empty => p.base = 0 /\ p.n = 0
<1>1. CASE p \in [base : {0, 10, 16}, n : Int, word : {Empty}, sign : {Empty}]
  BY <1>1, NamesAssumption
<1>2. CASE p \in [base : {0}, n : {0}, word : Names, sign : Names]
  <2>1. p.base \in {0, 10, 16} /\ p.n \in Int /\ p.word \in Names /\ p.sign \in Names
    BY <1>2
  <2>2. p = [base |-> p.base, n |-> p.n, word |-> p.word, sign |-> p.sign]
    BY <1>2
  <2>3. p.base = 0 /\ p.n = 0
    BY <1>2
  <2>4. QED
    BY <2>1, <2>2, <2>3
<1>3. QED
  BY <1>1, <1>2 DEF Parts

\* A number is neither written nor is it a word.
LEMMA NumFields ==
    ASSUME NEW n
    PROVE  Num(n).base = 0 /\ Num(n).n = n /\ Num(n).word = Empty /\ Num(n).sign = Empty
BY DEF Num, Part

\* A part in another base, and one with another word.
LEMMA PartExcept ==
    ASSUME NEW p \in Parts, NEW x
    PROVE  /\ [p EXCEPT !.base = x] = Part(x, p.n, p.word, p.sign)
           /\ [p EXCEPT !.word = x] = Part(p.base, p.n, x, p.sign)
<1>1. PICK base : base = p.base
  OBVIOUS
<1>2. PICK n : n = p.n
  OBVIOUS
<1>3. PICK word : word = p.word
  OBVIOUS
<1>4. PICK sign : sign = p.sign
  OBVIOUS
<1>5. p = [base |-> base, n |-> n, word |-> word, sign |-> sign]
  BY <1>1, <1>2, <1>3, <1>4, PartFields
<1>6. QED
  BY <1>1, <1>2, <1>3, <1>4, <1>5 DEF Part

\* An address is spelled as a part is.
LEMMA SpelledType ==
    ASSUME NEW val \in Seq(Parts)
    PROVE  /\ Spelled(val) \in Seq(Parts) /\ Len(Spelled(val)) = Len(val)
           /\ DOMAIN Spelled(val) = DOMAIN val
           /\ \A i \in DOMAIN val : Spelled(val)[i] = [val[i] EXCEPT !.word = Canonical(@)]
<1>1. ASSUME NEW p \in Parts PROVE [p EXCEPT !.word = Canonical(@)] \in Parts
  BY NamesAssumption DEF Parts, Canonical, Empty
<1>2. \A i \in 1..Len(val) : [val[i] EXCEPT !.word = Canonical(@)] \in Parts
  BY <1>1
<1>3. Spelled(val) \in [1..Len(val) -> Parts]
  BY <1>2 DEF Spelled
<1>4. QED
  BY <1>3, AsSequence DEF Spelled

\* So is a number, in another base.
LEMMA WithBaseType ==
    ASSUME NEW val \in Seq(Parts), NEW b \in {10, 16},
           \A i \in DOMAIN val : val[i] = Num(val[i].n)
    PROVE  /\ WithBase(b, val) \in Seq(Parts) /\ Len(WithBase(b, val)) = Len(val)
           /\ DOMAIN WithBase(b, val) = DOMAIN val
           /\ \A i \in DOMAIN val : WithBase(b, val)[i] = Part(b, val[i].n, Empty, Empty)
<1>1. ASSUME NEW i \in 1..Len(val)
      PROVE  [val[i] EXCEPT !.base = b] = Part(b, val[i].n, Empty, Empty) /\ Part(b, val[i].n, Empty, Empty) \in Parts
  <2>1. val[i] \in Parts /\ val[i] = Num(val[i].n)
    OBVIOUS
  <2>2. val[i].n \in Int
    BY <2>1, PartFields
  <2>3. PICK n \in Int : n = val[i].n
    BY <2>2
  <2>4. val[i].n = n /\ val[i].word = Empty /\ val[i].sign = Empty
    BY <2>1, <2>3, NumFields
  <2>5. [val[i] EXCEPT !.base = b] = Part(b, n, Empty, Empty)
    BY <2>1, <2>4, PartExcept
  <2>6. Part(b, n, Empty, Empty) \in Parts
    BY <2>3 DEF Part, Parts
  <2>7. QED
    BY <2>3, <2>5, <2>6
<1>2. WithBase(b, val) \in [1..Len(val) -> Parts]
  <2>1. \A i \in 1..Len(val) : [val[i] EXCEPT !.base = b] \in Parts
    BY <1>1
  <2>2. QED
    BY <2>1 DEF WithBase
<1>3. \A i \in 1..Len(val) : WithBase(b, val)[i] = [val[i] EXCEPT !.base = b]
  BY DEF WithBase
<1>4. QED
  <2>1. WithBase(b, val) \in Seq(Parts) /\ Len(WithBase(b, val)) = Len(val)
    BY <1>2, AsSequence
  <2>2. DOMAIN val = 1..Len(val) /\ DOMAIN WithBase(b, val) = 1..Len(val)
    BY <1>2
  <2>3. QED
    BY <1>1, <1>3, <2>1, <2>2

\* The value of a match that was constructed consists of parts, whatever it is
\* written as.
LEMMA WrittenType ==
    ASSUME NEW m, Constructed(m)
    PROVE  Written(m) \in Seq(Parts) /\ m.of \in Names /\ m.val \in Seq(Parts)
<1>1. m.of \in Names /\ m.val \in Seq(Parts)
  BY DEF Constructed
<1> DEFINE numeric == m.of \in MaskedKeys \cup PortKeys \cup DecimalKeys \cup VlanKeys
                                  \cup {"dl_type", "arp_op", "ARPOperation"}
<1>2. ASSUME numeric PROVE \A i \in DOMAIN m.val : m.val[i] = Num(m.val[i].n)
  <2>1. CASE m.of \in MaskedKeys \cup PortKeys
    BY <2>1 DEF Constructed, Fits
  <2>2. CASE m.of \in IntKeys \cup VlanKeys
    BY <2>2, <1>1 DEF Constructed
  <2>3. CASE m.of \in ByteKeys \cup {"ct_zone", "conj_id", "dl_type", "arp_op", "ARPOperation"}
    <3>1. KeyOf(m.of) \in NumberKeys \ (MaskedKeys \cup PortKeys)
      BY <2>3 DEF KeyOf, NumberKeys, MaskedKeys, TciKeys, PortKeys, ByteKeys
    <3>2. QED
      BY <3>1, <1>1 DEF Constructed, Fits
  <2>4. QED
    BY <1>2, <2>1, <2>2, <2>3 DEF DecimalKeys
<1>3. CASE numeric
  <2>1. WithBase(16, m.val) \in Seq(Parts) /\ WithBase(10, m.val) \in Seq(Parts)
    BY <1>1, <1>2, <1>3, WithBaseType
  <2>2. Written(m) = WithBase(16, m.val) \/ Written(m) = WithBase(10, m.val)
    BY <1>3 DEF Written
  <2>3. QED
    BY <1>1, <2>1, <2>2
<1>4. CASE ~numeric
  <2>1. Written(m) = Spelled(m.val)
    BY <1>4 DEF Written, VlanKeys, PortKeys
  <2>2. QED
    BY <1>1, <2>1, SpelledType
<1>5. QED
  BY <1>3, <1>4
-----------------------------------------------------------------------------
(* What a match is read as *)

\* No key is of two classes, and what is kept in an unsigned number is of none
\* but these.
LEMMA Classes ==
    ASSUME NEW key
    PROVE  /\ key \in PortKeys => key \notin VlanKeys \cup MaskedKeys \cup DecimalKeys \cup HardwareKeys
                 \cup LinkKeys \cup IPv4Keys \cup IPv6Keys \cup FlagKeys \cup {"dl_type", "arp_op"}
           /\ key \in VlanKeys => key \notin MaskedKeys \cup DecimalKeys \cup HardwareKeys
                 \cup LinkKeys \cup IPv4Keys \cup IPv6Keys \cup FlagKeys \cup {"dl_type", "arp_op"}
           /\ key \in MaskedKeys => key \notin DecimalKeys \cup HardwareKeys
                 \cup LinkKeys \cup IPv4Keys \cup IPv6Keys \cup FlagKeys \cup {"dl_type", "arp_op"}
           /\ key \in DecimalKeys => key \notin HardwareKeys
                 \cup LinkKeys \cup IPv4Keys \cup IPv6Keys \cup FlagKeys \cup {"dl_type", "arp_op"}
           /\ key \in HardwareKeys => key \notin LinkKeys \cup IPv4Keys \cup IPv6Keys \cup FlagKeys
                 \cup {"dl_type", "arp_op"}
           /\ key \in LinkKeys => key \notin IPv4Keys \cup IPv6Keys \cup FlagKeys \cup {"dl_type", "arp_op"}
           /\ key \in IPv4Keys => key \notin IPv6Keys \cup FlagKeys \cup {"dl_type", "arp_op"}
           /\ key \in IPv6Keys => key \notin FlagKeys \cup {"dl_type", "arp_op"}
           /\ key \in FlagKeys => key \notin {"dl_type", "arp_op"}
           /\ key \in NumberKeys =>
                 /\ key \notin IntKeys /\ key # "in_port" /\ Kind(key) = key
                 /\ key \in MaskedKeys \cup PortKeys \cup DecimalKeys \cup {"dl_type", "arp_op"}
<1> USE DEF MaskedKeys, TciKeys, DecimalKeys, ByteKeys, IntKeys, FlagKeys
<1>1. key \in PortKeys => key \notin VlanKeys \cup MaskedKeys \cup DecimalKeys \cup HardwareKeys
         \cup LinkKeys \cup IPv4Keys \cup IPv6Keys \cup FlagKeys \cup {"dl_type", "arp_op"}
  BY DEF PortKeys, VlanKeys, HardwareKeys, LinkKeys, IPv4Keys, IPv6Keys
<1>2. key \in VlanKeys => key \notin MaskedKeys \cup DecimalKeys \cup HardwareKeys
         \cup LinkKeys \cup IPv4Keys \cup IPv6Keys \cup FlagKeys \cup {"dl_type", "arp_op"}
  BY DEF VlanKeys, HardwareKeys, LinkKeys, IPv4Keys, IPv6Keys
<1>3. key \in MaskedKeys => key \notin DecimalKeys \cup HardwareKeys
         \cup LinkKeys \cup IPv4Keys \cup IPv6Keys \cup FlagKeys \cup {"dl_type", "arp_op"}
  BY DEF HardwareKeys, LinkKeys, IPv4Keys, IPv6Keys
<1>4. key \in DecimalKeys => key \notin HardwareKeys
         \cup LinkKeys \cup IPv4Keys \cup IPv6Keys \cup FlagKeys \cup {"dl_type", "arp_op"}
  BY DEF HardwareKeys, LinkKeys, IPv4Keys, IPv6Keys
<1>5. /\ key \in HardwareKeys => key \notin LinkKeys \cup IPv4Keys \cup IPv6Keys \cup FlagKeys
            \cup {"dl_type", "arp_op"}
      /\ key \in LinkKeys => key \notin IPv4Keys \cup IPv6Keys \cup FlagKeys \cup {"dl_type", "arp_op"}
  BY DEF HardwareKeys, LinkKeys, IPv4Keys, IPv6Keys
<1>6. /\ key \in IPv4Keys => key \notin IPv6Keys \cup FlagKeys \cup {"dl_type", "arp_op"}
      /\ key \in IPv6Keys => key \notin FlagKeys \cup {"dl_type", "arp_op"}
      /\ key \in FlagKeys => key \notin {"dl_type", "arp_op"}
  BY DEF IPv4Keys, IPv6Keys
<1>7. ASSUME key \in NumberKeys
      PROVE  /\ key \notin IntKeys /\ key # "in_port" /\ Kind(key) = key
             /\ key \in MaskedKeys \cup PortKeys \cup DecimalKeys \cup {"dl_type", "arp_op"}
  BY <1>7 DEF NumberKeys, PortKeys, Kind
<1> QED
  BY <1>1, <1>2, <1>3, <1>4, <1>5, <1>6, <1>7

\* A match that was read, with numbers that its fields have room for.
ReadMatches == [of : Names, val : Seq(Parts)]
Fitting(m)  == m.of \in NumberKeys => \A j \in DOMAIN m.val : m.val[j].n \in 0..Width(m.of) - 1

\* Every field has room for a number.
LEMMA WidthType == ASSUME NEW key PROVE Width(key) \in Nat /\ Width(key) > 0
BY WideAssumption DEF Width

\* Whatever digits a number has, it is one.
LEMMA HexOfType == ASSUME NEW p \in Parts, p.n >= 0 PROVE HexOf(p) \in Nat
<1>1. p.n \in Nat
  BY PartTypes
<1>2. QED
  BY <1>1, DecAsHexType DEF HexOf

\* A number that is wrapped fits.
LEMMA WrappedFits ==
    ASSUME NEW key, NEW n \in Int
    PROVE  /\ Wrapped(key, n) \in Parts
           /\ key \notin IntKeys => Wrapped(key, n).n \in 0..Width(key) - 1
<1>1. PICK w : w = Width(key)
  OBVIOUS
<1>2. w \in Nat /\ w > 0
  BY <1>1, WidthType
<1>3. n % w \in 0..w - 1 /\ n % w \in Int
  BY <1>2
<1>4. CASE key \in IntKeys
  BY <1>4, PartsOf DEF Wrapped
<1>5. CASE key \notin IntKeys
  <2>1. Wrapped(key, n) = Num(n % w)
    BY <1>1, <1>5 DEF Wrapped
  <2>2. QED
    BY <1>1, <1>3, <2>1, PartsOf, NumFields
<1>6. QED
  BY <1>4, <1>5

\* One part or two of those, whether or not the mask is 0.
LEMMA WithoutZeroMaskType ==
    ASSUME NEW val \in Seq(Parts)
    PROVE  /\ WithoutZeroMask(val) \in Seq(Parts)
           /\ \A j \in DOMAIN WithoutZeroMask(val) : \E i \in DOMAIN val : WithoutZeroMask(val)[j] = val[i]
<1>1. CASE Len(val) = 2 /\ val[2].n = 0
  <2>1. WithoutZeroMask(val) = <<val[1]>>
    BY <1>1 DEF WithoutZeroMask
  <2>2. Len(val) = 2
    BY <1>1
  <2>3. 1 \in DOMAIN val /\ val[1] \in Parts
    BY <2>2
  <2>4. QED
    BY <2>1, <2>3
<1>2. CASE ~(Len(val) = 2 /\ val[2].n = 0)
  <2>1. WithoutZeroMask(val) = val
    BY <1>2 DEF WithoutZeroMask
  <2>2. QED
    BY <2>1
<1>3. QED
  BY <1>1, <1>2

\* States of a connection are parts.
LEMMA CtStateType == ASSUME NEW val \in Seq(Parts) PROVE CtState(val) \in Seq(Parts)
<1>1. Empty \in Names /\ "+" \in Names
  BY NamesAssumption
<1>2. CASE val = <<>>
  <2>1. PICK q \in Parts : q = Signed("+", Empty)
    BY <1>1, PartsOf
  <2>2. CtState(val) = <<q>>
    BY <1>2, <2>1 DEF CtState
  <2>3. <<q>> \in Seq(Parts)
    OBVIOUS
  <2>4. QED
    BY <2>2, <2>3
<1>3. CASE val # <<>> /\ \E i \in DOMAIN val : val[i].sign # Empty
  BY <1>3 DEF CtState
<1>4. CASE val # <<>> /\ ~(\E i \in DOMAIN val : val[i].sign # Empty)
  <2>1. CtState(val) = [i \in DOMAIN val |-> Signed("+", val[i].word)]
    BY <1>4 DEF CtState
  <2>2. ASSUME NEW i \in 1..Len(val) PROVE Signed("+", val[i].word) \in Parts
    <3>1. val[i] \in Parts
      OBVIOUS
    <3>2. val[i].word \in Names
      BY <3>1, PartTypes
    <3>3. QED
      BY <1>1, <3>2, PartsOf
  <2>3. [i \in 1..Len(val) |-> Signed("+", val[i].word)] \in [1..Len(val) -> Parts]
    BY <2>2
  <2>4. CtState(val) \in [1..Len(val) -> Parts]
    BY <2>1, <2>3
  <2>5. QED
    BY <2>4, AsSequence
<1>5. QED
  BY <1>2, <1>3, <1>4

\* The numbers of a masked port, and those of a field.
HexNumbers(val)      == [i \in 1..2 |-> Num(HexOf(val[i]))]
FieldNumbers(key, val) == [i \in DOMAIN val |-> Wrapped(key, val[i].n)]

\* What a match is read as, by the class of its key.
LEMMA ReadValueCases ==
    ASSUME NEW key, NEW val
    PROVE  /\ key \in PortKeys /\ Len(val) = 2 =>
                 ReadValue(key, val) = WithoutZeroMask(HexNumbers(val))
           /\ key = "dl_type" => ReadValue(key, val) = <<Wrapped(key, HexOf(val[1]))>>
           /\ key \in VlanKeys => ReadValue(key, val) =
                 <<IF val[1].base = 10 THEN Num(val[1].n) ELSE Wrapped(key, val[1].n)>>
           /\ key \in MaskedKeys =>
                 ReadValue(key, val) = WithoutZeroMask(FieldNumbers(key, val))
           /\ key \in DecimalKeys \cup {"arp_op"} \/ (key \in PortKeys /\ Len(val) = 1) =>
                 ReadValue(key, val) = <<Wrapped(key, val[1].n)>>
           /\ key \in HardwareKeys => ReadValue(key, val) = Spelled(val)
           /\ key = "ct_state" => ReadValue(key, val) = CtState(val)
           /\ key \in LinkKeys \cup IPv4Keys \cup IPv6Keys \cup {"tcp_flags"} => ReadValue(key, val) = val
<1>1. CASE key \in PortKeys
  <2>1. CASE Len(val) = 2
    BY <1>1, <2>1, Classes DEF ReadValue, FlagKeys, HexNumbers, FieldNumbers
  <2>2. CASE Len(val) = 1
    BY <1>1, <2>2, Classes DEF ReadValue, FlagKeys, HexNumbers, FieldNumbers
  <2>3. QED
    BY <1>1, <2>1, <2>2, Classes DEF FlagKeys
<1>2. CASE key = "dl_type"
  BY <1>2, Classes DEF ReadValue, FlagKeys, HexNumbers, FieldNumbers
<1>3. CASE key \in VlanKeys
  BY <1>3, Classes DEF ReadValue, FlagKeys, HexNumbers, FieldNumbers
<1>4. CASE key \in MaskedKeys
  BY <1>4, Classes DEF ReadValue, FlagKeys, HexNumbers, FieldNumbers
<1>5. CASE key \in DecimalKeys \cup {"arp_op"}
  BY <1>5, Classes DEF ReadValue, FlagKeys, HexNumbers, FieldNumbers
<1>6. CASE key \in HardwareKeys
  BY <1>6, Classes DEF ReadValue, FlagKeys, HexNumbers, FieldNumbers
<1>7. CASE key \in FlagKeys
  BY <1>7, Classes DEF ReadValue, FlagKeys, HexNumbers, FieldNumbers
<1>8. CASE key \in LinkKeys \cup IPv4Keys \cup IPv6Keys
  BY <1>8, Classes DEF ReadValue, FlagKeys, HexNumbers, FieldNumbers
<1>9. QED
  BY <1>1, <1>2, <1>3, <1>4, <1>5, <1>6, <1>7, <1>8 DEF FlagKeys
\* A match that is not refused is read as one whose numbers fit.
LEMMA ReadValueFits ==
    ASSUME NEW key \in KnownKeys, NEW val \in Seq(Parts), Parses(key, val)
    PROVE  /\ ReadValue(key, val) \in Seq(Parts)
           /\ key \in NumberKeys => \A j \in DOMAIN ReadValue(key, val) :
                                       ReadValue(key, val)[j].n \in 0..Width(key) - 1
<1> DEFINE Value == ReadValue(key, val)
           fits(p) == p \in Parts /\ (key \in NumberKeys => p.n \in 0..Width(key) - 1)
           Fine == /\ Value \in Seq(Parts)
                   /\ key \in NumberKeys => \A j \in DOMAIN Value : Value[j].n \in 0..Width(key) - 1
<1>1. ASSUME NEW i \in DOMAIN val PROVE val[i] \in Parts /\ val[i].n \in Int
  BY PartTypes
<1>2. ASSUME NEW n \in Int PROVE fits(Wrapped(key, n))
  BY <1>2, WrappedFits, Classes
<1>3. ASSUME NEW p, Value = <<p>>, fits(p) PROVE Fine
  <2> HIDE DEF Value
  <2>1. QED
    BY <1>3
<1>4. CASE key \in PortKeys /\ Len(val) = 2
  <2>1. \A i \in 1..2 : val[i].n >= 0 /\ HexOf(val[i]) < 65536
    BY <1>4 DEF Parses, Clamps, ReadsHex
  <2>2. Width(key) = 65536
    BY <1>4 DEF Width, PortKeys, ByteKeys
  <2>3. ASSUME NEW i \in 1..2 PROVE fits(Num(HexOf(val[i])))
    <3>1. val[i] \in Parts
      BY <1>1, <1>4
    <3>2. val[i].n >= 0 /\ HexOf(val[i]) < 65536
      BY <2>1
    <3>3. PICK h : h = HexOf(val[i])
      OBVIOUS
    <3>4. h \in Nat /\ h < 65536
      BY <3>1, <3>2, <3>3, HexOfType
    <3>5. Num(h) \in Parts /\ Num(h).n = h
      BY <3>4, PartsOf, NumFields
    <3>6. h < Width(key)
      BY <2>2, <3>4
    <3>7. h \in 0..Width(key) - 1
      BY <3>4, <3>6, WidthType
    <3>8. QED
      BY <3>3, <3>5, <3>7
  <2>4. PICK v : v = HexNumbers(val)
    OBVIOUS
  <2>5. \A i \in 1..2 : fits(v[i])
    BY <2>3, <2>4 DEF HexNumbers
  <2>6. v \in [1..2 -> Parts]
    BY <2>4, <2>5 DEF HexNumbers
  <2>7. v \in Seq(Parts) /\ DOMAIN v = 1..2
    BY <2>6, AsSequence
  <2>8. Value = WithoutZeroMask(v)
    BY <1>4, <2>4, ReadValueCases
  <2>9. PICK w : w = WithoutZeroMask(v)
    OBVIOUS
  <2>10. w \in Seq(Parts) /\ \A j \in DOMAIN w : \E i \in DOMAIN v : w[j] = v[i]
    BY <2>7, <2>9, WithoutZeroMaskType
  <2>11. \A j \in DOMAIN w : fits(w[j])
    <3> HIDE DEF fits
    <3>1. QED
      BY <2>5, <2>7, <2>10
  <2>12. Value = w
    BY <2>8, <2>9
  <2>13. QED
    BY <2>10, <2>11, <2>12
<1>5. CASE key = "dl_type"
  <2>1. Len(val) = 1 /\ val[1].n >= 0
    BY <1>5 DEF Parses, ReadsHex
  <2>2. PICK h \in Int : h = HexOf(val[1])
    BY <1>1, <2>1, HexOfType
  <2>3. Value = <<Wrapped(key, h)>>
    BY <1>5, <2>2, ReadValueCases
  <2>4. QED
    BY <1>2, <1>3, <2>3
<1>6. CASE key \in VlanKeys
  <2>1. Len(val) = 1
    BY <1>6 DEF Parses
  <2>2. PICK n \in Int : n = val[1].n
    BY <1>1, <2>1
  <2>3. key \notin NumberKeys
    BY <1>6, Classes
  <2>4. Value = <<IF val[1].base = 10 THEN Num(n) ELSE Wrapped(key, n)>>
    BY <1>6, <2>2, ReadValueCases
  <2>5. fits(Num(n)) /\ fits(Wrapped(key, n))
    BY <1>2, <2>3, PartsOf
  <2>6. QED
    BY <1>3, <2>4, <2>5
<1>7. CASE key \in MaskedKeys
  <2>1. PICK v : v = FieldNumbers(key, val)
    OBVIOUS
  <2>2. DOMAIN val = 1..Len(val) /\ \A i \in 1..Len(val) : fits(v[i])
    BY <1>1, <1>2, <2>1 DEF FieldNumbers
  <2>3. v \in [1..Len(val) -> Parts]
    BY <2>1, <2>2 DEF FieldNumbers
  <2>4. v \in Seq(Parts) /\ DOMAIN v = 1..Len(val)
    BY <2>3, AsSequence
  <2>5. Value = WithoutZeroMask(v)
    BY <1>7, <2>1, ReadValueCases
  <2>6. QED
    BY <2>2, <2>4, <2>5, WithoutZeroMaskType
<1>8. CASE key \in DecimalKeys \cup {"arp_op"} \/ (key \in PortKeys /\ Len(val) = 1)
  <2>1. Len(val) = 1
    BY <1>8 DEF Parses, Clamps
  <2>2. PICK n \in Int : n = val[1].n
    BY <1>1, <2>1
  <2>3. Value = <<Wrapped(key, n)>>
    BY <1>8, <2>2, ReadValueCases
  <2>4. QED
    BY <1>2, <1>3, <2>3
<1>9. CASE key \in HardwareKeys \cup FlagKeys \cup LinkKeys \cup IPv4Keys \cup IPv6Keys
  <2>1. Value \in {Spelled(val), CtState(val), val}
    BY <1>9, ReadValueCases DEF FlagKeys
  <2>2. key \notin NumberKeys
    BY <1>9, Classes
  <2>3. QED
    BY <2>1, <2>2, SpelledType, CtStateType
<1>10. key \in PortKeys => Len(val) = 1 \/ Len(val) = 2
  BY DEF Parses, Clamps
<1>11. QED
  BY <1>4, <1>5, <1>6, <1>7, <1>8, <1>9, <1>10 DEF KnownKeys

\* So is the match, of the type that its key is read as.
LEMMA MatchOfFits ==
    ASSUME NEW key \in KnownKeys, key \in Names, NEW val \in Seq(Parts), Parses(key, val)
    PROVE  MatchOf(key, val) \in ReadMatches /\ Fitting(MatchOf(key, val))
<1>1. PICK v : v = ReadValue(key, val)
  OBVIOUS
<1>2. PICK k : k = Kind(key)
  OBVIOUS
<1>3. k \in Names
  BY <1>2, NamesAssumption DEF Kind
<1>4. k \in NumberKeys => k = key
  BY <1>2 DEF Kind, NumberKeys, ByteKeys, MaskedKeys, TciKeys, PortKeys
<1>5. v \in Seq(Parts) /\ (key \in NumberKeys => \A j \in DOMAIN v : v[j].n \in 0..Width(key) - 1)
  BY <1>1, ReadValueFits
<1>6. PICK m : m = MatchOf(key, val)
  OBVIOUS
<1>7. m = [of |-> k, val |-> v]
  BY <1>1, <1>2, <1>6 DEF MatchOf, Match
<1>8. m \in ReadMatches /\ m.of = k /\ m.val = v
  BY <1>3, <1>5, <1>7 DEF ReadMatches
<1>9. QED
  BY <1>4, <1>5, <1>6, <1>8 DEF Fitting
-----------------------------------------------------------------------------
(* What a flow is written as *)

\* A part is a sequence, and two sequences of parts are one.
LEMMA PartSequences ==
    /\ \A p \in Parts : <<p>> \in Seq(Parts)
    /\ \A s \in Seq(Parts), t \in Seq(Parts) : s \o t \in Seq(Parts)
OBVIOUS

\* A number that is left out if it is zero.
LEMMA NotZeroType == ASSUME NEW p \in Parts PROVE NotZero(p) \in Seq(Parts)
BY DEF NotZero

\* So are arguments that the constructors take and the tokens around them.
LEMMA PlainTokensType ==
    ASSUME NEW a, ConstructedPlain(a)
    PROVE  PlainTokens(a) \in Seq(Parts)
<1>1. a.of \in TextActions \cup {"ct_clear", "ct", "conjunction", "resubmit"} \cup DOMAIN Prefixed
  BY DEF ConstructedPlain
<1>2. a.args \in Seq(Parts)
  BY DEF ConstructedPlain
<1>3. \A w \in Names : <<Word(w)>> \in Seq(Parts)
  BY PartsOf, PartSequences
<1>4. /\ {"ct", "conjunction", "resubmit", "(", ")", ",", "/"} \subseteq Names
      /\ TextActions \cup {"ct_clear"} \subseteq Names
      /\ \A of \in DOMAIN Prefixed : Prefixed[of] \in Names
  BY ActionNamesAssumption
<1>5. Open \in Parts /\ Close \in Parts /\ Comma \in Parts /\ Slash \in Parts
  BY <1>4, PartsOf DEF Open, Close, Comma, Slash
<1>6. CASE a.of \in TextActions \cup {"ct_clear"}
  <2>1. PlainTokens(a) = <<Word(a.of)>>
    BY <1>6 DEF PlainTokens, TextActions
  <2>2. QED
    BY <1>3, <1>4, <1>6, <2>1
<1>7. CASE a.of = "ct"
  <2>1. PlainTokens(a) = <<Word("ct"), Open>> \o a.args \o <<Close>>
    BY <1>7 DEF PlainTokens, TextActions
  <2>2. PICK w \in Parts : w = Word("ct")
    BY <1>4, PartsOf
  <2>3. <<w, Open>> \in Seq(Parts) /\ <<Close>> \in Seq(Parts)
    BY <1>5
  <2>4. QED
    BY <1>2, <2>1, <2>2, <2>3
<1>8. CASE a.of = "conjunction"
  <2>1. PlainTokens(a) =
           <<Word("conjunction"), Open, a.args[1], Comma, a.args[2], Slash, a.args[3], Close>>
    BY <1>8 DEF PlainTokens, TextActions
  <2>2. PICK w \in Parts : w = Word("conjunction")
    BY <1>4, PartsOf
  <2>3. Len(a.args) = 3
    BY <1>8 DEF ConstructedPlain
  <2>4. a.args[1] \in Parts /\ a.args[2] \in Parts /\ a.args[3] \in Parts
    BY <1>2, <2>3
  <2>5. QED
    BY <1>5, <2>1, <2>2, <2>4
<1>9. CASE a.of = "resubmit"
  <2>1. PlainTokens(a) = <<Word("resubmit"), Open>> \o NotZero(a.args[1]) \o <<Comma>>
                            \o NotZero(a.args[2]) \o <<Close>>
    BY <1>9 DEF PlainTokens, TextActions
  <2>2. PICK w \in Parts : w = Word("resubmit")
    BY <1>4, PartsOf
  <2>3. Len(a.args) = 2
    BY <1>9 DEF ConstructedPlain
  <2>4. a.args[1] \in Parts /\ a.args[2] \in Parts
    BY <1>2, <2>3
  <2>5. PICK s \in Seq(Parts) : s = NotZero(a.args[1])
    BY <2>4, NotZeroType
  <2>6. PICK t \in Seq(Parts) : t = NotZero(a.args[2])
    BY <2>4, NotZeroType
  <2>7. <<w, Open>> \in Seq(Parts) /\ <<Comma>> \in Seq(Parts) /\ <<Close>> \in Seq(Parts)
    BY <1>5
  <2>8. <<w, Open>> \o s \o <<Comma>> \o t \o <<Close>> \in Seq(Parts)
    BY <2>7
  <2>9. QED
    BY <2>1, <2>2, <2>5, <2>6, <2>8
<1>10. CASE a.of \notin TextActions \cup {"ct_clear", "ct", "conjunction", "resubmit"}
  <2>1. PlainTokens(a) = <<Word(Prefixed[a.of])>> \o Spelled(a.args)
    BY <1>10 DEF PlainTokens
  <2>2. Prefixed[a.of] \in Names
    BY <1>1, <1>4, <1>10
  <2>3. PICK w \in Parts : w = Word(Prefixed[a.of])
    BY <2>2, PartsOf
  <2>4. Spelled(a.args) \in Seq(Parts) /\ <<w>> \in Seq(Parts)
    BY <1>2, SpelledType
  <2>5. QED
    BY <2>1, <2>3, <2>4
<1>11. QED
  BY <1>6, <1>7, <1>8, <1>9, <1>10

\* Whatever action was constructed is tokens.
LEMMA ActionTokensType ==
    ASSUME NEW a, ConstructedAction(a)
    PROVE  ActionTokens(a) \in Seq(Parts)
<1>1. CASE a.of # "learn"
  BY <1>1, PlainTokensType DEF ConstructedAction, ActionTokens
<1>2. CASE a.of = "learn"
  <2>1. a.args \in Seq(Parts)
    BY <1>2 DEF ConstructedAction
  <2>2. a.inner \in Seq([of : Names, args : Seq(Parts), inner : {<<>>}])
    BY <1>2 DEF ConstructedAction
  <2>3. \A i \in DOMAIN a.inner : ConstructedPlain(a.inner[i])
    BY <1>2 DEF ConstructedAction
  <2>4. PICK inner : inner = [i \in DOMAIN a.inner |-> PlainTokens(a.inner[i])]
    OBVIOUS
  <2>5. DOMAIN a.inner = 1..Len(a.inner) /\ Len(a.inner) \in Nat
    BY <2>2
  <2>6. inner \in [1..Len(a.inner) -> Seq(Parts)]
    BY <2>3, <2>4, <2>5, PlainTokensType
  <2>7. inner \in Seq(Seq(Parts))
    BY <2>5, <2>6, AsSequence
  <2>8. Open \in Parts /\ Close \in Parts /\ Comma \in Parts /\ Word("learn") \in Parts
    BY ActionNamesAssumption, PartsOf DEF Open, Close, Comma
  <2>9. Join(inner) \in Seq(Parts)
    BY <2>7, <2>8, JoinOfMore
  <2>10. ActionTokens(a) = <<Word("learn"), Open>> \o a.args \o <<Comma>> \o Join(inner) \o <<Close>>
    BY <1>2, <2>4 DEF ActionTokens
  <2>11. PICK w \in Parts : w = Word("learn")
    BY <2>8
  <2>12. <<w, Open>> \in Seq(Parts) /\ <<Comma>> \in Seq(Parts) /\ <<Close>> \in Seq(Parts)
    BY <2>8
  <2>13. <<w, Open>> \o a.args \o <<Comma>> \o Join(inner) \o <<Close>> \in Seq(Parts)
    BY <2>1, <2>9, <2>12
  <2>14. QED
    BY <2>10, <2>11, <2>13
<1>3. QED
  BY <1>1, <1>2
\* What a caller may ask for.
Asks == {f \in Flows : /\ IsWord(f.protocol) /\ f.cookie >= 0
                       /\ \A i \in DOMAIN f.matches : Constructed(f.matches[i])
                       /\ \A i \in DOMAIN f.actions : ConstructedAction(f.actions[i])}

\* A key with a value is a matcher.
LEMMA MatcherType ==
    ASSUME NEW key \in Names, NEW val \in Seq(Parts)
    PROVE  Matcher(key, val) \in Matchers
BY DEF Matcher, Matchers

\* The keys that a flow is written with are names.
LEMMA FieldNames ==
    {Empty, "LOCAL", "dec_ttl", "other", "in_port", "cookie", "table", "priority", "idle_timeout",
     "duration", "n_packets", "n_bytes", " "} \subseteq Names
BY NamesAssumption, FieldNamesAssumption

\* Every part of the text of a flow is a sequence of matchers.
LEMMA PiecesType ==
    ASSUME NEW f \in Asks
    PROVE  /\ MatchMatchers(f) \in Seq(Matchers) /\ Len(MatchMatchers(f)) = Len(f.matches)
           /\ PortMatchers(f) \in Seq(Matchers) /\ ProtocolMatchers(f) \in Seq(Matchers)
           /\ CookieMatchers(f) \in Seq(Matchers) /\ TableMatcher(f) \in Matchers
           /\ Matcher("priority", <<Dec(f.priority)>>) \in Matchers
           /\ Matcher("idle_timeout", <<Dec(f.idle)>>) \in Matchers
<1> DEFINE one(key, p) == Matcher(key, <<p>>)
<1>1. ASSUME NEW key \in Names, NEW p \in Parts PROVE one(key, p) \in Matchers
  BY PartSequences, MatcherType
<1>2. /\ f.priority \in Int /\ f.protocol \in Parts /\ f.inport \in Int /\ f.table \in Int
      /\ f.idle \in Int /\ f.cookie \in Int
      /\ f.matches \in Seq([of : Names, val : Seq(Parts)])
      /\ \A i \in DOMAIN f.matches : Constructed(f.matches[i])
  BY DEF Asks, Flows
<1>3. \A m \in Matchers, c \in BOOLEAN : When(c, m) \in Seq(Matchers)
  BY DEF When
<1>4. MatchMatchers(f) \in Seq(Matchers) /\ Len(MatchMatchers(f)) = Len(f.matches)
  <2>1. ASSUME NEW m, Constructed(m) PROVE MatchMatcher(m) \in Matchers
    <3>1. Written(m) \in Seq(Parts) /\ KeyOf(m.of) \in Names
      BY <2>1, WrittenType, NamesAssumption DEF KeyOf
    <3>2. Matcher(KeyOf(m.of), Written(m)) \in Matchers
      BY <3>1, MatcherType
    <3>3. one(Empty, Word("dec_ttl")) \in Matchers
      BY <1>1, FieldNames, PartsOf
    <3>4. QED
      BY <3>2, <3>3 DEF MatchMatcher
  <2>2. \A i \in 1..Len(f.matches) : MatchMatcher(f.matches[i]) \in Matchers
    BY <1>2, <2>1
  <2>3. MatchMatchers(f) \in [1..Len(f.matches) -> Matchers]
    BY <1>2, <2>2 DEF MatchMatchers
  <2>4. Len(f.matches) \in Nat
    BY <1>2
  <2>5. QED
    BY <2>3, <2>4, AsSequence
<1>5. PortMatchers(f) \in Seq(Matchers)
  <2>1. PICK p \in Parts : p = IF f.inport = PortLOCAL THEN Word("LOCAL") ELSE Dec(f.inport)
    BY <1>2, FieldNames, PartsOf
  <2>2. one("in_port", p) \in Matchers
    BY <1>1, FieldNames
  <2>3. PortMatchers(f) = When(f.inport # 0, one("in_port", p))
    BY <2>1 DEF PortMatchers
  <2>4. QED
    BY <1>3, <2>2, <2>3
<1>6. ProtocolMatchers(f) \in Seq(Matchers)
  <2>1. one(Empty, f.protocol) \in Matchers
    BY <1>1, <1>2, FieldNames
  <2>2. QED
    BY <1>3, <2>1 DEF ProtocolMatchers
<1>7. CookieMatchers(f) \in Seq(Matchers)
  <2>1. one("cookie", Hex(f.cookie)) \in Matchers
    BY <1>1, <1>2, FieldNames, PartsOf
  <2>2. CASE f.cookie > 0
    BY <2>1, <2>2 DEF CookieMatchers, When
  <2>3. CASE ~(f.cookie > 0)
    BY <2>3 DEF CookieMatchers, When
  <2>4. QED
    BY <2>2, <2>3
<1>8. /\ TableMatcher(f) \in Matchers
      /\ Matcher("priority", <<Dec(f.priority)>>) \in Matchers
      /\ Matcher("idle_timeout", <<Dec(f.idle)>>) \in Matchers
  BY <1>1, <1>2, FieldNames, PartsOf DEF TableMatcher
<1>9. QED
  BY <1>4, <1>5, <1>6, <1>7, <1>8

\* The tokens of the actions of a flow.
Tokens(f) == [i \in DOMAIN f.actions |-> ActionTokens(f.actions[i])]

\* They are one sequence of parts for every action.
LEMMA TokensType ==
    ASSUME NEW f \in Asks
    PROVE  Tokens(f) \in Seq(Seq(Parts)) /\ Len(Tokens(f)) = Len(f.actions)
<1>1. DOMAIN f.actions = 1..Len(f.actions) /\ Len(f.actions) \in Nat
  BY DEF Asks, Flows
<1>2. \A i \in DOMAIN f.actions : ConstructedAction(f.actions[i])
  BY DEF Asks
<1>3. Tokens(f) \in [1..Len(f.actions) -> Seq(Parts)]
  BY <1>1, <1>2, ActionTokensType DEF Tokens
<1>4. QED
  BY <1>1, <1>3, AsSequence

\* What a flow is written as is a text.
LEMMA FlowTextType ==
    ASSUME NEW f \in Asks
    PROVE  FlowTextOf(f) \in Texts /\ FlowTextOf(f).actions = Join(Tokens(f))
<1>1. PICK p \in Matchers : p = Matcher("priority", <<Dec(f.priority)>>)
  BY PiecesType
<1>2. PICK t \in Matchers : t = TableMatcher(f)
  BY PiecesType
<1>3. PICK i \in Matchers : i = Matcher("idle_timeout", <<Dec(f.idle)>>)
  BY PiecesType
<1>4. PICK c \in Seq(Matchers) : c = CookieMatchers(f)
  BY PiecesType
<1>5. PICK ms : ms = <<Matcher("priority", <<Dec(f.priority)>>)>> \o ProtocolMatchers(f)
                        \o PortMatchers(f) \o MatchMatchers(f)
                        \o <<TableMatcher(f), Matcher("idle_timeout", <<Dec(f.idle)>>)>> \o CookieMatchers(f)
  OBVIOUS
<1>6. ms \in Seq(Matchers)
  <2>1. <<p>> \in Seq(Matchers) /\ <<t, i>> \in Seq(Matchers)
    OBVIOUS
  <2>2. PICK x \in Seq(Matchers), y \in Seq(Matchers), z \in Seq(Matchers) :
            x = ProtocolMatchers(f) /\ y = PortMatchers(f) /\ z = MatchMatchers(f)
    BY PiecesType
  <2>3. ms = <<p>> \o x \o y \o z \o <<t, i>> \o c
    BY <1>1, <1>2, <1>3, <1>4, <1>5, <2>2
  <2>4. QED
    BY <2>1, <2>3
<1>7. PICK j : j = Join(Tokens(f))
  OBVIOUS
<1>8. FlowTextOf(f) = [matchers |-> ms, actions |-> j]
  BY <1>5, <1>7 DEF FlowTextOf, Tokens
<1>9. j \in Seq(Parts)
  <2>1. Comma \in Parts
    BY ActionNamesAssumption, PartsOf DEF Comma
  <2>2. QED
    BY <1>7, <2>1, TokensType, JoinOfMore
<1>10. QED
  BY <1>6, <1>7, <1>8, <1>9 DEF Texts
\* A line as ovs-ofctl prints it, part by part.
Keyed(text, keys)       == {i \in DOMAIN text.matchers : text.matchers[i].key \in keys}
FieldsOf(text, key)     == Among(text.matchers, Keyed(text, {key}))
OtherThan(text, key, n) == Among(text.matchers, {i \in Keyed(text, {key}) : text.matchers[i].val[1].n # n})
MatchOnly(text) ==
    Among(text.matchers, DOMAIN text.matchers \ Keyed(text, {"priority", "table", "idle_timeout", "cookie"}))
FrontOf(text) ==
    (IF FieldsOf(text, "cookie") = <<>> THEN <<Matcher("cookie", <<Hex(0)>>)>>
     ELSE FieldsOf(text, "cookie"))
    \o <<Matcher("duration", <<Word("other")>>)>> \o FieldsOf(text, "table")
    \o <<Matcher("n_packets", <<Dec(0)>>), Matcher("n_bytes", <<Dec(0)>>)>>
    \o OtherThan(text, "idle_timeout", 0)
PrintedAs(text) == FrontOf(text) \o OtherThan(text, "priority", DefaultPriority) \o MatchOnly(text)
Spaced(ms, n)   == [i \in DOMAIN ms |-> [ms[i] EXCEPT !.space = i \in 2..n]]

\* These are its parts.
LEMMA PrintedLineIs ==
    ASSUME NEW text
    PROVE  PrintedLine(text) = [matchers |-> Spaced(PrintedAs(text), Len(FrontOf(text)) + 1),
                                actions  |-> text.actions]
BY DEF PrintedLine, Spaced, PrintedAs, FrontOf, MatchOnly, OtherThan, FieldsOf, Keyed

\* Matchers with spaces before some of them are matchers.
LEMMA SpacedType ==
    ASSUME NEW ms \in Seq(Matchers), NEW n
    PROVE  /\ Spaced(ms, n) \in Seq(Matchers) /\ Len(Spaced(ms, n)) = Len(ms)
           /\ \A i \in 1..Len(ms) : Spaced(ms, n)[i] = [ms[i] EXCEPT !.space = i \in 2..n]
<1>1. ASSUME NEW m \in Matchers, NEW b \in BOOLEAN PROVE [m EXCEPT !.space = b] \in Matchers
  BY DEF Matchers
<1>2. ASSUME NEW i \in 1..Len(ms) PROVE [ms[i] EXCEPT !.space = i \in 2..n] \in Matchers
  <2>1. ms[i] \in Matchers /\ (i \in 2..n) \in BOOLEAN
    OBVIOUS
  <2>2. QED
    BY <1>1, <2>1
<1>3. Spaced(ms, n) \in [1..Len(ms) -> Matchers]
  BY <1>2 DEF Spaced
<1>4. Len(ms) \in Nat
  OBVIOUS
<1>5. \A i \in 1..Len(ms) : Spaced(ms, n)[i] = [ms[i] EXCEPT !.space = i \in 2..n]
  BY DEF Spaced
<1>6. QED
  BY <1>3, <1>4, <1>5, AsSequence

\* So a printed line is a text, with the same actions.
LEMMA PrintedLineType ==
    ASSUME NEW text \in Texts
    PROVE  PrintedLine(text) \in Texts /\ PrintedLine(text).actions = text.actions
<1>1. text.matchers \in Seq(Matchers) /\ text.actions \in Seq(Parts)
  BY DEF Texts
<1>2. \A key : FieldsOf(text, key) \in Seq(Matchers)
  BY <1>1, AmongType DEF FieldsOf
<1>3. \A key, n : OtherThan(text, key, n) \in Seq(Matchers)
  BY <1>1, AmongType DEF OtherThan
<1>4. MatchOnly(text) \in Seq(Matchers)
  BY <1>1, AmongType DEF MatchOnly
<1>5. ASSUME NEW key \in Names, NEW p \in Parts PROVE Matcher(key, <<p>>) \in Matchers
  BY PartSequences, MatcherType
<1>6. PICK cookie \in Matchers : cookie = Matcher("cookie", <<Hex(0)>>)
  <2>1. Hex(0) \in Parts
    BY NamesAssumption DEF Hex, Part, Parts
  <2>2. QED
    BY <1>5, <2>1, FieldNames
<1>7. PICK duration \in Matchers : duration = Matcher("duration", <<Word("other")>>)
  BY <1>5, FieldNames, PartsOf
<1>8. PICK packets \in Matchers : packets = Matcher("n_packets", <<Dec(0)>>)
  <2>1. Dec(0) \in Parts
    BY NamesAssumption DEF Dec, Part, Parts
  <2>2. QED
    BY <1>5, <2>1, FieldNames
<1>9. PICK bytes \in Matchers : bytes = Matcher("n_bytes", <<Dec(0)>>)
  <2>1. Dec(0) \in Parts
    BY NamesAssumption DEF Dec, Part, Parts
  <2>2. QED
    BY <1>5, <2>1, FieldNames
<1>10. PICK a \in Seq(Matchers) : a = IF FieldsOf(text, "cookie") = <<>> THEN <<cookie>>
                                      ELSE FieldsOf(text, "cookie")
  <2>1. FieldsOf(text, "cookie") \in Seq(Matchers) /\ <<cookie>> \in Seq(Matchers)
    BY <1>2
  <2>2. QED
    BY <2>1
<1>11. PICK t \in Seq(Matchers) : t = FieldsOf(text, "table")
  BY <1>2
<1>12. PICK i \in Seq(Matchers) : i = OtherThan(text, "idle_timeout", 0)
  BY <1>3
<1>13. PICK p \in Seq(Matchers) : p = OtherThan(text, "priority", DefaultPriority)
  BY <1>3
<1>14. FrontOf(text) = a \o <<duration>> \o t \o <<packets, bytes>> \o i
  BY <1>6, <1>7, <1>8, <1>9, <1>10, <1>11, <1>12 DEF FrontOf
<1>15. FrontOf(text) \in Seq(Matchers)
  <2>1. <<duration>> \in Seq(Matchers) /\ <<packets, bytes>> \in Seq(Matchers)
    OBVIOUS
  <2>2. a \o <<duration>> \o t \o <<packets, bytes>> \o i \in Seq(Matchers)
    BY <2>1
  <2>3. QED
    BY <1>14, <2>2
<1>16. PrintedAs(text) \in Seq(Matchers)
  BY <1>4, <1>13, <1>15 DEF PrintedAs
<1>17. PICK ms \in Seq(Matchers) : ms = Spaced(PrintedAs(text), Len(FrontOf(text)) + 1)
  BY <1>16, SpacedType
<1>18. PrintedLine(text) = [matchers |-> ms, actions |-> text.actions]
  BY <1>17, PrintedLineIs
<1>19. QED
  BY <1>1, <1>18 DEF Texts

\* A line that is read is a text, with the actions of the entry.
LEMMA LineType ==
    ASSUME NEW entry \in Entries, NEW print
    PROVE  LineOf(entry, print) \in Texts /\ LineOf(entry, print).actions = entry.text.actions
<1>1. entry.text \in Texts
  BY DEF Entries
<1>2. QED
  BY <1>1, PrintedLineType DEF LineOf
-----------------------------------------------------------------------------
(* What an action is read as *)

\* An action that was read.
ReadActions == [of : Names, args : Seq(Parts), inner : {<<>>}]

\* First is the first of some places, if there is one.
LEMMA FirstIsFirst ==
    ASSUME NEW I, I \subseteq Nat
    PROVE  IF I = {} THEN First(I) = 0 ELSE First(I) \in I /\ \A j \in I : First(I) <= j
<1>1. CASE I = {}
  BY <1>1 DEF First
<1>2. CASE I # {}
  <2>1. \E i \in I : \A j \in I : i <= j
    BY <1>2, FirstOne
  <2>2. QED
    BY <1>2, <2>1 DEF First
<1>3. QED
  BY <1>1, <1>2

\* Of the places up to a number there is a last one.
LEMMA LastOne ==
    ASSUME NEW n \in Nat, NEW I, I \subseteq 1..n, I # {}
    PROVE  \E i \in I : \A j \in I : j <= i
<1> DEFINE J == {k \in 1..n : n + 1 - k \in I}
<1>1. J \subseteq Nat
  OBVIOUS
<1>2. PICK i : i \in I
  OBVIOUS
<1>3. n + 1 - i \in 1..n /\ n + 1 - (n + 1 - i) = i
  BY <1>2
<1>4. n + 1 - i \in J
  BY <1>2, <1>3
<1>5. PICK k \in J : \A j \in J : k <= j
  <2> HIDE DEF J
  <2>1. QED
    BY <1>1, <1>4, FirstOne
<1>6. n + 1 - k \in I /\ k \in 1..n
  BY <1>5
<1>7. ASSUME NEW j \in I PROVE j <= n + 1 - k
  <2>1. j \in 1..n /\ n + 1 - j \in 1..n /\ n + 1 - (n + 1 - j) = j
    BY <1>7
  <2>2. n + 1 - j \in J
    BY <2>1
  <2>3. k <= n + 1 - j
    BY <1>5, <2>2
  <2>4. QED
    BY <1>6, <2>1, <2>3
<1>8. QED
  BY <1>6, <1>7

\* It is found at a place, or it is not there.
LEMMA WhereType ==
    ASSUME NEW s \in Seq(Parts), NEW kind
    PROVE  /\ Where(s, kind) \in Nat
           /\ Where(s, kind) > 0 => Where(s, kind) \in Places(s, kind) /\ Where(s, kind) \in 1..Len(s)
           /\ Where(s, kind) = 0 => Places(s, kind) = {}
           /\ \A j \in Places(s, kind) : Where(s, kind) <= j
<1>1. Places(s, kind) \subseteq DOMAIN s
  BY DEF Places
<1>2. DOMAIN s = 1..Len(s) /\ Places(s, kind) \subseteq Nat
  BY <1>1
<1>3. QED
  BY <1>1, <1>2, FirstIsFirst DEF Where
\* The farthest of some places is one of them.
LEMMA FarthestIs ==
    ASSUME NEW n \in Nat, NEW I, I \subseteq 1..n, I # {}
    PROVE  Farthest(I) \in I /\ \A j \in I : j <= Farthest(I)
<1>1. \E i \in I : \A j \in I : j <= i
  BY LastOne
<1>2. QED
  BY <1>1 DEF Farthest

\* What white space does not end is all there is.
LEMMA RunIs ==
    ASSUME NEW s \in Seq(Parts), NEW i \in Nat, i > 0
    PROVE  /\ Run(s, i) \subseteq 1..Len(s) /\ \A j \in Run(s, i) : i <= j
           /\ (\A k \in DOMAIN s : s[k] # Space) => Run(s, i) = i..Len(s)
<1>1. DOMAIN s = 1..Len(s) /\ Len(s) \in Nat
  OBVIOUS
<1>2. \A j \in i..Len(s) : \A k \in i..j : k \in DOMAIN s
  BY <1>1
<1>3. QED
  BY <1>1, <1>2 DEF Run

\* Digits and what they are left out for are a part.
LEMMA DigitsType == ASSUME NEW s \in Seq(Parts) PROVE DigitsOf(s) \in Parts
<1>1. Dec(0) \in Parts
  BY NamesAssumption DEF Dec, Part, Parts
<1>2. s # <<>> => s[1] \in Parts
  OBVIOUS
<1>3. QED
  BY <1>1, <1>2 DEF DigitsOf

\* A word is not a number, and these are different words.
LEMMA TokensDiffer ==
    /\ \A w : Word(w).base = 0 /\ Word(w).word = w /\ Word(w).n = 0 /\ Word(w).sign = Empty
    /\ Word(",") # Word(")") /\ Word("(") # Word(")") /\ Word(",") # Word("(")
<1>1. \A w : Word(w).base = 0 /\ Word(w).word = w /\ Word(w).n = 0 /\ Word(w).sign = Empty
  BY DEF Word, Part
<1>2. Word(",").word = "," /\ Word(")").word = ")" /\ Word("(").word = "("
  BY DEF Word, Part
<1>3. QED
  BY <1>1, <1>2

\* A resubmit has one comma and one end.
LEMMA ResubmitEnds ==
    ASSUME NEW s \in Seq(Parts), NEW i \in 1..Len(s), Resubmit(s, i)
    PROVE  /\ \E c \in i + 2..i + 3 : At(s, c, ",")
           /\ \A c \in i + 2..i + 3 : At(s, c, ",") =>
                 /\ c \in 1..Len(s)
                 /\ \E e \in c + 1..c + 2 : At(s, e, ")") /\ e \in 1..Len(s)
<1>10. PICK comma : comma = Word(",")
  OBVIOUS
<1>11. PICK close : close = Word(")")
  OBVIOUS
<1>12. comma # close /\ comma.base = 0
  BY <1>10, <1>11, TokensDiffer
<1> DEFINE IsComma(k) == k \in 1..Len(s) /\ s[k] = comma
           IsClose(k) == k \in 1..Len(s) /\ s[k] = close
<1>9. /\ \A k : At(s, k, ",") <=> IsComma(k)
      /\ \A k : At(s, k, ")") <=> IsClose(k)
  <2>1. DOMAIN s = 1..Len(s)
    OBVIOUS
  <2>2. QED
    BY <1>10, <1>11, <2>1 DEF At
<1>0. Len(s) \in Nat /\ i \in Nat /\ i <= Len(s)
  OBVIOUS
<1>1. PICK c \in i + 2..i + 3, e \in i + 3..i + 5 :
         /\ IsComma(c) /\ IsClose(e)
         /\ Digits(SubSeq(s, i + 2, c - 1)) /\ Digits(SubSeq(s, c + 1, e - 1))
  BY <1>9 DEF Resubmit
<1>2. c \in Nat /\ e \in Nat /\ c <= Len(s) /\ e <= Len(s) /\ 1 <= c /\ 1 <= e /\ i + 2 <= c /\ c <= i + 3 /\ i + 3 <= e /\ e <= i + 5
  BY <1>0, <1>1
<1>3. c # e /\ c < e
  <2>1. c # e
    BY <1>1, <1>12
  <2>2. QED
    BY <1>0, <1>2, <2>1
<1>4. ASSUME NEW p \in 1..Len(s), NEW q \in p..Len(s), Digits(SubSeq(s, p, q))
      PROVE  q = p /\ s[p].base = 10
  <2>1. Len(SubSeq(s, p, q)) = q - p + 1 /\ SubSeq(s, p, q)[1] = s[p] /\ q - p + 1 > 0
    OBVIOUS
  <2>2. SubSeq(s, p, q) # <<>>
    BY <2>1
  <2>3. Len(SubSeq(s, p, q)) = 1 /\ SubSeq(s, p, q)[1].base = 10
    BY <1>4, <2>2 DEF Digits
  <2>4. QED
    BY <2>1, <2>3
<1>5. e <= c + 2
  <2>1. SUFFICES ASSUME e > c + 2 PROVE FALSE
    BY <1>2
  <2>2. c + 1 \in 1..Len(s) /\ e - 1 \in c + 1..Len(s) /\ e - 1 # c + 1
    BY <1>0, <1>2, <2>1
  <2>3. QED
    BY <1>1, <1>4, <2>2
<1>6. ASSUME NEW d \in i + 2..i + 3, IsComma(d) PROVE d = c
  <2>1. d \in 1..Len(s) /\ s[d] = comma /\ s[d].base = 0 /\ d \in Nat /\ i + 2 <= d /\ d <= i + 3
    BY <1>0, <1>6, <1>12
  <2>2. ASSUME d < c PROVE FALSE
    <3>1. d = i + 2 /\ c - 1 = d /\ d \in d..Len(s)
      BY <1>0, <1>2, <2>1, <2>2
    <3>2. s[d].base = 10
      BY <1>1, <1>4, <2>1, <3>1
    <3>3. QED
      BY <2>1, <3>2
  <2>3. ASSUME c < d PROVE FALSE
    <3>1. d = c + 1
      BY <1>2, <2>1, <2>3
    <3>2. d # e
      BY <1>1, <1>12, <2>1
    <3>3. e - 1 \in d..Len(s)
      BY <1>0, <1>2, <1>3, <2>1, <3>1, <3>2
    <3>4. s[d].base = 10
      BY <1>1, <1>4, <2>1, <3>1, <3>3
    <3>5. QED
      BY <2>1, <3>4
  <2>4. QED
    BY <1>2, <2>1, <2>2, <2>3
<1>7. IsClose(e) /\ e \in c + 1..c + 2
  BY <1>1, <1>2, <1>3, <1>5
<1>8. QED
  <2> HIDE DEF IsComma, IsClose
  <2>1. \A d \in i + 2..i + 3 : At(s, d, ",") => d = c
    BY <1>6, <1>9
  <2>2. At(s, c, ",") /\ At(s, e, ")") /\ c \in i + 2..i + 3
    BY <1>1, <1>9
  <2>3. c \in 1..Len(s) /\ e \in 1..Len(s) /\ e \in c + 1..c + 2
    BY <1>0, <1>2, <1>7
  <2>4. QED
    BY <2>1, <2>2, <2>3
\* A part of a text is one.
LEMMA SubType ==
    ASSUME NEW s \in Seq(Parts), NEW m \in Nat, NEW n \in Int, m > 0, n <= Len(s)
    PROVE  SubSeq(s, m, n) \in Seq(Parts)
<1>1. \A i \in m..n : s[i] \in Parts
  <2>1. \A i \in m..n : i \in 1..Len(s)
    OBVIOUS
  <2>2. QED
    BY <2>1
<1>2. QED
  BY <1>1

\* An action that is read, by what is read of it.
LEMMA ActType ==
    ASSUME NEW of \in Names, NEW args \in Seq(Parts)
    PROVE  Act(of, args) \in ReadActions
BY DEF Act, ReadActions

\* The arguments of a resubmit that is found.
LEMMA ResubmitArgsType ==
    ASSUME NEW s \in Seq(Parts), NEW i \in 1..Len(s), Resubmit(s, i)
    PROVE  ResubmitArgs(s, i) \in Seq(Parts)
<1>1. PICK c : c = CHOOSE j \in i + 2..i + 3 : At(s, j, ",")
  OBVIOUS
<1>2. c \in i + 2..i + 3 /\ At(s, c, ",")
  <2>1. \E j \in i + 2..i + 3 : At(s, j, ",")
    BY ResubmitEnds
  <2>2. QED
    BY <1>1, <2>1
<1>3. c \in 1..Len(s) /\ \E e \in c + 1..c + 2 : At(s, e, ")") /\ e \in 1..Len(s)
  BY <1>2, ResubmitEnds
<1>4. PICK e : e = CHOOSE j \in c + 1..c + 2 : At(s, j, ")")
  OBVIOUS
<1>5. e \in c + 1..c + 2 /\ At(s, e, ")")
  BY <1>3, <1>4
<1>6. e \in 1..Len(s)
  <2>1. e \in DOMAIN s
    BY <1>5 DEF At
  <2>2. QED
    BY <2>1
<1>7. Len(s) \in Nat /\ i \in Nat /\ i <= Len(s) /\ c \in Nat /\ e \in Nat /\ c <= Len(s) /\ e <= Len(s)
  BY <1>3, <1>6
<1>8. SubSeq(s, i + 2, c - 1) \in Seq(Parts) /\ SubSeq(s, c + 1, e - 1) \in Seq(Parts)
  <2>1. i + 2 \in Nat /\ i + 2 > 0 /\ c - 1 \in Int /\ c - 1 <= Len(s)
    BY <1>7
  <2>2. c + 1 \in Nat /\ c + 1 > 0 /\ e - 1 \in Int /\ e - 1 <= Len(s)
    BY <1>7
  <2>3. SubSeq(s, i + 2, c - 1) \in Seq(Parts)
    BY <2>1, SubType
  <2>4. SubSeq(s, c + 1, e - 1) \in Seq(Parts)
    BY <2>2, SubType
  <2>5. QED
    BY <2>3, <2>4
<1>9. PICK p \in Parts, q \in Parts :
         p = DigitsOf(SubSeq(s, i + 2, c - 1)) /\ q = DigitsOf(SubSeq(s, c + 1, e - 1))
  BY <1>8, DigitsType
<1>10. ResubmitArgs(s, i) = <<p, q>>
  BY <1>1, <1>4, <1>9 DEF ResubmitArgs
<1>11. <<p, q>> \in Seq(Parts)
  BY PartSequences
<1>12. QED
  BY <1>10, <1>11

\* What load, move and set_field are read as.
LEMMA SidedType ==
    ASSUME NEW s \in Seq(Parts)
    PROVE  Sided(s) \in Seq(ReadActions)
<1>1. ASSUME NEW of \in {"load", "move", "set_field"}, Where(s, of) > 0
      PROVE  <<Act(of, SidesArgs(s, Where(s, of)))>> \in Seq(ReadActions)
  <2>1. PICK i : i = Where(s, of)
    OBVIOUS
  <2>2. i \in 1..Len(s) /\ i \in Places(s, of)
    BY <1>1, <2>1, WhereType
  <2>3. Places(s, of) = {j \in DOMAIN s : Sides(s, j, Prefixed[of])}
    BY DEF Places
  <2>4. i + 1 \in Nat /\ i + 1 > 0 /\ Run(s, i + 1) # {}
    BY <2>2, <2>3 DEF Sides
  <2>5. Run(s, i + 1) \subseteq 1..Len(s) /\ Len(s) \in Nat
    BY <2>4, RunIs
  <2>6. PICK far : far = Farthest(Run(s, i + 1))
    OBVIOUS
  <2>7. far \in Int /\ far <= Len(s)
    <3>1. far \in Run(s, i + 1)
      BY <2>4, <2>5, <2>6, FarthestIs
    <3>2. QED
      BY <2>5, <3>1
  <2>8. SidesArgs(s, i) \in Seq(Parts)
    BY <2>4, <2>6, <2>7, SubType DEF SidesArgs
  <2>9. of \in Names
    BY ActionNamesAssumption DEF Prefixed
  <2>10. PICK a \in ReadActions : a = Act(of, SidesArgs(s, i))
    BY <2>8, <2>9, ActType
  <2>11. QED
    BY <2>1, <2>10
<1>5. Sided(s) = IF Where(s, "load") > 0 THEN <<Act("load", SidesArgs(s, Where(s, "load")))>>
                 ELSE IF Where(s, "move") > 0 THEN <<Act("move", SidesArgs(s, Where(s, "move")))>>
                 ELSE IF Where(s, "set_field") > 0 THEN <<Act("set_field", SidesArgs(s, Where(s, "set_field")))>>
                 ELSE <<>>
  BY DEF Sided
<1>6. <<>> \in Seq(ReadActions)
  OBVIOUS
<1>7. QED
  BY <1>1, <1>5, <1>6
\* An argument between white space is a sequence of parts.
LEMMA ArgumentType == ASSUME NEW s \in Seq(Parts) PROVE Argument(s) \in Seq(Parts)
<1> DEFINE I == {j \in 2..Len(s) : s[j] # Space}
<1>1. PICK from : from = First(I)
  OBVIOUS
<1>2. Argument(s) = IF from = 0 THEN <<>> ELSE SubSeq(s, from, Farthest(Run(s, from)))
  BY <1>1 DEF Argument
<1>3. I \subseteq Nat /\ Len(s) \in Nat
  OBVIOUS
<1>4. CASE from = 0
  BY <1>2, <1>4
<1>5. CASE from # 0
  <2>1. from \in I
    <3> HIDE DEF I
    <3>1. QED
      BY <1>1, <1>3, <1>5, FirstIsFirst
  <2>2. from \in 2..Len(s) /\ s[from] # Space
    BY <2>1
  <2>3. from \in Nat /\ from > 0 /\ from \in Run(s, from)
    BY <1>3, <2>2 DEF Run
  <2>4. Run(s, from) \subseteq 1..Len(s) /\ Run(s, from) # {}
    BY <2>3, RunIs
  <2>5. PICK far : far = Farthest(Run(s, from))
    OBVIOUS
  <2>6. far \in 1..Len(s)
    BY <1>3, <2>4, <2>5, FarthestIs
  <2>7. SubSeq(s, from, far) \in Seq(Parts)
    BY <2>3, <2>6, SubType
  <2>8. QED
    BY <1>2, <1>5, <2>5, <2>7
<1>6. QED
  BY <1>4, <1>5

\* What parseAction returns is an action that it can read, or nothing.
LEMMA ParseActionType ==
    ASSUME NEW s \in Seq(Parts)
    PROVE  ParseAction(s) \in Seq(ReadActions)
<1>1. ASSUME NEW of \in Names, NEW args \in Seq(Parts) PROVE <<Act(of, args)>> \in Seq(ReadActions)
  <2>1. PICK a \in ReadActions : a = Act(of, args)
    BY ActType
  <2>2. QED
    BY <2>1
<1>2. <<>> \in Seq(ReadActions) /\ <<>> \in Seq(Parts)
  OBVIOUS
<1>3. IsText(s) => <<Act(Lower(s[1].word), <<>>)>> \in Seq(ReadActions)
  <2>1. TextActions \subseteq Names
    BY ActionNamesAssumption
  <2>2. QED
    BY <1>1, <1>2, <2>1 DEF IsText
<1>4. Where(s, "ct") > 0 => <<Act("ct", CtArgs(s, Where(s, "ct")))>> \in Seq(ReadActions)
  <2>1. SUFFICES ASSUME Where(s, "ct") > 0 PROVE <<Act("ct", CtArgs(s, Where(s, "ct")))>> \in Seq(ReadActions)
    OBVIOUS
  <2>2. PICK i : i = Where(s, "ct")
    OBVIOUS
  <2>3. i \in 1..Len(s) /\ Ct(s, i)
    BY <2>1, <2>2, WhereType DEF Places
  <2>4. Ends(s, i) # {} /\ Ends(s, i) \subseteq Run(s, i + 2)
    BY <2>3 DEF Ct, Ends
  <2>5. Ends(s, i) \subseteq 1..Len(s) /\ Len(s) \in Nat
    <3>1. i + 2 \in Nat /\ i + 2 > 0
      BY <2>3
    <3>2. QED
      BY <2>4, <3>1, RunIs
  <2>6. PICK k : k = Farthest(Ends(s, i))
    OBVIOUS
  <2>7. k \in 1..Len(s)
    BY <2>4, <2>5, <2>6, FarthestIs
  <2>8. i + 2 \in Nat /\ i + 2 > 0 /\ k - 1 \in Int /\ k - 1 <= Len(s)
    BY <2>3, <2>7
  <2>9. SubSeq(s, i + 2, k - 1) \in Seq(Parts)
    BY <2>8, SubType
  <2>10. PICK ct \in Names : ct = "ct"
    BY ActionNamesAssumption
  <2>11. CtArgs(s, i) = SubSeq(s, i + 2, k - 1)
    BY <2>6 DEF CtArgs
  <2>12. <<Act(ct, CtArgs(s, i))>> \in Seq(ReadActions)
    BY <1>1, <2>9, <2>11
  <2>13. QED
    BY <2>2, <2>10, <2>12
<1>5. ASSUME Scanned(s) # {}, NEW of, of = CHOOSE k \in Scanned(s) : TRUE, ScannedArg(of, Argument(s))
      PROVE  <<Act(of, Spelled(<<Argument(s)[1]>>))>> \in Seq(ReadActions)
  <2>1. of \in Names
    BY <1>5, ActionNamesAssumption DEF Scanned, ScannedKinds, Prefixed
  <2>2. PICK t \in Seq(Parts) : t = Argument(s)
    BY ArgumentType
  <2>3. t # <<>>
    BY <1>5, <2>2 DEF ScannedArg
  <2>4. PICK p \in Parts : p = t[1]
    BY <2>3
  <2>5. <<p>> \in Seq(Parts)
    OBVIOUS
  <2>6. Spelled(<<p>>) \in Seq(Parts)
    BY <2>5, SpelledType
  <2>7. QED
    BY <1>1, <2>1, <2>2, <2>4, <2>6
<1>6. Conjunction(s) => <<Act("conjunction", <<s[3], s[5], s[7]>>)>> \in Seq(ReadActions)
  <2>1. SUFFICES ASSUME Conjunction(s) PROVE <<Act("conjunction", <<s[3], s[5], s[7]>>)>> \in Seq(ReadActions)
    OBVIOUS
  <2>2. Len(s) >= 8
    BY <2>1 DEF Conjunction
  <2>3. PICK p \in Parts, q \in Parts, r \in Parts : p = s[3] /\ q = s[5] /\ r = s[7]
    BY <2>2
  <2>4. <<p, q, r>> \in Seq(Parts)
    OBVIOUS
  <2>5. PICK of \in Names : of = "conjunction"
    BY ActionNamesAssumption
  <2>6. <<Act(of, <<p, q, r>>)>> \in Seq(ReadActions)
    BY <1>1, <2>4
  <2>7. QED
    BY <2>3, <2>5, <2>6
<1>7. Where(s, "resubmit") > 0 =>
        <<Act("resubmit", ResubmitArgs(s, Where(s, "resubmit")))>> \in Seq(ReadActions)
  <2>1. SUFFICES ASSUME Where(s, "resubmit") > 0
                 PROVE  <<Act("resubmit", ResubmitArgs(s, Where(s, "resubmit")))>> \in Seq(ReadActions)
    OBVIOUS
  <2>2. PICK i : i = Where(s, "resubmit")
    OBVIOUS
  <2>3. i \in 1..Len(s) /\ Resubmit(s, i)
    BY <2>1, <2>2, WhereType DEF Places
  <2>4. ResubmitArgs(s, i) \in Seq(Parts)
    BY <2>3, ResubmitArgsType
  <2>5. PICK of \in Names : of = "resubmit"
    BY ActionNamesAssumption
  <2>6. <<Act(of, ResubmitArgs(s, i))>> \in Seq(ReadActions)
    BY <1>1, <2>4
  <2>7. QED
    BY <2>2, <2>5, <2>6
<1>8. ASSUME NEW port, port = Where(s, "resubmit_port"), port > 0
      PROVE  <<Act("resubmit_port", <<s[port + 1]>>)>> \in Seq(ReadActions)
  <2>1. port \in 1..Len(s) /\ port < Len(s)
    BY <1>8, WhereType DEF Places
  <2>2. PICK p \in Parts : p = s[port + 1]
    BY <2>1
  <2>3. <<p>> \in Seq(Parts)
    OBVIOUS
  <2>4. PICK of \in Names : of = "resubmit_port"
    BY ActionNamesAssumption DEF Prefixed
  <2>5. <<Act(of, <<p>>)>> \in Seq(ReadActions)
    BY <1>1, <2>3
  <2>6. QED
    BY <2>2, <2>4, <2>5
<1>9. Sided(s) \in Seq(ReadActions)
  BY SidedType
<1>10. QED
  BY <1>2, <1>3, <1>4, <1>5, <1>6, <1>7, <1>8, <1>9 DEF ParseAction
-----------------------------------------------------------------------------
(* What a flow is read as *)

\* A flow that was read, with matches that fit their fields.
ReadFields ==
    [priority : Int, protocol : Parts, inport : Int, matches : Seq(ReadMatches),
     table : Int, idle : Int, cookie : Int, actions : Seq(ReadActions)]
ReadFlows == {f \in ReadFields : \A i \in DOMAIN f.matches : Fitting(f.matches[i])}

\* No key of a flow is one of a match, and a word has none of them.
LEMMA KeysDiffer ==
    /\ Empty \notin KnownKeys \cup {"priority", "table", "idle_timeout", "cookie"}
    /\ \A key \in {"priority", "table", "idle_timeout", "cookie"} : key \notin KnownKeys
<1>1. \A key \in {"priority", "table", "idle_timeout", "cookie"} : key \notin KnownKeys
  BY DEF KnownKeys, DecimalKeys, ByteKeys, IntKeys, MaskedKeys, TciKeys, PortKeys, VlanKeys,
         LinkKeys, HardwareKeys, IPv4Keys, IPv6Keys, FlagKeys
<1>2. Empty \notin KnownKeys \cup {"priority", "table", "idle_timeout", "cookie"}
  BY DEF Empty, KnownKeys, DecimalKeys, ByteKeys, IntKeys, MaskedKeys, TciKeys, PortKeys, VlanKeys,
         LinkKeys, HardwareKeys, IPv4Keys, IPv6Keys, FlagKeys
<1>3. QED
  BY <1>1, <1>2

\* What a matcher sets, key by key.
LEMMA WithMatcherCases ==
    ASSUME NEW f, NEW m
    PROVE  /\ m.key = Empty /\ m.val # <<>> => WithMatcher(f, m) =
                 [f EXCEPT !.protocol = IF m.space THEN Signed(" ", m.val[1].word) ELSE m.val[1]]
           /\ m.key = "priority"     => WithMatcher(f, m) = [f EXCEPT !.priority = m.val[1].n]
           /\ m.key = "table"        => WithMatcher(f, m) = [f EXCEPT !.table = m.val[1].n]
           /\ m.key = "idle_timeout" => WithMatcher(f, m) = [f EXCEPT !.idle = m.val[1].n]
           /\ m.key = "cookie"       => WithMatcher(f, m) = [f EXCEPT !.cookie = m.val[1].n]
           /\ m.key = "in_port"      => WithMatcher(f, m) =
                 [f EXCEPT !.inport = IF m.val[1].word = "LOCAL" THEN PortLOCAL ELSE m.val[1].n]
           /\ m.key \in KnownKeys \ {"in_port"} /\ ~m.space =>
                 WithMatcher(f, m) = [f EXCEPT !.matches = Append(@, MatchOf(m.key, m.val))]
           /\ ~(m.key = Empty /\ m.val # <<>>) /\ m.key \notin {"priority", "table", "idle_timeout", "cookie", "in_port"}
                 /\ ~(m.key \in KnownKeys \ {"in_port"} /\ ~m.space) => WithMatcher(f, m) = f
<1>1. PICK k : k = m.key
  OBVIOUS
<1>2. k # Empty \/ k \notin {"priority", "table", "idle_timeout", "cookie", "in_port"}
  BY KeysDiffer DEF KnownKeys, DecimalKeys, IntKeys
<1>3. k \in {"priority", "table", "idle_timeout", "cookie", Empty} => k \notin KnownKeys
  BY KeysDiffer
<1> HIDE DEF KnownKeys
<1>4. QED
  BY <1>1, <1>2, <1>3 DEF WithMatcher
\* A flow that was read, with a field set, a match or actions appended.
LEMMA ReadFlowsWith ==
    ASSUME NEW f \in ReadFlows
    PROVE  /\ \A n \in Int : /\ [f EXCEPT !.priority = n] \in ReadFlows
                             /\ [f EXCEPT !.table = n] \in ReadFlows
                             /\ [f EXCEPT !.idle = n] \in ReadFlows
                             /\ [f EXCEPT !.cookie = n] \in ReadFlows
                             /\ [f EXCEPT !.inport = n] \in ReadFlows
           /\ \A p \in Parts : [f EXCEPT !.protocol = p] \in ReadFlows
           /\ \A m \in ReadMatches : Fitting(m) => [f EXCEPT !.matches = Append(@, m)] \in ReadFlows
           /\ \A more \in Seq(ReadActions) : [f EXCEPT !.actions = @ \o more] \in ReadFlows
<1>1. f \in ReadFields /\ f.matches \in Seq(ReadMatches) /\ f.actions \in Seq(ReadActions)
      /\ \A i \in DOMAIN f.matches : Fitting(f.matches[i])
  BY DEF ReadFlows, ReadFields
<1>2. ASSUME NEW n \in Int
      PROVE  /\ [f EXCEPT !.priority = n] \in ReadFields /\ [f EXCEPT !.priority = n].matches = f.matches
             /\ [f EXCEPT !.table = n] \in ReadFields /\ [f EXCEPT !.table = n].matches = f.matches
             /\ [f EXCEPT !.idle = n] \in ReadFields /\ [f EXCEPT !.idle = n].matches = f.matches
             /\ [f EXCEPT !.cookie = n] \in ReadFields /\ [f EXCEPT !.cookie = n].matches = f.matches
             /\ [f EXCEPT !.inport = n] \in ReadFields /\ [f EXCEPT !.inport = n].matches = f.matches
  BY <1>1 DEF ReadFields
<1>3. ASSUME NEW p \in Parts
      PROVE  [f EXCEPT !.protocol = p] \in ReadFields /\ [f EXCEPT !.protocol = p].matches = f.matches
  BY <1>1 DEF ReadFields
<1>4. ASSUME NEW m \in ReadMatches, Fitting(m) PROVE [f EXCEPT !.matches = Append(@, m)] \in ReadFlows
  <2>1. PICK ms : ms = Append(f.matches, m)
    OBVIOUS
  <2>2. ms \in Seq(ReadMatches) /\ \A i \in DOMAIN ms : ms[i] = m \/ (i \in DOMAIN f.matches /\ ms[i] = f.matches[i])
    BY <1>1, <2>1
  <2>3. \A i \in DOMAIN ms : Fitting(ms[i])
    BY <1>1, <1>4, <2>2
  <2>4. [f EXCEPT !.matches = ms] \in ReadFields /\ [f EXCEPT !.matches = ms].matches = ms
    BY <1>1, <2>2 DEF ReadFields
  <2>5. [f EXCEPT !.matches = ms] \in ReadFlows
    BY <2>3, <2>4 DEF ReadFlows
  <2>6. QED
    BY <1>1, <2>1, <2>5
<1>5. ASSUME NEW more \in Seq(ReadActions) PROVE [f EXCEPT !.actions = @ \o more] \in ReadFlows
  <2>7. PICK before \in Seq(ReadActions) : before = f.actions
    BY <1>1
  <2>1. PICK all : all = before \o more
    OBVIOUS
  <2>2. all \in Seq(ReadActions)
    BY <2>1, ConcatProperties
  <2>3. [f EXCEPT !.actions = all] \in ReadFields /\ [f EXCEPT !.actions = all].matches = f.matches
    BY <1>1, <2>2 DEF ReadFields
  <2>4. [f EXCEPT !.actions = all] \in ReadFlows
    BY <1>1, <2>3 DEF ReadFlows
  <2>5. QED
    BY <1>1, <2>1, <2>4, <2>7
<1>6. QED
  BY <1>1, <1>2, <1>3, <1>4, <1>5 DEF ReadFlows

\* What reads a matcher without an error, key by key.
LEMMA MatcherReadsCases ==
    ASSUME NEW m, MatcherReads(m)
    PROVE  /\ m.key \in {"priority", "table", "idle_timeout", "cookie"} => Len(m.val) = 1
           /\ m.key = "in_port" => Len(m.val) = 1
           /\ m.key \in KnownKeys \ {"in_port"} /\ ~m.space => Parses(m.key, m.val)
<1>1. PICK k : k = m.key
  OBVIOUS
<1>2. k \in {"priority", "table", "idle_timeout", "cookie"} => k \notin KnownKeys
  BY KeysDiffer
<1> HIDE DEF KnownKeys
<1>3. CASE k \in {"priority", "table", "idle_timeout", "cookie"}
  BY <1>1, <1>2, <1>3 DEF MatcherReads, IsDecimal
<1>4. CASE k = "in_port"
  <2>1. Len(<<Word("LOCAL")>>) = 1
    OBVIOUS
  <2>2. QED
    BY <1>1, <1>4, <2>1 DEF MatcherReads, IsDecimal
<1>5. CASE k \in KnownKeys \ {"in_port"} /\ ~m.space
  BY <1>1, <1>2, <1>5 DEF MatcherReads
<1>6. QED
  BY <1>1, <1>3, <1>4, <1>5

\* A matcher that is read without an error leaves such a flow.
LEMMA WithMatcherType ==
    ASSUME NEW f \in ReadFlows, NEW m \in Matchers, MatcherReads(m)
    PROVE  WithMatcher(f, m) \in ReadFlows
<1>1. m.key \in Names /\ m.val \in Seq(Parts) /\ m.space \in BOOLEAN
  BY DEF Matchers
<1>2. m.val # <<>> => m.val[1] \in Parts /\ m.val[1].n \in Int /\ m.val[1].word \in Names
  BY <1>1, PartTypes
<1>3. m.key \in {"priority", "table", "idle_timeout", "cookie"} => m.val # <<>>
  <2>1. PICK key, val : key = m.key /\ val = m.val
    OBVIOUS
  <2>2. key \in {"priority", "table", "idle_timeout", "cookie"} => Len(val) = 1
    BY <2>1, MatcherReadsCases
  <2>3. Len(<<>>) = 0
    OBVIOUS
  <2>4. QED
    BY <2>1, <2>2, <2>3
<1>4. CASE m.key = Empty /\ m.val # <<>>
  <2>1. Signed(" ", m.val[1].word) \in Parts
    BY <1>2, <1>4, FieldNames, PartsOf
  <2>2. PICK p \in Parts : p = IF m.space THEN Signed(" ", m.val[1].word) ELSE m.val[1]
    BY <1>2, <1>4, <2>1
  <2>3. WithMatcher(f, m) = [f EXCEPT !.protocol = p]
    BY <1>4, <2>2, WithMatcherCases
  <2>4. QED
    BY <2>3, ReadFlowsWith
<1>5. CASE m.key \in {"priority", "table", "idle_timeout", "cookie"}
  <2>1. m.val[1].n \in Int
    BY <1>2, <1>3, <1>5
  <2>2. PICK n \in Int : n = m.val[1].n
    BY <2>1
  <2>3. CASE m.key = "priority"
    <3>1. WithMatcher(f, m) = [f EXCEPT !.priority = m.val[1].n]
      BY <2>3, WithMatcherCases
    <3>2. QED
      BY <2>2, <3>1, ReadFlowsWith
  <2>4. CASE m.key = "table"
    <3>1. WithMatcher(f, m) = [f EXCEPT !.table = m.val[1].n]
      BY <2>4, WithMatcherCases
    <3>2. QED
      BY <2>2, <3>1, ReadFlowsWith
  <2>5. CASE m.key = "idle_timeout"
    <3>1. WithMatcher(f, m) = [f EXCEPT !.idle = m.val[1].n]
      BY <2>5, WithMatcherCases
    <3>2. QED
      BY <2>2, <3>1, ReadFlowsWith
  <2>6. CASE m.key = "cookie"
    <3>1. WithMatcher(f, m) = [f EXCEPT !.cookie = m.val[1].n]
      BY <2>6, WithMatcherCases
    <3>2. QED
      BY <2>2, <3>1, ReadFlowsWith
  <2>7. QED
    BY <1>5, <2>3, <2>4, <2>5, <2>6
<1>6. CASE m.key = "in_port"
  <2>1. Len(m.val) = 1
    BY <1>6, MatcherReadsCases
  <2>2. m.val[1].n \in Int
    BY <1>1, <1>2, <2>1
  <2>3. PICK n \in Int : n = IF m.val[1].word = "LOCAL" THEN PortLOCAL ELSE m.val[1].n
    BY <2>2 DEF PortLOCAL
  <2>4. WithMatcher(f, m) = [f EXCEPT !.inport = n]
    BY <1>6, <2>3, WithMatcherCases
  <2>5. QED
    BY <2>4, ReadFlowsWith
<1>7. CASE m.key \in KnownKeys \ {"in_port"} /\ ~m.space
  <2>2. Parses(m.key, m.val)
    BY <1>7, MatcherReadsCases
  <2>3. PICK match \in ReadMatches : match = MatchOf(m.key, m.val) /\ Fitting(match)
    BY <1>1, <1>7, <2>2, MatchOfFits
  <2>4. WithMatcher(f, m) = [f EXCEPT !.matches = Append(@, match)]
    BY <1>7, <2>3, WithMatcherCases
  <2>5. QED
    BY <2>3, <2>4, ReadFlowsWith
<1>8. CASE /\ ~(m.key = Empty /\ m.val # <<>>)
           /\ m.key \notin {"priority", "table", "idle_timeout", "cookie", "in_port"}
           /\ ~(m.key \in KnownKeys \ {"in_port"} /\ ~m.space)
  BY <1>8, WithMatcherCases
<1>9. QED
  BY <1>4, <1>5, <1>6, <1>7, <1>8
-----------------------------------------------------------------------------
(* The types of the variables *)

Types ==
    /\ phase \in {"idle", "line", "dumped", "failed", "panicked", "refused", "deleted"}
    /\ printed \in BOOLEAN /\ depth \in Nat
    /\ asked \in Seq(Asks) /\ bridge \in Seq(Entries)
    /\ lines \in Seq(Texts) /\ left \in Texts
    /\ buf \in Seq(Parts) /\ raw \in Seq(Seq(Parts))
    /\ got \in ReadFlows /\ flows \in Seq(ReadFlows)

\* Before a flow is read it has nothing; a line that was read is blank.
LEMMA NothingRead == NoFlow \in ReadFlows /\ Blank \in Texts
<1>1. PICK word \in Parts : word = Word(Empty)
  BY NamesAssumption, PartsOf
<1>2. NoFlow = [priority |-> 0, protocol |-> word, inport |-> 0, matches |-> <<>>,
                table |-> 0, idle |-> 0, cookie |-> 0, actions |-> <<>>]
  BY <1>1 DEF NoFlow
<1>3. NoFlow \in ReadFields /\ NoFlow.matches = <<>>
  BY <1>2 DEF ReadFields
<1>4. Blank \in Texts
  BY DEF Blank, Texts
<1>5. QED
  BY <1>3, <1>4 DEF ReadFlows

\* What callers ask for at first.
LEMMA InitTypes == ASSUME Init PROVE Types
<1>1. \A fs \in Asked : fs \in Seq(Asks)
  <2>1. SUFFICES ASSUME NEW fs \in Asked PROVE fs \in Seq(Asks)
    OBVIOUS
  <2>2. fs \in Seq(Flows)
    BY AskedAssumption
  <2>3. \A k \in 1..Len(fs) : fs[k] \in Asks
    <3>1. SUFFICES ASSUME NEW k \in 1..Len(fs) PROVE fs[k] \in Asks
      OBVIOUS
    <3>2. fs[k] \in Flows /\ k \in DOMAIN fs
      BY <2>2
    <3>3. QED
      BY <3>2, AskedAssumption DEF Asks
  <2>4. QED
    BY <2>2, <2>3
<1>2. \A b \in Foreign : b \in Seq(Entries)
  BY ForeignAssumption
<1>3. <<>> \in Seq(Asks) /\ <<>> \in Seq(Entries) /\ <<>> \in Seq(Texts) /\ <<>> \in Seq(Parts)
      /\ <<>> \in Seq(Seq(Parts)) /\ <<>> \in Seq(ReadFlows)
  OBVIOUS
<1>4. asked \in Seq(Asks) /\ bridge \in Seq(Entries)
  <2>1. CASE asked \in Asked /\ bridge = <<>>
    BY <1>1, <1>3, <2>1
  <2>2. CASE asked = <<>> /\ bridge \in Foreign
    BY <1>2, <1>3, <2>2
  <2>3. QED
    BY <2>1, <2>2 DEF Init
<1>5. /\ phase = "idle" /\ printed = FALSE
      /\ lines = <<>> /\ left = Blank /\ got = NoFlow
      /\ buf = <<>> /\ depth = 0 /\ raw = <<>> /\ flows = <<>>
  BY DEF Init
<1>6. QED
  BY <1>3, <1>4, <1>5, NothingRead DEF Types

\* A flow is added, and those like it are not.
LEMMA AddFlowTypes == ASSUME Types, AddFlow PROVE Types'
<1>1. PICK f \in Asks : f = Head(asked)
  BY DEF Types, AddFlow
<1>2. asked' \in Seq(Asks)
  BY DEF Types, AddFlow
<1>3. PICK others : others = Among(bridge, {i \in DOMAIN bridge :
                                     Identity(bridge[i].text) # Identity(FlowTextOf(f))})
  OBVIOUS
<1>4. others \in Seq(Entries)
  BY <1>3, AmongType DEF Types
<1>5. PICK entry \in Entries : entry = [text |-> FlowTextOf(f), means |-> <<f>>]
  <2>1. FlowTextOf(f) \in Texts
    BY FlowTextType
  <2>2. f \in Flows
    BY DEF Asks
  <2>3. PICK g \in Flows : g = f
    BY <2>2
  <2>4. <<g>> \in Seq(Flows)
    OBVIOUS
  <2>5. QED
    BY <2>1, <2>3, <2>4 DEF Entries
<1>6. bridge' = IF FlowMarshals(f) THEN Append(others, entry) ELSE bridge
  BY <1>1, <1>3, <1>5 DEF AddFlow
<1>7. bridge' \in Seq(Entries)
  BY <1>4, <1>6 DEF Types
<1>8. QED
  BY <1>2, <1>7 DEF Types, AddFlow, reader

\* Lines are read after a dump.
LEMMA DumpTypes == ASSUME Types, NEW print \in BOOLEAN, Dump(print) PROVE Types'
<1>1. PICK all : all = [i \in DOMAIN bridge |-> LineOf(bridge[i], print)]
  OBVIOUS
<1>2. all \in Seq(Texts) /\ Len(all) = Len(bridge) /\ all # <<>>
  <2>1. DOMAIN bridge = 1..Len(bridge) /\ Len(bridge) \in Nat /\ Len(bridge) > 0
    BY DEF Types, Dump
  <2>2. \A i \in DOMAIN bridge : LineOf(bridge[i], print) \in Texts
    BY LineType DEF Types
  <2>3. all \in [1..Len(bridge) -> Texts]
    BY <1>1, <2>1, <2>2
  <2>4. QED
    BY <2>1, <2>3, AsSequence
<1>3. left' = Head(all) /\ lines' = Tail(all)
  BY <1>1 DEF Dump
<1>4. left' \in Texts /\ lines' \in Seq(Texts)
  BY <1>2, <1>3
<1>5. QED
  BY <1>4 DEF Types, Dump

\* A matcher is read into a flow that fits.
LEMMA ReadMatcherTypes == ASSUME Types, ReadMatcher PROVE Types'
<1>1. PICK l : l = left
  OBVIOUS
<1>2. l \in Texts /\ l.matchers \in Seq(Matchers) /\ l.matchers # <<>>
  BY <1>1 DEF Types, ReadMatcher, Texts
<1>3. PICK m \in Matchers : m = Head(l.matchers)
  BY <1>2
<1>4. CASE left.actions # <<>> /\ MatcherReads(m)
  <2>1. got' = WithMatcher(got, m) /\ left' = [left EXCEPT !.matchers = Tail(@)] /\ UNCHANGED phase
    BY <1>1, <1>3, <1>4 DEF ReadMatcher
  <2>2. got' \in ReadFlows
    BY <1>4, <2>1, WithMatcherType DEF Types
  <2>7. PICK all \in Seq(Matchers) : all = l.matchers /\ all # <<>>
    BY <1>2
  <2>3. PICK ms \in Seq(Matchers) : ms = Tail(l.matchers)
    <3>1. Tail(all) \in Seq(Matchers)
      BY <2>7
    <3>2. QED
      BY <2>7, <3>1
  <2>4. [l EXCEPT !.matchers = ms] \in Texts
    BY <1>2, <2>3 DEF Texts
  <2>5. left' \in Texts
    BY <1>1, <2>1, <2>3, <2>4
  <2>6. QED
    BY <2>1, <2>2, <2>5 DEF Types, ReadMatcher
<1>5. CASE ~(left.actions # <<>> /\ MatcherReads(m))
  <2>1. phase' = "failed" /\ UNCHANGED <<got, left>>
    BY <1>1, <1>3, <1>5 DEF ReadMatcher
  <2>2. QED
    BY <2>1 DEF Types, ReadMatcher
<1>6. QED
  BY <1>4, <1>5

\* What is left of a line, less a token.
LEMMA LessToken ==
    ASSUME NEW l \in Texts, l.actions # <<>>
    PROVE  /\ [l EXCEPT !.actions = Tail(@)] \in Texts /\ Head(l.actions) \in Parts
           /\ [l EXCEPT !.actions = Tail(@)].actions = Tail(l.actions)
           /\ [l EXCEPT !.actions = Tail(@)].matchers = l.matchers
<1>1. l.actions \in Seq(Parts)
  BY DEF Texts
<1>2. PICK all \in Seq(Parts) : all = l.actions /\ all # <<>>
  BY <1>1
<1>3. Tail(all) \in Seq(Parts) /\ Head(all) \in Parts
  BY <1>2
<1>4. PICK rest \in Seq(Parts) : rest = Tail(all)
  BY <1>3
<1>5. [l EXCEPT !.actions = rest] \in Texts
  BY <1>4 DEF Texts
<1>6. QED
  BY <1>2, <1>3, <1>4, <1>5 DEF Texts

\* A token is one more of an action.
LEMMA ReadTokenTypes == ASSUME Types, ReadToken PROVE Types'
<1>1. PICK l \in Texts : l = left
  BY DEF Types
<1>2. l.actions # <<>>
  BY <1>1 DEF ReadToken, AtEnd
<1>3. PICK t \in Parts : t = Head(l.actions)
  BY <1>2, LessToken
<1>4. CASE t = Close /\ depth = 0
  <2>1. phase' = "panicked" /\ UNCHANGED <<left, buf, depth>>
    BY <1>1, <1>3, <1>4 DEF ReadToken
  <2>2. QED
    BY <2>1 DEF Types, ReadToken
<1>5. CASE ~(t = Close /\ depth = 0)
  <2>1. /\ depth' = depth + (IF t = Open THEN 1 ELSE IF t = Close THEN -1 ELSE 0)
        /\ buf' = Append(buf, t) /\ left' = [left EXCEPT !.actions = Tail(@)] /\ UNCHANGED phase
    BY <1>1, <1>3, <1>5 DEF ReadToken
  <2>2. depth' \in Nat
    <3>1. depth \in Nat
      BY DEF Types
    <3>2. QED
      BY <1>5, <2>1, <3>1
  <2>3. buf' \in Seq(Parts)
    BY <2>1 DEF Types
  <2>4. left' \in Texts
    BY <1>1, <1>2, <2>1, LessToken
  <2>5. QED
    BY <2>1, <2>2, <2>3, <2>4 DEF Types, ReadToken
<1>6. QED
  BY <1>4, <1>5

\* The actions of a text are parsed one by one.
LEMMA EndActionTypes == ASSUME Types, EndAction PROVE Types'
<1>1. PICK l \in Texts : l = left
  BY DEF Types
<1>2. PICK more \in Seq(ReadActions) : more = ParseAction(buf)
  BY ParseActionType DEF Types
<1>3. CASE depth = 0 /\ more # <<>>
  <2>1. /\ got' = [got EXCEPT !.actions = @ \o more]
        /\ raw' = Append(raw, buf) /\ buf' = <<>>
        /\ left' = [left EXCEPT !.actions = IF AtEnd THEN @ ELSE Tail(@)]
        /\ UNCHANGED phase
    BY <1>2, <1>3 DEF EndAction
  <2>2. got' \in ReadFlows
    BY <2>1, ReadFlowsWith DEF Types
  <2>3. raw' \in Seq(Seq(Parts)) /\ buf' \in Seq(Parts)
    BY <2>1 DEF Types
  <2>4. left' \in Texts
    <3>1. CASE AtEnd
      <4>1. [l EXCEPT !.actions = @] = l
        BY DEF Texts
      <4>2. QED
        BY <1>1, <2>1, <3>1, <4>1
    <3>2. CASE ~AtEnd
      BY <1>1, <2>1, <3>2, LessToken DEF AtEnd
    <3>3. QED
      BY <3>1, <3>2
  <2>5. QED
    BY <2>1, <2>2, <2>3, <2>4 DEF Types, EndAction
<1>4. CASE ~(depth = 0 /\ more # <<>>)
  <2>1. phase' = "failed" /\ UNCHANGED <<got, raw, buf, left>>
    BY <1>2, <1>4 DEF EndAction
  <2>2. QED
    BY <2>1 DEF Types, EndAction
<1>5. QED
  BY <1>3, <1>4

\* Another flow is read, and another line begins.
LEMMA EndLineTypes == ASSUME Types, EndLine PROVE Types'
<1>1. CASE Len(raw) > 1 /\ Contains(raw, <<Word("drop")>>)
  <2>1. phase' = "failed" /\ UNCHANGED reader
    BY <1>1 DEF EndLine
  <2>2. QED
    BY <2>1 DEF Types, EndLine, reader
<1>2. CASE ~(Len(raw) > 1 /\ Contains(raw, <<Word("drop")>>))
  <2>1. /\ flows' = Append(flows, got)
        /\ phase' = IF lines = <<>> THEN "dumped" ELSE "line"
        /\ left' = IF lines = <<>> THEN Blank ELSE Head(lines)
        /\ lines' = IF lines = <<>> THEN <<>> ELSE Tail(lines)
        /\ got' = NoFlow /\ raw' = <<>>
        /\ UNCHANGED <<buf, depth>>
    BY <1>2 DEF EndLine
  <2>2. flows' \in Seq(ReadFlows) /\ got' \in ReadFlows /\ raw' \in Seq(Seq(Parts))
    BY <2>1, NothingRead DEF Types
  <2>3. left' \in Texts /\ lines' \in Seq(Texts)
    BY <2>1, NothingRead DEF Types
  <2>4. QED
    BY <2>1, <2>2, <2>3 DEF Types, EndLine
<1>3. QED
  BY <1>1, <1>2

\* Entries that are left after a delete are entries.
LEMMA DeleteTypes == ASSUME Types, NEW k \in DOMAIN flows, Delete(k) PROVE Types'
<1>1. bridge' \in Seq(Entries)
  BY AmongType DEF Types, Delete
<1>2. QED
  BY <1>1 DEF Types, Delete, reader

\* So every step keeps the types.
LEMMA NextTypes == ASSUME Types, [Next]_vars PROVE Types'
<1>1. CASE AddFlow
  BY <1>1, AddFlowTypes
<1>2. CASE \E print \in BOOLEAN : Dump(print)
  BY <1>2, DumpTypes
<1>3. CASE DumpRefused
  BY <1>3 DEF Types, DumpRefused, reader
<1>4. CASE \E k \in DOMAIN flows : Delete(k)
  BY <1>4, DeleteTypes
<1>5. CASE ReadMatcher
  BY <1>5, ReadMatcherTypes
<1>6. CASE ReadToken
  BY <1>6, ReadTokenTypes
<1>7. CASE EndAction
  BY <1>7, EndActionTypes
<1>8. CASE EndLine
  BY <1>8, EndLineTypes
<1>9. CASE UNCHANGED vars
  BY <1>9 DEF Types, vars
<1>10. QED
  BY <1>1, <1>2, <1>3, <1>4, <1>5, <1>6, <1>7, <1>8, <1>9 DEF Next, Read

\* The variables have their types.
THEOREM TypesHold == Spec => []Types
<1>1. Init => Types
  BY InitTypes
<1>2. Types /\ [Next]_vars => Types'
  BY NextTypes
<1>3. QED
  BY <1>1, <1>2, PTL DEF Spec

\* Whatever lines are read, a number that is read into a flow fits the type that
\* keeps it (matchparser.go:344-357), and the stack of parentheses is not popped
\* below its bottom.
THEOREM TypeCorrect == Spec => []TypeOK
<1>1. Types => TypeOK
  <2>1. SUFFICES ASSUME Types, NEW f \in {got} \cup ToSet(flows), NEW i \in DOMAIN f.matches
                 PROVE  Fitting(f.matches[i])
    BY DEF TypeOK, Types, Fitting
  <2>2. f \in ReadFlows
    BY <2>1 DEF Types, ToSet
  <2>3. QED
    BY <2>2 DEF ReadFlows
<1>2. QED
  BY <1>1, TypesHold, PTL
-----------------------------------------------------------------------------
(* How deep the parentheses are *)

\* The parentheses and the comma are different tokens.
LEMMA Punctuation ==
    /\ Open \in Parts /\ Close \in Parts /\ Comma \in Parts
    /\ Open # Close /\ Comma # Open /\ Comma # Close
<1>1. Open \in Parts /\ Close \in Parts /\ Comma \in Parts
  BY ActionNamesAssumption, PartsOf DEF Open, Close, Comma
<1>2. QED
  BY <1>1, TokensDiffer DEF Open, Close, Comma

\* How often a token is in a text.
CountOf(s, x) == Cardinality({i \in DOMAIN s : s[i] = x})

\* A token that is appended is in it once more.
LEMMA CountOfMore ==
    ASSUME NEW s \in Seq(Parts), NEW t \in Parts, NEW x
    PROVE  /\ CountOf(s, x) \in Nat
           /\ CountOf(Append(s, t), x) = CountOf(s, x) + (IF t = x THEN 1 ELSE 0)
<1> DEFINE I == {i \in DOMAIN s : s[i] = x}
<1>1. Len(s) \in Nat /\ DOMAIN s = 1..Len(s)
  OBVIOUS
<1>2. IsFiniteSet(I)
  <2>1. IsFiniteSet(1..Len(s))
    BY <1>1, FS_Interval
  <2>2. I \in SUBSET (1..Len(s))
    BY <1>1
  <2>3. QED
    BY <2>1, <2>2, FS_Subset
<1>3. Cardinality(I) \in Nat
  BY <1>2, FS_CardinalityType
<1>4. PICK more : more = Append(s, t)
  OBVIOUS
<1>5. /\ DOMAIN more = 1..Len(s) + 1 /\ more[Len(s) + 1] = t
      /\ \A i \in 1..Len(s) : more[i] = s[i]
  BY <1>1, <1>4
<1>6. CASE t = x
  <2>1. {i \in DOMAIN more : more[i] = x} = I \cup {Len(s) + 1}
    BY <1>1, <1>5, <1>6
  <2>2. Len(s) + 1 \notin I
    BY <1>1
  <2>3. Cardinality(I \cup {Len(s) + 1}) = Cardinality(I) + 1
    BY <1>2, <2>2, FS_AddElement
  <2>4. QED
    BY <1>3, <1>4, <1>6, <2>1, <2>3 DEF CountOf
<1>7. CASE t # x
  <2>1. {i \in DOMAIN more : more[i] = x} = I
    BY <1>1, <1>5, <1>7
  <2>2. CountOf(s, x) = Cardinality(I) /\ CountOf(Append(s, t), x) = Cardinality(I)
    BY <1>4, <2>1 DEF CountOf
  <2>3. QED
    BY <1>3, <1>7, <2>2
<1>8. QED
  BY <1>6, <1>7

\* A text is as high as the stack is when it has been read.
LEMMA HeightOfMore ==
    ASSUME NEW s \in Seq(Parts), NEW t \in Parts
    PROVE  /\ Height(s) \in Int
           /\ Height(Append(s, t)) = Height(s) + (IF t = Open THEN 1 ELSE IF t = Close THEN -1 ELSE 0)
<1>1. \A v \in Seq(Parts) : Height(v) = CountOf(v, Open) - CountOf(v, Close)
  BY DEF Height, CountOf
<1>2. PICK a, b : a = Open /\ b = Close
  OBVIOUS
<1>3. a # b
  BY <1>2, Punctuation
<1>4. /\ CountOf(s, a) \in Nat /\ CountOf(s, b) \in Nat
      /\ CountOf(Append(s, t), a) = CountOf(s, a) + (IF t = a THEN 1 ELSE 0)
      /\ CountOf(Append(s, t), b) = CountOf(s, b) + (IF t = b THEN 1 ELSE 0)
  BY CountOfMore
<1>5. Append(s, t) \in Seq(Parts)
  OBVIOUS
<1>6. /\ Height(s) = CountOf(s, a) - CountOf(s, b)
      /\ Height(Append(s, t)) = CountOf(Append(s, t), a) - CountOf(Append(s, t), b)
  BY <1>1, <1>2, <1>5
<1>7. PICK m : m = CountOf(s, a)
  OBVIOUS
<1>8. PICK n : n = CountOf(s, b)
  OBVIOUS
<1>9. /\ m \in Nat /\ n \in Nat /\ Height(s) = m - n
      /\ Height(Append(s, t)) = (m + (IF t = a THEN 1 ELSE 0)) - (n + (IF t = b THEN 1 ELSE 0))
  BY <1>4, <1>6, <1>7, <1>8
<1>10. QED
  <2>1. CASE t = a
    BY <1>2, <1>3, <1>9, <2>1
  <2>2. CASE t = b
    BY <1>2, <1>3, <1>9, <2>2
  <2>3. CASE t # a /\ t # b
    BY <1>2, <1>9, <2>3
  <2>4. QED
    BY <2>1, <2>2, <2>3

\* Nothing has no height.
LEMMA HeightOfNothing == Height(<<>>) = 0
<1>1. {i \in DOMAIN <<>> : <<>>[i] = Open} = {} /\ {i \in DOMAIN <<>> : <<>>[i] = Close} = {}
  OBVIOUS
<1>2. QED
  BY <1>1, FS_EmptySet DEF Height

\* A text with its commas within parentheses.
CommasInside(s) == \A j \in DOMAIN s : s[j] = Comma => Height(SubSeq(s, 1, j)) > 0

\* It stays one with a token that is not a comma outside of them.
LEMMA CommasInsideMore ==
    ASSUME NEW s \in Seq(Parts), NEW t \in Parts, CommasInside(s), t = Comma => Height(s) > 0
    PROVE  CommasInside(Append(s, t))
<1>1. PICK more : more = Append(s, t)
  OBVIOUS
<1>5. more \in Seq(Parts)
  BY <1>1
<1>2. /\ Len(s) \in Nat /\ DOMAIN s = 1..Len(s) /\ Len(more) = Len(s) + 1 /\ DOMAIN more = 1..Len(s) + 1
      /\ more[Len(s) + 1] = t /\ \A i \in 1..Len(s) : more[i] = s[i]
  BY <1>1
<1>3. ASSUME NEW j \in DOMAIN more, more[j] = Comma PROVE Height(SubSeq(more, 1, j)) > 0
  <2>1. CASE j \in 1..Len(s)
    <3>1. SubSeq(more, 1, j) = SubSeq(s, 1, j)
      <4>1. \A i \in 1..j : more[i] = s[i] /\ s[i] \in Parts /\ more[i] \in Parts
        BY <1>2, <1>5, <2>1
      <4>2. /\ SubSeq(more, 1, j) \in Seq(Parts) /\ SubSeq(s, 1, j) \in Seq(Parts)
            /\ Len(SubSeq(more, 1, j)) = j /\ Len(SubSeq(s, 1, j)) = j
            /\ \A i \in 1..j : SubSeq(more, 1, j)[i] = more[i] /\ SubSeq(s, 1, j)[i] = s[i]
        BY <2>1, <4>1
      <4>3. QED
        BY <4>1, <4>2, SeqEqual
    <3>2. s[j] = Comma
      BY <1>2, <1>3, <2>1
    <3>3. QED
      BY <1>2, <2>1, <3>1, <3>2 DEF CommasInside
  <2>2. CASE j = Len(s) + 1
    <3>1. SubSeq(more, 1, j) = more
      BY <1>2, <1>5, <2>2, SubSeqFull
    <3>2. t = Comma /\ t # Open /\ t # Close
      BY <1>2, <1>3, <2>2, Punctuation
    <3>3. Height(more) = Height(s) + 0
      BY <1>1, <3>2, HeightOfMore
    <3>4. PICK h \in Int : h = Height(s)
      BY HeightOfMore
    <3>5. h > 0
      BY <3>2, <3>4
    <3>6. Height(more) = h + 0
      BY <3>3, <3>4
    <3>7. Height(more) > 0
      BY <3>5, <3>6
    <3>8. QED
      BY <3>1, <3>7
  <2>3. QED
    BY <1>2, <1>3, <2>1, <2>2
<1>4. QED
  BY <1>1, <1>3 DEF CommasInside

-----------------------------------------------------------------------------
(* Where a text is split *)

\* A sequence with one more is not empty.
LEMMA OneMore ==
    ASSUME NEW T, NEW s \in Seq(T), NEW t \in T
    PROVE  Append(s, t) # <<>> /\ Append(s, t) \in Seq(T)
<1>1. PICK more : more = Append(s, t)
  OBVIOUS
<1>2. Len(more) = Len(s) + 1 /\ Len(s) \in Nat /\ more \in Seq(T)
  BY <1>1
<1>3. more # <<>>
  BY <1>2
<1>4. QED
  BY <1>1, <1>2, <1>3

\* Sequences may be concatenated in any order.
LEMMA Regroup ==
    ASSUME NEW a \in Seq(Parts), NEW b \in Seq(Parts), NEW c \in Seq(Parts)
    PROVE  a \o b \o c = a \o (b \o c) /\ a \o b \in Seq(Parts)
<1>1. a \o b \o c = a \o (b \o c)
  BY ConcatAssociative
<1>2. a \o b \in Seq(Parts)
  BY ConcatProperties
<1>3. QED
  BY <1>1, <1>2

\* A sequence is what it begins with and the rest.
LEMMA HeadAndTail ==
    ASSUME NEW T, NEW rest \in Seq(T), rest # <<>>
    PROVE  rest = <<Head(rest)>> \o Tail(rest)
<1>1. PICK t \in T : t = Head(rest)
  OBVIOUS
<1>2. PICK tail : tail = Tail(rest)
  OBVIOUS
<1>3. PICK c : c = <<t>>
  OBVIOUS
<1>4. c \in Seq(T) /\ tail \in Seq(T)
  BY <1>2, <1>3
<1>5. /\ Len(rest) \in Nat /\ Len(rest) > 0
      /\ Len(c) = 1 /\ c[1] = t /\ Len(tail) = Len(rest) - 1 /\ rest[1] = t
      /\ \A i \in 1..Len(tail) : tail[i] = rest[i + 1]
  BY <1>1, <1>2, <1>3
<1>6. PICK all \in Seq(T) : all = c \o tail
  BY <1>4, ConcatProperties
<1>7. /\ Len(all) = Len(c) + Len(tail)
      /\ \A i \in 1..Len(c) + Len(tail) : all[i] = IF i <= Len(c) THEN c[i] ELSE tail[i - Len(c)]
  <2>1. /\ Len(c \o tail) = Len(c) + Len(tail)
        /\ \A i \in 1..Len(c) + Len(tail) :
              (c \o tail)[i] = IF i <= Len(c) THEN c[i] ELSE tail[i - Len(c)]
    BY <1>4, ConcatProperties
  <2>2. QED
    BY <1>6, <2>1
<1>8. ASSUME NEW i \in 1..Len(rest) PROVE all[i] = rest[i]
  <2>1. CASE i = 1
    BY <1>5, <1>7, <2>1
  <2>2. CASE i # 1
    <3>1. i - 1 \in 1..Len(tail) /\ i - 1 + 1 = i
      BY <1>5, <2>2
    <3>2. all[i] = tail[i - 1]
      BY <1>5, <1>7, <2>2
    <3>3. tail[i - 1] = rest[i - 1 + 1]
      BY <1>5, <3>1
    <3>4. QED
      BY <3>1, <3>2, <3>3
  <2>3. QED
    BY <2>1, <2>2
<1>9. Len(all) = Len(rest) /\ \A i \in 1..Len(rest) : all[i] = rest[i]
  BY <1>5, <1>7, <1>8
<1>10. all = rest
  BY <1>9, SeqEqual
<1>11. QED
  BY <1>1, <1>2, <1>3, <1>6, <1>10

\* What a sequence begins with may be moved to the end of another.
LEMMA MoveOne ==
    ASSUME NEW T, NEW one \in Seq(T), NEW rest \in Seq(T), rest # <<>>
    PROVE  Append(one, Head(rest)) \o Tail(rest) = one \o rest
<1>1. PICK t \in T : t = Head(rest)
  OBVIOUS
<1>2. PICK tail : tail = Tail(rest)
  OBVIOUS
<1>3. /\ Append(one, t) \in Seq(T) /\ tail \in Seq(T) /\ Len(tail) = Len(rest) - 1 /\ rest[1] = t
      /\ \A i \in 1..Len(tail) : tail[i] = rest[i + 1]
  BY <1>1, <1>2
<1>4. QED
  BY <1>1, <1>2, <1>3

\* Actions that were read, joined with one more.
LEMMA JoinedWith ==
    ASSUME NEW acts \in Seq(Seq(Parts)), NEW one \in Seq(Parts)
    PROVE  /\ Append(acts, one) # <<>> /\ Append(acts, one) \in Seq(Seq(Parts))
           /\ Join(acts) \in Seq(Parts) /\ Join(Append(acts, one)) \in Seq(Parts)
           /\ <<Comma>> \in Seq(Parts) /\ Join(acts) \o <<Comma>> \in Seq(Parts)
           /\ acts = <<>> => Join(acts) = <<>> /\ Join(Append(acts, one)) = one
           /\ acts # <<>> => Join(Append(acts, one)) = Join(acts) \o <<Comma>> \o one
<1>1. Comma \in Parts
  BY Punctuation
<1>2. <<Comma>> \in Seq(Parts)
  BY <1>1
<1>3. Append(acts, one) # <<>> /\ Append(acts, one) \in Seq(Seq(Parts))
  BY OneMore
<1>4. Join(acts) \in Seq(Parts) /\ Join(Append(acts, one)) \in Seq(Parts)
  BY <1>1, <1>3, JoinOfMore
<1>5. Join(acts) \o <<Comma>> \in Seq(Parts)
  BY <1>2, <1>4, ConcatProperties
<1>6. QED
  BY <1>1, <1>2, <1>3, <1>4, <1>5, JoinOfMore

\* A text is split into actions that were read, one that is being read, and what
\* is left; commas were between them, and one may have ended the last.
SplitAs(acts, one, rest, text) ==
    \/ acts = <<>> /\ one \o rest = text
    \/ acts # <<>> /\ Join(acts) \o <<Comma>> \o one \o rest = text
    \/ acts # <<>> /\ Join(acts) = text /\ one = <<>> /\ rest = <<>>

\* A token is read.
LEMMA SplitToken ==
    ASSUME NEW acts \in Seq(Seq(Parts)), NEW one \in Seq(Parts), NEW rest \in Seq(Parts),
           NEW text, SplitAs(acts, one, rest, text), rest # <<>>
    PROVE  SplitAs(acts, Append(one, Head(rest)), Tail(rest), text)
<1>1. PICK more : more = Append(one, Head(rest))
  OBVIOUS
<1>2. PICK tail : tail = Tail(rest)
  OBVIOUS
<1>3. more \in Seq(Parts) /\ tail \in Seq(Parts)
  BY <1>1, <1>2
<1>4. more \o tail = one \o rest
  BY <1>1, <1>2, MoveOne
<1>5. CASE acts = <<>> /\ one \o rest = text
  BY <1>1, <1>2, <1>4, <1>5 DEF SplitAs
<1>6. CASE acts # <<>> /\ Join(acts) \o <<Comma>> \o one \o rest = text
  <2>1. PICK before \in Seq(Parts) : before = Join(acts) \o <<Comma>>
    BY JoinedWith
  <2>2. before \o one \o rest = before \o (one \o rest)
    BY Regroup
  <2>3. before \o more \o tail = before \o (more \o tail)
    BY <1>3, Regroup
  <2>4. before \o more \o tail = text
    BY <1>4, <1>6, <2>1, <2>2, <2>3
  <2>5. QED
    BY <1>1, <1>2, <1>6, <2>1, <2>4 DEF SplitAs
<1>7. QED
  BY <1>5, <1>6 DEF SplitAs

\* An action ends at a comma.
LEMMA SplitAtComma ==
    ASSUME NEW acts \in Seq(Seq(Parts)), NEW one \in Seq(Parts), NEW rest \in Seq(Parts),
           NEW text, SplitAs(acts, one, rest, text), rest # <<>>, Head(rest) = Comma
    PROVE  SplitAs(Append(acts, one), <<>>, Tail(rest), text)
<1>1. PICK tail : tail = Tail(rest)
  OBVIOUS
<1>2. tail \in Seq(Parts)
  BY <1>1
<1>3. PICK comma : comma = <<Comma>>
  OBVIOUS
<1>4. comma \in Seq(Parts)
  BY <1>3, JoinedWith
<1>5. rest = comma \o tail
  BY <1>1, <1>3, HeadAndTail
<1>6. PICK joined : joined = Join(Append(acts, one))
  OBVIOUS
<1>7. joined \in Seq(Parts)
  BY <1>6, JoinedWith
<1>8. joined \o comma \o tail = joined \o rest
  BY <1>2, <1>4, <1>5, <1>7, Regroup
<1>9. joined \o comma \o <<>> = joined \o comma
  <2>1. joined \o comma \in Seq(Parts)
    BY <1>4, <1>7, ConcatProperties
  <2>2. QED
    BY <2>1, ConcatEmptySeq
<1>10. joined \o rest = text
  <2>1. CASE acts = <<>> /\ one \o rest = text
    BY <1>6, <2>1, JoinedWith
  <2>2. CASE acts # <<>> /\ Join(acts) \o <<Comma>> \o one \o rest = text
    BY <1>6, <2>2, JoinedWith
  <2>3. QED
    BY <2>1, <2>2 DEF SplitAs
<1>11. joined \o comma \o <<>> \o tail = text
  BY <1>8, <1>9, <1>10
<1>12. Append(acts, one) # <<>>
  BY JoinedWith
<1>13. QED
  BY <1>1, <1>3, <1>6, <1>11, <1>12 DEF SplitAs

\* An action ends with the text.
LEMMA SplitAtEnd ==
    ASSUME NEW acts \in Seq(Seq(Parts)), NEW one \in Seq(Parts),
           NEW text, SplitAs(acts, one, <<>>, text), one # <<>>
    PROVE  SplitAs(Append(acts, one), <<>>, <<>>, text)
<1>1. PICK joined : joined = Join(Append(acts, one))
  OBVIOUS
<1>2. joined \in Seq(Parts)
  BY <1>1, JoinedWith
<1>3. joined \o <<>> = joined
  BY <1>2, ConcatEmptySeq
<1>4. joined \o <<>> = text
  <2>1. CASE acts = <<>> /\ one \o <<>> = text
    BY <1>1, <2>1, JoinedWith
  <2>2. CASE acts # <<>> /\ Join(acts) \o <<Comma>> \o one \o <<>> = text
    BY <1>1, <2>2, JoinedWith
  <2>3. QED
    BY <2>1, <2>2 DEF SplitAs
<1>5. Append(acts, one) # <<>>
  BY JoinedWith
<1>6. QED
  BY <1>1, <1>3, <1>4, <1>5 DEF SplitAs
-----------------------------------------------------------------------------
(* The parser of actions splits where actions end *)

Reading == phase \in {"line", "panicked"}
Entry   == bridge[Len(flows) + 1]

\* The entry whose line is being read comes after those that were read, and
\* before those whose lines are left.
Lined ==
    Reading =>
        /\ Len(lines) + Len(flows) + 1 = Len(bridge)
        /\ \A i \in DOMAIN lines : lines[i] = LineOf(bridge[Len(flows) + 1 + i], printed)
\* Nothing is read of the actions of a line before its matchers are.
Fresh ==
    phase = "idle" \/ (phase = "line" /\ left.matchers # <<>>) =>
        raw = <<>> /\ buf = <<>> /\ depth = 0 /\ (phase = "idle" => flows = <<>>)
Split == Reading => SplitAs(raw, buf, left.actions, Entry.text.actions)
Deep ==
    Reading =>
        /\ \A i \in DOMAIN raw : Height(raw[i]) = 0 /\ CommasInside(raw[i])
        /\ CommasInside(buf) /\ depth = Height(buf)
        /\ phase = "panicked" => left.actions # <<>> /\ Head(left.actions) = Close /\ depth = 0

Splits == Types /\ Lined /\ Fresh /\ Split /\ Deep

\* The line of an entry is split before any of it is read.
LEMMA NothingSplit ==
    ASSUME NEW s \in Seq(Parts)
    PROVE  SplitAs(<<>>, <<>>, s, s) /\ CommasInside(<<>>)
<1>1. <<>> \o s = s
  BY ConcatEmptySeq
<1>2. CommasInside(<<>>)
  BY DEF CommasInside
<1>3. QED
  BY <1>1, <1>2 DEF SplitAs

\* The first line is that of the first entry.
LEMMA DumpSplits == ASSUME Splits, NEW print \in BOOLEAN, Dump(print) PROVE Splits'
<1>1. Types' /\ bridge \in Seq(Entries) /\ bridge # <<>>
  BY DumpTypes DEF Splits, Types, Dump
<1>2. raw = <<>> /\ buf = <<>> /\ depth = 0 /\ flows = <<>>
  BY DEF Splits, Fresh, Dump
<1>3. /\ phase' = "line" /\ printed' = print /\ bridge' = bridge
      /\ raw' = <<>> /\ buf' = <<>> /\ depth' = 0 /\ flows' = <<>>
  BY <1>2 DEF Dump
<1>4. PICK all : all = [i \in DOMAIN bridge |-> LineOf(bridge[i], print)]
  OBVIOUS
<1>5. all \in Seq(Texts) /\ Len(all) = Len(bridge) /\ all # <<>>
  <2>1. DOMAIN bridge = 1..Len(bridge) /\ Len(bridge) \in Nat /\ Len(bridge) > 0
    BY <1>1
  <2>2. \A i \in DOMAIN bridge : LineOf(bridge[i], print) \in Texts
    BY <1>1, LineType
  <2>3. all \in [1..Len(bridge) -> Texts]
    BY <1>4, <2>1, <2>2
  <2>4. QED
    BY <2>1, <2>3, AsSequence
<1>6. left' = Head(all) /\ lines' = Tail(all)
  BY <1>4 DEF Dump
<1>7. /\ left' = LineOf(bridge[1], print) /\ lines' \in Seq(Texts) /\ Len(lines') = Len(bridge) - 1
      /\ \A i \in 1..Len(lines') : lines'[i] = all[i + 1]
  <2>1. Len(bridge) \in Nat /\ Len(bridge) > 0 /\ DOMAIN bridge = 1..Len(bridge)
    BY <1>1
  <2>2. 1 \in DOMAIN bridge
    BY <2>1
  <2>3. Head(all) = all[1]
    BY <1>5
  <2>4. all[1] = LineOf(bridge[1], print)
    BY <1>4, <2>2
  <2>5. /\ Tail(all) \in Seq(Texts) /\ Len(Tail(all)) = Len(all) - 1
        /\ \A i \in 1..Len(Tail(all)) : Tail(all)[i] = all[i + 1]
    BY <1>5, HeadTailProperties
  <2>6. QED
    BY <1>5, <1>6, <2>3, <2>4, <2>5
<1>8. Lined'
  <2>1. Len(flows') = 0 /\ Len(bridge) \in Nat /\ DOMAIN bridge = 1..Len(bridge)
    BY <1>1, <1>3
  <2>2. DOMAIN lines' = 1..Len(lines')
    BY <1>7
  <2>3. ASSUME NEW i \in DOMAIN lines' PROVE lines'[i] = LineOf(bridge[Len(flows') + 1 + i], printed')
    <3>1. i \in 1..Len(bridge) - 1 /\ i + 1 \in 1..Len(bridge)
      BY <1>7, <2>1, <2>2
    <3>2. lines'[i] = all[i + 1]
      BY <1>7, <2>2
    <3>3. all[i + 1] = LineOf(bridge[i + 1], print)
      BY <1>4, <2>1, <3>1
    <3>4. Len(flows') + 1 + i = i + 1
      BY <2>1, <3>1
    <3>5. QED
      BY <1>3, <3>2, <3>3, <3>4
  <2>4. Len(lines') + Len(flows') + 1 = Len(bridge)
    BY <1>7, <2>1
  <2>5. QED
    BY <1>3, <2>3, <2>4 DEF Lined
<1>9. SplitAs(raw', buf', left'.actions, Entry'.text.actions)
  <2>1. PICK b \in Entries : b = bridge[1]
    BY <1>1
  <2>2. left'.actions = b.text.actions /\ left' \in Texts
    BY <1>7, <2>1, LineType
  <2>3. left'.actions \in Seq(Parts)
    BY <2>2 DEF Texts
  <2>4. Len(flows') + 1 = 1
    BY <1>3
  <2>5. Entry' = b
    BY <1>3, <2>1, <2>4 DEF Entry
  <2>6. QED
    BY <1>3, <2>2, <2>3, <2>5, NothingSplit
<1>10. Fresh'
  BY <1>3 DEF Fresh
<1>11. Deep'
  <2>1. CommasInside(<<>>) /\ Height(<<>>) = 0
    BY HeightOfNothing DEF CommasInside
  <2>2. QED
    BY <1>3, <2>1 DEF Deep
<1>12. QED
  BY <1>1, <1>8, <1>9, <1>10, <1>11 DEF Splits, Split

\* Reading a matcher leaves the actions as they are.
LEMMA ReadMatcherSplits == ASSUME Splits, ReadMatcher PROVE Splits'
<1>1. Types'
  BY ReadMatcherTypes DEF Splits
<1>2. UNCHANGED <<bridge, printed, lines, buf, depth, raw, flows>> /\ phase = "line" /\ left.matchers # <<>>
  BY DEF ReadMatcher
<1>3. raw = <<>> /\ buf = <<>> /\ depth = 0
  BY <1>2 DEF Splits, Fresh
<1>4. phase' = "failed" \/ (phase' = "line" /\ left'.actions = left.actions)
  <2>1. left \in Texts
    BY DEF Splits, Types
  <2>2. [left EXCEPT !.matchers = Tail(@)].actions = left.actions
    BY <2>1 DEF Texts
  <2>3. QED
    BY <1>2, <2>2 DEF ReadMatcher
<1>5. CASE phase' = "failed"
  BY <1>1, <1>5 DEF Splits, Reading, Lined, Fresh, Split, Deep
<1>6. CASE phase' = "line" /\ left'.actions = left.actions
  BY <1>1, <1>2, <1>3, <1>6 DEF Splits, Reading, Lined, Fresh, Split, Deep, Entry
<1>7. QED
  BY <1>4, <1>5, <1>6

\* A token that does not end an action is appended to it.
LEMMA ReadTokenSplits == ASSUME Splits, ReadToken PROVE Splits'
<1>1. Types' /\ Types
  BY ReadTokenTypes DEF Splits
<1>2. /\ UNCHANGED <<asked, bridge, printed, lines, got, raw, flows>>
      /\ phase = "line" /\ left.matchers = <<>> /\ left.actions # <<>>
      /\ Head(left.actions) = Comma => depth # 0
  BY DEF ReadToken, InActions, AtEnd, AtComma
<1>3. PICK l \in Texts : l = left
  BY <1>1 DEF Types
<1>4. PICK t \in Parts : t = Head(l.actions)
  BY <1>2, <1>3, LessToken
<1>5. CASE t = Close /\ depth = 0
  <2>1. phase' = "panicked" /\ UNCHANGED <<left, buf, depth>>
    BY <1>3, <1>4, <1>5 DEF ReadToken
  <2>2. QED
    BY <1>1, <1>2, <1>3, <1>4, <1>5, <2>1 DEF Splits, Reading, Lined, Fresh, Split, Deep, Entry
<1>6. CASE ~(t = Close /\ depth = 0)
  <2>1. /\ depth' = depth + (IF t = Open THEN 1 ELSE IF t = Close THEN -1 ELSE 0)
        /\ buf' = Append(buf, t) /\ left' = [left EXCEPT !.actions = Tail(@)] /\ phase' = phase
    BY <1>3, <1>4, <1>6 DEF ReadToken
  <2>2. left'.actions = Tail(l.actions) /\ left'.matchers = <<>>
    BY <1>2, <1>3, <2>1, LessToken
  <2>3. PICK b \in Seq(Parts) : b = buf
    BY <1>1 DEF Types
  <2>4. CommasInside(b) /\ depth = Height(b) /\ depth \in Nat
    BY <1>1, <1>2, <2>3 DEF Splits, Deep, Reading, Types
  <2>5. t = Comma => Height(b) > 0
    BY <1>2, <1>3, <1>4, <2>4
  <2>6. CommasInside(Append(b, t)) /\ depth' = Height(Append(b, t))
    BY <2>1, <2>4, <2>5, CommasInsideMore, HeightOfMore
  <2>7. SplitAs(raw, b, l.actions, Entry.text.actions)
    BY <1>2, <1>3, <2>3 DEF Splits, Split, Reading
  <2>8. l.actions \in Seq(Parts) /\ raw \in Seq(Seq(Parts))
    BY <1>1 DEF Types, Texts
  <2>9. SplitAs(raw, Append(b, t), Tail(l.actions), Entry.text.actions)
    BY <1>2, <1>3, <1>4, <2>7, <2>8, SplitToken
  <2>10. Lined' /\ Fresh'
    BY <1>2, <2>1, <2>2 DEF Splits, Lined, Fresh, Reading
  <2>11. Split'
    BY <1>2, <2>1, <2>2, <2>3, <2>9 DEF Split, Entry
  <2>12. Deep'
    BY <1>2, <2>1, <2>3, <2>6 DEF Splits, Deep, Reading
  <2>13. QED
    BY <1>1, <2>10, <2>11, <2>12 DEF Splits
<1>7. QED
  BY <1>5, <1>6

\* The action that ends is one more, and what ended it is not of the next.
LEMMA EndActionSplits == ASSUME Splits, EndAction PROVE Splits'
<1>1. Types' /\ Types
  BY EndActionTypes DEF Splits
<1>2. /\ UNCHANGED <<asked, bridge, printed, lines, depth, flows>>
      /\ phase = "line" /\ left.matchers = <<>>
      /\ AtComma \/ (AtEnd /\ buf # <<>>)
  BY DEF EndAction, InActions
<1>3. CASE depth = 0 /\ ParseAction(buf) # <<>>
  <2>1. /\ raw' = Append(raw, buf) /\ buf' = <<>> /\ phase' = phase
        /\ left' = [left EXCEPT !.actions = IF AtEnd THEN @ ELSE Tail(@)]
    BY <1>3 DEF EndAction
  <2>2. PICK l \in Texts : l = left
    BY <1>1 DEF Types
  <2>3. PICK b \in Seq(Parts) : b = buf
    BY <1>1 DEF Types
  <2>4. PICK acts \in Seq(Seq(Parts)) : acts = raw
    BY <1>1 DEF Types
  <2>5. l.actions \in Seq(Parts)
    BY DEF Texts
  <2>6. PICK text : text = Entry.text.actions
    OBVIOUS
  <2>7. SplitAs(acts, b, l.actions, text)
    BY <1>2, <2>2, <2>3, <2>4, <2>6 DEF Splits, Split, Reading
  <2>8. left'.matchers = <<>> /\ SplitAs(Append(acts, b), <<>>, left'.actions, text)
    <3>1. CASE AtEnd
      <4>1. l.actions = <<>> /\ b # <<>>
        BY <1>2, <2>2, <2>3, <3>1 DEF AtEnd, AtComma
      <4>2. left'.actions = l.actions /\ left'.matchers = l.matchers
        BY <2>1, <2>2, <3>1 DEF Texts
      <4>3. SplitAs(Append(acts, b), <<>>, <<>>, text)
        BY <2>7, <4>1, SplitAtEnd
      <4>4. QED
        BY <1>2, <2>2, <4>1, <4>2, <4>3
    <3>2. CASE ~AtEnd
      <4>1. l.actions # <<>> /\ Head(l.actions) = Comma
        BY <1>2, <2>2, <3>2 DEF AtEnd, AtComma
      <4>2. left'.actions = Tail(l.actions) /\ left'.matchers = l.matchers
        BY <2>1, <2>2, <3>2, <4>1, LessToken
      <4>3. SplitAs(Append(acts, b), <<>>, Tail(l.actions), text)
        BY <2>5, <2>7, <4>1, SplitAtComma
      <4>4. QED
        BY <1>2, <2>2, <4>2, <4>3
    <3>3. QED
      BY <3>1, <3>2
  <2>9. Lined' /\ Fresh'
    BY <1>2, <2>1, <2>8 DEF Splits, Lined, Fresh, Reading
  <2>10. Split'
    BY <1>2, <2>1, <2>3, <2>4, <2>6, <2>8 DEF Split, Entry
  <2>11. Deep'
    <3>1. /\ \A i \in DOMAIN acts : Height(acts[i]) = 0 /\ CommasInside(acts[i])
          /\ CommasInside(b) /\ Height(b) = 0
      BY <1>2, <1>3, <2>3, <2>4 DEF Splits, Deep, Reading
    <3>2. PICK more : more = Append(acts, b)
      OBVIOUS
    <3>3. \A i \in DOMAIN more : more[i] = b \/ (i \in DOMAIN acts /\ more[i] = acts[i])
      BY <3>2
    <3>4. \A i \in DOMAIN more : Height(more[i]) = 0 /\ CommasInside(more[i])
      BY <3>1, <3>3
    <3>5. CommasInside(<<>>) /\ depth' = Height(<<>>)
      BY <1>2, <1>3, HeightOfNothing DEF CommasInside
    <3>6. QED
      BY <1>2, <2>1, <2>3, <2>4, <3>2, <3>4, <3>5 DEF Deep
  <2>12. QED
    BY <1>1, <2>9, <2>10, <2>11 DEF Splits
<1>4. CASE ~(depth = 0 /\ ParseAction(buf) # <<>>)
  <2>1. phase' = "failed"
    BY <1>4 DEF EndAction
  <2>2. QED
    BY <1>1, <2>1 DEF Splits, Reading, Lined, Fresh, Split, Deep
<1>5. QED
  BY <1>3, <1>4
\* The next line is that of the next entry.
LEMMA EndLineSplits == ASSUME Splits, EndLine PROVE Splits'
<1>1. Types' /\ Types
  BY EndLineTypes DEF Splits
<1>2. /\ UNCHANGED <<asked, bridge, printed>>
      /\ phase = "line" /\ left.matchers = <<>> /\ left.actions = <<>> /\ buf = <<>>
  BY DEF EndLine, InActions, AtEnd
<1>3. CASE Len(raw) > 1 /\ Contains(raw, <<Word("drop")>>)
  <2>1. phase' = "failed"
    BY <1>3 DEF EndLine
  <2>2. QED
    BY <1>1, <2>1 DEF Splits, Reading, Lined, Fresh, Split, Deep
<1>4. CASE ~(Len(raw) > 1 /\ Contains(raw, <<Word("drop")>>)) /\ lines = <<>>
  <2>1. phase' = "dumped"
    BY <1>4 DEF EndLine
  <2>2. QED
    BY <1>1, <2>1 DEF Splits, Reading, Lined, Fresh, Split, Deep
<1>5. CASE ~(Len(raw) > 1 /\ Contains(raw, <<Word("drop")>>)) /\ lines # <<>>
  <2>1. /\ flows' = Append(flows, got) /\ phase' = "line"
        /\ left' = Head(lines) /\ lines' = Tail(lines) /\ raw' = <<>>
        /\ UNCHANGED <<buf, depth>>
    BY <1>5 DEF EndLine
  <2>2. PICK ls \in Seq(Texts) : ls = lines
    BY <1>1 DEF Types
  <2>3. PICK n \in Nat : n = Len(flows)
    BY <1>1 DEF Types
  <2>4. Len(flows') = n + 1
    BY <1>1, <2>1, <2>3 DEF Types
  <2>5. /\ Len(ls) + n + 1 = Len(bridge) /\ \A i \in DOMAIN ls : ls[i] = LineOf(bridge[n + 1 + i], printed)
    BY <1>2, <2>2, <2>3 DEF Splits, Lined, Reading
  <2>6. /\ Len(ls) \in Nat /\ Len(ls) > 0 /\ DOMAIN ls = 1..Len(ls) /\ ls # <<>>
    BY <1>5, <2>2
  <2>7. /\ Tail(ls) \in Seq(Texts) /\ Len(Tail(ls)) = Len(ls) - 1
        /\ \A i \in 1..Len(Tail(ls)) : Tail(ls)[i] = ls[i + 1]
    BY <2>6, HeadTailProperties
  <2>8. Head(ls) = LineOf(bridge[n + 2], printed)
    <3>1. Head(ls) = ls[1] /\ 1 \in DOMAIN ls /\ n + 1 + 1 = n + 2
      BY <2>6
    <3>2. ls[1] = LineOf(bridge[n + 1 + 1], printed)
      BY <2>5, <3>1
    <3>3. QED
      BY <3>1, <3>2
  <2>9. Lined'
    <3>1. DOMAIN Tail(ls) = 1..Len(Tail(ls))
      BY <2>7
    <3>2. ASSUME NEW i \in DOMAIN Tail(ls) PROVE Tail(ls)[i] = LineOf(bridge[n + 1 + 1 + i], printed)
      <4>1. i \in 1..Len(ls) - 1 /\ i + 1 \in DOMAIN ls /\ n + 1 + (i + 1) = n + 1 + 1 + i
        BY <2>6, <2>7, <3>1
      <4>2. Tail(ls)[i] = ls[i + 1]
        BY <2>7, <3>1
      <4>3. ls[i + 1] = LineOf(bridge[n + 1 + (i + 1)], printed)
        BY <2>5, <4>1
      <4>4. QED
        BY <4>1, <4>2, <4>3
    <3>3. Len(Tail(ls)) + (n + 1) + 1 = Len(bridge)
      BY <2>5, <2>6, <2>7
    <3>4. QED
      BY <1>2, <2>1, <2>2, <2>4, <3>2, <3>3 DEF Lined
  <2>10. raw' = <<>> /\ buf' = <<>> /\ depth' = 0
    BY <1>2, <2>1, HeightOfNothing DEF Splits, Deep, Reading
  <2>11. Split'
    <3>1. PICK b \in Entries : b = bridge[n + 2]
      <4>1. n + 2 \in 1..Len(bridge) /\ bridge \in Seq(Entries)
        BY <1>1, <2>3, <2>5, <2>6 DEF Types
      <4>2. QED
        BY <4>1
    <3>2. left'.actions = b.text.actions /\ left' \in Texts
      BY <2>1, <2>2, <2>8, <3>1, LineType
    <3>3. left'.actions \in Seq(Parts)
      BY <3>2 DEF Texts
    <3>4. Len(flows') + 1 = n + 2
      BY <2>4
    <3>5. Entry' = b
      BY <1>2, <3>1, <3>4 DEF Entry
    <3>6. QED
      BY <2>10, <3>2, <3>3, <3>5, NothingSplit DEF Split
  <2>12. Fresh'
    BY <2>1, <2>10 DEF Fresh
  <2>13. Deep'
    <3>1. CommasInside(<<>>) /\ Height(<<>>) = 0
      BY HeightOfNothing DEF CommasInside
    <3>2. QED
      BY <2>1, <2>10, <3>1 DEF Deep
  <2>14. QED
    BY <1>1, <2>9, <2>11, <2>12, <2>13 DEF Splits
<1>6. QED
  BY <1>3, <1>4, <1>5

\* Outside of reading there is nothing to split.
LEMMA NextSplits == ASSUME Splits, [Next]_vars PROVE Splits'
<1>1. Types' /\ Types
  BY NextTypes DEF Splits
<1>2. CASE AddFlow
  <2>1. phase = "idle" /\ phase' = "idle" /\ UNCHANGED <<raw, buf, depth, flows>>
    BY <1>2 DEF AddFlow, reader
  <2>2. QED
    BY <1>1, <2>1 DEF Splits, Reading, Lined, Fresh, Split, Deep
<1>3. CASE \E print \in BOOLEAN : Dump(print)
  BY <1>3, DumpSplits
<1>4. CASE DumpRefused
  BY <1>1, <1>4 DEF DumpRefused, Splits, Reading, Lined, Fresh, Split, Deep
<1>5. CASE \E k \in DOMAIN flows : Delete(k)
  BY <1>1, <1>5 DEF Delete, Splits, Reading, Lined, Fresh, Split, Deep
<1>6. CASE ReadMatcher
  BY <1>6, ReadMatcherSplits
<1>7. CASE ReadToken
  BY <1>7, ReadTokenSplits
<1>8. CASE EndAction
  BY <1>8, EndActionSplits
<1>9. CASE EndLine
  BY <1>9, EndLineSplits
<1>10. CASE UNCHANGED vars
  BY <1>1, <1>10 DEF vars, Splits, Reading, Lined, Fresh, Split, Deep, Entry
<1>11. QED
  BY <1>2, <1>3, <1>4, <1>5, <1>6, <1>7, <1>8, <1>9, <1>10 DEF Next, Read

\* Where a text is split, at every moment.
THEOREM SplitsHold == Spec => []Splits
<1>1. Init => Splits
  BY InitTypes DEF Init, Splits, Reading, Lined, Fresh, Split, Deep
<1>2. Splits /\ [Next]_vars => Splits'
  BY NextSplits
<1>3. QED
  BY <1>1, <1>2, PTL DEF Spec

\* A split leaves out nothing but a comma.
LEMMA SplitIsWhole ==
    ASSUME NEW acts \in Seq(Seq(Parts)), NEW one \in Seq(Parts), NEW rest \in Seq(Parts),
           NEW text, SplitAs(acts, one, rest, text)
    PROVE  \E between \in {<<>>, <<Comma>>} : Join(acts) \o between \o one \o rest = text
<1>1. CASE acts = <<>> /\ one \o rest = text
  <2>1. Join(acts) = <<>>
    BY <1>1, JoinedWith
  <2>2. <<>> \o <<>> \o one = one
    BY ConcatEmptySeq, EmptySeq
  <2>3. QED
    BY <1>1, <2>1, <2>2
<1>2. CASE acts # <<>> /\ Join(acts) \o <<Comma>> \o one \o rest = text
  BY <1>2
<1>3. CASE acts # <<>> /\ Join(acts) = text /\ one = <<>> /\ rest = <<>>
  <2>1. PICK joined \in Seq(Parts) : joined = Join(acts)
    BY JoinedWith
  <2>2. joined \o <<>> \o <<>> \o <<>> = joined
    BY ConcatEmptySeq
  <2>3. QED
    BY <1>3, <2>1, <2>2
<1>4. QED
  BY <1>1, <1>2, <1>3 DEF SplitAs

\* The parser of actions splits its text only at commas outside of parentheses,
\* drops nothing else, and its stack is as high as the parentheses are deep; it
\* panics only where one closes that was not opened (actionparser.go:82-126).
THEOREM SplitsOnlyAtTop == Spec => []SplitsAtTop
<1>1. Splits => SplitsAtTop
  <2>1. SUFFICES ASSUME Splits, InActions \/ phase = "panicked" PROVE SplitsAtTop
    BY DEF SplitsAtTop
  <2>2. Reading /\ Types
    BY <2>1 DEF Reading, InActions, Splits
  <2>3. raw \in Seq(Seq(Parts)) /\ buf \in Seq(Parts) /\ left.actions \in Seq(Parts)
    BY <2>2 DEF Types, Texts
  <2>4. \E between \in {<<>>, <<Comma>>} : Join(raw) \o between \o buf \o left.actions = Entry.text.actions
    <3>1. PICK text : text = Entry.text.actions
      OBVIOUS
    <3>2. PICK rest \in Seq(Parts) : rest = left.actions
      BY <2>3
    <3>3. SplitAs(raw, buf, rest, text)
      BY <2>1, <2>2, <3>1, <3>2 DEF Splits, Split
    <3>4. \E between \in {<<>>, <<Comma>>} : Join(raw) \o between \o buf \o rest = text
      BY <2>3, <3>3, SplitIsWhole
    <3>5. QED
      BY <3>1, <3>2, <3>4
  <2>5. /\ \A i \in DOMAIN raw : Height(raw[i]) = 0 /\ CommasInside(raw[i])
        /\ depth = Height(buf)
        /\ phase = "panicked" => left.actions # <<>> /\ Head(left.actions) = Close /\ depth = 0
    BY <2>1, <2>2 DEF Splits, Deep
  <2>6. phase = "panicked" => Height(Append(buf, Head(left.actions))) < 0
    <3>1. SUFFICES ASSUME phase = "panicked" PROVE Height(Append(buf, Close)) = -1
      BY <2>5
    <3>2. Height(Append(buf, Close)) = Height(buf) + -1
      BY <2>3, Punctuation, HeightOfMore
    <3>3. QED
      BY <2>5, <3>1, <3>2
  <2>7. QED
    BY <2>4, <2>5, <2>6 DEF SplitsAtTop, CommasInside, Entry
<1>2. QED
  BY <1>1, SplitsHold, PTL

-----------------------------------------------------------------------------
(* A match is read as it was written *)

\* A number of a match, and as which part it is written.
LEMMA NumberWritten ==
    ASSUME NEW val \in Seq(Parts), NEW b \in {10, 16}, NEW i \in DOMAIN val,
           \A j \in DOMAIN val : val[j] = Num(val[j].n)
    PROVE  /\ Len(WithBase(b, val)) = Len(val) /\ val[i].n \in Int
           /\ WithBase(b, val)[i].base = b /\ WithBase(b, val)[i].n = val[i].n
<1>1. WithBase(b, val)[i] = Part(b, val[i].n, Empty, Empty) /\ Len(WithBase(b, val)) = Len(val)
  BY WithBaseType
<1>2. val[i].n \in Int
  BY PartTypes
<1>3. PICK n : n = val[i].n
  OBVIOUS
<1>4. Part(b, n, Empty, Empty).base = b /\ Part(b, n, Empty, Empty).n = n
  BY DEF Part
<1>5. QED
  BY <1>1, <1>2, <1>3, <1>4

\* A number that fits is not changed by wrapping it.
LEMMA WrappedIsSame ==
    ASSUME NEW key, NEW n \in Int, key \in IntKeys \/ n \in 0..Width(key) - 1
    PROVE  Wrapped(key, n) = Num(n)
<1>1. CASE key \in IntKeys
  BY <1>1 DEF Wrapped
<1>2. CASE key \notin IntKeys
  <2>1. PICK w \in Nat : w = Width(key)
    BY WidthType
  <2>2. n \in 0..w - 1
    BY <1>2, <2>1
  <2>3. n % w = n
    BY <2>2
  <2>4. QED
    BY <1>2, <2>1, <2>3 DEF Wrapped
<1>3. QED
  BY <1>1, <1>2

\* A value of one part is that part.
LEMMA OnePart ==
    ASSUME NEW val \in Seq(Parts), Len(val) = 1
    PROVE  val = <<val[1]>> /\ DOMAIN val = {1} /\ 1 \in DOMAIN val
<1>1. DOMAIN val = 1..1
  OBVIOUS
<1>2. QED
  BY <1>1

\* Decimal numbers.
LEMMA DecimalReread ==
    ASSUME NEW m, Constructed(m), m.of \in DecimalKeys \ {"in_port"},
           m.of \in IntKeys \cup {"conj_id"} => m.val[1].n <= MaxOf(m.of)
    PROVE  Parses(m.of, Written(m)) /\ ReadValue(m.of, Written(m)) = m.val
<1>1. PICK key : key = m.of
  OBVIOUS
<1>2. PICK val \in Seq(Parts) : val = m.val
  BY DEF Constructed
<1>3. key \notin MaskedKeys \cup PortKeys \cup VlanKeys \cup {"dl_type", "arp_op"}
  BY <1>1, Classes
<1>4. Len(val) = 1 /\ val[1] = Num(val[1].n)
      /\ (key \notin IntKeys => val[1].n \in 0..Width(key) - 1)
  <2>1. CASE key \in IntKeys
    BY <1>1, <1>2, <2>1 DEF Constructed
  <2>2. CASE key \notin IntKeys
    <3>1. KeyOf(key) = key
      BY <1>1 DEF KeyOf, DecimalKeys, ByteKeys, IntKeys
    <3>2. key \in NumberKeys \ (MaskedKeys \cup PortKeys)
      BY <1>1, <1>3, <2>2 DEF NumberKeys, DecimalKeys
    <3>3. QED
      BY <1>1, <1>2, <3>1, <3>2, <2>2 DEF Constructed, Fits
  <2>3. QED
    BY <2>1, <2>2
<1>5. PICK n : n = val[1].n
  OBVIOUS
<1>6. val = <<Num(n)>> /\ n \in Int /\ DOMAIN val = {1}
  BY <1>4, <1>5, OnePart, PartTypes
<1>7. PICK w : w = Written(m)
  OBVIOUS
<1>8. w = WithBase(10, val)
  BY <1>1, <1>2, <1>3, <1>7 DEF Written, VlanKeys
<1>9. Len(w) = 1 /\ w[1].base = 10 /\ w[1].n = n
  <2>1. \A j \in DOMAIN val : val[j] = Num(val[j].n)
    BY <1>4, <1>6
  <2>2. QED
    BY <1>4, <1>5, <1>6, <1>8, <2>1, NumberWritten
<1>10. n <= MaxOf(key)
  <2>1. CASE key \in IntKeys \cup {"conj_id"}
    BY <1>1, <1>2, <1>5, <2>1
  <2>2. CASE key \in ByteKeys
    <3>1. Width(key) = 256 /\ MaxOf(key) = 255
      BY <2>2 DEF Width, MaxOf, ByteKeys, TciKeys, PortKeys, VlanKeys
    <3>2. key \notin IntKeys
      BY <2>2 DEF ByteKeys, IntKeys
    <3>3. n \in 0..Width(key) - 1
      BY <1>4, <1>5, <3>2
    <3>4. QED
      BY <3>1, <3>3
  <2>3. CASE key = "ct_zone"
    <3>1. Width(key) = 65536 /\ MaxOf(key) = 65535
      BY <2>3 DEF Width, MaxOf, ByteKeys
    <3>2. key \notin IntKeys
      BY <2>3 DEF IntKeys
    <3>3. n \in 0..Width(key) - 1
      BY <1>4, <1>5, <3>2
    <3>4. n \in 0..65536 - 1
      BY <3>1, <3>3
    <3>5. n <= 65535
      BY <3>4
    <3>6. QED
      BY <3>1, <3>5
  <2>4. QED
    BY <1>1, <2>1, <2>2, <2>3 DEF DecimalKeys
<1>11. Parses(key, w)
  <2>1. key \notin HardwareKeys \cup FlagKeys
    BY <1>1, Classes
  <2>2. QED
    BY <1>1, <1>3, <1>9, <1>10, <2>1 DEF Parses, Clamps, FlagKeys
<1>12. ReadValue(key, w) = <<Num(n)>>
  <2>1. ReadValue(key, w) = <<Wrapped(key, w[1].n)>>
    BY <1>1, ReadValueCases
  <2>2. Wrapped(key, n) = Num(n)
    BY <1>4, <1>5, <1>6, WrappedIsSame
  <2>3. QED
    BY <1>9, <2>1, <2>2
<1>13. QED
  BY <1>1, <1>2, <1>6, <1>7, <1>11, <1>12

\* ARP operations and Ethernet types.
LEMMA TypeReread ==
    ASSUME NEW m, Constructed(m), m.of \in {"arp_op", "dl_type"}
    PROVE  Parses(m.of, Written(m)) /\ ReadValue(m.of, Written(m)) = m.val
<1>1. PICK key : key = m.of
  OBVIOUS
<1>2. PICK val \in Seq(Parts) : val = m.val
  BY DEF Constructed
<1>3. /\ key \notin MaskedKeys \cup PortKeys \cup VlanKeys \cup DecimalKeys \cup HardwareKeys \cup FlagKeys
      /\ Width(key) = 65536 /\ KeyOf(key) = key /\ key \in NumberKeys /\ key \notin IntKeys
  <2>1. key \in {"arp_op", "dl_type"}
    BY <1>1
  <2>2. key \notin MaskedKeys \cup PortKeys \cup VlanKeys \cup DecimalKeys \cup HardwareKeys \cup FlagKeys
    BY <2>1, Classes
  <2>3. Width(key) = 65536 /\ KeyOf(key) = key
    BY <2>1 DEF Width, KeyOf, ByteKeys
  <2>4. QED
    BY <2>1, <2>2, <2>3 DEF NumberKeys, DecimalKeys
<1>4. Len(val) = 1 /\ val[1] = Num(val[1].n) /\ val[1].n \in 0..Width(key) - 1
  <2>1. Len(val) = 1 /\ Fits(key, val[1])
    BY <1>1, <1>2, <1>3 DEF Constructed
  <2>2. QED
    BY <2>1 DEF Fits
<1>5. PICK n : n = val[1].n
  OBVIOUS
<1>6. val = <<Num(n)>> /\ n \in Int /\ 0 <= n /\ n <= 65535 /\ DOMAIN val = {1}
  <2>1. PICK limit \in Nat : limit = Width(key)
    BY WidthType
  <2>2. limit = 65536
    BY <1>3, <2>1
  <2>3. n \in Int /\ 0 <= n /\ n <= limit - 1
    BY <1>4, <1>5, <2>1
  <2>4. val = <<Num(n)>> /\ DOMAIN val = {1}
    BY <1>4, <1>5, OnePart
  <2>5. QED
    BY <2>2, <2>3, <2>4
<1>7. PICK b \in {10, 16} : b = IF key = "dl_type" THEN 16 ELSE 10
  OBVIOUS
<1>8. PICK w : w = Written(m)
  OBVIOUS
<1>9. w = WithBase(b, val)
  BY <1>1, <1>2, <1>3, <1>7, <1>8 DEF Written, VlanKeys
<1>10. Len(w) = 1 /\ w[1].base = b /\ w[1].n = n
  <2>1. \A j \in DOMAIN val : val[j] = Num(val[j].n)
    BY <1>4, <1>6
  <2>2. 1 \in DOMAIN val
    BY <1>6
  <2>3. Len(WithBase(b, val)) = Len(val) /\ WithBase(b, val)[1].base = b /\ WithBase(b, val)[1].n = val[1].n
    BY <2>1, <2>2, NumberWritten
  <2>4. QED
    BY <1>4, <1>5, <1>9, <2>3
<1>11. Parses(key, w)
  <2>1. CASE key = "dl_type"
    <3>1. n < Two32
      BY <1>6, WideAssumption
    <3>2. HexOf(w[1]) = n
      BY <1>7, <1>10, <2>1 DEF HexOf
    <3>3. ReadsHex(w[1], Two32)
      BY <1>6, <1>7, <1>10, <2>1, <3>1, <3>2 DEF ReadsHex, IsNumber
    <3>4. QED
      BY <1>3, <1>10, <2>1, <3>3 DEF Parses, FlagKeys
  <2>2. CASE key = "arp_op"
    <3>1. ReadsEither(w[1], key) /\ Within(w[1].n, 0, 65535)
      BY <1>6, <1>7, <1>10, <2>2 DEF ReadsEither, Within
    <3>2. QED
      BY <1>3, <1>10, <2>2, <3>1 DEF Parses, FlagKeys
  <2>3. QED
    BY <1>1, <2>1, <2>2
<1>12. ReadValue(key, w) = <<Num(n)>>
  <2>1. Wrapped(key, n) = Num(n)
    BY <1>4, <1>5, <1>6, WrappedIsSame
  <2>2. CASE key = "dl_type"
    <3>1. HexOf(w[1]) = n
      BY <1>7, <1>10, <2>2 DEF HexOf
    <3>2. QED
      BY <2>1, <2>2, <3>1, ReadValueCases
  <2>3. CASE key = "arp_op"
    BY <1>10, <2>1, <2>3, ReadValueCases
  <2>4. QED
    BY <1>1, <2>2, <2>3
<1>13. QED
  BY <1>1, <1>2, <1>6, <1>8, <1>11, <1>12

\* What fits is a number below the limit.
LEMMA Fitted ==
    ASSUME NEW key, NEW p \in Parts, Fits(key, p)
    PROVE  p = Num(p.n) /\ p.n \in Int /\ 0 <= p.n /\ p.n < Width(key) /\ Wrapped(key, p.n) = p
<1>1. PICK n : n = p.n
  OBVIOUS
<1>2. p = Num(n) /\ n \in 0..Width(key) - 1
  BY <1>1 DEF Fits
<1>3. PICK limit \in Nat : limit = Width(key)
  BY WidthType
<1>4. n \in Int /\ 0 <= n /\ n < limit
  BY <1>2, <1>3
<1>5. Wrapped(key, n) = Num(n)
  BY <1>2, <1>4, WrappedIsSame
<1>6. QED
  BY <1>1, <1>2, <1>3, <1>4, <1>5

\* VLANs and their priorities.
LEMMA VlanReread ==
    ASSUME NEW m, Constructed(m), Marshals(m), m.of \in VlanKeys
    PROVE  Parses(m.of, Written(m)) /\ ReadValue(m.of, Written(m)) = m.val
<1>1. PICK key : key = m.of
  OBVIOUS
<1>2. PICK val \in Seq(Parts) : val = m.val
  BY DEF Constructed
<1>3. key \notin MaskedKeys \cup PortKeys \cup DecimalKeys \cup HardwareKeys \cup FlagKeys \cup {"dl_type", "arp_op"}
  BY <1>1, Classes
<1>4. Len(val) = 1 /\ val[1] = Num(val[1].n)
  BY <1>1, <1>2 DEF Constructed
<1>5. PICK n : n = val[1].n
  OBVIOUS
<1>6. val = <<Num(n)>> /\ n \in Int /\ DOMAIN val = {1}
  BY <1>4, <1>5, OnePart, PartTypes
<1>7. 0 <= n /\ n <= 65535 /\ (n = 65535 => key = "dl_vlan")
  <2>1. /\ key = "dl_vlan" => Within(n, 0, 4095) \/ n = 65535
        /\ key = "dl_vlan_pcp" => n \in 0..7
    BY <1>1, <1>2, <1>5 DEF Marshals
  <2>2. key = "dl_vlan" \/ key = "dl_vlan_pcp"
    BY <1>1 DEF VlanKeys
  <2>3. QED
    BY <1>6, <2>1, <2>2 DEF Within
<1>8. PICK b \in {10, 16} : b = IF n = 65535 THEN 16 ELSE 10
  OBVIOUS
<1>9. PICK w : w = Written(m)
  OBVIOUS
<1>10. w = WithBase(b, val)
  <2>1. key = "dl_vlan" \/ n # 65535
    BY <1>7
  <2>2. QED
    BY <1>1, <1>2, <1>3, <1>5, <1>8, <1>9, <2>1 DEF Written
<1>11. Len(w) = 1 /\ w[1].base = b /\ w[1].n = n
  <2>1. \A j \in DOMAIN val : val[j] = Num(val[j].n)
    BY <1>4, <1>6
  <2>2. 1 \in DOMAIN val
    BY <1>6
  <2>3. Len(WithBase(b, val)) = Len(val) /\ WithBase(b, val)[1].base = b /\ WithBase(b, val)[1].n = val[1].n
    BY <2>1, <2>2, NumberWritten
  <2>4. QED
    BY <1>4, <1>5, <1>10, <2>3
<1>12. Parses(key, w)
  <2>1. ReadsEither(w[1], key)
    <3>1. CASE b = 10
      BY <1>11, <3>1 DEF ReadsEither
    <3>2. CASE b = 16
      <4>1. HexLimit(key) = Two32
        BY <1>1 DEF HexLimit, VlanKeys
      <4>2. n < Two32
        BY <1>6, <1>7, WideAssumption
      <4>3. HexOf(w[1]) = n
        BY <1>11, <3>2 DEF HexOf
      <4>4. ReadsHex(w[1], HexLimit(key))
        BY <1>7, <1>11, <3>2, <4>1, <4>2, <4>3 DEF ReadsHex, IsNumber
      <4>5. QED
        BY <1>11, <3>2, <4>4 DEF ReadsEither
    <3>3. QED
      BY <3>1, <3>2
  <2>2. QED
    BY <1>1, <1>3, <1>11, <2>1 DEF Parses, FlagKeys
<1>13. ReadValue(key, w) = <<Num(n)>>
  <2>1. Wrapped(key, n) = Num(n)
    <3>1. Width(key) = 65536
      BY <1>1 DEF Width, VlanKeys, ByteKeys
    <3>2. PICK limit \in Nat : limit = Width(key)
      BY WidthType
    <3>3. limit = 65536
      BY <3>1, <3>2
    <3>4. n <= limit - 1
      BY <1>6, <1>7, <3>3
    <3>5. n \in 0..limit - 1
      BY <1>6, <1>7, <3>2, <3>4
    <3>6. QED
      BY <1>6, <3>2, <3>5, WrappedIsSame
  <2>2. ReadValue(key, w) = <<IF w[1].base = 10 THEN Num(w[1].n) ELSE Wrapped(key, w[1].n)>>
    BY <1>1, ReadValueCases
  <2>3. QED
    BY <1>11, <2>1, <2>2
<1>14. QED
  BY <1>1, <1>2, <1>6, <1>9, <1>12, <1>13

\* Two sequences of parts with the same parts are one.
LEMMA SameParts ==
    ASSUME NEW v, NEW val \in Seq(Parts), DOMAIN v = DOMAIN val, v = [i \in DOMAIN v |-> v[i]],
           \A i \in DOMAIN val : v[i] = val[i]
    PROVE  v = val
<1>1. val \in [1..Len(val) -> Parts] /\ DOMAIN val = 1..Len(val)
  OBVIOUS
<1>2. QED
  BY <1>1

\* Numbers with a mask, and labels, marks and tunnels with or without.
LEMMA MaskedReread ==
    ASSUME NEW m, Constructed(m), m.of \in MaskedKeys
    PROVE  Parses(m.of, Written(m)) /\ ReadValue(m.of, Written(m)) = m.val
<1>1. PICK key : key = m.of
  OBVIOUS
<1>2. PICK val \in Seq(Parts) : val = m.val
  BY DEF Constructed
<1>3. key \notin VlanKeys \cup PortKeys \cup DecimalKeys \cup HardwareKeys \cup FlagKeys \cup {"dl_type", "arp_op"}
  BY <1>1, Classes
<1>4. /\ Len(val) \in 1..2 /\ \A i \in DOMAIN val : Fits(key, val[i])
      /\ Len(val) = 2 => val[2].n # 0
  BY <1>1, <1>2 DEF Constructed
<1>5. \A i \in DOMAIN val : /\ val[i] = Num(val[i].n) /\ val[i].n \in Int /\ 0 <= val[i].n
                            /\ val[i].n < Width(key) /\ Wrapped(key, val[i].n) = val[i]
  BY <1>4, Fitted
<1>6. PICK w : w = Written(m)
  OBVIOUS
<1>7. w = WithBase(16, val)
  BY <1>1, <1>2, <1>6 DEF Written
<1>8. Len(w) = Len(val) /\ DOMAIN w = DOMAIN val
      /\ \A i \in DOMAIN val : w[i].base = 16 /\ w[i].n = val[i].n
  <2>1. \A j \in DOMAIN val : val[j] = Num(val[j].n)
    BY <1>5
  <2>2. \A i \in DOMAIN val : WithBase(16, val)[i].base = 16 /\ WithBase(16, val)[i].n = val[i].n
    BY <2>1, NumberWritten
  <2>3. Len(WithBase(16, val)) = Len(val) /\ DOMAIN WithBase(16, val) = DOMAIN val
    BY <2>1, WithBaseType
  <2>4. QED
    BY <1>7, <2>2, <2>3
<1>9. Width(key) <= HexLimit(key) /\ HexLimit(key) \in Nat
  <2>1. CASE key \in TciKeys
    <3>1. Width(key) = 65536 /\ HexLimit(key) = Two32
      BY <2>1 DEF Width, HexLimit, TciKeys, ByteKeys
    <3>2. QED
      BY <3>1, WideAssumption
  <2>2. CASE key \in {"ipv6_label", "ct_mark"}
    <3>1. Width(key) = Two32 /\ HexLimit(key) = Two32
      BY <2>2 DEF Width, HexLimit, TciKeys, ByteKeys, PortKeys, VlanKeys
    <3>2. QED
      BY <3>1, WideAssumption
  <2>3. CASE key \in {"metadata", "tun_id"}
    <3>1. Width(key) = Two64 /\ HexLimit(key) = Two64
      BY <2>3 DEF Width, HexLimit, TciKeys, ByteKeys, PortKeys, VlanKeys
    <3>2. QED
      BY <3>1, WideAssumption
  <2>4. QED
    BY <1>1, <2>1, <2>2, <2>3 DEF MaskedKeys
<1>10. Parses(key, w)
  <2>1. ASSUME NEW i \in DOMAIN w PROVE ReadsEither(w[i], key)
    <3>1. PICK n \in Int : n = w[i].n
      BY <1>5, <1>8
    <3>2. w[i].base = 16 /\ 0 <= n /\ n < Width(key)
      BY <1>5, <1>8, <3>1
    <3>3. HexOf(w[i]) = n
      BY <3>1, <3>2 DEF HexOf
    <3>4. PICK limit \in Nat, width \in Nat : limit = HexLimit(key) /\ width = Width(key)
      BY <1>9, WidthType
    <3>5. n < limit
      BY <1>9, <3>2, <3>4
    <3>6. ReadsHex(w[i], HexLimit(key))
      BY <3>1, <3>2, <3>3, <3>4, <3>5 DEF ReadsHex, IsNumber
    <3>7. QED
      BY <3>2, <3>6 DEF ReadsEither
  <2>2. QED
    BY <1>1, <1>3, <1>4, <1>8, <2>1 DEF Parses, FlagKeys
<1>11. ReadValue(key, w) = val
  <2>1. PICK v : v = FieldNumbers(key, w)
    OBVIOUS
  <2>2. DOMAIN v = DOMAIN val /\ v = [i \in DOMAIN v |-> v[i]]
    BY <1>8, <2>1 DEF FieldNumbers
  <2>3. ASSUME NEW i \in DOMAIN val PROVE v[i] = val[i]
    BY <1>5, <1>8, <2>1 DEF FieldNumbers
  <2>4. v = val
    BY <2>2, <2>3, SameParts
  <2>5. WithoutZeroMask(val) = val
    BY <1>4 DEF WithoutZeroMask
  <2>6. ReadValue(key, w) = WithoutZeroMask(FieldNumbers(key, w))
    BY <1>1, ReadValueCases
  <2>7. QED
    BY <2>1, <2>4, <2>5, <2>6
<1>12. QED
  BY <1>1, <1>2, <1>6, <1>10, <1>11

\* Transport ports.
LEMMA PortReread ==
    ASSUME NEW m, Constructed(m), m.of \in PortKeys
    PROVE  Parses(m.of, Written(m)) /\ ReadValue(m.of, Written(m)) = m.val
<1>1. PICK key : key = m.of
  OBVIOUS
<1>2. PICK val \in Seq(Parts) : val = m.val
  BY DEF Constructed
<1>3. key \notin VlanKeys \cup MaskedKeys \cup DecimalKeys \cup HardwareKeys \cup FlagKeys \cup {"dl_type", "arp_op"}
  BY <1>1, Classes
<1>4. /\ Len(val) \in 1..2 /\ \A i \in DOMAIN val : Fits(key, val[i])
      /\ Len(val) = 2 => val[2].n # 0
  BY <1>1, <1>2 DEF Constructed
<1>5. \A i \in DOMAIN val : /\ val[i] = Num(val[i].n) /\ val[i].n \in Int /\ 0 <= val[i].n
                            /\ val[i].n < Width(key) /\ Wrapped(key, val[i].n) = val[i]
  BY <1>4, Fitted
<1>6. PICK b \in {10, 16} : b = IF Len(val) = 2 THEN 16 ELSE 10
  OBVIOUS
<1>7. PICK w : w = Written(m)
  OBVIOUS
<1>8. w = WithBase(b, val)
  BY <1>1, <1>2, <1>3, <1>6, <1>7 DEF Written, VlanKeys
<1>9. Len(w) = Len(val) /\ DOMAIN w = DOMAIN val
      /\ \A i \in DOMAIN val : w[i].base = b /\ w[i].n = val[i].n
  <2>1. \A j \in DOMAIN val : val[j] = Num(val[j].n)
    BY <1>5
  <2>2. \A i \in DOMAIN val : WithBase(b, val)[i].base = b /\ WithBase(b, val)[i].n = val[i].n
    BY <2>1, NumberWritten
  <2>3. Len(WithBase(b, val)) = Len(val) /\ DOMAIN WithBase(b, val) = DOMAIN val
    BY <2>1, WithBaseType
  <2>4. QED
    BY <1>8, <2>2, <2>3
<1>10. Width(key) = 65536
  BY <1>1 DEF Width, PortKeys, ByteKeys
<1>11. CASE Len(val) = 1
  <2>1. val = <<val[1]>> /\ 1 \in DOMAIN val
    BY <1>11, OnePart
  <2>2. PICK n \in Int : n = val[1].n
    BY <1>5, <2>1
  <2>3. w[1].base = 10 /\ w[1].n = n /\ Len(w) = 1
    BY <1>6, <1>9, <1>11, <2>1, <2>2
  <2>4. n <= 65535
    BY <1>5, <1>10, <2>1, <2>2
  <2>5. Clamps(w, 65535)
    BY <2>3, <2>4 DEF Clamps
  <2>6. Parses(key, w)
    BY <1>1, <1>3, <2>5 DEF Parses, FlagKeys
  <2>7. ReadValue(key, w) = <<Wrapped(key, n)>>
    BY <1>1, <2>3, ReadValueCases
  <2>8. Wrapped(key, n) = val[1]
    BY <1>5, <2>1, <2>2
  <2>9. QED
    BY <1>1, <1>2, <1>7, <2>1, <2>6, <2>7, <2>8
<1>12. CASE Len(val) = 2
  <2>1. DOMAIN val = 1..2 /\ b = 16
    BY <1>6, <1>12
  <2>2. ASSUME NEW i \in 1..2 PROVE HexOf(w[i]) = val[i].n /\ ReadsHex(w[i], 65536)
    <3>1. PICK n \in Int : n = val[i].n
      BY <1>5, <2>1
    <3>2. w[i].base = 16 /\ w[i].n = n /\ 0 <= n /\ n < 65536
      BY <1>5, <1>9, <1>10, <2>1, <3>1
    <3>3. HexOf(w[i]) = n
      BY <3>2 DEF HexOf
    <3>4. ReadsHex(w[i], 65536)
      BY <3>2, <3>3 DEF ReadsHex, IsNumber
    <3>5. QED
      BY <3>1, <3>3, <3>4
  <2>3. Parses(key, w)
    BY <1>1, <1>3, <1>9, <1>12, <2>2 DEF Parses, FlagKeys
  <2>4. PICK v : v = HexNumbers(w)
    OBVIOUS
  <2>5. DOMAIN v = DOMAIN val /\ v = [i \in DOMAIN v |-> v[i]]
    BY <2>1, <2>4 DEF HexNumbers
  <2>6. ASSUME NEW i \in DOMAIN val PROVE v[i] = val[i]
    BY <1>5, <2>1, <2>2, <2>4 DEF HexNumbers
  <2>7. v = val
    BY <2>5, <2>6, SameParts
  <2>8. WithoutZeroMask(val) = val
    BY <1>4 DEF WithoutZeroMask
  <2>9. Len(w) = 2
    BY <1>9, <1>12
  <2>10. ReadValue(key, w) = WithoutZeroMask(HexNumbers(w))
    BY <1>1, <2>9, ReadValueCases
  <2>11. QED
    BY <1>1, <1>2, <1>7, <2>3, <2>4, <2>7, <2>8, <2>10
<1>13. QED
  BY <1>4, <1>11, <1>12

\* A part with its word spelled as it is printed.
LEMMA SpelledPart ==
    ASSUME NEW val \in Seq(Parts), NEW i \in DOMAIN val
    PROVE  Spelled(val)[i] = Part(val[i].base, val[i].n, Canonical(val[i].word), val[i].sign)
<1>1. PICK base, n, word, sign : val[i] = [base |-> base, n |-> n, word |-> word, sign |-> sign]
  BY PartFields
<1>2. Spelled(val)[i] = [val[i] EXCEPT !.word = Canonical(@)]
  BY DEF Spelled
<1>3. [val[i] EXCEPT !.word = Canonical(@)] = Part(base, n, Canonical(word), sign)
  BY <1>1 DEF Part
<1>4. QED
  BY <1>1, <1>2, <1>3

\* And one as it is compared.
LEMMA PlainPart ==
    ASSUME NEW p \in Parts
    PROVE  [p EXCEPT !.base = 0, !.word = Canonical(@)] = Part(0, p.n, Canonical(p.word), p.sign)
<1>1. PICK base, n, word, sign : p = [base |-> base, n |-> n, word |-> word, sign |-> sign]
  BY PartFields
<1>2. PICK q : q = [p EXCEPT !.base = 0]
  OBVIOUS
<1>3. q = [base |-> 0, n |-> n, word |-> word, sign |-> sign]
  BY <1>1, <1>2
<1>4. [p EXCEPT !.base = 0, !.word = Canonical(@)] = [q EXCEPT !.word = Canonical(word)]
  <2>1. p.word = word
    BY <1>1
  <2>2. [p EXCEPT !.base = 0, !.word = Canonical(@)] = [[p EXCEPT !.base = 0] EXCEPT !.word = Canonical(p.word)]
    OBVIOUS
  <2>3. QED
    BY <1>2, <2>1, <2>2
<1>5. QED
  BY <1>1, <1>3, <1>4 DEF Part

\* Spelling what is spelled does not change it, and is no difference to a reader.
LEMMA SpelledTwice ==
    ASSUME NEW val \in Seq(Parts)
    PROVE  Spelled(Spelled(val)) = Spelled(val) /\ Plain(Spelled(val)) = Plain(val)
<1>1. \A w : Canonical(Canonical(w)) = Canonical(w)
  BY DEF Canonical
<1>2. PICK v \in Seq(Parts) : v = Spelled(val)
  BY SpelledType
<1>3. DOMAIN v = DOMAIN val
  BY <1>2, SpelledType
<1>4. ASSUME NEW i \in DOMAIN val
      PROVE  /\ [v[i] EXCEPT !.word = Canonical(@)] = v[i]
             /\ [v[i] EXCEPT !.base = 0, !.word = Canonical(@)] = [val[i] EXCEPT !.base = 0, !.word = Canonical(@)]
  <2>1. PICK base, n, word, sign : val[i] = [base |-> base, n |-> n, word |-> word, sign |-> sign]
    BY PartFields
  <2>2. v[i] = [base |-> base, n |-> n, word |-> Canonical(word), sign |-> sign]
    <3>1. v[i] = Part(val[i].base, val[i].n, Canonical(val[i].word), val[i].sign)
      BY <1>2, SpelledPart
    <3>2. QED
      BY <2>1, <3>1 DEF Part
  <2>3. v[i] = Part(base, n, Canonical(word), sign) /\ v[i] \in Parts
    BY <1>2, <1>3, <2>2 DEF Part
  <2>4. [v[i] EXCEPT !.word = Canonical(@)] = v[i]
    BY <1>1, <2>2
  <2>5. /\ [v[i] EXCEPT !.base = 0, !.word = Canonical(@)] = Part(0, v[i].n, Canonical(v[i].word), v[i].sign)
        /\ [val[i] EXCEPT !.base = 0, !.word = Canonical(@)] = Part(0, val[i].n, Canonical(val[i].word), val[i].sign)
    <3>1. \A p \in Parts : [p EXCEPT !.base = 0, !.word = Canonical(@)] = Part(0, p.n, Canonical(p.word), p.sign)
      BY PlainPart
    <3>2. v[i] \in Parts /\ val[i] \in Parts
      BY <2>3
    <3>3. QED
      BY <3>1, <3>2
  <2>6. v[i].n = val[i].n /\ v[i].sign = val[i].sign /\ Canonical(v[i].word) = Canonical(val[i].word)
    BY <1>1, <2>1, <2>2
  <2>7. QED
    BY <2>4, <2>5, <2>6
<1>5. Spelled(v) = v
  <2>1. PICK u \in Seq(Parts) : u = Spelled(v)
    BY SpelledType
  <2>2. DOMAIN u = DOMAIN v /\ u = [i \in DOMAIN u |-> u[i]]
    BY <2>1, SpelledType DEF Spelled
  <2>3. \A i \in DOMAIN v : u[i] = v[i]
    BY <1>3, <1>4, <2>1, SpelledType
  <2>4. u = v
    BY <2>2, <2>3, SameParts
  <2>5. QED
    BY <2>1, <2>4
<1>6. Plain(v) = Plain(val)
  BY <1>3, <1>4 DEF Plain
<1>7. QED
  BY <1>2, <1>5, <1>6

\* A match that was read is no other than the one that was meant, and would be
\* written in the same way.
SameMatch(n, m) ==
    n.of = m.of /\ Plain(n.val) = Plain(m.val) /\ Marshals(n) /\ Written(n) = Written(m)

\* A match of numbers that is read as itself.
LEMMA SameNumbers ==
    ASSUME NEW m, Constructed(m), Marshals(m), NEW v, v = m.val
    PROVE  SameMatch(Match(m.of, v), m)
<1>1. m = [of |-> m.of, val |-> m.val]
  BY DEF Constructed
<1>2. PICK n : n = Match(m.of, v)
  OBVIOUS
<1>3. n = m
  BY <1>1, <1>2 DEF Match
<1>4. QED
  BY <1>2, <1>3 DEF SameMatch

\* A match of words that is read as they are spelled.
LEMMA SameWords ==
    ASSUME NEW m, Constructed(m), Marshals(m), NEW v, v = Spelled(m.val),
           m.of \in LinkKeys \cup HardwareKeys \cup IPv4Keys \cup IPv6Keys \cup FlagKeys
    PROVE  SameMatch(Match(m.of, v), m) /\ Written(m) = Spelled(m.val)
<1>1. PICK key : key = m.of
  OBVIOUS
<1>2. PICK val \in Seq(Parts) : val = m.val
  BY DEF Constructed
<1>3. key \notin MaskedKeys \cup PortKeys \cup DecimalKeys \cup VlanKeys \cup {"dl_type", "arp_op", "ARPOperation"}
  <2>1. key \notin MaskedKeys \cup PortKeys \cup DecimalKeys \cup VlanKeys \cup {"dl_type", "arp_op"}
    BY <1>1, Classes
  <2>2. key # "ARPOperation"
    BY <1>1 DEF LinkKeys, HardwareKeys, IPv4Keys, IPv6Keys, FlagKeys
  <2>3. QED
    BY <2>1, <2>2
<1>4. key # "dl_vlan" /\ key # "dl_vlan_pcp" /\ key # "ipv6_label"
  BY <1>3 DEF VlanKeys, MaskedKeys
<1>5. PICK n : n = Match(key, v)
  OBVIOUS
<1>6. n.of = key /\ n.val = v
  BY <1>5 DEF Match
<1>7. v \in Seq(Parts) /\ DOMAIN v = DOMAIN val /\ Len(v) = Len(val) /\ Spelled(v) = v /\ Plain(v) = Plain(val)
  BY <1>2, SpelledType, SpelledTwice
<1>8. Written(m) = v /\ Written(n) = v
  BY <1>1, <1>2, <1>3, <1>4, <1>6, <1>7 DEF Written
<1>9. \A i \in DOMAIN val : v[i].word = Canonical(val[i].word)
  <2>1. ASSUME NEW i \in DOMAIN val PROVE v[i].word = Canonical(val[i].word)
    <3>1. v[i] = Part(val[i].base, val[i].n, Canonical(val[i].word), val[i].sign)
      BY <1>2, SpelledPart
    <3>2. QED
      BY <3>1 DEF Part
  <2>2. QED
    BY <2>1
<1>10. Marshals(n)
  <2>1. /\ key \in LinkKeys     => \A i \in DOMAIN v : IsMac(v[i].word)
        /\ key \in HardwareKeys => IsMac(v[1].word)
        /\ key \in IPv4Keys     => v[1].word \in {"ip4", "net4"}
        /\ key \in IPv6Keys     => v[1].word \in {"ip6", "IP6", "net6"}
    <3>1. \A x : IsMac(x) => IsMac(Canonical(x))
      BY DEF IsMac, Canonical
    <3>2. /\ \A x \in {"ip4", "net4"} : Canonical(x) \in {"ip4", "net4"}
          /\ \A x \in {"ip6", "IP6", "net6"} : Canonical(x) \in {"ip6", "IP6", "net6"}
      BY DEF Canonical
    <3>3. key \in HardwareKeys \cup IPv4Keys \cup IPv6Keys => 1 \in DOMAIN val
      <4>1. key \in HardwareKeys \cup IPv4Keys \cup IPv6Keys => Len(val) = 1
        BY <1>1, <1>2 DEF Constructed
      <4>2. QED
        BY <4>1, OnePart
    <3>4. /\ key \in LinkKeys     => \A i \in DOMAIN val : IsMac(val[i].word)
          /\ key \in HardwareKeys => IsMac(val[1].word)
          /\ key \in IPv4Keys     => val[1].word \in {"ip4", "net4"}
          /\ key \in IPv6Keys     => val[1].word \in {"ip6", "IP6", "net6"}
      BY <1>1, <1>2 DEF Marshals
    <3>5. CASE key \in LinkKeys
      <4>1. \A i \in DOMAIN v : IsMac(v[i].word)
        BY <1>7, <1>9, <3>1, <3>4, <3>5
      <4>2. QED
        BY <3>5, <4>1, Classes
    <3>6. CASE key \in HardwareKeys
      <4>1. IsMac(v[1].word)
        BY <1>9, <3>1, <3>3, <3>4, <3>6
      <4>2. QED
        BY <3>6, <4>1, Classes
    <3>7. CASE key \in IPv4Keys
      <4>1. v[1].word \in {"ip4", "net4"}
        BY <1>9, <3>2, <3>3, <3>4, <3>7
      <4>2. QED
        BY <3>7, <4>1, Classes
    <3>8. CASE key \in IPv6Keys
      <4>1. v[1].word \in {"ip6", "IP6", "net6"}
        BY <1>9, <3>2, <3>3, <3>4, <3>8
      <4>2. QED
        BY <3>8, <4>1, Classes
    <3>9. QED
      BY <3>5, <3>6, <3>7, <3>8
  <2>2. QED
    BY <1>3, <1>4, <1>6, <2>1 DEF Marshals
<1>11. SameMatch(n, m)
  BY <1>1, <1>2, <1>6, <1>7, <1>8, <1>10 DEF SameMatch
<1>12. QED
  BY <1>1, <1>2, <1>5, <1>8, <1>11

\* Words are read as they are spelled.
LEMMA WordReread ==
    ASSUME NEW m, Constructed(m), Marshals(m),
           m.of \in LinkKeys \cup HardwareKeys \cup IPv4Keys \cup IPv6Keys
    PROVE  Parses(m.of, Written(m)) /\ ReadValue(m.of, Written(m)) = Spelled(m.val)
<1>1. PICK key : key = m.of
  OBVIOUS
<1>2. PICK val \in Seq(Parts) : val = m.val
  BY DEF Constructed
<1>3. PICK w \in Seq(Parts) : w = Spelled(val)
  BY SpelledType
<1>4. Written(m) = w
  BY <1>2, <1>3, SameWords
<1>5. key \notin MaskedKeys \cup PortKeys \cup DecimalKeys \cup VlanKeys \cup FlagKeys \cup {"dl_type", "arp_op"}
  BY <1>1, Classes
<1>6. CASE key \in HardwareKeys
  <2>1. Len(val) = 1
    BY <1>1, <1>2, <1>6 DEF Constructed
  <2>2. 1 \in DOMAIN val /\ Len(w) = 1
    BY <1>3, <2>1, OnePart, SpelledType
  <2>3. PICK word : word = val[1].word
    OBVIOUS
  <2>4. IsMac(word)
    BY <1>1, <1>2, <1>6, <2>3 DEF Marshals
  <2>5. w[1].word = Canonical(word)
    <3>1. w[1] = Part(val[1].base, val[1].n, Canonical(val[1].word), val[1].sign)
      BY <1>3, <2>2, SpelledPart
    <3>2. QED
      BY <2>3, <3>1 DEF Part
  <2>6. ParsesMac(w[1].word)
    BY <2>4, <2>5 DEF ParsesMac, IsMac, Canonical
  <2>7. Parses(key, w)
    BY <1>5, <1>6, <2>2, <2>6 DEF Parses, FlagKeys
  <2>8. ReadValue(key, w) = Spelled(w)
    BY <1>6, ReadValueCases
  <2>9. Spelled(w) = w
    BY <1>3, SpelledTwice
  <2>10. QED
    BY <1>1, <1>2, <1>3, <1>4, <2>7, <2>8, <2>9
<1>7. CASE key \notin HardwareKeys
  <2>1. Parses(key, w)
    BY <1>5, <1>7 DEF Parses, FlagKeys
  <2>2. ReadValue(key, w) = w
    BY <1>1, <1>7, ReadValueCases
  <2>3. QED
    BY <1>1, <1>2, <1>3, <1>4, <2>1, <2>2
<1>8. QED
  BY <1>6, <1>7

\* So are flags, if there are any.
LEMMA FlagReread ==
    ASSUME NEW m, Constructed(m), Marshals(m), ~MisreadMatch(m), m.of \in FlagKeys
    PROVE  Parses(m.of, Written(m)) /\ ReadValue(m.of, Written(m)) = Spelled(m.val)
<1>1. PICK key : key = m.of
  OBVIOUS
<1>2. PICK val \in Seq(Parts) : val = m.val
  BY DEF Constructed
<1>3. PICK w \in Seq(Parts) : w = Spelled(val)
  BY SpelledType
<1>4. Written(m) = w
  BY <1>2, <1>3, SameWords
<1>5. key \notin MaskedKeys \cup PortKeys \cup DecimalKeys \cup VlanKeys \cup HardwareKeys \cup {"dl_type", "arp_op"}
  BY <1>1, Classes
<1>6. Len(w) = Len(val) /\ DOMAIN w = DOMAIN val
  BY <1>3, SpelledType
<1>7. ASSUME NEW i \in DOMAIN val PROVE w[i].base = val[i].base /\ w[i].sign = val[i].sign
  <2>1. w[i] = Part(val[i].base, val[i].n, Canonical(val[i].word), val[i].sign)
    BY <1>3, SpelledPart
  <2>2. QED
    BY <2>1 DEF Part
<1>8. Parses(key, w) /\ (key = "ct_state" => \E i \in DOMAIN w : w[i].sign # Empty)
  <2>1. CASE \A i \in DOMAIN val : IsFlag(val[i])
    <3>1. \A i \in DOMAIN w : w[i].sign # Empty
      BY <1>6, <1>7, <2>1 DEF IsFlag, Empty
    <3>2. 1 \in DOMAIN w
      <4>1. Len(val) \in Nat /\ val # <<>> /\ DOMAIN val = 1..Len(val)
        BY <1>2 DEF MisreadMatch
      <4>2. Len(val) # 0
        BY <4>1
      <4>3. QED
        BY <1>6, <4>1, <4>2
    <3>3. key = "tcp_flags" => ParsesFlags(w)
      <4>1. SUFFICES ASSUME key = "tcp_flags" PROVE ParsesFlags(w)
        OBVIOUS
      <4>2. ASSUME NEW i \in DOMAIN w PROVE w[i].base = 0 /\ w[i].word \notin {"ns", Empty}
        <5>1. PICK q : q = val[i]
          OBVIOUS
        <5>2. q = [base |-> 0, n |-> 0, word |-> q.word, sign |-> q.sign]
          BY <1>6, <2>1, <5>1 DEF IsFlag, Signed, Part
        <5>3. q.base = 0
          BY <5>2
        <5>4. q.word \notin {"ns", Empty}
          BY <1>1, <1>2, <1>6, <4>1, <5>1, <5>3 DEF MisreadMatch
        <5>5. w[i] = Part(q.base, q.n, Canonical(q.word), q.sign)
          BY <1>3, <1>6, <5>1, SpelledPart
        <5>6. w[i].word = Canonical(q.word) /\ w[i].base = q.base
          BY <5>5 DEF Part
        <5>7. QED
          BY <5>3, <5>4, <5>6 DEF Canonical, Empty
      <4>3. Without(w, "ns") = 0 /\ Without(w, Empty) = 0
        <5>1. {i \in DOMAIN w : w[i].word = "ns"} = {} /\ {i \in DOMAIN w : w[i].word = Empty} = {}
          BY <4>2
        <5>2. QED
          BY <5>1, FS_EmptySet DEF Without
      <4>4. PICK n \in Nat : n = Len(w)
        OBVIOUS
      <4>5. Characters(w) = 4 * n
        BY <3>1, <3>2, <4>3, <4>4 DEF Characters
      <4>6. (4 * n) % 4 = 0
        OBVIOUS
      <4>7. QED
        BY <4>2, <4>5, <4>6 DEF ParsesFlags
    <3>4. QED
      BY <1>5, <3>1, <3>2, <3>3 DEF Parses
  <2>2. CASE key = "tcp_flags" /\ Len(val) = 1 /\ val[1] = Dec(val[1].n)
    <3>1. 1 \in DOMAIN val
      BY <2>2, OnePart
    <3>2. PICK n : n = val[1].n
      OBVIOUS
    <3>3. val[1].base = 10
      BY <2>2, <3>2 DEF Dec, Part
    <3>4. w[1].base = 10 /\ Len(w) = 1
      BY <1>6, <1>7, <2>2, <3>1, <3>3
    <3>5. ParsesFlags(w)
      BY <3>4 DEF ParsesFlags
    <3>6. QED
      BY <1>5, <2>2, <3>5 DEF Parses
  <2>3. QED
    BY <1>1, <1>2, <2>1, <2>2 DEF Constructed
<1>9. ReadValue(key, w) = w
  <2>1. CASE key = "ct_state"
    <3>1. ReadValue(key, w) = CtState(w)
      BY <2>1, ReadValueCases
    <3>2. w # <<>>
      BY <1>8, <2>1
    <3>3. QED
      BY <1>8, <2>1, <3>1, <3>2 DEF CtState
  <2>2. CASE key = "tcp_flags"
    BY <2>2, ReadValueCases
  <2>3. QED
    BY <1>1, <2>1, <2>2 DEF FlagKeys
<1>10. QED
  BY <1>1, <1>2, <1>3, <1>4, <1>8, <1>9

\* A match of any type that marshals and is not one of the misread is read as it
\* was meant (match.go, matchparser.go:28-574).
THEOREM MatchReread ==
    ASSUME NEW m, Constructed(m), Marshals(m), ~MisreadMatch(m)
    PROVE  /\ m.of \in KnownKeys \ {"in_port"} /\ MatchMatcher(m) = Matcher(m.of, Written(m))
           /\ Parses(m.of, Written(m)) /\ SameMatch(MatchOf(m.of, Written(m)), m)
<1>1. PICK key : key = m.of
  OBVIOUS
<1>2. key \in KnownKeys \ {"tun_src", "tun_dst", "in_port"}
  BY <1>1 DEF MisreadMatch
<1>3. Kind(key) = key
  BY <1>1, <1>2 DEF Kind, Constructed
<1>4. MatchMatcher(m) = Matcher(key, Written(m))
  <2>1. key # "dec_ttl" /\ key # "ARPOperation"
    BY <1>2 DEF KnownKeys, DecimalKeys, MaskedKeys, TciKeys, ByteKeys, IntKeys, PortKeys, VlanKeys,
                LinkKeys, HardwareKeys, IPv4Keys, IPv6Keys, FlagKeys
  <2>2. QED
    BY <1>1, <2>1 DEF MatchMatcher, KeyOf
<1>5. PICK v : v = ReadValue(key, Written(m))
  OBVIOUS
<1>6. MatchOf(key, Written(m)) = Match(key, v)
  BY <1>3, <1>5 DEF MatchOf
<1>7. Parses(key, Written(m)) /\ SameMatch(Match(key, v), m)
  <2>1. CASE key \in DecimalKeys
    <3>1. key \in IntKeys \cup {"conj_id"} => m.val[1].n <= MaxOf(key)
      <4>1. SUFFICES ASSUME key \in IntKeys \cup {"conj_id"} PROVE m.val[1].n <= MaxOf(key)
        OBVIOUS
      <4>2. PICK n, max : n = m.val[1].n /\ max = MaxOf(key)
        OBVIOUS
      <4>3. ~(n > max)
        BY <1>1, <4>1, <4>2 DEF MisreadMatch
      <4>4. n \in Int
        <5>1. CASE key \in IntKeys
          <6>1. Len(m.val) = 1 /\ m.val \in Seq(Parts)
            BY <1>1, <5>1 DEF Constructed
          <6>2. QED
            BY <4>2, <6>1, PartTypes
        <5>2. CASE key = "conj_id"
          <6>1. KeyOf(key) \in NumberKeys \ (MaskedKeys \cup PortKeys)
            BY <5>2 DEF KeyOf, NumberKeys, MaskedKeys, TciKeys, PortKeys
          <6>2. Len(m.val) = 1 /\ m.val \in Seq(Parts)
            BY <1>1, <6>1 DEF Constructed
          <6>3. QED
            BY <4>2, <6>2, PartTypes
        <5>3. QED
          BY <4>1, <5>1, <5>2
      <4>5. max \in Int
        BY <4>2, WideAssumption DEF MaxOf
      <4>6. QED
        BY <4>2, <4>3, <4>4, <4>5
    <3>2. QED
      BY <1>1, <1>2, <1>5, <2>1, <3>1, DecimalReread, SameNumbers
  <2>2. CASE key \in {"arp_op", "dl_type"}
    BY <1>1, <1>5, <2>2, TypeReread, SameNumbers
  <2>3. CASE key \in VlanKeys
    BY <1>1, <1>5, <2>3, VlanReread, SameNumbers
  <2>4. CASE key \in MaskedKeys
    BY <1>1, <1>5, <2>4, MaskedReread, SameNumbers
  <2>5. CASE key \in PortKeys
    BY <1>1, <1>5, <2>5, PortReread, SameNumbers
  <2>6. CASE key \in LinkKeys \cup HardwareKeys \cup IPv4Keys \cup IPv6Keys
    BY <1>1, <1>5, <2>6, WordReread, SameWords
  <2>7. CASE key \in FlagKeys
    BY <1>1, <1>5, <2>7, FlagReread, SameWords
  <2>8. QED
    BY <1>2, <2>1, <2>2, <2>3, <2>4, <2>5, <2>6, <2>7 DEF KnownKeys
<1>8. QED
  BY <1>1, <1>2, <1>4, <1>6, <1>7

-----------------------------------------------------------------------------
(* Written actions are where the parser of actions looks for them *)

\* The first i of a sequence.
Upto(s, i) == SubSeq(s, 1, i)

\* They are what the first of them and the next one are.
LEMMA PlaceByPlace ==
    ASSUME NEW T, NEW s \in Seq(T)
    PROVE  /\ Upto(s, 0) = <<>> /\ Upto(s, Len(s)) = s
           /\ \A i \in 0..Len(s) : Upto(s, i) \in Seq(T) /\ Len(Upto(s, i)) = i
           /\ \A i \in 1..Len(s) : s[i] \in T /\ Upto(s, i) = Append(Upto(s, i - 1), s[i])
<1>1. Len(s) \in Nat
  OBVIOUS
<1>2. SubSeq(s, 1, 0) = <<>> /\ SubSeq(s, 1, Len(s)) = s
  OBVIOUS
<1>3. ASSUME NEW i \in 1..Len(s) PROVE s[i] \in T /\ SubSeq(s, 1, i) = Append(SubSeq(s, 1, i - 1), s[i])
  OBVIOUS
<1>4. ASSUME NEW i \in 0..Len(s) PROVE SubSeq(s, 1, i) \in Seq(T) /\ Len(SubSeq(s, 1, i)) = i
  OBVIOUS
<1>5. QED
  BY <1>2, <1>3, <1>4 DEF Upto

\* The first of two sequences that are concatenated.
LEMMA PlacesOfTwo ==
    ASSUME NEW T, NEW s \in Seq(T), NEW t \in Seq(T)
    PROVE  /\ \A i \in 0..Len(t) : Upto(s \o t, Len(s) + i) = s \o Upto(t, i)
           /\ \A i \in 0..Len(s) : Upto(s \o t, i) = Upto(s, i)
<1>1. ASSUME NEW i \in 0..Len(t) PROVE SubSeq(s \o t, 1, Len(s) + i) = s \o SubSeq(t, 1, i)
  OBVIOUS
<1>2. ASSUME NEW i \in 0..Len(s) PROVE SubSeq(s \o t, 1, i) = SubSeq(s, 1, i)
  OBVIOUS
<1>3. QED
  BY <1>1, <1>2 DEF Upto

\* The order of parentheses and commas, told by the first of a text.
LEMMA InOrder ==
    ASSUME NEW s
    PROVE  /\ Balanced(s) <=> Height(s) = 0 /\ \A j \in DOMAIN s : Height(Upto(s, j)) >= 0
           /\ CommasInside(s) <=> \A j \in DOMAIN s : s[j] = Comma => Height(Upto(s, j)) > 0
BY DEF Balanced, CommasInside, Upto

\* What a token adds to the height.
LEMMA HeightOf ==
    ASSUME NEW s \in Seq(Parts)
    PROVE  /\ Height(s) \in Int
           /\ Height(Append(s, Open)) = Height(s) + 1 /\ Height(Append(s, Close)) = Height(s) - 1
           /\ \A t \in Parts : t # Open /\ t # Close => Height(Append(s, t)) = Height(s)
<1>1. Height(s) \in Int
  BY Punctuation, HeightOfMore
<1>2. PICK h \in Int : h = Height(s)
  BY <1>1
<1>3. \A t \in Parts : Height(Append(s, t)) = h + (IF t = Open THEN 1 ELSE IF t = Close THEN -1 ELSE 0)
  BY <1>2, HeightOfMore
<1>4. Height(Append(s, Open)) = h + 1
  BY <1>3, Punctuation
<1>5. Height(Append(s, Close)) = h + -1
  BY <1>3, Punctuation
<1>6. \A t \in Parts : t # Open /\ t # Close => Height(Append(s, t)) = h
  BY <1>3
<1>7. QED
  BY <1>2, <1>4, <1>5, <1>6

\* Two texts are as high as the one and the other.
LEMMA HeightOfTwo ==
    ASSUME NEW s \in Seq(Parts), NEW t \in Seq(Parts)
    PROVE  Height(s \o t) = Height(s) + Height(t)
<1> DEFINE S == {i \in 0..Len(t) : Height(s \o Upto(t, i)) = Height(s) + Height(Upto(t, i))}
<1>1. Len(t) \in Nat /\ s \o <<>> = s
  OBVIOUS
<1>2. Height(s) \in Int
  BY HeightOf
<1>3. 0 \in S
  <2>1. PICK e : e = Upto(t, 0)
    OBVIOUS
  <2>2. e = <<>>
    BY <2>1, PlaceByPlace
  <2>3. s \o e = s /\ Height(e) = 0
    BY <1>1, <2>2, HeightOfNothing
  <2>4. Height(s \o e) = Height(s) + Height(e)
    BY <1>2, <2>3
  <2>5. QED
    BY <1>1, <2>1, <2>4
<1>4. ASSUME NEW i \in 1..Len(t), i - 1 \in S PROVE i \in S
  <2>1. PICK u \in Seq(Parts) : u = Upto(t, i - 1)
    <3>1. i - 1 \in 0..Len(t)
      BY <1>1
    <3>2. QED
      BY <3>1, PlaceByPlace
  <2>2. PICK x \in Parts : x = t[i]
    BY PlaceByPlace
  <2>3. PICK v : v = Append(u, x)
    OBVIOUS
  <2>4. PICK su \in Seq(Parts) : su = s \o u
    BY ConcatProperties
  <2>5. s \o v = Append(su, x)
    BY <2>3, <2>4
  <2>6. Height(su) = Height(s) + Height(u)
    BY <1>4, <2>1, <2>4
  <2>7. PICK d \in Int : \A w \in Seq(Parts) : Height(Append(w, x)) = Height(w) + d
    <3>1. CASE x = Open
      BY <3>1, HeightOf
    <3>2. CASE x = Close
      <4>1. ASSUME NEW w \in Seq(Parts) PROVE Height(Append(w, x)) = Height(w) + -1
        <5>1. Height(w) \in Int /\ Height(Append(w, x)) = Height(w) - 1
          BY <3>2, HeightOf
        <5>2. QED
          BY <5>1
      <4>2. QED
        BY <4>1
    <3>3. CASE x # Open /\ x # Close
      <4>1. ASSUME NEW w \in Seq(Parts) PROVE Height(Append(w, x)) = Height(w) + 0
        <5>1. Height(w) \in Int /\ Height(Append(w, x)) = Height(w)
          BY <3>3, HeightOf
        <5>2. QED
          BY <5>1
      <4>2. QED
        BY <4>1
    <3>4. QED
      BY <3>1, <3>2, <3>3
  <2>8. PICK p \in Int, q \in Int : p = Height(s) /\ q = Height(u)
    BY <1>2, HeightOf
  <2>9. Height(v) = q + d
    BY <2>3, <2>7, <2>8
  <2>10. Height(s \o v) = p + q + d
    BY <2>5, <2>6, <2>7, <2>8
  <2>11. Height(s \o v) = Height(s) + Height(v)
    BY <2>8, <2>9, <2>10
  <2>12. v = Upto(t, i)
    BY <2>1, <2>2, <2>3, PlaceByPlace
  <2>13. QED
    BY <1>1, <2>11, <2>12
<1>5. 0..Len(t) \subseteq S
  BY <1>1, <1>3, <1>4, CountTo
<1>6. PICK n : n = Len(t)
  OBVIOUS
<1>7. n \in 0..n /\ Upto(t, n) = t
  BY <1>1, <1>6, PlaceByPlace
<1>8. Height(s \o Upto(t, n)) = Height(s) + Height(Upto(t, n))
  BY <1>5, <1>6, <1>7
<1>9. QED
  BY <1>7, <1>8

\* Where there are no parentheses there is no height.
LEMMA Level ==
    ASSUME NEW s \in Seq(Parts), \A i \in DOMAIN s : s[i] # Open /\ s[i] # Close
    PROVE  Balanced(s)
<1> DEFINE S == {i \in 0..Len(s) : Height(Upto(s, i)) = 0}
<1>1. Len(s) \in Nat /\ DOMAIN s = 1..Len(s)
  OBVIOUS
<1>2. 0 \in S
  <2>1. PICK e : e = Upto(s, 0)
    OBVIOUS
  <2>2. e = <<>>
    BY <2>1, PlaceByPlace
  <2>3. Height(e) = 0
    BY <2>2, HeightOfNothing
  <2>4. QED
    BY <1>1, <2>1, <2>3
<1>3. ASSUME NEW i \in 1..Len(s), i - 1 \in S PROVE i \in S
  <2>1. PICK u \in Seq(Parts) : u = Upto(s, i - 1)
    <3>1. i - 1 \in 0..Len(s)
      BY <1>1
    <3>2. QED
      BY <3>1, PlaceByPlace
  <2>2. PICK x \in Parts : x = s[i]
    BY PlaceByPlace
  <2>3. PICK v : v = Append(u, x)
    OBVIOUS
  <2>4. v = Upto(s, i)
    BY <2>1, <2>2, <2>3, PlaceByPlace
  <2>5. x # Open /\ x # Close
    BY <1>1, <2>2
  <2>6. Height(v) = Height(u)
    BY <2>3, <2>5, HeightOf
  <2>7. Height(u) = 0
    BY <1>3, <2>1
  <2>8. QED
    BY <1>1, <2>4, <2>6, <2>7
<1>4. 0..Len(s) \subseteq S
  BY <1>1, <1>2, <1>3, CountTo
<1>5. \A i \in 0..Len(s) : Height(Upto(s, i)) = 0
  BY <1>4
<1>6. PICK n : n = Len(s)
  OBVIOUS
<1>7. n \in 0..n /\ Upto(s, n) = s
  BY <1>1, <1>6, PlaceByPlace
<1>8. Height(s) = 0
  BY <1>5, <1>6, <1>7
<1>9. \A j \in DOMAIN s : Height(Upto(s, j)) >= 0
  BY <1>1, <1>5
<1>10. QED
  BY <1>8, <1>9, InOrder

\* A written action is something, with its parentheses and commas in order.
Sound(s) == s \in Seq(Parts) /\ s # <<>> /\ Balanced(s) /\ CommasInside(s)

\* It is if there are none.
LEMMA PlainIsSound ==
    ASSUME NEW s \in Seq(Parts), s # <<>>, \A i \in DOMAIN s : s[i] \notin {Open, Close, Comma}
    PROVE  Sound(s)
BY Level DEF Sound, CommasInside

\* A word and a parenthesis.
LEMMA CallBegins ==
    ASSUME NEW w \in Parts, w \notin {Open, Close, Comma}
    PROVE  /\ <<w>> \in Seq(Parts) /\ <<w, Open>> \in Seq(Parts)
           /\ Height(<<w>>) = 0 /\ Height(<<w, Open>>) = 1
<1>1. PICK one : one = <<w>>
  OBVIOUS
<1>2. PICK x \in Parts : x = Open
  BY Punctuation
<1>3. PICK two : two = <<w, x>>
  OBVIOUS
<1>4. PICK e : e = <<>>
  OBVIOUS
<1>5. e \in Seq(Parts) /\ one \in Seq(Parts) /\ two \in Seq(Parts)
  BY <1>1, <1>3, <1>4
<1>6. one = Append(e, w)
  BY <1>1, <1>4
<1>7. two = Append(one, x)
  BY <1>1, <1>3
<1>8. Height(e) = 0
  BY <1>4, HeightOfNothing
<1>9. Height(one) = Height(e)
  BY <1>5, <1>6, HeightOf
<1>10. Height(two) = Height(one) + 1
  BY <1>2, <1>5, <1>7, HeightOf
<1>11. Height(one) = 0 /\ Height(two) = 1
  BY <1>8, <1>9, <1>10
<1>12. QED
  BY <1>1, <1>2, <1>3, <1>5, <1>11

\* It is if what is between parentheses is balanced.
LEMMA CallIsSound ==
    ASSUME NEW w \in Parts, w \notin {Open, Close, Comma}, NEW args \in Seq(Parts), Balanced(args)
    PROVE  Sound(<<w, Open>> \o args \o <<Close>>)
<1>1. PICK front \in Seq(Parts) : front = <<w, Open>>
  BY CallBegins
<1>2. PICK closing \in Parts : closing = Close
  BY Punctuation
<1>3. Len(front) = 2 /\ front[1] = w /\ Height(front) = 1
  <2>1. Height(front) = 1
    BY <1>1, CallBegins
  <2>2. QED
    BY <1>1, <2>1
<1>4. PICK s \in Seq(Parts) : s = front \o args
  BY <1>1, ConcatProperties
<1>5. PICK c \in Seq(Parts) : c = Append(s, closing)
  <2>1. Append(s, closing) \in Seq(Parts)
    OBVIOUS
  <2>2. QED
    BY <2>1
<1>6. PICK n \in Nat : n = Len(args)
  OBVIOUS
<1>7. Len(s) = n + 2 /\ s[1] = w
  <2>1. Len(front \o args) = Len(front) + Len(args)
    BY ConcatProperties
  <2>2. (front \o args)[1] = front[1]
    BY <1>3, <1>6, ConcatProperties
  <2>3. QED
    BY <1>3, <1>4, <1>6, <2>1, <2>2
<1>8. /\ Len(c) = n + 3 /\ DOMAIN c = 1..n + 3 /\ c[n + 3] = closing /\ c[1] = w
  BY <1>5, <1>7
<1>9. c = <<w, Open>> \o args \o <<Close>>
  <2>1. Append(s, closing) = s \o <<closing>>
    OBVIOUS
  <2>2. QED
    BY <1>1, <1>2, <1>4, <1>5, <2>1
<1>10. \A i \in 0..n : Height(Upto(args, i)) \in Nat /\ Upto(args, i) \in Seq(Parts)
  <2>1. ASSUME NEW i \in 0..n PROVE Height(Upto(args, i)) \in Nat /\ Upto(args, i) \in Seq(Parts)
    <3>1. PICK u \in Seq(Parts) : u = Upto(args, i)
      BY <1>6, PlaceByPlace
    <3>2. CASE i = 0
      <4>1. u = <<>>
        BY <3>1, <3>2, PlaceByPlace
      <4>2. Height(u) = 0
        BY <4>1, HeightOfNothing
      <4>3. QED
        BY <3>1, <4>2
    <3>3. CASE i \in 1..n
      <4>1. i \in DOMAIN args
        BY <1>6, <3>3
      <4>2. Height(u) >= 0
        BY <3>1, <4>1, InOrder
      <4>3. Height(u) \in Int
        BY HeightOf
      <4>4. QED
        BY <3>1, <4>2, <4>3
    <3>4. QED
      BY <3>2, <3>3
  <2>2. QED
    BY <2>1
<1>11. ASSUME NEW j \in 2..n + 2 PROVE Height(Upto(s, j)) > 0 /\ Height(Upto(s, j)) \in Int
  <2>1. PICK i \in 0..n : i = j - 2
    OBVIOUS
  <2>2. j = 2 + i
    BY <2>1
  <2>3. PICK u \in Seq(Parts) : u = Upto(args, i)
    BY <1>10
  <2>4. PICK h \in Nat : h = Height(u)
    BY <1>10, <2>3
  <2>5. Upto(s, j) = front \o u
    <3>1. \A l \in 0..Len(args) : Upto(front \o args, Len(front) + l) = front \o Upto(args, l)
      BY PlacesOfTwo
    <3>2. Upto(front \o args, Len(front) + i) = front \o Upto(args, i)
      BY <1>6, <3>1
    <3>3. QED
      BY <1>3, <1>4, <2>2, <2>3, <3>2
  <2>6. Height(front \o u) = Height(front) + Height(u)
    BY HeightOfTwo
  <2>7. Height(Upto(s, j)) = 1 + h
    BY <1>3, <2>4, <2>5, <2>6
  <2>8. QED
    BY <2>7
<1>12. Height(c) = 0
  <2>1. Height(front \o args) = Height(front) + Height(args)
    BY HeightOfTwo
  <2>2. Height(args) = 0
    BY InOrder
  <2>3. Height(s) = 1
    BY <1>3, <1>4, <2>1, <2>2
  <2>4. Height(Append(s, closing)) = Height(s) - 1
    BY <1>2, HeightOf
  <2>5. QED
    BY <1>5, <2>3, <2>4
<1>13. \A j \in 0..n + 2 : Upto(c, j) = Upto(s, j)
  <2>1. PICK end : end = <<closing>>
    OBVIOUS
  <2>2. end \in Seq(Parts) /\ c = s \o end
    BY <1>5, <2>1
  <2>3. \A j \in 0..Len(s) : Upto(s \o end, j) = Upto(s, j)
    BY <2>2, PlacesOfTwo
  <2>4. QED
    BY <1>7, <2>2, <2>3
<1>14. ASSUME NEW j \in DOMAIN c
       PROVE  /\ Height(Upto(c, j)) >= 0
              /\ c[j] = Comma => Height(Upto(c, j)) > 0
  <2>1. CASE j = 1
    <3>1. c[j] # Comma
      BY <1>8, <2>1
    <3>2. Upto(c, j) = <<w>>
      <4>1. 1 \in 1..Len(c) /\ 1 - 1 = 0
        BY <1>8
      <4>2. Upto(c, 1) = Append(Upto(c, 0), c[1]) /\ Upto(c, 0) = <<>>
        BY <4>1, PlaceByPlace
      <4>3. Upto(c, 1) = Append(<<>>, w)
        BY <1>8, <4>2
      <4>4. Append(<<>>, w) = <<w>>
        OBVIOUS
      <4>5. QED
        BY <2>1, <4>3, <4>4
    <3>3. Height(<<w>>) = 0
      BY CallBegins
    <3>4. Height(Upto(c, j)) = 0
      BY <3>2, <3>3
    <3>5. QED
      BY <3>1, <3>4
  <2>2. CASE j \in 2..n + 2
    <3>1. Upto(c, j) = Upto(s, j)
      BY <1>13, <2>2
    <3>2. Height(Upto(s, j)) > 0 /\ Height(Upto(s, j)) \in Int
      BY <1>11, <2>2
    <3>3. Height(Upto(c, j)) > 0 /\ Height(Upto(c, j)) \in Int
      BY <3>1, <3>2
    <3>4. QED
      BY <3>3
  <2>3. CASE j = n + 3
    <3>1. Upto(c, j) = c
      BY <1>8, <2>3, PlaceByPlace
    <3>2. c[j] # Comma
      BY <1>2, <1>8, <2>3, Punctuation
    <3>3. Height(Upto(c, j)) = 0
      BY <1>12, <3>1
    <3>4. QED
      BY <3>2, <3>3
  <2>4. QED
    BY <1>8, <2>1, <2>2, <2>3
<1>15. c # <<>>
  BY <1>8
<1>16. Sound(c)
  BY <1>12, <1>14, <1>15, InOrder DEF Sound
<1>17. QED
  BY <1>9, <1>16

\* An action that was read is no other than the one that was meant.
SameAction(b, a) == b.of = a.of /\ Plain(b.args) = Plain(a.args) /\ b.inner = a.inner
\* The text of an action is read as the action, and says "drop" only for it.
Reread(s, a) ==
    /\ Sound(s) /\ (s = <<Word("drop")>> => a.of = "drop")
    /\ \E b : ParseAction(s) = <<b>> /\ SameAction(b, a)

\* Words are different tokens if they are different.
LEMMA WordsDiffer == \A v, w : Word(v) = Word(w) => v = w
<1>1. ASSUME NEW v, NEW w, Word(v) = Word(w) PROVE v = w
  <2>1. Word(v).word = v /\ Word(w).word = w
    BY TokensDiffer
  <2>2. QED
    BY <1>1, <2>1
<1>2. QED
  BY <1>1

\* Parentheses and such are neither numbers nor addresses.
LEMMA PunctuationIs ==
    \A p \in {Open, Close, Comma, Slash, Arrow} : p.base = 0 /\ p.word \notin {"mac", "ip4", "MAC", "ip6", "IP6"}
BY TokensDiffer DEF Open, Close, Comma, Slash, Arrow

\* The words that actions begin with.
LEMMA Beginnings ==
    /\ Prefixed["mod_dl_dst"] = "mod_dl_dst:" /\ Prefixed["mod_dl_src"] = "mod_dl_src:"
    /\ Prefixed["mod_nw_dst"] = "mod_nw_dst:" /\ Prefixed["mod_nw_src"] = "mod_nw_src:"
    /\ Prefixed["mod_tp_dst"] = "mod_tp_dst:" /\ Prefixed["mod_tp_src"] = "mod_tp_src:"
    /\ Prefixed["mod_vlan_vid"] = "mod_vlan_vid:" /\ Prefixed["output"] = "output:"
    /\ Prefixed["resubmit_port"] = "resubmit:" /\ Prefixed["load"] = "load:"
    /\ Prefixed["set_field"] = "set_field:" /\ Prefixed["move"] = "move:"
    /\ DOMAIN Prefixed = {"mod_dl_dst", "mod_dl_src", "mod_nw_dst", "mod_nw_src", "mod_tp_dst", "mod_tp_src",
                          "mod_vlan_vid", "output", "output_field", "resubmit_port", "load", "set_field",
                          "move", "set_tunnel", "push", "pop"}
BY DEF Prefixed

\* No two of those that are scanned begin alike, nor as any other does.
LEMMA ScannedApart ==
    /\ \A k \in ScannedKinds, j \in ScannedKinds : Prefixed[k] = Prefixed[j] => k = j
    /\ \A k \in ScannedKinds : Prefixed[k] \notin
          {"ct", "conjunction", "resubmit", "resubmit:", "load:", "move:", "set_field:", "(", ")", ",", "drop"}
<1>1. ASSUME NEW k \in ScannedKinds
      PROVE  Prefixed[k] \notin
          {"ct", "conjunction", "resubmit", "resubmit:", "load:", "move:", "set_field:", "(", ")", ",", "drop"}
  BY Beginnings DEF ScannedKinds
<1>2. ASSUME NEW k \in ScannedKinds, NEW j \in ScannedKinds, Prefixed[k] = Prefixed[j] PROVE k = j
  BY <1>2, Beginnings DEF ScannedKinds
<1>3. QED
  BY <1>1, <1>2

\* A kind of action that is found at the first place, and one that is nowhere.
LEMMA WhereFirst ==
    ASSUME NEW s \in Seq(Parts), NEW kind
    PROVE  /\ Places(s, kind) = {} => Where(s, kind) = 0
           /\ 1 \in Places(s, kind) => Where(s, kind) = 1
<1>1. PICK n \in Nat : n = Where(s, kind)
  BY WhereType
<1>2. PICK places : places = Places(s, kind)
  OBVIOUS
<1>3. /\ n > 0 => n \in places
      /\ n = 0 => places = {}
      /\ \A j \in places : n <= j
  BY <1>1, <1>2, WhereType
<1>4. 1 \in places => n = 1
  BY <1>3
<1>5. QED
  BY <1>1, <1>2, <1>3, <1>4

\* Where actions are looked for.
LEMMA PlacesAre ==
    ASSUME NEW s
    PROVE  /\ Places(s, "ct") = {i \in DOMAIN s : Ct(s, i)}
           /\ Places(s, "resubmit") = {i \in DOMAIN s : Resubmit(s, i)}
           /\ Places(s, "resubmit_port") = {i \in DOMAIN s : /\ At(s, i, "resubmit:") /\ i < Len(s)
                                                              /\ s[i + 1].base = 10 /\ s[i + 1].n >= 0}
           /\ Places(s, "load") = {i \in DOMAIN s : Sides(s, i, "load:")}
           /\ Places(s, "move") = {i \in DOMAIN s : Sides(s, i, "move:")}
           /\ Places(s, "set_field") = {i \in DOMAIN s : Sides(s, i, "set_field:")}
BY Beginnings DEF Places

\* Actions that begin with a word are not found where there is no such word.
LEMMA Nowhere ==
    ASSUME NEW s \in Seq(Parts)
    PROVE  /\ (\A i \in DOMAIN s : s[i] # Word("ct")) => Where(s, "ct") = 0
           /\ (\A i \in DOMAIN s : s[i] # Open) => Where(s, "ct") = 0 /\ Where(s, "resubmit") = 0
           /\ (\A i \in DOMAIN s : s[i] # Word("resubmit:")) => Where(s, "resubmit_port") = 0
           /\ (\A i \in DOMAIN s : s[i] # Word("load:")) => Where(s, "load") = 0
           /\ (\A i \in DOMAIN s : s[i] # Word("move:")) => Where(s, "move") = 0
<1>1. (\A i \in DOMAIN s : s[i] # Word("ct")) => Places(s, "ct") = {}
  BY PlacesAre DEF Ct, At
<1>2. (\A i \in DOMAIN s : s[i] # Open) => Places(s, "ct") = {} /\ Places(s, "resubmit") = {}
  <2>1. SUFFICES ASSUME \A i \in DOMAIN s : s[i] # Word("(")
                 PROVE  Places(s, "ct") = {} /\ Places(s, "resubmit") = {}
    BY DEF Open
  <2>2. \A i \in DOMAIN s : ~At(s, i + 1, "(")
    BY <2>1 DEF At
  <2>3. \A i \in DOMAIN s : ~Ct(s, i) /\ ~Resubmit(s, i)
    BY <2>2 DEF Ct, Resubmit
  <2>4. QED
    BY <2>3, PlacesAre
<1>3. (\A i \in DOMAIN s : s[i] # Word("resubmit:")) => Places(s, "resubmit_port") = {}
  BY PlacesAre DEF At
<1>4. (\A i \in DOMAIN s : s[i] # Word("load:")) => Places(s, "load") = {}
  BY PlacesAre DEF Sides, At
<1>5. (\A i \in DOMAIN s : s[i] # Word("move:")) => Places(s, "move") = {}
  BY PlacesAre DEF Sides, At
<1>6. QED
  BY <1>1, <1>2, <1>3, <1>4, <1>5, WhereFirst

\* Spelling makes no token of another.
LEMMA SpelledTokens ==
    ASSUME NEW val \in Seq(Parts), NEW i \in DOMAIN val, NEW w, w \notin {"mac", "ip6", "MAC", "IP6"},
           Spelled(val)[i] = Word(w)
    PROVE  val[i] = Word(w)
<1>1. PICK base, n, word, sign : val[i] = [base |-> base, n |-> n, word |-> word, sign |-> sign]
  BY PartFields
<1>2. Spelled(val)[i] = [base |-> base, n |-> n, word |-> Canonical(word), sign |-> sign]
  <2>1. PICK p : p = Spelled(val)[i]
    OBVIOUS
  <2>2. p = Part(val[i].base, val[i].n, Canonical(val[i].word), val[i].sign)
    BY <2>1, SpelledPart
  <2>3. p = [base |-> base, n |-> n, word |-> Canonical(word), sign |-> sign]
    BY <1>1, <2>2 DEF Part
  <2>4. QED
    BY <2>1, <2>3
<1>3. base = 0 /\ n = 0 /\ Canonical(word) = w /\ sign = Empty
  BY <1>2 DEF Word, Part
<1>4. word = w
  BY <1>3 DEF Canonical
<1>5. QED
  BY <1>1, <1>3, <1>4 DEF Word, Part

\* Actions that are a word.
LEMMA TextReread ==
    ASSUME NEW a, ConstructedPlain(a), a.of \in TextActions \ {"all"}
    PROVE  Reread(PlainTokens(a), a)
<1>1. PICK of : of = a.of
  OBVIOUS
<1>2. PlainTokens(a) = <<Word(of)>>
  BY <1>1 DEF PlainTokens, TextActions
<1>3. of \in {"drop", "flood", "in_port", "local", "normal", "strip_vlan"}
  BY <1>1 DEF TextActions
<1>4. PICK p \in Parts : p = Word(of)
  BY <1>1, ActionNamesAssumption, PartsOf
<1>5. p.word = of
  BY <1>4, TokensDiffer
<1>6. PICK s : s = <<p>>
  OBVIOUS
<1>7. s \in Seq(Parts) /\ Len(s) = 1 /\ s[1] = p /\ DOMAIN s = {1} /\ s # <<>>
  BY <1>6
<1>8. Lower(of) = of
  BY <1>3 DEF Lower
<1>9. IsText(s)
  BY <1>1, <1>5, <1>7, <1>8 DEF IsText
<1>10. ParseAction(s) = <<Act(of, <<>>)>>
  BY <1>5, <1>7, <1>8, <1>9 DEF ParseAction
<1>11. a.args = <<>> /\ a.inner = <<>>
  BY DEF ConstructedPlain
<1>12. SameAction(Act(of, <<>>), a)
  BY <1>1, <1>11 DEF SameAction, Act
<1>13. Sound(s)
  <2>1. p \notin {Open, Close, Comma}
    BY <1>3, <1>4, WordsDiffer DEF Open, Close, Comma
  <2>2. QED
    BY <1>7, <2>1, PlainIsSound
<1>14. s = <<Word("drop")>> => of = "drop"
  <2>1. SUFFICES ASSUME s = <<Word("drop")>> PROVE of = "drop"
    OBVIOUS
  <2>2. s[1] = Word("drop")
    BY <2>1
  <2>3. QED
    BY <1>4, <1>7, <2>2, WordsDiffer
<1>15. QED
  BY <1>1, <1>2, <1>4, <1>6, <1>10, <1>12, <1>13, <1>14 DEF Reread

\* Actions that are scanned for what follows their word.
LEMMA ScannedReread ==
    ASSUME NEW a, ConstructedPlain(a), PlainMarshals(a), a.of \in ScannedKinds
    PROVE  Reread(PlainTokens(a), a)
<1>1. PICK of : of = a.of
  OBVIOUS
<1>2. of \in ScannedKinds /\ a.args \in Seq(Parts) /\ a.inner = <<>>
  BY <1>1 DEF ConstructedPlain
<1>3. PICK args \in Seq(Parts) : args = a.args
  BY <1>2
<1>4. Len(args) = 1
  BY <1>1, <1>3 DEF ConstructedPlain, ScannedKinds
<1>5. PICK arg \in Parts : arg = args[1]
  BY <1>4
<1>6. PICK spelled \in Seq(Parts) : spelled = Spelled(args)
  BY SpelledType
<1>7. Len(spelled) = 1 /\ 1 \in DOMAIN args /\ spelled[1] \in Parts
  <2>1. Len(spelled) = 1
    BY <1>4, <1>6, SpelledType
  <2>2. QED
    BY <1>4, <2>1, OnePart
<1>8. PICK p \in Parts : p = spelled[1]
  BY <1>7
<1>9. spelled = <<p>>
  BY <1>7, <1>8
<1>10. p = Part(arg.base, arg.n, Canonical(arg.word), arg.sign)
  BY <1>5, <1>6, <1>7, <1>8, SpelledPart
<1>11. p.base = arg.base /\ p.n = arg.n /\ p.word = Canonical(arg.word)
  BY <1>10 DEF Part
<1>12. PICK w : w = Prefixed[of]
  OBVIOUS
<1>13. w \in Names
  BY <1>2, <1>12, Beginnings, ActionNamesAssumption DEF ScannedKinds
<1>14. PICK begin \in Parts : begin = Word(w)
  BY <1>13, PartsOf
<1>15. PlainTokens(a) = <<begin>> \o spelled
  BY <1>1, <1>2, <1>3, <1>6, <1>12, <1>14 DEF PlainTokens, ScannedKinds, TextActions
<1>16. PICK s : s = <<begin, p>>
  OBVIOUS
<1>17. s = PlainTokens(a)
  BY <1>9, <1>15, <1>16
<1>18. s \in Seq(Parts) /\ Len(s) = 2 /\ s[1] = begin /\ s[2] = p /\ DOMAIN s = 1..2 /\ s # <<>> /\ Tail(s) = <<p>>
  BY <1>16
<1>19. /\ of \in {"mod_dl_dst", "mod_dl_src"} => ParsesMac(p.word) /\ p.word = "mac"
       /\ of \in {"mod_nw_dst", "mod_nw_src"} => p.word = "ip4"
       /\ of \in {"mod_tp_dst", "mod_tp_src"} => p.base = 10 /\ Within(p.n, 0, 65535)
       /\ of \in {"mod_vlan_vid", "output"}   => p.base = 10
  <2>1. CASE of \in {"mod_dl_dst", "mod_dl_src"}
    <3>1. IsMac(arg.word)
      BY <1>1, <1>3, <1>5, <2>1 DEF PlainMarshals
    <3>2. Canonical(arg.word) = "mac"
      BY <3>1 DEF IsMac, Canonical
    <3>3. QED
      BY <1>11, <2>1, <3>2 DEF ParsesMac, IsMac
  <2>2. CASE of \in {"mod_nw_dst", "mod_nw_src"}
    <3>1. arg.word = "ip4"
      BY <1>1, <1>3, <1>5, <2>2 DEF PlainMarshals
    <3>2. Canonical(arg.word) = "ip4"
      BY <3>1 DEF Canonical
    <3>3. QED
      BY <1>11, <2>2, <3>2
  <2>3. CASE of \in {"mod_tp_dst", "mod_tp_src", "mod_vlan_vid", "output"}
    <3>1. arg = Dec(arg.n) /\ (of \in {"mod_tp_dst", "mod_tp_src"} => Within(arg.n, 0, 65535))
      BY <1>1, <1>3, <1>5, <2>3 DEF ConstructedPlain
    <3>2. arg.base = 10
      BY <3>1 DEF Dec, Part
    <3>3. QED
      BY <1>11, <2>3, <3>1, <3>2
  <2>4. QED
    BY <1>2, <2>1, <2>2, <2>3 DEF ScannedKinds
<1>20. p \notin {Open, Close, Comma}
  <2>1. p.base = 10 \/ p.word \in {"mac", "ip4"}
    BY <1>2, <1>19 DEF ScannedKinds
  <2>2. p \in {Open, Close, Comma} => p.base = 0 /\ p.word \notin {"mac", "ip4"}
    BY PunctuationIs
  <2>3. QED
    BY <2>1, <2>2
<1>21. w \notin {"ct", "conjunction", "resubmit", "(", ")", ",", "drop"}
  BY <1>2, <1>12, ScannedApart
<1>22. begin \notin {Open, Close, Comma, Word("ct"), Word("drop")}
  BY <1>14, <1>21, WordsDiffer DEF Open, Close, Comma
<1>23. \A i \in DOMAIN s : s[i] \notin {Open, Close, Comma}
  BY <1>18, <1>20, <1>22
<1>24. Sound(s)
  BY <1>18, <1>23, PlainIsSound
<1>25. s # <<Word("drop")>>
  <2>1. SUFFICES ASSUME s = <<Word("drop")>> PROVE FALSE
    OBVIOUS
  <2>2. s[1] = Word("drop")
    BY <2>1
  <2>3. QED
    BY <1>18, <1>22, <2>2
<1>26. ~IsText(s)
  BY <1>18 DEF IsText
<1>27. Where(s, "ct") = 0
  BY <1>18, <1>23, Nowhere
<1>28. Scanned(s) = {of}
  <2>1. \A k \in ScannedKinds : At(s, 1, Prefixed[k]) <=> Word(Prefixed[k]) = Word(w)
    BY <1>14, <1>18 DEF At
  <2>2. \A k \in ScannedKinds : Word(Prefixed[k]) = Word(w) <=> k = of
    BY <1>2, <1>12, ScannedApart, WordsDiffer
  <2>3. QED
    BY <1>2, <2>1, <2>2 DEF Scanned
<1>29. Argument(s) = <<p>> /\ ScannedArg(of, <<p>>)
  <2>1. p # Space
    <3>1. Space.base = 0
      BY TokensDiffer DEF Space
    <3>2. Space.word \notin {"mac", "ip4"}
      <4>1. Space.word = " "
        BY TokensDiffer DEF Space
      <4>2. QED
        BY <4>1
    <3>3. p.base = 10 \/ p.word \in {"mac", "ip4"}
      BY <1>2, <1>19 DEF ScannedKinds
    <3>4. CASE p.base = 10
      BY <3>1, <3>4
    <3>5. CASE p.word \in {"mac", "ip4"}
      BY <3>2, <3>5
    <3>6. QED
      BY <3>3, <3>4, <3>5
  <2>2. {j \in 2..Len(s) : s[j] # Space} = {2}
    BY <1>18, <2>1
  <2>3. First({2}) = 2
    <3>1. {2} # {} /\ {2} \subseteq Nat
      OBVIOUS
    <3>2. First({2}) \in {2}
      BY <3>1, FirstIsFirst
    <3>3. QED
      BY <3>2
  <2>4. Run(s, 2) = {2}
    BY <1>18, <2>1 DEF Run
  <2>5. Farthest({2}) = 2
    <3>1. {2} \subseteq 1..2 /\ {2} # {} /\ 2 \in Nat
      OBVIOUS
    <3>2. Farthest({2}) \in {2}
      BY <3>1, FarthestIs
    <3>3. QED
      BY <3>2
  <2>6. SubSeq(s, 2, 2) = <<p>>
    <3>1. PICK u : u = SubSeq(s, 2, 2)
      OBVIOUS
    <3>2. u \in Seq(Parts) /\ Len(u) = 1 /\ u[1] = p
      BY <1>18, <3>1
    <3>3. PICK v : v = <<p>>
      OBVIOUS
    <3>4. v \in Seq(Parts) /\ Len(v) = 1 /\ v[1] = p
      BY <3>3
    <3>5. \A i \in 1..Len(u) : u[i] = v[i]
      BY <3>2, <3>4
    <3>6. u = v
      BY <3>2, <3>4, <3>5, SeqEqual
    <3>7. QED
      BY <3>1, <3>3, <3>6
  <2>7. Argument(s) = <<p>>
    <3>1. PICK from : from = First({j \in 2..Len(s) : s[j] # Space})
      OBVIOUS
    <3>2. from = 2
      BY <2>2, <2>3, <3>1
    <3>3. Argument(s) = IF from = 0 THEN <<>> ELSE SubSeq(s, from, Farthest(Run(s, from)))
      BY <3>1 DEF Argument
    <3>4. Argument(s) = SubSeq(s, 2, Farthest(Run(s, 2)))
      BY <3>2, <3>3
    <3>5. QED
      BY <2>4, <2>5, <2>6, <3>4
  <2>8. PICK t : t = <<p>>
    OBVIOUS
  <2>9. Len(t) = 1 /\ t[1] = p /\ t # <<>>
    BY <2>8
  <2>10. ScannedArg(of, t)
    BY <1>19, <2>9 DEF ScannedArg
  <2>11. QED
    BY <2>7, <2>8, <2>10
<1>30. PICK b : b = Act(of, Spelled(<<p>>))
  OBVIOUS
<1>31. ParseAction(s) = <<b>>
  <2>1. (CHOOSE k \in Scanned(s) : TRUE) = of
    BY <1>28
  <2>2. Scanned(s) # {} /\ ~(Where(s, "ct") > 0)
    BY <1>27, <1>28
  <2>3. PICK t : t = Argument(s)
    OBVIOUS
  <2>4. t[1] = p /\ ScannedArg(of, t)
    BY <1>29, <2>3
  <2>5. QED
    BY <1>26, <1>30, <2>1, <2>2, <2>3, <2>4 DEF ParseAction
<1>32. SameAction(b, a)
  <2>1. Spelled(spelled) = spelled /\ Plain(spelled) = Plain(args)
    BY <1>6, SpelledTwice
  <2>2. b.of = of /\ b.args = spelled /\ b.inner = <<>>
    BY <1>9, <1>30, <2>1 DEF Act
  <2>3. QED
    BY <1>1, <1>2, <1>3, <2>1, <2>2 DEF SameAction
<1>33. QED
  BY <1>17, <1>24, <1>25, <1>31, <1>32 DEF Reread

\* A port to resubmit to.
LEMMA ResubmitPortReread ==
    ASSUME NEW a, ConstructedPlain(a), PlainMarshals(a), a.of = "resubmit_port"
    PROVE  Reread(PlainTokens(a), a)
<1>1. PICK args \in Seq(Parts) : args = a.args
  BY DEF ConstructedPlain
<1>2. Len(args) = 1 /\ args[1] = Dec(args[1].n) /\ a.inner = <<>>
  BY <1>1 DEF ConstructedPlain
<1>3. PICK p \in Parts : p = args[1]
  BY <1>2, OnePart
<1>4. p.base = 10 /\ p.n >= 0
  <2>1. PICK n : n = p.n
    OBVIOUS
  <2>2. p = Dec(n)
    BY <1>2, <1>3, <2>1
  <2>3. p.base = 10
    BY <2>2 DEF Dec, Part
  <2>4. Within(p.n, 0, 16776959)
    BY <1>1, <1>3 DEF PlainMarshals
  <2>5. QED
    BY <2>3, <2>4 DEF Within
<1>5. args = <<p>>
  BY <1>2, <1>3, OnePart
<1>6. Spelled(args) = args
  <2>1. PICK u \in Seq(Parts) : u = Spelled(args)
    BY SpelledType
  <2>2. Len(u) = 1 /\ 1 \in DOMAIN args
    BY <1>2, <2>1, SpelledType, OnePart
  <2>3. u = <<u[1]>>
    BY <2>2, OnePart
  <2>4. u[1] = Part(p.base, p.n, Canonical(p.word), p.sign)
    BY <1>3, <2>1, <2>2, SpelledPart
  <2>5. PICK n : p = Dec(n)
    BY <1>2, <1>3
  <2>6. Canonical(Empty) = Empty
    BY DEF Canonical, Empty
  <2>7. u[1] = p
    BY <2>4, <2>5, <2>6 DEF Dec, Part
  <2>8. QED
    BY <1>5, <2>1, <2>3, <2>7
<1>7. PICK w \in Parts : w = Word("resubmit:")
  BY Beginnings, ActionNamesAssumption, PartsOf
<1>8. PICK s : s = <<w, p>>
  OBVIOUS
<1>9. s = PlainTokens(a)
  <2>1. PlainTokens(a) = <<Word("resubmit:")>> \o Spelled(a.args)
    BY Beginnings DEF PlainTokens, TextActions
  <2>2. PlainTokens(a) = <<w>> \o <<p>>
    BY <1>1, <1>5, <1>6, <1>7, <2>1
  <2>3. QED
    BY <1>8, <2>2
<1>10. s \in Seq(Parts) /\ Len(s) = 2 /\ s[1] = w /\ s[2] = p /\ DOMAIN s = 1..2 /\ s # <<>>
  BY <1>8
<1>11. p \notin {Open, Close, Comma} /\ w \notin {Open, Close, Comma, Word("drop")}
  <2>1. p \in {Open, Close, Comma} => p.base = 0
    BY PunctuationIs
  <2>2. p \notin {Open, Close, Comma}
    BY <1>4, <2>1
  <2>3. w \notin {Open, Close, Comma, Word("drop")}
    BY <1>7, WordsDiffer DEF Open, Close, Comma
  <2>4. QED
    BY <2>2, <2>3
<1>12. \A i \in DOMAIN s : s[i] \notin {Open, Close, Comma}
  BY <1>10, <1>11
<1>13. Sound(s)
  BY <1>10, <1>12, PlainIsSound
<1>14. s # <<Word("drop")>>
  <2>1. SUFFICES ASSUME s = <<Word("drop")>> PROVE FALSE
    OBVIOUS
  <2>2. s[1] = Word("drop")
    BY <2>1
  <2>3. QED
    BY <1>10, <1>11, <2>2
<1>15. ~IsText(s)
  BY <1>10 DEF IsText
<1>16. Where(s, "ct") = 0 /\ Where(s, "resubmit") = 0
  BY <1>10, <1>12, Nowhere
<1>17. Scanned(s) = {}
  BY <1>7, <1>10, ScannedApart, WordsDiffer DEF Scanned, At
<1>18. ~At(s, 1, "conjunction")
  BY <1>7, <1>10, WordsDiffer DEF At
<1>19. Where(s, "resubmit_port") = 1
  <2>1. At(s, 1, "resubmit:")
    BY <1>7, <1>10 DEF At
  <2>2. 1 \in Places(s, "resubmit_port")
    BY <1>4, <1>10, <2>1, PlacesAre
  <2>3. QED
    BY <1>10, <2>2, WhereFirst
<1>20. PICK b : b = Act("resubmit_port", <<p>>)
  OBVIOUS
<1>21. ParseAction(s) = <<b>>
  BY <1>10, <1>15, <1>16, <1>17, <1>18, <1>19, <1>20 DEF ParseAction
<1>22. SameAction(b, a)
  BY <1>1, <1>2, <1>5, <1>20 DEF SameAction, Act
<1>23. QED
  BY <1>9, <1>13, <1>14, <1>21, <1>22 DEF Reread

\* What is written between parentheses, place by place.
LEMMA CallPlaces ==
    ASSUME NEW w \in Parts, NEW opening \in Parts, NEW closing \in Parts, NEW args \in Seq(Parts),
           NEW n \in Nat, n = Len(args), NEW s, s = <<w, opening>> \o args \o <<closing>>
    PROVE  /\ s \in Seq(Parts) /\ Len(s) = n + 3 /\ DOMAIN s = 1..n + 3 /\ s # <<>>
           /\ s[1] = w /\ s[2] = opening /\ s[n + 3] = closing
           /\ \A i \in 1..n : s[i + 2] = args[i]
<1>1. PICK front : front = <<w, opening>>
  OBVIOUS
<1>2. front \in Seq(Parts) /\ Len(front) = 2 /\ front[1] = w /\ front[2] = opening
  BY <1>1
<1>3. PICK most \in Seq(Parts) : most = front \o args
  BY <1>2, ConcatProperties
<1>4. /\ Len(most) = n + 2 /\ most[1] = w /\ most[2] = opening
      /\ \A i \in 3..n + 2 : most[i] = args[i - 2]
  <2>1. Len(front \o args) = Len(front) + Len(args)
    BY <1>2, ConcatProperties
  <2>2. \A i \in 1..Len(front) + Len(args) :
           (front \o args)[i] = IF i <= Len(front) THEN front[i] ELSE args[i - Len(front)]
    BY <1>2, ConcatProperties
  <2>3. \A i \in 1..n + 2 : most[i] = IF i <= 2 THEN front[i] ELSE args[i - 2]
    <3>1. Len(front) = 2 /\ Len(args) = n /\ 2 + n = n + 2
      BY <1>2
    <3>2. \A i \in 1..2 + n : most[i] = IF i <= 2 THEN front[i] ELSE args[i - 2]
      BY <1>3, <2>2, <3>1
    <3>3. QED
      BY <3>1, <3>2
  <2>4. Len(most) = n + 2
    BY <1>2, <1>3, <2>1
  <2>5. most[1] = w /\ most[2] = opening
    <3>1. 1 \in 1..n + 2 /\ 2 \in 1..n + 2
      OBVIOUS
    <3>2. most[1] = front[1] /\ most[2] = front[2]
      BY <2>3, <3>1
    <3>3. QED
      BY <1>2, <3>2
  <2>6. ASSUME NEW i \in 3..n + 2 PROVE most[i] = args[i - 2]
    <3>1. i \in 1..n + 2 /\ ~(i <= 2)
      OBVIOUS
    <3>2. QED
      BY <2>3, <3>1
  <2>7. QED
    BY <2>4, <2>5, <2>6
<1>5. Append(most, closing) = most \o <<closing>>
  OBVIOUS
<1>6. s = Append(most, closing)
  BY <1>1, <1>3, <1>5
<1>7. /\ s \in Seq(Parts) /\ Len(s) = n + 3 /\ DOMAIN s = 1..n + 3 /\ s # <<>> /\ s[n + 3] = closing
      /\ \A i \in 1..n + 2 : s[i] = most[i]
  BY <1>4, <1>6
<1>8. ASSUME NEW i \in 1..n PROVE s[i + 2] = args[i]
  <2>1. PICK k : k = i + 2
    OBVIOUS
  <2>2. k \in 3..n + 2 /\ k \in 1..n + 2 /\ k - 2 = i
    BY <2>1
  <2>3. most[k] = args[k - 2]
    BY <1>4, <2>2
  <2>4. s[k] = args[i]
    BY <1>7, <2>2, <2>3
  <2>5. QED
    BY <2>1, <2>4
<1>9. s[1] = w /\ s[2] = opening
  BY <1>4, <1>7
<1>10. QED
  BY <1>7, <1>8, <1>9

\* So it is written by what its places are.
LEMMA CallIs ==
    ASSUME NEW w \in Parts, NEW opening \in Parts, NEW closing \in Parts, NEW args \in Seq(Parts),
           NEW s \in Seq(Parts), Len(s) = Len(args) + 3, s[1] = w, s[2] = opening, s[Len(args) + 3] = closing,
           \A i \in 1..Len(args) : s[i + 2] = args[i]
    PROVE  <<w, opening>> \o args \o <<closing>> = s
<1>1. PICK n \in Nat : n = Len(args)
  OBVIOUS
<1>2. PICK all : all = <<w, opening>> \o args \o <<closing>>
  OBVIOUS
<1>3. /\ all \in Seq(Parts) /\ Len(all) = n + 3 /\ all[1] = w /\ all[2] = opening /\ all[n + 3] = closing
      /\ \A i \in 1..n : all[i + 2] = args[i]
  BY <1>1, <1>2, CallPlaces
<1>4. ASSUME NEW i \in 1..n + 3 PROVE all[i] = s[i]
  <2>1. CASE i \in {1, 2, n + 3}
    BY <1>1, <1>3, <2>1
  <2>2. CASE i \notin {1, 2, n + 3}
    <3>1. i - 2 \in 1..n /\ i - 2 + 2 = i
      BY <2>2
    <3>2. s[i - 2 + 2] = args[i - 2] /\ all[i - 2 + 2] = args[i - 2]
      BY <1>1, <1>3, <3>1
    <3>3. QED
      BY <3>1, <3>2
  <2>3. QED
    BY <2>1, <2>2
<1>5. all = s
  BY <1>1, <1>3, <1>4, SeqEqual
<1>6. QED
  BY <1>2, <1>5

\* A conjunction of clauses.
LEMMA ConjunctionReread ==
    ASSUME NEW a, ConstructedPlain(a), a.of = "conjunction"
    PROVE  Reread(PlainTokens(a), a)
<1>1. PICK args \in Seq(Parts) : args = a.args
  BY DEF ConstructedPlain
<1>2. Len(args) = 3 /\ (\A i \in 1..3 : args[i] = Dec(args[i].n)) /\ a.inner = <<>>
  BY <1>1 DEF ConstructedPlain
<1>3. PICK p \in Parts, q \in Parts, r \in Parts : p = args[1] /\ q = args[2] /\ r = args[3]
  BY <1>2
<1>4. args = <<p, q, r>>
  BY <1>2, <1>3
<1>5. p.base = 10 /\ q.base = 10 /\ r.base = 10
  <2>1. \A n : Dec(n).base = 10
    BY DEF Dec, Part
  <2>2. QED
    BY <1>2, <1>3, <2>1
<1>6. PICK w \in Parts, opening \in Parts, closing \in Parts, comma \in Parts, slash \in Parts :
          w = Word("conjunction") /\ opening = Open /\ closing = Close /\ comma = Comma /\ slash = Slash
  BY ActionNamesAssumption, PartsOf, Punctuation DEF Slash
<1>7. PICK s : s = <<w, opening, p, comma, q, slash, r, closing>>
  OBVIOUS
<1>8. s = PlainTokens(a)
  <2>1. PlainTokens(a) =
           <<Word("conjunction"), Open, a.args[1], Comma, a.args[2], Slash, a.args[3], Close>>
    BY DEF PlainTokens, TextActions
  <2>2. QED
    BY <1>1, <1>3, <1>6, <1>7, <2>1
<1>9. /\ s \in Seq(Parts) /\ Len(s) = 8 /\ DOMAIN s = 1..8 /\ s # <<>>
      /\ s[1] = w /\ s[2] = opening /\ s[3] = p /\ s[4] = comma
      /\ s[5] = q /\ s[6] = slash /\ s[7] = r /\ s[8] = closing
  BY <1>7
<1>10. w \notin {Open, Close, Comma, Word("drop"), Word("ct")}
  BY <1>6, WordsDiffer DEF Open, Close, Comma
<1>11. Sound(s)
  <2>1. PICK inner : inner = <<p, comma, q, slash, r>>
    OBVIOUS
  <2>2. inner \in Seq(Parts) /\ DOMAIN inner = 1..5
    BY <2>1
  <2>3. /\ p # Open /\ p # Close /\ q # Open /\ q # Close /\ r # Open /\ r # Close
    BY <1>5, PunctuationIs
  <2>4. comma # Open /\ comma # Close
    BY <1>6, Punctuation
  <2>5. slash # Open /\ slash # Close
    BY <1>6, WordsDiffer DEF Open, Close, Slash
  <2>6. \A i \in DOMAIN inner : inner[i] # Open /\ inner[i] # Close
    BY <2>1, <2>2, <2>3, <2>4, <2>5
  <2>7. Balanced(inner)
    BY <2>2, <2>6, Level
  <2>8. Sound(<<w, Open>> \o inner \o <<Close>>)
    BY <1>10, <2>2, <2>7, CallIsSound
  <2>9. <<w, opening>> \o inner \o <<closing>> = s
    <3>1. PICK n \in Nat : n = 5
      OBVIOUS
    <3>2. /\ inner[1] = p /\ inner[2] = comma /\ inner[3] = q /\ inner[4] = slash /\ inner[5] = r
          /\ Len(inner) = n
      BY <2>1, <3>1
    <3>3. \A i \in 1..n : s[i + 2] = inner[i]
      BY <1>9, <3>1, <3>2
    <3>4. Len(s) = n + 3 /\ s[n + 3] = closing
      BY <1>9, <3>1
    <3>5. QED
      BY <1>9, <2>2, <3>2, <3>3, <3>4, CallIs
  <2>10. QED
    BY <1>6, <2>8, <2>9
<1>12. s # <<Word("drop")>>
  <2>1. SUFFICES ASSUME s = <<Word("drop")>> PROVE FALSE
    OBVIOUS
  <2>2. s[1] = Word("drop")
    BY <2>1
  <2>3. QED
    BY <1>9, <1>10, <2>2
<1>13. ~IsText(s)
  BY <1>9 DEF IsText
<1>14. Where(s, "ct") = 0
  <2>1. p # Word("ct") /\ q # Word("ct") /\ r # Word("ct")
    <3>1. PICK ct : ct = Word("ct")
      OBVIOUS
    <3>2. ct.base = 0
      BY <3>1, TokensDiffer
    <3>3. QED
      BY <1>5, <3>1, <3>2
  <2>2. opening # Word("ct") /\ closing # Word("ct") /\ comma # Word("ct") /\ slash # Word("ct")
    BY <1>6, WordsDiffer DEF Open, Close, Comma, Slash
  <2>3. \A i \in DOMAIN s : s[i] # Word("ct")
    BY <1>9, <1>10, <2>1, <2>2
  <2>4. QED
    BY <1>9, <2>3, Nowhere
<1>15. Scanned(s) = {}
  <2>1. \A k \in ScannedKinds : Word(Prefixed[k]) # w
    BY <1>6, ScannedApart, WordsDiffer
  <2>2. QED
    BY <1>9, <2>1 DEF Scanned, At
<1>16. At(s, 1, "conjunction")
  BY <1>6, <1>9 DEF At
<1>17. Conjunction(s)
  BY <1>5, <1>6, <1>9 DEF Conjunction
<1>18. PICK b : b = Act("conjunction", <<p, q, r>>)
  OBVIOUS
<1>19. ParseAction(s) = <<b>>
  BY <1>9, <1>13, <1>14, <1>15, <1>16, <1>17, <1>18 DEF ParseAction
<1>20. SameAction(b, a)
  BY <1>1, <1>2, <1>4, <1>18 DEF SameAction, Act
<1>21. QED
  BY <1>8, <1>11, <1>12, <1>19, <1>20 DEF Reread

\* Parentheses and commas where they are looked for.
Has(s, i, t) == i \in DOMAIN s /\ s[i] = t
LEMMA AtTokens ==
    ASSUME NEW s, NEW i
    PROVE  At(s, i, "(") = Has(s, i, Open) /\ At(s, i, ")") = Has(s, i, Close) /\ At(s, i, ",") = Has(s, i, Comma)
BY DEF At, Has, Open, Close, Comma

\* One of a sequence, and none.
LEMMA OneOrNone ==
    ASSUME NEW s \in Seq(Parts), NEW i \in 1..Len(s)
    PROVE  SubSeq(s, i, i) = <<s[i]>> /\ SubSeq(s, i, i - 1) = <<>>
<1>1. s[i] \in Parts /\ i \in Nat /\ i <= Len(s)
  OBVIOUS
<1>2. SubSeq(s, i, i - 1) = <<>>
  BY <1>1
<1>3. PICK t : t = <<s[i]>>
  OBVIOUS
<1>4. PICK u : u = SubSeq(s, i, i)
  OBVIOUS
<1>5. t \in Seq(Parts) /\ Len(t) = 1 /\ t[1] = s[i]
  BY <1>1, <1>3
<1>6. u \in Seq(Parts) /\ Len(u) = 1 /\ u[1] = s[i]
  BY <1>1, <1>4
<1>7. t = u
  BY <1>5, <1>6, SeqEqual
<1>8. QED
  BY <1>2, <1>3, <1>4, <1>7

\* Digits that are there, and that are not.
LEMMA DigitsRead ==
    ASSUME NEW s \in Seq(Parts), NEW i \in 1..Len(s), NEW e \in i..i + 1,
           e = i + 1 => s[i].base = 10 /\ s[i].n >= 0
    PROVE  /\ Digits(SubSeq(s, i, e - 1))
           /\ DigitsOf(SubSeq(s, i, e - 1)) = IF e = i THEN Dec(0) ELSE s[i]
<1>1. CASE e = i
  <2>1. SubSeq(s, i, e - 1) = <<>>
    BY <1>1, OneOrNone
  <2>2. QED
    BY <1>1, <2>1 DEF Digits, DigitsOf
<1>2. CASE e = i + 1
  <2>1. e - 1 = i /\ e # i
    BY <1>2
  <2>2. SubSeq(s, i, e - 1) = <<s[i]>>
    BY <2>1, OneOrNone
  <2>3. PICK t : t = <<s[i]>>
    OBVIOUS
  <2>4. t # <<>> /\ Len(t) = 1 /\ t[1] = s[i]
    BY <2>3
  <2>5. Digits(t) /\ DigitsOf(t) = s[i]
    BY <1>2, <2>4 DEF Digits, DigitsOf
  <2>6. QED
    BY <2>1, <2>2, <2>3, <2>5
<1>3. QED
  BY <1>1, <1>2

\* A resubmit, with a comma at c and its end at e.
LEMMA ResubmitIs ==
    ASSUME NEW s \in Seq(Parts), NEW c \in 3..4, NEW e \in c + 1..c + 2, Len(s) = e,
           s[1] = Word("resubmit"), s[2] = Open, s[c] = Comma, s[e] = Close,
           c = 4 => s[3].base = 10 /\ s[3].n >= 0,
           e = c + 2 => s[c + 1].base = 10 /\ s[c + 1].n >= 0
    PROVE  /\ Resubmit(s, 1)
           /\ ResubmitArgs(s, 1) = <<IF c = 3 THEN Dec(0) ELSE s[3], IF e = c + 1 THEN Dec(0) ELSE s[c + 1]>>
<1>1. DOMAIN s = 1..e /\ c \in Nat /\ e \in Nat
  BY LenProperties
<1>2. \A j \in 3..4 : Has(s, j, Comma) <=> j = c
  <2>1. Has(s, c, Comma)
    BY <1>1 DEF Has
  <2>2. ASSUME NEW j \in 3..4, Has(s, j, Comma), j # c PROVE FALSE
    <3>1. j \in 1..e /\ s[j] = Comma
      BY <1>1, <2>2 DEF Has
    <3>2. CASE c = 4
      <4>1. j = 3
        BY <2>2, <3>2
      <4>2. s[3].base = 10 /\ s[3] = Comma
        BY <3>1, <3>2, <4>1
      <4>3. QED
        BY <4>2, PunctuationIs
    <3>3. CASE c = 3 /\ e = c + 1
      <4>1. j = e
        BY <2>2, <3>3
      <4>2. QED
        BY <3>1, <4>1, Punctuation
    <3>4. CASE c = 3 /\ e = c + 2
      <4>1. j = c + 1
        BY <2>2, <3>4
      <4>2. s[c + 1].base = 10 /\ s[c + 1] = Comma
        BY <3>1, <3>4, <4>1
      <4>3. QED
        BY <4>2, PunctuationIs
    <3>5. QED
      BY <3>2, <3>3, <3>4
  <2>3. QED
    BY <2>1, <2>2
<1>3. \A j \in c + 1..c + 2 : Has(s, j, Close) <=> j = e
  <2>1. Has(s, e, Close)
    BY <1>1 DEF Has
  <2>2. ASSUME NEW j \in c + 1..c + 2, Has(s, j, Close), j # e PROVE FALSE
    <3>1. j \in 1..e /\ s[j] = Close
      BY <1>1, <2>2 DEF Has
    <3>2. e = c + 2 /\ j = c + 1
      BY <2>2, <3>1
    <3>3. s[c + 1].base = 10 /\ s[c + 1] = Close
      BY <3>1, <3>2
    <3>4. QED
      BY <3>3, PunctuationIs
  <2>3. QED
    BY <2>1, <2>2
<1>4. /\ Digits(SubSeq(s, 3, c - 1))
      /\ DigitsOf(SubSeq(s, 3, c - 1)) = IF c = 3 THEN Dec(0) ELSE s[3]
  <2>1. 3 \in 1..Len(s) /\ c \in 3..3 + 1 /\ (c = 3 + 1 => s[3].base = 10 /\ s[3].n >= 0)
    OBVIOUS
  <2>2. QED
    BY <2>1, DigitsRead
<1>5. /\ Digits(SubSeq(s, c + 1, e - 1))
      /\ DigitsOf(SubSeq(s, c + 1, e - 1)) = IF e = c + 1 THEN Dec(0) ELSE s[c + 1]
  <2>1. PICK i \in Nat : i = c + 1
    OBVIOUS
  <2>2. i \in 1..Len(s) /\ e \in i..i + 1 /\ (e = i + 1 => s[i].base = 10 /\ s[i].n >= 0)
    <3>1. i + 1 = c + 2
      BY <2>1
    <3>2. QED
      BY <2>1, <3>1
  <2>3. QED
    BY <2>1, <2>2, DigitsRead
<1>6. Resubmit(s, 1)
  <2>1. At(s, 1, "resubmit") /\ Has(s, 1 + 1, Open)
    BY <1>1 DEF At, Has
  <2>2. c \in 1 + 2..1 + 3 /\ e \in 1 + 3..1 + 5 /\ 1 + 2 = 3
    OBVIOUS
  <2>3. Has(s, c, Comma) /\ Has(s, e, Close)
    BY <1>2, <1>3
  <2>4. QED
    BY <1>4, <1>5, <2>1, <2>2, <2>3, AtTokens DEF Resubmit
<1>7. ResubmitArgs(s, 1) = <<DigitsOf(SubSeq(s, 3, c - 1)), DigitsOf(SubSeq(s, c + 1, e - 1))>>
  <2>1. (CHOOSE j \in 3..4 : Has(s, j, Comma)) = c
    BY <1>2
  <2>2. (CHOOSE j \in c + 1..c + 2 : Has(s, j, Close)) = e
    BY <1>3
  <2>3. 1 + 2 = 3 /\ 1 + 3 = 4
    OBVIOUS
  <2>4. (CHOOSE j \in 1 + 2..1 + 3 : At(s, j, ",")) = c
    BY <2>1, <2>3, AtTokens
  <2>5. (CHOOSE j \in c + 1..c + 2 : At(s, j, ")")) = e
    BY <2>2, AtTokens
  <2>6. QED
    BY <2>3, <2>4, <2>5 DEF ResubmitArgs
<1>8. QED
  BY <1>4, <1>5, <1>6, <1>7

\* What a resubmit has between its parentheses.
Inner(inner, c, p, q, comma) ==
    /\ inner \in Seq(Parts) /\ inner = NotZero(p) \o <<comma>> \o NotZero(q)
    /\ inner[c] = comma /\ (p.n = 0 <=> c = 1) /\ (c = 2 => inner[1] = p)
    /\ Len(inner) \in c..c + 1 /\ (q.n = 0 <=> Len(inner) = c)
    /\ (Len(inner) = c + 1 => inner[c + 1] = q)
    /\ \A i \in DOMAIN inner : inner[i] \in {p, q, comma}
LEMMA ResubmitInner ==
    ASSUME NEW p \in Parts, NEW q \in Parts, NEW comma \in Parts
    PROVE  \E c \in 1..2 : \E inner : Inner(inner, c, p, q, comma)
<1>1. CASE p.n = 0 /\ q.n = 0
  <2>1. PICK inner : inner = <<comma>>
    OBVIOUS
  <2>2. inner = <<>> \o <<comma>> \o <<>>
    BY <2>1
  <2>3. inner = NotZero(p) \o <<comma>> \o NotZero(q)
    BY <1>1, <2>2 DEF NotZero
  <2>4. inner \in Seq(Parts) /\ Len(inner) = 1 /\ inner[1] = comma /\ DOMAIN inner = {1}
    BY <2>1
  <2>5. Inner(inner, 1, p, q, comma)
    BY <1>1, <2>3, <2>4 DEF Inner
  <2>6. 1 \in 1..2
    OBVIOUS
  <2>7. QED
    BY <2>5, <2>6
<1>2. CASE p.n # 0 /\ q.n = 0
  <2>1. PICK inner : inner = <<p, comma>>
    OBVIOUS
  <2>2. inner = <<p>> \o <<comma>> \o <<>>
    BY <2>1
  <2>3. inner = NotZero(p) \o <<comma>> \o NotZero(q)
    BY <1>2, <2>2 DEF NotZero
  <2>4. inner \in Seq(Parts) /\ Len(inner) = 2 /\ inner[1] = p /\ inner[2] = comma /\ DOMAIN inner = {1, 2}
    BY <2>1
  <2>5. Inner(inner, 2, p, q, comma)
    BY <1>2, <2>3, <2>4 DEF Inner
  <2>6. 2 \in 1..2
    OBVIOUS
  <2>7. QED
    BY <2>5, <2>6
<1>3. CASE p.n = 0 /\ q.n # 0
  <2>1. PICK inner : inner = <<comma, q>>
    OBVIOUS
  <2>2. inner = <<>> \o <<comma>> \o <<q>>
    BY <2>1
  <2>3. inner = NotZero(p) \o <<comma>> \o NotZero(q)
    BY <1>3, <2>2 DEF NotZero
  <2>4. inner \in Seq(Parts) /\ Len(inner) = 2 /\ inner[1] = comma /\ inner[2] = q /\ DOMAIN inner = {1, 2}
    BY <2>1
  <2>5. Inner(inner, 1, p, q, comma)
    BY <1>3, <2>3, <2>4 DEF Inner
  <2>6. 1 \in 1..2
    OBVIOUS
  <2>7. QED
    BY <2>5, <2>6
<1>4. CASE p.n # 0 /\ q.n # 0
  <2>1. PICK inner : inner = <<p, comma, q>>
    OBVIOUS
  <2>2. inner = <<p>> \o <<comma>> \o <<q>>
    <3>1. PICK two : two = <<p, comma>>
      OBVIOUS
    <3>2. two = <<p>> \o <<comma>>
      BY <3>1
    <3>3. inner = two \o <<q>>
      BY <2>1, <3>1
    <3>4. QED
      BY <3>2, <3>3
  <2>3. inner = NotZero(p) \o <<comma>> \o NotZero(q)
    BY <1>4, <2>2 DEF NotZero
  <2>4. /\ inner \in Seq(Parts) /\ Len(inner) = 3 /\ inner[1] = p /\ inner[2] = comma /\ inner[3] = q
        /\ DOMAIN inner = 1..3
    BY <2>1
  <2>5. Inner(inner, 2, p, q, comma)
    BY <1>4, <2>3, <2>4 DEF Inner
  <2>6. 2 \in 1..2
    OBVIOUS
  <2>7. QED
    BY <2>5, <2>6
<1>5. QED
  BY <1>1, <1>2, <1>3, <1>4


\* A port and a table to resubmit to.
LEMMA ResubmitReread ==
    ASSUME NEW a, ConstructedPlain(a), PlainMarshals(a), ~MisreadAction(a), a.of = "resubmit"
    PROVE  Reread(PlainTokens(a), a)
<1>1. PICK args \in Seq(Parts) : args = a.args
  BY DEF ConstructedPlain
<1>2. Len(args) = 2 /\ (\A i \in 1..2 : args[i] = Dec(args[i].n)) /\ a.inner = <<>>
  BY <1>1 DEF ConstructedPlain
<1>3. PICK p \in Parts, q \in Parts : p = args[1] /\ q = args[2]
  BY <1>2
<1>4. args = <<p, q>>
  BY <1>2, <1>3
<1>5. p.base = 10 /\ q.base = 10 /\ p = Dec(p.n) /\ q = Dec(q.n)
  <2>1. \A n : Dec(n).base = 10
    BY DEF Dec, Part
  <2>2. p = Dec(p.n) /\ q = Dec(q.n)
    BY <1>2, <1>3
  <2>3. QED
    BY <2>1, <2>2
<1>6. p.n >= 0 /\ q.n >= 0
  <2>1. p.n \in Int /\ q.n \in Int
    BY PartTypes
  <2>2. ~(args[1].n < 0) /\ ~(args[2].n < 0)
    BY <1>1 DEF MisreadAction
  <2>3. ~(p.n < 0) /\ ~(q.n < 0)
    BY <1>3, <2>2
  <2>4. QED
    BY <2>1, <2>3
<1>7. PICK w \in Parts, opening \in Parts, closing \in Parts, comma \in Parts :
          w = Word("resubmit") /\ opening = Open /\ closing = Close /\ comma = Comma
  BY ActionNamesAssumption, PartsOf, Punctuation
<1>8. PICK c \in 1..2 : \E inner : Inner(inner, c, p, q, comma)
  BY ResubmitInner
<1>9. PICK inner : Inner(inner, c, p, q, comma)
  BY <1>8
<1>10. inner \in Seq(Parts) /\ inner = NotZero(p) \o <<comma>> \o NotZero(q)
  BY <1>9 DEF Inner
<1>11. PICK n \in Nat : n = Len(inner)
  BY <1>10
<1>12. /\ n \in c..c + 1 /\ inner[c] = comma /\ (p.n = 0 <=> c = 1) /\ (c = 2 => inner[1] = p)
       /\ (q.n = 0 <=> n = c) /\ (n = c + 1 => inner[c + 1] = q)
       /\ \A i \in DOMAIN inner : inner[i] \in {p, q, comma}
  BY <1>9, <1>11 DEF Inner
<1>13. PICK s : s = <<w, opening>> \o inner \o <<closing>>
  OBVIOUS
<1>14. s = PlainTokens(a)
  <2>1. PlainTokens(a) = <<Word("resubmit"), Open>> \o NotZero(a.args[1]) \o <<Comma>>
                             \o NotZero(a.args[2]) \o <<Close>>
    BY DEF PlainTokens, TextActions
  <2>2. PICK first \in Seq(Parts), second \in Seq(Parts) : first = NotZero(p) /\ second = NotZero(q)
    BY NotZeroType
  <2>3. PlainTokens(a) = <<w, opening>> \o first \o <<comma>> \o second \o <<closing>>
    BY <1>1, <1>3, <1>7, <2>1, <2>2
  <2>4. PICK x : x = <<w, opening>>
    OBVIOUS
  <2>5. PICK y : y = <<comma>>
    OBVIOUS
  <2>6. x \in Seq(Parts) /\ y \in Seq(Parts)
    BY <2>4, <2>5
  <2>7. x \o (first \o y \o second) = x \o first \o y \o second
    <3>1. first \o y \in Seq(Parts)
      BY <2>6, ConcatProperties
    <3>2. PICK both \in Seq(Parts) : both = first \o y
      BY <3>1
    <3>3. x \o (both \o second) = (x \o both) \o second
      BY <2>6
    <3>4. x \o (first \o y) = (x \o first) \o y
      BY <2>6
    <3>5. QED
      BY <3>2, <3>3, <3>4
  <2>8. QED
    BY <1>10, <1>13, <2>2, <2>3, <2>4, <2>5, <2>7
<1>15. /\ s \in Seq(Parts) /\ Len(s) = n + 3 /\ DOMAIN s = 1..n + 3 /\ s # <<>>
       /\ s[1] = w /\ s[2] = opening /\ s[n + 3] = closing
       /\ \A i \in 1..n : s[i + 2] = inner[i]
  <2>1. inner \in Seq(Parts)
    BY <1>10
  <2>2. QED
    BY <1>11, <1>13, <2>1, CallPlaces
<1>16. w \notin {Open, Close, Comma, Word("drop"), Word("ct")}
  BY <1>7, WordsDiffer DEF Open, Close, Comma
<1>17. p \notin {Open, Close, Comma} /\ q \notin {Open, Close, Comma}
  BY <1>5, PunctuationIs
<1>18. Sound(s)
  <2>1. \A i \in DOMAIN inner : inner[i] # Open /\ inner[i] # Close
    <3>1. comma # Open /\ comma # Close
      BY <1>7, Punctuation
    <3>2. QED
      BY <1>12, <1>17, <3>1
  <2>2. Balanced(inner)
    BY <1>10, <2>1, Level
  <2>3. Sound(<<w, Open>> \o inner \o <<Close>>)
    BY <1>10, <1>16, <2>2, CallIsSound
  <2>4. QED
    BY <1>7, <1>13, <2>3
<1>19. s # <<Word("drop")>>
  <2>1. SUFFICES ASSUME s = <<Word("drop")>> PROVE FALSE
    OBVIOUS
  <2>2. s[1] = Word("drop")
    BY <2>1
  <2>3. QED
    BY <1>15, <1>16, <2>2
<1>20. ~IsText(s)
  BY <1>15 DEF IsText
<1>21. Where(s, "ct") = 0
  <2>1. PICK ct : ct = Word("ct")
    OBVIOUS
  <2>2. ct # w /\ ct # opening /\ ct # closing /\ ct # comma /\ ct # p /\ ct # q
    <3>1. ct.base = 0
      BY <2>1, TokensDiffer
    <3>2. ct # opening /\ ct # closing /\ ct # comma
      BY <1>7, <2>1, WordsDiffer DEF Open, Close, Comma
    <3>3. QED
      BY <1>5, <1>16, <2>1, <3>1, <3>2
  <2>3. ASSUME NEW i \in 1..n + 3 PROVE s[i] # ct
    <3>1. CASE i \in {1, 2, n + 3}
      BY <1>15, <2>2, <3>1
    <3>2. CASE i \notin {1, 2, n + 3}
      <4>1. PICK k : k = i - 2
        OBVIOUS
      <4>2. k \in 1..n /\ k + 2 = i
        BY <3>2, <4>1
      <4>3. k \in DOMAIN inner
        BY <1>10, <1>11, <4>2
      <4>4. s[i] = inner[k] /\ inner[k] \in {p, q, comma}
        BY <1>12, <1>15, <4>2, <4>3
      <4>5. QED
        BY <2>2, <4>4
    <3>3. QED
      BY <3>1, <3>2
  <2>4. QED
    BY <1>15, <2>1, <2>3, Nowhere
<1>22. Scanned(s) = {}
  <2>1. \A k \in ScannedKinds : Word(Prefixed[k]) # w
    BY <1>7, ScannedApart, WordsDiffer
  <2>2. QED
    BY <1>15, <2>1 DEF Scanned, At
<1>23. ~At(s, 1, "conjunction")
  BY <1>7, <1>15, WordsDiffer DEF At
<1>24. PICK at \in 3..4, e \in Nat : at = c + 2 /\ e = n + 3
  <2>1. c + 2 \in 3..4 /\ n + 3 \in Nat
    OBVIOUS
  <2>2. QED
    BY <2>1
<1>25. e \in at + 1..at + 2 /\ (at = 3 <=> c = 1) /\ (at = 4 <=> c = 2) /\ (e = at + 1 <=> n = c) /\ (e = at + 2 <=> n = c + 1)
  BY <1>12, <1>24
<1>26. s[at] = comma /\ s[e] = closing /\ (at = 4 => s[3] = p) /\ (e = at + 2 => s[at + 1] = q)
  <2>1. s[at] = comma
    <3>1. c \in 1..n
      BY <1>12
    <3>2. QED
      BY <1>12, <1>15, <1>24, <3>1
  <2>2. ASSUME at = 4 PROVE s[3] = p
    <3>1. 1 \in 1..n /\ 1 + 2 = 3 /\ inner[1] = p
      BY <1>12, <1>25, <2>2
    <3>2. QED
      BY <1>15, <3>1
  <2>3. ASSUME e = at + 2 PROVE s[at + 1] = q
    <3>1. PICK k : k = c + 1
      OBVIOUS
    <3>2. k \in 1..n /\ k + 2 = at + 1 /\ inner[k] = q
      BY <1>12, <1>24, <1>25, <2>3, <3>1
    <3>3. s[k + 2] = inner[k]
      BY <1>15, <3>2
    <3>4. QED
      BY <3>2, <3>3
  <2>4. s[e] = closing
    BY <1>15, <1>24
  <2>5. QED
    BY <2>1, <2>2, <2>3, <2>4
<1>27. /\ Resubmit(s, 1)
       /\ ResubmitArgs(s, 1) = <<IF at = 3 THEN Dec(0) ELSE s[3], IF e = at + 1 THEN Dec(0) ELSE s[at + 1]>>
  <2>1. at = 4 => s[3].base = 10 /\ s[3].n >= 0
    BY <1>5, <1>6, <1>26
  <2>2. e = at + 2 => s[at + 1].base = 10 /\ s[at + 1].n >= 0
    BY <1>5, <1>6, <1>26
  <2>3. Len(s) = e /\ s[1] = Word("resubmit") /\ s[2] = Open /\ s[at] = Comma /\ s[e] = Close
    BY <1>7, <1>15, <1>24, <1>26
  <2>4. e \in at + 1..at + 2
    BY <1>25
  <2>5. QED
    BY <1>15, <2>1, <2>2, <2>3, <2>4, ResubmitIs
<1>28. ResubmitArgs(s, 1) = <<p, q>>
  <2>1. (IF at = 3 THEN Dec(0) ELSE s[3]) = p
    <3>1. CASE at = 3
      BY <1>5, <1>12, <1>25, <3>1
    <3>2. CASE at = 4
      BY <1>26, <3>2
    <3>3. QED
      BY <3>1, <3>2
  <2>2. (IF e = at + 1 THEN Dec(0) ELSE s[at + 1]) = q
    <3>1. CASE e = at + 1
      BY <1>5, <1>12, <1>25, <3>1
    <3>2. CASE e = at + 2
      <4>1. e # at + 1
        BY <3>2
      <4>2. QED
        BY <1>26, <3>2, <4>1
    <3>3. QED
      BY <1>25, <3>1, <3>2
  <2>3. QED
    BY <1>27, <2>1, <2>2
<1>29. Where(s, "resubmit") = 1
  <2>1. 1 \in DOMAIN s
    BY <1>15
  <2>2. 1 \in Places(s, "resubmit")
    BY <1>27, <2>1, PlacesAre
  <2>3. QED
    BY <1>15, <2>2, WhereFirst
<1>30. PICK b : b = Act("resubmit", <<p, q>>)
  OBVIOUS
<1>31. ParseAction(s) = <<b>>
  BY <1>20, <1>21, <1>22, <1>23, <1>28, <1>29, <1>30 DEF ParseAction
<1>32. SameAction(b, a)
  BY <1>1, <1>2, <1>4, <1>30 DEF SameAction, Act
<1>33. QED
  BY <1>14, <1>18, <1>19, <1>31, <1>32 DEF Reread

\* Conntrack, with arguments that close what they open.
LEMMA CtReread ==
    ASSUME NEW a, ConstructedPlain(a), PlainMarshals(a), ~MisreadAction(a), a.of = "ct"
    PROVE  Reread(PlainTokens(a), a)
<1>1. PICK args \in Seq(Parts) : args = a.args
  BY DEF ConstructedPlain
<1>2. args # <<>> /\ Balanced(args) /\ Space \notin ToSet(args) /\ a.inner = <<>>
  BY <1>1 DEF ConstructedPlain, PlainMarshals, MisreadAction
<1>3. PICK w \in Parts, opening \in Parts, closing \in Parts :
          w = Word("ct") /\ opening = Open /\ closing = Close
  BY ActionNamesAssumption, PartsOf, Punctuation
<1>4. PICK n \in Nat : n = Len(args)
  OBVIOUS
<1>5. n > 0
  BY <1>2, <1>4
<1>6. PICK s : s = <<w, opening>> \o args \o <<closing>>
  OBVIOUS
<1>7. s = PlainTokens(a)
  BY <1>1, <1>3, <1>6 DEF PlainTokens, TextActions
<1>8. /\ s \in Seq(Parts) /\ Len(s) = n + 3 /\ DOMAIN s = 1..n + 3 /\ s # <<>>
      /\ s[1] = w /\ s[2] = opening /\ s[n + 3] = closing
      /\ \A i \in 1..n : s[i + 2] = args[i]
  BY <1>4, <1>6, CallPlaces
<1>9. w \notin {Open, Close, Comma, Word("drop")}
  BY <1>3, WordsDiffer DEF Open, Close, Comma
<1>10. Sound(s)
  <2>1. Sound(<<w, Open>> \o args \o <<Close>>)
    BY <1>2, <1>9, CallIsSound
  <2>2. QED
    BY <1>3, <1>6, <2>1
<1>11. s # <<Word("drop")>>
  <2>1. SUFFICES ASSUME s = <<Word("drop")>> PROVE FALSE
    OBVIOUS
  <2>2. s[1] = Word("drop")
    BY <2>1
  <2>3. QED
    BY <1>8, <1>9, <2>2
<1>12. ~IsText(s)
  BY <1>8 DEF IsText
<1>20. Run(s, 1 + 2) = 3..n + 3
  <2>1. Space # w /\ Space # opening /\ Space # closing
    BY <1>3, WordsDiffer DEF Space, Open, Close
  <2>2. \A i \in 1..n : args[i] # Space
    BY <1>2, <1>4 DEF ToSet
  <2>3. ASSUME NEW k \in DOMAIN s PROVE s[k] # Space
    <3>1. CASE k \in {1, 2, n + 3}
      BY <1>8, <2>1, <3>1
    <3>2. CASE k \notin {1, 2, n + 3}
      <4>1. PICK i \in 1..n : i + 2 = k
        <5>1. k - 2 \in 1..n /\ k - 2 + 2 = k
          BY <1>8, <3>2
        <5>2. QED
          BY <5>1
      <4>2. QED
        BY <1>8, <2>2, <4>1
    <3>3. QED
      BY <3>1, <3>2
  <2>4. QED
    BY <1>8, <2>3, RunIs
<1>13. Ct(s, 1)
  <2>1. At(s, 1, "ct")
    BY <1>3, <1>8 DEF At
  <2>2. At(s, 1 + 1, "(")
    <3>1. Has(s, 1 + 1, Open)
      BY <1>3, <1>8 DEF Has
    <3>2. QED
      BY <3>1, AtTokens
  <2>3. At(s, n + 3, ")")
    <3>1. Has(s, n + 3, Close)
      BY <1>3, <1>8 DEF Has
    <3>2. QED
      BY <3>1, AtTokens
  <2>4. n + 3 \in Ends(s, 1)
    BY <1>5, <1>20, <2>3 DEF Ends
  <2>5. QED
    BY <2>1, <2>2, <2>4 DEF Ct
<1>14. Where(s, "ct") = 1
  <2>1. 1 \in DOMAIN s
    BY <1>8
  <2>2. 1 \in Places(s, "ct")
    BY <1>13, <2>1, PlacesAre
  <2>3. QED
    BY <1>8, <2>2, WhereFirst
<1>15. CtArgs(s, 1) = args
  <2>1. PICK last : last = Farthest(Ends(s, 1))
    OBVIOUS
  <2>2. last = n + 3
    <3>1. At(s, n + 3, ")")
      <4>1. Has(s, n + 3, Close)
        BY <1>3, <1>8 DEF Has
      <4>2. QED
        BY <4>1, AtTokens
    <3>2. Ends(s, 1) \subseteq 1..n + 3 /\ n + 3 \in Ends(s, 1) /\ n + 3 \in Nat
      BY <1>5, <1>20, <3>1 DEF Ends
    <3>3. last \in Ends(s, 1) /\ n + 3 <= last
      BY <2>1, <3>2, FarthestIs
    <3>4. QED
      BY <3>2, <3>3
  <2>3. PICK u : u = SubSeq(s, 3, n + 2)
    OBVIOUS
  <2>4. u \in Seq(Parts) /\ Len(u) = n /\ \A i \in 1..n : u[i] = s[i + 2]
    BY <1>8, <2>3
  <2>5. \A i \in 1..Len(u) : u[i] = args[i]
    BY <1>8, <2>4
  <2>6. u = args
    BY <1>4, <2>4, <2>5, SeqEqual
  <2>7. 1 + 2 = 3 /\ last - 1 = n + 2
    BY <2>2
  <2>8. QED
    BY <2>1, <2>3, <2>6, <2>7 DEF CtArgs
<1>16. PICK b : b = Act("ct", args)
  OBVIOUS
<1>17. ParseAction(s) = <<b>>
  BY <1>12, <1>14, <1>15, <1>16 DEF ParseAction
<1>18. SameAction(b, a)
  BY <1>1, <1>2, <1>16 DEF SameAction, Act
<1>19. QED
  BY <1>7, <1>10, <1>11, <1>17, <1>18 DEF Reread

\* A word with what follows it, place by place.
LEMMA WordPlaces ==
    ASSUME NEW w \in Parts, NEW args \in Seq(Parts), NEW n \in Nat, n = Len(args), NEW s, s = <<w>> \o args
    PROVE  /\ s \in Seq(Parts) /\ Len(s) = n + 1 /\ DOMAIN s = 1..n + 1 /\ s # <<>>
           /\ s[1] = w /\ (\A i \in 1..n : s[i + 1] = args[i]) /\ SubSeq(s, 2, Len(s)) = args
<1>1. PICK front : front = <<w>>
  OBVIOUS
<1>2. front \in Seq(Parts) /\ Len(front) = 1 /\ front[1] = w
  BY <1>1
<1>3. s = front \o args
  BY <1>1
<1>4. /\ s \in Seq(Parts) /\ Len(s) = n + 1 /\ DOMAIN s = 1..n + 1 /\ s # <<>> /\ s[1] = w
      /\ \A i \in 1..n : s[i + 1] = args[i]
  BY <1>2, <1>3
<1>5. PICK u : u = SubSeq(s, 2, n + 1)
  OBVIOUS
<1>6. u \in Seq(Parts) /\ Len(u) = n /\ \A i \in 1..n : u[i] = s[i + 1]
  BY <1>4, <1>5
<1>7. \A i \in 1..Len(u) : u[i] = args[i]
  BY <1>4, <1>6
<1>8. u = args
  BY <1>6, <1>7, SeqEqual
<1>9. QED
  BY <1>4, <1>5, <1>8

\* What load, move and set_field begin with.
LEMMA SidedBeginnings ==
    ASSUME NEW of \in {"load", "set_field", "move"}
    PROVE  /\ Prefixed[of] \in {"load:", "set_field:", "move:"} /\ Prefixed[of] \in Names
           /\ of # "load" => Prefixed[of] # "load:"
           /\ of = "set_field" => Prefixed[of] # "move:"
BY Beginnings, ActionNamesAssumption

\* Values that go from a source to a destination.
LEMMA SidedReread ==
    ASSUME NEW a, ConstructedPlain(a), PlainMarshals(a), ~MisreadAction(a), a.of \in {"load", "set_field", "move"}
    PROVE  Reread(PlainTokens(a), a)
<1>1. PICK of \in {"load", "set_field", "move"} : of = a.of
  OBVIOUS
<1>2. PICK args \in Seq(Parts) : args = a.args
  BY DEF ConstructedPlain
<1>3. PICK n \in Nat : n = Len(args)
  OBVIOUS
<1>4. /\ a.inner = <<>> /\ args # <<>> /\ Head(args) # Arrow /\ args[n] # Arrow
      /\ (\E i \in DOMAIN args : args[i] = Arrow)
      /\ ToSet(args) \cap Telling = {}
  BY <1>2, <1>3 DEF ConstructedPlain, PlainMarshals, BothSides, MisreadAction
<1>5. n > 0 /\ DOMAIN args = 1..n /\ args[1] # Arrow
  BY <1>3, <1>4
<1>6. PICK w : w = Prefixed[of]
  OBVIOUS
<1>7. w \in {"load:", "set_field:", "move:"} /\ w \in Names /\ (of # "load" => w # "load:") /\ (of = "set_field" => w # "move:")
  BY <1>6, SidedBeginnings
<1>8. PICK begin \in Parts : begin = Word(w)
  BY <1>7, PartsOf
<1>9. PICK spelled \in Seq(Parts) : spelled = Spelled(args)
  BY SpelledType
<1>10. Len(spelled) = n /\ DOMAIN spelled = 1..n
  BY <1>3, <1>9, SpelledType
<1>11. PICK s : s = <<begin>> \o spelled
  OBVIOUS
<1>12. s = PlainTokens(a)
  BY <1>1, <1>2, <1>6, <1>8, <1>9, <1>11 DEF PlainTokens, TextActions
<1>13. /\ s \in Seq(Parts) /\ Len(s) = n + 1 /\ DOMAIN s = 1..n + 1 /\ s # <<>>
       /\ s[1] = begin /\ (\A i \in 1..n : s[i + 1] = spelled[i]) /\ SubSeq(s, 2, Len(s)) = spelled
  BY <1>10, <1>11, WordPlaces
<1>14. ASSUME NEW i \in 1..n, NEW v \in {"(", ")", ",", " ", "resubmit:", "load:", "move:"}
       PROVE  spelled[i] # Word(v)
  <2>1. SUFFICES ASSUME spelled[i] = Word(v) PROVE FALSE
    OBVIOUS
  <2>2. args[i] = Word(v)
    <3>1. i \in DOMAIN args /\ v \notin {"mac", "ip6", "MAC", "IP6"}
      BY <1>5
    <3>2. QED
      BY <1>9, <2>1, <3>1, SpelledTokens
  <2>3. args[i] \in ToSet(args)
    BY <1>5 DEF ToSet
  <2>4. Word(v) \in Telling
    BY DEF Telling, Open, Close, Comma, Space
  <2>5. QED
    BY <1>4, <2>2, <2>3, <2>4
<1>31. ASSUME NEW i \in DOMAIN s, i # 1 PROVE \E k \in 1..n : s[i] = spelled[k]
  <2>1. PICK k : k = i - 1
    OBVIOUS
  <2>2. i \in 1..n + 1
    BY <1>13
  <2>3. k \in 1..n /\ k + 1 = i
    BY <1>31, <2>1, <2>2
  <2>4. QED
    BY <1>13, <2>3
<1>15. ASSUME NEW i \in DOMAIN s, NEW v \in {"(", ")", ",", " ", "resubmit:", "load:", "move:"}, w # v
       PROVE  s[i] # Word(v)
  <2>1. CASE i = 1
    BY <1>8, <1>13, <1>15, <2>1, WordsDiffer
  <2>2. CASE i # 1
    <3>1. PICK k \in 1..n : s[i] = spelled[k]
      BY <1>31, <2>2
    <3>2. QED
      BY <1>14, <3>1
  <2>3. QED
    BY <2>1, <2>2
<1>16. \A i \in DOMAIN s : s[i] \notin {Open, Close, Comma} /\ s[i] # Word("resubmit:")
  <2>1. w # "(" /\ w # ")" /\ w # "," /\ w # "resubmit:"
    BY <1>7
  <2>2. QED
    BY <1>15, <2>1 DEF Open, Close, Comma
<1>17. Sound(s)
  BY <1>13, <1>16, PlainIsSound
<1>18. s # <<Word("drop")>>
  <2>1. SUFFICES ASSUME s = <<Word("drop")>> PROVE FALSE
    OBVIOUS
  <2>2. s[1] = Word("drop")
    BY <2>1
  <2>3. Word(w) # Word("drop")
    BY <1>7, WordsDiffer
  <2>4. QED
    BY <1>8, <1>13, <2>2, <2>3
<1>19. ~IsText(s)
  BY <1>5, <1>13 DEF IsText
<1>20. Where(s, "ct") = 0 /\ Where(s, "resubmit") = 0 /\ Where(s, "resubmit_port") = 0
  BY <1>13, <1>16, Nowhere
<1>21. Scanned(s) = {}
  <2>1. \A k \in ScannedKinds : Word(Prefixed[k]) # begin
    BY <1>7, <1>8, ScannedApart, WordsDiffer
  <2>2. QED
    BY <1>13, <2>1 DEF Scanned, At
<1>22. ~At(s, 1, "conjunction")
  BY <1>7, <1>8, <1>13, WordsDiffer DEF At
<1>32. Run(s, 1 + 1) = 2..n + 1
  <2>1. \A k \in DOMAIN s : s[k] # Space
    BY <1>7, <1>15 DEF Space
  <2>2. PICK i \in Nat : i = 1 + 1
    OBVIOUS
  <2>3. s \in Seq(Parts) /\ i > 0 /\ i = 2
    BY <1>13, <2>2
  <2>4. Run(s, i) = i..Len(s)
    BY <2>1, <2>3, RunIs
  <2>5. QED
    BY <1>13, <2>2, <2>3, <2>4
<1>23. Sides(s, 1, w)
  <2>1. At(s, 1, w)
    BY <1>8, <1>13 DEF At
  <2>2. PICK i \in 1..n : args[i] = Arrow
    BY <1>4, <1>5
  <2>3. i # 1 /\ i # n
    BY <1>4, <1>5, <2>2
  <2>4. i + 1 \in Run(s, 1 + 1) /\ i + 1 > 1 + 1 /\ i + 1 + 1 \in Run(s, 1 + 1)
    BY <1>32, <2>2, <2>3
  <2>5. spelled[i] = Arrow
    <3>1. spelled[i] = Part(Arrow.base, Arrow.n, Canonical(Arrow.word), Arrow.sign)
      BY <1>5, <1>9, <2>2, SpelledPart
    <3>2. Canonical("->") = "->"
      BY DEF Canonical
    <3>3. PICK p : p = Arrow
      OBVIOUS
    <3>4. p = Part(0, 0, "->", Empty)
      BY <3>3 DEF Arrow, Word
    <3>5. p.base = 0 /\ p.n = 0 /\ p.word = "->" /\ p.sign = Empty
      BY <3>4 DEF Part
    <3>6. QED
      BY <3>1, <3>2, <3>3, <3>4, <3>5
  <2>6. s[i + 1] = Arrow
    BY <1>13, <2>5
  <2>7. QED
    BY <2>1, <2>4, <2>6 DEF Sides
<1>24. Where(s, of) = 1
  <2>1. 1 \in DOMAIN s
    BY <1>13
  <2>2. 1 \in Places(s, of)
    BY <1>6, <1>23, <2>1, PlacesAre, Beginnings
  <2>3. QED
    BY <1>13, <2>2, WhereFirst
<1>25. (of # "load" => Where(s, "load") = 0) /\ (of = "set_field" => Where(s, "move") = 0)
  <2>1. w # "load:" => \A i \in DOMAIN s : s[i] # Word("load:")
    BY <1>15
  <2>2. w # "move:" => \A i \in DOMAIN s : s[i] # Word("move:")
    BY <1>15
  <2>3. QED
    BY <1>7, <1>13, <2>1, <2>2, Nowhere
<1>26. PICK b : b = Act(of, spelled)
  OBVIOUS
<1>27. Sided(s) = <<b>>
  <2>1. SidesArgs(s, Where(s, of)) = spelled
    <3>7. n + 1 \in Nat /\ n + 1 \in 2..n + 1
      BY <1>5
    <3>8. 2..n + 1 \subseteq 1..n + 1
      OBVIOUS
    <3>1. 2..n + 1 \subseteq 1..n + 1 /\ 2..n + 1 # {} /\ n + 1 \in Nat /\ n + 1 \in 2..n + 1
      BY <3>7, <3>8
    <3>2. PICK far : far = Farthest(2..n + 1)
      OBVIOUS
    <3>3. far \in 2..n + 1 /\ n + 1 <= far
      BY <3>1, <3>2, FarthestIs
    <3>4. far = Len(s)
      BY <1>13, <3>3
    <3>5. SidesArgs(s, 1) = SubSeq(s, 1 + 1, Len(s))
      BY <1>32, <3>2, <3>4 DEF SidesArgs
    <3>6. QED
      BY <1>13, <1>24, <3>5
  <2>2. CASE of = "load"
    <3>1. Where(s, "load") > 0
      BY <1>24, <2>2
    <3>2. QED
      BY <1>26, <2>1, <2>2, <3>1 DEF Sided
  <2>3. CASE of = "move"
    <3>1. ~(Where(s, "load") > 0) /\ Where(s, "move") > 0
      BY <1>24, <1>25, <2>3
    <3>2. QED
      BY <1>26, <2>1, <2>3, <3>1 DEF Sided
  <2>4. CASE of = "set_field"
    <3>1. ~(Where(s, "load") > 0) /\ ~(Where(s, "move") > 0) /\ Where(s, "set_field") > 0
      BY <1>24, <1>25, <2>4
    <3>2. QED
      BY <1>26, <2>1, <2>4, <3>1 DEF Sided
  <2>5. QED
    BY <2>2, <2>3, <2>4
<1>28. ParseAction(s) = <<b>>
  <2>1. ~(Where(s, "ct") > 0) /\ ~(Where(s, "resubmit") > 0) /\ ~(Where(s, "resubmit_port") > 0)
    BY <1>20
  <2>2. QED
    BY <1>19, <1>21, <1>22, <1>27, <2>1 DEF ParseAction
<1>29. SameAction(b, a)
  <2>1. Plain(spelled) = Plain(args)
    BY <1>9, SpelledTwice
  <2>2. QED
    BY <1>1, <1>2, <1>4, <1>26, <2>1 DEF SameAction, Act
<1>30. QED
  BY <1>12, <1>17, <1>18, <1>28, <1>29 DEF Reread

\* An action of any type that marshals and is not one of the misread is read back
\* from what it is written as, whichever expressions are tried before its own
\* (action.go, actionparser.go:82-393).
THEOREM ActionReread ==
    ASSUME NEW a, ConstructedAction(a), ActionMarshals(a), ~MisreadAction(a)
    PROVE  Reread(ActionTokens(a), a)
<1>1. a.of \notin {"all", "ct_clear", "set_tunnel", "push", "pop", "output_field", "learn"}
  BY DEF MisreadAction
<1>2. ConstructedPlain(a) /\ PlainMarshals(a) /\ ActionTokens(a) = PlainTokens(a)
  BY <1>1 DEF ConstructedAction, ActionMarshals, ActionTokens
<1>3. a.of \in TextActions \cup {"ct_clear", "ct", "conjunction", "resubmit"} \cup DOMAIN Prefixed
  BY <1>2 DEF ConstructedPlain
<1>4. a.of \in TextActions \ {"all"} \/ a.of \in ScannedKinds \/ a.of = "ct" \/ a.of = "conjunction" \/ a.of = "resubmit"
        \/ a.of = "resubmit_port" \/ a.of \in {"load", "set_field", "move"}
  BY <1>1, <1>3, Beginnings DEF ScannedKinds
<1>5. QED
  BY <1>2, <1>4, TextReread, ScannedReread, CtReread, ConjunctionReread, ResubmitReread, ResubmitPortReread, SidedReread

\* Four may be concatenated in any order too.
AnyOrder(a, b, c, d) == a \o b \o c \o d = a \o (b \o c \o d)
LEMMA RegroupFour ==
    ASSUME NEW a \in Seq(Parts), NEW b \in Seq(Parts), NEW c \in Seq(Parts), NEW d \in Seq(Parts)
    PROVE  AnyOrder(a, b, c, d)
BY DEF AnyOrder

\* Two sequences, place by place.
LEMMA TwoPlaces ==
    ASSUME NEW T, NEW s \in Seq(T), NEW t \in Seq(T), NEW all, all = s \o t
    PROVE  /\ all \in Seq(T) /\ Len(all) = Len(s) + Len(t) /\ DOMAIN all = 1..Len(s) + Len(t)
           /\ \A i \in 1..Len(s) : all[i] = s[i]
           /\ \A i \in 1..Len(t) : all[Len(s) + i] = t[i]
OBVIOUS

\* What comes before may be left out.
LEMMA Cancel ==
    ASSUME NEW a \in Seq(Parts), NEW b \in Seq(Parts), NEW c \in Seq(Parts), a \o b = a \o c
    PROVE  b = c
<1>1. PICK all : all = a \o b
  OBVIOUS
<1>2. /\ Len(all) = Len(a) + Len(b) /\ \A i \in 1..Len(b) : all[Len(a) + i] = b[i]
  BY <1>1
<1>3. /\ Len(all) = Len(a) + Len(c) /\ \A i \in 1..Len(c) : all[Len(a) + i] = c[i]
  BY <1>1
<1>4. Len(b) = Len(c) /\ \A i \in 1..Len(b) : b[i] = c[i]
  BY <1>2, <1>3
<1>5. QED
  BY <1>4, SeqEqual

\* What comes after joined actions begins with a comma, if there is anything.
Begins(tail) == tail \in Seq(Parts) /\ (tail # <<>> => tail[1] = Comma)

\* It still does with an action more.
LEMMA BeginsMore ==
    ASSUME NEW tail, Begins(tail), NEW one \in Seq(Parts)
    PROVE  Begins(tail \o <<Comma>> \o one) /\ tail \o <<Comma>> \o one # <<>>
<1>1. PICK comma \in Parts : comma = Comma
  BY Punctuation
<1>2. PICK mark : mark = <<comma>>
  OBVIOUS
<1>3. mark \in Seq(Parts) /\ Len(mark) = 1 /\ mark[1] = comma
  BY <1>2
<1>4. PICK t \in Seq(Parts) : t = tail
  BY DEF Begins
<1>5. t # <<>> => t[1] = comma
  BY <1>1, <1>4 DEF Begins
<1>6. PICK all : all = t \o mark \o one
  OBVIOUS
<1>7. PICK most \in Seq(Parts) : most = t \o mark
  BY <1>3, ConcatProperties
<1>10. /\ Len(most) = Len(t) + 1 /\ (Len(t) > 0 => most[1] = t[1]) /\ (Len(t) = 0 => most[1] = comma)
  <2>1. /\ Len(most) = Len(t) + Len(mark) /\ \A i \in 1..Len(t) : most[i] = t[i]
        /\ \A i \in 1..Len(mark) : most[Len(t) + i] = mark[i]
    <3>1. mark \in Seq(Parts)
      BY <1>3
    <3>2. QED
      BY <1>7, <3>1, TwoPlaces
  <2>2. PICK n \in Nat : n = Len(t)
    OBVIOUS
  <2>3. n > 0 => most[1] = t[1]
    BY <2>1, <2>2
  <2>4. n = 0 => most[1] = comma
    <3>1. SUFFICES ASSUME n = 0 PROVE most[1] = comma
      OBVIOUS
    <3>2. most[Len(t) + 1] = mark[1] /\ Len(t) + 1 = 1
      BY <1>3, <2>1, <2>2, <3>1
    <3>3. QED
      BY <1>3, <3>2
  <2>5. QED
    BY <1>3, <2>1, <2>2, <2>3, <2>4
<1>11. most[1] = comma
  BY <1>5, <1>10
<1>12. all \in Seq(Parts) /\ Len(all) = Len(most) + Len(one) /\ all[1] = most[1]
  <2>1. all = most \o one
    BY <1>6, <1>7
  <2>2. /\ all \in Seq(Parts) /\ Len(all) = Len(most) + Len(one) /\ \A i \in 1..Len(most) : all[i] = most[i]
    BY <2>1, TwoPlaces
  <2>3. 1 \in 1..Len(most)
    BY <1>10
  <2>4. QED
    BY <2>2, <2>3
<1>8. all # <<>> /\ all[1] = comma
  BY <1>10, <1>11, <1>12
<1>9. QED
  BY <1>1, <1>2, <1>4, <1>6, <1>8, <1>12 DEF Begins

\* One goes on from another, and goes on if they are not the same.
GoesOn(all, first, same) == \E tail : Begins(tail) /\ (tail = <<>> <=> same) /\ all = first \o tail

\* Joined actions begin with the first of them, joined.
LEMMA JoinBegins ==
    ASSUME NEW Ts \in Seq(Seq(Parts)), NEW n \in Nat, n = Len(Ts), NEW k \in 1..n
    PROVE  GoesOn(Join(Ts), Join(Upto(Ts, k)), k = n) /\ Join(Upto(Ts, k)) \in Seq(Parts)
<1>1. PICK j \in [0..n -> Seq(Seq(Parts))] : \A i \in 0..n : j[i] = Upto(Ts, i)
  <2>1. \A i \in 0..n : Upto(Ts, i) \in Seq(Seq(Parts))
    BY PlaceByPlace
  <2>2. PICK j : j = [i \in 0..n |-> Upto(Ts, i)]
    OBVIOUS
  <2>3. j \in [0..n -> Seq(Seq(Parts))] /\ \A i \in 0..n : j[i] = Upto(Ts, i)
    BY <2>1, <2>2
  <2>4. QED
    BY <2>3
<1>2. \A i \in 0..n : j[i] \in Seq(Seq(Parts)) /\ Len(j[i]) = i /\ Join(j[i]) \in Seq(Parts)
  <2>1. \A i \in 0..n : j[i] \in Seq(Seq(Parts)) /\ Len(j[i]) = i
    BY <1>1, PlaceByPlace
  <2>2. Comma \in Parts
    BY Punctuation
  <2>3. QED
    BY <2>1, <2>2, JoinOfMore
<1>3. \A i \in 1..n : Ts[i] \in Seq(Parts) /\ j[i] = Append(j[i - 1], Ts[i])
  <2>1. \A i \in 1..n : Ts[i] \in Seq(Parts) /\ Upto(Ts, i) = Append(Upto(Ts, i - 1), Ts[i])
    BY PlaceByPlace
  <2>2. \A i \in 1..n : i \in 0..n /\ i - 1 \in 0..n
    OBVIOUS
  <2>3. QED
    BY <1>1, <2>1, <2>2
<1> DEFINE S == {i \in 0..n : k <= i => GoesOn(Join(j[i]), Join(j[k]), k = i)}
<1>4. 0 \in S
  OBVIOUS
<1>5. ASSUME NEW i \in 1..n, i - 1 \in S PROVE i \in S
  <2>1. CASE i < k
    BY <2>1
  <2>2. CASE i = k
    <3>1. PICK x \in Seq(Parts) : x = Join(j[k])
      BY <1>2
    <3>2. x = x \o <<>>
      BY ConcatEmptySeq
    <3>3. Begins(<<>>)
      BY DEF Begins
    <3>4. GoesOn(Join(j[i]), Join(j[k]), k = i)
      BY <2>2, <3>1, <3>2, <3>3 DEF GoesOn
    <3>5. QED
      BY <3>4
  <2>3. CASE i > k
    <3>1. i - 1 \in 0..n /\ k <= i - 1
      BY <2>3
    <3>2. PICK tail : Begins(tail) /\ Join(j[i - 1]) = Join(j[k]) \o tail
      BY <1>5, <3>1 DEF GoesOn
    <3>3. PICK one \in Seq(Parts) : one = Ts[i]
      BY <1>3
    <3>4. PICK before \in Seq(Seq(Parts)) : before = j[i - 1]
      BY <1>2, <3>1
    <3>5. before # <<>>
      <4>1. Len(before) = i - 1
        BY <1>2, <3>1, <3>4
      <4>2. Len(<<>>) = 0
        OBVIOUS
      <4>3. i - 1 # 0
        BY <2>3
      <4>4. QED
        BY <4>1, <4>2, <4>3
    <3>6. Join(Append(before, one)) = Join(before) \o <<Comma>> \o one
      BY <3>5, JoinedWith
    <3>7. PICK x \in Seq(Parts), t \in Seq(Parts), mark \in Seq(Parts) : x = Join(j[k]) /\ t = tail /\ mark = <<Comma>>
      <4>1. Join(j[k]) \in Seq(Parts)
        BY <1>2
      <4>2. tail \in Seq(Parts)
        BY <3>2 DEF Begins
      <4>3. <<Comma>> \in Seq(Parts)
        BY JoinedWith
      <4>4. QED
        BY <4>1, <4>2, <4>3
    <3>8. Join(j[i]) = x \o t \o mark \o one
      <4>1. Join(j[i]) = Join(Append(before, one))
        BY <1>3, <3>3, <3>4
      <4>2. Join(before) = x \o t
        BY <3>2, <3>4, <3>7
      <4>3. QED
        BY <3>6, <3>7, <4>1, <4>2
    <3>9. PICK more : more = t \o mark \o one
      OBVIOUS
    <3>10. Begins(more) /\ more # <<>>
      BY <3>2, <3>7, <3>9, BeginsMore
    <3>11. x \o t \o mark \o one = x \o more
      <4>1. AnyOrder(x, t, mark, one)
        BY RegroupFour
      <4>2. QED
        BY <3>9, <4>1 DEF AnyOrder
    <3>12. k # i
      BY <2>3
    <3>13. GoesOn(Join(j[i]), Join(j[k]), k = i)
      BY <3>7, <3>8, <3>10, <3>11, <3>12 DEF GoesOn
    <3>14. QED
      BY <3>13
  <2>4. QED
    BY <2>1, <2>2, <2>3
<1>6. 0..n \subseteq S
  <2> HIDE DEF S
  <2>1. QED
    BY <1>4, <1>5, CountTo
<1>7. GoesOn(Join(j[n]), Join(j[k]), k = n)
  <2>1. n \in 0..n /\ k <= n
    OBVIOUS
  <2>2. n \in S
    <3> HIDE DEF S
    <3>1. QED
      BY <1>6, <2>1
  <2>3. QED
    BY <2>1, <2>2
<1>8. j[n] = Ts
  <2>1. n \in 0..n
    OBVIOUS
  <2>2. Upto(Ts, n) = Ts
    BY PlaceByPlace
  <2>3. QED
    BY <1>1, <2>1, <2>2
<1>9. k \in 0..n
  OBVIOUS
<1>10. QED
  BY <1>1, <1>2, <1>7, <1>8, <1>9

\* Three may be concatenated in any order.
EitherOrder(a, b, c) == a \o b \o c = a \o (b \o c)
LEMMA EitherWay ==
    \A a, b, c \in Seq(Parts) : EitherOrder(a, b, c)
BY DEF EitherOrder

\* What is being read and what is left are the next action and what follows it.
LEMMA NextAction ==
    ASSUME NEW Ts \in Seq(Seq(Parts)), NEW n \in Nat, n = Len(Ts), NEW k \in 0..n, k < n,
           NEW one \in Seq(Parts), NEW rest \in Seq(Parts), SplitAs(Upto(Ts, k), one, rest, Join(Ts))
    PROVE  GoesOn(one \o rest, Ts[k + 1], k + 1 = n)
<1>1. PICK m \in 1..n : m = k + 1
  OBVIOUS
<1>2. PICK tail : /\ Begins(tail) /\ (tail = <<>> <=> m = n)
                  /\ Join(Ts) = Join(Upto(Ts, m)) \o tail /\ Join(Upto(Ts, m)) \in Seq(Parts)
  <2>1. n = Len(Ts) /\ n \in Nat /\ m \in 1..n
    OBVIOUS
  <2>2. GoesOn(Join(Ts), Join(Upto(Ts, m)), m = n) /\ Join(Upto(Ts, m)) \in Seq(Parts)
    BY <2>1, JoinBegins
  <2>3. QED
    BY <2>2 DEF GoesOn
<1>3. PICK acts \in Seq(Seq(Parts)) : acts = Upto(Ts, k) /\ Len(acts) = k
  BY PlaceByPlace
<1>4. PICK next \in Seq(Parts) : next = Ts[m]
  BY PlaceByPlace
<1>5. Upto(Ts, m) = Append(acts, next)
  <2>1. Upto(Ts, m) = Append(Upto(Ts, m - 1), Ts[m])
    BY PlaceByPlace
  <2>2. m - 1 = k
    BY <1>1
  <2>3. QED
    BY <1>3, <1>4, <2>1, <2>2
<1>6. PICK t \in Seq(Parts) : t = tail
  BY <1>2 DEF Begins
<1>7. PICK all \in Seq(Parts) : all = one \o rest
  BY ConcatProperties
<1>8. all = next \o t
  <2>1. CASE acts = <<>> /\ one \o rest = Join(Ts)
    <3>1. Join(Append(acts, next)) = next
      BY <2>1, JoinedWith
    <3>2. QED
      BY <1>2, <1>5, <1>6, <1>7, <2>1, <3>1
  <2>2. CASE acts # <<>> /\ Join(acts) \o <<Comma>> \o one \o rest = Join(Ts)
    <3>1. PICK before \in Seq(Parts) : before = Join(acts) \o <<Comma>>
      BY JoinedWith
    <3>2. Join(Append(acts, next)) = before \o next
      BY <2>2, <3>1, JoinedWith
    <3>3. Join(Ts) = before \o next \o t
      BY <1>2, <1>5, <1>6, <3>2
    <3>4. before \o next \o t = before \o (next \o t)
      BY EitherWay DEF EitherOrder
    <3>5. before \o one \o rest = before \o (one \o rest)
      BY EitherWay DEF EitherOrder
    <3>6. before \o all = before \o (next \o t)
      BY <1>7, <2>2, <3>1, <3>3, <3>4, <3>5
    <3>7. next \o t \in Seq(Parts)
      BY ConcatProperties
    <3>8. QED
      BY <3>6, <3>7, Cancel
  <2>3. CASE acts # <<>> /\ Join(acts) = Join(Ts)
    <3>1. PICK joined \in Seq(Parts), mark \in Seq(Parts) : joined = Join(acts) /\ mark = <<Comma>>
      BY JoinedWith
    <3>2. Join(Append(acts, next)) = joined \o mark \o next
      BY <2>3, <3>1, JoinedWith
    <3>3. joined = joined \o mark \o next \o t
      BY <1>2, <1>5, <1>6, <2>3, <3>1, <3>2
    <3>4. Len(mark) = 1
      BY <3>1
    <3>5. Len(joined \o mark \o next \o t) = Len(joined) + Len(mark) + Len(next) + Len(t)
      OBVIOUS
    <3>6. FALSE
      BY <3>3, <3>4, <3>5
    <3>7. QED
      BY <3>6
  <2>4. QED
    BY <1>3, <2>1, <2>2, <2>3 DEF SplitAs
<1>9. QED
  BY <1>1, <1>2, <1>4, <1>6, <1>7, <1>8 DEF GoesOn

\* After the last action there is nothing.
LEMMA LastAction ==
    ASSUME NEW Ts \in Seq(Seq(Parts)), Ts # <<>>,
           NEW one \in Seq(Parts), NEW rest \in Seq(Parts), SplitAs(Ts, one, rest, Join(Ts))
    PROVE  one = <<>> /\ rest = <<>>
<1>1. CASE Join(Ts) \o <<Comma>> \o one \o rest = Join(Ts)
  <2>1. PICK joined \in Seq(Parts), mark \in Seq(Parts) : joined = Join(Ts) /\ mark = <<Comma>>
    BY JoinedWith
  <2>2. joined = joined \o mark \o one \o rest
    BY <1>1, <2>1
  <2>3. Len(mark) = 1
    BY <2>1
  <2>4. Len(joined \o mark \o one \o rest) = Len(joined) + Len(mark) + Len(one) + Len(rest)
    OBVIOUS
  <2>5. FALSE
    BY <2>2, <2>3, <2>4
  <2>6. QED
    BY <2>5
<1>2. QED
  BY <1>1 DEF SplitAs

\* Two ways to take a text apart, one of which begins with an action: what is
\* being read is what the action begins with.
LEMMA Position ==
    ASSUME NEW one \in Seq(Parts), NEW rest \in Seq(Parts), NEW act, Sound(act), NEW same,
           GoesOn(one \o rest, act, same), CommasInside(one)
    PROVE  \/ one = act /\ Begins(rest) /\ (rest = <<>> <=> same)
           \/ \E i \in DOMAIN act : /\ one = Upto(act, i - 1) /\ rest # <<>> /\ Head(rest) = act[i]
                                    /\ Append(one, Head(rest)) = Upto(act, i)
<1>1. act \in Seq(Parts) /\ act # <<>> /\ Height(act) = 0
  BY DEF Sound, Balanced
<1>2. PICK tail \in Seq(Parts) : Begins(tail) /\ (tail = <<>> <=> same) /\ one \o rest = act \o tail
  BY DEF GoesOn, Begins
<1>3. PICK n \in Nat, m \in Nat : n = Len(one) /\ m = Len(act)
  BY <1>1
<1>4. PICK all : all = one \o rest
  OBVIOUS
<1>5. /\ all \in Seq(Parts) /\ Len(all) = n + Len(rest)
      /\ (\A i \in 1..n : all[i] = one[i]) /\ \A i \in 1..Len(rest) : all[n + i] = rest[i]
  BY <1>3, <1>4, TwoPlaces
<1>6. /\ Len(all) = m + Len(tail)
      /\ (\A i \in 1..m : all[i] = act[i]) /\ \A i \in 1..Len(tail) : all[m + i] = tail[i]
  <2>1. all = act \o tail
    BY <1>2, <1>4
  <2>2. QED
    BY <1>1, <1>3, <2>1, TwoPlaces
<1>7. /\ \A i \in 0..n : Upto(all, i) = Upto(one, i)
      /\ \A i \in 0..m : Upto(all, i) = Upto(act, i)
  <2>1. \A i \in 0..n : Upto(one \o rest, i) = Upto(one, i)
    BY <1>3, PlacesOfTwo
  <2>2. \A i \in 0..m : Upto(act \o tail, i) = Upto(act, i)
    BY <1>1, <1>3, PlacesOfTwo
  <2>3. QED
    BY <1>2, <1>4, <2>1, <2>2
<1>8. Upto(one, n) = one /\ Upto(act, m) = act
  BY <1>1, <1>3, PlaceByPlace
<1>9. CASE n > m
  <2>1. PICK k \in Nat : k = m + 1
    OBVIOUS
  <2>2. k \in 1..n /\ k - 1 = m /\ m \in 0..n
    BY <1>9, <2>1
  <2>3. Len(tail) > 0 /\ 1 \in 1..Len(tail) /\ tail # <<>>
    BY <1>5, <1>6, <1>9
  <2>4. one[k] = Comma
    <3>1. all[k] = tail[1]
      BY <1>6, <2>1, <2>3
    <3>2. QED
      BY <1>2, <1>5, <2>2, <2>3, <3>1 DEF Begins
  <2>5. Upto(one, k) = Append(act, Comma)
    <3>1. Upto(one, k) = Append(Upto(one, k - 1), one[k])
      BY <1>3, <2>2, PlaceByPlace
    <3>2. Upto(one, m) = act
      BY <1>7, <1>8, <2>2
    <3>3. QED
      BY <2>2, <2>4, <3>1, <3>2
  <2>6. Height(Append(act, Comma)) = 0
    BY <1>1, HeightOf, Punctuation
  <2>7. Height(Upto(one, k)) > 0
    <3>1. k \in DOMAIN one
      BY <1>3, <2>2
    <3>2. QED
      BY <2>4, <3>1, InOrder
  <2>8. FALSE
    <3>1. PICK h : h = Height(Upto(one, k))
      OBVIOUS
    <3>2. h = 0 /\ h > 0
      BY <2>5, <2>6, <2>7, <3>1
    <3>3. QED
      BY <3>2
  <2>9. QED
    BY <2>8
<1>10. CASE n = m
  <2>1. one = act
    BY <1>7, <1>8, <1>10
  <2>2. rest = tail
    BY <1>2, <2>1, Cancel
  <2>3. QED
    BY <1>2, <2>1, <2>2
<1>11. CASE n < m
  <2>1. PICK k \in Nat : k = n + 1
    OBVIOUS
  <2>2. k \in 1..m /\ k - 1 = n /\ n \in 0..m /\ n \in 0..n
    BY <1>11, <2>1
  <2>3. Upto(act, n) = one
    BY <1>7, <1>8, <2>2
  <2>4. Len(rest) > 0 /\ 1 \in 1..Len(rest)
    BY <1>5, <1>6, <1>11
  <2>5. Head(rest) = act[k] /\ rest # <<>>
    <3>1. all[n + 1] = rest[1]
      BY <1>5, <2>4
    <3>2. all[k] = act[k]
      BY <1>6, <2>2
    <3>3. QED
      BY <2>1, <2>4, <3>1, <3>2
  <2>6. Upto(act, k) = Append(Upto(act, k - 1), act[k])
    BY <1>1, <1>3, <2>2, PlaceByPlace
  <2>7. k \in DOMAIN act
    BY <1>1, <1>3, <2>2
  <2>8. QED
    BY <2>2, <2>3, <2>5, <2>6, <2>7
<1>12. QED
  BY <1>9, <1>10, <1>11

\* A flow with a meaning that survives.
Legible(f) ==
    /\ f \in Asks /\ FlowMarshals(f)
    /\ \A i \in DOMAIN f.matches : ~MisreadMatch(f.matches[i])
    /\ \A i \in DOMAIN f.actions : ~MisreadAction(f.actions[i])

\* The actions of such a flow are read one by one.
LEMMA TokensReread ==
    ASSUME NEW f, Legible(f)
    PROVE  /\ Tokens(f) \in Seq(Seq(Parts)) /\ Len(Tokens(f)) = Len(f.actions)
           /\ Len(f.actions) \in Nat \ {0} /\ DOMAIN f.actions = 1..Len(f.actions)
           /\ \A i \in 1..Len(f.actions) : Reread(Tokens(f)[i], f.actions[i]) /\ Sound(Tokens(f)[i])
<1>1. f \in Asks /\ FlowMarshals(f)
  BY DEF Legible
<1>2. f.actions # <<>> /\ \A i \in DOMAIN f.actions : ActionMarshals(f.actions[i])
  BY <1>1 DEF FlowMarshals
<1>3. f.actions \in Seq([of : Names, args : Seq(Parts),
                         inner : Seq([of : Names, args : Seq(Parts), inner : {<<>>}])])
  BY <1>1 DEF Asks, Flows
<1>4. Len(f.actions) \in Nat \ {0} /\ DOMAIN f.actions = 1..Len(f.actions)
  BY <1>2, <1>3
<1>5. ASSUME NEW i \in DOMAIN f.actions PROVE Reread(Tokens(f)[i], f.actions[i])
  <2>1. ConstructedAction(f.actions[i])
    BY <1>1 DEF Asks
  <2>2. ~MisreadAction(f.actions[i])
    BY DEF Legible
  <2>3. Tokens(f)[i] = ActionTokens(f.actions[i])
    BY DEF Tokens
  <2>4. PICK a : a = f.actions[i]
    OBVIOUS
  <2>5. Reread(ActionTokens(a), a)
    BY <1>2, <2>1, <2>2, <2>4, ActionReread
  <2>6. QED
    BY <2>3, <2>4, <2>5
<1>6. QED
  BY <1>1, <1>4, <1>5, TokensType DEF Reread

\* Where the text of joined actions is being read.
Midway(Ts, acts, one, rest) ==
    /\ acts = Upto(Ts, Len(acts)) /\ Len(acts) <= Len(Ts)
    /\ SplitAs(acts, one, rest, Join(Ts)) /\ CommasInside(one)

\* An action ends where it was meant to, and no parenthesis closes too much.
LEMMA EndsAsMeant ==
    ASSUME NEW Ts \in Seq(Seq(Parts)), Ts # <<>>, \A i \in 1..Len(Ts) : Sound(Ts[i]),
           NEW acts \in Seq(Seq(Parts)), NEW one \in Seq(Parts), NEW rest \in Seq(Parts),
           Midway(Ts, acts, one, rest)
    PROVE  /\ (rest = <<>> /\ one # <<>>) \/ (rest # <<>> /\ Head(rest) = Comma /\ Height(one) = 0) =>
                 Len(acts) < Len(Ts) /\ one = Ts[Len(acts) + 1]
           /\ rest = <<>> /\ one = <<>> => Len(acts) = Len(Ts)
           /\ ~(rest # <<>> /\ Head(rest) = Close /\ Height(one) = 0)
<1>1. PICK k \in Nat, n \in Nat : k = Len(acts) /\ n = Len(Ts)
  OBVIOUS
<1>2. k <= n /\ acts = Upto(Ts, k) /\ SplitAs(acts, one, rest, Join(Ts)) /\ CommasInside(one)
  BY <1>1 DEF Midway
<1>3. CASE k = n
  <2>1. acts = Ts
    <3>1. Upto(Ts, n) = Ts
      BY <1>1, PlaceByPlace
    <3>2. QED
      BY <1>2, <1>3, <3>1
  <2>2. one = <<>> /\ rest = <<>>
    BY <1>2, <2>1, LastAction
  <2>3. QED
    BY <1>1, <1>3, <2>2
<1>4. CASE k < n
  <2>1. PICK m \in 1..n : m = k + 1
    BY <1>4
  <2>2. Sound(Ts[m])
    BY <1>1
  <2>3. GoesOn(one \o rest, Ts[m], m = n)
    <3>1. k \in 0..n
      BY <1>4
    <3>2. SplitAs(Upto(Ts, k), one, rest, Join(Ts))
      BY <1>2
    <3>3. GoesOn(one \o rest, Ts[k + 1], k + 1 = n)
      BY <1>1, <1>4, <3>1, <3>2, NextAction
    <3>4. QED
      BY <2>1, <3>3
  <2>4. PICK act : act = Ts[m]
    OBVIOUS
  <2>5. \/ one = act /\ Begins(rest)
        \/ \E i \in DOMAIN act : /\ one = Upto(act, i - 1) /\ rest # <<>> /\ Head(rest) = act[i]
                                 /\ Append(one, Head(rest)) = Upto(act, i)
    <3>1. PICK same : same = (m = n)
      OBVIOUS
    <3>2. GoesOn(one \o rest, act, same) /\ Sound(act) /\ CommasInside(one)
      BY <1>2, <2>2, <2>3, <2>4, <3>1
    <3>3. QED
      BY <3>2, Position
  <2>6. CASE one = act /\ Begins(rest)
    <3>1. one # <<>>
      BY <2>2, <2>4, <2>6 DEF Sound
    <3>2. rest # <<>> => Head(rest) = Comma
      BY <2>6 DEF Begins
    <3>3. Comma # Close
      BY Punctuation
    <3>4. QED
      BY <1>1, <1>4, <2>1, <2>4, <2>6, <3>1, <3>2, <3>3
  <2>7. CASE \E i \in DOMAIN act : /\ one = Upto(act, i - 1) /\ rest # <<>> /\ Head(rest) = act[i]
                                   /\ Append(one, Head(rest)) = Upto(act, i)
    <3>1. PICK i \in DOMAIN act : /\ rest # <<>> /\ Head(rest) = act[i]
                                  /\ Append(one, Head(rest)) = Upto(act, i)
      BY <2>7
    <3>2. PICK h : h = Height(Upto(act, i))
      OBVIOUS
    <3>3. h >= 0 /\ (act[i] = Comma => h > 0)
      BY <2>2, <2>4, <3>2, InOrder DEF Sound
    <3>4. PICK t \in Parts : t = Head(rest)
      BY <3>1
    <3>5. PICK g : g = Height(one)
      OBVIOUS
    <3>6. g \in Int /\ (t = Comma => h = g) /\ (t = Close => h = g - 1)
      BY <3>1, <3>2, <3>4, <3>5, HeightOf, Punctuation
    <3>7. ~(t = Comma /\ g = 0) /\ ~(t = Close /\ g = 0)
      BY <3>1, <3>3, <3>4, <3>6
    <3>8. QED
      BY <3>1, <3>4, <3>5, <3>7
  <2>8. QED
    BY <2>5, <2>6, <2>7
<1>5. QED
  BY <1>2, <1>3, <1>4

\* What is taken of a sequence is what it has at those places.
LEMMA AmongMembers ==
    ASSUME NEW T, NEW s \in Seq(T), NEW places
    PROVE  ToSet(Among(s, places)) = {s[i] : i \in DOMAIN s \cap places}
<1>1. PICK a \in [0..Len(s) -> Seq(T)] : IsTaken(a, s, places) /\ Among(s, places) = a[Len(s)]
  BY AmongIsTaken
<1>2. PICK n \in Nat : n = Len(s)
  OBVIOUS
<1> DEFINE S == {i \in 0..n : ToSet(a[i]) = {s[k] : k \in 1..i \cap places}}
<1>3. 0 \in S
  <2>1. a[0] = <<>>
    BY <1>1 DEF IsTaken
  <2>2. 1..0 \cap places = {}
    OBVIOUS
  <2>3. QED
    BY <2>1, <2>2 DEF ToSet
<1>4. ASSUME NEW i \in 1..n, i - 1 \in S PROVE i \in S
  <2>1. i \in 0..n /\ i - 1 \in 0..n
    BY <1>4
  <2>2. PICK x \in Seq(T) : x = a[i - 1]
    BY <1>1, <1>2, <2>1
  <2>3. ToSet(x) = {s[k] : k \in 1..i - 1 \cap places}
    BY <1>4, <2>2
  <2>4. a[i] = IF i \in places THEN Append(x, s[i]) ELSE x
    BY <1>1, <1>2, <2>2 DEF IsTaken
  <2>5. 1..i = 1..i - 1 \cup {i}
    BY <1>4
  <2>6. CASE i \in places
    <3>1. 1..i \cap places = (1..i - 1 \cap places) \cup {i}
      BY <2>5, <2>6
    <3>2. PICK y : y = Append(x, s[i])
      OBVIOUS
    <3>3. /\ DOMAIN y = 1..Len(x) + 1 /\ y[Len(x) + 1] = s[i]
          /\ \A j \in 1..Len(x) : y[j] = x[j]
      BY <3>2
    <3>4. ToSet(y) = ToSet(x) \cup {s[i]}
      <4>1. DOMAIN y = DOMAIN x \cup {Len(x) + 1} /\ DOMAIN x = 1..Len(x)
        BY <3>3
      <4>2. QED
        BY <3>3, <4>1 DEF ToSet
    <3>5. ToSet(y) = {s[k] : k \in 1..i \cap places}
      BY <2>3, <3>1, <3>4
    <3>6. QED
      BY <2>1, <2>4, <2>6, <3>2, <3>5
  <2>7. CASE i \notin places
    <3>1. 1..i \cap places = 1..i - 1 \cap places
      BY <2>5, <2>7
    <3>2. QED
      BY <2>1, <2>2, <2>3, <2>4, <2>7, <3>1
  <2>8. QED
    BY <2>6, <2>7
<1>5. 0..n \subseteq S
  <2> HIDE DEF S
  <2>1. QED
    BY <1>3, <1>4, CountTo
<1>6. n \in 0..n
  OBVIOUS
<1>7. ToSet(a[n]) = {s[k] : k \in 1..n \cap places}
  BY <1>5, <1>6
<1>8. DOMAIN s = 1..n
  BY <1>2
<1>9. QED
  BY <1>1, <1>2, <1>7, <1>8

\* The keys of the fields of a flow, and those of what it does not keep.
FieldKeys == {Empty, "priority", "table", "idle_timeout", "cookie", "in_port"}
Counters  == {"duration", "n_packets", "n_bytes"}
\* No two of them are one, and none is of a match.
LEMMA FieldsApart ==
    /\ Empty \notin Counters \cup (FieldKeys \ {Empty}) /\ Counters \cap FieldKeys = {}
    /\ \A key \in FieldKeys \cup Counters : key \notin KnownKeys \ {"in_port"}
    /\ Empty # "LOCAL"
<1>1. \A key \in FieldKeys : key \notin KnownKeys \ {"in_port"}
  BY KeysDiffer DEF FieldKeys
<1>2. \A key \in Counters : key \notin KnownKeys
  BY DEF Counters, KnownKeys, DecimalKeys, ByteKeys, IntKeys, MaskedKeys, TciKeys, PortKeys, VlanKeys,
         LinkKeys, HardwareKeys, IPv4Keys, IPv6Keys, FlagKeys
<1>3. Empty \notin Counters \cup {"priority", "table", "idle_timeout", "cookie", "in_port"} /\ Empty # "LOCAL"
  BY DEF Empty, Counters
<1>4. Counters \cap {"priority", "table", "idle_timeout", "cookie", "in_port"} = {}
  BY DEF Counters
<1>5. QED
  BY <1>1, <1>2, <1>3, <1>4 DEF FieldKeys

\* A flow that was read has a field of the flow that was meant.
Agree(g, f, key) ==
    /\ key = Empty          => g.protocol = f.protocol
    /\ key = "priority"     => g.priority = f.priority
    /\ key = "table"        => g.table = f.table
    /\ key = "idle_timeout" => g.idle = f.idle
    /\ key = "cookie"       => g.cookie = f.cookie
    /\ key = "in_port"      => g.inport = f.inport

\* A matcher says what a field of a flow is, or nothing that is kept.
PortPart(f) == IF f.inport = PortLOCAL THEN Word("LOCAL") ELSE Dec(f.inport)
Says(m, f) ==
    /\ m \in Matchers /\ m.key \in FieldKeys \cup Counters
    /\ m.key = Empty          => m.val = <<f.protocol>> /\ m.space = FALSE
    /\ m.key = "priority"     => m.val = <<Dec(f.priority)>>
    /\ m.key = "table"        => m.val = <<Dec(f.table)>>
    /\ m.key = "idle_timeout" => m.val = <<Dec(f.idle)>>
    /\ m.key = "cookie"       => m.val = <<Hex(f.cookie)>>
    /\ m.key = "in_port"      => m.val = <<PortPart(f)>>

\* Such a matcher is read without an error.
LEMMA SaidIsRead ==
    ASSUME NEW f \in Asks, NEW m, Says(m, f)
    PROVE  MatcherReads(m)
<1>1. f.cookie \in Int /\ f.cookie >= 0
  BY DEF Asks, Flows
<1>2. \A n : IsDecimal(<<Dec(n)>>)
  BY DEF Dec, Part, IsDecimal
<1>3. \A n : Len(<<Hex(n)>>) = 1 /\ IsNumber(<<Hex(n)>>[1]) /\ <<Hex(n)>>[1].n = n
  BY DEF Hex, Part, IsNumber
<1>4. m.key \in FieldKeys \cup Counters /\ m.key \notin KnownKeys \ {"in_port"}
  BY FieldsApart DEF Says
<1>5. m.key \in {"priority", "table", "idle_timeout"} => IsDecimal(m.val)
  BY <1>2 DEF Says
<1>6. m.key = "cookie" => Len(m.val) = 1 /\ IsNumber(m.val[1]) /\ m.val[1].n >= 0
  BY <1>1, <1>3 DEF Says
<1>7. m.key = "in_port" => IsDecimal(m.val) \/ m.val = <<Word("LOCAL")>>
  BY <1>2 DEF Says, PortPart
<1> HIDE DEF KnownKeys
<1>8. QED
  BY <1>4, <1>5, <1>6, <1>7 DEF MatcherReads

\* One flow is another but for a field.
Kept(h, g, key) ==
    /\ h.matches = g.matches /\ h.actions = g.actions
    /\ key # Empty          => h.protocol = g.protocol
    /\ key # "priority"     => h.priority = g.priority
    /\ key # "table"        => h.table = g.table
    /\ key # "idle_timeout" => h.idle = g.idle
    /\ key # "cookie"       => h.cookie = g.cookie
    /\ key # "in_port"      => h.inport = g.inport
\* That is what setting a field does.
LEMMA OneFieldSet ==
    ASSUME NEW g \in ReadFields, NEW x
    PROVE  /\ Kept([g EXCEPT !.protocol = x], g, Empty) /\ [g EXCEPT !.protocol = x].protocol = x
           /\ Kept([g EXCEPT !.priority = x], g, "priority") /\ [g EXCEPT !.priority = x].priority = x
           /\ Kept([g EXCEPT !.table = x], g, "table") /\ [g EXCEPT !.table = x].table = x
           /\ Kept([g EXCEPT !.idle = x], g, "idle_timeout") /\ [g EXCEPT !.idle = x].idle = x
           /\ Kept([g EXCEPT !.cookie = x], g, "cookie") /\ [g EXCEPT !.cookie = x].cookie = x
           /\ Kept([g EXCEPT !.inport = x], g, "in_port") /\ [g EXCEPT !.inport = x].inport = x
BY DEF ReadFields, Kept
\* The other fields agree if they did.
LEMMA OthersAgree ==
    ASSUME NEW h, NEW g, NEW f, NEW k \in FieldKeys, Kept(h, g, k), Agree(h, f, k)
    PROVE  \A key \in FieldKeys : Agree(g, f, key) => Agree(h, f, key)
<1>1. ASSUME NEW key \in FieldKeys, Agree(g, f, key), key # k PROVE Agree(h, f, key)
  BY <1>1 DEF Kept, Agree
<1>2. QED
  BY <1>1

\* A field is one of six.
LEMMA AgreeIs ==
    ASSUME NEW h, NEW f
    PROVE  /\ Agree(h, f, Empty) <=> h.protocol = f.protocol
           /\ Agree(h, f, "priority") <=> h.priority = f.priority
           /\ Agree(h, f, "table") <=> h.table = f.table
           /\ Agree(h, f, "idle_timeout") <=> h.idle = f.idle
           /\ Agree(h, f, "cookie") <=> h.cookie = f.cookie
           /\ Agree(h, f, "in_port") <=> h.inport = f.inport
BY DEF Agree, Empty

\* A matcher that says what a field is sets it, and nothing else.
LEMMA SaidIsSet ==
    ASSUME NEW f \in Asks, NEW g \in ReadFlows, NEW m, Says(m, f)
    PROVE  /\ WithMatcher(g, m).matches = g.matches /\ WithMatcher(g, m).actions = g.actions
           /\ m.key \in FieldKeys => Agree(WithMatcher(g, m), f, m.key)
           /\ \A key \in FieldKeys : Agree(g, f, key) => Agree(WithMatcher(g, m), f, key)
<1>1. g \in ReadFields
  BY DEF ReadFlows
<1>2. \A n : Dec(n).n = n /\ Hex(n).n = n /\ Dec(n).word = Empty /\ Word(n).word = n
  BY DEF Dec, Hex, Word, Part
<1>3. \A p : <<p>>[1] = p /\ <<p>> # <<>>
  OBVIOUS
<1>4. m.key \in FieldKeys \cup Counters /\ m.key \notin KnownKeys \ {"in_port"}
  BY FieldsApart DEF Says
<1>5. PICK h : h = WithMatcher(g, m)
  OBVIOUS
<1>10. /\ m.key = Empty /\ m.val # <<>> => h =
                 [g EXCEPT !.protocol = IF m.space THEN Signed(" ", m.val[1].word) ELSE m.val[1]]
       /\ m.key = "priority"     => h = [g EXCEPT !.priority = m.val[1].n]
       /\ m.key = "table"        => h = [g EXCEPT !.table = m.val[1].n]
       /\ m.key = "idle_timeout" => h = [g EXCEPT !.idle = m.val[1].n]
       /\ m.key = "cookie"       => h = [g EXCEPT !.cookie = m.val[1].n]
       /\ m.key = "in_port"      => h =
             [g EXCEPT !.inport = IF m.val[1].word = "LOCAL" THEN PortLOCAL ELSE m.val[1].n]
  BY <1>5, WithMatcherCases
<1>6. ASSUME m.key \in FieldKeys PROVE Kept(h, g, m.key) /\ Agree(h, f, m.key)
  <2>1. PICK p : p = m.val[1]
    OBVIOUS
  <2>2. CASE m.key = Empty
    <3>1. m.val # <<>> /\ p = f.protocol /\ m.space = FALSE
      BY <1>3, <2>1, <2>2 DEF Says
    <3>2. h = [g EXCEPT !.protocol = p]
      BY <1>10, <2>1, <2>2, <3>1
    <3>3. Kept(h, g, Empty) /\ h.protocol = p
      BY <1>1, <3>2, OneFieldSet
    <3>4. QED
      BY <2>2, <3>1, <3>3, AgreeIs
  <2>3. CASE m.key = "priority"
    <3>1. PICK n : n = p.n
      OBVIOUS
    <3>2. n = f.priority
      BY <1>2, <1>3, <2>1, <2>3, <3>1 DEF Says
    <3>3. h = [g EXCEPT !.priority = n]
      BY <1>10, <2>1, <2>3, <3>1
    <3>4. Kept(h, g, "priority") /\ h.priority = n
      BY <1>1, <3>3, OneFieldSet
    <3>5. QED
      BY <2>3, <3>2, <3>4, AgreeIs
  <2>4. CASE m.key = "table"
    <3>1. PICK n : n = p.n
      OBVIOUS
    <3>2. n = f.table
      BY <1>2, <1>3, <2>1, <2>4, <3>1 DEF Says
    <3>3. h = [g EXCEPT !.table = n]
      BY <1>10, <2>1, <2>4, <3>1
    <3>4. Kept(h, g, "table") /\ h.table = n
      BY <1>1, <3>3, OneFieldSet
    <3>5. QED
      BY <2>4, <3>2, <3>4, AgreeIs
  <2>5. CASE m.key = "idle_timeout"
    <3>1. PICK n : n = p.n
      OBVIOUS
    <3>2. n = f.idle
      BY <1>2, <1>3, <2>1, <2>5, <3>1 DEF Says
    <3>3. h = [g EXCEPT !.idle = n]
      BY <1>10, <2>1, <2>5, <3>1
    <3>4. Kept(h, g, "idle_timeout") /\ h.idle = n
      BY <1>1, <3>3, OneFieldSet
    <3>5. QED
      BY <2>5, <3>2, <3>4, AgreeIs
  <2>6. CASE m.key = "cookie"
    <3>1. PICK n : n = p.n
      OBVIOUS
    <3>2. n = f.cookie
      BY <1>2, <1>3, <2>1, <2>6, <3>1 DEF Says
    <3>3. h = [g EXCEPT !.cookie = n]
      BY <1>10, <2>1, <2>6, <3>1
    <3>4. Kept(h, g, "cookie") /\ h.cookie = n
      BY <1>1, <3>3, OneFieldSet
    <3>5. QED
      BY <2>6, <3>2, <3>4, AgreeIs
  <2>7. CASE m.key = "in_port"
    <3>1. PICK n : n = IF p.word = "LOCAL" THEN PortLOCAL ELSE p.n
      OBVIOUS
    <3>2. n = f.inport
      BY <1>2, <1>3, <2>1, <2>7, <3>1, FieldsApart DEF Says, PortPart
    <3>3. h = [g EXCEPT !.inport = n]
      BY <1>10, <2>1, <2>7, <3>1
    <3>4. Kept(h, g, "in_port") /\ h.inport = n
      BY <1>1, <3>3, OneFieldSet
    <3>5. QED
      BY <2>7, <3>2, <3>4, AgreeIs
  <2>8. QED
    BY <1>6, <2>2, <2>3, <2>4, <2>5, <2>6, <2>7 DEF FieldKeys
<1>7. CASE m.key \in FieldKeys
  <2>1. h.matches = g.matches /\ h.actions = g.actions
    BY <1>6, <1>7 DEF Kept
  <2>2. QED
    BY <1>5, <1>6, <1>7, <2>1, OthersAgree
<1>8. CASE m.key \in Counters
  <2>1. m.key \notin FieldKeys
    BY <1>8, FieldsApart
  <2>2. h = g
    BY <1>4, <1>5, <2>1, WithMatcherCases DEF FieldKeys
  <2>3. QED
    BY <1>5, <2>1, <2>2
<1>9. QED
  BY <1>4, <1>7, <1>8

\* The matchers that are left of a line: some that say what fields are, the
\* matches after the first k, and again some that say what fields are.
Laid(rest, a, k, f) ==
    /\ a + (Len(f.matches) - k) <= Len(rest)
    /\ \A i \in 1..Len(rest) :
          IF a < i /\ i <= a + (Len(f.matches) - k) THEN rest[i] = MatchMatcher(f.matches[i - a + k])
          ELSE Says(rest[i], f)
MatchesRead(g, f, k) == Len(g.matches) = k /\ \A i \in 1..k : SameMatch(g.matches[i], f.matches[i])
HasKey(rest, key)    == \E i \in 1..Len(rest) : rest[i].key = key
\* What was read of a flow, with what is left of its line, is the flow.
MatchersAre(f, g, rest) ==
    /\ \E a \in Nat, k \in 0..Len(f.matches) : Laid(rest, a, k, f) /\ MatchesRead(g, f, k)
    /\ \A key \in FieldKeys : Agree(g, f, key) \/ HasKey(rest, key)

\* The matchers that are left after the first.
LEMMA TailPlaces ==
    ASSUME NEW T, NEW rest \in Seq(T), rest # <<>>
    PROVE  /\ Tail(rest) \in Seq(T) /\ Len(rest) \in Nat \ {0} /\ Len(Tail(rest)) = Len(rest) - 1
           /\ Head(rest) = rest[1] /\ Head(rest) \in T
           /\ \A i \in 1..Len(rest) - 1 : Tail(rest)[i] = rest[i + 1]
BY HeadTailProperties

\* The first of them is one or the other.
LEMMA LaidNext ==
    ASSUME NEW f, NEW n \in Nat, n = Len(f.matches), NEW rest \in Seq(Matchers), rest # <<>>,
           NEW a \in Nat, NEW k \in 0..n, Laid(rest, a, k, f)
    PROVE  \/ Says(Head(rest), f) /\ \E b \in Nat : Laid(Tail(rest), b, k, f)
           \/ k < n /\ Head(rest) = MatchMatcher(f.matches[k + 1]) /\ Laid(Tail(rest), a, k + 1, f)
<1>1. PICK len \in Nat \ {0} : len = Len(rest)
  BY TailPlaces
<1>2. PICK t : t = Tail(rest) /\ Len(t) = len - 1 /\ \A i \in 1..len - 1 : t[i] = rest[i + 1]
  BY <1>1, TailPlaces
<1>3. a + (n - k) <= len /\ \A i \in 1..len : IF a < i /\ i <= a + (n - k) THEN rest[i] = MatchMatcher(f.matches[i - a + k])
                                              ELSE Says(rest[i], f)
  BY <1>1 DEF Laid
<1>4. Head(rest) = rest[1] /\ 1 \in 1..len
  BY <1>1, TailPlaces
<1>5. CASE a > 0
  <2>1. Says(rest[1], f)
    BY <1>3, <1>4, <1>5
  <2>2. PICK b \in Nat : b = a - 1
    BY <1>5
  <2>3. b + (n - k) <= len - 1
    BY <1>3, <2>2
  <2>4. ASSUME NEW i \in 1..len - 1
        PROVE  IF b < i /\ i <= b + (n - k) THEN t[i] = MatchMatcher(f.matches[i - b + k]) ELSE Says(t[i], f)
    <3>1. PICK j \in 1..len : j = i + 1
      OBVIOUS
    <3>2. t[i] = rest[j]
      BY <1>2, <3>1
    <3>3. (a < j /\ j <= a + (n - k) <=> b < i /\ i <= b + (n - k)) /\ j - a + k = i - b + k
      BY <2>2, <3>1
    <3>4. QED
      BY <1>3, <3>2, <3>3
  <2>5. Laid(t, b, k, f)
    BY <1>2, <2>3, <2>4 DEF Laid
  <2>6. QED
    BY <1>2, <1>4, <2>1, <2>5
<1>6. CASE a = 0 /\ k < n
  <2>1. rest[1] = MatchMatcher(f.matches[k + 1])
    <3>1. a < 1 /\ 1 <= a + (n - k) /\ 1 - a + k = k + 1
      BY <1>6
    <3>2. QED
      BY <1>3, <1>4, <3>1
  <2>2. a + (n - (k + 1)) <= len - 1
    BY <1>3
  <2>3. ASSUME NEW i \in 1..len - 1
        PROVE  IF a < i /\ i <= a + (n - (k + 1)) THEN t[i] = MatchMatcher(f.matches[i - a + (k + 1)])
               ELSE Says(t[i], f)
    <3>1. PICK j \in 1..len : j = i + 1
      OBVIOUS
    <3>2. t[i] = rest[j]
      BY <1>2, <3>1
    <3>3. (a < j /\ j <= a + (n - k) <=> a < i /\ i <= a + (n - (k + 1))) /\ j - a + k = i - a + (k + 1)
      BY <1>6, <3>1
    <3>4. QED
      BY <1>3, <3>2, <3>3
  <2>4. Laid(t, a, k + 1, f)
    BY <1>2, <2>2, <2>3 DEF Laid
  <2>5. QED
    BY <1>2, <1>4, <1>6, <2>1, <2>4
<1>7. CASE a = 0 /\ k = n
  <2>1. Says(rest[1], f)
    BY <1>3, <1>4, <1>7
  <2>2. ASSUME NEW i \in 1..len - 1 PROVE Says(t[i], f) /\ ~(a < i /\ i <= a + (n - k))
    <3>1. PICK j \in 1..len : j = i + 1
      OBVIOUS
    <3>2. t[i] = rest[j]
      BY <1>2, <3>1
    <3>3. QED
      BY <1>3, <1>7, <3>1, <3>2
  <2>3. a + (n - k) <= len - 1
    BY <1>7
  <2>4. Laid(t, a, k, f)
    BY <1>2, <2>2, <2>3 DEF Laid
  <2>5. QED
    BY <1>2, <1>4, <2>1, <2>4
<1>8. QED
  BY <1>5, <1>6, <1>7

\* What a matcher sets is no longer left.
LEMMA KeysLeft ==
    ASSUME NEW f, NEW g, NEW h, NEW rest \in Seq(Matchers), rest # <<>>,
           \A key \in FieldKeys : Agree(g, f, key) \/ HasKey(rest, key),
           \A key \in FieldKeys : Agree(g, f, key) \/ key = Head(rest).key => Agree(h, f, key)
    PROVE  \A key \in FieldKeys : Agree(h, f, key) \/ HasKey(Tail(rest), key)
<1>1. SUFFICES ASSUME NEW key \in FieldKeys, ~Agree(h, f, key) PROVE HasKey(Tail(rest), key)
  OBVIOUS
<1>2. HasKey(rest, key) /\ Head(rest).key # key
  BY <1>1
<1>3. PICK i \in 1..Len(rest) : rest[i].key = key
  BY <1>2 DEF HasKey
<1>4. i # 1
  BY <1>2, <1>3, TailPlaces
<1>5. PICK len \in Nat \ {0} : len = Len(rest)
  BY TailPlaces
<1>6. PICK j \in 1..len - 1 : j + 1 = i
  <2>1. i - 1 \in 1..len - 1 /\ (i - 1) + 1 = i
    BY <1>4, <1>5
  <2>2. QED
    BY <2>1
<1>7. Tail(rest)[j] = rest[i] /\ j \in 1..Len(Tail(rest))
  BY <1>5, <1>6, TailPlaces
<1>8. QED
  BY <1>3, <1>7 DEF HasKey

\* A match sets no field.
LEMMA MatchIsSet ==
    ASSUME NEW g \in ReadFields, NEW m, m.key \in KnownKeys \ {"in_port"}, ~m.space,
           NEW all, all = Append(g.matches, MatchOf(m.key, m.val))
    PROVE  /\ WithMatcher(g, m).matches = all /\ WithMatcher(g, m).actions = g.actions
           /\ \A f : \A key \in FieldKeys : Agree(g, f, key) => Agree(WithMatcher(g, m), f, key)
<1>1. WithMatcher(g, m) = [g EXCEPT !.matches = all]
  BY WithMatcherCases
<1>2. PICK h : h = [g EXCEPT !.matches = all]
  OBVIOUS
<1>3. /\ h.matches = all /\ h.actions = g.actions /\ h.protocol = g.protocol /\ h.priority = g.priority
      /\ h.table = g.table /\ h.idle = g.idle /\ h.cookie = g.cookie /\ h.inport = g.inport
  BY <1>2 DEF ReadFields
<1>4. \A f : \A key \in FieldKeys : Agree(g, f, key) => Agree(h, f, key)
  BY <1>3 DEF Agree
<1>5. QED
  BY <1>1, <1>2, <1>3, <1>4

\* A match that is meant is read, and is one more.
MatchAdded(f, g, h, m, j) ==
    /\ MatcherReads(m) /\ MatchesRead(h, f, j) /\ h.actions = g.actions
    /\ \A key \in FieldKeys : Agree(g, f, key) => Agree(h, f, key)
    /\ m.key \notin FieldKeys
\* So it is whichever match comes next.
LEMMA MatchIsRead ==
    ASSUME NEW f, Legible(f), NEW g \in ReadFlows, NEW j \in DOMAIN f.matches, j \in Nat \ {0},
           MatchesRead(g, f, j - 1), NEW m, m = MatchMatcher(f.matches[j])
    PROVE  MatchAdded(f, g, WithMatcher(g, m), m, j)
<1>1. PICK match : match = f.matches[j]
  OBVIOUS
<1>2. Constructed(match) /\ Marshals(match) /\ ~MisreadMatch(match)
  BY <1>1 DEF Legible, Asks, FlowMarshals, MatchesMarshal
<1>3. /\ match.of \in KnownKeys \ {"in_port"} /\ m = Matcher(match.of, Written(match))
      /\ Parses(match.of, Written(match)) /\ SameMatch(MatchOf(match.of, Written(match)), match)
  BY <1>1, <1>2, MatchReread
<1>4. m.key = match.of /\ m.val = Written(match) /\ m.space = FALSE
  BY <1>3 DEF Matcher
<1>5. m.key \in KnownKeys \ {"in_port"} /\ m.key \notin FieldKeys
  BY <1>3, <1>4, FieldsApart
<1>6. MatcherReads(m)
  <2> HIDE DEF KnownKeys
  <2>1. m.key \notin {"priority", "table", "idle_timeout", "cookie", "in_port"}
    BY <1>5 DEF FieldKeys
  <2>2. Parses(m.key, m.val)
    BY <1>3, <1>4
  <2>3. QED
    BY <1>4, <1>5, <2>1, <2>2 DEF MatcherReads
<1>7. PICK more : more = MatchOf(m.key, m.val)
  OBVIOUS
<1>8. SameMatch(more, match)
  BY <1>3, <1>4, <1>7
<1>10. PICK ms \in Seq(ReadMatches) : ms = g.matches
  BY DEF ReadFlows, ReadFields
<1>11. PICK all : all = Append(ms, more)
  OBVIOUS
<1>12. PICK h : h = WithMatcher(g, m)
  OBVIOUS
<1>13. /\ h.matches = all /\ h.actions = g.actions
       /\ \A key \in FieldKeys : Agree(g, f, key) => Agree(h, f, key)
  <2>1. g \in ReadFields /\ ~m.space
    BY <1>4 DEF ReadFlows
  <2>2. all = Append(g.matches, MatchOf(m.key, m.val))
    BY <1>7, <1>10, <1>11
  <2>3. QED
    BY <1>5, <1>12, <2>1, <2>2, MatchIsSet
<1>17. MatchesRead(h, f, j)
  <2>1. Len(ms) = j - 1 /\ \A i \in 1..j - 1 : SameMatch(ms[i], f.matches[i])
    BY <1>10 DEF MatchesRead
  <2>2. Len(all) = j /\ all[j] = more /\ \A i \in 1..j - 1 : all[i] = ms[i]
    BY <1>11, <2>1
  <2>3. ASSUME NEW i \in 1..j PROVE SameMatch(all[i], f.matches[i])
    <3>1. CASE i = j
      BY <1>1, <1>8, <2>2, <3>1
    <3>2. CASE i # j
      <4>1. i \in 1..j - 1
        BY <3>2
      <4>2. QED
        BY <2>1, <2>2, <4>1
    <3>3. QED
      BY <3>1, <3>2
  <2>4. QED
    BY <1>13, <2>2, <2>3 DEF MatchesRead
<1>18. QED
  BY <1>5, <1>6, <1>12, <1>13, <1>17 DEF MatchAdded

\* Whichever matcher comes next is read as it was meant.
LEMMA MatcherIsRead ==
    ASSUME NEW f, Legible(f), NEW g \in ReadFlows, NEW rest \in Seq(Matchers), rest # <<>>,
           MatchersAre(f, g, rest)
    PROVE  /\ MatcherReads(Head(rest)) /\ MatchersAre(f, WithMatcher(g, Head(rest)), Tail(rest))
           /\ WithMatcher(g, Head(rest)).actions = g.actions
<1>1. PICK n \in Nat : n = Len(f.matches) /\ DOMAIN f.matches = 1..n
  BY DEF Legible, Asks, Flows
<1>2. PICK a \in Nat, k \in 0..n : Laid(rest, a, k, f) /\ MatchesRead(g, f, k)
  BY <1>1 DEF MatchersAre
<1>3. \A key \in FieldKeys : Agree(g, f, key) \/ HasKey(rest, key)
  BY DEF MatchersAre
<1>4. PICK m : m = Head(rest)
  OBVIOUS
<1>5. PICK h : h = WithMatcher(g, m)
  OBVIOUS
<1>6. CASE Says(m, f) /\ \E b \in Nat : Laid(Tail(rest), b, k, f)
  <2>1. f \in Asks
    BY DEF Legible
  <2>2. MatcherReads(m)
    BY <1>6, <2>1, SaidIsRead
  <2>3. /\ h.matches = g.matches /\ h.actions = g.actions /\ (m.key \in FieldKeys => Agree(h, f, m.key))
        /\ \A key \in FieldKeys : Agree(g, f, key) => Agree(h, f, key)
    BY <1>5, <1>6, <2>1, SaidIsSet
  <2>4. MatchesRead(h, f, k)
    BY <1>2, <2>3 DEF MatchesRead
  <2>5. \A key \in FieldKeys : Agree(h, f, key) \/ HasKey(Tail(rest), key)
    BY <1>3, <1>4, <2>3, KeysLeft
  <2>6. MatchersAre(f, h, Tail(rest))
    BY <1>1, <1>6, <2>4, <2>5 DEF MatchersAre
  <2>7. QED
    BY <1>4, <1>5, <2>2, <2>3, <2>6
<1>7. CASE k < n /\ m = MatchMatcher(f.matches[k + 1]) /\ Laid(Tail(rest), a, k + 1, f)
  <2>1. k + 1 \in 1..n /\ k + 1 \in 0..n /\ k \in Nat
    BY <1>7
  <2>2. /\ MatcherReads(m) /\ MatchesRead(h, f, k + 1) /\ h.actions = g.actions
        /\ \A key \in FieldKeys : Agree(g, f, key) => Agree(h, f, key)
        /\ m.key \notin FieldKeys
    <3>1. PICK j \in DOMAIN f.matches : j = k + 1
      BY <1>1, <2>1
    <3>2. j \in Nat \ {0} /\ j - 1 = k /\ m = MatchMatcher(f.matches[j])
      BY <1>7, <2>1, <3>1
    <3>3. MatchesRead(g, f, j - 1)
      BY <1>2, <3>2
    <3>4. MatchAdded(f, g, WithMatcher(g, m), m, j)
      BY <3>2, <3>3, MatchIsRead
    <3>5. QED
      BY <1>5, <3>1, <3>4 DEF MatchAdded
  <2>3. \A key \in FieldKeys : Agree(h, f, key) \/ HasKey(Tail(rest), key)
    BY <1>3, <1>4, <2>2, KeysLeft
  <2>4. MatchersAre(f, h, Tail(rest))
    BY <1>1, <1>7, <2>1, <2>2, <2>3 DEF MatchersAre
  <2>5. QED
    BY <1>4, <1>5, <2>2, <2>4
<1>8. QED
  BY <1>1, <1>2, <1>4, <1>6, <1>7, LaidNext

\* When none is left, all of them have been read.
LEMMA AllAreRead ==
    ASSUME NEW f, Legible(f), NEW g, MatchersAre(f, g, <<>>)
    PROVE  MatchesRead(g, f, Len(f.matches)) /\ \A key \in FieldKeys : Agree(g, f, key)
<1>1. PICK n \in Nat : n = Len(f.matches)
  BY DEF Legible, Asks, Flows
<1>2. PICK a \in Nat, k \in 0..n : Laid(<<>>, a, k, f) /\ MatchesRead(g, f, k)
  BY <1>1 DEF MatchersAre
<1>3. a + (n - k) <= 0
  BY <1>1, <1>2 DEF Laid
<1>4. k = n
  BY <1>3
<1>5. \A key \in FieldKeys : ~HasKey(<<>>, key)
  BY DEF HasKey
<1>6. QED
  BY <1>1, <1>2, <1>4, <1>5 DEF MatchersAre

\* What sequences consist of.
LEMMA SetOfTwo ==
    ASSUME NEW T, NEW s \in Seq(T), NEW t \in Seq(T)
    PROVE  ToSet(s \o t) = ToSet(s) \cup ToSet(t)
<1>1. PICK all : all = s \o t
  OBVIOUS
<1>2. /\ Len(all) = Len(s) + Len(t) /\ DOMAIN all = 1..Len(s) + Len(t)
      /\ \A i \in 1..Len(s) : all[i] = s[i]
      /\ \A i \in 1..Len(t) : all[Len(s) + i] = t[i]
  BY <1>1, TwoPlaces
<1>3. PICK m \in Nat, n \in Nat : m = Len(s) /\ n = Len(t) /\ DOMAIN s = 1..m /\ DOMAIN t = 1..n
  OBVIOUS
<1>4. ASSUME NEW i \in 1..m + n PROVE all[i] \in ToSet(s) \cup ToSet(t)
  <2>1. CASE i <= m
    <3>1. i \in DOMAIN s /\ all[i] = s[i]
      BY <1>2, <1>3, <2>1
    <3>2. QED
      BY <3>1 DEF ToSet
  <2>2. CASE i > m
    <3>1. PICK j \in 1..n : i = m + j
      <4>1. i - m \in 1..n /\ i = m + (i - m)
        BY <2>2
      <4>2. QED
        BY <4>1
    <3>2. j \in DOMAIN t /\ all[i] = t[j]
      BY <1>2, <1>3, <3>1
    <3>3. QED
      BY <3>2 DEF ToSet
  <2>3. QED
    BY <2>1, <2>2
<1>5. ASSUME NEW i \in 1..m PROVE s[i] \in ToSet(all)
  <2>1. i \in DOMAIN all /\ all[i] = s[i]
    BY <1>2, <1>3
  <2>2. QED
    BY <2>1 DEF ToSet
<1>6. ASSUME NEW i \in 1..n PROVE t[i] \in ToSet(all)
  <2>1. m + i \in DOMAIN all /\ all[m + i] = t[i]
    BY <1>2, <1>3
  <2>2. QED
    BY <2>1 DEF ToSet
<1>7. ToSet(all) \subseteq ToSet(s) \cup ToSet(t)
  BY <1>2, <1>3, <1>4 DEF ToSet
<1>8. ToSet(s) \cup ToSet(t) \subseteq ToSet(all)
  BY <1>3, <1>5, <1>6 DEF ToSet
<1>9. QED
  BY <1>1, <1>7, <1>8

\* And short ones.
LEMMA SetOfFew ==
    /\ ToSet(<<>>) = {}
    /\ \A x : ToSet(<<x>>) = {x}
    /\ \A x, y : ToSet(<<x, y>>) = {x, y}
    /\ \A c \in BOOLEAN : \A x : ToSet(When(c, x)) = IF c THEN {x} ELSE {}
<1>1. ToSet(<<>>) = {}
  BY DEF ToSet
<1>2. ASSUME NEW x PROVE ToSet(<<x>>) = {x}
  BY DEF ToSet
<1>3. ASSUME NEW x, NEW y PROVE ToSet(<<x, y>>) = {x, y}
  BY DEF ToSet
<1>4. ASSUME NEW c \in BOOLEAN, NEW x PROVE ToSet(When(c, x)) = IF c THEN {x} ELSE {}
  BY <1>1, <1>2 DEF When
<1>5. QED
  BY <1>1, <1>2, <1>3, <1>4

\* Every matcher that a flow is written with says what a field is.
LEMMA EachSays ==
    ASSUME NEW f \in Asks
    PROVE  /\ Says(Matcher("priority", <<Dec(f.priority)>>), f)
           /\ Says(Matcher(Empty, <<f.protocol>>), f)
           /\ Says(Matcher("in_port", <<PortPart(f)>>), f)
           /\ Says(TableMatcher(f), f)
           /\ Says(Matcher("idle_timeout", <<Dec(f.idle)>>), f)
           /\ Says(Matcher("cookie", <<Hex(f.cookie)>>), f)
           /\ Says(Matcher("duration", <<Word("other")>>), f)
           /\ Says(Matcher("n_packets", <<Dec(0)>>), f)
           /\ Says(Matcher("n_bytes", <<Dec(0)>>), f)
<1>1. /\ f.priority \in Int /\ f.protocol \in Parts /\ f.inport \in Int /\ f.table \in Int
      /\ f.idle \in Int /\ f.cookie \in Int /\ 0 \in Int
  BY DEF Asks, Flows
<1>2. ASSUME NEW key \in Names, NEW v \in Seq(Parts)
      PROVE  /\ Matcher(key, v) \in Matchers /\ Matcher(key, v).key = key
             /\ Matcher(key, v).val = v /\ Matcher(key, v).space = FALSE
  <2>1. Matcher(key, v) \in Matchers
    BY MatcherType
  <2>2. QED
    BY <2>1 DEF Matcher
<1>3. PortPart(f) \in Parts
  BY <1>1, FieldNames, PartsOf DEF PortPart
<1>4. /\ Dec(f.priority) \in Parts /\ Dec(f.table) \in Parts /\ Dec(f.idle) \in Parts
      /\ Hex(f.cookie) \in Parts /\ Word("other") \in Parts /\ Dec(0) \in Parts
  BY <1>1, FieldNames, PartsOf
<1>14. /\ Empty \in Names /\ "priority" \in Names /\ "in_port" \in Names /\ "table" \in Names
       /\ "idle_timeout" \in Names /\ "cookie" \in Names
  BY FieldNames
<1>5. Says(Matcher("priority", <<Dec(f.priority)>>), f)
  <2>0. PICK v \in Seq(Parts) : v = <<Dec(f.priority)>>
    BY <1>1, <1>3, <1>4, PartSequences
  <2>1. PICK m : m = Matcher("priority", v)
    OBVIOUS
  <2>2. m \in Matchers /\ m.key = "priority" /\ m.val = v
    BY <1>2, <1>14, <2>1
  <2>3. QED
    BY <2>0, <2>1, <2>2 DEF Says, FieldKeys, Empty
<1>6. Says(Matcher(Empty, <<f.protocol>>), f)
  <2>0. PICK v \in Seq(Parts) : v = <<f.protocol>>
    BY <1>1, <1>3, <1>4, PartSequences
  <2>1. PICK m : m = Matcher(Empty, v)
    OBVIOUS
  <2>2. m \in Matchers /\ m.key = Empty /\ m.val = v /\ m.space = FALSE
    BY <1>2, <1>14, <2>1
  <2>3. QED
    BY <2>0, <2>1, <2>2 DEF Says, FieldKeys, Empty
<1>7. Says(Matcher("in_port", <<PortPart(f)>>), f)
  <2>0. PICK v \in Seq(Parts) : v = <<PortPart(f)>>
    BY <1>1, <1>3, <1>4, PartSequences
  <2>1. PICK m : m = Matcher("in_port", v)
    OBVIOUS
  <2>2. m \in Matchers /\ m.key = "in_port" /\ m.val = v
    BY <1>2, <1>14, <2>1
  <2>3. QED
    BY <2>0, <2>1, <2>2 DEF Says, FieldKeys, Empty
<1>8. Says(TableMatcher(f), f)
  <2>0. PICK v \in Seq(Parts) : v = <<Dec(f.table)>>
    BY <1>1, <1>3, <1>4, PartSequences
  <2>1. PICK m : m = Matcher("table", v)
    OBVIOUS
  <2>2. m \in Matchers /\ m.key = "table" /\ m.val = v
    BY <1>2, <1>14, <2>1
  <2>3. QED
    BY <2>0, <2>1, <2>2 DEF Says, FieldKeys, Empty, TableMatcher
<1>9. Says(Matcher("idle_timeout", <<Dec(f.idle)>>), f)
  <2>0. PICK v \in Seq(Parts) : v = <<Dec(f.idle)>>
    BY <1>1, <1>3, <1>4, PartSequences
  <2>1. PICK m : m = Matcher("idle_timeout", v)
    OBVIOUS
  <2>2. m \in Matchers /\ m.key = "idle_timeout" /\ m.val = v
    BY <1>2, <1>14, <2>1
  <2>3. QED
    BY <2>0, <2>1, <2>2 DEF Says, FieldKeys, Empty
<1>10. Says(Matcher("cookie", <<Hex(f.cookie)>>), f)
  <2>0. PICK v \in Seq(Parts) : v = <<Hex(f.cookie)>>
    BY <1>1, <1>3, <1>4, PartSequences
  <2>1. PICK m : m = Matcher("cookie", v)
    OBVIOUS
  <2>2. m \in Matchers /\ m.key = "cookie" /\ m.val = v
    BY <1>2, <1>14, <2>1
  <2>3. QED
    BY <2>0, <2>1, <2>2 DEF Says, FieldKeys, Empty
<1>11. ASSUME NEW key \in Counters, NEW p \in Parts PROVE Says(Matcher(key, <<p>>), f)
  <2>0. PICK v \in Seq(Parts) : v = <<p>>
    BY PartSequences
  <2>1. PICK m : m = Matcher(key, v)
    OBVIOUS
  <2>2. key \in Names
    BY FieldNames DEF Counters
  <2>3. m \in Matchers /\ m.key = key
    BY <1>2, <2>1, <2>2
  <2>4. m.key \notin FieldKeys
    BY <2>3, FieldsApart
  <2>5. QED
    BY <2>0, <2>1, <2>3, <2>4 DEF Says, FieldKeys
<1>12. /\ Says(Matcher("duration", <<Word("other")>>), f)
       /\ Says(Matcher("n_packets", <<Dec(0)>>), f)
       /\ Says(Matcher("n_bytes", <<Dec(0)>>), f)
  BY <1>4, <1>11 DEF Counters
<1>13. QED
  BY <1>5, <1>6, <1>7, <1>8, <1>9, <1>10, <1>12

\* Sequences of anything may be concatenated in any order.
LEMMA EitherWayIn ==
    ASSUME NEW T, NEW a \in Seq(T), NEW b \in Seq(T), NEW c \in Seq(T)
    PROVE  EitherOrder(a, b, c) /\ a \o b \in Seq(T) /\ b \o c \in Seq(T)
BY DEF EitherOrder

\* The matchers of a flow, but for its matches.
Priority(f) == Matcher("priority", <<Dec(f.priority)>>)
Idle(f)     == Matcher("idle_timeout", <<Dec(f.idle)>>)
Origin(f)   == ProtocolMatchers(f) \o PortMatchers(f)
After(f)    == <<TableMatcher(f), Idle(f)>> \o CookieMatchers(f)

\* What they are.
LEMMA PiecesAre ==
    ASSUME NEW f \in Asks
    PROVE  /\ Priority(f) \in Matchers /\ Origin(f) \in Seq(Matchers) /\ After(f) \in Seq(Matchers)
           /\ ToSet(Origin(f)) = (IF f.protocol.word # Empty THEN {Matcher(Empty, <<f.protocol>>)} ELSE {})
                                 \cup (IF f.inport # 0 THEN {Matcher("in_port", <<PortPart(f)>>)} ELSE {})
           /\ ToSet(After(f)) = {TableMatcher(f), Idle(f)}
                                \cup (IF f.cookie > 0 THEN {Matcher("cookie", <<Hex(f.cookie)>>)} ELSE {})
<1>1. PICK prot \in Seq(Matchers), port \in Seq(Matchers), cookie \in Seq(Matchers) :
          prot = ProtocolMatchers(f) /\ port = PortMatchers(f) /\ cookie = CookieMatchers(f)
  BY PiecesType
<1>2. PICK table \in Matchers, idle \in Matchers : table = TableMatcher(f) /\ idle = Idle(f)
  BY PiecesType DEF Idle
<1>3. Priority(f) \in Matchers
  BY PiecesType DEF Priority
<1>4. ToSet(prot) = IF f.protocol.word # Empty THEN {Matcher(Empty, <<f.protocol>>)} ELSE {}
  BY <1>1, SetOfFew DEF ProtocolMatchers
<1>5. ToSet(port) = IF f.inport # 0 THEN {Matcher("in_port", <<PortPart(f)>>)} ELSE {}
  BY <1>1, SetOfFew DEF PortMatchers, PortPart
<1>6. ToSet(cookie) = IF f.cookie > 0 THEN {Matcher("cookie", <<Hex(f.cookie)>>)} ELSE {}
  <2>1. (f.cookie > 0) \in BOOLEAN
    BY DEF Asks, Flows
  <2>2. QED
    BY <1>1, <2>1, SetOfFew DEF CookieMatchers
<1>7. prot \o port \in Seq(Matchers) /\ ToSet(prot \o port) = ToSet(prot) \cup ToSet(port)
  BY SetOfTwo
<1>8. PICK two : two = <<table, idle>>
  OBVIOUS
<1>9. two \in Seq(Matchers) /\ ToSet(two) = {table, idle}
  BY <1>8, SetOfFew
<1>10. two \o cookie \in Seq(Matchers) /\ ToSet(two \o cookie) = ToSet(two) \cup ToSet(cookie)
  BY <1>9, SetOfTwo
<1>11. Origin(f) = prot \o port /\ After(f) = two \o cookie
  BY <1>1, <1>2, <1>8 DEF Origin, After
<1>12. QED
  BY <1>2, <1>3, <1>4, <1>5, <1>6, <1>7, <1>9, <1>10, <1>11

\* The text of a flow, with its matches between the others.
LEMMA TextIs ==
    ASSUME NEW f \in Asks
    PROVE  /\ FlowTextOf(f).matchers = <<Priority(f)>> \o Origin(f) \o MatchMatchers(f) \o After(f)
           /\ FlowTextOf(f).matchers = <<Priority(f)>> \o (Origin(f) \o MatchMatchers(f)) \o After(f)
<1>1. PICK prot \in Seq(Matchers), port \in Seq(Matchers), cookie \in Seq(Matchers), ms \in Seq(Matchers) :
          /\ prot = ProtocolMatchers(f) /\ port = PortMatchers(f) /\ cookie = CookieMatchers(f)
          /\ ms = MatchMatchers(f)
  BY PiecesType
<1>2. PICK pri \in Matchers, table \in Matchers, idle \in Matchers :
          pri = Priority(f) /\ table = TableMatcher(f) /\ idle = Idle(f)
  BY PiecesType DEF Priority, Idle
<1>3. PICK first, two : first = <<pri>> /\ two = <<table, idle>>
  OBVIOUS
<1>13. first \in Seq(Matchers) /\ two \in Seq(Matchers)
  BY <1>3
<1>4. FlowTextOf(f).matchers = first \o prot \o port \o ms \o two \o cookie
  BY <1>1, <1>2, <1>3 DEF FlowTextOf, Priority, Idle
<1>5. PICK origin \in Seq(Matchers) : origin = prot \o port
  BY ConcatProperties
<1>14. PICK a \in Seq(Matchers) : a = first \o origin
  BY <1>13, ConcatProperties
<1>15. PICK b \in Seq(Matchers) : b = a \o ms
  BY ConcatProperties
<1>16. EitherOrder(first, prot, port) /\ EitherOrder(b, two, cookie) /\ EitherOrder(first, origin, ms)
  BY <1>13, EitherWayIn
<1>6. first \o prot \o port = a
  BY <1>5, <1>14, <1>16 DEF EitherOrder
<1>7. b \o two \o cookie = b \o (two \o cookie)
  BY <1>16 DEF EitherOrder
<1>8. first \o origin \o ms = first \o (origin \o ms)
  BY <1>16 DEF EitherOrder
<1>9. Origin(f) = origin /\ After(f) = two \o cookie
  BY <1>1, <1>2, <1>3, <1>5 DEF Origin, After
<1>10. FlowTextOf(f).matchers = b \o (two \o cookie)
  BY <1>4, <1>6, <1>7, <1>15
<1>11. QED
  BY <1>1, <1>2, <1>3, <1>8, <1>9, <1>10, <1>14, <1>15

\* Matches are laid between what says what fields are.
LEMMA LaidOut ==
    ASSUME NEW f \in Asks, NEW A \in Seq(Matchers), NEW C \in Seq(Matchers),
           \A m \in ToSet(A) \cup ToSet(C) : Says(m, f), NEW all, all = A \o MatchMatchers(f) \o C
    PROVE  Laid(all, Len(A), 0, f) /\ all \in Seq(Matchers)
<1>1. PICK n \in Nat : n = Len(f.matches) /\ DOMAIN f.matches = 1..n
  BY DEF Asks, Flows
<1>2. PICK ms \in Seq(Matchers) : ms = MatchMatchers(f) /\ Len(ms) = n
  BY <1>1, PiecesType
<1>3. \A i \in 1..n : ms[i] = MatchMatcher(f.matches[i])
  BY <1>1, <1>2 DEF MatchMatchers
<1>4. PICK a \in Nat, c \in Nat : a = Len(A) /\ c = Len(C) /\ DOMAIN A = 1..a /\ DOMAIN C = 1..c
  OBVIOUS
<1>5. PICK am \in Seq(Matchers) : am = A \o ms
  BY ConcatProperties
<1>6. /\ Len(am) = a + n /\ (\A i \in 1..a : am[i] = A[i]) /\ \A i \in 1..n : am[a + i] = ms[i]
  <2>1. /\ Len(am) = Len(A) + Len(ms) /\ (\A i \in 1..Len(A) : am[i] = A[i])
        /\ \A i \in 1..Len(ms) : am[Len(A) + i] = ms[i]
    BY <1>5, TwoPlaces
  <2>2. QED
    BY <1>2, <1>4, <2>1
<1>7. all = am \o C
  BY <1>2, <1>5
<1>8. /\ all \in Seq(Matchers) /\ Len(all) = a + n + c /\ (\A i \in 1..a + n : all[i] = am[i])
      /\ \A i \in 1..c : all[(a + n) + i] = C[i]
  <2>1. /\ all \in Seq(Matchers) /\ Len(all) = Len(am) + Len(C) /\ (\A i \in 1..Len(am) : all[i] = am[i])
        /\ \A i \in 1..Len(C) : all[Len(am) + i] = C[i]
    BY <1>7, TwoPlaces
  <2>2. QED
    BY <1>4, <1>6, <2>1
<1>9. (\A i \in 1..a : Says(A[i], f)) /\ \A i \in 1..c : Says(C[i], f)
  BY <1>4 DEF ToSet
<1>10. ASSUME NEW i \in 1..a + n + c
       PROVE  IF a < i /\ i <= a + (n - 0) THEN all[i] = MatchMatcher(f.matches[i - a + 0]) ELSE Says(all[i], f)
  <2>1. CASE i <= a
    <3>1. i \in 1..a /\ i \in 1..a + n
      BY <2>1
    <3>2. all[i] = A[i]
      BY <1>6, <1>8, <3>1
    <3>3. QED
      BY <1>9, <2>1, <3>1, <3>2
  <2>2. CASE a < i /\ i <= a + n
    <3>1. PICK j \in 1..n : j = i - a + 0 /\ a + j = i
      <4>1. i - a \in 1..n /\ i - a = i - a + 0 /\ a + (i - a) = i
        BY <2>2
      <4>2. QED
        BY <4>1
    <3>2. all[i] = am[i]
      BY <1>8, <2>2
    <3>3. am[i] = MatchMatcher(f.matches[j])
      BY <1>3, <1>6, <3>1
    <3>4. QED
      BY <2>2, <3>1, <3>2, <3>3
  <2>3. CASE a + n < i
    <3>1. PICK j \in 1..c : (a + n) + j = i
      <4>1. i - (a + n) \in 1..c /\ (a + n) + (i - (a + n)) = i
        BY <2>3
      <4>2. QED
        BY <4>1
    <3>2. all[i] = C[j]
      BY <1>8, <3>1
    <3>3. ~(a < i /\ i <= a + (n - 0))
      BY <2>3
    <3>4. QED
      BY <1>9, <3>2, <3>3
  <2>4. i <= a \/ (a < i /\ i <= a + n) \/ a + n < i
    BY <1>10
  <2>5. QED
    BY <2>1, <2>2, <2>3, <2>4
<1>11. a + (n - 0) <= a + n + c
  OBVIOUS
<1>12. Laid(all, a, 0, f)
  BY <1>1, <1>8, <1>10, <1>11 DEF Laid
<1>13. QED
  BY <1>4, <1>8, <1>12

\* What a flow is before it is read, and what its line must say.
LEMMA NothingAgrees ==
    ASSUME NEW f \in Asks, NEW rest \in Seq(Matchers),
           \E m \in ToSet(rest) : m.key = "table",
           (\E m \in ToSet(rest) : m.key = "priority"),
           f.idle # 0 => \E m \in ToSet(rest) : m.key = "idle_timeout",
           f.cookie > 0 => \E m \in ToSet(rest) : m.key = "cookie",
           f.inport # 0 => \E m \in ToSet(rest) : m.key = "in_port",
           f.protocol.word # Empty => \E m \in ToSet(rest) : m.key = Empty
    PROVE  \A key \in FieldKeys : Agree(NoFlow, f, key) \/ HasKey(rest, key)
<1>1. \A key : (\E m \in ToSet(rest) : m.key = key) => HasKey(rest, key)
  BY DEF ToSet, HasKey
<1>2. f.protocol.word = Empty => f.protocol = Word(Empty)
  <2>1. IsWord(f.protocol)
    BY DEF Asks
  <2>2. QED
    BY <2>1 DEF IsWord
<1>3. f.cookie \in Int /\ f.cookie >= 0
  BY DEF Asks, Flows
<1>4. NoFlow.protocol = Word(Empty) /\ NoFlow.idle = 0 /\ NoFlow.cookie = 0 /\ NoFlow.inport = 0
  BY DEF NoFlow
<1>5. f.idle = 0 => Agree(NoFlow, f, "idle_timeout")
  BY <1>4, AgreeIs
<1>6. f.cookie = 0 => Agree(NoFlow, f, "cookie")
  BY <1>4, AgreeIs
<1>7. f.inport = 0 => Agree(NoFlow, f, "in_port")
  BY <1>4, AgreeIs
<1>8. f.protocol.word = Empty => Agree(NoFlow, f, Empty)
  BY <1>2, <1>4, AgreeIs
<1>9. QED
  BY <1>1, <1>3, <1>5, <1>6, <1>7, <1>8 DEF FieldKeys

\* Nothing is read of a flow before its line is.
LEMMA NoMatchesRead == \A f : MatchesRead(NoFlow, f, 0)
BY DEF MatchesRead, NoFlow

\* The line that MarshalText writes.
LEMMA WrittenLine ==
    ASSUME NEW f, Legible(f)
    PROVE  MatchersAre(f, NoFlow, FlowTextOf(f).matchers)
<1>1. f \in Asks
  BY DEF Legible
<1>2. PICK pri \in Matchers, origin \in Seq(Matchers), after \in Seq(Matchers), ms \in Seq(Matchers) :
          pri = Priority(f) /\ origin = Origin(f) /\ after = After(f) /\ ms = MatchMatchers(f)
  BY <1>1, PiecesAre, PiecesType
<1>3. PICK A : A = <<pri>> \o origin
  OBVIOUS
<1>4. A \in Seq(Matchers) /\ ToSet(A) = {pri} \cup ToSet(origin)
  <2>1. PICK first : first = <<pri>>
    OBVIOUS
  <2>2. first \in Seq(Matchers) /\ ToSet(first) = {pri}
    BY <2>1, SetOfFew
  <2>3. QED
    <3>1. first \o origin \in Seq(Matchers) /\ ToSet(first \o origin) = ToSet(first) \cup ToSet(origin)
      BY <2>2, SetOfTwo, ConcatProperties
    <3>2. QED
      BY <1>3, <2>1, <2>2, <3>1
<1>5. PICK all : all = A \o ms \o after
  OBVIOUS
<1>6. FlowTextOf(f).matchers = all
  BY <1>1, <1>2, <1>3, <1>5, TextIs
<1>7. PICK am \in Seq(Matchers) : am = A \o ms
  BY <1>4, ConcatProperties
<1>8. ToSet(all) = ToSet(A) \cup ToSet(ms) \cup ToSet(after)
  <2>1. ToSet(am) = ToSet(A) \cup ToSet(ms)
    BY <1>4, <1>7, SetOfTwo
  <2>2. ToSet(am \o after) = ToSet(am) \cup ToSet(after)
    BY SetOfTwo
  <2>3. QED
    BY <1>5, <1>7, <2>1, <2>2
<1>9. Says(pri, f) /\ \A m \in ToSet(origin) \cup ToSet(after) : Says(m, f)
  BY <1>1, <1>2, PiecesAre, EachSays DEF Priority, Idle
<1>10. Laid(all, Len(A), 0, f) /\ all \in Seq(Matchers)
  <2>1. \A m \in ToSet(A) \cup ToSet(after) : Says(m, f)
    BY <1>4, <1>9
  <2>2. all = A \o MatchMatchers(f) \o after
    BY <1>2, <1>5
  <2>3. QED
    BY <1>1, <1>4, <2>1, <2>2, LaidOut
<1>11. \A key \in FieldKeys : Agree(NoFlow, f, key) \/ HasKey(all, key)
  <2>1. \A key, v : Matcher(key, v).key = key
    BY DEF Matcher
  <2>2. TableMatcher(f) \in ToSet(all) /\ TableMatcher(f).key = "table"
    BY <1>1, <1>2, <1>8, <2>1, PiecesAre DEF TableMatcher
  <2>3. pri \in ToSet(all) /\ pri.key = "priority"
    BY <1>2, <1>4, <1>8, <2>1 DEF Priority
  <2>4. Idle(f) \in ToSet(all) /\ Idle(f).key = "idle_timeout"
    BY <1>1, <1>2, <1>8, <2>1, PiecesAre DEF Idle
  <2>5. f.cookie > 0 => \E m \in ToSet(all) : m.key = "cookie"
    BY <1>1, <1>2, <1>8, <2>1, PiecesAre
  <2>6. f.inport # 0 => \E m \in ToSet(all) : m.key = "in_port"
    BY <1>1, <1>2, <1>4, <1>8, <2>1, PiecesAre
  <2>7. f.protocol.word # Empty => \E m \in ToSet(all) : m.key = Empty
    BY <1>1, <1>2, <1>4, <1>8, <2>1, PiecesAre
  <2>8. QED
    BY <1>1, <1>10, <2>2, <2>3, <2>4, <2>5, <2>6, <2>7, NothingAgrees
<1>12. Len(A) \in Nat /\ 0 \in 0..Len(f.matches)
  BY <1>1, <1>4 DEF Asks, Flows
<1>13. QED
  BY <1>6, <1>10, <1>11, <1>12, NoMatchesRead DEF MatchersAre

\* What is cut of a sequence.
LEMMA CutOf ==
    ASSUME NEW T, NEW s \in Seq(T), NEW m \in 1..Len(s) + 1, NEW n \in m - 1..Len(s)
    PROVE  /\ SubSeq(s, m, n) \in Seq(T) /\ Len(SubSeq(s, m, n)) = n - m + 1
           /\ \A i \in 1..n - m + 1 : SubSeq(s, m, n)[i] = s[m + i - 1]
OBVIOUS

\* What is between two sequences may be taken out again.
Threefold(all, X, B, Z) == all = X \o B \o Z
ThoseOf(all, places, X, B) == \A i \in DOMAIN all : i \in places <=> Len(X) < i /\ i <= Len(X) + Len(B)
LEMMA MiddleOf ==
    ASSUME NEW T, NEW X \in Seq(T), NEW B \in Seq(T), NEW Z \in Seq(T), NEW all, Threefold(all, X, B, Z),
           NEW places, ThoseOf(all, places, X, B)
    PROVE  Among(all, places) = B
<1>15. all = X \o B \o Z
  BY DEF Threefold
<1>16. \A i \in DOMAIN all : i \in places <=> Len(X) < i /\ i <= Len(X) + Len(B)
  BY DEF ThoseOf
<1>1. PICK x \in Nat, b \in Nat, z \in Nat : x = Len(X) /\ b = Len(B) /\ z = Len(Z)
  OBVIOUS
<1>2. PICK xb \in Seq(T), l \in Seq(T) : xb = X \o B /\ l = xb \o Z
  <2>1. X \o B \in Seq(T)
    OBVIOUS
  <2>2. PICK h \in Seq(T) : h = X \o B
    BY <2>1
  <2>3. h \o Z \in Seq(T)
    OBVIOUS
  <2>4. QED
    BY <2>2, <2>3
<1>14. xb = X \o B
  BY <1>2
<1>13. l = xb \o Z
  BY <1>2
<1>3. /\ xb \in Seq(T) /\ Len(xb) = x + b /\ (\A i \in 1..x : xb[i] = X[i]) /\ \A i \in 1..b : xb[x + i] = B[i]
  <2>1. Len(xb) = Len(X) + Len(B) /\ (\A i \in 1..Len(X) : xb[i] = X[i]) /\ \A i \in 1..Len(B) : xb[Len(X) + i] = B[i]
    BY <1>14, TwoPlaces
  <2>2. QED
    BY <1>1, <2>1
<1>4. all = l
  BY <1>2, <1>15
<1>5. /\ all \in Seq(T) /\ Len(all) = x + b + z /\ (\A i \in 1..x + b : all[i] = xb[i])
  <2>1. Len(l) = Len(xb) + Len(Z) /\ (\A i \in 1..Len(xb) : l[i] = xb[i])
    BY <1>13, TwoPlaces
  <2>2. QED
    BY <1>1, <1>3, <1>4, <2>1
<1>6. PICK m \in Nat, n \in Nat : m = x + 1 /\ n = x + b
  OBVIOUS
<1>7. Among(all, places) = SubSeq(all, m, n)
  <2>1. 1 <= m /\ m <= n + 1 /\ n <= Len(all)
    BY <1>5, <1>6
  <2>2. \A i \in 1..Len(all) : i \in places <=> m <= i /\ i <= n
    <3>1. PICK c \in Nat : c = x + b + z
      OBVIOUS
    <3>2. DOMAIN all = 1..c /\ Len(all) = c
      BY <1>5, <3>1
    <3>3. ASSUME NEW i \in 1..c PROVE i \in places <=> m <= i /\ i <= n
      <4>1. i \in places <=> x < i /\ i <= x + b
        BY <1>1, <1>16, <3>2
      <4>2. i \in Nat
        OBVIOUS
      <4>3. QED
        BY <1>6, <4>1, <4>2
    <3>4. QED
      BY <3>2, <3>3
  <2>3. QED
    BY <1>5, <2>1, <2>2, AmongInterval
<1>8. PICK y : y = SubSeq(all, m, n)
  OBVIOUS
<1>9. y \in Seq(T) /\ Len(y) = b /\ \A i \in 1..b : y[i] = all[x + i]
  <2>1. m \in 1..Len(all) + 1 /\ n \in m - 1..Len(all)
    BY <1>5, <1>6
  <2>2. Len(y) = n - m + 1 /\ y \in Seq(T) /\ \A i \in 1..n - m + 1 : y[i] = all[m + i - 1]
    <3>1. PICK al \in Seq(T) : al = all
      BY <1>5
    <3>2. m \in 1..Len(al) + 1 /\ n \in m - 1..Len(al)
      BY <2>1, <3>1
    <3>3. /\ SubSeq(al, m, n) \in Seq(T) /\ Len(SubSeq(al, m, n)) = n - m + 1
          /\ \A i \in 1..n - m + 1 : SubSeq(al, m, n)[i] = al[m + i - 1]
      BY <3>2, CutOf
    <3>4. y = SubSeq(al, m, n)
      BY <1>8, <3>1
    <3>5. QED
      BY <3>1, <3>3, <3>4
  <2>3. n - m + 1 = b /\ \A i \in 1..b : m + i - 1 = x + i
    BY <1>6
  <2>4. QED
    BY <2>2, <2>3
<1>10. ASSUME NEW i \in 1..b PROVE y[i] = B[i]
  <2>1. x + i \in 1..x + b
    OBVIOUS
  <2>2. QED
    BY <1>3, <1>5, <1>9, <2>1
<1>11. y = B
  BY <1>1, <1>9, <1>10, SeqEqual
<1>12. QED
  BY <1>7, <1>8, <1>11

\* What is taken of the matchers of a text.
LEMMA TakenOf ==
    ASSUME NEW text, text.matchers \in Seq(Matchers), NEW key
    PROVE  /\ FieldsOf(text, key) \in Seq(Matchers)
           /\ ToSet(FieldsOf(text, key)) = {m \in ToSet(text.matchers) : m.key = key}
<1>1. PICK all \in Seq(Matchers) : all = text.matchers
  OBVIOUS
<1>2. Keyed(text, {key}) = {i \in DOMAIN all : all[i].key = key}
  BY <1>1 DEF Keyed
<1>3. ToSet(Among(all, Keyed(text, {key}))) = {all[i] : i \in DOMAIN all \cap Keyed(text, {key})}
  BY AmongMembers
<1>4. {all[i] : i \in DOMAIN all \cap Keyed(text, {key})} = {m \in ToSet(all) : m.key = key}
  BY <1>2 DEF ToSet
<1>5. FieldsOf(text, key) \in Seq(Matchers)
  BY <1>1, AmongType DEF FieldsOf
<1>6. QED
  BY <1>1, <1>3, <1>4, <1>5 DEF FieldsOf

LEMMA OthersOf ==
    ASSUME NEW text, text.matchers \in Seq(Matchers), NEW key, NEW n
    PROVE  /\ OtherThan(text, key, n) \in Seq(Matchers)
           /\ ToSet(OtherThan(text, key, n)) = {m \in ToSet(text.matchers) : m.key = key /\ m.val[1].n # n}
<1>1. PICK all \in Seq(Matchers) : all = text.matchers
  OBVIOUS
<1>2. PICK places : places = {i \in Keyed(text, {key}) : all[i].val[1].n # n}
  OBVIOUS
<1>3. ToSet(Among(all, places)) = {all[i] : i \in DOMAIN all \cap places} /\ Among(all, places) \in Seq(Matchers)
  BY AmongMembers, AmongType
<1>4. {all[i] : i \in DOMAIN all \cap places} = {m \in ToSet(all) : m.key = key /\ m.val[1].n # n}
  <2>1. Keyed(text, {key}) = {i \in DOMAIN all : all[i].key = key}
    BY <1>1 DEF Keyed
  <2>2. QED
    BY <1>2, <2>1 DEF ToSet
<1>5. OtherThan(text, key, n) = Among(all, places)
  BY <1>1, <1>2 DEF OtherThan
<1>6. QED
  BY <1>1, <1>3, <1>4, <1>5

\* The matchers that a flow is written with, by their keys.
LEMMA KeysOfText ==
    ASSUME NEW f, Legible(f)
    PROVE  /\ \A m \in ToSet(Origin(f)) : m.key \in {Empty, "in_port"} /\ Says(m, f) /\ m.space = FALSE
           /\ \A m \in ToSet(After(f)) : m.key \in {"table", "idle_timeout", "cookie"} /\ Says(m, f) /\ m.space = FALSE
           /\ Priority(f).key = "priority" /\ Says(Priority(f), f) /\ Priority(f).space = FALSE
           /\ \A m \in ToSet(MatchMatchers(f)) : m.key \in KnownKeys \ {"in_port"} /\ m.space = FALSE
           /\ ToSet(FlowTextOf(f).matchers) =
                 {Priority(f)} \cup ToSet(Origin(f)) \cup ToSet(MatchMatchers(f)) \cup ToSet(After(f))
           /\ FlowTextOf(f).matchers \in Seq(Matchers)
<1>1. f \in Asks
  BY DEF Legible
<1>2. \A key, v : Matcher(key, v).key = key /\ Matcher(key, v).space = FALSE
  BY DEF Matcher
<1>3. \A m \in ToSet(Origin(f)) : m.key \in {Empty, "in_port"} /\ Says(m, f) /\ m.space = FALSE
  <2>1. ToSet(Origin(f)) \subseteq {Matcher(Empty, <<f.protocol>>), Matcher("in_port", <<PortPart(f)>>)}
    BY <1>1, PiecesAre
  <2>2. PICK p, q : p = Matcher(Empty, <<f.protocol>>) /\ q = Matcher("in_port", <<PortPart(f)>>)
    OBVIOUS
  <2>3. Says(p, f) /\ Says(q, f)
    BY <1>1, <2>2, EachSays
  <2>4. p.key = Empty /\ q.key = "in_port" /\ p.space = FALSE /\ q.space = FALSE
    BY <2>2 DEF Matcher
  <2>5. ToSet(Origin(f)) \subseteq {p, q}
    BY <2>1, <2>2
  <2>6. QED
    BY <2>3, <2>4, <2>5
<1>4. \A m \in ToSet(After(f)) : m.key \in {"table", "idle_timeout", "cookie"} /\ Says(m, f) /\ m.space = FALSE
  <2>1. ToSet(After(f)) \subseteq {TableMatcher(f), Idle(f), Matcher("cookie", <<Hex(f.cookie)>>)}
    BY <1>1, PiecesAre
  <2>2. PICK p, q, r : p = TableMatcher(f) /\ q = Idle(f) /\ r = Matcher("cookie", <<Hex(f.cookie)>>)
    OBVIOUS
  <2>3. Says(p, f) /\ Says(q, f) /\ Says(r, f)
    BY <1>1, <2>2, EachSays DEF Idle
  <2>4. /\ p.key = "table" /\ q.key = "idle_timeout" /\ r.key = "cookie"
        /\ p.space = FALSE /\ q.space = FALSE /\ r.space = FALSE
    BY <2>2 DEF Matcher, TableMatcher, Idle
  <2>5. ToSet(After(f)) \subseteq {p, q, r}
    BY <2>1, <2>2
  <2>6. QED
    BY <2>3, <2>4, <2>5
<1>5. Priority(f).key = "priority" /\ Says(Priority(f), f) /\ Priority(f).space = FALSE
  BY <1>1, <1>2, EachSays DEF Priority
<1>6. ASSUME NEW i \in DOMAIN f.matches
      PROVE  MatchMatcher(f.matches[i]).key \in KnownKeys \ {"in_port"} /\ MatchMatcher(f.matches[i]).space = FALSE
  <2>1. PICK m : m = f.matches[i]
    OBVIOUS
  <2>2. Constructed(m) /\ Marshals(m) /\ ~MisreadMatch(m)
    BY <2>1 DEF Legible, Asks, FlowMarshals, MatchesMarshal
  <2>3. m.of \in KnownKeys \ {"in_port"} /\ MatchMatcher(m) = Matcher(m.of, Written(m))
    BY <2>2, MatchReread
  <2>4. QED
    BY <1>2, <2>1, <2>3
<1>7. \A m \in ToSet(MatchMatchers(f)) : m.key \in KnownKeys \ {"in_port"} /\ m.space = FALSE
  <2>1. DOMAIN MatchMatchers(f) = DOMAIN f.matches /\ \A i \in DOMAIN f.matches : MatchMatchers(f)[i] = MatchMatcher(f.matches[i])
    BY DEF MatchMatchers
  <2>2. QED
    BY <1>6, <2>1 DEF ToSet
<1>8. /\ ToSet(FlowTextOf(f).matchers) =
            {Priority(f)} \cup ToSet(Origin(f)) \cup ToSet(MatchMatchers(f)) \cup ToSet(After(f))
      /\ FlowTextOf(f).matchers \in Seq(Matchers)
  <2>1. PICK origin \in Seq(Matchers), after \in Seq(Matchers), ms \in Seq(Matchers) :
            origin = Origin(f) /\ after = After(f) /\ ms = MatchMatchers(f)
    BY <1>1, PiecesAre, PiecesType
  <2>10. PICK first : first = <<Priority(f)>>
    OBVIOUS
  <2>2. first \in Seq(Matchers) /\ ToSet(first) = {Priority(f)}
    <3>1. PICK p \in Matchers : p = Priority(f)
      BY <1>1, PiecesAre
    <3>2. <<p>> \in Seq(Matchers) /\ ToSet(<<p>>) = {p}
      BY SetOfFew
    <3>3. QED
      BY <2>10, <3>1, <3>2
  <2>3. PICK a : a = first \o origin
    OBVIOUS
  <2>4. a \in Seq(Matchers) /\ ToSet(a) = ToSet(first) \cup ToSet(origin)
    BY <2>2, <2>3, SetOfTwo, ConcatProperties
  <2>5. PICK b : b = a \o ms
    OBVIOUS
  <2>6. b \in Seq(Matchers) /\ ToSet(b) = ToSet(a) \cup ToSet(ms)
    BY <2>4, <2>5, SetOfTwo, ConcatProperties
  <2>7. b \o after \in Seq(Matchers) /\ ToSet(b \o after) = ToSet(b) \cup ToSet(after)
    BY <2>6, SetOfTwo, ConcatProperties
  <2>8. FlowTextOf(f).matchers = b \o after
    BY <1>1, <2>1, <2>10, <2>3, <2>5, TextIs
  <2>9. QED
    BY <2>1, <2>2, <2>4, <2>6, <2>7, <2>8
<1>9. QED
  BY <1>3, <1>4, <1>5, <1>7, <1>8

\* What ovs-ofctl prints last is where the packet is from, and the matches.
LEMMA MatchOnlyIs ==
    ASSUME NEW f, Legible(f)
    PROVE  MatchOnly(FlowTextOf(f)) = Origin(f) \o MatchMatchers(f)
<1>1. f \in Asks
  BY DEF Legible
<1>2. PICK origin \in Seq(Matchers), after \in Seq(Matchers), ms \in Seq(Matchers) :
          origin = Origin(f) /\ after = After(f) /\ ms = MatchMatchers(f)
  BY <1>1, PiecesAre, PiecesType
<1>3. PICK first \in Seq(Matchers) : first = <<Priority(f)>> /\ Len(first) = 1 /\ first[1] = Priority(f)
  <2>1. PICK p \in Matchers : p = Priority(f)
    BY <1>1, PiecesAre
  <2>2. <<p>> \in Seq(Matchers) /\ Len(<<p>>) = 1 /\ <<p>>[1] = p
    OBVIOUS
  <2>3. QED
    BY <2>1, <2>2
<1>4. PICK middle \in Seq(Matchers) : middle = origin \o ms
  BY ConcatProperties
<1>5. middle \in Seq(Matchers) /\ ToSet(middle) = ToSet(origin) \cup ToSet(ms)
  BY <1>4, SetOfTwo
<1>6. PICK all : all = first \o middle \o after
  OBVIOUS
<1>7. FlowTextOf(f).matchers = all
  BY <1>1, <1>2, <1>3, <1>4, <1>6, TextIs
<1>8. PICK fixed : fixed = {"priority", "table", "idle_timeout", "cookie"}
  OBVIOUS
<1>9. PICK b \in Nat, z \in Nat : b = Len(middle) /\ z = Len(after)
  BY <1>5
<1>10. PICK fm \in Seq(Matchers) : fm = first \o middle
  BY ConcatProperties
<1>11. /\ fm \in Seq(Matchers) /\ Len(fm) = 1 + b /\ fm[1] = first[1] /\ \A i \in 1..b : fm[1 + i] = middle[i]
  <2>1. /\ Len(fm) = Len(first) + Len(middle) /\ (\A i \in 1..Len(first) : fm[i] = first[i])
        /\ \A i \in 1..Len(middle) : fm[Len(first) + i] = middle[i]
    BY <1>10, TwoPlaces
  <2>2. 1 \in 1..Len(first)
    BY <1>3
  <2>3. QED
    BY <1>3, <1>9, <2>1, <2>2
<1>12. /\ Len(all) = 1 + b + z /\ DOMAIN all = 1..1 + b + z /\ (\A i \in 1..1 + b : all[i] = fm[i])
       /\ \A i \in 1..z : all[1 + b + i] = after[i]
  <2>1. all = fm \o after
    BY <1>6, <1>10
  <2>2. /\ Len(all) = Len(fm) + Len(after) /\ DOMAIN all = 1..Len(fm) + Len(after)
        /\ (\A i \in 1..Len(fm) : all[i] = fm[i]) /\ \A i \in 1..Len(after) : all[Len(fm) + i] = after[i]
    BY <2>1, TwoPlaces
  <2>3. QED
    BY <1>9, <1>11, <2>2
<1>13. all[1].key \in fixed
  <2>1. 1 \in 1..1 + b
    OBVIOUS
  <2>2. all[1] = Priority(f)
    BY <1>3, <1>11, <1>12, <2>1
  <2>3. QED
    BY <1>8, <2>2, KeysOfText
<1>14. ASSUME NEW i \in 2..1 + b PROVE all[i].key \notin fixed
  <2>1. PICK j \in 1..b : 1 + j = i /\ i \in 1..1 + b
    <3>1. i - 1 \in 1..b /\ 1 + (i - 1) = i /\ i \in 1..1 + b
      OBVIOUS
    <3>2. QED
      BY <3>1
  <2>2. all[i] = middle[j]
    BY <1>11, <1>12, <2>1
  <2>3. middle[j] \in ToSet(middle)
    BY <1>5, <1>9 DEF ToSet
  <2>4. PICK m : m = middle[j]
    OBVIOUS
  <2>5. m.key \in {Empty, "in_port"} \/ m.key \in KnownKeys \ {"in_port"}
    BY <1>2, <1>5, <2>3, <2>4, KeysOfText
  <2>6. Empty \notin fixed /\ "in_port" \notin fixed /\ \A key \in fixed : key \notin KnownKeys
    BY <1>8, KeysDiffer
  <2>7. QED
    BY <2>2, <2>4, <2>5, <2>6
<1>15. ASSUME NEW i \in 2 + b..1 + b + z PROVE all[i].key \in fixed
  <2>1. PICK j \in 1..z : 1 + b + j = i
    <3>1. i - (1 + b) \in 1..z /\ 1 + b + (i - (1 + b)) = i
      OBVIOUS
    <3>2. QED
      BY <3>1
  <2>2. all[i] = after[j]
    BY <1>12, <2>1
  <2>3. after[j] \in ToSet(after)
    BY <1>9 DEF ToSet
  <2>4. QED
    BY <1>2, <1>8, <2>2, <2>3, KeysOfText
<1>16. PICK places : places = DOMAIN all \ {i \in DOMAIN all : all[i].key \in fixed}
  OBVIOUS
<1>17. ASSUME NEW i \in DOMAIN all PROVE i \in places <=> 1 < i /\ i <= 1 + b
  <2>1. i \in places <=> all[i].key \notin fixed
    BY <1>16
  <2>2. i = 1 \/ i \in 2..1 + b \/ i \in 2 + b..1 + b + z
    BY <1>12
  <2>3. QED
    BY <1>13, <1>14, <1>15, <2>1, <2>2
<1>18. Among(all, places) = middle
  <2>1. \A i \in DOMAIN all : i \in places <=> Len(first) < i /\ i <= Len(first) + Len(middle)
    BY <1>3, <1>9, <1>17
  <2>2. QED
    <3>1. Threefold(all, first, middle, after)
      BY <1>6 DEF Threefold
    <3>2. ThoseOf(all, places, first, middle)
      BY <2>1 DEF ThoseOf
    <3>3. QED
      BY <3>1, <3>2, MiddleOf
<1>19. MatchOnly(FlowTextOf(f)) = Among(all, places)
  BY <1>7, <1>8, <1>16 DEF MatchOnly, Keyed
<1>20. QED
  BY <1>2, <1>4, <1>18, <1>19

\* Matchers that say what fields are, none of them a lone word.
AllSay(s, f) == s \in Seq(Matchers) /\ \A m \in ToSet(s) : Says(m, f) /\ m.key # Empty /\ m.space = FALSE
Twofold(all, s, t) == all = s \o t
LEMMA TwoSay ==
    ASSUME NEW f, NEW s, NEW t, AllSay(s, f), AllSay(t, f), NEW all, Twofold(all, s, t)
    PROVE  AllSay(all, f) /\ ToSet(all) = ToSet(s) \cup ToSet(t)
<1>1. PICK x \in Seq(Matchers), y \in Seq(Matchers) : x = s /\ y = t
  BY DEF AllSay
<1>2. ToSet(x \o y) = ToSet(x) \cup ToSet(y)
  BY SetOfTwo
<1>3. x \o y \in Seq(Matchers)
  BY ConcatProperties
<1>4. PICK z : z = x \o y /\ z = all
  BY <1>1 DEF Twofold
<1>5. AllSay(z, f)
  BY <1>1, <1>2, <1>3, <1>4 DEF AllSay
<1>6. QED
  BY <1>1, <1>2, <1>4, <1>5

\* What is taken of a flow's text for a field is what says what the field is.
LEMMA FieldsSay ==
    ASSUME NEW f, Legible(f), NEW key \in {"table", "idle_timeout", "cookie"}
    PROVE  /\ AllSay(FieldsOf(FlowTextOf(f), key), f)
           /\ ToSet(FieldsOf(FlowTextOf(f), key)) = {m \in ToSet(After(f)) : m.key = key}
           /\ \A n : /\ AllSay(OtherThan(FlowTextOf(f), key, n), f)
                     /\ ToSet(OtherThan(FlowTextOf(f), key, n)) = {m \in ToSet(After(f)) : m.key = key /\ m.val[1].n # n}
<1>1. PICK text : text = FlowTextOf(f)
  OBVIOUS
<1>2. PICK pri, origin, ms, after : pri = Priority(f) /\ origin = Origin(f) /\ ms = MatchMatchers(f) /\ after = After(f)
  OBVIOUS
<1>3. /\ text.matchers \in Seq(Matchers)
      /\ ToSet(text.matchers) = {pri} \cup ToSet(origin) \cup ToSet(ms) \cup ToSet(after)
  BY <1>1, <1>2, KeysOfText
<1>4. /\ \A m \in ToSet(origin) : m.key \in {Empty, "in_port"}
      /\ pri.key = "priority" /\ \A m \in ToSet(ms) : m.key \in KnownKeys \ {"in_port"}
  BY <1>2, KeysOfText
<1>5. \A m \in ToSet(after) : m.key \in {"table", "idle_timeout", "cookie"} /\ Says(m, f) /\ m.space = FALSE
  BY <1>2, KeysOfText
<1>6. key # Empty /\ key # "in_port" /\ key # "priority" /\ key \notin KnownKeys
  <2>1. key # Empty
    BY KeysDiffer
  <2>2. QED
    BY <2>1, KeysDiffer
<1>7. ASSUME NEW m \in ToSet(text.matchers), m.key = key PROVE m \in ToSet(after)
  BY <1>3, <1>4, <1>6, <1>7
<1>8. ASSUME NEW m \in ToSet(after) PROVE m \in ToSet(text.matchers)
  BY <1>3
<1>9. {m \in ToSet(text.matchers) : m.key = key} = {m \in ToSet(after) : m.key = key}
  BY <1>7, <1>8
<1>10. \A n : {m \in ToSet(text.matchers) : m.key = key /\ m.val[1].n # n}
                = {m \in ToSet(after) : m.key = key /\ m.val[1].n # n}
  BY <1>7, <1>8
<1>11. /\ FieldsOf(text, key) \in Seq(Matchers)
       /\ ToSet(FieldsOf(text, key)) = {m \in ToSet(after) : m.key = key}
  <2>1. FieldsOf(text, key) \in Seq(Matchers)
    BY <1>3, TakenOf
  <2>2. ToSet(FieldsOf(text, key)) = {m \in ToSet(text.matchers) : m.key = key}
    BY <1>3, TakenOf
  <2>3. QED
    BY <1>9, <2>1, <2>2
<1>12. ASSUME NEW n
       PROVE  /\ OtherThan(text, key, n) \in Seq(Matchers)
              /\ ToSet(OtherThan(text, key, n)) = {m \in ToSet(after) : m.key = key /\ m.val[1].n # n}
  <2>1. OtherThan(text, key, n) \in Seq(Matchers)
    BY <1>3, OthersOf
  <2>2. ToSet(OtherThan(text, key, n)) = {m \in ToSet(text.matchers) : m.key = key /\ m.val[1].n # n}
    BY <1>3, OthersOf
  <2>3. QED
    BY <1>10, <2>1, <2>2
<1>13. AllSay(FieldsOf(text, key), f)
  BY <1>5, <1>6, <1>11 DEF AllSay
<1>14. \A n : AllSay(OtherThan(text, key, n), f)
  BY <1>5, <1>6, <1>12 DEF AllSay
<1>15. QED
  BY <1>1, <1>2, <1>11, <1>12, <1>13, <1>14

\* One matcher says what a field is.
LEMMA OneSays ==
    ASSUME NEW f, NEW m, Says(m, f), m.key # Empty, m.space = FALSE
    PROVE  AllSay(<<m>>, f) /\ ToSet(<<m>>) = {m}
<1>1. PICK s : s = <<m>>
  OBVIOUS
<1>2. m \in Matchers
  BY DEF Says
<1>3. s \in Seq(Matchers) /\ ToSet(s) = {m}
  BY <1>1, <1>2, SetOfFew
<1>4. AllSay(s, f)
  BY <1>3 DEF AllSay
<1>5. QED
  BY <1>1, <1>3, <1>4

\* The front of a printed line says what fields are.
LEMMA FrontSays ==
    ASSUME NEW f, Legible(f)
    PROVE  /\ AllSay(FrontOf(FlowTextOf(f)), f)
           /\ TableMatcher(f) \in ToSet(FrontOf(FlowTextOf(f)))
           /\ f.idle # 0 => Idle(f) \in ToSet(FrontOf(FlowTextOf(f)))
           /\ f.cookie > 0 => Matcher("cookie", <<Hex(f.cookie)>>) \in ToSet(FrontOf(FlowTextOf(f)))
<1>1. f \in Asks
  BY DEF Legible
<1>2. \A key, v : Matcher(key, v).key = key /\ Matcher(key, v).space = FALSE /\ Matcher(key, v).val = v
  BY DEF Matcher
<1>3. PICK text : text = FlowTextOf(f)
  OBVIOUS
<1>4. PICK hex : hex = Matcher("cookie", <<Hex(f.cookie)>>)
  OBVIOUS
<1>5. PICK c : c = IF FieldsOf(text, "cookie") = <<>> THEN <<Matcher("cookie", <<Hex(0)>>)>> ELSE FieldsOf(text, "cookie")
  OBVIOUS
<1>6. PICK d : d = <<Matcher("duration", <<Word("other")>>)>>
  OBVIOUS
<1>7. PICK t : t = FieldsOf(text, "table")
  OBVIOUS
<1>8. PICK b : b = <<Matcher("n_packets", <<Dec(0)>>), Matcher("n_bytes", <<Dec(0)>>)>>
  OBVIOUS
<1>9. PICK i : i = OtherThan(text, "idle_timeout", 0)
  OBVIOUS
<1>10. AllSay(c, f) /\ (f.cookie > 0 => hex \in ToSet(c))
  <2>1. AllSay(FieldsOf(text, "cookie"), f)
    BY <1>3, FieldsSay
  <2>2. ToSet(FieldsOf(text, "cookie")) = {m \in ToSet(After(f)) : m.key = "cookie"}
    BY <1>3, FieldsSay
  <2>3. hex.key = "cookie"
    BY <1>2, <1>4
  <2>4. f.cookie > 0 => hex \in ToSet(After(f))
    BY <1>1, <1>4, PiecesAre
  <2>5. f.cookie > 0 => hex \in ToSet(FieldsOf(text, "cookie"))
    BY <2>2, <2>3, <2>4
  <2>6. ASSUME FieldsOf(text, "cookie") = <<>>
        PROVE  f.cookie = 0 /\ AllSay(c, f)
    <3>1. ~(f.cookie > 0)
      BY <2>5, <2>6, SetOfFew
    <3>2. f.cookie = 0
      BY <1>1, <3>1 DEF Asks, Flows
    <3>3. c = <<hex>>
      BY <1>4, <1>5, <2>6, <3>2
    <3>4. Says(hex, f)
      BY <1>1, <1>4, EachSays
    <3>5. hex.key # Empty /\ hex.space = FALSE
      BY <1>2, <1>4, <2>3, KeysDiffer
    <3>6. QED
      BY <3>2, <3>3, <3>4, <3>5, OneSays
  <2>7. QED
    BY <1>5, <2>1, <2>5, <2>6
<1>11. AllSay(d, f)
  <2>1. PICK m : m = Matcher("duration", <<Word("other")>>)
    OBVIOUS
  <2>2. Says(m, f)
    BY <1>1, <2>1, EachSays
  <2>3. m.key # Empty /\ m.space = FALSE
    BY <1>2, <2>1, FieldsApart DEF Counters
  <2>4. QED
    BY <1>6, <2>1, <2>2, <2>3, OneSays
<1>12. AllSay(t, f) /\ TableMatcher(f) \in ToSet(t)
  <2>1. AllSay(t, f)
    BY <1>3, <1>7, FieldsSay
  <2>2. ToSet(t) = {m \in ToSet(After(f)) : m.key = "table"}
    BY <1>3, <1>7, FieldsSay
  <2>3. TableMatcher(f) \in ToSet(After(f)) /\ TableMatcher(f).key = "table"
    BY <1>1, <1>2, PiecesAre DEF TableMatcher
  <2>4. QED
    BY <2>1, <2>2, <2>3
<1>13. AllSay(b, f)
  <2>1. PICK m, n : m = Matcher("n_packets", <<Dec(0)>>) /\ n = Matcher("n_bytes", <<Dec(0)>>)
    OBVIOUS
  <2>2. Says(m, f) /\ Says(n, f)
    BY <1>1, <2>1, EachSays
  <2>3. m.key # Empty /\ m.space = FALSE /\ n.key # Empty /\ n.space = FALSE
    BY <1>2, <2>1, FieldsApart DEF Counters
  <2>4. m \in Matchers /\ n \in Matchers
    BY <2>2 DEF Says
  <2>5. b = <<m, n>>
    BY <1>8, <2>1
  <2>6. b \in Seq(Matchers) /\ ToSet(b) = {m, n}
    BY <2>4, <2>5, SetOfFew
  <2>7. QED
    BY <2>2, <2>3, <2>6 DEF AllSay
<1>14. AllSay(i, f) /\ (f.idle # 0 => Idle(f) \in ToSet(i))
  <2>1. AllSay(i, f)
    BY <1>3, <1>9, FieldsSay
  <2>2. ToSet(i) = {m \in ToSet(After(f)) : m.key = "idle_timeout" /\ m.val[1].n # 0}
    BY <1>3, <1>9, FieldsSay
  <2>3. Idle(f) \in ToSet(After(f)) /\ Idle(f).key = "idle_timeout"
    BY <1>1, <1>2, PiecesAre DEF Idle
  <2>4. Idle(f).val[1].n = f.idle
    <3>1. Idle(f).val = <<Dec(f.idle)>>
      BY <1>2 DEF Idle
    <3>2. \A p : <<p>>[1] = p
      OBVIOUS
    <3>3. Dec(f.idle).n = f.idle
      BY DEF Dec, Part
    <3>4. QED
      BY <3>1, <3>2, <3>3
  <2>5. QED
    BY <2>1, <2>2, <2>3, <2>4
<1>15. PICK cd : Twofold(cd, c, d)
  BY DEF Twofold
<1>16. AllSay(cd, f) /\ ToSet(cd) = ToSet(c) \cup ToSet(d)
  BY <1>10, <1>11, <1>15, TwoSay
<1>17. PICK cdt : Twofold(cdt, cd, t)
  BY DEF Twofold
<1>18. AllSay(cdt, f) /\ ToSet(cdt) = ToSet(cd) \cup ToSet(t)
  BY <1>12, <1>16, <1>17, TwoSay
<1>19. PICK cdtb : Twofold(cdtb, cdt, b)
  BY DEF Twofold
<1>20. AllSay(cdtb, f) /\ ToSet(cdtb) = ToSet(cdt) \cup ToSet(b)
  BY <1>13, <1>18, <1>19, TwoSay
<1>24. PICK all : Twofold(all, cdtb, i)
  BY DEF Twofold
<1>21. AllSay(all, f) /\ ToSet(all) = ToSet(cdtb) \cup ToSet(i)
  BY <1>14, <1>20, <1>24, TwoSay
<1>22. FrontOf(text) = all
  BY <1>5, <1>6, <1>7, <1>8, <1>9, <1>15, <1>17, <1>19, <1>24 DEF FrontOf, Twofold
<1>23. QED
  BY <1>3, <1>4, <1>10, <1>12, <1>14, <1>16, <1>18, <1>20, <1>21, <1>22

\* A space in front of what says what a field is changes nothing.
LEMMA SpaceSays ==
    ASSUME NEW f, NEW m, Says(m, f), m.key # Empty
    PROVE  Says([m EXCEPT !.space = TRUE], f) /\ [m EXCEPT !.space = TRUE].key = m.key
<1>1. m \in Matchers
  BY DEF Says
<1>2. PICK h : h = [m EXCEPT !.space = TRUE]
  OBVIOUS
<1>3. h \in Matchers /\ h.key = m.key /\ h.val = m.val
  BY <1>1, <1>2 DEF Matchers
<1>4. Says(h, f)
  BY <1>3 DEF Says
<1>5. QED
  BY <1>2, <1>3, <1>4

LEMMA NoSpace ==
    ASSUME NEW m \in Matchers, m.space = FALSE
    PROVE  [m EXCEPT !.space = FALSE] = m
BY DEF Matchers

\* So it does in front of several.
LEMMA SpacedLaid ==
    ASSUME NEW f, NEW ms \in Seq(Matchers), NEW a \in Nat, Laid(ms, a, 0, f), NEW n \in Nat, n <= a,
           \A i \in 1..Len(ms) : ms[i].space = FALSE /\ (i <= n => ms[i].key # Empty)
    PROVE  Laid(Spaced(ms, n), a, 0, f) /\ \A key : HasKey(ms, key) => HasKey(Spaced(ms, n), key)
<1>1. PICK l \in Nat : l = Len(ms)
  OBVIOUS
<1>11. PICK c : c = Len(f.matches)
  OBVIOUS
<1>2. PICK hs \in Seq(Matchers) : hs = Spaced(ms, n)
  BY SpacedType
<1>3. Len(hs) = l /\ \A i \in 1..l : hs[i] = [ms[i] EXCEPT !.space = i \in 2..n]
  BY <1>1, <1>2, SpacedType
<1>4. ASSUME NEW i \in 1..l, i \notin 2..n
      PROVE  hs[i] = ms[i]
  <2>1. hs[i] = [ms[i] EXCEPT !.space = FALSE]
    <3>1. (i \in 2..n) = FALSE
      BY <1>4
    <3>2. QED
      BY <1>3, <3>1
  <2>2. ms[i] \in Matchers /\ ms[i].space = FALSE
    BY <1>1
  <2>3. QED
    BY <2>1, <2>2, NoSpace
<1>5. ASSUME NEW i \in 1..l, i \in 2..n
      PROVE  Says(hs[i], f) /\ hs[i].key = ms[i].key /\ i <= a
  <2>1. i <= n /\ i <= a
    BY <1>5
  <2>2. ms[i].key # Empty
    BY <1>1, <2>1
  <2>3. Says(ms[i], f)
    BY <1>1, <2>1 DEF Laid
  <2>4. hs[i] = [ms[i] EXCEPT !.space = TRUE]
    BY <1>3, <1>5
  <2>5. PICK m : m = ms[i]
    OBVIOUS
  <2>6. Says([m EXCEPT !.space = TRUE], f) /\ [m EXCEPT !.space = TRUE].key = m.key
    BY <2>2, <2>3, <2>5, SpaceSays
  <2>7. QED
    BY <2>1, <2>4, <2>5, <2>6
<1>6. ASSUME NEW i \in 1..l
      PROVE  IF a < i /\ i <= a + (c - 0) THEN hs[i] = MatchMatcher(f.matches[i - a + 0]) ELSE Says(hs[i], f)
  <2>1. IF a < i /\ i <= a + (c - 0) THEN ms[i] = MatchMatcher(f.matches[i - a + 0]) ELSE Says(ms[i], f)
    BY <1>1, <1>11 DEF Laid
  <2>2. CASE i \in 2..n
    <3>1. ~(a < i)
      BY <1>5, <2>2
    <3>2. QED
      BY <1>5, <2>2, <3>1
  <2>3. CASE i \notin 2..n
    BY <1>4, <2>1, <2>3
  <2>4. QED
    BY <2>2, <2>3
<1>7. Laid(hs, a, 0, f)
  <2>1. a + (c - 0) <= l
    BY <1>1, <1>11 DEF Laid
  <2>2. QED
    BY <1>11, <1>3, <1>6, <2>1 DEF Laid
<1>8. \A i \in 1..l : hs[i].key = ms[i].key
  BY <1>4, <1>5
<1>9. \A key : HasKey(ms, key) => HasKey(hs, key)
  BY <1>1, <1>3, <1>8 DEF HasKey
<1>10. QED
  BY <1>2, <1>7, <1>9

\* A priority that is not the default one is printed.
LEMMA PrioritySays ==
    ASSUME NEW f, Legible(f), f.priority # DefaultPriority
    PROVE  /\ AllSay(OtherThan(FlowTextOf(f), "priority", DefaultPriority), f)
           /\ ToSet(OtherThan(FlowTextOf(f), "priority", DefaultPriority)) = {Priority(f)}
<1>1. f \in Asks
  BY DEF Legible
<1>2. PICK text : text = FlowTextOf(f)
  OBVIOUS
<1>3. PICK pri, origin, ms, after : pri = Priority(f) /\ origin = Origin(f) /\ ms = MatchMatchers(f) /\ after = After(f)
  OBVIOUS
<1>4. /\ text.matchers \in Seq(Matchers)
      /\ ToSet(text.matchers) = {pri} \cup ToSet(origin) \cup ToSet(ms) \cup ToSet(after)
  BY <1>2, <1>3, KeysOfText
<1>5. /\ \A m \in ToSet(origin) : m.key \in {Empty, "in_port"}
      /\ \A m \in ToSet(ms) : m.key \in KnownKeys \ {"in_port"}
      /\ \A m \in ToSet(after) : m.key \in {"table", "idle_timeout", "cookie"}
  BY <1>3, KeysOfText
<1>6. pri.key = "priority" /\ Says(pri, f) /\ pri.space = FALSE
  BY <1>3, KeysOfText
<1>7. "priority" # Empty /\ "priority" \notin KnownKeys
  <2>1. "priority" # Empty
    BY KeysDiffer
  <2>2. QED
    BY <2>1, KeysDiffer
<1>8. pri.val[1].n # DefaultPriority
  <2>1. pri.val = <<Dec(f.priority)>>
    BY <1>3 DEF Priority, Matcher
  <2>2. \A p : <<p>>[1] = p
    OBVIOUS
  <2>3. Dec(f.priority).n = f.priority
    BY DEF Dec, Part
  <2>4. QED
    BY <2>1, <2>2, <2>3
<1>9. {m \in ToSet(text.matchers) : m.key = "priority" /\ m.val[1].n # DefaultPriority} = {pri}
  <2>1. ASSUME NEW m \in ToSet(text.matchers), m.key = "priority" PROVE m = pri
    BY <1>4, <1>5, <1>7, <2>1
  <2>2. pri \in ToSet(text.matchers)
    BY <1>4
  <2>3. QED
    BY <1>6, <1>8, <2>1, <2>2
<1>10. PICK p : p = OtherThan(text, "priority", DefaultPriority)
  OBVIOUS
<1>11. p \in Seq(Matchers) /\ ToSet(p) = {pri}
  <2>1. p \in Seq(Matchers)
    BY <1>4, <1>10, OthersOf
  <2>2. ToSet(p) = {m \in ToSet(text.matchers) : m.key = "priority" /\ m.val[1].n # DefaultPriority}
    BY <1>4, <1>10, OthersOf
  <2>3. QED
    BY <1>9, <2>1, <2>2
<1>12. AllSay(p, f)
  BY <1>6, <1>7, <1>11 DEF AllSay
<1>13. QED
  BY <1>2, <1>3, <1>10, <1>11, <1>12

\* The line that ovs-ofctl prints, when the priority is in it.
LEMMA PrintedLineAre ==
    ASSUME NEW f, Legible(f), f.priority # DefaultPriority
    PROVE  MatchersAre(f, NoFlow, PrintedLine(FlowTextOf(f)).matchers)
<1>1. f \in Asks
  BY DEF Legible
<1>2. PICK text : text = FlowTextOf(f)
  OBVIOUS
<1>3. PICK front : front = FrontOf(text)
  OBVIOUS
<1>4. AllSay(front, f)
  BY <1>2, <1>3, FrontSays
<1>5. PICK p : p = OtherThan(text, "priority", DefaultPriority)
  OBVIOUS
<1>6. AllSay(p, f) /\ ToSet(p) = {Priority(f)}
  BY <1>2, <1>5, PrioritySays
<1>7. PICK fp \in Seq(Matchers) : Twofold(fp, front, p)
  BY <1>4, <1>6, ConcatProperties DEF AllSay, Twofold
<1>8. AllSay(fp, f) /\ ToSet(fp) = ToSet(front) \cup ToSet(p)
  BY <1>4, <1>6, <1>7, TwoSay
<1>9. PICK origin \in Seq(Matchers), ms \in Seq(Matchers) : origin = Origin(f) /\ ms = MatchMatchers(f)
  BY <1>1, PiecesAre, PiecesType
<1>10. PICK A \in Seq(Matchers) : A = fp \o origin
  BY ConcatProperties
<1>11. ToSet(A) = ToSet(fp) \cup ToSet(origin)
  BY <1>10, SetOfTwo
<1>12. PICK all \in Seq(Matchers) : all = A \o ms
  BY ConcatProperties
<1>13. PrintedAs(text) = all
  <2>1. EitherOrder(fp, origin, ms)
    BY EitherWayIn
  <2>2. fp \o (origin \o ms) = all
    BY <1>10, <1>12, <2>1 DEF EitherOrder
  <2>3. MatchOnly(text) = origin \o ms
    BY <1>2, <1>9, MatchOnlyIs
  <2>4. PrintedAs(text) = fp \o MatchOnly(text)
    BY <1>3, <1>5, <1>7 DEF PrintedAs, Twofold
  <2>5. QED
    BY <2>2, <2>3, <2>4
<1>14. ToSet(all) = ToSet(A) \cup ToSet(ms)
  BY <1>12, SetOfTwo
<1>15. \A m \in ToSet(A) : Says(m, f) /\ m.space = FALSE
  BY <1>8, <1>9, <1>11, KeysOfText DEF AllSay
<1>16. Laid(all, Len(A), 0, f)
  <2>5. <<>> \in Seq(Matchers)
    OBVIOUS
  <2>1. PICK none \in Seq(Matchers) : none = <<>>
    BY <2>5
  <2>2. \A m \in ToSet(A) \cup ToSet(none) : Says(m, f)
    BY <1>15, <2>1, SetOfFew
  <2>3. all = A \o MatchMatchers(f) \o none
    BY <1>9, <1>12, <2>1
  <2>4. QED
    BY <1>1, <2>2, <2>3, LaidOut
<1>17. PICK n \in Nat : n = Len(front) + 1
  <2>1. front \in Seq(Matchers)
    BY <1>4 DEF AllSay
  <2>2. QED
    BY <2>1
<1>18. n <= Len(fp) /\ Len(fp) <= Len(A) /\ Len(A) <= Len(all) /\ \A i \in 1..Len(fp) : all[i] = fp[i]
  <2>1. PICK x \in Seq(Matchers), y \in Seq(Matchers) : x = front /\ y = p
    BY <1>4, <1>6 DEF AllSay
  <2>2. Len(y) # 0
    <3>1. y # <<>>
      BY <1>6, <2>1, SetOfFew
    <3>2. QED
      BY <3>1
  <2>3. Len(fp) = Len(x) + Len(y)
    BY <1>7, <2>1, ConcatProperties DEF Twofold
  <2>4. n <= Len(fp)
    BY <1>17, <2>1, <2>2, <2>3
  <2>5. Len(A) = Len(fp) + Len(origin) /\ \A i \in 1..Len(fp) : A[i] = fp[i]
    BY <1>10, TwoPlaces
  <2>6. Len(all) = Len(A) + Len(ms) /\ \A i \in 1..Len(A) : all[i] = A[i]
    BY <1>12, TwoPlaces
  <2>7. PICK b \in Nat, c \in Nat, d \in Nat, e \in Nat, o \in Nat :
            b = Len(fp) /\ c = Len(A) /\ d = Len(all) /\ e = Len(ms) /\ o = Len(origin)
    OBVIOUS
  <2>8. c = b + o /\ d = c + e
    BY <2>5, <2>6, <2>7
  <2>9. b <= c /\ c <= d
    BY <2>8
  <2>10. \A i \in 1..b : all[i] = fp[i]
    BY <2>5, <2>6, <2>7, <2>9
  <2>11. QED
    BY <2>4, <2>7, <2>9, <2>10
<1>19. ASSUME NEW i \in 1..Len(all) PROVE all[i].space = FALSE /\ (i <= n => all[i].key # Empty)
  <2>1. all[i] \in ToSet(A) \cup ToSet(ms)
    <3>1. all[i] \in ToSet(all)
      BY DEF ToSet
    <3>2. QED
      BY <1>14, <3>1
  <2>2. \A m \in ToSet(ms) : m.space = FALSE
    BY <1>9, KeysOfText
  <2>3. all[i].space = FALSE
    BY <1>15, <2>1, <2>2
  <2>4. ASSUME i <= n PROVE all[i].key # Empty
    <3>1. i \in 1..Len(fp)
      BY <1>18, <2>4
    <3>2. all[i] = fp[i] /\ fp[i] \in ToSet(fp)
      BY <1>18, <3>1 DEF ToSet
    <3>3. QED
      BY <1>8, <3>2 DEF AllSay
  <2>5. QED
    BY <2>3, <2>4
<1>20. \A key \in FieldKeys : Agree(NoFlow, f, key) \/ HasKey(all, key)
  <2>1. \A key, v : Matcher(key, v).key = key
    BY DEF Matcher
  <2>2. TableMatcher(f) \in ToSet(all) /\ TableMatcher(f).key = "table"
    BY <1>2, <1>3, <1>8, <1>11, <1>14, <2>1, FrontSays DEF TableMatcher
  <2>3. Priority(f) \in ToSet(all) /\ Priority(f).key = "priority"
    BY <1>6, <1>8, <1>11, <1>14, <2>1 DEF Priority
  <2>4. f.idle # 0 => Idle(f) \in ToSet(all) /\ Idle(f).key = "idle_timeout"
    BY <1>2, <1>3, <1>8, <1>11, <1>14, <2>1, FrontSays DEF Idle
  <2>5. f.cookie > 0 => \E m \in ToSet(all) : m.key = "cookie"
    BY <1>2, <1>3, <1>8, <1>11, <1>14, <2>1, FrontSays
  <2>6. f.inport # 0 => \E m \in ToSet(all) : m.key = "in_port"
    BY <1>1, <1>9, <1>11, <1>14, <2>1, PiecesAre
  <2>7. f.protocol.word # Empty => \E m \in ToSet(all) : m.key = Empty
    BY <1>1, <1>9, <1>11, <1>14, <2>1, PiecesAre
  <2>8. QED
    BY <1>1, <2>2, <2>3, <2>4, <2>5, <2>6, <2>7, NothingAgrees
<1>21. PICK a \in Nat : a = Len(A)
  OBVIOUS
<1>22. PICK hs : hs = Spaced(all, n)
  OBVIOUS
<1>23. Laid(hs, a, 0, f) /\ \A key : HasKey(all, key) => HasKey(hs, key)
  <2>1. n <= a
    BY <1>18, <1>21
  <2>2. Laid(all, a, 0, f)
    BY <1>16, <1>21
  <2>3. QED
    BY <1>19, <1>22, <2>1, <2>2, SpacedLaid
<1>24. PrintedLine(text).matchers = hs
  BY <1>3, <1>13, <1>17, <1>22, PrintedLineIs
<1>25. \A key \in FieldKeys : Agree(NoFlow, f, key) \/ HasKey(hs, key)
  BY <1>20, <1>23
<1>26. 0 \in 0..Len(f.matches)
  BY <1>1 DEF Asks, Flows
<1>27. QED
  BY <1>2, <1>23, <1>24, <1>25, <1>26, NoMatchesRead DEF MatchersAre

-----------------------------------------------------------------------------
(* A flow that is read is the one that was meant *)

\* An entry says what it means, if it is known to mean anything.
Telltale(e) ==
    e.means # <<>> => /\ e.means[1] \in Asks /\ FlowMarshals(e.means[1])
                      /\ e.text = FlowTextOf(e.means[1])
\* What HasMeaning asks for, of lines that are printed or not.
Means(e, print) ==
    /\ e.means # <<>>
    /\ \A i \in DOMAIN e.means[1].matches : ~MisreadMatch(e.means[1].matches[i])
    /\ \A i \in DOMAIN e.means[1].actions : ~MisreadAction(e.means[1].actions[i])
    /\ print => e.means[1].priority # DefaultPriority
LEMMA MeansIs == \A e : HasMeaning(e) <=> Means(e, printed)
BY DEF HasMeaning, Readable, Means

\* The line of such an entry, before any of it is read.
LEMMA LineMeans ==
    ASSUME NEW e \in Entries, Telltale(e), NEW print, Means(e, print), NEW f, f = e.means[1]
    PROVE  Legible(f) /\ MatchersAre(f, NoFlow, LineOf(e, print).matchers) /\ e.text.actions = Join(Tokens(f))
<1>1. f \in Asks /\ FlowMarshals(f) /\ e.text = FlowTextOf(f)
  BY DEF Telltale, Means
<1>2. Legible(f) /\ (print => f.priority # DefaultPriority)
  BY <1>1 DEF Means, Legible
<1>3. FlowTextOf(f).actions = Join(Tokens(f))
  BY <1>1, FlowTextType
<1>4. CASE print
  BY <1>1, <1>2, <1>3, <1>4, PrintedLineAre DEF LineOf
<1>5. CASE ~print
  BY <1>1, <1>2, <1>3, <1>5, WrittenLine DEF LineOf
<1>6. QED
  BY <1>4, <1>5

\* The actions that were read are the first of those that were meant.
ActionsRead(f, acts, g) ==
    /\ acts = Upto(Tokens(f), Len(acts)) /\ Len(acts) <= Len(Tokens(f)) /\ Len(g.actions) = Len(acts)
    /\ \A i \in 1..Len(acts) : SameAction(g.actions[i], f.actions[i])
LEMMA NoActionsRead == ASSUME NEW f, Legible(f) PROVE ActionsRead(f, <<>>, NoFlow)
<1>1. Tokens(f) \in Seq(Seq(Parts))
  BY TokensReread
<1>2. Upto(Tokens(f), 0) = <<>>
  BY <1>1, PlaceByPlace
<1>3. Len(NoFlow.actions) = 0
  BY DEF NoFlow
<1>4. 0 <= Len(Tokens(f))
  BY <1>1
<1>5. Len(<<>>) = 0
  OBVIOUS
<1>6. QED
  BY <1>2, <1>3, <1>4, <1>5 DEF ActionsRead

\* A flow that was read is no other than the one that was meant.
SameFlow(g, f) ==
    /\ MatchesRead(g, f, Len(f.matches)) /\ \A key \in FieldKeys : Agree(g, f, key)
    /\ Len(g.actions) = Len(f.actions) /\ \A i \in 1..Len(f.actions) : SameAction(g.actions[i], f.actions[i])

\* Actions are no matter of matchers.
LEMMA MatchersKept ==
    ASSUME NEW f, NEW g \in ReadFields, NEW x, NEW rest, MatchersAre(f, g, rest)
    PROVE  MatchersAre(f, [g EXCEPT !.actions = x], rest)
<1>1. PICK h : h = [g EXCEPT !.actions = x]
  OBVIOUS
<1>2. /\ h.matches = g.matches /\ h.protocol = g.protocol /\ h.priority = g.priority /\ h.table = g.table
      /\ h.idle = g.idle /\ h.cookie = g.cookie /\ h.inport = g.inport
  BY <1>1 DEF ReadFields
<1>3. \A key : Agree(g, f, key) => Agree(h, f, key)
  BY <1>2 DEF Agree
<1>4. \A k : MatchesRead(g, f, k) => MatchesRead(h, f, k)
  BY <1>2 DEF MatchesRead
<1>5. QED
  BY <1>1, <1>3, <1>4 DEF MatchersAre

\* One more of a sequence, place by place.
OneLonger(all, s, b) == Len(all) = Len(s) + 1 /\ (\A i \in 1..Len(s) : all[i] = s[i]) /\ all[Len(s) + 1] = b
LEMMA OneMorePlace ==
    ASSUME NEW T, NEW s \in Seq(T), NEW b \in T, NEW all, Twofold(all, s, <<b>>)
    PROVE  OneLonger(all, s, b)
BY DEF OneLonger, Twofold

\* An action that ends is one more.
LEMMA ActionIsRead ==
    ASSUME NEW f, Legible(f), NEW acts \in Seq(Seq(Parts)), NEW g \in ReadFields, ActionsRead(f, acts, g),
           Len(acts) < Len(Tokens(f)), NEW one, one = Tokens(f)[Len(acts) + 1]
    PROVE  /\ Height(one) = 0 /\ ParseAction(one) # <<>>
           /\ ActionsRead(f, Append(acts, one), [g EXCEPT !.actions = g.actions \o ParseAction(one)])
<1>1. PICK Ts \in Seq(Seq(Parts)), n \in Nat : Ts = Tokens(f) /\ n = Len(Ts)
  BY TokensReread
<1>2. PICK k \in Nat, j \in Nat : k = Len(acts) /\ j = k + 1
  OBVIOUS
<1>3. k < n /\ j \in 1..n /\ j - 1 = k
  BY <1>1, <1>2
<1>4. one = Ts[j]
  BY <1>1, <1>2
<1>5. Reread(one, f.actions[j])
  BY <1>1, <1>3, <1>4, TokensReread
<1>6. Height(one) = 0
  BY <1>5 DEF Reread, Sound, Balanced
<1>7. PICK b : ParseAction(one) = <<b>> /\ SameAction(b, f.actions[j])
  BY <1>5 DEF Reread
<1>8. one \in Seq(Parts)
  BY <1>5 DEF Reread, Sound
<1>9. ParseAction(one) \in Seq(ReadActions) /\ ParseAction(one) # <<>>
  <2>1. PICK s \in Seq(Parts) : s = one
    BY <1>8
  <2>2. ParseAction(s) \in Seq(ReadActions)
    BY ParseActionType
  <2>3. ParseAction(s) = <<b>> /\ <<b>> # <<>>
    BY <1>7, <2>1
  <2>4. QED
    BY <2>1, <2>2, <2>3
<1>10. PICK as \in Seq(ReadActions) : as = g.actions
  BY DEF ReadFields
<1>11. PICK d \in ReadActions : d = b
  <2>1. <<b>> \in Seq(ReadActions)
    BY <1>7, <1>9
  <2>2. b \in ReadActions
    BY <2>1
  <2>3. QED
    BY <2>2
<1>12. ParseAction(one) = <<d>>
  BY <1>7, <1>11
<1>13. PICK x : Twofold(x, as, <<d>>)
  BY DEF Twofold
<1>14. Len(as) = k /\ \A i \in 1..k : SameAction(as[i], f.actions[i])
  BY <1>2, <1>10 DEF ActionsRead
<1>15. Len(x) = j /\ (\A i \in 1..k : x[i] = as[i]) /\ x[j] = b
  <2>1. OneLonger(x, as, d)
    BY <1>13, OneMorePlace
  <2>2. QED
    BY <1>2, <1>11, <1>14, <2>1 DEF OneLonger
<1>16. ASSUME NEW i \in 1..j PROVE SameAction(x[i], f.actions[i])
  <2>1. CASE i = j
    BY <1>7, <1>15, <2>1
  <2>2. CASE i # j
    <3>1. i \in 1..k
      BY <1>2, <2>2
    <3>2. QED
      BY <1>14, <1>15, <3>1
  <2>3. QED
    BY <2>1, <2>2
<1>17. PICK h : h = [g EXCEPT !.actions = x]
  OBVIOUS
<1>18. h.actions = x
  BY <1>17 DEF ReadFields
<1>19. PICK more : more = Append(acts, one)
  OBVIOUS
<1>20. Len(more) = j
  BY <1>2, <1>19
<1>21. more = Upto(Ts, j)
  <2>1. Upto(Ts, j) = Append(Upto(Ts, j - 1), Ts[j])
    <3>1. \A i \in 1..Len(Ts) : Upto(Ts, i) = Append(Upto(Ts, i - 1), Ts[i])
      BY PlaceByPlace
    <3>2. QED
      BY <1>1, <1>3, <3>1
  <2>2. acts = Upto(Ts, k)
    BY <1>1, <1>2 DEF ActionsRead
  <2>3. QED
    BY <1>3, <1>4, <1>19, <2>1, <2>2
<1>22. j <= n
  BY <1>3
<1>23. ActionsRead(f, more, h)
  BY <1>1, <1>15, <1>16, <1>18, <1>20, <1>21, <1>22 DEF ActionsRead
<1>24. QED
  <2>1. x = g.actions \o ParseAction(one)
    BY <1>10, <1>12, <1>13 DEF Twofold
  <2>2. QED
    BY <1>6, <1>9, <1>17, <1>19, <1>23, <2>1

\* When all of them were, none of them was "drop" if it was not meant alone.
LEMMA AllActionsRead ==
    ASSUME NEW f, Legible(f), NEW acts \in Seq(Seq(Parts)), NEW g, ActionsRead(f, acts, g), Len(acts) = Len(Tokens(f))
    PROVE  /\ ~(Len(acts) > 1 /\ Contains(acts, <<Word("drop")>>))
           /\ Len(g.actions) = Len(f.actions) /\ \A i \in 1..Len(f.actions) : SameAction(g.actions[i], f.actions[i])
<1>1. PICK Ts \in Seq(Seq(Parts)), n \in Nat : Ts = Tokens(f) /\ n = Len(Ts)
  BY TokensReread
<1>2. n = Len(f.actions) /\ DOMAIN f.actions = 1..n /\ \A i \in 1..n : Reread(Ts[i], f.actions[i])
  BY <1>1, TokensReread
<1>3. acts = Ts
  <2>1. acts = Upto(Ts, n)
    BY <1>1 DEF ActionsRead
  <2>2. Upto(Ts, n) = Ts
    BY <1>1, PlaceByPlace
  <2>3. QED
    BY <2>1, <2>2
<1>4. ASSUME n > 1, Contains(acts, <<Word("drop")>>) PROVE FALSE
  <2>1. PICK i \in 1..n : Ts[i] = <<Word("drop")>>
    <3>1. \E i \in 1..Len(acts) : acts[i] = <<Word("drop")>>
      BY <1>4 DEF Contains
    <3>2. QED
      BY <1>1, <1>3, <3>1
  <2>2. f.actions[i].of = "drop"
    BY <1>2, <2>1 DEF Reread
  <2>3. Len(f.actions) > 1 => \A l \in DOMAIN f.actions : f.actions[l].of # "drop"
    BY DEF Legible, FlowMarshals
  <2>4. QED
    BY <1>2, <1>4, <2>2, <2>3
<1>5. Len(g.actions) = n /\ \A i \in 1..n : SameAction(g.actions[i], f.actions[i])
  BY <1>1, <1>3 DEF ActionsRead
<1>6. QED
  BY <1>1, <1>2, <1>3, <1>4, <1>5

\* Entries mean what they say; nothing is read before a dump; what is being read
\* is as far as it should be; what was read is what was meant; and nothing that
\* has a meaning fails.
Meant     == \A k \in DOMAIN bridge : Telltale(bridge[k])
Unread    == phase = "idle" => got = NoFlow
AsMeant(f, g, acts, rest) == ActionsRead(f, acts, g) /\ MatchersAre(f, g, rest)
OnTrack   == phase = "line" /\ HasMeaning(Entry) => AsMeant(Entry.means[1], got, raw, left.matchers)
FlowsRead ==
    phase # "deleted" => \A k \in DOMAIN flows : HasMeaning(bridge[k]) => SameFlow(flows[k], bridge[k].means[1])
Succeeds  == phase \in {"failed", "panicked"} => ~HasMeaning(Entry)
Round     == Splits /\ Meant /\ Unread /\ OnTrack /\ FlowsRead /\ Succeeds

\* The entry that is being read is one of the bridge.
LEMMA EntryIs ==
    ASSUME Splits, Meant, phase = "line"
    PROVE  Entry \in Entries /\ Telltale(Entry) /\ Len(flows) + 1 \in DOMAIN bridge /\ Len(flows) \in Nat
<1>1. Len(lines) + Len(flows) + 1 = Len(bridge)
  BY DEF Splits, Lined, Reading
<1>2. Len(lines) \in Nat /\ Len(flows) \in Nat /\ bridge \in Seq(Entries)
  BY DEF Splits, Types
<1>3. PICK n \in Nat, l \in Nat, e \in Nat : n = Len(flows) /\ l = Len(lines) /\ e = Len(bridge) /\ l + n + 1 = e
  BY <1>1, <1>2
<1>4. n + 1 \in 1..e
  BY <1>3
<1>5. DOMAIN bridge = 1..e
  BY <1>2, <1>3
<1>6. n + 1 \in DOMAIN bridge
  BY <1>4, <1>5
<1>7. bridge[n + 1] \in Entries
  BY <1>2, <1>6
<1>8. QED
  BY <1>3, <1>6, <1>7 DEF Meant, Entry

\* Where the reading of an entry with a meaning is.
AtWork(f) ==
    /\ f = Entry.means[1] /\ Legible(f) /\ Means(Entry, printed)
    /\ Midway(Tokens(f), raw, buf, left.actions)
    /\ AsMeant(f, got, raw, left.matchers)
\* While the line of such an entry is read, that is where it is.
LEMMA WorkIs ==
    ASSUME Round, phase = "line", HasMeaning(Entry)
    PROVE  \E f : AtWork(f)
<1>1. PICK e \in Entries : e = Entry /\ Telltale(e)
  BY EntryIs DEF Round
<1>2. PICK f : f = e.means[1]
  OBVIOUS
<1>3. Means(e, printed)
  BY <1>1, MeansIs
<1>4. Legible(f) /\ e.text.actions = Join(Tokens(f))
  BY <1>1, <1>2, <1>3, LineMeans
<1>5. AsMeant(f, got, raw, left.matchers)
  BY <1>1, <1>2 DEF Round, OnTrack
<1>6. SplitAs(raw, buf, left.actions, Join(Tokens(f))) /\ CommasInside(buf)
  BY <1>1, <1>4 DEF Round, Splits, Split, Deep, Reading
<1>7. Midway(Tokens(f), raw, buf, left.actions)
  BY <1>5, <1>6 DEF Midway, AsMeant, ActionsRead
<1>8. QED
  BY <1>1, <1>2, <1>3, <1>4, <1>5, <1>7 DEF AtWork

\* What such reading comes to next.
LEMMA WorkEnds ==
    ASSUME Round, phase = "line", NEW f, AtWork(f)
    PROVE  /\ (left.actions = <<>> /\ buf # <<>>) \/ (left.actions # <<>> /\ Head(left.actions) = Comma /\ depth = 0) =>
                 Len(raw) < Len(Tokens(f)) /\ buf = Tokens(f)[Len(raw) + 1]
           /\ left.actions = <<>> /\ buf = <<>> => Len(raw) = Len(Tokens(f))
           /\ ~(left.actions # <<>> /\ Head(left.actions) = Close /\ depth = 0)
<1>1. PICK Ts \in Seq(Seq(Parts)) : Ts = Tokens(f) /\ Ts # <<>> /\ \A i \in 1..Len(Ts) : Sound(Ts[i])
  <2>1. Legible(f)
    BY DEF AtWork
  <2>2. /\ Tokens(f) \in Seq(Seq(Parts)) /\ Len(Tokens(f)) = Len(f.actions)
        /\ Len(f.actions) \in Nat \ {0} /\ \A i \in 1..Len(f.actions) : Sound(Tokens(f)[i])
    BY <2>1, TokensReread
  <2>3. Tokens(f) # <<>>
    BY <2>2
  <2>4. QED
    BY <2>2, <2>3
<1>2. PICK acts \in Seq(Seq(Parts)), one \in Seq(Parts), rest \in Seq(Parts) :
          acts = raw /\ one = buf /\ rest = left.actions
  BY DEF Round, Splits, Types, Texts
<1>3. Midway(Ts, acts, one, rest)
  BY <1>1, <1>2 DEF AtWork
<1>4. depth = Height(one)
  BY <1>2 DEF Round, Splits, Deep, Reading
<1>5. /\ (rest = <<>> /\ one # <<>>) \/ (rest # <<>> /\ Head(rest) = Comma /\ Height(one) = 0) =>
             Len(acts) < Len(Ts) /\ one = Ts[Len(acts) + 1]
      /\ rest = <<>> /\ one = <<>> => Len(acts) = Len(Ts)
      /\ ~(rest # <<>> /\ Head(rest) = Close /\ Height(one) = 0)
  BY <1>1, <1>3, EndsAsMeant
<1>6. QED
  BY <1>1, <1>2, <1>4, <1>5

\* While a line is read, the flows before and their entries stay.
Stays == UNCHANGED <<bridge, printed, flows>> /\ phase = "line"
LEMMA StaysMeant ==
    ASSUME Round, Splits', Stays, phase' \in {"line", "failed", "panicked"},
           phase' \in {"failed", "panicked"} => ~HasMeaning(Entry),
           phase' = "line" /\ HasMeaning(Entry) => AsMeant(Entry.means[1], got', raw', left'.matchers)
    PROVE  Round'
<1>1. Entry' = Entry
  BY DEF Stays, Entry
<1>2. \A e : HasMeaning(e)' <=> HasMeaning(e)
  BY DEF Stays, HasMeaning, Readable
<1>3. HasMeaning(Entry)' <=> HasMeaning(Entry)
  BY <1>1 DEF Stays, HasMeaning, Readable
<1>4. OnTrack' /\ Succeeds'
  BY <1>1, <1>3 DEF OnTrack, Succeeds
<1>5. FlowsRead'
  BY DEF FlowsRead, Round, Stays, HasMeaning, Readable
<1>6. Meant' /\ Unread'
  BY DEF Round, Meant, Unread, Stays
<1>7. QED
  BY <1>4, <1>5, <1>6 DEF Round

\* A matcher that is read is one that is meant, or has no meaning.
LEMMA ReadMatcherRound == ASSUME Round, ReadMatcher PROVE Round'
<1>1. Splits' /\ Types
  BY ReadMatcherSplits DEF Round, Splits
<1>2. Stays /\ raw' = raw /\ left.matchers # <<>>
  BY DEF ReadMatcher, Stays
<1>3. phase = "line"
  BY <1>2 DEF Stays
<1>4. PICK l \in Texts : l = left
  BY <1>1 DEF Types
<1>5. PICK ms \in Seq(Matchers) : ms = l.matchers /\ ms # <<>>
  BY <1>2, <1>4 DEF Texts
<1>6. ASSUME HasMeaning(Entry)
      PROVE  phase' = "line" /\ AsMeant(Entry.means[1], got', raw', left'.matchers)
  <2>1. PICK f : AtWork(f)
    BY <1>3, <1>6, WorkIs
  <2>2. f = Entry.means[1] /\ Legible(f) /\ ActionsRead(f, raw, got) /\ MatchersAre(f, got, ms)
    BY <1>4, <1>5, <2>1 DEF AtWork, AsMeant
  <2>3. MatcherReads(Head(ms)) /\ MatchersAre(f, WithMatcher(got, Head(ms)), Tail(ms))
        /\ WithMatcher(got, Head(ms)).actions = got.actions
    <3>1. PICK g \in ReadFlows : g = got
      BY <1>1 DEF Types
    <3>2. QED
      BY <1>5, <2>2, <3>1, MatcherIsRead
  <2>4. left.actions # <<>>
    <3>1. raw = <<>> /\ buf = <<>>
      BY <1>2, <1>3 DEF Round, Splits, Fresh
    <3>2. left.actions = <<>> => Len(raw) = Len(Tokens(f))
      BY <1>3, <2>1, <3>1, WorkEnds
    <3>3. Len(Tokens(f)) # 0 /\ Len(raw) = 0
      BY <2>2, <3>1, TokensReread
    <3>4. QED
      BY <3>2, <3>3
  <2>5. got' = WithMatcher(got, Head(ms)) /\ left' = [left EXCEPT !.matchers = Tail(@)] /\ UNCHANGED phase
    BY <1>4, <1>5, <2>3, <2>4 DEF ReadMatcher
  <2>6. left'.matchers = Tail(ms)
    BY <1>4, <1>5, <2>5 DEF Texts
  <2>7. ActionsRead(f, raw, got')
    BY <2>2, <2>3, <2>5 DEF ActionsRead
  <2>8. QED
    BY <1>2, <1>3, <2>2, <2>3, <2>5, <2>6, <2>7 DEF AsMeant
<1>7. phase' \in {"line", "failed"}
  BY <1>3 DEF ReadMatcher
<1>8. QED
  BY <1>1, <1>2, <1>6, <1>7, StaysMeant

\* A token never closes what was not opened, if the line means something.
LEMMA ReadTokenRound == ASSUME Round, ReadToken PROVE Round'
<1>1. Splits' /\ Types
  BY ReadTokenSplits DEF Round, Splits
<1>2. Stays /\ raw' = raw /\ got' = got /\ left.matchers = <<>> /\ left.actions # <<>>
  BY DEF ReadToken, Stays, InActions, AtEnd
<1>3. phase = "line"
  BY <1>2 DEF Stays
<1>4. PICK l \in Texts : l = left
  BY <1>1 DEF Types
<1>5. ASSUME HasMeaning(Entry)
      PROVE  phase' = "line" /\ AsMeant(Entry.means[1], got', raw', left'.matchers)
  <2>1. PICK f : AtWork(f)
    BY <1>3, <1>5, WorkIs
  <2>2. ~(Head(left.actions) = Close /\ depth = 0)
    BY <1>2, <1>3, <2>1, WorkEnds
  <2>3. left' = [left EXCEPT !.actions = Tail(@)] /\ UNCHANGED phase
    BY <2>2 DEF ReadToken
  <2>4. left'.matchers = left.matchers
    BY <1>2, <1>4, <2>3, LessToken
  <2>5. f = Entry.means[1] /\ AsMeant(f, got, raw, left.matchers)
    BY <2>1 DEF AtWork
  <2>6. QED
    BY <1>2, <1>3, <2>3, <2>4, <2>5
<1>6. phase' \in {"line", "panicked"}
  BY <1>3 DEF ReadToken
<1>7. QED
  BY <1>1, <1>2, <1>5, <1>6, StaysMeant

\* An action ends where one that was meant ends, and is read as that one.
LEMMA EndActionRound == ASSUME Round, EndAction PROVE Round'
<1>1. Splits' /\ Types
  BY EndActionSplits DEF Round, Splits
<1>2. Stays /\ left.matchers = <<>> /\ (AtComma \/ (AtEnd /\ buf # <<>>))
  BY DEF EndAction, Stays, InActions
<1>3. phase = "line"
  BY <1>2 DEF Stays
<1>4. PICK l \in Texts : l = left
  BY <1>1 DEF Types
<1>5. ASSUME HasMeaning(Entry)
      PROVE  phase' = "line" /\ AsMeant(Entry.means[1], got', raw', left'.matchers)
  <2>1. PICK f : AtWork(f)
    BY <1>3, <1>5, WorkIs
  <2>2. f = Entry.means[1] /\ Legible(f) /\ ActionsRead(f, raw, got) /\ MatchersAre(f, got, left.matchers)
    BY <2>1 DEF AtWork, AsMeant
  <2>3. Len(raw) < Len(Tokens(f)) /\ buf = Tokens(f)[Len(raw) + 1]
    <3>1. (left.actions = <<>> /\ buf # <<>>) \/ (left.actions # <<>> /\ Head(left.actions) = Comma /\ depth = 0)
      BY <1>2 DEF AtComma, AtEnd
    <3>2. QED
      BY <1>3, <2>1, <3>1, WorkEnds
  <2>4. PICK acts \in Seq(Seq(Parts)), one \in Seq(Parts), g \in ReadFields : acts = raw /\ one = buf /\ g = got
    BY <1>1 DEF Types, ReadFlows
  <2>5. /\ Height(one) = 0 /\ ParseAction(one) # <<>>
        /\ ActionsRead(f, Append(acts, one), [g EXCEPT !.actions = g.actions \o ParseAction(one)])
    <3>1. ActionsRead(f, acts, g) /\ Len(acts) < Len(Tokens(f)) /\ one = Tokens(f)[Len(acts) + 1]
      BY <2>2, <2>3, <2>4
    <3>2. QED
      BY <2>2, <3>1, ActionIsRead
  <2>6. depth = 0
    BY <1>3, <2>4, <2>5 DEF Round, Splits, Deep, Reading
  <2>7. /\ got' = [got EXCEPT !.actions = @ \o ParseAction(buf)]
        /\ raw' = Append(raw, buf)
        /\ left' = [left EXCEPT !.actions = IF AtEnd THEN @ ELSE Tail(@)]
        /\ UNCHANGED phase
    BY <2>4, <2>5, <2>6 DEF EndAction
  <2>8. left'.matchers = left.matchers
    BY <1>4, <2>7 DEF Texts
  <2>9. got' = [g EXCEPT !.actions = g.actions \o ParseAction(one)]
    BY <2>4, <2>7
  <2>10. MatchersAre(f, got', left.matchers)
    BY <2>2, <2>4, <2>9, MatchersKept
  <2>11. ActionsRead(f, raw', got')
    BY <2>4, <2>5, <2>7, <2>9
  <2>12. QED
    BY <1>3, <2>2, <2>7, <2>8, <2>10, <2>11 DEF AsMeant
<1>6. phase' \in {"line", "failed"}
  BY <1>3 DEF EndAction
<1>7. QED
  BY <1>1, <1>2, <1>5, <1>6, StaysMeant

\* An appended flow is the last one.
LEMMA FlowAdded ==
    ASSUME NEW T, NEW s \in Seq(T), NEW g \in T
    PROVE  /\ Append(s, g) \in Seq(T) /\ DOMAIN Append(s, g) = DOMAIN s \cup {Len(s) + 1}
           /\ Append(s, g)[Len(s) + 1] = g /\ \A k \in DOMAIN s : Append(s, g)[k] = s[k] /\ k # Len(s) + 1
OBVIOUS

\* A line that begins is before the first of what its entry means.
LEMMA LineBegins ==
    ASSUME NEW e \in Entries, Telltale(e), NEW print, Means(e, print)
    PROVE  AsMeant(e.means[1], NoFlow, <<>>, LineOf(e, print).matchers)
<1>1. PICK f : f = e.means[1]
  OBVIOUS
<1>2. Legible(f) /\ MatchersAre(f, NoFlow, LineOf(e, print).matchers)
  BY <1>1, LineMeans
<1>3. QED
  BY <1>1, <1>2, NoActionsRead DEF AsMeant

\* A line ends when all that was meant has been read.
LEMMA EndLineRound == ASSUME Round, EndLine PROVE Round'
<1>1. Splits' /\ Types
  BY EndLineSplits DEF Round, Splits
<1>2. /\ UNCHANGED <<bridge, printed>> /\ phase = "line"
      /\ left.matchers = <<>> /\ left.actions = <<>> /\ buf = <<>>
  BY DEF EndLine, InActions, AtEnd
<1>3. Entry \in Entries /\ Telltale(Entry) /\ Len(flows) \in Nat
  BY <1>2, EntryIs DEF Round
<1>4. PICK n \in Nat, fs \in Seq(ReadFlows), g \in ReadFlows : n = Len(flows) /\ fs = flows /\ g = got
  BY <1>1, <1>3 DEF Types
<1>5. Entry = bridge[n + 1]
  BY <1>4 DEF Entry
<1>6. ASSUME HasMeaning(Entry)
      PROVE  ~(Len(raw) > 1 /\ Contains(raw, <<Word("drop")>>)) /\ SameFlow(got, Entry.means[1])
  <2>1. PICK f : AtWork(f)
    BY <1>2, <1>6, WorkIs
  <2>2. f = Entry.means[1] /\ Legible(f) /\ ActionsRead(f, raw, got) /\ MatchersAre(f, got, <<>>)
    BY <1>2, <2>1 DEF AtWork, AsMeant
  <2>3. Len(raw) = Len(Tokens(f))
    BY <1>2, <2>1, WorkEnds
  <2>4. PICK acts \in Seq(Seq(Parts)) : acts = raw
    BY <1>1 DEF Types
  <2>5. /\ ~(Len(acts) > 1 /\ Contains(acts, <<Word("drop")>>))
        /\ Len(g.actions) = Len(f.actions) /\ \A i \in 1..Len(f.actions) : SameAction(g.actions[i], f.actions[i])
    <3>1. ActionsRead(f, acts, g) /\ Len(acts) = Len(Tokens(f))
      BY <1>4, <2>2, <2>3, <2>4
    <3>2. QED
      BY <2>2, <3>1, AllActionsRead
  <2>6. MatchesRead(g, f, Len(f.matches)) /\ \A key \in FieldKeys : Agree(g, f, key)
    BY <1>4, <2>2, AllAreRead
  <2>7. QED
    BY <1>4, <2>2, <2>4, <2>5, <2>6 DEF SameFlow
<1>7. CASE Len(raw) > 1 /\ Contains(raw, <<Word("drop")>>)
  <2>1. phase' = "failed" /\ UNCHANGED reader
    BY <1>7 DEF EndLine
  <2>2. Stays
    BY <1>2, <2>1 DEF Stays, reader
  <2>3. ~HasMeaning(Entry)
    BY <1>6, <1>7
  <2>4. QED
    BY <1>1, <2>1, <2>2, <2>3, StaysMeant
<1>8. CASE ~(Len(raw) > 1 /\ Contains(raw, <<Word("drop")>>))
  <2>1. /\ flows' = Append(flows, got)
        /\ phase' = IF lines = <<>> THEN "dumped" ELSE "line"
        /\ left' = IF lines = <<>> THEN Blank ELSE Head(lines)
        /\ got' = NoFlow /\ raw' = <<>>
    BY <1>8 DEF EndLine
  <2>2. \A e : HasMeaning(e)' <=> HasMeaning(e)
    BY <1>2 DEF HasMeaning, Readable
  <2>3. PICK more : more = Append(fs, g)
    OBVIOUS
  <2>4. /\ more \in Seq(ReadFlows) /\ DOMAIN more = DOMAIN fs \cup {n + 1} /\ more[n + 1] = g
        /\ \A k \in DOMAIN fs : more[k] = fs[k] /\ k # n + 1
    BY <1>4, <2>3, FlowAdded
  <2>5. ASSUME NEW k \in DOMAIN more, HasMeaning(bridge[k]) PROVE SameFlow(more[k], bridge[k].means[1])
    <3>1. CASE k = n + 1
      BY <1>4, <1>5, <1>6, <2>4, <2>5, <3>1
    <3>2. CASE k \in DOMAIN fs
      BY <1>2, <1>4, <2>4, <2>5, <3>2 DEF Round, FlowsRead
    <3>3. QED
      BY <2>4, <3>1, <3>2
  <2>6. FlowsRead'
    <3>1. flows' = more /\ bridge' = bridge
      BY <1>2, <1>4, <2>1, <2>3
    <3>2. QED
      BY <1>2, <2>5, <3>1 DEF FlowsRead, HasMeaning, Readable
  <2>7. Meant' /\ Unread' /\ Succeeds'
    BY <1>2, <2>1 DEF Round, Meant, Unread, Succeeds
  <2>8. OnTrack'
    <3>1. CASE lines = <<>>
      BY <2>1, <3>1 DEF OnTrack
    <3>2. CASE lines # <<>>
      <4>1. phase' = "line" /\ left' = Head(lines)
        BY <2>1, <3>2
      <4>2. PICK ls \in Seq(Texts) : ls = lines
        BY <1>1 DEF Types
      <4>3. 1 \in DOMAIN ls /\ Head(ls) = ls[1] /\ n + 1 + 1 \in Nat
        BY <3>2, <4>2
      <4>4. ls[1] = LineOf(bridge[n + 1 + 1], printed)
        BY <1>2, <1>4, <4>2, <4>3 DEF Round, Splits, Lined, Reading
      <4>5. Len(flows') = n + 1
        BY <1>4, <2>1
      <4>6. PICK e : e = bridge[n + 1 + 1]
        OBVIOUS
      <4>7. Entry' = e
        BY <1>2, <4>5, <4>6 DEF Entry
      <4>8. e \in Entries /\ Telltale(e)
        <5>1. Len(ls) + n + 1 = Len(bridge)
          BY <1>2, <1>4, <4>2 DEF Round, Splits, Lined, Reading
        <5>2. Len(ls) \in Nat \ {0} /\ bridge \in Seq(Entries)
          BY <1>1, <3>2, <4>2 DEF Types
        <5>3. n + 1 + 1 \in 1..Len(bridge)
          BY <5>1, <5>2
        <5>4. n + 1 + 1 \in DOMAIN bridge
          BY <5>2, <5>3
        <5>5. QED
          BY <4>6, <5>2, <5>4 DEF Round, Meant
      <4>9. left' = LineOf(e, printed)
        BY <4>1, <4>2, <4>3, <4>4, <4>6
      <4>10. ASSUME HasMeaning(e) PROVE AsMeant(e.means[1], got', raw', left'.matchers)
        <5>1. Means(e, printed)
          BY <4>10, MeansIs
        <5>2. QED
          BY <2>1, <4>8, <4>9, <5>1, LineBegins
      <4>11. HasMeaning(Entry)' <=> HasMeaning(e)
        BY <1>2, <4>7 DEF HasMeaning, Readable
      <4>12. QED
        BY <4>7, <4>10, <4>11 DEF OnTrack
    <3>3. QED
      BY <3>1, <3>2
  <2>9. QED
    BY <1>1, <2>6, <2>7, <2>8 DEF Round
<1>9. QED
  BY <1>7, <1>8

\* The first line is that of the first entry, and nothing of it has been read.
LEMMA DumpRound == ASSUME Round, NEW print \in BOOLEAN, Dump(print) PROVE Round'
<1>1. Splits' /\ Types /\ bridge \in Seq(Entries) /\ bridge # <<>>
  BY DumpSplits DEF Round, Splits, Types, Dump
<1>2. phase = "idle" /\ raw = <<>> /\ flows = <<>> /\ got = NoFlow
  BY DEF Round, Splits, Fresh, Dump, Unread
<1>3. /\ phase' = "line" /\ printed' = print /\ bridge' = bridge
      /\ raw' = <<>> /\ flows' = <<>> /\ got' = NoFlow
  BY <1>2 DEF Dump
<1>4. PICK e : e = bridge[1]
  OBVIOUS
<1>5. 1 \in DOMAIN bridge /\ e \in Entries /\ Telltale(e)
  BY <1>1, <1>4 DEF Round, Meant
<1>6. left' = LineOf(e, print)
  <2>1. PICK all : all = [i \in DOMAIN bridge |-> LineOf(bridge[i], print)]
    OBVIOUS
  <2>2. left' = Head(all)
    BY <2>1 DEF Dump
  <2>3. all \in Seq(Texts)
    <3>1. DOMAIN bridge = 1..Len(bridge) /\ Len(bridge) \in Nat
      BY <1>1
    <3>2. \A i \in DOMAIN bridge : LineOf(bridge[i], print) \in Texts
      BY <1>1, LineType
    <3>3. all \in [1..Len(bridge) -> Texts]
      BY <2>1, <3>1, <3>2
    <3>4. QED
      BY <3>1, <3>3, AsSequence
  <2>4. Head(all) = all[1]
    BY <2>3
  <2>5. QED
    BY <1>4, <1>5, <2>1, <2>2, <2>4
<1>7. Entry' = e
  <2>1. Len(flows') + 1 = 1
    BY <1>3
  <2>2. QED
    BY <1>3, <1>4, <2>1 DEF Entry
<1>8. ASSUME Means(e, print) PROVE AsMeant(e.means[1], got', raw', left'.matchers)
  BY <1>3, <1>5, <1>6, <1>8, LineBegins
<1>9. HasMeaning(Entry)' => Means(e, print)
  BY <1>3, <1>7 DEF HasMeaning, Readable, Means
<1>10. OnTrack'
  BY <1>7, <1>8, <1>9 DEF OnTrack
<1>11. FlowsRead'
  <2>1. DOMAIN flows' = {}
    BY <1>3
  <2>2. QED
    BY <2>1 DEF FlowsRead
<1>12. Meant' /\ Unread' /\ Succeeds'
  BY <1>3 DEF Round, Meant, Unread, Succeeds
<1>13. QED
  BY <1>1, <1>10, <1>11, <1>12 DEF Round

\* What is left of a bridge means what it did.
LEMMA AmongMeant ==
    ASSUME NEW s \in Seq(Entries), \A k \in DOMAIN s : Telltale(s[k]), NEW places
    PROVE  \A k \in DOMAIN Among(s, places) : Telltale(Among(s, places)[k])
<1>1. ToSet(Among(s, places)) = {s[i] : i \in DOMAIN s \cap places}
  BY AmongMembers
<1>2. \A e \in ToSet(Among(s, places)) : Telltale(e)
  BY <1>1
<1>3. QED
  BY <1>2 DEF ToSet

\* What AddFlow writes says what it means.
LEMMA AddFlowRound == ASSUME Round, AddFlow PROVE Round'
<1>1. Splits'
  <2>1. [Next]_vars
    BY DEF Next
  <2>2. QED
    BY <2>1, NextSplits DEF Round
<1>2. /\ phase = "idle" /\ asked # <<>> /\ UNCHANGED <<phase, printed, got, flows>>
  BY DEF AddFlow, reader
<1>3. flows = <<>> /\ asked \in Seq(Asks) /\ bridge \in Seq(Entries)
  BY <1>2 DEF Round, Splits, Fresh, Types
<1>4. PICK f \in Asks : f = Head(asked)
  BY <1>2, <1>3
<1>5. PICK others \in Seq(Entries) :
          others = Among(bridge, {i \in DOMAIN bridge : Identity(bridge[i].text) # Identity(FlowTextOf(f))})
  BY <1>3, AmongType
<1>6. PICK entry : entry = [text |-> FlowTextOf(f), means |-> <<f>>]
  OBVIOUS
<1>7. bridge' = IF FlowMarshals(f) THEN Append(others, entry) ELSE bridge
  BY <1>4, <1>5, <1>6 DEF AddFlow
<1>8. \A k \in DOMAIN others : Telltale(others[k])
  BY <1>3, <1>5, AmongMeant DEF Round, Meant
<1>9. FlowMarshals(f) => Telltale(entry)
  <2>1. entry.means = <<f>> /\ entry.text = FlowTextOf(f)
    BY <1>6
  <2>2. <<f>>[1] = f
    OBVIOUS
  <2>3. QED
    BY <2>1, <2>2 DEF Telltale
<1>10. Meant'
  <2>1. CASE FlowMarshals(f)
    <3>1. \A k \in DOMAIN Append(others, entry) :
             Append(others, entry)[k] = entry \/ (k \in DOMAIN others /\ Append(others, entry)[k] = others[k])
      OBVIOUS
    <3>2. PICK more : more = Append(others, entry)
      OBVIOUS
    <3>3. \A k \in DOMAIN more : Telltale(more[k])
      BY <1>8, <1>9, <2>1, <3>1, <3>2
    <3>4. bridge' = more
      BY <1>7, <2>1, <3>2
    <3>5. QED
      BY <3>3, <3>4 DEF Meant
  <2>2. CASE ~FlowMarshals(f)
    <3>1. bridge' = bridge
      BY <1>7, <2>2
    <3>2. QED
      BY <3>1 DEF Round, Meant
  <2>3. QED
    BY <2>1, <2>2
<1>11. FlowsRead'
  <2>1. DOMAIN flows' = {}
    BY <1>2, <1>3
  <2>2. QED
    BY <2>1 DEF FlowsRead
<1>12. Unread' /\ OnTrack' /\ Succeeds'
  BY <1>2 DEF Round, Unread, OnTrack, Succeeds
<1>13. QED
  BY <1>1, <1>10, <1>11, <1>12 DEF Round

\* What is left after a delete means what it did.
LEMMA DeleteRound == ASSUME Round, NEW k \in DOMAIN flows, Delete(k) PROVE Round'
<1>1. Splits'
  <2>1. [Next]_vars
    BY DEF Next
  <2>2. QED
    BY <2>1, NextSplits DEF Round
<1>2. phase' = "deleted"
  BY DEF Delete
<1>3. bridge \in Seq(Entries)
  BY DEF Round, Splits, Types
<1>4. Meant'
  <2>1. \A places : \A i \in DOMAIN Among(bridge, places) : Telltale(Among(bridge, places)[i])
    BY <1>3, AmongMeant DEF Round, Meant
  <2>2. bridge' = bridge \/ \E places : bridge' = Among(bridge, places)
    BY DEF Delete
  <2>3. QED
    BY <2>1, <2>2 DEF Round, Meant
<1>5. FlowsRead' /\ Unread' /\ OnTrack' /\ Succeeds'
  BY <1>2 DEF FlowsRead, Unread, OnTrack, Succeeds
<1>6. QED
  BY <1>1, <1>4, <1>5 DEF Round

\* No step disturbs any of this.
LEMMA NextRound == ASSUME Round, [Next]_vars PROVE Round'
<1>1. CASE AddFlow
  BY <1>1, AddFlowRound
<1>2. CASE \E print \in BOOLEAN : Dump(print)
  BY <1>2, DumpRound
<1>3. CASE DumpRefused \/ UNCHANGED vars
  <2>1. Splits'
    BY NextSplits DEF Round
  <2>2. CASE DumpRefused
    <3>1. phase' = "refused" /\ UNCHANGED <<bridge, printed, flows>> /\ phase = "idle"
      BY <2>2 DEF DumpRefused, reader
    <3>2. FlowsRead'
      BY <3>1 DEF Round, FlowsRead, HasMeaning, Readable
    <3>3. Meant' /\ Unread' /\ OnTrack' /\ Succeeds'
      BY <3>1 DEF Round, Meant, Unread, OnTrack, Succeeds
    <3>4. QED
      BY <2>1, <3>2, <3>3 DEF Round
  <2>3. CASE UNCHANGED vars
    <3>1. UNCHANGED <<bridge, phase, printed, left, got, raw, flows>>
      BY <2>3 DEF vars
    <3>2. Entry' = Entry
      BY <3>1 DEF Entry
    <3>3. (HasMeaning(Entry)' <=> HasMeaning(Entry)) /\ OnTrack' /\ Succeeds'
      BY <3>1, <3>2 DEF Round, HasMeaning, Readable, OnTrack, Succeeds
    <3>4. FlowsRead'
      BY <3>1 DEF Round, FlowsRead, HasMeaning, Readable
    <3>5. Meant' /\ Unread'
      BY <3>1 DEF Round, Meant, Unread
    <3>6. QED
      BY <2>1, <3>3, <3>4, <3>5 DEF Round
  <2>4. QED
    BY <1>3, <2>2, <2>3
<1>4. CASE \E k \in DOMAIN flows : Delete(k)
  BY <1>4, DeleteRound
<1>5. CASE ReadMatcher
  BY <1>5, ReadMatcherRound
<1>6. CASE ReadToken
  BY <1>6, ReadTokenRound
<1>7. CASE EndAction
  BY <1>7, EndActionRound
<1>8. CASE EndLine
  BY <1>8, EndLineRound
<1>9. QED
  BY <1>1, <1>2, <1>3, <1>4, <1>5, <1>6, <1>7, <1>8 DEF Next, Read

\* A match, an action and a flow with their values plain.
LEMMA PlainMatchIs ==
    ASSUME NEW P, NEW Q, NEW m \in [of : P, val : Q]
    PROVE  PlainMatch(m) = [of |-> m.of, val |-> Plain(m.val)]
BY DEF PlainMatch
LEMMA PlainActionIs ==
    ASSUME NEW P, NEW Q, NEW R, NEW a \in [of : P, args : Q, inner : R]
    PROVE  PlainAction(a) = [of |-> a.of, args |-> Plain(a.args), inner |-> a.inner]
BY DEF PlainAction
\* The actions of flows that are asked for.
AskedActions ==
    [of : Names, args : Seq(Parts), inner : Seq([of : Names, args : Seq(Parts), inner : {<<>>}])]
Fields8(M, A) ==
    [priority : Int, protocol : Parts, inport : Int, matches : M, table : Int, idle : Int, cookie : Int, actions : A]
\* A flow with other matches or actions, and one with all of them plain.
LEMMA NewMatches ==
    ASSUME NEW M, NEW A, NEW f \in Fields8(M, A), NEW v
    PROVE  [f EXCEPT !.matches = v] =
               [priority |-> f.priority, protocol |-> f.protocol, inport |-> f.inport, matches |-> v,
                table |-> f.table, idle |-> f.idle, cookie |-> f.cookie, actions |-> f.actions]
BY DEF Fields8
LEMMA NewActions ==
    ASSUME NEW M, NEW A, NEW f \in Fields8(M, A), NEW v
    PROVE  [f EXCEPT !.actions = v] =
               [priority |-> f.priority, protocol |-> f.protocol, inport |-> f.inport, matches |-> f.matches,
                table |-> f.table, idle |-> f.idle, cookie |-> f.cookie, actions |-> v]
BY DEF Fields8
LEMMA NormalIs ==
    ASSUME NEW M, NEW A, NEW f \in Fields8(M, A)
    PROVE  Normal(f) = [priority |-> f.priority, protocol |-> f.protocol, inport |-> f.inport,
                        matches |-> PlainMatches(f), table |-> f.table, idle |-> f.idle, cookie |-> f.cookie,
                        actions |-> PlainActions(f)]
<1>1. PICK h : h = [f EXCEPT !.matches = PlainMatches(f)]
  OBVIOUS
<1>2. h = [priority |-> f.priority, protocol |-> f.protocol, inport |-> f.inport, matches |-> PlainMatches(f),
           table |-> f.table, idle |-> f.idle, cookie |-> f.cookie, actions |-> f.actions]
  BY <1>1, NewMatches
<1>3. h \in Fields8({PlainMatches(f)}, A)
  BY <1>2 DEF Fields8
<1>4. h.actions = f.actions
  BY <1>2
<1>5. Normal(f) = [h EXCEPT !.actions = PlainActions(f)]
  BY <1>1 DEF Normal
<1>6. [h EXCEPT !.actions = PlainActions(f)] =
          [priority |-> h.priority, protocol |-> h.protocol, inport |-> h.inport, matches |-> h.matches,
           table |-> h.table, idle |-> h.idle, cookie |-> h.cookie, actions |-> PlainActions(f)]
  BY <1>3, NewActions
<1>7. QED
  BY <1>2, <1>5, <1>6

\* Flows that are no other are one, when their values are plain.
LEMMA SameNormal ==
    ASSUME NEW f \in Asks, NEW g \in ReadFlows, SameFlow(g, f)
    PROVE  Normal(g) = Normal(f)
<1>1. PICK n \in Nat, l \in Nat : n = Len(f.matches) /\ l = Len(f.actions) /\ DOMAIN f.matches = 1..n /\ DOMAIN f.actions = 1..l
  BY DEF Asks, Flows
<1>2. g.matches \in Seq(ReadMatches) /\ g.actions \in Seq(ReadActions)
  BY DEF ReadFlows, ReadFields
<1>3. Len(g.matches) = n /\ Len(g.actions) = l
  BY <1>1 DEF SameFlow, MatchesRead
<1>4. DOMAIN g.matches = 1..n /\ DOMAIN g.actions = 1..l
  BY <1>2, <1>3
<1>5. ASSUME NEW i \in 1..n
      PROVE  PlainMatch(g.matches[i]) = PlainMatch(f.matches[i])
  <2>1. PICK ps \in Seq(ReadMatches), qs \in Seq(ReadMatches) : ps = g.matches /\ qs = f.matches
    BY <1>2 DEF Asks, Flows, ReadMatches
  <2>2. PICK p \in [of : Names, val : Seq(Parts)] : p = g.matches[i]
    <3>1. ps[i] \in ReadMatches
      BY <1>4, <2>1
    <3>2. QED
      BY <2>1, <3>1 DEF ReadMatches
  <2>3. PICK q \in [of : Names, val : Seq(Parts)] : q = f.matches[i]
    <3>1. qs[i] \in ReadMatches
      BY <1>1, <2>1
    <3>2. QED
      BY <2>1, <3>1 DEF ReadMatches
  <2>4. p.of = q.of /\ Plain(p.val) = Plain(q.val)
    BY <1>1, <2>2, <2>3 DEF SameFlow, MatchesRead, SameMatch
  <2>5. PlainMatch(p) = [of |-> p.of, val |-> Plain(p.val)] /\ PlainMatch(q) = [of |-> q.of, val |-> Plain(q.val)]
    BY PlainMatchIs
  <2>6. QED
    BY <2>2, <2>3, <2>4, <2>5
<1>6. ASSUME NEW i \in 1..l
      PROVE  PlainAction(g.actions[i]) = PlainAction(f.actions[i])
  <2>1. PICK ps \in Seq(ReadActions),
             qs \in Seq(AskedActions) :
            ps = g.actions /\ qs = f.actions
    BY <1>2 DEF Asks, Flows, AskedActions
  <2>2. PICK p \in [of : Names, args : Seq(Parts), inner : {<<>>}] : p = g.actions[i]
    <3>1. ps[i] \in ReadActions
      BY <1>4, <2>1
    <3>2. QED
      BY <2>1, <3>1 DEF ReadActions
  <2>3. PICK q \in [of : Names, args : Seq(Parts), inner : Seq([of : Names, args : Seq(Parts), inner : {<<>>}])] :
            q = f.actions[i]
    <3>1. qs[i] \in AskedActions
      BY <1>1, <2>1
    <3>2. QED
      BY <2>1, <3>1 DEF AskedActions
  <2>4. p.of = q.of /\ Plain(p.args) = Plain(q.args) /\ p.inner = q.inner
    BY <1>1, <2>2, <2>3 DEF SameFlow, SameAction
  <2>5. PlainAction(p) = [of |-> p.of, args |-> Plain(p.args), inner |-> p.inner]
    <3>1. PICK R : R = {<<>>}
      OBVIOUS
    <3>2. p \in [of : Names, args : Seq(Parts), inner : R]
      BY <3>1
    <3>3. QED
      BY <3>2, PlainActionIs
  <2>6. PlainAction(q) = [of |-> q.of, args |-> Plain(q.args), inner |-> q.inner]
    BY PlainActionIs
  <2>7. QED
    BY <2>2, <2>3, <2>4, <2>5, <2>6
<1>7. PlainMatches(g) = PlainMatches(f)
  BY <1>1, <1>4, <1>5 DEF PlainMatches
<1>8. PlainActions(g) = PlainActions(f)
  BY <1>1, <1>4, <1>6 DEF PlainActions
<1>9. /\ g.priority = f.priority /\ g.protocol = f.protocol /\ g.inport = f.inport
      /\ g.table = f.table /\ g.idle = f.idle /\ g.cookie = f.cookie
  BY AgreeIs DEF SameFlow, FieldKeys
<1>10. \E M, A : f \in Fields8(M, A)
  <2>1. f \in Fields8(Seq([of : Names, val : Seq(Parts)]),
                      Seq([of : Names, args : Seq(Parts), inner : Seq([of : Names, args : Seq(Parts), inner : {<<>>}])]))
    BY DEF Asks, Flows, Fields8
  <2>2. QED
    BY <2>1
<1>11. \E M, A : g \in Fields8(M, A)
  <2>1. g \in Fields8(Seq(ReadMatches), Seq(ReadActions))
    BY DEF ReadFlows, ReadFields, Fields8
  <2>2. QED
    BY <2>1
<1>12. Normal(f) = [priority |-> f.priority, protocol |-> f.protocol, inport |-> f.inport,
                    matches |-> PlainMatches(f), table |-> f.table, idle |-> f.idle, cookie |-> f.cookie,
                    actions |-> PlainActions(f)]
  BY <1>10, NormalIs
<1>13. Normal(g) = [priority |-> g.priority, protocol |-> g.protocol, inport |-> g.inport,
                    matches |-> PlainMatches(g), table |-> g.table, idle |-> g.idle, cookie |-> g.cookie,
                    actions |-> PlainActions(g)]
  BY <1>11, NormalIs
<1>14. QED
  BY <1>7, <1>8, <1>9, <1>12, <1>13

\* What others have written means what it says, where it is known what it means.
Faithful == \A b \in Foreign : \A k \in DOMAIN b : Telltale(b[k])

\* At first nothing is read, and what others wrote means what it says.
LEMMA InitRound == ASSUME Faithful, Init PROVE Round
<1>1. Splits
  BY InitTypes DEF Init, Splits, Reading, Lined, Fresh, Split, Deep
<1>2. phase = "idle" /\ got = NoFlow /\ flows = <<>>
  BY DEF Init
<1>3. Meant
  <2>1. CASE bridge = <<>>
    BY <2>1 DEF Meant
  <2>2. CASE bridge \in Foreign
    BY <2>2 DEF Meant, Faithful
  <2>3. QED
    BY <2>1, <2>2 DEF Init
<1>4. FlowsRead
  BY <1>2 DEF FlowsRead
<1>5. Unread /\ OnTrack /\ Succeeds
  BY <1>2 DEF Unread, OnTrack, Succeeds
<1>6. QED
  BY <1>1, <1>3, <1>4, <1>5 DEF Round

\* Every flow that was read was read from an entry.
Placed == phase # "deleted" => DOMAIN flows \subseteq DOMAIN bridge

\* At first no flow was read; only the end of a line adds one.
LEMMA InitPlaced == ASSUME Init PROVE Placed
<1>1. DOMAIN flows = {}
  BY DEF Init
<1>2. QED
  BY <1>1 DEF Placed

LEMMA EndLinePlaced == ASSUME Round, Placed, EndLine PROVE Placed'
<1>1. bridge' = bridge /\ phase = "line" /\ (flows' = flows \/ flows' = Append(flows, got))
  BY DEF EndLine, InActions, reader
<1>2. Types /\ Len(flows) + 1 \in DOMAIN bridge
  BY <1>1, EntryIs DEF Round, Splits
<1>3. PICK fs \in Seq(ReadFlows), g \in ReadFlows : fs = flows /\ g = got
  BY <1>2 DEF Types
<1>4. DOMAIN Append(fs, g) = DOMAIN fs \cup {Len(fs) + 1}
  BY FlowAdded
<1>5. QED
  BY <1>1, <1>2, <1>3, <1>4 DEF Placed

\* No other step adds a flow, or an entry once flows are read.
LEMMA NextPlaced == ASSUME Round, Placed, [Next]_vars PROVE Placed'
<1>1. CASE EndLine
  BY <1>1, EndLinePlaced
<1>2. CASE AddFlow
  <2>1. phase = "idle" /\ flows' = flows
    BY <1>2 DEF AddFlow, reader
  <2>2. flows = <<>>
    BY <2>1 DEF Round, Splits, Fresh
  <2>3. DOMAIN flows' = {}
    BY <2>1, <2>2
  <2>4. QED
    BY <2>3 DEF Placed
<1>3. CASE \E k \in DOMAIN flows : Delete(k)
  BY <1>3 DEF Delete, Placed
<1>4. CASE \E print \in BOOLEAN : Dump(print)
  BY <1>4 DEF Dump, Placed
<1>5. CASE DumpRefused \/ UNCHANGED vars
  BY <1>5 DEF DumpRefused, vars, reader, Placed
<1>6. CASE ReadMatcher
  BY <1>6 DEF ReadMatcher, Placed
<1>7. CASE ReadToken
  BY <1>7 DEF ReadToken, InActions, Placed
<1>8. CASE EndAction
  BY <1>8 DEF EndAction, InActions, Placed
<1>9. QED
  BY <1>1, <1>2, <1>3, <1>4, <1>5, <1>6, <1>7, <1>8 DEF Next, Read

\* What is read is what was meant, if every flow was read from an entry.
LEMMA RoundIsTrip == ASSUME Round, Placed PROVE RoundTrip
<1>1. ASSUME phase # "deleted", NEW k \in DOMAIN flows, HasMeaning(bridge[k])
      PROVE  Normal(flows[k]) = Normal(bridge[k].means[1])
  <2>1. PICK e : e = bridge[k]
    OBVIOUS
  <2>2. Telltale(e) /\ e.means # <<>>
    BY <1>1, <2>1 DEF Round, Meant, Placed, HasMeaning
  <2>3. PICK f \in Asks : f = e.means[1]
    BY <2>2 DEF Telltale
  <2>4. PICK g \in ReadFlows : g = flows[k]
    <3>1. flows \in Seq(ReadFlows)
      BY DEF Round, Splits, Types
    <3>2. QED
      BY <1>1, <3>1
  <2>5. SameFlow(g, f)
    BY <1>1, <2>1, <2>3, <2>4 DEF Round, FlowsRead
  <2>6. QED
    BY <2>1, <2>3, <2>4, <2>5, SameNormal
<1>2. phase \in {"failed", "panicked"} => ~HasMeaning(bridge[Len(flows) + 1])
  BY DEF Round, Succeeds, Entry
<1>3. QED
  BY <1>1, <1>2 DEF RoundTrip

\* Flows that AddFlow wrote, or whose entries are as it writes them, are read as
\* they were meant, and reading them neither fails nor panics, in any mixture
\* with entries whose meaning is not known (flow.go:137-206 and 293-440).
THEOREM RoundTripHolds == ASSUME Faithful PROVE Spec => []RoundTrip
<1>1. Init => Round /\ Placed
  BY InitRound, InitPlaced
<1>2. Round /\ Placed /\ [Next]_vars => Round' /\ Placed'
  BY NextRound, NextPlaced
<1>3. Round /\ Placed => RoundTrip
  BY RoundIsTrip
<1>4. QED
  BY <1>1, <1>2, <1>3, PTL DEF Spec

-----------------------------------------------------------------------------
(* What was read is deleted by its match *)

\* No part of a value is a word after a space; then there is nothing to trim.
Unspaced(val) == \A i \in DOMAIN val : val[i].sign # " "
LEMMA UnspacedTrimmed ==
    ASSUME NEW m \in Matchers, Unspaced(m.val)
    PROVE  Trimmed(m) = m
<1>1. PICK val \in Seq(Parts), key \in Names, space \in BOOLEAN :
          m = [space |-> space, key |-> key, val |-> val]
  BY DEF Matchers
<1>2. PICK v : v = [i \in DOMAIN val |-> IF val[i].sign = " " THEN Word(val[i].word) ELSE val[i]]
  OBVIOUS
<1>3. Trimmed(m) = [m EXCEPT !.val = v]
  BY <1>1, <1>2 DEF Trimmed
<1>4. v = val
  <2>1. \A i \in DOMAIN val : val[i].sign # " "
    BY <1>1 DEF Unspaced
  <2>2. v = [i \in DOMAIN val |-> val[i]]
    BY <1>2, <2>1
  <2>3. QED
    BY <2>2
<1>5. QED
  BY <1>1, <1>3, <1>4

\* A value is written with the signs it has.
LEMMA WrittenSigns ==
    ASSUME NEW m, m.val \in Seq(Parts)
    PROVE  DOMAIN Written(m) = DOMAIN m.val /\ \A i \in DOMAIN m.val : Written(m)[i].sign = m.val[i].sign
<1>1. PICK val \in Seq(Parts) : val = m.val
  OBVIOUS
<1>2. \A i \in DOMAIN val : val[i] \in Parts
  OBVIOUS
<1>3. ASSUME NEW b
      PROVE  DOMAIN WithBase(b, val) = DOMAIN val /\ \A i \in DOMAIN val : WithBase(b, val)[i].sign = val[i].sign
  <2>1. ASSUME NEW i \in DOMAIN val PROVE WithBase(b, val)[i].sign = val[i].sign
    <3>1. WithBase(b, val)[i] = [val[i] EXCEPT !.base = b]
      BY DEF WithBase
    <3>2. [val[i] EXCEPT !.base = b] = Part(b, val[i].n, val[i].word, val[i].sign)
      BY <1>2, PartExcept
    <3>3. QED
      BY <3>1, <3>2 DEF Part
  <2>2. QED
    BY <2>1 DEF WithBase
<1>4. DOMAIN Spelled(val) = DOMAIN val /\ \A i \in DOMAIN val : Spelled(val)[i].sign = val[i].sign
  <2>1. ASSUME NEW i \in DOMAIN val PROVE Spelled(val)[i].sign = val[i].sign
    <3>1. Spelled(val)[i] = [val[i] EXCEPT !.word = Canonical(@)]
      BY DEF Spelled
    <3>2. PICK w : w = Canonical(val[i].word)
      OBVIOUS
    <3>3. [val[i] EXCEPT !.word = w] = Part(val[i].base, val[i].n, w, val[i].sign)
      BY <1>2, PartExcept
    <3>4. QED
      BY <3>1, <3>2, <3>3 DEF Part
  <2>2. QED
    BY <2>1 DEF Spelled
<1>5. Written(m) = WithBase(16, val) \/ Written(m) = WithBase(10, val) \/ Written(m) = Spelled(val)
  BY <1>1 DEF Written
<1>6. QED
  BY <1>1, <1>3, <1>4, <1>5

\* No match that is known has a space before a word.
LEMMA UnspacedMatch ==
    ASSUME NEW m, Constructed(m), m.of \in KnownKeys \ {"in_port"}
    PROVE  Unspaced(Written(m))
<1>1. PICK key, val : key = m.of /\ val = m.val
  OBVIOUS
<1>2. val \in Seq(Parts)
  BY <1>1 DEF Constructed
<1>3. \A n : Num(n).sign # " " /\ Dec(n).sign # " " /\ Word(n).sign # " "
  BY DEF Num, Dec, Word, Part, Empty
<1>4. \A s, w : Signed(s, w).sign = s
  BY DEF Signed, Part
<1>5. Len(val) = 1 => \A i \in DOMAIN val : i = 1
  BY <1>2
<1>6. Unspaced(val)
  <2>1. CASE key \in MaskedKeys \cup PortKeys
    <3>1. \A i \in DOMAIN val : Fits(key, val[i])
      BY <1>1, <2>1 DEF Constructed
    <3>2. QED
      BY <1>3, <3>1 DEF Unspaced, Fits
  <2>2. CASE key \in NumberKeys \ (MaskedKeys \cup PortKeys)
    <3>1. KeyOf(key) = key
      BY <2>2 DEF KeyOf, NumberKeys, ByteKeys, MaskedKeys, TciKeys, PortKeys
    <3>2. Len(val) = 1 /\ Fits(key, val[1])
      BY <1>1, <2>2, <3>1 DEF Constructed
    <3>3. QED
      BY <1>3, <1>5, <3>2 DEF Unspaced, Fits
  <2>3. CASE key \in IntKeys \cup VlanKeys
    <3>1. Len(val) = 1 /\ val[1] = Num(val[1].n)
      BY <1>1, <2>3 DEF Constructed
    <3>2. QED
      BY <1>3, <1>5, <3>1 DEF Unspaced
  <2>4. CASE key \in HardwareKeys \cup IPv4Keys \cup IPv6Keys \cup LinkKeys
    <3>1. \A i \in DOMAIN val : IsWord(val[i])
      BY <1>1, <2>4 DEF Constructed
    <3>2. QED
      BY <1>3, <3>1 DEF Unspaced, IsWord
  <2>5. CASE key \in FlagKeys
    <3>1. \/ \A i \in DOMAIN val : IsFlag(val[i])
          \/ Len(val) = 1 /\ val[1] = Dec(val[1].n)
      BY <1>1, <2>5 DEF Constructed
    <3>2. QED
      BY <1>3, <1>4, <1>5, <3>1 DEF Unspaced, IsFlag
  <2>6. QED
    BY <1>1, <2>1, <2>2, <2>3, <2>4, <2>5 DEF KnownKeys, DecimalKeys, NumberKeys
<1>7. QED
  BY <1>1, <1>2, <1>6, WrittenSigns DEF Unspaced

\* What a flow is matched by is what it was written with, but for its priority
\* and how long it may be idle, and there is nothing to trim.
LEMMA MatchFlowIs ==
    ASSUME NEW f, Legible(f)
    PROVE  /\ Fields(FlowTextOf(f)) = MatchFlowText(f)
           /\ \A m \in MatchFlowText(f) : Trimmed(m) = m /\ m.key \notin {"priority", "idle_timeout"}
<1>1. f \in Asks
  BY DEF Legible
<1>2. PICK o \in Seq(Matchers), ms \in Seq(Matchers), c \in Seq(Matchers) :
          o = Origin(f) /\ ms = MatchMatchers(f) /\ c = CookieMatchers(f)
  BY <1>1, PiecesAre, PiecesType
<1>3. MatchFlowText(f) = ToSet(o) \cup ToSet(ms) \cup ToSet(c) \cup {TableMatcher(f)}
  <2>1. PICK s : Twofold(s, o, ms)
    BY DEF Twofold
  <2>2. s \in Seq(Matchers) /\ ToSet(s) = ToSet(o) \cup ToSet(ms)
    BY <2>1, SetOfTwo, ConcatProperties DEF Twofold
  <2>3. ToSet(s \o c) = ToSet(s) \cup ToSet(c)
    BY <2>2, SetOfTwo
  <2>4. MatchFlowText(f) = ToSet(s \o c) \cup {TableMatcher(f)}
    BY <1>2, <2>1 DEF MatchFlowText, Origin, Twofold
  <2>5. QED
    BY <2>2, <2>3, <2>4
<1>4. PICK a : a = ToSet(After(f))
  OBVIOUS
<1>5. a = {TableMatcher(f), Idle(f)} \cup ToSet(c)
  <2>1. ToSet(c) = IF f.cookie > 0 THEN {Matcher("cookie", <<Hex(f.cookie)>>)} ELSE {}
    <3>1. PICK x : x = Matcher("cookie", <<Hex(f.cookie)>>)
      OBVIOUS
    <3>2. c = IF f.cookie > 0 THEN <<x>> ELSE <<>>
      BY <1>2, <3>1 DEF CookieMatchers, When
    <3>3. QED
      BY <3>1, <3>2, SetOfFew
  <2>2. QED
    BY <1>1, <1>4, <2>1, PiecesAre
<1>6. ToSet(FlowTextOf(f).matchers) = {Priority(f)} \cup ToSet(o) \cup ToSet(ms) \cup a
  BY <1>2, <1>4, KeysOfText
<1>7. /\ \A m \in ToSet(o) : m.key \in {Empty, "in_port"} /\ Says(m, f)
      /\ \A m \in a : m.key \in {"table", "idle_timeout", "cookie"} /\ Says(m, f)
      /\ \A m \in ToSet(ms) : m.key \in KnownKeys \ {"in_port"}
      /\ Priority(f).key = "priority"
  BY <1>2, <1>4, KeysOfText
<1>8. \A m \in ToSet(c) : m.key = "cookie"
  BY <1>2, SetOfFew DEF CookieMatchers, When, Matcher, ToSet
<1>9. TableMatcher(f).key = "table" /\ Idle(f).key = "idle_timeout"
  BY DEF TableMatcher, Idle, Matcher
<1>10. \A key \in KnownKeys \ {"in_port"} : key \notin {"priority", "idle_timeout"}
  BY FieldsApart DEF FieldKeys
<1>11. \A m \in MatchFlowText(f) : m.key \notin {"priority", "idle_timeout"}
  BY <1>3, <1>7, <1>8, <1>9, <1>10 DEF Empty
<1>12. Fields(FlowTextOf(f)) = MatchFlowText(f)
  BY <1>3, <1>5, <1>6, <1>7, <1>9, <1>11 DEF Fields
<1>13. ASSUME NEW m \in MatchFlowText(f) PROVE Trimmed(m) = m
  <2>1. CASE m \in ToSet(ms)
    <3>1. PICK i \in DOMAIN f.matches : m = MatchMatcher(f.matches[i])
      BY <1>2, <2>1 DEF MatchMatchers, ToSet
    <3>2. PICK match : match = f.matches[i]
      OBVIOUS
    <3>3. Constructed(match) /\ Marshals(match) /\ ~MisreadMatch(match)
      BY <3>2 DEF Legible, Asks, FlowMarshals, MatchesMarshal
    <3>4. match.of \in KnownKeys \ {"in_port"} /\ m = Matcher(match.of, Written(match))
      BY <3>1, <3>2, <3>3, MatchReread
    <3>5. Unspaced(m.val)
      BY <3>3, <3>4, UnspacedMatch DEF Matcher
    <3>6. m \in Matchers
      BY <1>2, <2>1 DEF ToSet
    <3>7. QED
      BY <3>5, <3>6, UnspacedTrimmed
  <2>2. CASE m \in ToSet(o) \cup a
    <3>1. Says(m, f) /\ m.key \in {Empty, "in_port", "table", "idle_timeout", "cookie"}
      BY <1>7, <2>2
    <3>2. IsWord(f.protocol)
      BY <1>1 DEF Asks
    <3>3. \A p \in {f.protocol, PortPart(f), Dec(f.table), Dec(f.idle), Hex(f.cookie)} : p.sign = Empty
      <4>1. f.protocol.sign = Empty
        BY <3>2 DEF IsWord, Word, Part
      <4>2. PortPart(f).sign = Empty
        BY DEF PortPart, Word, Dec, Part
      <4>3. Dec(f.table).sign = Empty /\ Dec(f.idle).sign = Empty /\ Hex(f.cookie).sign = Empty
        BY DEF Dec, Hex, Part
      <4>4. QED
        BY <4>1, <4>2, <4>3
    <3>4. PICK p \in {f.protocol, PortPart(f), Dec(f.table), Dec(f.idle), Hex(f.cookie)} : m.val = <<p>>
      BY <3>1 DEF Says
    <3>5. Unspaced(m.val)
      <4>1. p.sign # " "
        BY <3>3 DEF Empty
      <4>2. PICK v : v = <<p>>
        OBVIOUS
      <4>3. DOMAIN v = {1} /\ v[1] = p
        BY <4>2
      <4>4. m.val = v
        BY <3>4, <4>2
      <4>5. QED
        BY <4>1, <4>3, <4>4 DEF Unspaced
    <3>6. QED
      BY <3>1, <3>5, UnspacedTrimmed DEF Says
  <2>3. QED
    BY <1>3, <1>5, <2>1, <2>2
<1>14. QED
  BY <1>11, <1>12, <1>13

\* Flows that are no other are matched by the same matchers.
LEMMA SameMatchFlow ==
    ASSUME NEW f, Legible(f), NEW g \in ReadFlows, SameFlow(g, f)
    PROVE  MatchesMarshal(g) /\ MatchFlowText(g) = MatchFlowText(f)
<1>1. PICK n \in Nat : n = Len(f.matches) /\ DOMAIN f.matches = 1..n
  BY DEF Legible, Asks, Flows
<1>2. g.matches \in Seq(ReadMatches)
  BY DEF ReadFlows, ReadFields
<1>3. DOMAIN g.matches = 1..n /\ \A i \in 1..n : SameMatch(g.matches[i], f.matches[i])
  BY <1>1, <1>2 DEF SameFlow, MatchesRead
<1>4. MatchesMarshal(g)
  BY <1>3 DEF MatchesMarshal, SameMatch
<1>5. \A i \in 1..n : MatchMatcher(g.matches[i]) = MatchMatcher(f.matches[i])
  BY <1>3 DEF MatchMatcher, SameMatch
<1>6. MatchMatchers(g) = MatchMatchers(f)
  BY <1>1, <1>3, <1>5 DEF MatchMatchers
<1>7. g.protocol = f.protocol /\ g.inport = f.inport /\ g.table = f.table /\ g.cookie = f.cookie
  BY AgreeIs DEF SameFlow, FieldKeys
<1>8. /\ ProtocolMatchers(g) = ProtocolMatchers(f) /\ PortMatchers(g) = PortMatchers(f)
      /\ CookieMatchers(g) = CookieMatchers(f) /\ TableMatcher(g) = TableMatcher(f)
  BY <1>7 DEF ProtocolMatchers, PortMatchers, CookieMatchers, TableMatcher
<1>9. QED
  BY <1>4, <1>6, <1>8 DEF MatchFlowText

\* There is nothing to trim in it, and it is every field of the text.
LEMMA DeleteTextIs ==
    ASSUME NEW f, Legible(f), NEW g, MatchFlowText(g) = MatchFlowText(f)
    PROVE  DeleteText(g) = Fields(FlowTextOf(f))
<1>1. \A m \in MatchFlowText(f) : Trimmed(m) = m
  BY MatchFlowIs
<1>2. {Trimmed(m) : m \in MatchFlowText(f)} = MatchFlowText(f)
  BY <1>1
<1>3. QED
  BY <1>2, MatchFlowIs DEF DeleteText

\* A delete of some fields of an entry takes that entry.
LEMMA SelectsItself ==
    ASSUME NEW entry
    PROVE  Selects(Fields(entry.text), entry)
<1>1. SUFFICES ASSUME NEW m \in Fields(entry.text), NEW d \in InFull(m)
               PROVE  \E n \in EntryFields(entry.text) : Narrower(n, d)
  BY DEF Selects
<1>2. m \in ToSet(entry.text.matchers)
  BY DEF Fields
<1>3. d \in EntryFields(entry.text)
  BY <1>2 DEF EntryFields
<1>4. Narrower(d, d)
  BY DEF Narrower
<1>5. QED
  BY <1>3, <1>4

\* What DeletesWhatWasRead says of one flow.
Deletes(k) ==
    Delete(k) /\ HasMeaning(bridge[k]) /\ bridge[k].text = FlowTextOf(bridge[k].means[1])
        => LET rest == {i \in DOMAIN bridge : ~Selects(Fields(bridge[k].text), bridge[i])}
           IN  k \notin rest /\ bridge' = Among(bridge, rest)
LEMMA DeleteDeletes == ASSUME Round, Placed, NEW k \in DOMAIN flows PROVE Deletes(k)
<1> DEFINE rest == {i \in DOMAIN bridge : ~Selects(Fields(bridge[k].text), bridge[i])}
<1>1. SUFFICES ASSUME Delete(k), HasMeaning(bridge[k]) PROVE k \notin rest /\ bridge' = Among(bridge, rest)
  BY DEF Deletes
<1>2. phase = "dumped" /\ k \in DOMAIN bridge
  BY <1>1 DEF Delete, Placed
<1>3. PICK e : e = bridge[k]
  OBVIOUS
<1>4. Telltale(e) /\ Means(e, printed)
  BY <1>1, <1>2, <1>3, MeansIs DEF Round, Meant
<1>5. PICK f : f = e.means[1]
  OBVIOUS
<1>6. Legible(f) /\ e.text = FlowTextOf(f)
  BY <1>4, <1>5 DEF Telltale, Means, Legible
<1>7. PICK g \in ReadFlows : g = flows[k]
  <2>1. flows \in Seq(ReadFlows)
    BY DEF Round, Splits, Types
  <2>2. QED
    BY <2>1
<1>8. SameFlow(g, f)
  BY <1>1, <1>2, <1>3, <1>5, <1>7 DEF Round, FlowsRead
<1>9. MatchesMarshal(g) /\ MatchFlowText(g) = MatchFlowText(f)
  BY <1>6, <1>8, SameMatchFlow
<1>10. DeleteText(flows[k]) = Fields(bridge[k].text)
  BY <1>3, <1>6, <1>7, <1>9, DeleteTextIs
<1>11. bridge' = Among(bridge, rest)
  BY <1>1, <1>7, <1>9, <1>10 DEF Delete
<1>12. k \notin rest
  BY SelectsItself
<1>13. QED
  BY <1>11, <1>12

\* The match of a flow that was read deletes the entry it was read from, and
\* besides it the entries that are at least as narrow in every field, whatever it
\* was written or printed with (flow.go:442-451, matchflow.go:77-137).
THEOREM DeletesWhatWasReadHolds == ASSUME Faithful PROVE Spec => DeletesWhatWasRead
<1>1. Init => Round /\ Placed
  BY InitRound, InitPlaced
<1>2. Round /\ Placed /\ [Next]_vars => Round' /\ Placed'
  BY NextRound, NextPlaced
<1>3. Round /\ Placed =>
          [\A k \in DOMAIN flows :
              Delete(k) /\ HasMeaning(bridge[k]) /\ bridge[k].text = FlowTextOf(bridge[k].means[1])
                => LET rest == {i \in DOMAIN bridge : ~Selects(Fields(bridge[k].text), bridge[i])}
                   IN  k \notin rest /\ bridge' = Among(bridge, rest)]_vars
  BY DeleteDeletes DEF Deletes
<1>4. QED
  BY <1>1, <1>2, <1>3, PTL DEF Spec, DeletesWhatWasRead
=============================================================================
