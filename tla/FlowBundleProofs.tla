--------------------------- MODULE FlowBundleProofs ---------------------------
(* The flow bundle, for every set of flows, length of the pipes and bound:   *)
(* what the bridge executes is what was asked for and committed, in its      *)
(* order, and AddFlowBundle returns nil for nothing less.  The argument is   *)
(* that no line is lost on its way through the pipe, and that the pipe is    *)
(* closed only once nothing is left to copy, or by the death of the process, *)
(* which may cut off one line, the last one that is read.                    *)
EXTENDS FlowBundle, SequenceTheorems, WellFoundedInduction, TLAPS

Transaction == [flows : Seq(Directive), committed : BOOLEAN, err : BOOLEAN]
Types == TypeOK /\ tx \in Transaction

\* What the callback has made of its transaction.
Asked ==
    /\ ~tx.err => tx.flows = asked
    /\ tx.committed /\ ~late => ~tx.err

\* Where the process is, and its child with it.
Together ==
    /\ pc = "callback" => rest = <<>> /\ child = "none"
    /\ begun => rest # <<>> /\ child # "none" /\ Len(stdin) < PipeLen
    /\ pc = "start" => rest = tx.flows /\ child = "none"
    /\ pc \in {"copy", "stdout"} => child # "none"
    /\ pc \in {"stderr", "wait"} => child = "gone"
    /\ pc = "returned" => child \in {"none", "gone"}
    /\ pc \in {"stdout", "stderr", "wait"} => rest = <<>>
    /\ pc = "start" \/ child # "none" => tx.committed
    /\ child = "none" => stdin = <<>> /\ got = <<>> /\ bridge = <<>> /\ status = "none"

\* A first part of what was committed, its last line perhaps cut off.
FirstPart(lines) ==
    IsPrefix(lines, tx.flows) \/ \E n \in DOMAIN tx.flows : lines = CutShort(n)

\* Until the child has read all of it, what it has read, what is in the pipe
\* and what is left to copy are what was committed, in this order; unless the
\* process is dead and the child has read the end of its input.
Underway ==
    child = "reading" =>
        /\ bridge = <<>> /\ status = "none"
        /\ \/ (got \o stdin) \o rest = tx.flows
           \/ pc = "dead" /\ ~begun /\ stdin = <<>> /\ FirstPart(got)

\* What the bridge has executed.
Executed ==
    /\ status = "ok" \/ bridge # <<>> =>
         /\ child # "none"
         /\ pc = "dead" => FirstPart(bridge)
         /\ pc # "dead" => bridge = tx.flows
    /\ answer # "none" => pc = "returned"
    /\ OkIsApplied

BundleInv == Types /\ Asked /\ Together /\ Underway /\ Executed

-----------------------------------------------------------------------------
(* Sequences *)

\* A sequence is a prefix of itself, and of what it begins.
LEMMA PrefixFacts ==
    ASSUME NEW S, NEW a \in Seq(S), NEW b \in Seq(S)
    PROVE  IsPrefix(a, a) /\ IsPrefix(a, a \o b)
BY DEF IsPrefix

\* Lines that move from one place to the next are neither lost nor reordered.
LEMMA Shifts ==
    ASSUME NEW S, NEW s \in Seq(S), NEW t \in Seq(S), NEW u \in Seq(S)
    PROVE  /\ t # <<>> => (Append(s, Head(t)) \o Tail(t)) \o u = (s \o t) \o u
           /\ u # <<>> => (s \o Append(t, Head(u))) \o Tail(u) = (s \o t) \o u
<1>1. ASSUME NEW a \in Seq(S), NEW b \in Seq(S), b # <<>>
      PROVE  Append(a, Head(b)) \o Tail(b) = a \o b
  <2>1. Append(a, Head(b)) = a \o <<Head(b)>> /\ <<Head(b)>> \in Seq(S) /\ Tail(b) \in Seq(S)
    BY <1>1, AppendIsConcat
  <2>2. (a \o <<Head(b)>>) \o Tail(b) = a \o (<<Head(b)>> \o Tail(b))
    BY <2>1, ConcatAssociative
  <2>3. <<Head(b)>> \o Tail(b) = b
    BY <1>1
  <2>4. QED
    BY <2>1, <2>2, <2>3
<1>2. ASSUME u # <<>> PROVE (s \o Append(t, Head(u))) \o Tail(u) = (s \o t) \o u
  <2>1. Head(u) \in S /\ Tail(u) \in Seq(S) /\ Append(t, Head(u)) \in Seq(S)
    BY <1>2
  <2>2. PICK v \in Seq(S), w \in Seq(S) : v = Append(t, Head(u)) /\ w = Tail(u)
    BY <2>1
  <2>3. (s \o v) \o w = s \o (v \o w)
    BY ConcatAssociative
  <2>4. v \o w = t \o u
    BY <1>1, <1>2, <2>2
  <2>5. s \o (t \o u) = (s \o t) \o u
    BY ConcatAssociative
  <2>6. QED
    BY <2>2, <2>3, <2>4, <2>5
<1>3. QED
  BY <1>1, <1>2
\* A set of natural numbers that is not empty has a first one.
LEMMA FirstOne ==
    ASSUME NEW I, I \subseteq Nat, I # {}
    PROVE  Min(I) \in I /\ \A i \in I : Min(I) <= i
<1> DEFINE R == OpToRel(<, Nat)
<1>1. IsWellFoundedOn(R, Nat)
  BY NatLessThanWellFounded
<1>2. \A i, j \in Nat : <<i, j>> \in R <=> i < j
  BY DEF OpToRel
<1> HIDE DEF R
<1>3. PICK m \in I : \A i \in I : ~(<<i, m>> \in R)
  BY <1>1, WFMin
<1>4. ASSUME NEW i \in I PROVE m <= i
  <2>1. m \in Nat /\ i \in Nat
    OBVIOUS
  <2>2. ~(i < m)
    BY <1>2, <1>3, <2>1
  <2>3. QED
    BY <2>1, <2>2
<1>5. QED
  BY <1>4 DEF Min

\* What is pushed marshals.
LEMMA Marshals ==
    ASSUME NEW n \in Nat, NEW flows \in [1..n -> Flows \cup {BadFlow}]
    PROVE  Marshalled(flows) \in Seq(Flows)
<1> DEFINE I == {i \in 1..Len(flows) : flows[i] = BadFlow}
<1>1. flows \in Seq(Flows \cup {BadFlow}) /\ Len(flows) = n
  OBVIOUS
<1>2. Marshalled(flows) = LET bad == IF I # {} THEN Min(I) ELSE 0
                          IN IF bad = 0 THEN flows ELSE SubSeq(flows, 1, bad - 1)
  BY DEF Marshalled, SelectInSeq
<1>3. CASE I = {}
  <2>1. \A i \in 1..n : flows[i] \in Flows
    BY <1>1, <1>3
  <2>2. flows \in Seq(Flows)
    BY <1>1, <2>1
  <2>3. QED
    BY <1>2, <1>3, <2>2
<1>4. CASE I # {}
  <2>1. PICK bad \in 1..n : bad = Min(I) /\ \A i \in I : bad <= i
    <3>1. I \subseteq Nat /\ I \subseteq 1..n
      BY <1>1
    <3>2. Min(I) \in I /\ \A i \in I : Min(I) <= i
      BY <1>4, <3>1, FirstOne
    <3> HIDE DEF I
    <3>3. QED
      BY <3>1, <3>2
  <2>2. \A i \in 1..(bad - 1) : flows[i] \in Flows
    BY <1>1, <2>1
  <2>3. SubSeq(flows, 1, bad - 1) \in Seq(Flows)
    BY <2>2, SubSeqProperties
  <2>4. Marshalled(flows) = SubSeq(flows, 1, bad - 1)
    <3> HIDE DEF I
    <3>1. bad # 0
      BY <2>1
    <3>2. QED
      BY <1>2, <1>4, <2>1, <3>1
  <2>5. QED
    BY <2>3, <2>4
<1>5. QED
  BY <1>3, <1>4

\* Flows become directives.
LEMMA Directives ==
    ASSUME NEW dir \in {"add", "delete"}, NEW flows \in Seq(Flows)
    PROVE  Lines(dir, flows) \in Seq(Directive)
<1>1. \A f \in Flows : [directive |-> dir, flow |-> f, whole |-> TRUE] \in Directive
  BY DEF Directive
<1>2. DOMAIN flows = 1..Len(flows) /\ Len(flows) \in Nat
  OBVIOUS
<1>3. Lines(dir, flows) =
        [i \in 1..Len(flows) |-> [directive |-> dir, flow |-> flows[i], whole |-> TRUE]]
  BY <1>2 DEF Lines
<1>4. QED
  BY <1>1, <1>2, <1>3
-----------------------------------------------------------------------------
(* The callback *)

\* In the callback nothing has been started yet.
LEMMA PushKeeps ==
    ASSUME BundleInv, NEW n \in 1..MaxFlows, NEW dir \in {"add", "delete"},
           NEW flows \in [1..n -> Flows \cup {BadFlow}], Push(dir, flows)
    PROVE  BundleInv'
<1>1. PICK lines : lines = Lines(dir, Marshalled(flows))
  OBVIOUS
<1>2. n \in Nat /\ lines \in Seq(Directive)
  BY <1>1, Marshals, Directives, BundleAssumption
<1>3. /\ pc = "callback" /\ asked' = asked \o Lines(dir, flows)
      /\ late' = (late \/ tx.committed)
      /\ UNCHANGED <<pc, rest, begun, stdin, stderr, child, got, print, status, bridge, answer>>
  BY DEF Push, InCallback, pipes, ofctl
<1>4. /\ tx' \in Transaction /\ tx'.committed = tx.committed
      /\ ~tx'.err => /\ ~tx.err /\ tx'.flows = tx.flows \o lines
                     /\ Marshalled(flows) = flows
      /\ tx.err => tx'.err
  <2>1. CASE tx.err
    BY <2>1 DEF Push, Pushed, BundleInv, Types
  <2>2. CASE ~tx.err
    <3>1. tx' = [tx EXCEPT !.flows = @ \o lines, !.err = Marshalled(flows) # flows]
      BY <1>1, <2>2 DEF Push, Pushed
    <3>2. PICK bad \in BOOLEAN : bad = (Marshalled(flows) # flows)
      OBVIOUS
    <3>3. tx.flows \o lines \in Seq(Directive) /\ tx \in Transaction
      BY <1>2 DEF BundleInv, Types, Transaction
    <3>4. tx' = [tx EXCEPT !.flows = tx.flows \o lines, !.err = bad]
      BY <3>1, <3>2, Zenon
    <3>5. QED
      BY <2>2, <3>2, <3>3, <3>4 DEF Transaction
  <2>3. QED
    BY <2>1, <2>2
<1>5. Types'
  BY <1>3, <1>4 DEF BundleInv, Types, TypeOK, Transaction
<1>6. Asked'
  BY <1>1, <1>3, <1>4 DEF BundleInv, Asked
<1>7. Together' /\ child # "reading" /\ status = "none" /\ bridge = <<>> /\ answer = "none"
  BY <1>3, <1>4 DEF BundleInv, Together, Executed, FirstPart, CutShort
<1>8. Underway' /\ Executed'
  BY <1>3, <1>7 DEF Underway, Executed, OkIsApplied, FirstPart, CutShort
<1>9. QED
  BY <1>5, <1>6, <1>7, <1>8 DEF BundleInv
\* Committing and discarding.
LEMMA CommitKeeps ==
    ASSUME BundleInv, Commit \/ Discard
    PROVE  BundleInv'
<1>1. /\ pc = "callback"
      /\ UNCHANGED <<pc, rest, begun, stdin, stderr, child, got, print, status, bridge, answer>>
  BY DEF Commit, Discard, InCallback, pipes, ofctl
<1>2. tx \in Transaction
  BY DEF BundleInv, Types
<1>3. /\ tx' \in Transaction /\ tx'.err = tx.err
      /\ Asked'
  <2>1. CASE Commit
    <3>1. ~tx.err /\ tx' = [tx EXCEPT !.committed = TRUE] /\ UNCHANGED <<asked, late>>
      BY <2>1 DEF Commit
    <3>2. tx' \in Transaction /\ tx'.err = tx.err /\ tx'.flows = tx.flows
      BY <1>2, <3>1 DEF Transaction
    <3>3. QED
      BY <3>1, <3>2 DEF BundleInv, Asked
  <2>2. CASE Discard
    <3>1. /\ tx' = [tx EXCEPT !.flows = <<>>] /\ asked' = <<>>
          /\ late' = (late \/ tx.committed)
      BY <2>2 DEF Discard
    <3>2. <<>> \in Seq(Directive)
      OBVIOUS
    <3>3. /\ tx' \in Transaction /\ tx'.err = tx.err /\ tx'.flows = <<>>
          /\ tx'.committed = tx.committed
      BY <1>2, <3>1, <3>2 DEF Transaction
    <3>4. QED
      BY <3>1, <3>3 DEF BundleInv, Asked
  <2>3. QED
    BY <2>1, <2>2
<1>4. Types'
  BY <1>1, <1>3 DEF BundleInv, Types, TypeOK, Transaction
<1>5. Together' /\ child # "reading" /\ status = "none" /\ bridge = <<>> /\ answer = "none"
  BY <1>1 DEF BundleInv, Together, Executed, FirstPart, CutShort
<1>6. Underway' /\ Executed'
  BY <1>1, <1>5 DEF Underway, Executed, OkIsApplied, FirstPart, CutShort
<1>7. QED
  BY <1>3, <1>4, <1>5, <1>6 DEF BundleInv

\* The callback returns.
LEMMA ReturnKeeps ==
    ASSUME BundleInv, CallbackFails \/ CallbackReturns
    PROVE  BundleInv'
<1>1. /\ pc = "callback"
      /\ UNCHANGED <<tx, asked, late, begun, stdin, stderr, child, got, print, status, bridge>>
      /\ \/ pc' = "returned" /\ answer' = "error" /\ rest' = rest
         \/ tx.committed /\ pc' = "start" /\ rest' = tx.flows /\ answer' = answer
  BY DEF CallbackFails, CallbackReturns, InCallback, Return, transaction, pipes, ofctl
<1>2. Types'
  BY <1>1 DEF BundleInv, Types, TypeOK, Transaction, Places
<1>3. Asked'
  BY <1>1 DEF BundleInv, Asked
<1>4. Together'
  BY <1>1 DEF BundleInv, Together
<1>5. child = "none" /\ status = "none" /\ bridge = <<>> /\ answer = "none"
  BY <1>1 DEF BundleInv, Together, Executed, FirstPart, CutShort
<1>6. Underway' /\ Executed'
  BY <1>1, <1>5 DEF Underway, Executed, OkIsApplied, FirstPart, CutShort
<1>7. QED
  BY <1>2, <1>3, <1>4, <1>6 DEF BundleInv
-----------------------------------------------------------------------------
(* The process and its child *)

\* The process starts its child, or does not.
LEMMA StartKeeps ==
    ASSUME BundleInv, Start \/ StartFails
    PROVE  BundleInv'
<1>1. /\ pc = "start" /\ UNCHANGED <<tx, asked, late>>
      /\ UNCHANGED <<rest, begun, stdin, stderr, got, print, status, bridge>>
      /\ \/ pc' = "copy" /\ child' = "reading" /\ answer' = answer
         \/ pc' = "returned" /\ child' = child /\ answer' = "error"
  BY DEF Start, StartFails, Return, transaction, pipes, ofctl
<1>2. Types'
  BY <1>1 DEF BundleInv, Types, TypeOK, Transaction, Places
<1>3. Asked'
  BY <1>1 DEF BundleInv, Asked
<1>4. Together'
  BY <1>1 DEF BundleInv, Together
<1>5. /\ child = "none" /\ status = "none" /\ bridge = <<>> /\ answer = "none"
      /\ stdin = <<>> /\ got = <<>> /\ rest = tx.flows /\ tx.flows \in Seq(Directive)
  BY <1>1 DEF BundleInv, Together, Executed, Types, TypeOK, FirstPart, CutShort
<1>6. (<<>> \o <<>>) \o tx.flows = tx.flows
  BY <1>5
<1>7. Underway'
  BY <1>1, <1>5, <1>6 DEF Underway, FirstPart, CutShort
<1>8. Executed'
  BY <1>1, <1>5 DEF Executed, OkIsApplied, FirstPart, CutShort
<1>9. QED
  BY <1>2, <1>3, <1>4, <1>7, <1>8 DEF BundleInv

\* Some bytes of a line go into the pipe.
LEMMA BeginKeeps ==
    ASSUME BundleInv, Begin
    PROVE  BundleInv'
<1>1. /\ pc = "copy" /\ rest # <<>> /\ Len(stdin) < PipeLen /\ begun'
      /\ UNCHANGED <<tx, asked, late, pc, rest, stdin, stderr, child, got, print, status,
                     bridge, answer>>
  BY DEF Begin, transaction, ofctl
<1>2. Types' /\ Asked'
  <2>1. begun' \in BOOLEAN
    BY DEF Begin
  <2>2. QED
    BY <1>1, <2>1 DEF BundleInv, Types, TypeOK, Transaction, Asked
<1>3. Together'
  BY <1>1 DEF BundleInv, Together
<1>4. Underway' /\ Executed'
  BY <1>1 DEF BundleInv, Underway, Executed, OkIsApplied, FirstPart, CutShort
<1>5. QED
  BY <1>2, <1>3, <1>4 DEF BundleInv

\* The rest of the line follows.
LEMMA CopyKeeps ==
    ASSUME BundleInv, Copy
    PROVE  BundleInv'
<1>1. /\ pc = "copy" /\ rest # <<>> /\ Len(stdin) < PipeLen /\ begun' = FALSE
      /\ UNCHANGED <<tx, asked, late, pc, stderr, child, got, print, status, bridge, answer>>
      /\ stdin' = Append(stdin, Head(rest)) /\ rest' = Tail(rest)
  BY DEF Copy, transaction, ofctl, BundleInv, Together
<1>2. rest \in Seq(Directive) /\ stdin \in Seq(Directive) /\ got \in Seq(Directive)
  BY DEF BundleInv, Types, TypeOK
<1>3. rest' \in Seq(Directive) /\ stdin' \in Seq(Directive) /\ Len(stdin') <= PipeLen
  BY <1>1, <1>2, BundleAssumption
<1>4. Types'
  BY <1>1, <1>3 DEF BundleInv, Types, TypeOK, Transaction
<1>5. Asked' /\ Executed'
  BY <1>1 DEF BundleInv, Asked, Executed, OkIsApplied, FirstPart, CutShort
<1>6. Together'
  BY <1>1 DEF BundleInv, Together
<1>7. (got \o stdin') \o rest' = (got \o stdin) \o rest
  <2>1. PICK s \in Seq(Directive), t \in Seq(Directive), u \in Seq(Directive) :
            s = got /\ t = stdin /\ u = rest
    BY <1>2
  <2>2. u # <<>>
    BY <1>1, <2>1
  <2>3. u # <<>> => (s \o Append(t, Head(u))) \o Tail(u) = (s \o t) \o u
    BY Shifts
  <2>4. QED
    BY <1>1, <2>1, <2>2, <2>3
<1>8. Underway'
  BY <1>1, <1>7 DEF BundleInv, Underway, FirstPart, CutShort
<1>9. QED
  BY <1>4, <1>5, <1>6, <1>8 DEF BundleInv

\* The process goes on to the output, and returns.
LEMMA ProcessKeeps ==
    ASSUME BundleInv, CopyFails \/ Close \/ StdoutEnds \/ ReadStderr \/ Wait
    PROVE  BundleInv'
<1>1. UNCHANGED <<tx, asked, late, rest, begun, stdin, child, got, print, status, bridge>>
  BY DEF CopyFails, Close, StdoutEnds, ReadStderr, Wait, transaction, pipes, ofctl
<1>2. /\ \/ pc = "copy" /\ child = "gone" /\ pc' = "returned" /\ answer' = "error"
         \/ pc = "copy" /\ rest = <<>> /\ pc' = "stdout" /\ answer' = answer
         \/ pc = "stdout" /\ child = "gone" /\ pc' = "stderr" /\ answer' = answer
         \/ pc = "stderr" /\ pc' \in {"stderr", "wait"} /\ answer' = answer
         \/ pc = "wait" /\ pc' = "returned" /\ answer' = "error"
         \/ pc = "wait" /\ pc' = "returned" /\ answer' = "ok" /\ status = "ok"
      /\ \/ stderr' = stderr
         \/ stderr > 0 /\ stderr' = stderr - 1
  <2>1. CASE CopyFails \/ Close \/ StdoutEnds
    BY <2>1 DEF CopyFails, Close, StdoutEnds, Return, pipes
  <2>2. CASE ReadStderr
    BY <2>2 DEF ReadStderr
  <2>3. CASE Wait
    <3>1. pc = "wait" /\ pc' = "returned" /\ stderr' = stderr
      BY <2>3 DEF Wait, Return, pipes
    <3>2. answer' = IF status = "ok" THEN "ok" ELSE "error"
      BY <2>3 DEF Wait, Return
    <3>3. QED
      BY <3>1, <3>2
  <2>4. QED
    BY <2>1, <2>2, <2>3
<1>3. stderr' \in 0..PipeLen
  BY <1>2, BundleAssumption DEF BundleInv, Types, TypeOK
<1>4. Types'
  BY <1>1, <1>2, <1>3 DEF BundleInv, Types, TypeOK, Transaction, Places
<1>5. Asked' /\ Underway'
  BY <1>1, <1>2 DEF BundleInv, Asked, Underway, FirstPart, CutShort
<1>6. Together'
  BY <1>1, <1>2 DEF BundleInv, Together
<1>7. Executed'
  BY <1>1, <1>2 DEF BundleInv, Executed, OkIsApplied, FirstPart, CutShort
<1>8. QED
  BY <1>4, <1>5, <1>6, <1>7 DEF BundleInv

\* The child takes a line out of the pipe.
LEMMA ReadKeeps ==
    ASSUME BundleInv, ReadLine
    PROVE  BundleInv'
<1>1. /\ child = "reading" /\ stdin # <<>> /\ stdin' = Tail(stdin)
      /\ UNCHANGED <<tx, asked, late, pc, rest, begun, stderr, bridge, answer>>
      /\ \/ got' = Append(got, Head(stdin)) /\ UNCHANGED <<child, print, status>>
         \/ child' = "printing" /\ print' = 1 /\ status' = "failed" /\ got' = got
  BY DEF ReadLine, Stop, transaction
<1>2. rest \in Seq(Directive) /\ stdin \in Seq(Directive) /\ got \in Seq(Directive)
  BY DEF BundleInv, Types, TypeOK
<1>3. /\ stdin' \in Seq(Directive) /\ Len(stdin') <= Len(stdin)
      /\ Append(got, Head(stdin)) \in Seq(Directive)
  BY <1>1, <1>2
<1>4. got' \in Seq(Directive) /\ Len(stdin') <= PipeLen /\ print' \in 0..MaxErrors
  <2>1. Len(stdin) <= PipeLen /\ print \in 0..MaxErrors /\ Len(stdin) \in Nat /\ Len(stdin') \in Nat
    BY <1>2, <1>3 DEF BundleInv, Types, TypeOK
  <2>2. got' \in Seq(Directive)
    BY <1>1, <1>2, <1>3
  <2>3. Len(stdin') <= PipeLen
    BY <1>3, <2>1, BundleAssumption
  <2>4. print' = print \/ print' = 1
    BY <1>1
  <2>5. QED
    BY <2>1, <2>2, <2>3, <2>4, BundleAssumption
<1>5. Types'
  BY <1>1, <1>3, <1>4 DEF BundleInv, Types, TypeOK, Transaction
<1>6. Asked'
  BY <1>1 DEF BundleInv, Asked
<1>7. Together'
  <2>1. Len(stdin) \in Nat /\ Len(stdin') \in Nat /\ PipeLen \in Nat
    BY <1>2, <1>3, BundleAssumption
  <2>2. begun' => Len(stdin') < PipeLen
    BY <1>1, <1>3, <2>1 DEF BundleInv, Together
  <2>3. QED
    BY <1>1, <2>2 DEF BundleInv, Together
<1>8. (Append(got, Head(stdin)) \o stdin') \o rest = (got \o stdin) \o rest
  <2>1. PICK s \in Seq(Directive), t \in Seq(Directive), u \in Seq(Directive) :
            s = got /\ t = stdin /\ u = rest
    BY <1>2
  <2>2. (Append(s, Head(t)) \o Tail(t)) \o u = (s \o t) \o u
    <3>1. t # <<>>
      BY <1>1, <2>1
    <3>2. QED
      BY <3>1, Shifts
  <2>3. QED
    BY <1>1, <2>1, <2>2
<1>9. Underway'
  BY <1>1, <1>8 DEF BundleInv, Underway, FirstPart, CutShort
<1>10. status = "none" /\ bridge = <<>>
  BY <1>1 DEF BundleInv, Underway, FirstPart, CutShort
<1>11. Executed'
  BY <1>1, <1>10 DEF BundleInv, Executed, OkIsApplied, FirstPart, CutShort
<1>12. QED
  BY <1>5, <1>6, <1>7, <1>9, <1>11 DEF BundleInv

\* The child takes what is there of a line: its process is dead.
LEMMA ReadPartKeeps ==
    ASSUME BundleInv, ReadPart
    PROVE  BundleInv'
<1>1. /\ child = "reading" /\ stdin = <<>> /\ begun /\ StdinClosed /\ begun' = FALSE
      /\ UNCHANGED <<tx, asked, late, pc, rest, stdin, stderr, bridge, answer>>
      /\ \/ /\ \E line \in {Head(rest), [Head(rest) EXCEPT !.whole = FALSE]} :
                  got' = Append(got, line)
            /\ UNCHANGED <<child, print, status>>
         \/ child' = "printing" /\ print' = 1 /\ status' = "failed" /\ got' = got
  BY DEF ReadPart, Stop, transaction
<1>2. rest # <<>> /\ pc = "dead"
  BY <1>1 DEF BundleInv, Together, StdinClosed
<1>3. /\ tx \in Transaction /\ rest \in Seq(Directive) /\ got \in Seq(Directive)
      /\ Head(rest) \in Directive
  BY <1>2 DEF BundleInv, Types, TypeOK
<1>4. PICK l \in Directive, cut \in Directive :
          l = Head(rest) /\ cut = [Head(rest) EXCEPT !.whole = FALSE]
  BY <1>3 DEF Directive
<1>5. /\ got' \in {got, Append(got, l), Append(got, cut)}
      /\ child' = "reading" => got' \in {Append(got, l), Append(got, cut)}
      /\ print' \in {print, 1} /\ child' \in {"reading", "printing"}
      /\ status' \in {status, "failed"} /\ (child' = "reading" => status' = status)
  BY <1>1, <1>4
<1>6. got' \in Seq(Directive)
  BY <1>3, <1>4, <1>5
<1>7. print' \in 0..MaxErrors
  BY <1>5, BundleAssumption DEF BundleInv, Types, TypeOK
<1>8. Types'
  <2>1. UNCHANGED <<tx, pc, rest, stdin, stderr, bridge, answer>> /\ begun' \in BOOLEAN
    BY <1>1
  <2>2. QED
    BY <1>5, <1>6, <1>7, <2>1 DEF BundleInv, Types, TypeOK, Transaction
<1>9. Asked' /\ Together'
  BY <1>1 DEF BundleInv, Asked, Together
<1>10. Executed'
  BY <1>1, <1>2 DEF BundleInv, Underway, Executed, OkIsApplied, FirstPart, CutShort
<1>11. ASSUME got' \in {Append(got, l), Append(got, cut)}, (got \o stdin) \o rest = tx.flows
       PROVE  FirstPart(got')
  <2>1. tx.flows = got \o rest
    BY <1>1, <1>3, <1>11
  <2> DEFINE n == Len(got) + 1
  <2>2. /\ n \in DOMAIN tx.flows /\ tx.flows[n] = l
        /\ SubSeq(tx.flows, 1, n - 1) = got
    <3>1. Len(got) \in Nat /\ Len(rest) \in Nat \ {0} /\ Len(tx.flows) = Len(got) + Len(rest)
      BY <1>2, <1>3, <2>1
    <3>2. tx.flows[n] = rest[1]
      BY <1>3, <2>1, <3>1
    <3>3. SubSeq(tx.flows, 1, Len(got)) = got
      BY <1>3, <2>1, <3>1
    <3>4. tx.flows \in Seq(Directive)
      BY <1>3 DEF Transaction
    <3>5. n \in DOMAIN tx.flows
      BY <3>1, <3>4
    <3>6. n - 1 = Len(got)
      BY <3>1
    <3>7. rest[1] = l
      BY <1>2, <1>3, <1>4
    <3>8. QED
      BY <3>2, <3>3, <3>5, <3>6, <3>7
  <2>3. CASE got' = Append(got, cut)
    <3>1. got' = CutShort(n)
      BY <1>4, <2>2, <2>3 DEF CutShort
    <3>2. QED
      BY <2>2, <3>1 DEF FirstPart
  <2>4. CASE got' = Append(got, l)
    <3>1. got' = Append(got, Head(rest))
      BY <1>4, <2>4
    <3>2. PICK s \in Seq(Directive), t \in Seq(Directive) : s = got /\ t = rest
      BY <1>3
    <3>3. (Append(s, Head(t)) \o Tail(t)) \o <<>> = (s \o t) \o <<>>
      BY <1>2, <3>2, Shifts
    <3>4. Append(s, Head(t)) \o Tail(t) = s \o t
      BY <1>2, <3>2, <3>3
    <3>5. Tail(t) \in Seq(Directive) /\ Append(s, Head(t)) \in Seq(Directive)
      BY <1>2, <3>2
    <3>6. IsPrefix(Append(s, Head(t)), tx.flows)
      BY <2>1, <3>2, <3>4, <3>5, PrefixFacts
    <3>7. QED
      BY <3>1, <3>2, <3>6 DEF FirstPart
  <2>5. QED
    BY <1>11, <2>3, <2>4
<1>12. Underway'
  <2>1. CASE child' = "reading"
    <3>1. got' \in {Append(got, l), Append(got, cut)}
      BY <1>5, <2>1
    <3>2. (got \o stdin) \o rest = tx.flows /\ bridge = <<>> /\ status = "none"
      BY <1>1 DEF BundleInv, Underway
    <3>3. FirstPart(got')
      BY <1>11, <3>1, <3>2
    <3>4. FirstPart(got)'
      BY <1>1, <3>3 DEF FirstPart, CutShort
    <3>5. status' = "none" /\ bridge' = <<>>
      BY <1>1, <1>5, <2>1, <3>2
    <3>6. QED
      BY <1>1, <1>2, <3>4, <3>5 DEF Underway
  <2>2. QED
    BY <2>1 DEF Underway
<1>13. QED
  BY <1>8, <1>9, <1>10, <1>12 DEF BundleInv

\* The bundle is executed as a whole: all of it has been read, unless the
\* process has died, and then it is a first part.
LEMMA ExecuteKeeps ==
    ASSUME BundleInv, Execute
    PROVE  BundleInv'
<1>1. /\ child = "reading" /\ stdin = <<>> /\ ~begun /\ StdinClosed /\ child' = "printing"
      /\ UNCHANGED <<tx, asked, late, pc, rest, begun, stdin, stderr, got, answer>>
  BY DEF Execute, transaction, pipes
<1>2. \/ bridge' = got /\ print' = 0 /\ status' = "ok"
      \/ print' \in 1..MaxErrors /\ status' = "failed" /\ bridge' = bridge
  BY DEF Execute
<1>3. got \in Seq(Directive) /\ rest \in Seq(Directive)
  BY DEF BundleInv, Types, TypeOK
<1>4. FirstPart(got)
  <2>1. CASE (got \o stdin) \o rest = tx.flows
    <3>1. tx.flows = got \o rest
      BY <1>1, <1>3, <2>1
    <3>2. QED
      BY <1>3, <3>1, PrefixFacts DEF FirstPart
  <2>2. QED
    BY <1>1, <2>1 DEF BundleInv, Underway
<1>5. pc # "dead" => got = tx.flows
  <2>1. pc # "dead" => rest = <<>> /\ (got \o stdin) \o rest = tx.flows
    BY <1>1 DEF BundleInv, Together, StdinClosed, Underway
  <2>2. QED
    BY <1>1, <1>3, <2>1
<1>6. Types'
  BY <1>1, <1>2, <1>3, BundleAssumption DEF BundleInv, Types, TypeOK, Transaction
<1>7. Asked' /\ Together' /\ Underway'
  BY <1>1 DEF BundleInv, Asked, Together, Underway, FirstPart, CutShort
<1>8. answer # "ok"
  BY <1>1 DEF BundleInv, Executed, Together, FirstPart, CutShort
<1>9. Executed'
  BY <1>1, <1>2, <1>4, <1>5, <1>8 DEF BundleInv, Executed, OkIsApplied, FirstPart, CutShort
<1>10. QED
  BY <1>6, <1>7, <1>9 DEF BundleInv

\* The child prints its errors and goes; either of the two is killed.
LEMMA EndsKeep ==
    ASSUME BundleInv, PrintError \/ Exit \/ KillChild \/ Crash
    PROVE  BundleInv'
<1>1. UNCHANGED <<tx, asked, late, rest, begun, stdin, got, bridge, answer>>
  BY DEF PrintError, Exit, KillChild, Crash, transaction, pipes, ofctl
<1>2. \/ /\ child = "printing" /\ child' = child /\ pc' = pc /\ status' = status
         /\ stderr < PipeLen /\ stderr' = stderr + 1 /\ print > 0 /\ print' = print - 1
      \/ /\ child \in {"reading", "printing"} /\ child' = "gone" /\ pc' = pc
         /\ stderr' = stderr /\ print' = print
         /\ \/ child = "printing" /\ status' = status
            \/ status' = "failed"
      \/ /\ pc \notin {"returned", "dead"} /\ pc' = "dead"
         /\ UNCHANGED <<child, status, stderr, print>>
  BY DEF PrintError, Exit, KillChild, Crash, pipes, ofctl
<1>3. stderr' \in 0..PipeLen /\ print' \in 0..MaxErrors
  BY <1>2, BundleAssumption DEF BundleInv, Types, TypeOK
<1>4. Types'
  BY <1>1, <1>2, <1>3 DEF BundleInv, Types, TypeOK, Transaction, Places
<1>5. Asked'
  BY <1>1 DEF BundleInv, Asked
<1>6. Together'
  BY <1>1, <1>2 DEF BundleInv, Together
<1>7. Underway'
  BY <1>1, <1>2 DEF BundleInv, Underway, FirstPart, CutShort
<1>8. Executed'
  <2>1. CASE pc' = pc
    BY <1>1, <1>2, <2>1 DEF BundleInv, Executed, OkIsApplied, FirstPart, CutShort
  <2>2. CASE pc # "dead" /\ pc # "returned" /\ pc' = "dead"
    <3>1. answer' = "none" /\ child' = child /\ status' = status
      BY <1>1, <1>2, <2>2 DEF BundleInv, Executed
    <3>2. status = "ok" \/ bridge # <<>> => child # "none" /\ bridge = tx.flows
      BY <2>2 DEF BundleInv, Executed
    <3>3. IsPrefix(tx.flows, tx.flows)
      BY PrefixFacts DEF BundleInv, Types, Transaction
    <3>4. bridge = tx.flows => FirstPart(bridge)'
      BY <1>1, <3>3 DEF FirstPart
    <3>5. QED
      BY <1>1, <2>2, <3>1, <3>2, <3>4 DEF Executed, OkIsApplied
  <2>3. QED
    BY <1>2, <2>1, <2>2
<1>9. QED
  BY <1>4, <1>5, <1>6, <1>7, <1>8 DEF BundleInv

\* The beginning.
LEMMA BundleInit == Init => BundleInv
<1> SUFFICES ASSUME Init PROVE BundleInv
  OBVIOUS
<1>1. <<>> \in Seq(Directive) /\ Len(<<>>) = 0
  OBVIOUS
<1>2. Types
  <2>1. tx \in Transaction /\ tx.flows = <<>>
    BY <1>1 DEF Init, Transaction
  <2>2. begun \in BOOLEAN
    BY DEF Init
  <2>3. QED
    BY <1>1, <2>1, <2>2, BundleAssumption DEF Init, Types, TypeOK, Transaction, Places
<1>3. Asked /\ Together /\ Underway /\ Executed
  BY DEF Init, Asked, Together, Underway, Executed, OkIsApplied, FirstPart, CutShort
<1>4. QED
  BY <1>2, <1>3 DEF BundleInv

\* Every step.
LEMMA BundleStep == BundleInv /\ [Next]_vars => BundleInv'
<1> SUFFICES ASSUME BundleInv, [Next]_vars PROVE BundleInv'
  OBVIOUS
<1>1. CASE Callback
  BY <1>1, PushKeeps, CommitKeeps, ReturnKeeps DEF Callback
<1>2. CASE Process
  BY <1>2, StartKeeps, BeginKeeps, CopyKeeps, ProcessKeeps DEF Process
<1>3. CASE Child \/ KillChild \/ Crash
  BY <1>3, ReadKeeps, ReadPartKeeps, ExecuteKeeps, EndsKeep DEF Child
<1>4. CASE UNCHANGED vars
  <2>1. UNCHANGED <<tx, asked, late, pc, rest, begun, stdin, stderr, child, got, print, status,
                    bridge, answer>>
    BY <1>4 DEF vars, transaction, pipes, ofctl
  <2>2. Types'
    BY <2>1 DEF BundleInv, Types, TypeOK
  <2>3. QED
    BY <2>1, <2>2 DEF BundleInv, Asked, Together, Underway, Executed, OkIsApplied, FirstPart, CutShort
<1>5. QED
  BY <1>1, <1>2, <1>3, <1>4 DEF Next
-----------------------------------------------------------------------------

\* The types hold, and a pipe never holds more than it can.
THEOREM BundleTyped == Spec => []TypeOK
<1>1. BundleInv => TypeOK
  BY DEF BundleInv, Types
<1>2. QED
  BY <1>1, BundleInit, BundleStep, PTL DEF Spec

\* While the process lives, the bridge executes all that was asked for, in its
\* order, or nothing: a flow that does not marshal is not left out silently.
THEOREM AppliesWhatIsAsked == Spec => []AppliedIsAsked
<1>1. BundleInv => AppliedIsAsked
  BY DEF BundleInv, AppliedIsAsked, Executed, Asked, Together, FirstPart, CutShort
<1>2. QED
  BY <1>1, BundleInit, BundleStep, PTL DEF Spec

\* Whoever dies, only what was committed is executed, from its beginning on and
\* line by line, but for a last line that the death of the process cut off.
THEOREM AppliesWhatIsCommitted == Spec => []AppliedIsCommitted
<1>1. BundleInv => AppliedIsCommitted
  <2>1. ASSUME BundleInv, bridge # <<>> PROVE tx.committed /\ (pc # "dead" => bridge = tx.flows)
    BY <2>1 DEF BundleInv, Executed, Together
  <2>2. ASSUME BundleInv, bridge # <<>> PROVE pc = "dead" => FirstPart(bridge)
    BY <2>2 DEF BundleInv, Executed
  <2>3. ASSUME BundleInv PROVE IsPrefix(tx.flows, tx.flows)
    BY <2>3, PrefixFacts DEF BundleInv, Types, Transaction
  <2>4. QED
    BY <2>1, <2>2, <2>3 DEF AppliedIsCommitted, FirstPart
<1>2. QED
  BY <1>1, BundleInit, BundleStep, PTL DEF Spec

\* AddFlowBundle returns nil only for a transaction that was executed.
THEOREM OkMeansApplied == Spec => []OkIsApplied
<1>1. BundleInv => OkIsApplied
  BY DEF BundleInv, Executed, FirstPart, CutShort
<1>2. QED
  BY <1>1, BundleInit, BundleStep, PTL DEF Spec
=============================================================================
