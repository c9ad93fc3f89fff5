------------------------------ MODULE FlowBundle ------------------------------
(***************************************************************************)
(* AddFlowBundle: a callback collects directives in a FlowTransaction; what *)
(* it has committed is written to the standard input of ovs-ofctl --bundle, *)
(* which changes the bridge when its input has ended.  The process and its  *)
(* child go at their own pace, with three pipes between them.               *)
(*                                                                          *)
(* A pipe holds PipeLen lines.  They are copied as bytes, so that the last  *)
(* one in the pipe may be there in part.  The child prints nothing but      *)
(* errors, on its standard error.                                           *)
(***************************************************************************)
EXTENDS Integers, Sequences, SequencesExt

CONSTANTS Flows,     \* flows that marshal
          BadFlow,   \* one that does not
          PipeLen,   \* lines a pipe holds
          MaxCalls,  \* bound: Add and Delete calls of the callback
          MaxFlows,  \* bound: flows per call
          MaxErrors, \* bound: lines of error the child prints
          MaxDeaths  \* bound: the process or its child is killed

ASSUME BundleAssumption ==
    /\ BadFlow \notin Flows
    /\ PipeLen \in Nat \ {0}
    /\ MaxFlows \in Nat
    /\ MaxErrors \in Nat \ {0}

VARIABLES
    tx,     \* the transaction: directives, committed, err
    pc,     \* where AddFlowBundle and shellPipe are
    rest,   \* lines of the buffer not copied yet to their end
    begun,  \* the first bytes of the first of them are in the child's input
    stdin,  \* lines in the child's standard input
    stderr, \* lines in the child's standard error
    child,  \* "none", "reading", "printing", "gone"
    got,    \* lines the child has read
    print,  \* lines the child has still to print
    status, \* its exit status: "none", "ok", "failed"
    bridge, \* directives the bridge has executed
    answer  \* what AddFlowBundle returned: "none", "ok", "error"

\* What the properties need to know about the past.
VARIABLES
    calls,  \* calls of the callback
    asked,  \* every directive asked for since the last Discard
    late,   \* the callback did something after Commit
    deaths  \* deaths so far

transaction == <<tx, calls, asked, late>>
pipes       == <<rest, begun, stdin, stderr>>
ofctl       == <<child, got, print, status>>
vars        == <<transaction, pc, pipes, ofctl, bridge, answer, deaths>>

Places == {"callback", "start", "copy", "stdout", "stderr", "wait", "returned", "dead"}
\* whole: the line was not cut off.
Directive == [directive : {"add", "delete"}, flow : Flows, whole : BOOLEAN]

Init ==
    /\ tx = [flows |-> <<>>, committed |-> FALSE, err |-> FALSE]
    /\ pc = "callback"
    /\ rest = <<>> /\ begun = FALSE /\ stdin = <<>> /\ stderr = 0
    /\ child = "none" /\ got = <<>> /\ print = 0 /\ status = "none"
    /\ bridge = <<>>
    /\ answer = "none"
    /\ calls = 0 /\ asked = <<>> /\ late = FALSE /\ deaths = 0

-----------------------------------------------------------------------------
(* The callback *)

InCallback == pc = "callback"

Lines(dir, flows) ==
    [i \in DOMAIN flows |-> [directive |-> dir, flow |-> flows[i], whole |-> TRUE]]

\* What push appends: the flows before the first one that does not marshal.
Marshalled(flows) ==
    LET bad == SelectInSeq(flows, LAMBDA f : f = BadFlow)
    IN IF bad = 0 THEN flows ELSE SubSeq(flows, 1, bad - 1)

\* Mutants of Pushed: a flow that does not marshal is left out, and no error
\* is kept; and one that is pushed before the error is looked at.
PushedOthers(dir, flows) ==
    [tx EXCEPT !.flows = @ \o Lines(dir, SelectSeq(flows, LAMBDA f : f # BadFlow))]
PushedUnchecked(dir, flows) ==
    IF tx.err THEN tx
    ELSE [tx EXCEPT !.flows = @ \o Lines(dir, flows),
                    !.err = Marshalled(flows) # flows]
Pushed(dir, flows) ==
    IF tx.err THEN tx
    ELSE [tx EXCEPT !.flows = @ \o Lines(dir, Marshalled(flows)),
                    !.err = Marshalled(flows) # flows]

\* Add and Delete.
Push(dir, flows) ==
    /\ InCallback
    /\ calls < MaxCalls
    /\ calls' = calls + 1
    /\ tx' = Pushed(dir, flows)
    /\ asked' = asked \o Lines(dir, flows)
    /\ late' = (late \/ tx.committed)
    /\ UNCHANGED <<pc, pipes, ofctl, bridge, answer, deaths>>

Return(a) == pc' = "returned" /\ answer' = a

\* The callback returns what Commit returns; AddFlowBundle goes on if that is
\* nil, or returns the error.
Commit ==
    /\ InCallback
    /\ ~tx.err
    /\ tx' = [tx EXCEPT !.committed = TRUE]
    /\ UNCHANGED <<calls, asked, late, pc, pipes, ofctl, bridge, answer, deaths>>

\* Discard empties the directives, and neither the error nor the commitment.
Discard ==
    /\ InCallback
    /\ asked # <<>>
    /\ tx' = [tx EXCEPT !.flows = <<>>]
    /\ asked' = <<>>
    /\ late' = (late \/ tx.committed)
    /\ UNCHANGED <<calls, pc, pipes, ofctl, bridge, answer, deaths>>

\* The callback returns an error, the one of Commit, of Discard or its own.
CallbackFails ==
    /\ InCallback
    /\ Return("error")
    /\ UNCHANGED <<transaction, pipes, ofctl, bridge, deaths>>

\* Mutant of CallbackReturns: what was not committed is sent.
ReturnsAnyhow ==
    /\ InCallback
    /\ pc' = "start" /\ rest' = tx.flows /\ UNCHANGED answer
    /\ UNCHANGED <<transaction, begun, stdin, stderr, ofctl, bridge, deaths>>
\* It returns nil: without a commit that is an error, with one the directives
\* are written to the buffer.
CallbackReturns ==
    /\ InCallback
    /\ IF tx.committed
       THEN pc' = "start" /\ rest' = tx.flows /\ UNCHANGED answer
       ELSE Return("error") /\ UNCHANGED rest
    /\ UNCHANGED <<transaction, begun, stdin, stderr, ofctl, bridge, deaths>>

-----------------------------------------------------------------------------
(* shellPipe *)

Start ==
    /\ pc = "start"
    /\ pc' = "copy"
    /\ child' = "reading"
    /\ UNCHANGED <<transaction, pipes, got, print, status, bridge, answer, deaths>>

StartFails ==
    /\ pc = "start"
    /\ Return("error")
    /\ UNCHANGED <<transaction, pipes, ofctl, bridge, deaths>>

\* io.Copy moves blocks of bytes, which end anywhere in a line, and it blocks
\* while the pipe is full: some of a line is in the pipe before the rest of it.
Begin ==
    /\ pc = "copy"
    /\ rest # <<>> /\ ~begun
    /\ child # "gone"
    /\ Len(stdin) < PipeLen
    /\ begun' = TRUE
    /\ UNCHANGED <<transaction, pc, rest, stdin, stderr, ofctl, bridge, answer, deaths>>

Copy ==
    /\ pc = "copy"
    /\ begun
    /\ child # "gone"
    /\ stdin' = Append(stdin, Head(rest))
    /\ rest' = Tail(rest)
    /\ begun' = FALSE
    /\ UNCHANGED <<transaction, pc, stderr, ofctl, bridge, answer, deaths>>

\* The child is gone: EPIPE.  What it printed is not read, nor is it waited for.
CopyFails ==
    /\ pc = "copy"
    /\ rest # <<>>
    /\ child = "gone"
    /\ Return("error")
    /\ UNCHANGED <<transaction, pipes, ofctl, bridge, deaths>>

\* Mutant of StdinClosed: the process leaves the pipe open.
StdinLeftOpen == pc \in {"returned", "dead"}
\* The child sees the end of its input once the pipe is closed and empty.
StdinClosed == pc \in {"stdout", "stderr", "wait", "returned", "dead"}

\* It closes the pipe and turns to the output.
Close ==
    /\ pc = "copy"
    /\ rest = <<>>
    /\ pc' = "stdout"
    /\ UNCHANGED <<transaction, pipes, ofctl, bridge, answer, deaths>>

\* ReadAll of a MultiReader: standard output to its end, which is the child's,
\* and only then standard error.
StdoutEnds ==
    /\ pc = "stdout"
    /\ child = "gone"
    /\ pc' = "stderr"
    /\ UNCHANGED <<transaction, pipes, ofctl, bridge, answer, deaths>>

ReadStderr ==
    /\ pc = "stderr"
    /\ IF stderr > 0
       THEN stderr' = stderr - 1 /\ UNCHANGED pc
       ELSE pc' = "wait" /\ UNCHANGED stderr
    /\ UNCHANGED <<transaction, rest, begun, stdin, ofctl, bridge, answer, deaths>>

\* Mutant of Wait: the exit status is not looked at.
WaitAnyhow ==
    /\ pc = "wait"
    /\ Return("ok")
    /\ UNCHANGED <<transaction, pipes, ofctl, bridge, deaths>>
Wait ==
    /\ pc = "wait"
    /\ Return(IF status = "ok" THEN "ok" ELSE "error")
    /\ UNCHANGED <<transaction, pipes, ofctl, bridge, deaths>>

-----------------------------------------------------------------------------
(* ovs-ofctl --bundle add-flow <bridge> - *)

\* Stop at a line that it does not understand.
Stop == child' = "printing" /\ print' = 1 /\ status' = "failed" /\ UNCHANGED got

ReadLine ==
    /\ child = "reading"
    /\ stdin # <<>>
    /\ stdin' = Tail(stdin)
    /\ \/ /\ got' = Append(got, Head(stdin))
          /\ UNCHANGED <<child, print, status>>
       \/ Stop
    /\ UNCHANGED <<transaction, pc, rest, begun, stderr, bridge, answer, deaths>>

\* The end of its input ends a line as well: what is there of it may be all but
\* the newline, or read as another flow, or not be understood.
ReadPart ==
    /\ child = "reading"
    /\ stdin = <<>> /\ begun
    /\ StdinClosed
    /\ begun' = FALSE
    /\ \/ /\ \E line \in {Head(rest), [Head(rest) EXCEPT !.whole = FALSE]} :
                got' = Append(got, line)
          /\ UNCHANGED <<child, print, status>>
       \/ Stop
    /\ UNCHANGED <<transaction, pc, rest, stdin, stderr, bridge, answer, deaths>>

\* At the end of its input it sends the bundle, which the switch executes as
\* a whole or answers with errors.
Execute ==
    /\ child = "reading"
    /\ stdin = <<>> /\ ~begun
    /\ StdinClosed
    /\ child' = "printing"
    /\ \/ bridge' = got /\ print' = 0 /\ status' = "ok"
       \/ \E n \in 1..MaxErrors : print' = n /\ status' = "failed" /\ UNCHANGED bridge
    /\ UNCHANGED <<transaction, pc, pipes, got, answer, deaths>>

PrintError ==
    /\ child = "printing"
    /\ print > 0
    /\ stderr < PipeLen
    /\ stderr' = stderr + 1
    /\ print' = print - 1
    /\ UNCHANGED <<transaction, pc, rest, begun, stdin, child, got, status, bridge, answer, deaths>>

\* Done, or nobody is left to read what it prints: SIGPIPE.
Exit ==
    /\ child = "printing"
    /\ print = 0 \/ pc \in {"dead", "returned"}
    /\ child' = "gone"
    /\ UNCHANGED <<transaction, pc, pipes, got, print, status, bridge, answer, deaths>>

Death == deaths < MaxDeaths /\ deaths' = deaths + 1

\* A signal ends the child, the one of its own --timeout for example.
KillChild ==
    /\ child \in {"reading", "printing"}
    /\ Death
    /\ child' = "gone"
    /\ status' = "failed"
    /\ UNCHANGED <<transaction, pc, pipes, got, print, bridge, answer>>

\* The process dies, which closes its ends of the pipes.
Crash ==
    /\ pc \notin {"returned", "dead"}
    /\ Death
    /\ pc' = "dead"
    /\ UNCHANGED <<transaction, pipes, ofctl, bridge, answer>>

-----------------------------------------------------------------------------

Callback ==
    \/ \E n \in 1..MaxFlows, dir \in {"add", "delete"} :
          \E flows \in [1..n -> Flows \cup {BadFlow}] : Push(dir, flows)
    \/ Commit \/ Discard \/ CallbackFails \/ CallbackReturns

Process ==
    \/ Start \/ StartFails \/ Begin \/ Copy \/ CopyFails
    \/ Close \/ StdoutEnds \/ ReadStderr \/ Wait
Child == ReadLine \/ ReadPart \/ Execute \/ PrintError \/ Exit

Next == Callback \/ Process \/ Child \/ KillChild \/ Crash

\* The process and its child run; the callback may take its time.
Spec == Init /\ [][Next]_vars /\ WF_vars(Process) /\ WF_vars(Child)

-----------------------------------------------------------------------------
(* Properties *)

\* The types; a pipe never holds more than it can.
TypeOK ==
    /\ tx.flows \in Seq(Directive) /\ tx.committed \in BOOLEAN /\ tx.err \in BOOLEAN
    /\ pc \in Places
    /\ \A lines \in {rest, stdin, got, bridge} : lines \in Seq(Directive)
    /\ begun \in BOOLEAN
    /\ Len(stdin) <= PipeLen /\ stderr \in 0..PipeLen
    /\ child \in {"none", "reading", "printing", "gone"}
    /\ print \in 0..MaxErrors
    /\ status \in {"none", "ok", "failed"}
    /\ answer \in {"none", "ok", "error"}

\* While the process lives the bridge executes everything the callback asked
\* for, in its order, or nothing: no flow that did not marshal is left out, no
\* line is lost in the pipe.  A callback that goes on after Commit is excepted.
AppliedIsAsked ==
    bridge # <<>> /\ pc # "dead" /\ ~late => bridge = asked

\* The first n lines of the transaction, of the last of them only a part.
CutShort(n) == Append(SubSeq(tx.flows, 1, n - 1), [tx.flows[n] EXCEPT !.whole = FALSE])

\* Nothing is executed before the commit, whatever the callback does and whoever
\* dies, and nothing but the first lines of what was committed: only a process
\* that died in mid-copy may have left the last of them cut off, which
\* ovs-ofctl executes as it stands.
AppliedIsCommitted ==
    bridge # <<>> =>
        /\ tx.committed
        /\ \/ IsPrefix(bridge, tx.flows)
           \/ pc = "dead" /\ \E n \in DOMAIN tx.flows : bridge = CutShort(n)

\* AddFlowBundle returns nil only if the bridge has executed the transaction.
OkIsApplied == answer = "ok" => bridge = tx.flows

\* A child that prints more than the pipe holds while the process reads its
\* standard output: each waits for the other.
Clogged == pc = "stdout" /\ stderr = PipeLen /\ print > 0

\* That is the only way in which AddFlowBundle, once the callback has
\* returned, fails to return.
Returns == pc = "start" ~> (pc \in {"returned", "dead"} \/ Clogged)
=============================================================================
