------------------------------ MODULE PortRange ------------------------------
(***************************************************************************)
(* PortRange.BitwiseMatch: a range of ports as the value/mask pairs an     *)
(* OpenFlow match can say.  The code recurses on what is left of the block *)
(* it picks and then on what is right of it; here the calls still to make  *)
(* and the blocks still to append are a list, worked off from its head.    *)
(* Ports are unsigned and Width bits wide (16 in the code).                *)
(***************************************************************************)
EXTENDS Integers, Sequences

CONSTANT Width

ASSUME WidthAssumption == Width \in Nat \ {0}

Pow2[n \in Nat] == IF n = 0 THEN 1 ELSE 2 * Pow2[n - 1]

MaxPort == Pow2[Width] - 1
Port    == 0..MaxPort

\* Windows on a binary boundary, by their length.
Sizes == {Pow2[b] : b \in 0..Width}

\* getRange: the window of a length that holds end.
RangeStart(end, n) == end - (end % n)
RangeEnd(end, n)   == RangeStart(end, n) + n - 1

\* Mutant of Mask: the window is taken one too long.
MaskTooWide(n) == MaxPort - n
\* getMask: ones for everything that does not change in the window.
Mask(n) == MaxPort - (n - 1)

Call(start, end) == [is |-> "call", start |-> start, end |-> end]
Item(start, n)   == [is |-> "block", start |-> start, end |-> start + n - 1]

VARIABLES
    range,  \* the range BitwiseMatch was called with
    todo,   \* calls to make and blocks to append, in the order of the result
    size,   \* length of the window in the call at the head, 0 before it has one
    out,    \* the BitRanges returned so far
    result  \* "busy", "ok", or "invalid" for ErrInvalidPortRange

vars == <<range, todo, size, out, result>>

Init ==
    /\ range \in [start : Port, end : Port]
    /\ todo = <<Call(range.start, range.end)>>
    /\ size = 0
    /\ out = <<>>
    /\ result = "busy"

Busy(is) == result = "busy" /\ todo # <<>> /\ Head(todo).is = is

\* Mutant of IsInvalid: a range of one port is refused.
IsInvalidOrSame(r) == r.start <= 0 \/ r.end <= 0 \/ r.start >= r.end
IsInvalid(r) == r.start <= 0 \/ r.end <= 0 \/ r.start > r.end

\* An invalid range, the one asked for or one left over, fails the whole call.
Invalid ==
    /\ Busy("call")
    /\ IsInvalid(Head(todo))
    /\ result' = "invalid"
    /\ UNCHANGED <<range, todo, size, out>>

One ==
    /\ Busy("call")
    /\ ~IsInvalid(Head(todo))
    /\ Head(todo).start = Head(todo).end
    /\ todo' = <<Item(Head(todo).start, 1)>> \o Tail(todo)
    /\ UNCHANGED <<range, size, out, result>>

\* Mutant of Largest: a range never takes a window of its own length.
LargestBelow(n) == CHOOSE s \in Sizes : s < n /\ \A t \in Sizes : t < n => t <= s
\* The largest window that is no longer than the range, in Width bits.
Largest(n) == CHOOSE s \in Sizes : s <= n /\ \A t \in Sizes : t <= n => t <= s
Window(r)  == (r.end - r.start + 1) % Pow2[Width]

Begin ==
    /\ Busy("call")
    /\ size = 0
    /\ ~IsInvalid(Head(todo))
    /\ Head(todo).start # Head(todo).end
    /\ size' = Largest(Window(Head(todo)))
    /\ UNCHANGED <<range, todo, out, result>>

TooLong(r) == RangeEnd(r.end, size) > r.end

\* Mutant of Shrink: the window is shortened by one port, not by one bit.
ShrinkByOne ==
    /\ Busy("call")
    /\ size > 0
    /\ TooLong(Head(todo))
    /\ size' = size - 1
    /\ UNCHANGED <<range, todo, out, result>>
Shrink ==
    /\ Busy("call")
    /\ size > 0
    /\ TooLong(Head(todo))
    /\ size' = size \div 2
    /\ UNCHANGED <<range, todo, out, result>>

\* Mutant of Left: the left remainder shares its last port with the window.
LeftAndOne(r) ==
    IF r.start # RangeStart(r.end, size)
    THEN <<Call(r.start, RangeStart(r.end, size))>> ELSE <<>>
Left(r) ==
    IF r.start # RangeStart(r.end, size)
    THEN <<Call(r.start, RangeStart(r.end, size) - 1)>> ELSE <<>>
\* The window that holds end and does not pass it ends at it: there is never
\* anything to its right, and the code's second recursion is never reached.
Right(r) ==
    IF r.end # RangeEnd(r.end, size)
    THEN <<Call(RangeEnd(r.end, size) + 1, r.end)>> ELSE <<>>

Split ==
    /\ Busy("call")
    /\ size > 0
    /\ LET r == Head(todo)
       IN /\ ~TooLong(r)
          /\ todo' = Left(r) \o <<Item(RangeStart(r.end, size), size)>> \o Right(r) \o Tail(todo)
    /\ size' = 0
    /\ UNCHANGED <<range, out, result>>

\* The block whose turn it is goes to the result.
Emit ==
    /\ Busy("block")
    /\ LET b == Head(todo)
       IN out' = Append(out, [value |-> b.start, mask |-> Mask(b.end - b.start + 1)])
    /\ todo' = Tail(todo)
    /\ UNCHANGED <<range, size, result>>

Return ==
    /\ result = "busy"
    /\ todo = <<>>
    /\ result' = "ok"
    /\ UNCHANGED <<range, todo, size, out>>

Next == Invalid \/ One \/ Begin \/ Shrink \/ Split \/ Emit \/ Return

Spec == Init /\ [][Next]_vars /\ WF_vars(Next)

-----------------------------------------------------------------------------
(* Properties *)

\* Ports, windows and masks stay within their width, and a window's length
\* within the powers of two that getRange and getMask compute with.
TypeOK ==
    /\ range \in [start : Port, end : Port]
    /\ \A i \in DOMAIN todo : todo[i].start \in Port /\ todo[i].end \in Port
    /\ size \in Sizes \cup {0}
    /\ \A i \in DOMAIN out : out[i].value \in Port /\ out[i].mask \in Port
    /\ result \in {"busy", "ok", "invalid"}

\* What a value/mask pair admits.
Admits(b, p) == LET s == MaxPort - b.mask + 1 IN RangeStart(p, s) = b.value

\* What BitwiseMatch has to take: a range of ports with its ends in order.
Proper == range.start \in 1..range.end

\* In the order they stand, the pairs returned and the work left tile the
\* range that was asked for: no port twice, none outside, none forgotten, at
\* every point of the recursion.
Tiled ==
    result # "invalid" /\ Proper =>
        LET parts == [i \in DOMAIN out |->
                         Item(out[i].value, MaxPort - out[i].mask + 1)] \o todo
        IN /\ parts # <<>>
           /\ parts[1].start = range.start
           /\ parts[Len(parts)].end = range.end
           /\ \A i \in 1..Len(parts) : parts[i].start <= parts[i].end
           /\ \A i \in 1..(Len(parts) - 1) : parts[i + 1].start = parts[i].end + 1

\* The result admits the ports of the range and no others.
MatchesRange ==
    result = "ok" =>
        \A p \in Port : (\E i \in DOMAIN out : Admits(out[i], p))
                            <=> p \in range.start..range.end

\* And it is the shortest possible one: its windows are exactly the windows
\* within the range that no longer window within the range holds.
Windows(r) == {w \in [start : r.start..r.end, size : Sizes] :
                  w.start % w.size = 0 /\ w.start + w.size - 1 <= r.end}
Longest(r) == {w \in Windows(r) : \A v \in Windows(r) :
                  v.start <= w.start /\ w.start < v.start + v.size => v.size <= w.size}
Shortest ==
    result = "ok" =>
        {out[i] : i \in DOMAIN out} =
            {[value |-> w.start, mask |-> Mask(w.size)] : w \in Longest(range)}

\* A range with both ends in order is never refused, the others always are,
\* and the recursion ends.
Ends == <>(result = IF Proper THEN "ok" ELSE "invalid")
=============================================================================
