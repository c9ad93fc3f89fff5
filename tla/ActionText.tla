------------------------------ MODULE ActionText -----------------------------
(***************************************************************************)
(* What an Action is written as (action.go), and what a written action is  *)
(* read as (parseAction of actionparser.go).  A written action is a        *)
(* sequence of tokens: words, numbers, the characters ( ) , / and ->, and  *)
(* white space.                                                            *)
(* An Action is the name of its type with its arguments; the one action    *)
(* that holds others is learn.                                             *)
(***************************************************************************)
EXTENDS MatchText, SequencesExt

Act(of, args) == [of |-> of, args |-> args, inner |-> <<>>]
Learn(head, inner) == [of |-> "learn", args |-> head, inner |-> inner]

Open  == Word("(")
Close == Word(")")
Comma == Word(",")
Slash == Word("/")
Arrow == Word("->")
Space == Word(" ")

TextActions == {"all", "drop", "flood", "in_port", "local", "normal", "strip_vlan"}
\* Actions written as a word and an argument, by that word.
Prefixed == [mod_dl_dst    |-> "mod_dl_dst:",   mod_dl_src   |-> "mod_dl_src:",
             mod_nw_dst    |-> "mod_nw_dst:",   mod_nw_src   |-> "mod_nw_src:",
             mod_tp_dst    |-> "mod_tp_dst:",   mod_tp_src   |-> "mod_tp_src:",
             mod_vlan_vid  |-> "mod_vlan_vid:", output       |-> "output:",
             output_field  |-> "output:",       resubmit_port |-> "resubmit:",
             load          |-> "load:",         set_field    |-> "set_field:",
             move          |-> "move:",         set_tunnel   |-> "set_tunnel:",
             push          |-> "push:",         pop          |-> "pop:"]

ASSUME ActionNamesAssumption ==
    TextActions \cup {"ct_clear", "ct", "conjunction", "resubmit", "learn", "(", ")", ",", "/", "->", " "}
        \cup DOMAIN Prefixed \cup {Prefixed[of] : of \in DOMAIN Prefixed} \subseteq Names

-----------------------------------------------------------------------------
(* What the constructors take *)

ConstructedPlain(a) ==
    LET one == Len(a.args) = 1
        decimals(n) == Len(a.args) = n /\ \A i \in 1..n : a.args[i] = Dec(a.args[i].n)
    IN  /\ a \in [of   : TextActions \cup {"ct_clear", "ct", "conjunction", "resubmit"} \cup DOMAIN Prefixed,
                  args : Seq(Parts), inner : {<<>>}]
        /\ a.of \in TextActions \cup {"ct_clear"} => a.args = <<>>
        /\ a.of \in {"mod_dl_dst", "mod_dl_src", "mod_nw_dst", "mod_nw_src",
                    "output_field", "push", "pop"} => one /\ IsWord(a.args[1])
        /\ a.of \in {"mod_tp_dst", "mod_tp_src"} => decimals(1) /\ Within(a.args[1].n, 0, 65535)
        /\ a.of \in {"mod_vlan_vid", "output", "resubmit_port"} => decimals(1)
        /\ a.of = "resubmit"    => decimals(2)
        /\ a.of = "conjunction" => decimals(3)
        /\ a.of = "set_tunnel"  => one
        /\ a.of \in {"load", "set_field", "move"} => \E i \in DOMAIN a.args : a.args[i] = Arrow
ConstructedAction(a) ==
    IF a.of # "learn" THEN ConstructedPlain(a)
    ELSE /\ a \in [of : {"learn"}, args : Seq(Parts),
                   inner : Seq([of : Names, args : Seq(Parts), inner : {<<>>}])]
         /\ \A i \in DOMAIN a.inner : ConstructedPlain(a.inner[i])

-----------------------------------------------------------------------------
(* Writing *)

\* strings.Join with a comma: what the first ones are, for every number of them.
Join(seqs) ==
    LET joined[i \in 0..Len(seqs)] ==
            CASE i = 0 -> <<>>
              [] i = 1 -> seqs[1]
              [] OTHER -> joined[i - 1] \o <<Comma>> \o seqs[i]
    IN joined[Len(seqs)]

\* Arguments of load, set_field and move are written source->destination.
BothSides(args) == args # <<>> /\ Head(args) # Arrow /\ args[Len(args)] # Arrow

\* What the MarshalText of an action refuses not, learn aside.
PlainMarshals(a) ==
    LET arg == a.args[1]
    IN  /\ a.of = "ct"                           => a.args # <<>>
        /\ a.of \in {"mod_dl_dst", "mod_dl_src"} => IsMac(arg.word)
        /\ a.of \in {"mod_nw_dst", "mod_nw_src"} => arg.word = "ip4"
        /\ a.of = "mod_vlan_vid"                 => Within(arg.n, 0, 4095)
        /\ a.of = "output"                       => arg.n >= 0
        /\ a.of \in {"output_field", "push", "pop"} => arg.word # Empty
        /\ a.of = "conjunction"                  => a.args[2].n <= a.args[3].n
        /\ a.of = "resubmit_port"                => Within(arg.n, 0, 16776959)
        /\ a.of = "resubmit"                     => \E i \in 1..2 : a.args[i].n # 0
        /\ a.of \in {"load", "set_field", "move"} => BothSides(a.args)
\* A learned flow holds load and output:field actions, one at least.
ActionMarshals(a) ==
    IF a.of # "learn" THEN PlainMarshals(a)
    ELSE /\ a.inner # <<>>
         /\ \A i \in DOMAIN a.inner : /\ a.inner[i].of \in {"load", "output_field"}
                                      /\ PlainMarshals(a.inner[i])

\* resubmit leaves out a port or a table that is zero.
NotZero(p) == IF p.n = 0 THEN <<>> ELSE <<p>>
PlainTokens(a) ==
    CASE a.of \in TextActions \cup {"ct_clear"} -> <<Word(a.of)>>
      [] a.of = "ct" -> <<Word("ct"), Open>> \o a.args \o <<Close>>
      [] a.of = "conjunction" ->
            <<Word("conjunction"), Open, a.args[1], Comma, a.args[2], Slash, a.args[3], Close>>
      [] a.of = "resubmit" ->
            <<Word("resubmit"), Open>> \o NotZero(a.args[1]) \o <<Comma>>
                \o NotZero(a.args[2]) \o <<Close>>
      [] OTHER -> <<Word(Prefixed[a.of])>> \o Spelled(a.args)
\* A learned flow is its matchers, then its actions, without "actions=".
ActionTokens(a) ==
    IF a.of # "learn" THEN PlainTokens(a)
    ELSE <<Word("learn"), Open>> \o a.args \o <<Comma>>
            \o Join([i \in DOMAIN a.inner |-> PlainTokens(a.inner[i])]) \o <<Close>>

-----------------------------------------------------------------------------
(* Reading *)

Lower(w) == CASE w = "DROP" -> "drop" [] w = "NORMAL" -> "normal" [] w = "LOCAL" -> "local"
              [] OTHER -> w
At(s, i, w) == i \in DOMAIN s /\ s[i] = Word(w)

\* The expressions of parseAction are not anchored: they find an action within
\* another.  Each takes as much as it can, up to white space.
Run(s, i)    == {j \in i..Len(s) : \A k \in i..j : s[k] # Space}
Farthest(places) == CHOOSE j \in places : \A k \in places : k <= j
\* The places of the closing parenthesis that "ct(" at i may end at.
Ends(s, i)   == {j \in Run(s, i + 2) : j > i + 2 /\ At(s, j, ")")}
Ct(s, i)     == At(s, i, "ct") /\ At(s, i + 1, "(") /\ Ends(s, i) # {}
CtArgs(s, i) == SubSeq(s, i + 2, Farthest(Ends(s, i)) - 1)
Sides(s, i, w) ==
    At(s, i, w) /\ \E j \in Run(s, i + 1) : j > i + 1 /\ s[j] = Arrow /\ j + 1 \in Run(s, i + 1)
SidesArgs(s, i) == SubSeq(s, i + 1, Farthest(Run(s, i + 1)))

\* Optional digits.
Digits(s)      == s = <<>> \/ (Len(s) = 1 /\ s[1].base = 10 /\ s[1].n >= 0)
DigitsOf(s)    == IF s = <<>> THEN Dec(0) ELSE s[1]
Resubmit(s, i) ==
    /\ At(s, i, "resubmit") /\ At(s, i + 1, "(")
    /\ \E c \in i + 2..i + 3, e \in i + 3..i + 5 :
          /\ At(s, c, ",") /\ At(s, e, ")")
          /\ Digits(SubSeq(s, i + 2, c - 1)) /\ Digits(SubSeq(s, c + 1, e - 1))
ResubmitArgs(s, i) ==
    LET c == CHOOSE j \in i + 2..i + 3 : At(s, j, ",")
        e == CHOOSE j \in c + 1..c + 2 : At(s, j, ")")
    IN <<DigitsOf(SubSeq(s, i + 2, c - 1)), DigitsOf(SubSeq(s, c + 1, e - 1))>>

\* The first place where an action is found, 0 if it is nowhere.
First(places) == IF places = {} THEN 0 ELSE CHOOSE i \in places : \A j \in places : i <= j
Places(s, of) ==
    CASE of = "ct"            -> {i \in DOMAIN s : Ct(s, i)}
      [] of = "resubmit"      -> {i \in DOMAIN s : Resubmit(s, i)}
      [] of = "resubmit_port" -> {i \in DOMAIN s : /\ At(s, i, "resubmit:") /\ i < Len(s)
                                                   /\ s[i + 1].base = 10 /\ s[i + 1].n >= 0}
      [] OTHER                -> {i \in DOMAIN s : Sides(s, i, Prefixed[of])}
Where(s, of) == First(Places(s, of))

\* Actions that parseAction knows by how they begin, with what it takes after
\* that: an argument between white space, of which what follows a number is not
\* looked at.
ScannedKinds == {"mod_dl_dst", "mod_dl_src", "mod_nw_dst", "mod_nw_src", "mod_tp_dst",
                 "mod_tp_src", "mod_vlan_vid", "output"}
Argument(s) ==
    LET from == First({j \in 2..Len(s) : s[j] # Space})
    IN  IF from = 0 THEN <<>> ELSE SubSeq(s, from, Farthest(Run(s, from)))
ScannedArg(of, s) ==
    /\ s # <<>>
    /\ of \in {"mod_dl_dst", "mod_dl_src"} => Len(s) = 1 /\ ParsesMac(s[1].word)
    /\ of \in {"mod_nw_dst", "mod_nw_src"} => Len(s) = 1 /\ s[1].word = "ip4"
    /\ of \in {"mod_tp_dst", "mod_tp_src"} => s[1].base = 10 /\ Within(s[1].n, 0, 65535)
    /\ of \in {"mod_vlan_vid", "output"}   => s[1].base = 10
Conjunction(s) ==
    /\ Len(s) >= 8 /\ s[2] = Open /\ s[4] = Comma /\ s[6] = Slash /\ s[8] = Close
    /\ \A i \in {3, 5, 7} : s[i].base = 10

\* load, then move, then set_field.
Sided(s) ==
    LET act(of) == <<Act(of, SidesArgs(s, Where(s, of)))>>
    IN  IF Where(s, "load") > 0 THEN act("load")
        ELSE IF Where(s, "move") > 0 THEN act("move")
        ELSE IF Where(s, "set_field") > 0 THEN act("set_field") ELSE <<>>

\* parseAction: the action read, in a sequence that is empty for an error.
Scanned(s) == {of \in ScannedKinds : At(s, 1, Prefixed[of])}
IsText(s)  == Len(s) = 1 /\ Lower(s[1].word) \in TextActions \ {"all"}
ParseAction(s) ==
    LET of   == CHOOSE k \in Scanned(s) : TRUE
        port == Where(s, "resubmit_port")
    IN  IF IsText(s) THEN <<Act(Lower(s[1].word), <<>>)>>
        ELSE IF Where(s, "ct") > 0 THEN <<Act("ct", CtArgs(s, Where(s, "ct")))>>
        ELSE IF Scanned(s) # {} THEN
            IF ScannedArg(of, Argument(s)) THEN <<Act(of, Spelled(<<Argument(s)[1]>>))>> ELSE <<>>
        ELSE IF At(s, 1, "conjunction") THEN
            IF Conjunction(s) THEN <<Act("conjunction", <<s[3], s[5], s[7]>>)>> ELSE <<>>
        ELSE IF Where(s, "resubmit") > 0 THEN
            <<Act("resubmit", ResubmitArgs(s, Where(s, "resubmit")))>>
        ELSE IF port > 0 THEN <<Act("resubmit_port", <<s[port + 1]>>)>>
        ELSE Sided(s)
=============================================================================
