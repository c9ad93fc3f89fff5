----------------------------- MODULE RuleStore -----------------------------
(***************************************************************************)
(* What the Composer promises of its NAT rules, without flows, tables,     *)
(* commands or start-up code: a rule is a key with an effect.  It is kept  *)
(* (and survives the process), some rules are listed, and an effect acts   *)
(* on packets.  One request at a time changes one key.                     *)
(*                                                                         *)
(* A key is in doubt when a command for it has failed: of such a key only  *)
(* the kept effect is certain.  Whatever else happens to the router, an    *)
(* effect may stop acting; it never starts, but for the key a request is   *)
(* working on and, while the process comes up, for what was kept.          *)
(***************************************************************************)
CONSTANTS Keys,        \* the keys of rules
          ListedKeys,  \* those of rules that are listed
          Effects,     \* what a rule can do to a packet
          NoEffect,    \* of a key without a rule
          NoKey        \* nobody is working on a rule

VARIABLES
    up,      \* the process serves requests
    rule,    \* the effect kept under each key
    listed,  \* the effect listed under each key
    acting,  \* the effects that act for each key
    busy,    \* the key a request is working on
    goal,    \* the effect the request is to leave there
    doubt    \* the keys in doubt

vars == <<up, rule, listed, acting, busy, goal, doubt>>

\* The effects of a key that has effect e.
Only(e) == {e} \ {NoEffect}

Nobody == busy' = NoKey /\ goal' = NoEffect

\* No effect starts to act under a key in K.
NoneStarts(K) == \A k \in K : acting'[k] \subseteq acting[k]

Init ==
    /\ ~up
    /\ rule = [k \in Keys |-> NoEffect]
    /\ listed = [k \in Keys |-> NoEffect]
    /\ acting = [k \in Keys |-> {}]
    /\ busy = NoKey
    /\ goal = NoEffect
    /\ doubt = Keys

\* A request begins: rule k is to have effect e, or to go.
Begin(k, e) ==
    /\ up
    /\ busy = NoKey
    /\ busy' = k
    /\ goal' = e
    /\ UNCHANGED <<up, rule, listed, acting, doubt>>

\* It works: the new effect may start, the old one and those of other rules
\* may stop.
Work ==
    /\ busy # NoKey
    /\ acting'[busy] \subseteq acting[busy] \cup Only(goal)
    /\ NoneStarts(Keys \ {busy})
    /\ UNCHANGED <<up, rule, listed, busy, goal, doubt>>

\* It ends well: the rule is kept, listed, and acts as asked.
End ==
    /\ busy # NoKey
    /\ busy \notin doubt => acting[busy] = Only(goal)
    /\ rule' = [rule EXCEPT ![busy] = goal]
    /\ listed' = IF busy \in ListedKeys THEN [listed EXCEPT ![busy] = goal] ELSE listed
    /\ Nobody
    /\ UNCHANGED <<up, acting, doubt>>

\* It gives up: no other rule is affected, and its own is in doubt.
GiveUp ==
    /\ busy # NoKey
    /\ rule' \in {rule, [rule EXCEPT ![busy] = goal]}
    /\ listed' \in {listed, [listed EXCEPT ![busy] = goal]}
    /\ doubt' = doubt \cup {busy}
    /\ Nobody
    /\ UNCHANGED <<up, acting>>

\* Something else of the router takes effects away, and may put keys in doubt.
Sweep ==
    /\ NoneStarts(Keys)
    /\ doubt \subseteq doubt'
    /\ UNCHANGED <<up, rule, listed, busy, goal>>

\* The process dies; what is kept stays kept, what acts goes on acting.
Crash ==
    /\ up' = FALSE
    /\ Nobody
    /\ doubt' = Keys
    /\ listed' = [k \in Keys |-> NoEffect]
    /\ UNCHANGED <<rule, acting>>

\* It comes up again: effects may stop, and only what is kept may start.
ComeUp ==
    /\ ~up
    /\ \A k \in Keys : acting'[k] \subseteq acting[k] \cup Only(rule[k])
    /\ UNCHANGED <<up, rule, listed, busy, goal, doubt>>

\* It serves, with every key in doubt or as it was kept.
Serve ==
    /\ ~up
    /\ up' = TRUE
    /\ listed' \in [Keys -> Effects \cup {NoEffect}]
    /\ \A k \in Keys \ doubt' :
         /\ acting'[k] \subseteq Only(rule[k])
         /\ k \in ListedKeys => listed'[k] = rule[k]
    /\ UNCHANGED <<rule, acting, busy, goal>>

Next == \/ \E k \in Keys, e \in Effects \cup {NoEffect} : Begin(k, e)
        \/ Work \/ End \/ GiveUp
        \/ Sweep
        \/ Crash \/ ComeUp \/ Serve

Spec == Init /\ [][Next]_vars

\* What this amounts to: outside of a request for it, a rule nothing failed
\* for is listed as it is kept, and does nothing else than what is kept.
Kept ==
    up => \A k \in Keys \ (doubt \cup {busy}) :
            /\ acting[k] \subseteq Only(rule[k])
            /\ k \in ListedKeys => listed[k] = rule[k]
=============================================================================
