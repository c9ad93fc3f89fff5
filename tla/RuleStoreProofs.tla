-------------------------- MODULE RuleStoreProofs --------------------------
(* Kept follows from the steps RuleStore allows, for every set of keys and  *)
(* effects: what the Composer implements step by step amounts to it.        *)
EXTENDS RuleStore, TLAPS

\* What makes Kept inductive: the stores are functions over the keys, and
\* nobody works on a rule before the process is up.
KeptInv ==
    /\ Kept
    /\ DOMAIN rule = Keys
    /\ DOMAIN listed = Keys
    /\ ~up => busy = NoKey

\* Before the first start nothing is promised.
LEMMA KeptInit == Init => KeptInv
BY DEF Init, KeptInv, Kept

\* Every step keeps the promise: a request sets its own key aside, the other
\* steps take effects away or put keys in doubt.
LEMMA KeptStep == ASSUME NoKey \notin Keys, KeptInv, [Next]_vars PROVE KeptInv'
<1>1. ASSUME NEW k \in Keys, NEW e, Begin(k, e) PROVE KeptInv'
  BY <1>1 DEF KeptInv, Kept, Begin
<1>2. CASE Work
  BY <1>2 DEF KeptInv, Kept, Work, NoneStarts
<1>3. CASE End
  <2>1. up /\ DOMAIN rule' = Keys /\ DOMAIN listed' = Keys /\ busy' = NoKey
    BY <1>3 DEF KeptInv, End, Nobody
  <2>2. ASSUME NEW k \in Keys \ doubt'
        PROVE  /\ acting'[k] \subseteq Only(rule'[k])
               /\ k \in ListedKeys => listed'[k] = rule'[k]
    <3>1. CASE k = busy
      BY <1>3, <2>2, <3>1 DEF KeptInv, End
    <3>2. CASE k # busy
      <4>1. /\ acting[k] \subseteq Only(rule[k])
            /\ k \in ListedKeys => listed[k] = rule[k]
        BY <1>3, <2>1, <2>2, <3>2 DEF KeptInv, Kept, End
      <4>2. rule'[k] = rule[k] /\ listed'[k] = listed[k] /\ acting' = acting
        BY <1>3, <2>2, <3>2 DEF KeptInv, End
      <4>3. QED
        BY <4>1, <4>2
    <3>3. QED
      BY <3>1, <3>2
  <2>3. QED
    BY <1>3, <2>1, <2>2 DEF KeptInv, Kept, End
<1>4. CASE GiveUp
  <2>1. /\ DOMAIN rule' = Keys /\ DOMAIN listed' = Keys
        /\ up' = up /\ acting' = acting /\ busy' = NoKey
        /\ \A k \in Keys \ doubt' : /\ k # busy /\ k \notin doubt
                                    /\ rule'[k] = rule[k] /\ listed'[k] = listed[k]
    BY <1>4 DEF KeptInv, GiveUp, Nobody
  <2>2. QED
    BY <1>4, <2>1 DEF KeptInv, Kept, GiveUp
<1>5. CASE Sweep
  BY <1>5 DEF KeptInv, Kept, Sweep, NoneStarts
<1>6. CASE Crash
  BY <1>6 DEF KeptInv, Kept, Crash, Nobody
<1>7. CASE ComeUp
  BY <1>7 DEF KeptInv, Kept, ComeUp
<1>8. CASE Serve
  BY <1>8 DEF KeptInv, Kept, Serve
<1>9. CASE UNCHANGED vars
  BY <1>9 DEF KeptInv, Kept, vars
<1>10. QED
  BY <1>1, <1>2, <1>3, <1>4, <1>5, <1>6, <1>7, <1>8, <1>9 DEF Next

\* In every state of a store that keeps to these steps, a rule that nobody is
\* working on and nothing failed for is listed as kept and does what is kept.
THEOREM RulesKept == ASSUME NoKey \notin Keys PROVE Spec => []Kept
<1>1. KeptInv /\ [Next]_vars => KeptInv'
  BY KeptStep
<1>2. KeptInv => Kept
  BY DEF KeptInv
<1>3. QED
  BY <1>1, <1>2, KeptInit, PTL DEF Spec
=============================================================================
