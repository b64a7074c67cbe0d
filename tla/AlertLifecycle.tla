--------------------------- MODULE AlertLifecycle ---------------------------
(***************************************************************************)
(* What the alert engine promises for one rule, agent and subject: alert   *)
(* episodes that follow one another, each fired once and resolved once,    *)
(* until the rule is deleted.                                              *)
(***************************************************************************)
EXTENDS Naturals

VARIABLES
    state,      \* "clear", "firing" or, once the rule is gone, "retired"
    episodes    \* alerts fired so far

Init == state = "clear" /\ episodes = 0

Fire == /\ state = "clear"
        /\ state' = "firing"
        /\ episodes' = episodes + 1

Resolve == /\ state = "firing"
           /\ state' = "clear"
           /\ UNCHANGED episodes

Retire == /\ state # "retired"
          /\ state' = "retired"
          /\ UNCHANGED episodes

Next == Fire \/ Resolve \/ Retire

Spec == Init /\ [][Next]_<<state, episodes>>

=============================================================================
