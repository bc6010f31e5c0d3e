-------------------------- MODULE MCIntentAdmission --------------------------
(* The checks of execute without what follows them: two creates, a session *)
(* and an intent, whose selector is one that the session allows or not.    *)
EXTENDS IntentAdmission, TLC

CONSTANTS c1, c2, s1, e1, alice, bob, base, other, t1, t2, f1, f2

MCCreates    == {c1, c2}
MCIssues     == {s1}
MCExecutes   == {e1}
MCUsers      == {alice, bob}
MCChains     == {base, other}
MCConfigured == {base}
MCTargets    == {t1, t2}
MCSelectors  == {f1, f2}
MCValues     == {0, 1}
MCTtls       == {0, 7, 15}
MCScopes     == {[targets |-> {t1}, selectors |-> {f1}, max_value_wei |-> 1],
                 [targets |-> {t1}, selectors |-> {f1}, max_value_wei |-> Unparsable]}

Symmetry == Permutations(MCCreates) \cup Permutations(MCUsers)

==============================================================================
