--------------------------- MODULE MCIntentService ---------------------------
(* Two creates race, for one user and chain or not, a session is issued    *)
(* for one of the accounts, by its owner or not, and an intent is sent     *)
(* under it, as far as the chain, while time passes and the server is      *)
(* restarted at will.  Integers have 4 bits; the lifetimes are none, one   *)
(* that fits now and overflows a second later, and one that is negative    *)
(* as an i64.  What execute never looks at, the selector and the           *)
(* operation, has one value.                                               *)
EXTENDS IntentService, TLC

CONSTANTS c1, c2, s1, e1, alice, bob, base, other, t1, t2, f1, o1

MCCreates    == {c1, c2}
MCIssues     == {s1}
MCExecutes   == {e1}
MCUsers      == {alice, bob}
MCChains     == {base, other}
MCConfigured == {base}
MCTargets    == {t1, t2}
MCSelectors  == {f1}
MCValues     == {1}
MCTtls       == {0, 7, 15}
MCScopes     == {[targets |-> {t1}, selectors |-> {f1}, max_value_wei |-> 1],
                 [targets |-> {t1}, selectors |-> {f1}, max_value_wei |-> Unparsable]}
MCOps        == {o1}
MCNonceOf    == [o \in MCOps |-> 0]

Symmetry == Permutations(MCCreates) \cup Permutations(MCUsers)

==============================================================================
