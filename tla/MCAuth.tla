-------------------------------- MODULE MCAuth --------------------------------
(* One e-mail address and one wallet, two calls at a time, four tokens. *)
EXTENDS Auth, TLC, FiniteSets

CONSTANTS c1, c2, mail, wallet, u1, u2, n1

MCCalls   == {c1, c2}
MCEmails  == {mail}
MCWallets == {wallet}
MCUserIds == {u1, u2}
MCNonces  == {n1}

(* A fifth token is checked, and nothing after it. *)
FourTokens == Cardinality(issued) <= 4

Symmetry == Permutations(MCCalls) \cup Permutations(MCUserIds)

==============================================================================
