--------------------------- MODULE MCIntentPipeline ---------------------------
(* Two calls of execute, two operations signed with the same account nonce *)
(* (two sends raced in one client); which call carries which is left open, *)
(* so both may also carry the same one.                                    *)
EXTENDS IntentPipeline

CONSTANTS i1, i2, o1, o2

MCIntents == {i1, i2}
MCOps     == {o1, o2}
MCNonceOf == [o \in MCOps |-> 0]

==============================================================================
