------------------------------ MODULE MCEndToEnd ------------------------------
(* A page with one useLogin and one useWalletLogin, and two users, makes   *)
(* two calls, of which the second may be a send: the first is its login.   *)
EXTENDS EndToEnd, TLC

CONSTANTS alice, bob, page, wallet, o1

MCUsers       == {alice, bob}
MCLoginHooks  == {page, wallet}
MCWalletHooks == {wallet}
MCOps         == {o1}
MCNonceOf     == [o \in MCOps |-> 0]

==============================================================================
