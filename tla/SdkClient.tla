------------------------------ MODULE SdkClient ------------------------------
(***************************************************************************)
(* The HTTP client that the SDK's hooks share (sdk/src/client.ts) and the  *)
(* calls that a page has made of their asynchronous functions.  JavaScript *)
(* runs such a function from one await to the next without interruption: a *)
(* step of the Sdk modules is one of these stretches, and calls[c] says    *)
(* what call c awaits.  Between them any other function may run.           *)
(***************************************************************************)
EXTENDS Integers

CONSTANTS
    Users,       \* the users whose credentials the page may be given
    NoUser,
    LoginHooks,  \* the instances of useLogin on the page ...
    WalletHooks, \* ... and those of them that belong to a useWalletLogin
    NoHook,
    MaxCalls     \* bound: calls of asynchronous functions in a behaviour

ASSUME ClientAssumption ==
    /\ NoUser \notin Users
    /\ WalletHooks \subseteq LoginHooks
    /\ NoHook \notin LoginHooks
    /\ MaxCalls \in Nat

VARIABLES
    token,  \* the user whose token the client holds
    calls   \* calls[c] = the asynchronous function called, and what it awaits

Calls == 1..MaxCalls

Functions == {"none", "login", "connect", "createAccount", "fetchAccount",
              "createAccountFromOwner", "computeKernelAddress", "issueSessionKey",
              "registerSessionKeyOnChain", "initiateRecovery", "send"}

Points == {"idle", "accounts", "nonce", "sign", "login", "compute", "request",
           "register", "build", "post", "sleep", "poll", "returned"}

(* user: whom a login is for; elsewhere, whose token the request carries.  *)
Call(fn, hook, at, user) == [fn |-> fn, hook |-> hook, at |-> at, user |-> user]

Unused == Call("none", NoHook, "idle", NoUser)

(* What a hook's error may be: no login, no wallet, a failure of request() *)
(* (no answer, or the server's error), or a failure of the hook's own.     *)
RequestErrors == {"network_error", "refused"}
Error == {"none", "not_authenticated", "wallet_not_found", "unknown"} \cup RequestErrors

ClientTypeOK ==
    /\ token \in Users \cup {NoUser}
    /\ calls \in [Calls -> [fn : Functions, hook : LoginHooks \cup {NoHook},
                            at : Points, user : Users \cup {NoUser}]]

ClientInit ==
    /\ token = NoUser
    /\ calls = [c \in Calls |-> Unused]

isAuthenticated == token # NoUser

Live(c) == calls[c].at \notin {"idle", "returned"}

(* Calls are numbered in the order in which they are made. *)
Start(c, call) ==
    /\ calls[c].at = "idle"
    /\ \A d \in Calls : d < c => calls[d].at # "idle"
    /\ calls' = [calls EXCEPT ![c] = call]

Await(c, at, user) ==
    calls' = [calls EXCEPT ![c] = Call(calls[c].fn, calls[c].hook, at, user)]

Return(c) == Await(c, "returned", NoUser)

==============================================================================
