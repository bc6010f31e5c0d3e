----------------------------- MODULE SdkResources -----------------------------
(***************************************************************************)
(* useAccount, useSessionKey and useRecovery (sdk/src/hooks): each holds a *)
(* record that it asked the server for, a loading flag and an error.       *)
(***************************************************************************)
EXTENDS SdkClient

VARIABLES
    held,          \* the hook has its account, session key or recovery
    loading,
    resourceError

resourceVars == <<held, loading, resourceError>>

Resources == {"account", "session", "recovery"}

Fetches == {"createAccount", "fetchAccount", "issueSessionKey", "initiateRecovery"}

ResourceOf(fn) == CASE fn \in {"createAccount", "fetchAccount", "createAccountFromOwner",
                               "computeKernelAddress"} -> "account"
                    [] fn \in {"issueSessionKey", "registerSessionKeyOnChain"} -> "session"
                    [] OTHER -> "recovery"

ResourceTypeOK ==
    /\ held \in [Resources -> BOOLEAN]
    /\ loading \in [Resources -> BOOLEAN]
    /\ resourceError \in [Resources -> Error]

ResourceInit ==
    /\ held = [r \in Resources |-> FALSE]
    /\ loading = [r \in Resources |-> FALSE]
    /\ resourceError = [r \in Resources |-> "none"]

Begin(r) ==
    /\ loading' = [loading EXCEPT ![r] = TRUE]
    /\ resourceError' = [resourceError EXCEPT ![r] = "none"]
    /\ UNCHANGED <<token, held>>

Fail(r, error) ==
    /\ loading' = [loading EXCEPT ![r] = FALSE]
    /\ resourceError' = [resourceError EXCEPT ![r] = error]
    /\ UNCHANGED <<token, held>>

(* Everything but registering a key and recovery asks for a login first. *)
NotAuthenticated(r) ==
    /\ ~isAuthenticated
    /\ resourceError' = [resourceError EXCEPT ![r] = "not_authenticated"]
    /\ UNCHANGED <<token, calls, held, loading>>

(* createAccount, fetchAccount, issueSessionKey, initiateRecovery. *)
Fetch(c, fn) ==
    /\ fn # "initiateRecovery" => isAuthenticated
    /\ Start(c, Call(fn, NoHook, "request", token))
    /\ Begin(ResourceOf(fn))

(* createAccountFromOwner and registerSessionKeyOnChain first await an RPC *)
(* node; the latter, which asks for no login, then the bundler.            *)
createAccountFromOwner(c) ==
    /\ isAuthenticated
    /\ Start(c, Call("createAccountFromOwner", NoHook, "compute", NoUser))
    /\ Begin("account")

registerSessionKeyOnChain(c) ==
    /\ Start(c, Call("registerSessionKeyOnChain", NoHook, "register", NoUser))
    /\ Begin("session")

(* The address is there: the request carries the token of this moment. *)
AddressComputed(c) ==
    /\ calls[c].fn = "createAccountFromOwner" /\ calls[c].at = "compute"
    /\ Await(c, "request", token)
    /\ UNCHANGED <<token, resourceVars>>

(* Mutant: the failure leaves the hook loading. *)
ComputeFails_StillLoading(c) ==
    /\ \/ calls[c].fn = "createAccountFromOwner" /\ calls[c].at = "compute"
       \/ calls[c].fn = "registerSessionKeyOnChain" /\ calls[c].at = "register"
    /\ resourceError' = [resourceError EXCEPT ![ResourceOf(calls[c].fn)] = "unknown"]
    /\ Return(c)
    /\ UNCHANGED <<token, held, loading>>

ComputeFails(c) ==
    /\ \/ calls[c].fn = "createAccountFromOwner" /\ calls[c].at = "compute"
       \/ calls[c].fn = "registerSessionKeyOnChain" /\ calls[c].at = "register"
    /\ Fail(ResourceOf(calls[c].fn), "unknown")
    /\ Return(c)

Registered(c) ==
    /\ calls[c].fn = "registerSessionKeyOnChain" /\ calls[c].at = "register"
    /\ loading' = [loading EXCEPT !["session"] = FALSE]
    /\ Return(c)
    /\ UNCHANGED <<token, held, resourceError>>

(* The server answers: with the record only to a request with a token, but *)
(* for recovery, which needs none.                                         *)
Fetched(c) ==
    LET r == ResourceOf(calls[c].fn) IN
    /\ calls[c].at = "request"
    /\ calls[c].user # NoUser \/ r = "recovery"
    /\ held' = [held EXCEPT ![r] = TRUE]
    /\ loading' = [loading EXCEPT ![r] = FALSE]
    /\ Return(c)
    /\ UNCHANGED <<token, resourceError>>

FetchFails(c) ==
    /\ calls[c].at = "request"
    /\ \E error \in RequestErrors : Fail(ResourceOf(calls[c].fn), error)
    /\ Return(c)

(* computeKernelAddress shows an address, and touches the error only. *)
computeKernelAddress(c) ==
    /\ Start(c, Call("computeKernelAddress", NoHook, "compute", NoUser))
    /\ UNCHANGED <<token, resourceVars>>

PreviewEnds(c) ==
    /\ calls[c].fn = "computeKernelAddress" /\ calls[c].at = "compute"
    /\ \/ resourceError' = [resourceError EXCEPT !["account"] = "unknown"]
       \/ UNCHANGED resourceError
    /\ Return(c)
    /\ UNCHANGED <<token, held, loading>>

(* clearSessionKey, and useRecovery's reset. *)
Clear(r) ==
    /\ held' = [held EXCEPT ![r] = FALSE]
    /\ resourceError' = [resourceError EXCEPT ![r] = "none"]
    /\ UNCHANGED <<token, calls, loading>>

ResourceProgress(c) ==
    \/ AddressComputed(c) \/ ComputeFails(c) \/ Registered(c)
    \/ Fetched(c) \/ FetchFails(c) \/ PreviewEnds(c)

ResourceNext ==
    \/ \E r \in {"account", "session"} : NotAuthenticated(r)
    \/ \E r \in {"session", "recovery"} : Clear(r)
    \/ \E c \in Calls :
          \/ \E fn \in Fetches : Fetch(c, fn)
          \/ createAccountFromOwner(c) \/ registerSessionKeyOnChain(c)
          \/ computeKernelAddress(c)
          \/ ResourceProgress(c)

==============================================================================
