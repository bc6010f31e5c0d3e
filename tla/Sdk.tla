---------------------------------- MODULE Sdk ----------------------------------
(***************************************************************************)
(* A page with all the hooks of the SDK under one provider: they meet in   *)
(* the client's token, which a login or a logout may change while a call   *)
(* of any other hook waits for an answer.                                  *)
(***************************************************************************)
EXTENDS SdkLogin, SdkResources, SdkSendIntent

vars == <<token, calls, loginVars, resourceVars, sendVars>>

SdkTypeOK == ClientTypeOK /\ LoginTypeOK /\ ResourceTypeOK /\ SendTypeOK

Init == ClientInit /\ LoginInit /\ ResourceInit /\ SendInit

Next ==
    \/ LoginNext /\ UNCHANGED <<resourceVars, sendVars>>
    \/ ResourceNext /\ UNCHANGED <<loginVars, sendVars>>
    \/ SendNext /\ UNCHANGED <<loginVars, resourceVars>>

Spec == Init /\ [][Next]_vars

(* Timers fire, and each request is answered or fails: the browser ends    *)
(* one that is not, and no handler of the server waits for the chain.      *)
(* Nobody has to answer the prompts of a wallet.                           *)
Progress(c) ==
    \/ LoginProgress(c) /\ UNCHANGED <<resourceVars, sendVars>>
    \/ ResourceProgress(c) /\ UNCHANGED <<loginVars, sendVars>>
    \/ SendProgress(c) /\ UNCHANGED <<loginVars, resourceVars>>

FairSpec == Spec /\ \A c \in Calls : WF_vars(Progress(c))

-----------------------------------------------------------------------------

LoginUnderway(h) == \E c \in Calls : calls[c].at = "login" /\ calls[c].hook = h

FetchUnderway(r) ==
    \E c \in Calls :
       /\ calls[c].at \in {"compute", "register", "request"}
       /\ calls[c].fn # "computeKernelAddress"
       /\ ResourceOf(calls[c].fn) = r

SendUnderway == \E c \in Calls : Live(c) /\ calls[c].fn = "send"

LoginSettled ==
    \A h \in LoginHooks : loginStatus[h] = "loading" => LoginUnderway(h)
FetchSettled ==
    \A r \in Resources : loading[r] => FetchUnderway(r)
SendSettled ==
    intentStatus \in {"pending", "submitted"} /\ sendError = "none" => SendUnderway

(* A hook that shows that something is under way has a call under way:     *)
(* 'loading' ends with the last call, and when a send gives up, its status *)
(* is gone or an error is beside it (useLogin.ts, useAccount.ts,           *)
(* useSessionKey.ts, useRecovery.ts, useSendIntent.ts: every return).      *)
NothingLeftHanging == LoginSettled /\ FetchSettled /\ SendSettled

(* What a call awaits tells whose hook it is of and what it has got.       *)
CallsConsistent ==
    \A c \in Calls :
       /\ calls[c].at \in {"accounts", "nonce", "sign"} => calls[c].hook \in WalletHooks
       /\ calls[c].at = "login" => calls[c].hook \in LoginHooks
       /\ calls[c].at \in {"nonce", "sign", "login"} => calls[c].user \in Users
       /\ calls[c].at \in {"build", "post", "sleep", "poll"}
            <=> Live(c) /\ calls[c].fn = "send"

(* An intent that has an owner has a record. *)
OwnedIsThere == \A c \in Calls : owner[c] # NoUser => record[c].status # "absent"

(* A send sleeps only if its time is not over. *)
TimeIsLeft ==
    \A c \in Calls :
       /\ calls[c].at \in {"idle", "build", "post"} => elapsed[c] = 0
       /\ calls[c].at = "sleep" => elapsed[c] < PollBudget

(* The inductive invariant: types, calls, and what hangs on them.          *)
IInv ==
    /\ SdkTypeOK /\ CallsConsistent /\ OwnedIsThere /\ TimeIsLeft
    /\ NothingLeftHanging

(* Every call returns, a send at the latest when its time is over, however *)
(* long the server keeps its intent open; but a call of connect whose      *)
(* prompt nobody answers (useSendIntent.ts: pollUntilSettled).             *)
CallsReturn ==
    \A c \in Calls : Live(c) /\ calls[c].fn # "connect" ~> ~Live(c)

==============================================================================
