----------------------------- MODULE ReferenceApp -----------------------------
(***************************************************************************)
(* The reference application (example/src/App.tsx): a page that logs in,   *)
(* creates an account, issues a session key and sends an intent, each step *)
(* enabled by what the page holds of the one before.  The hooks are those  *)
(* of the Sdk modules, with one hook of each kind; the operation that a    *)
(* send builds is one of UserOps, where Scripts build operations for the   *)
(* same account beside the page, as sdk/tests/e2e.bundler.test.ts does.    *)
(***************************************************************************)
EXTENDS UserOps

CONSTANTS
    Users, NoUser,
    Calls,            \* the requests the page may have under way
    Sends, Scripts,   \* who builds an operation
    MaxKeys           \* bound: the session keys that the page generates

ASSUME AppAssumption ==
    /\ NoUser \notin Users
    /\ Builds = Sends \cup Scripts /\ Sends \cap Scripts = {}
    /\ MaxKeys \in Nat

VARIABLES
    authStatus, userId,            \* useLogin; the client's token is userId's
    account, accLoading,           \* useAccount: whose account it is
    sessionKey, sessLoading,       \* useSessionKey: the key and its account
    privKey,                       \* the page's own
    intentStatus,                  \* useSendIntent
    calls,                         \* the requests under way
    keys,                          \* the number of keys generated
    overlapped                     \* two issues were under way at once (not in the code)

loginVars == <<authStatus, userId>>
accountVars == <<account, accLoading>>
sessionVars == <<sessionKey, sessLoading, privKey, keys, overlapped>>
vars == <<loginVars, accountVars, sessionVars, intentStatus, calls, opVars>>

NoKey == 0
NoSession == [key |-> NoKey, account |-> NoUser]

Call(fn, user, key, acc) == [fn |-> fn, user |-> user, key |-> key, account |-> acc]
Idle == Call("idle", NoUser, NoKey, NoUser)

UserOrNone == Users \cup {NoUser}

AppTypeOK ==
    /\ OpsTypeOK
    /\ authStatus \in {"idle", "loading", "authenticated", "error"}
    /\ userId \in UserOrNone /\ account \in UserOrNone
    /\ accLoading \in BOOLEAN /\ sessLoading \in BOOLEAN /\ overlapped \in BOOLEAN
    /\ keys \in 0..MaxKeys /\ privKey \in 0..keys
    /\ sessionKey \in [key : 0..keys, account : UserOrNone]
    /\ intentStatus \in {"null", "pending"}
    /\ calls \in [Calls -> [fn : {"idle", "login", "create", "generate", "issue"},
                            user : UserOrNone, key : 0..keys, account : UserOrNone]]

Init ==
    /\ OpsInit
    /\ authStatus = "idle" /\ userId = NoUser
    /\ account = NoUser /\ accLoading = FALSE
    /\ sessionKey = NoSession /\ sessLoading = FALSE
    /\ privKey = NoKey /\ keys = 0 /\ overlapped = FALSE
    /\ intentStatus = "null"
    /\ calls = [c \in Calls |-> Idle]

step1Done == authStatus = "authenticated"
step2Done == account # NoUser
step3Done == sessionKey # NoSession

Start(c, call) == calls[c] = Idle /\ calls' = [calls EXCEPT ![c] = call]
Return(c) == calls' = [calls EXCEPT ![c] = Idle]

-----------------------------------------------------------------------------
(* Steps 1 and 2: login and account                                        *)

handleLogin(c, u) ==
    /\ ~step1Done
    /\ Start(c, Call("login", u, NoKey, NoUser))
    /\ authStatus' = "loading"
    /\ UNCHANGED <<userId, accountVars, sessionVars, intentStatus, opVars>>

LoginAnswered(c) ==
    /\ calls[c].fn = "login" /\ Return(c)
    /\ \/ authStatus' = "authenticated" /\ userId' = calls[c].user
       \/ authStatus' = "error" /\ UNCHANGED userId
    /\ UNCHANGED <<accountVars, sessionVars, intentStatus, opVars>>

logout ==
    /\ step1Done
    /\ authStatus' = "idle" /\ userId' = NoUser
    /\ UNCHANGED <<accountVars, sessionVars, intentStatus, calls, opVars>>

(* Mutant: the button is not hidden by the account there is. *)
handleCreateAccount_Again(c) ==
    /\ step1Done /\ ~accLoading
    /\ Start(c, Call("create", userId, NoKey, NoUser))
    /\ accLoading' = TRUE
    /\ UNCHANGED <<account, loginVars, sessionVars, intentStatus, opVars>>

(* Mutant: the button stays enabled while the account is created. *)
handleCreateAccount_Twice(c) ==
    /\ ~step2Done /\ step1Done
    /\ Start(c, Call("create", userId, NoKey, NoUser))
    /\ accLoading' = TRUE
    /\ UNCHANGED <<account, loginVars, sessionVars, intentStatus, opVars>>

handleCreateAccount(c) ==
    /\ ~step2Done /\ step1Done /\ ~accLoading
    /\ Start(c, Call("create", userId, NoKey, NoUser))
    /\ accLoading' = TRUE
    /\ UNCHANGED <<account, loginVars, sessionVars, intentStatus, opVars>>

AccountAnswered(c) ==
    /\ calls[c].fn = "create" /\ Return(c)
    /\ accLoading' = FALSE
    /\ account' \in {account, calls[c].user}
    /\ UNCHANGED <<loginVars, sessionVars, intentStatus, opVars>>

-----------------------------------------------------------------------------
(* Step 3: the session key                                                 *)

Issuing == \E c \in Calls : calls[c].fn \in {"generate", "issue"}

(* The button stays enabled while the key is generated: a second click     *)
(* generates another.                                                      *)
handleIssueSessionKey(c) ==
    /\ ~step3Done /\ step2Done /\ ~sessLoading
    /\ keys < MaxKeys /\ keys' = keys + 1
    /\ Start(c, Call("generate", NoUser, keys + 1, account))
    /\ overlapped' = (overlapped \/ Issuing)
    /\ UNCHANGED <<sessionKey, sessLoading, privKey, loginVars, accountVars, intentStatus, opVars>>

(* Mutant: the hook is loading before it has looked for a login. *)
generateSessionKey_LoadingFirst(c) ==
    /\ calls[c].fn = "generate"
    /\ privKey' = calls[c].key
    /\ IF userId = NoUser THEN Return(c)
       ELSE calls' = [calls EXCEPT ![c] = Call("issue", userId, @.key, @.account)]
    /\ sessLoading' = TRUE
    /\ UNCHANGED <<sessionKey, keys, overlapped, loginVars, accountVars, intentStatus, opVars>>

(* The private key is on the page before the server is asked, and stays    *)
(* there if it refuses, or if nobody is logged in any more.                *)
generateSessionKey(c) ==
    /\ calls[c].fn = "generate"
    /\ privKey' = calls[c].key
    /\ IF userId = NoUser
       THEN Return(c) /\ UNCHANGED sessLoading
       ELSE /\ calls' = [calls EXCEPT ![c] = Call("issue", userId, @.key, @.account)]
            /\ sessLoading' = TRUE
    /\ UNCHANGED <<sessionKey, keys, overlapped, loginVars, accountVars, intentStatus, opVars>>

(* The server issues keys for the accounts of the user who asks. *)
SessionIssued(c) ==
    /\ calls[c].fn = "issue" /\ calls[c].user = calls[c].account
    /\ sessionKey' = [key |-> calls[c].key, account |-> calls[c].account]
    /\ sessLoading' = FALSE
    /\ Return(c)
    /\ UNCHANGED <<privKey, keys, overlapped, loginVars, accountVars, intentStatus, opVars>>

IssueFails(c) ==
    /\ calls[c].fn = "issue"
    /\ sessLoading' = FALSE
    /\ Return(c)
    /\ UNCHANGED <<sessionKey, privKey, keys, overlapped, loginVars, accountVars, intentStatus, opVars>>

-----------------------------------------------------------------------------
(* Step 4: the intent                                                      *)

(* The key that the page generates is written without a prefix.           *)
toHex == "bare"

ShowIntent(status) ==
    /\ intentStatus' = status
    /\ UNCHANGED <<loginVars, accountVars, sessionVars, calls>>

handleSendIntent(b) ==
    /\ step3Done /\ intentStatus # "pending"
    /\ IF userId = NoUser
       THEN ShowIntent("null") /\ UNCHANGED opVars
       ELSE /\ buildUserOperation(b, toHex, "baseSepolia")
            /\ ShowIntent("pending")

(* What follows a signed operation is SdkSendIntent's. *)
SendBuilds(b) ==
    /\ Build(b)
    /\ IF op'[b].at = "failed" THEN ShowIntent("null")
       ELSE UNCHANGED <<loginVars, accountVars, sessionVars, intentStatus, calls>>

-----------------------------------------------------------------------------

ScriptStep(b) ==
    /\ \/ \E chain \in {"baseSepolia", "unknown"} : buildUserOperation(b, "0x", chain)
       \/ Build(b) \/ Include(b) \/ Drop(b)
    /\ UNCHANGED <<loginVars, accountVars, sessionVars, intentStatus, calls>>

CallProgress(c) ==
    \/ LoginAnswered(c) \/ AccountAnswered(c)
    \/ generateSessionKey(c) \/ SessionIssued(c) \/ IssueFails(c)

Next ==
    \/ logout
    \/ \E c \in Calls :
          \/ \E u \in Users : handleLogin(c, u)
          \/ handleCreateAccount(c) \/ handleIssueSessionKey(c) \/ CallProgress(c)
    \/ \E b \in Sends : handleSendIntent(b) \/ SendBuilds(b)
    \/ \E b \in Scripts : ScriptStep(b)

(* A request is answered or fails, in the end by the browser's own doing. *)
Spec ==
    /\ Init /\ [][Next]_vars
    /\ \A c \in Calls : WF_vars(CallProgress(c))
    /\ \A b \in Sends : WF_vars(SendBuilds(b))

-----------------------------------------------------------------------------

(* The session is one of the account that the page shows, whoever has      *)
(* logged in since either was granted, and the private key on the page is  *)
(* the session's, however many issues were refused before it was granted,  *)
(* unless two issues were under way at once: the page sets the key of one  *)
(* before the server has granted the other (App.tsx: steps 2 and 3,        *)
(* handleIssueSessionKey).                                                 *)
SessionIsThePages ==
    step3Done => /\ sessionKey.account = account
                 /\ ~overlapped => privKey = sessionKey.key

(* A button that is busy comes back, so that the user can try again, if no *)
(* request hangs for ever (useAccount.ts, useSessionKey.ts and             *)
(* useSendIntent.ts: every return, as App.tsx uses them).                  *)
ButtonsComeBack ==
    /\ accLoading ~> ~accLoading
    /\ sessLoading ~> ~sessLoading
    /\ intentStatus = "pending" ~> intentStatus # "pending"

(* A send fails only if one of its requests has: example/README.md says    *)
(* that the page shows "the full flow", with an intent that is "routed     *)
(* through Pimlico bundler".                                               *)
SendFailsForCause == \A b \in Sends : op[b].at = "failed" => op[b].blamed

(* What holds in every state: the types; whoever is logged in has a user;  *)
(* a flag that is up belongs to a call or a build under way, and no two    *)
(* calls create an account (App.tsx: the buttons' disabled).               *)
AppIInv ==
    /\ AppTypeOK
    /\ step1Done => userId # NoUser
    /\ accLoading <=> \E c \in Calls : calls[c].fn = "create"
    /\ \A c, d \in Calls : calls[c].fn = "create" /\ calls[d].fn = "create" => c = d
    /\ sessLoading => \E c \in Calls : calls[c].fn = "issue"
    /\ \A b \in Sends : op[b].at \in {"nonce", "sponsor"} => intentStatus = "pending"

==============================================================================
