------------------------------- MODULE SdkLogin -------------------------------
(***************************************************************************)
(* useLogin and useWalletLogin (sdk/src/hooks).  Each instance of useLogin *)
(* has a state of its own, useWalletLogin has an instance of it inside;    *)
(* all of them set and clear the token of the one client.                  *)
(***************************************************************************)
EXTENDS SdkClient

VARIABLES
    loginStatus, userId, loginError,  \* the state of each useLogin
    address, connectError             \* the state of each useWalletLogin

loginVars == <<loginStatus, userId, loginError, address, connectError>>

LoginTypeOK ==
    /\ loginStatus \in [LoginHooks -> {"idle", "loading", "authenticated", "error"}]
    /\ userId \in [LoginHooks -> Users \cup {NoUser}]
    /\ loginError \in [LoginHooks -> Error]
    /\ address \in [WalletHooks -> Users \cup {NoUser}]
    /\ connectError \in [WalletHooks -> Error]

LoginInit ==
    /\ loginStatus = [h \in LoginHooks |-> "idle"]
    /\ userId = [h \in LoginHooks |-> NoUser]
    /\ loginError = [h \in LoginHooks |-> "none"]
    /\ address = [w \in WalletHooks |-> NoUser]
    /\ connectError = [w \in WalletHooks |-> "none"]

-----------------------------------------------------------------------------
(* useLogin                                                                *)

BeginLogin(h) ==
    /\ loginStatus' = [loginStatus EXCEPT ![h] = "loading"]
    /\ loginError' = [loginError EXCEPT ![h] = "none"]

(* login: with an email address. *)
login(c, h, user) ==
    /\ Start(c, Call("login", h, "login", user))
    /\ BeginLogin(h)
    /\ UNCHANGED <<token, userId, address, connectError>>

(* The rest of login, for an email address or for a wallet. *)
LoginGranted(c) ==
    LET h == calls[c].hook IN
    /\ calls[c].at = "login"
    /\ token' = calls[c].user
    /\ userId' = [userId EXCEPT ![h] = calls[c].user]
    /\ loginStatus' = [loginStatus EXCEPT ![h] = "authenticated"]
    /\ Return(c)
    /\ UNCHANGED <<loginError, address, connectError>>

LoginRefused(c) ==
    LET h == calls[c].hook IN
    /\ calls[c].at = "login"
    /\ \E error \in RequestErrors : loginError' = [loginError EXCEPT ![h] = error]
    /\ loginStatus' = [loginStatus EXCEPT ![h] = "error"]
    /\ Return(c)
    /\ UNCHANGED <<token, userId, address, connectError>>

(* Mutant: the hook forgets its user, the client keeps the token. *)
logout_TokenKept(h) ==
    /\ userId' = [userId EXCEPT ![h] = NoUser]
    /\ loginStatus' = [loginStatus EXCEPT ![h] = "idle"]
    /\ loginError' = [loginError EXCEPT ![h] = "none"]
    /\ UNCHANGED <<token, calls, address, connectError>>

(* useWalletLogin does not hand out the logout of its instance. *)
logout(h) ==
    /\ token' = NoUser
    /\ userId' = [userId EXCEPT ![h] = NoUser]
    /\ loginStatus' = [loginStatus EXCEPT ![h] = "idle"]
    /\ loginError' = [loginError EXCEPT ![h] = "none"]
    /\ UNCHANGED <<calls, address, connectError>>

-----------------------------------------------------------------------------
(* useWalletLogin                                                          *)

(* There is no injected wallet. *)
NoWallet(w) ==
    /\ connectError' = [connectError EXCEPT ![w] = "wallet_not_found"]
    /\ UNCHANGED <<token, calls, loginStatus, userId, loginError, address>>

connect(c, w) ==
    /\ Start(c, Call("connect", w, "accounts", NoUser))
    /\ connectError' = [connectError EXCEPT ![w] = "none"]
    /\ UNCHANGED <<token, loginStatus, userId, loginError, address>>

AccountsGiven(c, user) ==
    /\ calls[c].at = "accounts"
    /\ address' = [address EXCEPT ![calls[c].hook] = user]
    /\ Await(c, "nonce", user)
    /\ UNCHANGED <<token, loginStatus, userId, loginError, connectError>>

NonceGiven(c) ==
    /\ calls[c].at = "nonce"
    /\ Await(c, "sign", calls[c].user)
    /\ UNCHANGED <<token, loginVars>>

(* The wallet has signed the message: login goes on as with an email. *)
MessageSigned(c) ==
    /\ calls[c].at = "sign"
    /\ BeginLogin(calls[c].hook)
    /\ Await(c, "login", calls[c].user)
    /\ UNCHANGED <<token, userId, address, connectError>>

(* No account, no nonce, or the user turns a prompt of the wallet down. *)
ConnectFails(c) ==
    /\ calls[c].at \in {"accounts", "nonce", "sign"}
    /\ \E error \in IF calls[c].at = "nonce" THEN RequestErrors ELSE {"wallet_not_found"} :
            connectError' = [connectError EXCEPT ![calls[c].hook] = error]
    /\ Return(c)
    /\ UNCHANGED <<token, loginStatus, userId, loginError, address>>

-----------------------------------------------------------------------------

(* The server's answers, which are not the user's to give. *)
LoginProgress(c) == LoginGranted(c) \/ LoginRefused(c)

LoginNext ==
    \/ \E h \in LoginHooks \ WalletHooks :
          \/ logout(h)
          \/ \E c \in Calls, user \in Users : login(c, h, user)
    \/ \E w \in WalletHooks : NoWallet(w) \/ \E c \in Calls : connect(c, w)
    \/ \E c \in Calls :
          \/ LoginProgress(c)
          \/ \E user \in Users : AccountsGiven(c, user)
          \/ NonceGiven(c) \/ MessageSigned(c) \/ ConnectFails(c)

(* The client never sends requests in the name of a user whom no login     *)
(* hook of the page shows, whatever logins and logouts overlap (client.ts: *)
(* setToken, clearToken; useLogin.ts: login, logout).                      *)
NoHiddenToken == isAuthenticated => \E h \in LoginHooks : userId[h] = token

(* docs/sdk/hooks.md: a hook whose status is 'authenticated' is logged in, *)
(* and all hooks share state within a single provider.                     *)
AuthenticatedHasToken ==
    \A h \in LoginHooks : loginStatus[h] = "authenticated" => isAuthenticated

==============================================================================
