--------------------------------- MODULE Auth ---------------------------------
(***************************************************************************)
(* Identity in the server: registration and login (server/src/routes/      *)
(* auth.rs), SIWE nonces, tokens (auth_jwt.rs) and the AuthUser extractor  *)
(* that every authenticated route runs first (middleware/                  *)
(* auth_extractor.rs).                                                     *)
(*                                                                         *)
(* Users, nonces and the denylist are tables; a token is stateless and is  *)
(* nothing but its claims, so two tokens of one user issued in the same    *)
(* second are the same token.  Each statement sent to the database is an   *)
(* await, between which other calls run: the steps of a call are its       *)
(* statements and the code that runs from one to the next.  The limiter    *)
(* that login and wallet_nonce ask first is RateLimiter's subject.         *)
(***************************************************************************)
EXTENDS Naturals

CONSTANTS
    Calls,          \* requests the server works on at a time
    Emails,         \* credentials of method "email"
    Wallets,        \* addresses that sign in with SIWE
    UserIds,        \* what Uuid::new_v4 may return
    NoUser,
    Nonces,         \* what siwe::generate_nonce may return
    Ttl,            \* auth.session_ttl_seconds (3600)
    Leeway,         \* of jsonwebtoken's Validation::default (60)
    NonceTtl,       \* 300
    MaxClock        \* bound of the clock

ASSUME TimeAssumption ==
    Ttl \in Nat /\ Leeway \in Nat /\ NonceTtl \in Nat /\ MaxClock \in Nat
ASSUME NoUserAssumption == NoUser \notin UserIds

VARIABLES
    clock,          \* Utc::now() in seconds
    users,          \* users[a]  = the user registered for credential a
    nonces,         \* the rows of siwe_nonces
    denylist,       \* the tokens of token_denylist
    call,           \* call[c]   = where call c stands and what it carries
    drawn,          \* the nonces ever issued (history)
    spent,          \* spent[n]  = wallet logins that consumed nonce n (history)
    logins,         \* credential, user and time of every answered login (history)
    issued,         \* every token answered to a client (history)
    revoked         \* the tokens whose logout was answered (history)

tables  == <<users, nonces, denylist>>
history == <<drawn, spent, logins, issued, revoked>>
vars    == <<clock, tables, call, history>>

Credentials == Emails \cup Wallets
Token       == [sub : UserIds, iat : 0..MaxClock]
NonceRow    == [nonce : Nonces, expires_at : 0..(MaxClock + NonceTtl)]
Login       == [cred : Credentials, sub : UserIds, at : 0..MaxClock]

(* A call at rest, a wallet login that has not yet spent its nonce, a      *)
(* login that knows its credential, one that knows its user, and a request *)
(* with a token: for logout or for another route, and whether the logout   *)
(* of its token had been answered before the request arrived.              *)
Idle == [pc |-> "idle"]
ConsumingCall(a, n, now) == [pc |-> "consuming", cred |-> a, nonce |-> n, now |-> now]
LoginCall(pc, a)  == [pc |-> pc, cred |-> a]
IssuingCall(a, u) == [pc |-> "issuing", cred |-> a, user |-> u]
TokenCall(pc, route, token, late) ==
    [pc |-> pc, route |-> route, token |-> token, late |-> late]

Call ==
    {Idle}
    \cup [pc : {"consuming"}, cred : Wallets, nonce : Nonces, now : 0..MaxClock]
    \cup [pc : {"verifying", "selecting", "inserting"}, cred : Credentials]
    \cup [pc : {"issuing"}, cred : Credentials, user : UserIds]
    \cup [pc : {"checking", "authenticated", "revoking"}, route : {"logout", "other"},
          token : Token, late : {"late", "intime"}]

TypeOK ==
    /\ clock \in 0..MaxClock
    /\ users \in [Credentials -> UserIds \cup {NoUser}]
    /\ nonces \in SUBSET NonceRow
    /\ denylist \in SUBSET Token
    /\ call \in [Calls -> Call]
    /\ drawn \in SUBSET Nonces
    /\ spent \in [Nonces -> Nat]
    /\ logins \in SUBSET Login
    /\ issued \in SUBSET Token
    /\ revoked \in SUBSET Token

Init ==
    /\ clock = 0
    /\ users = [a \in Credentials |-> NoUser]
    /\ nonces = {} /\ denylist = {}
    /\ call = [c \in Calls |-> Idle]
    /\ drawn = {} /\ spent = [n \in Nonces |-> 0]
    /\ logins = {} /\ issued = {} /\ revoked = {}

Goes(c, to) == call' = [call EXCEPT ![c] = to]

-----------------------------------------------------------------------------
(* login                                                                   *)

(* The nonce's row; the client has the nonce before it can use it. *)
WalletNonce(n) ==
    /\ n \notin drawn
    /\ nonces' = nonces \cup {[nonce |-> n, expires_at |-> clock + NonceTtl]}
    /\ drawn' = drawn \cup {n}
    /\ UNCHANGED <<clock, users, denylist, call, spent, logins, issued, revoked>>

EmailLogin(c, a) ==
    /\ call[c] = Idle
    /\ Goes(c, LoginCall("selecting", a))
    /\ UNCHANGED <<clock, tables, history>>

(* verify_wallet_login up to the DELETE: the message may carry any nonce,  *)
(* and the same message may have been sent before.  The clock is read here.*)
WalletLogin(c, a, n) ==
    /\ call[c] = Idle
    /\ Goes(c, ConsumingCall(a, n, clock))
    /\ UNCHANGED <<clock, tables, history>>

(* Mutant: the nonce's row is looked up, and left for a later clean-up. *)
ConsumeNonce_Kept(c) ==
    /\ call[c].pc = "consuming"
    /\ \E r \in nonces :
           /\ r.nonce = call[c].nonce /\ r.expires_at > call[c].now
           /\ spent' = [spent EXCEPT ![call[c].nonce] = @ + 1]
    /\ Goes(c, LoginCall("verifying", call[c].cred))
    /\ UNCHANGED <<clock, tables, drawn, logins, issued, revoked>>

(* DELETE FROM siwe_nonces WHERE nonce = ? AND expires_at > ?, and its     *)
(* rows_affected: 1, or the login is answered 401.                         *)
ConsumeNonce(c) ==
    /\ call[c].pc = "consuming"
    /\ LET hit == {r \in nonces : r.nonce = call[c].nonce /\ r.expires_at > call[c].now}
       IN  IF hit # {}
           THEN /\ nonces' = nonces \ hit
                /\ spent' = [spent EXCEPT ![call[c].nonce] = @ + 1]
                /\ Goes(c, LoginCall("verifying", call[c].cred))
           ELSE /\ Goes(c, Idle)
                /\ UNCHANGED <<nonces, spent>>
    /\ UNCHANGED <<clock, users, denylist, drawn, logins, issued, revoked>>

(* Domain, validity and signature of the message; the nonce is gone        *)
(* whatever the verdict.                                                   *)
VerifyMessage(c) ==
    /\ call[c].pc = "verifying"
    /\ \E to \in {LoginCall("selecting", call[c].cred), Idle} : Goes(c, to)
    /\ UNCHANGED <<clock, tables, history>>

(* SELECT ... FROM users WHERE auth_credential_hash = ? *)
SelectUser(c) ==
    /\ call[c].pc = "selecting"
    /\ LET a == call[c].cred
       IN  IF users[a] = NoUser
           THEN Goes(c, LoginCall("inserting", a))
           ELSE Goes(c, IssuingCall(a, users[a]))
    /\ UNCHANGED <<clock, tables, history>>

(* Mutant: the credential's hash is not UNIQUE in the table. *)
InsertUser_Twice(c) ==
    /\ call[c].pc = "inserting"
    /\ \E u \in UserIds :
           /\ \A b \in Credentials : users[b] # u
           /\ users' = [users EXCEPT ![call[c].cred] = u]
           /\ Goes(c, IssuingCall(call[c].cred, u))
    /\ UNCHANGED <<clock, nonces, denylist, history>>

(* INSERT INTO users: refused by the UNIQUE hash (500) if another login    *)
(* of the credential was faster.                                           *)
InsertUser(c) ==
    /\ call[c].pc = "inserting"
    /\ LET a == call[c].cred
       IN  IF users[a] = NoUser
           THEN \E u \in UserIds :
                    /\ \A b \in Credentials : users[b] # u
                    /\ users' = [users EXCEPT ![a] = u]
                    /\ Goes(c, IssuingCall(a, u))
           ELSE Goes(c, Idle) /\ UNCHANGED users
    /\ UNCHANGED <<clock, nonces, denylist, history>>

(* auth_jwt::issue and the answer. *)
IssueToken(c) ==
    /\ call[c].pc = "issuing"
    /\ issued' = issued \cup {[sub |-> call[c].user, iat |-> clock]}
    /\ logins' = logins \cup
                     {[cred |-> call[c].cred, sub |-> call[c].user, at |-> clock]}
    /\ Goes(c, Idle)
    /\ UNCHANGED <<clock, tables, drawn, spent, revoked>>

-----------------------------------------------------------------------------
(* tokens                                                                  *)

(* auth_jwt::validate *)
Valid(token) == clock <= token.iat + Ttl + Leeway

(* refresh: a new token for a valid one, with no look at the denylist. *)
Refresh(token) ==
    /\ Valid(token)
    /\ issued' = issued \cup {[sub |-> token.sub, iat |-> clock]}
    /\ UNCHANGED <<clock, tables, call, drawn, spent, logins, revoked>>

(* AuthUser: validate, then the SELECT on the denylist. *)
Request(c, route, token) ==
    /\ call[c] = Idle
    /\ Valid(token)
    /\ \E late \in {"late", "intime"} :
           /\ late = "late" <=> token \in revoked
           /\ Goes(c, TokenCall("checking", route, token, late))
    /\ UNCHANGED <<clock, tables, history>>

CheckDenylist(c) ==
    /\ call[c].pc = "checking"
    /\ IF call[c].token \in denylist
       THEN Goes(c, Idle)
       ELSE Goes(c, TokenCall("authenticated", call[c].route, call[c].token, call[c].late))
    /\ UNCHANGED <<clock, tables, history>>

(* The rest of a route that is not logout. *)
Serve(c) ==
    /\ call[c].pc = "authenticated" /\ call[c].route = "other"
    /\ Goes(c, Idle)
    /\ UNCHANGED <<clock, tables, history>>

(* Mutant: the INSERT's error is swallowed. *)
Revoke_Swallowed(c) ==
    /\ call[c].pc = "authenticated" /\ call[c].route = "logout"
    /\ \E d \in {denylist, denylist \cup {call[c].token}} : denylist' = d
    /\ Goes(c, TokenCall("revoking", "logout", call[c].token, call[c].late))
    /\ UNCHANGED <<clock, users, nonces, history>>

(* logout: validate once more, then INSERT OR IGNORE INTO token_denylist. *)
Revoke(c) ==
    /\ call[c].pc = "authenticated" /\ call[c].route = "logout"
    /\ IF Valid(call[c].token)
       THEN /\ denylist' = denylist \cup {call[c].token}
            /\ Goes(c, TokenCall("revoking", "logout", call[c].token, call[c].late))
       ELSE Goes(c, Idle) /\ UNCHANGED denylist
    /\ UNCHANGED <<clock, users, nonces, history>>

(* The 204 of logout reaches the client. *)
AnswerLogout(c) ==
    /\ call[c].pc = "revoking"
    /\ revoked' = revoked \cup {call[c].token}
    /\ Goes(c, Idle)
    /\ UNCHANGED <<clock, tables, drawn, spent, logins, issued>>

-----------------------------------------------------------------------------

(* A statement fails or the client goes away: the call ends where it is.   *)
Abort(c) ==
    /\ call[c] # Idle
    /\ Goes(c, Idle)
    /\ UNCHANGED <<clock, tables, history>>

(* The process dies and is started again: the tables remain. *)
Restart ==
    /\ call' = [c \in Calls |-> Idle]
    /\ UNCHANGED <<clock, tables, history>>

Tick ==
    /\ clock < MaxClock
    /\ clock' = clock + 1
    /\ UNCHANGED <<tables, call, history>>

LoginStep(c) ==
    \/ \E a \in Emails : EmailLogin(c, a)
    \/ \E a \in Wallets, n \in Nonces : WalletLogin(c, a, n)
    \/ ConsumeNonce(c) \/ VerifyMessage(c)
    \/ SelectUser(c) \/ InsertUser(c) \/ IssueToken(c)

TokenStep(c) ==
    \/ \E route \in {"logout", "other"}, token \in issued : Request(c, route, token)
    \/ CheckDenylist(c) \/ Serve(c) \/ Revoke(c) \/ AnswerLogout(c)

Next ==
    \/ \E n \in Nonces : WalletNonce(n)
    \/ \E c \in Calls : LoginStep(c) \/ TokenStep(c) \/ Abort(c)
    \/ \E token \in issued : Refresh(token)
    \/ Restart
    \/ Tick

Spec == Init /\ [][Next]_vars

-----------------------------------------------------------------------------
(* Properties                                                              *)

(* A credential and the user it signs in as belong together for good: two  *)
(* first logins that both find no user, a lost answer and a restart leave  *)
(* nobody with two users and no user with two credentials.                 *)
IdentityStable ==
    \A l, m \in logins : l.cred = m.cred <=> l.sub = m.sub

(* A nonce lets one wallet login past its check at most, however many      *)
(* calls carry the same signed message and however they end.               *)
NonceSpentOnce == \A n \in Nonces : spent[n] <= 1

(* No request that arrives after the logout of its token was answered gets *)
(* past AuthUser, on any instance of the server started since.             *)
RevokedStaysOut ==
    \A c \in Calls : call[c].pc = "authenticated" => call[c].late = "intime"

(* However the statements of several calls fall between each other, calls  *)
(* end and the server restarts, its answers are those of a server that     *)
(* does one request after the other.                                       *)
Promise == INSTANCE AuthPromise
PromiseKept == Promise!Spec

-----------------------------------------------------------------------------
(* The inductive invariant                                                 *)

(* One user for one credential, in the table, in the calls that are about  *)
(* to answer and in the answers.                                           *)
UserInv ==
    /\ \A a, b \in Credentials : users[a] = users[b] /\ users[a] # NoUser => a = b
    /\ \A c \in Calls : call[c].pc = "issuing" => call[c].user = users[call[c].cred]
    /\ \A l \in logins : l.sub = users[l.cred]

(* A nonce has one row, from its issue to its consumption. *)
NonceInv ==
    /\ \A r \in nonces : r.nonce \in drawn /\ spent[r.nonce] = 0
    /\ \A r, s \in nonces : r.nonce = s.nonce => r = s
    /\ \A n \in Nonces \ drawn : spent[n] = 0

(* Calls carry tokens that were issued, and a logout is answered after its *)
(* token entered the denylist, which nothing leaves.                       *)
RevokeInv ==
    /\ revoked \subseteq denylist
    /\ \A c \in Calls :
           /\ call[c].pc \in {"checking", "authenticated", "revoking"}
                  => call[c].token \in issued
           /\ call[c].pc = "revoking" => call[c].token \in denylist
           /\ call[c].pc = "checking" /\ call[c].late = "late"
                  => call[c].token \in denylist

IInv == TypeOK /\ UserInv /\ NonceInv /\ NonceSpentOnce /\ RevokeInv /\ RevokedStaysOut

==============================================================================
