------------------------------ MODULE AuthPromise ------------------------------
(***************************************************************************)
(* What the server promises to the clients of server/src/routes/auth.rs,   *)
(* in terms of what they send and are answered: as if every request were   *)
(* done at once, by a server that remembers its answers and forgets none   *)
(* in a restart.  Auth implements it.                                      *)
(***************************************************************************)
EXTENDS Naturals

CONSTANTS Credentials, UserIds, Nonces, Ttl, Leeway

VARIABLES
    clock,
    drawn,      \* the nonces answered to clients
    spent,      \* spent[n] = how often nonce n was good for a wallet's message
    logins,     \* who signed in, when, and the user each was told to be
    issued,     \* the tokens answered
    revoked     \* the tokens whose logout was answered

vars == <<clock, drawn, spent, logins, issued, revoked>>

Token(u) == [sub |-> u, iat |-> clock]

Init ==
    /\ clock = 0
    /\ drawn = {} /\ spent = [n \in Nonces |-> 0]
    /\ logins = {} /\ issued = {} /\ revoked = {}

(* A nonce is answered once ... *)
WalletNonce(n) ==
    /\ n \notin drawn
    /\ drawn' = drawn \cup {n}
    /\ UNCHANGED <<clock, spent, logins, issued, revoked>>

(* ... and is good for one message. *)
ConsumeNonce(n) ==
    /\ n \in drawn /\ spent[n] = 0
    /\ spent' = [spent EXCEPT ![n] = 1]
    /\ UNCHANGED <<clock, drawn, logins, issued, revoked>>

(* Who has signed in before is told the same, and nobody else is told it.  *)
Login(a, u) ==
    /\ \A l \in logins : l.cred = a <=> l.sub = u
    /\ logins' = logins \cup {[cred |-> a, sub |-> u, at |-> clock]}
    /\ issued' = issued \cup {Token(u)}
    /\ UNCHANGED <<clock, drawn, spent, revoked>>

(* A token that has not expired gets its user another. *)
Refresh(token) ==
    /\ token \in issued /\ clock <= token.iat + Ttl + Leeway
    /\ issued' = issued \cup {Token(token.sub)}
    /\ UNCHANGED <<clock, drawn, spent, logins, revoked>>

Logout(token) ==
    /\ token \in issued
    /\ revoked' = revoked \cup {token}
    /\ UNCHANGED <<clock, drawn, spent, logins, issued>>

Tick ==
    /\ clock' = clock + 1
    /\ UNCHANGED <<drawn, spent, logins, issued, revoked>>

Next ==
    \/ \E n \in Nonces : WalletNonce(n) \/ ConsumeNonce(n)
    \/ \E a \in Credentials, u \in UserIds : Login(a, u)
    \/ \E token \in issued : Refresh(token) \/ Logout(token)
    \/ Tick

Spec == Init /\ [][Next]_vars

(* A token was answered to a login, or for one that had not expired: who   *)
(* is silent for longer than a token lives has to sign in again.           *)
TokensHaveLogins ==
    \A token \in issued :
        \/ \E l \in logins : l.sub = token.sub /\ l.at = token.iat
        \/ \E old \in issued : /\ old.sub = token.sub /\ old.iat < token.iat
                               /\ token.iat <= old.iat + Ttl + Leeway

(* Tokens are of the past. *)
Dated == clock \in Nat /\ issued \in SUBSET [sub : UserIds, iat : 0..clock]

==============================================================================
