------------------------------ MODULE AuthProofs ------------------------------
(***************************************************************************)
(* Auth for any number of calls, credentials, users and nonces.            *)
(***************************************************************************)
EXTENDS Auth, TLAPS

(* What a call may carry is a call, and its fields are what they look like.*)
LEMMA CallTypes ==
    /\ Idle \in Call
    /\ \A a \in Wallets, n \in Nonces, now \in 0..MaxClock : ConsumingCall(a, n, now) \in Call
    /\ \A pc \in {"verifying", "selecting", "inserting"}, a \in Credentials :
           LoginCall(pc, a) \in Call
    /\ \A a \in Credentials, u \in UserIds : IssuingCall(a, u) \in Call
    /\ \A pc \in {"checking", "authenticated", "revoking"}, route \in {"logout", "other"},
          token \in Token, late \in {"late", "intime"} :
           TokenCall(pc, route, token, late) \in Call
BY DEF Call, Idle, ConsumingCall, LoginCall, IssuingCall, TokenCall

LEMMA CallFields ==
    ASSUME NEW k \in Call
    PROVE  /\ k.pc = "consuming" =>
                  k.cred \in Credentials /\ k.nonce \in Nonces /\ k.now \in 0..MaxClock
           /\ k.pc \in {"verifying", "selecting", "inserting"} => k.cred \in Credentials
           /\ k.pc = "issuing" => k.cred \in Credentials /\ k.user \in UserIds
           /\ k.pc \in {"checking", "authenticated", "revoking"} =>
                  /\ k.route \in {"logout", "other"} /\ k.token \in Token
                  /\ k.late \in {"late", "intime"}
BY DEF Call, Idle, Credentials

(* The fields of the calls that the steps build. *)
LEMMA Fields ==
    /\ Idle.pc = "idle"
    /\ \A a, n, now : ConsumingCall(a, n, now).pc = "consuming"
    /\ \A pc, a : LoginCall(pc, a).pc = pc
    /\ \A a, u : /\ IssuingCall(a, u).pc = "issuing"
                 /\ IssuingCall(a, u).cred = a /\ IssuingCall(a, u).user = u
    /\ \A pc, route, token, late :
           /\ TokenCall(pc, route, token, late).pc = pc
           /\ TokenCall(pc, route, token, late).token = token
           /\ TokenCall(pc, route, token, late).late = late
BY DEF Idle, ConsumingCall, LoginCall, IssuingCall, TokenCall

LEMMA IInvInit == Init => IInv
<1> SUFFICES ASSUME Init PROVE IInv
  OBVIOUS
<1>1. TypeOK
  BY CallTypes, TimeAssumption DEF Init, TypeOK
<1>2. UserInv
  BY Fields DEF Init, UserInv
<1>3. NonceInv /\ NonceSpentOnce
  BY DEF Init, NonceInv, NonceSpentOnce
<1>4. RevokeInv /\ RevokedStaysOut
  BY Fields DEF Init, RevokeInv, RevokedStaysOut
<1> QED BY <1>1, <1>2, <1>3, <1>4 DEF IInv

-----------------------------------------------------------------------------
(* Two general steps                                                       *)

(* A step that moves one call, to a place that claims nothing about the    *)
(* tables, and changes neither tables nor history.                         *)
LEMMA MoveStep ==
    ASSUME IInv, NEW c \in Calls, NEW k \in Call, Goes(c, k),
           k.pc = "issuing" => k.user = users[k.cred],
           k.pc \in {"checking", "authenticated", "revoking"} =>
               /\ k.token \in issued
               /\ k.late = "late" => k.token \in denylist
               /\ k.pc = "authenticated" => k.late = "intime"
               /\ k.pc = "revoking" => k.token \in denylist,
           UNCHANGED <<clock, tables, history>>
    PROVE  IInv'
<1> USE DEF tables, history, Goes
<1>1. TypeOK'
  BY DEF IInv, TypeOK
<1>2. \A d \in Calls : call'[d] = IF d = c THEN k ELSE call[d]
  BY DEF IInv, TypeOK
<1>3. UserInv'
  BY <1>2 DEF IInv, UserInv
<1>4. NonceInv' /\ NonceSpentOnce'
  BY DEF IInv, NonceInv, NonceSpentOnce
<1>5. RevokeInv' /\ RevokedStaysOut'
  BY <1>2 DEF IInv, RevokeInv, RevokedStaysOut
<1> QED BY <1>1, <1>3, <1>4, <1>5 DEF IInv

(* The end of a call, whatever it has changed. *)
LEMMA IdleStep ==
    ASSUME IInv, NEW c \in Calls, Goes(c, Idle), UNCHANGED <<clock, tables, history>>
    PROVE  IInv'
BY MoveStep, CallTypes, Fields

-----------------------------------------------------------------------------
(* Logins                                                                  *)

LEMMA WalletNonceStep ==
    ASSUME IInv, NEW n \in Nonces, WalletNonce(n) PROVE IInv'
<1> USE TimeAssumption DEF WalletNonce
<1>1. [nonce |-> n, expires_at |-> clock + NonceTtl] \in NonceRow
  BY DEF IInv, TypeOK, NonceRow
<1>2. TypeOK'
  BY <1>1 DEF IInv, TypeOK
<1>3. UserInv'
  BY DEF IInv, UserInv
<1>4. NonceInv' /\ NonceSpentOnce'
  BY DEF IInv, NonceInv, NonceSpentOnce
<1>5. RevokeInv' /\ RevokedStaysOut'
  BY DEF IInv, RevokeInv, RevokedStaysOut
<1> QED BY <1>2, <1>3, <1>4, <1>5 DEF IInv

LEMMA ConsumeStep ==
    ASSUME IInv, NEW c \in Calls, ConsumeNonce(c) PROVE IInv'
<1> DEFINE hit == {r \in nonces : r.nonce = call[c].nonce /\ r.expires_at > call[c].now}
<1>1. call[c] \in Call /\ call[c].pc = "consuming"
  BY DEF IInv, TypeOK, ConsumeNonce
<1>2. call[c].cred \in Credentials /\ call[c].nonce \in Nonces
  BY <1>1, CallFields
<1>3. CASE hit = {}
  <2>1. Goes(c, Idle) /\ UNCHANGED <<clock, tables, history>>
    BY <1>3 DEF ConsumeNonce, tables, history
  <2> QED BY <2>1, IdleStep
<1>4. CASE hit # {}
  <2>1. /\ nonces' = nonces \ hit
        /\ spent' = [spent EXCEPT ![call[c].nonce] = @ + 1]
        /\ Goes(c, LoginCall("verifying", call[c].cred))
        /\ UNCHANGED <<clock, users, denylist, drawn, logins, issued, revoked>>
    BY <1>4 DEF ConsumeNonce
  <2>2. PICK r \in nonces : r \in hit
    BY <1>4
  <2>3. /\ r.nonce = call[c].nonce /\ spent[call[c].nonce] = 0 /\ call[c].nonce \in drawn
        /\ \A s \in nonces \ hit : s.nonce # call[c].nonce
    BY <2>2 DEF IInv, NonceInv
  <2>4. spent' = [spent EXCEPT ![call[c].nonce] = 1]
    BY <1>2, <2>1, <2>3 DEF IInv, TypeOK
  <2>5. LoginCall("verifying", call[c].cred) \in Call
    BY <1>2, CallTypes
  <2>6. \A d \in Calls : call'[d] = IF d = c THEN LoginCall("verifying", call[c].cred) ELSE call[d]
    BY <2>1 DEF IInv, TypeOK, Goes
  <2>7. TypeOK'
    BY <1>2, <2>1, <2>4, <2>5 DEF IInv, TypeOK, Goes
  <2>8. UserInv'
    BY <2>1, <2>6, Fields DEF IInv, UserInv
  <2>9. NonceInv' /\ NonceSpentOnce'
    BY <1>2, <2>1, <2>3, <2>4 DEF IInv, TypeOK, NonceInv, NonceSpentOnce
  <2>10. RevokeInv' /\ RevokedStaysOut'
    BY <2>1, <2>6, Fields DEF IInv, RevokeInv, RevokedStaysOut
  <2> QED BY <2>7, <2>8, <2>9, <2>10 DEF IInv
<1> QED BY <1>3, <1>4

LEMMA InsertStep ==
    ASSUME IInv, NEW c \in Calls, InsertUser(c) PROVE IInv'
<1>1. call[c] \in Call /\ call[c].pc = "inserting"
  BY DEF IInv, TypeOK, InsertUser
<1>2. call[c].cred \in Credentials
  BY <1>1, CallFields
<1>3. CASE users[call[c].cred] # NoUser
  <2>1. Goes(c, Idle) /\ UNCHANGED <<clock, tables, history>>
    BY <1>3 DEF InsertUser, tables, history
  <2> QED BY <2>1, IdleStep
<1>4. CASE users[call[c].cred] = NoUser
  <2>1. PICK u \in UserIds :
           /\ \A b \in Credentials : users[b] # u
           /\ users' = [users EXCEPT ![call[c].cred] = u]
           /\ Goes(c, IssuingCall(call[c].cred, u))
    BY <1>4 DEF InsertUser
  <2>2. UNCHANGED <<clock, nonces, denylist, history>>
    BY DEF InsertUser
  <2>3. IssuingCall(call[c].cred, u) \in Call
    BY <1>2, CallTypes
  <2>4. \A d \in Calls : call'[d] = IF d = c THEN IssuingCall(call[c].cred, u) ELSE call[d]
    BY <2>1 DEF IInv, TypeOK, Goes
  <2>5. \A b \in Credentials : users'[b] = IF b = call[c].cred THEN u ELSE users[b]
    BY <2>1 DEF IInv, TypeOK
  <2>6. TypeOK'
    BY <1>2, <2>1, <2>2, <2>3 DEF IInv, TypeOK, Goes, history
  <2>7. UserInv'
    <3>1. \A a, b \in Credentials : users'[a] = users'[b] /\ users'[a] # NoUser => a = b
      BY <2>1, <2>5 DEF IInv, UserInv
    <3>2. \A d \in Calls : call'[d].pc = "issuing" => call'[d].user = users'[call'[d].cred]
      <4> SUFFICES ASSUME NEW d \in Calls, d # c, call[d].pc = "issuing"
                   PROVE  call[d].user = users'[call[d].cred]
        BY <1>2, <2>4, <2>5, Fields
      <4>1. call[d].cred \in Credentials /\ call[d].user \in UserIds
        BY CallFields DEF IInv, TypeOK
      <4>2. call[d].user = users[call[d].cred]
        BY DEF IInv, UserInv
      <4> QED BY <1>4, <2>5, <4>1, <4>2, NoUserAssumption
    <3>3. \A l \in logins' : l.sub = users'[l.cred]
      <4> SUFFICES ASSUME NEW l \in logins PROVE l.sub = users'[l.cred]
        BY <2>2 DEF history
      <4>1. l.cred \in Credentials /\ l.sub \in UserIds /\ l.sub = users[l.cred]
        BY DEF IInv, TypeOK, Login, UserInv
      <4> QED BY <1>4, <2>5, <4>1, NoUserAssumption
    <3> QED BY <3>1, <3>2, <3>3 DEF UserInv
  <2>8. NonceInv' /\ NonceSpentOnce'
    BY <2>2 DEF IInv, NonceInv, NonceSpentOnce, history
  <2>9. RevokeInv' /\ RevokedStaysOut'
    BY <2>2, <2>4, Fields DEF IInv, RevokeInv, RevokedStaysOut, history
  <2> QED BY <2>6, <2>7, <2>8, <2>9 DEF IInv
<1> QED BY <1>3, <1>4

LEMMA IssueStep ==
    ASSUME IInv, NEW c \in Calls, IssueToken(c) PROVE IInv'
<1> USE DEF IssueToken, tables
<1>1. call[c] \in Call /\ call[c].pc = "issuing"
  BY DEF IInv, TypeOK
<1>2. call[c].cred \in Credentials /\ call[c].user \in UserIds
  BY <1>1, CallFields
<1>3. \A d \in Calls : call'[d] = IF d = c THEN Idle ELSE call[d]
  BY DEF IInv, TypeOK, Goes
<1>4. TypeOK'
  <2>1. [sub |-> call[c].user, iat |-> clock] \in Token
    BY <1>2 DEF IInv, TypeOK, Token
  <2>2. [cred |-> call[c].cred, sub |-> call[c].user, at |-> clock] \in Login
    BY <1>2 DEF IInv, TypeOK, Login
  <2> QED BY <2>1, <2>2, CallTypes DEF IInv, TypeOK, Goes
<1>5. UserInv'
  BY <1>1, <1>3, Fields DEF IInv, UserInv
<1>6. NonceInv' /\ NonceSpentOnce'
  BY DEF IInv, NonceInv, NonceSpentOnce
<1>7. RevokeInv' /\ RevokedStaysOut'
  BY <1>3, Fields DEF IInv, RevokeInv, RevokedStaysOut
<1> QED BY <1>4, <1>5, <1>6, <1>7 DEF IInv

LEMMA LoginInv ==
    ASSUME IInv, NEW c \in Calls, LoginStep(c) PROVE IInv'
<1>1. call[c] \in Call /\ clock \in 0..MaxClock
  BY DEF IInv, TypeOK
<1>2. ASSUME NEW a \in Emails, EmailLogin(c, a) PROVE IInv'
  BY <1>2, MoveStep, CallTypes, Fields DEF EmailLogin, Credentials
<1>3. ASSUME NEW a \in Wallets, NEW n \in Nonces, WalletLogin(c, a, n) PROVE IInv'
  BY <1>1, <1>3, MoveStep, CallTypes, Fields DEF WalletLogin
<1>4. CASE ConsumeNonce(c)
  BY <1>4, ConsumeStep
<1>5. CASE VerifyMessage(c)
  <2>1. call[c].cred \in Credentials
    BY <1>1, <1>5, CallFields DEF VerifyMessage
  <2> QED BY <1>5, <2>1, MoveStep, IdleStep, CallTypes, Fields DEF VerifyMessage
<1>6. CASE SelectUser(c)
  <2>1. call[c].cred \in Credentials
    BY <1>1, <1>6, CallFields DEF SelectUser
  <2>2. CASE users[call[c].cred] = NoUser
    BY <1>6, <2>1, <2>2, MoveStep, CallTypes, Fields DEF SelectUser
  <2>3. CASE users[call[c].cred] # NoUser
    <3>1. users[call[c].cred] \in UserIds
      BY <2>1, <2>3 DEF IInv, TypeOK
    <3> QED BY <1>6, <2>1, <2>3, <3>1, MoveStep, CallTypes, Fields DEF SelectUser
  <2> QED BY <2>2, <2>3
<1>7. CASE InsertUser(c)
  BY <1>7, InsertStep
<1>8. CASE IssueToken(c)
  BY <1>8, IssueStep
<1> QED BY <1>2, <1>3, <1>4, <1>5, <1>6, <1>7, <1>8 DEF LoginStep

-----------------------------------------------------------------------------
(* Tokens                                                                  *)

LEMMA RevokeStep ==
    ASSUME IInv, NEW c \in Calls, Revoke(c) PROVE IInv'
<1> DEFINE k == TokenCall("revoking", "logout", call[c].token, call[c].late)
<1>1. call[c] \in Call /\ call[c].pc = "authenticated"
  BY DEF IInv, TypeOK, Revoke
<1>2. call[c].token \in Token /\ call[c].late \in {"late", "intime"}
  BY <1>1, CallFields
<1>3. CASE ~Valid(call[c].token)
  <2>1. Goes(c, Idle) /\ UNCHANGED <<clock, tables, history>>
    BY <1>3 DEF Revoke, tables
  <2> QED BY <2>1, IdleStep
<1>4. CASE Valid(call[c].token)
  <2>1. /\ denylist' = denylist \cup {call[c].token}
        /\ Goes(c, k)
        /\ UNCHANGED <<clock, users, nonces, history>>
    BY <1>4 DEF Revoke
  <2>2. k \in Call
    BY <1>2, CallTypes
  <2>3. k.pc = "revoking" /\ k.token = call[c].token /\ k.token \in issued
    BY <1>1, Fields DEF IInv, RevokeInv
  <2> HIDE DEF k
  <2>4. \A d \in Calls : call'[d] = IF d = c THEN k ELSE call[d]
    BY <2>1 DEF IInv, TypeOK, Goes
  <2>5. TypeOK'
    BY <1>2, <2>1, <2>2 DEF IInv, TypeOK, Goes, history
  <2>6. UserInv'
    BY <2>1, <2>3, <2>4 DEF IInv, UserInv, history
  <2>7. NonceInv' /\ NonceSpentOnce'
    BY <2>1 DEF IInv, NonceInv, NonceSpentOnce, history
  <2>8. RevokeInv' /\ RevokedStaysOut'
    BY <2>1, <2>3, <2>4 DEF IInv, RevokeInv, RevokedStaysOut, history
  <2> QED BY <2>5, <2>6, <2>7, <2>8 DEF IInv
<1> QED BY <1>3, <1>4

LEMMA AnswerLogoutStep ==
    ASSUME IInv, NEW c \in Calls, AnswerLogout(c) PROVE IInv'
<1> USE DEF AnswerLogout, tables
<1>1. call[c] \in Call /\ call[c].pc = "revoking"
  BY DEF IInv, TypeOK
<1>2. call[c].token \in Token /\ call[c].token \in denylist
  BY <1>1, CallFields DEF IInv, RevokeInv
<1>3. \A d \in Calls : call'[d] = IF d = c THEN Idle ELSE call[d]
  BY DEF IInv, TypeOK, Goes
<1>4. TypeOK'
  BY <1>2, CallTypes DEF IInv, TypeOK, Goes
<1>5. UserInv'
  BY <1>3, Fields DEF IInv, UserInv
<1>6. NonceInv' /\ NonceSpentOnce'
  BY DEF IInv, NonceInv, NonceSpentOnce
<1>7. RevokeInv' /\ RevokedStaysOut'
  BY <1>2, <1>3, Fields DEF IInv, RevokeInv, RevokedStaysOut
<1> QED BY <1>4, <1>5, <1>6, <1>7 DEF IInv

LEMMA TokenInv ==
    ASSUME IInv, NEW c \in Calls, TokenStep(c) PROVE IInv'
<1>1. call[c] \in Call /\ issued \subseteq Token
  BY DEF IInv, TypeOK
<1>2. ASSUME NEW route \in {"logout", "other"}, NEW token \in issued,
             Request(c, route, token)
      PROVE  IInv'
  <2>1. PICK late \in {"late", "intime"} :
           /\ late = "late" <=> token \in revoked
           /\ Goes(c, TokenCall("checking", route, token, late))
    BY <1>2 DEF Request
  <2>2. late = "late" => token \in denylist
    BY <2>1 DEF IInv, RevokeInv
  <2>3. TokenCall("checking", route, token, late) \in Call
    BY <1>1, CallTypes
  <2> QED BY <1>2, <2>1, <2>2, <2>3, MoveStep, Fields DEF Request
<1>3. CASE CheckDenylist(c)
  <2> DEFINE k == TokenCall("authenticated", call[c].route, call[c].token, call[c].late)
  <2>1. CASE call[c].token \in denylist
    BY <1>3, <2>1, IdleStep DEF CheckDenylist
  <2>2. CASE call[c].token \notin denylist
    <3>1. Goes(c, k) /\ UNCHANGED <<clock, tables, history>> /\ call[c].pc = "checking"
      BY <1>3, <2>2 DEF CheckDenylist
    <3>2. /\ call[c].route \in {"logout", "other"} /\ call[c].token \in Token
          /\ call[c].late \in {"late", "intime"}
      BY <1>1, <3>1, CallFields
    <3>3. call[c].late = "intime" /\ call[c].token \in issued
      BY <2>2, <3>1, <3>2 DEF IInv, RevokeInv
    <3>4. k \in Call /\ k.pc = "authenticated" /\ k.late = "intime" /\ k.token \in issued
      BY <3>2, <3>3, CallTypes, Fields
    <3> HIDE DEF k
    <3> QED BY <3>1, <3>4, MoveStep
  <2> QED BY <2>1, <2>2
<1>4. CASE Serve(c)
  BY <1>4, IdleStep DEF Serve
<1>5. CASE Revoke(c)
  BY <1>5, RevokeStep
<1>6. CASE AnswerLogout(c)
  BY <1>6, AnswerLogoutStep
<1> QED BY <1>2, <1>3, <1>4, <1>5, <1>6 DEF TokenStep

LEMMA RefreshStep ==
    ASSUME IInv, NEW token \in issued, Refresh(token) PROVE IInv'
<1> USE DEF Refresh, tables
<1>1. [sub |-> token.sub, iat |-> clock] \in Token
  BY DEF IInv, TypeOK, Token
<1>2. TypeOK'
  BY <1>1 DEF IInv, TypeOK
<1>3. UserInv' /\ NonceInv' /\ NonceSpentOnce' /\ RevokeInv' /\ RevokedStaysOut'
  BY DEF IInv, UserInv, NonceInv, NonceSpentOnce, RevokeInv, RevokedStaysOut
<1> QED BY <1>2, <1>3 DEF IInv

-----------------------------------------------------------------------------

LEMMA IInvStep == IInv /\ [Next]_vars => IInv'
<1> SUFFICES ASSUME IInv, [Next]_vars PROVE IInv'
  OBVIOUS
<1>1. ASSUME NEW n \in Nonces, WalletNonce(n) PROVE IInv'
  BY <1>1, WalletNonceStep
<1>2. ASSUME NEW c \in Calls, LoginStep(c) PROVE IInv'
  BY <1>2, LoginInv
<1>3. ASSUME NEW c \in Calls, TokenStep(c) PROVE IInv'
  BY <1>3, TokenInv
<1>4. ASSUME NEW c \in Calls, Abort(c) PROVE IInv'
  BY <1>4, IdleStep DEF Abort
<1>5. ASSUME NEW token \in issued, Refresh(token) PROVE IInv'
  BY <1>5, RefreshStep
<1>6. CASE Restart
  <2>1. \A d \in Calls : call'[d] = Idle
    BY <1>6 DEF Restart
  <2>2. TypeOK'
    BY <1>6, CallTypes DEF Restart, IInv, TypeOK, tables, history
  <2>3. UserInv' /\ NonceInv' /\ NonceSpentOnce'
    BY <1>6, <2>1, Fields
       DEF Restart, IInv, UserInv, NonceInv, NonceSpentOnce, tables, history
  <2>4. RevokeInv' /\ RevokedStaysOut'
    BY <1>6, <2>1, Fields DEF Restart, IInv, RevokeInv, RevokedStaysOut, tables, history
  <2> QED BY <2>2, <2>3, <2>4 DEF IInv
<1>7. CASE Tick
  <2>1. TypeOK'
    BY <1>7, TimeAssumption DEF Tick, IInv, TypeOK, tables, history
  <2>2. UserInv' /\ NonceInv' /\ NonceSpentOnce' /\ RevokeInv' /\ RevokedStaysOut'
    BY <1>7 DEF Tick, IInv, UserInv, NonceInv, NonceSpentOnce, RevokeInv, RevokedStaysOut,
                tables, history
  <2> QED BY <2>1, <2>2 DEF IInv
<1>8. CASE UNCHANGED vars
  BY <1>8 DEF vars, tables, history, IInv, TypeOK, UserInv, NonceInv, NonceSpentOnce,
              RevokeInv, RevokedStaysOut
<1> QED BY <1>1, <1>2, <1>3, <1>4, <1>5, <1>6, <1>7, <1>8 DEF Next

THEOREM Invariance == Spec => []IInv
BY IInvInit, IInvStep, PTL DEF Spec

(* Every variable keeps its type. *)
THEOREM TypeCorrect == Spec => []TypeOK
<1>1. IInv => TypeOK
  BY DEF IInv
<1> QED BY <1>1, Invariance, PTL

(* Racing first logins never split a person into two users. *)
THEOREM IdentityTheorem == Spec => []IdentityStable
<1>1. IInv => IdentityStable
  <2> SUFFICES ASSUME IInv, NEW l \in logins, NEW m \in logins
               PROVE  l.cred = m.cred <=> l.sub = m.sub
    BY DEF IdentityStable
  <2>1. /\ l.cred \in Credentials /\ m.cred \in Credentials
        /\ l.sub \in UserIds /\ m.sub \in UserIds
        /\ l.sub = users[l.cred] /\ m.sub = users[m.cred]
    BY DEF IInv, TypeOK, Login, UserInv
  <2> QED BY <2>1, NoUserAssumption DEF IInv, UserInv
<1> QED BY <1>1, Invariance, PTL

(* A nonce is spent once, whatever the number of calls that carry it. *)
THEOREM NonceTheorem == Spec => []NonceSpentOnce
<1>1. IInv => NonceSpentOnce
  BY DEF IInv
<1> QED BY <1>1, Invariance, PTL

(* An answered logout is final for the routes behind AuthUser. *)
THEOREM RevocationTheorem == Spec => []RevokedStaysOut
<1>1. IInv => RevokedStaysOut
  BY DEF IInv
<1> QED BY <1>1, Invariance, PTL

(* The answers to clients are those of a server that does one request      *)
(* after the other.                                                        *)
THEOREM Refinement == Spec => PromiseKept
<1> USE DEF Promise!vars, history
<1>1. Init => Promise!Init
  BY DEF Init, Promise!Init
<1>2. IInv /\ [Next]_vars => [Promise!Next]_(Promise!vars)
  <2> SUFFICES ASSUME IInv, [Next]_vars PROVE [Promise!Next]_(Promise!vars)
    OBVIOUS
  <2>1. ASSUME NEW n \in Nonces, WalletNonce(n) PROVE Promise!Next
    BY <2>1 DEF WalletNonce, Promise!WalletNonce, Promise!Next
  <2>2. ASSUME NEW c \in Calls, ConsumeNonce(c) PROVE [Promise!Next]_(Promise!vars)
    <3> DEFINE n   == call[c].nonce
               hit == {r \in nonces : r.nonce = n /\ r.expires_at > call[c].now}
    <3>1. CASE hit = {}
      BY <2>2, <3>1 DEF ConsumeNonce
    <3>2. CASE hit # {}
      <4>1. n \in Nonces
        BY <2>2, CallFields DEF ConsumeNonce, IInv, TypeOK
      <4>2. n \in drawn /\ spent[n] = 0
        BY <3>2 DEF IInv, NonceInv
      <4>3. /\ spent' = [spent EXCEPT ![n] = 1]
            /\ UNCHANGED <<clock, drawn, logins, issued, revoked>>
        BY <2>2, <3>2, <4>1, <4>2 DEF ConsumeNonce, IInv, TypeOK
      <4>4. Promise!ConsumeNonce(n)
        BY <4>2, <4>3 DEF Promise!ConsumeNonce
      <4> QED BY <4>1, <4>4 DEF Promise!Next
    <3> QED BY <3>1, <3>2
  <2>3. ASSUME NEW c \in Calls, IssueToken(c) PROVE Promise!Next
    <3> DEFINE a == call[c].cred
               u == call[c].user
    <3>1. /\ a \in Credentials /\ u \in UserIds
          /\ u = users[a]
      BY <2>3, CallFields DEF IssueToken, IInv, TypeOK, UserInv
    <3>2. ASSUME NEW l \in logins PROVE l.cred = a <=> l.sub = u
      <4>1. l.cred \in Credentials /\ l.sub \in UserIds /\ l.sub = users[l.cred]
        BY DEF IInv, TypeOK, Login, UserInv
      <4> QED BY <3>1, <4>1, NoUserAssumption DEF IInv, UserInv
    <3>3. Promise!Login(a, u)
      BY <2>3, <3>2 DEF IssueToken, tables, Promise!Login, Promise!Token
    <3> QED BY <3>1, <3>3 DEF Promise!Next
  <2>4. ASSUME NEW c \in Calls,
               \/ \E a \in Emails : EmailLogin(c, a)
               \/ \E a \in Wallets, n \in Nonces : WalletLogin(c, a, n)
               \/ VerifyMessage(c) \/ SelectUser(c) \/ InsertUser(c)
        PROVE  UNCHANGED Promise!vars
    BY <2>4 DEF EmailLogin, WalletLogin, VerifyMessage, SelectUser, InsertUser
  <2>5. ASSUME NEW c \in Calls, AnswerLogout(c) PROVE Promise!Next
    <3>1. call[c].token \in issued
      BY <2>5 DEF AnswerLogout, IInv, RevokeInv
    <3>2. Promise!Logout(call[c].token)
      BY <2>5, <3>1 DEF AnswerLogout, Promise!Logout
    <3> QED BY <3>1, <3>2 DEF Promise!Next
  <2>6. ASSUME NEW c \in Calls,
               \/ \E route \in {"logout", "other"}, token \in issued :
                      Request(c, route, token)
               \/ CheckDenylist(c) \/ Serve(c) \/ Revoke(c) \/ Abort(c)
        PROVE  UNCHANGED Promise!vars
    BY <2>6 DEF Request, CheckDenylist, Serve, Revoke, Abort
  <2>7. ASSUME NEW token \in issued, Refresh(token) PROVE Promise!Next
    BY <2>7 DEF Refresh, Valid, Promise!Refresh, Promise!Token, Promise!Next
  <2>8. CASE Restart \/ UNCHANGED vars
    BY <2>8 DEF Restart, vars
  <2>9. CASE Tick
    BY <2>9 DEF Tick, Promise!Tick, Promise!Next
  <2> QED BY <2>1, <2>2, <2>3, <2>4, <2>5, <2>6, <2>7, <2>8, <2>9
             DEF Next, LoginStep, TokenStep
<1> QED BY <1>1, <1>2, Invariance, PTL DEF Spec, PromiseKept, Promise!Spec

(* The promise has no token of the future. *)
LEMMA DatedStep == Promise!Dated /\ [Promise!Next]_(Promise!vars) => Promise!Dated'
<1> SUFFICES ASSUME Promise!Dated, [Promise!Next]_(Promise!vars) PROVE Promise!Dated'
  OBVIOUS
<1>1. ASSUME NEW u \in UserIds, issued' = issued \cup {[sub |-> u, iat |-> clock]},
             clock' = clock
      PROVE  Promise!Dated'
  BY <1>1 DEF Promise!Dated
<1>2. ASSUME NEW a \in Credentials, NEW u \in UserIds, Promise!Login(a, u)
      PROVE  Promise!Dated'
  BY <1>1, <1>2 DEF Promise!Login, Promise!Token
<1>3. ASSUME NEW token \in issued, Promise!Refresh(token) PROVE Promise!Dated'
  BY <1>1, <1>3 DEF Promise!Refresh, Promise!Token, Promise!Dated
<1>4. CASE UNCHANGED <<clock, issued>>
  BY <1>4 DEF Promise!Dated
<1>5. CASE Promise!Tick
  <2>1. clock' = clock + 1 /\ issued' = issued
    BY <1>5 DEF Promise!Tick
  <2>2. 0..clock \subseteq 0..clock'
    BY <2>1 DEF Promise!Dated
  <2> QED BY <2>1, <2>2 DEF Promise!Dated
<1>6. ASSUME NEW n \in Nonces, Promise!WalletNonce(n) \/ Promise!ConsumeNonce(n)
      PROVE  UNCHANGED <<clock, issued>>
  BY <1>6 DEF Promise!WalletNonce, Promise!ConsumeNonce
<1>7. ASSUME NEW token \in issued, Promise!Logout(token) PROVE UNCHANGED <<clock, issued>>
  BY <1>7 DEF Promise!Logout
<1>8. UNCHANGED Promise!vars => UNCHANGED <<clock, issued>>
  BY DEF Promise!vars
<1> QED BY <1>2, <1>3, <1>4, <1>5, <1>6, <1>7, <1>8 DEF Promise!Next

(* Every token a client holds goes back to a login of its user, along      *)
(* refreshes of tokens that had not expired.                               *)
THEOREM ProvenanceTheorem == Spec => []Promise!TokensHaveLogins
<1>1. Promise!Init => Promise!Dated /\ Promise!TokensHaveLogins
  BY DEF Promise!Init, Promise!Dated, Promise!TokensHaveLogins
<1>2. Promise!Dated /\ Promise!TokensHaveLogins /\ [Promise!Next]_(Promise!vars)
      => Promise!TokensHaveLogins'
  <2> SUFFICES ASSUME Promise!Dated, Promise!TokensHaveLogins,
                      [Promise!Next]_(Promise!vars)
               PROVE  Promise!TokensHaveLogins'
    OBVIOUS
  <2> USE DEF Promise!TokensHaveLogins
  <2>1. ASSUME NEW a \in Credentials, NEW u \in UserIds, Promise!Login(a, u)
        PROVE  Promise!TokensHaveLogins'
    <3>1. /\ logins' = logins \cup {[cred |-> a, sub |-> u, at |-> clock]}
          /\ issued' = issued \cup {[sub |-> u, iat |-> clock]}
      BY <2>1 DEF Promise!Login, Promise!Token
    <3> SUFFICES ASSUME NEW token \in issued'
                 PROVE  \/ \E l \in logins' : l.sub = token.sub /\ l.at = token.iat
                        \/ \E old \in issued' :
                               /\ old.sub = token.sub /\ old.iat < token.iat
                               /\ token.iat <= old.iat + Ttl + Leeway
      OBVIOUS
    <3>2. CASE token = [sub |-> u, iat |-> clock]
      <4>1. PICK l \in logins' : l = [cred |-> a, sub |-> u, at |-> clock]
        BY <3>1
      <4>2. l.sub = token.sub /\ l.at = token.iat
        BY <3>2, <4>1
      <4> QED BY <4>2
    <3>3. CASE token \in issued
      BY <3>1, <3>3
    <3> QED BY <3>1, <3>2, <3>3
  <2>2. ASSUME NEW token \in issued, Promise!Refresh(token)
        PROVE  Promise!TokensHaveLogins'
    <3>1. /\ issued' = issued \cup {[sub |-> token.sub, iat |-> clock]}
          /\ UNCHANGED logins /\ clock <= token.iat + Ttl + Leeway
      BY <2>2 DEF Promise!Refresh, Promise!Token
    <3>2. CASE token.iat = clock
      <4>1. token = [sub |-> token.sub, iat |-> clock]
        BY <3>2 DEF Promise!Dated
      <4> QED BY <3>1, <4>1
    <3>3. CASE token.iat < clock
      BY <3>1, <3>3
    <3> QED BY <3>2, <3>3 DEF Promise!Dated
  <2>3. CASE UNCHANGED <<logins, issued>>
    BY <2>3
  <2>4. ASSUME NEW n \in Nonces, Promise!WalletNonce(n) \/ Promise!ConsumeNonce(n)
        PROVE  UNCHANGED <<logins, issued>>
    BY <2>4 DEF Promise!WalletNonce, Promise!ConsumeNonce
  <2>5. ASSUME NEW token \in issued, Promise!Logout(token)
        PROVE  UNCHANGED <<logins, issued>>
    BY <2>5 DEF Promise!Logout
  <2>6. Promise!Tick \/ UNCHANGED Promise!vars => UNCHANGED <<logins, issued>>
    BY DEF Promise!Tick, Promise!vars
  <2> HIDE DEF Promise!TokensHaveLogins
  <2> QED BY <2>1, <2>2, <2>3, <2>4, <2>5, <2>6 DEF Promise!Next
<1> QED BY <1>1, <1>2, DatedStep, Refinement, PTL DEF PromiseKept, Promise!Spec

==============================================================================
