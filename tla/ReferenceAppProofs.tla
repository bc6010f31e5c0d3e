--------------------------- MODULE ReferenceAppProofs ---------------------------
(* The invariants of the reference application and of the operations that  *)
(* it and the scripts build, for any number of users, requests, builders   *)
(* and keys.                                                               *)
EXTENDS ReferenceApp, TLAPS

USE AppAssumption DEF AppAssumption

-----------------------------------------------------------------------------
(* Operations.  A nonce that was read is at most the chain's, those below  *)
(* the chain's are the mined operations', each one's own, and what a build *)
(* saw mined was mined with a smaller nonce than its own.                  *)
OpsInv ==
    /\ OpsTypeOK
    /\ \A b \in Builds : op[b].at = "mined" => op[b].nonce < chainNonce
    /\ \A b \in Builds : op[b].at \in {"sponsor", "signed"} => op[b].nonce <= chainNonce
    /\ \A a, b \in Builds :
          op[a].at = "mined" /\ op[b].at = "mined" /\ op[a].nonce = op[b].nonce => a = b
    /\ \A a, b \in Builds :
          op[a].at \in {"sponsor", "signed", "mined"} /\ b \in op[a].saw
             => op[b].at = "mined" /\ op[b].nonce < op[a].nonce
    /\ \A n \in Nat : n < chainNonce => \E b \in Builds : op[b].at = "mined" /\ op[b].nonce = n

OpsStep(b) ==
    \/ \E key \in KeyForms, chain \in Chains : buildUserOperation(b, key, chain)
    \/ Build(b) \/ Include(b) \/ Drop(b)

(* What a step of build b leaves it as; the other operations stay. *)
Becomes(b, new) ==
    /\ op' = [op EXCEPT ![b] = new]
    /\ op'[b] = new
    /\ \A a \in Builds \ {b} : op'[a] = op[a]

LEMMA BecomesType ==
    ASSUME OpsTypeOK, NEW b \in Builds, NEW new \in Operation,
           op' = [op EXCEPT ![b] = new]
    PROVE  op' \in [Builds -> Operation] /\ Becomes(b, new)
BY DEF OpsTypeOK, Becomes

(* What a build may become: it is not mined, and its nonce and what it saw *)
(* are as OpsInv has them.                                                 *)
LEMMA UnminedKeeps ==
    ASSUME OpsInv, NEW b \in Builds, op[b].at # "mined",
           NEW new \in Operation, new.at # "mined",
           op' = [op EXCEPT ![b] = new], UNCHANGED chainNonce,
           new.at \in {"sponsor", "signed"} =>
              /\ new.nonce <= chainNonce
              /\ \A a \in new.saw : op[a].at = "mined" /\ op[a].nonce < new.nonce
    PROVE  OpsInv'
<1>1. op' \in [Builds -> Operation] /\ Becomes(b, new)
  BY BecomesType DEF OpsInv
<1>2. op \in [Builds -> Operation] /\ chainNonce \in Nat /\ new.saw \subseteq Builds
  BY DEF OpsInv, OpsTypeOK, Operation
<1>3. \A a \in Builds : op'[a].at = "mined" => a # b /\ op'[a] = op[a]
  BY <1>1 DEF Becomes
<1>4. \A a \in Builds : op[a].at = "mined" => op'[a] = op[a]
  BY <1>1 DEF Becomes
<1>5. OpsTypeOK'
  BY <1>1, <1>2 DEF OpsTypeOK
<1>6. \A a \in Builds : op'[a].at = "mined" => op'[a].nonce < chainNonce'
  BY <1>3 DEF OpsInv
<1>7. \A a \in Builds : op'[a].at \in {"sponsor", "signed"} => op'[a].nonce <= chainNonce'
  BY <1>1 DEF OpsInv, Becomes
<1>8. ASSUME NEW a \in Builds, NEW d \in Builds, op'[a].at = "mined", op'[d].at = "mined",
             op'[a].nonce = op'[d].nonce
      PROVE  a = d
  BY <1>3, <1>8 DEF OpsInv
<1>9. ASSUME NEW a \in Builds, NEW d \in Builds,
             op'[a].at \in {"sponsor", "signed", "mined"}, d \in op'[a].saw
      PROVE  op'[d].at = "mined" /\ op'[d].nonce < op'[a].nonce
  <2>1. CASE a = b
    BY <1>1, <1>4, <1>9, <2>1 DEF Becomes
  <2>2. CASE a # b
    BY <1>1, <1>4, <1>9, <2>2 DEF Becomes, OpsInv
  <2> QED BY <2>1, <2>2
<1>10. ASSUME NEW n \in Nat, n < chainNonce'
       PROVE  \E a \in Builds : op'[a].at = "mined" /\ op'[a].nonce = n
  <2>1. PICK a \in Builds : op[a].at = "mined" /\ op[a].nonce = n
    BY <1>10 DEF OpsInv
  <2> QED BY <1>4, <2>1
<1> QED BY <1>5, <1>6, <1>7, <1>8, <1>9, <1>10 DEF OpsInv

(* A build that has read no nonce, or none any more. *)
LEMMA UnreadKeeps ==
    ASSUME OpsInv, NEW b \in Builds, op[b].at # "mined",
           NEW new \in Operation, new.at \in {"none", "nonce", "failed"},
           op' = [op EXCEPT ![b] = new], UNCHANGED chainNonce
    PROVE  OpsInv'
BY UnminedKeeps

LEMMA EndKeeps ==
    ASSUME OpsInv, NEW b \in Builds, op[b].at # "mined",
           NEW blamed \in BOOLEAN, End(b, blamed), UNCHANGED chainNonce
    PROVE  OpsInv'
<1>1. Op("failed", "0x", 0, {}, blamed) \in Operation
      /\ Op("failed", "0x", 0, {}, blamed).at = "failed"
  BY DEF Op, Operation, Stages, KeyForms
<1> QED BY <1>1, UnreadKeeps DEF End

LEMMA FetchKeeps ==
    ASSUME OpsInv, NEW b \in Builds, fetchNonce(b)
    PROVE  OpsInv'
<1> DEFINE new == Op("sponsor", op[b].key, chainNonce, Mined, FALSE)
<1>1. op[b] \in Operation /\ chainNonce \in Nat /\ op[b].at = "nonce"
  BY DEF OpsInv, OpsTypeOK, fetchNonce
<1>2. new \in Operation /\ new.at = "sponsor" /\ new.nonce = chainNonce /\ new.saw = Mined
  BY <1>1 DEF Op, Operation, Stages, Mined
<1>3. op' = [op EXCEPT ![b] = new] /\ chainNonce' = chainNonce
  BY DEF fetchNonce
<1> HIDE DEF new
<1>4. \A a \in Mined : op[a].at = "mined" /\ op[a].nonce < chainNonce
  BY DEF OpsInv, Mined
<1>5. op[b].at # "mined" /\ new.at # "mined" /\ new.nonce <= chainNonce
      /\ \A a \in new.saw : op[a].at = "mined" /\ op[a].nonce < new.nonce
  BY <1>1, <1>2, <1>4
<1> QED BY <1>2, <1>3, <1>5, UnminedKeeps

LEMMA SponsorKeeps ==
    ASSUME OpsInv, NEW b \in Builds, sponsorUserOperation(b)
    PROVE  OpsInv'
<1>1. op[b] \in Operation /\ chainNonce \in Nat /\ op[b].at = "sponsor"
  BY DEF OpsInv, OpsTypeOK, sponsorUserOperation
<1>2. CASE privateKeyToAccount(op[b].key)
  <2> DEFINE new == Op("signed", op[b].key, op[b].nonce, op[b].saw, FALSE)
  <2>1. new \in Operation /\ new.at = "signed" /\ new.nonce = op[b].nonce /\ new.saw = op[b].saw
    BY <1>1 DEF Op, Operation, Stages
  <2>2. op' = [op EXCEPT ![b] = new] /\ chainNonce' = chainNonce
    BY <1>2 DEF sponsorUserOperation
  <2> HIDE DEF new
  <2>3. new.nonce <= chainNonce
        /\ \A a \in new.saw : op[a].at = "mined" /\ op[a].nonce < new.nonce
    BY <1>1, <2>1 DEF OpsInv, Operation
  <2> QED BY <1>1, <2>1, <2>2, <2>3, UnminedKeeps
<1>3. CASE ~privateKeyToAccount(op[b].key)
  BY <1>1, <1>3, EndKeeps DEF sponsorUserOperation
<1> QED BY <1>2, <1>3

LEMMA IncludeKeeps ==
    ASSUME OpsInv, NEW b \in Builds, Include(b)
    PROVE  OpsInv'
<1> DEFINE new == Op("mined", op[b].key, op[b].nonce, op[b].saw, FALSE)
<1>1. op[b] \in Operation /\ chainNonce \in Nat /\ op[b].at = "signed" /\ op[b].nonce = chainNonce
  BY DEF OpsInv, OpsTypeOK, Include
<1>2. new \in Operation /\ new.at = "mined" /\ new.nonce = op[b].nonce /\ new.saw = op[b].saw
  BY <1>1 DEF Op, Operation, Stages
<1>3. op' = [op EXCEPT ![b] = new] /\ chainNonce' = chainNonce + 1
  BY DEF Include
<1> HIDE DEF new
<1>4. op' \in [Builds -> Operation] /\ Becomes(b, new)
  BY <1>2, <1>3, BecomesType DEF OpsInv
<1>5. \A a \in Builds : op[a].nonce \in Nat /\ op'[a].nonce = op[a].nonce /\ op'[a].saw = op[a].saw
  BY <1>2, <1>4 DEF OpsInv, OpsTypeOK, Operation, Becomes
<1>6. \A a \in Builds : op'[a].at = op[a].at \/ (a = b /\ op'[a].at = "mined")
  BY <1>2, <1>4 DEF Becomes
<1>7. \A a \in Builds : op[a].at = "mined" => op'[a].at = "mined" /\ op[a].nonce < chainNonce
  BY <1>2, <1>4 DEF OpsInv, Becomes
<1>8. OpsTypeOK'
  BY <1>1, <1>3, <1>4 DEF OpsTypeOK
<1>9. \A a \in Builds : op'[a].at = "mined" => op'[a].nonce < chainNonce'
  BY <1>1, <1>3, <1>5, <1>6, <1>7
<1>10. \A a \in Builds : op'[a].at \in {"sponsor", "signed"} => op'[a].nonce <= chainNonce'
  BY <1>1, <1>3, <1>5, <1>6 DEF OpsInv
<1>11. ASSUME NEW a \in Builds, NEW d \in Builds, op'[a].at = "mined", op'[d].at = "mined",
              op'[a].nonce = op'[d].nonce
       PROVE  a = d
  BY <1>1, <1>5, <1>6, <1>7, <1>11 DEF OpsInv
<1>12. ASSUME NEW a \in Builds, NEW d \in Builds,
              op'[a].at \in {"sponsor", "signed", "mined"}, d \in op'[a].saw
       PROVE  op'[d].at = "mined" /\ op'[d].nonce < op'[a].nonce
  BY <1>1, <1>5, <1>6, <1>7, <1>12 DEF OpsInv
<1>13. ASSUME NEW n \in Nat, n < chainNonce'
       PROVE  \E a \in Builds : op'[a].at = "mined" /\ op'[a].nonce = n
  <2>1. CASE n < chainNonce
    <3>1. PICK a \in Builds : op[a].at = "mined" /\ op[a].nonce = n
      BY <2>1 DEF OpsInv
    <3> QED BY <1>5, <1>7, <3>1
  <2>2. CASE n = chainNonce
    <3>1. op'[b].at = "mined" /\ op'[b].nonce = n
      BY <1>1, <1>2, <1>4, <2>2 DEF Becomes
    <3> QED BY <3>1
  <2>3. n < chainNonce \/ n = chainNonce
    BY <1>1, <1>3, <1>13
  <2> QED BY <2>1, <2>2, <2>3
<1> QED BY <1>8, <1>9, <1>10, <1>11, <1>12, <1>13 DEF OpsInv

(* Every step of a builder preserves OpsInv. *)
LEMMA OpsStepKeeps ==
    ASSUME OpsInv, NEW b \in Builds, OpsStep(b)
    PROVE  OpsInv'
<1>1. ASSUME NEW key \in KeyForms, NEW chain \in Chains, buildUserOperation(b, key, chain)
      PROVE  OpsInv'
  <2>1. CASE chain \in CHAIN_CONFIGS
    <3>1. Op("nonce", key, 0, {}, FALSE) \in Operation /\ Op("nonce", key, 0, {}, FALSE).at = "nonce"
      BY DEF Op, Operation, Stages
    <3> QED BY <1>1, <2>1, <3>1, UnreadKeeps DEF buildUserOperation
  <2>2. CASE chain \notin CHAIN_CONFIGS
    BY <1>1, <2>2, EndKeeps DEF buildUserOperation
  <2> QED BY <2>1, <2>2
<1>2. CASE fetchNonce(b)
  BY <1>2, FetchKeeps
<1>3. CASE sponsorUserOperation(b)
  BY <1>3, SponsorKeeps
<1>4. CASE RequestFails(b)
  BY <1>4, EndKeeps DEF RequestFails
<1>5. CASE Include(b)
  BY <1>5, IncludeKeeps
<1>6. CASE Drop(b)
  BY <1>6, EndKeeps DEF Drop
<1> QED BY <1>1, <1>2, <1>3, <1>4, <1>5, <1>6 DEF OpsStep, Build

LEMMA OpsSame == ASSUME OpsInv, UNCHANGED opVars PROVE OpsInv'
BY DEF OpsInv, OpsTypeOK, opVars

LEMMA OpsStart == OpsInit => OpsInv
<1> SUFFICES ASSUME OpsInit PROVE OpsInv
  OBVIOUS
<1>1. Op("none", "0x", 0, {}, FALSE) \in Operation /\ Op("none", "0x", 0, {}, FALSE).at = "none"
  BY DEF Op, Operation, Stages, KeyForms
<1>2. chainNonce = 0 /\ OpsTypeOK /\ \A b \in Builds : op[b].at = "none"
  BY <1>1 DEF OpsInit, OpsTypeOK
<1>3. \A n \in Nat : ~(n < chainNonce)
  BY <1>2
<1> QED BY <1>2, <1>3 DEF OpsInv

LEMMA ClashHasCause == OpsInv => NonceClashHasCause
<1> SUFFICES ASSUME OpsInv PROVE NonceClashHasCause
  OBVIOUS
<1>1. ASSUME NEW a \in Builds, NEW b \in Builds,
             op[a].at \in {"signed", "mined"}, b \in op[a].saw
      PROVE  op[b].nonce < op[a].nonce
  BY <1>1 DEF OpsInv
<1>2. ASSUME NEW a \in Builds, op[a].at = "signed", op[a].nonce < chainNonce
      PROVE  \E b \in Mined \ op[a].saw : op[b].nonce = op[a].nonce
  <2>1. op[a].nonce \in Nat
    BY DEF OpsInv, OpsTypeOK, Operation
  <2>2. PICK b \in Builds : op[b].at = "mined" /\ op[b].nonce = op[a].nonce
    BY <1>2, <2>1 DEF OpsInv
  <2>3. b \notin op[a].saw
    BY <1>2, <2>1, <2>2 DEF OpsInv
  <2> QED BY <2>2, <2>3 DEF Mined
<1> QED BY <1>1, <1>2 DEF NonceClashHasCause

-----------------------------------------------------------------------------
(* The page                                                                *)

(* An account is created only while there is none and stays once there is  *)
(* one, so that what asks for a session asks for it.                       *)
CallsInv ==
    /\ \A c \in Calls : calls[c].fn = "login" => calls[c].user \in Users
    /\ \A c \in Calls : calls[c].fn = "create" => account = NoUser
    /\ \A c \in Calls : calls[c].fn \in {"generate", "issue"}
                          => account # NoUser /\ calls[c].account = account
    /\ step3Done => account # NoUser /\ sessionKey.account = account

(* One issue at a time: the page's key is the one being issued, or the     *)
(* session's.                                                              *)
KeysInv ==
    ~overlapped =>
       /\ \A c, d \in Calls :
             {calls[c].fn, calls[d].fn} \subseteq {"generate", "issue"} => c = d
       /\ \A c \in Calls : calls[c].fn = "issue" => privKey = calls[c].key
       /\ step3Done => ~Issuing /\ privKey = sessionKey.key

Building(b) == op[b].at \in {"nonce", "sponsor"}

SendsInv == \A a, b \in Sends : Building(a) /\ Building(b) => a = b

Inv == OpsInv /\ AppIInv /\ CallsInv /\ KeysInv /\ SendsInv

Fns == {"idle", "login", "create", "generate", "issue"}

CallRecord(n) == [fn : Fns, user : UserOrNone, key : 0..n, account : UserOrNone]

(* What a step leaves call c as; the other calls stay. *)
Changes(c, fn, user, key, acc) ==
    /\ calls' \in [Calls -> CallRecord(keys')]
    /\ calls'[c].fn = fn /\ calls'[c].user = user
    /\ calls'[c].key = key /\ calls'[c].account = acc
    /\ \A d \in Calls \ {c} : calls'[d] = calls[d]

LEMMA CallChanges ==
    ASSUME AppTypeOK, keys' \in keys .. MaxKeys, NEW c \in Calls, NEW fn \in Fns,
           NEW user \in UserOrNone, NEW key \in 0 .. keys', NEW acc \in UserOrNone,
           calls' = [calls EXCEPT ![c] = Call(fn, user, key, acc)]
    PROVE  Changes(c, fn, user, key, acc)
<1> DEFINE new == Call(fn, user, key, acc)
<1>1. /\ new \in CallRecord(keys')
      /\ new.fn = fn /\ new.user = user /\ new.key = key /\ new.account = acc
  BY DEF Call, CallRecord
<1>2. calls \in [Calls -> CallRecord(keys)] /\ keys \in 0 .. MaxKeys
  BY DEF AppTypeOK, CallRecord, Fns
<1>3. calls \in [Calls -> CallRecord(keys')]
  <2>1. 0 .. keys \subseteq 0 .. keys'
    BY <1>2
  <2>2. CallRecord(keys) \subseteq CallRecord(keys')
    BY <2>1 DEF CallRecord
  <2> QED BY <1>2, <2>2
<1>4. calls' = [calls EXCEPT ![c] = new]
  OBVIOUS
<1> HIDE DEF new
<1>5. calls' \in [Calls -> CallRecord(keys')] /\ calls'[c] = new
      /\ \A d \in Calls \ {c} : calls'[d] = calls[d]
  BY <1>1, <1>3, <1>4
<1> QED BY <1>1, <1>5 DEF Changes

LEMMA CallReturns ==
    ASSUME AppTypeOK, UNCHANGED keys, NEW c \in Calls, Return(c)
    PROVE  Changes(c, "idle", NoUser, NoKey, NoUser)
<1>1. /\ "idle" \in Fns /\ NoUser \in UserOrNone /\ NoKey \in 0 .. keys'
      /\ keys' \in keys .. MaxKeys
  BY DEF AppTypeOK, Fns, UserOrNone, NoKey
<1> QED BY <1>1, CallChanges DEF Return, Idle

LEMMA CallsSame ==
    ASSUME Inv, UNCHANGED <<keys, calls>>
    PROVE  calls' \in [Calls -> CallRecord(keys')]
BY DEF Inv, AppIInv, AppTypeOK, CallRecord, Fns

(* The operations are as they were. *)
LEMMA OpsKept ==
    ASSUME Inv, UNCHANGED opVars
    PROVE  OpsInv' /\ SendsInv' /\ \A b \in Sends : Building(b)' = Building(b)
BY OpsSame DEF Inv, SendsInv, Building, opVars

(* The rest of AppIInv, by its parts. *)
Flags ==
    /\ step1Done => userId # NoUser
    /\ accLoading <=> \E c \in Calls : calls[c].fn = "create"
    /\ \A c, d \in Calls : calls[c].fn = "create" /\ calls[d].fn = "create" => c = d
    /\ sessLoading => \E c \in Calls : calls[c].fn = "issue"
    /\ \A b \in Sends : Building(b) => intentStatus = "pending"

LEMMA IInvParts == AppIInv <=> AppTypeOK /\ Flags
BY DEF AppIInv, Flags, Building

LEMMA PartsKeep ==
    ASSUME OpsInv', SendsInv', AppTypeOK', Flags', CallsInv', KeysInv'
    PROVE  Inv'
BY DEF Inv, AppIInv, Flags, Building

(* With no issue under way KeysInv is about the session alone. *)
LEMMA NoIssueKeys ==
    ASSUME overlapped' \/ \A d \in Calls : calls'[d].fn \notin {"generate", "issue"},
           overlapped' \/ ~step3Done' \/ privKey' = sessionKey'.key
    PROVE  KeysInv'
<1> SUFFICES ASSUME ~overlapped' PROVE KeysInv'
  BY DEF KeysInv
<1>1. \A d \in Calls : calls'[d].fn \notin {"generate", "issue"}
  OBVIOUS
<1>2. ~Issuing'
  BY <1>1 DEF Issuing
<1> QED BY <1>1, <1>2 DEF KeysInv

LEMMA LoginKeeps ==
    ASSUME Inv, NEW c \in Calls, NEW u \in Users, handleLogin(c, u)
    PROVE  Inv'
<1>1. AppTypeOK /\ Flags /\ keys \in Nat /\ calls[c].fn = "idle"
  BY IInvParts DEF Inv, AppTypeOK, handleLogin, Start, Idle, Call
<1>2. Changes(c, "login", u, NoKey, NoUser)
  <2>1. /\ "login" \in Fns /\ u \in UserOrNone /\ NoUser \in UserOrNone
        /\ NoKey \in 0 .. keys' /\ keys' \in keys .. MaxKeys
    BY <1>1 DEF Fns, UserOrNone, NoKey, handleLogin, sessionVars, AppTypeOK
  <2> QED BY <1>1, <2>1, CallChanges DEF handleLogin, Start
<1>3. /\ UNCHANGED <<userId, account, accLoading, sessionKey, sessLoading, privKey, keys,
                     overlapped, intentStatus, opVars>>
      /\ authStatus' = "loading"
  BY DEF handleLogin, accountVars, sessionVars
<1>4. OpsInv' /\ SendsInv' /\ \A b \in Sends : Building(b)' = Building(b)
  BY <1>3, OpsKept
<1>5. AppTypeOK'
  BY <1>1, <1>2, <1>3, <1>4 DEF AppTypeOK, Changes, CallRecord, Fns, OpsInv
<1>6. Flags'
  BY <1>1, <1>2, <1>3, <1>4 DEF Flags, Changes, step1Done
<1>7. CallsInv'
  BY <1>1, <1>2, <1>3 DEF Inv, CallsInv, Changes, step3Done, NoSession
<1>8. KeysInv'
  BY <1>1, <1>2, <1>3 DEF Inv, KeysInv, Changes, step3Done, NoSession, Issuing
<1> QED BY <1>4, <1>5, <1>6, <1>7, <1>8, PartsKeep

LEMMA LoginAnsweredKeeps ==
    ASSUME Inv, NEW c \in Calls, LoginAnswered(c)
    PROVE  Inv'
<1>1. AppTypeOK /\ Flags /\ calls[c].fn = "login" /\ calls[c].user \in Users
  BY IInvParts DEF Inv, AppTypeOK, LoginAnswered, CallsInv
<1>2. Changes(c, "idle", NoUser, NoKey, NoUser)
  BY <1>1, CallReturns DEF LoginAnswered, sessionVars
<1>3. /\ UNCHANGED <<account, accLoading, sessionKey, sessLoading, privKey, keys,
                     overlapped, intentStatus, opVars>>
      /\ \/ authStatus' = "authenticated" /\ userId' = calls[c].user
         \/ authStatus' = "error" /\ userId' = userId
  BY DEF LoginAnswered, accountVars, sessionVars
<1>4. OpsInv' /\ SendsInv' /\ \A b \in Sends : Building(b)' = Building(b)
  BY <1>3, OpsKept
<1>5. AppTypeOK'
  BY <1>1, <1>2, <1>3, <1>4 DEF AppTypeOK, Changes, CallRecord, Fns, OpsInv, UserOrNone
<1>6. Flags'
  BY <1>1, <1>2, <1>3, <1>4 DEF Flags, Changes, step1Done
<1>7. CallsInv'
  BY <1>1, <1>2, <1>3 DEF Inv, CallsInv, Changes, step3Done, NoSession
<1>8. KeysInv'
  BY <1>1, <1>2, <1>3 DEF Inv, KeysInv, Changes, step3Done, NoSession, Issuing
<1> QED BY <1>4, <1>5, <1>6, <1>7, <1>8, PartsKeep

LEMMA LogoutKeeps ==
    ASSUME Inv, logout
    PROVE  Inv'
<1>1. AppTypeOK /\ Flags
  BY IInvParts DEF Inv
<1>2. /\ UNCHANGED <<account, accLoading, sessionKey, sessLoading, privKey, keys, overlapped,
                     intentStatus, calls, opVars>>
      /\ authStatus' = "idle" /\ userId' = NoUser
  BY DEF logout, accountVars, sessionVars
<1>3. OpsInv' /\ SendsInv' /\ \A b \in Sends : Building(b)' = Building(b)
  BY <1>2, OpsKept
<1>4. AppTypeOK'
  BY <1>1, <1>2, <1>3 DEF AppTypeOK, OpsInv, UserOrNone
<1>5. Flags'
  BY <1>1, <1>2, <1>3 DEF Flags, step1Done
<1>6. CallsInv' /\ KeysInv'
  BY <1>1, <1>2 DEF Inv, CallsInv, KeysInv, step3Done, NoSession, Issuing
<1> QED BY <1>3, <1>4, <1>5, <1>6, PartsKeep

LEMMA CreateKeeps ==
    ASSUME Inv, NEW c \in Calls, handleCreateAccount(c)
    PROVE  Inv'
<1>1. AppTypeOK /\ Flags /\ calls[c].fn = "idle" /\ ~accLoading /\ account = NoUser
  BY IInvParts DEF Inv, AppTypeOK, handleCreateAccount, Start, Idle, Call, step2Done
<1>2. Changes(c, "create", userId, NoKey, NoUser)
  <2>1. /\ "create" \in Fns /\ userId \in UserOrNone /\ NoUser \in UserOrNone
        /\ NoKey \in 0 .. keys' /\ keys' \in keys .. MaxKeys
    BY <1>1 DEF Fns, UserOrNone, NoKey, handleCreateAccount, sessionVars, AppTypeOK
  <2> QED BY <1>1, <2>1, CallChanges DEF handleCreateAccount, Start
<1>3. /\ UNCHANGED <<authStatus, userId, account, sessionKey, sessLoading, privKey, keys,
                     overlapped, intentStatus, opVars>>
      /\ accLoading' = TRUE
  BY DEF handleCreateAccount, loginVars, sessionVars
<1>4. OpsInv' /\ SendsInv' /\ \A b \in Sends : Building(b)' = Building(b)
  BY <1>3, OpsKept
<1>5. AppTypeOK'
  BY <1>1, <1>2, <1>3, <1>4 DEF AppTypeOK, Changes, CallRecord, Fns, OpsInv
<1>6. Flags'
  BY <1>1, <1>2, <1>3, <1>4 DEF Flags, Changes, step1Done
<1>7. CallsInv'
  BY <1>1, <1>2, <1>3 DEF Inv, CallsInv, Changes, step3Done, NoSession
<1>8. KeysInv'
  BY <1>1, <1>2, <1>3 DEF Inv, KeysInv, Changes, step3Done, NoSession, Issuing
<1> QED BY <1>4, <1>5, <1>6, <1>7, <1>8, PartsKeep

LEMMA AccountAnsweredKeeps ==
    ASSUME Inv, NEW c \in Calls, AccountAnswered(c)
    PROVE  Inv'
<1>1. AppTypeOK /\ Flags /\ calls[c].fn = "create" /\ account = NoUser
      /\ calls[c].user \in UserOrNone
  BY IInvParts DEF Inv, AppTypeOK, AccountAnswered, CallsInv
<1>2. Changes(c, "idle", NoUser, NoKey, NoUser)
  BY <1>1, CallReturns DEF AccountAnswered, sessionVars
<1>3. /\ UNCHANGED <<authStatus, userId, sessionKey, sessLoading, privKey, keys,
                     overlapped, intentStatus, opVars>>
      /\ accLoading' = FALSE /\ account' \in {account, calls[c].user}
  BY DEF AccountAnswered, loginVars, sessionVars
<1>4. OpsInv' /\ SendsInv' /\ \A b \in Sends : Building(b)' = Building(b)
  BY <1>3, OpsKept
<1>5. AppTypeOK'
  <2>1. OpsTypeOK'
    BY <1>4 DEF OpsInv
  <2> QED BY <1>1, <1>2, <1>3, <2>1 DEF AppTypeOK, Changes, CallRecord, Fns
<1>6. Flags'
  BY <1>1, <1>2, <1>3, <1>4 DEF Flags, Changes, step1Done
<1>7. CallsInv'
  <2>1. ~step3Done /\ \A d \in Calls : calls[d].fn \notin {"generate", "issue"}
    BY <1>1 DEF Inv, CallsInv
  <2>2. /\ \A d \in Calls : calls'[d].fn \notin {"create", "generate", "issue"}
        /\ \A d \in Calls : calls'[d].fn = "login" => calls'[d].user \in Users
    BY <1>1, <1>2, <2>1 DEF Changes, Flags, Inv, CallsInv
  <2>3. ~step3Done'
    BY <1>3, <2>1 DEF step3Done, NoSession
  <2> QED BY <2>2, <2>3 DEF CallsInv
<1>8. KeysInv'
  BY <1>1, <1>2, <1>3 DEF Inv, KeysInv, Changes, step3Done, NoSession, Issuing
<1> QED BY <1>4, <1>5, <1>6, <1>7, <1>8, PartsKeep

LEMMA IssueKeeps ==
    ASSUME Inv, NEW c \in Calls, handleIssueSessionKey(c)
    PROVE  Inv'
<1>1. AppTypeOK /\ Flags /\ calls[c].fn = "idle" /\ account # NoUser /\ ~step3Done
      /\ keys \in Nat /\ keys < MaxKeys /\ keys' = keys + 1
  BY IInvParts DEF Inv, AppTypeOK, handleIssueSessionKey, Start, Idle, Call, step2Done
<1>2. Changes(c, "generate", NoUser, keys + 1, account)
  <2>1. /\ "generate" \in Fns /\ NoUser \in UserOrNone /\ account \in UserOrNone
        /\ keys + 1 \in 0 .. keys' /\ keys' \in keys .. MaxKeys
    BY <1>1 DEF Fns, UserOrNone, AppTypeOK
  <2> QED BY <1>1, <2>1, CallChanges DEF handleIssueSessionKey, Start
<1>3. /\ UNCHANGED <<authStatus, userId, account, accLoading, sessionKey, sessLoading, privKey,
                     intentStatus, opVars>>
      /\ overlapped' = (overlapped \/ Issuing)
  BY DEF handleIssueSessionKey, loginVars, accountVars
<1>4. OpsInv' /\ SendsInv' /\ \A b \in Sends : Building(b)' = Building(b)
  BY <1>3, OpsKept
<1>5. AppTypeOK'
  BY <1>1, <1>2, <1>3, <1>4 DEF AppTypeOK, Changes, CallRecord, Fns, OpsInv, Issuing
<1>6. Flags'
  BY <1>1, <1>2, <1>3, <1>4 DEF Flags, Changes, step1Done
<1>7. CallsInv'
  BY <1>1, <1>2, <1>3 DEF Inv, CallsInv, Changes, step3Done, NoSession
<1>8. KeysInv'
  BY <1>1, <1>2, <1>3 DEF Inv, KeysInv, Changes, step3Done, NoSession, Issuing
<1> QED BY <1>4, <1>5, <1>6, <1>7, <1>8, PartsKeep

LEMMA IssuedKeeps ==
    ASSUME Inv, NEW c \in Calls, SessionIssued(c)
    PROVE  Inv'
<1>1. AppTypeOK /\ Flags /\ calls[c].fn = "issue" /\ account # NoUser
      /\ calls[c].account = account /\ calls[c].key \in 0 .. keys /\ account \in UserOrNone
  BY IInvParts DEF Inv, AppTypeOK, SessionIssued, CallsInv
<1>2. Changes(c, "idle", NoUser, NoKey, NoUser)
  BY <1>1, CallReturns DEF SessionIssued
<1>3. /\ UNCHANGED <<authStatus, userId, account, accLoading, privKey, keys,
                     overlapped, intentStatus, opVars>>
      /\ sessLoading' = FALSE /\ sessionKey' = [key |-> calls[c].key, account |-> account]
  BY DEF SessionIssued, Inv, CallsInv, loginVars, accountVars
<1>4. OpsInv' /\ SendsInv' /\ \A b \in Sends : Building(b)' = Building(b)
  BY <1>3, OpsKept
<1>5. AppTypeOK'
  BY <1>1, <1>2, <1>3, <1>4 DEF AppTypeOK, Changes, CallRecord, Fns, OpsInv
<1>6. Flags'
  BY <1>1, <1>2, <1>3, <1>4 DEF Flags, Changes, step1Done
<1>7. CallsInv'
  BY <1>1, <1>2, <1>3 DEF Inv, CallsInv, Changes, step3Done, NoSession
<1>8. KeysInv'
  <2>1. ~overlapped => \A d \in Calls : /\ ~(calls'[d].fn \in {"generate", "issue"})
                                          /\ calls'[d].fn # "issue"
    BY <1>1, <1>2 DEF Inv, KeysInv, Changes
  <2>2. ~overlapped => privKey = calls[c].key
    BY <1>1 DEF Inv, KeysInv
  <2>3. overlapped' = overlapped /\ sessionKey'.key = calls[c].key /\ privKey' = privKey
    BY <1>3
  <2> QED BY <2>1, <2>2, <2>3, NoIssueKeys
<1> QED BY <1>4, <1>5, <1>6, <1>7, <1>8, PartsKeep

LEMMA IssueFailsKeeps ==
    ASSUME Inv, NEW c \in Calls, IssueFails(c)
    PROVE  Inv'
<1>1. AppTypeOK /\ Flags /\ calls[c].fn = "issue"
  BY IInvParts DEF Inv, AppTypeOK, IssueFails
<1>2. Changes(c, "idle", NoUser, NoKey, NoUser)
  BY <1>1, CallReturns DEF IssueFails
<1>3. /\ UNCHANGED <<authStatus, userId, account, accLoading, sessionKey, privKey, keys,
                     overlapped, intentStatus, opVars>>
      /\ sessLoading' = FALSE
  BY DEF IssueFails, loginVars, accountVars
<1>4. OpsInv' /\ SendsInv' /\ \A b \in Sends : Building(b)' = Building(b)
  BY <1>3, OpsKept
<1>5. AppTypeOK'
  BY <1>1, <1>2, <1>3, <1>4 DEF AppTypeOK, Changes, CallRecord, Fns, OpsInv
<1>6. Flags'
  BY <1>1, <1>2, <1>3, <1>4 DEF Flags, Changes, step1Done
<1>7. CallsInv'
  BY <1>1, <1>2, <1>3 DEF Inv, CallsInv, Changes, step3Done, NoSession
<1>8. KeysInv'
  <2>1. ~overlapped => \A d \in Calls : /\ ~(calls'[d].fn \in {"generate", "issue"})
                                          /\ calls'[d].fn # "issue"
    BY <1>1, <1>2 DEF Inv, KeysInv, Changes
  <2>2. ~(~overlapped /\ step3Done)
    BY <1>1 DEF Inv, KeysInv, Issuing
  <2>3. ~(~overlapped /\ step3Done')
    BY <1>3, <2>2 DEF step3Done, NoSession
  <2>4. overlapped' = overlapped
    BY <1>3
  <2> QED BY <2>1, <2>3, <2>4, NoIssueKeys
<1> QED BY <1>4, <1>5, <1>6, <1>7, <1>8, PartsKeep

LEMMA GenerateKeeps ==
    ASSUME Inv, NEW c \in Calls, generateSessionKey(c)
    PROVE  Inv'
<1>1. /\ AppTypeOK /\ Flags /\ calls[c].fn = "generate" /\ calls[c].key \in 0 .. keys
      /\ calls[c].account = account /\ account # NoUser /\ account \in UserOrNone
  BY IInvParts DEF Inv, AppTypeOK, CallsInv, generateSessionKey
<1>2. CASE userId = NoUser
  <2>2. Changes(c, "idle", NoUser, NoKey, NoUser)
    BY <1>1, <1>2, CallReturns DEF generateSessionKey
  <2>3. /\ UNCHANGED <<authStatus, userId, account, accLoading, sessionKey, keys, overlapped,
                       intentStatus, opVars>>
        /\ privKey' = calls[c].key /\ sessLoading' = sessLoading
    BY <1>2 DEF generateSessionKey, loginVars, accountVars
  <2>4. OpsInv' /\ SendsInv' /\ \A b \in Sends : Building(b)' = Building(b)
    BY <2>3, OpsKept
  <2>5. AppTypeOK'
    BY <1>1, <2>2, <2>3, <2>4 DEF AppTypeOK, Changes, CallRecord, Fns, OpsInv
  <2>6. Flags'
    BY <1>1, <2>2, <2>3, <2>4 DEF Flags, Changes, step1Done
  <2>7. CallsInv'
    BY <1>1, <2>2, <2>3 DEF Inv, CallsInv, Changes, step3Done, NoSession
  <2>8. KeysInv'
    <3>1. ~overlapped => \A d \in Calls : /\ ~(calls'[d].fn \in {"generate", "issue"})
                                            /\ calls'[d].fn # "issue"
      BY <1>1, <2>2 DEF Inv, KeysInv, Changes
    <3>2. ~(~overlapped /\ step3Done)
      BY <1>1 DEF Inv, KeysInv, Issuing
    <3>3. ~(~overlapped /\ step3Done')
      BY <2>3, <3>2 DEF step3Done, NoSession
    <3>4. overlapped' = overlapped
      BY <2>3
    <3> QED BY <3>1, <3>3, <3>4, NoIssueKeys
  <2> QED BY <2>4, <2>5, <2>6, <2>7, <2>8, PartsKeep
<1>3. CASE userId # NoUser
  <2>2. Changes(c, "issue", userId, calls[c].key, account)
    <3>1. /\ "issue" \in Fns /\ userId \in UserOrNone /\ keys' \in keys .. MaxKeys
          /\ calls[c].key \in 0 .. keys'
      BY <1>1 DEF Fns, AppTypeOK, generateSessionKey
    <3>2. calls' = [calls EXCEPT ![c] = Call("issue", userId, calls[c].key, account)]
      BY <1>1, <1>3 DEF generateSessionKey
    <3> QED BY <1>1, <3>1, <3>2, CallChanges
  <2>3. /\ UNCHANGED <<authStatus, userId, account, accLoading, sessionKey, keys, overlapped,
                       intentStatus, opVars>>
        /\ privKey' = calls[c].key /\ sessLoading' = TRUE
    BY <1>3 DEF generateSessionKey, loginVars, accountVars
  <2>4. OpsInv' /\ SendsInv' /\ \A b \in Sends : Building(b)' = Building(b)
    BY <2>3, OpsKept
  <2>5. AppTypeOK'
    BY <1>1, <2>2, <2>3, <2>4 DEF AppTypeOK, Changes, CallRecord, Fns, OpsInv
  <2>6. Flags'
    BY <1>1, <2>2, <2>3, <2>4 DEF Flags, Changes, step1Done
  <2>7. CallsInv'
    BY <1>1, <2>2, <2>3 DEF Inv, CallsInv, Changes, step3Done, NoSession
  <2>8. KeysInv'
    BY <1>1, <2>2, <2>3 DEF Inv, KeysInv, Changes, step3Done, NoSession, Issuing
  <2> QED BY <2>4, <2>5, <2>6, <2>7, <2>8, PartsKeep
<1> QED BY <1>2, <1>3

-----------------------------------------------------------------------------
(* Sends and scripts                                                       *)

(* The page's variables but intentStatus are as they were. *)
LEMMA PageKept ==
    ASSUME Inv, OpsInv', UNCHANGED <<loginVars, accountVars, sessionVars, calls>>,
           intentStatus' \in {"null", "pending"}
    PROVE  /\ AppTypeOK' /\ CallsInv' /\ KeysInv'
           /\ (\A b \in Sends : Building(b)' => intentStatus' = "pending") => Flags'
<1>1. AppTypeOK /\ Flags
  BY IInvParts DEF Inv
<1>2. UNCHANGED <<authStatus, userId, account, accLoading, sessionKey, sessLoading, privKey,
                  keys, overlapped, calls>>
  BY DEF loginVars, accountVars, sessionVars
<1>3. AppTypeOK'
  BY <1>1, <1>2 DEF AppTypeOK, OpsInv
<1>4. CallsInv' /\ KeysInv'
  BY <1>2 DEF Inv, CallsInv, KeysInv, Issuing, step3Done, NoSession
<1>5. (\A b \in Sends : Building(b)' => intentStatus' = "pending") => Flags'
  BY <1>1, <1>2 DEF Flags, step1Done
<1> QED BY <1>3, <1>4, <1>5

(* A builder's step touches its own operation alone. *)
LEMMA OpsStepLocal ==
    ASSUME OpsInv, NEW b \in Builds, OpsStep(b)
    PROVE  \A a \in Builds \ {b} : op'[a] = op[a]
<1>1. op \in [Builds -> Operation]
  BY DEF OpsInv, OpsTypeOK
<1>2. CASE \E key \in KeyForms, chain \in Chains : buildUserOperation(b, key, chain)
  BY <1>1, <1>2 DEF buildUserOperation, End
<1>3. CASE fetchNonce(b)
  BY <1>1, <1>3 DEF fetchNonce
<1>4. CASE sponsorUserOperation(b)
  BY <1>1, <1>4 DEF sponsorUserOperation, End
<1>5. CASE RequestFails(b) \/ Drop(b)
  BY <1>1, <1>5 DEF RequestFails, Drop, End
<1>6. CASE Include(b)
  BY <1>1, <1>6 DEF Include
<1> QED BY <1>2, <1>3, <1>4, <1>5, <1>6 DEF OpsStep, Build

LEMMA SendKeeps ==
    ASSUME Inv, NEW b \in Sends, handleSendIntent(b)
    PROVE  Inv'
<1>1. Flags /\ b \in Builds /\ intentStatus # "pending"
  BY IInvParts DEF Inv, handleSendIntent
<1>2. \A a \in Sends : ~Building(a)
  BY <1>1 DEF Flags
<1>3. UNCHANGED <<loginVars, accountVars, sessionVars, calls>>
  BY DEF handleSendIntent, ShowIntent
<1>4. CASE userId = NoUser
  <2>1. UNCHANGED opVars /\ intentStatus' = "null"
    BY <1>4 DEF handleSendIntent, ShowIntent
  <2>2. OpsInv' /\ SendsInv' /\ \A a \in Sends : Building(a)' = Building(a)
    BY <2>1, OpsKept
  <2>3. AppTypeOK' /\ CallsInv' /\ KeysInv' /\ Flags'
    BY <1>2, <1>3, <2>1, <2>2, PageKept
  <2> QED BY <2>2, <2>3, PartsKeep
<1>5. CASE userId # NoUser
  <2>1. buildUserOperation(b, "bare", "baseSepolia") /\ intentStatus' = "pending"
    BY <1>5 DEF handleSendIntent, ShowIntent, toHex
  <2>2. OpsStep(b)
    BY <2>1 DEF OpsStep, KeyForms, Chains
  <2>3. OpsInv' /\ \A a \in Builds \ {b} : op'[a] = op[a]
    BY <1>1, <2>2, OpsStepKeeps, OpsStepLocal DEF Inv
  <2>4. SendsInv'
    BY <1>2, <2>3 DEF SendsInv, Building
  <2>5. AppTypeOK' /\ CallsInv' /\ KeysInv' /\ Flags'
    BY <1>3, <2>1, <2>3, PageKept
  <2> QED BY <2>3, <2>4, <2>5, PartsKeep
<1> QED BY <1>4, <1>5

LEMMA BuildsKeeps ==
    ASSUME Inv, NEW b \in Sends, SendBuilds(b)
    PROVE  Inv'
<1>1. AppTypeOK /\ Flags /\ b \in Builds /\ Build(b) /\ Building(b)
  BY IInvParts DEF Inv, SendBuilds, Build, Building, fetchNonce, sponsorUserOperation, RequestFails
<1>2. OpsInv' /\ \A a \in Builds \ {b} : op'[a] = op[a]
  BY <1>1, OpsStepKeeps, OpsStepLocal DEF Inv, OpsStep
<1>3. SendsInv' /\ \A a \in Sends : Building(a)' => a = b
  BY <1>1, <1>2 DEF Inv, SendsInv, Building
<1>4. UNCHANGED <<loginVars, accountVars, sessionVars, calls>>
  BY DEF SendBuilds, ShowIntent
<1>5. intentStatus = "pending"
  BY <1>1 DEF Flags
<1>6. intentStatus' \in {"null", "pending"} /\ (op'[b].at # "failed" => intentStatus' = "pending")
  BY <1>5 DEF SendBuilds, ShowIntent
<1>7. \A a \in Sends : Building(a)' => intentStatus' = "pending"
  BY <1>3, <1>6 DEF Building
<1>8. AppTypeOK' /\ CallsInv' /\ KeysInv' /\ Flags'
  BY <1>2, <1>4, <1>6, <1>7, PageKept
<1> QED BY <1>2, <1>3, <1>8, PartsKeep

LEMMA ScriptKeeps ==
    ASSUME Inv, NEW b \in Scripts, ScriptStep(b)
    PROVE  Inv'
<1>1. b \in Builds /\ b \notin Sends /\ OpsStep(b)
  BY DEF ScriptStep, OpsStep, KeyForms, Chains
<1>2. OpsInv' /\ \A a \in Builds \ {b} : op'[a] = op[a]
  BY <1>1, OpsStepKeeps, OpsStepLocal DEF Inv
<1>3. SendsInv' /\ \A a \in Sends : Building(a)' = Building(a)
  BY <1>1, <1>2 DEF Inv, SendsInv, Building
<1>4. AppTypeOK /\ Flags /\ UNCHANGED <<loginVars, accountVars, sessionVars, intentStatus, calls>>
  BY IInvParts DEF Inv, ScriptStep
<1>5. AppTypeOK' /\ CallsInv' /\ KeysInv' /\ Flags'
  BY <1>2, <1>3, <1>4, PageKept DEF AppTypeOK, Flags
<1> QED BY <1>2, <1>3, <1>5, PartsKeep

-----------------------------------------------------------------------------

LEMMA InvStart == Init => Inv
<1> SUFFICES ASSUME Init PROVE Inv
  OBVIOUS
<1>1. OpsInv /\ \A b \in Builds : ~Building(b)
  BY OpsStart DEF Init, OpsInit, Op, Building
<1>2. \A c \in Calls : calls[c] = Idle /\ calls[c].fn = "idle"
  BY DEF Init, Idle, Call
<1>3. calls \in [Calls -> CallRecord(keys)]
  <2>1. Idle \in CallRecord(keys)
    BY DEF Init, Idle, Call, CallRecord, Fns, UserOrNone, NoKey
  <2> QED BY <2>1 DEF Init
<1>4. AppTypeOK
  <2>1. sessionKey \in [key : 0 .. keys, account : UserOrNone]
    BY DEF Init, NoSession, NoKey, UserOrNone
  <2>2. keys \in 0 .. MaxKeys /\ privKey \in 0 .. keys
    BY DEF Init, NoKey
  <2>3. userId \in UserOrNone /\ account \in UserOrNone
    BY DEF Init, UserOrNone
  <2> QED BY <1>1, <1>3, <2>1, <2>2, <2>3 DEF Init, AppTypeOK, OpsInv, CallRecord, Fns
<1>5. Flags
  BY <1>1, <1>2 DEF Init, Flags, step1Done
<1>6. CallsInv /\ KeysInv /\ SendsInv
  <2>1. ~step3Done
    BY DEF Init, step3Done
  <2>2. \A c \in Calls : calls[c].fn \notin {"login", "create", "generate", "issue"}
    BY <1>2
  <2>3. CallsInv
    BY <2>1, <2>2 DEF CallsInv
  <2>4. KeysInv
    BY <2>1, <2>2 DEF KeysInv
  <2> QED BY <1>1, <2>3, <2>4 DEF SendsInv
<1> QED BY <1>1, <1>4, <1>5, <1>6, IInvParts DEF Inv

LEMMA InvSame == ASSUME Inv, UNCHANGED vars PROVE Inv'
<1>1. /\ UNCHANGED <<loginVars, accountVars, sessionVars, intentStatus, calls, opVars>>
      /\ AppTypeOK /\ Flags
  BY IInvParts DEF Inv, vars
<1>2. OpsInv' /\ SendsInv' /\ \A b \in Sends : Building(b)' = Building(b)
  BY <1>1, OpsKept
<1>3. AppTypeOK' /\ CallsInv' /\ KeysInv' /\ Flags'
  BY <1>1, <1>2, PageKept DEF AppTypeOK, Flags
<1> QED BY <1>2, <1>3, PartsKeep

(* Every step preserves the conjunction of the parts. *)
THEOREM Invariance == Spec => []Inv
<1>1. Init => Inv
  BY InvStart
<1>2. Inv /\ [Next]_vars => Inv'
  <2> SUFFICES ASSUME Inv, [Next]_vars PROVE Inv'
    OBVIOUS
  <2>1. CASE logout
    BY <2>1, LogoutKeeps
  <2>2. ASSUME NEW c \in Calls, NEW u \in Users, handleLogin(c, u) PROVE Inv'
    BY <2>2, LoginKeeps
  <2>3. ASSUME NEW c \in Calls, handleCreateAccount(c) PROVE Inv'
    BY <2>3, CreateKeeps
  <2>4. ASSUME NEW c \in Calls, handleIssueSessionKey(c) PROVE Inv'
    BY <2>4, IssueKeeps
  <2>5. ASSUME NEW c \in Calls, CallProgress(c) PROVE Inv'
    BY <2>5, LoginAnsweredKeeps, AccountAnsweredKeeps, GenerateKeeps, IssuedKeeps,
       IssueFailsKeeps DEF CallProgress
  <2>6. ASSUME NEW b \in Sends, handleSendIntent(b) \/ SendBuilds(b) PROVE Inv'
    BY <2>6, SendKeeps, BuildsKeeps
  <2>7. ASSUME NEW b \in Scripts, ScriptStep(b) PROVE Inv'
    BY <2>7, ScriptKeeps
  <2>8. CASE UNCHANGED vars
    BY <2>8, InvSame
  <2> QED BY <2>1, <2>2, <2>3, <2>4, <2>5, <2>6, <2>7, <2>8 DEF Next
<1> QED BY <1>1, <1>2, PTL DEF Spec

(* App.tsx: a flag that is up belongs to a request of the page, and whoever *)
(* is logged in has a user.                                                *)
THEOREM AppTheorem == Spec => []AppIInv
<1>1. Inv => AppIInv
  BY DEF Inv
<1> QED BY <1>1, Invariance, PTL

(* App.tsx, handleIssueSessionKey: the session is the shown account's, and *)
(* the page's private key the session's unless issues overlapped.          *)
THEOREM SessionTheorem == Spec => []SessionIsThePages
<1>1. Inv => SessionIsThePages
  BY DEF Inv, CallsInv, KeysInv, SessionIsThePages
<1> QED BY <1>1, Invariance, PTL

(* userop.ts, buildUserOperation: a nonce read after an operation was      *)
(* mined is a later one, and a signed operation whose nonce is used up was *)
(* overtaken by one mined since its nonce was read.                        *)
THEOREM NonceTheorem == Spec => []NonceClashHasCause
<1>1. Inv => NonceClashHasCause
  BY ClashHasCause DEF Inv
<1> QED BY <1>1, Invariance, PTL

==============================================================================
