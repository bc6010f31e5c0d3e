------------------------- MODULE IntentServiceProofs -------------------------
(***************************************************************************)
(* Registry and IntentAdmission for any calls, users, chains, scopes and   *)
(* lifetimes, and integers of any width; then IntentService for any        *)
(* operations and number of polls besides.                                 *)
(***************************************************************************)
EXTENDS IntentService, TLAPS

(* What the arithmetic of issue does to a lifetime: the result is an i64,  *)
(* it is never later than what was asked for, and is just that if it fits. *)
LEMMA ExpiresAtFacts ==
    ASSUME NEW now \in 0..MaxClock, NEW ttl \in 0..(2 * Half - 1)
    PROVE  /\ ExpiresAt(now, ttl) \in Time
           /\ ExpiresAt(now, ttl) <= now + ttl
           /\ now + ttl < Half => ExpiresAt(now, ttl) = now + ttl
<1> DEFINE S == Signed(ttl)
<1>1. S \in Time /\ S <= ttl /\ (ttl < Half => S = ttl)
  BY WordAssumption DEF Signed, Time
<1> HIDE DEF S
<1>2. Signed(now + S) \in Time /\ Signed(now + S) <= now + S
      /\ (now + S < Half => Signed(now + S) = now + S)
  BY <1>1, WordAssumption DEF Signed, Time
<1>3. ExpiresAt(now, ttl) = Signed(now + S)
  BY DEF ExpiresAt, S
<1> QED BY <1>1, <1>2, <1>3, WordAssumption DEF Time

(* The same of an issue's own times. *)
LEMMA IssueTimes ==
    ASSUME TypeOK, NEW s \in Issues
    PROVE  LET created == issue[s].created_at
               ttl     == issueBody[s].ttl_seconds
           IN  /\ created \in Nat /\ ttl \in Nat
               /\ ExpiresAt(created, ttl) \in Int
               /\ ExpiresAt(created, ttl) <= created + ttl
               /\ created + ttl < Half => ExpiresAt(created, ttl) = created + ttl
<1>1. issue[s].created_at \in 0..MaxClock /\ issueBody[s].ttl_seconds \in 0..(2 * Half - 1)
  BY WordAssumption DEF TypeOK, RegistryTypeOK
<1>2. \A n \in Time : n \in Int
  BY WordAssumption DEF Time
<1> QED BY <1>1, <1>2, ExpiresAtFacts

-----------------------------------------------------------------------------
(* Type correctness. *)
LEMMA InitTypes == Init => TypeOK
BY WordAssumption, BaseAssumption
   DEF Init, RegistryInit, TypeOK, RegistryTypeOK, CreatePc, IssuePc, ExecPc, Time

LEMMA SelectOwnerTypes ==
    ASSUME RegistryTypeOK, NEW s \in Issues, SelectOwner(s)
    PROVE  issue' \in [Issues -> [pc : IssuePc, created_at : 0..MaxClock,
                                  expires_at : Time]]
<1>1. clock \in 0..MaxClock /\ issueBody[s].ttl_seconds \in 0..(2 * Half - 1)
  BY WordAssumption DEF TypeOK, RegistryTypeOK
<1>2. ExpiresAt(clock, issueBody[s].ttl_seconds) \in Time
  BY <1>1, ExpiresAtFacts
<1> QED BY <1>1, <1>2 DEF SelectOwner, TypeOK, RegistryTypeOK, IssuePc

LEMMA RegistryTypeStep == RegistryTypeOK /\ RegistryNext => RegistryTypeOK'
<1> SUFFICES ASSUME RegistryTypeOK, RegistryNext PROVE RegistryTypeOK'
  OBVIOUS
<1> USE DEF RegistryTypeOK
<1>1. ASSUME NEW c \in Creates, SelectAccount(c) PROVE RegistryTypeOK'
  BY <1>1 DEF SelectAccount, Answer, CreatePc
<1>2. ASSUME NEW c \in Creates, InsertAccount(c) PROVE RegistryTypeOK'
  BY <1>2 DEF InsertAccount, Answer, CreatePc
<1>3. ASSUME NEW c \in Creates, EndCreate(c) PROVE RegistryTypeOK'
  BY <1>3 DEF EndCreate, CreatePc
<1>4. ASSUME NEW s \in Issues, SelectOwner(s) PROVE RegistryTypeOK'
  BY <1>4, SelectOwnerTypes DEF SelectOwner
<1>5. ASSUME NEW s \in Issues, InsertSession(s) \/ EndIssue(s) PROVE RegistryTypeOK'
  <2>1. issue' = [issue EXCEPT ![s].pc = "ended"]
    BY <1>5 DEF InsertSession, EndIssue
  <2>2. issue' \in [Issues -> [pc : IssuePc, created_at : 0..MaxClock, expires_at : Time]]
    BY <2>1 DEF IssuePc
  <2> QED BY <1>5, <2>2 DEF InsertSession, EndIssue
<1>6. CASE Tick
  BY <1>6, WordAssumption DEF Tick
<1> QED BY <1>1, <1>2, <1>3, <1>4, <1>5, <1>6 DEF RegistryNext

ExecRecord == [pc : ExecPc, chain : Chains, checked_at : 0..MaxClock,
               adapter : Chains \cup Configured]

LEMMA ExecTypeStep ==
    ASSUME TypeOK, NEW e \in Executes, ExecuteStep(e)
    PROVE  exec' \in [Executes -> ExecRecord] /\ intents' \in SUBSET Executes
<1>1. exec \in [Executes -> ExecRecord] /\ intents \in SUBSET Executes
  BY DEF TypeOK, ExecRecord
<1>2. ASSUME NEW pc \in ExecPc, exec' = [exec EXCEPT ![e].pc = pc]
      PROVE  exec' \in [Executes -> ExecRecord]
  BY <1>1, <1>2 DEF ExecRecord
<1>3. ASSUME NEW pc \in ExecPc, NEW now \in 0..MaxClock,
             exec' = [exec EXCEPT ![e].pc = pc, ![e].checked_at = now]
      PROVE  exec' \in [Executes -> ExecRecord]
  BY <1>1, <1>3 DEF ExecRecord
<1>4. ASSUME NEW pc \in ExecPc, NEW chain \in Chains,
             exec' = [exec EXCEPT ![e].pc = pc, ![e].chain = chain]
      PROVE  exec' \in [Executes -> ExecRecord]
  BY <1>1, <1>4 DEF ExecRecord
<1>5. ASSUME NEW pc \in ExecPc, NEW chain \in Chains \cup Configured,
             exec' = [exec EXCEPT ![e].pc = pc, ![e].adapter = chain]
      PROVE  exec' \in [Executes -> ExecRecord]
  BY <1>1, <1>5 DEF ExecRecord
<1>6. {"owner", "chain", "inserting", "inserted", "accepted", "expired", "refused",
       "dropped"} \subseteq ExecPc
  BY DEF ExecPc
<1>7. CASE LoadSession(e)
  <2>1. clock \in 0..MaxClock
    BY DEF TypeOK, RegistryTypeOK
  <2> QED BY <1>1, <1>3, <1>6, <1>7, <2>1 DEF LoadSession
<1>8. CASE LoadOwner(e) \/ Refuse(e) \/ Drop(e) \/ InsertIntent(e)
  <2>1. \E pc \in ExecPc : exec' = [exec EXCEPT ![e].pc = pc]
    BY <1>6, <1>8 DEF LoadOwner, Refuse, Drop, InsertIntent
  <2>2. intents' \in SUBSET Executes
    BY <1>1, <1>8 DEF LoadOwner, Refuse, Drop, InsertIntent
  <2> QED BY <1>2, <2>1, <2>2
<1>9. CASE LoadChain(e)
  <2> DEFINE a == AccountOf(execBody[e].session)
             chain == IF a \in accounts THEN createBody[a].chain ELSE Base
  <2>1. chain \in Chains
    BY BaseAssumption DEF TypeOK, RegistryTypeOK
  <2>2. exec' = [exec EXCEPT ![e].pc = "inserting", ![e].chain = chain]
        /\ intents' = intents
    BY <1>9 DEF LoadChain
  <2> HIDE DEF chain
  <2> QED BY <1>1, <1>4, <1>6, <2>1, <2>2
<1>10. CASE SpawnTask(e)
  <2>1. chain_for(exec[e].chain) \in Chains \cup Configured
    BY BaseAssumption DEF chain_for
  <2> QED BY <1>1, <1>5, <1>6, <1>10, <2>1 DEF SpawnTask
<1> QED BY <1>7, <1>8, <1>9, <1>10 DEF ExecuteStep

LEMMA ExecKeeps ==
    ASSUME NEW e, ExecuteStep(e)
    PROVE  UNCHANGED <<registryVars, execBody>>
BY DEF ExecuteStep, LoadSession, LoadOwner, LoadChain, InsertIntent, SpawnTask, Refuse, Drop

LEMMA TypeStep == TypeOK /\ [Next]_vars => TypeOK'
<1> SUFFICES ASSUME TypeOK, [Next]_vars PROVE TypeOK'
  OBVIOUS
<1>1. CASE RegistryNext /\ UNCHANGED <<execBody, exec, intents>>
  <2>1. RegistryTypeOK'
    BY <1>1, RegistryTypeStep DEF TypeOK
  <2> QED BY <1>1, <2>1 DEF TypeOK
<1>2. ASSUME NEW e \in Executes, ExecuteStep(e) PROVE TypeOK'
  <2>1. UNCHANGED <<registryVars, execBody>>
    BY <1>2, ExecKeeps
  <2>2. RegistryTypeOK'
    BY <2>1 DEF registryVars, TypeOK, RegistryTypeOK
  <2>3. exec' \in [Executes -> ExecRecord] /\ intents' \in SUBSET Executes
    BY <1>2, ExecTypeStep
  <2> QED BY <2>1, <2>2, <2>3 DEF TypeOK, ExecRecord
<1>3. CASE UNCHANGED vars
  BY <1>3 DEF vars, registryVars, TypeOK, RegistryTypeOK
<1> QED BY <1>1, <1>2, <1>3 DEF Next

-----------------------------------------------------------------------------
(* What a registry step does to what the calls of execute rely on: tables  *)
(* grow, rows and bodies stay.                                             *)
LEMMA RowsStay ==
    ASSUME RegistryTypeOK, RowInv, RegistryNext
    PROVE  /\ accounts \subseteq accounts' /\ sessions \subseteq sessions'
           /\ UNCHANGED <<createBody, issueBody>>
           /\ \A s \in sessions : issue'[s] = issue[s]
<1>1. UNCHANGED <<createBody, issueBody>>
  BY DEF RegistryNext, SelectAccount, InsertAccount, EndCreate, SelectOwner, InsertSession,
         EndIssue, Tick
<1>2. accounts \subseteq accounts' /\ sessions \subseteq sessions'
  BY DEF RegistryNext, SelectAccount, InsertAccount, EndCreate, SelectOwner, InsertSession,
         EndIssue, Tick
<1>3. ASSUME NEW s \in sessions PROVE issue'[s] = issue[s]
  <2>1. s \in Issues /\ issue[s].pc = "ended"
    BY DEF RegistryTypeOK, RowInv
  <2>2. ASSUME NEW r \in Issues, SelectOwner(r) \/ InsertSession(r) \/ EndIssue(r)
        PROVE  issue'[s] = issue[s]
    <3>1. issue[r].pc # "ended" /\ r # s
      BY <2>1, <2>2 DEF SelectOwner, InsertSession, EndIssue
    <3> QED BY <2>1, <2>2, <3>1 DEF SelectOwner, InsertSession, EndIssue, RegistryTypeOK
  <2>3. CASE issue' = issue
    BY <2>3
  <2> QED BY <2>2, <2>3 DEF RegistryNext, SelectAccount, InsertAccount, EndCreate, Tick
<1> QED BY <1>1, <1>2, <1>3

(* RowInv: the rows of accounts, then those of sessions. *)
AccountInv ==
    /\ \A a, b \in accounts : createBody[a] = createBody[b] => a = b
    /\ \A a \in accounts : create[a] \in {"answered", "ended"}
    /\ \A c \in Creates : told[c] # NoAccount =>
           told[c] \in accounts /\ createBody[told[c]] = createBody[c]

SessionInv ==
    /\ \A s \in Issues : issue[s].pc = "inserting" \/ s \in sessions =>
           /\ AccountOf(s) \in accounts
           /\ OwnerOf(s) = issueBody[s].user
           /\ issue[s].expires_at = ExpiresAt(issue[s].created_at, issueBody[s].ttl_seconds)
    /\ \A s \in sessions : issue[s].pc = "ended"

LEMMA RowSplit == RowInv <=> AccountInv /\ SessionInv
BY DEF RowInv, AccountInv, SessionInv

LEMMA AccountStep ==
    ASSUME RegistryTypeOK, AccountInv, RegistryNext
    PROVE  AccountInv'
<1> USE DEF RegistryTypeOK, AccountInv
<1>1. ASSUME NEW c \in Creates, SelectAccount(c) PROVE AccountInv'
  <2>1. CASE \E a \in accounts : Existing(c, a) /\ Answer(c, a)
    BY <1>1, <2>1 DEF SelectAccount, Existing, Answer
  <2>2. CASE create' = [create EXCEPT ![c] = "inserting"] /\ UNCHANGED told
    BY <1>1, <2>2 DEF SelectAccount
  <2> QED BY <1>1, <2>1, <2>2 DEF SelectAccount
<1>2. ASSUME NEW c \in Creates, InsertAccount(c) PROVE AccountInv'
  <2>1. CASE \E a \in accounts : Existing(c, a)
    BY <1>2, <2>1 DEF InsertAccount
  <2>2. CASE \A a \in accounts : ~Existing(c, a)
    <3>1. accounts' = accounts \cup {c} /\ createBody' = createBody
      BY <1>2, <2>2 DEF InsertAccount
    <3>2. \A a \in accounts : createBody[a] # createBody[c]
      BY <2>2 DEF Existing
    <3>3. \A a, b \in accounts' : createBody'[a] = createBody'[b] => a = b
      BY <3>1, <3>2
    <3>4. \A a \in accounts' : create'[a] \in {"answered", "ended"}
      BY <1>2, <2>2, <3>1 DEF InsertAccount, Answer
    <3>5. \A d \in Creates : told'[d] # NoAccount =>
              told'[d] \in accounts' /\ createBody'[told'[d]] = createBody'[d]
      <4>1. CASE told' = told
        BY <3>1, <4>1
      <4>2. CASE told' = [told EXCEPT ![c] = c]
        BY <3>1, <4>2
      <4> QED BY <1>2, <2>2, <4>1, <4>2 DEF InsertAccount, Answer
    <3> QED BY <3>3, <3>4, <3>5
  <2> QED BY <2>1, <2>2
<1>3. ASSUME NEW c \in Creates, EndCreate(c) PROVE AccountInv'
  BY <1>3 DEF EndCreate
<1>4. CASE UNCHANGED <<createBody, create, told, accounts>>
  BY <1>4
<1> QED BY <1>1, <1>2, <1>3, <1>4
        DEF RegistryNext, SelectOwner, InsertSession, EndIssue, Tick

LEMMA SessionStep ==
    ASSUME RegistryTypeOK, SessionInv, RegistryNext
    PROVE  SessionInv'
<1> USE DEF RegistryTypeOK, SessionInv, AccountOf, OwnerOf
<1>1. ASSUME NEW s \in Issues, SelectOwner(s) PROVE SessionInv'
  BY <1>1 DEF SelectOwner
<1>2. ASSUME NEW s \in Issues, InsertSession(s) PROVE SessionInv'
  BY <1>2 DEF InsertSession
<1>3. ASSUME NEW s \in Issues, EndIssue(s) PROVE SessionInv'
  BY <1>3 DEF EndIssue
<1>4. CASE accounts \subseteq accounts' /\ UNCHANGED <<createBody, issueBody, issue, sessions>>
  BY <1>4
<1> QED BY <1>1, <1>2, <1>3, <1>4
        DEF RegistryNext, SelectAccount, InsertAccount, EndCreate, Tick

-----------------------------------------------------------------------------
(* ExecInv of one call. *)
ExecOk(e) ==
    LET body == execBody[e]
        past(states) == exec[e].pc \in states \/ e \in intents
    IN  /\ past({"owner", "chain", "inserting", "inserted", "accepted"}) =>
               /\ body.session \in sessions
               /\ InScope(body)
               /\ exec[e].checked_at <= issue[body.session].expires_at
        /\ exec[e].pc = "expired" =>
               /\ body.session \in sessions
               /\ exec[e].checked_at > issue[body.session].expires_at
        /\ past({"chain", "inserting", "inserted", "accepted"}) =>
               OwnerOf(body.session) = body.user
        /\ past({"inserting", "inserted", "accepted"}) =>
               exec[e].chain = createBody[AccountOf(body.session)].chain
        /\ exec[e].pc = "accepted" => exec[e].adapter = chain_for(exec[e].chain)
        /\ exec[e].pc \in {"inserted", "accepted"} => e \in intents
        /\ e \in intents => exec[e].pc \in {"inserted", "accepted", "dropped"}

LEMMA ExecSplit == ExecInv <=> \A e \in Executes : ExecOk(e)
BY DEF ExecInv, ExecOk

(* A registry step takes nothing from a call of execute. *)
LEMMA ExecUndisturbed ==
    ASSUME TypeOK, RowInv, ExecInv, RegistryNext, UNCHANGED <<execBody, exec, intents>>
    PROVE  ExecInv'
<1>1. /\ sessions \subseteq sessions'
      /\ UNCHANGED <<createBody, issueBody>>
      /\ \A s \in sessions : issue'[s] = issue[s]
  BY RowsStay DEF TypeOK
<1> QED BY <1>1 DEF ExecInv, InScope, max_value, OwnerOf, AccountOf

LEMMA ExecOkStep ==
    ASSUME TypeOK, RowInv, NEW e \in Executes, ExecOk(e), ExecuteStep(e)
    PROVE  ExecOk(e)'
<1>1. UNCHANGED <<clock, createBody, accounts, issueBody, issue, sessions, execBody>>
  BY ExecKeeps DEF registryVars
<1>2. /\ execBody[e].session \in Issues
      /\ exec \in [Executes -> ExecRecord]
      /\ clock \in Int /\ issue[execBody[e].session].expires_at \in Int
  BY WordAssumption DEF TypeOK, RegistryTypeOK, Body, ExecRecord, Time
<1> USE <1>1, <1>2 DEF ExecOk, ExecRecord, InScope, max_value, OwnerOf, AccountOf, chain_for
<1>3. CASE LoadSession(e)
  BY <1>3 DEF LoadSession, is_expired
<1>4. CASE LoadOwner(e)
  BY <1>4 DEF LoadOwner
<1>5. CASE LoadChain(e)
  <2>1. AccountOf(execBody[e].session) \in accounts
    BY <1>5 DEF LoadChain, RowInv
  <2> QED BY <1>5, <2>1 DEF LoadChain
<1>6. CASE InsertIntent(e)
  BY <1>6 DEF InsertIntent
<1>7. CASE SpawnTask(e)
  BY <1>7 DEF SpawnTask
<1>8. CASE Refuse(e) \/ Drop(e)
  BY <1>8 DEF Refuse, Drop
<1> QED BY <1>3, <1>4, <1>5, <1>6, <1>7, <1>8 DEF ExecuteStep

LEMMA ExecOthers ==
    ASSUME TypeOK, NEW e \in Executes, ExecuteStep(e), NEW f \in Executes, f # e, ExecOk(f)
    PROVE  ExecOk(f)'
<1>1. UNCHANGED <<createBody, issueBody, issue, sessions, execBody>>
  BY ExecKeeps DEF registryVars
<1>2. exec'[f] = exec[f] /\ (f \in intents' <=> f \in intents)
  BY DEF ExecuteStep, LoadSession, LoadOwner, LoadChain, InsertIntent, SpawnTask, Refuse, Drop,
         TypeOK
<1> QED BY <1>1, <1>2 DEF ExecOk, InScope, max_value, OwnerOf, AccountOf, chain_for

LEMMA Inductive == IInv /\ [Next]_vars => IInv'
<1> SUFFICES ASSUME IInv, [Next]_vars PROVE IInv'
  OBVIOUS
<1>1. TypeOK'
  BY TypeStep DEF IInv
<1>2. CASE RegistryNext /\ UNCHANGED <<execBody, exec, intents>>
  <2>1. AccountInv' /\ SessionInv'
    BY <1>2, RowSplit, AccountStep, SessionStep DEF IInv, TypeOK
  <2>2. RowInv'
    BY <2>1 DEF RowInv, AccountInv, SessionInv
  <2> QED BY <1>1, <1>2, <2>2, ExecUndisturbed DEF IInv
<1>3. ASSUME NEW e \in Executes, ExecuteStep(e) PROVE IInv'
  <2>1. RowInv'
    BY <1>3, ExecKeeps DEF registryVars, IInv, RowInv, AccountOf, OwnerOf
  <2>2. \A f \in Executes : ExecOk(f)'
    BY <1>3, ExecSplit, ExecOkStep, ExecOthers DEF IInv
  <2>3. ExecInv'
    BY <1>3, <2>2, ExecKeeps DEF ExecInv, ExecOk
  <2> QED BY <1>1, <2>1, <2>3 DEF IInv
<1>4. CASE UNCHANGED vars
  BY <1>4 DEF vars, registryVars, IInv, TypeOK, RegistryTypeOK, RowInv, ExecInv, InScope,
              max_value, OwnerOf, AccountOf
<1> QED BY <1>2, <1>3, <1>4 DEF Next

LEMMA InitInv == Init => IInv
<1> SUFFICES ASSUME Init PROVE IInv
  OBVIOUS
<1>1. TypeOK
  BY InitTypes
<1>2. RowInv
  BY DEF Init, RegistryInit, RowInv
<1>3. ExecInv
  BY DEF Init, RegistryInit, ExecInv
<1> QED BY <1>1, <1>2, <1>3 DEF IInv

-----------------------------------------------------------------------------
(* What the invariant says                                                 *)

(* The tables, the calls and what each of them has read fit together in    *)
(* every reachable state.                                                  *)
THEOREM Invariance == Spec => []IInv
BY InitInv, Inductive, PTL DEF Spec

(* Every variable keeps its type; in particular an expiry is an i64.       *)
THEOREM TypeCorrect == Spec => []TypeOK
<1>1. IInv => TypeOK
  BY DEF IInv
<1> QED BY <1>1, Invariance, PTL

(* However many creates race, none of a user and chain is answered with    *)
(* another account than the rest.                                          *)
LEMMA OneAccountHolds == IInv => OneAccount
BY DEF IInv, TypeOK, RegistryTypeOK, RowInv, OneAccount

(* Every intent in the table is within the scope of a session of its own   *)
(* user's account.                                                         *)
LEMMA ScopeHolds == IInv => ScopeKept
<1>1. ASSUME IInv, NEW e \in intents
      PROVE  LET body == execBody[e] IN
             /\ body.session \in sessions
             /\ InScope(body)
             /\ AccountOf(body.session) \in accounts
             /\ body.user = OwnerOf(body.session)
             /\ body.user = issueBody[body.session].user
  <2>1. e \in Executes /\ execBody[e].session \in Issues
    BY <1>1 DEF IInv, TypeOK, Body
  <2>2. /\ execBody[e].session \in sessions
        /\ InScope(execBody[e])
        /\ OwnerOf(execBody[e].session) = execBody[e].user
    BY <1>1, <2>1 DEF IInv, ExecInv
  <2>3. /\ AccountOf(execBody[e].session) \in accounts
        /\ OwnerOf(execBody[e].session) = issueBody[execBody[e].session].user
    BY <1>1, <2>1, <2>2 DEF IInv, RowInv
  <2> QED BY <2>2, <2>3
<1> QED BY <1>1 DEF ScopeKept

(* The times of a session that execute found. *)
LEMMA FoundSession ==
    ASSUME IInv, NEW e \in Executes, execBody[e].session \in sessions
    PROVE  LET s   == execBody[e].session
               due == issue[s].created_at + issueBody[s].ttl_seconds
           IN  /\ due \in Nat /\ exec[e].checked_at \in Nat
               /\ issue[s].expires_at \in Int
               /\ issue[s].expires_at <= due
               /\ due < Half => issue[s].expires_at = due
<1> DEFINE s == execBody[e].session
<1>1. s \in Issues /\ exec[e].checked_at \in 0..MaxClock
  BY DEF IInv, TypeOK, Body
<1>2. issue[s].expires_at = ExpiresAt(issue[s].created_at, issueBody[s].ttl_seconds)
  BY <1>1 DEF IInv, RowInv
<1>3. TypeOK
  BY DEF IInv
<1> QED BY <1>1, <1>2, <1>3, IssueTimes

(* No check passes after the lifetime that was asked for, for 64-bit and   *)
(* any other width of integers.                                            *)
LEMMA LifetimeHolds == IInv => LifetimeKept
<1>1. ASSUME IInv, NEW e \in intents
      PROVE  LET s == execBody[e].session IN
             exec[e].checked_at <= issue[s].created_at + issueBody[s].ttl_seconds
  <2> DEFINE s   == execBody[e].session
             due == issue[s].created_at + issueBody[s].ttl_seconds
  <2>1. e \in Executes
    BY <1>1 DEF IInv, TypeOK
  <2>2. s \in sessions /\ exec[e].checked_at <= issue[s].expires_at
    BY <1>1, <2>1 DEF IInv, ExecInv
  <2>3. /\ due \in Nat /\ exec[e].checked_at \in Nat
        /\ issue[s].expires_at \in Int /\ issue[s].expires_at <= due
    BY <1>1, <2>1, <2>2, FoundSession
  <2> HIDE DEF s, due
  <2>4. exec[e].checked_at <= due
    BY <2>2, <2>3
  <2> QED BY <2>4 DEF s, due
<1> QED BY <1>1 DEF LifetimeKept

(* No session is called expired before its time, if its end fits an i64.   *)
LEMMA ExpiryHolds == IInv => ExpiredIsDue
<1>1. ASSUME IInv, NEW e \in Executes, exec[e].pc = "expired"
      PROVE  LET s   == execBody[e].session
                 due == issue[s].created_at + issueBody[s].ttl_seconds
             IN  exec[e].checked_at > due \/ due >= Half
  <2> DEFINE s   == execBody[e].session
             due == issue[s].created_at + issueBody[s].ttl_seconds
  <2>1. s \in sessions /\ exec[e].checked_at > issue[s].expires_at
    BY <1>1 DEF IInv, ExecInv
  <2>2. /\ due \in Nat /\ exec[e].checked_at \in Nat
        /\ due < Half => issue[s].expires_at = due
    BY <1>1, <2>1, FoundSession
  <2> HIDE DEF s, due
  <2>3. exec[e].checked_at > due \/ due >= Half
    BY <2>1, <2>2, WordAssumption
  <2> QED BY <2>3 DEF s, due
<1> QED BY <1>1 DEF ExpiredIsDue

(* Intents are booked on, and where possible handed to, the chain of their *)
(* session's account.                                                      *)
LEMMA ChainHolds == IInv => BookedOnItsChain
BY DEF IInv, TypeOK, ExecInv, BookedOnItsChain, chain_for

-----------------------------------------------------------------------------
(* IntentService: what IntentAdmission says of the server still holds      *)

(* A restart ends the calls and leaves what they have found out.           *)
LEMMA RestartTypes ==
    ASSUME TypeOK, Restart
    PROVE  TypeOK'
<1> USE DEF TypeOK, RegistryTypeOK, Restart
<1>1. create' \in [Creates -> CreatePc]
  BY DEF CreatePc
<1>2. issue' \in [Issues -> [pc : IssuePc, created_at : 0..MaxClock, expires_at : Time]]
  BY DEF IssuePc
<1>3. exec' \in [Executes -> ExecRecord]
  BY DEF ExecRecord, ExecPc
<1> QED BY <1>1, <1>2, <1>3 DEF ExecRecord

LEMMA RestartRows ==
    ASSUME TypeOK, RowInv, Restart
    PROVE  RowInv'
<1> USE DEF TypeOK, RegistryTypeOK, Restart
<1>1. AccountInv'
  BY RowSplit DEF AccountInv
<1>2. \A s \in Issues : /\ issue[s].pc = "ended" => issue'[s].pc = "ended"
                        /\ issue'[s].pc # "inserting"
                        /\ issue'[s].created_at = issue[s].created_at
                        /\ issue'[s].expires_at = issue[s].expires_at
  OBVIOUS
<1>3. SessionInv'
  BY <1>2, RowSplit DEF SessionInv, AccountOf, OwnerOf
<1> QED BY <1>1, <1>3 DEF RowInv, AccountInv, SessionInv

LEMMA RestartExec ==
    ASSUME TypeOK, ExecInv, Restart
    PROVE  ExecInv'
<1>1. \A e \in Executes :
          \/ exec'[e] = exec[e]
             /\ exec[e].pc \notin {"owner", "chain", "inserting", "inserted"}
          \/ /\ exec[e].pc \in {"owner", "chain", "inserting", "inserted"}
             /\ exec'[e].pc = "dropped"
             /\ exec'[e].checked_at = exec[e].checked_at
             /\ exec'[e].chain = exec[e].chain /\ exec'[e].adapter = exec[e].adapter
  BY DEF TypeOK, Restart
<1>2. /\ UNCHANGED <<createBody, accounts, issueBody, sessions, execBody, intents>>
      /\ \A s \in Issues : issue'[s].expires_at = issue[s].expires_at
  BY DEF TypeOK, RegistryTypeOK, Restart
<1>3. \A e \in Executes : execBody[e].session \in Issues
  BY DEF TypeOK, Body
<1> QED BY <1>1, <1>2, <1>3 DEF ExecInv, InScope, max_value, OwnerOf, AccountOf, chain_for

(* Every other step of the service is one of IntentAdmission or none. *)
LEMMA AdmissionStep ==
    ASSUME ServiceNext
    PROVE  [Next]_vars \/ Restart
BY DEF ServiceNext, RegistryStep, Checks, Inserts, Spawns, Leaves, Background, Next,
       ExecuteStep

LEMMA AdmissionInductive == IInv /\ [ServiceNext]_serviceVars => IInv'
<1> SUFFICES ASSUME IInv, [ServiceNext]_serviceVars PROVE IInv'
  OBVIOUS
<1>1. CASE [Next]_vars
  BY <1>1, Inductive
<1>2. CASE Restart
  BY <1>2, RestartTypes, RestartRows, RestartExec DEF IInv
<1> QED BY <1>1, <1>2, AdmissionStep DEF serviceVars

-----------------------------------------------------------------------------
(* IntentService implements IntentPipeline                                 *)

(* IntentPipeline once more, with its theorems. *)
Proved == INSTANCE IntentPipelineProofs WITH
    Intents <- Executes,
    call    <- [e \in Executes |-> HandlerState(exec[e].pc)]

(* The two instances say the same. *)
LEMMA SameRows ==
    /\ Proved!Lifecycle!Absent = Pipeline!Lifecycle!Absent
    /\ Proved!Pending = Pipeline!Pending
    /\ Proved!Submitted = Pipeline!Submitted
    /\ \A b : Proved!Confirmed(b) = Pipeline!Confirmed(b)
    /\ \A h : Proved!Failed(h) = Pipeline!Failed(h)
    /\ \A pc : Proved!Task(pc) = Pipeline!Task(pc)
    /\ \A n : Proved!Polling(n) = Pipeline!Polling(n)
    /\ \A f : Proved!Settling(f) = Pipeline!Settling(f)
BY DEF Proved!Pending, Proved!Submitted, Proved!Confirmed, Proved!Failed, Proved!Task,
       Proved!Polling, Proved!Settling, Proved!Lifecycle!Absent, Proved!Lifecycle!Pending,
       Proved!Lifecycle!Submitted, Proved!Lifecycle!Confirmed, Proved!Lifecycle!Failed,
       Proved!Lifecycle!Row,
       Pipeline!Pending, Pipeline!Submitted, Pipeline!Confirmed, Pipeline!Failed,
       Pipeline!Task, Pipeline!Polling, Pipeline!Settling, Pipeline!Lifecycle!Absent,
       Pipeline!Lifecycle!Pending, Pipeline!Lifecycle!Submitted,
       Pipeline!Lifecycle!Confirmed, Pipeline!Lifecycle!Failed, Pipeline!Lifecycle!Row

LEMMA SameAnswers ==
    ASSUME NEW i \in Executes
    PROVE  Pipeline!Answered(i) <=> Proved!Answered(i)
BY SameRows
   DEF Pipeline!Answered, Pipeline!SponsorOk, Pipeline!SponsorErr, Pipeline!SendOk,
       Pipeline!SendErr, Pipeline!PollReceipt, Pipeline!PollNull, Pipeline!PollNone,
       Pipeline!PollErr, Pipeline!Struck, Pipeline!Mined,
       Proved!Answered, Proved!SponsorOk, Proved!SponsorErr, Proved!SendOk,
       Proved!SendErr, Proved!PollReceipt, Proved!PollNull, Proved!PollNone,
       Proved!PollErr, Proved!Struck, Proved!Mined

LEMMA SameHandler ==
    ASSUME NEW i \in Executes
    PROVE  /\ Pipeline!HandlerStep(i) <=> Proved!HandlerStep(i)
           /\ Pipeline!ClientGone(i) <=> Proved!ClientGone(i)
           /\ Pipeline!TaskWrites(i) <=> Proved!TaskWrites(i)
           /\ Pipeline!BundlerStep(i) <=> Proved!BundlerStep(i)
<1>1. Pipeline!HandlerStep(i) <=> Proved!HandlerStep(i)
  BY SameRows
     DEF Pipeline!HandlerStep, Pipeline!Admit, Pipeline!Refuse, Pipeline!InsertIntent,
         Pipeline!SpawnTask,
         Proved!HandlerStep, Proved!Admit, Proved!Refuse, Proved!InsertIntent,
         Proved!SpawnTask
<1>2. Pipeline!ClientGone(i) <=> Proved!ClientGone(i)
  BY DEF Pipeline!ClientGone, Pipeline!Struck, Proved!ClientGone, Proved!Struck
<1>3. Pipeline!TaskWrites(i) <=> Proved!TaskWrites(i)
  BY SameRows
     DEF Pipeline!TaskWrites, Pipeline!MarkSubmitted, Pipeline!GiveUp, Pipeline!Settle,
         Pipeline!UpdateIntentStatus, Pipeline!Struck,
         Proved!TaskWrites, Proved!MarkSubmitted, Proved!GiveUp, Proved!Settle,
         Proved!UpdateIntentStatus, Proved!Struck
<1>4. Pipeline!BundlerStep(i) <=> Proved!BundlerStep(i)
  BY DEF Pipeline!BundlerStep, Pipeline!BundlerTakes, Pipeline!BundlerRefuses,
         Proved!BundlerStep, Proved!BundlerTakes, Proved!BundlerRefuses
<1> QED BY <1>1, <1>2, <1>3, <1>4

LEMMA SameSpec ==
    /\ Pipeline!Init <=> Proved!Init
    /\ Pipeline!Next <=> Proved!Next
    /\ UNCHANGED Pipeline!vars <=> UNCHANGED Proved!vars
<1>1. Pipeline!Init <=> Proved!Init
  BY SameRows DEF Pipeline!Init, Proved!Init, Pipeline!Lifecycle!Init, Proved!Lifecycle!Init
<1>2. Pipeline!Restart <=> Proved!Restart
  BY DEF Pipeline!Restart, Proved!Restart, Pipeline!Live, Proved!Live,
         Pipeline!Task, Proved!Task, Pipeline!Lifecycle!Absent, Proved!Lifecycle!Absent,
         Pipeline!Lifecycle!Row, Proved!Lifecycle!Row
<1>3. \A o \in Ops : /\ Pipeline!Mine(o) <=> Proved!Mine(o)
                     /\ Pipeline!Drop(o) <=> Proved!Drop(o)
  BY DEF Pipeline!Mine, Proved!Mine, Pipeline!Drop, Proved!Drop, Pipeline!Mined, Proved!Mined
<1>4. Pipeline!Next <=> Proved!Next
  BY <1>2, <1>3, SameAnswers, SameHandler DEF Pipeline!Next, Proved!Next
<1>5. UNCHANGED Pipeline!vars <=> UNCHANGED Proved!vars
  BY DEF Pipeline!vars, Proved!vars
<1> QED BY <1>1, <1>4, <1>5

LEMMA SameInv == Pipeline!IInv <=> Proved!IInv
<1> USE SameRows
    DEF Pipeline!StruckBy, Proved!StruckBy, Pipeline!Mined, Proved!Mined,
        Pipeline!Lifecycle!Open, Proved!Lifecycle!Open, Pipeline!Lifecycle!Terminal,
        Proved!Lifecycle!Terminal, Pipeline!Lifecycle!Pending, Proved!Lifecycle!Pending,
        Pipeline!Lifecycle!Submitted, Proved!Lifecycle!Submitted,
        Pipeline!Lifecycle!Row, Proved!Lifecycle!Row
<1>1. Pipeline!TypeOK <=> Proved!TypeOK
  BY DEF Pipeline!TypeOK, Proved!TypeOK, Pipeline!CallState, Proved!CallState,
         Pipeline!TaskRecord, Proved!TaskRecord, Pipeline!TaskPc, Proved!TaskPc,
         Pipeline!OpState, Proved!OpState, Pipeline!Mishap, Proved!Mishap,
         Pipeline!Lifecycle!Record, Proved!Lifecycle!Record,
         Pipeline!Lifecycle!Status, Proved!Lifecycle!Status,
         Pipeline!Lifecycle!Hash, Proved!Lifecycle!Hash,
         Pipeline!Lifecycle!Block, Proved!Lifecycle!Block,
         Pipeline!Lifecycle!Reason, Proved!Lifecycle!Reason
<1>2. Pipeline!CallInv <=> Proved!CallInv
  BY DEF Pipeline!CallInv, Proved!CallInv
<1>3. Pipeline!TaskInv <=> Proved!TaskInv
  BY DEF Pipeline!TaskInv, Proved!TaskInv
<1>4. Pipeline!WireInv <=> Proved!WireInv
  BY DEF Pipeline!WireInv, Proved!WireInv
<1>5. Pipeline!BlockInv <=> Proved!BlockInv
  BY DEF Pipeline!BlockInv, Proved!BlockInv
<1>6. Pipeline!NoSilentSubmission <=> Proved!NoSilentSubmission
  BY DEF Pipeline!NoSilentSubmission, Proved!NoSilentSubmission
<1> QED BY <1>1, <1>2, <1>3, <1>4, <1>5, <1>6 DEF Pipeline!IInv, Proved!IInv

(* Where the handlers are, as IntentPipeline sees it; a step of execute    *)
(* moves no handler but its own.                                           *)
Handlers == [e \in Executes |-> HandlerState(exec[e].pc)]

LEMMA HandlerMoves ==
    ASSUME TypeOK, NEW e \in Executes, ExecuteStep(e)
    PROVE  /\ Handlers' = [Handlers EXCEPT ![e] = HandlerState(exec'[e].pc)]
           /\ HandlerState(exec'[e].pc) = HandlerState(exec[e].pc) => Handlers' = Handlers
<1>1. \A f \in Executes \ {e} : exec'[f] = exec[f]
  BY DEF ExecuteStep, LoadSession, LoadOwner, LoadChain, InsertIntent, SpawnTask, Refuse, Drop,
         TypeOK
<1> QED BY <1>1 DEF Handlers

LEMMA ChecksMap ==
    ASSUME TypeOK, NEW e \in Executes, Checks(e)
    PROVE  Pipeline!HandlerStep(e) \/ UNCHANGED Pipeline!vars
<1> USE DEF HandlerState
<1>0. exec \in [Executes -> ExecRecord] /\ ExecuteStep(e)
  BY DEF TypeOK, ExecRecord, Checks, ExecuteStep
<1>1. UNCHANGED <<carried, row, task, wire, op, mishap>>
  BY DEF Checks, pipelineVars
<1>2. CASE exec'[e].pc \in {"owner", "chain"} /\ exec[e].pc \in {"session", "owner"}
  <2>1. Handlers' = Handlers
    BY <1>0, <1>2, HandlerMoves
  <2> QED BY <1>1, <2>1 DEF Pipeline!vars, Handlers
<1>3. CASE /\ exec'[e].pc \in {"expired", "refused"}
           /\ exec[e].pc \in {"session", "owner", "chain", "inserting"}
  <2>1. /\ Handlers' = [Handlers EXCEPT ![e] = "refused"]
        /\ Handlers[e] \in {"checking", "inserting"}
    BY <1>0, <1>3, HandlerMoves DEF Handlers
  <2>2. Pipeline!Refuse(e)
    BY <1>1, <2>1 DEF Pipeline!Refuse, Handlers
  <2> QED BY <2>2 DEF Pipeline!HandlerStep
<1>4. CASE exec'[e].pc = "inserting" /\ exec[e].pc = "chain"
  <2>1. /\ Handlers' = [Handlers EXCEPT ![e] = "inserting"]
        /\ Handlers[e] = "checking"
    BY <1>0, <1>4, HandlerMoves DEF Handlers
  <2>2. Pipeline!Admit(e)
    BY <1>1, <2>1 DEF Pipeline!Admit, Handlers
  <2> QED BY <2>2 DEF Pipeline!HandlerStep
<1>5. CASE LoadSession(e) \/ LoadOwner(e)
  BY <1>0, <1>2, <1>3, <1>5 DEF LoadSession, LoadOwner, ExecRecord
<1>6. CASE LoadChain(e) \/ Refuse(e)
  BY <1>0, <1>3, <1>4, <1>6 DEF LoadChain, Refuse, ExecRecord
<1> QED BY <1>5, <1>6 DEF Checks

LEMMA InsertsMap ==
    ASSUME TypeOK, NEW e \in Executes, Inserts(e)
    PROVE  Pipeline!InsertIntent(e)
<1>1. ExecuteStep(e) /\ exec'[e].pc = "inserted" /\ exec[e].pc = "inserting"
  BY DEF TypeOK, Inserts, InsertIntent, ExecuteStep
<1>2. Handlers' = [Handlers EXCEPT ![e] = "inserted"] /\ Handlers[e] = "inserting"
  BY <1>1, HandlerMoves DEF Handlers, HandlerState
<1> QED BY <1>2 DEF Inserts, Pipeline!InsertIntent, Handlers

LEMMA SpawnsMap ==
    ASSUME TypeOK, NEW e \in Executes, Spawns(e)
    PROVE  Pipeline!SpawnTask(e)
<1>1. ExecuteStep(e) /\ exec'[e].pc = "accepted" /\ exec[e].pc = "inserted"
  BY DEF TypeOK, Spawns, SpawnTask, ExecuteStep
<1>2. Handlers' = [Handlers EXCEPT ![e] = "accepted"] /\ Handlers[e] = "inserted"
  BY <1>1, HandlerMoves DEF Handlers, HandlerState
<1> QED BY <1>2 DEF Spawns, Pipeline!SpawnTask, Handlers

LEMMA LeavesMap ==
    ASSUME TypeOK, NEW e \in Executes, Leaves(e)
    PROVE  Pipeline!ClientGone(e)
<1>1. /\ ExecuteStep(e) /\ exec'[e].pc = "dropped"
      /\ exec[e].pc \in {"session", "owner", "chain", "inserting", "inserted"}
  BY DEF TypeOK, Leaves, Drop, ExecuteStep
<1>2. /\ Handlers' = [Handlers EXCEPT ![e] = "dropped"]
      /\ Handlers[e] \in {"checking", "inserting", "inserted"}
  BY <1>1, HandlerMoves DEF Handlers, HandlerState
<1> QED BY <1>2 DEF Leaves, Pipeline!ClientGone, Pipeline!Struck, Handlers

LEMMA RestartMap ==
    ASSUME TypeOK, Restart
    PROVE  Pipeline!Restart
<1> DEFINE serving(e) == exec[e].pc \in {"owner", "chain", "inserting", "inserted"}
           lost == {e \in Executes : exec[e].pc \in {"owner", "chain"}}
           ends(e) == Handlers[e] \in {"inserting", "inserted"} \/ e \in lost
<1>1. \A e \in Executes : serving(e) <=> ends(e)
  BY DEF TypeOK, ExecPc, Handlers, HandlerState
<1>2. \A e \in Executes : exec'[e].pc = IF serving(e) THEN "dropped" ELSE exec[e].pc
  BY DEF TypeOK, Restart
<1>3. Handlers' = [e \in Executes |-> IF ends(e) THEN "dropped" ELSE Handlers[e]]
  BY <1>1, <1>2 DEF Handlers, HandlerState
<1>4. mishap' = [e \in Executes |-> IF task[e].pc \in Pipeline!Live \/ ends(e)
                                   THEN mishap[e] \cup {"killed"} ELSE mishap[e]]
  BY <1>1 DEF Restart
<1>5. lost \in SUBSET {e \in Executes : Handlers[e] = "checking"}
  BY DEF Handlers, HandlerState
<1> QED BY <1>3, <1>4, <1>5 DEF Restart, Pipeline!Restart, Handlers

LEMMA ServiceMaps ==
    ASSUME TypeOK, [ServiceNext]_serviceVars
    PROVE  [Pipeline!Next]_(Pipeline!vars)
<1>1. CASE RegistryStep \/ UNCHANGED serviceVars
  BY <1>1 DEF RegistryStep, serviceVars, vars, pipelineVars, Pipeline!vars
<1>2. ASSUME NEW e \in Executes, Checks(e) PROVE [Pipeline!Next]_(Pipeline!vars)
  BY <1>2, ChecksMap DEF Pipeline!Next
<1>3. ASSUME NEW e \in Executes, Inserts(e) \/ Spawns(e)
      PROVE  [Pipeline!Next]_(Pipeline!vars)
  BY <1>3, InsertsMap, SpawnsMap DEF Pipeline!Next, Pipeline!HandlerStep
<1>4. ASSUME NEW e \in Executes, Leaves(e) PROVE [Pipeline!Next]_(Pipeline!vars)
  BY <1>4, LeavesMap DEF Pipeline!Next
<1>5. CASE Background
  BY <1>5 DEF Background, Pipeline!Next
<1>6. CASE Restart
  BY <1>6, RestartMap DEF Pipeline!Next
<1> QED BY <1>1, <1>2, <1>3, <1>4, <1>5, <1>6 DEF ServiceNext

-----------------------------------------------------------------------------
(* The two invariants together                                             *)

(* What IntentPipeline's invariant says of a request that was sent. *)
LEMMA SentIsAccepted ==
    ASSUME IInv, Proved!IInv, NEW e \in Executes, wire[e] # "none"
    PROVE  exec[e].pc = "accepted"
<1>1. task[e].pc # "none"
  BY DEF Proved!IInv, Proved!WireInv
<1>2. Handlers[e] = "accepted"
  BY <1>1 DEF Proved!IInv, Proved!TypeOK, Proved!CallState, Proved!CallInv, Handlers
<1> QED BY <1>2 DEF IInv, TypeOK, ExecPc, Handlers, HandlerState

(* No UPDATE makes a row or takes one away. *)
LEMMA RowsRemain ==
    ASSUME Proved!IInv, NEW i \in Executes, Proved!TaskWrites(i)
    PROVE  \A e \in Executes : row'[e] = Proved!Lifecycle!Absent
                                   <=> row[e] = Proved!Lifecycle!Absent
<1> USE DEF Proved!Lifecycle!Absent, Proved!Lifecycle!Row, Proved!Lifecycle!Pending,
            Proved!Lifecycle!Submitted, Proved!Lifecycle!Open
<1>1. row \in [Executes -> Proved!Lifecycle!Record]
  BY DEF Proved!IInv, Proved!TypeOK
<1>2. CASE Proved!MarkSubmitted(i)
  <2>1. row[i] # Proved!Lifecycle!Absent /\ Proved!Submitted # Proved!Lifecycle!Absent
    BY <1>2 DEF Proved!MarkSubmitted, Proved!IInv, Proved!TaskInv, Proved!Pending,
                Proved!Submitted
  <2> QED BY <1>1, <1>2, <2>1 DEF Proved!MarkSubmitted, Proved!UpdateIntentStatus
<1>3. CASE Proved!GiveUp(i)
  BY <1>3 DEF Proved!GiveUp
<1>4. CASE Proved!Settle(i)
  <2>1. row[i] # Proved!Lifecycle!Absent /\ task[i].final # Proved!Lifecycle!Absent
    BY <1>4 DEF Proved!Settle, Proved!IInv, Proved!TaskInv, Proved!Confirmed, Proved!Failed,
                Proved!Lifecycle!Confirmed, Proved!Lifecycle!Failed
  <2> QED BY <1>1, <1>4, <2>1 DEF Proved!Settle, Proved!UpdateIntentStatus
<1> QED BY <1>2, <1>3, <1>4 DEF Proved!TaskWrites

(* TableInv and SourceInv are preserved by each kind of step. *)
LEMMA TableStep ==
    ASSUME IInv, Proved!IInv, TableInv, [ServiceNext]_serviceVars
    PROVE  TableInv'
<1> USE DEF TableInv
<1>0. /\ row \in [Executes -> Proved!Lifecycle!Record]
      /\ Pipeline!Pending # Pipeline!Lifecycle!Absent
  BY DEF Proved!IInv, Proved!TypeOK, Pipeline!Pending, Pipeline!Lifecycle!Pending,
         Pipeline!Lifecycle!Absent, Pipeline!Lifecycle!Row
<1>1. CASE UNCHANGED <<intents, row>>
  BY <1>1
<1>2. ASSUME NEW e \in Executes, Inserts(e) PROVE TableInv'
  BY <1>0, <1>2 DEF Inserts, InsertIntent
<1>3. ASSUME NEW e \in Executes, Pipeline!TaskWrites(e), UNCHANGED vars PROVE TableInv'
  <2>1. \A i \in Executes : row'[i] = Pipeline!Lifecycle!Absent
                                <=> row[i] = Pipeline!Lifecycle!Absent
    BY <1>3, SameHandler, SameRows, RowsRemain
  <2> QED BY <1>3, <2>1 DEF vars
<1>4. CASE Background
  <2>1. UNCHANGED <<intents, row>> \/ \E e \in Executes : Pipeline!TaskWrites(e)
    BY <1>4
       DEF Background, vars, Pipeline!Answered, Pipeline!SponsorOk, Pipeline!SponsorErr,
           Pipeline!SendOk, Pipeline!SendErr, Pipeline!PollReceipt, Pipeline!PollNull,
           Pipeline!PollNone, Pipeline!PollErr, Pipeline!BundlerStep,
           Pipeline!BundlerTakes, Pipeline!BundlerRefuses, Pipeline!Mine, Pipeline!Drop
  <2> QED BY <1>1, <1>3, <1>4, <2>1 DEF Background
<1>5. ASSUME NEW e \in Executes, Checks(e) \/ Spawns(e) \/ Leaves(e)
      PROVE  UNCHANGED <<intents, row>>
  BY <1>5 DEF Checks, Spawns, Leaves, pipelineVars, LoadSession, LoadOwner, LoadChain,
              Refuse, SpawnTask, Drop
<1>6. CASE RegistryStep \/ Restart \/ UNCHANGED serviceVars
  BY <1>1, <1>6 DEF RegistryStep, Restart, serviceVars, vars, pipelineVars
<1> QED BY <1>1, <1>2, <1>4, <1>5, <1>6 DEF ServiceNext

LEMMA SourceStep ==
    ASSUME Proved!IInv, SourceInv, [ServiceNext]_serviceVars
    PROVE  SourceInv'
<1> USE DEF SourceInv
<1>0. wire \in [Executes -> {"none", "inflight", "taken", "refused"}]
      /\ op \in [Ops -> Proved!OpState] /\ carried \in [Executes -> Ops]
  BY DEF Proved!IInv, Proved!TypeOK
<1>1. CASE UNCHANGED <<carried, wire, op>>
  BY <1>1
<1>2. ASSUME NEW e \in Executes, Pipeline!Answered(e) PROVE SourceInv'
  <2>1. /\ UNCHANGED <<carried, op>>
        /\ wire' = wire \/ (wire' = [wire EXCEPT ![e] = "inflight"] /\ task[e].pc = "sponsoring")
    BY <1>2
       DEF Pipeline!Answered, Pipeline!SponsorOk, Pipeline!SponsorErr, Pipeline!SendOk,
           Pipeline!SendErr, Pipeline!PollReceipt, Pipeline!PollNull, Pipeline!PollNone,
           Pipeline!PollErr
  <2>2. task[e].pc = "sponsoring" => wire[e] = "none"
    BY DEF Proved!IInv, Proved!WireInv
  <2> QED BY <1>0, <2>1, <2>2
<1>3. ASSUME NEW e \in Executes, Pipeline!BundlerTakes(e) PROVE SourceInv'
  BY <1>0, <1>3 DEF Pipeline!BundlerTakes
<1>4. ASSUME NEW e \in Executes, Pipeline!BundlerRefuses(e) PROVE SourceInv'
  BY <1>0, <1>4 DEF Pipeline!BundlerRefuses
<1>5. ASSUME NEW o \in Ops, Pipeline!Mine(o) \/ Pipeline!Drop(o) PROVE SourceInv'
  <2>1. /\ UNCHANGED <<carried, wire>> /\ op[o] = "held"
        /\ \A r \in Ops \ {o} : op'[r] = op[r]
    BY <1>0, <1>5 DEF Pipeline!Mine, Pipeline!Drop
  <2> QED BY <2>1
<1>6. ASSUME NEW e \in Executes, Pipeline!TaskWrites(e) PROVE SourceInv'
  BY <1>1, <1>6 DEF Pipeline!TaskWrites, Pipeline!MarkSubmitted, Pipeline!GiveUp,
                    Pipeline!Settle
<1>7. CASE Background
  BY <1>2, <1>3, <1>4, <1>5, <1>6, <1>7 DEF Background, Pipeline!BundlerStep
<1>8. ASSUME NEW e \in Executes, Checks(e) \/ Inserts(e) \/ Spawns(e) \/ Leaves(e)
      PROVE  SourceInv'
  BY <1>1, <1>8 DEF Checks, Inserts, Spawns, Leaves, pipelineVars
<1>9. CASE RegistryStep \/ Restart \/ UNCHANGED serviceVars
  BY <1>1, <1>9 DEF RegistryStep, Restart, serviceVars, pipelineVars
<1> QED BY <1>7, <1>8, <1>9 DEF ServiceNext

-----------------------------------------------------------------------------
(* Theorems about the service                                              *)

(* The server with its checks, its restarts and its time behaves as        *)
(* IntentPipeline says, which has the checks for a choice.                 *)
THEOREM PipelineTheorem == ServiceSpec => PipelineHolds
<1>1. ServiceInit => IInv /\ Pipeline!Init
  BY InitInv DEF ServiceInit
<1>2. IInv /\ [ServiceNext]_serviceVars => IInv' /\ [Pipeline!Next]_(Pipeline!vars)
  BY AdmissionInductive, ServiceMaps DEF IInv
<1> QED BY <1>1, <1>2, PTL DEF ServiceSpec, PipelineHolds, Pipeline!Spec

(* So what IntentPipelineProofs proves of the pipeline is true of it here. *)
LEMMA ServiceIsProved == ServiceSpec => Proved!Spec
<1>1. Pipeline!Init => Proved!Init
  BY SameSpec
<1>2. [Pipeline!Next]_(Pipeline!vars) => [Proved!Next]_(Proved!vars)
  BY SameSpec
<1>3. Pipeline!Spec => Proved!Spec
  BY <1>1, <1>2, PTL DEF Pipeline!Spec, Proved!Spec
<1> QED BY <1>3, PipelineTheorem DEF PipelineHolds

(* Both components' invariants, and what ties their states together.       *)
THEOREM ServiceInvariance == ServiceSpec => []ServiceInv
<1>1. ServiceInit => IInv /\ TableInv /\ SourceInv
  <2>1. ServiceInit => IInv
    BY InitInv DEF ServiceInit
  <2>2. ServiceInit => TableInv
    BY DEF ServiceInit, Init, TableInv, Pipeline!Init, Pipeline!Lifecycle!Init
  <2>3. ServiceInit => SourceInv
    BY DEF ServiceInit, SourceInv, Pipeline!Init
  <2> QED BY <2>1, <2>2, <2>3
<1>2. /\ IInv /\ Proved!IInv /\ TableInv /\ SourceInv
      /\ [ServiceNext]_serviceVars
      => IInv' /\ TableInv' /\ SourceInv'
  BY AdmissionInductive, TableStep, SourceStep
<1>3. ServiceSpec => []Proved!IInv
  BY ServiceIsProved, Proved!Invariance, ServiceAssumption, PTL
<1>4. IInv /\ Proved!IInv /\ TableInv /\ SourceInv <=> ServiceInv
  BY SameInv DEF ServiceInv
<1> QED BY <1>1, <1>2, <1>3, <1>4, PTL DEF ServiceSpec

(* However many creates race, and whatever restarts do to them, none of a  *)
(* user and chain is answered with another account than the rest.          *)
THEOREM OneAccountTheorem == ServiceSpec => []OneAccount
BY ServiceInvariance, OneAccountHolds, PTL DEF ServiceInv

(* Every intent in the table is within the scope of a session of its own   *)
(* user's account.                                                         *)
THEOREM ScopeTheorem == ServiceSpec => []ScopeKept
BY ServiceInvariance, ScopeHolds, PTL DEF ServiceInv

(* No check passes after the lifetime that was asked for, for 64-bit and   *)
(* any other width of integers.                                            *)
THEOREM LifetimeTheorem == ServiceSpec => []LifetimeKept
BY ServiceInvariance, LifetimeHolds, PTL DEF ServiceInv

(* No session is called expired before its time, if its end fits an i64.   *)
THEOREM ExpiryTheorem == ServiceSpec => []ExpiredIsDue
BY ServiceInvariance, ExpiryHolds, PTL DEF ServiceInv

(* Intents are booked on, and where possible handed to, the chain of their *)
(* session's account.                                                      *)
THEOREM ChainTheorem == ServiceSpec => []BookedOnItsChain
BY ServiceInvariance, ChainHolds, PTL DEF ServiceInv

(* Nothing reaches the bundler, and nothing is known of an operation, but  *)
(* by way of a call that was authorised and whose row is in the table.     *)
THEOREM AuthorisedTheorem == ServiceSpec => []OnlyAuthorised
<1>1. ASSUME IInv, Proved!IInv, SourceInv PROVE OnlyAuthorised
  <2>1. ASSUME NEW e \in Executes, wire[e] # "none" PROVE Authorised(e) /\ e \in intents
    <3>1. exec[e].pc = "accepted"
      BY <1>1, <2>1, SentIsAccepted
    <3>2. e \in intents
      BY <1>1, <3>1 DEF IInv, ExecInv
    <3>3. ScopeKept /\ LifetimeKept /\ BookedOnItsChain
      BY <1>1, ScopeHolds, LifetimeHolds, ChainHolds
    <3> QED BY <3>1, <3>2, <3>3 DEF Authorised, ScopeKept, LifetimeKept, BookedOnItsChain
  <2>2. ASSUME NEW o \in Ops, op[o] # "unknown"
        PROVE  \E e \in Executes : carried[e] = o /\ wire[e] = "taken" /\ Authorised(e)
    BY <1>1, <2>1, <2>2 DEF SourceInv
  <2> QED BY <2>1, <2>2 DEF OnlyAuthorised
<1>2. ServiceInv => OnlyAuthorised
  BY <1>1, SameInv DEF ServiceInv
<1> QED BY <1>2, ServiceInvariance, PTL

(* The two instances promise the same. *)
LEMMA SamePromises ==
    /\ Proved!HashMeansTaken <=> Pipeline!HashMeansTaken
    /\ Proved!BlockMeansMined <=> Pipeline!BlockMeansMined
    /\ Proved!OneWinnerPerNonce <=> Pipeline!OneWinnerPerNonce
    /\ Proved!StuckHasCause <=> Pipeline!StuckHasCause
    /\ Proved!NoSilentSubmission <=> Pipeline!NoSilentSubmission
<1> USE SameRows
    DEF Pipeline!StruckBy, Proved!StruckBy, Pipeline!Mined, Proved!Mined,
        Pipeline!Lifecycle!Open, Proved!Lifecycle!Open, Pipeline!Lifecycle!Pending,
        Proved!Lifecycle!Pending, Pipeline!Lifecycle!Submitted,
        Proved!Lifecycle!Submitted, Pipeline!Lifecycle!Row, Proved!Lifecycle!Row,
        Pipeline!Live, Proved!Live
<1>1. Proved!HashMeansTaken <=> Pipeline!HashMeansTaken
  BY DEF Pipeline!HashMeansTaken, Proved!HashMeansTaken
<1>2. Proved!BlockMeansMined <=> Pipeline!BlockMeansMined
  BY DEF Pipeline!BlockMeansMined, Proved!BlockMeansMined
<1>3. Proved!OneWinnerPerNonce <=> Pipeline!OneWinnerPerNonce
  BY DEF Pipeline!OneWinnerPerNonce, Proved!OneWinnerPerNonce
<1>4. Proved!StuckHasCause <=> Pipeline!StuckHasCause
  BY DEF Pipeline!StuckHasCause, Proved!StuckHasCause
<1>5. Proved!NoSilentSubmission <=> Pipeline!NoSilentSubmission
  BY DEF Pipeline!NoSilentSubmission, Proved!NoSilentSubmission
<1> QED BY <1>1, <1>2, <1>3, <1>4, <1>5

(* The promises of IntentPipeline, kept by the server with its checks. *)
THEOREM ServiceKeepsPromises ==
    ServiceSpec => /\ [](/\ Pipeline!HashMeansTaken /\ Pipeline!BlockMeansMined
                         /\ Pipeline!OneWinnerPerNonce
                         /\ Pipeline!StuckHasCause /\ Pipeline!NoSilentSubmission)
                   /\ Pipeline!SentAtMostOnce
                   /\ Pipeline!LifecycleHolds
<1>1. Proved!Spec => [](/\ Proved!HashMeansTaken /\ Proved!BlockMeansMined
                        /\ Proved!OneWinnerPerNonce
                        /\ Proved!StuckHasCause /\ Proved!NoSilentSubmission)
  BY ServiceAssumption, Proved!HashTheorem, Proved!BlockTheorem, Proved!NonceTheorem,
     Proved!StuckTheorem, Proved!SubmissionTheorem, PTL
<1>2. Proved!SentAtMostOnce => Pipeline!SentAtMostOnce
  <2> DEFINE Sends == \A i \in Executes :
                          wire'[i] = "inflight" => wire[i] \in {"none", "inflight"}
  <2>1. [Sends]_(Proved!vars) => [Sends]_(Pipeline!vars)
    BY SameSpec
  <2> QED BY <2>1, PTL DEF Proved!SentAtMostOnce, Pipeline!SentAtMostOnce
<1>3. Proved!LifecycleHolds => Pipeline!LifecycleHolds
  <2>1. Proved!Lifecycle!Init => Pipeline!Lifecycle!Init
    BY SameRows DEF Proved!Lifecycle!Init, Pipeline!Lifecycle!Init
  <2>2. [Proved!Lifecycle!Next]_row => [Pipeline!Lifecycle!Next]_row
    BY SameRows DEF Proved!Lifecycle!Next, Pipeline!Lifecycle!Next,
                    Proved!Lifecycle!Accept, Pipeline!Lifecycle!Accept,
                    Proved!Lifecycle!Submit, Pipeline!Lifecycle!Submit,
                    Proved!Lifecycle!Settle, Pipeline!Lifecycle!Settle,
                    Proved!Lifecycle!Open, Pipeline!Lifecycle!Open,
                    Proved!Lifecycle!Hash, Pipeline!Lifecycle!Hash,
                    Proved!Lifecycle!Block, Pipeline!Lifecycle!Block,
                    Proved!Lifecycle!Pending, Pipeline!Lifecycle!Pending,
                    Proved!Lifecycle!Submitted, Pipeline!Lifecycle!Submitted,
                    Proved!Lifecycle!Confirmed, Pipeline!Lifecycle!Confirmed,
                    Proved!Lifecycle!Failed, Pipeline!Lifecycle!Failed,
                    Proved!Lifecycle!Row, Pipeline!Lifecycle!Row
  <2> QED BY <2>1, <2>2, PTL DEF Proved!LifecycleHolds, Pipeline!LifecycleHolds,
                                 Proved!Lifecycle!Spec, Pipeline!Lifecycle!Spec
<1> QED BY <1>1, <1>2, <1>3, ServiceIsProved, ServiceAssumption, SamePromises,
           Proved!SendTheorem, Proved!Refinement, PTL

==============================================================================
