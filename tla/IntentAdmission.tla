---------------------------- MODULE IntentAdmission ----------------------------
(***************************************************************************)
(* What POST /intent/execute asks before it takes an intent (server/src/   *)
(* routes/intent.rs, execute; routes/mod.rs, chain_for), while accounts    *)
(* and sessions come into being and the clock runs: the session, its       *)
(* expiry and scope, the account's owner and the account's chain are read  *)
(* by different statements, and the row is inserted after the last.        *)
(* IntentPipeline goes on from there with its checks as a choice, and      *)
(* IntentService puts the two together.                                    *)
(***************************************************************************)
EXTENDS Registry

CONSTANTS
    Executes,   \* calls of POST /intent/execute; also the ids of their rows
    Targets,
    Selectors,  \* the first four bytes of a calldata
    Values,     \* amounts of wei
    Base,       \* the chain that is always configured
    Configured  \* the chains with an adapter

ASSUME ScopeAssumption ==
    /\ Scopes \subseteq [targets : SUBSET Targets, selectors : SUBSET Selectors,
                         max_value_wei : Values \cup {Unparsable}]
    /\ Values \subseteq Nat
ASSUME BaseAssumption == Base \in Chains /\ Base \in Configured

VARIABLES
    execBody,   \* execBody[e] = the caller of execute e and its request
    exec,       \* exec[e]     = where execute e stands and what it has read
    intents     \* the table of intents

vars == <<registryVars, execBody, exec, intents>>

ExecPc == {"session", "owner", "chain", "inserting", "inserted", "accepted",
           "expired", "refused", "dropped"}
Body   == [user : Users, session : Issues, target : Targets,
           selector : Selectors, value : Values]

TypeOK ==
    /\ RegistryTypeOK
    /\ execBody \in [Executes -> Body]
    /\ exec \in [Executes -> [pc : ExecPc, chain : Chains, checked_at : 0..MaxClock,
                              adapter : Chains \cup Configured]]
    /\ intents \in SUBSET Executes

Init ==
    /\ RegistryInit
    /\ execBody \in [Executes -> Body]
    /\ exec = [e \in Executes |-> [pc |-> "session", chain |-> Base,
                                   checked_at |-> 0, adapter |-> Base]]
    /\ intents = {}

(* The account and the user that a session belongs to. *)
AccountOf(s) == issueBody[s].account
OwnerOf(s)   == createBody[AccountOf(s)].user

InScope(body) ==
    /\ body.target \in issueBody[body.session].scope.targets
    /\ body.value <= max_value(body.session)

(* The session is read; it must exist, be alive, and its scope allow the   *)
(* request.  Its selectors are not looked at.                              *)
LoadSession(e) ==
    LET body == execBody[e]
    IN  /\ exec[e].pc = "session"
        /\ body.session \in sessions
        /\ IF is_expired(body.session)
           THEN exec' = [exec EXCEPT ![e].pc = "expired", ![e].checked_at = clock]
           ELSE /\ InScope(body)
                /\ exec' = [exec EXCEPT ![e].pc = "owner", ![e].checked_at = clock]
        /\ UNCHANGED <<registryVars, execBody, intents>>

(* Mutant: a session found is taken for the caller's own. *)
LoadOwner_Unasked(e) ==
    /\ exec[e].pc = "owner"
    /\ exec' = [exec EXCEPT ![e].pc = "chain"]
    /\ UNCHANGED <<registryVars, execBody, intents>>

(* The session's account must be the caller's. *)
LoadOwner(e) ==
    LET body == execBody[e]
    IN  /\ exec[e].pc = "owner"
        /\ AccountOf(body.session) \in accounts
        /\ OwnerOf(body.session) = body.user
        /\ exec' = [exec EXCEPT ![e].pc = "chain"]
        /\ UNCHANGED <<registryVars, execBody, intents>>

(* Mutant: every intent is booked on Base. *)
LoadChain_Base(e) ==
    /\ exec[e].pc = "chain"
    /\ exec' = [exec EXCEPT ![e].pc = "inserting", ![e].chain = Base]
    /\ UNCHANGED <<registryVars, execBody, intents>>

LoadChain(e) ==
    LET account == AccountOf(execBody[e].session)
    IN  /\ exec[e].pc = "chain"
        /\ exec' = [exec EXCEPT ![e].pc = "inserting",
                      ![e].chain = IF account \in accounts
                                   THEN createBody[account].chain ELSE Base]
        /\ UNCHANGED <<registryVars, execBody, intents>>

InsertIntent(e) ==
    /\ exec[e].pc = "inserting"
    /\ intents' = intents \cup {e}
    /\ exec' = [exec EXCEPT ![e].pc = "inserted"]
    /\ UNCHANGED <<registryVars, execBody>>

chain_for(name) == IF name \in Configured THEN name ELSE Base

(* The handler resumes, picks the adapter, spawns the task and answers. *)
SpawnTask(e) ==
    /\ exec[e].pc = "inserted"
    /\ exec' = [exec EXCEPT ![e].pc = "accepted", ![e].adapter = chain_for(exec[e].chain)]
    /\ UNCHANGED <<registryVars, execBody, intents>>

(* Mutant: an intent that was inserted is refused. *)
Refuse_Late(e) ==
    /\ exec[e].pc \in {"session", "owner", "chain", "inserting", "inserted"}
    /\ exec' = [exec EXCEPT ![e].pc = "refused"]
    /\ UNCHANGED <<registryVars, execBody, intents>>

(* An error answer, after any of the statements: the limiter, a check, or  *)
(* the database said no.                                                   *)
Refuse(e) ==
    /\ exec[e].pc \in {"session", "owner", "chain", "inserting"}
    /\ exec' = [exec EXCEPT ![e].pc = "refused"]
    /\ UNCHANGED <<registryVars, execBody, intents>>

(* The client left or the process ended. *)
Drop(e) ==
    /\ exec[e].pc \in {"session", "owner", "chain", "inserting", "inserted"}
    /\ exec' = [exec EXCEPT ![e].pc = "dropped"]
    /\ UNCHANGED <<registryVars, execBody, intents>>

ExecuteStep(e) ==
    \/ LoadSession(e) \/ LoadOwner(e) \/ LoadChain(e) \/ InsertIntent(e)
    \/ SpawnTask(e) \/ Refuse(e) \/ Drop(e)

Next ==
    \/ RegistryNext /\ UNCHANGED <<execBody, exec, intents>>
    \/ \E e \in Executes : ExecuteStep(e)

Spec == Init /\ [][Next]_vars

-----------------------------------------------------------------------------
(* Properties                                                              *)

(* Every intent in the table acts within a session that its own user was   *)
(* issued for an account of his: the target is one of the session's and    *)
(* the value within its limit, although session, account and row are read  *)
(* and written by four statements.                                         *)
ScopeKept ==
    \A e \in intents :
        LET body == execBody[e] IN
        /\ body.session \in sessions
        /\ InScope(body)
        /\ AccountOf(body.session) \in accounts
        /\ body.user = OwnerOf(body.session)
        /\ body.user = issueBody[body.session].user

(* No intent is admitted by a check made after the lifetime its session    *)
(* was asked for, whatever 64-bit arithmetic made of that lifetime.  (The  *)
(* row may be inserted later than that: the check is three statements old.)*)
LifetimeKept ==
    \A e \in intents :
        LET s == execBody[e].session IN
        exec[e].checked_at <= issue[s].created_at + issueBody[s].ttl_seconds

(* "session_expired" is answered only after the lifetime that was asked    *)
(* for, unless that does not fit an i64.                                   *)
ExpiredIsDue ==
    \A e \in Executes :
        LET s   == execBody[e].session
            due == issue[s].created_at + issueBody[s].ttl_seconds
        IN  exec[e].pc = "expired" => exec[e].checked_at > due \/ due >= Half

(* An intent is booked on the chain of its session's account, and handed   *)
(* to that chain's adapter if there is one.                                *)
BookedOnItsChain ==
    \A e \in intents :
        LET chain == createBody[AccountOf(execBody[e].session)].chain IN
        /\ exec[e].chain = chain
        /\ exec[e].pc = "accepted" /\ chain \in Configured => exec[e].adapter = chain

-----------------------------------------------------------------------------
(* The inductive invariant                                                 *)

(* What is true of the rows, whoever reads them. *)
RowInv ==
    /\ \A a, b \in accounts : createBody[a] = createBody[b] => a = b
    /\ \A a \in accounts : create[a] \in {"answered", "ended"}
    /\ \A c \in Creates : told[c] # NoAccount =>
           told[c] \in accounts /\ createBody[told[c]] = createBody[c]
    /\ \A s \in Issues : issue[s].pc = "inserting" \/ s \in sessions =>
           /\ AccountOf(s) \in accounts
           /\ OwnerOf(s) = issueBody[s].user
           /\ issue[s].expires_at = ExpiresAt(issue[s].created_at, issueBody[s].ttl_seconds)
    /\ \A s \in sessions : issue[s].pc = "ended"

(* What a call that got so far has found out. *)
ExecInv ==
    \A e \in Executes :
        LET body == execBody[e]
            past(states) == exec[e].pc \in states \/ e \in intents
        IN  /\ past({"owner", "chain", "inserting", "inserted", "accepted"}) =>
                   /\ body.session \in sessions
                   /\ InScope(body)
                   /\ exec[e].checked_at <= issue[body.session].expires_at
            /\ exec[e].pc = "expired" =>
                   /\ body.session \in sessions
                   /\ exec[e].checked_at > issue[body.session].expires_at
            /\ past({"chain", "inserting", "inserted", "accepted"}) =>
                   OwnerOf(body.session) = body.user
            /\ past({"inserting", "inserted", "accepted"}) =>
                   exec[e].chain = createBody[AccountOf(body.session)].chain
            /\ exec[e].pc = "accepted" => exec[e].adapter = chain_for(exec[e].chain)
            /\ exec[e].pc \in {"inserted", "accepted"} => e \in intents
            /\ e \in intents => exec[e].pc \in {"inserted", "accepted", "dropped"}

IInv == TypeOK /\ RowInv /\ ExecInv

-----------------------------------------------------------------------------
(* Promises of the documents that the code does not keep                   *)

(* "allowed_selectors: server validates calldata prefix (first 4 bytes)"   *)
(* (security-model.md): an intent calls what its session allows.           *)
SelectorKept ==
    \A e \in intents :
        execBody[e].selector \in issueBody[execBody[e].session].scope.selectors

==============================================================================
