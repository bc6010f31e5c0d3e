------------------------------- MODULE Registry -------------------------------
(***************************************************************************)
(* Accounts and session keys (server/src/routes/account.rs, session_key.rs,*)
(* models/session.rs): who may use which smart account, and the scope and  *)
(* the lifetime under which a session key acts for it.                     *)
(*                                                                         *)
(* A call is one request, whose body is fixed; the id of a row is the call *)
(* that inserted it, as Uuid::new_v4 never repeats one.  Rows are never    *)
(* changed or deleted, so a table is the set of the ids it holds and a     *)
(* row's other columns are found in the call.  Each statement is an await: *)
(* a step is one statement and the code that follows it.  The caller's     *)
(* identity is what AuthUser found (module Auth).                          *)
(***************************************************************************)
EXTENDS Integers

CONSTANTS
    Creates,    \* calls of POST /account/create
    Issues,     \* calls of POST /session-key/issue
    Users,
    Chains,     \* the names a client may write as an account's chain
    Scopes,     \* what a session key may be allowed to do
    Unparsable, \* a max_value_wei that is no number
    Ttls,       \* ttl_seconds, a u64
    Half,       \* 2^63: an i64 is in -Half..(Half - 1), a u64 below 2 * Half
    MaxClock    \* bound of the clock

ASSUME WordAssumption ==
    /\ Half \in Nat /\ MaxClock \in Nat /\ MaxClock < Half
    /\ Ttls \subseteq 0..(2 * Half - 1)

VARIABLES
    clock,      \* Utc::now().timestamp()
    createBody, \* createBody[c] = the caller of create c and its chain
    create,     \* create[c]     = where create c stands
    told,       \* told[c]       = the account id create c was answered with
    accounts,   \* the table of accounts
    issueBody,  \* issueBody[s]  = the caller of issue s and its request
    issue,      \* issue[s]      = where issue s stands and the times it computed
    sessions    \* the table of sessions

registryVars ==
    <<clock, createBody, create, told, accounts, issueBody, issue, sessions>>

NoAccount == "none"

CreatePc == {"selecting", "inserting", "answered", "conflict", "ended"}
IssuePc  == {"selecting", "inserting", "ended"}
Time     == (-Half)..(Half - 1)

RegistryTypeOK ==
    /\ clock \in 0..MaxClock
    /\ createBody \in [Creates -> [user : Users, chain : Chains]]
    /\ create \in [Creates -> CreatePc]
    /\ told \in [Creates -> Creates \cup {NoAccount}]
    /\ accounts \in SUBSET Creates
    /\ issueBody \in [Issues -> [user : Users, account : Creates,
                                 scope : Scopes, ttl_seconds : Ttls]]
    /\ issue \in [Issues -> [pc : IssuePc, created_at : 0..MaxClock, expires_at : Time]]
    /\ sessions \in SUBSET Issues

RegistryInit ==
    /\ clock = 0
    /\ createBody \in [Creates -> [user : Users, chain : Chains]]
    /\ create = [c \in Creates |-> "selecting"]
    /\ told = [c \in Creates |-> NoAccount]
    /\ accounts = {}
    /\ issueBody \in [Issues -> [user : Users, account : Creates,
                                 scope : Scopes, ttl_seconds : Ttls]]
    /\ issue = [s \in Issues |-> [pc |-> "selecting", created_at |-> 0, expires_at |-> 0]]
    /\ sessions = {}

-----------------------------------------------------------------------------
(* create                                                                  *)

(* The id of the account that a statement finds for the caller and chain. *)
Existing(c, a) == a \in accounts /\ createBody[a] = createBody[c]

Answer(c, a) ==
    /\ create' = [create EXCEPT ![c] = "answered"]
    /\ told' = [told EXCEPT ![c] = a]

SelectAccount(c) ==
    /\ create[c] = "selecting"
    /\ \/ \E a \in accounts : Existing(c, a) /\ Answer(c, a)
       \/ /\ \A a \in accounts : ~Existing(c, a)
          /\ create' = [create EXCEPT ![c] = "inserting"]
          /\ UNCHANGED told
    /\ UNCHANGED <<clock, createBody, accounts, issueBody, issue, sessions>>

(* Mutant: the table has no UNIQUE(user_id, chain). *)
InsertAccount_Unconstrained(c) ==
    /\ create[c] = "inserting"
    /\ accounts' = accounts \cup {c}
    /\ Answer(c, c)
    /\ UNCHANGED <<clock, createBody, issueBody, issue, sessions>>

(* The INSERT, whose answer may no longer find its client.  UNIQUE(user_id,*)
(* chain) fails it when another create was faster: a database error.       *)
InsertAccount(c) ==
    /\ create[c] = "inserting"
    /\ IF \E a \in accounts : Existing(c, a)
       THEN /\ create' = [create EXCEPT ![c] = "conflict"]
            /\ UNCHANGED <<told, accounts>>
       ELSE /\ accounts' = accounts \cup {c}
            /\ \/ Answer(c, c)
               \/ create' = [create EXCEPT ![c] = "ended"] /\ UNCHANGED told
    /\ UNCHANGED <<clock, createBody, issueBody, issue, sessions>>

(* An address that is none, a database error, a client that left, the end  *)
(* of the process.                                                         *)
EndCreate(c) ==
    /\ create[c] \in {"selecting", "inserting"}
    /\ create' = [create EXCEPT ![c] = "ended"]
    /\ UNCHANGED <<clock, createBody, told, accounts, issueBody, issue, sessions>>

-----------------------------------------------------------------------------
(* issue                                                                   *)

(* A number as a 64-bit register holds it: `as i64` of a u64, and the sum  *)
(* of two i64 in a release build.                                          *)
Signed(n) == IF n >= Half THEN n - 2 * Half ELSE n

ExpiresAt(now, ttl_seconds) == Signed(now + Signed(ttl_seconds))

(* Mutant: whose account it is goes unasked. *)
SelectOwner_Unasked(s) ==
    LET body == issueBody[s]
    IN  /\ issue[s].pc = "selecting"
        /\ body.account \in accounts
        /\ issue' = [issue EXCEPT ![s] =
               [pc |-> "inserting", created_at |-> clock,
                expires_at |-> ExpiresAt(clock, body.ttl_seconds)]]
        /\ UNCHANGED <<clock, createBody, create, told, accounts, issueBody, sessions>>

(* The account must exist and be the caller's; then the times are fixed.   *)
(* (A debug build panics on a sum that overflows: EndIssue.)               *)
SelectOwner(s) ==
    LET body == issueBody[s]
    IN  /\ issue[s].pc = "selecting"
        /\ body.account \in accounts
        /\ createBody[body.account].user = body.user
        /\ issue' = [issue EXCEPT ![s] =
               [pc |-> "inserting", created_at |-> clock,
                expires_at |-> ExpiresAt(clock, body.ttl_seconds)]]
        /\ UNCHANGED <<clock, createBody, create, told, accounts, issueBody, sessions>>

InsertSession(s) ==
    /\ issue[s].pc = "inserting"
    /\ sessions' = sessions \cup {s}
    /\ issue' = [issue EXCEPT ![s].pc = "ended"]
    /\ UNCHANGED <<clock, createBody, create, told, accounts, issueBody>>

(* Another's account or none, a database error, a client that left, the    *)
(* end of the process.                                                     *)
EndIssue(s) ==
    /\ issue[s].pc \in {"selecting", "inserting"}
    /\ issue' = [issue EXCEPT ![s].pc = "ended"]
    /\ UNCHANGED <<clock, createBody, create, told, accounts, issueBody, sessions>>

-----------------------------------------------------------------------------
(* What a session row says (DbSession)                                     *)

(* Mutant: a session is over one second late. *)
IsExpired_Late(s) == clock > issue[s].expires_at + 1

is_expired(s) == clock > issue[s].expires_at

max_value(s) ==
    LET wei == issueBody[s].scope.max_value_wei
    IN  IF wei = Unparsable THEN 0 ELSE wei

-----------------------------------------------------------------------------

Tick ==
    /\ clock < MaxClock
    /\ clock' = clock + 1
    /\ UNCHANGED <<createBody, create, told, accounts, issueBody, issue, sessions>>

RegistryNext ==
    \/ \E c \in Creates : SelectAccount(c) \/ InsertAccount(c) \/ EndCreate(c)
    \/ \E s \in Issues : SelectOwner(s) \/ InsertSession(s) \/ EndIssue(s)
    \/ Tick

-----------------------------------------------------------------------------
(* Properties                                                              *)

(* One account per user and chain: creates raced by one user are never     *)
(* answered with two different accounts, and an account once answered is   *)
(* in the table under its user and chain.                                  *)
OneAccount ==
    \A c, d \in Creates :
        /\ told[c] # NoAccount =>
               told[c] \in accounts /\ createBody[told[c]] = createBody[c]
        /\ createBody[c] = createBody[d] /\ NoAccount \notin {told[c], told[d]}
               => told[c] = told[d]

==============================================================================
