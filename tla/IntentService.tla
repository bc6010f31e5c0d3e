----------------------------- MODULE IntentService -----------------------------
(***************************************************************************)
(* POST /intent/execute from its checks to the chain (server/src/routes/   *)
(* intent.rs): IntentAdmission's handler, with the row it inserts, the     *)
(* task it spawns and the operation that the task submits, which are       *)
(* IntentPipeline's.  There the checks are a choice and here they are what *)
(* they are; a restart ends every call of the server at once.              *)
(*                                                                         *)
(* The operation itself is opaque to the server: execute compares its      *)
(* target and value nowhere with those of the request.                     *)
(***************************************************************************)
EXTENDS IntentAdmission

CONSTANTS
    Ops,        \* signed user operations
    NonceOf,    \* NonceOf[o] = the account nonce operation o was signed with
    MaxPolls    \* attempts of the receipt loop

ASSUME ServiceAssumption == MaxPolls \in Nat \ {0}

VARIABLES carried, row, task, wire, op, mishap  \* as in IntentPipeline

pipelineVars == <<carried, row, task, wire, op, mishap>>
serviceVars  == <<vars, pipelineVars>>

(* Where IntentPipeline takes the handler to be. *)
HandlerState(pc) ==
    IF pc \in {"session", "owner", "chain"} THEN "checking"
    ELSE IF pc = "expired" THEN "refused" ELSE pc

Pipeline == INSTANCE IntentPipeline WITH
    Intents <- Executes,
    call    <- [e \in Executes |-> HandlerState(exec[e].pc)]

ServiceInit == Init /\ Pipeline!Init

(* The calls of create and issue. *)
RegistryStep ==
    /\ RegistryNext
    /\ UNCHANGED <<execBody, exec, intents, pipelineVars>>

(* The handler up to its INSERT, the INSERT, the spawn, and its end. *)
Checks(e) ==
    /\ LoadSession(e) \/ LoadOwner(e) \/ LoadChain(e) \/ Refuse(e)
    /\ UNCHANGED pipelineVars

Inserts(e) ==
    /\ InsertIntent(e)
    /\ row' = [row EXCEPT ![e] = Pipeline!Pending]
    /\ UNCHANGED <<carried, task, wire, op, mishap>>

(* Mutant: the task is spawned before the owner is asked for. *)
Spawns_Early(e) ==
    /\ SpawnTask(e) \/ LoadOwner(e)
    /\ task' = [task EXCEPT ![e] = Pipeline!Task("sponsoring")]
    /\ UNCHANGED <<carried, row, wire, op, mishap>>

Spawns(e) ==
    /\ SpawnTask(e)
    /\ task' = [task EXCEPT ![e] = Pipeline!Task("sponsoring")]
    /\ UNCHANGED <<carried, row, wire, op, mishap>>

Leaves(e) ==
    /\ Drop(e)
    /\ mishap' = [mishap EXCEPT ![e] = @ \cup {"client_gone"}]
    /\ UNCHANGED <<carried, row, task, wire, op>>

(* The task, the bundler and the chain. *)
Background ==
    /\ UNCHANGED vars
    /\ \/ \E e \in Executes : \/ Pipeline!TaskWrites(e) \/ Pipeline!Answered(e)
                              \/ Pipeline!BundlerStep(e)
       \/ \E o \in Ops : Pipeline!Mine(o) \/ Pipeline!Drop(o)

(* The process dies and is started again: the tables and the world remain. *)
(* A call at its first statement is one that is made afterwards; one that  *)
(* was made before can end by itself.                                      *)
Restart ==
    LET serving(e) == exec[e].pc \in {"owner", "chain", "inserting", "inserted"}
        busy(e)    == task[e].pc \in Pipeline!Live
    IN  /\ create' = [c \in Creates |-> IF create[c] = "inserting" THEN "ended"
                                        ELSE create[c]]
        /\ issue' = [s \in Issues |-> IF issue[s].pc = "inserting"
                                      THEN [issue[s] EXCEPT !.pc = "ended"]
                                      ELSE issue[s]]
        /\ exec' = [e \in Executes |-> IF serving(e)
                                       THEN [exec[e] EXCEPT !.pc = "dropped"]
                                       ELSE exec[e]]
        /\ task' = [e \in Executes |-> IF busy(e) THEN Pipeline!Task("killed") ELSE task[e]]
        /\ mishap' = [e \in Executes |-> IF serving(e) \/ busy(e)
                                         THEN mishap[e] \cup {"killed"} ELSE mishap[e]]
        /\ UNCHANGED <<clock, createBody, told, accounts, issueBody, sessions,
                       execBody, intents, carried, row, wire, op>>

ServiceNext ==
    \/ RegistryStep
    \/ \E e \in Executes : Checks(e) \/ Inserts(e) \/ Spawns(e) \/ Leaves(e)
    \/ Background
    \/ Restart

ServiceSpec == ServiceInit /\ [][ServiceNext]_serviceVars

-----------------------------------------------------------------------------
(* Properties                                                              *)

(* A call whose user was issued the session it names for an account of     *)
(* his, whose target and value that session allows, and that is handed to  *)
(* the adapter of the account's chain if there is one.                     *)
Authorised(e) ==
    LET body  == execBody[e]
        chain == createBody[AccountOf(body.session)].chain
    IN  /\ body.session \in sessions /\ InScope(body)
        /\ AccountOf(body.session) \in accounts
        /\ body.user = OwnerOf(body.session)
        /\ body.user = issueBody[body.session].user
        /\ exec[e].checked_at <=
               issue[body.session].created_at + issueBody[body.session].ttl_seconds
        /\ chain \in Configured => exec[e].adapter = chain

(* Nothing is sent to the bundler but for an authorised call whose row is  *)
(* in the table, and nothing the bundler or the chain has of an operation  *)
(* came there otherwise: not from a call that was refused or dropped at    *)
(* any of its statements, nor by way of a restart.                         *)
OnlyAuthorised ==
    /\ \A e \in Executes : wire[e] # "none" => Authorised(e) /\ e \in intents
    /\ \A o \in Ops : op[o] # "unknown" =>
           \E e \in Executes : carried[e] = o /\ wire[e] = "taken" /\ Authorised(e)

(* What IntentPipeline says of the server holds of the server with its     *)
(* checks: every step is one of its steps or none of its business.         *)
PipelineHolds == Pipeline!Spec

-----------------------------------------------------------------------------
(* The inductive invariant                                                 *)

(* A row is in the table as soon as the pipeline knows of it, and what the *)
(* bundler knows of an operation it has from a request that it took.       *)
TableInv == \A e \in Executes : e \in intents <=> row[e] # Pipeline!Lifecycle!Absent
SourceInv ==
    \A o \in Ops : op[o] # "unknown" =>
        \E e \in Executes : carried[e] = o /\ wire[e] = "taken"

ServiceInv == IInv /\ Pipeline!IInv /\ TableInv /\ SourceInv

==============================================================================
