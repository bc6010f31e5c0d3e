---------------------------- MODULE IntentPipeline ----------------------------
(***************************************************************************)
(* The life of an intent inside the server (server/src/routes/intent.rs,   *)
(* chain.rs): the execute handler inserts a row and spawns a background    *)
(* task; the task has the operation sponsored, sends it to the bundler,    *)
(* polls for its receipt and writes what it learns into the row.           *)
(*                                                                         *)
(* Every await of the code is a point where other tasks run, the client    *)
(* goes away or the process dies, so each is a step of its own here: the   *)
(* INSERT and the spawn, a request and its answer, an answer and the       *)
(* UPDATE that records it.  Which requests execute admits is the subject   *)
(* of its own checks (session, owner, scope, rate limit); here both        *)
(* verdicts are possible.  The bundler and the chain are external: they    *)
(* take, refuse, mine, revert or drop an operation, and answer or fail.    *)
(***************************************************************************)
EXTENDS Naturals

CONSTANTS
    Intents,    \* calls of POST /intent/execute; also the ids of their rows
    Ops,        \* signed user operations
    NonceOf,    \* NonceOf[o] = the account nonce operation o was signed with
    MaxPolls    \* attempts of the receipt loop (30 in the code)

ASSUME MaxPollsAssumption == MaxPolls \in Nat \ {0}

VARIABLES
    carried,    \* carried[i] = the operation in the body of call i
    call,       \* call[i]    = where the handler of call i stands
    row,        \* row[i]     = the row of intent i in the database
    task,       \* task[i]    = the background task of intent i
    wire,       \* wire[i]    = the eth_sendUserOperation request of intent i
    op,         \* op[o]      = what became of operation o (bundler and chain)
    mishap      \* mishap[i]  = the faults that struck intent i (history)

vars == <<carried, call, row, task, wire, op, mishap>>

(* The rows' values and the promise about them. *)
Lifecycle == INSTANCE IntentLifecycle WITH record <- row

Pending   == Lifecycle!Pending
Submitted == Lifecycle!Submitted
Confirmed(block) == Lifecycle!Confirmed(block)
Failed(hash)     == Lifecycle!Failed(hash)

CallState == {"checking", "inserting", "inserted", "accepted", "refused", "dropped"}
TaskPc == {"none", "sponsoring", "sending", "marking", "polling", "settling",
           "done", "killed"}
Live   == {"sponsoring", "sending", "marking", "polling", "settling"}
OpState == {"unknown", "held", "mined", "reverted", "dropped"}
Mined  == {"mined", "reverted"}     \* included in a block, with a receipt
Mishap == {"client_gone", "killed", "reply_lost", "update_lost"}

(* A task's locals: the polls made, and the row its last UPDATE will write. *)
Task(pc)        == [pc |-> pc, polls |-> 0, final |-> Lifecycle!Absent]
Polling(n)      == [pc |-> "polling", polls |-> n, final |-> Lifecycle!Absent]
Settling(final) == [pc |-> "settling", polls |-> 0, final |-> final]

TaskRecord == [pc : TaskPc, polls : 0..MaxPolls, final : Lifecycle!Record]

TypeOK ==
    /\ carried \in [Intents -> Ops]
    /\ call \in [Intents -> CallState]
    /\ row \in [Intents -> Lifecycle!Record]
    /\ task \in [Intents -> TaskRecord]
    /\ wire \in [Intents -> {"none", "inflight", "taken", "refused"}]
    /\ op \in [Ops -> OpState]
    /\ mishap \in [Intents -> SUBSET Mishap]

Init ==
    /\ carried \in [Intents -> Ops]
    /\ call = [i \in Intents |-> "checking"]
    /\ Lifecycle!Init
    /\ task = [i \in Intents |-> Task("none")]
    /\ wire = [i \in Intents |-> "none"]
    /\ op = [o \in Ops |-> "unknown"]
    /\ mishap = [i \in Intents |-> {}]

StruckBy(i, M) == \E m \in M : m \in mishap[i]
Struck(i, m) == mishap' = [mishap EXCEPT ![i] = @ \cup {m}]

-----------------------------------------------------------------------------
(* execute: the handler                                                    *)

Admit(i) ==
    /\ call[i] = "checking"
    /\ call' = [call EXCEPT ![i] = "inserting"]
    /\ UNCHANGED <<carried, row, task, wire, op, mishap>>

(* A check fails, or the INSERT does: an error answer and no row. *)
Refuse(i) ==
    /\ call[i] \in {"checking", "inserting"}
    /\ call' = [call EXCEPT ![i] = "refused"]
    /\ UNCHANGED <<carried, row, task, wire, op, mishap>>

(* The database executes the INSERT; the handler has yet to resume. *)
InsertIntent(i) ==
    /\ call[i] = "inserting"
    /\ call' = [call EXCEPT ![i] = "inserted"]
    /\ row' = [row EXCEPT ![i] = Pending]
    /\ UNCHANGED <<carried, task, wire, op, mishap>>

(* The handler resumes, spawns the task and answers 202. *)
SpawnTask(i) ==
    /\ call[i] = "inserted"
    /\ call' = [call EXCEPT ![i] = "accepted"]
    /\ task' = [task EXCEPT ![i] = Task("sponsoring")]
    /\ UNCHANGED <<carried, row, wire, op, mishap>>

(* The client disconnects: hyper drops the handler's future at its await.  *)
(* A row inserted before that has no task.                                 *)
ClientGone(i) ==
    /\ call[i] \in {"checking", "inserting", "inserted"}
    /\ call' = [call EXCEPT ![i] = "dropped"]
    /\ Struck(i, "client_gone")
    /\ UNCHANGED <<carried, row, task, wire, op>>

-----------------------------------------------------------------------------
(* submit_to_bundler: the background task                                  *)

SponsorOk(i) ==
    /\ task[i].pc = "sponsoring"
    /\ task' = [task EXCEPT ![i] = Task("sending")]
    /\ wire' = [wire EXCEPT ![i] = "inflight"]
    /\ UNCHANGED <<carried, call, row, op, mishap>>

SponsorErr(i) ==
    /\ task[i].pc = "sponsoring"
    /\ task' = [task EXCEPT ![i] = Settling(Failed("null"))]
    /\ UNCHANGED <<carried, call, row, wire, op, mishap>>

(* Mutant: the hash is recorded as soon as the request is sent. *)
SendOk_Unanswered(i) ==
    /\ task[i].pc = "sending"
    /\ task' = [task EXCEPT ![i] = Task("marking")]
    /\ UNCHANGED <<carried, call, row, wire, op, mishap>>

(* The bundler's answer with the hash arrives. *)
SendOk(i) ==
    /\ task[i].pc = "sending"
    /\ wire[i] = "taken"
    /\ task' = [task EXCEPT ![i] = Task("marking")]
    /\ UNCHANGED <<carried, call, row, wire, op, mishap>>

(* An error arrives: the bundler's refusal, or a transport error that says *)
(* nothing of what the bundler did or will do with the request.            *)
SendErr(i) ==
    /\ task[i].pc = "sending"
    /\ task' = [task EXCEPT ![i] = Settling(Failed("null"))]
    /\ IF wire[i] = "refused" THEN UNCHANGED mishap ELSE Struck(i, "reply_lost")
    /\ UNCHANGED <<carried, call, row, wire, op>>

(* The UPDATE of update_intent_status: unconditional, its error swallowed. *)
UpdateIntentStatus(i, new) ==
    \/ /\ row' = [row EXCEPT ![i] = new]
       /\ UNCHANGED mishap
    \/ /\ Struck(i, "update_lost")
       /\ UNCHANGED row

MarkSubmitted(i) ==
    /\ task[i].pc = "marking"
    /\ UpdateIntentStatus(i, Submitted)
    /\ task' = [task EXCEPT ![i] = Polling(0)]
    /\ UNCHANGED <<carried, call, wire, op>>

(* Mutant: the receipt is looked up by nonce instead of by hash. *)
PollReceipt_ByNonce(i) ==
    /\ task[i].pc = "polling"
    /\ \E o \in Ops : NonceOf[o] = NonceOf[carried[i]] /\ op[o] \in Mined
    /\ task' = [task EXCEPT ![i] = Settling(Confirmed("block"))]
    /\ UNCHANGED <<carried, call, row, wire, op, mishap>>

(* A poll of an operation in a block: its receipt, whose success field the *)
(* code does not read.                                                     *)
PollReceipt(i) ==
    /\ task[i].pc = "polling"
    /\ task[i].polls < MaxPolls
    /\ op[carried[i]] \in Mined
    /\ task' = [task EXCEPT ![i] = Settling(Confirmed("block"))]
    /\ UNCHANGED <<carried, call, row, wire, op, mishap>>

(* A poll before the bundler knows of it: "result": null, which            *)
(* get_operation_receipt returns as Some(Null), a receipt with no block.   *)
PollNull(i) ==
    /\ task[i].pc = "polling"
    /\ task[i].polls < MaxPolls
    /\ task' = [task EXCEPT ![i] = Settling(Confirmed("null"))]
    /\ UNCHANGED <<carried, call, row, wire, op, mishap>>

(* An answer with no result at all (a JSON-RPC error): try again. *)
PollNone(i) ==
    /\ task[i].pc = "polling"
    /\ task[i].polls < MaxPolls
    /\ task' = [task EXCEPT ![i] = Polling(@.polls + 1)]
    /\ UNCHANGED <<carried, call, row, wire, op, mishap>>

(* A transport error ends the loop at once, as its last attempt does. *)
PollErr(i) ==
    /\ task[i].pc = "polling"
    /\ task[i].polls < MaxPolls
    /\ task' = [task EXCEPT ![i] = Settling(Failed("hash"))]
    /\ UNCHANGED <<carried, call, row, wire, op, mishap>>

(* Mutant: the timeout is only logged. *)
GiveUp_Unrecorded(i) ==
    /\ task[i].pc = "polling"
    /\ task[i].polls = MaxPolls
    /\ task' = [task EXCEPT ![i] = Task("done")]
    /\ UNCHANGED <<carried, call, row, wire, op, mishap>>

(* Mutant: the timeout writes the row of a failed submission. *)
GiveUp_WithoutHash(i) ==
    /\ task[i].pc = "polling"
    /\ task[i].polls = MaxPolls
    /\ task' = [task EXCEPT ![i] = Settling(Failed("null"))]
    /\ UNCHANGED <<carried, call, row, wire, op, mishap>>

GiveUp(i) ==
    /\ task[i].pc = "polling"
    /\ task[i].polls = MaxPolls
    /\ task' = [task EXCEPT ![i] = Settling(Failed("hash"))]
    /\ UNCHANGED <<carried, call, row, wire, op, mishap>>

(* Mutant: the task goes on polling after it has settled the row. *)
Settle_NoReturn(i) ==
    /\ task[i].pc = "settling"
    /\ UpdateIntentStatus(i, task[i].final)
    /\ task' = [task EXCEPT ![i] = Polling(0)]
    /\ UNCHANGED <<carried, call, wire, op>>

(* The task's last UPDATE, after which it returns. *)
Settle(i) ==
    /\ task[i].pc = "settling"
    /\ UpdateIntentStatus(i, task[i].final)
    /\ task' = [task EXCEPT ![i] = Task("done")]
    /\ UNCHANGED <<carried, call, wire, op>>

-----------------------------------------------------------------------------
(* Mutant: startup resumes every open intent from the beginning. *)
Restart_Resumes ==
    LET open(i) == row[i] \in Lifecycle!Open
    IN  /\ task' = [i \in Intents |-> IF open(i) THEN Task("sponsoring")
                                     ELSE Task("none")]
        /\ call' = [i \in Intents |-> "accepted"]
        /\ UNCHANGED <<carried, row, wire, op, mishap>>

(* The process dies and is started again.  main connects, migrates and     *)
(* serves: nothing looks for intents a lost task has left open.  A call at *)
(* its checks is lost if it was made before, or has yet to be made.        *)
Restart ==
    \E lost \in SUBSET {i \in Intents : call[i] = "checking"} :
        LET busy(i)    == task[i].pc \in Live
            serving(i) == call[i] \in {"inserting", "inserted"} \/ i \in lost
        IN  /\ task' = [i \in Intents |-> IF busy(i) THEN Task("killed") ELSE task[i]]
            /\ call' = [i \in Intents |-> IF serving(i) THEN "dropped" ELSE call[i]]
            /\ mishap' = [i \in Intents |-> IF busy(i) \/ serving(i)
                                            THEN mishap[i] \cup {"killed"}
                                            ELSE mishap[i]]
            /\ UNCHANGED <<carried, row, wire, op>>

-----------------------------------------------------------------------------
(* The bundler and the chain, external                                     *)

(* An operation the bundler still holds, or that is mined, stays so. *)
BundlerTakes(i) ==
    /\ wire[i] = "inflight"
    /\ wire' = [wire EXCEPT ![i] = "taken"]
    /\ op' = [op EXCEPT ![carried[i]] = IF @ \in {"unknown", "dropped"}
                                          THEN "held" ELSE @]
    /\ UNCHANGED <<carried, call, row, task, mishap>>

BundlerRefuses(i) ==
    /\ wire[i] = "inflight"
    /\ wire' = [wire EXCEPT ![i] = "refused"]
    /\ UNCHANGED <<carried, call, row, task, op, mishap>>

(* The entry point lets one operation of a nonce into the chain. *)
Mine(o) ==
    /\ op[o] = "held"
    /\ \A r \in Ops \ {o} : NonceOf[r] = NonceOf[o] => op[r] \notin Mined
    /\ \E outcome \in Mined : op' = [op EXCEPT ![o] = outcome]
    /\ UNCHANGED <<carried, call, row, task, wire, mishap>>

Drop(o) ==
    /\ op[o] = "held"
    /\ op' = [op EXCEPT ![o] = "dropped"]
    /\ UNCHANGED <<carried, call, row, task, wire, mishap>>

-----------------------------------------------------------------------------

HandlerStep(i) == Admit(i) \/ Refuse(i) \/ InsertIntent(i) \/ SpawnTask(i)
TaskWrites(i)  == MarkSubmitted(i) \/ GiveUp(i) \/ Settle(i)
Answered(i)    == \/ SponsorOk(i) \/ SponsorErr(i) \/ SendOk(i) \/ SendErr(i)
                  \/ PollReceipt(i) \/ PollNull(i) \/ PollNone(i) \/ PollErr(i)
BundlerStep(i) == BundlerTakes(i) \/ BundlerRefuses(i)

Next ==
    \/ \E i \in Intents : \/ HandlerStep(i) \/ ClientGone(i) \/ TaskWrites(i)
                          \/ Answered(i) \/ BundlerStep(i)
    \/ \E o \in Ops : Mine(o) \/ Drop(o)
    \/ Restart

Spec == Init /\ [][Next]_vars

(* The runtime polls every future that can make progress, and the database *)
(* answers every statement.                                                *)
ServerFairness ==
    \A i \in Intents : WF_vars(HandlerStep(i)) /\ WF_vars(TaskWrites(i))

(* Every request to the paymaster and the bundler gets an answer or an     *)
(* error: an assumption about the services, since the HTTP client is built *)
(* without a timeout.                                                      *)
ServicesAnswer ==
    \A i \in Intents : WF_vars(Answered(i)) /\ WF_vars(BundlerStep(i))

ServerFairSpec == Spec /\ ServerFairness
LiveSpec       == ServerFairSpec /\ ServicesAnswer

-----------------------------------------------------------------------------
(* Properties                                                              *)

(* The rows change only as the client was promised: pending once, perhaps  *)
(* submitted, settled once and for good, a shown hash never lost.          *)
LifecycleHolds == Lifecycle!Spec

(* A hash on a row is the hash of an operation the bundler has taken: no   *)
(* answer, error or restart puts one there beforehand.                     *)
HashMeansTaken ==
    \A i \in Intents : row[i].tx_hash = "hash" => op[carried[i]] # "unknown"

(* A block number on a row belongs to an operation that is in the chain,   *)
(* although it is written well after the poll that learnt it.              *)
BlockMeansMined ==
    \A i \in Intents : row[i].block_number = "block" => op[carried[i]] \in Mined

(* Two sends raced with one account nonce: at most one of them is ever     *)
(* reported with a block.                                                  *)
OneWinnerPerNonce ==
    \A i, j \in Intents :
        /\ NonceOf[carried[i]] = NonceOf[carried[j]]
        /\ row[i].block_number = "block" /\ row[j].block_number = "block"
        => carried[i] = carried[j]

(* An open row that no task will ever touch again is the work of a         *)
(* disconnected client, a restart or a lost UPDATE: no path of the task    *)
(* itself, not even one on which every service fails, leaves it behind.    *)
StuckHasCause ==
    \A i \in Intents :
        /\ row[i] \in Lifecycle!Open
        /\ call[i] # "inserted"
        /\ task[i].pc \notin Live
        => StruckBy(i, {"client_gone", "killed", "update_lost"})

(* Once its task is over, a row whose request the bundler took says so (it *)
(* has the hash), except when the answer or the UPDATE was lost or the     *)
(* process died: giving up on the receipt does not hide the operation.     *)
NoSilentSubmission ==
    \A i \in Intents :
        /\ wire[i] = "taken"
        /\ task[i].pc \in {"done", "killed"}
        /\ row[i].tx_hash = "null"
        => StruckBy(i, {"reply_lost", "update_lost", "killed"})

(* The server sends an intent's operation at most once, whatever fails and *)
(* however often it restarts.                                              *)
SentAtMostOnce ==
    [][\A i \in Intents :
           wire'[i] = "inflight" => wire[i] \in {"none", "inflight"}]_vars

(* With answering services, an accepted intent is settled, unless a        *)
(* restart took its task or the database lost its UPDATE.                  *)
AcceptedSettles ==
    \A i \in Intents :
        call[i] = "accepted" ~>
            \/ row[i].status \in Lifecycle!Terminal
            \/ StruckBy(i, {"killed", "update_lost"})

-----------------------------------------------------------------------------
(* The inductive invariant behind the safety properties                    *)

(* What the handler's position says of the row and of the task. *)
CallInv ==
    \A i \in Intents :
        /\ call[i] \in {"checking", "inserting", "refused"} =>
               row[i] = Lifecycle!Absent /\ task[i].pc = "none"
        /\ call[i] = "inserted" => row[i] = Pending /\ task[i].pc = "none"
        /\ call[i] = "dropped" =>
               /\ row[i] \in {Lifecycle!Absent, Pending} /\ task[i].pc = "none"
               /\ StruckBy(i, {"client_gone", "killed"})
        /\ call[i] = "accepted" =>
               row[i] # Lifecycle!Absent /\ task[i].pc # "none"

(* What the task's position says of the row. *)
TaskInv ==
    \A i \in Intents :
        /\ task[i].pc \in {"sponsoring", "sending", "marking"} => row[i] = Pending
        /\ task[i].pc \in {"polling", "settling"} => row[i] \in Lifecycle!Open
        /\ task[i].pc = "settling" =>
               \/ task[i].final \in {Confirmed("block"), Confirmed("null"), Failed("hash")}
               \/ task[i].final = Failed("null") /\ row[i] = Pending
        /\ task[i].pc = "done" => \/ row[i].status \in Lifecycle!Terminal
                                 \/ "update_lost" \in mishap[i]
        /\ task[i].pc = "killed" => "killed" \in mishap[i]

(* What the request to the bundler says of the task: the hash is known or  *)
(* recorded only of a request that was taken, and a task that is past its  *)
(* request without the hash has lost the answer.                           *)
WireInv ==
    \A i \in Intents :
        /\ task[i].pc \in {"none", "sponsoring"} => wire[i] = "none"
        /\ task[i].pc \in {"marking", "polling"} => wire[i] = "taken"
        /\ wire[i] = "inflight" =>
               task[i].pc \in {"sending", "killed"} \/ "reply_lost" \in mishap[i]
        /\ row[i].tx_hash = "hash" => wire[i] = "taken"
        /\ task[i].pc = "settling" =>
               IF task[i].final.tx_hash = "hash" THEN wire[i] = "taken"
               ELSE wire[i] = "taken" => "reply_lost" \in mishap[i]
        /\ wire[i] = "taken" => op[carried[i]] # "unknown"

(* A block number, recorded or about to be, is that of a mined operation,  *)
(* and the chain has mined one operation of a nonce at most.               *)
BlockInv ==
    /\ \A i \in Intents :
           "block" \in {row[i].block_number, task[i].final.block_number}
               => op[carried[i]] \in Mined
    /\ \A o, r \in Ops : /\ NonceOf[o] = NonceOf[r]
                         /\ op[o] \in Mined /\ op[r] \in Mined
                         => o = r

IInv ==
    TypeOK /\ CallInv /\ TaskInv /\ WireInv /\ BlockInv /\ NoSilentSubmission

-----------------------------------------------------------------------------
(* A promise that the code does not keep                                   *)

(* "Returns None if not yet confirmed" (chain.rs): a confirmed intent is   *)
(* in the chain.                                                           *)
ConfirmedIsMined ==
    \A i \in Intents :
        row[i].status = "confirmed" => op[carried[i]] \in Mined

==============================================================================
