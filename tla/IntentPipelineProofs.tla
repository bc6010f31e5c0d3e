------------------------- MODULE IntentPipelineProofs -------------------------
(***************************************************************************)
(* IntentPipeline for any calls, operations, nonces and number of polls:   *)
(* its invariants, and that it implements IntentLifecycle.                 *)
(***************************************************************************)
EXTENDS IntentPipeline, TLAPS

(* The rows the server writes are rows of the table. *)
LEMMA RowTypes ==
    /\ Lifecycle!Absent \in Lifecycle!Record
    /\ Pending \in Lifecycle!Record
    /\ Submitted \in Lifecycle!Record
    /\ \A b \in Lifecycle!Block : Confirmed(b) \in Lifecycle!Record
    /\ \A h \in Lifecycle!Hash : Failed(h) \in Lifecycle!Record
    /\ {Confirmed("block"), Confirmed("null"), Failed("hash"), Failed("null")}
           \subseteq Lifecycle!Record
BY DEF Pending, Submitted, Confirmed, Failed, Lifecycle!Row, Lifecycle!Absent,
       Lifecycle!Pending, Lifecycle!Submitted, Lifecycle!Confirmed, Lifecycle!Failed, Lifecycle!Record, Lifecycle!Status, Lifecycle!Hash,
       Lifecycle!Block, Lifecycle!Reason

LEMMA TaskTypes ==
    /\ \A pc \in TaskPc : Task(pc) \in TaskRecord
    /\ \A n \in 0..MaxPolls : Polling(n) \in TaskRecord
    /\ \A final \in Lifecycle!Record : Settling(final) \in TaskRecord
<1>1. ASSUME NEW pc \in TaskPc PROVE Task(pc) \in TaskRecord
  BY RowTypes, MaxPollsAssumption DEF Task, TaskRecord
<1>2. ASSUME NEW final \in Lifecycle!Record PROVE Settling(final) \in TaskRecord
  BY MaxPollsAssumption DEF Settling, TaskRecord, TaskPc
<1>3. ASSUME NEW n \in 0..MaxPolls PROVE Polling(n) \in TaskRecord
  BY RowTypes DEF Polling, TaskRecord, TaskPc
<1> QED BY <1>1, <1>2, <1>3

(* A row an UPDATE writes, or fails to write, leaves the types alone. *)
LEMMA UpdateTypes ==
    ASSUME TypeOK, NEW i \in Intents, NEW new \in Lifecycle!Record,
           UpdateIntentStatus(i, new)
    PROVE  /\ row' \in [Intents -> Lifecycle!Record]
           /\ mishap' \in [Intents -> SUBSET Mishap]
<1>1. CASE row' = [row EXCEPT ![i] = new] /\ UNCHANGED mishap
  BY <1>1 DEF TypeOK
<1>2. CASE Struck(i, "update_lost") /\ UNCHANGED row
  BY <1>2 DEF TypeOK, Struck, Mishap
<1> QED BY <1>1, <1>2 DEF UpdateIntentStatus

(* Type correctness. *)
LEMMA TypeStep == TypeOK /\ [Next]_vars => TypeOK'
<1> SUFFICES ASSUME TypeOK, [Next]_vars PROVE TypeOK'
  OBVIOUS
<1> USE RowTypes, TaskTypes
<1>1. ASSUME NEW i \in Intents, HandlerStep(i) PROVE TypeOK'
  BY <1>1 DEF TypeOK, HandlerStep, Admit, Refuse, InsertIntent, SpawnTask, CallState, TaskPc
<1>2. ASSUME NEW i \in Intents, ClientGone(i) PROVE TypeOK'
  BY <1>2 DEF TypeOK, ClientGone, Struck, CallState, Mishap
<1>3. ASSUME NEW i \in Intents, TaskWrites(i) PROVE TypeOK'
  <2>1. CASE MarkSubmitted(i)
    BY <2>1, UpdateTypes, MaxPollsAssumption DEF TypeOK, MarkSubmitted
  <2>2. CASE GiveUp(i)
    BY <2>2 DEF TypeOK, GiveUp
  <2>3. CASE Settle(i)
    <3>1. task[i].final \in Lifecycle!Record
      BY DEF TypeOK, TaskRecord
    <3> QED BY <2>3, <3>1, UpdateTypes DEF TypeOK, Settle, TaskPc
  <2> QED BY <1>3, <2>1, <2>2, <2>3 DEF TaskWrites
<1>4. ASSUME NEW i \in Intents, Answered(i) PROVE TypeOK'
  <2>1. CASE SponsorOk(i) \/ SponsorErr(i)
    BY <2>1 DEF TypeOK, SponsorOk, SponsorErr, TaskPc
  <2>2. CASE SendOk(i) \/ SendErr(i)
    BY <2>2 DEF TypeOK, SendOk, SendErr, Struck, TaskPc, Mishap
  <2>3. CASE PollReceipt(i) \/ PollNull(i) \/ PollErr(i)
    BY <2>3 DEF TypeOK, PollReceipt, PollNull, PollErr
  <2>4. CASE PollNone(i)
    <3>1. task[i].polls + 1 \in 0..MaxPolls
      BY <2>4, MaxPollsAssumption DEF TypeOK, TaskRecord, PollNone
    <3> QED BY <2>4, <3>1 DEF TypeOK, PollNone
  <2> QED BY <1>4, <2>1, <2>2, <2>3, <2>4 DEF Answered
<1>5. ASSUME NEW i \in Intents, BundlerStep(i) PROVE TypeOK'
  BY <1>5 DEF TypeOK, BundlerStep, BundlerTakes, BundlerRefuses, OpState
<1>6. ASSUME NEW o \in Ops, Mine(o) \/ Drop(o) PROVE TypeOK'
  BY <1>6 DEF TypeOK, Mine, Drop, OpState, Mined
<1>7. CASE Restart
  BY <1>7 DEF TypeOK, Restart, CallState, TaskPc, Mishap
<1>8. CASE UNCHANGED vars
  BY <1>8 DEF TypeOK, vars
<1> QED BY <1>1, <1>2, <1>3, <1>4, <1>5, <1>6, <1>7, <1>8 DEF Next

-----------------------------------------------------------------------------
(* The columns of the rows the server writes. *)
LEMMA RowFields ==
    /\ Lifecycle!Absent.status = "absent" /\ Lifecycle!Absent.tx_hash = "null"
    /\ Lifecycle!Absent.block_number = "null"
    /\ Pending.status = "pending" /\ Pending.tx_hash = "null"
    /\ Pending.block_number = "null"
    /\ Submitted.status = "submitted" /\ Submitted.tx_hash = "hash"
    /\ Submitted.block_number = "null"
    /\ \A b \in Lifecycle!Block :
           /\ Confirmed(b).status = "confirmed" /\ Confirmed(b).tx_hash = "hash"
           /\ Confirmed(b).block_number = b
    /\ \A h \in Lifecycle!Hash :
           /\ Failed(h).status = "failed" /\ Failed(h).tx_hash = h
           /\ Failed(h).block_number = "null"
BY DEF Pending, Submitted, Confirmed, Failed, Lifecycle!Row, Lifecycle!Absent,
       Lifecycle!Pending, Lifecycle!Submitted, Lifecycle!Confirmed, Lifecycle!Failed

(* The same with the two values of each argument spelt out, and the fields *)
(* of the tasks.                                                           *)
LEMMA FinalFields ==
    /\ Confirmed("block").tx_hash = "hash" /\ Confirmed("block").block_number = "block"
    /\ Confirmed("block").status = "confirmed"
    /\ Confirmed("null").tx_hash = "hash" /\ Confirmed("null").block_number = "null"
    /\ Confirmed("null").status = "confirmed"
    /\ Failed("hash").tx_hash = "hash" /\ Failed("hash").block_number = "null"
    /\ Failed("hash").status = "failed"
    /\ Failed("null").tx_hash = "null" /\ Failed("null").block_number = "null"
    /\ Failed("null").status = "failed"
BY RowFields DEF Lifecycle!Block, Lifecycle!Hash

LEMMA TaskFields ==
    /\ \A pc \in TaskPc : Task(pc).pc = pc /\ Task(pc).final = Lifecycle!Absent
    /\ \A n \in 0..MaxPolls :
           Polling(n).pc = "polling" /\ Polling(n).final = Lifecycle!Absent
    /\ \A final \in Lifecycle!Record :
           Settling(final).pc = "settling" /\ Settling(final).final = final
BY DEF Task, Polling, Settling

LEMMA OpenRows == Lifecycle!Open = {Pending, Submitted}
BY DEF Lifecycle!Open, Pending, Submitted

LEMMA IInvInit == Init => IInv
<1> SUFFICES ASSUME Init PROVE IInv
  OBVIOUS
<1> USE DEF Init, Lifecycle!Init
<1>1. TypeOK
  BY RowTypes, TaskTypes DEF TypeOK, CallState, TaskPc, OpState
<1>2. \A i \in Intents : task[i].pc = "none" /\ task[i].final = Lifecycle!Absent
  BY TaskFields DEF TaskPc
<1>3. CallInv
  BY <1>2 DEF CallInv
<1>4. TaskInv
  BY <1>2 DEF TaskInv
<1>5. WireInv
  BY <1>2, RowFields DEF WireInv
<1>6. BlockInv
  BY <1>2, RowFields DEF BlockInv, Mined
<1>7. NoSilentSubmission
  BY <1>2 DEF NoSilentSubmission
<1> QED BY <1>1, <1>3, <1>4, <1>5, <1>6, <1>7 DEF IInv

(* The handler: only its own call, an empty row and a task not yet there. *)
LEMMA HandlerInv ==
    ASSUME IInv, TypeOK', NEW i \in Intents, HandlerStep(i) \/ ClientGone(i)
    PROVE  IInv'
<1> USE RowFields, TaskFields DEF IInv, TypeOK, StruckBy
<1>1. CASE Admit(i) \/ Refuse(i)
  <2> USE <1>1 DEF Admit, Refuse
  <2>1. CallInv'
    BY DEF CallInv
  <2>2. TaskInv' /\ WireInv' /\ BlockInv' /\ NoSilentSubmission'
    BY DEF TaskInv, WireInv, BlockInv, NoSilentSubmission
  <2> QED BY <2>1, <2>2
<1>2. CASE InsertIntent(i)
  <2> USE <1>2 DEF InsertIntent
  <2>1. row[i] = Lifecycle!Absent /\ task[i].pc = "none" /\ wire[i] = "none"
    BY DEF CallInv, WireInv
  <2>2. CallInv'
    BY <2>1 DEF CallInv
  <2>3. TaskInv'
    BY <2>1 DEF TaskInv
  <2>4. WireInv'
    BY <2>1 DEF WireInv
  <2>5. BlockInv'
    BY <2>1 DEF BlockInv
  <2>6. NoSilentSubmission'
    BY <2>1 DEF NoSilentSubmission
  <2> QED BY <2>2, <2>3, <2>4, <2>5, <2>6
<1>3. CASE SpawnTask(i)
  <2> USE <1>3 DEF SpawnTask
  <2>1. row[i] = Pending /\ task[i].pc = "none" /\ wire[i] = "none"
    BY DEF CallInv, WireInv
  <2>2. task'[i].pc = "sponsoring" /\ task'[i].final = Lifecycle!Absent
    BY DEF TaskPc
  <2>3. CallInv'
    BY <2>1, <2>2 DEF CallInv
  <2>4. TaskInv'
    BY <2>1, <2>2 DEF TaskInv
  <2>5. WireInv'
    BY <2>1, <2>2 DEF WireInv
  <2>6. BlockInv'
    BY <2>1, <2>2 DEF BlockInv
  <2>7. NoSilentSubmission'
    BY <2>1, <2>2 DEF NoSilentSubmission
  <2> QED BY <2>3, <2>4, <2>5, <2>6, <2>7
<1>4. CASE ClientGone(i)
  <2> USE <1>4 DEF ClientGone, Struck
  <2>1. row[i] \in {Lifecycle!Absent, Pending} /\ task[i].pc = "none"
    BY DEF CallInv
  <2>2. mishap'[i] = mishap[i] \cup {"client_gone"}
    OBVIOUS
  <2>3. CallInv'
    BY <2>1, <2>2 DEF CallInv
  <2>4. TaskInv'
    BY <2>1, <2>2 DEF TaskInv
  <2>5. WireInv'
    BY <2>1, <2>2 DEF WireInv
  <2>6. BlockInv'
    BY <2>1, <2>2 DEF BlockInv
  <2>7. NoSilentSubmission'
    BY <2>1, <2>2 DEF NoSilentSubmission
  <2> QED BY <2>3, <2>4, <2>5, <2>6, <2>7
<1> QED BY <1>1, <1>2, <1>3, <1>4 DEF HandlerStep

(* A task that has asked a service a question: only its own task, request  *)
(* and list of faults change, and the request of no other.                 *)
LEMMA AnsweredInv ==
    ASSUME IInv, TypeOK', NEW i \in Intents, Answered(i)
    PROVE  IInv'
<1> USE RowFields, FinalFields, TaskFields, OpenRows, RowTypes DEF IInv, TypeOK, StruckBy
<1>1. CASE SponsorOk(i)
  <2> USE <1>1 DEF SponsorOk
  <2>1. /\ row[i] = Pending /\ wire[i] = "none"
        /\ task'[i].pc = "sending" /\ task'[i].final = Lifecycle!Absent
    BY DEF TaskInv, WireInv, TaskPc
  <2>2. CallInv'
    BY <2>1 DEF CallInv, TaskPc
  <2>3. TaskInv'
    BY <2>1 DEF TaskInv, TaskPc
  <2>4. WireInv'
    BY <2>1 DEF WireInv, TaskPc
  <2>5. BlockInv'
    BY <2>1 DEF BlockInv, TaskPc
  <2>6. NoSilentSubmission'
    BY <2>1 DEF NoSilentSubmission, TaskPc
  <2> QED BY <2>2, <2>3, <2>4, <2>5, <2>6
<1>2. CASE SponsorErr(i) \/ SendErr(i)
  <2>1. /\ row[i] = Pending
        /\ task'[i].pc = "settling" /\ task'[i].final = Failed("null")
    BY <1>2 DEF SponsorErr, SendErr, TaskInv
  <2>2. \/ wire[i] \in {"none", "refused"}
        \/ "reply_lost" \in mishap'[i]
    BY <1>2 DEF SponsorErr, SendErr, WireInv, Struck
  <2>3. /\ \A j \in Intents : mishap[j] \subseteq mishap'[j]
        /\ \A j \in Intents : j # i => task'[j] = task[j]
        /\ task[i].pc \in {"sponsoring", "sending"}
        /\ UNCHANGED <<carried, call, row, wire, op>>
    BY <1>2 DEF SponsorErr, SendErr, Struck
  <2>4. CallInv'
    BY <2>1, <2>2, <2>3 DEF CallInv
  <2>5. TaskInv'
    BY <2>1, <2>2, <2>3 DEF TaskInv
  <2>6. WireInv'
    BY <2>1, <2>2, <2>3 DEF WireInv
  <2>7. BlockInv'
    BY <2>1, <2>2, <2>3 DEF BlockInv
  <2>8. NoSilentSubmission'
    BY <2>1, <2>2, <2>3 DEF NoSilentSubmission
  <2> QED BY <2>4, <2>5, <2>6, <2>7, <2>8
<1>3. CASE SendOk(i)
  <2> USE <1>3 DEF SendOk
  <2>1. /\ row[i] = Pending /\ wire[i] = "taken"
        /\ task'[i].pc = "marking" /\ task'[i].final = Lifecycle!Absent
    BY DEF TaskInv, TaskPc
  <2>2. CallInv'
    BY <2>1 DEF CallInv, TaskPc
  <2>3. TaskInv'
    BY <2>1 DEF TaskInv, TaskPc
  <2>4. WireInv'
    BY <2>1 DEF WireInv, TaskPc
  <2>5. BlockInv'
    BY <2>1 DEF BlockInv, TaskPc
  <2>6. NoSilentSubmission'
    BY <2>1 DEF NoSilentSubmission, TaskPc
  <2> QED BY <2>2, <2>3, <2>4, <2>5, <2>6
<1>4. CASE PollReceipt(i) \/ PollNull(i) \/ PollErr(i)
  <2>1. /\ task[i].pc = "polling" /\ task'[i].pc = "settling"
        /\ task'[i].final \in {Confirmed("block"), Confirmed("null"), Failed("hash")}
        /\ task'[i].final.tx_hash = "hash"
        /\ task'[i].final.block_number = "block" => op[carried[i]] \in Mined
        /\ \A j \in Intents : j # i => task'[j] = task[j]
        /\ UNCHANGED <<carried, call, row, wire, op, mishap>>
    BY <1>4 DEF PollReceipt, PollNull, PollErr
  <2>2. CallInv'
    BY <2>1 DEF CallInv
  <2>3. TaskInv'
    BY <2>1 DEF TaskInv
  <2>4. WireInv'
    BY <2>1 DEF WireInv
  <2>5. BlockInv'
    BY <2>1 DEF BlockInv
  <2>6. NoSilentSubmission'
    BY <2>1 DEF NoSilentSubmission
  <2> QED BY <2>2, <2>3, <2>4, <2>5, <2>6
<1>5. CASE PollNone(i)
  <2>1. task[i].polls + 1 \in 0..MaxPolls
    BY <1>5, MaxPollsAssumption DEF PollNone, TaskRecord
  <2>2. /\ task[i].pc = "polling" /\ task'[i].pc = "polling"
        /\ task'[i].final = Lifecycle!Absent
        /\ \A j \in Intents : j # i => task'[j] = task[j]
        /\ UNCHANGED <<carried, call, row, wire, op, mishap>>
    BY <1>5, <2>1 DEF PollNone
  <2>3. CallInv'
    BY <2>2 DEF CallInv
  <2>4. TaskInv'
    BY <2>2 DEF TaskInv
  <2>5. WireInv'
    BY <2>2 DEF WireInv
  <2>6. BlockInv'
    BY <2>2 DEF BlockInv
  <2>7. NoSilentSubmission'
    BY <2>2 DEF NoSilentSubmission
  <2> QED BY <2>3, <2>4, <2>5, <2>6, <2>7
<1> QED BY <1>1, <1>2, <1>3, <1>4, <1>5 DEF Answered

(* The task's own writes: an UPDATE is stored whole or counted as lost. *)
LEMMA TaskWritesInv ==
    ASSUME IInv, TypeOK', NEW i \in Intents, TaskWrites(i)
    PROVE  IInv'
<1> USE RowFields, FinalFields, TaskFields, OpenRows, RowTypes DEF IInv, TypeOK, StruckBy
<1>1. CASE MarkSubmitted(i)
  <2>1. /\ task[i].pc = "marking" /\ row[i] = Pending /\ wire[i] = "taken"
        /\ task'[i].pc = "polling" /\ task'[i].final = Lifecycle!Absent
        /\ \A j \in Intents : j # i => task'[j] = task[j]
        /\ UNCHANGED <<carried, call, wire, op>>
    BY <1>1, MaxPollsAssumption DEF MarkSubmitted, TaskInv, WireInv
  <2>2. /\ row'[i] \in {Pending, Submitted}
        /\ \A j \in Intents : j # i => row'[j] = row[j]
        /\ \A j \in Intents : mishap[j] \subseteq mishap'[j]
    BY <1>1, <2>1 DEF MarkSubmitted, UpdateIntentStatus, Struck
  <2>3. CallInv'
    BY <2>1, <2>2 DEF CallInv
  <2>4. TaskInv'
    BY <2>1, <2>2 DEF TaskInv
  <2>5. WireInv'
    BY <2>1, <2>2 DEF WireInv
  <2>6. BlockInv'
    BY <2>1, <2>2 DEF BlockInv
  <2>7. NoSilentSubmission'
    BY <2>1, <2>2 DEF NoSilentSubmission
  <2> QED BY <2>3, <2>4, <2>5, <2>6, <2>7
<1>2. CASE GiveUp(i)
  <2>1. /\ task[i].pc = "polling" /\ task'[i].pc = "settling"
        /\ task'[i].final = Failed("hash")
        /\ \A j \in Intents : j # i => task'[j] = task[j]
        /\ UNCHANGED <<carried, call, row, wire, op, mishap>>
    BY <1>2 DEF GiveUp
  <2>2. CallInv'
    BY <2>1 DEF CallInv
  <2>3. TaskInv'
    BY <2>1 DEF TaskInv
  <2>4. WireInv'
    BY <2>1 DEF WireInv
  <2>5. BlockInv'
    BY <2>1 DEF BlockInv
  <2>6. NoSilentSubmission'
    BY <2>1 DEF NoSilentSubmission
  <2> QED BY <2>2, <2>3, <2>4, <2>5, <2>6
<1>3. CASE Settle(i)
  <2>1. /\ task[i].pc = "settling" /\ row[i] \in {Pending, Submitted}
        /\ task'[i].pc = "done" /\ task'[i].final = Lifecycle!Absent
        /\ \A j \in Intents : j # i => task'[j] = task[j]
        /\ UNCHANGED <<carried, call, wire, op>>
    BY <1>3 DEF Settle, TaskInv, TaskPc
  <2>2. \/ row'[i] = task[i].final
        \/ row'[i] = row[i] /\ "update_lost" \in mishap'[i]
    BY <1>3 DEF Settle, UpdateIntentStatus, Struck
  <2>3. /\ \A j \in Intents : j # i => row'[j] = row[j]
        /\ \A j \in Intents : mishap[j] \subseteq mishap'[j]
    BY <1>3 DEF Settle, UpdateIntentStatus, Struck
  <2>4. /\ task[i].final \in {Confirmed("block"), Confirmed("null"),
                              Failed("hash"), Failed("null")}
        /\ task[i].final.status \in Lifecycle!Terminal
        /\ task[i].final # Lifecycle!Absent
    BY <2>1 DEF TaskInv, Lifecycle!Terminal
  <2>5. CallInv'
    BY <2>1, <2>2, <2>3, <2>4 DEF CallInv
  <2>6. TaskInv'
    BY <2>1, <2>2, <2>3, <2>4 DEF TaskInv
  <2>7. WireInv'
    BY <2>1, <2>2, <2>3, <2>4 DEF WireInv
  <2>8. BlockInv'
    BY <2>1, <2>2, <2>3, <2>4 DEF BlockInv
  <2>9. NoSilentSubmission'
    BY <2>1, <2>2, <2>3, <2>4 DEF NoSilentSubmission, WireInv
  <2> QED BY <2>5, <2>6, <2>7, <2>8, <2>9
<1> QED BY <1>1, <1>2, <1>3 DEF TaskWrites

(* The bundler and the chain: requests and operations only. *)
LEMMA ServicesInv ==
    ASSUME IInv, TypeOK',
           \/ \E i \in Intents : BundlerStep(i)
           \/ \E o \in Ops : Mine(o) \/ Drop(o)
    PROVE  IInv'
<1> USE DEF IInv, TypeOK, StruckBy
<1>1. ASSUME NEW i \in Intents, BundlerTakes(i) PROVE IInv'
  <2>1. /\ wire[i] = "inflight" /\ wire'[i] = "taken"
        /\ \A j \in Intents : j # i => wire'[j] = wire[j]
        /\ \A o \in Ops : op[o] # "unknown" => op'[o] # "unknown"
        /\ op'[carried[i]] # "unknown"
        /\ \A o \in Ops : op'[o] \in Mined <=> op[o] \in Mined
        /\ UNCHANGED <<carried, call, row, task, mishap>>
    BY <1>1 DEF BundlerTakes, Mined
  <2>2. CallInv'
    BY <2>1 DEF CallInv
  <2>3. TaskInv'
    BY <2>1 DEF TaskInv
  <2>4. WireInv'
    BY <2>1 DEF WireInv
  <2>5. BlockInv'
    BY <2>1 DEF BlockInv
  <2>6. NoSilentSubmission'
    BY <2>1 DEF NoSilentSubmission, TaskInv, WireInv
  <2> QED BY <2>2, <2>3, <2>4, <2>5, <2>6
<1>2. ASSUME NEW i \in Intents, BundlerRefuses(i) PROVE IInv'
  <2> USE <1>2 DEF BundlerRefuses
  <2>1. CallInv'
    BY DEF CallInv
  <2>2. TaskInv'
    BY DEF TaskInv
  <2>3. WireInv'
    BY DEF WireInv
  <2>4. BlockInv'
    BY DEF BlockInv
  <2>5. NoSilentSubmission'
    BY DEF NoSilentSubmission
  <2> QED BY <2>1, <2>2, <2>3, <2>4, <2>5
<1>3. ASSUME NEW o \in Ops, Mine(o) \/ Drop(o) PROVE IInv'
  <2>1. /\ op[o] = "held" /\ op'[o] # "unknown"
        /\ \A r \in Ops \ {o} : op'[r] = op[r]
        /\ op'[o] \in Mined =>
               \A r \in Ops \ {o} : NonceOf[r] = NonceOf[o] => op[r] \notin Mined
        /\ UNCHANGED <<carried, call, row, task, wire, mishap>>
    BY <1>3 DEF Mine, Drop, Mined
  <2>2. CallInv'
    BY <2>1 DEF CallInv, Mined
  <2>3. TaskInv'
    BY <2>1 DEF TaskInv, Mined
  <2>4. WireInv'
    BY <2>1 DEF WireInv, Mined
  <2>5. BlockInv'
    BY <2>1 DEF BlockInv, Mined
  <2>6. NoSilentSubmission'
    BY <2>1 DEF NoSilentSubmission, Mined
  <2> QED BY <2>2, <2>3, <2>4, <2>5, <2>6
<1> QED BY <1>1, <1>2, <1>3 DEF BundlerStep

(* A restart ends tasks and handlers, and marks what it ended. *)
LEMMA RestartInv == ASSUME IInv, TypeOK', Restart PROVE IInv'
<1> USE RowFields, TaskFields DEF IInv, TypeOK, StruckBy
<1> PICK lost \in SUBSET {i \in Intents : call[i] = "checking"} :
        LET busy(i)    == task[i].pc \in Live
            serving(i) == call[i] \in {"inserting", "inserted"} \/ i \in lost
        IN  /\ task' = [i \in Intents |-> IF busy(i) THEN Task("killed") ELSE task[i]]
            /\ call' = [i \in Intents |-> IF serving(i) THEN "dropped" ELSE call[i]]
            /\ mishap' = [i \in Intents |-> IF busy(i) \/ serving(i)
                                            THEN mishap[i] \cup {"killed"}
                                            ELSE mishap[i]]
            /\ UNCHANGED <<carried, row, wire, op>>
  BY DEF Restart
<1>1. ASSUME NEW i \in Intents
      PROVE  /\ \/ /\ task[i].pc \in Live /\ "killed" \in mishap'[i]
                   /\ task'[i].pc = "killed" /\ task'[i].final = Lifecycle!Absent
                \/ task[i].pc \notin Live /\ task'[i] = task[i]
             /\ \/ /\ call[i] \in {"checking", "inserting", "inserted"}
                   /\ call'[i] = "dropped" /\ "killed" \in mishap'[i]
                \/ call[i] \in {"checking", "accepted", "refused", "dropped"} /\ call'[i] = call[i]
             /\ mishap[i] \subseteq mishap'[i]
  BY DEF TaskPc, CallState
<1>2. UNCHANGED <<carried, row, wire, op>>
  OBVIOUS
<1>3. CallInv'
  BY <1>1, <1>2 DEF CallInv, Live
<1>4. TaskInv'
  BY <1>1, <1>2 DEF TaskInv, Live
<1>5. WireInv'
  BY <1>1, <1>2 DEF WireInv, Live
<1>6. BlockInv'
  BY <1>1, <1>2 DEF BlockInv
<1>7. NoSilentSubmission'
  BY <1>1, <1>2 DEF NoSilentSubmission
<1> QED BY <1>3, <1>4, <1>5, <1>6, <1>7

LEMMA IInvStep == IInv /\ [Next]_vars => IInv'
<1> SUFFICES ASSUME IInv, [Next]_vars PROVE IInv'
  OBVIOUS
<1>1. TypeOK'
  BY TypeStep DEF IInv
<1>2. CASE UNCHANGED vars
  BY <1>2 DEF vars, IInv, TypeOK, CallInv, TaskInv, WireInv, BlockInv,
              NoSilentSubmission, StruckBy
<1>3. CASE Next
  BY <1>1, <1>3, HandlerInv, AnsweredInv, TaskWritesInv, ServicesInv, RestartInv
     DEF Next
<1> QED BY <1>2, <1>3

-----------------------------------------------------------------------------
(* The inductive invariant holds of every execution. *)
THEOREM Invariance == Spec => []IInv
BY IInvInit, IInvStep, PTL DEF Spec

(* Every row, task and operation stays within its type, and the number of  *)
(* polls within its bound.                                                 *)
THEOREM TypeCorrect == Spec => []TypeOK
<1>1. IInv => TypeOK
  BY DEF IInv
<1> QED BY <1>1, Invariance, PTL

(* A recorded hash is that of an operation the bundler has taken. *)
THEOREM HashTheorem == Spec => []HashMeansTaken
<1>1. IInv => HashMeansTaken
  BY DEF IInv, WireInv, HashMeansTaken
<1> QED BY <1>1, Invariance, PTL

(* A recorded block number is that of a mined operation. *)
THEOREM BlockTheorem == Spec => []BlockMeansMined
<1>1. IInv => BlockMeansMined
  BY DEF IInv, BlockInv, BlockMeansMined
<1> QED BY <1>1, Invariance, PTL

(* Of several operations raced with one nonce, one is reported in a block. *)
THEOREM NonceTheorem == Spec => []OneWinnerPerNonce
<1>1. IInv => OneWinnerPerNonce
  BY DEF IInv, TypeOK, BlockInv, OneWinnerPerNonce
<1> QED BY <1>1, Invariance, PTL

(* An open row without a live task was left by one of three faults. *)
THEOREM StuckTheorem == Spec => []StuckHasCause
<1>1. ASSUME IInv PROVE StuckHasCause
  <2> SUFFICES ASSUME NEW i \in Intents, row[i] \in Lifecycle!Open,
                      call[i] # "inserted", task[i].pc \notin Live
               PROVE  StruckBy(i, {"client_gone", "killed", "update_lost"})
    BY DEF StuckHasCause
  <2> USE <1>1 DEF IInv, StruckBy
  <2>1. /\ row[i].status \notin Lifecycle!Terminal
        /\ row[i] # Lifecycle!Absent
    BY OpenRows, RowFields DEF Lifecycle!Terminal
  <2>2. CASE call[i] \in {"checking", "inserting", "refused", "dropped"}
    BY <2>1, <2>2 DEF CallInv
  <2>3. CASE call[i] = "accepted"
    <3>1. task[i].pc \in {"done", "killed"}
      BY <2>3 DEF TypeOK, TaskRecord, TaskPc, Live, CallInv
    <3> QED BY <2>1, <3>1 DEF TaskInv
  <2> QED BY <2>2, <2>3 DEF TypeOK, CallState
<1> QED BY <1>1, Invariance, PTL

(* A row does not hide a submission its task knew of. *)
THEOREM SubmissionTheorem == Spec => []NoSilentSubmission
<1>1. IInv => NoSilentSubmission
  BY DEF IInv
<1> QED BY <1>1, Invariance, PTL

(* No step of any kind sends an intent's operation a second time. *)
THEOREM SendTheorem == Spec => SentAtMostOnce
<1> DEFINE Sends == \A i \in Intents :
                       wire'[i] = "inflight" => wire[i] \in {"none", "inflight"}
<1>1. IInv /\ [Next]_vars => [Sends]_vars
  <2> SUFFICES ASSUME IInv, Next PROVE Sends
    OBVIOUS
  <2> USE DEF IInv, TypeOK
  <2>1. ASSUME NEW j \in Intents, SponsorOk(j) PROVE Sends
    BY <2>1 DEF SponsorOk, WireInv
  <2>2. ASSUME NEW j \in Intents, BundlerStep(j) PROVE Sends
    BY <2>2 DEF BundlerStep, BundlerTakes, BundlerRefuses
  <2>3. CASE UNCHANGED wire
    BY <2>3
  <2> QED BY <2>1, <2>2, <2>3
          DEF Next, HandlerStep, Admit, Refuse, InsertIntent, SpawnTask, ClientGone,
              TaskWrites, MarkSubmitted, GiveUp, Settle, Answered, SponsorErr, SendOk,
              SendErr, PollReceipt, PollNull, PollNone, PollErr, Mine, Drop, Restart
<1> QED BY <1>1, Invariance, PTL DEF Spec, SentAtMostOnce

-----------------------------------------------------------------------------
(* Refinement: the rows go through the life the client was promised.       *)

(* The one UPDATE that can end an intent does end it, and keeps its hash.  *)
LEMMA SettleStep ==
    ASSUME IInv, NEW i \in Intents, Settle(i)
    PROVE  [Lifecycle!Next]_row
<1> USE DEF IInv, TypeOK
<1>1. CASE UNCHANGED row
  BY <1>1
<1>2. CASE row' = [row EXCEPT ![i] = task[i].final]
  <2>1. row[i] \in Lifecycle!Open /\ (row[i].tx_hash = "hash" => row[i] # Pending)
    BY RowFields DEF Settle, TaskInv
  <2>2. CASE task[i].final \in {Confirmed("block"), Confirmed("null")}
    <3>1. PICK b \in Lifecycle!Block : task[i].final = Lifecycle!Confirmed(b)
      BY <2>2 DEF Confirmed, Lifecycle!Block
    <3> QED BY <1>2, <2>1, <3>1 DEF Lifecycle!Next, Lifecycle!Settle
  <2>3. CASE task[i].final \in {Failed("hash"), Failed("null")}
    <3>1. PICK h \in Lifecycle!Hash :
             /\ task[i].final = Lifecycle!Failed(h)
             /\ row[i].tx_hash = "hash" => h = "hash"
      BY <2>1, <2>3, FinalFields, RowFields
         DEF Failed, Lifecycle!Hash, TaskInv, Settle
    <3> QED BY <1>2, <2>1, <3>1 DEF Lifecycle!Next, Lifecycle!Settle
  <2> QED BY <2>2, <2>3 DEF Settle, TaskInv
<1> QED BY <1>1, <1>2 DEF Settle, UpdateIntentStatus

(* A step of the server is a step of a row's life, or leaves the rows.     *)
LEMMA LifecycleStep == IInv /\ [Next]_vars => [Lifecycle!Next]_row
<1> SUFFICES ASSUME IInv, Next PROVE [Lifecycle!Next]_row
  BY DEF vars
<1>1. ASSUME NEW i \in Intents, InsertIntent(i) PROVE [Lifecycle!Next]_row
  <2>1. row[i] = Lifecycle!Absent
    BY <1>1 DEF InsertIntent, IInv, CallInv
  <2> QED BY <1>1, <2>1 DEF InsertIntent, Pending, Lifecycle!Next, Lifecycle!Accept
<1>2. ASSUME NEW i \in Intents, MarkSubmitted(i) PROVE [Lifecycle!Next]_row
  <2>1. row[i] = Lifecycle!Pending
    BY <1>2 DEF MarkSubmitted, IInv, TaskInv, Pending
  <2> QED BY <1>2, <2>1 DEF MarkSubmitted, UpdateIntentStatus, Submitted,
                            Lifecycle!Next, Lifecycle!Submit
<1>3. ASSUME NEW i \in Intents, Settle(i) PROVE [Lifecycle!Next]_row
  BY <1>3, SettleStep
<1>4. CASE UNCHANGED row
  BY <1>4
<1> QED BY <1>1, <1>2, <1>3, <1>4
        DEF Next, HandlerStep, Admit, Refuse, SpawnTask, ClientGone, TaskWrites,
            GiveUp, Answered, SponsorOk, SponsorErr, SendOk, SendErr, PollReceipt,
            PollNull, PollNone, PollErr, BundlerStep, BundlerTakes, BundlerRefuses,
            Mine, Drop, Restart

(* IntentPipeline implements IntentLifecycle. *)
THEOREM Refinement == Spec => LifecycleHolds
<1>1. Init => Lifecycle!Init
  BY DEF Init
<1> QED BY <1>1, LifecycleStep, Invariance, PTL DEF Spec, LifecycleHolds, Lifecycle!Spec

==============================================================================
