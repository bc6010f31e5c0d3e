--------------------------- MODULE IntentLifecycle ---------------------------
(***************************************************************************)
(* What the server promises to the client that polls                       *)
(* GET /intent/{id}/status: how the record of an intent may change, seen   *)
(* from outside and whatever happens inside (background tasks, bundler,    *)
(* failed writes, restarts).  IntentPipeline implements it.                *)
(***************************************************************************)

CONSTANT Intents    \* the intent ids

VARIABLE record     \* record[i] = the row a poll of intent i would read

(* The columns of the intents table that an intent's life changes.  The    *)
(* hash is always that of the operation the intent carried, the block that *)
(* of its receipt.                                                         *)
Status == {"absent", "pending", "submitted", "confirmed", "failed"}
Hash   == {"null", "hash"}
Block  == {"null", "block"}
Reason == {"null", "execution_reverted"}

Record == [status : Status, tx_hash : Hash, block_number : Block, reason : Reason]

Row(status, hash, block, reason) ==
    [status |-> status, tx_hash |-> hash, block_number |-> block, reason |-> reason]

Absent           == Row("absent", "null", "null", "null")
Pending          == Row("pending", "null", "null", "null")
Submitted        == Row("submitted", "hash", "null", "null")
Confirmed(block) == Row("confirmed", "hash", block, "null")
Failed(hash)     == Row("failed", hash, "null", "execution_reverted")

Open     == {Pending, Submitted}
Terminal == {"confirmed", "failed"}

Init == record = [i \in Intents |-> Absent]

(* An accepted intent starts pending ... *)
Accept(i) ==
    /\ record[i] = Absent
    /\ record' = [record EXCEPT ![i] = Pending]

(* ... may be seen in the bundler's hands ... *)
Submit(i) ==
    /\ record[i] = Pending
    /\ record' = [record EXCEPT ![i] = Submitted]

(* ... and is settled once, for good.  A client that was shown the hash of *)
(* its operation never loses it.                                           *)
Settle(i) ==
    /\ record[i] \in Open
    /\ \/ \E block \in Block :
              record' = [record EXCEPT ![i] = Confirmed(block)]
       \/ \E hash \in Hash :
              /\ record[i].tx_hash = "hash" => hash = "hash"
              /\ record' = [record EXCEPT ![i] = Failed(hash)]

Next == \E i \in Intents : Accept(i) \/ Submit(i) \/ Settle(i)

Spec == Init /\ [][Next]_record

==============================================================================
