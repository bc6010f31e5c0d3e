---------------------------- MODULE SdkSendIntent ----------------------------
(***************************************************************************)
(* useSendIntent (sdk/src/hooks/useSendIntent.ts): a send posts an intent  *)
(* and polls its status until it is settled or PollBudget intervals are    *)
(* over.  All sends write to one displayed status, hash and error.  The    *)
(* server is what IntentLifecycle promises; the intent that call c posts   *)
(* has the id c.                                                           *)
(***************************************************************************)
EXTENDS SdkClient

CONSTANT PollBudget  \* POLL_TIMEOUT_MS / POLL_INTERVAL_MS

ASSUME PollAssumption == PollBudget \in Nat \ {0}

VARIABLES
    intentStatus, txHash, sendError, \* what the hook shows
    elapsed,   \* the intervals that have passed since call c began to poll
    returned,  \* the record that call c has resolved to
    record,    \* the server's record of each intent
    owner      \* and the user whose intent it is

sendVars == <<intentStatus, txHash, sendError, elapsed, returned, record, owner>>
shownVars == <<intentStatus, txHash, sendError>>

L == INSTANCE IntentLifecycle WITH Intents <- Calls

NoHash == 0

Sends == {c \in Calls : calls[c].fn = "send"}

SendTypeOK ==
    /\ intentStatus \in (L!Status \ {"absent"}) \cup {"null"}
    /\ txHash \in Calls \cup {NoHash}
    /\ sendError \in Error
    /\ elapsed \in [Calls -> 0..PollBudget]
    /\ returned \in [Calls -> L!Record]
    /\ record \in [Calls -> L!Record]
    /\ owner \in [Calls -> Users \cup {NoUser}]

SendInit ==
    /\ intentStatus = "null" /\ txHash = NoHash /\ sendError = "none"
    /\ elapsed = [c \in Calls |-> 0]
    /\ returned = [c \in Calls |-> L!Absent]
    /\ L!Init
    /\ owner = [c \in Calls |-> NoUser]

-----------------------------------------------------------------------------
(* What the hook shows                                                     *)

ShowPending ==
    /\ intentStatus' = "pending" /\ txHash' = NoHash /\ sendError' = "none"
    /\ UNCHANGED <<token, elapsed, returned, record, owner>>

ShowError(error) ==
    /\ intentStatus' = "null" /\ sendError' = error
    /\ UNCHANGED <<token, txHash, elapsed, returned, record, owner>>

(* Both sends ask for a login first ... *)
SendNotAuthenticated ==
    /\ ~isAuthenticated
    /\ sendError' = "not_authenticated"
    /\ UNCHANGED <<token, calls, intentStatus, txHash, elapsed, returned, record, owner>>

reset ==
    /\ intentStatus' = "null" /\ txHash' = NoHash /\ sendError' = "none"
    /\ UNCHANGED <<token, calls, elapsed, returned, record, owner>>

-----------------------------------------------------------------------------
(* The stretches of a send                                                 *)

sendIntentWithSessionKey(c) ==
    /\ isAuthenticated
    /\ Start(c, Call("send", NoHook, "build", NoUser))
    /\ ShowPending

sendIntent(c) ==
    /\ isAuthenticated
    /\ Start(c, Call("send", NoHook, "post", token))
    /\ ShowPending

(* The operation is built: sendIntent, whose own check of the login may    *)
(* now fail and leaves the status pending.                                 *)
BuildPosts(c) ==
    /\ calls[c].at = "build"
    /\ isAuthenticated
    /\ Await(c, "post", token)
    /\ ShowPending

BuildFindsLogout(c) ==
    /\ calls[c].at = "build"
    /\ ~isAuthenticated
    /\ sendError' = "not_authenticated"
    /\ Return(c)
    /\ UNCHANGED <<token, intentStatus, txHash, elapsed, returned, record, owner>>

BuildFails(c) ==
    /\ calls[c].at = "build"
    /\ ShowError("unknown")
    /\ Return(c)

(* The server's side of POST /intent/execute. *)
ServerAccepts(c) ==
    /\ calls[c].at = "post"
    /\ L!Accept(c)
    /\ owner' = [owner EXCEPT ![c] = calls[c].user]
    /\ UNCHANGED <<token, calls, shownVars, elapsed, returned>>

PostAccepted(c) ==
    /\ calls[c].at = "post" /\ record[c] # L!Absent
    /\ intentStatus' = "pending"
    /\ Await(c, "sleep", NoUser)
    /\ UNCHANGED <<token, txHash, sendError, elapsed, returned, record, owner>>

(* The answer may be lost of an intent that the server has accepted. *)
PostFails(c) ==
    /\ calls[c].at = "post"
    /\ \E error \in RequestErrors :
          /\ error = "refused" => record[c] = L!Absent
          /\ ShowError(error)
    /\ Return(c)

(* Mutant: the loop counts nothing. *)
SleepEnds_Uncounted(c) ==
    /\ calls[c].at = "sleep"
    /\ Await(c, "poll", token)
    /\ UNCHANGED <<token, sendVars>>

SleepEnds(c) ==
    /\ calls[c].at = "sleep"
    /\ elapsed' = [elapsed EXCEPT ![c] = elapsed[c] + 1]
    /\ Await(c, "poll", token)
    /\ UNCHANGED <<token, shownVars, returned, record, owner>>

(* The server tells a user of his own intents only.  Reading the record    *)
(* and showing it are one step: what happens to the record in between can  *)
(* as well happen after.                                                   *)
PollReads(c) ==
    /\ calls[c].at = "poll" /\ calls[c].user = owner[c] /\ owner[c] # NoUser
    /\ intentStatus' = record[c].status
    /\ txHash' = IF record[c].tx_hash = "hash" THEN c ELSE txHash

(* Mutant: a hash is taken for the end. *)
PollSettled_AtHash(c) ==
    /\ PollReads(c)
    /\ record[c].tx_hash = "hash"
    /\ returned' = [returned EXCEPT ![c] = record[c]]
    /\ Return(c)
    /\ UNCHANGED <<token, sendError, elapsed, record, owner>>

PollSettled(c) ==
    /\ PollReads(c)
    /\ record[c].status \in L!Terminal
    /\ returned' = [returned EXCEPT ![c] = record[c]]
    /\ Return(c)
    /\ UNCHANGED <<token, sendError, elapsed, record, owner>>

(* The answer has taken some time: is the deadline over? *)
PollsOn(c) ==
    /\ PollReads(c)
    /\ record[c].status \notin L!Terminal
    /\ \E now \in elapsed[c] .. (PollBudget - 1) :
          elapsed' = [elapsed EXCEPT ![c] = now]
    /\ Await(c, "sleep", NoUser)
    /\ UNCHANGED <<token, sendError, returned, record, owner>>

PollTimesOut(c) ==
    /\ PollReads(c)
    /\ record[c].status \notin L!Terminal
    /\ elapsed' = [elapsed EXCEPT ![c] = PollBudget]
    /\ sendError' = "unknown"
    /\ Return(c)
    /\ UNCHANGED <<token, returned, record, owner>>

PollFails(c) ==
    /\ calls[c].at = "poll"
    /\ \E error \in RequestErrors : ShowError(error)
    /\ Return(c)

ServerWorks ==
    /\ \E c \in Calls : L!Submit(c) \/ L!Settle(c)
    /\ UNCHANGED <<token, calls, shownVars, elapsed, returned, owner>>

-----------------------------------------------------------------------------

SendProgress(c) ==
    \/ BuildPosts(c) \/ BuildFindsLogout(c) \/ BuildFails(c)
    \/ PostAccepted(c) \/ PostFails(c) \/ SleepEnds(c)
    \/ PollSettled(c) \/ PollsOn(c) \/ PollTimesOut(c) \/ PollFails(c)

SendNext ==
    \/ SendNotAuthenticated \/ reset \/ ServerWorks
    \/ \E c \in Calls :
          \/ sendIntentWithSessionKey(c) \/ sendIntent(c)
          \/ ServerAccepts(c) \/ SendProgress(c)

(* What the hook shows and what its sends resolve to is true of the        *)
(* server's records, now and for good: a settled status is that of one of  *)
(* the intents sent, a hash is that of an intent whose record has it, and  *)
(* a send resolves to the final record of its own intent                   *)
(* (useSendIntent.ts: pollUntilSettled; intent.rs: status).                *)
ShownIsTrue ==
    /\ intentStatus \in L!Terminal =>
          \E c \in Calls : record[c].status = intentStatus
    /\ txHash # NoHash => record[txHash].tx_hash = "hash"
    /\ \A c \in Calls : returned[c] # L!Absent =>
          returned[c].status \in L!Terminal /\ returned[c] = record[c]

==============================================================================
