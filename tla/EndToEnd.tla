------------------------------- MODULE EndToEnd -------------------------------
(***************************************************************************)
(* The page and the server: the hooks of Sdk, for which the server is what *)
(* IntentLifecycle promises, and the server of IntentPipeline, which keeps *)
(* that promise, with the requests between them.  A call of the page that  *)
(* posts an intent is the server's call of the same number.                *)
(*                                                                         *)
(* The page may give up a POST that the server goes on with, so that the   *)
(* row is inserted for nobody: record, the rows that the page can ask for, *)
(* lacks it.                                                               *)
(***************************************************************************)
EXTENDS Sdk

CONSTANTS
    Ops,        \* signed user operations
    NonceOf,    \* NonceOf[o] = the account nonce operation o was signed with
    MaxPolls    \* attempts of the receipt loop

ASSUME EndToEndAssumption == MaxPolls \in Nat \ {0}

VARIABLES
    carried, handler, row, task, wire, op, mishap, \* as in IntentPipeline
    posted      \* the calls whose POST was sent

serverVars == <<carried, handler, row, task, wire, op, mishap>>
e2eVars    == <<vars, serverVars, posted>>

Server == INSTANCE IntentPipeline WITH Intents <- Calls, call <- handler

E2EInit == Init /\ Server!Init /\ posted = {}

(* A step of the page.  A POST that is answered is answered by its         *)
(* handler; one that fails need not have been.                             *)
Beside ==
    /\ posted' = posted \cup {c \in Calls : calls'[c].at = "post"}
    /\ \A c \in Calls : calls[c].at = "post" =>
           /\ calls'[c].at = "sleep" => handler[c] = "accepted"
           /\ calls'[c].at = "returned" /\ sendError' = "refused"
                  => handler[c] = "refused"
    /\ UNCHANGED <<record, owner, serverVars>>

PageStep == Next /\ Beside

(* A step of the server, which handles what was posted.  The page can ask  *)
(* for a row that was inserted while its POST was under way.               *)
ServerStep ==
    /\ Server!Next
    /\ \A c \in Calls : handler'[c] # handler[c] => c \in posted
    /\ record' = [c \in Calls |-> IF record[c] = L!Absent /\ calls[c].at # "post"
                                  THEN L!Absent ELSE row'[c]]
    /\ owner' = [c \in Calls |-> IF record[c] = L!Absent /\ record'[c] # L!Absent
                                 THEN calls[c].user ELSE owner[c]]
    /\ UNCHANGED <<token, calls, loginVars, resourceVars, shownVars, elapsed,
                   returned, posted>>

E2ENext == PageStep \/ ServerStep
E2ESpec == E2EInit /\ [][E2ENext]_e2eVars

E2EFairSpec == E2ESpec /\ \A c \in Calls : WF_e2eVars(Progress(c) /\ Beside)

-----------------------------------------------------------------------------
(* Properties                                                              *)

(* Either side finds the other to be what it takes it for: the page a      *)
(* server that keeps the promise, the server clients that may do anything. *)
BothHold == Spec /\ Server!Spec

(* What the page shows of the chain is so, across two processes and a lost *)
(* request, late answer, restart or logout between any of their steps: a   *)
(* hash is that of an operation that the bundler has had, and a block that *)
(* a send resolves to is one that its own operation is in.                 *)
ShownOnChain ==
    /\ txHash # NoHash => op[carried[txHash]] # "unknown"
    /\ \A c \in Calls : returned[c].block_number = "block" =>
           op[carried[c]] \in Server!Mined

(* Of the sends whose operations have one nonce, none resolves to a block  *)
(* but those of one operation.                                             *)
OneSendPerNonce ==
    \A c, d \in Calls :
        /\ returned[c].block_number = "block" /\ returned[d].block_number = "block"
        /\ NonceOf[carried[c]] = NonceOf[carried[d]]
        => carried[c] = carried[d]

-----------------------------------------------------------------------------
(* The inductive invariant, with those of the two sides                    *)

Coupled ==
    \A c \in Calls :
        /\ record[c] \in {L!Absent, row[c]}
        /\ c \notin posted => handler[c] = "checking"
        /\ calls[c].at \in {"idle", "build"} => c \notin posted
        /\ calls[c].at = "post" => record[c] = row[c]

==============================================================================
