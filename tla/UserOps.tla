-------------------------------- MODULE UserOps --------------------------------
(***************************************************************************)
(* Building a UserOperation (sdk/src/userop.ts, buildUserOperation):       *)
(* the nonce is read from the EntryPoint, the operation is sponsored by    *)
(* the bundler, hashed and signed with a session key; each of the requests *)
(* may fail.  All the operations are of one smart account, whichever page  *)
(* or script builds them.  An operation is built once.                     *)
(***************************************************************************)
EXTENDS Naturals, FiniteSets

CONSTANT Builds

VARIABLES
    op,         \* where each operation is and what it carries
    chainNonce  \* EntryPoint.getNonce of the account

opVars == <<op, chainNonce>>

Chains == {"baseSepolia", "base", "arbitrum", "unknown"}
CHAIN_CONFIGS == Chains \ {"unknown"}

\* A key as toHex of crypto.ts writes it, and as viem's type Hex wants it.
KeyForms == {"bare", "0x"}

Stages == {"none", "nonce", "sponsor", "signed", "mined", "failed"}

\* saw: the operations that were mined when the nonce was read; blamed:
\* a request has failed, or the bundler has refused the operation.  Neither is in the code.
Op(at, key, nonce, saw, blamed) ==
    [at |-> at, key |-> key, nonce |-> nonce, saw |-> saw, blamed |-> blamed]

Operation ==
    [at : Stages, key : KeyForms, nonce : Nat, saw : SUBSET Builds, blamed : BOOLEAN]

OpsTypeOK == op \in [Builds -> Operation] /\ chainNonce \in Nat

OpsInit ==
    /\ op = [b \in Builds |-> Op("none", "0x", 0, {}, FALSE)]
    /\ chainNonce = 0

Mined == {b \in Builds : op[b].at = "mined"}

(* Nothing is kept of an operation that comes to nothing.                  *)
End(b, blamed) == op' = [op EXCEPT ![b] = Op("failed", "0x", 0, {}, blamed)]

(* A chain without a configuration is refused before any request.          *)
buildUserOperation(b, key, chain) ==
    /\ op[b].at = "none"
    /\ IF chain \in CHAIN_CONFIGS
       THEN op' = [op EXCEPT ![b] = Op("nonce", key, 0, {}, FALSE)]
       ELSE End(b, FALSE)
    /\ UNCHANGED chainNonce

(* Mutant: the nonce is that of a block or more ago. *)
fetchNonce_Cached(b) ==
    /\ op[b].at = "nonce"
    /\ \E nonce \in 0 .. chainNonce :
          op' = [op EXCEPT ![b] = Op("sponsor", @.key, nonce, Mined, FALSE)]
    /\ UNCHANGED chainNonce

fetchNonce(b) ==
    /\ op[b].at = "nonce"
    /\ op' = [op EXCEPT ![b] = Op("sponsor", @.key, chainNonce, Mined, FALSE)]
    /\ UNCHANGED chainNonce

(* viem drops the first two characters of the key: what is left of a bare  *)
(* one is too short, and it throws.                                        *)
privateKeyToAccount(key) == key = "0x"

(* The sponsor's answer: the operation is assembled, hashed and signed.    *)
sponsorUserOperation(b) ==
    /\ op[b].at = "sponsor"
    /\ IF privateKeyToAccount(op[b].key)
       THEN op' = [op EXCEPT ![b] = Op("signed", @.key, @.nonce, @.saw, FALSE)]
       ELSE End(b, FALSE)
    /\ UNCHANGED chainNonce

RequestFails(b) ==
    /\ op[b].at \in {"nonce", "sponsor"}
    /\ End(b, TRUE)
    /\ UNCHANGED chainNonce

(* The bundler has the operation mined, if its nonce is the next one, or   *)
(* refuses it for this or any other reason.                                *)
Include(b) ==
    /\ op[b].at = "signed" /\ op[b].nonce = chainNonce
    /\ op' = [op EXCEPT ![b] = Op("mined", @.key, @.nonce, @.saw, FALSE)]
    /\ chainNonce' = chainNonce + 1

Drop(b) ==
    /\ op[b].at = "signed"
    /\ End(b, TRUE)
    /\ UNCHANGED chainNonce

Build(b) == fetchNonce(b) \/ sponsorUserOperation(b) \/ RequestFails(b)

-----------------------------------------------------------------------------

(* Who reads the nonce after an operation was mined gets a later one than  *)
(* that operation's; and a signed operation whose nonce is used up was     *)
(* overtaken: another was mined with its nonce that was not mined yet      *)
(* when that was read.  The two builds need not overlap: that the first is *)
(* signed and not yet mined when the second reads is enough (userop.ts:    *)
(* buildUserOperation asks for the nonce of what is mined).                *)
NonceClashHasCause ==
    /\ \A a, b \in Builds :
          op[a].at \in {"signed", "mined"} /\ b \in op[a].saw
             => op[b].nonce < op[a].nonce
    /\ \A a \in Builds :
          op[a].at = "signed" /\ op[a].nonce < chainNonce
             => \E b \in Mined \ op[a].saw : op[b].nonce = op[a].nonce

==============================================================================
