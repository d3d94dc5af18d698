----------------------------- MODULE MintStore -----------------------------
(***************************************************************************)
(* The tables of the mint's SQL database that the swap and melt sagas      *)
(* share, and what one statement of a database transaction does to them;   *)
(* whether the mint process runs, and what it last published.              *)
(*                                                                         *)
(* A transaction takes row locks (SELECT ... FOR UPDATE) and commits       *)
(* atomically, so the modules that extend this one model every             *)
(* transaction as one step: the operators below compute the next value of  *)
(* one table, and a transaction composes them.  An operator named ...Ok is *)
(* the condition under which the statement does not return an error.       *)
(***************************************************************************)
EXTENDS FiniteSetsExt

CONSTANTS
    Ys,               \* proofs, identified by their Y = hash_to_curve(secret)
    Outs,             \* blinded messages (outputs), identified by B_
    Ops,              \* operation ids, one for each saga that is ever started
    NoOp,             \* an operation_id column that is NULL
    InputsAmount(_),  \* the total amount of a set of proofs
    InputFeePpk       \* input_fee_ppk of the keyset

ASSUME StoreAssumption ==
    /\ IsFiniteSet(Ys)
    /\ NoOp \notin Ops
    /\ \A ys \in SUBSET Ys : InputsAmount(ys) \in Nat
    /\ InputFeePpk \in Nat

VARIABLES
    proof,                 \* table proof: state and operation_id of every Y
    blind_signature,       \* table blind_signature: c IS NULL is "Unsigned"
    saga_state,            \* table saga_state: "None" is no row
    keyset_amounts,        \* table keyset_amounts, for the one keyset
    completed_operations,  \* table completed_operations: the ids in it
    mint,                  \* the process: "up", "down" or "starting"
    told                   \* the last state published for every Y (NUT-17)

storeVars == <<proof, blind_signature, saga_state, keyset_amounts, completed_operations>>

ProofState == {"None", "Unspent", "Pending", "Spent"}

NoProof == [state |-> "None", op |-> NoOp]

NoOutput == [state |-> "None", op |-> NoOp, amount |-> 0]

ProofTable == [Ys -> [state : ProofState, op : Ops \cup {NoOp}]]

OutputTable ==
    [Outs -> [state : {"None", "Unsigned", "Signed"}, op : Ops \cup {NoOp}, amount : Nat]]

AmountsRow == [issued : Nat, redeemed : Nat, fee : Nat]

StoreInit ==
    /\ proof = [y \in Ys |-> NoProof]
    /\ blind_signature = [b \in Outs |-> NoOutput]
    /\ saga_state = [o \in Ops |-> "None"]
    /\ keyset_amounts = [issued |-> 0, redeemed |-> 0, fee |-> 0]
    /\ completed_operations = {}
    /\ mint = "up"
    /\ told = [y \in Ys |-> "None"]

(* calculate_fee: the per-proof fees are in parts per thousand of a unit,  *)
(* summed, and the sum is rounded up.                                      *)
CalculateFee(ys) == (InputFeePpk * Cardinality(ys) + 999) \div 1000

(***************************************************************************)
(* Table proof.                                                            *)
(***************************************************************************)
CheckStateTransition(s, new) ==
    \/ s = "Unspent" /\ new \in {"Pending", "Spent"}
    \/ s = "Pending" /\ new \in {"Unspent", "Spent"}

(* Mutant: only a proof that is Spent is refused, not one that is Pending. *)
AddProofsMutant(t, ys) == \A y \in ys : t[y].state # "Spent"

AddProofsOk(t, ys) == \A y \in ys : t[y].state = "None"

AddProofs(t, ys, o) ==
    [y \in Ys |-> IF y \in ys THEN [state |-> "Unspent", op |-> o] ELSE t[y]]

(* get_proofs finds every row, all in one state, and Mint::                *)
(* update_proofs_state accepts the transition from it.                     *)
UpdateProofsOk(t, ys, new) ==
    /\ ys # {}
    /\ \A y, z \in ys : t[y].state = t[z].state
    /\ \A y \in ys : CheckStateTransition(t[y].state, new)

UpdateProofsState(t, ys, new) ==
    [y \in Ys |-> IF y \in ys THEN [t[y] EXCEPT !.state = new] ELSE t[y]]

(* DELETE ... AND state NOT IN ('SPENT'): the rows it can delete are       *)
(* deleted even when they are not all the ones asked for and the statement *)
(* reports AttemptRemoveSpentProof.                                        *)
Removable(t, ys) == {y \in ys : t[y].state \notin {"None", "Spent"}}

RemoveProofs(t, ys) == [y \in Ys |-> IF y \in Removable(t, ys) THEN NoProof ELSE t[y]]

RemoveProofsOk(t, ys) == Removable(t, ys) = ys

(* Mutant: only the rows that are not reserved yet are found.              *)
ProofYsMutant(t, o) == {y \in Ys : t[y].state = "Unspent" /\ t[y].op = o}

ProofYsByOperationId(t, o) == {y \in Ys : t[y].state # "None" /\ t[y].op = o}

(***************************************************************************)
(* Table blind_signature.                                                  *)
(***************************************************************************)
AddBlindedMessagesOk(t, bs) == \A b \in bs : t[b].state = "None"

AddBlindedMessages(t, bs, o) ==
    [b \in Outs |-> IF b \in bs THEN [state |-> "Unsigned", op |-> o, amount |-> 0] ELSE t[b]]

(* Mutant: a message is signed again.                                      *)
ResignMutant(t, sigs) == TRUE

(* A message that already has a signature is an error; one that has no row *)
(* gets one without an operation_id.  sigs maps each blinded message to    *)
(* the amount it is signed for.                                            *)
AddBlindSignaturesOk(t, sigs) == \A b \in DOMAIN sigs : t[b].state # "Signed"

AddBlindSignatures(t, sigs) ==
    [b \in Outs |->
        IF b \in DOMAIN sigs
        THEN [state |-> "Signed", op |-> t[b].op, amount |-> sigs[b]]
        ELSE t[b]]

DeleteBlindedMessages(t, bs) ==
    [b \in Outs |-> IF b \in bs /\ t[b].state = "Unsigned" THEN NoOutput ELSE t[b]]

BlindedSecretsByOperationId(t, o) == {b \in Outs : t[b].state # "None" /\ t[b].op = o}

(***************************************************************************)
(* Table keyset_amounts.                                                   *)
(***************************************************************************)
AddAmounts(row, issued, redeemed, fee) ==
    [issued   |-> row.issued + issued,
     redeemed |-> row.redeemed + redeemed,
     fee      |-> row.fee + fee]

(***************************************************************************)
(* Publishing a proof state to the subscribers of a Y.                     *)
(***************************************************************************)
Publish(ys, state) == told' = [y \in Ys |-> IF y \in ys THEN state ELSE told[y]]
=============================================================================
