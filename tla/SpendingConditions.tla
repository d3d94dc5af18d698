------------------------- MODULE SpendingConditions -------------------------
(***************************************************************************)
(* Spending conditions: NUT-10 secrets, P2PK (NUT-11) and HTLC (NUT-14),   *)
(* with SIG_INPUTS and SIG_ALL.                                            *)
(*                                                                         *)
(* A client puts a request together: it signs proofs, adds preimages,      *)
(* signs the whole request, and may change the outputs after it has        *)
(* signed.  The mint verifies the request, perhaps more than once, while   *)
(* time passes.  A request is a swap or a melt: both have inputs, and the  *)
(* message that SIG_ALL signs covers the inputs and all that the request   *)
(* asks for.                                                               *)
(***************************************************************************)
EXTENDS Naturals, Sequences, FiniteSets

CONSTANTS
    Keys,
    Preimages,
    Hash(_),      \* the hash of a preimage; None for one that is malformed
    Secrets,
    Content(_),   \* what a secret says: [kind, data, tags]
    Requests,     \* the inputs of the requests, as sequences of secrets
    None,
    MaxTime,      \* bound on the clock
    MaxSigs,      \* bound on the signatures of a request
    MaxRebuilds   \* bound on the changes of the outputs

ASSUME SpendingAssumption ==
    /\ MaxTime \in Nat /\ MaxSigs \in Nat /\ MaxRebuilds \in Nat
    /\ None \notin Keys /\ None \notin Preimages /\ None \notin Nat
    /\ Requests \subseteq Seq(Secrets)
    /\ \A s \in Secrets : /\ Content(s).kind \in {"plain", "P2PK", "HTLC"}
                          /\ Content(s).tags.locktime \in Nat \cup {None}

VARIABLES
    now,      \* unix_time
    inputs,   \* the proofs of the request: [secret, witness]
    outs,     \* which outputs the request has
    verdict,  \* what the mint said of the request as it is
    signed,   \* history: which key has signed which message
    revealed  \* history: the preimages that were ever revealed

spendVars == <<now, inputs, outs, verdict, signed, revealed>>

(***************************************************************************)
(* Secrets.  The kind of a plain secret is "plain"; tags that do not parse *)
(* are not ok, and data that is no key or no hash is None.                 *)
(***************************************************************************)
Or(option, default) == IF option = None THEN default ELSE option

Listed(option) == Or(option, <<>>)

KeysIn(list) == {list[i] : i \in DOMAIN list}

(* SpendingConditions::try_from: tags that do not parse are no conditions. *)
IsConditions(s) == Content(s).kind # "plain" /\ Content(s).data # None

HasSigAll(s) == IsConditions(s) /\ Content(s).tags.ok /\ Content(s).tags.sig_all

LocktimePassed(tags, time) == tags.locktime # None /\ tags.locktime < time

(* Mutant: after the locktime only the refund keys can spend.              *)
PrimaryPathMutant(c, time) ==
    [pubkeys |-> IF LocktimePassed(c.tags, time) THEN <<>>
                 ELSE IF c.kind = "P2PK" THEN <<c.data>> \o Listed(c.tags.pubkeys)
                 ELSE Listed(c.tags.pubkeys),
     required |-> IF c.kind = "HTLC" /\ Listed(c.tags.pubkeys) = <<>> THEN 0
                  ELSE Or(c.tags.num_sigs, 1)]

(* get_pubkeys_and_required_sigs: the keys of the receiver, at any time.   *)
PrimaryPath(c, time) ==
    [pubkeys |-> IF c.kind = "P2PK" THEN <<c.data>> \o Listed(c.tags.pubkeys)
                 ELSE Listed(c.tags.pubkeys),
     required |-> IF c.kind = "HTLC" /\ Listed(c.tags.pubkeys) = <<>> THEN 0
                  ELSE Or(c.tags.num_sigs, 1)]

(* The refund keys once the locktime has passed; without them, anyone.     *)
RefundOpen(c, time) == LocktimePassed(c.tags, time)

RefundPath(c) ==
    [pubkeys |-> Listed(c.tags.refund),
     required |-> IF c.tags.refund = None THEN 0 ELSE Or(c.tags.num_sigs_refund, 1)]

(***************************************************************************)
(* Messages, signatures and witnesses.  The signatures of a witness are a  *)
(* set: two of the same key on the same message differ in their copy, and  *)
(* one that does not parse is None.  An HTLC witness may have no list of   *)
(* signatures.                                                             *)
(***************************************************************************)
OwnMessage(s) == [kind |-> "secret", ins |-> <<s>>, outs |-> 0]

SecretsOf(ins) == [i \in DOMAIN ins |-> ins[i].secret]

(* sig_all_msg_to_sign: the inputs, the outputs and the quote of a melt.   *)
SigAllMessage(ins, o) == [kind |-> "request", ins |-> SecretsOf(ins), outs |-> o]

Signature(k, m, n) == [key |-> k, msg |-> m, copy |-> n]

Act(k, m) == [key |-> k, msg |-> m]

SignaturesOf(w) == IF w = None THEN None ELSE w.sigs

SigSet(w) == Or(SignaturesOf(w), {})

AllSigs == UNION {SigSet(inputs[i].witness) : i \in DOMAIN inputs}

(* Witness::add_signatures; a proof without a witness gets a P2PK witness. *)
AddSignatures(w, sigs) ==
    IF w = None THEN [kind |-> "P2PK", preimage |-> None, sigs |-> sigs]
    ELSE [w EXCEPT !.sigs = Or(@, {}) \cup sigs]

(* Proof::add_preimage.                                                    *)
AddPreimage(w, p) == [kind |-> "HTLC", preimage |-> p, sigs |-> SignaturesOf(w)]

(* valid_signatures: the pairs of a key and a signature of it.             *)
VerifiedPairs(m, pubkeys, sigs) ==
    {p \in (DOMAIN pubkeys) \X sigs : p[2].key = pubkeys[p[1]] /\ p[2].msg = m}

VerifiedKeys(m, pubkeys, sigs) == {pubkeys[p[1]] : p \in VerifiedPairs(m, pubkeys, sigs)}

(* DuplicateSignature: two pairs have the same key, be it that the key     *)
(* signed twice or that it is listed twice.                                *)
Duplicates(m, pubkeys, sigs) ==
    \E p, q \in VerifiedPairs(m, pubkeys, sigs) : p # q /\ pubkeys[p[1]] = pubkeys[q[1]]

(* The signatures, all of which have to parse, are enough for a path.      *)
PathOk(m, path, sigs) ==
    /\ sigs # None
    /\ None \notin sigs
    /\ ~Duplicates(m, path.pubkeys, sigs)
    /\ Cardinality(VerifiedKeys(m, path.pubkeys, sigs)) >= path.required

(***************************************************************************)
(* Verification of one proof.                                              *)
(***************************************************************************)
(* verify_htlc_preimage.                                                   *)
PreimageOk(c, w) ==
    /\ w # None /\ w.kind = "HTLC"
    /\ c.data # None /\ w.preimage # None /\ Hash(w.preimage) = c.data

VerifyP2pk(proof, time) ==
    LET c == Content(proof.secret)
        m == OwnMessage(proof.secret)
        sigs == SignaturesOf(proof.witness)
    IN  /\ c.tags.ok /\ ~c.tags.sig_all /\ c.data # None
        /\ \/ PathOk(m, PrimaryPath(c, time), sigs)
           \/ /\ RefundOpen(c, time)
              /\ RefundPath(c).required = 0 \/ PathOk(m, RefundPath(c), sigs)

(* With the preimage the refund keys are not looked at.                    *)
VerifyHtlc(proof, time) ==
    LET c == Content(proof.secret)
        m == OwnMessage(proof.secret)
        w == proof.witness
        path == PrimaryPath(c, time)
    IN  /\ c.tags.ok /\ ~c.tags.sig_all
        /\ IF PreimageOk(c, w)
           THEN path.required = 0 \/ PathOk(m, path, w.sigs)
           ELSE /\ RefundOpen(c, time)
                /\ \/ RefundPath(c).required = 0
                   \/ w # None /\ w.kind = "HTLC" /\ PathOk(m, RefundPath(c), w.sigs)

(***************************************************************************)
(* Verification of a request.                                              *)
(***************************************************************************)
(* has_at_least_one_sig_all stops at the first SIG_ALL input, and fails at *)
(* an input before it that has a witness and no conditions.                *)
Misplaced(ins, i) == ~IsConditions(ins[i].secret) /\ ins[i].witness # None

FirstSigAll(ins) ==
    {i \in DOMAIN ins : HasSigAll(ins[i].secret) /\ \A j \in 1 .. i - 1 : ~HasSigAll(ins[j].secret)}

HasAtLeastOneSigAll(ins) ==
    \E i \in FirstSigAll(ins) : \A j \in 1 .. i - 1 : ~Misplaced(ins, j)

HasNoSigAll(ins) == \A i \in DOMAIN ins : ~HasSigAll(ins[i].secret) /\ ~Misplaced(ins, i)

(* Mutant: the tags need not be the same.                                  *)
AllInputsMatchMutant(ins) ==
    LET first == Content(ins[1].secret) IN
    /\ first.kind # "plain" /\ first.tags.ok /\ first.tags.sig_all
    /\ \A i \in DOMAIN ins :
          Content(ins[i].secret).kind = first.kind /\ Content(ins[i].secret).data = first.data

(* verify_all_inputs_match_for_sig_all.                                    *)
AllInputsMatch(ins) ==
    LET first == Content(ins[1].secret) IN
    /\ first.kind # "plain" /\ first.tags.ok /\ first.tags.sig_all
    /\ \A i \in DOMAIN ins : Content(ins[i].secret) = first

(* The signatures on the message of the request are in the first input.    *)
VerifySigAllP2pk(ins, m, time) ==
    LET c == Content(ins[1].secret)
        w == ins[1].witness
    IN  /\ c.data # None
        /\ \/ RefundOpen(c, time) /\ RefundPath(c).required = 0
           \/ /\ w # None
              /\ \/ PathOk(m, PrimaryPath(c, time), SignaturesOf(w))
                 \/ RefundOpen(c, time) /\ PathOk(m, RefundPath(c), SignaturesOf(w))

VerifySigAllHtlc(ins, m, time) ==
    LET c == Content(ins[1].secret)
        w == ins[1].witness
        path == PrimaryPath(c, time)
    IN  IF PreimageOk(c, w)
        THEN path.required = 0 \/ PathOk(m, path, SignaturesOf(w))
        ELSE /\ RefundOpen(c, time)
             /\ RefundPath(c).required = 0 \/ PathOk(m, RefundPath(c), SignaturesOf(w))

VerifyFullSigAllCheck(ins, m, time) ==
    /\ AllInputsMatch(ins)
    /\ IF Content(ins[1].secret).kind = "P2PK"
       THEN VerifySigAllP2pk(ins, m, time)
       ELSE VerifySigAllHtlc(ins, m, time)

VerifyInputsIndividually(ins, time) ==
    \A i \in DOMAIN ins :
       /\ Content(ins[i].secret).kind = "P2PK" => VerifyP2pk(ins[i], time)
       /\ Content(ins[i].secret).kind = "HTLC" => VerifyHtlc(ins[i], time)

VerifySpendingConditions(ins, m, time) ==
    \/ HasAtLeastOneSigAll(ins) /\ VerifyFullSigAllCheck(ins, m, time)
    \/ HasNoSigAll(ins) /\ VerifyInputsIndividually(ins, time)

-----------------------------------------------------------------------------
(***************************************************************************)
(* The client.                                                             *)
(***************************************************************************)
SpendInit ==
    /\ now = 0
    /\ \E r \in Requests : inputs = [i \in DOMAIN r |-> [secret |-> r[i], witness |-> None]]
    /\ outs = 0
    /\ verdict = "none"
    /\ signed = {}
    /\ revealed = {}

(* The request has changed, and nothing is known of it.                    *)
Changed == verdict' = "none" /\ UNCHANGED now

(* Key k signs message m, and the signature goes to the witness of input   *)
(* i.                                                                      *)
Sign(i, k, m) ==
    /\ Cardinality(AllSigs) < MaxSigs
    /\ LET n == CHOOSE n \in 1 .. MaxSigs : Signature(k, m, n) \notin AllSigs
       IN  inputs' = [inputs EXCEPT ![i].witness = AddSignatures(@, {Signature(k, m, n)})]
    /\ signed' = signed \cup {Act(k, m)}
    /\ UNCHANGED <<outs, revealed>> /\ Changed

(* Proof::sign_p2pk.                                                       *)
SignP2pk(i, k) ==
    /\ i \in DOMAIN inputs
    /\ Sign(i, k, OwnMessage(inputs[i].secret))

(* SwapRequest::sign_sig_all and MeltRequest::sign_sig_all, for a request  *)
(* with a SIG_ALL input.                                                   *)
SignSigAll(k) ==
    /\ \E i \in DOMAIN inputs : HasSigAll(inputs[i].secret)
    /\ Sign(1, k, SigAllMessage(inputs, outs))

(* An HTLC is given a preimage, once.                                      *)
RevealPreimage(i, p) ==
    /\ i \in DOMAIN inputs /\ Content(inputs[i].secret).kind = "HTLC"
    /\ inputs[i].witness # None => inputs[i].witness.preimage = None
    /\ inputs' = [inputs EXCEPT ![i].witness = AddPreimage(@, p)]
    /\ revealed' = revealed \cup {p}
    /\ UNCHANGED <<outs, signed>> /\ Changed

(* One signature is damaged on its way.                                    *)
Damage(i) ==
    /\ None \notin AllSigs
    /\ \E sig \in SigSet(inputs[i].witness) \ {None} :
          inputs' = [inputs EXCEPT ![i].witness.sigs = (@ \ {sig}) \cup {None}]
    /\ UNCHANGED <<outs, signed, revealed>> /\ Changed

(* The request is built again, with other outputs, after it was signed.    *)
Rebuild ==
    /\ outs < MaxRebuilds
    /\ \E k \in Keys : Act(k, SigAllMessage(inputs, outs)) \in signed
    /\ outs' = outs + 1
    /\ UNCHANGED <<inputs, signed, revealed>> /\ Changed

(***************************************************************************)
(* ReceiveSaga::prepare, by a wallet with the keys ks and the preimages    *)
(* ps: every proof is signed once for every listed key that the wallet     *)
(* holds.  (For SIG_ALL, execute signs the outputs one by one; the mint    *)
(* does not look at those signatures.)                                     *)
(***************************************************************************)
(* Mutant: the keys of the tags are left out.                              *)
ListedKeysMutant(c) == IF c.kind = "P2PK" THEN <<c.data>> ELSE <<>>

ListedKeys(c) ==
    (IF c.kind = "P2PK" THEN <<c.data>> ELSE <<>>) \o Listed(c.tags.pubkeys) \o Listed(c.tags.refund)

(* A P2PK secret without a key, and an HTLC without its preimage, end the  *)
(* receive.                                                                *)
Receivable(s, ps) ==
    Content(s).data # None /\ (Content(s).kind = "HTLC" => \E p \in ps : Hash(p) = Content(s).data)

PreimageFor(s, ps) == CHOOSE p \in ps : Hash(p) = Content(s).data

ReceiveSignatures(s, ks) ==
    LET keys == ListedKeys(Content(s))
    IN  {Signature(keys[j], OwnMessage(s), j) : j \in {j \in DOMAIN keys : keys[j] \in ks}}

(* The proofs that have conditions.                                        *)
ToSign == {i \in DOMAIN inputs : Content(inputs[i].secret).kind # "plain" /\ Content(inputs[i].secret).tags.ok}

ReceivedWitness(proof, ks, ps) ==
    LET s == proof.secret
        c == Content(s)
        w == IF c.kind = "HTLC" THEN AddPreimage(proof.witness, PreimageFor(s, ps)) ELSE proof.witness
    IN  IF ReceiveSignatures(s, ks) = {} THEN w ELSE AddSignatures(w, ReceiveSignatures(s, ks))

Receive(ks, ps) ==
    /\ AllSigs = {}
    /\ \A i \in ToSign : Receivable(inputs[i].secret, ps)
    /\ inputs' = [i \in DOMAIN inputs |->
           IF i \in ToSign THEN [inputs[i] EXCEPT !.witness = ReceivedWitness(inputs[i], ks, ps)]
           ELSE inputs[i]]
    /\ signed' = signed \cup
           UNION {{Act(g.key, g.msg) : g \in ReceiveSignatures(inputs[i].secret, ks)} : i \in ToSign}
    /\ revealed' = revealed \cup
           {PreimageFor(inputs[i].secret, ps) : i \in {i \in ToSign : Content(inputs[i].secret).kind = "HTLC"}}
    /\ UNCHANGED outs /\ Changed

(***************************************************************************)
(* The mint verifies a swap or melt request, which may be a retry.         *)
(***************************************************************************)
Acceptable == VerifySpendingConditions(inputs, SigAllMessage(inputs, outs), now)

Verify ==
    /\ verdict' = IF Acceptable THEN "ok" ELSE "refused"
    /\ UNCHANGED <<now, inputs, outs, signed, revealed>>

Tick ==
    /\ now < MaxTime
    /\ now' = now + 1
    /\ UNCHANGED <<inputs, outs, verdict, signed, revealed>>

SpendNext ==
    \/ \E k \in Keys : SignSigAll(k) \/ \E i \in DOMAIN inputs : SignP2pk(i, k)
    \/ \E i \in DOMAIN inputs : Damage(i) \/ \E p \in Preimages : RevealPreimage(i, p)
    \/ Rebuild
    \/ \E ks \in SUBSET Keys, ps \in SUBSET Preimages : Receive(ks, ps)
    \/ Verify
    \/ Tick

SpendSpec == SpendInit /\ [][SpendNext]_spendVars

-----------------------------------------------------------------------------
(***************************************************************************)
(* What the conditions of a proof ask for: at least n of the keys ks have  *)
(* signed message m, whatever the witnesses say.                           *)
(***************************************************************************)
SignedBy(n, ks, m) ==
    \E S \in SUBSET ks : Cardinality(S) >= n /\ \A k \in S : Act(k, m) \in signed

(* The receiver's keys, with the preimage of an HTLC; after the locktime   *)
(* also the refund keys, and anyone when there are none.                   *)
Authorised(i) ==
    LET s == inputs[i].secret
        c == Content(s)
        m == IF c.tags.sig_all THEN SigAllMessage(inputs, outs) ELSE OwnMessage(s)
        ByPath(path) == path.required = 0 \/ SignedBy(path.required, KeysIn(path.pubkeys), m)
    IN  c.kind # "plain" =>
            \/ /\ c.kind = "HTLC" => \E p \in revealed : Hash(p) = c.data
               /\ ByPath(PrimaryPath(c, now))
            \/ LocktimePassed(c.tags, now) /\ ByPath(RefundPath(c))

(* What verify_spending_conditions accepts, the holders of the keys have   *)
(* authorised: enough of them have signed each proof or, for SIG_ALL, this *)
(* very request, in which every proof has the same conditions.             *)
SpendsAreAuthorised == verdict = "ok" => \A i \in DOMAIN inputs : Authorised(i)

(* A request that was accepted is accepted when it is repeated later: the  *)
(* locktime adds a way to spend and takes none away.                       *)
AcceptedStays ==
    [][verdict = "ok" /\ inputs' = inputs /\ outs' = outs => verdict' # "refused"]_spendVars

(* A proof that a wallet with the keys ks is meant to be able to receive:  *)
(* SIG_INPUTS, no key listed twice, and enough keys.                       *)
MeantFor(s, ks) ==
    LET c == Content(s)
        keys == ListedKeys(c)
        Holds(path) == Cardinality(KeysIn(path.pubkeys) \cap ks) >= path.required
    IN  c.kind # "plain" =>
            /\ c.tags.ok /\ ~c.tags.sig_all
            /\ \A i, j \in DOMAIN keys : keys[i] = keys[j] => i = j
            /\ \/ Holds(PrimaryPath(c, now))
               \/ c.kind = "P2PK" /\ LocktimePassed(c.tags, now) /\ Holds(RefundPath(c))

(* The mint accepts what ReceiveSaga::prepare makes of a token that the    *)
(* wallet has the keys and preimages for.                                  *)
ReceiveIsAccepted ==
    [][\A ks \in SUBSET Keys, ps \in SUBSET Preimages :
          /\ Receive(ks, ps)
          /\ \A i \in DOMAIN inputs :
                inputs[i].witness = None /\ MeantFor(inputs[i].secret, ks)
          => Acceptable']_spendVars
=============================================================================
