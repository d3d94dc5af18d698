---------------------- MODULE SpendingConditionsProofs ----------------------
(***************************************************************************)
(* Proofs about spending conditions: whatever secrets there are, however a *)
(* request was put together and whenever it is verified, the mint accepts  *)
(* it only if the holders of the keys have authorised it.                  *)
(***************************************************************************)
EXTENDS SpendingConditions, TLAPS

(* The inputs are records, and their witnesses are, where there are any.   *)
SpendShape ==
    /\ now \in Nat
    /\ DOMAIN inputs # {} => 1 \in DOMAIN inputs
    /\ inputs = [i \in DOMAIN inputs |->
                    [secret |-> inputs[i].secret, witness |-> inputs[i].witness]]
    /\ \A i \in DOMAIN inputs :
          /\ inputs[i].secret \in Secrets
          /\ LET w == inputs[i].witness
             IN  w # None => w = [kind |-> w.kind, preimage |-> w.preimage, sigs |-> w.sigs]

(* A witness holds only what was signed and revealed.                      *)
WitnessTrue(w, acts, known) ==
    /\ \A g \in SigSet(w) : g # None => Act(g.key, g.msg) \in acts
    /\ w # None /\ w.preimage # None => w.preimage \in known

WitnessesTrue == \A i \in DOMAIN inputs : WitnessTrue(inputs[i].witness, signed, revealed)

(* The inductive invariant.                                                *)
SpendInv == SpendShape /\ WitnessesTrue /\ SpendsAreAuthorised

(***************************************************************************)
(* What verification establishes.                                          *)
(***************************************************************************)
(* The signatures that are enough for a path come from keys of the path    *)
(* that have signed the message.                                           *)
LEMMA PathSigned ==
    ASSUME NEW w, NEW m, NEW path, WitnessTrue(w, signed, revealed),
           PathOk(m, path, SignaturesOf(w))
    PROVE  SignedBy(path.required, KeysIn(path.pubkeys), m)
<1> DEFINE sigs == SignaturesOf(w)
           S == VerifiedKeys(m, path.pubkeys, sigs)
<1>1. sigs # None /\ None \notin sigs /\ Cardinality(S) >= path.required
  BY Zenon DEF PathOk
<1>2. SigSet(w) = sigs
  BY <1>1, Zenon DEF SigSet, Or
<1>3. S \subseteq KeysIn(path.pubkeys)
  BY Zenon DEF VerifiedKeys, VerifiedPairs, KeysIn
<1>4. ASSUME NEW k \in S PROVE Act(k, m) \in signed
  <2>1. PICK p \in (DOMAIN path.pubkeys) \X sigs :
          k = path.pubkeys[p[1]] /\ p[2].key = path.pubkeys[p[1]] /\ p[2].msg = m
    BY Zenon DEF VerifiedKeys, VerifiedPairs
  <2>2. p[2] \in sigs /\ p[2] # None
    BY <1>1, Zenon
  <2>3. Act(p[2].key, p[2].msg) \in signed
    BY <1>2, <2>2, Zenon DEF WitnessTrue
  <2> QED
    BY <2>1, <2>3, Zenon
<1> HIDE DEF S
<1> QED
  BY <1>1, <1>3, <1>4, Zenon DEF SignedBy

(* The preimage that verify_htlc_preimage accepts was revealed.            *)
LEMMA PreimageRevealed ==
    ASSUME NEW w, NEW c, WitnessTrue(w, signed, revealed), PreimageOk(c, w)
    PROVE  \E p \in revealed : Hash(p) = c.data
BY Zenon DEF WitnessTrue, PreimageOk

(* The message that has to be signed for a proof, and a path of its        *)
(* conditions that was taken.                                              *)
MessageFor(s) ==
    IF Content(s).tags.sig_all THEN SigAllMessage(inputs, outs) ELSE OwnMessage(s)

Taken(path, m) == path.required = 0 \/ SignedBy(path.required, KeysIn(path.pubkeys), m)

LEMMA AuthorisedBy ==
    ASSUME NEW i \in DOMAIN inputs, NEW c, c = Content(inputs[i].secret),
           \/ /\ c.kind = "HTLC" => \E p \in revealed : Hash(p) = c.data
              /\ Taken(PrimaryPath(c, now), MessageFor(inputs[i].secret))
           \/ LocktimePassed(c.tags, now) /\ Taken(RefundPath(c), MessageFor(inputs[i].secret))
    PROVE  Authorised(i)
BY Zenon DEF Authorised, MessageFor, Taken

(* Proofs that are verified one by one.                                    *)
LEMMA IndividuallyAuthorised ==
    ASSUME SpendInv, VerifyInputsIndividually(inputs, now), NEW i \in DOMAIN inputs
    PROVE  Authorised(i)
<1> DEFINE s == inputs[i].secret
           w == inputs[i].witness
           c == Content(s)
<1>1. WitnessTrue(w, signed, revealed) /\ s \in Secrets
  BY ZenonT(30) DEF SpendInv, WitnessesTrue, SpendShape
<1>2. CASE c.kind = "P2PK"
  <2>1. VerifyP2pk(inputs[i], now)
    BY <1>2, Zenon DEF VerifyInputsIndividually
  <2>2. MessageFor(s) = OwnMessage(s)
    BY <2>1, Zenon DEF VerifyP2pk, MessageFor
  <2>3. CASE PathOk(OwnMessage(s), PrimaryPath(c, now), SignaturesOf(w))
    <3>1. Taken(PrimaryPath(c, now), MessageFor(s))
      BY <1>1, <2>2, <2>3, PathSigned, Zenon DEF Taken
    <3> QED
      BY <1>2, <3>1, AuthorisedBy, Zenon
  <2>4. CASE /\ RefundOpen(c, now)
             /\ RefundPath(c).required = 0 \/ PathOk(OwnMessage(s), RefundPath(c), SignaturesOf(w))
    <3>1. Taken(RefundPath(c), MessageFor(s))
      BY <1>1, <2>2, <2>4, PathSigned, Zenon DEF Taken
    <3> QED
      BY <2>4, <3>1, AuthorisedBy, Zenon DEF RefundOpen
  <2> QED
    BY <2>1, <2>3, <2>4, Zenon DEF VerifyP2pk
<1>3. CASE c.kind = "HTLC"
  <2>1. VerifyHtlc(inputs[i], now)
    BY <1>3, Zenon DEF VerifyInputsIndividually
  <2>2. MessageFor(s) = OwnMessage(s)
    BY <2>1, Zenon DEF VerifyHtlc, MessageFor
  <2>3. w # None => SignaturesOf(w) = w.sigs
    BY Zenon DEF SignaturesOf
  <2>4. CASE PreimageOk(c, w)
    <3>1. \E p \in revealed : Hash(p) = c.data
      BY <1>1, <2>4, PreimageRevealed, Zenon
    <3>2. w # None
      BY <2>4, Zenon DEF PreimageOk
    <3>3. Taken(PrimaryPath(c, now), MessageFor(s))
      BY <1>1, <2>1, <2>2, <2>3, <2>4, <3>2, PathSigned, Zenon DEF Taken, VerifyHtlc
    <3> QED
      BY <3>1, <3>3, AuthorisedBy, Zenon
  <2>5. CASE ~PreimageOk(c, w)
    <3>1. Taken(RefundPath(c), MessageFor(s))
      BY <1>1, <2>1, <2>2, <2>3, <2>5, PathSigned, Zenon DEF Taken, VerifyHtlc
    <3>2. LocktimePassed(c.tags, now)
      BY <2>1, <2>5, Zenon DEF VerifyHtlc, RefundOpen
    <3> QED
      BY <3>1, <3>2, AuthorisedBy, Zenon
  <2> QED
    BY <2>4, <2>5, Zenon
<1>4. CASE c.kind = "plain"
  BY <1>4, Zenon DEF Authorised
<1> QED
  BY <1>1, <1>2, <1>3, <1>4, SpendingAssumption, Zenon

(* Proofs of a SIG_ALL request: all have the conditions of the first, and  *)
(* its witness is the one that counts.                                     *)
LEMMA SigAllAuthorised ==
    ASSUME SpendInv, 1 \in DOMAIN inputs, NEW i \in DOMAIN inputs,
           VerifyFullSigAllCheck(inputs, SigAllMessage(inputs, outs), now)
    PROVE  Authorised(i)
<1> DEFINE c == Content(inputs[1].secret)
           w == inputs[1].witness
           m == SigAllMessage(inputs, outs)
<1>1. WitnessTrue(w, signed, revealed) /\ inputs[1].secret \in Secrets
  BY ZenonT(30) DEF SpendInv, WitnessesTrue, SpendShape
<1>2. /\ c = Content(inputs[i].secret)
      /\ c.kind # "plain" /\ c.tags.sig_all
  BY Zenon DEF VerifyFullSigAllCheck, AllInputsMatch
<1>3. MessageFor(inputs[i].secret) = m
  BY <1>2, Zenon DEF MessageFor
<1>4. CASE c.kind = "P2PK"
  <2>1. VerifySigAllP2pk(inputs, m, now)
    BY <1>4, Zenon DEF VerifyFullSigAllCheck
  <2>2. CASE PathOk(m, PrimaryPath(c, now), SignaturesOf(w))
    <3>1. Taken(PrimaryPath(c, now), MessageFor(inputs[i].secret))
      BY <1>1, <1>3, <2>2, PathSigned, Zenon DEF Taken
    <3> QED
      BY <1>2, <1>4, <3>1, AuthorisedBy, Zenon
  <2>3. CASE /\ RefundOpen(c, now)
             /\ RefundPath(c).required = 0 \/ PathOk(m, RefundPath(c), SignaturesOf(w))
    <3>1. Taken(RefundPath(c), MessageFor(inputs[i].secret))
      BY <1>1, <1>3, <2>3, PathSigned, Zenon DEF Taken
    <3> QED
      BY <1>2, <2>3, <3>1, AuthorisedBy, Zenon DEF RefundOpen
  <2> QED
    BY <2>1, <2>2, <2>3, Zenon DEF VerifySigAllP2pk
<1>5. CASE c.kind = "HTLC"
  <2>1. VerifySigAllHtlc(inputs, m, now)
    BY <1>5, Zenon DEF VerifyFullSigAllCheck
  <2>2. CASE PreimageOk(c, w)
    <3>1. \E p \in revealed : Hash(p) = c.data
      BY <1>1, <2>2, PreimageRevealed, Zenon
    <3>2. Taken(PrimaryPath(c, now), MessageFor(inputs[i].secret))
      BY <1>1, <1>3, <2>1, <2>2, PathSigned, Zenon DEF Taken, VerifySigAllHtlc
    <3> QED
      BY <1>2, <3>1, <3>2, AuthorisedBy, Zenon
  <2>3. CASE ~PreimageOk(c, w)
    <3>1. Taken(RefundPath(c), MessageFor(inputs[i].secret))
      BY <1>1, <1>3, <2>1, <2>3, PathSigned, Zenon DEF Taken, VerifySigAllHtlc
    <3>2. LocktimePassed(c.tags, now)
      BY <2>1, <2>3, Zenon DEF VerifySigAllHtlc, RefundOpen
    <3> QED
      BY <1>2, <3>1, <3>2, AuthorisedBy, Zenon
  <2> QED
    BY <2>2, <2>3, Zenon
<1> QED
  BY <1>1, <1>2, <1>4, <1>5, SpendingAssumption, Zenon

-----------------------------------------------------------------------------
(***************************************************************************)
(* The steps.                                                              *)
(***************************************************************************)
LEMMA SpendInitInv == SpendInit => SpendInv
<1> SUFFICES ASSUME SpendInit PROVE SpendInv
  BY Zenon
<1>1. PICK r \in Requests : inputs = [i \in DOMAIN r |-> [secret |-> r[i], witness |-> None]]
  BY Zenon DEF SpendInit
<1>2. \A i \in DOMAIN r : r[i] \in Secrets
  BY SpendingAssumption
<1>3. DOMAIN r # {} => 1 \in DOMAIN r
  <2>1. r \in Seq(Secrets)
    BY SpendingAssumption, Zenon
  <2> QED
    BY <2>1
<1>4. SpendShape
  BY <1>1, <1>2, <1>3, Zenon DEF SpendInit, SpendShape
<1>5. WitnessesTrue
  BY <1>1, Zenon DEF WitnessesTrue, WitnessTrue, SigSet, SignaturesOf, Or
<1> QED
  BY <1>4, <1>5, Zenon DEF SpendInit, SpendInv, SpendsAreAuthorised

(* Signatures that are added to a witness, and a preimage that is.         *)
LEMMA AddSignaturesTrue ==
    ASSUME NEW w, NEW acts, NEW known, NEW sigs, WitnessTrue(w, acts, known),
           w # None => w = [kind |-> w.kind, preimage |-> w.preimage, sigs |-> w.sigs],
           \A g \in sigs : g # None => Act(g.key, g.msg) \in acts
    PROVE  /\ WitnessTrue(AddSignatures(w, sigs), acts, known)
           /\ LET v == AddSignatures(w, sigs)
              IN  v = [kind |-> v.kind, preimage |-> v.preimage, sigs |-> v.sigs]
BY ZenonT(30) DEF AddSignatures, WitnessTrue, SigSet, SignaturesOf, Or

LEMMA AddPreimageTrue ==
    ASSUME NEW w, NEW acts, NEW known, NEW p, WitnessTrue(w, acts, known), p \in known
    PROVE  /\ WitnessTrue(AddPreimage(w, p), acts, known)
           /\ LET v == AddPreimage(w, p)
              IN  v = [kind |-> v.kind, preimage |-> v.preimage, sigs |-> v.sigs]
BY Zenon DEF AddPreimage, WitnessTrue, SigSet, SignaturesOf, Or

(* More signatures and more preimages make no witness false.               *)
LEMMA WitnessStays ==
    ASSUME NEW w, NEW acts, NEW known, NEW acts2, NEW known2, WitnessTrue(w, acts, known),
           acts \subseteq acts2, known \subseteq known2
    PROVE  WitnessTrue(w, acts2, known2)
BY Zenon DEF WitnessTrue

(* A step that changes witnesses, and forgets the verdict.                 *)
LEMMA ClientStep ==
    ASSUME SpendInv, verdict' = "none", now' = now,
           DOMAIN inputs' = DOMAIN inputs,
           inputs' = [i \in DOMAIN inputs |->
                         [secret |-> inputs[i].secret, witness |-> inputs'[i].witness]],
           \A i \in DOMAIN inputs :
              LET w == inputs'[i].witness
              IN  /\ w # None => w = [kind |-> w.kind, preimage |-> w.preimage, sigs |-> w.sigs]
                  /\ WitnessTrue(w, signed', revealed')
    PROVE  SpendInv'
<1>1. \A i \in DOMAIN inputs : inputs'[i].secret = inputs[i].secret
  OBVIOUS
<1>2. SpendShape'
  BY <1>1, ZenonT(30) DEF SpendInv, SpendShape
<1>3. WitnessesTrue'
  BY ZenonT(30) DEF WitnessesTrue
<1> QED
  BY <1>2, <1>3, Zenon DEF SpendInv, SpendsAreAuthorised

(* One witness is replaced.                                                *)
LEMMA OneWitness ==
    ASSUME SpendInv, verdict' = "none", now' = now, NEW i \in DOMAIN inputs, NEW v,
           inputs' = [inputs EXCEPT ![i].witness = v],
           signed \subseteq signed', revealed \subseteq revealed',
           v = [kind |-> v.kind, preimage |-> v.preimage, sigs |-> v.sigs],
           WitnessTrue(v, signed', revealed')
    PROVE  SpendInv'
<1>1. /\ DOMAIN inputs' = DOMAIN inputs
      /\ \A j \in DOMAIN inputs :
            /\ inputs'[j] = [secret |-> inputs[j].secret, witness |-> inputs'[j].witness]
            /\ inputs'[j].witness = IF j = i THEN v ELSE inputs[j].witness
  BY DEF SpendInv, SpendShape
<1>2. inputs' = [j \in DOMAIN inputs |->
                    [secret |-> inputs[j].secret, witness |-> inputs'[j].witness]]
  BY <1>1, ZenonT(30)
<1>3. \A j \in DOMAIN inputs : WitnessTrue(inputs[j].witness, signed', revealed')
  BY WitnessStays, Zenon DEF SpendInv, WitnessesTrue
<1>4. \A j \in DOMAIN inputs :
         LET w == inputs'[j].witness
         IN  /\ w # None => w = [kind |-> w.kind, preimage |-> w.preimage, sigs |-> w.sigs]
             /\ WitnessTrue(w, signed', revealed')
  BY <1>1, <1>3 DEF SpendInv, SpendShape
<1> QED
  BY <1>1, <1>2, <1>4, ClientStep, Zenon

LEMMA SignInv ==
    ASSUME SpendInv, NEW i \in DOMAIN inputs, NEW k, NEW m, Sign(i, k, m)
    PROVE  SpendInv'
<1> DEFINE w == inputs[i].witness
<1>1. PICK n : inputs' = [inputs EXCEPT ![i].witness = AddSignatures(w, {Signature(k, m, n)})]
  BY ZenonT(30) DEF Sign
<1> DEFINE sigs == {Signature(k, m, n)}
<1>2. /\ signed' = signed \cup {Act(k, m)} /\ revealed' = revealed
      /\ verdict' = "none" /\ now' = now
  BY Zenon DEF Sign, Changed
<1>3. \A g \in sigs : g # None => Act(g.key, g.msg) \in signed'
  BY <1>2 DEF Signature
<1>4. /\ WitnessTrue(w, signed', revealed')
      /\ w # None => w = [kind |-> w.kind, preimage |-> w.preimage, sigs |-> w.sigs]
  BY <1>2, WitnessStays, Zenon DEF SpendInv, SpendShape, WitnessesTrue
<1>5. /\ WitnessTrue(AddSignatures(w, sigs), signed', revealed')
      /\ LET v == AddSignatures(w, sigs)
         IN  v = [kind |-> v.kind, preimage |-> v.preimage, sigs |-> v.sigs]
  BY <1>3, <1>4, AddSignaturesTrue, ZenonT(30)
<1> QED
  BY <1>1, <1>2, <1>5, OneWitness, ZenonT(30)

LEMMA RevealPreimageInv ==
    ASSUME SpendInv, NEW i, NEW p, RevealPreimage(i, p)
    PROVE  SpendInv'
<1> DEFINE w == inputs[i].witness
<1>1. /\ i \in DOMAIN inputs
      /\ inputs' = [inputs EXCEPT ![i].witness = AddPreimage(w, p)]
      /\ signed' = signed /\ revealed' = revealed \cup {p}
      /\ verdict' = "none" /\ now' = now
  BY Zenon DEF RevealPreimage, Changed
<1>2. WitnessTrue(w, signed', revealed')
  BY <1>1, WitnessStays, Zenon DEF SpendInv, WitnessesTrue
<1>3. /\ WitnessTrue(AddPreimage(w, p), signed', revealed')
      /\ LET v == AddPreimage(w, p)
         IN  v = [kind |-> v.kind, preimage |-> v.preimage, sigs |-> v.sigs]
  BY <1>1, <1>2, AddPreimageTrue, Zenon
<1> QED
  BY <1>1, <1>3, OneWitness, ZenonT(30)

LEMMA DamageInv ==
    ASSUME SpendInv, NEW i \in DOMAIN inputs, Damage(i)
    PROVE  SpendInv'
<1> DEFINE w == inputs[i].witness
<1>1. PICK sig \in SigSet(w) \ {None} :
         inputs' = [inputs EXCEPT ![i].witness.sigs = (@ \ {sig}) \cup {None}]
  BY ZenonT(30) DEF Damage
<1>2. /\ signed' = signed /\ revealed' = revealed
      /\ verdict' = "none" /\ now' = now
  BY Zenon DEF Damage, Changed
<1>3. w # None /\ w.sigs # None /\ SigSet(w) = w.sigs
  BY <1>1, Zenon DEF SigSet, SignaturesOf, Or
<1> DEFINE v == [kind |-> w.kind, preimage |-> w.preimage, sigs |-> (w.sigs \ {sig}) \cup {None}]
<1>4. w = [kind |-> w.kind, preimage |-> w.preimage, sigs |-> w.sigs]
  BY <1>3, Zenon DEF SpendInv, SpendShape
<1>5. [w EXCEPT !.sigs = (@ \ {sig}) \cup {None}] = v
  BY <1>4
<1>6. inputs' = [inputs EXCEPT ![i].witness = v]
  BY <1>1, <1>5, ZenonT(30)
<1>7. WitnessTrue(w, signed, revealed)
  BY Zenon DEF SpendInv, WitnessesTrue
<1>8. WitnessTrue(v, signed', revealed')
  BY <1>2, <1>3, <1>7, Zenon DEF WitnessTrue, SigSet, SignaturesOf, Or
<1>9. v = [kind |-> v.kind, preimage |-> v.preimage, sigs |-> v.sigs]
  BY Zenon
<1> HIDE DEF v
<1> QED
  BY <1>2, <1>6, <1>8, <1>9, OneWitness, ZenonT(30)

LEMMA RebuildInv == ASSUME SpendInv, Rebuild PROVE SpendInv'
BY Zenon DEF SpendInv, SpendShape, WitnessesTrue, SpendsAreAuthorised, Rebuild, Changed

(* What a receiving wallet makes of the witness of proof i.                *)
LEMMA ReceivedWitnessTrue ==
    ASSUME SpendInv, NEW ks, NEW ps, Receive(ks, ps), NEW i \in ToSign
    PROVE  LET v == ReceivedWitness(inputs[i], ks, ps)
           IN  /\ v # None => v = [kind |-> v.kind, preimage |-> v.preimage, sigs |-> v.sigs]
               /\ WitnessTrue(v, signed', revealed')
<1> DEFINE s == inputs[i].secret
           c == Content(s)
           p == PreimageFor(s, ps)
           w == IF c.kind = "HTLC" THEN AddPreimage(inputs[i].witness, p) ELSE inputs[i].witness
           sigs == ReceiveSignatures(s, ks)
<1>1. i \in DOMAIN inputs /\ signed \subseteq signed' /\ revealed \subseteq revealed'
  BY Zenon DEF Receive, ToSign
<1>2. c.kind = "HTLC" => p \in revealed'
  BY Zenon DEF Receive
<1>3. \A g \in sigs : Act(g.key, g.msg) \in signed'
  BY DEF Receive
<1>4. /\ WitnessTrue(inputs[i].witness, signed', revealed')
      /\ LET v == inputs[i].witness
         IN  v # None => v = [kind |-> v.kind, preimage |-> v.preimage, sigs |-> v.sigs]
  BY <1>1, WitnessStays, Zenon DEF SpendInv, SpendShape, WitnessesTrue
<1>5. /\ WitnessTrue(w, signed', revealed')
      /\ w # None => w = [kind |-> w.kind, preimage |-> w.preimage, sigs |-> w.sigs]
  <2>1. CASE c.kind = "HTLC"
    BY <1>2, <1>4, <2>1, AddPreimageTrue, Zenon
  <2>2. CASE c.kind # "HTLC"
    BY <1>4, <2>2, Zenon
  <2> QED
    BY <2>1, <2>2, Zenon
<1> HIDE DEF w
<1>6. /\ WitnessTrue(AddSignatures(w, sigs), signed', revealed')
      /\ LET v == AddSignatures(w, sigs)
         IN  v = [kind |-> v.kind, preimage |-> v.preimage, sigs |-> v.sigs]
  BY <1>3, <1>5, AddSignaturesTrue, Zenon
<1>7. ReceivedWitness(inputs[i], ks, ps) = IF sigs = {} THEN w ELSE AddSignatures(w, sigs)
  BY Zenon DEF ReceivedWitness, w
<1> HIDE DEF sigs
<1> QED
  BY <1>5, <1>6, <1>7, Zenon

LEMMA ReceiveInv == ASSUME SpendInv, NEW ks, NEW ps, Receive(ks, ps) PROVE SpendInv'
<1>1. /\ inputs' = [i \in DOMAIN inputs |->
             IF i \in ToSign THEN [inputs[i] EXCEPT !.witness = ReceivedWitness(inputs[i], ks, ps)]
             ELSE inputs[i]]
      /\ signed \subseteq signed' /\ revealed \subseteq revealed'
      /\ verdict' = "none" /\ now' = now
  BY Zenon DEF Receive, Changed
<1>2. \A i \in DOMAIN inputs :
         inputs[i] = [secret |-> inputs[i].secret, witness |-> inputs[i].witness]
  BY Zenon DEF SpendInv, SpendShape
<1>3. \A i \in DOMAIN inputs :
         /\ inputs'[i] = [secret |-> inputs[i].secret, witness |-> inputs'[i].witness]
         /\ inputs'[i].witness = IF i \in ToSign THEN ReceivedWitness(inputs[i], ks, ps)
                                ELSE inputs[i].witness
  BY <1>1, <1>2
<1>4. DOMAIN inputs' = DOMAIN inputs
  BY <1>1, Zenon
<1>5. inputs' = [i \in DOMAIN inputs |->
                    [secret |-> inputs[i].secret, witness |-> inputs'[i].witness]]
  BY <1>1, <1>3, <1>4, Zenon
<1>6. ASSUME NEW i \in DOMAIN inputs
      PROVE  LET w == inputs'[i].witness
             IN  /\ w # None => w = [kind |-> w.kind, preimage |-> w.preimage, sigs |-> w.sigs]
                 /\ WitnessTrue(w, signed', revealed')
  <2>1. CASE i \in ToSign
    BY <1>3, <2>1, ReceivedWitnessTrue, ZenonT(30)
  <2>2. CASE i \notin ToSign
    <3>1. WitnessTrue(inputs[i].witness, signed', revealed')
      BY <1>1, WitnessStays, Zenon DEF SpendInv, WitnessesTrue
    <3> QED
      BY <1>3, <2>2, <3>1, ZenonT(30) DEF SpendInv, SpendShape
  <2> QED
    BY <2>1, <2>2, Zenon
<1> QED
  BY <1>1, <1>4, <1>5, <1>6, ClientStep, Zenon

(* The verdict is "ok" only for what verification has established.         *)
LEMMA VerifyInv == ASSUME SpendInv, Verify PROVE SpendInv'
<1>1. /\ verdict' = "ok" => Acceptable
      /\ UNCHANGED <<now, inputs, outs, signed, revealed>>
  BY Zenon DEF Verify
<1>2. ASSUME Acceptable, NEW i \in DOMAIN inputs PROVE Authorised(i)
  <2>1. 1 \in DOMAIN inputs
    BY Zenon DEF SpendInv, SpendShape
  <2> QED
    BY <1>2, <2>1, SigAllAuthorised, IndividuallyAuthorised, Zenon
       DEF Acceptable, VerifySpendingConditions
<1>3. \A i \in DOMAIN inputs : Authorised(i) => Authorised(i)'
  BY <1>1, Zenon DEF Authorised, SignedBy
<1> QED
  BY <1>1, <1>2, <1>3, Zenon DEF SpendInv, SpendShape, WitnessesTrue, SpendsAreAuthorised

(* A locktime that has passed stays passed, and the receiver's path does   *)
(* not depend on the time.                                                 *)
LEMMA TickInv == ASSUME SpendInv, Tick PROVE SpendInv'
<1>1. /\ now' = now + 1 /\ now \in Nat
      /\ UNCHANGED <<inputs, outs, verdict, signed, revealed>>
  BY SMTT(30) DEF Tick, SpendInv, SpendShape
<1>2. ASSUME NEW i \in DOMAIN inputs, Authorised(i) PROVE Authorised(i)'
  <2> DEFINE c == Content(inputs[i].secret)
  <2>1. c.tags.locktime \in Nat \cup {None}
    BY SpendingAssumption, ZenonT(30) DEF SpendInv, SpendShape
  <2>2. LocktimePassed(c.tags, now) => LocktimePassed(c.tags, now')
    BY <1>1, <2>1 DEF LocktimePassed
  <2>3. PrimaryPath(c, now') = PrimaryPath(c, now)
    BY Zenon DEF PrimaryPath
  <2> QED
    BY <1>1, <1>2, <2>2, <2>3, Zenon DEF Authorised, SignedBy
<1> QED
  BY <1>1, <1>2 DEF SpendInv, SpendShape, WitnessesTrue, SpendsAreAuthorised

LEMMA SpendNextInv == SpendInv /\ [SpendNext]_spendVars => SpendInv'
<1> SUFFICES ASSUME SpendInv, [SpendNext]_spendVars PROVE SpendInv'
  BY Zenon
<1>1. ASSUME NEW k \in Keys, SignSigAll(k) PROVE SpendInv'
  <2>1. 1 \in DOMAIN inputs
    BY <1>1, Zenon DEF SignSigAll, SpendInv, SpendShape
  <2> QED
    BY <1>1, <2>1, SignInv, Zenon DEF SignSigAll
<1>2. ASSUME NEW k \in Keys, NEW i \in DOMAIN inputs, SignP2pk(i, k) PROVE SpendInv'
  BY <1>2, SignInv, Zenon DEF SignP2pk
<1>3. CASE UNCHANGED spendVars
  <2>1. UNCHANGED <<now, inputs, outs, verdict, signed, revealed>>
    BY <1>3, SMTT(30) DEF spendVars
  <2>2. \A i \in DOMAIN inputs : Authorised(i) => Authorised(i)'
    BY <2>1, Zenon DEF Authorised, SignedBy
  <2> QED
    BY <2>1, <2>2, Zenon DEF SpendInv, SpendShape, WitnessesTrue, SpendsAreAuthorised
<1> QED
  BY <1>1, <1>2, <1>3, DamageInv, RevealPreimageInv, RebuildInv, ReceiveInv, VerifyInv, TickInv, Zenon
     DEF SpendNext

(* What verify_spending_conditions accepts, the holders of the keys have   *)
(* authorised, for all secrets, keys, preimages, requests and times.       *)
THEOREM SpendingAuthorised == SpendSpec => []SpendsAreAuthorised
<1>1. SpendInv => SpendsAreAuthorised
  BY Zenon DEF SpendInv
<1> QED
  BY <1>1, SpendInitInv, SpendNextInv, PTL DEF SpendSpec

-----------------------------------------------------------------------------
(***************************************************************************)
(* Time only adds ways to spend.                                           *)
(***************************************************************************)
(* The verdict holds for the request as it is, at this time.               *)
VerdictHolds == verdict = "ok" => Acceptable

LEMMA PathsLater ==
    ASSUME NEW s \in Secrets, NEW t \in Nat
    PROVE  /\ PrimaryPath(Content(s), t + 1) = PrimaryPath(Content(s), t)
           /\ RefundOpen(Content(s), t) => RefundOpen(Content(s), t + 1)
<1>1. Content(s).tags.locktime \in Nat \cup {None}
  BY SpendingAssumption, Zenon
<1> QED
  BY <1>1 DEF PrimaryPath, RefundOpen, LocktimePassed

(* What is verified at one time is verified a tick later.                  *)
LEMMA AcceptableLater == ASSUME SpendInv, Acceptable, Tick PROVE Acceptable'
<1> DEFINE m == SigAllMessage(inputs, outs)
<1>1. /\ now' = now + 1 /\ now \in Nat
      /\ UNCHANGED <<inputs, outs>>
      /\ \A i \in DOMAIN inputs : inputs[i].secret \in Secrets
  BY ZenonT(30) DEF Tick, SpendInv, SpendShape
<1>2. \A i \in DOMAIN inputs :
         /\ PrimaryPath(Content(inputs[i].secret), now + 1) = PrimaryPath(Content(inputs[i].secret), now)
         /\ RefundOpen(Content(inputs[i].secret), now) => RefundOpen(Content(inputs[i].secret), now + 1)
  BY <1>1, PathsLater, Zenon
<1>3. ASSUME VerifyInputsIndividually(inputs, now) PROVE VerifyInputsIndividually(inputs, now + 1)
  <2>1. \A i \in DOMAIN inputs : VerifyP2pk(inputs[i], now) => VerifyP2pk(inputs[i], now + 1)
    BY <1>2, Zenon DEF VerifyP2pk
  <2>2. \A i \in DOMAIN inputs : VerifyHtlc(inputs[i], now) => VerifyHtlc(inputs[i], now + 1)
    BY <1>2, Zenon DEF VerifyHtlc
  <2> QED
    BY <1>3, <2>1, <2>2, Zenon DEF VerifyInputsIndividually
<1>4. ASSUME HasAtLeastOneSigAll(inputs), VerifyFullSigAllCheck(inputs, m, now)
      PROVE  VerifyFullSigAllCheck(inputs, m, now + 1)
  <2>1. 1 \in DOMAIN inputs
    BY <1>4, Zenon DEF HasAtLeastOneSigAll, FirstSigAll, SpendInv, SpendShape
  <2>2. VerifySigAllP2pk(inputs, m, now) => VerifySigAllP2pk(inputs, m, now + 1)
    BY <1>2, <2>1, Zenon DEF VerifySigAllP2pk
  <2>3. VerifySigAllHtlc(inputs, m, now) => VerifySigAllHtlc(inputs, m, now + 1)
    BY <1>2, <2>1, Zenon DEF VerifySigAllHtlc
  <2> QED
    BY <1>4, <2>2, <2>3, Zenon DEF VerifyFullSigAllCheck
<1> QED
  BY <1>1, <1>3, <1>4, Zenon DEF Acceptable, VerifySpendingConditions

LEMMA VerdictNext ==
    ASSUME SpendInv, VerdictHolds, [SpendNext]_spendVars
    PROVE  /\ VerdictHolds'
           /\ verdict = "ok" /\ inputs' = inputs /\ outs' = outs => verdict' # "refused"
<1>1. CASE verdict' = "none"
  BY <1>1, Zenon DEF VerdictHolds
<1>2. CASE Verify
  <2>1. Acceptable' <=> Acceptable
    BY <1>2, Zenon DEF Verify, Acceptable
  <2> QED
    BY <1>2, <2>1, Zenon DEF Verify, VerdictHolds
<1>3. CASE Tick
  BY <1>3, AcceptableLater, Zenon DEF Tick, VerdictHolds
<1>4. CASE UNCHANGED spendVars
  BY <1>4, Zenon DEF spendVars, VerdictHolds, Acceptable
<1> QED
  BY <1>1, <1>2, <1>3, <1>4, ZenonT(30) DEF SpendNext, SignSigAll, SignP2pk, Sign, RevealPreimage, Damage, Rebuild,
     Receive, Changed

(* A request that was accepted is accepted when it is repeated later, for  *)
(* all secrets and times: verify_spending_conditions tries the refund path *)
(* besides the receiver's and not in its place.                            *)
THEOREM SpendingAcceptedStays == SpendSpec => AcceptedStays
<1>1. SpendInit => VerdictHolds
  BY Zenon DEF SpendInit, VerdictHolds
<1>2. SpendInv /\ VerdictHolds /\ [SpendNext]_spendVars
      => /\ VerdictHolds'
         /\ [verdict = "ok" /\ inputs' = inputs /\ outs' = outs => verdict' # "refused"]_spendVars
  BY VerdictNext, Zenon
<1> QED
  BY <1>1, <1>2, SpendInitInv, SpendNextInv, PTL DEF SpendSpec, AcceptedStays
=============================================================================
