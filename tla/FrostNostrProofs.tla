-------------------------- MODULE FrostNostrProofs --------------------------
(***************************************************************************)
(* Proofs about threshold signing over Nostr: however many signers and     *)
(* sessions there are, whatever the relay loses or reorders and however    *)
(* often people click, no nonces sign two packages and no session ends in  *)
(* an error.                                                               *)
(*                                                                         *)
(* The argument: the coordinator makes one signing package for a session,  *)
(* and a nonce belongs to the one session its commitment was sent for.     *)
(* What a client checks of an event, its sender has made true.             *)
(***************************************************************************)
EXTENDS FrostNostr, FiniteSetTheorems, TLAPS

(* The coordinator and the signers are records with these fields.          *)
FrostShape ==
    /\ coordinator = [pc |-> coordinator.pc, session |-> coordinator.session,
                      acked |-> coordinator.acked, active |-> coordinator.active,
                      accepted |-> coordinator.accepted, shares |-> coordinator.shares,
                      signed |-> coordinator.signed]
    /\ coordinator.session \in Nat
    /\ signer = [s \in Signers |->
           [pc |-> signer[s].pc, session |-> signer[s].session, generated |-> signer[s].generated,
            commits |-> signer[s].commits, nonces |-> signer[s].nonces,
            round2_req |-> signer[s].round2_req, signing |-> signer[s].signing]]
    /\ \A s \in Signers : signer[s].generated \in Nat

(* Every signing package there is: on its way, held by a web app, or used. *)
Packages ==
    {e.signing_package : e \in {f \in relay : f.kind = "ROUND2_REQUEST"}}
    \cup {signer[s].round2_req : s \in Signers}
    \cup {a.signing_package : a \in shares}

(* The coordinator has not made the package of its session yet.            *)
Collecting == coordinator.pc \in {"send1", "round1"}

(* A session has one package, and the latest is what was accepted.         *)
OnePackage ==
    /\ \A p \in Packages : p.message \in Nat /\ p.message <= coordinator.session
    /\ \A p \in Packages : p.message = coordinator.session =>
          ~Collecting /\ p = [message |-> coordinator.session, commitments |-> coordinator.accepted]
    /\ \A p, q \in Packages : p.message = q.message => p = q

(* Nonce n of signer s was committed to in session k.                      *)
Committed(s, n, k) ==
    \/ \E e \in relay : e.kind = "ROUND1_RESPONSE" /\ e.who = s /\ e.nonce = n /\ e.session = k
    \/ /\ k = coordinator.session
       /\ s \in DOMAIN coordinator.accepted /\ coordinator.accepted[s] = n
    \/ \E p \in Packages : p.message = k /\ s \in DOMAIN p.commitments /\ p.commitments[s] = n

(* It was drawn by the signer, and belongs to one session.                 *)
NonceHasSession ==
    /\ \A s, n, k : Committed(s, n, k) => s \in Signers /\ n \in Nat /\ n <= signer[s].generated
    /\ \A s, n, k, j : Committed(s, n, k) /\ Committed(s, n, j) => k = j

(* frost::round2::sign has looked for the commitment in the package.       *)
Committing(a) ==
    /\ a.who \in DOMAIN a.signing_package.commitments
    /\ a.signing_package.commitments[a.who] = a.nonce

(* The inductive invariant.                                                *)
FrostInv ==
    /\ FrostShape /\ OnePackage /\ NonceHasSession
    /\ \A a \in shares : Committing(a)

LEMMA FrostInvNonceUsedOnce == FrostInv => NonceUsedOnce
<1> SUFFICES ASSUME FrostInv, NEW a \in shares, NEW b \in shares, a.who = b.who, a.nonce = b.nonce
             PROVE  a.signing_package = b.signing_package
  BY Zenon DEF NonceUsedOnce
<1>1. a.signing_package \in Packages /\ b.signing_package \in Packages
  BY Zenon DEF Packages
<1>2. Committing(a) /\ Committing(b)
  BY Zenon DEF FrostInv
<1>3. /\ Committed(a.who, a.nonce, a.signing_package.message)
      /\ Committed(a.who, a.nonce, b.signing_package.message)
  BY <1>1, <1>2, Zenon DEF Committed, Committing
<1>4. a.signing_package.message = b.signing_package.message
  BY <1>3, Zenon DEF FrostInv, NonceHasSession
<1> QED
  BY <1>1, <1>4, Zenon DEF FrostInv, OnePackage

LEMMA FrostInitInv == FrostInit => FrostInv
<1> SUFFICES ASSUME FrostInit PROVE FrostInv
  BY Zenon
<1>1. FrostShape
  BY Zenon DEF FrostInit, FrostShape
<1>2. \A p \in Packages : p = NoPackage
  BY Zenon DEF FrostInit, Packages
<1>3. coordinator.session = 0 /\ coordinator.accepted = <<>> /\ ~Collecting
  BY Zenon DEF FrostInit, Collecting
<1>4. OnePackage
  BY <1>2, <1>3 DEF OnePackage, NoPackage
<1>5. DOMAIN <<>> = {}
  OBVIOUS
<1>6. \A s, n, k : ~Committed(s, n, k)
  BY <1>2, <1>3, <1>5 DEF FrostInit, Committed, NoPackage
<1> QED
  BY <1>1, <1>4, <1>6, Zenon DEF FrostInv, NonceHasSession, FrostInit

(***************************************************************************)
(* A step that makes no commitment and no package, and accepts none.       *)
(***************************************************************************)
LEMMA QuietStep ==
    ASSUME FrostInv, FrostShape',
           \A e \in relay' : e \in relay \/ e.kind \notin {"ROUND1_RESPONSE", "ROUND2_REQUEST"},
           coordinator'.session = coordinator.session,
           coordinator'.accepted = coordinator.accepted,
           Collecting' => Collecting,
           \A s \in Signers : /\ signer'[s].generated = signer[s].generated
                              /\ signer'[s].round2_req \in Packages,
           \A a \in shares' : a \in shares \/ (Committing(a) /\ a.signing_package \in Packages)
    PROVE  FrostInv'
<1>1. \A p \in Packages' : p \in Packages
  BY Zenon DEF Packages
<1>2. OnePackage'
  BY <1>1, Zenon DEF FrostInv, OnePackage
<1>3. \A s, n, k : Committed(s, n, k)' => Committed(s, n, k)
  BY <1>1, Zenon DEF Committed
<1>4. NonceHasSession'
  BY <1>3, Zenon DEF FrostInv, NonceHasSession
<1>5. \A a \in shares' : Committing(a)
  BY Zenon DEF FrostInv
<1> QED
  BY <1>2, <1>4, <1>5, Zenon DEF FrostInv, Committing

(* A signer draws nonces and sends the commitment for session k.           *)
LEMMA CommitStep ==
    ASSUME FrostInv, FrostShape', NEW s \in Signers, NEW k,
           \A e \in relay' : e \in relay \/ e = Commitment(k, s, FreshNonce(s)),
           coordinator' = coordinator, shares' = shares,
           \A t \in Signers : /\ signer'[t].round2_req = signer[t].round2_req
                              /\ signer'[t].generated = IF t = s THEN FreshNonce(s) ELSE signer[t].generated
    PROVE  FrostInv'
<1> DEFINE n == FreshNonce(s)
<1>1. \A p \in Packages' : p \in Packages
  BY DEF Packages, Commitment
<1>2. OnePackage'
  BY <1>1, Zenon DEF FrostInv, OnePackage, Collecting
<1>3. \A t, m, j : Committed(t, m, j)' => Committed(t, m, j) \/ (t = s /\ m = n /\ j = k)
  BY <1>1 DEF Committed, Commitment
<1>4. n = signer[s].generated + 1 /\ signer[s].generated \in Nat
  BY Zenon DEF FreshNonce, FrostInv, FrostShape
<1>5. \A j : ~Committed(s, n, j)
  BY <1>4 DEF FrostInv, NonceHasSession
<1>6. \A t \in Signers : signer'[t].generated >= signer[t].generated /\ signer'[t].generated \in Nat
  BY <1>4 DEF FrostInv, FrostShape
<1> HIDE DEF n
<1>7. ASSUME NEW t, NEW m, NEW j, Committed(t, m, j)'
      PROVE  t \in Signers /\ m \in Nat /\ m <= signer'[t].generated
  <2>1. CASE Committed(t, m, j)
    <3>1. t \in Signers /\ m \in Nat /\ m <= signer[t].generated /\ signer[t].generated \in Nat
      BY <2>1, ZenonT(30) DEF FrostInv, NonceHasSession, FrostShape
    <3> QED
      BY <1>6, <3>1
  <2>2. CASE t = s /\ m = n
    BY <1>4, <2>2 DEF n
  <2> QED
    BY <1>3, <1>7, <2>1, <2>2
<1>8. \A t, m, i, j : Committed(t, m, i)' /\ Committed(t, m, j)' => i = j
  BY <1>3, <1>5 DEF FrostInv, NonceHasSession
<1> QED
  BY <1>2, <1>7, <1>8, Zenon DEF FrostInv, NonceHasSession, Committing

(***************************************************************************)
(* The coordinator.                                                        *)
(***************************************************************************)
(* The number of the session is new: there is no package for it.           *)
LEMMA StartSessionInv == ASSUME FrostInv, StartSession PROVE FrostInv'
<1> DEFINE k == coordinator.session + 1
<1>1. /\ coordinator'.session = k /\ coordinator'.accepted = <<>>
      /\ coordinator' = [pc |-> "send1", session |-> k, acked |-> coordinator.acked,
                         active |-> coordinator.active, accepted |-> <<>>, shares |-> {},
                         signed |-> coordinator.signed]
      /\ coordinator.session \in Nat
      /\ signer' = signer /\ shares' = shares
  BY ZenonT(30) DEF StartSession, FrostInv, FrostShape
<1>2. FrostShape'
  BY <1>1 DEF FrostInv, FrostShape
<1>3. \A e \in relay' : e \in relay \/ e.kind = "ROUND1_REQUEST"
  BY DEF StartSession, Event
<1>4. \A p \in Packages' : p \in Packages
  BY <1>1, <1>3, Zenon DEF Packages
<1>5. OnePackage'
  BY <1>1, <1>4 DEF FrostInv, OnePackage
<1>6. DOMAIN <<>> = {}
  OBVIOUS
<1>7. \A s, n, j : Committed(s, n, j)' => Committed(s, n, j)
  BY <1>1, <1>3, <1>4, <1>6, Zenon DEF Committed
<1>8. NonceHasSession'
  BY <1>1, <1>7, Zenon DEF FrostInv, NonceHasSession
<1> QED
  BY <1>1, <1>2, <1>5, <1>8, Zenon DEF FrostInv, Committing

(* What is accepted was committed to, in this session; at the threshold it *)
(* becomes the package of the session, the first and only one.             *)
LEMMA AcceptCommitmentInv ==
    ASSUME FrostInv, NEW e, AcceptCommitment(e)
    PROVE  FrostInv'
<1> DEFINE accepted == Insert(coordinator.accepted, e.who, e.nonce)
           package  == [message |-> coordinator.session, commitments |-> accepted]
<1>1. /\ e \in relay /\ e.kind = "ROUND1_RESPONSE" /\ e.session = coordinator.session
      /\ Collecting /\ signer' = signer /\ shares' = shares
      /\ coordinator'.session = coordinator.session /\ FrostShape'
  BY ZenonT(30) DEF AcceptCommitment, Collecting, FrostInv, FrostShape
<1>2. CASE e.who \notin coordinator.active
  <2>1. /\ relay' = relay \ {e} /\ coordinator'.pc = "failed"
        /\ coordinator'.accepted = coordinator.accepted
    BY <1>2, Zenon DEF AcceptCommitment, FrostInv, FrostShape
  <2>2. \A s \in Signers : signer'[s].round2_req \in Packages
    BY <1>1, Zenon DEF Packages
  <2> QED
    BY <1>1, <2>1, <2>2, QuietStep, Zenon DEF Collecting
<1>3. CASE e.who \in coordinator.active
  <2>1. coordinator'.accepted = accepted
    BY <1>3, ZenonT(30) DEF AcceptCommitment, FrostInv, FrostShape
  <2>2. /\ coordinator'.pc \in {"round1", "send2"}
        /\ coordinator'.pc = "round1" => relay' = relay \ {e}
        /\ coordinator'.pc = "send2" =>
              relay' = (relay \ {e}) \cup {Round2(e.session, s, package) : s \in Subscribed}
    BY <1>3, ZenonT(30) DEF AcceptCommitment, FrostInv, FrostShape
  <2>3. \A p \in Packages' : p \in Packages \/ (coordinator'.pc = "send2" /\ p = package)
    BY <1>1, <2>2 DEF Packages, Round2
  <2>4. \A p \in Packages : /\ p.message # coordinator.session
                            /\ p.message \in Nat /\ p.message <= coordinator.session
    BY <1>1, Zenon DEF FrostInv, OnePackage
  <2>5. coordinator.session \in Nat
    BY Zenon DEF FrostInv, FrostShape
  <2>6. OnePackage'
    <3>1. \A p \in Packages' : p.message \in Nat /\ p.message <= coordinator'.session
      BY <1>1, <2>3, <2>4, <2>5
    <3>2. \A p \in Packages' : p.message = coordinator'.session =>
             coordinator'.pc = "send2" /\ p = [message |-> coordinator'.session, commitments |-> coordinator'.accepted]
      BY <1>1, <2>1, <2>3, <2>4, Zenon
    <3>3. \A p, q \in Packages' : p.message = q.message => p = q
      BY <2>3, <2>4 DEF FrostInv, OnePackage
    <3> QED
      BY <3>1, <3>2, <3>3, Zenon DEF OnePackage, Collecting
  <2>7. Committed(e.who, e.nonce, coordinator.session)
    BY <1>1, Zenon DEF Committed
  <2>8. ASSUME NEW s, s \in DOMAIN accepted
        PROVE  Committed(s, accepted[s], coordinator.session)
    <3>1. CASE s \in DOMAIN coordinator.accepted
      BY <3>1, Zenon DEF Committed, Insert
    <3>2. CASE s \notin DOMAIN coordinator.accepted
      BY <2>7, <2>8, <3>2, Zenon DEF Insert
    <3> QED
      BY <3>1, <3>2, Zenon
  <2> HIDE DEF accepted
  <2>9. ASSUME NEW s, NEW n, NEW j, Committed(s, n, j)' PROVE Committed(s, n, j)
    <3>1. CASE \E f \in relay' : f.kind = "ROUND1_RESPONSE" /\ f.who = s /\ f.nonce = n /\ f.session = j
      BY <2>2, <3>1 DEF Committed, Round2
    <3>2. CASE j = coordinator.session /\ s \in DOMAIN accepted /\ accepted[s] = n
      BY <2>8, <3>2, Zenon
    <3>3. CASE \E p \in Packages' : p.message = j /\ s \in DOMAIN p.commitments /\ p.commitments[s] = n
      <4>1. PICK p \in Packages' : p.message = j /\ s \in DOMAIN p.commitments /\ p.commitments[s] = n
        BY <3>3, Zenon
      <4>2. CASE p \in Packages
        BY <4>1, <4>2, Zenon DEF Committed
      <4>3. CASE p = package
        BY <2>8, <4>1, <4>3, Zenon
      <4> QED
        BY <2>3, <4>2, <4>3, Zenon
    <3> QED
      BY <1>1, <2>1, <2>9, <3>1, <3>2, <3>3, Zenon DEF Committed
  <2>10. NonceHasSession'
    BY <1>1, <2>9, Zenon DEF FrostInv, NonceHasSession
  <2> QED
    BY <1>1, <2>6, <2>10, Zenon DEF FrostInv, Committing
<1> QED
  BY <1>2, <1>3, Zenon

(* The other steps of the coordinator leave packages and nonces alone.     *)
LEMMA CoordinatorInv ==
    ASSUME FrostInv,
           \/ AwaitProvisioned \/ PressEnter \/ AwaitResponses \/ Shutdown
           \/ \E s \in Signers : SignerProvisioned(s)
           \/ \E e \in relay : AcceptShare(e) \/ Miss(e)
    PROVE  FrostInv'
<1> DEFINE c == coordinator
           d == coordinator'
<1>1. /\ d.session = c.session /\ d.accepted = c.accepted
      /\ Collecting' => Collecting
      /\ d = [pc |-> d.pc, session |-> d.session, acked |-> d.acked, active |-> d.active,
              accepted |-> d.accepted, shares |-> d.shares, signed |-> d.signed]
  <2>1. c = [pc |-> c.pc, session |-> c.session, acked |-> c.acked, active |-> c.active,
             accepted |-> c.accepted, shares |-> c.shares, signed |-> c.signed]
    BY Zenon DEF FrostInv, FrostShape
  <2>2. CASE AwaitProvisioned
    BY <2>1, <2>2, Zenon DEF AwaitProvisioned, Collecting
  <2>3. CASE PressEnter
    BY <2>1, <2>3, ZenonT(30) DEF PressEnter, Collecting
  <2>4. CASE AwaitResponses
    BY <2>1, <2>4, Zenon DEF AwaitResponses, Collecting
  <2>5. CASE Shutdown
    BY <2>1, <2>5, Zenon DEF Shutdown, Collecting
  <2>6. ASSUME NEW s \in Signers, SignerProvisioned(s)
        PROVE  \/ \E x : d = [c EXCEPT !.acked = x]
               \/ \E x : d = [c EXCEPT !.acked = x, !.active = x, !.pc = "ready"]
    BY <2>6, ZenonT(30) DEF SignerProvisioned
  <2>7. ASSUME NEW e \in relay, AcceptShare(e)
        PROVE  \/ d = [c EXCEPT !.pc = "failed"]
               \/ \E x : d = [c EXCEPT !.shares = x]
               \/ \E x, y : d = [c EXCEPT !.shares = x, !.pc = "ready", !.signed = y]
               \/ \E x : d = [c EXCEPT !.shares = x, !.pc = "failed"]
    <3> DEFINE x == IF \E f \in c.shares : f.who = e.who THEN c.shares ELSE c.shares \cup {e}
    <3>1. \/ d = [c EXCEPT !.pc = "failed"]
          \/ d = [c EXCEPT !.shares = x]
          \/ d = IF Aggregates(x)
                 THEN [c EXCEPT !.shares = x, !.pc = "ready", !.signed = @ \cup {c.session}]
                 ELSE [c EXCEPT !.shares = x, !.pc = "failed"]
      BY <2>7, ZenonT(30) DEF AcceptShare
    <3> HIDE DEF x
    <3> QED
      BY <3>1, ZenonT(30)
  <2>8. CASE \E e \in relay : Miss(e)
    BY <2>1, <2>8, Zenon DEF Miss, Collecting
  <2>9. CASE \E s \in Signers : SignerProvisioned(s)
    BY <2>1, <2>6, <2>9, ZenonT(30) DEF Collecting
  <2>10. CASE \E e \in relay : AcceptShare(e)
    <3>1. PICK e \in relay : AcceptShare(e)
      BY <2>10, Zenon
    <3>2. CASE d = [c EXCEPT !.pc = "failed"]
      BY <2>1, <3>2, Zenon DEF Collecting
    <3>3. CASE \E x : d = [c EXCEPT !.shares = x]
      BY <2>1, <3>3, Zenon DEF Collecting
    <3>4. CASE \E x, y : d = [c EXCEPT !.shares = x, !.pc = "ready", !.signed = y]
      BY <2>1, <3>4, ZenonT(30) DEF Collecting
    <3>5. CASE \E x : d = [c EXCEPT !.shares = x, !.pc = "failed"]
      BY <2>1, <3>5, ZenonT(30) DEF Collecting
    <3> QED
      BY <2>7, <3>1, <3>2, <3>3, <3>4, <3>5, ZenonT(30)
  <2> QED
    BY <2>2, <2>3, <2>4, <2>5, <2>8, <2>9, <2>10, Zenon
<1>2. relay' \subseteq relay /\ shares' = shares
  BY ZenonT(30) DEF AwaitProvisioned, PressEnter, AwaitResponses, Shutdown, SignerProvisioned, AcceptShare, Miss
<1>3. signer' = signer \/ signer' = [s \in Signers |-> [signer[s] EXCEPT !.pc = "off"]]
  BY ZenonT(30) DEF AwaitProvisioned, PressEnter, AwaitResponses, Shutdown, SignerProvisioned, AcceptShare, Miss
<1>4. /\ FrostShape'
      /\ \A s \in Signers : /\ signer'[s].generated = signer[s].generated
                            /\ signer'[s].round2_req = signer[s].round2_req
  BY <1>1, <1>3 DEF FrostInv, FrostShape
<1>5. \A s \in Signers : signer'[s].round2_req \in Packages
  BY <1>4, SMTT(30) DEF Packages
<1> QED
  BY <1>1, <1>2, <1>4, <1>5, QuietStep, Zenon

(***************************************************************************)
(* The signers.                                                            *)
(***************************************************************************)
(* The fields of a signer keep their names, whichever of them change.      *)
LEMMA SignerShape ==
    ASSUME FrostShape, UNCHANGED coordinator, NEW s \in Signers, NEW r,
           signer' = [signer EXCEPT ![s] = r],
           r = [pc |-> r.pc, session |-> r.session, generated |-> r.generated, commits |-> r.commits,
                nonces |-> r.nonces, round2_req |-> r.round2_req, signing |-> r.signing],
           r.generated \in Nat
    PROVE  /\ FrostShape'
           /\ signer'[s] = r
           /\ \A t \in Signers : t # s => signer'[t] = signer[t]
BY ZenonT(30) DEF FrostShape

(* Steps of signer s that draw no nonces.                                  *)
LEMMA SignerQuiet ==
    ASSUME FrostInv, UNCHANGED coordinator, NEW s \in Signers, NEW r,
           signer' = [signer EXCEPT ![s] = r],
           r = [pc |-> r.pc, session |-> r.session, generated |-> r.generated, commits |-> r.commits,
                nonces |-> r.nonces, round2_req |-> r.round2_req, signing |-> r.signing],
           r.generated = signer[s].generated, r.round2_req \in Packages,
           \A e \in relay' : e \in relay \/ e.kind \notin {"ROUND1_RESPONSE", "ROUND2_REQUEST"},
           \A a \in shares' : a \in shares \/ (Committing(a) /\ a.signing_package \in Packages)
    PROVE  FrostInv'
<1>1. FrostShape /\ r.generated \in Nat
  BY Zenon DEF FrostInv, FrostShape
<1>2. /\ FrostShape'
      /\ signer'[s] = r
      /\ \A t \in Signers : t # s => signer'[t] = signer[t]
  BY <1>1, SignerShape, ZenonT(30)
<1>3. \A t \in Signers : signer[t].round2_req \in Packages
  BY Zenon DEF Packages
<1>4. \A t \in Signers : /\ signer'[t].generated = signer[t].generated
                         /\ signer'[t].round2_req \in Packages
  BY <1>2, <1>3, Zenon
<1>5. /\ coordinator'.session = coordinator.session /\ coordinator'.accepted = coordinator.accepted
      /\ Collecting' => Collecting
  BY Zenon DEF Collecting
<1> QED
  BY <1>2, <1>4, <1>5, QuietStep, Zenon

(* Steps of signer s that move it on and change nothing else of it.        *)
LEMMA SignerMoves ==
    ASSUME FrostInv, UNCHANGED coordinator, NEW s \in Signers, NEW x,
           signer' = [signer EXCEPT ![s].pc = x],
           \A e \in relay' : e \in relay \/ e.kind \notin {"ROUND1_RESPONSE", "ROUND2_REQUEST"},
           \A a \in shares' : a \in shares \/ (Committing(a) /\ a.signing_package \in Packages)
    PROVE  FrostInv'
<1> DEFINE w == signer[s]
           r == signer'[s]
<1>1. /\ w = [pc |-> w.pc, session |-> w.session, generated |-> w.generated, commits |-> w.commits,
              nonces |-> w.nonces, round2_req |-> w.round2_req, signing |-> w.signing]
      /\ signer = [t \in Signers |-> signer[t]]
  BY Zenon DEF FrostInv, FrostShape
<1>2. w.round2_req \in Packages
  BY Zenon DEF Packages
<1>3. /\ signer' = [signer EXCEPT ![s] = r]
      /\ r = [pc |-> r.pc, session |-> r.session, generated |-> r.generated, commits |-> r.commits,
              nonces |-> r.nonces, round2_req |-> r.round2_req, signing |-> r.signing]
      /\ r.generated = w.generated /\ r.round2_req = w.round2_req
  BY <1>1, Zenon
<1> HIDE DEF r
<1> QED
  BY <1>2, <1>3, SignerQuiet, ZenonT(30)

(* A share for package p that SignOk admits.                               *)
LEMMA ShareCommits ==
    ASSUME NEW s, NEW k, NEW p, NEW events, SignOk(s, p), SignShare(k, s, p, events), p \in Packages
    PROVE  /\ \A e \in relay' : e \in events \/ e.kind = "ROUND2_RESPONSE"
           /\ \A a \in shares' : a \in shares \/ (Committing(a) /\ a.signing_package \in Packages)
BY DEF SignOk, SignShare, Share, Committing

LEMMA SignerStepInv ==
    ASSUME FrostInv, NEW s \in Signers, Join(s) \/ SignerStep(s) \/ ShareSent(s)
    PROVE  FrostInv'
<1> DEFINE w == signer[s]
           r == signer'[s]
<1>1. /\ w = [pc |-> w.pc, session |-> w.session, generated |-> w.generated, commits |-> w.commits,
              nonces |-> w.nonces, round2_req |-> w.round2_req, signing |-> w.signing]
      /\ signer = [t \in Signers |-> signer[t]]
  BY Zenon DEF FrostInv, FrostShape
<1>2. /\ UNCHANGED <<coordinator, shares>>
      /\ \A e \in relay' : e \in relay \/ e.kind = "SIGNER_PROVISIONED"
  <2>1. CASE Join(s)
    BY <2>1 DEF Join, Event
  <2>2. CASE SignerStep(s) \/ ShareSent(s)
    BY <2>2, ZenonT(30) DEF SignerStep, AwaitRound1, AwaitRound2, ShareSent
  <2> QED
    BY <2>1, <2>2, Zenon
<1>3. w.round2_req \in Packages
  BY Zenon DEF Packages
<1>4. /\ signer' = [signer EXCEPT ![s] = r]
      /\ r = [pc |-> r.pc, session |-> r.session, generated |-> r.generated, commits |-> r.commits,
              nonces |-> r.nonces, round2_req |-> r.round2_req, signing |-> r.signing]
      /\ r.generated = w.generated /\ r.round2_req = w.round2_req
  <2>1. CASE Join(s)
    BY <1>1, <2>1, Zenon DEF Join
  <2>2. CASE AwaitRound1(s)
    BY <1>1, <2>2, Zenon DEF AwaitRound1
  <2>3. CASE \E n \in signer[s].commits : AwaitRound2(s, n)
    <3>1. PICK n \in w.commits :
             signer' = [signer EXCEPT ![s].commits = @ \ {n}, ![s].nonces = n, ![s].pc = "round2"]
      BY <2>3, ZenonT(30) DEF AwaitRound2
    <3>2. signer' = [signer EXCEPT ![s] =
                        [w EXCEPT !.commits = @ \ {n}, !.nonces = n, !.pc = "round2"]]
      BY <1>1, <3>1, ZenonT(30)
    <3> QED
      BY <1>1, <3>2, ZenonT(30)
  <2>4. CASE ShareSent(s)
    BY <1>1, <2>4, ZenonT(30) DEF ShareSent
  <2> QED
    BY <2>1, <2>2, <2>3, <2>4, Zenon DEF SignerStep
<1> HIDE DEF r
<1> QED
  BY <1>2, <1>3, <1>4, SignerQuiet, ZenonT(30)

(* Signer s draws the nonces of a commitment.                              *)
LEMMA SignerCommits ==
    ASSUME FrostInv, UNCHANGED <<coordinator, shares>>, NEW s \in Signers, NEW r, NEW k,
           signer' = [signer EXCEPT ![s] = r],
           r = [pc |-> r.pc, session |-> r.session, generated |-> r.generated, commits |-> r.commits,
                nonces |-> r.nonces, round2_req |-> r.round2_req, signing |-> r.signing],
           r.generated = FreshNonce(s), r.round2_req = signer[s].round2_req,
           \A e \in relay' : e \in relay \/ e = Commitment(k, s, FreshNonce(s))
    PROVE  FrostInv'
<1>1. FrostShape /\ r.generated \in Nat
  BY DEF FrostInv, FrostShape, FreshNonce
<1>2. /\ FrostShape'
      /\ signer'[s] = r
      /\ \A t \in Signers : t # s => signer'[t] = signer[t]
  BY <1>1, SignerShape, ZenonT(30)
<1>3. \A t \in Signers :
         /\ signer'[t].round2_req = signer[t].round2_req
         /\ signer'[t].generated = IF t = s THEN FreshNonce(s) ELSE signer[t].generated
  BY <1>2
<1> QED
  BY <1>2, <1>3, CommitStep, Zenon

LEMMA OnCommitInv == ASSUME FrostInv, NEW s \in Signers, OnCommit(s) PROVE FrostInv'
<1> DEFINE w == signer[s]
           n == FreshNonce(s)
           r == signer'[s]
<1>1. /\ w = [pc |-> w.pc, session |-> w.session, generated |-> w.generated, commits |-> w.commits,
              nonces |-> w.nonces, round2_req |-> w.round2_req, signing |-> w.signing]
      /\ signer = [t \in Signers |-> signer[t]]
  BY Zenon DEF FrostInv, FrostShape
<1>2. /\ signer' = [signer EXCEPT ![s] = [w EXCEPT !.generated = n, !.commits = @ \cup {n}]]
      /\ UNCHANGED <<coordinator, shares>>
      /\ relay' = relay \cup {Commitment(w.session, s, n)}
  BY <1>1, ZenonT(30) DEF OnCommit
<1> HIDE DEF n
<1>3. /\ signer' = [signer EXCEPT ![s] = r]
      /\ r = [pc |-> r.pc, session |-> r.session, generated |-> r.generated, commits |-> r.commits,
              nonces |-> r.nonces, round2_req |-> r.round2_req, signing |-> r.signing]
      /\ r.generated = n /\ r.round2_req = w.round2_req
  BY <1>1, <1>2, ZenonT(30)
<1> HIDE DEF r
<1> QED
  BY <1>2, <1>3, SignerCommits, ZenonT(30) DEF n

LEMMA ReceiveRound1Inv ==
    ASSUME FrostInv, NEW s \in Signers, NEW e, ReceiveRound1(s, e)
    PROVE  FrostInv'
<1> DEFINE w == signer[s]
           n == FreshNonce(s)
<1>1. UNCHANGED <<coordinator, shares>> /\ w.round2_req \in Packages
  BY Zenon DEF ReceiveRound1, Packages
<1>2. /\ w = [pc |-> w.pc, session |-> w.session, generated |-> w.generated, commits |-> w.commits,
              nonces |-> w.nonces, round2_req |-> w.round2_req, signing |-> w.signing]
      /\ signer = [t \in Signers |-> signer[t]]
  BY Zenon DEF FrostInv, FrostShape
<1>3. CASE ~Addressed(s)
  <2>1. PICK x : signer' = [signer EXCEPT ![s].pc = x]
    BY <1>3, Zenon DEF ReceiveRound1
  <2>2. relay' = relay \ {e}
    BY <1>3, Zenon DEF ReceiveRound1
  <2> QED
    BY <1>1, <2>1, <2>2, SignerMoves, ZenonT(30)
<1>4. CASE Addressed(s) /\ Interactive
  <2> DEFINE k == e.session
             r == signer'[s]
  <2>2. /\ relay' = relay \ {e}
        /\ signer' = [signer EXCEPT ![s] = [w EXCEPT !.pc = "Round1ActionRequired", !.session = k]]
    BY <1>4, <1>2, Zenon DEF ReceiveRound1
  <2> HIDE DEF k
  <2>3. /\ signer' = [signer EXCEPT ![s] = r]
        /\ r = [pc |-> r.pc, session |-> r.session, generated |-> r.generated, commits |-> r.commits,
                nonces |-> r.nonces, round2_req |-> r.round2_req, signing |-> r.signing]
        /\ r.generated = w.generated /\ r.round2_req = w.round2_req
    BY <1>2, <2>2, ZenonT(30)
  <2> HIDE DEF r
  <2> QED
    BY <1>1, <2>2, <2>3, SignerQuiet, ZenonT(30)
<1>5. CASE Addressed(s) /\ ~Interactive
  <2> DEFINE r == signer'[s]
  <2>2. signer' = [signer EXCEPT ![s] =
           [w EXCEPT !.pc = "commit", !.session = e.session, !.generated = n, !.commits = {n}]]
    BY <1>5, <1>2, Zenon DEF ReceiveRound1
  <2>3. relay' = (relay \ {e}) \cup {Commitment(e.session, s, n)}
    BY <1>5, Zenon DEF ReceiveRound1
  <2> HIDE DEF n
  <2>4. /\ signer' = [signer EXCEPT ![s] = r]
        /\ r = [pc |-> r.pc, session |-> r.session, generated |-> r.generated, commits |-> r.commits,
                nonces |-> r.nonces, round2_req |-> r.round2_req, signing |-> r.signing]
        /\ r.generated = n /\ r.round2_req = w.round2_req
    BY <1>2, <2>2, ZenonT(30)
  <2> HIDE DEF r
  <2> QED
    BY <1>1, <2>2, <2>3, <2>4, SignerCommits, ZenonT(30) DEF n
<1> QED
  BY <1>3, <1>4, <1>5, Zenon

(* A share is computed for a package that came from the coordinator.       *)
LEMMA ReceiveRound2Inv ==
    ASSUME FrostInv, NEW s \in Signers, NEW e, ReceiveRound2(s, e)
    PROVE  FrostInv'
<1> DEFINE w == signer[s]
           selected == s \in DOMAIN e.signing_package.commitments
<1>1. /\ UNCHANGED coordinator /\ e \in relay
      /\ e.signing_package \in Packages
  BY Zenon DEF ReceiveRound2, Packages
<1>2. /\ w = [pc |-> w.pc, session |-> w.session, generated |-> w.generated, commits |-> w.commits,
              nonces |-> w.nonces, round2_req |-> w.round2_req, signing |-> w.signing]
      /\ signer = [t \in Signers |-> signer[t]]
  BY Zenon DEF FrostInv, FrostShape
<1>3. CASE ~selected
  <2>1. PICK x : signer' = [signer EXCEPT ![s].pc = x]
    BY <1>3, Zenon DEF ReceiveRound2
  <2>2. relay' = relay \ {e} /\ shares' = shares
    BY <1>3, Zenon DEF ReceiveRound2
  <2> QED
    BY <1>1, <2>1, <2>2, SignerMoves, ZenonT(30)
<1>4. CASE selected /\ Interactive
  <2> DEFINE p == e.signing_package
             r == signer'[s]
  <2>2. signer' = [signer EXCEPT ![s] = [w EXCEPT !.pc = "Round2ActionRequired", !.round2_req = p]]
    BY <1>4, <1>2, Zenon DEF ReceiveRound2
  <2>3. relay' = relay \ {e} /\ shares' = shares /\ p \in Packages
    BY <1>1, <1>4, Zenon DEF ReceiveRound2
  <2> HIDE DEF p
  <2>4. /\ signer' = [signer EXCEPT ![s] = r]
        /\ r = [pc |-> r.pc, session |-> r.session, generated |-> r.generated, commits |-> r.commits,
                nonces |-> r.nonces, round2_req |-> r.round2_req, signing |-> r.signing]
        /\ r.generated = w.generated /\ r.round2_req = p
    BY <1>2, <2>2, ZenonT(30)
  <2> HIDE DEF r
  <2> QED
    BY <1>1, <2>3, <2>4, SignerQuiet, ZenonT(30)
<1>5. CASE selected /\ ~Interactive /\ SignOk(s, e.signing_package)
  <2>1. signer' = [signer EXCEPT ![s].pc = "loop"]
    BY <1>5, Zenon DEF ReceiveRound2
  <2>2. SignShare(e.session, s, e.signing_package, relay \ {e})
    BY <1>5, Zenon DEF ReceiveRound2
  <2>3. /\ \A f \in relay' : f \in relay \ {e} \/ f.kind = "ROUND2_RESPONSE"
        /\ \A a \in shares' : a \in shares \/ (Committing(a) /\ a.signing_package \in Packages)
    BY <1>1, <1>5, <2>2, ShareCommits, Zenon
  <2>4. \A f \in relay' : f \in relay \/ f.kind \notin {"ROUND1_RESPONSE", "ROUND2_REQUEST"}
    BY <2>3, Zenon
  <2> QED
    BY <1>1, <2>1, <2>3, <2>4, SignerMoves, ZenonT(30)
<1>6. CASE selected /\ ~Interactive /\ ~SignOk(s, e.signing_package)
  <2>1. signer' = [signer EXCEPT ![s].pc = "off"]
    BY <1>6, Zenon DEF ReceiveRound2
  <2>2. relay' = relay \ {e} /\ shares' = shares
    BY <1>6, Zenon DEF ReceiveRound2
  <2> QED
    BY <1>1, <2>1, <2>2, SignerMoves, ZenonT(30)
<1> QED
  BY <1>3, <1>4, <1>5, <1>6, ZenonT(30)

LEMMA OnSignInv == ASSUME FrostInv, NEW s \in Signers, OnSign(s) PROVE FrostInv'
<1> DEFINE w == signer[s]
<1>1. UNCHANGED coordinator /\ w.round2_req \in Packages
  BY Zenon DEF OnSign, Packages
<1>2. CASE SignOk(s, w.round2_req)
  <2> DEFINE i == w.signing + 1
             r == signer'[s]
  <2>1. /\ w = [pc |-> w.pc, session |-> w.session, generated |-> w.generated, commits |-> w.commits,
                nonces |-> w.nonces, round2_req |-> w.round2_req, signing |-> w.signing]
        /\ signer = [t \in Signers |-> signer[t]]
    BY Zenon DEF FrostInv, FrostShape
  <2>2. signer' = [signer EXCEPT ![s].signing = i] /\ SignShare(w.session, s, w.round2_req, relay)
    BY <1>2, ZenonT(30) DEF OnSign
  <2>3. /\ \A f \in relay' : f \in relay \/ f.kind = "ROUND2_RESPONSE"
        /\ \A a \in shares' : a \in shares \/ (Committing(a) /\ a.signing_package \in Packages)
    BY <1>1, <1>2, <2>2, ShareCommits, Zenon
  <2> HIDE DEF i
  <2>4. /\ signer' = [signer EXCEPT ![s] = r]
        /\ r = [pc |-> r.pc, session |-> r.session, generated |-> r.generated, commits |-> r.commits,
                nonces |-> r.nonces, round2_req |-> r.round2_req, signing |-> r.signing]
        /\ r.generated = w.generated /\ r.round2_req = w.round2_req
    BY <2>1, <2>2, Zenon
  <2>5. \A f \in relay' : f \in relay \/ f.kind \notin {"ROUND1_RESPONSE", "ROUND2_REQUEST"}
    BY <2>3, Zenon
  <2> HIDE DEF r
  <2> QED
    BY <1>1, <2>2, <2>3, <2>4, <2>5, SignerQuiet, ZenonT(30)
<1>3. CASE ~SignOk(s, w.round2_req)
  <2>1. /\ signer' = [signer EXCEPT ![s].pc = "Error"]
        /\ relay' = relay /\ shares' = shares
    BY <1>3, Zenon DEF OnSign
  <2> QED
    BY <1>1, <2>1, SignerMoves, ZenonT(30)
<1> QED
  BY <1>2, <1>3, Zenon

LEMMA FrostNextInv == FrostInv /\ [FrostNext]_frostVars => FrostInv'
<1> SUFFICES ASSUME FrostInv, [FrostNext]_frostVars PROVE FrostInv'
  BY Zenon
<1>1. CASE UNCHANGED frostVars
  <2>1. UNCHANGED <<coordinator, signer, relay, shares>>
    BY <1>1, Zenon DEF frostVars
  <2>2. FrostShape' /\ \A s \in Signers : signer'[s].round2_req \in Packages
    BY <2>1, Zenon DEF FrostInv, FrostShape, Packages
  <2> QED
    BY <2>1, <2>2, QuietStep, Zenon DEF Collecting
<1> QED
  BY Zenon, <1>1, StartSessionInv, AcceptCommitmentInv, CoordinatorInv, SignerStepInv, OnCommitInv,
     ReceiveRound1Inv, ReceiveRound2Inv, OnSignInv
     DEF FrostNext, Receive

(* Nonces are never used twice: for any number of signers and sessions, in *)
(* every order in which handle_one_session, the handlers of the web app    *)
(* and sign_message_via_nostr can meet, no nonces of a signer go into      *)
(* shares for two different signing packages.                              *)
THEOREM FrostNonceUsedOnce == FrostSpec => []NonceUsedOnce
BY FrostInitInv, FrostNextInv, FrostInvNonceUsedOnce, PTL DEF FrostSpec

(***************************************************************************)
(* A session does not err.  What a client checks, the sender has made      *)
(* true: a commitment is asked of active signers only, and a share is made *)
(* for the one package of its session by a signer that is in it.           *)
(***************************************************************************)
EventOk(e) ==
    /\ e.kind = "ROUND1_RESPONSE" => e.who \in coordinator.active
    /\ e.kind = "ROUND2_REQUEST" => e.session = e.signing_package.message
    /\ e.kind = "ROUND2_RESPONSE" => e \in shares

SignerOk(s) ==
    /\ signer[s].pc = "Round1ActionRequired" => s \in coordinator.active
    /\ signer[s].pc = "Round2ActionRequired" => signer[s].round2_req.message = signer[s].session

(* The active signers are chosen once, and one share of each counts.       *)
CoordinatorOk ==
    /\ coordinator.pc # "failed"
    /\ coordinator.pc \in {"setup", "provision"} => coordinator.active = {}
    /\ \A a \in coordinator.shares : a \in shares /\ a.session = coordinator.session
    /\ \A a, b \in coordinator.shares : a.who = b.who => a = b

SessionInv ==
    /\ CoordinatorOk
    /\ \A e \in relay : EventOk(e)
    /\ \A s \in Signers : SignerOk(s)
    /\ \A a \in shares : a.session = a.signing_package.message

(* A share for the session is one of the package's signers, for that       *)
(* package.                                                                *)
LEMMA ShareOfSession ==
    ASSUME FrostInv, SessionInv, NEW a \in shares, a.session = coordinator.session
    PROVE  /\ a.who \in DOMAIN coordinator.accepted
           /\ a.signing_package = [message |-> coordinator.session, commitments |-> coordinator.accepted]
           /\ ~Collecting
<1>1. a.signing_package \in Packages /\ a.signing_package.message = coordinator.session
  BY Zenon DEF Packages, SessionInv
<1>2. /\ a.signing_package = [message |-> coordinator.session, commitments |-> coordinator.accepted]
      /\ ~Collecting
  BY <1>1, Zenon DEF FrostInv, OnePackage
<1>3. a.who \in DOMAIN a.signing_package.commitments
  BY Zenon DEF FrostInv, Committing
<1> QED
  BY <1>2, <1>3

(* As many shares of different signers as were selected are a share of     *)
(* each of them.                                                           *)
LEMMA SharesAggregate ==
    ASSUME FrostInv, SessionInv, NEW x \in SUBSET shares, AllShares(x),
           \A a \in x : a.session = coordinator.session,
           \A a, b \in x : a.who = b.who => a = b
    PROVE  Aggregates(x)
<1> DEFINE D == DOMAIN coordinator.accepted
           f == [a \in x |-> a.who]
<1>1. \A a \in x : /\ a.who \in D
                   /\ a.signing_package = [message |-> coordinator.session, commitments |-> coordinator.accepted]
  BY ShareOfSession, Zenon
<1>2. IsFiniteSet(D)
  <2>1. \A s \in D : Committed(s, coordinator.accepted[s], coordinator.session)
    BY Zenon DEF Committed
  <2>2. D \subseteq Signers
    BY <2>1, Zenon DEF FrostInv, NonceHasSession
  <2> QED
    BY <2>2, FrostAssumption, FS_Subset, Zenon
<1>3. f \in Injection(x, D)
  BY <1>1, Zenon DEF Injection, IsInjective
<1>4. /\ IsFiniteSet(x) /\ Cardinality(x) <= Cardinality(D)
      /\ Cardinality(x) = Cardinality(D) <=> f \in Surjection(x, D)
  BY <1>2, <1>3, FS_Injection, Zenon
<1>5. Cardinality(x) \in Nat /\ Cardinality(D) \in Nat /\ Cardinality(x) >= Cardinality(D)
  BY <1>2, <1>4, FS_CardinalityType, Zenon DEF AllShares
<1>6. f \in Surjection(x, D)
  BY <1>4, <1>5
<1>7. {a.who : a \in x} = D
  <2>1. \A d \in D : \E a \in x : f[a] = d
    BY <1>6, Zenon DEF Surjection
  <2>2. \A d \in D : \E a \in x : a.who = d
    BY <2>1, Zenon
  <2>3. \A a \in x : a.who \in D
    BY <1>1, Zenon
  <2> HIDE DEF D
  <2> QED
    BY <2>2, <2>3
<1> QED
  BY <1>1, <1>7, Zenon DEF Aggregates

LEMMA SessionInitInv == FrostInit => SessionInv
  BY DEF FrostInit, SessionInv, CoordinatorOk, SignerOk, EventOk, Interactive

(* A step of a signer.                                                     *)
LEMMA SignerSession ==
    ASSUME SessionInv, UNCHANGED coordinator, NEW s \in Signers,
           \A t \in Signers : t # s => signer'[t] = signer[t],
           SignerOk(s)',
           shares \subseteq shares',
           \A a \in shares' : a \in shares \/ a.session = a.signing_package.message,
           \A e \in relay' : e \in relay \/ EventOk(e)'
    PROVE  SessionInv'
<1>1. CoordinatorOk'
  BY Zenon DEF SessionInv, CoordinatorOk
<1>2. \A e \in relay' : EventOk(e)'
  BY Zenon DEF SessionInv, EventOk
<1>3. \A t \in Signers : SignerOk(t)'
  BY Zenon DEF SessionInv, SignerOk
<1>4. \A a \in shares' : a.session = a.signing_package.message
  BY Zenon DEF SessionInv
<1> QED
  BY <1>1, <1>2, <1>3, <1>4, Zenon DEF SessionInv

(* The fields of a signer.                                                 *)
LEMMA SignerFields ==
    ASSUME FrostInv, NEW s \in Signers
    PROVE  /\ signer[s] = [pc |-> signer[s].pc, session |-> signer[s].session,
                           generated |-> signer[s].generated, commits |-> signer[s].commits,
                           nonces |-> signer[s].nonces, round2_req |-> signer[s].round2_req,
                           signing |-> signer[s].signing]
           /\ signer = [t \in Signers |-> signer[t]]
  BY Zenon DEF FrostInv, FrostShape

LEMMA SignerStepSession ==
    ASSUME FrostInv, SessionInv, NEW s \in Signers,
           Join(s) \/ SignerStep(s) \/ ShareSent(s) \/ OnCommit(s)
    PROVE  SessionInv'
<1> DEFINE w == signer[s]
           r == signer'[s]
<1>1. /\ UNCHANGED <<coordinator, shares>>
      /\ \A e \in relay' : \/ e \in relay \/ e.kind = "SIGNER_PROVISIONED"
                           \/ /\ w.pc = "Round1ActionRequired"
                              /\ e.kind = "ROUND1_RESPONSE" /\ e.who = s
  <2>1. CASE Join(s)
    BY <2>1 DEF Join, Event
  <2>2. CASE SignerStep(s) \/ ShareSent(s)
    BY <2>2, ZenonT(30) DEF SignerStep, AwaitRound1, AwaitRound2, ShareSent
  <2>3. CASE OnCommit(s)
    BY <2>3 DEF OnCommit, Commitment
  <2> QED
    BY <2>1, <2>2, <2>3, Zenon
<1>2. /\ \A t \in Signers : t # s => signer'[t] = signer[t]
      /\ r.round2_req = w.round2_req /\ r.session = w.session
      /\ r.pc = w.pc \/ r.pc \in {"loop", "round1", "round2", "Complete"}
  <2>1. CASE Join(s)
    BY <2>1, SignerFields DEF Join
  <2>2. CASE AwaitRound1(s)
    BY <2>2, SignerFields DEF AwaitRound1
  <2>3. CASE \E n \in signer[s].commits : AwaitRound2(s, n)
    <3>1. PICK n \in w.commits :
             signer' = [signer EXCEPT ![s].commits = @ \ {n}, ![s].nonces = n, ![s].pc = "round2"]
      BY <2>3, ZenonT(30) DEF AwaitRound2
    <3>2. signer' = [signer EXCEPT ![s] =
                        [w EXCEPT !.commits = @ \ {n}, !.nonces = n, !.pc = "round2"]]
      BY SignerFields, <3>1, ZenonT(30)
    <3> QED
      BY SignerFields, <3>2
  <2>4. CASE ShareSent(s)
    <3>1. PICK i : signer' = [signer EXCEPT ![s] = [w EXCEPT !.signing = i, !.pc = "Complete"]]
      BY <2>4, SignerFields, ZenonT(30) DEF ShareSent
    <3> QED
      BY SignerFields, <3>1
  <2>5. CASE OnCommit(s)
    <3>1. PICK n, c : signer' = [signer EXCEPT ![s] = [w EXCEPT !.generated = n, !.commits = c]]
      BY <2>5, SignerFields, ZenonT(30) DEF OnCommit
    <3> QED
      BY SignerFields, <3>1
  <2> QED
    BY <2>1, <2>2, <2>3, <2>4, <2>5, Zenon DEF SignerStep
<1>3. SignerOk(s)'
  BY <1>1, <1>2, Zenon DEF SignerOk, SessionInv
<1>4. \A e \in relay' : e \in relay \/ EventOk(e)'
  BY <1>1, Zenon DEF EventOk, SessionInv, SignerOk
<1> HIDE DEF r, w
<1> QED
  BY <1>1, <1>2, <1>3, <1>4, SignerSession, Zenon

LEMMA ReceiveRound1Session ==
    ASSUME FrostInv, SessionInv, NEW s \in Signers, NEW e, ReceiveRound1(s, e)
    PROVE  SessionInv'
<1> DEFINE w == signer[s]
           n == FreshNonce(s)
           k == e.session
<1>1. UNCHANGED <<coordinator, shares>>
  BY Zenon DEF ReceiveRound1
<1>2. /\ w = [pc |-> w.pc, session |-> w.session, generated |-> w.generated, commits |-> w.commits,
              nonces |-> w.nonces, round2_req |-> w.round2_req, signing |-> w.signing]
      /\ signer = [t \in Signers |-> signer[t]]
  BY SignerFields, Zenon
<1>3. CASE ~Addressed(s)
  <2>1. PICK x \in {"round1", "loop"} : signer' = [signer EXCEPT ![s].pc = x]
    BY <1>3, Zenon DEF ReceiveRound1
  <2>2. /\ \A t \in Signers : t # s => signer'[t] = signer[t]
        /\ signer'[s].pc \in {"round1", "loop"}
    BY <1>2, <2>1, Zenon
  <2>3. relay' = relay \ {e}
    BY <1>3, Zenon DEF ReceiveRound1
  <2>4. SignerOk(s)'
    BY <2>2, Zenon DEF SignerOk
  <2> QED
    BY <1>1, <2>2, <2>3, <2>4, SignerSession, Zenon
<1>4. CASE Addressed(s) /\ Interactive
  <2>1. signer' = [signer EXCEPT ![s] = [w EXCEPT !.pc = "Round1ActionRequired", !.session = k]]
    BY <1>4, <1>2, Zenon DEF ReceiveRound1
  <2>2. relay' = relay \ {e}
    BY <1>4, Zenon DEF ReceiveRound1
  <2> HIDE DEF k
  <2>3. /\ \A t \in Signers : t # s => signer'[t] = signer[t]
        /\ signer'[s].pc = "Round1ActionRequired"
    BY <1>2, <2>1, Zenon
  <2>4. SignerOk(s)'
    BY <1>1, <1>4, <2>3, Zenon DEF SignerOk, Addressed
  <2> QED
    BY <1>1, <2>2, <2>3, <2>4, SignerSession, Zenon
<1>5. CASE Addressed(s) /\ ~Interactive
  <2>1. signer' = [signer EXCEPT ![s] =
           [w EXCEPT !.pc = "commit", !.session = k, !.generated = n, !.commits = {n}]]
    BY <1>5, <1>2, Zenon DEF ReceiveRound1
  <2>2. relay' = (relay \ {e}) \cup {Commitment(k, s, n)}
    BY <1>5, Zenon DEF ReceiveRound1
  <2> HIDE DEF k, n
  <2>3. /\ \A t \in Signers : t # s => signer'[t] = signer[t]
        /\ signer'[s].pc = "commit"
    BY <1>2, <2>1, Zenon
  <2>4. SignerOk(s)'
    BY <2>3, Zenon DEF SignerOk
  <2>5. \A f \in relay' : f \in relay \/ EventOk(f)'
    BY <1>1, <1>5, <2>2 DEF EventOk, Commitment, Addressed
  <2> QED
    BY <1>1, <2>3, <2>4, <2>5, SignerSession, Zenon
<1> QED
  BY <1>3, <1>4, <1>5, Zenon

(* A share for session k and a package of that session.                    *)
LEMMA ShareSession ==
    ASSUME NEW k, NEW s, NEW p, NEW events, SignShare(k, s, p, events), p.message = k
    PROVE  /\ shares \subseteq shares'
           /\ \A a \in shares' : a \in shares \/ a.session = a.signing_package.message
           /\ \A e \in relay' : e \in events \/ EventOk(e)'
  BY DEF SignShare, Share, EventOk

LEMMA ReceiveRound2Session ==
    ASSUME FrostInv, SessionInv, NEW s \in Signers, NEW e, ReceiveRound2(s, e)
    PROVE  SessionInv'
<1> DEFINE w == signer[s]
           p == e.signing_package
           selected == s \in DOMAIN p.commitments
<1>1. /\ UNCHANGED coordinator /\ e \in relay /\ e.session = w.session
      /\ p.message = e.session
  BY Zenon DEF ReceiveRound2, SessionInv, EventOk
<1>2. /\ w = [pc |-> w.pc, session |-> w.session, generated |-> w.generated, commits |-> w.commits,
              nonces |-> w.nonces, round2_req |-> w.round2_req, signing |-> w.signing]
      /\ signer = [t \in Signers |-> signer[t]]
  BY SignerFields, Zenon
<1>3. CASE selected /\ Interactive
  <2>1. /\ signer' = [signer EXCEPT ![s] = [w EXCEPT !.pc = "Round2ActionRequired", !.round2_req = p]]
        /\ relay' = relay \ {e} /\ shares' = shares
    BY <1>2, <1>3, Zenon DEF ReceiveRound2
  <2>2. p.message = w.session
    BY <1>1, Zenon
  <2> HIDE DEF p
  <2>3. /\ \A t \in Signers : t # s => signer'[t] = signer[t]
        /\ signer'[s].pc = "Round2ActionRequired" /\ signer'[s].round2_req = p
        /\ signer'[s].session = w.session
    BY <1>2, <2>1, Zenon
  <2>4. SignerOk(s)'
    BY <2>2, <2>3, Zenon DEF SignerOk
  <2> QED
    BY <1>1, <2>1, <2>3, <2>4, SignerSession, Zenon
<1>4. CASE ~(selected /\ Interactive)
  <2>1. PICK x \in {"Complete", "loop", "off"} : signer' = [signer EXCEPT ![s].pc = x]
    BY <1>4, Zenon DEF ReceiveRound2
  <2>2. /\ \A t \in Signers : t # s => signer'[t] = signer[t]
        /\ signer'[s].pc \in {"Complete", "loop", "off"}
    BY <1>2, <2>1, Zenon
  <2>3. SignerOk(s)'
    BY <2>2, Zenon DEF SignerOk
  <2>4. \/ relay' = relay \ {e} /\ shares' = shares
        \/ SignShare(e.session, s, p, relay \ {e})
    BY <1>4, Zenon DEF ReceiveRound2
  <2>5. /\ shares \subseteq shares'
        /\ \A a \in shares' : a \in shares \/ a.session = a.signing_package.message
        /\ \A f \in relay' : f \in relay \/ EventOk(f)'
    BY <1>1, <2>4, ShareSession, Zenon
  <2> QED
    BY <1>1, <2>2, <2>3, <2>5, SignerSession, Zenon
<1> QED
  BY <1>3, <1>4, Zenon

LEMMA OnSignSession ==
    ASSUME FrostInv, SessionInv, NEW s \in Signers, OnSign(s)
    PROVE  SessionInv'
<1> DEFINE w == signer[s]
           p == w.round2_req
           i == w.signing + 1
<1>1. UNCHANGED coordinator /\ p.message = w.session /\ w.pc = "Round2ActionRequired"
  BY Zenon DEF OnSign, SessionInv, SignerOk
<1>2. /\ w = [pc |-> w.pc, session |-> w.session, generated |-> w.generated, commits |-> w.commits,
              nonces |-> w.nonces, round2_req |-> w.round2_req, signing |-> w.signing]
      /\ signer = [t \in Signers |-> signer[t]]
  BY SignerFields, Zenon
<1>3. \/ signer' = [signer EXCEPT ![s].signing = i] /\ SignShare(w.session, s, p, relay)
      \/ signer' = [signer EXCEPT ![s].pc = "Error"] /\ UNCHANGED <<relay, shares>>
  BY ZenonT(30) DEF OnSign
<1>4. /\ shares \subseteq shares'
      /\ \A a \in shares' : a \in shares \/ a.session = a.signing_package.message
      /\ \A f \in relay' : f \in relay \/ EventOk(f)'
  BY <1>1, <1>3, ShareSession, Zenon
<1> HIDE DEF i
<1>5. /\ \A t \in Signers : t # s => signer'[t] = signer[t]
      /\ signer'[s].pc \in {"Round2ActionRequired", "Error"}
      /\ signer'[s].round2_req = p /\ signer'[s].session = w.session
  BY <1>1, <1>2, <1>3, Zenon
<1>6. SignerOk(s)'
  BY <1>1, <1>5, Zenon DEF SignerOk
<1> QED
  BY <1>1, <1>4, <1>5, <1>6, SignerSession, Zenon

(***************************************************************************)
(* The coordinator.                                                        *)
(***************************************************************************)
LEMMA CoordinatorFields ==
    ASSUME FrostInv
    PROVE  coordinator = [pc |-> coordinator.pc, session |-> coordinator.session,
                          acked |-> coordinator.acked, active |-> coordinator.active,
                          accepted |-> coordinator.accepted, shares |-> coordinator.shares,
                          signed |-> coordinator.signed]
  BY Zenon DEF FrostInv, FrostShape

(* A step of the coordinator that drops no active signer.                  *)
LEMMA CoordinatorSession ==
    ASSUME SessionInv, UNCHANGED <<signer, shares>>, CoordinatorOk',
           coordinator.active \subseteq coordinator'.active,
           \A e \in relay' : e \in relay \/ EventOk(e)'
    PROVE  SessionInv'
<1>1. \A e \in relay' : EventOk(e)'
  BY Zenon DEF SessionInv, EventOk
<1>2. \A s \in Signers : SignerOk(s)'
  BY Zenon DEF SessionInv, SignerOk
<1> QED
  BY <1>1, <1>2, Zenon DEF SessionInv

LEMMA ProvisionSession ==
    ASSUME FrostInv, SessionInv,
           AwaitProvisioned \/ PressEnter \/ (\E s \in Signers : SignerProvisioned(s))
    PROVE  SessionInv'
<1> DEFINE c == coordinator
           d == coordinator'
<1>1. c = [pc |-> c.pc, session |-> c.session, acked |-> c.acked, active |-> c.active,
           accepted |-> c.accepted, shares |-> c.shares, signed |-> c.signed]
  BY CoordinatorFields, Zenon
<1>2. c.pc \in {"setup", "provision"} /\ c.active = {}
  <2>1. c.pc \in {"setup", "provision"}
    BY Zenon DEF AwaitProvisioned, PressEnter, SignerProvisioned
  <2> QED
    BY <2>1, Zenon DEF SessionInv, CoordinatorOk
<1>3. UNCHANGED <<signer, shares>> /\ relay' \subseteq relay
  BY ZenonT(30) DEF AwaitProvisioned, PressEnter, SignerProvisioned
<1>4. \/ d = [c EXCEPT !.pc = "provision"]
      \/ \E x : d = [c EXCEPT !.acked = x]
      \/ \E x : d = [c EXCEPT !.active = x, !.pc = "ready"]
      \/ \E x : d = [c EXCEPT !.acked = x, !.active = x, !.pc = "ready"]
  BY ZenonT(30) DEF AwaitProvisioned, PressEnter, SignerProvisioned
<1>5. /\ d.session = c.session /\ d.shares = c.shares
      /\ \/ d.pc \in {"setup", "provision"} /\ d.active = {}
         \/ d.pc = "ready"
  BY <1>1, <1>2, <1>4, Zenon
<1>6. CoordinatorOk'
  BY <1>3, <1>5, Zenon DEF CoordinatorOk, SessionInv
<1> HIDE DEF d
<1> QED
  BY <1>2, <1>3, <1>6, CoordinatorSession, Zenon

LEMMA SessionStepSession ==
    ASSUME FrostInv, SessionInv, StartSession \/ AwaitResponses
    PROVE  SessionInv'
<1> DEFINE c == coordinator
           d == coordinator'
<1>1. c = [pc |-> c.pc, session |-> c.session, acked |-> c.acked, active |-> c.active,
           accepted |-> c.accepted, shares |-> c.shares, signed |-> c.signed]
  BY CoordinatorFields, Zenon
<1>2. UNCHANGED <<signer, shares>> /\ \A e \in relay' : e \in relay \/ e.kind = "ROUND1_REQUEST"
  BY DEF StartSession, AwaitResponses, Event
<1>3. \/ \E k : d = [c EXCEPT !.pc = "send1", !.session = k, !.accepted = <<>>, !.shares = {}]
      \/ \E x \in {"round1", "round2"} : d = [c EXCEPT !.pc = x]
  BY ZenonT(30) DEF StartSession, AwaitResponses
<1>4. /\ d.pc \in {"send1", "round1", "round2"} /\ d.active = c.active
      /\ d.shares = {} \/ (d.shares = c.shares /\ d.session = c.session)
  <2>1. CASE \E k : d = [c EXCEPT !.pc = "send1", !.session = k, !.accepted = <<>>, !.shares = {}]
    BY <1>1, <2>1, Zenon
  <2>2. CASE \E x \in {"round1", "round2"} : d = [c EXCEPT !.pc = x]
    BY <1>1, <2>2, Zenon
  <2> QED
    BY <1>3, <2>1, <2>2, Zenon
<1>5. CoordinatorOk'
  BY <1>2, <1>4, Zenon DEF CoordinatorOk, SessionInv
<1>6. \A e \in relay' : e \in relay \/ EventOk(e)'
  BY <1>2, Zenon DEF EventOk
<1> QED
  BY <1>2, <1>4, <1>5, <1>6, CoordinatorSession, Zenon

(* No commitment comes from a signer that is not active.                   *)
LEMMA AcceptCommitmentSession ==
    ASSUME FrostInv, SessionInv, NEW e, AcceptCommitment(e)
    PROVE  SessionInv'
<1> DEFINE c == coordinator
           d == coordinator'
           accepted == Insert(c.accepted, e.who, e.nonce)
           package  == [message |-> c.session, commitments |-> accepted]
<1>1. c = [pc |-> c.pc, session |-> c.session, acked |-> c.acked, active |-> c.active,
           accepted |-> c.accepted, shares |-> c.shares, signed |-> c.signed]
  BY CoordinatorFields, Zenon
<1>2. /\ e \in relay /\ e.kind = "ROUND1_RESPONSE" /\ e.session = c.session /\ c.pc = "round1"
      /\ UNCHANGED <<signer, shares>>
  BY Zenon DEF AcceptCommitment
<1>3. e.who \in c.active
  BY <1>2, Zenon DEF SessionInv, EventOk
<1>4. \/ relay' = relay \ {e} /\ d = [c EXCEPT !.accepted = accepted]
      \/ /\ relay' = (relay \ {e}) \cup {Round2(e.session, s, package) : s \in Subscribed}
         /\ d = [c EXCEPT !.accepted = accepted, !.pc = "send2"]
  BY <1>3, ZenonT(30) DEF AcceptCommitment
<1>5. package.message = e.session
  BY <1>2, Zenon
<1> HIDE DEF accepted, package
<1>6. /\ d.pc \in {"round1", "send2"} /\ d.active = c.active
      /\ d.shares = c.shares /\ d.session = c.session
  BY <1>1, <1>2, <1>4, Zenon
<1>7. \A f \in relay' : f \in relay \/ EventOk(f)'
  BY <1>4, <1>5 DEF EventOk, Round2
<1>8. CoordinatorOk'
  BY <1>2, <1>6, Zenon DEF CoordinatorOk, SessionInv
<1> QED
  BY <1>2, <1>6, <1>7, <1>8, CoordinatorSession, Zenon

(* Every share is one of a selected signer, and together they aggregate.   *)
LEMMA AcceptShareSession ==
    ASSUME FrostInv, SessionInv, NEW e, AcceptShare(e)
    PROVE  SessionInv'
<1> DEFINE c == coordinator
           d == coordinator'
           x == IF \E f \in c.shares : f.who = e.who THEN c.shares ELSE c.shares \cup {e}
           y == c.signed \cup {c.session}
<1>1. c = [pc |-> c.pc, session |-> c.session, acked |-> c.acked, active |-> c.active,
           accepted |-> c.accepted, shares |-> c.shares, signed |-> c.signed]
  BY CoordinatorFields, Zenon
<1>2. /\ e \in relay /\ e.kind = "ROUND2_RESPONSE" /\ e.session = c.session /\ c.pc = "round2"
      /\ UNCHANGED <<signer, shares>> /\ relay' = relay \ {e}
  BY Zenon DEF AcceptShare
<1>3. e \in shares
  BY <1>2, Zenon DEF SessionInv, EventOk
<1>4. e.who \in DOMAIN c.accepted
  BY <1>2, <1>3, ShareOfSession, Zenon
<1>5. /\ \A a \in x : a \in shares /\ a.session = c.session
      /\ \A a, b \in x : a.who = b.who => a = b
  BY <1>2, <1>3, Zenon DEF SessionInv, CoordinatorOk
<1>6. AllShares(x) => Aggregates(x)
  BY <1>5, SharesAggregate, Zenon
<1>7. \/ d = [c EXCEPT !.shares = x]
      \/ /\ AllShares(x)
         /\ d = IF Aggregates(x) THEN [c EXCEPT !.shares = x, !.pc = "ready", !.signed = y]
                ELSE [c EXCEPT !.shares = x, !.pc = "failed"]
  BY <1>4, ZenonT(30) DEF AcceptShare
<1> HIDE DEF x, y
<1>8. \/ d = [c EXCEPT !.shares = x]
      \/ d = [c EXCEPT !.shares = x, !.pc = "ready", !.signed = y]
  BY <1>6, <1>7, ZenonT(30)
<1>9. /\ d.pc \in {"round2", "ready"} /\ d.active = c.active
      /\ d.shares = x /\ d.session = c.session
  BY <1>1, <1>2, <1>8, Zenon
<1>10. CoordinatorOk'
  BY <1>2, <1>5, <1>9, Zenon DEF CoordinatorOk
<1> QED
  BY <1>2, <1>9, <1>10, CoordinatorSession, Zenon

LEMMA ShutdownSession == ASSUME FrostInv, SessionInv, Shutdown PROVE SessionInv'
<1> DEFINE c == coordinator
           d == coordinator'
<1>1. c = [pc |-> c.pc, session |-> c.session, acked |-> c.acked, active |-> c.active,
           accepted |-> c.accepted, shares |-> c.shares, signed |-> c.signed]
  BY CoordinatorFields, Zenon
<1>2. d = [c EXCEPT !.pc = "stopped"] /\ UNCHANGED <<relay, shares>>
  BY Zenon DEF Shutdown
<1>3. d.pc = "stopped" /\ d.active = c.active /\ d.shares = c.shares /\ d.session = c.session
  BY <1>1, <1>2, Zenon
<1>4. CoordinatorOk'
  BY <1>2, <1>3, Zenon DEF CoordinatorOk, SessionInv
<1>5. ASSUME NEW s \in Signers PROVE SignerOk(s)'
  <2>1. signer'[s] = signer[s] \/ signer'[s] = [signer[s] EXCEPT !.pc = "off"]
    BY Zenon DEF Shutdown
  <2>2. signer'[s] = signer[s] \/ signer'[s].pc = "off"
    BY <2>1, SignerFields, Zenon
  <2> QED
    BY <1>3, <2>2, Zenon DEF SignerOk, SessionInv
<1>6. \A e \in relay' : EventOk(e)'
  BY <1>2, <1>3, Zenon DEF EventOk, SessionInv
<1> QED
  BY <1>2, <1>4, <1>5, <1>6, Zenon DEF SessionInv

LEMMA SessionNextInv == FrostInv /\ SessionInv /\ [FrostNext]_frostVars => SessionInv'
<1> SUFFICES ASSUME FrostInv, SessionInv, [FrostNext]_frostVars PROVE SessionInv'
  BY Zenon
<1>1. ASSUME UNCHANGED <<coordinator, signer, shares>>, relay' \subseteq relay PROVE SessionInv'
  BY <1>1, Zenon DEF SessionInv, CoordinatorOk, EventOk, SignerOk
<1>2. CASE UNCHANGED frostVars
  BY <1>1, <1>2, Zenon DEF frostVars
<1>3. CASE \E e \in relay : Miss(e)
  BY <1>1, <1>3, Zenon DEF Miss
<1> QED
  BY Zenon, <1>2, <1>3, SignerStepSession, ReceiveRound1Session, ReceiveRound2Session, OnSignSession,
     ProvisionSession, SessionStepSession, AcceptCommitmentSession, AcceptShareSession, ShutdownSession
     DEF FrostNext, Receive

(* sign_message_via_nostr returns no error, for any group, threshold and   *)
(* number of sessions: wait_for_round1_commitments meets no signer that is *)
(* not active, wait_for_round2_signature_shares none that was not          *)
(* selected, and what it has collected aggregates.                         *)
THEOREM FrostSessionNeverErrs == FrostSpec => []SessionNeverErrs
<1>1. SessionInv => SessionNeverErrs
  BY Zenon DEF SessionInv, CoordinatorOk, SessionNeverErrs
<1> QED
  BY <1>1, FrostInitInv, FrostNextInv, SessionInitInv, SessionNextInv, PTL DEF FrostSpec

=============================================================================
