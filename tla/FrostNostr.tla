----------------------------- MODULE FrostNostr -----------------------------
(***************************************************************************)
(* Threshold signing over Nostr: the coordinator and the signer tasks of   *)
(* frost_nostr.rs, and the signers of the web app (frost-web) that take    *)
(* their place in interactive mode.                                        *)
(*                                                                         *)
(* Events are ephemeral: a relay passes them on to the clients subscribed  *)
(* at that moment.  A client holds on to the events it is sent only while  *)
(* a receiver of client.notifications() exists: every wait_for_... makes   *)
(* one when it begins and drops it when it returns, so that what arrives   *)
(* between two waits, while an event is being sent for example, is gone.   *)
(* A session is known by its number, which stands for its unique           *)
(* session_id and for the message it is about; a nonce by its signer and a *)
(* number.                                                                 *)
(***************************************************************************)
EXTENDS Naturals, FiniteSets

CONSTANTS Signers,        \* dealer.roster
          Threshold,      \* dealer.threshold
          Settings        \* the settings to look at

Buttons == {"commit", "sign"}

(* frost::keys::split wants a threshold of two at least, main one of the   *)
(* number of signers at most.                                              *)
ASSUME FrostAssumption ==
    /\ IsFiniteSet(Signers)
    /\ Threshold \in 2..Cardinality(Signers)
    /\ Settings \subseteq [interactive : BOOLEAN, sessions : Nat, present : SUBSET Signers,
                            hasty : SUBSET (Signers \X Buttons), loses : BOOLEAN]

VARIABLES setting,        \* the setting, which stays as it is
          coordinator,    \* provisioning and sign_message_via_nostr
          signer,         \* run_signer, or the web app
          relay,          \* events on their way, one for each client
          shares,         \* history: every signature share that was computed
          missed          \* history: events of the session a client never looked at

frostVars == <<setting, coordinator, signer, relay, shares, missed>>

Interactive == setting.interactive   \* signers are people with the web app
MaxSessions == setting.sessions      \* bound: calls of sign_message_via_nostr
Present == setting.present           \* those that ever join
Hasty == setting.hasty               \* those of them that click a button twice, and which
RelayLoses == setting.loses          \* relays may lose events

(* The events, by their kinds.  who is the signer an event goes to or      *)
(* comes from.                                                             *)
Event(kind, k, s) == [kind |-> kind, session |-> k, who |-> s]
Commitment(k, s, n) == [kind |-> "ROUND1_RESPONSE", session |-> k, who |-> s, nonce |-> n]
Round2(k, s, package) ==
    [kind |-> "ROUND2_REQUEST", session |-> k, who |-> s, signing_package |-> package]
Share(k, s, n, package) ==
    [kind |-> "ROUND2_RESPONSE", session |-> k, who |-> s, nonce |-> n, signing_package |-> package]

NoPackage == [message |-> 0, commitments |-> <<>>]

FrostInit ==
    /\ setting \in Settings
    /\ coordinator = [pc |-> IF Interactive THEN "setup" ELSE "provision", session |-> 0,
                      acked |-> {}, active |-> {}, accepted |-> <<>>, shares |-> {}, signed |-> {}]
    /\ signer = [s \in Signers |->
                    [pc |-> "off", session |-> 0, generated |-> 0, commits |-> {}, nonces |-> 0,
                     round2_req |-> NoPackage, signing |-> 0]]
    /\ relay = {}
    /\ shares = {}
    /\ missed = {}

(* How often a person clicks on a button that stays where it is.           *)
Clicks(s, button) == IF <<s, button>> \in Hasty THEN 2 ELSE 1

(* The signers that are subscribed to the requests of the coordinator.     *)
Subscribed == {s \in Signers : signer[s].pc # "off"}

-----------------------------------------------------------------------------
(* Provisioning.                                                           *)

(* A signer connects, subscribes and publishes its acknowledgment; it does *)
(* not listen yet.                                                         *)
Join(s) ==
    /\ s \in Present
    /\ signer[s].pc = "off" /\ signer[s].session = 0
    /\ coordinator.pc # "stopped"
    /\ signer' = [signer EXCEPT ![s].pc = "loop"]
    /\ relay' = relay \cup {Event("SIGNER_PROVISIONED", 0, s)}
    /\ UNCHANGED <<coordinator, shares, missed>>

(* wait_for_external_signers begins after the packages were handed out.    *)
AwaitProvisioned ==
    /\ coordinator.pc = "setup"
    /\ coordinator' = [coordinator EXCEPT !.pc = "provision"]
    /\ UNCHANGED <<signer, relay, shares, missed>>

(* wait_for_provisioned_acks needs all of the signers; in interactive mode *)
(* it is up to the person at the keyboard.                                 *)
SignerProvisioned(s) ==
    LET acked == coordinator.acked \cup {s}
        e == Event("SIGNER_PROVISIONED", 0, s)
    IN  /\ coordinator.pc = "provision"
        /\ e \in relay
        /\ relay' = relay \ {e}
        /\ coordinator' =
               IF ~Interactive /\ acked = Signers
               THEN [coordinator EXCEPT !.acked = acked, !.active = acked, !.pc = "ready"]
               ELSE [coordinator EXCEPT !.acked = acked]
        /\ UNCHANGED <<signer, shares, missed>>

(* Enter starts the session with the signers that joined (the              *)
(* with_active_signers subset) once they reach the threshold.              *)
PressEnter ==
    /\ Interactive
    /\ coordinator.pc = "provision"
    /\ Cardinality(coordinator.acked) >= Threshold
    /\ coordinator' = [coordinator EXCEPT !.active = coordinator.acked, !.pc = "ready"]
    /\ UNCHANGED <<signer, relay, shares, missed>>

-----------------------------------------------------------------------------
(* The coordinator: sign_message_via_nostr.                                *)

(* The round-1 request is sent.                                            *)
StartSession ==
    LET k == coordinator.session + 1
    IN  /\ coordinator.pc = "ready"
        /\ k <= MaxSessions
        /\ coordinator' = [coordinator EXCEPT !.pc = "send1", !.session = k,
                                              !.accepted = <<>>, !.shares = {}]
        /\ relay' = relay \cup {Event("ROUND1_REQUEST", k, s) : s \in Subscribed}
        /\ missed' = {}
        /\ UNCHANGED <<signer, shares>>

(* send_event_builder returns, and the coordinator begins to listen.       *)
AwaitResponses ==
    /\ coordinator.pc \in {"send1", "send2"}
    /\ coordinator' = [coordinator EXCEPT !.pc = IF @ = "send1" THEN "round1" ELSE "round2"]
    /\ UNCHANGED <<signer, relay, shares, missed>>

(* The first commitment of a signer counts.                                *)
Insert(accepted, s, n) ==
    [t \in DOMAIN accepted \cup {s} |-> IF t \in DOMAIN accepted THEN accepted[t] ELSE n]

(* Mutant: the threshold has to be exceeded.                               *)
EnoughMutant(accepted) == Cardinality(DOMAIN accepted) > Threshold

Enough(accepted) == Cardinality(DOMAIN accepted) >= Threshold

(* wait_for_round1_commitments, and at the threshold build_signing_package *)
(* and the round-2 request.                                                *)
AcceptCommitment(e) ==
    LET accepted == Insert(coordinator.accepted, e.who, e.nonce)
        package  == [message |-> coordinator.session, commitments |-> accepted]
    IN  /\ e \in relay /\ e.kind = "ROUND1_RESPONSE"
        /\ coordinator.pc = "round1" /\ e.session = coordinator.session
        /\ \/ /\ e.who \notin coordinator.active
              /\ coordinator' = [coordinator EXCEPT !.pc = "failed"]
              /\ relay' = relay \ {e}
           \/ /\ e.who \in coordinator.active
              /\ ~Enough(accepted)
              /\ coordinator' = [coordinator EXCEPT !.accepted = accepted]
              /\ relay' = relay \ {e}
           \/ /\ e.who \in coordinator.active
              /\ Enough(accepted)
              /\ coordinator' = [coordinator EXCEPT !.accepted = accepted, !.pc = "send2"]
              /\ relay' = (relay \ {e}) \cup
                              {Round2(e.session, s, package) : s \in Subscribed}
        /\ UNCHANGED <<signer, shares, missed>>

(* Mutant: one share too few is taken for all of them.                     *)
AllSharesMutant(accepted) == Cardinality(accepted) + 1 >= Cardinality(DOMAIN coordinator.accepted)

AllShares(accepted) == Cardinality(accepted) >= Cardinality(DOMAIN coordinator.accepted)

(* frost::aggregate and the verification of the signature: a share of each *)
(* signer of the package, all computed for this package.                   *)
Aggregates(accepted) ==
    /\ {e.who : e \in accepted} = DOMAIN coordinator.accepted
    /\ \A e \in accepted :
          e.signing_package = [message |-> coordinator.session, commitments |-> coordinator.accepted]

(* wait_for_round2_signature_shares, and aggregate_signature at the end.   *)
AcceptShare(e) ==
    LET again    == \E f \in coordinator.shares : f.who = e.who
        accepted == IF again THEN coordinator.shares ELSE coordinator.shares \cup {e}
    IN  /\ e \in relay /\ e.kind = "ROUND2_RESPONSE"
        /\ coordinator.pc = "round2" /\ e.session = coordinator.session
        /\ relay' = relay \ {e}
        /\ \/ /\ e.who \notin DOMAIN coordinator.accepted
              /\ coordinator' = [coordinator EXCEPT !.pc = "failed"]
           \/ /\ e.who \in DOMAIN coordinator.accepted
              /\ ~AllShares(accepted)
              /\ coordinator' = [coordinator EXCEPT !.shares = accepted]
           \/ /\ e.who \in DOMAIN coordinator.accepted
              /\ AllShares(accepted)
              /\ coordinator' =
                     IF Aggregates(accepted)
                     THEN [coordinator EXCEPT !.shares = accepted, !.pc = "ready",
                                              !.signed = @ \cup {coordinator.session}]
                     ELSE [coordinator EXCEPT !.shares = accepted, !.pc = "failed"]
        /\ UNCHANGED <<signer, shares, missed>>

(* ProvisionedSigners::shutdown aborts the tasks; web apps stay open.      *)
Shutdown ==
    /\ coordinator.pc = "ready" /\ coordinator.session = MaxSessions
    /\ coordinator' = [coordinator EXCEPT !.pc = "stopped"]
    /\ signer' = IF Interactive THEN signer ELSE [s \in Signers |-> [signer[s] EXCEPT !.pc = "off"]]
    /\ UNCHANGED <<relay, shares, missed>>

-----------------------------------------------------------------------------
(* The signers: handle_one_session, and the handlers of the web app.       *)

(* wait_for_any_round1_request, or listen_for_round1.                      *)
AwaitRound1(s) ==
    /\ signer[s].pc = "loop"
    /\ signer' = [signer EXCEPT ![s].pc = "round1"]
    /\ UNCHANGED <<coordinator, relay, shares, missed>>

(* Mutant: the nonces of the first session are kept.                       *)
FreshNonceMutant(s) == 1

(* frost::round1::commit draws new nonces each time.                       *)
FreshNonce(s) == signer[s].generated + 1

(* The request lists the signer: participant_ids.                          *)
Addressed(s) == s \in coordinator.active

(* A round-1 request arrives: a signer task answers it, the web app shows  *)
(* the button to commit.                                                   *)
ReceiveRound1(s, e) ==
    LET n == FreshNonce(s)
    IN  /\ e \in relay /\ e.kind = "ROUND1_REQUEST" /\ e.who = s
        /\ signer[s].pc = "round1"
        /\ \/ /\ ~Addressed(s)
              /\ signer' = [signer EXCEPT ![s].pc = IF Interactive THEN @ ELSE "loop"]
              /\ relay' = relay \ {e}
           \/ /\ Addressed(s) /\ Interactive
              /\ signer' = [signer EXCEPT ![s].pc = "Round1ActionRequired", ![s].session = e.session]
              /\ relay' = relay \ {e}
           \/ /\ Addressed(s) /\ ~Interactive
              /\ signer' = [signer EXCEPT ![s].pc = "commit", ![s].session = e.session,
                                          ![s].generated = n, ![s].commits = {n}]
              /\ relay' = (relay \ {e}) \cup {Commitment(e.session, s, n)}
        /\ UNCHANGED <<coordinator, shares, missed>>

(* on_commit: the button is there until the commitment has been published, *)
(* and a second click draws and publishes other nonces.                    *)
OnCommit(s) ==
    LET n == FreshNonce(s)
    IN  /\ signer[s].pc = "Round1ActionRequired"
        /\ signer[s].generated < Clicks(s, "commit")
        /\ signer' = [signer EXCEPT ![s].generated = n, ![s].commits = @ \cup {n}]
        /\ relay' = relay \cup {Commitment(signer[s].session, s, n)}
        /\ UNCHANGED <<coordinator, shares, missed>>

(* The commitment has been sent, its nonces are the ones kept, and the     *)
(* signer begins to listen for round 2, whatever the web app was doing.    *)
AwaitRound2(s, n) ==
    /\ n \in signer[s].commits
    /\ signer' = [signer EXCEPT ![s].commits = @ \ {n}, ![s].nonces = n, ![s].pc = "round2"]
    /\ UNCHANGED <<coordinator, relay, shares, missed>>

(* frost::round2::sign refuses a package without this signer's commitment, *)
(* with one to other nonces, or with too few signers.                      *)
SignOk(s, package) ==
    /\ s \in DOMAIN package.commitments
    /\ package.commitments[s] = signer[s].nonces
    /\ Cardinality(DOMAIN package.commitments) >= Threshold

(* A signature share is computed and published.                            *)
SignShare(k, s, package, events) ==
    LET share == Share(k, s, signer[s].nonces, package)
    IN  /\ relay' = events \cup {share}
        /\ shares' = shares \cup {share}

(* A round-2 request for the session arrives.                              *)
ReceiveRound2(s, e) ==
    LET selected == s \in DOMAIN e.signing_package.commitments
    IN  /\ e \in relay /\ e.kind = "ROUND2_REQUEST" /\ e.who = s
        /\ signer[s].pc = "round2" /\ e.session = signer[s].session
        /\ \/ /\ ~selected
              /\ signer' = [signer EXCEPT ![s].pc = IF Interactive THEN "Complete" ELSE "loop"]
              /\ relay' = relay \ {e} /\ UNCHANGED shares
           \/ /\ selected /\ Interactive
              /\ signer' = [signer EXCEPT ![s].pc = "Round2ActionRequired",
                                          ![s].round2_req = e.signing_package]
              /\ relay' = relay \ {e} /\ UNCHANGED shares
           \/ /\ selected /\ ~Interactive /\ SignOk(s, e.signing_package)
              /\ signer' = [signer EXCEPT ![s].pc = "loop"]
              /\ SignShare(e.session, s, e.signing_package, relay \ {e})
           \/ /\ selected /\ ~Interactive /\ ~SignOk(s, e.signing_package)
              /\ signer' = [signer EXCEPT ![s].pc = "off"]
              /\ relay' = relay \ {e} /\ UNCHANGED shares
        /\ UNCHANGED <<coordinator, missed>>

(* on_sign, which may be clicked again until the share has been published. *)
OnSign(s) ==
    LET package == signer[s].round2_req
    IN  /\ signer[s].pc = "Round2ActionRequired"
        /\ signer[s].signing < Clicks(s, "sign")
        /\ \/ /\ SignOk(s, package)
              /\ signer' = [signer EXCEPT ![s].signing = @ + 1]
              /\ SignShare(signer[s].session, s, package, relay)
           \/ /\ ~SignOk(s, package)
              /\ signer' = [signer EXCEPT ![s].pc = "Error"]
              /\ UNCHANGED <<relay, shares>>
        /\ UNCHANGED <<coordinator, missed>>

(* The share has been sent.                                                *)
ShareSent(s) ==
    /\ signer[s].signing > 0
    /\ signer' = [signer EXCEPT ![s].signing = @ - 1, ![s].pc = "Complete"]
    /\ UNCHANGED <<coordinator, relay, shares, missed>>

-----------------------------------------------------------------------------
(* The client an event arrives at is waiting for it.                       *)
Awaited(e) ==
    CASE e.kind = "SIGNER_PROVISIONED" -> coordinator.pc = "provision"
      [] e.kind = "ROUND1_REQUEST" -> signer[e.who].pc = "round1"
      [] e.kind = "ROUND1_RESPONSE" -> coordinator.pc = "round1" /\ e.session = coordinator.session
      [] e.kind = "ROUND2_REQUEST" -> signer[e.who].pc = "round2" /\ e.session = signer[e.who].session
      [] e.kind = "ROUND2_RESPONSE" -> coordinator.pc = "round2" /\ e.session = coordinator.session

(* An event arrives that its client is not waiting for, or is lost.        *)
Miss(e) ==
    /\ e \in relay
    /\ RelayLoses \/ ~Awaited(e)
    /\ relay' = relay \ {e}
    /\ missed' = IF e.session = coordinator.session
                 THEN missed \cup {Event(e.kind, e.session, e.who)} ELSE missed
    /\ UNCHANGED <<coordinator, signer, shares>>

Receive(e) ==
    \/ AcceptCommitment(e)
    \/ AcceptShare(e)
    \/ \E s \in Signers : ReceiveRound1(s, e) \/ ReceiveRound2(s, e)

SignerStep(s) == AwaitRound1(s) \/ \E n \in signer[s].commits : AwaitRound2(s, n)

FrostNext ==
    /\ UNCHANGED setting
    /\ \/ \E s \in Signers : \/ Join(s) \/ SignerProvisioned(s) \/ SignerStep(s)
                             \/ OnCommit(s) \/ OnSign(s) \/ ShareSent(s)
       \/ AwaitProvisioned \/ PressEnter \/ StartSession \/ AwaitResponses \/ Shutdown
       \/ \E e \in relay : Receive(e) \/ Miss(e)

FrostSpec == FrostInit /\ [][FrostNext]_frostVars

(* Tasks run, and events are delivered: a session has finitely many, so    *)
(* that each of them is when some always are.                              *)
FrostFairSpec ==
    /\ FrostSpec
    /\ WF_frostVars(UNCHANGED setting /\ AwaitResponses)
    /\ WF_frostVars(UNCHANGED setting /\ \E s \in Signers : SignerStep(s))
    /\ WF_frostVars(UNCHANGED setting /\ \E e \in relay : Receive(e) \/ Miss(e))

-----------------------------------------------------------------------------
(* The nonces of a signer go into shares for one signing package only: a   *)
(* signer draws new ones for every session, and does not use the old ones  *)
(* again, however requests arrive and whatever they missed.                *)
NonceUsedOnce ==
    \A a, b \in shares :
       a.who = b.who /\ a.nonce = b.nonce => a.signing_package = b.signing_package

(* sign_message_via_nostr does not return an error because of a signer     *)
(* that joined late, was not selected or was clicked twice: every          *)
(* commitment comes from an active signer, every share from a selected     *)
(* one, and the shares aggregate to a signature of the message.            *)
SessionNeverErrs == coordinator.pc # "failed"

(* Signer s did not miss the request, nor the coordinator the response.    *)
Reached(s, request, response) ==
    /\ Event(request, coordinator.session, s) \notin missed
    /\ Event(response, coordinator.session, s) \notin missed

(* A session of signer tasks ends with a signature unless events were      *)
(* missed: fewer signers than the threshold commit, or a selected one does *)
(* not sign.  (A person need not click.)                                   *)
SessionCompletes ==
    ~Interactive /\ coordinator.pc \in {"send1", "round1", "send2", "round2"} ~>
       \/ coordinator.pc \in {"ready", "stopped"} /\ coordinator.session \in coordinator.signed
       \/ Cardinality({s \in coordinator.active :
              Reached(s, "ROUND1_REQUEST", "ROUND1_RESPONSE")}) < Threshold
       \/ \E s \in DOMAIN coordinator.accepted : ~Reached(s, "ROUND2_REQUEST", "ROUND2_RESPONSE")
=============================================================================
