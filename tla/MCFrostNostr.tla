---------------------------- MODULE MCFrostNostr ----------------------------
(* Instances of FrostNostr: the default group of two out of three.         *)
EXTENDS FrostNostr

CONSTANTS s1, s2, s3

(* Two sessions of signer tasks over relays that lose events.              *)
Tasks ==
    [interactive |-> FALSE, sessions |-> 2, present |-> Signers, hasty |-> {}, loses |-> TRUE]

(* One session with the web app; one person clicks a button twice.         *)
Web(people, button) ==
    [interactive |-> TRUE, sessions |-> 1, present |-> people, hasty |-> {<<s1, button>>},
     loses |-> FALSE]

MCSettings == {Tasks, Web({s1, s2}, "commit"), Web(Signers, "sign")}
=============================================================================
