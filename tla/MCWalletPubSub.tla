--------------------------- MODULE MCWalletPubSub ---------------------------
(* Instances of WalletPubSub.                                              *)
EXTENDS WalletPubSub

CONSTANTS u1, u2
=============================================================================
