---------------------------- MODULE MCComponents ----------------------------
(***************************************************************************)
(* Three components that need no other, checked side by side: what the     *)
(* mint and the wallet make of spending conditions (SpendingConditions),   *)
(* the coins that a wallet selects for a send (WalletSelection), and the   *)
(* pool of database connections (ConnectionPool).  A behaviour is of one   *)
(* of them.                                                                *)
(***************************************************************************)
EXTENDS SpendingConditions, WalletSelection, ConnectionPool

CONSTANTS k1, k2, k3, h1, p1, bad

VARIABLE part

Tags(locktime, pubkeys, refund, n, nr, all) ==
    [ok |-> TRUE, locktime |-> locktime, pubkeys |-> pubkeys, refund |-> refund, num_sigs |-> n,
     num_sigs_refund |-> nr, sig_all |-> all]

NoTags == Tags(None, None, None, None, None, FALSE)

P2PK(k, tags) == [kind |-> "P2PK", data |-> k, tags |-> tags]
HTLC(x, tags) == [kind |-> "HTLC", data |-> x, tags |-> tags]

(* One of the preimages hashes to h1, the other to nothing that is used.    *)
MCHash(x) == IF x = p1 THEN h1 ELSE None

(* The secrets: locked to keys or to a hash, with and without locktime,     *)
(* refund keys and SIG_ALL, and one whose conditions do not parse.          *)
Table == <<
  [kind |-> "plain", data |-> None, tags |-> NoTags],         \* 1
  P2PK(k1, NoTags),                                           \* 2
  P2PK(k1, Tags(0, <<k2>>, <<k3>>, 2, None, FALSE)),          \* 3
  P2PK(k1, Tags(0, None, None, None, None, FALSE)),           \* 4
  HTLC(h1, Tags(0, <<k1>>, <<k2>>, None, None, FALSE)),       \* 5
  HTLC(h1, Tags(0, <<>>, <<k2, k3>>, None, 2, FALSE)),        \* 6
  P2PK(k1, [NoTags EXCEPT !.ok = FALSE]),                     \* 7
  P2PK(k1, Tags(0, <<k2>>, <<k3>>, 2, None, TRUE)),           \* 8
  P2PK(k1, Tags(0, <<k2>>, <<k3>>, 2, None, TRUE)),           \* 9
  P2PK(k1, Tags(0, <<k2>>, <<k3>>, 1, None, TRUE)),           \* 10
  HTLC(h1, Tags(0, <<k1, k2>>, <<k3>>, 2, None, TRUE)),       \* 11
  HTLC(h1, Tags(0, <<k1, k2>>, <<k3>>, 2, None, TRUE)),       \* 12
  HTLC(h1, Tags(0, <<k1>>, None, None, None, TRUE))           \* 13
  >>

MCContent(s) == Table[s]

(* The inputs of a request: mixed, alike, and such as must not be mixed.    *)
MCRequests ==
    {<<1, 3>>, <<4>>, <<5, 2>>, <<6>>, <<7>>, <<8, 9>>, <<10, 8>>, <<11, 12>>, <<2, 8>>, <<13>>, <<1, 8>>}

(***************************************************************************)
(* The purses: up to five coins of active keysets, up to three of both     *)
(* kinds; the order of the coins of a purse does not matter.               *)
(***************************************************************************)
Coin(amount, active) == [amount |-> amount, active |-> active]

Descending(n, kinds) ==
    {q \in [1 .. n -> kinds] : \A i \in 1 .. n - 1 : q[i].amount >= q[i + 1].amount}

MCPurses ==
    UNION {Descending(n, {Coin(x, TRUE) : x \in {1, 2, 4, 8}}) : n \in 1 .. 5}
        \cup UNION {Descending(n, {Coin(x, y) : x \in {2, 4}, y \in BOOLEAN}) : n \in 1 .. 3}

(* Tokens with and without their fee, locked or not, of every SendKind.     *)
MCSends ==
    [amount : 1 .. 11, include_fee : BOOLEAN, kind : {"OnlineExact", "OfflineExact"},
     tolerance : {0}, locked : BOOLEAN]
        \cup [amount : 1 .. 11, include_fee : BOOLEAN,
              kind : {"OnlineTolerance", "OfflineTolerance"}, tolerance : {1}, locked : {FALSE}]

MCDenominations == <<16, 8, 4, 2, 1>>

(***************************************************************************)
(* The specification.                                                      *)
(***************************************************************************)
SpendIdle ==
    /\ now = 0 /\ inputs = <<>> /\ outs = 0 /\ verdict = None /\ signed = {} /\ revealed = {}

SelectionIdle ==
    /\ purse = <<>> /\ send = None /\ ppk = 0 /\ phase = "idle" /\ plan = None /\ coins = <<>>
    /\ token = <<>>

PoolIdle ==
    /\ driver = "none" /\ queue = <<>> /\ in_use = 0
    /\ task = [t \in Tasks |-> "idle"] /\ stale = [t \in Tasks |-> FALSE]

Init ==
    \/ part = "spend" /\ SpendInit /\ SelectionIdle /\ PoolIdle
    \/ part = "select" /\ SelectionInit /\ SpendIdle /\ PoolIdle
    \/ part = "pool" /\ PoolInit /\ SpendIdle /\ SelectionIdle

Next ==
    /\ UNCHANGED part
    /\ \/ part = "spend" /\ SpendNext /\ UNCHANGED <<selectionVars, poolVars>>
       \/ part = "select" /\ SelectionNext /\ UNCHANGED <<spendVars, poolVars>>
       \/ part = "pool" /\ PoolNext /\ UNCHANGED <<spendVars, selectionVars>>

Spec == Init /\ [][Next]_<<part, spendVars, selectionVars, poolVars>>
=============================================================================
