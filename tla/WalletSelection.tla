-------------------------- MODULE WalletSelection --------------------------
(***************************************************************************)
(* Which coins a wallet spends: select_proofs, split_proofs_for_send and   *)
(* the amounts of a send, from prepare to the token or to its cancellation.*)
(*                                                                         *)
(* A coin is its place in the purse; coins of one amount are told apart by *)
(* that place where the code leaves their order open.  The parts of an     *)
(* amount are a sequence.  The result of a call that fails is Fail.        *)
(***************************************************************************)
EXTENDS Integers, Sequences, FiniteSets, FiniteSetsExt, SequencesExt

CONSTANTS
    Purses,         \* the purses: sequences of [amount, active]
    Sends,          \* the sends: [amount, include_fee, kind, tolerance, locked]
    FeesPpk,        \* the fees of a coin, in thousandths
    Denominations,  \* those of the keyset, the largest first
    Fail

VARIABLES
    purse,   \* the coins of the wallet
    send,    \* what it is asked to send
    ppk,     \* the fee per coin
    phase,   \* "asked", "prepared", "sent", "cancelled" or "failed"
    plan,    \* Prepared: [to_send, to_swap, send_fee]
    coins,   \* the state of every coin of the purse
    token    \* the amounts of the coins that are handed over

selectionVars == <<purse, send, ppk, phase, plan, coins, token>>

(***************************************************************************)
(* Amounts and fees.                                                       *)
(***************************************************************************)
SumOf(parts) == FoldLeft(LAMBDA x, y : x + y, 0, parts)

Repeat(x, n) == [i \in 1 .. n |-> x]

(* calculate_fee, the total: rounded up once for all the coins.            *)
CountFee(n) == (ppk * n + 999) \div 1000

(* Amount::split: greedy, from the largest denomination.                   *)
Split(amount) ==
    FoldLeft(LAMBDA acc, d : acc \o Repeat(d, (amount - SumOf(acc)) \div d), <<>>, Denominations)

(* Amount::split_with_fee: the parts of an amount and of the fee to redeem *)
(* them; one more sat is tried as long as they do not cover it.            *)
RECURSIVE SplitWithFee(_)
SplitWithFee(amount) ==
    LET gross == amount + CountFee(Len(Split(amount)))
        parts == Split(gross)
    IN  IF gross - CountFee(Len(parts)) >= amount THEN parts ELSE SplitWithFee(amount + 1)

-----------------------------------------------------------------------------
(***************************************************************************)
(* Selection, over sets of coins.                                          *)
(***************************************************************************)
Coins == DOMAIN purse

Total(cs) == MapThenSumSet(LAMBDA c : purse[c].amount, cs)

Fee(cs) == CountFee(Cardinality(cs))

(* Coin c comes before coin d when the coins are sorted, largest first.    *)
Before(c, d) ==
    purse[c].amount > purse[d].amount \/ (purse[c].amount = purse[d].amount /\ c < d)

Sorted(cs) == SetToSortSeq(cs, Before)

(* The first n of the coins cs, and the last one.                          *)
FirstOf(cs, n) == ToSet(SubSeq(Sorted(cs), 1, n))
LastOf(cs) == ToSet(<<Last(Sorted(cs))>>)

(* select_least_amount_over, on a sorted sequence of coins: it is cut in   *)
(* two where one part is enough, and the smaller result is taken.          *)
RECURSIVE LeastOver(_, _)
LeastOver(seq, amount) ==
    LET Worth(s) == Total(ToSet(s))
        Left(i)  == SubSeq(seq, 1, i)
        Right(i) == SubSeq(seq, i + 1, Len(seq))
        cuts == {i \in 1 .. Len(seq) - 1 : Worth(Left(i)) >= amount \/ Worth(Right(i)) >= amount}
        cut  == Min(cuts)
    IN  IF Worth(seq) < amount THEN Fail
        ELSE IF cuts = {} THEN seq
        ELSE LET l == LeastOver(Left(cut), amount)
                 r == LeastOver(Right(cut), amount)
             IN  IF r = Fail \/ (l # Fail /\ Worth(l) < Worth(r)) THEN l ELSE r

LeastOf(cs, amount) ==
    LET l == LeastOver(Sorted(cs), amount) IN IF l = Fail THEN Fail ELSE ToSet(l)

(* select_proof: coins of the amount, or above it, not selected yet.       *)
Exact(from, selected, amount) == {c \in from \ selected : purse[c].amount = amount}
Over(from, selected, amount)  == {c \in from \ selected : purse[c].amount > amount}

(* Two coins of half the amount, or four of a quarter, and so on: what is  *)
(* selected on the way stays selected.                                     *)
RECURSIVE Halves(_, _, _, _)
Halves(from, selected, amount, n) ==
    LET half  == amount \div 2
        found == Exact(from, selected, half)
        k     == Min({Cardinality(found), n})
    IN  IF half = 0 THEN [selected |-> selected, found |-> FALSE]
        ELSE IF k = n THEN [selected |-> selected \cup FirstOf(found, n), found |-> TRUE]
        ELSE Halves(from, selected \cup found, half, 2 * (n - k))

(* An amount that no coin has: its halves, or the least coin above it.     *)
Remaining(from, selected, amount) ==
    LET h     == Halves(from, selected, amount, 2)
        exact == Exact(from, h.selected, amount)
        over  == Over(from, h.selected, amount)
    IN  h.selected \cup (IF h.found THEN {}
                         ELSE IF exact # {} THEN FirstOf(exact, 1)
                         ELSE IF over # {} THEN LastOf(over)
                         ELSE {})

(* The coins of inactive keysets, one coin for every part of the amount,   *)
(* and what is found for the parts that no coin has.                       *)
Inactive(from) == {c \in from : ~purse[c].active}

Picked(amount, from) ==
    LET parts == FoldLeft(LAMBDA acc, a :
                     LET found == Exact(from, acc.selected, a)
                     IN  IF found = {} THEN [acc EXCEPT !.left = Append(@, a)]
                         ELSE [acc EXCEPT !.selected = @ \cup FirstOf(found, 1)],
                     [selected |-> Inactive(from), left |-> <<>>], Split(amount))
    IN  [all  |-> FoldLeft(LAMBDA sel, a : Remaining(from, sel, a), parts.selected, parts.left),
         whole |-> parts.left = <<>>]


(* select_proofs without the fees.                                         *)
Chosen(amount, from) ==
    LET picked == Picked(amount, from)
    IN  IF amount = 0 THEN {}
        ELSE IF Total(from) < amount THEN Fail
        ELSE IF Total(Inactive(from)) >= amount THEN LeastOf(Inactive(from), amount)
        ELSE IF picked.whole \/ Total(picked.all) = amount \/ Cardinality(picked.all) <= 1
        THEN picked.all
        ELSE LeastOf(picked.all, amount)

(* include_fees: coins are added until they pay for the fee as well.       *)
RECURSIVE AddFees(_, _, _)
AddFees(amount, from, selected) ==
    LET net == Total(selected) - Fee(selected)
        rest == from \ selected
        extra == Chosen(amount - net, rest)
    IN  IF net >= amount THEN selected
        ELSE IF rest = {} \/ extra \in {Fail, {}} THEN Fail
        ELSE AddFees(amount, from, selected \cup extra)

(* Mutant: the fees are left to those who spend the coins.                 *)
SelectProofsMutant(amount, from, include_fees) == Chosen(amount, from)

(* select_proofs.  When the coins of inactive keysets are enough, the fees *)
(* are not looked at.                                                      *)
SelectProofs(amount, from, include_fees) ==
    LET chosen == Chosen(amount, from)
    IN  IF chosen = Fail \/ ~include_fees \/ Total(Inactive(from)) >= amount THEN chosen
        ELSE AddFees(amount, from, chosen)

-----------------------------------------------------------------------------
(***************************************************************************)
(* A send.                                                                 *)
(***************************************************************************)
Offline == send.kind \in {"OfflineExact", "OfflineTolerance"}

(* The parts of the token and the fee to redeem it.                        *)
SendAmounts == IF send.include_fee THEN SplitWithFee(send.amount) ELSE Split(send.amount)
SendFee == IF send.include_fee THEN CountFee(Len(SendAmounts)) ELSE 0

(* The coins of cs that match a part, every part matched once at most.     *)
Matching(cs, parts) ==
    FoldLeft(LAMBDA acc, a : acc \cup FirstOf(Exact(cs, acc, a), Min({1, Cardinality(Exact(cs, acc, a))})),
             {}, parts)

(* The loop of split_proofs_for_send: the smallest coins are moved from    *)
(* the token to the swap until the swap yields what is needed.  What is    *)
(* needed is not computed again.                                           *)
RECURSIVE MoveToSwap(_, _, _)
MoveToSwap(to_send, to_swap, needed) ==
    IF Total(to_swap) - Fee(to_swap) >= needed THEN [to_send |-> to_send, to_swap |-> to_swap]
    ELSE IF to_send = {} THEN Fail
    ELSE LET c == LastOf(to_send) IN MoveToSwap(to_send \ c, to_swap \cup c, needed)

(* split_proofs_for_send.                                                  *)
SplitProofsForSend(selected, exact_or_offline) ==
    LET matching == Matching(selected, SendAmounts)
        needed   == send.amount + SendFee - Total(matching)
    IN  IF send.locked THEN [to_send |-> {}, to_swap |-> selected]
        ELSE IF exact_or_offline \/ matching = selected \/ needed <= 0
        THEN [to_send |-> IF exact_or_offline THEN selected ELSE matching, to_swap |-> {}]
        ELSE MoveToSwap(matching, selected \ matching, needed)

SelectionInit ==
    /\ purse \in Purses /\ send \in Sends /\ ppk \in FeesPpk
    /\ phase = "asked"
    /\ plan = [to_send |-> {}, to_swap |-> {}]
    /\ coins = [c \in Coins |-> "Unspent"]
    /\ token = <<>>

(* The coins cs get the state st.                                          *)
Set(cs, st) == coins' = [c \in Coins |-> IF c \in cs THEN st ELSE coins[c]]

(* prepare: no coin is locked to the conditions of the token, so a locked  *)
(* token is swapped for, which needs the mint.                             *)
Selected ==
    IF send.locked /\ Offline THEN Fail
    ELSE SelectProofs(send.amount + SendFee, Coins, send.include_fee \/ send.locked)

(* An offline send is given up when the coins are not the amount, or not   *)
(* within the tolerance.                                                   *)
TooFar(cs) ==
    /\ Total(cs) # send.amount + IF send.include_fee THEN Fee(cs) ELSE 0
    /\ \/ send.kind = "OfflineExact"
       \/ send.kind = "OfflineTolerance" /\ Total(cs) - send.amount > send.tolerance

PrepareFails ==
    /\ phase = "asked"
    /\ \E selected \in {Selected} : selected # Fail => TooFar(selected)
    /\ phase' = "failed"
    /\ UNCHANGED <<purse, send, ppk, plan, coins, token>>

(* internal_prepare: the coins are reserved before they are divided up; an *)
(* error of the division leaves them so.                                   *)
InternalPrepare ==
    /\ phase = "asked"
    /\ \E selected \in {Selected} :
          /\ selected # Fail /\ ~TooFar(selected)
          /\ \E split \in {SplitProofsForSend(selected, Total(selected) = send.amount + SendFee
                                                          \/ send.kind # "OnlineExact")} :
                IF split = Fail THEN phase' = "failed" /\ UNCHANGED plan
                ELSE phase' = "prepared" /\ plan' = split
          /\ Set(selected, "Reserved")
    /\ UNCHANGED <<purse, send, ppk, token>>

(* What confirm asks of the swap, and whether create_swap finds it.        *)
SwapAmount == Max({0, send.amount + SendFee - Total(plan.to_send)})

SwapPays == Total(plan.to_swap) >= SwapAmount + Fee(plan.to_swap)

(* confirm: the swap, if there is one, and the token.  InsufficientFunds   *)
(* is no definitive failure, so nothing is compensated.                    *)
Confirm ==
    /\ phase = "prepared"
    /\ IF plan.to_swap # {} /\ ~SwapPays
       THEN phase' = "failed" /\ UNCHANGED <<coins, token>>
       ELSE /\ phase' = "sent"
            /\ token' = [i \in 1 .. Cardinality(plan.to_send) |-> purse[Sorted(plan.to_send)[i]].amount]
                           \o (IF plan.to_swap = {} THEN <<>> ELSE Split(SwapAmount))
            /\ coins' = [c \in Coins |-> CASE c \in plan.to_send -> "PendingSpent"
                                           [] c \in plan.to_swap -> "Spent"
                                           [] OTHER -> coins[c]]
    /\ UNCHANGED <<purse, send, ppk, plan>>

(* cancel.                                                                 *)
Cancel ==
    /\ phase = "prepared"
    /\ phase' = "cancelled"
    /\ Set(plan.to_send \cup plan.to_swap, "Unspent")
    /\ UNCHANGED <<purse, send, ppk, plan, token>>

SelectionNext == PrepareFails \/ InternalPrepare \/ Confirm \/ Cancel

SelectionSpec == SelectionInit /\ [][SelectionNext]_selectionVars

-----------------------------------------------------------------------------
(***************************************************************************)
(* Properties.                                                             *)
(***************************************************************************)
(* An online send that pays for the fees, from coins of active keysets, or *)
(* one that costs none, fails only if all the coins of the wallet do not   *)
(* pay for it: neither the search for coins, which never goes back, nor    *)
(* the division between token and swap misses what is there.               *)
FundsAreFound ==
    /\ phase = "failed" /\ ~Offline
    /\ ppk = 0 \/ ((send.include_fee \/ send.locked) /\ Inactive(Coins) = {})
    => Total(Coins) - Fee(Coins) < send.amount + SendFee

=============================================================================
