------------------------- MODULE MCTransferService -------------------------
(***************************************************************************)
(* Small instances of TransferService for TLC.                             *)
(***************************************************************************)
EXTENDS TransferService, TLC

CONSTANTS r1, r2, r3, alice, bob

MCUsers    == {alice, bob}
MCAccounts == 1 .. 5
\* Alice owns accounts 1 and 3, Bob 2; 4 and 5 may become fixed deposits.
MCSeedOwner   == 1 :> alice @@ 2 :> bob @@ 3 :> alice @@ 4 :> None @@ 5 :> None
MCSeedBalance == 1 :> 4 @@ 2 :> 2 @@ 3 :> 2 @@ 4 :> 0 @@ 5 :> 0
MCAmounts == {2, 4}

Transfer(u, from, to, amount) ==
    [op |-> "transfer", user |-> u, from |-> from, to |-> to, amount |-> amount]
FixedDeposit(u, from, amount) ==
    [op |-> "fixedDeposit", user |-> u, from |-> from, to |-> None,
     amount |-> amount]

\* Opposite transfers, one that only the other can fund, a deposit out of the
\* same money, and a request on somebody else's account.
MCOrders ==
    {Transfer(alice, 1, 2, 4), Transfer(bob, 2, 1, 4), Transfer(alice, 3, 1, 2),
     FixedDeposit(alice, 1, 2), Transfer(bob, 1, 2, 2)}

\* Half a cent and one cent and a half: 0.005 and 0.015.
MCHalfAmounts == {1, 3}
MCHalfOrders  == {Transfer(alice, 1, 2, 1), Transfer(bob, 2, 1, 3)}

MCSymmetry == Permutations({r1, r2, r3})
=============================================================================
