----------------------------- MODULE MCClaimTx ------------------------------
(***************************************************************************)
(* An instance of ClaimTx for TLC: requests racing on one session with the *)
(* same claim, a higher one, one above the deposit and one whose nonce     *)
(* does not fit its column.                                                *)
(***************************************************************************)
EXTENDS ClaimTx

MCClaim(cumulative, nonce) ==
    [session |-> "s1", cumulative |-> cumulative, nonce |-> nonce,
     expires |-> 5]

MCClaims == {MCClaim(1, 1), MCClaim(2, 2), MCClaim(3, 3), MCClaim(2, 9)}
=============================================================================
