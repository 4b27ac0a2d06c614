------------------------------ MODULE MCChain -------------------------------
(* The local test net: two authorities, and two extrinsics of one nonce. *)
EXTENDS Chain

CONSTANTS alice, bob

MCTx == {[who |-> "buyer", nonce |-> 0, call |-> "buy_product"],
         [who |-> "buyer", nonce |-> 0, call |-> "redeem_product"]}
MCNode == {alice, bob}
=============================================================================
