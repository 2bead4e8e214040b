------------------------------ MODULE MCFrames ------------------------------
(***************************************************************************)
(* Frames on a small world: a sender, a contract with a storage slot and   *)
(* some ether, a precompiled contract and an address where nothing is yet. *)
(***************************************************************************)
EXTENDS Frames

CONSTANTS alice, token, fresh, ecrec, c1

MCAddr == {alice, token, fresh, ecrec}

Empty == [nonce |-> 0, balance |-> 0, code |-> NoCode,
          storage |-> [k \in Slots |-> 0], tstorage |-> [k \in Slots |-> 0]]

MCGenesis ==
  alice :> [Empty EXCEPT !.balance = 8] @@
  token :> [Empty EXCEPT !.balance = 1, !.nonce = 1, !.code = c1,
                         !.storage = [k \in Slots |-> 1]] @@
  fresh :> NoAccount @@
  ecrec :> NoAccount

(* No fees: what the frames do to the ether is all there is to see. *)
Free == [gasLimit |-> 0, baseFee |-> 0, tip |-> 0, blobFee |-> 0,
         accessList |-> [addresses |-> {}, keys |-> {}]]
FreeTxs == {Free}

(* Gas that is bought, refunded and shared between burn and beneficiary. *)
PaidTxs ==
  {[Free EXCEPT !.gasLimit = 5, !.tip = 1],
   [Free EXCEPT !.gasLimit = 2, !.baseFee = 1, !.blobFee = 1,
                !.accessList = [addresses |-> {token}, keys |-> {token} \X Slots]]}
=============================================================================
