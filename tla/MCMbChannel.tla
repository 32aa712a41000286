---------------------------- MODULE MCMbChannel ----------------------------
(* Instances of MbChannel for TLC.                                           *)
EXTENDS MbChannelProperties, TLC

(* A root with a single voucher of 1, a batch of two vouchers, and a root    *)
(* none of whose leaves the buyer can show.                                  *)
MCRoots == {<<>>, <<1>>, <<1, 1>>}
=============================================================================
