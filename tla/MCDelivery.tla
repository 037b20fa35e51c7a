----------------------------- MODULE MCDelivery -----------------------------
(* Two consumers of one group.                                              *)
EXTENDS Delivery

CONSTANTS c1, c2, e1
TwoConsumers == {c1, c2}
OneItem == {e1}
=============================================================================
