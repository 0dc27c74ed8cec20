---------------------------- MODULE MCDelivery -----------------------------
(* Model values for model-checking Delivery.                                *)
EXTENDS Delivery, TLC

CONSTANTS i1, i2
=============================================================================
