-------------------------- MODULE MCAlertDelivery --------------------------
(***************************************************************************)
(* AlertDelivery on small instances: two alerts, and two tabs of one user   *)
(* or of two.                                                              *)
(***************************************************************************)
EXTENDS AlertDelivery, TLC

CONSTANTS a1, a2, k1, k2, d1, d2, u1, u2

DistinctKeys == a1 :> k1 @@ a2 :> k2
OneUser == d1 :> u1 @@ d2 :> u1
TwoUsers == d1 :> u1 @@ d2 :> u2

=============================================================================
