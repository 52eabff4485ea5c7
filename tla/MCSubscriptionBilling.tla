------------------------- MODULE MCSubscriptionBilling -------------------------
(* One subscription whose term ends at once and is worth two ticks when    *)
(* renewed, a grace of one tick, two sweeps or admin requests at a time,   *)
(* and room for two renewals and a manual invoice.                         *)
EXTENDS SubscriptionBilling
================================================================================
