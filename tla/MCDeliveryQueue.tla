----------------------------- MODULE MCDeliveryQueue -----------------------------
(* Small instances of DeliveryQueue: see the .cfg files. *)
EXTENDS DeliveryQueue

===============================================================================
