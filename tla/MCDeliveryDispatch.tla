------------------------ MODULE MCDeliveryDispatch -------------------------
(* Two relays, and as many deliveries as the configuration names.            *)
EXTENDS DeliveryDispatch

AllFaults == {"crash", "cut", "post", "store"}
CrashOnly == {"crash"}
=============================================================================
