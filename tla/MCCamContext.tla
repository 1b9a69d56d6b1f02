---------------------------- MODULE MCCamContext ----------------------------
(* Two request objects and two requests, the first with two in fences.  One fault per
   driver: hw_config fails (ICP), a callback cannot be registered (JPEG), the packet
   does not parse (FD, LRME). *)
EXTENDS CamContext

MCNin == <<2, 1>>
MCCtxBudgets == {[kind |-> "icp", cfg |-> 1, reg |-> 0, parse |-> 0],
                 [kind |-> "jpeg", cfg |-> 0, reg |-> 1, parse |-> 0],
                 [kind |-> "fd", cfg |-> 0, reg |-> 0, parse |-> 1]}
=============================================================================
