----------------------------- MODULE MCCrmLink ------------------------------
(* Instances of the link for TLC. *)
EXTENDS CrmLink

CONSTANTS sensor, isp, flash

SensorIsp == <<sensor, isp>>
PdApart == [d \in {sensor, isp, flash} |-> IF d = sensor THEN 2 ELSE 1]
OnSof == [d \in {sensor, isp, flash} |-> {"SOF"}]
NoDelay == [d \in {sensor, isp, flash} |-> [delay |-> 0, next |-> FALSE]]
SensorIspFlash == <<sensor, isp, flash>>
FlashDelays == [d \in {sensor, isp, flash} |->
    [delay |-> IF d = flash THEN 1 ELSE 0, next |-> d = flash]]
OnEof == [d \in {sensor, isp, flash} |-> {IF d = flash THEN "EOF" ELSE "SOF"}]
AllReqs == Reqs

\* f failing calls, b bubbles, l lost notices, a flushes of all, c cancellations.
Budget(f, b, l, a, c) ==
    [fails |-> f, bubbles |-> b, lost |-> l,
     flushes |-> [type \in FlushTypes |-> IF type = "ALL" THEN a ELSE c]]
BubblesOrLost == {Budget(0, 2, 0, 0, 0), Budget(0, 0, 2, 0, 0)}
FlushAndBubble == {Budget(0, 1, 0, 1, 0), Budget(0, 1, 0, 0, 1)}
OneFailure == {Budget(1, 0, 0, 0, 0)}
=============================================================================
