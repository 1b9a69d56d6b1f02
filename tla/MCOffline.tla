----------------------------- MODULE MCOffline ------------------------------
(***************************************************************************)
(* Instances for TLC of the offline engines: JPEG, face detection, LRME,   *)
(* the ICP (queues to the firmware, manager, clock votes) and the CDM.  A  *)
(* behaviour is about one of them; the others keep their initial state.    *)
(***************************************************************************)
EXTENDS JpegMgr, FdMgr, LrmeMgr, HfiRing, IcpMgr, CamCdm

VARIABLE part    \* the component this behaviour is about

MCPkts == {<<1>>, <<2, 2, 1>>}
MCRates == <<2, 4, 6>>
MCLoads == {<<0, 1>>, <<1, 3>>, <<3, 1>>}

OffVars == <<part, jpgVars, fdVars, lrVars, hfiVars, icpVars, ickVars, cdfVars, cdcVars>>

OffInit ==
    /\ part \in {"jpeg", "fd", "lrme", "hfi", "icp", "icpclk", "cdf", "cdc"}
    /\ JpgInit
    /\ FdInit
    /\ LrInit
    /\ HfiInit
    /\ \A i \in DOMAIN hfiCmd : hfiCmd[i] = 1
    /\ \A i \in DOMAIN hfiMsg : hfiMsg[i] = 1
    /\ IcpInit
    /\ IckInit
    /\ CdfInit
    /\ CdcInit

OffJpeg ==
    /\ part = "jpeg" /\ JpgNext
    /\ UNCHANGED <<part, fdVars, lrVars, hfiVars, icpVars, ickVars, cdfVars, cdcVars>>

OffFd ==
    /\ part = "fd" /\ FdNext
    /\ UNCHANGED <<part, jpgVars, lrVars, hfiVars, icpVars, ickVars, cdfVars, cdcVars>>

OffLrme ==
    /\ part = "lrme" /\ LrNext
    /\ UNCHANGED <<part, jpgVars, fdVars, hfiVars, icpVars, ickVars, cdfVars, cdcVars>>

OffHfi ==
    /\ part = "hfi" /\ HfiNext
    /\ UNCHANGED <<part, jpgVars, fdVars, lrVars, icpVars, ickVars, cdfVars, cdcVars>>

OffIcp ==
    /\ part = "icp" /\ IcpNext
    /\ UNCHANGED <<part, jpgVars, fdVars, lrVars, hfiVars, ickVars, cdfVars, cdcVars>>

OffIcpclk ==
    /\ part = "icpclk" /\ IckNextStep
    /\ UNCHANGED <<part, jpgVars, fdVars, lrVars, hfiVars, icpVars, cdfVars, cdcVars>>

OffCdf ==
    /\ part = "cdf" /\ CdfNext
    /\ UNCHANGED <<part, jpgVars, fdVars, lrVars, hfiVars, icpVars, ickVars, cdcVars>>

OffCdc ==
    /\ part = "cdc" /\ CdcNext
    /\ UNCHANGED <<part, jpgVars, fdVars, lrVars, hfiVars, icpVars, ickVars, cdfVars>>

OffNext ==
    \/ OffJpeg
    \/ OffFd
    \/ OffLrme
    \/ OffHfi
    \/ OffIcp
    \/ OffIcpclk
    \/ OffCdf
    \/ OffCdc

OffSpec == OffInit /\ [][OffNext]_OffVars

=============================================================================
