------------------------------- MODULE MCIfe --------------------------------
(***************************************************************************)
(* Instances for TLC of the IFE: the hardware manager and its events, the   *)
(* CSID, and the VFE's muxes and bus.  A behaviour is about one of them;    *)
(* the others keep their initial state.                                     *)
(***************************************************************************)
EXTENDS CsidHw, IfeHwMgr, VfeHw

VARIABLE part    \* the component this behaviour is about

\* IfeHwMgr: what a port asks for.
MCPix(d) == [paths |-> <<"ipp">>, dual |-> d, core |-> 0, rd |-> FALSE]
MCRdi == [paths |-> <<"rdi0">>, dual |-> FALSE, core |-> 0, rd |-> FALSE]
MCRd == [paths |-> <<>>, dual |-> FALSE, core |-> 0, rd |-> TRUE]
MCAsks == {<<MCPix(TRUE)>>,
           <<[MCPix(FALSE) EXCEPT !.paths = <<"ipp", "rdi0">>, !.core = 1]>>,
           <<MCRdi, MCPix(TRUE)>>, <<MCRdi, MCRd>>}

\* IfeHwMgr, bottom half: a dual pixel context beside one of two RDIs.
MCSrcs == << <<[id |-> "camif", hw |-> <<0, 1>>], [id |-> "rdi1", hw |-> <<0>>]>>,
             <<[id |-> "rdi0", hw |-> <<1>>], [id |-> "rdi1", hw |-> <<1>>]>> >>
MCBits == {{<<"camif", "sof">>},
           {<<"camif", "epoch">>, <<"camif", "eof">>, <<"camif", "rup">>,
            <<"rdi0", "rup">>, <<"rdi1", "rup">>},
           {<<"rdi0", "sof">>, <<"rdi1", "sof">>}}

\* VfeHw: the muxes of each context, and the outputs it asks for.
MCMuxes == << <<"camif", "lite">>, <<"rdi">> >>
MCAsk(o, w, g) == [out |-> o, wms |-> w, grp |-> g, dual |-> FALSE, master |-> FALSE,
                   cap |-> FALSE, sec |-> 0, ok |-> TRUE]
MCFull(s) == [MCAsk(1, <<3, 4>>, 1) EXCEPT !.cap = TRUE, !.sec = s]
MCRdiBad == [MCAsk(4, <<0>>, 0) EXCEPT !.cap = TRUE, !.sec = 1, !.ok = FALSE]
MCSlave == [MCAsk(5, <<9>>, 2) EXCEPT !.dual = TRUE]
MCPorts == << {MCFull(0), MCAsk(2, <<10>>, 1), MCRdiBad},
              {MCSlave, MCFull(1), MCAsk(2, <<10>>, 0), MCAsk(3, <<10>>, 0)} >>
MCSingle == <<1>>
MCDualG == <<2>>

\* The hardware manager and the events it makes of interrupts (cam_ife_hw_mgr.c): what is
\* powered, acquired and streaming is what its contexts asked for, and each context hears
\* of every frame once.
IfeSafe == IfmSafe /\ IfvSafe

IfeVars == <<part, csdVars, ifmVars, ifaVars, ifvVars, vftVars, vfbVars>>

IfeInit ==
    /\ part \in {"csd", "ifm", "ifa", "ifv", "vft", "vfb"}
    /\ CsdInit
    /\ IfmInit
    /\ IfaInit
    /\ IfvInit
    /\ VftInit
    /\ VfbInit

IfeCsd ==
    /\ part = "csd" /\ CsdNext
    /\ UNCHANGED <<part, ifmVars, ifaVars, ifvVars, vftVars, vfbVars>>

IfeIfm ==
    /\ part = "ifm" /\ IfmNext
    /\ UNCHANGED <<part, csdVars, ifaVars, ifvVars, vftVars, vfbVars>>

IfeIfa ==
    /\ part = "ifa" /\ IfaNext
    /\ UNCHANGED <<part, csdVars, ifmVars, ifvVars, vftVars, vfbVars>>

IfeIfv ==
    /\ part = "ifv" /\ IfvNext
    /\ UNCHANGED <<part, csdVars, ifmVars, ifaVars, vftVars, vfbVars>>

IfeVft ==
    /\ part = "vft" /\ VftNext
    /\ UNCHANGED <<part, csdVars, ifmVars, ifaVars, ifvVars, vfbVars>>

IfeVfb ==
    /\ part = "vfb" /\ VfbNext
    /\ UNCHANGED <<part, csdVars, ifmVars, ifaVars, ifvVars, vftVars>>

IfeNext ==
    \/ IfeCsd
    \/ IfeIfm
    \/ IfeIfa
    \/ IfeIfv
    \/ IfeVft
    \/ IfeVfb

IfeSpec == IfeInit /\ [][IfeNext]_IfeVars

=============================================================================
