------------------------------- MODULE MCIsp --------------------------------
(***************************************************************************)
(* Instances for TLC of the ISP context, of the interrupt path below it,    *)
(* and of what a stream is set up with: handles, sessions and links of the  *)
(* request manager, and the device node.  A behaviour is about one of them; *)
(* the others keep their initial state.                                     *)
(***************************************************************************)
EXTENDS IspCtx, IrqTasklet, CrmLife, CamNode

VARIABLE part    \* the component this behaviour is about

MCDelay == <<2, 1>>

RtpVars == <<part, ispVars, ircVars, crlVars, nodVars>>

RtpInit ==
    /\ part \in {"isp", "irc", "crl", "nod"}
    /\ IspInit /\ (part # "isp" => ispGhost.kinds = {"rdi"})
    /\ IrcInit
    /\ CrlInit
    /\ NodInit /\ (part # "nod" => nodDev.kind = "isp")

RtpIsp ==
    /\ part = "isp" /\ IspNext
    /\ UNCHANGED <<part, ircVars, crlVars, nodVars>>

RtpIrc ==
    /\ part = "irc" /\ IrcNext
    /\ UNCHANGED <<part, ispVars, crlVars, nodVars>>

RtpCrl ==
    /\ part = "crl" /\ CrlNext
    /\ UNCHANGED <<part, ispVars, ircVars, nodVars>>

RtpNod ==
    /\ part = "nod" /\ NodNext
    /\ UNCHANGED <<part, ispVars, ircVars, crlVars>>

RtpNext ==
    \/ RtpIsp
    \/ RtpIrc
    \/ RtpCrl
    \/ RtpNod

RtpSpec == RtpInit /\ [][RtpNext]_RtpVars

=============================================================================
