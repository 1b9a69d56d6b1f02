----------------------------- MODULE MCProgress -----------------------------
(***************************************************************************)
(* Instances for TLC of the components with progress properties: the fence *)
(* table, the work queue, a link being torn down, and the JPEG manager.  A *)
(* behaviour is about one of them; the others keep their initial state, in *)
(* which no action that must be fair is enabled.                           *)
(***************************************************************************)
EXTENDS CamSync, CrmWorkq, CrmTear, JpegMgr

VARIABLE part    \* the component this behaviour is about

\* Priority 0, which every caller in the drivers passes, and values out of range.
DriverPrioArgs == {-1, CRM_TASK_PRIORITY_0, CRM_TASK_PRIORITY_MAX}

PrgVars == <<part, vars, wqVars, crtVars, jpgVars>>

PrgInit ==
    /\ part \in {"sync", "workq", "crt", "jpeg"}
    /\ Init
    /\ WqInit
    /\ CrtInit
    /\ JpgInit

PrgSync ==
    /\ part = "sync" /\ Next
    /\ UNCHANGED <<part, wqVars, crtVars, jpgVars>>

PrgWorkq ==
    /\ part = "workq" /\ WqNext
    /\ UNCHANGED <<part, vars, crtVars, jpgVars>>

PrgCrt ==
    /\ part = "crt" /\ CrtNext
    /\ UNCHANGED <<part, vars, wqVars, jpgVars>>

PrgJpeg ==
    /\ part = "jpeg" /\ JpgNext
    /\ UNCHANGED <<part, vars, wqVars, crtVars>>

PrgNext ==
    \/ PrgSync
    \/ PrgWorkq
    \/ PrgCrt
    \/ PrgJpeg

PrgSpec == PrgInit /\ [][PrgNext]_PrgVars /\ Fairness /\ WqFairness /\ CrtFair /\ JpgFair

=============================================================================
