------------------------------ MODULE IfeHwMgr ------------------------------
(***************************************************************************)
(* The IFE hardware manager (cam_ife_hw_mgr.c) and the power count of the   *)
(* VFE core its contexts share (cam_vfe_core.c): acquire, start, stop,      *)
(* flush (stop-only, reset, start-only), release, and the recovery from an  *)
(* overflow that runs in a work queue beside them.                          *)
(*                                                                         *)
(* A context is driven by one thread; different contexts and the recovery   *)
(* worker interleave.  Resources are the layers "cid", "csidL" (and "csidR" *)
(* for a dual context), "src", "out"; src and out live in the shared core   *)
(* and each of them opens and closes it.                                    *)
(***************************************************************************)
EXTENDS Integers, FiniteSets, SequencesExt, Functions

CONSTANTS IfmCtxs,      \* contexts of the manager, all on one VFE core
          IfmDual,      \* those that use two CSIDs
          IfmAcqs,      \* bound: acquires
          IfmStarts,    \* bound: full starts
          IfmErrs,      \* bound: overflow errors
          IfmMishaps    \* bound: flushes and failing calls into hardware and services

VARIABLES ifmT,         \* the thread of each context: [pc, todo, then, ret]
          ifmCtx,       \* the contexts
          ifmMgr,       \* [mutex, active, lut]
          ifmCore,      \* the VFE core: [open, soc, up]; up is hw_state
          ifmWork,      \* the recovery worker: [pc, left, all] and its queue
          ifmG          \* history and bounds

ifmVars == <<ifmT, ifmCtx, ifmMgr, ifmCore, ifmWork, ifmG>>

IfmVfe == <<"src", "out">>
IfmAll(c) == {"cid", "csidL", "src", "out"} \union (IF c \in IfmDual THEN {"csidR"} ELSE {})

\* The order in which cam_ife_mgr_acquire_hw_for_ctx reserves.
IfmOrder(c) == IF c \in IfmDual THEN <<"cid", "csidL", "csidR", "src", "out">>
                                ELSE <<"cid", "csidL", "src", "out">>

IfmAt(c, p) == ifmT[c].pc = p
IfmGo(c, p) == ifmT' = [ifmT EXCEPT ![c].pc = p]
IfmRun(c, p, todo, then) == ifmT' = [ifmT EXCEPT ![c].pc = p, ![c].todo = todo, ![c].then = then]
IfmRoom == ifmG.flushes + ifmG.faults < IfmMishaps

IfmFree == [use |-> FALSE, init |-> FALSE, cdm |-> "none", res |-> {}, hw |-> {},
            run |-> {}, tl |-> FALSE, pend |-> FALSE]

-----------------------------------------------------------------------------
(* Acquire and release. *)

\* cam_ife_hw_mgr_get_ctx
IfmGetCtx(c) ==
  /\ IfmAt(c, "free") /\ ifmMgr.mutex = 0 /\ ifmG.acqs < IfmAcqs
  /\ IfmGo(c, "acq")
  /\ ifmG' = [ifmG EXCEPT !.acqs = @ + 1]
  /\ UNCHANGED <<ifmCtx, ifmMgr, ifmCore, ifmWork>>

\* What the failed reservation at position k of the order leaves: everything on
\* the context's lists is released (cam_ife_hw_mgr_release_hw_for_ctx), but the
\* left path of a dual context is on no list until the right one is reserved.
IfmLeft(c, k) == IF c \in IfmDual /\ IfmOrder(c)[k] = "csidR" THEN {"csidL"} ELSE {}

\* cam_ife_mgr_acquire_hw, a failing step: k = 0 is the CDM.
IfmAcquireFails(c, k) ==
  /\ IfmAt(c, "acq")
  /\ (k > 0 /\ IfmOrder(c)[k] \in ifmCtx[c].hw) \/ IfmRoom
  /\ \A j \in 1..(k - 1) : IfmOrder(c)[j] \notin ifmCtx[c].hw
  /\ ifmCtx' = [ifmCtx EXCEPT ![c].hw = @ \union (IF k = 0 THEN {} ELSE IfmLeft(c, k))]
  /\ ifmG' = [ifmG EXCEPT
       !.faults = IF k > 0 /\ IfmOrder(c)[k] \in ifmCtx[c].hw THEN @ ELSE @ + 1,
       !.leak = @ \union (IF k > 0 /\ IfmOrder(c)[k] = "csidR" THEN {c} ELSE {})]
  /\ IfmGo(c, "putfree")
  /\ UNCHANGED <<ifmMgr, ifmCore, ifmWork>>

IfmAcquire(c) ==
  /\ IfmAt(c, "acq") /\ ifmCtx[c].hw = {}
  /\ ifmCtx' = [ifmCtx EXCEPT ![c] = [IfmFree EXCEPT !.use = TRUE, !.cdm = "held",
                                      !.res = IfmAll(c), !.hw = IfmAll(c)]]
  /\ IfmGo(c, "putused")
  /\ UNCHANGED <<ifmMgr, ifmCore, ifmWork, ifmG>>

\* cam_ife_hw_mgr_put_ctx, on the list the caller names
IfmPutCtx(c) ==
  /\ ifmT[c].pc \in {"putfree", "putused"} /\ ifmMgr.mutex = 0
  /\ IfmGo(c, IF IfmAt(c, "putfree") THEN "free" ELSE "ready")
  /\ UNCHANGED <<ifmCtx, ifmMgr, ifmCore, ifmWork, ifmG>>

\* cam_ife_mgr_release_hw: a context still initialised is deinitialised first.
IfmRelease(c) ==
  /\ IfmAt(c, "ready")
  /\ IfmRun(c, "close", IF ifmCtx[c].init THEN IfmVfe ELSE <<>>, "rel")
  /\ UNCHANGED <<ifmCtx, ifmMgr, ifmCore, ifmWork, ifmG>>

IfmReleased(c) ==
  /\ IfmAt(c, "rel")
  /\ ifmCtx' = [ifmCtx EXCEPT ![c] = [IfmFree EXCEPT !.hw = ifmCtx[c].hw \ ifmCtx[c].res,
                                      !.run = ifmCtx[c].run, !.tl = ifmCtx[c].tl]]
  /\ IfmGo(c, "putfree")
  /\ UNCHANGED <<ifmMgr, ifmCore, ifmWork, ifmG>>

-----------------------------------------------------------------------------
(* The VFE core. *)

\* cam_vfe_init_hw, the count: a core that is open already is taken as ready.
\* open_count is unsigned: below zero stands for the top of its range.
IfmOpen(c) ==
  /\ IfmAt(c, "open") /\ ifmT[c].todo # <<>>
  /\ ifmCore' = [ifmCore EXCEPT !.open = @ + 1]
  /\ ifmG' = [ifmG EXCEPT !.opens[c] = @ + 1]
  /\ IF ifmCore.open \notin {-1, 0} THEN IfmRun(c, "open", Tail(ifmT[c].todo), "")
                         ELSE IfmGo(c, "power")
  /\ UNCHANGED <<ifmCtx, ifmMgr, ifmWork>>

\* cam_vfe_init_hw, the first opener: power, reset, bus, top, hw_state.
IfmPowerUp(c) ==
  /\ IfmAt(c, "power") /\ ~ifmCore.soc
  /\ ifmCore' = [ifmCore EXCEPT !.soc = TRUE, !.up = TRUE]
  /\ IfmRun(c, "open", Tail(ifmT[c].todo), "")
  /\ UNCHANGED <<ifmCtx, ifmMgr, ifmWork, ifmG>>

IfmCountBack == ifmCore.open - 1

\* The first opener fails, as it must while a closing thread still holds the
\* power (cam_cpas_start refuses a started client); whoever counted itself in
\* meanwhile is left without.
IfmPowerFails(c) ==
  /\ IfmAt(c, "power") /\ (ifmCore.soc \/ IfmRoom)
  /\ ifmCore' = [ifmCore EXCEPT !.open = IfmCountBack]
  /\ ifmG' = [ifmG EXCEPT !.opens[c] = @ - 1, !.short = @ \/ ifmCore.open > 1,
                          !.faults = IF ifmCore.soc THEN @ ELSE @ + 1]
  /\ ifmCtx' = [ifmCtx EXCEPT ![c].init = TRUE]
  /\ IfmRun(c, "close", IfmVfe, "tlstop")
  /\ UNCHANGED <<ifmMgr, ifmWork>>

IfmLast == ifmCore.open = 1

\* cam_vfe_deinit_hw for the next resource: refused when the core is closed,
\* only counted when others are left.
IfmClose(c) ==
  /\ IfmAt(c, "close") /\ ifmT[c].todo # <<>>
  /\ IF ifmCore.open = 0
     THEN UNCHANGED <<ifmCore, ifmG>>
     ELSE /\ ifmCore' = [ifmCore EXCEPT !.open = @ - 1]
          /\ ifmG' = [ifmG EXCEPT !.opens[c] = IF @ > 0 THEN @ - 1 ELSE @,
                                  !.short = @ \/ ifmG.opens[c] = 0]
  /\ IF IfmLast THEN IfmGo(c, "down")
                         ELSE IfmRun(c, "close", Tail(ifmT[c].todo), ifmT[c].then)
  /\ UNCHANGED <<ifmCtx, ifmMgr, ifmWork>>

\* The last one: the power first, hw_state after it, neither under the mutex.
IfmPowerDown(c) ==
  /\ IfmAt(c, "down")
  /\ ifmCore' = [ifmCore EXCEPT !.soc = FALSE]
  /\ IfmGo(c, "state")
  /\ UNCHANGED <<ifmCtx, ifmMgr, ifmWork, ifmG>>

IfmStateDown(c) ==
  /\ IfmAt(c, "state")
  /\ ifmCore' = [ifmCore EXCEPT !.up = FALSE]
  /\ IfmRun(c, "close", Tail(ifmT[c].todo), ifmT[c].then)
  /\ UNCHANGED <<ifmCtx, ifmMgr, ifmWork, ifmG>>

\* The end of cam_ife_hw_mgr_deinit_hw
IfmClosed(c) ==
  /\ IfmAt(c, "close") /\ ifmT[c].todo = <<>>
  /\ ifmCtx' = [ifmCtx EXCEPT ![c].init = FALSE]
  /\ IfmGo(c, ifmT[c].then)
  /\ UNCHANGED <<ifmMgr, ifmCore, ifmWork, ifmG>>

-----------------------------------------------------------------------------
(* Start. *)

\* cam_ife_mgr_start_hw, up to the initialisation
IfmStart(c) ==
  /\ IfmAt(c, "ready") /\ ifmG.starts < IfmStarts
  /\ ifmCtx' = [ifmCtx EXCEPT ![c].tl = TRUE]
  /\ ifmT' = [ifmT EXCEPT ![c] = [pc |-> "csid", todo |-> IfmVfe, then |-> "", ret |-> "ready"]]
  /\ ifmG' = [ifmG EXCEPT !.starts = @ + 1]
  /\ UNCHANGED <<ifmMgr, ifmCore, ifmWork>>

\* cam_ife_hw_mgr_init_hw: the CSIDs come first; when one fails every resource
\* of the context is deinitialised, those never initialised too.
IfmCsidInit(c) ==
  /\ IfmAt(c, "csid")
  /\ \/ /\ IfmGo(c, "open")
        /\ UNCHANGED <<ifmCtx, ifmG>>
     \/ /\ IfmRoom
        /\ ifmG' = [ifmG EXCEPT !.faults = @ + 1]
        /\ ifmCtx' = [ifmCtx EXCEPT ![c].init = TRUE]
        /\ IfmRun(c, "close", IfmVfe, "tlstop")
  /\ UNCHANGED <<ifmMgr, ifmCore, ifmWork>>

IfmInitDone(c) ==
  /\ IfmAt(c, "open") /\ ifmT[c].todo = <<>>
  /\ ifmCtx' = [ifmCtx EXCEPT ![c].init = TRUE]
  /\ IfmGo(c, "count")
  /\ UNCHANGED <<ifmMgr, ifmCore, ifmWork, ifmG>>

\* active_ctx_cnt and the safe LUT, under ctx_mutex; a refused LUT jumps out with
\* the mutex held and the context counted.
IfmCount(c) ==
  /\ IfmAt(c, "count") /\ ifmMgr.mutex = 0
  /\ \/ /\ ifmMgr' = [ifmMgr EXCEPT !.active = @ + 1, !.lut = @ \/ ifmMgr.active = 0]
        /\ ifmG' = [ifmG EXCEPT !.counted = @ \union {c}]
        /\ IfmGo(c, "cdmon")
     \/ /\ ifmMgr.active = 0 /\ IfmRoom
        /\ ifmMgr' = [ifmMgr EXCEPT !.active = @ + 1, !.mutex = c]
        /\ ifmG' = [ifmG EXCEPT !.faults = @ + 1, !.odd = TRUE]
        /\ IfmRun(c, "close", IfmVfe, "tlstop")
  /\ UNCHANGED <<ifmCtx, ifmCore, ifmWork>>

\* The stream-on of the CDM and the initial packet (cam_ife_mgr_config_hw, which
\* refuses a context with an overflow pending).  A failure turns the LUT off,
\* whoever else streams, and leaves the context counted.
IfmFirstConfig(c) ==
  /\ IfmAt(c, "cdmon")
  /\ \/ /\ ~ifmCtx[c].pend
        /\ ifmCtx' = [ifmCtx EXCEPT ![c].cdm = "on"]
        /\ IfmGo(c, "start")
        /\ UNCHANGED <<ifmMgr, ifmG>>
     \/ /\ IfmRoom \/ ifmCtx[c].pend
        /\ ifmMgr' = [ifmMgr EXCEPT !.lut = FALSE]
        /\ ifmG' = [ifmG EXCEPT !.odd = TRUE, !.counted = @ \ {c},
                                !.faults = IF ifmCtx[c].pend THEN @ ELSE @ + 1]
        /\ IfmRun(c, "close", IfmVfe, "tlstop")
        /\ UNCHANGED ifmCtx
  /\ UNCHANGED <<ifmCore, ifmWork>>

IfmTlStop(c) ==
  /\ IfmAt(c, "tlstop")
  /\ ifmCtx' = [ifmCtx EXCEPT ![c].tl = FALSE]
  /\ IfmGo(c, "ready")
  /\ UNCHANGED <<ifmMgr, ifmCore, ifmWork, ifmG>>

\* Outputs, sources, CSID paths, CIDs, in this order; cam_vfe_top_start refuses
\* a source while hw_state is not POWER_UP.  A failure stops the context fully.
IfmStartRes(c) ==
  /\ IfmAt(c, "start")
  /\ \/ /\ ifmCore.up
        /\ ifmCtx' = [ifmCtx EXCEPT ![c].run = {"out", "src", "csid", "cid"}]
        /\ ifmG' = [ifmG EXCEPT !.live = @ \union {c}]
        /\ IfmGo(c, "act")
     \/ /\ IfmRoom \/ ~ifmCore.up
        /\ ifmG' = [ifmG EXCEPT !.faults = IF ifmCore.up THEN @ + 1 ELSE @]
        /\ IfmGo(c, "stop")
        /\ UNCHANGED ifmCtx
  /\ UNCHANGED <<ifmMgr, ifmCore, ifmWork>>

-----------------------------------------------------------------------------
(* Stop and flush. *)

\* Mutant: the tasklet is left running.
IfmHaltedMutant(c) == [ifmCtx EXCEPT ![c].run = {}]

\* The stops of cam_ife_mgr_stop_hw that both forms share.
IfmHalted(c) == [ifmCtx EXCEPT ![c].run = {}, ![c].tl = FALSE]

\* cam_isp_context stops an activated context, whether or not a failed flush has
\* stopped its hardware already.
IfmStopDev(c) ==
  /\ IfmAt(c, "act")
  /\ ifmT' = [ifmT EXCEPT ![c].pc = "stop", ![c].ret = "ready"]
  /\ UNCHANGED <<ifmCtx, ifmMgr, ifmCore, ifmWork, ifmG>>

\* cam_ife_mgr_stop_hw, the full form
IfmStop(c) ==
  /\ IfmAt(c, "stop")
  /\ ifmCtx' = [IfmHalted(c) EXCEPT ![c].cdm = "held"]
  /\ ifmG' = [ifmG EXCEPT !.late = @ \ {c}, !.live = @ \ {c}, !.quit = @ \ {c}]
  /\ IfmRun(c, "close", IF ifmCtx[c].init THEN IfmVfe ELSE <<>>, "uncount")
  /\ UNCHANGED <<ifmMgr, ifmCore, ifmWork>>

IfmLutOff == ifmMgr.active = 1

\* Its end: a context that is stopped twice is taken off the count twice.
IfmUncount(c) ==
  /\ IfmAt(c, "uncount") /\ ifmMgr.mutex = 0
  /\ ifmMgr' = [ifmMgr EXCEPT !.active = @ - 1, !.lut = @ /\ ~IfmLutOff]
  /\ ifmG' = [ifmG EXCEPT !.odd = @ \/ c \notin ifmG.counted, !.counted = @ \ {c}]
  /\ IfmGo(c, ifmT[c].ret)
  /\ UNCHANGED <<ifmCtx, ifmCore, ifmWork>>

\* Flush of an activated context: stop-only at the frame boundary ...
IfmFlush(c) ==
  /\ IfmAt(c, "act") /\ IfmRoom
  /\ ifmCtx' = IfmHalted(c)
  /\ ifmG' = [ifmG EXCEPT !.flushes = @ + 1, !.late = @ \ {c}, !.live = @ \ {c}, !.quit = @ \ {c}]
  /\ IfmGo(c, "reset")
  /\ UNCHANGED <<ifmMgr, ifmCore, ifmWork>>

\* ... cam_ife_mgr_reset, then start-only, which needs the context initialised.
\* When either is refused the context keeps its state with nothing running.
IfmReset(c) ==
  /\ IfmAt(c, "reset")
  /\ \/ /\ ifmCtx[c].init
        /\ ifmCtx' = [ifmCtx EXCEPT ![c].tl = TRUE]
        /\ ifmT' = [ifmT EXCEPT ![c].pc = "start", ![c].ret = "act"]
        /\ UNCHANGED ifmG
     \/ /\ IfmRoom \/ ~ifmCtx[c].init
        /\ ifmG' = [ifmG EXCEPT !.faults = IF ifmCtx[c].init THEN @ + 1 ELSE @]
        /\ IfmGo(c, "act")
        /\ UNCHANGED ifmCtx
  /\ UNCHANGED <<ifmMgr, ifmCore, ifmWork>>

-----------------------------------------------------------------------------
(* Overflow and its recovery. *)

\* The contexts cam_ife_hw_mgr_find_affected_ctx meets on used_ctx_list
IfmAffected == {c \in IfmCtxs : ifmCtx[c].use /\ ~IfmAt(c, "putused")}

\* cam_ife_hw_mgr_handle_camif_error in the tasklet of a streaming context: every
\* context on the core is marked and told, and the recovery is queued.
IfmOverflow(c) ==
  /\ ifmG.errs < IfmErrs
  /\ "src" \in ifmCtx[c].run /\ ifmCtx[c].tl /\ ~ifmCtx[c].pend
  /\ ifmCtx' = [d \in IfmCtxs |-> [ifmCtx[d] EXCEPT !.pend = @ \/ d \in IfmAffected]]
  /\ ifmWork' = [ifmWork EXCEPT !.q = Append(@, SetToSeq(IfmAffected))]
  /\ ifmG' = [ifmG EXCEPT !.errs = @ + 1]
  /\ UNCHANGED <<ifmT, ifmMgr, ifmCore>>

\* cam_ife_mgr_process_recovery_cb
IfmWorkBegin ==
  /\ ifmWork.pc = "idle" /\ ifmWork.q # <<>>
  /\ ifmWork' = [pc |-> "stop", left |-> Head(ifmWork.q), all |-> Head(ifmWork.q),
                 q |-> Tail(ifmWork.q)]
  /\ UNCHANGED <<ifmT, ifmCtx, ifmMgr, ifmCore, ifmG>>

\* The worker returns early: what it stopped stays stopped.
IfmGiveUp(f) ==
  /\ ifmWork' = [ifmWork EXCEPT !.pc = "idle", !.left = <<>>, !.all = <<>>]
  /\ ifmG' = [ifmG EXCEPT !.quit = @ \union Range(ifmWork.all), !.faults = @ + f]

\* cam_ife_mgr_stop_hw_in_overflow, refused for a context no longer in use
IfmWorkStop ==
  /\ ifmWork.pc = "stop" /\ ifmWork.left # <<>>
  /\ LET c == Head(ifmWork.left) IN
     IF ifmCtx[c].use
     THEN /\ ifmCtx' = [ifmCtx EXCEPT ![c].run = {}, ![c].tl = FALSE]
          /\ ifmWork' = [ifmWork EXCEPT !.left = Tail(@)]
          /\ UNCHANGED ifmG
     ELSE IfmGiveUp(0) /\ UNCHANGED ifmCtx
  /\ UNCHANGED <<ifmT, ifmMgr, ifmCore>>

\* The resets: one of a CSID that is closed, or that times out, ends it.
IfmWorkReset ==
  /\ ifmWork.pc = "stop" /\ ifmWork.left = <<>>
  /\ \/ /\ ifmWork' = [ifmWork EXCEPT !.pc = "start", !.left = ifmWork.all]
        /\ UNCHANGED ifmG
     \/ ~ifmCore.soc /\ IfmGiveUp(0)
     \/ ifmCore.soc /\ IfmRoom /\ IfmGiveUp(1)
  /\ UNCHANGED <<ifmT, ifmCtx, ifmMgr, ifmCore>>

IfmRestarted == {"out", "src", "csid"}

\* overflow_pending is cleared and cam_ife_mgr_restart_hw starts all but the CIDs
IfmWorkStart ==
  /\ ifmWork.pc = "start" /\ ifmWork.left # <<>>
  /\ LET c == Head(ifmWork.left) IN
     \/ /\ ifmCtx[c].use /\ ifmCore.up
        /\ ifmCtx' = [ifmCtx EXCEPT ![c].pend = FALSE, ![c].tl = TRUE,
                                    ![c].run = IfmRestarted]
        /\ ifmG' = [ifmG EXCEPT !.late = IF IfmAt(c, "act") /\ c \in ifmG.live
                                         THEN @ ELSE @ \union {c}]
        /\ ifmWork' = [ifmWork EXCEPT !.left = Tail(@)]
     \/ /\ ifmCtx[c].use /\ (IfmRoom \/ ~ifmCore.up)
        /\ ifmCtx' = [ifmCtx EXCEPT ![c].pend = FALSE, ![c].tl = FALSE, ![c].run = {}]
        /\ IfmGiveUp(IF ifmCore.up THEN 1 ELSE 0)
     \/ /\ ~ifmCtx[c].use
        /\ ifmCtx' = [ifmCtx EXCEPT ![c].pend = FALSE]
        /\ IfmGiveUp(0)
  /\ UNCHANGED <<ifmT, ifmMgr, ifmCore>>

IfmWorkEnd ==
  /\ ifmWork.pc = "start" /\ ifmWork.left = <<>>
  /\ ifmWork' = [ifmWork EXCEPT !.pc = "idle", !.all = <<>>]
  /\ UNCHANGED <<ifmT, ifmCtx, ifmMgr, ifmCore, ifmG>>

-----------------------------------------------------------------------------
IfmInit ==
  /\ ifmT = [c \in IfmCtxs |-> [pc |-> "free", todo |-> <<>>, then |-> "", ret |-> ""]]
  /\ ifmCtx = [c \in IfmCtxs |-> IfmFree]
  /\ ifmMgr = [mutex |-> 0, active |-> 0, lut |-> FALSE]
  /\ ifmCore = [open |-> 0, soc |-> FALSE, up |-> FALSE]
  /\ ifmWork = [pc |-> "idle", left |-> <<>>, all |-> <<>>, q |-> <<>>]
  /\ ifmG = [acqs |-> 0, starts |-> 0, flushes |-> 0, errs |-> 0, faults |-> 0,
             opens |-> [c \in IfmCtxs |-> 0], short |-> FALSE, odd |-> FALSE,
             leak |-> {}, counted |-> {}, late |-> {}, live |-> {}, quit |-> {}]

IfmNext ==
  \/ \E c \in IfmCtxs :
       \/ IfmGetCtx(c) \/ IfmAcquire(c) \/ IfmPutCtx(c) \/ IfmRelease(c) \/ IfmReleased(c)
       \/ \E k \in 0..Len(IfmOrder(c)) : IfmAcquireFails(c, k)
       \/ IfmOpen(c) \/ IfmPowerUp(c) \/ IfmPowerFails(c)
       \/ IfmClose(c) \/ IfmPowerDown(c) \/ IfmStateDown(c) \/ IfmClosed(c)
       \/ IfmStart(c) \/ IfmCsidInit(c) \/ IfmInitDone(c) \/ IfmCount(c)
       \/ IfmFirstConfig(c) \/ IfmTlStop(c) \/ IfmStartRes(c)
       \/ IfmStopDev(c) \/ IfmStop(c) \/ IfmUncount(c) \/ IfmFlush(c) \/ IfmReset(c)
       \/ IfmOverflow(c)
  \/ IfmWorkBegin \/ IfmWorkStop \/ IfmWorkReset \/ IfmWorkStart \/ IfmWorkEnd

IfmSpec == IfmInit /\ [][IfmNext]_ifmVars

-----------------------------------------------------------------------------
\* The VFE core counts exactly the resources that opened it, whatever fails in
\* between, unless a failed start closed resources it never opened or the first
\* opener failed after others had counted themselves in (cam_vfe_init_hw,
\* cam_ife_hw_mgr_init_hw).
IfmOpens == ifmG.short \/ ifmCore.open = MapThenSumSet(LAMBDA c : ifmG.opens[c], IfmCtxs)

\* A source or an output streams only from a powered core: no stop, release or
\* failed start of the other context takes the power from under it, with the
\* same two exceptions and that of a context the recovery restarted too late.
IfmPowered ==
  \A c \in IfmCtxs : {"src", "out"} \cap ifmCtx[c].run # {} =>
     ifmCore.soc \/ ifmG.short \/ c \in ifmG.late

\* The safe LUT is on exactly while a context is counted, and a context that
\* streams is counted, unless a start failed after counting, or a context whose
\* flush failed was stopped a second time.
IfmLut ==
  /\ ifmG.odd \/ /\ ifmMgr.active = Cardinality(ifmG.counted)
                 /\ ifmMgr.lut = (ifmG.counted # {})
  /\ \A c \in IfmCtxs : ifmCtx[c].run # {} => c \in ifmG.counted \union ifmG.late

\* A context given back to the free list holds nothing: no resource, no CDM, no
\* power, except the left path of a dual acquire that failed on the right one.
IfmClean ==
  \A c \in IfmCtxs : IfmAt(c, "free") =>
     /\ ifmCtx[c].hw \subseteq (IF c \in ifmG.leak THEN {"csidL"} ELSE {})
     /\ ifmCtx[c].res = {} /\ ifmCtx[c].cdm = "none" /\ ~ifmCtx[c].init
     /\ ~ifmCtx[c].pend /\ ~ifmCtx[c].use
     /\ ifmG.short \/ ifmG.opens[c] = 0

\* After a stop has returned nothing of the context runs and its tasklet is off,
\* unless the recovery worker, which takes no lock, restarts it afterwards.
IfmQuiet ==
  \A c \in IfmCtxs : (ifmT[c].pc \in {"free", "ready"} /\ c \notin ifmG.late) =>
     ifmCtx[c].run = {} /\ ~ifmCtx[c].tl

\* A context the last start left streaming is streaming, or the worker is about
\* to restart it, or the worker gave up (which one released context makes it do
\* for all of them).
IfmStreams ==
  \A c \in ifmG.live : IfmAt(c, "act") =>
     \/ "src" \in ifmCtx[c].run
     \/ c \in Range(ifmWork.all)
     \/ c \in ifmG.quit

-----------------------------------------------------------------------------
(***************************************************************************)
(* How the IFE hardware manager gathers the resources of a context          *)
(* (cam_ife_mgr_acquire_hw_for_ctx and what it calls): for each input port  *)
(* a CID, the CSID paths, the VFE sources on the cores of the paths, and    *)
(* the outputs of the sources, one reservation at a time, beside the        *)
(* acquires of other contexts; and how a failure takes them back.           *)
(*                                                                         *)
(* A resource is <<layer, id, core>>.  CIDs are shared by reference count   *)
(* among the streams of one sensor, which all contexts here use; lanes,     *)
(* formats, secure ports and the CDM are left out (the CDM is above).         *)
(***************************************************************************)

CONSTANTS IfaCtxs,      \* contexts
          IfaCores,     \* CSID/VFE pairs
          IfaAsks,      \* what may be asked for: sequences of ports
                        \*   [paths, dual, core, rd]
          IfaAcqs,      \* bound: acquires
          IfaFaults     \* bound: reservations refused for other reasons

VARIABLES ifaCtx,       \* the contexts
          ifaOwn,       \* owner of each path, source and output, 0 when free
          ifaCid,       \* CID references per CSID
          ifaG          \* history and bounds

ifaVars == <<ifaCtx, ifaOwn, ifaCid, ifaG>>

IfaNone == 99           \* a split without hardware
IfaIds == {"ipp", "ppp", "rdi0", "rd"}
IfaRes == {"path", "src", "out", "busrd"} \X IfaIds \X IfaCores

IfaBlank(fe) == [pc |-> "free", ports |-> <<>>, plan |-> <<>>, cids |-> <<>>, csids |-> <<>>,
                 srcs |-> <<>>, outs |-> {}, base |-> <<>>, fe |-> fe, half |-> <<>>]

IfaAt(c, p) == ifaCtx[c].pc = p
IfaPort(c) == Head(ifaCtx[c].ports)
IfaHw(e) == {i \in 1..2 : e[i] # IfaNone}
IfaFault(f) == /\ f \in {0, 1} /\ ifaG.faults + f <= IfaFaults
IfaSet(c, r) == ifaCtx' = [ifaCtx EXCEPT ![c] = r]
IfaTake(c, rs) == [r \in IfaRes |-> IF r \in rs THEN c ELSE ifaOwn[r]]
IfaIsFree(r) == ifaOwn[r] = 0

\* The first k reservations of a sequence that succeed: all up to the first one
\* that is taken, or up to the one a fault hits.
IfaTaken(rs, f) ==
  LET stop == {i \in 1..Len(rs) : ~IfaIsFree(rs[i]) \/ i = f}
  IN  IF stop = {} THEN Len(rs) ELSE Min(stop) - 1

-----------------------------------------------------------------------------
\* cam_ife_mgr_acquire_hw: the fetch flag is set here and nowhere cleared.
IfaAcquireHw(c, ask) ==
  /\ IfaAt(c, "free") /\ ifaG.acqs < IfaAcqs
  /\ IfaSet(c, [ifaCtx[c] EXCEPT !.pc = "port", !.ports = ask,
                                 !.fe = @ \/ \E i \in 1..Len(ask) : ask[i].rd])
  /\ ifaG' = [ifaG EXCEPT !.acqs = @ + 1]
  /\ UNCHANGED <<ifaOwn, ifaCid>>

\* cam_ife_mgr_acquire_dev, the older form: it never looks for a fetch port.
IfaAcquireDev(c, ask) ==
  /\ IfaAt(c, "free") /\ ifaG.acqs < IfaAcqs
  /\ IfaSet(c, [ifaCtx[c] EXCEPT !.pc = "port", !.ports = ask])
  /\ ifaG' = [ifaG EXCEPT !.acqs = @ + 1]
  /\ UNCHANGED <<ifaOwn, ifaCid>>

\* cam_ife_hw_mgr_preprocess_port and the order of acquire_hw_for_ctx: pixel
\* path, RDI paths, PDAF path; a read port asks for none.
IfaNextPort(c) ==
  /\ IfaAt(c, "port") /\ ifaCtx[c].ports # <<>>
  /\ IfaSet(c, [ifaCtx[c] EXCEPT !.plan = IfaPort(c).paths,
                                 !.pc = IF IfaPort(c).rd THEN "rdsrc" ELSE "cid"])
  /\ UNCHANGED <<ifaOwn, ifaCid, ifaG>>

IfaDualPath(c) == IfaPort(c).dual /\ Head(ifaCtx[c].plan) = "ipp"

\* The cores of the CIDs the context has, in list order
IfaHeld(c) == FlattenSeq([k \in 1..Len(ifaCtx[c].cids) |->
                            SelectSeq(ifaCtx[c].cids[k], LAMBDA x : x # IfaNone)])

\* cam_ife_mgr_acquire_cid_res: first the CSIDs the context uses already, two of
\* them for a dual pixel path; when they do not suffice, the one the port names,
\* and for a dual path that has only one, the first other one.
IfaCid(c, f) ==
  /\ IfaAt(c, "cid") /\ ifaCtx[c].plan # <<>> /\ IfaFault(f)
  /\ LET want == IF IfaDualPath(c) THEN 2 ELSE 1
         held == SubSeq(IfaHeld(c), 1, Min({want, Len(IfaHeld(c))}))
         hw == IF Len(held) = want THEN held ELSE Append(held, IfaPort(c).core)
         other == {k \in IfaCores : k # hw[1]}
     IN
     \/ /\ f = 1 /\ Len(held) < want        \* the named CSID refuses: put_res
        /\ ifaCid' = [k \in IfaCores |-> ifaCid[k] + Len(SelectSeq(held, LAMBDA x : x = k))]
        /\ IfaSet(c, [ifaCtx[c] EXCEPT !.pc = "undo"])
        /\ ifaG' = [ifaG EXCEPT !.faults = @ + 1, !.lost = @ + Len(held)]
     \/ /\ f = 0 /\ (want = Len(hw) \/ other # {})
        /\ LET both == IF Len(hw) = 2 THEN hw
                       ELSE IF want = 2 THEN <<hw[1], Min(other)>> ELSE <<hw[1], IfaNone>>
           IN  /\ ifaCid' = [k \in IfaCores |-> ifaCid[k] + Len(SelectSeq(both, LAMBDA x : x = k))]
               /\ IfaSet(c, [ifaCtx[c] EXCEPT !.pc = "path", !.cids = Append(@, both), !.half = <<>>])
        /\ UNCHANGED ifaG
     \/ /\ f = 1 /\ want = 2 /\ Len(hw) = 1  \* every other CSID refuses
        /\ ifaCid' = [ifaCid EXCEPT ![hw[1]] = @ + 1]
        /\ IfaSet(c, [ifaCtx[c] EXCEPT !.pc = "undo", !.cids = Append(@, <<hw[1], IfaNone>>)])
        /\ ifaG' = [ifaG EXCEPT !.faults = @ + 1]
  /\ UNCHANGED ifaOwn

\* The CSID of the next path to reserve: that of the CID of the same split
IfaPathCore(c) == Last(ifaCtx[c].cids)[Len(ifaCtx[c].half) + 1]

\* cam_ife_hw_mgr_acquire_res_ife_csid_pxl, one split at a time: the entry joins
\* the context's list when its last split is reserved.
IfaPxl(c, f) ==
  /\ IfaAt(c, "path") /\ Head(ifaCtx[c].plan) # "rdi0" /\ IfaFault(f)
  /\ LET id == Head(ifaCtx[c].plan)
         core == IfaPathCore(c)
         got == Append(ifaCtx[c].half, core)
         r == <<"path", id, core>>
     IN
     \/ /\ f = 0 /\ IfaIsFree(r)
        /\ ifaOwn' = IfaTake(c, {r})
        /\ IF IfaDualPath(c) /\ Len(got) = 1
           THEN IfaSet(c, [ifaCtx[c] EXCEPT !.half = got])
           ELSE IfaSet(c, [ifaCtx[c] EXCEPT
                  !.csids = Append(@, [id |-> id, kids |-> 0,
                                       hw |-> IF Len(got) = 2 THEN got ELSE <<core, IfaNone>>]),
                  !.half = <<>>, !.plan = Tail(@), !.pc = "cid"])
        /\ UNCHANGED ifaG
     \/ /\ f = 1 \/ ~IfaIsFree(r)
        /\ IfaSet(c, [ifaCtx[c] EXCEPT !.pc = "undo", !.half = <<>>])
        /\ ifaG' = [ifaG EXCEPT !.faults = @ + f,
             !.leak = @ \union {<<"path", id, k>> : k \in Range(ifaCtx[c].half)}]
        /\ UNCHANGED ifaOwn
  /\ UNCHANGED ifaCid

\* cam_ife_hw_mgr_acquire_res_ife_csid_rdi for the next RDI output of the port
IfaRdi(c, f) ==
  /\ IfaAt(c, "path") /\ Head(ifaCtx[c].plan) = "rdi0" /\ IfaFault(f)
  /\ LET core == IfaPathCore(c)
         r == <<"path", "rdi0", core>>
     IN
     \/ /\ f = 0 /\ IfaIsFree(r)
        /\ ifaOwn' = IfaTake(c, {r})
        /\ IfaSet(c, [ifaCtx[c] EXCEPT
             !.csids = Append(@, [id |-> "rdi0", kids |-> 0, hw |-> <<core, IfaNone>>]),
             !.plan = Tail(@), !.pc = "cid"])
        /\ UNCHANGED ifaG
     \/ /\ f = 1 \/ ~IfaIsFree(r)
        /\ IfaSet(c, [ifaCtx[c] EXCEPT !.pc = "undo"])
        /\ ifaG' = [ifaG EXCEPT !.faults = @ + f]
        /\ UNCHANGED ifaOwn
  /\ UNCHANGED ifaCid

IfaPathsDone(c) ==
  /\ IfaAt(c, "cid") /\ ifaCtx[c].plan = <<>>
  /\ IfaSet(c, [ifaCtx[c] EXCEPT !.pc = "src"])
  /\ UNCHANGED <<ifaOwn, ifaCid, ifaG>>

\* The first k of an entry's two splits, as they were reserved
IfaUpTo(hw, k) == [i \in 1..2 |-> IF i \in IfaHw(hw) /\ i <= k THEN hw[i] ELSE IfaNone]

IfaKidless(es) == {i \in 1..Len(es) : es[i].kids = 0}

\* cam_ife_hw_mgr_acquire_res_ife_src for the next path without a child: a source
\* on the core of each split; the entry is on the list before it is filled.
IfaSrc(c, f) ==
  /\ IfaAt(c, "src") /\ IfaKidless(ifaCtx[c].csids) # {}
  /\ LET k == Min(IfaKidless(ifaCtx[c].csids))
         e == ifaCtx[c].csids[k]
         rs == [i \in 1..Cardinality(IfaHw(e.hw)) |-> <<"src", e.id, e.hw[i]>>]
         n == IfaTaken(rs, f)
         ok == n = Len(rs)
     IN  /\ f \in 0..Len(rs) /\ IfaFault(IF f = 0 THEN 0 ELSE 1)
         /\ ifaOwn' = IfaTake(c, {rs[i] : i \in 1..n})
         /\ IfaSet(c, [ifaCtx[c] EXCEPT
              !.csids[k].kids = IF ok THEN 1 ELSE 0,
              !.srcs = Append(@, [id |-> e.id, hw |-> IfaUpTo(e.hw, n), kids |-> 0]),
              !.pc = IF ok THEN "src" ELSE "undo"])
         /\ ifaG' = [ifaG EXCEPT !.faults = IF f = 0 THEN @ ELSE @ + 1]
  /\ UNCHANGED ifaCid

IfaSrcsDone(c) ==
  /\ IfaAt(c, "src") /\ IfaKidless(ifaCtx[c].csids) = {}
  /\ IfaSet(c, [ifaCtx[c] EXCEPT !.pc = "out"])
  /\ UNCHANGED <<ifaOwn, ifaCid, ifaG>>

\* cam_ife_hw_mgr_acquire_res_ife_rd_src: a read source on the core of the RDI
\* path.  Its result is overwritten by that of the bus below.
IfaRdSrc(c, f) ==
  /\ IfaAt(c, "rdsrc") /\ IfaFault(f)
  /\ LET rdis == {k \in 1..Len(ifaCtx[c].csids) : ifaCtx[c].csids[k].id = "rdi0"}
     IN
     IF rdis = {}
     THEN IfaSet(c, [ifaCtx[c] EXCEPT !.pc = "busrd"]) /\ UNCHANGED <<ifaOwn, ifaG>>
     ELSE LET k == Min(rdis)
              core == ifaCtx[c].csids[k].hw[1]
              ok == IfaTaken(<< <<"src", "rd", core>> >>, f) = 1
          IN  /\ ifaOwn' = IfaTake(c, IF ok THEN {<<"src", "rd", core>>} ELSE {})
              /\ IfaSet(c, [ifaCtx[c] EXCEPT
                   !.csids[k].kids = IF ok THEN @ + 1 ELSE @,
                   !.srcs = Append(@, [id |-> "rd", kids |-> 0,
                                       hw |-> <<IF ok THEN core ELSE IfaNone, IfaNone>>]),
                   !.pc = "busrd"])
              /\ ifaG' = [ifaG EXCEPT !.faults = @ + f,
                          !.empty = IF ok THEN @ ELSE @ \union {c}]
  /\ UNCHANGED ifaCid

\* cam_ife_hw_mgr_acquire_res_bus_rd
IfaBusRd(c, f) ==
  /\ IfaAt(c, "busrd") /\ IfaFault(f)
  /\ LET es == {k \in 1..Len(ifaCtx[c].srcs) : ifaCtx[c].srcs[k].id = "rd"}
         rs == {<<"busrd", "rd", ifaCtx[c].srcs[k].hw[1]>> :
                  k \in {j \in es : ifaCtx[c].srcs[j].hw[1] # IfaNone}}
         ok == es # {} /\ (rs # {} => f = 0) /\ \A r \in rs : IfaIsFree(r)
     IN  /\ ifaOwn' = IfaTake(c, IF ok THEN rs ELSE {})
         /\ IfaSet(c, [ifaCtx[c] EXCEPT !.outs = IF ok THEN @ \union rs ELSE @,
                                        !.pc = IF ok THEN "out" ELSE "undo"])
         /\ ifaG' = [ifaG EXCEPT !.faults = @ + f]
  /\ UNCHANGED ifaCid

\* cam_ife_hw_mgr_acquire_res_ife_out_pixel: the pixel output of the port (that of
\* a read port is the pixel output too) on every core of the source
IfaOutPixel(c, e) ==
  SetToSeq({<<"out", IF e.id = "rd" THEN "ipp" ELSE e.id, e.hw[i]>> : i \in IfaHw(e.hw)})

\* cam_ife_hw_mgr_acquire_res_ife_out_rdi: the RDI output of the source's number
IfaOutRdi(e) == << <<"out", e.id, e.hw[1]>> >>

\* cam_ife_hw_mgr_acquire_res_ife_out for the next source without a child
IfaOut(c, f) ==
  /\ IfaAt(c, "out") /\ IfaKidless(ifaCtx[c].srcs) # {}
  /\ LET k == Min(IfaKidless(ifaCtx[c].srcs))
         e == ifaCtx[c].srcs[k]
         rs == IF e.id = "rdi0" THEN IfaOutRdi(e) ELSE IfaOutPixel(c, e)
         n == IfaTaken(rs, f)
         ok == n = Len(rs)
     IN  /\ f \in 0..Len(rs) /\ IfaFault(IF f = 0 THEN 0 ELSE 1)
         /\ ifaOwn' = IfaTake(c, {rs[i] : i \in 1..n})
         /\ IfaSet(c, [ifaCtx[c] EXCEPT
              !.srcs[k].kids = IF ok THEN 1 ELSE 0,
              !.outs = @ \union {rs[i] : i \in 1..n},
              !.pc = IF ok THEN "out" ELSE "undo"])
         /\ ifaG' = [ifaG EXCEPT !.faults = IF f = 0 THEN @ ELSE @ + 1]
  /\ UNCHANGED ifaCid

IfaPortDone(c) ==
  /\ IfaAt(c, "out") /\ IfaKidless(ifaCtx[c].srcs) = {}
  /\ IfaSet(c, [ifaCtx[c] EXCEPT !.pc = "port", !.ports = Tail(@)])
  /\ UNCHANGED <<ifaOwn, ifaCid, ifaG>>

\* cam_ife_mgr_add_base_info: a core is entered once, with the first split
IfaAddBase(base, e) ==
  LET new == SelectSeq(SetToSortSeq(IfaHw(e.hw), <),
                       LAMBDA i : \A j \in 1..Len(base) : base[j].core # e.hw[i])
  IN  base \o [i \in 1..Len(new) |-> [split |-> new[i], core |-> e.hw[new[i]]]]

\* cam_ife_mgr_process_base_info
IfaFinish(c) ==
  /\ IfaAt(c, "port") /\ ifaCtx[c].ports = <<>>
  /\ IfaSet(c, [ifaCtx[c] EXCEPT !.pc = IF ifaCtx[c].srcs = <<>> THEN "undo" ELSE "used",
                                 !.base = FoldLeft(IfaAddBase, <<>>, ifaCtx[c].srcs)])
  /\ UNCHANGED <<ifaOwn, ifaCid, ifaG>>

IfaListed(c) ==
  {<<"path", ifaCtx[c].csids[k].id, ifaCtx[c].csids[k].hw[i]>> : k \in 1..Len(ifaCtx[c].csids), i \in 1..2}
  \union {<<"src", ifaCtx[c].srcs[k].id, ifaCtx[c].srcs[k].hw[i]>> : k \in 1..Len(ifaCtx[c].srcs), i \in 1..2}
  \union ifaCtx[c].outs

\* cam_ife_hw_mgr_free_hw_res over every list
IfaFreed(c) == IfaListed(c) \cap IfaRes

\* The CID references a release gives back on a CSID
IfaUnref(c, k) == Len(SelectSeq(IfaHeld(c), LAMBDA x : x = k))

\* cam_ife_hw_mgr_release_hw_for_ctx, after a failure and on release
IfaReleaseHw(c) ==
  /\ ifaCtx[c].pc \in {"undo", "used"}
  /\ ifaOwn' = [r \in IfaRes |-> IF r \in IfaFreed(c) THEN 0 ELSE ifaOwn[r]]
  /\ ifaCid' = [k \in IfaCores |-> ifaCid[k] - IfaUnref(c, k)]
  /\ IfaSet(c, IfaBlank(ifaCtx[c].fe))
  /\ ifaG' = [ifaG EXCEPT !.empty = @ \ {c}]

-----------------------------------------------------------------------------
IfaInit ==
  /\ ifaCtx = [c \in IfaCtxs |-> IfaBlank(FALSE)]
  /\ ifaOwn = [r \in IfaRes |-> 0]
  /\ ifaCid = [k \in IfaCores |-> 0]
  /\ ifaG = [acqs |-> 0, faults |-> 0, lost |-> 0, leak |-> {}, empty |-> {}]

IfaNext ==
  \E c \in IfaCtxs :
    \/ \E ask \in IfaAsks : IfaAcquireHw(c, ask) \/ IfaAcquireDev(c, ask)
    \/ IfaNextPort(c) \/ IfaPathsDone(c) \/ IfaSrcsDone(c) \/ IfaPortDone(c)
    \/ \E f \in {0, 1} : IfaCid(c, f) \/ IfaPxl(c, f) \/ IfaRdi(c, f) \/ IfaRdSrc(c, f) \/ IfaBusRd(c, f)
    \/ \E f \in 0..2 : IfaSrc(c, f) \/ IfaOut(c, f)
    \/ IfaFinish(c) \/ IfaReleaseHw(c)

IfaSpec == IfaInit /\ [][IfaNext]_ifaVars

-----------------------------------------------------------------------------
\* Every reserved resource is on a list of the context it is reserved for, so
\* that a release finds it, except the first half of a dual path whose second
\* half was refused; and what a list names is reserved for that context.
IfaAccounted ==
  \A c \in IfaCtxs :
    LET listed == IfaListed(c)
    IN  /\ \A r \in listed \cap IfaRes : ifaOwn[r] = c
        /\ \A r \in IfaRes :
             ifaOwn[r] = c => r \in listed \/ r \in ifaG.leak \/ IfaAt(c, "path")

\* The references on the CSIDs are those of the CIDs on the lists, plus those of
\* a CID entry that was put back with a reference in it.
IfaCidRefs ==
  LET Sum(f) == FoldFunctionOnSet(+, 0, f, IfaCores)
      held == [c \in IfaCtxs |-> IfaHeld(c)]
      all == [k \in IfaCores |-> Cardinality(
                 UNION {{c} \X {j \in DOMAIN held[c] : held[c][j] = k} : c \in IfaCtxs})]
  IN  /\ \A k \in IfaCores : ifaCid[k] >= all[k]
      /\ Sum(ifaCid) = Sum(all) + ifaG.lost

\* The pipeline of an acquired context is whole: each path feeds a source on its
\* own core and each source has its outputs there, unless the refusal of a read
\* source went unnoticed.
IfaWhole ==
  \A c \in IfaCtxs : IfaAt(c, "used") /\ c \notin ifaG.empty =>
    /\ \A k \in 1..Len(ifaCtx[c].csids) : \A i \in IfaHw(ifaCtx[c].csids[k].hw) :
          ifaOwn[<<"src", ifaCtx[c].csids[k].id, ifaCtx[c].csids[k].hw[i]>>] = c
    /\ \A k \in 1..Len(ifaCtx[c].srcs) : \A i \in IfaHw(ifaCtx[c].srcs[k].hw) :
          \E id \in IfaIds : ifaOwn[<<"out", id, ifaCtx[c].srcs[k].hw[i]>>] = c

\* A dual pixel path occupies two different cores, and the bases of an acquired
\* context name each of its cores once.
IfaBases ==
  \A c \in IfaCtxs : IfaAt(c, "used") =>
    /\ \A k \in 1..Len(ifaCtx[c].csids) : ifaCtx[c].csids[k].hw[1] # ifaCtx[c].csids[k].hw[2]
    /\ IsInjective([j \in 1..Len(ifaCtx[c].base) |-> ifaCtx[c].base[j].core])
    /\ {ifaCtx[c].base[j].core : j \in 1..Len(ifaCtx[c].base)}
         = {r[3] : r \in {x \in IfaListed(c) \cap IfaRes : x[1] = "src"}}

\* Power, safe LUT and streams follow the contexts that are started, and what an
\* acquire took is accounted for.
IfmSafe ==
    /\ IfmOpens /\ IfmPowered /\ IfmLut /\ IfmClean /\ IfmQuiet /\ IfmStreams
    /\ IfaAccounted /\ IfaCidRefs /\ IfaWhole /\ IfaBases

-----------------------------------------------------------------------------
(***************************************************************************)
(* The bottom half of the IFE hardware manager: what one VFE interrupt      *)
(* payload makes the tasklet of a context report (cam_ife_mgr_do_tasklet    *)
(* and its handlers), how the events of the two cores of a dual context     *)
(* are paired, and which contexts an error reaches.                         *)
(*                                                                         *)
(* A context is a list of sources; a payload is the core it comes from and  *)
(* the set of <<source, event>> bits its status registers show.  Payloads   *)
(* of one context are handled one after the other (its tasklet), those of   *)
(* its two cores in any order.                                              *)
(***************************************************************************)

CONSTANTS IfvCtxs,      \* contexts
          IfvSrcs,      \* the sources of each: sequence of [id, hw]
          IfvFe,        \* contexts with a fetch engine
          IfvCores,     \* VFE cores
          IfvBits,      \* the sets of bits a payload may show
          IfvMisMax,    \* mismatches tolerated (10 in the code)
          IfvPays,      \* bound: payloads of dual contexts
          IfvErrs,      \* bound: errors
          IfvAcqs,      \* bound: acquires
          IfvStops      \* bound: stops

VARIABLES ifvList,      \* used_ctx_list
          ifvCtx,       \* [pend, mis, cnt]
          ifvG          \* history and bounds

ifvVars == <<ifvList, ifvCtx, ifvG>>

IfvPaired == {"sof", "epoch", "eof"}
IfvOn(c) == c \in Range(ifvList)
IfvIsRdi(s) == s.id \in {"rdi0", "rdi1"}
IfvIsDual(s) == Len(s.hw) = 2
IfvSrcSet(c) == Range(IfvSrcs[c])
IfvRdiOnly(c) == \A s \in IfvSrcSet(c) : IfvIsRdi(s)
IfvBase(c) == UNION {Range(s.hw) : s \in IfvSrcSet(c)}
IfvBlank == [pend |-> FALSE, mis |-> 0,
             cnt |-> [e \in IfvPaired |-> [k \in IfvCores |-> 0]]]
IfvOut(c, core, bits, cbs) ==
  [ctx |-> c, core |-> core, bits |-> bits, pend |-> ifvCtx[c].pend, cbs |-> cbs]
IfvNoFault == [core |-> 0, list |-> <<>>, told |-> {}]
IfvPairing(c) == \E s \in IfvSrcSet(c) : IfvIsDual(s)
IfvQuiet == [ctx |-> 0, core |-> 0, bits |-> {}, pend |-> FALSE, cbs |-> <<>>]

-----------------------------------------------------------------------------
(* Errors. *)

\* One step of the pass of cam_ife_hw_mgr_find_affected_ctx: a context that has
\* an affected core is affected and so are all its cores
\* (cam_ife_hw_mgr_is_ctx_affected).
IfvAffect(acc, c) ==
  IF IfvBase(c) \cap acc.cores = {} THEN acc
  ELSE [cores |-> acc.cores \union IfvBase(c), ctxs |-> acc.ctxs \union {c}]

\* The single pass, in the order of used_ctx_list
IfvAffected(core) == FoldLeft(IfvAffect, [cores |-> {core}, ctxs |-> {}], ifvList).ctxs

\* Every affected context is marked and told.
IfvMark(core) == [c \in IfvCtxs |-> [ifvCtx[c] EXCEPT !.pend = @ \/ c \in IfvAffected(core)]]
IfvFault(core) == [core |-> core, list |-> ifvList, told |-> IfvAffected(core)]

-----------------------------------------------------------------------------
(* Pairing. *)

\* a is ahead by more than one, in the code's unsigned arithmetic: a non-zero
\* count that is behind wraps and passes too.
IfvAhead(a, b) == a > 0 /\ (a < b \/ a > b + 1)

\* cam_ife_hw_mgr_check_irq_for_dual_vfe on the counts a, b of the two cores
IfvCheck(a, b, mis) ==
  IF a = b THEN [a |-> 0, b |-> 0, mis |-> mis, ok |-> TRUE]
  ELSE IF (~IfvAhead(a, b) /\ ~IfvAhead(b, a)) \/ mis > IfvMisMax
       THEN [a |-> a, b |-> b, mis |-> mis, ok |-> FALSE]
  ELSE [a |-> IF a >= 2 THEN a - 1 ELSE a, b |-> IF b >= 2 THEN b - 1 ELSE b,
        mis |-> mis + (IF a >= 2 THEN 1 ELSE 0) + (IF b >= 2 THEN 1 ELSE 0), ok |-> TRUE]

\* A handler's result: the context and the callbacks made so far
IfvRes(ctx, cbs) == [ctx |-> ctx, cbs |-> cbs]
IfvSay(r, e, yes) == IF yes THEN IfvRes(r.ctx, Append(r.cbs, e)) ELSE r

\* Nothing is reported while an overflow is pending.
IfvMay(ctx, dual) == ~ctx.pend

\* The event e of a pixel source s in a payload: a single source reports it; of a
\* dual one the core is counted and the pair checked, before the overflow is
\* looked at or, for SOF, only without one.
IfvPixel(r, s, e, core, bits) ==
  LET hit == core \in Range(s.hw) /\ <<s.id, e>> \in bits
      up == [r.ctx EXCEPT !.cnt[e][core] = @ + 1]
      v == IfvCheck(up.cnt[e][s.hw[1]], up.cnt[e][s.hw[2]], up.mis)
      paired == [up EXCEPT !.cnt[e][s.hw[1]] = v.a, !.cnt[e][s.hw[2]] = v.b, !.mis = v.mis]
  IN  IF ~hit THEN r
      ELSE IF ~IfvIsDual(s) THEN IfvSay(r, e, IfvMay(r.ctx, FALSE))
      ELSE IF e = "sof" /\ r.ctx.pend THEN IfvRes(up, r.cbs)
      ELSE IfvSay(IfvRes(paired, r.cbs), e, v.ok /\ IfvMay(r.ctx, TRUE))

\* cam_ife_hw_mgr_handle_eof_for_camif_hw_res
IfvEof(r, c, core, bits) ==
  FoldLeft(LAMBDA x, s : IF s.id = "camif" THEN IfvPixel(x, s, "eof", core, bits) ELSE x,
           r, IfvSrcs[c])

\* cam_ife_hw_mgr_handle_epoch_for_camif_hw_res
IfvEpoch(r, c, core, bits) ==
  FoldLeft(LAMBDA x, s : IF IfvIsRdi(s) THEN x ELSE IfvPixel(x, s, "epoch", core, bits),
           r, IfvSrcs[c])

\* sof_sent: one SOF per payload
IfvFirst(x) == "sof" \notin Range(x.cbs)

\* cam_ife_hw_mgr_handle_sof: an RDI source reports only for a fetch or RDI-only
\* context, whatever core the payload is from and whether or not an overflow is
\* pending.
IfvSof(r, c, core, bits) ==
  FoldLeft(LAMBDA x, s :
      IF IfvIsRdi(s)
      THEN IfvSay(x, "sof", <<s.id, "sof">> \in bits /\ (c \in IfvFe \/ IfvRdiOnly(c)) /\ IfvFirst(x))
      ELSE LET y == IfvPixel(x, s, "sof", core, bits)
           IN  IF IfvFirst(x) THEN y ELSE IfvRes(y.ctx, x.cbs),
    r, IfvSrcs[c])

\* The core whose register update counts: the right one of a dual source
IfvRupCore(s) == Last(s.hw)

\* cam_ife_hw_mgr_handle_reg_update: rup_status is kept from source to source and
\* only set by a source of the payload's core.
IfvRup(r, c, core, bits) ==
  LET Step(x, s) ==
        LET mine == core = (IF IfvIsRdi(s) THEN s.hw[1] ELSE IfvRupCore(s))
            st == IF mine THEN <<s.id, "rup">> \in bits ELSE x.st
            speaks == ~IfvIsRdi(s) \/ c \in IfvFe \/ IfvRdiOnly(c)
        IN  [st |-> st, r |-> IfvSay(x.r, "rup", speaks /\ st /\ ~x.r.ctx.pend)]
  IN  FoldLeft(Step, [st |-> FALSE, r |-> r], IfvSrcs[c]).r

-----------------------------------------------------------------------------
(* Actions. *)

\* A context is acquired, put on the used list, and started.
IfvAcquire(c) ==
  /\ c \notin Range(ifvList) /\ ifvG.acqs < IfvAcqs
  /\ ifvList' = Append(ifvList, c)
  /\ ifvG' = [ifvG EXCEPT !.acqs = @ + 1, !.out = IfvQuiet, !.fault = IfvNoFault]
  /\ UNCHANGED ifvCtx

\* A stop and cam_ife_mgr_start_hw, which refuses (in its first configuration)
\* with an overflow pending: the mismatches start again, the counts do not.
IfvRestart(c) ==
  /\ IfvOn(c) /\ ~ifvCtx[c].pend /\ ifvG.stops < IfvStops
  /\ ifvCtx' = [ifvCtx EXCEPT ![c].mis = 0]
  /\ ifvG' = [ifvG EXCEPT !.out = IfvQuiet, !.fault = IfvNoFault, !.stops = @ + 1]
  /\ UNCHANGED ifvList

\* cam_ife_mgr_release_hw: pending overflow and counts are cleared.
IfvRelease(c) ==
  /\ IfvOn(c)
  /\ ifvList' = SelectSeq(ifvList, LAMBDA x : x # c)
  /\ ifvCtx' = [ifvCtx EXCEPT ![c] = IfvBlank]
  /\ ifvG' = [ifvG EXCEPT !.out = IfvQuiet, !.fault = IfvNoFault, !.rough = @ \ {c},
                          !.seen[c] = [e \in IfvPaired |-> [k \in IfvCores |-> 0]],
                          !.rep[c] = [e \in IfvPaired |-> 0]]

\* cam_ife_mgr_do_tasklet without an error: EOF, SOF, register update, epoch
IfvTasklet(c, core, bits) ==
  /\ IfvOn(c) /\ core \in IfvBase(c)
  /\ IfvPairing(c) => ifvG.pays < IfvPays
  /\ \E b \in bits : \E s \in IfvSrcSet(c) : s.id = b[1]
  /\ LET r1 == IfvEof(IfvRes(ifvCtx[c], <<>>), c, core, bits)
         r2 == IfvSof(r1, c, core, bits)
         r3 == IfvRup(r2, c, core, bits)
         r == IfvEpoch(r3, c, core, bits)
     IN  /\ ifvCtx' = [ifvCtx EXCEPT ![c] = r.ctx]
         /\ ifvG' = [ifvG EXCEPT !.pays = IF IfvPairing(c) THEN @ + 1 ELSE @,
              !.out = IfvOut(c, core, bits, r.cbs), !.fault = IfvNoFault,
              !.seen[c] = [e \in IfvPaired |-> [k \in IfvCores |->
                 @[e][k] + (IF k = core /\ IfvPairing(c) /\ <<"camif", e>> \in bits THEN 1 ELSE 0)]],
              !.rep[c] = [e \in IfvPaired |-> @[e] + (IF IfvPairing(c) /\ e \in Range(r.cbs) THEN 1 ELSE 0)],
              !.rough = IF IfvPairing(c) /\ (ifvCtx[c].pend \/ r.ctx.mis > IfvMisMax) THEN @ \union {c} ELSE @]
  /\ UNCHANGED ifvList

\* cam_ife_hw_mgr_handle_camif_error: the rest of the payload is dropped; with an
\* overflow pending already nobody is told again.
IfvError(c, core) ==
  /\ IfvOn(c) /\ ifvG.errs < IfvErrs
  /\ \E s \in IfvSrcSet(c) : s.id = "camif" /\ core \in Range(s.hw)
  /\ ifvCtx' = IF ifvCtx[c].pend THEN ifvCtx ELSE IfvMark(core)
  /\ ifvG' = [ifvG EXCEPT !.errs = @ + 1, !.out = IfvQuiet,
                          !.fault = IF ifvCtx[c].pend THEN IfvNoFault ELSE IfvFault(core)]
  /\ UNCHANGED ifvList

\* cam_ife_hw_mgr_handle_csid_event, fatal, and the error end of
\* cam_ife_hw_mgr_handle_buf_done_for_hw_res: they mark whatever is pending.
IfvFatal(c, core) ==
  /\ IfvOn(c) /\ ifvG.errs < IfvErrs /\ core \in IfvBase(c)
  /\ ifvCtx' = IfvMark(core)
  /\ ifvG' = [ifvG EXCEPT !.errs = @ + 1, !.out = IfvQuiet, !.fault = IfvFault(core)]
  /\ UNCHANGED ifvList

\* A finished buffer: reported unless an overflow is pending
IfvDone(c, core) ==
  /\ IfvOn(c) /\ core \in IfvBase(c)
  /\ ifvG' = [ifvG EXCEPT !.fault = IfvNoFault,
       !.out = IfvOut(c, core, {}, IF ifvCtx[c].pend THEN <<>> ELSE <<"done">>)]
  /\ UNCHANGED <<ifvList, ifvCtx>>

\* The recovery clears the pending overflow of a context it restarts.
IfvRecover(c) ==
  /\ ifvCtx[c].pend
  /\ ifvCtx' = [ifvCtx EXCEPT ![c].pend = FALSE]
  /\ ifvG' = [ifvG EXCEPT !.out = IfvQuiet, !.fault = IfvNoFault]
  /\ UNCHANGED ifvList

-----------------------------------------------------------------------------
IfvInit ==
  /\ ifvList = <<>>
  /\ ifvCtx = [c \in IfvCtxs |-> IfvBlank]
  /\ ifvG = [acqs |-> 0, pays |-> 0, errs |-> 0, stops |-> 0, out |-> IfvQuiet, rough |-> {},
             fault |-> IfvNoFault,
             seen |-> [c \in IfvCtxs |-> [e \in IfvPaired |-> [k \in IfvCores |-> 0]]],
             rep |-> [c \in IfvCtxs |-> [e \in IfvPaired |-> 0]]]

IfvNext ==
  \E c \in IfvCtxs :
    \/ IfvAcquire(c) \/ IfvRestart(c) \/ IfvRelease(c) \/ IfvRecover(c)
    \/ \E core \in IfvCores :
         \/ IfvError(c, core) \/ IfvFatal(c, core) \/ IfvDone(c, core)
         \/ \E bits \in IfvBits : IfvTasklet(c, core, bits)

IfvSpec == IfvInit /\ [][IfvNext]_ifvVars

-----------------------------------------------------------------------------
\* What is reported of a dual context is what its cores saw: as long as no
\* overflow came in between and the mismatches stayed below their limit, the
\* number of reports of each kind is that of the core that saw more, or one less
\* (check_irq_for_dual_vfe), in whatever order and with whatever losses the two
\* cores deliver, and across stops that leave half a pair behind.
IfvPairs ==
  \A c \in Range(ifvList) \ ifvG.rough : \A s \in {x \in IfvSrcSet(c) : IfvIsDual(x)} :
    \A e \in IfvPaired :
      LET most == Max({ifvG.seen[c][e][k] : k \in Range(s.hw)})
      IN  ifvG.rep[c][e] \in {most, most - 1}

\* A context with an overflow pending reports nothing but the SOF of an RDI.
IfvSilent ==
  ifvG.out.pend =>
    Range(ifvG.out.cbs) \subseteq (IF \E s \in IfvSrcSet(ifvG.out.ctx) : IfvIsRdi(s) THEN {"sof"} ELSE {})

\* One payload makes at most one report of each kind, so that the context's state
\* machine advances once per frame; only the register updates of several RDIs
\* of one context are reported each.
IfvOnce ==
  \A e \in Range(ifvG.out.cbs) :
    \/ Cardinality({i \in 1..Len(ifvG.out.cbs) : ifvG.out.cbs[i] = e}) = 1
    \/ e = "rup" /\ Cardinality({s \in IfvSrcSet(ifvG.out.ctx) : IfvIsRdi(s)}) > 1

\* The register update of a dual context is reported when its right core shows
\* it, unless an RDI source before the pixel source left its status behind.
IfvRupRight ==
  \A s \in (IF "rup" \in Range(ifvG.out.cbs) THEN IfvSrcSet(ifvG.out.ctx) ELSE {}) :
    IfvIsDual(s) =>
      \/ ifvG.out.core = s.hw[2] /\ <<s.id, "rup">> \in ifvG.out.bits
      \/ IfvIsRdi(IfvSrcs[ifvG.out.ctx][1])

\* All contexts an error on a core must reach
IfvReach(core, list) ==
  FoldLeft(IfvAffect, [cores |-> {core}, ctxs |-> {}], list \o list \o list).ctxs

\* An error reaches every context on the core, and over a dual context those on
\* its other core too, except one that stands on used_ctx_list before the dual
\* context that links it (cam_ife_hw_mgr_find_affected_ctx makes one pass).
IfvTold ==
  LET f == ifvG.fault
      At(c) == CHOOSE i \in 1..Len(f.list) : f.list[i] = c
  IN  f.list # <<>> =>
        /\ f.told \subseteq IfvReach(f.core, f.list)
        /\ \A c \in IfvReach(f.core, f.list) \ f.told :
             /\ f.core \notin IfvBase(c)
             /\ \E d \in f.told : At(d) > At(c) /\ IfvBase(d) \cap IfvBase(c) # {}

\* Events of dual cores are paired, reported once and only to streaming contexts, and
\* errors reach all they affect.
IfvSafe ==
    /\ IfvPairs /\ IfvSilent /\ IfvOnce /\ IfvRupRight /\ IfvTold
=============================================================================
