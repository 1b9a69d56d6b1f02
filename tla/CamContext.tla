------------------------------ MODULE CamContext ------------------------------
(***************************************************************************)
(* A context of cam_core: the request objects of one acquired device, the   *)
(* fences they wait for, and the four threads that move them (an ioctl under *)
(* ctx_mutex, the worker of cam_sync that runs fence callbacks, the thread   *)
(* of the hardware manager that reports completed buffers, and the           *)
(* hardware itself).  The ICP, JPEG, FD and LRME drivers are instances; they  *)
(* differ in their tables of handlers by state (`ctx.kind`).                  *)
(*                                                                         *)
(* A step is a region under ctx->lock or ctx->sync_mutex, or a run of        *)
(* statements on an object that no other thread can reach.                   *)
(***************************************************************************)
EXTENDS Naturals, Sequences, FiniteSets

CONSTANTS NReq,       \* request objects of the context (CAM_CTX_REQ_MAX)
          MaxId,      \* bound: requests submitted in a behaviour
          Nin,        \* number of input fences of each request
          RegFailAt,  \* the in fences at which registering a callback may fail
          CtxBudgets  \* bounds: a driver, and how many hw_config, registrations and
                      \* packets fail

ASSUME CtxAssumption == /\ NReq \in Nat \ {0} /\ MaxId \in Nat /\ Nin \in [1..MaxId -> Nat \ {0}]
                        /\ RegFailAt \subseteq Nat

VARIABLES ctx,       \* struct cam_context: kind, state, refs, lists, last_flush_req
          ctxReq,    \* struct cam_ctx_request of each object
          ctxFence,  \* status of in fence f of request id
          ctxReg,    \* callbacks registered on in fences: <<id, f, r>>
          ctxCbq,    \* dispatched callbacks, in the order of cam_sync's work queue
          ctxThr,    \* what each thread is in the middle of
          ctxHw,     \* requests the hardware manager has accepted, oldest first
          ctxOut,    \* status of the output fences of request id
          ctxGhost   \* history: requests dropped by a failed hw_config; faults left

ctxVars == <<ctx, ctxReq, ctxFence, ctxReg, ctxCbq, ctxThr, ctxHw, ctxOut, ctxGhost>>

CtxReqs == 1..NReq
CtxIds == 1..MaxId
CtxIns == UNION {{<<id, f>> : f \in 1..Nin[id]} : id \in CtxIds}
CtxNoReq == [id |-> 0, ctx |-> FALSE, flushed |-> FALSE, acked |-> 0, nin |-> 0, outs |-> FALSE]
\* The fields of an object on the free list are dead, the next CAM_CONFIG_DEV clears
\* them; only a callback of a refused request may still look at req->ctx.
CtxDead(hasCtx) == [CtxNoReq EXCEPT !.ctx = hasCtx]
CtxIdle == [pc |-> "idle", op |-> "", r |-> 0, id |-> 0, temp |-> <<>>, free |-> FALSE, st |-> ""]
CtxAllFree == [i \in 1..NReq |-> i]
CtxWithout(seq, r) == LET Other(x) == x # r IN SelectSeq(seq, Other)

-----------------------------------------------------------------------------
(* The handlers of each driver by context state.  FD and LRME share a table. *)

CtxOps == [icp  |-> [AVAILABLE |-> {},
                     ACQUIRED  |-> {"release", "start", "config", "flush", "irq"},
                     READY     |-> {"stop", "release", "config", "flush", "irq"}],
           jpeg |-> [AVAILABLE |-> {},
                     ACQUIRED  |-> {"release", "config", "stop", "flush", "irq"}],
           fd   |-> [AVAILABLE |-> {},
                     ACQUIRED  |-> {"release", "config", "start"},
                     ACTIVATED |-> {"stop", "release", "config", "flush", "irq"}]]

CtxHandles(op) == op \in CtxOps[ctx.kind][ctx.state]
CtxStarted(k) == CASE k = "icp" -> "READY" [] k = "fd" -> "ACTIVATED" [] OTHER -> "ACQUIRED"

\* External: the ICP manager runs the completion event and hw_flush, hw_stop and
\* hw_release under one mutex; the others take no lock around the event.
CtxHwLockFree == ctx.kind = "icp" => ctxThr["done"].pc \notin {"signal", "free"}

CtxInit ==
    /\ \E b \in CtxBudgets :
       /\ ctxGhost = [lost |-> {}, cfg |-> b.cfg, reg |-> b.reg, parse |-> b.parse]
       /\ ctx = [kind |-> b.kind, state |-> "AVAILABLE", refs |-> 0, nodeFree |-> TRUE,
                hdl |-> "none", lastFlush |-> 0, smx |-> "none",
                free |-> CtxAllFree, pending |-> <<>>, active |-> <<>>]
    /\ ctxReq = [r \in CtxReqs |-> [CtxNoReq EXCEPT !.ctx = TRUE]]
    /\ ctxFence = [x \in CtxIns |-> "active"]
    /\ ctxReg = {}
    /\ ctxCbq = <<>>
    /\ ctxThr = [t \in {"io", "cb", "done"} |-> CtxIdle]
    /\ ctxHw = <<>>
    /\ ctxOut = [id \in CtxIds |-> "none"]

\* A reference is dropped; the last one returns the context to its node.
CtxPut(c, n) == [c EXCEPT !.refs = @ - n, !.nodeFree = @ \/ c.refs = n]

\* cam_sync_signal on the output fences of a request; "twice" records that they
\* had been signaled before (the -EALREADY of cam_sync_signal).
CtxSignal(out, id, st) == [out EXCEPT ![id] = IF @ = "wait" THEN st ELSE "twice"]

-----------------------------------------------------------------------------
(* ioctls.  One at a time: each holds ctx_mutex. *)

CtxIoIdle == ctxThr["io"].pc = "idle"

\* CAM_ACQUIRE_DEV.  The lists are rebuilt whether or not the acquire succeeds.
CtxAcquire(ok) ==
    /\ CtxIoIdle /\ ctx.nodeFree
    /\ ctxThr["done"].pc = "idle"     \* see README: nothing in the code waits for it
    /\ ctx' = [ctx EXCEPT !.free = CtxAllFree, !.pending = <<>>, !.active = <<>>,
                          !.lastFlush = 0,
                          !.refs = IF ok THEN 1 ELSE 0, !.nodeFree = ~ok,
                          !.hdl = IF ok THEN "live" ELSE "none",
                          !.state = IF ok THEN "ACQUIRED" ELSE @]
    /\ UNCHANGED <<ctxReq, ctxFence, ctxReg, ctxCbq, ctxThr, ctxHw, ctxOut, ctxGhost>>

CtxStart(ok) ==
    /\ CtxIoIdle /\ ctx.hdl = "live" /\ CtxHandles("start")
    /\ ctx' = IF ok THEN [ctx EXCEPT !.state = CtxStarted(ctx.kind)] ELSE ctx
    /\ UNCHANGED <<ctxReq, ctxFence, ctxReg, ctxCbq, ctxThr, ctxHw, ctxOut, ctxGhost>>

\* CAM_CONFIG_DEV up to the callbacks: take an object, check the request against
\* the last flush, let the hardware manager parse it (ok), put it on the pending list.
CtxPrepare(id, ok) ==
    LET r == Head(ctx.free)
        taken == Tail(ctx.free)
        accepted == id > ctx.lastFlush /\ ok
    IN  /\ CtxIoIdle /\ ctx.hdl = "live" /\ CtxHandles("config")
        /\ ctxOut[id] = "none" /\ \A i \in CtxIds : i < id => ctxOut[i] # "none"
        /\ ctx.free # <<>>
        /\ ok \/ ctxGhost.parse > 0
        /\ ctxGhost' = IF ok THEN ctxGhost ELSE [ctxGhost EXCEPT !.parse = @ - 1]
        /\ ctx' = [ctx EXCEPT !.lastFlush = IF id > @ THEN 0 ELSE @,
                              !.free = IF accepted THEN taken ELSE Append(taken, r),
                              !.pending = IF accepted THEN Append(@, r) ELSE @]
        /\ ctxReq' = [ctxReq EXCEPT ![r] =
             IF accepted
             THEN [CtxNoReq EXCEPT !.id = id, !.ctx = TRUE, !.nin = Nin[id], !.outs = TRUE]
             ELSE CtxNoReq]
        /\ ctxOut' = [ctxOut EXCEPT ![id] = IF accepted THEN "wait" ELSE "refused"]
        /\ ctxThr' = IF accepted
                     THEN [ctxThr EXCEPT !["io"] = [CtxIdle EXCEPT !.pc = "reg", !.r = r, !.id = 1]]
                     ELSE ctxThr
        /\ UNCHANGED <<ctxFence, ctxReg, ctxCbq, ctxHw>>

\* Register the callback of in fence f; a fence already signaled dispatches it at once.
CtxRegister ==
    LET t == ctxThr["io"]  f == t.id  q == ctxReq[t.r]  fst == ctxFence[q.id, f]
    IN  /\ t.pc = "reg" /\ f <= q.nin
        /\ ctx' = [ctx EXCEPT !.refs = @ + 1]
        /\ ctxReg' = IF fst = "active" THEN ctxReg \cup {<<q.id, f, t.r>>} ELSE ctxReg
        /\ ctxCbq' = IF fst = "active" THEN ctxCbq
                     ELSE Append(ctxCbq, [r |-> t.r, st |-> fst])
        /\ ctxThr' = [ctxThr EXCEPT !["io"] = IF f = q.nin THEN CtxIdle ELSE [t EXCEPT !.id = f + 1]]
        /\ UNCHANGED <<ctxReq, ctxFence, ctxHw, ctxOut, ctxGhost>>

\* Registering fails: the request is unlinked and returned, and the caller told.
\* The callbacks registered for the fences before f stay registered.
CtxRegisterFail ==
    LET t == ctxThr["io"]  q == ctxReq[t.r]
    IN  /\ t.pc = "reg" /\ t.id \in RegFailAt /\ ctxGhost.reg > 0
        /\ ctx' = [ctx EXCEPT !.pending = CtxWithout(@, t.r),
                              !.active = CtxWithout(@, t.r),
                              !.free = Append(CtxWithout(@, t.r), t.r)]
        /\ ctxReq' = [ctxReq EXCEPT ![t.r] = CtxDead(FALSE)]
        /\ ctxOut' = [ctxOut EXCEPT ![q.id] = IF @ = "wait" THEN "refused" ELSE @]
        /\ ctxThr' = [ctxThr EXCEPT !["io"] = CtxIdle]
        /\ ctxGhost' = [ctxGhost EXCEPT !.reg = @ - 1]
        /\ UNCHANGED <<ctxFence, ctxReg, ctxCbq, ctxHw>>

\* Assumption on userspace: in a state whose release does not flush, it has no
\* request outstanding when it releases (see README).
CtxQuiet == ctx.pending = <<>> /\ ctx.active = <<>> /\ ctxHw = <<>>

\* The calls that flush: CAM_FLUSH_REQ of all requests up to upTo, CAM_STOP_DEV, and
\* a release or shutdown in a started state.  cam_context_flush_ctx_to_hw begins:
\* under sync_mutex, the pending requests move to a private list.
CtxFlushBegin(op, upTo) ==
    /\ CtxIoIdle /\ ctx.hdl = "live" /\ ctx.smx = "none"
    /\ CASE op = "flush" -> CtxHandles("flush")
         [] op = "stop" -> CtxHandles("stop")
         [] OTHER -> CtxHandles("release") /\ CtxHandles("stop") /\ ctx.kind # "jpeg"
    /\ ctx' = [ctx EXCEPT !.smx = "io", !.pending = <<>>,
                          !.lastFlush = IF op = "flush" THEN upTo ELSE @]
    /\ ctxThr' = [ctxThr EXCEPT !["io"] =
                    [CtxIdle EXCEPT !.pc = "pend", !.op = op, !.temp = ctx.pending]]
    /\ UNCHANGED <<ctxReq, ctxFence, ctxReg, ctxCbq, ctxHw, ctxOut, ctxGhost>>

\* The callbacks of object r that are still registered, for the request it holds.
CtxMine(r) == {x \in ctxReg : x[1] = ctxReq[r].id /\ x[3] = r}

\* Mutant: whoever deregisters a callback owns the object.
CtxLastAckAny(r) == CtxMine(r) # {}

\* Deregistering them counts as their acknowledgment: whoever brings the count to
\* num_in_map_entries owns the object and returns it.
CtxLastAck(r) ==
    /\ CtxMine(r) # {}
    /\ ctxReq[r].acked + Cardinality(CtxMine(r)) = ctxReq[r].nin

\* One pending request is flushed: marked, its callbacks deregistered, its output
\* fences signaled, and freed if no callback is left to do it.
CtxFlushPending ==
    LET t == ctxThr["io"]  r == Head(t.temp)  mine == CtxMine(r)  last == CtxLastAck(r)
    IN  /\ t.pc = "pend" /\ t.temp # <<>>
        /\ ctxThr' = [ctxThr EXCEPT !["io"].temp = Tail(@)]
        /\ ctxReq' = [ctxReq EXCEPT ![r] =
             IF last THEN CtxDead(FALSE)
             ELSE [@ EXCEPT !.flushed = TRUE, !.acked = @ + Cardinality(mine)]]
        /\ ctxReg' = ctxReg \ mine
        /\ ctxOut' = IF ctxReq[r].outs THEN CtxSignal(ctxOut, ctxReq[r].id, "error") ELSE ctxOut
        /\ ctx' = [CtxPut(ctx, Cardinality(mine)) EXCEPT
                     !.free = IF last THEN Append(@, r) ELSE @]
        /\ UNCHANGED <<ctxFence, ctxCbq, ctxHw, ctxGhost>>

\* Pending list done: sync_mutex is released and the hardware told to drop everything.
CtxFlushHw ==
    /\ ctxThr["io"].pc = "pend" /\ ctxThr["io"].temp = <<>> /\ CtxHwLockFree
    /\ ctx' = [ctx EXCEPT !.smx = "none"]
    /\ ctxHw' = <<>>
    /\ ctxThr' = [ctxThr EXCEPT !["io"].pc = "splice"]
    /\ UNCHANGED <<ctxReq, ctxFence, ctxReg, ctxCbq, ctxOut, ctxGhost>>

CtxFlushSplice ==
    /\ ctxThr["io"].pc = "splice"
    /\ ctx' = [ctx EXCEPT !.active = <<>>]
    /\ ctxThr' = [ctxThr EXCEPT !["io"].pc = "act", !["io"].temp = ctx.active]
    /\ UNCHANGED <<ctxReq, ctxFence, ctxReg, ctxCbq, ctxHw, ctxOut, ctxGhost>>

CtxFlushActive ==
    LET t == ctxThr["io"]  r == Head(t.temp)
    IN  /\ t.pc = "act" /\ t.temp # <<>>
        /\ ctxThr' = [ctxThr EXCEPT !["io"].temp = Tail(@)]
        /\ ctxReq' = [ctxReq EXCEPT ![r] = CtxDead(FALSE)]
        /\ ctxOut' = IF ctxReq[r].outs THEN CtxSignal(ctxOut, ctxReq[r].id, "error") ELSE ctxOut
        /\ ctx' = [ctx EXCEPT !.free = Append(@, r)]
        /\ UNCHANGED <<ctxFence, ctxReg, ctxCbq, ctxHw, ctxGhost>>

\* What follows the flush: hw_stop and the state after it, hw_release, the context's
\* own reference and its handle.  A shutdown destroys the handle of ctx->dev_hdl, which
\* the release has set to -1: the handle stays in the table.
CtxFlushEnd ==
    LET t == ctxThr["io"]
        stopped == [ctx EXCEPT !.lastFlush = 0, !.state = "ACQUIRED"]
        gone == CtxPut([ctx EXCEPT !.lastFlush = 0, !.state = "AVAILABLE",
                                   !.hdl = IF t.op = "shutdown" THEN "stale" ELSE "none"], 1)
    IN  /\ t.pc = "act" /\ t.temp = <<>> /\ CtxHwLockFree
        /\ ctx' = CASE t.op = "flush" -> ctx
                    [] t.op = "stop" -> stopped
                    [] OTHER -> gone
        /\ ctxThr' = [ctxThr EXCEPT !["io"] = CtxIdle]
        /\ UNCHANGED <<ctxReq, ctxFence, ctxReg, ctxCbq, ctxHw, ctxOut, ctxGhost>>

\* Release in ACQUIRED, where nothing is flushed.
CtxRelease(op) ==
    /\ CtxIoIdle /\ ctx.hdl = "live" /\ ctx.state = "ACQUIRED" /\ CtxHandles("release")
    /\ CtxQuiet /\ CtxHwLockFree
    /\ ctx' = CtxPut([ctx EXCEPT !.lastFlush = 0, !.state = "AVAILABLE",
                                 !.hdl = IF op = "shutdown" THEN "stale" ELSE "none"], 1)
    /\ UNCHANGED <<ctxReq, ctxFence, ctxReg, ctxCbq, ctxThr, ctxHw, ctxOut, ctxGhost>>

-----------------------------------------------------------------------------
(* cam_context_flush_req_to_hw, by an ioctl (CAM_FLUSH_REQ of one request) or by
   the callback of a fence that failed. *)

\* Look in the pending list under sync_mutex, then in the active list.
CtxFindReq(t, id) ==
    LET Is(r) == ctxReq[r].id = id
        inPend == SelectSeq(ctx.pending, Is)
        inAct == SelectSeq(ctx.active, Is)
        next == IF t = "cb" THEN "mutex" ELSE "idle"
    IN  /\ ctx.smx = "none"
        /\ \/ /\ inPend # <<>>
              /\ ctx' = [ctx EXCEPT !.pending = CtxWithout(@, Head(inPend))]
              /\ ctxReq' = [ctxReq EXCEPT ![Head(inPend)].flushed = TRUE]
              /\ ctxThr' = [ctxThr EXCEPT ![t].pc = "fr_pend", ![t].op = "flushreq", ![t].id = id, ![t].temp = inPend]
           \/ /\ inPend = <<>> /\ inAct # <<>>
              /\ ctx' = [ctx EXCEPT !.active = CtxWithout(@, Head(inAct))]
              /\ ctxThr' = [ctxThr EXCEPT ![t].pc = "fr_act", ![t].op = "flushreq", ![t].id = id, ![t].temp = inAct]
              /\ UNCHANGED ctxReq
           \/ /\ inPend = <<>> /\ inAct = <<>>
              /\ ctxThr' = [ctxThr EXCEPT ![t].pc = next]
              /\ UNCHANGED <<ctx, ctxReq>>
        /\ UNCHANGED <<ctxFence, ctxReg, ctxCbq, ctxHw, ctxOut, ctxGhost>>

CtxFlushReq(id) ==
    /\ CtxIoIdle /\ ctx.hdl = "live" /\ CtxHandles("flush")
    /\ ctxOut[id] # "none"
    /\ CtxFindReq("io", id)

\* hw_flush of the one request, then the callbacks that are still registered.
CtxFlushReqDereg(t) ==
    LET r == Head(ctxThr[t].temp)  mine == CtxMine(r)
    IN  /\ ctxThr[t].pc \in {"fr_pend", "fr_act"} /\ CtxHwLockFree
        /\ ctxHw' = CtxWithout(ctxHw, ctxThr[t].id)
        /\ ctxThr' = [ctxThr EXCEPT ![t].pc = "fr_sig",
                        ![t].free = ctxThr[t].pc = "fr_act" \/ CtxLastAck(r)]
        /\ IF ctxThr[t].pc = "fr_pend"
           THEN /\ ctxReg' = ctxReg \ mine
                /\ ctxReq' = [ctxReq EXCEPT ![r].acked = @ + Cardinality(mine)]
                /\ ctx' = CtxPut(ctx, Cardinality(mine))
           ELSE UNCHANGED <<ctxReg, ctxReq, ctx>>
        /\ UNCHANGED <<ctxFence, ctxCbq, ctxOut, ctxGhost>>

CtxFlushReqSignal(t) ==
    LET th == ctxThr[t]  r == Head(th.temp)
    IN  /\ th.pc = "fr_sig"
        /\ ctxOut' = CtxSignal(ctxOut, th.id, "error")
        /\ ctx' = IF th.free THEN [ctx EXCEPT !.free = Append(@, r)] ELSE ctx
        /\ ctxReq' = IF th.free THEN [ctxReq EXCEPT ![r] = CtxDead(FALSE)] ELSE ctxReq
        /\ ctxThr' = [ctxThr EXCEPT ![t] = IF t = "io" THEN CtxIdle
                                           ELSE [th EXCEPT !.pc = "mutex", !.temp = <<>>, !.free = FALSE]]
        /\ UNCHANGED <<ctxFence, ctxReg, ctxCbq, ctxHw, ctxGhost>>

-----------------------------------------------------------------------------
(* Fences and their callbacks.  cam_sync runs them on a work queue with
   max_active 1, so one at a time and in order. *)

\* Another device signals in fence f of request id; a registered callback is dispatched.
\* Only a fence with a callback, or about to get one, makes a difference.
CtxFenceSignal(id, f, st) ==
    LET t == ctxThr["io"]
        mine == {x \in ctxReg : x[1] = id /\ x[2] = f}
        about == t.pc = "reg" /\ ctxReq[t.r].id = id /\ f \in t.id..ctxReq[t.r].nin
    IN  /\ ctxFence[id, f] = "active" /\ (mine # {} \/ about)
        /\ ctxFence' = [ctxFence EXCEPT ![id, f] = st]
        /\ ctxReg' = ctxReg \ mine
        /\ IF mine = {} THEN UNCHANGED ctxCbq
           ELSE \E x \in mine : ctxCbq' = Append(ctxCbq, [r |-> x[3], st |-> st])
        /\ UNCHANGED <<ctx, ctxReq, ctxThr, ctxHw, ctxOut, ctxGhost>>

\* cam_context_sync_callback: count the fence.  Only the last one acts, and only its
\* own status is looked at.  A request without a context is left alone, and the
\* reference taken for the callback with it.
CtxCallback ==
    LET e == Head(ctxCbq)  q == ctxReq[e.r]
    IN  /\ ctxThr["cb"].pc = "idle" /\ ctxCbq # <<>>
        /\ ctxCbq' = Tail(ctxCbq)
        /\ IF ~q.ctx THEN UNCHANGED <<ctx, ctxReq, ctxThr>>
           ELSE /\ ctxReq' = [ctxReq EXCEPT ![e.r].acked = @ + 1]
                /\ IF q.acked + 1 = q.nin
                   THEN /\ ctxThr' = [ctxThr EXCEPT !["cb"] =
                             [CtxIdle EXCEPT !.r = e.r, !.id = q.id,
                                             !.pc = IF e.st = "error" THEN "find" ELSE "mutex"]]
                        /\ UNCHANGED ctx
                   ELSE ctx' = CtxPut(ctx, 1) /\ UNCHANGED ctxThr
        /\ UNCHANGED <<ctxFence, ctxReg, ctxHw, ctxOut, ctxGhost>>

CtxCallbackFlush ==
    /\ ctxThr["cb"].pc = "find"
    /\ CtxFindReq("cb", ctxThr["cb"].id)

\* Mutant: the flushed mark is not looked at.
CtxApplyAny ==
    LET r == ctxThr["cb"].r
    IN  /\ ctxThr["cb"].pc = "mutex" /\ ctx.smx = "none"
        /\ ctx' = [ctx EXCEPT !.smx = "cb", !.pending = CtxWithout(@, r), !.active = Append(@, r)]
        /\ ctxThr' = [ctxThr EXCEPT !["cb"].pc = "config"]
        /\ UNCHANGED <<ctxReq, ctxFence, ctxReg, ctxCbq, ctxHw, ctxOut, ctxGhost>>

\* Under sync_mutex: a request that was not flushed moves to the active list ...
CtxApply ==
    LET r == ctxThr["cb"].r
    IN  /\ ctxThr["cb"].pc = "mutex" /\ ctx.smx = "none" /\ ~ctxReq[r].flushed
        /\ ctx' = [ctx EXCEPT !.smx = "cb",
                              !.pending = CtxWithout(@, r),
                              !.active = Append(@, r)]
        /\ ctxThr' = [ctxThr EXCEPT !["cb"].pc = "config"]
        /\ UNCHANGED <<ctxReq, ctxFence, ctxReg, ctxCbq, ctxHw, ctxOut, ctxGhost>>

\* Mutant: the hardware is not told.
CtxConfigForget ==
    /\ ctxThr["cb"].pc = "config" /\ CtxHwLockFree
    /\ ctx' = CtxPut([ctx EXCEPT !.smx = "none"], 1)
    /\ ctxThr' = [ctxThr EXCEPT !["cb"] = CtxIdle]
    /\ UNCHANGED <<ctxReq, ctxFence, ctxReg, ctxCbq, ctxHw, ctxOut, ctxGhost>>

\* ... and to the hardware, with sync_mutex held.
CtxConfig ==
    LET r == ctxThr["cb"].r
    IN  /\ ctxThr["cb"].pc = "config" /\ CtxHwLockFree
        /\ ctxHw' = Append(ctxHw, ctxReq[r].id)
        /\ ctx' = CtxPut([ctx EXCEPT !.smx = "none"], 1)
        /\ ctxThr' = [ctxThr EXCEPT !["cb"] = CtxIdle]
        /\ UNCHANGED <<ctxReq, ctxFence, ctxReg, ctxCbq, ctxOut, ctxGhost>>

\* hw_config fails.  The object returns to the free list; its output fences are
\* signaled only by the ICP manager, which reports the request complete from inside
\* hw_config, and only if the request is the oldest active one.
CtxConfigFail ==
    LET r == ctxThr["cb"].r
        told == ctx.kind = "icp" /\ Head(ctx.active) = r
    IN  /\ ctxThr["cb"].pc = "config" /\ CtxHwLockFree /\ ctxGhost.cfg > 0
        /\ ctx' = CtxPut([ctx EXCEPT !.smx = "none",
                                     !.active = CtxWithout(@, r),
                                     !.free = Append(@, r)], 1)
        /\ ctxReq' = [ctxReq EXCEPT ![r] = CtxDead(~told)]
        /\ ctxOut' = IF told THEN CtxSignal(ctxOut, ctxReq[r].id, "success") ELSE ctxOut
        /\ ctxGhost' = [ctxGhost EXCEPT !.cfg = @ - 1,
                          !.lost = IF told THEN @ ELSE @ \cup {ctxReq[r].id}]
        /\ ctxThr' = [ctxThr EXCEPT !["cb"] = CtxIdle]
        /\ UNCHANGED <<ctxFence, ctxReg, ctxCbq, ctxHw>>

\* A flushed request is let go of by its last callback: first the marks, under
\* sync_mutex, then the list, under the lock.
CtxUnmark ==
    LET r == ctxThr["cb"].r
    IN  /\ ctxThr["cb"].pc = "mutex" /\ ctx.smx = "none" /\ ctxReq[r].flushed
        /\ ctxReq' = [ctxReq EXCEPT ![r] = CtxDead(FALSE)]
        /\ ctxThr' = [ctxThr EXCEPT !["cb"].pc = "free"]
        /\ UNCHANGED <<ctx, ctxFence, ctxReg, ctxCbq, ctxHw, ctxOut, ctxGhost>>

CtxUnmarkFree ==
    LET r == ctxThr["cb"].r
    IN  /\ ctxThr["cb"].pc = "free"
        /\ ctx' = CtxPut([ctx EXCEPT !.pending = CtxWithout(@, r), !.active = CtxWithout(@, r),
                                     !.free = Append(CtxWithout(@, r), r)], 1)
        /\ ctxThr' = [ctxThr EXCEPT !["cb"] = CtxIdle]
        /\ UNCHANGED <<ctxReq, ctxFence, ctxReg, ctxCbq, ctxHw, ctxOut, ctxGhost>>

-----------------------------------------------------------------------------
(* The hardware, and cam_context_buf_done_from_hw on the manager's thread. *)

\* External: the hardware finishes the oldest request it has; FD runs only when started.
CtxHwDone(st) ==
    /\ ctxThr["done"].pc = "idle" /\ ctxHw # <<>>
    /\ ctx.kind = "fd" => ctx.state = "ACTIVATED"
    /\ ctxHw' = Tail(ctxHw)
    /\ ctxThr' = [ctxThr EXCEPT !["done"] =
                    [CtxIdle EXCEPT !.pc = "event", !.id = Head(ctxHw), !.st = st]]
    /\ UNCHANGED <<ctx, ctxReq, ctxFence, ctxReg, ctxCbq, ctxOut, ctxGhost>>

\* The event counts only for the oldest active request, in a state that handles it.
CtxBufDone ==
    LET t == ctxThr["done"]
        hit == /\ CtxHandles("irq") /\ ctx.active # <<>>
               /\ ctxReq[Head(ctx.active)].id = t.id
    IN  /\ t.pc = "event"
        /\ IF hit
           THEN /\ ctx' = [ctx EXCEPT !.active = Tail(@)]
                /\ ctxThr' = [ctxThr EXCEPT !["done"].pc = "signal", !["done"].r = Head(ctx.active)]
           ELSE ctxThr' = [ctxThr EXCEPT !["done"] = CtxIdle] /\ UNCHANGED ctx
        /\ UNCHANGED <<ctxReq, ctxFence, ctxReg, ctxCbq, ctxHw, ctxOut, ctxGhost>>

CtxDoneSignal ==
    LET t == ctxThr["done"]
    IN  /\ t.pc = "signal"
        /\ ctxOut' = CtxSignal(ctxOut, ctxReq[t.r].id, t.st)
        /\ ctxReq' = [ctxReq EXCEPT ![t.r].outs = FALSE]
        /\ ctxThr' = [ctxThr EXCEPT !["done"].pc = "free"]
        /\ UNCHANGED <<ctx, ctxFence, ctxReg, ctxCbq, ctxHw, ctxGhost>>

CtxDoneFree ==
    LET r == ctxThr["done"].r
    IN  /\ ctxThr["done"].pc = "free"
        /\ ctx' = [ctx EXCEPT !.free = Append(@, r)]
        /\ ctxReq' = [ctxReq EXCEPT ![r] = CtxDead(FALSE)]
        /\ ctxThr' = [ctxThr EXCEPT !["done"] = CtxIdle]
        /\ UNCHANGED <<ctxFence, ctxReg, ctxCbq, ctxHw, ctxOut, ctxGhost>>

-----------------------------------------------------------------------------

CtxIoctl ==
    \/ \E ok \in BOOLEAN : CtxAcquire(ok) \/ CtxStart(ok)
    \/ \E id \in CtxIds, ok \in BOOLEAN : CtxPrepare(id, ok)
    \/ \E op \in {"flush", "stop", "release", "shutdown"}, upTo \in CtxIds : CtxFlushBegin(op, upTo)
    \/ \E id \in CtxIds : CtxFlushReq(id)
    \/ \E op \in {"release", "shutdown"} : CtxRelease(op)

CtxIoStep ==
    \/ CtxRegister \/ CtxRegisterFail
    \/ CtxFlushPending \/ CtxFlushHw \/ CtxFlushSplice \/ CtxFlushActive \/ CtxFlushEnd
    \/ CtxFlushReqDereg("io") \/ CtxFlushReqSignal("io")

CtxCbStep ==
    \/ CtxCallback \/ CtxCallbackFlush \/ CtxApply \/ CtxConfig \/ CtxConfigFail
    \/ CtxUnmark \/ CtxUnmarkFree
    \/ CtxFlushReqDereg("cb") \/ CtxFlushReqSignal("cb")

CtxDoneStep == CtxBufDone \/ CtxDoneSignal \/ CtxDoneFree

CtxEnv ==
    \/ \E x \in CtxIns, st \in {"success", "error"} : CtxFenceSignal(x[1], x[2], st)
    \/ \E st \in {"success", "error"} : CtxHwDone(st)

CtxNext == CtxIoctl \/ CtxIoStep \/ CtxCbStep \/ CtxDoneStep \/ CtxEnv

CtxSpec == CtxInit /\ [][CtxNext]_ctxVars

\* Fairness: the work queue of cam_sync, the manager's thread and a running ioctl make
\* progress; in fences are signaled and the hardware finishes what it took.
CtxFair ==
    /\ WF_ctxVars(CtxCbStep) /\ WF_ctxVars(CtxIoStep) /\ WF_ctxVars(CtxDoneStep)
    /\ WF_ctxVars(\E x \in CtxIns, st \in {"success", "error"} : CtxFenceSignal(x[1], x[2], st))
    /\ WF_ctxVars(\E st \in {"success", "error"} : CtxHwDone(st))

CtxFairSpec == CtxSpec /\ CtxFair

-----------------------------------------------------------------------------
CtxSeqs == UNION {[1..n -> CtxReqs] : n \in 0..NReq}

\* Types of the context, its requests and its threads.
CtxTypeOK ==
    /\ ctx.state \in {"AVAILABLE", "ACQUIRED", "READY", "ACTIVATED"}
    /\ ctx.refs \in 0..(1 + Cardinality(CtxIns)) /\ ctx.lastFlush \in 0..MaxId
    /\ ctx.smx \in {"none", "io", "cb"} /\ ctx.hdl \in {"none", "live", "stale"}
    /\ {ctx.free, ctx.pending, ctx.active} \subseteq CtxSeqs
    /\ \A r \in CtxReqs : ctxReq[r].acked \in 0..ctxReq[r].nin
    /\ \A x \in ctxReg : <<x[1], x[2]>> \in CtxIns /\ x[3] \in CtxReqs
    /\ \A id \in CtxIds : ctxOut[id] \in {"none", "refused", "wait", "success", "error", "twice"}

CtxTimesIn(seq, r) == Cardinality({i \in 1..Len(seq) : seq[i] = r})
CtxListed(r) ==
    CtxTimesIn(ctx.free, r) + CtxTimesIn(ctx.pending, r) + CtxTimesIn(ctx.active, r)
      + (IF ctxThr["io"].pc \in {"pend", "act"} THEN CtxTimesIn(ctxThr["io"].temp, r) ELSE 0)

\* Callbacks on their way: registered, dispatched or running for object r.
CtxAwaited(r) ==
    \/ \E x \in ctxReg : x[3] = r
    \/ \E i \in 1..Len(ctxCbq) : ctxCbq[i].r = r
    \/ ctxThr["cb"].r = r

CtxHeld(r) ==
    \/ ctxThr["done"].r = r
    \/ \E t \in {"io", "cb"} : /\ ctxThr[t].pc \in {"fr_pend", "fr_act", "fr_sig"}
                               /\ Head(ctxThr[t].temp) = r

\* A request object is never on two lists, and one that is on none is in the hands
\* of a thread or waits for a callback: flush, buf done and the fence callbacks race
\* to return it (list_add_tail to free_req_list in five functions) and exactly one does.
CtxOneHome ==
    \A r \in CtxReqs : /\ CtxListed(r) <= 1
                       /\ CtxListed(r) = 0 => CtxAwaited(r) \/ CtxHeld(r)

\* An object on the free list, which the next CAM_CONFIG_DEV wipes, is awaited by no
\* fence callback and not being completed (the free_req_list adds of the flushes and of
\* cam_context_sync_callback).
CtxFreeIsFree ==
    \A r \in CtxReqs : CtxTimesIn(ctx.free, r) > 0 =>
        ~CtxAwaited(r) /\ ctxThr["done"].r # r

\* The output fences of a request are signaled at most once, whichever of buf done,
\* a flush, a stop, a failed in fence or a failed hw_config gets to it.
CtxSignaledOnce == \A id \in CtxIds : ctxOut[id] # "twice"

CtxOutstanding ==
    Cardinality(ctxReg) + Len(ctxCbq)
      + (IF ctxThr["cb"].pc = "idle" THEN 0 ELSE 1)

\* The context has one reference for its handle and one for each callback that may
\* still run on it, and returns to its node exactly when the last is gone: a context
\* that is acquired anew meets no callback of its former life.
CtxRefsExact ==
    /\ ctx.refs = CtxOutstanding + (IF ctx.hdl = "live" THEN 1 ELSE 0)
    /\ ctx.nodeFree <=> ctx.refs = 0

\* When a stop or a stopping release returns, the output fences of every request
\* accepted before are signaled, unless buf done or the flush of a failed in fence is about
\* to, or hw_config dropped the request.
CtxStopSettles ==
    /\ ctxThr["io"].op \in {"stop", "release", "shutdown"}
    /\ ctxThr["io"].pc = "act" /\ ctxThr'["io"].pc = "idle"
    => \A id \in CtxIds : ctxOut'[id] = "wait" =>
          \/ id \in ctxGhost.lost
          \/ ctxThr["done"].pc = "signal" /\ ctxReq[ctxThr["done"].r].id = id
          \/ ctxThr["cb"].op = "flushreq" /\ ctxThr["cb"].id = id

\* Each request object is in one place, is free only when nothing refers to it, and
\* its fences are signaled once; the references of the context are those of the handle
\* and of the callbacks; and a stop settles everything accepted before.
CtxCorrect ==
    [][/\ (CtxTypeOK /\ CtxOneHome /\ CtxFreeIsFree /\ CtxSignaledOnce /\ CtxRefsExact)'
       /\ CtxStopSettles]_ctxVars

\* Every accepted request is answered: its output fences are signaled, unless its
\* hw_config failed, or the device (FD) is not started.
CtxAnswered ==
    \A id \in CtxIds : ctxOut[id] = "wait" ~>
        \/ ctxOut[id] # "wait" \/ id \in ctxGhost.lost
        \/ ctx.kind = "fd" /\ ctx.state = "ACQUIRED"

-----------------------------------------------------------------------------
(* The context keeps the promise of CamRequest.  A request runs from the moment it is
   active until its completion is signaled or it is taken off the active list. *)

CtxQueue ==
    LET Id(r) == ctxReq[r].id
        completing == IF ctxThr["done"].pc = "signal" THEN <<Id(ctxThr["done"].r)>> ELSE <<>>
    IN  completing \o [i \in 1..Len(ctx.active) |-> Id(ctx.active[i])]

CtxLife(id) ==
    CASE ctxOut[id] # "wait" -> ctxOut[id]
      [] \E i \in 1..Len(ctx.pending) : ctxReq[ctx.pending[i]].id = id -> "accepted"
      [] \E i \in 1..Len(CtxQueue) : CtxQueue[i] = id -> "running"
      [] OTHER -> "withdrawn"

CtxPromise == INSTANCE CamRequest WITH Ids <- CtxIds,
                                       st <- [id \in CtxIds |-> CtxLife(id)],
                                       queue <- CtxQueue

\* The context implements CamRequest: requests accepted by cam_context_prepare_dev_to_hw
\* are answered once, completed in the order they were applied, and never run or
\* completed after being flushed.
CtxImplements == CtxPromise!Spec
=============================================================================
