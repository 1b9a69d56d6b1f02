------------------------------- MODULE CamNode -------------------------------
(***************************************************************************)
(* A camera device node of cam_core: the array of contexts shared by all     *)
(* users of the node, the list of free contexts, the reference count of each  *)
(* context, the device handles that name contexts, and the ioctls, request-   *)
(* manager calls, fence callbacks and closes that use them concurrently.      *)
(*                                                                         *)
(* An ioctl finds its context by handle (no reference is taken) and then runs  *)
(* the handler of the context's state under ctx_mutex: two steps.  A release   *)
(* is four: find, handler, put the reference, destroy the handle.             *)
(* User threads are 1..NodUsers; 0 is the close of the request manager's own   *)
(* device, which closes every subdevice.                                     *)
(***************************************************************************)
EXTENDS Integers, Sequences, FiniteSets

CONSTANTS NodKinds,   \* the drivers: "isp" counts opens, "icp" has one, "fd" ignores them
          NodN,       \* contexts of the node (CAM_CTX_MAX)
          NodUsers,   \* user threads, each with one file of the node
          NodHdls,    \* bound: handles created in a behaviour
          NodOps,     \* bound: ioctls other than acquire and release, request-manager calls
          NodFaults,  \* bound: acquires that fail
          NodForced   \* bound: closes of the request manager's device

VARIABLES nodDev,     \* the subdevice: driver, open_cnt, holder of its mutex, open files
          nodFree,    \* node->free_ctx_list
          nodCtx,     \* struct cam_context: state, refcount, dev_hdl
          nodHdl,     \* the handle table: the context each handle names, 0 if none
          nodCb,      \* fence callbacks of each context: registered, dispatched
          nodThr,     \* what each thread is in the middle of
          nodG        \* history and bounds

nodVars == <<nodDev, nodFree, nodCtx, nodHdl, nodCb, nodThr, nodG>>

NodCtxs == 1..NodN
NodIds == 1..NodHdls
NodIdle == [pc |-> "idle", op |-> "", h |-> 0, c |-> 0]
NodOnFree(c) == \E i \in DOMAIN nodFree : nodFree[i] = c

\* The handlers of each driver by context state (acquire only in AVAILABLE).
NodTable == [isp |-> [AVAILABLE |-> {},
                      ACQUIRED  |-> {"release", "config", "link"},
                      READY     |-> {"release", "config", "unlink", "start"},
                      ACTIVATED |-> {"release", "config", "stop", "apply"}],
             icp |-> [AVAILABLE |-> {},
                      ACQUIRED  |-> {"release", "config", "start", "flush"},
                      READY     |-> {"release", "config", "stop", "flush"}],
             fd  |-> [AVAILABLE |-> {},
                      ACQUIRED  |-> {"release", "config", "start"},
                      ACTIVATED |-> {"release", "config", "stop", "flush"}]]

NodHandles(c, op) == op \in NodTable[nodDev.kind][nodCtx[c].st]

\* The started state of each driver; the handlers of flush and stop take callbacks back.
NodStarted == [isp |-> "ACTIVATED", icp |-> "READY", fd |-> "ACTIVATED"]

NodInit ==
    /\ \E k \in NodKinds :
       nodDev = [kind |-> k, opens |-> 0, lock |-> -1, files |-> {}]
    /\ nodFree = [i \in NodCtxs |-> i]
    /\ nodCtx = [c \in NodCtxs |-> [st |-> "AVAILABLE", ref |-> 0, hdl |-> 0]]
    /\ nodHdl = [h \in NodIds |-> 0]
    /\ nodCb = [c \in NodCtxs |-> [reg |-> 0, disp |-> 0]]
    /\ nodThr = [t \in 0..NodUsers |-> NodIdle]
    /\ nodG = [made |-> 0, ops |-> NodOps, faults |-> NodFaults, forced |-> NodForced,
               own |-> [c \in NodCtxs |-> 0], twice |-> FALSE, swap |-> FALSE,
               left |-> {}, late |-> FALSE]

-----------------------------------------------------------------------------
(* References. *)

\* cam_context_putref n times: the last reference returns the context to the free list.
NodPut(ctx, c, n) ==
    /\ nodCtx' = [ctx EXCEPT ![c].ref = IF @ < n THEN 0 ELSE @ - n]
    /\ nodFree' = IF n > 0 /\ ctx[c].ref = n THEN Append(nodFree, c) ELSE nodFree

-----------------------------------------------------------------------------
(* open and CAM_ACQUIRE_DEV. *)

\* The ICP subdevice opens once, the others count.
NodOpen(t) ==
    /\ nodThr[t] = NodIdle /\ t \notin nodDev.files /\ nodDev.lock = -1
    /\ nodDev.kind = "icp" => nodDev.opens < 1
    /\ nodDev' = [nodDev EXCEPT !.opens = @ + 1, !.files = @ \cup {t}]
    /\ UNCHANGED <<nodFree, nodCtx, nodHdl, nodCb, nodThr, nodG>>

NodBusy(t) == nodThr[t] = NodIdle /\ t \in nodDev.files

\* Take the first free context and initialise its reference count.
NodTake(t) ==
    /\ NodBusy(t) /\ nodFree # <<>> /\ nodG.made < NodHdls
    /\ nodFree' = Tail(nodFree)
    /\ nodCtx' = [nodCtx EXCEPT ![Head(nodFree)].ref = 1]
    /\ nodThr' = [nodThr EXCEPT ![t] = [NodIdle EXCEPT !.pc = "acq", !.c = Head(nodFree)]]
    /\ UNCHANGED <<nodDev, nodHdl, nodCb, nodG>>

\* Some thread is inside cam_node_shutdown.
NodShutting == \E t \in DOMAIN nodThr : nodThr[t].pc \in {"shut", "shutput", "shutdes"}

\* cam_context_handle_acquire_dev.  With ok the driver creates the device handle;
\* any state but AVAILABLE refuses.
NodAcquire(t, ok) ==
    LET c == nodThr[t].c
        h == nodG.made + 1
        good == ok /\ nodCtx[c].st = "AVAILABLE"
    IN  /\ nodThr[t].pc = "acq" /\ (ok => h \in NodIds)
        /\ ok \/ nodG.faults > 0
        /\ nodCtx' = IF good THEN [nodCtx EXCEPT ![c].st = "ACQUIRED", ![c].hdl = h] ELSE nodCtx
        /\ nodHdl' = IF good THEN [nodHdl EXCEPT ![h] = c] ELSE nodHdl
        /\ nodThr' = [nodThr EXCEPT ![t] = IF good THEN NodIdle ELSE [@ EXCEPT !.pc = "unacq"]]
        /\ nodG' = [nodG EXCEPT !.faults = IF ok THEN @ ELSE @ - 1,
                                !.made = IF good THEN h ELSE @,
                                !.own[c] = IF good THEN h ELSE @,
                                !.late = @ \/ (good /\ (nodDev.opens <= 0 \/ NodShutting))]
        /\ UNCHANGED <<nodDev, nodFree, nodCb>>

NodAcquireFail(t) ==
    /\ nodThr[t].pc = "unacq"
    /\ NodPut(nodCtx, nodThr[t].c, 1)
    /\ nodThr' = [nodThr EXCEPT ![t] = NodIdle]
    /\ UNCHANGED <<nodDev, nodHdl, nodCb, nodG>>

-----------------------------------------------------------------------------
(* Calls by handle: find the context, then run the handler of its state. *)

\* cam_get_device_priv: a handle that is not in the table is refused.
NodFind(t, h, op) ==
    /\ nodHdl[h] # 0
    /\ nodThr' = [nodThr EXCEPT ![t] = [pc |-> "run", op |-> op, h |-> h, c |-> nodHdl[h]]]
    /\ nodG' = [nodG EXCEPT !.ops = IF op = "release" THEN @ ELSE @ - 1]
    /\ UNCHANGED <<nodDev, nodFree, nodCtx, nodHdl, nodCb>>

NodAsk(t, op) == NodBusy(t) /\ nodG.ops > 0 /\ \E h \in NodIds : NodFind(t, h, op)

NodStartDev(t) == NodAsk(t, "start")
NodStopDev(t) == NodAsk(t, "stop")
NodConfigDev(t) == NodAsk(t, "config")
NodFlushDev(t) == nodDev.kind # "isp" /\ NodAsk(t, "flush")
NodReleaseDev(t) == NodBusy(t) /\ \E h \in NodIds : NodFind(t, h, "release")

\* The request manager calls the ISP's contexts by handle too, on its own thread.
NodCrmLink(t) == nodDev.kind = "isp" /\ \E op \in {"link", "unlink"} : NodAsk(t, op)
NodCrmApply(t) == nodDev.kind = "isp" /\ NodAsk(t, "apply")

NodIoctl(t) ==
    \/ NodTake(t)
    \/ NodStartDev(t) \/ NodStopDev(t) \/ NodConfigDev(t) \/ NodFlushDev(t)
    \/ NodReleaseDev(t)

NodRunning(t, op) == nodThr[t].pc = "run" /\ nodThr[t].op = op
NodAnswer(t) == nodThr' = [nodThr EXCEPT ![t] = NodIdle]

\* A handler that only moves the context's state; a state without it refuses.
NodMove(t, op, st) ==
    LET c == nodThr[t].c IN
    /\ NodRunning(t, op) /\ NodAnswer(t)
    /\ nodCtx' = IF NodHandles(c, op) THEN [nodCtx EXCEPT ![c].st = st] ELSE nodCtx
    /\ UNCHANGED <<nodDev, nodFree, nodHdl, nodCb, nodG>>

NodStart(t) == NodMove(t, "start", NodStarted[nodDev.kind])
NodLink(t) == NodMove(t, "link", "READY")
NodUnlink(t) == NodMove(t, "unlink", "ACQUIRED")
NodApply(t) == NodMove(t, "apply", "ACTIVATED")

\* Mutant: the callback is registered without a reference.
NodConfigNoRef(t) ==
    LET c == nodThr[t].c
        fence == NodHandles(c, "config") /\ nodDev.kind # "isp"
    IN  /\ NodRunning(t, "config") /\ NodAnswer(t)
        /\ nodCb' = IF fence THEN [nodCb EXCEPT ![c].reg = @ + 1] ELSE nodCb
        /\ UNCHANGED <<nodDev, nodFree, nodCtx, nodHdl, nodG>>

\* cam_context_getref for the in fence of the request, then its callback.
NodConfig(t) ==
    LET c == nodThr[t].c
        fence == NodHandles(c, "config") /\ nodDev.kind # "isp"
    IN  /\ NodRunning(t, "config") /\ NodAnswer(t)
        /\ nodCtx' = IF fence THEN [nodCtx EXCEPT ![c].ref = IF @ = 0 THEN 0 ELSE @ + 1] ELSE nodCtx
        /\ nodCb' = IF fence THEN [nodCb EXCEPT ![c].reg = @ + 1] ELSE nodCb
        /\ UNCHANGED <<nodDev, nodFree, nodHdl, nodG>>

\* Flush: every callback that can be deregistered gives its reference back.
NodFlush(t) ==
    LET c == nodThr[t].c
        n == IF NodHandles(c, "flush") THEN nodCb[c].reg ELSE 0
    IN  /\ NodRunning(t, "flush") /\ NodAnswer(t)
        /\ NodPut(nodCtx, c, n)
        /\ nodCb' = [nodCb EXCEPT ![c].reg = @ - n]
        /\ UNCHANGED <<nodDev, nodHdl, nodG>>

NodStop(t) ==
    LET c == nodThr[t].c
        ok == NodHandles(c, "stop")
        n == IF ok THEN nodCb[c].reg ELSE 0
        st == IF nodDev.kind = "isp" THEN "READY" ELSE "ACQUIRED"
    IN  /\ NodRunning(t, "stop") /\ NodAnswer(t)
        /\ NodPut(IF ok THEN [nodCtx EXCEPT ![c].st = st] ELSE nodCtx, c, n)
        /\ nodCb' = [nodCb EXCEPT ![c].reg = @ - n]
        /\ UNCHANGED <<nodDev, nodHdl, nodG>>

-----------------------------------------------------------------------------
(* Release. *)

\* cam_context_handle_release_dev: the driver stops the context if it runs (which
\* takes its callbacks back), releases the hardware and forgets the handle.
NodReleaseCtx(c) ==
    LET ok == NodHandles(c, "release")
        n == IF ok /\ nodCtx[c].st = NodStarted[nodDev.kind] THEN nodCb[c].reg ELSE 0
    IN  /\ NodPut(IF ok THEN [nodCtx EXCEPT ![c].st = "AVAILABLE", ![c].hdl = 0] ELSE nodCtx, c, n)
        /\ nodCb' = [nodCb EXCEPT ![c].reg = @ - n]

\* The ioctl: whatever the handler answers, the reference is dropped next.
NodRelease(t) ==
    LET c == nodThr[t].c IN
    /\ NodRunning(t, "release")
    /\ NodReleaseCtx(c)
    /\ nodThr' = [nodThr EXCEPT ![t].pc = "relput"]
    /\ nodG' = [nodG EXCEPT !.twice = @ \/ nodG.own[c] # nodThr[t].h, !.own[c] = 0]
    /\ UNCHANGED <<nodDev, nodHdl>>

NodReleasePut(t) ==
    /\ nodThr[t].pc = "relput"
    /\ NodPut(nodCtx, nodThr[t].c, 1)
    /\ nodThr' = [nodThr EXCEPT ![t].pc = "reldes"]
    /\ UNCHANGED <<nodDev, nodHdl, nodCb, nodG>>

\* Destroy the handle; if that worked, ctx->dev_hdl = -1, whoever has the context now.
NodReleaseDestroy(t) ==
    LET h == nodThr[t].h
        c == nodThr[t].c
        ok == nodHdl[h] # 0
    IN  /\ nodThr[t].pc = "reldes" /\ NodAnswer(t)
        /\ nodHdl' = [nodHdl EXCEPT ![h] = 0]
        /\ nodCtx' = IF ok THEN [nodCtx EXCEPT ![c].hdl = 0] ELSE nodCtx
        /\ nodG' = [nodG EXCEPT !.swap = @ \/ (ok /\ nodCtx[c].hdl # 0)]
        /\ UNCHANGED <<nodDev, nodFree, nodCb>>

-----------------------------------------------------------------------------
(* Close. *)

\* Close of a file, or of the request manager's device (t = 0).  The ISP's subdevice
\* shuts its node down at the last close, the ICP's and FD's at each; FD does so
\* without its mutex.
NodClose(t) ==
    LET opens == nodDev.opens - 1
        refused == nodDev.kind # "fd" /\ nodDev.opens <= 0
        shut == ~refused /\ (nodDev.kind = "isp" => opens = 0)
    IN  /\ nodThr[t] = NodIdle /\ nodDev.lock = -1
        /\ IF t = 0 THEN nodG.forced > 0 ELSE t \in nodDev.files
        /\ nodDev' = [nodDev EXCEPT !.opens = IF refused THEN @ ELSE opens, !.files = @ \ {t},
                                    !.lock = IF shut /\ nodDev.kind # "fd" THEN t ELSE @]
        /\ nodG' = [nodG EXCEPT !.forced = IF t = 0 THEN @ - 1 ELSE @,
                                !.late = @ \/ (shut /\ \E u \in DOMAIN nodThr : nodThr[u].pc = "acq")]
        /\ nodThr' = [nodThr EXCEPT ![t] = IF shut THEN [NodIdle EXCEPT !.pc = "shut", !.c = 1]
                                           ELSE [NodIdle EXCEPT !.pc = "closed"]]
        /\ UNCHANGED <<nodFree, nodCtx, nodHdl, nodCb>>

\* cam_node_shutdown looks at each context in turn; one with a handle is released.
NodShutSkip(t) ==
    LET c == nodThr[t].c IN
    /\ nodThr[t].pc = "shut"
    /\ c \in NodCtxs => nodCtx[c].hdl = 0
    /\ nodThr' = [nodThr EXCEPT ![t] = IF c \in NodCtxs THEN [@ EXCEPT !.c = c + 1]
                                       ELSE [NodIdle EXCEPT !.pc = "closed"]]
    /\ nodDev' = [nodDev EXCEPT !.lock = IF c \notin NodCtxs /\ @ = t THEN -1 ELSE @]
    /\ UNCHANGED <<nodFree, nodCtx, nodHdl, nodCb, nodG>>

\* cam_context_shutdown: only a release that worked drops the reference.
NodShutRelease(t) ==
    LET c == nodThr[t].c IN
    /\ nodThr[t].pc = "shut" /\ c \in NodCtxs /\ nodCtx[c].hdl # 0
    /\ NodReleaseCtx(c)
    /\ nodThr' = [nodThr EXCEPT ![t].pc = IF NodHandles(c, "release") THEN "shutput" ELSE "shutdes"]
    /\ nodG' = [nodG EXCEPT !.own[c] = 0,
                            !.left = IF NodHandles(c, "release") THEN @ \cup {nodCtx[c].hdl} ELSE @]
    /\ UNCHANGED <<nodDev, nodHdl>>

NodShutPut(t) ==
    /\ nodThr[t].pc = "shutput"
    /\ NodPut(nodCtx, nodThr[t].c, 1)
    /\ nodThr' = [nodThr EXCEPT ![t].pc = "shutdes"]
    /\ UNCHANGED <<nodDev, nodHdl, nodCb, nodG>>

\* The handle destroyed is the one in ctx->dev_hdl now: -1 after the release, which
\* leaves the old handle in the table, or the handle of a new user of the context.
NodShutDestroy(t) ==
    LET c == nodThr[t].c
        h == nodCtx[c].hdl
        ok == h # 0 /\ nodHdl[h] # 0
    IN  /\ nodThr[t].pc = "shutdes"
        /\ nodHdl' = IF ok THEN [nodHdl EXCEPT ![h] = 0] ELSE nodHdl
        /\ nodCtx' = IF ok THEN [nodCtx EXCEPT ![c].hdl = 0] ELSE nodCtx
        /\ nodG' = [nodG EXCEPT !.swap = @ \/ (ok /\ nodG.own[c] = h)]
        /\ nodThr' = [nodThr EXCEPT ![t] = [NodIdle EXCEPT !.pc = "shut", !.c = c + 1]]
        /\ UNCHANGED <<nodDev, nodFree, nodCb>>

\* The close returns; that of the request manager's device clears the handle table.
NodClosed(t) ==
    /\ nodThr[t].pc = "closed" /\ NodAnswer(t)
    /\ nodHdl' = IF t = 0 THEN [h \in NodIds |-> 0] ELSE nodHdl
    /\ UNCHANGED <<nodDev, nodFree, nodCtx, nodCb, nodG>>

-----------------------------------------------------------------------------
(* Fences. *)

\* External: cam_sync signals the fence and queues the callback.
NodSignal(c) ==
    /\ nodCb[c].reg > 0
    /\ nodCb' = [nodCb EXCEPT ![c].reg = @ - 1, ![c].disp = @ + 1]
    /\ UNCHANGED <<nodDev, nodFree, nodCtx, nodHdl, nodThr, nodG>>

\* cam_context_sync_callback ends with the put of its reference.
NodCallback(c) ==
    /\ nodCb[c].disp > 0
    /\ nodCb' = [nodCb EXCEPT ![c].disp = @ - 1]
    /\ NodPut(nodCtx, c, 1)
    /\ UNCHANGED <<nodDev, nodHdl, nodThr, nodG>>

-----------------------------------------------------------------------------

NodStep(t) ==
    \/ \E ok \in BOOLEAN : NodAcquire(t, ok)
    \/ NodAcquireFail(t)
    \/ NodStart(t) \/ NodLink(t) \/ NodUnlink(t) \/ NodApply(t)
    \/ NodConfig(t) \/ NodFlush(t) \/ NodStop(t)
    \/ NodRelease(t) \/ NodReleasePut(t) \/ NodReleaseDestroy(t)
    \/ NodShutSkip(t) \/ NodShutRelease(t) \/ NodShutPut(t) \/ NodShutDestroy(t)
    \/ NodClosed(t)

NodCall(t) ==
    \/ t # 0 /\ (NodOpen(t) \/ NodIoctl(t) \/ NodCrmLink(t) \/ NodCrmApply(t))
    \/ NodClose(t)

\* A behaviour ends at the first release that meets a context it does not own.
NodNext ==
    /\ ~nodG.twice
    /\ \/ \E t \in 0..NodUsers : NodCall(t) \/ NodStep(t)
       \/ \E c \in NodCtxs : NodSignal(c) \/ NodCallback(c)

NodSpec == NodInit /\ [][NodNext]_nodVars

-----------------------------------------------------------------------------

\* Every context is on the free list once and without references, or off it with some.
\* No interleaving of acquires, failed acquires, releases, closes and late fence
\* callbacks frees a context twice or loses one, until some release meets a context
\* that it does not own (two releases of a handle, or of a handle left by a close).
NodPlace ==
    ~nodG.twice =>
        /\ \A i, j \in DOMAIN nodFree : nodFree[i] = nodFree[j] => i = j
        /\ \A c \in NodCtxs : NodOnFree(c) <=> nodCtx[c].ref = 0

\* A context on the free list is finished with: its state is AVAILABLE, no callback of
\* its last user can still arrive and no user owns it.
NodSettled ==
    ~nodG.twice => \A c \in NodCtxs : NodOnFree(c) =>
        nodCtx[c].st = "AVAILABLE" /\ nodCb[c] = [reg |-> 0, disp |-> 0] /\ nodG.own[c] = 0

\* The handles that name one context: one, beyond those whose release is under way and
\* those that a close left in the table.
NodDistinct ==
    LET going == nodG.left \cup {nodThr[t].h : t \in {u \in DOMAIN nodThr : nodThr[u].pc \in {"relput", "reldes"}}}
    IN  ~nodG.twice => \A g, h \in NodIds \ going :
            nodHdl[g] # 0 /\ nodHdl[g] = nodHdl[h] => g = h

\* A context in use carries the handle of its user, so a close of the node finds it;
\* except after the end of a release or close met the context's next user (swap).
NodKnown ==
    ~nodG.twice /\ ~nodG.swap => \A c \in NodCtxs :
        nodG.own[c] # 0 => nodCtx[c].hdl = nodG.own[c] /\ nodCtx[c].st # "AVAILABLE"

\* A node whose last file is closed has every context back, but for references of fence
\* callbacks that have not run; unless an acquire crossed the shutdown, or came after the
\* close of the request manager's device had closed the node under it.
NodAllBack ==
    nodDev.opens <= 0 /\ (\A t \in DOMAIN nodThr : nodThr[t] = NodIdle)
        /\ ~nodG.twice /\ ~nodG.swap /\ ~nodG.late =>
        \A c \in NodCtxs : /\ nodCtx[c].st = "AVAILABLE" /\ nodG.own[c] = 0
                           /\ nodCtx[c].ref = nodCb[c].reg + nodCb[c].disp

\* A context of the node is free or has one holder, its references are exactly its
\* users, and the last close gives all of them back.
NodSafe ==
    /\ NodPlace /\ NodSettled /\ NodDistinct /\ NodKnown /\ NodAllBack
=============================================================================
