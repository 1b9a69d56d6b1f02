--------------------------------- MODULE FdMgr ---------------------------------
(***************************************************************************)
(* The face detection manager and core: frames of several contexts share one  *)
(* engine.  One worker submits frames and handles interrupts; ioctls prepare,  *)
(* configure, flush, start and stop.  A step is a region under one mutex.       *)
(* hw_ctx->priority is never assigned, so every frame goes through the high     *)
(* priority list, fd.pend.  UMD configures only a started context.              *)
(***************************************************************************)
EXTENDS Naturals, Sequences, SequencesExt, FiniteSets

CONSTANTS FdNCtx,    \* contexts
          FdNReq,    \* frame objects (CAM_CTX_REQ_MAX)
          FdTasks,   \* tasks of the work queue (CAM_FD_WORKQ_NUM_TASK)
          FdMaxId,   \* bound: requests of a behaviour
          FdStarts,  \* bound: starts of a behaviour
          FdFaults   \* bound: CDM failures of a behaviour

ASSUME FdAssumption == {FdNCtx, FdNReq, FdTasks, FdMaxId, FdStarts, FdFaults} \subseteq Nat

FdCtxs == 1..FdNCtx
FdReqs == 1..FdNReq
FdIds == 1..FdMaxId

VARIABLES fd,       \* frame lists: free, pend, proc; the task queue
          fdReq,    \* request id and context in each frame object
          fdDev,    \* device: ready_to_process, cur_hw_ctx (0 when ready: it is not read)
          fdCore,   \* core: state, results_valid, hw_req_private (0 when no result can
                    \* follow), open_count
          fdCtx,    \* contexts: acquired, started, and the flush in progress
          fdW,      \* the worker: pc, frame in hand, what it will report
          fdIds,    \* each request: its context, object, and what became of it
          fdGhost   \* history and budgets

fdVars == <<fd, fdReq, fdDev, fdCore, fdCtx, fdW, fdIds, fdGhost>>

FdIdle == [pc |-> "idle", o |-> 0, abort |-> FALSE]
FdNoCtx == [st |-> "free", pc |-> "none", put |-> {}]
FdNoId == [c |-> 0, o |-> 0, st |-> "none"]

\* A request the context has done with.
FdOver(st) == [FdNoId EXCEPT !.st = st]

FdInit ==
    /\ fd = [free |-> [o \in FdReqs |-> o], pend |-> <<>>, proc |-> <<>>, tasks |-> <<>>]
    /\ fdReq = [o \in FdReqs |-> [id |-> 0, c |-> 0]]
    /\ fdDev = [ready |-> TRUE, cur |-> 0]
    /\ fdCore = [st |-> "DOWN", valid |-> FALSE, req |-> 0, open |-> 0]
    /\ fdCtx = [c \in FdCtxs |-> FdNoCtx]
    /\ fdW = FdIdle
    /\ fdIds = [id \in FdIds |-> FdNoId]
    /\ fdGhost = [torn |-> FALSE, leak |-> FALSE, strand |-> FALSE, noise |-> FALSE,
                  starts |-> FdStarts, faults |-> FdFaults]

-----------------------------------------------------------------------------
(* Frame lists *)

FdGone(f, O) == LET keep(o) == o \notin O
                IN  [f EXCEPT !.free = SelectSeq(@, keep), !.pend = SelectSeq(@, keep),
                              !.proc = SelectSeq(@, keep)]

\* Put a frame at the tail of a list, after taking it off the list it is on.
FdPut(f, list, o) == LET g == FdGone(f, {o}) IN [g EXCEPT ![list] = Append(@, o)]

\* Queue a task; no free task: nothing is queued.
FdRoom == Len(fd.tasks) < FdTasks

FdEnqueue(f, t) == [f EXCEPT !.tasks = IF FdRoom THEN Append(@, t) ELSE @]

FdBusy(o) == o \in Range(fd.pend) \cup Range(fd.proc) \cup {fdW.o}

\* The fields of a free frame object that nobody holds are dead: prepare sets them.
FdClear(f, w, ids) == [o \in FdReqs |->
    IF o \in Range(f.free) /\ o # w /\ \A id \in FdIds : ids[id].o # o
    THEN [id |-> 0, c |-> 0] ELSE fdReq[o]]

-----------------------------------------------------------------------------
(* ioctls *)

FdQuiet(c) == fdCtx[c].pc = "none"

\* The free contexts are alike: take the first.
FdAcquire(c) ==
    /\ \A k \in 1..(c - 1) : fdCtx[k].st # "free"
    /\ FdQuiet(c) /\ fdCtx[c].st = "free" /\ fdGhost.starts > 0
    /\ fdCtx' = [fdCtx EXCEPT ![c].st = "acquired"]
    /\ UNCHANGED <<fd, fdReq, fdDev, fdCore, fdW, fdIds, fdGhost>>

FdRelease(c) ==
    /\ FdQuiet(c) /\ fdCtx[c].st = "acquired"
    /\ fdCtx' = [fdCtx EXCEPT ![c] = FdNoCtx]
    /\ UNCHANGED <<fd, fdReq, fdDev, fdCore, fdW, fdIds, fdGhost>>

\* The first start powers the core up and resets it; the reset interrupt queues a
\* task.  A CDM stream-on failure undoes the count.
FdHwInit(ok) ==
    /\ fdCore' = CASE ~ok -> fdCore
                   [] fdCore.open = 0 -> [fdCore EXCEPT !.st = "IDLE", !.open = 1]
                   [] OTHER -> [fdCore EXCEPT !.open = @ + 1]
    /\ fd' = IF fdCore.open = 0 THEN FdEnqueue(fd, "reset") ELSE fd

FdStart(c) ==
    /\ FdQuiet(c) /\ fdCtx[c].st = "acquired" /\ fdGhost.starts > 0
    /\ \E ok \in BOOLEAN :
          /\ ok \/ fdGhost.faults > 0
          /\ FdHwInit(ok)
          /\ fdCtx' = IF ok THEN [fdCtx EXCEPT ![c].st = "started"] ELSE fdCtx
          /\ fdGhost' = [fdGhost EXCEPT !.starts = @ - 1,
                                        !.noise = @ \/ fdW.pc # "idle" \/ fd.tasks # <<>>,
                                        !.faults = IF ok THEN @ ELSE @ - 1]
    /\ UNCHANGED <<fdReq, fdDev, fdW, fdIds>>

\* Take a free frame object for a request, which then waits for its input fences.
FdPrepare(c) ==
    /\ FdQuiet(c) /\ fdCtx[c].st = "started" /\ fd.free # <<>>
    /\ \E id \in FdIds :
         LET o == Head(fd.free) IN
         /\ fdIds[id] = FdNoId /\ \A j \in FdIds : j < id => fdIds[j] # FdNoId
         /\ fd' = [fd EXCEPT !.free = Tail(@)]
         /\ fdReq' = [fdReq EXCEPT ![o] = [id |-> id, c |-> c]]
         /\ fdIds' = [fdIds EXCEPT ![id] = [c |-> c, o |-> o, st |-> "held"]]
         /\ fdGhost' = [fdGhost EXCEPT !.torn = @ \/ FdBusy(o)]
    /\ UNCHANGED <<fdDev, fdCore, fdCtx, fdW>>

\* Queue the frame and a task.  With no task left the head of the list, which may be
\* another request's frame, goes back to the free list.
FdConfig(id) ==
    /\ fdIds[id].st = "held" /\ FdQuiet(fdIds[id].c)
    /\ LET o == fdIds[id].o
           f == FdPut(fd, "pend", o)
       IN  IF FdRoom
           THEN /\ fd' = FdEnqueue(f, "frame")
                /\ fdIds' = [fdIds EXCEPT ![id].st = "owed"]
                /\ UNCHANGED fdGhost
           ELSE /\ fd' = FdPut(f, "free", Head(f.pend))
                /\ fdIds' = [fdIds EXCEPT ![id] = FdOver("over")]
                /\ fdGhost' = IF Head(f.pend) = o THEN fdGhost
                              ELSE [fdGhost EXCEPT !.torn = TRUE]
    /\ UNCHANGED <<fdReq, fdDev, fdCore, fdCtx, fdW>>

\* Stop the core; the reset interrupt queues a task.
FdHaltReset(f) == FdEnqueue(f, "reset")

FdStopsHw(c, o) == /\ o \in Range(fd.proc) /\ ~fdDev.ready /\ fdDev.cur = c
                   /\ fdCore.st \notin {"DOWN"}

\* The frames of the context leave pending and processing lists; one that the hardware
\* works on is stopped.
FdFlushLists(c, O, stopped) ==
    /\ fd' = LET g == [FdGone(fd, O) EXCEPT !.free = fd.free]
             IN  IF stopped THEN FdHaltReset(g) ELSE g
    /\ fdDev' = IF stopped THEN [ready |-> TRUE, cur |-> 0] ELSE fdDev
    /\ fdCore' = IF stopped THEN [fdCore EXCEPT !.st = "IDLE", !.valid = FALSE, !.req = 0]
                ELSE fdCore

FdActive(c) == {id \in FdIds : fdIds[id].c = c /\ fdIds[id].st = "owed"}

FdHeld(c) == {id \in FdIds : fdIds[id].c = c /\ fdIds[id].st = "held"}

FdFlushed(I) == [id \in FdIds |-> IF id \in I THEN FdOver("over") ELSE fdIds[id]]

\* The request's frame is in the worker's hand, or was dropped and may be another's now.
FdElsewhere(id) == LET o == fdIds[id].o
                   IN  o = fdW.o \/ fdReq[o].id # id \/ o \in Range(fd.free)

\* FLUSH_TYPE_ALL (and stop, which flushes first): lists under frame_req_mutex, then the
\* objects one by one back to the free list.
FdFlushCtx(c, next) ==
    /\ FdQuiet(c) /\ fdCtx[c].st = "started"
    /\ LET I == FdActive(c) \cup FdHeld(c)
           O == {o \in Range(fd.pend) \cup Range(fd.proc) : I # {} /\ fdReq[o].c = c}
       IN  /\ next = "flush" => I # {}
           /\ FdFlushLists(c, O, \E o \in O : FdStopsHw(c, o))
           /\ fdCtx' = [fdCtx EXCEPT ![c].pc = next,
                                     ![c].put = {fdIds[i].o : i \in I}]
           /\ fdIds' = FdFlushed(I)
           /\ fdGhost' = [fdGhost EXCEPT !.noise = @ \/ O # {},
                                         !.leak = @ \/ ~(O \subseteq {fdIds[i].o : i \in I}),
                                         !.torn = @ \/ \E i \in I : FdElsewhere(i),
                                         !.strand = @ \/ (O # {} /\ ~FdRoom)]
    /\ UNCHANGED <<fdReq, fdW>>

FdFlushPut(c) ==
    /\ fdCtx[c].put # {}
    /\ LET o == CHOOSE x \in fdCtx[c].put : TRUE
       IN  /\ fd' = FdPut(fd, "free", o)
           /\ fdCtx' = [fdCtx EXCEPT ![c].put = @ \ {o},
                  ![c].pc = IF @ = "flush" /\ fdCtx[c].put = {o} THEN "none" ELSE @]
    /\ fdReq' = FdClear(fd', fdW.o, fdIds)
    /\ UNCHANGED <<fdDev, fdCore, fdW, fdIds, fdGhost>>

\* The end of a stop: the last stop powers the core down.
FdHwStop(c) ==
    /\ fdCtx[c].pc = "stop" /\ fdCtx[c].put = {}
    /\ fdCore' = IF fdCore.open = 1
                 THEN [fdCore EXCEPT !.open = 0, !.st = "DOWN", !.valid = FALSE, !.req = 0]
                 ELSE [fdCore EXCEPT !.open = @ - 1]
    /\ fdCtx' = [fdCtx EXCEPT ![c].pc = "none", ![c].st = "acquired"]
    /\ fdGhost' = [fdGhost EXCEPT !.strand = @ \/ (fdCore.st = "PROCESSING" /\ fdCore.open = 1)]
    /\ UNCHANGED <<fd, fdReq, fdDev, fdW, fdIds>>

\* FLUSH_TYPE_REQ: a frame waiting for its fences goes back to the free list; a submitted
\* one leaves its list and is not put anywhere.
FdFlushReq(id) ==
    LET c == fdIds[id].c
        o == fdIds[id].o
        O == {x \in {o} : x \in Range(fd.pend) \cup Range(fd.proc) /\ fdReq[x] = [id |-> id, c |-> c]}
    IN  /\ fdIds[id].st \in {"owed", "held"} /\ FdQuiet(c)
        /\ fdIds' = FdFlushed({id})
        /\ IF fdIds[id].st = "held"
           THEN /\ fd' = FdPut(fd, "free", o)
                /\ UNCHANGED <<fdDev, fdCore, fdGhost>>
           ELSE /\ FdFlushLists(c, O, \E x \in O : FdStopsHw(c, x))
                /\ fdGhost' = [fdGhost EXCEPT !.leak = @ \/ O # {}, !.noise = @ \/ O # {},
                                              !.strand = @ \/ (O # {} /\ ~FdRoom)]
        /\ fdReq' = FdClear(fd', fdW.o, fdIds')
        /\ UNCHANGED <<fdCtx, fdW>>

FdIoctl == \/ \E c \in FdCtxs : \/ FdAcquire(c) \/ FdRelease(c) \/ FdStart(c) \/ FdPrepare(c)
                                \/ FdFlushCtx(c, "flush") \/ FdFlushCtx(c, "stop")
           \/ \E id \in FdIds : FdConfig(id) \/ FdFlushReq(id)

FdFlushing(c) == FdFlushPut(c) \/ FdHwStop(c)

-----------------------------------------------------------------------------
(* The hardware and the worker *)

\* The frame-done interrupt.
FdHwDone ==
    /\ fdCore.st = "PROCESSING"
    /\ fdCore' = [fdCore EXCEPT !.st = "IDLE", !.valid = TRUE]
    /\ fd' = FdEnqueue(fd, "done")
    /\ fdGhost' = [fdGhost EXCEPT !.strand = @ \/ ~FdRoom, !.noise = @ \/ ~FdRoom]
    /\ UNCHANGED <<fdReq, fdDev, fdCtx, fdW, fdIds>>

\* The worker takes the next task; for an interrupt also the frame at the head of the
\* processing list, if there is one.
FdTask ==
    /\ fdW.pc = "idle" /\ fd.tasks # <<>>
    /\ LET t == Head(fd.tasks)
           has == t # "frame" /\ fd.proc # <<>>
       IN  /\ fd' = [fd EXCEPT !.tasks = Tail(@), !.proc = IF has THEN Tail(@) ELSE @]
           /\ fdW' = IF has THEN [pc |-> IF t = "done" THEN "read" ELSE "notify",
                                  o |-> Head(fd.proc), abort |-> t # "done"]
                     ELSE [FdIdle EXCEPT !.pc = "submit"]
    /\ UNCHANGED <<fdReq, fdDev, fdCore, fdCtx, fdIds, fdGhost>>

\* Read the results of the frame out of the core.
FdRead ==
    LET ok == fdCore.st = "IDLE" /\ fdCore.valid /\ fdCore.req # 0 IN
    /\ fdW.pc = "read"
    /\ fdCore' = IF ok THEN [fdCore EXCEPT !.req = 0, !.valid = FALSE] ELSE fdCore
    /\ fdW' = [fdW EXCEPT !.pc = "notify", !.abort = ~ok]
    /\ UNCHANGED <<fd, fdReq, fdDev, fdCtx, fdIds, fdGhost>>

\* event_cb: the context completes the request, if it still has it.
FdNotify ==
    /\ fdW.pc = "notify"
    /\ LET id == fdReq[fdW.o].id
       IN  fdIds' = IF fdIds[id].st = "owed"
                    THEN [fdIds EXCEPT ![id] = FdOver(IF fdW.abort THEN "aborted" ELSE "over")]
                    ELSE fdIds
    /\ fdW' = [fdW EXCEPT !.pc = "ready"]
    /\ UNCHANGED <<fd, fdReq, fdDev, fdCore, fdCtx, fdGhost>>

\* The device may take the next frame; the object is free again.
FdReady ==
    /\ fdW.pc = "ready"
    /\ fdDev' = [ready |-> TRUE, cur |-> 0]
    /\ fd' = FdPut(fd, "free", fdW.o)
    /\ fdW' = [FdIdle EXCEPT !.pc = "submit"]
    /\ fdReq' = FdClear(fd', 0, fdIds)
    /\ UNCHANGED <<fdCore, fdCtx, fdIds, fdGhost>>

\* Start the next pending frame on a ready device; req is what the core remembers of it.
FdSubmitWith(req(_)) ==
    /\ fdW.pc = "submit"
    /\ IF fd.pend = <<>> \/ ~fdDev.ready
       THEN /\ fdW' = FdIdle
            /\ UNCHANGED <<fd, fdDev, fdCore, fdGhost>>
       ELSE \E ok \in BOOLEAN :
              LET o == Head(fd.pend)
                  c == fdReq[o].c
                  starts == fdCore.st = "IDLE"
              IN  /\ fd' = [fd EXCEPT !.pend = Tail(@)]
                  /\ ok = starts \/ (starts /\ fdGhost.faults > 0)
                  /\ fdW' = [fdW EXCEPT !.pc = IF ok THEN "enlist" ELSE "drop", !.o = o]
                  /\ fdCore' = IF starts
                               THEN [fdCore EXCEPT !.st = IF ok THEN "PROCESSING" ELSE "IDLE",
                                                   !.req = IF ok THEN req(o) ELSE 0, !.valid = FALSE]
                               ELSE fdCore
                  /\ fdDev' = IF ok THEN [ready |-> FALSE, cur |-> c] ELSE fdDev
                  /\ fdGhost' = [fdGhost EXCEPT !.noise = @ \/ ~ok, !.strand = @ \/ ~ok,
                                    !.faults = IF starts /\ ~ok THEN @ - 1 ELSE @]
    /\ UNCHANGED <<fdReq, fdCtx, fdIds>>

\* Mutant: the core keeps the frame whose results nobody read.
FdSubmitKeep == FdSubmitWith(LAMBDA o : IF fdCore.req = 0 THEN o ELSE fdCore.req)

FdSubmit == FdSubmitWith(LAMBDA o : o)

\* Put the started frame on the processing list, or the refused one on the free list.
FdEnlist ==
    /\ fdW.pc \in {"enlist", "drop"}
    /\ fd' = FdPut(fd, IF fdW.pc = "enlist" THEN "proc" ELSE "free", fdW.o)
    /\ fdW' = FdIdle
    /\ fdReq' = FdClear(fd', 0, fdIds)
    /\ UNCHANGED <<fdDev, fdCore, fdCtx, fdIds, fdGhost>>

FdWorker == FdTask \/ FdRead \/ FdNotify \/ FdReady \/ FdSubmit \/ FdEnlist

FdNext == FdIoctl \/ (\E c \in FdCtxs : FdFlushing(c)) \/ FdHwDone \/ FdWorker

FdSpec == FdInit /\ [][FdNext]_fdVars

-----------------------------------------------------------------------------
(* Properties *)

\* Values and bounds of the state.
FdTypeOK ==
    /\ Range(fd.free) \cup Range(fd.pend) \cup Range(fd.proc) \subseteq FdReqs
    /\ Len(fd.tasks) <= FdTasks /\ Range(fd.tasks) \subseteq {"frame", "done", "reset"}
    /\ fdDev.ready \in BOOLEAN /\ fdDev.cur \in 0..FdNCtx
    /\ fdCore.st \in {"DOWN", "IDLE", "PROCESSING"} /\ fdCore.req \in 0..FdNReq
    /\ fdCore.open \in 0..FdNCtx

FdHoldersOf(o) == {id \in FdIds : fdIds[id].o = o /\ fdIds[id].st = "held"}

\* A frame object that no flush and no refused submission took from its user is in one
\* place: a list, the worker's hand, a request waiting for its fences, or leaked by a
\* flush of one request.
FdOneHome ==
    \/ fdGhost.torn
    \/ \A o \in FdReqs : LET n ==
        Len(SelectSeq(fd.free \o fd.pend \o fd.proc, LAMBDA x : x = o))
        + Cardinality(FdHoldersOf(o))
        + (IF fdW.o = o THEN 1 ELSE 0)
        + Cardinality({c \in FdCtxs : o \in fdCtx[c].put /\ o \notin Range(fd.free)})
        IN  n = 1 \/ (n = 0 /\ fdGhost.leak)

\* The results the worker is about to read were produced by the frame in its hand, however
\* flushes, resets and late interrupts interleave.
FdResultsMatch ==
    fdW.pc = "read" /\ fdCore.st = "IDLE" /\ fdCore.valid /\ fdCore.req # 0
        => fdCore.req = fdW.o

\* The core is powered exactly while a context is started, once each.
FdPowered == /\ fdCore.open = Cardinality({c \in FdCtxs : fdCtx[c].st = "started"})
             /\ fdCore.st = "DOWN" <=> fdCore.open = 0

\* A device that is not ready has a frame that will make it ready.
FdBusyHasFrame ==
    fdDev.ready \/ fdGhost.strand \/ fdGhost.torn \/ fd.proc # <<>> \/ fdW.pc \in {"read", "notify", "ready", "enlist"}

\* With no flush, no lost task and no failed submission a frame is never reported aborted.
FdTruth == fdGhost.noise \/ \A id \in FdIds : fdIds[id].st # "aborted"

\* A pending frame never waits for a worker that has nothing to do while the device is
\* ready, unless a submission failed or a task was lost before it.
FdNoIdle == fd.pend # <<>> /\ fdDev.ready /\ fdW.pc = "idle" /\ fd.tasks = <<>>
                => fdGhost.strand \/ fdGhost.torn

\* Frames, core and reports of the manager agree whatever fails or is flushed.
FdSafe ==
    /\ FdTypeOK /\ FdOneHome /\ FdResultsMatch /\ FdPowered /\ FdBusyHasFrame
    /\ FdTruth /\ FdNoIdle
=============================================================================
