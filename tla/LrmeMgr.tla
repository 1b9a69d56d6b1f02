-------------------------------- MODULE LrmeMgr --------------------------------
(***************************************************************************)
(* The low resolution motion estimation manager and core.  A frame worker      *)
(* hands pending frames to the core, which holds one submitted and one running  *)
(* frame; an interrupt worker moves them on; ioctls configure, flush, start and  *)
(* stop.  A step is a region under one lock.  Each frame object is used once:    *)
(* reuse of an object somebody still holds is studied in FdMgr.                   *)
(***************************************************************************)
EXTENDS Naturals, Sequences, SequencesExt, FiniteSets

CONSTANTS LrNCtx,    \* contexts
          LrNReq,    \* frames of a behaviour
          LrTasks,   \* tasks of the frame work queue
          LrIrqs,    \* tasks of the interrupt work queue
          LrStarts,  \* bound: starts
          LrFaults   \* bound: hardware errors, reset timeouts, CDM failures

ASSUME LrAssumption == {LrNCtx, LrNReq, LrTasks, LrIrqs, LrStarts, LrFaults} \subseteq Nat

LrCtxs == 1..LrNCtx
LrReqs == 1..LrNReq

VARIABLES lrPend,    \* the device's pending list
          lrHand,    \* the frame the frame worker took off it, 0 if none
          lrTasks,   \* queued frame tasks
          lrIrqq,    \* queued interrupt tasks
          lrCore,    \* core: state, req_submit, req_proc, open_count
          lrHw,      \* the engine: "idle", told to "go", "run"
          lrCtx,     \* contexts: started, and the flush in progress
          lrReq,     \* each frame: its context and what became of it
          lrGhost    \* history and budgets

lrVars == <<lrPend, lrHand, lrTasks, lrIrqq, lrCore, lrHw, lrCtx, lrReq, lrGhost>>

LrNoReq == [c |-> 0, st |-> "none"]

LrInit ==
    /\ lrPend = <<>> /\ lrHand = 0 /\ lrTasks = 0 /\ lrIrqq = <<>> /\ lrHw = "idle"
    /\ lrCore = [st |-> "INIT", submit |-> 0, proc |-> 0, open |-> 0]
    /\ lrCtx = [c \in LrCtxs |-> [on |-> FALSE, pc |-> "none", r |-> 0]]
    /\ lrReq = [r \in LrReqs |-> LrNoReq]
    /\ lrGhost = [strand |-> FALSE, dead |-> FALSE, escaped |-> {}, lost |-> {}, starts |-> LrStarts,
                  faults |-> LrFaults]

LrIrq(q, t) == IF Len(q) < LrIrqs THEN Append(q, t) ELSE q

LrTask(n) == IF n < LrTasks THEN n + 1 ELSE n

\* The frames I get their result or are freed, of the frames J the caller thinks so.
LrEnded == [c |-> 0, st |-> "over"]
LrOver(I, J) == [r \in LrReqs |-> IF r \in I THEN LrEnded
                                 ELSE IF r \in J THEN [lrReq[r] EXCEPT !.st = "flushed"] ELSE lrReq[r]]

LrBusy == {"REQ_PENDING", "PROCESSING", "REQ_PROC_PEND"}

\* A fault of the budget, or none.
LrFault(f) == f => lrGhost.faults > 0

LrSpent(f) == IF f THEN lrGhost.faults - 1 ELSE lrGhost.faults

-----------------------------------------------------------------------------
(* ioctls *)

LrQuiet(c) == lrCtx[c].pc = "none"

LrHwStart(f) ==
    CASE lrCore.open > 0 -> [lrCore EXCEPT !.open = @ + 1]
      [] f -> lrCore
      [] OTHER -> [lrCore EXCEPT !.open = 1, !.st = "IDLE"]

\* The manager overwrites the result of the core's start: the context counts as started
\* although the core is down.
LrStart(c) ==
    /\ LrQuiet(c) /\ ~lrCtx[c].on /\ lrGhost.starts > 0
    /\ \E f \in BOOLEAN :
         /\ f => lrCore.open = 0 /\ lrGhost.faults > 0
         /\ lrCore' = LrHwStart(f)
         /\ lrCtx' = [lrCtx EXCEPT ![c].on = TRUE]
         /\ lrGhost' = [lrGhost EXCEPT !.starts = @ - 1, !.faults = LrSpent(f), !.dead = @ \/ f]
    /\ UNCHANGED <<lrPend, lrHand, lrTasks, lrIrqq, lrHw, lrReq>>

\* Bound: the contexts configure in turn.
LrTurn(r) == 1 + ((r - 1) % LrNCtx)

\* Prepare and config: a frame is queued with a task for the frame worker.  The request
\* stays queued when no task is left.
LrConfig(c) ==
    /\ LrQuiet(c)
    /\ \E r \in LrReqs :
         /\ c = LrTurn(r) /\ lrReq[r] = LrNoReq /\ \A k \in LrReqs : k < r => lrReq[k] # LrNoReq
         /\ lrReq' = [lrReq EXCEPT ![r] = [c |-> c, st |-> "owed"]]
         /\ lrPend' = Append(lrPend, r)
    /\ lrTasks' = LrTask(lrTasks)
    /\ lrGhost' = [lrGhost EXCEPT !.strand = @ \/ lrTasks = LrTasks]
    /\ UNCHANGED <<lrHand, lrIrqq, lrCore, lrHw, lrCtx>>

LrHeld == {lrCore.submit, lrCore.proc} \ {0}

LrMine(c) == {r \in LrReqs : lrReq[r].c = c /\ lrReq[r].st = "owed"}

\* First half of a flush of the frames I: what is on the pending list is freed; a frame
\* that is not is left to the core.
LrFlushLists(c, I, next) ==
    LET rest == I \ Range(lrPend)
    IN  /\ LrQuiet(c) /\ lrCtx[c].on
        /\ lrPend' = SelectSeq(lrPend, LAMBDA r : r \notin I)
        /\ lrReq' = LrOver(I \ (LrHeld \cup {lrHand}), I)
        /\ lrCtx' = [lrCtx EXCEPT ![c].pc = next,
                                  ![c].r = IF rest = {} THEN 0 ELSE Max(rest)]
        /\ lrGhost' = [lrGhost EXCEPT !.escaped = @ \cup (rest \cap {lrHand})]
        /\ UNCHANGED <<lrHand, lrTasks, lrIrqq, lrCore, lrHw>>

LrFlushAll(c) == LrMine(c) # {} /\ LrFlushLists(c, LrMine(c), "flush")

LrFlushOne(c) == \E r \in LrMine(c) : LrFlushLists(c, {r}, "flushone")

LrStop(c) == LrFlushLists(c, LrMine(c), "stop")

\* Mutant: the state does not say that a frame is submitted again.
LrResubmitIdle(keep) == [lrCore EXCEPT !.st = "IDLE", !.proc = 0,
                                     !.submit = IF keep = {} THEN 0 ELSE CHOOSE r \in keep : TRUE]

\* What survives a reset of the core is submitted again.
LrResubmit(keep) ==
    IF keep = {} THEN [lrCore EXCEPT !.st = "IDLE", !.submit = 0, !.proc = 0]
    ELSE [lrCore EXCEPT !.st = "REQ_PENDING", !.submit = CHOOSE r \in keep : TRUE, !.proc = 0]

\* m is the context of a flush of all requests, 0 for a flush of request r.
LrDrops(x, r, m) == IF m = 0 THEN x = r ELSE lrReq[x].c = m

\* Second half of a flush: the core is reset when it holds a frame to flush; a reset that
\* times out leaves everything as it was.  The context is read from the frame, which may
\* have been completed and zeroed since the lists were searched: zero is the first context.
LrHwFlush(c) ==
    LET r == lrCtx[c].r
        cleared == r \notin LrHeld \cup {lrHand} \cup Range(lrPend) \cup lrGhost.lost
    IN  /\ lrCtx[c].pc \in {"flush", "flushone", "stop"} /\ r # 0
        /\ \E f \in BOOLEAN, m \in {c} \cup (IF cleared THEN {1} ELSE {}) :
             LET out == {x \in LrHeld : LrDrops(x, r, IF lrCtx[c].pc = "flushone" THEN 0 ELSE m)}
                 reset == lrCore.st \in LrBusy /\ out # {}
             IN  /\ f => reset /\ lrGhost.faults > 0
                 /\ IF reset /\ ~f
                    THEN /\ lrCore' = LrResubmit(LrHeld \ out)
                         /\ lrHw' = IF LrHeld \subseteq out THEN "idle" ELSE "go"
                         /\ lrReq' = LrOver({x \in out : lrReq[x].st = "flushed"}, {})
                    ELSE UNCHANGED <<lrCore, lrHw, lrReq>>
                 /\ lrGhost' = [lrGhost EXCEPT
                        !.faults = LrSpent(f), !.strand = @ \/ (reset /\ ~f),
                        !.escaped = IF f THEN @ \cup out ELSE @,
                        !.lost = IF f THEN @ ELSE @ \cup {x \in out : lrReq[x].st = "owed"}]
        /\ lrCtx' = [lrCtx EXCEPT ![c].r = 0, ![c].pc = IF @ = "stop" THEN @ ELSE "none"]
        /\ UNCHANGED <<lrPend, lrHand, lrTasks, lrIrqq>>

\* The end of a flush that had nothing for the core, and of a stop; the last stop powers
\* the core down and forgets its frames.
LrFlushEnd(c) ==
    /\ lrCtx[c].pc \in {"flush", "flushone"} /\ lrCtx[c].r = 0
    /\ lrCtx' = [lrCtx EXCEPT ![c].pc = "none"]
    /\ UNCHANGED <<lrPend, lrHand, lrTasks, lrIrqq, lrCore, lrHw, lrReq, lrGhost>>

LrHwStop(c) ==
    /\ lrCtx[c].pc = "stop" /\ lrCtx[c].r = 0
    /\ lrCtx' = [lrCtx EXCEPT ![c].pc = "none", ![c].on = FALSE]
    /\ CASE lrCore.open = 0 -> UNCHANGED <<lrCore, lrHw, lrReq, lrGhost>>
         [] lrCore.open > 1 -> /\ lrCore' = [lrCore EXCEPT !.open = @ - 1]
                               /\ UNCHANGED <<lrHw, lrReq, lrGhost>>
         [] OTHER ->
              /\ lrCore' = [open |-> 0, submit |-> 0, proc |-> 0,
                            st |-> IF lrCore.st = "IDLE" THEN "INIT" ELSE lrCore.st]
              /\ lrHw' = "idle"
              /\ lrGhost' = [lrGhost EXCEPT !.lost = @ \cup {x \in LrHeld : lrReq[x].st = "owed"},
                                            !.strand = TRUE]
              /\ lrReq' = LrOver({x \in LrHeld : lrReq[x].st = "flushed"}, {})
    /\ UNCHANGED <<lrPend, lrHand, lrTasks, lrIrqq>>

LrIoctl == \E c \in LrCtxs : \/ LrStart(c) \/ LrConfig(c) \/ LrStop(c) \/ LrFlushAll(c)
                             \/ LrFlushOne(c) \/ LrHwFlush(c) \/ LrFlushEnd(c) \/ LrHwStop(c)

-----------------------------------------------------------------------------
(* The frame worker *)

LrTake ==
    /\ lrTasks > 0 /\ lrHand = 0
    /\ lrTasks' = lrTasks - 1
    /\ IF lrPend = <<>> THEN UNCHANGED <<lrHand, lrPend>>
       ELSE lrHand' = Head(lrPend) /\ lrPend' = Tail(lrPend)
    /\ UNCHANGED <<lrIrqq, lrCore, lrHw, lrCtx, lrReq, lrGhost>>

LrAccepts == lrCore.open > 0 /\ lrCore.st \in {"IDLE", "PROCESSING"} /\ lrCore.submit = 0

LrPutBack == <<lrHand>> \o lrPend

\* The core takes the frame, or it goes back to the head of the list; nothing retries a
\* submission that failed for another reason than a busy core.
LrSubmit ==
    /\ lrHand # 0 /\ lrHand' = 0
    /\ \E f \in BOOLEAN :
         /\ f => LrAccepts /\ lrGhost.faults > 0
         /\ IF LrAccepts /\ ~f
            THEN /\ lrCore' = [lrCore EXCEPT !.submit = lrHand,
                    !.st = IF @ = "IDLE" THEN "REQ_PENDING" ELSE "REQ_PROC_PEND"]
                 /\ lrHw' = IF lrCore.st = "IDLE" THEN "go" ELSE lrHw
                 /\ UNCHANGED lrPend
            ELSE /\ lrPend' = LrPutBack
                 /\ UNCHANGED <<lrCore, lrHw>>
         /\ lrGhost' = [lrGhost EXCEPT !.faults = LrSpent(f),
                           !.strand = @ \/ f \/ lrCore.open = 0]
    /\ UNCHANGED <<lrTasks, lrIrqq, lrCtx, lrReq>>

-----------------------------------------------------------------------------
(* The engine and the interrupt worker *)

\* The engine latches a frame (register update), finishes it, or both before the handler
\* reads the status registers; or it fails.
LrHwIrq ==
    \E e \in {<<"go", "reg", "run">>, <<"run", "idle", "idle">>, <<"go", "both", "idle">>,
              <<"run", "err", "idle">>} :
        /\ lrHw = e[1] /\ lrHw' = e[3]
        /\ e[2] = "err" => lrGhost.faults > 0
        /\ lrIrqq' = LrIrq(lrIrqq, e[2])
        /\ lrGhost' = [lrGhost EXCEPT !.strand = @ \/ Len(lrIrqq) = LrIrqs,
                                      !.faults = LrSpent(e[2] = "err")]
        /\ UNCHANGED <<lrPend, lrHand, lrTasks, lrCore, lrCtx, lrReq>>

\* A callback that reports the frames I; each schedules the frame worker.
LrReport(I) ==
    /\ lrReq' = LrOver(I, {})
    /\ lrTasks' = IF I = {} THEN lrTasks ELSE LrTask(lrTasks)

\* Recovery: both slots are emptied and the running frame reported.  The callback clears
\* the error type, so that the report of the submitted frame is refused when a running one
\* came first.
LrErrSeen == IF lrCore.proc # 0 THEN {lrCore.proc} ELSE LrHeld

LrProcessErr(seen) ==
    \E f \in BOOLEAN :
        /\ LrFault(f)
        /\ lrCore' = [lrCore EXCEPT !.submit = 0, !.proc = 0,
                         !.st = IF f THEN "RECOVERY" ELSE "IDLE"]
        /\ lrHw' = "idle"
        /\ LrReport(seen \cup {x \in LrHeld : lrReq[x].st = "flushed"})
        /\ lrGhost' = [lrGhost EXCEPT !.faults = LrSpent(f),
              !.lost = @ \cup {x \in LrHeld \ seen : lrReq[x].st = "owed"},
              !.strand = @ \/ f \/ seen = {} \/ (seen # {} /\ lrTasks = LrTasks)]

LrDone(p) ==
    /\ LrReport({p})
    /\ lrGhost' = [lrGhost EXCEPT !.strand = @ \/ lrTasks = LrTasks]

\* A register update: the submitted frame is running.
LrRegUpdate ==
    IF lrCore.st = "REQ_PENDING"
    THEN /\ lrCore' = [lrCore EXCEPT !.st = "PROCESSING", !.proc = lrCore.submit, !.submit = 0]
         /\ UNCHANGED <<lrHw, lrReq, lrTasks, lrGhost>>
    ELSE LrProcessErr(LrErrSeen)

\* The engine is idle: the running frame is done, a submitted one is started.
LrIdle ==
    CASE lrCore.proc = 0 -> UNCHANGED <<lrCore, lrHw, lrReq, lrTasks, lrGhost>>
      [] lrCore.st = "REQ_PROC_PEND" -> /\ lrCore' = [lrCore EXCEPT !.st = "REQ_PENDING", !.proc = 0]
                                        /\ lrHw' = "go" /\ LrDone(lrCore.proc)
      [] lrCore.st = "PROCESSING" -> /\ lrCore' = [lrCore EXCEPT !.st = "IDLE", !.proc = 0]
                                     /\ UNCHANGED lrHw /\ LrDone(lrCore.proc)
      [] OTHER -> LrProcessErr(LrErrSeen)

\* Both bits in one task: the frame is latched and done at once.
LrBoth ==
    IF lrCore.st = "REQ_PENDING"
    THEN /\ lrCore' = [lrCore EXCEPT !.st = "IDLE", !.submit = 0]
         /\ UNCHANGED lrHw /\ LrDone(lrCore.submit)
    ELSE LrProcessErr(LrErrSeen)

LrIrqTask ==
    /\ lrIrqq # <<>> /\ lrIrqq' = Tail(lrIrqq)
    /\ LET t == Head(lrIrqq) IN
       CASE lrCore.open = 0 -> UNCHANGED <<lrCore, lrHw, lrReq, lrTasks, lrGhost>>
         [] lrCore.open > 0 /\ t = "err" -> LrProcessErr(LrErrSeen)
         [] lrCore.open > 0 /\ t = "reg" -> LrRegUpdate
         [] lrCore.open > 0 /\ t = "idle" -> LrIdle
         [] lrCore.open > 0 /\ t = "both" -> LrBoth
    /\ UNCHANGED <<lrPend, lrHand, lrCtx>>

LrNext == LrIoctl \/ LrTake \/ LrSubmit \/ LrHwIrq \/ LrIrqTask

LrSpec == LrInit /\ [][LrNext]_lrVars

-----------------------------------------------------------------------------
(* Properties *)

\* Values and bounds of the state.
LrTypeOK ==
    /\ Range(lrPend) \subseteq LrReqs /\ lrHand \in 0..LrNReq /\ lrTasks \in 0..LrTasks
    /\ Len(lrIrqq) <= LrIrqs /\ lrHw \in {"idle", "go", "run"}
    /\ lrCore.st \in {"INIT", "IDLE", "RECOVERY"} \cup LrBusy /\ lrCore.open \in 0..LrNCtx

\* The state of a powered core says which slots are occupied, across flushes, errors,
\* recovery and late interrupts.
LrSlots == lrCore.open > 0 =>
    <<lrCore.submit # 0, lrCore.proc # 0>> =
        CASE lrCore.st = "REQ_PENDING" -> <<TRUE, FALSE>>
          [] lrCore.st = "PROCESSING" -> <<FALSE, TRUE>>
          [] lrCore.st = "REQ_PROC_PEND" -> <<TRUE, TRUE>>
          [] OTHER -> <<FALSE, FALSE>>

LrPlaces(r) == Len(SelectSeq(lrPend \o <<lrHand, lrCore.submit, lrCore.proc>>, LAMBDA x : x = r))

\* A frame that is owed a result is in one place: pending, in the worker's hand, in a slot;
\* unless recovery, a stop or a misdirected flush dropped it.  One that got its result, or
\* that a flush freed, is nowhere, unless the flush missed it.
LrOneHome == \A r \in LrReqs :
    LrPlaces(r) = IF lrReq[r].st = "flushed" \/ (lrReq[r].st = "owed" /\ r \notin lrGhost.lost) THEN 1 ELSE 0

\* A flush that is over has left no frame of its context in the driver, except one that was
\* in the worker's hand when it searched the lists, or held by a core that could not be reset.
LrFlushed == \A r \in LrReqs :
    lrReq[r].st = "flushed" /\ lrCtx[lrReq[r].c].r = 0 => r \in lrGhost.escaped

\* A pending frame of a powered core with nothing in it has a task, unless the code left
\* it without: a flush, a failed submission, a lost task.
LrNoIdle == lrPend # <<>> /\ lrCore.open > 0 /\ LrHeld = {} /\ lrHand = 0 /\ lrTasks = 0
                => lrGhost.strand

\* The core is up while a context is started, once each, unless a start failed: its result
\* is dropped, and the stop that follows takes the power of another context.
LrPowered == lrGhost.dead \/ lrCore.open = Cardinality({c \in LrCtxs : lrCtx[c].on})

\* The slots of the core, the lists of the device and the power agree through resets,
\* flushes and errors.
LrSafe ==
    /\ LrTypeOK /\ LrSlots /\ LrOneHome /\ LrFlushed /\ LrNoIdle /\ LrPowered
=============================================================================
