-------------------------------- MODULE IcpMgr --------------------------------
(***************************************************************************)
(* The image control processor manager.  Users acquire one of its contexts,     *)
(* prepare and configure requests in the frame slots of the context, flush and   *)
(* release it.  Commands reach the firmware through the command worker or, for    *)
(* map, abort and destroy, directly; one message worker takes every answer.       *)
(* All synchronous commands of a context wait on one completion.                  *)
(* IPE and BPS are counted by the same code: one processing device is modelled.   *)
(***************************************************************************)
EXTENDS Integers, Sequences, SequencesExt, FiniteSets, FiniteSetsExt

CONSTANTS IcpNUsr,    \* user space handles
          IcpNCtx,    \* contexts of the manager
          IcpNSlot,   \* frame slots of a context
          IcpNReq,    \* requests of a behaviour
          IcpTasks,   \* tasks of the command work queue
          IcpAcqs,    \* bound: acquires
          IcpFaults,  \* bound: failures and timeouts
          IcpPcFlag   \* icp_pc_flag: power collapse keeps the firmware loaded

ASSUME IcpAssumption ==
    /\ {IcpNUsr, IcpNCtx, IcpNSlot, IcpNReq, IcpTasks, IcpAcqs, IcpFaults} \subseteq Nat
    /\ IcpPcFlag \in BOOLEAN

IcpUsrs == 1..IcpNUsr
IcpCtxs == 1..IcpNCtx
IcpSlots == 1..IcpNSlot
IcpReqs == 1..IcpNReq

VARIABLES icpMgr,    \* ctxt_cnt, ipe/bps_ctxt_cnt, fw_download, recovery, A5 power, hw_mgr_mutex
          icpCtx,    \* contexts: state, fw_handle, wait_complete, ctx_mutex
          icpSlot,   \* frame slots: request_id, bitmap, the request the command buffer is for
          icpUsr,    \* user handles: context, ioctl in progress
          icpReq,    \* each request: user, and what became of it
          icpCmd,    \* queued tasks of the command worker
          icpFw,     \* firmware: command ring, running frames, live handles
          icpMsg,    \* messages of the firmware
          icpGhost   \* history and budgets

icpVars == <<icpMgr, icpCtx, icpSlot, icpUsr, icpReq, icpCmd, icpFw, icpMsg, icpGhost>>

IcpIdle == [ctx |-> 0, pc |-> "idle", rc |-> FALSE]
IcpEmpty == [id |-> 0, bit |-> FALSE, buf |-> 0]
IcpNoReq == [u |-> 0, i |-> 0, st |-> "none"]

IcpInit ==
    /\ icpMgr = [cnt |-> 0, dev |-> 0, load |-> FALSE, rec |-> FALSE, up |-> FALSE, mx |-> 0]
    /\ icpCtx = [c \in IcpCtxs |-> [st |-> "FREE", hdl |-> 0, done |-> FALSE, mx |-> 0]]
    /\ icpSlot = [c \in IcpCtxs |-> [i \in IcpSlots |-> IcpEmpty]]
    /\ icpUsr = [u \in IcpUsrs |-> IcpIdle]
    /\ icpReq = [r \in IcpReqs |-> IcpNoReq]
    /\ icpCmd = <<>> /\ icpMsg = <<>>
    /\ icpFw = [ring |-> <<>>, run |-> {}, live |-> {}, next |-> 1, dead |-> FALSE]
    /\ icpGhost = [faults |-> IcpFaults, acqs |-> IcpAcqs, late |-> FALSE, stolen |-> FALSE,
                   passed |-> FALSE, wrong |-> FALSE, phantom |-> FALSE]

\* A command or its answer; own while the sender waits for it.
IcpRec(k, c, a, own) == [k |-> k, c |-> c, a |-> a, own |-> own]

IcpFault(f) == f => icpGhost.faults > 0
IcpSpent(f) == IF f THEN icpGhost.faults - 1 ELSE icpGhost.faults

-----------------------------------------------------------------------------
(* Synchronous commands *)

\* What follows a synchronous command that was answered, or failed.
IcpThen(op, ok) ==
    CASE op = "ping"    -> IF ok THEN "create" ELSE "collapse"
      [] op = "create"  -> IF ok THEN "map" ELSE "collapse"
      [] op = "map"     -> IF ok THEN "config" ELSE "destroy"
      [] op = "config"  -> IF ok THEN "unmap" ELSE "unmap2"
      [] op = "unmap"   -> IF ok THEN "acquired" ELSE "destroy"
      [] op = "unmap2"  -> "destroy"
      [] op = "destroy" -> "collapse"
      [] op = "flush"   -> "flushall"
      [] op = "abort"   -> "destroy2"
      [] op = "destroy2" -> "released"

IcpQueued == {"ping", "create", "config"}
IcpDirect == {"map", "unmap", "unmap2", "flush", "abort", "destroy", "destroy2"}

IcpKind(op) == CASE op \in {"unmap", "unmap2", "map"} -> "map"
                 [] op \in {"flush", "abort"} -> "abort"
                 [] op \in {"destroy", "destroy2"} -> "destroy"
                 [] OTHER -> op

IcpDisown(c, q) == [i \in DOMAIN q |-> IF q[i].c = c THEN [q[i] EXCEPT !.own = FALSE] ELSE q[i]]

IcpOwn(c, q) == \E i \in DOMAIN q : q[i].c = c /\ q[i].own

\* Without a free task a queued command fails at once.
IcpReal(op) == IF op \in IcpQueued /\ Len(icpCmd) = IcpTasks THEN IcpThen(op, FALSE) ELSE op

\* hfi_write_cmd: nobody takes a command of a firmware that is down or dead.
IcpWrite(ring, t) == IF icpMgr.up /\ ~icpFw.dead THEN Append(ring, t) ELSE ring

\* User u goes on with next on context c.  The answer to an earlier command is nobody's any
\* more.
IcpGo(u, c, next) ==
    LET op == IcpReal(next)
        t == IcpRec(IcpKind(op), c, icpCtx[c].hdl, TRUE)
        cmds == IcpDisown(c, icpCmd)
        ring == IcpDisown(c, icpFw.ring)
    IN  /\ icpUsr' = [icpUsr EXCEPT ![u].ctx = c, ![u].pc = op, ![u].rc = @ \/ icpUsr[u].pc = "acquired"]
        /\ icpCmd' = IF op \in IcpQueued THEN Append(cmds, t) ELSE cmds
        /\ icpFw' = [icpFw EXCEPT !.ring = IF op \in IcpDirect THEN IcpWrite(ring, t) ELSE ring]
        /\ icpMsg' = IcpDisown(c, icpMsg)

\* wait_complete is cleared before a command is sent.
IcpReinit(op, done) == done /\ op \notin IcpQueued \cup IcpDirect

\* The message worker waits for the mutex of the context its first message is about.
IcpBlocked == icpMsg # <<>> /\ Head(icpMsg).k = "frame" /\ icpCtx[Head(icpMsg).c].mx # 0

\* The answer cannot come any more, or not before the mutex this user holds is released.
IcpHopeless(c) == IcpBlocked \/ ~(IcpOwn(c, icpCmd) \/ IcpOwn(c, icpFw.ring) \/ IcpOwn(c, icpMsg))

\* A wait ends with the completion or times out.  Creating a handle also fails without one.
IcpWaited(u) ==
    LET c == icpUsr[u].ctx
        op == icpUsr[u].pc
    IN  /\ op \in IcpQueued \cup IcpDirect
        /\ \E late \in BOOLEAN :
             /\ IF late THEN ~icpCtx[c].done /\ (IcpHopeless(c) \/ icpGhost.faults > 0) ELSE icpCtx[c].done
             /\ LET next == IcpThen(op, ~late /\ (op = "create" => icpCtx[c].hdl # 0))
                IN  /\ IcpGo(u, c, next)
                    /\ icpCtx' = [icpCtx EXCEPT ![c].done = FALSE]
             /\ icpGhost' = [icpGhost EXCEPT !.faults = IcpSpent(late /\ ~IcpHopeless(c)),
                                             !.late = @ \/ late]
        /\ UNCHANGED <<icpMgr, icpSlot, icpReq>>

-----------------------------------------------------------------------------
(* Power *)

\* The last context gone, the A5 is powered down; without power collapse, or in recovery,
\* the firmware is unloaded too.
IcpUnload == ~IcpPcFlag \/ icpMgr.rec

IcpPowerDown(m) == [m EXCEPT !.up = FALSE, !.load = @ /\ ~IcpUnload]

\* The firmware stops working; unloaded it loses its handles.
IcpFwDown(fw) == [fw EXCEPT !.ring = <<>>, !.run = {}, !.live = IF IcpUnload THEN {} ELSE @]

\* A context gives its device back; with no context left everything goes down.
IcpDownIf(m) == IF m.cnt = 0 THEN IcpPowerDown(m) ELSE m

\* icp_resume: the first context powers the A5 and, if need be, loads the firmware, which
\* ends a recovery.
IcpResume(m) == IF m.cnt > 0 THEN m
                ELSE [m EXCEPT !.up = TRUE, !.load = TRUE, !.rec = @ /\ m.load]

-----------------------------------------------------------------------------
(* Acquire *)

\* Bound: the first user acquires first.
IcpFirst(u) == icpGhost.acqs = IcpAcqs => u = 1

IcpFreeCtxs == {c \in IcpCtxs : icpCtx[c].st = "FREE"}

\* The first free context is taken, the firmware brought up, the device counted and the
\* firmware pinged, with both mutexes held.  A resume that fails leaves nothing behind.
IcpAcquire(u) ==
    /\ icpUsr[u] = IcpIdle /\ icpGhost.acqs > 0 /\ IcpFirst(u) /\ icpMgr.mx = 0 /\ IcpFreeCtxs # {}
    /\ LET c == Min(IcpFreeCtxs)
           m == IcpResume(icpMgr)
       IN  /\ icpCtx[c].mx = 0
           /\ icpMgr' = [m EXCEPT !.dev = @ + 1, !.mx = u]
           /\ icpCtx' = [icpCtx EXCEPT ![c].st = "IN_USE", ![c].mx = u,
                                       ![c].done = IcpReinit(IcpReal("ping"), @)]
           /\ icpUsr' = [icpUsr EXCEPT ![u].ctx = c, ![u].pc = IcpReal("ping")]
           /\ icpCmd' = IF Len(icpCmd) < IcpTasks
                        THEN Append(IcpDisown(c, icpCmd), IcpRec("ping", c, 0, TRUE)) ELSE icpCmd
           /\ icpMsg' = IcpDisown(c, icpMsg)
           /\ icpFw' = [icpFw EXCEPT !.ring = IcpDisown(c, @), !.dead = @ /\ icpMgr.load]
    /\ icpGhost' = [icpGhost EXCEPT !.acqs = @ - 1]
    /\ UNCHANGED <<icpSlot, icpReq>>

\* The handle is ready: the context is acquired.  When the bitmap cannot be allocated or
\* the answer not be copied, everything is undone, and the call returns success.
IcpAcquired(u) ==
    LET c == icpUsr[u].ctx
    IN  /\ icpUsr[u].pc = "acquired"
        /\ \E f \in BOOLEAN :
             /\ IcpFault(f)
             /\ IF f
                THEN /\ IcpGo(u, c, "unmap2")
                     /\ icpCtx' = [icpCtx EXCEPT ![c].done = FALSE]
                     /\ UNCHANGED icpMgr
                ELSE /\ icpUsr' = [icpUsr EXCEPT ![u].pc = "idle"]
                     /\ icpCtx' = [icpCtx EXCEPT ![c].st = "ACQUIRED", ![c].mx = 0]
                     /\ icpMgr' = [icpMgr EXCEPT !.cnt = @ + 1, !.mx = 0]
                     /\ UNCHANGED <<icpCmd, icpFw, icpMsg>>
             /\ icpGhost' = [icpGhost EXCEPT !.faults = IcpSpent(f),
                                             !.phantom = @ \/ f]
        /\ UNCHANGED <<icpSlot, icpReq>>

IcpCollapse(m) == [m EXCEPT !.dev = @ - 1]

\* An acquire that failed: the device and, without other contexts, the A5 go down.
IcpAcquireFails(u) ==
    LET c == icpUsr[u].ctx
    IN  /\ icpUsr[u].pc = "collapse"
        /\ icpMgr' = [IcpDownIf(IcpCollapse(icpMgr)) EXCEPT !.mx = 0]
        /\ icpFw' = IF icpMgr.cnt = 0 THEN IcpFwDown(icpFw) ELSE icpFw
        /\ icpCtx' = [icpCtx EXCEPT ![c].st = "FREE", ![c].mx = 0]
        /\ icpUsr' = [icpUsr EXCEPT ![u] = [IcpIdle EXCEPT !.ctx = IF icpUsr[u].rc THEN c ELSE 0]]
        /\ UNCHANGED <<icpSlot, icpReq, icpCmd, icpMsg, icpGhost>>

-----------------------------------------------------------------------------
(* Requests *)

IcpFreeSlots(c) == {i \in IcpSlots : ~icpSlot[c][i].bit}

\* Bound: requests are prepared in their order, by the first user.
IcpTurn(u, r) == u = 1 /\ \A q \in IcpReqs : q < r => icpReq[q] # IcpNoReq

\* Mutant: the bit stays set.
IcpPrepareKeepBit(c, i, r, f) ==
    [icpSlot EXCEPT ![c][i] = [id |-> IF f THEN -1 ELSE r, bit |-> TRUE, buf |-> r]]

\* The first free slot and its command buffer are taken.  When the buffers of the request
\* cannot be mapped the bit is cleared and the identifier set to -1.
IcpSlotTake(c, i, r, f) ==
    [icpSlot EXCEPT ![c][i] = [id |-> IF f THEN -1 ELSE r, bit |-> ~f, buf |-> IF f THEN @.buf ELSE r]]

IcpPrepare(u) ==
    LET c == icpUsr[u].ctx
    IN  /\ icpUsr[u].pc = "idle" /\ c # 0
        /\ icpCtx[c].mx = 0 /\ icpCtx[c].st = "ACQUIRED" /\ IcpFreeSlots(c) # {}
        /\ \E r \in IcpReqs, f \in BOOLEAN :
             /\ IcpFault(f) /\ icpReq[r] = IcpNoReq /\ IcpTurn(u, r)
             /\ icpSlot' = IcpSlotTake(c, Min(IcpFreeSlots(c)), r, f)
             /\ icpReq' = IF f THEN icpReq ELSE [icpReq EXCEPT ![r] = [u |-> u, i |-> Min(IcpFreeSlots(c)), st |-> "prep"]]
             /\ icpGhost' = [icpGhost EXCEPT !.faults = IcpSpent(f)]
        /\ UNCHANGED <<icpMgr, icpCtx, icpUsr, icpCmd, icpFw, icpMsg>>

\* clk_idx_from_req_id: the slot of request r, the first one if there is none.
IcpSlotOf(c, r) ==
    LET at == {i \in IcpSlots : icpSlot[c][i].id = r} IN IF at = {} THEN 1 ELSE Min(at)

\* The results of the requests I reach their user; a result for a request that is over, or
\* was never configured, is noted.
IcpReport(I) ==
    [r \in IcpReqs |-> IF r \in I THEN [IcpNoReq EXCEPT !.st = "over"] ELSE icpReq[r]]

IcpNoted(I) == [icpGhost EXCEPT !.wrong = @ \/ \E r \in I \ {-1} : icpReq[r].st # "conf"]

\* The task of a frame of context c has not run yet.
IcpWaiting(c) == \E j \in DOMAIN icpCmd : icpCmd[j].k = "frame" /\ icpCmd[j].c = c

IcpFreed(slot) == [slot EXCEPT !.id = 0, !.bit = FALSE]

IcpHeldIds(c) == {icpSlot[c][i].id : i \in IcpSlots} \ {0}

\* The slots of context c that hold one of I are freed.
IcpCleared(c, I) ==
    [icpSlot EXCEPT ![c] = [i \in IcpSlots |-> IF @[i].id \in I THEN IcpFreed(@[i]) ELSE @[i]]]

\* Bound: the first request has an input-output command.
IcpHasIo(r) == r = 1

\* The fence callback configures a prepared request: an input-output command if the request
\* has one, and the frame.  Without a task for the frame the request is reported and its
\* slot cleared.
IcpConfig(r, io) ==
    LET u == icpReq[r].u
        c == icpUsr[u].ctx
        mid == IF io /\ Len(icpCmd) < IcpTasks THEN Append(icpCmd, IcpRec("recfg", c, 0, FALSE)) ELSE icpCmd
        i == IcpSlotOf(c, r)
    IN  /\ icpReq[r].st = "prep" /\ icpMgr.mx = 0 /\ icpCtx[c].mx = 0
        /\ IF icpCtx[c].st # "ACQUIRED"
           THEN /\ icpReq' = IcpReport({r})
                /\ UNCHANGED <<icpSlot, icpCmd>>
           ELSE IF Len(mid) < IcpTasks
           THEN /\ icpCmd' = Append(mid, IcpRec("frame", c, icpReq[r].i, FALSE))
                /\ icpReq' = [icpReq EXCEPT ![r].st = "conf"]
                /\ UNCHANGED icpSlot
           ELSE /\ icpCmd' = mid
                /\ icpReq' = IcpReport({r})
                /\ icpSlot' = [icpSlot EXCEPT ![c][i] = IcpFreed(@)]
        /\ UNCHANGED <<icpMgr, icpCtx, icpUsr, icpFw, icpMsg, icpGhost>>

-----------------------------------------------------------------------------
(* Flush and release *)

IcpOf(u, st) == {r \in IcpReqs : icpReq[r].u = u /\ icpReq[r].st = st}

IcpFlushOne(u) ==
    LET c == icpUsr[u].ctx
    IN  /\ icpUsr[u].pc = "idle" /\ c # 0 /\ icpCtx[c].mx = 0
        /\ \E r \in IcpOf(u, "prep") :
             /\ icpSlot' = IcpCleared(c, {r})
             /\ icpReq' = IcpReport({r})
        /\ UNCHANGED <<icpMgr, icpCtx, icpUsr, icpCmd, icpFw, icpMsg, icpGhost>>

\* With active requests and no recovery the firmware is told to abort, without the mutex.
IcpAborts(u) == IcpOf(u, "conf") # {} /\ ~icpMgr.rec

\* A flush of all requests, also the first half of a stop: the prepared ones end in the
\* context layer.
IcpFlush(u) ==
    LET c == icpUsr[u].ctx
        op == IF IcpAborts(u) THEN "flush" ELSE "flushall"
    IN  /\ icpUsr[u].pc = "idle" /\ c # 0 /\ icpMgr.mx = 0
        /\ IcpOf(u, "prep") \cup IcpOf(u, "conf") # {}
        /\ IcpGo(u, c, op)
        /\ icpCtx' = [icpCtx EXCEPT ![c].done = IcpReinit(op, @)]
        /\ icpReq' = IcpReport(IcpOf(u, "prep"))
        /\ icpGhost' = [icpGhost EXCEPT !.passed = @ \/ IcpWaiting(c)]
        /\ UNCHANGED <<icpMgr, icpSlot>>

\* The slots are emptied; the active requests end in the context layer.
IcpFlushAll(u) ==
    LET c == icpUsr[u].ctx
    IN  /\ icpUsr[u].pc = "flushall" /\ icpCtx[c].mx = 0
        /\ icpSlot' = IcpCleared(c, IcpHeldIds(c))
        /\ icpCmd' = IF Len(icpCmd) < IcpTasks /\ \E i \in IcpSlots : icpSlot[c][i].id # 0
                     THEN Append(icpCmd, IcpRec("sync", c, 0, FALSE)) ELSE icpCmd
        /\ icpReq' = IcpReport(IcpOf(u, "conf"))
        /\ icpUsr' = [icpUsr EXCEPT ![u].pc = "idle"]
        /\ UNCHANGED <<icpMgr, icpCtx, icpFw, icpMsg, icpGhost>>

IcpIsAcquired(c) == icpCtx[c].st = "ACQUIRED"

\* release_hw and the first part of release_ctx, after the stop: the device is given back
\* and the firmware told to abort.  A context that is not acquired is not released; the
\* user forgets it all the same.
IcpRelease(u) ==
    LET c == icpUsr[u].ctx
    IN  /\ icpUsr[u].pc = "idle" /\ c # 0 /\ IcpOf(u, "prep") \cup IcpOf(u, "conf") = {}
        /\ icpCtx[c].mx = 0
        /\ IF IcpIsAcquired(c)
           THEN /\ icpMgr.mx = 0
                /\ icpMgr' = [IcpCollapse(icpMgr) EXCEPT !.mx = u]
                /\ IcpGo(u, c, "abort")
                /\ icpCtx' = [icpCtx EXCEPT ![c].st = "RELEASE", ![c].mx = u, ![c].done = FALSE]
           ELSE /\ icpUsr' = [icpUsr EXCEPT ![u] = IcpIdle]
                /\ UNCHANGED <<icpMgr, icpCtx, icpCmd, icpFw, icpMsg>>
        /\ UNCHANGED <<icpSlot, icpReq, icpGhost>>

IcpCtxGone(m) == [IcpDownIf([m EXCEPT !.cnt = @ - 1]) EXCEPT !.mx = 0]

\* release_ctx, second part: what the slots still hold is reported, the context is free and
\* the last one powers everything down.
IcpReleased(u) ==
    LET c == icpUsr[u].ctx
    IN  /\ icpUsr[u].pc = "released"
        /\ icpReq' = IcpReport(IcpHeldIds(c))
        /\ icpGhost' = IcpNoted(IcpHeldIds(c))
        /\ icpSlot' = IcpCleared(c, IcpHeldIds(c))
        /\ icpCtx' = [icpCtx EXCEPT ![c].st = "FREE", ![c].hdl = 0, ![c].mx = 0]
        /\ icpMgr' = IcpCtxGone(icpMgr)
        /\ icpFw' = IF icpMgr.cnt = 1 THEN IcpFwDown(icpFw) ELSE icpFw
        /\ icpUsr' = [icpUsr EXCEPT ![u] = IcpIdle]
        /\ UNCHANGED <<icpCmd, icpMsg>>

IcpUser == \E u \in IcpUsrs : \/ IcpAcquire(u) \/ IcpAcquired(u) \/ IcpAcquireFails(u) \/ IcpWaited(u)
                              \/ IcpPrepare(u) \/ IcpFlushOne(u) \/ IcpFlush(u) \/ IcpFlushAll(u)
                              \/ IcpRelease(u) \/ IcpReleased(u)

-----------------------------------------------------------------------------
(* The command worker and the firmware *)

\* A task writes its command into the ring.  Ping, create and config commands live on the
\* stack of their sender: what the worker reads after the sender left is arbitrary.  A frame
\* command lives in the slot and is written as it is now.
IcpProcessCmd ==
    LET t == Head(icpCmd)
        cmd == IF t.k = "frame" THEN [t EXCEPT !.a = icpSlot[t.c][t.a].buf] ELSE t
    IN  /\ icpCmd # <<>> /\ (t.k = "sync" => icpCtx[t.c].mx = 0)
        /\ \/ t.k # "sync" /\ icpFw' = [icpFw EXCEPT !.ring = IcpWrite(@, cmd)]
           \/ t.k \in IcpQueued \cup {"sync"} /\ ~t.own /\ UNCHANGED icpFw
        /\ icpCmd' = Tail(icpCmd)
        /\ UNCHANGED <<icpMgr, icpCtx, icpSlot, icpUsr, icpReq, icpMsg, icpGhost>>

IcpFrames(c) == {f \in icpFw.run : f.c = c}

\* The firmware takes a command: it starts a frame, or does what it is told and answers.
\* The frames that an abort finds running end at once or are dropped.
IcpServe(t) ==
    [icpFw EXCEPT !.ring = Tail(@),
                  !.run = CASE t.k = "frame" -> @ \cup {[c |-> t.c, id |-> t.a]}
                            [] t.k = "abort" -> @ \ IcpFrames(t.c)
                            [] OTHER -> @,
                  !.next = IF t.k = "create" THEN @ + 1 ELSE @,
                  !.live = CASE t.k = "create" -> @ \cup {icpFw.next}
                             [] t.k = "destroy" -> @ \ {t.a}
                             [] OTHER -> @]

IcpAnswers(t, ended) ==
    CASE t.k = "frame" -> <<>>
      [] t.k = "create" -> <<[t EXCEPT !.a = icpFw.next]>>
      [] OTHER -> SetToSeq({IcpRec("frame", g.c, g.id, FALSE) : g \in ended}) \o <<t>>

IcpFwCmd ==
    LET t == Head(icpFw.ring)
    IN  /\ icpMgr.up /\ ~icpFw.dead /\ icpFw.ring # <<>>
        /\ icpFw' = IcpServe(t)
        /\ \E ended \in {{}, IF t.k = "abort" THEN IcpFrames(t.c) ELSE {}} :
             icpMsg' = icpMsg \o IcpAnswers(t, ended)
        /\ UNCHANGED <<icpMgr, icpCtx, icpSlot, icpUsr, icpReq, icpCmd, icpGhost>>

IcpFwFrame ==
    /\ icpMgr.up
    /\ \E f \in icpFw.run :
         /\ icpFw' = [icpFw EXCEPT !.run = @ \ {f}]
         /\ icpMsg' = Append(icpMsg, IcpRec("frame", f.c, f.id, FALSE))
    /\ UNCHANGED <<icpMgr, icpCtx, icpSlot, icpUsr, icpReq, icpCmd, icpGhost>>

\* A fatal error or a watchdog bite: the firmware is dead until it is loaded again.
IcpFwFatal ==
    /\ icpMgr.up /\ ~icpFw.dead /\ icpGhost.faults > 0
    /\ icpFw' = [icpFw EXCEPT !.ring = <<>>, !.run = {}, !.live = {}, !.dead = TRUE]
    /\ icpMsg' = Append(icpMsg, IcpRec("fatal", 0, 0, FALSE))
    /\ icpGhost' = [icpGhost EXCEPT !.faults = @ - 1]
    /\ UNCHANGED <<icpMgr, icpCtx, icpSlot, icpUsr, icpReq, icpCmd>>

-----------------------------------------------------------------------------
(* The message worker *)

\* States of a context in which the answer to a command of kind k ends the wait.
IcpEnds(k, st) ==
    CASE k = "ping" -> st = "IN_USE"
      [] k \in {"abort", "map"} -> st # "FREE"
      [] k = "destroy" -> st \in {"RELEASE", "IN_USE"}
      [] OTHER -> TRUE

IcpAwaited(c) == \E u \in IcpUsrs : icpUsr[u].ctx = c /\ icpUsr[u].pc \in IcpQueued \cup IcpDirect

\* An answer ends the wait of its context, whatever that waits for.  A handle that arrives
\* when the context is not being acquired is dropped, and the context's own with it.
IcpAck ==
    LET t == Head(icpMsg)
        ends == IcpEnds(t.k, icpCtx[t.c].st)
    IN  /\ icpMsg # <<>> /\ t.k \notin {"frame", "fatal"}
        /\ icpCtx' = [icpCtx EXCEPT ![t.c].done = @ \/ ends,
                                    ![t.c].hdl = IF t.k # "create" THEN @
                                                 ELSE IF icpCtx[t.c].st = "IN_USE" THEN t.a ELSE 0]
        /\ icpGhost' = [icpGhost EXCEPT !.stolen = @ \/ (ends /\ ~t.own /\ IcpAwaited(t.c))]
        /\ icpMsg' = Tail(icpMsg)
        /\ UNCHANGED <<icpMgr, icpSlot, icpUsr, icpReq, icpCmd, icpFw>>

\* The result of a frame: ignored unless the context is acquired and a slot holds the
\* request, which is reported and its slot freed.
IcpDoneSlots(c, r) == [icpSlot EXCEPT ![c][IcpSlotOf(c, r)] = IcpFreed(@)]

IcpFrameDone ==
    LET t == Head(icpMsg)
    IN  /\ icpMsg # <<>> /\ t.k = "frame" /\ icpCtx[t.c].mx = 0
        /\ icpMsg' = Tail(icpMsg)
        /\ IF icpCtx[t.c].st = "ACQUIRED" /\ t.a \in IcpHeldIds(t.c)
           THEN /\ icpReq' = IcpReport({t.a})
                /\ icpGhost' = IcpNoted({t.a})
                /\ icpSlot' = IcpDoneSlots(t.c, t.a)
           ELSE UNCHANGED <<icpReq, icpGhost, icpSlot>>
        /\ UNCHANGED <<icpMgr, icpCtx, icpUsr, icpCmd, icpFw>>

IcpFatal ==
    /\ icpMsg # <<>> /\ Head(icpMsg).k = "fatal"
    /\ icpMgr' = [icpMgr EXCEPT !.rec = TRUE]
    /\ icpMsg' = Tail(icpMsg)
    /\ UNCHANGED <<icpCtx, icpSlot, icpUsr, icpReq, icpCmd, icpFw, icpGhost>>

IcpNext == \/ IcpUser \/ \E r \in IcpReqs : IcpConfig(r, IcpHasIo(r))
           \/ IcpProcessCmd \/ IcpFwCmd \/ IcpFwFrame \/ IcpFwFatal \/ IcpAck \/ IcpFrameDone \/ IcpFatal

IcpSpec == IcpInit /\ [][IcpNext]_icpVars

-----------------------------------------------------------------------------
(* Properties *)

\* Contexts, slots and queues have their types and the queue its bound (cam_icp_hw_mgr.h).
IcpTypeOK ==
    /\ \A c \in IcpCtxs : icpCtx[c].st \in {"FREE", "IN_USE", "ACQUIRED", "RELEASE"}
    /\ \A c \in IcpCtxs, i \in IcpSlots : icpSlot[c][i].id \in IcpReqs \cup {0, -1}
    /\ Len(icpCmd) <= IcpTasks /\ icpMgr.cnt \in 0..IcpNCtx /\ icpMgr.dev \in 0..IcpNCtx

\* A taken bit of the slot bitmap and a request identifier go together, no request has two
\* slots, and a request that is prepared or configured has one unless a flush or release of
\* its user is under way: the search for its slot never falls back to the first slot.
\* Handles an acquire wrongly reported as acquired share a context and are set aside.
IcpSlotOwned ==
    /\ \A c \in IcpCtxs, i \in IcpSlots : icpSlot[c][i].bit <=> icpSlot[c][i].id > 0
    /\ \A c \in IcpCtxs, i, j \in IcpSlots :
          icpSlot[c][i].id > 0 /\ icpSlot[c][i].id = icpSlot[c][j].id => i = j
    /\ ~icpGhost.phantom =>
         \A r \in IcpReqs : icpReq[r].st \in {"prep", "conf"} /\ icpUsr[icpReq[r].u].pc = "idle" =>
            icpSlot[icpUsr[icpReq[r].u].ctx][icpReq[r].i].id = r

\* No request is reported twice or before it was configured.  The exception is a slot that
\* was emptied by a flush or a release while the task of its frame was still queued: the
\* task then sends the frame of the request that was prepared in the slot since.
IcpOnce == icpGhost.wrong => icpGhost.passed \/ icpGhost.phantom

\* When no call is in progress the context count and the device count are the number of
\* acquired contexts, and the A5 is powered with loaded firmware exactly while there is one.
IcpCounts ==
    LET n == Cardinality({c \in IcpCtxs : icpCtx[c].st = "ACQUIRED"})
    IN  icpMgr.mx = 0 => /\ icpMgr.cnt = n /\ icpMgr.dev = n
                         /\ icpMgr.up <=> n > 0
                         /\ n > 0 => icpMgr.load

\* An acquired context has a handle that lives in the firmware, unless an answer to another
\* command ended one of its waits or the firmware died.
IcpHandle ==
    \A c \in IcpCtxs : icpCtx[c].st = "ACQUIRED" /\ ~icpGhost.stolen /\ ~icpFw.dead =>
        icpCtx[c].hdl \in icpFw.live

\* After a flush the firmware works on no frame of the user, unless the wait for its abort
\* timed out or ended with another answer, or a frame's task was still queued behind it.
IcpQuiesced ==
    ~icpGhost.stolen /\ ~icpGhost.late /\ ~icpGhost.passed =>
       \A f \in icpFw.run : icpReq[f.id].st # "over"

\* Without timeouts and stolen answers the firmware keeps a handle for every context that
\* has one and for no other, whenever no call is in progress.
IcpNoLeak ==
    icpMgr.mx = 0 /\ ~icpGhost.stolen /\ ~icpGhost.late /\ ~icpGhost.phantom =>
        icpFw.live = {icpCtx[c].hdl : c \in {d \in IcpCtxs : icpCtx[d].st = "ACQUIRED"}} \/ icpFw.dead

\* Slots, handles, counts and firmware of the manager agree through timeouts, aborts
\* and recovery.
IcpSafe ==
    /\ IcpTypeOK /\ IcpSlotOwned /\ IcpOnce /\ IcpCounts /\ IcpHandle /\ IcpQuiesced
    /\ IcpNoLeak

-----------------------------------------------------------------------------
(***************************************************************************)
(* Clock and bandwidth management of the ICP hardware manager              *)
(* (cam_icp_hw_mgr.c) for one device, the IPE: the clock level follows the *)
(* frames the contexts send, a timer of each context withdraws the votes   *)
(* of an idle context, and a timer of the device stops an idle clock.      *)
(*                                                                         *)
(* The two timers post work to a queue of their own, so their handlers run *)
(* beside the ioctls.  The handler of the context timer takes ctx_mutex    *)
(* only; that of the device timer clears the clock before it takes         *)
(* hw_mgr_mutex; prepare takes ctx_mutex only.  The configuration of a     *)
(* frame is therefore two steps, the choice of the clock and its use.      *)
(* Clocks and bandwidths are small numbers; a frame's base clock (cycles   *)
(* over budget) comes from IckLoads; 0 stands for a frame without cycles.  *)
(***************************************************************************)

CONSTANTS IckNCtx,      \* contexts of the device
          IckNSlot,     \* frame slots of a context (CAM_FRAME_CMD_MAX)
          IckRates,     \* clk_rate[CAM_MAX_VOTE], ascending
          IckSvs,       \* ICP_CLK_SVS_HZ, the default clock
          IckDefBw,     \* CAM_CPAS_DEFAULT_AXI_BW
          IckThreshold, \* ICP_OVER_CLK_THRESHOLD
          IckLoads,     \* base clock and bandwidth a frame may ask for
          IckFrames,    \* bound on the frames configured
          IckEvents     \* bound on acquires and timer expiries, together

ASSUME IckAssumption ==
  /\ IckNCtx \in Nat \ {0} /\ IckNSlot \in Nat \ {0}
  /\ \A i \in 1..Len(IckRates) - 1 : IckRates[i] < IckRates[i + 1]
  /\ IckSvs \in {IckRates[i] : i \in 1..Len(IckRates)}

VARIABLES
  ickDev,    \* clk_info of the device, with the clock's real state
  ickCtx,    \* each context: acquired, its clk_info, its slots
  ickCfg,    \* the configuration between its two steps, or IckIdle
  ickTmr,    \* the device timer's handler: 0 idle, k scanning context k
  ickGhost   \* events and frames left and what has happened, see IckInit

ickVars == <<ickDev, ickCtx, ickCfg, ickTmr, ickGhost>>

IckCtxs == 1..IckNCtx
IckSlots == 1..IckNSlot
IckIdle == [c |-> 0, s |-> 0, free |-> FALSE, clk |-> FALSE]

-----------------------------------------------------------------------------
(* The clock table. *)

IckTop == Len(IckRates)

(* cam_icp_get_actual_clk_rate_idx: the first level that reaches the clock, *)
(* one past the table when none does.                                       *)
IckIdx(clk) ==
  Min({i \in 1..IckTop : IckRates[i] >= clk} \cup {IckTop + 1})

IckLower(clk) == IF IckIdx(clk) > 1 THEN IckRates[IckIdx(clk) - 1] ELSE clk
IckNext(clk) == IF IckIdx(clk) < IckTop THEN IckRates[IckIdx(clk) + 1] ELSE clk

(* Mutant: rounded down. *)
IckActualLow(clk) == IckLower(clk)

IckActual(clk) == IF IckIdx(clk) <= IckTop THEN IckRates[IckIdx(clk)] ELSE clk

(* cam_icp_is_over_clk: the current level is above the one the base needs. *)
IckOver(base, curr) == IckIdx(curr) > IckIdx(base)

-----------------------------------------------------------------------------
(* clk_info of a context and of the device. *)

(* cam_icp_ctx_clk_info_init *)
IckCtxZero(x) == [x EXCEPT !.fc = 0, !.base = 0, !.bw = 0]

(* cam_icp_hw_mgr_clk_info_init and, for the last release, reset_clk_info. *)
IckDevInit(d) ==
  [d EXCEPT !.base = IckSvs, !.curr = IckSvs, !.over = 0, !.bw = IckDefBw]

IckDevReset(d) ==
  [d EXCEPT !.base = 0, !.curr = IckSvs, !.over = 0, !.bw = IckDefBw]

IckAcquired == {c \in IckCtxs : ickCtx[c].st}

(* cam_icp_calc_total_clk, with the context's own new value. *)
IckTotal(c, base) ==
  MapThenSumSet(LAMBDA k : IF k = c THEN base ELSE ickCtx[k].base, IckAcquired)

(* cam_icp_busy_prev_reqs: the flag of a slot outlives a flush, and the     *)
(* frame being configured has not set its own yet.                          *)
IckBusy(c) == Cardinality({s \in ickCtx[c].used : s \in ickCtx[c].fw}) > 1

(* cam_icp_frame_pending *)
IckPending(c) == ickCtx[c].used # {}

-----------------------------------------------------------------------------
(* The new clk_info of the device for a frame of context c. Each returns    *)
(* the device and whether the clock is to be set.                           *)

(* cam_icp_default_clk_update: the clock also becomes the bandwidth. *)
IckDefault ==
  IF ickDev.curr # IckSvs
    THEN [d |-> [ickDev EXCEPT !.base = IckSvs, !.curr = IckSvs,
                               !.bw = IckSvs],
          upd |-> TRUE]
    ELSE [d |-> ickDev, upd |-> FALSE]

(* cam_icp_update_clk_busy *)
IckClkBusy(c, fc) ==
  LET total == IckTotal(c, fc)
      d0 == [ickDev EXCEPT !.over = 0]
      next == IckNext(ickDev.curr)
  IN  IF fc > ickCtx[c].fc
        THEN [d |-> [d0 EXCEPT
                      !.base = total,
                      !.curr = IF total > IckActual(fc) THEN total ELSE next],
              upd |-> TRUE]
        ELSE [d |-> IF ickDev.curr < next THEN [d0 EXCEPT !.curr = next] ELSE d0,
              upd |-> ickDev.curr < next]

(* cam_icp_update_clk_overclk_free: one level down, and up again when that  *)
(* is too low, which the caller's test rules out.                           *)
IckOverclkFree(d) ==
  LET low == IckLower(d.curr)
  IN  IF d.over < IckThreshold
        THEN [d |-> [d EXCEPT !.over = @ + 1], upd |-> FALSE]
        ELSE [d |-> [d EXCEPT
                      !.curr = IF low < d.base THEN IckNext(low) ELSE low,
                      !.over = IF low > d.base /\ ~IckOver(d.base, low) THEN @
                                                                       ELSE 0],
              upd |-> TRUE]

(* cam_icp_update_clk_free *)
IckClkFree(c, fc) ==
  LET d == [ickDev EXCEPT !.base = IckTotal(c, fc)]
  IN  IF d.curr > d.base
        THEN IF IckOver(d.base, d.curr)
               THEN IckOverclkFree(d)
               ELSE [d |-> [d EXCEPT !.over = 0], upd |-> FALSE]
        ELSE IF d.curr < d.base
               THEN [d |-> [d EXCEPT !.curr = IckActual(d.base)], upd |-> TRUE]
               ELSE [d |-> d, upd |-> FALSE]

(* cam_icp_check_clk_update without the debug override. *)
IckClkUpdate(c, fc) ==
  IF fc = 0 THEN IckDefault
  ELSE IF IckBusy(c) THEN IckClkBusy(c, fc) ELSE IckClkFree(c, fc)

(* cam_icp_update_bw, on the device the clock's update leaves: the votes of *)
(* the acquired contexts are added up, unless nothing changed or the frame  *)
(* of a busy context asks for less.                                         *)
IckBwKept(c, bw, d) ==
  \/ bw = ickCtx[c].bw /\ ickCtx[c].bw = d.bw
  \/ IckBusy(c) /\ ickCtx[c].bw > bw

IckBwTotal(c, bw) ==
  MapThenSumSet(LAMBDA k : IF k = c THEN bw ELSE ickCtx[k].bw, IckAcquired)

-----------------------------------------------------------------------------
(* hw_mgr_mutex is held between the two steps of a configuration and by the *)
(* device timer's handler from its first context on.                        *)
IckLocked == ickCfg # IckIdle \/ ickTmr # 0

IckSpend == ickGhost.left > 0

(* cam_icp_mgr_acquire_hw takes the first free context; the first acquire   *)
(* powers the device (cam_ipe_init_hw).                                     *)
IckAcquire(c) ==
  /\ ~IckLocked /\ IckSpend /\ ~ickCtx[c].st
  /\ 1..c - 1 \subseteq IckAcquired
  /\ ickCtx' = [ickCtx EXCEPT ![c] =
                 [IckCtxZero(@) EXCEPT !.st = TRUE, !.armed = FALSE,
                                       !.used = {}, !.fw = {}, !.run = {}]]
  /\ ickDev' = IF IckAcquired = {}
                 THEN [IckDevInit(ickDev) EXCEPT !.on = TRUE, !.rate = IckSvs]
                 ELSE ickDev
  /\ ickGhost' = [ickGhost EXCEPT !.left = @ - 1,
                                  !.odd = @ /\ IckAcquired # {},
                                  !.late = @ /\ IckAcquired # {}]
  /\ UNCHANGED <<ickCfg, ickTmr>>

(* cam_icp_mgr_release_ctx and, for the last one, the power collapse and    *)
(* cam_icp_hw_mgr_reset_clk_info. The votes of the context stay in the      *)
(* device's bandwidth; its base clock is taken out.                         *)
IckRelease(c) ==
  /\ ~IckLocked /\ ickCtx[c].st
  /\ ickCtx' = [ickCtx EXCEPT ![c] =
                 [@ EXCEPT !.st = FALSE, !.base = 0, !.fc = 0, !.armed = FALSE,
                           !.used = {}, !.fw = {}, !.run = {}]]
  /\ ickDev' = IF IckAcquired = {c}
                 THEN [IckDevReset(ickDev) EXCEPT !.on = FALSE]
                 ELSE [ickDev EXCEPT
                        !.base = IF @ >= ickCtx[c].base THEN @ - ickCtx[c].base
                                                        ELSE @]
  /\ UNCHANGED <<ickCfg, ickTmr, ickGhost>>

(* cam_icp_mgr_prepare_hw_update takes a slot, under ctx_mutex. *)
IckPrepare(c, s) ==
  /\ ickCtx[c].st /\ ickCfg.c # c /\ ickGhost.frames > 0
  /\ s \notin ickCtx[c].used /\ \A t \in 1..s - 1 : t \in ickCtx[c].used
  /\ ickCtx' = [ickCtx EXCEPT ![c].used = @ \cup {s}]
  /\ UNCHANGED <<ickDev, ickCfg, ickTmr, ickGhost>>

(* What the sum of the votes can be. The handler of the timer of another    *)
(* context k may withdraw k's vote while the sum is built: after k was      *)
(* added, before (the subtraction then wraps), or with its result written   *)
(* over the sum.                                                            *)
IckSums(c, bw, k) ==
  IF k = 0 THEN {IckBwTotal(c, bw)}
  ELSE LET rest == IckBwTotal(c, bw) - ickCtx[k].bw
       IN  {rest, rest - ickCtx[k].bw, ickDev.bw - ickCtx[k].bw}

IckTimerDue(k) == ickCtx[k].st /\ ickCtx[k].armed /\ ~IckPending(k)

(* cam_icp_mgr_ipe_bps_clk_update up to the decision: the timers are reset, *)
(* the clock and the bandwidth of the device and the context are computed.  *)
IckConfigCalc(c, s, fc, bw, k) ==
  /\ ~IckLocked /\ ickCtx[c].st /\ ickGhost.frames > 0
  /\ s \in ickCtx[c].used \ ickCtx[c].run
  /\ k # 0 => k # c /\ IckSpend /\ IckTimerDue(k)
  /\ LET r == IckClkUpdate(c, fc)
         kept == IckBwKept(c, bw, r.d)
     IN  /\ k # 0 => ~kept
         /\ \E sum \in IckSums(c, bw, k) :
              /\ ickDev' = IF kept THEN r.d ELSE [r.d EXCEPT !.bw = sum]
              /\ ickGhost' = [ickGhost EXCEPT
                   !.raced = FALSE, !.frames = @ - 1,
                   !.left = IF k = 0 THEN @ ELSE @ - 1,
                   !.odd = IF kept THEN @ \/ (fc = 0 /\ r.upd)
                                   ELSE k # 0 /\ sum # Min(IckSums(c, bw, 0))
                                                       - ickCtx[k].bw]
         /\ ickCtx' = [j \in IckCtxs |->
              IF j = c THEN [ickCtx[c] EXCEPT
                               !.armed = TRUE,
                               !.fc = IF fc = 0 THEN @ ELSE fc,
                               !.base = IF fc = 0 THEN @ ELSE fc,
                               !.bw = IF kept THEN @ ELSE bw]
              ELSE IF j = k THEN [IckCtxZero(ickCtx[k]) EXCEPT !.armed = FALSE]
              ELSE ickCtx[j]]
         /\ ickCfg' = [c |-> c, s |-> s, clk |-> r.upd,
                       free |-> fc # 0 /\ ~IckBusy(c)]
  /\ UNCHANGED ickTmr

(* cam_icp_update_clk_rate when the clock changed (CAM_ICP_IPE_CMD_UPDATE_  *)
(* CLK enables a stopped clock first), then the frame goes to the firmware. *)
IckConfigApply ==
  /\ ickCfg # IckIdle
  /\ ickDev' = IF ickCfg.clk
                 THEN [ickDev EXCEPT !.on = TRUE, !.rate = ickDev.curr]
                 ELSE ickDev
  /\ ickCtx' = [ickCtx EXCEPT ![ickCfg.c] =
                 [@ EXCEPT !.fw = @ \cup {ickCfg.s}, !.run = @ \cup {ickCfg.s}]]
  /\ ickCfg' = IckIdle
  /\ ickGhost' = [ickGhost EXCEPT !.late = @ /\ ~ickCfg.clk]
  /\ UNCHANGED ickTmr

(* The frame is done: the slot and its flag are cleared, the timers reset. *)
IckDone(c, s) ==
  /\ ickCfg.c # c
  /\ s \in ickCtx[c].run
  /\ ickCtx' = [ickCtx EXCEPT ![c] =
                 [@ EXCEPT !.used = @ \ {s}, !.fw = @ \ {s}, !.run = @ \ {s},
                           !.armed = TRUE]]
  /\ UNCHANGED <<ickDev, ickCfg, ickTmr, ickGhost>>

(* cam_icp_mgr_flush_all clears the slots and leaves their flags. *)
IckFlush(c) ==
  /\ ~IckLocked /\ ickCtx[c].st /\ ickCtx[c].used # {}
  /\ ickCtx' = [ickCtx EXCEPT ![c] = [@ EXCEPT !.used = {}, !.run = {}]]
  /\ UNCHANGED <<ickDev, ickCfg, ickTmr, ickGhost>>

-----------------------------------------------------------------------------
(* cam_icp_ctx_timer, under ctx_mutex: an idle context takes its votes out  *)
(* of the device's bandwidth, in unsigned arithmetic.                       *)
IckCtxTimer(c) ==
  /\ IckSpend /\ ickCfg.c # c
  /\ IckTimerDue(c)
  /\ ickDev' = [ickDev EXCEPT !.bw = @ - ickCtx[c].bw]
  /\ ickCtx' = [ickCtx EXCEPT ![c] = [IckCtxZero(@) EXCEPT !.armed = FALSE]]
  /\ ickGhost' = [ickGhost EXCEPT !.left = @ - 1]
  /\ UNCHANGED <<ickCfg, ickTmr>>

(* cam_icp_deinit_idle_clk before the lock: the clock of the device is      *)
(* forgotten whatever runs on it.                                           *)
IckDevTimer ==
  /\ IckSpend /\ ickTmr = 0 /\ ~ickGhost.queued
  /\ IckAcquired # {}
  /\ ickDev' = [ickDev EXCEPT !.base = 0, !.curr = 0, !.over = 0]
  /\ ickGhost' = [ickGhost EXCEPT !.left = @ - 1, !.queued = TRUE,
                                  !.raced = TRUE]
  /\ UNCHANGED <<ickCtx, ickCfg, ickTmr>>

(* hw_mgr_mutex is taken. *)
IckDevLock ==
  /\ ickGhost.queued /\ ~IckLocked
  /\ ickTmr' = 1
  /\ ickGhost' = [ickGhost EXCEPT !.queued = FALSE]
  /\ UNCHANGED <<ickDev, ickCtx, ickCfg>>

(* One context of the loop, under its ctx_mutex: a busy one ends the        *)
(* handler with the contexts before it already cleared.                     *)
IckDevScan ==
  /\ ickTmr \in IckCtxs
  /\ IF ickCtx[ickTmr].st /\ IckPending(ickTmr)
       THEN ickTmr' = 0 /\ UNCHANGED ickCtx
       ELSE /\ ickCtx' = IF ickCtx[ickTmr].st
                           THEN [ickCtx EXCEPT ![ickTmr] = IckCtxZero(@)]
                           ELSE ickCtx
            /\ ickTmr' = ickTmr + 1
  /\ UNCHANGED <<ickDev, ickCfg, ickGhost>>

(* CAM_ICP_IPE_CMD_DISABLE_CLK when no context was busy. *)
IckDevOff ==
  /\ ickTmr = IckNCtx + 1
  /\ ickDev' = [ickDev EXCEPT !.on = FALSE]
  /\ ickTmr' = 0
  /\ ickGhost' = [ickGhost EXCEPT !.late = ickDev.curr # 0]
  /\ UNCHANGED <<ickCtx, ickCfg>>

-----------------------------------------------------------------------------
IckInit ==
  /\ ickDev = [base |-> 0, curr |-> IckSvs, over |-> 0, bw |-> IckDefBw,
               on |-> FALSE, rate |-> 0]
  /\ ickCtx = [c \in IckCtxs |-> [st |-> FALSE, fc |-> 0, base |-> 0, bw |-> 0,
                                  armed |-> FALSE, used |-> {}, fw |-> {},
                                  run |-> {}]]
  /\ ickCfg = IckIdle
  /\ ickTmr = 0
  /\ ickGhost = [left |-> IckEvents, frames |-> IckFrames,
                 queued |-> FALSE,   \* the device timer waits for the lock
                 raced |-> FALSE,    \* it ran since the last configuration began
                 late |-> FALSE,     \* it stopped a clock chosen after it began
                 odd |-> FALSE]      \* the bandwidth is not a sum, see IckConfigCalc

IckNextStep ==
  \/ \E c \in IckCtxs :
       \/ IckAcquire(c) \/ IckRelease(c) \/ IckFlush(c) \/ IckCtxTimer(c)
       \/ \E s \in IckSlots :
            \/ IckPrepare(c, s) \/ IckDone(c, s)
            \/ \E load \in IckLoads, k \in 0..IckNCtx :
                 IckConfigCalc(c, s, load[1], load[2], k)
  \/ IckConfigApply \/ IckDevTimer \/ IckDevLock \/ IckDevScan \/ IckDevOff

IckSpec == IckInit /\ [][IckNextStep]_ickVars

-----------------------------------------------------------------------------
(* The bandwidth of the device covers the votes of its contexts, so that    *)
(* cam_icp_ctx_timer, which subtracts without a test, does not wrap; except *)
(* after a frame without cycles whose default clock was left as bandwidth,  *)
(* or a sum built while a context withdrew its vote.                        *)
IckVotes ==
  ~ickGhost.odd =>
    ickDev.bw >= MapThenSumSet(LAMBDA c : ickCtx[c].bw, IckAcquired)

(* A frame in the firmware has a running clock: the handler of the device   *)
(* timer disables the clock only of an idle device, and the configuration   *)
(* of the next frame enables it again, because the clock it compares with   *)
(* was forgotten. The exception: a clock chosen while the handler, having   *)
(* cleared it, waited for hw_mgr_mutex is stopped and not forgotten.        *)
IckServed ==
  \A c \in IckCtxs : ickCtx[c].run # {} => ickDev.on \/ ickGhost.late

(* A frame that meets no backlog leaves cam_icp_mgr_ipe_bps_clk_update with *)
(* a clock that reaches the sum of the base clocks, whatever levels were    *)
(* left, lowered or forgotten before, unless the device timer cleared the   *)
(* clock between the two steps (or stopped it late, see IckServed).         *)
IckEnough ==
  ickCfg.free /\ IckConfigApply /\ ~ickGhost.raced
    => (ickDev'.on \/ ickGhost'.late) /\ ickDev'.rate >= ickDev.base

\* Votes cover their users, a running frame has a clock, and a frame leaves with a
\* clock that is high enough.
IckCorrect == [][(IckVotes /\ IckServed)' /\ IckEnough]_ickVars
=============================================================================
