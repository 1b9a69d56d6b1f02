----------------------------- MODULE IrqTasklet -----------------------------
(***************************************************************************)
(* The interrupt path of one VFE core: the interrupt controller            *)
(* (cam_irq_controller.c), the per-context tasklets that run the bottom     *)
(* halves (cam_tasklet_util.c), and the two top halves and the payload pool *)
(* of cam_vfe_core.c.                                                      *)
(*                                                                         *)
(* Contexts share the core.  A starting context starts its tasklet and has  *)
(* its source resource subscribe a handler; the first resource to start     *)
(* also subscribes the core's error handler, number 0.  The controller's    *)
(* spin lock is held while an interrupt is handled and while a handler is   *)
(* (un)subscribed, but the tasklet is started and stopped outside it, so an *)
(* interrupt in progress is three steps per handler: take a command, run    *)
(* the top half, queue the bottom half.  Handler c watches event bit c.     *)
(***************************************************************************)
EXTENDS Naturals, Sequences, FiniteSets

CONSTANTS IrcCtxs,      \* the contexts that share the core
          IrcCmds,      \* the commands of a tasklet (CAM_TASKLETQ_SIZE)
          IrcEvtMax,    \* payloads of the core (CAM_VFE_EVT_MAX)
          IrcIrqs,      \* bound: interrupts taken
          IrcStarts     \* bound: starts of a context

VARIABLES ircUsr,       \* the thread that drives each context
          ircTl,        \* the tasklets: [act, free, used]
          ircCtl,       \* the controller and the core: [subs, en, mask, errTl, tlInfo]
          ircIrq,       \* the interrupt in progress: [pc, todo, cmd]
          ircPool,      \* free payloads
          ircG          \* history and bounds

ircVars == <<ircUsr, ircTl, ircCtl, ircIrq, ircPool, ircG>>

IRCERR == 0
IrcHandlers == IrcCtxs \union {IRCERR}

\* The tasklet a handler's bottom half was subscribed with.
IrcTlOf(h) == IF h = IRCERR THEN ircCtl.errTl ELSE h

IrcIdle == ircIrq.pc = "idle"

-----------------------------------------------------------------------------
(* The driving threads. *)

\* cam_tasklet_start: all commands go back to the free list.
IrcTlStart(c) ==
  /\ ircUsr[c] = "off" /\ ircG.starts < IrcStarts
  /\ ircTl' = [ircTl EXCEPT ![c] = [act |-> TRUE, free |-> IrcCmds, used |-> <<>>]]
  /\ ircUsr' = [ircUsr EXCEPT ![c] = "tl"]
  /\ ircG' = [ircG EXCEPT !.starts = @ + 1]
  /\ UNCHANGED <<ircCtl, ircIrq, ircPool>>

\* cam_vfe_start writes the core's tasklet pointer before it takes hw_mutex.
IrcInfo(c) ==
  /\ ircUsr[c] = "tl"
  /\ ircCtl' = [ircCtl EXCEPT !.tlInfo = c]
  /\ ircUsr' = [ircUsr EXCEPT ![c] = "info"]
  /\ UNCHANGED <<ircTl, ircIrq, ircPool, ircG>>

\* cam_irq_controller_subscribe_irq for a set of handlers.
IrcSubscribe(ctl, hs) ==
  [ctl EXCEPT !.subs = @ \union hs, !.en = @ \union hs, !.mask = @ \union hs]

\* cam_irq_controller_unsubscribe_irq for a set of handlers.
IrcUnsubscribe(ctl, hs) ==
  [ctl EXCEPT !.subs = @ \ hs, !.en = @ \ hs, !.mask = @ \ hs]

\* The rest of cam_vfe_start, under hw_mutex: the source's handler, and the
\* error handler when the core has none, with the pointer as it now stands.
IrcVfeStart(c) ==
  LET errs == IF IRCERR \in ircCtl.subs THEN {} ELSE {IRCERR}
      ctl == IrcSubscribe(ircCtl, {c} \union errs) IN
  IF errs = {} THEN ctl ELSE [ctl EXCEPT !.errTl = ircCtl.tlInfo]

IrcSub(c) ==
  /\ ircUsr[c] = "info" /\ IrcIdle
  /\ ircCtl' = IrcVfeStart(c)
  /\ ircUsr' = [ircUsr EXCEPT ![c] = "on"]
  /\ ircG' = [ircG EXCEPT
       !.cut = IF IRCERR \in ircCtl.subs THEN @ ELSE FALSE,
       !.stale = @ \/ (IRCERR \notin ircCtl.subs /\ ircCtl'.errTl # 0
                       /\ ircCtl.tlInfo # c /\ ircUsr[ircCtl.tlInfo] \notin {"info", "on"})]
  /\ UNCHANGED <<ircTl, ircIrq, ircPool>>

\* cam_vfe_stop: the source's handler and, whoever owns it, the error handler
\* are unsubscribed.  The controller's lock waits for an interrupt in progress.
IrcUnsub(c) ==
  /\ ircUsr[c] = "on" /\ IrcIdle
  /\ ircCtl' = IrcUnsubscribe(ircCtl, {c, IRCERR})
  /\ ircUsr' = [ircUsr EXCEPT ![c] = "unsub"]
  /\ ircG' = [ircG EXCEPT !.cut = @ \/ IRCERR \in ircCtl.subs, !.deaf = @ \ {c, IRCERR}]
  /\ UNCHANGED <<ircTl, ircIrq, ircPool>>

\* cam_tasklet_stop, first half: the tasklet is made inactive.
IrcTlStop(c) ==
  /\ ircUsr[c] = "unsub"
  /\ ircTl' = [ircTl EXCEPT ![c].act = FALSE]
  /\ ircUsr' = [ircUsr EXCEPT ![c] = "kill"]
  /\ UNCHANGED <<ircCtl, ircIrq, ircPool, ircG>>

\* Mutant: the queue is left as it is.
IrcFlushMutant(c) ==
  /\ ircUsr[c] = "kill"
  /\ ircUsr' = [ircUsr EXCEPT ![c] = "off"]
  /\ UNCHANGED <<ircTl, ircCtl, ircIrq, ircPool, ircG>>

\* cam_tasklet_stop, second half: tasklet_kill and disable, then what is still
\* queued is handled by the caller (cam_tasklet_flush).
IrcFlush(c) ==
  /\ ircUsr[c] = "kill"
  /\ LET q == ircTl[c].used IN
     /\ ircTl' = [ircTl EXCEPT ![c].used = <<>>,
                               ![c].free = @ \union {q[i] : i \in DOMAIN q}]
     /\ ircPool' = ircPool + Len(q)
  /\ ircUsr' = [ircUsr EXCEPT ![c] = "off"]
  /\ UNCHANGED <<ircCtl, ircIrq, ircG>>

-----------------------------------------------------------------------------
(* The interrupt. *)

\* cam_irq_controller_handle_irq: status is read and cleared; the handlers of
\* priority 0 (the error handler) run first, then the others of the list.
IrcHandle(st) ==
  /\ IrcIdle /\ ircG.irqs < IrcIrqs
  /\ st \in SUBSET IrcHandlers /\ st \intersect ircCtl.mask # {}
  /\ LET hit == st \intersect ircCtl.en IN
     \E order \in [1..Cardinality(hit) -> hit] :
       /\ \A i, j \in DOMAIN order : i < j => order[i] # order[j] /\ order[j] # IRCERR
       /\ ircIrq' = [pc |-> "get", todo |-> order, cmd |-> 0]
  /\ ircG' = [ircG EXCEPT !.irqs = @ + 1]
  /\ UNCHANGED <<ircUsr, ircTl, ircCtl, ircPool>>

IrcSkip == ircIrq' = [pc |-> "get", todo |-> Tail(ircIrq.todo), cmd |-> 0]

\* cam_tasklet_get_cmd: with the tasklet inactive or no free command the
\* handler is passed over, top half and all.
IrcGet ==
  /\ ircIrq.pc = "get" /\ ircIrq.todo # <<>>
  /\ LET t == IrcTlOf(Head(ircIrq.todo)) IN
     IF ~ircTl[t].act \/ ircTl[t].free = {}
     THEN IrcSkip /\ ircTl' = ircTl
     ELSE \E k \in ircTl[t].free :
            /\ ircTl' = [ircTl EXCEPT ![t].free = @ \ {k}]
            /\ ircIrq' = [ircIrq EXCEPT !.pc = "top", !.cmd = k]
  /\ UNCHANGED <<ircUsr, ircCtl, ircPool, ircG>>

\* cam_tasklet_put_cmd
IrcPut(t) == [ircTl EXCEPT ![t].free = @ \union {ircIrq.cmd}]

\* cam_vfe_get_evt_payload: without one the command is put back and the event
\* is gone.
IrcTakePayload ==
  IF ircPool = 0
  THEN IrcSkip /\ ircTl' = IrcPut(IrcTlOf(Head(ircIrq.todo))) /\ ircPool' = ircPool
  ELSE /\ ircPool' = ircPool - 1
       /\ ircIrq' = [ircIrq EXCEPT !.pc = "enq"]
       /\ ircTl' = ircTl

\* cam_vfe_irq_top_half
IrcTop ==
  /\ ircIrq.pc = "top" /\ Head(ircIrq.todo) # IRCERR
  /\ IrcTakePayload
  /\ UNCHANGED <<ircUsr, ircCtl, ircG>>

\* cam_vfe_irq_err_top_half first disables its own handler and masks every
\* interrupt of the core.
IrcErrTop ==
  /\ ircIrq.pc = "top" /\ Head(ircIrq.todo) = IRCERR
  /\ ircCtl' = [ircCtl EXCEPT !.en = @ \ {IRCERR}, !.mask = {}]
  /\ ircG' = [ircG EXCEPT !.deaf = ircCtl.subs]
  /\ IrcTakePayload
  /\ UNCHANGED ircUsr

\* cam_tasklet_enqueue_cmd: on an inactive tasklet command and payload are
\* dropped where they are.
IrcEnqueue ==
  /\ ircIrq.pc = "enq" /\ IrcSkip
  /\ LET t == IrcTlOf(Head(ircIrq.todo)) IN
     ircTl' = IF ircTl[t].act
              THEN [ircTl EXCEPT ![t].used = Append(@, ircIrq.cmd)] ELSE ircTl
  /\ UNCHANGED <<ircUsr, ircCtl, ircPool, ircG>>

IrcReturn ==
  /\ ircIrq.pc = "get" /\ ircIrq.todo = <<>>
  /\ ircIrq' = [ircIrq EXCEPT !.pc = "idle"]
  /\ UNCHANGED <<ircUsr, ircTl, ircCtl, ircPool, ircG>>

\* cam_vfe_put_evt_payload, the last step of cam_ife_mgr_do_tasklet
IrcPay == ircPool + 1

\* cam_tasklet_action: the oldest command is handled and freed.
IrcBottom(c) ==
  /\ ircTl[c].act /\ ircTl[c].used # <<>>
  /\ ircTl' = [ircTl EXCEPT ![c].used = Tail(@),
                            ![c].free = @ \union {Head(ircTl[c].used)}]
  /\ ircPool' = IrcPay
  /\ UNCHANGED <<ircUsr, ircCtl, ircIrq, ircG>>

-----------------------------------------------------------------------------
IrcInit ==
  /\ ircUsr = [c \in IrcCtxs |-> "off"]
  /\ ircTl = [c \in IrcCtxs |-> [act |-> FALSE, free |-> IrcCmds, used |-> <<>>]]
  /\ ircCtl = [subs |-> {}, en |-> {}, mask |-> {}, errTl |-> 0, tlInfo |-> 0]
  /\ ircIrq = [pc |-> "idle", todo |-> <<>>, cmd |-> 0]
  /\ ircPool = IrcEvtMax
  /\ ircG = [irqs |-> 0, starts |-> 0, cut |-> FALSE, stale |-> FALSE, deaf |-> {}]

IrcUser(c) == IrcTlStart(c) \/ IrcInfo(c) \/ IrcSub(c) \/ IrcUnsub(c) \/ IrcTlStop(c) \/ IrcFlush(c)

IrcIrqStep == IrcGet \/ IrcTop \/ IrcErrTop \/ IrcEnqueue \/ IrcReturn

IrcNext ==
  \/ \E c \in IrcCtxs : IrcUser(c) \/ IrcBottom(c)
  \/ \E st \in SUBSET IrcHandlers : IrcHandle(st)
  \/ IrcIrqStep

IrcSpec == IrcInit /\ [][IrcNext]_ircVars

-----------------------------------------------------------------------------
IrcHeld(c) == IF ircIrq.pc \in {"top", "enq"} /\ IrcTlOf(Head(ircIrq.todo)) = c THEN {ircIrq.cmd} ELSE {}

IrcQueued(c) == {ircTl[c].used[i] : i \in DOMAIN ircTl[c].used}

\* Every command of a tasklet is in exactly one place: its free list, its queue
\* or the hands of the interrupt handler.  It can only get lost once the core's
\* tasklet pointer was overwritten between its assignment and its use in
\* cam_vfe_start (history variable stale).
IrcOneHome ==
  ircG.stale \/
  \A c \in IrcCtxs :
    LET parts == <<ircTl[c].free, IrcQueued(c), IrcHeld(c)>> IN
    /\ UNION {parts[i] : i \in 1..3} = IrcCmds
    /\ \A i, j \in 1..3 : i < j => parts[i] \intersect parts[j] = {}
    /\ Cardinality(IrcQueued(c)) = Len(ircTl[c].used)

\* No payload of the core is lost: each one is free, queued to a tasklet or in
\* the hands of the interrupt handler, with the same exception.
IrcPayloads ==
  LET inHand == IF ircIrq.pc = "enq" THEN 1 ELSE 0
      Queued[S \in SUBSET IrcCtxs] ==
        IF S = {} THEN 0 ELSE LET c == CHOOSE x \in S : TRUE IN Len(ircTl[c].used) + Queued[S \ {c}]
  IN ircG.stale \/ ircPool + inHand + Queued[IrcCtxs] = IrcEvtMax

\* A stopped context has nothing left to handle, and the interrupt handler
\* holds nothing of it: unsubscribing waits for the interrupt in progress, and
\* the flush empties the queue before cam_tasklet_stop returns.
IrcQuiet ==
  ircG.stale \/ \A c \in IrcCtxs : ircUsr[c] = "off" => ircTl[c].used = <<>> /\ IrcHeld(c) = {}

\* While a context streams, the core's errors are watched, unless another
\* context stopped since: cam_vfe_stop drops the error handler for everyone,
\* and only the next start brings it back.
IrcErrWatched == (\E c \in IrcCtxs : ircUsr[c] = "on") => IRCERR \in ircCtl.subs \/ ircG.cut

\* The hardware raises exactly the interrupts of the handlers subscribed since
\* the last error (history variable deaf: those that were subscribed when it
\* masked the core).  Such a handler stays enabled in software and hears nothing
\* until its context is restarted; only the error handler itself is disabled.
IrcEnabled ==
  /\ ircCtl.mask = ircCtl.subs \ ircG.deaf
  /\ ircCtl.en = ircCtl.subs \ (ircG.deaf \intersect {IRCERR})

\* Interrupt events pass from the top half to the tasklet without being lost,
\* duplicated or delivered after the stop.
IrcSafe ==
    /\ IrcOneHome /\ IrcPayloads /\ IrcQuiet /\ IrcErrWatched /\ IrcEnabled
=============================================================================
