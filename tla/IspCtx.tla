------------------------------- MODULE IspCtx --------------------------------
(***************************************************************************)
(* The ISP context (cam_isp_context.c): the top states and the substate    *)
(* machines of pixel, RDI-only and FS2 contexts. Calls hold ctx_mutex and  *)
(* run one at a time; the tasklet that delivers hardware events takes only *)
(* ctx->lock and runs between the locked parts of a call. Apply, start and *)
(* flush call the hardware with the lock released, so they have two steps. *)
(* A handler is an operator from a context to a context.                   *)
(***************************************************************************)
EXTENDS Integers, Sequences, FiniteSets

CONSTANTS IspSlots,    \* requests of the context (CAM_CTX_REQ_MAX)
          IspMaxReq,   \* request ids
          IspOuts,     \* the sets of output ports a packet may ask for
          IspTypes,    \* sets of kinds of context, of "pix", "rdi", "fs2": a behaviour
                       \*   acquires contexts of the kinds of one of them
          IspMishaps   \* errors, late or overtaking events, failed or cancelling calls

VARIABLES isp,       \* the context and its requests
          ispCall,   \* the call that released the lock: pc, slot, id, next
          ispHw,     \* the frame the hardware is in (external)
          ispGhost   \* budget and history

ispVars == <<isp, ispCall, ispHw, ispGhost>>

IspBlank == [id |-> 0, init |-> FALSE, out |-> {}, sync |-> {}, owed |-> {},
             left |-> {}, acked |-> 0, bub |-> FALSE, rep |-> FALSE]
IspNoCall == [pc |-> "idle", slot |-> 0, id |-> 0, next |-> "SOF"]
(* in: between start of frame and epoch; rup: a register update was asked   *)
(* for; due: it will come in this frame; trig: CRM was notified; pos: the   *)
(* last request CRM has applied.                                            *)
IspFrame(rup, pos) == [in |-> FALSE, rup |-> rup, due |-> FALSE, trig |-> FALSE, pos |-> pos]

IspInit ==
  /\ isp = [state |-> "AVAILABLE", sub |-> "SOF", type |-> "pix", rdi |-> FALSE,
            hw |-> FALSE, link |-> FALSE, init |-> FALSE, flushed |-> 0,
            req |-> [i \in IspSlots |-> IspBlank], free |-> IspSlots,
            pend |-> <<>>, wait |-> <<>>, act |-> <<>>, cnt |-> 0,
            reported |-> 0, applied |-> 0, bubble |-> FALSE]
  /\ ispCall = IspNoCall
  /\ ispHw = IspFrame(FALSE, 0)
  /\ \E kinds \in IspTypes :
       ispGhost = [kinds |-> kinds, left |-> IspMishaps, used |-> {}, skew |-> FALSE,
                   errd |-> FALSE, cut |-> FALSE, odd |-> FALSE, wild |-> FALSE, lied |-> FALSE]

-----------------------------------------------------------------------------
(* Lists of requests. *)
IspDrop(q, i) == SelectSeq(q, LAMBDA j : j # i)

IspUnlink(c, i) ==
  [c EXCEPT !.pend = IspDrop(@, i), !.wait = IspDrop(@, i),
            !.act = IspDrop(@, i), !.free = @ \ {i}]

(* A request on the free list keeps its old contents, which only a call    *)
(* that still holds it can see.                                            *)
IspToFree(c, i) ==
  LET d == IspUnlink(c, i)
  IN  [d EXCEPT !.free = @ \cup {i},
                !.req[i] = IF ispCall.slot = i \/ @.owed # {} THEN @ ELSE IspBlank]

(* Every fence still held is signalled with an error.                       *)
IspFail(c, i) == [c EXCEPT !.req[i].owed = @ \ c.req[i].sync, !.req[i].sync = {}]

(* The same where the code leaves sync_id in place.                         *)
IspFailKept(c, i) == [c EXCEPT !.req[i].owed = @ \ c.req[i].sync]

RECURSIVE IspEach(_, _, _)
IspEach(c, q, kept) ==
  IF q = <<>> THEN c
  ELSE LET d == IF kept THEN IspFailKept(c, Head(q)) ELSE IspFail(c, Head(q))
       IN  IspEach(IspToFree(d, Head(q)), Tail(q), kept)

IspToAct(c, i) ==
  [IspUnlink(c, i) EXCEPT !.act = Append(@, i), !.req[i].left = c.req[i].out]

-----------------------------------------------------------------------------
(* Hardware events. The first active request not yet reported is reported   *)
(* with the start of frame.                                                 *)
IspUnreported(c) ==
  {k \in DOMAIN c.act : c.req[c.act[k]].id > c.reported}

IspFirst(K) == CHOOSE k \in K : \A j \in K : k <= j

IspReport(c) ==
  IF IspUnreported(c) = {} THEN c
  ELSE [c EXCEPT !.reported = c.req[c.act[IspFirst(IspUnreported(c))]].id]

IspNotifySof(c) ==
  IF c.cnt > 2 \/ IspUnreported(c) = {} THEN c
  ELSE LET i == c.act[IspFirst(IspUnreported(c))]
           d == IspReport(c)
       IN  IF c.req[i].acked = Cardinality(c.req[i].out) THEN IspToFree(d, i) ELSE d

IspSofInEpoch(c) == IF c.act = <<>> THEN [c EXCEPT !.sub = "SOF"] ELSE c

(* The register update takes the request that waited: it is now in the      *)
(* hardware.                                                                *)
IspTaken(c) ==
  LET i == Head(c.wait)
  IN  IF c.req[i].out # {} THEN [IspToAct(c, i) EXCEPT !.cnt = @ + 1]
      ELSE IspToFree(c, i)

IspRup(c) ==
  IF c.wait = <<>> THEN c ELSE [IspTaken(c) EXCEPT !.sub = "EPOCH"]

(* In the SOF substate no request should be waiting but the first one.      *)
IspRupInSof(c) ==
  IF c.wait = <<>> THEN c
  ELSE LET i == Head(c.wait)
       IN  IF Cardinality(c.req[i].out) = c.req[i].acked THEN IspToFree(c, i)
           ELSE IspUnlink(c, i)

IspBubbled(c, i) ==
  [IspToAct(c, i) EXCEPT !.req[i].bub = TRUE, !.cnt = @ + 1, !.sub = "BUBBLE"]

IspEpochInApplied(c) ==
  IF c.wait = <<>> THEN [c EXCEPT !.sub = "SOF"]
  ELSE LET i == Head(c.wait)
           d == IspBubbled(c, i)
       IN  [d EXCEPT !.bubble = @ \/ c.req[i].rep,
                     !.reported = IF c.req[i].id > @ THEN c.req[i].id ELSE @]

IspEpochInBubbleApplied(c) ==
  IF c.wait = <<>> THEN [c EXCEPT !.sub = "BUBBLE"]
  ELSE LET i == Head(c.wait)
           d == IspBubbled(c, i)
       IN  [d EXCEPT !.reported = IF ~c.req[i].rep /\ c.req[i].id > @
                                  THEN c.req[i].id ELSE @]

-----------------------------------------------------------------------------
(* Buffers done: the ports in P are credited to the first active request.   *)
IspCredit(r, P) ==
  LET hit == P \cap r.sync
  IN  IF r.bub /\ r.rep
      THEN [r EXCEPT !.acked = @ + Cardinality(hit)]
      ELSE [r EXCEPT !.acked = @ + Cardinality(hit), !.sync = @ \ hit, !.owed = @ \ hit]

\* Mutant: the bubbled request goes to the tail.
IspBackToTail(c, i) ==
  [IspUnlink(c, i) EXCEPT !.pend = Append(@, i), !.bubble = FALSE,
                          !.req[i].acked = 0, !.req[i].bub = FALSE]

IspBackToPending(c, i) ==
  [IspUnlink(c, i) EXCEPT !.pend = <<i>> \o @, !.bubble = FALSE,
                          !.req[i].acked = 0, !.req[i].bub = FALSE]

(* If some interrupt since the last completion came late, the next active   *)
(* request fails too. Nothing reads the flag before, so it is chosen here.  *)
IspDelayed(c) ==
  IF c.cnt # 0 /\ c.act # <<>>
  THEN [IspToFree(IspFail(c, Head(c.act)), Head(c.act)) EXCEPT !.cnt = @ - 1]
  ELSE c

IspCompletes(c, P) ==
  c.act # <<>> /\ LET r == c.req[Head(c.act)]
                  IN  IspCredit(r, P).acked = Cardinality(r.out)

IspDone(c, P, late) ==
  IF c.act = <<>> THEN c
  ELSE LET i == Head(c.act)
           d == [c EXCEPT !.req[i] = IspCredit(@, P)]
           e == [d EXCEPT !.cnt = @ - 1]
           f == IF d.req[i].bub /\ d.req[i].rep THEN IspBackToPending(e, i) ELSE IspToFree(e, i)
       IN  IF ~IspCompletes(c, P) THEN d ELSE IF late THEN IspDelayed(f) ELSE f

-----------------------------------------------------------------------------
(* FS2 contexts. *)
IspFs2Sof(c) == IF c.wait # <<>> \/ c.cnt > 2 THEN c ELSE IspReport(c)

IspFs2Done(c, P, late) ==
  LET d == IspDone(c, P, late)
  IN  IF c.act # <<>> /\ c.cnt = d.cnt + 1 /\ d.wait = <<>> /\ d.act = <<>>
      THEN [d EXCEPT !.sub = "SOF",
                     !.reported = IF @ < c.req[Head(c.act)].id
                                  THEN c.req[Head(c.act)].id ELSE @]
      ELSE d

IspFs2Rup(c) ==
  IF c.wait = <<>> THEN c
  ELSE LET d == IspRup(c)
       IN  IF Cardinality(c.req[Head(c.wait)].out) = 1 /\ d.cnt <= 2
           THEN IspReport(d) ELSE d

-----------------------------------------------------------------------------
(* RDI-only contexts have no epoch: the start of frame does its work.       *)
IspRdiSofInApplied(c) == [c EXCEPT !.sub = "BUBBLE_APPLIED"]

IspRdiSofInBubbleApplied(c) ==
  IF c.wait = <<>> THEN [c EXCEPT !.sub = "SOF"] ELSE IspEpochInBubbleApplied(c)

IspRdiSofInBubble(c) ==
  [IspEach(c, c.act, TRUE) EXCEPT !.sub = "SOF", !.cnt = @ - Len(c.act)]

IspRdiRup(c) ==
  IF c.wait = <<>> THEN [c EXCEPT !.sub = "SOF"]
  ELSE LET r == c.req[Head(c.wait)]
           d == [IspTaken(c) EXCEPT !.sub = "EPOCH"]
       IN  IF (r.init /\ r.out = {}) \/ r.id = 0 THEN d ELSE [d EXCEPT !.reported = r.id]

-----------------------------------------------------------------------------
(* A hardware error. Requests that CRM does not want back are failed; from  *)
(* the first one it wants back on, all go to the head of the pending list.  *)
IspWanted(c, q) == {k \in DOMAIN q : c.req[q[k]].rep}
IspUpTo(c, q) ==
  IF IspWanted(c, q) = {} THEN q ELSE SubSeq(q, 1, IspFirst(IspWanted(c, q)) - 1)

IspSweep(c) ==
  LET fa == IspUpTo(c, c.act)
      a  == [IspEach(c, fa, FALSE) EXCEPT !.cnt = @ - Len(fa)]
      fw == IF a.act # <<>> THEN <<>> ELSE IspUpTo(a, a.wait)
      b  == [IspEach(a, fw, FALSE) EXCEPT !.cnt = @ - Len(fw)]
  IN  [b EXCEPT !.pend = b.wait \o b.act \o @, !.wait = <<>>, !.act = <<>>,
                !.cnt = @ - Len(b.wait) - Len(b.act)]

(* Then the pending ones CRM does not want back, up to the last applied.    *)
RECURSIVE IspReject(_)
IspReject(c) ==
  IF c.pend = <<>> \/ c.req[Head(c.pend)].rep THEN c
  ELSE LET i == Head(c.pend)
           d == IspToFree(IspFail(c, i), i)
       IN  IF c.req[i].id < c.applied THEN IspReject(d) ELSE d

IspHandleError(c) == [IspReject(IspSweep(c)) EXCEPT !.sub = "HW_ERROR"]

-----------------------------------------------------------------------------
(* The tables of handlers. *)
IspOnSof(c) ==
  CASE c.type = "rdi" /\ c.sub = "APPLIED" -> IspRdiSofInApplied(c)
    [] c.type = "rdi" /\ c.sub = "BUBBLE_APPLIED" -> IspRdiSofInBubbleApplied(c)
    [] c.type = "rdi" /\ c.sub = "BUBBLE" -> IspRdiSofInBubble(c)
    [] c.type = "rdi" /\ c.sub \in {"SOF", "EPOCH"} -> IspSofInEpoch(c)
    [] c.type = "fs2" /\ c.sub = "SOF" -> IspFs2Sof(c)
    [] c.type # "rdi" /\ c.sub = "EPOCH" -> IspSofInEpoch(c)
    [] OTHER -> c

IspOnRup(c) ==
  CASE c.type = "rdi" /\ c.sub = "BUBBLE_APPLIED" -> IspRdiRup(c)
    [] c.sub = "SOF" -> IspRupInSof(c)
    [] c.type = "fs2" /\ c.sub = "APPLIED" -> IspFs2Rup(c)
    [] c.type # "rdi" /\ c.sub \in {"APPLIED", "BUBBLE_APPLIED"} -> IspRup(c)
    [] c.type # "rdi" /\ c.sub = "HW_ERROR" -> [c EXCEPT !.sub = "SOF"]
    [] OTHER -> c

IspOnEpoch(c) ==
  CASE c.type = "rdi" \/ c.sub \in {"HW_ERROR", "HALT"} -> c
    [] c.sub = "APPLIED" -> IspEpochInApplied(c)
    [] c.sub = "BUBBLE_APPLIED" -> IspEpochInBubbleApplied(c)
    [] c.type = "fs2" /\ c.sub = "SOF" -> IspFs2Sof(c)
    [] OTHER -> IspNotifySof(c)

IspOnDone(c, P, late) ==
  CASE c.sub \in {"SOF", "HW_ERROR", "HALT"} -> c
    [] c.type = "fs2" /\ c.sub \in {"APPLIED", "EPOCH"} -> IspFs2Done(c, P, late)
    [] OTHER -> IspDone(c, P, late)

IspOnError(c) ==
  IF c.sub \in {"HW_ERROR", "HALT"} \/ (c.type = "rdi" /\ c.sub = "SOF") THEN c
  ELSE IspHandleError(c)

(* A request that bubbles and is wanted back moves CRM back to it.          *)
IspBack(c, d) ==
  LET B == {i \in IspSlots : d.req[i].bub /\ d.req[i].rep /\ ~c.req[i].bub}
  IN  IF B = {} THEN ispHw.pos ELSE d.req[CHOOSE i \in B : TRUE].id - 1

(* Where the handlers tell CRM that a frame starts.                         *)
IspTriggersOnSof(c) ==
  \/ c.type = "rdi" /\ c.sub \in {"SOF", "EPOCH", "BUBBLE"}
  \/ c.type = "fs2" /\ c.sub = "SOF" /\ c.wait = <<>> /\ c.cnt <= 2
IspTriggersOnRup(c) ==
  \/ c.type = "rdi" /\ c.sub = "BUBBLE_APPLIED" /\ c.wait # <<>>
  \/ c.type = "fs2" /\ c.sub = "APPLIED" /\ c.wait # <<>>
     /\ Cardinality(c.req[Head(c.wait)].out) = 1 /\ c.cnt <= 1
IspTriggersOnEpoch(c) ==
  \/ c.type = "pix" /\ c.sub \in {"SOF", "EPOCH", "BUBBLE"} /\ c.cnt <= 2
  \/ c.type = "fs2" /\ c.sub \in {"EPOCH", "BUBBLE"} /\ c.cnt <= 2
  \/ c.type = "fs2" /\ c.sub = "SOF" /\ c.wait = <<>> /\ c.cnt <= 2

-----------------------------------------------------------------------------
(* What goes wrong is bounded. *)
IspAfter(g, bad) == [g EXCEPT !.left = IF bad THEN @ - 1 ELSE @]
IspMay(bad) == bad => ispGhost.left > 0

(* An event of the hardware, delivered by the tasklet.                      *)
IspEvent(c) ==
  /\ isp.state = "ACTIVATED" /\ ~ispGhost.wild
  /\ isp' = c
  /\ UNCHANGED ispCall

IspStarting == ispCall.pc = "start"

IspSof ==
  /\ (ispHw.in => isp.type = "rdi" /\ ~ispHw.due)
  /\ IspMay(IspStarting)
  /\ IspEvent(IspOnSof(isp))
  /\ ispHw' = [ispHw EXCEPT !.in = TRUE, !.due = ispHw.rup, !.pos = IspBack(isp, isp'),
                            !.trig = @ \/ IspTriggersOnSof(isp)]
  /\ ispGhost' = [IspAfter(ispGhost, IspStarting) EXCEPT !.cut = @ \/ IspStarting]

IspOpen == ispCall.pc \in {"start", "apply"}

IspRegUpdate ==
  /\ ispHw.in /\ ispHw.due
  /\ IspEvent(IspOnRup(isp))
  /\ ispHw' = [ispHw EXCEPT !.rup = FALSE, !.due = FALSE,
                            !.trig = @ \/ IspTriggersOnRup(isp)]
  /\ IspMay(IspOpen)
  /\ ispGhost' = [IspAfter(ispGhost, IspOpen) EXCEPT !.cut = @ \/ IspOpen]

(* A request without ports that bubbles is counted and never discounted.    *)
IspEmptyHeld(c) == \E k \in DOMAIN c.act : c.req[c.act[k]].out = {}

IspEpoch ==
  /\ ispHw.in /\ ~ispHw.due
  /\ IspEvent(IspOnEpoch(isp))
  /\ ispHw' = [ispHw EXCEPT !.in = FALSE, !.pos = IspBack(isp, isp'),
                            !.trig = @ \/ IspTriggersOnEpoch(isp)]
  /\ ispGhost' = [ispGhost EXCEPT
       !.skew = @ \/ IspEmptyHeld(isp'), !.odd = @ \/ IspEmptyHeld(isp')]

(* The hardware wrote the ports P for the oldest active request that still  *)
(* expects some.                                                            *)
IspWriting == {k \in DOMAIN isp.act : isp.req[isp.act[k]].left # {}}
IspWriter == isp.act[IspFirst(IspWriting)]
IspWrote(P) == [isp EXCEPT !.req[IspWriter].left = @ \ P]

(* A success told to the user of another request's buffer.                  *)
IspFalse(P) ==
  LET r == isp.req[Head(isp.act)]
  IN  /\ isp.act # <<>> /\ ~r.bub /\ IspOnDone(isp, P, FALSE) # isp
      /\ \E p \in P \cap r.sync : p \notin r.left

IspBufDone(P, late) ==
  /\ P # {} /\ IspWriting # {} /\ P \subseteq isp.req[IspWriter].left
  /\ (late => IspOnDone(isp, P, FALSE) # isp /\ IspCompletes(isp, P) /\ isp.cnt # 1)
  /\ IspMay(late)
  /\ IspEvent(IspOnDone(IspWrote(P), P, late))
  /\ ispGhost' = [IspAfter(ispGhost, late) EXCEPT
       !.odd = @ \/ late, !.wild = late /\ Len(isp.act) = 1,
       !.lied = @ \/ IspFalse(P)]
  /\ UNCHANGED ispHw

(* The sweep discounts waiting requests that were never counted.            *)
IspError ==
  /\ IspMay(TRUE)
  /\ IspOnError(isp) # isp
  /\ IspEvent(IspOnError(isp))
  /\ ispHw' = [ispHw EXCEPT !.rup = TRUE,
       !.pos = IF isp'.pend # <<>> /\ isp'.req[Head(isp'.pend)].rep /\ isp.applied > 0
               THEN isp.applied - 1 ELSE @]
  /\ ispGhost' = [IspAfter(ispGhost, TRUE) EXCEPT !.errd = TRUE,
                                  !.cut = @ \/ IspOpen,
                                  !.skew = @ \/ isp.wait # <<>>]

-----------------------------------------------------------------------------
(* Calls. *)
IspIdle == ispCall.pc = "idle" /\ ~ispGhost.wild

IspAcquired(c, t) ==
  [c EXCEPT !.hw = TRUE, !.type = t, !.rdi = @ \/ t = "rdi"]

IspAcquireDev(split, t) ==
  /\ IspIdle /\ isp.state = "AVAILABLE"
  /\ isp' = [(IF split THEN isp ELSE IspAcquired(isp, t)) EXCEPT !.state = "ACQUIRED"]
  /\ UNCHANGED <<ispCall, ispHw, ispGhost>>

IspAcquireHw(t) ==
  /\ IspIdle /\ isp.state = "ACQUIRED"
  /\ isp' = IspAcquired(isp, t)
  /\ UNCHANGED <<ispCall, ispHw, ispGhost>>

IspPacket(id, o, init) ==
  [IspBlank EXCEPT !.id = id, !.out = o, !.sync = o, !.owed = o, !.init = init]

IspNewSlot == CHOOSE i \in isp.free : \A j \in isp.free : i <= j

(* An initial packet joins the one that is pending.                         *)
IspEnqueueInit(o) ==
  LET i == IspNewSlot
      j == Head(isp.pend)
  IN  IF isp.pend = <<>>
      THEN [isp EXCEPT !.free = @ \ {i}, !.pend = <<i>>, !.req[i] = IspPacket(0, o, TRUE)]
      ELSE [isp EXCEPT !.req[j] = [@ EXCEPT !.out = o, !.sync = o, !.owed = o]]

IspConfigInit(o) ==
  /\ IspIdle /\ isp.free # {} /\ isp.hw
  /\ isp.state \in {"ACQUIRED", "READY"}
  /\ (isp.pend # <<>> => isp.req[Head(isp.pend)].init /\ isp.req[Head(isp.pend)].out = {})
  /\ isp' = [IspEnqueueInit(o) EXCEPT
       !.init = TRUE, !.state = IF isp.link THEN "READY" ELSE @]
  /\ UNCHANGED <<ispCall, ispHw, ispGhost>>

(* The new request goes behind the last one that is not newer.              *)
IspInOrder(c, i) ==
  LET K == {k \in DOMAIN c.pend : c.req[c.pend[k]].id <= c.req[i].id}
      n == IF K = {} THEN 0 ELSE CHOOSE k \in K : \A j \in K : j <= k
  IN  SubSeq(c.pend, 1, n) \o <<i>> \o SubSeq(c.pend, n + 1, Len(c.pend))

IspConfig(id, o) ==
  /\ IspIdle /\ isp.free # {}
  /\ isp.state \in {"READY", "ACTIVATED"}
  /\ id \notin ispGhost.used /\ id > isp.flushed /\ id > ispHw.pos
  /\ LET c == [isp EXCEPT !.free = @ \ {IspNewSlot}, !.req[IspNewSlot] = IspPacket(id, o, FALSE)]
     IN  isp' = [c EXCEPT !.pend = IspInOrder(c, IspNewSlot)]
  /\ ispGhost' = [ispGhost EXCEPT !.used = @ \cup {id}]
  /\ UNCHANGED <<ispCall, ispHw>>

IspLink ==
  /\ IspIdle /\ isp.state = "ACQUIRED"
  /\ isp' = [isp EXCEPT !.link = TRUE, !.state = IF isp.init THEN "READY" ELSE @]
  /\ UNCHANGED <<ispCall, ispHw, ispGhost>>

(* Start: the state changes before the hardware is started, because events  *)
(* may come at once; the request moves to its list afterwards, unlocked.    *)
IspStart ==
  /\ IspIdle /\ isp.state = "READY" /\ isp.pend # <<>> /\ isp.hw
  /\ isp' = [isp EXCEPT
       !.bubble = FALSE, !.cnt = 0, !.reported = 0, !.state = "ACTIVATED",
       !.sub = IF isp.rdi THEN "APPLIED"
               ELSE IF isp.req[Head(isp.pend)].out # {} THEN "EPOCH" ELSE "SOF"]
  /\ ispCall' = [IspNoCall EXCEPT !.pc = "start", !.slot = Head(isp.pend)]
  /\ ispHw' = IspFrame(TRUE, 0)
  /\ UNCHANGED ispGhost

IspStartEnd(ok) ==
  /\ ispCall.pc = "start" /\ ~ispGhost.wild
  /\ isp' = LET i == ispCall.slot
            IN  IF ~ok THEN [isp EXCEPT !.state = "READY"]
                ELSE IF isp.req[i].out # {}
                THEN [IspToAct(isp, i) EXCEPT !.cnt = @ + 1]
                ELSE [IspUnlink(isp, i) EXCEPT !.wait = Append(@, i)]
  /\ ispCall' = IspNoCall
  /\ IspMay(~ok) /\ ispGhost' = [IspAfter(ispGhost, ~ok) EXCEPT
       !.cut = @ \/ (ok /\ isp.rdi /\ isp.req[ispCall.slot].out # {})]
  /\ UNCHANGED ispHw

-----------------------------------------------------------------------------
(* Apply, first part: the substate chooses the target, the head of the      *)
(* pending list is picked under the lock, and the hardware is configured    *)
(* without it.                                                              *)
IspTarget ==
  IF isp.type # "rdi" /\ isp.sub = "BUBBLE" THEN "BUBBLE_APPLIED" ELSE "APPLIED"

IspAccepts == isp.sub \in (IF isp.type = "rdi" THEN {"SOF", "EPOCH"} ELSE {"SOF", "EPOCH", "BUBBLE"})

(* CRM asks for the request after the last one it has applied.              *)
IspAsked == {id \in ispGhost.used : id > ispHw.pos}
IspAsk == CHOOSE id \in IspAsked : \A j \in IspAsked : id <= j

IspApply(rep) ==
  /\ IspIdle /\ isp.state = "ACTIVATED" /\ IspAccepts
  /\ isp.pend # <<>> /\ ~isp.bubble /\ ispHw.trig /\ IspAsked # {}
  /\ LET i == Head(isp.pend)
     IN  IF isp.req[i].id # IspAsk
         THEN /\ isp.applied + 1 # isp.req[i].id
              /\ isp' = [isp EXCEPT !.applied = IspAsk]
              /\ ispHw' = [ispHw EXCEPT !.trig = FALSE, !.pos = IspAsk]
              /\ UNCHANGED ispCall
         ELSE /\ isp' = [isp EXCEPT !.req[i].rep = rep]
              /\ ispCall' = [pc |-> "apply", slot |-> i, id |-> IspAsk, next |-> IspTarget]
              /\ ispHw' = [ispHw EXCEPT !.trig = FALSE, !.rup = TRUE]
  /\ UNCHANGED ispGhost

IspApplyEnd(ok) ==
  /\ ispCall.pc = "apply" /\ ~ispGhost.wild
  /\ IspMay(~ok) /\ ispGhost' = IspAfter(ispGhost, ~ok)
  /\ IF ok
     THEN /\ isp' = [IspUnlink(isp, ispCall.slot) EXCEPT
               !.wait = Append(@, ispCall.slot), !.applied = ispCall.id, !.sub = ispCall.next]
          /\ ispHw' = [ispHw EXCEPT !.pos = ispCall.id]
     ELSE UNCHANGED <<isp, ispHw>>
  /\ ispCall' = IspNoCall

-----------------------------------------------------------------------------
(* Flush. The pending list is flushed first, then the bubble flag is        *)
(* cleared, then the hardware is stopped and the other lists are flushed.   *)
IspMost == IF ispGhost.used = {} THEN 0 ELSE CHOOSE i \in ispGhost.used : \A j \in ispGhost.used : j <= i

IspFlushAll ==
  /\ IspIdle /\ isp.state \in {"ACQUIRED", "ACTIVATED"}
  /\ isp' = [IspEach(isp, isp.pend, FALSE) EXCEPT !.flushed = IspMost]
  /\ ispCall' = [IspNoCall EXCEPT !.pc = "flush"]
  /\ UNCHANGED <<ispHw, ispGhost>>

IspFlushClear ==
  /\ ispCall.pc = "flush" /\ ~ispGhost.wild
  /\ IF isp.wait = <<>> /\ isp.act = <<>>
     THEN /\ isp' = [isp EXCEPT !.bubble = FALSE, !.sub = "SOF"]
          /\ ispCall' = IspNoCall
     ELSE /\ isp' = [isp EXCEPT !.bubble = FALSE]
          /\ ispCall' = [ispCall EXCEPT !.pc = "reset"]
  /\ UNCHANGED <<ispHw, ispGhost>>

IspFlushReset(ok) ==
  /\ ispCall.pc = "reset" /\ ~ispGhost.wild
  /\ isp' = IF ok THEN [IspEach(isp, isp.wait \o isp.act, FALSE) EXCEPT !.cnt = 0, !.sub = "SOF"]
            ELSE [isp EXCEPT !.sub = "SOF"]
  /\ ispCall' = IspNoCall
  /\ ispHw' = IspFrame(TRUE, ispHw.pos)
  /\ IspMay(~ok)
  /\ ispGhost' = [IspAfter(ispGhost, ~ok) EXCEPT !.cut = @ \/ ~ok,
                    !.skew = @ /\ ~ok, !.odd = @ \/ isp.bubble]

(* Cancelling one request puts the context back in the SOF substate         *)
(* whether or not it was found.                                             *)
IspFlushOne(id) ==
  /\ IspIdle /\ isp.state \in {"ACQUIRED", "ACTIVATED"} /\ id \in ispGhost.used
  /\ LET q == SelectSeq(isp.pend, LAMBDA i : isp.req[i].id = id)
     IN  isp' = [IspEach(isp, q, FALSE) EXCEPT !.bubble = FALSE, !.sub = "SOF"]
  /\ IspMay(TRUE)
  /\ ispGhost' = [IspAfter(ispGhost, TRUE) EXCEPT !.cut = @ \/ isp.wait # <<>> \/ isp.act # <<>>]
  /\ UNCHANGED <<ispCall, ispHw>>

IspFlushReady(id) ==
  /\ IspIdle /\ isp.state = "READY" /\ id \in {-1} \cup ispGhost.used
  /\ LET c == IspEach(isp, SelectSeq(isp.pend, LAMBDA i : id = -1 \/ isp.req[i].id = id), FALSE)
     IN  isp' = IF c.pend = <<>> THEN [c EXCEPT !.state = "ACQUIRED"] ELSE c
  /\ UNCHANGED <<ispCall, ispHw, ispGhost>>

-----------------------------------------------------------------------------
IspStopped(c) ==
  IF c.state # "ACTIVATED" THEN c
  ELSE [IspEach(c, c.pend \o c.wait \o c.act, TRUE) EXCEPT
          !.sub = "HALT", !.cnt = 0, !.reported = 0, !.applied = 0,
          !.bubble = FALSE, !.state = "ACQUIRED"]

IspEnded(g) == [g EXCEPT !.used = {}, !.skew = FALSE, !.odd = FALSE]

IspStop ==
  /\ IspIdle /\ isp.state = "ACTIVATED"
  /\ isp' = [IspStopped(isp) EXCEPT !.init = FALSE]
  /\ ispGhost' = IspEnded(ispGhost)
  /\ ispHw' = IspFrame(FALSE, 0)
  /\ UNCHANGED ispCall

IspUnlinkDev ==
  /\ IspIdle /\ isp.state # "AVAILABLE" /\ isp.link
  /\ isp' = [IspStopped(isp) EXCEPT !.link = FALSE, !.state = "ACQUIRED"]
  /\ ispGhost' = IF isp.state = "ACTIVATED" THEN IspEnded(ispGhost) ELSE ispGhost
  /\ ispHw' = IspFrame(FALSE, 0)
  /\ UNCHANGED ispCall

IspReleased(c) ==
  LET d == IspStopped(c)
  IN  [IspEach(d, d.pend, FALSE) EXCEPT
         !.hw = FALSE, !.flushed = 0, !.cnt = 0, !.init = FALSE, !.reported = 0,
         !.applied = 0, !.state = "ACQUIRED",
         !.link = @ /\ c.state # "ACTIVATED"]

IspReleaseHw ==
  /\ IspIdle /\ isp.state # "AVAILABLE"
  /\ isp' = IspReleased(isp)
  /\ ispGhost' = IspEnded(ispGhost)
  /\ ispHw' = IspFrame(FALSE, 0)
  /\ UNCHANGED ispCall

IspReleaseDev ==
  /\ IspIdle /\ isp.state # "AVAILABLE"
  /\ isp' = [IspReleased(isp) EXCEPT !.state = "AVAILABLE", !.link = FALSE, !.rdi = FALSE]
  /\ ispGhost' = IspEnded(ispGhost)
  /\ ispHw' = IspFrame(FALSE, 0)
  /\ UNCHANGED ispCall

IspPorts == UNION IspOuts

IspNext ==
  \/ \E t \in ispGhost.kinds, split \in BOOLEAN : IspAcquireDev(split, t)
  \/ \E t \in ispGhost.kinds : IspAcquireHw(t)
  \/ \E o \in IspOuts : IspConfigInit(o)
  \/ \E id \in 1..IspMaxReq, o \in IspOuts : IspConfig(id, o)
  \/ \E rep \in BOOLEAN : IspApply(rep)
  \/ \E ok \in BOOLEAN : IspStartEnd(ok) \/ IspApplyEnd(ok) \/ IspFlushReset(ok)
  \/ IspLink \/ IspStart \/ IspFlushAll \/ IspFlushClear
  \/ \E id \in 1..IspMaxReq : IspFlushOne(id)
  \/ \E id \in -1..IspMaxReq : IspFlushReady(id)
  \/ IspStop \/ IspUnlinkDev \/ IspReleaseHw \/ IspReleaseDev
  \/ IspSof \/ IspRegUpdate \/ IspEpoch \/ IspError
  \/ \E P \in SUBSET IspPorts, late \in BOOLEAN : IspBufDone(P, late)

IspSpec == IspInit /\ [][IspNext]_ispVars

-----------------------------------------------------------------------------
IspListed == {x \in IspSlots : \E q \in {isp.pend, isp.wait, isp.act} : \E k \in DOMAIN q : q[k] = x}

(* A request is on one list at most, also when the tasklet moves it while   *)
(* apply or start, which hold it outside the lock, are about to move it.    *)
IspOneHome ==
  /\ Len(isp.pend) + Len(isp.wait) + Len(isp.act) = Cardinality(IspListed)
  /\ IspListed \cap isp.free = {}

(* Every fence handed over with a packet is signalled by the time its      *)
(* request is on the free list again, and a request is on no list only     *)
(* after the wait list and the hardware fell out of step: a register       *)
(* update overtook the call that moves the request, a cancel put a context *)
(* with a waiting request back to SOF, or a reset failed. A hardware error *)
(* is excepted: a request sent back keeps its old num_acked, so its second *)
(* pass can end with a fence unsignalled.                                  *)
IspPaid ==
  /\ ~ispGhost.errd => \A i \in isp.free : isp.req[i].owed = {}
  /\ IspListed \cup isp.free # IspSlots => ispGhost.cut

(* A user is told of success only for a buffer the hardware has written    *)
(* for that very request, although done events carry no request and are    *)
(* credited to the first active one. It takes a lost done event to break   *)
(* this, and the SOF substate loses them: it is entered with an active     *)
(* request only by a cancel, a failed reset or an early start of frame,    *)
(* and by an RDI-only context whose initial packet has ports.              *)
IspTrue == ispGhost.lied => ispGhost.cut

(* active_req_cnt, which decides whether CRM is told of a frame, is the    *)
(* length of the active list. The two exceptions are the sweep of a        *)
(* hardware error, which discounts waiting requests, and a request without *)
(* ports that bubbles. While it holds, the late-interrupt branch, which    *)
(* looks at the count and not at the list, finds a request to fail.        *)
IspCount ==
  ~ispGhost.skew /\ isp.state = "ACTIVATED" /\ ispCall.pc # "start"
    => isp.cnt = Len(isp.act)

(* The pending list, to whose head bubbled requests return, stays in       *)
(* request order: CRM is answered in the order it asks.                    *)
IspSorted ==
  ~ispGhost.errd /\ ~ispGhost.cut =>
    \A k \in 1..Len(isp.pend) - 1 : isp.req[isp.pend[k]].id <= isp.req[isp.pend[k + 1]].id

(* While process_bubble refuses every apply there is an active request     *)
(* whose completion clears it. The exceptions: a hardware error takes the  *)
(* request away, a late interrupt fails it, it has no ports, or it bubbles *)
(* between the two halves of a flush.                                      *)
IspUnwedged ==
  isp.bubble /\ ~ispGhost.errd /\ ~ispGhost.odd =>
    \E k \in DOMAIN isp.act : isp.req[isp.act[k]].bub /\ isp.req[isp.act[k]].rep

(* Outside ACTIVATED nothing is waiting or active, however the stream      *)
(* ended and whatever call it interrupted.                                 *)
IspQuiet == isp.state # "ACTIVATED" => isp.wait = <<>> /\ isp.act = <<>>

(* In a stream of a context with an epoch the request number reported with *)
(* the start of frame never goes back, bubbles and reapplies included.     *)
IspUp ==
  isp.type # "rdi" /\ isp.state = "ACTIVATED" /\ isp'.state = "ACTIVATED"
  => isp'.reported >= isp.reported

\* Each request is on one list, is paid for once and reported truthfully; bubbles
\* neither lose a request nor wedge the context, and reported numbers never go back.
IspCorrect ==
    [][/\ (IspOneHome /\ IspPaid /\ IspTrue /\ IspCount /\ IspSorted /\ IspUnwedged /\ IspQuiet)'
       /\ IspUp]_ispVars
====
