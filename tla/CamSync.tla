------------------------------ MODULE CamSync ------------------------------
(***************************************************************************)
(* The fence table of drivers/cam_sync: individual and merged ("group")     *)
(* sync objects, the callbacks and user payloads registered on them, and    *)
(* the threads that create, signal, merge, reset, destroy and wait for      *)
(* them.                                                                    *)
(*                                                                          *)
(* Every region the code runs under one row spinlock is one step.  The one  *)
(* lock that is held across steps is the lock of the group a merge is       *)
(* building: the merge takes the locks of the children one after the other  *)
(* while it holds it, see Locked.  What happens between two regions (the    *)
(* parents a signal still has to update, the relatives a destroy still has  *)
(* to unlink) is the local state of a thread.                               *)
(*                                                                          *)
(* A parents or children list is a bag, a function from objects to the      *)
(* number of nodes with that sync_id: the order of the nodes only decides   *)
(* the order in which relatives are visited, which is left open.  A call    *)
(* that is rejected before it changes anything is not a step.               *)
(***************************************************************************)
EXTENDS Integers, FiniteSets

CONSTANTS
    Objs,      \* the rows a client can be given: 1 .. CAM_SYNC_MAX_OBJS - 1
    Threads,   \* kernel threads and ioctl callers inside the driver
    Cbs,       \* the sync_callback_info nodes memory can hold, one per request
    Pls,       \* the user payloads, told apart by their payload_data
    NoObj,     \* the invalid handle 0
    Ops,       \* the operations the clients of this instance issue
    Contract,  \* TRUE when the clients keep the contract in Settled
    Mod,       \* the modulus of the unsigned counter remaining, 2^32 in the code
    MaxRef,    \* bound on the references taken and dropped on one object
    MaxOpen    \* bound on open file handles of the device

ASSUME ConstantsAssumption ==
    /\ NoObj \notin Objs
    /\ Contract \in BOOLEAN
    /\ Mod \in Nat /\ Mod > 1
    /\ MaxRef \in Nat /\ MaxOpen \in Nat

VARIABLES
    bitmap,    \* the indices handed out
    table,     \* the rows
    cb,        \* where each callback node is
    pl,        \* where each user payload is
    thr,       \* what each thread is in the middle of
    open_cnt,  \* opened file handles of the sync device
    unsignaled,\* history: members of a group that have not been signaled
    bad        \* history: whether a member of the group was signaled as error

vars == <<bitmap, table, cb, pl, thr, open_cnt, unsignaled, bad>>

----------------------------------------------------------------------------
(* Rows.                                                                    *)

States == {"INVALID", "ACTIVE", "SUCCESS", "ERROR"}
Signaled == {"SUCCESS", "ERROR"}
Bag == [Objs -> Nat]
NoBag == [o \in Objs |-> 0]

Row == [type : {"INDV", "GROUP"}, state : States, remaining : 0 .. Mod - 1,
        ref_cnt : Int, signaled : BOOLEAN, parents : Bag, children : Bag]

(* A row after memset.                                                      *)
ZeroRow == [type |-> "INDV", state |-> "INVALID", remaining |-> 0, ref_cnt |-> 0,
            signaled |-> FALSE, parents |-> NoBag, children |-> NoBag]

cam_sync_init_row(ty) == [ZeroRow EXCEPT !.type = ty, !.state = "ACTIVE"]

(* The unsigned counter remaining.                                          *)
\* Mutant: the count stays.
DecLost(n) == n

Inc(n) == (n + 1) % Mod
Dec(n) == (n + Mod - 1) % Mod

Add(b, o) == [b EXCEPT ![o] = @ + 1]
(* SYNC_LIST_CLEAN_ONE: unlink one node with this sync_id, if there is one.  *)
CleanOne(b, o) == [b EXCEPT ![o] = IF @ > 0 THEN @ - 1 ELSE 0]

----------------------------------------------------------------------------
(* Nodes and threads.                                                       *)

(* A callback is free, on a row's callback_list, queued on the workqueue    *)
(* with the status it will be called with, or lost by a reset.              *)
CbNode == [where : {"free", "listed", "queued", "lost"},
           obj : Objs \cup {NoObj}, status : States]
FreeCb == [where |-> "free", obj |-> NoObj, status |-> "INVALID"]

(* A payload is with its owner, on a row's user_payload_list, in the event  *)
(* queue of the file handle with a status, or lost by a reset.              *)
PlNode == [where : {"free", "listed", "event", "lost"},
           obj : Objs \cup {NoObj}, status : States]
FreePl == [where |-> "free", obj |-> NoObj, status |-> "INVALID"]

Pcs == {"idle", "create", "signal", "parents", "merge_lock", "merge",
        "merge_undo", "destroy", "reset", "wait", "woken",
        "close_signal", "close_destroy"}

Thread == [pc : Pcs, obj : Objs \cup {NoObj}, st : States, todo : Bag,
           rest : Bag, scan : SUBSET Objs,
           ret : {"idle", "close_signal", "close_destroy"}]
Idle == [pc |-> "idle", obj |-> NoObj, st |-> "INVALID", todo |-> NoBag,
         rest |-> NoBag, scan |-> {}, ret |-> "idle"]

(* The row lock of o is held across steps: a merge is building the group o.  *)
Locked(o) == \E t \in Threads : thr[t].pc \in {"merge", "merge_undo"} /\ thr[t].obj = o

(* t returns from the call it is in.                                        *)
Return(t) == [thr[t] EXCEPT !.pc = thr[t].ret, !.obj = NoObj, !.st = "INVALID",
                            !.todo = NoBag, !.rest = NoBag, !.ret = "idle"]

(* A step of t, and an update of row o.                                     *)
Move(t, th) == thr' = [thr EXCEPT ![t] = th]
SetRow(o, row) == table' = [table EXCEPT ![o] = row]

(* A thread works on o or still has to visit it.                            *)
Mentions(t, o) == \/ thr[t].obj = o
                  \/ thr[t].todo[o] > 0
                  \/ thr[t].rest[o] > 0

(* The clients' side of destroy: nobody is in the middle of a call that     *)
(* involves the object, it is not an unsignaled member of a group, and a    *)
(* group has completed.                                                     *)
Settled(o) == /\ \A t \in Threads : ~Mentions(t, o)
              /\ table[o].parents = NoBag
              /\ table[o].remaining = 0

TypeOK ==
    /\ bitmap \subseteq Objs
    /\ table \in [Objs -> Row]
    /\ cb \in [Cbs -> CbNode]
    /\ pl \in [Pls -> PlNode]
    /\ thr \in [Threads -> Thread]
    /\ open_cnt \in Nat
    /\ unsignaled \in [Objs -> SUBSET Objs]
    /\ bad \in [Objs -> BOOLEAN]

Init ==
    /\ bitmap = {}
    /\ table = [o \in Objs |-> ZeroRow]
    /\ cb = [n \in Cbs |-> FreeCb]
    /\ pl = [p \in Pls |-> FreePl]
    /\ thr = [t \in Threads |-> Idle]
    /\ open_cnt = 0
    /\ unsignaled = [o \in Objs |-> {}]
    /\ bad = [o \in Objs |-> FALSE]

----------------------------------------------------------------------------
(* Dispatch.                                                                *)

(* t is inside cam_sync_close, which holds table_lock to its end.           *)
Closing(t) == \/ thr[t].pc \in {"close_signal", "close_destroy"}
              \/ thr[t].ret \in {"close_signal", "close_destroy"}

\* Mutant: the close does not take it.
TableLockNotHeldByClose == \E t \in Threads : thr[t].pc = "create"

(* table_lock is held: by a close, or by the ioctl around a creation.       *)
TableLocked == \E t \in Threads : Closing(t) \/ thr[t].pc = "create"

(* cam_sync_eventq is set by the first open and cleared by the last close.  *)
EventQ == open_cnt > 0 \/ \E t \in Threads : Closing(t)

(* Every callback listed on o goes to the workqueue with this status.       *)
QueueCbs(o, status) ==
    [n \in Cbs |-> IF cb[n].where = "listed" /\ cb[n].obj = o
                   THEN [where |-> "queued", obj |-> o, status |-> status]
                   ELSE cb[n]]

(* Every payload listed on o becomes an event, unless there is no queue.    *)
SendPls(o, status) ==
    [p \in Pls |-> IF pl[p].where = "listed" /\ pl[p].obj = o /\ EventQ
                   THEN [where |-> "event", obj |-> o, status |-> status]
                   ELSE pl[p]]

(* The nodes of o's lists leave them.                                       *)
Drop(nodes, o, where) ==
    [n \in DOMAIN nodes |->
        IF nodes[n].where = "listed" /\ nodes[n].obj = o
        THEN [where |-> where, obj |-> NoObj, status |-> "INVALID"]
        ELSE nodes[n]]

----------------------------------------------------------------------------
(* Creation.                                                                *)

\* Mutant: a row that is not initialised counts as free.
CreateOnUninitialisedRow(t) ==
    /\ "create" \in Ops /\ open_cnt > 0 /\ thr[t].pc = "idle"
    /\ \E idx \in {o \in Objs : table[o].state = "INVALID"} :
        /\ bitmap' = bitmap \cup {idx}
        /\ Move(t, [thr[t] EXCEPT !.pc = "create", !.obj = idx])
    /\ UNCHANGED <<table, cb, pl, open_cnt, unsignaled, bad>>

(* The search for a zero bit and test_and_set_bit are retried until the bit *)
(* was clear; between them the bitmap may change, so any free index can be  *)
(* the one that is taken.                                                   *)
cam_sync_create_alloc(t) ==
    /\ "create" \in Ops
    /\ open_cnt > 0
    /\ thr[t].pc = "idle"
    /\ ~TableLocked
    /\ \E idx \in Objs \ bitmap :
        /\ bitmap' = bitmap \cup {idx}
        /\ Move(t, [thr[t] EXCEPT !.pc = "create", !.obj = idx])
    /\ UNCHANGED <<table, cb, pl, open_cnt, unsignaled, bad>>

cam_sync_create_init(t) ==
    LET idx == thr[t].obj IN
    /\ thr[t].pc = "create"
    /\ ~Locked(idx)
    /\ SetRow(idx, cam_sync_init_row("INDV"))
    /\ Move(t, Return(t))
    /\ unsignaled' = [unsignaled EXCEPT ![idx] = {}]
    /\ bad' = [bad EXCEPT ![idx] = FALSE]
    /\ UNCHANGED <<bitmap, cb, pl, open_cnt>>

----------------------------------------------------------------------------
(* Callbacks and payloads.                                                  *)

\* Mutants of the next operation: the state is not looked at; the count is not.
RegisterNode(n, o, node) ==
    /\ "callback" \in Ops /\ cb[n].where = "free" /\ ~Locked(o)
    /\ cb' = [cb EXCEPT ![n] = node]
    /\ UNCHANGED <<bitmap, table, pl, thr, open_cnt, unsignaled, bad>>
RegisterListed == [where |-> "listed", obj |-> NoObj, status |-> "INVALID"]
RegisterUnchecked(n, o) == RegisterNode(n, o, [RegisterListed EXCEPT !.obj = o])
RegisterIgnoresRemaining(n, o) ==
    /\ table[o].state # "INVALID"
    /\ RegisterNode(n, o, IF table[o].state \in Signaled
          THEN [where |-> "queued", obj |-> o, status |-> table[o].state]
          ELSE [RegisterListed EXCEPT !.obj = o])
cam_sync_register_callback(n, o) ==
    /\ "callback" \in Ops
    /\ cb[n].where = "free"
    /\ ~Locked(o)
    /\ table[o].state # "INVALID"
    /\ cb' = [cb EXCEPT ![n] =
            IF table[o].state \in Signaled /\ table[o].remaining = 0
            THEN [where |-> "queued", obj |-> o, status |-> table[o].state]
            ELSE [where |-> "listed", obj |-> o, status |-> "INVALID"]]
    /\ UNCHANGED <<bitmap, table, pl, thr, open_cnt, unsignaled, bad>>

cam_sync_deregister_callback(n, o) ==
    /\ "callback" \in Ops
    /\ ~Locked(o)
    /\ table[o].state # "INVALID"
    /\ cb[n].where = "listed" /\ cb[n].obj = o
    /\ cb' = [cb EXCEPT ![n] = FreeCb]
    /\ UNCHANGED <<bitmap, table, pl, thr, open_cnt, unsignaled, bad>>

(* The workqueue runs one callback at a time; what the callback does is its *)
(* client's.                                                                *)
cam_sync_util_cb_dispatch(n) ==
    /\ cb[n].where = "queued"
    /\ cb' = [cb EXCEPT ![n] = FreeCb]
    /\ UNCHANGED <<bitmap, table, pl, thr, open_cnt, unsignaled, bad>>

(* The row of a payload registration: an event at once when the state is    *)
(* signaled, EALREADY when the payload is listed, listed otherwise.         *)
PayloadNode(o) ==
    IF table[o].state \in Signaled
    THEN [where |-> "event", obj |-> o, status |-> table[o].state]
    ELSE [where |-> "listed", obj |-> o, status |-> "INVALID"]

cam_sync_handle_register_user_payload(p, o) ==
    /\ "payload" \in Ops
    /\ open_cnt > 0
    /\ pl[p].where = "free"
    /\ ~Locked(o)
    /\ table[o].state # "INVALID"
    /\ pl' = [pl EXCEPT ![p] = PayloadNode(o)]
    /\ UNCHANGED <<bitmap, table, cb, thr, open_cnt, unsignaled, bad>>

cam_sync_handle_deregister_user_payload(p, o) ==
    /\ "payload" \in Ops
    /\ open_cnt > 0
    /\ ~Locked(o)
    /\ table[o].state # "INVALID"
    /\ pl[p].where = "listed" /\ pl[p].obj = o
    /\ pl' = [pl EXCEPT ![p] = FreePl]
    /\ UNCHANGED <<bitmap, table, cb, thr, open_cnt, unsignaled, bad>>

(* User space takes an event from its queue.                                *)
DequeueEvent(p) ==
    /\ pl[p].where = "event"
    /\ pl' = [pl EXCEPT ![p] = FreePl]
    /\ UNCHANGED <<bitmap, table, cb, thr, open_cnt, unsignaled, bad>>

----------------------------------------------------------------------------
(* Signaling.                                                               *)

(* A user space signal takes a reference first; a kernel client took it     *)
(* when its request was configured.  Both then call cam_sync_signal.        *)
cam_sync_get_obj_ref(t, o, status) ==
    /\ "signal" \in Ops
    /\ thr[t].pc = "idle"
    /\ ~Locked(o)
    /\ table[o].state = "ACTIVE"
    /\ table[o].ref_cnt < MaxRef
    /\ SetRow(o, [table[o] EXCEPT !.ref_cnt = @ + 1])
    /\ Move(t, [thr[t] EXCEPT !.pc = "signal", !.obj = o, !.st = status])
    /\ UNCHANGED <<bitmap, cb, pl, open_cnt, unsignaled, bad>>

(* The kernel client's configuration failed after it took the reference:    *)
(* the count is dropped without the row lock.                               *)
cam_sync_put_obj_ref(t) ==
    /\ "put_ref" \in Ops
    /\ thr[t].pc = "signal" /\ thr[t].ret = "idle"
    /\ table[thr[t].obj].ref_cnt > -MaxRef
    /\ SetRow(thr[t].obj, [table[thr[t].obj] EXCEPT !.ref_cnt = @ - 1])
    /\ Move(t, Return(t))
    /\ UNCHANGED <<bitmap, cb, pl, open_cnt, unsignaled, bad>>

(* cam_sync_signal finds nothing to signal.                                 *)
SignalRefused(t) ==
    LET o == thr[t].obj IN
    /\ thr[t].pc = "signal"
    /\ ~Locked(o)
    /\ table[o].state # "ACTIVE" \/ table[o].type = "GROUP"
    /\ Move(t, Return(t))
    /\ UNCHANGED <<bitmap, table, cb, pl, open_cnt, unsignaled, bad>>

(* Other references remain (or there was none): the call only counts.       *)
SignalCounted(t) ==
    LET o == thr[t].obj IN
    /\ thr[t].pc = "signal"
    /\ ~Locked(o)
    /\ table[o].state = "ACTIVE" /\ table[o].type = "INDV"
    /\ table[o].ref_cnt # 1
    /\ table[o].ref_cnt > -MaxRef
    /\ SetRow(o, [table[o] EXCEPT !.ref_cnt = @ - 1])
    /\ Move(t, Return(t))
    /\ UNCHANGED <<bitmap, cb, pl, open_cnt, unsignaled, bad>>

(* The last reference: the object is signaled, its callbacks and payloads   *)
(* dispatched, and its parents taken to a local list for after the unlock.  *)
SignalLast(t) ==
    LET o == thr[t].obj
        status == thr[t].st
        parents == table[o].parents IN
    /\ thr[t].pc = "signal"
    /\ ~Locked(o)
    /\ table[o].state = "ACTIVE" /\ table[o].type = "INDV"
    /\ table[o].ref_cnt = 1
    /\ SetRow(o, [table[o] EXCEPT !.ref_cnt = 0, !.state = status,
                                  !.signaled = TRUE, !.parents = NoBag])
    /\ cb' = QueueCbs(o, status)
    /\ pl' = SendPls(o, status)
    /\ Move(t, IF parents = NoBag THEN Return(t)
               ELSE [thr[t] EXCEPT !.pc = "parents", !.obj = NoObj, !.todo = parents])
    /\ unsignaled' = [g \in Objs |-> unsignaled[g] \ {o}]
    /\ bad' = [g \in Objs |-> bad[g] \/ (o \in unsignaled[g] /\ status = "ERROR")]
    /\ UNCHANGED <<bitmap, open_cnt>>

cam_sync_signal(t) == SignalRefused(t) \/ SignalCounted(t) \/ SignalLast(t)

\* Mutant: the last child decides also after an error.
LastChildDecides(state, new) == IF state = "INVALID" THEN state ELSE new

(* An error sticks; otherwise the last child to report decides.             *)
cam_sync_util_update_parent_state(state, new) ==
    IF state \in {"ACTIVE", "SUCCESS"} THEN new ELSE state

(* A parent that was updated is dispatched when its count is down to zero.  *)
Completes(state, remaining) == state # "INVALID" /\ remaining = 0

(* One parent of the signaled object is updated under the parent's lock.    *)
(* The count goes down whatever the row has become in the meantime.         *)
SignalParent(t, g) ==
    LET remaining == Dec(table[g].remaining)
        state == cam_sync_util_update_parent_state(table[g].state, thr[t].st)
        done == Completes(state, remaining)
        todo == CleanOne(thr[t].todo, g) IN
    /\ thr[t].pc = "parents"
    /\ thr[t].todo[g] > 0
    /\ ~Locked(g)
    /\ SetRow(g, [table[g] EXCEPT !.remaining = remaining, !.state = state,
                                  !.signaled = @ \/ done])
    /\ cb' = IF done THEN QueueCbs(g, state) ELSE cb
    /\ pl' = IF done THEN SendPls(g, state) ELSE pl
    /\ Move(t, IF todo = NoBag THEN Return(t) ELSE [thr[t] EXCEPT !.todo = todo])
    /\ UNCHANGED <<bitmap, open_cnt, unsignaled, bad>>

----------------------------------------------------------------------------
(* Merging.                                                                 *)

cam_sync_check_valid(o) == o \in bitmap /\ table[o].state # "INVALID"

BagOf(S) == [o \in Objs |-> IF o \in S THEN 1 ELSE 0]

(* The members are checked without a lock, then an index is taken.          *)
cam_sync_merge(t, members) ==
    /\ "merge" \in Ops
    /\ thr[t].pc = "idle"
    /\ Cardinality(members) > 1
    /\ \A o \in members : cam_sync_check_valid(o)
    /\ Contract => \A o \in members : table[o].type = "INDV"
    /\ \E idx \in Objs \ bitmap :
        /\ bitmap' = bitmap \cup {idx}
        /\ Move(t, [thr[t] EXCEPT !.pc = "merge_lock", !.obj = idx,
                                  !.todo = BagOf(members)])
    /\ UNCHANGED <<table, cb, pl, open_cnt, unsignaled, bad>>

(* The group's row lock is taken and the row initialised.                   *)
MergeInit(t) ==
    LET idx == thr[t].obj IN
    /\ thr[t].pc = "merge_lock"
    /\ ~Locked(idx)
    /\ SetRow(idx, cam_sync_init_row("GROUP"))
    /\ Move(t, [thr[t] EXCEPT !.pc = "merge"])
    /\ unsignaled' = [unsignaled EXCEPT ![idx] = {}]
    /\ bad' = [bad EXCEPT ![idx] = FALSE]
    /\ UNCHANGED <<bitmap, cb, pl, open_cnt>>

(* A child that is signaled already only leaves its error in the group.     *)
MergeSignaledChild(t, c) ==
    LET idx == thr[t].obj IN
    /\ thr[t].pc = "merge" /\ thr[t].todo[c] > 0
    /\ ~Locked(c)
    /\ table[c].type = "INDV" /\ table[c].state \in Signaled
    /\ SetRow(idx, [table[idx] EXCEPT
                    !.state = IF table[c].state = "ERROR" THEN "ERROR" ELSE @])
    /\ bad' = [bad EXCEPT ![idx] = @ \/ table[c].state = "ERROR"]
    /\ Move(t, [thr[t] EXCEPT !.todo = CleanOne(@, c), !.rest = Add(@, c)])
    /\ UNCHANGED <<bitmap, cb, pl, open_cnt, unsignaled>>

(* An active child is counted and linked to the group in both directions.   *)
AddChild(row, c) == [row EXCEPT !.remaining = Inc(@), !.children = Add(@, c)]
AddParent(row, g) == [row EXCEPT !.parents = Add(@, g)]
MergeActiveChild(t, c) ==
    LET idx == thr[t].obj IN
    /\ thr[t].pc = "merge" /\ thr[t].todo[c] > 0
    /\ ~Locked(c)
    /\ table[c].type = "INDV" /\ table[c].state = "ACTIVE"
    /\ table' = [table EXCEPT ![idx] = AddChild(@, c), ![c] = AddParent(@, idx)]
    /\ unsignaled' = [unsignaled EXCEPT ![idx] = @ \cup {c}]
    /\ Move(t, [thr[t] EXCEPT !.todo = CleanOne(@, c), !.rest = Add(@, c)])
    /\ UNCHANGED <<bitmap, cb, pl, open_cnt, bad>>

(* The child is a group, or was destroyed since the check: the children     *)
(* visited so far are unlinked.                                             *)
MergeBadChild(t, c) ==
    LET idx == thr[t].obj IN
    /\ thr[t].pc = "merge" /\ thr[t].todo[c] > 0
    /\ ~Locked(c)
    /\ table[c].type = "GROUP" \/ table[c].state = "INVALID"
    /\ SetRow(idx, [table[idx] EXCEPT !.state = "INVALID"])
    /\ Move(t, [thr[t] EXCEPT !.pc = "merge_undo", !.todo = thr[t].rest,
                                  !.rest = NoBag])
    /\ UNCHANGED <<bitmap, cb, pl, open_cnt, unsignaled, bad>>

(* The child is counted, but there is no memory for a node to link it.      *)
MergeNoMem(t, c) ==
    LET idx == thr[t].obj IN
    /\ "nomem" \in Ops
    /\ thr[t].pc = "merge" /\ thr[t].todo[c] > 0
    /\ ~Locked(c)
    /\ table[c].type = "INDV" /\ table[c].state = "ACTIVE"
    /\ SetRow(idx, [table[idx] EXCEPT !.remaining = Inc(@), !.state = "INVALID"])
    /\ Move(t, [thr[t] EXCEPT !.pc = "merge_undo", !.todo = thr[t].rest,
                                  !.rest = NoBag])
    /\ UNCHANGED <<bitmap, cb, pl, open_cnt, unsignaled, bad>>

MergeUndoChild(t, c) ==
    LET idx == thr[t].obj IN
    /\ thr[t].pc = "merge_undo" /\ thr[t].todo[c] > 0
    /\ ~Locked(c)
    /\ SetRow(c, [table[c] EXCEPT !.parents = CleanOne(@, idx)])
    /\ Move(t, [thr[t] EXCEPT !.todo = CleanOne(@, c)])
    /\ UNCHANGED <<bitmap, cb, pl, open_cnt, unsignaled, bad>>

(* The failed merge drops the children list, the index and the lock.        *)
MergeFail(t) ==
    LET idx == thr[t].obj IN
    /\ thr[t].pc = "merge_undo" /\ thr[t].todo = NoBag
    /\ SetRow(idx, [table[idx] EXCEPT !.children = NoBag])
    /\ bitmap' = bitmap \ {idx}
    /\ Move(t, Return(t))
    /\ unsignaled' = [unsignaled EXCEPT ![idx] = {}]
    /\ bad' = [bad EXCEPT ![idx] = FALSE]
    /\ UNCHANGED <<cb, pl, open_cnt>>

(* No child left: a group without active children is signaled at once.      *)
MergeDone(t) ==
    LET idx == thr[t].obj
        row == table[idx] IN
    /\ thr[t].pc = "merge" /\ thr[t].todo = NoBag
    /\ SetRow(idx, IF row.remaining # 0 THEN row
                   ELSE [row EXCEPT !.state = IF @ = "ERROR" THEN @ ELSE "SUCCESS",
                                    !.signaled = TRUE])
    /\ Move(t, Return(t))
    /\ UNCHANGED <<bitmap, cb, pl, open_cnt, unsignaled, bad>>

cam_sync_init_group_object(t) ==
    \/ MergeInit(t)
    \/ \E c \in Objs : \/ MergeSignaledChild(t, c) \/ MergeActiveChild(t, c)
                       \/ MergeBadChild(t, c) \/ MergeNoMem(t, c)
                       \/ MergeUndoChild(t, c)
    \/ MergeFail(t)
    \/ MergeDone(t)

----------------------------------------------------------------------------
(* Destruction and reset.                                                   *)

(* Row o becomes invalid; its relatives go to local lists and are unlinked  *)
(* one by one, each under its own lock.                                     *)
DestroyBegin(t, o, ret) ==
    /\ ~Locked(o)
    /\ table[o].state # "INVALID"
    /\ SetRow(o, [table[o] EXCEPT !.state = "INVALID", !.parents = NoBag,
                                  !.children = NoBag])
    /\ Move(t, [thr[t] EXCEPT !.pc = "destroy", !.obj = o, !.ret = ret,
                                  !.todo = table[o].children,
                                  !.rest = table[o].parents,
                                  !.scan = @ \ {o}])
    /\ UNCHANGED <<bitmap, cb, pl, open_cnt, unsignaled, bad>>

cam_sync_destroy(t, o) ==
    /\ "destroy" \in Ops
    /\ thr[t].pc = "idle"
    /\ Contract => Settled(o)
    /\ DestroyBegin(t, o, "idle")

DestroyChild(t, c) ==
    /\ thr[t].pc = "destroy" /\ thr[t].todo[c] > 0
    /\ ~Locked(c)
    /\ SetRow(c, IF table[c].state = "INVALID" THEN table[c]
                 ELSE [table[c] EXCEPT !.parents = CleanOne(@, thr[t].obj)])
    /\ Move(t, [thr[t] EXCEPT !.todo = CleanOne(@, c)])
    /\ UNCHANGED <<bitmap, cb, pl, open_cnt, unsignaled, bad>>

(* The parent forgets the child, but goes on counting it.                   *)
DestroyParent(t, g) ==
    /\ thr[t].pc = "destroy" /\ thr[t].todo = NoBag /\ thr[t].rest[g] > 0
    /\ ~Locked(g)
    /\ SetRow(g, IF table[g].state = "INVALID" THEN table[g]
                 ELSE [table[g] EXCEPT !.children = CleanOne(@, thr[t].obj)])
    /\ Move(t, [thr[t] EXCEPT !.rest = CleanOne(@, g)])
    /\ UNCHANGED <<bitmap, cb, pl, open_cnt, unsignaled, bad>>

DestroyFree(t) ==
    LET o == thr[t].obj IN
    /\ thr[t].pc = "destroy" /\ thr[t].todo = NoBag /\ thr[t].rest = NoBag
    /\ ~Locked(o)
    /\ cb' = Drop(cb, o, "free")
    /\ pl' = Drop(pl, o, "free")
    /\ SetRow(o, ZeroRow)
    /\ bitmap' = bitmap \ {o}
    /\ Move(t, Return(t))
    /\ unsignaled' = [g \in Objs |-> IF g = o THEN {} ELSE unsignaled[g] \ {o}]
    /\ bad' = [bad EXCEPT ![o] = FALSE]
    /\ UNCHANGED open_cnt

cam_sync_deinit_object(t) ==
    \/ \E o \in Objs : DestroyChild(t, o) \/ DestroyParent(t, o)
    \/ DestroyFree(t)

(* A reset makes the row look new, whoever still refers to it; the ioctl    *)
(* then registers a payload on it.                                          *)
cam_sync_reset(t, o) ==
    /\ "reset" \in Ops
    /\ open_cnt > 0
    /\ thr[t].pc = "idle"
    /\ ~Locked(o)
    /\ table[o].state # "INVALID"
    /\ SetRow(o, cam_sync_init_row(table[o].type))
    /\ cb' = Drop(cb, o, "lost")
    /\ pl' = Drop(pl, o, "lost")
    /\ unsignaled' = [unsignaled EXCEPT ![o] = {}]
    /\ bad' = [bad EXCEPT ![o] = FALSE]
    /\ Move(t, [thr[t] EXCEPT !.pc = "reset", !.obj = o])
    /\ UNCHANGED <<bitmap, open_cnt>>

cam_sync_handle_reset(t) ==
    LET o == thr[t].obj IN
    /\ thr[t].pc = "reset"
    /\ ~Locked(o)
    /\ Move(t, Return(t))
    /\ \/ /\ table[o].state = "INVALID" \/ \A p \in Pls : pl[p].where # "free"
          /\ UNCHANGED pl
       \/ \E p \in Pls : /\ table[o].state # "INVALID"
                         /\ pl[p].where = "free"
                         /\ pl' = [pl EXCEPT ![p] = PayloadNode(o)]
    /\ UNCHANGED <<bitmap, table, cb, open_cnt, unsignaled, bad>>

----------------------------------------------------------------------------
(* Waiting.                                                                 *)

cam_sync_wait(t, o) ==
    /\ "wait" \in Ops
    /\ thr[t].pc = "idle"
    /\ table[o].state # "INVALID"
    /\ Move(t, [thr[t] EXCEPT !.pc = "wait", !.obj = o])
    /\ UNCHANGED <<bitmap, table, cb, pl, open_cnt, unsignaled, bad>>

WaitCompleted(t) ==
    /\ thr[t].pc = "wait"
    /\ table[thr[t].obj].signaled
    /\ Move(t, [thr[t] EXCEPT !.pc = "woken"])
    /\ UNCHANGED <<bitmap, table, cb, pl, open_cnt, unsignaled, bad>>

WaitTimedOut(t) ==
    /\ thr[t].pc = "wait"
    /\ Move(t, Return(t))
    /\ UNCHANGED <<bitmap, table, cb, pl, open_cnt, unsignaled, bad>>

(* The waiter reads the state without the lock and returns 0 for SUCCESS.   *)
WaitReturn(t) ==
    /\ thr[t].pc = "woken"
    /\ Move(t, Return(t))
    /\ UNCHANGED <<bitmap, table, cb, pl, open_cnt, unsignaled, bad>>

----------------------------------------------------------------------------
(* The device file.                                                         *)

cam_sync_open ==
    /\ open_cnt < MaxOpen
    /\ ~TableLocked
    /\ open_cnt' = open_cnt + 1
    /\ UNCHANGED <<bitmap, table, cb, pl, thr, unsignaled, bad>>

cam_sync_close(t) ==
    /\ "close" \in Ops
    /\ open_cnt > 0
    /\ thr[t].pc = "idle"
    /\ ~TableLocked
    /\ open_cnt' = open_cnt - 1
    /\ Move(t, IF open_cnt = 1
               THEN [thr[t] EXCEPT !.pc = "close_signal", !.scan = Objs]
               ELSE thr[t])
    /\ UNCHANGED <<bitmap, table, cb, pl, unsignaled, bad>>

(* First pass: cam_sync_signal(i, ERROR) for every row that is ACTIVE.      *)
CloseSignal(t, o) ==
    /\ thr[t].pc = "close_signal" /\ o \in thr[t].scan
    /\ Move(t, IF table[o].state = "ACTIVE"
               THEN [thr[t] EXCEPT !.pc = "signal", !.obj = o, !.st = "ERROR",
                                   !.ret = "close_signal", !.scan = @ \ {o}]
               ELSE [thr[t] EXCEPT !.scan = @ \ {o}])
    /\ UNCHANGED <<bitmap, table, cb, pl, open_cnt, unsignaled, bad>>

(* flush_workqueue.                                                         *)
CloseFlush(t) ==
    /\ thr[t].pc = "close_signal" /\ thr[t].scan = {}
    /\ \A n \in Cbs : cb[n].where # "queued"
    /\ Move(t, [thr[t] EXCEPT !.pc = "close_destroy", !.scan = Objs])
    /\ UNCHANGED <<bitmap, table, cb, pl, open_cnt, unsignaled, bad>>

(* Second pass: cam_sync_destroy(i) for every row that is not INVALID.      *)
CloseDestroy(t, o) ==
    /\ thr[t].pc = "close_destroy" /\ o \in thr[t].scan
    /\ \/ DestroyBegin(t, o, "close_destroy")
       \/ /\ table[o].state = "INVALID"
          /\ Move(t, [thr[t] EXCEPT !.scan = @ \ {o}])
          /\ UNCHANGED <<bitmap, table, cb, pl, open_cnt, unsignaled, bad>>

CloseEnd(t) ==
    /\ thr[t].pc = "close_destroy" /\ thr[t].scan = {}
    /\ Move(t, Return(t))
    /\ UNCHANGED <<bitmap, table, cb, pl, open_cnt, unsignaled, bad>>

----------------------------------------------------------------------------
(* The calls clients may issue, and the steps a started call goes on with.  *)

Client ==
    \/ cam_sync_open
    \/ \E o \in Objs :
        \/ \E n \in Cbs : \/ cam_sync_register_callback(n, o)
                          \/ cam_sync_deregister_callback(n, o)
        \/ \E p \in Pls : \/ cam_sync_handle_register_user_payload(p, o)
                          \/ cam_sync_handle_deregister_user_payload(p, o)
    \/ \E t \in Threads :
        \/ cam_sync_create_alloc(t)
        \/ cam_sync_close(t)
        \/ \E members \in SUBSET Objs : cam_sync_merge(t, members)
        \/ \E o \in Objs : \/ \E status \in Signaled : cam_sync_get_obj_ref(t, o, status)
                           \/ cam_sync_destroy(t, o)
                           \/ cam_sync_reset(t, o)
                           \/ cam_sync_wait(t, o)

Continue(t) ==
    \/ cam_sync_create_init(t)
    \/ cam_sync_signal(t)
    \/ \E g \in Objs : SignalParent(t, g)
    \/ cam_sync_init_group_object(t)
    \/ cam_sync_deinit_object(t)
    \/ cam_sync_handle_reset(t)
    \/ WaitCompleted(t) \/ WaitReturn(t)
    \/ \E o \in Objs : CloseSignal(t, o) \/ CloseDestroy(t, o)
    \/ CloseFlush(t) \/ CloseEnd(t)

Next ==
    \/ Client
    \/ \E t \in Threads : Continue(t) \/ cam_sync_put_obj_ref(t) \/ WaitTimedOut(t)
    \/ \E n \in Cbs : cam_sync_util_cb_dispatch(n)
    \/ \E p \in Pls : DequeueEvent(p)

Spec == Init /\ [][Next]_vars

(* A call that was started goes on, and the workqueue runs what is queued:  *)
(* no step of a call waits for anything but a row lock held for a bounded   *)
(* time.                                                                    *)
Fairness == /\ \A t \in Threads : WF_vars(Continue(t))
            /\ \A n \in Cbs : WF_vars(cam_sync_util_cb_dispatch(n))
FairSpec == Spec /\ Fairness

----------------------------------------------------------------------------
(* Properties.                                                              *)

Live(o) == table[o].state # "INVALID" /\ ~Locked(o)

(* A signal that has yet to update o.                                       *)
InFlight(o) == \E t \in Threads : thr[t].pc = "parents" /\ thr[t].todo[o] > 0

(* What the members of a group amount to.                                   *)
Verdict(g) == IF bad[g] THEN "ERROR" ELSE "SUCCESS"

(* The rows two calls use at the same time never coincide: an index that is *)
(* being created, merged into or destroyed has its bit set, belongs to one  *)
(* thread only, and a row outside the bitmap is INVALID.                    *)
Owning == {"create", "merge_lock", "merge", "merge_undo", "destroy"}
Owns(t, o) == thr[t].pc \in Owning /\ thr[t].obj = o
AllocSafe ==
    /\ \A o \in Objs : table[o].state # "INVALID" => o \in bitmap
    /\ \A t \in Threads : \A o \in Objs : Owns(t, o) =>
        /\ o \in bitmap
        /\ \A u \in Threads : Owns(u, o) => u = t
        /\ thr[t].pc # "merge" => table[o].state = "INVALID"

(* Rows and indices stay consistent, whatever clients do and whichever      *)
(* allocation fails.                                                        *)
TableSafe == TypeOK /\ AllocSafe

(* remaining is the "count of remaining children that not been signaled":   *)
(* whenever no signal is on its way to the row, it counts the members that  *)
(* are unsignaled.                                                          *)
RemainingIsCount ==
    \A o \in Objs : Live(o) /\ ~InFlight(o)
        => table[o].remaining = Cardinality(unsignaled[o])

(* A group whose count has come down to zero has completed, with the error  *)
(* of any member, and only then do waiters pass.                            *)
GroupVerdict ==
    \A g \in Objs : Live(g) /\ table[g].type = "GROUP" =>
        /\ table[g].remaining = 0 => /\ unsignaled[g] = {}
                                     /\ table[g].state = Verdict(g)
                                     /\ table[g].signaled
        /\ table[g].signaled => table[g].remaining = 0

(* A kernel callback is queued only when every member of its object has     *)
(* been signaled, and with the verdict of all of them.                      *)
CallbackVerdict ==
    \A n \in Cbs : \A o \in Objs :
       cb[n].where # "queued" /\ cb'[n].where = "queued" /\ cb'[n].obj = o =>
           /\ unsignaled'[o] = {}
           /\ table[o].type = "GROUP" => cb'[n].status = Verdict(o)'

(* A completed object keeps its state until it is destroyed (a step).       *)
CompletedFrozen ==
    \A o \in Objs : table[o].state \in Signaled /\ table[o].remaining = 0
                     /\ ~Locked(o) =>
       table'[o].state \in {table[o].state, "INVALID"}

(* cam_sync_wait returns 0 only for an object all of whose members have     *)
(* been signaled without an error.                                          *)
WaitVerdict ==
    \A t \in Threads : thr[t].pc = "woken" =>
        LET o == thr[t].obj IN
        /\ unsignaled[o] = {}
        /\ table[o].type = "GROUP" => table[o].state = Verdict(o)

(* What a client may rely on when it keeps the contract: the count of a     *)
(* group is exact, a group completes when all its members have and with     *)
(* their verdict, and cam_sync_wait returns that verdict.                   *)
GroupsExact == RemainingIsCount /\ GroupVerdict /\ WaitVerdict

(* A verdict is final: callbacks are queued with the verdict of all members *)
(* (cam_sync_register_callback, cam_sync_util_dispatch_signaled_cb), and no *)
(* later signal changes the state of a completed object.                    *)
VerdictsFinal == [][CallbackVerdict /\ CompletedFrozen]_vars

(* A callback or payload on a row's list is on a row that is in use: the    *)
(* lists of an index are empty when it is handed out again.                 *)
NodesOnLive ==
    /\ \A n \in Cbs : cb[n].where = "listed" => cb[n].obj \in bitmap
    /\ \A p \in Pls : pl[p].where = "listed" => pl[p].obj \in bitmap

(* The second pass of the last close leaves no individual object behind,    *)
(* although kernel clients signal, merge and destroy at the same time: only *)
(* the ioctls that create one wait for table_lock.  A group can be left, by *)
(* a merge that took its index before the pass and set up its row after it. *)
CloseDestroysAll ==
    \A t \in Threads : thr[t].pc = "close_destroy" /\ thr[t].scan = {} =>
        \A o \in Objs : table[o].state # "INVALID" => table[o].type = "GROUP"

(* Once every member has been signaled the group completes, unless it is    *)
(* destroyed first.                                                         *)
GroupCompletes ==
    \A g \in Objs :
        (Live(g) /\ table[g].type = "GROUP" /\ unsignaled[g] = {})
            ~> (table[g].signaled \/ table[g].state = "INVALID")

(* A callback on an object that is signaled runs.                           *)
CallbackRuns ==
    \A n \in Cbs : \A o \in Objs :
        (cb[n].obj = o /\ Live(o) /\ unsignaled[o] = {} /\ table[o].state \in Signaled)
            ~> (cb[n].obj # o)

\* Groups whose members are all signaled complete, and their callbacks run.
SyncServed == GroupCompletes /\ CallbackRuns
============================================================================
