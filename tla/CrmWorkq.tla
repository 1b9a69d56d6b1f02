------------------------------ MODULE CrmWorkq ------------------------------
(***************************************************************************)
(* The deferred-work queue of the request manager                          *)
(* (drivers/cam_req_mgr/cam_req_mgr_workq.c), which every hardware manager *)
(* uses to leave interrupt context: a fixed pool of tasks, one list of     *)
(* tasks per priority, and one work_struct whose handler empties the       *)
(* lists.                                                                  *)
(*                                                                         *)
(* A critical section under lock_bh is one step.  The kernel's workqueue   *)
(* is external: `queued' is the pending bit of the work_struct, queue_work *)
(* sets it (and does nothing when it is set already), a kernel thread      *)
(* clears it and then runs the handler, and the handler of one work_struct *)
(* never runs twice at the same time.  destroy_workqueue returns when      *)
(* nothing is pending and nothing runs.                                    *)
(*                                                                         *)
(* task->cancel is never set in the sources, so the branch that returns a  *)
(* cancelled task to the pool is not taken.                                *)
(***************************************************************************)
EXTENDS Integers, Sequences, FiniteSets

CONSTANTS Clients,      \* contexts that post work: irq handlers, ioctls, callbacks
          NumTasks,     \* num_tasks, the size of task.pool
          PrioArgs,     \* the values callers pass as prio
          None

Tasks == 1 .. NumTasks

ASSUME NumTasksIsNat == NumTasks \in Nat
ASSUME NoneIsNoTask == None \notin Tasks
ASSUME PrioArgsAreInts == PrioArgs \subseteq Int

VARIABLES wq,           \* "open", "draining" (job is NULL), "freed"
          empty,        \* task.empty_head
          process,      \* task.process_head[priority]
          free_cnt, pending_cnt,
          held,         \* the task a client got and has not enqueued yet
          lost,         \* tasks that enqueue_task refused: in no list
          queued,       \* the work_struct is pending
          wpc,          \* the handler: "idle", "scan", "run"
          wi, wtask     \* its locals i and task

pool == <<empty, free_cnt>>
lists == <<process, pending_cnt>>
handler == <<wpc, wi, wtask>>
wqVars == <<wq, pool, lists, held, lost, queued, handler>>

CRM_TASK_PRIORITY_0 == 0
CRM_TASK_PRIORITY_MAX == 2
Prios == CRM_TASK_PRIORITY_0 .. CRM_TASK_PRIORITY_MAX - 1

Elems(s) == {s[k] : k \in DOMAIN s}

WqTypeOK ==
    /\ wq \in {"open", "draining", "freed"}
    /\ empty \in Seq(Tasks)
    /\ process \in [Prios -> Seq(Tasks)]
    /\ free_cnt \in Int /\ pending_cnt \in Int
    /\ held \in [Clients -> Tasks \cup {None}]
    /\ lost \subseteq Tasks
    /\ queued \in BOOLEAN
    /\ wpc \in {"idle", "scan", "run"}
    /\ wi \in 0 .. CRM_TASK_PRIORITY_MAX
    /\ wtask \in Tasks \cup {None}

\* cam_req_mgr_workq_create: an empty list per priority, every task of the
\* pool put on empty_head.
WqInit ==
    /\ wq = "open"
    /\ empty = [k \in Tasks |-> k] /\ free_cnt = NumTasks
    /\ process = [p \in Prios |-> <<>>] /\ pending_cnt = 0
    /\ held = [c \in Clients |-> None]
    /\ lost = {}
    /\ queued = FALSE
    /\ wpc = "idle" /\ wi = 0 /\ wtask = None

-----------------------------------------------------------------------------
(* Clients *)

\* cam_req_mgr_workq_get_task; with an empty pool it returns NULL, the caller
\* drops the event and nothing changes.
GetTask(c) ==
    /\ wq # "freed" /\ held[c] = None
    /\ empty # <<>>
    /\ held' = [held EXCEPT ![c] = Head(empty)]
    /\ empty' = Tail(empty) /\ free_cnt' = free_cnt - 1
    /\ UNCHANGED <<wq, lists, lost, queued, handler>>

ClampPrio(prio) == IF prio \in Prios THEN prio ELSE CRM_TASK_PRIORITY_0

\* Mutant: the work is not queued again while the handler runs.
QueueWorkIfIdle == queued' = (queued \/ wpc = "idle")

\* queue_work: external.
QueueWork == queued' = TRUE

\* cam_req_mgr_workq_enqueue_task while the workqueue exists.
Enqueue(c) ==
    /\ wq = "open" /\ held[c] # None
    /\ \E prio \in PrioArgs :
         process' = [process EXCEPT ![ClampPrio(prio)] = Append(@, held[c])]
    /\ pending_cnt' = pending_cnt + 1
    /\ held' = [held EXCEPT ![c] = None]
    /\ QueueWork
    /\ UNCHANGED <<wq, pool, lost, handler>>

\* The same call after destroy cleared job: -EINVAL, and the task stays out of
\* every list.
EnqueueRefused(c) ==
    /\ wq = "draining" /\ held[c] # None
    /\ lost' = lost \cup {held[c]}
    /\ held' = [held EXCEPT ![c] = None]
    /\ UNCHANGED <<wq, pool, lists, queued, handler>>

-----------------------------------------------------------------------------
(* The handler, cam_req_mgr_process_workq *)

\* A kernel thread takes the work_struct: external.
StartWork ==
    /\ queued /\ wpc = "idle"
    /\ queued' = FALSE
    /\ wpc' = "scan" /\ wi' = CRM_TASK_PRIORITY_0
    /\ UNCHANGED <<wq, pool, lists, held, lost, wtask>>

\* Under the lock: the head of the current list is detached.
TakeTask ==
    /\ wpc = "scan" /\ process[wi] # <<>>
    /\ wtask' = Head(process[wi])
    /\ process' = [process EXCEPT ![wi] = Tail(@)]
    /\ pending_cnt' = pending_cnt - 1
    /\ wpc' = "run"
    /\ UNCHANGED <<wq, pool, held, lost, queued, wi>>

\* Mutant: the handler stops when the queue is being destroyed.
ProcessTaskOpen ==
    /\ wpc = "run" /\ wq = "open"
    /\ empty' = Append(empty, wtask) /\ free_cnt' = free_cnt + 1
    /\ wtask' = None /\ wpc' = "scan"
    /\ UNCHANGED <<wq, lists, held, lost, queued, wi>>

\* cam_req_mgr_process_task: the callback has run and put_task returns the task
\* to the pool; the lock is taken again.
ProcessTask ==
    /\ wpc = "run"
    /\ empty' = Append(empty, wtask) /\ free_cnt' = free_cnt + 1
    /\ wtask' = None /\ wpc' = "scan"
    /\ UNCHANGED <<wq, lists, held, lost, queued, wi>>

\* The current list is empty: on to the next priority, or return.
NextPriority ==
    /\ wpc = "scan" /\ process[wi] = <<>>
    /\ IF wi + 1 < CRM_TASK_PRIORITY_MAX
         THEN wi' = wi + 1 /\ wpc' = "scan"
         ELSE wi' = 0 /\ wpc' = "idle"
    /\ UNCHANGED <<wq, pool, lists, held, lost, queued, wtask>>

-----------------------------------------------------------------------------
(* cam_req_mgr_workq_destroy *)

WqDestroyBegin ==
    /\ wq = "open"
    /\ wq' = "draining"
    /\ UNCHANGED <<pool, lists, held, lost, queued, handler>>

\* destroy_workqueue has returned: external.
Drained == ~queued /\ wpc = "idle"

DestroyEnd ==
    /\ wq = "draining" /\ Drained
    /\ wq' = "freed"
    /\ UNCHANGED <<pool, lists, held, lost, queued, handler>>

WqClient(c) == GetTask(c) \/ Enqueue(c) \/ EnqueueRefused(c)
Handler == StartWork \/ TakeTask \/ ProcessTask \/ NextPriority
Destroy == WqDestroyBegin \/ DestroyEnd

WqNext == (\E c \in Clients : WqClient(c)) \/ Handler \/ Destroy

WqSpec == WqInit /\ [][WqNext]_wqVars

\* The kernel runs queued work and the handler does not block; a client goes on
\* from get_task to enqueue_task without waiting for anything.
WqFairness ==
    /\ WF_wqVars(Handler)
    /\ \A c \in Clients : WF_wqVars(Enqueue(c) \/ EnqueueRefused(c))

WqLiveSpec == WqSpec /\ WqFairness

-----------------------------------------------------------------------------
(* Properties *)

NoDuplicates ==
    /\ \A j, k \in DOMAIN empty : j # k => empty[j] # empty[k]
    /\ \A p \in Prios : \A j, k \in DOMAIN process[p] :
         j # k => process[p][j] # process[p][k]

ListsApart ==
    /\ \A p, q \in Prios : p # q => Elems(process[p]) \cap Elems(process[q]) = {}
    /\ \A p \in Prios : Elems(process[p]) \cap (Elems(empty) \cup lost \cup {wtask}) = {}
    /\ Elems(empty) \cap (lost \cup {wtask}) = {}
    /\ wtask \notin lost

HeldApart ==
    \A c \in Clients : held[c] # None =>
        /\ held[c] \notin Elems(empty) \cup lost \cup {wtask}
        /\ \A p \in Prios : held[c] \notin Elems(process[p])
        /\ \A d \in Clients : c # d => held[c] # held[d]

NoneMissing ==
    \A t \in Tasks :
        \/ t \in Elems(empty) \cup lost \cup {wtask}
        \/ \E p \in Prios : t \in Elems(process[p])
        \/ \E c \in Clients : held[c] = t

OnePlace == NoDuplicates /\ ListsApart /\ HeldApart /\ NoneMissing

Counters ==
    /\ free_cnt = Len(empty)
    /\ pending_cnt = Len(process[0]) + Len(process[1])

\* Every task is in exactly one place: on empty_head, on one process list, with
\* the one client that got it, with the handler, or dropped by a refused
\* enqueue; and free_cnt and pending_cnt, which change beside the lists, are the
\* lists' lengths.  get_task, enqueue_task and put_task keep it across any
\* interleaving of clients with the handler.
Accounting == OnePlace /\ Counters

\* No lost wakeup: a task on a process list is going to be seen, because the
\* work is pending or the handler has not passed that list yet.  It is why
\* enqueue_task calls queue_work even while cam_req_mgr_process_workq runs.
NoLostWakeup ==
    \A p \in Prios : process[p] # <<>> => queued \/ (wpc # "idle" /\ wi <= p)

\* cam_req_mgr_workq_destroy frees the pool only when no accepted task is left:
\* clearing job under the lock stops further enqueues, and destroy_workqueue
\* runs what was accepted before.
DrainedBeforeFree ==
    wq = "freed" => wpc = "idle" /\ \A p \in Prios : process[p] = <<>>

\* Every task accepted at the priority the drivers use is processed.
Delivered == \A t \in Tasks : t \in Elems(process[0]) ~> wtask = t

\* A task taken from the pool comes back to it, unless the queue is destroyed:
\* the pool does not run dry for good.
Recycled ==
    \A t \in Tasks :
        (\E c \in Clients : held[c] = t) ~> (t \in Elems(empty) \/ wq # "open")

\* No task of the pool is lost or in two places, none waits without a run of the
\* handler ahead, and cam_req_mgr_workq_destroy frees the pool only when the accepted
\* work is done.
WqSafe ==
    /\ WqTypeOK /\ Accounting /\ NoLostWakeup /\ DrainedBeforeFree

\* Accepted tasks are processed and the pool does not run dry.
WqServed == Delivered /\ Recycled
=============================================================================
