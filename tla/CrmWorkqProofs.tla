--------------------------- MODULE CrmWorkqProofs ---------------------------
(***************************************************************************)
(* Proofs about the work queue, for any number of clients, any pool size   *)
(* and any priority arguments.                                             *)
(***************************************************************************)
EXTENDS CrmWorkq, TLAPS

-----------------------------------------------------------------------------
(* Sequences *)

Injective(s) == \A j, k \in DOMAIN s : j # k => s[j] # s[k]

\* list_add_tail: appending adds one element and keeps a list free of
\* duplicates.
LEMMA AppendElems ==
    ASSUME NEW S, NEW s \in Seq(S), NEW e \in S
    PROVE  /\ Append(s, e) \in Seq(S)
           /\ Append(s, e) # <<>>
           /\ Len(Append(s, e)) = Len(s) + 1
           /\ Elems(Append(s, e)) = Elems(s) \cup {e}
           /\ Injective(s) /\ e \notin Elems(s) => Injective(Append(s, e))
<1>1. /\ Append(s, e) \in Seq(S) /\ Len(Append(s, e)) = Len(s) + 1
      /\ DOMAIN Append(s, e) = 1 .. Len(s) + 1 /\ DOMAIN s = 1 .. Len(s)
      /\ Len(s) \in Nat
      /\ \A k \in 1 .. Len(s) : Append(s, e)[k] = s[k]
      /\ Append(s, e)[Len(s) + 1] = e
  OBVIOUS
<1>2. Append(s, e) # <<>>
  BY <1>1
<1>3. Elems(Append(s, e)) = Elems(s) \cup {e}
  <2>1. ASSUME NEW x \in Elems(Append(s, e)) PROVE x \in Elems(s) \cup {e}
    <3>1. PICK k \in DOMAIN Append(s, e) : x = Append(s, e)[k]
      BY <2>1 DEF Elems
    <3>2. k = Len(s) + 1 \/ k \in 1 .. Len(s)
      BY <1>1
    <3>3. QED
      BY <3>1, <3>2, <1>1 DEF Elems
  <2>2. ASSUME NEW x \in Elems(s) PROVE x \in Elems(Append(s, e))
    <3>1. PICK k \in DOMAIN s : x = s[k]
      BY <2>2 DEF Elems
    <3>2. k \in DOMAIN Append(s, e) /\ x = Append(s, e)[k]
      BY <3>1, <1>1
    <3>3. QED
      BY <3>2 DEF Elems
  <2>3. e \in Elems(Append(s, e))
    <3>1. Len(s) + 1 \in DOMAIN Append(s, e)
      BY <1>1
    <3>2. QED
      BY <3>1, <1>1 DEF Elems
  <2>4. QED
    BY <2>1, <2>2, <2>3
<1>4. ASSUME Injective(s), e \notin Elems(s) PROVE Injective(Append(s, e))
  <2>1. \A k \in 1 .. Len(s) : s[k] # e
    BY <1>4, <1>1 DEF Elems
  <2>2. \A k \in DOMAIN Append(s, e) : k = Len(s) + 1 \/ k \in 1 .. Len(s)
    BY <1>1
  <2>3. QED
    BY <2>1, <2>2, <1>1, <1>4 DEF Injective
<1>5. QED
  BY <1>1, <1>2, <1>3, <1>4

\* list_first_entry and list_del_init: the head leaves the list, the rest stays.
LEMMA TailElems ==
    ASSUME NEW S, NEW s \in Seq(S), s # <<>>
    PROVE  /\ Head(s) \in S /\ Head(s) \in Elems(s)
           /\ Tail(s) \in Seq(S)
           /\ Len(Tail(s)) = Len(s) - 1
           /\ Elems(s) = Elems(Tail(s)) \cup {Head(s)}
           /\ Injective(s) => Head(s) \notin Elems(Tail(s)) /\ Injective(Tail(s))
<1>1. /\ Len(s) \in Nat /\ Len(s) >= 1 /\ DOMAIN s = 1 .. Len(s)
      /\ Tail(s) \in Seq(S) /\ Len(Tail(s)) = Len(s) - 1
      /\ DOMAIN Tail(s) = 1 .. Len(s) - 1
      /\ Head(s) = s[1]
      /\ \A k \in 1 .. Len(s) - 1 : Tail(s)[k] = s[k + 1]
  OBVIOUS
<1>2. 1 \in DOMAIN s /\ Head(s) \in S
  BY <1>1
<1>3. Head(s) \in Elems(s)
  BY <1>1, <1>2 DEF Elems
<1>4. Elems(s) = Elems(Tail(s)) \cup {Head(s)}
  <2>1. ASSUME NEW x \in Elems(s) PROVE x \in Elems(Tail(s)) \cup {Head(s)}
    <3>1. PICK k \in DOMAIN s : x = s[k]
      BY <2>1 DEF Elems
    <3>2. CASE k = 1
      BY <3>1, <3>2, <1>1
    <3>3. CASE k # 1
      <4>1. k - 1 \in 1 .. Len(s) - 1 /\ (k - 1) + 1 = k
        BY <3>3, <1>1
      <4>2. Tail(s)[k - 1] = x /\ k - 1 \in DOMAIN Tail(s)
        BY <4>1, <1>1, <3>1
      <4>3. QED
        BY <4>2 DEF Elems
    <3>4. QED
      BY <3>2, <3>3
  <2>2. ASSUME NEW x \in Elems(Tail(s)) PROVE x \in Elems(s)
    <3>1. PICK k \in DOMAIN Tail(s) : x = Tail(s)[k]
      BY <2>2 DEF Elems
    <3>2. k + 1 \in DOMAIN s /\ s[k + 1] = x
      BY <3>1, <1>1
    <3>3. QED
      BY <3>2 DEF Elems
  <2>3. QED
    BY <2>1, <2>2, <1>3
<1>5. ASSUME Injective(s) PROVE Head(s) \notin Elems(Tail(s)) /\ Injective(Tail(s))
  <2>1. \A k \in DOMAIN Tail(s) :
           k + 1 \in DOMAIN s /\ k + 1 # 1 /\ Tail(s)[k] = s[k + 1]
    BY <1>1
  <2>2. Head(s) \notin Elems(Tail(s))
    BY <2>1, <1>1, <1>2, <1>5 DEF Elems, Injective
  <2>3. ASSUME NEW j \in DOMAIN Tail(s), NEW k \in DOMAIN Tail(s), j # k
        PROVE  Tail(s)[j] # Tail(s)[k]
    <3>1. j + 1 # k + 1
      BY <2>3, <1>1
    <3>2. QED
      BY <3>1, <2>1, <1>5 DEF Injective
  <2>4. QED
    BY <2>2, <2>3 DEF Injective
<1>6. QED
  BY <1>1, <1>2, <1>3, <1>4, <1>5

-----------------------------------------------------------------------------
(* The type invariant, with what the handler's position says of its local *)

WqTypeInv == WqTypeOK /\ (wpc = "run" <=> wtask # None) /\ wi \in Prios

\* enum crm_task_priority has two priorities.
LEMMA PriosAre == Prios = {0, 1} /\ 0 \in Prios
  BY DEF Prios, CRM_TASK_PRIORITY_0, CRM_TASK_PRIORITY_MAX

\* enqueue_task gives a task a priority that has a list, whatever the caller asks.
LEMMA ClampIsPrio == \A prio \in PrioArgs : ClampPrio(prio) \in Prios
  BY PriosAre DEF ClampPrio, CRM_TASK_PRIORITY_0

\* Every step of a client, of the handler and of destroy keeps the types.
LEMMA TypeStep == WqTypeInv /\ [WqNext]_wqVars => WqTypeInv'
<1> SUFFICES ASSUME WqTypeInv, [WqNext]_wqVars PROVE WqTypeInv'
  OBVIOUS
<1> USE NoneIsNoTask
<1>0. /\ wi \in {0, 1} /\ Prios = {0, 1} /\ CRM_TASK_PRIORITY_MAX = 2
      /\ CRM_TASK_PRIORITY_0 = 0
  BY PriosAre DEF WqTypeInv, CRM_TASK_PRIORITY_0, CRM_TASK_PRIORITY_MAX
<1>1. ASSUME NEW c \in Clients, GetTask(c) PROVE WqTypeInv'
  <2>1. Head(empty) \in Tasks /\ Tail(empty) \in Seq(Tasks)
    BY <1>1, TailElems DEF GetTask, WqTypeInv, WqTypeOK
  <2>2. QED
    BY <1>1, <2>1 DEF GetTask, WqTypeInv, WqTypeOK, lists, handler
<1>2. ASSUME NEW c \in Clients, Enqueue(c) PROVE WqTypeInv'
  <2>1. held[c] \in Tasks
    BY <1>2 DEF Enqueue, WqTypeInv, WqTypeOK
  <2>2. process' \in [Prios -> Seq(Tasks)]
    <3>1. PICK prio \in PrioArgs :
             process' = [process EXCEPT ![ClampPrio(prio)] = Append(@, held[c])]
      BY Zenon, <1>2 DEF Enqueue
    <3>2. ClampPrio(prio) \in Prios
      BY ClampIsPrio
    <3>3. process[ClampPrio(prio)] \in Seq(Tasks) /\ process \in [Prios -> Seq(Tasks)]
      BY SMTT(60), <3>2 DEF WqTypeInv, WqTypeOK
    <3>4. Append(process[ClampPrio(prio)], held[c]) \in Seq(Tasks)
      BY <3>3, <2>1, AppendElems
    <3>5. QED
      BY Zenon, <3>1, <3>3, <3>4
  <2>3. QED
    BY <1>2, <2>2 DEF Enqueue, QueueWork, WqTypeInv, WqTypeOK, pool, handler
<1>3. ASSUME NEW c \in Clients, EnqueueRefused(c) PROVE WqTypeInv'
  BY <1>3 DEF EnqueueRefused, WqTypeInv, WqTypeOK, pool, lists, handler
<1>4. ASSUME StartWork PROVE WqTypeInv'
  <2>1. wi' = 0 /\ wi' \in Prios /\ wi' \in 0 .. CRM_TASK_PRIORITY_MAX
    BY <1>4, <1>0 DEF StartWork
  <2>2. wpc' = "scan" /\ wtask' = None /\ queued' \in BOOLEAN
    BY Zenon, <1>4 DEF StartWork, WqTypeInv
  <2>3. QED
    BY <1>4, <2>1, <2>2 DEF StartWork, WqTypeInv, WqTypeOK, pool, lists
<1>5. ASSUME TakeTask PROVE WqTypeInv'
  <2>1. process[wi] \in Seq(Tasks) /\ process[wi] # <<>>
    BY <1>5 DEF TakeTask, WqTypeInv, WqTypeOK
  <2>2. Head(process[wi]) \in Tasks /\ Tail(process[wi]) \in Seq(Tasks)
    BY <2>1, TailElems
  <2>3. process' \in [Prios -> Seq(Tasks)]
    BY <1>5, <2>2 DEF TakeTask, WqTypeInv, WqTypeOK
  <2>4. QED
    BY <1>5, <2>2, <2>3 DEF TakeTask, WqTypeInv, WqTypeOK, pool
<1>6. ASSUME ProcessTask PROVE WqTypeInv'
  <2>1. wtask \in Tasks /\ empty \in Seq(Tasks)
    BY <1>6 DEF ProcessTask, WqTypeInv, WqTypeOK
  <2>2. empty' \in Seq(Tasks)
    BY <1>6, <2>1, AppendElems DEF ProcessTask
  <2>3. QED
    BY <1>6, <2>2 DEF ProcessTask, WqTypeInv, WqTypeOK, lists
<1>7. ASSUME NextPriority PROVE WqTypeInv'
  BY <1>7, <1>0 DEF NextPriority, WqTypeInv, WqTypeOK, pool, lists
<1>8. ASSUME Destroy PROVE WqTypeInv'
  BY <1>8 DEF Destroy, WqDestroyBegin, DestroyEnd, WqTypeInv, WqTypeOK, pool, lists, handler
<1>9. CASE UNCHANGED wqVars
  BY <1>9 DEF wqVars, WqTypeInv, WqTypeOK, pool, lists, handler
<1>10. QED
  BY <1>1, <1>2, <1>3, <1>4, <1>5, <1>6, <1>7, <1>8, <1>9 DEF WqNext, WqClient, Handler

-----------------------------------------------------------------------------
(* Wakeups and destruction *)

\* A freed queue stays drained because nothing can queue work once job is NULL.
WakeInv == NoLostWakeup /\ (wq = "freed" => ~queued /\ wpc = "idle")

\* enqueue_task sets the pending bit with the task on the list; the handler
\* clears it only when it starts again at priority 0, and leaves a list only
\* when the list is empty.
LEMMA WakeStep == WqTypeInv /\ WakeInv /\ [WqNext]_wqVars => WakeInv'
<1> SUFFICES ASSUME WqTypeInv, WakeInv, [WqNext]_wqVars PROVE WakeInv'
  OBVIOUS
<1>0. /\ wi \in {0, 1} /\ Prios = {0, 1} /\ CRM_TASK_PRIORITY_MAX = 2
      /\ CRM_TASK_PRIORITY_0 = 0
  BY PriosAre DEF WqTypeInv, CRM_TASK_PRIORITY_0, CRM_TASK_PRIORITY_MAX
<1>1. ASSUME NEW c \in Clients, WqClient(c) PROVE WakeInv'
  <2>1. CASE GetTask(c)
    BY <2>1 DEF GetTask, WakeInv, NoLostWakeup, lists, handler
  <2>2. CASE Enqueue(c)
    BY <2>2 DEF Enqueue, QueueWork, WakeInv, NoLostWakeup
  <2>3. CASE EnqueueRefused(c)
    BY <2>3 DEF EnqueueRefused, WakeInv, NoLostWakeup, lists, handler
  <2>4. QED
    BY <1>1, <2>1, <2>2, <2>3 DEF WqClient
<1>2. CASE StartWork
  BY <1>2, <1>0 DEF StartWork, WakeInv, NoLostWakeup, lists
<1>3. CASE TakeTask
  <2>1. \A p \in Prios : p # wi => process'[p] = process[p]
    BY <1>3 DEF TakeTask, WqTypeInv, WqTypeOK
  <2>2. QED
    BY <1>3, <1>0, <2>1 DEF TakeTask, WakeInv, NoLostWakeup
<1>4. CASE ProcessTask
  BY <1>4 DEF ProcessTask, WakeInv, NoLostWakeup, lists
<1>5. CASE NextPriority
  BY <1>5, <1>0 DEF NextPriority, WakeInv, NoLostWakeup, lists
<1>6. CASE Destroy
  BY <1>6 DEF Destroy, WqDestroyBegin, DestroyEnd, Drained, WakeInv, NoLostWakeup,
              lists, handler
<1>7. CASE UNCHANGED wqVars
  BY <1>7 DEF wqVars, WakeInv, NoLostWakeup, lists, handler
<1>8. QED
  BY <1>1, <1>2, <1>3, <1>4, <1>5, <1>6, <1>7 DEF WqNext, Handler

-----------------------------------------------------------------------------
(* The places of a task *)

\* A task moves from one place to another and never appears in two.
LEMMA PlaceStep == WqTypeInv /\ OnePlace /\ [WqNext]_wqVars => OnePlace'
<1> SUFFICES ASSUME WqTypeInv, OnePlace, [WqNext]_wqVars PROVE OnePlace'
  OBVIOUS
<1> USE NoneIsNoTask
<1>t. /\ empty \in Seq(Tasks) /\ process \in [Prios -> Seq(Tasks)]
      /\ held \in [Clients -> Tasks \cup {None}]
      /\ wtask \in Tasks \cup {None} /\ wi \in Prios
      /\ wpc = "run" <=> wtask # None
  BY DEF WqTypeInv, WqTypeOK
<1>1. ASSUME NEW c \in Clients, GetTask(c) PROVE OnePlace'
  <2> DEFINE h == Head(empty)
  <2>1. /\ empty # <<>> /\ empty' = Tail(empty) /\ held' = [held EXCEPT ![c] = h]
        /\ held[c] = None
        /\ process' = process /\ lost' = lost /\ wtask' = wtask
    BY <1>1 DEF GetTask, lists, handler
  <2>2. Injective(empty)
    BY DEF OnePlace, NoDuplicates, Injective
  <2>3. /\ h \in Tasks /\ Elems(empty) = Elems(empty') \cup {h}
        /\ h \notin Elems(empty') /\ Injective(empty')
    BY <1>t, <2>1, <2>2, TailElems
  <2> HIDE DEF h
  <2>4. held'[c] = h /\ \A d \in Clients : d # c => held'[d] = held[d]
    BY <1>t, <2>1
  <2>5. \A j, k \in DOMAIN empty' : j # k => empty'[j] # empty'[k]
    BY <2>3 DEF Injective
  <2>6. h \notin lost \cup {wtask} /\ \A p \in Prios : h \notin Elems(process[p])
    BY <2>3 DEF OnePlace, ListsApart
  <2>7. \A d \in Clients : d # c => held[d] # h
    BY <2>3 DEF OnePlace, HeldApart
  <2>8. ASSUME NEW d \in Clients, held'[d] # None
        PROVE  /\ held'[d] \notin Elems(empty') \cup lost' \cup {wtask'}
               /\ \A p \in Prios : held'[d] \notin Elems(process'[p])
               /\ \A e \in Clients : d # e => held'[d] # held'[e]
    <3>1. CASE d = c
      BY <3>1, <2>1, <2>3, <2>4, <2>6, <2>7
    <3>2. CASE d # c
      BY <3>2, <2>8, <2>1, <2>3, <2>4, <2>7 DEF OnePlace, HeldApart
    <3>3. QED
      BY <3>1, <3>2
  <2>9. ASSUME NEW t \in Tasks
        PROVE  \/ t \in Elems(empty') \cup lost' \cup {wtask'}
               \/ \E p \in Prios : t \in Elems(process'[p])
               \/ \E d \in Clients : held'[d] = t
    BY <2>1, <2>3, <2>4 DEF OnePlace, NoneMissing
  <2>10. NoDuplicates'
    BY <2>1, <2>5 DEF OnePlace, NoDuplicates
  <2>11. ListsApart'
    BY Zenon, <2>1, <2>3 DEF OnePlace, ListsApart
  <2>12. QED
    BY <2>8, <2>9, <2>10, <2>11 DEF OnePlace, HeldApart, NoneMissing
<1>2. ASSUME NEW c \in Clients, Enqueue(c) PROVE OnePlace'
  <2> DEFINE h == held[c]
  <2>1. PICK q \in Prios :
           process' = [process EXCEPT ![q] = Append(@, h)]
    BY Zenon, <1>2, ClampIsPrio DEF Enqueue
  <2>2. /\ h \in Tasks /\ h # None /\ held' = [held EXCEPT ![c] = None]
        /\ empty' = empty /\ lost' = lost /\ wtask' = wtask
    BY <1>2, <1>t DEF Enqueue, pool, handler
  <2>3. /\ h \notin Elems(empty) \cup lost \cup {wtask}
        /\ \A p \in Prios : h \notin Elems(process[p])
        /\ \A d \in Clients : c # d => h # held[d]
    BY <2>2 DEF OnePlace, HeldApart
  <2>4. process[q] \in Seq(Tasks) /\ Injective(process[q])
    BY <1>t DEF OnePlace, NoDuplicates, Injective
  <2>5. process'[q] = Append(process[q], h) /\ \A p \in Prios : p # q => process'[p] = process[p]
    BY <1>t, <2>1
  <2>6. Elems(process'[q]) = Elems(process[q]) \cup {h} /\ Injective(process'[q])
    BY <2>2, <2>3, <2>4, <2>5, AppendElems
  <2>7. held'[c] = None /\ \A d \in Clients : d # c => held'[d] = held[d]
    BY <1>t, <2>2
  <2> HIDE DEF h
  <2>8. \A p \in Prios : \A j, k \in DOMAIN process'[p] : j # k => process'[p][j] # process'[p][k]
    <3>1. \A p \in Prios : Injective(process[p])
      BY DEF OnePlace, NoDuplicates, Injective
    <3>2. \A p \in Prios : Injective(process'[p])
      BY Zenon, <3>1, <2>5, <2>6
    <3>3. QED
      BY <3>2 DEF Injective
  <2>9. \A p, r \in Prios : p # r => Elems(process'[p]) \cap Elems(process'[r]) = {}
    <3>1. \A p, r \in Prios : p # r => Elems(process[p]) \cap Elems(process[r]) = {}
      BY DEF OnePlace, ListsApart
    <3>2. \A p \in Prios : Elems(process'[p]) = Elems(process[p]) \/ p = q
      BY <2>5
    <3>3. QED
      BY <3>1, <3>2, <2>3, <2>6
  <2>10. \A p \in Prios : Elems(process'[p]) \cap (Elems(empty) \cup lost \cup {wtask}) = {}
    <3>1. \A p \in Prios : Elems(process[p]) \cap (Elems(empty) \cup lost \cup {wtask}) = {}
      BY DEF OnePlace, ListsApart
    <3>2. \A p \in Prios : Elems(process'[p]) = Elems(process[p]) \/ p = q
      BY <2>5
    <3>3. QED
      BY <3>1, <3>2, <2>3, <2>6
  <2>11. ASSUME NEW d \in Clients, held'[d] # None
         PROVE  /\ held'[d] \notin Elems(empty) \cup lost \cup {wtask}
                /\ \A p \in Prios : held'[d] \notin Elems(process'[p])
                /\ \A e \in Clients : d # e => held'[d] # held'[e]
    <3>1. d # c /\ held'[d] = held[d] /\ held[d] # None /\ held[d] # h
      BY <2>11, <2>7, <2>3
    <3>2. \A p \in Prios : held'[d] \notin Elems(process'[p])
      BY Zenon, <3>1, <2>5, <2>6 DEF OnePlace, HeldApart
    <3>3. QED
      BY <3>1, <3>2, <2>7 DEF OnePlace, HeldApart
  <2>12. ASSUME NEW t \in Tasks
         PROVE  \/ t \in Elems(empty) \cup lost \cup {wtask}
                \/ \E p \in Prios : t \in Elems(process'[p])
                \/ \E d \in Clients : held'[d] = t
    <3>1. CASE t = h
      BY <3>1, <2>6
    <3>2. CASE t # h /\ \E d \in Clients : held[d] = t
      BY <3>2, <2>7 DEF h
    <3>3. CASE \E p \in Prios : t \in Elems(process[p])
      BY Zenon, <3>3, <2>5, <2>6
    <3>4. QED
      BY <3>1, <3>2, <3>3 DEF OnePlace, NoneMissing
  <2>13. NoDuplicates'
    BY <2>2, <2>8 DEF OnePlace, NoDuplicates
  <2>14. ListsApart'
    BY <2>2, <2>9, <2>10 DEF OnePlace, ListsApart
  <2>15. QED
    BY <2>2, <2>11, <2>12, <2>13, <2>14 DEF OnePlace, HeldApart, NoneMissing
<1>3. ASSUME NEW c \in Clients, EnqueueRefused(c) PROVE OnePlace'
  <2>1. /\ held[c] # None /\ held[c] \in Tasks
        /\ held' = [held EXCEPT ![c] = None] /\ lost' = lost \cup {held[c]}
        /\ empty' = empty /\ process' = process /\ wtask' = wtask
    BY <1>3, <1>t DEF EnqueueRefused, pool, lists, handler
  <2>2. held'[c] = None /\ \A d \in Clients : d # c => held'[d] = held[d]
    BY <1>t, <2>1
  <2>3. /\ held[c] \notin Elems(empty) \cup lost \cup {wtask}
        /\ \A p \in Prios : held[c] \notin Elems(process[p])
        /\ \A d \in Clients : c # d => held[c] # held[d]
    BY <2>1 DEF OnePlace, HeldApart
  <2>4. ASSUME NEW d \in Clients, held'[d] # None
        PROVE  /\ held'[d] \notin Elems(empty) \cup lost' \cup {wtask}
               /\ \A p \in Prios : held'[d] \notin Elems(process[p])
               /\ \A e \in Clients : d # e => held'[d] # held'[e]
    BY <2>4, <2>1, <2>2, <2>3 DEF OnePlace, HeldApart
  <2>5. ASSUME NEW t \in Tasks
        PROVE  \/ t \in Elems(empty) \cup lost' \cup {wtask}
               \/ \E p \in Prios : t \in Elems(process[p])
               \/ \E d \in Clients : held'[d] = t
    BY <2>1, <2>2 DEF OnePlace, NoneMissing
  <2>6. NoDuplicates' /\ ListsApart'
    BY <2>1, <2>3 DEF OnePlace, NoDuplicates, ListsApart
  <2>7. QED
    BY <2>1, <2>4, <2>5, <2>6 DEF OnePlace, HeldApart, NoneMissing
<1>4. ASSUME StartWork \/ NextPriority \/ Destroy \/ UNCHANGED wqVars PROVE OnePlace'
  <2>1. UNCHANGED <<empty, process, held, lost, wtask>>
    BY <1>4 DEF StartWork, NextPriority, Destroy, WqDestroyBegin, DestroyEnd, wqVars,
                pool, lists, handler
  <2>2. QED
    BY <2>1 DEF OnePlace, NoDuplicates, ListsApart, HeldApart, NoneMissing
<1>5. ASSUME TakeTask PROVE OnePlace'
  <2> DEFINE h == Head(process[wi])
  <2>1. /\ process[wi] # <<>> /\ process' = [process EXCEPT ![wi] = Tail(@)]
        /\ wtask' = h /\ wtask = None
        /\ empty' = empty /\ lost' = lost /\ held' = held
    BY <1>5, <1>t DEF TakeTask, pool
  <2>2. process[wi] \in Seq(Tasks) /\ Injective(process[wi])
    BY <1>t DEF OnePlace, NoDuplicates, Injective
  <2>3. process'[wi] = Tail(process[wi]) /\ \A p \in Prios : p # wi => process'[p] = process[p]
    BY <1>t, <2>1
  <2>4. /\ h \in Tasks /\ Elems(process[wi]) = Elems(process'[wi]) \cup {h}
        /\ h \notin Elems(process'[wi]) /\ Injective(process'[wi])
    BY <2>1, <2>2, <2>3, TailElems
  <2> HIDE DEF h
  <2>5. /\ h \notin Elems(empty) \cup lost
        /\ \A p \in Prios : h \notin Elems(process'[p])
        /\ \A c \in Clients : held[c] # h
    <3>1. h \in Elems(process[wi]) /\ wi \in Prios /\ h # None
      BY <1>t, <2>4
    <3>2. h \notin Elems(empty) \cup lost /\ \A p \in Prios : p # wi => h \notin Elems(process[p])
      BY <3>1 DEF OnePlace, ListsApart
    <3>3. \A c \in Clients : held[c] # h
      BY <3>1 DEF OnePlace, HeldApart
    <3>4. QED
      BY <3>2, <3>3, <2>3, <2>4
  <2>6. \A p \in Prios : \A j, k \in DOMAIN process'[p] : j # k => process'[p][j] # process'[p][k]
    <3>1. \A p \in Prios : Injective(process[p])
      BY DEF OnePlace, NoDuplicates, Injective
    <3>2. \A p \in Prios : Injective(process'[p])
      BY <3>1, <2>3, <2>4
    <3>3. QED
      BY <3>2 DEF Injective
  <2>7. \A p \in Prios : Elems(process'[p]) \subseteq Elems(process[p])
    BY <2>3, <2>4
  <2>8. \A p \in Prios : Elems(process'[p]) \cap (Elems(empty) \cup lost \cup {h}) = {}
    BY <2>5, <2>7 DEF OnePlace, ListsApart
  <2>9. \A p, r \in Prios : p # r => Elems(process'[p]) \cap Elems(process'[r]) = {}
    BY <2>7 DEF OnePlace, ListsApart
  <2>10. ASSUME NEW t \in Tasks
         PROVE  \/ t \in Elems(empty) \cup lost \cup {h}
                \/ \E p \in Prios : t \in Elems(process'[p])
                \/ \E d \in Clients : held[d] = t
    <3>1. CASE \E p \in Prios : t \in Elems(process[p])
      BY <3>1, <2>3, <2>4
    <3>2. QED
      BY <3>1, <2>1 DEF OnePlace, NoneMissing
  <2>11. \A c \in Clients : held[c] # None =>
           /\ held[c] \notin Elems(empty) \cup lost \cup {h}
           /\ \A p \in Prios : held[c] \notin Elems(process'[p])
           /\ \A d \in Clients : c # d => held[c] # held[d]
    BY <2>5, <2>7 DEF OnePlace, HeldApart
  <2>12. NoDuplicates'
    BY <2>1, <2>6 DEF OnePlace, NoDuplicates
  <2>13. ListsApart'
    BY ZenonT(60), <2>1, <2>5, <2>8, <2>9 DEF OnePlace, ListsApart
  <2>14. QED
    BY <2>1, <2>10, <2>11, <2>12, <2>13 DEF OnePlace, HeldApart, NoneMissing
<1>6. ASSUME ProcessTask PROVE OnePlace'
  <2>1. /\ wtask \in Tasks /\ empty' = Append(empty, wtask) /\ wtask' = None
        /\ process' = process /\ lost' = lost /\ held' = held
    BY <1>6, <1>t DEF ProcessTask, lists
  <2>2. Injective(empty) /\ wtask \notin Elems(empty)
    BY DEF OnePlace, NoDuplicates, ListsApart, Injective
  <2>3. Elems(empty') = Elems(empty) \cup {wtask} /\ Injective(empty')
    BY <1>t, <2>1, <2>2, AppendElems
  <2>4. /\ \A p \in Prios : Elems(process[p]) \subseteq Tasks
        /\ Elems(empty) \subseteq Tasks /\ lost \subseteq Tasks
    BY <1>t DEF Elems, WqTypeInv, WqTypeOK
  <2>5. \A j, k \in DOMAIN empty' : j # k => empty'[j] # empty'[k]
    BY <2>3 DEF Injective
  <2>6. NoDuplicates'
    BY <2>1, <2>5 DEF OnePlace, NoDuplicates
  <2>7. ListsApart'
    <3>1. \A p \in Prios : wtask \notin Elems(process[p])
      BY DEF OnePlace, ListsApart
    <3>2. wtask \notin lost /\ None \notin lost /\ None \notin Elems(empty')
      BY <2>1, <2>3, <2>4 DEF OnePlace, ListsApart
    <3>3. \A p \in Prios : Elems(process[p]) \cap (Elems(empty') \cup lost \cup {None}) = {}
      BY <3>1, <2>3, <2>4 DEF OnePlace, ListsApart
    <3>4. Elems(empty') \cap (lost \cup {None}) = {}
      BY <3>2, <2>3 DEF OnePlace, ListsApart
    <3>5. QED
      BY <3>2, <3>3, <3>4, <2>1 DEF OnePlace, ListsApart
  <2>8. HeldApart'
    BY <2>1, <2>3 DEF OnePlace, HeldApart
  <2>9. NoneMissing'
    BY <2>1, <2>3 DEF OnePlace, NoneMissing
  <2>10. QED
    BY <2>6, <2>7, <2>8, <2>9 DEF OnePlace
<1>7. QED
  BY <1>1, <1>2, <1>3, <1>4, <1>5, <1>6 DEF WqNext, WqClient, Handler

-----------------------------------------------------------------------------
(* The counters *)

\* Arithmetic used for pending_cnt.
LEMMA SumOfLengths ==
    ASSUME NEW a \in Nat, NEW b \in Nat
    PROVE  (a + 1) + b = (a + b) + 1 /\ a + (b + 1) = (a + b) + 1
  OBVIOUS

\* Each critical section changes a counter together with its list.
LEMMA CounterStep == WqTypeInv /\ Counters /\ [WqNext]_wqVars => Counters'
<1> SUFFICES ASSUME WqTypeInv, Counters, [WqNext]_wqVars PROVE Counters'
  OBVIOUS
<1> USE NoneIsNoTask
<1>t. /\ empty \in Seq(Tasks) /\ process \in [Prios -> Seq(Tasks)]
      /\ wi \in {0, 1} /\ Prios = {0, 1}
      /\ wpc = "run" => wtask \in Tasks
  BY PriosAre DEF WqTypeInv, WqTypeOK
<1>1. ASSUME NEW c \in Clients, GetTask(c) PROVE Counters'
  <2>1. Len(empty') = Len(empty) - 1
    BY <1>1, <1>t, TailElems DEF GetTask
  <2>2. QED
    BY <1>1, <2>1 DEF GetTask, Counters, lists
<1>2. ASSUME NEW c \in Clients, Enqueue(c) PROVE Counters'
  <2>1. PICK q \in Prios :
           process' = [process EXCEPT ![q] = Append(@, held[c])]
    BY Zenon, <1>2, ClampIsPrio DEF Enqueue
  <2>2. held[c] \in Tasks /\ process[q] \in Seq(Tasks)
    BY <1>2, <1>t DEF Enqueue, WqTypeInv, WqTypeOK
  <2>3. Len(process'[q]) = Len(process[q]) + 1
    BY <2>1, <2>2, <1>t, AppendElems
  <2>4. \A p \in Prios : p # q => process'[p] = process[p]
    BY <2>1, <1>t
  <2>5. Len(process[0]) \in Nat /\ Len(process[1]) \in Nat
    BY <1>t
  <2>6. Len(process'[0]) + Len(process'[1]) = (Len(process[0]) + Len(process[1])) + 1
    <3>1. CASE q = 0
      <4>1. process'[1] = process[1]
        BY <3>1, <1>t, <2>4
      <4>2. Len(process'[0]) = Len(process[0]) + 1
        BY <3>1, <2>3
      <4>3. Len(process'[1]) = Len(process[1])
        BY <4>1
      <4>4. QED
        BY Zenon, <4>2, <4>3, <2>5, SumOfLengths
    <3>2. CASE q = 1
      <4>1. process'[0] = process[0]
        BY <3>2, <1>t, <2>4
      <4>2. Len(process'[1]) = Len(process[1]) + 1
        BY <3>2, <2>3
      <4>3. Len(process'[0]) = Len(process[0])
        BY <4>1
      <4>4. QED
        BY Zenon, <4>2, <4>3, <2>5, SumOfLengths
    <3>3. QED
      BY Zenon, <3>1, <3>2, <1>t
  <2>7. pending_cnt' = pending_cnt + 1 /\ empty' = empty /\ free_cnt' = free_cnt
    BY <1>2 DEF Enqueue, pool
  <2>8. QED
    BY Zenon, <2>6, <2>7 DEF Counters
<1>3. ASSUME NEW c \in Clients, EnqueueRefused(c) PROVE Counters'
  BY <1>3 DEF EnqueueRefused, Counters, pool, lists
<1>4. ASSUME StartWork \/ NextPriority \/ Destroy \/ UNCHANGED wqVars PROVE Counters'
  BY Zenon, <1>4 DEF StartWork, NextPriority, Destroy, WqDestroyBegin, DestroyEnd, wqVars,
              pool, lists, Counters
<1>5. ASSUME TakeTask PROVE Counters'
  <2>1. process[wi] \in Seq(Tasks) /\ process[wi] # <<>>
    BY <1>5, <1>t DEF TakeTask
  <2>2. Len(process'[wi]) = Len(process[wi]) - 1
    BY <1>5, <1>t, <2>1, TailElems DEF TakeTask
  <2>3. \A p \in Prios : p # wi => process'[p] = process[p]
    BY <1>5, <1>t DEF TakeTask
  <2>4. Len(process[0]) \in Nat /\ Len(process[1]) \in Nat
    BY <1>t
  <2>5. Len(process'[0]) + Len(process'[1]) = (Len(process[0]) + Len(process[1])) - 1
    <3>1. CASE wi = 0
      <4>1. process'[1] = process[1]
        BY <3>1, <1>t, <2>3
      <4>2. QED
        BY <3>1, <4>1, <2>2, <2>4
    <3>2. CASE wi = 1
      <4>1. process'[0] = process[0]
        BY <3>2, <1>t, <2>3
      <4>2. QED
        BY <3>2, <4>1, <2>2, <2>4
    <3>3. QED
      BY Zenon, <3>1, <3>2, <1>t
  <2>6. pending_cnt' = pending_cnt - 1 /\ empty' = empty /\ free_cnt' = free_cnt
    BY <1>5 DEF TakeTask, pool
  <2>7. QED
    BY Zenon, <2>5, <2>6 DEF Counters
<1>6. ASSUME ProcessTask PROVE Counters'
  <2>1. Len(empty') = Len(empty) + 1
    BY <1>6, <1>t, AppendElems DEF ProcessTask
  <2>2. QED
    BY <1>6, <2>1 DEF ProcessTask, Counters, lists
<1>7. QED
  BY <1>1, <1>2, <1>3, <1>4, <1>5, <1>6 DEF WqNext, WqClient, Handler

-----------------------------------------------------------------------------
(* Theorems *)

IInv == WqTypeInv /\ WakeInv /\ OnePlace /\ Counters

\* cam_req_mgr_workq_create leaves every task in the pool and no work queued.
LEMMA InitInv == WqInit => IInv
<1> SUFFICES ASSUME WqInit PROVE IInv
  OBVIOUS
<1> USE NumTasksIsNat, NoneIsNoTask
<1>1. /\ empty \in Seq(Tasks) /\ Len(empty) = NumTasks /\ Elems(empty) = Tasks
      /\ \A k \in DOMAIN empty : empty[k] = k
  BY DEF WqInit, Tasks, Elems
<1>2. /\ process \in [Prios -> Seq(Tasks)] /\ Prios = {0, 1}
      /\ process[0] = <<>> /\ process[1] = <<>>
      /\ \A p \in Prios : process[p] = <<>> /\ Elems(process[p]) = {}
  BY PriosAre DEF WqInit, Elems
<1>3. WqTypeInv
  <2>1. free_cnt \in Int /\ pending_cnt \in Int
    BY DEF WqInit
  <2>2. wi \in Prios /\ wi \in 0 .. CRM_TASK_PRIORITY_MAX
    BY <1>2 DEF WqInit, CRM_TASK_PRIORITY_MAX
  <2>3. held \in [Clients -> Tasks \cup {None}] /\ lost \subseteq Tasks
    BY DEF WqInit
  <2>4. QED
    BY Zenon, <1>1, <1>2, <2>1, <2>2, <2>3 DEF WqInit, WqTypeInv, WqTypeOK
<1>4. WakeInv
  BY <1>2 DEF WqInit, WakeInv, NoLostWakeup
<1>5. NoDuplicates
  BY <1>1, <1>2 DEF NoDuplicates
<1>6. ListsApart /\ HeldApart /\ NoneMissing
  BY SMTT(60), <1>1, <1>2 DEF WqInit, ListsApart, HeldApart, NoneMissing
<1>7. Counters
  BY <1>1, <1>2 DEF WqInit, Counters
<1>8. QED
  BY <1>3, <1>4, <1>5, <1>6, <1>7 DEF IInv, OnePlace

\* The inductive invariant holds in every state of the work queue.
LEMMA Invariance == WqSpec => []IInv
<1>1. IInv /\ [WqNext]_wqVars => IInv'
  BY TypeStep, WakeStep, PlaceStep, CounterStep DEF IInv
<1>2. QED
  BY InitInv, <1>1, PTL DEF WqSpec

\* The work queue's variables keep their types.
THEOREM WorkqTypes == WqSpec => []WqTypeOK
<1>1. IInv => WqTypeOK
  BY DEF IInv, WqTypeInv
<1>2. QED
  BY Invariance, <1>1, PTL

\* No task is lost, duplicated or handed to two users, and the two counters are
\* the lengths of their lists.
THEOREM WorkqAccounting == WqSpec => []Accounting
<1>1. IInv => Accounting
  BY DEF IInv, Accounting
<1>2. QED
  BY Invariance, <1>1, PTL

\* An accepted task always has a run of the handler ahead that reaches its list.
THEOREM WorkqWakeup == WqSpec => []NoLostWakeup
<1>1. IInv => NoLostWakeup
  BY DEF IInv, WakeInv
<1>2. QED
  BY Invariance, <1>1, PTL

\* The pool is freed only after every accepted task has been processed.
THEOREM WorkqDrained == WqSpec => []DrainedBeforeFree
<1>1. IInv => DrainedBeforeFree
  BY DEF IInv, WakeInv, NoLostWakeup, DrainedBeforeFree
<1>2. QED
  BY Invariance, <1>1, PTL

(* The four together: cam_req_mgr_workq keeps its types, places every task once, *)
(* never leaves a listed task without a run of the handler ahead, and frees the  *)
(* pool only when no accepted task is left.                                      *)
THEOREM WorkqSafety == WqSpec => []WqSafe
<1>1. WqTypeOK /\ Accounting /\ NoLostWakeup /\ DrainedBeforeFree => WqSafe
  BY DEF WqSafe
<1>2. QED
  BY WorkqTypes, WorkqAccounting, WorkqWakeup, WorkqDrained, <1>1, PTL
=============================================================================
