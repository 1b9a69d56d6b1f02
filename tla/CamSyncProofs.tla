--------------------------- MODULE CamSyncProofs ---------------------------
(***************************************************************************)
(* Type correctness and allocation safety of the fence table, for every     *)
(* number of objects, threads, callbacks and payloads, and whatever the     *)
(* clients do (Contract may be FALSE).                                      *)
(***************************************************************************)
EXTENDS CamSync, TLAPS

(* A thread in the middle of a call that names an object names a real one.  *)
Working == {"create", "signal", "merge_lock", "merge", "merge_undo", "destroy",
            "reset", "wait", "woken"}
Busy == \A t \in Threads : thr[t].pc \in Working => thr[t].obj \in Objs

TypeInv == TypeOK /\ Busy

(* The unsigned counter stays in its range.                                 *)
LEMMA CounterType ==
    ASSUME NEW n \in 0 .. Mod - 1
    PROVE  Inc(n) \in 0 .. Mod - 1 /\ Dec(n) \in 0 .. Mod - 1
  BY ConstantsAssumption DEF Inc, Dec

(* The values the rows, nodes and threads start from have their types.      *)
LEMMA StartTypes ==
    /\ NoBag \in Bag
    /\ ZeroRow \in Row
    /\ cam_sync_init_row("INDV") \in Row
    /\ cam_sync_init_row("GROUP") \in Row
    /\ FreeCb \in CbNode /\ FreePl \in PlNode /\ Idle \in Thread
  <1>1. NoBag \in Bag
    BY DEF NoBag, Bag
  <1>2. ZeroRow \in Row
    BY <1>1, ConstantsAssumption DEF ZeroRow, Row, States
  <1>3. \A ty \in {"INDV", "GROUP"} : cam_sync_init_row(ty) \in Row
    BY Zenon, <1>2 DEF cam_sync_init_row, ZeroRow, Row, States
  <1>4. FreeCb \in CbNode /\ FreePl \in PlNode /\ Idle \in Thread
    BY <1>1 DEF FreeCb, CbNode, FreePl, PlNode, Idle, Thread, Pcs, States
  <1> QED BY <1>1, <1>2, <1>3, <1>4

(* List operations keep a list a list.                                      *)
LEMMA BagTypes ==
    ASSUME NEW b \in Bag, NEW o \in Objs
    PROVE  Add(b, o) \in Bag /\ CleanOne(b, o) \in Bag
  BY DEF Bag, Add, CleanOne

(* A set of members as a list.                                              *)
LEMMA BagOfType == ASSUME NEW S PROVE BagOf(S) \in Bag
  BY DEF BagOf, Bag

(* The updates the calls make to a row leave a row.                         *)
LEMMA RowTypes ==
    ASSUME NEW r \in Row, NEW o \in Objs, NEW st \in States
    PROVE  /\ [r EXCEPT !.ref_cnt = @ + 1] \in Row
           /\ [r EXCEPT !.ref_cnt = @ - 1] \in Row
           /\ [r EXCEPT !.state = st] \in Row
           /\ [r EXCEPT !.state = st, !.signaled = TRUE] \in Row
           /\ [r EXCEPT !.ref_cnt = 0, !.state = st, !.signaled = TRUE,
                        !.parents = NoBag] \in Row
           /\ [r EXCEPT !.state = st, !.parents = NoBag, !.children = NoBag] \in Row
           /\ [r EXCEPT !.remaining = Inc(@), !.state = st] \in Row
           /\ \A done \in BOOLEAN :
                [r EXCEPT !.remaining = Dec(@), !.state = st,
                          !.signaled = @ \/ done] \in Row
           /\ [r EXCEPT !.parents = CleanOne(@, o)] \in Row
           /\ [r EXCEPT !.children = CleanOne(@, o)] \in Row
           /\ [r EXCEPT !.children = NoBag] \in Row
           /\ AddChild(r, o) \in Row /\ AddParent(r, o) \in Row
  <1>1. /\ r.remaining \in 0 .. Mod - 1 /\ r.ref_cnt \in Int
        /\ r.parents \in Bag /\ r.children \in Bag /\ NoBag \in Bag
        /\ r.signaled \in BOOLEAN
    BY StartTypes DEF Row
  <1>2. /\ Inc(r.remaining) \in 0 .. Mod - 1 /\ Dec(r.remaining) \in 0 .. Mod - 1
        /\ r.ref_cnt + 1 \in Int /\ r.ref_cnt - 1 \in Int /\ 0 \in Int
    BY <1>1, CounterType
  <1>3. /\ CleanOne(r.parents, o) \in Bag /\ CleanOne(r.children, o) \in Bag
        /\ Add(r.parents, o) \in Bag /\ Add(r.children, o) \in Bag
    BY <1>1, BagTypes
  <1>4. /\ TRUE \in BOOLEAN
        /\ \A done \in BOOLEAN : (r.signaled \/ done) \in BOOLEAN
    OBVIOUS
  <1>5. /\ [r EXCEPT !.ref_cnt = @ + 1] \in Row
        /\ [r EXCEPT !.ref_cnt = @ - 1] \in Row
    BY <1>2, Zenon DEF Row
  <1>6. /\ [r EXCEPT !.state = st] \in Row
        /\ [r EXCEPT !.state = st, !.signaled = TRUE] \in Row
        /\ [r EXCEPT !.ref_cnt = 0, !.state = st, !.signaled = TRUE,
                     !.parents = NoBag] \in Row
    BY <1>1, <1>2, <1>4, Zenon DEF Row
  <1>7. /\ [r EXCEPT !.state = st, !.parents = NoBag, !.children = NoBag] \in Row
        /\ [r EXCEPT !.children = NoBag] \in Row
    BY <1>1, Zenon DEF Row
  <1>8. /\ [r EXCEPT !.remaining = Inc(@), !.state = st] \in Row
        /\ \A done \in BOOLEAN :
             [r EXCEPT !.remaining = Dec(@), !.state = st,
                       !.signaled = @ \/ done] \in Row
    BY <1>2, <1>4, Zenon DEF Row
  <1>9. /\ [r EXCEPT !.parents = CleanOne(@, o)] \in Row
        /\ [r EXCEPT !.children = CleanOne(@, o)] \in Row
        /\ AddChild(r, o) \in Row /\ AddParent(r, o) \in Row
    BY <1>2, <1>3, Zenon DEF Row, AddChild, AddParent
  <1> QED
    BY Zenon, <1>5, <1>6, <1>7, <1>8, <1>9

(* The moves of a thread leave a thread that names a real object if it      *)
(* needs one.                                                               *)
WellFormed(th) == th \in Thread /\ (th.pc \in Working => th.obj \in Objs)

(* Returning from a call leaves a thread record.                            *)
LEMMA ReturnType ==
    ASSUME TypeOK, NEW t \in Threads
    PROVE  Return(t) \in Thread /\ Return(t).pc \notin Working
  <1>1. thr[t] \in Thread
    BY DEF TypeOK
  <1>2. thr[t].ret \in {"idle", "close_signal", "close_destroy"}
    BY <1>1 DEF Thread
  <1>3. /\ NoBag \in Bag /\ NoObj \in Objs \cup {NoObj} /\ "INVALID" \in States
        /\ thr[t].ret \in Pcs /\ thr[t].ret \notin Working
    BY <1>2, StartTypes DEF Pcs, States, Working
  <1> QED
    BY Zenon, <1>1, <1>3 DEF Return, Thread

(* The dispatch of a row keeps the nodes nodes.                             *)
LEMMA DispatchTypes ==
    ASSUME TypeOK, NEW o \in Objs, NEW st \in States
    PROVE  QueueCbs(o, st) \in [Cbs -> CbNode] /\ SendPls(o, st) \in [Pls -> PlNode]
  BY DEF TypeOK, QueueCbs, SendPls, CbNode, PlNode

(* Emptying a list keeps the nodes nodes.                                   *)
LEMMA DropTypes ==
    ASSUME TypeOK, NEW o, NEW w \in {"free", "lost"}
    PROVE  Drop(cb, o, w) \in [Cbs -> CbNode] /\ Drop(pl, o, w) \in [Pls -> PlNode]
  BY DEF TypeOK, Drop, CbNode, PlNode, States

(* A payload registration makes a node.                                     *)
LEMMA PayloadType ==
    ASSUME TypeOK, NEW o \in Objs
    PROVE  PayloadNode(o) \in PlNode
  BY DEF TypeOK, PayloadNode, PlNode, Row, States

(* The parts of a typed state.                                              *)
LEMMA PartTypes ==
    ASSUME TypeOK
    PROVE  /\ \A t \in Threads : thr[t] \in Thread
           /\ \A o \in Objs : table[o] \in Row
  BY DEF TypeOK

(* A well-formed move of one thread keeps the threads typed.                *)
LEMMA MoveType ==
    ASSUME TypeInv, NEW t \in Threads, NEW th, WellFormed(th), Move(t, th)
    PROVE  thr' \in [Threads -> Thread] /\ Busy'
  BY DEF TypeInv, TypeOK, Busy, Move, WellFormed

(* Replacing one row keeps the table typed.                                 *)
LEMMA SetRowType ==
    ASSUME TypeOK, NEW o, NEW row \in Row, SetRow(o, row)
    PROVE  table' \in [Objs -> Row]
  BY Zenon DEF TypeOK, SetRow

(* Returning is a well-formed move.                                         *)
LEMMA ReturnWellFormed ==
    ASSUME TypeOK, NEW t \in Threads
    PROVE  WellFormed(Return(t))
  BY ReturnType DEF WellFormed

(* The first step of a destroy.                                             *)
LEMMA DestroyType ==
    ASSUME TypeInv, NEW t \in Threads, NEW o \in Objs,
           NEW ret \in {"idle", "close_signal", "close_destroy"},
           DestroyBegin(t, o, ret)
    PROVE  TypeInv'
  <1> DEFINE th == [thr[t] EXCEPT !.pc = "destroy", !.obj = o, !.ret = ret,
                                  !.todo = table[o].children,
                                  !.rest = table[o].parents,
                                  !.scan = @ \ {o}]
  <1>1. thr[t] \in Thread /\ table[o] \in Row
    BY PartTypes DEF TypeInv
  <1>2. WellFormed(th)
    BY ZenonT(60), <1>1 DEF Thread, Row, Pcs, WellFormed
  <1>3. thr' \in [Threads -> Thread] /\ Busy'
    <2> HIDE DEF th
    <2>1. Move(t, th)
      BY DEF DestroyBegin, th
    <2> QED BY <1>2, <2>1, MoveType
  <1>4. table' \in [Objs -> Row]
    BY ZenonT(60), <1>1, RowTypes, SetRowType DEF DestroyBegin, States, TypeInv
  <1> QED
    BY <1>3, <1>4 DEF DestroyBegin, TypeInv, TypeOK

(* Every step of every call keeps the types.                                *)
LEMMA TypeStep == TypeInv /\ [Next]_vars => TypeInv'
  <1> SUFFICES ASSUME TypeInv, [Next]_vars
               PROVE  TypeInv'
    OBVIOUS
  <1>0. /\ TypeOK /\ Busy
        /\ \A t \in Threads : thr[t] \in Thread
        /\ \A o \in Objs : table[o] \in Row
    BY PartTypes DEF TypeInv
  <1>1. ASSUME cam_sync_open
       PROVE  TypeInv'
    BY <1>0, <1>1 DEF cam_sync_open, TypeInv, TypeOK, Busy
  <1>2. ASSUME NEW n \in Cbs, NEW o \in Objs, cam_sync_register_callback(n, o)
       PROVE  TypeInv'
    <2>1. cb' \in [Cbs -> CbNode]
      BY <1>0, <1>2 DEF cam_sync_register_callback, TypeOK, CbNode, FreeCb, States, Row
    <2> QED
      BY <1>0, <1>2, <2>1 DEF cam_sync_register_callback, TypeInv, TypeOK, Busy
  <1>3. ASSUME NEW n \in Cbs, NEW o \in Objs, cam_sync_deregister_callback(n, o)
       PROVE  TypeInv'
    <2>1. cb' \in [Cbs -> CbNode]
      BY <1>0, <1>3, StartTypes DEF cam_sync_deregister_callback, TypeOK
    <2> QED
      BY <1>0, <1>3, <2>1 DEF cam_sync_deregister_callback, TypeInv, TypeOK, Busy
  <1>4. ASSUME NEW p \in Pls, NEW o \in Objs, cam_sync_handle_register_user_payload(p, o)
       PROVE  TypeInv'
    <2>1. pl' \in [Pls -> PlNode]
      BY <1>0, <1>4, PayloadType DEF cam_sync_handle_register_user_payload, TypeOK
    <2> QED
      BY <1>0, <1>4, <2>1 DEF cam_sync_handle_register_user_payload, TypeInv, TypeOK, Busy
  <1>5. ASSUME NEW p \in Pls, NEW o \in Objs, cam_sync_handle_deregister_user_payload(p, o)
       PROVE  TypeInv'
    <2>1. pl' \in [Pls -> PlNode]
      BY <1>0, <1>5, StartTypes DEF cam_sync_handle_deregister_user_payload, TypeOK
    <2> QED
      BY <1>0, <1>5, <2>1 DEF cam_sync_handle_deregister_user_payload, TypeInv, TypeOK, Busy
  <1>6. ASSUME NEW t \in Threads, cam_sync_create_alloc(t)
       PROVE  TypeInv'
    <2>1. PICK idx \in Objs :
            Move(t, [thr[t] EXCEPT !.pc = "create", !.obj = idx])
      BY Zenon, <1>6 DEF cam_sync_create_alloc
    <2>2. WellFormed([thr[t] EXCEPT !.pc = "create", !.obj = idx])
      BY Zenon, <1>0 DEF Thread, Pcs, WellFormed
    <2>3. thr' \in [Threads -> Thread] /\ Busy'
      BY <2>1, <2>2, MoveType
    <2> QED
      BY <1>0, <1>6, <2>3 DEF cam_sync_create_alloc, TypeInv, TypeOK
  <1>7. ASSUME NEW t \in Threads, cam_sync_close(t)
       PROVE  TypeInv'
    <2>1. /\ WellFormed([thr[t] EXCEPT !.pc = "close_signal", !.scan = Objs])
          /\ WellFormed(thr[t])
      BY Zenon, <1>0, <1>7, thr[t] \in Thread DEF cam_sync_close, Thread, Pcs, Working, WellFormed, Busy
    <2>2. thr' \in [Threads -> Thread] /\ Busy'
      BY <1>0, <1>7, <2>1, MoveType DEF cam_sync_close
    <2> QED
      BY <1>0, <1>7, <2>2 DEF cam_sync_close, TypeInv, TypeOK
  <1>8. ASSUME NEW t \in Threads, NEW members \in SUBSET Objs, cam_sync_merge(t, members)
       PROVE  TypeInv'
    <2>1. PICK idx \in Objs :
            Move(t, [thr[t] EXCEPT !.pc = "merge_lock", !.obj = idx,
                            !.todo = BagOf(members)])
      BY Zenon, <1>8 DEF cam_sync_merge
    <2>2. WellFormed([thr[t] EXCEPT !.pc = "merge_lock", !.obj = idx,
                            !.todo = BagOf(members)])
      BY ZenonT(60), <1>0, BagOfType DEF Thread, Pcs, WellFormed
    <2>3. thr' \in [Threads -> Thread] /\ Busy'
      BY <2>1, <2>2, MoveType
    <2> QED
      BY <1>0, <1>8, <2>3 DEF cam_sync_merge, TypeInv, TypeOK
  <1>9. ASSUME NEW t \in Threads, NEW o \in Objs, NEW status \in Signaled, cam_sync_get_obj_ref(t, o, status)
       PROVE  TypeInv'
    <2>1. WellFormed([thr[t] EXCEPT !.pc = "signal", !.obj = o, !.st = status])
      BY ZenonT(60), <1>0, <1>9 DEF cam_sync_get_obj_ref, Thread, Pcs, Working, WellFormed, Busy, Signaled, States
    <2>2. thr' \in [Threads -> Thread] /\ Busy'
      BY <1>9, <2>1, MoveType DEF cam_sync_get_obj_ref
    <2>3. [table[o] EXCEPT !.ref_cnt = @ + 1] \in Row
      BY Zenon, <1>0, RowTypes DEF States
    <2>4. table' \in [Objs -> Row]
      BY <1>0, <1>9, <2>3, SetRowType DEF cam_sync_get_obj_ref
    <2> QED
      BY <1>0, <1>9, <2>2, <2>4 DEF cam_sync_get_obj_ref, TypeInv, TypeOK
  <1>10. ASSUME NEW t \in Threads, NEW o \in Objs, cam_sync_destroy(t, o)
       PROVE  TypeInv'
    BY <1>10, DestroyType DEF cam_sync_destroy
  <1>11. ASSUME NEW t \in Threads, NEW o \in Objs, cam_sync_reset(t, o)
       PROVE  TypeInv'
    <2>1. WellFormed([thr[t] EXCEPT !.pc = "reset", !.obj = o])
      BY ZenonT(60), <1>0, <1>11 DEF cam_sync_reset, Thread, Pcs, Working, WellFormed, Busy
    <2>2. thr' \in [Threads -> Thread] /\ Busy'
      BY <1>11, <2>1, MoveType DEF cam_sync_reset
    <2>3. cam_sync_init_row(table[o].type) \in Row
      BY <1>0, StartTypes DEF Row, States, Thread
    <2>4. table' \in [Objs -> Row]
      BY <1>0, <1>11, <2>3, SetRowType DEF cam_sync_reset
    <2>5. cb' \in [Cbs -> CbNode] /\ pl' \in [Pls -> PlNode]
      BY <1>0, <1>11, DropTypes DEF cam_sync_reset, TypeOK
    <2> QED
      BY Zenon, <1>0, <1>11, <2>2, <2>4, <2>5 DEF cam_sync_reset, TypeInv, TypeOK
  <1>12. ASSUME NEW t \in Threads, NEW o \in Objs, cam_sync_wait(t, o)
       PROVE  TypeInv'
    <2>1. WellFormed([thr[t] EXCEPT !.pc = "wait", !.obj = o])
      BY Zenon, <1>0, <1>12, thr[t] \in Thread DEF cam_sync_wait, Thread, Pcs, Working, WellFormed, Busy
    <2>2. thr' \in [Threads -> Thread] /\ Busy'
      BY <1>12, <2>1, MoveType DEF cam_sync_wait
    <2> QED
      BY <1>0, <1>12, <2>2 DEF cam_sync_wait, TypeInv, TypeOK
  <1>13. ASSUME NEW t \in Threads, cam_sync_create_init(t)
       PROVE  TypeInv'
    <2>1. thr' \in [Threads -> Thread] /\ Busy'
      BY <1>0, <1>13, ReturnWellFormed, MoveType DEF cam_sync_create_init
    <2>2. thr[t].obj \in Objs
      BY <1>0, <1>13 DEF cam_sync_create_init, Busy, Working
    <2>3. cam_sync_init_row("INDV") \in Row
      BY <1>0, <2>2, StartTypes
    <2>4. table' \in [Objs -> Row]
      BY <1>0, <1>13, <2>3, SetRowType DEF cam_sync_create_init
    <2> QED
      BY Zenon, <1>0, <1>13, <2>1, <2>2, <2>4 DEF cam_sync_create_init, TypeInv, TypeOK
  <1>14. ASSUME NEW t \in Threads, SignalRefused(t)
       PROVE  TypeInv'
    <2>1. thr' \in [Threads -> Thread] /\ Busy'
      BY <1>0, <1>14, ReturnWellFormed, MoveType DEF SignalRefused
    <2> QED
      BY <1>0, <1>14, <2>1 DEF SignalRefused, TypeInv, TypeOK
  <1>15. ASSUME NEW t \in Threads, SignalCounted(t)
       PROVE  TypeInv'
    <2>1. thr' \in [Threads -> Thread] /\ Busy'
      BY <1>0, <1>15, ReturnWellFormed, MoveType DEF SignalCounted
    <2>2. thr[t].obj \in Objs
      BY <1>0, <1>15 DEF SignalCounted, Busy, Working
    <2>3. [table[thr[t].obj] EXCEPT !.ref_cnt = @ - 1] \in Row
      BY Zenon, <1>0, <2>2, RowTypes DEF States
    <2>4. table' \in [Objs -> Row]
      BY SMTT(60), <1>0, <1>15, <2>3, SetRowType DEF SignalCounted
    <2> QED
      BY <1>0, <1>15, <2>1, <2>2, <2>4 DEF SignalCounted, TypeInv, TypeOK
  <1>16. ASSUME NEW t \in Threads, SignalLast(t)
       PROVE  TypeInv'
    <2>1. thr[t].obj \in Objs
      BY <1>0, <1>16 DEF SignalLast, Busy, Working
    <2>2. WellFormed([thr[t] EXCEPT !.pc = "parents", !.obj = NoObj,
                                 !.todo = table[thr[t].obj].parents])
      <3>1. table[thr[t].obj].parents \in Bag
        BY <1>0, <2>1 DEF Row
      <3> QED
        BY ZenonT(60), <1>0, <3>1 DEF Thread, Pcs, Working, WellFormed
    <2>3. thr' \in [Threads -> Thread] /\ Busy'
      BY <1>0, <1>16, <2>2, ReturnWellFormed, MoveType DEF SignalLast
    <2>4. [table[thr[t].obj] EXCEPT !.ref_cnt = 0, !.state = thr[t].st,
                                  !.signaled = TRUE, !.parents = NoBag] \in Row
      <3>1. thr[t].st \in States
        BY <1>0 DEF Thread
      <3> QED
        BY Zenon, <1>0, <2>1, <3>1, RowTypes
    <2>5. table' \in [Objs -> Row]
      BY <1>0, <1>16, <2>4, SetRowType DEF SignalLast
    <2>6. cb' \in [Cbs -> CbNode] /\ pl' \in [Pls -> PlNode]
      BY <1>0, <1>16, <2>1, DispatchTypes DEF SignalLast, TypeOK, Thread
    <2> QED
      BY SMTT(60), <1>0, <1>16, <2>3, <2>1, <2>5, <2>6 DEF SignalLast, TypeInv, TypeOK
  <1>17. ASSUME NEW t \in Threads, NEW o \in Objs, SignalParent(t, o)
       PROVE  TypeInv'
    <2>1. WellFormed([thr[t] EXCEPT !.todo = CleanOne(thr[t].todo, o)])
      BY <1>0, <1>17, BagTypes DEF SignalParent, Thread, Pcs, Working, WellFormed, Busy
    <2>2. thr' \in [Threads -> Thread] /\ Busy'
      BY <1>0, <1>17, <2>1, ReturnWellFormed, MoveType DEF SignalParent
    <2> DEFINE st == cam_sync_util_update_parent_state(table[o].state, thr[t].st)
    <2> DEFINE done == Completes(st, Dec(table[o].remaining))
    <2>3. st \in States /\ done \in BOOLEAN
      BY <1>0 DEF Row, Thread, cam_sync_util_update_parent_state, Completes
    <2>4. SetRow(o, [table[o] EXCEPT !.remaining = Dec(@), !.state = st,
                                   !.signaled = @ \/ done])
      BY <1>17 DEF SignalParent
    <2>5. /\ cb' = IF done THEN QueueCbs(o, st) ELSE cb
          /\ pl' = IF done THEN SendPls(o, st) ELSE pl
      BY <1>17 DEF SignalParent
    <2> HIDE DEF st, done
    <2>6. table' \in [Objs -> Row]
      BY Zenon, <1>0, <2>3, <2>4, RowTypes, SetRowType
    <2>7. cb' \in [Cbs -> CbNode] /\ pl' \in [Pls -> PlNode]
      BY <1>0, <2>3, <2>5, DispatchTypes DEF TypeOK
    <2> QED
      BY <1>0, <1>17, <2>2, <2>6, <2>7 DEF SignalParent, TypeInv, TypeOK
  <1>18. ASSUME NEW t \in Threads, MergeInit(t)
       PROVE  TypeInv'
    <2>1. WellFormed([thr[t] EXCEPT !.pc = "merge"])
      BY <1>0, <1>18 DEF MergeInit, Thread, Pcs, Working, WellFormed, Busy
    <2>2. thr' \in [Threads -> Thread] /\ Busy'
      BY <1>18, <2>1, MoveType DEF MergeInit
    <2>3. thr[t].obj \in Objs
      BY <1>0, <1>18 DEF MergeInit, Busy, Working
    <2>4. cam_sync_init_row("GROUP") \in Row
      BY <1>0, <2>3, StartTypes
    <2>5. table' \in [Objs -> Row]
      BY <1>0, <1>18, <2>4, SetRowType DEF MergeInit
    <2> QED
      BY Zenon, <1>0, <1>18, <2>2, <2>3, <2>5 DEF MergeInit, TypeInv, TypeOK
  <1>19. ASSUME NEW t \in Threads, NEW o \in Objs, MergeSignaledChild(t, o)
       PROVE  TypeInv'
    <2>1. WellFormed([thr[t] EXCEPT !.todo = CleanOne(@, o), !.rest = Add(@, o)])
      BY ZenonT(60), <1>0, <1>19, BagTypes DEF MergeSignaledChild, Thread, Pcs, Working, WellFormed, Busy
    <2>2. thr' \in [Threads -> Thread] /\ Busy'
      BY <1>19, <2>1, MoveType DEF MergeSignaledChild
    <2>3. thr[t].obj \in Objs
      BY <1>0, <1>19 DEF MergeSignaledChild, Busy, Working
    <2>4. [table[thr[t].obj] EXCEPT !.state =
                    IF table[o].state = "ERROR" THEN "ERROR" ELSE @] \in Row
      <3>1. (IF table[o].state = "ERROR" THEN "ERROR"
             ELSE table[thr[t].obj].state) \in States
        BY <1>0, <2>3 DEF Row, States
      <3> QED
        BY Zenon, <1>0, <2>3, <3>1, RowTypes
    <2>5. table' \in [Objs -> Row]
      BY <1>0, <1>19, <2>4, SetRowType DEF MergeSignaledChild
    <2> QED
      BY Zenon, <1>0, <1>19, <2>2, <2>3, <2>5 DEF MergeSignaledChild, TypeInv, TypeOK
  <1>20. ASSUME NEW t \in Threads, NEW o \in Objs, MergeActiveChild(t, o)
       PROVE  TypeInv'
    <2>1. WellFormed([thr[t] EXCEPT !.todo = CleanOne(@, o), !.rest = Add(@, o)])
      BY ZenonT(60), <1>0, <1>20, BagTypes DEF MergeActiveChild, Thread, Pcs, Working, WellFormed, Busy
    <2>2. thr' \in [Threads -> Thread] /\ Busy'
      BY <1>20, <2>1, MoveType DEF MergeActiveChild
    <2>3. thr[t].obj \in Objs
      BY <1>0, <1>20 DEF MergeActiveChild, Busy, Working
    <2>4. thr[t].obj # o
      BY <1>0, <1>20 DEF MergeActiveChild, Locked
    <2>5. AddChild(table[thr[t].obj], o) \in Row /\ AddParent(table[o], thr[t].obj) \in Row
      BY Zenon, <1>0, <2>3, RowTypes DEF States
    <2>6. table' \in [Objs -> Row]
      BY <1>0, <1>20, <2>3, <2>4, <2>5 DEF MergeActiveChild, TypeOK
    <2> QED
      BY <1>0, <1>20, <2>2, <2>3, <2>6 DEF MergeActiveChild, TypeInv, TypeOK
  <1>21. ASSUME NEW t \in Threads, NEW o \in Objs, MergeBadChild(t, o)
       PROVE  TypeInv'
    <2>1. WellFormed([thr[t] EXCEPT !.pc = "merge_undo", !.todo = thr[t].rest,
                            !.rest = NoBag])
      BY Zenon, <1>0, <1>21, StartTypes DEF MergeBadChild, Thread, Pcs, Working, WellFormed, Busy
    <2>2. thr' \in [Threads -> Thread] /\ Busy'
      BY <1>21, <2>1, MoveType DEF MergeBadChild
    <2>3. thr[t].obj \in Objs
      BY <1>0, <1>21 DEF MergeBadChild, Busy, Working
    <2>4. [table[thr[t].obj] EXCEPT !.state = "INVALID"] \in Row
      BY Zenon, <1>0, <2>3, RowTypes DEF States
    <2>5. table' \in [Objs -> Row]
      BY <1>0, <1>21, <2>4, SetRowType DEF MergeBadChild
    <2> QED
      BY <1>0, <1>21, <2>2, <2>3, <2>5 DEF MergeBadChild, TypeInv, TypeOK
  <1>22. ASSUME NEW t \in Threads, NEW o \in Objs, MergeNoMem(t, o)
       PROVE  TypeInv'
    <2>1. WellFormed([thr[t] EXCEPT !.pc = "merge_undo", !.todo = thr[t].rest,
                            !.rest = NoBag])
      BY Zenon, <1>0, <1>22, StartTypes DEF MergeNoMem, Thread, Pcs, Working, WellFormed, Busy
    <2>2. thr' \in [Threads -> Thread] /\ Busy'
      BY <1>22, <2>1, MoveType DEF MergeNoMem
    <2>3. thr[t].obj \in Objs
      BY <1>0, <1>22 DEF MergeNoMem, Busy, Working
    <2>4. [table[thr[t].obj] EXCEPT !.remaining = Inc(@), !.state = "INVALID"] \in Row
      BY Zenon, <1>0, <2>3, RowTypes DEF States
    <2>5. table' \in [Objs -> Row]
      BY <1>0, <1>22, <2>4, SetRowType DEF MergeNoMem
    <2> QED
      BY <1>0, <1>22, <2>2, <2>3, <2>5 DEF MergeNoMem, TypeInv, TypeOK
  <1>23. ASSUME NEW t \in Threads, NEW o \in Objs, MergeUndoChild(t, o)
       PROVE  TypeInv'
    <2>1. WellFormed([thr[t] EXCEPT !.todo = CleanOne(@, o)])
      BY <1>0, <1>23, BagTypes DEF MergeUndoChild, Thread, Pcs, Working, WellFormed, Busy
    <2>2. thr' \in [Threads -> Thread] /\ Busy'
      BY <1>23, <2>1, MoveType DEF MergeUndoChild
    <2>3. thr[t].obj \in Objs
      BY <1>0, <1>23 DEF MergeUndoChild, Busy, Working
    <2>4. [table[o] EXCEPT !.parents = CleanOne(@, thr[t].obj)] \in Row
      BY Zenon, <1>0, <2>3, RowTypes DEF States
    <2>5. table' \in [Objs -> Row]
      BY <1>0, <1>23, <2>4, SetRowType DEF MergeUndoChild
    <2> QED
      BY <1>0, <1>23, <2>2, <2>3, <2>5 DEF MergeUndoChild, TypeInv, TypeOK
  <1>24. ASSUME NEW t \in Threads, MergeFail(t)
       PROVE  TypeInv'
    <2>1. thr' \in [Threads -> Thread] /\ Busy'
      BY <1>0, <1>24, ReturnWellFormed, MoveType DEF MergeFail
    <2>2. thr[t].obj \in Objs
      BY <1>0, <1>24 DEF MergeFail, Busy, Working
    <2>3. [table[thr[t].obj] EXCEPT !.children = NoBag] \in Row
      BY Zenon, <1>0, <2>2, RowTypes DEF States
    <2>4. table' \in [Objs -> Row]
      BY <1>0, <1>24, <2>3, SetRowType DEF MergeFail
    <2> QED
      BY Zenon, <1>0, <1>24, <2>1, <2>2, <2>4 DEF MergeFail, TypeInv, TypeOK
  <1>25. ASSUME NEW t \in Threads, MergeDone(t)
       PROVE  TypeInv'
    <2>1. thr' \in [Threads -> Thread] /\ Busy'
      BY <1>0, <1>25, ReturnWellFormed, MoveType DEF MergeDone
    <2>2. thr[t].obj \in Objs
      BY <1>0, <1>25 DEF MergeDone, Busy, Working
    <2>3. /\ table[thr[t].obj] \in Row
          /\ [table[thr[t].obj] EXCEPT !.state = IF @ = "ERROR" THEN @ ELSE "SUCCESS",
                                       !.signaled = TRUE] \in Row
      <3>1. (IF table[thr[t].obj].state = "ERROR" THEN table[thr[t].obj].state
             ELSE "SUCCESS") \in States
        BY <1>0, <2>2 DEF Row, States
      <3> QED
        BY ZenonT(60), <1>0, <2>2, <3>1, RowTypes
    <2>4. table' \in [Objs -> Row]
      BY <1>0, <1>25, <2>3, SetRowType DEF MergeDone
    <2> QED
      BY <1>0, <1>25, <2>1, <2>2, <2>4 DEF MergeDone, TypeInv, TypeOK
  <1>26. ASSUME NEW t \in Threads, NEW o \in Objs, DestroyChild(t, o)
       PROVE  TypeInv'
    <2>1. WellFormed([thr[t] EXCEPT !.todo = CleanOne(@, o)])
      BY <1>0, <1>26, BagTypes DEF DestroyChild, Thread, Pcs, Working, WellFormed, Busy
    <2>2. thr' \in [Threads -> Thread] /\ Busy'
      BY <1>26, <2>1, MoveType DEF DestroyChild
    <2>3. thr[t].obj \in Objs
      BY <1>0, <1>26 DEF DestroyChild, Busy, Working
    <2>4. /\ table[o] \in Row
          /\ [table[o] EXCEPT !.parents = CleanOne(@, thr[t].obj)] \in Row
      BY Zenon, <1>0, <2>3, RowTypes DEF States
    <2>5. table' \in [Objs -> Row]
      BY <1>0, <1>26, <2>4, SetRowType DEF DestroyChild
    <2> QED
      BY <1>0, <1>26, <2>2, <2>3, <2>5 DEF DestroyChild, TypeInv, TypeOK
  <1>27. ASSUME NEW t \in Threads, NEW o \in Objs, DestroyParent(t, o)
       PROVE  TypeInv'
    <2>1. WellFormed([thr[t] EXCEPT !.rest = CleanOne(@, o)])
      BY <1>0, <1>27, BagTypes DEF DestroyParent, Thread, Pcs, Working, WellFormed, Busy
    <2>2. thr' \in [Threads -> Thread] /\ Busy'
      BY <1>27, <2>1, MoveType DEF DestroyParent
    <2>3. thr[t].obj \in Objs
      BY <1>0, <1>27 DEF DestroyParent, Busy, Working
    <2>4. /\ table[o] \in Row
          /\ [table[o] EXCEPT !.children = CleanOne(@, thr[t].obj)] \in Row
      BY Zenon, <1>0, <2>3, RowTypes DEF States
    <2>5. table' \in [Objs -> Row]
      BY <1>0, <1>27, <2>4, SetRowType DEF DestroyParent
    <2> QED
      BY <1>0, <1>27, <2>2, <2>3, <2>5 DEF DestroyParent, TypeInv, TypeOK
  <1>28. ASSUME NEW t \in Threads, DestroyFree(t)
       PROVE  TypeInv'
    <2>1. thr' \in [Threads -> Thread] /\ Busy'
      BY <1>0, <1>28, ReturnWellFormed, MoveType DEF DestroyFree
    <2>2. thr[t].obj \in Objs
      BY <1>0, <1>28 DEF DestroyFree, Busy, Working
    <2>3. ZeroRow \in Row
      BY <1>0, <2>2, StartTypes
    <2>4. table' \in [Objs -> Row]
      BY <1>0, <1>28, <2>3, SetRowType DEF DestroyFree
    <2>5. cb' \in [Cbs -> CbNode] /\ pl' \in [Pls -> PlNode]
      BY <1>0, <1>28, <2>2, DropTypes DEF DestroyFree, TypeOK
    <2> QED
      BY ZenonT(60), <1>0, <1>28, <2>1, <2>2, <2>4, <2>5 DEF DestroyFree, TypeInv, TypeOK
  <1>29. ASSUME NEW t \in Threads, cam_sync_handle_reset(t)
       PROVE  TypeInv'
    <2>1. thr' \in [Threads -> Thread] /\ Busy'
      BY <1>0, <1>29, ReturnWellFormed, MoveType DEF cam_sync_handle_reset
    <2>2. thr[t].obj \in Objs
      BY <1>0, <1>29 DEF cam_sync_handle_reset, Busy, Working
    <2>3. pl' \in [Pls -> PlNode]
      BY <1>0, <1>29, <2>2, PayloadType DEF cam_sync_handle_reset, TypeOK
    <2> QED
      BY <1>0, <1>29, <2>1, <2>3 DEF cam_sync_handle_reset, TypeInv, TypeOK
  <1>30. ASSUME NEW t \in Threads, WaitCompleted(t)
       PROVE  TypeInv'
    <2>1. WellFormed([thr[t] EXCEPT !.pc = "woken"])
      BY <1>0, <1>30 DEF WaitCompleted, Thread, Pcs, Working, WellFormed, Busy
    <2>2. thr' \in [Threads -> Thread] /\ Busy'
      BY <1>30, <2>1, MoveType DEF WaitCompleted
    <2> QED
      BY <1>0, <1>30, <2>2 DEF WaitCompleted, TypeInv, TypeOK
  <1>31. ASSUME NEW t \in Threads, WaitReturn(t)
       PROVE  TypeInv'
    <2>1. thr' \in [Threads -> Thread] /\ Busy'
      BY <1>0, <1>31, ReturnWellFormed, MoveType DEF WaitReturn
    <2> QED
      BY <1>0, <1>31, <2>1 DEF WaitReturn, TypeInv, TypeOK
  <1>32. ASSUME NEW t \in Threads, WaitTimedOut(t)
       PROVE  TypeInv'
    <2>1. thr' \in [Threads -> Thread] /\ Busy'
      BY <1>0, <1>32, ReturnWellFormed, MoveType DEF WaitTimedOut
    <2> QED
      BY <1>0, <1>32, <2>1 DEF WaitTimedOut, TypeInv, TypeOK
  <1>33. ASSUME NEW t \in Threads, cam_sync_put_obj_ref(t)
       PROVE  TypeInv'
    <2>1. thr' \in [Threads -> Thread] /\ Busy'
      BY <1>0, <1>33, ReturnWellFormed, MoveType DEF cam_sync_put_obj_ref
    <2>2. thr[t].obj \in Objs
      BY <1>0, <1>33 DEF cam_sync_put_obj_ref, Busy, Working
    <2>3. [table[thr[t].obj] EXCEPT !.ref_cnt = @ - 1] \in Row
      BY ZenonT(60), <1>0, <2>2, RowTypes DEF States
    <2>4. table' \in [Objs -> Row]
      BY <1>0, <1>33, <2>3, SetRowType DEF cam_sync_put_obj_ref
    <2> QED
      BY <1>0, <1>33, <2>1, <2>2, <2>4 DEF cam_sync_put_obj_ref, TypeInv, TypeOK
  <1>34. ASSUME NEW t \in Threads, NEW o \in Objs, CloseSignal(t, o)
       PROVE  TypeInv'
    <2>1. /\ WellFormed([thr[t] EXCEPT !.pc = "signal", !.obj = o, !.st = "ERROR",
                            !.ret = "close_signal", !.scan = @ \ {o}])
          /\ WellFormed([thr[t] EXCEPT !.scan = @ \ {o}])
      BY ZenonT(60), <1>0, <1>34 DEF CloseSignal, Thread, Pcs, Working, WellFormed, Busy, States
    <2>2. thr' \in [Threads -> Thread] /\ Busy'
      BY <1>0, <1>34, <2>1, MoveType DEF CloseSignal
    <2> QED
      BY <1>0, <1>34, <2>2 DEF CloseSignal, TypeInv, TypeOK
  <1>35. ASSUME NEW t \in Threads, NEW o \in Objs, CloseDestroy(t, o)
       PROVE  TypeInv'
    <2>1. CASE DestroyBegin(t, o, "close_destroy")
      BY <2>1, DestroyType
    <2>2. CASE ~DestroyBegin(t, o, "close_destroy")
      <3>1. WellFormed([thr[t] EXCEPT !.scan = @ \ {o}])
        BY <1>0 DEF Thread, WellFormed, Busy
      <3>2. thr' \in [Threads -> Thread] /\ Busy'
        BY <1>35, <2>2, <3>1, MoveType DEF CloseDestroy
      <3> QED
        BY <1>0, <1>35, <2>2, <3>2 DEF CloseDestroy, TypeInv, TypeOK
    <2> QED BY <2>1, <2>2
  <1>36. ASSUME NEW t \in Threads, CloseFlush(t)
       PROVE  TypeInv'
    <2>1. WellFormed([thr[t] EXCEPT !.pc = "close_destroy", !.scan = Objs])
      BY Zenon, <1>0, <1>36, thr[t] \in Thread DEF CloseFlush, Thread, Pcs, Working, WellFormed, Busy
    <2>2. thr' \in [Threads -> Thread] /\ Busy'
      BY <1>36, <2>1, MoveType DEF CloseFlush
    <2> QED
      BY <1>0, <1>36, <2>2 DEF CloseFlush, TypeInv, TypeOK
  <1>37. ASSUME NEW t \in Threads, CloseEnd(t)
       PROVE  TypeInv'
    <2>1. thr' \in [Threads -> Thread] /\ Busy'
      BY <1>0, <1>37, ReturnWellFormed, MoveType DEF CloseEnd
    <2> QED
      BY <1>0, <1>37, <2>1 DEF CloseEnd, TypeInv, TypeOK
  <1>38. ASSUME NEW n \in Cbs, cam_sync_util_cb_dispatch(n)
       PROVE  TypeInv'
    <2>1. cb' \in [Cbs -> CbNode]
      BY <1>0, <1>38, StartTypes DEF cam_sync_util_cb_dispatch, TypeOK
    <2> QED
      BY <1>0, <1>38, <2>1 DEF cam_sync_util_cb_dispatch, TypeInv, TypeOK, Busy
  <1>39. ASSUME NEW p \in Pls, DequeueEvent(p)
       PROVE  TypeInv'
    <2>1. pl' \in [Pls -> PlNode]
      BY <1>0, <1>39, StartTypes DEF DequeueEvent, TypeOK
    <2> QED
      BY <1>0, <1>39, <2>1 DEF DequeueEvent, TypeInv, TypeOK, Busy
  <1>40. ASSUME UNCHANGED vars
       PROVE  TypeInv'
    BY <1>0, <1>40 DEF vars, TypeInv, TypeOK, Busy
  <1> QED
    BY SMTT(60), <1>1, <1>2, <1>3, <1>4, <1>5, <1>6, <1>7, <1>8, <1>9, <1>10, <1>11, <1>12,
       <1>13, <1>14, <1>15, <1>16, <1>17, <1>18, <1>19, <1>20, <1>21, <1>22, <1>23, <1>24,
       <1>25, <1>26, <1>27, <1>28, <1>29, <1>30, <1>31, <1>32, <1>33, <1>34, <1>35, <1>36,
       <1>37, <1>38, <1>39, <1>40
    DEF Next, Client, Continue, cam_sync_signal, cam_sync_init_group_object,
        cam_sync_deinit_object

(* TypeOK holds in every reachable state of the fence table: in particular  *)
(* the counter remaining never leaves its 32 bits and no list entry of a    *)
(* row, node or thread names an object that does not exist.                 *)
THEOREM TypeCorrect == Spec => []TypeOK
  <1>1. Init => TypeInv
    BY StartTypes DEF Init, TypeInv, TypeOK, Busy, Idle, Working
  <1>2. TypeInv /\ [Next]_vars => TypeInv'
    BY TypeStep
  <1>3. TypeInv => TypeOK
    BY DEF TypeInv
  <1> QED
    BY <1>1, <1>2, <1>3, PTL DEF Spec

----------------------------------------------------------------------------
(* Allocation safety.                                                       *)

(* The inductive strengthening for the lists: a node on a list is on a row  *)
(* whose bit is set and that nobody is creating or merging into.            *)
NodesInUse ==
    /\ \A n \in Cbs : cb[n].where = "listed" =>
        /\ cb[n].obj \in bitmap
        /\ \A t \in Threads : Owns(t, cb[n].obj) => thr[t].pc = "destroy"
    /\ \A p \in Pls : pl[p].where = "listed" =>
        /\ pl[p].obj \in bitmap
        /\ \A t \in Threads : Owns(t, pl[p].obj) => thr[t].pc = "destroy"

AllocInv == TypeInv /\ AllocSafe /\ NodesInUse

(* A row that is not INVALID and whose lock is free belongs to no thread.   *)
LEMMA LiveUnowned ==
    ASSUME AllocSafe, NEW o \in Objs, table[o].state # "INVALID", ~Locked(o)
    PROVE  o \in bitmap /\ \A t \in Threads : ~Owns(t, o)
  BY DEF AllocSafe, Locked, Owns, Owning

(* A step that hands out and gives back nothing, revives no INVALID row,    *)
(* starts no ownership and lists no node keeps the invariant.               *)
LEMMA AllocFrame ==
    ASSUME AllocSafe, NodesInUse, bitmap' = bitmap,
           \A o \in Objs : table[o].state = "INVALID" => table'[o].state = "INVALID",
           \A t \in Threads, o \in Objs : Owns(t, o)' =>
               /\ Owns(t, o)
               /\ \/ thr'[t].pc = thr[t].pc
                  \/ thr[t].pc = "merge" /\ table'[o].state = "INVALID",
           \A n \in Cbs : cb'[n].where = "listed" => cb'[n] = cb[n],
           \A p \in Pls : pl'[p].where = "listed" => pl'[p] = pl[p],
           TypeOK
    PROVE  AllocSafe' /\ NodesInUse'
  <1>1. AllocSafe'
    BY DEF AllocSafe
  <1>2. \A n \in Cbs : cb[n].obj \in Objs \cup {NoObj}
    BY DEF TypeOK, CbNode
  <1>3. \A p \in Pls : pl[p].obj \in Objs \cup {NoObj}
    BY DEF TypeOK, PlNode
  <1>4. NodesInUse'
    BY <1>2, <1>3 DEF NodesInUse, TypeOK
  <1> QED BY <1>1, <1>4

(* A move changes one thread.                                               *)
LEMMA MoveValue ==
    ASSUME TypeOK, NEW t \in Threads, NEW th, Move(t, th)
    PROVE  thr'[t] = th /\ \A u \in Threads : u # t => thr'[u] = thr[u]
  BY DEF TypeOK, Move

(* A row update changes one row.                                            *)
LEMMA SetRowValue ==
    ASSUME TypeOK, NEW o \in Objs, NEW row, SetRow(o, row)
    PROVE  table'[o] = row /\ \A q \in Objs : q # o => table'[q] = table[q]
  BY DEF TypeOK, SetRow

(* After a dispatch the nodes still on a list are the ones that were.       *)
LEMMA DispatchLists ==
    ASSUME NEW o, NEW st, TypeOK
    PROVE  /\ \A n \in Cbs : QueueCbs(o, st)[n].where = "listed" => QueueCbs(o, st)[n] = cb[n]
           /\ \A p \in Pls : SendPls(o, st)[p].where = "listed" => SendPls(o, st)[p] = pl[p]
  BY DEF QueueCbs, SendPls, TypeOK

(* After a drop the nodes still on a list are those of other rows.          *)
LEMMA DropLists ==
    ASSUME NEW o, NEW w \in {"free", "lost"}, TypeOK
    PROVE  /\ \A n \in Cbs : Drop(cb, o, w)[n].where = "listed" =>
                /\ Drop(cb, o, w)[n] = cb[n]
                /\ cb[n].obj # o
           /\ \A p \in Pls : Drop(pl, o, w)[p].where = "listed" =>
                /\ Drop(pl, o, w)[p] = pl[p]
                /\ pl[p].obj # o
  BY DEF Drop, TypeOK

(* No thread becomes an owner, or leaves the part of the merge in which     *)
(* its row may be valid.                                                    *)
OwnersKept ==
    \A u \in Threads, q \in Objs : Owns(u, q)' =>
        /\ Owns(u, q)
        /\ thr'[u].pc = thr[u].pc

(* A thread that moves to a place outside Owning owns nothing.              *)
LEMMA NoNewOwner ==
    ASSUME TypeOK, NEW t \in Threads, NEW th, Move(t, th), th.pc \notin Owning
    PROVE  /\ OwnersKept
           /\ \A u \in Threads, q \in Objs : Owns(u, q)' => u # t
  BY MoveValue DEF Owns, OwnersKept

(* A thread that keeps its place and its object keeps what it owns.         *)
LEMMA SameOwner ==
    ASSUME TypeOK, NEW t \in Threads, NEW th, Move(t, th),
           th.pc = thr[t].pc, th.obj = thr[t].obj
    PROVE  OwnersKept
  BY MoveValue DEF Owns, OwnersKept

(* A thread that returns owns nothing.                                      *)
LEMMA ReturnOwns ==
    ASSUME TypeOK, NEW t \in Threads, Move(t, Return(t))
    PROVE  /\ OwnersKept
           /\ \A u \in Threads, q \in Objs : Owns(u, q)' => u # t
  <1>1. Return(t).pc \notin Owning
    BY ReturnType DEF Working, Owning
  <1> QED BY <1>1, NoNewOwner

(* Every step keeps allocation safety.                                      *)
LEMMA AllocStep == AllocInv /\ [Next]_vars => AllocInv'
  <1> SUFFICES ASSUME AllocInv, [Next]_vars
               PROVE  AllocSafe' /\ NodesInUse'
    BY TypeStep DEF AllocInv
  <1>0. /\ TypeInv /\ TypeOK /\ Busy /\ AllocSafe /\ NodesInUse
        /\ \A t \in Threads : thr[t] \in Thread
        /\ \A o \in Objs : table[o] \in Row
    BY PartTypes DEF AllocInv, TypeInv
  <1>a. AllocSafe
    BY <1>0
  <1>t. TypeOK
    BY <1>0
  <1>b. NodesInUse /\ bitmap \subseteq Objs
    BY <1>0 DEF TypeOK
  <1>1. ASSUME cam_sync_open
       PROVE  AllocSafe' /\ NodesInUse'
    <2>1. \A q \in Objs : table[q].state = "INVALID" => table'[q].state = "INVALID"
      BY <1>1 DEF cam_sync_open
    <2>2. OwnersKept
      BY <1>1 DEF cam_sync_open, Owns, OwnersKept
    <2>3. /\ \A m \in Cbs : cb'[m].where = "listed" => cb'[m] = cb[m]
          /\ \A m \in Pls : pl'[m].where = "listed" => pl'[m] = pl[m]
      BY <1>1 DEF cam_sync_open
    <2> QED
      BY <1>0, <1>1, <2>1, <2>2, <2>3, AllocFrame DEF cam_sync_open, OwnersKept
  <1>2. ASSUME NEW n \in Cbs, NEW o \in Objs, cam_sync_deregister_callback(n, o)
       PROVE  AllocSafe' /\ NodesInUse'
    <2>1. \A q \in Objs : table[q].state = "INVALID" => table'[q].state = "INVALID"
      BY <1>2 DEF cam_sync_deregister_callback
    <2>2. OwnersKept
      BY <1>2 DEF cam_sync_deregister_callback, Owns, OwnersKept
    <2>3. /\ \A m \in Cbs : cb'[m].where = "listed" => cb'[m] = cb[m]
          /\ \A m \in Pls : pl'[m].where = "listed" => pl'[m] = pl[m]
      BY <1>0, <1>2 DEF cam_sync_deregister_callback, TypeOK, FreeCb
    <2> QED
      BY <1>0, <1>2, <2>1, <2>2, <2>3, AllocFrame DEF cam_sync_deregister_callback, OwnersKept
  <1>3. ASSUME NEW p \in Pls, NEW o \in Objs, cam_sync_handle_deregister_user_payload(p, o)
       PROVE  AllocSafe' /\ NodesInUse'
    <2>1. \A q \in Objs : table[q].state = "INVALID" => table'[q].state = "INVALID"
      BY <1>3 DEF cam_sync_handle_deregister_user_payload
    <2>2. OwnersKept
      BY <1>3 DEF cam_sync_handle_deregister_user_payload, Owns, OwnersKept
    <2>3. /\ \A m \in Cbs : cb'[m].where = "listed" => cb'[m] = cb[m]
          /\ \A m \in Pls : pl'[m].where = "listed" => pl'[m] = pl[m]
      BY <1>0, <1>3 DEF cam_sync_handle_deregister_user_payload, TypeOK, FreePl
    <2> QED
      BY <1>0, <1>3, <2>1, <2>2, <2>3, AllocFrame DEF cam_sync_handle_deregister_user_payload, OwnersKept
  <1>4. ASSUME NEW t \in Threads, cam_sync_close(t)
       PROVE  AllocSafe' /\ NodesInUse'
    <2>1. \A q \in Objs : table[q].state = "INVALID" => table'[q].state = "INVALID"
      BY <1>4 DEF cam_sync_close
    <2>2. [thr[t] EXCEPT !.pc = "close_signal", !.scan = Objs].pc \notin Owning
      BY <1>0 DEF Thread, Owning
    <2>3. OwnersKept
      BY Zenon, <1>t, <1>4, <2>2, ReturnOwns, NoNewOwner, SameOwner DEF cam_sync_close
    <2>4. /\ \A m \in Cbs : cb'[m].where = "listed" => cb'[m] = cb[m]
          /\ \A m \in Pls : pl'[m].where = "listed" => pl'[m] = pl[m]
      BY <1>4 DEF cam_sync_close
    <2> QED
      BY <1>0, <1>4, <2>1, <2>3, <2>4, AllocFrame DEF cam_sync_close, OwnersKept
  <1>5. ASSUME NEW t \in Threads, NEW o \in Objs, NEW status \in Signaled, cam_sync_get_obj_ref(t, o, status)
       PROVE  AllocSafe' /\ NodesInUse'
    <2>1. \A q \in Objs : table[q].state = "INVALID" => table'[q].state = "INVALID"
      BY <1>0, <1>5, SetRowValue DEF cam_sync_get_obj_ref, Row
    <2>2. [thr[t] EXCEPT !.pc = "signal", !.obj = o, !.st = status].pc \notin Owning
      BY <1>0 DEF Thread, Owning
    <2>3. OwnersKept
      BY Zenon, <1>t, <1>5, <2>2, ReturnOwns, NoNewOwner, SameOwner DEF cam_sync_get_obj_ref
    <2>4. /\ \A m \in Cbs : cb'[m].where = "listed" => cb'[m] = cb[m]
          /\ \A m \in Pls : pl'[m].where = "listed" => pl'[m] = pl[m]
      BY <1>5 DEF cam_sync_get_obj_ref
    <2> QED
      BY <1>0, <1>5, <2>1, <2>3, <2>4, AllocFrame DEF cam_sync_get_obj_ref, OwnersKept
  <1>6. ASSUME NEW t \in Threads, NEW o \in Objs, cam_sync_reset(t, o)
       PROVE  AllocSafe' /\ NodesInUse'
    <2>1. \A q \in Objs : table[q].state = "INVALID" => table'[q].state = "INVALID"
      BY <1>0, <1>6, SetRowValue DEF cam_sync_reset, Row
    <2>2. [thr[t] EXCEPT !.pc = "reset", !.obj = o].pc \notin Owning
      BY <1>0 DEF Thread, Owning
    <2>3. OwnersKept
      BY Zenon, <1>t, <1>6, <2>2, NoNewOwner DEF cam_sync_reset
    <2>4. cb' = Drop(cb, o, "lost") /\ pl' = Drop(pl, o, "lost")
      BY <1>6 DEF cam_sync_reset
    <2>5. /\ \A m \in Cbs : cb'[m].where = "listed" => cb'[m] = cb[m]
          /\ \A m \in Pls : pl'[m].where = "listed" => pl'[m] = pl[m]
      BY <1>0, <2>4, DropLists
    <2> QED
      BY <1>0, <1>6, <2>1, <2>3, <2>5, AllocFrame DEF cam_sync_reset, OwnersKept
  <1>7. ASSUME NEW t \in Threads, NEW o \in Objs, cam_sync_wait(t, o)
       PROVE  AllocSafe' /\ NodesInUse'
    <2>1. \A q \in Objs : table[q].state = "INVALID" => table'[q].state = "INVALID"
      BY <1>7 DEF cam_sync_wait
    <2>2. [thr[t] EXCEPT !.pc = "wait", !.obj = o].pc \notin Owning
      BY <1>0 DEF Thread, Owning
    <2>3. OwnersKept
      BY ZenonT(60), <1>t, <1>7, <2>2, NoNewOwner DEF cam_sync_wait
    <2>4. /\ \A m \in Cbs : cb'[m].where = "listed" => cb'[m] = cb[m]
          /\ \A m \in Pls : pl'[m].where = "listed" => pl'[m] = pl[m]
      BY <1>7 DEF cam_sync_wait
    <2> QED
      BY <1>0, <1>7, <2>1, <2>3, <2>4, AllocFrame DEF cam_sync_wait, OwnersKept
  <1>8. ASSUME NEW t \in Threads, SignalRefused(t)
       PROVE  AllocSafe' /\ NodesInUse'
    <2>1. \A q \in Objs : table[q].state = "INVALID" => table'[q].state = "INVALID"
      BY <1>8 DEF SignalRefused
    <2>2. OwnersKept
      BY <1>0, <1>8, ReturnOwns DEF SignalRefused
    <2>3. /\ \A m \in Cbs : cb'[m].where = "listed" => cb'[m] = cb[m]
          /\ \A m \in Pls : pl'[m].where = "listed" => pl'[m] = pl[m]
      BY <1>8 DEF SignalRefused
    <2> QED
      BY <1>0, <1>8, <2>1, <2>2, <2>3, AllocFrame DEF SignalRefused, OwnersKept
  <1>9. ASSUME NEW t \in Threads, SignalCounted(t)
       PROVE  AllocSafe' /\ NodesInUse'
    <2>1. thr[t].obj \in Objs
      BY <1>0, <1>9 DEF SignalCounted, Busy, Working
    <2>2. \A q \in Objs : table[q].state = "INVALID" => table'[q].state = "INVALID"
      BY <1>0, <1>9, <2>1, SetRowValue DEF SignalCounted, Row
    <2>3. OwnersKept
      BY <1>0, <1>9, ReturnOwns DEF SignalCounted
    <2>4. /\ \A m \in Cbs : cb'[m].where = "listed" => cb'[m] = cb[m]
          /\ \A m \in Pls : pl'[m].where = "listed" => pl'[m] = pl[m]
      BY SMTT(60), <1>9 DEF SignalCounted
    <2> QED
      BY <1>0, <1>9, <2>2, <2>3, <2>4, AllocFrame DEF SignalCounted, OwnersKept
  <1>10. ASSUME NEW t \in Threads, SignalLast(t)
       PROVE  AllocSafe' /\ NodesInUse'
    <2>1. thr[t].obj \in Objs
      BY <1>0, <1>10 DEF SignalLast, Busy, Working
    <2>2. \A q \in Objs : table[q].state = "INVALID" => table'[q].state = "INVALID"
      BY <1>0, <1>10, <2>1, SetRowValue DEF SignalLast, Row
    <2>3. [thr[t] EXCEPT !.pc = "parents", !.obj = NoObj,
                                 !.todo = table[thr[t].obj].parents].pc \notin Owning
      BY <1>0 DEF Thread, Owning
    <2>4. OwnersKept
      BY Zenon, <1>t, <1>10, <2>3, ReturnOwns, NoNewOwner DEF SignalLast
    <2>5. /\ \A m \in Cbs : cb'[m].where = "listed" => cb'[m] = cb[m]
          /\ \A m \in Pls : pl'[m].where = "listed" => pl'[m] = pl[m]
      BY SMTT(60), <1>0, <1>10, DispatchLists DEF SignalLast
    <2> QED
      BY <1>0, <1>10, <2>2, <2>4, <2>5, AllocFrame DEF SignalLast, OwnersKept
  <1>11. ASSUME NEW t \in Threads, NEW o \in Objs, SignalParent(t, o)
       PROVE  AllocSafe' /\ NodesInUse'
    <2> DEFINE st == cam_sync_util_update_parent_state(table[o].state, thr[t].st)
    <2> DEFINE row == [table[o] EXCEPT !.remaining = Dec(@), !.state = st,
                                       !.signaled = @ \/ Completes(st, Dec(table[o].remaining))]
    <2>1. row.state = st /\ (table[o].state = "INVALID" => st = "INVALID")
      BY <1>0 DEF Row, cam_sync_util_update_parent_state
    <2>2. SetRow(o, row)
      BY <1>11 DEF SignalParent
    <2> HIDE DEF st, row
    <2>3. \A q \in Objs : table[q].state = "INVALID" => table'[q].state = "INVALID"
      BY <1>0, <2>1, <2>2, SetRowValue
    <2> USE DEF st, row
    <2>4. /\ [thr[t] EXCEPT !.todo = CleanOne(thr[t].todo, o)].pc = thr[t].pc
          /\ [thr[t] EXCEPT !.todo = CleanOne(thr[t].todo, o)].obj = thr[t].obj
      BY <1>0 DEF Thread, Owning
    <2>5. OwnersKept
      BY Zenon, <1>t, <1>11, <2>4, ReturnOwns, NoNewOwner, SameOwner DEF SignalParent
    <2>6. /\ \A m \in Cbs : cb'[m].where = "listed" => cb'[m] = cb[m]
          /\ \A m \in Pls : pl'[m].where = "listed" => pl'[m] = pl[m]
      BY <1>0, <1>11, DispatchLists DEF SignalParent
    <2> QED
      BY <1>0, <1>11, <2>3, <2>5, <2>6, AllocFrame DEF SignalParent, OwnersKept
  <1>12. ASSUME NEW t \in Threads, NEW o \in Objs, MergeActiveChild(t, o)
       PROVE  AllocSafe' /\ NodesInUse'
    <2>1. thr[t].obj \in Objs
      BY <1>0, <1>12 DEF MergeActiveChild, Busy, Working
    <2>2. \A q \in Objs : table[q].state = "INVALID" => table'[q].state = "INVALID"
      BY Zenon, <1>0, <1>12, <2>1 DEF MergeActiveChild, AddChild, AddParent, Row, TypeOK
    <2>3. /\ [thr[t] EXCEPT !.todo = CleanOne(@, o), !.rest = Add(@, o)].pc = thr[t].pc
          /\ [thr[t] EXCEPT !.todo = CleanOne(@, o), !.rest = Add(@, o)].obj = thr[t].obj
      BY <1>0 DEF Thread, Owning
    <2>4. OwnersKept
      BY Zenon, <1>t, <1>12, <2>3, ReturnOwns, NoNewOwner, SameOwner DEF MergeActiveChild
    <2>5. /\ \A m \in Cbs : cb'[m].where = "listed" => cb'[m] = cb[m]
          /\ \A m \in Pls : pl'[m].where = "listed" => pl'[m] = pl[m]
      BY <1>12 DEF MergeActiveChild
    <2> QED
      BY Zenon, <1>0, <1>12, <2>2, <2>4, <2>5, AllocFrame DEF MergeActiveChild, OwnersKept
  <1>13. ASSUME NEW t \in Threads, NEW o \in Objs, MergeBadChild(t, o)
       PROVE  AllocSafe' /\ NodesInUse'
    <2> DEFINE g == thr[t].obj
    <2> DEFINE th == [thr[t] EXCEPT !.pc = "merge_undo", !.todo = thr[t].rest,
                                    !.rest = NoBag]
    <2> DEFINE row == [table[g] EXCEPT !.state = "INVALID"]
    <2>1. g \in Objs /\ thr[t].pc = "merge"
      BY <1>0, <1>13 DEF MergeBadChild, Busy, Working
    <2>2. th.pc = "merge_undo" /\ th.obj = g /\ row.state = "INVALID"
      BY <1>0, <2>1 DEF Thread, Row
    <2>3. Move(t, th) /\ SetRow(g, row) /\ UNCHANGED <<bitmap, cb, pl>>
      BY <1>13 DEF MergeBadChild
    <2> HIDE DEF th, row
    <2>4. /\ table'[g].state = "INVALID"
          /\ \A q \in Objs : table[q].state = "INVALID" => table'[q].state = "INVALID"
      BY <1>0, <2>1, <2>2, <2>3, SetRowValue
    <2>5. thr'[t] = th /\ \A u \in Threads : u # t => thr'[u] = thr[u]
      BY <1>0, <2>3, MoveValue
    <2>6. \A u \in Threads, q \in Objs : Owns(u, q)' =>
              /\ Owns(u, q)
              /\ \/ thr'[u].pc = thr[u].pc
                 \/ thr[u].pc = "merge" /\ table'[q].state = "INVALID"
      BY <2>1, <2>2, <2>4, <2>5 DEF Owns, Owning
    <2> QED
      BY <1>0, <2>3, <2>4, <2>6, AllocFrame
  <1>14. ASSUME NEW t \in Threads, NEW o \in Objs, MergeNoMem(t, o)
       PROVE  AllocSafe' /\ NodesInUse'
    <2> DEFINE g == thr[t].obj
    <2> DEFINE th == [thr[t] EXCEPT !.pc = "merge_undo", !.todo = thr[t].rest,
                                    !.rest = NoBag]
    <2> DEFINE row == [table[g] EXCEPT !.remaining = Inc(@), !.state = "INVALID"]
    <2>1. g \in Objs /\ thr[t].pc = "merge"
      BY <1>0, <1>14 DEF MergeNoMem, Busy, Working
    <2>2. th.pc = "merge_undo" /\ th.obj = g /\ row.state = "INVALID"
      BY <1>0, <2>1 DEF Thread, Row
    <2>3. Move(t, th) /\ SetRow(g, row) /\ UNCHANGED <<bitmap, cb, pl>>
      BY <1>14 DEF MergeNoMem
    <2> HIDE DEF th, row
    <2>4. /\ table'[g].state = "INVALID"
          /\ \A q \in Objs : table[q].state = "INVALID" => table'[q].state = "INVALID"
      BY <1>0, <2>1, <2>2, <2>3, SetRowValue
    <2>5. thr'[t] = th /\ \A u \in Threads : u # t => thr'[u] = thr[u]
      BY <1>0, <2>3, MoveValue
    <2>6. \A u \in Threads, q \in Objs : Owns(u, q)' =>
              /\ Owns(u, q)
              /\ \/ thr'[u].pc = thr[u].pc
                 \/ thr[u].pc = "merge" /\ table'[q].state = "INVALID"
      BY <2>1, <2>2, <2>4, <2>5 DEF Owns, Owning
    <2> QED
      BY <1>0, <2>3, <2>4, <2>6, AllocFrame
  <1>15. ASSUME NEW t \in Threads, NEW o \in Objs, MergeUndoChild(t, o)
       PROVE  AllocSafe' /\ NodesInUse'
    <2>1. \A q \in Objs : table[q].state = "INVALID" => table'[q].state = "INVALID"
      BY <1>0, <1>15, SetRowValue DEF MergeUndoChild, Row
    <2>2. /\ [thr[t] EXCEPT !.todo = CleanOne(@, o)].pc = thr[t].pc
          /\ [thr[t] EXCEPT !.todo = CleanOne(@, o)].obj = thr[t].obj
      BY <1>0 DEF Thread, Owning
    <2>3. OwnersKept
      BY Zenon, <1>t, <1>15, <2>2, ReturnOwns, NoNewOwner, SameOwner DEF MergeUndoChild
    <2>4. /\ \A m \in Cbs : cb'[m].where = "listed" => cb'[m] = cb[m]
          /\ \A m \in Pls : pl'[m].where = "listed" => pl'[m] = pl[m]
      BY <1>15 DEF MergeUndoChild
    <2> QED
      BY <1>0, <1>15, <2>1, <2>3, <2>4, AllocFrame DEF MergeUndoChild, OwnersKept
  <1>16. ASSUME NEW t \in Threads, NEW o \in Objs, DestroyChild(t, o)
       PROVE  AllocSafe' /\ NodesInUse'
    <2>1. \A q \in Objs : table[q].state = "INVALID" => table'[q].state = "INVALID"
      BY <1>0, <1>16, SetRowValue DEF DestroyChild, Row
    <2>2. /\ [thr[t] EXCEPT !.todo = CleanOne(@, o)].pc = thr[t].pc
          /\ [thr[t] EXCEPT !.todo = CleanOne(@, o)].obj = thr[t].obj
      BY <1>0 DEF Thread, Owning
    <2>3. OwnersKept
      BY Zenon, <1>t, <1>16, <2>2, ReturnOwns, NoNewOwner, SameOwner DEF DestroyChild
    <2>4. /\ \A m \in Cbs : cb'[m].where = "listed" => cb'[m] = cb[m]
          /\ \A m \in Pls : pl'[m].where = "listed" => pl'[m] = pl[m]
      BY <1>16 DEF DestroyChild
    <2> QED
      BY <1>0, <1>16, <2>1, <2>3, <2>4, AllocFrame DEF DestroyChild, OwnersKept
  <1>17. ASSUME NEW t \in Threads, NEW o \in Objs, DestroyParent(t, o)
       PROVE  AllocSafe' /\ NodesInUse'
    <2>1. \A q \in Objs : table[q].state = "INVALID" => table'[q].state = "INVALID"
      BY <1>0, <1>17, SetRowValue DEF DestroyParent, Row
    <2>2. /\ [thr[t] EXCEPT !.rest = CleanOne(@, o)].pc = thr[t].pc
          /\ [thr[t] EXCEPT !.rest = CleanOne(@, o)].obj = thr[t].obj
      BY <1>0 DEF Thread, Owning
    <2>3. OwnersKept
      BY Zenon, <1>t, <1>17, <2>2, ReturnOwns, NoNewOwner, SameOwner DEF DestroyParent
    <2>4. /\ \A m \in Cbs : cb'[m].where = "listed" => cb'[m] = cb[m]
          /\ \A m \in Pls : pl'[m].where = "listed" => pl'[m] = pl[m]
      BY <1>17 DEF DestroyParent
    <2> QED
      BY SMTT(60), <1>0, <1>17, <2>1, <2>3, <2>4, AllocFrame DEF DestroyParent, OwnersKept
  <1>18. ASSUME NEW t \in Threads, WaitCompleted(t)
       PROVE  AllocSafe' /\ NodesInUse'
    <2>1. \A q \in Objs : table[q].state = "INVALID" => table'[q].state = "INVALID"
      BY <1>18 DEF WaitCompleted
    <2>2. [thr[t] EXCEPT !.pc = "woken"].pc \notin Owning
      BY <1>0 DEF Thread, Owning
    <2>3. OwnersKept
      BY Zenon, <1>t, <1>18, <2>2, NoNewOwner DEF WaitCompleted
    <2>4. /\ \A m \in Cbs : cb'[m].where = "listed" => cb'[m] = cb[m]
          /\ \A m \in Pls : pl'[m].where = "listed" => pl'[m] = pl[m]
      BY <1>18 DEF WaitCompleted
    <2> QED
      BY <1>0, <1>18, <2>1, <2>3, <2>4, AllocFrame DEF WaitCompleted, OwnersKept
  <1>19. ASSUME NEW t \in Threads, WaitReturn(t)
       PROVE  AllocSafe' /\ NodesInUse'
    <2>1. \A q \in Objs : table[q].state = "INVALID" => table'[q].state = "INVALID"
      BY <1>19 DEF WaitReturn
    <2>2. OwnersKept
      BY <1>0, <1>19, ReturnOwns DEF WaitReturn
    <2>3. /\ \A m \in Cbs : cb'[m].where = "listed" => cb'[m] = cb[m]
          /\ \A m \in Pls : pl'[m].where = "listed" => pl'[m] = pl[m]
      BY SMTT(60), <1>19 DEF WaitReturn
    <2> QED
      BY <1>0, <1>19, <2>1, <2>2, <2>3, AllocFrame DEF WaitReturn, OwnersKept
  <1>20. ASSUME NEW t \in Threads, WaitTimedOut(t)
       PROVE  AllocSafe' /\ NodesInUse'
    <2>1. \A q \in Objs : table[q].state = "INVALID" => table'[q].state = "INVALID"
      BY <1>20 DEF WaitTimedOut
    <2>2. OwnersKept
      BY <1>0, <1>20, ReturnOwns DEF WaitTimedOut
    <2>3. /\ \A m \in Cbs : cb'[m].where = "listed" => cb'[m] = cb[m]
          /\ \A m \in Pls : pl'[m].where = "listed" => pl'[m] = pl[m]
      BY <1>20 DEF WaitTimedOut
    <2> QED
      BY SMTT(60), <1>0, <1>20, <2>1, <2>2, <2>3, AllocFrame DEF WaitTimedOut, OwnersKept
  <1>21. ASSUME NEW t \in Threads, cam_sync_put_obj_ref(t)
       PROVE  AllocSafe' /\ NodesInUse'
    <2>1. thr[t].obj \in Objs
      BY <1>0, <1>21 DEF cam_sync_put_obj_ref, Busy, Working
    <2>2. \A q \in Objs : table[q].state = "INVALID" => table'[q].state = "INVALID"
      BY <1>0, <1>21, <2>1, SetRowValue DEF cam_sync_put_obj_ref, Row
    <2>3. OwnersKept
      BY <1>0, <1>21, ReturnOwns DEF cam_sync_put_obj_ref
    <2>4. /\ \A m \in Cbs : cb'[m].where = "listed" => cb'[m] = cb[m]
          /\ \A m \in Pls : pl'[m].where = "listed" => pl'[m] = pl[m]
      BY <1>21 DEF cam_sync_put_obj_ref
    <2> QED
      BY <1>0, <1>21, <2>2, <2>3, <2>4, AllocFrame DEF cam_sync_put_obj_ref, OwnersKept
  <1>22. ASSUME NEW t \in Threads, NEW o \in Objs, CloseSignal(t, o)
       PROVE  AllocSafe' /\ NodesInUse'
    <2>1. \A q \in Objs : table[q].state = "INVALID" => table'[q].state = "INVALID"
      BY <1>22 DEF CloseSignal
    <2>2. [thr[t] EXCEPT !.pc = "signal", !.obj = o, !.st = "ERROR",
                            !.ret = "close_signal", !.scan = @ \ {o}].pc \notin Owning
      BY <1>0 DEF Thread, Owning
    <2>3. /\ [thr[t] EXCEPT !.scan = @ \ {o}].pc = thr[t].pc
          /\ [thr[t] EXCEPT !.scan = @ \ {o}].obj = thr[t].obj
      BY <1>0 DEF Thread, Owning
    <2>4. OwnersKept
      BY Zenon, <1>t, <1>22, <2>2, <2>3, NoNewOwner, SameOwner DEF CloseSignal
    <2>5. /\ \A m \in Cbs : cb'[m].where = "listed" => cb'[m] = cb[m]
          /\ \A m \in Pls : pl'[m].where = "listed" => pl'[m] = pl[m]
      BY <1>22 DEF CloseSignal
    <2> QED
      BY <1>0, <1>22, <2>1, <2>4, <2>5, AllocFrame DEF CloseSignal, OwnersKept
  <1>23. ASSUME NEW t \in Threads, CloseFlush(t)
       PROVE  AllocSafe' /\ NodesInUse'
    <2>1. \A q \in Objs : table[q].state = "INVALID" => table'[q].state = "INVALID"
      BY <1>23 DEF CloseFlush
    <2>2. [thr[t] EXCEPT !.pc = "close_destroy", !.scan = Objs].pc \notin Owning
      BY <1>0 DEF Thread, Owning
    <2>3. OwnersKept
      BY Zenon, <1>t, <1>23, <2>2, NoNewOwner DEF CloseFlush
    <2>4. /\ \A m \in Cbs : cb'[m].where = "listed" => cb'[m] = cb[m]
          /\ \A m \in Pls : pl'[m].where = "listed" => pl'[m] = pl[m]
      BY <1>23 DEF CloseFlush
    <2> QED
      BY <1>0, <1>23, <2>1, <2>3, <2>4, AllocFrame DEF CloseFlush, OwnersKept
  <1>24. ASSUME NEW t \in Threads, CloseEnd(t)
       PROVE  AllocSafe' /\ NodesInUse'
    <2>1. \A q \in Objs : table[q].state = "INVALID" => table'[q].state = "INVALID"
      BY <1>24 DEF CloseEnd
    <2>2. OwnersKept
      BY <1>0, <1>24, ReturnOwns DEF CloseEnd
    <2>3. /\ \A m \in Cbs : cb'[m].where = "listed" => cb'[m] = cb[m]
          /\ \A m \in Pls : pl'[m].where = "listed" => pl'[m] = pl[m]
      BY <1>24 DEF CloseEnd
    <2> QED
      BY <1>0, <1>24, <2>1, <2>2, <2>3, AllocFrame DEF CloseEnd, OwnersKept
  <1>25. ASSUME NEW n \in Cbs, cam_sync_util_cb_dispatch(n)
       PROVE  AllocSafe' /\ NodesInUse'
    <2>1. \A q \in Objs : table[q].state = "INVALID" => table'[q].state = "INVALID"
      BY <1>25 DEF cam_sync_util_cb_dispatch
    <2>2. OwnersKept
      BY <1>25 DEF cam_sync_util_cb_dispatch, Owns, OwnersKept
    <2>3. /\ \A m \in Cbs : cb'[m].where = "listed" => cb'[m] = cb[m]
          /\ \A m \in Pls : pl'[m].where = "listed" => pl'[m] = pl[m]
      BY SMTT(60), <1>0, <1>25 DEF cam_sync_util_cb_dispatch, TypeOK, FreeCb
    <2> QED
      BY <1>0, <1>25, <2>1, <2>2, <2>3, AllocFrame DEF cam_sync_util_cb_dispatch, OwnersKept
  <1>26. ASSUME NEW p \in Pls, DequeueEvent(p)
       PROVE  AllocSafe' /\ NodesInUse'
    <2>1. \A q \in Objs : table[q].state = "INVALID" => table'[q].state = "INVALID"
      BY <1>26 DEF DequeueEvent
    <2>2. OwnersKept
      BY <1>26 DEF DequeueEvent, Owns, OwnersKept
    <2>3. /\ \A m \in Cbs : cb'[m].where = "listed" => cb'[m] = cb[m]
          /\ \A m \in Pls : pl'[m].where = "listed" => pl'[m] = pl[m]
      BY SMTT(60), <1>0, <1>26 DEF DequeueEvent, TypeOK, FreePl
    <2> QED
      BY <1>0, <1>26, <2>1, <2>2, <2>3, AllocFrame DEF DequeueEvent, OwnersKept
  <1>27. ASSUME UNCHANGED vars
       PROVE  AllocSafe' /\ NodesInUse'
    <2>1. \A q \in Objs : table[q].state = "INVALID" => table'[q].state = "INVALID"
      BY <1>27 DEF vars
    <2>2. OwnersKept
      BY <1>27 DEF vars, Owns, OwnersKept
    <2>3. /\ \A m \in Cbs : cb'[m].where = "listed" => cb'[m] = cb[m]
          /\ \A m \in Pls : pl'[m].where = "listed" => pl'[m] = pl[m]
      BY <1>27 DEF vars
    <2> QED
      BY <1>0, <1>27, <2>1, <2>2, <2>3, AllocFrame DEF vars, OwnersKept
  <1>28. ASSUME NEW n \in Cbs, NEW o \in Objs, cam_sync_register_callback(n, o)
       PROVE  AllocSafe' /\ NodesInUse'
    <2>1. o \in bitmap /\ \A t \in Threads : ~Owns(t, o)
      BY SMTT(60), <1>0, <1>28, LiveUnowned DEF cam_sync_register_callback
    <2>2. cb'[n].obj = o /\ \A m \in Cbs : m # n => cb'[m] = cb[m]
      BY <1>0, <1>28 DEF cam_sync_register_callback, TypeOK
    <2>3. UNCHANGED <<bitmap, table, pl, thr>>
      BY <1>28 DEF cam_sync_register_callback
    <2>4. AllocSafe'
      BY <1>a, <2>3 DEF AllocSafe, Owns
    <2>5. \A u \in Threads, q \in Objs : Owns(u, q)' <=> Owns(u, q)
      BY SMTT(60), <2>3 DEF Owns
    <2>6. NodesInUse'
      BY SMTT(60), <1>b, <2>1, <2>2, <2>3, <2>5 DEF NodesInUse
    <2> QED BY <2>4, <2>6
  <1>29. ASSUME NEW p \in Pls, NEW o \in Objs,
                cam_sync_handle_register_user_payload(p, o)
       PROVE  AllocSafe' /\ NodesInUse'
    <2>1. o \in bitmap /\ \A t \in Threads : ~Owns(t, o)
      BY SMTT(60), <1>0, <1>29, LiveUnowned DEF cam_sync_handle_register_user_payload
    <2>2. pl'[p].obj = o /\ \A m \in Pls : m # p => pl'[m] = pl[m]
      BY SMTT(60), <1>0, <1>29 DEF cam_sync_handle_register_user_payload, PayloadNode, TypeOK
    <2>3. UNCHANGED <<bitmap, table, cb, thr>>
      BY SMTT(60), <1>29 DEF cam_sync_handle_register_user_payload
    <2>4. AllocSafe'
      BY <1>a, <2>3 DEF AllocSafe, Owns
    <2>5. \A u \in Threads, q \in Objs : Owns(u, q)' <=> Owns(u, q)
      BY <2>3 DEF Owns
    <2>6. NodesInUse'
      BY <1>b, <2>1, <2>2, <2>3, <2>5 DEF NodesInUse
    <2> QED BY <2>4, <2>6
  <1>30. ASSUME NEW t \in Threads, cam_sync_handle_reset(t)
       PROVE  AllocSafe' /\ NodesInUse'
    <2>1. thr[t].obj \in Objs
      BY SMTT(60), <1>0, <1>30 DEF cam_sync_handle_reset, Busy, Working
    <2>2. OwnersKept
      BY <1>0, <1>30, ReturnOwns DEF cam_sync_handle_reset
    <2>3. CASE UNCHANGED pl
      BY ZenonT(60), <1>0, <1>30, <2>2, <2>3, AllocFrame DEF cam_sync_handle_reset, OwnersKept
    <2>4. CASE ~ UNCHANGED pl
      <3>1. PICK p \in Pls : /\ table[thr[t].obj].state # "INVALID"
                             /\ pl' = [pl EXCEPT ![p] = PayloadNode(thr[t].obj)]
        BY SMTT(60), <1>30, <2>4 DEF cam_sync_handle_reset
      <3>2. thr[t].obj \in bitmap /\ \A u \in Threads : ~Owns(u, thr[t].obj)
        BY SMTT(60), <1>0, <1>30, <2>1, <3>1, LiveUnowned DEF cam_sync_handle_reset
      <3>3. pl'[p].obj = thr[t].obj /\ \A m \in Pls : m # p => pl'[m] = pl[m]
        BY SMTT(60), <1>0, <3>1 DEF PayloadNode, TypeOK
      <3>4. AllocSafe'
        <4>1. UNCHANGED <<bitmap, table>>
          BY SMTT(60), <1>30 DEF cam_sync_handle_reset
        <4> QED BY <1>a, <2>2, <4>1 DEF AllocSafe, OwnersKept
      <3>5. NodesInUse'
        <4>1. UNCHANGED <<bitmap, cb>>
          BY Zenon, <1>30 DEF cam_sync_handle_reset
        <4> QED BY <1>b, <2>1, <2>2, <3>2, <3>3, <4>1 DEF NodesInUse, OwnersKept
      <3> QED BY <3>4, <3>5
    <2> QED BY SMTT(60), <2>3, <2>4
  <1>31. ASSUME NEW t \in Threads, NEW idx \in Objs \ bitmap, NEW th,
                bitmap' = bitmap \cup {idx}, Move(t, th), thr[t].pc = "idle",
                th.pc \in {"create", "merge_lock"}, th.obj = idx,
                UNCHANGED <<table, cb, pl>>
       PROVE  AllocSafe' /\ NodesInUse'
    <2>1. thr'[t] = th /\ \A u \in Threads : u # t => thr'[u] = thr[u]
      BY <1>0, <1>31, MoveValue
    <2>2. \A u \in Threads, q \in Objs :
              Owns(u, q)' => (u = t /\ q = idx) \/ (u # t /\ Owns(u, q))
      BY <1>31, <2>1 DEF Owns
    <2>3. /\ \A u \in Threads : ~Owns(u, idx)
          /\ table[idx].state = "INVALID"
      BY SMTT(60), <1>0, <1>31 DEF AllocSafe
    <2>4. AllocSafe'
      BY <1>a, <1>31, <2>1, <2>2, <2>3 DEF AllocSafe
    <2>5. \A q \in bitmap : q # idx /\ q \in Objs
      BY SMTT(60), <1>b, <1>31
    <2>6. NodesInUse'
      <3>1. ASSUME NEW q \in bitmap, NEW u \in Threads, Owns(u, q)'
            PROVE  Owns(u, q) /\ thr'[u] = thr[u]
        BY <2>1, <2>2, <2>5, <3>1
      <3> QED BY <1>b, <1>31, <3>1 DEF NodesInUse
    <2> QED BY SMTT(60), <2>4, <2>6
  <1>32. ASSUME NEW t \in Threads, cam_sync_create_alloc(t)
       PROVE  AllocSafe' /\ NodesInUse'
    <2>1. PICK idx \in Objs \ bitmap :
            /\ bitmap' = bitmap \cup {idx}
            /\ Move(t, [thr[t] EXCEPT !.pc = "create", !.obj = idx])
      BY Zenon, <1>32 DEF cam_sync_create_alloc
    <2>2. /\ [thr[t] EXCEPT !.pc = "create", !.obj = idx].pc = "create"
          /\ [thr[t] EXCEPT !.pc = "create", !.obj = idx].obj = idx
      BY <1>0 DEF Thread
    <2> QED
      BY Zenon, <1>31, <1>32, <2>1, <2>2 DEF cam_sync_create_alloc
  <1>33. ASSUME NEW t \in Threads, NEW members \in SUBSET Objs, cam_sync_merge(t, members)
       PROVE  AllocSafe' /\ NodesInUse'
    <2>1. PICK idx \in Objs \ bitmap :
            /\ bitmap' = bitmap \cup {idx}
            /\ Move(t, [thr[t] EXCEPT !.pc = "merge_lock", !.obj = idx,
                                      !.todo = BagOf(members)])
      BY Zenon, <1>33 DEF cam_sync_merge
    <2> DEFINE th == [thr[t] EXCEPT !.pc = "merge_lock", !.obj = idx,
                                    !.todo = BagOf(members)]
    <2>2. th.pc = "merge_lock" /\ th.obj = idx
      BY <1>0 DEF Thread
    <2> QED
      BY Zenon, <1>31, <1>33, <2>1, <2>2 DEF cam_sync_merge
  <1>34. ASSUME NEW t \in Threads, NEW row, thr[t].pc \in Owning, thr[t].obj \in Objs,
                SetRow(thr[t].obj, row), OwnersKept,
                \/ \A u \in Threads, q \in Objs : Owns(u, q)' => u # t
                \/ thr'[t].pc = "merge",
                UNCHANGED <<bitmap, cb, pl>>
       PROVE  AllocSafe' /\ NodesInUse'
    <2> DEFINE g == thr[t].obj
    <2>1. \A q \in Objs : q # g => table'[q] = table[q]
      BY SMTT(60), <1>0, <1>34, SetRowValue
    <2>2. g \in bitmap /\ \A u \in Threads : Owns(u, g) => u = t
      BY SMTT(60), <1>0, <1>34 DEF AllocSafe, Owns
    <2>3. AllocSafe'
      <3>1. bitmap' = bitmap /\ AllocSafe /\ OwnersKept
        BY SMTT(60), <1>0, <1>34
      <3>2. \A q \in Objs : table'[q].state # "INVALID" => q \in bitmap'
        BY <2>1, <2>2, <3>1 DEF AllocSafe
      <3>3. ASSUME NEW u \in Threads, NEW q \in Objs, Owns(u, q)'
            PROVE  /\ q \in bitmap'
                   /\ \A v \in Threads : Owns(v, q)' => v = u
                   /\ thr'[u].pc # "merge" => table'[q].state = "INVALID"
        <4>1. Owns(u, q) /\ thr'[u].pc = thr[u].pc
          BY <3>1, <3>3 DEF OwnersKept
        <4>2. q \in bitmap' /\ \A v \in Threads : Owns(v, q)' => v = u
          BY <3>1, <4>1 DEF AllocSafe, OwnersKept
        <4>3. CASE q # g
          BY SMTT(60), <2>1, <3>1, <4>1, <4>2, <4>3 DEF AllocSafe
        <4>4. CASE q = g
          <5>1. u = t
            BY <2>2, <4>1, <4>4
          <5> QED BY <1>34, <3>3, <4>2, <4>4, <5>1
        <4> QED BY <4>3, <4>4
      <3> QED BY SMTT(60), <3>2, <3>3 DEF AllocSafe
    <2>4. bitmap \subseteq Objs
      BY SMTT(60), <1>0 DEF TypeOK
    <2>5. NodesInUse'
      BY <1>0, <1>34, <2>4 DEF NodesInUse, OwnersKept
    <2> QED BY <2>3, <2>5
  <1>35. ASSUME NEW t \in Threads, cam_sync_create_init(t)
       PROVE  AllocSafe' /\ NodesInUse'
    <2>1. thr[t].pc \in Owning /\ thr[t].obj \in Objs
      BY SMTT(60), <1>0, <1>35 DEF cam_sync_create_init, Busy, Working, Owning
    <2>2. OwnersKept /\ \A u \in Threads, q \in Objs : Owns(u, q)' => u # t
      BY Zenon, <1>0, <1>35, ReturnOwns DEF cam_sync_create_init
    <2> QED
      BY ZenonT(60), <1>34, <1>35, <2>1, <2>2 DEF cam_sync_create_init
  <1>36. ASSUME NEW t \in Threads, MergeDone(t)
       PROVE  AllocSafe' /\ NodesInUse'
    <2>1. thr[t].pc \in Owning /\ thr[t].obj \in Objs
      BY <1>0, <1>36 DEF MergeDone, Busy, Working, Owning
    <2>2. OwnersKept /\ \A u \in Threads, q \in Objs : Owns(u, q)' => u # t
      BY <1>0, <1>36, ReturnOwns DEF MergeDone
    <2> QED
      BY <1>34, <1>36, <2>1, <2>2 DEF MergeDone
  <1>37. ASSUME NEW t \in Threads, NEW o \in Objs, MergeSignaledChild(t, o)
       PROVE  AllocSafe' /\ NodesInUse'
    <2> DEFINE th == [thr[t] EXCEPT !.todo = CleanOne(@, o), !.rest = Add(@, o)]
    <2>1. thr[t].pc \in Owning /\ thr[t].obj \in Objs
      BY <1>0, <1>37 DEF MergeSignaledChild, Busy, Working, Owning
    <2>2. th.pc = thr[t].pc /\ th.obj = thr[t].obj
      BY <1>0 DEF Thread
    <2>3. Move(t, th) /\ thr[t].pc = "merge"
      BY <1>37 DEF MergeSignaledChild
    <2> HIDE DEF th
    <2>4. OwnersKept /\ thr'[t].pc = "merge"
      BY <1>0, <2>2, <2>3, SameOwner, MoveValue
    <2> QED
      BY <1>34, <1>37, <2>1, <2>4 DEF MergeSignaledChild
  <1>38. ASSUME NEW t \in Threads, MergeInit(t)
       PROVE  AllocSafe' /\ NodesInUse'
    <2> DEFINE g == thr[t].obj
    <2>1. thr[t].pc = "merge_lock" /\ g \in Objs /\ Owns(t, g)
      BY <1>0, <1>38 DEF MergeInit, Busy, Working, Owns, Owning
    <2>2. [thr[t] EXCEPT !.pc = "merge"].pc = "merge" /\ [thr[t] EXCEPT !.pc = "merge"].obj = g
      BY <1>0 DEF Thread
    <2>3. /\ thr'[t].pc = "merge" /\ thr'[t].obj = g
          /\ \A u \in Threads : u # t => thr'[u] = thr[u]
      BY Zenon, <1>0, <1>38, <2>2, MoveValue DEF MergeInit
    <2>4. \A q \in Objs : q # g => table'[q] = table[q]
      BY <1>0, <1>38, <2>1, SetRowValue DEF MergeInit
    <2>5. \A u \in Threads, q \in Objs : Owns(u, q)' => Owns(u, q)
      BY <2>1, <2>3 DEF Owns
    <2>6. g \in bitmap /\ \A u \in Threads : Owns(u, g) => u = t
      BY <1>0, <2>1 DEF AllocSafe
    <2>7. AllocSafe'
      BY <1>0, <1>38, <2>3, <2>4, <2>5, <2>6 DEF MergeInit, AllocSafe
    <2>8. bitmap \subseteq Objs
      BY <1>0 DEF TypeOK
    <2>9. NodesInUse'
      BY <1>0, <1>38, <2>1, <2>3, <2>5, <2>8 DEF MergeInit, NodesInUse
    <2> QED BY <2>7, <2>9
  <1>39. ASSUME NEW t \in Threads, MergeFail(t)
       PROVE  AllocSafe' /\ NodesInUse'
    <2> DEFINE g == thr[t].obj
    <2>1. thr[t].pc = "merge_undo" /\ g \in Objs /\ Owns(t, g)
      BY <1>0, <1>39 DEF MergeFail, Busy, Working, Owns, Owning
    <2>2. OwnersKept /\ \A u \in Threads, q \in Objs : Owns(u, q)' => u # t
      BY <1>0, <1>39, ReturnOwns DEF MergeFail
    <2>3. [table[g] EXCEPT !.children = NoBag].state = table[g].state
      BY <1>0, <2>1 DEF Row
    <2>4. \A q \in Objs : table'[q].state = table[q].state
      <3>1. SetRow(g, [table[g] EXCEPT !.children = NoBag])
        BY <1>39 DEF MergeFail
      <3> QED BY ZenonT(60), <1>t, <2>1, <2>3, <3>1, SetRowValue
    <2>5. table[g].state = "INVALID" /\ \A u \in Threads : Owns(u, g) => u = t
      BY <1>0, <2>1 DEF AllocSafe
    <2>6. \A u \in Threads, q \in Objs : Owns(u, q)' => q # g
      BY <2>2, <2>5 DEF OwnersKept
    <2>7. AllocSafe'
      BY SMTT(60), <1>0, <1>39, <2>2, <2>4, <2>5, <2>6 DEF MergeFail, AllocSafe, OwnersKept
    <2>9. /\ \A n \in Cbs : cb[n].where = "listed" => cb[n].obj # g
          /\ \A p \in Pls : pl[p].where = "listed" => pl[p].obj # g
      BY <1>b, <2>1 DEF NodesInUse
    <2>10. NodesInUse'
      BY SMTT(60), <1>b, <1>39, <2>2, <2>9 DEF MergeFail, NodesInUse, OwnersKept
    <2> QED BY <2>7, <2>10
  <1>40. ASSUME NEW t \in Threads, DestroyFree(t)
       PROVE  AllocSafe' /\ NodesInUse'
    <2> DEFINE g == thr[t].obj
    <2>1. thr[t].pc = "destroy" /\ g \in Objs /\ Owns(t, g)
      BY <1>0, <1>40 DEF DestroyFree, Busy, Working, Owns, Owning
    <2>2. OwnersKept /\ \A u \in Threads, q \in Objs : Owns(u, q)' => u # t
      BY ZenonT(60), <1>t, <1>40, ReturnOwns DEF DestroyFree
    <2>3. table'[g].state = "INVALID" /\ \A q \in Objs : q # g => table'[q] = table[q]
      <3>1. SetRow(g, ZeroRow) /\ ZeroRow.state = "INVALID"
        BY ZenonT(60), <1>40 DEF DestroyFree, ZeroRow
      <3> QED BY SMTT(60), <1>t, <2>1, <3>1, SetRowValue
    <2>4. \A u \in Threads : Owns(u, g) => u = t
      BY <1>0, <2>1 DEF AllocSafe
    <2>5. \A u \in Threads, q \in Objs : Owns(u, q)' => q # g
      BY SMTT(60), <2>2, <2>4 DEF OwnersKept
    <2>6. bitmap' = bitmap \ {g} /\ cb' = Drop(cb, g, "free") /\ pl' = Drop(pl, g, "free")
      BY <1>40 DEF DestroyFree
    <2>7. AllocSafe'
      BY ZenonT(60), <1>a, <2>2, <2>3, <2>5, <2>6 DEF AllocSafe, OwnersKept
    <2>8. /\ \A n \in Cbs : cb'[n].where = "listed" => cb'[n] = cb[n] /\ cb[n].obj # g
          /\ \A p \in Pls : pl'[p].where = "listed" => pl'[p] = pl[p] /\ pl[p].obj # g
      <3>1. TypeOK /\ "free" \in {"free", "lost"}
        BY SMTT(60), <1>0
      <3> QED BY <2>6, <3>1, DropLists
    <2>10. NodesInUse'
      BY <1>b, <2>2, <2>6, <2>8 DEF NodesInUse, OwnersKept
    <2> QED BY <2>7, <2>10
  <1>41. ASSUME NEW t \in Threads, NEW o \in Objs,
                NEW ret, DestroyBegin(t, o, ret), thr[t].pc \notin Owning
       PROVE  AllocSafe' /\ NodesInUse'
    <2> DEFINE th == [thr[t] EXCEPT !.pc = "destroy", !.obj = o, !.ret = ret,
                                    !.todo = table[o].children,
                                    !.rest = table[o].parents,
                                    !.scan = @ \ {o}]
    <2> DEFINE row == [table[o] EXCEPT !.state = "INVALID", !.parents = NoBag,
                                       !.children = NoBag]
    <2>1. th.pc = "destroy" /\ th.obj = o /\ row.state = "INVALID"
      BY <1>0 DEF Thread, Row
    <2>2. Move(t, th) /\ SetRow(o, row) /\ UNCHANGED <<bitmap, cb, pl>>
      BY SMTT(60), <1>41 DEF DestroyBegin
    <2> HIDE DEF th, row
    <2>3. thr'[t] = th /\ \A u \in Threads : u # t => thr'[u] = thr[u]
      BY <1>0, <2>2, MoveValue
    <2>4. table'[o].state = "INVALID" /\ \A q \in Objs : q # o => table'[q] = table[q]
      BY <1>0, <2>1, <2>2, SetRowValue
    <2>5. o \in bitmap /\ \A u \in Threads : ~Owns(u, o)
      BY <1>0, <1>41, LiveUnowned DEF DestroyBegin
    <2>6. \A u \in Threads, q \in Objs :
              Owns(u, q)' => (u = t /\ q = o) \/ (u # t /\ Owns(u, q))
      BY SMTT(60), <2>1, <2>3 DEF Owns
    <2>7. AllocSafe'
      <3>1. \A q \in Objs : table[q].state = "INVALID" => table'[q].state = "INVALID"
        BY SMTT(60), <2>4
      <3>2. \A u \in Threads, q \in Objs : Owns(u, q)' =>
                (u = t /\ q = o) \/ (q # o /\ Owns(u, q) /\ thr'[u] = thr[u])
        BY <2>3, <2>5, <2>6
      <3> QED BY <1>a, <2>2, <2>4, <2>5, <3>1, <3>2 DEF AllocSafe
    <2>8. \A q \in bitmap : q \in Objs
      BY SMTT(60), <1>b
    <2>9. NodesInUse'
      <3>1. ASSUME NEW q \in Objs, NEW u \in Threads, Owns(u, q)'
            PROVE  thr'[u].pc = "destroy" \/ (Owns(u, q) /\ thr'[u] = thr[u])
        BY <2>1, <2>3, <2>6, <3>1
      <3>2. ASSUME NEW n \in Cbs, cb[n].where = "listed"
            PROVE  /\ cb[n].obj \in bitmap /\ cb[n].obj \in Objs
                   /\ \A u \in Threads : Owns(u, cb[n].obj) => thr[u].pc = "destroy"
        BY SMTT(60), <1>b, <2>8, <3>2 DEF NodesInUse
      <3>3. ASSUME NEW p \in Pls, pl[p].where = "listed"
            PROVE  /\ pl[p].obj \in bitmap /\ pl[p].obj \in Objs
                   /\ \A u \in Threads : Owns(u, pl[p].obj) => thr[u].pc = "destroy"
        BY SMTT(60), <1>b, <2>8, <3>3 DEF NodesInUse
      <3>4. ASSUME NEW n \in Cbs, cb[n].where = "listed", NEW u \in Threads,
                   Owns(u, cb[n].obj)'
            PROVE  thr'[u].pc = "destroy"
        BY SMTT(60), <2>2, <3>1, <3>2, <3>4
      <3>5. ASSUME NEW p \in Pls, pl[p].where = "listed", NEW u \in Threads,
                   Owns(u, pl[p].obj)'
            PROVE  thr'[u].pc = "destroy"
        BY <2>2, <3>1, <3>3, <3>5
      <3>6. cb' = cb /\ pl' = pl /\ bitmap' = bitmap
        BY <2>2
      <3>7. (\A n \in Cbs : cb[n].where = "listed" =>
                /\ cb[n].obj \in bitmap
                /\ \A u \in Threads : Owns(u, cb[n].obj) => thr[u].pc = "destroy")'
        BY <3>2, <3>4, <3>6
      <3>8. (\A p \in Pls : pl[p].where = "listed" =>
                /\ pl[p].obj \in bitmap
                /\ \A u \in Threads : Owns(u, pl[p].obj) => thr[u].pc = "destroy")'
        BY <3>3, <3>5, <3>6
      <3> QED BY SMTT(60), <3>7, <3>8 DEF NodesInUse
    <2> QED BY <2>7, <2>9
  <1>42. ASSUME NEW t \in Threads, NEW o \in Objs, cam_sync_destroy(t, o)
       PROVE  AllocSafe' /\ NodesInUse'
    BY <1>41, <1>42 DEF cam_sync_destroy, Owning
  <1>43. ASSUME NEW t \in Threads, NEW o \in Objs, CloseDestroy(t, o)
       PROVE  AllocSafe' /\ NodesInUse'
    <2>1. CASE DestroyBegin(t, o, "close_destroy")
      BY SMTT(60), <1>41, <1>43, <2>1 DEF CloseDestroy, Owning
    <2>2. CASE ~DestroyBegin(t, o, "close_destroy")
      <3>1. /\ [thr[t] EXCEPT !.scan = @ \ {o}].pc = thr[t].pc
            /\ [thr[t] EXCEPT !.scan = @ \ {o}].obj = thr[t].obj
        BY <1>0 DEF Thread
      <3>2. OwnersKept /\ UNCHANGED <<bitmap, table, cb, pl>>
        BY ZenonT(60), <1>0, <1>43, <2>2, <3>1, SameOwner DEF CloseDestroy
      <3> QED
        BY <1>0, <3>2, AllocFrame DEF OwnersKept
    <2> QED BY <2>1, <2>2
  <1> QED
    BY ZenonT(60), <1>1, <1>2, <1>3, <1>4, <1>5, <1>6, <1>7, <1>8, <1>9, <1>10, <1>11, <1>12,
       <1>13, <1>14, <1>15, <1>16, <1>17, <1>18, <1>19, <1>20, <1>21, <1>22, <1>23,
       <1>24, <1>25, <1>26, <1>27, <1>28, <1>29, <1>30, <1>32, <1>33, <1>35, <1>36,
       <1>37, <1>38, <1>39, <1>40, <1>42, <1>43
    DEF Next, Client, Continue, cam_sync_signal, cam_sync_init_group_object,
        cam_sync_deinit_object, AllocInv

(* In the initial state no row is in use, no thread is in a call and no     *)
(* node is on a list.                                                       *)
LEMMA AllocInit == Init => AllocInv
  <1> SUFFICES ASSUME Init PROVE AllocInv
    OBVIOUS
  <1>1. TypeInv
    <2>1. TypeOK
      BY StartTypes DEF Init, TypeOK
    <2>2. Busy
      BY DEF Init, Busy, Idle, Working
    <2> QED BY <2>1, <2>2 DEF TypeInv
  <1>2. AllocSafe
    <2>1. \A o \in Objs : table[o].state = "INVALID"
      BY DEF Init, ZeroRow
    <2>2. \A t \in Threads : thr[t].pc = "idle"
      BY DEF Init, Idle
    <2>3. \A t \in Threads, o \in Objs : ~Owns(t, o)
      BY <2>2 DEF Owns, Owning
    <2> QED BY <2>1, <2>3 DEF AllocSafe
  <1>3. NodesInUse
    BY DEF Init, NodesInUse, FreeCb, FreePl
  <1> QED BY <1>1, <1>2, <1>3 DEF AllocInv

(* Whatever the clients do, two calls never work on the same index: an      *)
(* index being created, merged into or destroyed has its bit set and one    *)
(* owner, and a row without its bit is INVALID.                             *)
THEOREM AllocationSafety == Spec => []AllocSafe
  <1>1. Init => AllocInv
    BY AllocInit
  <1>2. AllocInv => AllocSafe
    BY DEF AllocInv
  <1> QED
    BY <1>1, <1>2, AllocStep, PTL DEF Spec

(* Rows and indices stay consistent, whatever the clients of cam_sync do and   *)
(* whichever allocation fails.                                                 *)
THEOREM TableSafety == Spec => []TableSafe
  <1>1. TypeOK /\ AllocSafe => TableSafe
    BY SMTT(60) DEF TableSafe
  <1> QED
    BY <1>1, TypeCorrect, AllocationSafety, PTL

(* Whatever the clients do, a callback or payload on a list is on a row     *)
(* whose bit is set: an index is never handed out with old nodes on it.     *)
THEOREM NodesSafety == Spec => []NodesOnLive
  <1>1. Init => AllocInv
    BY AllocInit
  <1>2. AllocInv => NodesOnLive
    BY DEF AllocInv, NodesInUse, NodesOnLive
  <1> QED
    BY <1>1, <1>2, AllocStep, PTL DEF Spec

============================================================================
