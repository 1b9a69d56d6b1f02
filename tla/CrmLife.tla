------------------------------- MODULE CrmLife -------------------------------
(***************************************************************************)
(* Sessions, links and handles of the request manager                      *)
(* (drivers/cam_req_mgr/cam_req_mgr_{core,util,dev,timer}.c): the handle   *)
(* table with its random bytes, the pool of links inside a session, the    *)
(* devices a link connects, sync pairs, watchdogs, and the last close of   *)
(* the node.  Every ioctl holds crm_lock and is one step; what callbacks   *)
(* and tasks meet while a link is torn down is in CrmTear.                 *)
(* A handle is <<type, random byte, index>>.  Devices stand for the        *)
(* drivers that call cam_create_device_hdl; they refuse to be released     *)
(* while they have a link, as the sensor does.                             *)
(***************************************************************************)
EXTENDS Integers, FiniteSets

CONSTANTS CrlDevs, CrlDelay,  \* devices, and the pipeline delay of each
          CrlSess,      \* bound: sessions at a time
          CrlN,         \* MAXIMUM_LINKS_PER_SESSION
          CrlHdls,      \* possible values of CAM_REQ_MGR_MAX_HANDLES
          CrlRnd,       \* values of the random byte of a link handle (0 in the other handles)
          CrlOpens, CrlCalls, CrlLinks, CrlAcqs,   \* bounds on calls: open; create and sync; link; acquire
          CrlFaults     \* bound on allocations that fail

VARIABLES crlOpen,      \* open_cnt
          crlTbl,       \* hdl_tbl
          crlSes,       \* the sessions
          crlDev,       \* crlDev[d]: its handle and its link handle, 0 when none
          crlG          \* budgets and history

crlVars == <<crlOpen, crlTbl, crlSes, crlDev, crlG>>
CrlSlots == 1 .. CrlN

\* hdl_tbl->hdl[i]: HDL_FREE
CrlFree == [on |-> FALSE, val |-> <<"none", 0, 0>>, ref |-> <<"none", 0, 0>>]

\* a link of links_init before it is used
CrlBlank == [st |-> "avail", hdl |-> CrlFree.val, devs |-> {}, delay |-> 0, sync |-> 0,
             inq |-> FALSE, wq |-> FALSE, dog |-> FALSE, master |-> FALSE]

\* a session as cam_req_mgr_create_session makes it
CrlNew == [live |-> FALSE, hdl |-> CrlFree.val, num |-> 0,
           links |-> [k \in CrlSlots |-> 0],       \* links[k]: the index in links_init, 0 for NULL
           used |-> [k \in CrlSlots |-> FALSE],
           lnk |-> [k \in CrlSlots |-> CrlBlank]]

\* cam_req_mgr_util_init, cam_req_mgr_core_device_init
CrlInit ==
    /\ crlOpen = 0
    /\ \E n \in CrlHdls : crlTbl = [i \in 1 .. n |-> CrlFree]
    /\ crlSes = [s \in 1 .. CrlSess |-> CrlNew]
    /\ crlDev = [d \in CrlDevs |-> [hdl |-> CrlFree.val, link |-> CrlFree.val]]
    /\ crlG = [opens |-> 0, calls |-> 0, links |-> 0, acqs |-> 0, faults |-> 0,
               given |-> {},      \* handles the callers hold, with what they stand for
               old |-> {},        \* link handles that were destroyed
               gap |-> {},        \* sessions with a link marked used that no entry of links[] names
               half |-> {}]       \* devices a failed link left connected

\* cam_get_free_handle_index, GET_DEV_HANDLE: the table with a new handle, for a random byte r
CrlRoom(t) == \E i \in DOMAIN t : ~t[i].on
CrlCreate(t, typ, r, ref) ==
    LET i == CHOOSE j \in DOMAIN t : ~t[j].on /\ \A k \in 1 .. j - 1 : t[k].on
        h == <<typ, r, i>>
    IN [tbl |-> [t EXCEPT ![i] = [on |-> TRUE, val |-> h, ref |-> ref]], hdl |-> h]

\* cam_get_device_priv: CrlFree.ref for NULL
CrlPriv(t, h) ==
    IF h[3] \in DOMAIN t /\ t[h[3]].on /\ t[h[3]].val = h THEN t[h[3]].ref ELSE CrlFree.ref

\* cam_destroy_hdl
CrlDestroy(t, h) ==
    IF CrlPriv(t, h) # CrlFree.ref THEN [t EXCEPT ![h[3]] = CrlFree] ELSE t

\* __cam_req_mgr_reserve_link: i is 0 when there is none
CrlReserve(S, alloc) ==
    LET free == {i \in CrlSlots : ~S.used[i]}
        i == CHOOSE a \in free : \A b \in free : a <= b
        slot == CHOOSE k \in CrlSlots : S.links[k] = 0 /\ \A b \in 1 .. k - 1 : S.links[b] # 0
        L == [S.lnk[i] EXCEPT !.st = "idle", !.devs = {}, !.delay = 0, !.sync = 0, !.inq = TRUE]
    IN IF S.num >= CrlN \/ free = {} THEN [s |-> S, i |-> 0]
       ELSE IF ~alloc THEN [s |-> [S EXCEPT !.used[i] = TRUE], i |-> 0]
       ELSE [s |-> [S EXCEPT !.used[i] = TRUE, !.lnk[i] = L, !.links[slot] = i, !.num = @ + 1],
             i |-> i]

\* Mutant: the partner is not told
CrlUnreserveMutant(S, i) ==
    LET at == {k \in CrlSlots : S.links[k] = i}
    IN IF S.num = 0 THEN S
       ELSE [S EXCEPT !.links = [k \in CrlSlots |-> IF k \in at THEN 0 ELSE @[k]],
                      !.used = [k \in CrlSlots |-> IF k \in at THEN FALSE ELSE @[k]],
                      !.num = @ - 1,
                      !.lnk[i] = [@ EXCEPT !.sync = 0, !.inq = FALSE]]

\* __cam_req_mgr_unreserve_link: is_used is cleared at the position in links[], which is the link's
\* own as long as the two arrays go together
CrlUnreserve(S, i) ==
    LET at == {k \in CrlSlots : S.links[k] = i}
        j == S.lnk[i].sync
        named == j # 0 /\ \E k \in CrlSlots : S.links[k] = j
    IN IF S.num = 0 THEN S
       ELSE [S EXCEPT !.links = [k \in CrlSlots |-> IF k \in at THEN 0 ELSE @[k]],
                      !.used = [k \in CrlSlots |-> IF k \in at THEN FALSE ELSE @[k]],
                      !.num = @ - 1,
                      !.lnk = [k \in CrlSlots |->
                                 IF k = i THEN [@[k] EXCEPT !.sync = 0, !.inq = FALSE]
                                 ELSE IF named /\ k = j THEN [@[k] EXCEPT !.sync = 0] ELSE @[k]]]

\* __cam_req_mgr_disconnect_link: link_setup of the devices whose handles still resolve
CrlDisconnect(t, dev, L) ==
    [d \in CrlDevs |-> IF dev[d].hdl \in L.devs /\ CrlPriv(t, dev[d].hdl) = <<"dev", d, 0>>
                       THEN [dev[d] EXCEPT !.link = CrlFree.val] ELSE dev[d]]

\* __cam_req_mgr_unlink after the devices: timer, work queue, tables, handle
CrlTorn(t, L) ==
    [L EXCEPT !.st = "idle", !.dog = FALSE, !.wq = FALSE, !.devs = {}, !.delay = 0,
              !.hdl = IF CrlPriv(t, @) # CrlFree.ref THEN CrlFree.val ELSE @]

\* crm_timer_init, crm_timer_exit on the links of a link_control
CrlDogs(S, is, on) == [S EXCEPT !.lnk = [k \in CrlSlots |->
                          IF k \in is THEN [@[k] EXCEPT !.dog = on] ELSE @[k]]]

----------------------------------------------------------------------------
\* cam_req_mgr_open; memory manager that does not come up: the count is taken back
CrlOpenNode ==
    /\ crlG.opens < CrlOpens
    /\ crlOpen' = crlOpen + 1
    /\ crlG' = [crlG EXCEPT !.opens = @ + 1]
    /\ UNCHANGED <<crlTbl, crlSes, crlDev>>

\* cam_req_mgr_create_session
CrlCreateSession(s) ==
    LET new == CrlCreate(crlTbl, "ses", 0, <<"ses", s, 0>>)
    IN /\ crlOpen > 0 /\ crlG.calls < CrlCalls
       /\ ~crlSes[s].live /\ \A q \in 1 .. s - 1 : crlSes[q].live
       /\ CrlRoom(crlTbl)
       /\ crlTbl' = new.tbl
       /\ crlSes' = [crlSes EXCEPT ![s] = [CrlNew EXCEPT !.live = TRUE, !.hdl = new.hdl]]
       /\ crlG' = [crlG EXCEPT !.calls = @ + 1, !.given = @ \cup {<<new.hdl, <<"ses", s, 0>>>>}]
       /\ UNCHANGED <<crlOpen, crlDev>>

\* a driver acquires: cam_create_device_hdl
CrlAcquire(d) ==
    LET new == CrlCreate(crlTbl, "dev", 0, <<"dev", d, 0>>)
    IN /\ crlOpen > 0 /\ crlG.acqs < CrlAcqs /\ crlDev[d].hdl = CrlFree.val
       /\ CrlRoom(crlTbl)
       /\ crlTbl' = new.tbl
       /\ crlDev' = [crlDev EXCEPT ![d].hdl = new.hdl]
       /\ crlG' = [crlG EXCEPT !.acqs = @ + 1, !.given = @ \cup {<<new.hdl, <<"dev", d, 0>>>>}]
       /\ UNCHANGED <<crlOpen, crlSes>>

\* a driver releases: cam_destroy_device_hdl
CrlRelease(d) ==
    /\ crlDev[d].hdl # CrlFree.val /\ crlDev[d].link = CrlFree.val
    /\ crlTbl' = CrlDestroy(crlTbl, crlDev[d].hdl)
    /\ crlDev' = [crlDev EXCEPT ![d].hdl = CrlFree.val]
    /\ crlG' = [crlG EXCEPT !.given = {x \in @ : x[1] # crlDev[d].hdl}]
    /\ UNCHANGED <<crlOpen, crlSes>>

\* __cam_req_mgr_setup_link_info: the devices connected, all of D or the ones before a table that
\* could not be allocated
CrlSetup(dev, D, h) == [d \in CrlDevs |-> IF d \in D THEN [dev[d] EXCEPT !.link = h] ELSE dev[d]]

\* an application links devices that have no link, or whose link failed
CrlIdle(d) == crlDev[d].link # CrlFree.val => d \in crlG.half

\* cam_req_mgr_link, cam_req_mgr_link_v2 with no failure: devices D
CrlLink(s, D, r) ==
    LET res == CrlReserve(crlSes[s], TRUE)
        i == res.i
        new == CrlCreate(crlTbl, "dev", r, <<"link", s, i>>)
        L == [res.s.lnk[i] EXCEPT !.hdl = new.hdl, !.st = "ready", !.wq = TRUE,
                                  !.devs = {crlDev[d].hdl : d \in D},
                                  !.delay = CHOOSE n \in {CrlDelay[d] : d \in D} :
                                              \A d \in D : CrlDelay[d] <= n]
    IN /\ crlOpen > 0 /\ crlG.links < CrlLinks /\ crlSes[s].live
       /\ \A d \in D : crlDev[d].hdl # CrlFree.val /\ CrlIdle(d)
       /\ i # 0 /\ CrlRoom(crlTbl)
       /\ crlTbl' = new.tbl
       /\ crlSes' = [crlSes EXCEPT ![s] = [res.s EXCEPT !.lnk[i] = L]]
       /\ crlDev' = CrlSetup(crlDev, D, new.hdl)
       /\ crlG' = [crlG EXCEPT !.links = @ + 1, !.old = @ \ {new.hdl}, !.half = @ \ D,
                               !.given = @ \cup {<<new.hdl, <<"link", s, i>>>>}]
       /\ UNCHANGED crlOpen

\* cam_req_mgr_link that fails: no in_q; no room in the table; or, with the handle made and given
\* back, after the devices E were connected (no table, work queue or payload)
CrlLinkFails(s, D, E, r, why) ==
    LET res == CrlReserve(crlSes[s], why # "inq")
        i == res.i
        h == CrlCreate(crlTbl, "dev", r, <<"link", s, i>>).hdl
    IN /\ crlOpen > 0 /\ crlG.links < CrlLinks /\ crlSes[s].live /\ E \subseteq D
       /\ \A d \in D : crlDev[d].hdl # CrlFree.val /\ CrlIdle(d)
       /\ IF why = "hdl" THEN i # 0 /\ ~CrlRoom(crlTbl) /\ E = {}
          ELSE /\ crlG.faults < CrlFaults
               /\ why = "inq" => i = 0 /\ E = {} /\ crlSes[s].used # res.s.used
               /\ why = "late" => i # 0 /\ CrlRoom(crlTbl)
       /\ crlSes' = [crlSes EXCEPT ![s] = IF i = 0 THEN res.s ELSE CrlUnreserve(res.s, i)]
       /\ crlDev' = CrlSetup(crlDev, E, h)
       /\ crlG' = [crlG EXCEPT !.links = @ + 1, !.gap = IF why = "inq" THEN @ \cup {s} ELSE @, !.half = @ \cup E,
                               !.faults = @ + (IF why = "hdl" THEN 0 ELSE 1)]
       /\ UNCHANGED <<crlOpen, crlTbl>>

\* cam_req_mgr_unlink, with a handle that may be stale
CrlUnlink(h) ==
    LET p == CrlPriv(crlTbl, h)
        s == p[2]
        L == crlSes[s].lnk[p[3]]
        torn == [crlSes[s] EXCEPT !.lnk[p[3]] = CrlTorn(crlTbl, L)]
    IN /\ crlOpen > 0 /\ p[1] = "link"
       /\ crlDev' = CrlDisconnect(crlTbl, crlDev, L)
       /\ crlTbl' = CrlDestroy(crlTbl, L.hdl)
       /\ crlSes' = [crlSes EXCEPT ![s] = CrlUnreserve(torn, p[3])]
       /\ crlG' = [crlG EXCEPT !.given = {x \in @ : x[1] # h}, !.old = @ \cup {h}]
       /\ UNCHANGED crlOpen

\* the session, its links and their handles taken apart
CrlGone(w, s) ==
    LET S == w.ses[s]
        at == {S.links[k] : k \in {j \in CrlSlots : S.links[j] # 0}}
        hs == {S.lnk[i].hdl : i \in at} \cup {S.hdl}
    IN [tbl |-> [i \in DOMAIN w.tbl |-> IF w.tbl[i].on /\ w.tbl[i].val \in hs THEN CrlFree ELSE w.tbl[i]],
        dev |-> [d \in CrlDevs |->
                   IF \E i \in at : CrlDisconnect(w.tbl, w.dev, S.lnk[i])[d] # w.dev[d]
                   THEN [w.dev[d] EXCEPT !.link = CrlFree.val] ELSE w.dev[d]],
        ses |-> [w.ses EXCEPT ![s] = CrlNew]]

\* cam_req_mgr_destroy_session
CrlDestroySession(s) ==
    LET w == CrlGone([tbl |-> crlTbl, dev |-> crlDev, ses |-> crlSes], s)
    IN /\ crlOpen > 0 /\ crlSes[s].live
       /\ crlTbl' = w.tbl /\ crlDev' = w.dev /\ crlSes' = w.ses
       /\ crlG' = [crlG EXCEPT !.given = {x \in @ : x[2][2] # s \/ x[2][1] = "dev"}, !.gap = @ \ {s}]
       /\ UNCHANGED crlOpen

\* cam_req_mgr_sync_config on two links of a session; __cam_req_mgr_set_master_link
CrlSyncConfig(s, i, j, on) ==
    LET S == crlSes[s]
        m(a, b) == on /\ S.lnk[a].delay > S.lnk[b].delay
    IN /\ crlOpen > 0 /\ crlG.calls < CrlCalls /\ S.live /\ i # j
       /\ \E a, b \in CrlSlots : S.links[a] = i /\ S.links[b] = j
       /\ crlSes' = [crlSes EXCEPT ![s].lnk[i].sync = IF on THEN j ELSE 0,
                                   ![s].lnk[j].sync = IF on THEN i ELSE 0,
                                   ![s].lnk[i].master = m(i, j), ![s].lnk[j].master = m(j, i)]
       /\ crlG' = [crlG EXCEPT !.calls = @ + 1]
       /\ UNCHANGED <<crlOpen, crlTbl, crlDev>>

\* cam_req_mgr_link_control: activate or deactivate a link
CrlLinkControl(s, i, on) ==
    /\ crlOpen > 0 /\ crlSes[s].live /\ \E k \in CrlSlots : crlSes[s].links[k] = i
    /\ crlSes' = [crlSes EXCEPT ![s] = CrlDogs(@, {i}, on)]
    /\ UNCHANGED <<crlOpen, crlTbl, crlDev, crlG>>

\* cam_req_mgr_handle_core_shutdown: every session on the list
CrlShutdown(ses) == [s \in DOMAIN ses |-> CrlNew]

\* cam_req_mgr_close: the last one ends the sessions, closes the subdevices (which release), and
\* frees all handles
CrlClose ==
    LET last == crlOpen = 1
    IN /\ crlOpen > 0
       /\ crlOpen' = crlOpen - 1
       /\ crlSes' = IF last THEN CrlShutdown(crlSes) ELSE crlSes
       /\ crlTbl' = IF last THEN [i \in DOMAIN crlTbl |-> CrlFree] ELSE crlTbl
       /\ crlDev' = IF last THEN [d \in CrlDevs |-> [hdl |-> CrlFree.val, link |-> CrlFree.val]]
                    ELSE crlDev
       /\ crlG' = IF last THEN [crlG EXCEPT !.given = {}, !.old = {}, !.gap = {}, !.half = {}]
                  ELSE crlG

CrlNext ==
    \/ CrlOpenNode
    \/ \E s \in 1 .. CrlSess : CrlCreateSession(s)
    \/ \E d \in CrlDevs : CrlAcquire(d) \/ CrlRelease(d)
    \/ \E s \in 1 .. CrlSess, D \in SUBSET CrlDevs \ {{}}, r \in CrlRnd : CrlLink(s, D, r)
    \/ \E s \in 1 .. CrlSess, D \in SUBSET CrlDevs \ {{}}, E \in SUBSET CrlDevs,
          r \in CrlRnd, why \in {"inq", "hdl", "late"} : CrlLinkFails(s, D, E, r, why)
    \/ \E h \in crlG.old \cup {x[1] : x \in crlG.given} : CrlUnlink(h)
    \/ \E s \in 1 .. CrlSess : CrlDestroySession(s)
    \/ \E s \in 1 .. CrlSess, i, j \in CrlSlots, on \in BOOLEAN : CrlSyncConfig(s, i, j, on)
    \/ \E s \in 1 .. CrlSess, i \in CrlSlots, on \in BOOLEAN : CrlLinkControl(s, i, on)
    \/ CrlClose

CrlSpec == CrlInit /\ [][CrlNext]_crlVars

----------------------------------------------------------------------------
\* the links of a session that links[] names
CrlLive(s) == {i \in CrlSlots : \E k \in CrlSlots : crlSes[s].links[k] = i}

\* A handle resolves exactly as long as its owner holds it, and to the object it was made for,
\* whatever slots of the table have been reused since.  A kzalloc failure that left a gap in the
\* pool is excepted: two handles may then name one link.
CrlHandles ==
    crlG.gap # {} \/ {<<crlTbl[i].val, crlTbl[i].ref>> : i \in {j \in DOMAIN crlTbl : crlTbl[j].on}} = crlG.given

\* is_used, links[] and num_links tell the same story, link by link.
CrlPool ==
    \A s \in 1 .. CrlSess \ crlG.gap :
        /\ \A k \in CrlSlots : crlSes[s].links[k] \in {0, k}
        /\ \A k \in CrlSlots : crlSes[s].used[k] <=> crlSes[s].links[k] = k
        /\ crlSes[s].num = Cardinality(CrlLive(s))

\* A device has a link handle exactly while a link that lists it has this handle; a device that a
\* failed link left connected (its link_setup is never undone) is excepted.
CrlConnected ==
    \A d \in CrlDevs \ crlG.half : crlG.gap # {} \/
        IF crlDev[d].link = CrlFree.val
        THEN \A s \in 1 .. CrlSess : \A i \in CrlLive(s) :
                crlDev[d].hdl = CrlFree.val \/ crlDev[d].hdl \notin crlSes[s].lnk[i].devs
        ELSE \E s \in 1 .. CrlSess : \E i \in CrlLive(s) :
                crlDev[d].link = crlSes[s].lnk[i].hdl /\ crlDev[d].hdl \in crlSes[s].lnk[i].devs

\* Sync partners name each other, both are links of the session, and at most one is the master.
CrlSyncMutual ==
    \A s \in 1 .. CrlSess \ crlG.gap : \A i \in CrlLive(s) :
        LET j == crlSes[s].lnk[i].sync
        IN j # 0 => /\ j \in CrlLive(s) /\ crlSes[s].lnk[j].sync = i
                    /\ ~(crlSes[s].lnk[i].master /\ crlSes[s].lnk[j].master)

\* A link that is back in the pool has kept no watchdog, work queue, device or queue of requests,
\* so that the next link in its place starts afresh.
CrlNoOrphan ==
    \A s \in 1 .. CrlSess \ crlG.gap : \A i \in CrlSlots \ CrlLive(s) :
        LET L == crlSes[s].lnk[i] IN ~L.dog /\ ~L.wq /\ ~L.inq /\ L.devs = {}

\* After the last close no session, handle or connection is left.
CrlClean ==
    crlOpen = 0 => /\ \A s \in 1 .. CrlSess : ~crlSes[s].live
                   /\ \A i \in DOMAIN crlTbl : ~crlTbl[i].on

\* Handles, sessions, links and devices name each other consistently, also after
\* failures and with stale handles.
CrlSafe ==
    /\ CrlHandles /\ CrlPool /\ CrlConnected /\ CrlSyncMutual /\ CrlNoOrphan
    /\ CrlClean
=============================================================================
