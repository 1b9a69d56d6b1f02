------------------------------ MODULE CpasCore ------------------------------
(* The camera platform services, cam_cpas_hw.c and cam_cpastop_hw.c: clients  *)
(* register, start with an AHB and an AXI vote, change the votes and stop;    *)
(* the first start powers the block up, the last stop powers it down; the     *)
(* CAMNOC error interrupt queues a work that reads registers and tells the    *)
(* clients.                                                                   *)
(*                                                                            *)
(* Every operation of a client holds hw_mutex and is one action, but for the  *)
(* last stop: it waits, with the mutex held and for at most a second, until   *)
(* irq_count is zero.  The interrupt takes no mutex; its work does.           *)
EXTENDS Integers, FiniteSets, FiniteSetsExt

CONSTANTS
    CpaClients,
    CpaLevels,    \* AHB levels a client may ask for, above CAM_SUSPEND_VOTE
    CpaBws,       \* AXI bandwidths a client may ask for
    CpaMinBw,     \* CAM_CPAS_AXI_MIN_MNOC_IB_BW
    CpaWorks,     \* bound on queued works
    CpaFaults     \* bound on failing calls

(* Zero, "no client", is not a client; the clients are finitely many.         *)
ASSUME CpaClientsAssumption == IsFiniteSet(CpaClients) /\ 0 \notin CpaClients

VARIABLES
    cpaCl,        \* cpas_client[]: registered, started, ahb_level, axi_vote
    cpaBus,       \* the votes in force: AHB bus and clock level, AXI port
    cpaOn,        \* streamon_clients
    cpaPow,       \* hw_state: resources on, interrupt enabled
    cpaIrq,       \* irq_count
    cpaQ,         \* works queued
    cpaW,         \* works that have counted themselves and wait for hw_mutex
    cpaStop,      \* the client whose stop waits with hw_mutex held, else 0
    cpaDirty,     \* history: a call failed and left votes or power half done
    cpaSkew,      \* history: irq_count was left or set without a work's part
    cpaDark,      \* history: a work touched registers with the power off
    cpaSpent

cpaVars == <<cpaCl, cpaBus, cpaOn, cpaPow, cpaIrq, cpaQ, cpaW, cpaStop, cpaDirty,
             cpaSkew, cpaDark, cpaSpent>>
cpaIrqVars == <<cpaIrq, cpaQ, cpaW, cpaStop, cpaSkew, cpaDark>>

CpaSuspend == 0
CpaNew == [reg |-> FALSE, on |-> FALSE, ahb |-> CpaSuspend, axi |-> 0]
CpaSvs == CHOOSE l \in CpaLevels : \A k \in CpaLevels : l <= k

(* cam_cpas_hw_probe ends with the default votes taken back and the block off.*)
CpaInit ==
    /\ cpaCl = [c \in CpaClients |-> CpaNew]
    /\ cpaBus = [ahb |-> CpaSuspend, clk |-> CpaSuspend, axi |-> 0, noc |-> 0]
    /\ cpaOn = 0 /\ cpaPow = [soc |-> FALSE, irq |-> FALSE] /\ cpaIrq = 0
    /\ cpaQ = 0 /\ cpaW = 0 /\ cpaStop = 0
    /\ cpaDirty = FALSE /\ cpaSkew = FALSE /\ cpaDark = FALSE /\ cpaSpent = 0

CpaFail(w) ==
    /\ w # "ok" => cpaSpent < CpaFaults
    /\ cpaSpent' = IF w = "ok" THEN cpaSpent ELSE cpaSpent + 1

CpaSum(cl, S) == MapThenSumSet(LAMBDA c : cl[c].axi, S)

(* cam_cpas_util_vote_bus_client_bw: a small vote is raised to the minimum.   *)
CpaFloor(bw) == IF bw > 0 /\ bw < CpaMinBw THEN CpaMinBw ELSE bw

(* What a vote works on and answers.                                          *)
CpaVoted(cl, bus, rc, level) == [cl |-> cl, bus |-> bus, rc |-> rc, level |-> level]
CpaTry(cl) == CpaVoted(cl, cpaBus, 0, CpaSvs)

(* cam_cpas_util_apply_client_ahb_vote: the client's level is recorded first; *)
(* the bus and the clock get the highest level of all the clients.            *)
CpaAhbVote(v, c, level, w) ==
    IF v.rc # 0 \/ v.cl[c].ahb = level THEN v
    ELSE LET cl == [v.cl EXCEPT ![c].ahb = level]
             high == Max({cl[k].ahb : k \in CpaClients})
         IN IF level = v.bus.ahb THEN CpaVoted(cl, v.bus, 0, v.level)
            ELSE IF w = "ahb" /\ high # v.bus.ahb THEN CpaVoted(cl, v.bus, -1, v.level)
            ELSE IF w = "clk" THEN CpaVoted(cl, [v.bus EXCEPT !.ahb = high], -1, v.level)
            ELSE CpaVoted(cl, [v.bus EXCEPT !.ahb = high, !.clk = high], 0, high)

(* cam_cpas_util_apply_client_axi_vote: the port gets the sum over its        *)
(* clients, and the CAMNOC clock follows what the port is consolidated to.    *)
CpaAxiVote(v, c, bw, w) ==
    IF v.rc # 0 \/ v.cl[c].axi = bw THEN v
    ELSE LET cl == [v.cl EXCEPT ![c].axi = bw]
             sum == CpaSum(cl, {k \in CpaClients : cl[k].reg})
         IN IF w = "axi" THEN CpaVoted(cl, v.bus, -1, v.level)
            ELSE CpaVoted(cl, [v.bus EXCEPT !.axi = CpaFloor(sum), !.noc = sum], 0, v.level)

(* cam_cpas_hw_register_client and cam_cpas_hw_unregister_client.  A client   *)
(* leaves with the vote it has; nothing is voted anew.                        *)
CpaRegister(c) ==
    /\ cpaStop = 0 /\ ~cpaCl[c].reg
    /\ cpaCl' = [cpaCl EXCEPT ![c].reg = TRUE]
    /\ UNCHANGED <<cpaBus, cpaOn, cpaPow, cpaDirty, cpaSpent>> /\ UNCHANGED cpaIrqVars

CpaUnregister(c) ==
    /\ cpaStop = 0 /\ cpaCl[c].reg /\ ~cpaCl[c].on
    /\ cpaCl' = [cpaCl EXCEPT ![c] = CpaNew]
    /\ UNCHANGED <<cpaBus, cpaOn, cpaPow, cpaDirty, cpaSpent>> /\ UNCHANGED cpaIrqVars

(* cam_cpas_hw_start.  A failure after the votes leaves them; the client is   *)
(* then not started.  The first client sets irq_count to one, whatever it is. *)
CpaStart(c, level, bw) ==
    /\ cpaStop = 0 /\ cpaCl[c].reg /\ ~cpaCl[c].on
    /\ \E w \in {"ok", "ahb", "clk", "axi", "enable"} :
         LET v == CpaAxiVote(CpaAhbVote(CpaTry(cpaCl), c, level, w), c, bw, w)
             first == cpaOn = 0
             bad == v.rc # 0 \/ (first /\ w = "enable")
         IN /\ CpaFail(w) /\ (w # "ok" => bad)
            /\ cpaBus' = IF first /\ ~bad THEN [v.bus EXCEPT !.clk = v.level] ELSE v.bus
            /\ cpaDirty' = (cpaDirty \/ bad)
            /\ cpaCl' = IF bad THEN v.cl ELSE [v.cl EXCEPT ![c].on = TRUE]
            /\ cpaOn' = IF bad THEN cpaOn ELSE cpaOn + 1
            /\ cpaPow' = IF bad THEN cpaPow ELSE [soc |-> TRUE, irq |-> TRUE]
            /\ cpaIrq' = IF first /\ v.rc = 0 THEN (IF bad THEN 0 ELSE 1) ELSE cpaIrq
            /\ cpaSkew' = IF first /\ v.rc = 0 THEN cpaW > 0 ELSE cpaSkew
    /\ UNCHANGED <<cpaQ, cpaW, cpaStop, cpaDark>>

(* cam_cpas_hw_update_ahb_vote and cam_cpas_hw_update_axi_vote; a vote of     *)
(* zero means the default.                                                    *)
CpaUpdateAhb(c, level) ==
    /\ cpaStop = 0 /\ cpaCl[c].on
    /\ \E w \in {"ok", "ahb", "clk"} :
         LET v == CpaAhbVote(CpaTry(cpaCl), c, level, w)
         IN /\ CpaFail(w) /\ (w # "ok" => v.rc # 0)
            /\ cpaCl' = v.cl /\ cpaBus' = v.bus /\ cpaDirty' = (cpaDirty \/ v.rc # 0)
    /\ UNCHANGED <<cpaOn, cpaPow>> /\ UNCHANGED cpaIrqVars

CpaUpdateAxi(c, bw) ==
    /\ cpaStop = 0 /\ cpaCl[c].on
    /\ \E w \in {"ok", "axi"} :
         LET v == CpaAxiVote(CpaTry(cpaCl), c, bw, w)
         IN /\ CpaFail(w) /\ (w # "ok" => v.rc # 0)
            /\ cpaCl' = v.cl /\ cpaBus' = v.bus /\ cpaDirty' = (cpaDirty \/ v.rc # 0)
    /\ UNCHANGED <<cpaOn, cpaPow>> /\ UNCHANGED cpaIrqVars

(* The end of cam_cpas_hw_stop: the votes go back to nothing.                 *)
CpaUnvote(cl, c, w) ==
    LET v == CpaAxiVote(CpaAhbVote(CpaTry(cl), c, CpaSuspend, w), c, 0, w)
    IN /\ (w \in {"ahb", "clk", "axi"} => v.rc # 0)
       /\ cpaCl' = v.cl /\ cpaBus' = v.bus
       /\ cpaDirty' = (cpaDirty \/ v.rc # 0)

(* cam_cpas_hw_stop of a client that is not the last.                         *)
CpaStopOne(c) ==
    /\ cpaStop = 0 /\ cpaCl[c].on /\ cpaOn > 1
    /\ cpaOn' = cpaOn - 1
    /\ \E w \in {"ok", "ahb", "clk", "axi"} :
         CpaFail(w) /\ CpaUnvote([cpaCl EXCEPT ![c].on = FALSE], c, w)
    /\ UNCHANGED cpaPow /\ UNCHANGED cpaIrqVars

(* cam_cpas_hw_stop of the last client up to its wait.  disable_irq waits for *)
(* a running handler.  If it fails, power and votes stay.                     *)
CpaStopLast(c) ==
    /\ cpaStop = 0 /\ cpaCl[c].on /\ cpaOn = 1
    /\ cpaOn' = 0 /\ cpaCl' = [cpaCl EXCEPT ![c].on = FALSE]
    /\ \E w \in {"ok", "irqoff"} :
         /\ CpaFail(w)
         /\ IF w = "ok"
            THEN /\ cpaPow' = [cpaPow EXCEPT !.irq = FALSE]
                 /\ cpaIrq' = cpaIrq - 1 /\ cpaStop' = c /\ UNCHANGED cpaDirty
            ELSE cpaDirty' = TRUE /\ UNCHANGED <<cpaPow, cpaIrq, cpaStop>>
    /\ UNCHANGED <<cpaBus, cpaQ, cpaW, cpaSkew, cpaDark>>

(* The wait is over: the count is zero, or the second has passed (a work that *)
(* counted itself waits for the mutex this stop holds).                       *)
CpaStopEnd ==
    /\ cpaStop # 0
    /\ \E w \in {"ok", "disable", "ahb", "clk", "axi"} :
         /\ CpaFail(w)
         /\ IF w = "disable"
            THEN cpaDirty' = TRUE /\ UNCHANGED <<cpaPow, cpaCl, cpaBus>>
            ELSE /\ cpaPow' = [cpaPow EXCEPT !.soc = FALSE]
                 /\ CpaUnvote(cpaCl, cpaStop, w)
    /\ cpaStop' = 0
    /\ UNCHANGED <<cpaOn, cpaIrq, cpaQ, cpaW, cpaSkew, cpaDark>>

(* cam_cpastop_handle_irq: ignored when irq_count is zero; else it counts     *)
(* itself, queues a work and uncounts itself.                                 *)
CpaIrqHandler ==
    /\ cpaPow.irq /\ cpaIrq # 0 /\ cpaQ + cpaW < CpaWorks
    /\ cpaQ' = cpaQ + 1
    /\ UNCHANGED <<cpaCl, cpaBus, cpaOn, cpaPow, cpaIrq, cpaW, cpaStop, cpaDirty, cpaSkew,
                   cpaDark, cpaSpent>>

(* cam_cpastop_work up to the mutex: atomic_inc_not_zero or give up.          *)
CpaWorkBegin ==
    /\ cpaQ > 0 /\ cpaQ' = cpaQ - 1
    /\ IF cpaIrq = 0 THEN UNCHANGED <<cpaIrq, cpaW>>
       ELSE cpaIrq' = cpaIrq + 1 /\ cpaW' = cpaW + 1
    /\ UNCHANGED <<cpaCl, cpaBus, cpaOn, cpaPow, cpaStop, cpaDirty, cpaSkew, cpaDark,
                   cpaSpent>>

(* Mutant: the work does not look at hw_state.                                *)
CpaWorkRunBlind ==
    /\ cpaW > 0 /\ cpaStop = 0 /\ cpaW' = cpaW - 1
    /\ cpaIrq' = cpaIrq - 1 /\ UNCHANGED cpaSkew
    /\ cpaDark' = (cpaDark \/ ~cpaPow.soc)
    /\ UNCHANGED <<cpaCl, cpaBus, cpaOn, cpaPow, cpaQ, cpaStop, cpaDirty, cpaSpent>>

(* cam_cpastop_work under the mutex: with the power down it returns and does  *)
(* not uncount itself; else it reads registers and tells the started clients. *)
CpaWorkRun ==
    /\ cpaW > 0 /\ cpaStop = 0 /\ cpaW' = cpaW - 1
    /\ IF cpaPow.soc
       THEN /\ cpaIrq' = cpaIrq - 1 /\ UNCHANGED cpaSkew
            /\ cpaDark' = (cpaDark \/ ~cpaPow.soc)
       ELSE cpaSkew' = TRUE /\ UNCHANGED <<cpaIrq, cpaDark>>
    /\ UNCHANGED <<cpaCl, cpaBus, cpaOn, cpaPow, cpaQ, cpaStop, cpaDirty, cpaSpent>>

CpaNext ==
    \/ \E c \in CpaClients :
         \/ CpaRegister(c) \/ CpaUnregister(c) \/ CpaStopOne(c) \/ CpaStopLast(c)
         \/ \E l \in CpaLevels, b \in CpaBws : CpaStart(c, l, b)
         \/ \E l \in CpaLevels : CpaUpdateAhb(c, l)
         \/ \E b \in CpaBws : CpaUpdateAxi(c, b)
    \/ CpaStopEnd \/ CpaIrqHandler \/ CpaWorkBegin \/ CpaWorkRun

CpaSpec == CpaInit /\ [][CpaNext]_cpaVars

(* Until a call fails, the AHB bus is voted to exactly the highest level any  *)
(* client asks for, through any order of starts, updates and stops, although  *)
(* a vote equal to the level in force votes nothing; and while the block is   *)
(* on its clock runs at that level.                                           *)
CpaHighest ==
    ~cpaDirty =>
        /\ cpaBus.ahb = Max({cpaCl[c].ahb : c \in CpaClients})
        /\ cpaPow.soc => cpaBus.clk = cpaBus.ahb
        /\ \A c \in CpaClients : ~cpaCl[c].on /\ cpaStop # c => cpaCl[c].ahb = CpaSuspend

(* Until a call fails, the AXI port is voted to the sum of its clients'       *)
(* bandwidths, raised to the minimum, and the CAMNOC clock to the same sum;   *)
(* with no client started both are zero.                                      *)
CpaTotal ==
    ~cpaDirty =>
        LET sum == CpaSum(cpaCl, {c \in CpaClients : cpaCl[c].on \/ cpaStop = c})
        IN cpaBus.axi = CpaFloor(sum) /\ cpaBus.noc = sum

(* The count of started clients is right whatever fails, the block is on      *)
(* while a client is started, and, until a call fails, only then or while its *)
(* last stop waits.                                                           *)
CpaPowered ==
    /\ cpaOn = Cardinality({c \in CpaClients : cpaCl[c].on})
    /\ cpaOn > 0 => cpaPow.soc
    /\ ~cpaDirty /\ cpaPow.soc => cpaOn > 0 \/ cpaStop # 0

(* irq_count is one for the powered block and one for each work that waits,   *)
(* so that an interrupt is heard while the block is on and stop waits for     *)
(* what is under way; unless a work met the power down and did not uncount    *)
(* itself, or the count was set to one while a work waited.                   *)
CpaCounted ==
    ~cpaSkew /\ ~cpaDirty =>
        cpaIrq = cpaW + (IF cpaOn > 0 THEN 1 ELSE 0)

(* A work that was queued before the last stop and runs after it never        *)
(* touches registers of the unpowered block.                                  *)
CpaNeverDark == ~cpaDark

\* The votes in force are the highest and the sum of those of the clients, the block
\* is powered for every started client, and its interrupt work never touches a dark
\* block.
CpaSafe ==
    /\ CpaHighest /\ CpaTotal /\ CpaPowered /\ CpaCounted /\ CpaNeverDark
==============================================================================
