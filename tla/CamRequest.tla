------------------------------ MODULE CamRequest ------------------------------
(***************************************************************************)
(* What a device context promises of the requests submitted to it, without  *)
(* lists, threads or locks: a request is refused, or accepted and answered    *)
(* once; accepted requests are run in some order and completed in that same   *)
(* order, and until then any of them may be withdrawn and answered by an error. *)
(***************************************************************************)
EXTENDS Naturals, Sequences

CONSTANT Ids

VARIABLES st,     \* where each request is in its life
          queue   \* the requests being run, oldest first

reqVars == <<st, queue>>

Init == st = [id \in Ids |-> "none"] /\ queue = <<>>

Accept(id) ==
    /\ st[id] = "none"
    /\ st' = [st EXCEPT ![id] = "accepted"]
    /\ UNCHANGED queue

Refuse(id) ==
    /\ st[id] \in {"none", "accepted"}
    /\ st' = [st EXCEPT ![id] = "refused"]
    /\ UNCHANGED queue

Run(id) ==
    /\ st[id] = "accepted"
    /\ st' = [st EXCEPT ![id] = "running"]
    /\ queue' = Append(queue, id)

\* Only the oldest is completed.
Complete(answer) ==
    /\ queue # <<>>
    /\ st' = [st EXCEPT ![Head(queue)] = answer]
    /\ queue' = Tail(queue)

\* A set of requests is taken back; the others keep their order.
Withdraw(S) ==
    LET Stays(id) == id \notin S
    IN  /\ \A id \in S : st[id] \in {"accepted", "running"}
        /\ st' = [id \in Ids |-> IF id \in S THEN "withdrawn" ELSE st[id]]
        /\ queue' = SelectSeq(queue, Stays)

Cancel(id) ==
    /\ st[id] \in {"accepted", "withdrawn"}
    /\ st' = [st EXCEPT ![id] = "error"]
    /\ UNCHANGED queue

Next ==
    \/ \E id \in Ids : Accept(id) \/ Refuse(id) \/ Run(id) \/ Cancel(id)
    \/ \E answer \in {"success", "error"} : Complete(answer)
    \/ \E S \in SUBSET Ids : Withdraw(S)

Spec == Init /\ [][Next]_reqVars
=============================================================================
