--------------------------- MODULE RequestService ---------------------------
(***************************************************************************)
(* What the driver promises the CAM layers that enqueue requests: it takes *)
(* them in the order they came, has one in progress at a time, forgets     *)
(* none and answers each once.  The SIM queue keeps the order, mmc_start_  *)
(* ccb() and mmc_process_interrupt() the rest (module MmcRequest).         *)
(***************************************************************************)
EXTENDS Sequences

CONSTANT Requests

VARIABLES status, queue

Init == status = [r \in Requests |-> "new"] /\ queue = <<>>

Becomes(r, s) == status' = [status EXCEPT ![r] = s]

Submit(r) == status[r] = "new" /\ Becomes(r, "queued") /\ queue' = Append(queue, r)

\* The next request is started, or answered at once.
Take ==
    /\ \A r \in Requests : status[r] # "active"
    /\ queue # <<>> /\ queue' = Tail(queue)
    /\ status[Head(queue)] = "queued"
    /\ \E s \in {"active", "cmp", "err"} : Becomes(Head(queue), s)

Answer(r) ==
    /\ status[r] = "active" /\ UNCHANGED queue
    /\ \E s \in {"cmp", "err"} : Becomes(r, s)

Next == Take \/ \E r \in Requests : Submit(r) \/ Answer(r)

SafeSpec == Init /\ [][Next]_<<status, queue>>
=============================================================================
