---------------------------- MODULE SlotService ----------------------------
(***************************************************************************)
(* What concurrent serving promises a client, without the GPU, the pool or *)
(* the threads: requests queue in arrival order, the first of the queue is *)
(* taken into a free slot or turned away, one request per slot, and every  *)
(* request that came leaves.                                               *)
(***************************************************************************)
EXTENDS Naturals, SequencesExt

CONSTANTS Req, Slot

VARIABLES queue,      \* waiting requests, first come first served
          running     \* slot -> the set of requests it runs: none or one

Init == queue = <<>> /\ running = [s \in Slot |-> {}]

Waits(r) == \E i \in DOMAIN queue : queue[i] = r
Runs(r)  == \E s \in Slot : r \in running[s]

Come(r) ==
    /\ ~Waits(r) /\ ~Runs(r)
    /\ queue' = Append(queue, r)
    /\ UNCHANGED running

(* A cancelled request may leave from anywhere in the queue.                *)
Abandon(r) ==
    /\ \E i \in DOMAIN queue : queue[i] = r /\ queue' = RemoveAt(queue, i)
    /\ UNCHANGED running

Start(r, s) ==
    /\ queue # <<>> /\ r = Head(queue)
    /\ running[s] = {}
    /\ queue' = Tail(queue)
    /\ running' = [running EXCEPT ![s] = {r}]

Stop(r, s) ==
    /\ running[s] = {r}
    /\ running' = [running EXCEPT ![s] = {}]
    /\ UNCHANGED queue

Next == \E r \in Req :
            Come(r) \/ Abandon(r) \/ \E s \in Slot : Start(r, s) \/ Stop(r, s)

Spec == Init /\ [][Next]_<<queue, running>>
=============================================================================
