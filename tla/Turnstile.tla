----------------------------- MODULE Turnstile -----------------------------
(***************************************************************************)
(* struct Turnstile of parts/51_host_cfg.inc: the FIFO ticket lock around  *)
(* the single-threaded GpuModel.  One mutex, one condition variable, two   *)
(* counters.  Every step below is one critical section of `mu`, except     *)
(* Notify, which the code performs after it unlocked.                      *)
(***************************************************************************)
EXTENDS Naturals, FiniteSets, Sequences

CONSTANTS Thread,      \* worker threads
          MaxTickets   \* bound: tickets handed out in a behaviour

ASSUME ThreadAssumption == MaxTickets \in Nat

VARIABLES next,        \* next ticket to hand out
          serving,     \* ticket that owns the GPU
          ticket,      \* each thread's ticket (its local t in acquire)
          pc           \* where each thread is

vars == <<next, serving, ticket, pc>>

PC == {"out", "asleep", "awake", "own", "notify"}

Init ==
    /\ next = 0
    /\ serving = 0
    /\ ticket = [t \in Thread |-> 0]
    /\ pc = [t \in Thread |-> "out"]

(* Variant: the ticket is read, next is not advanced.                       *)
AcquireSameTicket(t) ==
    /\ pc[t] = "out"
    /\ next < MaxTickets
    /\ ticket' = [ticket EXCEPT ![t] = next]
    /\ pc' = [pc EXCEPT ![t] = IF serving = next THEN "own" ELSE "asleep"]
    /\ UNCHANGED <<next, serving>>

(* acquire: take a ticket and test the predicate, all under mu; cv.wait     *)
(* gives mu up and sleeps in one step when the test fails.                  *)
Acquire(t) ==
    /\ pc[t] = "out"
    /\ next < MaxTickets
    /\ ticket' = [ticket EXCEPT ![t] = next]
    /\ next' = next + 1
    /\ pc' = [pc EXCEPT ![t] = IF serving = next THEN "own" ELSE "asleep"]
    /\ UNCHANGED serving

(* Variant: a wait without its predicate.                                   *)
RecheckNothing(t) ==
    /\ pc[t] = "awake"
    /\ pc' = [pc EXCEPT ![t] = "own"]
    /\ UNCHANGED <<next, serving, ticket>>

(* A woken thread tests the predicate again under mu.                       *)
Recheck(t) ==
    /\ pc[t] = "awake"
    /\ pc' = [pc EXCEPT ![t] = IF serving = ticket[t] THEN "own" ELSE "asleep"]
    /\ UNCHANGED <<next, serving, ticket>>

(* release: serving++ under mu ...                                          *)
Release(t) ==
    /\ pc[t] = "own"
    /\ serving' = serving + 1
    /\ pc' = [pc EXCEPT ![t] = "notify"]
    /\ UNCHANGED <<next, ticket>>

(* Variant: notify_one.                                                     *)
NotifyOne(t) ==
    /\ pc[t] = "notify"
    /\ LET asleep == {u \in Thread : pc[u] = "asleep"}
       IN  IF asleep = {} THEN pc' = [pc EXCEPT ![t] = "out"]
           ELSE \E u \in asleep : pc' = [pc EXCEPT ![t] = "out", ![u] = "awake"]
    /\ UNCHANGED <<next, serving, ticket>>

(* ... then notify_all, mu released: everyone asleep at this moment wakes.  *)
Notify(t) ==
    /\ pc[t] = "notify"
    /\ pc' = [u \in Thread |-> IF u = t THEN "out"
                               ELSE IF pc[u] = "asleep" THEN "awake" ELSE pc[u]]
    /\ UNCHANGED <<next, serving, ticket>>

(* Variant: the owner counts itself.                                        *)
ContendedBySelf == next - serving > 0
(* contended(): what the owner reads to decide whether to yield.            *)
Contended == next - serving > 1

Next == \E t \in Thread : Acquire(t) \/ Recheck(t) \/ Release(t) \/ Notify(t)

(* A thread scheduled by the operating system leaves the lock's code; the   *)
(* work an owner does under the lock is finite, so it releases.  Nobody has *)
(* to ask for the lock.                                                     *)
Fairness == \A t \in Thread : WF_vars(Recheck(t)) /\ WF_vars(Release(t)) /\ WF_vars(Notify(t))

Spec == Init /\ [][Next]_vars
FairSpec == Spec /\ Fairness
-----------------------------------------------------------------------------
TypeOK ==
    /\ next \in Nat
    /\ serving \in Nat
    /\ ticket \in [Thread -> Nat]
    /\ pc \in [Thread -> PC]

(* Threads that hold a ticket not served to its end.                        *)
Queued == {t \in Thread : pc[t] \in {"asleep", "awake", "own"}}

(* The GPU has at most one owner: GpuModel itself has no lock and its       *)
(* buffers are shared by all slots.                                         *)
MutualExclusion ==
    \A t, u \in Thread : pc[t] = "own" /\ pc[u] = "own" => t = u

(* The tickets outstanding are exactly serving .. next-1, one thread each.  *)
(* It is what makes the FIFO order mean something: no ticket is skipped or  *)
(* served twice, and no number is waited for that nobody holds.             *)
TicketsOutstanding ==
    /\ serving <= next
    /\ \A t \in Queued : serving <= ticket[t] /\ ticket[t] < next
    /\ \A t, u \in Queued : ticket[t] = ticket[u] => t = u
    /\ \A k \in serving .. (next - 1) : \E t \in Queued : ticket[t] = k

(* An owner holds the ticket being served.                                  *)
OwnerServed == \A t \in Thread : pc[t] = "own" => ticket[t] = serving

(* The strengthening the mutual exclusion proof rests on: the tickets out   *)
(* are in order and nobody owns the GPU by another one's ticket.            *)
IInv == TypeOK /\ TicketsOutstanding /\ OwnerServed

(* "someone besides the owner is queued" (the comment on contended): while  *)
(* a thread owns the GPU, contended() is true exactly when another thread   *)
(* holds a ticket.  A false negative would let an owner keep the GPU for a  *)
(* whole request, a false positive would cost a needless rebind.            *)
ContendedExact ==
    \A t \in Thread : pc[t] = "own" =>
        (Contended <=> \E u \in Queued \ {t} : TRUE)

(* No wakeup is lost: a thread whose turn has come is awake, or some        *)
(* releasing thread has yet to call notify_all.                             *)
NoLostWakeup ==
    \A t \in Thread : pc[t] = "asleep" /\ ticket[t] = serving =>
        \E u \in Thread : pc[u] = "notify"

(* Every thread that asks for the GPU gets it.                              *)
EveryTurnComes == \A t \in Thread : pc[t] \in {"asleep", "awake"} ~> pc[t] = "own"
-----------------------------------------------------------------------------
(* The abstract FIFO lock: the queue is the outstanding tickets in order.   *)
Line == [i \in 1..(next - serving) |->
            CHOOSE t \in Thread : t \in Queued /\ ticket[t] = serving + i - 1]
Owners == {t \in Thread : pc[t] = "own"}

Abstract == INSTANCE FifoLock WITH line <- Line, owns <- Owners

(* The ticket lock is a FIFO lock: threads own the GPU in the order in      *)
(* which they asked.                                                        *)
ImplementsFifoLock == Abstract!Spec
=============================================================================
