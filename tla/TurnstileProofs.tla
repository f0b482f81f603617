-------------------------- MODULE TurnstileProofs --------------------------
(***************************************************************************)
(* The ticket lock for any number of threads and tickets: at most one      *)
(* owner, exact contention test, no lost wakeup.                           *)
(***************************************************************************)
EXTENDS Turnstile, TLAPS

(* The counters and the program counters keep their types.                  *)
THEOREM TypeCorrect == Spec => []TypeOK
<1>1. Init => TypeOK
  BY DEF Init, TypeOK, PC
<1>2. TypeOK /\ [Next]_vars => TypeOK'
  BY DEF TypeOK, PC, Next, vars, Acquire, Recheck, Release, Notify
<1>3. QED
  BY <1>1, <1>2, PTL DEF Spec

(* The outstanding tickets stay exactly serving .. next-1, one thread each. *)
LEMMA Inductive == IInv /\ [Next]_vars => IInv'
<1> SUFFICES ASSUME IInv, [Next]_vars
             PROVE  IInv'
  OBVIOUS
<1> USE DEF IInv, TypeOK, PC, TicketsOutstanding, OwnerServed, Queued
<1>1. ASSUME NEW t \in Thread, Acquire(t)
      PROVE  IInv'
  BY <1>1 DEF Acquire
<1>2. ASSUME NEW t \in Thread, Recheck(t)
      PROVE  IInv'
  BY <1>2 DEF Recheck
<1>3. ASSUME NEW t \in Thread, Release(t)
      PROVE  IInv'
  BY <1>3 DEF Release
<1>4. ASSUME NEW t \in Thread, Notify(t)
      PROVE  IInv'
  BY <1>4 DEF Notify
<1>5. CASE UNCHANGED vars
  BY <1>5 DEF vars
<1>6. QED
  BY <1>1, <1>2, <1>3, <1>4, <1>5 DEF Next

(* The strengthening holds in every reachable state.                        *)
THEOREM TicketInvariant == Spec => []IInv
<1>1. Init => IInv
  BY DEF Init, IInv, TypeOK, PC, TicketsOutstanding, OwnerServed, Queued
<1>2. QED
  BY <1>1, Inductive, PTL DEF Spec

(* At most one thread owns the GPU, whatever the number of threads.         *)
THEOREM Exclusion == Spec => []MutualExclusion
<1>1. IInv => MutualExclusion
  BY DEF IInv, TypeOK, TicketsOutstanding, OwnerServed, Queued, MutualExclusion
<1>2. QED
  BY <1>1, TicketInvariant, PTL

(* The owner's contention test is exact: it is true when and only when      *)
(* another thread holds a ticket.                                           *)
THEOREM ContentionTest == Spec => []ContendedExact
<1>1. IInv => ContendedExact
  BY DEF IInv, TypeOK, TicketsOutstanding, OwnerServed, Queued, ContendedExact, Contended
<1>2. QED
  BY <1>1, TicketInvariant, PTL

(* A thread whose turn has come is never left asleep with nobody about to   *)
(* call notify_all.                                                         *)
THEOREM WakeupsArrive == Spec => []NoLostWakeup
<1>1. Init => NoLostWakeup
  BY DEF Init, NoLostWakeup
<1>2. TypeOK /\ NoLostWakeup /\ [Next]_vars => NoLostWakeup'
  BY DEF TypeOK, PC, NoLostWakeup, Next, vars, Acquire, Recheck, Release, Notify
<1>3. QED
  BY <1>1, <1>2, TypeCorrect, PTL DEF Spec
-----------------------------------------------------------------------------
(* The i-th place of the line belongs to the one thread with that ticket.   *)
LEMMA Places ==
    ASSUME IInv
    PROVE  /\ Line \in Seq(Thread)
           /\ Len(Line) = next - serving
           /\ \A i \in 1 .. (next - serving) :
                 Line[i] \in Queued /\ ticket[Line[i]] = serving + i - 1
           /\ \A t \in Queued : Line[ticket[t] - serving + 1] = t
<1> USE DEF IInv, TypeOK, TicketsOutstanding, Queued
<1>1. ASSUME NEW i \in 1 .. (next - serving)
      PROVE  Line[i] \in Queued /\ ticket[Line[i]] = serving + i - 1
  <2>1. \E t \in Thread : t \in Queued /\ ticket[t] = serving + i - 1
    OBVIOUS
  <2>2. Line[i] = CHOOSE t \in Thread : t \in Queued /\ ticket[t] = serving + i - 1
    BY DEF Line
  <2>3. QED
    BY <2>1, <2>2
<1>2. Line \in Seq(Thread) /\ Len(Line) = next - serving
  BY <1>1 DEF Line
<1>3. ASSUME NEW t \in Queued
      PROVE  Line[ticket[t] - serving + 1] = t
  <2>1. ticket[t] - serving + 1 \in 1 .. (next - serving)
    OBVIOUS
  <2>2. QED
    BY <1>1, <2>1
<1>4. QED
  BY <1>1, <1>2, <1>3

(* Two sequences of one length that agree everywhere are one.              *)
LEMMA SameSeq ==
    ASSUME NEW S, NEW a \in Seq(S), NEW b \in Seq(S), Len(a) = Len(b),
           \A i \in 1 .. Len(a) : a[i] = b[i]
    PROVE  a = b
  OBVIOUS

LEMMA AppendFacts ==
    ASSUME NEW S, NEW a \in Seq(S), NEW e \in S
    PROVE  /\ Append(a, e) \in Seq(S)
           /\ Len(Append(a, e)) = Len(a) + 1
           /\ \A i \in 1 .. Len(a) : Append(a, e)[i] = a[i]
           /\ Append(a, e)[Len(a) + 1] = e
  OBVIOUS

LEMMA TailFacts ==
    ASSUME NEW S, NEW a \in Seq(S), a # <<>>
    PROVE  /\ Tail(a) \in Seq(S)
           /\ Len(Tail(a)) = Len(a) - 1
           /\ \A i \in 1 .. Len(a) - 1 : Tail(a)[i] = a[i + 1]
           /\ Head(a) = a[1]
  OBVIOUS

(* What Places says, as one formula, so that it can be cited for the state  *)
(* after a step too.                                                        *)
LinePlaced ==
    /\ Line \in Seq(Thread) /\ Len(Line) = next - serving
    /\ \A i \in 1 .. (next - serving) :
          Line[i] \in Queued /\ ticket[Line[i]] = serving + i - 1
    /\ \A t \in Queued : Line[ticket[t] - serving + 1] = t

LEMMA PlacedAlways == Spec => []LinePlaced
<1>1. IInv => LinePlaced
  BY Places DEF LinePlaced
<1>2. QED
  BY <1>1, TicketInvariant, PTL

(* One step of the ticket lock is a step of the FIFO lock or leaves its     *)
(* queue alone.                                                             *)
LEMMA StepSimulation ==
    ASSUME IInv, LinePlaced, LinePlaced', [Next]_vars
    PROVE  [Abstract!Next]_<<Line, Owners>>
<1>t. TypeOK /\ TicketsOutstanding /\ OwnerServed
  BY DEF IInv
<1>u. Queued \subseteq Thread
  BY DEF Queued
<1>a. /\ Line \in Seq(Thread) /\ Len(Line) = next - serving
      /\ \A i \in 1 .. (next - serving) :
            Line[i] \in Queued /\ ticket[Line[i]] = serving + i - 1
  BY DEF LinePlaced
<1>b. /\ Line' \in Seq(Thread) /\ Len(Line') = next' - serving'
      /\ \A t \in Queued' : Line'[ticket'[t] - serving' + 1] = t
  BY DEF LinePlaced
<1>c. \A t \in Queued : Line[ticket[t] - serving + 1] = t
  BY DEF LinePlaced
<1>n. next \in Nat /\ serving \in Nat /\ serving <= next
  BY <1>t DEF TypeOK, TicketsOutstanding
<1>1. ASSUME NEW t \in Thread, Acquire(t)
      PROVE  Abstract!Ask(t)
  <2>1. t \notin Queued
    BY <1>1 DEF Acquire, Queued
  <2>2. next' = next + 1 /\ serving' = serving
    BY <1>1 DEF Acquire
  <2>3. \A u \in Queued : u \in Queued' /\ ticket'[u] = ticket[u]
    BY <1>1, <1>t DEF Acquire, Queued, TypeOK, PC
  <2>4. t \in Queued' /\ ticket'[t] = next
    BY <1>1, <1>t DEF Acquire, Queued, TypeOK, PC
  <2>5. \A i \in 1 .. Len(Line) : Line'[i] = Append(Line, t)[i]
    <3> SUFFICES ASSUME NEW i \in 1 .. Len(Line)
                 PROVE  Line'[i] = Line[i]
      BY <1>a, AppendFacts
    <3>1. Line[i] \in Queued' /\ ticket'[Line[i]] = serving + i - 1
      BY <1>a, <2>3
    <3>2. ticket'[Line[i]] - serving' + 1 = i
      BY <3>1, <2>2, <1>n
    <3>3. QED
      BY <3>1, <3>2, <1>b
  <2>6. Line'[Len(Line) + 1] = t
    <3>1. ticket'[t] - serving' + 1 = Len(Line) + 1
      BY <2>4, <2>2, <1>a, <1>n
    <3>2. QED
      BY <3>1, <2>4, <1>b
  <2>7. Line' = Append(Line, t)
    <3>1. Len(Line') = Len(Append(Line, t)) /\ Append(Line, t) \in Seq(Thread)
      BY <1>a, <1>b, <2>2, <1>n, AppendFacts
    <3>2. \A i \in 1 .. Len(Line') : Line'[i] = Append(Line, t)[i]
      BY <1>a, <1>b, <2>2, <2>5, <2>6, <1>n, AppendFacts
    <3>3. QED
      BY <3>1, <3>2, <1>b, SameSeq
  <2>8. \A i \in DOMAIN Line : Line[i] # t
    BY <1>a, <2>1
  <2>9. Owners' = IF Line = <<>> THEN {t} ELSE Owners
    <3>1. CASE serving = next
      <4>1. Line = <<>> /\ Queued = {}
        BY <3>1, <1>a, <1>t DEF TicketsOutstanding, TypeOK, Queued
      <4>2. \A u \in Thread \ {t} : pc[u] # "own" /\ pc'[u] = pc[u]
        BY <4>1, <1>1, <1>t DEF Acquire, Queued, TypeOK
      <4>3. pc'[t] = "own"
        BY <3>1, <1>1, <1>t DEF Acquire, TypeOK
      <4>4. QED
        BY <4>1, <4>2, <4>3 DEF Owners
    <3>2. CASE serving # next
      <4>1. Line # <<>>
        BY <3>2, <1>a, <1>n
      <4>2. pc'[t] # "own" /\ pc[t] # "own" /\ \A u \in Thread \ {t} : pc'[u] = pc[u]
        BY <3>2, <1>1, <1>t DEF Acquire, TypeOK
      <4>3. QED
        BY <4>1, <4>2 DEF Owners
    <3>3. QED
      BY <3>1, <3>2
  <2>10. QED
    BY <2>7, <2>8, <2>9 DEF Abstract!Ask
<1>2. ASSUME NEW t \in Thread, Recheck(t)
      PROVE  Abstract!Notice(t) \/ UNCHANGED <<Line, Owners>>
  <2>1. next' = next /\ serving' = serving /\ ticket' = ticket /\ Queued' = Queued
    BY <1>2, <1>t DEF Recheck, Queued, TypeOK, PC
  <2>2. Line' = Line
    BY <2>1 DEF Line
  <2>3. CASE serving = ticket[t]
    <3>1. t \in Queued /\ pc[t] # "own"
      BY <1>2 DEF Recheck, Queued
    <3>2. Line[1] = t
      BY <3>1, <2>3, <1>a, <1>c, <1>n
    <3>3. Len(Line) >= 1
      BY <3>1, <2>3, <1>a, <1>n, <1>t DEF TicketsOutstanding, TypeOK
    <3>4. Line # <<>> /\ Head(Line) = t
      BY <3>2, <3>3, <1>a
    <3>5. Owners' = Owners \cup {t} /\ t \notin Owners
      BY <1>2, <1>t, <2>3 DEF Recheck, Owners, TypeOK
    <3>6. QED
      BY <3>4, <3>5, <2>2 DEF Abstract!Notice
  <2>4. CASE serving # ticket[t]
    <3>1. Owners' = Owners
      BY <1>2, <1>t, <2>4 DEF Recheck, Owners, TypeOK
    <3>2. QED
      BY <3>1, <2>2
  <2>5. QED
    BY <2>3, <2>4
<1>3. ASSUME NEW t \in Thread, Release(t)
      PROVE  Abstract!GiveUp(t)
  <2>1. t \in Queued /\ ticket[t] = serving /\ t \in Owners
    BY <1>3, <1>t DEF Release, Queued, OwnerServed, Owners
  <2>2. serving < next
    BY <2>1, <1>t DEF TicketsOutstanding, TypeOK
  <2>3. next' = next /\ serving' = serving + 1 /\ ticket' = ticket
        /\ Queued' = Queued \ {t} /\ Owners' = Owners \ {t}
    BY <1>3, <1>t DEF Release, Queued, Owners, TypeOK, PC
  <2>4. Line # <<>> /\ Head(Line) = t
    <3>1. Line[1] = t
      BY <2>1, <1>a, <1>c, <1>n
    <3>2. QED
      BY <3>1, <2>2, <1>a, <1>n
  <2>5. \A i \in 1 .. Len(Line) - 1 : Line'[i] = Line[i + 1]
    <3> SUFFICES ASSUME NEW i \in 1 .. Len(Line) - 1
                 PROVE  Line'[i] = Line[i + 1]
      OBVIOUS
    <3>1. i + 1 \in 1 .. (next - serving)
      BY <1>a, <1>n
    <3>2. Line[i + 1] \in Queued /\ ticket[Line[i + 1]] = serving + (i + 1) - 1
      BY <3>1, <1>a
    <3>3. Line[i + 1] \in Queued'
      BY <3>2, <2>1, <2>3, <1>n
    <3>4. ticket'[Line[i + 1]] - serving' + 1 = i
      BY <3>2, <2>3, <1>n
    <3>5. QED
      BY <3>3, <3>4, <1>b
  <2>6. Line' = Tail(Line)
    <3>1. Len(Line') = Len(Tail(Line)) /\ Tail(Line) \in Seq(Thread)
      BY <1>a, <1>b, <2>3, <2>4, <1>n, TailFacts
    <3>2. \A i \in 1 .. Len(Line') : Line'[i] = Tail(Line)[i]
      BY <1>a, <1>b, <2>3, <2>4, <2>5, <1>n, TailFacts
    <3>3. QED
      BY <3>1, <3>2, <1>b, SameSeq
  <2>7. QED
    BY <2>1, <2>3, <2>4, <2>6 DEF Abstract!GiveUp
<1>4. ASSUME NEW t \in Thread, Notify(t)
      PROVE  UNCHANGED <<Line, Owners>>
  <2>1. next' = next /\ serving' = serving /\ ticket' = ticket /\ Queued' = Queued
        /\ Owners' = Owners
    BY <1>4, <1>t DEF Notify, Queued, Owners, TypeOK, PC
  <2>2. QED
    BY <2>1 DEF Line
<1>5. CASE UNCHANGED vars
  BY <1>5 DEF vars, Line, Owners, Queued
<1>6. QED
  BY <1>1, <1>2, <1>3, <1>4, <1>5 DEF Next, Abstract!Next

(* The ticket lock implements the FIFO lock.                                *)
THEOREM Refinement == Spec => ImplementsFifoLock
<1>1. Init => Abstract!Init
  BY DEF Init, Abstract!Init, Line, Owners
<1>2. IInv /\ LinePlaced /\ LinePlaced' /\ [Next]_vars
      => [Abstract!Next]_<<Line, Owners>>
  BY StepSimulation
<1>3. QED
  BY <1>1, <1>2, TicketInvariant, PlacedAlways, PTL DEF Spec, ImplementsFifoLock, Abstract!Spec
=============================================================================
