---------------------------- MODULE TimersProofs ----------------------------
(***************************************************************************)
(* The safety properties of Timers for every set of timers and instances   *)
(* and every bound on the clock, and the refinement of TimerService.       *)
(***************************************************************************)
EXTENDS Timers, TLAPS

(* The inductive invariant: the checked invariants, and what the handlers   *)
(* rely on besides: the instance being destroyed still exists, its walk     *)
(* happens inside a handler, and only the callback phase runs a callback.   *)
IInv == /\ TypeOK
        /\ NextIsEarliest
        /\ ArmedForNext
        /\ ReadReturns
        /\ NoTimerOutlivesItsUser
        /\ purging # None => purging \in owners
        /\ purging # None => loop \in {"dispatch", "callback", "pending"}
        /\ running # None <=> loop = "callback"

LEMMA InitIInv == Init => IInv
  <1> SUFFICES ASSUME Init PROVE IInv
    OBVIOUS
  <1>1. (CHOOSE o \in Owners : TRUE) \in Owners
    BY TimersAssumption
  <1>2. user \in [TimerIds -> Owners] /\ at \in [TimerIds -> Nat]
    BY <1>1 DEF Init
  <1>3. TypeOK
    BY <1>2 DEF Init, TypeOK
  <1>4. /\ NextIsEarliest /\ ArmedForNext /\ ReadReturns
        /\ NoTimerOutlivesItsUser
    BY DEF Init, NextIsEarliest, ArmedForNext, ReadReturns,
       NoTimerOutlivesItsUser
  <1> QED
    BY <1>3, <1>4 DEF Init, IInv

(* update_timer restores the two facts about next_timer from what either of *)
(* its callers leaves: a pointer that is earliest among the old timers, or  *)
(* NULL, and a timerfd set for it.                                          *)
LEMMA UpdateTimer ==
  ASSUME NEW T \in SUBSET TimerIds, NEW A \in [TimerIds -> Nat],
         NEW N \in TimerIds \union {None}, NEW F \in Nat \union {Idle},
         N # None => N \in T /\ F = A[N],
         update_timer(T, A, N, F)
  PROVE  /\ next' \in TimerIds \union {None}
         /\ armed' \in Nat \union {Idle}
         /\ IF T = {} THEN next' = None ELSE next' \in Earliest(T, A)
         /\ T # {} => armed' = A[next']
         /\ F # Idle => armed' # Idle
  <1>1. CASE Improves(T, A, N)
    BY <1>1, TimersAssumption DEF update_timer, Improves, Earliest
  <1>2. CASE ~Improves(T, A, N)
    <2>1. next' = N /\ armed' = F
      BY <1>2 DEF update_timer
    <2>2. T # {} => N # None /\ \A t \in T : A[N] <= A[t]
      BY <1>2 DEF Improves
    <2> QED
      BY <2>1, <2>2 DEF Earliest
  <1> QED
    BY <1>1, <1>2

LEMMA NextIInv == IInv /\ [Next]_vars => IInv'
  <1> SUFFICES ASSUME IInv, [Next]_vars PROVE IInv'
    OBVIOUS
  <1> USE TimersAssumption
  <1>1. ASSUME NEW o \in Owners, NewOwner(o) PROVE IInv'
    BY <1>1 DEF NewOwner, InHandler, IInv, TypeOK, NextIsEarliest, Earliest,
       ArmedForNext, ReadReturns, NoTimerOutlivesItsUser
  <1>2. ASSUME NEW o \in Owners, DestroyOwner(o) PROVE IInv'
    BY <1>2 DEF DestroyOwner, InHandler, IInv, TypeOK, NextIsEarliest, Earliest,
       ArmedForNext, ReadReturns, NoTimerOutlivesItsUser
  <1>3. ASSUME NEW t \in TimerIds, NEW o \in Owners, NEW d \in 1..MaxTime,
               xdpw_add_timer(t, o, d)
        PROVE  IInv'
    <2>1. /\ timers' \in SUBSET TimerIds /\ timers' # {}
          /\ at' \in [TimerIds -> Nat] /\ user' \in [TimerIds -> Owners]
          /\ \A u \in timers : at'[u] = at[u] /\ user'[u] = user[u]
      BY <1>3 DEF xdpw_add_timer, timespec_add, IInv, TypeOK
    <2>2. next # None => next \in timers' /\ armed = at'[next]
      BY <1>3, <2>1 DEF xdpw_add_timer, IInv, NextIsEarliest, ArmedForNext,
         Earliest
    <2>3. update_timer(timers', at', next, armed)
      BY <1>3 DEF xdpw_add_timer
    <2>4. /\ next' \in TimerIds \union {None}
          /\ armed' \in Nat \union {Idle}
          /\ next' \in Earliest(timers', at')
          /\ armed' = at'[next']
      BY <2>1, <2>2, <2>3, UpdateTimer DEF IInv, TypeOK
    <2>5. armed' # Idle
      BY <2>1, <2>4 DEF Earliest
    <2>6. NoTimerOutlivesItsUser'
      BY <1>3, <2>1 DEF xdpw_add_timer, IInv, TypeOK, NoTimerOutlivesItsUser
    <2> QED
      BY <1>3, <2>1, <2>4, <2>5, <2>6 DEF xdpw_add_timer, InHandler, IInv,
         TypeOK, NextIsEarliest, ArmedForNext, ReadReturns
  <1>4. ASSUME NEW t \in TimerIds, PurgeTimer(t) PROVE IInv'
    <2> DEFINE N == IF next = t THEN None ELSE next
    <2>1. N \in TimerIds \union {None} /\ timers' \in SUBSET TimerIds
      BY <1>4 DEF PurgeTimer, xdpw_destroy_timer, IInv, TypeOK
    <2>2. N # None => N \in timers' /\ armed = at[N]
      BY <1>4 DEF PurgeTimer, xdpw_destroy_timer, IInv, NextIsEarliest,
         ArmedForNext, Earliest
    <2>3. update_timer(timers', at, N, armed)
      BY <1>4 DEF PurgeTimer, xdpw_destroy_timer
    <2>4. /\ next' \in TimerIds \union {None}
          /\ armed' \in Nat \union {Idle}
          /\ IF timers' = {} THEN next' = None
                             ELSE next' \in Earliest(timers', at)
          /\ timers' # {} => armed' = at[next']
          /\ armed # Idle => armed' # Idle
      <3> HIDE DEF N
      <3> QED
        BY <2>1, <2>2, <2>3, UpdateTimer DEF IInv, TypeOK
    <2> QED
      BY <1>4, <2>1, <2>4 DEF PurgeTimer, xdpw_destroy_timer, IInv, TypeOK,
         NextIsEarliest, Earliest, ArmedForNext, ReadReturns,
         NoTimerOutlivesItsUser
  <1>5. CASE PurgeDone
    BY <1>5 DEF PurgeDone, IInv, TypeOK, NextIsEarliest, Earliest,
       ArmedForNext, ReadReturns, NoTimerOutlivesItsUser
  <1>6. CASE Poll
    BY <1>6 DEF Poll, readable, IInv, TypeOK, NextIsEarliest, Earliest,
       ArmedForNext, ReadReturns, NoTimerOutlivesItsUser
  <1>7. CASE Dispatched
    BY <1>7 DEF Dispatched, IInv, TypeOK, NextIsEarliest, Earliest,
       ArmedForNext, ReadReturns, NoTimerOutlivesItsUser
  <1>8. CASE ReadAndFire
    <2>1. next \in timers /\ timers' \in SUBSET TimerIds
      BY <1>8 DEF ReadAndFire, xdpw_destroy_timer, IInv, TypeOK,
         NextIsEarliest, Earliest
    <2>2. update_timer(timers', at, None, Idle)
      BY <1>8 DEF ReadAndFire, xdpw_destroy_timer
    <2>3. /\ next' \in TimerIds \union {None}
          /\ armed' \in Nat \union {Idle}
          /\ IF timers' = {} THEN next' = None
                             ELSE next' \in Earliest(timers', at)
          /\ timers' # {} => armed' = at[next']
      BY <2>1, <2>2, UpdateTimer DEF IInv, TypeOK
    <2>4. running' \in Owners
      BY <1>8, <2>1 DEF ReadAndFire, IInv, TypeOK
    <2> QED
      BY <1>8, <2>1, <2>3, <2>4 DEF ReadAndFire, xdpw_destroy_timer, IInv,
         TypeOK, NextIsEarliest, Earliest, ArmedForNext, ReadReturns,
         NoTimerOutlivesItsUser
  <1>9. CASE ReadSpurious
    BY <1>9 DEF ReadSpurious, IInv, TypeOK, NextIsEarliest, Earliest,
       ArmedForNext, ReadReturns, NoTimerOutlivesItsUser
  <1>10. CASE CallbackReturns
    BY <1>10 DEF CallbackReturns, IInv, TypeOK, NextIsEarliest, Earliest,
       ArmedForNext, ReadReturns, NoTimerOutlivesItsUser
  <1>11. CASE NextIteration
    BY <1>11 DEF NextIteration, IInv, TypeOK, NextIsEarliest, Earliest,
       ArmedForNext, ReadReturns, NoTimerOutlivesItsUser
  <1>12. CASE Tick
    BY <1>12 DEF Tick, IInv, TypeOK, NextIsEarliest, Earliest,
       ArmedForNext, ReadReturns, NoTimerOutlivesItsUser
  <1>13. CASE UNCHANGED vars
    BY <1>13 DEF vars, IInv, TypeOK, NextIsEarliest, Earliest,
       ArmedForNext, ReadReturns, NoTimerOutlivesItsUser
  <1> QED
    BY <1>1, <1>2, <1>3, <1>4, <1>5, <1>6, <1>7, <1>8, <1>9, <1>10, <1>11,
       <1>12, <1>13 DEF Next

LEMMA Inductive == Spec => []IInv
  BY InitIInv, NextIInv, PTL DEF Spec

(* The state of timer.c and of the event loop is well typed.                *)
THEOREM TypeCorrect == Spec => []TypeOK
  BY Inductive, PTL DEF IInv

(* next_timer is an earliest pending timer and the timerfd is set for it,   *)
(* after every order of additions, destructions and (stale) reads.          *)
THEOREM NextTimerCorrect == Spec => []NextIsEarliest
  BY Inductive, PTL DEF IInv

(* While a timer waits, the timerfd is set to the deadline of next_timer.   *)
THEOREM DescriptorIsArmed == Spec => []ArmedForNext
  BY Inductive, PTL DEF IInv

(* The blocking read of main.c never waits on a timerfd that is not set.    *)
THEOREM ReadNeverHangs == Spec => []ReadReturns
  BY Inductive, PTL DEF IInv

(* No timer is left for an instance that has been freed.                    *)
THEOREM NoDanglingTimer == Spec => []NoTimerOutlivesItsUser
  BY Inductive, PTL DEF IInv

(* A timer callback is handed an instance that exists.                      *)
THEOREM CallbackSafe == Spec => CalledWithLiveUser
  <1>1. IInv /\ IInv' /\ [Next]_vars
        => [running' # None /\ running' # running => running' \in owners']_vars
    <2> SUFFICES ASSUME IInv, [Next]_vars, running' # None, running' # running
                 PROVE  running' \in owners'
      OBVIOUS
    <2>1. ReadAndFire
      BY DEF Next, NewOwner, DestroyOwner, xdpw_add_timer, PurgeTimer,
         PurgeDone, Poll, Dispatched, ReadSpurious, CallbackReturns,
         NextIteration, Tick, vars
    <2>2. next \in timers
      BY <2>1 DEF ReadAndFire, IInv, TypeOK, NextIsEarliest, Earliest
    <2> QED
      BY <2>1, <2>2 DEF ReadAndFire, IInv, NoTimerOutlivesItsUser
  <1> QED
    BY <1>1, Inductive, PTL DEF Spec, CalledWithLiveUser

(* A due timer wakes the loop: the timerfd is set for an instant no later.  *)
LEMMA DueIsReadable ==
  ASSUME IInv, NEW t \in timers, at[t] <= now
  PROVE  /\ readable
         /\ next \in timers /\ at[next] <= at[t]
  <1>1. /\ next \in timers /\ at[next] <= at[t] /\ armed = at[next]
        /\ at[next] \in Nat /\ at[t] \in Nat /\ now \in Nat
    BY DEF IInv, TypeOK, NextIsEarliest, Earliest, ArmedForNext
  <1> QED
    BY <1>1, TimersAssumption DEF readable

(* The steps between a deadline and the callback: what EveryTimerLeaves     *)
(* rests on, next to the fairness of the loop.                              *)
THEOREM DueTimersAreServed == Spec => DueTimersAdvance
  <1> DEFINE Ahead(t) == {u \in timers : at[u] < at[t]}
  <1>1. ASSUME IInv, [Next]_vars, NEW t \in timers, at[t] <= now,
               t \in timers'
        PROVE  Ahead(t)' \subseteq Ahead(t)
    <2>1. CASE UNCHANGED at /\ timers' \subseteq timers
      BY <2>1
    <2>2. ASSUME NEW u \in TimerIds, NEW o \in Owners, NEW d \in 1..MaxTime,
                 xdpw_add_timer(u, o, d)
          PROVE  Ahead(t)' \subseteq Ahead(t)
      <3>1. /\ u \notin timers /\ timers' = timers \union {u}
            /\ at' = [at EXCEPT ![u] = now + d]
            /\ d \in Nat /\ d > 0
        BY <2>2, TimersAssumption DEF xdpw_add_timer, timespec_add
      <3>2. now \in Nat /\ at[t] \in Nat /\ at \in [TimerIds -> Nat]
        BY <1>1 DEF IInv, TypeOK
      <3>3. at'[t] = at[t] /\ at'[u] > at[t]
        BY <1>1, <3>1, <3>2
      <3>4. \A v \in timers : at'[v] = at[v]
        BY <3>1, <3>2
      <3> QED
        BY <3>1, <3>2, <3>3, <3>4
    <2> QED
      BY <1>1, <2>1, <2>2 DEF Next, vars, NewOwner, DestroyOwner, PurgeTimer,
         PurgeDone, Poll, Dispatched, ReadAndFire, ReadSpurious,
         CallbackReturns, NextIteration, Tick, xdpw_destroy_timer
  <1>2. ASSUME IInv, [Next]_vars, NEW t \in timers, at[t] <= now,
               loop = "read", loop' # "read"
        PROVE  \E u \in timers \ timers' : at[u] <= at[t]
    <2>1. next \in timers /\ at[next] <= at[t]
      BY <1>2, DueIsReadable
    <2>2. ReadAndFire \/ ReadSpurious
      BY <1>2 DEF Next, vars, NewOwner, DestroyOwner, xdpw_add_timer, InHandler,
         PurgeTimer, PurgeDone, Poll, Dispatched, CallbackReturns,
         NextIteration, Tick
    <2>3. timers' = timers \ {next}
      BY <1>2, <2>1, <2>2, TimersAssumption
         DEF ReadAndFire, ReadSpurious, xdpw_destroy_timer, IInv, TypeOK
    <2> QED
      BY <2>1, <2>3
  <1>3. IInv /\ [Next]_vars =>
          [\A t \in timers : at[t] <= now =>
             /\ readable
             /\ t \in timers' =>
                  {u \in timers' : at'[u] < at'[t]} \subseteq
                    {u \in timers : at[u] < at[t]}
             /\ loop = "read" /\ loop' # "read" =>
                  \E u \in timers \ timers' : at[u] <= at[t]]_vars
    BY <1>1, <1>2, DueIsReadable
  <1> QED
    BY <1>3, Inductive, PTL DEF Spec, DueTimersAdvance

-----------------------------------------------------------------------------

(* Every step of the daemon is a step of TimerService or leaves its state   *)
(* alone.                                                                   *)
LEMMA StepRefinement == IInv /\ [Next]_vars => [Service!Next]_Service!vars
  <1> SUFFICES ASSUME IInv, [Next]_vars PROVE [Service!Next]_Service!vars
    OBVIOUS
  <1> USE TimersAssumption
  <1> USE DEF Service!Next, Service!vars
  <1>1. ASSUME NEW o \in Owners, NewOwner(o) PROVE UNCHANGED Service!vars
    BY <1>1 DEF NewOwner
  <1>2. ASSUME NEW o \in Owners, DestroyOwner(o) PROVE Service!Leave
    BY <1>2 DEF DestroyOwner, InHandler, Service!Leave
  <1>3. ASSUME NEW t \in TimerIds, NEW o \in Owners, NEW d \in 1..MaxTime,
               xdpw_add_timer(t, o, d)
        PROVE  Service!Add
    BY <1>3 DEF xdpw_add_timer, timespec_add, InHandler, Service!Add
  <1>4. ASSUME NEW t \in TimerIds, PurgeTimer(t) PROVE Service!Cancel
    BY <1>4 DEF PurgeTimer, xdpw_destroy_timer, Service!Cancel
  <1>5. CASE PurgeDone
    <2>1. Service!Left
      BY <1>5 DEF PurgeDone, Service!Left
    <2> QED
      BY <2>1
  <1>6. CASE ReadAndFire
    <2>1. next \in timers /\ at[next] <= now /\ purging = None /\ running = None
          /\ \A u \in timers : at[next] <= at[u]
      BY <1>6 DEF ReadAndFire, readable, IInv, TypeOK, NextIsEarliest, Earliest,
         ArmedForNext
    <2>2. Service!Fire
      BY <1>6, <2>1 DEF ReadAndFire, xdpw_destroy_timer, Service!Fire
    <2> QED
      BY <2>2
  <1>7. CASE CallbackReturns
    <2>1. Service!Return
      BY <1>7 DEF CallbackReturns, IInv, Service!Return
    <2> QED
      BY <2>1
  <1>8. CASE Tick
    <2>1. Service!Tick
      BY <1>8 DEF Tick, Service!Tick
    <2> QED
      BY <2>1
  <1>9. CASE Poll \/ Dispatched \/ ReadSpurious \/ NextIteration
             \/ UNCHANGED vars
    BY <1>9 DEF Poll, Dispatched, ReadSpurious, NextIteration, vars
  <1> QED
    BY <1>1, <1>2, <1>3, <1>4, <1>5, <1>6, <1>7, <1>8, <1>9 DEF Next

(* The timers of the daemon keep the promise of TimerService: no callback   *)
(* before its deadline, deadlines in order, one callback at a time, and no  *)
(* timer lost unless its user is being destroyed.                           *)
THEOREM TimersRefineService == Spec => ImplementsTimerService
  <1>1. Init => Service!Init
    <2>1. (CHOOSE o \in Owners : TRUE) \in Owners
      BY TimersAssumption
    <2> QED
      BY <2>1 DEF Init, Service!Init
  <1> QED
    BY <1>1, StepRefinement, Inductive, PTL
       DEF Spec, ImplementsTimerService, Service!Spec
=============================================================================
