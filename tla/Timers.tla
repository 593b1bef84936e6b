------------------------------- MODULE Timers -------------------------------
(***************************************************************************)
(* src/core/timer.c and the part of the event loop of src/core/main.c that *)
(* serves it.  The pending timers share one timerfd, armed for the timer   *)
(* next_timer points to.  The loop polls, runs the handlers of the other   *)
(* sources (which add timers and destroy their users), and only then reads *)
(* the timerfd if poll reported it readable, so the report it acts on may  *)
(* be stale: a timerfd_settime in between takes the expiration back, and   *)
(* the read of a descriptor opened without TFD_NONBLOCK blocks.            *)
(*                                                                         *)
(* Data abstracted: a deadline is a natural number of ticks (timespec_less *)
(* is <, timespec_add is +), and among equal deadlines the list order is   *)
(* left open.  The kernel's timerfd is the variable armed: the instant it  *)
(* was last set to, or Idle once a read consumed the expiration.  The      *)
(* descriptor is readable from that instant until it is read or set again. *)
(***************************************************************************)
EXTENDS Naturals

CONSTANTS TimerIds,   \* identities of struct xdpw_timer allocations
          Owners,     \* screencast instances, the user_data of a timer
          None,       \* NULL
          Idle,       \* the timerfd was read since it was last set
          MaxTime     \* bound on the clock and on the deadlines

ASSUME TimersAssumption == /\ None \notin TimerIds
                           /\ None \notin Owners
                           /\ Idle \notin Nat
                           /\ MaxTime \in Nat
                           /\ Owners # {}

VARIABLES now,        \* CLOCK_MONOTONIC
          timers,     \* state->timers
          at,         \* timer->at
          user,       \* timer->user_data
          next,       \* state->next_timer
          armed,      \* the timerfd: the instant it was set to, or Idle
          owners,     \* the instances that exist
          purging,    \* the instance whose destruction walks the timers
          loop,       \* where main is: "poll", "dispatch", "read", ...
          revents,    \* poll reported the timerfd readable
          running     \* the user_data of the running timer callback

vars == <<now, timers, at, user, next, armed, owners, purging, loop, revents,
          running>>

readable == armed # Idle /\ armed <= now

TypeOK == /\ now \in Nat
          /\ timers \subseteq TimerIds
          /\ at \in [TimerIds -> Nat]
          /\ user \in [TimerIds -> Owners]
          /\ next \in TimerIds \union {None}
          /\ armed \in Nat \union {Idle}
          /\ owners \subseteq Owners
          /\ purging \in Owners \union {None}
          /\ loop \in {"poll", "dispatch", "read", "callback", "pending"}
          /\ revents \in BOOLEAN
          /\ running \in Owners \union {None}

Init == /\ now = 0
        /\ timers = {}
        /\ at = [t \in TimerIds |-> 0]
        /\ user = [t \in TimerIds |-> CHOOSE o \in Owners : TRUE]
        /\ next = None
        /\ armed = Idle
        /\ owners = {}
        /\ purging = None
        /\ loop = "poll"
        /\ revents = FALSE
        /\ running = None

-----------------------------------------------------------------------------

\* Mutant: the delay is subtracted from the clock.
timespec_add_Subtracts(d) == now - d

\* The deadline of a timer added now.
timespec_add(d) == now + d

(* update_timer after a change of the list: T, A and N are the timers, the  *)
(* deadlines and next_timer the caller left, F what the timerfd holds.  The *)
(* pointer moves only to a strictly earlier timer or away from NULL, and    *)
(* the timerfd is set only when it moved.                                   *)
Earliest(T, A) == {t \in T : \A u \in T : A[t] <= A[u]}

Improves(T, A, N) == T # {} /\ (N = None \/ \E t \in T : A[t] < A[N])

\* Mutant: the timerfd is set when a pointer is there first, not when it moves.
update_timer_SetsOnlyFirst(T, A, N, F) ==
  IF Improves(T, A, N)
  THEN next' \in Earliest(T, A) /\ armed' = IF N = None THEN A[next'] ELSE F
  ELSE next' = N /\ armed' = F

\* Mutant: the timerfd is disarmed when the last timer goes away.
update_timer_Disarms(T, A, N, F) ==
  IF Improves(T, A, N)
  THEN next' \in Earliest(T, A) /\ armed' = A[next']
  ELSE next' = N /\ armed' = IF T = {} THEN Idle ELSE F

update_timer(T, A, N, F) ==
  IF Improves(T, A, N)
  THEN next' \in Earliest(T, A) /\ armed' = A[next']
  ELSE next' = N /\ armed' = F

\* Handlers run while main is between poll and the read, in the timer
\* callback, and in the wl_display_dispatch_pending that ends the iteration;
\* an instance being destroyed lets no other handler run.
InHandler == loop \in {"dispatch", "callback", "pending"} /\ purging = None

NewOwner(o) == /\ InHandler
               /\ o \notin owners
               /\ owners' = owners \union {o}
               /\ UNCHANGED <<now, timers, at, user, next, armed, purging,
                              loop, revents, running>>

xdpw_add_timer(t, o, d) ==
  /\ InHandler
  /\ t \notin timers
  /\ o \in owners
  /\ timespec_add(d) <= MaxTime
  /\ timers' = timers \union {t}
  /\ at' = [at EXCEPT ![t] = timespec_add(d)]
  /\ user' = [user EXCEPT ![t] = o]
  /\ update_timer(timers', at', next, armed)
  /\ UNCHANGED <<now, owners, purging, loop, revents, running>>

\* Mutant: next_timer keeps pointing to the destroyed timer.
xdpw_destroy_timer_KeepsNext(t, F) ==
  /\ timers' = timers \ {t}
  /\ update_timer(timers', at, next, F)

\* Mutant: the remaining timers are not looked at.
xdpw_destroy_timer_NoUpdate(t, F) ==
  /\ timers' = timers \ {t}
  /\ next' = IF next = t THEN None ELSE next
  /\ armed' = F

\* The caller of xdpw_destroy_timer leaves armed as F: what the read that
\* preceded it, if any, made of the timerfd.
xdpw_destroy_timer(t, F) ==
  /\ timers' = timers \ {t}
  /\ update_timer(timers', at, IF next = t THEN None ELSE next, F)

\* xdpw_screencast_instance_destroy starts by destroying, one by one, every
\* timer whose user_data is the instance.
\*
\* Mutant: the instance is destroyed without looking at the timers.
DestroyOwner_NoPurge(o) ==
  /\ InHandler
  /\ o \in owners
  /\ owners' = owners \ {o}
  /\ UNCHANGED <<now, timers, at, user, next, armed, purging, loop, revents,
                 running>>

DestroyOwner(o) == /\ InHandler
                   /\ o \in owners
                   /\ purging' = o
                   /\ UNCHANGED <<now, timers, at, user, next, armed, owners,
                                  loop, revents, running>>

PurgeTimer(t) == /\ purging # None
                 /\ t \in timers
                 /\ user[t] = purging
                 /\ xdpw_destroy_timer(t, armed)
                 /\ UNCHANGED <<now, at, user, owners, purging, loop, revents,
                                running>>

PurgeDone == /\ purging # None
             /\ \A t \in timers : user[t] # purging
             /\ owners' = owners \ {purging}
             /\ purging' = None
             /\ UNCHANGED <<now, timers, at, user, next, armed, loop, revents,
                            running>>

-----------------------------------------------------------------------------

\* poll returns for the timerfd, or (the second disjunct of its guard) for
\* one of the other sources; the timerfd's revents are those of this instant.
Poll == /\ loop = "poll"
        /\ revents' = readable
        /\ loop' = "dispatch"
        /\ UNCHANGED <<now, timers, at, user, next, armed, owners, purging,
                       running>>

\* The D-Bus, Wayland and PipeWire handlers of this iteration are done.
Dispatched == /\ loop = "dispatch"
              /\ purging = None
              /\ loop' = IF revents THEN "read" ELSE "pending"
              /\ UNCHANGED <<now, timers, at, user, next, armed, owners,
                             purging, revents, running>>

\* read returns once the timerfd is readable; the timer next_timer points to
\* by then is served, whatever timer poll had reported.
\*
\* Mutant: a read that does not block, its failure ignored.
ReadAndFire_NonBlocking == /\ loop = "read"
                           /\ next # None
                           /\ running' = user[next]
                           /\ xdpw_destroy_timer(next, Idle)
                           /\ loop' = "callback"
                           /\ UNCHANGED <<now, at, user, owners, purging,
                                          revents>>

ReadAndFire == /\ loop = "read"
               /\ readable
               /\ next # None
               /\ running' = user[next]
               /\ xdpw_destroy_timer(next, Idle)
               /\ loop' = "callback"
               /\ UNCHANGED <<now, at, user, owners, purging, revents>>

\* The expiration of a timer destroyed since: nothing to serve.
ReadSpurious == /\ loop = "read"
                /\ readable
                /\ next = None
                /\ armed' = Idle
                /\ loop' = "pending"
                /\ UNCHANGED <<now, timers, at, user, next, owners, purging,
                               revents, running>>

CallbackReturns == /\ loop = "callback"
                   /\ purging = None
                   /\ running' = None
                   /\ loop' = "pending"
                   /\ UNCHANGED <<now, timers, at, user, next, armed, owners,
                                  purging, revents>>

NextIteration == /\ loop = "pending"
                 /\ purging = None
                 /\ loop' = "poll"
                 /\ UNCHANGED <<now, timers, at, user, next, armed, owners,
                                purging, revents, running>>

Tick == /\ now < MaxTime
        /\ now' = now + 1
        /\ UNCHANGED <<timers, at, user, next, armed, owners, purging, loop,
                       revents, running>>

Next == \/ \E o \in Owners : NewOwner(o) \/ DestroyOwner(o)
        \/ \E t \in TimerIds, o \in Owners, d \in 1..MaxTime :
             xdpw_add_timer(t, o, d)
        \/ \E t \in TimerIds : PurgeTimer(t)
        \/ PurgeDone
        \/ Poll
        \/ Dispatched
        \/ ReadAndFire
        \/ ReadSpurious
        \/ CallbackReturns
        \/ NextIteration
        \/ Tick

Spec == Init /\ [][Next]_vars

(* The clock advances, poll returns when its timerfd is readable (the      *)
(* program makes no promise that another source ever is), and the loop     *)
(* takes its next step.  Strong fairness where handlers run: a poll report *)
(* brings finitely many messages, so the loop leaves the handlers however  *)
(* many instances they create and destroy.                                 *)
Fairness == /\ WF_vars(Tick)
            /\ WF_vars(Poll /\ readable)
            /\ SF_vars(Dispatched)
            /\ WF_vars(ReadAndFire \/ ReadSpurious)
            /\ SF_vars(CallbackReturns)
            /\ SF_vars(NextIteration)
            /\ WF_vars(PurgeDone \/ \E t \in TimerIds : PurgeTimer(t))

FairSpec == Spec /\ Fairness

-----------------------------------------------------------------------------

(* update_timer keeps next_timer at an earliest pending timer, through any  *)
(* order of additions and destructions, the one that walks a dying instance *)
(* included: NULL exactly when the list is empty.                           *)
NextIsEarliest == IF timers = {} THEN next = None
                                 ELSE next \in Earliest(timers, at)

(* While a timer waits the timerfd is set to the deadline of next_timer:    *)
(* moving the pointer and setting the descriptor never come apart, also     *)
(* when the expiration of an earlier timer was just read.                   *)
ArmedForNext == timers # {} => armed = at[next]

(* The read of main.c acts on a poll result that the handlers run since may *)
(* have made stale.  It can block, but never on a descriptor nothing will   *)
(* expire: what took the expiration back has set a new one.                 *)
ReadReturns == revents /\ loop \in {"dispatch", "read"} => armed # Idle

(* xdpw_screencast_instance_destroy frees the instance only when no timer   *)
(* is left that would hand it to wlr_frame_capture_timer.                   *)
NoTimerOutlivesItsUser == \A t \in timers : user[t] \in owners

(* A timer callback is handed an instance that exists, also when poll       *)
(* reported the timer of an instance that the handlers destroyed before the *)
(* read.                                                                    *)
CalledWithLiveUser ==
  [][running' # None /\ running' # running => running' \in owners']_vars

(* A timer that is due makes progress: the timerfd is readable, no timer    *)
(* gets ahead of it, and each read serves it or a timer due no later.       *)
DueTimersAdvance ==
  [][\A t \in timers : at[t] <= now =>
       /\ readable
       /\ t \in timers' =>
            {u \in timers' : at'[u] < at'[t]} \subseteq
              {u \in timers : at[u] < at[t]}
       /\ loop = "read" /\ loop' # "read" =>
            \E u \in timers \ timers' : at[u] <= at[t]]_vars

(* Every timer is eventually served or destroyed with its instance, however *)
(* the other sources interleave with it and re-arm the shared descriptor.   *)
EveryTimerLeaves == \A t \in TimerIds : t \in timers ~> t \notin timers

(* The blocking read gives the loop back to the other sources.              *)
ReadUnblocks == loop = "read" ~> loop # "read"

(* The daemon's timers keep the promise of TimerService.                    *)
Service == INSTANCE TimerService
             WITH pending <- timers, leaving <- purging, Nobody <- None
ImplementsTimerService == Service!Spec
=============================================================================
