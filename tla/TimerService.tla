---------------------------- MODULE TimerService ----------------------------
(***************************************************************************)
(* What the daemon's timers promise to the code that uses them             *)
(* (xdpw_add_timer, xdpw_destroy_timer and the loop of main.c), with no    *)
(* mention of next_timer, of the timerfd or of the order in which poll     *)
(* results are handled: a timer that was added waits until its callback is *)
(* run or its user is destroyed, no callback runs before its deadline, an  *)
(* earlier deadline is served before a later one, and only one callback    *)
(* runs at a time.                                                         *)
(***************************************************************************)
EXTENDS Naturals

CONSTANTS TimerIds,   \* identities of struct xdpw_timer allocations
          Owners,     \* the user_data a timer is created for
          Nobody,     \* no callback is running
          MaxTime     \* bound on the clock

VARIABLES now,        \* CLOCK_MONOTONIC
          pending,    \* the timers that wait
          at,         \* the deadline of each pending timer
          user,       \* the user_data of each pending timer
          leaving,    \* the user that is being destroyed
          running     \* the user_data handed to the running callback

vars == <<now, pending, at, user, leaving, running>>

Init == /\ now = 0
        /\ pending = {}
        /\ at \in [TimerIds -> {0}]
        /\ user \in [TimerIds -> Owners]
        /\ leaving = Nobody
        /\ running = Nobody

Add == \E t \in TimerIds \ pending, o \in Owners, d \in 1..MaxTime :
         /\ leaving = Nobody
         /\ pending' = pending \union {t}
         /\ at' = [at EXCEPT ![t] = now + d]
         /\ user' = [user EXCEPT ![t] = o]
         /\ UNCHANGED <<now, leaving, running>>

\* A user leaves once no timer of its own is pending: those are the only
\* timers that go away unserved.
Leave == /\ leaving = Nobody
         /\ leaving' \in Owners
         /\ UNCHANGED <<now, pending, at, user, running>>

Cancel == \E t \in pending :
            /\ user[t] = leaving
            /\ pending' = pending \ {t}
            /\ UNCHANGED <<now, at, user, leaving, running>>

Left == /\ leaving # Nobody
        /\ \A t \in pending : user[t] # leaving
        /\ leaving' = Nobody
        /\ UNCHANGED <<now, pending, at, user, running>>

Fire == \E t \in pending :
          /\ running = Nobody
          /\ leaving = Nobody
          /\ at[t] <= now
          /\ \A u \in pending : at[t] <= at[u]
          /\ pending' = pending \ {t}
          /\ running' = user[t]
          /\ UNCHANGED <<now, at, user, leaving>>

Return == /\ running # Nobody
          /\ leaving = Nobody
          /\ running' = Nobody
          /\ UNCHANGED <<now, pending, at, user, leaving>>

Tick == /\ now' = now + 1
        /\ UNCHANGED <<pending, at, user, leaving, running>>

Next == Add \/ Leave \/ Cancel \/ Left \/ Fire \/ Return \/ Tick

Spec == Init /\ [][Next]_vars
=============================================================================
