-------------------------- MODULE FramePacingProofs --------------------------
(***************************************************************************)
(* The frame limiter keeps the rate, for a second of any length, any rates  *)
(* and however the clock moves; and the arithmetic on struct timespec.      *)
(***************************************************************************)
EXTENDS FramePacing, TLAPS

LEMMA DivMod ==
  ASSUME NEW n \in Nat \ {0}, NEW d \in Nat
  PROVE  /\ d \div n \in Nat
         /\ d % n \in 0..(n - 1)
         /\ d = (d \div n) * n + (d % n)
  OBVIOUS

LEMMA Distribute ==
  ASSUME NEW a \in Nat, NEW b \in Nat, NEW n \in Nat
  PROVE  (a + b) * n = a * n + b * n /\ a * n \in Nat
  OBVIOUS

LEMMA NsType ==
  ASSUME NEW t \in Timespec
  PROVE  /\ Ns(t) \in Nat
         /\ t.sec \in Nat /\ t.nsec \in Nat /\ t.nsec < NSEC_PER_SEC
  BY FramePacingAssumption DEF Timespec, Ns

(* timespec_diff_ns is subtraction.                                         *)
THEOREM DifferenceIsExact ==
  \A t1, t2 \in Timespec : timespec_diff_ns(t1, t2) = Ns(t1) - Ns(t2)
  BY FramePacingAssumption DEF Timespec, Ns, timespec_diff_ns

(* timespec_less is the order of time.                                      *)
THEOREM LessIsEarlier ==
  \A t1, t2 \in Timespec : timespec_less(t1, t2) <=> Ns(t1) < Ns(t2)
  BY FramePacingAssumption DEF Timespec, Ns, timespec_less

(* timespec_add is addition, and its result is normal again.                *)
THEOREM SumIsExact ==
  \A t \in Timespec, d \in Nat :
    timespec_add(t, d) \in Timespec /\ Ns(timespec_add(t, d)) = Ns(t) + d
  <1> SUFFICES ASSUME NEW t \in Timespec, NEW d \in Nat
               PROVE  /\ timespec_add(t, d) \in Timespec
                      /\ Ns(timespec_add(t, d)) = Ns(t) + d
    OBVIOUS
  <1> DEFINE high == d \div NSEC_PER_SEC
             low == d % NSEC_PER_SEC
  <1>1. /\ high \in Nat /\ low \in 0..(NSEC_PER_SEC - 1)
        /\ d = high * NSEC_PER_SEC + low
    BY DivMod, FramePacingAssumption
  <1>2. /\ t.sec \in Nat /\ t.nsec \in 0..(NSEC_PER_SEC - 1)
        /\ NSEC_PER_SEC \in Nat
    BY FramePacingAssumption DEF Timespec
  <1>3. timespec_add(t, d) =
          IF t.nsec + low >= NSEC_PER_SEC
          THEN [sec |-> t.sec + high + 1, nsec |-> t.nsec + low - NSEC_PER_SEC]
          ELSE [sec |-> t.sec + high, nsec |-> t.nsec + low]
    BY <1>1, <1>2 DEF timespec_add
  <1> HIDE DEF high, low
  <1>4. CASE t.nsec + low >= NSEC_PER_SEC
    <2>1. (t.sec + high + 1) * NSEC_PER_SEC + (t.nsec + low - NSEC_PER_SEC)
            = t.sec * NSEC_PER_SEC + t.nsec + d
      <3>1. (t.sec + high + 1) * NSEC_PER_SEC
              = (t.sec + high) * NSEC_PER_SEC + 1 * NSEC_PER_SEC
        BY <1>1, <1>2, Distribute
      <3>2. (t.sec + high) * NSEC_PER_SEC
              = t.sec * NSEC_PER_SEC + high * NSEC_PER_SEC
        BY <1>1, <1>2, Distribute
      <3>3. /\ t.sec * NSEC_PER_SEC \in Nat /\ high * NSEC_PER_SEC \in Nat
            /\ 1 * NSEC_PER_SEC = NSEC_PER_SEC
        BY <1>1, <1>2, Distribute
      <3> QED
        BY <1>1, <1>2, <3>1, <3>2, <3>3
    <2> QED
      BY <1>1, <1>2, <1>3, <1>4, <2>1 DEF Timespec, Ns
  <1>5. CASE ~ (t.nsec + low >= NSEC_PER_SEC)
    <2>1. (t.sec + high) * NSEC_PER_SEC + (t.nsec + low)
            = t.sec * NSEC_PER_SEC + t.nsec + d
      BY <1>1, <1>2, Distribute
    <2> QED
      BY <1>1, <1>2, <1>3, <1>5, <2>1 DEF Timespec, Ns
  <1> QED
    BY <1>4, <1>5

-----------------------------------------------------------------------------

(* The inductive invariant: the readings are in order; while the rate stays *)
(* the same the limiter's time is that of the last start, from which both   *)
(* the delay and the deadline are counted; and but for an interruption      *)
(* nothing is pending or under way but one timer or one frame, and that     *)
(* only for a loan whose handler is over.                                   *)
Ordered == /\ Ns(now) > 0
           /\ Ns(last) > 0 /\ Ns(last) <= Ns(now)
           /\ Ns(reading) <= Ns(now)

OneCapture == /\ \A t, u \in Timers : at[t] # None /\ at[u] # None => t = u
              /\ frames > 0 => NonePending
              /\ frames <= 1
              /\ pc # "idle" => loan /\ Quiet
              /\ ~ loan => Quiet

Counted ==
  steady =>
    /\ framerate > 0 => frame_last_time = last
    /\ pc = "add" => delay = framerate - (Ns(reading) - Ns(last))
    /\ pc = "start" => Ns(now) - Ns(last) >= framerate

IInv == /\ TypeOK
        /\ Ordered
        /\ Counted
        /\ ~ interrupted => OneCapture
        /\ PacingKept
        /\ TimerIsExact

LEMMA InitIInv == Init => IInv
  <1> SUFFICES ASSUME Init PROVE IInv
    OBVIOUS
  <1>1. /\ now \in Timespec /\ frame_last_time \in Timespec
        /\ Ns(now) = NSEC_PER_SEC
    BY FramePacingAssumption DEF Init, Timespec, Ns
  <1>2. NSEC_PER_SEC > 0 /\ NSEC_PER_SEC \in Nat
    BY FramePacingAssumption
  <1>3. last = now /\ reading = now /\ interrupted = FALSE /\ steady = FALSE
        /\ frames = 0
        /\ \A t \in Timers : at[t] = None
    BY DEF Init
  <1>4. TypeOK
    <2>1. loan \in BOOLEAN /\ frames \in Nat
      BY DEF Init
    <2> QED
      BY <1>1, <1>3, <2>1 DEF Init, TypeOK
  <1> QED
    BY <1>1, <1>2, <1>3, <1>4 DEF Init, IInv, Ordered, OneCapture, Counted,
                                  PacingKept, TimerIsExact, NonePending, Quiet

LEMMA TickIInv == ASSUME IInv, Tick PROVE IInv'
  <1>1. /\ now' \in Timespec /\ Ns(now') = Ns(now) + 1
        /\ UNCHANGED <<framerate, frame_last_time, delay, at, loan, frames, pc,
                       reading, last, steady, gap, interrupted>>
    <2>1. now.sec \in Nat /\ now.nsec \in Nat /\ now.nsec < NSEC_PER_SEC
          /\ NSEC_PER_SEC \in Nat \ {0}
      BY NsType, FramePacingAssumption DEF IInv, TypeOK
    <2>2. CASE now.nsec + 1 < NSEC_PER_SEC
      <3>1. now' = [sec |-> now.sec, nsec |-> now.nsec + 1]
        BY <2>2 DEF Tick, IInv, TypeOK, Timespec
      <3>2. now' \in Timespec /\ Ns(now') = Ns(now) + 1
        BY <2>1, <2>2, <3>1, Distribute DEF Timespec, Ns
      <3> QED
        BY <3>2 DEF Tick, history
    <2>3. CASE ~ (now.nsec + 1 < NSEC_PER_SEC)
      <3>1. now' = [sec |-> now.sec + 1, nsec |-> 0]
        BY <2>3 DEF Tick
      <3>2. (now.sec + 1) * NSEC_PER_SEC = now.sec * NSEC_PER_SEC + now.nsec + 1
        <4>1. now.nsec + 1 = NSEC_PER_SEC
          BY <2>1, <2>3
        <4>2. (now.sec + 1) * NSEC_PER_SEC
                = now.sec * NSEC_PER_SEC + 1 * NSEC_PER_SEC
          BY <2>1, Distribute
        <4>3. 1 * NSEC_PER_SEC = NSEC_PER_SEC
          BY <2>1
        <4> QED
          BY <2>1, <4>1, <4>2, <4>3, Distribute
      <3>3. now' \in Timespec /\ Ns(now') = Ns(now) + 1
        BY <2>1, <3>1, <3>2, Distribute DEF Timespec, Ns
      <3> QED
        BY <3>3 DEF Tick, history
    <2> QED
      BY <2>2, <2>3
  <1>2. /\ Ns(now) \in Nat /\ Ns(last) \in Nat /\ Ns(reading) \in Nat
        /\ Ns(last') = Ns(last) /\ Ns(reading') = Ns(reading)
        /\ framerate \in Nat
        /\ \A t \in Timers : at[t] # None => Ns(at[t]) \in Nat
    BY <1>1, NsType, FramePacingAssumption DEF IInv, TypeOK
  <1>3. TypeOK'
    BY <1>1 DEF IInv, TypeOK
  <1>4. Ordered'
    BY <1>1, <1>2 DEF IInv, Ordered
  <1>5. Counted' /\ (~ interrupted' => OneCapture')
    BY <1>1, <1>2 DEF IInv, OneCapture, Counted, NonePending, Quiet
  <1>6. TimerIsExact'
    BY <1>1, <1>2 DEF IInv, TimerIsExact
  <1> QED
    BY <1>1, <1>3, <1>4, <1>5, <1>6 DEF IInv, PacingKept

(* What the limiter returns is the rest of the interval.                    *)
LEMMA MeasureIInv == ASSUME IInv, fps_limit_measure_end PROVE IInv'
  <1> DEFINE delay_ns == framerate - timespec_diff_ns(now, frame_last_time)
  <1>1. /\ pc = "measure" /\ reading' = now
        /\ UNCHANGED <<now, framerate, frame_last_time, at, loan, frames, last,
                       steady, gap, interrupted>>
        /\ \/ /\ framerate = 0 \/ timespec_is_zero(frame_last_time) \/ delay_ns <= 0
              /\ pc' = "start" /\ UNCHANGED delay
           \/ /\ framerate # 0 /\ ~ (delay_ns <= 0)
              /\ pc' = "add" /\ delay' = delay_ns
    BY DEF fps_limit_measure_end
  <1>2. /\ Ns(now) \in Nat /\ Ns(last) \in Nat /\ Ns(frame_last_time) \in Nat
        /\ framerate \in Nat
        /\ delay_ns = framerate - (Ns(now) - Ns(frame_last_time))
    BY NsType, DifferenceIsExact, FramePacingAssumption DEF IInv, TypeOK
  <1>3. timespec_is_zero(frame_last_time) => Ns(frame_last_time) = 0
    BY FramePacingAssumption DEF timespec_is_zero, Ns
  <1> HIDE DEF delay_ns
  <1>4. TypeOK'
    BY <1>1, <1>2 DEF IInv, TypeOK
  <1>5. Ordered'
    BY <1>1, <1>2 DEF IInv, Ordered
  <1>6. ~ interrupted => loan /\ Quiet
    BY <1>1 DEF IInv, OneCapture
  <1>7. Counted'
    BY <1>1, <1>2, <1>3 DEF IInv, Counted, Ordered
  <1>8. TimerIsExact'
    BY <1>1, <1>6 DEF IInv, TimerIsExact, NonePending, Quiet
  <1>9. ~ interrupted' => OneCapture'
    BY <1>1, <1>6 DEF OneCapture, NonePending, Quiet
  <1> QED
    BY <1>1, <1>4, <1>5, <1>7, <1>8, <1>9 DEF IInv, PacingKept

LEMMA AddTimerIInv ==
  ASSUME IInv, NEW t \in Timers, xdpw_add_timer(t) PROVE IInv'
  <1>1. /\ pc = "add" /\ at[t] = None /\ pc' = "idle"
        /\ at' = [at EXCEPT ![t] = timespec_add(now, delay)]
        /\ UNCHANGED <<now, framerate, frame_last_time, delay, loan, frames,
                       reading, last, steady, gap, interrupted>>
    BY DEF xdpw_add_timer, history
  <1>2. /\ at'[t] \in Timespec /\ Ns(at'[t]) = Ns(now) + delay
        /\ \A u \in Timers : u # t => at'[u] = at[u]
    BY <1>1, SumIsExact DEF IInv, TypeOK
  <1>3. /\ Ns(now) \in Nat /\ Ns(last) \in Nat /\ Ns(reading) \in Nat
        /\ framerate \in Nat /\ delay \in Nat
    BY NsType, FramePacingAssumption DEF IInv, TypeOK
  <1>4. TypeOK'
    BY <1>1, <1>2 DEF IInv, TypeOK
  <1>5. ~ interrupted => loan /\ Quiet
    BY <1>1 DEF IInv, OneCapture
  <1>6. TimerIsExact'
    <2> SUFFICES ASSUME NEW u \in Timers, at'[u] # None
                 PROVE  /\ at'[u] \in Timespec
                        /\ steady' /\ ~ interrupted' =>
                             /\ Ns(at'[u]) >= Ns(last') + framerate'
                             /\ Ns(at'[u]) <= Ns(now') - Ns(reading') + Ns(last')
                                                 + framerate'
      BY DEF TimerIsExact
    <2>1. CASE u = t
      BY <1>1, <1>2, <1>3, <2>1 DEF IInv, Counted, Ordered
    <2>2. CASE u # t
      BY <1>1, <1>2, <1>5, <2>2 DEF IInv, TimerIsExact, NonePending, Quiet
    <2> QED
      BY <2>1, <2>2
  <1>7. ~ interrupted' => OneCapture'
    BY <1>1, <1>2, <1>5 DEF OneCapture, NonePending, Quiet
  <1> QED
    BY <1>1, <1>4, <1>6, <1>7 DEF IInv, Counted, Ordered, PacingKept

(* A capture starts: no sooner than the interval after the last one.        *)
LEMMA StartIInv ==
  ASSUME IInv,
         \/ wlr_frame_capture_start
         \/ \E t \in Timers : wlr_frame_capture_timer(t)
  PROVE  IInv'
  <1>1. /\ frame_last_time' = IF framerate > 0 THEN now ELSE frame_last_time
        /\ last' = now
        /\ gap' = IF steady THEN Ns(now) - Ns(last) ELSE None
        /\ steady' = TRUE
        /\ UNCHANGED <<now, framerate, delay, reading, interrupted>>
    BY DEF wlr_frame_capture_start, wlr_frame_capture_timer,
           fps_limit_measure_start
  <1>2. /\ Ns(now) \in Nat /\ Ns(last) \in Nat /\ Ns(reading) \in Nat
        /\ framerate \in Nat
    BY NsType, FramePacingAssumption DEF IInv, TypeOK
  <1>3. /\ at' \in [Timers -> Timespec \union {None}]
        /\ frames' \in {frames, frames + 1}
        /\ pc' = "idle"
        /\ UNCHANGED loan
        /\ \A t \in Timers : at'[t] # None => at'[t] = at[t]
        /\ ~ interrupted => loan /\ frames = 0 /\ NonePending'
        /\ ~ interrupted /\ steady => Ns(now) - Ns(last) >= framerate
    <2>1. CASE wlr_frame_capture_start
      BY <2>1 DEF wlr_frame_capture_start, IInv, TypeOK, OneCapture, Counted,
                  NonePending, Quiet
    <2>2. ASSUME NEW t \in Timers, wlr_frame_capture_timer(t) PROVE <1>3
      <3>1. /\ at[t] # None /\ ~ timespec_less(now, at[t])
            /\ pc = "idle"
            /\ at' = [at EXCEPT ![t] = None]
            /\ frames' \in {frames, frames + 1}
            /\ UNCHANGED <<loan, pc>>
        BY <2>2 DEF wlr_frame_capture_timer
      <3>2. at[t] \in Timespec /\ Ns(at[t]) \in Nat /\ Ns(now) >= Ns(at[t])
        BY <1>2, <3>1, LessIsEarlier, NsType DEF IInv, TypeOK
      <3>3. ~ interrupted => loan /\ frames = 0 /\ NonePending'
        BY <3>1 DEF IInv, TypeOK, OneCapture, NonePending, Quiet
      <3>4. ~ interrupted /\ steady => Ns(now) - Ns(last) >= framerate
        BY <1>2, <3>1, <3>2 DEF IInv, TimerIsExact
      <3> QED
        BY <3>1, <3>3, <3>4 DEF IInv, TypeOK
    <2> QED
      BY <2>1, <2>2
  <1>4. /\ gap' \in Int \union {None} /\ frame_last_time' \in Timespec
        /\ frames' \in Nat
    BY <1>1, <1>2, <1>3 DEF IInv, TypeOK
  <1>5. TypeOK'
    BY <1>1, <1>3, <1>4 DEF IInv, TypeOK
  <1>6. Ordered'
    BY <1>1, <1>2 DEF IInv, Ordered
  <1>7. Counted'
    BY <1>1, <1>3 DEF Counted
  <1>8. ~ interrupted' => OneCapture'
    BY <1>1, <1>3 DEF OneCapture, NonePending
  <1>9. PacingKept'
    BY <1>1, <1>3 DEF PacingKept
  <1>10. TimerIsExact'
    BY <1>1, <1>3 DEF IInv, TimerIsExact, NonePending
  <1> QED
    BY <1>5, <1>6, <1>7, <1>8, <1>9, <1>10 DEF IInv

(* A loan that begins with nothing left over is the only one: whatever      *)
(* happened before it is got over.                                          *)
LEMMA LendIInv == ASSUME IInv, pwr_handle_stream_on_process PROVE IInv'
  <1>1. /\ pc = "idle" /\ ~ loan /\ pc' = "measure" /\ loan'
        /\ interrupted' = (interrupted /\ ~ Quiet)
        /\ gap' = IF interrupted /\ Quiet THEN None ELSE gap
        /\ UNCHANGED <<now, framerate, frame_last_time, delay, at, frames,
                       reading, last, steady>>
    BY DEF pwr_handle_stream_on_process
  <1>2. TypeOK'
    BY <1>1 DEF pwr_handle_stream_on_process, IInv, TypeOK
  <1>3. ~ interrupted' => Quiet
    BY <1>1 DEF IInv, OneCapture
  <1>4. ~ interrupted' => OneCapture'
    BY <1>1, <1>3 DEF OneCapture, Quiet, NonePending
  <1>5. PacingKept' /\ TimerIsExact'
    BY <1>1, <1>3 DEF IInv, PacingKept, TimerIsExact, Quiet, NonePending
  <1> QED
    BY <1>1, <1>2, <1>4, <1>5 DEF IInv, Ordered, Counted

(* The rest neither starts a capture nor puts one off.                      *)
LEMMA OtherIInv ==
  ASSUME IInv,
         \/ FrameEnds
         \/ LoanEnds
         \/ \E i \in Intervals : pwr_handle_stream_param_changed(i)
         \/ UNCHANGED vars
  PROVE  IInv'
  <1>1. CASE FrameEnds
    <2>1. /\ pc = "idle" /\ loan' = FALSE /\ frames' \in Nat /\ frames' < frames
          /\ UNCHANGED <<now, framerate, frame_last_time, delay, at, pc, reading,
                         last, steady, gap, interrupted>>
      BY <1>1 DEF FrameEnds, history, IInv, TypeOK
    <2>2. ~ interrupted' => OneCapture'
      BY <2>1 DEF IInv, TypeOK, OneCapture, NonePending, Quiet
    <2> QED
      BY <2>1, <2>2 DEF IInv, TypeOK, Ordered, Counted, PacingKept, TimerIsExact
  <1>2. CASE LoanEnds
    BY <1>2 DEF LoanEnds, IInv, TypeOK, Ordered, Counted, PacingKept, TimerIsExact
  <1>3. ASSUME NEW i \in Intervals, pwr_handle_stream_param_changed(i)
        PROVE  IInv'
    BY <1>3 DEF pwr_handle_stream_param_changed, IInv, TypeOK, Ordered,
                OneCapture, Counted, PacingKept, TimerIsExact, NonePending, Quiet
  <1>4. CASE UNCHANGED vars
    BY <1>4 DEF vars, history, IInv, TypeOK, Ordered, OneCapture, Counted,
                PacingKept, TimerIsExact, NonePending, Quiet
  <1> QED
    BY <1>1, <1>2, <1>3, <1>4

LEMMA Invariance == Spec => []IInv
  <1>1. IInv /\ [Next]_vars => IInv'
    BY TickIInv, LendIInv, MeasureIInv, AddTimerIInv, StartIInv, OtherIInv
       DEF Next, pwr_handle_stream_state_changed, pwr_handle_stream_remove_buffer
  <1> QED
    BY InitIInv, <1>1, PTL DEF Spec

(* Types of the frame limiter; every deadline is a valid struct timespec.   *)
THEOREM TypeCorrect == Spec => []TypeOK
  BY Invariance, PTL DEF IInv

(* Captures keep the agreed rate.                                           *)
THEOREM RateIsKept == Spec => []PacingKept
  BY Invariance, PTL DEF IInv

(* A capture is put off to the end of its interval and no further.          *)
THEOREM DelayIsExact == Spec => []TimerIsExact
  BY Invariance, PTL DEF IInv
==============================================================================
