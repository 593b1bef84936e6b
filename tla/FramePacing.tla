----------------------------- MODULE FramePacing -----------------------------
(***************************************************************************)
(* The frame limiter of one instance (fps_limit.c, timespec_util.c and the  *)
(* callers in wlr_screencast.c): how long a capture is put off so that      *)
(* captures do not follow each other faster than the agreed rate.  The      *)
(* clock is read three times, and moves on between the readings.            *)
(*                                                                         *)
(* A loan, its timer and its frame go their own ways: a pause ends the loan *)
(* and leaves the timer or the frame behind, and the answer of a frame left *)
(* behind ends the next loan, whatever that one waits for.                  *)
(*                                                                         *)
(* Data abstracted: framerate stands for target_ns, the interval the rate   *)
(* asks for, and is 0 without a limit; a second has NSEC_PER_SEC            *)
(* nanoseconds.  The measured frame rate is only logged and is left out.    *)
(* Buffers and frame objects are in Capture; here there is a loan or none,  *)
(* and a number of frames.                                                  *)
(***************************************************************************)
EXTENDS Integers

CONSTANTS NSEC_PER_SEC,   \* TIMESPEC_NSEC_PER_SEC
          Intervals,      \* target_ns of the rates that may be agreed on
          Timers,         \* timer objects, a bound
          None,           \* no timer, nothing measured
          MaxFrames,      \* bound on the frames when a loan begins
          MaxSec          \* bound on the clock

Timespec == [sec : Nat, nsec : 0..(NSEC_PER_SEC - 1)]

ASSUME FramePacingAssumption ==
  /\ NSEC_PER_SEC \in Nat \ {0}
  /\ Intervals \subseteq Nat
  /\ None \notin Timespec \union Int
  /\ MaxFrames \in Nat \ {0}
  /\ MaxSec \in Nat

VARIABLES now,              \* CLOCK_MONOTONIC
          framerate,        \* cast->framerate
          frame_last_time,  \* fps_limit.frame_last_time
          delay,            \* what fps_limit_measure_end returned
          at,               \* the deadline of each timer
          loan,             \* current_frame.pw_buffer is set
          frames,           \* frames under way, whose answer will end a loan
          pc,               \* where the handler of process is, if it runs
          reading,          \* history: the clock as measure_end read it
          last,             \* history: when the last capture started
          steady,           \* history: the rate is that of the last start
          gap,              \* history: from the start before to the last
          interrupted       \* history: PipeWire ended a loan, and none began
                            \* since with nothing left over from then

history == <<reading, last, steady, gap, interrupted>>
vars == <<now, framerate, frame_last_time, delay, at, loan, frames, pc, history>>

-----------------------------------------------------------------------------

NonePending == \A t \in Timers : at[t] = None

(* Nothing is left over from an earlier capture (Quiet in Capture).         *)
Quiet == NonePending /\ frames = 0

(* Nanoseconds since the clock's zero.                                      *)
Ns(t) == t.sec * NSEC_PER_SEC + t.nsec

\* Mutant: the carry is forgotten.
timespec_add_NoCarry(t, delta_ns) ==
  [sec |-> t.sec + (delta_ns \div NSEC_PER_SEC),
   nsec |-> t.nsec + (delta_ns % NSEC_PER_SEC)]

timespec_add(t, delta_ns) ==
  LET sec == t.sec + (delta_ns \div NSEC_PER_SEC)
      nsec == t.nsec + (delta_ns % NSEC_PER_SEC)
  IN  IF nsec >= NSEC_PER_SEC THEN [sec |-> sec + 1, nsec |-> nsec - NSEC_PER_SEC]
      ELSE [sec |-> sec, nsec |-> nsec]

timespec_less(t1, t2) == IF t1.sec # t2.sec THEN t1.sec < t2.sec
                         ELSE t1.nsec < t2.nsec

timespec_is_zero(t) == t.sec = 0 /\ t.nsec = 0

\* Mutant: the nanoseconds are taken from each other the other way around.
timespec_diff_ns_Swapped(t1, t2) ==
  (t1.sec - t2.sec) * NSEC_PER_SEC + (t2.nsec - t1.nsec)

timespec_diff_ns(t1, t2) ==
  (t1.sec - t2.sec) * NSEC_PER_SEC + (t1.nsec - t2.nsec)

-----------------------------------------------------------------------------

TypeOK ==
  /\ now \in Timespec /\ reading \in Timespec /\ last \in Timespec
  /\ framerate \in Intervals
  /\ frame_last_time \in Timespec
  /\ delay \in Nat
  /\ at \in [Timers -> Timespec \union {None}]
  /\ loan \in BOOLEAN
  /\ frames \in Nat
  /\ pc \in {"idle", "measure", "add", "start"}
  /\ steady \in BOOLEAN /\ interrupted \in BOOLEAN
  /\ gap \in Int \union {None}

(* The clock does not start at zero, which stands for "never".              *)
Init == /\ now = [sec |-> 1, nsec |-> 0]
        /\ framerate \in Intervals
        /\ frame_last_time = [sec |-> 0, nsec |-> 0]
        /\ delay = 0
        /\ at = [t \in Timers |-> None]
        /\ loan = FALSE
        /\ frames = 0
        /\ pc = "idle"
        /\ reading = now
        /\ last = now
        /\ steady = FALSE
        /\ gap = None
        /\ interrupted = FALSE

Tick == /\ now.sec < MaxSec
        /\ now' = IF now.nsec + 1 < NSEC_PER_SEC
                  THEN [now EXCEPT !.nsec = @ + 1]
                  ELSE [sec |-> now.sec + 1, nsec |-> 0]
        /\ UNCHANGED <<framerate, frame_last_time, delay, at, loan, frames, pc,
                       history>>

(* A buffer is lent, and a capture asked for, in this and the next actions  *)
(* up to pc = "idle", between which only the clock moves.  With nothing     *)
(* left over, an interruption is got over, and what it did to the last gap  *)
(* forgotten.                                                               *)
pwr_handle_stream_on_process ==
  /\ pc = "idle"
  /\ ~ loan
  /\ frames < MaxFrames /\ \E t \in Timers : at[t] = None
  /\ loan' = TRUE
  /\ pc' = "measure"
  /\ interrupted' = (interrupted /\ ~ Quiet)
  /\ gap' = IF interrupted /\ Quiet THEN None ELSE gap
  /\ UNCHANGED <<now, framerate, frame_last_time, delay, at, frames, reading,
                 last, steady>>

fps_limit_measure_end ==
  LET delay_ns == framerate - timespec_diff_ns(now, frame_last_time)
  IN  /\ pc = "measure"
      /\ IF framerate = 0 \/ timespec_is_zero(frame_last_time) \/ delay_ns <= 0
         THEN pc' = "start" /\ UNCHANGED delay
         ELSE pc' = "add" /\ delay' = delay_ns
      /\ reading' = now
      /\ UNCHANGED <<now, framerate, frame_last_time, at, loan, frames, last,
                     steady, gap, interrupted>>

(* The timer reads the clock anew.                                          *)
xdpw_add_timer(t) ==
  /\ pc = "add"
  /\ at[t] = None
  /\ at' = [at EXCEPT ![t] = timespec_add(now, delay)]
  /\ pc' = "idle"
  /\ UNCHANGED <<now, framerate, frame_last_time, delay, loan, frames, history>>

(* fps_limit_measure_start, and the history of the starts.                  *)
fps_limit_measure_start ==
  /\ frame_last_time' = IF framerate > 0 THEN now ELSE frame_last_time
  /\ last' = now
  /\ gap' = IF steady THEN Ns(now) - Ns(last) ELSE None
  /\ steady' = TRUE
  /\ UNCHANGED <<now, framerate, delay, reading, interrupted>>

wlr_frame_capture_start ==
  /\ pc = "start"
  /\ fps_limit_measure_start
  /\ frames' = frames + 1
  /\ pc' = "idle"
  /\ UNCHANGED <<at, loan>>

(* The timer's callback.  The limiter is told before the protocol finds     *)
(* that there is no buffer (ext) or no running stream (screencopy), and     *)
(* starts no frame.                                                         *)
wlr_frame_capture_timer(t) ==
  /\ pc = "idle"
  /\ at[t] # None
  /\ ~ timespec_less(now, at[t])
  /\ at' = [at EXCEPT ![t] = None]
  /\ fps_limit_measure_start
  /\ frames' \in {frames, frames + 1}
  /\ UNCHANGED <<loan, pc>>

(* A frame is ready, or failed: whatever buffer is on loan goes back, and   *)
(* the frame destroyed may be a later one (wlr_frame_finish in Capture).    *)
FrameEnds ==
  /\ pc = "idle"
  /\ frames' \in {n \in {frames - 1, frames - 2} : n >= 0}
  /\ loan' = FALSE
  /\ UNCHANGED <<now, framerate, frame_last_time, delay, at, pc, history>>

(* PipeWire ends the loan; the timer or the frame stays.                    *)
LoanEnds ==
  /\ pc = "idle"
  /\ loan
  /\ loan' = FALSE
  /\ interrupted' = TRUE
  /\ UNCHANGED <<now, framerate, frame_last_time, delay, at, frames, pc, reading,
                 last, steady, gap>>

(* The stream pauses.                                                       *)
pwr_handle_stream_state_changed == LoanEnds

(* The buffer on loan is taken away.                                        *)
pwr_handle_stream_remove_buffer == LoanEnds

(* A new format may bring another rate.                                     *)
pwr_handle_stream_param_changed(interval) ==
  /\ pc = "idle"
  /\ interval # framerate
  /\ framerate' = interval
  /\ steady' = FALSE
  /\ gap' = None
  /\ UNCHANGED <<now, frame_last_time, delay, at, loan, frames, pc, reading, last,
                 interrupted>>

Next == \/ Tick
        \/ pwr_handle_stream_on_process
        \/ fps_limit_measure_end
        \/ \E t \in Timers : xdpw_add_timer(t) \/ wlr_frame_capture_timer(t)
        \/ wlr_frame_capture_start
        \/ FrameEnds
        \/ pwr_handle_stream_state_changed
        \/ pwr_handle_stream_remove_buffer
        \/ \E i \in Intervals : pwr_handle_stream_param_changed(i)

Spec == Init /\ [][Next]_vars

-----------------------------------------------------------------------------

(* max_fps limits the frames per second: as long as the rate stays the same *)
(* two captures start no closer to each other than the interval of the      *)
(* rate, however the clock moves in between.  Excepted is the time after    *)
(* PipeWire ended a loan, by a pause or by taking the buffer away: the      *)
(* timer that stays starts a capture of its own; the answer of a frame that *)
(* stays ends the next loan early, whose timer then fires along with that   *)
(* of the loan after.  It is over when a loan begins with neither left.     *)
PacingKept == ~ interrupted /\ gap # None => gap >= framerate

(* A capture is put off no longer than needed: the timerfd is given a valid *)
(* time, and it is the last start and an interval later, but for the time   *)
(* that passed between the limiter's reading of the clock and the timer's.  *)
TimerIsExact ==
  \A t \in Timers :
    at[t] # None =>
      /\ at[t] \in Timespec
      /\ steady /\ ~ interrupted =>
           /\ Ns(at[t]) >= Ns(last) + framerate
           /\ Ns(at[t]) <= Ns(now) - Ns(reading) + Ns(last) + framerate
=============================================================================
