--------------------------- MODULE EventLoopProofs ---------------------------
(***************************************************************************)
(* Where the loop may wait, for any descriptors that report a hang-up and   *)
(* any number of messages.                                                  *)
(***************************************************************************)
EXTENDS EventLoop, TLAPS

(* The inductive invariant: until a round trip is made, what poll reported  *)
(* from the compositor is still there, and wl_display_dispatch is reached   *)
(* with such a report only.                                                 *)
ReportHolds ==
  loop \in {"dbus", "wayland", "dispatch"} /\ "wayland" \in revents /\ ~ tripped
    => waiting["wayland"] > 0

IInv == /\ TypeOK
        /\ ReportHolds
        /\ loop = "dispatch" => "wayland" \in revents
        /\ SentBeforeSleeping

LEMMA ZeroWaits == 0 \in 0..MaxWaiting
  BY EventLoopAssumption

LEMMA WaitingExcept ==
  ASSUME NEW w \in [Sources -> 0..MaxWaiting], NEW s, NEW n \in 0..MaxWaiting
  PROVE  [w EXCEPT ![s] = n] \in [Sources -> 0..MaxWaiting]
  OBVIOUS

LEMMA InitIInv == Init => IInv
  <1> SUFFICES ASSUME Init PROVE IInv
    OBVIOUS
  <1>1. waiting \in [Sources -> 0..MaxWaiting] /\ messages \in 0..MaxMessages
    BY EventLoopAssumption DEF Init
  <1> QED
    BY <1>1 DEF Init, IInv, TypeOK, ReportHolds, SentBeforeSleeping

(* What comes from outside only adds to what is waiting.                    *)
LEMMA OutsideIInv ==
  ASSUME IInv, NEW s \in Sources, Arrive(s) \/ HangUp(s)
  PROVE  IInv'
  <1>1. CASE Arrive(s)
    <2>1. /\ waiting' = [waiting EXCEPT ![s] = @ + 1]
          /\ waiting[s] \in 0..MaxWaiting
          /\ waiting[s] < MaxWaiting
          /\ UNCHANGED <<loop, rqueue, unsent, revents, gone, started, tripped,
                         refused>>
      <3>1. waiting[s] < IF s = "timer" THEN 1 ELSE MaxWaiting
        BY <1>1 DEF Arrive
      <3> QED
        BY <1>1, <3>1, EventLoopAssumption DEF Arrive, IInv, TypeOK, history
    <2>2. messages' \in 0..MaxMessages
      BY <1>1, EventLoopAssumption DEF Arrive, IInv, TypeOK
    <2>3. /\ waiting' \in [Sources -> 0..MaxWaiting]
          /\ \A t \in Sources : waiting[t] > 0 => waiting'[t] > 0
      BY <2>1, EventLoopAssumption DEF IInv, TypeOK
    <2>4. TypeOK'
      BY <2>1, <2>2, <2>3 DEF IInv, TypeOK
    <2> QED
      BY <2>1, <2>3, <2>4 DEF IInv, ReportHolds, SentBeforeSleeping, Sources
  <1>2. CASE HangUp(s)
    BY <1>2 DEF HangUp, IInv, TypeOK, ReportHolds, SentBeforeSleeping, history
  <1> QED
    BY <1>1, <1>2

LEMMA PollIInv == ASSUME IInv, Poll PROVE IInv'
  <1>1. /\ loop = "poll" /\ loop' \in {"left", "dbus"} /\ revents' = Served
        /\ UNCHANGED <<waiting, rqueue, unsent, gone, messages, started, refused>>
        /\ tripped' = FALSE
    BY DEF Poll, outside
  <1>2. Served \in SUBSET Sources /\ ("wayland" \in Served => waiting["wayland"] > 0)
    BY DEF Served, Readable, Sources
  <1>3. TypeOK'
    BY <1>1, <1>2 DEF IInv, TypeOK
  <1> QED
    BY <1>1, <1>2, <1>3 DEF IInv, ReportHolds, SentBeforeSleeping

LEMMA ProcessIInv == ASSUME IInv, sd_bus_process PROVE IInv'
  <1>1. PICK w \in [Sources -> 0..MaxWaiting] :
          /\ TakeMessage(w)
          /\ \/ /\ waiting' = w
                /\ unsent' \in {unsent, TRUE}
                /\ loop' \in {"dbus", "left"}
                /\ UNCHANGED tripped
             \/ /\ \E left \in {0, w["pipewire"]} :
                     waiting' = [w EXCEPT !["wayland"] = 0, !["pipewire"] = left]
                /\ unsent' \in BOOLEAN
                /\ tripped' = TRUE
                /\ UNCHANGED loop
    BY DEF sd_bus_process
  <1>2. /\ loop = "dbus"
        /\ UNCHANGED <<revents, gone, messages, started, refused>>
    BY DEF sd_bus_process, outside
  <1>3. rqueue' \in 0..MaxWaiting /\ w["wayland"] = waiting["wayland"]
    BY <1>1, EventLoopAssumption DEF TakeMessage, IInv, TypeOK, Sources
  <1>4. /\ waiting' \in [Sources -> 0..MaxWaiting]
        /\ ~ tripped' => waiting'["wayland"] = waiting["wayland"] /\ ~ tripped
    <2>1. CASE waiting' = w /\ UNCHANGED tripped
      BY <1>3, <2>1
    <2>2. ASSUME NEW left \in {0, w["pipewire"]}, tripped',
                 waiting' = [w EXCEPT !["wayland"] = 0, !["pipewire"] = left]
          PROVE  waiting' \in [Sources -> 0..MaxWaiting]
      <3>1. left \in 0..MaxWaiting
        BY ZeroWaits DEF Sources
      <3>2. [w EXCEPT !["wayland"] = 0] \in [Sources -> 0..MaxWaiting]
        BY ZeroWaits, WaitingExcept
      <3> QED
        BY <2>2, <3>1, <3>2, WaitingExcept
    <2> QED
      BY <1>1, <2>1, <2>2
  <1>5. unsent' \in BOOLEAN /\ tripped' \in BOOLEAN
    BY <1>1 DEF IInv, TypeOK
  <1>6. loop' \in {"dbus", "left"}
    BY <1>1, <1>2
  <1>7. TypeOK'
    BY <1>2, <1>3, <1>4, <1>5, <1>6 DEF IInv, TypeOK
  <1> QED
    BY <1>2, <1>4, <1>6, <1>7 DEF IInv, ReportHolds, SentBeforeSleeping

LEMMA ServeIInv ==
  ASSUME IInv,
         \/ ProcessedAll
         \/ CheckWayland
         \/ wl_display_dispatch
         \/ Serve("pipewire", "timer")
         \/ Serve("timer", "pending")
         \/ Flush
  PROVE  IInv'
  <1>1. CASE ProcessedAll \/ CheckWayland
    BY <1>1 DEF ProcessedAll, CheckWayland, IInv, TypeOK, ReportHolds,
       SentBeforeSleeping, outside, history
  <1>2. CASE wl_display_dispatch
    <2>1. /\ waiting' \in [Sources -> 0..MaxWaiting] /\ unsent' \in BOOLEAN
          /\ loop' \in {"pipewire", "left"}
      BY <1>2, EventLoopAssumption DEF wl_display_dispatch, IInv, TypeOK
    <2> QED
      BY <1>2, <2>1 DEF wl_display_dispatch, IInv, TypeOK, ReportHolds,
         SentBeforeSleeping, outside, history
  <1>3. ASSUME NEW s \in {"pipewire", "timer"}, NEW then \in {"timer", "pending"},
               Serve(s, then)
        PROVE  IInv'
    <2>1. waiting' \in [Sources -> 0..MaxWaiting] /\ unsent' \in BOOLEAN
      <3>1. CASE s \in revents
        <4>1. [waiting EXCEPT ![s] = 0] \in [Sources -> 0..MaxWaiting]
          BY ZeroWaits, WaitingExcept DEF IInv, TypeOK
        <4> QED
          BY <1>3, <3>1, <4>1 DEF Serve, IInv, TypeOK
      <3>2. CASE s \notin revents
        BY <1>3, <3>2 DEF Serve, IInv, TypeOK
      <3> QED
        BY <3>1, <3>2
    <2> QED
      BY <1>3, <2>1 DEF Serve, IInv, TypeOK, ReportHolds, SentBeforeSleeping,
         outside, history
  <1>4. CASE Flush
    BY <1>4 DEF Flush, IInv, TypeOK, ReportHolds, SentBeforeSleeping, outside
  <1> QED
    BY <1>1, <1>2, <1>3, <1>4

LEMMA NextIInv == IInv /\ [Next]_vars => IInv'
  <1> SUFFICES ASSUME IInv, [Next]_vars PROVE IInv'
    OBVIOUS
  <1>1. CASE Next
    BY <1>1, OutsideIInv, PollIInv, ProcessIInv, ServeIInv DEF Next, Iterate
  <1>2. CASE UNCHANGED vars
    BY <1>2 DEF vars, outside, history, IInv, TypeOK, ReportHolds,
       SentBeforeSleeping
  <1> QED
    BY <1>1, <1>2

LEMMA Inductive == Spec => []IInv
  BY InitIInv, NextIInv, PTL DEF Spec

(* The loop is always at one of its steps with well-formed state.           *)
THEOREM TypeCorrect == Spec => []TypeOK
  BY Inductive, PTL DEF IInv

(* Outside of poll the loop waits only after a round trip of a handler.     *)
THEOREM LoopWaitsInPoll == Spec => []WaitsInPollOnly
  <1>1. IInv => WaitsInPollOnly
    BY DEF IInv, TypeOK, ReportHolds, WaitsInPollOnly, Stuck, Sources
  <1> QED
    BY <1>1, Inductive, PTL

(* The daemon does not sleep on requests it could have sent.                *)
THEOREM RequestsAreSent == Spec => []SentBeforeSleeping
  BY Inductive, PTL DEF IInv
=============================================================================
