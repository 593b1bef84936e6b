---------------------------- MODULE CaptureProofs ----------------------------
(***************************************************************************)
(* The safety properties of Capture for every set of buffers and frames,   *)
(* both protocols and any number of pending timers.                        *)
(***************************************************************************)
EXTENDS Capture, TLAPS

(* The inductive invariant.  A loan ends in every handler that takes a      *)
(* frame away, and begins only where a timer or a frame is added; that      *)
(* needs a running stream, which only an initialized instance has.          *)
LoanInv == /\ TypeOK
           /\ \A b \in Buffers : buffer[b] = "held" <=> b = current
           /\ PausedHoldsNothing
           /\ HeldBufferHasCapture
           /\ ~ initialized => state = "paused" /\ current = None

LEMMA InitLoanInv == Init => LoanInv
  <1> SUFFICES ASSUME Init PROVE LoanInv
    OBVIOUS
  <1>1. PICK f \in Frames :
          frame = [g \in Frames |-> IF g = f /\ backend = "screencopy"
                                    THEN "requested" ELSE "none"]
    BY DEF Init
  <1>2. frame \in [Frames -> {"none", "requested", "offered", "idle",
                              "copying", "copied", "answered"}]
    BY <1>1
  <1>3. /\ buffer \in [Buffers -> {"none", "free", "held", "complete", "corrupt"}]
        /\ dest \in [Frames -> Buffers \union {None}]
        /\ timers \in 0..MaxTimers
    BY CaptureAssumption DEF Init
  <1>4. TypeOK
    BY <1>2, <1>3 DEF Init, TypeOK
  <1> QED
    BY <1>4, CaptureAssumption
       DEF Init, LoanInv, PausedHoldsNothing, HeldBufferHasCapture

LEMMA EnqueueEndsLoan ==
  ASSUME LoanInv, NEW complete \in BOOLEAN, xdpw_pwr_enqueue_buffer(complete)
  PROVE  /\ buffer' \in [Buffers -> {"none", "free", "held", "complete", "corrupt"}]
         /\ current' \in Buffers \union {None}
         /\ \A b \in Buffers : buffer'[b] = "held" <=> b = current'
         /\ up' \in {up, "undefined"}
         /\ up' = "undefined" \/ current' = None
         /\ ~ initialized => current' = None
  BY CaptureAssumption DEF LoanInv, TypeOK, xdpw_pwr_enqueue_buffer

LEMMA FinishType ==
  ASSUME TypeOK, NEW p, NEW f \in Frames, NEW s \in {"idle", "answered"},
         wlr_frame_finish(p, f, s)
  PROVE  /\ handle' \in Frames \union {None}
         /\ frame' \in [Frames -> {"none", "requested", "offered", "idle",
                                   "copying", "copied", "answered"}]
         /\ dest' \in [Frames -> Buffers \union {None}]
  BY DEF TypeOK, wlr_frame_finish

(* Starting a capture for a held buffer of a running stream puts a frame    *)
(* under way, and takes none away.                                          *)
LEMMA StartPutsUnderWay ==
  ASSUME LoanInv, NEW b \in Buffers \union {None}, wlr_frame_capture_start(b)
  PROVE  /\ handle' \in Frames \union {None}
         /\ frame' \in [Frames -> {"none", "requested", "offered", "idle",
                                   "copying", "copied", "answered"}]
         /\ dest' \in [Frames -> Buffers \union {None}]
         /\ up' \in {up, "refused"}
         /\ UnderWay \subseteq UnderWay'
         /\ b # None /\ state = "streaming" => UnderWay' # {}
  <1>1. CASE UNCHANGED <<up, objects>>
    <2>1. b = None \/ state # "streaming"
      BY <1>1, CaptureAssumption DEF wlr_frame_capture_start, xdpw_ext_ic_frame_capture,
         xdpw_wlr_sc_frame_capture,
         ext_register_frame_cb, wlr_register_cb, LoanInv, TypeOK, objects
    <2> QED
      BY <1>1, <2>1 DEF LoanInv, TypeOK, objects, UnderWay
  <1>2. ASSUME NEW f \in Frames, b # None, ext_register_frame_cb(f, b)
        PROVE  /\ handle' \in Frames \union {None}
               /\ frame' \in [Frames -> {"none", "requested", "offered", "idle",
                                         "copying", "copied", "answered"}]
               /\ dest' \in [Frames -> Buffers \union {None}]
               /\ up' \in {up, "refused"}
               /\ UnderWay \subseteq UnderWay'
               /\ f \in UnderWay'
    BY <1>2 DEF ext_register_frame_cb, LoanInv, TypeOK, UnderWay
  <1>3. ASSUME NEW f \in Frames, wlr_register_cb(f)
        PROVE  /\ handle' \in Frames \union {None}
               /\ frame' \in [Frames -> {"none", "requested", "offered", "idle",
                                         "copying", "copied", "answered"}]
               /\ dest' \in [Frames -> Buffers \union {None}]
               /\ up' \in {up, "refused"}
               /\ UnderWay \subseteq UnderWay'
               /\ f \in UnderWay'
    BY <1>3 DEF wlr_register_cb, LoanInv, TypeOK, UnderWay
  <1> QED
    BY <1>1, <1>2, <1>3 DEF wlr_frame_capture_start, xdpw_ext_ic_frame_capture,
         xdpw_wlr_sc_frame_capture

LEMMA BufferDoneStep ==
  ASSUME LoanInv, NEW f \in Frames, NEW p \in Frames \union {None},
         buffer_done(f, p), UNCHANGED <<stream, completed, y_invert, timers, copied>>
  PROVE  LoanInv'
  <1> USE DEF stream
  <1>1. CASE /\ initialized /\ current # None /\ handle' = p
             /\ frame' = [frame EXCEPT ![f] = "copying"]
             /\ dest' = [dest EXCEPT ![f] = current]
             /\ UNCHANGED <<up, buffer, current>>
    <2>1. TypeOK' /\ f \in UnderWay'
      BY <1>1 DEF LoanInv, TypeOK, UnderWay
    <2> QED
      BY <1>1, <2>1 DEF LoanInv, PausedHoldsNothing, HeldBufferHasCapture, Running
  <1>2. CASE /\ ~ initialized /\ wlr_frame_finish(p, f, "idle")
             /\ UNCHANGED <<up, buffer, current>>
    <2>1. TypeOK'
      BY <1>2, FinishType DEF LoanInv, TypeOK
    <2> QED
      BY <1>2, <2>1 DEF LoanInv, PausedHoldsNothing, HeldBufferHasCapture, Running
  <1>3. CASE /\ initialized /\ xdpw_pwr_enqueue_buffer(completed)
             /\ wlr_frame_finish(p, f, "idle")
    <2>1. completed \in BOOLEAN
      BY DEF LoanInv, TypeOK
    <2>2. TypeOK'
      BY <1>3, <2>1, FinishType, EnqueueEndsLoan DEF LoanInv, TypeOK
    <2> QED
      BY <1>3, <2>1, <2>2, EnqueueEndsLoan
         DEF LoanInv, PausedHoldsNothing, HeldBufferHasCapture, Running
  <1> QED
    BY <1>1, <1>2, <1>3 DEF buffer_done

(* The handlers that answer a frame: they give the buffer back and destroy  *)
(* a frame.                                                                 *)
LEMMA AnswerStep ==
  ASSUME LoanInv, NEW f \in Frames, NEW complete \in BOOLEAN,
         xdpw_pwr_enqueue_buffer(complete), wlr_frame_finish(handle, f, "answered"),
         completed' \in BOOLEAN, UNCHANGED <<stream, y_invert, timers, copied>>
  PROVE  LoanInv'
  <1>1. TypeOK'
    BY FinishType, EnqueueEndsLoan DEF LoanInv, TypeOK, stream
  <1> QED
    BY <1>1, EnqueueEndsLoan
       DEF LoanInv, PausedHoldsNothing, HeldBufferHasCapture, Running, stream

LEMMA NextLoanInv == LoanInv /\ [Next]_vars => LoanInv'
  <1> SUFFICES ASSUME LoanInv, [Next]_vars PROVE LoanInv'
    OBVIOUS
  <1> USE CaptureAssumption DEF PausedHoldsNothing, HeldBufferHasCapture, Running
  <1>1. CASE xdpw_pwr_stream_create
    BY <1>1 DEF xdpw_pwr_stream_create, LoanInv, TypeOK, UnderWay, loan, objects
  <1>2. ASSUME NEW new \in {"paused", "streaming", "error"},
               pwr_handle_stream_state_changed(new)
        PROVE  LoanInv'
    <2>1. CASE new = "paused"
      <3>1. xdpw_pwr_enqueue_buffer(completed) /\ completed \in BOOLEAN
        BY <1>2, <2>1 DEF pwr_handle_stream_state_changed, LoanInv, TypeOK
      <3>2. TypeOK'
        BY <1>2, <2>1, <3>1, EnqueueEndsLoan
           DEF pwr_handle_stream_state_changed, LoanInv, TypeOK, objects
      <3> QED
        BY <1>2, <2>1, <3>1, <3>2, EnqueueEndsLoan
           DEF pwr_handle_stream_state_changed, LoanInv
    <2>2. CASE new # "paused"
      BY <1>2, <2>2 DEF pwr_handle_stream_state_changed, LoanInv, TypeOK,
         objects, UnderWay
    <2> QED
      BY <2>1, <2>2
  <1>3. ASSUME NEW b \in Buffers,
               pwr_handle_stream_add_buffer(b) \/ Recycle(b)
        PROVE  LoanInv'
    BY <1>3 DEF pwr_handle_stream_add_buffer, Recycle, LoanInv, TypeOK, stream,
       objects, UnderWay
  <1>4. ASSUME NEW b \in Buffers, pwr_handle_stream_remove_buffer(b)
        PROVE  LoanInv'
    BY <1>4 DEF pwr_handle_stream_remove_buffer, LoanInv, TypeOK, stream, UnderWay
  <1>5. ASSUME NEW b \in Buffers, pwr_handle_stream_on_process(b) PROVE LoanInv'
    <2>1. /\ up = "running" /\ state = "streaming" /\ current = None
          /\ buffer[b] = "free"
          /\ buffer' = [buffer EXCEPT ![b] = "held"]
          /\ current' = b /\ completed' = FALSE /\ copied' = copied \ {b}
          /\ UNCHANGED <<backend, initialized, state, y_invert>>
          /\ interrupted' \in BOOLEAN
      BY <1>5 DEF pwr_handle_stream_on_process, xdpw_pwr_dequeue_buffer, stream
    <2>2. CASE /\ timers < MaxTimers /\ timers' = timers + 1
               /\ UNCHANGED <<up, objects>>
      <3>1. timers \in Nat /\ timers' \in 0..MaxTimers /\ timers' > 0
        BY <2>2 DEF LoanInv, TypeOK
      <3> QED
        BY <2>1, <2>2, <3>1 DEF LoanInv, TypeOK, objects
    <2>3. CASE wlr_frame_capture_start(b) /\ UNCHANGED timers
      <3>1. TypeOK' /\ UnderWay' # {}
        BY <2>1, <2>3, StartPutsUnderWay DEF LoanInv, TypeOK
      <3>2. \A a \in Buffers : buffer'[a] = "held" <=> a = current'
        BY <2>1 DEF LoanInv, TypeOK
      <3> QED
        BY <2>1, <3>1, <3>2 DEF LoanInv
    <2> QED
      BY <1>5, <2>2, <2>3 DEF pwr_handle_stream_on_process, xdpw_wlr_frame_capture
  <1>6. CASE wlr_frame_capture_timer
    <2>1. /\ timers \in Nat /\ timers > 0 /\ timers' = timers - 1
          /\ wlr_frame_capture_start(current)
          /\ current \in Buffers \union {None}
          /\ UNCHANGED <<backend, initialized, state, interrupted, buffer, current, completed,
                         y_invert, copied>>
      BY <1>6 DEF wlr_frame_capture_timer, stream, loan, LoanInv, TypeOK
    <2>2. TypeOK' /\ up' \in {up, "refused"}
      BY <2>1, StartPutsUnderWay DEF LoanInv, TypeOK
    <2>3. current # None /\ state = "streaming" => UnderWay' # {}
      BY <2>1, StartPutsUnderWay
    <2> QED
      BY <2>1, <2>2, <2>3 DEF LoanInv
  <1>7. ASSUME NEW f \in Frames, FrameCopied(f) PROVE LoanInv'
    BY <1>7 DEF FrameCopied, LoanInv, TypeOK, stream, loan, UnderWay
  <1>8. ASSUME NEW f \in Frames, wlr_frame_buffer(f) PROVE LoanInv'
    <2>1. CASE buffer_done(f, f)
      BY <1>8, <2>1, BufferDoneStep DEF wlr_frame_buffer
    <2>2. CASE /\ handle' = f /\ frame' = [frame EXCEPT ![f] = "offered"]
               /\ UNCHANGED <<up, buffer, current, dest>>
      BY <1>8, <2>2 DEF wlr_frame_buffer, LoanInv, TypeOK, stream, UnderWay
    <2> QED
      BY <1>8, <2>1, <2>2 DEF wlr_frame_buffer
  <1>9. ASSUME NEW f \in Frames, wlr_frame_buffer_done(f) PROVE LoanInv'
    <2>1. handle \in Frames \union {None}
      BY DEF LoanInv, TypeOK
    <2> QED
      BY <1>9, <2>1, BufferDoneStep DEF wlr_frame_buffer_done
  <1>10. ASSUME NEW f \in Frames, wlr_frame_flags(f) PROVE LoanInv'
    BY <1>10 DEF wlr_frame_flags, LoanInv, TypeOK, stream, loan, objects, UnderWay
  <1>11. ASSUME NEW f \in Frames,
                \/ wlr_frame_ready(f) \/ ext_frame_ready(f)
                \/ wlr_frame_failed(f) \/ ext_frame_failed(f)
         PROVE  LoanInv'
    <2>1. completed \in BOOLEAN
      BY DEF LoanInv, TypeOK
    <2> QED
      BY <1>11, <2>1, AnswerStep DEF wlr_frame_ready, ext_frame_ready,
         frame_ready, wlr_frame_failed, ext_frame_failed
  <1>12. CASE xdpw_screencast_instance_destroy
    BY <1>12 DEF xdpw_screencast_instance_destroy, LoanInv, TypeOK
  <1>13. ASSUME NEW f \in Frames, LateEvent(f) PROVE LoanInv'
    BY <1>13 DEF LateEvent, LoanInv, TypeOK, stream, loan, objects
  <1>14. CASE UNCHANGED vars
    BY <1>14 DEF vars, LoanInv, TypeOK, stream, loan, objects, UnderWay
  <1> QED
    BY <1>1, <1>2, <1>3, <1>4, <1>5, <1>6, <1>7, <1>8, <1>9, <1>10, <1>11,
       <1>12, <1>13, <1>14 DEF Next

LEMMA Inductive == Spec => []LoanInv
  BY InitLoanInv, NextLoanInv, PTL DEF Spec

(* The state of the instance is well typed.                                 *)
THEOREM TypeCorrect == Spec => []TypeOK
  BY Inductive, PTL DEF LoanInv

(* The instance has borrowed exactly the buffer it works on.                *)
THEOREM OneLoan == Spec => []OneBufferOnLoan
  <1>1. LoanInv => OneBufferOnLoan
    BY CaptureAssumption DEF LoanInv, TypeOK, OneBufferOnLoan
  <1> QED
    BY <1>1, Inductive, PTL

(* A paused stream holds no buffer.                                         *)
THEOREM PauseGivesBack == Spec => []PausedHoldsNothing
  BY Inductive, PTL DEF LoanInv

(* A held buffer of a running stream has a capture that will end the loan.  *)
THEOREM NoLoanIsForgotten == Spec => []HeldBufferHasCapture
  BY Inductive, PTL DEF LoanInv

-----------------------------------------------------------------------------

(* The invariant of a stream with no interruption to get over: there        *)
(* is at most one frame under way, handle points to no other, and it copies *)
(* into the held buffer, whose completed flag is still unset.               *)
OneCapture ==
  /\ \A f, g \in UnderWay : f = g
  /\ IF current = None THEN timers = 0 /\ (initialized => UnderWay = {})
     ELSE \/ timers = 1 /\ UnderWay = {}
          \/ timers = 0 /\ UnderWay # {}
  /\ current # None => state = "streaming" /\ ~ completed
  /\ handle # None => handle \in UnderWay
  /\ \A f \in Frames :
       /\ frame[f] # "idle"
       /\ frame[f] = "offered" => handle = f
       /\ frame[f] \in {"copying", "copied"} =>
            initialized /\ handle = f /\ dest[f] = current
       /\ frame[f] = "copied" => current \in copied
       /\ backend = "ext" => frame[f] \in {"none", "copying", "copied"}

SteadyInv == /\ LoanInv
             /\ up # "refused"
             /\ Running => OneCapture

LEMMA InitSteadyInv == Init => SteadyInv
  <1> SUFFICES ASSUME Init PROVE SteadyInv
    OBVIOUS
  <1>1. PICK f \in Frames :
          frame = [g \in Frames |-> IF g = f /\ backend = "screencopy"
                                    THEN "requested" ELSE "none"]
    BY DEF Init
  <1>2. UnderWay \subseteq {f}
    BY <1>1 DEF UnderWay
  <1>3. /\ \A g \in Frames : /\ frame[g] \in {"none", "requested"}
                             /\ backend = "ext" => frame[g] = "none"
        /\ current = None /\ timers = 0 /\ handle = None /\ ~ initialized
        /\ up = "running" /\ \A b \in Buffers : buffer[b] = "none"
    BY <1>1, CaptureAssumption DEF Init
  <1>4. OneCapture
    BY <1>2, <1>3 DEF OneCapture
  <1> QED
    BY <1>3, <1>4, InitLoanInv DEF SteadyInv

LEMMA SteadyAnswerStep ==
  ASSUME SteadyInv, LoanInv', Running, NEW f \in UnderWay, NEW complete \in BOOLEAN,
         xdpw_pwr_enqueue_buffer(complete), wlr_frame_finish(handle, f, "answered"),
         UNCHANGED <<stream, y_invert, timers, copied>>
  PROVE  SteadyInv'
  <1>1. /\ OneCapture /\ f \in Frames /\ UnderWay = {f} /\ handle \in {None, f}
        /\ timers = 0
    BY DEF SteadyInv, OneCapture, UnderWay
  <1>2. \A g \in Frames : frame'[g] = IF g = handle THEN "none"
                                      ELSE IF g = f THEN "answered" ELSE frame[g]
    BY <1>1 DEF wlr_frame_finish
  <1>3. \A g \in Frames : frame'[g] \notin {"requested", "offered", "copying",
                                            "copied", "idle"}
    BY <1>1, <1>2 DEF OneCapture, UnderWay
  <1>4. UnderWay' = {}
    BY <1>3 DEF UnderWay
  <1>5. backend = "ext" => \A g \in Frames : frame'[g] \in {"none", "copying", "copied"}
    <2>1. backend = "ext" => handle = f
      BY <1>1 DEF OneCapture, UnderWay
    <2> QED
      BY <1>1, <1>2, <2>1 DEF OneCapture
  <1>6. up' = "undefined" \/ (up' = up /\ current' = None)
    BY EnqueueEndsLoan DEF SteadyInv
  <1>7. current' = None => OneCapture'
    BY <1>1, <1>3, <1>4, <1>5 DEF OneCapture, wlr_frame_finish, stream
  <1> QED
    BY <1>6, <1>7 DEF SteadyInv, Running

LEMMA SteadyBufferDoneStep ==
  ASSUME SteadyInv, LoanInv', Running, backend = "screencopy",
         NEW f \in UnderWay, NEW p, p = f, frame[f] \in {"requested", "offered"},
         buffer_done(f, p), UNCHANGED <<stream, completed, y_invert, timers, copied>>
  PROVE  SteadyInv'
  <1> USE DEF stream
  <1>1. /\ OneCapture /\ f \in Frames /\ UnderWay = {f} /\ timers = 0
    BY DEF SteadyInv, OneCapture, UnderWay
  <1>2. CASE /\ initialized /\ current # None /\ handle' = p
             /\ frame' = [frame EXCEPT ![f] = "copying"]
             /\ dest' = [dest EXCEPT ![f] = current]
             /\ UNCHANGED <<up, buffer, current>>
    <2>1. \A g \in Frames : /\ frame'[g] = IF g = f THEN "copying" ELSE frame[g]
                            /\ dest'[g] = IF g = f THEN current ELSE dest[g]
      BY <1>1, <1>2 DEF SteadyInv, LoanInv, TypeOK
    <2>2. UnderWay' = {f}
      BY <1>1, <2>1 DEF UnderWay
    <2>3. OneCapture'
      BY <1>1, <1>2, <2>1, <2>2, CaptureAssumption DEF OneCapture, UnderWay
    <2> QED
      BY <1>2, <2>3 DEF SteadyInv, Running
  <1>3. ASSUME wlr_frame_finish(p, f, "idle") , current' = None
        PROVE  OneCapture'
    <2>1. \A g \in Frames : frame'[g] = IF g = f THEN "none" ELSE frame[g]
      BY <1>1, <1>3 DEF wlr_frame_finish
    <2>2. UnderWay' = {}
      BY <1>1, <2>1 DEF UnderWay
    <2>3. handle' = None /\ timers' = 0
      BY <1>1, <1>3 DEF wlr_frame_finish
    <2>4. \A g \in Frames : frame'[g] \in {"none", "answered"}
      BY <1>1, <2>1 DEF OneCapture, UnderWay, SteadyInv, LoanInv, TypeOK
    <2> QED
      BY <1>3, <2>2, <2>3, <2>4, CaptureAssumption DEF OneCapture
  <1>4. CASE /\ ~ initialized /\ wlr_frame_finish(p, f, "idle")
             /\ UNCHANGED <<up, buffer, current>>
    <2>1. current' = None
      BY <1>4 DEF SteadyInv, LoanInv
    <2> QED
      BY <1>3, <1>4, <2>1 DEF SteadyInv
  <1>5. CASE /\ initialized /\ xdpw_pwr_enqueue_buffer(completed)
             /\ wlr_frame_finish(p, f, "idle")
    <2>1. up' = "undefined" \/ (up' = up /\ current' = None)
      <3>1. LoanInv /\ completed \in BOOLEAN
        BY DEF SteadyInv, LoanInv, TypeOK
      <3> QED
        BY <1>5, <3>1, EnqueueEndsLoan
    <2> QED
      BY <1>3, <1>5, <2>1 DEF SteadyInv, Running
  <1> QED
    BY <1>2, <1>4, <1>5 DEF buffer_done

(* Starting the one capture of a loan with nothing left over.               *)
LEMMA SteadyStart ==
  ASSUME LoanInv, FramesGone, initialized, state = "streaming",
         NEW b \in Buffers, wlr_frame_capture_start(b),
         current' = b, timers' = 0, ~ completed',
         UNCHANGED <<backend, initialized, state>>
  PROVE  OneCapture' /\ up' = up
  <1> USE CaptureAssumption
  <1>1. \A g \in Frames : \/ frame[g] = "none"
                          \/ frame[g] = "answered" /\ backend = "screencopy"
    BY DEF FramesGone
  <1>2. CASE backend = "ext"
    <2>1. PICK f \in Frames : ext_register_frame_cb(f, b)
      BY <1>2 DEF wlr_frame_capture_start, xdpw_ext_ic_frame_capture
    <2>2. /\ up' = up /\ handle' = f
          /\ \A g \in Frames : /\ frame'[g] = IF g = f THEN "copying" ELSE "none"
                               /\ g = f => dest'[g] = b
      BY <1>1, <1>2, <2>1 DEF ext_register_frame_cb, LoanInv, TypeOK
    <2>3. UnderWay' = {f}
      BY <2>2 DEF UnderWay
    <2> QED
      BY <2>2, <2>3 DEF OneCapture
  <1>3. CASE backend = "screencopy"
    <2>1. PICK f \in Frames : wlr_register_cb(f)
      BY <1>3 DEF wlr_frame_capture_start, xdpw_wlr_sc_frame_capture
    <2>2. /\ up' = up /\ handle' = None
          /\ \A g \in Frames : frame'[g] = IF g = f THEN "requested" ELSE frame[g]
      BY <2>1 DEF wlr_register_cb, FramesGone, LoanInv, TypeOK
    <2>3. UnderWay' = {f}
      BY <1>1, <2>2 DEF UnderWay
    <2> QED
      BY <1>1, <1>3, <2>2, <2>3 DEF OneCapture
  <1> QED
    BY <1>2, <1>3 DEF LoanInv, TypeOK

(* Between the captures of a stream with nothing to get over all is quiet.  *)
LEMMA FramesAreGone ==
  ASSUME SteadyInv, Running, initialized, UnderWay = {}
  PROVE  FramesGone
  <1>1. OneCapture /\ handle = None
    BY DEF SteadyInv, OneCapture
  <1> QED
    BY <1>1, CaptureAssumption DEF OneCapture, UnderWay, FramesGone, SteadyInv, LoanInv, TypeOK

(* A loan that begins when all is quiet has one capture, whatever happened  *)
(* before: interruptions are got over.                                      *)
LEMMA QuietLoanIsSteady ==
  ASSUME LoanInv, LoanInv', Quiet, NEW b \in Buffers, pwr_handle_stream_on_process(b)
  PROVE  SteadyInv'
  <1> USE CaptureAssumption DEF Running
  <1>1. /\ up = "running" /\ state = "streaming" /\ initialized
        /\ current' = b /\ ~ completed'
        /\ UNCHANGED <<backend, initialized, state>>
    BY DEF pwr_handle_stream_on_process, xdpw_pwr_dequeue_buffer, LoanInv
  <1>2. CASE /\ timers < MaxTimers /\ timers' = timers + 1
             /\ UNCHANGED <<up, objects>>
    <2>1. /\ timers' = 1 /\ handle' = None /\ frame' = frame
          /\ \A f \in Frames : \/ frame[f] = "none"
                               \/ frame[f] = "answered" /\ backend = "screencopy"
      BY <1>2 DEF Quiet, FramesGone, objects
    <2>2. UnderWay' = {}
      BY <2>1 DEF UnderWay
    <2>3. OneCapture'
      BY <1>1, <2>1, <2>2 DEF OneCapture
    <2> QED
      BY <1>1, <1>2, <2>3 DEF SteadyInv
  <1>3. CASE wlr_frame_capture_start(b) /\ UNCHANGED timers
    <2>1. OneCapture' /\ up' = up
      BY <1>1, <1>3, SteadyStart DEF Quiet
    <2> QED
      BY <1>1, <2>1 DEF SteadyInv
  <1> QED
    BY <1>2, <1>3 DEF pwr_handle_stream_on_process, xdpw_wlr_frame_capture

LEMMA NextSteadyInv ==
  ASSUME ~ interrupted', SteadyInv, [Next]_vars
  PROVE  SteadyInv'
  <1> USE CaptureAssumption DEF Running
  <1>0. LoanInv' /\ LoanInv
    BY NextLoanInv DEF SteadyInv
  <1>1. CASE xdpw_pwr_stream_create
    <2>1. UnderWay' = {} /\ OneCapture'
      BY <1>0, <1>1 DEF xdpw_pwr_stream_create, SteadyInv, OneCapture, LoanInv,
         UnderWay, loan, objects
    <2> QED
      BY <1>0, <1>1, <2>1 DEF xdpw_pwr_stream_create, SteadyInv, loan
  <1>2. ASSUME NEW new \in {"paused", "streaming", "error"},
               pwr_handle_stream_state_changed(new)
        PROVE  SteadyInv'
    <2>1. /\ current = None /\ current' = None /\ buffer' = buffer /\ up' = up
          /\ UNCHANGED <<backend, initialized, completed, timers, handle, frame, dest, copied>>
      BY <1>2 DEF pwr_handle_stream_state_changed, xdpw_pwr_enqueue_buffer, objects
    <2>2. UnderWay' = UnderWay
      BY <2>1 DEF UnderWay
    <2> QED
      BY <1>0, <2>1, <2>2 DEF SteadyInv, OneCapture
  <1>3. ASSUME NEW b \in Buffers,
               pwr_handle_stream_add_buffer(b) \/ Recycle(b)
        PROVE  SteadyInv'
    <2>1. /\ buffer' = [buffer EXCEPT ![b] = "free"]
          /\ UNCHANGED <<up, backend, initialized, state, current, completed, timers, handle,
                         frame, dest, copied>>
      BY <1>3 DEF pwr_handle_stream_add_buffer, Recycle, stream, objects
    <2>2. UnderWay' = UnderWay
      BY <2>1 DEF UnderWay
    <2> QED
      BY <1>0, <2>1, <2>2 DEF SteadyInv, OneCapture
  <1>4. ASSUME NEW b \in Buffers, pwr_handle_stream_remove_buffer(b)
        PROVE  SteadyInv'
    <2>1. /\ b # current /\ current' = current /\ up = "running" /\ up' = up
          /\ buffer' = [buffer EXCEPT ![b] = "none"]
          /\ dest' = [f \in Frames |-> IF dest[f] = b THEN None ELSE dest[f]]
          /\ copied' = copied \ {b}
          /\ UNCHANGED <<backend, initialized, state, completed, timers, handle, frame>>
      BY <1>4 DEF pwr_handle_stream_remove_buffer, stream
    <2>2. UnderWay' = UnderWay
      BY <2>1 DEF UnderWay
    <2>3. OneCapture'
      BY <2>1, <2>2 DEF SteadyInv, OneCapture
    <2> QED
      BY <1>0, <2>1, <2>3 DEF SteadyInv
  <1>5. ASSUME NEW b \in Buffers, pwr_handle_stream_on_process(b) PROVE SteadyInv'
    <2>1. timers = 0 /\ UnderWay = {} /\ initialized /\ up = "running"
      BY <1>0, <1>5 DEF pwr_handle_stream_on_process, SteadyInv, OneCapture, LoanInv
    <2>2. Quiet
      BY <2>1, FramesAreGone DEF Quiet
    <2> QED
      BY <1>0, <1>5, <2>2, QuietLoanIsSteady
  <1>6. CASE wlr_frame_capture_timer
    <2>1. /\ up = "running" /\ timers > 0 /\ timers' = timers - 1
          /\ wlr_frame_capture_start(current)
          /\ UNCHANGED <<backend, initialized, state, buffer, current, completed, copied>>
      BY <1>6 DEF wlr_frame_capture_timer, stream, loan
    <2>2. /\ OneCapture /\ current # None /\ current \in Buffers /\ timers = 1
          /\ UnderWay = {} /\ state = "streaming" /\ ~ completed
      BY <1>0, <2>1 DEF SteadyInv, OneCapture, LoanInv, TypeOK
    <2>3. timers' = 0 /\ current' = current /\ ~ completed' /\ initialized
      BY <1>0, <2>1, <2>2 DEF LoanInv
    <2>4. OneCapture' /\ up' = up
      <3>1. LoanInv /\ FramesGone
        BY <1>0, <2>1, <2>2, <2>3, FramesAreGone
      <3> QED
        BY <2>1, <2>2, <2>3, <3>1, SteadyStart
    <2> QED
      BY <1>0, <2>1, <2>4 DEF SteadyInv
  <1>7. ASSUME NEW f \in Frames, FrameCopied(f) PROVE SteadyInv'
    <2>1. /\ up = "running" /\ frame[f] = "copying"
          /\ frame' = [frame EXCEPT ![f] = "copied"]
          /\ copied' = copied \union ({dest[f]} \ {None})
          /\ UNCHANGED <<up, backend, initialized, state, buffer, current, completed, timers,
                         handle, dest>>
      BY <1>7 DEF FrameCopied, stream, loan
    <2>2. OneCapture /\ UnderWay = {f} /\ dest[f] = current /\ initialized
          /\ current # None
      BY <1>0, <2>1 DEF SteadyInv, OneCapture, UnderWay
    <2>3. \A g \in Frames : frame'[g] = IF g = f THEN "copied" ELSE frame[g]
      BY <1>0, <2>1 DEF LoanInv, TypeOK
    <2>4. UnderWay' = UnderWay
      BY <2>1, <2>3 DEF UnderWay
    <2>5. OneCapture'
      BY <2>1, <2>2, <2>3, <2>4 DEF OneCapture, UnderWay
    <2> QED
      BY <1>0, <2>1, <2>5 DEF SteadyInv
  <1>8. ASSUME NEW f \in Frames, wlr_frame_buffer(f) PROVE SteadyInv'
    <2>1. Running /\ backend = "screencopy" /\ f \in UnderWay
          /\ frame[f] = "requested"
          /\ UNCHANGED <<stream, completed, y_invert, timers, copied>>
      BY <1>8 DEF wlr_frame_buffer, UnderWay
    <2>2. CASE buffer_done(f, f)
      BY <1>0, <2>1, <2>2, SteadyBufferDoneStep
    <2>3. CASE /\ handle' = f /\ frame' = [frame EXCEPT ![f] = "offered"]
               /\ UNCHANGED <<up, buffer, current, dest>>
      <3>1. \A g \in Frames : frame'[g] = IF g = f THEN "offered" ELSE frame[g]
        BY <1>0, <2>3 DEF LoanInv, TypeOK
      <3>2. OneCapture /\ UnderWay = {f}
        BY <2>1 DEF SteadyInv, OneCapture
      <3>3. UnderWay' = {f}
        BY <3>1, <3>2 DEF UnderWay
      <3>4. OneCapture'
        BY <2>1, <2>3, <3>1, <3>2, <3>3 DEF OneCapture, UnderWay, stream
      <3> QED
        BY <1>0, <2>1, <2>3, <3>4 DEF SteadyInv
    <2> QED
      BY <1>8, <2>2, <2>3 DEF wlr_frame_buffer
  <1>9. ASSUME NEW f \in Frames, wlr_frame_buffer_done(f) PROVE SteadyInv'
    <2>1. Running /\ f \in UnderWay /\ frame[f] = "offered"
          /\ buffer_done(f, handle)
          /\ UNCHANGED <<stream, completed, y_invert, timers, copied>>
      BY <1>9 DEF wlr_frame_buffer_done, UnderWay
    <2>2. handle = f /\ backend = "screencopy"
      BY <2>1 DEF SteadyInv, OneCapture, LoanInv, TypeOK
    <2> QED
      BY <1>0, <2>1, <2>2, SteadyBufferDoneStep
  <1>10. ASSUME NEW f \in Frames, wlr_frame_flags(f) PROVE SteadyInv'
    <2>1. UNCHANGED <<up, backend, initialized, state, buffer, current, completed, timers,
                      handle, frame, dest, copied>>
      BY <1>10 DEF wlr_frame_flags, stream, loan, objects
    <2>2. UnderWay' = UnderWay
      BY <2>1 DEF UnderWay
    <2> QED
      BY <1>0, <2>1, <2>2 DEF SteadyInv, OneCapture
  <1>11. ASSUME NEW f \in Frames,
                \/ wlr_frame_ready(f) \/ ext_frame_ready(f)
                \/ wlr_frame_failed(f) \/ ext_frame_failed(f)
         PROVE  SteadyInv'
    <2>1. Running /\ f \in UnderWay /\ OneCapture
      BY <1>11 DEF wlr_frame_ready, ext_frame_ready, frame_ready,
         wlr_frame_failed, ext_frame_failed, SteadyInv,
         OneCapture, UnderWay
    <2>2. CASE frame_ready(f)
      BY <1>0, <2>1, <2>2, SteadyAnswerStep DEF frame_ready
    <2>3. CASE wlr_frame_failed(f) \/ ext_frame_failed(f)
      <3>1. completed \in BOOLEAN
        BY <1>0 DEF LoanInv, TypeOK
      <3> QED
        BY <1>0, <2>1, <2>3, <3>1, SteadyAnswerStep
           DEF wlr_frame_failed, ext_frame_failed
    <2> QED
      BY <1>11, <2>2, <2>3 DEF wlr_frame_ready, ext_frame_ready
  <1>12. CASE xdpw_screencast_instance_destroy
    BY <1>0, <1>12 DEF xdpw_screencast_instance_destroy, SteadyInv
  <1>13. ASSUME NEW f \in Frames, LateEvent(f) PROVE SteadyInv'
    BY <1>0, <1>13 DEF LateEvent, SteadyInv, loan
  <1>14. CASE UNCHANGED vars
    <2>1. UNCHANGED <<up, backend, initialized, state, buffer, current, completed, timers,
                      handle, frame, dest, copied>>
      BY <1>14 DEF vars, stream, loan, objects
    <2>2. UnderWay' = UnderWay
      BY <2>1 DEF UnderWay
    <2> QED
      BY <1>0, <2>1, <2>2 DEF SteadyInv, OneCapture
  <1> QED
    BY <1>1, <1>2, <1>3, <1>4, <1>5, <1>6, <1>7, <1>8, <1>9, <1>10, <1>11,
       <1>12, <1>13, <1>14 DEF Next

(* An interruption is got over only by a loan that begins when all is quiet. *)
LEMMA InterruptionsAreGotOver ==
  ASSUME [Next]_vars, interrupted, ~ interrupted'
  PROVE  Quiet /\ \E b \in Buffers : pwr_handle_stream_on_process(b)
  BY DEF Next, vars, stream, xdpw_pwr_stream_create, pwr_handle_stream_state_changed,
     pwr_handle_stream_add_buffer, pwr_handle_stream_remove_buffer, Recycle,
     pwr_handle_stream_on_process, wlr_frame_capture_timer, FrameCopied,
     wlr_frame_buffer, wlr_frame_buffer_done, wlr_frame_flags, wlr_frame_ready,
     ext_frame_ready, frame_ready, wlr_frame_failed, ext_frame_failed,
     xdpw_screencast_instance_destroy, LateEvent

CaptureInv == LoanInv /\ (~ interrupted => SteadyInv)

LEMMA CaptureInvInductive == Spec => []CaptureInv
  <1>1. Init => CaptureInv
    BY InitLoanInv, InitSteadyInv DEF CaptureInv
  <1>2. CaptureInv /\ [Next]_vars => CaptureInv'
    <2> SUFFICES ASSUME CaptureInv, [Next]_vars, ~ interrupted' PROVE SteadyInv'
      BY NextLoanInv DEF CaptureInv
    <2>1. CASE ~ interrupted
      BY <2>1, NextSteadyInv DEF CaptureInv
    <2>2. CASE interrupted
      BY <2>2, InterruptionsAreGotOver, NextLoanInv, QuietLoanIsSteady DEF CaptureInv
    <2> QED
      BY <2>1, <2>2
  <1> QED
    BY <1>1, <1>2, PTL DEF Spec

(* Unless interrupted, each loan has exactly one capture.                   *)
THEOREM LoansHaveOneCapture == Spec => []OneCapturePerLoan
  <1>1. CaptureInv => OneCapturePerLoan
    <2>1. \A f \in UnderWay : (\A g \in UnderWay : f = g) => UnderWay = {f}
      OBVIOUS
    <2>2. UnderWay \subseteq Frames
      BY DEF UnderWay
    <2> QED
      BY <2>1, <2>2 DEF CaptureInv, SteadyInv, OneCapture, OneCapturePerLoan
  <1> QED
    BY <1>1, CaptureInvInductive, PTL

(* Unless interrupted, the compositor writes into the held buffer only.     *)
THEOREM ConsumerBuffersAreLeftAlone == Spec => []CopiesIntoHeldBuffer
  <1>1. CaptureInv => CopiesIntoHeldBuffer
    BY DEF CaptureInv, SteadyInv, OneCapture, CopiesIntoHeldBuffer
  <1> QED
    BY <1>1, CaptureInvInductive, PTL

(* Unless interrupted, the compositor never refuses a frame.                *)
THEOREM CompositorNeverRefuses == Spec => []NeverRefused
  <1>1. CaptureInv => NeverRefused
    BY DEF CaptureInv, SteadyInv, NeverRefused
  <1> QED
    BY <1>1, CaptureInvInductive, PTL

-----------------------------------------------------------------------------

(* The loan contract, step by step.  Giving a buffer back is a step of the  *)
(* contract, unless the instance is destroyed on the way.                   *)
LEMMA EnqueueGivesBack ==
  ASSUME LoanInv, NEW complete \in BOOLEAN, xdpw_pwr_enqueue_buffer(complete),
         complete => current = None \/ current \in copied \/ interrupted
  PROVE  \/ UNCHANGED <<buffer, current>>
         \/ \E how \in {"complete", "corrupt"} : Loan!GiveBack(how)
  BY CaptureAssumption DEF LoanInv, TypeOK, xdpw_pwr_enqueue_buffer, Loan!GiveBack

LEMMA EnqueueReturns ==
  ASSUME LoanInv, NEW complete \in BOOLEAN, xdpw_pwr_enqueue_buffer(complete),
         complete => current = None \/ current \in copied \/ interrupted,
         UNCHANGED <<copied, interrupted>>
  PROVE  [Loan!Next]_(Loan!vars)
  BY EnqueueGivesBack DEF Loan!Next, Loan!Return, Loan!vars

(* A flag left set tells of an earlier capture: only an interruption lets   *)
(* it meet a later one.                                                     *)
LEMMA FlagIsHonest ==
  ASSUME CaptureInv, Running
  PROVE  /\ completed \in BOOLEAN
         /\ completed => current = None \/ interrupted
  BY DEF CaptureInv, LoanInv, TypeOK, SteadyInv, OneCapture

LEMMA LoanStep ==
  ASSUME CaptureInv, [Next]_vars
  PROVE  [Loan!Next]_(Loan!vars)
  <1> USE DEF Running
  <1>0. LoanInv
    BY DEF CaptureInv
  <1>1. CASE xdpw_pwr_stream_create
    BY <1>1 DEF xdpw_pwr_stream_create, Loan!vars, loan
  <1>2. ASSUME NEW new \in {"paused", "streaming", "error"},
               pwr_handle_stream_state_changed(new)
        PROVE  [Loan!Next]_(Loan!vars)
    <2>1. /\ completed \in BOOLEAN
          /\ completed => current = None \/ interrupted
          /\ interrupted' = (interrupted \/ current # None)
          /\ UNCHANGED copied
      BY <1>2, FlagIsHonest DEF pwr_handle_stream_state_changed
    <2>2. \/ UNCHANGED <<buffer, current>>
          \/ \E how \in {"complete", "corrupt"} : Loan!GiveBack(how)
      BY <1>0, <1>2, <2>1, EnqueueGivesBack DEF pwr_handle_stream_state_changed
    <2>3. CASE current = None
      <3>1. UNCHANGED <<buffer, current>>
        BY <2>2, <2>3 DEF Loan!GiveBack
      <3>2. interrupted' = interrupted
        BY <2>1, <2>3, <1>0 DEF LoanInv, TypeOK
      <3> QED
        BY <2>1, <3>1, <3>2 DEF Loan!vars
    <2>4. CASE current # None
      BY <2>1, <2>2, <2>4 DEF Loan!Interrupt, Loan!Next
    <2> QED
      BY <2>3, <2>4
  <1>3. ASSUME NEW b \in Buffers, pwr_handle_stream_add_buffer(b)
        PROVE  Loan!Add(b)
    BY <1>3 DEF pwr_handle_stream_add_buffer, Loan!Add, stream
  <1>4. ASSUME NEW b \in Buffers, pwr_handle_stream_remove_buffer(b)
        PROVE  Loan!Withdraw(b)
    BY <1>4 DEF pwr_handle_stream_remove_buffer, Loan!Withdraw
  <1>5. ASSUME NEW b \in Buffers, Recycle(b)
        PROVE  Loan!Recycle(b)
    BY <1>5 DEF Recycle, Loan!Recycle, stream
  <1>6. ASSUME NEW b \in Buffers, pwr_handle_stream_on_process(b)
        PROVE  Loan!Borrow(b)
    <2>1. interrupted' \in {interrupted, FALSE}
      BY <1>0, <1>6 DEF pwr_handle_stream_on_process, LoanInv, TypeOK
    <2> QED
      BY <1>6, <2>1 DEF pwr_handle_stream_on_process, xdpw_pwr_dequeue_buffer,
         Loan!Borrow
  <1>7. CASE wlr_frame_capture_timer
    BY <1>7 DEF wlr_frame_capture_timer, Loan!vars, stream, loan
  <1>8. ASSUME NEW f \in Frames, FrameCopied(f)
        PROVE  [Loan!Next]_(Loan!vars)
    <2>1. /\ up = "running" /\ frame[f] = "copying"
          /\ copied' = copied \union ({dest[f]} \ {None})
          /\ UNCHANGED <<buffer, current, interrupted>>
          /\ dest[f] \in Buffers \union {None}
      BY <1>0, <1>8 DEF FrameCopied, stream, loan, LoanInv, TypeOK
    <2>2. dest[f] = current \/ interrupted
      BY <2>1 DEF CaptureInv, SteadyInv, OneCapture
    <2>3. CASE dest[f] = None
      BY <2>1, <2>3 DEF Loan!vars
    <2>4. CASE dest[f] # None
      <3>1. dest[f] \in Buffers /\ Loan!Fill(dest[f])
        BY <2>1, <2>2, <2>4 DEF Loan!Fill
      <3> QED
        BY <3>1 DEF Loan!Next
    <2> QED
      BY <2>3, <2>4
  <1>9. ASSUME NEW f \in Frames, wlr_frame_buffer(f) \/ wlr_frame_buffer_done(f)
        PROVE  [Loan!Next]_(Loan!vars)
    <2>1. up = "running" /\ UNCHANGED <<copied, interrupted>>
      BY <1>9 DEF wlr_frame_buffer, wlr_frame_buffer_done, stream
    <2>2. \/ UNCHANGED <<buffer, current>>
          \/ xdpw_pwr_enqueue_buffer(completed)
      BY <1>9 DEF wlr_frame_buffer, wlr_frame_buffer_done, buffer_done
    <2> QED
      BY <1>0, <2>1, <2>2, FlagIsHonest, EnqueueReturns DEF Loan!vars
  <1>10. ASSUME NEW f \in Frames, wlr_frame_flags(f)
         PROVE  UNCHANGED Loan!vars
    BY <1>10 DEF wlr_frame_flags, Loan!vars, stream, loan
  <1>11. ASSUME NEW f \in Frames, frame_ready(f)
         PROVE  [Loan!Next]_(Loan!vars)
    <2>1. /\ up = "running" /\ frame[f] = "copied"
          /\ xdpw_pwr_enqueue_buffer(TRUE)
          /\ UNCHANGED <<copied, interrupted>>
      BY <1>11 DEF frame_ready, stream
    <2>2. current \in copied \/ interrupted
      BY <2>1 DEF CaptureInv, SteadyInv, OneCapture
    <2> QED
      BY <1>0, <2>1, <2>2, EnqueueReturns
  <1>12. ASSUME NEW f \in Frames, wlr_frame_failed(f) \/ ext_frame_failed(f)
         PROVE  [Loan!Next]_(Loan!vars)
    <2>1. /\ up = "running"
          /\ xdpw_pwr_enqueue_buffer(completed)
          /\ UNCHANGED <<copied, interrupted>>
      BY <1>12 DEF wlr_frame_failed, ext_frame_failed, stream
    <2> QED
      BY <1>0, <2>1, FlagIsHonest, EnqueueReturns
  <1>13. CASE xdpw_screencast_instance_destroy
    BY <1>13 DEF xdpw_screencast_instance_destroy, Loan!End, Loan!Next
  <1>14. ASSUME NEW f \in Frames, LateEvent(f)
         PROVE  UNCHANGED Loan!vars
    BY <1>14 DEF LateEvent, Loan!vars, stream, loan
  <1>15. CASE UNCHANGED vars
    BY <1>15 DEF vars, stream, loan, Loan!vars
  <1> QED
    BY <1>1, <1>2, <1>3, <1>4, <1>5, <1>6, <1>7, <1>8, <1>9, <1>10, <1>11,
       <1>12, <1>13, <1>14, <1>15
       DEF Next, Loan!Next, wlr_frame_ready, ext_frame_ready

(* The instance keeps the loan contract, in every interleaving of pauses,   *)
(* timers and frame events.                                                 *)
THEOREM KeepsLoanContract == Spec => ImplementsLoanContract
  <1>1. Init => Loan!Init
    BY DEF Init, Loan!Init
  <1> QED
    BY <1>1, LoanStep, CaptureInvInductive, PTL
       DEF Spec, ImplementsLoanContract, Loan!Spec
=============================================================================
