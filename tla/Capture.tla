------------------------------- MODULE Capture -------------------------------
(***************************************************************************)
(* The frames of one running screencast instance: PipeWire lends the        *)
(* instance a buffer, the compositor is asked to copy the screen into it,   *)
(* and the buffer is given back, flagged complete or corrupted.             *)
(* (src/screencast/pipewire_screencast.c, wlr_screencopy.c,                 *)
(* ext_image_copy.c, wlr_screencast.c.)                                     *)
(*                                                                         *)
(* Three loops meet in the instance: PipeWire's callbacks (state changes,   *)
(* buffers, process), the frame-rate timer, and the events of the frame     *)
(* objects, which the compositor sends when it likes.  Every event handler  *)
(* gets the instance, not the buffer its frame was asked to fill.           *)
(*                                                                         *)
(* The portal of wlr-screencopy first captures a frame with no buffer, to   *)
(* learn the formats, before the stream exists (initialized = FALSE).       *)
(* Data abstracted: formats, sizes, strides and damage; the delay of the    *)
(* frame limiter is some delay or none.  up = "undefined" is what follows   *)
(* the use of a freed instance, and nothing is promised from then on.       *)
(***************************************************************************)
EXTENDS Integers

CONSTANTS Buffers,       \* struct pw_buffer, each with its xdpw_buffer
          Frames,        \* frame objects of the capture protocol
          None,          \* NULL
          Backends,      \* the capture protocols a compositor may offer
          Version,       \* of zwlr_screencopy_manager_v1
          MaxTimers      \* bound on the pending frame-rate timers

ASSUME CaptureAssumption == /\ None \notin Buffers \union Frames
                            /\ Frames # {}
                            /\ Backends \subseteq {"ext", "screencopy"}
                            /\ Version \in 2..3
                            /\ MaxTimers \in Nat \ {0}

VARIABLES up,            \* "running", or how the instance came to its end
          backend,       \* the capture protocol in use
          initialized,   \* cast->initialized
          state,         \* of the stream (pwr_stream_state: it is streaming)
          interrupted,   \* history: PipeWire stopped the stream or took the
                         \* held buffer away in mid-capture, and no buffer was
                         \* borrowed since with nothing left over from then
          buffer,        \* where each buffer is, or how it was given back
          current,       \* current_frame.pw_buffer and .xdpw_buffer
          completed,     \* current_frame.completed
          y_invert,      \* current_frame.y_invert
          timers,        \* pending timers of the instance
          handle,        \* wlr_session.wlr_frame or ext_session.frame
          frame,         \* how far each frame object got
          dest,          \* the wl_buffer a frame was asked to fill
          copied         \* buffers the compositor filled since they were lent

stream == <<backend, initialized, state, interrupted>>
loan == <<buffer, current, completed>>
objects == <<handle, frame, dest>>
vars == <<up, stream, loan, y_invert, timers, objects, copied>>

TypeOK == /\ up \in {"running", "ended", "refused", "undefined"}
          /\ backend \in Backends
          /\ initialized \in BOOLEAN
          /\ state \in {"paused", "streaming", "error"}
          /\ interrupted \in BOOLEAN
          /\ buffer \in [Buffers ->
                          {"none", "free", "held", "complete", "corrupt"}]
          /\ current \in Buffers \union {None}
          /\ completed \in BOOLEAN
          /\ y_invert \in BOOLEAN
          /\ timers \in 0..MaxTimers
          /\ handle \in Frames \union {None}
          /\ frame \in [Frames -> {"none", "requested", "offered", "idle",
                                   "copying", "copied", "answered"}]
          /\ dest \in [Frames -> Buffers \union {None}]
          /\ copied \in SUBSET Buffers

(* A frame is under way while an event of it can still end the loan.        *)
UnderWay ==
  {f \in Frames : frame[f] \in {"requested", "offered", "copying", "copied"}}

(* Nothing is left over from an earlier capture: no timer, and no frame but *)
(* those of wlr-screencopy that the compositor is done with.                *)
FramesGone == /\ handle = None
              /\ \A f \in Frames :
                   \/ frame[f] = "none"
                   \/ frame[f] = "answered" /\ backend = "screencopy"

Quiet == timers = 0 /\ FramesGone

(* wlr_register_cb in xdpw_wlr_sc_session_init has asked for a first frame. *)
Init == /\ up = "running"
        /\ backend \in Backends
        /\ initialized = FALSE
        /\ state = "paused"
        /\ interrupted = FALSE
        /\ buffer = [b \in Buffers |-> "none"]
        /\ current = None
        /\ completed = FALSE
        /\ y_invert = FALSE
        /\ timers = 0
        /\ handle = None
        /\ \E f \in Frames :
             frame = [g \in Frames |-> IF g = f /\ backend = "screencopy"
                                       THEN "requested" ELSE "none"]
        /\ dest = [f \in Frames |-> None]
        /\ copied = {}

Running == up = "running"

-----------------------------------------------------------------------------

(* Gives the held buffer back.  An upside-down frame destroys the instance, *)
(* which every caller goes on to use.                                       *)
xdpw_pwr_enqueue_buffer(complete) ==
  LET destroys == current # None /\ y_invert
  IN  /\ up' = IF destroys THEN "undefined" ELSE up
      /\ current' = IF destroys THEN current ELSE None
      /\ buffer' = IF destroys \/ current = None THEN buffer
                   ELSE [buffer EXCEPT ![current] =
                           IF complete THEN "complete" ELSE "corrupt"]

\* Mutant: the flag of the last frame stays.
xdpw_pwr_dequeue_buffer_KeepsFlag(b) ==
  /\ buffer[b] = "free"
  /\ buffer' = [buffer EXCEPT ![b] = "held"]
  /\ current' = b
  /\ copied' = copied \ {b}
  /\ UNCHANGED completed

xdpw_pwr_dequeue_buffer(b) ==
  /\ buffer[b] = "free"
  /\ buffer' = [buffer EXCEPT ![b] = "held"]
  /\ current' = b
  /\ completed' = FALSE
  /\ copied' = copied \ {b}

(* wlr_frame_finish and its like in ext_image_copy.c: the frame destroyed   *)
(* is the one that handle, here p, points to.  f is the frame whose event   *)
(* is handled, and s its state if it is another.                            *)
wlr_frame_finish(p, f, s) ==
  /\ handle' = None
  /\ frame' = [g \in Frames |-> CASE g = p -> "none"
                                  [] g = f /\ g # p -> s
                                  [] OTHER -> frame[g]]
  /\ dest' = [g \in Frames |-> IF g = p THEN None ELSE dest[g]]

(* wlr_register_cb: a new frame, without a buffer yet.  It may take the      *)
(* place of a frame the compositor is done with, so that few are enough.    *)
wlr_register_cb(f) ==
  /\ frame[f] \in {"none", "answered"}
  /\ frame' = [frame EXCEPT ![f] = "requested"]
  /\ dest' = [dest EXCEPT ![f] = None]
  /\ UNCHANGED <<up, handle>>

(* ext_register_frame_cb.  A capture session takes one frame at a time: a   *)
(* second one is a protocol error, which ends the connection.               *)
ext_register_frame_cb(f, b) ==
  /\ frame[f] = "none"
  /\ up' = IF \E g \in Frames : frame[g] # "none" THEN "refused" ELSE up
  /\ handle' = f
  /\ frame' = [frame EXCEPT ![f] = "copying"]
  /\ dest' = [dest EXCEPT ![f] = b]

xdpw_ext_ic_frame_capture(b) ==
  IF b = None THEN UNCHANGED <<up, objects>>
  ELSE \E f \in Frames : ext_register_frame_cb(f, b)

xdpw_wlr_sc_frame_capture ==
  IF initialized /\ state # "streaming" THEN UNCHANGED <<up, objects>>
  ELSE \E f \in Frames : wlr_register_cb(f)

\* With buffer b held.
wlr_frame_capture_start(b) ==
  IF backend = "ext" THEN xdpw_ext_ic_frame_capture(b)
  ELSE xdpw_wlr_sc_frame_capture

(* The frame limiter asks for some delay, or for none.                      *)
xdpw_wlr_frame_capture(b) ==
  \/ /\ timers < MaxTimers
     /\ timers' = timers + 1
     /\ UNCHANGED <<up, objects>>
  \/ /\ wlr_frame_capture_start(b)
     /\ UNCHANGED timers

-----------------------------------------------------------------------------

(* The round trips of Start are over: the stream is created.  The first     *)
(* frame was offered before they ended.                                     *)
xdpw_pwr_stream_create ==
  /\ Running
  /\ ~ initialized
  /\ UnderWay = {}
  /\ initialized' = TRUE
  /\ UNCHANGED <<up, backend, state, interrupted, loan, y_invert, timers,
                 objects, copied>>

\* Mutant: the buffer is kept.
pwr_handle_stream_state_changed_Keeps(new) ==
  /\ Running
  /\ initialized
  /\ state \notin {"error", new}
  /\ state' = new
  /\ interrupted' = (interrupted \/ current # None)
  /\ UNCHANGED <<up, backend, initialized, loan, y_invert, timers, objects,
                 copied>>

(* Pausing gives the held buffer back; an error does not.  Neither stops    *)
(* the timer or the frame under way.                                        *)
pwr_handle_stream_state_changed(new) ==
  /\ Running
  /\ initialized
  /\ state \notin {"error", new}
  /\ state' = new
  /\ interrupted' = (interrupted \/ current # None)
  /\ IF new = "paused" THEN xdpw_pwr_enqueue_buffer(completed)
     ELSE UNCHANGED <<up, buffer, current>>
  /\ UNCHANGED <<backend, initialized, completed, y_invert, timers, objects,
                 copied>>

pwr_handle_stream_add_buffer(b) ==
  /\ Running
  /\ initialized
  /\ state # "error"
  /\ buffer[b] = "none"
  /\ buffer' = [buffer EXCEPT ![b] = "free"]
  /\ UNCHANGED <<up, stream, current, completed, y_invert, timers, objects,
                 copied>>

\* Mutant: the held buffer is not forgotten.
pwr_handle_stream_remove_buffer_Keeps(b) ==
  /\ Running
  /\ buffer[b] # "none"
  /\ buffer' = [buffer EXCEPT ![b] = "none"]
  /\ dest' = [f \in Frames |-> IF dest[f] = b THEN None ELSE dest[f]]
  /\ copied' = copied \ {b}
  /\ interrupted' = (interrupted \/ b = current)
  /\ UNCHANGED <<up, backend, initialized, state, current, completed, y_invert,
                 timers, handle, frame>>

(* The buffer goes, and its wl_buffer with it.                              *)
pwr_handle_stream_remove_buffer(b) ==
  /\ Running
  /\ buffer[b] # "none"
  /\ buffer' = [buffer EXCEPT ![b] = "none"]
  /\ current' = IF current = b THEN None ELSE current
  /\ dest' = [f \in Frames |-> IF dest[f] = b THEN None ELSE dest[f]]
  /\ copied' = copied \ {b}
  /\ interrupted' = (interrupted \/ b = current)
  /\ UNCHANGED <<up, backend, initialized, state, completed, y_invert, timers,
                 handle, frame>>

(* The consumer has read a buffer.                                          *)
Recycle(b) ==
  /\ Running
  /\ buffer[b] \in {"complete", "corrupt"}
  /\ buffer' = [buffer EXCEPT ![b] = "free"]
  /\ UNCHANGED <<up, stream, current, completed, y_invert, timers, objects,
                 copied>>

\* Mutant: the check for a buffer already held is dropped.
pwr_handle_stream_on_process_Again(b) ==
  /\ Running
  /\ state = "streaming"
  /\ xdpw_pwr_dequeue_buffer(b)
  /\ xdpw_wlr_frame_capture(b)
  /\ interrupted' = (interrupted /\ ~ Quiet)
  /\ UNCHANGED <<backend, initialized, state, y_invert>>

(* PipeWire asks for a frame: a buffer is borrowed, and captured now or     *)
(* when the frame limiter's timer fires.                                    *)
pwr_handle_stream_on_process(b) ==
  /\ Running
  /\ state = "streaming"
  /\ current = None
  /\ xdpw_pwr_dequeue_buffer(b)
  /\ xdpw_wlr_frame_capture(b)
  /\ interrupted' = (interrupted /\ ~ Quiet)
  /\ UNCHANGED <<backend, initialized, state, y_invert>>

\* Mutant: a timer that fires does not capture.
wlr_frame_capture_timer_Idle ==
  /\ Running
  /\ timers > 0
  /\ timers' = timers - 1
  /\ UNCHANGED <<up, stream, loan, y_invert, objects, copied>>

wlr_frame_capture_timer ==
  /\ Running
  /\ timers > 0
  /\ timers' = timers - 1
  /\ wlr_frame_capture_start(current)
  /\ UNCHANGED <<stream, loan, y_invert, copied>>

-----------------------------------------------------------------------------

(* The compositor fills the buffer of a frame and announces it.             *)
FrameCopied(f) ==
  /\ Running
  /\ frame[f] = "copying"
  /\ frame' = [frame EXCEPT ![f] = "copied"]
  /\ copied' = copied \union ({dest[f]} \ {None})
  /\ UNCHANGED <<up, stream, loan, y_invert, timers, handle, dest>>

\* Mutant: the buffer is kept when its constraints changed.
buffer_done_KeepsBuffer(f, p) ==
  \/ /\ initialized
     /\ current # None
     /\ handle' = p
     /\ frame' = [frame EXCEPT ![f] = "copying"]
     /\ dest' = [dest EXCEPT ![f] = current]
     /\ UNCHANGED <<up, buffer, current>>
  \/ /\ ~ initialized \/ current # None
     /\ wlr_frame_finish(p, f, "idle")
     /\ UNCHANGED <<up, buffer, current>>
  \/ /\ initialized /\ current = None
     /\ xdpw_pwr_enqueue_buffer(completed)
     /\ wlr_frame_finish(p, f, "idle")

(* wlr_frame_buffer_done with wlr_frame = p: the held buffer is the one to  *)
(* copy to, if its constraints still hold.                                  *)
buffer_done(f, p) ==
  \/ /\ initialized
     /\ current # None
     /\ handle' = p
     /\ frame' = [frame EXCEPT ![f] = "copying"]
     /\ dest' = [dest EXCEPT ![f] = current]
     /\ UNCHANGED <<up, buffer, current>>
  \/ /\ ~ initialized
     /\ wlr_frame_finish(p, f, "idle")
     /\ UNCHANGED <<up, buffer, current>>
  \/ /\ initialized
     /\ xdpw_pwr_enqueue_buffer(completed)
     /\ wlr_frame_finish(p, f, "idle")

(* Before version 3 of the protocol no buffer_done event follows.           *)
wlr_frame_buffer(f) ==
  /\ Running
  /\ backend = "screencopy"
  /\ frame[f] = "requested"
  /\ IF Version < 3 THEN buffer_done(f, f)
     ELSE /\ handle' = f
          /\ frame' = [frame EXCEPT ![f] = "offered"]
          /\ UNCHANGED <<up, buffer, current, dest>>
  /\ UNCHANGED <<stream, completed, y_invert, timers, copied>>

wlr_frame_buffer_done(f) ==
  /\ Running
  /\ frame[f] = "offered"
  /\ buffer_done(f, handle)
  /\ UNCHANGED <<stream, completed, y_invert, timers, copied>>

wlr_frame_flags(f) ==
  /\ Running
  /\ backend = "screencopy"
  /\ frame[f] = "copied"
  /\ y_invert' \in BOOLEAN
  /\ UNCHANGED <<up, stream, loan, timers, objects, copied>>

(* Whatever buffer is held, ready says that it is complete.                 *)
frame_ready(f) ==
  /\ Running
  /\ frame[f] = "copied"
  /\ completed' = TRUE
  /\ xdpw_pwr_enqueue_buffer(TRUE)
  /\ wlr_frame_finish(handle, f, "answered")
  /\ UNCHANGED <<stream, y_invert, timers, copied>>

wlr_frame_ready(f) == backend = "screencopy" /\ frame_ready(f)

ext_frame_ready(f) == backend = "ext" /\ frame_ready(f)

(* wlr_frame_failed, at any time before ready.                              *)
wlr_frame_failed(f) ==
  /\ Running
  /\ backend = "screencopy"
  /\ frame[f] \in {"requested", "offered", "idle", "copying"}
  /\ xdpw_pwr_enqueue_buffer(completed)
  /\ wlr_frame_finish(handle, f, "answered")
  /\ UNCHANGED <<stream, completed, y_invert, timers, copied>>

\* Mutant: the buffer is kept.
ext_frame_failed_Keeps(f) ==
  /\ Running
  /\ backend = "ext"
  /\ frame[f] = "copying"
  /\ wlr_frame_finish(handle, f, "answered")
  /\ UNCHANGED <<up, loan, stream, y_invert, timers, copied>>

(* ext_frame_failed for a buffer whose constraints changed; for any other   *)
(* reason it destroys the instance.                                         *)
ext_frame_failed(f) ==
  /\ Running
  /\ backend = "ext"
  /\ frame[f] = "copying"
  /\ xdpw_pwr_enqueue_buffer(completed)
  /\ wlr_frame_finish(handle, f, "answered")
  /\ UNCHANGED <<stream, completed, y_invert, timers, copied>>

(* The instance is destroyed: its timers, the frame that handle points to   *)
(* and the stream with its buffers go.                                      *)
xdpw_screencast_instance_destroy ==
  /\ Running
  /\ up' = "ended"
  /\ timers' = 0
  /\ handle' = None
  /\ frame' = IF handle = None THEN frame ELSE [frame EXCEPT ![handle] = "none"]
  /\ dest' = [f \in Frames |-> None]
  /\ state' = "paused"
  /\ buffer' = [b \in Buffers |-> "none"]
  /\ current' = None
  /\ copied' = {}
  /\ UNCHANGED <<backend, initialized, interrupted, completed, y_invert>>

(* A frame object that outlived the instance calls its handler.             *)
LateEvent(f) ==
  /\ up = "ended"
  /\ frame[f] \notin {"none", "answered"}
  /\ up' = "undefined"
  /\ UNCHANGED <<stream, loan, y_invert, timers, objects, copied>>

Next ==
  \/ xdpw_pwr_stream_create
  \/ \E new \in {"paused", "streaming", "error"} :
       pwr_handle_stream_state_changed(new)
  \/ \E b \in Buffers :
       \/ pwr_handle_stream_add_buffer(b)
       \/ pwr_handle_stream_remove_buffer(b)
       \/ Recycle(b)
       \/ pwr_handle_stream_on_process(b)
  \/ wlr_frame_capture_timer
  \/ \E f \in Frames :
       \/ FrameCopied(f)
       \/ wlr_frame_buffer(f)
       \/ wlr_frame_buffer_done(f)
       \/ wlr_frame_flags(f)
       \/ wlr_frame_ready(f)
       \/ ext_frame_ready(f)
       \/ wlr_frame_failed(f)
       \/ ext_frame_failed(f)
       \/ LateEvent(f)
  \/ xdpw_screencast_instance_destroy

Spec == Init /\ [][Next]_vars

(* The main loop fires pending timers (Timers), and the compositor answers  *)
(* every frame under way, which it does as long as the screen keeps         *)
(* changing.                                                                *)
Answer(f) == /\ f \in UnderWay
             /\ \/ FrameCopied(f) \/ wlr_frame_ready(f) \/ ext_frame_ready(f)
                \/ wlr_frame_buffer(f) \/ wlr_frame_buffer_done(f)
                \/ wlr_frame_failed(f) \/ ext_frame_failed(f)

Fairness == /\ WF_vars(wlr_frame_capture_timer)
            /\ \A f \in Frames : WF_vars(Answer(f))

FairSpec == Spec /\ Fairness

-----------------------------------------------------------------------------

(* The buffer the instance works on is the one buffer it has borrowed: none *)
(* is lost, none is given back twice or used after it was given back.       *)
OneBufferOnLoan == {b \in Buffers : buffer[b] = "held"} = {current} \ {None}

(* A stream that does not run holds no buffer, so that it can be resumed or *)
(* renegotiated.                                                            *)
PausedHoldsNothing == Running /\ state = "paused" => current = None

(* A held buffer of a running stream has a timer or a frame that will end   *)
(* the loan: however pauses, timers and late events interleave, the stream  *)
(* never waits for an answer nobody will send.                              *)
HeldBufferHasCapture ==
  Running /\ state = "streaming" /\ current # None =>
    timers > 0 \/ UnderWay # {}

(* The compositor writes only into the buffer the instance holds, never     *)
(* into one the consumer reads.  An interruption in mid-capture breaks it,  *)
(* and it holds again once a buffer is borrowed with nothing left over.     *)
CopiesIntoHeldBuffer ==
  ~ interrupted =>
    \A f \in Frames :
      Running /\ frame[f] = "copying" => dest[f] \in {current, None}

(* Each loan has exactly one capture, pending or under way, and no capture  *)
(* is without a loan.  Under the same condition.                            *)
OneCapturePerLoan ==
  Running /\ initialized /\ ~ interrupted =>
    IF current = None THEN timers = 0 /\ UnderWay = {}
    ELSE \/ timers = 1 /\ UnderWay = {}
         \/ timers = 0 /\ \E f \in Frames : UnderWay = {f}

(* The compositor is never asked for a second frame before it answered the  *)
(* first.  Under the same condition.                                        *)
NeverRefused == ~ interrupted => up # "refused"

(* The instance keeps its promises to PipeWire: one loan at a time, of a    *)
(* free buffer; the compositor writes to no other; and a buffer given back  *)
(* as complete was filled since it was lent.                                *)
Loan == INSTANCE LoanContract WITH lent <- current, filled <- copied,
                                   excused <- interrupted
ImplementsLoanContract == Loan!Spec

(* A borrowed buffer is given back.                                         *)
BufferReturned ==
  \A b \in Buffers :
    current = b ~> current # b \/ ~ Running \/ state = "error"

(* Claims of the repository that the code does not keep.                    *)

(* wlr-screencopy: ready says that the frame is available for reading; the  *)
(* buffer that is flagged complete on its account is the one it filled.     *)
ReadyBufferIsFilled ==
  \A b \in Buffers : buffer[b] = "complete" => b \in copied
=============================================================================
