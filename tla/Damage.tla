-------------------------------- MODULE Damage --------------------------------
(***************************************************************************)
(* What becomes of the damage the compositor reports with a frame           *)
(* (ext_image_copy.c, wlr_screencopy.c, pipewire_screencast.c and           *)
(* merge_damage of screencast_common.c).                                    *)
(*                                                                         *)
(* It goes two ways.  The consumer is told, with each buffer, which parts   *)
(* of the picture changed (current_frame.damage).  And on                   *)
(* ext-image-copy-capture every buffer keeps a list of what changed while   *)
(* other buffers were filled: the compositor repaints those parts besides   *)
(* the new ones and leaves the rest of the buffer as it was.                *)
(*                                                                         *)
(* Data abstracted: the picture is the set of cells the rectangles of       *)
(* Rects cover, and the delay of the frame limiter is some delay or none.  A *)
(* second frame asked for before the first was answered is not followed     *)
(* here, but in Capture.                                                    *)
(***************************************************************************)
EXTENDS Integers, Sequences, SequencesExt

CONSTANTS Buffers,       \* struct xdpw_buffer
          Rects,         \* struct xdpw_frame_damage a frame may carry
          None,          \* NULL
          Backends,      \* the capture protocols a compositor may offer
          Slots,         \* regions in the metadata, up to DAMAGE_REGION_COUNT
          MaxRegions,    \* bound on the regions of a frame
          MaxTimers      \* bound on the pending frame-rate timers

ASSUME DamageAssumption ==
  /\ None \notin Buffers
  /\ Rects # {}
  /\ Rects \subseteq [x : Nat, y : Nat, width : Nat, height : Nat]
  /\ Backends \subseteq {"ext", "screencopy"}
  /\ Slots \in Nat \ {0}
  /\ MaxRegions \in Nat
  /\ MaxTimers \in Nat

VARIABLES backend,       \* the capture protocol in use
          streaming,     \* pwr_stream_state
          buffer,        \* where each buffer of buffer_list is
          current,       \* current_frame.xdpw_buffer
          frame_damage,  \* current_frame.damage
          damage,        \* buffer->damage
          timers,        \* pending timers of the instance
          frame,         \* how far the one frame under way got
          dest,          \* the buffer it was asked to fill
          asked,         \* the regions it was asked to repaint
          regions,       \* its damage events that have not arrived
          captured,      \* history: the compositor has captured a frame
          stale,         \* history: cells in which a buffer is out of date
          missed,        \* history: cells a buffer was never told about
          unseen,        \* history: cells captured since the last delivery
          lost           \* history: those whose damage was thrown away

loan == <<buffer, current>>
lists == <<frame_damage, damage>>
request == <<frame, dest, asked, regions>>
history == <<captured, stale, missed, unseen, lost>>
vars == <<backend, streaming, loan, lists, timers, request, history>>

Cells(r) == (r.x .. r.x + r.width - 1) \X (r.y .. r.y + r.height - 1)

Cover(R) == UNION {Cells(r) : r \in R}

Screen == Cover(Rects)

Pool == {b \in Buffers : buffer[b] # "none"}

TypeOK ==
  /\ backend \in Backends
  /\ streaming \in BOOLEAN
  /\ buffer \in [Buffers -> {"none", "free", "held", "given"}]
  /\ current \in Buffers \union {None}
  /\ \A b \in Buffers : buffer[b] = "held" <=> b = current
  /\ frame_damage \in Seq(Rects)
  /\ damage \in [Buffers -> SUBSET Rects]
  /\ timers \in 0..MaxTimers
  /\ frame \in {"none", "requested", "copying", "copied", "second"}
  /\ dest \in Buffers \union {None}
  /\ asked \in SUBSET Rects
  /\ regions \in Seq(Rects)
  /\ captured \in BOOLEAN
  /\ stale \in [Buffers -> SUBSET Screen]
  /\ missed \in [Buffers -> SUBSET Screen]
  /\ unseen \in SUBSET Screen
  /\ lost \in SUBSET Screen

Init == /\ backend \in Backends
        /\ streaming = FALSE
        /\ buffer = [b \in Buffers |-> "none"]
        /\ current = None
        /\ frame_damage = <<>>
        /\ damage = [b \in Buffers |-> {}]
        /\ timers = 0
        /\ frame = "none"
        /\ dest = None
        /\ asked = {}
        /\ regions = <<>>
        /\ captured = FALSE
        /\ stale = [b \in Buffers |-> Screen]
        /\ missed = [b \in Buffers |-> {}]
        /\ unseen = {}
        /\ lost = {}

Following == frame # "second"

-----------------------------------------------------------------------------

(* merge_damage: the first comparison is of an x with a y.                  *)
merge_damage(d1, d2) ==
  LET x == IF d1.x < d2.y THEN d1.x ELSE d2.x
      y == IF d1.y < d2.y THEN d1.y ELSE d2.y
      x0 == IF d1.x + d1.width < d2.x + d2.width THEN d2.x + d2.width
                                                 ELSE d1.x + d1.width
      y0 == IF d1.y + d1.height < d2.y + d2.height THEN d2.y + d2.height
                                                   ELSE d1.y + d1.height
  IN  [x |-> x, y |-> y, width |-> x0 - x, height |-> y0 - y]

\* Mutant: the loop stops where the last slot would be written.
Regions_StopsEarly(list) ==
  IF Len(list) < Slots THEN ToSet(list)
  ELSE ToSet(SubSeq(list, 1, Slots - 1))

(* The regions of the metadata: the last slot takes all that do not fit.    *)
Regions(list) ==
  IF Len(list) <= Slots THEN ToSet(list)
  ELSE ToSet(SubSeq(list, 1, Slots - 1))
         \union {FoldLeft(merge_damage, list[Slots],
                          SubSeq(list, Slots + 1, Len(list)))}

(* Gives the held buffer back; the consumer uses one flagged complete.      *)
xdpw_pwr_enqueue_buffer(complete) ==
  /\ current' = None
  /\ buffer' = IF current = None THEN buffer
               ELSE [buffer EXCEPT ![current] = "given"]
  /\ unseen' = IF complete /\ current # None THEN {} ELSE unseen

(* What clearing current_frame.damage loses: the part nobody was told of.   *)
Untold == unseen \intersect Cover(ToSet(frame_damage))

-----------------------------------------------------------------------------

(* A new buffer has an empty list and nothing in it.  The first frame of a  *)
(* capture session damages everything, which a later buffer is not told.    *)
pwr_handle_stream_add_buffer(b) ==
  /\ Following
  /\ buffer[b] = "none"
  /\ buffer' = [buffer EXCEPT ![b] = "free"]
  /\ damage' = [damage EXCEPT ![b] = {}]
  /\ stale' = [stale EXCEPT ![b] = Screen]
  /\ missed' = [missed EXCEPT ![b] = IF captured THEN Screen ELSE {}]
  /\ UNCHANGED <<backend, streaming, current, frame_damage, timers, request,
                 captured, unseen, lost>>

pwr_handle_stream_remove_buffer(b) ==
  /\ Following
  /\ buffer[b] # "none"
  /\ buffer' = [buffer EXCEPT ![b] = "none"]
  /\ current' = IF current = b THEN None ELSE current
  /\ dest' = IF dest = b THEN None ELSE dest
  /\ UNCHANGED <<backend, streaming, lists, timers, frame, asked, regions,
                 history>>

(* Pausing gives the held buffer back; the frame under way stays.           *)
pwr_handle_stream_state_changed ==
  /\ Following
  /\ streaming' = ~ streaming
  /\ IF streaming THEN xdpw_pwr_enqueue_buffer(FALSE)
     ELSE UNCHANGED <<loan, unseen>>
  /\ UNCHANGED <<backend, lists, timers, request, captured, stale, missed, lost>>

(* The consumer has read a buffer.                                          *)
Recycle(b) ==
  /\ Following
  /\ buffer[b] = "given"
  /\ buffer' = [buffer EXCEPT ![b] = "free"]
  /\ UNCHANGED <<backend, streaming, current, lists, timers, request, history>>

(* The compositor is asked to repaint what the buffer missed.               *)
ext_register_frame_cb(b) ==
  /\ frame' = "copying"
  /\ dest' = b
  /\ asked' = damage[b]

(* A frame for buffer b, which the protocol asks for now (ext), or once it  *)
(* has announced its constraints (screencopy).                              *)
wlr_frame_capture_start(b) ==
  \/ /\ frame # "none"
     /\ frame' = "second"
     /\ UNCHANGED <<dest, asked>>
  \/ /\ frame = "none" /\ backend = "ext"
     /\ ext_register_frame_cb(b)
  \/ /\ frame = "none" /\ backend = "screencopy"
     /\ frame' = "requested"
     /\ UNCHANGED <<dest, asked>>

(* PipeWire lends a buffer, and a frame is started for it now or later.     *)
pwr_handle_stream_on_process(b) ==
  /\ Following
  /\ streaming
  /\ current = None
  /\ buffer[b] = "free"
  /\ buffer' = [buffer EXCEPT ![b] = "held"]
  /\ current' = b
  /\ \/ /\ timers < MaxTimers
        /\ timers' = timers + 1
        /\ UNCHANGED <<frame, dest, asked>>
     \/ /\ wlr_frame_capture_start(b)
        /\ UNCHANGED timers
  /\ UNCHANGED <<backend, streaming, lists, regions, history>>

(* A timer left from before a pause may find no buffer (ext), or a stream   *)
(* that does not run (screencopy).                                          *)
wlr_frame_capture_timer ==
  /\ Following
  /\ timers > 0
  /\ timers' = timers - 1
  /\ \/ /\ IF backend = "ext" THEN current # None ELSE streaming
        /\ wlr_frame_capture_start(current)
     \/ /\ IF backend = "ext" THEN current = None ELSE ~ streaming
        /\ UNCHANGED <<frame, dest, asked>>
  /\ UNCHANGED <<backend, streaming, loan, lists, regions, history>>

-----------------------------------------------------------------------------

Answered == frame' = "none" /\ dest' = None /\ asked' = {}

(* A screencopy frame knows its constraints: it is asked to copy, or given  *)
(* up because there is no buffer, or none that fits.                        *)
wlr_frame_buffer_done ==
  /\ frame = "requested"
  /\ \/ /\ current # None
        /\ frame_damage' = <<>>
        /\ lost' = lost \union Untold
        /\ frame' = "copying"
        /\ dest' = current
        /\ UNCHANGED <<loan, asked, unseen>>
     \/ /\ xdpw_pwr_enqueue_buffer(FALSE)
        /\ Answered
        /\ UNCHANGED <<frame_damage, lost>>
  /\ UNCHANGED <<backend, streaming, damage, timers, regions, captured, stale,
                 missed>>

(* The compositor copies what changed since its last frame (everything, the *)
(* first time): on screencopy the whole picture into the buffer, on         *)
(* ext-image-copy-capture those regions and the ones it was asked for.      *)
FrameCopied(list) ==
  /\ frame = "copying"
  /\ backend = "ext" /\ ~ captured => Cover(ToSet(list)) = Screen
  /\ frame' = "copied"
  /\ regions' = list
  /\ captured' = TRUE
  /\ stale' = [b \in Buffers |->
                 CASE b # dest -> stale[b] \union Cover(ToSet(list))
                   [] b = dest /\ backend = "ext" ->
                        stale[b] \ Cover(ToSet(list) \union asked)
                   [] OTHER -> {}]
  /\ missed' = [b \in Buffers |-> missed[b] \ Cover(ToSet(list))]
  /\ unseen' = unseen \union Cover(ToSet(list))
  /\ UNCHANGED <<backend, streaming, loan, lists, timers, dest, asked, lost>>

FrameDamage ==
  /\ frame = "copied"
  /\ regions # <<>>
  /\ frame_damage' = Append(frame_damage, Head(regions))
  /\ regions' = Tail(regions)
  /\ UNCHANGED <<backend, streaming, loan, timers, frame, dest, asked, history>>

\* Mutant: only the buffers that are not being filled are told, by the loan
\* of the moment.
ext_frame_damage_NotCurrent ==
  /\ backend = "ext"
  /\ FrameDamage
  /\ damage' = [b \in Buffers |-> IF buffer[b] = "free"
                                  THEN damage[b] \union {Head(regions)}
                                  ELSE damage[b]]

(* Every buffer of the list is told, whoever has it.                        *)
ext_frame_damage ==
  /\ backend = "ext"
  /\ FrameDamage
  /\ damage' = [b \in Buffers |-> IF b \in Pool
                                  THEN damage[b] \union {Head(regions)}
                                  ELSE damage[b]]

wlr_frame_damage ==
  /\ backend = "screencopy"
  /\ FrameDamage
  /\ UNCHANGED damage

(* The buffer held by now is given back as complete, its list is cleared,   *)
(* whether it was the one that was filled or not, and so is that of the     *)
(* frame, also if there is no buffer to report it.                          *)
ext_frame_ready ==
  /\ backend = "ext"
  /\ frame = "copied"
  /\ regions = <<>>
  /\ xdpw_pwr_enqueue_buffer(TRUE)
  /\ damage' = [b \in Buffers |-> IF b = current THEN {} ELSE damage[b]]
  /\ missed' = [b \in Buffers |-> IF b = current /\ b # dest
                                  THEN missed[b] \union stale[b] ELSE missed[b]]
  /\ frame_damage' = <<>>
  /\ lost' = IF current = None THEN lost \union Untold ELSE {}
  /\ Answered
  /\ UNCHANGED <<backend, streaming, timers, regions, captured, stale>>

wlr_frame_ready ==
  /\ backend = "screencopy"
  /\ frame = "copied"
  /\ regions = <<>>
  /\ xdpw_pwr_enqueue_buffer(TRUE)
  /\ lost' = IF current = None THEN lost ELSE {}
  /\ Answered
  /\ UNCHANGED <<backend, streaming, lists, timers, regions, captured, stale,
                 missed>>

(* ext_frame_failed, for a buffer that does not fit, and wlr_frame_failed:  *)
(* the buffer was not filled and its list stays.                            *)
frame_failed ==
  /\ frame \in {"requested", "copying"}
  /\ xdpw_pwr_enqueue_buffer(FALSE)
  /\ Answered
  /\ UNCHANGED <<backend, streaming, lists, timers, regions, captured, stale,
                 missed, lost>>

Next ==
  \/ \E b \in Buffers :
       \/ pwr_handle_stream_add_buffer(b)
       \/ pwr_handle_stream_remove_buffer(b)
       \/ Recycle(b)
       \/ pwr_handle_stream_on_process(b)
  \/ wlr_frame_capture_timer
  \/ pwr_handle_stream_state_changed
  \/ wlr_frame_buffer_done
  \/ \E n \in 1..MaxRegions : \E list \in [1..n -> Rects] : FrameCopied(list)
  \/ ext_frame_damage
  \/ wlr_frame_damage
  \/ ext_frame_ready
  \/ wlr_frame_ready
  \/ frame_failed

Spec == Init /\ [][Next]_vars

-----------------------------------------------------------------------------

(* The frame under way is ready, and a held buffer is given back for it.    *)
Delivers ==
  frame = "copied" /\ regions = <<>> /\ current # None /\ frame' = "none"

(* What a buffer that was not filled may lack: what its list says.          *)
Unfilled == IF current = dest THEN {} ELSE Cover(damage[current])

(* A buffer given back as complete shows the picture of its frame, however  *)
(* many frames, failures and pauses ago it was filled before: what it       *)
(* collected, and the compositor repainted, was everything that changed     *)
(* since.  All it may lack is cells that no frame changed since they were   *)
(* withheld from it: when it was added after the first frame of the         *)
(* session, or when the late answer to another's frame cleared its list.    *)
(* On ext-image-copy-capture such an answer gives back a buffer that lacks  *)
(* no more than its list had collected.                                     *)
DeliveredIsFresh ==
  [][Delivers /\ (current = dest \/ backend = "ext")
       => stale[current] \subseteq missed[current] \union Unfilled]_vars

(* The consumer is told every region that changed since the last picture it *)
(* got, but for those whose frame was answered when no buffer was held, and *)
(* unless regions had to be merged.                                         *)
ConsumerIsTold ==
  [][Delivers /\ Len(frame_damage) <= Slots
       => unseen \subseteq Cover(Regions(frame_damage)) \union lost]_vars

(* Claims of the repository that the code does not keep.                    *)

(* wlr-screencopy: the union of the regions is the total damage since the   *)
(* prior ready event; the regions reported to the consumer cover it.        *)
MergedDamageCovers ==
  [][Delivers => unseen \subseteq Cover(Regions(frame_damage)) \union lost]_vars
=============================================================================
