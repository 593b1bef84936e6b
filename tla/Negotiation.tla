----------------------------- MODULE Negotiation -----------------------------
(***************************************************************************)
(* How the format of a stream is agreed on, and agreed on again: the        *)
(* compositor announces constraints for the buffers it will fill, the       *)
(* instance offers them to PipeWire, PipeWire picks a format a consumer     *)
(* accepts, the instance fixes a modifier or falls back to shared memory,   *)
(* and buffers are created.  (pipewire_screencast.c, screencast_common.c,   *)
(* ext_image_copy.c, wlr_screencopy.c.)                                     *)
(*                                                                         *)
(* Messages cross: a format PipeWire sent for an earlier offer arrives      *)
(* after the constraints changed, and buffers are created from the          *)
(* constraints of that moment, not from those the format was offered with.  *)
(*                                                                         *)
(* Data abstracted: the framerate, planes and strides; formats PipeWire has *)
(* no name for; among offers of one kind the order is left open.            *)
(***************************************************************************)
EXTENDS Naturals

CONSTANTS Buffers,      \* struct pw_buffer
          Sizes,        \* width and height of a frame
          Fourccs,      \* DRM_FORMAT_*
          Opaque,       \* the format without its alpha channel, or None
          Modifiers,    \* DRM_FORMAT_MOD_*
          Announced,    \* the constraints the compositor may announce
          Backends,     \* the capture protocols to consider
          None,         \* not there, not set
          MaxChanges    \* bound on the changes of the constraints

Pairs == Fourccs \X Modifiers

Constraints == [size : Sizes, dmabuf : SUBSET Pairs, shm : SUBSET Fourccs]

(* A format with all the modifiers it may have, or with one, fixed.         *)
Formats == [kind : {"dmabuf", "shm"}, fourcc : Fourccs, mods : SUBSET Modifiers,
            fixed : BOOLEAN, size : Sizes]

BufferKinds == [kind : {"dmabuf", "shm"}, fourcc : Fourccs,
                mods : SUBSET Modifiers, size : Sizes]

ASSUME NegotiationAssumption ==
  /\ Opaque \in [Fourccs -> Fourccs \union {None}]
  /\ Announced \subseteq Constraints
  /\ Backends \subseteq {"ext", "screencopy"}
  /\ None \notin Fourccs \union Pairs \union Formats \union BufferKinds
  /\ MaxChanges \in Nat

VARIABLES up,            \* "running", or how the instance came to its end
          backend,       \* the capture protocol in use
          accepts,       \* modifiers the consumer accepts
          acceptsShm,    \* whether it accepts shared memory
          current,       \* cast->current_constraints
          changes,       \* how often they changed
          avoid_dmabufs, \* cast->avoid_dmabufs
          offer,         \* the parameters of the stream
          unanswered,    \* PipeWire has not picked a format for them yet
          sent,          \* a format PipeWire sent, not yet handled
          format,        \* cast->pwr_format
          agreed,        \* the buffer parameters for it were given
          buffer,        \* the xdpw_buffer of each pw_buffer
          lent           \* history: there have been buffers to capture into

consumer == <<backend, accepts, acceptsShm>>
vars == <<up, consumer, current, changes, avoid_dmabufs, offer, unanswered, sent,
          format, agreed, buffer, lent>>

Offers == [fixed : Pairs \union {None}, dmabuf : SUBSET Pairs,
           shm : SUBSET Fourccs, size : Sizes]

TypeOK == /\ up \in {"running", "ended", "aborted"}
          /\ backend \in Backends
          /\ accepts \subseteq Modifiers
          /\ acceptsShm \in BOOLEAN
          /\ current \in Constraints
          /\ changes \in 0..MaxChanges
          /\ avoid_dmabufs \in BOOLEAN
          /\ offer \in Offers
          /\ unanswered \in BOOLEAN
          /\ sent \in Formats \union {None}
          /\ format \in Formats \union {None}
          /\ agreed \in BOOLEAN
          /\ buffer \in [Buffers -> BufferKinds \union {None}]
          /\ lent \in BOOLEAN

ModifiersOf(D, x) == {m \in Modifiers : <<x, m>> \in D}

(* What the stream is offered with: the pair fixate_format puts first, if    *)
(* any, then the dmabuf formats, then those of shared memory.               *)
build_formats(c, avoid, fixed) ==
  [fixed |-> fixed, dmabuf |-> IF avoid THEN {} ELSE c.dmabuf,
   shm |-> c.shm, size |-> c.size]

(* xdpw_pwr_stream_create.                                                  *)
Init == /\ up = "running"
        /\ backend \in Backends
        /\ accepts \in SUBSET Modifiers
        /\ acceptsShm \in BOOLEAN
        /\ current \in Announced
        /\ changes = 0
        /\ avoid_dmabufs = FALSE
        /\ offer = build_formats(current, FALSE, None)
        /\ unanswered = TRUE
        /\ sent = None
        /\ format = None
        /\ agreed = FALSE
        /\ buffer = [b \in Buffers |-> None]
        /\ lent = FALSE

-----------------------------------------------------------------------------

\* Mutant: the parameters of the stream are not updated.
pwr_update_stream_param_Not(c) == UNCHANGED <<offer, unanswered>>

\* Mutant: the fallback to shared memory is forgotten.
pwr_update_stream_param_ForgetsFallback(c) ==
  /\ offer' = build_formats(c, FALSE, None)
  /\ unanswered' = TRUE

(* The constraints are now c.                                               *)
pwr_update_stream_param(c) == /\ offer' = build_formats(c, avoid_dmabufs, None)
                              /\ unanswered' = TRUE

\* Mutant: a change is noticed only while there are buffers.
ext_session_done_NoBuffers(c) ==
  /\ up = "running"
  /\ backend = "ext"
  /\ changes < MaxChanges
  /\ changes' = changes + 1
  /\ current' = c
  /\ IF \E b \in Buffers : buffer[b] # None THEN pwr_update_stream_param(c)
     ELSE UNCHANGED <<offer, unanswered>>
  /\ UNCHANGED <<up, consumer, avoid_dmabufs, sent, format, agreed, buffer, lent>>

(* The session announces new constraints.                                   *)
ext_session_done(c) ==
  /\ up = "running"
  /\ backend = "ext"
  /\ changes < MaxChanges
  /\ changes' = changes + 1
  /\ current' = c
  /\ pwr_update_stream_param(c)
  /\ UNCHANGED <<up, consumer, avoid_dmabufs, sent, format, agreed, buffer, lent>>

check_constraints(c, d) ==
  /\ d.size = c.size
  /\ IF d.kind = "dmabuf" THEN \A m \in d.mods : <<d.fourcc, m>> \in c.dmabuf
     ELSE d.fourcc \in c.shm

(* Every frame announces them, and they are looked at only when it has a    *)
(* buffer b; None: the buffer it was started for went away.                 *)
wlr_frame_buffer_done(c, b) ==
  /\ up = "running"
  /\ backend = "screencopy"
  /\ c = current \/ changes < MaxChanges
  /\ changes' = IF c = current THEN changes ELSE changes + 1
  /\ current' = c
  /\ \/ /\ b = None
        /\ UNCHANGED <<offer, unanswered>>
     \/ /\ b # None
        /\ buffer[b] # None
        /\ check_constraints(c, buffer[b])
        /\ UNCHANGED <<offer, unanswered>>
     \/ /\ b # None
        /\ buffer[b] # None
        /\ ~ check_constraints(c, buffer[b])
        /\ pwr_update_stream_param(c)
  /\ UNCHANGED <<up, consumer, avoid_dmabufs, sent, format, agreed, buffer, lent>>

-----------------------------------------------------------------------------

(* The first of the offers the consumer accepts.  Shared memory is offered   *)
(* also without the alpha channel.                                         *)
Picks(o) ==
  LET shared(x) == ModifiersOf(o.dmabuf, x) \intersect accepts
  IN  IF o.fixed # None /\ o.fixed[2] \in accepts
      THEN {[kind |-> "dmabuf", fourcc |-> o.fixed[1], mods |-> {o.fixed[2]},
             fixed |-> TRUE, size |-> o.size]}
      ELSE IF \E x \in Fourccs : shared(x) # {}
      THEN {[kind |-> "dmabuf", fourcc |-> x, mods |-> shared(x),
             fixed |-> FALSE, size |-> o.size] : x \in {y \in Fourccs : shared(y) # {}}}
      ELSE IF acceptsShm
      THEN {[kind |-> "shm", fourcc |-> y, mods |-> {}, fixed |-> TRUE,
             size |-> o.size] : y \in o.shm \union ({Opaque[x] : x \in o.shm} \ {None})}
      ELSE {}

(* PipeWire picks a format for the latest offer.  One that is on its way is *)
(* handled first.                                                           *)
PickFormat ==
  /\ up = "running"
  /\ unanswered
  /\ sent = None
  /\ sent' \in Picks(offer)
  /\ unanswered' = FALSE
  /\ UNCHANGED <<up, consumer, current, changes, avoid_dmabufs, offer, format,
                 agreed, buffer, lent>>

has_drm_fourcc(x) ==
  ~ avoid_dmabufs /\ \E m \in Modifiers : <<x, m>> \in current.dmabuf

(* A new format takes the buffers of the one before away.                   *)
FormatArrives == /\ up = "running"
                 /\ sent # None
                 /\ sent' = None
                 /\ format' = sent
                 /\ buffer' = [b \in Buffers |-> None]
                 /\ UNCHANGED <<consumer, current, changes, lent>>

(* param_changed with a format that has nothing left to choose: the buffer  *)
(* parameters are given.                                                    *)
param_changed_Agrees ==
  /\ FormatArrives
  /\ sent.fixed
  /\ sent.kind = "dmabuf" => has_drm_fourcc(sent.fourcc)
  /\ agreed' = TRUE
  /\ UNCHANGED <<up, avoid_dmabufs, offer, unanswered>>

(* The assertion that a dmabuf format is one of the current constraints.    *)
param_changed_Asserts ==
  /\ FormatArrives
  /\ sent.kind = "dmabuf"
  /\ ~ has_drm_fourcc(sent.fourcc)
  /\ up' = "aborted"
  /\ UNCHANGED <<agreed, avoid_dmabufs, offer, unanswered>>

\* Mutant: the modifier is fixed and the buffer parameters given at once.
param_changed_Fixates_AtOnce(m) ==
  /\ FormatArrives
  /\ ~ sent.fixed
  /\ has_drm_fourcc(sent.fourcc)
  /\ m \in sent.mods
  /\ offer' = build_formats(current, avoid_dmabufs, <<sent.fourcc, m>>)
  /\ unanswered' = TRUE
  /\ agreed' = TRUE
  /\ UNCHANGED <<up, avoid_dmabufs>>

(* A buffer can be allocated with modifier m: it is offered first.          *)
param_changed_Fixates(m) ==
  /\ FormatArrives
  /\ ~ sent.fixed
  /\ has_drm_fourcc(sent.fourcc)
  /\ m \in sent.mods
  /\ offer' = build_formats(current, avoid_dmabufs, <<sent.fourcc, m>>)
  /\ unanswered' = TRUE
  /\ agreed' = FALSE
  /\ UNCHANGED <<up, avoid_dmabufs>>

\* Mutant: the fallback does not return, and the buffer parameters are given.
param_changed_FallsBack_NoReturn ==
  /\ FormatArrives
  /\ ~ sent.fixed
  /\ has_drm_fourcc(sent.fourcc)
  /\ avoid_dmabufs' = TRUE
  /\ offer' = build_formats(current, TRUE, None)
  /\ unanswered' = TRUE
  /\ agreed' = TRUE
  /\ up' = up

(* No modifier can be allocated: from now on only shared memory is offered. *)
param_changed_FallsBack ==
  /\ FormatArrives
  /\ ~ sent.fixed
  /\ has_drm_fourcc(sent.fourcc)
  /\ avoid_dmabufs' = TRUE
  /\ offer' = build_formats(current, TRUE, None)
  /\ unanswered' = TRUE
  /\ agreed' = FALSE
  /\ up' = up

(* The size of a buffer is that of the current constraints.                 *)
xdpw_buffer_create(f) ==
  [kind |-> f.kind, fourcc |-> f.fourcc, mods |-> f.mods, size |-> current.size]

pwr_handle_stream_add_buffer(b) ==
  /\ up = "running"
  /\ agreed
  /\ buffer[b] = None
  /\ format.kind = "shm" => format.fourcc \in current.shm
  /\ buffer' = [buffer EXCEPT ![b] = xdpw_buffer_create(format)]
  /\ lent' = TRUE
  /\ UNCHANGED <<up, consumer, current, changes, avoid_dmabufs, offer, unanswered,
                 sent, format, agreed>>

(* A format the constraints no longer list, or memory that cannot be had,   *)
(* ends the instance.                                                       *)
add_buffer_Fails(b) ==
  /\ up = "running"
  /\ agreed
  /\ buffer[b] = None
  /\ up' = "ended"
  /\ UNCHANGED <<consumer, current, changes, avoid_dmabufs, offer, unanswered,
                 sent, format, agreed, buffer, lent>>

pwr_handle_stream_remove_buffer(b) ==
  /\ up = "running"
  /\ buffer[b] # None
  /\ buffer' = [buffer EXCEPT ![b] = None]
  /\ UNCHANGED <<up, consumer, current, changes, avoid_dmabufs, offer, unanswered,
                 sent, format, agreed, lent>>

Next ==
  \/ \E c \in Announced :
       \/ ext_session_done(c)
       \/ \E b \in Buffers \union {None} : wlr_frame_buffer_done(c, b)
  \/ PickFormat
  \/ param_changed_Agrees
  \/ param_changed_Asserts
  \/ \E m \in Modifiers : param_changed_Fixates(m)
  \/ param_changed_FallsBack
  \/ \E b \in Buffers :
       \/ pwr_handle_stream_add_buffer(b)
       \/ add_buffer_Fails(b)
       \/ pwr_handle_stream_remove_buffer(b)

Spec == Init /\ [][Next]_vars

(* PipeWire answers an offer with a format when there is one, delivers it,  *)
(* and allocates buffers once it is agreed.  With wlr-screencopy a buffer   *)
(* that is there again and again is used for a frame.                       *)
FormatHandled == \/ param_changed_Agrees
                 \/ param_changed_Asserts
                 \/ \E m \in Modifiers : param_changed_Fixates(m)
                 \/ param_changed_FallsBack

FairSpec ==
  /\ Spec
  /\ WF_vars(PickFormat)
  /\ WF_vars(FormatHandled)
  /\ \A b \in Buffers :
       /\ WF_vars(pwr_handle_stream_add_buffer(b) \/ add_buffer_Fails(b))
       /\ SF_vars(wlr_frame_buffer_done(current, b))

-----------------------------------------------------------------------------

(* On ext-image-copy-capture the stream is always offered with the          *)
(* constraints announced last, whatever was fixed or given up since: a      *)
(* format picked for older ones is picked again.                            *)
OffersAreCurrent ==
  backend = "ext" => offer = build_formats(current, avoid_dmabufs, offer.fixed)

(* Once no dmabuf could be allocated the stream stays with shared memory:   *)
(* no format agreed on and no buffer is a dmabuf, also when constraints     *)
(* change or a format picked before arrives after.                          *)
FallbackIsFinal ==
  avoid_dmabufs => /\ agreed /\ up = "running" => format.kind = "shm"
                   /\ \A b \in Buffers : buffer[b] # None => buffer[b].kind = "shm"

(* A buffer is what the consumer was told: of the kind, the format and the  *)
(* one modifier that were agreed on.  None outlives a new agreement, or is  *)
(* allocated while a modifier is still to be fixed.                         *)
BuffersMatchFormat ==
  \A b \in Buffers : buffer[b] # None =>
    /\ agreed
    /\ format.fixed
    /\ buffer[b].kind = format.kind
    /\ buffer[b].fourcc = format.fourcc
    /\ buffer[b].mods = format.mods

(* What was offered and picked holds for the buffers there are: the         *)
(* compositor can fill them, and they have the size the consumer expects.   *)
Settled == /\ ~ unanswered
           /\ sent = None
           /\ agreed
           /\ \A b \in Buffers : buffer[b] # None =>
                /\ check_constraints(current, buffer[b])
                /\ buffer[b].size = format.size

(* The consumer accepts none of the offers.                                 *)
Unacceptable == unanswered /\ Picks(offer) = {}

(* A frame without a buffer announced another size, which nothing offers.   *)
SizeMissed == backend = "screencopy" /\ offer.size # current.size

(* A format of older constraints was answered by fixing a modifier the      *)
(* compositor does not list any more; on ext nothing offers anew.           *)
FixedAstray == /\ backend = "ext"
               /\ offer.fixed # None
               /\ offer.fixed \notin current.dmabuf

(* Nothing is under way between the instance and PipeWire.                  *)
AtRest == up = "running" /\ ~ unanswered /\ sent = None

(* On ext-image-copy-capture negotiation never rests on an agreement that   *)
(* is out of date, however constraints, formats and buffers crossed: at     *)
(* rest the buffers fit the latest constraints, but for a modifier fixed in *)
(* answer to older ones.                                                    *)
RestIsSettled == backend = "ext" /\ AtRest => Settled \/ FixedAstray

(* assert(has_drm_fourcc(cast, fourcc)) fails on ext-image-copy-capture only *)
(* for a format that was overtaken by newer constraints, or for a modifier   *)
(* fixed in answer to such a format.                                        *)
AssertsOnlyIfOvertaken ==
  backend = "ext" /\ up = "aborted" => unanswered \/ FixedAstray

GivesUp == up # "running" \/ Unacceptable \/ SizeMissed \/ FixedAstray

(* Negotiation comes to an end: when the constraints no longer change, the  *)
(* stream ends up with buffers the compositor can fill and the consumer     *)
(* expects, unless the instance ends, nothing is acceptable, or one of the  *)
(* two ways in which a change gets lost.                                    *)
Settles == <>[](Settled \/ GivesUp)

(* assert(has_drm_fourcc(cast, fourcc)): the format that was picked is one  *)
(* of the current constraints.                                              *)
PickedFormatIsCurrent == up # "aborted"
=============================================================================
