-------------------------- MODULE NegotiationProofs --------------------------
(***************************************************************************)
(* Theorems about Negotiation, for every set of buffers, formats and        *)
(* modifiers, whatever constraints are announced and however often.         *)
(***************************************************************************)
EXTENDS Negotiation, TLAPS

(* A format is agreed on only when it has nothing left to choose: buffers   *)
(* are allocated from it, so BuffersMatchFormat needs it.                   *)
AgreedIsFixed == agreed /\ up = "running" => format \in Formats /\ format.fixed

IInv == /\ TypeOK
        /\ OffersAreCurrent
        /\ FallbackIsFinal
        /\ AgreedIsFixed
        /\ BuffersMatchFormat

(* What build_formats makes of constraints and a pair, or none, is an offer. *)
LEMMA BuildFormatsType ==
  ASSUME NEW c \in Constraints, NEW avoid \in BOOLEAN,
         NEW fixed \in Pairs \union {None}
  PROVE  /\ build_formats(c, avoid, fixed) \in Offers
         /\ build_formats(c, avoid, fixed).fixed = fixed
  BY DEF build_formats, Offers, Constraints

(* PipeWire picks formats.                                                  *)
LEMMA PicksType ==
  ASSUME NEW o \in Offers
  PROVE  Picks(o) \subseteq Formats
<1> DEFINE shared(y) == ModifiersOf(o.dmabuf, y) \intersect accepts
<1>1. \A y \in Fourccs : shared(y) \subseteq Modifiers
  BY DEF ModifiersOf
<1>2. ASSUME o.fixed # None
      PROVE  o.fixed[1] \in Fourccs /\ {o.fixed[2]} \subseteq Modifiers
  BY <1>2 DEF Offers, Pairs
<1>3. \A y \in o.shm : Opaque[y] \in Fourccs \union {None}
  BY NegotiationAssumption DEF Offers
<1>4. o.size \in Sizes /\ o.shm \subseteq Fourccs
  BY DEF Offers
<1> SUFFICES ASSUME NEW f \in Picks(o)
             PROVE  f \in Formats
  OBVIOUS
<1>5. CASE o.fixed # None /\ o.fixed[2] \in accepts
  <2>1. f = [kind |-> "dmabuf", fourcc |-> o.fixed[1], mods |-> {o.fixed[2]},
             fixed |-> TRUE, size |-> o.size]
    BY <1>5 DEF Picks
  <2> QED BY <2>1, <1>2, <1>4, <1>5 DEF Formats
<1>6. CASE /\ ~ (o.fixed # None /\ o.fixed[2] \in accepts)
           /\ \E y \in Fourccs : shared(y) # {}
  <2>1. PICK y \in Fourccs :
          f = [kind |-> "dmabuf", fourcc |-> y, mods |-> shared(y),
               fixed |-> FALSE, size |-> o.size]
    BY <1>6 DEF Picks
  <2> HIDE DEF shared
  <2> QED BY <2>1, <1>1, <1>4 DEF Formats
<1>7. CASE /\ ~ (o.fixed # None /\ o.fixed[2] \in accepts)
           /\ ~ \E y \in Fourccs : shared(y) # {}
  <2>1. PICK y \in o.shm \union ({Opaque[z] : z \in o.shm} \ {None}) :
          f = [kind |-> "shm", fourcc |-> y, mods |-> {}, fixed |-> TRUE,
               size |-> o.size]
    BY <1>7 DEF Picks
  <2>2. y \in Fourccs
    BY <1>3, <1>4
  <2> QED BY <2>1, <2>2, <1>4 DEF Formats
<1> QED BY <1>5, <1>6, <1>7

-----------------------------------------------------------------------------

LEMMA InitInv == Init => IInv
<1> SUFFICES ASSUME Init PROVE IInv
  OBVIOUS
<1> USE DEF Init
<1>1. current \in Constraints /\ changes \in 0..MaxChanges
  BY NegotiationAssumption
<1>2. offer \in Offers
  BY <1>1, BuildFormatsType
<1>3. TypeOK
  BY <1>1, <1>2 DEF TypeOK
<1>4. OffersAreCurrent
  BY <1>1, BuildFormatsType DEF OffersAreCurrent
<1>5. FallbackIsFinal /\ AgreedIsFixed /\ BuffersMatchFormat
  BY DEF FallbackIsFinal, AgreedIsFixed, BuffersMatchFormat
<1> QED BY <1>3, <1>4, <1>5 DEF IInv

(* New constraints change nothing that was agreed on.                       *)
LEMMA ConstraintsKeepInv ==
  ASSUME IInv, NEW c \in Announced, NEW b \in Buffers \union {None},
         ext_session_done(c) \/ wlr_frame_buffer_done(c, b)
  PROVE  IInv'
<1> USE DEF IInv
<1>1. c \in Constraints /\ None \in Pairs \union {None}
  BY NegotiationAssumption
<1>2. UNCHANGED <<up, consumer, avoid_dmabufs, sent, format, agreed, buffer>>
  BY DEF ext_session_done, wlr_frame_buffer_done
<1>3. /\ current' = c
      /\ changes' \in 0..MaxChanges
      /\ lent' \in BOOLEAN
  BY NegotiationAssumption
  DEF ext_session_done, wlr_frame_buffer_done, TypeOK
<1>4. \/ offer' = build_formats(c, avoid_dmabufs, None) /\ unanswered' = TRUE
      \/ backend = "screencopy" /\ UNCHANGED <<offer, unanswered>>
  BY DEF ext_session_done, wlr_frame_buffer_done, pwr_update_stream_param
<1>5. offer' \in Offers /\ unanswered' \in BOOLEAN
  <2>1. build_formats(c, avoid_dmabufs, None) \in Offers
    BY <1>1, BuildFormatsType DEF TypeOK
  <2> QED BY <1>4, <2>1 DEF TypeOK
<1>6. TypeOK'
  BY <1>1, <1>2, <1>3, <1>5 DEF TypeOK, consumer
<1>7. OffersAreCurrent'
  BY <1>1, <1>2, <1>3, <1>4, BuildFormatsType
  DEF OffersAreCurrent, TypeOK, consumer
<1>8. FallbackIsFinal' /\ AgreedIsFixed' /\ BuffersMatchFormat'
  BY <1>2 DEF FallbackIsFinal, AgreedIsFixed, BuffersMatchFormat
<1> QED BY <1>6, <1>7, <1>8

(* A format that arrives leaves no buffer behind.                           *)
LEMMA FormatArrivesFacts ==
  ASSUME TypeOK, FormatArrives
  PROVE  /\ sent \in Formats
         /\ format' \in Formats
         /\ sent' = None
         /\ buffer' \in [Buffers -> BufferKinds \union {None}]
         /\ BuffersMatchFormat'
         /\ \A b \in Buffers : buffer'[b] = None
         /\ UNCHANGED <<consumer, current, changes, lent>>
  BY DEF TypeOK, FormatArrives, BuffersMatchFormat

(* Each of the answers to a format keeps the invariant.                     *)
LEMMA FormatHandledKeepsInv ==
  ASSUME IInv, FormatHandled
  PROVE  IInv'
<1> USE DEF IInv
<1>0. TypeOK /\ FormatArrives
  BY DEF FormatHandled, param_changed_Agrees, param_changed_Asserts,
         param_changed_Fixates, param_changed_FallsBack
<1>1. /\ BuffersMatchFormat'
      /\ \A b \in Buffers : buffer'[b] = None
  BY <1>0, FormatArrivesFacts
<1>2. CASE param_changed_Agrees
  <2>1. TypeOK'
    BY <1>0, <1>2, FormatArrivesFacts DEF TypeOK, consumer, param_changed_Agrees
  <2>2. OffersAreCurrent'
    BY <1>0, <1>2, FormatArrivesFacts
    DEF OffersAreCurrent, consumer, param_changed_Agrees
  <2>3. FallbackIsFinal'
    <3>1. avoid_dmabufs => sent.kind = "shm"
      BY <1>0, <1>2, FormatArrivesFacts DEF param_changed_Agrees, has_drm_fourcc, Formats
    <3> QED BY <1>1, <1>2, <3>1 DEF FallbackIsFinal, param_changed_Agrees, FormatArrives
  <2>4. AgreedIsFixed'
    BY <1>0, <1>2, FormatArrivesFacts
    DEF AgreedIsFixed, param_changed_Agrees, FormatArrives
  <2> QED BY <1>1, <2>1, <2>2, <2>3, <2>4
<1>3. CASE param_changed_Asserts
  <2>1. TypeOK'
    BY <1>0, <1>3, FormatArrivesFacts DEF TypeOK, consumer, param_changed_Asserts
  <2>2. OffersAreCurrent'
    BY <1>0, <1>3, FormatArrivesFacts
    DEF OffersAreCurrent, consumer, param_changed_Asserts
  <2>3. FallbackIsFinal' /\ AgreedIsFixed'
    BY <1>1, <1>3 DEF FallbackIsFinal, AgreedIsFixed, param_changed_Asserts
  <2> QED BY <1>1, <2>1, <2>2, <2>3
<1>4. ASSUME NEW m \in Modifiers, param_changed_Fixates(m)
      PROVE  IInv'
  <2>1. <<sent.fourcc, m>> \in Pairs \union {None}
    BY <1>0, FormatArrivesFacts DEF Formats, Pairs
  <2>2. /\ offer' \in Offers
        /\ offer' = build_formats(current, avoid_dmabufs, offer'.fixed)
    BY <2>1, <1>4, BuildFormatsType DEF param_changed_Fixates, TypeOK
  <2>3. TypeOK'
    BY <1>0, <1>4, <2>2, FormatArrivesFacts DEF TypeOK, consumer, param_changed_Fixates
  <2>4. OffersAreCurrent'
    BY <1>0, <1>4, <2>2, FormatArrivesFacts
    DEF OffersAreCurrent, consumer, param_changed_Fixates
  <2>5. FallbackIsFinal' /\ AgreedIsFixed'
    BY <1>1, <1>4 DEF FallbackIsFinal, AgreedIsFixed, param_changed_Fixates
  <2> QED BY <1>1, <2>3, <2>4, <2>5
<1>5. CASE param_changed_FallsBack
  <2>1. /\ offer' \in Offers
        /\ offer' = build_formats(current, avoid_dmabufs', offer'.fixed)
    BY <1>5, BuildFormatsType DEF param_changed_FallsBack, TypeOK
  <2>2. TypeOK'
    BY <1>0, <1>5, <2>1, FormatArrivesFacts DEF TypeOK, consumer, param_changed_FallsBack
  <2>3. OffersAreCurrent'
    BY <1>0, <1>5, <2>1, FormatArrivesFacts
    DEF OffersAreCurrent, consumer, param_changed_FallsBack
  <2>4. FallbackIsFinal' /\ AgreedIsFixed'
    BY <1>1, <1>5 DEF FallbackIsFinal, AgreedIsFixed, param_changed_FallsBack
  <2> QED BY <1>1, <2>2, <2>3, <2>4
<1> QED BY <1>2, <1>3, <1>4, <1>5 DEF FormatHandled

(* A buffer is allocated, cannot be, or is taken away.                      *)
LEMMA BuffersKeepInv ==
  ASSUME IInv, NEW b \in Buffers,
         \/ pwr_handle_stream_add_buffer(b)
         \/ add_buffer_Fails(b)
         \/ pwr_handle_stream_remove_buffer(b)
  PROVE  IInv'
<1> USE DEF IInv
<1>1. CASE pwr_handle_stream_add_buffer(b)
  <2> USE <1>1 DEF pwr_handle_stream_add_buffer
  <2>0. /\ buffer' = [buffer EXCEPT ![b] = xdpw_buffer_create(format)]
        /\ buffer \in [Buffers -> BufferKinds \union {None}]
        /\ agreed /\ up = "running"
    BY DEF TypeOK
  <2>1. format \in Formats
    BY <2>0 DEF AgreedIsFixed
  <2>2. xdpw_buffer_create(format) \in BufferKinds
    BY <2>1 DEF xdpw_buffer_create, Formats, BufferKinds, TypeOK, Constraints
  <2>3. TypeOK'
    BY <2>0, <2>2 DEF TypeOK, consumer
  <2>4. OffersAreCurrent' /\ AgreedIsFixed'
    BY DEF OffersAreCurrent, AgreedIsFixed, consumer
  <2>5. FallbackIsFinal'
    BY <2>0 DEF FallbackIsFinal, xdpw_buffer_create
  <2>6. BuffersMatchFormat'
    BY <2>0 DEF BuffersMatchFormat, AgreedIsFixed, xdpw_buffer_create
  <2> QED BY <2>3, <2>4, <2>5, <2>6
<1>2. CASE add_buffer_Fails(b)
  <2>1. TypeOK'
    BY <1>2 DEF add_buffer_Fails, TypeOK, consumer
  <2>2. OffersAreCurrent' /\ AgreedIsFixed' /\ FallbackIsFinal' /\ BuffersMatchFormat'
    BY <1>2 DEF add_buffer_Fails, OffersAreCurrent, AgreedIsFixed, FallbackIsFinal,
                BuffersMatchFormat, consumer
  <2> QED BY <2>1, <2>2
<1>3. CASE pwr_handle_stream_remove_buffer(b)
  <2> USE <1>3 DEF pwr_handle_stream_remove_buffer
  <2>0. /\ buffer' \in [Buffers -> BufferKinds \union {None}]
        /\ \A d \in Buffers : buffer'[d] = buffer[d] \/ buffer'[d] = None
    BY DEF TypeOK
  <2>1. TypeOK'
    BY <2>0 DEF TypeOK, consumer
  <2>2. OffersAreCurrent' /\ AgreedIsFixed'
    BY DEF OffersAreCurrent, AgreedIsFixed, consumer
  <2>3. FallbackIsFinal'
    BY <2>0 DEF FallbackIsFinal
  <2>4. BuffersMatchFormat'
    BY <2>0 DEF BuffersMatchFormat
  <2> QED BY <2>1, <2>2, <2>3, <2>4
<1> QED BY <1>1, <1>2, <1>3

LEMMA NextInv == IInv /\ [Next]_vars => IInv'
<1> SUFFICES ASSUME IInv, [Next]_vars PROVE IInv'
  OBVIOUS
<1>1. ASSUME NEW c \in Announced,
             \/ ext_session_done(c)
             \/ \E b \in Buffers \union {None} : wlr_frame_buffer_done(c, b)
      PROVE  IInv'
  BY <1>1, ConstraintsKeepInv
<1>2. CASE PickFormat
  <2> USE <1>2 DEF PickFormat, IInv
  <2>1. TypeOK'
    BY PicksType DEF TypeOK, consumer
  <2>2. OffersAreCurrent' /\ AgreedIsFixed' /\ FallbackIsFinal' /\ BuffersMatchFormat'
    BY DEF OffersAreCurrent, AgreedIsFixed, FallbackIsFinal, BuffersMatchFormat, consumer
  <2> QED BY <2>1, <2>2
<1>3. CASE FormatHandled
  BY <1>3, FormatHandledKeepsInv
<1>4. ASSUME NEW b \in Buffers,
             \/ pwr_handle_stream_add_buffer(b)
             \/ add_buffer_Fails(b)
             \/ pwr_handle_stream_remove_buffer(b)
      PROVE  IInv'
  BY <1>4, BuffersKeepInv
<1>5. CASE UNCHANGED vars
  BY <1>5 DEF vars, consumer, IInv, TypeOK, OffersAreCurrent, AgreedIsFixed,
              FallbackIsFinal, BuffersMatchFormat
<1> QED BY <1>1, <1>2, <1>3, <1>4, <1>5 DEF Next, FormatHandled

LEMMA Invariance == Spec => []IInv
  BY InitInv, NextInv, PTL DEF Spec

-----------------------------------------------------------------------------

(* The types of the negotiation, for whatever is announced.                 *)
THEOREM TypeCorrect == Spec => []TypeOK
<1>1. IInv => TypeOK
  BY DEF IInv
<1> QED BY <1>1, Invariance, PTL

(* No change of the constraints is lost on ext-image-copy-capture.          *)
THEOREM OffersStayCurrent == Spec => []OffersAreCurrent
<1>1. IInv => OffersAreCurrent
  BY DEF IInv
<1> QED BY <1>1, Invariance, PTL

(* After the fallback nothing returns to dmabuf.                            *)
THEOREM FallbackStays == Spec => []FallbackIsFinal
<1>1. IInv => FallbackIsFinal
  BY DEF IInv
<1> QED BY <1>1, Invariance, PTL

(* Every buffer is what the consumer was told.                              *)
THEOREM BuffersAreAsAgreed == Spec => []BuffersMatchFormat
<1>1. IInv => BuffersMatchFormat
  BY DEF IInv
<1> QED BY <1>1, Invariance, PTL

-----------------------------------------------------------------------------

(* What holds on ext-image-copy-capture between an offer and the buffers    *)
(* that come of it: once PipeWire answered the latest offer, the format on  *)
(* its way, or the one that was agreed on, was picked from that offer, and  *)
(* buffers made since fit the constraints it was made of.                   *)
AnswerInv ==
  /\ avoid_dmabufs => offer.fixed = None
  /\ backend = "ext" /\ up = "running" /\ ~ unanswered /\ sent # None =>
       sent \in Picks(offer)
  /\ backend = "ext" /\ AtRest =>
       /\ agreed
       /\ format \in Picks(offer)
       /\ \A b \in Buffers : buffer[b] # None =>
            /\ buffer[b].size = current.size
            /\ buffer[b].kind = "shm" => buffer[b].fourcc \in current.shm
  /\ AssertsOnlyIfOvertaken

(* A fixed dmabuf format is the pair that is offered first, any other is    *)
(* one of the dmabuf formats offered.                                       *)
LEMMA PickedFormats ==
  ASSUME NEW o \in Offers, NEW f \in Picks(o)
  PROVE  /\ f.size = o.size
         /\ f.kind = "dmabuf" /\ f.fixed =>
              /\ o.fixed \in Pairs
              /\ o.fixed = <<f.fourcc, o.fixed[2]>> /\ f.mods = {o.fixed[2]}
         /\ f.kind = "dmabuf" /\ ~ f.fixed =>
              \E m \in Modifiers : <<f.fourcc, m>> \in o.dmabuf
<1> DEFINE shared(y) == ModifiersOf(o.dmabuf, y) \intersect accepts
<1>1. CASE o.fixed # None /\ o.fixed[2] \in accepts
  <2>1. f = [kind |-> "dmabuf", fourcc |-> o.fixed[1], mods |-> {o.fixed[2]},
             fixed |-> TRUE, size |-> o.size]
    BY <1>1 DEF Picks
  <2>2. o.fixed \in Pairs /\ o.fixed = <<o.fixed[1], o.fixed[2]>>
    BY <1>1 DEF Offers, Pairs
  <2> QED BY <2>1, <2>2
<1>2. CASE /\ ~ (o.fixed # None /\ o.fixed[2] \in accepts)
           /\ \E y \in Fourccs : shared(y) # {}
  <2>1. PICK y \in Fourccs :
          /\ shared(y) # {}
          /\ f = [kind |-> "dmabuf", fourcc |-> y, mods |-> shared(y),
                  fixed |-> FALSE, size |-> o.size]
    BY <1>2 DEF Picks
  <2>2. \E m \in Modifiers : <<y, m>> \in o.dmabuf
    BY <2>1 DEF ModifiersOf
  <2> HIDE DEF shared
  <2> QED BY <2>1, <2>2
<1>3. CASE /\ ~ (o.fixed # None /\ o.fixed[2] \in accepts)
           /\ ~ \E y \in Fourccs : shared(y) # {}
  <2>1. \E y : f = [kind |-> "shm", fourcc |-> y, mods |-> {}, fixed |-> TRUE,
                    size |-> o.size]
    BY <1>3 DEF Picks
  <2> QED BY <2>1
<1> QED BY <1>1, <1>2, <1>3

LEMMA PicksUnchanged ==
  ASSUME UNCHANGED <<consumer, offer>>
  PROVE  Picks(offer)' = Picks(offer)
BY DEF consumer, Picks

(* A dmabuf format picked from the latest offer is one of the constraints.  *)
LEMMA AnswerIsKnown ==
  ASSUME IInv, AnswerInv, backend = "ext", up = "running", ~ unanswered,
         sent # None, sent.kind = "dmabuf", ~ FixedAstray
  PROVE  has_drm_fourcc(sent.fourcc)
<1>1. offer \in Offers /\ sent \in Picks(offer) /\ sent \in Formats
  BY DEF IInv, TypeOK, AnswerInv
<1>2. offer = build_formats(current, avoid_dmabufs, offer.fixed)
  BY DEF IInv, OffersAreCurrent
<1>3. offer.dmabuf = IF avoid_dmabufs THEN {} ELSE current.dmabuf
  BY <1>2 DEF build_formats
<1>4. CASE sent.fixed
  <2>1. /\ offer.fixed \in Pairs /\ offer.fixed # None
        /\ offer.fixed = <<sent.fourcc, offer.fixed[2]>>
    BY <1>1, <1>4, PickedFormats, NegotiationAssumption
  <2>2. offer.fixed \in current.dmabuf /\ ~ avoid_dmabufs
    BY <2>1 DEF FixedAstray, AnswerInv
  <2>3. offer.fixed[2] \in Modifiers
    BY <2>1 DEF Pairs
  <2> QED BY <2>1, <2>2, <2>3 DEF has_drm_fourcc
<1>5. CASE ~ sent.fixed
  <2>1. \E m \in Modifiers : <<sent.fourcc, m>> \in offer.dmabuf
    BY <1>1, <1>5, PickedFormats
  <2> QED BY <1>3, <2>1 DEF has_drm_fourcc
<1> QED BY <1>4, <1>5

LEMMA AnswerStep ==
  ASSUME IInv, AnswerInv, [Next]_vars
  PROVE  AnswerInv'
<1> USE DEF AnswerInv, AtRest, AssertsOnlyIfOvertaken
<1>1. CASE UNCHANGED vars
  BY <1>1, PicksUnchanged DEF vars, consumer, FixedAstray
<1>2. ASSUME NEW c \in Announced, ext_session_done(c)
      PROVE  AnswerInv'
  BY <1>2 DEF ext_session_done, pwr_update_stream_param, build_formats
<1>3. ASSUME NEW c \in Announced, NEW b \in Buffers \union {None},
             wlr_frame_buffer_done(c, b)
      PROVE  AnswerInv'
  <2>1. backend = "screencopy" /\ backend' = backend
    BY <1>3 DEF wlr_frame_buffer_done, consumer
  <2>2. avoid_dmabufs' = avoid_dmabufs /\ offer'.fixed \in {offer.fixed, None}
    BY <1>3 DEF wlr_frame_buffer_done, pwr_update_stream_param, build_formats
  <2> QED BY <2>1, <2>2
<1>4. CASE PickFormat
  <2>1. Picks(offer)' = Picks(offer)
    BY <1>4, PicksUnchanged DEF PickFormat
  <2>2. sent' \in Picks(offer) /\ sent' \in Formats
    BY <1>4, PicksType DEF PickFormat, IInv, TypeOK
  <2>3. sent' # None
    BY <2>2, NegotiationAssumption
  <2> QED BY <1>4, <2>1, <2>2, <2>3 DEF PickFormat
<1>5. CASE param_changed_Agrees
  <2>1. Picks(offer)' = Picks(offer)
    BY <1>5, PicksUnchanged DEF param_changed_Agrees, FormatArrives
  <2>2. /\ sent # None /\ up = "running" /\ format' = sent /\ agreed' = TRUE
        /\ \A b \in Buffers : buffer'[b] = None
        /\ UNCHANGED <<up, consumer, avoid_dmabufs, offer, unanswered>>
    BY <1>5 DEF param_changed_Agrees, FormatArrives
  <2> QED BY <1>5, <2>1, <2>2 DEF param_changed_Agrees, FormatArrives, consumer
<1>6. CASE param_changed_Asserts
  <2>1. /\ sent # None /\ up = "running" /\ sent.kind = "dmabuf"
        /\ ~ has_drm_fourcc(sent.fourcc) /\ up' = "aborted"
        /\ UNCHANGED <<consumer, current, avoid_dmabufs, offer, unanswered>>
    BY <1>6 DEF param_changed_Asserts, FormatArrives
  <2>2. backend = "ext" => unanswered \/ FixedAstray
    BY <2>1, AnswerIsKnown
  <2> QED BY <2>1, <2>2 DEF FixedAstray, consumer
<1>7. ASSUME NEW m \in Modifiers, param_changed_Fixates(m)
      PROVE  AnswerInv'
  <2>1. ~ avoid_dmabufs' /\ unanswered' /\ up' = "running"
    BY <1>7 DEF param_changed_Fixates, has_drm_fourcc, FormatArrives
  <2> QED BY <2>1
<1>8. CASE param_changed_FallsBack
  <2>1. offer'.fixed = None /\ unanswered' /\ up' = "running"
    BY <1>8 DEF param_changed_FallsBack, FormatArrives, build_formats
  <2> QED BY <2>1
<1>9. ASSUME NEW b \in Buffers, pwr_handle_stream_add_buffer(b)
      PROVE  AnswerInv'
  <2>1. /\ up = "running" /\ agreed
        /\ format.kind = "shm" => format.fourcc \in current.shm
        /\ \A d \in Buffers : buffer'[d] = IF d = b THEN xdpw_buffer_create(format)
                                                    ELSE buffer[d]
        /\ UNCHANGED <<up, consumer, current, avoid_dmabufs, offer, unanswered,
                       sent, format, agreed>>
    BY <1>9 DEF pwr_handle_stream_add_buffer, IInv, TypeOK
  <2>2. Picks(offer)' = Picks(offer)
    BY <2>1, PicksUnchanged
  <2>3. /\ xdpw_buffer_create(format).size = current.size
        /\ xdpw_buffer_create(format).kind = format.kind
        /\ xdpw_buffer_create(format).fourcc = format.fourcc
    BY DEF xdpw_buffer_create
  <2> QED BY <2>1, <2>2, <2>3 DEF consumer
<1>10. ASSUME NEW b \in Buffers, add_buffer_Fails(b)
       PROVE  AnswerInv'
  BY <1>10 DEF add_buffer_Fails
<1>11. ASSUME NEW b \in Buffers, pwr_handle_stream_remove_buffer(b)
       PROVE  AnswerInv'
  <2>1. /\ up = "running"
        /\ \A d \in Buffers : buffer'[d] \in {buffer[d], None}
        /\ UNCHANGED <<up, consumer, current, avoid_dmabufs, offer, unanswered,
                       sent, format, agreed>>
    BY <1>11 DEF pwr_handle_stream_remove_buffer, IInv, TypeOK
  <2>2. Picks(offer)' = Picks(offer)
    BY <2>1, PicksUnchanged
  <2> QED BY <2>1, <2>2 DEF consumer
<1> QED BY <1>1, <1>2, <1>3, <1>4, <1>5, <1>6, <1>7, <1>8, <1>9, <1>10, <1>11
        DEF Next

LEMMA AnswerInvariance == Spec => [](IInv /\ AnswerInv)
<1>1. Init => AnswerInv
  BY DEF Init, AnswerInv, AtRest, AssertsOnlyIfOvertaken, build_formats
<1> QED BY <1>1, AnswerStep, Invariance, PTL DEF Spec

(* When nothing is under way on ext-image-copy-capture the buffers fit the  *)
(* latest constraints, whatever crossed on the way there.                   *)
THEOREM NegotiationRestsSettled == Spec => []RestIsSettled
<1>1. IInv /\ AnswerInv => RestIsSettled
  <2> SUFFICES ASSUME IInv, AnswerInv, backend = "ext", AtRest, ~ FixedAstray
               PROVE  Settled
    BY DEF RestIsSettled
  <2>1. /\ agreed /\ format \in Picks(offer) /\ offer \in Offers
        /\ offer.size = current.size
    BY DEF AnswerInv, IInv, TypeOK, OffersAreCurrent, build_formats
  <2>2. format.size = current.size
    BY <2>1, PickedFormats
  <2>3. ASSUME NEW b \in Buffers, buffer[b] # None
        PROVE  check_constraints(current, buffer[b]) /\ buffer[b].size = format.size
    <3>1. /\ buffer[b].size = current.size
          /\ buffer[b].kind = "shm" => buffer[b].fourcc \in current.shm
          /\ format.fixed
          /\ buffer[b].kind = format.kind
          /\ buffer[b].fourcc = format.fourcc
          /\ buffer[b].mods = format.mods
          /\ buffer[b].kind \in {"dmabuf", "shm"}
      BY <2>3 DEF AnswerInv, IInv, BuffersMatchFormat, TypeOK, BufferKinds
    <3>2. CASE buffer[b].kind = "dmabuf"
      <4>1. /\ offer.fixed \in Pairs /\ offer.fixed # None
            /\ offer.fixed = <<buffer[b].fourcc, offer.fixed[2]>>
            /\ buffer[b].mods = {offer.fixed[2]}
        BY <2>1, <3>1, <3>2, PickedFormats, NegotiationAssumption
      <4>2. offer.fixed \in current.dmabuf
        BY <4>1 DEF FixedAstray
      <4>3. \A m \in buffer[b].mods : <<buffer[b].fourcc, m>> \in current.dmabuf
        BY <4>1, <4>2
      <4> QED BY <2>2, <3>1, <3>2, <4>3 DEF check_constraints
    <3>3. CASE buffer[b].kind = "shm"
      BY <2>2, <3>1, <3>3 DEF check_constraints
    <3> QED BY <3>1, <3>2, <3>3
  <2> QED BY <2>1, <2>3 DEF Settled, AtRest
<1> QED BY <1>1, AnswerInvariance, PTL

(* The assertion on the picked format can fail on ext-image-copy-capture    *)
(* only for a format that newer constraints have overtaken.                 *)
THEOREM AssertionNeedsOvertaking == Spec => []AssertsOnlyIfOvertaken
<1>1. AnswerInv => AssertsOnlyIfOvertaken
  BY DEF AnswerInv
<1> QED BY <1>1, AnswerInvariance, PTL
=============================================================================
