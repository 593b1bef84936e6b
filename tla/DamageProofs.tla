---------------------------- MODULE DamageProofs ----------------------------
(***************************************************************************)
(* That no damage is forgotten, for any number of buffers, any rectangles   *)
(* and frames with any number of regions.                                   *)
(***************************************************************************)
EXTENDS Damage, TLAPS

(* The cells of a list of regions.                                          *)
Listed(list) == Cover(ToSet(list))

LEMMA CoverUnion == \A R, S : Cover(R \union S) = Cover(R) \union Cover(S)
  BY DEF Cover

LEMMA CoverSubset == \A R \in SUBSET Rects : Cover(R) \subseteq Screen
  BY DEF Cover, Screen

LEMMA ListedEmpty == Listed(<<>>) = {}
  BY DEF Listed, Cover, ToSet

LEMMA ListedInScreen ==
  ASSUME NEW list \in Seq(Rects)
  PROVE  Listed(list) \subseteq Screen
  <1>1. ToSet(list) \in SUBSET Rects
    BY DEF ToSet
  <1> QED
    BY <1>1, CoverSubset DEF Listed

LEMMA ListedAppend ==
  ASSUME NEW list \in Seq(Rects), NEW r \in Rects
  PROVE  Listed(Append(list, r)) = Listed(list) \union Cover({r})
  <1>1. ToSet(Append(list, r)) = ToSet(list) \union {r}
    <2> DEFINE app == Append(list, r)
    <2>1. /\ DOMAIN app = 1..(Len(list) + 1)
          /\ DOMAIN list = 1..Len(list)
          /\ Len(list) \in Nat
          /\ app[Len(list) + 1] = r
          /\ \A i \in 1..Len(list) : app[i] = list[i]
      OBVIOUS
    <2>2. DOMAIN app = DOMAIN list \union {Len(list) + 1}
      BY <2>1
    <2> QED
      BY <2>1, <2>2 DEF ToSet
  <1> QED
    BY <1>1, CoverUnion DEF Listed

LEMMA ListedHeadTail ==
  ASSUME NEW list \in Seq(Rects), list # <<>>
  PROVE  /\ Head(list) \in Rects
         /\ Tail(list) \in Seq(Rects)
         /\ Listed(list) = Cover({Head(list)}) \union Listed(Tail(list))
  <1>1. /\ Head(list) \in Rects
        /\ Tail(list) \in Seq(Rects)
        /\ Len(list) \in Nat \ {0}
        /\ Len(Tail(list)) = Len(list) - 1
        /\ DOMAIN list = 1..Len(list)
        /\ DOMAIN Tail(list) = 1..(Len(list) - 1)
        /\ Head(list) = list[1]
        /\ \A i \in 1..(Len(list) - 1) : Tail(list)[i] = list[i + 1]
    OBVIOUS
  <1>2. ToSet(list) = {Head(list)} \union ToSet(Tail(list))
    <2>1. ASSUME NEW i \in DOMAIN list
          PROVE  list[i] \in {Head(list)} \union ToSet(Tail(list))
      <3>1. CASE i = 1
        BY <1>1, <3>1
      <3>2. CASE i # 1
        <4>1. i - 1 \in 1..(Len(list) - 1) /\ Tail(list)[i - 1] = list[(i - 1) + 1]
          BY <1>1, <3>2
        <4>2. list[i] = Tail(list)[i - 1] /\ i - 1 \in DOMAIN Tail(list)
          BY <1>1, <4>1
        <4> QED
          BY <4>2 DEF ToSet
      <3> QED
        BY <3>1, <3>2
    <2>2. ASSUME NEW i \in DOMAIN Tail(list)
          PROVE  Tail(list)[i] \in ToSet(list)
      <3>1. i + 1 \in DOMAIN list /\ Tail(list)[i] = list[i + 1]
        BY <1>1
      <3> QED
        BY <3>1 DEF ToSet
    <2>3. Head(list) \in ToSet(list)
      <3>1. 1 \in DOMAIN list
        BY <1>1
      <3> QED
        BY <1>1, <3>1 DEF ToSet
    <2> QED
      BY <2>1, <2>2, <2>3 DEF ToSet
  <1> QED
    BY <1>1, <1>2, CoverUnion DEF Listed

-----------------------------------------------------------------------------

(* The inductive invariant.  Regions are outstanding only for a frame that  *)
(* was copied, the frame's buffer is in the list, and what was asked for is *)
(* still the whole list of that buffer.                                     *)
Progress == /\ Following /\ frame # "copied" => regions = <<>>
            /\ frame = "copied" => captured
            /\ frame = "requested" => backend # "ext"
            /\ Following /\ dest # None => dest \in Pool
            /\ frame = "copying" /\ backend = "ext" /\ dest # None
                 => asked = damage[dest]

(* Whatever a buffer lacks is in its list, or will be told yet, but for what *)
(* was withheld from it.                                                    *)
ListsComplete ==
  Following /\ backend = "ext" /\ captured =>
    \A b \in Pool :
      stale[b] \subseteq missed[b] \union Cover(damage[b]) \union Listed(regions)

(* The buffer of a frame that was copied lacks only what was withheld.      *)
FilledIsFresh ==
  frame = "copied" /\ dest # None => stale[dest] \subseteq missed[dest]

(* Whatever the consumer has not seen will be reported to it, or was lost.  *)
UnseenReported ==
  unseen \subseteq Listed(frame_damage) \union Listed(regions) \union lost

IInv == TypeOK /\ Progress /\ ListsComplete /\ FilledIsFresh /\ UnseenReported

LEMMA InitIInv == Init => IInv
  <1> SUFFICES ASSUME Init PROVE IInv
    OBVIOUS
  <1>1. TypeOK
    <2>1. <<>> \in Seq(Rects)
      OBVIOUS
    <2>2. /\ buffer \in [Buffers -> {"none", "free", "held", "given"}]
          /\ \A b \in Buffers : buffer[b] = "held" <=> b = current
      BY DamageAssumption DEF Init
    <2>3. /\ damage \in [Buffers -> SUBSET Rects]
          /\ stale \in [Buffers -> SUBSET Screen]
          /\ missed \in [Buffers -> SUBSET Screen]
      BY DEF Init
    <2>4. frame_damage \in Seq(Rects) /\ regions \in Seq(Rects)
      BY <2>1 DEF Init
    <2>5. /\ backend \in Backends /\ streaming \in BOOLEAN
          /\ dest \in Buffers \union {None} /\ captured \in BOOLEAN
          /\ current \in Buffers \union {None}
      BY Zenon DEF Init
    <2>6. timers \in 0..MaxTimers
      BY DamageAssumption DEF Init
    <2>7. frame \in {"none", "requested", "copying", "copied", "second"}
      BY DEF Init
    <2>8. /\ asked \in SUBSET Rects
          /\ unseen \in SUBSET Screen /\ lost \in SUBSET Screen
      BY DEF Init
    <2> QED
      BY <2>2, <2>3, <2>4, <2>5, <2>6, <2>7, <2>8, Zenon DEF TypeOK
  <1> QED
    BY <1>1 DEF Init, IInv, Progress, ListsComplete, FilledIsFresh,
       UnseenReported

LEMMA EnqueueType ==
  ASSUME TypeOK, NEW complete \in BOOLEAN, xdpw_pwr_enqueue_buffer(complete)
  PROVE  /\ current' \in Buffers \union {None}
         /\ buffer' \in [Buffers -> {"none", "free", "held", "given"}]
         /\ \A b \in Buffers : buffer'[b] = "held" <=> b = current'
         /\ Pool' = Pool
         /\ unseen' \in SUBSET unseen
         /\ complete /\ current # None => unseen' = {}
  BY DamageAssumption DEF TypeOK, xdpw_pwr_enqueue_buffer, Pool

LEMMA StartType ==
  ASSUME IInv, Following, NEW b \in Buffers \union {None},
         b = None \/ b \in Pool, backend = "ext" => b # None,
         wlr_frame_capture_start(b)
  PROVE  /\ frame' \in {"requested", "copying", "second"}
         /\ dest' \in Buffers \union {None}
         /\ asked' \in SUBSET Rects
         /\ frame' # "second" =>
               /\ frame = "none"
               /\ dest' = dest \/ dest' = b
         /\ frame' = "copying" => dest' = b /\ b # None /\ asked' = damage[b]
         /\ frame' = "requested" => backend # "ext"
  BY DEF IInv, TypeOK, wlr_frame_capture_start, ext_register_frame_cb, Following

LEMMA StartIInv ==
  ASSUME IInv, Following, NEW b \in Buffers \union {None},
         b = None \/ b \in Pool, backend = "ext" => b # None,
         wlr_frame_capture_start(b), Pool' = Pool,
         UNCHANGED <<backend, lists, regions, history>>
  PROVE  (Progress /\ ListsComplete /\ FilledIsFresh /\ UnseenReported)'
  <1>1. /\ frame' \in {"requested", "copying", "second"}
        /\ frame' # "second" => frame = "none" /\ (dest' = dest \/ dest' = b)
        /\ frame' = "copying" => dest' = b /\ b # None /\ asked' = damage[b]
        /\ frame' = "requested" => backend # "ext"
    BY StartType
  <1>2. Progress'
    BY <1>1 DEF IInv, Progress, Following, lists, history
  <1>3. ListsComplete'
    BY <1>1 DEF IInv, ListsComplete, Following, lists, history, Listed
  <1> QED
    BY <1>1, <1>2, <1>3 DEF IInv, FilledIsFresh, UnseenReported, lists,
       history, Listed

(* No step breaks the invariant: the buffers come and go ...                *)
LEMMA PoolIInv ==
  ASSUME IInv, NEW b \in Buffers,
         \/ pwr_handle_stream_add_buffer(b)
         \/ pwr_handle_stream_remove_buffer(b)
         \/ Recycle(b)
  PROVE  IInv'
  <1>1. CASE pwr_handle_stream_add_buffer(b)
    <2>1. /\ Pool' = Pool \union {b}
          /\ b \notin Pool
      BY <1>1 DEF pwr_handle_stream_add_buffer, IInv, TypeOK, Pool
    <2>2. TypeOK'
      BY <1>1, DamageAssumption DEF pwr_handle_stream_add_buffer, IInv, TypeOK,
         request
    <2>3. Progress'
      BY <1>1, <2>1 DEF pwr_handle_stream_add_buffer, IInv, TypeOK, Progress,
         request, Following
    <2>4. ListsComplete'
      BY <1>1, <2>1 DEF pwr_handle_stream_add_buffer, IInv, TypeOK, Progress,
         ListsComplete, request, Following, Listed
    <2>5. FilledIsFresh'
      BY <1>1, <2>1 DEF pwr_handle_stream_add_buffer, IInv, TypeOK, Progress,
         FilledIsFresh, request, Following
    <2>6. UnseenReported'
      BY <1>1 DEF pwr_handle_stream_add_buffer, IInv, UnseenReported, request,
         Listed
    <2> QED
      BY <2>2, <2>3, <2>4, <2>5, <2>6 DEF IInv
  <1>2. CASE pwr_handle_stream_remove_buffer(b)
    <2>1. Pool' = Pool \ {b}
      BY <1>2 DEF pwr_handle_stream_remove_buffer, IInv, TypeOK, Pool
    <2>2. TypeOK'
      BY <1>2, DamageAssumption DEF pwr_handle_stream_remove_buffer, IInv,
         TypeOK, lists, history
    <2> QED
      BY <1>2, <2>1, <2>2 DEF pwr_handle_stream_remove_buffer, IInv, Progress,
         ListsComplete, FilledIsFresh, UnseenReported, lists, history,
         Following, Listed
  <1>3. CASE Recycle(b)
    <2>1. Pool' = Pool
      BY <1>3 DEF Recycle, IInv, TypeOK, Pool
    <2>2. TypeOK'
      BY <1>3, DamageAssumption DEF Recycle, IInv, TypeOK, lists, request, history
    <2> QED
      BY <1>3, <2>1, <2>2 DEF Recycle, IInv, Progress, ListsComplete,
         FilledIsFresh, UnseenReported, lists, request, history, Following,
         Listed
  <1> QED
    BY <1>1, <1>2, <1>3

(* ... the stream runs and pauses, and asks for frames ...                  *)
LEMMA StreamIInv ==
  ASSUME IInv,
         \/ pwr_handle_stream_state_changed
         \/ \E b \in Buffers : pwr_handle_stream_on_process(b)
         \/ wlr_frame_capture_timer
  PROVE  IInv'
  <1>1. CASE pwr_handle_stream_state_changed
    <2>1. /\ TypeOK' /\ Pool' = Pool /\ unseen' \in SUBSET unseen
      <3>1. CASE streaming
        <4>1. xdpw_pwr_enqueue_buffer(FALSE)
          BY <1>1, <3>1 DEF pwr_handle_stream_state_changed
        <4> QED
          BY <1>1, <4>1, EnqueueType DEF pwr_handle_stream_state_changed, IInv,
             TypeOK, lists, request
      <3>2. CASE ~ streaming
        BY <1>1, <3>2 DEF pwr_handle_stream_state_changed, IInv, TypeOK, loan,
           lists, request, Pool
      <3> QED
        BY <3>1, <3>2
    <2> QED
      BY <1>1, <2>1 DEF pwr_handle_stream_state_changed, IInv, Progress,
         ListsComplete, FilledIsFresh, UnseenReported, lists, request,
         Following, Listed
  <1>2. ASSUME NEW b \in Buffers, pwr_handle_stream_on_process(b)
        PROVE  IInv'
    <2>1. /\ Following /\ buffer[b] = "free" /\ current = None
          /\ buffer' = [buffer EXCEPT ![b] = "held"] /\ current' = b
          /\ Pool' = Pool /\ b \in Pool
          /\ UNCHANGED <<backend, streaming, lists, regions, history>>
      BY <1>2 DEF pwr_handle_stream_on_process, IInv, TypeOK, Pool
    <2>2. CASE timers < MaxTimers /\ timers' = timers + 1
               /\ UNCHANGED <<frame, dest, asked>>
      <3>1. TypeOK'
        BY <2>1, <2>2, DamageAssumption DEF IInv, TypeOK, lists, history
      <3> QED
        BY <2>1, <2>2, <3>1 DEF IInv, Progress, ListsComplete, FilledIsFresh,
           UnseenReported, lists, history, Following, Listed
    <2>3. CASE wlr_frame_capture_start(b) /\ UNCHANGED timers
      <3>1. TypeOK'
        BY <2>1, <2>3, StartType, DamageAssumption DEF IInv, TypeOK, lists, history
      <3>2. b # None
        BY DamageAssumption
      <3>3. (Progress /\ ListsComplete /\ FilledIsFresh /\ UnseenReported)'
        BY <2>1, <2>3, <3>2, StartIInv
      <3> QED
        BY <3>1, <3>3 DEF IInv
    <2> QED
      BY <1>2, <2>2, <2>3 DEF pwr_handle_stream_on_process
  <1>3. CASE wlr_frame_capture_timer
    <2>1. /\ Following /\ timers > 0 /\ timers' = timers - 1
          /\ Pool' = Pool
          /\ current = None \/ current \in Pool
          /\ current \in Buffers \union {None}
          /\ UNCHANGED <<backend, streaming, loan, lists, regions, history>>
      BY <1>3 DEF wlr_frame_capture_timer, IInv, TypeOK, Pool, loan
    <2>2. CASE UNCHANGED <<frame, dest, asked>>
      <3>1. TypeOK'
        BY <2>1, <2>2, DamageAssumption DEF IInv, TypeOK, loan, lists, history
      <3> QED
        BY <2>1, <2>2, <3>1 DEF IInv, Progress, ListsComplete, FilledIsFresh,
           UnseenReported, lists, history, Following, Listed
    <2>3. CASE wlr_frame_capture_start(current) /\ (backend = "ext" => current # None)
      <3>1. TypeOK'
        BY <2>1, <2>3, StartType, DamageAssumption
           DEF IInv, TypeOK, loan, lists, history
      <3> QED
        <4>1. (Progress /\ ListsComplete /\ FilledIsFresh /\ UnseenReported)'
          BY <2>1, <2>3, StartIInv
        <4> QED
          BY <3>1, <4>1 DEF IInv
    <2> QED
      BY <1>3, <2>2, <2>3 DEF wlr_frame_capture_timer
  <1> QED
    BY <1>1, <1>2, <1>3

(* ... a frame is asked for and copied ...                                  *)
LEMMA CopyIInv ==
  ASSUME IInv,
         \/ wlr_frame_buffer_done
         \/ \E n \in 1..MaxRegions : \E list \in [1..n -> Rects] : FrameCopied(list)
  PROVE  IInv'
  <1>1. CASE wlr_frame_buffer_done
    <2>1. CASE /\ current # None
               /\ frame_damage' = <<>>
               /\ lost' = lost \union Untold
               /\ frame' = "copying"
               /\ dest' = current
               /\ UNCHANGED <<loan, asked, unseen>>
      <3>1. UNCHANGED <<backend, streaming, damage, timers, regions, captured,
                        stale, missed>> /\ frame = "requested"
        BY <1>1 DEF wlr_frame_buffer_done
      <3>2. TypeOK'
        <4>1. frame_damage' \in Seq(Rects)
          BY <2>1
        <4> QED
          BY <2>1, <3>1, <4>1 DEF IInv, TypeOK, loan, Untold
      <3>3. UnseenReported'
        BY <2>1, <3>1 DEF IInv, UnseenReported, Untold, Listed
      <3> QED
        BY <2>1, <3>1, <3>2, <3>3 DEF IInv, TypeOK, Progress, ListsComplete,
           FilledIsFresh, Following, loan, Pool
    <2>2. CASE /\ xdpw_pwr_enqueue_buffer(FALSE)
               /\ Answered
               /\ UNCHANGED <<frame_damage, lost>>
      <3>1. /\ UNCHANGED <<backend, streaming, damage, timers, regions, captured,
                           stale, missed>>
            /\ frame = "requested"
        BY <1>1 DEF wlr_frame_buffer_done
      <3>2. TypeOK' /\ Pool' = Pool /\ unseen' \in SUBSET unseen
        BY <2>2, <3>1, EnqueueType DEF IInv, TypeOK, Answered
      <3> QED
        BY <2>2, <3>1, <3>2 DEF IInv, Progress, ListsComplete, FilledIsFresh,
           UnseenReported, Answered, Following, Listed
    <2> QED
      BY <1>1, <2>1, <2>2 DEF wlr_frame_buffer_done
  <1>2. ASSUME NEW n \in 1..MaxRegions, NEW list \in [1..n -> Rects],
               FrameCopied(list)
        PROVE  IInv'
    <2>1. list \in Seq(Rects)
      BY DamageAssumption
    <2>2. Listed(list) \subseteq Screen
      BY <2>1, ListedInScreen
    <2>3. /\ frame = "copying" /\ frame' = "copied" /\ captured'
          /\ regions' = list /\ regions = <<>>
          /\ backend = "ext" /\ ~ captured => Listed(list) = Screen
          /\ unseen' = unseen \union Listed(list)
          /\ UNCHANGED <<backend, streaming, buffer, current, frame_damage, damage,
                         timers, dest, asked, lost>>
      BY <1>2 DEF FrameCopied, IInv, Progress, Following, loan, lists, Listed
    <2>4. /\ stale' \in [Buffers -> SUBSET Screen]
          /\ \A b \in Buffers :
               /\ b # dest => stale'[b] = stale[b] \union Listed(list)
               /\ b = dest /\ backend = "ext"
                    => stale'[b] = stale[b] \ (Listed(list) \union Cover(asked))
               /\ b = dest /\ backend # "ext" => stale'[b] = {}
          /\ missed' \in [Buffers -> SUBSET Screen]
          /\ \A b \in Buffers : missed'[b] = missed[b] \ Listed(list)
      <3>1. stale' = [b \in Buffers |->
                        CASE b # dest -> stale[b] \union Listed(list)
                          [] b = dest /\ backend = "ext" ->
                               stale[b] \ (Listed(list) \union Cover(asked))
                          [] OTHER -> {}]
             /\ missed' = [b \in Buffers |-> missed[b] \ Listed(list)]
        BY <1>2, CoverUnion DEF FrameCopied, Listed
      <3> QED
        BY <3>1, <2>2 DEF IInv, TypeOK
    <2>5. TypeOK'
      BY <2>1, <2>2, <2>3, <2>4 DEF IInv, TypeOK
    <2>6. Progress'
      BY <2>3 DEF IInv, Progress, Following, Pool
    <2>7. ListsComplete'
      <3>1. ASSUME backend = "ext", NEW b \in Pool
            PROVE  stale'[b] \subseteq missed'[b] \union Cover(damage[b])
                                         \union Listed(list)
        <4>1. b \in Buffers /\ stale[b] \subseteq Screen
          BY DEF Pool, IInv, TypeOK
        <4>2. captured => stale[b] \subseteq missed[b] \union Cover(damage[b])
          BY <2>3, <3>1, ListedEmpty DEF IInv, ListsComplete, Following
        <4> QED
          BY <2>3, <2>4, <3>1, <4>1, <4>2
      <3> QED
        BY <2>3, <3>1 DEF ListsComplete, Pool
    <2>8. FilledIsFresh'
      <3>1. ASSUME dest # None, backend = "ext"
            PROVE  stale'[dest] \subseteq missed'[dest]
        <4>1. /\ dest \in Pool /\ dest \in Buffers /\ asked = damage[dest]
              /\ stale[dest] \subseteq Screen
          BY <2>3, <3>1 DEF IInv, TypeOK, Progress, Following
        <4>2. captured => stale[dest] \subseteq missed[dest] \union Cover(damage[dest])
          BY <2>3, <3>1, <4>1, ListedEmpty DEF IInv, ListsComplete, Following
        <4> QED
          BY <2>3, <2>4, <3>1, <4>1, <4>2
      <3>2. ASSUME dest # None, backend # "ext"
            PROVE  stale'[dest] = {}
        BY <2>4, <3>2 DEF IInv, TypeOK
      <3> QED
        BY <2>3, <3>1, <3>2 DEF FilledIsFresh
    <2>9. UnseenReported'
      BY <2>3, ListedEmpty DEF IInv, UnseenReported, Listed
    <2> QED
      BY <2>5, <2>6, <2>7, <2>8, <2>9 DEF IInv
  <1> QED
    BY <1>1, <1>2

(* ... its damage arrives, region by region ...                             *)
LEMMA DamageIInv ==
  ASSUME IInv, ext_frame_damage \/ wlr_frame_damage
  PROVE  IInv'
  <1> DEFINE r == Head(regions)
  <1>1. /\ frame = "copied" /\ regions # <<>>
        /\ frame_damage' = Append(frame_damage, r)
        /\ regions' = Tail(regions)
        /\ UNCHANGED <<backend, streaming, buffer, current, timers, frame, dest,
                       asked, captured, stale, missed, unseen, lost>>
    BY DEF ext_frame_damage, wlr_frame_damage, FrameDamage, loan, history
  <1>2. regions \in Seq(Rects) /\ frame_damage \in Seq(Rects)
    BY DEF IInv, TypeOK
  <1>3. /\ r \in Rects /\ regions' \in Seq(Rects)
        /\ Listed(regions) = Cover({r}) \union Listed(regions')
    BY <1>1, <1>2, ListedHeadTail
  <1>4. /\ frame_damage' \in Seq(Rects)
        /\ Listed(frame_damage') = Listed(frame_damage) \union Cover({r})
    <2>1. Append(frame_damage, r) \in Seq(Rects)
      BY <1>2, <1>3
    <2>2. Listed(Append(frame_damage, r)) = Listed(frame_damage) \union Cover({r})
      BY <1>2, <1>3, ListedAppend
    <2> QED
      BY <1>1, <2>1, <2>2
  <1>5. /\ damage' \in [Buffers -> SUBSET Rects]
        /\ backend = "ext" =>
             \A b \in Pool : damage'[b] = damage[b] \union {r}
    <2>1. CASE ext_frame_damage
      BY <1>3, <2>1 DEF ext_frame_damage, IInv, TypeOK, Pool
    <2>2. CASE wlr_frame_damage
      BY <2>2 DEF wlr_frame_damage, IInv, TypeOK
    <2> QED
      BY <2>1, <2>2
  <1>6. TypeOK'
    BY <1>1, <1>3, <1>4, <1>5 DEF IInv, TypeOK
  <1>7. Progress'
    BY <1>1 DEF IInv, Progress, Following, Pool
  <1>8. ListsComplete'
    <2>1. ASSUME Following, backend = "ext", captured, NEW b \in Pool
          PROVE  stale[b] \subseteq missed[b] \union Cover(damage'[b])
                                      \union Listed(regions')
      <3>1. stale[b] \subseteq missed[b] \union Cover(damage[b]) \union Listed(regions)
        BY <2>1 DEF IInv, ListsComplete
      <3>2. Cover(damage'[b]) = Cover(damage[b]) \union Cover({r})
        BY <1>5, <2>1, CoverUnion
      <3> QED
        BY <1>3, <3>1, <3>2
    <2> QED
      BY <1>1, <2>1 DEF ListsComplete, Following, Pool
  <1>9. FilledIsFresh' /\ UnseenReported'
    BY <1>1, <1>3, <1>4 DEF IInv, FilledIsFresh, UnseenReported
  <1> QED
    BY <1>6, <1>7, <1>8, <1>9 DEF IInv

(* ... and it is answered.                                                  *)
LEMMA AnswerIInv ==
  ASSUME IInv, ext_frame_ready \/ wlr_frame_ready \/ frame_failed
  PROVE  IInv'
  <1>1. CASE ext_frame_ready
    <2>1. /\ frame = "copied" /\ regions = <<>> /\ frame' = "none"
          /\ dest' = None /\ asked' = {} /\ frame_damage' = <<>>
          /\ damage' = [b \in Buffers |-> IF b = current THEN {} ELSE damage[b]]
          /\ missed' = [b \in Buffers |-> IF b = current /\ b # dest
                                          THEN missed[b] \union stale[b]
                                          ELSE missed[b]]
          /\ lost' = IF current = None THEN lost \union Untold ELSE {}
          /\ UNCHANGED <<backend, streaming, timers, regions, captured, stale>>
          /\ xdpw_pwr_enqueue_buffer(TRUE)
      BY <1>1 DEF ext_frame_ready, Answered
    <2>2. /\ current' \in Buffers \union {None}
          /\ buffer' \in [Buffers -> {"none", "free", "held", "given"}]
          /\ \A b \in Buffers : buffer'[b] = "held" <=> b = current'
          /\ Pool' = Pool
          /\ unseen' \in SUBSET unseen
          /\ current # None => unseen' = {}
      BY <2>1, EnqueueType DEF IInv
    <2>3. TypeOK'
      <3>1. frame_damage' \in Seq(Rects)
        BY <2>1
      <3>2. /\ damage' \in [Buffers -> SUBSET Rects]
            /\ missed' \in [Buffers -> SUBSET Screen]
            /\ lost' \in SUBSET Screen
        BY <2>1 DEF IInv, TypeOK, Untold
      <3> QED
        BY <2>1, <2>2, <3>1, <3>2 DEF IInv, TypeOK
    <2>4. Progress' /\ FilledIsFresh'
      BY <2>1 DEF IInv, Progress, FilledIsFresh, Following
    <2>5. ListsComplete'
      <3>1. ASSUME backend = "ext", captured, NEW b \in Pool
            PROVE  stale[b] \subseteq missed'[b] \union Cover(damage'[b])
        <4>1. b \in Buffers /\ Following
          BY <2>1, <3>1 DEF Pool, Following
        <4>2. CASE b = current
          <5>1. b = dest => stale[b] \subseteq missed[b]
            BY <2>1, <4>1, <4>2, DamageAssumption DEF IInv, FilledIsFresh
          <5> QED
            BY <2>1, <4>1, <4>2, <5>1 DEF IInv, TypeOK
        <4>3. CASE b # current
          <5>1. missed'[b] = missed[b] /\ damage'[b] = damage[b]
            BY <2>1, <4>1, <4>3
          <5>2. stale[b] \subseteq missed[b] \union Cover(damage[b])
            BY <2>1, <3>1, <4>1, ListedEmpty DEF IInv, ListsComplete
          <5> QED
            BY <5>1, <5>2
        <4> QED
          BY <4>2, <4>3
      <3> QED
        BY <2>1, <2>2, <3>1 DEF ListsComplete
    <2>6. UnseenReported'
      BY <2>1, <2>2, ListedEmpty DEF IInv, UnseenReported, Untold, Listed
    <2> QED
      BY <2>3, <2>4, <2>5, <2>6 DEF IInv
  <1>2. CASE wlr_frame_ready
    <2>1. /\ frame = "copied" /\ regions = <<>> /\ frame' = "none"
          /\ dest' = None /\ asked' = {} /\ backend = "screencopy"
          /\ lost' = IF current = None THEN lost ELSE {}
          /\ UNCHANGED <<backend, streaming, frame_damage, damage, timers,
                         regions, captured, stale, missed>>
          /\ xdpw_pwr_enqueue_buffer(TRUE)
      BY <1>2 DEF wlr_frame_ready, Answered, lists
    <2>2. /\ TypeOK' /\ Pool' = Pool /\ unseen' \in SUBSET unseen
          /\ current # None => unseen' = {}
      BY <2>1, EnqueueType DEF IInv, TypeOK
    <2>3. UnseenReported'
      BY <2>1, <2>2 DEF IInv, UnseenReported, Listed
    <2> QED
      BY <2>1, <2>2, <2>3 DEF IInv, Progress, ListsComplete, FilledIsFresh,
         Following
  <1>3. CASE frame_failed
    <2>1. /\ frame \in {"requested", "copying"} /\ frame' = "none"
          /\ dest' = None /\ asked' = {}
          /\ UNCHANGED <<backend, streaming, frame_damage, damage, timers,
                         regions, captured, stale, missed, lost>>
          /\ xdpw_pwr_enqueue_buffer(FALSE)
      BY <1>3 DEF frame_failed, Answered, lists
    <2>2. TypeOK' /\ Pool' = Pool /\ unseen' \in SUBSET unseen
      BY <2>1, EnqueueType DEF IInv, TypeOK
    <2> QED
      BY <2>1, <2>2 DEF IInv, Progress, ListsComplete, FilledIsFresh,
         UnseenReported, Following, Listed
  <1> QED
    BY <1>1, <1>2, <1>3

LEMMA NextIInv == IInv /\ [Next]_vars => IInv'
  <1> SUFFICES ASSUME IInv, [Next]_vars PROVE IInv'
    OBVIOUS
  <1>1. CASE Next
    BY <1>1, PoolIInv, StreamIInv, CopyIInv, DamageIInv, AnswerIInv DEF Next
  <1>2. CASE UNCHANGED vars
    BY <1>2 DEF vars, loan, lists, request, history, IInv, TypeOK, Progress,
       ListsComplete, FilledIsFresh, UnseenReported, Following, Pool, Listed
  <1> QED
    BY <1>1, <1>2

LEMMA Inductive == Spec => []IInv
  BY InitIInv, NextIInv, PTL DEF Spec

(* The state of every buffer and frame stays well formed.                   *)
THEOREM TypeCorrect == Spec => []TypeOK
  BY Inductive, PTL DEF IInv

(* A buffer given back as complete lacks nothing of the picture but what was *)
(* withheld from it, or is still in its list.                               *)
THEOREM BuffersAreFresh == Spec => DeliveredIsFresh
  <1>1. IInv => (Delivers /\ (current = dest \/ backend = "ext")
                   => stale[current] \subseteq missed[current] \union Unfilled)
    <2> SUFFICES ASSUME IInv, Delivers, current = dest \/ backend = "ext"
                 PROVE  stale[current] \subseteq missed[current] \union Unfilled
      OBVIOUS
    <2>1. /\ frame = "copied" /\ regions = <<>> /\ current # None
          /\ current \in Pool
      BY DEF Delivers, IInv, TypeOK, Pool
    <2>2. CASE current = dest
      BY <2>1, <2>2 DEF IInv, FilledIsFresh
    <2>3. CASE current # dest
      BY <2>1, <2>3, ListedEmpty
         DEF IInv, Progress, ListsComplete, Unfilled, Following
    <2> QED
      BY <2>2, <2>3
  <1> QED
    BY <1>1, Inductive, PTL DEF DeliveredIsFresh

(* The consumer is told every region that changed.                          *)
THEOREM DamageIsReported == Spec => ConsumerIsTold
  <1>1. IInv => (Delivers /\ Len(frame_damage) <= Slots
                   => unseen \subseteq Cover(Regions(frame_damage)) \union lost)
    BY ListedEmpty DEF IInv, UnseenReported, Delivers, Regions, Listed
  <1> QED
    BY <1>1, Inductive, PTL DEF ConsumerIsTold

(* What merge_damage does get right: whenever its mixed comparison agrees   *)
(* with the comparison of the left edges, the result covers both regions.   *)
THEOREM MergeCovers ==
  ASSUME NEW d1 \in [x : Nat, y : Nat, width : Nat, height : Nat],
         NEW d2 \in [x : Nat, y : Nat, width : Nat, height : Nat],
         IF d1.x < d2.y THEN d1.x <= d2.x ELSE d2.x <= d1.x
  PROVE  Cells(d1) \union Cells(d2) \subseteq Cells(merge_damage(d1, d2))
  <1> DEFINE m == merge_damage(d1, d2)
             x0(d) == d.x + d.width
             y0(d) == d.y + d.height
  <1>1. /\ \A d \in {d1, d2} : d.x \in Nat /\ d.y \in Nat
                              /\ d.width \in Nat /\ d.height \in Nat
        /\ m.x \in Nat /\ m.y \in Nat /\ m.width \in Int /\ m.height \in Int
        /\ m.x <= d1.x /\ m.x <= d2.x /\ m.y <= d1.y /\ m.y <= d2.y
        /\ d1.x + d1.width <= m.x + m.width /\ d2.x + d2.width <= m.x + m.width
        /\ d1.y + d1.height <= m.y + m.height
        /\ d2.y + d2.height <= m.y + m.height
    BY DEF merge_damage
  <1>2. ASSUME NEW d \in {d1, d2} PROVE Cells(d) \subseteq Cells(m)
    <2>1. /\ d.x .. d.x + d.width - 1 \subseteq m.x .. m.x + m.width - 1
          /\ d.y .. d.y + d.height - 1 \subseteq m.y .. m.y + m.height - 1
      BY <1>1, <1>2
    <2> QED
      BY <2>1 DEF Cells
  <1> QED
    BY <1>2
=============================================================================
