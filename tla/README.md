# xdg-desktop-portal-wlr in TLA+

`xdg-desktop-portal-wlr` is a daemon that lets applications record the screen of
a wlroots compositor. It is one thread and one event loop with four clients
that do not know of each other: the D-Bus frontend that creates and closes
sessions, the compositor that adds and removes outputs and answers frames,
PipeWire that starts, pauses and drops streams and their buffers, and a timer
that limits the frame rate. What is hard about it is the order in which those
four are served, and the lifetime of the one object they all point to, the
screencast instance.

The specifications here model that core, TLC checks them on small instances,
and TLAPS proves the safety properties for all sizes. Paths below are relative
to the repository (`src/core/...`, `src/screencast/...`).

## 1. The system

| component | code | state | operations | in the models |
| --- | --- | --- | --- | --- |
| event loop | `core/main.c` | four pollfds and their `revents` | poll, then D-Bus, Wayland, PipeWire, timerfd in this order, then the queued Wayland events; leaves on hang-up or a lost name | `EventLoop`, `Timers`, `Portal` |
| timers | `core/timer.c` | unsorted list, `next_timer`, one timerfd | `xdpw_add_timer`, `xdpw_destroy_timer`, `update_timer`, service in the loop | `Timers`, `TimerService` |
| timespec arithmetic | `core/timespec_util.c` | none | add, less, is zero, difference | `FramePacing`; + and < in `Timers` |
| sessions | `core/session.c` | list of sessions, `closed`, their instance | create, `Close`, destroy with the `Closed` signal | `Portal` |
| requests | `core/request.c` | one object per request | create, `Close`, destroy | no |
| ScreenCast methods | `screencast/screencast.c` | list of instances, `refcount`, target, persist mode | `CreateSession`, `SelectSources`, `Start`, `exec_before`, `exec_after` | `Portal`, `SessionContract` |
| target chooser | `screencast/chooser.c` | one child process and two pipes during a call | write the labels, wait, read the answer; try the next chooser | `Chooser`; its result is a choice in `Portal` |
| PipeWire streams | `screencast/pipewire_screencast.c` | stream, its state, the buffer on loan, `node_id` | `state_changed`, `param_changed`, `add_buffer`, `remove_buffer`, `process`, enqueue, dequeue | `Capture`, `Negotiation`, `Damage`, `Portal` |
| capture front end | `screencast/wlr_screencast.c`, `fps_limit.c` | `frame_last_time`, frame-rate measurements | choose the protocol, delay a capture | `Capture`, `FramePacing` |
| wlr-screencopy frames | `screencast/wlr_screencopy.c` | `wlr_session.wlr_frame` | `buffer`, `buffer_done`, `flags`, `damage`, `ready`, `failed` | `Capture`, `Negotiation`, `Damage` |
| ext-image-copy-capture frames | `screencast/ext_image_copy.c` | capture session, `ext_session.frame` | session constraints and `stopped`, `damage`, `ready`, `failed` | `Capture`, `Negotiation`, `Damage`, `Portal` |
| outputs and toplevels | `screencast/wlr_screencast.c` | two lists | arrive, go away | `Portal`, `Chooser` |
| dmabuf feedback | `screencast/wlr_screencast.c` | device, format table | tranches, table, done | no |
| buffers, formats, damage | `screencast/screencast_common.c` | constraints, buffers, damage regions | create, destroy, convert, merge | `Negotiation`, `Damage` |
| configuration, logging, string helpers | `core/config.c`, `logger.c`, `string_util.c` | read once | - | no |
| Screenshot portal | `screenshot/screenshot.c` | none between calls | runs a child to its end | no |

How they interact. Every handler is a callback with the instance (or the state)
as its data. D-Bus methods create sessions and instances; `Start` runs two
nested loops inside its handler, a Wayland round trip and `pw_loop_iterate`, so
events of the other parties run in the middle of it. Many handlers destroy an
instance: `Close`, an unsupported cursor mode, a removed output, a stopped
capture session, a frame that fails, an unusable buffer, an upside-down frame.
`xdpw_screencast_instance_destroy` and `xdpw_session_destroy` call each other.
Frames, buffers and timers all refer to the instance and none to each other:
the handler of a frame works on whatever buffer the instance holds by then.

What is hard, and what should hold (PROJECT.json lists each hazard at its line):

- *Timers.* The loop acts on poll results that are stale by the time it reads
  the timerfd, the read blocks, and expirations are not matched with timers. So:
  the descriptor is always armed for an earliest timer, no timer is lost, served
  early or twice, none outlives its instance, and the blocking read ends.
- *Sessions and instances.* Lifetimes are counted in two places. So: the count is
  the number of sessions that refer to the instance, no session keeps a freed
  one, none leaks, no assertion fails, the hooks bracket the instances, the
  frontend hears of each session that ends on its own, `Start` returns.
- *Frames.* The stream, the frame limiter and the compositor interleave freely.
  So: at most one buffer is on loan and it always has a capture that will end
  the loan, none is held while paused, the compositor writes only into the
  buffer on loan, and a buffer flagged complete was filled.
- *Formats.* Constraints may change at any time, and a format picked for older
  ones arrives after. So: what is offered is what was announced last, a
  fallback to shared memory is final, buffers are what the consumer was told,
  and negotiation ends with buffers the compositor can fill.
- *Damage.* Each buffer collects what changed while others were filled, and the
  consumer is told what changed since its last picture; frames fail, buffers
  come and go, the stream pauses. So: a buffer given back is up to date in every
  cell, and nothing that changed goes unreported.
- *The loop.* Handlers consume what poll reported, and leave requests unsent.
  So: the loop sleeps in poll only, with nothing left to send, and serves every source.
- *Choosers.* The daemon and a child it did not write wait for each other over two
  pipes. So: the call returns, and the first chooser that is there decides.
- *Pacing.* The clock moves between the limiter's readings. So: captures are put
  off as long as the rate asks for, and no longer.

## 2. The modules

| module | role |
| --- | --- |
| `TimerService` | abstract: what users of timers may rely on |
| `Timers` | `timer.c` and the loop's service of the timerfd; implements `TimerService` |
| `TimersProofs` | theorems about `Timers` |
| `SessionContract` | abstract: what the portal promises the frontend and the user |
| `Portal` | sessions, instances, targets, `Start` with its nested loops; implements `SessionContract` |
| `PortalProofs` | theorems about `Portal` |
| `Capture` | the frames of one running instance, both capture protocols; implements `LoanContract` |
| `LoanContract` | abstract: what an instance promises PipeWire about its buffers |
| `CaptureProofs` | theorems about `Capture` |
| `Negotiation` | constraints, offers, formats and buffers of one stream |
| `MCNegotiation` | formats, modifiers and constraints for TLC |
| `NegotiationProofs` | theorems about `Negotiation` |
| `Damage` | what becomes of the damage of each frame, on both protocols |
| `MCDamage` | rectangles and symmetry for TLC |
| `DamageProofs` | theorems about `Damage` and `merge_damage` |
| `EventLoop` | one iteration of `main` after the other, on poll results that go stale |
| `EventLoopProofs` | theorems about `EventLoop` |
| `Chooser` | one call of the chooser, with the child process it runs |
| `MCChooser` | choosers, configurations and masks for TLC |
| `ChooserProofs` | theorems about `Chooser` |
| `FramePacing` | the frame limiter and the arithmetic of `timespec_util.c` |
| `FramePacingProofs` | theorems about `FramePacing` |

Definitions have the name of the function they model where there is one; a
comment starts with "Mutant" where a definition is a wrong version of the next
one and is used only to show that the property it is paired with notices.

### Timers

`now` is the monotonic clock, `timers`, `at`, `user` the list, `next` is
`next_timer`, and `armed` the timerfd: the instant it was last set to, or `Idle`
once its expiration was read. It is `readable` from that instant on, until it is
read or set again, which is how a stale poll result and a blocking read arise.
`loop` follows one iteration of `main`: `Poll` samples `revents`; in "dispatch"
the other handlers add timers (`xdpw_add_timer`), create instances and destroy
them (`DestroyOwner`, then `PurgeTimer` for each timer, then `PurgeDone`, the
loop at the head of `xdpw_screencast_instance_destroy`); `Dispatched` goes to
the read if poll had reported it; `ReadAndFire` and `ReadSpurious` are the read
with and without a timer left; handlers run again in the callback and in
`wl_display_dispatch_pending`. The clock may advance between any two steps.

A deadline is a natural number, and among equal deadlines the order is left
open; the scan of the list in `update_timer` picks one of them. `timerfd_settime` is called
in the code only if the pointer moved, and so is `armed'` set.

### Portal

`sessions`, `instance`, `persist`, `casts`, `refcount`, `target`, `initialized`,
`outputs` and `toplevels` are the lists and fields of the code; `node` and
`failed` say what PipeWire made of a stream. `hooks` counts `exec_before` less
`exec_after`, `told` the `Closed` signals. `pc`, `startSession` and `startCast`
are the frame of `Start` on the stack: "init" is its Wayland round trip, "wait"
its PipeWire loop. `OnDBus`, `OnWayland` and `OnPipeWire` say which handlers can
run there.

`End` is the one place where sessions and instances go. The mutual recursion of
the two destroy functions is its result: the sessions that refer to the
instances D are removed, each drops its reference, the assertion `refcount == 0`
is evaluated for each instance (`up' = "aborted"` when it fails), the list
shrinks and `exec_after` runs when it is empty. The order of the calls within the
recursion is not modelled, so that a mistake in it would not show; what is checked is
that the handlers which start it leave counts, lists, hooks and targets right. A single D-Bus method that fails
half-way (`SelectSourcesFails`) keeps what it had written: the persist mode.

`backend` is the capture protocol, chosen once: a window can be captured only on ext,
and on screencopy it runs into an assertion (`wlr_register_cb_Asserts`).

The code reads freed or unrelated memory in a few places: `Start` after its
instance was destroyed by an event of the nested loop, a freed toplevel, an
upside-down frame, a session handle that is not in the list, restore data
without a name. No behaviour can be promised beyond those points; they set `up`
to "undefined", in which nothing more happens. The actions are reachable in the
runs, and every property holds up to and including them.

### Capture

One instance from the end of `xdpw_wlr_session_init` on. `state` is the
stream's; `buffer[b]` says where a buffer is: unknown to the stream, free, held,
or given back flagged complete or corrupt; `current` and `completed` are
`current_frame`; `timers` counts the pending captures of the frame limiter;
`handle` is the one frame pointer of the instance, and `frame[f]` how far the
compositor is with each frame object, including those the pointer has lost. `dest` is
the buffer a frame was asked to fill and `copied` the buffers that were filled
since they were lent: the two that relate an answer to the question.

The actions are the callbacks: PipeWire's (`pwr_handle_stream_*`), the timer's,
and the frame events, each with the enqueue and the `wlr_frame_finish` it
calls. `FrameCopied` and `Recycle` are the compositor and the consumer.
The format and size of a buffer are abstracted: `buffer_done` may find that the
constraints hold or that they changed (see `Negotiation`). The frame limiter chooses between a delay
and none. An answered wlr-screencopy frame that the code never destroyed may be
taken again as a new one, so that few frames are enough.

`interrupted` is a history variable: it becomes true when PipeWire stops the
stream, or takes the held buffer away, while a capture is under way. From then
on the late answer of the old frame may meet the next loan, as the run
`CaptureStaleAnswer` shows. It is got over when a buffer is borrowed with nothing
left over: no timer pending and no frame under way (`Quiet`). The properties that
relate answers and loans (`CopiesIntoHeldBuffer`, `OneCapturePerLoan`,
`NeverRefused`) hold at all other times, and so they speak of the second pause of a
stream as of the first. The rest have no such condition.

`LoanContract` is what PipeWire and the consumer see of all this: the buffers,
which one is lent, and which were filled since they were lent. `excused` is
`interrupted`; the contract says what alone may set it (a stream that stops, or a
buffer withdrawn, while one is on loan) and what it excuses: to fill another buffer
than the one on loan, and to give back as complete what was not filled. In
particular a buffer flagged complete was filled, unless interrupted.

`backend` is chosen at the start. What differs is whether a frame announces its
constraints first (screencopy) or carries its buffer from the start (ext).

Assumed of the environment: a wlr-screencopy compositor offers the first frame
before the round trip of `xdpw_wlr_sc_session_init` is over; PipeWire neither
lends a buffer twice nor leaves the error state.

### Negotiation

One stream from its creation on. `current` is `current_constraints`, `offer` the
EnumFormat parameters of the stream as `build_formats` made them (`fixed` is the
pair `fixate_format` puts first), `format` and `agreed` what `param_changed` was
given and whether it answered with buffer parameters, `avoid_dmabufs` the
fallback. `sent` is a format on its way from PipeWire: between `PickFormat` and
`param_changed` the compositor may announce anything, which is where the
assertion of `param_changed` fails. `param_changed` has four outcomes: it asserts,
fixes a modifier that can be allocated, falls back when none can, or agrees;
`FormatHandled` is their disjunction. On ext, `ext_session_done` offers anew at
once; on wlr-screencopy `wlr_frame_buffer_done` compares with the buffer of the
frame, if it still has one. `xdpw_buffer_create` takes the size from the
constraints of the moment and the rest from the agreed format, as the code does.

`consumer` is chosen at the start: the modifiers it accepts and whether it takes
shared memory. `Opaque` is `xdpw_format_pw_strip_alpha`, with which a format of shared
memory is offered twice. `lent` is a history variable: a frame can only have
lost a buffer when there was one.

Assumed of PipeWire: it picks the first offer the consumer accepts, one format
is on its way at a time, and it takes all buffers away before it delivers a new
format. Assumed of gbm: a buffer has one of the modifiers asked for. Planes,
strides, the frame rate and DRM formats PipeWire has no name for are left out.

### Damage

The picture is the set of cells that the rectangles of `Rects` cover. `damage` is
the list of each ext buffer (`buffer->damage`), `frame_damage` that of
`current_frame`, `regions` the damage events of the frame under way that have
yet to arrive, `asked` what the compositor was told to repaint. The history
variables hold what is true whatever the lists say: `stale[b]`, the cells in
which buffer `b` is behind the picture, and `unseen`, the cells captured since the
consumer got a picture. So `DeliveredIsFresh` compares the lists with the truth.
`missed[b]` is the part of the picture buffer `b` was never told of: all of it for a
buffer added after the first frame, which damaged everything, and what it lacked when
the late answer to another's frame cleared its list; a cell leaves it when a frame
changes that cell. So the property covers such buffers too, and says how much they may
lack. `lost` is damage that was thrown away with a frame answered while no buffer was
held.

`Regions` is the loop of `xdpw_pwr_enqueue_buffer` over the metadata slots;
`merge_damage` is translated as it stands, including the comparison of an x with
a y. A second frame asked for before the first was answered is not followed
(`Following`); `Capture` does. Assumed of the compositor: the first frame damages
everything, as the protocol has it.

### EventLoop

`loop` is where `main` is, `revents` what poll reported, `waiting` how much there
is to read at each source, `rqueue` the messages sd-bus has read already (poll is
not asked about them; the code looks at `events == 0` instead), `unsent` whether
requests wait in libwayland's buffer. A D-Bus handler may make a round trip, which
takes all Wayland events, and may run the PipeWire loop; `wl_display_dispatch`
then waits for an event that poll thought was there (`Stuck`). `Poll` leaves on a
hang-up, `sd_bus_process` and `wl_display_dispatch` fail once their peer is gone.
An epoll descriptor never reports a hang-up, so PipeWire's is not in `Reported`.
The flush may be refused by a full socket (`refused`): poll is not asked to tell when
there is room again. What handlers do is in the other modules.

### Chooser

`pc` is where the call is: choosing the next chooser, writing labels, waiting for
the child, reading its answer. `nature` is what the user's program does: whether it
reads its input, how it ends, what it says and how much, and whether it leaves a process
behind that has the pipe of the answer open (`held`): then `getline` finds no end of the
pipe, and returns only with a line. A label is one unit of a pipe
that holds `Capacity` units. A chooser of type simple gets no labels. SIGPIPE kills
the daemon unless its parent ignored it (`up` = "killed"). When the parent left SIGCHLD
ignored (`sigchld`), `waitpid` still waits for the child's end but fails: the answer is
not read, and the next chooser is started ("unheard"). A comparison with
the name of an output that has none yet is undefined. The answer is matched against
both lists whatever `mask` says, as in the code. `outcome` is a history of what became
of each chooser, for `FirstFoundDecides`.

With `chooser_type = default` and no chooser found the call fails (`NoneLeft`,
`chooser.c`:248). The manual page (`xdg-desktop-portal-wlr.5.scd`:66-67) says that it
falls back to an arbitrary output. No run is about that: `FirstFoundDecides` allows
either, for it says which chooser decides when one is there.

### FramePacing

Times are seconds and nanoseconds, with `NSEC_PER_SEC` nanoseconds to a second, and
the four functions of `timespec_util.c` are translated as they are. `pc` follows
one frame: `fps_limit_measure_end` reads the clock and yields a delay,
`xdpw_add_timer` reads it again and sets `at[t]`, the timer or
`wlr_frame_capture_start` starts the capture and `fps_limit_measure_start`
reads it a third time. `Tick` may happen between any two. `loan` says whether a buffer
is held and `frames` how many frames are under way; loans, timers and frames go their own
ways, as in `Capture`: a pause or a removed buffer (`LoanEnds`) ends the loan and leaves
the timer or the frame, and the answer of whatever frame (`FrameEnds`) ends whatever loan
there is. A new rate comes at any time. `last`, `gap`, `reading` and `steady` are history.
`interrupted` is as in `Capture`: from a loan that PipeWire ended until one begins with
nothing left over (`Quiet`: no timer, no frame). In between the rate may be exceeded in
two ways: a timer left over starts a capture of its own; or the answer of a frame left
over ends the next loan while its timer is pending, the loan after that sets another
timer, and the two fire back to back.
`framerate` is an integer in the code, so that a `max_fps` below 1 means no limit
(interval 0).

## 3. The runs

| run | instance | shows |
| --- | --- | --- |
| `Timers` | 3 timers, 2 instances, clock 0..2 | all properties of `Timers` but its types, safety, refinement and liveness |
| `Portal` | 2 sessions, 2 instances, 1 output, 1 toplevel, both protocols | all properties of `Portal` but its types, `SessionContract`, `StartReturns` |
| `Capture` | 2 buffers, 2 frames, 2 timers, both protocols, screencopy version 3 | all properties of `Capture` but its types, `LoanContract`, and `BufferReturned` |
| `Negotiation` | 2 buffers, 2 formats, 2 modifiers, 4 constraints, 2 changes, both protocols, every consumer | all properties of `Negotiation` but its types |
| `Damage` | 2 buffers, 2 rectangles, up to 2 regions a frame, 1 slot, both protocols | buffers are fresh, the consumer is told |
| `EventLoop` | 1 message at each source, 3 D-Bus messages | where the loop sleeps, and that it serves every source |
| `Chooser` | 2 outputs, 1 toplevel, pipes of 1 unit, answers of up to 2, every configuration | which chooser decides, and that the call returns |
| `FramePacing` | 4 nanoseconds to a second, intervals 0, 3 and 4, 2 timers, clock up to 4 seconds | the rate is kept and no delay is too long |
| `PortalReportsPersist` | | violated: `Start` replies with a persist mode that is not the session's |
| `CaptureStaleAnswer` | | violated: after a pause in mid-capture a buffer nothing was copied to is flagged complete |
| `NegotiationStaleFormat` | | violated: a format picked before the constraints changed aborts the daemon |
| `DamageMerge` | | violated: regions merged for want of slots do not cover what changed |

Each violated property states a comment, an assertion or a sentence of a protocol
file, quoted under "findings" in PROJECT.json.

Properties, and why a test would hardly find their violation:

- `NextIsEarliest`, `ArmedForNext`: pointer and descriptor agree through any order of
  additions and removals, also between the expiration and its service.
- `ReadReturns`, `ReadUnblocks`: the stale read can block, but only until another
  deadline. A version of `update_timer` that disarms an empty timerfd, which
  looks tidier, would hang the daemon.
- `EveryTimerLeaves`, `ImplementsTimerService`, `CalledWithLiveUser`: a timer is served once, not early, in order, for a live
  instance.
- `RefcountExact`, `CastsAreUsed`, `CastsNeverChangeHands`, `MonitorIsThere`: the
  life of an instance, whichever end it is ended from.
- `DueTimersAdvance`: no step at all, of whatever handler, lets a timer that is due
  be overtaken or the descriptor forget it. It is what makes `EveryTimerLeaves` true,
  said of single steps.
- `StartKeepsItsCast`: the nested loops of `Start` may end its session, but leave
  no other instance or session in its place; it holds because no method of D-Bus is
  served meanwhile.
- `AbortsOnlyForWindow`: of the assertions on counts, lists and targets, the one that a
  screencopy target is a monitor is the only one that can fail; the chooser's answer is not
  checked against the mask. (The assertion on formats, which can fail too, is in
  `Negotiation`.)
- `HooksBracketCasts`, `ImplementsSessionContract`: what the user sees of it.
- `StartReturns`: the nested loops end, or the stream they wait for failed.
- `OneBufferOnLoan`, `PausedHoldsNothing`, `HeldBufferHasCapture`,
  `BufferReturned`: loans.
- `CopiesIntoHeldBuffer`, `OneCapturePerLoan`, `NeverRefused`: answers meet the loan
  they were asked for.
- `ImplementsLoanContract`: a buffer is lent once, given back once, and complete only
  if it was filled, over both protocols and every order of callbacks.
- `OffersAreCurrent`, `FallbackIsFinal`, `BuffersMatchFormat`: what was offered,
  picked and allocated agree although they happen at different times.
- `Settles`: after the last change the stream gets buffers that fit the
  constraints and have the size the consumer was told. It names the four ways in
  which it does not: the instance ended; the consumer accepts nothing
  (`Unacceptable`); a screencopy frame without a buffer announced another size, so
  that later buffers fit the constraints but not the format (`SizeMissed`); on ext a
  modifier of older constraints was fixed (`FixedAstray`). The last two are weaknesses
  of the code: the run fails without either exception.
- `RestIsSettled`: on ext, whatever crossed on the way, once nothing is under way the
  buffers fit the latest constraints, or a modifier was fixed astray (`FixedAstray`).
- `AssertsOnlyIfOvertaken`: on ext the assertion that fails in `NegotiationStaleFormat`
  fails for a format that newer constraints overtook and for no other.
- `DeliveredIsFresh`: needs every other buffer to have been told of every frame since,
  over failures, pauses, and buffers removed and added; a buffer that came late lacks
  only what it was never told of and no frame changed since.
- `ConsumerIsTold`, `MergedDamageCovers`: the same for the consumer. The first holds
  while the regions fit into the metadata, the second says what merging breaks.
- `WaitsInPollOnly`: the stale report of Wayland events is the one way to wait elsewhere.
- `SentBeforeSleeping`: the flush at the end of an iteration covers the handlers of every source.
- `EverySourceServed`: also messages in sd-bus's own queue, which poll cannot see.
- `FirstFoundDecides`: a chooser that was cancelled or made no sense is not followed by
  another one, and none of the list is left out; with SIGCHLD ignored it is not so, and
  the property says that this is the only case.
- `CallReturns`: whatever the child does, but for an answer that does not fit into
  its pipe (`Wedged`: the daemon reads only after the child has ended), and for no answer
  while a process left behind has the pipe open (`Unanswered`).
- `PacingKept`, `TimerIsExact`: a lower and an upper bound on the delay, relating
  three readings of the clock.

Bounds, and why they are enough:

- *Timers*: three timers are one that is served, one that overtakes it and one
  that stays; two instances, one destroyed and one that lives on. `MaxTime` = 2
  gives deadlines that have passed, that are now and that are to come. The timer
  model does not stop at the bound: its handlers go on.
- *Portal*: a session has at most one instance and every instance a session, so
  as many instances as sessions are enough (with fewer, `SelectSources` would be
  disabled where the code allocates). Two of each show sharing, the empty and the
  non-empty list. One output and one toplevel show both kinds of target.
  `MaxPersist` = 2 with `PersistCap` = 1 gives a mode below the cap, at it and above it.
- *Capture*: two frames are the one that is late and the one of the next loan,
  two buffers the loan before and the loan now. `MaxTimers` = 2 is a timer left
  from before a pause and the next one.
- *Negotiation*: two changes let one be overtaken by the format of the one before
  and one come back. The four constraints differ in size only, in modifiers and
  formats, and in having no dmabuf; one has a format whose version without alpha it
  does not list.
- *Damage*: two buffers filled in turn are one that is current and one that missed
  something; with `Slots` = 1 a frame of two regions already has to merge. The two
  rectangles differ in row and column, which is what the mixed comparison needs.
- *EventLoop*: dispatching takes all that is there, so one message stands for any
  number; three D-Bus messages let one be queued, one arrive in an iteration and one
  be left for the next.
- *Chooser*: a pipe of one unit is full after the first label and after the first unit
  of an answer of two. The list has a simple chooser, which may be skipped, and two
  of the six of type dmenu, of which the first may be missing.
- *FramePacing*: with four nanoseconds to a second every addition of 3 carries or not
  depending on the time, and 4 is a whole second; four seconds hold three captures.
  `MaxFrames` = 2 lets a loan begin with a frame left over, and two timers are the one of
  the loan that a late answer ended and the next one.

Symmetry is used only in `Damage`, which has no liveness property. `CHECK_DEADLOCK
FALSE` is set where the system may stop: an exited daemon, an undefined state,
an ended instance, a
call that returned, a loop that was left, a second frame that `Damage` does not follow.

Fairness, and why the code justifies it:

- `Timers`: the clock advances; poll returns for a readable timerfd (nothing is
  assumed of the other sources); the read returns once readable; destroying an
  instance is a loop over a finite list (weak fairness). Leaving the handlers is
  strongly fair: it is disabled while an instance is being destroyed, and poll
  reports bring finitely many messages.
- `Portal`: the Wayland round trip ends and PipeWire gives a connected stream a
  node, unless the stream fails. Nothing is assumed of clients.
- `Capture`: pending timers fire, which `Timers` shows (`EveryTimerLeaves`),
  and the compositor answers a frame that is under way. With damage tracking it does so
  when the screen changes, so "a borrowed buffer is given back" reads "if the
  screen keeps changing".
- `Negotiation`: PipeWire answers and delivers, and allocates buffers once the
  parameters are given. A buffer that is there again and again is used for a frame
  (strong fairness on screencopy's check of each buffer): PipeWire lends free
  buffers in turn. Nothing is assumed of the compositor's announcements.
- `EventLoop`: the iteration takes its next step when it can (weak fairness of
  `Iterate` as a whole: it is one thread, and handlers return). Nothing is assumed of the
  peers; that a handler is not followed by new messages for ever is `MaxMessages`.
- `Chooser`: the daemon goes on when it can, and so does the child: it says
  what it has to say and ends, and its user decides. A user who never does is the one
  thing the call does wait for. Nothing is assumed of a process the child leaves behind.

## 4. The proofs

All theorems hold for every value of the constants that the named assumptions
(`TimersAssumption`, `PortalAssumption`, `CaptureAssumption`,
`NegotiationAssumption`, `DamageAssumption`, `EventLoopAssumption`,
`ChooserAssumption`, `FramePacingAssumption`) allow. They ask only that NULL is none of
the objects, that sets that are counted are finite, that bounds are natural numbers,
and that the backends are the two there are; TLC evaluates them in the runs.

- Type correctness of every component is a theorem; the runs do not repeat it.
- `TimersProofs`. The inductive invariant adds to the types that the list and
  the pointer agree, that the descriptor holds the deadline of the pointed timer
  when there is one, that a reported expiration was not disarmed, and that
  pending timers have users. `NextIsEarliest` alone is not inductive: a removal
  keeps it only because `update_timer` recomputes the pointer when it is NULL.
  `TimersRefineService` maps every step to a step of `TimerService` or a stutter.
  `DueTimersAreServed` rests on `DueIsReadable`: the descriptor is armed for an earliest
  timer, so it is readable when any timer is due; and a timer that is added has a
  deadline after now, so it cannot get ahead of one that is due.
- `PortalProofs`. The invariant is `RefcountExact`, `CastsAreUsed` and the
  counting fact beneath them, that an instance belongs to one session only;
  cardinalities of the sets of users come from `FiniteSetTheorems`. A lemma about
  `End` is used by all the actions that end something; since the counts are exact, its
  assertion never fails, and `AbortsOnlyForWindow` follows.
  `PortalRefinesContract` is the refinement, action by action.
  `StartKeepsItsCast` is inductive next to it: while `Start` is in a nested loop no
  handler creates an instance, and an instance that goes takes its session along.
- `CaptureProofs`. `LoanInv` says that the held buffer is the current one,
  that a paused stream has none, and that a held buffer has a timer or a frame
  under way; it is inductive because each handler that takes a frame away also
  ends the loan. The second part, `SteadyInv`, adds `OneCapture`: there is at most
  one frame under way, the pointer points to it or to nothing, and it fills the buffer
  on loan, which is not complete yet. `CaptureInv` is `LoanInv` and, unless interrupted,
  `SteadyInv`. The step where it is not obvious is the one that ends an interruption:
  `QuietLoanIsSteady` shows that with no timer and no frame left over a fresh loan is
  steady whatever happened before. `KeepsLoanContract` is the refinement (`LoanStep`, one
  case for each action), in which a buffer given back as complete was filled because of
  `SteadyInv`.
- `NegotiationProofs`. The invariant adds `AgreedIsFixed`, that a format is
  agreed on only when it has nothing left to choose; buffers are allocated from
  it. `PicksType` bounds what PipeWire may pick. `RestIsSettled` and
  `AssertsOnlyIfOvertaken` need more (`AnswerInv`): once PipeWire answered the latest
  offer, the format on its way, or the one agreed on, was picked from that offer, and
  buffers made since fit the constraints it was made of.
- `DamageProofs`. `ListsComplete`: each cell in which a buffer is out of date is in that
  buffer's list, in a region that has yet to arrive, or in `missed`; `FilledIsFresh`: the
  buffer of a copied frame is up to date but for `missed`; `UnseenReported`: likewise for the cells the consumer has
  not seen. The frame's part of the state (`Progress`) ties what the compositor was
  asked for to the buffer's list. `DeliveredIsFresh` alone is not inductive, for it speaks
  of one moment only. `MergeCovers` says under what condition `merge_damage` is right.
- `EventLoopProofs`. `WaitsInPollOnly` needs that what poll reported stays readable until a
  round trip (`ReportHolds`).
- `ChooserProofs`. The invariant `Trying` says that the choosers before the current one
  were skipped, failed or not heard of and those after it are untried; `FirstFoundDecides` follows.
  Two more theorems are `CallReturns` said of states and steps: `OnlyWedgedBlocks`
  (`BlocksOnlyIfWedged`: either side can go on unless the answer does not fit its pipe, or there is none and the
  pipe is kept open) and
  `CallsEnd` (`CallAdvances`: whether the daemon is there, the choosers left, the stage of
  the current one, and the work left in its pipes and its child are natural numbers of
  which each step counts the first that it changes down). What is missing between them and
  `CallReturns` is fairness. They are defined in `ChooserProofs`, and no run repeats them.
- `FramePacingProofs`. First the arithmetic: the difference, the comparison and
  the sum of valid times are exact. Then `Ordered` (no reading of the clock is ahead of it),
  `OneCapture` (unless interrupted there is at most one timer or frame, and none without a
  loan) and `Counted` (what the delay and the timer's deadline amount to). As in
  `CaptureProofs`, the step that needs an argument of its own is the loan that ends an
  interruption (`LendIInv`): with nothing left over it is the only one.

Model-checked only: liveness (`EveryTimerLeaves`, `ReadUnblocks`,
`StartReturns`, `BufferReturned`, `Settles`, `EverySourceServed`, `CallReturns`),
which the prover does not handle under fairness, and `ENABLED` with it. For most of it
the part that speaks of states and steps is proved: `DueTimersAdvance` and `ReadReturns` for
the first two, `StartKeepsItsCast` for the part of `Start`, `HeldBufferHasCapture` for
loans, `RestIsSettled` for negotiation on ext, `BlocksOnlyIfWedged` and `CallAdvances` for
the chooser, `WaitsInPollOnly` for the loop. The properties of the four runs that expect a
violation are false, and have no theorem. `Settled` on wlr-screencopy is not proved either:
it depends on the fairness of the buffers PipeWire lends.

## 5. What is not modelled

- Failures of the bus library while a reply is put together, allocation failures and
  `pw_stream_new` failing (it aborts): the reply's contents have no state.
- Dmabuf feedback: the events come once, at start-up, in an order the compositor fixes,
  and leave the table of format and modifier pairs that `Negotiation` starts from. The
  assertions there restate the protocol.
- Requests: one object for each `CreateSession`, which only its own `Close` refers to. It
  is never released otherwise (listed as a hazard), but no other state depends on it.
- Configuration (read once), logging, string formatting (no state that changes) and
  the Screenshot portal (each call runs a child to its end within its handler and keeps nothing).
- The measured frame rate, which is only logged; geometry, transforms, presentation times
  and sequence numbers, which are passed on unread.
- Option parsing and failures before the loop begins.

## 6. Plan

What a further version could add, in the order of importance:

1. `Timers` and `Capture` composed, so that the timer's fairness is a theorem of the
   composition; `EventLoop` and `Portal` composed, so that the nested loops of `Start` act
   on the same queues.
2. An abstract specification of one negotiation (announced, offered, agreed, allocated)
   that `Negotiation` implements on ext, of which `RestIsSettled` would be a consequence.
3. `DmabufFeedback` with more than one feedback, and `Requests`.
