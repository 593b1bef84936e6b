------------------------------ MODULE EventLoop ------------------------------
(***************************************************************************)
(* The loop of src/core/main.c.  An iteration polls the four descriptors    *)
(* once and then serves those that were reported, D-Bus first.  By the time *)
(* one is served its report may be stale: the handler of Start makes a      *)
(* Wayland round trip and runs the PipeWire loop, and so consumes what poll *)
(* had reported there.  pw_loop_iterate then returns at once, but           *)
(* wl_display_dispatch waits for an event.                                  *)
(*                                                                         *)
(* Data abstracted: what is waiting at a source is a number of messages.    *)
(* Requests to the compositor wait in libwayland's buffer until somebody    *)
(* flushes it; replies on D-Bus are sent at once.  The libraries do not     *)
(* fail as long as their peers are there.  The blocking read of the timerfd *)
(* is in Timers.                                                            *)
(***************************************************************************)
EXTENDS Integers

CONSTANTS Reported,      \* descriptors on which poll reports POLLHUP: an
                         \* epoll descriptor, as PipeWire's, never does
          MaxWaiting,    \* bound on what waits at a source
          MaxMessages    \* bound on the D-Bus messages of a behaviour

Sources == {"dbus", "wayland", "pipewire", "timer"}

ASSUME EventLoopAssumption ==
  /\ Reported \subseteq Sources \ {"timer"}
  /\ MaxWaiting \in Nat \ {0}
  /\ MaxMessages \in Nat

VARIABLES loop,          \* where main is; "left" after it broke the loop
          waiting,       \* what can be read at each source
          rqueue,        \* D-Bus messages that sd-bus has read already
          unsent,        \* requests wait in libwayland's buffer
          gone,          \* the peers that have hung up
          revents,       \* the sources of pollfds to be served
          messages,      \* D-Bus messages that came so far
          started,       \* history: the first iteration is over
          tripped,       \* history: a round trip was made since the poll
          refused        \* history: the last flush found the socket full

outside == <<gone, messages>>
history == <<started, tripped, refused>>
vars == <<loop, waiting, rqueue, unsent, revents, outside, history>>

TypeOK == /\ loop \in {"poll", "dbus", "wayland", "dispatch", "pipewire",
                       "timer", "pending", "left"}
          /\ waiting \in [Sources -> 0..MaxWaiting]
          /\ rqueue \in 0..MaxWaiting
          /\ unsent \in BOOLEAN
          /\ gone \in SUBSET Reported
          /\ revents \in SUBSET Sources
          /\ messages \in 0..MaxMessages
          /\ started \in BOOLEAN
          /\ tripped \in BOOLEAN
          /\ refused \in BOOLEAN

(* sd_bus_request_name and sd_bus_add_match wait for an answer, and calls   *)
(* that come before it are queued.  The last round trip of                  *)
(* xdpw_wlr_screencopy_init may leave requests of its handlers behind.      *)
Init == /\ loop = "poll"
        /\ waiting = [s \in Sources |-> 0]
        /\ rqueue \in 0..MaxWaiting
        /\ unsent \in BOOLEAN
        /\ gone = {}
        /\ revents = {}
        /\ messages = 0
        /\ started = FALSE
        /\ tripped = FALSE
        /\ refused = FALSE

-----------------------------------------------------------------------------

Arrive(s) ==
  /\ loop # "left"
  /\ s \notin gone
  /\ waiting[s] < IF s = "timer" THEN 1 ELSE MaxWaiting
  /\ waiting' = [waiting EXCEPT ![s] = @ + 1]
  /\ IF s = "dbus" THEN messages < MaxMessages /\ messages' = messages + 1
                   ELSE UNCHANGED messages
  /\ UNCHANGED <<loop, rqueue, unsent, revents, gone, history>>

HangUp(s) ==
  /\ loop # "left"
  /\ s \in Reported \ gone
  /\ gone' = gone \union {s}
  /\ UNCHANGED <<loop, waiting, rqueue, unsent, revents, messages, history>>

(* sd-bus does not ask poll for input while it has messages.                *)
Readable == {s \in Sources : waiting[s] > 0 /\ (s = "dbus" => rqueue = 0)}

\* Mutant: messages that were read before are not looked at.
Served_OnlyReported == Readable

(* sd_bus_get_events is 0, and the timeout too, if messages were read.      *)
Served == Readable \union IF rqueue > 0 THEN {"dbus"} ELSE {}

(* Waits for a source or a hang-up, and leaves on the latter, whatever else *)
(* was reported.                                                            *)
Poll == /\ loop = "poll"
        /\ Served # {} \/ gone # {}
        /\ revents' = Served
        /\ loop' = IF gone # {} THEN "left" ELSE "dbus"
        /\ tripped' = FALSE
        /\ UNCHANGED <<waiting, rqueue, unsent, outside, started, refused>>

(* Takes one message, the one queued first.                                 *)
TakeMessage(w) ==
  \/ rqueue > 0 /\ rqueue' = rqueue - 1 /\ w = waiting
  \/ /\ rqueue = 0 /\ waiting["dbus"] > 0
     /\ w = [waiting EXCEPT !["dbus"] = @ - 1]
     /\ UNCHANGED rqueue

(* One sd_bus_process.  A handler may make requests; Start makes a round    *)
(* trip, whose handlers may make more, and may then run the PipeWire loop.  *)
(* handle_name_lost closes the connection, and the next sd_bus_process      *)
(* fails.                                                                   *)
sd_bus_process ==
  /\ loop = "dbus"
  /\ "dbus" \in revents
  /\ \E w \in [Sources -> 0..MaxWaiting] :
       /\ TakeMessage(w)
       /\ \/ /\ waiting' = w
             /\ unsent' \in {unsent, TRUE}
             /\ loop' \in {"dbus", "left"}
             /\ UNCHANGED tripped
          \/ /\ \E left \in {0, w["pipewire"]} :
                  waiting' = [w EXCEPT !["wayland"] = 0, !["pipewire"] = left]
             /\ unsent' \in BOOLEAN
             /\ tripped' = TRUE
             /\ UNCHANGED loop
  /\ UNCHANGED <<revents, outside, started, refused>>

(* It returns 0, or fails because the connection is gone.                   *)
ProcessedAll ==
  /\ loop = "dbus"
  /\ \/ "dbus" \notin revents /\ loop' = "wayland"
     \/ /\ "dbus" \in revents /\ rqueue = 0 /\ waiting["dbus"] = 0
        /\ loop' = IF "dbus" \in gone THEN "left" ELSE "wayland"
  /\ UNCHANGED <<waiting, rqueue, unsent, revents, outside, history>>

\* Mutant: events are waited for whether poll reported some or not.
CheckWayland_Always ==
  /\ loop = "wayland"
  /\ loop' = "dispatch"
  /\ UNCHANGED <<waiting, rqueue, unsent, revents, outside, history>>

CheckWayland ==
  /\ loop = "wayland"
  /\ loop' = IF "wayland" \in revents THEN "dispatch" ELSE "pipewire"
  /\ UNCHANGED <<waiting, rqueue, unsent, revents, outside, history>>

(* Waits for events, and runs the handlers of all; or the compositor is     *)
(* gone, and it fails.                                                      *)
wl_display_dispatch ==
  /\ loop = "dispatch"
  /\ \/ /\ waiting["wayland"] > 0
        /\ waiting' = [waiting EXCEPT !["wayland"] = 0]
        /\ unsent' \in BOOLEAN
        /\ loop' = "pipewire"
     \/ /\ waiting["wayland"] = 0 /\ "wayland" \in gone
        /\ loop' = "left"
        /\ UNCHANGED <<waiting, unsent>>
  /\ UNCHANGED <<rqueue, revents, outside, history>>

(* pw_loop_iterate(0), and the callback of a timer, serve what there is.    *)
Serve(s, then) ==
  /\ loop = s
  /\ IF s \in revents
     THEN /\ waiting' = [waiting EXCEPT ![s] = 0]
          /\ unsent' \in {unsent, TRUE}
     ELSE UNCHANGED <<waiting, unsent>>
  /\ loop' = then
  /\ UNCHANGED <<rqueue, revents, outside, history>>

\* Mutant: only requests made in answer to events are flushed.
Flush_AfterEvents ==
  /\ loop = "pending"
  /\ unsent' \in IF "wayland" \in revents THEN {FALSE, unsent} ELSE {unsent}
  /\ refused' = ("wayland" \in revents /\ unsent')
  /\ loop' = "poll"
  /\ started' = TRUE
  /\ UNCHANGED <<waiting, rqueue, revents, outside, tripped>>

(* Dispatching reads and runs everything, so wl_display_dispatch_pending    *)
(* finds nothing, and one flush follows.                                    *)
Flush ==
  /\ loop = "pending"
  /\ unsent' \in {FALSE, unsent}
  /\ refused' = unsent'
  /\ loop' = "poll"
  /\ started' = TRUE
  /\ UNCHANGED <<waiting, rqueue, revents, outside, tripped>>

Iterate == \/ Poll
           \/ sd_bus_process
           \/ ProcessedAll
           \/ CheckWayland
           \/ wl_display_dispatch
           \/ Serve("pipewire", "timer")
           \/ Serve("timer", "pending")
           \/ Flush

Next == \/ \E s \in Sources : Arrive(s) \/ HangUp(s)
        \/ Iterate

Spec == Init /\ [][Next]_vars

(* The loop takes its next step whenever one is possible: handlers return.  *)
FairSpec == Spec /\ WF_vars(Iterate)

-----------------------------------------------------------------------------

(* wl_display_dispatch has nothing to read and waits for the compositor.    *)
Stuck == /\ loop = "dispatch"
         /\ waiting["wayland"] = 0
         /\ "wayland" \notin gone

(* The loop waits in poll only, where it can serve every source, but for    *)
(* one case: a handler run between poll and wl_display_dispatch made a      *)
(* round trip that read the events poll had reported.                       *)
WaitsInPollOnly == Stuck => tripped

(* Once started, the daemon does not go to sleep on a request that the      *)
(* compositor has not been sent, whichever source's handler made it; unless *)
(* the compositor does not read, of which poll is not asked to tell.        *)
SentBeforeSleeping == loop = "poll" /\ started /\ unsent => refused

(* Whatever waits at a source is served in the end, also calls that came    *)
(* before the loop began and lie in sd-bus's own queue; unless the daemon   *)
(* leaves, or waits for the compositor outside of poll.                     *)
EverySourceServed ==
  /\ \A s \in Sources :
       waiting[s] > 0 ~> waiting[s] = 0 \/ loop = "left" \/ Stuck
  /\ rqueue > 0 ~> rqueue = 0 \/ loop = "left"
=============================================================================
