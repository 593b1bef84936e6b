------------------------------- MODULE Portal -------------------------------
(***************************************************************************)
(* Sessions, screencast instances and their targets: the D-Bus methods of  *)
(* org.freedesktop.impl.portal.ScreenCast and .Session, and the Wayland and *)
(* PipeWire events that end an instance (src/screencast/screencast.c,      *)
(* src/core/session.c, and the handlers of wlr_screencast.c,               *)
(* wlr_screencopy.c, ext_image_copy.c and pipewire_screencast.c that call  *)
(* xdpw_screencast_instance_destroy).                                      *)
(*                                                                         *)
(* The daemon is one thread, but Start runs two nested loops inside its    *)
(* D-Bus handler: a Wayland round trip (pc = "init") and pw_loop_iterate    *)
(* until the node has an id (pc = "wait").  The events of those loops run  *)
(* in the middle of Start, which then goes on with the instance it read    *)
(* before.  What the code makes of freed memory is not modelled: up becomes *)
(* "undefined", and nothing is promised from then on.                      *)
(*                                                                         *)
(* Data abstracted: message contents down to the choices that matter, the  *)
(* chooser (a blocking child process) to the target it ends up with, and   *)
(* the frames of a running stream, which Capture models.                   *)
(***************************************************************************)
EXTENDS Integers, FiniteSets

CONSTANTS Sessions,     \* session object paths
          Casts,        \* struct xdpw_screencast_instance allocations
          Outputs,      \* wl_output globals
          Toplevels,    \* foreign toplevel handles
          None,         \* NULL
          Backends,     \* the capture protocols a compositor may offer
          PersistCap,   \* what XDPW_PERSIST_MODE allows
          MaxPersist    \* bound on the persist modes callers ask for

ASSUME PortalAssumption == /\ IsFiniteSet(Sessions)
                           /\ None \notin Sessions \union Casts
                           /\ None \notin Outputs \union Toplevels
                           /\ Outputs \intersect Toplevels = {}
                           /\ Backends \subseteq {"ext", "screencopy"}
                           /\ PersistCap \in 0..2
                           /\ MaxPersist \in Nat
                           /\ PersistCap <= MaxPersist

VARIABLES up,           \* "running", or how the daemon came to its end
          sessions,     \* state->xdpw_sessions
          instance,     \* sess->screencast_data.screencast_instance
          persist,      \* sess->screencast_data.persist_mode
          casts,        \* ctx->screencast_instances
          refcount,     \* cast->refcount
          target,       \* cast->target->output or ->toplevel
          initialized,  \* the instances with cast->initialized
          node,         \* the instances whose cast->node_id is valid
          failed,       \* the instances whose stream is in the error state
          backend,      \* the capture protocol in use
          outputs,      \* ctx->output_list
          toplevels,    \* ctx->toplevels
          hooks,        \* runs of exec_before less runs of exec_after
          told,         \* the paths the Closed signal was emitted for
          pc,           \* where Start is: "idle", "init" or "wait"
          startSession, \* the session_handle Start was called with
          startCast,    \* the local variable cast of Start
          reply         \* persist_mode in the last reply of Start

objects == <<sessions, instance, persist, casts, refcount, target, initialized,
             node, failed, hooks, told>>
start == <<pc, startSession, startCast, reply>>
world == <<backend, outputs, toplevels>>
vars == <<up, objects, world, start>>

Persist == 0..MaxPersist    \* none, transient, permanent, any greater number

Users(c) == {s \in sessions : instance[s] = c}

TypeOK == /\ up \in {"running", "exited", "aborted", "undefined"}
          /\ sessions \subseteq Sessions
          /\ instance \in [Sessions -> Casts \union {None}]
          /\ persist \in [Sessions -> Persist]
          /\ casts \subseteq Casts
          /\ refcount \in [Casts -> Nat]
          /\ target \in [Casts -> Outputs \union Toplevels \union {None}]
          /\ initialized \subseteq casts
          /\ node \subseteq initialized
          /\ failed \subseteq initialized
          /\ backend \in Backends
          /\ outputs \subseteq Outputs
          /\ toplevels \subseteq Toplevels
          /\ hooks \in Int
          /\ told \subseteq Sessions
          /\ pc \in {"idle", "init", "wait"}
          /\ startSession \in Sessions \union {None}
          /\ startCast \in Casts \union {None}
          /\ reply \in Persist \union {None}

Init == /\ up = "running"
        /\ sessions = {}
        /\ instance = [s \in Sessions |-> None]
        /\ persist = [s \in Sessions |-> 0]
        /\ casts = {}
        /\ refcount = [c \in Casts |-> 0]
        /\ target = [c \in Casts |-> None]
        /\ initialized = {}
        /\ node = {}
        /\ failed = {}
        /\ backend \in Backends
        /\ outputs \in SUBSET Outputs
        /\ toplevels \in SUBSET Toplevels
        /\ hooks = 0
        /\ told = {}
        /\ pc = "idle"
        /\ startSession = None
        /\ startCast = None
        /\ reply = None

\* Mutant: the nested loops of Start serve the bus as well.
OnDBus_Nested == up = "running"

\* The loop main is in, or the nested one Start is in, decides which
\* handlers can run.
OnDBus == up = "running" /\ pc = "idle"
OnWayland == up = "running" /\ pc \in {"idle", "init"}
OnPipeWire == up = "running" /\ pc \in {"idle", "wait"}

-----------------------------------------------------------------------------

\* Mutant: every instance that goes runs exec_after.
exec_after_Always(D) == hooks' = IF D # {} THEN hooks - 1 ELSE hooks

\* exec_after runs when the last instance is destroyed.
exec_after(D) ==
  hooks' = IF D # {} /\ casts \subseteq D THEN hooks - 1 ELSE hooks

xdpw_pwr_stream_destroy(D) == /\ initialized' = initialized \ D
                              /\ node' = node \ D
                              /\ failed' = failed \ D

\* Mutant: the signal is forgotten.
EmitClosed_Not(S, quiet) == UNCHANGED told

\* The Closed signal, but for the sessions whose Close was called.
EmitClosed(S, quiet) == told' = told \union (S \ quiet)

(* The end of the sessions S and of the instances D.  Each session that     *)
(* goes drops its reference; xdpw_screencast_instance_destroy asserts that  *)
(* none is left.                                                            *)
End(S, D, quiet) ==
  LET dropped(c) == Cardinality({s \in S : instance[s] = c})
  IN  /\ up' = IF \A c \in D : refcount[c] = dropped(c) THEN up ELSE "aborted"
      /\ sessions' = sessions \ S
      /\ instance' = [s \in Sessions |-> IF s \in S THEN None ELSE instance[s]]
      /\ persist' = [s \in Sessions |-> IF s \in S THEN 0 ELSE persist[s]]
      /\ EmitClosed(S, quiet)
      /\ casts' = casts \ D
      /\ refcount' = [c \in Casts |-> IF c \in D THEN 0
                                      ELSE refcount[c] - dropped(c)]
      /\ target' = [c \in Casts |-> IF c \in D THEN None ELSE target[c]]
      /\ xdpw_pwr_stream_destroy(D)
      /\ exec_after(D)

\* Mutant: the sessions of an instance are not looked for.
xdpw_screencast_instance_destroy_Alone(D) == End({}, D, {})

xdpw_screencast_instance_destroy(D) ==
  End(UNION {Users(c) : c \in D}, D, {})

xdpw_session_destroy(s, quiet) ==
  LET c == instance[s]
  IN  IF c # None /\ refcount[c] <= 1
      THEN End(Users(c), {c}, quiet)
      ELSE End({s}, {}, quiet)

\* Mutant: the reference of the list is counted as well.
xdpw_screencast_instance_init_Listed(c, t) ==
  /\ hooks' = IF casts = {} THEN hooks + 1 ELSE hooks
  /\ casts' = casts \union {c}
  /\ refcount' = [refcount EXCEPT ![c] = 2]
  /\ target' = [target EXCEPT ![c] = t]

\* The first instance runs exec_before.
xdpw_screencast_instance_init(c, t) ==
  /\ hooks' = IF casts = {} THEN hooks + 1 ELSE hooks
  /\ casts' = casts \union {c}
  /\ refcount' = [refcount EXCEPT ![c] = 1]
  /\ target' = [target EXCEPT ![c] = t]

-----------------------------------------------------------------------------

(* CreateSession.  Its request object is not modelled.                      *)
CreateSession(s) ==
  /\ OnDBus
  /\ s \notin sessions
  /\ sessions' = sessions \union {s}
  /\ told' = told \ {s}
  /\ UNCHANGED <<up, instance, persist, casts, refcount, target, initialized,
                 node, failed, hooks, world, start>>

\* Mutant: the instance the session has is replaced.
attach_target_Replaces(s, t) ==
  \E c \in Casts \ casts : /\ xdpw_screencast_instance_init(c, t)
                          /\ instance' = [instance EXCEPT ![s] = c]

\* Mutant: the sharing that setup_target has commented out.
attach_target_Shares(s, t) ==
  \/ \E c \in casts :
       /\ instance[s] = None
       /\ target[c] = t
       /\ instance' = [instance EXCEPT ![s] = c]
       /\ refcount' = [refcount EXCEPT ![c] = @ + 1]
       /\ UNCHANGED <<casts, target, hooks>>
  \/ attach_target_Replaces(s, t)

\* A session that has an instance keeps it, and the new target is dropped.
attach_target(s, t) ==
  IF instance[s] = None
  THEN \E c \in Casts \ casts : /\ xdpw_screencast_instance_init(c, t)
                               /\ instance' = [instance EXCEPT ![s] = c]
  ELSE UNCHANGED <<instance, casts, refcount, target, hooks>>

(* The target SelectSources settles on.  A monitor named by restore_data is *)
(* taken without asking, at the persist mode p the caller asked for;        *)
(* otherwise the chooser answers (None: declined) and XDPW_PERSIST_MODE     *)
(* caps p.                                                                  *)
setup_target(s, t, p, restored) ==
  /\ t \in outputs \union toplevels \union {None}
  /\ restored => t \in outputs
  /\ persist' = [persist EXCEPT ![s] = IF restored \/ p <= PersistCap
                                       THEN p ELSE PersistCap]
  /\ IF t # None THEN attach_target(s, t)
     ELSE UNCHANGED <<instance, casts, refcount, target, hooks>>

SelectSources(s, t, p, restored) ==
  /\ OnDBus
  /\ s \in sessions
  /\ setup_target(s, t, p, restored)
  /\ UNCHANGED <<up, sessions, initialized, node, failed, told, world, start>>

(* The calls that fail before setup_target (source types nobody supports,   *)
(* restore_data of another vendor, a malformed message) or in it (no type   *)
(* left in the mask): persist_mode is that of the options read so far.      *)
SelectSourcesFails(s, p) ==
  /\ OnDBus
  /\ s \in sessions
  /\ persist' = [persist EXCEPT ![s] = p]
  /\ UNCHANGED <<up, sessions, instance, casts, refcount, target, initialized,
                 node, failed, hooks, told, world, start>>

(* An unsupported cursor mode ends the session.                             *)
SelectSourcesBadCursor(s) ==
  /\ OnDBus
  /\ s \in sessions
  /\ xdpw_session_destroy(s, {})
  /\ UNCHANGED <<world, start>>

(* restore_data of another version, or without output_name: the name        *)
(* compared with every output's is NULL.                                    *)
SelectSourcesNameless(s) ==
  /\ OnDBus
  /\ s \in sessions
  /\ outputs # {}
  /\ up' = "undefined"
  /\ UNCHANGED <<objects, world, start>>

(* A session that is gone: the loop over the list leaves sess at the list   *)
(* head's container, not NULL, and the handler writes there.                *)
SelectSourcesUnknown(s) ==
  /\ OnDBus
  /\ s \notin sessions
  /\ up' = "undefined"
  /\ UNCHANGED <<objects, world, start>>

(* method_close of the session object.                                      *)
SessionClose(s) ==
  /\ OnDBus
  /\ s \in sessions
  /\ xdpw_session_destroy(s, {s})
  /\ UNCHANGED <<world, start>>

-----------------------------------------------------------------------------

(* Start of an instance whose stream exists: only the wait for the node.    *)
StartAgain(s) ==
  /\ OnDBus
  /\ instance[s] \in initialized
  /\ pc' = "wait"
  /\ startSession' = s
  /\ startCast' = instance[s]
  /\ reply' = None
  /\ UNCHANGED <<up, objects, world>>

(* start_screencast up to the round trip of xdpw_wlr_session_init.  The     *)
(* screencopy backend asserts a monitor; the ext backend reads the handle   *)
(* of a toplevel that may have been freed.                                  *)
start_screencast(s) ==
  /\ OnDBus
  /\ instance[s] # None
  /\ instance[s] \notin initialized
  /\ \/ target[instance[s]] \notin Toplevels
     \/ backend = "ext" /\ target[instance[s]] \in toplevels
  /\ pc' = "init"
  /\ startSession' = s
  /\ startCast' = instance[s]
  /\ reply' = None
  /\ UNCHANGED <<up, objects, world>>

StartWindow(s) ==
  /\ OnDBus
  /\ instance[s] # None
  /\ instance[s] \notin initialized
  /\ target[instance[s]] \in Toplevels
  /\ UNCHANGED <<objects, world, start>>

wlr_register_cb_Asserts(s) ==
  /\ StartWindow(s)
  /\ backend = "screencopy"
  /\ up' = "aborted"

StartFreedWindow(s) ==
  /\ StartWindow(s)
  /\ backend = "ext"
  /\ target[instance[s]] \notin toplevels
  /\ up' = "undefined"

StartFinished == /\ pc' = "idle"
                 /\ startSession' = None
                 /\ startCast' = None

(* No capture source for the target, or a failed round trip: Start returns  *)
(* an error and leaves the instance uninitialized.                          *)
StartInitFails ==
  /\ up = "running"
  /\ pc = "init"
  /\ backend = "ext"
  /\ StartFinished
  /\ UNCHANGED <<up, objects, world, reply>>

\* Mutant: the stream is not recorded in the instance.
StartInitDone_Forgets ==
  /\ up = "running"
  /\ pc = "init"
  /\ startCast \in casts
  /\ pc' = "wait"
  /\ UNCHANGED <<up, objects, world, startSession, startCast, reply>>

(* The round trip is over: the stream is created and connected.             *)
StartInitDone ==
  /\ up = "running"
  /\ pc = "init"
  /\ startCast \in casts
  /\ initialized' = initialized \union {startCast}
  /\ pc' = "wait"
  /\ UNCHANGED <<up, sessions, instance, persist, casts, refcount, target, node,
                 failed, hooks, told, world, startSession, startCast, reply>>

(* An event of the nested loop destroyed the instance Start goes on with.   *)
StartLostItsCast ==
  /\ up = "running"
  /\ pc \in {"init", "wait"}
  /\ startCast \notin casts
  /\ up' = "undefined"
  /\ UNCHANGED <<objects, world, start>>

(* pw_loop_iterate failed: Start returns an error, the stream stays.        *)
StartWaitFails ==
  /\ up = "running"
  /\ pc = "wait"
  /\ StartFinished
  /\ UNCHANGED <<up, objects, world, reply>>

(* The node has an id: Start replies.  The loop that looked for the session *)
(* ran to the end of the list, so the persist_mode in the reply is read     *)
(* from the list head's container: any number.                              *)
StartReplies ==
  /\ up = "running"
  /\ pc = "wait"
  /\ startCast \in node
  /\ reply' \in Persist
  /\ StartFinished
  /\ UNCHANGED <<up, objects, world>>

-----------------------------------------------------------------------------

(* pwr_handle_stream_state_changed, as far as the node id goes: a connected *)
(* stream gets an id; a failed stream may lose it, and gets no other.       *)
NodeBound(c) ==
  /\ OnPipeWire
  /\ c \in initialized \ (node \union failed)
  /\ node' = node \union {c}
  /\ UNCHANGED <<up, sessions, instance, persist, casts, refcount, target,
                 initialized, failed, hooks, told, world, start>>

StreamError(c) ==
  /\ OnPipeWire
  /\ c \in initialized
  /\ node' \in {node, node \ {c}}
  /\ failed' = failed \union {c}
  /\ UNCHANGED <<up, sessions, instance, persist, casts, refcount, target,
                 initialized, hooks, told, world, start>>

(* pwr_handle_stream_add_buffer: an unusable buffer ends the instance.      *)
StreamAddBufferFails(c) ==
  /\ OnPipeWire
  /\ c \in initialized
  /\ xdpw_screencast_instance_destroy({c})
  /\ UNCHANGED <<world, start>>

(* ext_session_stopped and ext_frame_failed.                                *)
CaptureEnds(c) ==
  /\ OnWayland
  /\ backend = "ext"
  /\ c \in casts
  /\ c \in initialized \/ c = startCast
  /\ xdpw_screencast_instance_destroy({c})
  /\ UNCHANGED <<world, start>>

(* A screencopy frame that is upside down: xdpw_pwr_enqueue_buffer destroys *)
(* the instance, and its callers go on with it.                             *)
UpsideDown(c) ==
  /\ up = "running"
  /\ backend = "screencopy"
  /\ c \in node \union failed
  /\ up' = "undefined"
  /\ UNCHANGED <<objects, world, start>>

\* Mutant: the instances are left alone, as when a toplevel is closed.
wlr_registry_handle_remove_Forgets(o) ==
  /\ OnWayland
  /\ o \in outputs
  /\ outputs' = outputs \ {o}
  /\ UNCHANGED <<up, objects, backend, toplevels, start>>

(* An output goes away and takes the instances that capture it along.       *)
wlr_registry_handle_remove(o) ==
  /\ OnWayland
  /\ o \in outputs
  /\ outputs' = outputs \ {o}
  /\ xdpw_screencast_instance_destroy({c \in casts : target[c] = o})
  /\ UNCHANGED <<backend, toplevels, start>>

wlr_registry_handle_add(o) ==
  /\ OnWayland
  /\ o \notin outputs
  /\ outputs' = outputs \union {o}
  /\ UNCHANGED <<up, objects, backend, toplevels, start>>

foreign_toplevel_list_handle_toplevel(w) ==
  /\ OnWayland
  /\ w \notin toplevels
  /\ toplevels' = toplevels \union {w}
  /\ UNCHANGED <<up, objects, backend, outputs, start>>

(* A toplevel is freed; the instances that capture it are left alone.       *)
foreign_toplevel_destroy(W) ==
  /\ OnWayland
  /\ W \subseteq toplevels
  /\ toplevels' = toplevels \ W
  /\ UNCHANGED <<up, objects, backend, outputs, start>>

-----------------------------------------------------------------------------

(* main leaves its loop: the bus name is lost, or a connection hangs up or  *)
(* fails.  Nothing is cleaned up.                                           *)
DaemonExits ==
  /\ OnDBus
  /\ up' = "exited"
  /\ UNCHANGED <<objects, world, start>>

(* A fatal error of the PipeWire core calls exit.                           *)
on_core_error ==
  /\ OnPipeWire
  /\ up' = "exited"
  /\ UNCHANGED <<objects, world, start>>

Next ==
  \/ \E s \in Sessions :
       \/ CreateSession(s)
       \/ \E t \in Outputs \union Toplevels \union {None}, p \in Persist,
             restored \in BOOLEAN : SelectSources(s, t, p, restored)
       \/ \E p \in Persist : SelectSourcesFails(s, p)
       \/ SelectSourcesBadCursor(s)
       \/ SelectSourcesNameless(s)
       \/ SelectSourcesUnknown(s)
       \/ SessionClose(s)
       \/ StartAgain(s)
       \/ start_screencast(s)
       \/ wlr_register_cb_Asserts(s)
       \/ StartFreedWindow(s)
  \/ StartInitFails
  \/ StartInitDone
  \/ StartLostItsCast
  \/ StartWaitFails
  \/ StartReplies
  \/ \E c \in Casts :
       \/ NodeBound(c)
       \/ StreamError(c)
       \/ StreamAddBufferFails(c)
       \/ CaptureEnds(c)
       \/ UpsideDown(c)
  \/ \E o \in Outputs :
       \/ wlr_registry_handle_remove(o)
       \/ wlr_registry_handle_add(o)
  \/ \E w \in Toplevels :
       \/ foreign_toplevel_list_handle_toplevel(w)
       \/ foreign_toplevel_destroy({w})
  \/ foreign_toplevel_destroy(toplevels)
  \/ DaemonExits
  \/ on_core_error

Spec == Init /\ [][Next]_vars

(* The nested loops of Start: the compositor answers the round trip, and    *)
(* PipeWire gives a connected stream its node.                              *)
Fairness == /\ WF_vars(StartInitDone \/ StartLostItsCast)
            /\ \A c \in Casts : WF_vars(NodeBound(c))
            /\ WF_vars(StartReplies)

FairSpec == Spec /\ Fairness

-----------------------------------------------------------------------------

(* Every instance is counted by the sessions that refer to it, so neither   *)
(* assertion on refcount can fail and the last session to go destroys it.   *)
RefcountExact == \A c \in Casts : refcount[c] = Cardinality(Users(c))

(* An instance is in the list exactly while a session refers to it: no      *)
(* session is left with a freed instance when an event ends it, none leaks. *)
CastsAreUsed == casts = {instance[s] : s \in sessions} \ {None}

(* exec_before and exec_after alternate, and between them is exactly the    *)
(* time in which some instance exists.                                      *)
HooksBracketCasts == hooks = IF casts = {} THEN 0 ELSE 1

(* An instance that captures a monitor captures one that is there: the      *)
(* output it points to is freed only after the instance.                    *)
MonitorIsThere ==
  \A c \in casts : target[c] \in Outputs => target[c] \in outputs

(* Of the assertions on reference counts, lists and targets the only one     *)
(* that can fail is that of wlr_register_cb on the kind of its target.      *)
(* (The one of param_changed on formats is in Negotiation.)                 *)
AbortsOnlyForWindow ==
  up = "aborted" =>
    backend = "screencopy" /\ \E c \in casts : target[c] \in Toplevels

(* An instance serves one session and one target from its first step to its *)
(* last: no later call or event hands it to another.                        *)
CastsNeverChangeHands ==
  [][\A c \in casts \intersect casts' :
       /\ target'[c] = target[c]
       /\ {s \in sessions' : instance'[s] = c} = Users(c)]_vars

(* Start goes on with the instance it looked up before its nested loops.    *)
(* If that instance still exists it still is the one of the session Start   *)
(* was called for, and still has the stream Start made for it: no other     *)
(* session or instance has taken its place.                                 *)
StartKeepsItsCast ==
  up = "running" /\ pc # "idle" /\ startCast \in casts =>
    /\ startSession \in sessions
    /\ instance[startSession] = startCast
    /\ pc = "wait" => startCast \in initialized

(* Start does not keep the daemon in its nested loops for ever, unless      *)
(* PipeWire fails the very stream it waits for.                             *)
StartReturns ==
  pc # "idle" ~> pc = "idle" \/ up # "running" \/ startCast \in failed

(* Claims of the repository that the code does not keep.                    *)

(* select_sources defaults to no persist if not specified; Start reports    *)
(* the persist mode of the session it started.                              *)
StartReportsPersist ==
  [][reply' # reply /\ reply' # None => reply' = persist[startSession]]_vars

(* What the portal promises its frontend (SessionContract).                 *)
Phase(s) == CASE s \notin sessions -> "none"
              [] s \in sessions /\ instance[s] = None -> "created"
              [] s \in sessions /\ instance[s] \in casts \ initialized -> "selected"
              [] s \in sessions /\ instance[s] \in initialized -> "started"

Contract == INSTANCE SessionContract
              WITH phase <- [s \in Sessions |-> Phase(s)],
                   bracket <- hooks > 0
ImplementsSessionContract == Contract!Spec
=============================================================================
