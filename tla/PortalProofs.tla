---------------------------- MODULE PortalProofs ----------------------------
(***************************************************************************)
(* The safety properties of Portal for every set of sessions, instances,   *)
(* outputs and toplevels, and the refinement of SessionContract.           *)
(***************************************************************************)
EXTENDS Portal, FiniteSetTheorems, TLAPS

(* The inductive invariant.  RefcountExact alone is not preserved: that an  *)
(* instance can be destroyed needs to know that exactly one session refers  *)
(* to it, that this session is in the list, and that no session in or out   *)
(* of the list refers to an instance that is gone.                          *)
ObjInv == /\ sessions \in SUBSET Sessions
          /\ instance \in [Sessions -> Casts \union {None}]
          /\ persist \in [Sessions -> Persist]
          /\ casts \in SUBSET Casts
          /\ refcount = [c \in Casts |-> IF c \in casts THEN 1 ELSE 0]
          /\ target \in [Casts -> Outputs \union Toplevels \union {None}]
          /\ initialized \in SUBSET casts
          /\ node \in SUBSET initialized
          /\ failed \in SUBSET initialized
          /\ told \in SUBSET Sessions
          /\ HooksBracketCasts
          /\ \A s \in Sessions :
               instance[s] # None => s \in sessions /\ instance[s] \in casts
          /\ \A c \in casts : \E s \in sessions : instance[s] = c
          /\ \A s, u \in Sessions :
               instance[s] # None /\ instance[s] = instance[u] => s = u

RestInv == /\ up \in {"running", "exited", "aborted", "undefined"}
           /\ backend \in Backends
           /\ outputs \in SUBSET Outputs
           /\ toplevels \in SUBSET Toplevels
           /\ pc \in {"idle", "init", "wait"}
           /\ startSession \in Sessions \union {None}
           /\ startCast \in Casts \union {None}
           /\ reply \in Persist \union {None}

IInv == ObjInv /\ RestInv /\ MonitorIsThere

LEMMA InitIInv == Init => IInv
  BY PortalAssumption DEF Init, IInv, ObjInv, RestInv, MonitorIsThere,
     HooksBracketCasts, Persist

LEMMA ObjectsUnchanged == ObjInv /\ UNCHANGED objects => ObjInv'
  BY DEF ObjInv, objects, HooksBracketCasts, Persist

(* Of the sessions S exactly one, or none, refers to an instance.           *)
LEMMA DroppedOnce ==
  ASSUME ObjInv, NEW S \in SUBSET sessions, NEW c \in Casts
  PROVE  Cardinality({s \in S : instance[s] = c})
           = IF \E s \in S : instance[s] = c THEN 1 ELSE 0
  <1>1. CASE \E s \in S : instance[s] = c
    <2>1. PICK s \in S : instance[s] = c
      BY <1>1
    <2>2. {u \in S : instance[u] = c} = {s}
      BY <2>1, PortalAssumption DEF ObjInv
    <2> QED
      BY <2>2, <1>1, FS_Singleton
  <1>2. CASE ~ \E s \in S : instance[s] = c
    <2>1. {u \in S : instance[u] = c} = {}
      BY <1>2
    <2> QED
      BY <2>1, <1>2, FS_EmptySet
  <1> QED
    BY <1>1, <1>2

(* Ending some instances with all their sessions, and sessions without an   *)
(* instance, keeps the invariant, and no assertion on a refcount fails.     *)
LEMMA EndKeepsObjInv ==
  ASSUME ObjInv, NEW S \in SUBSET sessions, NEW D \in SUBSET casts, NEW quiet,
         \A s \in sessions : instance[s] \in D => s \in S,
         \A s \in S : instance[s] \in D \union {None},
         End(S, D, quiet)
  PROVE  ObjInv' /\ up' = up
  <1> DEFINE dropped(c) == Cardinality({s \in S : instance[s] = c})
  <1>1. \A c \in D : dropped(c) = 1
    BY DroppedOnce DEF ObjInv
  <1>2. \A c \in Casts \ D : dropped(c) = 0
    BY DroppedOnce, PortalAssumption DEF ObjInv
  <1>3. \A c \in D : refcount[c] = 1
    BY DEF ObjInv
  <1>4. /\ up' = IF \A c \in D : refcount[c] = dropped(c) THEN up ELSE "aborted"
        /\ refcount' = [c \in Casts |-> IF c \in D THEN 0
                                        ELSE refcount[c] - dropped(c)]
    BY DEF End
  <1> HIDE DEF dropped
  <1>5. up' = up
    BY <1>1, <1>3, <1>4
  <1>6. refcount' = [c \in Casts |-> IF c \in casts \ D THEN 1 ELSE 0]
    <2>1. \A c \in Casts \ D : refcount[c] - dropped(c) = IF c \in casts THEN 1 ELSE 0
      BY <1>2 DEF ObjInv
    <2> QED
      BY <1>4, <2>1
  <1>7. /\ sessions' = sessions \ S /\ casts' = casts \ D
        /\ instance' = [s \in Sessions |-> IF s \in S THEN None ELSE instance[s]]
        /\ persist' = [s \in Sessions |-> IF s \in S THEN 0 ELSE persist[s]]
        /\ target' = [c \in Casts |-> IF c \in D THEN None ELSE target[c]]
        /\ told' = told \union (S \ quiet)
        /\ initialized' = initialized \ D /\ node' = node \ D
        /\ failed' = failed \ D
        /\ hooks' = IF D # {} /\ casts \subseteq D THEN hooks - 1 ELSE hooks
    BY DEF End, EmitClosed, xdpw_pwr_stream_destroy, exec_after
  <1>8. HooksBracketCasts'
    BY <1>7 DEF ObjInv, HooksBracketCasts
  <1>9. /\ instance' \in [Sessions -> Casts \union {None}]
        /\ persist' \in [Sessions -> Persist]
        /\ target' \in [Casts -> Outputs \union Toplevels \union {None}]
    BY <1>7, PortalAssumption DEF ObjInv, Persist
  <1>10. \A s \in Sessions :
           instance'[s] # None => s \in sessions' /\ instance'[s] \in casts'
    BY <1>7 DEF ObjInv
  <1>11. \A c \in casts' : \E s \in sessions' : instance'[s] = c
    <2> SUFFICES ASSUME NEW c \in casts' PROVE \E s \in sessions' : instance'[s] = c
      OBVIOUS
    <2>1. PICK s \in sessions : instance[s] = c
      BY <1>7 DEF ObjInv
    <2>2. s \notin S
      BY <2>1, <1>7, PortalAssumption DEF ObjInv
    <2> QED
      BY <2>1, <2>2, <1>7 DEF ObjInv
  <1>12. \A s, u \in Sessions :
           instance'[s] # None /\ instance'[s] = instance'[u] => s = u
    BY <1>7 DEF ObjInv
  <1> QED
    BY <1>5, <1>6, <1>7, <1>8, <1>9, <1>10, <1>11, <1>12 DEF ObjInv

LEMMA InstanceDestroyKeepsObjInv ==
  ASSUME ObjInv, NEW D \in SUBSET casts, xdpw_screencast_instance_destroy(D)
  PROVE  ObjInv' /\ up' = up
  <1> DEFINE S == UNION {Users(c) : c \in D}
  <1>1. /\ S \in SUBSET sessions
        /\ \A s \in sessions : instance[s] \in D => s \in S
        /\ \A s \in S : instance[s] \in D
    BY DEF Users
  <1>2. End(S, D, {})
    BY DEF xdpw_screencast_instance_destroy
  <1> HIDE DEF S
  <1> QED
    BY <1>1, <1>2, EndKeepsObjInv

LEMMA SessionDestroyKeepsObjInv ==
  ASSUME ObjInv, NEW s \in sessions, NEW quiet, xdpw_session_destroy(s, quiet)
  PROVE  ObjInv' /\ up' = up
  <1>1. CASE instance[s] = None
    <2>1. End({s}, {}, quiet)
      BY <1>1 DEF xdpw_session_destroy
    <2> QED
      BY <1>1, <2>1, EndKeepsObjInv
  <1>2. CASE instance[s] # None
    <2> DEFINE c == instance[s]
    <2>1. c \in casts /\ refcount[c] = 1
      BY <1>2 DEF ObjInv
    <2>2. End(Users(c), {c}, quiet)
      BY <1>2, <2>1 DEF xdpw_session_destroy
    <2>3. /\ Users(c) \in SUBSET sessions
          /\ \A u \in sessions : instance[u] \in {c} => u \in Users(c)
          /\ \A u \in Users(c) : instance[u] \in {c}
      BY DEF Users
    <2> HIDE DEF c
    <2> QED
      BY <2>1, <2>2, <2>3, EndKeepsObjInv
  <1> QED
    BY <1>1, <1>2

(* What attach_target adds: a fresh instance, owned by one session.         *)
LEMMA AttachKeepsObjInv ==
  ASSUME ObjInv, NEW s \in sessions,
         NEW t \in Outputs \union Toplevels, attach_target(s, t),
         persist' \in [Sessions -> Persist],
         UNCHANGED <<sessions, initialized, node, failed, told>>
  PROVE  ObjInv'
  <1>1. CASE instance[s] = None
    <2>1. PICK c \in Casts \ casts : /\ xdpw_screencast_instance_init(c, t)
                                    /\ instance' = [instance EXCEPT ![s] = c]
      BY <1>1 DEF attach_target
    <2>2. /\ casts' = casts \union {c}
          /\ refcount' = [refcount EXCEPT ![c] = 1]
          /\ target' = [target EXCEPT ![c] = t]
          /\ hooks' = IF casts = {} THEN hooks + 1 ELSE hooks
      BY <2>1 DEF xdpw_screencast_instance_init
    <2>3. HooksBracketCasts'
      BY <2>2 DEF ObjInv, HooksBracketCasts
    <2>4. refcount' = [d \in Casts |-> IF d \in casts' THEN 1 ELSE 0]
      BY <2>2 DEF ObjInv
    <2>5. c # None /\ c \in Casts /\ c \notin casts
      BY PortalAssumption
    <2>6. \A u \in Sessions : instance[u] # c
      BY <2>5 DEF ObjInv
    <2>7. instance' \in [Sessions -> Casts \union {None}]
      BY <2>1 DEF ObjInv
    <2>8. \A u \in Sessions : instance'[u] = IF u = s THEN c ELSE instance[u]
      BY <2>1 DEF ObjInv
    <2>9. \A d \in casts' : \E u \in sessions' : instance'[u] = d
      BY <2>2, <2>8, <1>1, PortalAssumption DEF ObjInv
    <2>10. \A u, v \in Sessions :
             instance'[u] # None /\ instance'[u] = instance'[v] => u = v
      BY <2>6, <2>8 DEF ObjInv
    <2>11. \A u \in Sessions :
             instance'[u] # None => u \in sessions' /\ instance'[u] \in casts'
      BY <2>2, <2>8 DEF ObjInv
    <2> QED
      BY <2>2, <2>3, <2>4, <2>5, <2>7, <2>9, <2>10, <2>11 DEF ObjInv
  <1>2. CASE instance[s] # None
    BY <1>2 DEF attach_target, ObjInv, HooksBracketCasts
  <1> QED
    BY <1>1, <1>2

LEMMA SelectKeepsObjInv ==
  ASSUME ObjInv, RestInv, NEW s \in Sessions,
         NEW t \in Outputs \union Toplevels \union {None}, NEW p \in Persist,
         NEW restored \in BOOLEAN, SelectSources(s, t, p, restored)
  PROVE  ObjInv'
  <1>1. s \in sessions /\ setup_target(s, t, p, restored)
        /\ UNCHANGED <<sessions, initialized, node, failed, told>>
    BY DEF SelectSources
  <1>2. persist' \in [Sessions -> Persist]
    BY <1>1, PortalAssumption DEF setup_target, ObjInv, Persist
  <1>3. CASE t # None
    <2>1. attach_target(s, t)
      BY <1>1, <1>3 DEF setup_target
    <2> QED
      BY <1>1, <1>2, <1>3, <2>1, AttachKeepsObjInv
  <1>4. CASE t = None
    BY <1>1, <1>2, <1>4 DEF setup_target, ObjInv, HooksBracketCasts
  <1> QED
    BY <1>3, <1>4

(* The instances End leaves keep their target.                              *)
LEMMA EndKeepsTargets ==
  ASSUME ObjInv, NEW S, NEW D, NEW quiet, End(S, D, quiet)
  PROVE  /\ casts' = casts \ D
         /\ \A c \in casts' : target'[c] = target[c]
  BY DEF End, ObjInv

(* The actions that leave sessions and instances alone.                     *)
LEMMA QuietStep ==
  ASSUME IInv, UNCHANGED objects, outputs \subseteq outputs', RestInv'
  PROVE  IInv'
  <1>1. ObjInv'
    BY ObjectsUnchanged DEF IInv
  <1>2. MonitorIsThere'
    BY DEF IInv, MonitorIsThere, objects
  <1> QED
    BY <1>1, <1>2 DEF IInv

(* The actions that end sessions or instances and nothing else.             *)
LEMMA EndingStep ==
  ASSUME IInv, UNCHANGED <<world, start>>,
         \/ \E D \in SUBSET casts : xdpw_screencast_instance_destroy(D)
         \/ \E s \in sessions, quiet \in SUBSET Sessions :
              xdpw_session_destroy(s, quiet)
  PROVE  IInv' /\ up' = up
  <1>1. ObjInv' /\ up' = up
    BY InstanceDestroyKeepsObjInv, SessionDestroyKeepsObjInv DEF IInv
  <1>2. /\ casts' \subseteq casts
        /\ \A c \in casts' : target'[c] = target[c]
    BY EndKeepsTargets DEF IInv, xdpw_screencast_instance_destroy,
       xdpw_session_destroy
  <1>3. RestInv'
    BY <1>1 DEF IInv, RestInv, world, start
  <1>4. MonitorIsThere'
    BY <1>2 DEF IInv, MonitorIsThere, world
  <1> QED
    BY <1>1, <1>3, <1>4 DEF IInv

(* A removed output takes every instance that captures it along.            *)
LEMMA OutputRemovedStep ==
  ASSUME IInv, NEW o \in Outputs, wlr_registry_handle_remove(o)
  PROVE  IInv' /\ up' = up
  <1> DEFINE D == {c \in casts : target[c] = o}
  <1>1. /\ xdpw_screencast_instance_destroy(D)
        /\ outputs' = outputs \ {o}
        /\ UNCHANGED <<backend, toplevels, start>>
    BY DEF wlr_registry_handle_remove
  <1>2. D \in SUBSET casts
    OBVIOUS
  <1>3. \A c \in casts \ D : target[c] # o
    OBVIOUS
  <1> HIDE DEF D
  <1>4. ObjInv' /\ up' = up
    BY <1>1, <1>2, InstanceDestroyKeepsObjInv DEF IInv
  <1>5. casts' = casts \ D /\ \A c \in casts' : target'[c] = target[c]
    BY <1>1, EndKeepsTargets DEF IInv, xdpw_screencast_instance_destroy
  <1>6. RestInv'
    BY <1>1, <1>4 DEF IInv, RestInv, start
  <1>7. MonitorIsThere'
    BY <1>1, <1>3, <1>5 DEF IInv, MonitorIsThere
  <1> QED
    BY <1>4, <1>6, <1>7 DEF IInv

LEMMA SelectStep ==
  ASSUME IInv, NEW s \in Sessions,
         NEW t \in Outputs \union Toplevels \union {None}, NEW p \in Persist,
         NEW restored \in BOOLEAN, SelectSources(s, t, p, restored)
  PROVE  IInv' /\ up' = up
  <1>1. ObjInv'
    BY SelectKeepsObjInv DEF IInv
  <1>2. RestInv' /\ up' = up
    BY DEF SelectSources, IInv, RestInv, world, start
  <1>3. \A c \in casts' : \/ c \in casts /\ target'[c] = target[c]
                          \/ target'[c] \in outputs \union toplevels
    BY DEF SelectSources, setup_target, attach_target,
       xdpw_screencast_instance_init, IInv, ObjInv
  <1>4. MonitorIsThere'
    BY <1>3, PortalAssumption
       DEF SelectSources, world, IInv, RestInv, MonitorIsThere
  <1> QED
    BY <1>1, <1>2, <1>4 DEF IInv

(* Only Start, asked for a window the screencopy backend cannot capture,    *)
(* runs into an assertion.                                                  *)
MayAbort == backend = "screencopy" /\ \E c \in casts : target[c] \in Toplevels

LEMMA NextIInv ==
  ASSUME IInv, [Next]_vars
  PROVE  IInv' /\ (up' = "aborted" => up = "aborted" \/ MayAbort')
  <1> USE PortalAssumption
  <1>1. ASSUME NEW s \in Sessions, CreateSession(s) PROVE IInv' /\ up' = up
    BY <1>1 DEF CreateSession, IInv, ObjInv, RestInv, MonitorIsThere,
       HooksBracketCasts, world, start
  <1>2. ASSUME NEW s \in Sessions,
               NEW t \in Outputs \union Toplevels \union {None}, NEW p \in Persist,
               NEW restored \in BOOLEAN, SelectSources(s, t, p, restored)
        PROVE  IInv' /\ up' = up
    BY <1>2, SelectStep
  <1>3. ASSUME NEW s \in Sessions, NEW p \in Persist, SelectSourcesFails(s, p)
        PROVE  IInv' /\ up' = up
    BY <1>3 DEF SelectSourcesFails, IInv, ObjInv, RestInv, MonitorIsThere,
       HooksBracketCasts, world, start
  <1>4. ASSUME NEW s \in Sessions,
               SelectSourcesBadCursor(s) \/ SessionClose(s)
        PROVE  IInv' /\ up' = up
    BY <1>4, EndingStep DEF SelectSourcesBadCursor, SessionClose
  <1>5. ASSUME NEW s \in Sessions,
               SelectSourcesNameless(s) \/ SelectSourcesUnknown(s)
                 \/ StartFreedWindow(s)
        PROVE  IInv' /\ up' = "undefined"
    BY <1>5, QuietStep DEF SelectSourcesNameless, SelectSourcesUnknown,
       StartFreedWindow, StartWindow, world, start, IInv, RestInv
  <1>6. ASSUME NEW s \in Sessions, StartAgain(s) \/ start_screencast(s)
        PROVE  IInv' /\ up' = up
    <2>1. instance[s] \in Casts \union {None}
      BY DEF IInv, ObjInv
    <2>2. RestInv'
      BY <1>6, <2>1 DEF StartAgain, start_screencast, IInv, RestInv, world
    <2> QED
      BY <1>6, <2>2, QuietStep DEF StartAgain, start_screencast, world
  <1>7. ASSUME NEW s \in Sessions, wlr_register_cb_Asserts(s)
        PROVE  IInv' /\ MayAbort'
    <2>1. IInv'
      BY <1>7, QuietStep DEF wlr_register_cb_Asserts, StartWindow, world, start,
         IInv, RestInv
    <2>2. MayAbort'
      BY <1>7 DEF wlr_register_cb_Asserts, StartWindow, MayAbort, IInv, ObjInv,
         objects, world
    <2> QED
      BY <2>1, <2>2
  <1>8. CASE StartInitFails \/ StartWaitFails \/ StartReplies
    BY <1>8, QuietStep DEF StartInitFails, StartWaitFails, StartReplies, StartFinished, world,
       IInv, RestInv
  <1>9. CASE StartInitDone
    BY <1>9 DEF StartInitDone, IInv, ObjInv, RestInv, MonitorIsThere,
       HooksBracketCasts, world, start
  <1>19. ASSUME NEW c \in Casts, UpsideDown(c) PROVE IInv' /\ up' = "undefined"
    BY <1>19, QuietStep DEF UpsideDown, world, start, IInv, RestInv
  <1>10. CASE StartLostItsCast
    BY <1>10, QuietStep DEF StartLostItsCast, world, start, IInv, RestInv
  <1>11. ASSUME NEW c \in Casts, NodeBound(c) \/ StreamError(c)
         PROVE  IInv' /\ up' = up
    BY <1>11 DEF NodeBound, StreamError, IInv, ObjInv, RestInv, MonitorIsThere,
       HooksBracketCasts, world, start
  <1>12. ASSUME NEW c \in Casts, StreamAddBufferFails(c) \/ CaptureEnds(c)
         PROVE  IInv' /\ up' = up
    <2>1. {c} \in SUBSET casts
      BY <1>12 DEF StreamAddBufferFails, CaptureEnds, IInv, ObjInv
    <2>2. xdpw_screencast_instance_destroy({c}) /\ UNCHANGED <<world, start>>
      BY <1>12 DEF StreamAddBufferFails, CaptureEnds
    <2> QED
      BY <2>1, <2>2, EndingStep
  <1>13. ASSUME NEW o \in Outputs, wlr_registry_handle_remove(o)
         PROVE  IInv' /\ up' = up
    BY <1>13, OutputRemovedStep
  <1>14. ASSUME NEW o \in Outputs, wlr_registry_handle_add(o)
         PROVE  IInv' /\ up' = up
    BY <1>14, QuietStep DEF wlr_registry_handle_add, start, IInv, RestInv
  <1>15. ASSUME NEW w \in Toplevels, foreign_toplevel_list_handle_toplevel(w)
         PROVE  IInv' /\ up' = up
    BY <1>15, QuietStep DEF foreign_toplevel_list_handle_toplevel, start, IInv,
       RestInv
  <1>16. ASSUME NEW W, foreign_toplevel_destroy(W) PROVE IInv' /\ up' = up
    BY <1>16, QuietStep DEF foreign_toplevel_destroy, start, IInv, RestInv
  <1>17. CASE DaemonExits \/ on_core_error
    BY <1>17, QuietStep DEF DaemonExits, on_core_error, world, start, IInv,
       RestInv
  <1>18. CASE UNCHANGED vars
    BY <1>18, QuietStep DEF vars, world, start, IInv, RestInv
  <1> QED
    BY <1>1, <1>2, <1>3, <1>4, <1>5, <1>6, <1>7, <1>8, <1>9, <1>10, <1>11,
       <1>12, <1>13, <1>14, <1>15, <1>16, <1>17, <1>18, <1>19
       DEF Next, StartInitFails, StartWaitFails, StartReplies, StartInitDone, StartLostItsCast,
       DaemonExits, on_core_error, vars

(* A daemon that is down takes no step.                                      *)
LEMMA NextNeedsRunning == Next => up = "running"
  BY DEF Next, OnDBus, OnWayland, OnPipeWire, CreateSession, SelectSources,
     SelectSourcesFails, SelectSourcesBadCursor, SelectSourcesNameless,
     SelectSourcesUnknown, SessionClose, StartAgain, start_screencast,
     wlr_register_cb_Asserts, StartFreedWindow, StartWindow, StartInitFails,
     StartInitDone, StartLostItsCast, StartWaitFails, StartReplies, NodeBound,
     StreamError, StreamAddBufferFails, CaptureEnds, UpsideDown,
     wlr_registry_handle_remove, wlr_registry_handle_add,
     foreign_toplevel_list_handle_toplevel, foreign_toplevel_destroy,
     DaemonExits, on_core_error

LEMMA Inductive == Spec => []IInv
  BY InitIInv, NextIInv, PTL DEF Spec

-----------------------------------------------------------------------------

(* The state of the portal is well typed.                                   *)
THEOREM TypeCorrect == Spec => []TypeOK
  <1>1. IInv => TypeOK
    BY DEF IInv, ObjInv, RestInv, TypeOK, HooksBracketCasts
  <1> QED
    BY <1>1, Inductive, PTL

(* Every instance is counted by the sessions that refer to it.              *)
THEOREM RefcountsAreExact == Spec => []RefcountExact
  <1>1. IInv => RefcountExact
    <2> SUFFICES ASSUME IInv, NEW c \in Casts
                 PROVE  refcount[c] = Cardinality(Users(c))
      BY DEF RefcountExact
    <2>1. Cardinality(Users(c)) = IF \E s \in sessions : instance[s] = c
                                  THEN 1 ELSE 0
      BY DroppedOnce DEF IInv, Users
    <2>2. (\E s \in sessions : instance[s] = c) <=> c \in casts
      BY PortalAssumption DEF IInv, ObjInv
    <2> QED
      BY <2>1, <2>2 DEF IInv, ObjInv
  <1> QED
    BY <1>1, Inductive, PTL

(* An instance is in the list exactly while a session refers to it.         *)
THEOREM NoCastDanglesOrLeaks == Spec => []CastsAreUsed
  <1>1. IInv => CastsAreUsed
    BY PortalAssumption DEF IInv, ObjInv, CastsAreUsed
  <1> QED
    BY <1>1, Inductive, PTL

(* exec_before and exec_after bracket the time in which an instance exists. *)
THEOREM HooksBracket == Spec => []HooksBracketCasts
  BY Inductive, PTL DEF IInv, ObjInv

(* A captured monitor is there.                                             *)
THEOREM CapturedMonitorIsThere == Spec => []MonitorIsThere
  BY Inductive, PTL DEF IInv

(* No assertion on a reference count fails, and the assertion on the kind   *)
(* of target fails only where a window meets wlr-screencopy.                *)
THEOREM AssertionsHold == Spec => []AbortsOnlyForWindow
  <1>1. Init => AbortsOnlyForWindow
    BY DEF Init, AbortsOnlyForWindow
  <1>2. IInv /\ AbortsOnlyForWindow /\ [Next]_vars => AbortsOnlyForWindow'
    <2> SUFFICES ASSUME IInv, AbortsOnlyForWindow, [Next]_vars, up' = "aborted"
                 PROVE  AbortsOnlyForWindow'
      BY DEF AbortsOnlyForWindow
    <2>1. CASE up = "aborted"
      <3>1. UNCHANGED vars
        BY <2>1, NextNeedsRunning
      <3> QED
        BY <2>1, <3>1 DEF AbortsOnlyForWindow, vars, objects, world
    <2>2. CASE up # "aborted"
      BY <2>2, NextIInv DEF AbortsOnlyForWindow, MayAbort
    <2> QED
      BY <2>1, <2>2
  <1> QED
    BY <1>1, <1>2, Inductive, PTL DEF Spec

(* An instance serves one session and one target for as long as it exists.  *)
LEMMA HandsStep ==
  ASSUME IInv, IInv', [Next]_vars, NEW c \in casts \intersect casts'
  PROVE  target'[c] = target[c] /\ {s \in sessions' : instance'[s] = c} = Users(c)
  <1> USE PortalAssumption
  <1> DEFINE Kept == target'[c] = target[c]
                     /\ {s \in sessions' : instance'[s] = c} = Users(c)
  <1>1. CASE UNCHANGED <<sessions, instance, target>>
    BY <1>1 DEF Users
  <1>2. ASSUME NEW s \in Sessions, CreateSession(s) PROVE Kept
    BY <1>2 DEF CreateSession, IInv, ObjInv, Users
  <1>3. ASSUME NEW s \in Sessions,
               NEW t \in Outputs \union Toplevels \union {None}, NEW p \in Persist,
               NEW restored \in BOOLEAN, SelectSources(s, t, p, restored)
        PROVE  Kept
    <2>1. CASE UNCHANGED <<instance, target>>
      BY <1>3, <2>1 DEF SelectSources, Users
    <2>2. CASE instance[s] = None /\ \E d \in Casts \ casts :
                 /\ target' = [target EXCEPT ![d] = t]
                 /\ instance' = [instance EXCEPT ![s] = d]
      BY <1>3, <2>2 DEF SelectSources, Users, IInv, ObjInv
    <2> QED
      BY <1>3, <2>1, <2>2 DEF SelectSources, setup_target, attach_target,
         xdpw_screencast_instance_init
  <1>4. ASSUME NEW S \in SUBSET sessions, NEW D \in SUBSET casts, NEW quiet,
               \A s \in S : instance[s] \in D \union {None}, End(S, D, quiet)
        PROVE  Kept
    <2>1. /\ sessions' = sessions \ S /\ casts' = casts \ D
          /\ instance' = [s \in Sessions |-> IF s \in S THEN None ELSE instance[s]]
          /\ target' = [d \in Casts |-> IF d \in D THEN None ELSE target[d]]
      BY <1>4 DEF End
    <2> QED
      BY <1>4, <2>1 DEF IInv, ObjInv, Users
  <1>5. ASSUME NEW D \in SUBSET casts, xdpw_screencast_instance_destroy(D)
        PROVE  Kept
    <2> DEFINE S == UNION {Users(d) : d \in D}
    <2>1. S \in SUBSET sessions /\ \A s \in S : instance[s] \in D
      BY DEF Users
    <2>2. End(S, D, {})
      BY <1>5 DEF xdpw_screencast_instance_destroy
    <2> HIDE DEF S, Kept
    <2> QED
      BY <2>1, <2>2, <1>4
  <1>6. ASSUME NEW s \in sessions, NEW quiet, xdpw_session_destroy(s, quiet)
        PROVE  Kept
    <2>1. CASE instance[s] = None
      <3>1. End({s}, {}, quiet)
        BY <1>6, <2>1 DEF xdpw_session_destroy
      <3> HIDE DEF Kept
      <3> QED
        BY <2>1, <3>1, <1>4
    <2>2. CASE instance[s] # None
      <3> DEFINE d == instance[s]
      <3>1. d \in casts /\ refcount[d] = 1
        BY <2>2 DEF IInv, ObjInv
      <3>2. End(Users(d), {d}, quiet)
        BY <1>6, <2>2, <3>1 DEF xdpw_session_destroy
      <3>3. Users(d) \in SUBSET sessions /\ \A u \in Users(d) : instance[u] \in {d}
        BY DEF Users
      <3> HIDE DEF d, Kept
      <3> QED
        BY <3>1, <3>2, <3>3, <1>4
    <2> QED
      BY <2>1, <2>2
  <1> HIDE DEF Kept
  <1>7. ASSUME NEW s \in Sessions, SelectSourcesBadCursor(s) \/ SessionClose(s)
        PROVE  Kept
    BY <1>7, <1>6 DEF SelectSourcesBadCursor, SessionClose
  <1>8. ASSUME NEW d \in Casts, StreamAddBufferFails(d) \/ CaptureEnds(d)
        PROVE  Kept
    <2>1. {d} \in SUBSET casts
      BY <1>8 DEF StreamAddBufferFails, CaptureEnds, IInv, ObjInv
    <2> QED
      BY <1>8, <2>1, <1>5 DEF StreamAddBufferFails, CaptureEnds
  <1>9. ASSUME NEW o \in Outputs, wlr_registry_handle_remove(o) PROVE Kept
    <2>1. {d \in casts : target[d] = o} \in SUBSET casts
      OBVIOUS
    <2> QED
      BY <1>9, <2>1, <1>5 DEF wlr_registry_handle_remove
  <1>10. Kept
    BY <1>1, <1>2, <1>3, <1>7, <1>8, <1>9 DEF Next, vars, objects, Kept,
       SelectSourcesFails, SelectSourcesNameless, SelectSourcesUnknown,
       StartAgain, start_screencast, wlr_register_cb_Asserts, StartFreedWindow,
       StartWindow, StartInitFails, StartInitDone, StartLostItsCast,
       StartWaitFails, StartReplies, NodeBound, StreamError, UpsideDown, wlr_registry_handle_add,
       foreign_toplevel_list_handle_toplevel, foreign_toplevel_destroy,
       DaemonExits, on_core_error
  <1> QED
    BY <1>10 DEF Kept

(* An instance is never handed to another session or target.                *)
THEOREM InstancesAreNotShared == Spec => CastsNeverChangeHands
  <1>1. IInv /\ IInv' /\ [Next]_vars
        => [\A c \in casts \intersect casts' :
              /\ target'[c] = target[c]
              /\ {s \in sessions' : instance'[s] = c} = Users(c)]_vars
    BY HandsStep
  <1> QED
    BY <1>1, Inductive, PTL DEF Spec, CastsNeverChangeHands

(* While Start is in a nested loop no handler creates an instance, and what *)
(* they destroy they take away from the session as well.                    *)
LEMMA StartStep ==
  ASSUME IInv, IInv', StartKeepsItsCast, [Next]_vars
  PROVE  StartKeepsItsCast'
  <1> SUFFICES ASSUME up' = "running", pc' # "idle", startCast' \in casts'
               PROVE  /\ startSession' \in sessions'
                      /\ instance'[startSession'] = startCast'
                      /\ pc' = "wait" => startCast' \in initialized'
    BY DEF StartKeepsItsCast
  <1> USE DEF OnDBus, OnWayland, OnPipeWire
  <1>1. CASE \E s \in Sessions : StartAgain(s) \/ start_screencast(s)
    <2>1. PICK s \in Sessions : StartAgain(s) \/ start_screencast(s)
      BY <1>1
    <2>2. instance[s] # None
      BY <2>1, PortalAssumption DEF StartAgain, start_screencast, IInv, ObjInv
    <2> QED
      BY <2>1, <2>2 DEF StartAgain, start_screencast, IInv, ObjInv, objects
  <1>2. CASE /\ pc # "idle" /\ up = "running"
             /\ UNCHANGED <<startSession, startCast>>
             /\ casts' \subseteq casts
             /\ pc' = "wait" => pc = "wait" \/ startCast \in initialized'
             /\ startCast \in initialized => startCast \in initialized'
    <2>1. /\ startSession \in Users(startCast)
          /\ startCast \in casts \intersect casts'
          /\ pc' = "wait" => startCast \in initialized'
      BY <1>2 DEF StartKeepsItsCast, Users
    <2>2. startSession \in {s \in sessions' : instance'[s] = startCast}
      BY <2>1, HandsStep
    <2> QED
      BY <1>2, <2>1, <2>2
  <1>3. ASSUME NEW D \in SUBSET casts, xdpw_screencast_instance_destroy(D),
               UNCHANGED start
        PROVE  /\ casts' = casts \ D
               /\ startCast \in initialized => startCast \in initialized'
    BY <1>3 DEF xdpw_screencast_instance_destroy, End, xdpw_pwr_stream_destroy,
       start
  <1>4. ASSUME NEW c \in Casts, StreamAddBufferFails(c) \/ CaptureEnds(c),
               pc # "idle"
        PROVE  /\ pc' = pc /\ UNCHANGED <<startSession, startCast>>
               /\ casts' \subseteq casts
               /\ startCast \in initialized => startCast \in initialized'
    <2>1. {c} \in SUBSET casts /\ xdpw_screencast_instance_destroy({c})
          /\ UNCHANGED start
      BY <1>4 DEF StreamAddBufferFails, CaptureEnds, IInv, ObjInv
    <2> QED
      BY <1>3, <2>1 DEF start
  <1>5. ASSUME NEW o \in Outputs, wlr_registry_handle_remove(o), pc # "idle"
        PROVE  /\ pc' = pc /\ UNCHANGED <<startSession, startCast>>
               /\ casts' \subseteq casts
               /\ startCast \in initialized => startCast \in initialized'
    <2> DEFINE D == {c \in casts : target[c] = o}
    <2>1. D \in SUBSET casts /\ xdpw_screencast_instance_destroy(D)
          /\ UNCHANGED start
      BY <1>5 DEF wlr_registry_handle_remove
    <2> HIDE DEF D
    <2> QED
      BY <1>3, <2>1 DEF start
  <1>6. CASE pc = "idle" /\ ~ \E s \in Sessions : StartAgain(s) \/ start_screencast(s)
    <2>1. pc' = "idle"
      BY <1>6 DEF Next, vars, start, StartFinished, CreateSession, SelectSources,
         SelectSourcesFails, SelectSourcesBadCursor, SelectSourcesNameless,
         SelectSourcesUnknown, SessionClose, wlr_register_cb_Asserts,
         StartFreedWindow, StartWindow, StartInitFails, StartInitDone,
         StartLostItsCast, StartWaitFails, StartReplies, NodeBound, StreamError,
         StreamAddBufferFails, CaptureEnds, UpsideDown,
         wlr_registry_handle_remove, wlr_registry_handle_add,
         foreign_toplevel_list_handle_toplevel, foreign_toplevel_destroy,
         DaemonExits, on_core_error
    <2> QED
      BY <2>1
  <1>7. CASE pc # "idle"
    <2>1. /\ UNCHANGED <<startSession, startCast>>
          /\ casts' \subseteq casts
          /\ pc' = "wait" => pc = "wait" \/ startCast \in initialized'
          /\ startCast \in initialized => startCast \in initialized'
      BY <1>4, <1>5, <1>7 DEF Next, vars, objects, start, StartFinished,
         CreateSession, SelectSources, SelectSourcesFails,
         SelectSourcesBadCursor, SelectSourcesNameless, SelectSourcesUnknown,
         SessionClose, StartAgain, start_screencast, wlr_register_cb_Asserts,
         StartFreedWindow, StartWindow, StartInitFails, StartInitDone,
         StartLostItsCast, StartWaitFails, StartReplies, NodeBound, StreamError,
         UpsideDown, wlr_registry_handle_add,
         foreign_toplevel_list_handle_toplevel, foreign_toplevel_destroy,
         DaemonExits, on_core_error
    <2>2. up = "running"
      BY NextNeedsRunning DEF vars
    <2> QED
      BY <1>2, <1>7, <2>1, <2>2
  <1> QED
    BY <1>1, <1>6, <1>7

(* The instance Start goes on with after its nested loops is gone, or is    *)
(* the one it looked up: never another that took its place.                 *)
THEOREM StartIsNotMisled == Spec => []StartKeepsItsCast
  <1>1. Init => StartKeepsItsCast
    BY DEF Init, StartKeepsItsCast
  <1> QED
    BY <1>1, StartStep, Inductive, PTL DEF Spec

-----------------------------------------------------------------------------

(* How far a session got, from the state of the portal.                     *)
LEMMA PhaseIs ==
  ASSUME IInv
  PROVE  \A s \in Sessions :
           Phase(s) = IF s \notin sessions THEN "none"
                      ELSE IF instance[s] = None THEN "created"
                      ELSE IF instance[s] \in initialized THEN "started"
                      ELSE "selected"
  <1> SUFFICES ASSUME NEW s \in Sessions
               PROVE  Phase(s) = IF s \notin sessions THEN "none"
                                 ELSE IF instance[s] = None THEN "created"
                                 ELSE IF instance[s] \in initialized THEN "started"
                                 ELSE "selected"
    OBVIOUS
  <1>1. /\ instance[s] # None => instance[s] \in casts
        /\ initialized \in SUBSET casts /\ None \notin casts
    BY PortalAssumption DEF IInv, ObjInv
  <1>2. CASE s \notin sessions
    BY <1>2 DEF Phase
  <1>3. CASE s \in sessions /\ instance[s] = None
    BY <1>1, <1>3 DEF Phase
  <1>4. CASE s \in sessions /\ instance[s] # None /\ instance[s] \in initialized
    BY <1>1, <1>4 DEF Phase
  <1>5. CASE s \in sessions /\ instance[s] # None /\ instance[s] \notin initialized
    BY <1>1, <1>5 DEF Phase
  <1> QED
    BY <1>2, <1>3, <1>4, <1>5

(* The hooks are open exactly while some session has a source.              *)
LEMMA BracketIs ==
  ASSUME IInv
  PROVE  (hooks > 0) = \E s \in Sessions : Phase(s) \in {"selected", "started"}
  <1>1. (hooks > 0) = (casts # {})
    BY DEF IInv, ObjInv, HooksBracketCasts
  <1>2. casts # {} <=> \E s \in Sessions : s \in sessions /\ instance[s] # None
    BY PortalAssumption DEF IInv, ObjInv
  <1>3. \A s \in Sessions : Phase(s) \in {"selected", "started"}
                            <=> s \in sessions /\ instance[s] # None
    BY PhaseIs
  <1> QED
    BY <1>1, <1>2, <1>3

LEMMA PhaseIsNext ==
  ASSUME IInv'
  PROVE  /\ \A s \in Sessions :
              Phase(s)' = IF s \notin sessions' THEN "none"
                          ELSE IF instance'[s] = None THEN "created"
                          ELSE IF instance'[s] \in initialized' THEN "started"
                          ELSE "selected"
         /\ (hooks' > 0) = \E s \in Sessions : Phase(s)' \in {"selected", "started"}
  <1>1. (IInv => \A s \in Sessions :
           Phase(s) = IF s \notin sessions THEN "none"
                      ELSE IF instance[s] = None THEN "created"
                      ELSE IF instance[s] \in initialized THEN "started"
                      ELSE "selected")'
    BY PhaseIs, PTL
  <1>2. (IInv => (hooks > 0)
           = \E s \in Sessions : Phase(s) \in {"selected", "started"})'
    BY BracketIs, PTL
  <1> QED
    BY <1>1, <1>2

LEMMA ContractStutter ==
  ASSUME IInv, IInv', UNCHANGED <<sessions, instance, initialized, hooks, told>>
  PROVE  UNCHANGED Contract!vars
  <1>1. \A s \in Sessions : Phase(s)' = Phase(s)
    BY PhaseIs, PhaseIsNext
  <1> QED
    BY <1>1 DEF Contract!vars

LEMMA ContractMove ==
  ASSUME IInv, IInv', NEW s \in Sessions, NEW from, NEW to,
         Phase(s) = from, Phase(s)' = to,
         \A u \in Sessions \ {s} : Phase(u)' = Phase(u)
  PROVE  Contract!Move(s, from, to)
  <1>1. (hooks' > 0) = \E u \in Sessions : Phase(u)' \in {"selected", "started"}
    BY PhaseIsNext
  <1> QED
    BY <1>1 DEF Contract!Move, Contract!Bracketed, Contract!HasSource

(* The sessions End ends are lost, or closed, for the contract.             *)
LEMMA ContractEnd ==
  ASSUME IInv, IInv', NEW S \in SUBSET sessions, NEW D \in SUBSET casts, NEW quiet,
         End(S, D, quiet), \A s \in S : instance[s] \in D \union {None},
         \A s \in sessions : instance[s] \in D => s \in S
  PROVE  /\ told' = told \union (S \ quiet)
         /\ \A s \in S : Phase(s) # "none" /\ Phase(s)' = "none"
         /\ \A s \in S : instance[s] # None => Phase(s) \in {"selected", "started"}
         /\ \A s \in Sessions \ S : Phase(s)' = Phase(s)
         /\ (hooks' > 0) = \E u \in Sessions : Phase(u)' \in {"selected", "started"}
  <1>1. /\ sessions' = sessions \ S
        /\ instance' = [s \in Sessions |-> IF s \in S THEN None ELSE instance[s]]
        /\ initialized' = initialized \ D
        /\ told' = told \union (S \ quiet)
    BY DEF End, EmitClosed, xdpw_pwr_stream_destroy
  <1>2. \A s \in S : Phase(s) # "none" /\ Phase(s)' = "none"
    BY <1>1, PhaseIs, PhaseIsNext DEF IInv, ObjInv
  <1>3. \A s \in S : instance[s] # None => Phase(s) \in {"selected", "started"}
    BY PhaseIs DEF IInv, ObjInv
  <1>4. ASSUME NEW s \in Sessions \ S PROVE Phase(s)' = Phase(s)
    <2>1. CASE s \notin sessions
      BY <1>1, <2>1, PhaseIs, PhaseIsNext
    <2>2. CASE s \in sessions
      <3>1. /\ s \in sessions' /\ instance'[s] = instance[s]
            /\ instance[s] \notin D
        BY <1>1, <2>2 DEF IInv, ObjInv
      <3> QED
        BY <1>1, <2>2, <3>1, PhaseIs, PhaseIsNext
    <2> QED
      BY <2>1, <2>2
  <1> QED
    BY <1>1, <1>2, <1>3, <1>4, PhaseIsNext

LEMMA ContractInstanceDestroy ==
  ASSUME IInv, IInv', NEW D \in SUBSET casts, xdpw_screencast_instance_destroy(D)
  PROVE  [Contract!Next]_(Contract!vars)
  <1> DEFINE S == UNION {Users(c) : c \in D}
  <1>1. /\ S \in SUBSET sessions
        /\ \A s \in sessions : instance[s] \in D => s \in S
        /\ \A s \in S : instance[s] \in D /\ instance[s] # None
    BY PortalAssumption DEF Users, IInv, ObjInv
  <1>2. End(S, D, {})
    BY DEF xdpw_screencast_instance_destroy
  <1> HIDE DEF S
  <1>3. /\ told' = told \union S
        /\ \A s \in S : /\ Phase(s) # "none" /\ Phase(s)' = "none"
                        /\ Phase(s) \in {"selected", "started"}
        /\ \A s \in Sessions \ S : Phase(s)' = Phase(s)
        /\ (hooks' > 0) = \E u \in Sessions : Phase(u)' \in {"selected", "started"}
    <2>1. \A s \in S : instance[s] \in D \union {None}
      BY <1>1
    <2>2. /\ told' = told \union (S \ {})
          /\ \A s \in S : Phase(s) # "none" /\ Phase(s)' = "none"
          /\ \A s \in S : instance[s] # None => Phase(s) \in {"selected", "started"}
          /\ \A s \in Sessions \ S : Phase(s)' = Phase(s)
          /\ (hooks' > 0) = \E u \in Sessions : Phase(u)' \in {"selected", "started"}
      BY <1>1, <1>2, <2>1, ContractEnd
    <2> QED
      BY <1>1, <2>2
  <1>4. S \in SUBSET Sessions
    BY <1>1 DEF IInv, ObjInv
  <1>5. CASE S = {}
    <2>1. \A s \in Sessions : Phase(s)' = Phase(s)
      BY <1>3, <1>5
    <2>2. (hooks > 0) = \E u \in Sessions : Phase(u) \in {"selected", "started"}
      BY BracketIs
    <2>3. (hooks' > 0) = (hooks > 0)
      BY <1>3, <2>1, <2>2
    <2> QED
      BY <1>3, <1>5, <2>1, <2>3 DEF Contract!vars
  <1>6. CASE S # {}
    <2>1. Contract!Lose(S)
      BY <1>3, <1>4, <1>6 DEF Contract!Lose, Contract!Bracketed, Contract!HasSource
    <2> QED
      BY <1>4, <2>1 DEF Contract!Next
  <1> QED
    BY <1>5, <1>6

(* One session ends: by its own Close, or refused.                          *)
LEMMA ContractSessionDestroy ==
  ASSUME IInv, IInv', NEW s \in sessions, NEW quiet \in {{}, {s}},
         xdpw_session_destroy(s, quiet)
  PROVE  Contract!Next
  <1>1. s \in Sessions /\ \A u \in sessions :
          instance[s] # None /\ instance[u] = instance[s] => u = s
    BY DEF IInv, ObjInv
  <1>2. PICK D \in SUBSET casts :
          /\ End({s}, D, quiet)
          /\ instance[s] \in D \union {None}
          /\ \A u \in sessions : instance[u] \in D => u \in {s}
    <2>1. CASE instance[s] = None
      BY <2>1 DEF xdpw_session_destroy
    <2>2. CASE instance[s] # None
      <3>1. instance[s] \in casts /\ refcount[instance[s]] = 1
        BY <2>2 DEF IInv, ObjInv
      <3>2. Users(instance[s]) = {s}
        BY <1>1, <2>2 DEF Users
      <3>3. End({s}, {instance[s]}, quiet)
        BY <2>2, <3>1, <3>2 DEF xdpw_session_destroy
      <3> QED
        BY <1>1, <2>2, <3>1, <3>3
    <2> QED
      BY <2>1, <2>2
  <1>3. /\ told' = told \union ({s} \ quiet)
        /\ Phase(s) # "none" /\ Phase(s)' = "none"
        /\ \A u \in Sessions \ {s} : Phase(u)' = Phase(u)
        /\ (hooks' > 0) = \E u \in Sessions : Phase(u)' \in {"selected", "started"}
    <2> DEFINE S == {s}
    <2>1. /\ S \in SUBSET sessions
          /\ End(S, D, quiet)
          /\ \A u \in S : instance[u] \in D \union {None}
          /\ \A u \in sessions : instance[u] \in D => u \in S
      BY <1>2
    <2>2. S = {s}
      OBVIOUS
    <2> HIDE DEF S
    <2>3. /\ told' = told \union (S \ quiet)
          /\ \A u \in S : Phase(u) # "none" /\ Phase(u)' = "none"
          /\ \A u \in Sessions \ S : Phase(u)' = Phase(u)
          /\ (hooks' > 0) = \E u \in Sessions : Phase(u)' \in {"selected", "started"}
      BY <2>1, ContractEnd
    <2> QED
      BY <2>2, <2>3
  <1>4. CASE quiet = {s}
    <2>1. Contract!Move(s, Phase(s), "none")
      BY <1>1, <1>3, ContractMove
    <2>2. told' = told
      BY <1>3, <1>4
    <2>3. Contract!Close(s)
      BY <1>1, <1>3, <2>1, <2>2 DEF Contract!Close
    <2> QED
      BY <1>1, <2>3 DEF Contract!Next
  <1>5. CASE quiet = {}
    <2>1. Contract!Lose({s})
      BY <1>1, <1>3, <1>5 DEF Contract!Lose, Contract!Bracketed, Contract!HasSource
    <2> QED
      BY <1>1, <2>1 DEF Contract!Next
  <1> QED
    BY <1>4, <1>5

LEMMA ContractSelect ==
  ASSUME IInv, IInv', NEW s \in Sessions,
         NEW t \in Outputs \union Toplevels \union {None}, NEW p \in Persist,
         NEW restored \in BOOLEAN, SelectSources(s, t, p, restored)
  PROVE  [Contract!Next]_(Contract!vars)
  <1>1. s \in sessions /\ UNCHANGED <<sessions, initialized, told>>
    BY DEF SelectSources
  <1>2. CASE UNCHANGED <<instance, hooks>>
    BY <1>1, <1>2, ContractStutter
  <1>3. CASE instance[s] = None /\ \E c \in Casts \ casts :
               instance' = [instance EXCEPT ![s] = c]
    <2>1. PICK c \in Casts \ casts : instance' = [instance EXCEPT ![s] = c]
      BY <1>3
    <2>2. c # None /\ c \notin initialized
      BY PortalAssumption DEF IInv, ObjInv
    <2>3. \A u \in Sessions : instance'[u] = IF u = s THEN c ELSE instance[u]
      BY <2>1 DEF IInv, ObjInv
    <2>4. Phase(s) = "created" /\ Phase(s)' = "selected"
      BY <1>1, <1>3, <2>2, <2>3, PhaseIs, PhaseIsNext
    <2>5. \A u \in Sessions \ {s} : Phase(u)' = Phase(u)
      BY <1>1, <2>3, PhaseIs, PhaseIsNext
    <2>6. Contract!Move(s, "created", "selected")
      BY <2>4, <2>5, ContractMove
    <2> QED
      BY <1>1, <2>6 DEF Contract!Next, Contract!Select
  <1> QED
    BY <1>2, <1>3 DEF SelectSources, setup_target, attach_target,
       xdpw_screencast_instance_init

(* Every step of the portal is a step of the contract, or none.             *)
LEMMA ContractStep ==
  ASSUME IInv, IInv', [Next]_vars
  PROVE  [Contract!Next]_(Contract!vars)
  <1> DEFINE Kept == [Contract!Next]_(Contract!vars)
  <1>1. ASSUME UNCHANGED <<sessions, instance, initialized, hooks, told>>
        PROVE  Kept
    BY <1>1, ContractStutter
  <1>2. ASSUME NEW s \in Sessions, CreateSession(s) PROVE Kept
    <2>1. /\ s \notin sessions /\ sessions' = sessions \union {s}
          /\ instance[s] = None /\ UNCHANGED <<instance, initialized>>
          /\ told' = told \ {s}
      BY <1>2 DEF CreateSession, IInv, ObjInv
    <2>2. Phase(s) = "none" /\ Phase(s)' = "created"
      BY <2>1, PhaseIs, PhaseIsNext
    <2>3. \A u \in Sessions \ {s} : Phase(u)' = Phase(u)
      BY <2>1, PhaseIs, PhaseIsNext
    <2>4. Contract!Move(s, "none", "created")
      BY <2>2, <2>3, ContractMove
    <2> QED
      BY <2>1, <2>4 DEF Contract!Next, Contract!Create
  <1>3. ASSUME NEW s \in Sessions,
               NEW t \in Outputs \union Toplevels \union {None}, NEW p \in Persist,
               NEW restored \in BOOLEAN, SelectSources(s, t, p, restored)
        PROVE  Kept
    BY <1>3, ContractSelect
  <1>4. ASSUME StartInitDone PROVE Kept
    <2>1. /\ startCast \in casts /\ initialized' = initialized \union {startCast}
          /\ UNCHANGED <<sessions, instance, hooks, told>>
      BY <1>4 DEF StartInitDone
    <2>2. CASE startCast \in initialized
      <3>1. initialized' = initialized
        BY <2>1, <2>2
      <3> QED
        BY <2>1, <3>1, ContractStutter
    <2>3. CASE startCast \notin initialized
      <3>1. PICK s \in sessions : instance[s] = startCast
        BY <2>1 DEF IInv, ObjInv
      <3>2. /\ s \in Sessions /\ instance[s] # None
            /\ \A u \in Sessions \ {s} :
                 instance[u] # None => instance[u] # startCast
        BY <2>1, <3>1, PortalAssumption DEF IInv, ObjInv
      <3>3. Phase(s) = "selected" /\ Phase(s)' = "started"
        BY <2>1, <2>3, <3>1, <3>2, PhaseIs, PhaseIsNext
      <3>4. \A u \in Sessions \ {s} : Phase(u)' = Phase(u)
        BY <2>1, <3>2, PhaseIs, PhaseIsNext
      <3>5. Contract!Move(s, "selected", "started")
        BY <3>2, <3>3, <3>4, ContractMove
      <3> QED
        BY <2>1, <3>2, <3>5 DEF Contract!Next, Contract!Start
    <2> QED
      BY <2>2, <2>3
  <1>5. ASSUME NEW s \in Sessions, SelectSourcesBadCursor(s) \/ SessionClose(s)
        PROVE  Kept
    <2>1. s \in sessions /\ \E quiet \in {{}, {s}} : xdpw_session_destroy(s, quiet)
      BY <1>5 DEF SelectSourcesBadCursor, SessionClose
    <2> QED
      BY <2>1, ContractSessionDestroy
  <1>6. ASSUME NEW c \in Casts, StreamAddBufferFails(c) \/ CaptureEnds(c)
        PROVE  Kept
    <2>1. {c} \in SUBSET casts /\ xdpw_screencast_instance_destroy({c})
      BY <1>6 DEF StreamAddBufferFails, CaptureEnds, IInv, ObjInv
    <2> QED
      BY <2>1, ContractInstanceDestroy
  <1>7. ASSUME NEW o \in Outputs, wlr_registry_handle_remove(o) PROVE Kept
    <2> DEFINE D == {c \in casts : target[c] = o}
    <2>1. D \in SUBSET casts /\ xdpw_screencast_instance_destroy(D)
      BY <1>7 DEF wlr_registry_handle_remove
    <2> HIDE DEF D
    <2> QED
      BY <2>1, ContractInstanceDestroy
  <1> HIDE DEF Kept
  <1>8. Kept
    BY <1>1, <1>2, <1>3, <1>4, <1>5, <1>6, <1>7 DEF Next, vars, objects,
       SelectSourcesFails, SelectSourcesNameless, SelectSourcesUnknown,
       StartAgain, start_screencast, wlr_register_cb_Asserts, StartFreedWindow,
       StartWindow, StartInitFails, StartLostItsCast, StartWaitFails, StartReplies,
       UpsideDown, NodeBound,
       StreamError, wlr_registry_handle_add,
       foreign_toplevel_list_handle_toplevel, foreign_toplevel_destroy,
       DaemonExits, on_core_error
  <1> QED
    BY <1>8 DEF Kept

(* The portal keeps the contract of its sessions: its initial states and    *)
(* its steps are the contract's.                                            *)
THEOREM PortalRefinesContract == Spec => ImplementsSessionContract
  <1>1. Init => Contract!Init
    <2>1. Init => \A s \in Sessions : Phase(s) = "none"
      BY InitIInv, PhaseIs DEF Init
    <2> QED
      BY <2>1 DEF Init, Contract!Init
  <1>2. IInv /\ IInv' /\ [Next]_vars => [Contract!Next]_(Contract!vars)
    BY ContractStep
  <1> QED
    BY <1>1, <1>2, Inductive, PTL DEF Spec, ImplementsSessionContract, Contract!Spec
=============================================================================
