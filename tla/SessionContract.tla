--------------------------- MODULE SessionContract ---------------------------
(***************************************************************************)
(* What xdg-desktop-portal-wlr promises the portal frontend and the user   *)
(* about screencast sessions, with no mention of instances, references,    *)
(* outputs or streams.  A session is created, gets a source, is started,   *)
(* and ends.  When it ends other than by its own Close, the frontend is    *)
(* told; one event may end several sessions.  The commands exec_before and *)
(* exec_after bracket exactly the time in which some session has a source. *)
(***************************************************************************)
CONSTANT Sessions      \* session object paths

VARIABLES phase,       \* how far each session got
          told,        \* the paths Closed was emitted for since they were created
          bracket      \* exec_before ran, exec_after did not yet

vars == <<phase, told, bracket>>

HasSource == {"selected", "started"}

Bracketed(f) == \E s \in Sessions : f[s] \in HasSource

Init == /\ phase = [s \in Sessions |-> "none"]
        /\ told = {}
        /\ bracket = FALSE

Move(s, from, to) == /\ phase[s] = from
                     /\ phase' = [phase EXCEPT ![s] = to]
                     /\ bracket' = Bracketed(phase')

Create(s) == Move(s, "none", "created") /\ told' = told \ {s}

Select(s) == Move(s, "created", "selected") /\ UNCHANGED told

Start(s) == Move(s, "selected", "started") /\ UNCHANGED told

Close(s) == /\ phase[s] # "none"
            /\ Move(s, phase[s], "none")
            /\ UNCHANGED told

\* Sessions the daemon ends: one it refuses, or those that lose their source.
Lose(S) == /\ S # {}
           /\ \A s \in S : phase[s] # "none"
           /\ \/ \E s \in S : S = {s}
              \/ \A s \in S : phase[s] \in HasSource
           /\ phase' = [s \in Sessions |-> IF s \in S THEN "none" ELSE phase[s]]
           /\ told' = told \union S
           /\ bracket' = Bracketed(phase')

Next == \/ \E s \in Sessions : Create(s) \/ Select(s) \/ Start(s) \/ Close(s)
        \/ \E S \in SUBSET Sessions : Lose(S)

Spec == Init /\ [][Next]_vars
=============================================================================
