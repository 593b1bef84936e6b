------------------------------- MODULE Chooser -------------------------------
(***************************************************************************)
(* One call of xdpw_wlr_target_chooser (chooser.c): a child asks the user   *)
(* what to share.  The daemon writes the labels into the child's input,     *)
(* closes it, waits for the child to end, and reads its answer only then;   *)
(* both pipes hold a limited amount.  With chooser_type = default a chooser *)
(* that is not there makes it try the next of the list.                     *)
(*                                                                         *)
(* Data abstracted: a label is one unit of a pipe, and an answer some       *)
(* units; its first line names an output, a toplevel or neither, and is in  *)
(* the first unit; labels are distinct.  A process that the child leaves    *)
(* behind says nothing, but has the pipe open for writing.  While the call  *)
(* lasts no event of the compositor is read, so the lists do not change.    *)
(***************************************************************************)
EXTENDS Integers, Sequences, FiniteSets

CONSTANTS Outputs,          \* ctx->output_list
          Toplevels,        \* ctx->toplevels
          None,             \* NULL
          Junk,             \* a line that is no label
          default_chooser,  \* the types of the built-in list, in order
          Configs,          \* chooser_type, and whether chooser_cmd (for
                            \* none: output_name) is given
          Masks,            \* type_mask
          Sigpipes,         \* SIGPIPE as the daemon's parent left it
          Sigchlds,         \* SIGCHLD likewise
          Capacity,         \* units a pipe holds
          MaxAnswer         \* bound on the units of an answer

Types == {"simple", "dmenu"}

(* A child reads its input to the end before it asks, or not at all; it     *)
(* exits with 127 or otherwise, or is killed; its answer has a first line;  *)
(* and it may leave a process behind that has inherited its output.         *)
Natures == [reads : BOOLEAN, status : {"exited", "missing", "signalled"},
            line : Outputs \union Toplevels \union {Junk}, size : 0..MaxAnswer,
            forks : BOOLEAN]

ASSUME ChooserAssumption ==
  /\ None \notin Outputs \union Toplevels \union {Junk} \union Natures
  /\ Junk \notin Outputs \union Toplevels
  /\ IsFiniteSet(Outputs) /\ IsFiniteSet(Toplevels)
  /\ default_chooser \in Seq(Types)
  /\ Configs \subseteq [type : Types \union {"default", "none"}, given : BOOLEAN]
  /\ Masks \subseteq SUBSET {"MONITOR", "WINDOW"}
  /\ Sigpipes \subseteq {"default", "ignore"}
  /\ Sigchlds \subseteq {"default", "ignore"}
  /\ Capacity \in Nat \ {0}
  /\ MaxAnswer \in Nat

VARIABLES config,      \* screencast_conf
          mask,        \* type_mask
          sigpipe,     \* the disposition of SIGPIPE
          sigchld,     \* the disposition of SIGCHLD
          named,       \* outputs whose name event has arrived
          pc,          \* where the call is
          index,       \* the chooser whose turn it is
          labels,      \* labels not yet written to the child
          closed,      \* chooser_in is closed
          input,       \* units in the pipe to the child
          output,      \* units in the pipe from it
          child,       \* what the child is doing
          nature,      \* what kind of child it is
          unsaid,      \* units of its answer it has yet to write
          held,        \* a process it left behind has the pipe from it open
          target,      \* target->output or target->toplevel
          result,      \* what the call returned, and why
          up,          \* whether the daemon survives
          outcome      \* history: what became of each chooser

setting == <<config, mask, sigpipe, sigchld, named>>
pipes == <<labels, closed, input, output>>
process == <<child, nature, unsaid, held>>
answered == <<target, result>>
vars == <<setting, pc, index, pipes, process, answered, up, outcome>>

Choosers == IF config.type = "default" THEN default_chooser ELSE <<config.type>>

Outcomes == {"untried", "skipped", "failed", "unheard", "declined", "answered"}

TypeOK ==
  /\ config \in Configs /\ mask \in Masks /\ sigpipe \in Sigpipes
  /\ sigchld \in Sigchlds
  /\ named \in SUBSET Outputs
  /\ pc \in {"choose", "write", "wait", "read", "done"}
  /\ index \in 1..(Len(Choosers) + 1)
  /\ pc \in {"write", "wait", "read"} => index <= Len(Choosers)
  /\ labels \in Nat
  /\ closed \in BOOLEAN
  /\ input \in 0..Capacity /\ output \in 0..Capacity
  /\ child \in {"none", "starting", "saying", "ended"}
  /\ nature \in Natures \union {None}
  /\ child # "none" => nature # None
  /\ unsaid \in 0..MaxAnswer
  /\ held \in BOOLEAN
  /\ target \in Outputs \union Toplevels \union {None}
  /\ result \in {"none", "selected", "declined", "failed"}
  /\ up \in {"running", "killed", "undefined"}
  /\ outcome \in [DOMAIN Choosers -> Outcomes]

Init == /\ config \in Configs
        /\ mask \in Masks
        /\ sigpipe \in Sigpipes
        /\ sigchld \in Sigchlds
        /\ named \in SUBSET Outputs
        /\ pc = "choose"
        /\ index = 1
        /\ labels = 0
        /\ closed = FALSE
        /\ input = 0
        /\ output = 0
        /\ child = "none"
        /\ nature = None
        /\ unsaid = 0
        /\ held = FALSE
        /\ target = None
        /\ result = "none"
        /\ up = "running"
        /\ outcome = [i \in DOMAIN Choosers |-> "untried"]

Running == up = "running"

-----------------------------------------------------------------------------

(* chooser_type = none: the output of the configured name, or an arbitrary  *)
(* one.  A name is compared with that of each output, which may be NULL.    *)
choose_none ==
  /\ Running /\ pc = "choose"
  /\ config.type = "none"
  /\ \/ /\ IF config.given THEN target' \in named \union {None}
           ELSE target' \in IF Outputs = {} THEN {None} ELSE Outputs
        /\ result' = IF target' = None THEN "failed" ELSE "selected"
        /\ pc' = "done"
        /\ UNCHANGED up
     \/ /\ config.given /\ named # Outputs
        /\ up' = "undefined"
        /\ UNCHANGED <<answered, pc>>
  /\ UNCHANGED <<setting, index, pipes, process, outcome>>

(* A chooser of the user's is called only if there is a command.            *)
Candidate == /\ Running /\ pc = "choose"
             /\ config.type # "none"
             /\ index <= Len(Choosers)
             /\ config.type \in Types => config.given

NextChooser(o) == /\ index' = index + 1
                  /\ outcome' = [outcome EXCEPT ![index] = o]

(* The built-in list's simple chooser knows monitors only.                  *)
Skipped(i) == /\ config.type = "default"
              /\ Choosers[i] = "simple"
              /\ mask # {"MONITOR"}

Skip == /\ Candidate
        /\ Skipped(index)
        /\ NextChooser("skipped")
        /\ UNCHANGED <<setting, pc, pipes, process, answered, up>>

(* Choosers of type dmenu are told what there is to choose from.            *)
Labels == IF Choosers[index] = "simple" THEN 0
          ELSE (IF "MONITOR" \in mask THEN Cardinality(Outputs) ELSE 0)
               + (IF "WINDOW" \in mask THEN Cardinality(Toplevels) ELSE 0)

spawn_chooser ==
  /\ Candidate
  /\ ~ Skipped(index)
  /\ \/ \* pipe or fork failed
        /\ NextChooser("failed")
        /\ UNCHANGED <<pc, pipes, process>>
     \/ /\ nature' \in Natures
        /\ child' = "starting"
        /\ unsaid' = nature'.size
        /\ held' = FALSE
        /\ labels' = Labels
        /\ closed' = FALSE
        /\ input' = 0
        /\ output' = 0
        /\ pc' = "write"
        /\ UNCHANGED <<index, outcome>>
  /\ UNCHANGED <<setting, answered, up>>

(* No chooser was found, or none is configured.                             *)
NoneLeft ==
  /\ Running /\ pc = "choose"
  /\ config.type # "none"
  /\ \/ index > Len(Choosers)
     \/ config.type \in Types /\ ~ config.given
  /\ pc' = "done"
  /\ result' = "failed"
  /\ UNCHANGED <<setting, index, pipes, process, target, up, outcome>>

-----------------------------------------------------------------------------

(* The child's side of the pipes.                                           *)
ChildReads ==
  /\ child = "starting" /\ nature.reads
  /\ input > 0
  /\ input' = input - 1
  /\ UNCHANGED <<setting, pc, index, labels, closed, output, process, answered,
                 up, outcome>>

UserDecides ==
  /\ child = "starting"
  /\ nature.reads => input = 0 /\ closed
  /\ child' = "saying"
  /\ UNCHANGED <<setting, pc, index, pipes, nature, unsaid, held, answered, up,
                 outcome>>

ChildSays ==
  /\ child = "saying"
  /\ unsaid > 0
  /\ output < Capacity
  /\ output' = output + 1
  /\ unsaid' = unsaid - 1
  /\ UNCHANGED <<setting, pc, index, labels, closed, input, child, nature,
                 held, answered, up, outcome>>

ChildEnds ==
  /\ \/ child = "saying" /\ unsaid = 0
     \/ child \in {"starting", "saying"} /\ nature.status = "signalled"
  /\ child' = "ended"
  /\ held' = nature.forks
  /\ UNCHANGED <<setting, pc, index, pipes, nature, unsaid, answered, up, outcome>>

(* What the child left behind ends, or closes the pipe.                     *)
DescendantEnds ==
  /\ held
  /\ held' = FALSE
  /\ UNCHANGED <<setting, pc, index, pipes, child, nature, unsaid, answered, up,
                 outcome>>

-----------------------------------------------------------------------------

(* A label is written, waiting for room in the pipe if need be.  When the   *)
(* child has ended, SIGPIPE kills the daemon, or the writes fail, unnoticed.*)
WriteLabel ==
  /\ Running /\ pc = "write"
  /\ labels > 0
  /\ \/ /\ child # "ended"
        /\ input < Capacity
        /\ input' = input + 1
        /\ labels' = labels - 1
        /\ UNCHANGED up
     \/ /\ child = "ended"
        /\ labels' = 0
        /\ up' = IF sigpipe = "default" THEN "killed" ELSE up
        /\ UNCHANGED input
  /\ UNCHANGED <<setting, pc, index, closed, output, process, answered, outcome>>

\* Mutant: the pipe is closed only after something was written into it.
CloseInput_IfWritten ==
  /\ Running /\ pc = "write"
  /\ labels = 0
  /\ closed' = (Choosers[index] = "dmenu")
  /\ pc' = "wait"
  /\ UNCHANGED <<setting, index, labels, input, output, process, answered, up,
                 outcome>>

CloseInput ==
  /\ Running /\ pc = "write"
  /\ labels = 0
  /\ closed' = TRUE
  /\ pc' = "wait"
  /\ UNCHANGED <<setting, index, labels, input, output, process, answered, up,
                 outcome>>

(* The pipes are closed, and what the child or those behind it do is nothing *)
(* to the daemon any more.                                                  *)
GiveUp == /\ pc' = "choose"
          /\ input' = 0
          /\ output' = 0
          /\ nature' = None
          /\ unsaid' = 0
          /\ held' = FALSE

(* waitpid: the answer counts if the child exited, and not with 127.  While *)
(* SIGCHLD is ignored the system itself reaps the child: waitpid waits for  *)
(* its end too, but then fails, and tells nothing of the child.             *)
wait_chooser ==
  /\ Running /\ pc = "wait"
  /\ child = "ended"
  /\ child' = "none"
  /\ \/ /\ nature.status = "exited" /\ sigchld = "default"
        /\ pc' = "read"
        /\ UNCHANGED <<index, input, output, nature, unsaid, held, outcome>>
     \/ /\ nature.status = "exited" /\ sigchld = "ignore"
        /\ NextChooser("unheard")
        /\ GiveUp
     \/ /\ nature.status # "exited"
        /\ NextChooser("failed")
        /\ GiveUp
  /\ UNCHANGED <<setting, labels, closed, answered, up>>

(* What the answer names.  A label of an output without a name is none that *)
(* a simple chooser would know.                                             *)
Named(line) ==
  IF line \in Toplevels \union (IF Choosers[index] = "simple" THEN named ELSE Outputs)
  THEN line ELSE None

(* getline returns with a line, or at the end of the pipe: when nobody has  *)
(* it open for writing.                                                     *)
getline == output > 0 \/ ~ held

\* Mutant: no answer is taken for a failure.
read_chooser_out_FailsIfSilent ==
  /\ Running /\ pc = "read"
  /\ getline
  /\ \/ /\ output = 0
        /\ NextChooser("declined")
        /\ pc' = "choose"
        /\ UNCHANGED <<answered, up>>
     \/ /\ output > 0
        /\ target' = Named(nature.line)
        /\ result' = IF target' = None THEN "declined" ELSE "selected"
        /\ outcome' = [outcome EXCEPT ![index] = "answered"]
        /\ pc' = "done"
        /\ UNCHANGED <<up, index>>
  /\ UNCHANGED <<setting, pipes, process>>

(* Nothing said is an answer too.  Else it is compared with the labels of   *)
(* the outputs, then of the toplevels, up to a match; for a simple chooser  *)
(* also with the outputs' names, which may be NULL.                         *)
read_chooser_out ==
  /\ Running /\ pc = "read"
  /\ getline
  /\ \/ /\ output = 0
        /\ result' = "declined"
        /\ outcome' = [outcome EXCEPT ![index] = "declined"]
        /\ pc' = "done"
        /\ UNCHANGED <<target, up>>
     \/ /\ output > 0
        /\ Choosers[index] = "simple" /\ named # Outputs => nature.line \in named
        /\ target' = Named(nature.line)
        /\ result' = IF target' = None THEN "declined" ELSE "selected"
        /\ outcome' = [outcome EXCEPT ![index] = "answered"]
        /\ pc' = "done"
        /\ UNCHANGED up
     \/ /\ output > 0
        /\ Choosers[index] = "simple" /\ named # Outputs
        /\ up' = "undefined"
        /\ UNCHANGED <<answered, outcome, pc>>
  /\ UNCHANGED <<setting, index, pipes, process>>

Daemon == \/ choose_none
          \/ Skip
          \/ spawn_chooser
          \/ NoneLeft
          \/ WriteLabel
          \/ CloseInput
          \/ wait_chooser
          \/ read_chooser_out

Child == \/ ChildReads
         \/ UserDecides
         \/ ChildSays
         \/ ChildEnds

Next == Daemon \/ Child \/ DescendantEnds

Spec == Init /\ [][Next]_vars

(* The call goes on whenever it can, the child ends when it has said all it *)
(* has to say, and the user makes up their mind.  Nothing is said of what   *)
(* the child leaves behind.                                                 *)
FairSpec == Spec /\ WF_vars(Daemon) /\ WF_vars(Child)

-----------------------------------------------------------------------------

(* Chooser i was not there, may not be used, or the daemon could not tell.  *)
Passed(i) == \/ Skipped(i)
             \/ outcome[i] = "failed"
             \/ outcome[i] = "unheard" /\ sigchld = "ignore"

(* The first chooser that is there decides: the next one is started only    *)
(* past those that were not; when one ended by itself, the call comes to    *)
(* its answer, whether the user chose, declined or the answer made no       *)
(* sense, and to no other; and of the built-in list none is left out before *)
(* the call gives up.  The one exception is a daemon started with SIGCHLD   *)
(* ignored, which hears of no chooser and goes on past those that answered. *)
FirstFoundDecides ==
  /\ \A i, j \in DOMAIN outcome :
       i < j /\ outcome[j] # "untried" => Passed(i)
  /\ \A i \in DOMAIN outcome :
       outcome[i] \in {"declined", "answered"} =>
         /\ result \in {"declined", "selected"}
         /\ result = "selected" => outcome[i] = "answered" /\ target = nature.line
  /\ config.type = "default" /\ result = "failed" =>
       \A i \in DOMAIN outcome : Passed(i)

(* The child waits for the daemon to read, and the daemon for it to end.    *)
Wedged == /\ pc \in {"write", "wait"}
          /\ child = "saying"
          /\ unsaid > 0
          /\ output = Capacity

(* The child said nothing, and a process it left behind keeps the pipe open. *)
Unanswered == pc = "read" /\ output = 0 /\ held

(* The call returns, and with it the event loop goes on, whether the child  *)
(* reads what it is sent or not, how ever it ends, and however small its    *)
(* pipe; but not if its answer does not fit into the pipe, nor while it     *)
(* gave none and left a process behind that has the pipe open.              *)
CallReturns == pc # "done" ~> pc = "done" \/ ~ Running \/ Wedged \/ Unanswered
=============================================================================
