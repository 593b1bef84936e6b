---------------------------- MODULE ChooserProofs ----------------------------
(***************************************************************************)
(* The first chooser found decides, for any list of choosers, any targets   *)
(* and pipes of any size.                                                   *)
(***************************************************************************)
EXTENDS Chooser, FiniteSetTheorems, TLAPS

(* The inductive invariant: as long as the call goes on, the choosers before *)
(* the one whose turn it is were not there or may not be used, it and those  *)
(* after it are untouched, and nothing is selected.                          *)
Trying == /\ \A i \in DOMAIN outcome :
               IF i < index
               THEN Passed(i) /\ outcome[i] \in {"failed", "skipped", "unheard"}
               ELSE outcome[i] = "untried"
          /\ result = "none"

IInv == /\ TypeOK
        /\ pc # "done" => Trying
        /\ pc # "done" /\ config.type = "none" => pc = "choose"
        /\ FirstFoundDecides

(* The choosers to be tried are a sequence.                                 *)
LEMMA ChoosersType ==
  /\ Len(Choosers) \in Nat
  /\ DOMAIN Choosers = 1..Len(Choosers)
  <1>1. CASE config.type = "default"
    BY <1>1, ChooserAssumption DEF Choosers
  <1>2. CASE config.type # "default"
    <2>1. Choosers = <<config.type>>
      BY <1>2 DEF Choosers
    <2> QED
      BY <2>1
  <1> QED
    BY <1>1, <1>2

(* There are finitely many labels.                                          *)
LEMMA LabelsType == Labels \in Nat
  <1>1. Cardinality(Outputs) \in Nat /\ Cardinality(Toplevels) \in Nat
    BY ChooserAssumption, FS_CardinalityType
  <1> QED
    BY <1>1 DEF Labels

LEMMA InitIInv == Init => IInv
  <1> SUFFICES ASSUME Init PROVE IInv
    OBVIOUS
  <1>1. TypeOK
    <2>1. outcome \in [DOMAIN Choosers -> Outcomes]
      BY DEF Init, Outcomes
    <2>2. /\ index \in 1..(Len(Choosers) + 1) /\ labels \in Nat
          /\ input \in 0..Capacity /\ output \in 0..Capacity
          /\ unsaid \in 0..MaxAnswer
      BY ChoosersType, ChooserAssumption DEF Init
    <2> QED
      BY <2>1, <2>2 DEF Init, TypeOK
  <1>2. Trying
    BY ChoosersType DEF Init, Trying
  <1> QED
    BY <1>1, <1>2 DEF Init, IInv, FirstFoundDecides

(* A step of the child, or of what it left behind, changes none of what is   *)
(* decided.                                                                 *)
LEMMA ChildIInv == ASSUME IInv, Child \/ DescendantEnds PROVE IInv'
  <1>1. UNCHANGED <<setting, pc, index, answered, up, outcome, nature, labels,
                    closed>>
    <2>1. CASE ChildReads
      BY <2>1 DEF ChildReads, process
    <2>2. CASE UserDecides
      BY <2>2 DEF UserDecides, pipes
    <2>3. CASE ChildSays
      BY <2>3 DEF ChildSays
    <2>4. CASE ChildEnds
      BY <2>4 DEF ChildEnds, pipes
    <2>5. CASE DescendantEnds
      BY <2>5 DEF DescendantEnds, pipes
    <2> QED
      BY <2>1, <2>2, <2>3, <2>4, <2>5 DEF Child
  <1>2. UNCHANGED Choosers
    BY <1>1 DEF Choosers, setting
  <1>3. /\ input' \in 0..Capacity
        /\ output' \in 0..Capacity
        /\ unsaid' \in 0..MaxAnswer
        /\ child' \in {"none", "starting", "saying", "ended"}
        /\ child' # "none" => child # "none"
        /\ held' \in BOOLEAN
    <2> USE ChooserAssumption DEF IInv, TypeOK
    <2>1. CASE ChildReads
      BY <2>1 DEF ChildReads, process
    <2>2. CASE UserDecides
      BY <2>2 DEF UserDecides, pipes
    <2>3. CASE ChildSays
      BY <2>3 DEF ChildSays
    <2>4. CASE ChildEnds
      <3>1. nature.forks \in BOOLEAN
        BY <2>4 DEF ChildEnds, Natures
      <3> QED
        BY <2>4, <3>1 DEF ChildEnds, pipes
    <2>5. CASE DescendantEnds
      BY <2>5 DEF DescendantEnds, pipes
    <2> QED
      BY <2>1, <2>2, <2>3, <2>4, <2>5 DEF Child
  <1>4. child' # "none" => nature # None
    BY <1>3 DEF IInv, TypeOK
  <1>5. TypeOK'
    BY <1>1, <1>2, <1>3, <1>4 DEF IInv, TypeOK, setting, answered
  <1> QED
    BY <1>1, <1>2, <1>5
       DEF IInv, Trying, FirstFoundDecides, Passed, Skipped, setting, answered

(* The writing of the labels.                                               *)
LEMMA WriteIInv == ASSUME IInv, WriteLabel \/ CloseInput PROVE IInv'
  <1>1. /\ UNCHANGED <<setting, index, answered, outcome, process, output>>
        /\ pc = "write" /\ pc' \in {"write", "wait"}
    BY DEF WriteLabel, CloseInput
  <1>2. UNCHANGED Choosers
    BY <1>1 DEF Choosers, setting
  <1>3. /\ input' \in 0..Capacity
        /\ labels' \in Nat
        /\ closed' \in BOOLEAN
        /\ up' \in {"running", "killed", "undefined"}
    <2>1. CASE WriteLabel
      BY <2>1, ChooserAssumption DEF WriteLabel, IInv, TypeOK
    <2>2. CASE CloseInput
      BY <2>2 DEF CloseInput, IInv, TypeOK
    <2> QED
      BY <2>1, <2>2
  <1>4. TypeOK'
    BY <1>1, <1>2, <1>3 DEF IInv, TypeOK, setting, answered, process
  <1> QED
    BY <1>1, <1>2, <1>4
       DEF IInv, Trying, FirstFoundDecides, Passed, Skipped, setting, answered, process

(* A chooser that is passed over leaves it to the next.                     *)
LEMMA NextTrying ==
  ASSUME IInv, pc # "done", config.type # "none", index <= Len(Choosers),
         UNCHANGED <<setting, answered>>,
         NEW o \in {"failed", "skipped", "unheard"},
         o = "skipped" => Skipped(index), o = "unheard" => sigchld = "ignore",
         NextChooser(o)
  PROVE  /\ Trying' /\ FirstFoundDecides'
         /\ index' \in 1..(Len(Choosers') + 1)
         /\ outcome' \in [DOMAIN Choosers' -> Outcomes]
         /\ UNCHANGED Choosers
  <1>1. UNCHANGED Choosers
    BY DEF Choosers, setting
  <1>2. index' = index + 1 /\ outcome' = [outcome EXCEPT ![index] = o]
    BY DEF NextChooser
  <1>3. index \in 1..Len(Choosers) /\ index \in DOMAIN outcome
        /\ DOMAIN outcome = 1..Len(Choosers)
    BY ChoosersType DEF IInv, TypeOK
  <1>4. DOMAIN outcome' = DOMAIN outcome
    BY <1>2
  <1>5. \A i \in DOMAIN outcome : Skipped(i)' = Skipped(i)
    BY <1>1 DEF Skipped, setting
  <1>6. Trying'
    <2>1. ASSUME NEW i \in DOMAIN outcome'
          PROVE  IF i < index'
                 THEN Passed(i)' /\ outcome'[i] \in {"failed", "skipped", "unheard"}
                 ELSE outcome'[i] = "untried"
      <3>1. CASE i = index
        <4>1. outcome'[i] = o /\ i < index'
          BY <1>2, <1>3, <3>1
        <4>2. /\ o = "skipped" => Skipped(i)'
              /\ o = "unheard" => sigchld' = "ignore"
          BY <1>1, <3>1 DEF Skipped, setting
        <4>3. Passed(i)'
          BY <4>1, <4>2, Zenon DEF Passed
        <4> QED
          BY <4>1, <4>3
      <3>2. CASE i # index
        <4>1. outcome'[i] = outcome[i] /\ i \in DOMAIN outcome
              /\ (i < index' <=> i < index)
          BY <1>2, <1>3, <1>4, <2>1, <3>2, ChoosersType
        <4>2. Passed(i) => Passed(i)'
          BY <4>1, <1>5 DEF Passed, setting
        <4> QED
          BY <4>1, <4>2 DEF IInv, Trying
      <3> QED
        BY <3>1, <3>2
    <2> QED
      BY <2>1 DEF IInv, Trying, answered
  <1>7. FirstFoundDecides'
    <2>1. \A i, j \in DOMAIN outcome' :
            i < j /\ outcome'[j] # "untried" => Passed(i)'
      <3>1. index' \in Nat
        BY <1>2, <1>3
      <3> QED
        BY <1>3, <1>4, <1>6, <3>1 DEF Trying
    <2> QED
      BY <1>6, <2>1 DEF Trying, FirstFoundDecides
  <1>8. outcome' \in [DOMAIN Choosers -> Outcomes]
    BY <1>2 DEF IInv, TypeOK, Outcomes
  <1> QED
    BY <1>1, <1>2, <1>3, <1>6, <1>7, <1>8, ChoosersType

LEMMA FailedTrying ==
  ASSUME IInv, pc # "done", config.type # "none", index <= Len(Choosers),
         UNCHANGED <<setting, answered>>,
         NextChooser("failed") \/ (NextChooser("unheard") /\ sigchld = "ignore")
  PROVE  /\ Trying' /\ FirstFoundDecides'
         /\ index' \in 1..(Len(Choosers') + 1)
         /\ outcome' \in [DOMAIN Choosers' -> Outcomes]
  BY NextTrying

LEMMA SkipIInv == ASSUME IInv, Skip PROVE IInv'
  <1>1. /\ pc = "choose" /\ config.type # "none" /\ index <= Len(Choosers)
        /\ Skipped(index) /\ NextChooser("skipped")
        /\ UNCHANGED <<setting, pc, pipes, process, answered, up>>
    BY DEF Skip, Candidate
  <1>2. /\ Trying' /\ FirstFoundDecides'
        /\ index' \in 1..(Len(Choosers') + 1)
        /\ outcome' \in [DOMAIN Choosers' -> Outcomes]
    BY <1>1, NextTrying
  <1> QED
    BY <1>1, <1>2 DEF IInv, TypeOK, setting, pipes, process, answered

LEMMA SpawnIInv == ASSUME IInv, spawn_chooser PROVE IInv'
  <1>1. /\ pc = "choose" /\ config.type # "none" /\ index <= Len(Choosers)
        /\ UNCHANGED <<setting, answered, up>>
    BY DEF spawn_chooser, Candidate
  <1>2. CASE NextChooser("failed") /\ UNCHANGED <<pc, pipes, process>>
    <2>1. /\ Trying' /\ FirstFoundDecides'
          /\ index' \in 1..(Len(Choosers') + 1)
          /\ outcome' \in [DOMAIN Choosers' -> Outcomes]
      BY FailedTrying, <1>1, <1>2, SMT
    <2> QED
      BY <1>1, <1>2, <2>1 DEF IInv, TypeOK, setting, pipes, process, answered
  <1>3. CASE ~ (NextChooser("failed") /\ UNCHANGED <<pc, pipes, process>>)
    <2>1. /\ nature' \in Natures
          /\ child' = "starting" /\ unsaid' = nature'.size /\ held' = FALSE
          /\ labels' = Labels /\ closed' = FALSE
          /\ input' = 0 /\ output' = 0 /\ pc' = "write"
          /\ UNCHANGED <<index, outcome>>
      BY <1>3 DEF spawn_chooser
    <2>2. UNCHANGED Choosers
      BY <1>1 DEF Choosers, setting
    <2>3. nature' # None /\ unsaid' \in 0..MaxAnswer
      <3>1. PICK n \in Natures : nature' = n
        BY <2>1
      <3>2. n.size \in 0..MaxAnswer /\ n # None
        BY ChooserAssumption DEF Natures
      <3> QED
        BY <2>1, <3>1, <3>2
    <2>4. labels' \in Nat /\ 0 \in 0..Capacity
      BY <2>1, LabelsType, ChooserAssumption
    <2>5. TypeOK'
      BY <1>1, <2>1, <2>2, <2>3, <2>4 DEF IInv, TypeOK, setting, answered
    <2> QED
      BY <1>1, <2>1, <2>2, <2>5
         DEF IInv, Trying, FirstFoundDecides, Passed, Skipped, setting, answered
  <1> QED
    BY <1>2, <1>3

(* A chooser that was not there is one of those passed over.                *)
LEMMA WaitIInv == ASSUME IInv, wait_chooser PROVE IInv'
  <1>1. /\ pc = "wait" /\ child' = "none"
        /\ UNCHANGED <<setting, labels, closed, answered, up>>
    BY DEF wait_chooser
  <1>2. config.type # "none" /\ index <= Len(Choosers)
    BY <1>1 DEF IInv, TypeOK
  <1>3. CASE pc' = "read"
             /\ UNCHANGED <<index, input, output, nature, unsaid, held, outcome>>
    <2>1. UNCHANGED Choosers
      BY <1>1 DEF Choosers, setting
    <2>2. TypeOK'
      BY <1>1, <1>2, <1>3, <2>1 DEF IInv, TypeOK, setting, answered
    <2> QED
      BY <1>1, <1>2, <1>3, <2>1, <2>2
         DEF IInv, Trying, FirstFoundDecides, Passed, Skipped, setting, answered
  <1>4. CASE /\ GiveUp
             /\ NextChooser("failed") \/ (NextChooser("unheard") /\ sigchld = "ignore")
    <2>1. /\ Trying' /\ FirstFoundDecides'
          /\ index' \in 1..(Len(Choosers') + 1)
          /\ outcome' \in [DOMAIN Choosers' -> Outcomes]
      BY FailedTrying, <1>1, <1>2, <1>4, SMT
    <2>2. 0 \in 0..Capacity /\ 0 \in 0..MaxAnswer
      BY ChooserAssumption
    <2> QED
      BY <1>1, <1>4, <2>1, <2>2 DEF GiveUp, IInv, TypeOK, setting, answered
  <1> QED
    BY <1>3, <1>4 DEF wait_chooser

(* The answer of the chooser whose turn it is ends the call.                *)
LEMMA ReadIInv == ASSUME IInv, read_chooser_out PROVE IInv'
  <1>1. /\ pc = "read"
        /\ UNCHANGED <<setting, index, pipes, process>>
    BY DEF read_chooser_out
  <1>2. UNCHANGED Choosers
    BY <1>1 DEF Choosers, setting
  <1>3. /\ index \in 1..Len(Choosers) /\ DOMAIN outcome = 1..Len(Choosers)
        /\ Trying /\ config.type # "none"
    BY <1>1, ChoosersType DEF IInv, TypeOK
  <1>4. CASE up' = "undefined" /\ UNCHANGED <<answered, outcome, pc>>
    <2>1. TypeOK'
      BY <1>1, <1>2, <1>4 DEF IInv, TypeOK, setting, pipes, process, answered
    <2> QED
      BY <1>1, <1>2, <1>4, <2>1
         DEF IInv, Trying, FirstFoundDecides, Passed, Skipped, setting, process, answered
  <1>5. ASSUME NEW o \in {"declined", "answered"},
               outcome' = [outcome EXCEPT ![index] = o],
               pc' = "done", UNCHANGED up,
               result' \in {"declined", "selected"},
               target' \in Outputs \union Toplevels \union {None},
               result' = "selected" => o = "answered" /\ target' = nature.line
        PROVE  IInv'
    <2>1. TypeOK'
      BY <1>1, <1>2, <1>5 DEF IInv, TypeOK, Outcomes, setting, pipes, process
    <2>2. /\ \A i \in DOMAIN outcome' : i # index => outcome'[i] = outcome[i]
          /\ DOMAIN outcome' = DOMAIN outcome
          /\ index \in DOMAIN outcome' /\ outcome'[index] = o
      BY <1>3, <1>5
    <2>3. \A i, j \in DOMAIN outcome' :
            i < j /\ outcome'[j] # "untried" => Passed(i)'
      <3> SUFFICES ASSUME NEW i \in DOMAIN outcome', NEW j \in DOMAIN outcome',
                          i < j, outcome'[j] # "untried"
                   PROVE  Passed(i)'
        OBVIOUS
      <3>1. i < index /\ i # index
        BY <1>3, <2>2 DEF Trying
      <3>2. Passed(i) /\ outcome'[i] = outcome[i]
        BY <1>3, <2>2, <3>1 DEF Trying
      <3> QED
        BY <1>1, <1>2, <3>2 DEF Passed, Skipped, setting
    <2>4. \A i \in DOMAIN outcome' :
            outcome'[i] \in {"declined", "answered"} /\ result' = "selected" =>
              outcome'[i] = "answered" /\ target' = nature'.line
      BY <1>1, <1>3, <1>5, <2>2 DEF Trying, process
    <2>5. FirstFoundDecides'
      BY <1>5, <2>3, <2>4 DEF FirstFoundDecides
    <2> QED
      BY <1>5, <2>1, <2>5 DEF IInv
  <1>6. Named(nature.line) \in {nature.line, None}
        /\ Named(nature.line) \in Outputs \union Toplevels \union {None}
    BY DEF Named, IInv, TypeOK
  <1>7. CASE /\ result' = "declined"
             /\ outcome' = [outcome EXCEPT ![index] = "declined"]
             /\ pc' = "done"
             /\ UNCHANGED <<target, up>>
    BY <1>5, <1>7 DEF IInv, TypeOK
  <1>8. CASE /\ target' = Named(nature.line)
             /\ result' = IF target' = None THEN "declined" ELSE "selected"
             /\ outcome' = [outcome EXCEPT ![index] = "answered"]
             /\ pc' = "done"
             /\ UNCHANGED up
    BY <1>5, <1>6, <1>8
  <1> QED
    BY <1>4, <1>7, <1>8 DEF read_chooser_out

(* Without a chooser that could be asked the call ends.                     *)
LEMMA ChooseIInv == ASSUME IInv, choose_none \/ NoneLeft PROVE IInv'
  <1>1. /\ pc = "choose" /\ Trying
        /\ UNCHANGED <<setting, index, pipes, process, outcome>>
    BY DEF choose_none, NoneLeft, IInv
  <1>2. UNCHANGED Choosers
    BY <1>1 DEF Choosers, setting
  <1>3. \A i \in DOMAIN outcome : Skipped(i)' = Skipped(i)
    BY <1>1, <1>2 DEF Skipped, setting
  <1>4. CASE NoneLeft
    <2>1. TypeOK'
      BY <1>1, <1>2, <1>4 DEF NoneLeft, IInv, TypeOK, setting, pipes, process
    <2>2. config.type = "default" =>
            \A i \in DOMAIN outcome : Passed(i)
      BY <1>1, <1>4, ChoosersType DEF NoneLeft, Trying, IInv, TypeOK, Types
    <2>4. \A i, j \in DOMAIN outcome :
            i < j /\ outcome[j] # "untried" => Passed(i)
      BY <1>1 DEF IInv, FirstFoundDecides
    <2>3. FirstFoundDecides'
      BY <1>1, <1>3, <1>4, <2>2, <2>4
         DEF NoneLeft, FirstFoundDecides, Passed, Trying, setting
    <2> QED
      BY <1>4, <2>1, <2>3 DEF NoneLeft, IInv
  <1>5. CASE choose_none
    <2>1. /\ target' \in Outputs \union Toplevels \union {None}
          /\ result' \in {"none", "selected", "declined", "failed"}
          /\ pc' \in {"choose", "done"}
          /\ pc' # "done" => UNCHANGED result
          /\ up' \in {"running", "killed", "undefined"}
      BY <1>1, <1>5 DEF choose_none, IInv, TypeOK, answered
    <2>2. TypeOK'
      BY <1>1, <1>2, <2>1 DEF IInv, TypeOK, setting, pipes, process
    <2>3. \A i \in DOMAIN outcome : outcome[i] \notin {"declined", "answered"}
      BY <1>1 DEF Trying
    <2>4. FirstFoundDecides'
      BY <1>1, <1>3, <1>5, <2>3
         DEF choose_none, IInv, FirstFoundDecides, Passed, setting
    <2>5. pc' # "done" => Trying'
      BY <1>1, <1>3, <2>1 DEF Trying, Passed, setting
    <2> QED
      BY <2>1, <2>2, <2>4, <2>5 DEF IInv
  <1> QED
    BY <1>4, <1>5

LEMMA NextIInv == IInv /\ [Next]_vars => IInv'
  <1> SUFFICES ASSUME IInv, [Next]_vars PROVE IInv'
    OBVIOUS
  <1>1. CASE Daemon
    BY <1>1, ChooseIInv, SkipIInv, SpawnIInv, WriteIInv, WaitIInv, ReadIInv
       DEF Daemon
  <1>2. CASE Child \/ DescendantEnds
    BY <1>2, ChildIInv
  <1>3. CASE UNCHANGED vars
    BY <1>3 DEF vars, setting, pipes, process, answered, IInv, TypeOK, Trying,
                FirstFoundDecides, Passed, Skipped, Choosers
  <1> QED
    BY <1>1, <1>2, <1>3 DEF Next

LEMMA Invariance == Spec => []IInv
  BY InitIInv, NextIInv, PTL DEF Spec

(* Types of the chooser's call, of its pipes and of its child.              *)
THEOREM TypeCorrect == Spec => []TypeOK
  BY Invariance, PTL DEF IInv

(* wlr_chooser_default goes on to the next chooser only past those that are *)
(* not there, and what is shared is what the first one found answered.      *)
THEOREM FirstChooserFound == Spec => []FirstFoundDecides
  BY Invariance, PTL DEF IInv

-----------------------------------------------------------------------------

(* Why the call returns, as far as it can be said of single steps: it can   *)
(* take one as long as it is not wedged, and each brings it nearer the end. *)

(* What the daemon can do next, and what its child can do.                  *)
DaemonMoves == \/ pc = "choose"
               \/ pc = "read" /\ getline
               \/ pc = "write" /\ (labels = 0 \/ input < Capacity \/ child = "ended")
               \/ pc = "wait" /\ child = "ended"

ChildMoves == \/ child = "starting" /\ nature.reads /\ input > 0
              \/ child = "starting" /\ (nature.reads => input = 0 /\ closed)
              \/ child = "saying" /\ (unsaid = 0 \/ output < Capacity)

(* A call that has not returned waits for its child, and the child for it,  *)
(* only when the answer does not fit into the pipe: not while labels are    *)
(* written to a child that does not read, nor after it has ended; and then  *)
(* for what it left behind, if it said nothing.                             *)
BlocksOnlyIfWedged ==
  Running /\ pc # "done" => DaemonMoves \/ ChildMoves \/ Wedged \/ Unanswered

(* While the daemon writes or waits there is a child, whose input is closed *)
(* before the wait.                                                         *)
Attended == /\ pc \in {"write", "wait"} => child # "none"
            /\ pc = "wait" => closed

Rank == [choose |-> 4, write |-> 3, wait |-> 2, read |-> 1, done |-> 0]

ChildRank == [none |-> 0, starting |-> 3, saying |-> 2, ended |-> 0]

ChoosersLeft == Len(Choosers) + 1 - index

(* A label that was written has yet to be read, and a child that ends may   *)
(* leave a process behind.                                                  *)
Work == 2 * labels + input + unsaid + ChildRank[child] + (IF held THEN 1 ELSE 0)

(* Each step gets on with the list, with the chooser whose turn it is, or   *)
(* with what is in the pipes and in the child; or the daemon is gone.  The  *)
(* four numbers are natural, so a call takes finitely many steps.           *)
CallAdvances ==
  [][/\ Running' => Running
     /\ \/ Running /\ ~ Running'
        \/ ChoosersLeft' < ChoosersLeft
        \/ ChoosersLeft' = ChoosersLeft /\ Rank[pc'] < Rank[pc]
        \/ ChoosersLeft' = ChoosersLeft /\ pc' = pc /\ Work' < Work]_vars

LEMMA AttendedHolds == Spec => []Attended
  <1>1. Init => Attended
    BY DEF Init, Attended
  <1>2. IInv /\ Attended /\ [Next]_vars => Attended'
    <2> SUFFICES ASSUME IInv, Attended, [Next]_vars PROVE Attended'
      OBVIOUS
    <2>1. CASE Daemon
      BY <2>1 DEF Daemon, choose_none, Skip, spawn_chooser, NoneLeft, WriteLabel,
         CloseInput, wait_chooser, GiveUp, read_chooser_out, Candidate, pipes, process,
         Attended
    <2>2. CASE Child \/ DescendantEnds
      BY <2>2 DEF Child, ChildReads, UserDecides, ChildSays, ChildEnds,
         DescendantEnds, pipes, process, Attended
    <2>3. CASE UNCHANGED vars
      BY <2>3 DEF vars, pipes, process, Attended
    <2> QED
      BY <2>1, <2>2, <2>3 DEF Next
  <1> QED
    BY <1>1, <1>2, Invariance, PTL DEF Spec

(* xdpw_wlr_target_chooser waits for ever only for a child that is wedged.  *)
THEOREM OnlyWedgedBlocks == Spec => []BlocksOnlyIfWedged
  <1>1. IInv /\ Attended => BlocksOnlyIfWedged
    <2> SUFFICES ASSUME IInv, Attended, pc \in {"write", "wait"},
                        ~ DaemonMoves, ~ ChildMoves
                 PROVE  Wedged
      <3>1. TypeOK => pc \in {"choose", "write", "wait", "read", "done"}
                      /\ output >= 0
        BY ChooserAssumption DEF TypeOK
      <3>2. TypeOK /\ pc = "read" => DaemonMoves \/ Unanswered
        BY <3>1, ChooserAssumption DEF TypeOK, DaemonMoves, getline, Unanswered
      <3> QED
        BY <3>1, <3>2 DEF BlocksOnlyIfWedged, DaemonMoves, IInv
    <2>1. /\ child \in {"starting", "saying", "ended"}
          /\ input \in 0..Capacity /\ output \in 0..Capacity
          /\ unsaid \in Nat /\ Capacity \in Nat \ {0}
      BY ChooserAssumption DEF Attended, IInv, TypeOK
    <2>2. child # "ended"
      BY <2>1 DEF DaemonMoves
    <2>3. child # "starting"
      <3>1. CASE pc = "write"
        BY <2>1, <3>1 DEF DaemonMoves, ChildMoves
      <3>2. CASE pc = "wait"
        BY <2>1, <3>2 DEF Attended, ChildMoves
      <3> QED
        BY <3>1, <3>2
    <2> QED
      BY <2>1, <2>2, <2>3 DEF ChildMoves, Wedged
  <1> QED
    BY <1>1, Invariance, AttendedHolds, PTL

(* The numbers CallAdvances counts down are natural.                        *)
LEMMA CountsAreNatural ==
  ASSUME TypeOK
  PROVE  ChoosersLeft \in Nat /\ Rank[pc] \in Nat /\ Work \in Nat
  <1>1. ChoosersLeft \in Nat
    BY ChoosersType DEF TypeOK, ChoosersLeft
  <1>2. Rank[pc] \in Nat
    BY DEF TypeOK, Rank
  <1>3. ChildRank[child] \in Nat
    BY DEF TypeOK, ChildRank
  <1>4. labels \in Nat /\ input \in Nat /\ unsaid \in Nat /\ held \in BOOLEAN
    BY ChooserAssumption DEF TypeOK
  <1> QED
    BY <1>1, <1>2, <1>3, <1>4 DEF Work

LEMMA DaemonAdvances ==
  ASSUME TypeOK, Daemon
  PROVE  \/ ~ Running'
         \/ ChoosersLeft' < ChoosersLeft
         \/ ChoosersLeft' = ChoosersLeft /\ Rank[pc'] < Rank[pc]
         \/ ChoosersLeft' = ChoosersLeft /\ pc' = pc /\ Work' < Work
  <1>1. UNCHANGED Choosers /\ Len(Choosers) \in Nat /\ index \in Nat
    <2>1. UNCHANGED setting
      BY DEF Daemon, choose_none, Skip, spawn_chooser, NoneLeft, WriteLabel,
         CloseInput, wait_chooser, read_chooser_out
    <2> QED
      BY <2>1, ChoosersType DEF Choosers, setting, TypeOK
  <1>2. ASSUME index' = index + 1 PROVE ChoosersLeft' < ChoosersLeft
    BY <1>1, <1>2 DEF ChoosersLeft
  <1>3. ASSUME UNCHANGED index PROVE ChoosersLeft' = ChoosersLeft
    BY <1>1, <1>3 DEF ChoosersLeft
  <1>4. CASE choose_none \/ NoneLeft
    BY <1>3, <1>4 DEF choose_none, NoneLeft, Rank, Running
  <1>5. CASE Skip
    BY <1>2, <1>5 DEF Skip, NextChooser
  <1>6. CASE spawn_chooser
    BY <1>2, <1>3, <1>6 DEF spawn_chooser, Candidate, NextChooser, Rank
  <1>7. CASE WriteLabel
    <2>1. /\ labels' \in Nat /\ labels \in Nat /\ labels > 0
          /\ input \in Nat /\ unsaid \in Nat /\ ChildRank[child] \in Nat
          /\ \/ input' = input + 1 /\ labels' = labels - 1
             \/ input' = input /\ labels' = 0
          /\ UNCHANGED <<pc, index, unsaid, child, held>>
      BY <1>7, ChooserAssumption DEF WriteLabel, TypeOK, process, ChildRank
    <2> DEFINE rest == unsaid + ChildRank[child] + (IF held THEN 1 ELSE 0)
    <2>2. /\ Work' = (2 * labels' + input') + rest
          /\ Work = (2 * labels + input) + rest
          /\ rest \in Int
      BY <2>1 DEF Work
    <2>3. /\ 2 * labels' + input' < 2 * labels + input
          /\ 2 * labels' + input' \in Int /\ 2 * labels + input \in Int
      BY <2>1
    <2> DEFINE before == 2 * labels + input
               after == 2 * labels' + input'
    <2>4. /\ after < before /\ after \in Int /\ before \in Int
          /\ Work' = after + rest
          /\ Work = before + rest
      BY <2>2, <2>3
    <2> HIDE DEF before, after, rest
    <2>5. Work' < Work
      BY <2>2, <2>4
    <2> QED
      BY <1>3, <2>1, <2>5
  <1>8. CASE CloseInput
    BY <1>3, <1>8 DEF CloseInput, Rank
  <1>9. CASE wait_chooser
    BY <1>2, <1>3, <1>9 DEF wait_chooser, GiveUp, NextChooser, Rank
  <1>10. CASE read_chooser_out
    BY <1>3, <1>10 DEF read_chooser_out, Rank, Running
  <1> QED
    BY <1>4, <1>5, <1>6, <1>7, <1>8, <1>9, <1>10 DEF Daemon

LEMMA ChildAdvances ==
  ASSUME TypeOK, Child \/ DescendantEnds
  PROVE  /\ UNCHANGED <<up, pc>>
         /\ ChoosersLeft' = ChoosersLeft
         /\ Work' < Work
  <1>1. UNCHANGED <<up, pc, index, setting, labels>>
    BY DEF Child, ChildReads, UserDecides, ChildSays, ChildEnds, DescendantEnds,
       pipes
  <1>2. labels \in Nat /\ input \in Nat /\ unsaid \in Nat
        /\ ChildRank[child] \in Nat /\ held \in BOOLEAN
    BY ChooserAssumption DEF TypeOK, ChildRank
  <1>3. \/ /\ input > 0 /\ input' = input - 1
           /\ UNCHANGED <<unsaid, child, held>>
        \/ /\ unsaid > 0 /\ unsaid' = unsaid - 1
           /\ UNCHANGED <<input, child, held>>
        \/ /\ ChildRank[child'] + 2 <= ChildRank[child] /\ ChildRank[child'] \in Nat
           /\ UNCHANGED <<input, unsaid>>
        \/ /\ ChildRank[child'] + 1 <= ChildRank[child] /\ ChildRank[child'] \in Nat
           /\ UNCHANGED <<input, unsaid, held>>
        \/ /\ held /\ ~ held'
           /\ UNCHANGED <<input, unsaid, child>>
    <2>1. CASE ChildReads
      BY <2>1 DEF ChildReads, process
    <2>2. CASE UserDecides \/ ChildEnds
      BY <2>2 DEF UserDecides, ChildEnds, pipes, ChildRank
    <2>3. CASE ChildSays
      BY <2>3 DEF ChildSays
    <2>4. CASE DescendantEnds
      BY <2>4 DEF DescendantEnds, pipes
    <2> QED
      BY <2>1, <2>2, <2>3, <2>4 DEF Child
  <1>4. Work' < Work
    BY <1>1, <1>2, <1>3 DEF Work
  <1> QED
    BY <1>1, <1>4 DEF ChoosersLeft, Choosers, setting

(* Each step of a call brings its end nearer.                               *)
THEOREM CallsEnd == Spec => CallAdvances
  <1>1. TypeOK /\ [Next]_vars =>
          [/\ Running' => Running
           /\ \/ Running /\ ~ Running'
              \/ ChoosersLeft' < ChoosersLeft
              \/ ChoosersLeft' = ChoosersLeft /\ Rank[pc'] < Rank[pc]
              \/ ChoosersLeft' = ChoosersLeft /\ pc' = pc /\ Work' < Work]_vars
    <2>1. Daemon => Running
      BY DEF Daemon, choose_none, Skip, spawn_chooser, NoneLeft, WriteLabel,
         CloseInput, wait_chooser, read_chooser_out, Candidate
    <2>2. ASSUME Child \/ DescendantEnds, TypeOK PROVE Running' <=> Running
      BY <2>2, ChildAdvances DEF Running
    <2> QED
      BY <2>1, <2>2, DaemonAdvances, ChildAdvances DEF Next
  <1> QED
    BY <1>1, TypeCorrect, PTL DEF Spec, CallAdvances
=============================================================================
