----------------------------- MODULE LoanContract -----------------------------
(***************************************************************************)
(* What a screencast instance promises PipeWire about the buffers of its    *)
(* stream, with no mention of frames, timers or the two capture protocols.  *)
(* It borrows one buffer at a time, only a buffer that is free, lets the    *)
(* compositor write to that one alone, and gives it back as complete only   *)
(* if it was filled since it was lent.                                      *)
(*                                                                         *)
(* A stream that stops, or loses the buffer on loan, in mid-capture excuses *)
(* the instance from the last two promises.  Only this does, and a new loan *)
(* may take the excuse back.                                                *)
(***************************************************************************)
CONSTANTS Buffers, None

VARIABLES buffer,      \* where each buffer is, or how it was given back
          lent,        \* the buffer on loan
          filled,      \* buffers written to since they were lent
          excused

vars == <<buffer, lent, filled, excused>>

Init == /\ buffer = [b \in Buffers |-> "none"]
        /\ lent = None
        /\ filled = {}
        /\ excused = FALSE

Add(b) == /\ buffer[b] = "none"
          /\ buffer' = [buffer EXCEPT ![b] = "free"]
          /\ UNCHANGED <<lent, filled, excused>>

Recycle(b) == /\ buffer[b] \in {"complete", "corrupt"}
              /\ buffer' = [buffer EXCEPT ![b] = "free"]
              /\ UNCHANGED <<lent, filled, excused>>

Borrow(b) == /\ lent = None
             /\ buffer[b] = "free"
             /\ buffer' = [buffer EXCEPT ![b] = "held"]
             /\ lent' = b
             /\ filled' = filled \ {b}
             /\ excused' \in {excused, FALSE}

Fill(b) == /\ b = lent \/ excused
           /\ filled' = filled \union {b}
           /\ UNCHANGED <<buffer, lent, excused>>

GiveBack(how) == /\ lent # None
                 /\ how = "complete" => lent \in filled \/ excused
                 /\ buffer' = [buffer EXCEPT ![lent] = how]
                 /\ lent' = None

Return == /\ \E how \in {"complete", "corrupt"} : GiveBack(how)
          /\ UNCHANGED <<filled, excused>>

\* The stream stops while a buffer is on loan, which may be given back.
Interrupt == /\ lent # None
             /\ excused' = TRUE
             /\ \/ \E how \in {"complete", "corrupt"} : GiveBack(how)
                \/ UNCHANGED <<buffer, lent>>
             /\ UNCHANGED filled

\* PipeWire takes a buffer away, wherever it is.
Withdraw(b) == /\ buffer[b] # "none"
               /\ buffer' = [buffer EXCEPT ![b] = "none"]
               /\ lent' = IF lent = b THEN None ELSE lent
               /\ filled' = filled \ {b}
               /\ excused' = (excused \/ lent = b)

End == /\ buffer' = [b \in Buffers |-> "none"]
       /\ lent' = None
       /\ filled' = {}
       /\ UNCHANGED excused

Next == \/ \E b \in Buffers : \/ Add(b) \/ Recycle(b) \/ Borrow(b) \/ Fill(b)
                              \/ Withdraw(b)
        \/ Return \/ Interrupt \/ End

Spec == Init /\ [][Next]_vars
=============================================================================
