---------------------------- MODULE LinearHistory ----------------------------
(***************************************************************************)
(* What ADR-0022 promises of undo and redo: one chronological history of   *)
(* the whole Notebook, with a single position.  A command moves on from    *)
(* the present and forgets the redo branch; undo and redo go back and      *)
(* forth between the very states the commands left.  Memory pressure may   *)
(* forget the oldest states, never the newest (ADR-0009).                  *)
(***************************************************************************)
EXTENDS Naturals, Sequences

VARIABLES past,             \* states that undo returns to, the newest last
          present,          \* the state of the Notebook
          future            \* states that redo returns to, the nearest last

Init == past = <<>> /\ future = <<>>

Command ==
    /\ \E i \in 1 .. Len(past) + 1 :
          past' = SubSeq(Append(past, present), i, Len(past) + 1)
    /\ future' = <<>>

Undo ==
    /\ past # <<>>
    /\ present' = past[Len(past)]
    /\ past' = SubSeq(past, 1, Len(past) - 1)
    /\ future' = Append(future, present)

Redo ==
    /\ future # <<>>
    /\ present' = future[Len(future)]
    /\ future' = SubSeq(future, 1, Len(future) - 1)
    /\ past' = Append(past, present)

\* Closing a Notebook forgets its history and keeps its state.
Close == past' = <<>> /\ future' = <<>> /\ UNCHANGED present

Next == Command \/ Undo \/ Redo \/ Close

Spec == Init /\ [][Next]_<<past, present, future>>
=============================================================================
