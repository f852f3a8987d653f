------------------------- MODULE NotebookOwnership -------------------------
(***************************************************************************)
(* What creating, opening and closing a Notebook promise, seen from        *)
(* outside: the file is a Notebook or there is none, one session at most   *)
(* owns it, ownership passes only through nobody, the Notebook does not    *)
(* change identity while it has an owner, and one whose creation has been  *)
(* acknowledged is never lost.                                             *)
(***************************************************************************)
CONSTANTS Sessions, Notebooks, NoOne, Nothing

VARIABLES notebook,         \* the Notebook at the path
          owner,            \* the session that has it open
          promised          \* Notebooks whose creation has been acknowledged

vars == <<notebook, owner, promised>>

Init ==
    /\ notebook \in Notebooks \cup {Nothing}
    /\ owner = NoOne
    /\ promised = {}

Appear(n) ==
    /\ notebook = Nothing /\ notebook' = n
    /\ UNCHANGED <<owner, promised>>

Take(s) ==
    /\ notebook # Nothing /\ owner = NoOne
    /\ owner' = s
    /\ promised' \in {promised, promised \cup {notebook}}
    /\ UNCHANGED notebook

Leave ==
    /\ owner # NoOne /\ owner' = NoOne
    /\ UNCHANGED <<notebook, promised>>

\* A power failure may take back the name of a Notebook nobody was promised.
Vanish ==
    /\ notebook \notin promised
    /\ notebook' = Nothing /\ owner' = NoOne
    /\ UNCHANGED promised

Next ==
    \/ \E n \in Notebooks : Appear(n)
    \/ \E s \in Sessions : Take(s)
    \/ Leave
    \/ Vanish

Spec == Init /\ [][Next]_vars
=============================================================================
