---------------------------- MODULE StatusDisplay ----------------------------
(***************************************************************************)
(* What the readers of the status file may rely on, whatever processes     *)
(* start, save, fail and die behind it: one author at a time, who takes up *)
(* what was on display, learns one thing after another, and shows what it  *)
(* knows in one piece.  Daemon implements it.                              *)
(***************************************************************************)
CONSTANTS
    Processes, Repos,
    None,        \* no author
    FirstStatus  \* what is on display before there was any author

VARIABLES
    author,  \* the process in charge of the display
    known,   \* what the author knows
    shown    \* what is on display

vars == <<author, known, shown>>

Init == author = None /\ shown = FirstStatus /\ known = shown

TakeUp ==
    /\ author = None /\ author' \in Processes
    /\ UNCHANGED <<known, shown>>

Learn ==
    /\ author # None
    /\ \/ known' = [known EXCEPT !.pid = author]
       \/ \E r \in Repos, phase \in {"idle", "syncing"} : known' = [known EXCEPT !.phase[r] = phase]
    /\ UNCHANGED <<author, shown>>

Show ==
    /\ author # None
    /\ shown' = known
    /\ UNCHANGED <<author, known>>

(* What an author has not shown is gone with it.                           *)
Leave ==
    /\ author # None /\ author' = None
    /\ known' = shown /\ UNCHANGED shown

Next == TakeUp \/ Learn \/ Show \/ Leave

Spec == Init /\ [][Next]_vars
=============================================================================
