--------------------------- MODULE CommitTransport ---------------------------
(***************************************************************************)
(* What a repository in gitloop's care may do, whoever does it and by      *)
(* whatever steps: work is pending until it is committed, a branch here    *)
(* advances only over commits it keeps, and what others see advances only  *)
(* to a branch that holds everything they have.  SyncCycle implements it.  *)
(***************************************************************************)
CONSTANTS Edits, Commits

VARIABLES
    pending,    \* edits no commit holds yet
    committed,  \* edits held by the branch here
    here,       \* the commits of the branch here
    there,      \* the commits of the branch on the remote
    delivered   \* edits held by the branch on the remote

vars == <<pending, committed, here, there, delivered>>

Init ==
    /\ pending = {} /\ committed = {} /\ delivered = {}
    /\ here = {} /\ there = {}

Edit ==
    /\ \E e \in Edits \ (pending \union committed) : pending' = pending \union {e}
    /\ UNCHANGED <<committed, here, there, delivered>>

(* A new commit, over the branch here and commits of the remote, takes     *)
(* pending edits into the branch.                                          *)
Commit ==
    /\ pending' \subseteq pending
    /\ committed' = committed \union (pending \ pending')
    /\ \E c \in Commits \ (here \union there) :
          /\ here \union {c} \subseteq here'
          /\ here' \subseteq here \union there \union {c}
    /\ UNCHANGED <<there, delivered>>

(* The branch here moves on along the remote's history.                    *)
FastForward ==
    /\ here \subseteq here' /\ here' \subseteq there
    /\ UNCHANGED <<pending, committed, there, delivered>>

(* Only a branch that holds what the remote has is published.              *)
Publish ==
    /\ there \subseteq here
    /\ there' = here /\ delivered' = committed
    /\ UNCHANGED <<pending, committed, here>>

OthersPublish ==
    /\ \E c \in Commits \ (here \union there) : there' = there \union {c}
    /\ UNCHANGED <<pending, committed, here, delivered>>

Next == Edit \/ Commit \/ FastForward \/ Publish \/ OthersPublish

Spec == Init /\ [][Next]_vars

(* Nothing is ever lost: an edit once made stays pending until it is       *)
(* committed and then stays committed, and no branch gives a commit up     *)
(* (backupAndAcceptTheirs' comment, and README: "Nothing is lost").        *)
NothingLost ==
    [][/\ pending \union committed \subseteq pending' \union committed'
       /\ committed \subseteq committed' /\ delivered \subseteq delivered'
       /\ here \subseteq here' /\ there \subseteq there']_vars
=============================================================================
