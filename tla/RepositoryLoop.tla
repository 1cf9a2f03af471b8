--------------------------- MODULE RepositoryLoop ---------------------------
(***************************************************************************)
(* A repository's loop as the other programs of its machine see it: where  *)
(* the loop is and the phase that its daemon has on record.  SyncCycle     *)
(* implements it with everything a cycle does, Daemon for every repository *)
(* of the daemon in charge.                                                *)
(***************************************************************************)

VARIABLES
    loop,  \* "none", "idle" between two writing phases, "writing", "backoff"
    phase  \* "idle" or "syncing"

vars == <<loop, phase>>

Init == loop \in {"none", "idle"} /\ phase = "idle"

Start == loop = "none" /\ loop' = "idle" /\ UNCHANGED phase

BeginWriting ==
    /\ loop = "idle" /\ loop' = "writing"
    /\ phase' = "syncing"

(* Also the report of a cycle that wrote nothing.                          *)
Finish ==
    /\ loop \in {"idle", "writing"} /\ loop' \in {"idle", "none"}
    /\ phase' = "idle"

(* A loop that fails leaves on display what was there.                     *)
Fail ==
    /\ loop \in {"idle", "writing"} /\ loop' \in {"backoff", "none"}
    /\ UNCHANGED phase

Retry == loop = "backoff" /\ loop' = "idle" /\ UNCHANGED phase

Stop == loop \in {"idle", "backoff"} /\ loop' = "none" /\ UNCHANGED phase

(* The record of a daemon that dies may be behind what it knew.            *)
Die == loop' = "none" /\ phase' \in {"idle", "syncing"}

Next == Start \/ BeginWriting \/ Finish \/ Fail \/ Retry \/ Stop \/ Die

Spec == Init /\ [][Next]_vars

(* Whoever waits for `idle` never meets a loop that is writing.            *)
WritingShows == loop = "writing" => phase = "syncing"
=============================================================================
