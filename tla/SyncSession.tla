---------------------------- MODULE SyncSession ----------------------------
(***************************************************************************)
(* What a sync of fns-cli promises to the rest of the program, without its *)
(* messages, counters and pages: it asks the server, the server names the  *)
(* items that differ, each is settled once, and the sync returns when none *)
(* is left.  It may be given up at any time, which promises nothing.       *)
(*                                                                         *)
(* The contract of sync_incremental and process_sync_responses             *)
(* (src/src/sync/note.rs) and of request_sync and                          *)
(* process_setting_sync_messages (src/src/sync/setting.rs, coordinator.rs) *)
(* with run_note_sync and run_setting_sync, which take a new last time     *)
(* over when the sync returns.                                             *)
(***************************************************************************)
CONSTANT Items

VARIABLES
    stage,  \* "idle" (none or given up), "asked", "answered", "returned"
    left    \* the items that are not settled

vars == <<stage, left>>

TypeOK ==
    /\ stage \in {"idle", "asked", "answered", "returned"}
    /\ left \subseteq Items

Init == stage = "idle" /\ left = {}

Ask ==
    /\ stage = "idle"
    /\ stage' = "asked"
    /\ left' = {}

Answer ==
    /\ stage = "asked"
    /\ stage' = "answered"
    /\ left' \in SUBSET Items

\* A sync returns with nothing left, at once or when something else allows it.
MayReturn ==
    \/ stage' = "answered"
    \/ stage' = "returned" /\ left' = {}

Settle(i) ==
    /\ stage = "answered"
    /\ i \in left
    /\ left' = left \ {i}
    /\ MayReturn

Return ==
    /\ stage = "answered"
    /\ left = {}
    /\ stage' = "returned"
    /\ UNCHANGED left

GiveUp ==
    /\ stage' = "idle"
    /\ left' = {}

Next == Ask \/ Answer \/ (\E i \in Items : Settle(i)) \/ Return \/ GiveUp

Spec == Init /\ [][Next]_vars
=============================================================================
