---------------------------- MODULE Coordinator ----------------------------
(***************************************************************************)
(* Continuous mode: run_continuous of src/src/sync/coordinator.rs with its *)
(* connections and retries, the three syncs after every connection, the    *)
(* times they commit, and the live phase that handles watcher events and   *)
(* broadcasts until the connection is lost.                                *)
(*                                                                         *)
(* A change, made here or on another device, is an item: the kind of its   *)
(* file and the time it was made; each is of a file of its own.  A sync is *)
(* what NoteSync.tla shows of one: asked for with the local items it       *)
(* lists, answered with the time and the items the client is due, and      *)
(* complete when it has counted as many messages as it expects.  Without   *)
(* broadcasts that is when all items are handled (CompleteMeansHandled     *)
(* there); a broadcast handled in the sync is counted like a detail, so    *)
(* that it returns with one item more left over (NoteSyncOvertaken).       *)
(*                                                                         *)
(* The server is external.  It broadcasts every change of another device   *)
(* to whom is connected.                                                   *)
(***************************************************************************)
EXTENDS Naturals, Sequences, FiniteSets

CONSTANTS
    Enabled,        \* the kinds of sync that the configuration enables
    MaxRetries,     \* client.reconnect_max_retries
    Timeouts,       \* may a sync last longer than SYNC_TIMEOUT_SECS?
    HandlerErrors,  \* may a handler fail on a working connection?
    MaxChanges,     \* bound: changes made here and on other devices
    MaxFailures,    \* bound: attempts to connect that fail
    MaxDrops,       \* bound: connections lost
    MaxRestarts     \* bound: ends and restarts of the process

Kinds == {"notes", "files", "settings"}

ASSUME CoordinatorAssumption ==
    /\ Enabled \subseteq Kinds
    /\ Timeouts \in BOOLEAN /\ HandlerErrors \in BOOLEAN
    /\ MaxRetries \in Nat /\ MaxChanges \in Nat /\ MaxFailures \in Nat
    /\ MaxDrops \in Nat /\ MaxRestarts \in Nat

VARIABLES
    phase,      \* where run_continuous is
    link,       \* does the connection work?
    retries,    \* reconnect_retries
    last,       \* the three last_*_sync_time of state, in memory
    saved,      \* the same in .fns_state.json
    session,    \* the sync in progress
    events      \* watch_rx: local items reported by the watcher

VARIABLES
    local,      \* local items the server does not have
    remote,     \* items of other devices the vault does not have
    pushed,     \* local items sent, on their way
    news,       \* remote items broadcast, on their way
    clock,      \* one tick per change
    failures, drops, restarts,  \* counters, bounded
    failedInARow,   \* ghost: attempts that failed since the last connection
    letGo,          \* ghost: remote items that this connection may not bring any more
    overtaken,      \* ghost: items left over when their sync returned Ok
    counted,        \* ghost: broadcasts that a sync has counted as details
    rushed          \* ghost: notes edited after a sync listed them and before its answer

programVars == <<phase, retries, last, saved, session, events>>
worldVars == <<local, remote, pushed, news, clock, rushed>>
boundVars == <<failures, drops, restarts, failedInARow>>
leftVars == <<overtaken, counted>>
vars == <<programVars, link, worldVars, boundVars, letGo, leftVars>>

Items == [kind : Kinds, time : Nat]
NoSession == [stage |-> "none", end |-> 0, listed |-> {}, due |-> {}, extra |-> 0]
---------------------------------------------------------------------------
TypeOK ==
    /\ phase \in Kinds \cup {"connecting", "sleeping", "live", "failed"}
    /\ link \in BOOLEAN
    /\ retries \in Nat
    /\ last \in [Kinds -> Nat] /\ saved \in [Kinds -> Nat]
    /\ session \in [stage : {"none", "asked", "answered"}, end : Nat,
                    listed : SUBSET Items, due : SUBSET Items, extra : Nat]
    /\ events \in Seq(Items)
    /\ local \subseteq Items /\ remote \subseteq Items
    /\ pushed \subseteq local /\ news \subseteq Items
    /\ clock \in Nat /\ failures \in Nat /\ drops \in Nat /\ restarts \in Nat
    /\ failedInARow \in Nat /\ letGo \subseteq Items /\ rushed \subseteq Items
    /\ overtaken \subseteq Items /\ counted \in Nat

Init ==
    /\ phase = "connecting" /\ link = FALSE /\ retries = 0
    /\ last = [k \in Kinds |-> 0] /\ saved = last
    /\ session = NoSession /\ events = <<>>
    /\ local = {} /\ remote = {} /\ pushed = {} /\ news = {} /\ clock = 0
    /\ failures = 0 /\ drops = 0 /\ restarts = 0 /\ failedInARow = 0
    /\ letGo = {} /\ rushed = {} /\ overtaken = {} /\ counted = 0
---------------------------------------------------------------------------
(* Connections.                                                            *)

\* connect_and_auth fails.
ConnectFails ==
    /\ phase = "connecting"
    /\ failures < MaxFailures
    /\ failures' = failures + 1
    /\ failedInARow' = failedInARow + 1
    /\ retries' = retries + 1
    /\ phase' = IF retries' > MaxRetries THEN "failed" ELSE "sleeping"
    /\ UNCHANGED <<link, last, saved, session, events, worldVars, drops,
                   restarts, letGo, leftVars>>

\* The delay before the next attempt has passed.
Wake ==
    /\ phase = "sleeping"
    /\ phase' = "connecting"
    /\ UNCHANGED <<link, retries, last, saved, session, events, worldVars,
                   boundVars, letGo, leftVars>>

\* Mutant of Connect: the retries of earlier outages are not forgotten.
ConnectButCount ==
    /\ phase = "connecting"
    /\ link' = TRUE
    /\ phase' = "notes"
    /\ failedInARow' = 0 /\ letGo' = {}
    /\ UNCHANGED <<retries, last, saved, session, events, worldVars, failures,
                   drops, restarts, leftVars>>

\* Mutant of Connect: a reconnection is not followed by a sync.
ConnectWithoutSync ==
    /\ phase = "connecting"
    /\ link' = TRUE
    /\ retries' = 0
    /\ phase' = IF drops + failures > 0 THEN "live" ELSE "notes"
    /\ failedInARow' = 0 /\ letGo' = {}
    /\ UNCHANGED <<last, saved, session, events, worldVars, failures, drops,
                   restarts, leftVars>>

Connect ==
    /\ phase = "connecting"
    /\ link' = TRUE
    /\ retries' = 0
    /\ phase' = "notes"
    /\ failedInARow' = 0 /\ letGo' = {}
    /\ UNCHANGED <<last, saved, session, events, worldVars, failures, drops,
                   restarts, leftVars>>

\* The connection dies; the program learns of it when it next uses it.
LinkDrops ==
    /\ link
    /\ drops < MaxDrops
    /\ drops' = drops + 1
    /\ link' = FALSE
    /\ pushed' = {} /\ news' = {}
    /\ UNCHANGED <<programVars, local, remote, clock, rushed, failures, restarts,
                   failedInARow, letGo, leftVars>>

\* ws.next() yields None or an error in the live phase.
LeaveLive ==
    /\ phase = "live"
    /\ ~link
    /\ phase' = "connecting"
    /\ UNCHANGED <<link, retries, last, saved, session, events, worldVars,
                   boundVars, letGo, leftVars>>

\* The process ends (a signal, a crash, an Err) and is started again.
Restart ==
    /\ restarts < MaxRestarts
    /\ restarts' = restarts + 1
    /\ phase' = "connecting" /\ link' = FALSE /\ retries' = 0
    /\ last' = saved
    /\ session' = NoSession /\ events' = <<>>
    /\ pushed' = {} /\ news' = {}
    /\ failedInARow' = 0
    /\ UNCHANGED <<saved, local, remote, clock, rushed, failures, drops, letGo, leftVars>>
---------------------------------------------------------------------------
(* The three syncs.                                                        *)

After(k) == CASE k = "notes" -> "files" [] k = "files" -> "settings"
              [] k = "settings" -> "live"

\* A sync is over, with or without success.  After the last one commit_state
\* saves the times, unless that fails.
Over(k, times) ==
    /\ phase' = After(k)
    /\ last' = times
    /\ session' = NoSession
    /\ saved' \in IF After(k) = "live" THEN {last', saved} ELSE {saved}
    /\ UNCHANGED <<retries, events>>

Committed(k) ==
    [last EXCEPT ![k] = IF session.end > 0 THEN session.end ELSE @]

Skip(k) ==
    /\ phase = k
    /\ k \notin Enabled
    /\ Over(k, last)
    /\ UNCHANGED <<link, worldVars, boundVars, letGo, leftVars>>

\* The time a request carries.  Only notes are listed by that time; all files
\* and settings are listed, and files are asked for from the beginning.
Since(k) == IF k = "files" THEN 0 ELSE last[k]

\* Mutant of Listed: off by one.
ListedButLatest(k) == { x \in local : x.kind = k /\ (k = "notes" => x.time > last[k] + 1) }

Listed(k) == { x \in local : x.kind = k /\ (k = "notes" => x.time > last[k]) }

Ask(k) ==
    /\ phase = k
    /\ k \in Enabled
    /\ session.stage = "none" /\ link
    /\ session' = [stage |-> "asked", end |-> 0, listed |-> Listed(k),
                   due |-> {}, extra |-> 0]
    /\ UNCHANGED <<phase, link, retries, last, saved, events, worldVars,
                   boundVars, letGo, leftVars>>

\* The server answers: what it has that is newer, and the time of now.
Answer(k) ==
    /\ phase = k
    /\ session.stage = "asked" /\ link
    /\ session' = [session EXCEPT
            !.stage = "answered", !.end = clock,
            !.due = { x \in remote : x.kind = k /\ x.time > Since(k) }]
    /\ UNCHANGED <<phase, link, retries, last, saved, events, worldVars,
                   boundVars, letGo, leftVars>>

\* One listed item is pushed and acknowledged, or the detail of one due item
\* applied.
Serve(k) ==
    /\ phase = k
    /\ session.stage = "answered" /\ link
    /\ \/ \E x \in session.listed :
            /\ session' = [session EXCEPT !.listed = @ \ {x}]
            /\ local' = local \ {x} /\ pushed' = pushed \ {x}
            /\ UNCHANGED remote
       \/ \E x \in session.due :
            /\ session' = [session EXCEPT !.due = @ \ {x}]
            /\ remote' = remote \ {x}
            /\ UNCHANGED <<local, pushed>>
    /\ UNCHANGED <<phase, link, retries, last, saved, events, news, clock, rushed,
                   boundVars, letGo, leftVars>>

\* What a sync has not handled when it returns: some of the details and of the
\* pushed notes are on their way.
LeftOver == session.listed \cup session.due

Leave(heard) ==
    IF link
    THEN \E sent \in SUBSET session.due, out \in SUBSET (session.listed \cap local) :
            /\ news' = (news \ heard) \cup sent
            /\ pushed' = pushed \cup out
    ELSE UNCHANGED <<news, pushed>>

Returns(k) ==
    /\ Over(k, Committed(k))
    /\ Leave({})
    /\ letGo' = letGo \cup session.due
    /\ UNCHANGED <<link, local, remote, clock, rushed, boundVars, counted>>

\* Mutant of Complete: one message too few is expected.
CompleteOneShort(k) ==
    /\ phase = k
    /\ session.stage = "answered"
    /\ Cardinality(LeftOver) <= session.extra + 1
    /\ overtaken' = overtaken \cup LeftOver
    /\ Returns(k)

\* run_note_sync, run_file_sync, run_setting_sync return Ok: as many messages
\* were counted as the answer announced, the broadcasts among them.
Complete(k) ==
    /\ phase = k
    /\ session.stage = "answered"
    /\ Cardinality(LeftOver) <= session.extra
    /\ overtaken' = overtaken \cup LeftOver
    /\ Returns(k)

\* The file and setting syncs return Ok when their time is up, too.
TimeOut(k) ==
    /\ Timeouts
    /\ phase = k
    /\ k # "notes" /\ session.stage # "none"
    /\ Returns(k)
    /\ UNCHANGED overtaken

\* The phases in which a broadcast about kind k is handled: the sync of that
\* kind, the live phase, and for some of the file messages the setting sync.
HeardIn(k) == {k, "live"} \cup (IF k = "files" THEN {"settings"} ELSE {})

\* A sync that failed while the connection works leaves what it was due to
\* the next connection, but for the details already on their way.  The message
\* whose handler failed, perhaps a broadcast, is gone.
FailsOver(k, times) ==
    /\ Over(k, times)
    /\ \E heard \in {{}} \cup {{x} : x \in { y \in news :
                          phase \in HeardIn(y.kind) /\ session.stage # "none" }} :
        /\ Leave(heard)
        /\ letGo' = IF link THEN letGo \cup heard \cup { x \in remote : x.kind = k }
                    ELSE letGo
    /\ UNCHANGED <<link, local, remote, clock, rushed, boundVars, leftVars>>

\* Mutant of Fail: the time of a failed sync is committed.
FailButCommit(k) ==
    /\ phase = k
    /\ k \in Enabled
    /\ FailsOver(k, Committed(k))

\* A sync fails with its connection, or because a handler does: the error is
\* recorded, no time is committed, and the next sync is tried on the same
\* connection.
Fail(k) ==
    /\ phase = k
    /\ k \in Enabled
    /\ ~link \/ HandlerErrors
    /\ FailsOver(k, last)
---------------------------------------------------------------------------
(* The live phase, and broadcasts in any phase.                            *)

\* Mutant of HandleWatchEvent: what the server has is pushed again.
HandleWatchEventAgain ==
    /\ phase = "live"
    /\ events # <<>>
    /\ events' = Tail(events)
    /\ pushed' = IF link THEN pushed \cup {Head(events)} ELSE pushed
    /\ UNCHANGED <<phase, link, retries, last, saved, session, local, remote,
                   news, clock, rushed, boundVars, letGo, leftVars>>

\* handle_watch_event.  On a dead connection the push fails, which is logged
\* like the error of a handler: the event is gone.
HandleWatchEvent ==
    /\ phase = "live"
    /\ events # <<>>
    /\ events' = Tail(events)
    /\ \/ link /\ pushed' = pushed \cup ({Head(events)} \cap local)
       \/ (~link \/ HandlerErrors) /\ UNCHANGED pushed
    /\ UNCHANGED <<phase, link, retries, last, saved, session, local, remote,
                   news, clock, rushed, boundVars, letGo, leftVars>>

ServerAccepts(x) ==
    /\ pushed' = pushed \ {x}
    /\ local' = local \ {x}
    /\ UNCHANGED <<programVars, link, remote, news, clock, rushed, boundVars, letGo, leftVars>>

\* The sync of its own kind counts a broadcast like a detail of its answer, a
\* rename for the page only (process_sync_responses, check_all_received).
Counts(x) ==
    IF phase = x.kind
    THEN \E n \in {0, 1} : /\ session' = [session EXCEPT !.extra = @ + n]
                           /\ counted' = counted + n
    ELSE UNCHANGED <<session, counted>>

\* A broadcast is read by a sync that waits for its messages or in the live
\* phase.  It is applied, or ignored by the sync of another kind, or lost with
\* the error of its handler, which the live phase logs.
HearNews(x) ==
    /\ phase \in Kinds \cup {"live"}
    /\ phase # "live" => session.stage # "none"
    /\ news' = news \ {x}
    /\ \/ /\ phase \in HeardIn(x.kind)
          /\ remote' = remote \ {x}
          /\ Counts(x)
          /\ UNCHANGED letGo
       \/ /\ IF phase = "live" THEN HandlerErrors ELSE phase # x.kind
          /\ letGo' = letGo \cup {x}
          /\ UNCHANGED <<remote, session, counted>>
    /\ UNCHANGED <<phase, link, retries, last, saved, events, local, pushed,
                   clock, rushed, boundVars, overtaken>>
---------------------------------------------------------------------------
(* The user and the other devices.                                         *)

Item(k) == [kind |-> k, time |-> clock + 1]

UserEdits(k) ==
    /\ clock < MaxChanges
    /\ clock' = clock + 1
    /\ local' = local \cup {Item(k)}
    /\ events' = Append(events, Item(k))
    /\ rushed' = IF k = "notes" /\ phase = k /\ session.stage = "asked"
                 THEN rushed \cup {Item(k)} ELSE rushed
    /\ UNCHANGED <<phase, link, retries, last, saved, session, remote, pushed,
                   news, boundVars, letGo, leftVars>>

RemoteEdits(k) ==
    /\ clock < MaxChanges
    /\ clock' = clock + 1
    /\ remote' = remote \cup {Item(k)}
    /\ news' = IF link THEN news \cup {Item(k)} ELSE news
    /\ UNCHANGED <<programVars, link, local, pushed, rushed, boundVars, letGo, leftVars>>
---------------------------------------------------------------------------
SyncStep(k) ==
    Skip(k) \/ Ask(k) \/ Answer(k) \/ Serve(k) \/ Complete(k) \/ TimeOut(k) \/ Fail(k)

Progress ==
    \/ ConnectFails \/ Wake \/ Connect \/ LeaveLive
    \/ \E k \in Kinds : SyncStep(k)
    \/ HandleWatchEvent
    \/ \E x \in pushed : ServerAccepts(x)
    \/ \E x \in news : HearNews(x)

Next ==
    \/ Progress \/ LinkDrops \/ Restart
    \/ \E k \in Enabled : UserEdits(k) \/ RemoteEdits(k)

Spec == Init /\ [][Next]_vars

\* The runtime polls what is ready, a delay ends, and the server answers.
\* The bounds on failures and lost connections make the network good in the
\* end.
FairSpec == Spec /\ WF_vars(Progress)
---------------------------------------------------------------------------
(* Properties.                                                             *)

\* run_continuous gives up only when MaxRetries attempts in a row have failed
\* after the first one: a connection that was up in between wipes the count.
GivesUpRightly == phase = "failed" => failedInARow = MaxRetries + 1

\* The time of the note sync does not run ahead of the vault, in memory or in
\* the state file, whichever syncs failed, were cut off or saved their times
\* late (run_note_sync, commit_state).  The exception is a note whose detail
\* was still to come when its sync returned, because it had counted a broadcast
\* in its place (check_all_received).
NotesUpToLast ==
    \A x \in remote \ overtaken :
        x.kind = "notes" => x.time > last["notes"] /\ x.time > saved["notes"]

\* A sync that returns Ok leaves no more over than it has counted broadcasts:
\* none when it has heard none (check_all_received).
OneForEachBroadcast == Cardinality(overtaken) <= counted

Times == 1..MaxChanges
Missed(k, t) == [kind |-> k, time |-> t] \in remote

\* "Trigger incremental re-sync to catch up on missed changes" (README:210):
\* a note changed elsewhere reaches the vault on the next connection at the
\* latest, unless that connection stays up after the client has ignored the
\* broadcast, failed to handle it or failed to sync, or a sync has overtaken it.
NotesCatchUp ==
    \A t \in Times : Missed("notes", t) ~>
        \/ ~Missed("notes", t) \/ phase = "failed"
        \/ [kind |-> "notes", time |-> t] \in letGo \cup overtaken

\* "local changes are pushed to the server" (README:11): a note that the
\* server lacks is newer than the time of the last sync, so that the next one
\* lists it even when its event was lost with a connection.  The exceptions are
\* a note edited while a sync waits for its answer, which that sync has not
\* listed though it commits a later time (run_note_sync,
\* collect_local_notes_filtered), and one listed whose push was still to be
\* acknowledged when its sync returned, a broadcast counted in its place.
ForgottenOnlyIfPassed ==
    \A x \in local \ (rushed \cup overtaken) :
        x.kind = "notes" => x.time > last["notes"] /\ x.time > saved["notes"]
=============================================================================
