---------------------------- MODULE SettingSync ----------------------------
(***************************************************************************)
(* The setting sync of fns-cli and the live phase that follows it:         *)
(* src/src/sync/setting.rs with run_setting_sync,                          *)
(* process_setting_sync_messages, handle_setting_message and the setting   *)
(* branches of handle_watch_event and handle_server_message                *)
(* (src/src/sync/coordinator.rs).                                          *)
(*                                                                         *)
(* The setting sync is the last of the three; commit_state and the live    *)
(* phase follow it without an await.  What it shares with the note sync    *)
(* (pages, counters) has the names of NoteSync.tla.                        *)
(*                                                                         *)
(* The server is external: it answers SettingSync with the count of        *)
(* SettingSyncEnd, sends one page per SettingSyncPageAck, acknowledges     *)
(* every SettingModify, and broadcasts changes.  Its clock ticks once per  *)
(* change.                                                                 *)
(***************************************************************************)
EXTENDS SettingEngine, Integers, FiniteSets

CONSTANTS
    PageSize,       \* details per page the server sends
    QuietInSync,    \* does the server keep changes from a client that syncs?
    Timeouts,       \* may a sync last longer than SYNC_TIMEOUT_SECS?
    IOErrors,       \* may a handler, or the write of .fns_state.json, fail?
    MaxChanges,     \* bound: changes by the user and by other devices
    MaxSessions,    \* bound: setting syncs started
    MaxBroadcasts   \* bound: changes broadcast

ASSUME SettingSyncAssumption ==
    /\ IsFiniteSet(Paths)
    /\ PageSize \in Nat \ {0}
    /\ QuietInSync \in BOOLEAN /\ Timeouts \in BOOLEAN /\ IOErrors \in BOOLEAN
    /\ MaxChanges \in Nat /\ MaxSessions \in Nat /\ MaxBroadcasts \in Nat

VARIABLES
    phase,          \* "idle" (no connection, or a dead one not yet noticed),
                    \* "syncing", "live"
    expected,       \* sum of the four expected_* counters
    received,       \* sum of the four received_* counters
    pending,        \* pending_uploads
    gotEnd,         \* got_end
    pendingLast,    \* pending_last_time
    page,           \* page_active, page_index, page_total, page_received, page_is_last
    pagingStarted,  \* paging_started
    pageLastSeen,   \* page_last_seen
    complete,       \* sync_complete
    lastTime,       \* state.last_setting_sync_time, in memory
    saved,          \* the same field of .fns_state.json
    events          \* watch_rx: what the watcher has reported

VARIABLES
    toServer, toClient,     \* the two directions of the connection
    srv,                    \* the server's copy: content and time of the last change
    clock,                  \* the server's clock
    due,                    \* what the server decided for each path
    owed,                   \* paths of this session not yet put on a page
    onPage,                 \* paths of the current page whose detail is not yet sent
    pageNo                  \* index of the last page started, -1 before the first

VARIABLES
    sessions, changes, broadcasts,  \* counters, bounded
    edited,     \* ghost: paths with a local change that no push has carried over
    silent,     \* ghost: paths that nothing in this session will count any more
    cutOff      \* ghost: paths that were outstanding when a sync was timed out

countVars   == <<expected, gotEnd, pendingLast, pagingStarted>>
sessionVars == <<countVars, received, pending, page, pageLastSeen, complete,
                 silent>>
timeVars    == <<lastTime, saved, cutOff>>
pageVars    == <<due, owed, onPage, pageNo>>
boundVars   == <<sessions, changes, broadcasts>>
vars == <<engineVars, phase, sessionVars, timeVars, events, toServer, toClient,
          srv, clock, pageVars, boundVars, edited>>
---------------------------------------------------------------------------
(* Messages and events.                                                    *)

DetailTypes == {"SettingSyncModify", "SettingSyncDelete", "SettingSyncMtime",
                "SettingSyncNeedUpload"}

Decisions ==
    { d \in [type : DetailTypes, content : Sendable \cup {Absent}] :
        d.type = "SettingSyncModify" => d.content # Absent }

Detail(p) == [type |-> due[p].type, path |-> p, content |-> due[p].content]

Details ==
    { d \in [type : DetailTypes, path : Paths, content : Sendable \cup {Absent}] :
        d.type = "SettingSyncModify" => d.content # Absent }

ServerMsgs ==
    [type : {"SettingSyncEnd"}, count : Nat, last : Nat]
    \cup [type : {"SettingSyncPage"}, index : Nat, total : Nat, last : BOOLEAN]
    \cup Details
    \cup [type : {"SettingSyncRename"}, old : Paths, path : Paths]
    \cup [type : {"SettingModifyAck"}, path : Paths]

ClientMsgs ==
    [type : {"SettingSync"}, last : Nat, settings : [Paths -> Contents \cup {Absent}]]
    \cup [type : {"SettingSyncPageAck"}, index : Int]
    \cup [type : {"SettingModify"}, path : Paths, content : Sendable]
    \cup [type : {"SettingDelete"}, path : Paths, content : {Absent}]

Events ==
    [kind : {"Modified", "Deleted"}, path : Paths]
    \cup [kind : {"Moved"}, old : Paths, path : Paths]

Written(p) == <<[kind |-> "Modified", path |-> p]>>
Removed(p) == <<[kind |-> "Deleted", path |-> p]>>
Renamed(old, new) == Written(new) \o <<[kind |-> "Moved", old |-> old, path |-> new]>>

PageAck(i) == [type |-> "SettingSyncPageAck", index |-> i]

NoPage == [active |-> FALSE, index |-> 0, total |-> 0, received |-> 0,
           last |-> FALSE]

\* Details on their way to the client, and the paths they are about.
Flight(channel) == { i \in 1..Len(channel) : channel[i].type \in DetailTypes }
FlightPaths(channel) == { channel[i].path : i \in Flight(channel) }

\* The paths the running session has not finished with: the server still owes
\* their detail, has it on its page, or has sent it, or the client has pushed
\* them and waits for the acknowledgement.
Outstanding == owed \cup onPage \cup FlightPaths(toClient) \cup pending

\* With those that it has dropped: what the counters still miss.
Uncounted == Outstanding \cup silent
---------------------------------------------------------------------------
TypeOK ==
    /\ EngineTypeOK
    /\ phase \in {"idle", "syncing", "live"}
    /\ expected \in Nat /\ received \in Nat
    /\ pending \subseteq Paths
    /\ gotEnd \in BOOLEAN /\ pagingStarted \in BOOLEAN
    /\ pageLastSeen \in BOOLEAN /\ complete \in BOOLEAN
    /\ page \in [active : BOOLEAN, index : Nat, total : Nat, received : Nat,
                 last : BOOLEAN]
    /\ pendingLast \in Nat /\ lastTime \in Nat /\ saved \in Nat
    /\ events \in Seq(Events)
    /\ toServer \in Seq(ClientMsgs) /\ toClient \in Seq(ServerMsgs)
    /\ srv \in [Paths -> [content : Sendable \cup {Absent}, time : Nat]]
    /\ clock \in Nat
    /\ due \in [Paths -> Decisions]
    /\ owed \subseteq Paths /\ onPage \subseteq Paths
    /\ pageNo \in Nat \cup {-1}
    /\ sessions \in Nat /\ changes \in Nat /\ broadcasts \in Nat
    /\ edited \subseteq Paths /\ silent \subseteq Paths /\ cutOff \subseteq Paths

\* Client and server start with arbitrary settings, and nothing ever synced.
Init ==
    /\ disk \in [Paths -> Contents \cup {Absent}]
    /\ echo = [p \in Paths |-> NoEntry]
    /\ phase = "idle"
    /\ expected = 0 /\ received = 0 /\ pending = {}
    /\ gotEnd = FALSE /\ pendingLast = 0 /\ page = NoPage
    /\ pagingStarted = FALSE /\ pageLastSeen = FALSE /\ complete = FALSE
    /\ lastTime = 0 /\ saved = 0 /\ events = <<>>
    /\ toServer = <<>> /\ toClient = <<>>
    /\ srv \in [Paths -> { [content |-> c, time |-> 1] : c \in Sendable }
                         \cup { [content |-> Absent, time |-> 0] }]
    /\ clock = 1
    /\ due = [p \in Paths |-> [type |-> "SettingSyncMtime", content |-> Absent]]
    /\ owed = {} /\ onPage = {} /\ pageNo = -1
    /\ sessions = 0 /\ changes = 0 /\ broadcasts = 0
    /\ edited = { p \in Paths : disk[p] # Absent /\ disk[p] # srv[p].content }
    /\ silent = {} /\ cutOff = {}
---------------------------------------------------------------------------
(* The client's session.                                                   *)

\* Mutant of ResetCounters: uploads of the last session are still awaited.
ResetCountersButPending ==
    /\ expected' = 0 /\ received' = 0 /\ pending' = pending
    /\ gotEnd' = FALSE /\ pendingLast' = 0 /\ page' = NoPage
    /\ pagingStarted' = FALSE /\ pageLastSeen' = FALSE /\ complete' = FALSE
    /\ silent' = {}

\* reset_counters
ResetCounters ==
    /\ expected' = 0 /\ received' = 0 /\ pending' = {}
    /\ gotEnd' = FALSE /\ pendingLast' = 0 /\ page' = NoPage
    /\ pagingStarted' = FALSE /\ pageLastSeen' = FALSE /\ complete' = FALSE
    /\ silent' = {}

\* request_sync, on a connection that has just been authenticated.
RequestSync ==
    /\ phase = "idle"
    /\ sessions < MaxSessions
    /\ ResetCounters
    /\ toServer' = <<[type |-> "SettingSync", last |-> lastTime,
                      settings |-> LocalSettings]>>
    /\ phase' = "syncing"
    /\ sessions' = sessions + 1
    /\ UNCHANGED <<engineVars, timeVars, events, toClient, srv, clock, pageVars,
                   changes, broadcasts, edited>>

\* Mutant of AllReceived: complete one message early.
AllButOneReceived(rcv, seen) ==
    /\ gotEnd
    /\ rcv + 1 >= expected
    /\ (expected > 0 /\ pagingStarted) => seen

\* check_all_received would set sync_complete, with the counter rcv.
AllReceived(rcv, seen) ==
    /\ gotEnd
    /\ rcv >= expected
    /\ (expected > 0 /\ pagingStarted) => seen

\* mark_page_message
MarkPageMessage(pg) ==
    IF pg.active THEN [pg EXCEPT !.received = @ + 1] ELSE pg

\* Mutant of PageFinished: one message late.
PageFinishedLate(pg) == pg.active /\ pg.received > pg.total

\* finish_page_if_needed goes past its early return.
PageFinished(pg) == pg.active /\ pg.received >= pg.total

\* run_setting_sync takes the pending time over when
\* process_setting_sync_messages returns Ok; commit_state follows.
Return ==
    /\ phase' = "live"
    /\ lastTime' = IF pendingLast' > 0 THEN pendingLast' ELSE lastTime
    /\ saved' \in IF IOErrors THEN {lastTime', saved} ELSE {lastTime'}
    /\ cutOff' = IF complete' THEN cutOff ELSE cutOff \cup Uncounted'

\* Mutant of NextTurn: the pending time is taken over at every turn.
NextTurnCommits ==
    \/ complete' /\ Return
    \/ ~complete' /\ Timeouts /\ Return
    \/ /\ ~complete'
       /\ phase' = phase
       /\ lastTime' = IF pendingLast' > 0 THEN pendingLast' ELSE lastTime
       /\ UNCHANGED <<saved, cutOff>>

\* The next turn of the loop of process_setting_sync_messages looks at the
\* time and at sync_complete, and waits for a message if neither ends it.  The
\* time is looked at nowhere else: a silent server is waited for without end.
NextTurn ==
    \/ complete' /\ Return
    \/ ~complete' /\ Timeouts /\ Return
    \/ ~complete' /\ UNCHANGED <<phase, timeVars>>

\* What follows a handler: check_all_received if the handler calls it, then
\* finish_page_if_needed.  rcv and pg are the counters after the handler, out
\* what it sent.
Settle(checks, rcv, pg, out) ==
    LET seen == pageLastSeen \/ (PageFinished(pg) /\ pg.last)
    IN /\ received' = rcv
       /\ page' = IF PageFinished(pg)
                  THEN [pg EXCEPT !.active = FALSE, !.total = 0, !.received = 0]
                  ELSE pg
       /\ pageLastSeen' = seen
       /\ complete' = \/ complete
                      \/ checks /\ AllReceived(rcv, pageLastSeen)
                      \/ PageFinished(pg) /\ pg.last /\ AllReceived(rcv, TRUE)
       /\ toServer' = toServer \o out \o
                      IF PageFinished(pg) /\ ~pg.last THEN <<PageAck(pg.index)>>
                                                      ELSE <<>>
       /\ UNCHANGED countVars

Receive(type) ==
    /\ phase = "syncing"
    /\ toClient # <<>>
    /\ Head(toClient).type = type
    /\ toClient' = Tail(toClient)
    /\ UNCHANGED <<srv, clock, pageVars, boundVars>>

\* A file written or removed by a handler is reported by the watcher, and
\* what the user had there is gone.
ApplyModify(m) ==
    /\ HandleSettingModify(m.path, m.content)
    /\ IF m.path \in Excluded THEN UNCHANGED <<events, edited>>
       ELSE /\ events' = events \o Written(m.path)
            /\ edited' = edited \ {m.path}

ApplyDelete(m) ==
    /\ HandleSettingDelete(m.path)
    /\ IF m.path \in Excluded \/ Suppressed(m.path) THEN UNCHANGED <<events, edited>>
       ELSE /\ events' = IF disk[m.path] = Absent THEN events
                                                  ELSE events \o Removed(m.path)
            /\ edited' = edited \ {m.path}

ApplyRename(m) ==
    /\ HandleSettingRename(m.old, m.path)
    /\ IF disk[m.old] = Absent THEN UNCHANGED <<events, edited>>
       ELSE /\ events' = events \o Renamed(m.old, m.path)
            /\ edited' = IF m.old \in edited THEN edited \cup {m.path} ELSE edited

ReceiveModify ==
    /\ Receive("SettingSyncModify")
    /\ ApplyModify(Head(toClient))
    /\ Settle(TRUE, received + 1, MarkPageMessage(page), <<>>)
    /\ UNCHANGED <<pending, silent>>
    /\ NextTurn

\* A deletion suppressed as an echo returns before received_delete is raised:
\* it is a message of its page, and counted nowhere.
ReceiveDelete ==
    /\ Receive("SettingSyncDelete")
    /\ ApplyDelete(Head(toClient))
    /\ LET p == Head(toClient).path
       IN IF Suppressed(p)
          THEN /\ Settle(FALSE, received, MarkPageMessage(page), <<>>)
               /\ silent' = silent \cup {p}
          ELSE /\ Settle(TRUE, received + 1, MarkPageMessage(page), <<>>)
               /\ UNCHANGED silent
    /\ UNCHANGED pending
    /\ NextTurn

\* Only the file's time changes.
ReceiveMtime ==
    /\ Receive("SettingSyncMtime")
    /\ Settle(TRUE, received + 1, MarkPageMessage(page), <<>>)
    /\ UNCHANGED <<engineVars, events, edited, pending, silent>>
    /\ NextTurn

\* A rename is a message of a page that no counter counts.
ReceiveRename ==
    /\ Receive("SettingSyncRename")
    /\ ApplyRename(Head(toClient))
    /\ Settle(FALSE, received, MarkPageMessage(page), <<>>)
    /\ UNCHANGED <<pending, silent>>
    /\ NextTurn

\* handle_setting_need_upload waits for the acknowledgement of a push.
Awaited(p) == p \notin Excluded /\ disk[p] \in Contents \ Binary

\* A path that is excluded, missing or not text is counted at once, any other
\* when its SettingModify is acknowledged; push_modify gives up on a file that
\* is not UTF-8, and nothing will acknowledge that.
ReceiveNeedUpload ==
    /\ Receive("SettingSyncNeedUpload")
    /\ LET p == Head(toClient).path
       IN IF Awaited(p)
          THEN /\ pending' = pending \cup {p}
               /\ echo' = PushModifyEcho(p, TRUE)
               /\ Settle(TRUE, received, MarkPageMessage(page), PushModifyMsgs(p, TRUE))
               /\ silent' = IF Pushes(p, TRUE) THEN silent ELSE silent \cup {p}
          ELSE /\ Settle(TRUE, received + 1, MarkPageMessage(page), <<>>)
               /\ UNCHANGED <<pending, echo, silent>>
    /\ UNCHANGED <<disk, events, edited>>
    /\ NextTurn

\* handle_setting_page
ReceivePage ==
    /\ Receive("SettingSyncPage")
    /\ LET m == Head(toClient)
       IN Settle(FALSE, received,
                 [active |-> TRUE, index |-> m.index, total |-> m.total,
                  received |-> 0, last |-> m.last], <<>>)
    /\ UNCHANGED <<engineVars, events, edited, pending, silent>>
    /\ NextTurn

\* handle_setting_modify_ack
ReceiveModifyAck ==
    /\ Receive("SettingModifyAck")
    /\ LET p == Head(toClient).path
       IN /\ pending' = pending \ {p}
          /\ Settle(p \in pending, IF p \in pending THEN received + 1 ELSE received,
                    page, <<>>)
    /\ UNCHANGED <<engineVars, events, edited, silent>>
    /\ NextTurn

\* handle_setting_end, then the request for the first page unless the sync is
\* already complete.
ReceiveEnd ==
    /\ Receive("SettingSyncEnd")
    /\ LET m == Head(toClient)
           done == m.count = 0 \/ (/\ received >= m.count
                                   /\ pagingStarted => pageLastSeen)
       IN /\ expected' = m.count
          /\ pendingLast' = m.last
          /\ complete' = (complete \/ done)
          /\ pagingStarted' = (pagingStarted \/ ~complete')
          /\ toServer' = IF complete' THEN toServer
                                      ELSE Append(toServer, PageAck(-1))
    /\ gotEnd' = TRUE
    /\ UNCHANGED <<engineVars, events, edited, received, pending, page,
                   pageLastSeen, silent>>
    /\ NextTurn

ClientReceives ==
    \/ ReceiveModify \/ ReceiveDelete \/ ReceiveMtime \/ ReceiveRename
    \/ ReceiveNeedUpload \/ ReceivePage \/ ReceiveModifyAck \/ ReceiveEnd
---------------------------------------------------------------------------
(* Failures.                                                               *)

FailedEcho(m) ==
    CASE m.type = "SettingSyncModify" -> FailedModifyEcho(m.path)
      [] m.type = "SettingSyncDelete" -> echo
      [] m.type = "SettingSyncRename" -> FailedRenameEcho(m.old)

\* A handler gets as far as a write to the vault.
Writes(m) ==
    \/ m.type = "SettingSyncModify" /\ m.path \notin Excluded
    \/ /\ m.type = "SettingSyncDelete" /\ m.path \notin Excluded
       /\ ~Suppressed(m.path) /\ disk[m.path] # Absent
    \/ m.type = "SettingSyncRename" /\ disk[m.old] # Absent

\* An I/O error in a handler ends the sync: nothing is counted, no time is
\* taken over, and commit_state saves the times as they are.
HandlerFails ==
    /\ IOErrors
    /\ phase = "syncing"
    /\ toClient # <<>> /\ Writes(Head(toClient))
    /\ echo' = FailedEcho(Head(toClient))
    /\ toClient' = Tail(toClient)
    /\ phase' = "live"
    /\ saved' \in {lastTime, saved}
    /\ UNCHANGED <<disk, sessionVars, lastTime, cutOff, events, toServer, srv,
                   clock, pageVars, boundVars, edited>>

\* The connection is lost, with what it carried, and the server forgets the
\* session.
ConnectionLost ==
    /\ phase # "idle"
    /\ phase' = "idle"
    /\ toServer' = <<>> /\ toClient' = <<>>
    /\ owed' = {} /\ onPage' = {} /\ pageNo' = -1
    /\ UNCHANGED <<disk, sessionVars, cutOff, srv, clock, due, boundVars, edited>>

\* A sync in progress ends in error; commit_state saves the times as they are.
Disconnect ==
    /\ ConnectionLost
    /\ saved' \in {lastTime, saved}
    /\ UNCHANGED <<echo, lastTime, events>>

\* The process ends and is started again: .fns_state.json is what remains.
Restart ==
    /\ ConnectionLost
    /\ lastTime' = saved
    /\ echo' = [p \in Paths |-> NoEntry]
    /\ events' = <<>>
    /\ UNCHANGED saved
---------------------------------------------------------------------------
(* The live phase.                                                         *)

\* handle_server_message: of modifications, deletions and acknowledgements, and
\* of nothing else; what their handlers count, sync_complete with it, is not
\* looked at before request_sync resets it, and is left as it was.
LiveReceive ==
    /\ phase = "live"
    /\ toClient # <<>>
    /\ LET m == Head(toClient)
       IN \/ m.type = "SettingSyncModify" /\ ApplyModify(m)
          \/ m.type = "SettingSyncDelete" /\ ApplyDelete(m)
          \/ /\ m.type \notin {"SettingSyncModify", "SettingSyncDelete"}
             /\ UNCHANGED <<engineVars, events, edited>>
    /\ toClient' = Tail(toClient)
    /\ UNCHANGED <<phase, sessionVars, timeVars, toServer, srv, clock, pageVars,
                   boundVars>>

\* An I/O error there is logged, and the message forgotten.
LiveHandlerFails ==
    /\ IOErrors
    /\ phase = "live"
    /\ toClient # <<>>
    /\ Head(toClient).type \in {"SettingSyncModify", "SettingSyncDelete"}
    /\ Writes(Head(toClient))
    /\ echo' = FailedEcho(Head(toClient))
    /\ toClient' = Tail(toClient)
    /\ UNCHANGED <<disk, phase, sessionVars, timeVars, events, toServer, srv,
                   clock, pageVars, boundVars, edited>>

\* The messages that a watcher event is turned into, and the echo cache after
\* them: push_modify, push_delete, push_rename (the new path, then the old).
EventMsgs(e) ==
    CASE e.kind = "Modified" -> PushModifyMsgs(e.path, FALSE)
      [] e.kind = "Deleted"  -> PushDeleteMsgs(e.path)
      [] e.kind = "Moved"    -> PushModifyMsgs(e.path, FALSE) \o PushDeleteMsgs(e.old)

EventEcho(e) ==
    CASE e.kind = "Modified" -> PushModifyEcho(e.path, FALSE)
      [] e.kind = "Deleted"  -> PushDeleteEcho(echo, e.path)
      [] e.kind = "Moved"    -> PushDeleteEcho(PushModifyEcho(e.path, FALSE), e.old)

\* handle_watch_event
HandleWatchEvent ==
    /\ phase = "live"
    /\ events # <<>>
    /\ toServer' = toServer \o EventMsgs(Head(events))
    /\ echo' = EventEcho(Head(events))
    /\ events' = Tail(events)
    /\ UNCHANGED <<disk, phase, sessionVars, timeVars, toClient, srv, clock,
                   pageVars, boundVars, edited>>

\* What a push that fails leaves in the echo cache: push_modify changes its
\* entry after the send only, push_delete drops its own before it, and
\* push_rename fails at its first send or at its second.
FailedPushEcho(e) ==
    LET dropped(cache, p) == [cache EXCEPT ![p] = NoEntry]
    IN CASE e.kind = "Modified" -> {echo}
         [] e.kind = "Deleted"  -> {dropped(echo, e.path)}
         [] e.kind = "Moved"    ->
                {dropped(PushModifyEcho(e.path, FALSE), e.old)}
                \cup IF Pushes(e.path, FALSE) THEN {echo} ELSE {}

\* The connection is dead, and the live loop has not noticed: each event that it
\* takes before ws.next() tells it is logged as a failure, and gone.
PushFails ==
    /\ phase = "idle"
    /\ events # <<>>
    /\ echo' \in FailedPushEcho(Head(events))
    /\ events' = Tail(events)
    /\ UNCHANGED <<disk, phase, sessionVars, timeVars, toServer, toClient, srv,
                   clock, pageVars, boundVars, edited>>
---------------------------------------------------------------------------
(* The server.                                                             *)

\* What the server can decide for a path when the client's last sync was at
\* last and it listed content c (Absent: not listed).  Which of two changes
\* wins is left open, and so is whether it reports a deletion to a client that
\* does not list the file.
Verdicts(p, last, c) ==
    LET newer == srv[p].time > last
        there == srv[p].content
    IN CASE c # Absent /\ c = there -> {"InSync", "SettingSyncMtime"}
         [] c = Absent /\ there = Absent ->
                {"InSync"} \cup IF newer THEN {"SettingSyncDelete"} ELSE {}
         [] c = Absent /\ there # Absent ->
                IF newer THEN {"SettingSyncModify"} ELSE {"InSync"}
         [] c # Absent /\ c # there ->
                {"SettingSyncNeedUpload"} \cup
                (IF ~newer THEN {}
                 ELSE IF there = Absent THEN {"SettingSyncDelete"}
                                        ELSE {"SettingSyncModify"})

FromClient(type) ==
    /\ toServer # <<>>
    /\ Head(toServer).type = type
    /\ toServer' = Tail(toServer)
    /\ UNCHANGED <<engineVars, phase, sessionVars, timeVars, events>>

ServerAnswersSync ==
    /\ FromClient("SettingSync")
    /\ LET m == Head(toServer)
       IN \E verdict \in [Paths -> DetailTypes \cup {"InSync"}] :
            /\ \A p \in Paths : verdict[p] \in Verdicts(p, m.last, m.settings[p])
            /\ owed' = { p \in Paths : verdict[p] # "InSync" }
            /\ due' = [p \in Paths |->
                         IF verdict[p] = "InSync" THEN due[p]
                         ELSE [type |-> verdict[p], content |-> srv[p].content]]
    /\ toClient' = Append(toClient, [type |-> "SettingSyncEnd",
                                     count |-> Cardinality(owed'), last |-> clock])
    /\ UNCHANGED <<srv, clock, onPage, pageNo, boundVars, edited>>

\* An acknowledgement of the last page sent asks for the next one; any other
\* is ignored.
ServerStartsPage ==
    /\ FromClient("SettingSyncPageAck")
    /\ onPage = {}
    /\ \/ /\ Head(toServer).index = pageNo /\ owed # {}
          /\ \E batch \in SUBSET owed :
               /\ Cardinality(batch) = IF Cardinality(owed) < PageSize
                                       THEN Cardinality(owed) ELSE PageSize
               /\ onPage' = batch
               /\ owed' = owed \ batch
               /\ pageNo' = pageNo + 1
               /\ toClient' = Append(toClient,
                     [type |-> "SettingSyncPage", index |-> pageNo + 1,
                      total |-> Cardinality(batch), last |-> batch = owed])
       \/ /\ Head(toServer).index # pageNo \/ owed = {}
          /\ UNCHANGED <<owed, onPage, pageNo, toClient>>
    /\ UNCHANGED <<srv, clock, due, boundVars, edited>>

ServerSendsDetail ==
    \E p \in onPage :
       /\ onPage' = onPage \ {p}
       /\ toClient' = Append(toClient, Detail(p))
       /\ UNCHANGED <<engineVars, phase, sessionVars, timeVars, events, toServer,
                      srv, clock, due, owed, pageNo, boundVars, edited>>

\* A connected client hears of a change as it happens; if the server keeps
\* quiet during a sync, it hears only of renames, as messages of a page, once
\* there are pages.
Hears(type) ==
    \/ phase = "live"
    \/ phase = "syncing" /\ (QuietInSync => pageNo >= 0 /\ type = "SettingSyncRename")

\* m is sent after what the channel holds, or is not.
MayBroadcast(channel, m) ==
    \/ toClient' = channel /\ UNCHANGED broadcasts
    \/ /\ Hears(m.type) /\ broadcasts < MaxBroadcasts
       /\ broadcasts' = broadcasts + 1
       /\ toClient' = Append(channel, m)

Change(p, c) == [type |-> IF c = Absent THEN "SettingSyncDelete" ELSE "SettingSyncModify",
                 path |-> p, content |-> c]

Store(p, c) ==
    /\ srv' = [srv EXCEPT ![p] = [content |-> c, time |-> clock + 1]]
    /\ clock' = clock + 1

\* A pushed setting becomes the server's copy, and is acknowledged; the author
\* may be told like everybody else.
ServerAcceptsModify ==
    /\ FromClient("SettingModify")
    /\ LET m == Head(toServer)
       IN /\ Store(m.path, m.content)
          /\ edited' = IF disk[m.path] = m.content THEN edited \ {m.path} ELSE edited
          /\ MayBroadcast(Append(toClient, [type |-> "SettingModifyAck", path |-> m.path]),
                          Change(m.path, m.content))
    /\ UNCHANGED <<pageVars, sessions, changes>>

ServerAcceptsDelete ==
    /\ FromClient("SettingDelete")
    /\ LET p == Head(toServer).path
       IN /\ edited' = IF disk[p] = Absent THEN edited \ {p} ELSE edited
          /\ \/ /\ srv[p].content # Absent
                /\ Store(p, Absent)
                /\ MayBroadcast(toClient, Change(p, Absent))
             \/ /\ srv[p].content = Absent
                /\ UNCHANGED <<srv, clock, toClient, broadcasts>>
    /\ UNCHANGED <<pageVars, sessions, changes>>

ServerSteps ==
    \/ ServerAnswersSync \/ ServerStartsPage \/ ServerSendsDetail
    \/ ServerAcceptsModify \/ ServerAcceptsDelete
---------------------------------------------------------------------------
(* The user and the other devices.                                         *)

Tick ==
    /\ changes < MaxChanges
    /\ changes' = changes + 1

UserChanges(p, c) ==
    /\ c # disk[p]
    /\ Tick
    /\ disk' = [disk EXCEPT ![p] = c]
    /\ events' = events \o (IF c = Absent THEN Removed(p) ELSE Written(p))
    /\ edited' = edited \cup {p}
    /\ UNCHANGED <<echo, phase, sessionVars, timeVars, toServer, toClient, srv,
                   clock, pageVars, sessions, broadcasts>>

UserRenames(old, new) ==
    /\ old # new /\ disk[old] # Absent
    /\ Tick
    /\ disk' = [disk EXCEPT ![old] = Absent, ![new] = disk[old]]
    /\ events' = events \o Renamed(old, new)
    /\ edited' = edited \cup {old, new}
    /\ UNCHANGED <<echo, phase, sessionVars, timeVars, toServer, toClient, srv,
                   clock, pageVars, sessions, broadcasts>>

RemoteChanges(p, c) ==
    /\ c # srv[p].content
    /\ Tick
    /\ Store(p, c)
    /\ MayBroadcast(toClient, Change(p, c))
    /\ UNCHANGED <<engineVars, phase, sessionVars, timeVars, events, toServer,
                   pageVars, sessions, edited>>

RemoteRenames(old, new) ==
    /\ old # new /\ srv[old].content # Absent
    /\ Tick
    /\ srv' = [srv EXCEPT ![old] = [content |-> Absent, time |-> clock + 1],
                          ![new] = [content |-> srv[old].content, time |-> clock + 1]]
    /\ clock' = clock + 1
    /\ MayBroadcast(toClient, [type |-> "SettingSyncRename", old |-> old, path |-> new])
    /\ UNCHANGED <<engineVars, phase, sessionVars, timeVars, events, toServer,
                   pageVars, sessions, edited>>

Changes ==
    \E p \in Paths :
        \/ \E c \in Contents \cup {Absent} : UserChanges(p, c)
        \/ \E c \in Sendable \cup {Absent} : RemoteChanges(p, c)
        \/ \E q \in Paths : UserRenames(p, q) \/ RemoteRenames(p, q)
---------------------------------------------------------------------------
Next ==
    \/ RequestSync \/ ClientReceives \/ HandlerFails
    \/ LiveReceive \/ LiveHandlerFails \/ HandleWatchEvent \/ PushFails
    \/ Disconnect \/ Restart
    \/ ServerSteps \/ Changes

Spec == Init /\ [][Next]_vars

\* The loop takes a message when there is one, and the server answers.
FairSpec == Spec /\ WF_vars(ClientReceives) /\ WF_vars(ServerSteps)
---------------------------------------------------------------------------
(* Properties.                                                             *)

\* Why a sync that is complete has nothing left: each path is in one place
\* only, the request and SettingSyncEnd are alone on the connection, and from
\* SettingSyncEnd on the counters differ by the number of uncounted paths
\* (handle_setting_end, the handlers' counters, handle_setting_modify_ack).
Asking == \E i \in 1..Len(toServer) : toServer[i].type = "SettingSync"
Answering == \E i \in 1..Len(toClient) : toClient[i].type = "SettingSyncEnd"

\* No two details of a channel are about the same path.
Distinct(channel) ==
    \A i, j \in Flight(channel) : channel[i].path = channel[j].path => i = j

OnePlaceEach ==
    /\ owed \cap onPage = {}
    /\ (owed \cup onPage) \cap (FlightPaths(toClient) \cup pending \cup silent) = {}
    /\ Distinct(toClient)
    /\ FlightPaths(toClient) \cap (pending \cup silent) = {}

\* The paths of the pushes on a channel, or of their acknowledgements.
PushesOf(channel) ==
    { channel[i].path : i \in { j \in 1..Len(channel) :
                                channel[j].type \in {"SettingModify", "SettingModifyAck"} } }

\* What will be acknowledged is nowhere else, and was not dropped.
PushesApart ==
    (PushesOf(toServer) \cup PushesOf(toClient))
       \cap (owed \cup onPage \cup FlightPaths(toClient) \cup silent) = {}

SessionInv ==
    /\ phase = "idle" => /\ toServer = <<>> /\ toClient = <<>>
                         /\ owed = {} /\ onPage = {} /\ pageNo = -1
    /\ Asking \/ Answering =>
         /\ phase = "syncing" /\ Len(toServer) + Len(toClient) = 1
         /\ received = 0 /\ pending = {} /\ onPage = {} /\ silent = {}
         /\ pageNo = -1 /\ ~gotEnd /\ ~page.active
    /\ Asking => owed = {}
    /\ Answering => toClient[1].count = Cardinality(Outstanding)
    /\ phase = "syncing" => ~complete /\ OnePlaceEach /\ PushesApart
    /\ phase = "syncing" /\ ~Asking /\ ~Answering =>
         gotEnd /\ received + Cardinality(Uncounted) = expected

\* What the next incremental sync rests on: a change the server made no later
\* than the committed time, in memory or in the state file, is in the vault,
\* unless the user has changed that file since or a sync was timed out while
\* the path was outstanding (run_setting_sync takes the time over all the
\* same).
MissedOnlyByTimeOut ==
    \A p \in Paths \ (edited \cup cutOff \cup Excluded) :
        srv[p].time <= lastTime \/ srv[p].time <= saved => disk[p] = srv[p].content

\* A sync ends by itself unless it has swallowed a deletion as an echo without
\* counting it, or waits for the acknowledgement of a file that it could not
\* push: those two, and nothing else, leave it waiting for ever
\* (process_setting_sync_messages looks at its time-out only after a message).
EndsUnlessSilent == phase = "syncing" ~> phase # "syncing" \/ silent # {}

\* The sync as the rest of the program sees it: what is left of it are the
\* paths that its counters still miss.  A time-out is a sync given up, whatever
\* run_setting_sync makes of it.
Stage ==
    CASE phase = "syncing" -> IF Asking THEN "asked" ELSE "answered"
      [] phase = "live" /\ complete -> "returned"
      [] OTHER -> "idle"

Session == INSTANCE SyncSession WITH
    Items <- Paths, stage <- Stage,
    left <- IF phase = "syncing" THEN Uncounted ELSE {}

\* The setting sync keeps the contract of a sync: it is complete only when
\* every path that the server had something to say about is handled, pushes
\* are acknowledged, and none has been dropped on the way (request_sync,
\* handle_setting_message, check_all_received).  It does while the server
\* keeps quiet during a sync: a broadcast would be counted as a detail.
KeepsContract == Session!Spec
=============================================================================
