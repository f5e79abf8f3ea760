----------------------------- MODULE NoteSync -----------------------------
(***************************************************************************)
(* One incremental note sync of fns-cli: sync_incremental and              *)
(* process_sync_responses of src/src/sync/note.rs, the commit of           *)
(* last_note_sync_time by run_note_sync and commit_state                   *)
(* (src/src/sync/coordinator.rs), and the disconnections, crashes and      *)
(* restarts between which the sync is repeated.                            *)
(*                                                                         *)
(* The server is external: it is modelled from what the client expects.    *)
(* It answers NoteSync with the counts of NoteSyncEnd, sends one page per  *)
(* NoteSyncPageAck (-1 asks for the first), and acknowledges every         *)
(* NoteModify.  Both directions are FIFO channels (one WebSocket).         *)
(*                                                                         *)
(* Times: the server's clock and the files' mtimes tick together, once per *)
(* change made by the user or by another device.                           *)
(***************************************************************************)
EXTENDS NoteEngine, Integers, FiniteSets

CONSTANTS
    PageSize,       \* bound: details per page the server sends
    SlowReads,      \* may the user act while push_modify reads a note?
    IOErrors,       \* may a handler fail to write to the vault?
    MaxChanges,     \* bound: changes by the user and by other devices
    MaxSessions,    \* bound: note syncs started
    MaxBroadcasts   \* bound: changes broadcast while a session is open

ASSUME NoteSyncAssumption ==
    /\ IsFiniteSet(Paths)
    /\ PageSize \in Nat \ {0}
    /\ SlowReads \in BOOLEAN /\ IOErrors \in BOOLEAN
    /\ MaxChanges \in Nat /\ MaxSessions \in Nat /\ MaxBroadcasts \in Nat

VARIABLES
    mtime,          \* modification time of the file at each path
    phase,          \* where the program is: "idle", "syncing", "others", "live"
    expected,       \* sum of the four expected_* counters
    received,       \* sum of the four received_* counters
    pending,        \* pending_uploads
    gotEnd,         \* got_end
    pendingLast,    \* pending_last_time
    page,           \* page_active, page_index, page_total, page_received, page_is_last
    pagingStarted,  \* paging_started
    pageLastSeen,   \* page_last_seen
    complete,       \* sync_complete
    lastTime,       \* state.last_note_sync_time, in memory
    saved           \* the same field of .fns_state.json

VARIABLES
    toServer, toClient,     \* the two directions of the connection
    srv,                    \* the server's copy: content and time of the last change
    clock,                  \* the server's clock
    owed,                   \* details of this session not yet put on a page
    onPage,                 \* details of the current page not yet sent
    pageNo                  \* index of the last page started, -1 before the first

VARIABLES
    sessions, changes, broadcasts,  \* counters, bounded
    edited                  \* ghost: paths with a local change that no push has carried
                            \* over, or with a rename that failed

sessionVars == <<expected, received, pending, gotEnd, pendingLast, page,
                 pagingStarted, pageLastSeen, complete>>
timeVars    == <<lastTime, saved>>
serverVars  == <<srv, clock, owed, onPage, pageNo>>
ghostVars   == <<sessions, changes, broadcasts, edited>>
vars == <<engineVars, mtime, phase, sessionVars, timeVars, toServer, toClient,
          serverVars, ghostVars>>
---------------------------------------------------------------------------
(* Messages.                                                               *)

DetailTypes == {"NoteSyncModify", "NoteSyncDelete", "NoteSyncMtime",
                "NoteSyncNeedPush"}

Detail(type, p) == [type |-> type, path |-> p, hash |-> srv[p].hash,
                    time |-> srv[p].time]

Details ==
    { d \in [type : DetailTypes, path : Paths, hash : Hashes \cup {Absent}, time : Nat] :
        d.type = "NoteSyncModify" => d.hash # Absent }

ServerMsgs ==
    [type : {"NoteSyncEnd"}, count : Nat, last : Nat]
    \cup [type : {"NoteSyncPage"}, index : Nat, total : Nat, last : BOOLEAN]
    \cup Details
    \cup [type : {"NoteSyncRename"}, old : Paths, path : Paths]
    \cup [type : {"NoteModifyAck"}, path : Paths]

ClientMsgs ==
    [type : {"NoteSync"}, last : Nat, notes : [Paths -> Hashes \cup {Absent}]]
    \cup [type : {"NoteSyncPageAck"}, index : Int]
    \cup [type : {"NoteModify"}, path : Paths, hash : Hashes]

\* The notes that details are about, one detail each.
DetailPaths(details) == { d.path : d \in details }
Size(details) == Cardinality(DetailPaths(details))

PageAck(i) == [type |-> "NoteSyncPageAck", index |-> i]

NoPage == [active |-> FALSE, index |-> 0, total |-> 0, received |-> 0,
           last |-> FALSE]
---------------------------------------------------------------------------
TypeOK ==
    /\ EngineTypeOK
    /\ mtime \in [Paths -> Nat]
    /\ phase \in {"idle", "syncing", "others", "live"}
    /\ expected \in Nat /\ received \in Nat
    /\ pending \subseteq Paths
    /\ gotEnd \in BOOLEAN /\ pagingStarted \in BOOLEAN
    /\ pageLastSeen \in BOOLEAN /\ complete \in BOOLEAN
    /\ page \in [active : BOOLEAN, index : Nat, total : Nat, received : Nat,
                 last : BOOLEAN]
    /\ pendingLast \in Nat /\ lastTime \in Nat /\ saved \in Nat
    /\ toServer \in Seq(ClientMsgs) /\ toClient \in Seq(ServerMsgs)
    /\ srv \in [Paths -> [hash : Hashes \cup {Absent}, time : Nat]]
    /\ clock \in Nat
    /\ owed \subseteq Details /\ onPage \subseteq Details
    /\ pageNo \in Nat \cup {-1}
    /\ sessions \in Nat /\ changes \in Nat /\ broadcasts \in Nat
    /\ edited \subseteq Paths

\* Client and server start with arbitrary notes, and nothing ever synced.
Init ==
    /\ disk \in [Paths -> Hashes \cup {Absent}]
    /\ echo = [p \in Paths |-> NoEntry]
    /\ mtime = [p \in Paths |-> IF disk[p] = Absent THEN 0 ELSE 1]
    /\ phase = "idle"
    /\ expected = 0 /\ received = 0 /\ pending = {}
    /\ gotEnd = FALSE /\ pendingLast = 0 /\ page = NoPage
    /\ pagingStarted = FALSE /\ pageLastSeen = FALSE /\ complete = FALSE
    /\ lastTime = 0 /\ saved = 0
    /\ toServer = <<>> /\ toClient = <<>>
    /\ srv \in [Paths -> { [hash |-> h, time |-> 1] : h \in Hashes \ NonText }
                         \cup { [hash |-> Absent, time |-> 0] }]
    /\ clock = 1 /\ owed = {} /\ onPage = {} /\ pageNo = -1
    /\ sessions = 0 /\ changes = 0 /\ broadcasts = 0
    /\ edited = { p \in Paths : disk[p] # Absent /\ disk[p] # srv[p].hash }
---------------------------------------------------------------------------
(* The client's session.                                                   *)

\* Mutant of ResetCounters: a counter of the last session is not reset.
ResetCountersButReceived ==
    /\ expected' = 0 /\ received' = received /\ pending' = {}
    /\ gotEnd' = FALSE /\ pendingLast' = 0 /\ page' = NoPage
    /\ pagingStarted' = FALSE /\ pageLastSeen' = FALSE /\ complete' = FALSE

\* reset_counters
ResetCounters ==
    /\ expected' = 0 /\ received' = 0 /\ pending' = {}
    /\ gotEnd' = FALSE /\ pendingLast' = 0 /\ page' = NoPage
    /\ pagingStarted' = FALSE /\ pageLastSeen' = FALSE /\ complete' = FALSE

\* collect_local_notes_filtered: the notes modified after the last sync.
LocalNotes ==
    [p \in Paths |-> IF mtime[p] > lastTime THEN disk[p] ELSE Absent]

\* sync_incremental up to its first await of a response, on a connection
\* that has just been authenticated.
SyncIncremental ==
    /\ phase = "idle"
    /\ sessions < MaxSessions
    /\ ResetCounters
    /\ toServer' = <<[type |-> "NoteSync", last |-> lastTime, notes |-> LocalNotes]>>
    /\ phase' = "syncing"
    /\ sessions' = sessions + 1
    /\ UNCHANGED <<engineVars, mtime, timeVars, toClient, serverVars,
                   changes, broadcasts, edited>>

\* Mutant of AllReceived: complete one message early.
AllButOneReceived(rcv, seen) ==
    /\ gotEnd
    /\ rcv + 1 >= expected
    /\ (expected > 0 /\ pagingStarted) => seen

\* check_all_received would set sync_complete, with the counters rcv and exp.
AllReceived(rcv, seen) ==
    /\ gotEnd
    /\ rcv >= expected
    /\ (expected > 0 /\ pagingStarted) => seen

\* Mutant of MarkPageMessage: page_received counts down.
UnmarkPageMessage(pg) ==
    IF pg.active THEN [pg EXCEPT !.received = @ - 1] ELSE pg

\* mark_page_message
MarkPageMessage(pg) ==
    IF pg.active THEN [pg EXCEPT !.received = @ + 1] ELSE pg

\* Mutants of PageFinished: one message early, and one late.
PageFinishedEarly(pg) == pg.active /\ pg.received + 1 >= pg.total
PageFinishedLate(pg) == pg.active /\ pg.received > pg.total

\* finish_page_if_needed goes past its early return.
PageFinished(pg) == pg.active /\ pg.received >= pg.total

\* Mutant of ReturnIfComplete: the time is committed when NoteSyncEnd arrives.
CommitTimeAtEnd ==
    /\ lastTime' = IF pendingLast' > 0 THEN pendingLast' ELSE lastTime
    /\ phase' = IF complete' THEN "others" ELSE phase

\* The end of process_sync_responses: on completion the session returns Ok and
\* run_note_sync commits pending_last_time to its state; the file and setting
\* syncs follow (phase "others").
ReturnIfComplete ==
    IF complete'
    THEN /\ phase' = "others"
         /\ lastTime' = IF pendingLast' > 0 THEN pendingLast' ELSE lastTime
    ELSE UNCHANGED <<phase, lastTime>>

\* What follows a handler: check_all_received if the handler counted a
\* message, then finish_page_if_needed.  rcv and pg are the counters after the
\* handler, out what it sent.
Settle(counted, rcv, pg, out) ==
    LET seen == pageLastSeen \/ (PageFinished(pg) /\ pg.last)
    IN /\ received' = rcv
       /\ page' = IF PageFinished(pg)
                  THEN [pg EXCEPT !.active = FALSE, !.total = 0, !.received = 0]
                  ELSE pg
       /\ pageLastSeen' = seen
       /\ complete' = \/ complete
                      \/ counted /\ AllReceived(rcv, pageLastSeen)
                      \/ PageFinished(pg) /\ pg.last /\ AllReceived(rcv, TRUE)
       /\ toServer' = toServer \o out \o
                      IF PageFinished(pg) /\ ~pg.last THEN <<PageAck(pg.index)>>
                                                      ELSE <<>>
       /\ UNCHANGED <<expected, gotEnd, pendingLast, pagingStarted>>
       /\ ReturnIfComplete

\* The loop of process_sync_responses takes the next message.
Take(types) ==
    /\ phase = "syncing"
    /\ toClient # <<>>
    /\ Head(toClient).type \in types
    /\ toClient' = Tail(toClient)

Receive(types) ==
    /\ Take(types)
    /\ UNCHANGED <<saved, serverVars, sessions, changes, broadcasts>>

\* One change by the user or another device.
Tick ==
    /\ changes < MaxChanges
    /\ changes' = changes + 1
    /\ clock' = clock + 1

\* What applying a message does to the mtime and to the ghost of its path.
Applied(p, t) ==
    /\ mtime' = [mtime EXCEPT ![p] = t]
    /\ edited' = edited \ {p}

ApplyModify(m) ==
    /\ HandleNoteModify(m.path, m.hash)
    /\ IF Echoed(m.path, m.hash) THEN UNCHANGED <<mtime, edited>>
                                 ELSE Applied(m.path, m.time)

ApplyDelete(m) ==
    /\ HandleNoteDelete(m.path)
    /\ IF Echoed(m.path, DeletedMarker) THEN UNCHANGED <<mtime, edited>>
                                        ELSE Applied(m.path, 0)

ApplyRename(m) ==
    /\ HandleNoteRename(m.old, m.path)
    /\ IF disk[m.old] = Absent
       THEN UNCHANGED <<mtime, edited>>
       ELSE /\ mtime' = [mtime EXCEPT ![m.old] = 0, ![m.path] = mtime[m.old]]
            /\ edited' = IF m.old \in edited THEN edited \cup {m.path}
                                             ELSE edited

\* handle_note_mtime: only the file's time changes, if there is a file.
ApplyMtime(m) ==
    /\ mtime' = IF disk[m.path] = Absent THEN mtime
                ELSE [mtime EXCEPT ![m.path] = m.time]
    /\ UNCHANGED <<engineVars, edited>>

ReceiveModify ==
    /\ Receive({"NoteSyncModify"})
    /\ ApplyModify(Head(toClient))
    /\ Settle(TRUE, received + 1, MarkPageMessage(page), <<>>)
    /\ UNCHANGED pending

ReceiveDelete ==
    /\ Receive({"NoteSyncDelete"})
    /\ ApplyDelete(Head(toClient))
    /\ Settle(TRUE, received + 1, MarkPageMessage(page), <<>>)
    /\ UNCHANGED pending

ReceiveMtime ==
    /\ Receive({"NoteSyncMtime"})
    /\ ApplyMtime(Head(toClient))
    /\ Settle(TRUE, received + 1, MarkPageMessage(page), <<>>)
    /\ UNCHANGED pending

\* A rename is a page message that no counter counts.
ReceiveRename ==
    /\ Receive({"NoteSyncRename"})
    /\ ApplyRename(Head(toClient))
    /\ Settle(FALSE, received, MarkPageMessage(page), <<>>)
    /\ UNCHANGED pending

\* An I/O error in a handler: what it did to the echo cache first stays done.
WriteTypes == {"NoteSyncModify", "NoteSyncDelete", "NoteSyncRename"}

FailedEcho(m) ==
    CASE m.type = "NoteSyncModify" /\ Echoed(m.path, DeletedMarker)
           -> [echo EXCEPT ![m.path] = NoEntry]
      [] m.type = "NoteSyncRename" -> [echo EXCEPT ![m.old] = DeletedMarker]
      [] OTHER -> echo

\* A rename that fails leaves its note where it was, marked as deleted.
Mislaid(m) == IF m.type = "NoteSyncRename" /\ disk[m.old] # Absent THEN {m.old} ELSE {}

\* It ends the session with an error, before anything is counted.
HandlerFails ==
    /\ IOErrors
    /\ Receive(WriteTypes)
    /\ echo' = FailedEcho(Head(toClient))
    /\ edited' = edited \cup Mislaid(Head(toClient))
    /\ phase' = "others"
    /\ UNCHANGED <<disk, mtime, sessionVars, lastTime, toServer>>

\* handle_sync_page
ReceivePage ==
    /\ Receive({"NoteSyncPage"})
    /\ LET m == Head(toClient)
       IN Settle(FALSE, received,
                 [active |-> TRUE, index |-> m.index, total |-> m.total,
                  received |-> 0, last |-> m.last], <<>>)
    /\ UNCHANGED <<engineVars, mtime, pending, edited>>

\* handle_note_need_push: a missing file is counted at once, an existing one
\* when its NoteModify is acknowledged; push_modify gives up silently on a
\* file it cannot read.
ReceiveNeedPush ==
    /\ Receive({"NoteSyncNeedPush"})
    /\ LET p == Head(toClient).path
           exists == disk[p] # Absent
       IN /\ pending' = IF exists THEN pending \cup {p} ELSE pending
          /\ echo' = PushModifyEcho(p, TRUE)
          /\ Settle(~exists, IF exists THEN received ELSE received + 1,
                    MarkPageMessage(page), PushModifyMsgs(p, TRUE))
    /\ UNCHANGED <<disk, mtime, edited>>

\* The same when the user deletes the note while read_stable_note_content
\* sleeps between two reads: exists() saw it, the next read fails.
ReceiveNeedPushOfVanishing ==
    /\ SlowReads
    /\ Take({"NoteSyncNeedPush"})
    /\ LET p == Head(toClient).path
       IN /\ disk[p] # Absent
          /\ pending' = pending \cup {p}
          /\ disk' = [disk EXCEPT ![p] = Absent]
          /\ mtime' = [mtime EXCEPT ![p] = 0]
          /\ edited' = edited \cup {p}
          /\ Settle(FALSE, received, MarkPageMessage(page), <<>>)
    /\ Tick
    /\ UNCHANGED <<echo, saved, srv, owed, onPage, pageNo, sessions, broadcasts>>

\* handle_note_modify_ack
ReceiveModifyAck ==
    /\ Receive({"NoteModifyAck"})
    /\ LET p == Head(toClient).path
           awaited == p \in pending
       IN /\ pending' = pending \ {p}
          /\ Settle(awaited, IF awaited THEN received + 1 ELSE received,
                    page, <<>>)
    /\ UNCHANGED <<engineVars, mtime, edited>>

\* handle_sync_end, then the request for the first page unless the session is
\* already complete.
ReceiveEnd ==
    /\ Receive({"NoteSyncEnd"})
    /\ LET m == Head(toClient)
           done == m.count = 0 \/ (/\ received >= m.count
                                   /\ pagingStarted => pageLastSeen)
       IN /\ expected' = m.count
          /\ pendingLast' = m.last
          /\ complete' = (complete \/ done)
          /\ pagingStarted' = (pagingStarted \/ ~complete')
          /\ toServer' = IF complete' THEN toServer
                                      ELSE Append(toServer, PageAck(-1))
    /\ gotEnd' = TRUE
    /\ ReturnIfComplete
    /\ UNCHANGED <<engineVars, mtime, received, pending, page, pageLastSeen,
                   edited>>

ClientReceives ==
    \/ ReceiveModify \/ ReceiveDelete \/ ReceiveMtime \/ ReceiveRename
    \/ ReceivePage \/ ReceiveNeedPush \/ ReceiveModifyAck \/ ReceiveEnd
---------------------------------------------------------------------------
(* After the session: the file and setting syncs, and the live phase.      *)

\* process_file_sync_messages and process_setting_sync_messages ignore the
\* messages of notes.
IgnoreNoteMessage ==
    /\ phase = "others"
    /\ toClient # <<>>
    /\ toClient' = Tail(toClient)
    /\ UNCHANGED <<engineVars, mtime, phase, sessionVars, timeVars, toServer,
                   serverVars, ghostVars>>

\* commit_state at the end of the three syncs.
CommitState ==
    /\ phase = "others"
    /\ saved' = lastTime
    /\ phase' = "live"
    /\ UNCHANGED <<engineVars, mtime, sessionVars, lastTime, toServer,
                   toClient, serverVars, ghostVars>>

\* handle_server_message: the same handlers, and nothing is counted.
LiveReceive ==
    /\ phase = "live"
    /\ toClient # <<>>
    /\ LET m == Head(toClient)
       IN CASE m.type = "NoteSyncModify" -> ApplyModify(m)
            [] m.type = "NoteSyncDelete" -> ApplyDelete(m)
            [] m.type = "NoteSyncRename" -> ApplyRename(m)
            [] m.type = "NoteSyncMtime"  -> ApplyMtime(m)
            [] OTHER -> UNCHANGED <<engineVars, mtime, edited>>
    /\ toClient' = Tail(toClient)
    /\ UNCHANGED <<phase, sessionVars, timeVars, toServer, serverVars,
                   sessions, changes, broadcasts>>

\* An I/O error there is logged, and the message forgotten.
LiveHandlerFails ==
    /\ IOErrors
    /\ phase = "live"
    /\ toClient # <<>>
    /\ Head(toClient).type \in WriteTypes
    /\ echo' = FailedEcho(Head(toClient))
    /\ edited' = edited \cup Mislaid(Head(toClient))
    /\ toClient' = Tail(toClient)
    /\ UNCHANGED <<disk, mtime, phase, sessionVars, timeVars, toServer,
                   serverVars, sessions, changes, broadcasts>>

\* The connection is lost, with what it carried, and the server forgets the
\* session.  A session in progress ends in error, so do the other syncs, and
\* commit_state writes the state as it is.
ConnectionLost ==
    /\ toServer' = <<>> /\ toClient' = <<>>
    /\ owed' = {} /\ onPage' = {} /\ pageNo' = -1

Disconnect ==
    /\ phase # "idle"
    /\ phase' = "idle"
    /\ ConnectionLost
    /\ saved' = lastTime
    /\ UNCHANGED <<engineVars, mtime, sessionVars, lastTime, srv, clock,
                   ghostVars>>

\* The process ends (a crash, a signal, the end of a one-shot sync) and is
\* started again: .fns_state.json is all that remains.
Restart ==
    /\ phase # "idle"
    /\ phase' = "idle"
    /\ ConnectionLost
    /\ lastTime' = saved
    /\ echo' = [p \in Paths |-> NoEntry]
    /\ UNCHANGED <<disk, mtime, sessionVars, saved, srv, clock, ghostVars>>
---------------------------------------------------------------------------
(* The server.                                                             *)

\* What the server can decide for a note when the client's last sync was at
\* last and it listed content h (Absent: not listed).  A note changed on both
\* sides goes to either.
Verdicts(p, last, h) ==
    LET newer == srv[p].time > last
    IN IF h # Absent /\ h = srv[p].hash
       THEN {"InSync", "NoteSyncMtime"}
       ELSE (IF h # Absent THEN {"NoteSyncNeedPush"} ELSE {})
            \cup (CASE ~newer -> IF h = Absent THEN {"InSync"} ELSE {}
                    [] newer /\ srv[p].hash = Absent -> {"NoteSyncDelete"}
                    [] newer /\ srv[p].hash # Absent -> {"NoteSyncModify"})

\* The client, if connected, also hears of changes as they happen.
Broadcast(channel, m) ==
    /\ phase # "idle"
    /\ broadcasts < MaxBroadcasts
    /\ broadcasts' = broadcasts + 1
    /\ toClient' = Append(channel, m)

FromClient(type) ==
    /\ toServer # <<>>
    /\ Head(toServer).type = type
    /\ toServer' = Tail(toServer)
    /\ UNCHANGED <<engineVars, mtime, phase, sessionVars, timeVars>>

ServerAnswersSync ==
    /\ FromClient("NoteSync")
    /\ LET m == Head(toServer)
       IN \E verdict \in [Paths -> DetailTypes \cup {"InSync"}] :
            LET stale == { p \in Paths : verdict[p] # "InSync" }
            IN /\ \A p \in Paths : verdict[p] \in Verdicts(p, m.last, m.notes[p])
               /\ owed' = { Detail(verdict[p], p) : p \in stale }
               /\ toClient' = Append(toClient, [type |-> "NoteSyncEnd",
                                                count |-> Cardinality(stale),
                                                last |-> clock])
    /\ UNCHANGED <<srv, clock, onPage, pageNo, ghostVars>>

\* An acknowledgement of the last page sent asks for the next one; any other
\* is ignored.  A page need not be full.
ServerStartsPage ==
    /\ FromClient("NoteSyncPageAck")
    /\ onPage = {}
    /\ IF Head(toServer).index = pageNo /\ owed # {}
       THEN \E batch \in SUBSET owed :
              /\ batch # {} /\ Size(batch) <= PageSize
              /\ onPage' = batch
              /\ owed' = owed \ batch
              /\ pageNo' = pageNo + 1
              /\ toClient' = Append(toClient,
                    [type |-> "NoteSyncPage", index |-> pageNo + 1,
                     total |-> Size(batch), last |-> batch = owed])
       ELSE UNCHANGED <<owed, onPage, pageNo, toClient>>
    /\ UNCHANGED <<srv, clock, ghostVars>>

ServerSendsDetail ==
    \E d \in onPage :
       /\ onPage' = onPage \ {d}
       /\ toClient' = Append(toClient, d)
       /\ UNCHANGED <<engineVars, mtime, phase, sessionVars, timeVars,
                      toServer, srv, clock, owed, pageNo, ghostVars>>

\* A pushed note becomes the server's copy; the server may broadcast it to
\* its author too.
ServerAcceptsModify ==
    /\ FromClient("NoteModify")
    /\ LET m == Head(toServer)
       IN /\ srv' = [srv EXCEPT ![m.path] = [hash |-> m.hash, time |-> clock + 1]]
          /\ edited' = IF disk[m.path] = m.hash /\ echo[m.path] = m.hash
                        THEN edited \ {m.path} ELSE edited
          /\ LET acked == Append(toClient, [type |-> "NoteModifyAck", path |-> m.path])
             IN \/ toClient' = acked /\ UNCHANGED broadcasts
                \/ Broadcast(acked, [type |-> "NoteSyncModify", path |-> m.path,
                                     hash |-> m.hash, time |-> clock + 1])
    /\ clock' = clock + 1
    /\ UNCHANGED <<owed, onPage, pageNo, sessions, changes>>

ServerSteps ==
    ServerAnswersSync \/ ServerStartsPage \/ ServerSendsDetail \/ ServerAcceptsModify
---------------------------------------------------------------------------
(* The user and the other devices.                                         *)

UserChanges(p, content) ==
    /\ content # disk[p]
    /\ Tick
    /\ disk' = [disk EXCEPT ![p] = content]
    /\ mtime' = [mtime EXCEPT ![p] = IF content = Absent THEN 0 ELSE clock + 1]
    /\ edited' = edited \cup {p}
    /\ UNCHANGED <<echo, phase, sessionVars, timeVars, toServer, toClient, srv,
                   owed, onPage, pageNo, sessions, broadcasts>>

RemoteChanges(p, content) ==
    /\ content # srv[p].hash
    /\ Tick
    /\ srv' = [srv EXCEPT ![p] = [hash |-> content, time |-> clock + 1]]
    /\ \/ UNCHANGED <<toClient, broadcasts>>
       \/ Broadcast(toClient,
             [type |-> IF content = Absent THEN "NoteSyncDelete"
                                           ELSE "NoteSyncModify",
              path |-> p, hash |-> content, time |-> clock + 1])
    /\ UNCHANGED <<engineVars, mtime, phase, sessionVars, timeVars, toServer,
                   owed, onPage, pageNo, sessions, edited>>

RemoteRenames(old, new) ==
    /\ old # new
    /\ srv[old].hash # Absent
    /\ Tick
    /\ srv' = [srv EXCEPT ![old] = [hash |-> Absent, time |-> clock + 1],
                          ![new] = [hash |-> srv[old].hash, time |-> clock + 1]]
    /\ \/ UNCHANGED <<toClient, broadcasts>>
       \/ Broadcast(toClient, [type |-> "NoteSyncRename", old |-> old, path |-> new])
    /\ UNCHANGED <<engineVars, mtime, phase, sessionVars, timeVars, toServer,
                   owed, onPage, pageNo, sessions, edited>>

Changes ==
    \/ \E p \in Paths, h \in Hashes \cup {Absent} : UserChanges(p, h)
    \/ \E p \in Paths, h \in (Hashes \ NonText) \cup {Absent} : RemoteChanges(p, h)
    \/ \E old, new \in Paths : RemoteRenames(old, new)
---------------------------------------------------------------------------
Next ==
    \/ SyncIncremental \/ ClientReceives
    \/ ReceiveNeedPushOfVanishing \/ HandlerFails
    \/ IgnoreNoteMessage \/ CommitState \/ LiveReceive \/ LiveHandlerFails
    \/ Disconnect \/ Restart
    \/ ServerSteps \/ Changes

Spec == Init /\ [][Next]_vars

\* The loop polls its socket whenever a message is there, and the server
\* answers what it receives.
FairSpec == Spec /\ WF_vars(ClientReceives) /\ WF_vars(ServerSteps)
---------------------------------------------------------------------------
(* Properties.                                                             *)

\* Details on their way to the client, and the notes they are about.
Flight(channel) == { i \in 1..Len(channel) : channel[i].type \in DetailTypes }
FlightPaths(channel) == { channel[i].path : i \in Flight(channel) }

\* The notes the running session has not finished with: the server still owes
\* their detail, or has it on its page, or has sent it, or the client has
\* pushed them and waits for the acknowledgement.
Outstanding ==
    DetailPaths(owed) \cup DetailPaths(onPage) \cup FlightPaths(toClient) \cup pending

\* A session returns Ok only when there is nothing left of it: every detail
\* the server owed has been received and every push acknowledged.  This is
\* what the comment of process_sync_responses promises, and it is what makes
\* it right to advance last_note_sync_time (check_all_received,
\* handle_note_need_push, handle_note_modify_ack).  A broadcast would be
\* counted in the place of a detail: it holds while there are none.
CompleteMeansHandled == complete /\ phase = "others" => Outstanding = {}

\* A page is acknowledged only when all of it has been received: as long as
\* an acknowledgement is on its way no detail is (finish_page_if_needed).
AckedPageHandled ==
    (\E i \in 1..Len(toServer) : toServer[i].type = "NoteSyncPageAck")
        => onPage = {} /\ Flight(toClient) = {}

\* Why CompleteMeansHandled holds.  Each note is in one place only, the
\* request and NoteSyncEnd are alone on the connection, and from NoteSyncEnd
\* on the counters differ by the number of outstanding notes.
Asking == \E i \in 1..Len(toServer) : toServer[i].type = "NoteSync"
Answering == \E i \in 1..Len(toClient) : toClient[i].type = "NoteSyncEnd"

\* No two details of a channel are about the same note.
Distinct(channel) ==
    \A i, j \in Flight(channel) : channel[i].path = channel[j].path => i = j

OnePlaceEach ==
    /\ \A d, e \in owed \cup onPage : d.path = e.path => d = e
    /\ owed \cap onPage = {}
    /\ DetailPaths(owed \cup onPage) \cap (FlightPaths(toClient) \cup pending) = {}
    /\ Distinct(toClient)
    /\ FlightPaths(toClient) \cap pending = {}

SessionInv ==
    /\ phase = "idle" => /\ toServer = <<>> /\ toClient = <<>>
                         /\ owed = {} /\ onPage = {}
    /\ Asking \/ Answering =>
         /\ phase = "syncing" /\ Len(toServer) + Len(toClient) = 1
         /\ received = 0 /\ pending = {} /\ onPage = {}
         /\ ~gotEnd /\ ~complete /\ ~page.active
    /\ Asking => owed = {}
    /\ Answering => toClient[1].count = Cardinality(Outstanding)
    /\ phase = "syncing" /\ ~Asking /\ ~Answering =>
         /\ gotEnd /\ ~complete
         /\ received + Cardinality(Outstanding) = expected
    /\ OnePlaceEach
    /\ CompleteMeansHandled

\* What incremental sync rests on: a change the server made no later than
\* the committed time, in memory or in the state file, is in the vault,
\* unless the user has changed that note since.  It must survive
\* disconnections, crashes and failing handlers at any point.
AppliedUpToLastTime ==
    \A p \in Paths \ edited :
        srv[p].time <= lastTime \/ srv[p].time <= saved => disk[p] = srv[p].hash

\* The echo cache tells the truth about every note the user has not touched:
\* suppressing a message because of it never leaves the vault behind.  The
\* exception is a note whose rename failed (handle_note_rename).
EchoTruthful ==
    \A p \in Paths \ edited :
        /\ echo[p] \in Hashes => disk[p] = echo[p]
        /\ echo[p] = DeletedMarker => disk[p] = Absent

\* A session ends, whatever is asked of it.
SyncTerminates == phase = "syncing" ~> phase # "syncing"

\* The session as the rest of the program sees it: what is left of it is what
\* is outstanding.
Stage ==
    CASE phase = "syncing" -> IF Asking THEN "asked" ELSE "answered"
      [] phase \in {"others", "live"} /\ complete -> "returned"
      [] OTHER -> "idle"

Session == INSTANCE SyncSession WITH
    Items <- Paths, stage <- Stage,
    left <- IF phase = "syncing" THEN Outstanding ELSE {}

\* The note sync keeps the contract of a sync: whatever the order of details,
\* pages and acknowledgements, it returns only when all are settled, each
\* counted once (sync_incremental, process_sync_responses).
KeepsContract == Session!Spec
=============================================================================
