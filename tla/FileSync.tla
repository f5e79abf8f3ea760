----------------------------- MODULE FileSync -----------------------------
(***************************************************************************)
(* A file sync of fns-cli: request_sync and handle_message of              *)
(* src/src/sync/file.rs, the loop process_file_sync_messages around them   *)
(* (src/src/sync/coordinator.rs), and what becomes of the messages about   *)
(* files afterwards, in the setting sync and in the live phase.            *)
(*                                                                         *)
(* The server is external: it is modelled from what the client expects.    *)
(* It compares the files listed with its own, lets the side with the later *)
(* mtime win, announces the counts in FileSyncEnd and sends one page per   *)
(* FileSyncPageAck.  Transfers run beside the pages, and beside each       *)
(* other: chunks are sent in any order.                                    *)
(***************************************************************************)
EXTENDS FileEngine, Integers

CONSTANTS
    PageSize,       \* details per page the server sends
    IOErrors,       \* may a handler fail to write to the vault?
    Timeouts,       \* may the 300 seconds of a sync run out?
    MaxChanges,     \* bound: changes by the user and by other devices
    MaxSessions,    \* bound: file syncs started
    MaxBroadcasts   \* bound: changes broadcast to the client

ASSUME FileSyncAssumption ==
    /\ PageSize \in Nat \ {0}
    /\ IOErrors \in BOOLEAN /\ Timeouts \in BOOLEAN
    /\ MaxChanges \in Nat /\ MaxSessions \in Nat /\ MaxBroadcasts \in Nat

VARIABLES
    phase,          \* where the program is: "idle", "files", "settings", "live"
    expected,       \* sum of the three expected_* counters
    received,       \* sum of the three received_* counters
    gotEnd,         \* got_end
    page,           \* page_active, page_index, page_total, page_received, page_is_last
    pagingStarted,  \* paging_started
    pageLastSeen    \* page_last_seen

VARIABLES
    toServer, toClient,     \* the two directions of the connection
    srv,                    \* the server's copy of each file
    owed,                   \* details of this session not yet put on a page
    onPage,                 \* details of the current page not yet sent
    pageNo,                 \* index of the last page started, -1 before the first
    sending,                \* downloads the server is sending the chunks of
    nextId                  \* the next session id, unique within a connection

VARIABLES
    sessions, changes, broadcasts,  \* counters, bounded
    disturbed,  \* ghost: the sides that have changed since the last request
    skipped,    \* ghost: files whose detail the echo cache has suppressed since
    done        \* ghost: the last sync ended because it was complete

sessionVars == <<expected, received, gotEnd, page, pagingStarted, pageLastSeen>>
serverVars  == <<srv, owed, onPage, pageNo, sending, nextId>>
countVars   == <<sessions, changes, broadcasts>>
ghostVars   == <<disturbed, skipped, done>>
vars == <<engineVars, phase, sessionVars, toServer, toClient, serverVars,
          countVars, ghostVars>>
---------------------------------------------------------------------------
(* Messages.                                                               *)

PageTypes == {"FileSyncUpdate", "FileSyncDelete", "FileSyncMtime",
              "FileSyncRename", "FileUpload"}

\* What the server finds of a file: those of type FileSyncMtime are on a page
\* but in no count.
Findings == [type : PageTypes \ {"FileSyncRename"}, path : Files]
Counted(details) == { d \in details : d.type # "FileSyncMtime" }

ServerMsgs ==
    [type : {"FileSyncEnd"}, count : Nat]
    \cup [type : {"FileSyncPage"}, index : Nat, total : Nat, last : BOOLEAN]
    \cup [type : {"FileSyncUpdate"}, path : Files, content : Contents \cup {Absent}]
    \cup [type : {"FileSyncDelete", "FileSyncMtime"}, path : Files]
    \cup [type : {"FileSyncRename"}, old : Files, path : Files]
    \cup [type : {"FileUpload"}, id : Nat, path : Files]
    \cup [type : {"FileUploadAck"}, id : Nat \cup {NoSession}, path : Files]
    \cup [type : {"FileSyncChunkDownload"}, id : Nat, path : Files, count : Nat]
    \cup [type : {"Chunk"}, id : Nat, index : Nat, data : Contents]

ClientMsgs ==
    [type : {"FileSync"}, files : [Files -> Contents \cup {Absent, Torn}],
     newest : [Files -> {"here", "there"}]]
    \cup [type : {"FileSyncPageAck"}, index : Int]
    \cup [type : {"FileChunkDownload"}, path : Files]
    \cup [type : {"Chunks"}, id : Nat, path : Files, data : Contents]

PageAck(i) == [type |-> "FileSyncPageAck", index |-> i]
ChunkRequest(f) == [type |-> "FileChunkDownload", path |-> f]

Pages == [active : BOOLEAN, index : Nat, total : Nat, received : Nat,
          last : BOOLEAN]
NoPage == [active |-> FALSE, index |-> 0, total |-> 0, received |-> 0,
           last |-> FALSE]
---------------------------------------------------------------------------
SessionTypeOK ==
    /\ phase \in {"idle", "files", "settings", "live"}
    /\ expected \in Nat /\ received \in Nat
    /\ gotEnd \in BOOLEAN /\ pagingStarted \in BOOLEAN /\ pageLastSeen \in BOOLEAN
    /\ page \in Pages

ServerTypeOK ==
    /\ srv \in [Files -> Contents \cup {Absent}]
    /\ owed \subseteq Findings /\ onPage \subseteq Findings
    /\ pageNo \in Nat \cup {-1}
    /\ sending \subseteq [id : Nat, data : Contents, left : SUBSET Nat]
    /\ nextId \in Nat

CountTypeOK ==
    /\ sessions \in Nat /\ changes \in Nat /\ broadcasts \in Nat
    /\ disturbed \subseteq {"here", "there"} /\ skipped \subseteq Files
    /\ done \in BOOLEAN

TypeOK ==
    /\ EngineTypeOK /\ SessionTypeOK /\ ServerTypeOK /\ CountTypeOK
    /\ toServer \in Seq(ClientMsgs) /\ toClient \in Seq(ServerMsgs)

\* Client and server start with arbitrary files and mtimes.
Init ==
    /\ disk \in [Files -> (Contents \ {Empty}) \cup {Absent}]
    /\ srv \in [Files -> (Contents \ {Empty}) \cup {Absent}]
    /\ newest \in [Files -> {"here", "there"}]
    /\ echo = [f \in Files |-> NoEntry]
    /\ downloads = {} /\ uploads = {}
    /\ phase = "idle"
    /\ expected = 0 /\ received = 0 /\ gotEnd = FALSE
    /\ page = NoPage /\ pagingStarted = FALSE /\ pageLastSeen = FALSE
    /\ toServer = <<>> /\ toClient = <<>>
    /\ owed = {} /\ onPage = {} /\ pageNo = -1 /\ sending = {} /\ nextId = 0
    /\ sessions = 0 /\ changes = 0 /\ broadcasts = 0
    /\ disturbed = {} /\ skipped = {} /\ done = FALSE
---------------------------------------------------------------------------
(* The sync.                                                               *)

\* The counters and the paging of a new sync.
ResetCounters ==
    /\ expected' = 0 /\ received' = 0 /\ gotEnd' = FALSE
    /\ page' = NoPage /\ pagingStarted' = FALSE /\ pageLastSeen' = FALSE

\* Mutant of Reset: unfinished downloads survive their connection.
ResetButDownloads == ResetCounters /\ uploads' = {} /\ UNCHANGED downloads

\* FileSync::reset, which leaves the echo cache alone.
Reset == ResetCounters /\ uploads' = {} /\ downloads' = {}

\* request_sync on a connection that has just been authenticated: reset, then
\* all files whatever the last sync, each with its mtime.
RequestSync ==
    /\ phase = "idle"
    /\ sessions < MaxSessions
    /\ sessions' = sessions + 1
    /\ Reset
    /\ toServer' = <<[type |-> "FileSync", files |-> disk, newest |-> newest]>>
    /\ phase' = "files"
    /\ disturbed' = {} /\ skipped' = {} /\ done' = FALSE
    /\ UNCHANGED <<disk, newest, echo, toClient, serverVars, changes, broadcasts>>

\* Mutant of SyncComplete: one message early.
SyncCompleteButOne ==
    /\ gotEnd
    /\ expected > 0 /\ pagingStarted => pageLastSeen
    /\ received + 1 >= expected
    /\ downloads = {} /\ uploads = {}

\* FileSync::is_complete
SyncComplete ==
    /\ gotEnd
    /\ expected > 0 /\ pagingStarted => pageLastSeen
    /\ received >= expected
    /\ downloads = {} /\ uploads = {}

\* process_file_sync_messages returns when the message has completed the sync.
\* Whether it has not and the time is up is looked at before the next message:
\* then it returns all the same.
ReturnIfComplete ==
    IF SyncComplete'
    THEN /\ phase' = "settings" /\ done' = TRUE
    ELSE /\ phase' \in IF Timeouts THEN {"files", "settings"} ELSE {"files"}
         /\ UNCHANGED done

Take(types) ==
    /\ toClient # <<>>
    /\ Head(toClient).type \in types
    /\ toClient' = Tail(toClient)

Receive(types) ==
    /\ phase = "files"
    /\ Take(types)
    /\ UNCHANGED <<serverVars, countVars, disturbed>>

\* The handler of a message, whichever loop has received it.
Apply(m) ==
    CASE m.type = "FileSyncUpdate" -> HandleSyncUpdate(m.path, m.content)
      [] m.type = "FileSyncDelete" -> HandleSyncDelete(m.path)
      [] m.type = "FileSyncRename" -> HandleSyncRename(m.old, m.path)
      [] m.type = "FileSyncMtime"  -> HandleSyncMtime(m.path)
      [] m.type = "FileUpload"     -> HandleUploadSession(m.id, m.path)
      [] m.type = "FileUploadAck"  -> HandleUploadAck(m.id, m.path)
      [] m.type = "FileSyncChunkDownload" ->
            HandleChunkDownloadStart(m.id, m.path, m.count)
      [] m.type = "Chunk" -> HandleBinaryChunk(m.id, m.index, m.data)

\* What it sends.
Replies(m) ==
    CASE m.type = "FileSyncUpdate" /\ m.content = Absent -> <<ChunkRequest(m.path)>>
      [] m.type = "FileUpload" -> UploadMsgs(m.id, m.path)
      [] OTHER -> <<>>

\* Mutant of Counts: an update counts when its chunks are asked for.
CountsAtRequest(m) ==
    CASE m.type = "FileSyncUpdate" -> TRUE
      [] m.type = "FileSyncDelete" -> TRUE
      [] m.type = "FileUpload"     -> ~Uploads(m.path)
      [] m.type = "FileUploadAck"  -> Acknowledged(m.id, m.path) # {}
      [] OTHER -> FALSE

\* Whether it counts as received: a deletion always, an update with its
\* content or with its last chunk, an upload that is skipped at once and one
\* that is made when it is acknowledged.
Counts(m) ==
    CASE m.type = "FileSyncUpdate" -> m.content # Absent
      [] m.type = "FileSyncDelete" -> TRUE
      [] m.type = "FileUpload"     -> ~Uploads(m.path)
      [] m.type = "FileUploadAck"  -> Acknowledged(m.id, m.path) # {}
      [] m.type = "Chunk" ->
            \E d \in downloads : d.id = m.id /\ Completes(d, m.index, m.data)
      [] OTHER -> FALSE

\* The echo cache keeps it from doing what the server asks for.
Skips(m) ==
    \/ m.type = "FileSyncDelete" /\ DeleteEchoed(m.path)
    \/ m.type = "FileUpload" /\ UploadEchoed(m.path)

Note(m) == skipped' = IF Skips(m) THEN skipped \cup {m.path} ELSE skipped

Count(m) == received' = IF Counts(m) THEN received + 1 ELSE received

\* Mutant of PageFinished: one message too many.
PageFinishedLate(pg) == pg.active /\ pg.received > pg.total

\* finish_page_if_needed goes past its early return.
PageFinished(pg) == pg.active /\ pg.received >= pg.total

\* The page counters after a message, and what is sent: pg are the counters
\* before finish_page_if_needed, out what the handler sent.
FinishPage(pg, out) ==
    /\ page' = IF PageFinished(pg)
               THEN [pg EXCEPT !.active = FALSE, !.total = 0, !.received = 0]
               ELSE pg
    /\ pageLastSeen' = (pageLastSeen \/ (PageFinished(pg) /\ pg.last))
    /\ toServer' = toServer \o out \o
                   IF PageFinished(pg) /\ ~pg.last THEN <<PageAck(pg.index)>>
                                                   ELSE <<>>

\* handle_message, for the messages of a page.
ReceiveDetail ==
    /\ Receive(PageTypes)
    /\ LET m == Head(toClient)
       IN /\ Apply(m) /\ Count(m) /\ Note(m)
          /\ FinishPage([page EXCEPT !.received = IF page.active THEN @ + 1 ELSE @],
                        Replies(m))
    /\ UNCHANGED <<expected, gotEnd, pagingStarted>>
    /\ ReturnIfComplete

ReceivePage ==
    /\ Receive({"FileSyncPage"})
    /\ LET m == Head(toClient)
       IN FinishPage([active |-> TRUE, index |-> m.index, total |-> m.total,
                      received |-> 0, last |-> m.last], <<>>)
    /\ UNCHANGED <<engineVars, expected, received, gotEnd, pagingStarted, skipped>>
    /\ ReturnIfComplete

\* The messages of transfers, which no page counts.
ReceiveTransfer ==
    /\ Receive({"FileSyncChunkDownload", "FileUploadAck", "Chunk"})
    /\ Apply(Head(toClient)) /\ Count(Head(toClient))
    /\ UNCHANGED <<expected, gotEnd, page, pagingStarted, pageLastSeen, toServer,
                   skipped>>
    /\ ReturnIfComplete

\* handle_sync_end, and the request for the first page unless all is done.
ReceiveEnd ==
    /\ Receive({"FileSyncEnd"})
    /\ expected' = Head(toClient).count
    /\ gotEnd' = TRUE
    /\ UNCHANGED <<engineVars, received, page, pageLastSeen, skipped>>
    /\ LET complete == received >= expected' /\ downloads = {} /\ uploads = {}
                       /\ (expected' > 0 /\ pagingStarted => pageLastSeen)
       IN /\ pagingStarted' = (pagingStarted \/ ~complete)
          /\ toServer' = IF complete THEN toServer ELSE Append(toServer, PageAck(-1))
    /\ ReturnIfComplete

ClientReceives == ReceiveDetail \/ ReceivePage \/ ReceiveTransfer \/ ReceiveEnd
---------------------------------------------------------------------------
(* Other loops, errors and the end of the connection.                      *)

\* The types that handle_setting_message and handle_server_message hand on
\* to the file engine; they ignore the others.
HandledIn(ph) ==
    IF ph = "settings"
    THEN {"FileSyncUpdate", "FileSyncMtime", "FileUpload", "FileUploadAck",
          "FileSyncChunkDownload", "Chunk"}
    ELSE {"FileSyncUpdate", "FileSyncDelete", "FileUpload", "FileUploadAck",
          "FileSyncChunkDownload", "Chunk"}

\* The counters go on, but nothing looks at them until the next reset: they
\* are left as they are.
ReceiveElsewhere ==
    /\ phase \in {"settings", "live"}
    /\ toClient # <<>>
    /\ toClient' = Tail(toClient)
    /\ LET m == Head(toClient)
       IN \/ /\ m.type \in HandledIn(phase)
             /\ Apply(m)
             /\ toServer' = toServer \o Replies(m)
          \/ /\ m.type \notin HandledIn(phase)
             /\ UNCHANGED <<engineVars, toServer>>
    /\ UNCHANGED <<phase, sessionVars, serverVars, countVars, ghostVars>>

\* The handler writes to the vault or, for an upload, reads from it.
TouchesFile(m) ==
    CASE m.type = "FileSyncUpdate" -> m.content # Absent
      [] m.type = "FileSyncDelete" -> disk[m.path] # Absent /\ ~DeleteEchoed(m.path)
      [] m.type = "FileSyncRename" -> disk[m.old] # Absent
      [] m.type = "Chunk" -> Counts(m)
      [] m.type = "FileUpload" -> disk[m.path] # Absent
      [] OTHER -> FALSE

\* An I/O error in a handler: what it did first to the echo cache and to
\* active_downloads stays done, and the sync of this phase ends with it.
HandlerFails ==
    /\ IOErrors
    /\ phase # "idle"
    /\ toClient # <<>>
    /\ LET m == Head(toClient)
       IN /\ TouchesFile(m)
          /\ phase = "files" \/ m.type \in HandledIn(phase)
          /\ echo' = CASE m.type = "FileSyncUpdate" -> [echo EXCEPT ![m.path] = NoEntry]
                       [] m.type = "FileSyncRename" -> [echo EXCEPT ![m.old] = DeletedSentinel]
                       [] OTHER -> echo
          /\ downloads' = IF m.type = "Chunk" THEN { d \in downloads : d.id # m.id }
                                              ELSE downloads
    /\ toClient' = Tail(toClient)
    /\ phase' = IF phase = "files" THEN "settings" ELSE "live"
    /\ UNCHANGED <<disk, newest, uploads, sessionVars, toServer, serverVars,
                   countVars, ghostVars>>

\* The user changes the file of an upload between the handler's two reads.
ChangeBetweenReads ==
    /\ phase # "idle"
    /\ Take({"FileUpload"})
    /\ changes < MaxChanges
    /\ changes' = changes + 1
    /\ disturbed' = disturbed \cup {"here"}
    /\ UNCHANGED <<downloads, expected, received, gotEnd, pagingStarted, skipped,
                   serverVars, sessions, broadcasts>>

\* handle_upload_session around the change, in the file sync's loop or another.
ChangedUpload ==
    /\ ChangeBetweenReads
    /\ LET m == Head(toClient)
       IN \E c \in Contents :
            /\ HandleChangedUpload(m.id, m.path, c)
            /\ \/ /\ phase = "files"
                  /\ FinishPage([page EXCEPT !.received = IF page.active THEN @ + 1 ELSE @],
                                <<ChunksOf(m.id, m.path, c)>>)
                  /\ ReturnIfComplete
               \/ /\ phase \in {"settings", "live"}
                  /\ toServer' = Append(toServer, ChunksOf(m.id, m.path, c))
                  /\ UNCHANGED <<phase, page, pageLastSeen, done>>

\* The file is gone by the second read: the handler fails.
UploadVanishes ==
    /\ ChangeBetweenReads
    /\ LET f == Head(toClient).path
       IN /\ Uploads(f)
          /\ disk' = [disk EXCEPT ![f] = Absent]
          /\ newest' = [newest EXCEPT ![f] = "here"]
    /\ phase' = IF phase = "files" THEN "settings" ELSE "live"
    /\ UNCHANGED <<echo, uploads, page, pageLastSeen, toServer, done>>

\* run_setting_sync returns.
EndSettings ==
    /\ phase = "settings"
    /\ phase' = "live"
    /\ UNCHANGED <<engineVars, sessionVars, toServer, toClient, serverVars,
                   countVars, ghostVars>>

\* What the connection carried is lost, and the server forgets its sessions.
ConnectionLost ==
    /\ phase # "idle"
    /\ phase' = "idle"
    /\ toServer' = <<>> /\ toClient' = <<>>
    /\ owed' = {} /\ onPage' = {} /\ pageNo' = -1 /\ sending' = {} /\ nextId' = 0
    /\ UNCHANGED <<disk, newest, sessionVars, srv, countVars, ghostVars>>

\* run_continuous connects again, with the engine as it is.
Disconnect == ConnectionLost /\ UNCHANGED <<echo, downloads, uploads>>

\* The process ends and is started again.
Restart ==
    /\ ConnectionLost
    /\ echo' = [f \in Files |-> NoEntry]
    /\ downloads' = {} /\ uploads' = {}
---------------------------------------------------------------------------
(* The server.                                                             *)

Verdicts(f, listed, side) ==
    CASE listed = srv[f] ->
            {"InSync"} \cup IF listed = Absent THEN {} ELSE {"FileSyncMtime"}
      [] listed # srv[f] /\ (listed = Absent \/ (srv[f] # Absent /\ side = "there")) ->
            {"FileSyncUpdate"}
      [] listed # srv[f] /\ srv[f] = Absent /\ side = "there" -> {"FileSyncDelete"}
      [] listed # srv[f] /\ listed # Absent /\ side = "here" -> {"FileUpload"}

FromClient(type) ==
    /\ toServer # <<>>
    /\ Head(toServer).type = type
    /\ toServer' = Tail(toServer)
    /\ UNCHANGED <<disk, echo, downloads, uploads, phase, sessionVars,
                   countVars, ghostVars>>

ServerAnswersSync ==
    /\ FromClient("FileSync")
    /\ LET m == Head(toServer)
       IN \E verdict \in [Files -> (PageTypes \ {"FileSyncRename"}) \cup {"InSync"}] :
            /\ \A f \in Files : verdict[f] \in Verdicts(f, m.files[f], m.newest[f])
            /\ owed' = { [type |-> verdict[f], path |-> f] :
                            f \in { g \in Files : verdict[g] # "InSync" } }
            /\ toClient' = Append(toClient, [type |-> "FileSyncEnd",
                                             count |-> Cardinality(Counted(owed'))])
    /\ UNCHANGED <<newest, srv, onPage, pageNo, sending, nextId>>

\* An acknowledgement of the last page sent asks for the next one; any other
\* is ignored.
ServerStartsPage ==
    /\ FromClient("FileSyncPageAck")
    /\ onPage = {}
    /\ IF Head(toServer).index = pageNo /\ owed # {}
       THEN \E batch \in SUBSET owed :
              /\ Cardinality(batch) = IF Cardinality(owed) < PageSize
                                      THEN Cardinality(owed) ELSE PageSize
              /\ onPage' = batch
              /\ owed' = owed \ batch
              /\ pageNo' = pageNo + 1
              /\ toClient' = Append(toClient,
                    [type |-> "FileSyncPage", index |-> pageNo + 1,
                     total |-> Cardinality(batch), last |-> batch = owed])
       ELSE UNCHANGED <<owed, onPage, pageNo, toClient>>
    /\ UNCHANGED <<newest, srv, sending, nextId>>

\* An update carries the file's content, or leaves it to be asked for.
UpdateMsgs(f) ==
    { [type |-> "FileSyncUpdate", path |-> f, content |-> c] : c \in {Absent, srv[f]} }

DetailMsgs(d) ==
    CASE d.type = "FileSyncUpdate" -> UpdateMsgs(d.path)
      [] d.type = "FileUpload" -> {[type |-> "FileUpload", id |-> nextId, path |-> d.path]}
      [] OTHER -> {[type |-> d.type, path |-> d.path]}

ServerSendsDetail ==
    \E d \in onPage : \E m \in DetailMsgs(d) :
       /\ onPage' = onPage \ {d}
       /\ toClient' = Append(toClient, m)
       /\ nextId' = IF d.type = "FileUpload" THEN nextId + 1 ELSE nextId
       /\ UNCHANGED <<engineVars, phase, sessionVars, toServer, srv, owed, pageNo,
                      sending, countVars, ghostVars>>

\* A request for a file that is gone by then has no answer.
ServerStartsDownload ==
    /\ FromClient("FileChunkDownload")
    /\ LET f == Head(toServer).path
           count == ChunkCount[srv[f]]
       IN IF srv[f] = Absent THEN UNCHANGED <<toClient, sending, nextId>>
          ELSE /\ toClient' = Append(toClient,
                     [type |-> "FileSyncChunkDownload", id |-> nextId, path |-> f,
                      count |-> count])
               /\ sending' = IF count = 0 THEN sending
                             ELSE sending \cup { [id |-> nextId, data |-> srv[f],
                                                  left |-> 0..count - 1] }
               /\ nextId' = nextId + 1
    /\ UNCHANGED <<newest, srv, owed, onPage, pageNo>>

ServerSendsChunk ==
    \E t \in sending : \E i \in t.left :
       /\ toClient' = Append(toClient, [type |-> "Chunk", id |-> t.id,
                                        index |-> i, data |-> t.data])
       /\ sending' = (sending \ {t}) \cup
                     IF t.left = {i} THEN {} ELSE { [t EXCEPT !.left = @ \ {i}] }
       /\ UNCHANGED <<engineVars, phase, sessionVars, toServer, srv, owed, onPage,
                      pageNo, nextId, countVars, ghostVars>>

\* All the chunks of an upload are there: the file gets the content and mtime
\* it had at the client.
ServerAcceptsChunks ==
    /\ FromClient("Chunks")
    /\ LET m == Head(toServer)
       IN /\ srv' = [srv EXCEPT ![m.path] = m.data]
          /\ newest' = [newest EXCEPT ![m.path] = "here"]
          /\ \E id \in {m.id, NoSession} :
                toClient' = Append(toClient, [type |-> "FileUploadAck", id |-> id,
                                              path |-> m.path])
    /\ UNCHANGED <<owed, onPage, pageNo, sending, nextId>>

ServerSteps ==
    \/ ServerAnswersSync \/ ServerStartsPage \/ ServerSendsDetail
    \/ ServerStartsDownload \/ ServerSendsChunk \/ ServerAcceptsChunks
---------------------------------------------------------------------------
(* The user and the other devices.                                         *)

Change(side) ==
    /\ changes < MaxChanges
    /\ changes' = changes + 1
    /\ disturbed' = disturbed \cup {side}
    /\ UNCHANGED <<echo, downloads, uploads, phase, sessionVars, toServer, owed,
                   onPage, pageNo, sending, nextId, sessions, skipped, done>>

UserChanges(f, c) ==
    /\ disk[f] # c
    /\ Change("here")
    /\ disk' = [disk EXCEPT ![f] = c]
    /\ newest' = [newest EXCEPT ![f] = "here"]
    /\ UNCHANGED <<srv, toClient, broadcasts>>

\* The client, if connected, may hear of a change as it happens.
Broadcast(m) ==
    \/ UNCHANGED <<toClient, broadcasts>>
    \/ /\ phase # "idle"
       /\ broadcasts < MaxBroadcasts
       /\ broadcasts' = broadcasts + 1
       /\ toClient' = Append(toClient, m)

RemoteChanges(f, c) ==
    /\ srv[f] # c
    /\ Change("there")
    /\ srv' = [srv EXCEPT ![f] = c]
    /\ newest' = [newest EXCEPT ![f] = "there"]
    /\ IF c = Absent THEN Broadcast([type |-> "FileSyncDelete", path |-> f])
       ELSE \E content \in {Absent, c} :
              Broadcast([type |-> "FileSyncUpdate", path |-> f, content |-> content])
    /\ UNCHANGED disk

RemoteRenames(old, new) ==
    /\ old # new /\ srv[old] # Absent
    /\ Change("there")
    /\ srv' = [srv EXCEPT ![old] = Absent, ![new] = srv[old]]
    /\ newest' = [newest EXCEPT ![old] = "there", ![new] = "there"]
    /\ Broadcast([type |-> "FileSyncRename", old |-> old, path |-> new])
    /\ UNCHANGED disk

Changes ==
    \/ \E f \in Files, c \in Contents \cup {Absent} : UserChanges(f, c)
    \/ \E f \in Files, c \in Contents \cup {Absent} : RemoteChanges(f, c)
    \/ \E old, new \in Files : RemoteRenames(old, new)
---------------------------------------------------------------------------
Next ==
    \/ RequestSync \/ ClientReceives \/ ReceiveElsewhere \/ HandlerFails
    \/ ChangedUpload \/ UploadVanishes
    \/ EndSettings \/ Disconnect \/ Restart
    \/ ServerSteps \/ Changes

Spec == Init /\ [][Next]_vars

\* The loop polls its socket whenever a message is there, and the server
\* answers what it receives.
FairSpec == Spec /\ WF_vars(ClientReceives) /\ WF_vars(ServerSteps)
---------------------------------------------------------------------------
(* Properties.                                                             *)

InTransit(type) ==
    { i \in 1..Len(toClient) : toClient[i].type = type }

\* Nothing of the sync is left: no detail that counts at the server or on its
\* way, no download asked for, started or unfinished, no upload unacknowledged.
NothingLeft ==
    /\ Counted(owed \cup onPage) = {}
    /\ \A type \in (PageTypes \ {"FileSyncMtime"})
                   \cup {"FileSyncChunkDownload", "Chunk", "FileUploadAck"} :
            InTransit(type) = {}
    /\ \A i \in 1..Len(toServer) :
            toServer[i].type \notin {"FileChunkDownload", "Chunks"}
    /\ sending = {} /\ downloads = {} /\ uploads = {}

\* A file sync that says it is complete has nothing left to do, whatever the
\* order of pages, chunks and acknowledgements (is_complete).  A broadcast is
\* counted like a detail: it holds while the other devices are silent.
CompleteMeansHandled ==
    done /\ phase = "settings" /\ "there" \notin disturbed => NothingLeft

\* When a complete sync saw no change on either side, every file is the same
\* on both, unless the echo cache kept the client from doing what the server
\* asked for (handle_upload_session, handle_sync_delete).
SameUnlessSkipped ==
    done /\ phase = "settings" /\ disturbed = {} =>
        \A f \in Files \ skipped : disk[f] = srv[f]

\* The same without the exception: what the user is told by "sync complete".
SyncedMeansSame ==
    done /\ phase = "settings" /\ disturbed = {} => disk = srv

\* No file is ever put together from the chunks of different contents, though
\* downloads of the same file may overlap (handle_binary_chunk, add_chunk).
NeverTorn == \A f \in Files : disk[f] # Torn

\* The messages whose chunks, and numbers of chunks, are those of the content
\* that source gives to their session id.
MsgsOf(source) ==
    { m \in ServerMsgs :
        /\ m.type = "Chunk" => /\ m.id \in DOMAIN source /\ m.data = source[m.id]
                               /\ m.index < ChunkCount[m.data]
        /\ m.type = "FileSyncChunkDownload" =>
              m.id \in DOMAIN source /\ m.count = ChunkCount[source[m.id]] }

SendingFrom(source) ==
    \A t \in sending : /\ t.id \in DOMAIN source /\ t.data = source[t.id]
                       /\ t.left \subseteq 0..ChunkCount[t.data] - 1

DownloadsFrom(source) ==
    \A d \in downloads :
        /\ d.id \in DOMAIN source /\ d.count = ChunkCount[source[d.id]]
        /\ d.chunks \subseteq [index : 0..d.count - 1, data : {source[d.id]}]

OneSource(source) ==
    /\ toClient \in Seq(MsgsOf(source))
    /\ SendingFrom(source) /\ DownloadsFrom(source)

NothingUnconnected ==
    phase = "idle" => toServer = <<>> /\ toClient = <<>> /\ onPage = {} /\ sending = {}

Sourced ==
    phase # "idle" => \E source \in [0..nextId - 1 -> Contents] : OneSource(source)

\* Why no file is torn: on a connection a session id stands for one content,
\* at the server, in flight and in active_downloads, and what a connection
\* leaves behind in active_downloads is cleared before the next one uses its
\* ids again (request_sync's reset).
TransferInv == TypeOK /\ NeverTorn /\ NothingUnconnected /\ Sourced

\* The messages that stand for something to do, in either direction.
Owing == {"FileSyncUpdate", "FileSyncDelete", "FileSyncRename", "FileUpload",
          "FileUploadAck", "FileSyncChunkDownload"}
Asking == {"FileChunkDownload", "Chunks"}

\* The files of which something is still to come: a finding that counts, a
\* message, a download that is not finished, an upload not acknowledged.
Busy ==
    { x.path : x \in Counted(owed \cup onPage) \cup downloads \cup uploads }
    \cup { toClient[i].path : i \in { k \in 1..Len(toClient) : toClient[k].type \in Owing } }
    \cup { toServer[i].path : i \in { k \in 1..Len(toServer) : toServer[k].type \in Asking } }

\* Where the sync is: until the server has taken the request it is "asked".
Stage ==
    CASE phase = "files" ->
            IF \E i \in 1..Len(toServer) : toServer[i].type = "FileSync"
            THEN "asked" ELSE "answered"
      [] phase \in {"settings", "live"} /\ done -> "returned"
      [] OTHER -> "idle"

\* What is left of it, looked at until the setting sync is over.
Left ==
    IF Stage = "answered" \/ (Stage = "returned" /\ phase = "settings") THEN Busy
                                                                      ELSE {}

Session == INSTANCE SyncSession WITH Items <- Files, stage <- Stage, left <- Left

\* While no change is broadcast, a file sync keeps the contract of a sync: once
\* the server has compared, each file is settled once and none is added, and
\* the sync returns complete only when none is left (handle_message,
\* is_complete, process_file_sync_messages).
KeepsContract == Session!Spec

\* A sync ends, as long as the other devices are silent and the server holds
\* no empty file: a download of zero chunks is never counted
\* (handle_chunk_download_start).
SyncTerminates ==
    phase = "files" ~>
        \/ phase # "files" \/ "there" \in disturbed
        \/ \E f \in Files : srv[f] = Empty
=============================================================================
