----------------------------- MODULE NoteLive -----------------------------
(***************************************************************************)
(* Notes in continuous mode (the select! loop of run_continuous in         *)
(* src/src/sync/coordinator.rs): the file watcher's events and the         *)
(* server's broadcasts are handled as they come, and only the echo cache   *)
(* tells a change made here from one received.                             *)
(*                                                                         *)
(* The model starts after a sync that left vault and server equal, on a    *)
(* connection that stays up.  A change of the vault, whoever makes it, is  *)
(* noticed by the watcher.  process_event drops the event of a file that   *)
(* is gone by then, and push_modify does so again: one queue stands for    *)
(* the watcher's channels.  read_stable_note_content may sleep between two *)
(* reads, but its handler reads nothing else of the vault: a push happens  *)
(* at the instant of the last read.                                        *)
(***************************************************************************)
EXTENDS NoteEngine, FiniteSets

CONSTANTS
    EchoesToAuthor,     \* does the server send a client its own changes?
    Removals,           \* may notes be deleted and renamed?
    Overlap,            \* may a removal overlap with other changes?
    EventsPerWrite,     \* bound: events the watcher reports for one write
    MaxUserChanges,     \* bound: changes by the user
    MaxRemoteChanges    \* bound: changes by other devices

ASSUME NoteLiveAssumption ==
    /\ EchoesToAuthor \in BOOLEAN /\ Removals \in BOOLEAN /\ Overlap \in BOOLEAN
    /\ EventsPerWrite \in Nat \ {0}
    /\ MaxUserChanges \in Nat /\ MaxRemoteChanges \in Nat

VARIABLES
    watch,                  \* watch_rx: events of the watcher not yet handled
    toServer, toClient,     \* the two directions of the connection
    srv,                    \* the server's copy
    userChanges, remoteChanges, \* counters, bounded
    wrote                   \* ghost: the contents the user has put at each path

vars == <<engineVars, watch, toServer, toClient, srv, userChanges,
          remoteChanges, wrote>>

Contents == Hashes \cup {Absent}

Modified(p) == [kind |-> "Modified", from |-> p, path |-> p]
Deleted(p) == [kind |-> "Deleted", from |-> p, path |-> p]
Moved(old, new) == [kind |-> "Moved", from |-> old, path |-> new]

Events == [kind : {"Modified", "Deleted", "Moved"}, from : Paths, path : Paths]

ClientMsgs == [type : {"NoteModify", "NoteDelete"}, path : Paths, hash : Contents]

ServerMsgs ==
    [type : {"NoteSyncModify", "NoteSyncDelete"}, path : Paths, hash : Contents]
    \cup [type : {"NoteSyncRename"}, old : Paths, path : Paths]

SyncModifyMsg(p, h) == [type |-> "NoteSyncModify", path |-> p, hash |-> h]
SyncDeleteMsg(p) == [type |-> "NoteSyncDelete", path |-> p, hash |-> Absent]
---------------------------------------------------------------------------
TypeOK ==
    /\ EngineTypeOK
    /\ watch \in Seq(Events)
    /\ toServer \in Seq(ClientMsgs) /\ toClient \in Seq(ServerMsgs)
    /\ srv \in [Paths -> Contents]
    /\ userChanges \in Nat /\ remoteChanges \in Nat
    /\ wrote \in [Paths -> SUBSET Hashes]

Init ==
    /\ disk \in [Paths -> Contents \ NonText]
    /\ srv = disk
    /\ echo = [p \in Paths |-> NoEntry]
    /\ watch = <<>> /\ toServer = <<>> /\ toClient = <<>>
    /\ userChanges = 0 /\ remoteChanges = 0
    /\ wrote = [p \in Paths |-> {}]
---------------------------------------------------------------------------
(* The watcher.                                                            *)

\* One write of a file is reported once or several times.
Noticed(p) ==
    \E n \in 1..EventsPerWrite : watch' = watch \o [i \in 1..n |-> Modified(p)]

NoticedRemoval(p) == watch' = Append(watch, Deleted(p))

\* A rename inside the vault is reported by its target, then by both paths.
NoticedRename(old, new) == watch' = watch \o <<Modified(new), Moved(old, new)>>

\* What the watcher sees of a handler that may have changed the vault.
NoticedHandler(p) ==
    IF disk' = disk THEN UNCHANGED watch
    ELSE IF disk'[p] = Absent THEN NoticedRemoval(p) ELSE Noticed(p)
---------------------------------------------------------------------------
(* The client.                                                             *)

\* handle_watch_event, for notes that no pattern excludes.
WatchModified ==
    /\ Head(watch).kind = "Modified"
    /\ LET p == Head(watch).path
       IN /\ toServer' = toServer \o PushModifyMsgs(p, FALSE)
          /\ echo' = PushModifyEcho(p, FALSE)

WatchDeleted ==
    /\ Head(watch).kind = "Deleted"
    /\ LET p == Head(watch).path
       IN /\ toServer' = Append(toServer, NoteDeleteMsg(p))
          /\ echo' = PushDeleteEcho(echo, p)

\* Mutant of WatchMoved: only the new path is pushed.
WatchMovedKeepsOld ==
    /\ Head(watch).kind = "Moved"
    /\ toServer' = toServer \o PushModifyMsgs(Head(watch).path, FALSE)
    /\ echo' = PushModifyEcho(Head(watch).path, FALSE)

\* push_rename
WatchMoved ==
    /\ Head(watch).kind = "Moved"
    /\ LET old == Head(watch).from
           new == Head(watch).path
       IN /\ toServer' = toServer \o PushModifyMsgs(new, FALSE) \o <<NoteDeleteMsg(old)>>
          /\ echo' = PushDeleteEcho(PushModifyEcho(new, FALSE), old)

HandleWatchEvent ==
    /\ watch # <<>>
    /\ WatchModified \/ WatchDeleted \/ WatchMoved
    /\ watch' = Tail(watch)
    /\ UNCHANGED <<disk, toClient, srv, userChanges, remoteChanges, wrote>>

\* handle_server_message.
ReceiveModify ==
    /\ Head(toClient).type = "NoteSyncModify"
    /\ LET m == Head(toClient)
       IN /\ HandleNoteModify(m.path, m.hash)
          /\ IF Echoed(m.path, m.hash) THEN UNCHANGED watch ELSE Noticed(m.path)

ReceiveDelete ==
    /\ Head(toClient).type = "NoteSyncDelete"
    /\ HandleNoteDelete(Head(toClient).path)
    /\ NoticedHandler(Head(toClient).path)

ReceiveRename ==
    /\ Head(toClient).type = "NoteSyncRename"
    /\ LET m == Head(toClient)
       IN /\ HandleNoteRename(m.old, m.path)
          /\ IF disk[m.old] = Absent THEN UNCHANGED watch
                                     ELSE NoticedRename(m.old, m.path)

HandleServerMessage ==
    /\ toClient # <<>>
    /\ ReceiveModify \/ ReceiveDelete \/ ReceiveRename
    /\ toClient' = Tail(toClient)
    /\ UNCHANGED <<toServer, srv, userChanges, remoteChanges, wrote>>
---------------------------------------------------------------------------
(* The server.                                                             *)

\* It sends a change on to its author too, if it does so at all; one that
\* changes nothing it may keep to itself.
SendToAuthor(changed, m) ==
    \/ EchoesToAuthor /\ toClient' = Append(toClient, m)
    \/ (~EchoesToAuthor \/ ~changed) /\ UNCHANGED toClient

ServerAcceptsModify ==
    /\ Head(toServer).type = "NoteModify"
    /\ LET m == Head(toServer)
       IN /\ srv' = [srv EXCEPT ![m.path] = m.hash]
          /\ SendToAuthor(srv[m.path] # m.hash, SyncModifyMsg(m.path, m.hash))

ServerAcceptsDelete ==
    /\ Head(toServer).type = "NoteDelete"
    /\ LET p == Head(toServer).path
       IN /\ srv' = [srv EXCEPT ![p] = Absent]
          /\ IF srv[p] = Absent THEN UNCHANGED toClient
                                ELSE SendToAuthor(TRUE, SyncDeleteMsg(p))

ServerStep ==
    /\ toServer # <<>>
    /\ ServerAcceptsModify \/ ServerAcceptsDelete
    /\ toServer' = Tail(toServer)
    /\ UNCHANGED <<engineVars, watch, userChanges, remoteChanges, wrote>>
---------------------------------------------------------------------------
(* The user and the other devices.                                         *)

Quiet == watch = <<>> /\ toServer = <<>> /\ toClient = <<>>

\* A deletion or a rename has not settled yet.
RemovalUnderWay ==
    \/ \E i \in 1..Len(watch) : watch[i].kind \in {"Deleted", "Moved"}
    \/ \E i \in 1..Len(toServer) : toServer[i].type = "NoteDelete"
    \/ \E i \in 1..Len(toClient) : toClient[i].type \in {"NoteSyncDelete", "NoteSyncRename"}

\* Edits may cross each other; unless removals may overlap, they begin when
\* all is quiet and no edit is made until they have settled.
MayChange(removal) ==
    \/ Overlap
    \/ removal /\ Quiet
    \/ ~removal /\ ~RemovalUnderWay

UserTurn(removal) ==
    /\ MayChange(removal)
    /\ userChanges < MaxUserChanges
    /\ userChanges' = userChanges + 1
    /\ UNCHANGED <<echo, toServer, toClient, srv, remoteChanges>>

UserEdits(p, h) ==
    /\ disk[p] # h
    /\ UserTurn(FALSE)
    /\ disk' = [disk EXCEPT ![p] = h]
    /\ wrote' = [wrote EXCEPT ![p] = @ \cup {h}]
    /\ Noticed(p)

UserDeletes(p) ==
    /\ Removals
    /\ disk[p] # Absent
    /\ UserTurn(TRUE)
    /\ disk' = [disk EXCEPT ![p] = Absent]
    /\ NoticedRemoval(p)
    /\ UNCHANGED wrote

UserRenames(old, new) ==
    /\ Removals
    /\ old # new /\ disk[old] # Absent
    /\ UserTurn(TRUE)
    /\ disk' = [disk EXCEPT ![old] = Absent, ![new] = disk[old]]
    /\ wrote' = [wrote EXCEPT ![new] = @ \cup {disk[old]}]
    /\ NoticedRename(old, new)

UserChanges ==
    \/ \E p \in Paths, h \in Hashes : UserEdits(p, h)
    \/ \E p \in Paths : UserDeletes(p)
    \/ \E old, new \in Paths : UserRenames(old, new)

RemoteTurn(removal) ==
    /\ MayChange(removal)
    /\ remoteChanges < MaxRemoteChanges
    /\ remoteChanges' = remoteChanges + 1
    /\ UNCHANGED <<engineVars, watch, toServer, userChanges, wrote>>

RemoteEdits(p, h) ==
    /\ srv[p] # h
    /\ RemoteTurn(FALSE)
    /\ srv' = [srv EXCEPT ![p] = h]
    /\ toClient' = Append(toClient, SyncModifyMsg(p, h))

RemoteDeletes(p) ==
    /\ Removals
    /\ srv[p] # Absent
    /\ RemoteTurn(TRUE)
    /\ srv' = [srv EXCEPT ![p] = Absent]
    /\ toClient' = Append(toClient, SyncDeleteMsg(p))

RemoteRenames(old, new) ==
    /\ Removals
    /\ old # new /\ srv[old] # Absent
    /\ RemoteTurn(TRUE)
    /\ srv' = [srv EXCEPT ![old] = Absent, ![new] = srv[old]]
    /\ toClient' = Append(toClient, [type |-> "NoteSyncRename", old |-> old, path |-> new])

RemoteChanges ==
    \/ \E p \in Paths, h \in Hashes \ NonText : RemoteEdits(p, h)
    \/ \E p \in Paths : RemoteDeletes(p)
    \/ \E old, new \in Paths : RemoteRenames(old, new)
---------------------------------------------------------------------------
Next ==
    \/ HandleWatchEvent \/ HandleServerMessage \/ ServerStep
    \/ UserChanges \/ RemoteChanges

Spec == Init /\ [][Next]_vars

\* select! polls its ready branches in random order, so neither the watcher's
\* nor the server's messages wait for ever.
FairSpec ==
    /\ Spec
    /\ WF_vars(HandleWatchEvent) /\ WF_vars(HandleServerMessage) /\ WF_vars(ServerStep)
---------------------------------------------------------------------------
(* Properties.                                                             *)

\* The echo cache breaks every loop: once the user and the other devices have
\* stopped, so do the client and the server (handle_note_modify and
\* push_modify, each of which can be the answer to the other).
FeedbackEnds == <>[]Quiet

\* When nothing is under way any more, the vault is what the server holds,
\* whatever changes crossed on the way: no message was suppressed, and no
\* event skipped, that carried one (handle_watch_event, handle_server_message).
\* Only a content that cannot be read stays where it is.
QuietMeansSame ==
    Quiet => \A p \in Paths : disk[p] = srv[p] \/ disk[p] \in NonText

\* What was just received is not uploaded: every NoteModify carries a content
\* the user gave the note here (push_modify with echo_hashes).
UploadsAreOurs ==
    \A i \in 1..Len(toServer) :
        toServer[i].type = "NoteModify" => toServer[i].hash \in wrote[toServer[i].path]
=============================================================================
