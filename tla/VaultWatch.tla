----------------------------- MODULE VaultWatch -----------------------------
(***************************************************************************)
(* From the file system to the server: the file watcher                    *)
(* (src/src/watcher.rs) turns raw notify events into watch events,         *)
(* handle_watch_event (src/src/sync/coordinator.rs) hands each to the      *)
(* engine of its path, and the engine pushes it.  Here for a connection    *)
(* that stays up and a server that changes nothing itself and does not     *)
(* echo: what is left is whether the program notices all that happens to   *)
(* the vault.                                                              *)
(*                                                                         *)
(* The vault is a set of directories, each with files of the same names.   *)
(* A path that is_excluded rejects is outside: process_event drops it, and *)
(* to the watcher a rename to one is a rename out of the vault.  notify is *)
(* external: inotify reports a rename by its source, its target and both;  *)
(* other systems by a RenameMode::Any for each side.  A directory that     *)
(* moves is reported itself, the files in it are not.                      *)
(***************************************************************************)
EXTENDS Naturals, Sequences, SequencesExt, FiniteSets

CONSTANTS
    Dirs,           \* directories of the vault
    Names,          \* file names in each of them
    Kind,           \* the engine of each path: notes, settings or files
    Contents,       \* contents, told apart by their hashes
    Initial,        \* what the vault may be at the beginning
    NonText,        \* contents that push_modify does not send
    Absent,         \* no file at this path
    DeletedMarker,  \* the entry of a deletion in echo_hashes
    NoEntry,        \* no entry in echo_hashes
    Backends,       \* how renames may be reported: "paired", "single"
    MaxChanges,     \* bound: what the user does
    MaxPending      \* bound: events not handled when the user does it

Paths == Dirs \X Names
Engines == {"notes", "settings", "files"}

ASSUME VaultWatchAssumption ==
    /\ IsFiniteSet(Dirs) /\ IsFiniteSet(Names)
    /\ Dirs \cap Paths = {}        \* a directory is not a file
    /\ Kind \in [Paths -> Engines]
    /\ NonText \subseteq Contents
    /\ Initial \subseteq [Paths -> Contents \cup {Absent}]
    /\ {Absent, DeletedMarker, NoEntry} \cap Contents = {}
    /\ Backends \subseteq {"paired", "single"} /\ Backends # {}
    /\ MaxChanges \in Nat /\ MaxPending \in Nat

VARIABLES
    backend,        \* which of the Backends this machine has
    disk,           \* the vault: content of the file at each path
    known,          \* FileWatcher.known_files
    raw,            \* raw_rx: events of notify
    events,         \* event_rx, its bridge and watch_rx, one queue
    echo,           \* echo_hashes of each engine
    hashed,         \* the upload under way: its path, and the content that was hashed
    toServer, toClient,     \* the two directions of the connection
    srv,            \* the server's copy
    changes,        \* counter, bounded
    unreported,     \* ghost: paths that the last change left unreported
    carried,        \* ghost: files that came to their place with a directory
    misread         \* ghost: files sent with another content than was hashed

watchVars  == <<known, raw, events>>
serverVars == <<toServer, toClient, srv>>
uploadVars == <<hashed, misread>>
vars == <<backend, disk, watchVars, echo, uploadVars, serverVars, changes, unreported,
          carried>>

IsFile(x) == x \in Paths /\ disk[x] # Absent
Under(d) == { p \in Paths : p[1] = d }
FilesUnder(d) == { p \in Under(d) : IsFile(p) }
Exists(x) == IsFile(x) \/ FilesUnder(x) # {}

RawKinds == {"Create", "Modify", "From", "To", "Both", "Any", "RemoveFile",
             "RemoveFolder"}
Raw(kind, x) == [kind |-> kind, from |-> x, path |-> x]
RawBoth(x, y) == [kind |-> "Both", from |-> x, path |-> y]

Event(kind, x) == [kind |-> kind, from |-> x, path |-> x]
MovedEvent(x, y) == [kind |-> "Moved", from |-> x, path |-> y]

ClientMsgs ==
    [type : {"Modify"}, engine : Engines, path : Paths, content : Contents]
    \cup [type : {"Delete"}, engine : Engines, path : Paths]
    \cup [type : {"FileUploadCheck", "Chunks"}, path : Paths, content : Contents]
---------------------------------------------------------------------------
TypeOK ==
    /\ backend \in Backends
    /\ disk \in [Paths -> Contents \cup {Absent}]
    /\ known \subseteq Paths \cup Dirs
    /\ raw \in Seq([kind : RawKinds, from : Paths \cup Dirs, path : Paths \cup Dirs])
    /\ events \in Seq([kind : {"Created", "Modified", "Deleted", "Moved"},
                       from : Paths \cup Dirs, path : Paths \cup Dirs])
    /\ echo \in [Engines -> [Paths -> Contents \cup {DeletedMarker, NoEntry}]]
    /\ toServer \in Seq(ClientMsgs)
    /\ toClient \in Seq([type : {"FileUpload"}, path : Paths])
    /\ srv \in [Paths -> Contents \cup {Absent}]
    /\ changes \in Nat
    /\ hashed \subseteq [path : Paths, content : Contents]
    /\ unreported \subseteq Paths /\ carried \subseteq Paths /\ misread \subseteq Paths

\* After the syncs: both sides are the same, but for what is not text, and the
\* watcher has scanned the vault (initialize_known_files).
Init ==
    /\ backend \in Backends
    /\ disk \in Initial
    /\ srv = [p \in Paths |-> IF disk[p] \in NonText /\ Kind[p] # "files"
                              THEN Absent ELSE disk[p]]
    /\ known = { p \in Paths : IsFile(p) }
    /\ raw = <<>> /\ events = <<>> /\ toServer = <<>> /\ toClient = <<>>
    /\ echo = [k \in Engines |-> [p \in Paths |-> NoEntry]]
    /\ hashed = {}
    /\ changes = 0 /\ unreported = {} /\ carried = {} /\ misread = {}
---------------------------------------------------------------------------
(* The watcher.                                                            *)

\* process_event takes the next raw event, and reports and tracks at once.
Process(kinds) ==
    /\ raw # <<>>
    /\ Head(raw).kind \in kinds
    /\ raw' = Tail(raw)
    /\ UNCHANGED <<backend, disk, echo, uploadVars, serverVars, changes, unreported,
                   carried>>

\* Create, RenameMode::To: a file that is there now.  A directory is not one.
ProcessAppearance ==
    /\ Process({"Create", "To"})
    /\ LET x == Head(raw).path
       IN \/ /\ IsFile(x)
             /\ known' = known \cup {x}
             /\ events' = Append(events, Event("Created", x))
          \/ ~IsFile(x) /\ UNCHANGED <<known, events>>

\* Any other modification of what is still there.
ProcessModify ==
    /\ Process({"Modify"})
    /\ events' = IF Exists(Head(raw).path)
                 THEN Append(events, Event("Modified", Head(raw).path)) ELSE events
    /\ UNCHANGED known

\* RenameMode::From only untracks: RenameMode::Both is to report it.
ProcessFrom ==
    /\ Process({"From"})
    /\ known' = known \ {Head(raw).path}
    /\ UNCHANGED events

\* RenameMode::Both, of two paths that is_excluded lets pass.
ProcessBoth ==
    /\ Process({"Both"})
    /\ known' = (known \ {Head(raw).from}) \cup {Head(raw).path}
    /\ events' = Append(events, MovedEvent(Head(raw).from, Head(raw).path))

\* get_files_under_dir
KnownUnder(x) == { y \in known : y = x \/ y \in Under(x) }

Deletions(xs) == [i \in 1..Len(xs) |-> Event("Deleted", xs[i])]

\* Mutant of Gone: the files of the directory stay known.
GoneStillKnown(x) ==
    /\ known' = known \ {x}
    /\ \E victims \in SetToSeqs(KnownUnder(x)) :
          events' = events \o Deletions(IF victims = <<>> THEN <<x>> ELSE victims)

\* RenameMode::Any of a path that is no file any more, or never was: the known
\* files at and under it are gone; if there are none, the path itself.
Gone(x) ==
    /\ known' = known \ KnownUnder(x)
    /\ \E victims \in SetToSeqs(KnownUnder(x)) :
          events' = events \o Deletions(IF victims = <<>> THEN <<x>> ELSE victims)

\* RenameMode::Any of one side of a rename.
ProcessAny ==
    /\ Process({"Any"})
    /\ LET x == Head(raw).path
       IN \/ /\ IsFile(x)
             /\ known' = known \cup {x}
             /\ events' = Append(events, Event("Created", x))
          \/ ~IsFile(x) /\ Gone(x)

ProcessRemoval ==
    LET x == Head(raw).path
    IN \/ /\ Process({"RemoveFile"})
          /\ known' = known \ {x}
          /\ events' = Append(events, Event("Deleted", x))
       \/ /\ Process({"RemoveFolder"})
          /\ known' = known \ KnownUnder(x)
          /\ \E victims \in SetToSeqs(KnownUnder(x)) :
                events' = events \o Deletions(victims)

ProcessEvent ==
    \/ ProcessAppearance \/ ProcessModify \/ ProcessFrom \/ ProcessBoth
    \/ ProcessAny \/ ProcessRemoval
---------------------------------------------------------------------------
(* The coordinator and the engines.                                        *)

\* A path in a dot-prefixed directory goes to the setting engine, another .md
\* to the note engine, all else, a directory too, to the file engine.
EngineOf(x) == IF x \in Paths THEN Kind[x] ELSE "files"

\* push_modify of notes and settings, push_upload of files: what is sent when
\* the echo cache is e.  A directory cannot be read.
PushMsgs(x) ==
    LET k == EngineOf(x)
    IN IF ~IsFile(x) \/ echo[k][x] = disk[x] THEN <<>>
       ELSE IF k = "files"
            THEN <<[type |-> "FileUploadCheck", path |-> x, content |-> disk[x]]>>
       ELSE IF disk[x] \in NonText THEN <<>>
            ELSE <<[type |-> "Modify", engine |-> k, path |-> x, content |-> disk[x]]>>

\* Only push_modify remembers at once; a file is remembered when it is sent.
PushEcho(x) ==
    LET k == EngineOf(x)
    IN IF k # "files" /\ PushMsgs(x) # <<>> THEN [echo EXCEPT ![k][x] = disk[x]]
                                            ELSE echo

\* push_delete of engine k.  The server has nothing at the path of a directory.
DeleteMsgs(k, x) ==
    IF x \in Paths THEN <<[type |-> "Delete", engine |-> k, path |-> x]>> ELSE <<>>

\* Mutant of DeleteEcho: not the marker that the handlers know.
DeleteEchoOther(e, k, x) == IF x \in Paths THEN [e EXCEPT ![k][x] = Absent] ELSE e

DeleteEcho(e, k, x) == IF x \in Paths THEN [e EXCEPT ![k][x] = DeletedMarker] ELSE e

HandlePushed(x) ==
    /\ toServer' = toServer \o PushMsgs(x)
    /\ echo' = PushEcho(x)

HandleDeleted(x) ==
    /\ toServer' = toServer \o DeleteMsgs(EngineOf(x), x)
    /\ echo' = DeleteEcho(echo, EngineOf(x), x)

\* Mutant of HandleMoved: the source is forgotten.
HandleMovedAsCreated(x, y) == HandlePushed(y)

\* Both paths are included: the engine of the new path handles both, whatever
\* the kind of the old one.  Files are deleted first, the others last.
HandleMoved(x, y) ==
    LET k == EngineOf(y)
    IN /\ toServer' = toServer \o (IF k = "files"
                                   THEN DeleteMsgs(k, x) \o PushMsgs(y)
                                   ELSE PushMsgs(y) \o DeleteMsgs(k, x))
       /\ echo' = DeleteEcho(PushEcho(y), k, x)

\* handle_watch_event.  The task that handles events and messages is busy while
\* it sends a file.
HandleWatchEvent ==
    /\ events # <<>> /\ hashed = {}
    /\ LET e == Head(events)
       IN \/ e.kind \in {"Created", "Modified"} /\ HandlePushed(e.path)
          \/ e.kind = "Deleted" /\ HandleDeleted(e.path)
          \/ e.kind = "Moved" /\ HandleMoved(e.from, e.path)
    /\ events' = Tail(events)
    /\ UNCHANGED <<backend, disk, known, raw, toClient, srv, changes, unreported,
                   carried, uploadVars>>

\* handle_upload_session: the file is hashed, unless it is gone; if the echo
\* cache holds what it is, nothing is sent.
HandleUploadSession ==
    /\ toClient # <<>> /\ hashed = {}
    /\ LET p == Head(toClient).path
       IN \/ /\ IsFile(p) /\ echo["files"][p] # disk[p]
             /\ hashed' = {[path |-> p, content |-> disk[p]]}
          \/ /\ ~IsFile(p) \/ echo["files"][p] = disk[p]
             /\ UNCHANGED hashed
    /\ toClient' = Tail(toClient)
    /\ UNCHANGED <<backend, disk, watchVars, echo, misread, toServer, srv, changes,
                   unreported, carried>>

\* upload_file reads the file again and sends what it is now; the hash taken
\* before is what the echo cache keeps.  If the file is gone now, the error is
\* logged and nothing is kept.
UploadFile ==
    /\ \E h \in hashed :
        /\ hashed' = hashed \ {h}
        /\ \/ /\ IsFile(h.path)
              /\ toServer' = Append(toServer, [type |-> "Chunks", path |-> h.path,
                                               content |-> disk[h.path]])
              /\ echo' = [echo EXCEPT !["files"][h.path] = h.content]
              /\ misread' = IF disk[h.path] = h.content THEN misread \ {h.path}
                                                        ELSE misread \cup {h.path}
           \/ ~IsFile(h.path) /\ UNCHANGED <<toServer, echo, misread>>
    /\ UNCHANGED <<backend, disk, watchVars, toClient, srv, changes, unreported, carried>>
---------------------------------------------------------------------------
(* The server.                                                             *)

\* A message to an engine is about that engine's files only.  The server asks
\* for a file whose content it does not have, and stores what it gets.
Stored(m) ==
    CASE m.type = "Modify" -> [srv EXCEPT ![m.path] = m.content]
      [] m.type = "Delete" -> IF Kind[m.path] = m.engine
                              THEN [srv EXCEPT ![m.path] = Absent] ELSE srv
      [] m.type = "Chunks" -> [srv EXCEPT ![m.path] = m.content]
      [] m.type = "FileUploadCheck" -> srv

ServerStep ==
    /\ toServer # <<>>
    /\ LET m == Head(toServer)
       IN /\ srv' = Stored(m)
          /\ toClient' = IF m.type = "FileUploadCheck" /\ srv[m.path] # m.content
                         THEN Append(toClient, [type |-> "FileUpload", path |-> m.path])
                         ELSE toClient
    /\ toServer' = Tail(toServer)
    /\ UNCHANGED <<backend, disk, watchVars, echo, uploadVars, changes, unreported,
                   carried>>
---------------------------------------------------------------------------
(* The user.                                                               *)

Change(reports) ==
    /\ changes < MaxChanges /\ Len(raw) + Len(events) <= MaxPending
    /\ changes' = changes + 1
    /\ raw' = raw \o reports
    /\ UNCHANGED <<backend, known, events, echo, uploadVars, serverVars>>

RenameReports(x, y) ==
    IF backend = "paired" THEN <<Raw("From", x), Raw("To", y), RawBoth(x, y)>>
                          ELSE <<Raw("Any", x), Raw("Any", y)>>

UserWrites(p, c) ==
    /\ disk[p] # c
    /\ Change(IF IsFile(p) THEN <<Raw("Modify", p)>>
                           ELSE <<Raw("Create", p), Raw("Modify", p)>>)
    /\ disk' = [disk EXCEPT ![p] = c]
    /\ unreported' = unreported \ {p}
    /\ carried' = IF IsFile(p) THEN carried ELSE carried \ {p}

UserDeletes(p) ==
    /\ IsFile(p)
    /\ Change(<<Raw("RemoveFile", p)>>)
    /\ disk' = [disk EXCEPT ![p] = Absent]
    /\ unreported' = unreported \ {p} /\ carried' = carried \ {p}

\* A rename that changes the kind of a path is reported to one engine only.
UserRenames(p, q) ==
    /\ IsFile(p) /\ p # q
    /\ Change(RenameReports(p, q))
    /\ disk' = [disk EXCEPT ![p] = Absent, ![q] = disk[p]]
    /\ unreported' = (unreported \ {p, q}) \cup
                     (IF backend = "paired" /\ Kind[p] # Kind[q] THEN {p} ELSE {})
    /\ carried' = carried \ {p, q}

\* Out of the vault, or to an excluded path.
UserMovesOut(p) ==
    /\ IsFile(p)
    /\ Change(IF backend = "paired" THEN <<Raw("From", p)>> ELSE <<Raw("Any", p)>>)
    /\ disk' = [disk EXCEPT ![p] = Absent]
    /\ unreported' = IF backend = "paired" THEN unreported \cup {p}
                                           ELSE unreported \ {p}
    /\ carried' = carried \ {p}

\* Into the vault, or from an excluded path, over what is there: the way many
\* editors save.
UserMovesIn(p, c) ==
    /\ Change(IF backend = "paired" THEN <<Raw("To", p)>> ELSE <<Raw("Any", p)>>)
    /\ disk' = [disk EXCEPT ![p] = c]
    /\ unreported' = unreported \ {p} /\ carried' = carried \ {p}

\* The files of d, or the places of those files in e.
Places(d, e) == { <<e, p[2]>> : p \in FilesUnder(d) }

UserDeletesDir(d) ==
    /\ FilesUnder(d) # {}
    /\ \E files \in SetToSeqs(FilesUnder(d)) :
          Change([i \in 1..Len(files) |-> Raw("RemoveFile", files[i])]
                 \o <<Raw("RemoveFolder", d)>>)
    /\ disk' = [p \in Paths |-> IF p[1] = d THEN Absent ELSE disk[p]]
    /\ unreported' = unreported \ FilesUnder(d) /\ carried' = carried \ Under(d)

\* What is not reported of the files that leave with their directory: without
\* RenameMode::Both only those that the watcher does not know, because they came
\* with a directory, or because they were sent before it saw them appear.
LeftBehind(d) ==
    IF backend = "paired" THEN FilesUnder(d)
    ELSE { p \in FilesUnder(d) :
             \/ p \in carried
             \/ /\ p \notin known /\ echo[Kind[p]][p] \in Contents
                /\ Event("Deleted", p) \notin ToSet(events) }

UserRenamesDir(d, e) ==
    /\ d # e
    /\ Change(RenameReports(d, e))
    /\ FilesUnder(d) # {} /\ FilesUnder(e) = {}
    /\ disk' = [p \in Paths |-> CASE p[1] = d -> Absent
                                  [] p[1] = e -> disk[<<d, p[2]>>]
                                  [] OTHER -> disk[p]]
    /\ unreported' = (unreported \ FilesUnder(d)) \cup LeftBehind(d) \cup Places(d, e)
    /\ carried' = (carried \ Under(d)) \cup Places(d, e)

UserMovesDirOut(d) ==
    /\ Change(IF backend = "paired" THEN <<Raw("From", d)>> ELSE <<Raw("Any", d)>>)
    /\ FilesUnder(d) # {}
    /\ disk' = [p \in Paths |-> IF p[1] = d THEN Absent ELSE disk[p]]
    /\ unreported' = (unreported \ FilesUnder(d)) \cup LeftBehind(d)
    /\ carried' = carried \ Under(d)

UserMovesDirIn(d, c) ==
    /\ Change(IF backend = "paired" THEN <<Raw("To", d)>> ELSE <<Raw("Any", d)>>)
    /\ FilesUnder(d) = {}
    /\ disk' = [p \in Paths |-> IF p[1] = d THEN c ELSE disk[p]]
    /\ unreported' = unreported \cup Under(d) /\ carried' = carried \cup Under(d)

UserChanges ==
    \/ \E p \in Paths : UserDeletes(p) \/ UserMovesOut(p)
    \/ \E p \in Paths, c \in Contents : UserWrites(p, c) \/ UserMovesIn(p, c)
    \/ \E p, q \in Paths : UserRenames(p, q)
    \/ \E d \in Dirs : UserDeletesDir(d) \/ UserMovesDirOut(d)
    \/ \E d \in Dirs, c \in Contents : UserMovesDirIn(d, c)
    \/ \E d, e \in Dirs : UserRenamesDir(d, e)
---------------------------------------------------------------------------
Next ==
    \/ ProcessEvent \/ HandleWatchEvent \/ HandleUploadSession \/ UploadFile
    \/ ServerStep \/ UserChanges

Spec == Init /\ [][Next]_vars
---------------------------------------------------------------------------
(* Properties.                                                             *)

Quiet ==
    /\ raw = <<>> /\ events = <<>> /\ hashed = {}
    /\ toServer = <<>> /\ toClient = <<>>

\* The echo cache takes the file for sent, but between its hash and its second
\* read the file was another (handle_upload_session, upload_file).
TakenForSent(p) == p \in misread /\ disk[p] = echo[Kind[p]][p]

\* When all events are handled the server has what the vault has, however
\* changes, events and messages crossed on the way (process_event asks the
\* vault, so do the pushes, handle_upload_session and upload_file, each later
\* than the event).  What is not text is left out, and so is what the program
\* does not report: a file moved out of the vault, the source of a rename that
\* changes its kind, the files of a directory that moves.  The other exception
\* is a file changed between the two reads of its upload and changed back
\* afterwards: no push or upload is made for it.
QuietMeansReported ==
    Quiet => \A p \in Paths \ unreported :
                \/ srv[p] = disk[p]
                \/ Kind[p] # "files" /\ disk[p] \in NonText
                \/ TakenForSent(p)

\* known_files, from which the watcher takes the files of a directory that is
\* gone, lists the files that are there once it has seen all events, but for
\* those that came or went with a directory (track_file, untrack_file).
KnownIsTrue ==
    raw = <<>> => \A p \in Paths \ (unreported \cup carried) :
                    p \in known <=> IsFile(p)
=============================================================================
