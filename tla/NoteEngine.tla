---------------------------- MODULE NoteEngine ----------------------------
(***************************************************************************)
(* The part of the note engine (src/src/sync/note.rs) that touches the     *)
(* vault: what each handler of a server message, and each push to the      *)
(* server, does to the local files and to the echo cache.                  *)
(*                                                                         *)
(* A file's content is represented by its content hash: two contents are   *)
(* told apart exactly when their hashes are.  NoteSync.tla and             *)
(* NoteLive.tla build the sync session and the continuous mode on it.      *)
(***************************************************************************)
EXTENDS Naturals, Sequences

CONSTANTS
    Paths,          \* relative paths of the notes of the vault
    Hashes,         \* content hashes
    NonText,        \* contents that read_to_string rejects (not UTF-8)
    Absent,         \* no file at this path
    DeletedMarker,  \* DELETED_MARKER, "__deleted__"
    NoEntry         \* no entry in echo_hashes

ASSUME HashesAssumption ==
    /\ NonText \subseteq Hashes
    /\ {Absent, DeletedMarker, NoEntry} \cap Hashes = {}
    /\ Absent # DeletedMarker /\ Absent # NoEntry /\ DeletedMarker # NoEntry

VARIABLES
    disk,   \* the vault: content of the file at each path
    echo    \* NoteSync.echo_hashes

engineVars == <<disk, echo>>

EngineTypeOK ==
    /\ disk \in [Paths -> Hashes \cup {Absent}]
    /\ echo \in [Paths -> Hashes \cup {DeletedMarker, NoEntry}]

\* What fs::read_to_string can return: the file exists and is UTF-8.
Readable(p) == disk[p] \in Hashes \ NonText
---------------------------------------------------------------------------
(* Messages of the server: NoteSyncModify, NoteSyncDelete, NoteSyncRename. *)

\* Mutant of Echoed: no check at all.
NeverEchoed(p, h) == FALSE

\* handle_note_modify's early return: the content is the one we last pushed
\* or received.
Echoed(p, h) == echo[p] = h

\* Mutant of HandleNoteModify: the echo cache is not updated after the write.
HandleNoteModifyUnrecorded(p, h) ==
    \/ /\ Echoed(p, h)
       /\ echo' = [echo EXCEPT ![p] = NoEntry]
       /\ UNCHANGED disk
    \/ /\ ~Echoed(p, h)
       /\ disk' = [disk EXCEPT ![p] = h]
       /\ UNCHANGED echo

HandleNoteModify(p, h) ==
    \/ /\ Echoed(p, h)
       /\ echo' = [echo EXCEPT ![p] = NoEntry]
       /\ UNCHANGED disk
    \/ /\ ~Echoed(p, h)
       /\ disk' = [disk EXCEPT ![p] = h]
       /\ echo' = [echo EXCEPT ![p] = h]

HandleNoteDelete(p) ==
    \/ /\ echo[p] = DeletedMarker
       /\ echo' = [echo EXCEPT ![p] = NoEntry]
       /\ UNCHANGED disk
    \/ /\ echo[p] # DeletedMarker
       /\ disk' = [disk EXCEPT ![p] = Absent]
       /\ echo' = [echo EXCEPT ![p] = DeletedMarker]

\* Mutant of HandleNoteRename: the new path keeps its entry.
HandleNoteRenameOldOnly(old, new) ==
    /\ echo' = [echo EXCEPT ![old] = DeletedMarker]
    /\ disk' = IF disk[old] = Absent THEN disk
               ELSE [disk EXCEPT ![old] = Absent, ![new] = disk[old]]

\* The old path is marked deleted whether or not it exists; the new one gets
\* the hash of what was moved there when that can be read back.
HandleNoteRename(old, new) ==
    LET marked == [echo EXCEPT ![old] = DeletedMarker]
    IN \/ /\ disk[old] = Absent
          /\ echo' = marked
          /\ UNCHANGED disk
       \/ /\ disk[old] # Absent
          /\ disk' = [disk EXCEPT ![old] = Absent, ![new] = disk[old]]
          /\ echo' = IF Readable(old) THEN [marked EXCEPT ![new] = disk[old]]
                                      ELSE marked
---------------------------------------------------------------------------
(* Messages to the server: NoteModify, NoteDelete.                         *)

NoteModifyMsg(p, h) == [type |-> "NoteModify", path |-> p, hash |-> h]

NoteDeleteMsg(p) == [type |-> "NoteDelete", path |-> p, hash |-> Absent]

\* push_modify reaches its send: the file is there and readable, and (unless
\* forced) its content is not the one the echo cache holds.
Pushes(p, force) == Readable(p) /\ (force \/ ~Echoed(p, disk[p]))

\* push_modify on an open connection: the messages it sends, and the echo
\* cache after it.
PushModifyMsgs(p, force) ==
    IF Pushes(p, force) THEN <<NoteModifyMsg(p, disk[p])>> ELSE <<>>

PushModifyEcho(p, force) ==
    IF Pushes(p, force) THEN [echo EXCEPT ![p] = disk[p]] ELSE echo

\* Mutant of PushDeleteEcho: not the marker that the handlers know.
PushDeleteOtherMarker(e, p) == [e EXCEPT ![p] = Absent]

\* push_delete on an open connection.
PushDeleteEcho(e, p) == [e EXCEPT ![p] = DeletedMarker]
=============================================================================
