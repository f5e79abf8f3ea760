--------------------------- MODULE SettingEngine ---------------------------
(***************************************************************************)
(* The part of the setting engine (src/src/sync/setting.rs) that touches   *)
(* the vault: what each handler of a server message, and each push to the  *)
(* server, does to the files of the dot-prefixed directories and to the    *)
(* echo cache.  SettingSync.tla builds the sync session and the continuous *)
(* mode on it.                                                             *)
(*                                                                         *)
(* It is not the note engine under another name: a modification is written *)
(* whatever the echo cache says, a suppressed deletion is not counted, and *)
(* some files are never text.                                              *)
(***************************************************************************)
EXTENDS Naturals, Sequences

CONSTANTS
    Paths,          \* relative paths of the setting files
    Contents,       \* contents, told apart by their hashes
    NonText,        \* contents that read_to_string rejects (not UTF-8)
    Binary,         \* contents that is_text_file rejects (a zero byte, an extension)
    Excluded,       \* paths that is_excluded rejects (.index/, temp-chunks)
    Absent,         \* no file at this path
    DeletedMarker,  \* DELETED_MARKER, "__deleted__"
    NoEntry         \* no entry in echo_hashes

ASSUME ContentsAssumption ==
    /\ NonText \subseteq Contents /\ Binary \subseteq Contents
    /\ Excluded \subseteq Paths
    /\ {Absent, DeletedMarker, NoEntry} \cap Contents = {}
    /\ Absent # DeletedMarker /\ Absent # NoEntry /\ DeletedMarker # NoEntry

VARIABLES
    disk,   \* the vault: content of the file at each path
    echo    \* SettingSync.echo_hashes

engineVars == <<disk, echo>>

\* The contents that push_modify can send.
Sendable == Contents \ (NonText \cup Binary)

EngineTypeOK ==
    /\ disk \in [Paths -> Contents \cup {Absent}]
    /\ echo \in [Paths -> Contents \cup {DeletedMarker, NoEntry}]

\* collect_local_settings: every text file that is not excluded, with the hash
\* of its content; one that is not UTF-8 is read lossily, and listed.
LocalSettings ==
    [p \in Paths |-> IF p \in Excluded \/ disk[p] \in Binary THEN Absent
                                                             ELSE disk[p]]
---------------------------------------------------------------------------
(* Messages of the server: SettingSyncModify, SettingSyncDelete,           *)
(* SettingSyncRename.                                                      *)

HandleSettingModify(p, c) ==
    \/ p \in Excluded /\ UNCHANGED engineVars
    \/ /\ p \notin Excluded
       /\ disk' = [disk EXCEPT ![p] = c]
       /\ echo' = [echo EXCEPT ![p] = c]

\* The deletion is one that we pushed or applied before.
Suppressed(p) == p \notin Excluded /\ echo[p] = DeletedMarker

HandleSettingDelete(p) ==
    \/ p \in Excluded /\ UNCHANGED engineVars
    \/ /\ Suppressed(p)
       /\ echo' = [echo EXCEPT ![p] = NoEntry]
       /\ UNCHANGED disk
    \/ /\ p \notin Excluded /\ ~Suppressed(p)
       /\ disk' = [disk EXCEPT ![p] = Absent]
       /\ echo' = [echo EXCEPT ![p] = DeletedMarker]

\* The old path is marked deleted whether or not it exists; the new one gets
\* the hash of what was moved there when that can be read back.
\* is_excluded is not asked.
HandleSettingRename(old, new) ==
    LET marked == [echo EXCEPT ![old] = DeletedMarker]
    IN \/ /\ disk[old] = Absent
          /\ echo' = marked
          /\ UNCHANGED disk
       \/ /\ disk[old] # Absent
          /\ disk' = [disk EXCEPT ![old] = Absent, ![new] = disk[old]]
          /\ echo' = IF disk[old] \in Contents \ NonText
                     THEN [marked EXCEPT ![new] = disk[old]] ELSE marked

\* What a handler has done to the echo cache when its write fails.
FailedModifyEcho(p) ==
    IF Suppressed(p) THEN [echo EXCEPT ![p] = NoEntry] ELSE echo
FailedRenameEcho(old) == [echo EXCEPT ![old] = DeletedMarker]
---------------------------------------------------------------------------
(* Messages to the server: SettingModify, SettingDelete.                   *)

\* push_modify reaches its send: the file is there, is text, and (unless
\* forced) its content is not the one the echo cache holds.
Pushes(p, force) == disk[p] \in Sendable /\ (force \/ echo[p] # disk[p])

PushModifyMsgs(p, force) ==
    IF Pushes(p, force)
    THEN <<[type |-> "SettingModify", path |-> p, content |-> disk[p]]>> ELSE <<>>

PushModifyEcho(p, force) ==
    IF Pushes(p, force) THEN [echo EXCEPT ![p] = disk[p]] ELSE echo

\* push_delete asks neither the disk nor the echo cache.
PushDeleteMsgs(p) ==
    <<[type |-> "SettingDelete", path |-> p, content |-> Absent]>>

\* Mutant of PushDeleteEcho: not the marker that the handlers know.
PushDeleteOtherMarker(e, p) == [e EXCEPT ![p] = Absent]

PushDeleteEcho(e, p) == [e EXCEPT ![p] = DeletedMarker]
=============================================================================
