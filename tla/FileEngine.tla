---------------------------- MODULE FileEngine ----------------------------
(***************************************************************************)
(* What the file engine (src/src/sync/file.rs) does on each message of the *)
(* server: to the files of the vault, to its echo cache and to the tables  *)
(* of uploads and downloads, with the reassembly of binary chunks          *)
(* (ChunkReassembler, src/src/protocol.rs).  FileSync.tla builds the sync  *)
(* session on it.                                                          *)
(*                                                                         *)
(* A file's content is represented by its content hash.  Each chunk of a   *)
(* content carries that content; a file put together from chunks of        *)
(* different contents is Torn.                                             *)
(***************************************************************************)
EXTENDS Naturals, Sequences, FiniteSets

CONSTANTS
    Files,              \* relative paths of the files, none of them excluded
    Contents,           \* content hashes
    Empty,              \* the content of an empty file
    Torn,               \* a content put together from several
    Absent,             \* no file at this path
    DeletedSentinel,    \* DELETED_SENTINEL, "__deleted__"
    NoEntry,            \* no entry in echo_hashes
    NoSession,          \* no sessionId in a message
    ChunkCount          \* number of chunks the server cuts a content into

ASSUME FilesAssumption ==
    /\ IsFiniteSet(Files)
    /\ Empty \in Contents
    /\ {Torn, Absent, DeletedSentinel, NoEntry} \cap Contents = {}
    /\ Absent \notin {Torn, DeletedSentinel, NoEntry}
    /\ Torn \notin {DeletedSentinel, NoEntry} /\ DeletedSentinel # NoEntry
    /\ NoSession \notin Nat
    /\ ChunkCount \in [Contents -> Nat]
    /\ \A c \in Contents : ChunkCount[c] = 0 <=> c = Empty

VARIABLES
    disk,       \* the vault: content of the file at each path
    newest,     \* which side's file has the later mtime: "here" or "there"
    echo,       \* FileSync.echo_hashes
    downloads,  \* active_downloads, with the chunks of their reassemblers
    uploads     \* active_uploads

engineVars == <<disk, newest, echo, downloads, uploads>>

Chunks == [index : Nat, data : Contents]

EngineTypeOK ==
    /\ disk \in [Files -> Contents \cup {Absent, Torn}]
    /\ newest \in [Files -> {"here", "there"}]
    /\ echo \in [Files -> Contents \cup {Torn, DeletedSentinel, NoEntry}]
    /\ downloads \subseteq [id : Nat, path : Files, count : Nat \ {0},
                            chunks : SUBSET Chunks]
    /\ uploads \subseteq [id : Nat, path : Files]

\* A file is written and its hash remembered.
Written(f, c) ==
    /\ disk' = [disk EXCEPT ![f] = c]
    /\ echo' = [echo EXCEPT ![f] = c]
---------------------------------------------------------------------------
(* Downloads.                                                              *)

\* handle_sync_update with the content in the message, whose mtime the file
\* gets; and without, when the chunks are asked for and nothing is counted.
HandleSyncUpdate(f, inline) ==
    \/ /\ inline # Absent
       /\ Written(f, inline)
       /\ newest' = [newest EXCEPT ![f] = "there"]
       /\ UNCHANGED <<downloads, uploads>>
    \/ /\ inline = Absent
       /\ echo' = [echo EXCEPT ![f] = NoEntry]
       /\ UNCHANGED <<disk, newest, downloads, uploads>>

\* Mutant of Started: the chunks of an unfinished download of the same file
\* are kept for the new one.
StartedWithLeftovers(id, f, count) ==
    { d \in downloads : d.id # id }
    \cup { [id |-> id, path |-> f, count |-> count,
            chunks |-> UNION { d.chunks : d \in { e \in downloads : e.path = f } }] }

\* active_downloads with a new session.
Started(id, f, count) ==
    { d \in downloads : d.id # id }
    \cup { [id |-> id, path |-> f, count |-> count, chunks |-> {}] }

\* handle_chunk_download_start: an empty file is written at once, and counted
\* neither now nor later.
HandleChunkDownloadStart(id, f, count) ==
    \/ /\ count = 0
       /\ Written(f, Empty)
       /\ newest' = [newest EXCEPT ![f] = "here"]
       /\ UNCHANGED <<downloads, uploads>>
    \/ /\ count # 0
       /\ downloads' = Started(id, f, count)
       /\ UNCHANGED <<disk, newest, echo, uploads>>

\* add_chunk: a chunk replaces the one with its index.
WithChunk(chunks, i, data) ==
    { c \in chunks : c.index # i } \cup { [index |-> i, data |-> data] }

\* ChunkReassembler::is_complete
IsComplete(chunks, count) == Cardinality(chunks) >= count

\* get_data on a full count: with the indices 0 to count - 1, the only ones the
\* server uses, no chunk is missing then (finalize_download refuses a download
\* that misses one).  Chunks of two contents make neither.
Assembled(chunks, count) ==
    IF \E c \in Contents : chunks = [index : 0..count - 1, data : {c}]
    THEN CHOOSE c \in Contents : chunks = [index : 0..count - 1, data : {c}]
    ELSE Torn

\* The chunk is the last one its session waits for.
Completes(d, i, data) == IsComplete(WithChunk(d.chunks, i, data), d.count)

\* handle_binary_chunk and finalize_download: the file gets the time of the
\* write.  A chunk of an unknown session is dropped.
HandleBinaryChunk(id, i, data) ==
    \/ /\ \A d \in downloads : d.id # id
       /\ UNCHANGED engineVars
    \/ \E d \in downloads :
          /\ d.id = id
          /\ \/ /\ ~Completes(d, i, data)
                /\ downloads' = (downloads \ {d})
                        \cup { [d EXCEPT !.chunks = WithChunk(@, i, data)] }
                /\ UNCHANGED <<disk, newest, echo, uploads>>
             \/ /\ Completes(d, i, data)
                /\ downloads' = downloads \ {d}
                /\ Written(d.path, Assembled(WithChunk(d.chunks, i, data), d.count))
                /\ newest' = [newest EXCEPT ![d.path] = "here"]
                /\ UNCHANGED uploads
---------------------------------------------------------------------------
(* Removals and times.                                                     *)

\* handle_sync_delete's early return.
DeleteEchoed(f) == echo[f] = DeletedSentinel

\* Mutant of HandleSyncDelete: not the marker that the handlers know.
HandleSyncDeleteOtherMarker(f) ==
    \/ /\ DeleteEchoed(f)
       /\ UNCHANGED engineVars
    \/ /\ ~DeleteEchoed(f)
       /\ disk' = [disk EXCEPT ![f] = Absent]
       /\ echo' = [echo EXCEPT ![f] = Absent]
       /\ UNCHANGED <<newest, downloads, uploads>>

\* Both ways it is counted.
HandleSyncDelete(f) ==
    \/ /\ DeleteEchoed(f)
       /\ UNCHANGED engineVars
    \/ /\ ~DeleteEchoed(f)
       /\ disk' = [disk EXCEPT ![f] = Absent]
       /\ echo' = [echo EXCEPT ![f] = DeletedSentinel]
       /\ UNCHANGED <<newest, downloads, uploads>>

HandleSyncRename(old, new) ==
    LET marked == [echo EXCEPT ![old] = DeletedSentinel]
    IN /\ \/ /\ disk[old] = Absent
             /\ echo' = marked
             /\ UNCHANGED disk
          \/ /\ disk[old] # Absent
             /\ disk' = [disk EXCEPT ![old] = Absent, ![new] = disk[old]]
             /\ echo' = [marked EXCEPT ![new] = disk[old]]
       /\ UNCHANGED <<newest, downloads, uploads>>

HandleSyncMtime(f) ==
    /\ newest' = IF disk[f] = Absent THEN newest
                                     ELSE [newest EXCEPT ![f] = "there"]
    /\ UNCHANGED <<disk, echo, downloads, uploads>>
---------------------------------------------------------------------------
(* Uploads.                                                                *)

\* handle_upload_session skips what the echo cache holds.
UploadEchoed(f) == echo[f] = disk[f]

\* It goes past its early returns, which count the upload at once.
Uploads(f) == disk[f] # Absent /\ ~UploadEchoed(f)

\* active_uploads with a new session.
Uploading(id, f) == { u \in uploads : u.id # id } \cup { [id |-> id, path |-> f] }

HandleUploadSession(id, f) ==
    /\ \/ /\ ~Uploads(f)
          /\ UNCHANGED <<uploads, echo>>
       \/ /\ Uploads(f)
          /\ uploads' = Uploading(id, f)
          /\ echo' = [echo EXCEPT ![f] = disk[f]]
    /\ UNCHANGED <<disk, newest, downloads>>

\* upload_file sends all the chunks of the file in a row: one message here.
ChunksOf(id, f, c) == [type |-> "Chunks", id |-> id, path |-> f, data |-> c]

UploadMsgs(id, f) == IF Uploads(f) THEN <<ChunksOf(id, f, disk[f])>> ELSE <<>>

\* upload_file reads the file again, after the hash: when the user writes c in
\* between, c is what it sends, and the hash of before what is remembered.
HandleChangedUpload(id, f, c) ==
    /\ Uploads(f) /\ disk[f] # c
    /\ uploads' = Uploading(id, f)
    /\ echo' = [echo EXCEPT ![f] = disk[f]]
    /\ disk' = [disk EXCEPT ![f] = c]
    /\ newest' = [newest EXCEPT ![f] = "here"]
    /\ UNCHANGED downloads

\* The sessions handle_upload_ack may take an acknowledgement for: by its
\* session id or, when it has none, any one of that path.
Acknowledged(id, f) ==
    IF id # NoSession THEN { u \in uploads : u.id = id }
                      ELSE { u \in uploads : u.path = f }

HandleUploadAck(id, f) ==
    /\ IF Acknowledged(id, f) = {} THEN UNCHANGED uploads
       ELSE \E u \in Acknowledged(id, f) : uploads' = uploads \ {u}
    /\ UNCHANGED <<disk, newest, echo, downloads>>
=============================================================================
