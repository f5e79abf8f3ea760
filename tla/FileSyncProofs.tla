-------------------------- MODULE FileSyncProofs --------------------------
(***************************************************************************)
(* Theorems of FileSync: type correctness, that no file is ever put        *)
(* together from the chunks of different contents (NeverTorn), that a sync *)
(* that is complete has nothing left to do (CompleteMeansHandled), and     *)
(* that it leaves both sides with the same files but for those that it     *)
(* skipped (SameUnlessSkipped), for every set of files and contents, every *)
(* number of chunks, every page size and every bound, with broadcasts, I/O *)
(* errors, time-outs, disconnections and restarts; and that the file sync  *)
(* keeps the contract of SyncSession while the server broadcasts nothing.  *)
(***************************************************************************)
EXTENDS FileSync, FiniteSetTheorems, TLAPS

---------------------------------------------------------------------------
(* Chunks.                                                                 *)

\* A number of chunks is positive unless the content is empty.
LEMMA ChunkCountType == \A c \in Contents : ChunkCount[c] \in Nat
  BY FilesAssumption

\* All the chunks of one content: as many as their number says.
LEMMA AllChunks ==
    ASSUME NEW c, NEW n \in Nat
    PROVE  /\ IsFiniteSet([index : 0..n - 1, data : {c}])
           /\ Cardinality([index : 0..n - 1, data : {c}]) = n
<1> DEFINE All == [index : 0..n - 1, data : {c}]
           at == [i \in 0..n - 1 |-> [index |-> i, data |-> c]]
<1>1. IsFiniteSet(0..n - 1) /\ Cardinality(0..n - 1) = n
  BY FS_Interval
<1>2. at \in Bijection(0..n - 1, All)
  <2>1. at \in [0..n - 1 -> All]
    OBVIOUS
  <2>2. \A i, j \in 0..n - 1 : at[i] = at[j] => i = j
    OBVIOUS
  <2>3. \A a \in All : \E i \in 0..n - 1 : at[i] = a
    <3> TAKE a \in All
    <3>1. a.index \in 0..n - 1 /\ at[a.index] = a
      OBVIOUS
    <3> QED
      BY <3>1
  <2> QED
    BY <2>1, <2>2, <2>3 DEF Bijection, Injection, Surjection, IsInjective
<1>3. ExistsBijection(0..n - 1, All)
  BY <1>2 DEF ExistsBijection
<1> QED
  BY <1>1, <1>3, FS_Bijection

\* A new chunk of a content joins the others of it (add_chunk).
LEMMA AddChunk ==
    ASSUME NEW c, NEW n \in Nat, NEW i \in 0..n - 1,
           NEW chunks \in SUBSET [index : 0..n - 1, data : {c}]
    PROVE  WithChunk(chunks, i, c) \subseteq [index : 0..n - 1, data : {c}]
  BY DEF WithChunk

\* As many chunks of a content as it has are put together to that content
\* (is_complete, get_data).
LEMMA AssembledWhole ==
    ASSUME NEW c \in Contents, NEW n \in Nat,
           NEW chunks \in SUBSET [index : 0..n - 1, data : {c}],
           IsComplete(chunks, n)
    PROVE  Assembled(chunks, n) \in Contents
<1> DEFINE All(x) == [index : 0..n - 1, data : {x}]
<1>1. chunks = All(c)
  <2>1. IsFiniteSet(All(c)) /\ Cardinality(All(c)) = n
    BY AllChunks
  <2> chunks \in SUBSET All(c)
    OBVIOUS
  <2> HIDE DEF All
  <2>2. /\ Cardinality(chunks) <= n /\ (Cardinality(chunks) = n => chunks = All(c))
        /\ IsFiniteSet(chunks)
    BY <2>1, FS_Subset
  <2>3. Cardinality(chunks) \in Nat
    BY <2>2, FS_CardinalityType
  <2>4. Cardinality(chunks) = n
    BY <2>2, <2>3 DEF IsComplete
  <2> QED
    BY <2>2, <2>4
<1>2. \E x \in Contents : chunks = All(x)
  BY <1>1
<1> QED
  BY <1>2 DEF Assembled
---------------------------------------------------------------------------
(* Messages and sessions.                                                  *)

\* The next message is a message of the server, with the fields of its type.
LEMMA HeadType ==
    ASSUME TypeOK, toClient # <<>>
    PROVE  LET m == Head(toClient)
           IN /\ m \in ServerMsgs
              /\ Tail(toClient) \in Seq(ServerMsgs)
              /\ m.type \in PageTypes \cup {"FileUploadAck", "FileSyncChunkDownload"} =>
                    m.path \in Files
              /\ m.type = "FileSyncUpdate" => m.content \in Contents \cup {Absent}
              /\ m.type = "FileSyncRename" => m.old \in Files
              /\ m.type \in {"FileUpload", "FileSyncChunkDownload", "Chunk"} => m.id \in Nat
              /\ m.type = "FileSyncChunkDownload" => m.count \in Nat
              /\ m.type = "Chunk" => m.index \in Nat /\ m.data \in Contents
              /\ m.type = "FileSyncPage" =>
                    m.index \in Nat /\ m.total \in Nat /\ m.last \in BOOLEAN
              /\ m.type = "FileSyncEnd" => m.count \in Nat
<1>1. Head(toClient) \in ServerMsgs /\ Tail(toClient) \in Seq(ServerMsgs)
  BY DEF TypeOK
<1> QED
  BY <1>1 DEF ServerMsgs, PageTypes

\* The next message is of the content of its session, and so are the others.
LEMMA HeadSource ==
    ASSUME toClient # <<>>, NEW source, OneSource(source)
    PROVE  Head(toClient) \in MsgsOf(source) /\ Tail(toClient) \in Seq(MsgsOf(source))
  BY DEF OneSource

\* A session id not used yet can stand for any content.
LEMMA NewSource ==
    ASSUME TypeOK, NEW source \in [0..nextId - 1 -> Contents], OneSource(source),
           NEW c \in Contents
    PROVE  \E wider \in [0..nextId -> Contents] :
              /\ wider[nextId] = c /\ OneSource(wider)
<1>1. nextId \in Nat
  BY DEF TypeOK, ServerTypeOK
<1> DEFINE wider == [k \in 0..nextId |-> IF k = nextId THEN c ELSE source[k]]
<1>2. wider \in [0..nextId -> Contents] /\ wider[nextId] = c
  BY <1>1
<1>3. \A k \in DOMAIN source : k \in DOMAIN wider /\ wider[k] = source[k]
  BY <1>1
<1> HIDE DEF wider
<1>4. MsgsOf(source) \subseteq MsgsOf(wider)
  BY <1>3 DEF MsgsOf
<1>5. toClient \in Seq(MsgsOf(wider))
  BY <1>4 DEF OneSource
<1>6. SendingFrom(wider) /\ DownloadsFrom(wider)
  BY <1>3 DEF OneSource, SendingFrom, DownloadsFrom
<1> QED
  BY <1>2, <1>5, <1>6 DEF OneSource

\* A sync's message of any type can be sent: only the last two are about the
\* content of a session.
LEMMA PlainMsg ==
    ASSUME NEW source, NEW m \in ServerMsgs,
           m.type \notin {"Chunk", "FileSyncChunkDownload"}
    PROVE  m \in MsgsOf(source)
  BY DEF MsgsOf
---------------------------------------------------------------------------
(* What the handlers of the engine do.                                     *)

\* The types of messages that Apply knows.
Handled == PageTypes \cup {"FileUploadAck", "FileSyncChunkDownload", "Chunk"}

\* A chunk joins its download or completes it.
LEMMA ChunkInv ==
    ASSUME TypeOK, NeverTorn, NEW source \in [0..nextId - 1 -> Contents],
           DownloadsFrom(source),
           NEW m \in MsgsOf(source), m.type = "Chunk",
           m.id \in Nat, m.index \in Nat, m.data \in Contents,
           HandleBinaryChunk(m.id, m.index, m.data)
    PROVE  EngineTypeOK' /\ NeverTorn' /\ DownloadsFrom(source)'
<1> DEFINE After(d) == WithChunk(d.chunks, m.index, m.data)
           Whole(d) == Assembled(After(d), d.count)
           More(d) == [d EXCEPT !.chunks = After(d)]
<1>1. EngineTypeOK /\ Torn \notin Contents
  BY FilesAssumption DEF TypeOK
<1>2. m.data = source[m.id] /\ m.index < ChunkCount[m.data]
  BY DEF MsgsOf
<1>3. ASSUME NEW d \in downloads, d.id = m.id
      PROVE  /\ d.path \in Files /\ d.count \in Nat
             /\ After(d) \subseteq [index : 0..d.count - 1, data : {m.data}]
             /\ IsComplete(After(d), d.count) => Whole(d) \in Contents
  <2>1. /\ d \in [id : Nat, path : Files, count : Nat \ {0}, chunks : SUBSET Chunks]
        /\ d.count = ChunkCount[m.data]
        /\ d.chunks \subseteq [index : 0..d.count - 1, data : {m.data}]
    BY <1>1, <1>2, <1>3 DEF EngineTypeOK, DownloadsFrom
  <2>2. d.path \in Files /\ d.count \in Nat /\ m.index \in 0..d.count - 1
    BY <1>2, <2>1
  <2>3. After(d) \subseteq [index : 0..d.count - 1, data : {m.data}]
    BY <2>1, <2>2, AddChunk
  <2>4. IsComplete(After(d), d.count) => Whole(d) \in Contents
    BY <2>2, <2>3, AssembledWhole
  <2> QED
    BY <2>2, <2>3, <2>4
<1>4. CASE UNCHANGED engineVars
  BY <1>1, <1>4 DEF engineVars, EngineTypeOK, NeverTorn, DownloadsFrom
<1>5. ASSUME NEW d \in downloads, d.id = m.id, ~Completes(d, m.index, m.data),
             downloads' = (downloads \ {d}) \cup { [d EXCEPT !.chunks = WithChunk(@, m.index, m.data)] },
             UNCHANGED <<disk, newest, echo, uploads>>
      PROVE  EngineTypeOK' /\ NeverTorn' /\ DownloadsFrom(source)'
  <2>1. d \in [id : Nat, path : Files, count : Nat \ {0}, chunks : SUBSET Chunks]
    BY <1>1 DEF EngineTypeOK
  <2>2. /\ More(d).id = d.id /\ More(d).path = d.path /\ More(d).count = d.count
        /\ More(d).chunks = After(d)
        /\ downloads' = (downloads \ {d}) \cup {More(d)}
    BY <1>5, <2>1
  <2>3. After(d) \subseteq [index : 0..d.count - 1, data : {m.data}]
    BY <1>3, <1>5
  <2>4. After(d) \in SUBSET Chunks
    BY <1>3, <1>5, <2>3 DEF Chunks
  <2>5. More(d) \in [id : Nat, path : Files, count : Nat \ {0}, chunks : SUBSET Chunks]
    BY <2>1, <2>4
  <2>6. EngineTypeOK'
    BY <1>1, <1>5, <2>2, <2>5 DEF EngineTypeOK
  <2>7. DownloadsFrom(source)'
    <3> HIDE DEF More, After
    <3>1. d.id \in DOMAIN source /\ d.count = ChunkCount[source[d.id]]
      BY DEF DownloadsFrom
    <3> QED
      BY <1>2, <1>5, <2>2, <2>3, <3>1 DEF DownloadsFrom
  <2> QED
    BY <1>5, <2>6, <2>7 DEF NeverTorn
<1>6. ASSUME NEW d \in downloads, d.id = m.id, Completes(d, m.index, m.data),
             downloads' = downloads \ {d}, Written(d.path, Whole(d)),
             newest' = [newest EXCEPT ![d.path] = "here"], UNCHANGED uploads
      PROVE  EngineTypeOK' /\ NeverTorn' /\ DownloadsFrom(source)'
  <2>1. d.path \in Files /\ Whole(d) \in Contents
    BY <1>3, <1>6 DEF Completes
  <2> HIDE DEF Whole
  <2>2. EngineTypeOK'
    BY <1>1, <1>6, <2>1 DEF EngineTypeOK, Written
  <2>3. NeverTorn'
    BY <1>1, <1>6, <2>1 DEF EngineTypeOK, Written, NeverTorn
  <2>4. DownloadsFrom(source)'
    BY <1>6 DEF DownloadsFrom
  <2> QED
    BY <2>2, <2>3, <2>4
<1> QED
  BY <1>4, <1>5, <1>6 DEF HandleBinaryChunk

\* A rename moves one file.
LEMMA RenameType ==
    ASSUME EngineTypeOK, NeverTorn, Torn # Absent, NEW old \in Files, NEW new \in Files,
           HandleSyncRename(old, new)
    PROVE  EngineTypeOK' /\ NeverTorn' /\ downloads' = downloads
<1> DEFINE marked == [echo EXCEPT ![old] = DeletedSentinel]
           Entries == Contents \cup {Torn, DeletedSentinel, NoEntry}
<1>1. /\ disk \in [Files -> Contents \cup {Absent, Torn}] /\ echo \in [Files -> Entries]
      /\ newest' = newest /\ downloads' = downloads /\ uploads' = uploads
  BY DEF HandleSyncRename, EngineTypeOK
<1>2. marked \in [Files -> Entries]
  BY <1>1
<1>3. \/ disk[old] = Absent /\ echo' = marked /\ disk' = disk
      \/ /\ disk[old] # Absent
         /\ disk' = [disk EXCEPT ![old] = Absent, ![new] = disk[old]]
         /\ echo' = [marked EXCEPT ![new] = disk[old]]
  BY DEF HandleSyncRename
<1> HIDE DEF marked
<1>4. disk[old] # Absent => disk[old] \in Entries
  BY <1>1
<1>5. echo' \in [Files -> Entries]
  BY <1>2, <1>3, <1>4
<1>6. disk' \in [Files -> Contents \cup {Absent, Torn}]
  BY <1>1, <1>3
<1>7. NeverTorn'
  BY <1>1, <1>3, <1>6 DEF NeverTorn
<1> QED
  BY <1>1, <1>5, <1>6, <1>7 DEF EngineTypeOK

\* Applying a message of the server tears no file, and leaves each download of
\* one content.
LEMMA ApplyInv ==
    ASSUME TypeOK, NeverTorn, toClient # <<>>,
           NEW source \in [0..nextId - 1 -> Contents], OneSource(source),
           Head(toClient).type \in Handled, Apply(Head(toClient))
    PROVE  EngineTypeOK' /\ NeverTorn' /\ DownloadsFrom(source)'
<1> DEFINE m == Head(toClient)
<1>1. m \in ServerMsgs /\ m \in MsgsOf(source) /\ DownloadsFrom(source)
  BY HeadType, HeadSource DEF OneSource
<1>2. EngineTypeOK /\ Torn \notin Contents /\ Torn # Absent /\ Empty \in Contents
  BY FilesAssumption DEF TypeOK
<1> HIDE DEF m
<1>3. CASE m.type = "FileSyncUpdate"
  <2>1. HandleSyncUpdate(m.path, m.content)
    BY <1>3 DEF Apply, m
  <2>2. m.path \in Files /\ m.content \in Contents \cup {Absent}
    BY <1>3, HeadType DEF m, PageTypes
  <2>3. EngineTypeOK'
    BY <1>2, <2>1, <2>2 DEF HandleSyncUpdate, Written, EngineTypeOK
  <2>4. NeverTorn' /\ downloads' = downloads
    BY <1>2, <2>1, <2>2 DEF HandleSyncUpdate, Written, EngineTypeOK, NeverTorn
  <2> QED
    BY <1>1, <2>3, <2>4 DEF DownloadsFrom
<1>4. CASE m.type = "FileSyncDelete"
  <2>1. HandleSyncDelete(m.path)
    BY <1>4 DEF Apply, m
  <2>2. m.path \in Files
    BY <1>4, HeadType DEF m, PageTypes
  <2>3. EngineTypeOK'
    BY <1>2, <2>1, <2>2 DEF HandleSyncDelete, engineVars, EngineTypeOK
  <2>4. NeverTorn' /\ downloads' = downloads
    BY <1>2, <2>1, <2>2 DEF HandleSyncDelete, engineVars, EngineTypeOK, NeverTorn
  <2> QED
    BY <1>1, <2>3, <2>4 DEF DownloadsFrom
<1>5. CASE m.type = "FileSyncRename"
  <2>1. HandleSyncRename(m.old, m.path)
    BY <1>5 DEF Apply, m
  <2>2. m.path \in Files /\ m.old \in Files
    BY <1>5, HeadType DEF m, PageTypes
  <2>3. EngineTypeOK' /\ NeverTorn' /\ downloads' = downloads
    BY <1>2, <2>1, <2>2, RenameType
  <2> QED
    BY <1>1, <2>3 DEF DownloadsFrom
<1>6. CASE m.type = "FileSyncMtime"
  <2>1. HandleSyncMtime(m.path)
    BY <1>6 DEF Apply, m
  <2>2. m.path \in Files
    BY <1>6, HeadType DEF m, PageTypes
  <2> QED
    BY <1>1, <1>2, <2>1, <2>2 DEF HandleSyncMtime, EngineTypeOK, NeverTorn, DownloadsFrom
<1>7. CASE m.type = "FileUpload"
  <2>1. HandleUploadSession(m.id, m.path)
    BY <1>7 DEF Apply, m
  <2>2. m.path \in Files /\ m.id \in Nat
    BY <1>7, HeadType DEF m, PageTypes
  <2>3. EngineTypeOK'
    BY <1>2, <2>1, <2>2 DEF HandleUploadSession, Uploading, Uploads, EngineTypeOK
  <2> QED
    BY <1>1, <2>1, <2>3 DEF HandleUploadSession, NeverTorn, DownloadsFrom
<1>8. CASE m.type = "FileUploadAck"
  <2>1. HandleUploadAck(m.id, m.path)
    BY <1>8 DEF Apply, m
  <2>2. EngineTypeOK'
    BY <1>2, <2>1 DEF HandleUploadAck, EngineTypeOK
  <2> QED
    BY <1>1, <2>1, <2>2 DEF HandleUploadAck, NeverTorn, DownloadsFrom
<1>9. CASE m.type = "FileSyncChunkDownload"
  <2>1. HandleChunkDownloadStart(m.id, m.path, m.count)
    BY <1>9 DEF Apply, m
  <2>2. /\ m.path \in Files /\ m.id \in Nat /\ m.count \in Nat
        /\ m.id \in DOMAIN source /\ m.count = ChunkCount[source[m.id]]
    BY <1>1, <1>9, HeadType DEF m, MsgsOf
  <2>3. CASE m.count = 0
    <3>1. /\ Written(m.path, Empty) /\ downloads' = downloads /\ uploads' = uploads
          /\ newest' = [newest EXCEPT ![m.path] = "here"]
      BY <2>1, <2>3 DEF HandleChunkDownloadStart
    <3>2. EngineTypeOK'
      BY <1>2, <2>2, <3>1 DEF Written, EngineTypeOK
    <3>3. NeverTorn'
      BY <1>2, <2>2, <3>1 DEF Written, EngineTypeOK, NeverTorn
    <3> QED
      BY <1>1, <3>1, <3>2, <3>3 DEF DownloadsFrom
  <2>4. CASE m.count # 0
    <3> DEFINE new == [id |-> m.id, path |-> m.path, count |-> m.count, chunks |-> {}]
    <3>1. /\ downloads' \subseteq downloads \cup {new}
          /\ UNCHANGED <<disk, newest, echo, uploads>>
      BY <2>1, <2>4 DEF HandleChunkDownloadStart, Started
    <3>2. new \in [id : Nat, path : Files, count : Nat \ {0}, chunks : SUBSET Chunks]
      BY <2>2, <2>4
    <3>3. EngineTypeOK'
      BY <1>2, <3>1, <3>2 DEF EngineTypeOK
    <3>4. DownloadsFrom(source)'
      BY <1>1, <2>2, <3>1 DEF DownloadsFrom
    <3> QED
      BY <3>1, <3>3, <3>4 DEF NeverTorn
  <2> QED
    BY <2>3, <2>4
<1>10. CASE m.type = "Chunk"
  <2>1. HandleBinaryChunk(m.id, m.index, m.data)
    BY <1>10 DEF Apply, m
  <2>2. m.id \in Nat /\ m.index \in Nat /\ m.data \in Contents
    BY <1>10, HeadType DEF m
  <2> QED
    BY <1>1, <1>10, <2>1, <2>2, ChunkInv
<1> QED
  BY <1>3, <1>4, <1>5, <1>6, <1>7, <1>8, <1>9, <1>10 DEF m, Handled, PageTypes
---------------------------------------------------------------------------
(* The steps of the client.                                                *)

\* What a handler sends are messages of the client.
LEMMA RepliesType ==
    ASSUME TypeOK, NeverTorn, toClient # <<>>, Head(toClient).type \in Handled
    PROVE  Replies(Head(toClient)) \in Seq(ClientMsgs)
<1> DEFINE m == Head(toClient)
<1>1. m.type \in {"FileSyncUpdate", "FileUpload"} => m.path \in Files
  BY HeadType DEF PageTypes
<1>2. m.type = "FileUpload" => m.id \in Nat
  BY HeadType
<1>3. <<>> \in Seq(ClientMsgs)
  OBVIOUS
<1> HIDE DEF m
<1>4. CASE m.type = "FileSyncUpdate" /\ m.content = Absent
  <2>1. ChunkRequest(m.path) \in ClientMsgs
    BY <1>1, <1>4 DEF ChunkRequest, ClientMsgs
  <2> QED
    BY <1>4, <2>1 DEF Replies, m
<1>5. CASE m.type = "FileUpload" /\ Uploads(m.path)
  <2>1. disk[m.path] \in Contents
    BY <1>1, <1>5 DEF Uploads, TypeOK, EngineTypeOK, NeverTorn
  <2>2. [type |-> "Chunks", id |-> m.id, path |-> m.path, data |-> disk[m.path]]
            \in ClientMsgs
    BY <1>1, <1>2, <1>5, <2>1 DEF ClientMsgs
  <2> DEFINE sent == [type |-> "Chunks", id |-> m.id, path |-> m.path,
                      data |-> disk[m.path]]
  <2>3. Replies(m) = <<sent>>
    BY <1>5 DEF Replies, UploadMsgs, ChunksOf
  <2> HIDE DEF sent
  <2>4. <<sent>> \in Seq(ClientMsgs)
    BY <2>2 DEF sent
  <2> QED
    BY <2>3, <2>4 DEF m
<1>6. CASE m.type = "FileUpload" /\ ~Uploads(m.path)
  BY <1>3, <1>6 DEF Replies, UploadMsgs, ChunksOf, m
<1>7. CASE ~(m.type = "FileSyncUpdate" /\ m.content = Absent) /\ m.type # "FileUpload"
  BY <1>3, <1>7 DEF Replies, m
<1> QED
  BY <1>4, <1>5, <1>6, <1>7

\* finish_page_if_needed keeps the page and the channel in their types.
LEMMA FinishType ==
    ASSUME TypeOK, NEW pg \in Pages, NEW out \in Seq(ClientMsgs), FinishPage(pg, out)
    PROVE  page' \in Pages /\ pageLastSeen' \in BOOLEAN /\ toServer' \in Seq(ClientMsgs)
<1>1. PageAck(pg.index) \in ClientMsgs
  BY DEF PageAck, ClientMsgs, Pages
<1>2. page' \in Pages
  BY DEF FinishPage, Pages
<1>3. pageLastSeen' \in BOOLEAN
  BY DEF FinishPage
<1>4. toServer' \in Seq(ClientMsgs)
  <2> DEFINE ack == IF PageFinished(pg) /\ ~pg.last THEN <<PageAck(pg.index)>> ELSE <<>>
  <2>1. ack \in Seq(ClientMsgs)
    BY <1>1
  <2>2. toServer' = toServer \o out \o ack
    BY DEF FinishPage
  <2>3. toServer \in Seq(ClientMsgs)
    BY DEF TypeOK
  <2> HIDE DEF ack
  <2> QED
    BY <2>1, <2>2, <2>3
<1> QED
  BY <1>2, <1>3, <1>4

\* A message handled by the sync's loop: what remains to be shown is what its
\* handler does.
LEMMA ReceiveInv ==
    ASSUME TransferInv, NEW types, Receive(types), ReturnIfComplete,
           ASSUME NEW source \in [0..nextId - 1 -> Contents], OneSource(source)
           PROVE  EngineTypeOK' /\ NeverTorn' /\ DownloadsFrom(source)',
           expected' \in Nat, received' \in Nat, gotEnd' \in BOOLEAN,
           pagingStarted' \in BOOLEAN, pageLastSeen' \in BOOLEAN, page' \in Pages,
           toServer' \in Seq(ClientMsgs), skipped' \subseteq Files
    PROVE  TransferInv'
<1>1. /\ phase = "files" /\ toClient # <<>> /\ toClient' = Tail(toClient)
      /\ UNCHANGED <<srv, owed, onPage, pageNo, sending, nextId>>
      /\ UNCHANGED <<sessions, changes, broadcasts, disturbed>>
  BY DEF Receive, Take, serverVars, countVars
<1>2. TypeOK
  BY DEF TransferInv
<1>3. PICK source \in [0..nextId - 1 -> Contents] : OneSource(source)
  BY <1>1 DEF TransferInv, Sourced
<1>4. EngineTypeOK' /\ NeverTorn' /\ DownloadsFrom(source)'
  BY <1>3
<1>5. phase' \in {"files", "settings"} /\ done' \in BOOLEAN
  BY <1>2 DEF ReturnIfComplete, TypeOK, CountTypeOK
<1>6. SessionTypeOK'
  BY <1>5 DEF SessionTypeOK
<1>7. ServerTypeOK'
  BY <1>1, <1>2 DEF TypeOK, ServerTypeOK
<1>8. CountTypeOK'
  BY <1>1, <1>2, <1>5 DEF TypeOK, CountTypeOK
<1>9. toClient' \in Seq(ServerMsgs)
  BY <1>1, <1>2, HeadType
<1>10. OneSource(source)'
  <2>1. toClient' \in Seq(MsgsOf(source))
    BY <1>1, <1>3, HeadSource
  <2>2. SendingFrom(source)'
    BY <1>1, <1>3 DEF OneSource, SendingFrom
  <2>3. MsgsOf(source)' = MsgsOf(source)
    BY DEF MsgsOf, ServerMsgs, PageTypes
  <2> QED
    BY <1>4, <2>1, <2>2, <2>3 DEF OneSource
<1>11. Sourced' /\ NothingUnconnected'
  BY <1>1, <1>5, <1>10 DEF Sourced, NothingUnconnected
<1> QED
  BY <1>4, <1>6, <1>7, <1>8, <1>9, <1>11 DEF TransferInv, TypeOK

\* The loop of the sync.
LEMMA ClientInv == TransferInv /\ ClientReceives => TransferInv'
<1> SUFFICES ASSUME TransferInv, ClientReceives PROVE TransferInv'
  OBVIOUS
<1> DEFINE m == Head(toClient)
<1>1. TypeOK /\ NeverTorn
  BY DEF TransferInv
<1>2. /\ expected \in Nat /\ received \in Nat /\ gotEnd \in BOOLEAN
      /\ pagingStarted \in BOOLEAN /\ pageLastSeen \in BOOLEAN /\ page \in Pages
      /\ toServer \in Seq(ClientMsgs) /\ skipped \subseteq Files
  BY <1>1 DEF TypeOK, SessionTypeOK, CountTypeOK
<1>3. CASE ReceiveDetail
  <2>1. Receive(PageTypes) /\ toClient # <<>> /\ m.type \in PageTypes
    BY <1>3 DEF ReceiveDetail, Receive, Take
  <2>2. Apply(m) /\ Count(m) /\ Note(m)
    BY <1>3 DEF ReceiveDetail
  <2>3. m.type \in Handled /\ m.path \in Files
    BY <1>1, <2>1, HeadType DEF Handled
  <2>4. ASSUME NEW source \in [0..nextId - 1 -> Contents], OneSource(source)
        PROVE  EngineTypeOK' /\ NeverTorn' /\ DownloadsFrom(source)'
    BY <1>1, <2>1, <2>2, <2>3, <2>4, ApplyInv
  <2>5. Replies(m) \in Seq(ClientMsgs)
    BY <1>1, <2>1, <2>3, RepliesType
  <2> DEFINE pg == [page EXCEPT !.received = IF page.active THEN @ + 1 ELSE @]
  <2>6. pg \in Pages
    BY <1>2 DEF Pages
  <2>7. FinishPage(pg, Replies(m))
    BY <1>3 DEF ReceiveDetail
  <2> HIDE DEF pg
  <2>8. page' \in Pages /\ pageLastSeen' \in BOOLEAN /\ toServer' \in Seq(ClientMsgs)
    BY <1>1, <2>5, <2>6, <2>7, FinishType
  <2>9. received' \in Nat /\ skipped' \subseteq Files
    BY <1>2, <2>2, <2>3 DEF Count, Note
  <2>10. /\ expected' = expected /\ gotEnd' = gotEnd /\ pagingStarted' = pagingStarted
         /\ ReturnIfComplete
    BY <1>3 DEF ReceiveDetail
  <2> QED
    BY <1>2, <2>1, <2>4, <2>8, <2>9, <2>10, ReceiveInv
<1>4. CASE ReceivePage
  <2>1. Receive({"FileSyncPage"}) /\ toClient # <<>> /\ m.type = "FileSyncPage"
    BY <1>4 DEF ReceivePage, Receive, Take
  <2>2. ASSUME NEW source \in [0..nextId - 1 -> Contents], OneSource(source)
        PROVE  EngineTypeOK' /\ NeverTorn' /\ DownloadsFrom(source)'
    <3>1. UNCHANGED engineVars
      BY <1>4 DEF ReceivePage
    <3> QED
      BY <1>1, <2>2, <3>1
      DEF engineVars, TypeOK, EngineTypeOK, NeverTorn, OneSource, DownloadsFrom
  <2> DEFINE pg == [active |-> TRUE, index |-> m.index, total |-> m.total,
                    received |-> 0, last |-> m.last]
  <2>3. m.index \in Nat /\ m.total \in Nat /\ m.last \in BOOLEAN
    BY <1>1, <2>1, HeadType
  <2>4. pg \in Pages
    BY <2>3 DEF Pages
  <2>5. FinishPage(pg, <<>>) /\ <<>> \in Seq(ClientMsgs)
    BY <1>4 DEF ReceivePage
  <2> HIDE DEF pg
  <2>6. page' \in Pages /\ pageLastSeen' \in BOOLEAN /\ toServer' \in Seq(ClientMsgs)
    BY <1>1, <2>4, <2>5, FinishType
  <2>7. /\ expected' = expected /\ received' = received /\ gotEnd' = gotEnd
        /\ pagingStarted' = pagingStarted /\ skipped' = skipped
        /\ ReturnIfComplete
    BY <1>4 DEF ReceivePage
  <2> QED
    BY <1>2, <2>1, <2>2, <2>6, <2>7, ReceiveInv
<1>5. CASE ReceiveTransfer
  <2> DEFINE Types == {"FileSyncChunkDownload", "FileUploadAck", "Chunk"}
  <2>1. Receive(Types) /\ toClient # <<>> /\ m.type \in Types
    BY <1>5 DEF ReceiveTransfer, Receive, Take
  <2>2. Apply(m) /\ Count(m) /\ m.type \in Handled
    BY <1>5, <2>1 DEF ReceiveTransfer, Handled
  <2>3. ASSUME NEW source \in [0..nextId - 1 -> Contents], OneSource(source)
        PROVE  EngineTypeOK' /\ NeverTorn' /\ DownloadsFrom(source)'
    BY <1>1, <2>1, <2>2, <2>3, ApplyInv
  <2>4. received' \in Nat
    BY <1>2, <2>2 DEF Count
  <2>5. /\ expected' = expected /\ gotEnd' = gotEnd /\ page' = page
        /\ pagingStarted' = pagingStarted /\ pageLastSeen' = pageLastSeen
        /\ toServer' = toServer /\ skipped' = skipped /\ ReturnIfComplete
    BY <1>5 DEF ReceiveTransfer
  <2> HIDE DEF Types
  <2> QED
    BY <1>2, <2>1, <2>3, <2>4, <2>5, ReceiveInv
<1>6. CASE ReceiveEnd
  <2>1. Receive({"FileSyncEnd"}) /\ toClient # <<>> /\ m.type = "FileSyncEnd"
    BY <1>6 DEF ReceiveEnd, Receive, Take
  <2>2. ASSUME NEW source \in [0..nextId - 1 -> Contents], OneSource(source)
        PROVE  EngineTypeOK' /\ NeverTorn' /\ DownloadsFrom(source)'
    <3>1. UNCHANGED engineVars
      BY <1>6 DEF ReceiveEnd
    <3> QED
      BY <1>1, <2>2, <3>1
      DEF engineVars, TypeOK, EngineTypeOK, NeverTorn, OneSource, DownloadsFrom
  <2>3. m.count \in Nat
    BY <1>1, <2>1, HeadType
  <2>4. expected' \in Nat /\ gotEnd' \in BOOLEAN
    BY <1>6, <2>3 DEF ReceiveEnd
  <2>5. /\ received' = received /\ page' = page /\ pageLastSeen' = pageLastSeen
        /\ skipped' = skipped /\ ReturnIfComplete
    BY <1>6 DEF ReceiveEnd
  <2>6. PageAck(-1) \in ClientMsgs
    BY DEF PageAck, ClientMsgs
  <2>7. pagingStarted' \in BOOLEAN /\ toServer' \in Seq(ClientMsgs)
    BY <1>2, <1>6, <2>6 DEF ReceiveEnd
  <2> QED
    BY <1>2, <2>1, <2>2, <2>4, <2>5, <2>7, ReceiveInv
<1> QED
  BY <1>3, <1>4, <1>5, <1>6 DEF ClientReceives

\* The loops of the setting sync and of the live phase.
LEMMA ElsewhereInv == TransferInv /\ ReceiveElsewhere => TransferInv'
<1> SUFFICES ASSUME TransferInv, ReceiveElsewhere PROVE TransferInv'
  OBVIOUS
<1> DEFINE m == Head(toClient)
<1>1. TypeOK /\ NeverTorn
  BY DEF TransferInv
<1>2. /\ phase \in {"settings", "live"} /\ toClient # <<>>
      /\ toClient' = Tail(toClient)
      /\ UNCHANGED <<phase, sessionVars, serverVars, countVars, ghostVars>>
  BY DEF ReceiveElsewhere
<1>3. PICK source \in [0..nextId - 1 -> Contents] : OneSource(source)
  BY <1>2 DEF TransferInv, Sourced
<1>4. EngineTypeOK' /\ NeverTorn' /\ DownloadsFrom(source)' /\ toServer' \in Seq(ClientMsgs)
  <2>1. CASE m.type \in HandledIn(phase) /\ Apply(m) /\ toServer' = toServer \o Replies(m)
    <3>1. m.type \in Handled
      BY <2>1 DEF HandledIn, Handled, PageTypes
    <3>2. Replies(m) \in Seq(ClientMsgs) /\ toServer \in Seq(ClientMsgs)
      BY <1>1, <1>2, <3>1, RepliesType DEF TypeOK
    <3>3. toServer' \in Seq(ClientMsgs)
      BY <2>1, <3>2
    <3> QED
      BY <1>1, <1>2, <1>3, <2>1, <3>1, <3>3, ApplyInv
  <2>2. CASE UNCHANGED <<engineVars, toServer>>
    BY <1>1, <1>3, <2>2
    DEF engineVars, TypeOK, EngineTypeOK, NeverTorn, OneSource, DownloadsFrom
  <2> QED
    BY <2>1, <2>2 DEF ReceiveElsewhere
<1>5. SessionTypeOK' /\ ServerTypeOK' /\ CountTypeOK'
  <2>1. SessionTypeOK'
    BY <1>1, <1>2 DEF TypeOK, SessionTypeOK, sessionVars
  <2>2. ServerTypeOK'
    BY <1>1, <1>2 DEF TypeOK, ServerTypeOK, serverVars
  <2>3. CountTypeOK'
    BY <1>1, <1>2 DEF TypeOK, CountTypeOK, countVars, ghostVars
  <2> QED
    BY <2>1, <2>2, <2>3
<1>6. toClient' \in Seq(ServerMsgs)
  BY <1>1, <1>2, HeadType
<1>7. toClient' \in Seq(MsgsOf(source)) /\ SendingFrom(source)'
  BY <1>2, <1>3, HeadSource DEF OneSource, SendingFrom, serverVars
<1>8. MsgsOf(source)' = MsgsOf(source)
  BY DEF MsgsOf, ServerMsgs, PageTypes
<1>9. Sourced' /\ NothingUnconnected'
  BY <1>2, <1>4, <1>7, <1>8 DEF Sourced, NothingUnconnected, OneSource, serverVars
<1> QED
  BY <1>4, <1>5, <1>6, <1>9 DEF TransferInv, TypeOK

\* A handler that fails takes at most its download off active_downloads.
LEMMA FailInv == TransferInv /\ HandlerFails => TransferInv'
<1> SUFFICES ASSUME TransferInv, HandlerFails PROVE TransferInv'
  OBVIOUS
<1> DEFINE m == Head(toClient)
<1>1. TypeOK /\ NeverTorn
  BY DEF TransferInv
<1>2. /\ phase # "idle" /\ toClient # <<>> /\ toClient' = Tail(toClient)
      /\ UNCHANGED <<disk, newest, uploads, sessionVars, toServer, serverVars,
                     countVars, ghostVars>>
      /\ downloads' \subseteq downloads
      /\ phase' \in {"settings", "live"}
  BY DEF HandlerFails
<1>3. PICK source \in [0..nextId - 1 -> Contents] : OneSource(source)
  BY <1>2 DEF TransferInv, Sourced
<1>4. echo' \in [Files -> Contents \cup {Torn, DeletedSentinel, NoEntry}]
  <2>1. echo \in [Files -> Contents \cup {Torn, DeletedSentinel, NoEntry}]
    BY <1>1 DEF TypeOK, EngineTypeOK
  <2>2. \/ echo' = echo
        \/ m.type = "FileSyncUpdate" /\ echo' = [echo EXCEPT ![m.path] = NoEntry]
        \/ m.type = "FileSyncRename" /\ echo' = [echo EXCEPT ![m.old] = DeletedSentinel]
    BY DEF HandlerFails
  <2> QED
    BY <2>1, <2>2
<1>5. EngineTypeOK'
  BY <1>1, <1>2, <1>4 DEF TypeOK, EngineTypeOK
<1>6. SessionTypeOK' /\ ServerTypeOK' /\ CountTypeOK'
  <2>1. SessionTypeOK'
    BY <1>1, <1>2 DEF TypeOK, SessionTypeOK, sessionVars
  <2>2. ServerTypeOK'
    BY <1>1, <1>2 DEF TypeOK, ServerTypeOK, serverVars
  <2>3. CountTypeOK'
    BY <1>1, <1>2 DEF TypeOK, CountTypeOK, countVars, ghostVars
  <2> QED
    BY <2>1, <2>2, <2>3
<1>7. toClient' \in Seq(ServerMsgs) /\ toServer' \in Seq(ClientMsgs)
  BY <1>1, <1>2, HeadType DEF TypeOK
<1>8. toClient' \in Seq(MsgsOf(source)) /\ SendingFrom(source)' /\ DownloadsFrom(source)'
  BY <1>2, <1>3, HeadSource DEF OneSource, SendingFrom, DownloadsFrom, serverVars
<1>9. MsgsOf(source)' = MsgsOf(source)
  BY DEF MsgsOf, ServerMsgs, PageTypes
<1>10. Sourced' /\ NothingUnconnected'
  BY <1>2, <1>8, <1>9 DEF Sourced, NothingUnconnected, OneSource, serverVars
<1> QED
  BY <1>1, <1>2, <1>5, <1>6, <1>7, <1>10 DEF TransferInv, TypeOK, NeverTorn

\* A file that changes between the two reads of its upload is not a torn one,
\* and no download is touched.
LEMMA ChangedInv == TransferInv /\ (ChangedUpload \/ UploadVanishes) => TransferInv'
<1> SUFFICES ASSUME TransferInv, ChangedUpload \/ UploadVanishes PROVE TransferInv'
  OBVIOUS
<1>1. PICK m : m = Head(toClient)
  OBVIOUS
<1>2. /\ TypeOK /\ NeverTorn /\ Torn # Absent /\ Torn \notin Contents
      /\ EngineTypeOK /\ toServer \in Seq(ClientMsgs) /\ page \in Pages
      /\ pageLastSeen \in BOOLEAN /\ done \in BOOLEAN
  BY FilesAssumption DEF TransferInv, TypeOK, SessionTypeOK, CountTypeOK
<1>3. /\ phase # "idle" /\ toClient # <<>> /\ m.type = "FileUpload"
      /\ toClient' = Tail(toClient)
      /\ changes' = changes + 1 /\ disturbed' = disturbed \cup {"here"}
      /\ UNCHANGED <<downloads, expected, received, gotEnd, pagingStarted, skipped,
                     serverVars, sessions, broadcasts>>
  BY <1>1 DEF ChangedUpload, UploadVanishes, ChangeBetweenReads, Take
<1>4. m.path \in Files /\ m.id \in Nat
  BY <1>1, <1>2, <1>3, HeadType DEF PageTypes
<1>5. PICK source \in [0..nextId - 1 -> Contents] : OneSource(source)
  BY <1>3 DEF TransferInv, Sourced
<1>6. /\ EngineTypeOK' /\ NeverTorn' /\ toServer' \in Seq(ClientMsgs)
      /\ page' \in Pages /\ pageLastSeen' \in BOOLEAN /\ done' \in BOOLEAN
      /\ phase' \in {"files", "settings", "live"}
  <2>1. ASSUME NEW c \in Contents, HandleChangedUpload(m.id, m.path, c),
               \/ /\ phase = "files"
                  /\ FinishPage([page EXCEPT !.received = IF page.active THEN @ + 1 ELSE @],
                                <<ChunksOf(m.id, m.path, c)>>)
                  /\ ReturnIfComplete
               \/ /\ phase \in {"settings", "live"}
                  /\ toServer' = Append(toServer, ChunksOf(m.id, m.path, c))
                  /\ UNCHANGED <<phase, page, pageLastSeen, done>>
        PROVE  <1>6
    <3>1. EngineTypeOK'
      BY <1>2, <1>3, <1>4, <2>1 DEF HandleChangedUpload, Uploading, Uploads, EngineTypeOK
    <3>2. NeverTorn'
      BY <1>2, <1>4, <2>1 DEF HandleChangedUpload, EngineTypeOK, NeverTorn
    <3> DEFINE sent == ChunksOf(m.id, m.path, c)
               pg == [page EXCEPT !.received = IF page.active THEN @ + 1 ELSE @]
    <3>3. sent \in ClientMsgs
      BY <1>4, <2>1 DEF ChunksOf, ClientMsgs
    <3>4. pg \in Pages
      BY <1>2 DEF Pages
    <3>5. CASE phase = "files"
      <4>1. FinishPage(pg, <<sent>>) /\ ReturnIfComplete
        BY <2>1, <3>5
      <4> HIDE DEF pg, sent
      <4>2. <<sent>> \in Seq(ClientMsgs)
        BY <3>3
      <4>3. page' \in Pages /\ pageLastSeen' \in BOOLEAN /\ toServer' \in Seq(ClientMsgs)
        BY <1>2, <3>4, <4>1, <4>2, FinishType
      <4> QED
        BY <1>2, <3>1, <3>2, <4>1, <4>3 DEF ReturnIfComplete
    <3>6. CASE phase \in {"settings", "live"}
      <4>1. toServer' = Append(toServer, sent) /\ UNCHANGED <<phase, page, pageLastSeen, done>>
        BY <2>1, <3>6
      <4> HIDE DEF pg, sent
      <4> QED
        BY <1>2, <3>1, <3>2, <3>3, <3>6, <4>1
    <3> QED
      BY <2>1, <3>5, <3>6
  <2>2. CASE UploadVanishes
    <3>1. /\ disk' = [disk EXCEPT ![m.path] = Absent]
          /\ newest' = [newest EXCEPT ![m.path] = "here"]
          /\ phase' = IF phase = "files" THEN "settings" ELSE "live"
          /\ UNCHANGED <<echo, uploads, page, pageLastSeen, toServer, done>>
      BY <1>1, <2>2 DEF UploadVanishes
    <3>2. EngineTypeOK'
      BY <1>2, <1>3, <1>4, <3>1 DEF EngineTypeOK
    <3>3. NeverTorn'
      BY <1>2, <1>4, <3>1 DEF EngineTypeOK, NeverTorn
    <3> QED
      BY <1>2, <3>1, <3>2, <3>3
  <2> QED
    BY <1>1, <2>1, <2>2 DEF ChangedUpload
<1>7. SessionTypeOK'
  BY <1>2, <1>3, <1>6 DEF TypeOK, SessionTypeOK
<1>8. ServerTypeOK' /\ CountTypeOK'
  BY <1>2, <1>3, <1>6 DEF TypeOK, ServerTypeOK, CountTypeOK, serverVars
<1>9. toClient' \in Seq(ServerMsgs)
  BY <1>2, <1>3, HeadType
<1>10. toClient' \in Seq(MsgsOf(source)) /\ SendingFrom(source)' /\ DownloadsFrom(source)'
  BY <1>3, <1>5, HeadSource DEF OneSource, SendingFrom, DownloadsFrom, serverVars
<1>11. MsgsOf(source)' = MsgsOf(source)
  BY DEF MsgsOf, ServerMsgs, PageTypes
<1>12. Sourced' /\ NothingUnconnected'
  BY <1>3, <1>5, <1>6, <1>10, <1>11 DEF Sourced, NothingUnconnected, OneSource, serverVars
<1> QED
  BY <1>6, <1>7, <1>8, <1>9, <1>12 DEF TransferInv, TypeOK

\* A new sync starts with no download on a new connection.
LEMMA RequestInv == TransferInv /\ RequestSync => TransferInv'
<1> SUFFICES ASSUME TransferInv, RequestSync PROVE TransferInv'
  OBVIOUS
<1>1. TypeOK /\ NeverTorn
  BY DEF TransferInv
<1>2. /\ phase = "idle" /\ phase' = "files" /\ sessions' = sessions + 1
      /\ downloads' = {} /\ uploads' = {} /\ done' = FALSE
      /\ disturbed' = {} /\ skipped' = {}
      /\ UNCHANGED <<disk, newest, echo, toClient, serverVars, changes, broadcasts>>
      /\ toServer' = <<[type |-> "FileSync", files |-> disk, newest |-> newest]>>
  BY DEF RequestSync, Reset
<1>3. EngineTypeOK'
  BY <1>1, <1>2 DEF TypeOK, EngineTypeOK
<1>4. SessionTypeOK'
  <2>1. ResetCounters
    BY DEF RequestSync, Reset
  <2> QED
    BY <1>2, <2>1 DEF ResetCounters, SessionTypeOK, NoPage, Pages
<1>5. ServerTypeOK'
  BY <1>1, <1>2 DEF TypeOK, ServerTypeOK, serverVars
<1>6. CountTypeOK'
  <2>1. sessions \in Nat /\ changes \in Nat /\ broadcasts \in Nat
    BY <1>1 DEF TypeOK, CountTypeOK
  <2>2. changes' = changes /\ broadcasts' = broadcasts
    BY <1>2
  <2>3. sessions' \in Nat /\ changes' \in Nat /\ broadcasts' \in Nat
    BY <1>2, <2>1, <2>2
  <2>4. disturbed' \subseteq {"here", "there"} /\ skipped' \subseteq Files
        /\ done' \in BOOLEAN
    BY <1>2
  <2> QED
    BY <2>3, <2>4 DEF CountTypeOK
<1>7. toServer' \in Seq(ClientMsgs) /\ toClient' \in Seq(ServerMsgs)
  <2>1. [type |-> "FileSync", files |-> disk, newest |-> newest] \in ClientMsgs
    BY <1>1 DEF TypeOK, EngineTypeOK, ClientMsgs
  <2> QED
    BY <1>1, <1>2, <2>1 DEF TypeOK
<1>8. toClient' = <<>> /\ sending' = {}
  BY <1>2 DEF TransferInv, NothingUnconnected, serverVars
<1>9. Sourced'
  <2>1. PICK source \in [0..nextId - 1 -> Contents] : nextId' = nextId
    <3>1. [k \in 0..nextId - 1 |-> Empty] \in [0..nextId - 1 -> Contents]
      BY FilesAssumption
    <3> QED
      BY <1>2, <3>1 DEF serverVars
  <2>2. toClient' \in Seq(MsgsOf(source)')
    BY <1>8
  <2>3. SendingFrom(source)' /\ DownloadsFrom(source)'
    BY <1>2, <1>8 DEF SendingFrom, DownloadsFrom
  <2> QED
    BY <2>1, <2>2, <2>3 DEF Sourced, OneSource
<1> QED
  BY <1>1, <1>2, <1>3, <1>4, <1>5, <1>6, <1>7, <1>9
  DEF TransferInv, TypeOK, NeverTorn, NothingUnconnected

\* The setting sync ends.
LEMMA EndSettingsInv == TransferInv /\ EndSettings => TransferInv'
<1> SUFFICES ASSUME TransferInv, EndSettings PROVE TransferInv'
  OBVIOUS
<1>1. TypeOK
  BY DEF TransferInv
<1>2. /\ phase = "settings" /\ phase' = "live"
      /\ UNCHANGED <<engineVars, sessionVars, toServer, toClient, serverVars,
                     countVars, ghostVars>>
  BY DEF EndSettings
<1>3. TypeOK'
  <2>1. EngineTypeOK'
    BY <1>1, <1>2 DEF TypeOK, EngineTypeOK, engineVars
  <2>2. SessionTypeOK'
    BY <1>1, <1>2 DEF TypeOK, SessionTypeOK, sessionVars
  <2>3. ServerTypeOK'
    BY <1>1, <1>2 DEF TypeOK, ServerTypeOK, serverVars
  <2>4. CountTypeOK'
    BY <1>1, <1>2 DEF TypeOK, CountTypeOK, countVars, ghostVars
  <2>5. toServer' \in Seq(ClientMsgs) /\ toClient' \in Seq(ServerMsgs)
    BY <1>1, <1>2 DEF TypeOK
  <2> QED
    BY <2>1, <2>2, <2>3, <2>4, <2>5 DEF TypeOK
<1>4. PICK source \in [0..nextId - 1 -> Contents] : OneSource(source)
  BY <1>2 DEF TransferInv, Sourced
<1>5. OneSource(source)'
  <2>1. MsgsOf(source)' = MsgsOf(source)
    BY DEF MsgsOf, ServerMsgs, PageTypes
  <2> QED
    BY <1>2, <1>4, <2>1 DEF OneSource, SendingFrom, DownloadsFrom, engineVars, serverVars
<1> QED
  BY <1>2, <1>3, <1>5
  DEF TransferInv, NeverTorn, NothingUnconnected, Sourced, engineVars, serverVars

\* Losing the connection loses what was under way.
LEMMA LostInv == TransferInv /\ (Disconnect \/ Restart) => TransferInv'
<1> SUFFICES ASSUME TransferInv, Disconnect \/ Restart PROVE TransferInv'
  OBVIOUS
<1>1. TypeOK /\ NeverTorn
  BY DEF TransferInv
<1>2. /\ phase' = "idle" /\ toServer' = <<>> /\ toClient' = <<>>
      /\ owed' = {} /\ onPage' = {} /\ pageNo' = -1 /\ sending' = {} /\ nextId' = 0
      /\ UNCHANGED <<disk, newest, sessionVars, srv, countVars, ghostVars>>
  BY DEF Disconnect, Restart, ConnectionLost
<1>3. EngineTypeOK'
  <2>1. \/ UNCHANGED <<echo, downloads, uploads>>
        \/ /\ echo' = [f \in Files |-> NoEntry] /\ downloads' = {} /\ uploads' = {}
    BY DEF Disconnect, Restart
  <2> QED
    BY <1>1, <1>2, <2>1 DEF TypeOK, EngineTypeOK
<1>4. SessionTypeOK'
  BY <1>1, <1>2 DEF TypeOK, SessionTypeOK, sessionVars
<1>5. ServerTypeOK'
  BY <1>1, <1>2 DEF TypeOK, ServerTypeOK
<1>6. CountTypeOK'
  BY <1>1, <1>2 DEF TypeOK, CountTypeOK, countVars, ghostVars
<1> QED
  BY <1>1, <1>2, <1>3, <1>4, <1>5, <1>6
  DEF TransferInv, TypeOK, NeverTorn, NothingUnconnected, Sourced
---------------------------------------------------------------------------
(* The steps of the server.                                                *)

\* There are finitely many findings, one of each type for each file.
LEMMA FindingsFinite == IsFiniteSet(Findings)
<1> DEFINE Types == {"FileSyncUpdate", "FileSyncDelete", "FileSyncMtime", "FileUpload"}
           Of(t) == { [type |-> t, path |-> f] : f \in Files }
<1>1. \A t \in Types : IsFiniteSet(Of(t))
  <2> TAKE t \in Types
  <2>1. IsFiniteSet(Files)
    BY FilesAssumption
  <2> DEFINE at == [f \in Files |-> [type |-> t, path |-> f]]
  <2>2. at \in Surjection(Files, Of(t))
    BY DEF Surjection
  <2> QED
    BY <2>1, <2>2, FS_Surjection
<1>2. \A x \in Findings : x.type \in Types /\ x \in Of(x.type)
  <2> TAKE x \in Findings
  <2>1. x.type \in Types /\ x.path \in Files /\ x = [type |-> x.type, path |-> x.path]
    BY DEF Findings, PageTypes
  <2> QED
    BY <2>1
<1> HIDE DEF Of
<1>3. IsFiniteSet(Of("FileSyncUpdate") \cup Of("FileSyncDelete"))
  BY <1>1, FS_Union
<1>4. IsFiniteSet(Of("FileSyncUpdate") \cup Of("FileSyncDelete") \cup Of("FileSyncMtime"))
  BY <1>1, <1>3, FS_Union
<1> DEFINE All == Of("FileSyncUpdate") \cup Of("FileSyncDelete")
                  \cup Of("FileSyncMtime") \cup Of("FileUpload")
<1>5. IsFiniteSet(All)
  BY <1>1, <1>4, FS_Union
<1>6. Findings \in SUBSET All
  BY <1>2
<1> HIDE DEF All
<1> QED
  BY <1>5, <1>6, FS_Subset

\* So any of them can be counted.
LEMMA FindingsCount ==
    ASSUME NEW S \in SUBSET Findings
    PROVE  Cardinality(S) \in Nat
  BY FindingsFinite, FS_Subset, FS_CardinalityType

\* What the server finds of a file is one of its findings.
LEMMA VerdictsType ==
    ASSUME NEW verdict \in [Files -> (PageTypes \ {"FileSyncRename"}) \cup {"InSync"}]
    PROVE  { [type |-> verdict[f], path |-> f] : f \in { g \in Files : verdict[g] # "InSync" } }
              \subseteq Findings
  BY DEF Findings

\* A step of the server: what remains to be shown is what it does to its own
\* variables and to the channels.
LEMMA ServerStepInv ==
    ASSUME TransferInv, phase # "idle",
           UNCHANGED <<disk, echo, downloads, uploads, phase, sessionVars,
                       countVars, ghostVars>>,
           newest' \in [Files -> {"here", "there"}], ServerTypeOK',
           toServer' \in Seq(ClientMsgs), toClient' \in Seq(ServerMsgs),
           \E source \in [0..nextId' - 1 -> Contents] :
              toClient' \in Seq(MsgsOf(source)) /\ SendingFrom(source)' /\ DownloadsFrom(source)
    PROVE  TransferInv'
<1>1. TypeOK /\ NeverTorn
  BY DEF TransferInv
<1>2. EngineTypeOK'
  BY <1>1 DEF TypeOK, EngineTypeOK
<1>3. SessionTypeOK'
  BY <1>1 DEF TypeOK, SessionTypeOK, sessionVars
<1>4. CountTypeOK'
  BY <1>1 DEF TypeOK, CountTypeOK, countVars, ghostVars
<1>5. Sourced'
  <2>1. PICK source \in [0..nextId' - 1 -> Contents] :
           toClient' \in Seq(MsgsOf(source)) /\ SendingFrom(source)' /\ DownloadsFrom(source)
    OBVIOUS
  <2>2. DownloadsFrom(source)'
    BY <2>1 DEF DownloadsFrom
  <2>3. MsgsOf(source)' = MsgsOf(source)
    BY DEF MsgsOf, ServerMsgs, PageTypes
  <2> QED
    BY <2>1, <2>2, <2>3 DEF Sourced, OneSource
<1> QED
  BY <1>1, <1>2, <1>3, <1>4, <1>5 DEF TransferInv, TypeOK, NeverTorn, NothingUnconnected

\* A message of the client is taken only on a connection.
LEMMA FromClientInv ==
    ASSUME TransferInv, NEW type, FromClient(type)
    PROVE  /\ phase # "idle" /\ Head(toServer) \in ClientMsgs /\ Head(toServer).type = type
           /\ toServer' \in Seq(ClientMsgs)
           /\ UNCHANGED <<disk, echo, downloads, uploads, phase, sessionVars,
                          countVars, ghostVars>>
<1>1. toServer # <<>> /\ toServer' = Tail(toServer) /\ toServer \in Seq(ClientMsgs)
  BY DEF FromClient, TransferInv, TypeOK
<1>2. phase # "idle"
  BY <1>1 DEF TransferInv, NothingUnconnected
<1> QED
  BY <1>1, <1>2 DEF FromClient

\* A message that is not about a session's content can be sent, and a session
\* id used up, at any time.
LEMMA SendPlain ==
    ASSUME TransferInv, phase # "idle", NEW m \in ServerMsgs,
           m.type \notin {"Chunk", "FileSyncChunkDownload"},
           toClient' = Append(toClient, m), sending' = sending,
           nextId' = nextId \/ nextId' = nextId + 1
    PROVE  /\ toClient' \in Seq(ServerMsgs)
           /\ \E source \in [0..nextId' - 1 -> Contents] :
                toClient' \in Seq(MsgsOf(source)) /\ SendingFrom(source)' /\ DownloadsFrom(source)
<1>1. TypeOK /\ nextId \in Nat
  BY DEF TransferInv, TypeOK, ServerTypeOK
<1>2. toClient' \in Seq(ServerMsgs)
  BY <1>1 DEF TypeOK
<1>3. PICK old \in [0..nextId - 1 -> Contents] : OneSource(old)
  BY DEF TransferInv, Sourced
<1>4. \E source \in [0..nextId' - 1 -> Contents] : OneSource(source)
  <2>1. CASE nextId' = nextId
    BY <1>3, <2>1
  <2>2. CASE nextId' = nextId + 1
    <3>1. \E wider \in [0..nextId -> Contents] : OneSource(wider)
      BY <1>1, <1>3, NewSource, FilesAssumption
    <3>2. nextId' - 1 = nextId
      BY <1>1, <2>2
    <3> QED
      BY <3>1, <3>2
  <2> QED
    BY <2>1, <2>2
<1>5. PICK source \in [0..nextId' - 1 -> Contents] : OneSource(source)
  BY <1>4
<1>6. toClient' \in Seq(MsgsOf(source))
  BY <1>5, PlainMsg DEF OneSource
<1>7. SendingFrom(source)' /\ DownloadsFrom(source)
  BY <1>5 DEF OneSource, SendingFrom
<1> QED
  BY <1>2, <1>6, <1>7

\* The answer to the request.
LEMMA AnswerInv == TransferInv /\ ServerAnswersSync => TransferInv'
<1> SUFFICES ASSUME TransferInv, ServerAnswersSync PROVE TransferInv'
  OBVIOUS
<1>1. FromClient("FileSync") /\ UNCHANGED <<newest, srv, onPage, pageNo, sending, nextId>>
  BY DEF ServerAnswersSync
<1>2. /\ phase # "idle" /\ toServer' \in Seq(ClientMsgs)
      /\ UNCHANGED <<disk, echo, downloads, uploads, phase, sessionVars,
                     countVars, ghostVars>>
  BY <1>1, FromClientInv
<1>3. TypeOK
  BY DEF TransferInv
<1> DEFINE msg == [type |-> "FileSyncEnd", count |-> Cardinality(Counted(owed'))]
<1>4. owed' \subseteq Findings /\ toClient' = Append(toClient, msg)
  BY VerdictsType DEF ServerAnswersSync
<1>5. msg \in ServerMsgs /\ msg.type = "FileSyncEnd"
  <2>1. Counted(owed') \in SUBSET Findings
    BY <1>4 DEF Counted
  <2>2. Cardinality(Counted(owed')) \in Nat
    BY <2>1, FindingsCount
  <2> QED
    BY <2>2 DEF ServerMsgs
<1> HIDE DEF msg
<1>6. ServerTypeOK' /\ newest' \in [Files -> {"here", "there"}]
  BY <1>1, <1>3, <1>4 DEF TypeOK, ServerTypeOK, EngineTypeOK
<1> QED
  BY <1>1, <1>2, <1>4, <1>5, <1>6, SendPlain, ServerStepInv

\* A page.
LEMMA PageInv == TransferInv /\ ServerStartsPage => TransferInv'
<1> SUFFICES ASSUME TransferInv, ServerStartsPage PROVE TransferInv'
  OBVIOUS
<1>1. FromClient("FileSyncPageAck") /\ UNCHANGED <<newest, srv, sending, nextId>>
  BY DEF ServerStartsPage
<1>2. /\ phase # "idle" /\ toServer' \in Seq(ClientMsgs)
      /\ UNCHANGED <<disk, echo, downloads, uploads, phase, sessionVars,
                     countVars, ghostVars>>
  BY <1>1, FromClientInv
<1>3. TypeOK
  BY DEF TransferInv
<1>4. newest' \in [Files -> {"here", "there"}]
  BY <1>1, <1>3 DEF TypeOK, EngineTypeOK
<1>5. ASSUME NEW batch \in SUBSET owed, onPage' = batch, owed' = owed \ batch,
             pageNo' = pageNo + 1,
             toClient' = Append(toClient,
                    [type |-> "FileSyncPage", index |-> pageNo + 1,
                     total |-> Cardinality(batch), last |-> batch = owed])
      PROVE  TransferInv'
  <2> DEFINE msg == [type |-> "FileSyncPage", index |-> pageNo + 1,
                     total |-> Cardinality(batch), last |-> batch = owed]
  <2>1. owed \subseteq Findings /\ pageNo + 1 \in Nat
    BY <1>3 DEF TypeOK, ServerTypeOK
  <2>2. batch \in SUBSET Findings
    BY <2>1
  <2>3. Cardinality(batch) \in Nat
    BY <2>2, FindingsCount
  <2>4. msg \in ServerMsgs /\ msg.type = "FileSyncPage"
    BY <2>1, <2>3 DEF ServerMsgs
  <2>5. toClient' = Append(toClient, msg)
    BY <1>5
  <2> HIDE DEF msg
  <2>6. ServerTypeOK'
    BY <1>1, <1>3, <1>5, <2>1, <2>2 DEF TypeOK, ServerTypeOK
  <2> QED
    BY <1>1, <1>2, <1>4, <2>4, <2>5, <2>6, SendPlain, ServerStepInv
<1>6. CASE UNCHANGED <<owed, onPage, pageNo, toClient>>
  <2>1. ServerTypeOK' /\ toClient' \in Seq(ServerMsgs)
    BY <1>1, <1>3, <1>6 DEF TypeOK, ServerTypeOK
  <2>2. PICK source \in [0..nextId - 1 -> Contents] : OneSource(source)
    BY <1>2 DEF TransferInv, Sourced
  <2>3. toClient' \in Seq(MsgsOf(source)) /\ SendingFrom(source)' /\ DownloadsFrom(source)
    BY <1>1, <1>6, <2>2 DEF OneSource, SendingFrom
  <2> QED
    BY <1>1, <1>2, <1>4, <2>1, <2>3, ServerStepInv
<1> QED
  BY <1>5, <1>6 DEF ServerStartsPage

\* A detail of the page.
LEMMA SendDetailInv == TransferInv /\ ServerSendsDetail => TransferInv'
<1> SUFFICES ASSUME TransferInv, ServerSendsDetail PROVE TransferInv'
  OBVIOUS
<1>1. TypeOK
  BY DEF TransferInv
<1>2. PICK d \in onPage : \E m \in DetailMsgs(d) :
        /\ onPage' = onPage \ {d} /\ toClient' = Append(toClient, m)
        /\ nextId' = IF d.type = "FileUpload" THEN nextId + 1 ELSE nextId
        /\ UNCHANGED <<engineVars, phase, sessionVars, toServer, srv, owed, pageNo,
                       sending, countVars, ghostVars>>
  BY DEF ServerSendsDetail
<1>3. PICK m \in DetailMsgs(d) :
        /\ onPage' = onPage \ {d} /\ toClient' = Append(toClient, m)
        /\ nextId' = IF d.type = "FileUpload" THEN nextId + 1 ELSE nextId
        /\ UNCHANGED <<engineVars, phase, sessionVars, toServer, srv, owed, pageNo,
                       sending, countVars, ghostVars>>
  BY <1>2
<1>4. phase # "idle"
  BY DEF TransferInv, NothingUnconnected
<1>5. /\ d.type \in PageTypes \ {"FileSyncRename"} /\ d.path \in Files
      /\ nextId \in Nat /\ srv[d.path] \in Contents \cup {Absent}
  BY <1>1 DEF TypeOK, ServerTypeOK, Findings
<1>6. m \in ServerMsgs /\ m.type \notin {"Chunk", "FileSyncChunkDownload"}
  <2>1. CASE d.type = "FileSyncUpdate"
    <3>1. m \in UpdateMsgs(d.path)
      BY <2>1 DEF DetailMsgs
    <3> QED
      BY <1>5, <3>1 DEF UpdateMsgs, ServerMsgs
  <2>2. CASE d.type = "FileUpload"
    <3>1. m = [type |-> "FileUpload", id |-> nextId, path |-> d.path]
      BY <2>2 DEF DetailMsgs
    <3> QED
      BY <1>5, <3>1 DEF ServerMsgs
  <2>3. CASE d.type \in {"FileSyncDelete", "FileSyncMtime"}
    <3>1. m = [type |-> d.type, path |-> d.path]
      BY <2>3 DEF DetailMsgs
    <3> QED
      BY <1>5, <2>3, <3>1 DEF ServerMsgs
  <2> QED
    BY <1>5, <2>1, <2>2, <2>3 DEF PageTypes
<1>7. ServerTypeOK'
  BY <1>1, <1>3 DEF TypeOK, ServerTypeOK
<1>8. /\ newest' \in [Files -> {"here", "there"}] /\ toServer' \in Seq(ClientMsgs)
      /\ UNCHANGED <<disk, echo, downloads, uploads, phase, sessionVars, countVars,
                     ghostVars>>
      /\ sending' = sending /\ (nextId' = nextId \/ nextId' = nextId + 1)
  BY <1>1, <1>3 DEF TypeOK, EngineTypeOK, engineVars
<1> QED
  BY <1>3, <1>4, <1>6, <1>7, <1>8, SendPlain, ServerStepInv

\* A download starts: its session id stands for the file's content.
LEMMA DownloadInv == TransferInv /\ ServerStartsDownload => TransferInv'
<1> SUFFICES ASSUME TransferInv, ServerStartsDownload PROVE TransferInv'
  OBVIOUS
<1>1. FromClient("FileChunkDownload") /\ UNCHANGED <<newest, srv, owed, onPage, pageNo>>
  BY DEF ServerStartsDownload
<1>2. /\ phase # "idle" /\ toServer' \in Seq(ClientMsgs)
      /\ Head(toServer) \in ClientMsgs /\ Head(toServer).type = "FileChunkDownload"
      /\ UNCHANGED <<disk, echo, downloads, uploads, phase, sessionVars,
                     countVars, ghostVars>>
  BY <1>1, FromClientInv
<1>3. TypeOK
  BY DEF TransferInv
<1>4. newest' \in [Files -> {"here", "there"}]
  BY <1>1, <1>3 DEF TypeOK, EngineTypeOK
<1> DEFINE f == Head(toServer).path
           c == srv[f]
           count == ChunkCount[c]
           msg == [type |-> "FileSyncChunkDownload", id |-> nextId, path |-> f,
                   count |-> count]
           new == [id |-> nextId, data |-> c, left |-> 0..count - 1]
<1>5. f \in Files
  BY <1>2 DEF ClientMsgs
<1>6. PICK old \in [0..nextId - 1 -> Contents] : OneSource(old)
  BY <1>2 DEF TransferInv, Sourced
<1>7. CASE c = Absent
  <2>1. UNCHANGED <<toClient, sending, nextId>>
    BY <1>7 DEF ServerStartsDownload
  <2>2. ServerTypeOK' /\ toClient' \in Seq(ServerMsgs)
    BY <1>1, <1>3, <2>1 DEF TypeOK, ServerTypeOK
  <2>3. toClient' \in Seq(MsgsOf(old)) /\ SendingFrom(old)' /\ DownloadsFrom(old)
    BY <1>6, <2>1 DEF OneSource, SendingFrom
  <2> QED
    BY <1>2, <1>4, <2>1, <2>2, <2>3, ServerStepInv
<1>8. CASE c # Absent
  <2>1. /\ toClient' = Append(toClient, msg) /\ nextId' = nextId + 1
        /\ sending' \subseteq sending \cup {new}
    BY <1>8 DEF ServerStartsDownload
  <2>2. c \in Contents /\ nextId \in Nat
    BY <1>3, <1>5, <1>8 DEF TypeOK, ServerTypeOK
  <2>3. count \in Nat
    BY <2>2, ChunkCountType
  <2> HIDE DEF c, f
  <2>4. msg \in ServerMsgs
    BY <1>5, <2>2, <2>3 DEF ServerMsgs
  <2>5. toClient' \in Seq(ServerMsgs)
    BY <1>3, <2>1, <2>4 DEF TypeOK
  <2> DEFINE all == 0..count - 1
  <2>6. /\ new \in [id : Nat, data : Contents, left : SUBSET Nat]
         /\ new.id = nextId /\ new.data = c /\ new.left = 0..ChunkCount[c] - 1
    <3>1. all \in SUBSET Nat
      BY <2>3
    <3> HIDE DEF all
    <3>2. [id |-> nextId, data |-> c, left |-> all]
              \in [id : Nat, data : Contents, left : SUBSET Nat]
      BY <2>2, <3>1
    <3> QED
      BY <3>2 DEF all
  <2> HIDE DEF new, all
  <2>7. ServerTypeOK'
    BY <1>1, <1>3, <2>1, <2>2, <2>6 DEF TypeOK, ServerTypeOK
  <2>8. PICK wider \in [0..nextId -> Contents] : wider[nextId] = c /\ OneSource(wider)
    BY <1>3, <1>6, <2>2, NewSource
  <2>9. nextId' - 1 = nextId /\ nextId \in DOMAIN wider
    BY <2>1, <2>2
  <2>10. msg \in MsgsOf(wider)
    BY <2>4, <2>8, <2>9 DEF MsgsOf
  <2>11. toClient' \in Seq(MsgsOf(wider))
    BY <2>1, <2>8, <2>10 DEF OneSource
  <2>12. SendingFrom(wider)'
    BY <2>1, <2>8, <2>9, <2>6 DEF OneSource, SendingFrom
  <2>13. DownloadsFrom(wider) /\ wider \in [0..nextId' - 1 -> Contents]
    BY <2>8, <2>9 DEF OneSource
  <2> QED
    BY <1>2, <1>4, <2>5, <2>7, <2>11, <2>12, <2>13, ServerStepInv
<1> QED
  BY <1>7, <1>8

\* A chunk of a download.
LEMMA SendChunkInv == TransferInv /\ ServerSendsChunk => TransferInv'
<1> SUFFICES ASSUME TransferInv, ServerSendsChunk PROVE TransferInv'
  OBVIOUS
<1>1. TypeOK
  BY DEF TransferInv
<1>2. PICK t \in sending : \E i \in t.left :
        /\ toClient' = Append(toClient, [type |-> "Chunk", id |-> t.id,
                                         index |-> i, data |-> t.data])
        /\ sending' = (sending \ {t}) \cup
                      IF t.left = {i} THEN {} ELSE { [t EXCEPT !.left = @ \ {i}] }
        /\ UNCHANGED <<engineVars, phase, sessionVars, toServer, srv, owed, onPage,
                       pageNo, nextId, countVars, ghostVars>>
  BY DEF ServerSendsChunk
<1>3. PICK i \in t.left :
        /\ toClient' = Append(toClient, [type |-> "Chunk", id |-> t.id,
                                         index |-> i, data |-> t.data])
        /\ sending' = (sending \ {t}) \cup
                      IF t.left = {i} THEN {} ELSE { [t EXCEPT !.left = @ \ {i}] }
        /\ UNCHANGED <<engineVars, phase, sessionVars, toServer, srv, owed, onPage,
                       pageNo, nextId, countVars, ghostVars>>
  BY <1>2
<1>4. phase # "idle"
  BY DEF TransferInv, NothingUnconnected
<1>5. PICK source \in [0..nextId - 1 -> Contents] : OneSource(source)
  BY <1>4 DEF TransferInv, Sourced
<1> DEFINE msg == [type |-> "Chunk", id |-> t.id, index |-> i, data |-> t.data]
           rest == [t EXCEPT !.left = @ \ {i}]
<1>6. /\ t \in [id : Nat, data : Contents, left : SUBSET Nat]
      /\ t.id \in DOMAIN source /\ t.data = source[t.id]
      /\ t.left \subseteq 0..ChunkCount[t.data] - 1
  BY <1>1, <1>5 DEF TypeOK, ServerTypeOK, OneSource, SendingFrom
<1>7. /\ rest \in [id : Nat, data : Contents, left : SUBSET Nat]
      /\ rest.id = t.id /\ rest.data = t.data /\ rest.left \subseteq t.left
      /\ sending' \subseteq sending \cup {rest}
  BY <1>3, <1>6
<1>8. msg \in MsgsOf(source) /\ msg \in ServerMsgs
  <2>1. i \in Nat /\ i < ChunkCount[t.data]
    <3>1. ChunkCount[t.data] \in Nat
      BY <1>6, ChunkCountType
    <3> QED
      BY <1>6, <3>1
  <2>2. msg \in ServerMsgs
    BY <1>6, <2>1 DEF ServerMsgs
  <2> QED
    BY <1>6, <2>1, <2>2 DEF MsgsOf
<1>9. toClient' = Append(toClient, msg)
  BY <1>3
<1> HIDE DEF msg, rest
<1>10. toClient' \in Seq(ServerMsgs) /\ toClient' \in Seq(MsgsOf(source))
  BY <1>1, <1>5, <1>8, <1>9 DEF TypeOK, OneSource
<1>11. SendingFrom(source)' /\ DownloadsFrom(source)
  BY <1>5, <1>6, <1>7 DEF OneSource, SendingFrom
<1>12. ServerTypeOK'
  BY <1>1, <1>3, <1>7 DEF TypeOK, ServerTypeOK
<1>13. /\ newest' \in [Files -> {"here", "there"}] /\ toServer' \in Seq(ClientMsgs)
       /\ UNCHANGED <<disk, echo, downloads, uploads, phase, sessionVars, countVars,
                      ghostVars>>
       /\ nextId' = nextId
  BY <1>1, <1>3 DEF TypeOK, EngineTypeOK, engineVars
<1> QED
  BY <1>4, <1>10, <1>11, <1>12, <1>13, ServerStepInv

\* The end of an upload.
LEMMA AcceptInv == TransferInv /\ ServerAcceptsChunks => TransferInv'
<1> SUFFICES ASSUME TransferInv, ServerAcceptsChunks PROVE TransferInv'
  OBVIOUS
<1> DEFINE m == Head(toServer)
<1>1. /\ FromClient("Chunks") /\ UNCHANGED <<owed, onPage, pageNo, sending, nextId>>
      /\ srv' = [srv EXCEPT ![m.path] = m.data]
      /\ newest' = [newest EXCEPT ![m.path] = "here"]
  BY DEF ServerAcceptsChunks
<1>2. /\ phase # "idle" /\ toServer' \in Seq(ClientMsgs)
      /\ m \in ClientMsgs /\ m.type = "Chunks"
      /\ UNCHANGED <<disk, echo, downloads, uploads, phase, sessionVars,
                     countVars, ghostVars>>
  BY <1>1, FromClientInv
<1>3. TypeOK
  BY DEF TransferInv
<1>4. m.path \in Files /\ m.data \in Contents /\ m.id \in Nat
  BY <1>2 DEF ClientMsgs
<1>5. PICK id \in {m.id, NoSession} :
         toClient' = Append(toClient, [type |-> "FileUploadAck", id |-> id, path |-> m.path])
  BY DEF ServerAcceptsChunks
<1> HIDE DEF m
<1>6. newest' \in [Files -> {"here", "there"}] /\ ServerTypeOK'
  BY <1>1, <1>3, <1>4 DEF TypeOK, EngineTypeOK, ServerTypeOK
<1> DEFINE msg == [type |-> "FileUploadAck", id |-> id, path |-> m.path]
<1>7. msg \in ServerMsgs /\ msg.type = "FileUploadAck" /\ toClient' = Append(toClient, msg)
  BY <1>4, <1>5 DEF ServerMsgs
<1> HIDE DEF msg
<1> QED
  BY <1>1, <1>2, <1>6, <1>7, SendPlain, ServerStepInv
---------------------------------------------------------------------------
(* The user and the other devices.                                         *)

\* A change, with or without a broadcast.
LEMMA ChangeInv == TransferInv /\ Changes => TransferInv'
<1> SUFFICES ASSUME TransferInv, Changes PROVE TransferInv'
  OBVIOUS
<1>1. TypeOK /\ NeverTorn /\ Torn # Absent /\ Torn \notin Contents
  BY FilesAssumption DEF TransferInv
<1> DEFINE Told(m) == /\ phase # "idle" /\ broadcasts' = broadcasts + 1
                      /\ toClient' = Append(toClient, m)
           Quiet == UNCHANGED <<toClient, broadcasts>>
<1>2. ASSUME NEW side \in {"here", "there"}, Change(side),
             disk' \in [Files -> Contents \cup {Absent, Torn}], NeverTorn',
             newest' \in [Files -> {"here", "there"}],
             srv' \in [Files -> Contents \cup {Absent}],
             Quiet \/ \E m \in ServerMsgs : m.type \notin {"Chunk", "FileSyncChunkDownload"} /\ Told(m)
      PROVE  TransferInv'
  <2>1. /\ changes' = changes + 1 /\ disturbed' = disturbed \cup {side}
        /\ UNCHANGED <<echo, downloads, uploads, phase, sessionVars, toServer, owed,
                       onPage, pageNo, sending, nextId, sessions, skipped, done>>
    BY <1>2 DEF Change
  <2>2. EngineTypeOK'
    BY <1>1, <1>2, <2>1 DEF TypeOK, EngineTypeOK
  <2>3. SessionTypeOK'
    BY <1>1, <2>1 DEF TypeOK, SessionTypeOK, sessionVars
  <2>4. ServerTypeOK'
    BY <1>1, <1>2, <2>1 DEF TypeOK, ServerTypeOK
  <2>5. CountTypeOK'
    BY <1>1, <1>2, <2>1 DEF TypeOK, CountTypeOK
  <2>6. toServer' \in Seq(ClientMsgs) /\ toClient' \in Seq(ServerMsgs)
    BY <1>1, <1>2, <2>1 DEF TypeOK
  <2>7. NothingUnconnected'
    BY <1>2, <2>1 DEF TransferInv, NothingUnconnected
  <2>8. Sourced'
    <3> SUFFICES ASSUME phase' # "idle"
                 PROVE  \E source \in [0..nextId' - 1 -> Contents] : OneSource(source)'
      BY DEF Sourced
    <3>1. PICK source \in [0..nextId - 1 -> Contents] : OneSource(source)
      BY <2>1 DEF TransferInv, Sourced
    <3>2. toClient' \in Seq(MsgsOf(source))
      BY <1>2, <3>1, PlainMsg DEF OneSource
    <3>3. SendingFrom(source)' /\ DownloadsFrom(source)'
      BY <2>1, <3>1 DEF OneSource, SendingFrom, DownloadsFrom
    <3>4. MsgsOf(source)' = MsgsOf(source)
      BY DEF MsgsOf, ServerMsgs, PageTypes
    <3> QED
      BY <2>1, <3>2, <3>3, <3>4 DEF OneSource
  <2> QED
    BY <1>2, <2>2, <2>3, <2>4, <2>5, <2>6, <2>7, <2>8 DEF TransferInv, TypeOK
<1> HIDE DEF Told, Quiet
<1>3. ASSUME NEW m, Broadcast(m) PROVE Quiet \/ Told(m)
  BY <1>3 DEF Broadcast, Told, Quiet
<1>4. /\ disk \in [Files -> Contents \cup {Absent, Torn}]
      /\ newest \in [Files -> {"here", "there"}]
      /\ srv \in [Files -> Contents \cup {Absent}]
  BY <1>1 DEF TypeOK, EngineTypeOK, ServerTypeOK
<1>5. ASSUME NEW f \in Files, NEW c \in Contents \cup {Absent}, UserChanges(f, c)
      PROVE  TransferInv'
  <2>1. /\ Change("here") /\ disk' = [disk EXCEPT ![f] = c]
        /\ newest' = [newest EXCEPT ![f] = "here"]
        /\ UNCHANGED <<srv, toClient, broadcasts>>
    BY <1>5 DEF UserChanges
  <2>2. disk' \in [Files -> Contents \cup {Absent, Torn}] /\ NeverTorn'
    BY <1>1, <1>4, <2>1 DEF NeverTorn
  <2> QED
    BY <1>2, <1>4, <2>1, <2>2 DEF Quiet
<1>6. ASSUME NEW f \in Files, NEW c \in Contents \cup {Absent}, RemoteChanges(f, c)
      PROVE  TransferInv'
  <2>1. /\ Change("there") /\ srv' = [srv EXCEPT ![f] = c] /\ disk' = disk
        /\ newest' = [newest EXCEPT ![f] = "there"]
    BY <1>6 DEF RemoteChanges
  <2>2. \E m \in ServerMsgs : m.type \notin {"Chunk", "FileSyncChunkDownload"} /\ Broadcast(m)
    <3>1. CASE c = Absent
      <4> DEFINE m == [type |-> "FileSyncDelete", path |-> f]
      <4>1. Broadcast(m) /\ m \in ServerMsgs /\ m.type = "FileSyncDelete"
        BY <1>6, <3>1 DEF RemoteChanges, ServerMsgs
      <4> QED
        BY <4>1
    <3>2. CASE c # Absent
      <4>1. PICK content \in {Absent, c} :
              Broadcast([type |-> "FileSyncUpdate", path |-> f, content |-> content])
        BY <1>6, <3>2 DEF RemoteChanges
      <4> DEFINE m == [type |-> "FileSyncUpdate", path |-> f, content |-> content]
      <4>2. Broadcast(m) /\ m \in ServerMsgs /\ m.type = "FileSyncUpdate"
        BY <4>1 DEF ServerMsgs
      <4> QED
        BY <4>2
    <3> QED
      BY <3>1, <3>2
  <2>3. Quiet \/ \E m \in ServerMsgs : m.type \notin {"Chunk", "FileSyncChunkDownload"} /\ Told(m)
    BY <1>3, <2>2
  <2>4. srv' \in [Files -> Contents \cup {Absent}] /\ newest' \in [Files -> {"here", "there"}]
    BY <1>4, <2>1
  <2>5. NeverTorn'
    BY <1>1, <2>1 DEF NeverTorn
  <2> QED
    BY <1>2, <1>4, <2>1, <2>3, <2>4, <2>5
<1>7. ASSUME NEW old \in Files, NEW new \in Files, RemoteRenames(old, new)
      PROVE  TransferInv'
  <2> DEFINE m == [type |-> "FileSyncRename", old |-> old, path |-> new]
  <2>1. /\ Change("there") /\ srv' = [srv EXCEPT ![old] = Absent, ![new] = srv[old]]
        /\ newest' = [newest EXCEPT ![old] = "there", ![new] = "there"]
        /\ disk' = disk /\ Broadcast(m)
    BY <1>7 DEF RemoteRenames
  <2>2. m \in ServerMsgs /\ m.type = "FileSyncRename"
    BY DEF ServerMsgs
  <2> HIDE DEF m
  <2>3. Quiet \/ \E x \in ServerMsgs : x.type \notin {"Chunk", "FileSyncChunkDownload"} /\ Told(x)
    BY <1>3, <2>1, <2>2
  <2>4. srv' \in [Files -> Contents \cup {Absent}] /\ newest' \in [Files -> {"here", "there"}]
    BY <1>4, <2>1
  <2>5. NeverTorn'
    BY <1>1, <2>1 DEF NeverTorn
  <2> QED
    BY <1>2, <1>4, <2>1, <2>3, <2>4, <2>5
<1> QED
  BY <1>5, <1>6, <1>7 DEF Changes
---------------------------------------------------------------------------
(* The theorems.                                                           *)

\* The invariant holds initially.
LEMMA TransferInit == Init => TransferInv
<1> SUFFICES ASSUME Init PROVE TransferInv
  OBVIOUS
<1>1. EngineTypeOK /\ NeverTorn
  BY FilesAssumption DEF Init, EngineTypeOK, NeverTorn
<1>2. SessionTypeOK
  BY DEF Init, SessionTypeOK, NoPage, Pages
<1>3. ServerTypeOK /\ CountTypeOK
  BY DEF Init, ServerTypeOK, CountTypeOK
<1>4. toServer \in Seq(ClientMsgs) /\ toClient \in Seq(ServerMsgs)
  BY DEF Init
<1> QED
  BY <1>1, <1>2, <1>3, <1>4
  DEF Init, TransferInv, TypeOK, NothingUnconnected, Sourced

\* Every step preserves it.
LEMMA TransferStep == TransferInv /\ [Next]_vars => TransferInv'
<1> SUFFICES ASSUME TransferInv, [Next]_vars PROVE TransferInv'
  OBVIOUS
<1>1. CASE RequestSync
  BY <1>1, RequestInv
<1>2. CASE ClientReceives
  BY <1>2, ClientInv
<1>3. CASE ReceiveElsewhere
  BY <1>3, ElsewhereInv
<1>4. CASE HandlerFails
  BY <1>4, FailInv
<1>5. CASE EndSettings
  BY <1>5, EndSettingsInv
<1>6. CASE Disconnect \/ Restart
  BY <1>6, LostInv
<1>7. CASE ServerSteps
  BY <1>7, AnswerInv, PageInv, SendDetailInv, DownloadInv, SendChunkInv, AcceptInv
  DEF ServerSteps
<1>8. CASE Changes
  BY <1>8, ChangeInv
<1>10. CASE ChangedUpload \/ UploadVanishes
  BY <1>10, ChangedInv
<1>9. CASE UNCHANGED vars
  <2>1. TypeOK /\ NeverTorn /\ NothingUnconnected /\ Sourced
    BY DEF TransferInv
  <2>2. TypeOK'
    BY <1>9, <2>1 DEF vars, engineVars, sessionVars, serverVars, countVars, ghostVars,
      TypeOK, EngineTypeOK, SessionTypeOK, ServerTypeOK, CountTypeOK
  <2>3. NeverTorn' /\ NothingUnconnected'
    BY <1>9, <2>1 DEF vars, engineVars, serverVars, NeverTorn, NothingUnconnected
  <2>4. Sourced'
    <3>1. \A source : MsgsOf(source)' = MsgsOf(source)
      BY DEF MsgsOf, ServerMsgs, PageTypes
    <3> QED
      BY <1>9, <2>1, <3>1
      DEF vars, engineVars, serverVars, Sourced, OneSource, SendingFrom, DownloadsFrom
  <2> QED
    BY <2>2, <2>3, <2>4 DEF TransferInv
<1> QED
  BY <1>1, <1>2, <1>3, <1>4, <1>5, <1>6, <1>7, <1>8, <1>9, <1>10 DEF Next

\* On a connection, a session id stands for one content: at the server, in
\* flight and in active_downloads (handle_chunk_download_start, reset).
THEOREM TransferInvariant == Spec => []TransferInv
<1>1. Init => TransferInv
  BY TransferInit
<1>2. TransferInv /\ [Next]_vars => TransferInv'
  BY TransferStep
<1> QED
  BY <1>1, <1>2, PTL DEF Spec

\* Every reachable state of a file sync has the declared types.
THEOREM TypeCorrect == Spec => []TypeOK
<1>1. TransferInv => TypeOK
  BY DEF TransferInv
<1> QED
  BY <1>1, TransferInvariant, PTL

\* No file is ever put together from the chunks of different contents
\* (handle_binary_chunk, add_chunk), however many downloads overlap, fail or
\* are cut off.
THEOREM DownloadsNeverMix == Spec => []NeverTorn
<1>1. TransferInv => NeverTorn
  BY DEF TransferInv
<1> QED
  BY <1>1, TransferInvariant, PTL
---------------------------------------------------------------------------
(* Queues: the messages in them, and how many there are of some types.     *)

\* The messages of a queue.
Said(q) == { q[i] : i \in 1..Len(q) }

\* How many of them are of one of the types.
At(q, types) == { i \in 1..Len(q) : q[i].type \in types }
Number(q, types) == Cardinality(At(q, types))

\* No two chunks of a queue are the same.
Distinct(q) ==
    \A i, j \in 1..Len(q) : q[i].type = "Chunk" /\ q[i] = q[j] => i = j

\* Taking a message off a queue shifts the others by one.
LEMMA TailShift ==
    ASSUME NEW S, NEW q \in Seq(S), q # <<>>
    PROVE  /\ Tail(q) \in Seq(S) /\ Head(q) = q[1] /\ Head(q) \in S
           /\ Len(q) \in Nat \ {0} /\ Len(Tail(q)) = Len(q) - 1
           /\ \A i \in 1..Len(Tail(q)) : i \in Nat /\ i + 1 \in 1..Len(q) /\ i + 1 # 1
                                         /\ Tail(q)[i] = q[i + 1]
           /\ \A i \in 1..Len(q) : i # 1 => i - 1 \in 1..Len(Tail(q))
                                            /\ Tail(q)[i - 1] = q[i]
<1> DEFINE t == Tail(q)
<1>1. /\ t \in Seq(S) /\ Head(q) = q[1] /\ Head(q) \in S
      /\ Len(q) \in Nat \ {0} /\ Len(t) = Len(q) - 1
      /\ \A i \in 1..Len(t) : t[i] = q[i + 1]
  OBVIOUS
<1> HIDE DEF t
<1>2. \A i \in 1..Len(t) : i \in Nat /\ i + 1 \in 1..Len(q) /\ i + 1 # 1
  BY <1>1
<1>3. \A i \in 1..Len(q) : i # 1 => i - 1 \in 1..Len(t) /\ (i - 1) + 1 = i
  BY <1>1
<1>4. \A i \in 1..Len(q) : i # 1 => t[i - 1] = q[i]
  BY <1>1, <1>3
<1> QED
  BY <1>1, <1>2, <1>3, <1>4 DEF t

\* What is taken off a queue, and what is left.
LEMMA SaidTail ==
    ASSUME NEW S, NEW q \in Seq(S), q # <<>>
    PROVE  /\ Said(q) = {Head(q)} \cup Said(Tail(q))
           /\ Distinct(q) => /\ Distinct(Tail(q))
                             /\ Head(q).type = "Chunk" => Head(q) \notin Said(Tail(q))
<1> DEFINE t == Tail(q)
<1>1. /\ Head(q) = q[1] /\ 1 \in 1..Len(q)
      /\ \A i \in 1..Len(t) : i \in Nat /\ i + 1 \in 1..Len(q) /\ i + 1 # 1 /\ t[i] = q[i + 1]
      /\ \A i \in 1..Len(q) : i # 1 => i - 1 \in 1..Len(t) /\ t[i - 1] = q[i]
  BY TailShift
<1> HIDE DEF t
<1>2. Said(q) = {Head(q)} \cup Said(t)
  <2>1. Head(q) \in Said(q) /\ \A i \in 1..Len(t) : t[i] \in Said(q)
    BY <1>1 DEF Said
  <2>2. \A i \in 1..Len(q) : q[i] = Head(q) \/ \E k \in 1..Len(t) : q[i] = t[k]
    BY <1>1
  <2> QED
    BY <2>1, <2>2 DEF Said
<1>3. ASSUME Distinct(q) PROVE Distinct(t)
  <2> SUFFICES ASSUME NEW i \in 1..Len(t), NEW j \in 1..Len(t), t[i].type = "Chunk",
                      t[i] = t[j]
               PROVE  i = j
    BY DEF Distinct
  <2>1. /\ i + 1 \in 1..Len(q) /\ j + 1 \in 1..Len(q) /\ i \in Nat /\ j \in Nat
        /\ q[i + 1].type = "Chunk" /\ q[i + 1] = q[j + 1]
    BY <1>1
  <2>2. i + 1 = j + 1
    BY <1>3, <2>1 DEF Distinct
  <2> QED
    BY <2>1, <2>2
<1>4. ASSUME Distinct(q), Head(q).type = "Chunk" PROVE Head(q) \notin Said(t)
  BY <1>1, <1>4 DEF Distinct, Said
<1> QED
  BY <1>2, <1>3, <1>4 DEF t

\* What is added to a queue.
LEMMA SaidAppend ==
    ASSUME NEW S, NEW q \in Seq(S), NEW m \in S
    PROVE  /\ Said(Append(q, m)) = Said(q) \cup {m}
           /\ Distinct(q) /\ (m.type = "Chunk" => m \notin Said(q)) => Distinct(Append(q, m))
<1> DEFINE t == Append(q, m)
<1>1. /\ Len(t) = Len(q) + 1 /\ t[Len(q) + 1] = m /\ Len(q) \in Nat
      /\ \A i \in 1..Len(q) : t[i] = q[i]
  OBVIOUS
<1> HIDE DEF t
<1>2. 1..Len(t) = 1..Len(q) \cup {Len(q) + 1}
  BY <1>1
<1>3. Said(t) = Said(q) \cup {m}
  BY <1>1, <1>2 DEF Said
<1>4. ASSUME Distinct(q), m.type = "Chunk" => m \notin Said(q) PROVE Distinct(t)
  BY <1>1, <1>2, <1>4 DEF Distinct, Said
<1> QED
  BY <1>3, <1>4 DEF t

\* It is a number, and zero when there is none.
LEMMA NumberType ==
    ASSUME NEW S, NEW q \in Seq(S), NEW types
    PROVE  /\ IsFiniteSet(At(q, types)) /\ Number(q, types) \in Nat
           /\ Number(q, types) = 0 <=> \A m \in Said(q) : m.type \notin types
<1>1. IsFiniteSet(1..Len(q)) /\ At(q, types) \in SUBSET (1..Len(q))
  BY FS_Interval DEF At
<1>2. IsFiniteSet(At(q, types))
  BY <1>1, FS_Subset
<1>3. Number(q, types) \in Nat /\ (Number(q, types) = 0 <=> At(q, types) = {})
  BY <1>2, FS_CardinalityType, FS_EmptySet DEF Number
<1>4. At(q, types) = {} <=> \A m \in Said(q) : m.type \notin types
  BY DEF At, Said
<1> QED
  BY <1>2, <1>3, <1>4

\* What is taken off is one less, if it is of these types.
LEMMA NumberTail ==
    ASSUME NEW S, NEW q \in Seq(S), q # <<>>, NEW types
    PROVE  Number(Tail(q), types) =
              IF Head(q).type \in types THEN Number(q, types) - 1 ELSE Number(q, types)
<1> DEFINE t == Tail(q)
           old == At(q, types) \ {1}
           new == At(t, types)
           shift == [i \in new |-> i + 1]
<1>1. /\ Head(q) = q[1] /\ 1 \in 1..Len(q) /\ t \in Seq(S)
      /\ \A i \in 1..Len(t) : i \in Nat /\ i + 1 \in 1..Len(q) /\ i + 1 # 1 /\ t[i] = q[i + 1]
      /\ \A i \in 1..Len(q) : i # 1 => i - 1 \in 1..Len(t) /\ t[i - 1] = q[i]
  BY TailShift
<1> HIDE DEF t
<1>2. IsFiniteSet(At(q, types)) /\ IsFiniteSet(new)
  BY <1>1, NumberType
<1>3. shift \in Bijection(new, old)
  <2>1. shift \in [new -> old]
    BY <1>1 DEF At
  <2>2. \A i, j \in new : shift[i] = shift[j] => i = j
    BY <1>1 DEF At
  <2>3. \A k \in old : \E i \in new : shift[i] = k
    <3> TAKE k \in old
    <3>1. k - 1 \in new /\ (k - 1) + 1 = k
      BY <1>1 DEF At
    <3> QED
      BY <3>1
  <2> QED
    BY <2>1, <2>2, <2>3 DEF Bijection, Injection, Surjection, IsInjective
<1>4. Cardinality(old) = Cardinality(new)
  BY <1>2, <1>3, FS_Bijection DEF ExistsBijection
<1>5. Cardinality(old) = IF 1 \in At(q, types) THEN Cardinality(At(q, types)) - 1
                                               ELSE Cardinality(At(q, types))
  BY <1>2, FS_RemoveElement
<1>6. 1 \in At(q, types) <=> Head(q).type \in types
  BY <1>1 DEF At
<1> QED
  BY <1>4, <1>5, <1>6 DEF Number, t

\* What is added is one more, if it is of these types.
LEMMA NumberAppend ==
    ASSUME NEW S, NEW q \in Seq(S), NEW m \in S, NEW types
    PROVE  Number(Append(q, m), types) =
              IF m.type \in types THEN Number(q, types) + 1 ELSE Number(q, types)
<1> DEFINE t == Append(q, m)
           n == Len(q) + 1
<1>1. /\ Len(t) = n /\ t[n] = m /\ n \in Nat \ {0} /\ Len(q) = n - 1
      /\ \A i \in 1..Len(q) : t[i] = q[i]
  OBVIOUS
<1> HIDE DEF t, n
<1>2. IsFiniteSet(At(q, types)) /\ n \notin At(q, types)
  <2>1. IsFiniteSet(At(q, types))
    BY NumberType
  <2> QED
    BY <1>1, <2>1 DEF At
<1>3. At(t, types) = IF m.type \in types THEN At(q, types) \cup {n} ELSE At(q, types)
  <2>1. 1..Len(t) = 1..Len(q) \cup {n}
    BY <1>1
  <2> QED
    BY <1>1, <2>1 DEF At
<1> QED
  BY <1>2, <1>3, FS_AddElement DEF Number, t
---------------------------------------------------------------------------
(* Chunks: each is sent, and put into its download, once.                  *)

\* A chunk is still at the server, or in flight, or in its download.
ChunksOnce ==
    /\ Distinct(toClient)
    /\ \A s, t \in sending : s.id = t.id => s = t
    /\ \A d, e \in downloads : d.id = e.id => d = e
    /\ \A t \in sending : t.left # {}
    /\ \A m \in Said(toClient), t \in sending :
          m.type = "Chunk" /\ m.id = t.id => m.index \notin t.left
    /\ \A d \in downloads : \A c \in d.chunks :
          /\ \A m \in Said(toClient) : m.type = "Chunk" /\ m.id = d.id => m.index # c.index
          /\ \A t \in sending : t.id = d.id => c.index \notin t.left

\* The download of a session is active, or its start is in flight.
Awaited(id) ==
    \/ \E d \in downloads : d.id = id
    \/ \E m \in Said(toClient) : m.type = "FileSyncChunkDownload" /\ m.id = id

\* No chunk is without a download to put it into.
ChunksAwaited ==
    /\ \A t \in sending : Awaited(t.id)
    /\ \A m \in Said(toClient) : m.type = "Chunk" => Awaited(m.id)

\* All that is kept of the chunks.
ChunksKept == ChunksOnce /\ ChunksAwaited /\ IsFiniteSet(downloads)

\* What a connection's source of contents says of single messages.
LEMMA SaidSource ==
    ASSUME TransferInv, NEW source \in [0..nextId - 1 -> Contents], OneSource(source)
    PROVE  /\ nextId \in Nat /\ Said(toClient) \subseteq ServerMsgs
           /\ \A m \in Said(toClient) :
                 m.type = "Chunk" =>
                    /\ m.id \in 0..nextId - 1 /\ m.index \in Nat
                    /\ m.index \in 0..ChunkCount[source[m.id]] - 1
                    /\ m = [type |-> "Chunk", id |-> m.id, index |-> m.index,
                            data |-> source[m.id]]
           /\ \A m \in Said(toClient) :
                 m.type = "FileSyncChunkDownload" =>
                    m.id \in 0..nextId - 1 /\ m.count = ChunkCount[source[m.id]]
           /\ \A t \in sending :
                 /\ t \in [id : Nat, data : Contents, left : SUBSET Nat]
                 /\ t.id \in 0..nextId - 1 /\ t.data = source[t.id]
                 /\ t.left \subseteq 0..ChunkCount[source[t.id]] - 1
           /\ \A d \in downloads :
                 /\ d \in [id : Nat, path : Files, count : Nat \ {0}, chunks : SUBSET Chunks]
                 /\ d.id \in 0..nextId - 1 /\ d.count = ChunkCount[source[d.id]]
                 /\ d.chunks \subseteq [index : 0..d.count - 1, data : {source[d.id]}]
<1>1. TypeOK /\ nextId \in Nat /\ toClient \in Seq(MsgsOf(source))
  BY DEF TransferInv, TypeOK, ServerTypeOK, OneSource
<1>2. Said(toClient) \subseteq MsgsOf(source)
  BY <1>1 DEF Said
<1>3. \A m \in MsgsOf(source) :
         /\ m \in ServerMsgs
         /\ m.type = "Chunk" =>
               /\ m.id \in 0..nextId - 1 /\ m.index \in Nat
               /\ m.data = source[m.id] /\ m.index < ChunkCount[source[m.id]]
         /\ m.type = "FileSyncChunkDownload" =>
               m.id \in 0..nextId - 1 /\ m.count = ChunkCount[source[m.id]]
  BY DEF MsgsOf, ServerMsgs, PageTypes
<1>4. ASSUME NEW m \in MsgsOf(source), m.type = "Chunk"
      PROVE  /\ m.index \in 0..ChunkCount[source[m.id]] - 1
             /\ m = [type |-> "Chunk", id |-> m.id, index |-> m.index,
                     data |-> source[m.id]]
  <2>1. ChunkCount[source[m.id]] \in Nat
    BY <1>3, <1>4, ChunkCountType
  <2>2. m \in [type : {"Chunk"}, id : Nat, index : Nat, data : Contents]
    BY <1>4 DEF MsgsOf, ServerMsgs, PageTypes
  <2> QED
    BY <1>3, <1>4, <2>1, <2>2
<1>5. \A t \in sending :
         /\ t \in [id : Nat, data : Contents, left : SUBSET Nat]
         /\ t.id \in 0..nextId - 1 /\ t.data = source[t.id]
         /\ t.left \subseteq 0..ChunkCount[source[t.id]] - 1
  BY <1>1 DEF TypeOK, ServerTypeOK, OneSource, SendingFrom
<1>6. \A d \in downloads :
         /\ d \in [id : Nat, path : Files, count : Nat \ {0}, chunks : SUBSET Chunks]
         /\ d.id \in 0..nextId - 1 /\ d.count = ChunkCount[source[d.id]]
         /\ d.chunks \subseteq [index : 0..d.count - 1, data : {source[d.id]}]
  BY <1>1 DEF TypeOK, EngineTypeOK, OneSource, DownloadsFrom
<1> QED
  BY <1>1, <1>2, <1>3, <1>4, <1>5, <1>6

\* Any other message can be sent.
LEMMA ChunksOtherSent ==
    ASSUME TypeOK, ChunksKept, sending' = sending, downloads' = downloads,
           \/ toClient' = toClient
           \/ \E m \in ServerMsgs : m.type # "Chunk" /\ toClient' = Append(toClient, m)
    PROVE  ChunksKept'
<1>1. CASE toClient' = toClient
  BY <1>1 DEF ChunksKept, ChunksOnce, ChunksAwaited, Awaited
<1>2. ASSUME NEW m \in ServerMsgs, m.type # "Chunk", toClient' = Append(toClient, m)
      PROVE  ChunksKept'
  <2>1. Said(toClient') = Said(toClient) \cup {m} /\ (Distinct(toClient) => Distinct(toClient'))
    BY <1>2, SaidAppend DEF TypeOK
  <2>2. ChunksOnce'
    BY <1>2, <2>1 DEF ChunksKept, ChunksOnce
  <2>3. ChunksAwaited'
    BY <1>2, <2>1 DEF ChunksKept, ChunksAwaited, Awaited
  <2> QED
    BY <2>2, <2>3 DEF ChunksKept
<1> QED
  BY <1>1, <1>2

\* Any other message can be taken.
LEMMA ChunksOtherTaken ==
    ASSUME TypeOK, ChunksKept, sending' = sending, downloads' = downloads,
           toClient # <<>>, toClient' = Tail(toClient),
           Head(toClient).type # "FileSyncChunkDownload"
    PROVE  ChunksKept'
<1>1. /\ Said(toClient) = {Head(toClient)} \cup Said(toClient')
      /\ Distinct(toClient) => Distinct(toClient')
  BY SaidTail DEF TypeOK
<1>2. ChunksOnce'
  BY <1>1 DEF ChunksKept, ChunksOnce
<1>3. ChunksAwaited'
  BY <1>1 DEF ChunksKept, ChunksAwaited, Awaited
<1> QED
  BY <1>2, <1>3 DEF ChunksKept

\* A download starts at the server, under an id not used yet.
LEMMA ChunksNewSession ==
    ASSUME TransferInv, ChunksKept, ServerStartsDownload
    PROVE  ChunksKept'
<1> DEFINE f == Head(toServer).path
           count == ChunkCount[srv[f]]
           msg == [type |-> "FileSyncChunkDownload", id |-> nextId, path |-> f,
                   count |-> count]
           new == [id |-> nextId, data |-> srv[f], left |-> 0..count - 1]
<1>1. FromClient("FileChunkDownload") /\ downloads' = downloads
  BY DEF ServerStartsDownload, FromClient
<1>2. TypeOK /\ phase # "idle" /\ Head(toServer) \in ClientMsgs
      /\ Head(toServer).type = "FileChunkDownload"
  BY <1>1, FromClientInv DEF TransferInv
<1>3. PICK source \in [0..nextId - 1 -> Contents] : OneSource(source)
  BY <1>2 DEF TransferInv, Sourced
<1>4. f \in Files
  BY <1>2 DEF ClientMsgs
<1>5. CASE srv[f] = Absent
  BY <1>1, <1>2, <1>5, ChunksOtherSent DEF ServerStartsDownload
<1>6. CASE srv[f] # Absent
  <2>1. /\ toClient' = Append(toClient, msg)
        /\ sending' = IF count = 0 THEN sending ELSE sending \cup {new}
    BY <1>6 DEF ServerStartsDownload
  <2>2. srv[f] \in Contents /\ nextId \in Nat
    BY <1>2, <1>4, <1>6 DEF TypeOK, ServerTypeOK
  <2>3. count \in Nat
    BY <2>2, ChunkCountType
  <2>4. count # 0 => new.left # {}
    BY <2>3
  <2> HIDE DEF f
  <2>5. msg \in ServerMsgs /\ msg.type = "FileSyncChunkDownload" /\ msg.id = nextId
    BY <1>4, <2>2, <2>3 DEF ServerMsgs
  <2>6. new.id = nextId
    OBVIOUS
  <2> HIDE DEF msg, new, count
  <2>7. /\ Said(toClient') = Said(toClient) \cup {msg}
        /\ Distinct(toClient) => Distinct(toClient')
    BY <1>2, <2>1, <2>5, SaidAppend DEF TypeOK
  <2>8. /\ \A m \in Said(toClient) : m.type = "Chunk" => m.id # nextId
        /\ \A t \in sending : t.id # nextId
        /\ \A d \in downloads : d.id # nextId
    BY <1>3, <2>2, SaidSource
  <2>9. ChunksOnce'
    <3>1. Distinct(toClient')
      BY <2>7 DEF ChunksKept, ChunksOnce
    <3>2. \A s, t \in sending' : s.id = t.id => s = t
      BY <2>1, <2>6, <2>8 DEF ChunksKept, ChunksOnce
    <3>3. \A t \in sending' : t.left # {}
      BY <2>1, <2>4 DEF ChunksKept, ChunksOnce
    <3>4. \A m \in Said(toClient'), t \in sending' :
             m.type = "Chunk" /\ m.id = t.id => m.index \notin t.left
      BY <2>1, <2>5, <2>6, <2>7, <2>8 DEF ChunksKept, ChunksOnce
    <3>5. \A d \in downloads : \A c \in d.chunks :
             /\ \A m \in Said(toClient') : m.type = "Chunk" /\ m.id = d.id => m.index # c.index
             /\ \A t \in sending' : t.id = d.id => c.index \notin t.left
      BY <2>1, <2>5, <2>6, <2>7, <2>8 DEF ChunksKept, ChunksOnce
    <3> QED
      BY <1>1, <3>1, <3>2, <3>3, <3>4, <3>5 DEF ChunksKept, ChunksOnce
  <2>10. ChunksAwaited'
    BY <1>1, <2>1, <2>5, <2>6, <2>7 DEF ChunksKept, ChunksAwaited, Awaited
  <2> QED
    BY <1>1, <2>9, <2>10 DEF ChunksKept
<1> QED
  BY <1>5, <1>6

\* A chunk leaves the server.
LEMMA ChunksSent ==
    ASSUME TransferInv, ChunksKept, ServerSendsChunk
    PROVE  ChunksKept'
<1> DEFINE Sends(t, i) ==
              /\ toClient' = Append(toClient, [type |-> "Chunk", id |-> t.id,
                                               index |-> i, data |-> t.data])
              /\ sending' = (sending \ {t}) \cup
                            IF t.left = {i} THEN {} ELSE { [t EXCEPT !.left = @ \ {i}] }
              /\ downloads' = downloads
<1>1. PICK t \in sending : \E i \in t.left : Sends(t, i)
  BY DEF ServerSendsChunk, engineVars
<1>2. PICK i \in t.left : Sends(t, i)
  BY <1>1
<1> DEFINE msg == [type |-> "Chunk", id |-> t.id, index |-> i, data |-> t.data]
           rest == [t EXCEPT !.left = @ \ {i}]
<1>3. TypeOK /\ phase # "idle"
  BY DEF TransferInv, NothingUnconnected
<1>4. PICK source \in [0..nextId - 1 -> Contents] : OneSource(source)
  BY <1>3 DEF TransferInv, Sourced
<1>5. t \in [id : Nat, data : Contents, left : SUBSET Nat]
  BY <1>4, SaidSource
<1>6. /\ rest.id = t.id /\ rest.left = t.left \ {i}
      /\ sending' = (sending \ {t}) \cup IF t.left = {i} THEN {} ELSE {rest}
  BY <1>2, <1>5
<1>7. /\ msg.type = "Chunk" /\ msg.id = t.id /\ msg.index = i /\ msg \in ServerMsgs
      /\ toClient' = Append(toClient, msg)
  BY <1>2, <1>5 DEF ServerMsgs
<1> HIDE DEF msg, rest
<1>8. msg \notin Said(toClient)
  BY <1>7 DEF ChunksKept, ChunksOnce
<1>9. Said(toClient') = Said(toClient) \cup {msg} /\ Distinct(toClient')
  BY <1>3, <1>7, <1>8, SaidAppend DEF TypeOK, ChunksKept, ChunksOnce
<1>10. \A s \in sending' : \/ s \in sending /\ s.id # t.id
                           \/ s = rest /\ t.left # {i}
  BY <1>6 DEF ChunksKept, ChunksOnce
<1>11. ChunksOnce'
  <2>1. \A s, u \in sending' : s.id = u.id => s = u
    BY <1>6, <1>10 DEF ChunksKept, ChunksOnce
  <2>2. \A s \in sending' : s.left # {}
    BY <1>6, <1>10 DEF ChunksKept, ChunksOnce
  <2>3. \A m \in Said(toClient'), s \in sending' :
           m.type = "Chunk" /\ m.id = s.id => m.index \notin s.left
    BY <1>6, <1>7, <1>9, <1>10 DEF ChunksKept, ChunksOnce
  <2>4. \A d \in downloads : \A c \in d.chunks :
           /\ \A m \in Said(toClient') : m.type = "Chunk" /\ m.id = d.id => m.index # c.index
           /\ \A s \in sending' : s.id = d.id => c.index \notin s.left
    BY <1>6, <1>7, <1>9, <1>10 DEF ChunksKept, ChunksOnce
  <2> QED
    BY <1>2, <1>9, <2>1, <2>2, <2>3, <2>4 DEF ChunksKept, ChunksOnce
<1>12. ChunksAwaited'
  BY <1>2, <1>6, <1>7, <1>9, <1>10 DEF ChunksKept, ChunksAwaited, Awaited
<1> QED
  BY <1>2, <1>11, <1>12 DEF ChunksKept

\* A download starts at the client.
LEMMA ChunksStarted ==
    ASSUME TransferInv, ChunksKept, phase # "idle", sending' = sending,
           toClient # <<>>, toClient' = Tail(toClient), NEW m, m = Head(toClient),
           m.type = "FileSyncChunkDownload",
           HandleChunkDownloadStart(m.id, m.path, m.count)
    PROVE  ChunksKept'
<1>1. TypeOK
  BY DEF TransferInv
<1>2. PICK source \in [0..nextId - 1 -> Contents] : OneSource(source)
  BY DEF TransferInv, Sourced
<1>3. /\ Said(toClient) = {m} \cup Said(toClient')
      /\ Distinct(toClient')
  BY <1>1, SaidTail DEF TypeOK, ChunksKept, ChunksOnce
<1>4. m.count = ChunkCount[source[m.id]] /\ m.count \in Nat
  BY <1>1, <1>2, <1>3, SaidSource, HeadType
<1>5. CASE m.count = 0
  <2>1. downloads' = downloads
    BY <1>5 DEF HandleChunkDownloadStart
  <2> DEFINE Indices(id) == 0..ChunkCount[source[id]] - 1
  <2>2. Indices(m.id) = {}
    BY <1>4, <1>5
  <2>3. /\ \A t \in sending : t.left \subseteq Indices(t.id)
        /\ \A n \in Said(toClient) : n.type = "Chunk" => n.index \in Indices(n.id)
    BY <1>2, SaidSource
  <2> HIDE DEF Indices
  <2>4. \A t \in sending : t.id # m.id
    BY <2>2, <2>3 DEF ChunksKept, ChunksOnce
  <2>5. \A n \in Said(toClient) : n.type = "Chunk" => n.id # m.id
    BY <2>2, <2>3
  <2>6. ChunksOnce'
    BY <1>3, <2>1 DEF ChunksKept, ChunksOnce
  <2>7. ChunksAwaited'
    BY <1>3, <2>1, <2>4, <2>5 DEF ChunksKept, ChunksAwaited, Awaited
  <2> QED
    BY <2>1, <2>6, <2>7 DEF ChunksKept
<1>6. CASE m.count # 0
  <2> DEFINE others == { d \in downloads : d.id # m.id }
             new == [id |-> m.id, path |-> m.path, count |-> m.count, chunks |-> {}]
  <2>1. downloads' = others \cup {new} /\ new.id = m.id /\ new.chunks = {}
    BY <1>6 DEF HandleChunkDownloadStart, Started
  <2>2. IsFiniteSet(downloads')
    <3>1. others \in SUBSET downloads /\ IsFiniteSet(downloads)
      BY DEF ChunksKept
    <3>2. IsFiniteSet(others)
      BY <3>1, FS_Subset
    <3> HIDE DEF others, new
    <3> QED
      BY <2>1, <3>2, FS_AddElement
  <2> HIDE DEF new
  <2>3. ChunksOnce'
    <3>1. \A d, e \in downloads' : d.id = e.id => d = e
      BY <2>1 DEF ChunksKept, ChunksOnce
    <3>2. \A d \in downloads' : \A c \in d.chunks : d \in downloads
      BY <2>1
    <3> HIDE DEF others
    <3> QED
      BY <1>3, <3>1, <3>2 DEF ChunksKept, ChunksOnce
  <2>4. \A d \in downloads : \E e \in downloads' : d.id = e.id
    BY <2>1
  <2>5. ChunksAwaited'
    BY <1>3, <2>1, <2>4 DEF ChunksKept, ChunksAwaited, Awaited
  <2> QED
    BY <2>2, <2>3, <2>5 DEF ChunksKept
<1> QED
  BY <1>5, <1>6

\* When a download has as many chunks as it has indices, it has them all.
LEMMA AllThere ==
    ASSUME NEW c, NEW n \in Nat,
           NEW chunks \in SUBSET [index : 0..n - 1, data : {c}],
           IsComplete(chunks, n)
    PROVE  chunks = [index : 0..n - 1, data : {c}]
<1> DEFINE All == [index : 0..n - 1, data : {c}]
<1>1. IsFiniteSet(All) /\ Cardinality(All) = n
  BY AllChunks
<1> chunks \in SUBSET All
  OBVIOUS
<1> HIDE DEF All
<1>2. /\ Cardinality(chunks) <= n /\ (Cardinality(chunks) = n => chunks = All)
      /\ IsFiniteSet(chunks)
  BY <1>1, FS_Subset
<1>3. Cardinality(chunks) \in Nat
  BY <1>2, FS_CardinalityType
<1>4. Cardinality(chunks) = n
  BY <1>2, <1>3 DEF IsComplete
<1> QED
  BY <1>2, <1>4 DEF All

\* A chunk arrives: when it is the last one of its download, no other chunk of
\* that session is left at the server or in flight.
LEMMA ChunksArrive ==
    ASSUME TransferInv, ChunksKept, phase # "idle", sending' = sending,
           toClient # <<>>, toClient' = Tail(toClient), NEW m, m = Head(toClient),
           m.type = "Chunk", HandleBinaryChunk(m.id, m.index, m.data)
    PROVE  ChunksKept'
<1>1. TypeOK
  BY DEF TransferInv
<1>2. PICK source \in [0..nextId - 1 -> Contents] : OneSource(source)
  BY DEF TransferInv, Sourced
<1>3. /\ Said(toClient) = {m} \cup Said(toClient')
      /\ Distinct(toClient') /\ m \notin Said(toClient')
  BY <1>1, SaidTail DEF TypeOK, ChunksKept, ChunksOnce
<1>4. /\ m.data = source[m.id] /\ m.index \in Nat
      /\ \A n \in Said(toClient') : n.type = "Chunk" /\ n.id = m.id => n.index # m.index
  <2> DEFINE ChunkOf(id, i) == [type |-> "Chunk", id |-> id, index |-> i,
                                data |-> source[id]]
  <2>1. \A n \in Said(toClient) : n.type = "Chunk" => n = ChunkOf(n.id, n.index) /\ n.index \in Nat
    BY <1>2, SaidSource
  <2>2. m = ChunkOf(m.id, m.index) /\ m.index \in Nat
    BY <1>3, <2>1
  <2>3. m.data = source[m.id]
    BY <2>2
  <2> HIDE DEF ChunkOf
  <2> QED
    BY <1>3, <2>1, <2>2, <2>3
<1>5. \A d \in downloads :
         /\ d \in [id : Nat, path : Files, count : Nat \ {0}, chunks : SUBSET Chunks]
         /\ d.count = ChunkCount[source[d.id]]
         /\ d.chunks \subseteq [index : 0..d.count - 1, data : {source[d.id]}]
  BY <1>2, SaidSource
<1>6. CASE downloads' = downloads /\ \A d \in downloads : d.id # m.id
  <2>1. ChunksOnce'
    BY <1>3, <1>6 DEF ChunksKept, ChunksOnce
  <2>2. ChunksAwaited'
    BY <1>3, <1>6 DEF ChunksKept, ChunksAwaited, Awaited
  <2> QED
    BY <1>6, <2>1, <2>2 DEF ChunksKept
<1>7. ASSUME NEW d \in downloads, d.id = m.id,
             downloads' = (downloads \ {d})
                     \cup { [d EXCEPT !.chunks = WithChunk(@, m.index, m.data)] }
      PROVE  ChunksKept'
  <2> DEFINE more == [d EXCEPT !.chunks = WithChunk(@, m.index, m.data)]
  <2>1. /\ downloads' = (downloads \ {d}) \cup {more}
        /\ more.id = m.id /\ more.chunks = WithChunk(d.chunks, m.index, m.data)
    BY <1>5, <1>7
  <2> HIDE DEF more
  <2>2. \A c \in more.chunks : c \in d.chunks \/ c.index = m.index
    BY <2>1 DEF WithChunk
  <2>3. IsFiniteSet(downloads')
    <3>1. IsFiniteSet(downloads \ {d})
      BY FS_RemoveElement DEF ChunksKept
    <3> QED
      BY <2>1, <3>1, FS_AddElement
  <2>4. ChunksOnce'
    <3>1. \A e, g \in downloads' : e.id = g.id => e = g
      BY <1>7, <2>1 DEF ChunksKept, ChunksOnce
    <3>2. \A t \in sending : t.id = m.id => m.index \notin t.left
      BY <1>3 DEF ChunksKept, ChunksOnce
    <3>3. \A e \in downloads' : \A c \in e.chunks :
             /\ \A n \in Said(toClient') : n.type = "Chunk" /\ n.id = e.id => n.index # c.index
             /\ \A t \in sending : t.id = e.id => c.index \notin t.left
      <4>1. ASSUME NEW c \in more.chunks
            PROVE  /\ \A n \in Said(toClient') :
                         n.type = "Chunk" /\ n.id = m.id => n.index # c.index
                   /\ \A t \in sending : t.id = m.id => c.index \notin t.left
        BY <1>3, <1>4, <1>7, <2>2, <3>2, <4>1 DEF ChunksKept, ChunksOnce
      <4>2. ASSUME NEW e \in downloads, NEW c \in e.chunks
            PROVE  /\ \A n \in Said(toClient') :
                         n.type = "Chunk" /\ n.id = e.id => n.index # c.index
                   /\ \A t \in sending : t.id = e.id => c.index \notin t.left
        BY <1>3, <4>2 DEF ChunksKept, ChunksOnce
      <4> QED
        BY <2>1, <4>1, <4>2
    <3> QED
      BY <1>3, <3>1, <3>3 DEF ChunksKept, ChunksOnce
  <2>5. \A e \in downloads : \E g \in downloads' : e.id = g.id
    BY <1>7, <2>1
  <2>6. ChunksAwaited'
    BY <1>3, <2>5 DEF ChunksKept, ChunksAwaited, Awaited
  <2> QED
    BY <2>3, <2>4, <2>6 DEF ChunksKept
<1>8. ASSUME NEW d \in downloads, d.id = m.id, Completes(d, m.index, m.data),
             downloads' = downloads \ {d}
      PROVE  ChunksKept'
  <2> DEFINE after == WithChunk(d.chunks, m.index, m.data)
  <2>1. m.index \in 0..d.count - 1 /\ d.count \in Nat
    <3>1. m.index \in 0..ChunkCount[source[m.id]] - 1
      BY <1>2, <1>3, SaidSource
    <3>2. d.count \in Nat /\ d.count = ChunkCount[source[m.id]]
      BY <1>5, <1>8
    <3> QED
      BY <3>1, <3>2
  <2>2. after \in SUBSET [index : 0..d.count - 1, data : {m.data}]
    BY <1>4, <1>5, <1>8, <2>1, AddChunk
  <2>3. after = [index : 0..d.count - 1, data : {m.data}]
    BY <1>8, <2>1, <2>2, AllThere DEF Completes
  <2>4. ASSUME NEW k \in 0..d.count - 1
        PROVE  k = m.index \/ \E c \in d.chunks : c.index = k
    <3>1. [index |-> k, data |-> m.data] \in after
      BY <2>3
    <3> QED
      BY <3>1 DEF WithChunk
  <2> HIDE DEF after
  <2>5. \A n \in Said(toClient') : n.type = "Chunk" => n.id # m.id
    <3> SUFFICES ASSUME NEW n \in Said(toClient'), n.type = "Chunk", n.id = m.id
                 PROVE  FALSE
      OBVIOUS
    <3>1. n.index # m.index
      BY <1>4
    <3>2. n.index \in 0..ChunkCount[source[n.id]] - 1
      BY <1>2, <1>3, SaidSource
    <3>3. n.index \in 0..d.count - 1
      BY <1>5, <1>8, <3>2
    <3> QED
      BY <1>3, <1>8, <2>4, <3>1, <3>3 DEF ChunksKept, ChunksOnce
  <2>6. \A t \in sending : t.id # m.id
    <3> SUFFICES ASSUME NEW t \in sending, t.id = m.id PROVE FALSE
      OBVIOUS
    <3>1. t.left # {} /\ t.left \subseteq 0..d.count - 1
      <4>1. t.left \subseteq 0..ChunkCount[source[t.id]] - 1
        BY <1>2, SaidSource
      <4>2. t.left # {}
        BY DEF ChunksKept, ChunksOnce
      <4> QED
        BY <1>5, <1>8, <4>1, <4>2
    <3>2. PICK k \in t.left : k \in 0..d.count - 1
      BY <3>1
    <3> QED
      BY <1>3, <1>8, <2>4, <3>2 DEF ChunksKept, ChunksOnce
  <2>7. IsFiniteSet(downloads')
    BY <1>8, FS_RemoveElement DEF ChunksKept
  <2>8. ChunksOnce'
    BY <1>3, <1>8 DEF ChunksKept, ChunksOnce
  <2>9. ChunksAwaited'
    BY <1>3, <1>8, <2>5, <2>6 DEF ChunksKept, ChunksAwaited, Awaited
  <2> QED
    BY <2>7, <2>8, <2>9 DEF ChunksKept
<1> QED
  BY <1>6, <1>7, <1>8 DEF HandleBinaryChunk, engineVars

\* What the engine does on a message of a page leaves the downloads alone.
LEMMA PageKeepsDownloads ==
    ASSUME NEW m, m.type \in PageTypes, Apply(m)
    PROVE  downloads' = downloads
  BY DEF Apply, PageTypes, HandleSyncUpdate, HandleSyncDelete, HandleSyncRename,
     HandleSyncMtime, HandleUploadSession, Uploading, engineVars

\* The steps of the sync's loop.
LEMMA ClientChunks == TransferInv /\ ChunksKept /\ ClientReceives => ChunksKept'
<1> SUFFICES ASSUME TransferInv, ChunksKept, ClientReceives PROVE ChunksKept'
  OBVIOUS
<1> DEFINE m == Head(toClient)
<1>1. /\ phase = "files" /\ toClient # <<>> /\ toClient' = Tail(toClient)
      /\ sending' = sending /\ TypeOK
  BY DEF ClientReceives, ReceiveDetail, ReceivePage, ReceiveTransfer, ReceiveEnd,
     Receive, Take, serverVars, TransferInv
<1>2. CASE ReceiveDetail
  <2>1. m.type \in PageTypes /\ Apply(m)
    BY <1>2 DEF ReceiveDetail, Receive, Take
  <2>2. downloads' = downloads /\ m.type # "FileSyncChunkDownload"
    BY <2>1, PageKeepsDownloads DEF PageTypes
  <2> QED
    BY <1>1, <2>2, ChunksOtherTaken
<1>3. CASE ReceivePage \/ ReceiveEnd
  <2>1. m.type \in {"FileSyncPage", "FileSyncEnd"} /\ downloads' = downloads
    BY <1>3 DEF ReceivePage, ReceiveEnd, Receive, Take, engineVars
  <2> QED
    BY <1>1, <2>1, ChunksOtherTaken
<1>4. CASE ReceiveTransfer
  <2>1. m.type \in {"FileSyncChunkDownload", "FileUploadAck", "Chunk"} /\ Apply(m)
    BY <1>4 DEF ReceiveTransfer, Receive, Take
  <2>2. CASE m.type = "FileSyncChunkDownload"
    <3>1. HandleChunkDownloadStart(m.id, m.path, m.count)
      BY <2>1, <2>2 DEF Apply
    <3> QED
      BY <1>1, <2>2, <3>1, ChunksStarted
  <2>3. CASE m.type = "Chunk"
    <3>1. HandleBinaryChunk(m.id, m.index, m.data)
      BY <2>1, <2>3 DEF Apply
    <3> QED
      BY <1>1, <2>3, <3>1, ChunksArrive
  <2>4. CASE m.type = "FileUploadAck"
    <3>1. downloads' = downloads
      BY <2>1, <2>4 DEF Apply, HandleUploadAck
    <3> QED
      BY <1>1, <2>4, <3>1, ChunksOtherTaken
  <2> QED
    BY <2>1, <2>2, <2>3, <2>4
<1> QED
  BY <1>2, <1>3, <1>4 DEF ClientReceives

\* What the server puts on a page, and what it sends of it: one finding at a
\* time, under its own type.
LEMMA DetailSent ==
    ASSUME TypeOK, ServerSendsDetail
    PROVE  /\ \E d \in onPage : \E m \in ServerMsgs :
                /\ d \in Findings /\ m \in DetailMsgs(d) /\ m.type = d.type /\ m.path = d.path
                /\ onPage' = onPage \ {d} /\ toClient' = Append(toClient, m)
                /\ nextId' = IF d.type = "FileUpload" THEN nextId + 1 ELSE nextId
           /\ UNCHANGED <<engineVars, phase, sessionVars, toServer, srv, owed, pageNo,
                          sending, countVars, ghostVars>>
<1> DEFINE Sends(d, m) ==
             /\ onPage' = onPage \ {d} /\ toClient' = Append(toClient, m)
             /\ nextId' = IF d.type = "FileUpload" THEN nextId + 1 ELSE nextId
<1>1. PICK d \in onPage : \E m \in DetailMsgs(d) : Sends(d, m)
  BY DEF ServerSendsDetail
<1>2. PICK m \in DetailMsgs(d) : Sends(d, m)
  BY <1>1
<1>3. /\ d \in Findings /\ d.type \in PageTypes \ {"FileSyncRename"} /\ d.path \in Files
      /\ nextId \in Nat /\ srv[d.path] \in Contents \cup {Absent}
  BY DEF TypeOK, ServerTypeOK, Findings
<1>4. m \in ServerMsgs /\ m.type = d.type /\ m.path = d.path
  <2>1. CASE d.type = "FileSyncUpdate"
    <3>1. m \in UpdateMsgs(d.path)
      BY <2>1 DEF DetailMsgs
    <3> QED
      BY <1>3, <2>1, <3>1 DEF UpdateMsgs, ServerMsgs
  <2>2. CASE d.type = "FileUpload"
    <3>1. m = [type |-> "FileUpload", id |-> nextId, path |-> d.path]
      BY <2>2 DEF DetailMsgs
    <3> QED
      BY <1>3, <2>2, <3>1 DEF ServerMsgs
  <2>3. CASE d.type \in {"FileSyncDelete", "FileSyncMtime"}
    <3>1. m = [type |-> d.type, path |-> d.path]
      BY <2>3 DEF DetailMsgs
    <3> QED
      BY <1>3, <2>3, <3>1 DEF ServerMsgs
  <2> QED
    BY <1>3, <2>1, <2>2, <2>3 DEF PageTypes
<1>5. UNCHANGED <<engineVars, phase, sessionVars, toServer, srv, owed, pageNo,
                  sending, countVars, ghostVars>>
  BY DEF ServerSendsDetail
<1> QED
  BY <1>2, <1>3, <1>4, <1>5

\* The page the server starts, if it starts one.
LEMMA PageStarted ==
    ASSUME TypeOK, ServerStartsPage
    PROVE  /\ FromClient("FileSyncPageAck") /\ onPage = {}
           /\ UNCHANGED <<newest, srv, sending, nextId>>
           /\ \/ UNCHANGED <<owed, onPage, pageNo, toClient>>
              \/ /\ onPage' \in SUBSET owed /\ owed' = owed \ onPage'
                 /\ \E m \in ServerMsgs : m.type = "FileSyncPage"
                                          /\ toClient' = Append(toClient, m)
<1>1. /\ FromClient("FileSyncPageAck") /\ onPage = {}
      /\ UNCHANGED <<newest, srv, sending, nextId>>
  BY DEF ServerStartsPage
<1>2. ASSUME NEW batch \in SUBSET owed, onPage' = batch, owed' = owed \ batch,
             pageNo' = pageNo + 1,
             toClient' = Append(toClient,
                    [type |-> "FileSyncPage", index |-> pageNo + 1,
                     total |-> Cardinality(batch), last |-> batch = owed])
      PROVE  /\ onPage' \in SUBSET owed /\ owed' = owed \ onPage'
             /\ \E m \in ServerMsgs : m.type = "FileSyncPage"
                                      /\ toClient' = Append(toClient, m)
  <2> DEFINE msg == [type |-> "FileSyncPage", index |-> pageNo + 1,
                     total |-> Cardinality(batch), last |-> batch = owed]
  <2>1. batch \in SUBSET Findings /\ pageNo + 1 \in Nat
    BY DEF TypeOK, ServerTypeOK
  <2>2. Cardinality(batch) \in Nat
    BY <2>1, FindingsCount
  <2>3. msg \in ServerMsgs /\ msg.type = "FileSyncPage"
    BY <2>1, <2>2 DEF ServerMsgs
  <2>4. toClient' = Append(toClient, msg)
    BY <1>2
  <2> HIDE DEF msg
  <2> QED
    BY <1>2, <2>3, <2>4
<1> QED
  BY <1>1, <1>2 DEF ServerStartsPage

\* The file the server accepts, and its acknowledgement.
LEMMA FileAccepted ==
    ASSUME TransferInv, ServerAcceptsChunks
    PROVE  LET m == Head(toServer)
           IN /\ FromClient("Chunks") /\ m.type = "Chunks"
              /\ m.path \in Files /\ m.data \in Contents
              /\ srv' = [srv EXCEPT ![m.path] = m.data]
              /\ UNCHANGED <<owed, onPage, pageNo, sending, nextId>>
              /\ \E n \in ServerMsgs : n.type = "FileUploadAck"
                                       /\ toClient' = Append(toClient, n)
<1> DEFINE m == Head(toServer)
<1>1. /\ FromClient("Chunks") /\ UNCHANGED <<owed, onPage, pageNo, sending, nextId>>
      /\ srv' = [srv EXCEPT ![m.path] = m.data]
  BY DEF ServerAcceptsChunks
<1>2. m \in ClientMsgs /\ m.type = "Chunks"
  BY <1>1, FromClientInv
<1>3. m.path \in Files /\ m.data \in Contents /\ m.id \in Nat
  BY <1>2 DEF ClientMsgs
<1>4. PICK id \in {m.id, NoSession} :
         toClient' = Append(toClient, [type |-> "FileUploadAck", id |-> id, path |-> m.path])
  BY DEF ServerAcceptsChunks
<1> HIDE DEF m
<1> DEFINE n == [type |-> "FileUploadAck", id |-> id, path |-> m.path]
<1>5. n \in ServerMsgs /\ n.type = "FileUploadAck" /\ toClient' = Append(toClient, n)
  BY <1>3, <1>4 DEF ServerMsgs
<1> HIDE DEF n
<1> QED
  BY <1>1, <1>2, <1>3, <1>5 DEF m

\* The answer to the request.
LEMMA SyncAnswered ==
    ASSUME TypeOK, ServerAnswersSync
    PROVE  /\ FromClient("FileSync") /\ UNCHANGED <<newest, srv, onPage, pageNo, sending, nextId>>
           /\ owed' \subseteq Findings
           /\ \E m \in ServerMsgs :
                /\ m.type = "FileSyncEnd" /\ m.count = Cardinality(Counted(owed'))
                /\ toClient' = Append(toClient, m)
<1>1. FromClient("FileSync") /\ UNCHANGED <<newest, srv, onPage, pageNo, sending, nextId>>
  BY DEF ServerAnswersSync
<1> DEFINE m == [type |-> "FileSyncEnd", count |-> Cardinality(Counted(owed'))]
<1>2. owed' \subseteq Findings /\ toClient' = Append(toClient, m)
  BY VerdictsType DEF ServerAnswersSync
<1>3. m \in ServerMsgs
  <2>1. Counted(owed') \in SUBSET Findings
    BY <1>2 DEF Counted
  <2>2. Cardinality(Counted(owed')) \in Nat
    BY <2>1, FindingsCount
  <2> QED
    BY <2>2 DEF ServerMsgs
<1>4. m.type = "FileSyncEnd" /\ m.count = Cardinality(Counted(owed'))
  OBVIOUS
<1> HIDE DEF m
<1> QED
  BY <1>1, <1>2, <1>3, <1>4

\* The steps of the server.
LEMMA ServerChunks == TransferInv /\ ChunksKept /\ ServerSteps => ChunksKept'
<1> SUFFICES ASSUME TransferInv, ChunksKept, ServerSteps PROVE ChunksKept'
  OBVIOUS
<1>1. TypeOK
  BY DEF TransferInv
<1>2. CASE ServerAnswersSync
  BY <1>1, <1>2, SyncAnswered, ChunksOtherSent DEF FromClient
<1>3. CASE ServerStartsPage
  BY <1>1, <1>3, PageStarted, ChunksOtherSent DEF FromClient
<1>4. CASE ServerSendsDetail
  <2>1. PICK m \in ServerMsgs : m.type # "Chunk" /\ toClient' = Append(toClient, m)
    BY <1>1, <1>4, DetailSent DEF Findings, PageTypes
  <2> QED
    BY <1>1, <1>4, <2>1, DetailSent, ChunksOtherSent DEF engineVars
<1>5. CASE ServerAcceptsChunks
  BY <1>1, <1>5, FileAccepted, ChunksOtherSent DEF FromClient
<1> QED
  BY <1>2, <1>3, <1>4, <1>5, ChunksNewSession, ChunksSent DEF ServerSteps
---------------------------------------------------------------------------
(* Counting: every detail that counts is still to be sent, or to be        *)
(* handled, or is what a transfer is about, or has been counted.           *)

\* What counts at the server, what is on its way, and the downloads.
Outstanding ==
    Cardinality(Counted(owed)) + Cardinality(Counted(onPage))
    + Number(toClient, Owing) + Number(toServer, Asking) + Cardinality(downloads)

\* The state before the answer.
NothingYet ==
    onPage = {} /\ sending = {} /\ downloads = {} /\ received = 0 /\ ~gotEnd

\* The client has asked, and has no answer yet.
Asked ==
    /\ toServer # <<>> /\ Tail(toServer) = <<>> /\ Head(toServer).type = "FileSync"
    /\ toClient = <<>> /\ NothingYet

\* FileSyncEnd is on its way.
Answered ==
    /\ toServer = <<>> /\ toClient # <<>> /\ Tail(toClient) = <<>>
    /\ Head(toClient).type = "FileSyncEnd"
    /\ Cardinality(Counted(owed)) <= Head(toClient).count /\ NothingYet

\* The client has it: what is outstanding and what is counted are no more than
\* it has announced.
Announced ==
    /\ gotEnd
    /\ \A m \in Said(toServer) : m.type # "FileSync"
    /\ \A m \in Said(toClient) : m.type # "FileSyncEnd"
    /\ received + Outstanding <= expected

\* One of the three, at any time of a sync.
Accounted == Asked \/ Answered \/ Announced

\* How many findings count.
LEMMA CountedType ==
    ASSUME TypeOK
    PROVE  /\ IsFiniteSet(Counted(owed)) /\ IsFiniteSet(Counted(onPage))
           /\ Cardinality(Counted(owed)) \in Nat /\ Cardinality(Counted(onPage)) \in Nat
<1>1. Counted(owed) \in SUBSET Findings /\ Counted(onPage) \in SUBSET Findings
  BY DEF TypeOK, ServerTypeOK, Counted
<1> QED
  BY <1>1, FindingsFinite, FS_Subset, FS_CardinalityType

\* All that is counted is a number.
LEMMA OutstandingType ==
    ASSUME TypeOK, IsFiniteSet(downloads)
    PROVE  /\ Cardinality(Counted(owed)) \in Nat /\ Cardinality(Counted(onPage)) \in Nat
           /\ Number(toClient, Owing) \in Nat /\ Number(toServer, Asking) \in Nat
           /\ Cardinality(downloads) \in Nat /\ expected \in Nat /\ received \in Nat
<1>1. toClient \in Seq(ServerMsgs) /\ toServer \in Seq(ClientMsgs)
      /\ expected \in Nat /\ received \in Nat
  BY DEF TypeOK, SessionTypeOK
<1>2. Number(toClient, Owing) \in Nat /\ Number(toServer, Asking) \in Nat
  BY <1>1, NumberType
<1>3. Cardinality(downloads) \in Nat
  BY FS_CardinalityType
<1> QED
  BY <1>1, <1>2, <1>3, CountedType

\* While nothing is answered, there is nothing the server could do but answer
\* and nothing the client could do but wait; then the client has its answer.
LEMMA NothingElse ==
    ASSUME TypeOK, Accounted
    PROVE  /\ toServer # <<>> /\ Head(toServer).type # "FileSync" => Announced
           /\ onPage # {} \/ sending # {} => Announced
           /\ toClient # <<>> /\ Head(toClient).type # "FileSyncEnd" => Announced
           /\ toServer # <<>> /\ Head(toServer).type = "FileSync" => Asked
           /\ toClient # <<>> /\ Head(toClient).type = "FileSyncEnd" => Answered
<1>1. toServer # <<>> => Head(toServer) \in Said(toServer)
  BY SaidTail DEF TypeOK
<1>2. toClient # <<>> => Head(toClient) \in Said(toClient)
  BY SaidTail DEF TypeOK
<1> QED
  BY <1>1, <1>2 DEF Accounted, Asked, Answered, Announced, NothingYet

\* A step after the answer that neither asks nor answers anew, and counts what
\* it takes off what is outstanding.
LEMMA StillAnnounced ==
    ASSUME Announced, gotEnd', expected' = expected,
           \A m \in Said(toServer') : m.type # "FileSync",
           \A m \in Said(toClient') : m.type # "FileSyncEnd",
           received' + Outstanding' <= received + Outstanding,
           received \in Nat, Outstanding \in Nat, expected \in Nat,
           received' \in Nat, Outstanding' \in Nat
    PROVE  Announced'
<1>1. received + Outstanding <= expected
  BY DEF Announced
<1>2. \A a, b, c, d, e \in Nat : a + b <= c + d /\ c + d <= e => a + b <= e
  OBVIOUS
<1>3. received' + Outstanding' <= expected
  BY <1>1, <1>2
<1>4. received' + Outstanding' <= expected'
  BY <1>3
<1> QED
  BY <1>4 DEF Announced

\* The request.
LEMMA RequestCounts ==
    ASSUME TransferInv, RequestSync
    PROVE  Asked' /\ ChunksKept' /\ ~done'
<1>1. /\ phase = "idle" /\ downloads' = {} /\ UNCHANGED <<toClient, serverVars>>
      /\ received' = 0 /\ gotEnd' = FALSE /\ done' = FALSE
      /\ toServer' = <<[type |-> "FileSync", files |-> disk, newest |-> newest]>>
  BY DEF RequestSync, Reset, ResetCounters
<1>2. toClient' = <<>> /\ onPage' = {} /\ sending' = {}
  BY <1>1 DEF TransferInv, NothingUnconnected, serverVars
<1> DEFINE m == [type |-> "FileSync", files |-> disk, newest |-> newest]
<1>3. m.type = "FileSync" /\ toServer' = <<m>>
  BY <1>1
<1> HIDE DEF m
<1>4. toServer' # <<>> /\ Tail(toServer') = <<>> /\ Head(toServer') = m
  BY <1>3
<1>5. Asked'
  BY <1>1, <1>2, <1>3, <1>4 DEF Asked, NothingYet
<1>6. Said(toClient') = {} /\ Distinct(toClient')
  BY <1>2 DEF Said, Distinct
<1>7. ChunksKept'
  BY <1>1, <1>2, <1>6, FS_EmptySet DEF ChunksKept, ChunksOnce, ChunksAwaited
<1> QED
  BY <1>1, <1>5, <1>7

\* The answer.
LEMMA AnswerCounts ==
    ASSUME TransferInv, Asked, ServerAnswersSync
    PROVE  Answered'
<1>1. /\ FromClient("FileSync") /\ TypeOK
      /\ UNCHANGED <<newest, srv, onPage, pageNo, sending, nextId>>
  BY SyncAnswered DEF TransferInv
<1>2. /\ toServer' = Tail(toServer) /\ downloads' = downloads
      /\ received' = received /\ gotEnd' = gotEnd
  BY <1>1 DEF FromClient, sessionVars
<1>3. NothingYet' /\ toServer' = <<>>
  BY <1>1, <1>2 DEF Asked, NothingYet
<1>4. PICK m \in ServerMsgs :
        /\ m.type = "FileSyncEnd" /\ m.count = Cardinality(Counted(owed'))
        /\ toClient' = Append(toClient, m)
  BY <1>1, SyncAnswered
<1>5. toClient' = <<m>>
  BY <1>4 DEF Asked
<1>6. toClient' # <<>> /\ Tail(toClient') = <<>> /\ Head(toClient') = m
  BY <1>5
<1>7. owed' \subseteq Findings
  BY <1>1, SyncAnswered
<1>8. Cardinality(Counted(owed')) \in Nat
  <2>1. Counted(owed') \in SUBSET Findings
    BY <1>7 DEF Counted
  <2> QED
    BY <2>1, FindingsCount
<1>9. Cardinality(Counted(owed')) <= Head(toClient').count
  BY <1>4, <1>6, <1>8
<1> QED
  BY <1>3, <1>4, <1>6, <1>9 DEF Answered

\* What is outstanding is a number.
LEMMA OutstandingNumber == TypeOK /\ ChunksKept => Outstanding \in Nat
<1> SUFFICES ASSUME TypeOK, ChunksKept PROVE Outstanding \in Nat
  OBVIOUS
<1> QED
  BY OutstandingType DEF Outstanding, ChunksKept

\* The same after a step.
LEMMA OutstandingNumberNext == TypeOK' /\ ChunksKept' => (Outstanding \in Nat)'
  BY OutstandingNumber, PTL

\* Nothing new is in a queue that something is taken off.
LEMMA SaidLess ==
    ASSUME NEW S, NEW q \in Seq(S), q # <<>>
    PROVE  Said(Tail(q)) \subseteq Said(q)
  BY SaidTail

\* The steps of the server after the answer.
LEMMA ServerCounts ==
    ASSUME TransferInv, TransferInv', ChunksKept, ChunksKept', Accounted, ServerSteps
    PROVE  Accounted'
<1>1. /\ TypeOK /\ TypeOK' /\ IsFiniteSet(downloads) /\ IsFiniteSet(downloads)'
      /\ toClient \in Seq(ServerMsgs) /\ toServer \in Seq(ClientMsgs)
  BY DEF TransferInv, TypeOK, ChunksKept
<1>2. /\ Cardinality(Counted(owed)) \in Nat /\ Cardinality(Counted(onPage)) \in Nat
      /\ Number(toClient, Owing) \in Nat /\ Number(toServer, Asking) \in Nat
      /\ Cardinality(downloads) \in Nat /\ expected \in Nat /\ received \in Nat
  BY <1>1, OutstandingType
<1>3. Outstanding \in Nat /\ Outstanding' \in Nat
  BY <1>1, OutstandingNumber, OutstandingNumberNext
<1>4. ASSUME Announced, UNCHANGED <<gotEnd, expected, received>>,
             Said(toServer') \subseteq Said(toServer),
             \A m \in Said(toClient') : m \in Said(toClient) \/ m.type # "FileSyncEnd",
             Outstanding' <= Outstanding
      PROVE  Accounted'
  <2>1. /\ \A m \in Said(toServer') : m.type # "FileSync"
        /\ \A m \in Said(toClient') : m.type # "FileSyncEnd"
        /\ gotEnd'
    BY <1>4 DEF Announced
  <2>2. received' + Outstanding' <= received + Outstanding
    <3>1. \A a, b, c \in Nat : b <= c => a + b <= a + c
      OBVIOUS
    <3>2. received + Outstanding' <= received + Outstanding
      BY <1>2, <1>3, <1>4, <3>1
    <3> QED
      BY <1>4, <3>2
  <2>3. received' \in Nat
    BY <1>2, <1>4
  <2> QED
    BY <1>2, <1>3, <1>4, <2>1, <2>2, <2>3, StillAnnounced DEF Accounted
<1>5. ASSUME NEW type, FromClient(type), type # "FileSync"
      PROVE  /\ Announced /\ UNCHANGED <<gotEnd, expected, received, downloads>>
             /\ Said(toServer') \subseteq Said(toServer)
             /\ Number(toServer', Asking) =
                  IF type \in Asking THEN Number(toServer, Asking) - 1
                                     ELSE Number(toServer, Asking)
  <2>1. /\ toServer # <<>> /\ Head(toServer).type = type /\ toServer' = Tail(toServer)
        /\ UNCHANGED <<gotEnd, expected, received, downloads>>
    BY <1>5 DEF FromClient, sessionVars
  <2>2. Announced
    BY <1>1, <1>5, <2>1, NothingElse
  <2>3. Said(toServer') \subseteq Said(toServer)
    BY <1>1, <2>1, SaidLess
  <2>4. Number(Tail(toServer), Asking) =
          IF Head(toServer).type \in Asking THEN Number(toServer, Asking) - 1
                                            ELSE Number(toServer, Asking)
    BY <1>1, <2>1, NumberTail
  <2> QED
    BY <2>1, <2>2, <2>3, <2>4
<1>6. ASSUME NEW m \in ServerMsgs, toClient' = Append(toClient, m), m.type # "FileSyncEnd"
      PROVE  /\ \A n \in Said(toClient') : n \in Said(toClient) \/ n.type # "FileSyncEnd"
             /\ Number(toClient', Owing) =
                  IF m.type \in Owing THEN Number(toClient, Owing) + 1
                                      ELSE Number(toClient, Owing)
  <2>1. Said(toClient') = Said(toClient) \cup {m}
    BY <1>1, <1>6, SaidAppend
  <2>2. Number(Append(toClient, m), Owing) =
          IF m.type \in Owing THEN Number(toClient, Owing) + 1 ELSE Number(toClient, Owing)
    BY <1>1, NumberAppend
  <2> QED
    BY <1>6, <2>1, <2>2
<1>7. CASE ServerAnswersSync
  <2>1. Asked
    BY <1>1, <1>7, NothingElse DEF ServerAnswersSync, FromClient
  <2> QED
    BY <1>7, <2>1, AnswerCounts DEF Accounted
<1>8. CASE ServerStartsPage
  <2>1. FromClient("FileSyncPageAck") /\ onPage = {}
    BY <1>1, <1>8, PageStarted
  <2>2. /\ Announced /\ UNCHANGED <<gotEnd, expected, received, downloads>>
        /\ Said(toServer') \subseteq Said(toServer)
        /\ Number(toServer', Asking) = Number(toServer, Asking)
    BY <1>5, <2>1 DEF Asking
  <2>3. CASE UNCHANGED <<owed, onPage, pageNo, toClient>>
    <3>1. Outstanding' = Outstanding
      BY <2>2, <2>3 DEF Outstanding
    <3>2. Outstanding' <= Outstanding
      BY <1>3, <3>1
    <3> QED
      BY <1>4, <2>2, <2>3, <3>2
  <2>4. CASE /\ onPage' \in SUBSET owed /\ owed' = owed \ onPage'
             /\ \E m \in ServerMsgs : m.type = "FileSyncPage" /\ toClient' = Append(toClient, m)
    <3>1. /\ \A n \in Said(toClient') : n \in Said(toClient) \/ n.type # "FileSyncEnd"
          /\ Number(toClient', Owing) = Number(toClient, Owing)
      BY <1>6, <2>4 DEF Owing
    <3>2. Counted(owed) = Counted(owed') \cup Counted(onPage')
          /\ Counted(owed') \cap Counted(onPage') = {}
      BY <2>4 DEF Counted
    <3>3. Cardinality(Counted(owed)) = Cardinality(Counted(owed')) + Cardinality(Counted(onPage'))
      <4>1. IsFiniteSet(Counted(owed'))  /\ IsFiniteSet(Counted(onPage'))
        <5>1. IsFiniteSet(Counted(owed))
          BY <1>1, CountedType
        <5>2. Counted(owed') \in SUBSET Counted(owed) /\ Counted(onPage') \in SUBSET Counted(owed)
          BY <3>2
        <5> QED
          BY <5>1, <5>2, FS_Subset
      <4>2. Cardinality(Counted(owed') \cap Counted(onPage')) = 0
        BY <3>2, FS_EmptySet
      <4>3. Cardinality(Counted(owed')) \in Nat /\ Cardinality(Counted(onPage')) \in Nat
        BY <4>1, FS_CardinalityType
      <4>4. Cardinality(Counted(owed') \cup Counted(onPage'))
              = Cardinality(Counted(owed')) + Cardinality(Counted(onPage'))
                - Cardinality(Counted(owed') \cap Counted(onPage'))
        BY <4>1, FS_Union
      <4> QED
        BY <3>2, <4>2, <4>3, <4>4
    <3>4. Cardinality(Counted(onPage)) = 0
      <4>1. Counted(onPage) = {}
        BY <2>1 DEF Counted
      <4> QED
        BY <4>1, FS_EmptySet
    <3>5. /\ Outstanding = Cardinality(Counted(owed)) + Number(toClient, Owing)
                           + Number(toServer, Asking) + Cardinality(downloads)
          /\ Outstanding' = Cardinality(Counted(owed')) + Cardinality(Counted(onPage'))
                            + Number(toClient', Owing) + Number(toServer', Asking)
                            + Cardinality(downloads')
      BY <1>2, <3>4 DEF Outstanding
    <3>6. Outstanding' = Outstanding
      BY <2>2, <3>1, <3>3, <3>5
    <3>7. Outstanding' <= Outstanding
      BY <1>3, <3>6
    <3> QED
      BY <1>4, <2>2, <3>1, <3>7
  <2> QED
    BY <1>1, <1>8, <2>3, <2>4, PageStarted
<1>9. CASE ServerSendsDetail
  <2>1. PICK d \in onPage : \E m \in ServerMsgs :
          /\ d \in Findings /\ m \in DetailMsgs(d) /\ m.type = d.type /\ m.path = d.path
          /\ onPage' = onPage \ {d} /\ toClient' = Append(toClient, m)
    BY <1>1, <1>9, DetailSent
  <2>2. PICK m \in ServerMsgs :
          /\ d \in Findings /\ m.type = d.type
          /\ onPage' = onPage \ {d} /\ toClient' = Append(toClient, m)
    BY <2>1
  <2>3. UNCHANGED <<gotEnd, expected, received, downloads, owed, toServer>>
    BY <1>1, <1>9, DetailSent DEF engineVars, sessionVars
  <2>4. Announced
    BY <1>1, NothingElse
  <2>5. d.type # "FileSyncMtime" <=> m.type \in Owing
    BY <2>2 DEF Findings, PageTypes, Owing
  <2>6. m.type # "FileSyncEnd"
    BY <2>2 DEF Findings, PageTypes
  <2>7. /\ \A n \in Said(toClient') : n \in Said(toClient) \/ n.type # "FileSyncEnd"
        /\ Number(toClient', Owing) = IF m.type \in Owing THEN Number(toClient, Owing) + 1
                                                          ELSE Number(toClient, Owing)
    BY <1>6, <2>2, <2>6
  <2>8. Counted(onPage') = Counted(onPage) \ {d}
        /\ (d \in Counted(onPage) <=> m.type \in Owing)
    BY <2>2, <2>5 DEF Counted
  <2>9. Cardinality(Counted(onPage')) =
          IF m.type \in Owing THEN Cardinality(Counted(onPage)) - 1
                              ELSE Cardinality(Counted(onPage))
    BY <1>1, <2>8, CountedType, FS_RemoveElement
  <2>10. Outstanding' = Outstanding
    BY <1>2, <2>3, <2>7, <2>9 DEF Outstanding
  <2>11. Outstanding' <= Outstanding
    BY <1>3, <2>10
  <2> QED
    BY <1>4, <2>3, <2>4, <2>7, <2>11
<1>10. CASE ServerStartsDownload
  <2>1. FromClient("FileChunkDownload") /\ UNCHANGED <<newest, srv, owed, onPage, pageNo>>
    BY <1>10 DEF ServerStartsDownload
  <2>2. /\ Announced /\ UNCHANGED <<gotEnd, expected, received, downloads>>
        /\ Said(toServer') \subseteq Said(toServer)
        /\ Number(toServer', Asking) = Number(toServer, Asking) - 1
    BY <1>5, <2>1 DEF Asking
  <2>3. toClient' = toClient \/ \E m \in ServerMsgs : m.type = "FileSyncChunkDownload"
                                                      /\ toClient' = Append(toClient, m)
    <3> DEFINE f == Head(toServer).path
               m == [type |-> "FileSyncChunkDownload", id |-> nextId, path |-> f,
                     count |-> ChunkCount[srv[f]]]
    <3>1. f \in Files
      BY <2>1, FromClientInv DEF ClientMsgs
    <3>2. CASE srv[f] = Absent
      BY <1>10, <3>2 DEF ServerStartsDownload
    <3>3. CASE srv[f] # Absent
      <4>1. toClient' = Append(toClient, m)
        BY <1>10, <3>3 DEF ServerStartsDownload
      <4>2. srv[f] \in Contents /\ nextId \in Nat
        BY <1>1, <3>1, <3>3 DEF TypeOK, ServerTypeOK
      <4>3. ChunkCount[srv[f]] \in Nat
        BY <4>2, ChunkCountType
      <4>4. m \in ServerMsgs /\ m.type = "FileSyncChunkDownload"
        BY <3>1, <4>2, <4>3 DEF ServerMsgs
      <4> HIDE DEF m
      <4> QED
        BY <4>1, <4>4
    <3> QED
      BY <3>2, <3>3
  <2>4. /\ \A n \in Said(toClient') : n \in Said(toClient) \/ n.type # "FileSyncEnd"
        /\ Number(toClient', Owing) \in {Number(toClient, Owing), Number(toClient, Owing) + 1}
    BY <1>6, <2>3 DEF Owing
  <2>5. Outstanding' <= Outstanding
    BY <1>2, <2>1, <2>2, <2>4 DEF Outstanding
  <2> QED
    BY <1>4, <2>2, <2>4, <2>5
<1>11. CASE ServerSendsChunk
  <2>1. /\ UNCHANGED <<gotEnd, expected, received, downloads, owed, onPage, toServer>>
        /\ sending # {}
    BY <1>11 DEF ServerSendsChunk, engineVars, sessionVars
  <2>2. PICK m \in ServerMsgs : m.type = "Chunk" /\ toClient' = Append(toClient, m)
    <3>1. PICK t \in sending : \E i \in t.left :
            toClient' = Append(toClient, [type |-> "Chunk", id |-> t.id,
                                          index |-> i, data |-> t.data])
      BY <1>11 DEF ServerSendsChunk
    <3>2. PICK i \in t.left :
            toClient' = Append(toClient, [type |-> "Chunk", id |-> t.id,
                                          index |-> i, data |-> t.data])
      BY <3>1
    <3>3. t \in [id : Nat, data : Contents, left : SUBSET Nat] /\ i \in Nat
      BY <1>1 DEF TypeOK, ServerTypeOK
    <3> DEFINE m == [type |-> "Chunk", id |-> t.id, index |-> i, data |-> t.data]
    <3>4. m \in ServerMsgs /\ m.type = "Chunk"
      BY <3>3 DEF ServerMsgs
    <3> QED
      BY <3>2, <3>4
  <2>3. Announced
    BY <1>1, <2>1, NothingElse
  <2>4. /\ \A n \in Said(toClient') : n \in Said(toClient) \/ n.type # "FileSyncEnd"
        /\ Number(toClient', Owing) = Number(toClient, Owing)
    BY <1>6, <2>2 DEF Owing
  <2>5. Outstanding' = Outstanding
    BY <2>1, <2>4 DEF Outstanding
  <2>6. Outstanding' <= Outstanding
    BY <1>3, <2>5
  <2> QED
    BY <1>4, <2>1, <2>3, <2>4, <2>6
<1>12. CASE ServerAcceptsChunks
  <2>1. FromClient("Chunks") /\ UNCHANGED <<owed, onPage>>
    BY <1>12, FileAccepted
  <2>2. /\ Announced /\ UNCHANGED <<gotEnd, expected, received, downloads>>
        /\ Said(toServer') \subseteq Said(toServer)
        /\ Number(toServer', Asking) = Number(toServer, Asking) - 1
    BY <1>5, <2>1 DEF Asking
  <2>3. PICK m \in ServerMsgs : m.type = "FileUploadAck" /\ toClient' = Append(toClient, m)
    BY <1>12, FileAccepted
  <2>4. /\ \A n \in Said(toClient') : n \in Said(toClient) \/ n.type # "FileSyncEnd"
        /\ Number(toClient', Owing) = Number(toClient, Owing) + 1
    BY <1>6, <2>3 DEF Owing
  <2>5. Outstanding' <= Outstanding
    BY <1>2, <2>1, <2>2, <2>4 DEF Outstanding
  <2> QED
    BY <1>4, <2>2, <2>4, <2>5
<1> QED
  BY <1>7, <1>8, <1>9, <1>10, <1>11, <1>12 DEF ServerSteps

\* Joining one message to a queue, or none.
LEMMA JoinOne ==
    ASSUME NEW S, NEW q \in Seq(S), NEW x \in S
    PROVE  q \o <<x>> = Append(q, x) /\ q \o <<>> = q
  OBVIOUS

\* What a handler sends is at most one message, about a transfer.
LEMMA RepliesAsk ==
    ASSUME TypeOK, NeverTorn, toClient # <<>>, Head(toClient).type \in Handled,
           NEW m, m = Head(toClient)
    PROVE  \/ Replies(m) = <<>>
           \/ /\ \E x \in ClientMsgs : x.type \in Asking /\ Replies(m) = <<x>>
              /\ \/ m.type = "FileSyncUpdate" /\ m.content = Absent
                 \/ m.type = "FileUpload" /\ Uploads(m.path)
<1>1. /\ m.type \in {"FileSyncUpdate", "FileUpload"} => m.path \in Files
      /\ m.type = "FileUpload" => m.id \in Nat
  BY HeadType DEF PageTypes
<1>2. CASE m.type = "FileSyncUpdate" /\ m.content = Absent
  <2>1. ChunkRequest(m.path) \in ClientMsgs /\ ChunkRequest(m.path).type \in Asking
    BY <1>1, <1>2 DEF ChunkRequest, ClientMsgs, Asking
  <2>2. Replies(m) = <<ChunkRequest(m.path)>>
    BY <1>2 DEF Replies
  <2> QED
    BY <1>2, <2>1, <2>2
<1>3. CASE m.type = "FileUpload" /\ Uploads(m.path)
  <2> DEFINE sent == [type |-> "Chunks", id |-> m.id, path |-> m.path,
                      data |-> disk[m.path]]
  <2>1. disk[m.path] \in Contents
    BY <1>1, <1>3 DEF Uploads, TypeOK, EngineTypeOK, NeverTorn
  <2>2. sent \in ClientMsgs /\ sent.type \in Asking
    BY <1>1, <1>3, <2>1 DEF ClientMsgs, Asking
  <2>3. Replies(m) = <<sent>>
    BY <1>3 DEF Replies, UploadMsgs, ChunksOf
  <2> QED
    BY <1>3, <2>2, <2>3
<1>4. CASE /\ ~(m.type = "FileSyncUpdate" /\ m.content = Absent)
           /\ ~(m.type = "FileUpload" /\ Uploads(m.path))
  BY <1>4 DEF Replies, UploadMsgs, ChunksOf
<1> QED
  BY <1>2, <1>3, <1>4

\* What is sent with it, the page's acknowledgement, is about none.
LEMMA FinishSends ==
    ASSUME TypeOK, NEW pg \in Pages, NEW out, FinishPage(pg, out),
           out = <<>> \/ \E x \in ClientMsgs : x.type \in Asking /\ out = <<x>>
    PROVE  /\ Number(toServer', Asking) =
                IF out = <<>> THEN Number(toServer, Asking)
                              ELSE Number(toServer, Asking) + 1
           /\ \A n \in Said(toServer') :
                 \/ n \in Said(toServer) \/ n = PageAck(pg.index)
                 \/ out = <<n>> /\ n.type \in Asking
           /\ Said(toServer) \cup Said(out) \subseteq Said(toServer')
<1> DEFINE sent == toServer \o out
           ack == PageAck(pg.index)
<1>1. toServer \in Seq(ClientMsgs)
  BY DEF TypeOK
<1>2. ack \in ClientMsgs /\ ack.type \notin Asking
  BY DEF PageAck, ClientMsgs, Pages, Asking
<1>3. /\ sent \in Seq(ClientMsgs)
      /\ Number(sent, Asking) = IF out = <<>> THEN Number(toServer, Asking)
                                              ELSE Number(toServer, Asking) + 1
      /\ \A n \in Said(sent) : n \in Said(toServer) \/ (out = <<n>> /\ n.type \in Asking)
      /\ Said(toServer) \cup Said(out) \subseteq Said(sent)
  <2>1. CASE out = <<>>
    <3>1. Said(<<>>) = {}
      BY DEF Said
    <3> QED
      BY <1>1, <2>1, <3>1, JoinOne
  <2>2. ASSUME NEW x \in ClientMsgs, x.type \in Asking, out = <<x>>
        PROVE  <1>3!:
    <3>1. sent = Append(toServer, x) /\ out # <<>>
      BY <1>1, <2>2, JoinOne
    <3>2. Said(sent) = Said(toServer) \cup {x}
      BY <1>1, <3>1, SaidAppend
    <3>3. Number(Append(toServer, x), Asking) = Number(toServer, Asking) + 1
      BY <1>1, <2>2, NumberAppend
    <3>4. sent \in Seq(ClientMsgs)
      BY <1>1, <3>1
    <3>5. Said(out) = {x}
      BY <2>2 DEF Said
    <3> QED
      BY <2>2, <3>1, <3>2, <3>3, <3>4, <3>5
  <2> QED
    BY <2>1, <2>2
<1>4. toServer' = Append(sent, ack) \/ toServer' = sent
  <2>1. toServer' = sent \o <<ack>> \/ toServer' = sent \o <<>>
    BY DEF FinishPage
  <2> HIDE DEF sent, ack
  <2> QED
    BY <1>2, <1>3, <2>1, JoinOne
<1> HIDE DEF sent, ack
<1>5. CASE toServer' = sent
  BY <1>3, <1>5
<1>6. CASE toServer' = Append(sent, ack)
  <2>1. Said(Append(sent, ack)) = Said(sent) \cup {ack}
    BY <1>2, <1>3, SaidAppend
  <2>2. Number(Append(sent, ack), Asking) = Number(sent, Asking)
    BY <1>2, <1>3, NumberAppend
  <2> QED
    BY <1>3, <1>6, <2>1, <2>2 DEF ack
<1> QED
  BY <1>4, <1>5, <1>6

\* A message taken off the channel, with what it counts for.
LEMMA TakenCounts ==
    ASSUME TypeOK, TypeOK', ChunksKept, ChunksKept', Accounted,
           toClient # <<>>, NEW m, m = Head(toClient), m.type # "FileSyncEnd",
           toClient' = Tail(toClient),
           UNCHANGED <<gotEnd, expected, owed, onPage>>,
           \A n \in Said(toServer') : n \in Said(toServer) \/ n.type # "FileSync",
           NEW counted \in {0, 1}, received' = received + counted,
           NEW asked \in {0, 1}, Number(toServer', Asking) = Number(toServer, Asking) + asked,
           counted + asked + Cardinality(downloads') <=
               Cardinality(downloads) + IF m.type \in Owing THEN 1 ELSE 0
    PROVE  Accounted'
<1>1. /\ toClient \in Seq(ServerMsgs) /\ IsFiniteSet(downloads) /\ IsFiniteSet(downloads')
      /\ TypeOK'
  BY DEF TypeOK, ChunksKept
<1>2. /\ Cardinality(Counted(owed)) \in Nat /\ Cardinality(Counted(onPage)) \in Nat
      /\ Number(toClient, Owing) \in Nat /\ Number(toServer, Asking) \in Nat
      /\ Cardinality(downloads) \in Nat /\ expected \in Nat /\ received \in Nat
  BY <1>1, OutstandingType
<1>3. Outstanding \in Nat /\ Outstanding' \in Nat /\ Cardinality(downloads') \in Nat
  BY <1>1, OutstandingNumber, OutstandingNumberNext, FS_CardinalityType
<1>4. Number(Tail(toClient), Owing) = IF m.type \in Owing THEN Number(toClient, Owing) - 1
                                                          ELSE Number(toClient, Owing)
  BY <1>1, NumberTail
<1>5. Announced
  BY NothingElse
<1>6. received' + Outstanding' <= received + Outstanding
  <2>1. Outstanding' = Cardinality(Counted(owed)) + Cardinality(Counted(onPage))
                       + Number(Tail(toClient), Owing) + (Number(toServer, Asking) + asked)
                       + Cardinality(downloads')
    BY DEF Outstanding
  <2>2. Outstanding = Cardinality(Counted(owed)) + Cardinality(Counted(onPage))
                      + Number(toClient, Owing) + Number(toServer, Asking)
                      + Cardinality(downloads)
    BY DEF Outstanding
  <2> DEFINE taken == IF m.type \in Owing THEN 1 ELSE 0
  <2>4. taken \in Nat /\ Number(Tail(toClient), Owing) = Number(toClient, Owing) - taken
    BY <1>2, <1>4
  <2>5. counted + asked + Cardinality(downloads') <= Cardinality(downloads) + taken
    OBVIOUS
  <2> HIDE DEF taken
  <2> DEFINE a == Cardinality(Counted(owed))
             b == Cardinality(Counted(onPage))
             c == Number(toClient, Owing)
             d == Number(toServer, Asking)
             e == Cardinality(downloads)
             f == Cardinality(downloads')
  <2>6. (received + counted) + (a + b + (c - taken) + (d + asked) + f)
            <= received + (a + b + c + d + e)
    <3>1. /\ a \in Nat /\ b \in Nat /\ c \in Nat /\ d \in Nat /\ e \in Nat /\ f \in Nat
          /\ counted + asked + f <= e + taken
      BY <1>2, <1>3, <2>5
    <3> HIDE DEF a, b, c, d, e, f
    <3> QED
      BY <1>2, <2>4, <3>1
  <2> QED
    BY <2>1, <2>2, <2>4, <2>6
<1>7. Said(toClient') \subseteq Said(toClient)
  BY <1>1, SaidLess
<1>8. received' \in Nat
  BY <1>2
<1> QED
  BY <1>2, <1>3, <1>5, <1>6, <1>7, <1>8, StillAnnounced DEF Announced, Accounted

\* The steps of the sync's loop after the request.
LEMMA ClientCounts ==
    ASSUME TransferInv, TransferInv', ChunksKept, ChunksKept', Accounted, ClientReceives
    PROVE  Accounted'
<1> DEFINE m == Head(toClient)
<1>1. /\ TypeOK /\ TypeOK' /\ NeverTorn
      /\ toClient \in Seq(ServerMsgs) /\ toServer \in Seq(ClientMsgs)
      /\ IsFiniteSet(downloads) /\ IsFiniteSet(downloads')
      /\ received \in Nat /\ page \in Pages
  BY DEF TransferInv, TypeOK, ChunksKept, SessionTypeOK
<1>2. /\ toClient # <<>> /\ toClient' = Tail(toClient)
      /\ UNCHANGED <<owed, onPage, sending>>
  BY DEF ClientReceives, ReceiveDetail, ReceivePage, ReceiveTransfer, ReceiveEnd,
     Receive, Take, serverVars
<1>3. Cardinality(downloads) \in Nat /\ Cardinality(downloads') \in Nat
  BY <1>1, FS_CardinalityType
<1>4. Number(toServer, Asking) \in Nat
  BY <1>1, NumberType
<1> DEFINE counted == IF Counts(m) THEN 1 ELSE 0
<1>5. CASE ReceiveDetail
  <2> DEFINE pg == [page EXCEPT !.received = IF page.active THEN @ + 1 ELSE @]
             out == Replies(m)
             asked == IF out = <<>> THEN 0 ELSE 1
  <2>1. /\ m.type \in PageTypes /\ Apply(m) /\ Count(m)
        /\ FinishPage(pg, out) /\ UNCHANGED <<expected, gotEnd>>
    BY <1>5 DEF ReceiveDetail, Receive, Take
  <2>2. pg \in Pages
    BY <1>1 DEF Pages
  <2>3. \/ out = <<>>
        \/ /\ \E x \in ClientMsgs : x.type \in Asking /\ out = <<x>>
           /\ \/ m.type = "FileSyncUpdate" /\ m.content = Absent
              \/ m.type = "FileUpload" /\ Uploads(m.path)
    BY <1>1, <1>2, <2>1, RepliesAsk DEF Handled
  <2>4. m.type = "FileSyncMtime" => out = <<>> /\ ~Counts(m)
    BY DEF Replies, Counts
  <2>5. out # <<>> => ~Counts(m)
    BY <2>3 DEF Counts
  <2>6. counted + asked <= IF m.type \in Owing THEN 1 ELSE 0
    BY <2>1, <2>4, <2>5 DEF PageTypes, Owing
  <2>7. downloads' = downloads
    BY <2>1, PageKeepsDownloads
  <2>8. received' = received + counted
    BY <1>1, <2>1 DEF Count
  <2> HIDE DEF pg, out
  <2>9. /\ Number(toServer', Asking) = IF out = <<>> THEN Number(toServer, Asking)
                                                     ELSE Number(toServer, Asking) + 1
        /\ \A n \in Said(toServer') : n \in Said(toServer) \/ n = PageAck(pg.index)
                                      \/ n.type \in Asking
    BY <1>1, <2>1, <2>2, <2>3, FinishSends
  <2>10. Number(toServer', Asking) = Number(toServer, Asking) + asked
    BY <1>4, <2>9
  <2>11. \A n \in Said(toServer') : n \in Said(toServer) \/ n.type # "FileSync"
    BY <2>9 DEF PageAck, Asking
  <2>12. m.type # "FileSyncEnd" /\ counted \in {0, 1} /\ asked \in {0, 1}
    BY <2>1 DEF PageTypes
  <2>13. counted + asked + Cardinality(downloads')
            <= Cardinality(downloads) + IF m.type \in Owing THEN 1 ELSE 0
    <3> HIDE DEF counted, asked
    <3> QED
      BY <1>3, <2>6, <2>7, <2>12
  <2> HIDE DEF counted, asked, m
  <2> QED
    BY <1>1, <1>2, <2>1, <2>8, <2>10, <2>11, <2>12, <2>13, TakenCounts DEF m
<1>6. CASE ReceivePage
  <2> DEFINE pg == [active |-> TRUE, index |-> m.index, total |-> m.total,
                    received |-> 0, last |-> m.last]
  <2>1. /\ m.type = "FileSyncPage" /\ FinishPage(pg, <<>>)
        /\ UNCHANGED <<expected, gotEnd, received, downloads>>
    BY <1>6 DEF ReceivePage, Receive, Take, engineVars
  <2>2. pg \in Pages
    <3>1. m.index \in Nat /\ m.total \in Nat /\ m.last \in BOOLEAN
      BY <1>1, <1>2, <2>1, HeadType
    <3> QED
      BY <3>1 DEF Pages
  <2> HIDE DEF pg
  <2>3. /\ Number(toServer', Asking) = Number(toServer, Asking)
        /\ \A n \in Said(toServer') : n \in Said(toServer) \/ n = PageAck(pg.index)
                                      \/ n.type \in Asking
    BY <1>1, <2>1, <2>2, FinishSends
  <2>4. \A n \in Said(toServer') : n \in Said(toServer) \/ n.type # "FileSync"
    BY <2>3 DEF PageAck, Asking
  <2>5. /\ received' = received + 0 /\ Number(toServer', Asking) = Number(toServer, Asking) + 0
        /\ 0 + 0 + Cardinality(downloads')
              <= Cardinality(downloads) + IF m.type \in Owing THEN 1 ELSE 0
    BY <1>1, <1>3, <1>4, <2>1, <2>3
  <2> HIDE DEF m
  <2> QED
    BY <1>1, <1>2, <2>1, <2>4, <2>5, TakenCounts DEF m
<1>7. CASE ReceiveTransfer
  <2>1. /\ m.type \in {"FileSyncChunkDownload", "FileUploadAck", "Chunk"}
        /\ Apply(m) /\ Count(m) /\ UNCHANGED <<expected, gotEnd, toServer>>
    BY <1>7 DEF ReceiveTransfer, Receive, Take
  <2>2. /\ received' = received + counted /\ counted \in {0, 1}
        /\ Number(toServer', Asking) = Number(toServer, Asking) + 0
    BY <1>1, <1>4, <2>1 DEF Count
  <2>3. counted + 0 + Cardinality(downloads')
            <= Cardinality(downloads) + IF m.type \in Owing THEN 1 ELSE 0
    <3>1. CASE m.type = "FileSyncChunkDownload"
      <4>1. m.type \in Owing /\ counted = 0
        BY <3>1 DEF Owing, Counts
      <4>2. HandleChunkDownloadStart(m.id, m.path, m.count)
        BY <2>1, <3>1 DEF Apply
      <4> DEFINE others == { d \in downloads : d.id # m.id }
                 new == [id |-> m.id, path |-> m.path, count |-> m.count, chunks |-> {}]
      <4>3. downloads' = downloads \/ downloads' = others \cup {new}
        BY <4>2 DEF HandleChunkDownloadStart, Started
      <4>4. IsFiniteSet(others) /\ Cardinality(others) <= Cardinality(downloads)
        BY <1>1, FS_Subset
      <4> HIDE DEF others, new
      <4>5. Cardinality(others) \in Nat
        BY <4>4, FS_CardinalityType
      <4>6. Cardinality(others \cup {new}) <= Cardinality(others) + 1
        <5>1. Cardinality(others \cup {new}) =
                IF new \in others THEN Cardinality(others) ELSE Cardinality(others) + 1
          BY <4>4, FS_AddElement
        <5> QED
          BY <4>5, <5>1
      <4>7. Cardinality(downloads') <= Cardinality(downloads) + 1
        <5>1. CASE downloads' = downloads
          BY <1>3, <5>1
        <5>2. CASE downloads' = others \cup {new}
          <6>1. Cardinality(downloads') <= Cardinality(others) + 1
            BY <4>6, <5>2
          <6> QED
            BY <1>3, <4>4, <4>5, <6>1
        <5> QED
          BY <4>3, <5>1, <5>2
      <4> QED
        BY <1>3, <4>1, <4>7
    <3>2. CASE m.type = "FileUploadAck"
      <4>1. m.type \in Owing /\ downloads' = downloads
        BY <2>1, <3>2 DEF Owing, Apply, HandleUploadAck
      <4> QED
        BY <1>3, <4>1
    <3>3. CASE m.type = "Chunk"
      <4>1. HandleBinaryChunk(m.id, m.index, m.data)
        BY <2>1, <3>3 DEF Apply
      <4>2. Counts(m) <=> \E d \in downloads : d.id = m.id /\ Completes(d, m.index, m.data)
        BY <3>3 DEF Counts
      <4>3. CASE \A d \in downloads : d.id # m.id
        <5>1. downloads' = downloads /\ counted = 0
          BY <4>1, <4>2, <4>3 DEF HandleBinaryChunk, engineVars
        <5> QED
          BY <1>3, <5>1
      <4>4. ASSUME NEW d \in downloads, d.id = m.id, ~Completes(d, m.index, m.data),
                   NEW more, downloads' = (downloads \ {d}) \cup {more}
            PROVE  <2>3!:
        <5>1. counted = 0
          BY <4>2, <4>4 DEF ChunksKept, ChunksOnce
        <5>2. IsFiniteSet(downloads \ {d}) /\ Cardinality(downloads \ {d}) = Cardinality(downloads) - 1
          BY <1>1, FS_RemoveElement
        <5>3. Cardinality((downloads \ {d}) \cup {more}) \in
                {Cardinality(downloads \ {d}), Cardinality(downloads \ {d}) + 1}
          BY <5>2, FS_AddElement
        <5>4. Cardinality(downloads') <= Cardinality(downloads)
          BY <1>3, <4>4, <5>2, <5>3
        <5> QED
          BY <1>3, <5>1, <5>4
      <4>5. ASSUME NEW d \in downloads, d.id = m.id, downloads' = downloads \ {d}
            PROVE  <2>3!:
        <5>1. Cardinality(downloads') = Cardinality(downloads) - 1
          BY <1>1, <4>5, FS_RemoveElement
        <5> QED
          BY <1>3, <2>2, <5>1
      <4> QED
        BY <4>1, <4>3, <4>4, <4>5 DEF HandleBinaryChunk
    <3> QED
      BY <2>1, <3>1, <3>2, <3>3
  <2>4. m.type # "FileSyncEnd"
    BY <2>1
  <2> HIDE DEF counted, m
  <2> QED
    BY <1>1, <1>2, <2>1, <2>2, <2>3, <2>4, TakenCounts DEF m
<1>8. CASE ReceiveEnd
  <2>1. /\ m.type = "FileSyncEnd" /\ expected' = m.count /\ gotEnd' = TRUE
        /\ UNCHANGED <<engineVars, received>>
        /\ toServer' = toServer \/ toServer' = Append(toServer, PageAck(-1))
    BY <1>8 DEF ReceiveEnd, Receive, Take
  <2>2. Answered
    BY <1>1, <1>2, <2>1, NothingElse
  <2>3. /\ toServer = <<>> /\ toClient' = <<>> /\ received' = 0
        /\ onPage' = {} /\ downloads' = {} /\ owed' = owed
        /\ Cardinality(Counted(owed)) <= expected'
    BY <1>2, <2>1, <2>2 DEF Answered, NothingYet, engineVars
  <2>4. PageAck(-1) \in ClientMsgs /\ PageAck(-1).type = "FileSyncPageAck"
    BY DEF PageAck, ClientMsgs
  <2>5. Said(toClient') = {}
    BY <2>3 DEF Said
  <2>6. \A n \in Said(toServer') : n.type = "FileSyncPageAck"
    <3>1. Said(toServer) = {}
      BY <2>3 DEF Said
    <3>2. Said(Append(toServer, PageAck(-1))) = Said(toServer) \cup {PageAck(-1)}
      BY <1>1, <2>4, SaidAppend
    <3> QED
      BY <2>1, <2>4, <3>1, <3>2
  <2>7. Number(toClient', Owing) = 0 /\ Number(toServer', Asking) = 0
    <3>1. toClient' \in Seq(ServerMsgs) /\ toServer' \in Seq(ClientMsgs)
      BY <1>1 DEF TypeOK
    <3> QED
      BY <2>5, <2>6, <3>1, NumberType DEF Asking
  <2>8. Cardinality(Counted(onPage')) = 0 /\ Cardinality(downloads') = 0
    <3>1. Counted(onPage') = {}
      BY <2>3 DEF Counted
    <3> QED
      BY <2>3, <3>1, FS_EmptySet
  <2>9. received' + Outstanding' = Cardinality(Counted(owed))
    <3>1. Cardinality(Counted(owed)) \in Nat
      BY <1>1, CountedType
    <3> QED
      BY <2>3, <2>7, <2>8, <3>1 DEF Outstanding
  <2> QED
    BY <2>1, <2>3, <2>5, <2>6, <2>9 DEF Announced, Accounted
<1> QED
  BY <1>5, <1>6, <1>7, <1>8 DEF ClientReceives

---------------------------------------------------------------------------
(* A complete sync has nothing left to do.                                 *)

\* Nothing is left, in terms of the messages.
LEMMA NothingLeftSaid ==
    ASSUME TypeOK
    PROVE  NothingLeft <=>
              /\ Counted(owed) = {} /\ Counted(onPage) = {}
              /\ \A m \in Said(toClient) : m.type \notin Owing \cup {"Chunk"}
              /\ \A m \in Said(toServer) : m.type \notin Asking
              /\ sending = {} /\ downloads = {} /\ uploads = {}
<1> DEFINE Types == (PageTypes \ {"FileSyncMtime"})
                    \cup {"FileSyncChunkDownload", "Chunk", "FileUploadAck"}
<1>1. Counted(owed \cup onPage) = {} <=> Counted(owed) = {} /\ Counted(onPage) = {}
  BY DEF Counted
<1>2. (\A type \in Types : InTransit(type) = {})
        <=> \A m \in Said(toClient) : m.type \notin Owing \cup {"Chunk"}
  <2>1. Types = Owing \cup {"Chunk"}
    BY DEF PageTypes, Owing
  <2>2. \A type : InTransit(type) = {} <=> \A m \in Said(toClient) : m.type # type
    BY DEF InTransit, Said
  <2> HIDE DEF Types
  <2> QED
    BY <2>1, <2>2
<1>3. (\A i \in 1..Len(toServer) : toServer[i].type \notin {"FileChunkDownload", "Chunks"})
        <=> \A m \in Said(toServer) : m.type \notin Asking
  BY DEF Said, Asking
<1> HIDE DEF Types
<1> QED
  BY <1>1, <1>2, <1>3 DEF NothingLeft, Types

\* What is complete has nothing outstanding, no message is left that stands
\* for something to do, and no chunk, as its download would be active.
LEMMA CompleteIsHandled ==
    TransferInv /\ ChunksKept /\ Accounted /\ SyncComplete =>
        NothingLeft /\ \A m \in Said(toServer) : m.type # "FileSync"
<1> SUFFICES ASSUME TransferInv, ChunksKept, Accounted, SyncComplete
             PROVE  NothingLeft /\ \A m \in Said(toServer) : m.type # "FileSync"
  OBVIOUS
<1>1. /\ TypeOK /\ IsFiniteSet(downloads) /\ downloads = {} /\ uploads = {}
      /\ gotEnd /\ received >= expected
      /\ toClient \in Seq(ServerMsgs) /\ toServer \in Seq(ClientMsgs)
  BY DEF TransferInv, TypeOK, ChunksKept, SyncComplete
<1>2. Announced
  BY <1>1 DEF Accounted, Asked, Answered, NothingYet
<1>3. /\ Cardinality(Counted(owed)) = 0 /\ Cardinality(Counted(onPage)) = 0
      /\ Number(toClient, Owing) = 0 /\ Number(toServer, Asking) = 0
  <2>1. received + (Cardinality(Counted(owed)) + Cardinality(Counted(onPage))
                    + Number(toClient, Owing) + Number(toServer, Asking)
                    + Cardinality(downloads)) <= expected
    BY <1>2 DEF Announced, Outstanding
  <2>2. /\ Cardinality(Counted(owed)) \in Nat /\ Cardinality(Counted(onPage)) \in Nat
        /\ Number(toClient, Owing) \in Nat /\ Number(toServer, Asking) \in Nat
        /\ Cardinality(downloads) \in Nat /\ expected \in Nat /\ received \in Nat
    BY <1>1, OutstandingType
  <2> QED
    BY <1>1, <2>1, <2>2
<1>4. Counted(owed) = {} /\ Counted(onPage) = {}
  BY <1>1, <1>3, CountedType, FS_EmptySet
<1>5. /\ \A m \in Said(toClient) : m.type \notin Owing
      /\ \A m \in Said(toServer) : m.type \notin Asking
  BY <1>1, <1>3, NumberType
<1>6. sending = {} /\ \A m \in Said(toClient) : m.type # "Chunk"
  BY <1>1, <1>5 DEF ChunksKept, ChunksAwaited, Awaited, Owing
<1> QED
  BY <1>1, <1>2, <1>4, <1>5, <1>6, NothingLeftSaid DEF Announced

\* The same after a step.
LEMMA CompleteIsHandledNext ==
    TransferInv' /\ ChunksKept' /\ Accounted' /\ SyncComplete' =>
        NothingLeft' /\ (\A m \in Said(toServer) : m.type # "FileSync")'
  BY CompleteIsHandled, PTL

\* After it, only pages and times can still come.
Over ==
    /\ NothingLeft
    /\ \A m \in Said(toServer) : m.type # "FileSync"

\* No change of another device can be broadcast into the sync.
Quiet == "there" \notin disturbed \/ MaxBroadcasts = 0

\* While it runs, all that counts is accounted for, unless another device has
\* broadcast something; when it is complete, it is over.
HandledInv ==
    /\ TransferInv
    /\ phase = "files" => ~done /\ ChunksKept /\ (Quiet => Accounted)
    /\ phase = "settings" /\ done /\ Quiet => Over

\* The sync's loop returns when it is complete.
LEMMA LoopHandled ==
    ASSUME HandledInv, TransferInv', ClientReceives
    PROVE  HandledInv'
<1>1. phase = "files" /\ ReturnIfComplete /\ (Quiet' <=> Quiet)
  BY DEF ClientReceives, ReceiveDetail, ReceivePage, ReceiveTransfer, ReceiveEnd, Receive,
         Quiet
<1>2. ~done /\ ChunksKept /\ ChunksKept'
  BY <1>1, ClientChunks DEF HandledInv
<1>3. Quiet' => Accounted'
  BY <1>1, <1>2, ClientCounts DEF HandledInv
<1>4. CASE SyncComplete'
  <2>1. phase' = "settings"
    BY <1>1, <1>4 DEF ReturnIfComplete
  <2>2. Quiet' => Over'
    BY <1>2, <1>3, <1>4, CompleteIsHandledNext DEF Over
  <2> QED
    BY <2>1, <2>2 DEF HandledInv
<1>5. CASE ~SyncComplete'
  BY <1>1, <1>2, <1>3, <1>5 DEF ReturnIfComplete, HandledInv
<1> QED
  BY <1>4, <1>5

\* When it is over, the setting sync and the server find only pages and times.
LEMMA StaysOver ==
    ASSUME TransferInv, TransferInv', Over, phase = "settings",
           ReceiveElsewhere \/ ServerSteps
    PROVE  Over'
<1>1. /\ TypeOK /\ TypeOK' /\ toClient \in Seq(ServerMsgs) /\ toServer \in Seq(ClientMsgs)
  BY DEF TransferInv, TypeOK
<1>2. /\ Counted(owed) = {} /\ Counted(onPage) = {}
      /\ \A m \in Said(toClient) : m.type \notin Owing \cup {"Chunk"}
      /\ \A m \in Said(toServer) : m.type \notin Asking \cup {"FileSync"}
      /\ sending = {} /\ downloads = {} /\ uploads = {}
  BY <1>1, NothingLeftSaid DEF Over
<1>3. SUFFICES /\ Counted(owed') = {} /\ Counted(onPage') = {}
               /\ \A m \in Said(toClient') : m.type \notin Owing \cup {"Chunk"}
               /\ \A m \in Said(toServer') : m.type \notin Asking \cup {"FileSync"}
               /\ sending' = {} /\ downloads' = {} /\ uploads' = {}
  <2>1. (TypeOK => (NothingLeft <=>
              /\ Counted(owed) = {} /\ Counted(onPage) = {}
              /\ \A m \in Said(toClient) : m.type \notin Owing \cup {"Chunk"}
              /\ \A m \in Said(toServer) : m.type \notin Asking
              /\ sending = {} /\ downloads = {} /\ uploads = {}))'
    BY NothingLeftSaid, PTL
  <2> QED
    BY <1>1, <2>1 DEF Over
<1>4. CASE ReceiveElsewhere
  <2> DEFINE m == Head(toClient)
  <2>1. /\ toClient # <<>> /\ toClient' = Tail(toClient) /\ UNCHANGED serverVars
        /\ \/ m.type \in HandledIn("settings") /\ Apply(m) /\ toServer' = toServer \o Replies(m)
           \/ UNCHANGED <<engineVars, toServer>>
    BY <1>4 DEF ReceiveElsewhere
  <2>2. Said(toClient) = {m} \cup Said(toClient')
    BY <1>1, <2>1, SaidTail
  <2>3. CASE m.type \in HandledIn("settings") /\ Apply(m) /\ toServer' = toServer \o Replies(m)
    <3>1. m.type = "FileSyncMtime"
      BY <1>2, <2>2, <2>3 DEF HandledIn, Owing
    <3>2. UNCHANGED <<downloads, uploads>> /\ Replies(m) = <<>>
      BY <2>3, <3>1 DEF Apply, HandleSyncMtime, Replies
    <3>3. toServer' = toServer
      BY <1>1, <2>3, <3>2
    <3> QED
      BY <1>2, <2>1, <2>2, <3>2, <3>3 DEF serverVars
  <2>4. CASE UNCHANGED <<engineVars, toServer>>
    BY <1>2, <2>1, <2>2, <2>4 DEF serverVars, engineVars
  <2> QED
    BY <2>1, <2>3, <2>4
<1>5. ASSUME NEW type, FromClient(type)
      PROVE  /\ type \notin Asking \cup {"FileSync"} /\ UNCHANGED <<downloads, uploads>>
             /\ \A m \in Said(toServer') : m.type \notin Asking \cup {"FileSync"}
  <2>1. /\ toServer # <<>> /\ Head(toServer).type = type /\ toServer' = Tail(toServer)
        /\ UNCHANGED <<downloads, uploads>>
    BY <1>5 DEF FromClient
  <2>2. Said(toServer) = {Head(toServer)} \cup Said(Tail(toServer))
    BY <1>1, <2>1, SaidTail
  <2> QED
    BY <1>2, <2>1, <2>2
<1>6. CASE ServerStartsPage
  <2>1. /\ FromClient("FileSyncPageAck") /\ sending' = sending
        /\ \/ UNCHANGED <<owed, onPage, toClient>>
           \/ /\ onPage' \in SUBSET owed /\ owed' = owed \ onPage'
              /\ \E m \in ServerMsgs : m.type = "FileSyncPage"
                                       /\ toClient' = Append(toClient, m)
    BY <1>1, <1>6, PageStarted
  <2>2. Counted(owed') = {} /\ Counted(onPage') = {}
    BY <1>2, <2>1 DEF Counted
  <2>3. \A m \in Said(toClient') : m.type \notin Owing \cup {"Chunk"}
    <3>1. CASE toClient' = toClient
      BY <1>2, <3>1
    <3>2. ASSUME NEW m \in ServerMsgs, m.type = "FileSyncPage",
                 toClient' = Append(toClient, m)
          PROVE  <2>3!:
      <4>1. Said(toClient') = Said(toClient) \cup {m}
        BY <1>1, <3>2, SaidAppend
      <4> QED
        BY <1>2, <3>2, <4>1 DEF Owing
    <3> QED
      BY <2>1, <3>1, <3>2
  <2> QED
    BY <1>2, <1>5, <2>1, <2>2, <2>3
<1>7. CASE ServerSendsDetail
  <2>1. PICK d \in onPage : \E m \in ServerMsgs :
          /\ d \in Findings /\ m \in DetailMsgs(d) /\ m.type = d.type /\ m.path = d.path
          /\ onPage' = onPage \ {d} /\ toClient' = Append(toClient, m)
    BY <1>1, <1>7, DetailSent
  <2>2. PICK m \in ServerMsgs : /\ m.type = d.type /\ onPage' = onPage \ {d}
                                /\ toClient' = Append(toClient, m)
    BY <2>1
  <2>3. UNCHANGED <<toServer, owed, sending, downloads, uploads>>
    BY <1>1, <1>7, DetailSent DEF engineVars
  <2>4. d.type = "FileSyncMtime" /\ Counted(onPage') = {}
    BY <1>2, <2>2 DEF Counted
  <2>5. Said(toClient') = Said(toClient) \cup {m}
    BY <1>1, <2>2, SaidAppend
  <2> QED
    BY <1>2, <2>2, <2>3, <2>4, <2>5 DEF Owing
<1>8. ~ServerSendsChunk
  BY <1>2 DEF ServerSendsChunk
<1>9. ~ServerAnswersSync /\ ~ServerStartsDownload /\ ~ServerAcceptsChunks
  BY <1>5 DEF ServerAnswersSync, ServerStartsDownload, ServerAcceptsChunks, Asking
<1> QED
  BY <1>4, <1>6, <1>7, <1>8, <1>9 DEF ServerSteps

\* A change by the user or another device takes away or adds no chunk, and
\* when only the user has changed something nothing that is counted.
LEMMA ChangeHandled == HandledInv /\ TransferInv' /\ Changes => HandledInv'
<1> SUFFICES ASSUME HandledInv, TransferInv', Changes PROVE HandledInv'
  OBVIOUS
<1>1. TypeOK
  BY DEF HandledInv, TransferInv
<1>2. ASSUME NEW f \in Files, NEW c \in Contents \cup {Absent}, UserChanges(f, c)
      PROVE  HandledInv'
  <2>1. /\ UNCHANGED <<downloads, uploads, phase, sessionVars, toServer, toClient,
                       owed, onPage, sending, done>>
        /\ Quiet' <=> Quiet
    BY <1>2 DEF UserChanges, Change, Quiet
  <2>2. ChunksKept => ChunksKept'
    BY <2>1 DEF ChunksKept, ChunksOnce, ChunksAwaited, Awaited
  <2>3. Accounted => Accounted'
    BY <2>1 DEF Accounted, Asked, Answered, Announced, NothingYet, Outstanding, sessionVars
  <2>4. Over => Over'
    BY <2>1 DEF Over, NothingLeft, InTransit
  <2> QED
    BY <2>1, <2>2, <2>3, <2>4 DEF HandledInv
<1>3. ASSUME NEW m \in ServerMsgs, m.type # "Chunk", Change("there"), Broadcast(m)
      PROVE  HandledInv'
  <2>1. /\ UNCHANGED <<downloads, uploads, phase, sessionVars, toServer, owed, onPage,
                       sending, done>>
        /\ toClient' = toClient \/ toClient' = Append(toClient, m)
    BY <1>3 DEF Change, Broadcast
  <2>2. ChunksKept => ChunksKept'
    BY <1>1, <1>3, <2>1, ChunksOtherSent
  <2>3. Quiet' => Quiet /\ toClient' = toClient
    <3>1. "there" \in disturbed' /\ broadcasts \in Nat
      BY <1>1, <1>3 DEF Change, TypeOK, CountTypeOK
    <3>2. MaxBroadcasts = 0 => ~(broadcasts < MaxBroadcasts)
      BY <3>1
    <3> QED
      BY <1>3, <3>1, <3>2 DEF Quiet, Broadcast
  <2>4. Quiet' /\ Accounted => Accounted'
    BY <2>1, <2>3 DEF Accounted, Asked, Answered, Announced, NothingYet, Outstanding,
       sessionVars
  <2>5. Quiet' /\ Over => Over'
    BY <2>1, <2>3 DEF Over, NothingLeft, InTransit
  <2> QED
    BY <2>1, <2>2, <2>3, <2>4, <2>5 DEF HandledInv
<1>4. ASSUME NEW f \in Files, NEW c \in Contents \cup {Absent}, RemoteChanges(f, c)
      PROVE  HandledInv'
  <2>1. Change("there") /\ \E m \in ServerMsgs : m.type # "Chunk" /\ Broadcast(m)
    <3>1. [type |-> "FileSyncDelete", path |-> f] \in ServerMsgs
      BY DEF ServerMsgs
    <3>2. \A content \in {Absent, c} :
            [type |-> "FileSyncUpdate", path |-> f, content |-> content] \in ServerMsgs
      BY DEF ServerMsgs
    <3>3. CASE c = Absent
      BY <1>4, <3>1, <3>3 DEF RemoteChanges
    <3>4. CASE c # Absent
      BY <1>4, <3>2, <3>4 DEF RemoteChanges
    <3> QED
      BY <1>4, <3>3, <3>4 DEF RemoteChanges
  <2> QED
    BY <1>3, <2>1
<1>5. ASSUME NEW old \in Files, NEW new \in Files, RemoteRenames(old, new)
      PROVE  HandledInv'
  <2>1. [type |-> "FileSyncRename", old |-> old, path |-> new] \in ServerMsgs
    BY DEF ServerMsgs
  <2> QED
    BY <1>3, <1>5, <2>1 DEF RemoteRenames
<1> QED
  BY <1>2, <1>4, <1>5 DEF Changes

\* An upload of a file that changes meanwhile is asked for and counted like any
\* other; one that fails ends the sync, which is then not complete.
LEMMA ChangedHandled ==
    ASSUME HandledInv, TransferInv', ChangedUpload \/ UploadVanishes
    PROVE  HandledInv'
<1>1. PICK m : m = Head(toClient)
  OBVIOUS
<1>2. /\ phase # "idle" /\ toClient # <<>> /\ m.type = "FileUpload"
      /\ toClient' = Tail(toClient) /\ disturbed' = disturbed \cup {"here"}
      /\ UNCHANGED <<downloads, expected, received, gotEnd, owed, onPage, sending>>
  BY <1>1 DEF ChangedUpload, UploadVanishes, ChangeBetweenReads, Take, serverVars
<1>3. /\ TypeOK /\ TypeOK' /\ TransferInv /\ page \in Pages /\ received \in Nat
      /\ toServer \in Seq(ClientMsgs) /\ toClient \in Seq(ServerMsgs)
      /\ m \in Said(toClient) /\ (Quiet' <=> Quiet)
  BY <1>1, <1>2, SaidTail DEF HandledInv, TransferInv, TypeOK, SessionTypeOK, Quiet
<1>4. m.path \in Files /\ m.id \in Nat
  BY <1>1, <1>2, <1>3, HeadType DEF PageTypes
<1>5. phase = "settings" /\ done => ~Quiet
  <2>1. ~Over
    BY <1>2, <1>3, NothingLeftSaid DEF Over, Owing
  <2> QED
    BY <2>1 DEF HandledInv
<1>6. CASE phase # "files"
  <2>1. phase' \in {phase, "live"} /\ done' = done
    BY <1>6 DEF ChangedUpload, UploadVanishes
  <2> QED
    BY <1>3, <1>5, <1>6, <2>1 DEF HandledInv
<1>7. CASE phase = "files" /\ UploadVanishes
  <2>1. phase' = "settings" /\ done' = done
    BY <1>7 DEF UploadVanishes
  <2> QED
    BY <1>7, <2>1 DEF HandledInv
<1>8. CASE phase = "files" /\ ChangedUpload
  <2> DEFINE pg == [page EXCEPT !.received = IF page.active THEN @ + 1 ELSE @]
  <2>1. PICK c \in Contents : /\ HandleChangedUpload(m.id, m.path, c)
                              /\ FinishPage(pg, <<ChunksOf(m.id, m.path, c)>>)
                              /\ ReturnIfComplete
    BY <1>1, <1>8 DEF ChangedUpload
  <2>2. pg \in Pages
    BY <1>3 DEF Pages
  <2> DEFINE sent == ChunksOf(m.id, m.path, c)
  <2>3. sent \in ClientMsgs /\ sent.type \in Asking
    BY <1>4 DEF ChunksOf, ClientMsgs, Asking
  <2>4. FinishPage(pg, <<sent>>)
    BY <2>1
  <2> HIDE DEF pg, sent
  <2>5. /\ Number(toServer', Asking) = Number(toServer, Asking) + 1
        /\ \A n \in Said(toServer') : n \in Said(toServer) \/ n = PageAck(pg.index)
                                      \/ n.type \in Asking
    BY <1>3, <2>2, <2>3, <2>4, FinishSends
  <2>6. \A n \in Said(toServer') : n \in Said(toServer) \/ n.type # "FileSync"
    BY <2>5 DEF PageAck, Asking
  <2>7. ~done /\ ChunksKept
    BY <1>8 DEF HandledInv
  <2>8. ChunksKept'
    BY <1>1, <1>2, <1>3, <2>7, ChunksOtherTaken
  <2>9. Cardinality(downloads) \in Nat
    BY <2>7, FS_CardinalityType DEF ChunksKept
  <2>10. received' = received + 0
    BY <1>2, <1>3
  <2>11. 0 + 1 + Cardinality(downloads')
            <= Cardinality(downloads) + IF m.type \in Owing THEN 1 ELSE 0
    BY <1>2, <2>9 DEF Owing
  <2>12. Accounted => Accounted'
    BY <1>1, <1>2, <1>3, <2>5, <2>6, <2>7, <2>8, <2>10, <2>11, TakenCounts
  <2>13. ~SyncComplete'
    BY <2>1 DEF HandleChangedUpload, Uploading, SyncComplete
  <2>14. ~done'
    BY <2>1, <2>7, <2>13 DEF ReturnIfComplete
  <2> QED
    BY <1>3, <1>8, <2>8, <2>12, <2>14 DEF HandledInv
<1> QED
  BY <1>6, <1>7, <1>8

\* The initial states satisfy it, as no sync runs.
LEMMA HandledInit == Init => HandledInv
<1> SUFFICES ASSUME Init PROVE HandledInv
  OBVIOUS
<1>1. phase = "idle"
  BY DEF Init
<1> QED
  BY <1>1, TransferInit DEF HandledInv

\* Each step preserves it.
LEMMA HandledStep == HandledInv /\ [Next]_vars => HandledInv'
<1> SUFFICES ASSUME HandledInv, [Next]_vars PROVE HandledInv'
  OBVIOUS
<1>1. TransferInv /\ TransferInv'
  BY TransferStep DEF HandledInv
<1>2. CASE RequestSync
  <2>1. phase' = "files"
    BY <1>2 DEF RequestSync
  <2> QED
    BY <1>1, <1>2, <2>1, RequestCounts DEF HandledInv, Accounted
<1>3. CASE ClientReceives
  BY <1>1, <1>3, LoopHandled
<1>4. CASE ReceiveElsewhere
  <2>1. phase \in {"settings", "live"} /\ UNCHANGED <<phase, done, disturbed>>
    BY <1>4 DEF ReceiveElsewhere, ghostVars
  <2> QED
    BY <1>1, <1>4, <2>1, StaysOver DEF HandledInv, Quiet
<1>5. CASE HandlerFails
  <2>1. /\ phase' = IF phase = "files" THEN "settings" ELSE "live"
        /\ done' = done
    BY <1>5 DEF HandlerFails, ghostVars
  <2> QED
    BY <1>1, <2>1 DEF HandledInv
<1>6. CASE EndSettings
  BY <1>1, <1>6 DEF EndSettings, HandledInv
<1>7. CASE Disconnect \/ Restart
  BY <1>1, <1>7 DEF Disconnect, Restart, ConnectionLost, HandledInv
<1>8. CASE ServerSteps
  <2>1. UNCHANGED <<phase, done, disturbed>>
    BY <1>8 DEF ServerSteps, ServerAnswersSync, ServerStartsPage, ServerSendsDetail,
                ServerStartsDownload, ServerSendsChunk, ServerAcceptsChunks,
                FromClient, ghostVars
  <2> QED
    BY <1>1, <1>8, <2>1, ServerChunks, ServerCounts, StaysOver DEF HandledInv, Quiet
<1>9. CASE Changes
  BY <1>1, <1>9, ChangeHandled
<1>11. CASE ChangedUpload \/ UploadVanishes
  BY <1>1, <1>11, ChangedHandled
<1>10. CASE UNCHANGED vars
  <2>1. UNCHANGED <<downloads, uploads, phase, sessionVars, toServer, toClient,
                    owed, onPage, sending, done, disturbed>>
    BY <1>10 DEF vars, engineVars, serverVars, ghostVars
  <2>2. ChunksKept => ChunksKept'
    BY <2>1 DEF ChunksKept, ChunksOnce, ChunksAwaited, Awaited
  <2>3. Accounted => Accounted'
    BY <2>1 DEF Accounted, Asked, Answered, Announced, NothingYet, Outstanding, sessionVars
  <2>4. Over => Over'
    BY <2>1 DEF Over, NothingLeft, InTransit
  <2> QED
    BY <1>1, <2>1, <2>2, <2>3, <2>4 DEF HandledInv, Quiet
<1> QED
  BY <1>2, <1>3, <1>4, <1>5, <1>6, <1>7, <1>8, <1>9, <1>10, <1>11 DEF Next

\* A file sync that is complete while the other devices are silent has handled
\* all that was announced: nothing that counts is owed, on a page, asked for
\* or on its way, and no transfer is unfinished (is_complete, after the counts
\* of handle_message).
THEOREM CompleteHandled == Spec => []CompleteMeansHandled
<1>1. HandledInv => CompleteMeansHandled
  BY DEF HandledInv, Quiet, Over, CompleteMeansHandled
<1> QED
  BY HandledInit, HandledStep, <1>1, PTL DEF Spec
---------------------------------------------------------------------------
(* Contents: what is under way makes the two sides the same.               *)

\* The findings not sent, and the messages under way.
Items == owed \cup onPage \cup Said(toClient) \cup Said(toServer)

\* The items that lead to an upload of their file, and to its download or
\* deletion.
Upward == {"FileUpload", "Chunks"}
Downward == {"FileSyncUpdate", "FileSyncDelete", "FileSyncChunkDownload",
             "FileChunkDownload"}

\* The server will get the client's file, and the client the server's.
Up(f) == \E x \in Items : x.type \in Upward /\ x.path = f
Down(f) ==
    \/ \E x \in Items : x.type \in Downward /\ x.path = f
    \/ \E d \in downloads : d.path = f

\* A file that differs is on its way, or has been skipped.
Reconciled ==
    \A f \in Files : disk[f] = srv[f] \/ f \in skipped \/ Up(f) \/ Down(f)

\* No file is on its way in both directions.
Apart == \A f \in Files : ~(Up(f) /\ Down(f))

\* What an item says of the file on the side that it comes from.
RightItem(x) ==
    /\ x.type \in {"FileSyncUpdate", "FileChunkDownload"} => srv[x.path] # Absent
    /\ x.type = "FileSyncDelete" => srv[x.path] = Absent
    /\ x.type = "FileUpload" => disk[x.path] # Absent
    /\ x.type = "Chunks" => x.data = disk[x.path]
    /\ x.type \notin {"FileSync", "FileSyncRename"}

\* What an update carries, and a download of no chunks stands for.
RightMsg(m) ==
    /\ m.type = "FileSyncUpdate" => m.content \in {Absent, srv[m.path]}
    /\ m.type = "FileSyncChunkDownload" /\ m.count = 0 => srv[m.path] = Empty

\* The same of everything under way.
AllRight ==
    /\ \A x \in Items : RightItem(x)
    /\ \A m \in Said(toClient) : RightMsg(m)

\* The session's download, active or announced, is of this file.
Serves(id, f) ==
    \/ \E d \in downloads : d.id = id /\ d.path = f
    \/ \E m \in Said(toClient) :
          m.type = "FileSyncChunkDownload" /\ m.id = id /\ m.path = f

\* A session is of one file, and its chunks are of the server's content of it.
OfServer ==
    \A id, f : Serves(id, f) =>
        /\ \A g : Serves(id, g) => g = f
        /\ \A t \in sending : t.id = id => t.data = srv[f]
        /\ \A m \in Said(toClient) : m.type = "Chunk" /\ m.id = id => m.data = srv[f]

\* Between the answer and the end.
Settling == Reconciled /\ Apart /\ AllRight /\ OfServer

\* The moving items are about files.
LEMMA ItemPaths ==
    ASSUME TypeOK
    PROVE  \A x \in Items : x.type \in Upward \cup Downward => x.path \in Files
<1>1. ASSUME NEW x \in Findings PROVE x.path \in Files
  BY DEF Findings
<1>2. ASSUME NEW m \in ServerMsgs, m.type \in Upward \cup Downward PROVE m.path \in Files
  BY <1>2 DEF ServerMsgs, Upward, Downward
<1>3. ASSUME NEW m \in ClientMsgs, m.type \in Upward \cup Downward PROVE m.path \in Files
  BY <1>3 DEF ClientMsgs, Upward, Downward
<1>4. Said(toClient) \subseteq ServerMsgs /\ Said(toServer) \subseteq ClientMsgs
  BY DEF TypeOK, Said
<1>5. owed \cup onPage \subseteq Findings
  BY DEF TypeOK, ServerTypeOK
<1> QED
  BY <1>1, <1>2, <1>3, <1>4, <1>5 DEF Items

\* A step that finishes what is under way for the files F, and for the others
\* moves it on.
LEMMA StillSettling ==
    ASSUME TypeOK, Reconciled, Apart, AllRight, NEW F \in SUBSET Files,
           \A g \in Files : /\ disk'[g] # disk[g] => g \in F /\ Down(g)
                            /\ srv'[g] # srv[g] => g \in F /\ Up(g),
           skipped \subseteq skipped',
           \A x \in Items : x.type \in Upward \cup Downward =>
              x.path \in F \/ \E y \in Items' : y.type = x.type /\ y.path = x.path,
           \A y \in Items' : \/ y \in Items
                             \/ /\ RightItem(y)'
                                /\ y.type \in Upward => Up(y.path)
                                /\ y.type \in Downward => Down(y.path),
           \A m \in Said(toClient') : m \in Said(toClient) \/ RightMsg(m)',
           \A d \in downloads : d.path \in F \/ \E e \in downloads' : e.path = d.path,
           \A e \in downloads' : Down(e.path),
           \A f \in F : disk'[f] = srv'[f] \/ f \in skipped' \/ Up(f)' \/ Down(f)'
    PROVE  Reconciled' /\ Apart' /\ AllRight'
<1>1. \A f : (Up(f)' => Up(f)) /\ (Down(f)' => Down(f))
  BY DEF Up, Down
<1>2. Apart'
  BY <1>1 DEF Apart
<1>3. Reconciled'
  <2> SUFFICES ASSUME NEW f \in Files, f \notin F
               PROVE  disk'[f] = srv'[f] \/ f \in skipped' \/ Up(f)' \/ Down(f)'
    BY DEF Reconciled
  <2>1. disk[f] = srv[f] \/ f \in skipped \/ Up(f) \/ Down(f)
    BY DEF Reconciled
  <2>2. (Up(f) => Up(f)') /\ (Down(f) => Down(f)')
    BY DEF Up, Down
  <2> QED
    BY <2>1, <2>2
<1>4. \A x \in Items : x.type \in Upward \cup Downward => x.path \in Files
  BY ItemPaths
<1>5. ASSUME NEW x \in Items PROVE RightItem(x)'
  <2>1. RightItem(x)
    BY DEF AllRight
  <2>2. x.type \in Upward => x.path \in Files /\ disk'[x.path] = disk[x.path]
    BY <1>4 DEF Apart, Up
  <2>3. x.type \in Downward => x.path \in Files /\ srv'[x.path] = srv[x.path]
    BY <1>4 DEF Apart, Down
  <2> QED
    BY <2>1, <2>2, <2>3 DEF RightItem, Upward, Downward
<1>6. ASSUME NEW m \in Said(toClient) PROVE RightMsg(m)'
  <2>1. RightMsg(m) /\ m \in Items
    BY DEF AllRight, Items
  <2>2. m.type \in Downward => m.path \in Files /\ srv'[m.path] = srv[m.path]
    BY <1>4, <2>1 DEF Apart, Down
  <2> QED
    BY <2>1, <2>2 DEF RightMsg, Downward
<1> QED
  BY <1>2, <1>3, <1>5, <1>6 DEF AllRight

\* What is under way for a file whose download is announced or active.
LEMMA ServesDown == ASSUME NEW id, NEW f, Serves(id, f) PROVE Down(f)
  BY DEF Serves, Down, Items, Downward

\* The client takes a message: what it leads to for its file has been done, or
\* goes on.
LEMMA TakenSettles ==
    ASSUME TypeOK, Settling, NEW F \in SUBSET Files,
           toClient # <<>>, toClient' = Tail(toClient), NEW m, m = Head(toClient),
           UNCHANGED <<srv, owed, onPage, sending>>,
           \A g \in Files : disk'[g] # disk[g] => g \in F /\ Down(g),
           skipped \subseteq skipped',
           m.type \in Upward \cup Downward => m.path \in F,
           Said(toServer) \subseteq Said(toServer'),
           \A n \in Said(toServer') :
              \/ n \in Said(toServer) \/ n.type = "FileSyncPageAck"
              \/ /\ RightItem(n)'
                 /\ n.type \in Upward => Up(n.path)
                 /\ n.type \in Downward => Down(n.path),
           \A d \in downloads : d.path \in F \/ \E e \in downloads' : e.path = d.path,
           \A e \in downloads' : Serves(e.id, e.path),
           \A f \in F : disk'[f] = srv[f] \/ f \in skipped' \/ Up(f)' \/ Down(f)'
    PROVE  Settling'
<1>1. toClient \in Seq(ServerMsgs)
  BY DEF TypeOK
<1>2. Said(toClient) = {m} \cup Said(toClient')
  BY <1>1, SaidTail
<1>3. \A x \in Items : x \in Items' \/ x = m
  BY <1>2 DEF Items
<1>4. \A y \in Items' : y \in Items \/ y \in Said(toServer')
  BY <1>2 DEF Items
<1>5. \A y : y.type = "FileSyncPageAck" => RightItem(y)' /\ y.type \notin Upward \cup Downward
  BY DEF RightItem, Upward, Downward
<1>6. \A y \in Items' : \/ y \in Items
                        \/ /\ RightItem(y)'
                           /\ y.type \in Upward => Up(y.path)
                           /\ y.type \in Downward => Down(y.path)
  BY <1>4, <1>5 DEF Items
<1>7. \A x \in Items : x.type \in Upward \cup Downward =>
        x.path \in F \/ \E y \in Items' : y.type = x.type /\ y.path = x.path
  BY <1>3
<1>8. \A e \in downloads' : Down(e.path)
  BY ServesDown
<1>9. Reconciled' /\ Apart' /\ AllRight'
  <2>1. \A n \in Said(toClient') : n \in Said(toClient)
    BY <1>2
  <2>2. Reconciled /\ Apart /\ AllRight
    BY DEF Settling
  <2> QED
    BY <1>6, <1>7, <1>8, <2>1, <2>2, StillSettling
<1>10. OfServer'
  <2>1. \A id, f : Serves(id, f)' => Serves(id, f)
    BY <1>2 DEF Serves
  <2> QED
    BY <1>2, <2>1 DEF OfServer, Settling
<1> QED
  BY <1>9, <1>10 DEF Settling

\* What a queue of one message says.
LEMMA SaidOne == \A n : Said(<<n>>) = {n}
  BY DEF Said

\* A message of a page: its file is made the same, or it is asked for, or sent,
\* or excused.
LEMMA DetailSettles ==
    ASSUME TransferInv, Settling, ReceiveDetail
    PROVE  Settling'
<1>1. PICK m : m = Head(toClient)
  OBVIOUS
<1>2. PICK pg : pg = [page EXCEPT !.received = IF page.active THEN @ + 1 ELSE @]
  OBVIOUS
<1>3. /\ TypeOK /\ NeverTorn /\ toClient # <<>> /\ toClient' = Tail(toClient)
      /\ m.type \in PageTypes /\ Apply(m) /\ Note(m) /\ FinishPage(pg, Replies(m))
      /\ UNCHANGED <<srv, owed, onPage, sending>>
  BY <1>1, <1>2 DEF TransferInv, ReceiveDetail, Receive, Take, serverVars
<1>4. /\ m \in ServerMsgs /\ m.path \in Files /\ m \in Said(toClient) /\ m \in Items
      /\ m.type = "FileSyncUpdate" => m.content \in Contents \cup {Absent}
  BY <1>1, <1>3, HeadType, SaidTail DEF TypeOK, Items
<1>5. /\ RightItem(m) /\ RightMsg(m)
      /\ m.type \in Downward => Down(m.path)
      /\ m.type \in Upward => Up(m.path)
  BY <1>4 DEF Settling, AllRight, Up, Down
<1>6. downloads' = downloads /\ \A e \in downloads' : Serves(e.id, e.path)
  BY <1>3, PageKeepsDownloads DEF Serves
<1>7. /\ \A n \in Said(toServer') : \/ n \in Said(toServer) \/ n = PageAck(pg.index)
                                    \/ Replies(m) = <<n>>
      /\ Said(toServer) \cup Said(Replies(m)) \subseteq Said(toServer')
  <2>1. pg \in Pages
    <3>1. page \in Pages
      BY <1>3 DEF TypeOK, SessionTypeOK
    <3> QED
      BY <1>2, <3>1 DEF Pages
  <2>2. Replies(m) = <<>> \/ \E x \in ClientMsgs : x.type \in Asking /\ Replies(m) = <<x>>
    BY <1>1, <1>3, RepliesAsk DEF Handled
  <2> QED
    BY <1>3, <2>1, <2>2, FinishSends
<1>8. PageAck(pg.index).type = "FileSyncPageAck"
  BY DEF PageAck
<1>9. ASSUME \A g \in Files : disk'[g] # disk[g] => g = m.path /\ m.type \in Downward,
             skipped \subseteq skipped',
             \A n : Replies(m) = <<n>> =>
                /\ RightItem(n)'
                /\ n.type \in Upward => m.type \in Upward /\ n.path = m.path
                /\ n.type \in Downward => m.type \in Downward /\ n.path = m.path,
             m.type \in Upward \cup Downward =>
                \/ disk'[m.path] = srv[m.path] \/ m.path \in skipped'
                \/ Up(m.path)' \/ Down(m.path)'
      PROVE  Settling'
  <2> DEFINE F == IF m.type \in Upward \cup Downward THEN {m.path} ELSE {}
  <2>1. F \in SUBSET Files /\ (m.type \in Upward \cup Downward => m.path \in F)
    BY <1>4
  <2>2. \A f \in F : disk'[f] = srv[f] \/ f \in skipped' \/ Up(f)' \/ Down(f)'
    BY <1>9
  <2>3. \A g \in Files : disk'[g] # disk[g] => g \in F /\ Down(g)
    BY <1>5, <1>9
  <2> HIDE DEF F
  <2>4. \A n \in Said(toServer') :
           \/ n \in Said(toServer) \/ n.type = "FileSyncPageAck"
           \/ /\ RightItem(n)'
              /\ n.type \in Upward => Up(n.path)
              /\ n.type \in Downward => Down(n.path)
    BY <1>5, <1>7, <1>8, <1>9
  <2>5. Said(toServer) \subseteq Said(toServer')
    BY <1>7
  <2>6. \A d \in downloads : d.path \in F \/ \E e \in downloads' : e.path = d.path
    BY <1>6
  <2> QED
    BY <1>1, <1>3, <1>6, <1>9, <2>1, <2>2, <2>3, <2>4, <2>5, <2>6, TakenSettles
<1>10. disk \in [Files -> Contents \cup {Absent, Torn}]
  BY <1>3 DEF TypeOK, EngineTypeOK
<1>11. CASE m.type = "FileSyncUpdate"
  <2>1. HandleSyncUpdate(m.path, m.content) /\ skipped' = skipped /\ m.type \in Downward
    BY <1>3, <1>11 DEF Apply, Note, Skips, Downward
  <2>2. CASE m.content # Absent
    <3>1. disk' = [disk EXCEPT ![m.path] = srv[m.path]] /\ Replies(m) = <<>>
      BY <1>5, <1>11, <2>1, <2>2 DEF HandleSyncUpdate, Written, RightMsg, Replies
    <3> QED
      BY <1>4, <1>9, <1>10, <2>1, <3>1
  <2>3. CASE m.content = Absent
    <3>1. PICK n : n = ChunkRequest(m.path)
      OBVIOUS
    <3>2. disk' = disk /\ Replies(m) = <<n>>
      BY <1>11, <2>1, <2>3, <3>1 DEF HandleSyncUpdate, Replies
    <3>3. n.type = "FileChunkDownload" /\ n.path = m.path
      BY <3>1 DEF ChunkRequest
    <3>4. RightItem(n)' /\ n.type \in Downward /\ n.type \notin Upward
      BY <1>3, <1>5, <1>11, <3>3 DEF RightItem, Downward, Upward
    <3>5. Down(m.path)'
      <4>1. n \in Said(toServer')
        BY <1>7, <3>2, SaidOne
      <4> QED
        BY <3>3, <3>4, <4>1 DEF Down, Items
    <3>6. \A x : Replies(m) = <<x>> => x = n
      BY <3>2
    <3> QED
      BY <1>9, <2>1, <3>2, <3>3, <3>4, <3>5, <3>6
  <2> QED
    BY <2>2, <2>3
<1>12. CASE m.type = "FileSyncDelete"
  <2>1. /\ HandleSyncDelete(m.path) /\ Replies(m) = <<>> /\ m.type \in Downward
        /\ skipped' = IF DeleteEchoed(m.path) THEN skipped \cup {m.path} ELSE skipped
    BY <1>3, <1>12 DEF Apply, Note, Skips, Replies, Downward
  <2>2. srv[m.path] = Absent
    BY <1>5, <1>12 DEF RightItem
  <2>3. CASE DeleteEchoed(m.path)
    <3>1. disk' = disk /\ m.path \in skipped' /\ skipped \subseteq skipped'
      BY <2>1, <2>3 DEF HandleSyncDelete, engineVars
    <3> QED
      BY <1>9, <2>1, <3>1
  <2>4. CASE ~DeleteEchoed(m.path)
    <3>1. disk' = [disk EXCEPT ![m.path] = srv[m.path]] /\ skipped' = skipped
      BY <2>1, <2>2, <2>4 DEF HandleSyncDelete
    <3> QED
      BY <1>4, <1>9, <1>10, <2>1, <3>1
  <2> QED
    BY <2>3, <2>4
<1>13. CASE m.type = "FileSyncMtime"
  <2>1. /\ disk' = disk /\ skipped' = skipped /\ Replies(m) = <<>>
        /\ m.type \notin Upward \cup Downward
    BY <1>3, <1>13 DEF Apply, HandleSyncMtime, Note, Skips, Replies, Upward, Downward
  <2> QED
    BY <1>9, <2>1
<1>14. CASE m.type = "FileUpload"
  <2>1. disk' = disk /\ m.type \in Upward
    BY <1>3, <1>14 DEF Apply, HandleUploadSession, Upward
  <2>2. disk[m.path] # Absent
    BY <1>5, <1>14 DEF RightItem
  <2>3. CASE Uploads(m.path)
    <3>1. PICK n : n = [type |-> "Chunks", id |-> m.id, path |-> m.path,
                        data |-> disk[m.path]]
      OBVIOUS
    <3>2. Replies(m) = <<n>> /\ skipped' = skipped
      BY <1>3, <1>14, <2>3, <3>1 DEF Replies, UploadMsgs, ChunksOf, Note, Skips, Uploads
    <3>3. n.type = "Chunks" /\ n.path = m.path /\ n.data = disk[m.path]
      BY <3>1
    <3>4. RightItem(n)' /\ n.type \in Upward /\ n.type \notin Downward
      BY <2>1, <3>3 DEF RightItem, Downward, Upward
    <3>5. Up(m.path)'
      <4>1. n \in Said(toServer')
        BY <1>7, <3>2, SaidOne
      <4> QED
        BY <3>3, <3>4, <4>1 DEF Up, Items
    <3>6. \A x : Replies(m) = <<x>> => x = n
      BY <3>2
    <3> QED
      BY <1>9, <2>1, <3>2, <3>3, <3>4, <3>5, <3>6
  <2>4. CASE ~Uploads(m.path)
    <3>1. m.path \in skipped' /\ skipped \subseteq skipped' /\ Replies(m) = <<>>
      BY <1>3, <1>14, <2>2, <2>4 DEF Uploads, Note, Skips, Replies, UploadMsgs, ChunksOf
    <3> QED
      BY <1>9, <2>1, <3>1
  <2> QED
    BY <2>3, <2>4
<1>15. m.type # "FileSyncRename"
  BY <1>5 DEF RightItem
<1> QED
  BY <1>3, <1>11, <1>12, <1>13, <1>14, <1>15 DEF PageTypes

\* All the chunks of a content are put together to it.
LEMMA AssembledOf ==
    ASSUME NEW c \in Contents, NEW n \in Nat, NEW i \in 0..n - 1
    PROVE  Assembled([index : 0..n - 1, data : {c}], n) = c
<1> DEFINE All(x) == [index : 0..n - 1, data : {x}]
<1>1. ASSUME NEW x \in Contents, All(x) = All(c) PROVE x = c
  <2>1. [index |-> i, data |-> c] \in All(x)
    BY <1>1
  <2> QED
    BY <2>1
<1>2. Assembled(All(c), n) = CHOOSE x \in Contents : All(c) = All(x)
  BY DEF Assembled
<1> HIDE DEF All
<1>3. (CHOOSE x \in Contents : All(c) = All(x)) = c
  BY <1>1
<1> QED
  BY <1>2, <1>3 DEF All

\* A message of a transfer: the download starts, or goes on, or leaves the
\* server's content in the vault.
LEMMA TransferSettles ==
    ASSUME TransferInv, Settling, ReceiveTransfer
    PROVE  Settling'
<1>1. PICK m : m = Head(toClient)
  OBVIOUS
<1>2. /\ TypeOK /\ toClient # <<>> /\ toClient' = Tail(toClient) /\ phase # "idle"
      /\ m.type \in {"FileSyncChunkDownload", "FileUploadAck", "Chunk"} /\ Apply(m)
      /\ UNCHANGED <<srv, owed, onPage, sending, toServer, skipped>>
  BY <1>1 DEF TransferInv, ReceiveTransfer, Receive, Take, serverVars
<1>3. /\ m.type = "FileSyncChunkDownload" => m.path \in Files /\ m.count \in Nat
      /\ m \in Said(toClient) /\ m \in Items
  BY <1>1, <1>2, HeadType, SaidTail DEF TypeOK, Items
<1>4. PICK source \in [0..nextId - 1 -> Contents] : OneSource(source)
  BY <1>2 DEF TransferInv, Sourced
<1>5. disk \in [Files -> Contents \cup {Absent, Torn}]
  BY <1>2 DEF TypeOK, EngineTypeOK
<1>6. \A d \in downloads : d.path \in Files /\ Serves(d.id, d.path) /\ Down(d.path)
  BY <1>2, ServesDown DEF Serves, TypeOK, EngineTypeOK
<1>7. ASSUME NEW F \in SUBSET Files,
             \A g \in Files : disk'[g] # disk[g] => g \in F /\ Down(g),
             m.type = "FileSyncChunkDownload" => m.path \in F,
             \A d \in downloads : d.path \in F \/ \E e \in downloads' : e.path = d.path,
             \A e \in downloads' : Serves(e.id, e.path),
             \A f \in F : disk'[f] = srv[f] \/ Down(f)'
      PROVE  Settling'
  <2>1. m.type \in Upward \cup Downward => m.path \in F
    BY <1>2, <1>7 DEF Upward, Downward
  <2> QED
    BY <1>1, <1>2, <1>7, <2>1, TakenSettles
<1>8. {} \in SUBSET Files
  OBVIOUS
<1>9. CASE m.type = "FileUploadAck"
  <2>1. disk' = disk /\ downloads' = downloads
    BY <1>2, <1>9 DEF Apply, HandleUploadAck
  <2> QED
    BY <1>6, <1>7, <1>8, <1>9, <2>1
<1>10. CASE m.type = "FileSyncChunkDownload"
  <2>1. HandleChunkDownloadStart(m.id, m.path, m.count)
    BY <1>2, <1>10 DEF Apply
  <2>2. {m.path} \in SUBSET Files /\ Serves(m.id, m.path) /\ Down(m.path)
    BY <1>3, <1>10, ServesDown DEF Serves
  <2>3. CASE m.count = 0
    <3>1. srv[m.path] = Empty
      BY <1>3, <1>10, <2>3 DEF Settling, AllRight, RightMsg
    <3>2. disk' = [disk EXCEPT ![m.path] = srv[m.path]] /\ downloads' = downloads
      BY <2>1, <2>3, <3>1 DEF HandleChunkDownloadStart, Written
    <3> QED
      BY <1>5, <1>6, <1>7, <2>2, <3>2
  <2>4. CASE m.count # 0
    <3>1. PICK new : new = [id |-> m.id, path |-> m.path, count |-> m.count, chunks |-> {}]
      OBVIOUS
    <3>2. /\ downloads' = { d \in downloads : d.id # m.id } \cup {new} /\ disk' = disk
          /\ new.id = m.id /\ new.path = m.path
      BY <2>1, <2>4, <3>1 DEF HandleChunkDownloadStart, Started
    <3>3. \A d \in downloads : d.id = m.id => d.path = m.path
      BY <1>6, <2>2 DEF Settling, OfServer
    <3>4. \A d \in downloads : d.path \in {m.path} \/ \E e \in downloads' : e.path = d.path
      BY <3>2, <3>3
    <3>5. \A e \in downloads' : Serves(e.id, e.path)
      BY <1>6, <2>2, <3>2
    <3>6. Down(m.path)'
      BY <3>2 DEF Down
    <3> QED
      BY <1>7, <2>2, <3>2, <3>4, <3>5, <3>6
  <2> QED
    BY <2>3, <2>4
<1>11. CASE m.type = "Chunk"
  <2>1. HandleBinaryChunk(m.id, m.index, m.data)
    BY <1>2, <1>11 DEF Apply
  <2>2. CASE UNCHANGED engineVars
    BY <1>6, <1>7, <1>8, <1>11, <2>2 DEF engineVars
  <2>3. ASSUME NEW d \in downloads, d.id = m.id, disk' = disk,
               downloads' = (downloads \ {d})
                       \cup { [d EXCEPT !.chunks = WithChunk(@, m.index, m.data)] }
        PROVE  Settling'
    <3>1. PICK more : more = [d EXCEPT !.chunks = WithChunk(@, m.index, m.data)]
      OBVIOUS
    <3>2. d \in [id : Nat, path : Files, count : Nat \ {0}, chunks : SUBSET Chunks]
      BY <1>2 DEF TypeOK, EngineTypeOK
    <3>3. more.id = d.id /\ more.path = d.path /\ downloads' = (downloads \ {d}) \cup {more}
      BY <2>3, <3>1, <3>2
    <3> QED
      BY <1>6, <1>7, <1>8, <1>11, <2>3, <3>3
  <2>4. ASSUME NEW d \in downloads, d.id = m.id, Completes(d, m.index, m.data),
               downloads' = downloads \ {d},
               Written(d.path, Assembled(WithChunk(d.chunks, m.index, m.data), d.count))
        PROVE  Settling'
    <3>1. PICK c : c = Assembled(WithChunk(d.chunks, m.index, m.data), d.count)
      OBVIOUS
    <3>2. /\ m.data = srv[d.path] /\ m.data = source[m.id] /\ m.data \in Contents
          /\ m.index \in 0..d.count - 1 /\ d.count \in Nat
          /\ d.chunks \subseteq [index : 0..d.count - 1, data : {m.data}]
      <4>1. m.data = srv[d.path]
        BY <1>3, <1>6, <1>11, <2>4 DEF Settling, OfServer
      <4>2. /\ m.index \in 0..ChunkCount[source[m.id]] - 1 /\ m.id \in 0..nextId - 1
            /\ m = [type |-> "Chunk", id |-> m.id, index |-> m.index,
                    data |-> source[m.id]]
        BY <1>3, <1>4, <1>11, SaidSource
      <4>3. m.data = source[m.id] /\ source[m.id] \in Contents
        BY <4>2
      <4>4. /\ d.count \in Nat /\ d.count = ChunkCount[source[d.id]]
            /\ d.chunks \subseteq [index : 0..d.count - 1, data : {source[d.id]}]
        BY <1>4, SaidSource
      <4> QED
        BY <2>4, <4>1, <4>2, <4>3, <4>4
    <3>3. c = m.data
      <4>1. WithChunk(d.chunks, m.index, m.data)
              \in SUBSET [index : 0..d.count - 1, data : {m.data}]
        BY <3>2, AddChunk
      <4>2. WithChunk(d.chunks, m.index, m.data) = [index : 0..d.count - 1, data : {m.data}]
        BY <2>4, <3>2, <4>1, AllThere DEF Completes
      <4> QED
        BY <3>1, <3>2, <4>2, AssembledOf
    <3>4. disk' = [disk EXCEPT ![d.path] = srv[d.path]]
      BY <2>4, <3>1, <3>2, <3>3 DEF Written
    <3>5. {d.path} \in SUBSET Files
      BY <1>6
    <3> QED
      BY <1>5, <1>6, <1>7, <1>11, <2>4, <3>4, <3>5
  <2> QED
    BY <2>1, <2>2, <2>3, <2>4 DEF HandleBinaryChunk
<1> QED
  BY <1>2, <1>9, <1>10, <1>11

\* The steps of the sync's loop.
LEMMA ClientSettles == TransferInv /\ Settling /\ ClientReceives => Settling'
<1> SUFFICES ASSUME TransferInv, Settling, ClientReceives PROVE Settling'
  OBVIOUS
<1>1. CASE ReceivePage \/ ReceiveEnd
  <2>1. PICK m : m = Head(toClient)
    OBVIOUS
  <2>2. /\ TypeOK /\ toClient # <<>> /\ toClient' = Tail(toClient)
        /\ m.type \in {"FileSyncPage", "FileSyncEnd"}
        /\ UNCHANGED <<srv, owed, onPage, sending, disk, downloads, skipped>>
    BY <1>1, <2>1 DEF TransferInv, ReceivePage, ReceiveEnd, Receive, Take, serverVars,
                      engineVars
  <2>3. /\ Said(toServer) \subseteq Said(toServer')
        /\ \A n \in Said(toServer') : n \in Said(toServer) \/ n.type = "FileSyncPageAck"
    <3>1. ASSUME NEW i \in Int
          PROVE  /\ PageAck(i) \in ClientMsgs /\ PageAck(i).type = "FileSyncPageAck"
                 /\ Said(Append(toServer, PageAck(i))) = Said(toServer) \cup {PageAck(i)}
      <4>1. PageAck(i) \in ClientMsgs /\ PageAck(i).type = "FileSyncPageAck"
        BY DEF PageAck, ClientMsgs
      <4> QED
        BY <2>2, <4>1, SaidAppend DEF TypeOK
    <3>2. CASE ReceiveEnd
      BY <3>1, <3>2 DEF ReceiveEnd
    <3>3. CASE ReceivePage
      <4>1. PICK pg : pg = [active |-> TRUE, index |-> m.index, total |-> m.total,
                            received |-> 0, last |-> m.last]
        OBVIOUS
      <4>2. pg \in Pages
        <5>1. m.type = "FileSyncPage"
          BY <2>1, <3>3 DEF ReceivePage, Receive, Take
        <5> QED
          BY <2>1, <2>2, <4>1, <5>1, HeadType DEF Pages
      <4>3. FinishPage(pg, <<>>)
        BY <2>1, <3>3, <4>1 DEF ReceivePage
      <4>4. PageAck(pg.index).type = "FileSyncPageAck"
        BY DEF PageAck
      <4>5. \A n : <<>> # <<n>>
        OBVIOUS
      <4> QED
        BY <2>2, <4>2, <4>3, <4>4, <4>5, FinishSends
    <3> QED
      BY <1>1, <3>2, <3>3
  <2>4. {} \in SUBSET Files /\ m.type \notin Upward \cup Downward
    BY <2>2 DEF Upward, Downward
  <2>5. \A e \in downloads' : Serves(e.id, e.path)
    BY <2>2 DEF Serves
  <2> QED
    BY <2>1, <2>2, <2>3, <2>4, <2>5, TakenSettles
<1> QED
  BY <1>1, DetailSettles, TransferSettles DEF ClientReceives

\* The server's answer to what the client asked: of each file that differs one
\* finding, of the side with the later mtime.
LEMMA AnswerSettles ==
    ASSUME TransferInv, Asked, Head(toServer).files = disk, ServerAnswersSync
    PROVE  Settling'
<1>1. PICK m : m = Head(toServer)
  OBVIOUS
<1>2. /\ m \in ClientMsgs /\ m.type = "FileSync" /\ m.files = disk
      /\ toServer' = <<>> /\ onPage' = {} /\ downloads' = {} /\ sending' = {}
      /\ srv' = srv /\ disk' = disk /\ TypeOK
  <2>1. /\ FromClient("FileSync") /\ UNCHANGED <<srv, onPage, sending>>
    BY DEF ServerAnswersSync
  <2>2. m \in ClientMsgs /\ m.type = "FileSync"
    BY <1>1, <2>1, FromClientInv
  <2> QED
    BY <1>1, <2>1, <2>2 DEF FromClient, Asked, NothingYet, TransferInv
<1>3. /\ m.newest \in [Files -> {"here", "there"}]
      /\ disk \in [Files -> Contents \cup {Absent, Torn}]
      /\ srv \in [Files -> Contents \cup {Absent}]
  BY <1>2 DEF ClientMsgs, TypeOK, EngineTypeOK, ServerTypeOK
<1>4. PICK verdict \in [Files -> (PageTypes \ {"FileSyncRename"}) \cup {"InSync"}] :
        /\ \A f \in Files : verdict[f] \in Verdicts(f, m.files[f], m.newest[f])
        /\ owed' = { [type |-> verdict[f], path |-> f] :
                        f \in { g \in Files : verdict[g] # "InSync" } }
  BY <1>1 DEF ServerAnswersSync
<1>5. PICK end \in ServerMsgs : end.type = "FileSyncEnd" /\ Said(toClient') = {end}
  <2>1. PICK end \in ServerMsgs : end.type = "FileSyncEnd" /\ toClient' = Append(toClient, end)
    BY <1>2, SyncAnswered
  <2>2. toClient' = <<end>>
    BY <2>1 DEF Asked
  <2> QED
    BY <2>1, <2>2, SaidOne
<1>6. Items' = owed' \cup {end}
  <2>1. Said(<<>>) = {}
    BY DEF Said
  <2> QED
    BY <1>2, <1>5, <2>1 DEF Items
<1>7. ASSUME NEW f \in Files
      PROVE  /\ verdict[f] = "FileSyncUpdate" => srv[f] # Absent
             /\ verdict[f] = "FileSyncDelete" => srv[f] = Absent
             /\ verdict[f] = "FileUpload" => disk[f] # Absent
             /\ disk[f] # srv[f] =>
                  verdict[f] \in {"FileSyncUpdate", "FileSyncDelete", "FileUpload"}
  <2>1. verdict[f] \in Verdicts(f, disk[f], m.newest[f])
    BY <1>2, <1>4
  <2>2. m.newest[f] \in {"here", "there"}
    BY <1>3
  <2>3. CASE disk[f] = srv[f]
    <3>1. Verdicts(f, disk[f], m.newest[f]) \subseteq {"InSync", "FileSyncMtime"}
      BY <2>3 DEF Verdicts
    <3> QED
      BY <2>1, <2>3, <3>1
  <2>4. CASE disk[f] # srv[f] /\ (disk[f] = Absent \/ (srv[f] # Absent /\ m.newest[f] = "there"))
    <3>1. Verdicts(f, disk[f], m.newest[f]) = {"FileSyncUpdate"}
      BY <2>4 DEF Verdicts
    <3> QED
      BY <2>1, <2>4, <3>1
  <2>5. CASE disk[f] # srv[f] /\ disk[f] # Absent /\ srv[f] = Absent /\ m.newest[f] = "there"
    <3>1. Verdicts(f, disk[f], m.newest[f]) = {"FileSyncDelete"}
      BY <2>5 DEF Verdicts
    <3> QED
      BY <2>1, <2>5, <3>1
  <2>6. CASE disk[f] # srv[f] /\ disk[f] # Absent /\ m.newest[f] = "here"
    <3>1. Verdicts(f, disk[f], m.newest[f]) = {"FileUpload"}
      BY <2>6 DEF Verdicts
    <3> QED
      BY <2>1, <2>6, <3>1
  <2> QED
    BY <2>2, <2>3, <2>4, <2>5, <2>6
<1>8. \A x \in Items' : \/ x.type = "FileSyncEnd"
                        \/ x.path \in Files /\ x.type = verdict[x.path]
                           /\ x.type \in PageTypes \ {"FileSyncRename"}
  BY <1>4, <1>5, <1>6
<1>9. \A f \in Files : verdict[f] # "InSync" =>
        \E x \in Items' : x.type = verdict[f] /\ x.path = f
  <2> TAKE f \in Files
  <2> HAVE verdict[f] # "InSync"
  <2>1. [type |-> verdict[f], path |-> f] \in Items'
    BY <1>4, <1>6
  <2> QED
    BY <2>1
<1>10. Reconciled'
  <2> SUFFICES ASSUME NEW f \in Files, disk[f] # srv[f] PROVE Up(f)' \/ Down(f)'
    BY <1>2 DEF Reconciled
  <2> QED
    BY <1>7, <1>9 DEF Up, Down, Upward, Downward
<1>11. Apart'
  BY <1>2, <1>8 DEF Apart, Up, Down, Upward, Downward
<1>12. AllRight'
  <2>1. \A x \in Items' : RightItem(x)'
    BY <1>2, <1>7, <1>8 DEF RightItem, PageTypes
  <2>2. \A x \in Said(toClient') : RightMsg(x)'
    BY <1>5 DEF RightMsg
  <2> QED
    BY <2>1, <2>2 DEF AllRight
<1>13. OfServer'
  BY <1>2, <1>5 DEF OfServer, Serves
<1> QED
  BY <1>10, <1>11, <1>12, <1>13 DEF Settling

\* Sending a message that is neither a chunk nor the start of a download, while
\* no file on its way down changes.
LEMMA OfServerSent ==
    ASSUME TypeOK, OfServer, NEW m \in ServerMsgs,
           m.type \notin {"Chunk", "FileSyncChunkDownload"},
           toClient' = Append(toClient, m) \/ toClient' = toClient,
           UNCHANGED <<downloads, sending>>,
           \A f : Down(f) => srv'[f] = srv[f]
    PROVE  OfServer'
<1>1. Said(toClient') \subseteq Said(toClient) \cup {m}
  <2>1. Said(Append(toClient, m)) = Said(toClient) \cup {m}
    BY SaidAppend DEF TypeOK
  <2> QED
    BY <2>1
<1>2. \A id, f : Serves(id, f)' => Serves(id, f)
  BY <1>1 DEF Serves
<1>3. \A id, f : Serves(id, f) => srv'[f] = srv[f]
  BY ServesDown
<1> QED
  BY <1>1, <1>2, <1>3 DEF OfServer

\* The server starts a page, or not.
LEMMA PageSettles ==
    ASSUME TypeOK, Settling, ServerStartsPage
    PROVE  Settling'
<1>1. PICK ack : ack = Head(toServer)
  OBVIOUS
<1>2. /\ toServer # <<>> /\ toServer' = Tail(toServer) /\ ack.type = "FileSyncPageAck"
      /\ UNCHANGED <<disk, srv, sending, downloads, skipped>>
      /\ owed' \cup onPage' = owed \cup onPage
      /\ \/ toClient' = toClient
         \/ \E n \in ServerMsgs : n.type = "FileSyncPage" /\ toClient' = Append(toClient, n)
  BY <1>1, PageStarted DEF FromClient, ghostVars
<1>3. Said(toServer) = {ack} \cup Said(toServer')
  BY <1>1, <1>2, SaidTail DEF TypeOK
<1>4. PICK n \in ServerMsgs :
        /\ n.type = "FileSyncPage"
        /\ toClient' = toClient \/ toClient' = Append(toClient, n)
  <2>1. [type |-> "FileSyncPage", index |-> 0, total |-> 0, last |-> TRUE] \in ServerMsgs
    BY DEF ServerMsgs
  <2> QED
    BY <1>2, <2>1
<1>5. /\ Said(toClient) \subseteq Said(toClient')
      /\ Said(toClient') \subseteq Said(toClient) \cup {n}
  <2>1. Said(Append(toClient, n)) = Said(toClient) \cup {n}
    BY SaidAppend DEF TypeOK
  <2> QED
    BY <1>4, <2>1
<1>6. ack.type \notin Upward \cup Downward /\ n.type \notin Upward \cup Downward
  BY <1>2, <1>4 DEF Upward, Downward
<1>7. RightItem(n)' /\ RightMsg(n)'
  BY <1>4 DEF RightItem, RightMsg
<1>8. /\ \A x \in Items : x = ack \/ x \in Items'
      /\ \A y \in Items' : y = n \/ y \in Items
  BY <1>2, <1>3, <1>5 DEF Items
<1>9. {} \in SUBSET Files /\ \A e \in downloads' : Down(e.path)
  BY <1>2 DEF Down
<1>10. Reconciled' /\ Apart' /\ AllRight'
  BY <1>2, <1>5, <1>6, <1>7, <1>8, <1>9, StillSettling DEF Settling
<1>11. OfServer'
  BY <1>2, <1>4, OfServerSent DEF Settling
<1> QED
  BY <1>10, <1>11 DEF Settling

\* The server sends a finding.
LEMMA SendDetailSettles ==
    ASSUME TypeOK, Settling, ServerSendsDetail
    PROVE  Settling'
<1>1. PICK d \in onPage, m \in ServerMsgs :
        /\ d \in Findings /\ m \in DetailMsgs(d) /\ m.type = d.type /\ m.path = d.path
        /\ onPage' = onPage \ {d} /\ toClient' = Append(toClient, m)
        /\ UNCHANGED <<engineVars, toServer, srv, owed, sending, ghostVars>>
  BY DetailSent
<1>2. /\ Said(toClient') = Said(toClient) \cup {m} /\ m \in Items' /\ d \in Items
      /\ \A x \in Items : x = d \/ x \in Items'
      /\ \A y \in Items' : y = m \/ y \in Items
  <2>1. Said(toClient') = Said(toClient) \cup {m}
    BY <1>1, SaidAppend DEF TypeOK
  <2> QED
    BY <1>1, <2>1 DEF Items
<1>3. RightItem(d) /\ d.type \in PageTypes
  BY <1>1, <1>2 DEF Settling, AllRight, Findings
<1>4. /\ RightItem(m)' /\ RightMsg(m)'
      /\ m.type \in Upward => Up(m.path)
      /\ m.type \in Downward => Down(m.path)
  <2>1. RightItem(m)'
    BY <1>1, <1>3 DEF RightItem, PageTypes, engineVars
  <2>2. RightMsg(m)'
    <3>1. m.type = "FileSyncUpdate" => m \in UpdateMsgs(m.path)
      BY <1>1 DEF DetailMsgs
    <3>2. m.type # "FileSyncChunkDownload"
      BY <1>1, <1>3 DEF PageTypes
    <3> QED
      BY <1>1, <3>1, <3>2 DEF UpdateMsgs, RightMsg
  <2> QED
    BY <1>1, <1>2, <2>1, <2>2 DEF Up, Down
<1>5. {} \in SUBSET Files /\ \A e \in downloads' : Down(e.path)
  BY <1>1 DEF Down, engineVars
<1>6. Reconciled' /\ Apart' /\ AllRight'
  <2>1. \A x \in Items : \E y \in Items' : y.type = x.type /\ y.path = x.path
    BY <1>1, <1>2
  <2> QED
    BY <1>1, <1>2, <1>4, <1>5, <2>1, StillSettling DEF Settling, engineVars, ghostVars
<1>7. OfServer'
  <2>1. m.type \notin {"Chunk", "FileSyncChunkDownload"}
    BY <1>1, <1>3 DEF PageTypes
  <2> QED
    BY <1>1, <2>1, OfServerSent DEF Settling, engineVars
<1> QED
  BY <1>6, <1>7 DEF Settling

\* The server accepts an upload.
LEMMA AcceptSettles ==
    ASSUME TransferInv, Settling, ServerAcceptsChunks
    PROVE  Settling'
<1>1. PICK m : m = Head(toServer)
  OBVIOUS
<1>2. /\ TypeOK /\ toServer # <<>> /\ toServer' = Tail(toServer)
      /\ m.type = "Chunks" /\ m.path \in Files
      /\ srv' = [srv EXCEPT ![m.path] = m.data]
      /\ UNCHANGED <<disk, downloads, skipped, owed, onPage, sending>>
  BY <1>1, FileAccepted DEF TransferInv, FromClient, ghostVars
<1>3. PICK n \in ServerMsgs : n.type = "FileUploadAck" /\ toClient' = Append(toClient, n)
  BY FileAccepted
<1>4. /\ Said(toServer) = {m} \cup Said(toServer') /\ Said(toClient') = Said(toClient) \cup {n}
      /\ srv \in [Files -> Contents \cup {Absent}]
  BY <1>1, <1>2, <1>3, SaidTail, SaidAppend DEF TypeOK, ServerTypeOK
<1>5. m \in Items /\ RightItem(m) /\ Up(m.path)
  <2>1. m \in Items
    BY <1>4 DEF Items
  <2> QED
    BY <1>2, <2>1 DEF Settling, AllRight, Up, Upward
<1>6. m.data = disk[m.path] /\ srv'[m.path] = disk[m.path] /\ ~Down(m.path)
  BY <1>2, <1>4, <1>5 DEF RightItem, Settling, Apart
<1>7. RightItem(n)' /\ RightMsg(n)' /\ n.type \notin Upward \cup Downward
  BY <1>3 DEF RightItem, RightMsg, Upward, Downward
<1>8. /\ \A x \in Items : x = m \/ x \in Items'
      /\ \A y \in Items' : y = n \/ y \in Items
  BY <1>2, <1>4 DEF Items
<1>9. {m.path} \in SUBSET Files /\ \A e \in downloads' : Down(e.path)
  BY <1>2 DEF Down
<1>10. \A g \in Files : g # m.path => srv'[g] = srv[g]
  BY <1>2, <1>4
<1>11. Reconciled' /\ Apart' /\ AllRight'
  <2>1. \A g \in Files : /\ disk'[g] # disk[g] => g \in {m.path} /\ Down(g)
                         /\ srv'[g] # srv[g] => g \in {m.path} /\ Up(g)
    BY <1>2, <1>5, <1>10
  <2>2. \A f \in {m.path} : disk'[f] = srv'[f]
    BY <1>2, <1>6
  <2>3. \A x \in Items : x.path \in {m.path} \/ x \in Items'
    BY <1>8
  <2>4. \A y \in Items' : \/ y \in Items
                          \/ RightItem(y)' /\ y.type \notin Upward \cup Downward
    BY <1>7, <1>8
  <2>5. \A x \in Said(toClient') : x \in Said(toClient) \/ RightMsg(x)'
    BY <1>4, <1>7
  <2>6. Reconciled /\ Apart /\ AllRight
    BY DEF Settling
  <2> QED
    BY <1>2, <1>9, <2>1, <2>2, <2>3, <2>4, <2>5, <2>6, StillSettling
<1>12. OfServer'
  <2>1. \A f : Down(f) => f # m.path /\ srv'[f] = srv[f]
    BY <1>2, <1>4, <1>6
  <2> QED
    BY <1>2, <1>3, <2>1, OfServerSent DEF Settling
<1> QED
  BY <1>11, <1>12 DEF Settling

\* The server answers a request for chunks: the file is there, and its session
\* is new.
LEMMA DownloadSettles ==
    ASSUME TransferInv, Settling, ServerStartsDownload
    PROVE  Settling'
<1>1. PICK m : m = Head(toServer)
  OBVIOUS
<1>2. /\ TypeOK /\ phase # "idle" /\ toServer # <<>> /\ toServer' = Tail(toServer)
      /\ m.type = "FileChunkDownload" /\ m \in ClientMsgs
      /\ UNCHANGED <<disk, srv, downloads, skipped, owed, onPage>>
  BY <1>1, FromClientInv DEF TransferInv, ServerStartsDownload, FromClient, ghostVars
<1>3. /\ m.path \in Files /\ Said(toServer) = {m} \cup Said(toServer')
      /\ srv \in [Files -> Contents \cup {Absent}] /\ nextId \in Nat
  BY <1>1, <1>2, SaidTail DEF ClientMsgs, TypeOK, ServerTypeOK
<1>4. m \in Items /\ srv[m.path] \in Contents /\ Down(m.path)
  <2>1. m \in Items
    BY <1>3 DEF Items
  <2> QED
    BY <1>2, <1>3, <2>1 DEF Settling, AllRight, RightItem, Down, Downward
<1>5. PICK n, new :
        /\ n = [type |-> "FileSyncChunkDownload", id |-> nextId, path |-> m.path,
                count |-> ChunkCount[srv[m.path]]]
        /\ new = [id |-> nextId, data |-> srv[m.path],
                  left |-> 0..ChunkCount[srv[m.path]] - 1]
  OBVIOUS
<1>6. /\ toClient' = Append(toClient, n) /\ sending' \subseteq sending \cup {new}
      /\ n.type = "FileSyncChunkDownload" /\ n.path = m.path /\ n.id = nextId
      /\ n.count = ChunkCount[srv[m.path]] /\ new.id = nextId /\ new.data = srv[m.path]
  <2>1. srv[m.path] # Absent
    BY <1>4, FilesAssumption
  <2> QED
    BY <1>1, <1>5, <2>1 DEF ServerStartsDownload
<1>7. n \in ServerMsgs /\ Said(toClient') = Said(toClient) \cup {n}
  <2>1. n \in ServerMsgs
    BY <1>3, <1>4, <1>5, ChunkCountType DEF ServerMsgs
  <2> QED
    BY <1>2, <1>6, <2>1, SaidAppend DEF TypeOK
<1>8. RightItem(n)' /\ RightMsg(n)' /\ n.type \in Downward /\ n.type \notin Upward
  <2>1. n.count = 0 => srv[m.path] = Empty
    BY <1>4, <1>6, FilesAssumption
  <2> QED
    BY <1>2, <1>6, <2>1 DEF RightItem, RightMsg, Upward, Downward
<1>9. /\ \A x \in Items : x = m \/ x \in Items'
      /\ \A y \in Items' : y = n \/ y \in Items
      /\ n \in Items'
  BY <1>2, <1>3, <1>7 DEF Items
<1>10. {m.path} \in SUBSET Files /\ Down(m.path)' /\ \A e \in downloads' : Down(e.path)
  BY <1>2, <1>3, <1>6, <1>8, <1>9 DEF Down
<1>11. Reconciled' /\ Apart' /\ AllRight'
  BY <1>2, <1>4, <1>6, <1>7, <1>8, <1>9, <1>10, StillSettling DEF Settling
<1>12. OfServer'
  <2>1. PICK source \in [0..nextId - 1 -> Contents] : OneSource(source)
    BY <1>2 DEF TransferInv, Sourced
  <2>2. /\ \A x \in Said(toClient) :
             x.type \in {"Chunk", "FileSyncChunkDownload"} => x.id # nextId
        /\ \A t \in sending : t.id # nextId
        /\ \A d \in downloads : d.id # nextId
    BY <1>3, <2>1, SaidSource
  <2>3. \A id, f : Serves(id, f)' => Serves(id, f) \/ (id = nextId /\ f = m.path)
    BY <1>2, <1>6, <1>7 DEF Serves
  <2>4. \A f : ~Serves(nextId, f)
    BY <2>2 DEF Serves
  <2> SUFFICES ASSUME NEW id, NEW f, Serves(id, f)'
               PROVE  /\ \A g : Serves(id, g)' => g = f
                      /\ \A t \in sending' : t.id = id => t.data = srv'[f]
                      /\ \A x \in Said(toClient') :
                            x.type = "Chunk" /\ x.id = id => x.data = srv'[f]
    BY DEF OfServer
  <2>5. CASE id = nextId
    BY <1>2, <1>6, <1>7, <2>2, <2>3, <2>4, <2>5
  <2>6. CASE id # nextId
    BY <1>2, <1>6, <1>7, <2>3, <2>6 DEF Settling, OfServer
  <2> QED
    BY <2>5, <2>6
<1> QED
  BY <1>11, <1>12 DEF Settling

\* The server sends a chunk.
LEMMA SendChunkSettles ==
    ASSUME TransferInv, Settling, ServerSendsChunk
    PROVE  Settling'
<1>1. PICK t \in sending : \E i \in t.left :
        /\ toClient' = Append(toClient, [type |-> "Chunk", id |-> t.id,
                                         index |-> i, data |-> t.data])
        /\ sending' = (sending \ {t}) \cup
                      IF t.left = {i} THEN {} ELSE { [t EXCEPT !.left = @ \ {i}] }
        /\ UNCHANGED <<engineVars, toServer, srv, owed, onPage, ghostVars>>
  BY DEF ServerSendsChunk
<1>2. PICK i \in t.left :
        /\ toClient' = Append(toClient, [type |-> "Chunk", id |-> t.id,
                                         index |-> i, data |-> t.data])
        /\ sending' = (sending \ {t}) \cup
                      IF t.left = {i} THEN {} ELSE { [t EXCEPT !.left = @ \ {i}] }
  BY <1>1
<1>3. TypeOK /\ t \in [id : Nat, data : Contents, left : SUBSET Nat]
  BY DEF TransferInv, TypeOK, ServerTypeOK
<1>4. PICK n, rest : /\ n = [type |-> "Chunk", id |-> t.id, index |-> i, data |-> t.data]
                     /\ rest = [t EXCEPT !.left = @ \ {i}]
  OBVIOUS
<1>5. /\ n \in ServerMsgs /\ n.type = "Chunk" /\ n.id = t.id /\ n.data = t.data
      /\ rest.id = t.id /\ rest.data = t.data
      /\ toClient' = Append(toClient, n) /\ sending' \subseteq sending \cup {rest}
  BY <1>2, <1>3, <1>4 DEF ServerMsgs
<1>6. Said(toClient') = Said(toClient) \cup {n}
  BY <1>3, <1>5, SaidAppend DEF TypeOK
<1>7. /\ RightItem(n)' /\ RightMsg(n)' /\ n.type \notin Upward \cup Downward
      /\ {} \in SUBSET Files
  BY <1>5 DEF RightItem, RightMsg, Upward, Downward
<1>8. /\ Items \subseteq Items' /\ \A y \in Items' : y = n \/ y \in Items
      /\ UNCHANGED <<disk, srv, downloads, skipped>>
  BY <1>1, <1>6 DEF Items, engineVars, ghostVars
<1>9. \A e \in downloads' : Down(e.path)
  BY <1>8 DEF Down
<1>10. Reconciled' /\ Apart' /\ AllRight'
  BY <1>3, <1>6, <1>7, <1>8, <1>9, StillSettling DEF Settling
<1>11. OfServer'
  <2>1. \A id, f : Serves(id, f)' => Serves(id, f)
    BY <1>5, <1>6, <1>8 DEF Serves
  <2> QED
    BY <1>5, <1>6, <1>8, <2>1 DEF Settling, OfServer
<1> QED
  BY <1>10, <1>11 DEF Settling

\* The steps of the server.
LEMMA ServerSettles == TransferInv /\ Settling /\ ServerSteps => Settling'
<1> SUFFICES ASSUME TransferInv, Settling, ServerSteps PROVE Settling'
  OBVIOUS
<1>1. TypeOK
  BY DEF TransferInv
<1>2. ~ServerAnswersSync
  <2> SUFFICES ASSUME FromClient("FileSync") PROVE FALSE
    BY DEF ServerAnswersSync
  <2>1. Head(toServer).type = "FileSync" /\ Head(toServer) \in Items
    BY <1>1, SaidTail DEF FromClient, TypeOK, Items
  <2> QED
    BY <2>1 DEF Settling, AllRight, RightItem
<1> QED
  BY <1>1, <1>2, PageSettles, SendDetailSettles, DownloadSettles, SendChunkSettles,
     AcceptSettles DEF ServerSteps

\* A sync that has something to settle, has settled it when nothing is left.
LEMMA OverSettled ==
    ASSUME TypeOK, Settling, NothingLeft
    PROVE  \A f \in Files \ skipped : disk[f] = srv[f]
<1> SUFFICES ASSUME NEW f \in Files, f \notin skipped PROVE disk[f] = srv[f]
  OBVIOUS
<1>1. /\ Counted(owed) = {} /\ Counted(onPage) = {} /\ downloads = {}
      /\ \A m \in Said(toClient) : m.type \notin Owing \cup {"Chunk"}
      /\ \A m \in Said(toServer) : m.type \notin Asking
  BY NothingLeftSaid
<1>2. /\ \A m \in Said(toClient) : m \in ServerMsgs
      /\ \A m \in Said(toServer) : m \in ClientMsgs
  BY DEF TypeOK, Said
<1>3. \A x \in Items : x.type \notin Upward \cup Downward
  <2>1. \A x \in owed \cup onPage : x.type = "FileSyncMtime"
    BY <1>1 DEF Counted
  <2>2. \A x \in Said(toClient) : x.type \notin {"Chunks", "FileChunkDownload"}
    BY <1>2 DEF ServerMsgs
  <2>3. \A x \in Said(toServer) : x.type \in {"FileSync", "FileSyncPageAck"}
    BY <1>1, <1>2 DEF ClientMsgs, Asking
  <2> QED
    BY <1>1, <2>1, <2>2, <2>3 DEF Items, Upward, Downward, Owing
<1> QED
  BY <1>1, <1>3 DEF Settling, Reconciled, Up, Down

\* The same after a step.
LEMMA OverSettledNext ==
    TypeOK' /\ Settling' /\ NothingLeft' =>
        \A f \in Files : f \notin skipped' => disk'[f] = srv'[f]
<1>1. (TypeOK /\ Settling /\ NothingLeft => \A f \in Files \ skipped : disk[f] = srv[f])'
  BY OverSettled, PTL
<1> QED
  BY <1>1

\* While a sync runs that neither side disturbs, it has been asked what the
\* vault holds, or it is settling it; once it is complete it has.
SettledInv ==
    /\ HandledInv
    /\ phase = "files" /\ disturbed = {} =>
          (Asked /\ Head(toServer).files = disk) \/ Settling
    /\ SameUnlessSkipped

\* The setting sync after a complete file sync changes no file.
LEMMA StaysSettled ==
    ASSUME SettledInv, phase = "settings", done, disturbed = {},
           ReceiveElsewhere \/ ServerSteps
    PROVE  SameUnlessSkipped'
<1>1. Over /\ TypeOK
  BY DEF SettledInv, HandledInv, Quiet, TransferInv
<1>2. /\ \A m \in Said(toClient) : m.type \notin Owing \cup {"Chunk"}
      /\ \A m \in Said(toServer) : m.type \notin Asking
  BY <1>1, NothingLeftSaid DEF Over
<1>3. UNCHANGED <<disk, srv, skipped>>
  <2>1. CASE ReceiveElsewhere
    <3>1. PICK m : m = Head(toClient)
      OBVIOUS
    <3>2. /\ UNCHANGED <<srv, skipped>> /\ m \in Said(toClient)
          /\ \/ m.type \in HandledIn("settings") /\ Apply(m)
             \/ UNCHANGED engineVars
      BY <1>1, <2>1, <3>1, SaidTail DEF ReceiveElsewhere, serverVars, ghostVars, TypeOK
    <3>3. CASE m.type \in HandledIn("settings") /\ Apply(m)
      <4>1. m.type = "FileSyncMtime"
        BY <1>2, <3>2, <3>3 DEF HandledIn, Owing
      <4> QED
        BY <3>2, <3>3, <4>1 DEF Apply, HandleSyncMtime
    <3> QED
      BY <3>2, <3>3 DEF engineVars
  <2>2. CASE ServerSteps
    <3>1. ~ServerAcceptsChunks
      <4> SUFFICES ASSUME FromClient("Chunks") PROVE FALSE
        BY DEF ServerAcceptsChunks
      <4>1. Head(toServer).type = "Chunks" /\ Head(toServer) \in Said(toServer)
        BY <1>1, SaidTail DEF FromClient, TypeOK
      <4> QED
        BY <1>2, <4>1 DEF Asking
    <3> QED
      BY <2>2, <3>1 DEF ServerSteps, ServerAnswersSync, ServerStartsPage, ServerSendsDetail,
           ServerStartsDownload, ServerSendsChunk, FromClient, engineVars, ghostVars
  <2> QED
    BY <2>1, <2>2
<1> QED
  BY <1>3 DEF SettledInv, SameUnlessSkipped

\* The steps while a sync runs.
LEMMA RunSettles ==
    ASSUME SettledInv, HandledInv', phase = "files", ClientReceives \/ ServerSteps
    PROVE  SettledInv'
<1>1. TransferInv /\ TypeOK' /\ disturbed' = disturbed
  BY DEF SettledInv, HandledInv, TransferInv, ClientReceives, ReceiveDetail, ReceivePage,
     ReceiveTransfer, ReceiveEnd, Receive, ServerSteps, ServerAnswersSync,
     ServerStartsPage, ServerSendsDetail, ServerStartsDownload, ServerSendsChunk,
     ServerAcceptsChunks, FromClient, ghostVars
<1>2. CASE disturbed # {}
  BY <1>1, <1>2 DEF SettledInv, SameUnlessSkipped
<1>3. CASE disturbed = {}
  <2>1. CASE Settling
    <3>1. Settling'
      BY <1>1, <2>1, ClientSettles, ServerSettles
    <3>2. SameUnlessSkipped'
      BY <1>1, <3>1, OverSettledNext DEF HandledInv, Quiet, Over, SameUnlessSkipped
    <3> QED
      BY <3>1, <3>2 DEF SettledInv
  <2>2. CASE Asked /\ Head(toServer).files = disk
    <3>1. ServerAnswersSync
      <4>1. ~ClientReceives
        BY <2>2 DEF Asked, ClientReceives, ReceiveDetail, ReceivePage, ReceiveTransfer,
           ReceiveEnd, Receive, Take
      <4>2. ~ServerSendsDetail /\ ~ServerSendsChunk
        BY <2>2 DEF Asked, NothingYet, ServerSendsDetail, ServerSendsChunk
      <4>3. ~ServerStartsPage /\ ~ServerStartsDownload /\ ~ServerAcceptsChunks
        BY <2>2 DEF Asked, ServerStartsPage, ServerStartsDownload, ServerAcceptsChunks,
           FromClient
      <4> QED
        BY <4>1, <4>2, <4>3 DEF ServerSteps
    <3>2. Settling' /\ phase' = "files"
      BY <1>1, <2>2, <3>1, AnswerSettles DEF ServerAnswersSync, FromClient
    <3> QED
      BY <3>2 DEF SettledInv, SameUnlessSkipped
  <2> QED
    BY <1>3, <2>1, <2>2 DEF SettledInv
<1> QED
  BY <1>2, <1>3

\* Each step preserves it.
LEMMA SettledStep == SettledInv /\ [Next]_vars => SettledInv'
<1> SUFFICES ASSUME SettledInv, [Next]_vars PROVE SettledInv'
  OBVIOUS
<1>1. TransferInv /\ HandledInv /\ HandledInv'
  BY HandledStep DEF SettledInv, HandledInv
<1>2. CASE RequestSync
  <2>1. /\ phase' = "files" /\ disk' = disk
        /\ toServer' = <<[type |-> "FileSync", files |-> disk, newest |-> newest]>>
    BY <1>2 DEF RequestSync
  <2>2. Asked' /\ Head(toServer').files = disk'
    BY <1>1, <1>2, <2>1, RequestCounts
  <2> QED
    BY <1>1, <2>1, <2>2 DEF SettledInv, SameUnlessSkipped
<1>3. CASE ClientReceives
  <2>1. phase = "files"
    BY <1>3 DEF ClientReceives, ReceiveDetail, ReceivePage, ReceiveTransfer, ReceiveEnd,
       Receive
  <2> QED
    BY <1>1, <1>3, <2>1, RunSettles
<1>4. CASE ReceiveElsewhere
  <2>1. phase \in {"settings", "live"} /\ UNCHANGED <<phase, done, disturbed>>
    BY <1>4 DEF ReceiveElsewhere, ghostVars
  <2> QED
    BY <1>1, <1>4, <2>1, StaysSettled DEF SettledInv, SameUnlessSkipped
<1>5. CASE HandlerFails
  <2>1. phase' # "files" /\ done' = done /\ (phase' = "settings" => phase = "files")
    BY <1>5 DEF HandlerFails, ghostVars
  <2> QED
    BY <1>1, <2>1 DEF SettledInv, HandledInv, SameUnlessSkipped
<1>6. CASE EndSettings
  BY <1>1, <1>6 DEF EndSettings, SettledInv, SameUnlessSkipped
<1>7. CASE Disconnect \/ Restart
  BY <1>1, <1>7 DEF Disconnect, Restart, ConnectionLost, SettledInv, SameUnlessSkipped
<1>8. CASE ServerSteps
  <2>1. UNCHANGED <<phase, done, disturbed>>
    BY <1>8 DEF ServerSteps, ServerAnswersSync, ServerStartsPage, ServerSendsDetail,
                ServerStartsDownload, ServerSendsChunk, ServerAcceptsChunks,
                FromClient, ghostVars
  <2>2. CASE phase = "files"
    BY <1>1, <1>8, <2>2, RunSettles
  <2>3. CASE phase # "files"
    BY <1>1, <1>8, <2>1, <2>3, StaysSettled DEF SettledInv, SameUnlessSkipped
  <2> QED
    BY <2>2, <2>3
<1>9. CASE Changes \/ ChangedUpload \/ UploadVanishes
  <2>1. disturbed' # {}
    BY <1>9 DEF Changes, UserChanges, RemoteChanges, RemoteRenames, Change,
       ChangedUpload, UploadVanishes, ChangeBetweenReads
  <2> QED
    BY <1>1, <2>1 DEF SettledInv, SameUnlessSkipped
<1>10. CASE UNCHANGED vars
  <2>1. /\ UNCHANGED <<disk, srv, downloads, phase, received, gotEnd, toServer, toClient>>
        /\ UNCHANGED <<owed, onPage, sending, skipped, done, disturbed>>
    BY <1>10 DEF vars, engineVars, sessionVars, serverVars, ghostVars
  <2>2. Asked => Asked'
    BY <2>1 DEF Asked, NothingYet
  <2>3. Settling => Settling'
    BY <2>1 DEF Settling, Reconciled, Apart, AllRight, OfServer, Up, Down, Serves, Items,
       RightItem, RightMsg
  <2> QED
    BY <1>1, <2>1, <2>2, <2>3 DEF SettledInv, SameUnlessSkipped
<1> QED
  BY <1>2, <1>3, <1>4, <1>5, <1>6, <1>7, <1>8, <1>9, <1>10 DEF Next

\* When a complete file sync saw no change on either side, every file is the
\* same on both, unless the echo cache kept the client from doing what the
\* server asked for (handle_upload_session, handle_sync_delete).
THEOREM SyncedSame == Spec => []SameUnlessSkipped
<1>1. Init => SettledInv
  <2>1. Init => HandledInv /\ phase = "idle"
    BY HandledInit DEF Init
  <2> QED
    BY <2>1 DEF SettledInv, SameUnlessSkipped
<1>2. SettledInv => SameUnlessSkipped
  BY DEF SettledInv
<1> QED
  BY <1>1, SettledStep, <1>2, PTL DEF Spec
---------------------------------------------------------------------------
(* The contract: each step is a step of SyncSession, or leaves it alone.   *)

\* The files that something is still to come of, in terms of the messages.
LEMMA BusySaid ==
    ASSUME NEW p
    PROVE  p \in Busy <=>
              \/ \E x \in Counted(owed \cup onPage) : x.path = p
              \/ \E x \in downloads \cup uploads : x.path = p
              \/ \E m \in Said(toClient) : m.type \in Owing /\ m.path = p
              \/ \E m \in Said(toServer) : m.type \in Asking /\ m.path = p
  BY DEF Busy, Said

\* The same after a step.
LEMMA BusySaidNext ==
    \A p : p \in Busy' <=>
              \/ \E x \in Counted(owed \cup onPage)' : x.path = p
              \/ \E x \in downloads' \cup uploads' : x.path = p
              \/ \E m \in Said(toClient') : m.type \in Owing /\ m.path = p
              \/ \E m \in Said(toServer') : m.type \in Asking /\ m.path = p
  BY DEF Busy, Said

\* They are files.
LEMMA BusyFiles == TypeOK => Busy \subseteq Files
<1> SUFFICES ASSUME TypeOK, NEW p \in Busy PROVE p \in Files
  OBVIOUS
<1>1. /\ \A x \in Counted(owed \cup onPage) : x.path \in Files
      /\ \A x \in downloads \cup uploads : x.path \in Files
  BY DEF TypeOK, ServerTypeOK, EngineTypeOK, Counted, Findings
<1>2. \A m \in Said(toClient) : m \in ServerMsgs
  BY DEF TypeOK, Said
<1>3. \A m \in Said(toServer) : m \in ClientMsgs
  BY DEF TypeOK, Said
<1>4. \A m \in Said(toClient) : m.type \in Owing => m.path \in Files
  BY <1>2 DEF ServerMsgs, Owing
<1>5. \A m \in Said(toServer) : m.type \in Asking => m.path \in Files
  BY <1>3 DEF ClientMsgs, Asking
<1> QED
  BY <1>1, <1>4, <1>5, BusySaid

\* The same after a step.
LEMMA BusyFilesNext == TypeOK' => (Busy \subseteq Files)'
  BY BusyFiles, PTL

\* Where the sync is, in terms of the messages.
LEMMA StageSaid ==
    /\ phase = "files" /\ (\E m \in Said(toServer) : m.type = "FileSync") => Stage = "asked"
    /\ phase = "files" /\ (\A m \in Said(toServer) : m.type # "FileSync") => Stage = "answered"
    /\ phase \in {"settings", "live"} /\ done => Stage = "returned"
    /\ phase \in {"settings", "live"} /\ ~done => Stage = "idle"
    /\ phase = "idle" => Stage = "idle"
<1>1. (\E i \in 1..Len(toServer) : toServer[i].type = "FileSync")
        <=> \E m \in Said(toServer) : m.type = "FileSync"
  BY DEF Said
<1> QED
  BY <1>1 DEF Stage

\* The same after a step.
LEMMA StageSaidNext ==
    /\ phase' = "files" /\ (\E m \in Said(toServer') : m.type = "FileSync") => Stage' = "asked"
    /\ phase' = "files" /\ (\A m \in Said(toServer') : m.type # "FileSync") => Stage' = "answered"
    /\ phase' \in {"settings", "live"} /\ done' => Stage' = "returned"
    /\ phase' \in {"settings", "live"} /\ ~done' => Stage' = "idle"
    /\ phase' = "idle" => Stage' = "idle"
<1>1. (\E i \in 1..Len(toServer') : toServer'[i].type = "FileSync")
        <=> \E m \in Said(toServer') : m.type = "FileSync"
  BY DEF Said
<1> QED
  BY <1>1 DEF Stage

\* The steps of the abstract session, spelled out for the mapped variables.
LEMMA AbstractSteps ==
    /\ UNCHANGED <<Stage, Left>> => [Session!Next]_Session!vars
    /\ Stage = "idle" /\ Stage' = "asked" /\ Left' = {} => Session!Next
    /\ Stage = "asked" /\ Stage' = "answered" /\ Left' \subseteq Files => Session!Next
    /\ \A p \in Left :
          /\ Stage = "answered" /\ p \in Files /\ Left' = Left \ {p}
          /\ Stage' = "answered" \/ (Stage' = "returned" /\ Left' = {})
          => Session!Next
    /\ Stage = "answered" /\ Stage' = "returned" /\ Left = {} /\ Left' = {}
          => Session!Next
    /\ Stage' = "idle" /\ Left' = {} => Session!Next
<1>1. UNCHANGED <<Stage, Left>> => [Session!Next]_Session!vars
  BY DEF Session!vars
<1>2. Stage = "idle" /\ Stage' = "asked" /\ Left' = {} => Session!Next
  BY DEF Session!Next, Session!Ask
<1>3. Stage = "asked" /\ Stage' = "answered" /\ Left' \subseteq Files => Session!Next
  BY DEF Session!Next, Session!Answer
<1>4. \A p \in Left :
        /\ Stage = "answered" /\ p \in Files /\ Left' = Left \ {p}
        /\ Stage' = "answered" \/ (Stage' = "returned" /\ Left' = {})
        => Session!Next
  BY DEF Session!Next, Session!Settle, Session!MayReturn
<1>5. Stage = "answered" /\ Stage' = "returned" /\ Left = {} /\ Left' = {} => Session!Next
  BY DEF Session!Next, Session!Return
<1>6. Stage' = "idle" /\ Left' = {} => Session!Next
  BY DEF Session!Next, Session!GiveUp
<1> QED
  BY <1>1, <1>2, <1>3, <1>4, <1>5, <1>6

\* A step while the sync is answered that finishes one file at most and adds
\* none: the sync goes on, or returns with nothing left, or is given up.
LEMMA OneSettled ==
    ASSUME TypeOK, Stage = "answered", NEW p,
           Busy' \subseteq Busy, \A q \in Busy : q = p \/ q \in Busy',
           \/ Stage' = "answered" \/ Stage' = "idle"
           \/ Stage' = "returned" /\ Busy' = {}
    PROVE  [Session!Next]_Session!vars
<1>1. Left = Busy /\ Busy \subseteq Files
  BY BusyFiles DEF Left
<1>2. CASE Stage' = "idle"
  <2>1. Left' = {}
    BY <1>2 DEF Left
  <2> QED
    BY <1>2, <2>1, AbstractSteps
<1>3. CASE Stage' # "idle"
  <2>1. Left' = Busy'
    BY <1>3 DEF Left
  <2>2. CASE p \in Busy /\ p \notin Busy'
    <3>1. Left' = Left \ {p} /\ p \in Left /\ p \in Files
      BY <1>1, <2>1, <2>2
    <3> QED
      BY <1>3, <2>1, <3>1, AbstractSteps
  <2>3. CASE ~(p \in Busy /\ p \notin Busy')
    <3>1. Left' = Left
      BY <1>1, <2>1, <2>3
    <3> QED
      BY <1>3, <2>1, <3>1, AbstractSteps
  <2> QED
    BY <2>2, <2>3
<1> QED
  BY <1>2, <1>3

\* The session's transfer, to come, announced or active, is of this file.
Of(id, f) ==
    \/ \E x \in downloads \cup uploads : x.id = id /\ x.path = f
    \/ \E m \in Said(toClient) :
          /\ m.type \in {"FileUpload", "FileSyncChunkDownload", "FileUploadAck"}
          /\ m.id = id /\ m.path = f
    \/ \E m \in Said(toServer) : m.type = "Chunks" /\ m.id = id /\ m.path = f

\* A session id that is in use on the connection stands for one file.
OneFile ==
    \A id \in Nat : \A f : Of(id, f) => id < nextId /\ \A g : Of(id, g) => g = f

\* A step that at most starts the next session.
LEMMA StillOneFile ==
    ASSUME TypeOK, OneFile, NEW p,
           \/ nextId' = nextId /\ \A id \in Nat : \A f : Of(id, f)' => Of(id, f)
           \/ /\ nextId' = nextId + 1
              /\ \A id \in Nat : \A f :
                    Of(id, f)' => Of(id, f) \/ (id = nextId /\ f = p)
    PROVE  OneFile'
<1>1. nextId \in Nat
  BY DEF TypeOK, ServerTypeOK
<1>2. \A f : ~Of(nextId, f)
  BY <1>1 DEF OneFile
<1>3. CASE nextId' = nextId /\ \A id \in Nat : \A f : Of(id, f)' => Of(id, f)
  BY <1>3 DEF OneFile
<1>4. CASE /\ nextId' = nextId + 1
           /\ \A id \in Nat : \A f : Of(id, f)' => Of(id, f) \/ (id = nextId /\ f = p)
  <2> SUFFICES ASSUME NEW id \in Nat, NEW f, Of(id, f)'
               PROVE  id < nextId' /\ \A g : Of(id, g)' => g = f
    BY DEF OneFile
  <2>1. CASE id = nextId
    BY <1>1, <1>2, <1>4, <2>1
  <2>2. CASE id # nextId
    <3>1. Of(id, f) /\ \A g : Of(id, g)' => Of(id, g)
      BY <1>4, <2>2
    <3>2. id < nextId /\ \A g : Of(id, g) => g = f
      BY <3>1 DEF OneFile
    <3> QED
      BY <1>1, <1>4, <3>1, <3>2
  <2> QED
    BY <2>1, <2>2
<1> QED
  BY <1>3, <1>4

\* What a handler sends is about the file and the session of its message.
LEMMA RepliesAbout ==
    ASSUME NEW m, NEW n, Replies(m) = <<n>>
    PROVE  /\ m.type \in Owing /\ n.path = m.path
           /\ n.type = "Chunks" => m.type = "FileUpload" /\ n.id = m.id
<1>1. CASE m.type = "FileSyncUpdate" /\ m.content = Absent
  <2>1. n = ChunkRequest(m.path)
    BY <1>1 DEF Replies
  <2> QED
    BY <1>1, <2>1 DEF ChunkRequest, Owing
<1>2. CASE m.type = "FileUpload" /\ Uploads(m.path)
  <2>1. n = [type |-> "Chunks", id |-> m.id, path |-> m.path, data |-> disk[m.path]]
    BY <1>2 DEF Replies, UploadMsgs, ChunksOf
  <2> QED
    BY <1>2, <2>1 DEF Owing
<1> QED
  BY <1>1, <1>2 DEF Replies, UploadMsgs, ChunksOf

\* What taking a message m about the file p does to transfers and requests: of
\* the other files none ends, and what begins is of the message's session.
EndsOnly(p) ==
    \A x \in downloads \cup uploads :
        x.path = p \/ \E y \in downloads' \cup uploads' : y.path = x.path
StartsOnly(m, p) ==
    \A y \in downloads' \cup uploads' :
        \/ \E x \in downloads \cup uploads : x.id = y.id /\ x.path = y.path
        \/ /\ m.type \in {"FileUpload", "FileSyncChunkDownload"}
           /\ y.id = m.id /\ y.path = p
AsksOnly(m, p) ==
    /\ \A n \in Said(toServer) : n.type \in Asking => n \in Said(toServer')
    /\ \A n \in Said(toServer') :
          \/ n \in Said(toServer) \/ n.type \notin Asking
          \/ /\ m.type \in Owing /\ n.path = p
             /\ n.type = "Chunks" => m.type = "FileUpload" /\ n.id = m.id

\* The client takes a message: its file may be finished, and nothing else is.
LEMMA TakenBusy ==
    ASSUME TypeOK, OneFile, toClient # <<>>, toClient' = Tail(toClient),
           NEW m, m = Head(toClient), UNCHANGED <<owed, onPage, nextId>>,
           NEW p, m.type \in Owing => m.path = p,
           EndsOnly(p), StartsOnly(m, p), AsksOnly(m, p)
    PROVE  Busy' \subseteq Busy /\ (\A q \in Busy : q = p \/ q \in Busy') /\ OneFile'
<1>1. Said(toClient) = {m} \cup Said(toClient')
  BY SaidTail DEF TypeOK
<1>2. m.type \in {"FileUpload", "FileSyncChunkDownload"} => m.type \in Owing
  BY DEF Owing
<1>3. m.type \in Owing => p \in Busy
  BY <1>1, BusySaid
<1>4. Busy' \subseteq Busy
  <2> SUFFICES ASSUME NEW q \in Busy' PROVE q \in Busy
    OBVIOUS
  <2>1. CASE \E x \in Counted(owed \cup onPage)' : x.path = q
    BY <2>1, BusySaid DEF Counted
  <2>2. CASE \E x \in downloads' \cup uploads' : x.path = q
    BY <1>2, <1>3, <2>2, BusySaid DEF StartsOnly
  <2>3. CASE \E n \in Said(toClient') : n.type \in Owing /\ n.path = q
    BY <1>1, <2>3, BusySaid
  <2>4. CASE \E n \in Said(toServer') : n.type \in Asking /\ n.path = q
    BY <1>3, <2>4, BusySaid DEF AsksOnly
  <2> QED
    BY <2>1, <2>2, <2>3, <2>4, BusySaidNext
<1>5. ASSUME NEW q \in Busy, q # p PROVE q \in Busy'
  <2>1. CASE \E x \in Counted(owed \cup onPage) : x.path = q
    BY <2>1, BusySaidNext DEF Counted
  <2>2. CASE \E x \in downloads \cup uploads : x.path = q
    BY <1>5, <2>2, BusySaidNext DEF EndsOnly
  <2>3. CASE \E n \in Said(toClient) : n.type \in Owing /\ n.path = q
    BY <1>1, <1>5, <2>3, BusySaidNext
  <2>4. CASE \E n \in Said(toServer) : n.type \in Asking /\ n.path = q
    BY <2>4, BusySaidNext DEF AsksOnly
  <2> QED
    BY <2>1, <2>2, <2>3, <2>4, BusySaid
<1>6. \A id \in Nat : \A f : Of(id, f)' => Of(id, f)
  <2> SUFFICES ASSUME NEW id \in Nat, NEW f, Of(id, f)' PROVE Of(id, f)
    OBVIOUS
  <2>1. m.type \in {"FileUpload", "FileSyncChunkDownload"} => Of(m.id, p)
    BY <1>1, <1>2 DEF Of
  <2>2. CASE \E y \in downloads' \cup uploads' : y.id = id /\ y.path = f
    BY <2>1, <2>2 DEF Of, StartsOnly
  <2>3. CASE \E n \in Said(toClient') :
                /\ n.type \in {"FileUpload", "FileSyncChunkDownload", "FileUploadAck"}
                /\ n.id = id /\ n.path = f
    BY <1>1, <2>3 DEF Of
  <2>4. CASE \E n \in Said(toServer') : n.type = "Chunks" /\ n.id = id /\ n.path = f
    BY <2>1, <2>4 DEF Of, Asking, AsksOnly
  <2> QED
    BY <2>2, <2>3, <2>4 DEF Of
<1> QED
  BY <1>4, <1>5, <1>6, StillOneFile

\* The loop of the sync takes a message.
LEMMA ClientBusy ==
    ASSUME TransferInv, OneFile, ClientReceives
    PROVE  /\ OneFile' /\ Busy' \subseteq Busy
           /\ \E p : \A q \in Busy : q = p \/ q \in Busy'
           /\ \A n \in Said(toServer') : n \in Said(toServer) \/ n.type # "FileSync"
<1>1. PICK m : m = Head(toClient)
  OBVIOUS
<1>2. /\ TypeOK /\ NeverTorn /\ page \in Pages
      /\ toClient \in Seq(ServerMsgs) /\ toServer \in Seq(ClientMsgs)
  BY DEF TransferInv, TypeOK, SessionTypeOK
<1>3. /\ toClient # <<>> /\ toClient' = Tail(toClient)
      /\ UNCHANGED <<owed, onPage, nextId>>
  BY DEF ClientReceives, ReceiveDetail, ReceivePage, ReceiveTransfer, ReceiveEnd,
     Receive, Take, serverVars
<1>4. m \in Said(toClient)
  BY <1>1, <1>2, <1>3, SaidTail
<1>5. CASE ReceiveDetail
  <2> DEFINE pg == [page EXCEPT !.received = IF page.active THEN @ + 1 ELSE @]
             out == Replies(m)
  <2>1. m.type \in PageTypes /\ Apply(m) /\ FinishPage(pg, out)
    BY <1>1, <1>5 DEF ReceiveDetail, Receive, Take
  <2>2. pg \in Pages
    BY <1>2 DEF Pages
  <2>3. out = <<>> \/ \E x \in ClientMsgs : x.type \in Asking /\ out = <<x>>
    BY <1>1, <1>2, <1>3, <2>1, RepliesAsk DEF Handled
  <2> HIDE DEF pg
  <2>4. /\ \A n \in Said(toServer') :
              \/ n \in Said(toServer) \/ n = PageAck(pg.index)
              \/ out = <<n>> /\ n.type \in Asking
        /\ Said(toServer) \subseteq Said(toServer')
    BY <1>2, <2>1, <2>2, <2>3, FinishSends
  <2>5. PageAck(pg.index).type \notin Asking \cup {"FileSync"}
    BY DEF PageAck, Asking
  <2>6. \A n : out = <<n>> =>
          /\ m.type \in Owing /\ n.path = m.path
          /\ n.type = "Chunks" => m.type = "FileUpload" /\ n.id = m.id
    BY RepliesAbout
  <2> HIDE DEF out
  <2>7. downloads' = downloads
    BY <2>1, PageKeepsDownloads
  <2>8. \/ uploads' = uploads
        \/ /\ m.type = "FileUpload"
           /\ uploads' = { u \in uploads : u.id # m.id }
                         \cup { [id |-> m.id, path |-> m.path] }
    BY <2>1 DEF Apply, PageTypes, HandleSyncUpdate, HandleSyncDelete, HandleSyncRename,
       HandleSyncMtime, HandleUploadSession, Uploading, engineVars
  <2>9. m.type = "FileUpload" => m.id \in Nat /\ Of(m.id, m.path)
    BY <1>1, <1>2, <1>3, <1>4, HeadType DEF Of
  <2>10. \A u \in uploads : m.type = "FileUpload" /\ u.id = m.id => u.path = m.path
    BY <2>9 DEF Of, OneFile
  <2>11. EndsOnly(m.path) /\ StartsOnly(m, m.path)
    BY <2>7, <2>8, <2>10 DEF EndsOnly, StartsOnly
  <2>12. AsksOnly(m, m.path)
    BY <2>4, <2>5, <2>6 DEF AsksOnly
  <2>13. \A n \in Said(toServer') : n \in Said(toServer) \/ n.type # "FileSync"
    BY <2>4, <2>5 DEF Asking
  <2>14. /\ Busy' \subseteq Busy /\ OneFile'
         /\ \A q \in Busy : q = m.path \/ q \in Busy'
    BY <1>1, <1>2, <1>3, <2>11, <2>12, TakenBusy
  <2> QED
    BY <2>13, <2>14
<1>6. CASE ReceivePage \/ ReceiveEnd
  <2>1. /\ m.type \in {"FileSyncPage", "FileSyncEnd"} /\ UNCHANGED <<downloads, uploads>>
        /\ Said(toServer) \subseteq Said(toServer')
        /\ \A n \in Said(toServer') :
              n \in Said(toServer) \/ n.type \notin Asking \cup {"FileSync"}
    <3>1. CASE ReceivePage
      <4> DEFINE pg == [active |-> TRUE, index |-> m.index, total |-> m.total,
                        received |-> 0, last |-> m.last]
      <4>1. /\ m.type = "FileSyncPage" /\ FinishPage(pg, <<>>)
            /\ UNCHANGED <<downloads, uploads>>
        BY <1>1, <3>1 DEF ReceivePage, Receive, Take, engineVars
      <4>2. pg \in Pages
        <5>1. m.index \in Nat /\ m.total \in Nat /\ m.last \in BOOLEAN
          BY <1>1, <1>2, <1>3, <4>1, HeadType
        <5> QED
          BY <5>1 DEF Pages
      <4> HIDE DEF pg
      <4>3. /\ \A n \in Said(toServer') : n \in Said(toServer) \/ n = PageAck(pg.index)
                                          \/ <<>> = <<n>>
            /\ Said(toServer) \subseteq Said(toServer')
        BY <1>2, <4>1, <4>2, FinishSends
      <4>4. PageAck(pg.index).type \notin Asking \cup {"FileSync"} /\ \A n : <<>> # <<n>>
        BY DEF PageAck, Asking
      <4> QED
        BY <4>1, <4>3, <4>4
    <3>2. CASE ReceiveEnd
      <4>1. /\ m.type = "FileSyncEnd" /\ UNCHANGED <<downloads, uploads>>
            /\ toServer' = toServer \/ toServer' = Append(toServer, PageAck(-1))
        BY <1>1, <3>2 DEF ReceiveEnd, Receive, Take, engineVars
      <4>2. PageAck(-1) \in ClientMsgs /\ PageAck(-1).type \notin Asking \cup {"FileSync"}
        BY DEF PageAck, ClientMsgs, Asking
      <4>3. Said(Append(toServer, PageAck(-1))) = Said(toServer) \cup {PageAck(-1)}
        BY <1>2, <4>2, SaidAppend
      <4> QED
        BY <4>1, <4>2, <4>3
    <3> QED
      BY <1>6, <3>1, <3>2
  <2>2. m.type \notin Owing
    BY <2>1 DEF Owing
  <2>3. EndsOnly(m.path) /\ StartsOnly(m, m.path) /\ AsksOnly(m, m.path)
    BY <2>1 DEF EndsOnly, StartsOnly, AsksOnly
  <2>4. /\ Busy' \subseteq Busy /\ OneFile'
        /\ \A q \in Busy : q = m.path \/ q \in Busy'
    BY <1>1, <1>2, <1>3, <2>2, <2>3, TakenBusy
  <2> QED
    BY <2>1, <2>4
<1>7. CASE ReceiveTransfer
  <2>1. /\ m.type \in {"FileSyncChunkDownload", "FileUploadAck", "Chunk"}
        /\ Apply(m) /\ toServer' = toServer
    BY <1>1, <1>7 DEF ReceiveTransfer, Receive, Take
  <2>2. \E p : (m.type \in Owing => m.path = p) /\ EndsOnly(p) /\ StartsOnly(m, p)
    <3>1. CASE m.type = "FileSyncChunkDownload"
      <4>1. m.id \in Nat /\ Of(m.id, m.path)
        BY <1>1, <1>2, <1>3, <1>4, <3>1, HeadType DEF Of
      <4>2. \A d \in downloads : d.id = m.id => d.path = m.path
        BY <4>1 DEF Of, OneFile
      <4>3. /\ downloads' = downloads \/ downloads' = Started(m.id, m.path, m.count)
            /\ uploads' = uploads
        BY <2>1, <3>1 DEF Apply, HandleChunkDownloadStart
      <4>4. \A y \in Started(m.id, m.path, m.count) :
              y \in downloads \/ (y.id = m.id /\ y.path = m.path)
        BY DEF Started
      <4>5. \A d \in downloads :
              d.path = m.path \/ d \in Started(m.id, m.path, m.count)
        BY <4>2 DEF Started
      <4> QED
        BY <3>1, <4>3, <4>4, <4>5 DEF EndsOnly, StartsOnly
    <3>2. CASE m.type = "FileUploadAck"
      <4>1. /\ downloads' = downloads
            /\ \/ uploads' = uploads
               \/ \E u \in Acknowledged(m.id, m.path) : uploads' = uploads \ {u}
        BY <2>1, <3>2 DEF Apply, HandleUploadAck
      <4>2. m.id \in Nat \cup {NoSession}
        BY <1>4, <1>2, <3>2 DEF Said, ServerMsgs
      <4>3. m.id # NoSession => Of(m.id, m.path)
        BY <1>4, <3>2 DEF Of
      <4>4. \A u \in Acknowledged(m.id, m.path) : u.path = m.path
        BY <4>2, <4>3 DEF Acknowledged, Of, OneFile
      <4> QED
        BY <4>1, <4>4 DEF EndsOnly, StartsOnly
    <3>3. CASE m.type = "Chunk"
      <4>1. HandleBinaryChunk(m.id, m.index, m.data) /\ m.type \notin Owing
        BY <2>1, <3>3 DEF Apply, Owing
      <4>2. CASE UNCHANGED <<downloads, uploads>>
        BY <4>1, <4>2 DEF EndsOnly, StartsOnly
      <4>3. ASSUME NEW d \in downloads, uploads' = uploads,
                   \/ downloads' = downloads \ {d}
                   \/ downloads' = (downloads \ {d})
                        \cup { [d EXCEPT !.chunks = WithChunk(@, m.index, m.data)] }
            PROVE  EndsOnly(d.path) /\ StartsOnly(m, d.path)
        <5> DEFINE e == [d EXCEPT !.chunks = WithChunk(@, m.index, m.data)]
        <5>1. e.id = d.id /\ e.path = d.path
          BY DEF TypeOK, EngineTypeOK
        <5>2. downloads' \subseteq (downloads \ {d}) \cup {e}
          BY <4>3
        <5>3. downloads \ {d} \subseteq downloads'
          BY <4>3
        <5> HIDE DEF e
        <5> QED
          BY <4>3, <5>1, <5>2, <5>3 DEF EndsOnly, StartsOnly
      <4>4. CASE \E d \in downloads :
                    /\ uploads' = uploads
                    /\ \/ downloads' = downloads \ {d}
                       \/ downloads' = (downloads \ {d})
                             \cup { [d EXCEPT !.chunks = WithChunk(@, m.index, m.data)] }
        <5>1. PICK d \in downloads :
                /\ uploads' = uploads
                /\ \/ downloads' = downloads \ {d}
                   \/ downloads' = (downloads \ {d})
                         \cup { [d EXCEPT !.chunks = WithChunk(@, m.index, m.data)] }
          BY <4>4
        <5>2. EndsOnly(d.path) /\ StartsOnly(m, d.path)
          BY <4>3, <5>1
        <5> QED
          BY <4>1, <5>2
      <4> QED
        BY <4>1, <4>2, <4>4 DEF HandleBinaryChunk, engineVars
    <3> QED
      BY <2>1, <3>1, <3>2, <3>3
  <2>3. PICK p : (m.type \in Owing => m.path = p) /\ EndsOnly(p) /\ StartsOnly(m, p)
    BY <2>2
  <2>4. AsksOnly(m, p) /\ \A n \in Said(toServer') : n \in Said(toServer)
    BY <2>1 DEF AsksOnly
  <2>5. /\ Busy' \subseteq Busy /\ OneFile' /\ \A q \in Busy : q = p \/ q \in Busy'
    BY <1>1, <1>2, <1>3, <2>3, <2>4, TakenBusy
  <2> QED
    BY <2>4, <2>5
<1> QED
  BY <1>5, <1>6, <1>7 DEF ClientReceives

\* A step of the server: it moves a file on, or begins a transfer of it under a
\* new id.
LEMMA MovedBusy ==
    ASSUME UNCHANGED <<downloads, uploads>>, NEW p,
           \A x \in Counted(owed \cup onPage) : x.path = p \/ x \in Counted(owed \cup onPage)',
           \A m \in Said(toClient) : m.type \in Owing => m \in Said(toClient'),
           \A m \in Said(toServer) :
              m.type \in Asking => m.path = p \/ m \in Said(toServer'),
           \A x \in Counted(owed \cup onPage)' : x \in Counted(owed \cup onPage),
           \A m \in Said(toClient') :
              m \in Said(toClient) \/ (m.type \in Owing => m.path = p /\ p \in Busy),
           \A m \in Said(toServer') : m \in Said(toServer)
    PROVE  Busy' \subseteq Busy /\ \A q \in Busy : q = p \/ q \in Busy'
<1>1. ASSUME NEW q \in Busy' PROVE q \in Busy
  <2>1. CASE \E x \in Counted(owed \cup onPage)' : x.path = q
    BY <2>1, BusySaid
  <2>2. CASE \E x \in downloads' \cup uploads' : x.path = q
    BY <2>2, BusySaid
  <2>3. CASE \E m \in Said(toClient') : m.type \in Owing /\ m.path = q
    BY <2>3, BusySaid
  <2>4. CASE \E m \in Said(toServer') : m.type \in Asking /\ m.path = q
    BY <2>4, BusySaid
  <2> QED
    BY <1>1, <2>1, <2>2, <2>3, <2>4, BusySaidNext
<1>2. ASSUME NEW q \in Busy, q # p PROVE q \in Busy'
  <2>1. CASE \E x \in Counted(owed \cup onPage) : x.path = q
    BY <1>2, <2>1, BusySaidNext
  <2>2. CASE \E x \in downloads \cup uploads : x.path = q
    BY <2>2, BusySaidNext
  <2>3. CASE \E m \in Said(toClient) : m.type \in Owing /\ m.path = q
    BY <2>3, BusySaidNext
  <2>4. CASE \E m \in Said(toServer) : m.type \in Asking /\ m.path = q
    BY <1>2, <2>4, BusySaidNext
  <2> QED
    BY <1>2, <2>1, <2>2, <2>3, <2>4, BusySaid
<1> QED
  BY <1>1, <1>2

\* The server takes a message of the client.
LEMMA TakenByServer ==
    ASSUME TypeOK, NEW type, FromClient(type)
    PROVE  LET m == Head(toServer)
           IN /\ m.type = type /\ m \in ClientMsgs
              /\ Said(toServer) = {m} \cup Said(toServer')
              /\ UNCHANGED <<downloads, uploads>>
<1>1. /\ toServer # <<>> /\ Head(toServer).type = type /\ toServer' = Tail(toServer)
      /\ UNCHANGED <<downloads, uploads>> /\ toServer \in Seq(ClientMsgs)
  BY DEF FromClient, TypeOK
<1> QED
  BY <1>1, SaidTail

\* After the answer the server finishes no more than one file, and adds none.
LEMMA ServerBusy ==
    ASSUME TransferInv, OneFile, ServerSteps
    PROVE  /\ OneFile'
           /\ ~ServerAnswersSync =>
                 Busy' \subseteq Busy /\ \E p : \A q \in Busy : q = p \/ q \in Busy'
<1>1. TypeOK /\ toClient \in Seq(ServerMsgs) /\ toServer \in Seq(ClientMsgs)
      /\ nextId \in Nat
  BY DEF TransferInv, TypeOK, ServerTypeOK
<1>2. CASE ServerAnswersSync
  <2>1. FromClient("FileSync") /\ nextId' = nextId
    BY <1>1, <1>2, SyncAnswered
  <2>2. PICK m \in ServerMsgs : m.type = "FileSyncEnd" /\ toClient' = Append(toClient, m)
    BY <1>1, <1>2, SyncAnswered
  <2>3. Said(toClient') = Said(toClient) \cup {m}
    BY <1>1, <2>2, SaidAppend
  <2>4. \A id, f : Of(id, f)' => Of(id, f)
    BY <1>1, <2>1, <2>2, <2>3, TakenByServer DEF Of
  <2> QED
    BY <1>1, <1>2, <2>1, <2>4, StillOneFile
<1>3. CASE ServerStartsPage
  <2>1. PICK ack : ack = Head(toServer)
    OBVIOUS
  <2>2. /\ ack.type = "FileSyncPageAck" /\ Said(toServer) = {ack} \cup Said(toServer')
        /\ UNCHANGED <<downloads, uploads, nextId>>
    BY <1>1, <1>3, <2>1, PageStarted, TakenByServer
  <2>3. /\ owed' \cup onPage' = owed \cup onPage
        /\ \A m \in Said(toClient) : m \in Said(toClient')
        /\ \A m \in Said(toClient') : m \in Said(toClient) \/ m.type = "FileSyncPage"
    <3>1. CASE UNCHANGED <<owed, onPage, toClient>>
      BY <3>1
    <3>2. CASE /\ onPage' \in SUBSET owed /\ owed' = owed \ onPage' /\ onPage = {}
               /\ \E n \in ServerMsgs : n.type = "FileSyncPage"
                                        /\ toClient' = Append(toClient, n)
      <4>1. PICK n \in ServerMsgs : n.type = "FileSyncPage" /\ toClient' = Append(toClient, n)
        BY <3>2
      <4>2. Said(toClient') = Said(toClient) \cup {n}
        BY <1>1, <4>1, SaidAppend
      <4> QED
        BY <3>2, <4>1, <4>2
    <3> QED
      BY <1>1, <1>3, <3>1, <3>2, PageStarted
  <2>4. Counted(owed \cup onPage)' = Counted(owed \cup onPage)
    BY <2>3 DEF Counted
  <2>5. \A id, f : Of(id, f)' => Of(id, f)
    BY <2>2, <2>3 DEF Of
  <2>6. \A m : m.type = "FileSyncPage" => m.type \notin Owing
    BY DEF Owing
  <2>7. ack.type \notin Asking
    BY <2>2 DEF Asking
  <2>8. Busy' \subseteq Busy /\ \A q \in Busy : q = ack.path \/ q \in Busy'
    BY <2>2, <2>3, <2>4, <2>6, <2>7, MovedBusy
  <2> QED
    BY <1>1, <2>2, <2>5, <2>8, StillOneFile
<1>4. CASE ServerSendsDetail
  <2>1. PICK d \in onPage, m \in ServerMsgs :
          /\ d \in Findings /\ m \in DetailMsgs(d) /\ m.type = d.type /\ m.path = d.path
          /\ onPage' = onPage \ {d} /\ toClient' = Append(toClient, m)
          /\ nextId' = IF d.type = "FileUpload" THEN nextId + 1 ELSE nextId
    BY <1>1, <1>4, DetailSent
  <2>2. UNCHANGED <<downloads, uploads, toServer, owed>>
    BY <1>1, <1>4, DetailSent DEF engineVars
  <2>3. Said(toClient') = Said(toClient) \cup {m}
    BY <1>1, <2>1, SaidAppend
  <2>4. d.type \in PageTypes \ {"FileSyncRename"}
    BY <2>1 DEF Findings
  <2>5. m.type \in Owing => d \in Counted(owed \cup onPage) /\ m.path \in Busy
    <3>1. m.type \in Owing => d \in Counted(owed \cup onPage)
      BY <2>1 DEF Owing, Counted
    <3> QED
      BY <2>1, <3>1, BusySaid
  <2>6. Busy' \subseteq Busy /\ \A q \in Busy : q = m.path \/ q \in Busy'
    <3>1. /\ \A x \in Counted(owed \cup onPage) :
                x.path = m.path \/ x \in Counted(owed \cup onPage)'
          /\ \A x \in Counted(owed \cup onPage)' : x \in Counted(owed \cup onPage)
      BY <2>1, <2>2 DEF Counted
    <3> QED
      BY <2>2, <2>3, <2>5, <3>1, MovedBusy
  <2>7. OneFile'
    <3>1. CASE d.type = "FileUpload"
      <4>1. m = [type |-> "FileUpload", id |-> nextId, path |-> d.path]
        BY <2>1, <3>1 DEF DetailMsgs
      <4>2. m.id = nextId
        BY <4>1
      <4>3. \A id, f : Of(id, f)' => Of(id, f) \/ (id = nextId /\ f = d.path)
        BY <2>1, <2>2, <2>3, <4>2 DEF Of
      <4>4. nextId' = nextId + 1
        BY <2>1, <3>1
      <4> QED
        BY <1>1, <4>3, <4>4, StillOneFile
    <3>2. CASE d.type # "FileUpload"
      <4>1. m.type \notin {"FileUpload", "FileSyncChunkDownload", "FileUploadAck"}
        BY <2>1, <2>4, <3>2 DEF PageTypes
      <4>2. \A id, f : Of(id, f)' => Of(id, f)
        BY <2>2, <2>3, <4>1 DEF Of
      <4> QED
        BY <1>1, <2>1, <3>2, <4>2, StillOneFile
    <3> QED
      BY <3>1, <3>2
  <2> QED
    BY <2>6, <2>7
<1>5. CASE ServerStartsDownload
  <2>1. PICK m : m = Head(toServer)
    OBVIOUS
  <2>2. /\ m.type = "FileChunkDownload" /\ m \in ClientMsgs
        /\ Said(toServer) = {m} \cup Said(toServer')
        /\ UNCHANGED <<downloads, uploads, owed, onPage>>
    BY <1>1, <1>5, <2>1, TakenByServer DEF ServerStartsDownload
  <2>3. m.type \in Asking /\ m \in Said(toServer) /\ m.path \in Files
    BY <2>2 DEF Asking, ClientMsgs
  <2>4. m.path \in Busy
    BY <2>3, BusySaid
  <2>5. Counted(owed \cup onPage)' = Counted(owed \cup onPage)
    BY <2>2 DEF Counted
  <2>6. CASE UNCHANGED <<toClient, nextId>>
    <3>1. \A id, f : Of(id, f)' => Of(id, f)
      BY <2>2, <2>6 DEF Of
    <3>2. Busy' \subseteq Busy /\ \A q \in Busy : q = m.path \/ q \in Busy'
      BY <2>2, <2>5, <2>6, MovedBusy
    <3> QED
      BY <1>1, <2>6, <3>1, <3>2, StillOneFile
  <2>7. ASSUME srv[m.path] # Absent, nextId' = nextId + 1,
               toClient' = Append(toClient,
                  [type |-> "FileSyncChunkDownload", id |-> nextId, path |-> m.path,
                   count |-> ChunkCount[srv[m.path]]])
        PROVE  OneFile' /\ Busy' \subseteq Busy /\ \E p : \A q \in Busy : q = p \/ q \in Busy'
    <3>1. PICK n : n = [type |-> "FileSyncChunkDownload", id |-> nextId, path |-> m.path,
                        count |-> ChunkCount[srv[m.path]]]
      OBVIOUS
    <3>2. /\ n.type = "FileSyncChunkDownload" /\ n.id = nextId /\ n.path = m.path
          /\ n \in ServerMsgs
      <4>1. srv[m.path] \in Contents
        BY <1>1, <2>3, <2>7 DEF TypeOK, ServerTypeOK
      <4> QED
        BY <1>1, <2>3, <3>1, <4>1, ChunkCountType DEF ServerMsgs
    <3>3. Said(toClient') = Said(toClient) \cup {n}
      BY <1>1, <2>7, <3>1, <3>2, SaidAppend
    <3>4. \A id, f : Of(id, f)' => Of(id, f) \/ (id = nextId /\ f = m.path)
      BY <2>2, <3>2, <3>3 DEF Of
    <3>5. Busy' \subseteq Busy /\ \A q \in Busy : q = m.path \/ q \in Busy'
      BY <2>2, <2>4, <2>5, <3>2, <3>3, MovedBusy
    <3> QED
      BY <1>1, <2>7, <3>4, <3>5, StillOneFile
  <2> QED
    BY <1>5, <2>1, <2>6, <2>7 DEF ServerStartsDownload
<1>6. CASE ServerSendsChunk
  <2>1. PICK t \in sending : \E i \in t.left :
          /\ toClient' = Append(toClient, [type |-> "Chunk", id |-> t.id,
                                           index |-> i, data |-> t.data])
          /\ UNCHANGED <<downloads, uploads, toServer, owed, onPage, nextId>>
    BY <1>6 DEF ServerSendsChunk, engineVars
  <2>2. PICK i \in t.left :
          /\ toClient' = Append(toClient, [type |-> "Chunk", id |-> t.id,
                                           index |-> i, data |-> t.data])
          /\ UNCHANGED <<downloads, uploads, toServer, owed, onPage, nextId>>
    BY <2>1
  <2>3. PICK n : n = [type |-> "Chunk", id |-> t.id, index |-> i, data |-> t.data]
    OBVIOUS
  <2>4. n \in ServerMsgs /\ n.type = "Chunk"
    BY <1>1, <2>3 DEF TypeOK, ServerTypeOK, ServerMsgs
  <2>5. Said(toClient') = Said(toClient) \cup {n}
    BY <1>1, <2>2, <2>3, <2>4, SaidAppend
  <2>6. \A id, f : Of(id, f)' => Of(id, f)
    BY <2>2, <2>4, <2>5 DEF Of
  <2>7. n.type \notin Owing /\ Counted(owed \cup onPage)' = Counted(owed \cup onPage)
    BY <2>2, <2>4 DEF Owing, Counted
  <2>8. Busy' \subseteq Busy /\ \A q \in Busy : q = n.path \/ q \in Busy'
    BY <2>2, <2>5, <2>7, MovedBusy
  <2> QED
    BY <1>1, <2>2, <2>6, <2>8, StillOneFile
<1>7. CASE ServerAcceptsChunks
  <2>1. PICK m : m = Head(toServer)
    OBVIOUS
  <2>2. /\ m.type = "Chunks" /\ m \in ClientMsgs
        /\ Said(toServer) = {m} \cup Said(toServer')
        /\ UNCHANGED <<downloads, uploads, owed, onPage, nextId>>
    BY <1>1, <1>7, <2>1, TakenByServer DEF ServerAcceptsChunks
  <2>3. m.type \in Asking /\ m \in Said(toServer) /\ m.id \in Nat /\ m.path \in Files
    BY <2>2 DEF Asking, ClientMsgs
  <2>4. m.path \in Busy /\ Of(m.id, m.path)
    BY <2>2, <2>3, BusySaid DEF Of
  <2>5. PICK id \in {m.id, NoSession} :
          toClient' = Append(toClient, [type |-> "FileUploadAck", id |-> id, path |-> m.path])
    BY <1>7, <2>1 DEF ServerAcceptsChunks
  <2>6. PICK n : n = [type |-> "FileUploadAck", id |-> id, path |-> m.path]
    OBVIOUS
  <2>7. n \in ServerMsgs /\ n.type = "FileUploadAck" /\ n.id = id /\ n.path = m.path
    BY <2>3, <2>5, <2>6 DEF ServerMsgs
  <2>8. Said(toClient') = Said(toClient) \cup {n}
    BY <1>1, <2>5, <2>6, <2>7, SaidAppend
  <2>9. \A k \in Nat : \A f : Of(k, f)' => Of(k, f)
    <3>1. \A k \in Nat : k = id => k = m.id
      BY <2>5, FilesAssumption
    <3> QED
      BY <2>2, <2>4, <2>7, <2>8, <3>1 DEF Of
  <2>10. Counted(owed \cup onPage)' = Counted(owed \cup onPage)
    BY <2>2 DEF Counted
  <2>11. Busy' \subseteq Busy /\ \A q \in Busy : q = m.path \/ q \in Busy'
    BY <2>2, <2>4, <2>7, <2>8, <2>10, MovedBusy
  <2> QED
    BY <1>1, <2>2, <2>9, <2>11, StillOneFile
<1> QED
  BY <1>2, <1>3, <1>4, <1>5, <1>6, <1>7 DEF ServerSteps

\* A complete sync has no file left.
LEMMA OverBusy == TypeOK /\ Over => Busy = {}
<1> SUFFICES ASSUME TypeOK, Over, NEW p \in Busy PROVE FALSE
  OBVIOUS
<1>1. /\ Counted(owed) = {} /\ Counted(onPage) = {} /\ downloads = {} /\ uploads = {}
      /\ \A m \in Said(toClient) : m.type \notin Owing
      /\ \A m \in Said(toServer) : m.type \notin Asking
  BY NothingLeftSaid DEF Over
<1>2. Counted(owed \cup onPage) = {}
  BY <1>1 DEF Counted
<1> QED
  BY <1>1, <1>2, BusySaid

\* The same after a step.
LEMMA OverBusyNext == TypeOK' /\ Over' => (Busy = {})'
  BY OverBusy, PTL

\* While nothing is broadcast, a sync accounts for what counts, its session ids
\* stand for one file each, and it is over when it is complete.
KeptInv ==
    /\ HandledInv
    /\ phase = "files" => OneFile

\* Outside the loop, a step that leaves the sync where it is leaves the abstract
\* session alone.
LEMMA SessionStutters ==
    ASSUME MaxBroadcasts = 0, HandledInv, HandledInv',
           phase \in {"settings", "live"}, phase' \in {"settings", "live"}, done' = done
    PROVE  UNCHANGED <<Stage, Left>>
<1>1. Stage = IF done THEN "returned" ELSE "idle"
  BY StageSaid DEF HandledInv, TransferInv, TypeOK, CountTypeOK
<1>2. Stage' = IF done THEN "returned" ELSE "idle"
  BY StageSaidNext DEF HandledInv, TransferInv, TypeOK, CountTypeOK
<1>3. Left = {}
  <2>1. phase = "settings" /\ done => Busy = {}
    BY OverBusy DEF HandledInv, Quiet, TransferInv
  <2> QED
    BY <1>1, <2>1 DEF Left
<1>4. Left' = {}
  <2>1. phase' = "settings" /\ done' => TypeOK' /\ Over'
    BY DEF HandledInv, Quiet, TransferInv
  <2>2. phase' = "settings" /\ done => Busy' = {}
    BY <2>1, OverBusyNext
  <2> QED
    BY <1>2, <2>2 DEF Left
<1> QED
  BY <1>1, <1>2, <1>3, <1>4

\* The loop of the sync settles one file at most, and returns when none is left.
LEMMA ClientContract ==
    ASSUME MaxBroadcasts = 0, KeptInv, HandledInv', ClientReceives
    PROVE  OneFile' /\ [Session!Next]_Session!vars
<1>1. /\ phase = "files" /\ toClient # <<>> /\ TransferInv /\ TypeOK /\ OneFile
      /\ ReturnIfComplete /\ ~done /\ Accounted
  BY DEF KeptInv, HandledInv, TransferInv, Quiet, ClientReceives, ReceiveDetail,
     ReceivePage, ReceiveTransfer, ReceiveEnd, Receive, Take
<1>2. /\ OneFile' /\ Busy' \subseteq Busy
      /\ \E p : \A q \in Busy : q = p \/ q \in Busy'
      /\ \A n \in Said(toServer') : n \in Said(toServer) \/ n.type # "FileSync"
  BY <1>1, ClientBusy
<1>3. PICK p : \A q \in Busy : q = p \/ q \in Busy'
  BY <1>2
<1>4. \A n \in Said(toServer) : n.type # "FileSync"
  BY <1>1 DEF Accounted, Asked, Answered, Announced, Said
<1>5. Stage = "answered"
  BY <1>1, <1>4, StageSaid
<1>6. \/ Stage' = "answered" \/ Stage' = "idle"
      \/ Stage' = "returned" /\ Busy' = {}
  <2>1. CASE SyncComplete'
    <3>1. phase' = "settings" /\ done'
      BY <1>1, <2>1 DEF ReturnIfComplete
    <3>2. TypeOK' /\ Over'
      BY <3>1 DEF HandledInv, Quiet, TransferInv
    <3> QED
      BY <3>1, <3>2, StageSaidNext, OverBusyNext
  <2>2. CASE ~SyncComplete'
    <3>1. ~done' /\ phase' \in {"files", "settings"}
      BY <1>1, <2>2 DEF ReturnIfComplete
    <3>2. \A n \in Said(toServer') : n.type # "FileSync"
      BY <1>2, <1>4
    <3> QED
      BY <3>1, <3>2, StageSaidNext
  <2> QED
    BY <2>1, <2>2
<1>7. [Session!Next]_Session!vars
  BY <1>1, <1>2, <1>3, <1>5, <1>6, OneSettled
<1> QED
  BY <1>2, <1>7

\* The server compares, and then settles one file at most.
LEMMA ServerContract ==
    ASSUME MaxBroadcasts = 0, KeptInv, HandledInv', ServerSteps
    PROVE  (phase = "files" => OneFile') /\ [Session!Next]_Session!vars
<1>1. /\ UNCHANGED <<phase, done>> /\ TransferInv /\ TypeOK /\ TypeOK'
      /\ toServer \in Seq(ClientMsgs)
  BY DEF KeptInv, HandledInv, TransferInv, TypeOK, ServerSteps, ServerAnswersSync,
     ServerStartsPage, ServerSendsDetail, ServerStartsDownload, ServerSendsChunk,
     ServerAcceptsChunks, FromClient, ghostVars
<1>2. phase # "idle"
  <2>1. phase = "idle" => toServer = <<>> /\ onPage = {} /\ sending = {}
    BY <1>1 DEF TransferInv, NothingUnconnected
  <2> QED
    BY <2>1 DEF ServerSteps, ServerAnswersSync, ServerStartsPage, ServerSendsDetail,
       ServerStartsDownload, ServerSendsChunk, ServerAcceptsChunks, FromClient
<1>3. CASE phase # "files"
  <2>1. phase \in {"settings", "live"}
    BY <1>1, <1>2, <1>3 DEF TypeOK, SessionTypeOK
  <2> QED
    BY <1>1, <1>3, <2>1, SessionStutters, AbstractSteps DEF KeptInv
<1>4. CASE phase = "files"
  <2>1. OneFile /\ Accounted
    BY <1>4 DEF KeptInv, HandledInv, Quiet
  <2>2. OneFile'
    BY <1>1, <2>1, ServerBusy
  <2>3. CASE ServerAnswersSync
    <3>1. toServer # <<>> /\ Head(toServer).type = "FileSync"
      BY <2>3 DEF ServerAnswersSync, FromClient
    <3>2. Asked /\ Head(toServer) \in Said(toServer)
      BY <1>1, <2>1, <3>1, NothingElse, SaidTail
    <3>3. toServer' = <<>>
      BY <2>3, <3>2 DEF Asked, ServerAnswersSync, FromClient
    <3>4. \A n \in Said(toServer') : n.type # "FileSync"
      BY <3>3 DEF Said
    <3>5. Stage = "asked" /\ Stage' = "answered"
      BY <1>1, <1>4, <3>1, <3>2, <3>4, StageSaid, StageSaidNext
    <3>6. Left' \subseteq Files
      BY <1>1, BusyFilesNext DEF Left
    <3> QED
      BY <2>2, <3>5, <3>6, AbstractSteps
  <2>4. CASE ~ServerAnswersSync
    <3>1. Announced
      <4>1. \/ onPage # {} \/ sending # {}
            \/ toServer # <<>> /\ Head(toServer).type # "FileSync"
        BY <2>4 DEF ServerSteps, ServerStartsPage, ServerSendsDetail,
           ServerStartsDownload, ServerSendsChunk, ServerAcceptsChunks, FromClient
      <4> QED
        BY <1>1, <2>1, <4>1, NothingElse
    <3>2. Said(toServer') \subseteq Said(toServer)
      <4>1. toServer' = toServer \/ (toServer # <<>> /\ toServer' = Tail(toServer))
        BY <2>4 DEF ServerSteps, ServerStartsPage, ServerSendsDetail,
           ServerStartsDownload, ServerSendsChunk, ServerAcceptsChunks, FromClient
      <4> QED
        BY <1>1, <4>1, SaidLess
    <3>3. Stage = "answered" /\ Stage' = "answered"
      BY <1>1, <1>4, <3>1, <3>2, StageSaid, StageSaidNext DEF Announced
    <3>4. Busy' \subseteq Busy /\ \E p : \A q \in Busy : q = p \/ q \in Busy'
      BY <1>1, <2>1, <2>4, ServerBusy
    <3>5. PICK p : \A q \in Busy : q = p \/ q \in Busy'
      BY <3>4
    <3> QED
      BY <1>1, <2>2, <3>3, <3>4, <3>5, OneSettled
  <2> QED
    BY <2>3, <2>4
<1> QED
  BY <1>3, <1>4

\* The other steps begin a session, give one up, or leave it alone.
LEMMA OtherContract ==
    ASSUME MaxBroadcasts = 0, KeptInv, HandledInv',
           \/ RequestSync \/ ReceiveElsewhere \/ HandlerFails \/ EndSettings
           \/ Disconnect \/ Restart
    PROVE  (phase' = "files" => OneFile') /\ [Session!Next]_Session!vars
<1>1. HandledInv /\ TransferInv /\ TypeOK
  BY DEF KeptInv, HandledInv, TransferInv
<1>2. CASE RequestSync
  <2>1. Asked' /\ phase = "idle" /\ phase' = "files"
    BY <1>1, <1>2, RequestCounts DEF RequestSync
  <2>2. /\ toClient' = <<>> /\ downloads' = {} /\ uploads' = {}
        /\ toServer' = <<[type |-> "FileSync", files |-> disk, newest |-> newest]>>
    BY <1>2, <2>1 DEF RequestSync, Reset, Asked
  <2>3. /\ Said(toClient') = {}
        /\ Said(toServer') = {[type |-> "FileSync", files |-> disk, newest |-> newest]}
    BY <2>2, SaidOne DEF Said
  <2>4. OneFile'
    BY <2>2, <2>3 DEF OneFile, Of
  <2>5. Stage = "idle" /\ Stage' = "asked"
    BY <2>1, <2>3, StageSaid, StageSaidNext
  <2>6. Left' = {}
    BY <2>5 DEF Left
  <2> QED
    BY <2>4, <2>5, <2>6, AbstractSteps
<1>3. CASE ReceiveElsewhere \/ EndSettings \/ (HandlerFails /\ phase # "files")
  <2>1. /\ phase \in {"settings", "live"} /\ phase' \in {"settings", "live"}
        /\ done' = done
    BY <1>1, <1>3 DEF ReceiveElsewhere, EndSettings, HandlerFails, ghostVars, TypeOK,
       SessionTypeOK
  <2>2. UNCHANGED <<Stage, Left>>
    BY <1>1, <2>1, SessionStutters
  <2> QED
    BY <2>1, <2>2, AbstractSteps
<1>4. CASE HandlerFails /\ phase = "files"
  <2>1. phase' = "settings" /\ ~done'
    BY <1>1, <1>4 DEF HandlerFails, ghostVars, HandledInv
  <2>2. Stage' = "idle"
    BY <2>1, StageSaidNext
  <2>3. Left' = {}
    BY <2>2 DEF Left
  <2> QED
    BY <2>1, <2>2, <2>3, AbstractSteps
<1>5. CASE Disconnect \/ Restart
  <2>1. phase' = "idle"
    BY <1>5 DEF Disconnect, Restart, ConnectionLost
  <2>2. Stage' = "idle"
    BY <2>1, StageSaidNext
  <2>3. Left' = {}
    BY <2>2 DEF Left
  <2> QED
    BY <2>1, <2>2, <2>3, AbstractSteps
<1> QED
  BY <1>2, <1>3, <1>4, <1>5

\* An upload of a file that changes meanwhile moves the file on; one that fails
\* gives the sync up.
LEMMA ChangedContract ==
    ASSUME MaxBroadcasts = 0, KeptInv, HandledInv', ChangedUpload \/ UploadVanishes
    PROVE  (phase' = "files" => OneFile') /\ [Session!Next]_Session!vars
<1>1. PICK m : m = Head(toClient)
  OBVIOUS
<1>2. /\ phase # "idle" /\ toClient # <<>> /\ m.type = "FileUpload"
      /\ toClient' = Tail(toClient)
      /\ UNCHANGED <<downloads, owed, onPage, nextId>>
  BY <1>1 DEF ChangedUpload, UploadVanishes, ChangeBetweenReads, Take, serverVars
<1>3. /\ TypeOK /\ HandledInv /\ page \in Pages /\ toServer \in Seq(ClientMsgs)
      /\ m \in Said(toClient)
  BY <1>1, <1>2, SaidTail DEF KeptInv, HandledInv, TransferInv, TypeOK, SessionTypeOK
<1>4. CASE phase # "files"
  <2>1. /\ phase \in {"settings", "live"} /\ phase' \in {"settings", "live"}
        /\ done' = done
    BY <1>2, <1>3, <1>4 DEF ChangedUpload, UploadVanishes, TypeOK, SessionTypeOK
  <2>2. UNCHANGED <<Stage, Left>>
    BY <1>3, <2>1, SessionStutters
  <2> QED
    BY <2>1, <2>2, AbstractSteps
<1>5. CASE phase = "files" /\ UploadVanishes
  <2>1. phase' = "settings" /\ ~done'
    BY <1>3, <1>5 DEF UploadVanishes, HandledInv
  <2>2. Stage' = "idle"
    BY <2>1, StageSaidNext
  <2>3. Left' = {}
    BY <2>2 DEF Left
  <2> QED
    BY <2>1, <2>2, <2>3, AbstractSteps
<1>6. CASE phase = "files" /\ ChangedUpload
  <2> DEFINE pg == [page EXCEPT !.received = IF page.active THEN @ + 1 ELSE @]
  <2>1. PICK c \in Contents : /\ HandleChangedUpload(m.id, m.path, c)
                              /\ FinishPage(pg, <<ChunksOf(m.id, m.path, c)>>)
                              /\ ReturnIfComplete
    BY <1>1, <1>6 DEF ChangedUpload
  <2>2. pg \in Pages
    BY <1>3 DEF Pages
  <2>3. m.path \in Files /\ m.id \in Nat
    BY <1>1, <1>2, <1>3, HeadType DEF PageTypes
  <2> DEFINE sent == ChunksOf(m.id, m.path, c)
  <2>4. /\ sent \in ClientMsgs /\ sent.type = "Chunks" /\ sent.path = m.path
        /\ sent.id = m.id /\ sent.type \in Asking
    BY <2>3 DEF ChunksOf, ClientMsgs, Asking
  <2>5. FinishPage(pg, <<sent>>)
    BY <2>1
  <2> HIDE DEF pg, sent
  <2>6. /\ \A n \in Said(toServer') : n \in Said(toServer) \/ n = PageAck(pg.index) \/ n = sent
        /\ Said(toServer) \subseteq Said(toServer')
    BY <1>3, <2>2, <2>4, <2>5, FinishSends
  <2>7. PageAck(pg.index).type \notin Asking \cup {"FileSync"}
    BY DEF PageAck, Asking
  <2>8. OneFile /\ Accounted /\ ~done
    BY <1>6 DEF KeptInv, HandledInv, Quiet
  <2>9. Of(m.id, m.path)
    BY <1>2, <1>3 DEF Of
  <2>10. \A u \in uploads : u.id = m.id => u.path = m.path
    BY <2>3, <2>8, <2>9 DEF Of, OneFile
  <2>11. EndsOnly(m.path) /\ StartsOnly(m, m.path)
    BY <1>2, <2>1, <2>10 DEF HandleChangedUpload, Uploading, EndsOnly, StartsOnly
  <2>12. AsksOnly(m, m.path)
    BY <1>2, <2>4, <2>6, <2>7 DEF AsksOnly, Owing
  <2>13. /\ Busy' \subseteq Busy /\ OneFile'
         /\ \A q \in Busy : q = m.path \/ q \in Busy'
    BY <1>1, <1>2, <1>3, <2>8, <2>11, <2>12, TakenBusy
  <2>14. \A n \in Said(toServer) : n.type # "FileSync"
    BY <1>1, <1>2, <1>3, <2>8, NothingElse DEF Announced
  <2>15. \A n \in Said(toServer') : n.type # "FileSync"
    BY <2>4, <2>6, <2>7, <2>14
  <2>16. ~SyncComplete'
    BY <2>1 DEF HandleChangedUpload, Uploading, SyncComplete
  <2>17. ~done' /\ phase' \in {"files", "settings"}
    BY <2>1, <2>8, <2>16 DEF ReturnIfComplete
  <2>18. Stage = "answered" /\ (Stage' = "answered" \/ Stage' = "idle")
    BY <1>6, <2>14, <2>15, <2>17, StageSaid, StageSaidNext
  <2>19. [Session!Next]_Session!vars
    BY <1>3, <2>13, <2>18, OneSettled
  <2> QED
    BY <2>13, <2>19
<1> QED
  BY <1>4, <1>5, <1>6

\* Changes that are not broadcast leave the session alone.
LEMMA ChangesContract ==
    ASSUME MaxBroadcasts = 0, KeptInv, Changes \/ UNCHANGED vars
    PROVE  (phase' = "files" => OneFile') /\ [Session!Next]_Session!vars
<1>1. ~(broadcasts < MaxBroadcasts)
  <2>1. broadcasts \in Nat
    BY DEF KeptInv, HandledInv, TransferInv, TypeOK, CountTypeOK
  <2> QED
    BY <2>1
<1>2. UNCHANGED <<phase, toServer, toClient, owed, onPage, downloads, uploads, done, nextId>>
  <2>1. CASE Changes
    BY <1>1, <2>1 DEF Changes, UserChanges, RemoteChanges, RemoteRenames, Change, Broadcast
  <2>2. CASE UNCHANGED vars
    BY <2>2 DEF vars, engineVars, serverVars, ghostVars
  <2> QED
    BY <2>1, <2>2
<1>3. Stage' = Stage /\ Busy' = Busy
  BY <1>2 DEF Stage, Busy, Counted
<1>4. UNCHANGED <<Stage, Left>>
  BY <1>2, <1>3 DEF Left
<1>5. OneFile => OneFile'
  <2>1. \A id, f : Of(id, f)' <=> Of(id, f)
    BY <1>2 DEF Of
  <2> QED
    BY <1>2, <2>1 DEF OneFile
<1> QED
  BY <1>2, <1>4, <1>5, AbstractSteps DEF KeptInv

\* Each step preserves the invariant, and is a step of the session or none.
LEMMA ContractStep ==
    MaxBroadcasts = 0 /\ KeptInv /\ [Next]_vars => KeptInv' /\ [Session!Next]_Session!vars
<1> SUFFICES ASSUME MaxBroadcasts = 0, KeptInv, [Next]_vars
             PROVE  KeptInv' /\ [Session!Next]_Session!vars
  OBVIOUS
<1>1. HandledInv /\ HandledInv'
  BY HandledStep DEF KeptInv
<1>2. CASE ClientReceives
  BY <1>1, <1>2, ClientContract DEF KeptInv
<1>3. CASE ServerSteps
  <2>1. phase' = phase
    BY <1>3 DEF ServerSteps, ServerAnswersSync, ServerStartsPage, ServerSendsDetail,
       ServerStartsDownload, ServerSendsChunk, ServerAcceptsChunks, FromClient
  <2> QED
    BY <1>1, <1>3, <2>1, ServerContract DEF KeptInv
<1>4. CASE \/ RequestSync \/ ReceiveElsewhere \/ HandlerFails \/ EndSettings
           \/ Disconnect \/ Restart
  BY <1>1, <1>4, OtherContract DEF KeptInv
<1>5. CASE Changes \/ UNCHANGED vars
  BY <1>1, <1>5, ChangesContract DEF KeptInv
<1>6. CASE ChangedUpload \/ UploadVanishes
  BY <1>1, <1>6, ChangedContract DEF KeptInv
<1> QED
  BY <1>2, <1>3, <1>4, <1>5, <1>6 DEF Next

\* While no change is broadcast, a file sync keeps the contract of a sync: once
\* the server has compared, each file is settled once and none is added,
\* whatever the order of pages, chunks and acknowledgements, and the sync
\* returns complete only when none is left (handle_message, is_complete,
\* process_file_sync_messages).
THEOREM ContractKept ==
    ASSUME MaxBroadcasts = 0
    PROVE  Spec => KeepsContract
<1>1. Init => Session!Init /\ KeptInv
  <2> SUFFICES ASSUME Init PROVE Session!Init /\ KeptInv
    OBVIOUS
  <2>1. phase = "idle" /\ HandledInv
    BY HandledInit DEF Init
  <2>2. Stage = "idle"
    BY <2>1, StageSaid
  <2>3. Left = {}
    BY <2>2 DEF Left
  <2> QED
    BY <2>1, <2>2, <2>3 DEF Session!Init, KeptInv
<1>2. KeptInv /\ [Next]_vars => KeptInv' /\ [Session!Next]_Session!vars
  BY ContractStep
<1> QED
  BY <1>1, <1>2, PTL DEF Spec, KeepsContract, Session!Spec
=============================================================================
