--------------------------- MODULE NoteLiveProofs ---------------------------
(***************************************************************************)
(* Theorems of NoteLive: type correctness, and, on a server that echoes    *)
(* each change to its author, with removals that do not overlap other      *)
(* changes, that nothing received is uploaded (UploadsAreOurs) and that    *)
(* vault and server are the same when all is quiet (QuietMeansSame), for   *)
(* every set of notes and contents and every bound.                        *)
(*                                                                         *)
(* A note is either being edited, on any number of devices at once, or     *)
(* being removed, once.  While it is edited the last content on its way    *)
(* from the server is the server's own, what echo_hashes holds the server  *)
(* has or will get, and an event is pending for every content of the vault *)
(* that it has not and will not get (Queues).                              *)
(***************************************************************************)
EXTENDS NoteLive, Queues, TLAPS

---------------------------------------------------------------------------
(* Type correctness.                                                       *)

\* push_modify for a watch event: when it sends, what it sends and remembers.
Sends(p) == Readable(p) /\ echo[p] # disk[p]
SentMsgs(p) == PushModifyMsgs(p, FALSE)
SentEcho(p) == PushModifyEcho(p, FALSE)

\* push_modify sends the content of the vault, or nothing.
LEMMA SentSays ==
    ASSUME EngineTypeOK, NEW p \in Paths
    PROVE  /\ Sends(p) => /\ NoteModifyMsg(p, disk[p]) \in ClientMsgs
                          /\ SentMsgs(p) = <<NoteModifyMsg(p, disk[p])>>
                          /\ SentEcho(p) = [echo EXCEPT ![p] = disk[p]]
                          /\ disk[p] \in Hashes
           /\ ~Sends(p) => SentMsgs(p) = <<>> /\ SentEcho(p) = echo
           /\ SentMsgs(p) \in Seq(ClientMsgs)
           /\ SentEcho(p) \in [Paths -> Hashes \cup {DeletedMarker, NoEntry}]
<1> DEFINE m == NoteModifyMsg(p, disk[p])
<1>1. Sends(p) => SentMsgs(p) = <<m>> /\ SentEcho(p) = [echo EXCEPT ![p] = disk[p]]
  BY DEF Sends, SentMsgs, SentEcho, PushModifyMsgs, PushModifyEcho, Pushes, Echoed
<1>2. ~Sends(p) => SentMsgs(p) = <<>> /\ SentEcho(p) = echo
  BY DEF Sends, SentMsgs, SentEcho, PushModifyMsgs, PushModifyEcho, Pushes, Echoed
<1>3. Sends(p) => m \in ClientMsgs /\ disk[p] \in Hashes
  BY DEF Sends, Readable, NoteModifyMsg, ClientMsgs, Contents
<1>4. echo \in [Paths -> Hashes \cup {DeletedMarker, NoEntry}]
  BY DEF EngineTypeOK
<1> HIDE DEF m
<1>5. SentMsgs(p) \in Seq(ClientMsgs)
  <2>1. <<>> \in Seq(ClientMsgs) /\ (m \in ClientMsgs => <<m>> \in Seq(ClientMsgs))
    OBVIOUS
  <2>2. CASE Sends(p)
    BY <1>1, <1>3, <2>1, <2>2
  <2>3. CASE ~Sends(p)
    BY <1>2, <2>1, <2>3
  <2> QED
    BY <2>2, <2>3
<1>6. SentEcho(p) \in [Paths -> Hashes \cup {DeletedMarker, NoEntry}]
  BY <1>1, <1>2, <1>3, <1>4
<1> QED
  BY <1>1, <1>2, <1>3, <1>5, <1>6 DEF m

\* One write is reported by events of that note, at least one.
LEMMA NoticedSays ==
    ASSUME NEW p \in Paths, Noticed(p)
    PROVE  \E r \in Seq(Events) : /\ watch' = watch \o r
                                  /\ ~Free(r, {Modified(p)})
                                  /\ \A B : Modified(p) \notin B => Free(r, B)
<1>1. PICK n \in 1..EventsPerWrite : watch' = watch \o [i \in 1..n |-> Modified(p)]
  BY DEF Noticed
<1> DEFINE r == [i \in 1..n |-> Modified(p)]
<1>2. n \in Nat /\ 1 \in 1..n
  BY NoteLiveAssumption DEF NoteLiveAssumption
<1>3. Modified(p) \in Events
  BY DEF Modified, Events
<1>4. r \in Seq(Events) /\ DOMAIN r = 1..n /\ \A i \in 1..n : r[i] = Modified(p)
  BY <1>2, <1>3
<1> HIDE DEF r
<1>5. ~Free(r, {Modified(p)}) /\ \A B : Modified(p) \notin B => Free(r, B)
  BY <1>2, <1>4 DEF Free
<1> QED
  BY <1>1, <1>4, <1>5 DEF r

\* What never happens: a rename to itself, a content that is none.
EventNever == { e \in Events : e.kind = "Moved" /\ e.from = e.path }
PushNever == { m \in ClientMsgs : m.type = "NoteModify" /\ m.hash \notin Hashes }
SyncNever ==
    { m \in ServerMsgs : \/ m.type = "NoteSyncModify" /\ m.hash \notin Hashes
                         \/ m.type = "NoteSyncRename" /\ m.old = m.path }

Sane == Free(watch, EventNever) /\ Free(toServer, PushNever) /\ Free(toClient, SyncNever)
Typed == TypeOK /\ Sane

\* The queues stay as they are when one element of the right type is appended,
\* or the first is taken off.
LEMMA QueuesTyped ==
    ASSUME Typed
    PROVE  /\ watch \in Seq(Events) /\ toServer \in Seq(ClientMsgs) /\ toClient \in Seq(ServerMsgs)
           /\ \A e \in Events \ EventNever :
                 Append(watch, e) \in Seq(Events) /\ Free(Append(watch, e), EventNever)
           /\ \A m \in ClientMsgs \ PushNever :
                 Append(toServer, m) \in Seq(ClientMsgs) /\ Free(Append(toServer, m), PushNever)
           /\ \A m \in ServerMsgs \ SyncNever :
                 Append(toClient, m) \in Seq(ServerMsgs) /\ Free(Append(toClient, m), SyncNever)
           /\ watch # <<>> => /\ Tail(watch) \in Seq(Events) /\ Free(Tail(watch), EventNever)
                              /\ Head(watch) \in Events \ EventNever
           /\ toServer # <<>> => /\ Tail(toServer) \in Seq(ClientMsgs) /\ Free(Tail(toServer), PushNever)
                                 /\ Head(toServer) \in ClientMsgs \ PushNever
           /\ toClient # <<>> => /\ Tail(toClient) \in Seq(ServerMsgs) /\ Free(Tail(toClient), SyncNever)
                                 /\ Head(toClient) \in ServerMsgs \ SyncNever
<1>1. /\ watch \in Seq(Events) /\ toServer \in Seq(ClientMsgs) /\ toClient \in Seq(ServerMsgs)
      /\ Free(watch, EventNever) /\ Free(toServer, PushNever) /\ Free(toClient, SyncNever)
  BY DEF Typed, TypeOK, Sane
<1>2. ASSUME NEW S, NEW q \in Seq(S), NEW B, Free(q, B), NEW m \in S \ B
      PROVE  Append(q, m) \in Seq(S) /\ Free(Append(q, m), B)
  <2>1. Append(q, m) = q \o <<m>> /\ <<m>> \in Seq(S) /\ Append(q, m) \in Seq(S)
    OBVIOUS
  <2>2. Free(<<m>>, B)
    BY QueueLast
  <2> QED
    BY <1>2, <2>1, <2>2, QueueJoin
<1>3. ASSUME NEW S, NEW q \in Seq(S), NEW B, Free(q, B), q # <<>>
      PROVE  Tail(q) \in Seq(S) /\ Free(Tail(q), B) /\ Head(q) \in S \ B
  BY <1>3, QueueTail
<1>4. \A e \in Events \ EventNever :
         Append(watch, e) \in Seq(Events) /\ Free(Append(watch, e), EventNever)
  BY <1>1, <1>2
<1>5. \A m \in ClientMsgs \ PushNever :
         Append(toServer, m) \in Seq(ClientMsgs) /\ Free(Append(toServer, m), PushNever)
  BY <1>1, <1>2
<1>6. \A m \in ServerMsgs \ SyncNever :
         Append(toClient, m) \in Seq(ServerMsgs) /\ Free(Append(toClient, m), SyncNever)
  BY <1>1, <1>2
<1> QED
  BY <1>1, <1>3, <1>4, <1>5, <1>6

\* An event is never a rename to itself.
LEMMA EventsTyped ==
    ASSUME Typed, NEW p \in Paths
    PROVE  /\ Modified(p) \in Events \ EventNever /\ Deleted(p) \in Events \ EventNever
           /\ \A q \in Paths : p # q => Moved(p, q) \in Events \ EventNever
           /\ Noticed(p) => watch' \in Seq(Events) /\ Free(watch', EventNever)
           /\ NoticedRemoval(p) => watch' \in Seq(Events) /\ Free(watch', EventNever)
           /\ \A q \in Paths : p # q /\ NoticedRename(p, q) =>
                 watch' \in Seq(Events) /\ Free(watch', EventNever)
<1>1. /\ Modified(p) \in Events \ EventNever /\ Deleted(p) \in Events \ EventNever
      /\ \A q \in Paths : p # q => Moved(p, q) \in Events \ EventNever
      /\ \A q \in Paths : Modified(q) \in Events \ EventNever
  BY DEF Modified, Deleted, Moved, Events, EventNever
<1>2. watch \in Seq(Events) /\ Free(watch, EventNever)
  BY DEF Typed, TypeOK, Sane
<1>3. ASSUME Noticed(p) PROVE watch' \in Seq(Events) /\ Free(watch', EventNever)
  <2>1. PICK r \in Seq(Events) : /\ watch' = watch \o r
                                 /\ \A B : Modified(p) \notin B => Free(r, B)
    BY <1>3, NoticedSays
  <2> QED
    BY <1>1, <1>2, <2>1, QueueJoin
<1>4. NoticedRemoval(p) => watch' \in Seq(Events) /\ Free(watch', EventNever)
  BY <1>1, QueuesTyped DEF NoticedRemoval
<1>5. ASSUME NEW q \in Paths, p # q, NoticedRename(p, q)
      PROVE  watch' \in Seq(Events) /\ Free(watch', EventNever)
  <2> DEFINE a == Modified(q)
             b == Moved(p, q)
             r == <<a, b>>
  <2>1. a \in Events \ EventNever /\ b \in Events \ EventNever /\ watch' = watch \o r
    BY <1>1, <1>5 DEF NoticedRename
  <2> HIDE DEF a, b
  <2>2. r \in Seq(Events) /\ DOMAIN r = {1, 2} /\ r[1] = a /\ r[2] = b
    BY <2>1
  <2>3. Free(r, EventNever)
    BY <2>1, <2>2 DEF Free
  <2> QED
    BY <1>2, <2>1, <2>2, <2>3, QueueJoin
<1> QED
  BY <1>1, <1>3, <1>4, <1>5

\* The messages that a handler makes.
LEMMA MessagesTyped ==
    ASSUME NEW p \in Paths
    PROVE  /\ NoteDeleteMsg(p) \in ClientMsgs \ PushNever
           /\ SyncDeleteMsg(p) \in ServerMsgs \ SyncNever
           /\ \A h \in Hashes : NoteModifyMsg(p, h) \in ClientMsgs \ PushNever
           /\ \A h \in Hashes : SyncModifyMsg(p, h) \in ServerMsgs \ SyncNever
           /\ \A q \in Paths : p # q => [type |-> "NoteSyncRename", old |-> p, path |-> q]
                                           \in ServerMsgs \ SyncNever
BY DEF NoteDeleteMsg, SyncDeleteMsg, NoteModifyMsg, SyncModifyMsg, ClientMsgs, ServerMsgs,
       PushNever, SyncNever, Contents

\* The client, with a watch event.
LEMMA WatchTyped == Typed /\ HandleWatchEvent => Typed'
<1> SUFFICES ASSUME Typed, HandleWatchEvent
             PROVE  Typed'
  OBVIOUS
<1>1. /\ watch # <<>> /\ watch' = Tail(watch)
      /\ UNCHANGED <<disk, toClient, srv, userChanges, remoteChanges, wrote>>
  BY DEF HandleWatchEvent
<1>2. EngineTypeOK /\ TypeOK
  BY DEF Typed, TypeOK
<1>3. Head(watch).path \in Paths /\ Head(watch).from \in Paths
  BY <1>1, QueuesTyped DEF Events
<1>4. \A r \in Seq(ClientMsgs) : Free(r, PushNever) =>
         toServer \o r \in Seq(ClientMsgs) /\ Free(toServer \o r, PushNever)
  BY QueuesTyped, QueueJoin DEF Typed, Sane
<1>5. ASSUME NEW p \in Paths
      PROVE  /\ SentMsgs(p) \in Seq(ClientMsgs) /\ Free(SentMsgs(p), PushNever)
             /\ SentEcho(p) \in [Paths -> Hashes \cup {DeletedMarker, NoEntry}]
  <2>1. Free(<<>>, PushNever)
    BY DEF Free
  <2>2. Sends(p) => Free(<<NoteModifyMsg(p, disk[p])>>, PushNever)
    BY <1>2, SentSays, MessagesTyped, QueueLast
  <2> QED
    BY <1>2, <2>1, <2>2, SentSays
<1>6. ASSUME NEW p \in Paths
      PROVE  <<NoteDeleteMsg(p)>> \in Seq(ClientMsgs) /\ Free(<<NoteDeleteMsg(p)>>, PushNever)
  <2> DEFINE m == NoteDeleteMsg(p)
  <2>1. m \in ClientMsgs /\ m \notin PushNever
    BY MessagesTyped
  <2> HIDE DEF m
  <2>2. <<m>> \in Seq(ClientMsgs)
    BY <2>1
  <2>3. \A B : Free(<<m>>, B) <=> m \notin B
    BY QueueOne
  <2> QED
    BY <2>1, <2>2, <2>3 DEF m
<1>7. /\ toServer' \in Seq(ClientMsgs) /\ Free(toServer', PushNever)
      /\ echo' \in [Paths -> Hashes \cup {DeletedMarker, NoEntry}]
  <2>1. CASE WatchModified
    <3>1. toServer' = toServer \o SentMsgs(Head(watch).path) /\ echo' = SentEcho(Head(watch).path)
      BY <2>1 DEF WatchModified, SentMsgs, SentEcho
    <3> QED
      BY <1>3, <1>4, <1>5, <3>1
  <2>2. CASE WatchDeleted
    <3> DEFINE p == Head(watch).path
    <3>1. toServer' = Append(toServer, NoteDeleteMsg(p)) /\ echo' = [echo EXCEPT ![p] = DeletedMarker]
      BY <2>2 DEF WatchDeleted, PushDeleteEcho
    <3>2. toServer' \in Seq(ClientMsgs) /\ Free(toServer', PushNever)
      BY <1>3, <3>1, QueuesTyped, MessagesTyped
    <3> QED
      BY <1>2, <1>3, <3>1, <3>2 DEF EngineTypeOK
  <2>3. CASE WatchMoved
    <3> DEFINE p == Head(watch).path
               q == Head(watch).from
    <3>1. toServer' = toServer \o SentMsgs(p) \o <<NoteDeleteMsg(q)>>
          /\ echo' = [SentEcho(p) EXCEPT ![q] = DeletedMarker]
      BY <2>3 DEF WatchMoved, SentMsgs, SentEcho, PushDeleteEcho
    <3>2. toServer \o SentMsgs(p) \in Seq(ClientMsgs) /\ Free(toServer \o SentMsgs(p), PushNever)
      BY <1>3, <1>4, <1>5
    <3>3. toServer' \in Seq(ClientMsgs) /\ Free(toServer', PushNever)
      <4> DEFINE s == toServer \o SentMsgs(p)
                 r == <<NoteDeleteMsg(q)>>
      <4>1. /\ s \in Seq(ClientMsgs) /\ r \in Seq(ClientMsgs) /\ toServer' = s \o r
            /\ Free(s, PushNever) /\ Free(r, PushNever)
        BY <1>3, <1>6, <3>1, <3>2
      <4> HIDE DEF s, r
      <4> QED
        BY <4>1, QueueJoin
    <3>4. echo' \in [Paths -> Hashes \cup {DeletedMarker, NoEntry}]
      BY <1>3, <1>5, <3>1
    <3> QED
      BY <3>3, <3>4
  <2> QED
    BY <2>1, <2>2, <2>3 DEF HandleWatchEvent
<1>8. watch' \in Seq(Events) /\ Free(watch', EventNever)
  BY <1>1, QueuesTyped
<1> QED
  BY <1>1, <1>2, <1>7, <1>8 DEF Typed, TypeOK, EngineTypeOK, Sane, Contents

\* The client, with a message.
LEMMA MessageTyped == Typed /\ HandleServerMessage => Typed'
<1> SUFFICES ASSUME Typed, HandleServerMessage
             PROVE  Typed'
  OBVIOUS
<1> DEFINE m == Head(toClient)
<1>1. /\ toClient # <<>> /\ toClient' = Tail(toClient)
      /\ UNCHANGED <<toServer, srv, userChanges, remoteChanges, wrote>>
  BY DEF HandleServerMessage
<1>2. EngineTypeOK /\ TypeOK
  BY DEF Typed, TypeOK
<1>3. m \in ServerMsgs \ SyncNever /\ toClient' \in Seq(ServerMsgs) /\ Free(toClient', SyncNever)
  BY <1>1, QueuesTyped
<1>4. /\ m.path \in Paths
      /\ m.type = "NoteSyncModify" => m.hash \in Hashes
      /\ m.type = "NoteSyncRename" => m.old \in Paths /\ m.old # m.path
  BY <1>3 DEF ServerMsgs, SyncNever
<1>5. watch \in Seq(Events) /\ Free(watch, EventNever)
  BY DEF Typed, TypeOK, Sane
<1>6. /\ disk \in [Paths -> Hashes \cup {Absent}]
      /\ echo \in [Paths -> Hashes \cup {DeletedMarker, NoEntry}]
  BY <1>2 DEF EngineTypeOK
<1>7. /\ EngineTypeOK' /\ watch' \in Seq(Events) /\ Free(watch', EventNever)
  <2>1. CASE ReceiveModify
    <3>1. m.type = "NoteSyncModify" /\ HandleNoteModify(m.path, m.hash)
          /\ (UNCHANGED watch \/ Noticed(m.path))
      BY <2>1 DEF ReceiveModify
    <3>2. EngineTypeOK'
      BY <1>4, <1>6, <3>1 DEF HandleNoteModify, EngineTypeOK
    <3> QED
      BY <1>4, <1>5, <3>1, <3>2, EventsTyped
  <2>2. CASE ReceiveDelete
    <3>1. HandleNoteDelete(m.path)
          /\ (UNCHANGED watch \/ Noticed(m.path) \/ NoticedRemoval(m.path))
      BY <2>2 DEF ReceiveDelete, NoticedHandler
    <3>2. EngineTypeOK'
      BY <1>4, <1>6, <3>1 DEF HandleNoteDelete, EngineTypeOK
    <3> QED
      BY <1>4, <1>5, <3>1, <3>2, EventsTyped
  <2>3. CASE ReceiveRename
    <3>1. m.type = "NoteSyncRename" /\ HandleNoteRename(m.old, m.path)
          /\ (UNCHANGED watch \/ NoticedRename(m.old, m.path))
      BY <2>3 DEF ReceiveRename
    <3>2. EngineTypeOK'
      BY <1>4, <1>6, <3>1 DEF HandleNoteRename, EngineTypeOK, Readable
    <3> QED
      BY <1>4, <1>5, <3>1, <3>2, EventsTyped
  <2> QED
    BY <2>1, <2>2, <2>3 DEF HandleServerMessage
<1> QED
  BY <1>1, <1>2, <1>3, <1>7 DEF Typed, TypeOK, Sane, Contents

\* The server.
LEMMA ServerTyped == Typed /\ ServerStep => Typed'
<1> SUFFICES ASSUME Typed, ServerStep
             PROVE  Typed'
  OBVIOUS
<1> DEFINE m == Head(toServer)
<1>1. /\ toServer # <<>> /\ toServer' = Tail(toServer)
      /\ UNCHANGED <<disk, echo, watch, userChanges, remoteChanges, wrote>>
  BY DEF ServerStep, engineVars
<1>2. EngineTypeOK /\ TypeOK /\ toClient \in Seq(ServerMsgs) /\ Free(toClient, SyncNever)
      /\ srv \in [Paths -> Contents]
  BY DEF Typed, TypeOK, Sane
<1>3. m \in ClientMsgs \ PushNever /\ toServer' \in Seq(ClientMsgs) /\ Free(toServer', PushNever)
  BY <1>1, QueuesTyped
<1>4. m.path \in Paths /\ (m.type = "NoteModify" => m.hash \in Hashes)
  BY <1>3 DEF ClientMsgs, PushNever
<1>5. /\ toClient' \in Seq(ServerMsgs) /\ Free(toClient', SyncNever)
      /\ srv' \in [Paths -> Contents]
  <2>1. CASE ServerAcceptsModify
    <3>1. /\ m.type = "NoteModify" /\ srv' = [srv EXCEPT ![m.path] = m.hash]
          /\ toClient' = toClient \/ toClient' = Append(toClient, SyncModifyMsg(m.path, m.hash))
      BY <2>1 DEF ServerAcceptsModify, SendToAuthor
    <3> QED
      BY <1>2, <1>4, <3>1, QueuesTyped, MessagesTyped DEF Contents
  <2>2. CASE ServerAcceptsDelete
    <3>1. /\ srv' = [srv EXCEPT ![m.path] = Absent]
          /\ toClient' = toClient \/ toClient' = Append(toClient, SyncDeleteMsg(m.path))
      BY <2>2 DEF ServerAcceptsDelete, SendToAuthor
    <3> QED
      BY <1>2, <1>4, <3>1, QueuesTyped, MessagesTyped DEF Contents
  <2> QED
    BY <2>1, <2>2 DEF ServerStep
<1> QED
  BY <1>1, <1>2, <1>3, <1>5 DEF Typed, TypeOK, EngineTypeOK, Sane

\* The user.
LEMMA UserTyped == Typed /\ UserChanges => Typed'
<1> SUFFICES ASSUME Typed, UserChanges
             PROVE  Typed'
  OBVIOUS
<1>1. /\ UNCHANGED <<echo, toServer, toClient, srv, remoteChanges>>
      /\ userChanges' = userChanges + 1
  BY DEF UserChanges, UserEdits, UserDeletes, UserRenames, UserTurn
<1>2. /\ TypeOK /\ EngineTypeOK /\ userChanges \in Nat
      /\ disk \in [Paths -> Hashes \cup {Absent}] /\ wrote \in [Paths -> SUBSET Hashes]
  BY DEF Typed, TypeOK, EngineTypeOK
<1>3. /\ disk' \in [Paths -> Hashes \cup {Absent}] /\ wrote' \in [Paths -> SUBSET Hashes]
      /\ watch' \in Seq(Events) /\ Free(watch', EventNever)
  <2>1. ASSUME NEW p \in Paths, NEW h \in Hashes, UserEdits(p, h) PROVE <1>3!:
    BY <1>2, <2>1, EventsTyped DEF UserEdits
  <2>2. ASSUME NEW p \in Paths, UserDeletes(p) PROVE <1>3!:
    BY <1>2, <2>2, EventsTyped DEF UserDeletes
  <2>3. ASSUME NEW p \in Paths, NEW q \in Paths, UserRenames(p, q) PROVE <1>3!:
    <3>1. disk[p] \in Hashes
      BY <1>2, <2>3 DEF UserRenames
    <3> QED
      BY <1>2, <2>3, <3>1, EventsTyped DEF UserRenames
  <2> QED
    BY <2>1, <2>2, <2>3 DEF UserChanges
<1>4. userChanges' \in Nat
  BY <1>1, <1>2
<1> QED
  BY <1>1, <1>2, <1>3, <1>4 DEF Typed, TypeOK, EngineTypeOK, Sane

\* The other devices.
LEMMA RemoteTyped == Typed /\ RemoteChanges => Typed'
<1> SUFFICES ASSUME Typed, RemoteChanges
             PROVE  Typed'
  OBVIOUS
<1>1. /\ UNCHANGED <<disk, echo, watch, toServer, userChanges, wrote>>
      /\ remoteChanges' = remoteChanges + 1
  BY DEF RemoteChanges, RemoteEdits, RemoteDeletes, RemoteRenames, RemoteTurn, engineVars
<1>2. /\ TypeOK /\ EngineTypeOK /\ remoteChanges \in Nat
      /\ srv \in [Paths -> Contents]
  BY DEF Typed, TypeOK
<1>3. /\ srv' \in [Paths -> Contents]
      /\ toClient' \in Seq(ServerMsgs) /\ Free(toClient', SyncNever)
  <2>1. ASSUME NEW p \in Paths, NEW h \in Hashes \ NonText, RemoteEdits(p, h) PROVE <1>3!:
    BY <1>2, <2>1, QueuesTyped, MessagesTyped DEF RemoteEdits, Contents
  <2>2. ASSUME NEW p \in Paths, RemoteDeletes(p) PROVE <1>3!:
    BY <1>2, <2>2, QueuesTyped, MessagesTyped DEF RemoteDeletes, Contents
  <2>3. ASSUME NEW p \in Paths, NEW q \in Paths, RemoteRenames(p, q) PROVE <1>3!:
    <3>1. /\ p # q /\ srv' = [srv EXCEPT ![p] = Absent, ![q] = srv[p]]
          /\ toClient' = Append(toClient, [type |-> "NoteSyncRename", old |-> p, path |-> q])
      BY <2>3 DEF RemoteRenames
    <3>2. srv' \in [Paths -> Contents]
      BY <1>2, <3>1 DEF Contents
    <3> QED
      BY <3>1, <3>2, QueuesTyped, MessagesTyped
  <2> QED
    BY <2>1, <2>2, <2>3 DEF RemoteChanges
<1>4. remoteChanges' \in Nat
  BY <1>1, <1>2
<1> QED
  BY <1>1, <1>2, <1>3, <1>4 DEF Typed, TypeOK, EngineTypeOK, Sane

\* A step that changes nothing.
LEMMA StutterTyped == Typed /\ UNCHANGED vars => Typed'
  BY DEF Typed, TypeOK, EngineTypeOK, Sane, vars, engineVars, Contents

\* The types hold at the beginning.
LEMMA InitTyped == Init => Typed
<1> SUFFICES ASSUME Init
             PROVE  Typed
  OBVIOUS
<1>1. disk \in [Paths -> Hashes \cup {Absent}] /\ srv \in [Paths -> Contents]
  BY HashesAssumption DEF Init, Contents, HashesAssumption
<1>2. /\ watch \in Seq(Events) /\ toServer \in Seq(ClientMsgs) /\ toClient \in Seq(ServerMsgs)
      /\ \A B : Free(watch, B) /\ Free(toServer, B) /\ Free(toClient, B)
  BY QueueLast DEF Init, Free
<1>3. echo \in [Paths -> Hashes \cup {DeletedMarker, NoEntry}] /\ wrote \in [Paths -> SUBSET Hashes]
      /\ userChanges \in Nat /\ remoteChanges \in Nat
  BY DEF Init
<1> QED
  BY <1>1, <1>2, <1>3 DEF Typed, TypeOK, EngineTypeOK, Sane

\* Every reachable state of the continuous mode has the declared types, whatever
\* the server echoes and however removals overlap.
LEMMA TypedInvariant == Spec => []Typed
<1>1. Typed /\ [Next]_vars => Typed'
  BY WatchTyped, MessageTyped, ServerTyped, UserTyped, RemoteTyped, StutterTyped DEF Next
<1> QED
  BY <1>1, InitTyped, PTL DEF Spec

\* The queues, the echo cache and both copies keep their types (EngineTypeOK with
\* them), however edits, removals, events and messages cross.
THEOREM TypeCorrect == Spec => []TypeOK
<1>1. Typed => TypeOK
  BY DEF Typed
<1> QED
  BY <1>1, TypedInvariant, PTL

---------------------------------------------------------------------------
(* What the events and the messages say of a note.                         *)

\* Events and messages that take a note away, or have taken it.
Removal == { e \in Events : e.kind \in {"Deleted", "Moved"} }
Deletion == { m \in ClientMsgs : m.type = "NoteDelete" }
Taking == { m \in ServerMsgs : m.type \in {"NoteSyncDelete", "NoteSyncRename"} }
Renames == { m \in ServerMsgs : m.type = "NoteSyncRename" }

\* Those that take p away.
RemovalOf(p) ==
    { e \in Events : \/ e.kind = "Deleted" /\ e.path = p
                     \/ e.kind = "Moved" /\ e.from = p }
DeletionOf(p) == { m \in ClientMsgs : m.type = "NoteDelete" /\ m.path = p }
SyncDeletes(p) == { m \in ServerMsgs : m.type = "NoteSyncDelete" /\ m.path = p }
RenamesFrom(p) == { m \in ServerMsgs : m.type = "NoteSyncRename" /\ m.old = p }
TakingOf(p) == SyncDeletes(p) \cup RenamesFrom(p)

\* Those that give p a content.
EditOf(p) == { e \in Events : e.kind \in {"Modified", "Moved"} /\ e.path = p }
PushOf(p) == { m \in ClientMsgs : m.type = "NoteModify" /\ m.path = p }
SyncOf(p) == { m \in ServerMsgs : m.type = "NoteSyncModify" /\ m.path = p }
RenamesTo(p) == { m \in ServerMsgs : m.type = "NoteSyncRename" /\ m.path = p }
GivingOf(p) == SyncOf(p) \cup RenamesTo(p)

\* All that speak of p.
EventsOf(p) == EditOf(p) \cup RemovalOf(p)
UploadsOf(p) == PushOf(p) \cup DeletionOf(p)
MessagesOf(p) == GivingOf(p) \cup TakingOf(p)

\* Those that give it content h; those that give it none of W.
PushOfThis(p, h) == { m \in PushOf(p) : m.hash = h }
SyncOfThis(p, h) == { m \in SyncOf(p) : m.hash = h }
Foreign(p, W) == { m \in PushOf(p) : m.hash \notin W }

Removed(p) ==
    ~ (Free(watch, RemovalOf(p)) /\ Free(toServer, DeletionOf(p)) /\ Free(toClient, TakingOf(p)))
Edited(p) ==
    ~ (Free(watch, EditOf(p)) /\ Free(toServer, PushOf(p)) /\ Free(toClient, GivingOf(p)))
---------------------------------------------------------------------------
(* The inductive invariant.                                                *)

\* One removal at a time.
OneRemoval ==
    /\ Once(watch, Removal) /\ Once(toServer, Deletion) /\ Once(toClient, Taking)
    /\ Free(watch, Removal) \/ (Free(toServer, Deletion) /\ Free(toClient, Taking))
    /\ Free(toServer, Deletion) \/ Free(toClient, Taking)
    /\ ~Removals => Free(watch, Removal) /\ Free(toServer, Deletion) /\ Free(toClient, Taking)

\* A rename by another device comes alone.
RenamedPart ==
    \A m \in Renames : ~Free(toClient, {m}) =>
        /\ toClient = <<m>> /\ watch = <<>> /\ toServer = <<>>
        /\ srv[m.old] = Absent /\ disk[m.old] = srv[m.path] /\ disk[m.old] # Absent

\* A note that is removed is not edited.
RemovedPart(p) ==
    /\ ~(Removed(p) /\ Edited(p))
    /\ ~Free(watch, RemovalOf(p)) => disk[p] = Absent
    /\ ~Free(toServer, DeletionOf(p)) => disk[p] = Absent /\ echo[p] = DeletedMarker
    /\ ~Free(toClient, SyncDeletes(p)) =>
          srv[p] = Absent /\ (echo[p] = DeletedMarker => disk[p] = Absent)

\* The last content that the server has sent is its own.
SentPart(p) ==
    ~Free(toClient, SyncOf(p)) =>
        LastWord(toClient, SyncOfThis(p, srv[p]), SyncOf(p) \ SyncOfThis(p, srv[p]))

\* The server has content h, or will have it.
WillHave(p, h) ==
    srv[p] = h \/ LastWord(toServer, PushOfThis(p, h), PushOf(p) \ PushOfThis(p, h))

\* The server has, or will get, what echo_hashes remembers and what is in the
\* vault, unless an event or a message is on its way that will set it right.
SettledPart(p) ==
    ~Removed(p) /\ Free(toClient, GivingOf(p)) =>
        /\ echo[p] \in Hashes => WillHave(p, echo[p])
        /\ Free(watch, EditOf(p)) => WillHave(p, disk[p]) \/ disk[p] \in NonText

\* What echo_hashes remembers is in the vault, unless an event says otherwise.
EchoPart(p) ==
    ~Removed(p) /\ Free(watch, EditOf(p)) =>
        /\ echo[p] \in Hashes => disk[p] = echo[p] \/ disk[p] \in NonText
        /\ echo[p] = DeletedMarker => disk[p] = Absent \/ disk[p] \in NonText

\* What is uploaded is the user's.  A note whose edit is to be handled is there,
\* and the edit is the user's unless echo_hashes has it.
OursPart(p) ==
    /\ Free(toServer, Foreign(p, wrote[p]))
    /\ ~Free(watch, EditOf(p)) =>
          /\ disk[p] # Absent
          /\ disk[p] \in wrote[p] \/ disk[p] = echo[p] \/ disk[p] \in NonText

\* The server sends nothing twice in a row that is not the user's.
FreshPart(p) == Fresh(toClient, SyncOf(p), wrote[p], echo[p])

NotePart(p) ==
    RemovedPart(p) /\ SentPart(p) /\ SettledPart(p) /\ EchoPart(p) /\ OursPart(p) /\ FreshPart(p)

IInv == Typed /\ OneRemoval /\ RenamedPart /\ \A p \in Paths : NotePart(p)

\* What the theorems are about: a server that sends every change back to its
\* author, removals that do not overlap other changes and, where notes are
\* renamed, contents that can be read.
Considered == EchoesToAuthor /\ ~Overlap /\ (Removals => NonText = {})
---------------------------------------------------------------------------
(* Lemmas about the sets.                                                  *)

\* The parts of each set.
LEMMA Parts ==
    ASSUME NEW p \in Paths
    PROVE  /\ RemovalOf(p) \subseteq Removal /\ DeletionOf(p) \subseteq Deletion
           /\ TakingOf(p) \subseteq Taking /\ SyncDeletes(p) \subseteq TakingOf(p)
           /\ RenamesFrom(p) \subseteq TakingOf(p) /\ RenamesFrom(p) \subseteq Renames
           /\ RenamesTo(p) \subseteq Renames /\ RenamesTo(p) \subseteq GivingOf(p)
           /\ Renames \subseteq Taking /\ SyncOf(p) \subseteq GivingOf(p)
           /\ EditOf(p) \subseteq EventsOf(p) /\ RemovalOf(p) \subseteq EventsOf(p)
           /\ PushOf(p) \subseteq UploadsOf(p) /\ DeletionOf(p) \subseteq UploadsOf(p)
           /\ GivingOf(p) \subseteq MessagesOf(p) /\ TakingOf(p) \subseteq MessagesOf(p)
           /\ \A h : SyncOfThis(p, h) \subseteq SyncOf(p) /\ PushOfThis(p, h) \subseteq PushOf(p)
           /\ \A W : Foreign(p, W) \subseteq PushOf(p)
           /\ \A W, V : W \subseteq V => Foreign(p, V) \subseteq Foreign(p, W)
<1>1. /\ RemovalOf(p) \subseteq Removal /\ DeletionOf(p) \subseteq Deletion
      /\ TakingOf(p) \subseteq Taking /\ Renames \subseteq Taking
      /\ RenamesFrom(p) \subseteq Renames /\ RenamesTo(p) \subseteq Renames
  BY DEF RemovalOf, Removal, DeletionOf, Deletion, TakingOf, SyncDeletes, RenamesFrom, Taking,
         Renames, RenamesTo
<1>2. /\ SyncDeletes(p) \subseteq TakingOf(p) /\ RenamesFrom(p) \subseteq TakingOf(p)
      /\ RenamesTo(p) \subseteq GivingOf(p) /\ SyncOf(p) \subseteq GivingOf(p)
      /\ EditOf(p) \subseteq EventsOf(p) /\ RemovalOf(p) \subseteq EventsOf(p)
      /\ PushOf(p) \subseteq UploadsOf(p) /\ DeletionOf(p) \subseteq UploadsOf(p)
      /\ GivingOf(p) \subseteq MessagesOf(p) /\ TakingOf(p) \subseteq MessagesOf(p)
  BY DEF TakingOf, GivingOf, EventsOf, UploadsOf, MessagesOf
<1>3. /\ \A h : SyncOfThis(p, h) \subseteq SyncOf(p) /\ PushOfThis(p, h) \subseteq PushOf(p)
      /\ \A W : Foreign(p, W) \subseteq PushOf(p)
      /\ \A W, V : W \subseteq V => Foreign(p, V) \subseteq Foreign(p, W)
  BY DEF SyncOfThis, PushOfThis, Foreign
<1> QED
  BY <1>1, <1>2, <1>3

\* What the events of note p say, of it and of others.
LEMMA EventsSay ==
    ASSUME NEW p \in Paths
    PROVE  /\ Modified(p) \in EditOf(p) /\ Modified(p) \notin Removal
           /\ \A q \in Paths : Modified(p) \notin RemovalOf(q)
           /\ \A q \in Paths \ {p} : Modified(p) \notin EventsOf(q) /\ Deleted(p) \notin EventsOf(q)
           /\ Deleted(p) \in RemovalOf(p) /\ Deleted(p) \in Removal /\ Deleted(p) \notin EditOf(p)
           /\ \A q \in Paths \ {p} :
                 /\ Moved(p, q) \in RemovalOf(p) /\ Moved(p, q) \in EditOf(q) /\ Moved(p, q) \in Removal
                 /\ Moved(p, q) \notin EditOf(p) /\ Moved(p, q) \notin RemovalOf(q)
                 /\ \A r \in Paths \ {p, q} : Moved(p, q) \notin EventsOf(r)
BY DEF Modified, Deleted, Moved, Events, EditOf, RemovalOf, EventsOf, Removal

\* What the client's messages about note p say.
LEMMA UploadsSay ==
    ASSUME NEW p \in Paths
    PROVE  /\ \A h \in Hashes :
                 LET m == NoteModifyMsg(p, h)
                 IN /\ m \in PushOfThis(p, h) /\ m \in PushOf(p) /\ m \notin Deletion
                    /\ \A q \in Paths : m \notin DeletionOf(q)
                    /\ \A q \in Paths \ {p} : m \notin UploadsOf(q)
                    /\ \A W : h \in W => m \notin Foreign(p, W)
           /\ LET m == NoteDeleteMsg(p)
              IN /\ m \in DeletionOf(p) /\ m \in Deletion /\ \A q \in Paths : m \notin PushOf(q)
                 /\ \A q \in Paths \ {p} : m \notin UploadsOf(q)
BY DEF NoteModifyMsg, NoteDeleteMsg, ClientMsgs, Contents, PushOf, PushOfThis, DeletionOf, Deletion,
       UploadsOf, Foreign

\* What the server's messages about note p say.
LEMMA MessagesSay ==
    ASSUME NEW p \in Paths
    PROVE  /\ \A h \in Hashes :
                 LET m == SyncModifyMsg(p, h)
                 IN /\ m \in SyncOfThis(p, h) /\ m \in SyncOf(p) /\ m \in GivingOf(p) /\ m.hash = h
                    /\ m \notin Taking /\ m \notin Renames
                    /\ \A q \in Paths : m \notin TakingOf(q)
                    /\ \A q \in Paths \ {p} : m \notin MessagesOf(q)
           /\ LET m == SyncDeleteMsg(p)
              IN /\ m \in SyncDeletes(p) /\ m \in TakingOf(p) /\ m \in Taking /\ m \notin Renames
                 /\ \A q \in Paths : m \notin SyncOf(q) /\ m \notin GivingOf(q)
                 /\ \A q \in Paths \ {p} : m \notin MessagesOf(q)
BY DEF SyncModifyMsg, SyncDeleteMsg, ServerMsgs, Contents, SyncOf, SyncOfThis, GivingOf, Taking, Renames,
       TakingOf, SyncDeletes, RenamesFrom, RenamesTo, MessagesOf

---------------------------------------------------------------------------
(* What a step leaves alone.                                               *)

\* A step that does not touch note p: the queues say of it what they said.
Untouched(p) ==
    /\ disk'[p] = disk[p] /\ echo'[p] = echo[p] /\ srv'[p] = srv[p]
    /\ wrote[p] \subseteq wrote'[p]
    /\ Keeps(watch, watch', EventsOf(p)) /\ Keeps(toServer, toServer', UploadsOf(p))
    /\ Keeps(toClient, toClient', MessagesOf(p))
    /\ Fresh(toClient, SyncOf(p), wrote[p], echo[p])
          => Fresh(toClient', SyncOf(p), wrote'[p], echo[p])

\* It keeps what the invariant says of that note.
LEMMA UntouchedKept ==
    ASSUME NEW p \in Paths, NotePart(p), Untouched(p)
    PROVE  NotePart(p)'
<1>1. /\ Free(watch, RemovalOf(p)) <=> Free(watch', RemovalOf(p))
      /\ Free(watch, EditOf(p)) <=> Free(watch', EditOf(p))
  BY Parts DEF Untouched, Keeps
<1>2. /\ Free(toServer, DeletionOf(p)) <=> Free(toServer', DeletionOf(p))
      /\ Free(toServer, PushOf(p)) <=> Free(toServer', PushOf(p))
      /\ Free(toServer, Foreign(p, wrote[p])) => Free(toServer', Foreign(p, wrote'[p]))
  <2>1. Foreign(p, wrote'[p]) \subseteq Foreign(p, wrote[p]) /\ Foreign(p, wrote[p]) \subseteq UploadsOf(p)
    BY Parts DEF Untouched
  <2> QED
    BY <2>1, Parts, FreeLess DEF Untouched, Keeps
<1>3. /\ Free(toClient, TakingOf(p)) <=> Free(toClient', TakingOf(p))
      /\ Free(toClient, GivingOf(p)) <=> Free(toClient', GivingOf(p))
      /\ Free(toClient, SyncOf(p)) <=> Free(toClient', SyncOf(p))
      /\ Free(toClient, SyncDeletes(p)) <=> Free(toClient', SyncDeletes(p))
  <2>1. /\ TakingOf(p) \subseteq MessagesOf(p) /\ GivingOf(p) \subseteq MessagesOf(p)
        /\ SyncOf(p) \subseteq MessagesOf(p) /\ SyncDeletes(p) \subseteq MessagesOf(p)
    BY Parts
  <2> QED
    BY <2>1 DEF Untouched, Keeps
<1>4. /\ disk'[p] = disk[p] /\ echo'[p] = echo[p] /\ srv'[p] = srv[p]
      /\ wrote[p] \subseteq wrote'[p]
  BY DEF Untouched
<1>5. \A h : WillHave(p, h) => WillHave(p, h)'
  <2> SUFFICES ASSUME NEW h, WillHave(p, h) PROVE WillHave(p, h)'
    OBVIOUS
  <2> DEFINE G == PushOfThis(p, h)
             B == PushOf(p) \ PushOfThis(p, h)
  <2>1. G \subseteq UploadsOf(p) /\ B \subseteq UploadsOf(p)
    BY Parts
  <2>2. srv[p] = h \/ LastWord(toServer, G, B)
    BY DEF WillHave
  <2>3. LastWord(toServer, G, B) => LastWord(toServer', G, B)
    BY <2>1 DEF Untouched, Keeps
  <2> QED
    BY <1>4, <2>2, <2>3 DEF WillHave
<1>6. (Removed(p)' <=> Removed(p)) /\ (Edited(p)' <=> Edited(p))
  BY <1>1, <1>2, <1>3 DEF Removed, Edited
<1>7. RemovedPart(p)'
  BY <1>1, <1>2, <1>3, <1>4, <1>6 DEF NotePart, RemovedPart
<1>8. SentPart(p)'
  <2> DEFINE G == SyncOfThis(p, srv[p])
             B == SyncOf(p) \ SyncOfThis(p, srv[p])
  <2>1. G \subseteq MessagesOf(p) /\ B \subseteq MessagesOf(p)
    BY Parts
  <2>2. LastWord(toClient, G, B) => LastWord(toClient', G, B)
    BY <2>1 DEF Untouched, Keeps
  <2> QED
    BY <1>3, <1>4, <2>2 DEF NotePart, SentPart
<1>9. SettledPart(p)'
  BY <1>1, <1>3, <1>4, <1>5, <1>6 DEF NotePart, SettledPart
<1>10. EchoPart(p)'
  BY <1>1, <1>4, <1>6 DEF NotePart, EchoPart
<1>11. OursPart(p)'
  BY <1>1, <1>2, <1>4 DEF NotePart, OursPart
<1>12. FreshPart(p)'
  BY <1>4 DEF NotePart, FreshPart, Untouched
<1> QED
  BY <1>7, <1>8, <1>9, <1>10, <1>11, <1>12 DEF NotePart

\* Nothing that takes or gives is said of any note when no removal is under way.
LEMMA NothingRemoved ==
    ASSUME Free(watch, Removal), Free(toServer, Deletion), Free(toClient, Taking), NEW p \in Paths
    PROVE  /\ ~Removed(p) /\ Free(watch, RemovalOf(p)) /\ Free(toServer, DeletionOf(p))
           /\ Free(toClient, TakingOf(p)) /\ Free(toClient, SyncDeletes(p))
           /\ Free(toClient, Renames) /\ Free(toClient, RenamesTo(p))
           /\ Free(toClient, GivingOf(p)) <=> Free(toClient, SyncOf(p))
<1>1. Free(watch, RemovalOf(p)) /\ Free(toServer, DeletionOf(p)) /\ Free(toClient, TakingOf(p))
  BY Parts, FreeLess
<1>2. Free(toClient, SyncDeletes(p)) /\ Free(toClient, Renames)
  BY <1>1, Parts, FreeLess
<1>3. Free(toClient, RenamesTo(p))
  BY <1>2, Parts, FreeLess
<1>4. Free(toClient, GivingOf(p)) <=> Free(toClient, SyncOf(p))
  BY <1>3, FreeLess DEF GivingOf
<1> QED
  BY <1>1, <1>2, <1>3, <1>4 DEF Removed

\* When an edit may be made, no removal is under way.
LEMMA EditTurn ==
    ASSUME Considered, Typed, MayChange(FALSE)
    PROVE  Free(watch, Removal) /\ Free(toServer, Deletion) /\ Free(toClient, Taking)
<1>1. ~RemovalUnderWay
  BY DEF MayChange, Considered
<1>2. /\ DOMAIN watch = 1..Len(watch) /\ DOMAIN toServer = 1..Len(toServer)
      /\ DOMAIN toClient = 1..Len(toClient)
  BY QueuesTyped
<1> QED
  BY <1>1, <1>2 DEF RemovalUnderWay, Free, Removal, Deletion, Taking

\* When a removal may begin, all is quiet: vault and server are the same, and
\* what echo_hashes holds is in both.
LEMMA RemovalTurn ==
    ASSUME Considered, IInv, Removals, MayChange(TRUE), NEW p \in Paths
    PROVE  /\ watch = <<>> /\ toServer = <<>> /\ toClient = <<>>
           /\ disk[p] = srv[p] /\ ~Removed(p)
           /\ echo[p] \in Hashes => srv[p] = echo[p]
           /\ echo[p] = DeletedMarker => disk[p] = Absent
<1>1. watch = <<>> /\ toServer = <<>> /\ toClient = <<>> /\ NonText = {}
  BY DEF MayChange, Considered, Quiet
<1>2. \A B : Free(watch, B) /\ Free(toServer, B) /\ Free(toClient, B)
  BY <1>1, QueueOne
<1>3. \A h : WillHave(p, h) => srv[p] = h
  <2>1. \A G, A : ~LastWord(toServer, G, A)
    BY <1>2, LastIsThere
  <2> QED
    BY <2>1 DEF WillHave
<1>4. ~Removed(p)
  BY <1>2 DEF Removed
<1>5. SettledPart(p) /\ EchoPart(p)
  BY DEF IInv, NotePart
<1>6. (echo[p] \in Hashes => srv[p] = echo[p]) /\ disk[p] = srv[p]
  BY <1>1, <1>2, <1>3, <1>4, <1>5 DEF SettledPart
<1>7. echo[p] = DeletedMarker => disk[p] = Absent
  BY <1>1, <1>2, <1>4, <1>5 DEF EchoPart
<1> QED
  BY <1>1, <1>4, <1>6, <1>7

---------------------------------------------------------------------------
(* What the watcher's reports say.                                         *)

\* A write of p is an edit of p, and no removal.
LEMMA NoticedMeans ==
    ASSUME Typed, NEW p \in Paths, Noticed(p)
    PROVE  /\ ~Free(watch', EditOf(p))
           /\ Free(watch, Removal) <=> Free(watch', Removal)
           /\ Free(watch, RemovalOf(p)) <=> Free(watch', RemovalOf(p))
           /\ Once(watch, Removal) => Once(watch', Removal)
           /\ \A q \in Paths \ {p} : Keeps(watch, watch', EventsOf(q))
<1>1. watch \in Seq(Events)
  BY QueuesTyped
<1>2. PICK r \in Seq(Events) : /\ watch' = watch \o r
                               /\ ~Free(r, {Modified(p)})
                               /\ \A B : Modified(p) \notin B => Free(r, B)
  BY NoticedSays
<1>3. ~Free(r, EditOf(p)) /\ Free(r, Removal) /\ Free(r, RemovalOf(p))
  <2>1. {Modified(p)} \subseteq EditOf(p)
    BY EventsSay
  <2> QED
    BY <1>2, <2>1, EventsSay, FreeLess
<1>4. \A q \in Paths \ {p} : Free(r, EventsOf(q))
  BY <1>2, EventsSay
<1>5. \A B : Free(watch', B) <=> Free(watch, B) /\ Free(r, B)
  BY <1>1, <1>2, QueueJoin
<1>6. Once(watch, Removal) => Once(watch', Removal)
  BY <1>1, <1>2, <1>3, OnceJoin
<1>7. \A q \in Paths \ {p} : Keeps(watch, watch', EventsOf(q))
  BY <1>1, <1>2, <1>4, KeepsOther
<1> QED
  BY <1>3, <1>5, <1>6, <1>7

\* A deletion of p is a removal, the only one if there was none.
LEMMA NoticedRemovalMeans ==
    ASSUME Typed, NEW p \in Paths, NoticedRemoval(p)
    PROVE  /\ ~Free(watch', RemovalOf(p))
           /\ Free(watch, EditOf(p)) <=> Free(watch', EditOf(p))
           /\ Free(watch, Removal) => Once(watch', Removal)
           /\ \A q \in Paths \ {p} : Keeps(watch, watch', EventsOf(q))
<1> DEFINE e == Deleted(p)
<1>1. watch \in Seq(Events) /\ watch' = Append(watch, e)
  BY QueuesTyped DEF NoticedRemoval
<1>2. e \in Events /\ e \in RemovalOf(p) /\ e \notin EditOf(p)
      /\ \A q \in Paths \ {p} : e \notin EventsOf(q)
  BY EventsSay, EventsTyped
<1> HIDE DEF e
<1>3. /\ \A B : Free(watch', B) <=> Free(watch, B) /\ e \notin B
      /\ \A B : Free(watch, B) => Once(watch', B)
  BY <1>1, <1>2, QueueAppend
<1>4. \A q \in Paths \ {p} : Keeps(watch, watch', EventsOf(q))
  BY <1>1, <1>2, KeepsOther
<1> QED
  BY <1>2, <1>3, <1>4

\* A rename takes one note away and edits the other.
LEMMA NoticedRenameMeans ==
    ASSUME Typed, watch = <<>>, NEW old \in Paths, NEW new \in Paths, old # new,
           NoticedRename(old, new)
    PROVE  /\ ~Free(watch', RemovalOf(old)) /\ Free(watch', EditOf(old))
           /\ ~Free(watch', EditOf(new)) /\ Free(watch', RemovalOf(new))
           /\ Once(watch', Removal)
           /\ \A q \in Paths \ {old, new} : Keeps(watch, watch', EventsOf(q))
<1> DEFINE a == Modified(new)
           b == Moved(old, new)
           r == <<a, b>>
<1>1. /\ a \in EditOf(new) /\ a \notin Removal /\ a \notin EditOf(old) /\ a \notin RemovalOf(new)
      /\ b \in RemovalOf(old) /\ b \in EditOf(new) /\ b \notin EditOf(old) /\ b \notin RemovalOf(new)
      /\ \A q \in Paths \ {old, new} : a \notin EventsOf(q) /\ b \notin EventsOf(q)
  <2>1. a \notin EventsOf(old)
    BY EventsSay
  <2> QED
    BY <2>1, EventsSay DEF EventsOf
<1>2. watch' = <<>> \o r /\ a \in Events /\ b \in Events
  BY EventsTyped DEF NoticedRename
<1> HIDE DEF a, b
<1>3. watch' = r /\ r \in Seq(Events) /\ DOMAIN r = {1, 2} /\ r[1] = a /\ r[2] = b
  BY <1>2
<1> HIDE DEF r
<1>4. \A B : Free(watch', B) <=> a \notin B /\ b \notin B
  BY <1>3 DEF Free
<1>5. Once(watch', Removal)
  BY <1>1, <1>3 DEF Once
<1>6. \A q \in Paths \ {old, new} : Keeps(watch, watch', EventsOf(q))
  <2> SUFFICES ASSUME NEW q \in Paths \ {old, new} PROVE Keeps(watch, watch', EventsOf(q))
    OBVIOUS
  <2>1. watch \in Seq(Events) /\ watch' = watch \o r
    BY <1>3, QueuesTyped
  <2>2. Free(r, EventsOf(q))
    BY <1>1, <1>3, <1>4
  <2> QED
    BY <1>3, <2>1, <2>2, KeepsOther
<1> QED
  BY <1>1, <1>4, <1>5, <1>6
\* The server sends one message more, or none.
LEMMA MaySend ==
    ASSUME Typed, NEW m \in ServerMsgs, toClient' = Append(toClient, m) \/ toClient' = toClient
    PROVE  /\ \A B : m \notin B => (Free(toClient', B) <=> Free(toClient, B))
           /\ \A B : Once(toClient, B) /\ m \notin B => Once(toClient', B)
           /\ \A B : Free(toClient, B) => Once(toClient', B)
           /\ \A A, W, e : Fresh(toClient, A, W, e) /\ (m \notin A \/ m.hash \in W)
                              => Fresh(toClient', A, W, e)
<1>1. toClient \in Seq(ServerMsgs)
  BY QueuesTyped
<1>2. CASE toClient' = Append(toClient, m)
  <2>1. /\ \A B : Free(toClient', B) <=> Free(toClient, B) /\ m \notin B
        /\ \A B : Once(toClient, B) /\ m \notin B => Once(toClient', B)
        /\ \A B : Free(toClient, B) => Once(toClient', B)
    BY <1>1, <1>2, QueueAppend
  <2>2. \A A, W, e : Fresh(toClient, A, W, e) /\ (m \notin A \/ m.hash \in W)
                        => Fresh(toClient', A, W, e)
    BY <1>1, <1>2, FreshMore
  <2> QED
    BY <2>1, <2>2
<1>3. CASE toClient' = toClient
  BY <1>3 DEF Free, Once
<1> QED
  BY <1>2, <1>3
---------------------------------------------------------------------------
(* The user.                                                               *)

\* An edit by the user: the content is the user's, an event is pending.
LEMMA UserEditsKept ==
    ASSUME Considered, IInv, NEW p \in Paths, NEW h \in Hashes, UserEdits(p, h)
    PROVE  OneRemoval' /\ RenamedPart' /\ \A q \in Paths : NotePart(q)'
<1>1. /\ disk' = [disk EXCEPT ![p] = h] /\ wrote' = [wrote EXCEPT ![p] = @ \cup {h}]
      /\ UNCHANGED <<echo, toServer, toClient, srv>> /\ Noticed(p) /\ MayChange(FALSE)
  BY DEF UserEdits, UserTurn
<1>2. /\ Typed /\ disk \in [Paths -> Hashes \cup {Absent}] /\ wrote \in [Paths -> SUBSET Hashes]
      /\ toServer \in Seq(ClientMsgs) /\ toClient \in Seq(ServerMsgs)
  BY DEF IInv, Typed, TypeOK, EngineTypeOK
<1>3. Free(watch, Removal) /\ Free(toServer, Deletion) /\ Free(toClient, Taking)
  BY <1>1, <1>2, EditTurn
<1>4. /\ ~Free(watch', EditOf(p)) /\ Free(watch', Removal) /\ Once(watch', Removal)
      /\ \A q \in Paths \ {p} : Keeps(watch, watch', EventsOf(q))
  BY <1>1, <1>2, <1>3, NoticedMeans DEF IInv, OneRemoval
<1>5. OneRemoval'
  BY <1>1, <1>3, <1>4 DEF IInv, OneRemoval
<1>6. RenamedPart'
  <2>1. Free(toClient', Renames)
    BY <1>1, <1>2, <1>3, NothingRemoved
  <2>2. \A m \in Renames : Free(toClient', {m})
    BY <2>1 DEF Free
  <2> QED
    BY <2>2 DEF RenamedPart
<1>7. ASSUME NEW q \in Paths, q # p PROVE NotePart(q)'
  <2>1. disk'[q] = disk[q] /\ wrote'[q] = wrote[q] /\ echo' = echo /\ srv' = srv
    BY <1>1, <1>2, <1>7
  <2>2. Keeps(toServer, toServer', UploadsOf(q)) /\ Keeps(toClient, toClient', MessagesOf(q))
    BY <1>1, <1>2, KeepsOther
  <2>3. Untouched(q)
    BY <1>1, <1>4, <1>7, <2>1, <2>2 DEF Untouched
  <2> QED
    BY <2>3, UntouchedKept DEF IInv
<1>8. NotePart(p)'
  <2>1. /\ disk'[p] = h /\ h # Absent /\ wrote[p] \subseteq wrote'[p] /\ h \in wrote'[p]
        /\ echo'[p] = echo[p] /\ srv'[p] = srv[p] /\ NotePart(p)
    BY <1>1, <1>2, HashesAssumption DEF IInv, HashesAssumption
  <2>2. /\ ~Removed(p) /\ Free(watch', RemovalOf(p)) /\ Free(toServer', DeletionOf(p))
        /\ Free(toClient', TakingOf(p)) /\ Free(toClient', SyncDeletes(p))
    <3>1. Free(watch', RemovalOf(p))
      BY <1>4, Parts, FreeLess
    <3> QED
      BY <1>1, <1>3, <3>1, NothingRemoved
  <2>3. ~Removed(p)'
    BY <2>2 DEF Removed
  <2>4. RemovedPart(p)'
    BY <2>2, <2>3 DEF RemovedPart
  <2>5. SentPart(p)'
    BY <1>1, <2>1 DEF NotePart, SentPart
  <2>6. SettledPart(p)'
    BY <1>1, <1>4, <2>1, <2>2 DEF NotePart, SettledPart, WillHave
  <2>7. EchoPart(p)'
    BY <1>4 DEF EchoPart
  <2>8. OursPart(p)'
    <3>1. Free(toServer', Foreign(p, wrote'[p]))
      BY <1>1, <2>1, Parts, FreeLess DEF NotePart, OursPart
    <3> QED
      BY <2>1, <3>1 DEF OursPart
  <2>9. FreshPart(p)'
    BY <1>1, <2>1, FreshOther DEF NotePart, FreshPart
  <2> QED
    BY <2>4, <2>5, <2>6, <2>7, <2>8, <2>9 DEF NotePart
<1> QED
  BY <1>5, <1>6, <1>7, <1>8

\* A deletion by the user.
LEMMA UserDeletesKept ==
    ASSUME Considered, IInv, NEW p \in Paths, UserDeletes(p)
    PROVE  OneRemoval' /\ RenamedPart' /\ \A q \in Paths : NotePart(q)'
<1>1. /\ disk' = [disk EXCEPT ![p] = Absent] /\ Removals /\ NoticedRemoval(p) /\ MayChange(TRUE)
      /\ UNCHANGED <<echo, toServer, toClient, srv, wrote>>
  BY DEF UserDeletes, UserTurn
<1>2. /\ Typed /\ disk \in [Paths -> Hashes \cup {Absent}]
      /\ toServer \in Seq(ClientMsgs) /\ toClient \in Seq(ServerMsgs)
  BY DEF IInv, Typed, TypeOK, EngineTypeOK
<1>3. watch = <<>> /\ toServer = <<>> /\ toClient = <<>>
  BY <1>1, RemovalTurn
<1>4. \A B : /\ Free(watch, B) /\ Free(toServer', B) /\ Free(toClient', B)
             /\ Once(toServer', B) /\ Once(toClient', B)
  BY <1>1, <1>3, QueueOne
<1>5. /\ ~Free(watch', RemovalOf(p)) /\ Free(watch', EditOf(p)) /\ Once(watch', Removal)
      /\ \A q \in Paths \ {p} : Keeps(watch, watch', EventsOf(q))
  BY <1>1, <1>2, <1>4, NoticedRemovalMeans
<1>6. OneRemoval'
  BY <1>1, <1>4, <1>5 DEF OneRemoval
<1>7. RenamedPart'
  BY <1>4 DEF RenamedPart
<1>8. ASSUME NEW q \in Paths, q # p PROVE NotePart(q)'
  <2>1. disk'[q] = disk[q] /\ wrote' = wrote /\ echo' = echo /\ srv' = srv
    BY <1>1, <1>2, <1>8
  <2>2. Keeps(toServer, toServer', UploadsOf(q)) /\ Keeps(toClient, toClient', MessagesOf(q))
    BY <1>1, <1>2, KeepsOther
  <2>3. Untouched(q)
    BY <1>1, <1>5, <1>8, <2>1, <2>2 DEF Untouched
  <2> QED
    BY <2>3, UntouchedKept DEF IInv
<1>9. NotePart(p)'
  <2>1. disk'[p] = Absent
    BY <1>1, <1>2
  <2>2. Removed(p)' /\ ~Edited(p)'
    BY <1>4, <1>5 DEF Removed, Edited
  <2>3. RemovedPart(p)'
    BY <1>4, <2>1, <2>2 DEF RemovedPart
  <2>4. SentPart(p)'
    BY <1>4 DEF SentPart
  <2>5. SettledPart(p)' /\ EchoPart(p)'
    BY <2>2 DEF SettledPart, EchoPart
  <2>6. OursPart(p)'
    BY <1>4, <1>5 DEF OursPart
  <2>7. FreshPart(p)'
    BY <1>1, <1>3 DEF FreshPart, IInv, NotePart
  <2> QED
    BY <2>3, <2>4, <2>5, <2>6, <2>7 DEF NotePart
<1> QED
  BY <1>6, <1>7, <1>8, <1>9

\* A rename by the user: the old path is removed, the new one edited.
LEMMA UserRenamesKept ==
    ASSUME Considered, IInv, NEW old \in Paths, NEW new \in Paths, UserRenames(old, new)
    PROVE  OneRemoval' /\ RenamedPart' /\ \A q \in Paths : NotePart(q)'
<1>1. /\ disk' = [disk EXCEPT ![old] = Absent, ![new] = disk[old]]
      /\ wrote' = [wrote EXCEPT ![new] = @ \cup {disk[old]}]
      /\ Removals /\ NoticedRename(old, new) /\ MayChange(TRUE) /\ old # new /\ disk[old] # Absent
      /\ UNCHANGED <<echo, toServer, toClient, srv>>
  BY DEF UserRenames, UserTurn
<1>2. /\ Typed /\ disk \in [Paths -> Hashes \cup {Absent}] /\ wrote \in [Paths -> SUBSET Hashes]
      /\ toServer \in Seq(ClientMsgs) /\ toClient \in Seq(ServerMsgs)
  BY DEF IInv, Typed, TypeOK, EngineTypeOK
<1>3. /\ watch = <<>> /\ toServer = <<>> /\ toClient = <<>>
      /\ echo[new] \in Hashes => srv[new] = echo[new]
  BY <1>1, RemovalTurn
<1>4. \A B : /\ Free(watch, B) /\ Free(toServer', B) /\ Free(toClient', B)
             /\ Once(toServer', B) /\ Once(toClient', B)
  BY <1>1, <1>3, QueueOne
<1>5. /\ ~Free(watch', RemovalOf(old)) /\ Free(watch', EditOf(old))
      /\ ~Free(watch', EditOf(new)) /\ Free(watch', RemovalOf(new)) /\ Once(watch', Removal)
      /\ \A q \in Paths \ {old, new} : Keeps(watch, watch', EventsOf(q))
  BY <1>1, <1>2, <1>3, NoticedRenameMeans
<1>6. OneRemoval'
  BY <1>1, <1>4, <1>5 DEF OneRemoval
<1>7. RenamedPart'
  BY <1>4 DEF RenamedPart
<1>8. ASSUME NEW q \in Paths \ {old, new} PROVE NotePart(q)'
  <2>1. disk'[q] = disk[q] /\ wrote'[q] = wrote[q] /\ echo' = echo /\ srv' = srv
    BY <1>1, <1>2, <1>8
  <2>2. Keeps(toServer, toServer', UploadsOf(q)) /\ Keeps(toClient, toClient', MessagesOf(q))
    BY <1>1, <1>2, KeepsOther
  <2>3. Untouched(q)
    BY <1>1, <1>5, <1>8, <2>1, <2>2 DEF Untouched
  <2> QED
    BY <2>3, UntouchedKept DEF IInv
<1>9. NotePart(old)'
  <2>1. disk'[old] = Absent /\ wrote'[old] = wrote[old]
    BY <1>1, <1>2
  <2>2. Removed(old)' /\ ~Edited(old)'
    BY <1>4, <1>5 DEF Removed, Edited
  <2>3. RemovedPart(old)'
    BY <1>4, <2>1, <2>2 DEF RemovedPart
  <2>4. SentPart(old)'
    BY <1>4 DEF SentPart
  <2>5. SettledPart(old)' /\ EchoPart(old)'
    BY <2>2 DEF SettledPart, EchoPart
  <2>6. OursPart(old)'
    BY <1>4, <1>5 DEF OursPart
  <2>7. FreshPart(old)'
    BY <1>1, <1>3, <2>1 DEF FreshPart, IInv, NotePart
  <2> QED
    BY <2>3, <2>4, <2>5, <2>6, <2>7 DEF NotePart
<1>10. NotePart(new)'
  <2>1. disk'[new] = disk[old] /\ disk[old] \in wrote'[new] /\ wrote[new] \subseteq wrote'[new]
    BY <1>1, <1>2
  <2>2. ~Removed(new)'
    BY <1>4, <1>5 DEF Removed
  <2>3. RemovedPart(new)'
    BY <1>4, <1>5, <2>2 DEF RemovedPart
  <2>4. SentPart(new)'
    BY <1>4 DEF SentPart
  <2>5. SettledPart(new)'
    BY <1>1, <1>3, <1>5 DEF SettledPart, WillHave
  <2>6. EchoPart(new)'
    BY <1>5 DEF EchoPart
  <2>7. OursPart(new)'
    BY <1>1, <1>4, <2>1 DEF OursPart
  <2>8. FreshPart(new)'
    BY <1>1, <2>1, FreshOther DEF FreshPart, IInv, NotePart
  <2> QED
    BY <2>3, <2>4, <2>5, <2>6, <2>7, <2>8 DEF NotePart
<1> QED
  BY <1>6, <1>7, <1>8, <1>9, <1>10
---------------------------------------------------------------------------
(* The other devices.                                                      *)

\* An edit by another device: the server's message has the last word, and it
\* is none that echo_hashes holds, unless the user wrote it.
LEMMA RemoteEditsKept ==
    ASSUME Considered, IInv, NEW p \in Paths, NEW h \in Hashes, RemoteEdits(p, h)
    PROVE  OneRemoval' /\ RenamedPart' /\ \A q \in Paths : NotePart(q)'
<1> DEFINE m == SyncModifyMsg(p, h)
<1>1. /\ srv' = [srv EXCEPT ![p] = h] /\ toClient' = Append(toClient, m) /\ MayChange(FALSE)
      /\ srv[p] # h /\ UNCHANGED <<disk, echo, watch, toServer, wrote>>
  BY DEF RemoteEdits, RemoteTurn, engineVars
<1>2. /\ Typed /\ srv \in [Paths -> Contents] /\ echo \in [Paths -> Hashes \cup {DeletedMarker, NoEntry}]
      /\ watch \in Seq(Events) /\ toServer \in Seq(ClientMsgs) /\ toClient \in Seq(ServerMsgs)
  BY DEF IInv, Typed, TypeOK, EngineTypeOK
<1>3. Free(watch, Removal) /\ Free(toServer, Deletion) /\ Free(toClient, Taking)
  BY <1>1, <1>2, EditTurn
<1>4. /\ m \in ServerMsgs /\ m \in SyncOfThis(p, h) /\ m \in SyncOf(p) /\ m \in GivingOf(p)
      /\ m.hash = h /\ m \notin Taking /\ m \notin Renames
      /\ \A q \in Paths : m \notin TakingOf(q)
      /\ \A q \in Paths \ {p} : m \notin MessagesOf(q)
  BY MessagesSay, MessagesTyped
<1> HIDE DEF m
<1>5. /\ \A B : Free(toClient', B) <=> Free(toClient, B) /\ m \notin B
      /\ \A G, B : m \in G => LastWord(toClient', G, B)
      /\ \A B : Once(toClient, B) /\ m \notin B => Once(toClient', B)
  BY <1>1, <1>2, <1>4, QueueAppend
<1>6. OneRemoval'
  BY <1>1, <1>3, <1>4, <1>5 DEF IInv, OneRemoval
<1>7. RenamedPart'
  <2>1. Free(toClient', Renames)
    BY <1>3, <1>4, <1>5, NothingRemoved
  <2>2. \A n \in Renames : Free(toClient', {n})
    BY <2>1 DEF Free
  <2> QED
    BY <2>2 DEF RenamedPart
<1>8. ASSUME NEW q \in Paths, q # p PROVE NotePart(q)'
  <2>1. srv'[q] = srv[q] /\ UNCHANGED <<disk, echo, wrote>>
    BY <1>1, <1>2, <1>8
  <2>2. /\ Keeps(watch, watch', EventsOf(q)) /\ Keeps(toServer, toServer', UploadsOf(q))
        /\ Keeps(toClient, toClient', MessagesOf(q))
    BY <1>1, <1>2, <1>4, <1>8, KeepsOther
  <2>3. m \notin SyncOf(q)
    BY <1>4, <1>8, Parts
  <2>4. Fresh(toClient, SyncOf(q), wrote[q], echo[q]) => Fresh(toClient', SyncOf(q), wrote[q], echo[q])
    BY <1>1, <1>2, <1>4, <2>3, FreshMore
  <2>5. Untouched(q)
    BY <2>1, <2>2, <2>4 DEF Untouched
  <2> QED
    BY <2>5, UntouchedKept DEF IInv
<1>9. NotePart(p)'
  <2>1. srv'[p] = h /\ UNCHANGED <<disk, echo, wrote>> /\ NotePart(p)
    BY <1>1, <1>2 DEF IInv
  <2>2. /\ ~Removed(p) /\ Free(watch', RemovalOf(p)) /\ Free(toServer', DeletionOf(p))
        /\ Free(toClient', TakingOf(p)) /\ Free(toClient', SyncDeletes(p))
        /\ Free(toClient, GivingOf(p)) <=> Free(toClient, SyncOf(p))
    <3>1. Free(toClient', TakingOf(p))
      BY <1>3, <1>4, <1>5, NothingRemoved
    <3>2. Free(toClient', SyncDeletes(p))
      BY <3>1, Parts, FreeLess
    <3> QED
      BY <1>1, <1>3, <3>1, <3>2, NothingRemoved
  <2>3. ~Removed(p)' /\ ~Free(toClient', GivingOf(p))
    BY <1>4, <1>5, <2>2 DEF Removed
  <2>4. RemovedPart(p)'
    BY <2>2, <2>3 DEF RemovedPart
  <2>5. SentPart(p)'
    BY <1>4, <1>5, <2>1 DEF SentPart
  <2>6. SettledPart(p)'
    BY <2>3 DEF SettledPart
  <2>7. EchoPart(p)' /\ OursPart(p)'
    BY <1>1, <2>1, <2>2 DEF NotePart, EchoPart, OursPart
  <2>8. FreshPart(p)'
    <3>1. Fresh(toClient, SyncOf(p), wrote[p], echo[p])
      BY <2>1 DEF NotePart, FreshPart
    <3>2. CASE h \in wrote[p]
      BY <1>1, <1>2, <1>4, <2>1, <3>1, <3>2, FreshMore DEF FreshPart
    <3>3. CASE h \notin wrote[p]
      <4>1. ~Free(toClient, SyncOf(p)) =>
               LastWord(toClient, SyncOfThis(p, srv[p]), SyncOf(p) \ SyncOfThis(p, srv[p]))
        BY <2>1 DEF NotePart, SentPart
      <4>2. ASSUME Free(toClient, SyncOf(p)) PROVE h # echo[p]
        <5> SUFFICES ASSUME h = echo[p] PROVE FALSE
          OBVIOUS
        <5>1. WillHave(p, h)
          BY <2>1, <2>2, <4>2 DEF NotePart, SettledPart
        <5>2. ~Free(toServer, PushOfThis(p, h))
          BY <1>1, <5>1, LastIsThere DEF WillHave
        <5>3. PushOfThis(p, h) \subseteq Foreign(p, wrote[p])
          BY <3>3 DEF PushOfThis, Foreign
        <5> QED
          BY <2>1, <5>2, <5>3, FreeLess DEF NotePart, OursPart
      <4>3. Fresh(Append(toClient, m), SyncOf(p), wrote[p], echo[p])
        <5>1. \A n \in SyncOfThis(p, srv[p]) : n \in SyncOf(p) /\ n.hash = srv[p]
          BY DEF SyncOfThis
        <5> QED
          BY <1>1, <1>2, <1>4, <3>1, <4>1, <4>2, <5>1, FreshLast
      <4> QED
        BY <1>1, <2>1, <4>3 DEF FreshPart
    <3> QED
      BY <3>2, <3>3
  <2> QED
    BY <2>4, <2>5, <2>6, <2>7, <2>8 DEF NotePart
<1> QED
  BY <1>6, <1>7, <1>8, <1>9

\* A deletion by another device.
LEMMA RemoteDeletesKept ==
    ASSUME Considered, IInv, NEW p \in Paths, RemoteDeletes(p)
    PROVE  OneRemoval' /\ RenamedPart' /\ \A q \in Paths : NotePart(q)'
<1> DEFINE m == SyncDeleteMsg(p)
<1>1. /\ srv' = [srv EXCEPT ![p] = Absent] /\ toClient' = Append(toClient, m) /\ MayChange(TRUE)
      /\ Removals /\ UNCHANGED <<disk, echo, watch, toServer, wrote>>
  BY DEF RemoteDeletes, RemoteTurn, engineVars
<1>2. /\ Typed /\ srv \in [Paths -> Contents] /\ watch \in Seq(Events)
      /\ toServer \in Seq(ClientMsgs) /\ toClient \in Seq(ServerMsgs)
  BY DEF IInv, Typed, TypeOK
<1>3. /\ watch = <<>> /\ toServer = <<>> /\ toClient = <<>>
      /\ echo[p] = DeletedMarker => disk[p] = Absent
  BY <1>1, RemovalTurn
<1>4. \A B : /\ Free(watch', B) /\ Free(toServer', B) /\ Free(toClient, B)
             /\ Once(watch', B) /\ Once(toServer', B)
  BY <1>1, <1>3, QueueOne
<1>5. /\ m \in ServerMsgs /\ m \in SyncDeletes(p) /\ m \in TakingOf(p) /\ m \notin Renames
      /\ \A q \in Paths : m \notin SyncOf(q) /\ m \notin GivingOf(q)
      /\ \A q \in Paths \ {p} : m \notin MessagesOf(q)
  BY MessagesSay, MessagesTyped
<1> HIDE DEF m
<1>6. /\ \A B : Free(toClient', B) <=> m \notin B
      /\ Once(toClient', Taking)
  BY <1>1, <1>2, <1>4, <1>5, QueueAppend
<1>7. OneRemoval'
  BY <1>1, <1>4, <1>6 DEF OneRemoval
<1>8. RenamedPart'
  BY <1>5, <1>6 DEF RenamedPart
<1>9. ASSUME NEW q \in Paths, q # p PROVE NotePart(q)'
  <2>1. srv'[q] = srv[q] /\ UNCHANGED <<disk, echo, wrote>>
    BY <1>1, <1>2, <1>9
  <2>2. /\ Keeps(watch, watch', EventsOf(q)) /\ Keeps(toServer, toServer', UploadsOf(q))
        /\ Keeps(toClient, toClient', MessagesOf(q))
    BY <1>1, <1>2, <1>5, <1>9, KeepsOther
  <2>3. Fresh(toClient, SyncOf(q), wrote[q], echo[q]) => Fresh(toClient', SyncOf(q), wrote[q], echo[q])
    BY <1>1, <1>2, <1>5, FreshMore
  <2>4. Untouched(q)
    BY <2>1, <2>2, <2>3 DEF Untouched
  <2> QED
    BY <2>4, UntouchedKept DEF IInv
<1>10. NotePart(p)'
  <2>1. srv'[p] = Absent /\ UNCHANGED <<disk, echo, wrote>> /\ NotePart(p)
    BY <1>1, <1>2 DEF IInv
  <2>2. Removed(p)' /\ ~Edited(p)'
    BY <1>4, <1>5, <1>6 DEF Removed, Edited
  <2>3. RemovedPart(p)'
    BY <1>3, <1>4, <2>1, <2>2 DEF RemovedPart
  <2>4. SentPart(p)'
    BY <1>5, <1>6 DEF SentPart
  <2>5. SettledPart(p)' /\ EchoPart(p)'
    BY <2>2 DEF SettledPart, EchoPart
  <2>6. OursPart(p)'
    BY <1>4 DEF OursPart
  <2>7. FreshPart(p)'
    BY <1>1, <1>2, <1>5, <2>1, FreshMore DEF FreshPart, NotePart
  <2> QED
    BY <2>3, <2>4, <2>5, <2>6, <2>7 DEF NotePart
<1> QED
  BY <1>7, <1>8, <1>9, <1>10

\* What a rename by another device says.
LEMMA RenameSays ==
    ASSUME NEW old \in Paths, NEW new \in Paths, old # new, NEW m,
           m = [type |-> "NoteSyncRename", old |-> old, path |-> new]
    PROVE  /\ m \in ServerMsgs /\ m \in Renames /\ m \in RenamesFrom(old) /\ m \in RenamesTo(new)
           /\ m.old = old /\ m.path = new
           /\ m \notin GivingOf(old) /\ m \notin SyncDeletes(old) /\ m \notin TakingOf(new)
           /\ m \notin SyncDeletes(new)
           /\ \A q \in Paths : m \notin SyncOf(q)
           /\ \A q \in Paths \ {old, new} : m \notin MessagesOf(q)
<1>1. m \in ServerMsgs /\ m.type = "NoteSyncRename" /\ m.old = old /\ m.path = new
  BY DEF ServerMsgs
<1> QED
  BY <1>1 DEF Renames, RenamesFrom, RenamesTo, GivingOf, SyncDeletes, TakingOf, SyncOf, MessagesOf

\* A rename by another device.
LEMMA RemoteRenamesKept ==
    ASSUME Considered, IInv, NEW old \in Paths, NEW new \in Paths, RemoteRenames(old, new)
    PROVE  OneRemoval' /\ RenamedPart' /\ \A q \in Paths : NotePart(q)'
<1> DEFINE m == [type |-> "NoteSyncRename", old |-> old, path |-> new]
<1>1. /\ srv' = [srv EXCEPT ![old] = Absent, ![new] = srv[old]] /\ toClient' = Append(toClient, m)
      /\ MayChange(TRUE) /\ Removals /\ old # new /\ srv[old] # Absent
      /\ UNCHANGED <<disk, echo, watch, toServer, wrote>>
  BY DEF RemoteRenames, RemoteTurn, engineVars
<1>2. /\ Typed /\ srv \in [Paths -> Contents] /\ watch \in Seq(Events)
      /\ toServer \in Seq(ClientMsgs) /\ toClient \in Seq(ServerMsgs)
  BY DEF IInv, Typed, TypeOK
<1>3. /\ watch = <<>> /\ toServer = <<>> /\ toClient = <<>> /\ disk[old] = srv[old]
  BY <1>1, RemovalTurn
<1>4. \A B : /\ Free(watch, B) /\ Free(toServer, B) /\ Free(toClient, B)
             /\ Once(watch, B) /\ Once(toServer, B)
  BY <1>3, QueueOne
<1>5. /\ m \in ServerMsgs /\ m \in Renames /\ m \in RenamesFrom(old) /\ m \in RenamesTo(new)
      /\ m.old = old /\ m.path = new
      /\ m \notin GivingOf(old) /\ m \notin SyncDeletes(old) /\ m \notin TakingOf(new)
      /\ m \notin SyncDeletes(new)
      /\ \A q \in Paths : m \notin SyncOf(q)
      /\ \A q \in Paths \ {old, new} : m \notin MessagesOf(q)
  BY <1>1, RenameSays
<1> HIDE DEF m
<1>6. /\ \A B : Free(toClient', B) <=> m \notin B
      /\ Once(toClient', Taking) /\ toClient' = <<m>>
  <2>1. toClient' = <<m>>
    BY <1>1, <1>3
  <2> QED
    BY <2>1, QueueOne
<1>7. OneRemoval'
  BY <1>1, <1>4, <1>6 DEF OneRemoval
<1>8. RenamedPart'
  <2>1. srv'[old] = Absent /\ srv'[new] = srv[old]
    BY <1>1, <1>2
  <2>2. ASSUME NEW n \in Renames, ~Free(toClient', {n}) PROVE n = m
    BY <1>6, <2>2
  <2> QED
    BY <1>1, <1>3, <1>5, <1>6, <2>1, <2>2 DEF RenamedPart
<1>9. ASSUME NEW q \in Paths \ {old, new} PROVE NotePart(q)'
  <2>1. srv'[q] = srv[q] /\ UNCHANGED <<disk, echo, wrote>>
    BY <1>1, <1>2, <1>9
  <2>2. /\ Keeps(watch, watch', EventsOf(q)) /\ Keeps(toServer, toServer', UploadsOf(q))
        /\ Keeps(toClient, toClient', MessagesOf(q))
    BY <1>1, <1>2, <1>5, <1>9, KeepsOther
  <2>3. Fresh(toClient, SyncOf(q), wrote[q], echo[q]) => Fresh(toClient', SyncOf(q), wrote[q], echo[q])
    BY <1>1, <1>2, <1>5, FreshMore
  <2>4. Untouched(q)
    BY <2>1, <2>2, <2>3 DEF Untouched
  <2> QED
    BY <2>4, UntouchedKept DEF IInv
<1>10. \A q \in Paths : SentPart(q)' /\ FreshPart(q)' /\ OursPart(q)'
  <2>1. \A q \in Paths : SentPart(q)'
    BY <1>5, <1>6 DEF SentPart
  <2>2. \A q \in Paths : FreshPart(q)'
    BY <1>1, <1>2, <1>5, FreshMore DEF FreshPart, NotePart, IInv
  <2>3. \A q \in Paths : OursPart(q)'
    BY <1>1, <1>4 DEF OursPart
  <2> QED
    BY <2>1, <2>2, <2>3
<1>11. NotePart(old)'
  <2>1. Removed(old)' /\ ~Edited(old)'
    <3>1. ~Free(toClient', TakingOf(old))
      BY <1>5, <1>6, Parts
    <3> QED
      BY <1>1, <1>4, <1>5, <1>6, <3>1 DEF Removed, Edited
  <2>2. RemovedPart(old)'
    BY <1>1, <1>4, <1>5, <1>6, <2>1 DEF RemovedPart
  <2>3. SettledPart(old)' /\ EchoPart(old)'
    BY <2>1 DEF SettledPart, EchoPart
  <2> QED
    BY <1>10, <2>2, <2>3 DEF NotePart
<1>12. NotePart(new)'
  <2>1. ~Removed(new)' /\ ~Free(toClient', GivingOf(new)) /\ ~Removed(new)
    <3>1. ~Free(toClient', GivingOf(new))
      BY <1>5, <1>6, Parts
    <3> QED
      BY <1>1, <1>4, <1>5, <1>6, <3>1 DEF Removed
  <2>2. RemovedPart(new)'
    BY <1>1, <1>4, <1>5, <1>6, <2>1 DEF RemovedPart
  <2>3. SettledPart(new)'
    BY <2>1 DEF SettledPart
  <2>4. EchoPart(new)'
    <3>1. EchoPart(new)
      BY DEF IInv, NotePart
    <3> QED
      BY <1>1, <2>1, <3>1 DEF EchoPart
  <2> QED
    BY <1>10, <2>2, <2>3, <2>4 DEF NotePart
<1> QED
  BY <1>7, <1>8, <1>9, <1>11, <1>12
---------------------------------------------------------------------------
(* The server.                                                             *)

\* No rename by another device is on its way while anything else is.
LEMMA NoRename ==
    ASSUME IInv, \/ watch # <<>> \/ toServer # <<>>
                 \/ toClient # <<>> /\ Head(toClient) \notin Renames
    PROVE  /\ Free(toClient, Renames) /\ \A m \in Renames : Free(toClient, {m})
           /\ \A p \in Paths : Free(toClient, GivingOf(p)) <=> Free(toClient, SyncOf(p))
           /\ \A p \in Paths : Free(toClient, TakingOf(p)) <=> Free(toClient, SyncDeletes(p))
<1>1. ASSUME NEW m \in Renames, ~Free(toClient, {m}) PROVE FALSE
  <2>1. toClient = <<m>> /\ watch = <<>> /\ toServer = <<>>
    BY <1>1 DEF IInv, RenamedPart
  <2> QED
    BY <2>1
<1>2. Free(toClient, Renames) /\ \A m \in Renames : Free(toClient, {m})
  BY <1>1 DEF Free
<1>3. \A p \in Paths : Free(toClient, RenamesTo(p)) /\ Free(toClient, RenamesFrom(p))
  BY <1>2, Parts, FreeLess
<1>4. /\ \A p \in Paths : Free(toClient, GivingOf(p)) <=> Free(toClient, SyncOf(p))
      /\ \A p \in Paths : Free(toClient, TakingOf(p)) <=> Free(toClient, SyncDeletes(p))
  BY <1>3, FreeLess DEF GivingOf, TakingOf
<1> QED
  BY <1>2, <1>4

\* The server takes an edit: it will answer with the content, or has it already.
LEMMA ServerModifyKept ==
    ASSUME Considered, IInv, ServerStep, ServerAcceptsModify
    PROVE  OneRemoval' /\ RenamedPart' /\ \A q \in Paths : NotePart(q)'
<1> SUFFICES ASSUME NEW e, e = Head(toServer), NEW p, p = e.path, NEW h, h = e.hash
             PROVE  OneRemoval' /\ RenamedPart' /\ \A q \in Paths : NotePart(q)'
  OBVIOUS
<1> DEFINE m == SyncModifyMsg(p, h)
<1>1. /\ e.type = "NoteModify" /\ srv' = [srv EXCEPT ![p] = h] /\ toServer # <<>> /\ toServer' = Tail(toServer)
      /\ toClient' = Append(toClient, m) \/ (srv[p] = h /\ toClient' = toClient)
      /\ UNCHANGED <<disk, echo, watch, wrote>>
  BY DEF ServerAcceptsModify, ServerStep, SendToAuthor, Considered, engineVars
<1>2. /\ Typed /\ srv \in [Paths -> Contents] /\ watch \in Seq(Events)
      /\ toServer \in Seq(ClientMsgs) /\ toClient \in Seq(ServerMsgs)
  BY DEF IInv, Typed, TypeOK
<1>3. /\ p \in Paths /\ h \in Hashes /\ e \in ClientMsgs /\ e \in PushOf(p) /\ e \in PushOfThis(p, h)
      /\ e \notin Deletion /\ \A q \in Paths : e \notin DeletionOf(q)
      /\ \A q \in Paths : q # p => e \notin UploadsOf(q)
      /\ \A x : x # h => e \notin PushOfThis(p, x)
  <2>1. e \in ClientMsgs \ PushNever
    BY <1>1, <1>2, QueuesTyped
  <2> QED
    BY <1>1, <2>1 DEF ClientMsgs, PushNever, PushOf, PushOfThis, Deletion, DeletionOf, UploadsOf
<1>4. /\ m \in ServerMsgs /\ m \in SyncOfThis(p, h) /\ m \in SyncOf(p) /\ m \in GivingOf(p)
      /\ m.hash = h /\ m \notin Taking /\ m \notin Renames
      /\ \A q \in Paths : m \notin TakingOf(q)
      /\ \A q \in Paths : q # p => m \notin MessagesOf(q)
  BY <1>3, MessagesSay, MessagesTyped
<1> HIDE DEF m
<1>5. /\ \A B : Free(toServer, B) => Free(toServer', B) /\ e \notin B
      /\ \A B : Free(toServer', B) /\ e \notin B => Free(toServer, B)
      /\ \A G, B : LastWord(toServer, G, B) => LastWord(toServer', G, B) \/ e \in G
      /\ \A B : Once(toServer, B) => Once(toServer', B)
  <2>1. /\ \A B : Free(toServer, B) => Free(toServer', B) /\ e \notin B
        /\ \A B : Free(toServer', B) /\ e \notin B => Free(toServer, B)
        /\ \A G, B : LastWord(toServer, G, B) => LastWord(toServer', G, B) \/ e \in G
    BY <1>1, <1>2, QueueTail
  <2>2. \A B : Once(toServer, B) => Once(toServer', B)
    BY <1>1, <1>2, OnceTail
  <2> QED
    BY <2>1, <2>2
<1>6. /\ \A B : m \notin B => (Free(toClient', B) <=> Free(toClient, B))
      /\ \A B : Once(toClient, B) /\ m \notin B => Once(toClient', B)
  BY <1>1, <1>2, <1>4, MaySend
<1>7. Free(toClient, Renames) /\ Free(toClient', Renames)
  BY <1>1, <1>4, <1>6, NoRename
<1>8. OneRemoval'
  BY <1>1, <1>3, <1>4, <1>5, <1>6 DEF IInv, OneRemoval
<1>9. RenamedPart'
  <2>1. \A n \in Renames : Free(toClient', {n})
    BY <1>7 DEF Free
  <2> QED
    BY <2>1 DEF RenamedPart
<1>10. ASSUME NEW q \in Paths, q # p PROVE NotePart(q)'
  <2>1. srv'[q] = srv[q] /\ UNCHANGED <<disk, echo, watch, wrote>>
    BY <1>1, <1>2, <1>3, <1>10
  <2>2. Keeps(watch, watch', EventsOf(q)) /\ Keeps(toServer, toServer', UploadsOf(q))
    BY <1>1, <1>2, <1>3, <1>10, KeepsOther
  <2>3. Keeps(toClient, toClient', MessagesOf(q))
    BY <1>1, <1>2, <1>4, <1>10, KeepsOther
  <2>4. Fresh(toClient, SyncOf(q), wrote[q], echo[q]) => Fresh(toClient', SyncOf(q), wrote[q], echo[q])
    <3>1. m \notin SyncOf(q)
      BY <1>4, <1>10, Parts
    <3> QED
      BY <1>1, <1>2, <1>4, <3>1, MaySend
  <2>5. Untouched(q)
    BY <2>1, <2>2, <2>3, <2>4 DEF Untouched
  <2> QED
    BY <2>5, UntouchedKept DEF IInv
<1>11. NotePart(p)'
  <2>1. srv'[p] = h /\ UNCHANGED <<disk, echo, watch, wrote>> /\ NotePart(p)
    BY <1>1, <1>2, <1>3 DEF IInv
  <2>2. /\ ~Removed(p) /\ Free(watch, RemovalOf(p)) /\ Free(toServer, DeletionOf(p))
        /\ Free(toClient, TakingOf(p))
    <3>1. Edited(p)
      BY <1>3, <1>5 DEF Edited
    <3> QED
      BY <2>1, <3>1 DEF NotePart, RemovedPart, Removed
  <2>3. /\ Free(watch', RemovalOf(p)) /\ Free(toServer', DeletionOf(p))
        /\ Free(toClient', TakingOf(p)) /\ Free(toClient', SyncDeletes(p)) /\ ~Removed(p)'
    <3>1. Free(toClient', TakingOf(p))
      BY <1>3, <1>4, <1>6, <2>2
    <3>2. Free(toClient', SyncDeletes(p))
      BY <1>3, <3>1, Parts, FreeLess
    <3> QED
      BY <1>3, <1>5, <2>1, <2>2, <3>1, <3>2 DEF Removed
  <2>4. RemovedPart(p)'
    BY <2>3 DEF RemovedPart
  <2>5. ASSUME toClient' = Append(toClient, m)
        PROVE  SentPart(p)' /\ SettledPart(p)' /\ FreshPart(p)'
    <3>1. ~Free(toClient', GivingOf(p)) /\ \A B : LastWord(toClient', SyncOfThis(p, h), B)
      BY <1>2, <1>4, <2>5, QueueAppend
    <3>2. SentPart(p)' /\ SettledPart(p)'
      BY <2>1, <3>1 DEF SentPart, SettledPart
    <3>3. FreshPart(p)'
      <4>1. h \in wrote[p]
        BY <1>3, <1>5, <2>1 DEF NotePart, OursPart, Foreign
      <4> QED
        BY <1>2, <1>4, <2>1, <2>5, <4>1, FreshMore DEF NotePart, FreshPart
    <3> QED
      BY <3>2, <3>3
  <2>6. ASSUME srv[p] = h, toClient' = toClient
        PROVE  SentPart(p)' /\ SettledPart(p)' /\ FreshPart(p)'
    <3>1. SentPart(p)' /\ FreshPart(p)'
      BY <2>1, <2>6 DEF NotePart, SentPart, FreshPart
    <3>2. \A x : WillHave(p, x) => WillHave(p, x)'
      BY <1>3, <1>5, <2>1, <2>6 DEF WillHave
    <3>3. SettledPart(p)'
      BY <2>1, <2>2, <2>6, <3>2 DEF NotePart, SettledPart
    <3> QED
      BY <3>1, <3>3
  <2>7. EchoPart(p)'
    BY <2>1, <2>2 DEF NotePart, EchoPart
  <2>8. OursPart(p)'
    BY <1>5, <2>1 DEF NotePart, OursPart
  <2> QED
    BY <1>1, <2>4, <2>5, <2>6, <2>7, <2>8 DEF NotePart
<1> QED
  BY <1>8, <1>9, <1>10, <1>11

\* The server takes a deletion: it answers with one, or had no such note.
LEMMA ServerDeleteKept ==
    ASSUME Considered, IInv, ServerStep, ServerAcceptsDelete
    PROVE  OneRemoval' /\ RenamedPart' /\ \A q \in Paths : NotePart(q)'
<1> SUFFICES ASSUME NEW e, e = Head(toServer), NEW p, p = e.path
             PROVE  OneRemoval' /\ RenamedPart' /\ \A q \in Paths : NotePart(q)'
  OBVIOUS
<1> DEFINE m == SyncDeleteMsg(p)
<1>1. /\ e.type = "NoteDelete" /\ srv' = [srv EXCEPT ![p] = Absent] /\ toServer # <<>> /\ toServer' = Tail(toServer)
      /\ toClient' = Append(toClient, m) \/ (srv[p] = Absent /\ toClient' = toClient)
      /\ UNCHANGED <<disk, echo, watch, wrote>>
  BY DEF ServerAcceptsDelete, ServerStep, SendToAuthor, Considered, engineVars
<1>2. /\ Typed /\ srv \in [Paths -> Contents] /\ watch \in Seq(Events)
      /\ toServer \in Seq(ClientMsgs) /\ toClient \in Seq(ServerMsgs)
  BY DEF IInv, Typed, TypeOK
<1>3. /\ p \in Paths /\ e \in ClientMsgs /\ e \in DeletionOf(p) /\ e \in Deletion
      /\ \A q \in Paths : e \notin PushOf(q)
      /\ \A q \in Paths : q # p => e \notin UploadsOf(q)
  <2>1. e \in ClientMsgs
    BY <1>1, <1>2, QueuesTyped
  <2> QED
    BY <1>1, <2>1 DEF ClientMsgs, PushOf, Deletion, DeletionOf, UploadsOf
<1>4. /\ m \in ServerMsgs /\ m \in SyncDeletes(p) /\ m \in TakingOf(p) /\ m \notin Renames
      /\ \A q \in Paths : m \notin SyncOf(q) /\ m \notin GivingOf(q)
      /\ \A q \in Paths : q # p => m \notin MessagesOf(q)
  BY <1>3, MessagesSay, MessagesTyped
<1> HIDE DEF m
<1>5. /\ \A B : Free(toServer, B) => Free(toServer', B) /\ e \notin B
      /\ Free(toServer', Deletion)
  <2>1. \A B : Free(toServer, B) => Free(toServer', B) /\ e \notin B
    BY <1>1, <1>2, QueueTail
  <2>2. Free(toServer', Deletion)
    BY <1>1, <1>2, <1>3, OnceTail DEF IInv, OneRemoval
  <2> QED
    BY <2>1, <2>2
<1>6. /\ \A B : m \notin B => (Free(toClient', B) <=> Free(toClient, B))
      /\ \A B : Free(toClient, B) => Once(toClient', B)
      /\ toClient' = Append(toClient, m) => \A B : Free(toClient', B) <=> Free(toClient, B) /\ m \notin B
  <2>1. /\ \A B : m \notin B => (Free(toClient', B) <=> Free(toClient, B))
        /\ \A B : Free(toClient, B) => Once(toClient', B)
    BY <1>1, <1>2, <1>4, MaySend
  <2>2. toClient' = Append(toClient, m) => \A B : Free(toClient', B) <=> Free(toClient, B) /\ m \notin B
    BY <1>2, <1>4, QueueAppend
  <2> QED
    BY <2>1, <2>2
<1>7. ~Free(toServer, Deletion) /\ Free(watch, Removal) /\ Free(toClient, Taking) /\ Removals
  <2>1. ~Free(toServer, Deletion)
    BY <1>3, <1>5
  <2> QED
    BY <2>1 DEF IInv, OneRemoval
<1>8. OneRemoval'
  <2>1. Once(toServer', Deletion) /\ Once(watch', Removal)
    BY <1>1, <1>5, <1>7 DEF Once, Free
  <2> QED
    BY <1>1, <1>5, <1>6, <1>7, <2>1 DEF OneRemoval
<1>9. RenamedPart'
  <2>1. Free(toClient', Renames)
    BY <1>1, <1>4, <1>6, NoRename
  <2>2. \A n \in Renames : Free(toClient', {n})
    BY <2>1 DEF Free
  <2> QED
    BY <2>2 DEF RenamedPart
<1>10. ASSUME NEW q \in Paths, q # p PROVE NotePart(q)'
  <2>1. srv'[q] = srv[q] /\ UNCHANGED <<disk, echo, watch, wrote>>
    BY <1>1, <1>2, <1>3, <1>10
  <2>2. Keeps(watch, watch', EventsOf(q)) /\ Keeps(toServer, toServer', UploadsOf(q))
    BY <1>1, <1>2, <1>3, <1>10, KeepsOther
  <2>3. Keeps(toClient, toClient', MessagesOf(q))
    BY <1>1, <1>2, <1>4, <1>10, KeepsOther
  <2>4. Fresh(toClient, SyncOf(q), wrote[q], echo[q]) => Fresh(toClient', SyncOf(q), wrote[q], echo[q])
    BY <1>1, <1>2, <1>4, MaySend
  <2>5. Untouched(q)
    BY <2>1, <2>2, <2>3, <2>4 DEF Untouched
  <2> QED
    BY <2>5, UntouchedKept DEF IInv
<1>11. NotePart(p)'
  <2>1. srv'[p] = Absent /\ UNCHANGED <<disk, echo, watch, wrote>> /\ NotePart(p)
    BY <1>1, <1>2, <1>3 DEF IInv
  <2>2. ~Free(toServer, DeletionOf(p)) /\ ~Edited(p) /\ disk[p] = Absent /\ echo[p] = DeletedMarker
    <3>1. ~Free(toServer, DeletionOf(p))
      BY <1>3, <1>5
    <3> QED
      BY <2>1, <3>1 DEF NotePart, RemovedPart, Removed
  <2>3. /\ Free(watch', EditOf(p)) /\ Free(toServer', PushOf(p)) /\ Free(toClient', GivingOf(p))
        /\ Free(toClient', SyncOf(p)) /\ ~Edited(p)'
    <3>1. Free(watch', EditOf(p)) /\ Free(toServer', PushOf(p)) /\ Free(toClient', GivingOf(p))
      BY <1>3, <1>4, <1>5, <1>6, <2>1, <2>2 DEF Edited
    <3> QED
      BY <1>3, <3>1, Parts, FreeLess DEF Edited
  <2>4. Free(watch', RemovalOf(p)) /\ Free(toServer', DeletionOf(p))
    BY <1>3, <1>5, <1>7, <2>1, Parts, FreeLess
  <2>5. RemovedPart(p)'
    BY <2>1, <2>2, <2>3, <2>4 DEF RemovedPart
  <2>6. SentPart(p)'
    BY <2>3 DEF SentPart
  <2>7. SettledPart(p)' /\ EchoPart(p)'
    BY <2>1, <2>2, HashesAssumption DEF SettledPart, EchoPart, WillHave, HashesAssumption
  <2>8. OursPart(p)'
    BY <1>5, <2>1, <2>3 DEF NotePart, OursPart
  <2>9. FreshPart(p)'
    BY <1>1, <1>2, <1>3, <1>4, <2>1, MaySend DEF NotePart, FreshPart
  <2> QED
    BY <2>5, <2>6, <2>7, <2>8, <2>9 DEF NotePart
<1> QED
  BY <1>8, <1>9, <1>10, <1>11

---------------------------------------------------------------------------
(* The client, with a message.                                             *)

\* A content received: it is written, unless echo_hashes has it.
LEMMA ReceiveModifyKept ==
    ASSUME Considered, IInv, HandleServerMessage, ReceiveModify
    PROVE  OneRemoval' /\ RenamedPart' /\ \A q \in Paths : NotePart(q)'
<1> SUFFICES ASSUME NEW m, m = Head(toClient), NEW p, p = m.path, NEW h, h = m.hash
             PROVE  OneRemoval' /\ RenamedPart' /\ \A q \in Paths : NotePart(q)'
  OBVIOUS
<1>1. /\ m.type = "NoteSyncModify" /\ toClient # <<>> /\ toClient' = Tail(toClient)
      /\ \/ echo[p] = h /\ echo' = [echo EXCEPT ![p] = NoEntry] /\ UNCHANGED <<disk, watch>>
         \/ /\ echo[p] # h /\ disk' = [disk EXCEPT ![p] = h] /\ echo' = [echo EXCEPT ![p] = h]
            /\ Noticed(p)
      /\ UNCHANGED <<srv, toServer, wrote>>
  BY DEF ReceiveModify, HandleServerMessage, HandleNoteModify, Echoed
<1>2. /\ Typed /\ watch \in Seq(Events) /\ toServer \in Seq(ClientMsgs) /\ toClient \in Seq(ServerMsgs)
      /\ disk \in [Paths -> Hashes \cup {Absent}] /\ echo \in [Paths -> Hashes \cup {DeletedMarker, NoEntry}]
      /\ Free(toClient', SyncNever)
  BY <1>1, QueuesTyped DEF IInv, Typed, TypeOK, EngineTypeOK
<1>3. /\ p \in Paths /\ h \in Hashes /\ m \in ServerMsgs /\ m \in SyncOf(p) /\ m \in GivingOf(p)
      /\ m \notin Taking /\ m \notin Renames
      /\ m \in SyncOfThis(p, h) /\ \A x : x # h => m \notin SyncOfThis(p, x)
      /\ \A q \in Paths : m \notin TakingOf(q)
      /\ \A q \in Paths : q # p => m \notin MessagesOf(q)
  <2>1. m \in ServerMsgs \ SyncNever
    BY <1>1, <1>2, QueuesTyped
  <2>2. p \in Paths /\ h \in Hashes /\ m \in SyncOf(p) /\ m \notin Taking /\ m \notin Renames
        /\ m \in SyncOfThis(p, h) /\ \A x : x # h => m \notin SyncOfThis(p, x)
    BY <1>1, <2>1 DEF ServerMsgs, SyncNever, SyncOf, Taking, Renames, SyncOfThis
  <2>3. \A q \in Paths : q # p => m \notin MessagesOf(q)
    BY <1>1, <2>1 DEF ServerMsgs, SyncOf, GivingOf, TakingOf, RenamesTo, RenamesFrom, SyncDeletes, MessagesOf
  <2> QED
    BY <2>1, <2>2, <2>3, Parts
<1>4. /\ \A B : Free(toClient, B) => Free(toClient', B) /\ m \notin B
      /\ \A G, B : LastWord(toClient, G, B) => LastWord(toClient', G, B) \/ (m \in G /\ Free(toClient', B))
      /\ \A B : Once(toClient, B) => Once(toClient', B)
  <2>1. /\ \A B : Free(toClient, B) => Free(toClient', B) /\ m \notin B
        /\ \A G, B : LastWord(toClient, G, B) => LastWord(toClient', G, B) \/ (m \in G /\ Free(toClient', B))
    BY <1>1, <1>2, QueueTail
  <2>2. \A B : Once(toClient, B) => Once(toClient', B)
    BY <1>1, <1>2, OnceTail
  <2> QED
    BY <2>1, <2>2
<1>5. /\ Free(toClient, Renames) /\ Free(toClient', Renames)
      /\ Free(toClient', GivingOf(p)) <=> Free(toClient', SyncOf(p))
  <2>1. Free(toClient', Renames)
    BY <1>1, <1>3, <1>4, NoRename
  <2> QED
    BY <1>1, <1>3, <2>1, NoRename, Parts, FreeLess DEF GivingOf
<1>6. /\ Free(watch, Removal) <=> Free(watch', Removal)
      /\ Free(watch, RemovalOf(p)) <=> Free(watch', RemovalOf(p))
      /\ Once(watch, Removal) => Once(watch', Removal)
      /\ \A q \in Paths : q # p => Keeps(watch, watch', EventsOf(q))
  <2>1. CASE watch' = watch
    BY <1>2, <2>1, KeepsOther
  <2>2. CASE Noticed(p)
    BY <1>2, <1>3, <2>2, NoticedMeans
  <2> QED
    BY <1>1, <2>1, <2>2
<1>7. OneRemoval'
  BY <1>1, <1>4, <1>6 DEF IInv, OneRemoval
<1>8. RenamedPart'
  <2>1. \A n \in Renames : Free(toClient', {n})
    BY <1>5 DEF Free
  <2> QED
    BY <2>1 DEF RenamedPart
<1>9. ASSUME NEW q \in Paths, q # p PROVE NotePart(q)'
  <2>1. disk'[q] = disk[q] /\ echo'[q] = echo[q] /\ UNCHANGED <<srv, wrote>>
    BY <1>1, <1>2, <1>9
  <2>2. Keeps(toClient, toClient', MessagesOf(q)) /\ Keeps(toServer, toServer', UploadsOf(q))
    BY <1>1, <1>2, <1>3, <1>9, KeepsOther
  <2>3. Fresh(toClient, SyncOf(q), wrote[q], echo[q]) => Fresh(toClient', SyncOf(q), wrote[q], echo[q])
    <3>1. m \notin SyncOf(q)
      BY <1>3, <1>9, Parts
    <3> QED
      BY <1>1, <1>2, <3>1, FreshTail
  <2>4. Untouched(q)
    BY <1>6, <1>9, <2>1, <2>2, <2>3 DEF Untouched
  <2> QED
    BY <2>4, UntouchedKept DEF IInv
<1>10. NotePart(p)'
  <2>1. NotePart(p)
    BY <1>3 DEF IInv
  <2>2. /\ ~Removed(p) /\ Free(watch, RemovalOf(p)) /\ Free(toServer, DeletionOf(p))
        /\ Free(toClient, TakingOf(p))
    <3>1. Edited(p)
      BY <1>3, <1>4 DEF Edited
    <3> QED
      BY <2>1, <3>1 DEF NotePart, RemovedPart, Removed
  <2>3. /\ Free(watch', RemovalOf(p)) /\ Free(toServer', DeletionOf(p))
        /\ Free(toClient', TakingOf(p)) /\ Free(toClient', SyncDeletes(p)) /\ ~Removed(p)'
    <3>1. Free(toClient', TakingOf(p))
      BY <1>4, <2>2
    <3>2. Free(toClient', SyncDeletes(p))
      BY <1>3, <3>1, Parts, FreeLess
    <3> QED
      BY <1>1, <1>6, <2>2, <3>1, <3>2 DEF Removed
  <2>4. RemovedPart(p)'
    BY <2>3 DEF RemovedPart
  <2>5. LastWord(toClient, SyncOfThis(p, srv[p]), SyncOf(p) \ SyncOfThis(p, srv[p]))
    BY <1>3, <1>4, <2>1 DEF NotePart, SentPart
  <2>6. SentPart(p)'
    <3>1. ASSUME ~Free(toClient', SyncOf(p))
          PROVE  LastWord(toClient', SyncOfThis(p, srv[p]), SyncOf(p) \ SyncOfThis(p, srv[p]))
      <4>1. SyncOfThis(p, srv[p]) \subseteq SyncOf(p)
        BY <1>3, Parts
      <4>2. \/ LastWord(toClient', SyncOfThis(p, srv[p]), SyncOf(p) \ SyncOfThis(p, srv[p]))
            \/ Free(toClient', SyncOf(p) \ SyncOfThis(p, srv[p]))
        BY <1>4, <2>5
      <4> QED
        BY <3>1, <4>1, <4>2, LastIsThere
    <3> QED
      BY <1>1, <3>1 DEF SentPart
  <2>7. ASSUME Free(toClient', SyncOf(p)) PROVE srv[p] = h
    <3>1. Free(toClient', SyncOfThis(p, srv[p]))
      BY <1>3, <2>7, Parts, FreeLess
    <3>2. m \in SyncOfThis(p, srv[p])
      BY <1>4, <2>5, <3>1, LastIsThere
    <3> QED
      BY <1>3, <3>2
  <2>8. Fresh(toClient', SyncOf(p), wrote[p], h) /\ (h \notin wrote[p] => h # echo[p])
    BY <1>1, <1>2, <1>3, <2>1, FreshTail DEF NotePart, FreshPart
  <2>9. Free(toServer', Foreign(p, wrote'[p]))
    BY <1>1, <2>1 DEF NotePart, OursPart
  <2>10. CASE echo[p] = h /\ echo' = [echo EXCEPT ![p] = NoEntry] /\ UNCHANGED <<disk, watch>>
    <3>1. echo'[p] = NoEntry /\ NoEntry \notin Hashes /\ NoEntry # DeletedMarker /\ disk' = disk /\ watch' = watch
      BY <1>2, <1>3, <2>10, HashesAssumption DEF HashesAssumption
    <3>2. Free(watch, EditOf(p)) => disk[p] = h \/ disk[p] \in NonText
      BY <1>3, <2>1, <2>2, <2>10 DEF NotePart, EchoPart
    <3>3. SettledPart(p)'
      BY <1>1, <1>5, <2>7, <3>1, <3>2 DEF SettledPart, WillHave
    <3>4. EchoPart(p)'
      BY <3>1 DEF EchoPart
    <3>5. OursPart(p)'
      BY <1>1, <2>1, <2>8, <2>9, <2>10, <3>1 DEF NotePart, OursPart
    <3>6. FreshPart(p)'
      <4>1. ASSUME NEW n \in SyncOf(p), n.hash = NoEntry PROVE Free(toClient', {n})
        <5>1. {n} \subseteq SyncNever
          BY <3>1, <4>1 DEF SyncNever, SyncOf
        <5> QED
          BY <1>2, <5>1, FreeLess
      <4>2. Fresh(toClient', SyncOf(p), wrote[p], NoEntry)
        BY <2>8, <4>1, FreshOther
      <4> QED
        BY <1>1, <3>1, <4>2 DEF FreshPart
    <3> QED
      BY <2>4, <2>6, <3>3, <3>4, <3>5, <3>6 DEF NotePart
  <2>11. CASE /\ echo[p] # h /\ disk' = [disk EXCEPT ![p] = h] /\ echo' = [echo EXCEPT ![p] = h]
              /\ Noticed(p)
    <3>1. disk'[p] = h /\ echo'[p] = h /\ h # Absent /\ ~Free(watch', EditOf(p))
      BY <1>2, <1>3, <2>11, HashesAssumption, NoticedMeans DEF HashesAssumption
    <3>2. SettledPart(p)'
      BY <1>1, <1>5, <2>7, <3>1 DEF SettledPart, WillHave
    <3>3. EchoPart(p)'
      BY <3>1 DEF EchoPart
    <3>4. OursPart(p)'
      BY <2>9, <3>1 DEF OursPart
    <3>5. FreshPart(p)'
      BY <1>1, <2>8, <3>1 DEF FreshPart
    <3> QED
      BY <2>4, <2>6, <3>2, <3>3, <3>4, <3>5 DEF NotePart
  <2> QED
    BY <1>1, <2>10, <2>11
<1> QED
  BY <1>7, <1>8, <1>9, <1>10

\* A deletion received: the note goes, unless echo_hashes has it as deleted.
LEMMA ReceiveDeleteKept ==
    ASSUME Considered, IInv, HandleServerMessage, ReceiveDelete
    PROVE  OneRemoval' /\ RenamedPart' /\ \A q \in Paths : NotePart(q)'
<1> SUFFICES ASSUME NEW m, m = Head(toClient), NEW p, p = m.path
             PROVE  OneRemoval' /\ RenamedPart' /\ \A q \in Paths : NotePart(q)'
  OBVIOUS
<1>1. /\ m.type = "NoteSyncDelete" /\ toClient # <<>> /\ toClient' = Tail(toClient)
      /\ HandleNoteDelete(p) /\ NoticedHandler(p) /\ UNCHANGED <<srv, toServer, wrote>>
  BY DEF ReceiveDelete, HandleServerMessage
<1>2. /\ Typed /\ watch \in Seq(Events) /\ toServer \in Seq(ClientMsgs) /\ toClient \in Seq(ServerMsgs)
      /\ disk \in [Paths -> Hashes \cup {Absent}] /\ echo \in [Paths -> Hashes \cup {DeletedMarker, NoEntry}]
  BY DEF IInv, Typed, TypeOK, EngineTypeOK
<1>3. /\ p \in Paths /\ m \in ServerMsgs /\ m \in SyncDeletes(p) /\ m \in TakingOf(p)
      /\ m \in Taking /\ m \notin Renames
      /\ \A q \in Paths : m \notin SyncOf(q) /\ m \notin GivingOf(q)
      /\ \A q \in Paths : q # p => m \notin MessagesOf(q)
  <2>1. m \in ServerMsgs
    BY <1>1, <1>2, QueuesTyped
  <2>2. p \in Paths /\ m \in SyncDeletes(p) /\ m \in Taking /\ m \notin Renames
    BY <1>1, <2>1 DEF ServerMsgs, SyncDeletes, Taking, Renames
  <2>3. \A q \in Paths : m \notin SyncOf(q) /\ m \notin GivingOf(q)
    BY <1>1, <2>1 DEF SyncOf, RenamesTo, GivingOf
  <2>4. \A q \in Paths : q # p => m \notin TakingOf(q)
    BY <1>1, <2>1 DEF SyncDeletes, RenamesFrom, TakingOf
  <2> QED
    BY <2>1, <2>2, <2>3, <2>4, Parts DEF MessagesOf
<1>4. /\ \A B : Free(toClient, B) => Free(toClient', B) /\ m \notin B
      /\ Free(toClient', Taking)
  <2>1. \A B : Free(toClient, B) => Free(toClient', B) /\ m \notin B
    BY <1>1, <1>2, QueueTail
  <2>2. Free(toClient', Taking)
    BY <1>1, <1>2, <1>3, OnceTail DEF IInv, OneRemoval
  <2> QED
    BY <2>1, <2>2
<1>5. Free(watch, Removal) /\ Free(toServer, Deletion) /\ Removals
  BY <1>3, <1>4 DEF IInv, OneRemoval
<1>6. NotePart(p) /\ ~Free(toClient, SyncDeletes(p)) /\ ~Free(toClient, TakingOf(p))
  BY <1>3, <1>4 DEF IInv
<1>7. /\ srv[p] = Absent /\ (echo[p] = DeletedMarker => disk[p] = Absent)
      /\ Free(watch, EditOf(p)) /\ Free(toServer, PushOf(p)) /\ Free(toClient, GivingOf(p))
  BY <1>6 DEF NotePart, RemovedPart, Removed, Edited
<1>8. /\ disk'[p] = Absent /\ \A q \in Paths : q # p => disk'[q] = disk[q] /\ echo'[q] = echo[q]
      /\ echo'[p] \notin Hashes
  <2>1. CASE /\ echo[p] = DeletedMarker /\ echo' = [echo EXCEPT ![p] = NoEntry] /\ UNCHANGED disk
    BY <1>2, <1>3, <1>7, <2>1, HashesAssumption DEF HashesAssumption
  <2>2. CASE /\ disk' = [disk EXCEPT ![p] = Absent] /\ echo' = [echo EXCEPT ![p] = DeletedMarker]
    BY <1>2, <1>3, <2>2, HashesAssumption DEF HashesAssumption
  <2> QED
    BY <1>1, <2>1, <2>2 DEF HandleNoteDelete
<1>9. /\ Free(watch', EditOf(p)) /\ Once(watch', Removal)
      /\ \A q \in Paths : q # p => Keeps(watch, watch', EventsOf(q))
  <2>1. CASE watch' = watch
    BY <1>2, <1>5, <1>7, <2>1, KeepsOther DEF Free, Once
  <2>2. CASE NoticedRemoval(p)
    BY <1>2, <1>3, <1>5, <1>7, <2>2, NoticedRemovalMeans
  <2> QED
    BY <1>1, <1>8, <2>1, <2>2 DEF NoticedHandler
<1>10. OneRemoval'
  BY <1>1, <1>4, <1>5, <1>9 DEF OneRemoval, Free, Once
<1>11. RenamedPart'
  <2>1. Free(toClient', Renames)
    BY <1>1, <1>3, <1>4, NoRename
  <2>2. \A n \in Renames : Free(toClient', {n})
    BY <2>1 DEF Free
  <2> QED
    BY <2>2 DEF RenamedPart
<1>12. ASSUME NEW q \in Paths, q # p PROVE NotePart(q)'
  <2>1. disk'[q] = disk[q] /\ echo'[q] = echo[q] /\ UNCHANGED <<srv, wrote>>
    BY <1>1, <1>8, <1>12
  <2>2. Keeps(toClient, toClient', MessagesOf(q)) /\ Keeps(toServer, toServer', UploadsOf(q))
    BY <1>1, <1>2, <1>3, <1>12, KeepsOther
  <2>3. Fresh(toClient, SyncOf(q), wrote[q], echo[q]) => Fresh(toClient', SyncOf(q), wrote[q], echo[q])
    BY <1>1, <1>2, <1>3, FreshTail
  <2>4. Untouched(q)
    BY <1>9, <1>12, <2>1, <2>2, <2>3 DEF Untouched
  <2> QED
    BY <2>4, UntouchedKept DEF IInv
<1>13. NotePart(p)'
  <2>1. /\ Free(toServer', PushOf(p)) /\ Free(toClient', GivingOf(p)) /\ Free(toClient', SyncOf(p))
        /\ ~Edited(p)'
    <3>1. Free(toServer', PushOf(p)) /\ Free(toClient', GivingOf(p))
      BY <1>1, <1>4, <1>7
    <3>2. Free(toClient', SyncOf(p))
      BY <1>3, <3>1, Parts, FreeLess
    <3> QED
      BY <1>9, <3>1, <3>2 DEF Edited
  <2>2. Free(toServer', DeletionOf(p)) /\ Free(toClient', SyncDeletes(p))
    <3>1. Free(toClient', TakingOf(p))
      BY <1>3, <1>4, Parts, FreeLess
    <3> QED
      BY <1>1, <1>3, <1>5, <3>1, Parts, FreeLess
  <2>3. RemovedPart(p)'
    BY <1>8, <2>1, <2>2 DEF RemovedPart
  <2>4. SentPart(p)'
    BY <2>1 DEF SentPart
  <2>5. SettledPart(p)' /\ EchoPart(p)'
    BY <1>1, <1>7, <1>8 DEF SettledPart, EchoPart, WillHave
  <2>6. OursPart(p)'
    BY <1>1, <1>6, <1>9 DEF NotePart, OursPart
  <2>7. FreshPart(p)'
    BY <2>1 DEF FreshPart, Fresh, Free
  <2> QED
    BY <2>3, <2>4, <2>5, <2>6, <2>7 DEF NotePart
<1> QED
  BY <1>10, <1>11, <1>12, <1>13

\* A rename received: it came alone, and the note is there to be moved.
LEMMA ReceiveRenameKept ==
    ASSUME Considered, IInv, HandleServerMessage, ReceiveRename
    PROVE  OneRemoval' /\ RenamedPart' /\ \A q \in Paths : NotePart(q)'
<1> SUFFICES ASSUME NEW m, m = Head(toClient), NEW old, old = m.old, NEW new, new = m.path
             PROVE  OneRemoval' /\ RenamedPart' /\ \A q \in Paths : NotePart(q)'
  OBVIOUS
<1>1. /\ m.type = "NoteSyncRename" /\ toClient # <<>> /\ toClient' = Tail(toClient)
      /\ HandleNoteRename(old, new) /\ (disk[old] # Absent => NoticedRename(old, new))
      /\ UNCHANGED <<srv, toServer, wrote>>
  BY DEF ReceiveRename, HandleServerMessage
<1>2. /\ Typed /\ toServer \in Seq(ClientMsgs) /\ toClient \in Seq(ServerMsgs)
      /\ disk \in [Paths -> Hashes \cup {Absent}] /\ echo \in [Paths -> Hashes \cup {DeletedMarker, NoEntry}]
  BY DEF IInv, Typed, TypeOK, EngineTypeOK
<1>3. old \in Paths /\ new \in Paths /\ old # new /\ m \in Renames /\ m \in Taking
  <2>1. m \in ServerMsgs \ SyncNever
    BY <1>1, <1>2, QueuesTyped
  <2> QED
    BY <1>1, <2>1 DEF ServerMsgs, SyncNever, Renames, Taking
<1>4. ~Free(toClient, {m}) /\ ~Free(toClient, Taking)
  BY <1>1, <1>2, <1>3, QueueTail
<1>5. /\ toClient = <<m>> /\ watch = <<>> /\ toServer = <<>>
      /\ srv[old] = Absent /\ disk[old] = srv[new] /\ disk[old] # Absent
  BY <1>3, <1>4 DEF IInv, RenamedPart
<1>6. Removals /\ NonText = {}
  BY <1>4 DEF IInv, OneRemoval, Considered
<1>7. /\ disk' = [disk EXCEPT ![old] = Absent, ![new] = disk[old]]
      /\ echo' = [echo EXCEPT ![old] = DeletedMarker, ![new] = disk[old]]
      /\ NoticedRename(old, new)
  <2>1. Readable(old)
    BY <1>2, <1>3, <1>5, <1>6 DEF Readable
  <2> QED
    BY <1>1, <1>5, <2>1 DEF HandleNoteRename
<1>8. \A B : /\ Free(toServer', B) /\ Free(toClient', B)
             /\ Once(toServer', B) /\ Once(toClient', B)
  <2>1. toClient' = <<>> /\ toServer' = <<>>
    BY <1>1, <1>5
  <2> QED
    BY <2>1, QueueOne
<1>9. /\ ~Free(watch', RemovalOf(old)) /\ Free(watch', EditOf(old))
      /\ ~Free(watch', EditOf(new)) /\ Free(watch', RemovalOf(new)) /\ Once(watch', Removal)
      /\ \A q \in Paths \ {old, new} : Keeps(watch, watch', EventsOf(q))
  BY <1>2, <1>3, <1>5, <1>7, NoticedRenameMeans
<1>10. OneRemoval'
  BY <1>6, <1>8, <1>9 DEF OneRemoval
<1>11. RenamedPart'
  BY <1>8 DEF RenamedPart
<1>12. \A q \in Paths : SentPart(q)' /\ FreshPart(q)' /\ Free(toServer', Foreign(q, wrote'[q]))
  <2>1. \A A, W, e : Fresh(toClient', A, W, e)
    BY <1>1, <1>5 DEF Fresh
  <2> QED
    BY <1>8, <2>1 DEF SentPart, FreshPart
<1>13. ASSUME NEW q \in Paths \ {old, new} PROVE NotePart(q)'
  <2>1. disk'[q] = disk[q] /\ echo'[q] = echo[q] /\ UNCHANGED <<srv, wrote>>
    BY <1>1, <1>2, <1>7, <1>13
  <2>2. m \notin MessagesOf(q)
    BY <1>1, <1>13 DEF MessagesOf, GivingOf, TakingOf, SyncOf, SyncDeletes, RenamesTo, RenamesFrom
  <2>3. Keeps(toClient, toClient', MessagesOf(q)) /\ Keeps(toServer, toServer', UploadsOf(q))
    BY <1>1, <1>2, <2>2, KeepsOther
  <2>4. Untouched(q)
    BY <1>9, <1>12, <1>13, <2>1, <2>3 DEF Untouched, FreshPart
  <2> QED
    BY <2>4, UntouchedKept DEF IInv
<1>14. NotePart(old)'
  <2>1. disk'[old] = Absent
    BY <1>2, <1>3, <1>7
  <2>2. Removed(old)' /\ ~Edited(old)'
    BY <1>8, <1>9 DEF Removed, Edited
  <2>3. RemovedPart(old)'
    BY <1>8, <2>1, <2>2 DEF RemovedPart
  <2>4. SettledPart(old)' /\ EchoPart(old)'
    BY <2>2 DEF SettledPart, EchoPart
  <2>5. OursPart(old)'
    BY <1>3, <1>9, <1>12 DEF OursPart
  <2> QED
    BY <1>3, <1>12, <2>3, <2>4, <2>5 DEF NotePart
<1>15. NotePart(new)'
  <2>1. disk'[new] = disk[old] /\ echo'[new] = disk[old] /\ srv'[new] = disk[old]
    BY <1>1, <1>2, <1>3, <1>5, <1>7
  <2>2. ~Removed(new)'
    BY <1>8, <1>9 DEF Removed
  <2>3. RemovedPart(new)'
    BY <1>8, <1>9, <2>2 DEF RemovedPart
  <2>4. SettledPart(new)'
    BY <1>9, <2>1 DEF SettledPart, WillHave
  <2>5. EchoPart(new)'
    BY <1>9 DEF EchoPart
  <2>6. OursPart(new)'
    BY <1>3, <1>5, <1>12, <2>1 DEF OursPart
  <2> QED
    BY <1>3, <1>12, <2>3, <2>4, <2>5, <2>6 DEF NotePart
<1> QED
  BY <1>10, <1>11, <1>13, <1>14, <1>15

---------------------------------------------------------------------------
(* The client, with a watch event.                                         *)

\* push_modify speaks of its note only, and uploads no deletion.
LEMMA SentMeans ==
    ASSUME Typed, NEW p \in Paths
    PROVE  /\ SentMsgs(p) \in Seq(ClientMsgs) /\ Free(SentMsgs(p), Deletion)
           /\ Free(SentMsgs(p), DeletionOf(p))
           /\ \A q \in Paths \ {p} : Free(SentMsgs(p), UploadsOf(q)) /\ SentEcho(p)[q] = echo[q]
           /\ Sends(p) => /\ SentEcho(p)[p] = disk[p] /\ disk[p] \in Hashes
                          /\ \A B : LastWord(SentMsgs(p), PushOfThis(p, disk[p]), B)
                          /\ disk[p] \in wrote[p] => Free(SentMsgs(p), Foreign(p, wrote[p]))
           /\ ~Sends(p) => SentEcho(p)[p] = echo[p] /\ \A B : Free(SentMsgs(p), B)
<1>1. EngineTypeOK /\ echo \in [Paths -> Hashes \cup {DeletedMarker, NoEntry}]
  BY DEF Typed, TypeOK, EngineTypeOK
<1>2. CASE Sends(p)
  <2> DEFINE m == NoteModifyMsg(p, disk[p])
  <2>1. /\ m \in ClientMsgs /\ SentMsgs(p) = <<m>> /\ SentEcho(p) = [echo EXCEPT ![p] = disk[p]]
        /\ disk[p] \in Hashes
    BY <1>1, <1>2, SentSays
  <2>2. /\ m \in PushOfThis(p, disk[p]) /\ m \notin Deletion /\ m \notin DeletionOf(p)
        /\ \A q \in Paths \ {p} : m \notin UploadsOf(q)
        /\ \A W : disk[p] \in W => m \notin Foreign(p, W)
    BY <2>1, UploadsSay
  <2> HIDE DEF m
  <2>3. \A B : Free(SentMsgs(p), B) <=> m \notin B
    BY <2>1, QueueOne
  <2>4. \A B : LastWord(SentMsgs(p), PushOfThis(p, disk[p]), B)
    BY <2>1, <2>2, QueueOne
  <2>5. SentMsgs(p) \in Seq(ClientMsgs)
    BY <2>1
  <2> QED
    BY <1>1, <1>2, <2>1, <2>2, <2>3, <2>4, <2>5
<1>3. CASE ~Sends(p)
  <2>1. SentMsgs(p) = <<>> /\ SentEcho(p) = echo /\ SentMsgs(p) \in Seq(ClientMsgs)
    BY <1>1, <1>3, SentSays
  <2>2. \A B : Free(SentMsgs(p), B)
    BY <2>1, QueueOne
  <2> QED
    BY <1>3, <2>1, <2>2
<1> QED
  BY <1>2, <1>3

\* The edit of note p is pushed, or dropped because echo_hashes has it.
LEMMA EditHandled ==
    ASSUME Considered, IInv, watch # <<>>, watch' = Tail(watch), NEW p \in Paths,
           Head(watch) \in EditOf(p), NEW s \in Seq(ClientMsgs), Free(s, UploadsOf(p)),
           toServer' = (toServer \o SentMsgs(p)) \o s, echo'[p] = SentEcho(p)[p],
           UNCHANGED <<disk, toClient, srv, wrote>>
    PROVE  NotePart(p)'
<1> DEFINE t == toServer \o SentMsgs(p)
           d == disk[p]
<1>1. /\ Typed /\ watch \in Seq(Events) /\ toServer \in Seq(ClientMsgs) /\ NotePart(p)
      /\ disk \in [Paths -> Hashes \cup {Absent}]
  BY DEF IInv, Typed, TypeOK, EngineTypeOK
<1>2. SentMsgs(p) \in Seq(ClientMsgs) /\ Free(SentMsgs(p), DeletionOf(p))
  BY <1>1, SentMeans
<1>3. t \in Seq(ClientMsgs) /\ \A B : Free(t, B) <=> Free(toServer, B) /\ Free(SentMsgs(p), B)
  BY <1>1, <1>2, QueueJoin
<1>4. /\ \A B : B \subseteq UploadsOf(p) => (Free(toServer', B) <=> Free(t, B))
      /\ \A G, B : B \subseteq UploadsOf(p) /\ LastWord(t, G, B) => LastWord(toServer', G, B)
  <2>1. \A B : B \subseteq UploadsOf(p) => Free(s, B)
    BY FreeLess
  <2>2. t \in Seq(ClientMsgs) /\ toServer' = t \o s
    BY <1>3
  <2> HIDE DEF t
  <2> QED
    BY <2>1, <2>2, QueueJoin
<1>5. /\ ~Free(watch, EditOf(p))
      /\ \A B : Free(watch, B) => Free(watch', B)
  BY <1>1, QueueTail
<1>6. /\ ~Removed(p) /\ Free(watch, RemovalOf(p)) /\ Free(toServer, DeletionOf(p))
      /\ Free(toClient, TakingOf(p))
  <2>1. Edited(p)
    BY <1>5 DEF Edited
  <2> QED
    BY <1>1, <2>1 DEF NotePart, RemovedPart, Removed
<1>7. /\ Free(watch', RemovalOf(p)) /\ Free(toServer', DeletionOf(p)) /\ Free(toClient', TakingOf(p))
      /\ Free(toClient', SyncDeletes(p)) /\ ~Removed(p)'
  <2>1. Free(toServer', DeletionOf(p))
    BY <1>2, <1>3, <1>4, <1>6, Parts
  <2>2. Free(toClient', SyncDeletes(p))
    BY <1>6, Parts, FreeLess
  <2> QED
    BY <1>5, <1>6, <2>1, <2>2 DEF Removed
<1>8. RemovedPart(p)'
  BY <1>7 DEF RemovedPart
<1>9. SentPart(p)'
  BY <1>1 DEF NotePart, SentPart
<1>10. /\ d # Absent /\ d \in Hashes /\ (d \in wrote[p] \/ d = echo[p] \/ d \in NonText)
       /\ Free(toServer, Foreign(p, wrote[p])) /\ Foreign(p, wrote[p]) \subseteq UploadsOf(p)
  BY <1>1, <1>5, Parts DEF NotePart, OursPart
<1>11. PushOf(p) \ PushOfThis(p, d) \subseteq UploadsOf(p) /\ \A h : PushOf(p) \ PushOfThis(p, h) \subseteq UploadsOf(p)
  BY Parts
<1> HIDE DEF t
<1>12. CASE Sends(p)
  <2>1. /\ echo'[p] = d /\ d \in wrote[p]
        /\ \A B : LastWord(SentMsgs(p), PushOfThis(p, d), B)
        /\ Free(SentMsgs(p), Foreign(p, wrote[p]))
    <3>1. echo[p] # d /\ d \notin NonText
      BY <1>12 DEF Sends, Readable
    <3> QED
      BY <1>1, <1>10, <1>12, <3>1, SentMeans
  <2>2. LastWord(toServer', PushOfThis(p, d), PushOf(p) \ PushOfThis(p, d))
    <3>1. LastWord(t, PushOfThis(p, d), PushOf(p) \ PushOfThis(p, d))
      BY <1>1, <1>2, <2>1, QueueJoin DEF t
    <3> QED
      BY <1>4, <1>11, <3>1
  <2>3. SettledPart(p)'
    BY <2>1, <2>2 DEF SettledPart, WillHave
  <2>4. EchoPart(p)'
    BY <1>10, <2>1, HashesAssumption DEF EchoPart, HashesAssumption
  <2>5. OursPart(p)'
    BY <1>3, <1>4, <1>10, <2>1 DEF OursPart
  <2>6. FreshPart(p)'
    BY <1>1, <2>1, FreshOther DEF NotePart, FreshPart
  <2> QED
    BY <1>8, <1>9, <2>3, <2>4, <2>5, <2>6 DEF NotePart
<1>13. CASE ~Sends(p)
  <2>1. echo'[p] = echo[p] /\ (\A B : Free(SentMsgs(p), B)) /\ (d = echo[p] \/ d \in NonText)
    BY <1>1, <1>10, <1>13, SentMeans DEF Sends, Readable
  <2>2. \A h : WillHave(p, h) => WillHave(p, h)'
    <3> SUFFICES ASSUME NEW h, WillHave(p, h) PROVE WillHave(p, h)'
      OBVIOUS
    <3> DEFINE G == PushOfThis(p, h)
               B == PushOf(p) \ PushOfThis(p, h)
    <3>1. srv[p] = h \/ LastWord(toServer, G, B)
      BY DEF WillHave
    <3>2. LastWord(toServer, G, B) => LastWord(t, G, B)
      BY <1>1, <1>2, <2>1, QueueJoin DEF t
    <3>3. LastWord(t, G, B) => LastWord(toServer', G, B)
      BY <1>4, <1>11
    <3> QED
      BY <3>1, <3>2, <3>3 DEF WillHave
  <2>3. SettledPart(p)'
    BY <1>1, <1>6, <1>10, <2>1, <2>2 DEF NotePart, SettledPart
  <2>4. EchoPart(p)'
    BY <1>10, <2>1, HashesAssumption DEF EchoPart, HashesAssumption
  <2>5. OursPart(p)'
    BY <1>3, <1>4, <1>10, <2>1 DEF OursPart
  <2>6. FreshPart(p)'
    BY <1>1, <2>1 DEF NotePart, FreshPart
  <2> QED
    BY <1>8, <1>9, <2>3, <2>4, <2>5, <2>6 DEF NotePart
<1> QED
  BY <1>12, <1>13

\* The removal of note p is pushed.
LEMMA RemovalHandled ==
    ASSUME Considered, IInv, watch # <<>>, watch' = Tail(watch), NEW p \in Paths,
           Head(watch) \in RemovalOf(p), NEW s \in Seq(ClientMsgs), Free(s, UploadsOf(p)),
           toServer' = (toServer \o s) \o <<NoteDeleteMsg(p)>>, echo'[p] = DeletedMarker,
           UNCHANGED <<disk, toClient, srv, wrote>>
    PROVE  NotePart(p)'
<1> DEFINE m == NoteDeleteMsg(p)
           t == toServer \o s
<1>1. /\ Typed /\ watch \in Seq(Events) /\ toServer \in Seq(ClientMsgs) /\ NotePart(p)
  BY DEF IInv, Typed, TypeOK
<1>2. m \in ClientMsgs /\ m \in DeletionOf(p) /\ m \notin PushOf(p)
  BY UploadsSay, MessagesTyped
<1>3. t \in Seq(ClientMsgs) /\ \A B : Free(t, B) <=> Free(toServer, B) /\ Free(s, B)
  BY <1>1, QueueJoin
<1>4. toServer' = t \o <<m>>
  OBVIOUS
<1> HIDE DEF m, t
<1>5. \A B : Free(toServer', B) <=> Free(t, B) /\ m \notin B
  <2>1. t \o <<m>> = Append(t, m)
    BY <1>2, <1>3
  <2>2. \A B : Free(Append(t, m), B) <=> Free(t, B) /\ m \notin B
    BY <1>2, <1>3, QueueAppend
  <2> QED
    BY <1>4, <2>1, <2>2
<1>6. /\ ~Free(watch, RemovalOf(p))
      /\ \A B : Free(watch, B) => Free(watch', B)
  BY <1>1, QueueTail
<1>7. /\ disk[p] = Absent /\ Free(watch, EditOf(p)) /\ Free(toServer, PushOf(p))
      /\ Free(toClient, GivingOf(p))
  BY <1>1, <1>6 DEF NotePart, RemovedPart, Removed, Edited
<1>8. /\ Free(watch', EditOf(p)) /\ Free(toServer', PushOf(p)) /\ Free(toClient', GivingOf(p))
      /\ Free(toClient', SyncOf(p)) /\ ~Edited(p)'
  <2>1. Free(s, PushOf(p))
    BY Parts, FreeLess
  <2>2. Free(toClient', SyncOf(p))
    BY <1>7, Parts, FreeLess
  <2> QED
    BY <1>2, <1>3, <1>5, <1>6, <1>7, <2>1, <2>2 DEF Edited
<1>9. Removed(p)'
  BY <1>2, <1>5 DEF Removed
<1>10. Free(toClient, SyncDeletes(p))
  <2>1. ~Free(watch, Removal)
    BY <1>6, Parts, FreeLess
  <2>2. Free(toClient, Taking)
    BY <2>1 DEF IInv, OneRemoval
  <2> QED
    BY <2>2, Parts, FreeLess
<1>11. RemovedPart(p)'
  BY <1>7, <1>8, <1>10 DEF RemovedPart
<1>12. SentPart(p)'
  BY <1>8 DEF SentPart
<1>13. SettledPart(p)' /\ EchoPart(p)'
  BY <1>9 DEF SettledPart, EchoPart
<1>14. OursPart(p)'
  BY <1>8, Parts, FreeLess DEF OursPart
<1>15. FreshPart(p)'
  BY <1>8 DEF FreshPart, Fresh, Free
<1> QED
  BY <1>11, <1>12, <1>13, <1>14, <1>15 DEF NotePart

\* No rename by another device is on its way when a watch event is handled.
LEMMA WatchRenamed ==
    ASSUME IInv, watch # <<>>, UNCHANGED toClient
    PROVE  RenamedPart'
<1>1. \A m \in Renames : Free(toClient', {m})
  BY NoRename
<1> QED
  BY <1>1 DEF RenamedPart

\* An edit is handled.
LEMMA WatchModifiedKept ==
    ASSUME Considered, IInv, HandleWatchEvent, WatchModified
    PROVE  OneRemoval' /\ RenamedPart' /\ \A q \in Paths : NotePart(q)'
<1> SUFFICES ASSUME NEW e, e = Head(watch), NEW p, p = e.path
             PROVE  OneRemoval' /\ RenamedPart' /\ \A q \in Paths : NotePart(q)'
  OBVIOUS
<1>1. /\ e.kind = "Modified" /\ watch # <<>> /\ watch' = Tail(watch)
      /\ toServer' = toServer \o SentMsgs(p) /\ echo' = SentEcho(p)
      /\ UNCHANGED <<disk, toClient, srv, wrote>>
  BY DEF WatchModified, HandleWatchEvent, SentMsgs, SentEcho
<1>2. /\ Typed /\ watch \in Seq(Events) /\ toServer \in Seq(ClientMsgs) /\ toClient \in Seq(ServerMsgs)
  BY DEF IInv, Typed, TypeOK
<1>3. /\ p \in Paths /\ e \in EditOf(p) /\ e \notin Removal
      /\ \A q \in Paths : q # p => e \notin EventsOf(q)
  <2>1. e \in Events
    BY <1>1, <1>2, QueuesTyped
  <2> QED
    BY <1>1, <2>1 DEF Events, EditOf, Removal, RemovalOf, EventsOf
<1>4. /\ SentMsgs(p) \in Seq(ClientMsgs) /\ Free(SentMsgs(p), Deletion)
      /\ \A q \in Paths : q # p => Free(SentMsgs(p), UploadsOf(q)) /\ SentEcho(p)[q] = echo[q]
  BY <1>2, <1>3, SentMeans
<1>5. OneRemoval'
  <2>1. /\ Free(watch, Removal) => Free(watch', Removal)
        /\ Once(watch, Removal) => Once(watch', Removal)
    BY <1>1, <1>2, QueueTail, OnceTail
  <2>2. /\ Free(toServer, Deletion) => Free(toServer', Deletion)
        /\ Once(toServer, Deletion) => Once(toServer', Deletion)
    BY <1>1, <1>2, <1>4, QueueJoin, OnceJoin
  <2> QED
    BY <1>1, <2>1, <2>2 DEF IInv, OneRemoval
<1>6. RenamedPart'
  BY <1>1, WatchRenamed
<1>7. ASSUME NEW q \in Paths, q # p PROVE NotePart(q)'
  <2>1. Keeps(watch, watch', EventsOf(q)) /\ Keeps(toClient, toClient', MessagesOf(q))
    BY <1>1, <1>2, <1>3, <1>7, KeepsOther
  <2>2. Keeps(toServer, toServer', UploadsOf(q))
    BY <1>1, <1>2, <1>4, <1>7, KeepsOther
  <2>3. Untouched(q)
    BY <1>1, <1>4, <1>7, <2>1, <2>2 DEF Untouched
  <2> QED
    BY <2>3, UntouchedKept DEF IInv
<1>8. NotePart(p)'
  <2> DEFINE s == <<>>
  <2>1. s \in Seq(ClientMsgs) /\ Free(s, UploadsOf(p))
    <3>1. \A B : Free(s, B)
      BY QueueOne
    <3> QED
      BY <3>1
  <2>2. toServer' = (toServer \o SentMsgs(p)) \o s
    BY <1>1, <1>2, <1>4
  <2> HIDE DEF s
  <2> QED
    BY <1>1, <1>3, <2>1, <2>2, EditHandled
<1> QED
  BY <1>5, <1>6, <1>7, <1>8

\* One removal less is reported, one more is uploaded.
LEMMA RemovalUploaded ==
    ASSUME IInv, watch # <<>>, watch' = Tail(watch), Head(watch) \in Removal,
           NEW s \in Seq(ClientMsgs), Free(s, Deletion), NEW p \in Paths,
           toServer' = (toServer \o s) \o <<NoteDeleteMsg(p)>>, UNCHANGED toClient
    PROVE  OneRemoval'
<1> DEFINE t == toServer \o s
           r == <<NoteDeleteMsg(p)>>
<1>1. watch \in Seq(Events) /\ toServer \in Seq(ClientMsgs)
  BY DEF IInv, Typed, TypeOK
<1>2. ~Free(watch, Removal) /\ Free(watch', Removal) /\ Once(watch', Removal)
  BY <1>1, QueueTail, OnceTail DEF IInv, OneRemoval
<1>3. Free(toServer, Deletion) /\ Free(toClient, Taking) /\ Removals /\ Once(toClient, Taking)
  BY <1>2 DEF IInv, OneRemoval
<1>4. t \in Seq(ClientMsgs) /\ Free(t, Deletion)
  BY <1>1, <1>3, QueueJoin
<1>5. r \in Seq(ClientMsgs) /\ Once(r, Deletion) /\ toServer' = t \o r
  BY MessagesTyped, QueueOne
<1> HIDE DEF t, r
<1>6. Once(toServer', Deletion)
  BY <1>4, <1>5, OnceJoin
<1> QED
  BY <1>2, <1>3, <1>6 DEF OneRemoval

\* A deletion is handled.
LEMMA WatchDeletedKept ==
    ASSUME Considered, IInv, HandleWatchEvent, WatchDeleted
    PROVE  OneRemoval' /\ RenamedPart' /\ \A q \in Paths : NotePart(q)'
<1> SUFFICES ASSUME NEW e, e = Head(watch), NEW p, p = e.path
             PROVE  OneRemoval' /\ RenamedPart' /\ \A q \in Paths : NotePart(q)'
  OBVIOUS
<1> DEFINE m == NoteDeleteMsg(p)
           s == <<>>
<1>1. /\ e.kind = "Deleted" /\ watch # <<>> /\ watch' = Tail(watch)
      /\ toServer' = Append(toServer, m) /\ echo' = [echo EXCEPT ![p] = DeletedMarker]
      /\ UNCHANGED <<disk, toClient, srv, wrote>>
  BY DEF WatchDeleted, HandleWatchEvent, PushDeleteEcho
<1>2. /\ Typed /\ watch \in Seq(Events) /\ toServer \in Seq(ClientMsgs) /\ toClient \in Seq(ServerMsgs)
      /\ echo \in [Paths -> Hashes \cup {DeletedMarker, NoEntry}]
  BY DEF IInv, Typed, TypeOK, EngineTypeOK
<1>3. /\ p \in Paths /\ e \in RemovalOf(p) /\ e \in Removal
      /\ \A q \in Paths : q # p => e \notin EventsOf(q)
  <2>1. e \in Events
    BY <1>1, <1>2, QueuesTyped
  <2> QED
    BY <1>1, <2>1 DEF Events, EditOf, Removal, RemovalOf, EventsOf
<1>4. m \in ClientMsgs /\ \A q \in Paths : q # p => m \notin UploadsOf(q)
  BY <1>3, UploadsSay, MessagesTyped
<1>5. s \in Seq(ClientMsgs) /\ Free(s, UploadsOf(p)) /\ Free(s, Deletion)
  <2>1. \A B : Free(s, B)
    BY QueueOne
  <2> QED
    BY <2>1
<1>6. toServer' = (toServer \o s) \o <<m>>
  BY <1>1, <1>2, <1>4
<1> HIDE DEF s
<1>7. OneRemoval'
  BY <1>1, <1>3, <1>5, <1>6, RemovalUploaded
<1>8. RenamedPart'
  BY <1>1, WatchRenamed
<1>9. NotePart(p)'
  BY <1>1, <1>2, <1>3, <1>5, <1>6, RemovalHandled
<1> HIDE DEF m
<1>10. ASSUME NEW q \in Paths, q # p PROVE NotePart(q)'
  <2>1. Keeps(watch, watch', EventsOf(q)) /\ Keeps(toClient, toClient', MessagesOf(q))
    BY <1>1, <1>2, <1>3, <1>10, KeepsOther
  <2>2. Keeps(toServer, toServer', UploadsOf(q))
    BY <1>1, <1>2, <1>4, <1>10, KeepsOther
  <2>3. Untouched(q)
    BY <1>1, <1>2, <1>10, <2>1, <2>2 DEF Untouched
  <2> QED
    BY <2>3, UntouchedKept DEF IInv
<1> QED
  BY <1>7, <1>8, <1>9, <1>10

\* A rename is handled: the new path is pushed, the old one removed.
LEMMA WatchMovedKept ==
    ASSUME Considered, IInv, HandleWatchEvent, WatchMoved
    PROVE  OneRemoval' /\ RenamedPart' /\ \A q \in Paths : NotePart(q)'
<1> SUFFICES ASSUME NEW e, e = Head(watch), NEW old, old = e.from, NEW new, new = e.path
             PROVE  OneRemoval' /\ RenamedPart' /\ \A q \in Paths : NotePart(q)'
  OBVIOUS
<1> DEFINE m == NoteDeleteMsg(old)
           r == <<m>>
<1>1. /\ e.kind = "Moved" /\ watch # <<>> /\ watch' = Tail(watch)
      /\ toServer' = (toServer \o SentMsgs(new)) \o r /\ echo' = [SentEcho(new) EXCEPT ![old] = DeletedMarker]
      /\ UNCHANGED <<disk, toClient, srv, wrote>>
  BY DEF WatchMoved, HandleWatchEvent, PushDeleteEcho, SentMsgs, SentEcho
<1>2. /\ Typed /\ watch \in Seq(Events) /\ toServer \in Seq(ClientMsgs) /\ toClient \in Seq(ServerMsgs)
      /\ EngineTypeOK
  BY DEF IInv, Typed, TypeOK
<1>3. /\ old \in Paths /\ new \in Paths /\ old # new
      /\ e \in RemovalOf(old) /\ e \in EditOf(new) /\ e \in Removal
      /\ \A q \in Paths : q # old /\ q # new => e \notin EventsOf(q)
  <2>1. e \in Events \ EventNever
    BY <1>1, <1>2, QueuesTyped
  <2> QED
    BY <1>1, <2>1 DEF Events, EventNever, EditOf, Removal, RemovalOf, EventsOf
<1>4. m \in ClientMsgs /\ \A q \in Paths : q # old => m \notin UploadsOf(q)
  BY <1>3, UploadsSay, MessagesTyped
<1>5. /\ SentMsgs(new) \in Seq(ClientMsgs) /\ Free(SentMsgs(new), Deletion)
      /\ \A q \in Paths : q # new => Free(SentMsgs(new), UploadsOf(q)) /\ SentEcho(new)[q] = echo[q]
  BY <1>2, <1>3, SentMeans
<1>6. /\ echo'[old] = DeletedMarker /\ echo'[new] = SentEcho(new)[new]
      /\ \A q \in Paths : q # old /\ q # new => echo'[q] = echo[q]
  BY <1>1, <1>2, <1>3, <1>5, SentSays
<1>7. OneRemoval'
  BY <1>1, <1>3, <1>5, RemovalUploaded
<1>8. RenamedPart'
  BY <1>1, WatchRenamed
<1>9. NotePart(old)'
  BY <1>1, <1>3, <1>5, <1>6, RemovalHandled
<1> HIDE DEF m
<1>10. r \in Seq(ClientMsgs) /\ \A q \in Paths : q # old => Free(r, UploadsOf(q))
  <2>1. r \in Seq(ClientMsgs)
    BY <1>4
  <2>2. \A B : Free(r, B) <=> m \notin B
    BY QueueOne
  <2> QED
    BY <1>4, <2>1, <2>2
<1> HIDE DEF r
<1>11. NotePart(new)'
  BY <1>1, <1>3, <1>6, <1>10, EditHandled
<1>12. ASSUME NEW q \in Paths, q # old, q # new PROVE NotePart(q)'
  <2>1. Keeps(watch, watch', EventsOf(q)) /\ Keeps(toClient, toClient', MessagesOf(q))
    BY <1>1, <1>2, <1>3, <1>12, KeepsOther
  <2>2. Keeps(toServer, toServer', UploadsOf(q))
    BY <1>1, <1>2, <1>5, <1>10, <1>12, KeepsBoth
  <2>3. Untouched(q)
    BY <1>1, <1>6, <1>12, <2>1, <2>2 DEF Untouched
  <2> QED
    BY <2>3, UntouchedKept DEF IInv
<1> QED
  BY <1>7, <1>8, <1>9, <1>11, <1>12
---------------------------------------------------------------------------
(* The theorems.                                                           *)

\* The invariant holds after a sync, with nothing under way.
LEMMA InitSettled == Init => IInv
<1> SUFFICES ASSUME Init
             PROVE  IInv
  OBVIOUS
<1>1. /\ srv = disk /\ echo = [p \in Paths |-> NoEntry]
      /\ watch = <<>> /\ toServer = <<>> /\ toClient = <<>>
  BY DEF Init
<1>2. \A B : /\ Free(watch, B) /\ Free(toServer, B) /\ Free(toClient, B)
             /\ Once(watch, B) /\ Once(toServer, B) /\ Once(toClient, B)
  BY <1>1, QueueOne
<1>3. OneRemoval /\ RenamedPart
  BY <1>2 DEF OneRemoval, RenamedPart
<1>4. ASSUME NEW p \in Paths PROVE NotePart(p)
  <2>1. echo[p] = NoEntry /\ NoEntry \notin Hashes /\ NoEntry # DeletedMarker
    BY <1>1, HashesAssumption DEF HashesAssumption
  <2>2. RemovedPart(p) /\ SentPart(p) /\ OursPart(p)
    BY <1>2 DEF RemovedPart, Edited, SentPart, OursPart
  <2>3. SettledPart(p) /\ EchoPart(p)
    BY <1>1, <2>1 DEF SettledPart, EchoPart, WillHave
  <2>4. FreshPart(p)
    BY <1>1 DEF FreshPart, Fresh
  <2> QED
    BY <2>2, <2>3, <2>4 DEF NotePart
<1> QED
  BY <1>3, <1>4, InitTyped DEF IInv

\* A step that changes nothing keeps it.
LEMMA StutterSettled == IInv /\ UNCHANGED vars => IInv'
<1> SUFFICES ASSUME IInv, UNCHANGED vars
             PROVE  IInv'
  OBVIOUS
<1>1. UNCHANGED <<disk, echo, watch, toServer, toClient, srv, wrote>>
  BY DEF vars, engineVars
<1>2. Typed'
  BY StutterTyped DEF IInv
<1>3. OneRemoval' /\ RenamedPart'
  BY <1>1 DEF IInv, OneRemoval, RenamedPart
<1>4. ASSUME NEW p \in Paths PROVE NotePart(p)'
  BY <1>1 DEF IInv, NotePart, RemovedPart, Removed, Edited, SentPart, SettledPart, WillHave,
              EchoPart, OursPart, FreshPart
<1> QED
  BY <1>2, <1>3, <1>4 DEF IInv

\* Every step keeps the invariant.
LEMMA StepSettled == ASSUME Considered PROVE IInv /\ [Next]_vars => IInv'
<1> SUFFICES ASSUME IInv, Next
             PROVE  IInv'
  BY StutterSettled
<1>1. Typed'
  BY WatchTyped, MessageTyped, ServerTyped, UserTyped, RemoteTyped DEF IInv, Next
<1>2. OneRemoval' /\ RenamedPart' /\ \A p \in Paths : NotePart(p)'
  <2>1. CASE HandleWatchEvent
    BY <2>1, WatchModifiedKept, WatchDeletedKept, WatchMovedKept DEF HandleWatchEvent
  <2>2. CASE HandleServerMessage
    BY <2>2, ReceiveModifyKept, ReceiveDeleteKept, ReceiveRenameKept DEF HandleServerMessage
  <2>3. CASE ServerStep
    BY <2>3, ServerModifyKept, ServerDeleteKept DEF ServerStep
  <2>4. CASE UserChanges
    BY <2>4, UserEditsKept, UserDeletesKept, UserRenamesKept DEF UserChanges
  <2>5. CASE RemoteChanges
    BY <2>5, RemoteEditsKept, RemoteDeletesKept, RemoteRenamesKept DEF RemoteChanges
  <2> QED
    BY <2>1, <2>2, <2>3, <2>4, <2>5 DEF Next
<1> QED
  BY <1>1, <1>2 DEF IInv

\* The inductive invariant.
LEMMA Invariance == ASSUME Considered PROVE Spec => []IInv
<1>1. IInv /\ [Next]_vars => IInv'
  BY StepSettled
<1> QED
  BY <1>1, InitSettled, PTL DEF Spec

\* What was just received is not uploaded (push_modify with echo_hashes): every
\* NoteModify on its way carries a content the user gave the note here, however
\* the edits of all devices cross.
THEOREM UploadsOurs ==
    ASSUME EchoesToAuthor, ~Overlap, Removals => NonText = {}
    PROVE  Spec => []UploadsAreOurs
<1>1. IInv => UploadsAreOurs
  <2> SUFFICES ASSUME IInv, NEW i \in 1..Len(toServer), toServer[i].type = "NoteModify"
               PROVE  toServer[i].hash \in wrote[toServer[i].path]
    BY DEF UploadsAreOurs
  <2>1. i \in DOMAIN toServer /\ toServer[i] \in ClientMsgs
    BY DEF IInv, Typed, TypeOK
  <2>2. toServer[i].path \in Paths /\ toServer[i] \in PushOf(toServer[i].path)
    BY <2>1 DEF ClientMsgs, PushOf
  <2>3. toServer[i] \notin Foreign(toServer[i].path, wrote[toServer[i].path])
    BY <2>1, <2>2 DEF IInv, NotePart, OursPart, Free
  <2> QED
    BY <2>2, <2>3 DEF Foreign
<1>2. Considered
  BY DEF Considered
<1> QED
  BY <1>1, <1>2, Invariance, PTL

\* When nothing is under way any more the vault is what the server holds: no
\* message was suppressed, and no event skipped, that carried a change
\* (handle_watch_event, handle_server_message), but for a content of the vault
\* that cannot be read.
THEOREM QuietSame ==
    ASSUME EchoesToAuthor, ~Overlap, Removals => NonText = {}
    PROVE  Spec => []QuietMeansSame
<1>1. IInv => QuietMeansSame
  <2> SUFFICES ASSUME IInv, Quiet, NEW p \in Paths
               PROVE  disk[p] = srv[p] \/ disk[p] \in NonText
    BY DEF QuietMeansSame
  <2>1. \A B : Free(watch, B) /\ Free(toServer, B) /\ Free(toClient, B)
    BY QueueOne DEF Quiet
  <2>2. ~Removed(p) /\ SettledPart(p)
    BY <2>1 DEF Removed, IInv, NotePart
  <2>3. \A G, A : ~LastWord(toServer, G, A)
    BY <2>1, LastIsThere
  <2> QED
    BY <2>1, <2>2, <2>3 DEF SettledPart, WillHave
<1>2. Considered
  BY DEF Considered
<1> QED
  BY <1>1, <1>2, Invariance, PTL
=============================================================================
