------------------------- MODULE SettingSyncProofs -------------------------
(***************************************************************************)
(* Theorems of SettingSync: type correctness, and, while the server keeps  *)
(* changes from a client that syncs, that the counters differ by what is   *)
(* not counted (SessionInv), that the sync keeps its contract              *)
(* (KeepsContract), and that only a time-out lets the next sync miss a     *)
(* change (MissedOnlyByTimeOut), for every set of files and contents,      *)
(* every page size and every bound, with I/O errors, restarts, renames     *)
(* that arrive among the pages, and files that are never acknowledged.     *)
(***************************************************************************)
EXTENDS SettingSync, FiniteSetTheorems, TLAPS

---------------------------------------------------------------------------
(* Type correctness.                                                       *)

PageType == [active : BOOLEAN, index : Nat, total : Nat, received : Nat,
             last : BOOLEAN]

\* The parts of TypeOK that the steps of a handler write.
VaultTypeOK == EngineTypeOK /\ events \in Seq(Events) /\ edited \subseteq Paths

CounterTypeOK ==
    /\ expected \in Nat /\ received \in Nat /\ pendingLast \in Nat
    /\ gotEnd \in BOOLEAN /\ pagingStarted \in BOOLEAN
    /\ pageLastSeen \in BOOLEAN /\ complete \in BOOLEAN
    /\ page \in PageType
    /\ pending \subseteq Paths /\ silent \subseteq Paths

ChannelTypeOK == toServer \in Seq(ClientMsgs) /\ toClient \in Seq(ServerMsgs)

ServerTypeOK ==
    /\ srv \in [Paths -> [content : Sendable \cup {Absent}, time : Nat]]
    /\ clock \in Nat
    /\ due \in [Paths -> Decisions]
    /\ owed \subseteq Paths /\ onPage \subseteq Paths
    /\ pageNo \in Nat \cup {-1}
    /\ sessions \in Nat /\ changes \in Nat /\ broadcasts \in Nat

TimeTypeOK ==
    /\ phase \in {"idle", "syncing", "live"}
    /\ lastTime \in Nat /\ saved \in Nat /\ cutOff \subseteq Paths

LEMMA TypeParts ==
    TypeOK <=> /\ VaultTypeOK /\ CounterTypeOK /\ ChannelTypeOK /\ ServerTypeOK
               /\ TimeTypeOK
  BY DEF TypeOK, VaultTypeOK, CounterTypeOK, ChannelTypeOK, ServerTypeOK, TimeTypeOK,
         PageType

LEMMA TypePartsNext ==
    /\ VaultTypeOK' /\ CounterTypeOK' /\ ChannelTypeOK' /\ ServerTypeOK' /\ TimeTypeOK'
    => TypeOK'
  BY TypeParts, PTL

\* The details of a channel of the server are about files.
LEMMA FlightFiles ==
    ASSUME NEW s \in Seq(ServerMsgs)
    PROVE  FlightPaths(s) \subseteq Paths
<1> SUFFICES ASSUME NEW i \in Flight(s) PROVE s[i].path \in Paths
  BY DEF FlightPaths
<1>1. s[i] \in ServerMsgs /\ s[i].type \in DetailTypes
  BY DEF Flight
<1> QED
  BY <1>1 DEF ServerMsgs, Details, DetailTypes

\* What is not counted is a set of files.
LEMMA UncountedFiles ==
    ASSUME CounterTypeOK, ChannelTypeOK, ServerTypeOK
    PROVE  Uncounted \subseteq Paths
  BY FlightFiles DEF CounterTypeOK, ChannelTypeOK, ServerTypeOK, Uncounted, Outstanding

LEMMA UncountedFilesNext ==
    CounterTypeOK' /\ ChannelTypeOK' /\ ServerTypeOK' => (Uncounted \subseteq Paths)'
  BY UncountedFiles, PTL

\* The next turn of the loop keeps the times in their types.
LEMMA TurnType ==
    ASSUME TypeOK, CounterTypeOK', ChannelTypeOK', ServerTypeOK', NextTurn
    PROVE  TimeTypeOK'
<1>1. Uncounted' \subseteq Paths
  BY UncountedFilesNext
<1>2. pendingLast' \in Nat
  BY DEF CounterTypeOK
<1>3. TimeTypeOK
  BY TypeParts
<1>4. CASE Return
  BY <1>1, <1>2, <1>3, <1>4 DEF Return, TimeTypeOK
<1>5. CASE UNCHANGED <<phase, timeVars>>
  BY <1>3, <1>5 DEF TimeTypeOK, timeVars
<1> QED
  BY <1>4, <1>5 DEF NextTurn

\* What follows a handler keeps the counters in their types.
LEMMA SettleType ==
    ASSUME TypeOK, NEW checks \in BOOLEAN, NEW rcv \in Nat, NEW pg \in PageType,
           NEW out \in Seq(ClientMsgs), Settle(checks, rcv, pg, out),
           pending' \subseteq Paths, silent' \subseteq Paths
    PROVE  CounterTypeOK' /\ toServer' \in Seq(ClientMsgs)
<1>1. PageAck(pg.index) \in ClientMsgs
  BY DEF PageAck, ClientMsgs, PageType
<1>2. toServer' \in Seq(ClientMsgs)
  <2> DEFINE ack == IF PageFinished(pg) /\ ~pg.last THEN <<PageAck(pg.index)>> ELSE <<>>
  <2>1. ack \in Seq(ClientMsgs)
    BY <1>1
  <2>2. toServer' = toServer \o out \o ack
    BY DEF Settle
  <2> QED
    BY <2>1, <2>2 DEF TypeOK
<1>3. page' \in PageType
  BY DEF Settle, PageType
<1>4. pageLastSeen' \in BOOLEAN /\ complete' \in BOOLEAN
  BY DEF Settle
<1>5. /\ expected' \in Nat /\ received' \in Nat /\ pendingLast' \in Nat
      /\ gotEnd' \in BOOLEAN /\ pagingStarted' \in BOOLEAN
  BY DEF Settle, TypeOK, countVars
<1> QED
  BY <1>2, <1>3, <1>4, <1>5 DEF CounterTypeOK

\* The next message is a message of the server, with the fields of its type.
LEMMA HeadType ==
    ASSUME TypeOK, toClient # <<>>
    PROVE  LET m == Head(toClient)
           IN /\ m \in ServerMsgs
              /\ Tail(toClient) \in Seq(ServerMsgs)
              /\ m.type \in DetailTypes => m \in Details
              /\ m.type = "SettingSyncEnd" => m.count \in Nat /\ m.last \in Nat
              /\ m.type = "SettingSyncPage" =>
                    m.index \in Nat /\ m.total \in Nat /\ m.last \in BOOLEAN
              /\ m.type = "SettingSyncRename" => m.old \in Paths /\ m.path \in Paths
              /\ m.type = "SettingModifyAck" => m.path \in Paths
<1>1. Head(toClient) \in ServerMsgs /\ Tail(toClient) \in Seq(ServerMsgs)
  BY DEF TypeOK
<1> QED
  BY <1>1 DEF ServerMsgs, Details, DetailTypes

\* What the watcher reports are events.
LEMMA EventTypes ==
    ASSUME NEW p \in Paths, NEW q \in Paths
    PROVE  /\ Written(p) \in Seq(Events) /\ Removed(p) \in Seq(Events)
           /\ Renamed(p, q) \in Seq(Events)
<1>1. /\ [kind |-> "Modified", path |-> p] \in Events
      /\ [kind |-> "Modified", path |-> q] \in Events
      /\ [kind |-> "Deleted", path |-> p] \in Events
      /\ [kind |-> "Moved", old |-> p, path |-> q] \in Events
  BY DEF Events
<1>2. Written(p) \in Seq(Events) /\ Written(q) \in Seq(Events) /\ Removed(p) \in Seq(Events)
  BY <1>1 DEF Written, Removed
<1>3. <<[kind |-> "Moved", old |-> p, path |-> q]>> \in Seq(Events)
  BY <1>1
<1> QED
  BY <1>2, <1>3 DEF Renamed

LEMMA EventsGrow ==
    ASSUME events \in Seq(Events), NEW added \in Seq(Events),
           events' = events \/ events' = events \o added
    PROVE  events' \in Seq(Events)
<1>1. CASE events' = events
  BY <1>1
<1>2. CASE events' = events \o added
  <2>1. events \o added \in Seq(Events)
    OBVIOUS
  <2> QED
    BY <2>1, <1>2
<1> QED
  BY <1>1, <1>2

\* The handlers of the server's messages keep the vault, the echo cache and the
\* events in their types.
LEMMA ApplyType ==
    ASSUME VaultTypeOK, NEW m,
           \/ m \in Details /\ m.type = "SettingSyncModify" /\ ApplyModify(m)
           \/ m \in Details /\ ApplyDelete(m)
           \/ m.old \in Paths /\ m.path \in Paths /\ ApplyRename(m)
    PROVE  VaultTypeOK'
<1> DEFINE Entries == Contents \cup {DeletedMarker, NoEntry}
<1>1. /\ disk \in [Paths -> Contents \cup {Absent}] /\ echo \in [Paths -> Entries]
      /\ events \in Seq(Events) /\ edited \subseteq Paths
  BY DEF VaultTypeOK, EngineTypeOK
<1>2. CASE m \in Details /\ m.type = "SettingSyncModify" /\ ApplyModify(m)
  <2>1. m.path \in Paths /\ m.content \in Contents
    BY <1>2 DEF Details, Sendable
  <2>2. EngineTypeOK'
    BY <1>1, <1>2, <2>1 DEF ApplyModify, HandleSettingModify, EngineTypeOK, engineVars
  <2>3. Written(m.path) \in Seq(Events)
    BY <2>1, EventTypes
  <2>4. (events' = events \/ events' = events \o Written(m.path)) /\ edited' \subseteq Paths
    BY <1>1, <1>2 DEF ApplyModify
  <2>5. events' \in Seq(Events)
    BY <1>1, <2>3, <2>4, EventsGrow
  <2> QED
    BY <2>2, <2>4, <2>5 DEF VaultTypeOK
<1>3. CASE m \in Details /\ ApplyDelete(m)
  <2>1. m.path \in Paths
    BY <1>3 DEF Details
  <2>2. EngineTypeOK'
    BY <1>1, <1>3, <2>1 DEF ApplyDelete, HandleSettingDelete, EngineTypeOK, engineVars
  <2>3. Removed(m.path) \in Seq(Events)
    BY <2>1, EventTypes
  <2>4. (events' = events \/ events' = events \o Removed(m.path)) /\ edited' \subseteq Paths
    BY <1>1, <1>3 DEF ApplyDelete
  <2>5. events' \in Seq(Events)
    BY <1>1, <2>3, <2>4, EventsGrow
  <2> QED
    BY <2>2, <2>4, <2>5 DEF VaultTypeOK
<1>4. CASE m.old \in Paths /\ m.path \in Paths /\ ApplyRename(m)
  <2>1. EngineTypeOK'
    BY <1>1, <1>4 DEF ApplyRename, HandleSettingRename, EngineTypeOK
  <2>2. Renamed(m.old, m.path) \in Seq(Events)
    BY <1>4, EventTypes
  <2>3. (events' = events \/ events' = events \o Renamed(m.old, m.path)) /\ edited' \subseteq Paths
    BY <1>1, <1>4 DEF ApplyRename
  <2>4. events' \in Seq(Events)
    BY <1>1, <2>2, <2>3, EventsGrow
  <2> QED
    BY <2>1, <2>3, <2>4 DEF VaultTypeOK
<1> QED
  BY <1>2, <1>3, <1>4

\* The pushes send messages of the client and keep the echo cache in its type.
LEMMA PushType ==
    ASSUME VaultTypeOK, NEW p \in Paths, NEW force \in BOOLEAN
    PROVE  /\ PushModifyMsgs(p, force) \in Seq(ClientMsgs)
           /\ PushModifyEcho(p, force) \in [Paths -> Contents \cup {DeletedMarker, NoEntry}]
           /\ PushDeleteMsgs(p) \in Seq(ClientMsgs)
           /\ \A e \in [Paths -> Contents \cup {DeletedMarker, NoEntry}] :
                 PushDeleteEcho(e, p) \in [Paths -> Contents \cup {DeletedMarker, NoEntry}]
<1>1. echo \in [Paths -> Contents \cup {DeletedMarker, NoEntry}]
  BY DEF VaultTypeOK, EngineTypeOK
<1>2. PushModifyMsgs(p, force) \in Seq(ClientMsgs)
  <2>1. CASE Pushes(p, force)
    <3>1. [type |-> "SettingModify", path |-> p, content |-> disk[p]] \in ClientMsgs
      BY <2>1 DEF Pushes, ClientMsgs
    <3> QED
      BY <2>1, <3>1 DEF PushModifyMsgs
  <2>2. CASE ~Pushes(p, force)
    BY <2>2 DEF PushModifyMsgs
  <2> QED
    BY <2>1, <2>2
<1>3. PushModifyEcho(p, force) \in [Paths -> Contents \cup {DeletedMarker, NoEntry}]
  BY <1>1 DEF PushModifyEcho, Pushes, Sendable
<1>4. PushDeleteMsgs(p) \in Seq(ClientMsgs)
  <2>1. [type |-> "SettingDelete", path |-> p, content |-> Absent] \in ClientMsgs
    BY DEF ClientMsgs
  <2> QED
    BY <2>1 DEF PushDeleteMsgs
<1> QED
  BY <1>2, <1>3, <1>4 DEF PushDeleteEcho

\* A step of the loop takes a message and leaves the server alone.
LEMMA ReceiveType ==
    ASSUME TypeOK, NEW type, Receive(type)
    PROVE  /\ toClient # <<>> /\ Head(toClient).type = type
           /\ toClient' \in Seq(ServerMsgs)
           /\ ServerTypeOK'
<1>1. toClient # <<>> /\ Head(toClient).type = type /\ toClient' = Tail(toClient)
  BY DEF Receive
<1>2. toClient' \in Seq(ServerMsgs)
  BY <1>1, HeadType
<1>3. ServerTypeOK'
  BY DEF Receive, TypeOK, ServerTypeOK, pageVars, boundVars
<1> QED
  BY <1>1, <1>2, <1>3

\* mark_page_message keeps the page in its type.
LEMMA MarkType ==
    ASSUME TypeOK
    PROVE  page \in PageType /\ MarkPageMessage(page) \in PageType
<1>1. page \in PageType
  BY DEF TypeOK, PageType
<1> QED
  BY <1>1 DEF PageType, MarkPageMessage

\* A handler that ends in Settle: what remains is what it does to the vault,
\* to pending_uploads and to what will not be counted.
LEMMA SettledReceiveType ==
    ASSUME TypeOK, NEW type, Receive(type),
           NEW checks \in BOOLEAN, NEW rcv \in Nat, NEW pg \in PageType,
           NEW out \in Seq(ClientMsgs), Settle(checks, rcv, pg, out),
           VaultTypeOK', pending' \subseteq Paths, silent' \subseteq Paths, NextTurn
    PROVE  TypeOK'
<1>1. CounterTypeOK' /\ toServer' \in Seq(ClientMsgs)
  BY SettleType
<1>2. toClient' \in Seq(ServerMsgs) /\ ServerTypeOK'
  BY ReceiveType
<1>3. ChannelTypeOK'
  BY <1>1, <1>2 DEF ChannelTypeOK
<1>4. TimeTypeOK'
  BY <1>1, <1>2, <1>3, TurnType
<1> QED
  BY <1>1, <1>2, <1>3, <1>4, TypePartsNext

\* The handlers of the session's loop.
LEMMA ClientType == TypeOK /\ ClientReceives => TypeOK'
<1> SUFFICES ASSUME TypeOK, ClientReceives PROVE TypeOK'
  OBVIOUS
<1> DEFINE m == Head(toClient)
<1>1. <<>> \in Seq(ClientMsgs) /\ TRUE \in BOOLEAN /\ FALSE \in BOOLEAN
  OBVIOUS
<1>2. /\ received \in Nat /\ received + 1 \in Nat
      /\ pending \subseteq Paths /\ silent \subseteq Paths
  BY DEF TypeOK
<1>3. VaultTypeOK
  BY TypeParts
<1>4. page \in PageType /\ MarkPageMessage(page) \in PageType
  BY MarkType
<1>5. ASSUME UNCHANGED <<engineVars, events, edited>> PROVE VaultTypeOK'
  BY <1>3, <1>5 DEF VaultTypeOK, EngineTypeOK, engineVars
<1>6. CASE ReceiveModify
  <2>1. Receive("SettingSyncModify") /\ ApplyModify(m) /\ NextTurn
        /\ Settle(TRUE, received + 1, MarkPageMessage(page), <<>>)
        /\ pending' = pending /\ silent' = silent
    BY <1>6 DEF ReceiveModify
  <2>2. m \in Details /\ m.type = "SettingSyncModify"
    BY <2>1, HeadType, ReceiveType DEF DetailTypes
  <2>3. VaultTypeOK'
    BY <1>3, <2>1, <2>2, ApplyType
  <2> QED
    BY <1>1, <1>2, <1>4, <2>1, <2>3, SettledReceiveType
<1>7. CASE ReceiveDelete
  <2>1. Receive("SettingSyncDelete") /\ ApplyDelete(m) /\ NextTurn /\ pending' = pending
    BY <1>7 DEF ReceiveDelete
  <2>2. m \in Details
    BY <2>1, HeadType, ReceiveType DEF DetailTypes
  <2>3. VaultTypeOK'
    BY <1>3, <2>1, <2>2, ApplyType
  <2>4. m.path \in Paths
    BY <2>2 DEF Details
  <2>5. CASE Suppressed(m.path)
    <3>1. Settle(FALSE, received, MarkPageMessage(page), <<>>)
          /\ silent' = silent \cup {m.path}
      BY <1>7, <2>5 DEF ReceiveDelete
    <3>2. silent' \subseteq Paths
      BY <1>2, <2>4, <3>1
    <3> QED
      BY <1>1, <1>2, <1>4, <2>1, <2>3, <3>1, <3>2, SettledReceiveType
  <2>6. CASE ~Suppressed(m.path)
    <3>1. Settle(TRUE, received + 1, MarkPageMessage(page), <<>>) /\ silent' = silent
      BY <1>7, <2>6 DEF ReceiveDelete
    <3> QED
      BY <1>1, <1>2, <1>4, <2>1, <2>3, <3>1, SettledReceiveType
  <2> QED
    BY <2>5, <2>6
<1>8. CASE ReceiveMtime
  <2>1. Receive("SettingSyncMtime") /\ NextTurn
        /\ Settle(TRUE, received + 1, MarkPageMessage(page), <<>>)
        /\ pending' = pending /\ silent' = silent /\ VaultTypeOK'
    BY <1>5, <1>8 DEF ReceiveMtime
  <2> QED
    BY <1>1, <1>2, <1>4, <2>1, SettledReceiveType
<1>9. CASE ReceiveRename
  <2>1. Receive("SettingSyncRename") /\ ApplyRename(m) /\ NextTurn
        /\ Settle(FALSE, received, MarkPageMessage(page), <<>>)
        /\ pending' = pending /\ silent' = silent
    BY <1>9 DEF ReceiveRename
  <2>2. m.old \in Paths /\ m.path \in Paths
    BY <2>1, HeadType, ReceiveType
  <2>3. VaultTypeOK'
    BY <1>3, <2>1, <2>2, ApplyType
  <2> QED
    BY <1>1, <1>2, <1>4, <2>1, <2>3, SettledReceiveType
<1>10. CASE ReceiveNeedUpload
  <2>1. Receive("SettingSyncNeedUpload") /\ NextTurn
        /\ UNCHANGED <<disk, events, edited>>
    BY <1>10 DEF ReceiveNeedUpload
  <2>2. m.path \in Paths
    BY <2>1, HeadType, ReceiveType DEF DetailTypes, Details
  <2>3. CASE Awaited(m.path)
    <3>1. /\ pending' = pending \cup {m.path}
          /\ echo' = PushModifyEcho(m.path, TRUE)
          /\ Settle(TRUE, received, MarkPageMessage(page), PushModifyMsgs(m.path, TRUE))
          /\ silent' = IF Pushes(m.path, TRUE) THEN silent ELSE silent \cup {m.path}
      BY <1>10, <2>3 DEF ReceiveNeedUpload
    <3>2. PushModifyMsgs(m.path, TRUE) \in Seq(ClientMsgs)
          /\ PushModifyEcho(m.path, TRUE)
                \in [Paths -> Contents \cup {DeletedMarker, NoEntry}]
      BY <1>3, <2>2, PushType
    <3>3. VaultTypeOK'
      BY <1>3, <2>1, <3>1, <3>2 DEF VaultTypeOK, EngineTypeOK
    <3>4. pending' \subseteq Paths /\ silent' \subseteq Paths
      BY <1>2, <2>2, <3>1
    <3> QED
      BY <1>1, <1>2, <1>4, <2>1, <3>1, <3>2, <3>3, <3>4, SettledReceiveType
  <2>4. CASE ~Awaited(m.path)
    <3>1. /\ Settle(TRUE, received + 1, MarkPageMessage(page), <<>>)
          /\ pending' = pending /\ echo' = echo /\ silent' = silent
      BY <1>10, <2>4 DEF ReceiveNeedUpload
    <3>2. VaultTypeOK'
      BY <1>5, <2>1, <3>1 DEF engineVars
    <3> QED
      BY <1>1, <1>2, <1>4, <2>1, <3>1, <3>2, SettledReceiveType
  <2> QED
    BY <2>3, <2>4
<1>11. CASE ReceivePage
  <2> DEFINE pg == [active |-> TRUE, index |-> m.index, total |-> m.total,
                    received |-> 0, last |-> m.last]
  <2>1. Receive("SettingSyncPage") /\ NextTurn /\ Settle(FALSE, received, pg, <<>>)
        /\ pending' = pending /\ silent' = silent /\ VaultTypeOK'
    BY <1>5, <1>11 DEF ReceivePage
  <2>2. pg \in PageType
    BY <2>1, HeadType, ReceiveType DEF PageType
  <2> HIDE DEF pg
  <2> QED
    BY <1>1, <1>2, <2>1, <2>2, SettledReceiveType
<1>12. CASE ReceiveModifyAck
  <2> DEFINE awaited == m.path \in pending
             rcv == IF awaited THEN received + 1 ELSE received
  <2>1. Receive("SettingModifyAck") /\ NextTurn /\ Settle(awaited, rcv, page, <<>>)
        /\ pending' \subseteq Paths /\ silent' = silent /\ VaultTypeOK'
    BY <1>2, <1>5, <1>12 DEF ReceiveModifyAck
  <2>2. rcv \in Nat /\ awaited \in BOOLEAN
    BY <1>2
  <2> HIDE DEF awaited, rcv
  <2> QED
    BY <1>1, <1>2, <1>4, <2>1, <2>2, SettledReceiveType
<1>13. CASE ReceiveEnd
  <2>1. Receive("SettingSyncEnd") /\ NextTurn /\ VaultTypeOK'
    BY <1>5, <1>13 DEF ReceiveEnd
  <2>2. m.count \in Nat /\ m.last \in Nat
    BY <2>1, HeadType, ReceiveType
  <2>3. /\ expected' = m.count /\ pendingLast' = m.last /\ gotEnd' = TRUE
        /\ complete' \in BOOLEAN /\ pagingStarted' \in BOOLEAN
        /\ toServer' = toServer \/ toServer' = Append(toServer, PageAck(-1))
        /\ received' = received /\ pending' = pending /\ page' = page
        /\ pageLastSeen' = pageLastSeen /\ silent' = silent
    <3>1. complete' \in BOOLEAN /\ pagingStarted' \in BOOLEAN
      BY <1>13 DEF ReceiveEnd
    <3> QED
      BY <1>13, <3>1 DEF ReceiveEnd
  <2>4. PageAck(-1) \in ClientMsgs /\ toServer \in Seq(ClientMsgs)
    BY DEF PageAck, ClientMsgs, TypeOK
  <2>5. toServer' \in Seq(ClientMsgs)
    BY <2>3, <2>4
  <2>6. CounterTypeOK'
    <3>1. CounterTypeOK
      BY TypeParts
    <3> QED
      BY <2>2, <2>3, <3>1 DEF CounterTypeOK
  <2>7. ChannelTypeOK' /\ ServerTypeOK'
    BY <2>1, <2>5, ReceiveType DEF ChannelTypeOK
  <2>8. TimeTypeOK'
    BY <2>1, <2>6, <2>7, TurnType
  <2> QED
    BY <2>1, <2>6, <2>7, <2>8, TypePartsNext
<1> QED
  BY <1>6, <1>7, <1>8, <1>9, <1>10, <1>11, <1>12, <1>13 DEF ClientReceives

\* A handler that fails keeps the echo cache in its type.
LEMMA FailedEchoType ==
    ASSUME VaultTypeOK, NEW m,
           m.type \in {"SettingSyncModify", "SettingSyncDelete", "SettingSyncRename"}
    PROVE  FailedEcho(m) \in [Paths -> Contents \cup {DeletedMarker, NoEntry}]
<1>1. echo \in [Paths -> Contents \cup {DeletedMarker, NoEntry}]
  BY DEF VaultTypeOK, EngineTypeOK
<1>2. FailedModifyEcho(m.path) \in [Paths -> Contents \cup {DeletedMarker, NoEntry}]
  BY <1>1 DEF FailedModifyEcho
<1>3. FailedRenameEcho(m.old) \in [Paths -> Contents \cup {DeletedMarker, NoEntry}]
  BY <1>1 DEF FailedRenameEcho
<1>4. FailedEcho(m) \in {FailedModifyEcho(m.path), echo, FailedRenameEcho(m.old)}
  BY DEF FailedEcho
<1> QED
  BY <1>1, <1>2, <1>3, <1>4

LEMMA Joined ==
    ASSUME NEW S, NEW a \in Seq(S), NEW b \in Seq(S)
    PROVE  a \o b \in Seq(S)
  OBVIOUS

\* A watcher event is turned into messages of the client.
LEMMA EventMsgsType ==
    ASSUME TypeOK, events # <<>>
    PROVE  /\ EventMsgs(Head(events)) \in Seq(ClientMsgs)
           /\ EventEcho(Head(events)) \in [Paths -> Contents \cup {DeletedMarker, NoEntry}]
           /\ Tail(events) \in Seq(Events)
<1> DEFINE e == Head(events)
           Caches == [Paths -> Contents \cup {DeletedMarker, NoEntry}]
<1>1. e \in Events /\ Tail(events) \in Seq(Events)
  BY DEF TypeOK
<1>2. VaultTypeOK /\ echo \in Caches
  BY TypeParts DEF VaultTypeOK, EngineTypeOK
<1>3. e.path \in Paths /\ e.kind \in {"Modified", "Deleted", "Moved"}
      /\ (e.kind = "Moved" => e.old \in Paths)
  BY <1>1 DEF Events
<1>4. /\ PushModifyMsgs(e.path, FALSE) \in Seq(ClientMsgs)
      /\ PushModifyEcho(e.path, FALSE) \in Caches
      /\ PushDeleteMsgs(e.path) \in Seq(ClientMsgs)
      /\ PushDeleteEcho(echo, e.path) \in Caches
  BY <1>2, <1>3, PushType
<1>5. CASE e.kind = "Moved"
  <2>1. PushDeleteMsgs(e.old) \in Seq(ClientMsgs)
        /\ PushDeleteEcho(PushModifyEcho(e.path, FALSE), e.old) \in Caches
    BY <1>2, <1>3, <1>4, <1>5, PushType
  <2>2. PushModifyMsgs(e.path, FALSE) \o PushDeleteMsgs(e.old) \in Seq(ClientMsgs)
    BY <1>4, <2>1, Joined
  <2>3. /\ EventMsgs(e) = PushModifyMsgs(e.path, FALSE) \o PushDeleteMsgs(e.old)
        /\ EventEcho(e) = PushDeleteEcho(PushModifyEcho(e.path, FALSE), e.old)
    BY <1>5 DEF EventMsgs, EventEcho
  <2> QED
    BY <1>1, <2>1, <2>2, <2>3
<1>6. CASE e.kind \in {"Modified", "Deleted"}
  <2>1. /\ EventMsgs(e) \in {PushModifyMsgs(e.path, FALSE), PushDeleteMsgs(e.path)}
        /\ EventEcho(e) \in {PushModifyEcho(e.path, FALSE), PushDeleteEcho(echo, e.path)}
    BY <1>6 DEF EventMsgs, EventEcho
  <2> QED
    BY <1>1, <1>4, <2>1
<1> QED
  BY <1>3, <1>5, <1>6

\* Losing the connection leaves counters and vault as they are, and empties
\* the channels.
LEMMA ConnectionLostType ==
    ASSUME TypeOK, ConnectionLost
    PROVE  /\ CounterTypeOK' /\ ChannelTypeOK' /\ ServerTypeOK'
           /\ phase' \in {"idle", "syncing", "live"} /\ cutOff' \subseteq Paths
           /\ disk' \in [Paths -> Contents \cup {Absent}] /\ edited' \subseteq Paths
<1>1. CounterTypeOK'
  BY DEF ConnectionLost, TypeOK, CounterTypeOK, PageType, sessionVars, countVars
<1>2. ChannelTypeOK'
  BY DEF ConnectionLost, ChannelTypeOK
<1>3. ServerTypeOK'
  BY DEF ConnectionLost, TypeOK, ServerTypeOK, boundVars
<1> QED
  BY <1>1, <1>2, <1>3 DEF ConnectionLost, TypeOK, EngineTypeOK

\* Counters, times and server of a step that leaves them alone.
LEMMA CountersKept == TypeOK /\ UNCHANGED sessionVars => CounterTypeOK'
  BY DEF TypeOK, CounterTypeOK, PageType, sessionVars, countVars

LEMMA ServerKept ==
    TypeOK /\ UNCHANGED <<srv, clock, pageVars, boundVars>> => ServerTypeOK'
  BY DEF TypeOK, ServerTypeOK, pageVars, boundVars

LEMMA TimesKept == TypeOK /\ UNCHANGED <<phase, timeVars>> => TimeTypeOK'
  BY DEF TypeOK, TimeTypeOK, timeVars

LEMMA VaultKept == TypeOK /\ UNCHANGED <<engineVars, events, edited>> => VaultTypeOK'
  BY DEF TypeOK, VaultTypeOK, EngineTypeOK, engineVars

\* The steps of the client outside the session's loop.
LEMMA OutsideType ==
    ASSUME TypeOK,
           \/ RequestSync \/ HandlerFails \/ LiveReceive \/ LiveHandlerFails
           \/ HandleWatchEvent \/ PushFails \/ Disconnect \/ Restart
    PROVE  TypeOK'
<1> DEFINE m == Head(toClient)
<1>1. VaultTypeOK /\ CounterTypeOK /\ ChannelTypeOK /\ ServerTypeOK /\ TimeTypeOK
  BY TypeParts
<1>2. CASE RequestSync
  <2>1. LocalSettings \in [Paths -> Contents \cup {Absent}] /\ lastTime \in Nat
    BY DEF LocalSettings, TypeOK, EngineTypeOK
  <2>2. [type |-> "SettingSync", last |-> lastTime, settings |-> LocalSettings]
            \in ClientMsgs
    BY <2>1 DEF ClientMsgs
  <2>3. ChannelTypeOK'
    BY <1>1, <1>2, <2>2 DEF RequestSync, ChannelTypeOK
  <2>4. CounterTypeOK'
    BY <1>2 DEF RequestSync, ResetCounters, NoPage, CounterTypeOK, PageType
  <2>5. VaultTypeOK'
    BY <1>2, VaultKept DEF RequestSync
  <2>6. ServerTypeOK'
    BY <1>1, <1>2 DEF RequestSync, ServerTypeOK, pageVars
  <2>7. TimeTypeOK'
    BY <1>1, <1>2 DEF RequestSync, TimeTypeOK, timeVars
  <2> QED
    BY <2>3, <2>4, <2>5, <2>6, <2>7, TypePartsNext
<1>3. CASE HandlerFails
  <2>1. m.type \in {"SettingSyncModify", "SettingSyncDelete", "SettingSyncRename"}
        /\ toClient # <<>> /\ toClient' = Tail(toClient)
    BY <1>3 DEF HandlerFails, Writes
  <2>2. VaultTypeOK'
    <3>1. FailedEcho(m) \in [Paths -> Contents \cup {DeletedMarker, NoEntry}]
      BY <1>1, <2>1, FailedEchoType
    <3> QED
      BY <1>1, <1>3, <3>1 DEF HandlerFails, VaultTypeOK, EngineTypeOK
  <2>3. ChannelTypeOK'
    BY <1>1, <1>3, <2>1, HeadType DEF HandlerFails, ChannelTypeOK
  <2>4. CounterTypeOK' /\ ServerTypeOK'
    BY <1>3, CountersKept, ServerKept DEF HandlerFails
  <2>5. TimeTypeOK'
    BY <1>1, <1>3 DEF HandlerFails, TimeTypeOK
  <2> QED
    BY <2>2, <2>3, <2>4, <2>5, TypePartsNext
<1>4. CASE LiveReceive
  <2>1. toClient # <<>> /\ toClient' = Tail(toClient) /\ toServer' = toServer
    BY <1>4 DEF LiveReceive
  <2>2. VaultTypeOK'
    <3>1. CASE m.type = "SettingSyncModify" /\ ApplyModify(m)
      <4>1. m \in Details
        BY <2>1, <3>1, HeadType DEF DetailTypes
      <4> QED
        BY <1>1, <3>1, <4>1, ApplyType
    <3>2. CASE m.type = "SettingSyncDelete" /\ ApplyDelete(m)
      <4>1. m \in Details
        BY <2>1, <3>2, HeadType DEF DetailTypes
      <4> QED
        BY <1>1, <3>2, <4>1, ApplyType
    <3>3. CASE UNCHANGED <<engineVars, events, edited>>
      BY <3>3, VaultKept
    <3> QED
      BY <1>4, <3>1, <3>2, <3>3 DEF LiveReceive
  <2>3. ChannelTypeOK'
    BY <1>1, <2>1, HeadType DEF ChannelTypeOK
  <2>4. CounterTypeOK' /\ ServerTypeOK' /\ TimeTypeOK'
    BY <1>4, CountersKept, ServerKept, TimesKept DEF LiveReceive
  <2> QED
    BY <2>2, <2>3, <2>4, TypePartsNext
<1>5. CASE LiveHandlerFails
  <2>1. m.type \in {"SettingSyncModify", "SettingSyncDelete", "SettingSyncRename"}
        /\ toClient # <<>> /\ toClient' = Tail(toClient)
    BY <1>5 DEF LiveHandlerFails
  <2>2. VaultTypeOK'
    <3>1. FailedEcho(m) \in [Paths -> Contents \cup {DeletedMarker, NoEntry}]
      BY <1>1, <2>1, FailedEchoType
    <3> QED
      BY <1>1, <1>5, <3>1 DEF LiveHandlerFails, VaultTypeOK, EngineTypeOK
  <2>3. ChannelTypeOK'
    BY <1>1, <1>5, <2>1, HeadType DEF LiveHandlerFails, ChannelTypeOK
  <2>4. CounterTypeOK' /\ ServerTypeOK' /\ TimeTypeOK'
    BY <1>5, CountersKept, ServerKept, TimesKept DEF LiveHandlerFails
  <2> QED
    BY <2>2, <2>3, <2>4, TypePartsNext
<1>6. CASE HandleWatchEvent
  <2>1. /\ EventMsgs(Head(events)) \in Seq(ClientMsgs)
        /\ EventEcho(Head(events)) \in [Paths -> Contents \cup {DeletedMarker, NoEntry}]
        /\ Tail(events) \in Seq(Events)
    BY <1>6, EventMsgsType DEF HandleWatchEvent
  <2>2. ChannelTypeOK'
    <3>1. toServer \o EventMsgs(Head(events)) \in Seq(ClientMsgs)
      BY <1>1, <2>1 DEF ChannelTypeOK
    <3> QED
      BY <1>1, <1>6, <3>1 DEF HandleWatchEvent, ChannelTypeOK
  <2>3. VaultTypeOK'
    BY <1>1, <1>6, <2>1 DEF HandleWatchEvent, VaultTypeOK, EngineTypeOK
  <2>4. CounterTypeOK' /\ ServerTypeOK' /\ TimeTypeOK'
    BY <1>6, CountersKept, ServerKept, TimesKept DEF HandleWatchEvent
  <2> QED
    BY <2>2, <2>3, <2>4, TypePartsNext
<1>7. CASE PushFails
  <2> DEFINE e == Head(events)
  <2>1. e \in Events /\ Tail(events) \in Seq(Events)
    BY <1>7, EventMsgsType DEF PushFails
  <2>2. echo \in [Paths -> Contents \cup {DeletedMarker, NoEntry}]
    BY <1>1 DEF VaultTypeOK, EngineTypeOK
  <2>3. echo' \in [Paths -> Contents \cup {DeletedMarker, NoEntry}]
    <3>1. echo' \in FailedPushEcho(e)
      BY <1>7 DEF PushFails
    <3>2. e.kind \in {"Modified", "Deleted", "Moved"}
      BY <2>1 DEF Events
    <3>3. ASSUME NEW cache \in [Paths -> Contents \cup {DeletedMarker, NoEntry}],
                 NEW p
          PROVE  [cache EXCEPT ![p] = NoEntry]
                    \in [Paths -> Contents \cup {DeletedMarker, NoEntry}]
      OBVIOUS
    <3>4. CASE e.kind = "Modified"
      BY <2>2, <3>1, <3>4 DEF FailedPushEcho
    <3>5. CASE e.kind = "Deleted"
      <4>1. echo' = [echo EXCEPT ![e.path] = NoEntry]
        BY <3>1, <3>5 DEF FailedPushEcho
      <4> QED
        BY <2>2, <3>3, <4>1
    <3>6. CASE e.kind = "Moved"
      <4>1. \/ echo' = echo
            \/ echo' = [PushModifyEcho(e.path, FALSE) EXCEPT ![e.old] = NoEntry]
        BY <3>1, <3>6 DEF FailedPushEcho
      <4>2. e.path \in Paths
        BY <2>1, <3>6 DEF Events
      <4>3. PushModifyEcho(e.path, FALSE)
               \in [Paths -> Contents \cup {DeletedMarker, NoEntry}]
        BY <2>2, <4>2 DEF PushModifyEcho, Pushes, Sendable
      <4> QED
        BY <2>2, <3>3, <4>1, <4>3
    <3> QED
      BY <3>2, <3>4, <3>5, <3>6
  <2>4. VaultTypeOK'
    BY <1>1, <1>7, <2>1, <2>3 DEF PushFails, VaultTypeOK, EngineTypeOK
  <2>5. UNCHANGED <<sessionVars, pageVars, boundVars, phase, timeVars, toServer,
                    toClient, srv, clock>>
    BY <1>7 DEF PushFails
  <2>6. CounterTypeOK' /\ ServerTypeOK' /\ TimeTypeOK'
    BY <2>5, CountersKept, ServerKept, TimesKept
  <2>7. ChannelTypeOK'
    BY <1>1, <2>5 DEF ChannelTypeOK
  <2> QED
    BY <2>4, <2>6, <2>7, TypePartsNext
<1>8. CASE Disconnect
  <2>1. ConnectionLost /\ saved' \in {lastTime, saved} /\ lastTime' = lastTime
        /\ echo' = echo /\ events' = events
    BY <1>8 DEF Disconnect
  <2>2. VaultTypeOK'
    BY <1>1, <2>1, ConnectionLostType DEF VaultTypeOK, EngineTypeOK
  <2>3. TimeTypeOK'
    BY <1>1, <2>1, ConnectionLostType DEF TimeTypeOK
  <2> QED
    BY <2>1, <2>2, <2>3, ConnectionLostType, TypePartsNext
<1>9. CASE Restart
  <2>1. ConnectionLost /\ saved' = saved /\ lastTime' = saved
        /\ echo' = [p \in Paths |-> NoEntry] /\ events' = <<>>
    BY <1>9 DEF Restart
  <2>2. VaultTypeOK'
    BY <1>1, <2>1, ConnectionLostType DEF VaultTypeOK, EngineTypeOK
  <2>3. TimeTypeOK'
    BY <1>1, <2>1, ConnectionLostType DEF TimeTypeOK
  <2> QED
    BY <2>1, <2>2, <2>3, ConnectionLostType, TypePartsNext
<1> QED
  BY <1>2, <1>3, <1>4, <1>5, <1>6, <1>7, <1>8, <1>9

\* Messages the server sends.
LEMMA MessageTypes ==
    ASSUME TypeOK
    PROVE  /\ \A p \in Paths : Detail(p) \in ServerMsgs
           /\ \A c, t \in Nat :
                [type |-> "SettingSyncEnd", count |-> c, last |-> t] \in ServerMsgs
           /\ \A i, t \in Nat, l \in BOOLEAN :
                [type |-> "SettingSyncPage", index |-> i, total |-> t, last |-> l]
                    \in ServerMsgs
           /\ \A p, q \in Paths :
                [type |-> "SettingSyncRename", old |-> p, path |-> q] \in ServerMsgs
           /\ \A p \in Paths : [type |-> "SettingModifyAck", path |-> p] \in ServerMsgs
           /\ \A p \in Paths, c \in Sendable \cup {Absent} : Change(p, c) \in ServerMsgs
<1>1. ASSUME NEW p \in Paths PROVE Detail(p) \in ServerMsgs
  <2>1. due[p] \in Decisions
    BY DEF TypeOK
  <2>2. Detail(p) \in Details
    BY <2>1 DEF Decisions, Detail, Details
  <2> QED
    BY <2>2 DEF ServerMsgs
<1>2. ASSUME NEW p \in Paths, NEW c \in Sendable \cup {Absent}
      PROVE  Change(p, c) \in ServerMsgs
  <2>1. Change(p, c) \in Details
    BY DEF Change, Details, DetailTypes
  <2> QED
    BY <2>1 DEF ServerMsgs
<1> QED
  BY <1>1, <1>2 DEF ServerMsgs

\* What a change adds to the channel of the server.
LEMMA BroadcastType ==
    ASSUME TypeOK, NEW channel \in Seq(ServerMsgs), NEW m \in ServerMsgs,
           MayBroadcast(channel, m)
    PROVE  toClient' \in Seq(ServerMsgs) /\ broadcasts' \in Nat
<1>1. broadcasts \in Nat
  BY DEF TypeOK
<1>2. CASE toClient' = channel /\ UNCHANGED broadcasts
  BY <1>1, <1>2
<1>3. CASE broadcasts' = broadcasts + 1 /\ toClient' = Append(channel, m)
  BY <1>1, <1>3
<1> QED
  BY <1>2, <1>3 DEF MayBroadcast

\* The server's copy after a change.
LEMMA StoreType ==
    ASSUME TypeOK, NEW p \in Paths, NEW c \in Sendable \cup {Absent}, Store(p, c)
    PROVE  /\ srv' \in [Paths -> [content : Sendable \cup {Absent}, time : Nat]]
           /\ clock' \in Nat
<1>1. clock + 1 \in Nat /\ srv \in [Paths -> [content : Sendable \cup {Absent}, time : Nat]]
  BY DEF TypeOK
<1>2. [content |-> c, time |-> clock + 1] \in [content : Sendable \cup {Absent}, time : Nat]
  BY <1>1
<1> QED
  BY <1>1, <1>2 DEF Store

\* A step of the server that changes its copy, and what it knows of the client's
\* edits.
LEMMA ServerMoved ==
    ASSUME ServerTypeOK, UNCHANGED <<pageVars, sessions>>,
           srv' \in [Paths -> [content : Sendable \cup {Absent}, time : Nat]],
           clock' \in Nat, broadcasts' \in Nat, changes' \in Nat
    PROVE  ServerTypeOK'
  BY DEF ServerTypeOK, pageVars

LEMMA EditedMoved ==
    ASSUME VaultTypeOK, UNCHANGED <<engineVars, events>>, edited' \subseteq edited
    PROVE  VaultTypeOK'
  BY DEF VaultTypeOK, EngineTypeOK, engineVars

\* Numbers of files are numbers.
LEMMA SizeType ==
    ASSUME NEW S \in SUBSET Paths
    PROVE  Cardinality(S) \in Nat
  BY SettingSyncAssumption, FS_Subset, FS_CardinalityType

\* The next message to the server, with the fields of its type.
LEMMA RequestType ==
    ASSUME TypeOK, NEW type, FromClient(type)
    PROVE  LET m == Head(toServer)
           IN /\ toServer # <<>> /\ m.type = type /\ toServer' \in Seq(ClientMsgs)
              /\ m.type = "SettingModify" => m.path \in Paths /\ m.content \in Sendable
              /\ m.type = "SettingDelete" => m.path \in Paths
              /\ UNCHANGED <<engineVars, phase, sessionVars, timeVars, events>>
<1>1. toServer # <<>> /\ Head(toServer).type = type /\ toServer' = Tail(toServer)
  BY DEF FromClient
<1>2. Head(toServer) \in ClientMsgs /\ toServer' \in Seq(ClientMsgs)
  BY <1>1 DEF TypeOK
<1>3. UNCHANGED <<engineVars, phase, sessionVars, timeVars, events>>
  BY DEF FromClient
<1> QED
  BY <1>1, <1>2, <1>3 DEF ClientMsgs

\* The steps of the server.
LEMMA ServerType == TypeOK /\ ServerSteps => TypeOK'
<1> SUFFICES ASSUME TypeOK, ServerSteps PROVE TypeOK'
  OBVIOUS
<1>1. VaultTypeOK /\ CounterTypeOK /\ ChannelTypeOK /\ ServerTypeOK /\ TimeTypeOK
  BY TypeParts
<1> DEFINE m == Head(toServer)
<1>2. CASE ServerAnswersSync
  <2>1. PICK verdict \in [Paths -> DetailTypes \cup {"InSync"}] :
            /\ \A p \in Paths : verdict[p] \in Verdicts(p, m.last, m.settings[p])
            /\ owed' = { p \in Paths : verdict[p] # "InSync" }
            /\ due' = [p \in Paths |->
                         IF verdict[p] = "InSync" THEN due[p]
                         ELSE [type |-> verdict[p], content |-> srv[p].content]]
    BY <1>2 DEF ServerAnswersSync
  <2>2. FromClient("SettingSync")
        /\ toClient' = Append(toClient, [type |-> "SettingSyncEnd",
                                         count |-> Cardinality(owed'), last |-> clock])
        /\ UNCHANGED <<srv, clock, onPage, pageNo, boundVars, edited>>
    BY <1>2 DEF ServerAnswersSync
  <2>3. ASSUME NEW p \in Paths, verdict[p] # "InSync"
        PROVE  [type |-> verdict[p], content |-> srv[p].content] \in Decisions
    <3>1. verdict[p] = "SettingSyncModify" => srv[p].content # Absent
      BY <2>1 DEF Verdicts
    <3>2. srv[p].content \in Sendable \cup {Absent} /\ verdict[p] \in DetailTypes
      BY <1>1, <2>3 DEF ServerTypeOK
    <3> QED
      BY <3>1, <3>2 DEF Decisions
  <2>4. due' \in [Paths -> Decisions] /\ owed' \subseteq Paths
    BY <1>1, <2>1, <2>3 DEF ServerTypeOK
  <2>5. ServerTypeOK'
    BY <1>1, <2>2, <2>4 DEF ServerTypeOK, boundVars
  <2>6. Cardinality(owed') \in Nat /\ clock \in Nat
    BY <1>1, <2>4, SizeType DEF ServerTypeOK
  <2>7. ChannelTypeOK'
    BY <1>1, <2>2, <2>6, MessageTypes, RequestType DEF ChannelTypeOK
  <2>8. VaultTypeOK' /\ CounterTypeOK' /\ TimeTypeOK'
    BY <2>2, RequestType, VaultKept, CountersKept, TimesKept
  <2> QED
    BY <2>5, <2>7, <2>8, TypePartsNext
<1>3. CASE ServerStartsPage
  <2>1. FromClient("SettingSyncPageAck") /\ UNCHANGED <<srv, clock, due, boundVars, edited>>
    BY <1>3 DEF ServerStartsPage
  <2>2. /\ owed' \subseteq Paths /\ onPage' \subseteq Paths
        /\ pageNo' \in Nat \cup {-1} /\ toClient' \in Seq(ServerMsgs)
    <3>1. CASE m.index = pageNo /\ owed # {}
      <4>1. PICK batch \in SUBSET owed :
              /\ onPage' = batch
              /\ owed' = owed \ batch
              /\ pageNo' = pageNo + 1
              /\ toClient' = Append(toClient,
                    [type |-> "SettingSyncPage", index |-> pageNo + 1,
                     total |-> Cardinality(batch), last |-> batch = owed])
        BY <1>3, <3>1 DEF ServerStartsPage
      <4>2. pageNo + 1 \in Nat /\ owed \subseteq Paths
        BY <1>1 DEF ServerTypeOK
      <4>3. Cardinality(batch) \in Nat
        BY <4>2, SizeType
      <4>4. [type |-> "SettingSyncPage", index |-> pageNo + 1,
             total |-> Cardinality(batch), last |-> batch = owed] \in ServerMsgs
        BY <4>2, <4>3, MessageTypes
      <4> QED
        BY <1>1, <4>1, <4>2, <4>4 DEF ChannelTypeOK
    <3>2. CASE ~(m.index = pageNo /\ owed # {})
      BY <1>1, <1>3, <3>2 DEF ServerStartsPage, ChannelTypeOK, ServerTypeOK
    <3> QED
      BY <3>1, <3>2
  <2>3. ServerTypeOK'
    BY <1>1, <2>1, <2>2 DEF ServerTypeOK, boundVars
  <2>4. ChannelTypeOK'
    BY <2>1, <2>2, RequestType DEF ChannelTypeOK
  <2>5. VaultTypeOK' /\ CounterTypeOK' /\ TimeTypeOK'
    BY <2>1, RequestType, VaultKept, CountersKept, TimesKept
  <2> QED
    BY <2>3, <2>4, <2>5, TypePartsNext
<1>4. CASE ServerSendsDetail
  <2>1. PICK p \in onPage :
           /\ onPage' = onPage \ {p}
           /\ toClient' = Append(toClient, Detail(p))
           /\ UNCHANGED <<engineVars, phase, sessionVars, timeVars, events, toServer,
                          srv, clock, due, owed, pageNo, boundVars, edited>>
    BY <1>4 DEF ServerSendsDetail
  <2>2. Detail(p) \in ServerMsgs
    BY <1>1, MessageTypes DEF ServerTypeOK
  <2>3. ChannelTypeOK'
    BY <1>1, <2>1, <2>2 DEF ChannelTypeOK
  <2>4. ServerTypeOK'
    BY <1>1, <2>1 DEF ServerTypeOK, boundVars
  <2>5. VaultTypeOK' /\ CounterTypeOK' /\ TimeTypeOK'
    BY <2>1, VaultKept, CountersKept, TimesKept
  <2> QED
    BY <2>3, <2>4, <2>5, TypePartsNext
<1>5. CASE ServerAcceptsModify
  <2> DEFINE ack == [type |-> "SettingModifyAck", path |-> m.path]
  <2>1. FromClient("SettingModify") /\ UNCHANGED <<pageVars, sessions, changes>>
        /\ edited' \subseteq edited
    BY <1>5 DEF ServerAcceptsModify
  <2>2. Store(m.path, m.content)
        /\ MayBroadcast(Append(toClient, ack), Change(m.path, m.content))
    BY <1>5, Zenon DEF ServerAcceptsModify
  <2>3. m.path \in Paths /\ m.content \in Sendable
    BY <2>1, RequestType
  <2>4. ack \in ServerMsgs /\ Change(m.path, m.content) \in ServerMsgs
    BY <2>3, MessageTypes
  <2>5. Append(toClient, ack) \in Seq(ServerMsgs)
    BY <1>1, <2>4 DEF ChannelTypeOK
  <2> HIDE DEF ack
  <2>6. toClient' \in Seq(ServerMsgs) /\ broadcasts' \in Nat
    BY <2>2, <2>4, <2>5, BroadcastType
  <2>7. ChannelTypeOK'
    BY <2>1, <2>6, RequestType DEF ChannelTypeOK
  <2>8. /\ srv' \in [Paths -> [content : Sendable \cup {Absent}, time : Nat]]
        /\ clock' \in Nat
    BY <2>2, <2>3, StoreType
  <2>9. changes' \in Nat
    BY <1>1, <2>1 DEF ServerTypeOK
  <2>10. ServerTypeOK'
    BY <1>1, <2>1, <2>6, <2>8, <2>9, ServerMoved
  <2>11. CounterTypeOK' /\ TimeTypeOK'
    BY <2>1, RequestType, CountersKept, TimesKept
  <2>12. VaultTypeOK'
    BY <1>1, <2>1, RequestType, EditedMoved
  <2> QED
    BY <2>7, <2>10, <2>11, <2>12, TypePartsNext
<1>6. CASE ServerAcceptsDelete
  <2>1. FromClient("SettingDelete") /\ UNCHANGED <<pageVars, sessions, changes>>
        /\ edited' = IF disk[m.path] = Absent THEN edited \ {m.path} ELSE edited
    BY <1>6 DEF ServerAcceptsDelete
  <2>2. m.path \in Paths
    BY <2>1, RequestType
  <2>3. \/ Store(m.path, Absent) /\ MayBroadcast(toClient, Change(m.path, Absent))
        \/ UNCHANGED <<srv, clock, toClient, broadcasts>>
    BY <1>6 DEF ServerAcceptsDelete
  <2>4. /\ toClient' \in Seq(ServerMsgs) /\ broadcasts' \in Nat /\ clock' \in Nat
        /\ srv' \in [Paths -> [content : Sendable \cup {Absent}, time : Nat]]
    <3>1. CASE Store(m.path, Absent) /\ MayBroadcast(toClient, Change(m.path, Absent))
      <4>1. Change(m.path, Absent) \in ServerMsgs
        BY <2>2, MessageTypes
      <4> QED
        BY <1>1, <2>2, <3>1, <4>1, StoreType, BroadcastType DEF ChannelTypeOK
    <3>2. CASE UNCHANGED <<srv, clock, toClient, broadcasts>>
      BY <1>1, <3>2 DEF ChannelTypeOK, ServerTypeOK
    <3> QED
      BY <2>3, <3>1, <3>2
  <2>5. ChannelTypeOK'
    BY <2>1, <2>4, RequestType DEF ChannelTypeOK
  <2>6. ServerTypeOK'
    BY <1>1, <2>1, <2>4 DEF ServerTypeOK, pageVars
  <2>7. CounterTypeOK' /\ TimeTypeOK'
    BY <2>1, RequestType, CountersKept, TimesKept
  <2>8. VaultTypeOK'
    BY <1>1, <2>1, RequestType DEF VaultTypeOK, EngineTypeOK, engineVars
  <2> QED
    BY <2>5, <2>6, <2>7, <2>8, TypePartsNext
<1> QED
  BY <1>2, <1>3, <1>4, <1>5, <1>6 DEF ServerSteps

\* The user and the other devices.
LEMMA ChangesType == TypeOK /\ Changes => TypeOK'
<1> SUFFICES ASSUME TypeOK, Changes PROVE TypeOK'
  OBVIOUS
<1>1. VaultTypeOK /\ CounterTypeOK /\ ChannelTypeOK /\ ServerTypeOK /\ TimeTypeOK
  BY TypeParts
<1>2. ASSUME NEW p \in Paths, NEW c \in Contents \cup {Absent}, UserChanges(p, c)
      PROVE  TypeOK'
  <2>1. events' \in Seq(Events)
    <3>1. Written(p) \in Seq(Events) /\ Removed(p) \in Seq(Events)
      BY EventTypes
    <3>2. events' = events \o Written(p) \/ events' = events \o Removed(p)
      BY <1>2 DEF UserChanges
    <3> QED
      BY <1>1, <3>1, <3>2, EventsGrow DEF VaultTypeOK
  <2>2. VaultTypeOK'
    BY <1>1, <1>2, <2>1 DEF UserChanges, VaultTypeOK, EngineTypeOK
  <2>3. CounterTypeOK' /\ TimeTypeOK'
    BY <1>2, CountersKept, TimesKept DEF UserChanges
  <2>4. ChannelTypeOK'
    BY <1>1, <1>2 DEF UserChanges, ChannelTypeOK
  <2>5. ServerTypeOK'
    BY <1>1, <1>2 DEF UserChanges, Tick, ServerTypeOK, pageVars
  <2> QED
    BY <2>2, <2>3, <2>4, <2>5, TypePartsNext
<1>3. ASSUME NEW p \in Paths, NEW q \in Paths, UserRenames(p, q)
      PROVE  TypeOK'
  <2>1. events' \in Seq(Events)
    BY <1>1, <1>3, EventTypes, EventsGrow DEF UserRenames, VaultTypeOK
  <2>2. disk[p] \in Contents \cup {Absent}
    BY <1>1 DEF VaultTypeOK, EngineTypeOK
  <2>3. VaultTypeOK'
    BY <1>1, <1>3, <2>1, <2>2 DEF UserRenames, VaultTypeOK, EngineTypeOK
  <2>4. CounterTypeOK' /\ TimeTypeOK'
    BY <1>3, CountersKept, TimesKept DEF UserRenames
  <2>5. ChannelTypeOK'
    BY <1>1, <1>3 DEF UserRenames, ChannelTypeOK
  <2>6. ServerTypeOK'
    BY <1>1, <1>3 DEF UserRenames, Tick, ServerTypeOK, pageVars
  <2> QED
    BY <2>3, <2>4, <2>5, <2>6, TypePartsNext
<1>4. ASSUME NEW p \in Paths, NEW c \in Sendable \cup {Absent}, RemoteChanges(p, c)
      PROVE  TypeOK'
  <2>1. Change(p, c) \in ServerMsgs
    BY MessageTypes
  <2>2. toClient' \in Seq(ServerMsgs) /\ broadcasts' \in Nat
    BY <1>1, <1>4, <2>1, BroadcastType DEF RemoteChanges, ChannelTypeOK
  <2>3. ServerTypeOK'
    BY <1>1, <1>4, <2>2, StoreType DEF RemoteChanges, Tick, ServerTypeOK, pageVars
  <2>4. ChannelTypeOK'
    BY <1>1, <1>4, <2>2 DEF RemoteChanges, ChannelTypeOK
  <2>5. VaultTypeOK' /\ CounterTypeOK' /\ TimeTypeOK'
    BY <1>4, VaultKept, CountersKept, TimesKept DEF RemoteChanges
  <2> QED
    BY <2>3, <2>4, <2>5, TypePartsNext
<1>5. ASSUME NEW p \in Paths, NEW q \in Paths, RemoteRenames(p, q)
      PROVE  TypeOK'
  <2>1. [type |-> "SettingSyncRename", old |-> p, path |-> q] \in ServerMsgs
    BY MessageTypes
  <2>2. toClient' \in Seq(ServerMsgs) /\ broadcasts' \in Nat
    BY <1>1, <1>5, <2>1, BroadcastType DEF RemoteRenames, ChannelTypeOK
  <2>3. srv[p].content \in Sendable \cup {Absent} /\ clock + 1 \in Nat
    BY <1>1 DEF ServerTypeOK
  <2>4. /\ srv' \in [Paths -> [content : Sendable \cup {Absent}, time : Nat]]
        /\ clock' \in Nat
    BY <1>1, <1>5, <2>3 DEF RemoteRenames, ServerTypeOK
  <2>5. ServerTypeOK'
    <3>1. changes' \in Nat
      BY <1>1, <1>5 DEF RemoteRenames, Tick, ServerTypeOK
    <3>2. UNCHANGED <<pageVars, sessions>>
      BY <1>5 DEF RemoteRenames
    <3> QED
      BY <1>1, <2>2, <2>4, <3>1, <3>2, ServerMoved
  <2>6. ChannelTypeOK'
    BY <1>1, <1>5, <2>2 DEF RemoteRenames, ChannelTypeOK
  <2>7. VaultTypeOK' /\ CounterTypeOK' /\ TimeTypeOK'
    BY <1>5, VaultKept, CountersKept, TimesKept DEF RemoteRenames
  <2> QED
    BY <2>5, <2>6, <2>7, TypePartsNext
<1> QED
  BY <1>2, <1>3, <1>4, <1>5 DEF Changes

\* The types hold initially.
LEMMA TypeInit == Init => TypeOK
<1> SUFFICES ASSUME Init PROVE TypeOK
  OBVIOUS
<1>1. EngineTypeOK
  BY DEF Init, EngineTypeOK
<1>2. srv \in [Paths -> [content : Sendable \cup {Absent}, time : Nat]]
  <2> DEFINE First == { [content |-> c, time |-> 1] : c \in Sendable }
                      \cup { [content |-> Absent, time |-> 0] }
  <2>1. First \subseteq [content : Sendable \cup {Absent}, time : Nat]
    OBVIOUS
  <2>2. srv \in [Paths -> First]
    BY DEF Init
  <2> HIDE DEF First
  <2> QED
    BY <2>1, <2>2
<1>3. page \in [active : BOOLEAN, index : Nat, total : Nat, received : Nat,
               last : BOOLEAN]
  BY DEF Init, NoPage
<1>4. toServer \in Seq(ClientMsgs) /\ toClient \in Seq(ServerMsgs) /\ events \in Seq(Events)
  BY DEF Init
<1>5. due \in [Paths -> Decisions]
  <2>1. [type |-> "SettingSyncMtime", content |-> Absent] \in Decisions
    BY DEF Decisions, DetailTypes
  <2> QED
    BY <2>1 DEF Init
<1>6. edited \subseteq Paths
  BY DEF Init
<1> QED
  BY <1>1, <1>2, <1>3, <1>4, <1>5, <1>6 DEF Init, TypeOK

\* Every variable stays in its type, whatever the bounds, whatever fails and
\* whatever the server broadcasts (the handlers of setting.rs and the loops of
\* process_setting_sync_messages and run_continuous).
THEOREM TypeCorrect == Spec => []TypeOK
<1>1. TypeOK /\ [Next]_vars => TypeOK'
  <2> SUFFICES ASSUME TypeOK, [Next]_vars PROVE TypeOK'
    OBVIOUS
  <2>1. CASE UNCHANGED vars
    <3>1. /\ UNCHANGED <<engineVars, events, edited>> /\ UNCHANGED sessionVars
          /\ UNCHANGED <<srv, clock, pageVars, boundVars>>
          /\ UNCHANGED <<phase, timeVars>> /\ UNCHANGED <<toServer, toClient>>
      BY <2>1 DEF vars
    <3>2. ChannelTypeOK'
      BY <3>1 DEF TypeOK, ChannelTypeOK
    <3> QED
      BY <3>1, <3>2, VaultKept, CountersKept, ServerKept, TimesKept, TypePartsNext
  <2> QED
    BY <2>1, ClientType, OutsideType, ServerType, ChangesType DEF Next
<1> QED
  BY <1>1, TypeInit, PTL DEF Spec

---------------------------------------------------------------------------
(* Channels: what Append, Tail and concatenation do to their messages.     *)

\* The types of the messages of a channel.
Kinds(channel) == { channel[i].type : i \in 1..Len(channel) }

LEMMA TailShift ==
    ASSUME NEW S, NEW s \in Seq(S), s # <<>>
    PROVE  /\ Tail(s) \in Seq(S) /\ Head(s) = s[1] /\ Head(s) \in S
           /\ Len(s) \in Nat \ {0} /\ Len(Tail(s)) = Len(s) - 1
           /\ \A i \in 1..Len(Tail(s)) : Tail(s)[i] = s[i + 1] /\ i + 1 \in 1..Len(s)
  OBVIOUS

LEMMA AppendShift ==
    ASSUME NEW S, NEW s \in Seq(S), NEW m \in S
    PROVE  LET t == Append(s, m)
           IN /\ Len(s) \in Nat /\ Len(t) = Len(s) + 1 /\ t[Len(s) + 1] = m
              /\ \A i \in 1..Len(s) : t[i] = s[i]
              /\ \A i \in 1..Len(t) : i \in 1..Len(s) \/ i = Len(s) + 1
  OBVIOUS

LEMMA JoinShift ==
    ASSUME NEW S, NEW s \in Seq(S), NEW t \in Seq(S), NEW i \in 1..Len(s \o t)
    PROVE  \/ i \in 1..Len(s) /\ (s \o t)[i] = s[i]
           \/ i - Len(s) \in 1..Len(t) /\ (s \o t)[i] = t[i - Len(s)]
<1>1. Len(s) \in Nat /\ Len(t) \in Nat /\ Len(s \o t) = Len(s) + Len(t)
  OBVIOUS
<1>2. CASE i <= Len(s)
  BY <1>1, <1>2
<1>3. CASE Len(s) < i
  BY <1>1, <1>3
<1> QED
  BY <1>1, <1>2, <1>3

\* Taking a message off adds none.
LEMMA TailLess ==
    ASSUME NEW S, NEW s \in Seq(S), s # <<>>
    PROVE  Kinds(Tail(s)) \subseteq Kinds(s) /\ PushesOf(Tail(s)) \subseteq PushesOf(s)
  BY TailShift DEF Kinds, PushesOf

\* Appending one adds that one.
LEMMA AppendMore ==
    ASSUME NEW S, NEW s \in Seq(S), NEW m \in S
    PROVE  /\ Kinds(Append(s, m)) \subseteq Kinds(s) \cup {m.type}
           /\ PushesOf(Append(s, m)) \subseteq
                 PushesOf(s) \cup (IF m.type \in {"SettingModify", "SettingModifyAck"}
                                   THEN {m.path} ELSE {})
<1> DEFINE t == Append(s, m)
<1>1. /\ Len(s) \in Nat /\ Len(t) = Len(s) + 1 /\ t[Len(s) + 1] = m
      /\ \A i \in 1..Len(s) : t[i] = s[i]
      /\ \A i \in 1..Len(t) : i \in 1..Len(s) \/ i = Len(s) + 1
  BY AppendShift
<1> HIDE DEF t
<1> QED
  BY <1>1 DEF Kinds, PushesOf, t

\* Joining two adds those of the second.
LEMMA JoinMore ==
    ASSUME NEW S, NEW s \in Seq(S), NEW t \in Seq(S)
    PROVE  /\ Kinds(s \o t) \subseteq Kinds(s) \cup Kinds(t)
           /\ PushesOf(s \o t) \subseteq PushesOf(s) \cup PushesOf(t)
<1> DEFINE u == s \o t
<1>1. \A i \in 1..Len(u) : \/ i \in 1..Len(s) /\ u[i] = s[i]
                           \/ i - Len(s) \in 1..Len(t) /\ u[i] = t[i - Len(s)]
  BY JoinShift
<1> HIDE DEF u
<1>2. Kinds(u) \subseteq Kinds(s) \cup Kinds(t)
  BY <1>1 DEF Kinds
<1>3. PushesOf(u) \subseteq PushesOf(s) \cup PushesOf(t)
  BY <1>1 DEF PushesOf
<1> QED
  BY <1>2, <1>3 DEF u

\* The request and SettingSyncEnd are messages of their kinds.
LEMMA AskingKind ==
    /\ Asking <=> "SettingSync" \in Kinds(toServer)
    /\ Answering <=> "SettingSyncEnd" \in Kinds(toClient)
  BY DEF Asking, Answering, Kinds

LEMMA AskingKindNext ==
    /\ Asking' <=> "SettingSync" \in Kinds(toServer')
    /\ Answering' <=> "SettingSyncEnd" \in Kinds(toClient')
  BY DEF Asking, Answering, Kinds

\* A detail appended to a channel puts its path in flight, and keeps the details
\* apart if that path was not there.
LEMMA AppendDetail ==
    ASSUME NEW S, NEW s \in Seq(S), NEW d \in S, d.type \in DetailTypes
    PROVE  /\ FlightPaths(Append(s, d)) = FlightPaths(s) \cup {d.path}
           /\ Distinct(s) /\ d.path \notin FlightPaths(s) => Distinct(Append(s, d))
<1> DEFINE t == Append(s, d)
<1>1. /\ Len(t) = Len(s) + 1 /\ t[Len(s) + 1] = d /\ Len(s) \in Nat
      /\ \A i \in 1..Len(s) : t[i] = s[i]
  BY AppendShift
<1> HIDE DEF t
<1>2. Flight(t) = Flight(s) \cup {Len(s) + 1}
  BY <1>1 DEF Flight
<1>3. \A i \in Flight(s) : t[i] = s[i] /\ i # Len(s) + 1
  BY <1>1 DEF Flight
<1>4. FlightPaths(t) = FlightPaths(s) \cup {d.path}
  BY <1>1, <1>2, <1>3 DEF FlightPaths
<1>5. Distinct(s) /\ d.path \notin FlightPaths(s) => Distinct(t)
  BY <1>1, <1>2, <1>3 DEF Distinct, FlightPaths
<1> QED
  BY <1>4, <1>5 DEF t

\* Any other message appended leaves the details in flight as they are.
LEMMA AppendOther ==
    ASSUME NEW S, NEW s \in Seq(S), NEW m \in S, m.type \notin DetailTypes
    PROVE  /\ FlightPaths(Append(s, m)) = FlightPaths(s)
           /\ Distinct(s) => Distinct(Append(s, m))
<1> DEFINE t == Append(s, m)
<1>1. /\ Len(t) = Len(s) + 1 /\ t[Len(s) + 1] = m /\ Len(s) \in Nat
      /\ \A i \in 1..Len(s) : t[i] = s[i]
  BY AppendShift
<1> HIDE DEF t
<1>2. Flight(t) = Flight(s) /\ \A i \in Flight(s) : t[i] = s[i]
  BY <1>1 DEF Flight
<1> QED
  BY <1>2 DEF t, FlightPaths, Distinct

\* The details of the tail are those of the channel, one place further on.
LEMMA TailFlight ==
    ASSUME NEW S, NEW s \in Seq(S), s # <<>>
    PROVE  /\ \A i \in Flight(Tail(s)) : /\ i \in Nat /\ i + 1 \in Flight(s) /\ i + 1 # 1
                                         /\ Tail(s)[i] = s[i + 1]
           /\ \A i \in Flight(s) \ {1} : i - 1 \in Flight(Tail(s)) /\ Tail(s)[i - 1] = s[i]
           /\ 1 \in Flight(s) <=> Head(s).type \in DetailTypes
<1> DEFINE t == Tail(s)
<1>1. /\ Head(s) = s[1] /\ Len(s) \in Nat \ {0} /\ Len(t) = Len(s) - 1
      /\ \A i \in 1..Len(t) : t[i] = s[i + 1]
  BY TailShift
<1> HIDE DEF t
<1>2. \A i \in Flight(t) : i \in Nat /\ i + 1 \in Flight(s) /\ i + 1 # 1 /\ t[i] = s[i + 1]
  BY <1>1 DEF Flight
<1>3. \A i \in Flight(s) \ {1} : i - 1 \in Flight(t) /\ t[i - 1] = s[i]
  <2> TAKE i \in Flight(s) \ {1}
  <2>1. i - 1 \in 1..Len(t) /\ (i - 1) + 1 = i
    BY <1>1 DEF Flight
  <2> QED
    BY <1>1, <2>1 DEF Flight
<1>4. 1 \in Flight(s) <=> Head(s).type \in DetailTypes
  BY <1>1 DEF Flight
<1> QED
  BY <1>2, <1>3, <1>4 DEF t

\* Taking a message off keeps the details apart, and takes at most its own path
\* out of flight.
LEMMA TailDistinct ==
    ASSUME NEW S, NEW s \in Seq(S), s # <<>>, Distinct(s)
    PROVE  Distinct(Tail(s))
<1> SUFFICES ASSUME NEW i \in Flight(Tail(s)), NEW j \in Flight(Tail(s)),
                    Tail(s)[i].path = Tail(s)[j].path
             PROVE  i = j
  BY DEF Distinct
<1>1. i \in Nat /\ j \in Nat /\ i + 1 \in Flight(s) /\ j + 1 \in Flight(s)
      /\ Tail(s)[i] = s[i + 1] /\ Tail(s)[j] = s[j + 1]
  BY TailFlight
<1>2. i + 1 = j + 1
  BY <1>1 DEF Distinct
<1> QED
  BY <1>1, <1>2

\* Taking a detail off a channel takes its path, and no other, out of flight.
LEMMA TailDetail ==
    ASSUME NEW S, NEW s \in Seq(S), s # <<>>, Head(s).type \in DetailTypes, Distinct(s)
    PROVE  /\ Head(s).path \in FlightPaths(s)
           /\ FlightPaths(Tail(s)) = FlightPaths(s) \ {Head(s).path}
<1>1. 1 \in Flight(s) /\ Head(s) = s[1]
  BY TailFlight, TailShift
<1>2. ASSUME NEW p \in FlightPaths(Tail(s)) PROVE p \in FlightPaths(s) \ {Head(s).path}
  <2>1. PICK i \in Flight(Tail(s)) : p = Tail(s)[i].path
    BY DEF FlightPaths
  <2>2. i + 1 \in Flight(s) /\ i + 1 # 1 /\ Tail(s)[i] = s[i + 1]
    BY TailFlight
  <2> QED
    BY <1>1, <2>1, <2>2 DEF FlightPaths, Distinct
<1>3. ASSUME NEW p \in FlightPaths(s) \ {Head(s).path} PROVE p \in FlightPaths(Tail(s))
  <2>1. PICK i \in Flight(s) : p = s[i].path
    BY DEF FlightPaths
  <2>2. i \in Flight(s) \ {1}
    BY <1>1, <2>1
  <2>3. i - 1 \in Flight(Tail(s)) /\ Tail(s)[i - 1] = s[i]
    BY <2>2, TailFlight
  <2> QED
    BY <2>1, <2>3 DEF FlightPaths
<1> QED
  BY <1>1, <1>2, <1>3 DEF FlightPaths

\* Taking any other message off leaves the details in flight as they are.
LEMMA TailOther ==
    ASSUME NEW S, NEW s \in Seq(S), s # <<>>, Head(s).type \notin DetailTypes
    PROVE  FlightPaths(Tail(s)) = FlightPaths(s)
<1>1. 1 \notin Flight(s)
  BY TailFlight
<1>2. ASSUME NEW i \in Flight(Tail(s)) PROVE Tail(s)[i].path \in FlightPaths(s)
  BY TailFlight DEF FlightPaths
<1>3. ASSUME NEW i \in Flight(s) PROVE s[i].path \in FlightPaths(Tail(s))
  <2>1. i - 1 \in Flight(Tail(s)) /\ Tail(s)[i - 1] = s[i]
    BY <1>1, TailFlight
  <2> QED
    BY <2>1 DEF FlightPaths
<1> QED
  BY <1>2, <1>3 DEF FlightPaths
---------------------------------------------------------------------------
(* The steps of the client's loop.                                         *)

\* Sets of files are finite: their sizes count down as files are removed.
LEMMA CountFiles ==
    ASSUME NEW S \in SUBSET Paths
    PROVE  /\ Cardinality(S) \in Nat
           /\ Cardinality(S) = 0 <=> S = {}
           /\ \A p \in S : Cardinality(S \ {p}) = Cardinality(S) - 1
<1>1. IsFiniteSet(S)
  BY SettingSyncAssumption, FS_Subset
<1> QED
  BY <1>1, FS_CardinalityType, FS_EmptySet, FS_RemoveElement

LEMMA UncountedType == TypeOK => Uncounted \subseteq Paths
  BY TypeParts, UncountedFiles

LEMMA UncountedTypeNext == TypeOK' => (Uncounted \subseteq Paths)'
  BY UncountedType, PTL

\* A detail is handled: its path, and nothing else, is counted, or waits for an
\* acknowledgement, or is dropped.
LEMMA DetailHandled ==
    ASSUME TypeOK, OnePlaceEach, PushesApart, toClient # <<>>, toClient' = Tail(toClient),
           Head(toClient).type \in DetailTypes, UNCHANGED <<owed, onPage>>,
           pending' \in {pending, pending \cup {Head(toClient).path}},
           silent' \in {silent, silent \cup {Head(toClient).path}},
           PushesOf(toServer') \subseteq
              PushesOf(toServer) \cup ({Head(toClient).path} \ silent')
    PROVE  /\ OnePlaceEach' /\ PushesApart'
           /\ Head(toClient).path \in Uncounted
           /\ Uncounted' = IF Head(toClient).path \in pending' \cup silent'
                           THEN Uncounted ELSE Uncounted \ {Head(toClient).path}
<1> DEFINE p == Head(toClient).path
<1>1. toClient \in Seq(ServerMsgs)
  BY DEF TypeOK
<1>2. /\ p \in FlightPaths(toClient)
      /\ FlightPaths(toClient') = FlightPaths(toClient) \ {p}
      /\ Distinct(toClient')
  BY <1>1, TailDetail, TailDistinct DEF OnePlaceEach
<1>3. PushesOf(toClient') \subseteq PushesOf(toClient)
  BY <1>1, TailLess
<1>4. /\ p \notin owed \cup onPage \cup pending \cup silent
      /\ p \notin PushesOf(toServer) \cup PushesOf(toClient)
  BY <1>2 DEF OnePlaceEach, PushesApart
<1> HIDE DEF p
<1>5. /\ pending' = pending \/ pending' = pending \cup {p}
      /\ silent' = silent \/ silent' = silent \cup {p}
      /\ PushesOf(toServer') \subseteq PushesOf(toServer) \cup ({p} \ silent')
  BY DEF p
<1>6. OnePlaceEach'
  BY <1>2, <1>4, <1>5 DEF OnePlaceEach
<1>7. PushesApart'
  BY <1>2, <1>3, <1>4, <1>5 DEF PushesApart
<1>8. p \in Uncounted /\ Uncounted' = IF p \in pending' \cup silent' THEN Uncounted
                                                                 ELSE Uncounted \ {p}
  BY <1>2, <1>4, <1>5 DEF Uncounted, Outstanding
<1> QED
  BY <1>6, <1>7, <1>8 DEF p

\* Any other message leaves the details alone; an acknowledgement takes its path
\* off pending_uploads.
LEMMA OtherHandled ==
    ASSUME TypeOK, OnePlaceEach, PushesApart, toClient # <<>>, toClient' = Tail(toClient),
           Head(toClient).type \notin DetailTypes, UNCHANGED <<owed, onPage, silent>>,
           NEW acked, pending' = pending \ acked, acked \cap silent = {},
           PushesOf(toServer') \subseteq PushesOf(toServer)
    PROVE  /\ OnePlaceEach' /\ PushesApart'
           /\ Uncounted' = Uncounted \ (acked \cap pending)
<1>1. toClient \in Seq(ServerMsgs)
  BY DEF TypeOK
<1>2. FlightPaths(toClient') = FlightPaths(toClient) /\ Distinct(toClient')
  BY <1>1, TailOther, TailDistinct DEF OnePlaceEach
<1>3. PushesOf(toClient') \subseteq PushesOf(toClient)
  BY <1>1, TailLess
<1>4. OnePlaceEach'
  BY <1>2 DEF OnePlaceEach
<1>5. PushesApart'
  BY <1>2, <1>3 DEF PushesApart
<1>6. Uncounted' = Uncounted \ (acked \cap pending)
  BY <1>2 DEF Uncounted, Outstanding, OnePlaceEach
<1> QED
  BY <1>4, <1>5, <1>6

\* After SettingSyncEnd neither the request nor the answer is on its way, and
\* completion goes by the counters.
LEMMA SettleCounts ==
    ASSUME TypeOK, TypeOK', ~Asking, ~Answering, gotEnd, ~complete,
           toClient # <<>>, toClient' = Tail(toClient),
           NEW checks \in BOOLEAN, NEW rcv \in Nat, NEW pg, NEW out \in Seq(ClientMsgs),
           Settle(checks, rcv, pg, out), "SettingSync" \notin Kinds(out)
    PROVE  /\ gotEnd' /\ expected' = expected /\ received' = rcv
           /\ ~Asking' /\ ~Answering'
           /\ complete' => rcv >= expected
           /\ PushesOf(toServer') \subseteq PushesOf(toServer) \cup PushesOf(out)
<1>1. gotEnd' /\ expected' = expected /\ received' = rcv
  BY DEF Settle, countVars
<1>2. complete' => rcv >= expected
  BY DEF Settle, AllReceived
<1> DEFINE ack == IF PageFinished(pg) /\ ~pg.last THEN <<PageAck(pg.index)>> ELSE <<>>
           sent == toServer \o out
<1>3. toServer' = sent \o ack /\ toServer \in Seq(ClientMsgs) /\ toServer' \in Seq(ClientMsgs)
  BY DEF Settle, TypeOK
<1>4. Kinds(ack) \subseteq {"SettingSyncPageAck"} /\ PushesOf(ack) = {}
  BY DEF PageAck, Kinds, PushesOf
<1>5. sent \in Seq(ClientMsgs) /\ Kinds(sent) \subseteq Kinds(toServer) \cup Kinds(out)
      /\ PushesOf(sent) \subseteq PushesOf(toServer) \cup PushesOf(out)
  BY <1>3, Joined, JoinMore
<1>6. ack \in Seq({PageAck(pg.index)} \cup ClientMsgs)
  <2>1. <<PageAck(pg.index)>> \in Seq({PageAck(pg.index)} \cup ClientMsgs)
    OBVIOUS
  <2>2. <<>> \in Seq({PageAck(pg.index)} \cup ClientMsgs)
    OBVIOUS
  <2> QED
    BY <2>1, <2>2
<1>7. sent \in Seq({PageAck(pg.index)} \cup ClientMsgs)
  BY <1>5
<1> HIDE DEF ack, sent
<1>8. Kinds(toServer') \subseteq Kinds(sent) \cup Kinds(ack)
      /\ PushesOf(toServer') \subseteq PushesOf(sent) \cup PushesOf(ack)
  BY <1>3, <1>6, <1>7, JoinMore
<1>9. ~Asking'
  BY <1>4, <1>5, <1>8, AskingKind, AskingKindNext
<1>10. ~Answering'
  BY TailLess, AskingKind, AskingKindNext DEF TypeOK
<1> QED
  BY <1>1, <1>2, <1>4, <1>5, <1>8, <1>9, <1>10

\* The request and SettingSyncEnd travel alone.
LEMMA LoopBusy ==
    ASSUME TypeOK, SessionInv, toClient # <<>>, Head(toClient).type # "SettingSyncEnd"
    PROVE  ~Asking /\ ~Answering
<1>1. /\ Len(toClient) \in Nat \ {0} /\ Head(toClient) = toClient[1]
      /\ Len(toServer) \in Nat
  BY TailShift DEF TypeOK
<1>2. ~Asking
  BY <1>1 DEF Asking, SessionInv
<1>3. ~Answering
  BY <1>1 DEF Answering, SessionInv
<1> QED
  BY <1>2, <1>3

\* What a step of the loop makes of the session: the counters still differ by
\* what is not counted, one path at most has been counted, and the sync is
\* complete only when the counters are equal.
LoopCounts ==
    /\ ~Asking /\ ~Asking' /\ ~Answering' /\ gotEnd'
    /\ OnePlaceEach' /\ PushesApart'
    /\ received' + Cardinality(Uncounted') = expected'
    /\ \/ Uncounted' = Uncounted
       \/ \E p \in Uncounted : Uncounted' = Uncounted \ {p}
    /\ complete' => received' >= expected'

LEMMA Counted ==
    ASSUME ~Asking, ~Asking', ~Answering', gotEnd', OnePlaceEach', PushesApart',
           NEW rcv, received' = rcv, expected' = expected,
           rcv + Cardinality(Uncounted') = expected, complete' => rcv >= expected,
           \/ Uncounted' = Uncounted
           \/ \E p \in Uncounted : Uncounted' = Uncounted \ {p}
    PROVE  LoopCounts
<1>1. received' + Cardinality(Uncounted') = expected' /\ (complete' => received' >= expected')
  OBVIOUS
<1> QED
  BY <1>1, Zenon DEF LoopCounts

\* The answer: what the server owes is what is not counted.
LEMMA EndCounts ==
    ASSUME TypeOK, TypeOK', SessionInv, ReceiveEnd
    PROVE  LoopCounts
<1> DEFINE m == Head(toClient)
           n == Cardinality(Uncounted)
<1>1. /\ phase = "syncing" /\ toClient # <<>> /\ toClient' = Tail(toClient)
      /\ m.type = "SettingSyncEnd" /\ m.type \notin DetailTypes
      /\ UNCHANGED <<owed, onPage, silent, pending, received>>
      /\ expected' = m.count /\ gotEnd' = TRUE
  BY DEF ReceiveEnd, Receive, DetailTypes, pageVars
<1>2. toClient \in Seq(ServerMsgs) /\ toServer \in Seq(ClientMsgs)
  BY DEF TypeOK
<1>3. Len(toClient) \in Nat \ {0} /\ m = toClient[1] /\ Len(toServer) \in Nat
  BY <1>1, <1>2
<1>4. Answering
  BY <1>1, <1>3 DEF Answering
<1>5. /\ received = 0 /\ pending = {} /\ silent = {} /\ ~complete
      /\ m.count = n /\ OnePlaceEach /\ PushesApart
  <2>1. toClient[1].count = Cardinality(Outstanding) /\ silent = {}
    BY <1>4 DEF SessionInv
  <2>2. Outstanding = Uncounted
    BY <2>1 DEF Uncounted
  <2> QED
    BY <1>1, <1>3, <1>4, <2>1, <2>2 DEF SessionInv
<1>6. Len(toServer) = 0 /\ Len(toClient) = 1
  <2>1. Len(toServer) + Len(toClient) = 1
    BY <1>4 DEF SessionInv
  <2>2. \A a \in Nat, b \in Nat \ {0} : a + b = 1 => a = 0 /\ b = 1
    OBVIOUS
  <2> QED
    BY <1>3, <2>1, <2>2, ZenonT(30)
<1>7. toServer = <<>> /\ toClient' = <<>>
  BY <1>1, <1>2, <1>6
<1>8. ~Asking /\ ~Answering'
  BY <1>7 DEF Asking, Answering
<1>9. toServer' = <<>> \/ toServer' = <<PageAck(-1)>>
  BY <1>7 DEF ReceiveEnd
<1>10. ~Asking' /\ PushesOf(toServer') \subseteq PushesOf(toServer)
  BY <1>7, <1>9 DEF Asking, PageAck, PushesOf
<1>11. OnePlaceEach' /\ PushesApart' /\ Uncounted' = Uncounted
  <2>1. pending' = pending \ {}
    BY <1>1
  <2>2. OnePlaceEach' /\ PushesApart' /\ Uncounted' = Uncounted \ ({} \cap pending)
    BY <1>1, <1>5, <1>10, <2>1, OtherHandled
  <2> QED
    BY <2>2
<1>12. n \in Nat
  BY UncountedType, CountFiles
<1>13. received' + Cardinality(Uncounted') = expected'
  BY <1>1, <1>5, <1>11, <1>12
<1>14. complete' => received' >= expected'
  <2>1. complete' => m.count = 0 \/ received >= m.count
    BY <1>5 DEF ReceiveEnd
  <2> HIDE DEF m, n
  <2> QED
    BY <1>1, <1>5, <1>12, <2>1
<1> QED
  BY <1>1, <1>8, <1>10, <1>11, <1>13, <1>14 DEF LoopCounts

\* A detail, a page, a rename or an acknowledgement.
LEMMA MessageCounts ==
    ASSUME TypeOK, TypeOK', SessionInv, ClientReceives, ~ReceiveEnd
    PROVE  LoopCounts
<1> DEFINE m == Head(toClient)
           n == Cardinality(Uncounted)
<1>1. /\ phase = "syncing" /\ toClient # <<>> /\ toClient' = Tail(toClient)
      /\ UNCHANGED <<owed, onPage>> /\ m.type # "SettingSyncEnd"
  BY DEF ClientReceives, ReceiveModify, ReceiveDelete, ReceiveMtime, ReceiveRename,
         ReceiveNeedUpload, ReceivePage, ReceiveModifyAck, Receive, pageVars
<1>2. ~Asking /\ ~Answering
  BY <1>1, LoopBusy
<1>3. /\ gotEnd /\ ~complete /\ OnePlaceEach /\ PushesApart /\ received + n = expected
  BY <1>1, <1>2 DEF SessionInv
<1>4. received \in Nat /\ expected \in Nat /\ n \in Nat /\ received + 1 \in Nat
      /\ <<>> \in Seq(ClientMsgs) /\ Kinds(<<>>) = {} /\ PushesOf(<<>>) = {}
  <2>1. n \in Nat
    BY UncountedType, CountFiles
  <2>2. received \in Nat /\ expected \in Nat
    BY DEF TypeOK
  <2>3. <<>> \in Seq(ClientMsgs) /\ Kinds(<<>>) = {} /\ PushesOf(<<>>) = {}
    BY DEF Kinds, PushesOf
  <2> QED
    BY <2>1, <2>2, <2>3
\* One path counted: by a detail, or by an acknowledgement.
<1>5. ASSUME NEW p \in Uncounted, Uncounted' = Uncounted \ {p}
      PROVE  received + 1 + Cardinality(Uncounted') = expected
  <2>1. Cardinality(Uncounted') = n - 1
    BY <1>5, UncountedType, CountFiles
  <2> QED
    BY <1>3, <1>4, <2>1
<1>6. ASSUME m.type \in DetailTypes, pending' = pending, silent' = silent,
             Settle(TRUE, received + 1, MarkPageMessage(page), <<>>)
      PROVE  LoopCounts
  <2>1. /\ gotEnd' /\ expected' = expected /\ received' = received + 1
        /\ ~Asking' /\ ~Answering' /\ (complete' => received + 1 >= expected)
        /\ PushesOf(toServer') \subseteq PushesOf(toServer) \cup PushesOf(<<>>)
    BY <1>1, <1>2, <1>3, <1>4, <1>6, SettleCounts
  <2>2. PushesOf(toServer') \subseteq PushesOf(toServer) \cup ({m.path} \ silent')
    BY <1>4, <2>1
  <2>3. /\ OnePlaceEach' /\ PushesApart' /\ m.path \in Uncounted
        /\ Uncounted' = IF m.path \in pending' \cup silent' THEN Uncounted
                                                            ELSE Uncounted \ {m.path}
    BY <1>1, <1>3, <1>6, <2>2, DetailHandled
  <2>4. m.path \notin pending \cup silent
    BY <1>1, <1>3, <1>6, TailDetail DEF OnePlaceEach, TypeOK
  <2>5. Uncounted' = Uncounted \ {m.path}
    BY <1>6, <2>3, <2>4
  <2> QED
    <3>1. received + 1 + Cardinality(Uncounted') = expected
      BY <1>5, <2>3, <2>5
    <3>2. \E p \in Uncounted : Uncounted' = Uncounted \ {p}
      BY <2>3, <2>5
    <3> QED
      BY <1>2, <2>1, <2>3, <3>1, <3>2, Counted
\* Nothing counted.
<1>7. ASSUME NEW pg, m.type \notin DetailTypes, pending' = pending, silent' = silent,
             Settle(FALSE, received, pg, <<>>)
      PROVE  LoopCounts
  <2>1. /\ gotEnd' /\ expected' = expected /\ received' = received
        /\ ~Asking' /\ ~Answering' /\ (complete' => received >= expected)
        /\ PushesOf(toServer') \subseteq PushesOf(toServer) \cup PushesOf(<<>>)
    BY <1>1, <1>2, <1>3, <1>4, <1>7, SettleCounts
  <2>2. pending' = pending \ {} /\ {} \cap silent = {}
        /\ PushesOf(toServer') \subseteq PushesOf(toServer)
    BY <1>4, <1>7, <2>1
  <2>3. OnePlaceEach' /\ PushesApart' /\ Uncounted' = Uncounted \ ({} \cap pending)
    BY <1>1, <1>3, <1>7, <2>2, OtherHandled
  <2>4. Uncounted' = Uncounted
    BY <2>3
  <2> QED
    <3>1. received + Cardinality(Uncounted') = expected
      BY <1>3, <2>4
    <3> QED
      BY <1>2, <2>1, <2>3, <2>4, <3>1, Counted
\* A detail that waits for its acknowledgement, or is dropped.
<1>8. ASSUME NEW checks \in BOOLEAN, NEW out \in Seq(ClientMsgs), m.type \in DetailTypes,
             pending' \in {pending, pending \cup {m.path}},
             silent' \in {silent, silent \cup {m.path}},
             m.path \in pending' \cup silent',
             "SettingSync" \notin Kinds(out),
             PushesOf(out) \subseteq {m.path} \ silent',
             Settle(checks, received, MarkPageMessage(page), out)
      PROVE  LoopCounts
  <2>1. /\ gotEnd' /\ expected' = expected /\ received' = received
        /\ ~Asking' /\ ~Answering' /\ (complete' => received >= expected)
        /\ PushesOf(toServer') \subseteq PushesOf(toServer) \cup PushesOf(out)
    BY <1>1, <1>2, <1>3, <1>4, <1>8, SettleCounts
  <2>2. PushesOf(toServer') \subseteq PushesOf(toServer) \cup ({m.path} \ silent')
    BY <1>8, <2>1
  <2>3. /\ OnePlaceEach' /\ PushesApart' /\ Uncounted' = Uncounted
    BY <1>1, <1>3, <1>8, <2>2, DetailHandled
  <2> QED
    <3>1. received + Cardinality(Uncounted') = expected
      BY <1>3, <2>3
    <3> QED
      BY <1>2, <2>1, <2>3, <3>1, Counted
<1>9. CASE ReceiveModify \/ ReceiveMtime
  BY <1>6, <1>9 DEF ReceiveModify, ReceiveMtime, Receive, DetailTypes
<1>10. CASE ReceiveRename \/ ReceivePage
  <2>1. PICK pg : /\ m.type \notin DetailTypes /\ pending' = pending /\ silent' = silent
                  /\ Settle(FALSE, received, pg, <<>>)
    BY <1>10 DEF ReceiveRename, ReceivePage, Receive, DetailTypes
  <2> QED
    BY <1>7, <2>1
<1>11. CASE ReceiveDelete
  <2>1. m.type \in DetailTypes /\ pending' = pending
    BY <1>11 DEF ReceiveDelete, Receive, DetailTypes
  <2>2. CASE Suppressed(m.path)
    <3>1. Settle(FALSE, received, MarkPageMessage(page), <<>>)
          /\ silent' = silent \cup {m.path}
      BY <1>11, <2>2 DEF ReceiveDelete
    <3>2. FALSE \in BOOLEAN /\ m.path \in pending' \cup silent'
      BY <3>1
    <3> QED
      BY <1>4, <1>8, <2>1, <3>1, <3>2
  <2>3. CASE ~Suppressed(m.path)
    BY <1>6, <1>11, <2>1, <2>3 DEF ReceiveDelete
  <2> QED
    BY <2>2, <2>3
<1>12. CASE ReceiveNeedUpload
  <2> DEFINE p == m.path
             out == PushModifyMsgs(p, TRUE)
  <2>1. m.type \in DetailTypes /\ p \in Paths
    BY <1>1, <1>12, HeadType DEF ReceiveNeedUpload, Receive, DetailTypes, Details
  <2>2. CASE Awaited(p)
    <3>1. /\ pending' = pending \cup {p} /\ Settle(TRUE, received, MarkPageMessage(page), out)
          /\ silent' = IF Pushes(p, TRUE) THEN silent ELSE silent \cup {p}
      BY <1>12, <2>2 DEF ReceiveNeedUpload
    <3>2. out \in Seq(ClientMsgs)
      BY <2>1, PushType, TypeParts
    <3>3. Kinds(out) \subseteq {"SettingModify"} /\ PushesOf(out) \subseteq {p}
          /\ (Pushes(p, TRUE) \/ PushesOf(out) = {})
      <4>1. CASE Pushes(p, TRUE)
        <5> DEFINE r == [type |-> "SettingModify", path |-> p, content |-> disk[p]]
        <5>1. out = <<r>>
          BY <4>1 DEF PushModifyMsgs
        <5>2. r.type = "SettingModify" /\ r.path = p
          OBVIOUS
        <5> HIDE DEF r, out
        <5>3. Kinds(<<r>>) \subseteq {r.type} /\ PushesOf(<<r>>) \subseteq {r.path}
          BY DEF Kinds, PushesOf
        <5> QED
          BY <4>1, <5>1, <5>2, <5>3
      <4>2. CASE ~Pushes(p, TRUE)
        <5>1. out = <<>>
          BY <4>2 DEF PushModifyMsgs
        <5> QED
          BY <1>4, <5>1
      <4> QED
        BY <4>1, <4>2
    <3>4. p \notin silent
      BY <1>1, <1>3, <2>1, TailDetail DEF OnePlaceEach, TypeOK
    <3>5. PushesOf(out) \subseteq {p} \ silent'
      BY <3>1, <3>3, <3>4
    <3>6. /\ pending' \in {pending, pending \cup {p}} /\ silent' \in {silent, silent \cup {p}}
          /\ p \in pending' \cup silent' /\ "SettingSync" \notin Kinds(out)
          /\ TRUE \in BOOLEAN
      BY <3>1, <3>3
    <3> HIDE DEF out
    <3> QED
      BY <1>8, <2>1, <3>1, <3>2, <3>5, <3>6
  <2>3. CASE ~Awaited(p)
    BY <1>6, <1>12, <2>1, <2>3 DEF ReceiveNeedUpload
  <2> QED
    BY <2>2, <2>3
<1>13. CASE ReceiveModifyAck
  <2>1. /\ m.type = "SettingModifyAck" /\ m.type \notin DetailTypes
        /\ silent' = silent /\ pending' = pending \ {m.path}
        /\ Settle(m.path \in pending,
                  IF m.path \in pending THEN received + 1 ELSE received, page, <<>>)
    BY <1>13 DEF ReceiveModifyAck, Receive, DetailTypes
  <2>2. m.path \in PushesOf(toClient)
    <3>1. Len(toClient) \in Nat \ {0} /\ m = toClient[1]
      BY <1>1, TailShift DEF TypeOK
    <3> QED
      BY <2>1, <3>1 DEF PushesOf
  <2>3. {m.path} \cap silent = {}
    BY <1>3, <2>2 DEF PushesApart
  <2>4. CASE m.path \in pending
    <3>1. Settle(TRUE, received + 1, page, <<>>)
      <4>1. (m.path \in pending) = TRUE
        BY <2>4
      <4> QED
        BY <2>1, <4>1
    <3>2. /\ gotEnd' /\ expected' = expected /\ received' = received + 1
          /\ ~Asking' /\ ~Answering' /\ (complete' => received + 1 >= expected)
          /\ PushesOf(toServer') \subseteq PushesOf(toServer) \cup PushesOf(<<>>)
      BY <1>1, <1>2, <1>3, <1>4, <3>1, SettleCounts
    <3>3. PushesOf(toServer') \subseteq PushesOf(toServer)
      BY <1>4, <3>2
    <3>4. /\ OnePlaceEach' /\ PushesApart'
          /\ Uncounted' = Uncounted \ ({m.path} \cap pending)
      BY <1>1, <1>3, <2>1, <2>3, <3>3, OtherHandled
    <3>5. Uncounted' = Uncounted \ {m.path} /\ m.path \in Uncounted
      BY <2>4, <3>4 DEF Uncounted, Outstanding
    <3> QED
      <4>1. received + 1 + Cardinality(Uncounted') = expected
        BY <1>5, <3>5
      <4>2. \E q \in Uncounted : Uncounted' = Uncounted \ {q}
        BY <3>5
      <4> QED
        BY <1>2, <3>2, <3>4, <4>1, <4>2, Counted
  <2>5. CASE m.path \notin pending
    <3>1. pending' = pending /\ Settle(FALSE, received, page, <<>>)
      <4>1. (m.path \in pending) = FALSE
        BY <2>5
      <4> QED
        BY <2>1, <2>5, <4>1
    <3> QED
      BY <1>7, <2>1, <3>1
  <2> QED
    BY <2>4, <2>5
<1> QED
  BY <1>9, <1>10, <1>11, <1>12, <1>13 DEF ClientReceives

LEMMA ClientCounts ==
    ASSUME TypeOK, TypeOK', SessionInv, ClientReceives
    PROVE  LoopCounts
<1>1. CASE ReceiveEnd
  BY <1>1, EndCounts
<1>2. CASE ~ReceiveEnd
  BY <1>2, MessageCounts
<1> QED
  BY <1>1, <1>2

\* A sync that is complete has counted everything; the loop goes on otherwise,
\* unless it is timed out.
LEMMA ClientTurns ==
    ASSUME TypeOK, TypeOK', SessionInv, ClientReceives
    PROVE  /\ phase = "syncing"
           /\ complete' => Uncounted' = {}
           /\ phase' = "live" \/ (phase' = "syncing" /\ ~complete')
<1>1. phase = "syncing"
  BY DEF ClientReceives, ReceiveModify, ReceiveDelete, ReceiveMtime, ReceiveRename,
         ReceiveNeedUpload, ReceivePage, ReceiveModifyAck, ReceiveEnd, Receive
<1>2. NextTurn
  BY DEF ClientReceives, ReceiveModify, ReceiveDelete, ReceiveMtime, ReceiveRename,
         ReceiveNeedUpload, ReceivePage, ReceiveModifyAck, ReceiveEnd
<1>3. complete' => Uncounted' = {}
  <2>1. received' + Cardinality(Uncounted') = expected' /\ (complete' => received' >= expected')
    BY ClientCounts DEF LoopCounts
  <2>2. received' \in Nat /\ expected' \in Nat
    BY DEF TypeOK
  <2>3. Cardinality(Uncounted') \in Nat /\ (Cardinality(Uncounted') = 0 <=> Uncounted' = {})
    BY UncountedTypeNext, CountFiles
  <2>4. \A a, b, c \in Nat : a + b = c /\ a >= c => b = 0
    OBVIOUS
  <2> QED
    BY <2>1, <2>2, <2>3, <2>4, ZenonT(30)
<1>4. phase' = "live" \/ (phase' = phase /\ ~complete')
  BY <1>2 DEF NextTurn, Return
<1> QED
  BY <1>1, <1>3, <1>4

LEMMA ClientSession ==
    ASSUME TypeOK, TypeOK', SessionInv, ClientReceives
    PROVE  SessionInv'
<1>1. LoopCounts
  BY ClientCounts
<1>2. phase' = "live" \/ (phase' = "syncing" /\ ~complete')
  BY ClientTurns
<1> QED
  BY <1>1, <1>2 DEF LoopCounts, SessionInv
---------------------------------------------------------------------------
(* The other steps.                                                        *)

\* Nothing the invariant mentions has changed.
LEMMA SessionFrame ==
    ASSUME SessionInv,
           UNCHANGED <<phase, toServer, toClient, owed, onPage, pageNo, pending, silent,
                       received, expected, gotEnd, complete, page>>
    PROVE  SessionInv'
  BY DEF SessionInv, Asking, Answering, OnePlaceEach, PushesApart, Outstanding, Uncounted

\* In the live phase there is neither a request nor an answer.
LEMMA LiveSession ==
    ASSUME phase' = "live", ~Asking', ~Answering'
    PROVE  SessionInv'
  BY DEF SessionInv

\* A message leaves the channel to the client.
LEMMA LiveShrinks ==
    ASSUME TypeOK, SessionInv, phase' = "live", toServer' = toServer,
           ~Asking, ~Answering, toClient # <<>>, toClient' = Tail(toClient)
    PROVE  SessionInv'
<1>1. ~Asking'
  BY AskingKind, AskingKindNext
<1>2. ~Answering'
  BY TailLess, AskingKind, AskingKindNext DEF TypeOK
<1> QED
  BY <1>1, <1>2, LiveSession

\* The connection is gone, and with it everything that was outstanding.
LEMMA ConnectionLostSession == ConnectionLost => SessionInv'
<1> SUFFICES ASSUME ConnectionLost PROVE SessionInv'
  OBVIOUS
<1>1. ~Asking' /\ ~Answering'
  BY DEF ConnectionLost, Asking, Answering
<1> QED
  BY <1>1 DEF ConnectionLost, SessionInv

\* Pushes of the live phase are no requests.
LEMMA EventKinds ==
    ASSUME TypeOK, events # <<>>
    PROVE  "SettingSync" \notin Kinds(EventMsgs(Head(events)))
<1>1. ASSUME NEW p, NEW force PROVE Kinds(PushModifyMsgs(p, force)) \subseteq {"SettingModify"}
  <2>1. CASE Pushes(p, force)
    <3> DEFINE r == [type |-> "SettingModify", path |-> p, content |-> disk[p]]
    <3>1. PushModifyMsgs(p, force) = <<r>> /\ r.type = "SettingModify"
      BY <2>1 DEF PushModifyMsgs
    <3> HIDE DEF r
    <3> QED
      BY <3>1 DEF Kinds
  <2>2. CASE ~Pushes(p, force)
    BY <2>2 DEF PushModifyMsgs, Kinds
  <2> QED
    BY <2>1, <2>2
<1>2. ASSUME NEW p PROVE Kinds(PushDeleteMsgs(p)) \subseteq {"SettingDelete"}
  <2> DEFINE r == [type |-> "SettingDelete", path |-> p, content |-> Absent]
  <2>1. PushDeleteMsgs(p) = <<r>> /\ r.type = "SettingDelete"
    BY DEF PushDeleteMsgs
  <2> HIDE DEF r
  <2> QED
    BY <2>1 DEF Kinds
<1> DEFINE e == Head(events)
<1>3. e.path \in Paths /\ e.kind \in {"Modified", "Deleted", "Moved"}
      /\ (e.kind = "Moved" => e.old \in Paths)
  <2>1. e \in Events
    BY DEF TypeOK
  <2> QED
    BY <2>1 DEF Events
<1>4. CASE e.kind \in {"Modified", "Deleted"}
  <2>1. \/ EventMsgs(e) = PushModifyMsgs(e.path, FALSE)
        \/ EventMsgs(e) = PushDeleteMsgs(e.path)
    BY <1>4 DEF EventMsgs
  <2>2. /\ Kinds(PushModifyMsgs(e.path, FALSE)) \subseteq {"SettingModify"}
        /\ Kinds(PushDeleteMsgs(e.path)) \subseteq {"SettingDelete"}
    BY <1>1, <1>2
  <2>3. Kinds(EventMsgs(e)) \subseteq {"SettingModify", "SettingDelete"}
    BY <2>1, <2>2
  <2> QED
    BY <2>3
<1>5. CASE e.kind = "Moved"
  <2>1. EventMsgs(e) = PushModifyMsgs(e.path, FALSE) \o PushDeleteMsgs(e.old)
    BY <1>5 DEF EventMsgs
  <2>2. PushModifyMsgs(e.path, FALSE) \in Seq(ClientMsgs)
        /\ PushDeleteMsgs(e.old) \in Seq(ClientMsgs)
    BY <1>3, <1>5, PushType, TypeParts
  <2>3. Kinds(EventMsgs(e)) \subseteq
           Kinds(PushModifyMsgs(e.path, FALSE)) \cup Kinds(PushDeleteMsgs(e.old))
    BY <2>1, <2>2, JoinMore
  <2> QED
    BY <1>1, <1>2, <2>3
<1> QED
  BY <1>3, <1>4, <1>5

\* The steps of the client outside the session's loop.
LEMMA OutsideSession ==
    ASSUME TypeOK, TypeOK', SessionInv,
           \/ RequestSync \/ HandlerFails \/ LiveReceive \/ LiveHandlerFails
           \/ HandleWatchEvent \/ PushFails \/ Disconnect \/ Restart
    PROVE  SessionInv'
<1>1. CASE RequestSync
  <2> DEFINE r == [type |-> "SettingSync", last |-> lastTime, settings |-> LocalSettings]
  <2>1. toClient = <<>> /\ owed = {} /\ onPage = {} /\ pageNo = -1
    BY <1>1 DEF RequestSync, SessionInv
  <2>2. /\ toClient' = <<>> /\ owed' = {} /\ onPage' = {} /\ pageNo' = -1
        /\ toServer' = <<r>>
    BY <1>1, <2>1 DEF RequestSync, pageVars
  <2>3. /\ phase' = "syncing" /\ received' = 0 /\ pending' = {} /\ silent' = {}
        /\ ~gotEnd' /\ ~complete' /\ ~page'.active
    BY <1>1 DEF RequestSync, ResetCounters, NoPage
  <2>4. r.type = "SettingSync"
    OBVIOUS
  <2> HIDE DEF r
  <2>5. Len(toServer') = 1 /\ Len(toClient') = 0 /\ toServer'[1] = r
    BY <2>2
  <2>6. Len(toServer') + Len(toClient') = 1
    BY <2>5
  <2>7. Flight(toClient') = {} /\ ~Answering' /\ PushesOf(toClient') = {}
    BY <2>2 DEF Flight, Answering, PushesOf
  <2>8. Asking' /\ PushesOf(toServer') = {}
    BY <2>4, <2>5 DEF Asking, PushesOf
  <2>9. OnePlaceEach' /\ PushesApart'
    BY <2>2, <2>3, <2>7, <2>8 DEF OnePlaceEach, PushesApart, FlightPaths, Distinct
  <2> QED
    BY <2>2, <2>3, <2>6, <2>7, <2>8, <2>9 DEF SessionInv
<1>2. CASE HandlerFails
  <2>1. /\ toClient # <<>> /\ Head(toClient).type # "SettingSyncEnd"
        /\ toClient' = Tail(toClient) /\ toServer' = toServer /\ phase' = "live"
    BY <1>2 DEF HandlerFails, Writes
  <2> QED
    BY <2>1, LoopBusy, LiveShrinks
<1>3. CASE LiveReceive \/ LiveHandlerFails
  <2>1. /\ phase = "live" /\ phase' = "live" /\ toClient # <<>>
        /\ toClient' = Tail(toClient) /\ toServer' = toServer
    BY <1>3 DEF LiveReceive, LiveHandlerFails
  <2>2. ~Asking /\ ~Answering
    BY <2>1 DEF SessionInv
  <2> QED
    BY <2>1, <2>2, LiveShrinks
<1>4. CASE HandleWatchEvent
  <2>1. /\ phase = "live" /\ phase' = "live" /\ toClient' = toClient /\ events # <<>>
        /\ toServer' = toServer \o EventMsgs(Head(events))
    BY <1>4 DEF HandleWatchEvent
  <2>2. ~Asking /\ ~Answering
    BY <2>1 DEF SessionInv
  <2>3. ~Answering'
    BY <2>1, <2>2, AskingKind, AskingKindNext
  <2>4. toServer \in Seq(ClientMsgs) /\ EventMsgs(Head(events)) \in Seq(ClientMsgs)
    BY <2>1, EventMsgsType DEF TypeOK
  <2>5. Kinds(toServer') \subseteq Kinds(toServer) \cup Kinds(EventMsgs(Head(events)))
    BY <2>1, <2>4, JoinMore
  <2>6. ~Asking'
    BY <2>1, <2>2, <2>5, EventKinds, AskingKind, AskingKindNext
  <2> QED
    BY <2>1, <2>3, <2>6, LiveSession
<1>5. CASE Disconnect \/ Restart
  BY <1>5, ConnectionLostSession DEF Disconnect, Restart
<1>6. CASE PushFails
  <2>1. /\ phase' = "idle" /\ toServer' = <<>> /\ toClient' = <<>>
        /\ owed' = {} /\ onPage' = {} /\ pageNo' = -1
    BY <1>6 DEF PushFails, SessionInv, pageVars
  <2>2. ~Asking' /\ ~Answering'
    BY <2>1 DEF Asking, Answering
  <2> QED
    BY <2>1, <2>2 DEF SessionInv
<1> QED
  BY <1>1, <1>2, <1>3, <1>4, <1>5, <1>6

\* A step of the server that moves a path from one place to the next.
LEMMA PathsMoved ==
    ASSUME SessionInv, phase = "syncing", ~Asking, ~Answering, ~Asking', ~Answering',
           OnePlaceEach', PushesApart', Uncounted' = Uncounted,
           UNCHANGED <<phase, sessionVars>>
    PROVE  SessionInv'
<1>1. /\ gotEnd' = gotEnd /\ received' = received /\ expected' = expected
      /\ complete' = complete /\ phase' = "syncing"
  BY DEF sessionVars, countVars
<1>2. gotEnd /\ received + Cardinality(Uncounted) = expected /\ ~complete
  BY DEF SessionInv
<1>3. received' + Cardinality(Uncounted') = expected'
  BY <1>1, <1>2
<1> QED
  BY <1>1, <1>2, <1>3 DEF SessionInv

\* The server takes a message that is not the request: there is none, and
\* SettingSyncEnd is not on its way.
LEMMA ServerBusy ==
    ASSUME TypeOK, SessionInv, NEW type, FromClient(type), type # "SettingSync"
    PROVE  /\ phase # "idle" /\ ~Asking /\ ~Answering /\ ~Asking'
           /\ UNCHANGED <<phase, sessionVars>>
           /\ PushesOf(toServer') \subseteq PushesOf(toServer)
           /\ type = "SettingModify" => Head(toServer).path \in PushesOf(toServer)
<1>1. toServer # <<>> /\ Head(toServer).type = type /\ toServer' = Tail(toServer)
  BY DEF FromClient
<1>2. toServer \in Seq(ClientMsgs) /\ toClient \in Seq(ServerMsgs)
  BY DEF TypeOK
<1>3. /\ Len(toServer) \in Nat \ {0} /\ Head(toServer) = toServer[1]
      /\ Len(toClient) \in Nat
  BY <1>1, <1>2
<1>4. ~Asking
  BY <1>1, <1>3 DEF Asking, SessionInv
<1>5. ~Answering
  BY <1>3 DEF Answering, SessionInv
<1>6. ~Asking' /\ PushesOf(toServer') \subseteq PushesOf(toServer)
  BY <1>1, <1>2, <1>4, TailLess, AskingKind, AskingKindNext
<1>7. type = "SettingModify" => Head(toServer).path \in PushesOf(toServer)
  BY <1>1, <1>3 DEF PushesOf
<1> QED
  BY <1>1, <1>4, <1>5, <1>6, <1>7 DEF FromClient, SessionInv

\* A message other than SettingSyncEnd leaves the client without its answer.
LEMMA StillNoAnswer ==
    ASSUME NEW channel \in Seq(ServerMsgs), "SettingSyncEnd" \notin Kinds(channel),
           NEW m \in ServerMsgs, m.type # "SettingSyncEnd",
           toClient' = channel \/ toClient' = Append(channel, m)
    PROVE  ~Answering'
<1>1. Kinds(toClient') \subseteq Kinds(channel) \cup {m.type}
  BY AppendMore
<1> QED
  BY <1>1, AskingKindNext

\* A server that keeps quiet tells a client that syncs of renames only, and
\* only once there are pages.
LEMMA Quiet ==
    ASSUME QuietInSync, NEW channel, NEW m, MayBroadcast(channel, m), phase # "live"
    PROVE  \/ toClient' = channel
           \/ /\ phase = "syncing" /\ m.type = "SettingSyncRename" /\ pageNo >= 0
              /\ toClient' = Append(channel, m)
  BY DEF MayBroadcast, Hears

\* The other steps of the server, in a sync: a path moves from one place to the
\* next, or nothing does.
LEMMA ServerMoves ==
    ASSUME QuietInSync, TypeOK, TypeOK', SessionInv, phase = "syncing",
           ServerSteps, ~ServerAnswersSync
    PROVE  /\ ~Asking /\ ~Answering /\ ~Asking' /\ ~Answering'
           /\ OnePlaceEach' /\ PushesApart' /\ Uncounted' = Uncounted
           /\ UNCHANGED <<phase, sessionVars>>
<1>0. /\ toServer \in Seq(ClientMsgs) /\ toClient \in Seq(ServerMsgs)
      /\ OnePlaceEach /\ PushesApart
  BY DEF TypeOK, SessionInv
<1>1. CASE ServerStartsPage
  <2>1. FromClient("SettingSyncPageAck") /\ onPage = {}
    BY <1>1 DEF ServerStartsPage
  <2>2. /\ ~Asking /\ ~Answering /\ ~Asking' /\ UNCHANGED <<phase, sessionVars>>
        /\ PushesOf(toServer') \subseteq PushesOf(toServer)
    BY <2>1, ServerBusy
  <2>3. pending' = pending /\ silent' = silent
    BY <2>2 DEF sessionVars
  <2>4. CASE Head(toServer).index = pageNo /\ owed # {}
    <3>1. PICK batch \in SUBSET owed :
             /\ onPage' = batch /\ owed' = owed \ batch
             /\ toClient' = Append(toClient, [type |-> "SettingSyncPage",
                    index |-> pageNo + 1, total |-> Cardinality(batch),
                    last |-> batch = owed])
      BY <1>1, <2>4 DEF ServerStartsPage
    <3> DEFINE m == [type |-> "SettingSyncPage", index |-> pageNo + 1,
                     total |-> Cardinality(batch), last |-> batch = owed]
    <3>2. m \in ServerMsgs
      <4>1. owed \subseteq Paths /\ pageNo \in Nat \cup {-1}
        BY DEF TypeOK
      <4>2. pageNo + 1 \in Nat /\ Cardinality(batch) \in Nat
        BY <4>1, SizeType
      <4> QED
        BY <4>2, MessageTypes
    <3>3. m.type = "SettingSyncPage"
      OBVIOUS
    <3> HIDE DEF m
    <3>4. toClient' = Append(toClient, m)
      BY <3>1 DEF m
    <3>5. m.type \notin DetailTypes /\ m.type # "SettingSyncEnd"
          /\ m.type \notin {"SettingModify", "SettingModifyAck"}
      BY <3>3 DEF DetailTypes
    <3>6. FlightPaths(toClient') = FlightPaths(toClient) /\ Distinct(toClient')
      BY <1>0, <3>2, <3>4, <3>5, AppendOther DEF OnePlaceEach
    <3>7. PushesOf(toClient') \subseteq PushesOf(toClient)
      BY <1>0, <3>2, <3>4, <3>5, AppendMore
    <3>8. owed' \cup onPage' = owed \cup onPage /\ owed' \cap onPage' = {}
      BY <2>1, <3>1
    <3>9. OnePlaceEach'
      BY <1>0, <2>3, <3>6, <3>8 DEF OnePlaceEach
    <3>10. PushesApart'
      BY <1>0, <2>2, <2>3, <3>6, <3>7, <3>8 DEF PushesApart
    <3>11. Uncounted' = Uncounted
      BY <2>3, <3>6, <3>8 DEF Uncounted, Outstanding
    <3>12. ~Answering'
      BY <1>0, <2>2, <3>2, <3>4, <3>5, StillNoAnswer, AskingKind
    <3> QED
      BY <2>2, <3>9, <3>10, <3>11, <3>12
  <2>5. CASE ~(Head(toServer).index = pageNo /\ owed # {})
    <3>1. UNCHANGED <<owed, onPage, toClient>>
      BY <1>1, <2>5 DEF ServerStartsPage
    <3>2. OnePlaceEach' /\ Uncounted' = Uncounted /\ ~Answering'
      BY <1>0, <2>2, <2>3, <3>1 DEF OnePlaceEach, Uncounted, Outstanding, Answering
    <3>3. PushesApart'
      BY <1>0, <2>2, <2>3, <3>1 DEF PushesApart
    <3> QED
      BY <2>2, <3>2, <3>3
  <2> QED
    BY <2>4, <2>5
<1>2. CASE ServerSendsDetail
  <2>1. PICK p \in onPage : /\ onPage' = onPage \ {p}
                            /\ toClient' = Append(toClient, Detail(p))
                            /\ UNCHANGED <<phase, sessionVars, toServer, owed>>
    BY <1>2 DEF ServerSendsDetail
  <2> DEFINE d == Detail(p)
  <2>2. ~Asking /\ ~Answering
    BY <2>1 DEF SessionInv
  <2>3. p \in Paths /\ due[p] \in Decisions
    BY DEF TypeOK
  <2>4. d \in ServerMsgs /\ d.type \in DetailTypes /\ d.path = p
    BY <2>3, MessageTypes DEF Detail, Decisions
  <2>5. d.type # "SettingSyncEnd" /\ d.type \notin {"SettingModify", "SettingModifyAck"}
    BY <2>4 DEF DetailTypes
  <2> HIDE DEF d
  <2>6. toClient' = Append(toClient, d)
    BY <2>1 DEF d
  <2>7. pending' = pending /\ silent' = silent
    BY <2>1 DEF sessionVars
  <2>8. /\ p \notin FlightPaths(toClient) \cup pending \cup silent \cup owed
        /\ p \notin PushesOf(toServer) \cup PushesOf(toClient)
    BY <1>0 DEF OnePlaceEach, PushesApart
  <2>9. /\ FlightPaths(toClient') = FlightPaths(toClient) \cup {p} /\ Distinct(toClient')
    BY <1>0, <2>4, <2>6, <2>8, AppendDetail DEF OnePlaceEach
  <2>10. PushesOf(toClient') \subseteq PushesOf(toClient)
    BY <1>0, <2>4, <2>5, <2>6, AppendMore
  <2>11. OnePlaceEach'
    BY <1>0, <2>1, <2>7, <2>8, <2>9 DEF OnePlaceEach
  <2>12. PushesApart'
    BY <1>0, <2>1, <2>7, <2>8, <2>9, <2>10 DEF PushesApart
  <2>13. Uncounted' = Uncounted
    BY <2>1, <2>7, <2>9 DEF Uncounted, Outstanding
  <2>14. ~Asking' /\ ~Answering'
    BY <1>0, <2>1, <2>2, <2>4, <2>5, <2>6, StillNoAnswer, AskingKind, AskingKindNext
  <2> QED
    BY <2>1, <2>2, <2>11, <2>12, <2>13, <2>14
<1>3. CASE ServerAcceptsModify
  <2> DEFINE p == Head(toServer).path
             m == [type |-> "SettingModifyAck", path |-> p]
             acked == Append(toClient, m)
  <2>1. FromClient("SettingModify") /\ UNCHANGED <<owed, onPage>>
    BY <1>3 DEF ServerAcceptsModify, pageVars
  <2>2. MayBroadcast(acked, Change(p, Head(toServer).content))
    BY <1>3, Zenon DEF ServerAcceptsModify
  <2>3. Change(p, Head(toServer).content).type # "SettingSyncRename"
    BY DEF Change
  <2>4. /\ ~Asking /\ ~Answering /\ ~Asking' /\ UNCHANGED <<phase, sessionVars>>
        /\ PushesOf(toServer') \subseteq PushesOf(toServer)
        /\ p \in PushesOf(toServer)
    BY <2>1, ServerBusy
  <2>5. m \in ServerMsgs
    BY <2>1, RequestType, MessageTypes
  <2>6. m.type = "SettingModifyAck" /\ m.path = p
    OBVIOUS
  <2>7. toClient' = Append(toClient, m)
    BY <2>2, <2>3, Quiet
  <2> HIDE DEF m, acked, p
  <2>8. m.type \notin DetailTypes /\ m.type # "SettingSyncEnd"
    BY <2>6 DEF DetailTypes
  <2>9. FlightPaths(toClient') = FlightPaths(toClient) /\ Distinct(toClient')
    BY <1>0, <2>5, <2>7, <2>8, AppendOther DEF OnePlaceEach
  <2>10. PushesOf(toClient') \subseteq PushesOf(toClient) \cup {p}
    BY <1>0, <2>5, <2>6, <2>7, AppendMore
  <2>11. pending' = pending /\ silent' = silent
    BY <2>4 DEF sessionVars
  <2>12. OnePlaceEach' /\ Uncounted' = Uncounted
    BY <1>0, <2>1, <2>9, <2>11 DEF OnePlaceEach, Uncounted, Outstanding
  <2>13. PushesApart'
    BY <1>0, <2>1, <2>4, <2>9, <2>10, <2>11 DEF PushesApart
  <2>14. ~Answering'
    BY <1>0, <2>4, <2>5, <2>7, <2>8, StillNoAnswer, AskingKind
  <2> QED
    BY <2>4, <2>12, <2>13, <2>14
<1>4. CASE ServerAcceptsDelete
  <2> DEFINE p == Head(toServer).path
  <2>1. FromClient("SettingDelete") /\ UNCHANGED <<owed, onPage>>
    BY <1>4 DEF ServerAcceptsDelete, pageVars
  <2>2. MayBroadcast(toClient, Change(p, Absent)) \/ toClient' = toClient
    BY <1>4, Zenon DEF ServerAcceptsDelete
  <2>3. Change(p, Absent).type # "SettingSyncRename"
    BY DEF Change
  <2>4. toClient' = toClient
    BY <2>2, <2>3, Quiet
  <2>5. /\ ~Asking /\ ~Answering /\ ~Asking' /\ UNCHANGED <<phase, sessionVars>>
        /\ PushesOf(toServer') \subseteq PushesOf(toServer)
    BY <2>1, ServerBusy
  <2>6. pending' = pending /\ silent' = silent
    BY <2>5 DEF sessionVars
  <2>7. OnePlaceEach' /\ Uncounted' = Uncounted /\ ~Answering'
    BY <1>0, <2>1, <2>4, <2>5, <2>6 DEF OnePlaceEach, Uncounted, Outstanding, Answering
  <2>8. PushesApart'
    BY <1>0, <2>1, <2>4, <2>5, <2>6 DEF PushesApart
  <2> QED
    BY <2>5, <2>7, <2>8
<1> QED
  BY <1>1, <1>2, <1>3, <1>4 DEF ServerSteps

\* The answer names what the server owes, and nothing else is uncounted.
LEMMA ServerAnswers ==
    ASSUME TypeOK, TypeOK', SessionInv, ServerAnswersSync
    PROVE  /\ Asking /\ ~Asking' /\ phase = "syncing" /\ phase' = "syncing"
           /\ SessionInv'
<1> DEFINE end == [type |-> "SettingSyncEnd", count |-> Cardinality(owed'), last |-> clock]
<1>1. /\ toServer # <<>> /\ Head(toServer).type = "SettingSync"
      /\ toServer' = Tail(toServer) /\ UNCHANGED <<phase, sessionVars, onPage, pageNo>>
      /\ toClient' = Append(toClient, end)
  BY DEF ServerAnswersSync, FromClient
<1>2. toServer \in Seq(ClientMsgs) /\ toClient \in Seq(ServerMsgs)
  BY DEF TypeOK
<1>3. Len(toServer) \in Nat \ {0} /\ Head(toServer) = toServer[1] /\ Len(toClient) \in Nat
  BY <1>1, <1>2
<1>4. Asking
  BY <1>1, <1>3 DEF Asking
<1>5. /\ phase = "syncing" /\ received = 0 /\ pending = {} /\ onPage = {} /\ silent = {}
      /\ pageNo = -1 /\ ~gotEnd /\ ~page.active /\ ~complete
  BY <1>4 DEF SessionInv
<1>6. Len(toServer) = 1 /\ Len(toClient) = 0
  <2>1. Len(toServer) + Len(toClient) = 1
    BY <1>4 DEF SessionInv
  <2>2. \A a \in Nat \ {0}, b \in Nat : a + b = 1 => a = 1 /\ b = 0
    OBVIOUS
  <2> QED
    BY <1>3, <2>1, <2>2, ZenonT(30)
<1>7. toServer' = <<>> /\ toClient = <<>>
  BY <1>1, <1>2, <1>6
<1>8. toClient' = <<end>>
  BY <1>1, <1>7
<1>9. end.type = "SettingSyncEnd" /\ end.count = Cardinality(owed')
  OBVIOUS
<1> HIDE DEF end
<1>10. Len(toClient') = 1 /\ toClient'[1] = end /\ Len(toServer') = 0
  BY <1>7, <1>8
<1>11. Answering' /\ ~Asking' /\ Flight(toClient') = {}
       /\ PushesOf(toClient') = {} /\ PushesOf(toServer') = {}
  BY <1>9, <1>10 DEF Answering, Asking, Flight, DetailTypes, PushesOf
<1>12. /\ phase' = "syncing" /\ received' = 0 /\ pending' = {} /\ onPage' = {}
       /\ silent' = {} /\ pageNo' = -1 /\ ~gotEnd' /\ ~page'.active /\ ~complete'
  BY <1>1, <1>5 DEF sessionVars, countVars
<1>13. FlightPaths(toClient') = {}
  BY <1>11 DEF FlightPaths
<1>14. Outstanding' = owed'
  BY <1>12, <1>13 DEF Outstanding
<1>15. OnePlaceEach' /\ PushesApart'
  BY <1>11, <1>12, <1>13 DEF OnePlaceEach, PushesApart, Distinct
<1>16. toClient'[1].count = Cardinality(Outstanding')
  BY <1>9, <1>10, <1>14
<1>17. Len(toServer') + Len(toClient') = 1
  BY <1>10
<1>18. SessionInv'
  BY <1>11, <1>12, <1>15, <1>16, <1>17 DEF SessionInv
<1> QED
  BY <1>4, <1>5, <1>11, <1>12, <1>18

\* What a broadcast adds to a channel is not an answer.
LEMMA BroadcastKinds ==
    ASSUME NEW channel \in Seq(ServerMsgs), "SettingSyncEnd" \notin Kinds(channel),
           NEW m \in ServerMsgs, m.type # "SettingSyncEnd", MayBroadcast(channel, m)
    PROVE  ~Answering'
  BY StillNoAnswer DEF MayBroadcast

\* In the live phase the server may send anything but an answer.
LEMMA ServerLive ==
    ASSUME TypeOK, TypeOK', SessionInv, phase = "live", ServerSteps
    PROVE  phase' = "live" /\ complete' = complete /\ ~Asking' /\ ~Answering'
<1>0. /\ toServer \in Seq(ClientMsgs) /\ toClient \in Seq(ServerMsgs)
      /\ ~Asking /\ ~Answering /\ "SettingSyncEnd" \notin Kinds(toClient)
  BY AskingKind DEF TypeOK, SessionInv
<1>1. CASE ServerAnswersSync
  BY <1>0, <1>1, ServerAnswers
<1>2. CASE ServerStartsPage
  <2>1. FromClient("SettingSyncPageAck")
    BY <1>2 DEF ServerStartsPage
  <2>2. ~Asking' /\ UNCHANGED <<phase, sessionVars>>
    BY <2>1, ServerBusy
  <2>3. \/ toClient' = toClient
        \/ \E batch \in SUBSET owed : toClient' = Append(toClient,
              [type |-> "SettingSyncPage", index |-> pageNo + 1,
               total |-> Cardinality(batch), last |-> batch = owed])
    <3>1. CASE Head(toServer).index = pageNo /\ owed # {}
      BY <1>2, <3>1 DEF ServerStartsPage
    <3>2. CASE ~(Head(toServer).index = pageNo /\ owed # {})
      BY <1>2, <3>2 DEF ServerStartsPage
    <3> QED
      BY <3>1, <3>2
  <2>4. ~Answering'
    <3>1. CASE toClient' = toClient
      BY <1>0, <3>1, AskingKindNext
    <3>2. ASSUME NEW batch \in SUBSET owed, toClient' = Append(toClient,
              [type |-> "SettingSyncPage", index |-> pageNo + 1,
               total |-> Cardinality(batch), last |-> batch = owed])
          PROVE  ~Answering'
      <4> DEFINE m == [type |-> "SettingSyncPage", index |-> pageNo + 1,
                       total |-> Cardinality(batch), last |-> batch = owed]
                 S == ServerMsgs \cup {m}
      <4>1. m.type = "SettingSyncPage" /\ toClient \in Seq(S) /\ m \in S
        BY <1>0
      <4> HIDE DEF m, S
      <4>2. toClient' = Append(toClient, m)
        BY <3>2 DEF m
      <4>3. Kinds(toClient') \subseteq Kinds(toClient) \cup {m.type}
        BY <4>1, <4>2, AppendMore
      <4> QED
        BY <1>0, <4>1, <4>3, AskingKindNext
    <3> QED
      BY <2>3, <3>1, <3>2
  <2> QED
    BY <2>2, <2>4 DEF sessionVars
<1>3. CASE ServerSendsDetail
  <2>1. PICK p \in onPage : /\ toClient' = Append(toClient, Detail(p))
                            /\ UNCHANGED <<phase, sessionVars, toServer>>
    BY <1>3 DEF ServerSendsDetail
  <2>2. p \in Paths /\ due[p] \in Decisions
    BY DEF TypeOK
  <2>3. Detail(p) \in ServerMsgs /\ Detail(p).type # "SettingSyncEnd"
    BY <2>2, MessageTypes DEF Detail, Decisions, DetailTypes
  <2>4. ~Asking' /\ ~Answering'
    BY <1>0, <2>1, <2>3, StillNoAnswer, AskingKind, AskingKindNext
  <2> QED
    BY <2>1, <2>4 DEF sessionVars
<1>4. CASE ServerAcceptsModify
  <2> DEFINE p == Head(toServer).path
             c == Head(toServer).content
             m == [type |-> "SettingModifyAck", path |-> p]
             acked == Append(toClient, m)
  <2>1. FromClient("SettingModify")
    BY <1>4 DEF ServerAcceptsModify
  <2>2. MayBroadcast(acked, Change(p, c))
    BY <1>4, Zenon DEF ServerAcceptsModify
  <2>3. ~Asking' /\ UNCHANGED <<phase, sessionVars>>
    BY <2>1, ServerBusy
  <2>4. m \in ServerMsgs /\ Change(p, c) \in ServerMsgs
    BY <2>1, RequestType, MessageTypes
  <2>5. m.type # "SettingSyncEnd" /\ Change(p, c).type # "SettingSyncEnd"
    BY DEF Change
  <2> HIDE DEF m, p, c
  <2>6. acked \in Seq(ServerMsgs) /\ "SettingSyncEnd" \notin Kinds(acked)
    BY <1>0, <2>4, <2>5, AppendMore
  <2> HIDE DEF acked
  <2>7. ~Answering'
    BY <2>2, <2>4, <2>5, <2>6, BroadcastKinds
  <2> QED
    BY <2>3, <2>7 DEF sessionVars
<1>5. CASE ServerAcceptsDelete
  <2> DEFINE p == Head(toServer).path
  <2>1. FromClient("SettingDelete")
    BY <1>5 DEF ServerAcceptsDelete
  <2>2. MayBroadcast(toClient, Change(p, Absent)) \/ toClient' = toClient
    BY <1>5, Zenon DEF ServerAcceptsDelete
  <2>3. ~Asking' /\ UNCHANGED <<phase, sessionVars>>
    BY <2>1, ServerBusy
  <2>4. Change(p, Absent) \in ServerMsgs
    BY <2>1, RequestType, MessageTypes
  <2>5. Change(p, Absent).type # "SettingSyncEnd"
    BY DEF Change
  <2> HIDE DEF p
  <2>6. ~Answering'
    BY <1>0, <2>2, <2>4, <2>5, BroadcastKinds, AskingKindNext
  <2> QED
    BY <2>3, <2>6 DEF sessionVars
<1> QED
  BY <1>1, <1>2, <1>3, <1>4, <1>5 DEF ServerSteps

\* There is no server step while the client is not connected.
LEMMA ServerConnected ==
    ASSUME TypeOK, SessionInv, ServerSteps
    PROVE  phase \in {"syncing", "live"}
  BY DEF ServerSteps, ServerAnswersSync, ServerStartsPage, ServerSendsDetail,
         ServerAcceptsModify, ServerAcceptsDelete, FromClient, SessionInv, TypeOK

LEMMA ServerSession ==
    ASSUME QuietInSync, TypeOK, TypeOK', SessionInv, ServerSteps
    PROVE  SessionInv'
<1>1. CASE ServerAnswersSync
  BY <1>1, ServerAnswers
<1>2. CASE phase = "syncing" /\ ~ServerAnswersSync
  BY <1>2, ServerMoves, PathsMoved
<1>3. CASE phase = "live"
  BY <1>3, ServerLive, LiveSession
<1> QED
  BY <1>1, <1>2, <1>3, ServerConnected

\* The user leaves the session alone, and so do the other devices, but for a
\* rename that arrives among the pages, which is no detail.
LEMMA ChangesMove ==
    ASSUME QuietInSync, TypeOK, TypeOK', SessionInv, Changes
    PROVE  /\ UNCHANGED <<phase, sessionVars, owed, onPage, pageNo, toServer>>
           /\ \/ toClient' = toClient
              \/ phase # "idle" /\ \E m \in ServerMsgs :
                    /\ m.type # "SettingSyncEnd" /\ toClient' = Append(toClient, m)
                    /\ phase = "syncing" => m.type = "SettingSyncRename" /\ pageNo >= 0
<1>1. ASSUME NEW p \in Paths, NEW c \in Contents \cup {Absent}, UserChanges(p, c)
      PROVE  UNCHANGED <<phase, sessionVars, owed, onPage, pageNo, toServer, toClient>>
  BY <1>1 DEF UserChanges, pageVars
<1>2. ASSUME NEW p \in Paths, NEW q \in Paths, UserRenames(p, q)
      PROVE  UNCHANGED <<phase, sessionVars, owed, onPage, pageNo, toServer, toClient>>
  BY <1>2 DEF UserRenames, pageVars
<1>3. ASSUME NEW m \in ServerMsgs, m.type # "SettingSyncEnd", MayBroadcast(toClient, m)
      PROVE  \/ toClient' = toClient
             \/ phase # "idle" /\ \E n \in ServerMsgs :
                   /\ n.type # "SettingSyncEnd" /\ toClient' = Append(toClient, n)
                   /\ phase = "syncing" => n.type = "SettingSyncRename" /\ pageNo >= 0
  <2>1. CASE toClient' = toClient
    BY <2>1
  <2>2. CASE Hears(m.type) /\ toClient' = Append(toClient, m)
    <3>1. phase # "idle" /\ (phase = "syncing" => m.type = "SettingSyncRename" /\ pageNo >= 0)
      BY <2>2 DEF Hears
    <3> QED
      BY <1>3, <2>2, <3>1
  <2> QED
    BY <1>3, <2>1, <2>2 DEF MayBroadcast
<1>4. ASSUME NEW p \in Paths, NEW c \in Sendable \cup {Absent}, RemoteChanges(p, c)
      PROVE  /\ UNCHANGED <<phase, sessionVars, owed, onPage, pageNo, toServer>>
             /\ \E m \in ServerMsgs : m.type # "SettingSyncEnd" /\ MayBroadcast(toClient, m)
  <2>1. UNCHANGED <<phase, sessionVars, owed, onPage, pageNo, toServer>>
        /\ MayBroadcast(toClient, Change(p, c))
    BY <1>4 DEF RemoteChanges, pageVars
  <2>2. Change(p, c) \in ServerMsgs
    BY MessageTypes
  <2>3. Change(p, c).type # "SettingSyncEnd"
    BY DEF Change
  <2> QED
    BY <2>1, <2>2, <2>3
<1>5. ASSUME NEW p \in Paths, NEW q \in Paths, RemoteRenames(p, q)
      PROVE  /\ UNCHANGED <<phase, sessionVars, owed, onPage, pageNo, toServer>>
             /\ \E m \in ServerMsgs : m.type # "SettingSyncEnd" /\ MayBroadcast(toClient, m)
  <2> DEFINE m == [type |-> "SettingSyncRename", old |-> p, path |-> q]
  <2>1. UNCHANGED <<phase, sessionVars, owed, onPage, pageNo, toServer>>
        /\ MayBroadcast(toClient, m)
    BY <1>5 DEF RemoteRenames, pageVars
  <2>2. m \in ServerMsgs
    BY MessageTypes
  <2>3. m.type # "SettingSyncEnd"
    OBVIOUS
  <2> HIDE DEF m
  <2> QED
    BY <2>1, <2>2, <2>3
<1> QED
  BY <1>1, <1>2, <1>3, <1>4, <1>5 DEF Changes

\* A rename among the pages changes nothing that counts.
LEMMA RenameMoves ==
    ASSUME TypeOK, SessionInv, phase = "syncing", pageNo >= 0,
           NEW m \in ServerMsgs, m.type = "SettingSyncRename",
           toClient' = Append(toClient, m),
           UNCHANGED <<phase, sessionVars, owed, onPage, toServer>>
    PROVE  /\ ~Asking /\ ~Answering /\ ~Asking' /\ ~Answering'
           /\ OnePlaceEach' /\ PushesApart' /\ Uncounted' = Uncounted
<1>1. toClient \in Seq(ServerMsgs) /\ OnePlaceEach /\ PushesApart
  BY DEF TypeOK, SessionInv
<1>2. ~Asking /\ ~Answering
  BY DEF SessionInv
<1>3. m.type \notin DetailTypes /\ m.type # "SettingSyncEnd"
      /\ m.type \notin {"SettingModify", "SettingModifyAck"}
  BY DEF DetailTypes
<1>4. ~Asking' /\ ~Answering'
  BY <1>1, <1>2, <1>3, StillNoAnswer, AskingKind, AskingKindNext
<1>5. FlightPaths(toClient') = FlightPaths(toClient) /\ Distinct(toClient')
  BY <1>1, <1>3, AppendOther DEF OnePlaceEach
<1>6. PushesOf(toClient') \subseteq PushesOf(toClient)
  BY <1>1, <1>3, AppendMore
<1>7. pending' = pending /\ silent' = silent
  BY DEF sessionVars
<1>8. OnePlaceEach' /\ Uncounted' = Uncounted
  BY <1>1, <1>5, <1>7 DEF OnePlaceEach, Uncounted, Outstanding
<1>9. PushesApart'
  BY <1>1, <1>5, <1>6, <1>7 DEF PushesApart
<1> QED
  BY <1>2, <1>4, <1>8, <1>9

LEMMA ChangesSession ==
    ASSUME QuietInSync, TypeOK, TypeOK', SessionInv, Changes
    PROVE  SessionInv'
<1>1. UNCHANGED <<phase, sessionVars, owed, onPage, pageNo, toServer>>
  BY ChangesMove
<1>2. CASE toClient' = toClient
  BY <1>1, <1>2, SessionFrame DEF sessionVars, countVars
<1>3. ASSUME phase # "idle", NEW m \in ServerMsgs, m.type # "SettingSyncEnd",
             toClient' = Append(toClient, m),
             phase = "syncing" => m.type = "SettingSyncRename" /\ pageNo >= 0
      PROVE  SessionInv'
  <2>1. CASE phase = "syncing"
    BY <1>1, <1>3, <2>1, RenameMoves, PathsMoved
  <2>2. CASE phase = "live"
    <3>1. ~Asking /\ ~Answering /\ toClient \in Seq(ServerMsgs)
      BY <2>2 DEF SessionInv, TypeOK
    <3>2. ~Asking' /\ ~Answering'
      BY <1>1, <1>3, <3>1, StillNoAnswer, AskingKind, AskingKindNext
    <3> QED
      BY <1>1, <2>2, <3>2, LiveSession
  <2> QED
    BY <1>3, <2>1, <2>2 DEF TypeOK
<1> QED
  BY <1>2, <1>3, ChangesMove

\* It holds initially.
LEMMA SessionInit == Init => SessionInv
<1> SUFFICES ASSUME Init PROVE SessionInv
  OBVIOUS
<1>1. ~Asking /\ ~Answering
  BY DEF Init, Asking, Answering
<1> QED
  BY <1>1 DEF Init, SessionInv

\* While the server keeps quiet during a sync, each path is in one place only,
\* the request and SettingSyncEnd travel alone, and from SettingSyncEnd on the
\* counters differ by the number of paths that nothing has counted
\* (handle_setting_end, handle_setting_modify and its like, push_modify,
\* handle_setting_modify_ack, check_all_received).
THEOREM SessionInvariant ==
    ASSUME QuietInSync
    PROVE  Spec => []SessionInv
<1>1. TypeOK /\ TypeOK' /\ SessionInv /\ [Next]_vars => SessionInv'
  <2> SUFFICES ASSUME TypeOK, TypeOK', SessionInv, [Next]_vars PROVE SessionInv'
    OBVIOUS
  <2>1. CASE UNCHANGED vars
    <3>1. UNCHANGED <<phase, sessionVars, toServer, toClient, pageVars>>
      BY <2>1 DEF vars
    <3> QED
      BY <3>1, SessionFrame DEF sessionVars, countVars, pageVars
  <2> QED
    BY <2>1, ClientSession, OutsideSession, ServerSession, ChangesSession DEF Next
<1> QED
  BY <1>1, SessionInit, TypeCorrect, PTL DEF Spec
---------------------------------------------------------------------------
(* The contract of a sync.                                                 *)

Left == IF phase = "syncing" THEN Uncounted ELSE {}

\* The abstract session under the refinement mapping, spelled out: what each
\* of its steps asks of the mapped variables.
LEMMA AbstractSteps ==
    /\ UNCHANGED <<Stage, Left>> => [Session!Next]_Session!vars
    /\ Stage = "idle" /\ Stage' = "asked" /\ Left' = {} => Session!Next
    /\ Stage = "asked" /\ Stage' = "answered" /\ Left' \subseteq Paths => Session!Next
    /\ \A p \in Left :
          /\ Stage = "answered" /\ p \in Paths /\ Left' = Left \ {p}
          /\ Stage' = "answered" \/ (Stage' = "returned" /\ Left' = {})
          => Session!Next
    /\ Stage = "answered" /\ Stage' = "returned" /\ Left = {} /\ Left' = {}
          => Session!Next
    /\ Stage' = "idle" /\ Left' = {} => Session!Next
<1>1. UNCHANGED <<Stage, Left>> => [Session!Next]_Session!vars
  BY DEF Session!vars, Left
<1>2. Stage = "idle" /\ Stage' = "asked" /\ Left' = {} => Session!Next
  BY DEF Session!Next, Session!Ask, Left
<1>3. Stage = "asked" /\ Stage' = "answered" /\ Left' \subseteq Paths => Session!Next
  BY DEF Session!Next, Session!Answer, Left
<1>4. \A p \in Left :
        /\ Stage = "answered" /\ p \in Paths /\ Left' = Left \ {p}
        /\ Stage' = "answered" \/ (Stage' = "returned" /\ Left' = {})
        => Session!Next
  BY DEF Session!Next, Session!Settle, Session!MayReturn, Left
<1>5. Stage = "answered" /\ Stage' = "returned" /\ Left = {} /\ Left' = {} => Session!Next
  BY DEF Session!Next, Session!Return, Left
<1>6. Stage' = "idle" /\ Left' = {} => Session!Next
  BY DEF Session!Next, Session!GiveUp, Left
<1> QED
  BY <1>1, <1>2, <1>3, <1>4, <1>5, <1>6

\* A step that leaves the phase, what is uncounted, the request and the
\* completion alone leaves the session alone.
LEMMA SessionStutters ==
    ASSUME phase' = phase, complete' = complete,
           phase = "syncing" => Uncounted' = Uncounted /\ (Asking' <=> Asking)
    PROVE  UNCHANGED <<Stage, Left>>
  BY DEF Stage, Left

\* A turn of the loop settles at most one path of the abstract session, and
\* returns when none is left; a time-out gives it up.
LEMMA ClientContract ==
    ASSUME TypeOK, TypeOK', SessionInv, ClientReceives
    PROVE  [Session!Next]_Session!vars
<1>1. /\ phase = "syncing" /\ (complete' => Uncounted' = {})
      /\ phase' = "live" \/ (phase' = "syncing" /\ ~complete')
  BY ClientTurns
<1>2. /\ ~Asking /\ ~Asking'
      /\ \/ Uncounted' = Uncounted
         \/ \E p \in Uncounted : Uncounted' = Uncounted \ {p}
  BY ClientCounts DEF LoopCounts
<1>3. Stage = "answered" /\ Left = Uncounted /\ Uncounted \subseteq Paths
  BY <1>1, <1>2, UncountedType DEF Stage, Left
<1>4. CASE phase' = "syncing"
  <2>1. Stage' = "answered" /\ Left' = Uncounted'
    BY <1>2, <1>4 DEF Stage, Left
  <2> QED
    BY <1>2, <1>3, <2>1, AbstractSteps
<1>5. CASE phase' = "live" /\ complete'
  <2>1. Uncounted' = {} /\ Stage' = "returned" /\ Left' = {}
    BY <1>1, <1>5 DEF Stage, Left
  <2> QED
    BY <1>2, <1>3, <2>1, AbstractSteps
<1>6. CASE phase' = "live" /\ ~complete'
  <2>1. Stage' = "idle" /\ Left' = {}
    BY <1>6 DEF Stage, Left
  <2> QED
    BY <2>1, AbstractSteps
<1> QED
  BY <1>1, <1>4, <1>5, <1>6

\* The steps of the client outside the loop: they begin a session, give one up,
\* or leave it alone.
LEMMA OutsideContract ==
    ASSUME TypeOK, SessionInv,
           \/ RequestSync \/ HandlerFails \/ LiveReceive \/ LiveHandlerFails
           \/ HandleWatchEvent \/ PushFails \/ Disconnect \/ Restart
    PROVE  [Session!Next]_Session!vars
<1>1. CASE RequestSync
  <2>1. Stage = "idle"
    BY <1>1 DEF RequestSync, Stage
  <2>2. /\ phase' = "syncing" /\ pending' = {} /\ silent' = {} /\ toClient' = <<>>
        /\ owed' = {} /\ onPage' = {}
        /\ toServer' = <<[type |-> "SettingSync", last |-> lastTime,
                          settings |-> LocalSettings]>>
    BY <1>1 DEF RequestSync, ResetCounters, SessionInv, pageVars
  <2>3. Asking'
    BY <2>2 DEF Asking
  <2>4. Stage' = "asked" /\ Left' = {}
    BY <2>2, <2>3 DEF Stage, Left, Uncounted, Outstanding, FlightPaths, Flight
  <2> QED
    BY <2>1, <2>4, AbstractSteps
<1>2. CASE HandlerFails
  <2>1. phase = "syncing" /\ phase' = "live" /\ complete' = complete
    BY <1>2 DEF HandlerFails, sessionVars
  <2>2. ~complete
    BY <2>1 DEF SessionInv
  <2>3. Stage' = "idle" /\ Left' = {}
    BY <2>1, <2>2 DEF Stage, Left
  <2> QED
    BY <2>3, AbstractSteps
<1>3. CASE LiveReceive \/ LiveHandlerFails \/ HandleWatchEvent
  <2>1. phase = "live" /\ phase' = "live" /\ complete' = complete
    BY <1>3 DEF LiveReceive, LiveHandlerFails, HandleWatchEvent, sessionVars
  <2>2. UNCHANGED <<Stage, Left>>
    BY <2>1 DEF Stage, Left
  <2> QED
    BY <2>2, AbstractSteps
<1>4. CASE PushFails \/ Disconnect \/ Restart
  <2>1. phase' = "idle"
    BY <1>4 DEF PushFails, Disconnect, Restart, ConnectionLost
  <2>2. Stage' = "idle" /\ Left' = {}
    BY <2>1 DEF Stage, Left
  <2> QED
    BY <2>2, AbstractSteps
<1> QED
  BY <1>1, <1>2, <1>3, <1>4

\* The server's answer names what differs; its other steps move paths between
\* the places where they are outstanding.
LEMMA ServerContract ==
    ASSUME QuietInSync, TypeOK, TypeOK', SessionInv, ServerSteps
    PROVE  [Session!Next]_Session!vars
<1>1. CASE ServerAnswersSync
  <2>1. Asking /\ ~Asking' /\ phase = "syncing" /\ phase' = "syncing"
    BY <1>1, ServerAnswers
  <2>2. Uncounted' \subseteq Paths
    BY UncountedTypeNext
  <2>3. Stage = "asked" /\ Stage' = "answered" /\ Left' \subseteq Paths
    BY <2>1, <2>2 DEF Stage, Left
  <2> QED
    BY <2>3, AbstractSteps
<1>2. CASE phase = "syncing" /\ ~ServerAnswersSync
  <2>1. /\ ~Asking /\ ~Asking' /\ Uncounted' = Uncounted
        /\ UNCHANGED <<phase, sessionVars>>
    BY <1>2, ServerMoves
  <2>2. UNCHANGED <<Stage, Left>>
    BY <2>1, SessionStutters DEF sessionVars
  <2> QED
    BY <2>2, AbstractSteps
<1>3. CASE phase = "live"
  <2>1. phase' = "live" /\ complete' = complete
    BY <1>3, ServerLive
  <2>2. UNCHANGED <<Stage, Left>>
    BY <1>3, <2>1 DEF Stage, Left
  <2> QED
    BY <2>2, AbstractSteps
<1> QED
  BY <1>1, <1>2, <1>3, ServerConnected

\* The user and the other devices leave the session alone.
LEMMA ChangesContract ==
    ASSUME QuietInSync, TypeOK, TypeOK', SessionInv, Changes
    PROVE  [Session!Next]_Session!vars
<1>1. UNCHANGED <<phase, sessionVars, owed, onPage, pageNo, toServer>>
  BY ChangesMove
<1>2. complete' = complete /\ pending' = pending /\ silent' = silent
  BY <1>1 DEF sessionVars
<1>3. phase = "syncing" => Uncounted' = Uncounted /\ (Asking' <=> Asking)
  <2>1. CASE toClient' = toClient
    BY <1>1, <1>2, <2>1 DEF Uncounted, Outstanding, Asking
  <2>2. ASSUME phase = "syncing", NEW m \in ServerMsgs, m.type = "SettingSyncRename",
               pageNo >= 0, toClient' = Append(toClient, m)
        PROVE  Uncounted' = Uncounted /\ (Asking' <=> Asking)
    BY <1>1, <2>2, RenameMoves
  <2> QED
    BY <2>1, <2>2, ChangesMove
<1>4. UNCHANGED <<Stage, Left>>
  BY <1>1, <1>2, <1>3, SessionStutters
<1> QED
  BY <1>4, AbstractSteps

\* The setting sync keeps the contract of a sync: once the server has named
\* what differs, each path is counted once, none is added, and the sync is
\* complete only when none is left, whatever the pages, acknowledgements,
\* renames among the pages, failures, time-outs, disconnections and restarts
\* (request_sync, process_setting_sync_messages, handle_setting_message,
\* check_all_received, finish_page_if_needed), while the server keeps quiet
\* during a sync.
THEOREM ContractKept ==
    ASSUME QuietInSync
    PROVE  Spec => KeepsContract
<1>1. Init => Session!Init
  BY DEF Init, Session!Init, Stage
<1>2. TypeOK /\ TypeOK' /\ SessionInv /\ [Next]_vars => [Session!Next]_Session!vars
  <2> SUFFICES ASSUME TypeOK, TypeOK', SessionInv, [Next]_vars
               PROVE  [Session!Next]_Session!vars
    OBVIOUS
  <2>1. CASE UNCHANGED vars
    <3>1. UNCHANGED <<phase, sessionVars, toServer, toClient, pageVars>>
      BY <2>1 DEF vars
    <3>2. phase' = phase /\ complete' = complete /\ Uncounted' = Uncounted
          /\ (Asking' <=> Asking)
      BY <3>1 DEF sessionVars, pageVars, Uncounted, Outstanding, Asking
    <3>3. UNCHANGED <<Stage, Left>>
      BY <3>2, SessionStutters
    <3> QED
      BY <3>3, AbstractSteps
  <2> QED
    BY <2>1, ClientContract, OutsideContract, ServerContract, ChangesContract DEF Next
<1> QED
  BY <1>1, <1>2, TypeCorrect, SessionInvariant, PTL DEF Spec, KeepsContract, Session!Spec

---------------------------------------------------------------------------
(* Why an incremental sync may ask only for what changed after             *)
(* last_setting_sync_time.  The time of the running sync is the server's   *)
(* clock when it answered.  What the server owed then is either still      *)
(* uncounted, and what is on its way is the server's copy unless that has  *)
(* changed since, or it has been handled, and the vault agrees with the    *)
(* server unless either has changed since.  A sync that is timed out takes *)
(* its time over all the same: what was uncounted then is cut off.         *)

Msgs(channel) == { channel[i] : i \in 1..Len(channel) }

\* The time that the running sync will commit.
SyncTime == IF Answering THEN toClient[1].last ELSE pendingLast

TimesOrdered ==
    /\ \A p \in Paths : srv[p].time <= clock
    /\ saved <= lastTime /\ lastTime <= clock
    /\ pendingLast <= clock /\ SyncTime <= clock
    /\ phase # "idle" /\ ~Asking => lastTime <= SyncTime

\* A file that collect_local_settings leaves out, and only that, was never the
\* server's.
OnlyUsers == \A p \in Paths : disk[p] \in Sendable \cup {Absent} \/ p \in edited

\* The request lists what the vault holds.
AskedTruth ==
    Asking => /\ toServer[1].last = lastTime
              /\ \A p \in Paths \ (edited \cup Excluded) : toServer[1].settings[p] = disk[p]

\* The vault has what the server had when the sync was answered, unless either
\* has changed since.
Settled(p) ==
    p \notin edited \cup Excluded /\ srv[p].time <= SyncTime => disk[p] = srv[p].content

\* A detail tells what the server has, if that is not newer than the sync.
Current(d) ==
    srv[d.path].time <= SyncTime =>
        /\ d.type = "SettingSyncModify" => d.content = srv[d.path].content
        /\ d.type = "SettingSyncDelete" => srv[d.path].content = Absent
        /\ d.type = "SettingSyncMtime" => Settled(d.path)
        /\ d.type = "SettingSyncNeedUpload"
             => disk[d.path] \in Contents \ Binary \/ Settled(d.path)

\* So do the other messages: an acknowledgement and a rename tell of changes
\* that are newer than the sync.
Truthful(m) ==
    /\ m.type \in DetailTypes => Current(m)
    /\ m.type = "SettingModifyAck" => srv[m.path].time > SyncTime
    /\ m.type = "SettingSyncRename" => srv[m.old].time > SyncTime /\ srv[m.path].time > SyncTime

OnTheirWay ==
    /\ \A m \in Msgs(toClient) : Truthful(m)
    /\ \A p \in owed \cup onPage : Current(Detail(p))

\* What the sync counts no more is settled.
HandledNow == \A p \in Paths \ (Uncounted \cup cutOff) : Settled(p)
Handled == phase = "syncing" /\ ~Asking => HandledNow

TimesInv ==
    /\ TimesOrdered /\ OnlyUsers /\ AskedTruth /\ OnTheirWay /\ Handled
    /\ MissedOnlyByTimeOut
---------------------------------------------------------------------------
(* Channels and the vault.                                                 *)

LEMMA MsgsTail ==
    ASSUME NEW S, NEW s \in Seq(S), s # <<>>
    PROVE  Msgs(Tail(s)) \subseteq Msgs(s) /\ Head(s) \in Msgs(s)
  BY TailShift DEF Msgs

LEMMA MsgsAppend ==
    ASSUME NEW S, NEW s \in Seq(S), NEW m \in S
    PROVE  Msgs(Append(s, m)) \subseteq Msgs(s) \cup {m}
<1> DEFINE t == Append(s, m)
<1>1. /\ t[Len(s) + 1] = m /\ \A i \in 1..Len(s) : t[i] = s[i]
      /\ \A i \in 1..Len(t) : i \in 1..Len(s) \/ i = Len(s) + 1
  BY AppendShift
<1> HIDE DEF t
<1>2. Msgs(t) \subseteq Msgs(s) \cup {m}
  BY <1>1 DEF Msgs
<1> QED
  BY <1>2 DEF t

LEMMA MsgsType == TypeOK => Msgs(toClient) \subseteq ServerMsgs
  BY DEF TypeOK, Msgs

\* The paths that a message names.
LEMMA MessageFiles ==
    ASSUME NEW m \in ServerMsgs
    PROVE  /\ m.type \in DetailTypes => m \in Details /\ m.path \in Paths
           /\ m.type = "SettingModifyAck" => m.path \in Paths
           /\ m.type = "SettingSyncRename" => m.old \in Paths /\ m.path \in Paths
  BY DEF ServerMsgs, Details, DetailTypes

LEMMA DueDetail ==
    ASSUME TypeOK, NEW p \in Paths
    PROVE  Detail(p).path = p /\ Detail(p).type = due[p].type
           /\ Detail(p).type \in DetailTypes /\ Detail(p).content = due[p].content
  BY DEF TypeOK, Detail, Decisions

\* The answer to the request is the only message there is.
LEMMA AnswerAlone ==
    ASSUME TypeOK, SessionInv, Answering
    PROVE  /\ Len(toClient) = 1 /\ toClient # <<>> /\ toClient[1] = Head(toClient)
           /\ toClient[1].type = "SettingSyncEnd" /\ toClient[1].last \in Nat
<1>1. toClient \in Seq(ServerMsgs) /\ toServer \in Seq(ClientMsgs)
  BY DEF TypeOK
<1>2. Len(toServer) + Len(toClient) = 1
  BY DEF SessionInv
<1>3. PICK i \in 1..Len(toClient) : toClient[i].type = "SettingSyncEnd"
  BY DEF Answering
<1>4. Len(toServer) \in Nat /\ Len(toClient) \in Nat
  BY <1>1
<1>5. Len(toClient) = 1 /\ i = 1
  <2>1. \A a, b \in Nat : \A j \in 1..b : a + b = 1 => b = 1 /\ j = 1
    OBVIOUS
  <2> QED
    BY <1>2, <1>3, <1>4, <2>1, ZenonT(30)
<1>6. toClient # <<>> /\ toClient[1] = Head(toClient)
  BY <1>1, <1>5
<1> QED
  BY <1>3, <1>5, <1>6, HeadType

LEMMA SyncTimeType == TypeOK /\ SessionInv => SyncTime \in Nat
  BY AnswerAlone DEF SyncTime, TypeOK
---------------------------------------------------------------------------
(* What a step may do to a path: nothing, or it settles it, or the user     *)
(* changes it, or the server has a change that is newer than any sync.      *)

VaultStep ==
    \A p \in Paths :
        \/ /\ disk'[p] = disk[p] /\ srv'[p] = srv[p]
           /\ p \in edited' <=> p \in edited
        \/ Settled(p)' /\ srv'[p] = srv[p] /\ phase # "idle" /\ ~Asking
        \/ p \in edited' /\ srv'[p] = srv[p]
        \/ srv'[p].time > clock

\* What is settled stays so.
LEMMA SettledStays ==
    ASSUME TypeOK, TypeOK', SessionInv, TimesOrdered, VaultStep, SyncTime' = SyncTime,
           NEW p \in Paths, Settled(p)
    PROVE  Settled(p)'
<1>1. SyncTime \in Nat /\ clock \in Nat /\ SyncTime <= clock /\ srv'[p].time \in Nat
  BY SyncTimeType DEF TypeOK, TimesOrdered
<1>2. CASE srv'[p].time > clock
  BY <1>1, <1>2 DEF Settled
<1>3. CASE srv'[p] = srv[p] /\ disk'[p] = disk[p] /\ (p \in edited' <=> p \in edited)
  BY <1>3 DEF Settled
<1>4. CASE p \in edited'
  BY <1>4 DEF Settled
<1> QED
  BY <1>2, <1>3, <1>4 DEF VaultStep

\* What a message tells stays true.
LEMMA TruthStays ==
    ASSUME TypeOK, TypeOK', SessionInv, TimesOrdered, VaultStep, SyncTime' = SyncTime
    PROVE  /\ \A m \in ServerMsgs : Truthful(m) => Truthful(m)'
           /\ \A p \in Paths : Current(Detail(p)) /\ due' = due => Current(Detail(p))'
<1>1. SyncTime \in Nat /\ clock \in Nat /\ SyncTime <= clock
      /\ \A p \in Paths : srv'[p].time \in Nat
  BY SyncTimeType DEF TypeOK, TimesOrdered
<1>2. \A p \in Paths : srv'[p] = srv[p] \/ srv'[p].time > SyncTime
  BY <1>1 DEF VaultStep
<1>3. ASSUME NEW d, d.path \in Paths, Current(d)
      PROVE  Current(d)'
  <2> DEFINE p == d.path
  <2>1. CASE srv'[p].time > SyncTime
    BY <1>1, <1>3, <2>1 DEF Current
  <2>2. CASE srv'[p] = srv[p]
    <3>1. Settled(p) => Settled(p)'
      BY <1>3, SettledStays
    <3>2. disk'[p] = disk[p] \/ Settled(p)' \/ srv'[p].time > SyncTime
      BY <1>1, <1>3 DEF VaultStep, Settled
    <3> QED
      BY <1>1, <1>3, <2>2, <3>1, <3>2 DEF Current
  <2> QED
    BY <1>2, <1>3, <2>1, <2>2
<1>4. ASSUME NEW m \in ServerMsgs, Truthful(m) PROVE Truthful(m)'
  <2>1. m.type \in DetailTypes => Current(m)'
    BY <1>3, <1>4, MessageFiles DEF Truthful
  <2>2. \A p \in Paths : srv[p].time > SyncTime => srv'[p].time > SyncTime
    BY <1>2
  <2> QED
    BY <1>4, <2>1, <2>2, MessageFiles DEF Truthful
<1>5. ASSUME NEW p \in Paths, Current(Detail(p)), due' = due PROVE Current(Detail(p))'
  <2> DEFINE d == Detail(p)
  <2>1. d.path \in Paths /\ d' = d
    BY <1>5, DueDetail DEF Detail
  <2> HIDE DEF d
  <2>2. Current(d)'
    BY <1>3, <1>5, <2>1 DEF d
  <2> QED
    BY <2>2 DEF d
<1> QED
  BY <1>4, <1>5

\* What is on its way is true after the step, if what the step adds is.
LEMMA WayStays ==
    ASSUME TypeOK, TypeOK', SessionInv, TimesOrdered, OnTheirWay, VaultStep,
           SyncTime' = SyncTime, due' = due,
           owed' \cup onPage' \subseteq owed \cup onPage,
           \A m \in Msgs(toClient') :
               m \in Msgs(toClient) \/ Truthful(m)' \/ \E p \in owed \cup onPage : m = Detail(p)
    PROVE  OnTheirWay'
<1>1. \A p \in Paths : Current(Detail(p)) => Current(Detail(p))'
  BY TruthStays
<1>2. owed \cup onPage \subseteq Paths
  BY DEF TypeOK
<1>3. \A p \in owed' \cup onPage' : Current(Detail(p))'
  BY <1>1, <1>2 DEF OnTheirWay
<1>4. ASSUME NEW m \in Msgs(toClient') PROVE Truthful(m)'
  <2>1. CASE m \in Msgs(toClient)
    BY <2>1, MsgsType, TruthStays DEF OnTheirWay
  <2>2. ASSUME NEW p \in owed \cup onPage, m = Detail(p) PROVE Truthful(m)'
    <3>1. m \in ServerMsgs
      BY <1>2, <2>2, MessageTypes
    <3>2. m.type \in DetailTypes /\ Current(m)
      BY <1>2, <2>2, DueDetail DEF OnTheirWay
    <3>3. Truthful(m)
      BY <3>2 DEF Truthful, DetailTypes
    <3> QED
      BY <3>1, <3>3, TruthStays
  <2> QED
    BY <1>4, <2>1, <2>2
<1> QED
  BY <1>3, <1>4 DEF OnTheirWay

\* The vault has what the server changed up to the last time, if the step takes
\* no other time over.
LEMMA MissedStays ==
    ASSUME TypeOK, TypeOK', SessionInv, TimesOrdered, MissedOnlyByTimeOut, VaultStep,
           SyncTime' = SyncTime, lastTime' = lastTime, saved' \in {lastTime, saved},
           cutOff \subseteq cutOff'
    PROVE  MissedOnlyByTimeOut'
<1> SUFFICES ASSUME NEW p \in Paths, p \notin edited' \cup cutOff' \cup Excluded,
                    srv'[p].time <= lastTime' \/ srv'[p].time <= saved'
             PROVE  disk'[p] = srv'[p].content
  BY DEF MissedOnlyByTimeOut
<1>1. /\ SyncTime \in Nat /\ clock \in Nat /\ lastTime \in Nat /\ saved \in Nat
      /\ saved <= lastTime /\ lastTime <= clock /\ srv'[p].time \in Nat
  BY SyncTimeType DEF TypeOK, TimesOrdered
<1>2. srv'[p].time <= lastTime /\ ~(srv'[p].time > clock)
  BY <1>1
<1>3. CASE srv'[p] = srv[p] /\ disk'[p] = disk[p] /\ (p \in edited' <=> p \in edited)
  BY <1>2, <1>3 DEF MissedOnlyByTimeOut
<1>4. CASE Settled(p)' /\ phase # "idle" /\ ~Asking
  <2>1. lastTime <= SyncTime
    BY <1>4 DEF TimesOrdered
  <2>2. srv'[p].time <= SyncTime'
    BY <1>1, <1>2, <2>1
  <2> QED
    BY <1>4, <2>2 DEF Settled
<1> QED
  BY <1>2, <1>3, <1>4 DEF VaultStep

\* What the sync counts no more stays settled, if the step settles what it
\* counts.
LEMMA HandledStays ==
    ASSUME TypeOK, TypeOK', SessionInv, TimesOrdered, HandledNow, VaultStep,
           SyncTime' = SyncTime, cutOff \subseteq cutOff',
           \A p \in Uncounted \ Uncounted' : Settled(p)'
    PROVE  HandledNow'
  BY SettledStays DEF HandledNow

\* A file that is not the server's is the user's.
UsersStep == \A p \in Paths : \/ disk'[p] \in Sendable \cup {Absent} \/ p \in edited'
                              \/ disk'[p] = disk[p] /\ (p \in edited => p \in edited')

LEMMA UsersStay ==
    ASSUME OnlyUsers, UsersStep
    PROVE  OnlyUsers'
  BY DEF OnlyUsers, UsersStep

\* What a handler does to the vault settles the path of its message, and
\* touches no other but those of a rename, which is newer than the sync.
LEMMA Applied ==
    ASSUME TypeOK, TypeOK', SessionInv, OnlyUsers, NEW m \in ServerMsgs, Truthful(m),
           SyncTime' = SyncTime, srv' = srv, phase # "idle", ~Asking,
           \/ m.type = "SettingSyncModify" /\ ApplyModify(m)
           \/ m.type = "SettingSyncDelete" /\ ApplyDelete(m)
           \/ m.type = "SettingSyncRename" /\ ApplyRename(m)
           \/ UNCHANGED <<disk, edited>>
    PROVE  /\ VaultStep /\ UsersStep
           /\ m.type = "SettingSyncModify" /\ ApplyModify(m) => Settled(m.path)'
           /\ m.type = "SettingSyncDelete" /\ ApplyDelete(m) /\ ~Suppressed(m.path)
                => Settled(m.path)'
<1>1. /\ disk \in [Paths -> Contents \cup {Absent}] /\ SyncTime \in Nat
      /\ \A p \in Paths : srv[p].time \in Nat
  BY SyncTimeType DEF TypeOK, EngineTypeOK
<1>2. CASE UNCHANGED <<disk, edited>>
  <2>1. VaultStep /\ UsersStep
    BY <1>2 DEF VaultStep, UsersStep
  <2>2. ASSUME m.type = "SettingSyncModify", ApplyModify(m) PROVE Settled(m.path)'
    <3>1. m.path \in Paths /\ Current(m)
      BY <2>2, MessageFiles DEF Truthful, DetailTypes
    <3>2. m.path \in Excluded \/ disk' = [disk EXCEPT ![m.path] = m.content]
      BY <2>2 DEF ApplyModify, HandleSettingModify
    <3> QED
      BY <1>1, <2>2, <3>1, <3>2 DEF Current, Settled
  <2>3. ASSUME m.type = "SettingSyncDelete", ApplyDelete(m), ~Suppressed(m.path)
        PROVE  Settled(m.path)'
    <3>1. m.path \in Paths /\ Current(m)
      BY <2>3, MessageFiles DEF Truthful, DetailTypes
    <3>2. m.path \in Excluded \/ disk' = [disk EXCEPT ![m.path] = Absent]
      BY <2>3 DEF ApplyDelete, HandleSettingDelete
    <3> QED
      BY <1>1, <2>3, <3>1, <3>2 DEF Current, Settled
  <2> QED
    BY <2>1, <2>2, <2>3
<1>3. CASE m.type = "SettingSyncModify" /\ ApplyModify(m) /\ ~UNCHANGED <<disk, edited>>
  <2>1. m.path \in Paths /\ m.content \in Sendable /\ Current(m)
    BY <1>3, MessageFiles DEF Truthful, DetailTypes, Details
  <2>2. /\ m.path \notin Excluded /\ disk' = [disk EXCEPT ![m.path] = m.content]
        /\ edited' = edited \ {m.path}
    BY <1>3 DEF ApplyModify, HandleSettingModify, engineVars
  <2>3. Settled(m.path)'
    BY <1>1, <1>3, <2>1, <2>2 DEF Current, Settled
  <2>4. VaultStep /\ UsersStep
    BY <1>1, <2>1, <2>2, <2>3 DEF VaultStep, UsersStep
  <2> QED
    BY <1>3, <2>3, <2>4
<1>4. CASE m.type = "SettingSyncDelete" /\ ApplyDelete(m) /\ ~UNCHANGED <<disk, edited>>
  <2>1. m.path \in Paths /\ Current(m)
    BY <1>4, MessageFiles DEF Truthful, DetailTypes
  <2>2. /\ m.path \notin Excluded /\ disk' = [disk EXCEPT ![m.path] = Absent]
        /\ edited' = edited \ {m.path}
    BY <1>4 DEF ApplyDelete, HandleSettingDelete, engineVars, Suppressed
  <2>3. Settled(m.path)'
    BY <1>1, <1>4, <2>1, <2>2 DEF Current, Settled
  <2>4. VaultStep /\ UsersStep
    BY <1>1, <2>1, <2>2, <2>3 DEF VaultStep, UsersStep
  <2> QED
    BY <1>4, <2>3, <2>4
<1>5. CASE m.type = "SettingSyncRename" /\ ApplyRename(m) /\ ~UNCHANGED <<disk, edited>>
  <2>1. /\ m.old \in Paths /\ m.path \in Paths
        /\ srv[m.old].time > SyncTime /\ srv[m.path].time > SyncTime
    BY <1>5, MessageFiles DEF Truthful
  <2>2. /\ disk' = [disk EXCEPT ![m.old] = Absent, ![m.path] = disk[m.old]]
        /\ edited' = IF m.old \in edited THEN edited \cup {m.path} ELSE edited
    BY <1>5 DEF ApplyRename, HandleSettingRename
  <2>3. Settled(m.old)' /\ Settled(m.path)'
    BY <1>1, <2>1 DEF Settled
  <2>4. VaultStep
    BY <1>1, <2>1, <2>2, <2>3 DEF VaultStep
  <2>5. UsersStep
    <3>1. disk[m.old] \in Sendable \cup {Absent} \/ m.old \in edited
      BY <2>1 DEF OnlyUsers
    <3>2. ASSUME NEW p \in Paths
          PROVE  \/ disk'[p] \in Sendable \cup {Absent} \/ p \in edited'
                 \/ disk'[p] = disk[p] /\ (p \in edited => p \in edited')
      <4>1. disk'[p] = disk[p] \/ disk'[p] = Absent \/ (p = m.path /\ disk'[p] = disk[m.old])
        BY <1>1, <2>1, <2>2
      <4> QED
        BY <2>2, <3>1, <4>1
    <3> QED
      BY <3>2 DEF UsersStep
  <2> QED
    BY <1>5, <2>4, <2>5
<1> QED
  BY <1>2, <1>3, <1>4, <1>5
---------------------------------------------------------------------------
(* The steps of the client.                                                *)

\* The loop takes the next message, and settles the path that it counts.
LEMMA LoopVault ==
    ASSUME TypeOK, TypeOK', SessionInv, OnTheirWay, OnlyUsers, ClientReceives,
           SyncTime' = SyncTime
    PROVE  /\ VaultStep /\ UsersStep
           /\ toClient # <<>> /\ toClient' = Tail(toClient)
           /\ UNCHANGED <<srv, clock, owed, onPage, due>>
           /\ \A p \in Uncounted \ Uncounted' : Settled(p)'
<1>0. PICK m : m = Head(toClient)
  OBVIOUS
<1>1. /\ phase = "syncing" /\ toClient # <<>> /\ toClient' = Tail(toClient)
      /\ UNCHANGED <<srv, clock, owed, onPage, due>>
  BY DEF ClientReceives, ReceiveModify, ReceiveDelete, ReceiveMtime, ReceiveRename,
         ReceiveNeedUpload, ReceivePage, ReceiveModifyAck, ReceiveEnd, Receive, pageVars
<1>2. toClient \in Seq(ServerMsgs) /\ phase # "idle" /\ SyncTime \in Nat
      /\ \A p \in Paths : srv[p].time \in Nat
  BY <1>1, SyncTimeType DEF TypeOK
<1>3. m \in ServerMsgs /\ Truthful(m) /\ ~Asking
  BY <1>0, <1>1, <1>2, MsgsTail, HeadType, ClientCounts DEF OnTheirWay, LoopCounts
<1>4. m.type \in DetailTypes => FlightPaths(toClient) \subseteq FlightPaths(toClient') \cup {m.path}
  BY <1>0, <1>1, <1>2, TailDetail DEF SessionInv, OnePlaceEach
<1>5. m.type \notin DetailTypes => FlightPaths(toClient') = FlightPaths(toClient)
  BY <1>0, <1>1, <1>2, TailOther
<1>6. ASSUME pending \subseteq pending', silent \subseteq silent',
             m.type \in DetailTypes => m.path \in pending' \cup silent' \/ Settled(m.path)'
      PROVE  \A p \in Uncounted \ Uncounted' : Settled(p)'
  BY <1>1, <1>4, <1>5, <1>6 DEF Uncounted, Outstanding
<1>7. CASE ReceiveModify
  <2>1. /\ m.type = "SettingSyncModify" /\ ApplyModify(m)
        /\ pending' = pending /\ silent' = silent
    BY <1>0, <1>7 DEF ReceiveModify, Receive
  <2>2. VaultStep /\ UsersStep /\ Settled(m.path)'
    BY <1>1, <1>2, <1>3, <2>1, Applied
  <2> QED
    BY <1>1, <1>6, <2>1, <2>2
<1>8. CASE ReceiveDelete
  <2>1. /\ m.type = "SettingSyncDelete" /\ ApplyDelete(m) /\ pending' = pending
        /\ silent' = IF Suppressed(m.path) THEN silent \cup {m.path} ELSE silent
    BY <1>0, <1>8 DEF ReceiveDelete, Receive
  <2>2. VaultStep /\ UsersStep /\ (~Suppressed(m.path) => Settled(m.path)')
    BY <1>1, <1>2, <1>3, <2>1, Applied
  <2> QED
    BY <1>1, <1>6, <2>1, <2>2
<1>9. CASE ReceiveMtime
  <2>1. /\ m.type = "SettingSyncMtime" /\ m.type \in DetailTypes
        /\ UNCHANGED <<disk, edited, pending, silent>>
    BY <1>0, <1>9 DEF ReceiveMtime, Receive, engineVars, DetailTypes
  <2>2. VaultStep /\ UsersStep
    BY <1>1, <2>1 DEF VaultStep, UsersStep
  <2>3. Settled(m.path)'
    BY <1>1, <1>3, <2>1 DEF Truthful, Current, Settled
  <2> QED
    BY <1>1, <1>6, <2>1, <2>2, <2>3
<1>10. CASE ReceiveRename
  <2>1. /\ m.type = "SettingSyncRename" /\ m.type \notin DetailTypes /\ ApplyRename(m)
        /\ pending' = pending /\ silent' = silent
    BY <1>0, <1>10 DEF ReceiveRename, Receive, DetailTypes
  <2>2. VaultStep /\ UsersStep
    BY <1>1, <1>2, <1>3, <2>1, Applied
  <2> QED
    BY <1>1, <1>6, <2>1, <2>2
<1>11. CASE ReceiveNeedUpload
  <2>1. /\ m.type = "SettingSyncNeedUpload" /\ m.type \in DetailTypes
        /\ UNCHANGED <<disk, edited>>
        /\ \/ Awaited(m.path) /\ pending' = pending \cup {m.path} /\ silent \subseteq silent'
           \/ ~Awaited(m.path) /\ pending' = pending /\ silent' = silent
    BY <1>0, <1>11 DEF ReceiveNeedUpload, Receive, DetailTypes
  <2>2. VaultStep /\ UsersStep
    BY <1>1, <2>1 DEF VaultStep, UsersStep
  <2>3. ~Awaited(m.path) => Settled(m.path)'
    BY <1>1, <1>3, <2>1 DEF Truthful, Current, Settled, Awaited
  <2> QED
    BY <1>1, <1>6, <2>1, <2>2, <2>3
<1>12. CASE ReceivePage \/ ReceiveEnd
  <2>1. m.type \notin DetailTypes /\ UNCHANGED <<disk, edited, pending, silent>>
    BY <1>0, <1>12 DEF ReceivePage, ReceiveEnd, Receive, engineVars, DetailTypes
  <2>2. VaultStep /\ UsersStep
    BY <1>1, <2>1 DEF VaultStep, UsersStep
  <2> QED
    BY <1>1, <1>6, <2>1, <2>2
<1>13. CASE ReceiveModifyAck
  <2>1. /\ m.type = "SettingModifyAck" /\ m.type \notin DetailTypes
        /\ UNCHANGED <<disk, edited, silent>> /\ pending' = pending \ {m.path}
    BY <1>0, <1>13 DEF ReceiveModifyAck, Receive, engineVars, DetailTypes
  <2>2. VaultStep /\ UsersStep
    BY <1>1, <2>1 DEF VaultStep, UsersStep
  <2>3. Settled(m.path)'
    BY <1>1, <1>2, <1>3, <2>1, MessageFiles DEF Truthful, Settled
  <2>4. \A p \in Uncounted \ Uncounted' : p = m.path
    BY <1>1, <1>5, <2>1 DEF Uncounted, Outstanding
  <2> QED
    BY <1>1, <2>2, <2>3, <2>4
<1> QED
  BY <1>7, <1>8, <1>9, <1>10, <1>11, <1>12, <1>13 DEF ClientReceives

\* The time of the running sync does not change when its messages are taken,
\* and is taken over when the loop returns.
LEMMA LoopTime ==
    ASSUME TypeOK, TypeOK', SessionInv, ClientReceives
    PROVE  /\ phase = "syncing" /\ ~Asking /\ ~Asking'
           /\ SyncTime' = SyncTime /\ pendingLast' = SyncTime
           /\ \/ phase' = "syncing" /\ UNCHANGED timeVars
              \/ /\ phase' = "live" /\ cutOff \cup Uncounted' \subseteq cutOff'
                 /\ lastTime' = IF SyncTime > 0 THEN SyncTime ELSE lastTime
                 /\ saved' \in {lastTime', saved}
<1>1. ~Asking /\ ~Asking' /\ ~Answering'
  BY ClientCounts DEF LoopCounts
<1>2. phase = "syncing" /\ (complete' => Uncounted' = {})
  BY ClientTurns
<1>3. NextTurn /\ toClient # <<>>
  BY DEF ClientReceives, ReceiveModify, ReceiveDelete, ReceiveMtime, ReceiveRename,
         ReceiveNeedUpload, ReceivePage, ReceiveModifyAck, ReceiveEnd, Receive
<1>4. pendingLast' = SyncTime
  <2>1. CASE ReceiveEnd
    <3>1. Head(toClient).type = "SettingSyncEnd" /\ pendingLast' = Head(toClient).last
      BY <2>1 DEF ReceiveEnd, Receive
    <3>2. Head(toClient) = toClient[1] /\ Len(toClient) \in Nat \ {0}
      BY <1>3, TailShift DEF TypeOK
    <3>3. Answering
      BY <3>1, <3>2 DEF Answering
    <3> QED
      BY <3>1, <3>2, <3>3 DEF SyncTime
  <2>2. CASE ~ReceiveEnd
    <3>1. Head(toClient).type # "SettingSyncEnd" /\ pendingLast' = pendingLast
      BY <2>2 DEF ClientReceives, ReceiveModify, ReceiveDelete, ReceiveMtime,
           ReceiveRename, ReceiveNeedUpload, ReceivePage, ReceiveModifyAck, Receive,
           Settle, countVars
    <3>2. ~Answering
      BY <1>3, <3>1, LoopBusy
    <3> QED
      BY <3>1, <3>2 DEF SyncTime
  <2> QED
    BY <2>1, <2>2
<1>5. SyncTime' = SyncTime
  BY <1>1, <1>4 DEF SyncTime
<1>6. \/ phase' = "syncing" /\ UNCHANGED timeVars
      \/ /\ phase' = "live" /\ cutOff \cup Uncounted' \subseteq cutOff'
         /\ lastTime' = IF pendingLast' > 0 THEN pendingLast' ELSE lastTime
         /\ saved' \in {lastTime', saved}
  BY <1>2, <1>3 DEF NextTurn, Return
<1> QED
  BY <1>1, <1>2, <1>4, <1>5, <1>6

\* Every step of process_setting_sync_messages preserves the invariant.  The one
\* with which run_setting_sync returns takes the time over: of what it has not
\* settled by then, the time-out has cut off all.
LEMMA ClientTimes ==
    ASSUME TypeOK, TypeOK', SessionInv, TimesInv, ClientReceives
    PROVE  TimesInv'
<1>1. TimesOrdered /\ OnlyUsers /\ OnTheirWay /\ Handled /\ MissedOnlyByTimeOut
  BY DEF TimesInv
<1>2. /\ phase = "syncing" /\ ~Asking /\ ~Asking'
      /\ SyncTime' = SyncTime /\ pendingLast' = SyncTime
      /\ \/ phase' = "syncing" /\ UNCHANGED timeVars
         \/ /\ phase' = "live" /\ cutOff \cup Uncounted' \subseteq cutOff'
            /\ lastTime' = IF SyncTime > 0 THEN SyncTime ELSE lastTime
            /\ saved' \in {lastTime', saved}
  BY LoopTime
<1>3. /\ VaultStep /\ UsersStep
      /\ toClient # <<>> /\ toClient' = Tail(toClient)
      /\ UNCHANGED <<srv, clock, owed, onPage, due>>
      /\ \A p \in Uncounted \ Uncounted' : Settled(p)'
  BY <1>1, <1>2, LoopVault
<1>4. /\ \A p \in Paths : srv[p].time \in Nat /\ srv[p].time <= clock
      /\ saved \in Nat /\ lastTime \in Nat /\ clock \in Nat /\ SyncTime \in Nat
      /\ saved <= lastTime /\ lastTime <= SyncTime /\ SyncTime <= clock
  BY <1>1, <1>2, SyncTimeType DEF TypeOK, TimesOrdered
<1>5. saved' <= lastTime' /\ lastTime' <= SyncTime /\ saved' \in Nat /\ lastTime' \in Nat
  BY <1>2, <1>4 DEF timeVars
<1>6. TimesOrdered'
  <2>1. lastTime' <= clock
    BY <1>4, <1>5
  <2> QED
    BY <1>2, <1>3, <1>4, <1>5, <2>1 DEF TimesOrdered
<1>7. OnTheirWay'
  <2>1. toClient \in Seq(ServerMsgs)
    BY DEF TypeOK
  <2>2. Msgs(toClient') \subseteq Msgs(toClient)
    BY <1>3, <2>1, MsgsTail
  <2> QED
    BY <1>1, <1>2, <1>3, <2>2, WayStays
<1>8. cutOff \subseteq cutOff'
  BY <1>2 DEF timeVars
<1>9. HandledNow'
  BY <1>1, <1>2, <1>3, <1>8, HandledStays DEF Handled
<1>10. MissedOnlyByTimeOut'
  <2>1. CASE UNCHANGED timeVars
    BY <1>1, <1>2, <1>3, <2>1, MissedStays DEF timeVars
  <2>2. CASE Uncounted' \subseteq cutOff'
    <3> SUFFICES ASSUME NEW p \in Paths, p \notin edited' \cup cutOff' \cup Excluded,
                        srv'[p].time <= lastTime' \/ srv'[p].time <= saved'
                 PROVE  disk'[p] = srv'[p].content
      BY DEF MissedOnlyByTimeOut
    <3>1. srv'[p].time <= SyncTime
      BY <1>3, <1>4, <1>5
    <3> QED
      BY <1>2, <1>9, <2>2, <3>1 DEF HandledNow, Settled
  <2> QED
    BY <1>2, <2>1, <2>2
<1> QED
  BY <1>1, <1>2, <1>3, <1>6, <1>7, <1>9, <1>10, UsersStay DEF TimesInv, AskedTruth, Handled

\* A message is taken outside the session's loop, or none is: the last time
\* stays.
LEMMA TakenOutside ==
    ASSUME TypeOK, TypeOK', SessionInv, SessionInv', TimesInv, VaultStep, UsersStep,
           phase' # "syncing", phase' # "idle" => phase # "idle", ~Asking, ~Answering,
           toClient' = toClient \/ (toClient # <<>> /\ toClient' = Tail(toClient)),
           UNCHANGED <<srv, clock, owed, onPage, due, pendingLast, lastTime, cutOff>>,
           saved' \in {lastTime, saved}
    PROVE  TimesInv'
<1>1. TimesOrdered /\ OnlyUsers /\ OnTheirWay /\ MissedOnlyByTimeOut
  BY DEF TimesInv
<1>2. ~Asking' /\ ~Answering'
  BY DEF SessionInv
<1>3. SyncTime' = SyncTime
  BY <1>2 DEF SyncTime
<1>4. TimesOrdered'
  <2>1. phase' # "idle" => lastTime' <= SyncTime'
    BY <1>1, <1>3 DEF TimesOrdered
  <2>2. saved' <= lastTime'
    BY <1>1 DEF TimesOrdered, TypeOK
  <2> QED
    BY <1>1, <1>3, <2>1, <2>2 DEF TimesOrdered
<1>5. OnTheirWay'
  <2>1. toClient \in Seq(ServerMsgs)
    BY DEF TypeOK
  <2>2. Msgs(toClient') \subseteq Msgs(toClient)
    BY <2>1, MsgsTail
  <2> QED
    BY <1>1, <1>3, <2>2, WayStays
<1>6. MissedOnlyByTimeOut'
  BY <1>1, <1>3, MissedStays
<1> QED
  BY <1>1, <1>2, <1>4, <1>5, <1>6, UsersStay DEF TimesInv, AskedTruth, Handled

\* The connection is gone, and a restarted process knows what was saved.
LEMMA LostTimes ==
    ASSUME TypeOK, TypeOK', TimesInv, ConnectionLost,
           \/ lastTime' = lastTime /\ saved' \in {lastTime, saved}
           \/ lastTime' = saved /\ saved' = saved
    PROVE  TimesInv'
<1>1. TimesOrdered /\ OnlyUsers /\ MissedOnlyByTimeOut
  BY DEF TimesInv
<1>2. /\ phase' = "idle" /\ toServer' = <<>> /\ toClient' = <<>>
      /\ owed' = {} /\ onPage' = {}
      /\ UNCHANGED <<disk, edited, srv, clock, pendingLast, cutOff>>
  BY DEF ConnectionLost, sessionVars, countVars
<1>3. ~Asking' /\ ~Answering' /\ OnTheirWay'
  BY <1>2 DEF Asking, Answering, OnTheirWay, Msgs
<1>4. SyncTime' = pendingLast
  BY <1>2, <1>3 DEF SyncTime
<1>5. /\ saved \in Nat /\ lastTime \in Nat /\ clock \in Nat /\ saved <= lastTime
      /\ lastTime <= clock
  BY <1>1 DEF TypeOK, TimesOrdered
<1>6. TimesOrdered'
  BY <1>1, <1>2, <1>4, <1>5 DEF TimesOrdered
<1>7. MissedOnlyByTimeOut'
  BY <1>1, <1>2 DEF MissedOnlyByTimeOut
<1>8. OnlyUsers'
  BY <1>1, <1>2 DEF OnlyUsers
<1> QED
  BY <1>2, <1>3, <1>6, <1>7, <1>8 DEF TimesInv, AskedTruth, Handled

LEMMA OutsideTimes ==
    ASSUME TypeOK, TypeOK', SessionInv, SessionInv', TimesInv,
           \/ RequestSync \/ HandlerFails \/ LiveReceive \/ LiveHandlerFails
           \/ HandleWatchEvent \/ PushFails \/ Disconnect \/ Restart
    PROVE  TimesInv'
<1>0. TimesOrdered /\ OnlyUsers /\ OnTheirWay /\ MissedOnlyByTimeOut
  BY DEF TimesInv
<1>1. CASE RequestSync
  <2>1. /\ phase = "idle" /\ phase' = "syncing" /\ pendingLast' = 0
        /\ toServer' = <<[type |-> "SettingSync", last |-> lastTime,
                          settings |-> LocalSettings]>>
        /\ UNCHANGED <<disk, edited, srv, clock, lastTime, saved, cutOff, toClient, owed,
                       onPage>>
    BY <1>1 DEF RequestSync, ResetCounters, engineVars, timeVars, pageVars
  <2>2. toClient' = <<>> /\ owed' = {} /\ onPage' = {}
    BY <2>1 DEF SessionInv
  <2>3. ~Answering' /\ OnTheirWay' /\ SyncTime' = 0
    BY <2>1, <2>2 DEF Answering, OnTheirWay, Msgs, SyncTime
  <2>4. Asking' /\ toServer'[1].last = lastTime /\ toServer'[1].settings = LocalSettings
    BY <2>1 DEF Asking
  <2>5. \A p \in Paths \ (edited \cup Excluded) : LocalSettings[p] = disk[p]
    BY <1>0, ContentsAssumption DEF LocalSettings, OnlyUsers, Sendable
  <2>6. TimesOrdered'
    BY <1>0, <2>1, <2>3, <2>4 DEF TimesOrdered, TypeOK
  <2>7. MissedOnlyByTimeOut' /\ OnlyUsers'
    BY <1>0, <2>1 DEF MissedOnlyByTimeOut, OnlyUsers
  <2> QED
    BY <2>1, <2>3, <2>4, <2>5, <2>6, <2>7 DEF TimesInv, AskedTruth, Handled
<1>2. CASE HandlerFails \/ LiveHandlerFails
  <2>1. /\ phase \in {"syncing", "live"} /\ phase' = "live" /\ toClient # <<>>
        /\ toClient' = Tail(toClient) /\ Head(toClient).type # "SettingSyncEnd"
        /\ UNCHANGED <<disk, edited, srv, clock, owed, onPage, due, pendingLast, lastTime,
                       cutOff>>
        /\ saved' \in {lastTime, saved}
    BY <1>2 DEF HandlerFails, LiveHandlerFails, Writes, pageVars, sessionVars, countVars,
                timeVars
  <2>2. ~Asking /\ ~Answering
    BY <2>1, LoopBusy
  <2>3. VaultStep /\ UsersStep
    BY <2>1 DEF VaultStep, UsersStep
  <2> QED
    BY <2>1, <2>2, <2>3, TakenOutside
<1>3. CASE LiveReceive
  <2>0. PICK m : m = Head(toClient)
    OBVIOUS
  <2>1. /\ phase = "live" /\ phase' = "live" /\ toClient # <<>>
        /\ toClient' = Tail(toClient)
        /\ UNCHANGED <<srv, clock, owed, onPage, due, pendingLast, lastTime, saved, cutOff>>
        /\ \/ m.type = "SettingSyncModify" /\ ApplyModify(m)
           \/ m.type = "SettingSyncDelete" /\ ApplyDelete(m)
           \/ UNCHANGED <<disk, edited>>
    BY <1>3, <2>0 DEF LiveReceive, pageVars, sessionVars, countVars, timeVars, engineVars
  <2>2. ~Asking /\ ~Answering /\ ~Answering'
    BY <2>1 DEF SessionInv
  <2>3. SyncTime' = SyncTime
    BY <2>1, <2>2 DEF SyncTime
  <2>4. m \in ServerMsgs /\ Truthful(m)
    BY <1>0, <2>0, <2>1, MsgsTail, HeadType DEF OnTheirWay, TypeOK
  <2>5. VaultStep /\ UsersStep
    BY <1>0, <2>1, <2>2, <2>3, <2>4, Applied
  <2> QED
    BY <2>1, <2>2, <2>5, TakenOutside
<1>4. CASE HandleWatchEvent
  <2>1. /\ phase = "live" /\ phase' = "live" /\ toClient' = toClient
        /\ UNCHANGED <<disk, edited, srv, clock, owed, onPage, due, pendingLast, lastTime,
                       saved, cutOff>>
    BY <1>4 DEF HandleWatchEvent, pageVars, sessionVars, countVars, timeVars
  <2>2. ~Asking /\ ~Answering
    BY <2>1 DEF SessionInv
  <2>3. VaultStep /\ UsersStep
    BY <2>1 DEF VaultStep, UsersStep
  <2> QED
    BY <2>1, <2>2, <2>3, TakenOutside
<1>5. CASE Disconnect \/ Restart
  <2>1. /\ ConnectionLost
        /\ \/ lastTime' = lastTime /\ saved' \in {lastTime, saved}
           \/ lastTime' = saved /\ saved' = saved
    BY <1>5 DEF Disconnect, Restart
  <2> QED
    BY <2>1, LostTimes
<1>6. CASE PushFails
  <2>1. /\ phase = "idle" /\ phase' = "idle" /\ toClient' = toClient
        /\ UNCHANGED <<disk, edited, srv, clock, owed, onPage, due, pendingLast, lastTime,
                       saved, cutOff>>
    BY <1>6 DEF PushFails, pageVars, sessionVars, countVars, timeVars
  <2>2. ~Asking /\ ~Answering
    BY <2>1 DEF SessionInv
  <2>3. VaultStep /\ UsersStep
    BY <2>1 DEF VaultStep, UsersStep
  <2> QED
    BY <2>1, <2>2, <2>3, TakenOutside
<1> QED
  BY <1>1, <1>2, <1>3, <1>4, <1>5, <1>6
---------------------------------------------------------------------------
(* The server, the user and the other devices.                             *)

\* What the server's verdict on a path says of it.
LEMMA VerdictSays ==
    ASSUME NEW p \in Paths, NEW last \in Nat, srv[p].time \in Nat, NEW c,
           NEW v \in Verdicts(p, last, c)
    PROVE  /\ v = "SettingSyncDelete" => srv[p].content = Absent
           /\ v = "SettingSyncMtime" => c = srv[p].content
           /\ v = "SettingSyncNeedUpload" => c # Absent
           /\ v = "InSync" => c = srv[p].content \/ srv[p].time <= last
<1>1. ~(srv[p].time > last) => srv[p].time <= last
  OBVIOUS
<1>2. CASE c # Absent /\ c = srv[p].content
  BY <1>2 DEF Verdicts
<1>3. CASE c = Absent /\ srv[p].content = Absent
  BY <1>3 DEF Verdicts
<1>4. CASE c = Absent /\ srv[p].content # Absent
  BY <1>1, <1>4 DEF Verdicts
<1>5. CASE c # Absent /\ c # srv[p].content
  BY <1>5 DEF Verdicts
<1> QED
  BY <1>2, <1>3, <1>4, <1>5

\* The server's answer: what it does not name is as the client has it, unless a
\* time-out once cut it off.
LEMMA AnswerTimes ==
    ASSUME TypeOK, TypeOK', SessionInv, TimesInv, ServerAnswersSync
    PROVE  TimesInv'
<1>0. TimesOrdered /\ OnlyUsers /\ AskedTruth /\ MissedOnlyByTimeOut
  BY DEF TimesInv
<1>1. PICK m : m = Head(toServer)
  OBVIOUS
<1>2. /\ toServer # <<>> /\ UNCHANGED <<disk, edited, lastTime, saved, cutOff, pendingLast,
                                       srv, clock, onPage>>
  BY DEF ServerAnswersSync, FromClient, engineVars, timeVars, sessionVars, countVars
<1>3. Asking /\ ~Asking' /\ phase = "syncing" /\ phase' = "syncing" /\ SessionInv'
  BY ServerAnswers
<1>4. PICK verdict \in [Paths -> DetailTypes \cup {"InSync"}] :
        /\ \A p \in Paths : verdict[p] \in Verdicts(p, m.last, m.settings[p])
        /\ owed' = { p \in Paths : verdict[p] # "InSync" }
        /\ due' = [p \in Paths |-> IF verdict[p] = "InSync" THEN due[p]
                                   ELSE [type |-> verdict[p], content |-> srv[p].content]]
  BY <1>1 DEF ServerAnswersSync
<1>5. PICK end : /\ end = [type |-> "SettingSyncEnd", count |-> Cardinality(owed'),
                           last |-> clock]
                 /\ toClient' = Append(toClient, end)
  BY DEF ServerAnswersSync
<1>6. toClient = <<>>
  <2>1. toServer \in Seq(ClientMsgs) /\ toClient \in Seq(ServerMsgs)
    BY DEF TypeOK
  <2>2. Len(toServer) \in Nat \ {0} /\ Len(toClient) \in Nat
    BY <1>2, <2>1
  <2>3. Len(toServer) + Len(toClient) = 1
    BY <1>3 DEF SessionInv
  <2>4. \A a \in Nat \ {0}, b \in Nat : a + b = 1 => b = 0
    OBVIOUS
  <2>5. Len(toClient) = 0
    BY <2>2, <2>3, <2>4, ZenonT(30)
  <2> QED
    BY <2>1, <2>5
<1>7. toClient' = <<end>> /\ end.type = "SettingSyncEnd" /\ end.last = clock
  BY <1>5, <1>6
<1>8. Answering' /\ SyncTime' = clock /\ Msgs(toClient') = {end}
  BY <1>7 DEF Answering, SyncTime, Msgs
<1>9. m.last = lastTime /\ \A p \in Paths \ (edited \cup Excluded) : m.settings[p] = disk[p]
  <2>1. m = toServer[1]
    BY <1>1, <1>2, TailShift DEF TypeOK
  <2> QED
    BY <1>0, <1>3, <2>1 DEF AskedTruth
<1>10. /\ \A p \in Paths : srv[p].time \in Nat
       /\ saved \in Nat /\ lastTime \in Nat /\ clock \in Nat /\ pendingLast \in Nat
  BY DEF TypeOK
<1>11. ASSUME NEW p \in Paths
       PROVE  /\ verdict[p] = "SettingSyncDelete" => srv[p].content = Absent
              /\ verdict[p] = "SettingSyncMtime" => m.settings[p] = srv[p].content
              /\ verdict[p] = "SettingSyncNeedUpload" => m.settings[p] # Absent
              /\ verdict[p] = "InSync" =>
                    m.settings[p] = srv[p].content \/ srv[p].time <= lastTime
  BY <1>4, <1>9, <1>10, VerdictSays
<1>12. ASSUME NEW p \in owed' PROVE Current(Detail(p))'
  <2>1. p \in Paths /\ due'[p] = [type |-> verdict[p], content |-> srv[p].content]
    BY <1>4
  <2>2. Detail(p)' = [type |-> verdict[p], path |-> p, content |-> srv[p].content]
    BY <2>1 DEF Detail
  <2>3. verdict[p] = "SettingSyncMtime" => Settled(p)'
    BY <1>2, <1>9, <1>11, <2>1 DEF Settled
  <2>4. verdict[p] = "SettingSyncNeedUpload" => disk[p] \in Contents \ Binary \/ Settled(p)'
    BY <1>0, <1>2, <1>9, <1>11, <2>1 DEF Settled, OnlyUsers, Sendable
  <2>5. verdict[p] = "SettingSyncDelete" => srv[p].content = Absent
    BY <1>11, <2>1
  <2> QED
    BY <1>2, <2>2, <2>3, <2>4, <2>5 DEF Current
<1>13. OnTheirWay'
  <2>1. onPage' = {}
    BY <1>2, <1>3 DEF SessionInv
  <2>2. Truthful(end)'
    BY <1>7 DEF Truthful, DetailTypes
  <2> QED
    BY <1>8, <1>12, <2>1, <2>2 DEF OnTheirWay
<1>14. HandledNow'
  <2> SUFFICES ASSUME NEW p \in Paths, p \notin Uncounted', p \notin cutOff'
               PROVE  Settled(p)'
    BY DEF HandledNow
  <2>1. verdict[p] = "InSync"
    BY <1>4 DEF Uncounted, Outstanding
  <2>2. CASE m.settings[p] = srv[p].content
    BY <1>2, <1>9, <2>2 DEF Settled
  <2>3. CASE srv[p].time <= lastTime
    BY <1>0, <1>2, <2>3 DEF MissedOnlyByTimeOut, Settled
  <2> QED
    BY <1>11, <2>1, <2>2, <2>3
<1>15. TimesOrdered'
  BY <1>0, <1>2, <1>8, <1>10 DEF TimesOrdered
<1>16. OnlyUsers' /\ MissedOnlyByTimeOut'
  BY <1>0, <1>2 DEF OnlyUsers, MissedOnlyByTimeOut
<1> QED
  BY <1>3, <1>13, <1>14, <1>15, <1>16 DEF TimesInv, AskedTruth, Handled

\* A step that leaves the session where it is: the server sends what it owes, or
\* takes a push, or somebody changes something.
LEMMA WorldTimes ==
    ASSUME TypeOK, TypeOK', SessionInv, TimesInv, VaultStep, UsersStep,
           UNCHANGED <<phase, lastTime, saved, cutOff, pendingLast, due>>,
           SyncTime' = SyncTime, Asking' <=> Asking,
           Asking => toServer' = toServer /\ \A p \in Paths :
               p \in edited' \/ (disk'[p] = disk[p] /\ p \notin edited),
           phase = "syncing" => Uncounted' = Uncounted,
           clock' \in {clock, clock + 1},
           \A p \in Paths : srv'[p] = srv[p] \/ srv'[p].time = clock',
           owed' \cup onPage' \subseteq owed \cup onPage,
           \A m \in Msgs(toClient') :
               m \in Msgs(toClient) \/ Truthful(m)' \/ \E p \in owed \cup onPage : m = Detail(p)
    PROVE  TimesInv'
<1>1. TimesOrdered /\ OnlyUsers /\ AskedTruth /\ OnTheirWay /\ Handled /\ MissedOnlyByTimeOut
  BY DEF TimesInv
<1>2. /\ \A p \in Paths : srv[p].time \in Nat
      /\ saved \in Nat /\ lastTime \in Nat /\ clock \in Nat /\ pendingLast \in Nat
      /\ SyncTime \in Nat
  BY SyncTimeType DEF TypeOK
<1>3. TimesOrdered'
  <2>1. \A p \in Paths : srv'[p].time <= clock'
    BY <1>1, <1>2 DEF TimesOrdered
  <2> QED
    BY <1>1, <1>2, <2>1 DEF TimesOrdered
<1>4. OnTheirWay'
  BY <1>1, WayStays
<1>5. MissedOnlyByTimeOut'
  BY <1>1, MissedStays
<1>6. Handled'
  BY <1>1, HandledStays DEF Handled
<1>7. AskedTruth'
  BY <1>1 DEF AskedTruth
<1> QED
  BY <1>1, <1>3, <1>4, <1>5, <1>6, <1>7, UsersStay DEF TimesInv

\* What a broadcast adds to a channel.
LEMMA BroadcastAdds ==
    ASSUME NEW channel \in Seq(ServerMsgs), NEW m \in ServerMsgs, MayBroadcast(channel, m)
    PROVE  Msgs(toClient') \subseteq Msgs(channel) \cup {m}
<1>1. toClient' = channel \/ toClient' = Append(channel, m)
  BY DEF MayBroadcast
<1> QED
  BY <1>1, MsgsAppend

\* News of a change that is newer than the sync.
LEMMA NewsTrue ==
    ASSUME SyncTime' \in Nat, clock \in Nat, SyncTime' <= clock,
           NEW p \in Paths, srv'[p].time = clock + 1
    PROVE  /\ \A c : Truthful(Change(p, c))'
           /\ \A m : m.type = "SettingModifyAck" /\ m.path = p => Truthful(m)'
           /\ \A m : /\ m.type = "SettingSyncRename" /\ m.path = p
                     /\ srv'[m.old].time = clock + 1
                     => Truthful(m)'
<1>1. srv'[p].time > SyncTime' /\ ~(srv'[p].time <= SyncTime')
      /\ \A t : t = clock + 1 => t > SyncTime'
  OBVIOUS
<1>2. ASSUME NEW c PROVE Truthful(Change(p, c))'
  <2>1. /\ Change(p, c).path = p
        /\ Change(p, c).type \in {"SettingSyncDelete", "SettingSyncModify"}
    BY DEF Change
  <2>2. PICK m : m = Change(p, c)
    OBVIOUS
  <2>3. Change(p, c)' = m
    BY <2>2 DEF Change
  <2>4. Truthful(m)'
    BY <1>1, <2>1, <2>2 DEF Truthful, Current
  <2> QED
    BY <2>2, <2>3, <2>4 DEF Change
<1>3. ASSUME NEW m, m.type = "SettingModifyAck", m.path = p PROVE Truthful(m)'
  BY <1>1, <1>3 DEF Truthful, DetailTypes
<1>4. ASSUME NEW m, m.type = "SettingSyncRename", m.path = p, srv'[m.old].time = clock + 1
      PROVE  Truthful(m)'
  BY <1>1, <1>4 DEF Truthful, DetailTypes
<1> QED
  BY <1>2, <1>3, <1>4

\* A push that the server takes carries over what the user did, if the vault
\* still has it; what the server stores is newer than the sync.
LEMMA StoredVault ==
    ASSUME TypeOK, phase # "idle", ~Asking, UNCHANGED disk,
           NEW p \in Paths, NEW c \in Sendable \cup {Absent},
           edited' = IF disk[p] = c THEN edited \ {p} ELSE edited,
           \/ Store(p, c)
           \/ srv' = srv /\ clock' = clock /\ srv[p].content = c
    PROVE  /\ VaultStep /\ UsersStep
           /\ clock' \in {clock, clock + 1}
           /\ \A q \in Paths : srv'[q] = srv[q] \/ srv'[q].time = clock'
           /\ Store(p, c) => srv'[p].time = clock + 1
<1>1. srv \in [Paths -> [content : Sendable \cup {Absent}, time : Nat]] /\ clock \in Nat
  BY DEF TypeOK
<1>2. Store(p, c) => /\ srv' = [srv EXCEPT ![p] = [content |-> c, time |-> clock + 1]]
                     /\ clock' = clock + 1
  BY DEF Store
<1>3. UsersStep
  BY DEF UsersStep
<1>4. \A q \in Paths : q # p => srv'[q] = srv[q] /\ (q \in edited' <=> q \in edited)
  BY <1>1, <1>2
<1>5. Store(p, c) => srv'[p].time = clock + 1 /\ srv'[p].time > clock
  BY <1>1, <1>2
<1>6. srv' = srv /\ srv[p].content = c =>
         Settled(p)' \/ (p \in edited' <=> p \in edited)
  BY DEF Settled
<1>7. VaultStep
  BY <1>4, <1>5, <1>6 DEF VaultStep
<1>8. \A q \in Paths : srv'[q] = srv[q] \/ srv'[q].time = clock'
  BY <1>2, <1>4, <1>5
<1> QED
  BY <1>2, <1>3, <1>5, <1>7, <1>8

LEMMA ServerTimes ==
    ASSUME QuietInSync, TypeOK, TypeOK', SessionInv, SessionInv', TimesInv, ServerSteps
    PROVE  TimesInv'
<1>1. CASE ServerAnswersSync
  BY <1>1, AnswerTimes
<1>2. ASSUME ~ServerAnswersSync
      PROVE  /\ phase # "idle" /\ UNCHANGED <<phase, sessionVars>>
             /\ ~Asking /\ ~Answering /\ ~Asking' /\ ~Answering'
             /\ phase = "syncing" => Uncounted' = Uncounted
  <2>1. phase \in {"syncing", "live"}
    BY ServerConnected
  <2>2. UNCHANGED <<phase, sessionVars>>
    BY <1>2 DEF ServerSteps, ServerStartsPage, ServerSendsDetail, ServerAcceptsModify,
                ServerAcceptsDelete, FromClient
  <2>3. CASE phase = "syncing"
    BY <1>2, <2>3, ServerMoves
  <2>4. CASE phase = "live"
    BY <2>2, <2>4 DEF SessionInv
  <2> QED
    BY <2>1, <2>2, <2>3, <2>4
<1>3. ASSUME ~ServerAnswersSync
      PROVE  SyncTime' = SyncTime /\ pendingLast' = pendingLast
  BY <1>2, <1>3 DEF SyncTime, sessionVars, countVars
<1>4. /\ toClient \in Seq(ServerMsgs) /\ SyncTime \in Nat /\ clock \in Nat
      /\ SyncTime <= clock
  BY SyncTimeType DEF TypeOK, TimesInv, TimesOrdered
<1>5. CASE ServerStartsPage
  <2>1. /\ UNCHANGED <<disk, edited, srv, clock, lastTime, saved, cutOff, due>>
        /\ owed' \cup onPage' \subseteq owed \cup onPage /\ ~ServerAnswersSync
    BY <1>5 DEF ServerStartsPage, ServerAnswersSync, FromClient, engineVars, timeVars
  <2>2. VaultStep /\ UsersStep
    BY <2>1 DEF VaultStep, UsersStep
  <2>3. ASSUME NEW m \in Msgs(toClient') PROVE m \in Msgs(toClient) \/ Truthful(m)'
    <3>1. CASE toClient' = toClient
      BY <2>3, <3>1
    <3>2. ASSUME NEW batch \in SUBSET owed, toClient' = Append(toClient,
              [type |-> "SettingSyncPage", index |-> pageNo + 1,
               total |-> Cardinality(batch), last |-> batch = owed])
          PROVE  m \in Msgs(toClient) \/ Truthful(m)'
      <4>1. PICK n : n = [type |-> "SettingSyncPage", index |-> pageNo + 1,
                          total |-> Cardinality(batch), last |-> batch = owed]
        OBVIOUS
      <4>2. toClient \in Seq(ServerMsgs \cup {n}) /\ n \in ServerMsgs \cup {n}
        BY <1>4
      <4>3. toClient' = Append(toClient, n)
        BY <3>2, <4>1
      <4>4. m \in Msgs(toClient) \/ m = n
        BY <2>3, <4>2, <4>3, MsgsAppend
      <4>5. n.type = "SettingSyncPage"
        BY <4>1
      <4>6. Truthful(n)'
        BY <4>5 DEF Truthful, DetailTypes
      <4> QED
        BY <4>4, <4>6
    <3>3. CASE Head(toServer).index = pageNo /\ owed # {}
      BY <1>5, <3>2, <3>3 DEF ServerStartsPage
    <3>4. CASE ~(Head(toServer).index = pageNo /\ owed # {})
      BY <1>5, <3>1, <3>4 DEF ServerStartsPage
    <3> QED
      BY <3>3, <3>4
  <2> QED
    BY <1>2, <1>3, <2>1, <2>2, <2>3, WorldTimes
<1>6. CASE ServerSendsDetail
  <2>1. PICK p \in onPage : /\ onPage' = onPage \ {p}
                            /\ toClient' = Append(toClient, Detail(p))
                            /\ UNCHANGED <<disk, edited, srv, clock, lastTime, saved, cutOff,
                                           due, owed, toServer>>
    BY <1>6 DEF ServerSendsDetail, engineVars, timeVars
  <2>2. p \in Paths /\ Detail(p) \in ServerMsgs
    BY MessageTypes DEF TypeOK
  <2>3. Msgs(toClient') \subseteq Msgs(toClient) \cup {Detail(p)}
    BY <1>4, <2>1, <2>2, MsgsAppend
  <2>4. VaultStep /\ UsersStep
    BY <2>1 DEF VaultStep, UsersStep
  <2>5. ~ServerAnswersSync
    <3> SUFFICES ASSUME ServerAnswersSync PROVE FALSE
      OBVIOUS
    <3>1. onPage' = onPage
      BY DEF ServerAnswersSync
    <3> QED
      BY <2>1, <3>1
  <2> QED
    BY <1>2, <1>3, <2>1, <2>3, <2>4, <2>5, WorldTimes
<1>7. CASE ServerAcceptsModify
  <2>0. ~ServerAnswersSync /\ FromClient("SettingModify")
    BY <1>7 DEF ServerAcceptsModify, ServerAnswersSync, FromClient
  <2>1. PICK p, c, ack : /\ p = Head(toServer).path /\ c = Head(toServer).content
                         /\ ack = [type |-> "SettingModifyAck", path |-> p]
    OBVIOUS
  <2>2. p \in Paths /\ c \in Sendable /\ ack \in ServerMsgs /\ Change(p, c) \in ServerMsgs
    BY <2>0, <2>1, RequestType, MessageTypes
  <2>3. /\ Store(p, c) /\ MayBroadcast(Append(toClient, ack), Change(p, c))
        /\ edited' = IF disk[p] = c THEN edited \ {p} ELSE edited
        /\ UNCHANGED <<disk, lastTime, saved, cutOff, due, owed, onPage>>
    BY <1>7, <2>1 DEF ServerAcceptsModify, FromClient, engineVars, timeVars, pageVars
  <2>4. /\ VaultStep /\ UsersStep /\ clock' \in {clock, clock + 1}
        /\ \A q \in Paths : srv'[q] = srv[q] \/ srv'[q].time = clock'
        /\ srv'[p].time = clock + 1
    BY <1>2, <2>0, <2>2, <2>3, StoredVault
  <2>5. Truthful(ack)' /\ Truthful(Change(p, c))'
    <3>1. ack.type = "SettingModifyAck" /\ ack.path = p
      BY <2>1
    <3> QED
      BY <1>3, <1>4, <2>0, <2>2, <2>4, <3>1, NewsTrue
  <2>6. Msgs(toClient') \subseteq Msgs(toClient) \cup {ack, Change(p, c)}
    <3>1. Append(toClient, ack) \in Seq(ServerMsgs)
      BY <1>4, <2>2
    <3>2. Msgs(Append(toClient, ack)) \subseteq Msgs(toClient) \cup {ack}
      BY <1>4, <2>2, MsgsAppend
    <3> QED
      BY <2>2, <2>3, <3>1, <3>2, BroadcastAdds
  <2>7. \A m \in Msgs(toClient') : m \in Msgs(toClient) \/ Truthful(m)'
    <3>1. PICK n : n = Change(p, c) /\ Change(p, c)' = n
      BY DEF Change
    <3>2. Truthful(n)'
      BY <2>5, <3>1 DEF Truthful, Current, Settled
    <3> QED
      BY <2>5, <2>6, <3>1, <3>2
  <2> QED
    BY <1>2, <1>3, <2>0, <2>3, <2>4, <2>7, WorldTimes
<1>8. CASE ServerAcceptsDelete
  <2>0. ~ServerAnswersSync /\ FromClient("SettingDelete")
    BY <1>8 DEF ServerAcceptsDelete, ServerAnswersSync, FromClient
  <2>1. PICK p : p = Head(toServer).path
    OBVIOUS
  <2>2. p \in Paths /\ Change(p, Absent) \in ServerMsgs
    BY <2>0, <2>1, RequestType, MessageTypes
  <2>3. /\ \/ Store(p, Absent) /\ MayBroadcast(toClient, Change(p, Absent))
           \/ srv[p].content = Absent /\ UNCHANGED <<srv, clock, toClient>>
        /\ edited' = IF disk[p] = Absent THEN edited \ {p} ELSE edited
        /\ UNCHANGED <<disk, lastTime, saved, cutOff, due, owed, onPage>>
    BY <1>8, <2>1 DEF ServerAcceptsDelete, FromClient, engineVars, timeVars, pageVars
  <2>4. /\ VaultStep /\ UsersStep /\ clock' \in {clock, clock + 1}
        /\ \A q \in Paths : srv'[q] = srv[q] \/ srv'[q].time = clock'
        /\ Store(p, Absent) => srv'[p].time = clock + 1
    BY <1>2, <2>0, <2>2, <2>3, StoredVault
  <2>5. \A m \in Msgs(toClient') : m \in Msgs(toClient) \/ Truthful(m)'
    <3>1. CASE toClient' = toClient
      BY <3>1
    <3>2. CASE Store(p, Absent) /\ MayBroadcast(toClient, Change(p, Absent))
      <4>1. PICK n : n = Change(p, Absent) /\ Change(p, Absent)' = n
        BY DEF Change
      <4>2. Truthful(Change(p, Absent))'
        BY <1>3, <1>4, <2>0, <2>2, <2>4, <3>2, NewsTrue
      <4>3. Truthful(n)'
        BY <4>1, <4>2 DEF Truthful, Current, Settled
      <4>4. Msgs(toClient') \subseteq Msgs(toClient) \cup {n}
        BY <1>4, <2>2, <3>2, <4>1, BroadcastAdds
      <4> QED
        BY <4>3, <4>4
    <3> QED
      BY <2>3, <3>1, <3>2
  <2> QED
    BY <1>2, <1>3, <2>0, <2>3, <2>4, <2>5, WorldTimes
<1> QED
  BY <1>1, <1>5, <1>6, <1>7, <1>8 DEF ServerSteps

\* The time of the sync stands when somebody changes something: SettingSyncEnd is
\* alone on the connection.
LEMMA ChangesTime ==
    ASSUME QuietInSync, TypeOK, TypeOK', SessionInv, SessionInv', Changes
    PROVE  /\ UNCHANGED <<phase, pendingLast, owed, onPage, toServer>>
           /\ SyncTime' = SyncTime /\ (Asking' <=> Asking)
           /\ phase = "syncing" => Uncounted' = Uncounted
<1>1. /\ UNCHANGED <<phase, sessionVars, owed, onPage, pageNo, toServer>>
      /\ \/ toClient' = toClient
         \/ phase # "idle" /\ \E m \in ServerMsgs :
               /\ m.type # "SettingSyncEnd" /\ toClient' = Append(toClient, m)
               /\ phase = "syncing" => m.type = "SettingSyncRename" /\ pageNo >= 0
  BY ChangesMove
<1>2. pendingLast' = pendingLast /\ (Asking' <=> Asking)
  BY <1>1 DEF sessionVars, countVars, Asking
<1>3. CASE toClient' = toClient
  BY <1>1, <1>2, <1>3 DEF SyncTime, Answering, Uncounted, Outstanding, sessionVars
<1>4. CASE phase = "syncing" /\ toClient' # toClient
  BY <1>1, <1>2, <1>4, RenameMoves DEF SyncTime
<1>5. CASE phase = "live"
  BY <1>1, <1>2, <1>5 DEF SyncTime, SessionInv
<1> QED
  BY <1>1, <1>2, <1>3, <1>4, <1>5 DEF TypeOK

\* The user and the other devices.
LEMMA ChangesTimes ==
    ASSUME QuietInSync, TypeOK, TypeOK', SessionInv, SessionInv', TimesInv, Changes
    PROVE  TimesInv'
<1>1. /\ UNCHANGED <<phase, pendingLast, owed, onPage, toServer>>
      /\ SyncTime' = SyncTime /\ (Asking' <=> Asking)
      /\ phase = "syncing" => Uncounted' = Uncounted
  BY ChangesTime
<1>2. /\ toClient \in Seq(ServerMsgs) /\ SyncTime \in Nat /\ clock \in Nat
      /\ SyncTime <= clock /\ disk \in [Paths -> Contents \cup {Absent}]
      /\ srv \in [Paths -> [content : Sendable \cup {Absent}, time : Nat]]
  BY SyncTimeType DEF TypeOK, EngineTypeOK, TimesInv, TimesOrdered
<1>3. ASSUME UNCHANGED <<srv, clock, toClient, lastTime, saved, cutOff, due>>,
             \A q \in Paths : q \in edited' \/ (disk'[q] = disk[q] /\ q \notin edited)
      PROVE  TimesInv'
  <2>1. VaultStep /\ UsersStep
    BY <1>3 DEF VaultStep, UsersStep
  <2> QED
    BY <1>1, <1>3, <2>1, WorldTimes
<1>4. ASSUME NEW p \in Paths, NEW c \in Contents \cup {Absent}, UserChanges(p, c)
      PROVE  TimesInv'
  <2>1. /\ disk' = [disk EXCEPT ![p] = c] /\ edited' = edited \cup {p}
        /\ UNCHANGED <<srv, clock, toClient, lastTime, saved, cutOff, due>>
    BY <1>4 DEF UserChanges, timeVars, pageVars
  <2> QED
    BY <1>2, <1>3, <2>1
<1>5. ASSUME NEW p \in Paths, NEW q \in Paths, UserRenames(p, q)
      PROVE  TimesInv'
  <2>1. /\ disk' = [disk EXCEPT ![p] = Absent, ![q] = disk[p]]
        /\ edited' = edited \cup {p, q}
        /\ UNCHANGED <<srv, clock, toClient, lastTime, saved, cutOff, due>>
    BY <1>5 DEF UserRenames, timeVars, pageVars
  <2> QED
    BY <1>2, <1>3, <2>1
<1>6. ASSUME UNCHANGED <<disk, edited, lastTime, saved, cutOff, due>>,
             clock' = clock + 1,
             \A q \in Paths : srv'[q] = srv[q] \/ srv'[q].time = clock + 1,
             NEW m \in ServerMsgs, MayBroadcast(toClient, m), Truthful(m)'
      PROVE  TimesInv'
  <2>1. clock + 1 > clock
    BY <1>2
  <2>2. VaultStep /\ UsersStep
    BY <1>6, <2>1 DEF VaultStep, UsersStep
  <2>3. \A n \in Msgs(toClient') : n \in Msgs(toClient) \/ Truthful(n)'
    BY <1>2, <1>6, BroadcastAdds
  <2>4. \A q \in Paths : q \in edited' \/ (disk'[q] = disk[q] /\ q \notin edited)
    BY <1>6
  <2> QED
    BY <1>1, <1>6, <2>2, <2>3, <2>4, WorldTimes
<1>7. ASSUME NEW p \in Paths, NEW c \in Sendable \cup {Absent}, RemoteChanges(p, c)
      PROVE  TimesInv'
  <2>1. /\ srv' = [srv EXCEPT ![p] = [content |-> c, time |-> clock + 1]]
        /\ clock' = clock + 1 /\ MayBroadcast(toClient, Change(p, c))
        /\ UNCHANGED <<disk, edited, lastTime, saved, cutOff, due>>
    BY <1>7 DEF RemoteChanges, Store, engineVars, timeVars, pageVars
  <2>2. /\ \A q \in Paths : srv'[q] = srv[q] \/ srv'[q].time = clock + 1
        /\ srv'[p].time = clock + 1
    BY <1>2, <2>1
  <2>3. PICK m : m = Change(p, c) /\ Change(p, c)' = m
    BY DEF Change
  <2>4. m \in ServerMsgs
    BY <2>3, MessageTypes
  <2>5. Truthful(Change(p, c))'
    BY <1>1, <1>2, <2>2, NewsTrue
  <2>6. Truthful(m)'
    BY <2>3, <2>5 DEF Truthful, Current, Settled
  <2> QED
    BY <1>6, <2>1, <2>2, <2>3, <2>4, <2>6
<1>8. ASSUME NEW p \in Paths, NEW q \in Paths, RemoteRenames(p, q)
      PROVE  TimesInv'
  <2>1. PICK m : m = [type |-> "SettingSyncRename", old |-> p, path |-> q]
    OBVIOUS
  <2>2. /\ srv' = [srv EXCEPT ![p] = [content |-> Absent, time |-> clock + 1],
                              ![q] = [content |-> srv[p].content, time |-> clock + 1]]
        /\ clock' = clock + 1 /\ MayBroadcast(toClient, m)
        /\ UNCHANGED <<disk, edited, lastTime, saved, cutOff, due>>
    BY <1>8, <2>1 DEF RemoteRenames, engineVars, timeVars, pageVars
  <2>3. /\ \A r \in Paths : srv'[r] = srv[r] \/ srv'[r].time = clock + 1
        /\ srv'[p].time = clock + 1 /\ srv'[q].time = clock + 1
    BY <1>2, <2>2
  <2>4. m \in ServerMsgs /\ m.type = "SettingSyncRename" /\ m.old = p /\ m.path = q
    BY <2>1, MessageTypes
  <2>5. Truthful(m)'
    BY <1>1, <1>2, <2>3, <2>4, NewsTrue
  <2> QED
    BY <1>6, <2>2, <2>3, <2>4, <2>5
<1> QED
  BY <1>4, <1>5, <1>7, <1>8 DEF Changes

\* It holds initially, when nothing has ever been synced.
LEMMA TimesInit == Init => TimesInv
<1> SUFFICES ASSUME Init PROVE TimesInv
  OBVIOUS
<1>1. ~Asking /\ ~Answering /\ Msgs(toClient) = {}
  BY DEF Init, Asking, Answering, Msgs
<1>2. \A p \in Paths : /\ srv[p].content \in Sendable /\ srv[p].time = 1
                       \/ /\ srv[p].content = Absent /\ srv[p].time = 0
  <2> DEFINE First == { [content |-> c, time |-> 1] : c \in Sendable }
                      \cup { [content |-> Absent, time |-> 0] }
  <2>1. ASSUME NEW s \in First
        PROVE  \/ s.content \in Sendable /\ s.time = 1
               \/ s.content = Absent /\ s.time = 0
    <3>1. CASE s = [content |-> Absent, time |-> 0]
      BY <3>1
    <3>2. ASSUME NEW c \in Sendable, s = [content |-> c, time |-> 1]
          PROVE  s.content \in Sendable /\ s.time = 1
      BY <3>2
    <3> QED
      BY <2>1, <3>1, <3>2
  <2>2. \A p \in Paths : srv[p] \in First
    BY DEF Init
  <2> HIDE DEF First
  <2> QED
    BY <2>1, <2>2
<1>3. \A p \in Paths \ edited : disk[p] = Absent \/ disk[p] = srv[p].content
  BY DEF Init
<1>4. TimesOrdered
  BY <1>1, <1>2 DEF Init, TimesOrdered, SyncTime
<1>5. OnTheirWay /\ AskedTruth /\ Handled
  BY <1>1 DEF Init, OnTheirWay, AskedTruth, Handled
<1>6. OnlyUsers
  BY <1>2, <1>3 DEF OnlyUsers
<1>7. MissedOnlyByTimeOut
  BY <1>2, <1>3 DEF Init, MissedOnlyByTimeOut
<1> QED
  BY <1>4, <1>5, <1>6, <1>7 DEF TimesInv
---------------------------------------------------------------------------
\* A change that the server made no later than last_setting_sync_time, in memory
\* or in .fns_state.json, is in the vault, unless the user has changed that file
\* since or a time-out cut the sync off while the path was outstanding: through
\* disconnections, restarts, failing handlers, suppressed deletions, renames
\* among the pages and files that are never text, nothing else lets the next
\* incremental sync miss a change (run_setting_sync, commit_state,
\* process_setting_sync_messages).
THEOREM MissedByTimeOut ==
    ASSUME QuietInSync
    PROVE  Spec => []MissedOnlyByTimeOut
<1>1. TypeOK /\ TypeOK' /\ SessionInv /\ SessionInv' /\ TimesInv /\ [Next]_vars => TimesInv'
  <2> SUFFICES ASSUME TypeOK, TypeOK', SessionInv, SessionInv', TimesInv, [Next]_vars
               PROVE  TimesInv'
    OBVIOUS
  <2>1. CASE UNCHANGED vars
    <3>1. UNCHANGED <<disk, edited, phase, pending, silent, pendingLast, lastTime, saved,
                      cutOff, toServer, toClient, srv, clock, due, owed, onPage>>
      BY <2>1 DEF vars, engineVars, sessionVars, countVars, timeVars, pageVars
    <3> QED
      BY <3>1 DEF TimesInv, TimesOrdered, OnlyUsers, AskedTruth, OnTheirWay, Truthful,
                  Current, Settled, Handled, HandledNow, MissedOnlyByTimeOut, SyncTime,
                  Asking, Answering, Uncounted, Outstanding, Detail
  <2> QED
    BY <2>1, ClientTimes, OutsideTimes, ServerTimes, ChangesTimes DEF Next
<1>2. TimesInv => MissedOnlyByTimeOut
  BY DEF TimesInv
<1> QED
  BY <1>1, <1>2, TimesInit, TypeCorrect, SessionInvariant, PTL DEF Spec
===========================================================================
