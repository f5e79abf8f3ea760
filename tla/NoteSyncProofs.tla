-------------------------- MODULE NoteSyncProofs --------------------------
(***************************************************************************)
(* Theorems of NoteSync: type correctness, and, while the server           *)
(* broadcasts nothing, that a session completes only when nothing of it is *)
(* outstanding (CompleteMeansHandled), acknowledges a page only when all   *)
(* of it is handled (AckedPageHandled), that a sync implements SyncSession *)
(* (KeepsContract), and that the committed time and the echo cache are     *)
(* right (AppliedUpToLastTime, EchoTruthful), for every set of notes, every *)
(* set of contents, every page size and every bound.                       *)
(***************************************************************************)
EXTENDS NoteSync, FiniteSetTheorems, TLAPS

---------------------------------------------------------------------------
(* Channels: what Append and Tail do to the details in flight.             *)

\* A detail appended to a channel puts its note in flight, and keeps the details
\* apart if that note was not there.
LEMMA AppendDetail ==
    ASSUME NEW S, NEW s \in Seq(S), NEW d \in S, d.type \in DetailTypes
    PROVE  /\ FlightPaths(Append(s, d)) = FlightPaths(s) \cup {d.path}
           /\ Distinct(s) /\ d.path \notin FlightPaths(s) => Distinct(Append(s, d))
<1> DEFINE t == Append(s, d)
<1>1. /\ Len(t) = Len(s) + 1 /\ t[Len(s) + 1] = d /\ Len(s) \in Nat
      /\ \A i \in 1..Len(s) : t[i] = s[i]
  OBVIOUS
<1> HIDE DEF t
<1>2. Flight(t) = Flight(s) \cup {Len(s) + 1}
  BY <1>1 DEF Flight
<1>3. FlightPaths(t) = FlightPaths(s) \cup {d.path}
  <2>1. \A i \in Flight(s) : t[i] = s[i]
    BY <1>1 DEF Flight
  <2> QED
    BY <1>1, <1>2, <2>1 DEF FlightPaths
<1>4. Distinct(s) /\ d.path \notin FlightPaths(s) => Distinct(t)
  <2>1. \A i \in Flight(s) : t[i] = s[i] /\ i # Len(s) + 1
    BY <1>1 DEF Flight
  <2> QED
    BY <1>1, <1>2, <2>1 DEF Distinct, FlightPaths
<1> QED
  BY <1>3, <1>4 DEF t

\* Any other message appended leaves the details in flight as they are.
LEMMA AppendOther ==
    ASSUME NEW S, NEW s \in Seq(S), NEW m \in S, m.type \notin DetailTypes
    PROVE  /\ FlightPaths(Append(s, m)) = FlightPaths(s)
           /\ Distinct(s) => Distinct(Append(s, m))
<1> DEFINE t == Append(s, m)
<1>1. /\ Len(t) = Len(s) + 1 /\ t[Len(s) + 1] = m /\ Len(s) \in Nat
      /\ \A i \in 1..Len(s) : t[i] = s[i]
  OBVIOUS
<1> HIDE DEF t
<1>2. Flight(t) = Flight(s) /\ \A i \in Flight(s) : t[i] = s[i]
  BY <1>1 DEF Flight
<1> QED
  BY <1>2 DEF t, FlightPaths, Distinct

\* Taking a message off a channel shifts the others by one.
LEMMA TailShift ==
    ASSUME NEW S, NEW s \in Seq(S), s # <<>>
    PROVE  /\ Tail(s) \in Seq(S) /\ Head(s) = s[1] /\ Head(s) \in S
           /\ Len(s) \in Nat \ {0} /\ Len(Tail(s)) = Len(s) - 1
           /\ \A i \in 1..Len(Tail(s)) : Tail(s)[i] = s[i + 1]
  OBVIOUS

\* Taking a detail off a channel takes its note, and no other, out of flight.
LEMMA TailDetail ==
    ASSUME NEW S, NEW s \in Seq(S), s # <<>>, Head(s).type \in DetailTypes,
           Distinct(s)
    PROVE  /\ Head(s).path \in FlightPaths(s)
           /\ FlightPaths(Tail(s)) = FlightPaths(s) \ {Head(s).path}
           /\ Distinct(Tail(s))
<1> DEFINE t == Tail(s)
<1>1. /\ Head(s) = s[1] /\ Len(s) \in Nat \ {0} /\ Len(t) = Len(s) - 1
      /\ \A i \in 1..Len(t) : t[i] = s[i + 1]
  BY TailShift
<1> HIDE DEF t
<1>2. 1 \in Flight(s)
  BY <1>1 DEF Flight
<1>3. \A i \in Flight(t) : i + 1 \in Flight(s) /\ i + 1 # 1 /\ t[i] = s[i + 1]
  BY <1>1 DEF Flight
<1>4. \A i \in Flight(s) \ {1} : i - 1 \in Flight(t) /\ t[i - 1] = s[i]
  <2> TAKE i \in Flight(s) \ {1}
  <2>1. i - 1 \in 1..Len(t) /\ (i - 1) + 1 = i
    BY <1>1 DEF Flight
  <2> QED
    BY <1>1, <2>1 DEF Flight
<1>5. FlightPaths(t) = FlightPaths(s) \ {Head(s).path}
  <2>1. ASSUME NEW p \in FlightPaths(t) PROVE p \in FlightPaths(s) \ {Head(s).path}
    <3>1. PICK i \in Flight(t) : p = t[i].path
      BY DEF FlightPaths
    <3> QED
      BY <1>1, <1>2, <1>3, <3>1 DEF FlightPaths, Distinct
  <2>2. ASSUME NEW p \in FlightPaths(s) \ {Head(s).path} PROVE p \in FlightPaths(t)
    <3>1. PICK i \in Flight(s) : p = s[i].path
      BY DEF FlightPaths
    <3> QED
      BY <1>1, <1>4, <3>1 DEF FlightPaths
  <2> QED
    BY <2>1, <2>2
<1>6. Distinct(t)
  <2> SUFFICES ASSUME NEW i \in Flight(t), NEW j \in Flight(t), t[i].path = t[j].path
               PROVE  i = j
    BY DEF Distinct
  <2>1. i \in Nat /\ j \in Nat
    BY <1>1 DEF Flight
  <2>2. i + 1 = j + 1
    BY <1>3 DEF Distinct
  <2> QED
    BY <2>1, <2>2
<1> QED
  BY <1>1, <1>2, <1>5, <1>6 DEF t, FlightPaths

\* Taking any other message off leaves the details in flight as they are.
LEMMA TailOther ==
    ASSUME NEW S, NEW s \in Seq(S), s # <<>>, Head(s).type \notin DetailTypes
    PROVE  /\ FlightPaths(Tail(s)) = FlightPaths(s)
           /\ Distinct(s) => Distinct(Tail(s))
<1> DEFINE t == Tail(s)
<1>1. /\ Head(s) = s[1] /\ Len(s) \in Nat \ {0} /\ Len(t) = Len(s) - 1
      /\ \A i \in 1..Len(t) : t[i] = s[i + 1]
  BY TailShift
<1> HIDE DEF t
<1>2. \A i \in Flight(t) : i \in Nat /\ i + 1 \in Flight(s) /\ t[i] = s[i + 1]
  BY <1>1 DEF Flight
<1>3. \A i \in Flight(s) : i - 1 \in Flight(t) /\ t[i - 1] = s[i]
  <2> TAKE i \in Flight(s)
  <2>1. i - 1 \in 1..Len(t) /\ (i - 1) + 1 = i
    BY <1>1 DEF Flight
  <2> QED
    BY <1>1, <2>1 DEF Flight
<1>4. FlightPaths(t) = FlightPaths(s)
  <2>1. FlightPaths(t) \subseteq FlightPaths(s)
    BY <1>2 DEF FlightPaths
  <2>2. FlightPaths(s) \subseteq FlightPaths(t)
    BY <1>3 DEF FlightPaths
  <2> QED
    BY <2>1, <2>2
<1>5. ASSUME Distinct(s) PROVE Distinct(t)
  <2> SUFFICES ASSUME NEW i \in Flight(t), NEW j \in Flight(t), t[i].path = t[j].path
               PROVE  i = j
    BY DEF Distinct
  <2>1. i + 1 = j + 1
    BY <1>2, <1>5 DEF Distinct
  <2> QED
    BY <1>2, <2>1
<1> QED
  BY <1>4, <1>5 DEF t
---------------------------------------------------------------------------
(* Type correctness.                                                       *)

\* Every step of the client that settles a page keeps the session's counters
\* in their types.
LEMMA SettleType ==
    ASSUME TypeOK, NEW counted \in BOOLEAN, NEW rcv \in Nat,
           NEW pg \in [active : BOOLEAN, index : Nat, total : Nat,
                       received : Nat, last : BOOLEAN],
           NEW out \in Seq(ClientMsgs), Settle(counted, rcv, pg, out)
    PROVE  /\ phase' \in {"idle", "syncing", "others", "live"}
           /\ expected' \in Nat /\ received' \in Nat
           /\ gotEnd' \in BOOLEAN /\ pagingStarted' \in BOOLEAN
           /\ pageLastSeen' \in BOOLEAN /\ complete' \in BOOLEAN
           /\ page' \in [active : BOOLEAN, index : Nat, total : Nat,
                         received : Nat, last : BOOLEAN]
           /\ pendingLast' \in Nat /\ lastTime' \in Nat
           /\ toServer' \in Seq(ClientMsgs)
<1>1. PageAck(pg.index) \in ClientMsgs
  BY DEF PageAck, ClientMsgs
<1>2. toServer' \in Seq(ClientMsgs)
  <2> DEFINE ack == IF PageFinished(pg) /\ ~pg.last THEN <<PageAck(pg.index)>> ELSE <<>>
  <2>1. ack \in Seq(ClientMsgs)
    BY <1>1
  <2>2. toServer' = toServer \o out \o ack
    BY DEF Settle
  <2> QED
    BY <2>1, <2>2 DEF TypeOK
<1>3. page' \in [active : BOOLEAN, index : Nat, total : Nat, received : Nat,
                last : BOOLEAN]
  BY DEF Settle
<1>4. pageLastSeen' \in BOOLEAN /\ complete' \in BOOLEAN
  BY DEF Settle
<1>5. /\ expected' \in Nat /\ received' \in Nat /\ pendingLast' \in Nat
      /\ gotEnd' \in BOOLEAN /\ pagingStarted' \in BOOLEAN
  BY DEF Settle, TypeOK
<1>6. phase' \in {"idle", "syncing", "others", "live"} /\ lastTime' \in Nat
  BY <1>5 DEF Settle, ReturnIfComplete, TypeOK
<1> QED
  BY <1>2, <1>3, <1>4, <1>5, <1>6

\* The next message is a message of the server, with the fields of its type.
LEMMA HeadType ==
    ASSUME TypeOK, toClient # <<>>
    PROVE  LET m == Head(toClient)
           IN /\ m \in ServerMsgs
              /\ Tail(toClient) \in Seq(ServerMsgs)
              /\ m.type \in DetailTypes => m \in Details
              /\ m.type = "NoteSyncEnd" => m.count \in Nat /\ m.last \in Nat
              /\ m.type = "NoteSyncPage" =>
                    m.index \in Nat /\ m.total \in Nat /\ m.last \in BOOLEAN
              /\ m.type = "NoteSyncRename" => m.old \in Paths /\ m.path \in Paths
              /\ m.type = "NoteModifyAck" => m.path \in Paths
<1>1. Head(toClient) \in ServerMsgs /\ Tail(toClient) \in Seq(ServerMsgs)
  BY DEF TypeOK
<1> QED
  BY <1>1 DEF ServerMsgs, Details, DetailTypes

\* Applying a message of the server keeps the vault, the echo cache and the
\* mtimes in their types.
LEMMA ApplyType ==
    ASSUME TypeOK, NEW m,
           \/ m \in Details /\ m.hash # Absent /\ ApplyModify(m)
           \/ m \in Details /\ (ApplyDelete(m) \/ ApplyMtime(m))
           \/ m.old \in Paths /\ m.path \in Paths /\ ApplyRename(m)
    PROVE  EngineTypeOK' /\ mtime' \in [Paths -> Nat] /\ edited' \subseteq Paths
<1> DEFINE Entries == Hashes \cup {DeletedMarker, NoEntry}
<1>1. /\ disk \in [Paths -> Hashes \cup {Absent}] /\ echo \in [Paths -> Entries]
      /\ mtime \in [Paths -> Nat] /\ edited \subseteq Paths
  BY DEF TypeOK, EngineTypeOK
<1>2. CASE m \in Details /\ m.hash # Absent /\ ApplyModify(m)
  <2>1. m.path \in Paths /\ m.hash \in Hashes /\ m.time \in Nat
    BY <1>2 DEF Details
  <2>2. EngineTypeOK'
    BY <1>1, <1>2, <2>1 DEF ApplyModify, HandleNoteModify, EngineTypeOK
  <2>3. mtime' \in [Paths -> Nat] /\ edited' \subseteq Paths
    BY <1>1, <1>2, <2>1 DEF ApplyModify, Applied
  <2> QED
    BY <2>2, <2>3
<1>3. CASE m \in Details /\ ApplyDelete(m)
  <2>1. m.path \in Paths
    BY <1>3 DEF Details
  <2>2. EngineTypeOK'
    BY <1>1, <1>3, <2>1 DEF ApplyDelete, HandleNoteDelete, EngineTypeOK
  <2>3. mtime' \in [Paths -> Nat] /\ edited' \subseteq Paths
    BY <1>1, <1>3, <2>1 DEF ApplyDelete, Applied
  <2> QED
    BY <2>2, <2>3
<1>4. CASE m \in Details /\ ApplyMtime(m)
  BY <1>1, <1>4 DEF ApplyMtime, Details, engineVars, EngineTypeOK
<1>5. CASE m.old \in Paths /\ m.path \in Paths /\ ApplyRename(m)
  <2>1. EngineTypeOK'
    BY <1>1, <1>5 DEF ApplyRename, HandleNoteRename, Readable, EngineTypeOK
  <2>2. mtime' \in [Paths -> Nat] /\ edited' \subseteq Paths
    BY <1>1, <1>5 DEF ApplyRename
  <2> QED
    BY <2>1, <2>2
<1> QED
  BY <1>2, <1>3, <1>4, <1>5

\* push_modify sends messages of the client and keeps the echo cache in its type.
LEMMA PushType ==
    ASSUME TypeOK, NEW p \in Paths, NEW force \in BOOLEAN
    PROVE  /\ PushModifyMsgs(p, force) \in Seq(ClientMsgs)
           /\ PushModifyEcho(p, force) \in
                [Paths -> Hashes \cup {DeletedMarker, NoEntry}]
<1>1. CASE Pushes(p, force)
  <2>1. disk[p] \in Hashes
    BY <1>1 DEF Pushes, Readable
  <2>2. NoteModifyMsg(p, disk[p]) \in ClientMsgs
    BY <2>1 DEF NoteModifyMsg, ClientMsgs
  <2> QED
    BY <1>1, <2>1, <2>2 DEF PushModifyMsgs, PushModifyEcho, TypeOK, EngineTypeOK
<1>2. CASE ~Pushes(p, force)
  BY <1>2 DEF PushModifyMsgs, PushModifyEcho, TypeOK, EngineTypeOK
<1> QED
  BY <1>1, <1>2

\* The types hold initially.
LEMMA TypeInit == Init => TypeOK
<1> SUFFICES ASSUME Init PROVE TypeOK
  OBVIOUS
<1>1. EngineTypeOK
  BY DEF Init, EngineTypeOK
<1>2. mtime \in [Paths -> Nat]
  BY DEF Init
<1>3. srv \in [Paths -> [hash : Hashes \cup {Absent}, time : Nat]]
  <2> DEFINE First == { [hash |-> h, time |-> 1] : h \in Hashes \ NonText }
                      \cup { [hash |-> Absent, time |-> 0] }
  <2>1. First \subseteq [hash : Hashes \cup {Absent}, time : Nat]
    OBVIOUS
  <2>2. srv \in [Paths -> First]
    BY DEF Init
  <2> HIDE DEF First
  <2> QED
    BY <2>1, <2>2
<1>4. page \in [active : BOOLEAN, index : Nat, total : Nat, received : Nat,
               last : BOOLEAN]
  BY DEF Init, NoPage
<1>5. toServer \in Seq(ClientMsgs) /\ toClient \in Seq(ServerMsgs)
  BY DEF Init
<1>6. edited \subseteq Paths
  BY DEF Init
<1> QED
  BY <1>1, <1>2, <1>3, <1>4, <1>5, <1>6 DEF Init, TypeOK

\* The variables no step of the session's loop writes.
LEMMA ReceiveType ==
    ASSUME TypeOK, NEW types, Receive(types)
    PROVE  LET m == Head(toClient)
           IN /\ m.type \in types /\ m \in ServerMsgs /\ toClient # <<>>
              /\ toClient' \in Seq(ServerMsgs)
              /\ saved' \in Nat /\ clock' \in Nat
              /\ srv' \in [Paths -> [hash : Hashes \cup {Absent}, time : Nat]]
              /\ owed' \subseteq Details /\ onPage' \subseteq Details
              /\ pageNo' \in Nat \cup {-1}
              /\ sessions' \in Nat /\ changes' \in Nat /\ broadcasts' \in Nat
<1>1. toClient # <<>> /\ Head(toClient).type \in types /\ toClient' = Tail(toClient)
  BY DEF Receive, Take
<1>2. Head(toClient) \in ServerMsgs /\ toClient' \in Seq(ServerMsgs)
  BY <1>1, HeadType
<1>3. /\ saved' = saved /\ clock' = clock /\ srv' = srv /\ owed' = owed
      /\ onPage' = onPage /\ pageNo' = pageNo /\ sessions' = sessions
      /\ changes' = changes /\ broadcasts' = broadcasts
  BY DEF Receive, serverVars
<1>4. /\ saved \in Nat /\ clock \in Nat
      /\ srv \in [Paths -> [hash : Hashes \cup {Absent}, time : Nat]]
      /\ owed \subseteq Details /\ onPage \subseteq Details
      /\ pageNo \in Nat \cup {-1}
      /\ sessions \in Nat /\ changes \in Nat /\ broadcasts \in Nat
  BY DEF TypeOK
<1> QED
  BY <1>1, <1>2, <1>3, <1>4

\* mark_page_message keeps the page's fields in their types.
LEMMA MarkType ==
    ASSUME TypeOK
    PROVE  MarkPageMessage(page) \in [active : BOOLEAN, index : Nat, total : Nat,
                                     received : Nat, last : BOOLEAN]
<1>1. page \in [active : BOOLEAN, index : Nat, total : Nat, received : Nat,
               last : BOOLEAN]
  BY DEF TypeOK
<1> QED
  BY <1>1 DEF MarkPageMessage

\* A handler that ends in Settle: what remains is what it does to the vault
\* and to pending_uploads.
LEMMA SettledReceiveType ==
    ASSUME TypeOK, NEW types, Receive(types),
           NEW counted \in BOOLEAN, NEW rcv \in Nat,
           NEW pg \in [active : BOOLEAN, index : Nat, total : Nat,
                       received : Nat, last : BOOLEAN],
           NEW out \in Seq(ClientMsgs), Settle(counted, rcv, pg, out),
           EngineTypeOK', mtime' \in [Paths -> Nat], edited' \subseteq Paths,
           pending' \subseteq Paths
    PROVE  TypeOK'
<1>1. /\ phase' \in {"idle", "syncing", "others", "live"}
      /\ expected' \in Nat /\ received' \in Nat
      /\ gotEnd' \in BOOLEAN /\ pagingStarted' \in BOOLEAN
      /\ pageLastSeen' \in BOOLEAN /\ complete' \in BOOLEAN
      /\ page' \in [active : BOOLEAN, index : Nat, total : Nat,
                    received : Nat, last : BOOLEAN]
      /\ pendingLast' \in Nat /\ lastTime' \in Nat
      /\ toServer' \in Seq(ClientMsgs)
  BY SettleType
<1>2. /\ toClient' \in Seq(ServerMsgs)
      /\ saved' \in Nat /\ clock' \in Nat
      /\ srv' \in [Paths -> [hash : Hashes \cup {Absent}, time : Nat]]
      /\ owed' \subseteq Details /\ onPage' \subseteq Details
      /\ pageNo' \in Nat \cup {-1}
      /\ sessions' \in Nat /\ changes' \in Nat /\ broadcasts' \in Nat
  BY ReceiveType
<1> QED
  BY <1>1, <1>2 DEF TypeOK

\* The handlers of the session's loop.
LEMMA ClientType == TypeOK /\ ClientReceives => TypeOK'
<1> SUFFICES ASSUME TypeOK, ClientReceives PROVE TypeOK'
  OBVIOUS
<1> DEFINE m == Head(toClient)
<1>1. <<>> \in Seq(ClientMsgs)
  OBVIOUS
<1>2. received \in Nat /\ pending \subseteq Paths
  BY DEF TypeOK
<1>3. CASE ReceiveModify
  <2>1. m \in Details /\ m.hash # Absent
    BY <1>3, HeadType, ReceiveType DEF ReceiveModify, DetailTypes, Details
  <2>2. EngineTypeOK' /\ mtime' \in [Paths -> Nat] /\ edited' \subseteq Paths
    BY <1>3, <2>1, ApplyType DEF ReceiveModify
  <2>3. Settle(TRUE, received + 1, MarkPageMessage(page), <<>>) /\ pending' \subseteq Paths
    BY <1>2, <1>3 DEF ReceiveModify
  <2>4. MarkPageMessage(page) \in [active : BOOLEAN, index : Nat, total : Nat,
                                  received : Nat, last : BOOLEAN]
    BY MarkType
  <2>5. received + 1 \in Nat /\ Receive({"NoteSyncModify"})
    BY <1>2, <1>3 DEF ReceiveModify
  <2> QED
    BY <1>1, <2>2, <2>3, <2>4, <2>5, SettledReceiveType
<1>4. CASE ReceiveDelete
  <2>1. m \in Details
    BY <1>4, HeadType, ReceiveType DEF ReceiveDelete, DetailTypes
  <2>2. EngineTypeOK' /\ mtime' \in [Paths -> Nat] /\ edited' \subseteq Paths
    BY <1>4, <2>1, ApplyType DEF ReceiveDelete
  <2>3. Settle(TRUE, received + 1, MarkPageMessage(page), <<>>) /\ pending' \subseteq Paths
    BY <1>2, <1>4 DEF ReceiveDelete
  <2>4. MarkPageMessage(page) \in [active : BOOLEAN, index : Nat, total : Nat,
                                  received : Nat, last : BOOLEAN]
    BY MarkType
  <2>5. received + 1 \in Nat /\ Receive({"NoteSyncDelete"})
    BY <1>2, <1>4 DEF ReceiveDelete
  <2> QED
    BY <1>1, <2>2, <2>3, <2>4, <2>5, SettledReceiveType
<1>5. CASE ReceiveMtime
  <2>1. m \in Details
    BY <1>5, HeadType, ReceiveType DEF ReceiveMtime, DetailTypes
  <2>2. EngineTypeOK' /\ mtime' \in [Paths -> Nat] /\ edited' \subseteq Paths
    BY <1>5, <2>1, ApplyType DEF ReceiveMtime
  <2>3. Settle(TRUE, received + 1, MarkPageMessage(page), <<>>) /\ pending' \subseteq Paths
    BY <1>2, <1>5 DEF ReceiveMtime
  <2>4. MarkPageMessage(page) \in [active : BOOLEAN, index : Nat, total : Nat,
                                  received : Nat, last : BOOLEAN]
    BY MarkType
  <2>5. received + 1 \in Nat /\ Receive({"NoteSyncMtime"})
    BY <1>2, <1>5 DEF ReceiveMtime
  <2> QED
    BY <1>1, <2>2, <2>3, <2>4, <2>5, SettledReceiveType
<1>6. CASE ReceiveRename
  <2>1. m.old \in Paths /\ m.path \in Paths
    BY <1>6, HeadType, ReceiveType DEF ReceiveRename
  <2>2. EngineTypeOK' /\ mtime' \in [Paths -> Nat] /\ edited' \subseteq Paths
    BY <1>6, <2>1, ApplyType DEF ReceiveRename
  <2>3. Settle(FALSE, received, MarkPageMessage(page), <<>>) /\ pending' \subseteq Paths
    BY <1>2, <1>6 DEF ReceiveRename
  <2>4. MarkPageMessage(page) \in [active : BOOLEAN, index : Nat, total : Nat,
                                  received : Nat, last : BOOLEAN]
    BY MarkType
  <2> QED
    BY <1>1, <1>2, <1>6, <2>2, <2>3, <2>4, SettledReceiveType DEF ReceiveRename
<1>7. CASE ReceivePage
  <2> DEFINE pg == [active |-> TRUE, index |-> m.index, total |-> m.total,
                    received |-> 0, last |-> m.last]
  <2>1. pg \in [active : BOOLEAN, index : Nat, total : Nat, received : Nat,
                last : BOOLEAN]
    BY <1>7, HeadType, ReceiveType DEF ReceivePage
  <2>2. Settle(FALSE, received, pg, <<>>)
    BY <1>7 DEF ReceivePage
  <2>3. EngineTypeOK' /\ mtime' \in [Paths -> Nat] /\ edited' \subseteq Paths
        /\ pending' \subseteq Paths
    BY <1>7 DEF ReceivePage, TypeOK, EngineTypeOK, engineVars
  <2> HIDE DEF pg
  <2> QED
    BY <1>1, <1>2, <1>7, <2>1, <2>2, <2>3, SettledReceiveType DEF ReceivePage
<1>8. CASE ReceiveNeedPush
  <2> DEFINE p == m.path
             rcv == IF disk[p] # Absent THEN received ELSE received + 1
  <2>1. p \in Paths
    BY <1>8, HeadType, ReceiveType DEF ReceiveNeedPush, DetailTypes, Details
  <2>2. Settle(~(disk[p] # Absent), rcv, MarkPageMessage(page), PushModifyMsgs(p, TRUE))
    BY <1>8 DEF ReceiveNeedPush
  <2>3. rcv \in Nat
    BY <1>2
  <2>5. PushModifyMsgs(p, TRUE) \in Seq(ClientMsgs)
    BY <2>1, PushType
  <2>4. EngineTypeOK' /\ mtime' \in [Paths -> Nat] /\ edited' \subseteq Paths
        /\ pending' \subseteq Paths
    BY <1>2, <1>8, <2>1, PushType DEF ReceiveNeedPush, TypeOK, EngineTypeOK
  <2> HIDE DEF p, rcv
  <2> QED
    BY <1>8, <2>2, <2>3, <2>4, <2>5, MarkType, SettledReceiveType DEF ReceiveNeedPush
<1>9. CASE ReceiveModifyAck
  <2> DEFINE awaited == m.path \in pending
             rcv == IF awaited THEN received + 1 ELSE received
  <2>1. Settle(awaited, rcv, page, <<>>)
    BY <1>9 DEF ReceiveModifyAck
  <2>2. EngineTypeOK' /\ mtime' \in [Paths -> Nat] /\ edited' \subseteq Paths
        /\ pending' \subseteq Paths
    BY <1>9 DEF ReceiveModifyAck, TypeOK, EngineTypeOK, engineVars
  <2>3. rcv \in Nat /\ awaited \in BOOLEAN
    BY <1>2
  <2>4. page \in [active : BOOLEAN, index : Nat, total : Nat, received : Nat,
                  last : BOOLEAN]
    BY DEF TypeOK
  <2> HIDE DEF awaited, rcv
  <2> QED
    BY <1>1, <1>9, <2>1, <2>2, <2>3, <2>4, SettledReceiveType DEF ReceiveModifyAck
<1>10. CASE ReceiveEnd
  <2>1. m.count \in Nat /\ m.last \in Nat
    BY <1>10, HeadType, ReceiveType DEF ReceiveEnd
  <2>2. PageAck(-1) \in ClientMsgs
    BY DEF PageAck, ClientMsgs
  <2>3. /\ expected' \in Nat /\ pendingLast' \in Nat /\ gotEnd' \in BOOLEAN
        /\ complete' \in BOOLEAN /\ pagingStarted' \in BOOLEAN
        /\ toServer' \in Seq(ClientMsgs)
    BY <1>10, <2>1, <2>2 DEF ReceiveEnd, TypeOK
  <2>4. phase' \in {"idle", "syncing", "others", "live"} /\ lastTime' \in Nat
    BY <1>10, <2>3 DEF ReceiveEnd, ReturnIfComplete, TypeOK
  <2>5. /\ EngineTypeOK' /\ mtime' \in [Paths -> Nat] /\ edited' \subseteq Paths
        /\ pending' \subseteq Paths /\ received' \in Nat /\ pageLastSeen' \in BOOLEAN
        /\ page' \in [active : BOOLEAN, index : Nat, total : Nat,
                      received : Nat, last : BOOLEAN]
    BY <1>10 DEF ReceiveEnd, TypeOK, EngineTypeOK, engineVars
  <2> QED
    BY <1>10, <2>3, <2>4, <2>5, ReceiveType DEF ReceiveEnd, TypeOK
<1> QED
  BY <1>3, <1>4, <1>5, <1>6, <1>7, <1>8, <1>9, <1>10 DEF ClientReceives

\* Messages the server sends.
LEMMA MessageTypes ==
    ASSUME TypeOK
    PROVE  /\ \A d \in Details : d \in ServerMsgs
           /\ \A c, t \in Nat :
                [type |-> "NoteSyncEnd", count |-> c, last |-> t] \in ServerMsgs
           /\ \A i, t \in Nat, l \in BOOLEAN :
                [type |-> "NoteSyncPage", index |-> i, total |-> t, last |-> l]
                    \in ServerMsgs
           /\ \A p, q \in Paths :
                [type |-> "NoteSyncRename", old |-> p, path |-> q] \in ServerMsgs
           /\ \A p \in Paths : [type |-> "NoteModifyAck", path |-> p] \in ServerMsgs
  BY DEF ServerMsgs

\* A handler that fails keeps the echo cache in its type.
LEMMA FailedEchoType ==
    ASSUME TypeOK, NEW m
    PROVE  FailedEcho(m) \in [Paths -> Hashes \cup {DeletedMarker, NoEntry}]
  BY DEF FailedEcho, WriteTypes, TypeOK, EngineTypeOK

LEMMA MislaidType ==
    ASSUME TypeOK, toClient # <<>>
    PROVE  Mislaid(Head(toClient)) \subseteq Paths
<1>1. Head(toClient) \in ServerMsgs
  BY HeadType DEF TypeOK
<1>2. Head(toClient).type = "NoteSyncRename" => Head(toClient).old \in Paths
  BY <1>1 DEF ServerMsgs, Details, DetailTypes
<1> QED
  BY <1>2 DEF Mislaid

\* The steps of the client outside the session's loop.
LEMMA OutsideType ==
    ASSUME TypeOK,
           \/ SyncIncremental \/ ReceiveNeedPushOfVanishing \/ HandlerFails
           \/ IgnoreNoteMessage \/ CommitState \/ LiveReceive \/ LiveHandlerFails
           \/ Disconnect \/ Restart
    PROVE  TypeOK'
<1>1. CASE SyncIncremental
  <2>1. LocalNotes \in [Paths -> Hashes \cup {Absent}]
    BY DEF LocalNotes, TypeOK, EngineTypeOK
  <2>2. [type |-> "NoteSync", last |-> lastTime, notes |-> LocalNotes] \in ClientMsgs
    BY <2>1 DEF ClientMsgs, TypeOK
  <2>3. toServer' \in Seq(ClientMsgs)
    BY <1>1, <2>2 DEF SyncIncremental
  <2>4. /\ expected' \in Nat /\ received' \in Nat /\ pending' \subseteq Paths
        /\ gotEnd' \in BOOLEAN /\ pagingStarted' \in BOOLEAN
        /\ pageLastSeen' \in BOOLEAN /\ complete' \in BOOLEAN
        /\ page' \in [active : BOOLEAN, index : Nat, total : Nat,
                      received : Nat, last : BOOLEAN]
        /\ pendingLast' \in Nat
    BY <1>1 DEF SyncIncremental, ResetCounters, NoPage
  <2> QED
    BY <1>1, <2>3, <2>4 DEF SyncIncremental, TypeOK, EngineTypeOK, engineVars,
                            timeVars, serverVars
<1>2. CASE ReceiveNeedPushOfVanishing
  <2> DEFINE m == Head(toClient)
  <2>1. toClient # <<>> /\ m.type = "NoteSyncNeedPush" /\ toClient' = Tail(toClient)
    BY <1>2 DEF ReceiveNeedPushOfVanishing, Take
  <2>2. m.path \in Paths /\ toClient' \in Seq(ServerMsgs)
    BY <2>1, HeadType DEF DetailTypes, Details
  <2>3. /\ EngineTypeOK' /\ mtime' \in [Paths -> Nat] /\ edited' \subseteq Paths
        /\ pending' \subseteq Paths
    BY <1>2, <2>2 DEF ReceiveNeedPushOfVanishing, TypeOK, EngineTypeOK
  <2>4. Settle(FALSE, received, MarkPageMessage(page), <<>>)
    BY <1>2 DEF ReceiveNeedPushOfVanishing
  <2>5. /\ phase' \in {"idle", "syncing", "others", "live"}
        /\ expected' \in Nat /\ received' \in Nat
        /\ gotEnd' \in BOOLEAN /\ pagingStarted' \in BOOLEAN
        /\ pageLastSeen' \in BOOLEAN /\ complete' \in BOOLEAN
        /\ page' \in [active : BOOLEAN, index : Nat, total : Nat,
                      received : Nat, last : BOOLEAN]
        /\ pendingLast' \in Nat /\ lastTime' \in Nat
        /\ toServer' \in Seq(ClientMsgs)
    <3>1. <<>> \in Seq(ClientMsgs) /\ received \in Nat
      BY DEF TypeOK
    <3> QED
      BY <2>4, <3>1, MarkType, SettleType
  <2>6. /\ saved' \in Nat /\ clock' \in Nat
        /\ srv' \in [Paths -> [hash : Hashes \cup {Absent}, time : Nat]]
        /\ owed' \subseteq Details /\ onPage' \subseteq Details
        /\ pageNo' \in Nat \cup {-1}
        /\ sessions' \in Nat /\ changes' \in Nat /\ broadcasts' \in Nat
    <3>1. /\ saved' = saved /\ srv' = srv /\ owed' = owed /\ onPage' = onPage
          /\ pageNo' = pageNo /\ sessions' = sessions /\ broadcasts' = broadcasts
          /\ clock' = clock + 1 /\ changes' = changes + 1
      BY <1>2 DEF ReceiveNeedPushOfVanishing, Tick
    <3> QED
      BY <3>1 DEF TypeOK
  <2> QED
    BY <2>2, <2>3, <2>5, <2>6 DEF TypeOK
<1>3. CASE HandlerFails
  <2> DEFINE m == Head(toClient)
  <2>1. Receive(WriteTypes)
    BY <1>3 DEF HandlerFails
  <2>2. EngineTypeOK'
    BY <1>3, FailedEchoType DEF HandlerFails, TypeOK, EngineTypeOK
  <2>3. /\ mtime' = mtime /\ lastTime' = lastTime /\ toServer' = toServer
        /\ edited' \subseteq Paths /\ phase' = "others" /\ sessionVars' = sessionVars
    BY <1>3, <2>1, MislaidType DEF HandlerFails, Receive, Take, TypeOK
  <2>4. /\ toClient' \in Seq(ServerMsgs)
        /\ saved' \in Nat /\ clock' \in Nat
        /\ srv' \in [Paths -> [hash : Hashes \cup {Absent}, time : Nat]]
        /\ owed' \subseteq Details /\ onPage' \subseteq Details
        /\ pageNo' \in Nat \cup {-1}
        /\ sessions' \in Nat /\ changes' \in Nat /\ broadcasts' \in Nat
    BY <2>1, ReceiveType
  <2> QED
    BY <2>2, <2>3, <2>4 DEF sessionVars, TypeOK
<1>4. CASE IgnoreNoteMessage
  <2>1. toClient' \in Seq(ServerMsgs)
    BY <1>4, HeadType DEF IgnoreNoteMessage
  <2> QED
    BY <1>4, <2>1 DEF IgnoreNoteMessage, TypeOK, EngineTypeOK, engineVars,
                      sessionVars, timeVars, serverVars, ghostVars
<1>5. CASE CommitState
  BY <1>5 DEF CommitState, TypeOK, EngineTypeOK, engineVars, sessionVars,
              serverVars, ghostVars
<1>6. CASE LiveReceive
  <2> DEFINE m == Head(toClient)
  <2>1. toClient # <<>> /\ toClient' \in Seq(ServerMsgs)
    BY <1>6, HeadType DEF LiveReceive
  <2>2. \/ m.type = "NoteSyncModify" /\ ApplyModify(m)
        \/ m.type = "NoteSyncDelete" /\ ApplyDelete(m)
        \/ m.type = "NoteSyncRename" /\ ApplyRename(m)
        \/ m.type = "NoteSyncMtime" /\ ApplyMtime(m)
        \/ UNCHANGED <<engineVars, mtime, edited>>
    BY <1>6 DEF LiveReceive
  <2>3. EngineTypeOK' /\ mtime' \in [Paths -> Nat] /\ edited' \subseteq Paths
    <3>1. CASE UNCHANGED <<engineVars, mtime, edited>>
      BY <3>1 DEF TypeOK, EngineTypeOK, engineVars
    <3>2. CASE m.type = "NoteSyncRename" /\ ApplyRename(m)
      BY <2>1, <3>2, HeadType, ApplyType
    <3>3. CASE m.type = "NoteSyncModify" /\ ApplyModify(m)
      <4>1. m \in Details /\ m.hash # Absent
        BY <2>1, <3>3, HeadType DEF DetailTypes, Details
      <4> QED
        BY <3>3, <4>1, ApplyType
    <3>4. CASE \/ m.type = "NoteSyncDelete" /\ ApplyDelete(m)
               \/ m.type = "NoteSyncMtime" /\ ApplyMtime(m)
      <4>1. m \in Details
        BY <2>1, <3>4, HeadType DEF DetailTypes
      <4> QED
        BY <3>4, <4>1, ApplyType
    <3> QED
      BY <2>2, <3>1, <3>2, <3>3, <3>4
  <2> QED
    BY <1>6, <2>1, <2>3 DEF LiveReceive, TypeOK, sessionVars, timeVars, serverVars
<1>9. CASE LiveHandlerFails
  <2>1. toClient' \in Seq(ServerMsgs)
    BY <1>9, HeadType DEF LiveHandlerFails
  <2>2. EngineTypeOK'
    BY <1>9, FailedEchoType DEF LiveHandlerFails, TypeOK, EngineTypeOK
  <2>3. edited' \subseteq Paths
    BY <1>9, MislaidType DEF LiveHandlerFails, TypeOK
  <2> QED
    BY <1>9, <2>1, <2>2, <2>3 DEF LiveHandlerFails, TypeOK, sessionVars, timeVars,
                            serverVars, ghostVars
<1>7. CASE Disconnect
  BY <1>7 DEF Disconnect, ConnectionLost, TypeOK, EngineTypeOK, engineVars,
              sessionVars, ghostVars
<1>8. CASE Restart
  BY <1>8 DEF Restart, ConnectionLost, TypeOK, EngineTypeOK, sessionVars, ghostVars
<1> QED
  BY <1>1, <1>2, <1>3, <1>4, <1>5, <1>6, <1>7, <1>8, <1>9

\* Details are about notes, and their number is a number.
LEMMA SizeType ==
    ASSUME NEW ds \in SUBSET Details
    PROVE  DetailPaths(ds) \subseteq Paths /\ Size(ds) \in Nat
<1>1. DetailPaths(ds) \subseteq Paths
  BY DEF DetailPaths, Details
<1> QED
  BY <1>1, NoteSyncAssumption, FS_Subset, FS_CardinalityType DEF Size

\* The steps of the server.
LEMMA ServerType == TypeOK /\ ServerSteps => TypeOK'
<1> SUFFICES ASSUME TypeOK, ServerSteps PROVE TypeOK'
  OBVIOUS
<1>1. CASE ServerAnswersSync
  <2>1. PICK verdict \in [Paths -> DetailTypes \cup {"InSync"}] :
          LET stale == { p \in Paths : verdict[p] # "InSync" }
          IN /\ \A p \in Paths : verdict[p] \in
                   Verdicts(p, Head(toServer).last, Head(toServer).notes[p])
             /\ owed' = { Detail(verdict[p], p) : p \in stale }
             /\ toClient' = Append(toClient, [type |-> "NoteSyncEnd",
                                              count |-> Cardinality(stale),
                                              last |-> clock])
    BY <1>1 DEF ServerAnswersSync
  <2> DEFINE stale == { p \in Paths : verdict[p] # "InSync" }
  <2>2. Cardinality(stale) \in Nat
    BY NoteSyncAssumption, FS_Subset, FS_CardinalityType
  <2>3. ASSUME NEW p \in stale PROVE Detail(verdict[p], p) \in Details
    <3>1. verdict[p] = "NoteSyncModify" => srv[p].hash # Absent
      BY <2>1 DEF Verdicts
    <3>2. srv[p] \in [hash : Hashes \cup {Absent}, time : Nat]
      BY DEF TypeOK
    <3>3. verdict[p] \in DetailTypes
      OBVIOUS
    <3> QED
      BY <3>1, <3>2, <3>3 DEF Detail, Details
  <2>4. owed' \subseteq Details
    BY <2>1, <2>3
  <2>5. toClient' \in Seq(ServerMsgs)
    BY <2>1, <2>2, MessageTypes DEF TypeOK
  <2>6. toServer' \in Seq(ClientMsgs)
    BY <1>1 DEF ServerAnswersSync, FromClient, TypeOK
  <2> QED
    BY <1>1, <2>4, <2>5, <2>6 DEF ServerAnswersSync, FromClient, TypeOK, EngineTypeOK,
       engineVars, sessionVars, timeVars, ghostVars
<1>2. CASE ServerStartsPage
  <2>1. toServer' \in Seq(ClientMsgs)
    BY <1>2 DEF ServerStartsPage, FromClient, TypeOK
  <2>2. /\ owed' \subseteq Details /\ onPage' \subseteq Details
        /\ pageNo' \in Nat \cup {-1} /\ toClient' \in Seq(ServerMsgs)
    <3>1. CASE Head(toServer).index = pageNo /\ owed # {}
      <4>1. PICK batch \in SUBSET owed :
              /\ batch # {} /\ Size(batch) <= PageSize
              /\ onPage' = batch
              /\ owed' = owed \ batch
              /\ pageNo' = pageNo + 1
              /\ toClient' = Append(toClient,
                    [type |-> "NoteSyncPage", index |-> pageNo + 1,
                     total |-> Size(batch), last |-> batch = owed])
        BY <1>2, <3>1 DEF ServerStartsPage
      <4>2. pageNo + 1 \in Nat
        BY DEF TypeOK
      <4>3. Size(batch) \in Nat
        BY SizeType DEF TypeOK
      <4>4. [type |-> "NoteSyncPage", index |-> pageNo + 1, total |-> Size(batch),
             last |-> batch = owed] \in ServerMsgs
        BY <4>2, <4>3, MessageTypes
      <4>5. toClient \in Seq(ServerMsgs) /\ owed \subseteq Details
        BY DEF TypeOK
      <4> QED
        BY <4>1, <4>2, <4>4, <4>5
    <3>2. CASE ~(Head(toServer).index = pageNo /\ owed # {})
      BY <1>2, <3>2 DEF ServerStartsPage, TypeOK
    <3> QED
      BY <3>1, <3>2
  <2> QED
    BY <1>2, <2>1, <2>2 DEF ServerStartsPage, FromClient, TypeOK, EngineTypeOK,
       engineVars, sessionVars, timeVars, ghostVars
<1>3. CASE ServerSendsDetail
  <2>1. PICK d \in onPage :
          /\ onPage' = onPage \ {d}
          /\ toClient' = Append(toClient, d)
          /\ UNCHANGED <<engineVars, mtime, phase, sessionVars, timeVars,
                         toServer, srv, clock, owed, pageNo, ghostVars>>
    BY <1>3 DEF ServerSendsDetail
  <2>2. d \in ServerMsgs
    BY MessageTypes DEF TypeOK
  <2>3. onPage' \subseteq Details /\ toClient' \in Seq(ServerMsgs)
    BY <2>1, <2>2 DEF TypeOK
  <2> QED
    BY <2>1, <2>3 DEF TypeOK, EngineTypeOK, engineVars, sessionVars, timeVars, ghostVars
<1>4. CASE ServerAcceptsModify
  <2> DEFINE m == Head(toServer)
             acked == Append(toClient, [type |-> "NoteModifyAck", path |-> m.path])
             copy == [type |-> "NoteSyncModify", path |-> m.path, hash |-> m.hash,
                      time |-> clock + 1]
  <2>1. toServer # <<>> /\ m.type = "NoteModify" /\ toServer' = Tail(toServer)
    BY <1>4 DEF ServerAcceptsModify, FromClient
  <2>2. m \in ClientMsgs /\ toServer' \in Seq(ClientMsgs)
    BY <2>1 DEF TypeOK
  <2>3. m.path \in Paths /\ m.hash \in Hashes
    BY <2>1, <2>2 DEF ClientMsgs
  <2>4. acked \in Seq(ServerMsgs)
    BY <2>3, MessageTypes DEF TypeOK
  <2>5. copy \in ServerMsgs
    <3>1. clock + 1 \in Nat
      BY DEF TypeOK
    <3>2. m.hash # Absent
      BY <2>3, HashesAssumption
    <3>3. copy \in Details
      BY <2>3, <3>1, <3>2 DEF Details, DetailTypes
    <3> QED
      BY <3>3, MessageTypes
  <2>6. \/ toClient' = acked /\ broadcasts' = broadcasts
        \/ toClient' = Append(acked, copy) /\ broadcasts' = broadcasts + 1
    BY <1>4 DEF ServerAcceptsModify, Broadcast
  <2>11. broadcasts \in Nat
    BY DEF TypeOK
  <2>7. toClient' \in Seq(ServerMsgs) /\ broadcasts' \in Nat
    <3> HIDE DEF acked, copy
    <3> QED
      BY <2>4, <2>5, <2>6, <2>11
  <2>8. srv' = [srv EXCEPT ![m.path] = [hash |-> m.hash, time |-> clock + 1]]
    BY <1>4 DEF ServerAcceptsModify
  <2>9. srv' \in [Paths -> [hash : Hashes \cup {Absent}, time : Nat]]
        /\ clock' \in Nat /\ edited' \subseteq Paths
    BY <1>4, <2>3, <2>8 DEF ServerAcceptsModify, TypeOK
  <2>10. UNCHANGED <<owed, onPage, pageNo, sessions, changes, engineVars,
                     mtime, phase, sessionVars, timeVars>>
    BY <1>4 DEF ServerAcceptsModify, FromClient
  <2> HIDE DEF m
  <2> QED
    BY <2>2, <2>7, <2>9, <2>10 DEF TypeOK, EngineTypeOK, engineVars, sessionVars, timeVars
<1> QED
  BY <1>1, <1>2, <1>3, <1>4 DEF ServerSteps

\* The user and the other devices.
LEMMA ChangesType == TypeOK /\ Changes => TypeOK'
<1> SUFFICES ASSUME TypeOK, Changes PROVE TypeOK'
  OBVIOUS
<1>1. /\ clock + 1 \in Nat /\ changes + 1 \in Nat /\ broadcasts \in Nat
      /\ toClient \in Seq(ServerMsgs)
  BY DEF TypeOK
<1>2. ASSUME NEW p \in Paths, NEW h \in Hashes \cup {Absent}, UserChanges(p, h)
      PROVE  TypeOK'
  <2>1. EngineTypeOK' /\ mtime' \in [Paths -> Nat]
    BY <1>1, <1>2 DEF UserChanges, TypeOK, EngineTypeOK
  <2> QED
    BY <1>1, <1>2, <2>1 DEF UserChanges, Tick, TypeOK, sessionVars, timeVars
<1>3. ASSUME NEW p \in Paths, NEW h \in (Hashes \ NonText) \cup {Absent},
             RemoteChanges(p, h)
      PROVE  TypeOK'
  <2> DEFINE m == [type |-> IF h = Absent THEN "NoteSyncDelete" ELSE "NoteSyncModify",
                   path |-> p, hash |-> h, time |-> clock + 1]
  <2>1. m \in ServerMsgs
    <3>1. m \in Details
      BY <1>1 DEF Details, DetailTypes
    <3> QED
      BY <3>1, MessageTypes
  <2>2. srv' \in [Paths -> [hash : Hashes \cup {Absent}, time : Nat]]
    BY <1>1, <1>3 DEF RemoteChanges, TypeOK
  <2>3. \/ toClient' = toClient /\ broadcasts' = broadcasts
        \/ toClient' = Append(toClient, m) /\ broadcasts' = broadcasts + 1
    BY <1>3 DEF RemoteChanges, Broadcast
  <2>4. toClient' \in Seq(ServerMsgs) /\ broadcasts' \in Nat
    <3> HIDE DEF m
    <3> QED
      BY <1>1, <2>1, <2>3
  <2>5. /\ clock' = clock + 1 /\ changes' = changes + 1
        /\ UNCHANGED <<engineVars, mtime, phase, sessionVars, timeVars, toServer,
                       owed, onPage, pageNo, sessions, edited>>
    BY <1>3 DEF RemoteChanges, Tick
  <2> QED
    BY <1>1, <2>2, <2>4, <2>5 DEF TypeOK, EngineTypeOK, engineVars, sessionVars, timeVars
<1>4. ASSUME NEW old \in Paths, NEW new \in Paths, RemoteRenames(old, new)
      PROVE  TypeOK'
  <2> DEFINE m == [type |-> "NoteSyncRename", old |-> old, path |-> new]
  <2>1. m \in ServerMsgs
    BY MessageTypes
  <2>2. srv' \in [Paths -> [hash : Hashes \cup {Absent}, time : Nat]]
    <3>1. srv[old].hash \in Hashes \cup {Absent}
      BY DEF TypeOK
    <3> QED
      BY <1>1, <1>4, <3>1 DEF RemoteRenames, TypeOK
  <2>3. \/ toClient' = toClient /\ broadcasts' = broadcasts
        \/ toClient' = Append(toClient, m) /\ broadcasts' = broadcasts + 1
    BY <1>4 DEF RemoteRenames, Broadcast
  <2>4. toClient' \in Seq(ServerMsgs) /\ broadcasts' \in Nat
    <3> HIDE DEF m
    <3> QED
      BY <1>1, <2>1, <2>3
  <2>5. /\ clock' = clock + 1 /\ changes' = changes + 1
        /\ UNCHANGED <<engineVars, mtime, phase, sessionVars, timeVars, toServer,
                       owed, onPage, pageNo, sessions, edited>>
    BY <1>4 DEF RemoteRenames, Tick
  <2> QED
    BY <1>1, <2>2, <2>4, <2>5 DEF TypeOK, EngineTypeOK, engineVars, sessionVars, timeVars
<1> QED
  BY <1>2, <1>3, <1>4 DEF Changes

\* Every variable stays in its type, whatever the bounds and whatever fails
\* (the handlers of note.rs and the paging of process_sync_responses).
THEOREM TypeCorrect == Spec => []TypeOK
<1>1. TypeOK /\ [Next]_vars => TypeOK'
  <2> SUFFICES ASSUME TypeOK, [Next]_vars PROVE TypeOK'
    OBVIOUS
  <2>1. CASE UNCHANGED vars
    BY <2>1 DEF vars, TypeOK, EngineTypeOK, engineVars, sessionVars, timeVars,
                serverVars, ghostVars
  <2> QED
    BY <2>1, ClientType, OutsideType, ServerType, ChangesType DEF Next
<1> QED
  BY <1>1, TypeInit, PTL DEF Spec
---------------------------------------------------------------------------
(* Completion.                                                             *)

\* Sets of notes are finite: their sizes count down as notes are removed.
LEMMA CountNotes ==
    ASSUME NEW S \in SUBSET Paths
    PROVE  /\ Cardinality(S) \in Nat
           /\ Cardinality(S) = 0 <=> S = {}
           /\ \A p \in S : Cardinality(S \ {p}) = Cardinality(S) - 1
<1>1. IsFiniteSet(S)
  BY NoteSyncAssumption, FS_Subset
<1> QED
  BY <1>1, FS_CardinalityType, FS_EmptySet, FS_RemoveElement

\* What is outstanding is a set of notes.
LEMMA OutstandingNotes == TypeOK => Outstanding \subseteq Paths
<1> SUFFICES ASSUME TypeOK PROVE Outstanding \subseteq Paths
  OBVIOUS
<1>1. DetailPaths(owed) \subseteq Paths /\ DetailPaths(onPage) \subseteq Paths
  BY SizeType DEF TypeOK
<1>2. FlightPaths(toClient) \subseteq Paths
  <2> SUFFICES ASSUME NEW i \in Flight(toClient) PROVE toClient[i].path \in Paths
    BY DEF FlightPaths
  <2>1. toClient[i] \in ServerMsgs /\ toClient[i].type \in DetailTypes
    BY DEF Flight, TypeOK
  <2> QED
    BY <2>1 DEF ServerMsgs, Details, DetailTypes
<1> QED
  BY <1>1, <1>2 DEF Outstanding, TypeOK

\* The same after a step.
LEMMA OutstandingNotesNext == TypeOK' => (Outstanding \subseteq Paths)'
  BY OutstandingNotes, PTL

\* Nothing the invariant mentions has changed.
LEMMA SessionFrame ==
    ASSUME SessionInv,
           UNCHANGED <<phase, toServer, toClient, owed, onPage, pending, received,
                       expected, gotEnd, complete, page>>
    PROVE  SessionInv'
  BY DEF SessionInv, Asking, Answering, OnePlaceEach, CompleteMeansHandled,
         Outstanding

\* A step of the session's loop after NoteSyncEnd: if the counters still differ
\* by the number of outstanding notes after the handler, they are equal to it
\* when the session completes.
LEMMA SettleSession ==
    ASSUME TypeOK, SessionInv, TypeOK', phase = "syncing", ~Asking, ~Answering,
           toClient # <<>>, toClient' = Tail(toClient),
           NEW counted \in BOOLEAN, NEW rcv \in Nat, NEW pg,
           NEW out \in Seq(ClientMsgs), Settle(counted, rcv, pg, out),
           \A i \in 1..Len(out) : out[i].type # "NoteSync",
           OnePlaceEach', rcv + Cardinality(Outstanding') = expected
    PROVE  SessionInv'
<1>1. gotEnd /\ ~complete
  BY DEF SessionInv
<1>2. gotEnd' /\ expected' = expected /\ received' = rcv
  BY <1>1 DEF Settle
<1>3. ~Asking'
  <2> DEFINE ack == IF PageFinished(pg) /\ ~pg.last THEN <<PageAck(pg.index)>> ELSE <<>>
  <2>1. toServer' = (toServer \o out) \o ack /\ toServer' \in Seq(ClientMsgs)
    BY DEF Settle, TypeOK
  <2>2. \A i \in 1..Len(ack) : ack[i].type # "NoteSync"
    BY DEF PageAck
  <2>3. \A i \in 1..Len(toServer) : toServer[i].type # "NoteSync"
    BY DEF Asking
  <2>4. toServer \in Seq(ClientMsgs) /\ Len(ack) \in Nat
    BY DEF TypeOK
  <2> SUFFICES ASSUME NEW i \in 1..Len(toServer') PROVE toServer'[i].type # "NoteSync"
    BY DEF Asking
  <2>5. CASE i <= Len(toServer)
    BY <2>1, <2>3, <2>4, <2>5
  <2>6. CASE Len(toServer) < i /\ i <= Len(toServer) + Len(out)
    BY <2>1, <2>4, <2>6
  <2>7. CASE Len(toServer) + Len(out) < i
    BY <2>1, <2>2, <2>4, <2>7
  <2> QED
    BY <2>4, <2>5, <2>6, <2>7
<1>4. ~Answering'
  <2>1. toClient \in Seq(ServerMsgs)
    BY DEF TypeOK
  <2>2. \A i \in 1..Len(toClient') : i + 1 \in 1..Len(toClient) /\ toClient'[i] = toClient[i + 1]
    BY <2>1, TailShift
  <2> QED
    BY <2>2 DEF Answering
<1>5. CASE complete'
  <2>1. phase' = "others"
    BY <1>5 DEF Settle, ReturnIfComplete
  <2>2. rcv >= expected
    BY <1>1, <1>5 DEF Settle, AllReceived
  <2>3. /\ Cardinality(Outstanding') \in Nat
        /\ Cardinality(Outstanding') = 0 <=> Outstanding' = {}
    BY OutstandingNotesNext, CountNotes
  <2>4. expected \in Nat
    BY DEF TypeOK
  <2>5. Outstanding' = {}
    BY <2>2, <2>3, <2>4
  <2> QED
    BY <1>3, <1>4, <2>1, <2>5 DEF SessionInv, CompleteMeansHandled
<1>6. CASE ~complete'
  <2>1. phase' = "syncing"
    BY <1>6 DEF Settle, ReturnIfComplete
  <2> QED
    BY <1>2, <1>3, <1>4, <1>6, <2>1 DEF SessionInv, CompleteMeansHandled
<1> QED
  BY <1>5, <1>6 DEF Settle

\* A detail leaves the channel and is counted: one note less is outstanding.
LEMMA DetailHandled ==
    ASSUME TypeOK, SessionInv, toClient # <<>>, toClient' = Tail(toClient),
           Head(toClient).type \in DetailTypes,
           UNCHANGED <<owed, onPage, pending>>
    PROVE  /\ OnePlaceEach'
           /\ Outstanding' = Outstanding \ {Head(toClient).path}
           /\ Head(toClient).path \in Outstanding
<1> DEFINE p == Head(toClient).path
<1>1. toClient \in Seq(ServerMsgs) /\ OnePlaceEach
  BY DEF TypeOK, SessionInv
<1>2. /\ p \in FlightPaths(toClient)
      /\ FlightPaths(toClient') = FlightPaths(toClient) \ {p}
      /\ Distinct(toClient')
  BY <1>1, TailDetail DEF OnePlaceEach
<1>3. OnePlaceEach'
  BY <1>1, <1>2 DEF OnePlaceEach
<1>4. p \notin DetailPaths(owed) \cup DetailPaths(onPage) \cup pending
  BY <1>1, <1>2 DEF OnePlaceEach, DetailPaths
<1> QED
  BY <1>2, <1>3, <1>4 DEF Outstanding

\* A detail leaves the channel and its note waits for an acknowledgement.
LEMMA DetailPushed ==
    ASSUME TypeOK, SessionInv, toClient # <<>>, toClient' = Tail(toClient),
           Head(toClient).type \in DetailTypes,
           pending' = pending \cup {Head(toClient).path},
           UNCHANGED <<owed, onPage>>
    PROVE  OnePlaceEach' /\ Outstanding' = Outstanding
<1> DEFINE p == Head(toClient).path
<1>1. toClient \in Seq(ServerMsgs) /\ OnePlaceEach
  BY DEF TypeOK, SessionInv
<1>2. /\ p \in FlightPaths(toClient)
      /\ FlightPaths(toClient') = FlightPaths(toClient) \ {p}
      /\ Distinct(toClient')
  BY <1>1, TailDetail DEF OnePlaceEach
<1>3. OnePlaceEach'
  BY <1>1, <1>2 DEF OnePlaceEach
<1> QED
  BY <1>2, <1>3 DEF Outstanding

\* Another message leaves the channel, with or without notes of
\* pending_uploads.
LEMMA OtherHandled ==
    ASSUME TypeOK, SessionInv, toClient # <<>>, toClient' = Tail(toClient),
           Head(toClient).type \notin DetailTypes,
           NEW acked, pending' = pending \ acked,
           UNCHANGED <<owed, onPage>>
    PROVE  /\ OnePlaceEach'
           /\ Outstanding' = Outstanding \ (acked \cap pending)
<1>1. toClient \in Seq(ServerMsgs) /\ OnePlaceEach
  BY DEF TypeOK, SessionInv
<1>2. FlightPaths(toClient') = FlightPaths(toClient) /\ Distinct(toClient')
  BY <1>1, TailOther DEF OnePlaceEach
<1>3. OnePlaceEach'
  BY <1>1, <1>2 DEF OnePlaceEach
<1>4. pending \cap (DetailPaths(owed) \cup DetailPaths(onPage)
                      \cup FlightPaths(toClient)) = {}
  BY <1>1 DEF OnePlaceEach, DetailPaths
<1> QED
  BY <1>2, <1>3, <1>4 DEF Outstanding

\* Another message leaves the channel and nothing waits for it.
LEMMA OtherIgnored ==
    ASSUME TypeOK, SessionInv, toClient # <<>>, toClient' = Tail(toClient),
           Head(toClient).type \notin DetailTypes,
           UNCHANGED <<owed, onPage, pending>>
    PROVE  OnePlaceEach' /\ Outstanding' = Outstanding
<1>1. pending' = pending \ {}
  OBVIOUS
<1>2. OnePlaceEach' /\ Outstanding' = Outstanding \ ({} \cap pending)
  BY <1>1, OtherHandled
<1> QED
  BY <1>2

\* The request and NoteSyncEnd travel alone.
LEMMA LoopBusy ==
    ASSUME TypeOK, SessionInv, toClient # <<>>, Head(toClient).type # "NoteSyncEnd"
    PROVE  ~Asking /\ ~Answering
<1>1. /\ Len(toClient) \in Nat \ {0} /\ Head(toClient) = toClient[1]
      /\ Len(toServer) \in Nat
  BY TailShift DEF TypeOK
<1>2. ~Asking
  BY <1>1 DEF Asking, SessionInv
<1>3. ~Answering
  BY <1>1 DEF Answering, SessionInv
<1> QED
  BY <1>2, <1>3

\* push_modify never sends the request of a session.
LEMMA NoRequestPushed ==
    ASSUME NEW p, NEW force
    PROVE  \A i \in 1..Len(PushModifyMsgs(p, force)) :
              PushModifyMsgs(p, force)[i].type # "NoteSync"
  BY DEF PushModifyMsgs, NoteModifyMsg

\* Every step of process_sync_responses preserves the session invariant.
LEMMA ClientSession == TypeOK /\ TypeOK' /\ SessionInv /\ ClientReceives => SessionInv'
<1> SUFFICES ASSUME TypeOK, TypeOK', SessionInv, ClientReceives PROVE SessionInv'
  OBVIOUS
<1> DEFINE m == Head(toClient)
           n == Cardinality(Outstanding)
<1>1. /\ <<>> \in Seq(ClientMsgs) /\ \A i \in 1..Len(<<>>) : <<>>[i].type # "NoteSync"
      /\ received \in Nat /\ expected \in Nat /\ n \in Nat
  <2>1. n \in Nat
    BY OutstandingNotes, CountNotes
  <2>2. received \in Nat /\ expected \in Nat
    BY DEF TypeOK
  <2>3. <<>> \in Seq(ClientMsgs) /\ \A i \in 1..Len(<<>>) : <<>>[i].type # "NoteSync"
    OBVIOUS
  <2> QED
    BY <2>1, <2>2, <2>3
<1>2. /\ phase = "syncing" /\ toClient # <<>> /\ toClient' = Tail(toClient)
      /\ UNCHANGED <<owed, onPage>>
  BY DEF ClientReceives, ReceiveModify, ReceiveDelete, ReceiveMtime, ReceiveRename,
         ReceivePage, ReceiveNeedPush, ReceiveModifyAck, ReceiveEnd, Receive, Take,
         serverVars
<1>3. m.type # "NoteSyncEnd" => /\ ~Asking /\ ~Answering
                                /\ received + n = expected
  BY <1>2, LoopBusy DEF SessionInv
<1>4. CASE ReceiveModify \/ ReceiveDelete \/ ReceiveMtime
  <2>1. /\ m.type \in DetailTypes /\ m.type # "NoteSyncEnd" /\ pending' = pending
        /\ Settle(TRUE, received + 1, MarkPageMessage(page), <<>>)
    BY <1>4 DEF ReceiveModify, ReceiveDelete, ReceiveMtime, Receive, Take, DetailTypes
  <2>2. OnePlaceEach' /\ Cardinality(Outstanding') = n - 1
    BY <1>2, <2>1, DetailHandled, OutstandingNotes, CountNotes
  <2>3. received + 1 \in Nat /\ received + 1 + Cardinality(Outstanding') = expected
    BY <1>1, <1>3, <2>1, <2>2
  <2> QED
    BY <1>1, <1>2, <1>3, <2>1, <2>2, <2>3, SettleSession
<1>5. CASE ReceiveRename \/ ReceivePage
  <2>1. PICK pg : /\ m.type \notin DetailTypes /\ m.type # "NoteSyncEnd"
                  /\ pending' = pending /\ Settle(FALSE, received, pg, <<>>)
    BY <1>5 DEF ReceiveRename, ReceivePage, Receive, Take, DetailTypes
  <2>4. OnePlaceEach' /\ Outstanding' = Outstanding
    BY <1>2, <2>1, OtherIgnored
  <2> QED
    BY <1>1, <1>2, <1>3, <2>1, <2>4, SettleSession
<1>6. CASE ReceiveNeedPush
  <2> DEFINE p == m.path
             msgs == PushModifyMsgs(p, TRUE)
  <2>1. m.type \in DetailTypes /\ m.type # "NoteSyncEnd" /\ p \in Paths
    BY <1>2, <1>6, HeadType DEF ReceiveNeedPush, Receive, Take, DetailTypes, Details
  <2>2. msgs \in Seq(ClientMsgs) /\ \A i \in 1..Len(msgs) : msgs[i].type # "NoteSync"
    BY <2>1, PushType, NoRequestPushed
  <2>3. CASE disk[p] = Absent
    <3>1. pending' = pending /\ Settle(TRUE, received + 1, MarkPageMessage(page), msgs)
      BY <1>6, <2>3 DEF ReceiveNeedPush
    <3>2. OnePlaceEach' /\ Cardinality(Outstanding') = n - 1
      BY <1>2, <2>1, <3>1, DetailHandled, OutstandingNotes, CountNotes
    <3>3. received + 1 \in Nat /\ received + 1 + Cardinality(Outstanding') = expected
      BY <1>1, <1>3, <2>1, <3>2
    <3> HIDE DEF msgs
    <3> QED
      BY <1>2, <1>3, <2>1, <2>2, <3>1, <3>2, <3>3, SettleSession
  <2>4. CASE disk[p] # Absent
    <3>1. pending' = pending \cup {p} /\ Settle(FALSE, received, MarkPageMessage(page), msgs)
      BY <1>6, <2>4 DEF ReceiveNeedPush
    <3>2. OnePlaceEach' /\ Outstanding' = Outstanding
      BY <1>2, <2>1, <3>1, DetailPushed
    <3> HIDE DEF msgs
    <3> QED
      BY <1>1, <1>2, <1>3, <2>1, <2>2, <3>1, <3>2, SettleSession
  <2> QED
    BY <2>3, <2>4
<1>7. CASE ReceiveModifyAck
  <2>1. /\ m.type \notin DetailTypes /\ m.type # "NoteSyncEnd"
        /\ pending' = pending \ {m.path}
        /\ Settle(m.path \in pending,
                  IF m.path \in pending THEN received + 1 ELSE received, page, <<>>)
    BY <1>7 DEF ReceiveModifyAck, Receive, Take, DetailTypes
  <2>2. CASE m.path \in pending
    <3>1. Settle(TRUE, received + 1, page, <<>>)
      <4>1. (m.path \in pending) = TRUE
        BY <2>2
      <4> QED
        BY <2>1, <4>1
    <3>2. OnePlaceEach' /\ Cardinality(Outstanding') = n - 1
      <4>1. OnePlaceEach' /\ Outstanding' = Outstanding \ ({m.path} \cap pending)
        BY <1>2, <2>1, OtherHandled
      <4>2. Outstanding' = Outstanding \ {m.path} /\ m.path \in Outstanding
        BY <2>2, <4>1 DEF Outstanding
      <4> QED
        BY <4>1, <4>2, OutstandingNotes, CountNotes
    <3>3. received + 1 \in Nat /\ received + 1 + Cardinality(Outstanding') = expected
      BY <1>1, <1>3, <2>1, <3>2
    <3> QED
      BY <1>1, <1>2, <1>3, <2>1, <3>1, <3>2, <3>3, SettleSession
  <2>3. CASE m.path \notin pending
    <3>1. Settle(FALSE, received, page, <<>>)
      <4>1. (m.path \in pending) = FALSE
        BY <2>3
      <4> QED
        BY <2>1, <4>1
    <3>2. OnePlaceEach' /\ Outstanding' = Outstanding
      <4>1. OnePlaceEach' /\ Outstanding' = Outstanding \ ({m.path} \cap pending)
        BY <1>2, <2>1, OtherHandled
      <4> QED
        BY <2>3, <4>1
    <3> QED
      BY <1>1, <1>2, <1>3, <2>1, <3>1, <3>2, SettleSession
  <2> QED
    BY <2>2, <2>3
<1>8. CASE ReceiveEnd
  <2>1. /\ m.type = "NoteSyncEnd" /\ m.type \notin DetailTypes
        /\ pending' = pending /\ received' = received /\ expected' = m.count
        /\ gotEnd' = TRUE
    BY <1>8 DEF ReceiveEnd, Receive, Take, DetailTypes
  <2>2. Len(toClient) \in Nat \ {0} /\ m = toClient[1] /\ Len(toServer) \in Nat
    <3>1. toClient \in Seq(ServerMsgs) /\ toServer \in Seq(ClientMsgs)
      BY DEF TypeOK
    <3> QED
      BY <1>2, <3>1
  <2>3. Answering
    BY <2>1, <2>2 DEF Answering
  <2>4. /\ Len(toServer) = 0 /\ Len(toClient) = 1
        /\ received = 0 /\ pending = {} /\ ~complete /\ m.count = n
    <3>1. received = 0 /\ pending = {} /\ ~complete /\ toClient[1].count = n
      BY <2>3 DEF SessionInv
    <3>2. Len(toServer) + Len(toClient) = 1
      BY <2>3 DEF SessionInv
    <3>3. Len(toClient) \in Nat \ {0} /\ Len(toServer) \in Nat
      BY <2>2
    <3>4. \A a \in Nat, b \in Nat \ {0} : a + b = 1 => a = 0 /\ b = 1
      OBVIOUS
    <3>5. Len(toServer) = 0 /\ Len(toClient) = 1
      BY <3>2, <3>3, <3>4, ZenonT(30)
    <3> QED
      BY <2>2, <3>1, <3>5
  <2>5. toServer = <<>> /\ toClient' = <<>>
    <3>1. toClient \in Seq(ServerMsgs) /\ toServer \in Seq(ClientMsgs)
      BY DEF TypeOK
    <3> QED
      BY <1>2, <2>4, <3>1
  <2>7. OnePlaceEach' /\ Outstanding' = Outstanding
    BY <1>2, <2>1, OtherIgnored
  <2>8. ~Answering'
    BY <2>5 DEF Answering
  <2>9. ~Asking'
    BY <1>8, <2>5 DEF ReceiveEnd, Asking, PageAck
  <2>6. complete' => m.count = 0 \/ received >= m.count
    BY <1>8, <2>4 DEF ReceiveEnd
  <2>10. CASE complete'
    <3>1. phase' = "others"
      BY <1>8, <2>10 DEF ReceiveEnd, ReturnIfComplete
    <3>2. n = 0
      <4> HIDE DEF m, n
      <4> QED
        BY <1>1, <2>4, <2>6, <2>10
    <3>3. Outstanding' = {}
      BY <2>7, <3>2, OutstandingNotes, CountNotes
    <3> QED
      BY <2>7, <2>8, <2>9, <3>1, <3>3 DEF SessionInv, CompleteMeansHandled
  <2>11. CASE ~complete'
    <3>1. phase' = "syncing"
      BY <1>2, <1>8, <2>11 DEF ReceiveEnd, ReturnIfComplete
    <3>2. received' + Cardinality(Outstanding') = expected'
      BY <1>1, <2>1, <2>4, <2>7
    <3> QED
      BY <2>1, <2>7, <2>8, <2>9, <2>11, <3>1, <3>2 DEF SessionInv, CompleteMeansHandled
  <2> QED
    BY <1>8, <2>10, <2>11 DEF ReceiveEnd
<1> QED
  BY <1>4, <1>5, <1>6, <1>7, <1>8 DEF ClientReceives

\* A message leaves the channel after the session: nothing of it comes back.
LEMMA ChannelShrinks ==
    ASSUME TypeOK, SessionInv, phase \notin {"idle", "syncing"},
           toClient # <<>>, toClient' = Tail(toClient),
           phase' = phase,
           UNCHANGED <<toServer, owed, onPage, pending, complete>>
    PROVE  SessionInv'
<1>1. toClient \in Seq(ServerMsgs) /\ OnePlaceEach /\ ~Asking /\ ~Answering
  BY DEF TypeOK, SessionInv
<1>2. FlightPaths(toClient') \subseteq FlightPaths(toClient) /\ Distinct(toClient')
  <2>1. Distinct(toClient)
    BY <1>1 DEF OnePlaceEach
  <2> QED
    BY <1>1, <2>1, TailDetail, TailOther
<1>3. OnePlaceEach'
  BY <1>1, <1>2 DEF OnePlaceEach
<1>4. ~Asking'
  BY <1>1 DEF Asking
<1>5. ~Answering'
  <2>1. \A i \in 1..Len(toClient') : i + 1 \in 1..Len(toClient) /\ toClient'[i] = toClient[i + 1]
    BY <1>1, TailShift
  <2> QED
    BY <1>1, <2>1 DEF Answering
<1>6. CompleteMeansHandled'
  BY <1>2 DEF SessionInv, CompleteMeansHandled, Outstanding
<1> QED
  BY <1>3, <1>4, <1>5, <1>6 DEF SessionInv

\* The connection is gone, and with it everything that was outstanding.
LEMMA ConnectionLostSession ==
    ASSUME ConnectionLost, phase' = "idle"
    PROVE  SessionInv'
<1>1. ~Asking' /\ ~Answering' /\ Flight(toClient') = {}
  BY DEF ConnectionLost, Asking, Answering, Flight
<1>2. OnePlaceEach'
  BY <1>1 DEF ConnectionLost, OnePlaceEach, DetailPaths, FlightPaths, Distinct
<1> QED
  BY <1>1, <1>2 DEF ConnectionLost, SessionInv, CompleteMeansHandled

\* The steps of the client outside the session's loop preserve it too: those that
\* start, fail or cut off a session, and those after it.
LEMMA OutsideSession ==
    ASSUME TypeOK, TypeOK', SessionInv,
           \/ SyncIncremental \/ ReceiveNeedPushOfVanishing \/ HandlerFails
           \/ IgnoreNoteMessage \/ CommitState \/ LiveReceive \/ LiveHandlerFails
           \/ Disconnect \/ Restart
    PROVE  SessionInv'
<1>1. CASE SyncIncremental
  <2>1. toClient = <<>> /\ owed = {} /\ onPage = {}
    BY <1>1 DEF SyncIncremental, SessionInv
  <2>2. toClient' = <<>> /\ owed' = {} /\ onPage' = {}
    BY <1>1, <2>1 DEF SyncIncremental, serverVars
  <2>3. Len(toServer') = 1 /\ Len(toClient') = 0
    BY <1>1, <2>2 DEF SyncIncremental
  <2>4. /\ phase' = "syncing" /\ received' = 0 /\ pending' = {}
        /\ ~gotEnd' /\ ~complete' /\ ~page'.active
    BY <1>1 DEF SyncIncremental, ResetCounters, NoPage
  <2>5. Flight(toClient') = {} /\ ~Answering'
    BY <2>2 DEF Flight, Answering
  <2>6. Asking'
    BY <1>1, <2>3 DEF SyncIncremental, Asking
  <2>7. OnePlaceEach'
    BY <2>2, <2>4, <2>5 DEF OnePlaceEach, DetailPaths, FlightPaths, Distinct
  <2>8. Len(toServer') + Len(toClient') = 1
    BY <2>3
  <2> QED
    BY <2>2, <2>4, <2>5, <2>6, <2>7, <2>8 DEF SessionInv, CompleteMeansHandled
<1>2. CASE ReceiveNeedPushOfVanishing
  <2> DEFINE m == Head(toClient)
  <2>1. /\ phase = "syncing" /\ toClient # <<>> /\ toClient' = Tail(toClient)
        /\ m.type \in DetailTypes /\ m.type # "NoteSyncEnd"
        /\ pending' = pending \cup {m.path} /\ UNCHANGED <<owed, onPage>>
        /\ Settle(FALSE, received, MarkPageMessage(page), <<>>)
    BY <1>2 DEF ReceiveNeedPushOfVanishing, Take, DetailTypes
  <2>2. OnePlaceEach' /\ Outstanding' = Outstanding
    BY <2>1, DetailPushed
  <2>3. ~Asking /\ ~Answering
    BY <2>1, LoopBusy
  <2>4. received + Cardinality(Outstanding') = expected
    BY <2>1, <2>2, <2>3 DEF SessionInv
  <2>5. <<>> \in Seq(ClientMsgs) /\ \A i \in 1..Len(<<>>) : <<>>[i].type # "NoteSync"
    OBVIOUS
  <2>6. received \in Nat
    BY DEF TypeOK
  <2> QED
    BY <2>1, <2>2, <2>3, <2>4, <2>5, <2>6, SettleSession
<1>3. CASE HandlerFails
  <2> DEFINE m == Head(toClient)
  <2>1. /\ phase = "syncing" /\ toClient # <<>> /\ toClient' = Tail(toClient)
        /\ m.type # "NoteSyncEnd" /\ phase' = "others"
        /\ UNCHANGED <<toServer, owed, onPage, pending, complete>>
    BY <1>3 DEF HandlerFails, WriteTypes, Receive, Take, serverVars, sessionVars
  <2>2. ~Asking /\ ~Answering /\ ~complete
    BY <2>1, LoopBusy DEF SessionInv
  <2>3. toClient \in Seq(ServerMsgs) /\ OnePlaceEach
    BY DEF TypeOK, SessionInv
  <2>4. FlightPaths(toClient') \subseteq FlightPaths(toClient) /\ Distinct(toClient')
    <3>1. Distinct(toClient)
      BY <2>3 DEF OnePlaceEach
    <3> QED
      BY <2>1, <2>3, <3>1, TailDetail, TailOther
  <2>5. OnePlaceEach'
    BY <2>1, <2>3, <2>4 DEF OnePlaceEach
  <2>6. ~Asking'
    BY <2>1, <2>2 DEF Asking
  <2>7. ~Answering'
    <3>1. \A i \in 1..Len(toClient') : i + 1 \in 1..Len(toClient) /\ toClient'[i] = toClient[i + 1]
      BY <2>1, <2>3, TailShift
    <3> QED
      BY <2>2, <3>1 DEF Answering
  <2> QED
    BY <2>1, <2>2, <2>5, <2>6, <2>7 DEF SessionInv, CompleteMeansHandled
<1>4. CASE IgnoreNoteMessage \/ LiveReceive \/ LiveHandlerFails
  <2>1. /\ phase \notin {"idle", "syncing"} /\ toClient # <<>> /\ toClient' = Tail(toClient)
        /\ phase' = phase /\ UNCHANGED <<toServer, owed, onPage, pending, complete>>
    BY <1>4 DEF IgnoreNoteMessage, LiveReceive, LiveHandlerFails, serverVars, sessionVars
  <2> QED
    BY <2>1, ChannelShrinks
<1>5. CASE CommitState
  <2>1. /\ phase = "others" /\ phase' = "live"
        /\ UNCHANGED <<toServer, toClient, owed, onPage, pending, complete>>
    BY <1>5 DEF CommitState, serverVars, sessionVars
  <2>2. ~Asking /\ ~Answering /\ OnePlaceEach
    BY <2>1 DEF SessionInv
  <2>3. ~Asking' /\ ~Answering' /\ OnePlaceEach'
    BY <2>1, <2>2 DEF Asking, Answering, OnePlaceEach
  <2> QED
    BY <2>1, <2>3 DEF SessionInv, CompleteMeansHandled
<1>6. CASE Disconnect \/ Restart
  BY <1>6, ConnectionLostSession DEF Disconnect, Restart
<1> QED
  BY <1>1, <1>2, <1>3, <1>4, <1>5, <1>6

\* A step of the server that moves a note from one place to the next.
LEMMA NotesMoved ==
    ASSUME SessionInv, phase # "idle", ~Asking, ~Answering, ~Asking', ~Answering',
           OnePlaceEach', Outstanding' = Outstanding,
           UNCHANGED <<phase, sessionVars>>
    PROVE  SessionInv'
  BY DEF SessionInv, CompleteMeansHandled, sessionVars

\* The server takes a message that is not the request: there is none, and
\* NoteSyncEnd is not on its way.
LEMMA ServerBusy ==
    ASSUME TypeOK, SessionInv, NEW type, FromClient(type), type # "NoteSync"
    PROVE  /\ phase # "idle" /\ ~Asking /\ ~Answering /\ ~Asking'
           /\ UNCHANGED <<phase, sessionVars>>
<1>1. toServer # <<>> /\ Head(toServer).type = type /\ toServer' = Tail(toServer)
  BY DEF FromClient
<1>2. toServer \in Seq(ClientMsgs) /\ toClient \in Seq(ServerMsgs)
  BY DEF TypeOK
<1>3. /\ Len(toServer) \in Nat \ {0} /\ Head(toServer) = toServer[1]
      /\ Len(toClient) \in Nat
  BY <1>1, <1>2
<1>4. ~Asking
  BY <1>1, <1>3 DEF Asking, SessionInv
<1>5. ~Answering
  BY <1>3 DEF Answering, SessionInv
<1>6. ~Asking'
  <2>1. \A i \in 1..Len(toServer') : i + 1 \in 1..Len(toServer) /\ toServer'[i] = toServer[i + 1]
    BY <1>1, <1>2, TailShift
  <2> QED
    BY <1>4, <2>1 DEF Asking
<1> QED
  BY <1>1, <1>4, <1>5, <1>6 DEF FromClient, SessionInv

\* A message other than NoteSyncEnd leaves the client without its answer.
LEMMA StillNoAnswer ==
    ASSUME TypeOK, ~Answering, NEW m \in ServerMsgs, m.type # "NoteSyncEnd",
           toClient' = Append(toClient, m)
    PROVE  ~Answering'
<1>1. /\ Len(toClient') = Len(toClient) + 1 /\ toClient'[Len(toClient) + 1] = m
      /\ \A i \in 1..Len(toClient) : toClient'[i] = toClient[i]
      /\ Len(toClient) \in Nat
  BY DEF TypeOK
<1> QED
  BY <1>1 DEF Answering

\* The other steps of a server that broadcasts nothing move a note from one
\* place to the next, or nothing.
LEMMA ServerMoves ==
    ASSUME MaxBroadcasts = 0, TypeOK, TypeOK', SessionInv,
           ServerStartsPage \/ ServerSendsDetail \/ ServerAcceptsModify
    PROVE  /\ phase # "idle" /\ ~Asking /\ ~Answering /\ ~Asking' /\ ~Answering'
           /\ OnePlaceEach' /\ Outstanding' = Outstanding
           /\ UNCHANGED <<phase, sessionVars>>
<1>0. toServer \in Seq(ClientMsgs) /\ toClient \in Seq(ServerMsgs) /\ OnePlaceEach
  BY DEF TypeOK, SessionInv
<1>1. CASE ServerStartsPage
  <2>1. FromClient("NoteSyncPageAck") /\ onPage = {}
    BY <1>1 DEF ServerStartsPage
  <2>2. /\ phase # "idle" /\ ~Asking /\ ~Answering /\ ~Asking'
        /\ UNCHANGED <<phase, sessionVars>>
    BY <2>1, ServerBusy
  <2>3. CASE Head(toServer).index = pageNo /\ owed # {}
    <3>1. PICK batch \in SUBSET owed :
             /\ onPage' = batch /\ owed' = owed \ batch
             /\ toClient' = Append(toClient, [type |-> "NoteSyncPage",
                    index |-> pageNo + 1, total |-> Size(batch), last |-> batch = owed])
      BY <1>1, <2>3 DEF ServerStartsPage
    <3> DEFINE m == [type |-> "NoteSyncPage", index |-> pageNo + 1,
                     total |-> Size(batch), last |-> batch = owed]
    <3>2. m \in ServerMsgs
      <4>1. batch \subseteq Details /\ pageNo + 1 \in Nat
        <5>1. owed \subseteq Details /\ pageNo \in Nat \cup {-1}
          BY DEF TypeOK
        <5>2. pageNo + 1 \in Nat
          BY <5>1
        <5> QED
          BY <5>1, <5>2
      <4>2. Size(batch) \in Nat
        BY <4>1, SizeType
      <4> QED
        BY <4>1, <4>2, MessageTypes
    <3>3. m.type \notin DetailTypes /\ m.type # "NoteSyncEnd"
      BY DEF DetailTypes
    <3> HIDE DEF m
    <3>4. toClient' = Append(toClient, m)
      BY <3>1 DEF m
    <3>5. FlightPaths(toClient') = FlightPaths(toClient) /\ Distinct(toClient')
      BY <1>0, <3>2, <3>3, <3>4, AppendOther DEF OnePlaceEach
    <3>6. /\ owed' \cup onPage' = owed \cup onPage /\ owed' \cap onPage' = {}
          /\ DetailPaths(owed') \cup DetailPaths(onPage')
                = DetailPaths(owed) \cup DetailPaths(onPage)
      BY <2>1, <3>1 DEF DetailPaths
    <3>7. pending' = pending
      BY <2>2 DEF sessionVars
    <3>8. OnePlaceEach'
      BY <1>0, <3>5, <3>6, <3>7 DEF OnePlaceEach
    <3>9. Outstanding' = Outstanding
      BY <3>5, <3>6, <3>7 DEF Outstanding
    <3>10. ~Answering'
      BY <2>2, <3>2, <3>3, <3>4, StillNoAnswer
    <3> QED
      BY <2>2, <3>8, <3>9, <3>10
  <2>4. CASE ~(Head(toServer).index = pageNo /\ owed # {})
    <3>1. UNCHANGED <<owed, onPage, toClient, pending>>
      BY <1>1, <2>2, <2>4 DEF ServerStartsPage, sessionVars
    <3>2. OnePlaceEach' /\ Outstanding' = Outstanding /\ ~Answering'
      BY <1>0, <2>2, <3>1 DEF OnePlaceEach, Outstanding, Answering
    <3> QED
      BY <2>2, <3>2
  <2> QED
    BY <2>3, <2>4
<1>2. CASE ServerSendsDetail
  <2>1. PICK d \in onPage : /\ onPage' = onPage \ {d} /\ toClient' = Append(toClient, d)
                            /\ UNCHANGED <<phase, sessionVars, toServer, owed>>
    BY <1>2 DEF ServerSendsDetail
  <2>2. phase # "idle" /\ ~Asking /\ ~Answering
    BY <2>1 DEF SessionInv
  <2>3. d \in Details
    BY DEF TypeOK
  <2>4. d \in ServerMsgs /\ d.type \in DetailTypes /\ d.type # "NoteSyncEnd"
    BY <2>3, MessageTypes DEF Details, DetailTypes
  <2>5. ~Asking' /\ ~Answering'
    BY <2>1, <2>2, <2>4, StillNoAnswer DEF Asking
  <2>6. d.path \notin FlightPaths(toClient) /\ d.path \notin pending
    BY <1>0 DEF OnePlaceEach, DetailPaths
  <2>7. /\ FlightPaths(toClient') = FlightPaths(toClient) \cup {d.path}
        /\ Distinct(toClient')
    BY <1>0, <2>1, <2>4, <2>6, AppendDetail DEF OnePlaceEach
  <2>8. /\ pending' = pending /\ owed' = owed
        /\ DetailPaths(onPage) = DetailPaths(onPage') \cup {d.path}
    BY <2>1 DEF DetailPaths, sessionVars
  <2>9. d.path \notin DetailPaths(owed' \cup onPage')
    BY <1>0, <2>1 DEF OnePlaceEach, DetailPaths
  <2>10. OnePlaceEach'
    <3>1. \A e, f \in owed' \cup onPage' : e.path = f.path => e = f
      BY <1>0, <2>1 DEF OnePlaceEach
    <3>2. owed' \cap onPage' = {}
      BY <1>0, <2>1 DEF OnePlaceEach
    <3>3. DetailPaths(owed' \cup onPage') \subseteq DetailPaths(owed \cup onPage)
      BY <2>1 DEF DetailPaths
    <3>4. DetailPaths(owed' \cup onPage') \cap (FlightPaths(toClient') \cup pending') = {}
      BY <1>0, <2>7, <2>8, <2>9, <3>3 DEF OnePlaceEach
    <3>5. FlightPaths(toClient') \cap pending' = {}
      BY <1>0, <2>6, <2>7, <2>8 DEF OnePlaceEach
    <3> QED
      BY <2>7, <3>1, <3>2, <3>4, <3>5 DEF OnePlaceEach
  <2>11. Outstanding' = Outstanding
    BY <2>7, <2>8 DEF Outstanding
  <2> QED
    BY <2>1, <2>2, <2>5, <2>10, <2>11
<1>3. CASE ServerAcceptsModify
  <2> DEFINE m == [type |-> "NoteModifyAck", path |-> Head(toServer).path]
  <2>1. /\ FromClient("NoteModify") /\ UNCHANGED <<owed, onPage>>
        /\ \/ toClient' = Append(toClient, m)
           \/ broadcasts < MaxBroadcasts
    BY <1>3 DEF ServerAcceptsModify, Broadcast
  <2>2. ~(broadcasts < MaxBroadcasts)
    <3>1. broadcasts \in Nat
      BY DEF TypeOK
    <3> QED
      BY <3>1
  <2>3. /\ phase # "idle" /\ ~Asking /\ ~Answering /\ ~Asking'
        /\ UNCHANGED <<phase, sessionVars>>
    BY <2>1, ServerBusy
  <2>4. Head(toServer).path \in Paths
    <3>1. Head(toServer) \in ClientMsgs /\ Head(toServer).type = "NoteModify"
      BY <1>0, <2>1 DEF FromClient
    <3> QED
      BY <3>1 DEF ClientMsgs
  <2>5. m \in ServerMsgs /\ m.type \notin DetailTypes /\ m.type # "NoteSyncEnd"
    BY <2>4, MessageTypes DEF DetailTypes
  <2>6. toClient' = Append(toClient, m)
    BY <2>1, <2>2
  <2> HIDE DEF m
  <2>7. FlightPaths(toClient') = FlightPaths(toClient) /\ Distinct(toClient')
    BY <1>0, <2>5, <2>6, AppendOther DEF OnePlaceEach
  <2>8. pending' = pending
    BY <2>3 DEF sessionVars
  <2>9. OnePlaceEach' /\ Outstanding' = Outstanding
    BY <1>0, <2>1, <2>7, <2>8 DEF OnePlaceEach, Outstanding
  <2>10. ~Answering'
    BY <2>3, <2>5, <2>6, StillNoAnswer
  <2> QED
    BY <2>3, <2>9, <2>10
<1> QED
  BY <1>1, <1>2, <1>3

\* Every step of a server that broadcasts nothing preserves it.
LEMMA ServerSession ==
    ASSUME MaxBroadcasts = 0, TypeOK, TypeOK', SessionInv, ServerSteps
    PROVE  SessionInv'
<1>0. toServer \in Seq(ClientMsgs) /\ toClient \in Seq(ServerMsgs) /\ OnePlaceEach
  BY DEF TypeOK, SessionInv
<1>1. CASE ServerAnswersSync
  <2>1. /\ toServer # <<>> /\ Head(toServer).type = "NoteSync"
        /\ toServer' = Tail(toServer) /\ UNCHANGED <<phase, sessionVars, onPage>>
    BY <1>1 DEF ServerAnswersSync, FromClient
  <2>2. PICK verdict \in [Paths -> DetailTypes \cup {"InSync"}] :
           LET stale == { p \in Paths : verdict[p] # "InSync" }
           IN /\ owed' = { Detail(verdict[p], p) : p \in stale }
              /\ toClient' = Append(toClient, [type |-> "NoteSyncEnd",
                                               count |-> Cardinality(stale),
                                               last |-> clock])
    BY <1>1 DEF ServerAnswersSync
  <2> DEFINE stale == { p \in Paths : verdict[p] # "InSync" }
             end == [type |-> "NoteSyncEnd", count |-> Cardinality(stale), last |-> clock]
  <2>3. Len(toServer) \in Nat \ {0} /\ Head(toServer) = toServer[1] /\ Len(toClient) \in Nat
    BY <1>0, <2>1
  <2>4. Asking
    BY <2>1, <2>3 DEF Asking
  <2>5. /\ phase = "syncing" /\ received = 0 /\ pending = {} /\ onPage = {}
        /\ ~gotEnd /\ ~complete /\ ~page.active
    BY <2>4 DEF SessionInv
  <2>6. Len(toServer) + Len(toClient) = 1
    BY <2>4 DEF SessionInv
  <2>7. \A a \in Nat \ {0}, b \in Nat : a + b = 1 => a = 1 /\ b = 0
    OBVIOUS
  <2>8. Len(toServer) = 1 /\ Len(toClient) = 0
    BY <2>3, <2>6, <2>7, ZenonT(30)
  <2>9. toServer' = <<>> /\ toClient = <<>>
    BY <1>0, <2>1, <2>8
  <2>10. toClient' = <<end>>
    BY <2>2, <2>9
  <2> HIDE DEF end
  <2>11. /\ Len(toClient') = 1 /\ toClient'[1] = end /\ Len(toServer') = 0
    BY <2>9, <2>10
  <2>12. end.type = "NoteSyncEnd" /\ end.count = Cardinality(stale)
    BY DEF end
  <2>13. Answering' /\ ~Asking' /\ Flight(toClient') = {}
    BY <2>11, <2>12 DEF Answering, Asking, Flight, DetailTypes
  <2>14. DetailPaths(owed') = stale
    <3>1. owed' = { Detail(verdict[p], p) : p \in stale }
      BY <2>2
    <3>2. \A p \in stale : Detail(verdict[p], p).path = p
      BY DEF Detail
    <3> HIDE DEF stale
    <3> QED
      BY <3>1, <3>2 DEF DetailPaths
  <2>15. Outstanding' = stale
    BY <2>1, <2>5, <2>13, <2>14 DEF Outstanding, DetailPaths, FlightPaths, sessionVars
  <2>16. OnePlaceEach'
    <3>1. onPage' = {} /\ pending' = {}
      BY <2>1, <2>5 DEF sessionVars
    <3>2. \A d, e \in owed' : d.path = e.path => d = e
      BY <2>2 DEF Detail
    <3> QED
      BY <2>13, <3>1, <3>2 DEF OnePlaceEach, DetailPaths, FlightPaths, Distinct
  <2>17. Len(toServer') + Len(toClient') = 1
    BY <2>11
  <2>18. toClient'[1].count = Cardinality(Outstanding')
    BY <2>11, <2>12, <2>15
  <2>19. /\ phase' = "syncing" /\ received' = 0 /\ pending' = {} /\ onPage' = {}
         /\ ~gotEnd' /\ ~complete' /\ ~page'.active
    BY <2>1, <2>5 DEF sessionVars
  <2> QED
    BY <2>13, <2>16, <2>17, <2>18, <2>19 DEF SessionInv, CompleteMeansHandled
<1>2. CASE ServerStartsPage \/ ServerSendsDetail \/ ServerAcceptsModify
  BY <1>2, ServerMoves, NotesMoved
<1> QED
  BY <1>1, <1>2 DEF ServerSteps

\* Without broadcasts the user and the other devices leave the session alone.
LEMMA ChangesSession ==
    ASSUME MaxBroadcasts = 0, TypeOK, SessionInv, Changes
    PROVE  SessionInv'
<1>1. ~(broadcasts < MaxBroadcasts)
  <2>1. broadcasts \in Nat
    BY DEF TypeOK
  <2> QED
    BY <2>1
<1>2. UNCHANGED <<phase, toServer, toClient, owed, onPage, pending, received,
                  expected, gotEnd, complete, page>>
  BY <1>1 DEF Changes, UserChanges, RemoteChanges, RemoteRenames, Broadcast, sessionVars
<1> QED
  BY <1>2, SessionFrame

\* It holds initially.
LEMMA SessionInit == Init => SessionInv
<1> SUFFICES ASSUME Init PROVE SessionInv
  OBVIOUS
<1>1. ~Asking /\ ~Answering /\ Flight(toClient) = {}
  BY DEF Init, Asking, Answering, Flight
<1> QED
  BY <1>1 DEF Init, SessionInv, OnePlaceEach, CompleteMeansHandled, DetailPaths,
              FlightPaths, Distinct

\* The inductive invariant: each note is in one place, the request and
\* NoteSyncEnd travel alone, and the counters differ by what is outstanding.
THEOREM SessionInvariant ==
    ASSUME MaxBroadcasts = 0
    PROVE  Spec => []SessionInv
<1>1. TypeOK /\ TypeOK' /\ SessionInv /\ [Next]_vars => SessionInv'
  <2> SUFFICES ASSUME TypeOK, TypeOK', SessionInv, [Next]_vars PROVE SessionInv'
    OBVIOUS
  <2>1. CASE UNCHANGED vars
    BY <2>1, SessionFrame DEF vars, sessionVars, serverVars
  <2> QED
    BY <2>1, ClientSession, OutsideSession, ServerSession, ChangesSession DEF Next
<1> QED
  BY <1>1, SessionInit, TypeCorrect, PTL DEF Spec

\* A session that returns Ok has received every detail the server owed and the
\* acknowledgement of every push it made, however the server cuts its pages and
\* whatever interrupts the sessions (process_sync_responses,
\* check_all_received, finish_page_if_needed, handle_note_need_push).
THEOREM CompletionCorrect ==
    ASSUME MaxBroadcasts = 0
    PROVE  Spec => []CompleteMeansHandled
<1>1. SessionInv => CompleteMeansHandled
  BY DEF SessionInv
<1> QED
  BY <1>1, SessionInvariant, PTL
---------------------------------------------------------------------------
(* Pages.                                                                  *)

Acks(channel) == { i \in 1..Len(channel) : channel[i].type = "NoteSyncPageAck" }
Pages(channel) == { i \in 1..Len(channel) : channel[i].type = "NoteSyncPage" }

\* The notes of the current page whose detail the client has not handled.
ToCome == DetailPaths(onPage) \cup FlightPaths(toClient)

\* A page is announced before its details, and no page is behind another.
PagesFirst(channel) ==
    /\ \A i \in 1..Len(channel) : channel[i].type # "NoteSyncRename"
    /\ \A i \in Pages(channel), j \in 1..Len(channel) :
          channel[j].type \in DetailTypes \cup {"NoteSyncPage"} => i <= j

\* Why AckedPageHandled holds.  An acknowledgement, a page on its way and an
\* active page exclude each other, and the counters of the page differ by the
\* number of its notes that are still to come.
PageInv ==
    /\ \A i, j \in Acks(toServer) : i = j
    /\ PagesFirst(toClient)
    /\ Acks(toServer) # {} => ToCome = {} /\ Pages(toClient) = {}
    /\ phase = "syncing" =>
         /\ page.active => /\ Acks(toServer) = {} /\ Pages(toClient) = {}
                           /\ page.received + Cardinality(ToCome) = page.total
         /\ \A i \in Pages(toClient) : toClient[i].total = Cardinality(ToCome)
         /\ ~page.active /\ Pages(toClient) = {} => ToCome = {}

\* The notes to come are notes, and counted.
LEMMA ToComeNotes ==
    TypeOK => /\ ToCome \subseteq Paths /\ Cardinality(ToCome) \in Nat
              /\ Cardinality(ToCome) = 0 <=> ToCome = {}
  BY OutstandingNotes, CountNotes DEF ToCome, Outstanding

LEMMA ToComeNotesNext ==
    TypeOK' => /\ ToCome' \subseteq Paths /\ Cardinality(ToCome') \in Nat
               /\ Cardinality(ToCome') = 0 <=> ToCome' = {}
<1>1. (TypeOK => /\ ToCome \subseteq Paths /\ Cardinality(ToCome) \in Nat
                 /\ Cardinality(ToCome) = 0 <=> ToCome = {})'
  BY ToComeNotes, PTL
<1> QED
  BY <1>1

\* Messages without an acknowledgement sent after others add none.
LEMMA AcksConcat ==
    ASSUME NEW S, NEW s \in Seq(S), NEW t \in Seq(S), Acks(t) = {}
    PROVE  Acks(s \o t) = Acks(s)
<1>1. /\ Len(s \o t) = Len(s) + Len(t) /\ Len(s) \in Nat /\ Len(t) \in Nat
      /\ \A i \in 1..Len(s) : (s \o t)[i] = s[i]
      /\ \A i \in (Len(s) + 1)..(Len(s) + Len(t)) : (s \o t)[i] = t[i - Len(s)]
  OBVIOUS
<1>2. Acks(s) \subseteq Acks(s \o t)
  BY <1>1 DEF Acks
<1>3. ASSUME NEW i \in Acks(s \o t) PROVE i \in Acks(s)
  <2>1. i \in 1..(Len(s) + Len(t)) /\ (s \o t)[i].type = "NoteSyncPageAck"
    BY <1>1 DEF Acks
  <2>2. CASE i <= Len(s)
    BY <1>1, <2>1, <2>2 DEF Acks
  <2>3. CASE ~(i <= Len(s))
    <3>1. i - Len(s) \in 1..Len(t) /\ (s \o t)[i] = t[i - Len(s)]
      BY <1>1, <2>1, <2>3
    <3> QED
      BY <2>1, <3>1 DEF Acks
  <2> QED
    BY <2>2, <2>3
<1> QED
  BY <1>2, <1>3

\* An acknowledgement sent where there is none is the only one.
LEMMA AckAppended ==
    ASSUME NEW S, NEW s \in Seq(S), NEW a \in S, Acks(s) = {}
    PROVE  \A i, j \in Acks(Append(s, a)) : i = j
<1>1. /\ Len(Append(s, a)) = Len(s) + 1 /\ Len(s) \in Nat
      /\ \A i \in 1..Len(s) : Append(s, a)[i] = s[i]
  OBVIOUS
<1>2. \A i \in Acks(Append(s, a)) : i = Len(s) + 1
  BY <1>1 DEF Acks
<1> QED
  BY <1>2

\* Taking a message off the server's channel leaves one acknowledgement at
\* most, and none if it was the one.
LEMMA AcksTail ==
    ASSUME NEW S, NEW s \in Seq(S), s # <<>>, \A i, j \in Acks(s) : i = j
    PROVE  /\ \A i, j \in Acks(Tail(s)) : i = j
           /\ Acks(Tail(s)) # {} => Acks(s) # {}
           /\ Head(s).type = "NoteSyncPageAck" => Acks(Tail(s)) = {} /\ Acks(s) # {}
<1> DEFINE t == Tail(s)
<1>1. /\ Head(s) = s[1] /\ Len(s) \in Nat \ {0} /\ Len(t) = Len(s) - 1
      /\ \A i \in 1..Len(t) : t[i] = s[i + 1]
  BY TailShift
<1> HIDE DEF t
<1>2. \A i \in Acks(t) : i \in Nat \ {0} /\ i + 1 \in Acks(s)
  BY <1>1 DEF Acks
<1>3. Head(s).type = "NoteSyncPageAck" => 1 \in Acks(s)
  BY <1>1 DEF Acks
<1>4. ASSUME NEW i \in Acks(t), NEW j \in Acks(t) PROVE i = j
  <2>1. i + 1 = j + 1 /\ i \in Nat /\ j \in Nat
    BY <1>2
  <2> QED
    BY <2>1
<1>5. ASSUME Head(s).type = "NoteSyncPageAck", NEW i \in Acks(t) PROVE FALSE
  <2>1. i + 1 = 1 /\ i \in Nat \ {0}
    BY <1>2, <1>3, <1>5
  <2> QED
    BY <2>1
<1> QED
  BY <1>2, <1>3, <1>4, <1>5 DEF t

\* Taking a message off the client's channel keeps the pages first; once a page
\* or a detail is taken no page is left.
LEMMA PagesTail ==
    ASSUME NEW S, NEW s \in Seq(S), s # <<>>, PagesFirst(s)
    PROVE  /\ PagesFirst(Tail(s))
           /\ Pages(s) = {} => Pages(Tail(s)) = {}
           /\ \A i \in Pages(Tail(s)) : i + 1 \in Pages(s) /\ Tail(s)[i] = s[i + 1]
           /\ Head(s).type \in DetailTypes \cup {"NoteSyncPage"} => Pages(Tail(s)) = {}
           /\ Head(s).type \in DetailTypes => Pages(s) = {}
           /\ Head(s).type = "NoteSyncPage" => 1 \in Pages(s)
           /\ Head(s).type # "NoteSyncPage" /\ Pages(Tail(s)) = {} => Pages(s) = {}
<1> DEFINE t == Tail(s)
<1>1. /\ Head(s) = s[1] /\ Len(s) \in Nat \ {0} /\ Len(t) = Len(s) - 1
      /\ \A i \in 1..Len(t) : t[i] = s[i + 1]
  BY TailShift
<1> HIDE DEF t
<1>2. \A i \in 1..Len(t) : i \in Nat \ {0} /\ i + 1 \in 1..Len(s) /\ t[i] = s[i + 1]
  BY <1>1
<1>3. \A i \in Pages(t) : i + 1 \in Pages(s) /\ t[i] = s[i + 1] /\ i \in Nat \ {0}
  BY <1>2 DEF Pages
<1>4. \A i \in Pages(s) \ {1} : i - 1 \in Pages(t)
  <2> TAKE i \in Pages(s) \ {1}
  <2>1. i - 1 \in 1..Len(t) /\ (i - 1) + 1 = i
    BY <1>1 DEF Pages
  <2> QED
    BY <1>1, <2>1 DEF Pages
<1>5. PagesFirst(t)
  <2>1. \A i \in 1..Len(t) : t[i].type # "NoteSyncRename"
    BY <1>2 DEF PagesFirst
  <2>2. ASSUME NEW i \in Pages(t), NEW j \in 1..Len(t),
               t[j].type \in DetailTypes \cup {"NoteSyncPage"}
        PROVE  i <= j
    <3>1. /\ i + 1 \in Pages(s) /\ j + 1 \in 1..Len(s)
          /\ s[j + 1].type \in DetailTypes \cup {"NoteSyncPage"}
      BY <1>2, <1>3, <2>2
    <3>2. i + 1 <= j + 1
      BY <3>1 DEF PagesFirst
    <3> QED
      BY <1>2, <1>3, <3>2
  <2> QED
    BY <2>1, <2>2 DEF PagesFirst
<1>6. Head(s).type \in DetailTypes \cup {"NoteSyncPage"} => \A i \in Pages(s) : i = 1
  <2> SUFFICES ASSUME Head(s).type \in DetailTypes \cup {"NoteSyncPage"}, NEW i \in Pages(s)
               PROVE  i = 1
    OBVIOUS
  <2>1. i <= 1
    BY <1>1 DEF PagesFirst
  <2> QED
    BY <2>1 DEF Pages
<1>7. ASSUME Head(s).type \in DetailTypes \cup {"NoteSyncPage"}, NEW i \in Pages(t)
      PROVE  FALSE
  <2>1. i + 1 = 1 /\ i \in Nat \ {0}
    BY <1>3, <1>6, <1>7
  <2> QED
    BY <2>1
<1>8. Head(s).type \in DetailTypes => Pages(s) = {}
  BY <1>1, <1>6 DEF Pages, DetailTypes
<1>9. Head(s).type = "NoteSyncPage" => 1 \in Pages(s)
  BY <1>1 DEF Pages
<1>10. Head(s).type # "NoteSyncPage" => 1 \notin Pages(s)
  BY <1>1 DEF Pages
<1> QED
  BY <1>3, <1>4, <1>5, <1>7, <1>8, <1>9, <1>10 DEF t

\* Any other message sent keeps the pages first.
LEMMA OtherSent ==
    ASSUME NEW S, NEW s \in Seq(S), NEW m \in S, PagesFirst(s),
           m.type # "NoteSyncPage", m.type # "NoteSyncRename"
    PROVE  /\ PagesFirst(Append(s, m)) /\ Pages(Append(s, m)) = Pages(s)
           /\ \A i \in Pages(s) : Append(s, m)[i] = s[i]
<1> DEFINE t == Append(s, m)
<1>1. /\ Len(t) = Len(s) + 1 /\ t[Len(s) + 1] = m /\ Len(s) \in Nat
      /\ \A i \in 1..Len(s) : t[i] = s[i]
  OBVIOUS
<1> HIDE DEF t
<1>2. Pages(t) = Pages(s) /\ \A i \in Pages(s) : t[i] = s[i]
  BY <1>1 DEF Pages
<1>3. ASSUME NEW i \in Pages(t), NEW j \in 1..Len(t),
             t[j].type \in DetailTypes \cup {"NoteSyncPage"}
      PROVE  i <= j
  <2>1. i \in Pages(s) /\ i \in 1..Len(s)
    BY <1>2 DEF Pages
  <2>2. CASE j \in 1..Len(s)
    BY <1>1, <1>3, <2>1, <2>2 DEF PagesFirst
  <2>3. CASE j = Len(s) + 1
    BY <1>1, <2>1, <2>3
  <2> QED
    BY <1>1, <2>2, <2>3
<1>4. \A i \in 1..Len(t) : t[i].type # "NoteSyncRename"
  BY <1>1 DEF PagesFirst
<1>5. PagesFirst(t)
  BY <1>3, <1>4 DEF PagesFirst
<1> QED
  BY <1>2, <1>5 DEF t

\* So does a page, when no other page and no detail is on its way.
LEMMA PageSent ==
    ASSUME NEW S, NEW s \in Seq(S), NEW m \in S, PagesFirst(s),
           m.type = "NoteSyncPage", Pages(s) = {}, Flight(s) = {}
    PROVE  /\ PagesFirst(Append(s, m)) /\ Pages(Append(s, m)) # {}
           /\ \A i \in Pages(Append(s, m)) : Append(s, m)[i] = m
<1> DEFINE t == Append(s, m)
<1>1. /\ Len(t) = Len(s) + 1 /\ t[Len(s) + 1] = m /\ Len(s) \in Nat
      /\ \A i \in 1..Len(s) : t[i] = s[i]
  OBVIOUS
<1> HIDE DEF t
<1>2. \A i \in 1..Len(s) : s[i].type \notin DetailTypes \cup {"NoteSyncPage"}
  BY DEF Pages, Flight
<1>3. \A j \in 1..Len(t) : t[j].type \in DetailTypes \cup {"NoteSyncPage"} => j = Len(s) + 1
  BY <1>1, <1>2
<1>4. Len(s) + 1 \in Pages(t) /\ \A i \in Pages(t) : i = Len(s) + 1
  BY <1>1, <1>3 DEF Pages
<1>5. \A i \in 1..Len(t) : t[i].type # "NoteSyncRename"
  BY <1>1 DEF PagesFirst
<1>6. PagesFirst(t)
  BY <1>1, <1>3, <1>4, <1>5 DEF PagesFirst
<1> QED
  BY <1>1, <1>4, <1>6 DEF t

\* After a handler: if the page's counters and the channels agree, they do so
\* when finish_page_if_needed has closed and acknowledged the page.
LEMMA SettlePages ==
    ASSUME TypeOK, TypeOK', PageInv, NEW counted, NEW rcv,
           NEW pg \in [active : BOOLEAN, index : Nat, total : Nat,
                       received : Nat, last : BOOLEAN],
           NEW out \in Seq(ClientMsgs), Acks(out) = {},
           Settle(counted, rcv, pg, out),
           PagesFirst(toClient'),
           Acks(toServer) # {} => ToCome' = {} /\ Pages(toClient') = {},
           pg.active => /\ Acks(toServer) = {} /\ Pages(toClient') = {}
                        /\ pg.received + Cardinality(ToCome') = pg.total,
           \A i \in Pages(toClient') : toClient'[i].total = Cardinality(ToCome'),
           ~pg.active /\ Pages(toClient') = {} => ToCome' = {}
    PROVE  PageInv'
<1>1. toServer \in Seq(ClientMsgs) /\ toServer \o out \in Seq(ClientMsgs)
      /\ PageAck(pg.index) \in ClientMsgs
  BY DEF TypeOK, PageAck, ClientMsgs
<1>2. Acks(toServer \o out) = Acks(toServer)
  BY <1>1, AcksConcat
<1>3. CASE PageFinished(pg)
  <2>1. /\ Acks(toServer) = {} /\ Pages(toClient') = {}
        /\ pg.received + Cardinality(ToCome') = pg.total /\ pg.received >= pg.total
    BY <1>3 DEF PageFinished
  <2>2. ToCome' = {}
    BY <2>1, ToComeNotesNext
  <2>3. ~page'.active
    BY <1>3 DEF Settle
  <2>4. toServer' = Append(toServer \o out, PageAck(pg.index)) \/ toServer' = toServer \o out
    <3>1. CASE pg.last
      <4>1. toServer' = (toServer \o out) \o <<>>
        BY <1>3, <3>1 DEF Settle
      <4> QED
        BY <1>1, <4>1
    <3>2. CASE ~pg.last
      <4>1. toServer' = (toServer \o out) \o <<PageAck(pg.index)>>
        BY <1>3, <3>2 DEF Settle
      <4> QED
        BY <1>1, <4>1
    <3> QED
      BY <3>1, <3>2
  <2>5. \A i, j \in Acks(toServer') : i = j
    BY <1>1, <1>2, <2>1, <2>4, AckAppended
  <2> QED
    BY <2>1, <2>2, <2>3, <2>5 DEF PageInv
<1>4. CASE ~PageFinished(pg)
  <2>1. page' = pg /\ toServer' = toServer \o out
    BY <1>1, <1>4 DEF Settle
  <2> QED
    BY <1>2, <2>1 DEF PageInv
<1> QED
  BY <1>3, <1>4

\* A detail taken off the channel is one of the current page, counted by
\* mark_page_message.
LEMMA DetailOfPage ==
    ASSUME TypeOK, SessionInv, PageInv, phase = "syncing", toClient # <<>>,
           toClient' = Tail(toClient), Head(toClient).type \in DetailTypes,
           onPage' = onPage
    PROVE  LET pg == MarkPageMessage(page)
           IN /\ PagesFirst(toClient') /\ Pages(toClient') = {}
              /\ Acks(toServer) = {} /\ pg.active
              /\ pg.received + Cardinality(ToCome') = pg.total
<1> DEFINE p == Head(toClient).path
<1>1. toClient \in Seq(ServerMsgs) /\ OnePlaceEach /\ PagesFirst(toClient)
  BY DEF TypeOK, SessionInv, PageInv
<1>2. PagesFirst(toClient') /\ Pages(toClient) = {} /\ Pages(toClient') = {}
  BY <1>1, PagesTail
<1>3. p \in FlightPaths(toClient) /\ FlightPaths(toClient') = FlightPaths(toClient) \ {p}
  BY <1>1, TailDetail DEF OnePlaceEach
<1>4. p \notin DetailPaths(onPage)
  BY <1>1, <1>3 DEF OnePlaceEach, DetailPaths
<1>5. p \in ToCome /\ ToCome' = ToCome \ {p}
  BY <1>3, <1>4 DEF ToCome
<1>6. page.active /\ Acks(toServer) = {} /\ page.received + Cardinality(ToCome) = page.total
  BY <1>2, <1>5 DEF PageInv
<1>7. Cardinality(ToCome') = Cardinality(ToCome) - 1 /\ Cardinality(ToCome) \in Nat
  BY <1>5, ToComeNotes, CountNotes
<1>8. page \in [active : BOOLEAN, index : Nat, total : Nat, received : Nat, last : BOOLEAN]
  BY DEF TypeOK
<1>9. MarkPageMessage(page) = [page EXCEPT !.received = page.received + 1]
  BY <1>6, <1>8 DEF MarkPageMessage
<1>10. (page.received + 1) + Cardinality(ToCome') = page.total
  BY <1>6, <1>7, <1>8
<1> QED
  BY <1>2, <1>6, <1>8, <1>9, <1>10

\* push_modify sends no acknowledgement of a page.
LEMMA NoAckPushed ==
    ASSUME NEW p, NEW force
    PROVE  Acks(PushModifyMsgs(p, force)) = {}
<1>1. PushModifyMsgs(p, force) = <<>> \/ PushModifyMsgs(p, force) = <<NoteModifyMsg(p, disk[p])>>
  BY DEF PushModifyMsgs
<1>2. NoteModifyMsg(p, disk[p]).type # "NoteSyncPageAck"
  BY DEF NoteModifyMsg
<1> QED
  BY <1>1, <1>2 DEF Acks

\* Every handler of process_sync_responses keeps the page's counters right.
LEMMA ClientPages ==
    ASSUME TypeOK, TypeOK', SessionInv, PageInv,
           ClientReceives \/ ReceiveNeedPushOfVanishing
    PROVE  PageInv'
<1> DEFINE m == Head(toClient)
<1>1. /\ phase = "syncing" /\ toClient # <<>> /\ toClient' = Tail(toClient)
      /\ onPage' = onPage
  BY DEF ClientReceives, ReceiveModify, ReceiveDelete, ReceiveMtime, ReceiveRename,
         ReceivePage, ReceiveNeedPush, ReceiveModifyAck, ReceiveEnd, Receive, Take,
         serverVars, ReceiveNeedPushOfVanishing
<1>2. toClient \in Seq(ServerMsgs) /\ PagesFirst(toClient) /\ <<>> \in Seq(ClientMsgs)
      /\ Acks(<<>>) = {}
  BY DEF TypeOK, PageInv, Acks
<1>3. /\ PagesFirst(toClient')
      /\ Pages(toClient) = {} => Pages(toClient') = {}
      /\ \A i \in Pages(toClient') : i + 1 \in Pages(toClient) /\ toClient'[i] = toClient[i + 1]
      /\ m.type = "NoteSyncPage" => Pages(toClient') = {} /\ 1 \in Pages(toClient)
      /\ m.type # "NoteSyncPage" /\ Pages(toClient') = {} => Pages(toClient) = {}
  BY <1>1, <1>2, PagesTail
<1>4. CASE \/ ReceiveModify \/ ReceiveDelete \/ ReceiveMtime \/ ReceiveNeedPush
           \/ ReceiveNeedPushOfVanishing
  <2>1. m.type \in DetailTypes
    BY <1>4 DEF ReceiveModify, ReceiveDelete, ReceiveMtime, ReceiveNeedPush,
           ReceiveNeedPushOfVanishing, Receive, Take, DetailTypes
  <2>2. \E counted, rcv, out :
          /\ Settle(counted, rcv, MarkPageMessage(page), out)
          /\ out \in Seq(ClientMsgs) /\ Acks(out) = {}
    <3>1. CASE ReceiveModify \/ ReceiveDelete \/ ReceiveMtime \/ ReceiveNeedPushOfVanishing
      BY <1>2, <3>1 DEF ReceiveModify, ReceiveDelete, ReceiveMtime,
             ReceiveNeedPushOfVanishing
    <3>2. CASE ReceiveNeedPush
      <4>1. m.path \in Paths
        BY <1>1, <2>1, HeadType DEF Details
      <4>2. PushModifyMsgs(m.path, TRUE) \in Seq(ClientMsgs)
            /\ Acks(PushModifyMsgs(m.path, TRUE)) = {}
        BY <4>1, PushType, NoAckPushed
      <4> QED
        BY <3>2, <4>2 DEF ReceiveNeedPush
    <3> QED
      BY <1>4, <3>1, <3>2
  <2>3. LET pg == MarkPageMessage(page)
        IN /\ PagesFirst(toClient') /\ Pages(toClient') = {}
           /\ Acks(toServer) = {} /\ pg.active
           /\ pg.received + Cardinality(ToCome') = pg.total
    BY <1>1, <2>1, DetailOfPage
  <2> QED
    BY <2>2, <2>3, MarkType, SettlePages
<1>5. CASE ReceiveRename
  <2>1. m.type = "NoteSyncRename" /\ m = toClient[1] /\ Len(toClient) \in Nat \ {0}
    BY <1>1, <1>2, <1>5, TailShift DEF ReceiveRename, Receive, Take
  <2> QED
    BY <1>2, <2>1 DEF PagesFirst
<1>6. ASSUME m.type \notin DetailTypes PROVE ToCome' = ToCome
  BY <1>1, <1>2, <1>6, TailOther DEF ToCome
<1>7. CASE ReceivePage
  <2> DEFINE pg == [active |-> TRUE, index |-> m.index, total |-> m.total,
                    received |-> 0, last |-> m.last]
  <2>1. m.type = "NoteSyncPage" /\ Settle(FALSE, received, pg, <<>>)
    BY <1>7 DEF ReceivePage, Receive, Take
  <2>2. pg \in [active : BOOLEAN, index : Nat, total : Nat, received : Nat, last : BOOLEAN]
    BY <1>1, <2>1, HeadType
  <2>3. m = toClient[1] /\ ToCome' = ToCome
    BY <1>1, <1>2, <1>6, <2>1, TailShift DEF DetailTypes
  <2>4. Acks(toServer) = {} /\ m.total = Cardinality(ToCome)
    BY <1>1, <1>3, <2>1, <2>3 DEF PageInv
  <2>5. Pages(toClient') = {} /\ 0 + Cardinality(ToCome') = m.total
    BY <1>3, <2>1, <2>3, <2>4, ToComeNotes
  <2>6. pg.active /\ pg.received + Cardinality(ToCome') = pg.total
    BY <2>5
  <2> HIDE DEF pg
  <2> QED
    BY <1>2, <1>3, <2>1, <2>2, <2>4, <2>5, <2>6, SettlePages
<1>8. CASE ReceiveModifyAck
  <2>1. m.type = "NoteModifyAck" /\ \E counted, rcv : Settle(counted, rcv, page, <<>>)
    BY <1>8 DEF ReceiveModifyAck, Receive, Take
  <2>2. ToCome' = ToCome
    BY <1>6, <2>1 DEF DetailTypes
  <2>3. page \in [active : BOOLEAN, index : Nat, total : Nat, received : Nat, last : BOOLEAN]
    BY DEF TypeOK
  <2>4. /\ Acks(toServer) # {} => ToCome' = {} /\ Pages(toClient') = {}
        /\ page.active => /\ Acks(toServer) = {} /\ Pages(toClient') = {}
                          /\ page.received + Cardinality(ToCome') = page.total
        /\ \A i \in Pages(toClient') : toClient'[i].total = Cardinality(ToCome')
        /\ ~page.active /\ Pages(toClient') = {} => ToCome' = {}
    BY <1>1, <1>3, <2>1, <2>2 DEF PageInv
  <2> QED
    BY <1>2, <1>3, <2>1, <2>3, <2>4, SettlePages
<1>9. CASE ReceiveEnd
  <2>1. /\ m.type = "NoteSyncEnd" /\ m = toClient[1] /\ Len(toClient) \in Nat \ {0}
        /\ Len(toServer) \in Nat /\ Len(toClient') = Len(toClient) - 1
    BY <1>1, <1>2, <1>9, TailShift DEF ReceiveEnd, Receive, Take, TypeOK
  <2>2. Answering
    BY <2>1 DEF Answering
  <2>3. Len(toServer) + Len(toClient) = 1 /\ onPage = {} /\ ~page.active
    BY <2>2 DEF SessionInv
  <2>4. Len(toServer) = 0 /\ Len(toClient') = 0
    BY <2>1, <2>3
  <2>5. Acks(toServer) = {} /\ Pages(toClient') = {} /\ Flight(toClient') = {}
    BY <2>4 DEF Acks, Pages, Flight
  <2>6. ToCome' = {}
    BY <1>1, <2>3, <2>5 DEF ToCome, FlightPaths, DetailPaths
  <2>7. toServer' = toServer \/ toServer' = Append(toServer, PageAck(-1))
    BY <1>9 DEF ReceiveEnd
  <2>8. PageAck(-1) \in ClientMsgs /\ toServer \in Seq(ClientMsgs)
    BY DEF PageAck, ClientMsgs, TypeOK
  <2>9. \A i, j \in Acks(toServer') : i = j
    BY <2>5, <2>7, <2>8, AckAppended
  <2>10. page' = page
    BY <1>9 DEF ReceiveEnd
  <2> QED
    BY <1>3, <2>3, <2>5, <2>6, <2>9, <2>10 DEF PageInv
<1> QED
  BY <1>4, <1>5, <1>7, <1>8, <1>9 DEF ClientReceives

\* A message of the server that is no page and no rename leaves the pages alone
\* when it leaves what is to come alone.
LEMMA MessageSent ==
    ASSUME TypeOK, PageInv, NEW m \in ServerMsgs, toClient' = Append(toClient, m),
           m.type \notin {"NoteSyncPage", "NoteSyncRename"},
           UNCHANGED <<phase, page>>, ToCome' = ToCome,
           \A i, j \in Acks(toServer') : i = j,
           Acks(toServer') # {} => Acks(toServer) # {}
    PROVE  PageInv'
<1>1. toClient \in Seq(ServerMsgs) /\ PagesFirst(toClient)
  BY DEF TypeOK, PageInv
<1>2. m.type # "NoteSyncPage" /\ m.type # "NoteSyncRename"
  OBVIOUS
<1>3. LET t == Append(toClient, m)
      IN /\ PagesFirst(t) /\ Pages(t) = Pages(toClient)
         /\ \A i \in Pages(toClient) : t[i] = toClient[i]
  BY <1>1, <1>2, OtherSent
<1> QED
  BY <1>3 DEF PageInv

\* The server sends a page only when the one before it has been acknowledged,
\* and its details only between its announcement and its acknowledgement.
LEMMA ServerPages ==
    ASSUME MaxBroadcasts = 0, TypeOK, TypeOK', SessionInv, PageInv, ServerSteps
    PROVE  PageInv'
<1>1. UNCHANGED <<phase, page>>
  BY DEF ServerSteps, ServerAnswersSync, ServerStartsPage, ServerSendsDetail,
         ServerAcceptsModify, FromClient, sessionVars
<1>2. /\ toServer \in Seq(ClientMsgs) /\ \A i, j \in Acks(toServer) : i = j
      /\ toClient \in Seq(ServerMsgs) /\ PagesFirst(toClient)
  BY DEF TypeOK, PageInv
<1>3. ASSUME NEW type, FromClient(type)
      PROVE  /\ \A i, j \in Acks(toServer') : i = j
             /\ Acks(toServer') # {} => Acks(toServer) # {}
             /\ type = "NoteSyncPageAck" => Acks(toServer') = {} /\ Acks(toServer) # {}
  <2>1. toServer # <<>> /\ Head(toServer).type = type /\ toServer' = Tail(toServer)
    BY <1>3 DEF FromClient
  <2> QED
    BY <1>2, <2>1, AcksTail
<1>4. CASE ServerAnswersSync
  <2>1. PICK count : toClient' = Append(toClient, [type |-> "NoteSyncEnd", count |-> count,
                                                  last |-> clock])
                     /\ count \in Nat
    <3>1. \A S \in SUBSET Paths : Cardinality(S) \in Nat
      BY CountNotes
    <3>2. PICK verdict \in [Paths -> DetailTypes \cup {"InSync"}] :
            toClient' = Append(toClient, [type |-> "NoteSyncEnd",
                count |-> Cardinality({ p \in Paths : verdict[p] # "InSync" }),
                last |-> clock])
      BY <1>4 DEF ServerAnswersSync
    <3> QED
      BY <3>1, <3>2
  <2> DEFINE m == [type |-> "NoteSyncEnd", count |-> count, last |-> clock]
  <2>2. m \in ServerMsgs /\ m.type \notin DetailTypes \cup {"NoteSyncPage", "NoteSyncRename"}
    BY <2>1, MessageTypes DEF TypeOK, DetailTypes
  <2>3. onPage' = onPage /\ FromClient("NoteSync")
    BY <1>4 DEF ServerAnswersSync
  <2> HIDE DEF m
  <2>4. ToCome' = ToCome
    BY <1>2, <2>1, <2>2, <2>3, AppendOther DEF ToCome, m
  <2> QED
    BY <1>1, <1>3, <2>1, <2>2, <2>3, <2>4, MessageSent DEF m
<1>5. CASE ServerStartsPage
  <2>1. FromClient("NoteSyncPageAck")
    BY <1>5 DEF ServerStartsPage
  <2>2. Acks(toServer') = {} /\ ToCome = {} /\ Pages(toClient) = {}
        /\ (phase = "syncing" => ~page.active)
    BY <1>3, <2>1 DEF PageInv
  <2>3. CASE UNCHANGED <<owed, onPage, pageNo, toClient>>
    <3>1. ToCome' = ToCome
      BY <2>3 DEF ToCome
    <3> QED
      BY <1>1, <2>2, <2>3, <3>1 DEF PageInv
  <2>4. CASE ~UNCHANGED <<owed, onPage, pageNo, toClient>>
    <3>1. PICK batch \in SUBSET owed :
            /\ onPage' = batch
            /\ toClient' = Append(toClient,
                  [type |-> "NoteSyncPage", index |-> pageNo + 1,
                   total |-> Size(batch), last |-> batch = owed])
      BY <1>5, <2>4 DEF ServerStartsPage
    <3> DEFINE m == [type |-> "NoteSyncPage", index |-> pageNo + 1,
                     total |-> Size(batch), last |-> batch = owed]
    <3>2. m \in ServerMsgs
      <4>1. pageNo + 1 \in Nat
        BY DEF TypeOK
      <4>2. batch \subseteq Details
        BY DEF TypeOK
      <4>3. Size(batch) \in Nat
        BY <4>2, SizeType
      <4> QED
        BY <4>1, <4>3, MessageTypes
    <3>3. Flight(toClient) = {} /\ FlightPaths(toClient) = {}
      BY <2>2 DEF ToCome, FlightPaths
    <3>4. /\ m.type = "NoteSyncPage" /\ m.type \notin DetailTypes
          /\ m.total = Cardinality(DetailPaths(batch))
      BY DEF DetailTypes, Size
    <3> HIDE DEF m
    <3>5. /\ PagesFirst(toClient') /\ Pages(toClient') # {}
          /\ \A i \in Pages(toClient') : toClient'[i] = m
      <4>1. toClient' = Append(toClient, m) /\ m.type # "NoteSyncRename"
        BY <3>1, <3>4 DEF m
      <4>2. LET t == Append(toClient, m)
            IN PagesFirst(t) /\ Pages(t) # {} /\ \A i \in Pages(t) : t[i] = m
        BY <1>2, <2>2, <3>2, <3>3, <3>4, PageSent
      <4> QED
        BY <4>1, <4>2
    <3>6. FlightPaths(toClient') = {}
      BY <1>2, <3>1, <3>2, <3>3, <3>4, AppendOther DEF m
    <3>7. ToCome' = DetailPaths(batch)
      BY <3>1, <3>6 DEF ToCome
    <3> QED
      BY <1>1, <2>2, <3>4, <3>5, <3>7 DEF PageInv
  <2> QED
    BY <2>3, <2>4
<1>6. CASE ServerSendsDetail
  <2>1. PICK d \in onPage : onPage' = onPage \ {d} /\ toClient' = Append(toClient, d)
                            /\ toServer' = toServer
    BY <1>6 DEF ServerSendsDetail
  <2>2. d \in ServerMsgs /\ d.type \in DetailTypes
    BY MessageTypes DEF TypeOK, Details
  <2>3. d.type \notin {"NoteSyncPage", "NoteSyncRename"}
    BY <2>2 DEF DetailTypes
  <2>4. FlightPaths(toClient') = FlightPaths(toClient) \cup {d.path}
    BY <1>2, <2>1, <2>2, AppendDetail
  <2>5. DetailPaths(onPage) = DetailPaths(onPage') \cup {d.path}
    BY <2>1 DEF DetailPaths
  <2>6. ToCome' = ToCome
    BY <2>4, <2>5 DEF ToCome
  <2> QED
    BY <1>1, <1>2, <2>1, <2>2, <2>3, <2>6, MessageSent
<1>7. CASE ServerAcceptsModify
  <2> DEFINE m == [type |-> "NoteModifyAck", path |-> Head(toServer).path]
  <2>1. ~(broadcasts < MaxBroadcasts)
    <3>1. broadcasts \in Nat
      BY DEF TypeOK
    <3> QED
      BY <3>1
  <2>2. toClient' = Append(toClient, m) /\ onPage' = onPage /\ FromClient("NoteModify")
    BY <1>7, <2>1 DEF ServerAcceptsModify, Broadcast
  <2>3. m \in ServerMsgs /\ m.type \notin DetailTypes \cup {"NoteSyncPage", "NoteSyncRename"}
    <3>1. toServer # <<>> /\ Head(toServer).type = "NoteModify"
      BY <2>2 DEF FromClient
    <3>2. Head(toServer) \in ClientMsgs
      BY <1>2, <3>1
    <3>3. Head(toServer).path \in Paths
      BY <3>1, <3>2 DEF ClientMsgs
    <3> QED
      BY <3>3, MessageTypes DEF DetailTypes
  <2> HIDE DEF m
  <2>4. ToCome' = ToCome
    BY <1>2, <2>2, <2>3, AppendOther DEF ToCome
  <2> QED
    BY <1>1, <1>3, <2>2, <2>3, <2>4, MessageSent
<1> QED
  BY <1>4, <1>5, <1>6, <1>7 DEF ServerSteps

\* Outside the loop messages are dropped, and nothing is acknowledged.
LEMMA OutsidePages ==
    ASSUME TypeOK, SessionInv, PageInv,
           \/ SyncIncremental \/ HandlerFails
           \/ IgnoreNoteMessage \/ CommitState \/ LiveReceive \/ LiveHandlerFails
           \/ Disconnect \/ Restart
    PROVE  PageInv'
<1>1. CASE SyncIncremental
  <2>1. /\ toServer' = <<[type |-> "NoteSync", last |-> lastTime, notes |-> LocalNotes]>>
        /\ toClient' = <<>> /\ onPage' = {} /\ ~page'.active
    BY <1>1 DEF SyncIncremental, ResetCounters, SessionInv, serverVars, NoPage
  <2>2. Acks(toServer') = {} /\ Pages(toClient') = {} /\ PagesFirst(toClient')
    BY <2>1 DEF Acks, Pages, PagesFirst
  <2>3. ToCome' = {}
    BY <2>1 DEF ToCome, DetailPaths, FlightPaths, Flight
  <2> QED
    BY <2>1, <2>2, <2>3 DEF PageInv
<1>2. CASE HandlerFails \/ IgnoreNoteMessage \/ LiveReceive \/ LiveHandlerFails
  <2>1. /\ toClient # <<>> /\ toClient' = Tail(toClient) /\ phase' \in {"others", "live"}
        /\ UNCHANGED <<toServer, onPage>>
    BY <1>2 DEF HandlerFails, IgnoreNoteMessage, LiveReceive, LiveHandlerFails, Receive,
           Take, serverVars
  <2>2. toClient \in Seq(ServerMsgs) /\ PagesFirst(toClient) /\ Distinct(toClient)
    BY DEF TypeOK, PageInv, SessionInv, OnePlaceEach
  <2>3. PagesFirst(toClient') /\ (Pages(toClient) = {} => Pages(toClient') = {})
    BY <2>1, <2>2, PagesTail
  <2>4. ToCome' \subseteq ToCome
    BY <2>1, <2>2, TailDetail, TailOther DEF ToCome
  <2> QED
    BY <2>1, <2>3, <2>4 DEF PageInv
<1>3. CASE CommitState
  <2>1. UNCHANGED <<toServer, toClient, onPage>> /\ phase' = "live"
    BY <1>3 DEF CommitState, serverVars
  <2> QED
    BY <2>1 DEF PageInv, ToCome
<1>4. CASE Disconnect \/ Restart
  <2>1. toServer' = <<>> /\ toClient' = <<>> /\ onPage' = {} /\ phase' = "idle"
    BY <1>4 DEF Disconnect, Restart, ConnectionLost
  <2> QED
    BY <2>1 DEF PageInv, PagesFirst, Acks, Pages
<1> QED
  BY <1>1, <1>2, <1>3, <1>4

\* Without broadcasts the user and the other devices leave the pages alone.
LEMMA ChangesPages ==
    ASSUME MaxBroadcasts = 0, TypeOK, PageInv, Changes
    PROVE  PageInv'
<1>1. ~(broadcasts < MaxBroadcasts)
  <2>1. broadcasts \in Nat
    BY DEF TypeOK
  <2> QED
    BY <2>1
<1>2. UNCHANGED <<phase, toServer, toClient, onPage, page>>
  BY <1>1 DEF Changes, UserChanges, RemoteChanges, RemoteRenames, Broadcast, sessionVars
<1> QED
  BY <1>2 DEF PageInv, ToCome

LEMMA PagesInit == Init => PageInv
<1> SUFFICES ASSUME Init PROVE PageInv
  OBVIOUS
<1>1. toServer = <<>> /\ toClient = <<>> /\ phase = "idle"
  BY DEF Init
<1> QED
  BY <1>1 DEF PageInv, PagesFirst, Acks, Pages

\* A page is acknowledged only when every message of it has been handled,
\* whatever its size and however its details, pushes and acknowledgements
\* interleave, through failures, disconnections and restarts
\* (handle_sync_page, mark_page_message, finish_page_if_needed).
THEOREM PagesAcknowledged ==
    ASSUME MaxBroadcasts = 0
    PROVE  Spec => []AckedPageHandled
<1>1. TypeOK /\ TypeOK' /\ SessionInv /\ PageInv /\ [Next]_vars => PageInv'
  <2> SUFFICES ASSUME TypeOK, TypeOK', SessionInv, PageInv, [Next]_vars PROVE PageInv'
    OBVIOUS
  <2>1. CASE UNCHANGED vars
    <3>1. UNCHANGED <<phase, toServer, toClient, onPage, page>>
      BY <2>1 DEF vars, sessionVars, serverVars
    <3> QED
      BY <3>1 DEF PageInv, ToCome
  <2> QED
    BY <2>1, ClientPages, OutsidePages, ServerPages, ChangesPages DEF Next
<1>2. PageInv => AckedPageHandled
  <2> SUFFICES ASSUME PageInv, Acks(toServer) # {}
               PROVE  onPage = {} /\ Flight(toClient) = {}
    BY DEF AckedPageHandled, Acks
  <2>1. ToCome = {}
    BY DEF PageInv
  <2> QED
    BY <2>1 DEF ToCome, DetailPaths, FlightPaths
<1> QED
  BY <1>1, <1>2, PagesInit, TypeCorrect, SessionInvariant, PTL DEF Spec

---------------------------------------------------------------------------
(* The contract: each step is a step of SyncSession, or leaves it alone.   *)

Left == IF phase = "syncing" THEN Outstanding ELSE {}

\* The abstract session under the refinement mapping, spelled out: what each
\* of its steps asks of the mapped variables.
LEMMA AbstractSteps ==
    /\ UNCHANGED <<Stage, Left>> => [Session!Next]_Session!vars
    /\ Stage = "idle" /\ Stage' = "asked" /\ Left' = {} => Session!Next
    /\ Stage = "asked" /\ Stage' = "answered" /\ Left' \subseteq Paths => Session!Next
    /\ \A p \in Left :
          /\ Stage = "answered" /\ p \in Paths /\ Left' = Left \ {p}
          /\ Stage' = "answered" \/ (Stage' = "returned" /\ Left' = {})
          => Session!Next
    /\ Stage = "answered" /\ Stage' = "returned" /\ Left = {} /\ Left' = {}
          => Session!Next
    /\ Stage' = "idle" /\ Left' = {} => Session!Next
<1>1. UNCHANGED <<Stage, Left>> => [Session!Next]_Session!vars
  BY DEF Session!vars, Left
<1>2. Stage = "idle" /\ Stage' = "asked" /\ Left' = {} => Session!Next
  BY DEF Session!Next, Session!Ask, Left
<1>3. Stage = "asked" /\ Stage' = "answered" /\ Left' \subseteq Paths => Session!Next
  BY DEF Session!Next, Session!Answer, Left
<1>4. \A p \in Left :
        /\ Stage = "answered" /\ p \in Paths /\ Left' = Left \ {p}
        /\ Stage' = "answered" \/ (Stage' = "returned" /\ Left' = {})
        => Session!Next
  BY DEF Session!Next, Session!Settle, Session!MayReturn, Left
<1>5. Stage = "answered" /\ Stage' = "returned" /\ Left = {} /\ Left' = {} => Session!Next
  BY DEF Session!Next, Session!Return, Left
<1>6. Stage' = "idle" /\ Left' = {} => Session!Next
  BY DEF Session!Next, Session!GiveUp, Left
<1> QED
  BY <1>1, <1>2, <1>3, <1>4, <1>5, <1>6

\* A step that leaves the phase, what is outstanding, the request and the
\* completion alone leaves the session alone.
LEMMA SessionStutters ==
    ASSUME phase' = phase, complete' = complete,
           phase = "syncing" => Outstanding' = Outstanding /\ (Asking' <=> Asking)
    PROVE  UNCHANGED <<Stage, Left>>
  BY DEF Stage, Left

\* What process_sync_responses makes of a message: one outstanding note at most
\* is settled, and the loop goes on or returns complete.
LEMMA ClientLeaves ==
    ASSUME TypeOK, SessionInv, ClientReceives \/ ReceiveNeedPushOfVanishing
    PROVE  /\ phase = "syncing" /\ ~Asking /\ gotEnd'
           /\ \/ Outstanding' = Outstanding
              \/ \E p \in Outstanding : Outstanding' = Outstanding \ {p}
           /\ \/ phase' = "syncing"
              \/ phase' = "others" /\ complete'
<1> DEFINE m == Head(toClient)
<1>1. /\ phase = "syncing" /\ toClient # <<>> /\ toClient' = Tail(toClient)
      /\ UNCHANGED <<owed, onPage>>
  BY DEF ClientReceives, ReceiveModify, ReceiveDelete, ReceiveMtime, ReceiveRename,
         ReceivePage, ReceiveNeedPush, ReceiveModifyAck, ReceiveEnd, Receive, Take,
         serverVars, ReceiveNeedPushOfVanishing
<1>2. (phase' = "others" /\ complete') \/ phase' = "syncing"
  BY <1>1 DEF ClientReceives, ReceiveModify, ReceiveDelete, ReceiveMtime, ReceiveRename,
         ReceivePage, ReceiveNeedPush, ReceiveModifyAck, ReceiveEnd,
         ReceiveNeedPushOfVanishing, Settle, ReturnIfComplete
<1>3. CASE ReceiveEnd
  <2>1. m.type = "NoteSyncEnd" /\ m.type \notin DetailTypes /\ pending' = pending /\ gotEnd'
    BY <1>3 DEF ReceiveEnd, Receive, Take, DetailTypes
  <2>2. toClient \in Seq(ServerMsgs) /\ Len(toClient) \in Nat \ {0} /\ m = toClient[1]
    BY <1>1, TailShift DEF TypeOK
  <2>3. Answering
    BY <2>1, <2>2 DEF Answering
  <2>4. Len(toServer) + Len(toClient) = 1 /\ Len(toServer) \in Nat
    BY <2>3 DEF SessionInv, TypeOK
  <2>5. \A a \in Nat, b \in Nat \ {0} : a + b = 1 => a = 0
    OBVIOUS
  <2>6. Len(toServer) = 0
    BY <2>2, <2>4, <2>5, ZenonT(30)
  <2>7. ~Asking
    BY <2>6 DEF Asking
  <2> QED
    BY <1>1, <1>2, <2>1, <2>7, OtherIgnored
<1>4. CASE ~ReceiveEnd
  <2>1. m.type # "NoteSyncEnd"
    BY <1>4 DEF ClientReceives, ReceiveModify, ReceiveDelete, ReceiveMtime,
           ReceiveRename, ReceivePage, ReceiveNeedPush, ReceiveModifyAck, Receive,
           Take, ReceiveNeedPushOfVanishing
  <2>2. ~Asking /\ ~Answering /\ gotEnd
    BY <1>1, <2>1, LoopBusy DEF SessionInv
  <2>3. gotEnd'
    BY <1>4, <2>2 DEF ClientReceives, ReceiveModify, ReceiveDelete, ReceiveMtime,
           ReceiveRename, ReceivePage, ReceiveNeedPush, ReceiveModifyAck, Settle,
           ReceiveNeedPushOfVanishing
  <2>4. CASE ReceiveModify \/ ReceiveDelete \/ ReceiveMtime
    <3>1. m.type \in DetailTypes /\ pending' = pending
      BY <2>4 DEF ReceiveModify, ReceiveDelete, ReceiveMtime, Receive, Take, DetailTypes
    <3> QED
      BY <1>1, <1>2, <2>2, <2>3, <3>1, DetailHandled
  <2>5. CASE ReceiveRename \/ ReceivePage
    <3>1. m.type \notin DetailTypes /\ pending' = pending
      BY <2>5 DEF ReceiveRename, ReceivePage, Receive, Take, DetailTypes
    <3> QED
      BY <1>1, <1>2, <2>2, <2>3, <3>1, OtherIgnored
  <2>6. CASE ReceiveNeedPush \/ ReceiveNeedPushOfVanishing
    <3>1. m.type \in DetailTypes /\ (pending' = pending \/ pending' = pending \cup {m.path})
      BY <2>6 DEF ReceiveNeedPush, ReceiveNeedPushOfVanishing, Receive, Take, DetailTypes
    <3> QED
      BY <1>1, <1>2, <2>2, <2>3, <3>1, DetailHandled, DetailPushed
  <2>7. CASE ReceiveModifyAck
    <3>1. m.type \notin DetailTypes /\ pending' = pending \ {m.path}
      BY <2>7 DEF ReceiveModifyAck, Receive, Take, DetailTypes
    <3>2. Outstanding' = Outstanding \ ({m.path} \cap pending)
      BY <1>1, <3>1, OtherHandled
    <3>3. pending \subseteq Outstanding
      BY DEF Outstanding
    <3>4. Outstanding' = Outstanding \/ \E p \in Outstanding : Outstanding' = Outstanding \ {p}
      <4>1. CASE m.path \in pending
        BY <3>2, <3>3, <4>1
      <4>2. CASE m.path \notin pending
        BY <3>2, <4>2
      <4> QED
        BY <4>1, <4>2
    <3> QED
      BY <1>1, <1>2, <2>2, <2>3, <3>4
  <2> QED
    BY <1>4, <2>4, <2>5, <2>6, <2>7 DEF ClientReceives
<1> QED
  BY <1>3, <1>4

\* It settles at most one note of the abstract session, and returns when none
\* is left.
LEMMA ClientContract ==
    ASSUME TypeOK, SessionInv, SessionInv',
           ClientReceives \/ ReceiveNeedPushOfVanishing
    PROVE  [Session!Next]_Session!vars
<1>1. /\ phase = "syncing" /\ ~Asking /\ gotEnd'
      /\ \/ Outstanding' = Outstanding
         \/ \E p \in Outstanding : Outstanding' = Outstanding \ {p}
      /\ phase' = "syncing" \/ (phase' = "others" /\ complete')
  BY ClientLeaves
<1>2. Stage = "answered" /\ Left = Outstanding /\ Outstanding \subseteq Paths
  BY <1>1, OutstandingNotes DEF Stage, Left
<1>3. CASE phase' = "syncing"
  <2>1. ~Asking'
    BY <1>1 DEF SessionInv
  <2>2. Stage' = "answered" /\ Left' = Outstanding'
    BY <1>3, <2>1 DEF Stage, Left
  <2> QED
    BY <1>1, <1>2, <2>2, AbstractSteps
<1>4. CASE phase' = "others" /\ complete'
  <2>1. Outstanding' = {}
    BY <1>4 DEF SessionInv, CompleteMeansHandled
  <2>2. Stage' = "returned" /\ Left' = {}
    BY <1>4 DEF Stage, Left
  <2> QED
    BY <1>1, <1>2, <2>1, <2>2, AbstractSteps
<1> QED
  BY <1>1, <1>3, <1>4

\* The steps of the client outside the loop: they begin a session, give one up,
\* or leave it alone.
LEMMA OutsideContract ==
    ASSUME TypeOK, SessionInv, SessionInv',
           \/ SyncIncremental \/ HandlerFails
           \/ IgnoreNoteMessage \/ CommitState \/ LiveReceive \/ LiveHandlerFails
           \/ Disconnect \/ Restart
    PROVE  [Session!Next]_Session!vars
<1>1. CASE SyncIncremental
  <2>1. Stage = "idle"
    BY <1>1 DEF SyncIncremental, Stage
  <2>2. /\ phase' = "syncing" /\ pending' = {} /\ toClient' = <<>>
        /\ owed' = {} /\ onPage' = {}
        /\ toServer' = <<[type |-> "NoteSync", last |-> lastTime, notes |-> LocalNotes]>>
    BY <1>1 DEF SyncIncremental, ResetCounters, SessionInv, serverVars
  <2>3. Asking'
    BY <2>2 DEF Asking
  <2>4. Stage' = "asked" /\ Left' = {}
    BY <2>2, <2>3 DEF Stage, Left, Outstanding, DetailPaths, FlightPaths, Flight
  <2> QED
    BY <2>1, <2>4, AbstractSteps
<1>2. CASE HandlerFails
  <2>1. phase = "syncing" /\ toClient # <<>> /\ phase' = "others" /\ complete' = complete
        /\ Head(toClient).type # "NoteSyncEnd"
    BY <1>2 DEF HandlerFails, Receive, Take, WriteTypes, sessionVars
  <2>2. ~complete
    BY <2>1, LoopBusy DEF SessionInv
  <2>3. Stage' = "idle" /\ Left' = {}
    BY <2>1, <2>2 DEF Stage, Left
  <2> QED
    BY <2>3, AbstractSteps
<1>3. CASE IgnoreNoteMessage \/ CommitState \/ LiveReceive \/ LiveHandlerFails
  <2>1. /\ phase \in {"others", "live"} /\ phase' \in {"others", "live"}
        /\ complete' = complete
    BY <1>3 DEF IgnoreNoteMessage, CommitState, LiveReceive, LiveHandlerFails, sessionVars
  <2>2. UNCHANGED <<Stage, Left>>
    BY <2>1 DEF Stage, Left
  <2> QED
    BY <2>2, AbstractSteps
<1>4. CASE Disconnect \/ Restart
  <2>1. Stage' = "idle" /\ Left' = {}
    BY <1>4 DEF Disconnect, Restart, Stage, Left
  <2> QED
    BY <2>1, AbstractSteps
<1> QED
  BY <1>1, <1>2, <1>3, <1>4

\* The server's answer names what differs; its other steps move notes between
\* the places where they are outstanding.
LEMMA ServerContract ==
    ASSUME MaxBroadcasts = 0, TypeOK, TypeOK', SessionInv, SessionInv', ServerSteps
    PROVE  [Session!Next]_Session!vars
<1>1. CASE ServerAnswersSync
  <2>1. /\ toServer # <<>> /\ Head(toServer).type = "NoteSync"
        /\ toServer' = Tail(toServer) /\ phase' = phase
    BY <1>1 DEF ServerAnswersSync, FromClient
  <2>2. toServer \in Seq(ClientMsgs) /\ toClient \in Seq(ServerMsgs)
    BY DEF TypeOK
  <2>3. Len(toServer) \in Nat \ {0} /\ Head(toServer) = toServer[1] /\ Len(toClient) \in Nat
    BY <2>1, <2>2
  <2>4. Asking
    BY <2>1, <2>3 DEF Asking
  <2>5. phase = "syncing" /\ Len(toServer) + Len(toClient) = 1
    BY <2>4 DEF SessionInv
  <2>6. \A a \in Nat \ {0}, b \in Nat : a + b = 1 => a = 1
    OBVIOUS
  <2>7. Len(toServer) = 1
    BY <2>3, <2>5, <2>6, ZenonT(30)
  <2>8. toServer' = <<>>
    BY <2>1, <2>2, <2>7
  <2>9. ~Asking'
    BY <2>8 DEF Asking
  <2>10. Outstanding' \subseteq Paths
    BY OutstandingNotesNext
  <2>11. Stage = "asked" /\ Stage' = "answered" /\ Left' \subseteq Paths
    BY <2>1, <2>4, <2>5, <2>9, <2>10 DEF Stage, Left
  <2> QED
    BY <2>11, AbstractSteps
<1>2. CASE ServerStartsPage \/ ServerSendsDetail \/ ServerAcceptsModify
  <2>1. /\ ~Asking /\ ~Asking' /\ Outstanding' = Outstanding
        /\ UNCHANGED <<phase, sessionVars>>
    BY <1>2, ServerMoves
  <2>2. UNCHANGED <<Stage, Left>>
    BY <2>1, SessionStutters DEF sessionVars
  <2> QED
    BY <2>2, AbstractSteps
<1> QED
  BY <1>1, <1>2 DEF ServerSteps

\* Without broadcasts the user and the other devices leave the session alone.
LEMMA ChangesContract ==
    ASSUME MaxBroadcasts = 0, TypeOK, Changes
    PROVE  [Session!Next]_Session!vars
<1>1. ~(broadcasts < MaxBroadcasts)
  <2>1. broadcasts \in Nat
    BY DEF TypeOK
  <2> QED
    BY <2>1
<1>2. UNCHANGED <<phase, toServer, toClient, owed, onPage, pending, complete>>
  BY <1>1 DEF Changes, UserChanges, RemoteChanges, RemoteRenames, Broadcast, sessionVars
<1>3. UNCHANGED <<Stage, Left>>
  BY <1>2, SessionStutters DEF Outstanding, Asking
<1> QED
  BY <1>3, AbstractSteps
---------------------------------------------------------------------------
\* The note sync keeps the contract of a sync: once the server has named what
\* differs, each note is settled once, none is added, and the sync returns
\* only when none is left, whatever the pages, acknowledgements, failures,
\* disconnections and restarts (sync_incremental, process_sync_responses,
\* check_all_received, finish_page_if_needed).
THEOREM ContractKept ==
    ASSUME MaxBroadcasts = 0
    PROVE  Spec => KeepsContract
<1>1. Init => Session!Init
  BY DEF Init, Session!Init, Stage
<1>2. TypeOK /\ TypeOK' /\ SessionInv /\ SessionInv' /\ [Next]_vars
        => [Session!Next]_Session!vars
  <2> SUFFICES ASSUME TypeOK, TypeOK', SessionInv, SessionInv', [Next]_vars
               PROVE  [Session!Next]_Session!vars
    OBVIOUS
  <2>1. CASE UNCHANGED vars
    <3>1. UNCHANGED <<phase, toServer, toClient, owed, onPage, pending, complete>>
      BY <2>1 DEF vars, sessionVars, serverVars
    <3>2. UNCHANGED <<Stage, Left>>
      BY <3>1, SessionStutters DEF Outstanding, Asking
    <3> QED
      BY <3>2, AbstractSteps
  <2> QED
    BY <2>1, ClientContract, OutsideContract, ServerContract, ChangesContract DEF Next
<1> QED
  BY <1>1, <1>2, TypeCorrect, SessionInvariant, PTL DEF Spec, KeepsContract, Session!Spec

---------------------------------------------------------------------------
(* Why an incremental sync may ask only for what changed after             *)
(* last_note_sync_time, through disconnections, restarts and failing       *)
(* handlers.  The time of the running sync is the server's clock when it   *)
(* answered.  What the server owed then is either still outstanding, and   *)
(* what is on its way is still the server's copy unless that has changed   *)
(* since, or it has been handled, and the vault agrees with the server     *)
(* unless either has changed since.                                        *)

Msgs(channel) == { channel[i] : i \in 1..Len(channel) }

\* The time that the running sync will commit.
SyncTime == IF Answering THEN toClient[1].last ELSE pendingLast

TimesOrdered ==
    /\ \A p \in Paths : srv[p].time <= clock
    /\ saved <= lastTime /\ lastTime <= clock
    /\ pendingLast <= clock /\ SyncTime <= clock
    /\ phase # "idle" /\ ~Asking => lastTime <= SyncTime

\* The request lists what the vault holds, and nothing of what it leaves out.
AskedTruth ==
    Asking => /\ toServer[1].last = lastTime
              /\ \A p \in Paths \ edited : toServer[1].notes[p] \in {Absent, disk[p]}

\* A detail tells what the server has, if that is not newer than the sync.
Current(d) ==
    srv[d.path].time <= SyncTime =>
        /\ d.type = "NoteSyncModify" => d.hash = srv[d.path].hash
        /\ d.type = "NoteSyncDelete" => srv[d.path].hash = Absent
        /\ d.type = "NoteSyncMtime" /\ d.path \notin edited
             => disk[d.path] = srv[d.path].hash
        /\ d.type = "NoteSyncNeedPush" /\ d.path \notin edited
             => disk[d.path] # Absent

OnTheirWay ==
    /\ \A m \in Msgs(toClient) :
         /\ m.type # "NoteSyncRename"
         /\ m.type = "NoteModifyAck" => srv[m.path].time > SyncTime
         /\ m.type \in DetailTypes => Current(m)
    /\ \A d \in owed \cup onPage : Current(d)

\* What is no longer outstanding is as the server had it.
HandledNow ==
    \A p \in Paths \ (Outstanding \cup edited) :
        srv[p].time <= SyncTime => disk[p] = srv[p].hash

Handled == phase = "syncing" /\ ~Asking => HandledNow

AppliedInv ==
    /\ TimesOrdered /\ AskedTruth /\ OnTheirWay /\ Handled
    /\ EchoTruthful /\ AppliedUpToLastTime
---------------------------------------------------------------------------
(* Channels and the vault.                                                 *)

LEMMA MsgsTail ==
    ASSUME NEW S, NEW s \in Seq(S), s # <<>>
    PROVE  Msgs(Tail(s)) \subseteq Msgs(s) /\ Head(s) \in Msgs(s)
<1>1. /\ Head(s) = s[1] /\ Len(s) \in Nat \ {0} /\ Len(Tail(s)) = Len(s) - 1
      /\ \A i \in 1..Len(Tail(s)) : Tail(s)[i] = s[i + 1]
  BY TailShift
<1>2. ASSUME NEW i \in 1..Len(Tail(s)) PROVE Tail(s)[i] \in Msgs(s)
  <2>1. i + 1 \in 1..Len(s)
    BY <1>1
  <2> QED
    BY <1>1, <2>1 DEF Msgs
<1> QED
  BY <1>1, <1>2 DEF Msgs

LEMMA MsgsAppend ==
    ASSUME NEW S, NEW s \in Seq(S), NEW m \in S
    PROVE  Msgs(Append(s, m)) = Msgs(s) \cup {m}
<1> DEFINE t == Append(s, m)
<1>1. /\ Len(t) = Len(s) + 1 /\ t[Len(s) + 1] = m /\ Len(s) \in Nat
      /\ \A i \in 1..Len(s) : t[i] = s[i]
  OBVIOUS
<1> HIDE DEF t
<1>2. \A i \in 1..Len(t) : i \in 1..Len(s) \/ i = Len(s) + 1
  BY <1>1
<1>3. Len(s) + 1 \in 1..Len(t) /\ \A i \in 1..Len(s) : i \in 1..Len(t)
  BY <1>1
<1>4. Msgs(t) = Msgs(s) \cup {m}
  BY <1>1, <1>2, <1>3 DEF Msgs
<1> QED
  BY <1>4 DEF t

\* The details of the channel are its messages in flight.
LEMMA MsgsFlight ==
    ASSUME NEW s, NEW m \in Msgs(s), m.type \in DetailTypes
    PROVE  m.path \in FlightPaths(s)
  BY DEF Msgs, Flight, FlightPaths

\* The answer to the request is the only message there is.
LEMMA AnswerAlone ==
    ASSUME TypeOK, SessionInv, Answering
    PROVE  /\ toServer = <<>> /\ Len(toClient) = 1
           /\ toClient[1].type = "NoteSyncEnd" /\ toClient[1] \in ServerMsgs
           /\ toClient[1] = Head(toClient)
<1>1. toClient \in Seq(ServerMsgs) /\ toServer \in Seq(ClientMsgs)
  BY DEF TypeOK
<1>2. Len(toServer) + Len(toClient) = 1
  BY DEF SessionInv
<1>3. PICK i \in 1..Len(toClient) : toClient[i].type = "NoteSyncEnd"
  BY DEF Answering
<1>4. Len(toServer) \in Nat /\ Len(toClient) \in Nat
  BY <1>1
<1>5. Len(toClient) = 1 /\ Len(toServer) = 0 /\ i = 1
  BY <1>2, <1>3, <1>4
<1> QED
  BY <1>1, <1>3, <1>5

LEMMA SyncTimeType == TypeOK /\ SessionInv => SyncTime \in Nat
<1> SUFFICES ASSUME TypeOK, SessionInv PROVE SyncTime \in Nat
  OBVIOUS
<1>1. pendingLast \in Nat
  BY DEF TypeOK
<1>2. ASSUME Answering PROVE toClient[1].last \in Nat
  BY <1>2, AnswerAlone DEF ServerMsgs, Details, DetailTypes
<1> QED
  BY <1>1, <1>2 DEF SyncTime

\* Handling a detail touches its note only, keeps the echo cache truthful, and
\* brings the note to what the server has, if that is not newer than the sync.
LEMMA DetailApplied ==
    ASSUME TypeOK, NEW m \in Details, Current(m), EchoTruthful,
           \/ m.type = "NoteSyncModify" /\ ApplyModify(m)
           \/ m.type = "NoteSyncDelete" /\ ApplyDelete(m)
           \/ m.type = "NoteSyncMtime" /\ ApplyMtime(m)
    PROVE  /\ \A q \in Paths : q # m.path =>
                 disk'[q] = disk[q] /\ (q \in edited' <=> q \in edited)
           /\ m.path \notin edited' /\ srv[m.path].time <= SyncTime
                 => disk'[m.path] = srv[m.path].hash
           /\ EchoTruthful'
<1> DEFINE p == m.path
<1>1. /\ disk \in [Paths -> Hashes \cup {Absent}] /\ p \in Paths
      /\ echo \in [Paths -> Hashes \cup {DeletedMarker, NoEntry}]
  BY DEF TypeOK, EngineTypeOK, Details
<1>2. /\ DeletedMarker \notin Hashes /\ NoEntry \notin Hashes /\ Absent \notin Hashes
      /\ DeletedMarker # NoEntry
  BY HashesAssumption
<1>3. CASE m.type = "NoteSyncModify" /\ ApplyModify(m)
  <2>1. m.hash \in Hashes
    BY <1>3 DEF Details
  <2>2. srv[p].time <= SyncTime => m.hash = srv[p].hash
    BY <1>3 DEF Current
  <2>3. CASE Echoed(p, m.hash)
    <3>1. echo[p] = m.hash
      BY <2>3 DEF Echoed
    <3>2. disk' = disk /\ edited' = edited /\ echo' = [echo EXCEPT ![p] = NoEntry]
      BY <1>3, <2>3 DEF ApplyModify, HandleNoteModify
    <3>3. EchoTruthful'
      BY <1>1, <1>2, <3>2 DEF EchoTruthful
    <3>4. p \notin edited => disk[p] = m.hash
      BY <1>1, <2>1, <3>1 DEF EchoTruthful
    <3> QED
      BY <2>2, <3>2, <3>3, <3>4
  <2>4. CASE ~Echoed(p, m.hash)
    <3>1. /\ disk' = [disk EXCEPT ![p] = m.hash] /\ edited' = edited \ {p}
          /\ echo' = [echo EXCEPT ![p] = m.hash]
      BY <1>3, <2>4 DEF ApplyModify, HandleNoteModify, Applied
    <3>2. EchoTruthful'
      BY <1>1, <1>2, <2>1, <3>1 DEF EchoTruthful
    <3> QED
      BY <1>1, <2>2, <3>1, <3>2
  <2> QED
    BY <2>3, <2>4
<1>4. CASE m.type = "NoteSyncDelete" /\ ApplyDelete(m)
  <2>1. srv[p].time <= SyncTime => srv[p].hash = Absent
    BY <1>4 DEF Current
  <2>2. CASE echo[p] = DeletedMarker
    <3>1. disk' = disk /\ edited' = edited /\ echo' = [echo EXCEPT ![p] = NoEntry]
      BY <1>4, <2>2 DEF ApplyDelete, HandleNoteDelete, Echoed
    <3>2. EchoTruthful'
      BY <1>1, <1>2, <3>1 DEF EchoTruthful
    <3>3. p \notin edited => disk[p] = Absent
      BY <1>1, <2>2 DEF EchoTruthful
    <3> QED
      BY <2>1, <3>1, <3>2, <3>3
  <2>3. CASE echo[p] # DeletedMarker
    <3>1. /\ disk' = [disk EXCEPT ![p] = Absent] /\ edited' = edited \ {p}
          /\ echo' = [echo EXCEPT ![p] = DeletedMarker]
      BY <1>4, <2>3 DEF ApplyDelete, HandleNoteDelete, Applied, Echoed
    <3>2. EchoTruthful'
      BY <1>1, <1>2, <3>1 DEF EchoTruthful
    <3> QED
      BY <1>1, <2>1, <3>1, <3>2
  <2> QED
    BY <2>2, <2>3
<1>5. CASE m.type = "NoteSyncMtime" /\ ApplyMtime(m)
  <2>1. disk' = disk /\ echo' = echo /\ edited' = edited
    BY <1>5 DEF ApplyMtime, engineVars
  <2>2. EchoTruthful'
    BY <2>1 DEF EchoTruthful
  <2>3. p \notin edited /\ srv[p].time <= SyncTime => disk[p] = srv[p].hash
    BY <1>5 DEF Current
  <2> QED
    BY <2>1, <2>2, <2>3
<1> QED
  BY <1>3, <1>4, <1>5

\* A forced push leaves the echo cache truthful, and so does a handler that fails.
LEMMA PushTruthful ==
    ASSUME TypeOK, EchoTruthful, NEW p \in Paths, UNCHANGED <<disk, edited>>,
           echo' = PushModifyEcho(p, TRUE)
    PROVE  EchoTruthful'
<1>1. /\ disk \in [Paths -> Hashes \cup {Absent}]
      /\ echo \in [Paths -> Hashes \cup {DeletedMarker, NoEntry}]
  BY DEF TypeOK, EngineTypeOK
<1>2. CASE Pushes(p, TRUE)
  <2>1. disk[p] \in Hashes /\ disk[p] # DeletedMarker
    BY <1>2, HashesAssumption DEF Pushes, Readable
  <2>2. echo' = [echo EXCEPT ![p] = disk[p]]
    BY <1>2 DEF PushModifyEcho
  <2> QED
    BY <1>1, <2>1, <2>2 DEF EchoTruthful
<1>3. CASE ~Pushes(p, TRUE)
  BY <1>3 DEF PushModifyEcho, EchoTruthful
<1> QED
  BY <1>2, <1>3

LEMMA FailedTruthful ==
    ASSUME TypeOK, EchoTruthful, NEW m, m.type \in WriteTypes,
           m.type # "NoteSyncRename", UNCHANGED <<disk, edited>>,
           echo' = FailedEcho(m)
    PROVE  EchoTruthful'
<1>1. echo \in [Paths -> Hashes \cup {DeletedMarker, NoEntry}]
  BY DEF TypeOK, EngineTypeOK
<1>2. echo' = echo \/ echo' = [echo EXCEPT ![m.path] = NoEntry]
  BY DEF FailedEcho, WriteTypes
<1>3. NoEntry \notin Hashes /\ NoEntry # DeletedMarker
  BY HashesAssumption
<1> QED
  BY <1>1, <1>2, <1>3 DEF EchoTruthful
---------------------------------------------------------------------------
(* Taking a message off the channel.                                       *)

\* A step brings the note of a message to what the server has.
Reached(m) ==
    m.path \notin edited' /\ srv[m.path].time <= SyncTime
        => disk'[m.path] = srv[m.path].hash

\* What a step that takes the next message does to the vault: it touches no note
\* but that of a detail, and that one to bring it to what the server has.
VaultStep(m) ==
    /\ \A q \in Paths : m.type \notin DetailTypes \/ q # m.path =>
          disk'[q] = disk[q] /\ (q \in edited' <=> q \in edited)
    /\ m.type \in DetailTypes => UNCHANGED <<disk, edited>> \/ Reached(m)
    /\ EchoTruthful'

\* The messages that stay on their way stay true.
LEMMA RestOnTheirWay ==
    ASSUME TypeOK, SessionInv, OnTheirWay, toClient # <<>>,
           toClient' = Tail(toClient), UNCHANGED <<srv, owed, onPage>>,
           SyncTime' = SyncTime, VaultStep(Head(toClient))
    PROVE  OnTheirWay'
<1> DEFINE m == Head(toClient)
<1>1. toClient \in Seq(ServerMsgs) /\ OnePlaceEach /\ owed \subseteq Details
      /\ onPage \subseteq Details
  BY DEF TypeOK, SessionInv
<1>2. Msgs(toClient') \subseteq Msgs(toClient)
  BY <1>1, MsgsTail
<1>3. ASSUME NEW d, d.path \in Paths, m.type \in DetailTypes => d.path # m.path, Current(d)
      PROVE  Current(d)'
  <2>1. disk'[d.path] = disk[d.path] /\ (d.path \in edited' <=> d.path \in edited)
    BY <1>3 DEF VaultStep
  <2> QED
    BY <1>3, <2>1 DEF Current
<1>4. ASSUME NEW d \in Msgs(toClient'), d.type \in DetailTypes PROVE Current(d)'
  <2>0. \A i \in 1..Len(toClient) : toClient[i] \in ServerMsgs
    BY <1>1
  <2>1. d \in Msgs(toClient) /\ d \in ServerMsgs
    <3>1. d \in Msgs(toClient)
      BY <1>2
    <3> QED
      BY <2>0, <3>1 DEF Msgs
  <2>2. d.path \in Paths
    BY <1>4, <2>1 DEF ServerMsgs, Details, DetailTypes
  <2>3. Current(d)
    BY <1>4, <2>1 DEF OnTheirWay
  <2>4. m.type \in DetailTypes => d.path # m.path
    <3>1. d.path \in FlightPaths(toClient')
      BY <1>4, MsgsFlight
    <3>2. m.type \in DetailTypes => FlightPaths(toClient') = FlightPaths(toClient) \ {m.path}
      BY <1>1, TailDetail DEF OnePlaceEach
    <3> QED
      BY <3>1, <3>2
  <2> QED
    BY <1>3, <2>2, <2>3, <2>4
<1>5. ASSUME NEW d \in owed \cup onPage PROVE Current(d)'
  <2>1. d.path \in Paths /\ Current(d)
    BY <1>1 DEF OnTheirWay, Details
  <2>2. m.type \in DetailTypes => d.path # m.path
    <3>1. m.type \in DetailTypes => m.path \in FlightPaths(toClient)
      BY <1>1, TailDetail DEF OnePlaceEach
    <3>2. d.path \in DetailPaths(owed \cup onPage)
      BY DEF DetailPaths
    <3> QED
      BY <1>1, <3>1, <3>2 DEF OnePlaceEach
  <2> QED
    BY <1>3, <2>1, <2>2
<1>6. \A d \in Msgs(toClient') : d.type # "NoteSyncRename"
                             /\ (d.type = "NoteModifyAck" => srv'[d.path].time > SyncTime')
  BY <1>2 DEF OnTheirWay
<1> QED
  BY <1>4, <1>5, <1>6 DEF OnTheirWay

\* What has been handled stays handled, and the note of the message joins it.
LEMMA MoreHandled ==
    ASSUME TypeOK, TypeOK', SessionInv, OnTheirWay, HandledNow, toClient # <<>>,
           toClient' = Tail(toClient), UNCHANGED <<srv, owed, onPage>>,
           SyncTime' = SyncTime, VaultStep(Head(toClient)),
           Head(toClient).type \in DetailTypes =>
               Head(toClient).path \in pending' \/ Reached(Head(toClient)),
           \A q \in pending \ pending' :
               Head(toClient).type = "NoteModifyAck" /\ q = Head(toClient).path
    PROVE  HandledNow'
<1> DEFINE m == Head(toClient)
<1>1. toClient \in Seq(ServerMsgs) /\ OnePlaceEach
  BY DEF TypeOK, SessionInv
<1> SUFFICES ASSUME NEW p \in Paths, p \notin Outstanding', p \notin edited',
                    srv[p].time <= SyncTime
             PROVE  disk'[p] = srv[p].hash
  BY DEF HandledNow
<1>2. p \notin pending' /\ p \notin FlightPaths(toClient')
      /\ p \notin DetailPaths(owed) /\ p \notin DetailPaths(onPage)
  BY DEF Outstanding
<1>3. CASE m.type \in DetailTypes /\ p = m.path
  BY <1>2, <1>3 DEF Reached
<1>4. CASE ~(m.type \in DetailTypes /\ p = m.path)
  <2>1. disk'[p] = disk[p] /\ p \notin edited
    BY <1>4 DEF VaultStep
  <2>2. p \notin FlightPaths(toClient)
    BY <1>1, <1>2, <1>4, TailDetail, TailOther DEF OnePlaceEach
  <2>3. p \notin pending
    <3>1. m \in Msgs(toClient)
      BY <1>1, MsgsTail
    <3>2. m.type = "NoteModifyAck" => srv[m.path].time > SyncTime
      BY <3>1 DEF OnTheirWay
    <3>3. srv[p].time \in Nat /\ SyncTime \in Nat
      BY SyncTimeType DEF TypeOK
    <3> QED
      BY <1>2, <3>2, <3>3
  <2> QED
    BY <1>2, <2>1, <2>2, <2>3 DEF HandledNow, Outstanding
<1> QED
  BY <1>3, <1>4

\* The vault agrees with the server up to the time of the last sync: that stays
\* so when a message is taken, as that time is no later than the running sync's.
LEMMA AppliedKept ==
    ASSUME TypeOK, SessionInv, AppliedUpToLastTime, NEW m, VaultStep(m),
           saved <= lastTime, lastTime <= SyncTime,
           UNCHANGED <<srv, lastTime, saved>>
    PROVE  AppliedUpToLastTime'
<1> SUFFICES ASSUME NEW p \in Paths, p \notin edited',
                    srv[p].time <= lastTime \/ srv[p].time <= saved
             PROVE  disk'[p] = srv[p].hash
  BY DEF AppliedUpToLastTime
<1>1. /\ srv[p].time \in Nat /\ saved \in Nat /\ lastTime \in Nat /\ SyncTime \in Nat
  BY SyncTimeType DEF TypeOK
<1>2. srv[p].time <= lastTime /\ srv[p].time <= SyncTime
  BY <1>1
<1>3. CASE disk'[p] = disk[p] /\ (p \in edited' <=> p \in edited)
  BY <1>2, <1>3 DEF AppliedUpToLastTime
<1>4. CASE ~(disk'[p] = disk[p] /\ (p \in edited' <=> p \in edited))
  BY <1>2, <1>4 DEF VaultStep, Reached
<1> QED
  BY <1>3, <1>4

\* A step of the session's loop, as the lemmas above want it.
LEMMA LoopStep ==
    ASSUME TypeOK, TypeOK', SessionInv, SessionInv', OnTheirWay, EchoTruthful,
           ClientReceives \/ ReceiveNeedPushOfVanishing
    PROVE  LET m == Head(toClient)
           IN /\ phase = "syncing" /\ toClient # <<>> /\ toClient' = Tail(toClient)
              /\ UNCHANGED <<srv, owed, onPage, saved>>
              /\ clock' = clock \/ clock' = clock + 1
              /\ VaultStep(m)
              /\ m.type \in DetailTypes => m.path \in pending' \/ Reached(m)
              /\ \A q \in pending \ pending' : m.type = "NoteModifyAck" /\ q = m.path
<1> DEFINE m == Head(toClient)
<1>1. /\ phase = "syncing" /\ toClient # <<>> /\ toClient' = Tail(toClient)
      /\ UNCHANGED <<srv, owed, onPage, saved>>
  BY DEF ClientReceives, ReceiveModify, ReceiveDelete, ReceiveMtime, ReceiveRename,
         ReceivePage, ReceiveNeedPush, ReceiveModifyAck, ReceiveEnd, Receive, Take,
         serverVars, ReceiveNeedPushOfVanishing
<1>2. clock' = clock \/ clock' = clock + 1
  BY DEF ClientReceives, ReceiveModify, ReceiveDelete, ReceiveMtime, ReceiveRename,
         ReceivePage, ReceiveNeedPush, ReceiveModifyAck, ReceiveEnd, Receive, Take,
         serverVars, ReceiveNeedPushOfVanishing, Tick
<1>3. m \in Msgs(toClient) /\ m \in ServerMsgs
  BY <1>1, MsgsTail, HeadType DEF TypeOK
<1>4. m.type # "NoteSyncRename" /\ (m.type \in DetailTypes => m \in Details /\ Current(m))
  BY <1>1, <1>3, HeadType DEF OnTheirWay
<1>5. CASE ReceiveModify \/ ReceiveDelete \/ ReceiveMtime
  <2>1. /\ m.type \in DetailTypes /\ pending' = pending
        /\ \/ m.type = "NoteSyncModify" /\ ApplyModify(m)
           \/ m.type = "NoteSyncDelete" /\ ApplyDelete(m)
           \/ m.type = "NoteSyncMtime" /\ ApplyMtime(m)
    BY <1>5 DEF ReceiveModify, ReceiveDelete, ReceiveMtime, Receive, Take, DetailTypes
  <2>2. VaultStep(m) /\ Reached(m)
    BY <1>4, <2>1, DetailApplied DEF VaultStep, Reached
  <2> QED
    BY <1>1, <1>2, <2>1, <2>2
<1>6. CASE ReceivePage \/ ReceiveModifyAck \/ ReceiveEnd
  <2>1. /\ m.type \notin DetailTypes /\ UNCHANGED <<disk, echo, edited>>
        /\ \A q \in pending \ pending' : m.type = "NoteModifyAck" /\ q = m.path
    BY <1>6 DEF ReceivePage, ReceiveModifyAck, ReceiveEnd, Receive, Take, DetailTypes,
                engineVars
  <2>2. VaultStep(m)
    BY <2>1 DEF VaultStep, EchoTruthful
  <2> QED
    BY <1>1, <1>2, <2>1, <2>2
<1>7. CASE ReceiveRename
  BY <1>4, <1>7 DEF ReceiveRename, Receive, Take
<1>8. CASE ReceiveNeedPush
  <2>1. /\ m.type = "NoteSyncNeedPush" /\ m.type \in DetailTypes
        /\ UNCHANGED <<disk, edited>> /\ echo' = PushModifyEcho(m.path, TRUE)
        /\ pending' = IF disk[m.path] # Absent THEN pending \cup {m.path} ELSE pending
    BY <1>8 DEF ReceiveNeedPush, Receive, Take, DetailTypes
  <2>2. m.path \in Paths
    BY <1>4, <2>1 DEF Details
  <2>3. EchoTruthful'
    BY <2>1, <2>2, PushTruthful
  <2>4. m.path \in pending' \/ Reached(m)
    BY <1>4, <2>1 DEF Current, Reached
  <2>5. VaultStep(m)
    BY <2>1, <2>3 DEF VaultStep
  <2> QED
    BY <1>1, <1>2, <2>1, <2>4, <2>5
<1>9. CASE ReceiveNeedPushOfVanishing
  <2>1. /\ m.type \in DetailTypes /\ pending' = pending \cup {m.path}
        /\ disk' = [disk EXCEPT ![m.path] = Absent] /\ echo' = echo
        /\ edited' = edited \cup {m.path}
    BY <1>9 DEF ReceiveNeedPushOfVanishing, Take, DetailTypes
  <2>2. VaultStep(m)
    BY <2>1 DEF VaultStep, Reached, EchoTruthful, TypeOK, EngineTypeOK
  <2> QED
    BY <1>1, <1>2, <2>1, <2>2
<1> QED
  BY <1>5, <1>6, <1>7, <1>8, <1>9 DEF ClientReceives

\* The time of the running sync does not change when its messages are taken.
LEMMA SameSyncTime ==
    ASSUME TypeOK, SessionInv, SessionInv',
           ClientReceives \/ ReceiveNeedPushOfVanishing
    PROVE  SyncTime' = SyncTime /\ pendingLast' = SyncTime
<1>1. ~Answering'
  BY ClientLeaves DEF SessionInv
<1>2. toClient # <<>> /\ phase = "syncing"
  BY DEF ClientReceives, ReceiveModify, ReceiveDelete, ReceiveMtime, ReceiveRename,
         ReceivePage, ReceiveNeedPush, ReceiveModifyAck, ReceiveEnd, Receive, Take,
         ReceiveNeedPushOfVanishing
<1>3. CASE ReceiveEnd
  <2>1. Head(toClient).type = "NoteSyncEnd" /\ pendingLast' = Head(toClient).last
    BY <1>3 DEF ReceiveEnd, Receive, Take
  <2>2. Answering
    <3>1. Head(toClient) = toClient[1] /\ Len(toClient) \in Nat \ {0}
      BY <1>2, TailShift DEF TypeOK
    <3> QED
      BY <2>1, <3>1 DEF Answering
  <2> QED
    BY <1>1, <2>1, <2>2, AnswerAlone DEF SyncTime
<1>4. CASE ~ReceiveEnd
  <2>1. Head(toClient).type # "NoteSyncEnd" /\ pendingLast' = pendingLast
    BY <1>4 DEF ClientReceives, ReceiveModify, ReceiveDelete, ReceiveMtime,
           ReceiveRename, ReceivePage, ReceiveNeedPush, ReceiveModifyAck, Receive,
           Take, ReceiveNeedPushOfVanishing, Settle
  <2>2. ~Answering
    BY <1>2, <2>1, LoopBusy
  <2> QED
    BY <1>1, <2>1, <2>2 DEF SyncTime
<1> QED
  BY <1>3, <1>4

\* What the loop does to the last time: nothing, or it returns and the time of
\* the sync is taken over.
LEMMA LastTimeStep ==
    ASSUME TypeOK, SessionInv, SessionInv',
           ClientReceives \/ ReceiveNeedPushOfVanishing
    PROVE  /\ ~Asking /\ ~Asking'
           /\ \/ phase' = "syncing" /\ lastTime' = lastTime
              \/ /\ phase' = "others" /\ complete'
                 /\ lastTime' = IF pendingLast' > 0 THEN pendingLast' ELSE lastTime
<1>1. phase = "syncing" /\ ~Asking /\ gotEnd'
  BY ClientLeaves
<1>2. ~Asking'
  BY <1>1 DEF SessionInv
<1>3. \/ phase' = "syncing" /\ lastTime' = lastTime
      \/ /\ phase' = "others" /\ complete'
         /\ lastTime' = IF pendingLast' > 0 THEN pendingLast' ELSE lastTime
  BY <1>1 DEF ClientReceives, ReceiveModify, ReceiveDelete, ReceiveMtime, ReceiveRename,
         ReceivePage, ReceiveNeedPush, ReceiveModifyAck, ReceiveEnd,
         ReceiveNeedPushOfVanishing, Settle, ReturnIfComplete
<1> QED
  BY <1>1, <1>2, <1>3

\* Every step of process_sync_responses preserves the invariant; the one with
\* which the session returns has nothing outstanding, so everything up to the
\* time it commits is in the vault.
LEMMA ClientTimes ==
    ASSUME TypeOK, TypeOK', SessionInv, SessionInv', AppliedInv,
           ClientReceives \/ ReceiveNeedPushOfVanishing
    PROVE  AppliedInv'
<1> DEFINE m == Head(toClient)
<1>1. TimesOrdered /\ OnTheirWay /\ Handled /\ EchoTruthful /\ AppliedUpToLastTime
  BY DEF AppliedInv
<1>2. /\ phase = "syncing" /\ toClient # <<>> /\ toClient' = Tail(toClient)
      /\ UNCHANGED <<srv, owed, onPage, saved>>
      /\ clock' = clock \/ clock' = clock + 1
      /\ VaultStep(m)
      /\ m.type \in DetailTypes => m.path \in pending' \/ Reached(m)
      /\ \A q \in pending \ pending' : m.type = "NoteModifyAck" /\ q = m.path
  BY <1>1, LoopStep
<1>3. SyncTime' = SyncTime /\ pendingLast' = SyncTime
  BY SameSyncTime
<1>4. /\ ~Asking /\ ~Asking'
      /\ \/ phase' = "syncing" /\ lastTime' = lastTime
         \/ /\ phase' = "others" /\ complete'
            /\ lastTime' = IF pendingLast' > 0 THEN pendingLast' ELSE lastTime
  BY LastTimeStep
<1>5. /\ \A p \in Paths : srv[p].time \in Nat
      /\ saved \in Nat /\ lastTime \in Nat /\ clock \in Nat /\ SyncTime \in Nat
  BY SyncTimeType DEF TypeOK
<1>6. /\ \A p \in Paths : srv[p].time <= clock
      /\ saved <= lastTime /\ lastTime <= clock /\ SyncTime <= clock
      /\ lastTime <= SyncTime
  BY <1>1, <1>2, <1>4 DEF TimesOrdered
<1>7. lastTime' = lastTime \/ lastTime' = SyncTime
  BY <1>3, <1>4
<1>8. TimesOrdered'
  <2>1. saved <= lastTime' /\ lastTime' <= clock' /\ SyncTime <= clock'
        /\ lastTime' <= SyncTime
    BY <1>2, <1>5, <1>6, <1>7
  <2>2. \A p \in Paths : srv[p].time <= clock'
    BY <1>2, <1>5, <1>6
  <2> QED
    BY <1>2, <1>3, <2>1, <2>2 DEF TimesOrdered
<1>9. OnTheirWay'
  BY <1>1, <1>2, <1>3, RestOnTheirWay
<1>10. HandledNow'
  BY <1>1, <1>2, <1>3, <1>4, MoreHandled DEF Handled
<1>11. AppliedUpToLastTime'
  <2>1. CASE lastTime' = lastTime
    BY <1>1, <1>2, <1>6, <2>1, AppliedKept
  <2>2. CASE lastTime' # lastTime
    <3>1. phase' = "others" /\ complete'
      BY <1>4, <2>2
    <3>2. Outstanding' = {}
      BY <3>1 DEF SessionInv, CompleteMeansHandled
    <3>3. \A p \in Paths \ edited' : srv[p].time <= SyncTime => disk'[p] = srv[p].hash
      BY <1>2, <1>3, <1>10, <3>2 DEF HandledNow
    <3>4. saved' = saved /\ saved <= SyncTime /\ lastTime' = SyncTime
      BY <1>2, <1>5, <1>6, <1>7, <2>2
    <3>5. \A p \in Paths : srv[p].time <= saved => srv[p].time <= SyncTime
      BY <1>5, <3>4
    <3> QED
      BY <1>2, <3>3, <3>4, <3>5 DEF AppliedUpToLastTime
  <2> QED
    BY <2>1, <2>2
<1> QED
  BY <1>2, <1>4, <1>8, <1>9, <1>10, <1>11 DEF AppliedInv, AskedTruth, Handled, VaultStep
---------------------------------------------------------------------------
(* The other steps.                                                        *)

\* Nothing is on its way on a connection that is gone or new.
LEMMA NothingOnTheWay ==
    ASSUME toClient' = <<>>, owed' = {}, onPage' = {}
    PROVE  OnTheirWay' /\ ~Answering'
  BY DEF OnTheirWay, Msgs, Answering

\* A message is taken outside the session's loop: the last time stays.
LEMMA TakenOutside ==
    ASSUME TypeOK, TypeOK', SessionInv, SessionInv', AppliedInv, toClient # <<>>,
           toClient' = Tail(toClient), VaultStep(Head(toClient)),
           phase' \in {"others", "live"}, phase # "idle", ~Asking, ~Answering,
           UNCHANGED <<srv, owed, onPage, clock, pendingLast, lastTime, saved>>
    PROVE  AppliedInv'
<1>1. TimesOrdered /\ OnTheirWay /\ EchoTruthful /\ AppliedUpToLastTime
  BY DEF AppliedInv
<1>2. ~Asking' /\ ~Answering'
  BY DEF SessionInv
<1>3. SyncTime' = SyncTime
  BY <1>2 DEF SyncTime
<1>4. TimesOrdered'
  BY <1>1, <1>3 DEF TimesOrdered
<1>5. OnTheirWay'
  BY <1>1, <1>3, RestOnTheirWay
<1>6. AppliedUpToLastTime'
  BY <1>1, AppliedKept DEF TimesOrdered
<1> QED
  BY <1>2, <1>4, <1>5, <1>6 DEF AppliedInv, AskedTruth, Handled, VaultStep

\* The steps of the client outside the session's loop.
LEMMA OutsideTimes ==
    ASSUME TypeOK, TypeOK', SessionInv, SessionInv', AppliedInv,
           \/ SyncIncremental \/ HandlerFails
           \/ IgnoreNoteMessage \/ CommitState \/ LiveReceive \/ LiveHandlerFails
           \/ Disconnect \/ Restart
    PROVE  AppliedInv'
<1> DEFINE m == Head(toClient)
<1>0. TimesOrdered /\ OnTheirWay /\ EchoTruthful /\ AppliedUpToLastTime
  BY DEF AppliedInv
<1>t. /\ \A p \in Paths : srv[p].time \in Nat
      /\ saved \in Nat /\ lastTime \in Nat /\ clock \in Nat
  BY DEF TypeOK
<1>n. toClient # <<>> => m \in ServerMsgs /\ m \in Msgs(toClient)
  BY MsgsTail, HeadType DEF TypeOK
<1>1. CASE SyncIncremental
  <2>1. /\ phase' = "syncing" /\ toClient' = <<>> /\ owed' = {} /\ onPage' = {}
        /\ pendingLast' = 0
        /\ UNCHANGED <<disk, echo, edited, srv, clock, lastTime, saved>>
        /\ toServer' = <<[type |-> "NoteSync", last |-> lastTime, notes |-> LocalNotes]>>
    BY <1>1 DEF SyncIncremental, ResetCounters, SessionInv, serverVars, engineVars,
                timeVars
  <2>2. OnTheirWay' /\ ~Answering'
    BY <2>1, NothingOnTheWay
  <2>3. /\ Asking' /\ toServer'[1].last = lastTime
        /\ \A p \in Paths : toServer'[1].notes[p] \in {Absent, disk[p]}
    BY <2>1 DEF Asking, LocalNotes
  <2>4. TimesOrdered'
    BY <1>0, <1>t, <2>1, <2>2, <2>3 DEF TimesOrdered, SyncTime
  <2>5. EchoTruthful' /\ AppliedUpToLastTime'
    BY <1>0, <2>1 DEF EchoTruthful, AppliedUpToLastTime
  <2> QED
    BY <2>1, <2>2, <2>3, <2>4, <2>5 DEF AppliedInv, AskedTruth, Handled
<1>2. CASE HandlerFails
  <2>1. /\ phase = "syncing" /\ toClient # <<>> /\ m.type \in WriteTypes
        /\ toClient' = Tail(toClient) /\ phase' = "others" /\ echo' = FailedEcho(m)
        /\ UNCHANGED <<srv, owed, onPage, clock, pendingLast, lastTime, saved, disk>>
        /\ edited' = edited \cup Mislaid(m)
    BY <1>2 DEF HandlerFails, Receive, Take, serverVars, sessionVars
  <2>2. m.type # "NoteSyncRename" /\ edited' = edited
    BY <1>0, <1>n, <2>1 DEF OnTheirWay, Mislaid
  <2>3. EchoTruthful'
    BY <1>0, <2>1, <2>2, FailedTruthful
  <2>4. VaultStep(m)
    BY <2>1, <2>2, <2>3 DEF VaultStep
  <2>5. ~Asking /\ ~Answering
    BY <2>1, LoopBusy DEF WriteTypes
  <2> QED
    BY <2>1, <2>4, <2>5, TakenOutside
<1>3. CASE IgnoreNoteMessage \/ LiveHandlerFails
  <2>1. /\ phase \in {"others", "live"} /\ phase' = phase /\ toClient # <<>>
        /\ toClient' = Tail(toClient)
        /\ echo' = echo \/ (m.type \in WriteTypes /\ echo' = FailedEcho(m))
        /\ UNCHANGED <<srv, owed, onPage, clock, pendingLast, lastTime, saved, disk>>
        /\ edited' = edited \/ edited' = edited \cup Mislaid(m)
    BY <1>3 DEF IgnoreNoteMessage, LiveHandlerFails, serverVars, sessionVars, engineVars,
                timeVars, ghostVars
  <2>2. m.type # "NoteSyncRename" /\ edited' = edited
    BY <1>0, <1>n, <2>1 DEF OnTheirWay, Mislaid
  <2>3. EchoTruthful'
    <3>1. CASE echo' = echo
      BY <1>0, <2>1, <3>1 DEF EchoTruthful
    <3>2. CASE m.type \in WriteTypes /\ echo' = FailedEcho(m)
      BY <1>0, <2>1, <2>2, <3>2, FailedTruthful
    <3> QED
      BY <2>1, <3>1, <3>2
  <2>4. VaultStep(m)
    BY <2>1, <2>2, <2>3 DEF VaultStep
  <2>5. ~Asking /\ ~Answering
    BY <2>1 DEF SessionInv
  <2> QED
    BY <2>1, <2>4, <2>5, TakenOutside
<1>4. CASE LiveReceive
  <2>1. /\ phase = "live" /\ phase' = phase /\ toClient # <<>>
        /\ toClient' = Tail(toClient)
        /\ UNCHANGED <<srv, owed, onPage, clock, pendingLast, lastTime, saved>>
    BY <1>4 DEF LiveReceive, serverVars, sessionVars, timeVars
  <2>2. m.type # "NoteSyncRename"
    BY <1>0, <1>n, <2>1 DEF OnTheirWay
  <2>3. ~Asking /\ ~Answering
    BY <2>1 DEF SessionInv
  <2>4. \/ m.type = "NoteSyncModify" /\ ApplyModify(m)
        \/ m.type = "NoteSyncDelete" /\ ApplyDelete(m)
        \/ m.type = "NoteSyncMtime" /\ ApplyMtime(m)
        \/ UNCHANGED <<disk, echo, edited>>
    BY <1>4, <2>2 DEF LiveReceive, engineVars
  <2>5. CASE UNCHANGED <<disk, echo, edited>>
    <3>1. VaultStep(m)
      BY <1>0, <2>5 DEF VaultStep, EchoTruthful
    <3> QED
      BY <2>1, <2>3, <3>1, TakenOutside
  <2>6. CASE ~UNCHANGED <<disk, echo, edited>>
    <3>1. m \in Details /\ Current(m) /\ m.type \in DetailTypes
      BY <1>0, <1>n, <2>1, <2>4, <2>6, HeadType DEF OnTheirWay, DetailTypes
    <3>2. VaultStep(m)
      BY <1>0, <2>4, <2>6, <3>1, DetailApplied DEF VaultStep, Reached
    <3> QED
      BY <2>1, <2>3, <3>2, TakenOutside
  <2> QED
    BY <2>5, <2>6
<1>5. CASE CommitState
  <2>1. /\ phase = "others" /\ phase' = "live" /\ saved' = lastTime
        /\ UNCHANGED <<disk, echo, edited, toServer, toClient, srv, owed, onPage, clock,
                       pendingLast, lastTime>>
    BY <1>5 DEF CommitState, sessionVars, serverVars, engineVars, ghostVars
  <2>2. ~Asking /\ ~Answering /\ ~Asking' /\ ~Answering'
    BY <2>1 DEF SessionInv
  <2>3. SyncTime' = SyncTime
    BY <2>1, <2>2 DEF SyncTime
  <2>4. TimesOrdered'
    BY <1>0, <1>t, <2>1, <2>2, <2>3 DEF TimesOrdered
  <2>5. OnTheirWay'
    BY <1>0, <2>1, <2>3 DEF OnTheirWay, Current
  <2>6. EchoTruthful' /\ AppliedUpToLastTime'
    BY <1>0, <2>1 DEF EchoTruthful, AppliedUpToLastTime
  <2> QED
    BY <2>1, <2>2, <2>4, <2>5, <2>6 DEF AppliedInv, AskedTruth, Handled
<1>6. CASE Disconnect \/ Restart
  <2>1. /\ phase' = "idle" /\ toServer' = <<>> /\ toClient' = <<>>
        /\ owed' = {} /\ onPage' = {}
        /\ UNCHANGED <<disk, edited, srv, clock, pendingLast>>
        /\ \/ saved' = lastTime /\ lastTime' = lastTime /\ echo' = echo
           \/ saved' = saved /\ lastTime' = saved /\ echo' = [p \in Paths |-> NoEntry]
    BY <1>6 DEF Disconnect, Restart, ConnectionLost, sessionVars, engineVars, ghostVars
  <2>2. OnTheirWay' /\ ~Answering'
    BY <2>1, NothingOnTheWay
  <2>3. ~Asking'
    BY <2>1 DEF Asking
  <2>4. TimesOrdered'
    BY <1>0, <1>t, <2>1, <2>2 DEF TimesOrdered, SyncTime
  <2>5. EchoTruthful'
    BY <1>0, <2>1, HashesAssumption DEF EchoTruthful
  <2>6. AppliedUpToLastTime'
    BY <1>0, <2>1 DEF AppliedUpToLastTime
  <2> QED
    BY <2>1, <2>2, <2>3, <2>4, <2>5, <2>6 DEF AppliedInv, AskedTruth, Handled
<1> QED
  BY <1>1, <1>2, <1>3, <1>4, <1>5, <1>6

\* Changes on the server are newer than the running sync and than every sync
\* before it, and leave what those have settled alone.
LEMMA ServerNewer ==
    ASSUME TypeOK, TypeOK', SessionInv, AppliedInv, clock' = clock + 1,
           \A q \in Paths : srv'[q] = srv[q] \/ srv'[q].time = clock + 1,
           UNCHANGED <<disk, echo, phase, lastTime, saved, pendingLast, owed, onPage>>,
           SyncTime' = SyncTime, Asking' <=> Asking, Outstanding' = Outstanding,
           Asking => UNCHANGED <<toServer, edited>>, EchoTruthful',
           \A q \in Paths : (q \in edited' <=> q \in edited) \/ srv'[q].time = clock + 1,
           \A m \in Msgs(toClient') :
               \/ m \in Msgs(toClient)
               \/ m.type = "NoteModifyAck" /\ srv'[m.path].time = clock + 1
    PROVE  AppliedInv'
<1>0. TimesOrdered /\ OnTheirWay /\ Handled /\ AppliedUpToLastTime /\ AskedTruth
  BY DEF AppliedInv
<1>1. /\ \A q \in Paths : srv[q].time \in Nat
      /\ saved \in Nat /\ lastTime \in Nat /\ clock \in Nat /\ SyncTime \in Nat
      /\ pendingLast \in Nat
  BY SyncTimeType DEF TypeOK
<1>2. /\ ~(clock + 1 <= SyncTime) /\ ~(clock + 1 <= lastTime) /\ ~(clock + 1 <= saved)
      /\ clock + 1 > SyncTime
  BY <1>0, <1>1 DEF TimesOrdered
<1>3. TimesOrdered'
  BY <1>0, <1>1 DEF TimesOrdered
<1>4. ASSUME NEW d, d.path \in Paths, Current(d) PROVE Current(d)'
  <2>1. CASE srv'[d.path].time = clock + 1
    BY <1>2, <2>1 DEF Current
  <2>2. CASE srv'[d.path].time # clock + 1
    <3>1. srv'[d.path] = srv[d.path] /\ (d.path \in edited' <=> d.path \in edited)
      BY <1>4, <2>2
    <3> QED
      BY <1>4, <3>1 DEF Current
  <2> QED
    BY <2>1, <2>2
<1>5. OnTheirWay'
  <2>1. ASSUME NEW m \in Msgs(toClient')
        PROVE  /\ m.type # "NoteSyncRename"
               /\ m.type = "NoteModifyAck" => srv'[m.path].time > SyncTime
               /\ m.type \in DetailTypes => Current(m)'
    <3>1. CASE m.type = "NoteModifyAck" /\ srv'[m.path].time = clock + 1
      BY <1>2, <3>1 DEF DetailTypes
    <3>2. CASE m \in Msgs(toClient)
      <4>1. m \in ServerMsgs
        <5>1. toClient \in Seq(ServerMsgs)
          BY DEF TypeOK
        <5> QED
          BY <3>2, <5>1 DEF Msgs
      <4>2. /\ m.type \in DetailTypes => m.path \in Paths
            /\ m.type = "NoteModifyAck" => m.path \in Paths
        BY <4>1 DEF ServerMsgs, Details, DetailTypes
      <4>3. m.type = "NoteModifyAck" => srv'[m.path].time > SyncTime
        BY <1>0, <1>2, <3>2, <4>2 DEF OnTheirWay
      <4> QED
        BY <1>0, <1>4, <3>2, <4>2, <4>3 DEF OnTheirWay
    <3> QED
      BY <3>1, <3>2
  <2>2. ASSUME NEW d \in owed \cup onPage PROVE Current(d)'
    BY <1>0, <1>4 DEF OnTheirWay, TypeOK, Details
  <2> QED
    BY <2>1, <2>2 DEF OnTheirWay
<1>6. Handled'
  BY <1>0, <1>2 DEF Handled, HandledNow
<1>7. AppliedUpToLastTime'
  BY <1>0, <1>2 DEF AppliedUpToLastTime
<1>8. AskedTruth'
  BY <1>0 DEF AskedTruth
<1> QED
  BY <1>3, <1>5, <1>6, <1>7, <1>8 DEF AppliedInv

\* The server's answer: what it does not name is as the client has it.
LEMMA AnswerTimes ==
    ASSUME TypeOK, TypeOK', SessionInv, SessionInv', AppliedInv, ServerAnswersSync
    PROVE  AppliedInv'
<1> DEFINE m == Head(toServer)
<1>0. TimesOrdered /\ EchoTruthful /\ AppliedUpToLastTime /\ AskedTruth
  BY DEF AppliedInv
<1>1. /\ toServer # <<>> /\ m.type = "NoteSync" /\ toServer' = Tail(toServer)
      /\ UNCHANGED <<disk, echo, edited, phase, lastTime, saved, pendingLast, srv,
                     clock, onPage>>
  BY DEF ServerAnswersSync, FromClient, engineVars, timeVars, sessionVars, ghostVars
<1>2. toServer \in Seq(ClientMsgs) /\ toClient \in Seq(ServerMsgs)
  BY DEF TypeOK
<1>3. Len(toServer) \in Nat \ {0} /\ m = toServer[1] /\ Len(toClient) \in Nat
  BY <1>1, <1>2
<1>4. Asking
  BY <1>1, <1>3 DEF Asking
<1>5. phase = "syncing" /\ Len(toServer) + Len(toClient) = 1 /\ onPage = {}
  BY <1>4 DEF SessionInv
<1>6. Len(toServer) = 1 /\ Len(toClient) = 0
  <2>1. \A a \in Nat \ {0}, b \in Nat : a + b = 1 => a = 1 /\ b = 0
    OBVIOUS
  <2> QED
    BY <1>3, <1>5, <2>1, ZenonT(30)
<1>7. toServer' = <<>> /\ toClient = <<>>
  BY <1>1, <1>2, <1>6
<1>8. PICK verdict \in [Paths -> DetailTypes \cup {"InSync"}] :
        LET stale == { p \in Paths : verdict[p] # "InSync" }
        IN /\ \A p \in Paths : verdict[p] \in Verdicts(p, m.last, m.notes[p])
           /\ owed' = { Detail(verdict[p], p) : p \in stale }
           /\ toClient' = Append(toClient, [type |-> "NoteSyncEnd",
                                            count |-> Cardinality(stale), last |-> clock])
  BY DEF ServerAnswersSync
<1> DEFINE stale == { p \in Paths : verdict[p] # "InSync" }
           end == [type |-> "NoteSyncEnd", count |-> Cardinality(stale), last |-> clock]
<1>9. toClient' = <<end>> /\ owed' = { Detail(verdict[p], p) : p \in stale }
  BY <1>7, <1>8
<1>10. end.type = "NoteSyncEnd" /\ end.last = clock
  OBVIOUS
<1> HIDE DEF end
<1>11. Answering' /\ SyncTime' = clock /\ ~Asking' /\ Msgs(toClient') = {end}
  BY <1>7, <1>9, <1>10 DEF Answering, SyncTime, Asking, Msgs
<1>12. m.last = lastTime /\ \A p \in Paths \ edited : m.notes[p] \in {Absent, disk[p]}
  BY <1>0, <1>3, <1>4 DEF AskedTruth
<1>13. /\ \A p \in Paths : srv[p].time \in Nat
       /\ saved \in Nat /\ lastTime \in Nat /\ clock \in Nat /\ pendingLast \in Nat
  BY DEF TypeOK
<1>14. ASSUME NEW p \in Paths
       PROVE  /\ verdict[p] = "NoteSyncDelete" => srv[p].hash = Absent
              /\ verdict[p] = "NoteSyncMtime" =>
                    m.notes[p] # Absent /\ m.notes[p] = srv[p].hash
              /\ verdict[p] = "NoteSyncNeedPush" => m.notes[p] # Absent
              /\ verdict[p] = "InSync" =>
                    \/ m.notes[p] # Absent /\ m.notes[p] = srv[p].hash
                    \/ srv[p].time <= lastTime
  <2>1. verdict[p] \in Verdicts(p, m.last, m.notes[p])
    BY <1>8
  <2>2. ~(srv[p].time > lastTime) => srv[p].time <= lastTime
    BY <1>13
  <2> HIDE DEF m
  <2>3. CASE m.notes[p] # Absent /\ m.notes[p] = srv[p].hash
    BY <2>1, <2>3 DEF Verdicts
  <2>4. CASE ~(m.notes[p] # Absent /\ m.notes[p] = srv[p].hash) /\ srv[p].time > m.last
    <3>1. verdict[p] \in (IF m.notes[p] # Absent THEN {"NoteSyncNeedPush"} ELSE {})
             \cup (IF srv[p].hash = Absent THEN {"NoteSyncDelete"} ELSE {"NoteSyncModify"})
      BY <2>1, <2>4 DEF Verdicts
    <3> QED
      BY <3>1
  <2>5. CASE ~(m.notes[p] # Absent /\ m.notes[p] = srv[p].hash) /\ ~(srv[p].time > m.last)
    <3>1. verdict[p] \in (IF m.notes[p] # Absent THEN {"NoteSyncNeedPush"} ELSE {})
             \cup (IF m.notes[p] = Absent THEN {"InSync"} ELSE {})
      BY <2>1, <2>5 DEF Verdicts
    <3> QED
      BY <1>12, <2>2, <2>5, <3>1 DEF m
  <2> QED
    BY <2>3, <2>4, <2>5
<1>15. OnTheirWay'
  <2>2. ASSUME NEW d \in owed' PROVE Current(d)'
    <3>1. PICK p \in stale : d = Detail(verdict[p], p)
      BY <1>9
    <3>2. d.type = verdict[p] /\ d.path = p /\ d.hash = srv[p].hash
      BY <3>1 DEF Detail
    <3>3. /\ d.type = "NoteSyncDelete" => srv[p].hash = Absent
          /\ d.type = "NoteSyncMtime" /\ p \notin edited => disk[p] = srv[p].hash
          /\ d.type = "NoteSyncNeedPush" /\ p \notin edited => disk[p] # Absent
      BY <1>12, <1>14, <3>2
    <3> QED
      BY <1>1, <3>2, <3>3 DEF Current
  <2>3. onPage' = {}
    BY <1>1, <1>5
  <2> QED
    BY <1>10, <1>11, <2>2, <2>3 DEF OnTheirWay, DetailTypes
<1>16. HandledNow'
  <2> SUFFICES ASSUME NEW p \in Paths, p \notin Outstanding', p \notin edited'
               PROVE  disk'[p] = srv'[p].hash
    BY DEF HandledNow
  <2>1. verdict[p] = "InSync"
    <3>1. SUFFICES ASSUME p \in stale PROVE FALSE
      OBVIOUS
    <3>2. Detail(verdict[p], p) \in owed' /\ Detail(verdict[p], p).path = p
      BY <1>9, <3>1 DEF Detail
    <3> QED
      BY <3>2 DEF Outstanding, DetailPaths
  <2>2. CASE m.notes[p] # Absent /\ m.notes[p] = srv[p].hash
    BY <1>1, <1>12, <2>2
  <2>3. CASE srv[p].time <= lastTime
    BY <1>0, <1>1, <2>3 DEF AppliedUpToLastTime
  <2> QED
    BY <1>14, <2>1, <2>2, <2>3
<1>17. TimesOrdered'
  BY <1>0, <1>1, <1>11, <1>13 DEF TimesOrdered
<1>18. EchoTruthful' /\ AppliedUpToLastTime'
  BY <1>0, <1>1 DEF EchoTruthful, AppliedUpToLastTime
<1> QED
  BY <1>11, <1>15, <1>16, <1>17, <1>18 DEF AppliedInv, AskedTruth, Handled

\* A step of the server that moves details, and changes nothing that they tell.
LEMMA DetailsMove ==
    ASSUME TypeOK, SessionInv, AppliedInv, ~Asking, ~Asking',
           UNCHANGED <<disk, echo, edited, srv, clock, phase, lastTime, saved,
                       pendingLast>>,
           SyncTime' = SyncTime, Outstanding' = Outstanding,
           owed' \cup onPage' \subseteq owed \cup onPage,
           \A m \in Msgs(toClient') : m \in Msgs(toClient) \cup owed \cup onPage
                                      \/ m.type = "NoteSyncPage"
    PROVE  AppliedInv'
<1>1. TimesOrdered /\ OnTheirWay /\ Handled /\ EchoTruthful /\ AppliedUpToLastTime
  BY DEF AppliedInv
<1>2. \A d : Current(d) => Current(d)'
  BY DEF Current
<1>3. OnTheirWay'
  <2>1. ASSUME NEW m \in Msgs(toClient')
        PROVE  /\ m.type # "NoteSyncRename"
               /\ m.type = "NoteModifyAck" => srv[m.path].time > SyncTime
               /\ m.type \in DetailTypes => Current(m)
    <3>1. CASE m.type = "NoteSyncPage"
      BY <3>1 DEF DetailTypes
    <3>2. CASE m \in Msgs(toClient)
      BY <1>1, <3>2 DEF OnTheirWay
    <3>3. CASE m \in owed \cup onPage
      <4>1. m.type \in DetailTypes /\ Current(m)
        BY <1>1, <3>3 DEF OnTheirWay, TypeOK, Details
      <4> QED
        BY <4>1 DEF DetailTypes
    <3> QED
      BY <3>1, <3>2, <3>3
  <2> QED
    BY <1>1, <1>2, <2>1 DEF OnTheirWay
<1>4. TimesOrdered' /\ Handled' /\ EchoTruthful' /\ AppliedUpToLastTime'
  BY <1>1 DEF TimesOrdered, Handled, HandledNow, EchoTruthful, AppliedUpToLastTime
<1> QED
  BY <1>3, <1>4 DEF AppliedInv, AskedTruth

\* Every step of a server that broadcasts nothing preserves the invariant.
LEMMA ServerTimes ==
    ASSUME MaxBroadcasts = 0, TypeOK, TypeOK', SessionInv, SessionInv', AppliedInv,
           ServerSteps
    PROVE  AppliedInv'
<1>0. EchoTruthful /\ toClient \in Seq(ServerMsgs) /\ toServer \in Seq(ClientMsgs)
  BY DEF AppliedInv, TypeOK
<1>1. CASE ServerAnswersSync
  BY <1>1, AnswerTimes
<1>2. CASE ServerStartsPage \/ ServerSendsDetail \/ ServerAcceptsModify
  <2>1. /\ ~Asking /\ ~Answering /\ ~Asking' /\ ~Answering'
        /\ Outstanding' = Outstanding /\ UNCHANGED <<phase, sessionVars>>
    BY <1>2, ServerMoves
  <2>2. SyncTime' = SyncTime /\ pendingLast' = pendingLast
    BY <2>1 DEF SyncTime, sessionVars
  <2>3. CASE ServerStartsPage
    <3>1. /\ UNCHANGED <<disk, echo, edited, srv, clock, lastTime, saved>>
          /\ owed' \cup onPage' \subseteq owed \cup onPage
      BY <2>3 DEF ServerStartsPage, FromClient, engineVars, timeVars, ghostVars
    <3>2. \A m \in Msgs(toClient') : m \in Msgs(toClient) \/ m.type = "NoteSyncPage"
      <4>1. CASE Head(toServer).index = pageNo /\ owed # {}
        <5>1. PICK batch \in SUBSET owed :
                 toClient' = Append(toClient, [type |-> "NoteSyncPage",
                    index |-> pageNo + 1, total |-> Size(batch), last |-> batch = owed])
          BY <2>3, <4>1 DEF ServerStartsPage
        <5> DEFINE m == [type |-> "NoteSyncPage", index |-> pageNo + 1,
                         total |-> Size(batch), last |-> batch = owed]
        <5>2. m.type = "NoteSyncPage"
          OBVIOUS
        <5>3. pageNo + 1 \in Nat /\ batch \subseteq Details
          <6>1. pageNo \in Nat \cup {-1} /\ owed \subseteq Details
            BY DEF TypeOK
          <6>2. pageNo + 1 \in Nat
            BY <6>1
          <6> QED
            BY <6>1, <6>2
        <5>4. m \in ServerMsgs
          BY <5>3, SizeType, MessageTypes
        <5> HIDE DEF m
        <5>5. toClient' = Append(toClient, m)
          BY <5>1 DEF m
        <5>6. Msgs(toClient') = Msgs(toClient) \cup {m}
          BY <1>0, <5>4, <5>5, MsgsAppend
        <5> QED
          BY <5>2, <5>6
      <4>2. CASE ~(Head(toServer).index = pageNo /\ owed # {})
        <5>1. toClient' = toClient
          BY <2>3, <4>2 DEF ServerStartsPage
        <5> QED
          BY <5>1
      <4> QED
        BY <4>1, <4>2
    <3> QED
      BY <2>1, <2>2, <3>1, <3>2, DetailsMove
  <2>4. CASE ServerSendsDetail
    <3>1. PICK d \in onPage : onPage' = onPage \ {d} /\ toClient' = Append(toClient, d)
      BY <2>4 DEF ServerSendsDetail
    <3>2. UNCHANGED <<disk, echo, edited, srv, clock, lastTime, saved, owed>>
      BY <2>4 DEF ServerSendsDetail, engineVars, timeVars, ghostVars
    <3>3. d \in ServerMsgs
      BY MessageTypes DEF TypeOK
    <3>4. Msgs(toClient') = Msgs(toClient) \cup {d}
      BY <1>0, <3>1, <3>3, MsgsAppend
    <3> QED
      BY <2>1, <2>2, <3>1, <3>2, <3>4, DetailsMove
  <2>5. CASE ServerAcceptsModify
    <3> DEFINE p == Head(toServer).path
               h == Head(toServer).hash
               ack == [type |-> "NoteModifyAck", path |-> p]
    <3>1. p \in Paths /\ h \in Hashes
      <4>1. Head(toServer) \in ClientMsgs /\ Head(toServer).type = "NoteModify"
        BY <1>0, <2>5 DEF ServerAcceptsModify, FromClient
      <4> QED
        BY <4>1 DEF ClientMsgs
    <3>2. /\ srv' = [srv EXCEPT ![p] = [hash |-> h, time |-> clock + 1]]
          /\ clock' = clock + 1
          /\ edited' = IF disk[p] = h /\ echo[p] = h THEN edited \ {p} ELSE edited
          /\ UNCHANGED <<disk, echo, lastTime, saved, owed, onPage>>
      BY <2>5 DEF ServerAcceptsModify, FromClient, engineVars, timeVars
    <3>3. toClient' = Append(toClient, ack)
      <4>1. toClient' = Append(toClient, ack) \/ broadcasts < MaxBroadcasts
        BY <2>5 DEF ServerAcceptsModify, Broadcast
      <4>2. broadcasts \in Nat
        BY DEF TypeOK
      <4>3. ~(broadcasts < MaxBroadcasts)
        BY <4>2
      <4> QED
        BY <4>1, <4>3
    <3>4. ack \in ServerMsgs /\ ack.type = "NoteModifyAck" /\ ack.path = p
      BY <3>1, MessageTypes
    <3>5. \A q \in Paths : q # p => srv'[q] = srv[q] /\ (q \in edited' <=> q \in edited)
      BY <3>2 DEF TypeOK
    <3>6. srv'[p].time = clock + 1
      BY <3>1, <3>2 DEF TypeOK
    <3>7. EchoTruthful'
      <4>1. h # DeletedMarker
        BY <3>1, HashesAssumption
      <4> HIDE DEF h, p
      <4> QED
        BY <1>0, <3>1, <3>2, <4>1 DEF EchoTruthful
    <3> HIDE DEF ack, p, h
    <3>8. Msgs(toClient') = Msgs(toClient) \cup {ack}
      BY <1>0, <3>3, <3>4, MsgsAppend
    <3>9. \A m \in Msgs(toClient') :
             m \in Msgs(toClient) \/ (m.type = "NoteModifyAck" /\ srv'[m.path].time = clock + 1)
      BY <3>4, <3>6, <3>8
    <3>10. \A q \in Paths : srv'[q] = srv[q] \/ srv'[q].time = clock + 1
      BY <3>5, <3>6
    <3>11. \A q \in Paths : (q \in edited' <=> q \in edited) \/ srv'[q].time = clock + 1
      BY <3>5, <3>6
    <3> QED
      BY <2>1, <2>2, <3>2, <3>7, <3>9, <3>10, <3>11, ServerNewer
  <2> QED
    BY <1>2, <2>3, <2>4, <2>5
<1> QED
  BY <1>1, <1>2 DEF ServerSteps

\* A change by the user, of which the vault makes no secret.
LEMMA UserTimes ==
    ASSUME TypeOK, SessionInv, AppliedInv, NEW p \in Paths, NEW c, UserChanges(p, c)
    PROVE  AppliedInv'
<1>0. /\ TimesOrdered /\ AskedTruth /\ OnTheirWay /\ Handled
      /\ EchoTruthful /\ AppliedUpToLastTime
  BY DEF AppliedInv
<1>1. /\ clock' = clock + 1 /\ disk' = [disk EXCEPT ![p] = c] /\ edited' = edited \cup {p}
      /\ UNCHANGED <<echo, phase, pending, pendingLast, lastTime, saved, toServer, toClient,
                     srv, owed, onPage>>
  BY DEF UserChanges, Tick, sessionVars, timeVars
<1>2. /\ \A q \in Paths : srv[q].time \in Nat
      /\ lastTime \in Nat /\ clock \in Nat /\ SyncTime \in Nat /\ pendingLast \in Nat
  BY SyncTimeType DEF TypeOK
<1>3. /\ SyncTime' = SyncTime /\ (Asking' <=> Asking) /\ Outstanding' = Outstanding
  BY <1>1 DEF SyncTime, Asking, Answering, Outstanding
<1>4. \A q \in Paths \ edited' : q \notin edited /\ disk'[q] = disk[q]
  BY <1>1 DEF TypeOK, EngineTypeOK
<1>5. TimesOrdered'
  BY <1>0, <1>1, <1>2, <1>3 DEF TimesOrdered
<1>6. ASSUME NEW d, d.path \in Paths, Current(d) PROVE Current(d)'
  BY <1>1, <1>3, <1>4, <1>6 DEF Current
<1>7. OnTheirWay'
  <2>1. \A m \in Msgs(toClient) : m.type \in DetailTypes => m.path \in Paths
    <3>1. \A m \in Msgs(toClient) : m \in ServerMsgs
      BY DEF TypeOK, Msgs
    <3> QED
      BY <3>1 DEF ServerMsgs, Details, DetailTypes
  <2>2. \A d \in owed \cup onPage : d.path \in Paths
    BY DEF TypeOK, Details
  <2>3. \A m \in Msgs(toClient) : m.type \in DetailTypes => Current(m)'
    BY <1>0, <1>6, <2>1 DEF OnTheirWay
  <2>4. \A d \in owed \cup onPage : Current(d)'
    BY <1>0, <1>6, <2>2 DEF OnTheirWay
  <2> QED
    BY <1>0, <1>1, <1>3, <2>3, <2>4 DEF OnTheirWay
<1>8. Handled' /\ EchoTruthful' /\ AppliedUpToLastTime' /\ AskedTruth'
  BY <1>0, <1>1, <1>3, <1>4 DEF Handled, HandledNow, EchoTruthful, AppliedUpToLastTime,
                              AskedTruth
<1> QED
  BY <1>5, <1>7, <1>8 DEF AppliedInv

\* The user and the other devices.
LEMMA ChangesTimes ==
    ASSUME MaxBroadcasts = 0, TypeOK, TypeOK', SessionInv, AppliedInv, Changes
    PROVE  AppliedInv'
<1>1. ~(broadcasts < MaxBroadcasts)
  <2>1. broadcasts \in Nat
    BY DEF TypeOK
  <2> QED
    BY <2>1
<1>2. ASSUME NEW p \in Paths, NEW c \in Hashes \cup {Absent}, UserChanges(p, c)
      PROVE  AppliedInv'
  BY <1>2, UserTimes
<1>3. CASE \/ \E p \in Paths, c \in (Hashes \ NonText) \cup {Absent} : RemoteChanges(p, c)
           \/ \E old, new \in Paths : RemoteRenames(old, new)
  <2>1. /\ clock' = clock + 1
        /\ UNCHANGED <<disk, echo, edited, phase, pending, pendingLast, lastTime, saved,
                       toServer, toClient, owed, onPage>>
    BY <1>1, <1>3 DEF RemoteChanges, RemoteRenames, Tick, Broadcast, engineVars,
                      sessionVars, timeVars
  <2>4. \A q \in Paths : srv'[q] = srv[q] \/ srv'[q].time = clock + 1
    <3>1. srv \in [Paths -> [hash : Hashes \cup {Absent}, time : Nat]]
      BY DEF TypeOK
    <3>2. ASSUME NEW p \in Paths, NEW c, RemoteChanges(p, c)
          PROVE  \A q \in Paths : srv'[q] = srv[q] \/ srv'[q].time = clock + 1
      BY <3>1, <3>2 DEF RemoteChanges
    <3>3. ASSUME NEW old \in Paths, NEW new \in Paths, RemoteRenames(old, new)
          PROVE  \A q \in Paths : srv'[q] = srv[q] \/ srv'[q].time = clock + 1
      BY <3>1, <3>3 DEF RemoteRenames
    <3> QED
      BY <1>3, <3>2, <3>3
  <2>2. /\ SyncTime' = SyncTime /\ (Asking' <=> Asking) /\ Outstanding' = Outstanding
    BY <2>1 DEF SyncTime, Asking, Answering, Outstanding
  <2>3. EchoTruthful'
    BY <2>1 DEF AppliedInv, EchoTruthful
  <2> QED
    BY <2>1, <2>2, <2>3, <2>4, ServerNewer
<1> QED
  BY <1>2, <1>3 DEF Changes

\* It holds initially, when nothing has ever been synced.
LEMMA TimesInit == Init => AppliedInv
<1> SUFFICES ASSUME Init PROVE AppliedInv
  OBVIOUS
<1>1. ~Asking /\ ~Answering /\ Msgs(toClient) = {}
  BY DEF Init, Asking, Answering, Msgs
<1>2. \A p \in Paths : srv[p].time = 1 \/ (srv[p].time = 0 /\ srv[p].hash = Absent)
  <2> DEFINE First == { [hash |-> h, time |-> 1] : h \in Hashes \ NonText }
                      \cup { [hash |-> Absent, time |-> 0] }
  <2>1. ASSUME NEW s \in First PROVE s.time = 1 \/ (s.time = 0 /\ s.hash = Absent)
    <3>1. CASE s \in { [hash |-> h, time |-> 1] : h \in Hashes \ NonText }
      <4>1. PICK h \in Hashes \ NonText : s = [hash |-> h, time |-> 1]
        BY <3>1
      <4> QED
        BY <4>1
    <3>2. CASE s = [hash |-> Absent, time |-> 0]
      BY <3>2
    <3> QED
      BY <3>1, <3>2
  <2>2. \A p \in Paths : srv[p] \in First
    BY DEF Init
  <2> HIDE DEF First
  <2> QED
    BY <2>1, <2>2
<1>3. TimesOrdered
  BY <1>1, <1>2 DEF Init, TimesOrdered, SyncTime
<1>4. OnTheirWay /\ AskedTruth /\ Handled
  BY <1>1 DEF Init, OnTheirWay, AskedTruth, Handled
<1>5. EchoTruthful
  BY HashesAssumption DEF Init, EchoTruthful
<1>6. AppliedUpToLastTime
  BY <1>2 DEF Init, AppliedUpToLastTime
<1> QED
  BY <1>3, <1>4, <1>5, <1>6 DEF AppliedInv
---------------------------------------------------------------------------
\* The inductive invariant of the times, on top of that of the session.
LEMMA TimesInvariant ==
    ASSUME MaxBroadcasts = 0
    PROVE  Spec => []AppliedInv
<1>1. TypeOK /\ TypeOK' /\ SessionInv /\ SessionInv' /\ AppliedInv /\ [Next]_vars
        => AppliedInv'
  <2> SUFFICES ASSUME TypeOK, TypeOK', SessionInv, SessionInv', AppliedInv, [Next]_vars
               PROVE  AppliedInv'
    OBVIOUS
  <2>1. CASE UNCHANGED vars
    <3>1. UNCHANGED <<disk, echo, edited, phase, pending, pendingLast, lastTime, saved,
                      toServer, toClient, srv, clock, owed, onPage>>
      BY <2>1 DEF vars, engineVars, sessionVars, timeVars, serverVars, ghostVars
    <3> QED
      BY <3>1 DEF AppliedInv, TimesOrdered, AskedTruth, OnTheirWay, Current, Handled,
                  HandledNow, EchoTruthful, AppliedUpToLastTime, SyncTime, Asking,
                  Answering, Outstanding
  <2> QED
    BY <2>1, ClientTimes, OutsideTimes, ServerTimes, ChangesTimes DEF Next
<1> QED
  BY <1>1, TimesInit, TypeCorrect, SessionInvariant, PTL DEF Spec

\* A change that the server made no later than last_note_sync_time, in memory or
\* in .fns_state.json, is in the vault, unless the user has changed that note
\* since: the next incremental sync may leave it out.  Disconnections, crashes
\* and failing handlers do not change that (run_note_sync, commit_state,
\* process_sync_responses).
THEOREM NothingMissed ==
    ASSUME MaxBroadcasts = 0
    PROVE  Spec => []AppliedUpToLastTime
<1>1. AppliedInv => AppliedUpToLastTime
  BY DEF AppliedInv
<1> QED
  BY <1>1, TimesInvariant, PTL

\* The echo cache tells the truth about every note that the user has not
\* touched, so no message of the server is suppressed that the vault needs
\* (handle_note_modify, handle_note_delete, push_modify).
THEOREM EchoSound ==
    ASSUME MaxBroadcasts = 0
    PROVE  Spec => []EchoTruthful
<1>1. AppliedInv => EchoTruthful
  BY DEF AppliedInv
<1> QED
  BY <1>1, TimesInvariant, PTL
===========================================================================
