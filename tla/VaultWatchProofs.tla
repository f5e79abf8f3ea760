-------------------------- MODULE VaultWatchProofs --------------------------
(***************************************************************************)
(* Theorems of VaultWatch: type correctness, that known_files lists the    *)
(* files that are there once all raw events are seen (KnownIsTrue), and    *)
(* that a quiet program has reported everything (QuietMeansReported), for  *)
(* all directories and names, every assignment of engines, all contents    *)
(* and every bound.                                                        *)
(*                                                                         *)
(* A file that is there or not, and an event or a message on its way, are  *)
(* related by who has the last word (Queues): something in a queue that    *)
(* will set the right value, and after it nothing that will set another.   *)
(***************************************************************************)
EXTENDS VaultWatch, Queues, FiniteSetTheorems, TLAPS

---------------------------------------------------------------------------
(* Types.                                                                  *)

\* SetToSeqs lists every element of a finite set.
LEMMA AllListed ==
    ASSUME NEW S, IsFiniteSet(S), NEW f \in SetToSeqs(S)
    PROVE  /\ f \in Seq(S) /\ DOMAIN f = 1..Len(f) /\ Len(f) \in Nat
           /\ \A s \in S : \E i \in DOMAIN f : f[i] = s
<1> DEFINE n == Cardinality(S)
<1>1. n \in Nat
  BY FS_CardinalityType
<1>2. f \in [1..n -> S] /\ \A i, j \in 1..n : i # j => f[i] # f[j]
  BY DEF SetToSeqs
<1>3. IsFiniteSet(1..n) /\ Cardinality(1..n) = n
  <2>1. IsFiniteSet(1..n) /\ Cardinality(1..n) = IF 1 > n THEN 0 ELSE n - 1 + 1
    BY <1>1, FS_Interval
  <2> QED
    BY <1>1, <2>1
<1>4. f \in Injection(1..n, S)
  BY <1>2 DEF Injection, IsInjective
<1>5. f \in Surjection(1..n, S)
  BY <1>3, <1>4, FS_Injection
<1>6. f \in Seq(S) /\ Len(f) = n
  BY <1>1, <1>2
<1> QED
  BY <1>1, <1>2, <1>5, <1>6 DEF Surjection

RawEvents == [kind : RawKinds, from : Paths \cup Dirs, path : Paths \cup Dirs]
WatchEvents == [kind : {"Created", "Modified", "Deleted", "Moved"},
                from : Paths \cup Dirs, path : Paths \cup Dirs]
ServerMsgs == [type : {"FileUpload"}, path : Paths]

\* The queues have their types.
LEMMA QueueTypes ==
    TypeOK => /\ raw \in Seq(RawEvents) /\ events \in Seq(WatchEvents)
              /\ toServer \in Seq(ClientMsgs) /\ toClient \in Seq(ServerMsgs)
BY DEF TypeOK, RawEvents, WatchEvents, ServerMsgs

\* No path is a directory, and there are finitely many of both.
LEMMA PathFacts ==
    /\ \A p \in Paths : p[1] \in Dirs /\ p[2] \in Names /\ p = <<p[1], p[2]>>
    /\ \A p \in Paths : p \notin Dirs
    /\ \A p \in Paths, x \in Paths : x[1] # p
    /\ IsFiniteSet(Paths) /\ IsFiniteSet(Paths \cup Dirs)
<1>1. \A p \in Paths : p[1] \in Dirs /\ p[2] \in Names /\ p = <<p[1], p[2]>>
  BY DEF Paths
<1>2. \A p \in Paths : p \notin Dirs
  BY VaultWatchAssumption DEF VaultWatchAssumption
<1>3. IsFiniteSet(Paths)
  BY VaultWatchAssumption, FS_Product DEF VaultWatchAssumption, Paths
<1>4. IsFiniteSet(Paths \cup Dirs)
  BY <1>3, VaultWatchAssumption, FS_Union DEF VaultWatchAssumption
<1> QED
  BY <1>1, <1>2, <1>3, <1>4

\* The watch events for a list of paths have their types.
LEMMA DeletionsType ==
    ASSUME NEW xs \in Seq(Paths \cup Dirs)
    PROVE  /\ Deletions(xs) \in Seq(WatchEvents) /\ DOMAIN Deletions(xs) = DOMAIN xs
           /\ \A i \in DOMAIN xs : Deletions(xs)[i] = Event("Deleted", xs[i])
<1>1. \A i \in 1..Len(xs) : Event("Deleted", xs[i]) \in WatchEvents
  BY DEF Event, WatchEvents
<1>2. Deletions(xs) \in [1..Len(xs) -> WatchEvents]
  BY <1>1 DEF Deletions
<1> QED
  BY <1>2 DEF Deletions

\* The raw events for a list of files have their types.
LEMMA RemovalsType ==
    ASSUME NEW xs \in Seq(Paths)
    PROVE  [i \in 1..Len(xs) |-> Raw("RemoveFile", xs[i])] \in Seq(RawEvents)
<1>1. \A i \in 1..Len(xs) : Raw("RemoveFile", xs[i]) \in RawEvents
  BY DEF Raw, RawEvents, RawKinds
<1> QED
  BY <1>1

\* What get_files_under_dir finds can be listed, and the list is of known paths
\* that are the argument or under it.
LEMMA VictimsListed ==
    ASSUME TypeOK, NEW x \in Paths \cup Dirs, NEW v \in SetToSeqs(KnownUnder(x))
    PROVE  /\ v \in Seq(KnownUnder(x)) /\ v \in Seq(Paths \cup Dirs)
           /\ \A y \in KnownUnder(x) : \E i \in DOMAIN v : v[i] = y
           /\ \A i \in DOMAIN v : v[i] \in KnownUnder(x)
<1>1. KnownUnder(x) \subseteq Paths \cup Dirs
  BY DEF TypeOK, KnownUnder
<1>2. IsFiniteSet(KnownUnder(x))
  BY <1>1, PathFacts, FS_Subset
<1>3. v \in Seq(KnownUnder(x)) /\ \A y \in KnownUnder(x) : \E i \in DOMAIN v : v[i] = y
  BY <1>2, AllListed
<1>4. v \in Seq(Paths \cup Dirs) /\ \A i \in DOMAIN v : v[i] \in KnownUnder(x)
  BY <1>1, <1>3
<1> QED
  BY <1>3, <1>4
---------------------------------------------------------------------------
(* What the raw events and the watch events say of a path.                 *)

\* Raw events that make known_files list p, if the file is there; the one that
\* does so in any case; those that take it off even if the file is there; and
\* those that take it off if it is not.
Tracks(p) == { e \in RawEvents : e.path = p /\ e.kind \in {"Create", "To", "Any", "Both"} }
TracksUnseen(p) == { e \in RawEvents : e.path = p /\ e.kind = "Both" }
UntracksFile(p) ==
    { e \in RawEvents : \/ e.path = p /\ e.kind \in {"From", "RemoveFile"}
                        \/ e.from = p /\ e.kind = "Both"
                        \/ e.path = p[1] /\ e.kind \in {"Any", "RemoveFolder"} }
Untracks(p) == UntracksFile(p) \cup { e \in RawEvents : e.path = p /\ e.kind = "Any" }

\* Raw events that are reported with p there, if it is; those that may report
\* that it is gone, though it is there; and those that report that, if it is not.
RawPresent(p) ==
    { e \in RawEvents : e.path = p /\ e.kind \in {"Create", "To", "Any", "Both", "Modify"} }
RawAbsent(p) ==
    { e \in RawEvents : \/ e.path = p /\ e.kind = "RemoveFile"
                        \/ e.from = p /\ e.kind = "Both" /\ EngineOf(e.path) = Kind[p]
                        \/ e.path = p[1] /\ e.kind \in {"Any", "RemoveFolder"} }
RawGone(p) ==
    { e \in RawEvents : \/ e.path = p /\ e.kind \in {"RemoveFile", "Any"}
                        \/ e.from = p /\ e.kind = "Both" /\ EngineOf(e.path) = Kind[p] }
RawDirGone(p) == { e \in RawEvents : e.path = p[1] /\ e.kind = "Any" }

\* Watch events that make an engine look at p, and those that make its own
\* engine delete it.
EventPresent(p) ==
    { e \in WatchEvents : e.path = p /\ e.kind \in {"Created", "Modified", "Moved"} }
EventAbsent(p) ==
    { e \in WatchEvents : \/ e.path = p /\ e.kind = "Deleted"
                          \/ e.from = p /\ e.kind = "Moved" /\ EngineOf(e.path) = Kind[p] }
EventDeleted(p) == { Event("Deleted", p) }

\* What neither kind of notify backend, and no watcher, ever reports.
RawNever ==
    { e \in RawEvents : \/ e.kind = "Both" /\ e.from = e.path
                        \/ e.kind = "Any" /\ backend = "paired"
                        \/ e.kind \in {"From", "To", "Both"} /\ backend = "single"
                        \/ e.kind = "RemoveFolder" /\ e.path \in Paths }
EventNever ==
    { e \in WatchEvents : e.kind = "Moved" /\ (e.from = e.path \/ backend = "single") }
Reports == Free(raw, RawNever) /\ Free(events, EventNever)

\* What the watch events new say of p, when the next raw event is handled.
SaidOf(p, new) ==
    /\ IsFile(p) /\ Head(raw) \in RawPresent(p)
          => LastWord(new, EventPresent(p), EventAbsent(p))
    /\ IsFile(p) /\ Head(raw) \notin RawAbsent(p) => Free(new, EventAbsent(p))
    /\ ~IsFile(p) /\ Head(raw) \in RawGone(p) => ~Free(new, EventAbsent(p))
    /\ backend = "single" /\ p \in known /\ p \notin known' => ~Free(new, EventDeleted(p))
    /\ p \in known /\ Head(raw) \in RawDirGone(p) => ~Free(new, EventDeleted(p))

\* What becomes of p in known_files then.
KnownOf(p) ==
    /\ IsFile(p) /\ Head(raw) \in Tracks(p) => p \in known'
    /\ IsFile(p) /\ Head(raw) \notin UntracksFile(p) /\ p \in known => p \in known'
    /\ ~IsFile(p) /\ Head(raw) \in Untracks(p) => p \notin known'
    /\ ~IsFile(p) /\ Head(raw) \notin TracksUnseen(p) /\ p \notin known => p \notin known'

\* The watch events new are what one raw event makes the watcher say.
Effect(new) ==
    /\ known' \subseteq Paths \cup Dirs
    /\ new \in Seq(WatchEvents) /\ events' = events \o new /\ Free(new, EventNever)
    /\ \A p \in Paths : SaidOf(p, new) /\ KnownOf(p)

\* The list of the watch events of a list of removed paths.
LEMMA DeletionsSay ==
    ASSUME NEW xs \in Seq(Paths \cup Dirs)
    PROVE  /\ Deletions(xs) \in Seq(WatchEvents)
           /\ \A p \in Paths : Free(Deletions(xs), EventAbsent(p)) <=> Free(xs, {p})
           /\ \A p \in Paths : Free(Deletions(xs), EventDeleted(p)) <=> Free(xs, {p})
           /\ Free(Deletions(xs), EventNever)
<1> DEFINE new == Deletions(xs)
<1>1. /\ new \in Seq(WatchEvents) /\ DOMAIN new = DOMAIN xs
      /\ \A i \in DOMAIN xs : new[i] = Event("Deleted", xs[i]) /\ xs[i] \in Paths \cup Dirs
  BY DeletionsType
<1> HIDE DEF new
<1>2. ASSUME NEW y \in Paths \cup Dirs, NEW p \in Paths
      PROVE  /\ Event("Deleted", y) \in EventAbsent(p) <=> y = p
             /\ Event("Deleted", y) \in EventDeleted(p) <=> y = p
  BY DEF Event, EventAbsent, EventDeleted, WatchEvents
<1>3. \A p \in Paths, i \in DOMAIN xs :
         /\ new[i] \in EventAbsent(p) <=> xs[i] \in {p}
         /\ new[i] \in EventDeleted(p) <=> xs[i] \in {p}
  BY <1>1, <1>2
<1>4. \A p \in Paths : Free(new, EventAbsent(p)) <=> Free(xs, {p})
  BY <1>1, <1>3 DEF Free
<1>5. \A p \in Paths : Free(new, EventDeleted(p)) <=> Free(xs, {p})
  BY <1>1, <1>3 DEF Free
<1>6. Free(new, EventNever)
  <2> SUFFICES ASSUME NEW i \in DOMAIN xs PROVE new[i] \notin EventNever
    BY <1>1 DEF Free
  <2> QED
    BY <1>1 DEF Event, EventNever
<1> QED
  BY <1>1, <1>4, <1>5, <1>6 DEF new

\* The next raw event, with the parts the handlers look at.
LEMMA HeadRaw ==
    ASSUME TypeOK, Reports, raw # <<>>
    PROVE  /\ Head(raw) \in RawEvents /\ Head(raw) \notin RawNever
           /\ Head(raw).kind \in RawKinds
           /\ Head(raw).path \in Paths \cup Dirs /\ Head(raw).from \in Paths \cup Dirs
<1>1. Head(raw) \in RawEvents /\ Head(raw) \notin RawNever
  BY QueueTypes, QueueTail DEF Reports
<1> QED
  BY <1>1 DEF RawEvents

\* Watch events of the types the handlers make.
LEMMA MadeTypes ==
    ASSUME NEW x \in Paths \cup Dirs, NEW y \in Paths \cup Dirs
    PROVE  /\ \A k \in {"Created", "Modified", "Deleted"} : Event(k, x) \in WatchEvents
           /\ MovedEvent(x, y) \in WatchEvents
BY DEF Event, MovedEvent, WatchEvents

\* A file that appears is tracked and reported, a directory is not.
LEMMA AppearanceEffect ==
    ASSUME TypeOK, Reports, ProcessAppearance
    PROVE  \E new : Effect(new)
<1> DEFINE h == Head(raw)
           x == h.path
<1>1. raw # <<>> /\ h.kind \in {"Create", "To"}
  BY DEF ProcessAppearance, Process
<1>2. h \in RawEvents /\ x \in Paths \cup Dirs
  BY <1>1, HeadRaw
<1>3. CASE IsFile(x) /\ known' = known \cup {x} /\ events' = Append(events, Event("Created", x))
  <2> DEFINE new == <<Event("Created", x)>>
  <2>1. Event("Created", x) \in WatchEvents
    BY <1>2, MadeTypes
  <2>2. /\ new \in Seq(WatchEvents) /\ events' = events \o new
        /\ \A B : Free(new, B) <=> Event("Created", x) \notin B
        /\ \A G, B : Event("Created", x) \in G => LastWord(new, G, B)
    BY <1>3, <2>1, QueueTypes, QueueLast
  <2> HIDE DEF new
  <2>3. Event("Created", x) \notin EventNever
    BY DEF Event, EventNever
  <2>4. known' \subseteq Paths \cup Dirs
    BY <1>2, <1>3 DEF TypeOK
  <2>5. ASSUME NEW p \in Paths PROVE SaidOf(p, new)
    <3>1. Event("Created", x) \notin EventAbsent(p)
      BY DEF Event, EventAbsent
    <3>2. h \in RawPresent(p) => Event("Created", x) \in EventPresent(p)
      BY <2>1 DEF Event, EventPresent, RawPresent
    <3>3. h \notin RawGone(p) \/ IsFile(p)
      BY <1>1 DEF RawGone
    <3>4. h \notin RawDirGone(p)
      BY <1>1 DEF RawDirGone
    <3>5. p \in known => p \in known'
      BY <1>3
    <3> QED
      BY <2>2, <3>1, <3>2, <3>3, <3>4, <3>5 DEF SaidOf
  <2>6. ASSUME NEW p \in Paths PROVE KnownOf(p)
    <3>1. p \in known' <=> p \in known \/ p = x
      BY <1>3
    <3>2. h \in Tracks(p) => x = p
      BY DEF Tracks
    <3>3. h \notin Untracks(p)
      BY <1>1 DEF Untracks, UntracksFile
    <3> QED
      BY <1>3, <3>1, <3>2, <3>3 DEF KnownOf
  <2> QED
    BY <2>2, <2>3, <2>4, <2>5, <2>6 DEF Effect
<1>4. CASE ~IsFile(x) /\ UNCHANGED <<known, events>>
  <2> DEFINE new == <<>>
  <2>1. new \in Seq(WatchEvents) /\ events' = events \o new /\ \A B : Free(new, B)
    BY <1>4, QueueTypes DEF Free
  <2> HIDE DEF new
  <2>2. ASSUME NEW p \in Paths PROVE SaidOf(p, new)
    <3>1. ~(h \in RawPresent(p) /\ IsFile(p))
      BY <1>4 DEF RawPresent
    <3>2. h \notin RawGone(p) /\ h \notin RawDirGone(p)
      BY <1>1 DEF RawGone, RawDirGone
    <3> QED
      BY <1>4, <2>1, <3>1, <3>2 DEF SaidOf
  <2>3. ASSUME NEW p \in Paths PROVE KnownOf(p)
    <3>1. ~(h \in Tracks(p) /\ IsFile(p))
      BY <1>4 DEF Tracks
    <3>2. h \notin Untracks(p)
      BY <1>1 DEF Untracks, UntracksFile
    <3> QED
      BY <1>4, <3>1, <3>2 DEF KnownOf
  <2> QED
    BY <1>4, <2>1, <2>2, <2>3 DEF Effect, TypeOK
<1> QED
  BY <1>3, <1>4 DEF ProcessAppearance

\* A modification is reported if the path is still there, and tracks nothing.
LEMMA ModifyEffect ==
    ASSUME TypeOK, Reports, ProcessModify
    PROVE  \E new : Effect(new)
<1> DEFINE h == Head(raw)
           x == h.path
           new == IF Exists(x) THEN <<Event("Modified", x)>> ELSE <<>>
<1>1. raw # <<>> /\ h.kind = "Modify" /\ known' = known
  BY DEF ProcessModify, Process
<1>2. h \in RawEvents /\ x \in Paths \cup Dirs
  BY <1>1, HeadRaw
<1>3. Event("Modified", x) \in WatchEvents
  BY <1>2, MadeTypes
<1>4. /\ new \in Seq(WatchEvents) /\ events' = events \o new
      /\ \A B : Event("Modified", x) \notin B => Free(new, B)
      /\ \A G, B : Event("Modified", x) \in G /\ Exists(x) => LastWord(new, G, B)
  <2>1. CASE Exists(x)
    BY <1>3, <2>1, QueueTypes, QueueLast DEF ProcessModify
  <2>2. CASE ~Exists(x)
    BY <2>2, QueueTypes DEF ProcessModify, Free
  <2> QED
    BY <2>1, <2>2
<1> HIDE DEF new
<1>5. Event("Modified", x) \notin EventNever
  BY DEF Event, EventNever
<1>6. ASSUME NEW p \in Paths PROVE SaidOf(p, new)
  <2>1. Event("Modified", x) \notin EventAbsent(p)
    BY DEF Event, EventAbsent
  <2>2. h \in RawPresent(p) => Event("Modified", x) \in EventPresent(p) /\ x = p
    BY <1>3 DEF Event, EventPresent, RawPresent
  <2>3. h \notin RawGone(p) /\ h \notin RawDirGone(p)
    BY <1>1 DEF RawGone, RawDirGone
  <2>4. IsFile(p) /\ x = p => Exists(x)
    BY DEF Exists
  <2> QED
    BY <1>1, <1>4, <2>1, <2>2, <2>3, <2>4 DEF SaidOf
<1>7. ASSUME NEW p \in Paths PROVE KnownOf(p)
  <2>1. h \notin Tracks(p) /\ h \notin Untracks(p)
    BY <1>1 DEF Tracks, Untracks, UntracksFile
  <2> QED
    BY <1>1, <2>1 DEF KnownOf
<1> QED
  BY <1>1, <1>4, <1>5, <1>6, <1>7 DEF Effect, TypeOK

\* RenameMode::From untracks the source and reports nothing.
LEMMA FromEffect ==
    ASSUME TypeOK, Reports, ProcessFrom
    PROVE  \E new : Effect(new)
<1> DEFINE h == Head(raw)
           x == h.path
           new == <<>>
<1>1. raw # <<>> /\ h.kind = "From" /\ known' = known \ {x} /\ events' = events
  BY DEF ProcessFrom, Process
<1>2. h \in RawEvents /\ h \notin RawNever
  BY <1>1, HeadRaw
<1>3. new \in Seq(WatchEvents) /\ events' = events \o new /\ \A B : Free(new, B)
  BY <1>1, QueueTypes DEF Free
<1> HIDE DEF new
<1>4. backend # "single"
  BY <1>1, <1>2 DEF RawNever
<1>5. ASSUME NEW p \in Paths PROVE SaidOf(p, new)
  <2>1. h \notin RawPresent(p) /\ h \notin RawGone(p) /\ h \notin RawDirGone(p)
    BY <1>1 DEF RawPresent, RawGone, RawDirGone
  <2> QED
    BY <1>3, <1>4, <2>1 DEF SaidOf
<1>6. ASSUME NEW p \in Paths PROVE KnownOf(p)
  <2>1. h \notin Tracks(p) /\ (h \in Untracks(p) => x = p)
    BY <1>1 DEF Tracks, Untracks, UntracksFile
  <2>2. x = p => h \in UntracksFile(p)
    BY <1>1, <1>2 DEF UntracksFile
  <2> QED
    BY <1>1, <2>1, <2>2 DEF KnownOf
<1> QED
  BY <1>1, <1>3, <1>5, <1>6 DEF Effect, TypeOK

\* RenameMode::Both reports the rename, untracks its source, tracks its target.
LEMMA BothEffect ==
    ASSUME TypeOK, Reports, ProcessBoth
    PROVE  \E new : Effect(new)
<1> DEFINE h == Head(raw)
           x == h.from
           y == h.path
           e == MovedEvent(x, y)
           new == <<e>>
<1>1. /\ raw # <<>> /\ h.kind = "Both" /\ known' = (known \ {x}) \cup {y}
      /\ events' = Append(events, e)
  BY DEF ProcessBoth, Process
<1>2. h \in RawEvents /\ h \notin RawNever /\ x \in Paths \cup Dirs /\ y \in Paths \cup Dirs
  BY <1>1, HeadRaw
<1>3. x # y /\ backend # "single"
  BY <1>1, <1>2 DEF RawNever
<1>4. e \in WatchEvents
  BY <1>2, MadeTypes
<1>6. e.kind = "Moved" /\ e.from = x /\ e.path = y
  BY DEF MovedEvent
<1> HIDE DEF e
<1>5. /\ new \in Seq(WatchEvents) /\ events' = events \o new
      /\ \A B : Free(new, B) <=> e \notin B
      /\ \A G, B : e \in G => LastWord(new, G, B)
  BY <1>1, <1>4, QueueTypes, QueueLast
<1> HIDE DEF new
<1>7. e \notin EventNever
  BY <1>3, <1>6 DEF EventNever
<1>8. ASSUME NEW p \in Paths PROVE SaidOf(p, new)
  <2>1. h \in RawPresent(p) => e \in EventPresent(p)
    BY <1>4, <1>6 DEF RawPresent, EventPresent
  <2>2. e \in EventAbsent(p) => h \in RawAbsent(p)
    BY <1>1, <1>2, <1>6 DEF RawAbsent, EventAbsent
  <2>3. h \in RawGone(p) => e \in EventAbsent(p)
    BY <1>1, <1>4, <1>6 DEF RawGone, EventAbsent
  <2>4. h \notin RawDirGone(p)
    BY <1>1 DEF RawDirGone
  <2> QED
    BY <1>3, <1>5, <2>1, <2>2, <2>3, <2>4 DEF SaidOf
<1>9. ASSUME NEW p \in Paths PROVE KnownOf(p)
  <2>1. p \in known' <=> p = y \/ (p \in known /\ p # x)
    BY <1>1
  <2>2. h \in Tracks(p) => y = p
    BY DEF Tracks
  <2>3. x = p => h \in UntracksFile(p)
    BY <1>1, <1>2 DEF UntracksFile
  <2>4. h \in Untracks(p) => x = p
    BY <1>1 DEF Untracks, UntracksFile
  <2>5. y = p => h \in TracksUnseen(p)
    BY <1>1, <1>2 DEF TracksUnseen
  <2> QED
    BY <1>3, <2>1, <2>2, <2>3, <2>4, <2>5 DEF KnownOf
<1>10. known' \subseteq Paths \cup Dirs
  BY <1>1, <1>2 DEF TypeOK
<1> QED
  BY <1>5, <1>7, <1>8, <1>9, <1>10 DEF Effect

\* RenameMode::Any and the removal of a directory: what is gone is listed.
LEMMA GoneEffect ==
    ASSUME TypeOK, NEW x \in Paths \cup Dirs, ~IsFile(x),
           NEW v \in SetToSeqs(KnownUnder(x)), NEW listed,
           v = <<>> => listed = <<x>>, v # <<>> => listed = v
    PROVE  /\ listed \in Seq(Paths \cup Dirs) /\ v \in Seq(Paths \cup Dirs)
           /\ \A p \in Paths : Free(v, {p}) <=> p \notin KnownUnder(x)
           /\ \A p \in Paths : Free(listed, {p}) <=> p \notin KnownUnder(x) /\ p # x
           /\ \A p \in Paths : p \in KnownUnder(x) <=> p \in known /\ (p = x \/ p[1] = x)
<1>1. /\ v \in Seq(Paths \cup Dirs)
      /\ \A y \in KnownUnder(x) : \E i \in DOMAIN v : v[i] = y
      /\ \A i \in DOMAIN v : v[i] \in KnownUnder(x)
  BY VictimsListed
<1>2. \A p \in Paths : Free(v, {p}) <=> p \notin KnownUnder(x)
  BY <1>1 DEF Free
<1>3. \A p \in Paths : p \in KnownUnder(x) <=> p \in known /\ (p = x \/ p[1] = x)
  BY DEF KnownUnder, Under
<1>4. CASE v = <<>>
  <2>1. KnownUnder(x) = {}
    BY <1>1, <1>4
  <2>2. listed = <<x>>
    BY <1>4
  <2>3. <<x>> \in Seq(Paths \cup Dirs) /\ \A B : Free(<<x>>, B) <=> x \notin B
    <3>1. <<>> \in Seq(Paths \cup Dirs)
      OBVIOUS
    <3> QED
      BY <3>1, QueueLast
  <2> QED
    BY <1>1, <1>2, <1>3, <2>1, <2>2, <2>3
<1>5. CASE v # <<>>
  <2>1. listed = v
    BY <1>5
  <2>2. PICK y \in KnownUnder(x) : TRUE
    BY <1>1, <1>5
  <2>3. ASSUME x \in Paths PROVE x \in KnownUnder(x)
    <3>1. y = x \/ y \in Under(x)
      BY <2>2 DEF KnownUnder
    <3>2. y \notin Under(x)
      BY <2>3, PathFacts DEF Under
    <3> QED
      BY <2>2, <3>1, <3>2
  <2> QED
    BY <1>1, <1>2, <1>3, <2>1, <2>3
<1> QED
  BY <1>4, <1>5

\* RenameMode::Any: what is there appears, what is not is gone.
LEMMA AnyEffect ==
    ASSUME TypeOK, Reports, ProcessAny
    PROVE  \E new : Effect(new)
<1> DEFINE h == Head(raw)
           x == h.path
<1>1. raw # <<>> /\ h.kind = "Any"
  BY DEF ProcessAny, Process
<1>2. h \in RawEvents /\ x \in Paths \cup Dirs
  BY <1>1, HeadRaw
<1>3. CASE IsFile(x) /\ known' = known \cup {x} /\ events' = Append(events, Event("Created", x))
  <2> DEFINE new == <<Event("Created", x)>>
  <2>1. Event("Created", x) \in WatchEvents
    BY <1>2, MadeTypes
  <2>2. /\ new \in Seq(WatchEvents) /\ events' = events \o new
        /\ \A B : Free(new, B) <=> Event("Created", x) \notin B
        /\ \A G, B : Event("Created", x) \in G => LastWord(new, G, B)
    BY <1>3, <2>1, QueueTypes, QueueLast
  <2> HIDE DEF new
  <2>3. Event("Created", x) \notin EventNever
    BY DEF Event, EventNever
  <2>4. known' \subseteq Paths \cup Dirs
    BY <1>2, <1>3 DEF TypeOK
  <2>5. x \in Paths /\ \A p \in Paths : p[1] # x
    BY <1>3, PathFacts DEF IsFile
  <2>6. ASSUME NEW p \in Paths PROVE SaidOf(p, new)
    <3>1. Event("Created", x) \notin EventAbsent(p)
      BY DEF Event, EventAbsent
    <3>2. h \in RawPresent(p) => Event("Created", x) \in EventPresent(p)
      BY <2>1 DEF Event, EventPresent, RawPresent
    <3>3. h \in RawGone(p) => IsFile(p)
      BY <1>1, <1>3 DEF RawGone
    <3>4. h \notin RawDirGone(p)
      BY <2>5 DEF RawDirGone
    <3>5. p \in known => p \in known'
      BY <1>3
    <3> QED
      BY <2>2, <3>1, <3>2, <3>3, <3>4, <3>5 DEF SaidOf
  <2>7. ASSUME NEW p \in Paths PROVE KnownOf(p)
    <3>1. p \in known' <=> p \in known \/ p = x
      BY <1>3
    <3>2. h \in Tracks(p) => x = p
      BY DEF Tracks
    <3>3. h \in Untracks(p) => IsFile(p)
      BY <1>1, <1>3, <2>5 DEF Untracks, UntracksFile
    <3> QED
      BY <1>3, <3>1, <3>2, <3>3 DEF KnownOf
  <2> QED
    BY <2>2, <2>3, <2>4, <2>6, <2>7 DEF Effect
<1>4. CASE ~IsFile(x) /\ Gone(x)
  <2>1. PICK v \in SetToSeqs(KnownUnder(x)) :
           events' = events \o Deletions(IF v = <<>> THEN <<x>> ELSE v)
    BY <1>4 DEF Gone
  <2> DEFINE listed == IF v = <<>> THEN <<x>> ELSE v
             new == Deletions(listed)
  <2>2. /\ listed \in Seq(Paths \cup Dirs)
        /\ \A p \in Paths : Free(listed, {p}) <=> p \notin KnownUnder(x) /\ p # x
        /\ \A p \in Paths : p \in KnownUnder(x) <=> p \in known /\ (p = x \/ p[1] = x)
    <3>1. (v = <<>> => listed = <<x>>) /\ (v # <<>> => listed = v)
      OBVIOUS
    <3> HIDE DEF listed
    <3> QED
      BY <1>2, <1>4, <3>1, GoneEffect
  <2> HIDE DEF listed
  <2>3. /\ new \in Seq(WatchEvents) /\ Free(new, EventNever)
        /\ \A p \in Paths : Free(new, EventAbsent(p)) <=> Free(listed, {p})
        /\ \A p \in Paths : Free(new, EventDeleted(p)) <=> Free(listed, {p})
    BY <2>2, DeletionsSay
  <2>4. events' = events \o new
    BY <2>1 DEF listed
  <2> HIDE DEF new
  <2>5. known' = known \ KnownUnder(x)
    BY <1>4 DEF Gone
  <2>6. ASSUME NEW p \in Paths PROVE SaidOf(p, new)
    <3>1. h \in RawPresent(p) => ~IsFile(p)
      BY <1>4 DEF RawPresent
    <3>2. IsFile(p) => x # p
      BY <1>4
    <3>3. x = p[1] => h \in RawAbsent(p)
      BY <1>1, <1>2 DEF RawAbsent
    <3>4. h \in RawGone(p) => x = p
      BY <1>1 DEF RawGone
    <3>5. h \in RawDirGone(p) => x = p[1]
      BY DEF RawDirGone
    <3>6. p \in known /\ p \notin known' => p \in KnownUnder(x)
      BY <2>5
    <3> QED
      BY <2>2, <2>3, <3>1, <3>2, <3>3, <3>4, <3>5, <3>6 DEF SaidOf
  <2>7. ASSUME NEW p \in Paths PROVE KnownOf(p)
    <3>1. p \in known' <=> p \in known /\ ~(p = x \/ p[1] = x)
      BY <2>2, <2>5
    <3>2. h \in Tracks(p) => ~IsFile(p)
      BY <1>4 DEF Tracks
    <3>3. p[1] = x => h \in UntracksFile(p)
      BY <1>1, <1>2 DEF UntracksFile
    <3>4. h \in Untracks(p) => p = x \/ p[1] = x
      BY <1>1 DEF Untracks, UntracksFile
    <3>5. IsFile(p) => x # p
      BY <1>4
    <3> QED
      BY <3>1, <3>2, <3>3, <3>4, <3>5 DEF KnownOf
  <2> QED
    BY <2>3, <2>4, <2>5, <2>6, <2>7 DEF Effect, TypeOK
<1> QED
  BY <1>3, <1>4 DEF ProcessAny

\* A removal is reported, of a file or of all known files of a directory.
LEMMA RemovalEffect ==
    ASSUME TypeOK, Reports, ProcessRemoval
    PROVE  \E new : Effect(new)
<1> DEFINE h == Head(raw)
           x == h.path
<1>1. raw # <<>> /\ h.kind \in {"RemoveFile", "RemoveFolder"}
  BY DEF ProcessRemoval, Process
<1>2. h \in RawEvents /\ x \in Paths \cup Dirs
  BY <1>1, HeadRaw
<1>5. h.kind = "RemoveFolder" => x \notin Paths
  BY <1>1, <1>2, HeadRaw DEF RawNever
<1>3. CASE h.kind = "RemoveFile" /\ known' = known \ {x}
           /\ events' = Append(events, Event("Deleted", x))
  <2> DEFINE e == Event("Deleted", x)
             new == <<e>>
  <2>1. e \in WatchEvents
    BY <1>2, MadeTypes
  <2>2. e.kind = "Deleted" /\ e.path = x
    BY DEF Event
  <2>3. \A p \in Paths : e \in EventDeleted(p) <=> p = x
    BY DEF EventDeleted, Event
  <2>4. events' = Append(events, e)
    BY <1>3
  <2> HIDE DEF e
  <2>5. /\ new \in Seq(WatchEvents) /\ events' = events \o new
        /\ \A B : Free(new, B) <=> e \notin B
    BY <2>1, <2>4, QueueTypes, QueueLast
  <2> HIDE DEF new
  <2>6. e \notin EventNever
    BY <2>2 DEF EventNever
  <2>7. ASSUME NEW p \in Paths PROVE SaidOf(p, new)
    <3>1. h \notin RawPresent(p) /\ h \notin RawDirGone(p)
      BY <1>3 DEF RawPresent, RawDirGone
    <3>2. e \in EventAbsent(p) <=> x = p
      BY <2>1, <2>2 DEF EventAbsent
    <3>3. x = p => h \in RawAbsent(p)
      BY <1>2, <1>3 DEF RawAbsent
    <3>4. h \in RawGone(p) => x = p
      BY <1>3 DEF RawGone
    <3>5. p \in known /\ p \notin known' => p = x
      BY <1>3
    <3> QED
      BY <2>3, <2>5, <3>1, <3>2, <3>3, <3>4, <3>5 DEF SaidOf
  <2>8. ASSUME NEW p \in Paths PROVE KnownOf(p)
    <3>1. h \notin Tracks(p) /\ (h \in Untracks(p) => x = p)
      BY <1>3 DEF Tracks, Untracks, UntracksFile
    <3>2. x = p => h \in UntracksFile(p)
      BY <1>2, <1>3 DEF UntracksFile
    <3> QED
      BY <1>3, <3>1, <3>2 DEF KnownOf
  <2> QED
    BY <1>3, <2>5, <2>6, <2>7, <2>8 DEF Effect, TypeOK
<1>4. CASE /\ h.kind = "RemoveFolder" /\ known' = known \ KnownUnder(x)
           /\ \E v \in SetToSeqs(KnownUnder(x)) : events' = events \o Deletions(v)
  <2>1. PICK v \in SetToSeqs(KnownUnder(x)) : events' = events \o Deletions(v)
    BY <1>4
  <2> DEFINE new == Deletions(v)
  <2>2. /\ v \in Seq(Paths \cup Dirs)
        /\ \A p \in Paths : Free(v, {p}) <=> p \notin KnownUnder(x)
        /\ \A p \in Paths : p \in KnownUnder(x) <=> p \in known /\ (p = x \/ p[1] = x)
    <3>1. /\ v \in Seq(Paths \cup Dirs)
          /\ \A y \in KnownUnder(x) : \E i \in DOMAIN v : v[i] = y
          /\ \A i \in DOMAIN v : v[i] \in KnownUnder(x)
      BY <1>2, VictimsListed
    <3>2. \A p \in Paths : Free(v, {p}) <=> p \notin KnownUnder(x)
      BY <3>1 DEF Free
    <3> QED
      BY <3>1, <3>2 DEF KnownUnder, Under
  <2>3. /\ new \in Seq(WatchEvents) /\ Free(new, EventNever)
        /\ \A p \in Paths : Free(new, EventAbsent(p)) <=> Free(v, {p})
        /\ \A p \in Paths : Free(new, EventDeleted(p)) <=> Free(v, {p})
    BY <2>2, DeletionsSay
  <2>4. events' = events \o new
    BY <2>1
  <2> HIDE DEF new
  <2>5. known' = known \ KnownUnder(x)
    BY <1>4
  <2>6. ASSUME NEW p \in Paths PROVE SaidOf(p, new)
    <3>1. h \notin RawPresent(p) /\ h \notin RawGone(p) /\ h \notin RawDirGone(p)
      BY <1>4 DEF RawPresent, RawGone, RawDirGone
    <3>2. x = p[1] => h \in RawAbsent(p)
      BY <1>4, <1>2 DEF RawAbsent
    <3>3. p \in known /\ p \notin known' => p \in KnownUnder(x)
      BY <2>5
    <3>4. x # p
      BY <1>4, <1>5
    <3> QED
      BY <2>2, <2>3, <3>1, <3>2, <3>3, <3>4 DEF SaidOf
  <2>7. ASSUME NEW p \in Paths PROVE KnownOf(p)
    <3>1. p \in known' <=> p \in known /\ ~(p = x \/ p[1] = x)
      BY <2>2, <2>5
    <3>2. h \notin Tracks(p) /\ (h \in Untracks(p) => p[1] = x)
      BY <1>4 DEF Tracks, Untracks, UntracksFile
    <3>3. p[1] = x => h \in UntracksFile(p)
      BY <1>4, <1>2 DEF UntracksFile
    <3>4. x # p
      BY <1>4, <1>5
    <3> QED
      BY <3>1, <3>2, <3>3, <3>4 DEF KnownOf
  <2> QED
    BY <2>3, <2>4, <2>5, <2>6, <2>7 DEF Effect, TypeOK
<1> QED
  BY <1>3, <1>4 DEF ProcessRemoval, Process

\* process_event takes one raw event and says what it saw.
LEMMA ProcessEffect ==
    ASSUME TypeOK, Reports, ProcessEvent
    PROVE  /\ raw # <<>> /\ raw' = Tail(raw)
           /\ UNCHANGED <<backend, disk, echo, uploadVars, serverVars, changes, unreported,
                         carried>>
           /\ \E new : Effect(new)
<1>1. \E kinds : Process(kinds)
  BY DEF ProcessEvent, ProcessAppearance, ProcessModify, ProcessFrom, ProcessBoth,
         ProcessAny, ProcessRemoval
<1>2. \E new : Effect(new)
  BY AppearanceEffect, ModifyEffect, FromEffect, BothEffect, AnyEffect, RemovalEffect
     DEF ProcessEvent
<1> QED
  BY <1>1, <1>2 DEF Process

---------------------------------------------------------------------------
(* What the user changes, and what notify says of it.                      *)

\* What came to its place with a directory is there; what is not reported is
\* there only if it came that way.
Ghosts ==
    /\ carried \subseteq { p \in Paths : IsFile(p) }
    /\ \A p \in unreported : IsFile(p) => p \in carried

\* The watcher will not say of p that it left with its directory only if the
\* server has heard nothing of p that it has not heard the end of.
NothingToUntell(p) ==
    echo[Kind[p]][p] \notin Contents \/ ~Free(events, EventDeleted(p))

\* What the raw events of a change say of p, if it is to be reported.
Told(p, reports) ==
    p \notin unreported' =>
        IF disk'[p] # Absent
        THEN \/ LastWord(reports, RawPresent(p), RawAbsent(p))
             \/ p \notin unreported /\ disk'[p] = disk[p] /\ Free(reports, RawAbsent(p))
        ELSE \/ ~Free(reports, RawGone(p))
             \/ p \notin unreported /\ disk[p] = Absent
             \/ p \in known /\ ~Free(reports, RawDirGone(p))
             \/ p \notin known /\ backend = "single" /\ NothingToUntell(p)

\* What they make of p in known_files, if it did not move with a directory.
Listed(p, reports) ==
    p \notin unreported' \cup carried' =>
        IF disk'[p] # Absent
        THEN \/ LastWord(reports, Tracks(p), UntracksFile(p))
             \/ /\ p \notin unreported \cup carried /\ disk[p] # Absent
                /\ Free(reports, UntracksFile(p))
        ELSE \/ LastWord(reports, Untracks(p), TracksUnseen(p))
             \/ /\ p \notin unreported \cup carried /\ disk[p] = Absent
                /\ Free(reports, TracksUnseen(p))

\* A change of the vault that is reported by the raw events reports.
Changed(reports) ==
    /\ reports \in Seq(RawEvents) /\ raw' = raw \o reports /\ Free(reports, RawNever)
    /\ disk' \in [Paths -> Contents \cup {Absent}]
    /\ unreported' \subseteq Paths /\ carried' \subseteq Paths
    /\ \A p \in Paths : p \in carried' => disk'[p] # Absent
    /\ \A p \in Paths : p \in unreported' /\ disk'[p] # Absent => p \in carried'
    /\ \A p \in Paths : Told(p, reports) /\ Listed(p, reports)

\* Raw events that have to do with p or its directory.
Mentions(p) == { e \in RawEvents : e.path = p \/ e.from = p \/ e.path = p[1] }

\* A file that nothing happens to.
LEMMA Bystander ==
    ASSUME TypeOK, NEW p \in Paths, NEW reports, Free(reports, Mentions(p)),
           disk'[p] = disk[p], p \in unreported' <=> p \in unreported,
           p \in carried' <=> p \in carried
    PROVE  Told(p, reports) /\ Listed(p, reports)
<1>1. /\ RawAbsent(p) \subseteq Mentions(p) /\ UntracksFile(p) \subseteq Mentions(p)
      /\ TracksUnseen(p) \subseteq Mentions(p)
  BY DEF RawAbsent, UntracksFile, TracksUnseen, Mentions
<1>2. /\ Free(reports, RawAbsent(p)) /\ Free(reports, UntracksFile(p))
      /\ Free(reports, TracksUnseen(p))
  BY <1>1 DEF Free
<1> QED
  BY <1>2 DEF Told, Listed

\* A place with no file that stays empty.
LEMMA StillGone ==
    ASSUME TypeOK, Ghosts, NEW p \in Paths, NEW reports, Free(reports, TracksUnseen(p)),
           disk[p] = Absent, disk'[p] = Absent, p \in unreported => p \in unreported'
    PROVE  Told(p, reports) /\ Listed(p, reports)
<1>1. p \notin carried
  BY DEF Ghosts, IsFile
<1> QED
  BY <1>1 DEF Told, Listed

\* One, two and three raw events.
LEMMA FewReports ==
    ASSUME NEW a \in RawEvents, NEW b \in RawEvents, NEW c \in RawEvents
    PROVE  /\ <<a>> \in Seq(RawEvents) /\ <<a, b>> \in Seq(RawEvents)
           /\ <<a, b, c>> \in Seq(RawEvents)
           /\ \A B : Free(<<a>>, B) <=> a \notin B
           /\ \A B : Free(<<a, b>>, B) <=> a \notin B /\ b \notin B
           /\ \A B : Free(<<a, b, c>>, B) <=> a \notin B /\ b \notin B /\ c \notin B
           /\ \A G, B : a \in G => LastWord(<<a>>, G, B)
           /\ \A G, B : b \in G \/ (a \in G /\ b \notin B) => LastWord(<<a, b>>, G, B)
           /\ \A G, B : c \in G => LastWord(<<a, b, c>>, G, B)
<1>1. /\ <<a>> \in Seq(RawEvents) /\ DOMAIN <<a>> = {1} /\ <<a>>[1] = a
      /\ <<a, b>> \in Seq(RawEvents) /\ DOMAIN <<a, b>> = {1, 2}
      /\ <<a, b>>[1] = a /\ <<a, b>>[2] = b
      /\ <<a, b, c>> \in Seq(RawEvents) /\ DOMAIN <<a, b, c>> = {1, 2, 3}
      /\ <<a, b, c>>[1] = a /\ <<a, b, c>>[2] = b /\ <<a, b, c>>[3] = c
  OBVIOUS
<1>2. \A B : Free(<<a>>, B) <=> a \notin B
  BY <1>1 DEF Free
<1>3. \A B : Free(<<a, b>>, B) <=> a \notin B /\ b \notin B
  BY <1>1 DEF Free
<1>4. \A B : Free(<<a, b, c>>, B) <=> a \notin B /\ b \notin B /\ c \notin B
  BY <1>1 DEF Free
<1>5. \A G, B : a \in G => LastWord(<<a>>, G, B)
  BY <1>1 DEF LastWord
<1>6. \A G, B : b \in G \/ (a \in G /\ b \notin B) => LastWord(<<a, b>>, G, B)
  BY <1>1 DEF LastWord
<1>7. \A G, B : c \in G => LastWord(<<a, b, c>>, G, B)
  BY <1>1 DEF LastWord
<1> QED
  BY <1>1, <1>2, <1>3, <1>4, <1>5, <1>6, <1>7

\* A raw event is made of its kind and its paths.
LEMMA RawMade ==
    ASSUME NEW x \in Paths \cup Dirs, NEW y \in Paths \cup Dirs
    PROVE  /\ \A k \in RawKinds : /\ Raw(k, x) \in RawEvents /\ Raw(k, x).kind = k
                                  /\ Raw(k, x).from = x /\ Raw(k, x).path = x
           /\ RawBoth(x, y) \in RawEvents /\ RawBoth(x, y).kind = "Both"
           /\ RawBoth(x, y).from = x /\ RawBoth(x, y).path = y
BY DEF Raw, RawBoth, RawEvents, RawKinds

\* A write that creates a file, or changes one, ends with an event that shows it.
LEMMA WriteReports ==
    ASSUME TypeOK, Ghosts, NEW p \in Paths, NEW c \in Contents, UserWrites(p, c)
    PROVE  \E reports : Changed(reports)
<1> DEFINE m == Raw("Modify", p)
           k == Raw("Create", p)
           reports == IF IsFile(p) THEN <<m>> ELSE <<k, m>>
<1>1. /\ raw' = raw \o reports /\ disk' = [disk EXCEPT ![p] = c]
      /\ unreported' = unreported \ {p}
      /\ carried' = IF IsFile(p) THEN carried ELSE carried \ {p}
  BY DEF UserWrites, Change
<1>2. /\ m \in RawEvents /\ m.kind = "Modify" /\ m.path = p /\ m.from = p
      /\ k \in RawEvents /\ k.kind = "Create" /\ k.path = p /\ k.from = p
  BY RawMade DEF RawKinds
<1> HIDE DEF m, k
<1>3. /\ reports \in Seq(RawEvents)
      /\ \A B : m \notin B /\ k \notin B => Free(reports, B)
      /\ \A G, B : m \in G => LastWord(reports, G, B)
      /\ \A G, B : ~IsFile(p) /\ k \in G /\ m \notin B => LastWord(reports, G, B)
  <2>1. CASE IsFile(p)
    BY <1>2, <2>1, FewReports
  <2>2. CASE ~IsFile(p)
    BY <1>2, <2>2, FewReports
  <2> QED
    BY <2>1, <2>2
<1> HIDE DEF reports
<1>4. c # Absent /\ disk \in [Paths -> Contents \cup {Absent}]
  BY VaultWatchAssumption DEF VaultWatchAssumption, TypeOK
<1>5. Free(reports, RawNever)
  BY <1>2, <1>3 DEF RawNever
<1>6. /\ disk' \in [Paths -> Contents \cup {Absent}] /\ disk'[p] = c
      /\ \A r \in Paths : r # p => disk'[r] = disk[r]
  BY <1>1, <1>4
<1>7. ASSUME NEW r \in Paths PROVE Told(r, reports) /\ Listed(r, reports)
  <2>1. CASE r # p
    <3>1. Free(reports, Mentions(r))
      BY <1>2, <1>3, <2>1, PathFacts DEF Mentions
    <3> QED
      BY <1>1, <1>6, <2>1, <3>1, Bystander
  <2>2. CASE r = p
    <3>1. m \in RawPresent(p) /\ m \notin UntracksFile(p) /\ k \in Tracks(p)
          /\ k \notin UntracksFile(p)
      BY <1>2, PathFacts DEF RawPresent, UntracksFile, Tracks
    <3>2. Told(p, reports)
      BY <1>3, <1>4, <1>6, <3>1 DEF Told
    <3>3. IsFile(p) /\ p \notin carried' => p \notin unreported \cup carried /\ disk[p] # Absent
      BY <1>1 DEF Ghosts, IsFile
    <3>4. Listed(p, reports)
      BY <1>3, <1>4, <1>6, <3>1, <3>3 DEF Listed
    <3> QED
      BY <2>2, <3>2, <3>4
  <2> QED
    BY <2>1, <2>2
<1>8. /\ unreported' \subseteq Paths /\ carried' \subseteq Paths
      /\ \A r \in Paths : r \in carried' => disk'[r] # Absent
      /\ \A r \in Paths : r \in unreported' /\ disk'[r] # Absent => r \in carried'
  BY <1>1, <1>4, <1>6 DEF Ghosts, IsFile, TypeOK
<1> QED
  BY <1>1, <1>3, <1>5, <1>6, <1>7, <1>8 DEF Changed

\* The removal of a file says that it is gone, and untracks it.
LEMMA DeleteReports ==
    ASSUME TypeOK, Ghosts, NEW p \in Paths, UserDeletes(p)
    PROVE  \E reports : Changed(reports)
<1> DEFINE m == Raw("RemoveFile", p)
           reports == <<m>>
<1>1. /\ raw' = raw \o reports /\ disk' = [disk EXCEPT ![p] = Absent]
      /\ unreported' = unreported \ {p} /\ carried' = carried \ {p}
  BY DEF UserDeletes, Change
<1>2. m \in RawEvents /\ m.kind = "RemoveFile" /\ m.path = p /\ m.from = p
  BY RawMade DEF RawKinds
<1> HIDE DEF m
<1>3. /\ reports \in Seq(RawEvents) /\ \A B : Free(reports, B) <=> m \notin B
      /\ \A G, B : m \in G => LastWord(reports, G, B)
  BY <1>2, FewReports
<1> HIDE DEF reports
<1>4. Free(reports, RawNever)
  BY <1>2, <1>3 DEF RawNever
<1>5. /\ disk' \in [Paths -> Contents \cup {Absent}] /\ disk'[p] = Absent
      /\ \A r \in Paths : r # p => disk'[r] = disk[r]
  BY <1>1 DEF TypeOK
<1>6. ASSUME NEW r \in Paths PROVE Told(r, reports) /\ Listed(r, reports)
  <2>1. CASE r # p
    <3>1. Free(reports, Mentions(r))
      BY <1>2, <1>3, <2>1, PathFacts DEF Mentions
    <3> QED
      BY <1>1, <1>5, <2>1, <3>1, Bystander
  <2>2. CASE r = p
    <3>1. m \in RawGone(p) /\ m \in Untracks(p)
      BY <1>2 DEF RawGone, Untracks, UntracksFile
    <3> QED
      BY <1>3, <1>5, <2>2, <3>1 DEF Told, Listed
  <2> QED
    BY <2>1, <2>2
<1>7. /\ unreported' \subseteq Paths /\ carried' \subseteq Paths
      /\ \A r \in Paths : r \in carried' => disk'[r] # Absent
      /\ \A r \in Paths : r \in unreported' /\ disk'[r] # Absent => r \in carried'
  BY <1>1, <1>5 DEF Ghosts, IsFile, TypeOK
<1> QED
  BY <1>1, <1>3, <1>4, <1>5, <1>6, <1>7 DEF Changed

\* A file moved into the vault is shown.
LEMMA MoveInReports ==
    ASSUME TypeOK, Ghosts, NEW p \in Paths, NEW c \in Contents, UserMovesIn(p, c)
    PROVE  \E reports : Changed(reports)
<1> DEFINE m == IF backend = "paired" THEN Raw("To", p) ELSE Raw("Any", p)
           reports == <<m>>
<1>1. /\ raw' = raw \o reports /\ disk' = [disk EXCEPT ![p] = c]
      /\ unreported' = unreported \ {p} /\ carried' = carried \ {p}
  BY DEF UserMovesIn, Change
<1>2. /\ m \in RawEvents /\ m.path = p /\ m.from = p
      /\ m.kind = IF backend = "paired" THEN "To" ELSE "Any"
  BY RawMade DEF RawKinds
<1> HIDE DEF m
<1>3. /\ reports \in Seq(RawEvents) /\ \A B : Free(reports, B) <=> m \notin B
      /\ \A G, B : m \in G => LastWord(reports, G, B)
  BY <1>2, FewReports
<1> HIDE DEF reports
<1>4. Free(reports, RawNever)
  BY <1>2, <1>3 DEF RawNever
<1>5. /\ disk' \in [Paths -> Contents \cup {Absent}] /\ disk'[p] # Absent
      /\ \A r \in Paths : r # p => disk'[r] = disk[r]
  BY <1>1, VaultWatchAssumption DEF TypeOK, VaultWatchAssumption
<1>6. ASSUME NEW r \in Paths PROVE Told(r, reports) /\ Listed(r, reports)
  <2>1. CASE r # p
    <3>1. Free(reports, Mentions(r))
      BY <1>2, <1>3, <2>1, PathFacts DEF Mentions
    <3> QED
      BY <1>1, <1>5, <2>1, <3>1, Bystander
  <2>2. CASE r = p
    <3>1. m \in RawPresent(p) /\ m \in Tracks(p)
      BY <1>2 DEF RawPresent, Tracks
    <3> QED
      BY <1>3, <1>5, <2>2, <3>1 DEF Told, Listed
  <2> QED
    BY <2>1, <2>2
<1>7. /\ unreported' \subseteq Paths /\ carried' \subseteq Paths
      /\ \A r \in Paths : r \in carried' => disk'[r] # Absent
      /\ \A r \in Paths : r \in unreported' /\ disk'[r] # Absent => r \in carried'
  BY <1>1, <1>5 DEF Ghosts, IsFile, TypeOK
<1> QED
  BY <1>1, <1>3, <1>4, <1>5, <1>6, <1>7 DEF Changed

\* A file moved out of the vault is untracked, and reported by RenameMode::Any only.
LEMMA MoveOutReports ==
    ASSUME TypeOK, Ghosts, NEW p \in Paths, UserMovesOut(p)
    PROVE  \E reports : Changed(reports)
<1> DEFINE m == IF backend = "paired" THEN Raw("From", p) ELSE Raw("Any", p)
           reports == <<m>>
<1>1. /\ raw' = raw \o reports /\ disk' = [disk EXCEPT ![p] = Absent]
      /\ backend = "paired" => unreported' = unreported \cup {p}
      /\ backend # "paired" => unreported' = unreported \ {p}
      /\ carried' = carried \ {p}
  BY DEF UserMovesOut, Change
<1>2. /\ m \in RawEvents /\ m.path = p /\ m.from = p
      /\ m.kind = IF backend = "paired" THEN "From" ELSE "Any"
  BY RawMade DEF RawKinds
<1> HIDE DEF m
<1>3. /\ reports \in Seq(RawEvents) /\ \A B : Free(reports, B) <=> m \notin B
      /\ \A G, B : m \in G => LastWord(reports, G, B)
  BY <1>2, FewReports
<1> HIDE DEF reports
<1>4. Free(reports, RawNever)
  BY <1>2, <1>3 DEF RawNever
<1>5. /\ disk' \in [Paths -> Contents \cup {Absent}] /\ disk'[p] = Absent
      /\ \A r \in Paths : r # p => disk'[r] = disk[r]
  BY <1>1 DEF TypeOK
<1>6. ASSUME NEW r \in Paths PROVE Told(r, reports) /\ Listed(r, reports)
  <2>1. CASE r # p
    <3>1. Free(reports, Mentions(r))
      BY <1>2, <1>3, <2>1, PathFacts DEF Mentions
    <3>2. r \in unreported' <=> r \in unreported
      BY <1>1, <2>1
    <3> QED
      BY <1>1, <1>5, <2>1, <3>1, <3>2, Bystander
  <2>2. CASE r = p /\ backend = "paired"
    BY <1>1, <2>2 DEF Told, Listed
  <2>3. CASE r = p /\ backend # "paired"
    <3>1. m \in RawGone(p) /\ m \in Untracks(p)
      BY <1>2, <2>3 DEF RawGone, Untracks
    <3> QED
      BY <1>3, <1>5, <2>3, <3>1 DEF Told, Listed
  <2> QED
    BY <2>1, <2>2, <2>3
<1>7. /\ unreported' \subseteq Paths /\ carried' \subseteq Paths
      /\ \A r \in Paths : r \in carried' => disk'[r] # Absent
      /\ \A r \in Paths : r \in unreported' /\ disk'[r] # Absent => r \in carried'
  <2>1. \A r \in Paths : r # p => (r \in unreported' <=> r \in unreported)
    BY <1>1
  <2>2. unreported' \subseteq unreported \cup {p}
    BY <1>1
  <2> QED
    BY <1>1, <1>5, <2>1, <2>2 DEF Ghosts, IsFile, TypeOK
<1> QED
  BY <1>1, <1>3, <1>4, <1>5, <1>6, <1>7 DEF Changed

\* A rename is reported by its two sides, or by these and both.  What it says
\* of the source and of the target, and of what it does not mention.
LEMMA RenameSays ==
    ASSUME TypeOK, NEW x \in Paths \cup Dirs, NEW y \in Paths \cup Dirs, x # y
    PROVE  /\ RenameReports(x, y) \in Seq(RawEvents)
           /\ Free(RenameReports(x, y), RawNever)
           /\ \A p \in Paths : /\ p # x /\ p # y /\ p[1] # x /\ p[1] # y
                                     => Free(RenameReports(x, y), Mentions(p))
                               /\ p # y => Free(RenameReports(x, y), TracksUnseen(p))
                               /\ p = x \/ (p # y /\ p[1] = x /\ backend # "paired")
                                     => LastWord(RenameReports(x, y), Untracks(p), TracksUnseen(p))
                               /\ p = x /\ (backend = "paired" => EngineOf(y) = Kind[p])
                                     => ~Free(RenameReports(x, y), RawGone(p))
                               /\ p[1] = x /\ backend # "paired"
                                     => ~Free(RenameReports(x, y), RawDirGone(p))
                               /\ p = y => /\ LastWord(RenameReports(x, y), RawPresent(p), RawAbsent(p))
                                           /\ LastWord(RenameReports(x, y), Tracks(p), UntracksFile(p))
<1>1. CASE backend = "paired"
  <2> DEFINE a == Raw("From", x)
             b == Raw("To", y)
             c == RawBoth(x, y)
  <2>1. RenameReports(x, y) = <<a, b, c>>
    BY <1>1 DEF RenameReports
  <2>2. /\ a \in RawEvents /\ a.kind = "From" /\ a.from = x /\ a.path = x
        /\ b \in RawEvents /\ b.kind = "To" /\ b.from = y /\ b.path = y
        /\ c \in RawEvents /\ c.kind = "Both" /\ c.from = x /\ c.path = y
    BY RawMade DEF RawKinds
  <2> HIDE DEF a, b, c
  <2>3. /\ <<a, b, c>> \in Seq(RawEvents)
        /\ \A B : Free(<<a, b, c>>, B) <=> a \notin B /\ b \notin B /\ c \notin B
        /\ \A G, B : c \in G => LastWord(<<a, b, c>>, G, B)
    BY <2>2, FewReports
  <2>4. a \notin RawNever /\ b \notin RawNever /\ c \notin RawNever
    BY <1>1, <2>2 DEF RawNever
  <2>5. ASSUME NEW p \in Paths
        PROVE  /\ p # x /\ p # y /\ p[1] # x /\ p[1] # y
                     => a \notin Mentions(p) /\ b \notin Mentions(p) /\ c \notin Mentions(p)
               /\ p # y => a \notin TracksUnseen(p) /\ b \notin TracksUnseen(p)
                           /\ c \notin TracksUnseen(p)
               /\ p = x => c \in Untracks(p)
               /\ p = x /\ EngineOf(y) = Kind[p] => c \in RawGone(p)
               /\ p = y => c \in RawPresent(p) /\ c \in Tracks(p)
    BY <2>2 DEF Mentions, TracksUnseen, Untracks, UntracksFile, RawGone, RawPresent, Tracks
  <2> QED
    BY <1>1, <2>1, <2>3, <2>4, <2>5
<1>2. CASE backend # "paired"
  <2> DEFINE a == Raw("Any", x)
             b == Raw("Any", y)
  <2>1. RenameReports(x, y) = <<a, b>>
    BY <1>2 DEF RenameReports
  <2>2. /\ a \in RawEvents /\ a.kind = "Any" /\ a.from = x /\ a.path = x
        /\ b \in RawEvents /\ b.kind = "Any" /\ b.from = y /\ b.path = y
    BY RawMade DEF RawKinds
  <2> HIDE DEF a, b
  <2>3. /\ <<a, b>> \in Seq(RawEvents)
        /\ \A B : Free(<<a, b>>, B) <=> a \notin B /\ b \notin B
        /\ \A G, B : b \in G \/ (a \in G /\ b \notin B) => LastWord(<<a, b>>, G, B)
    BY <2>2, FewReports
  <2>4. a \notin RawNever /\ b \notin RawNever
    BY <1>2, <2>2 DEF RawNever
  <2>5. ASSUME NEW p \in Paths
        PROVE  /\ p # x /\ p # y /\ p[1] # x /\ p[1] # y
                     => a \notin Mentions(p) /\ b \notin Mentions(p)
               /\ a \notin TracksUnseen(p) /\ b \notin TracksUnseen(p)
               /\ p = x \/ p[1] = x => a \in Untracks(p)
               /\ p = x => a \in RawGone(p)
               /\ p[1] = x => a \in RawDirGone(p)
               /\ p = y => b \in RawPresent(p) /\ b \in Tracks(p)
    BY <2>2 DEF Mentions, TracksUnseen, Untracks, UntracksFile, RawGone, RawDirGone,
                RawPresent, Tracks
  <2> QED
    BY <1>2, <2>1, <2>3, <2>4, <2>5
<1> QED
  BY <1>1, <1>2

\* The rename of a file shows its target; the source is said to be gone, unless
\* another engine handles the rename.
LEMMA RenameFileReports ==
    ASSUME TypeOK, Ghosts, NEW p \in Paths, NEW q \in Paths, UserRenames(p, q)
    PROVE  \E reports : Changed(reports)
<1> DEFINE reports == RenameReports(p, q)
<1>1. /\ raw' = raw \o reports /\ p # q /\ IsFile(p)
      /\ disk' = [disk EXCEPT ![p] = Absent, ![q] = disk[p]]
      /\ unreported' = (unreported \ {p, q}) \cup
                       (IF backend = "paired" /\ Kind[p] # Kind[q] THEN {p} ELSE {})
      /\ carried' = carried \ {p, q}
  BY DEF UserRenames, Change
<1>2. /\ reports \in Seq(RawEvents) /\ Free(reports, RawNever)
      /\ \A r \in Paths : r # p /\ r # q /\ r[1] # p /\ r[1] # q => Free(reports, Mentions(r))
      /\ LastWord(reports, Untracks(p), TracksUnseen(p))
      /\ (backend = "paired" => EngineOf(q) = Kind[p]) => ~Free(reports, RawGone(p))
      /\ LastWord(reports, RawPresent(q), RawAbsent(q))
      /\ LastWord(reports, Tracks(q), UntracksFile(q))
  BY <1>1, RenameSays
<1> HIDE DEF reports
<1>3. /\ disk' \in [Paths -> Contents \cup {Absent}] /\ disk'[p] = Absent
      /\ disk'[q] # Absent
      /\ \A r \in Paths : r # p /\ r # q => disk'[r] = disk[r]
  BY <1>1 DEF TypeOK, IsFile
<1>4. EngineOf(q) = Kind[q]
  BY DEF EngineOf
<1>5. /\ p \notin unreported' => (backend = "paired" => Kind[p] = Kind[q])
      /\ \A r \in Paths : r # p /\ r # q => (r \in unreported' <=> r \in unreported)
      /\ q \notin unreported' /\ unreported' \subseteq unreported \cup {p}
  BY <1>1
<1>6. ASSUME NEW r \in Paths PROVE Told(r, reports) /\ Listed(r, reports)
  <2>1. CASE r # p /\ r # q
    <3>1. Free(reports, Mentions(r))
      BY <1>2, <2>1, PathFacts
    <3> QED
      BY <1>1, <1>3, <1>5, <2>1, <3>1, Bystander
  <2>2. CASE r = p
    BY <1>2, <1>3, <1>4, <1>5, <2>2 DEF Told, Listed
  <2>3. CASE r = q
    BY <1>2, <1>3, <2>3 DEF Told, Listed
  <2> QED
    BY <2>1, <2>2, <2>3
<1>7. /\ unreported' \subseteq Paths /\ carried' \subseteq Paths
      /\ \A r \in Paths : r \in carried' => disk'[r] # Absent
      /\ \A r \in Paths : r \in unreported' /\ disk'[r] # Absent => r \in carried'
  BY <1>1, <1>3, <1>5 DEF Ghosts, IsFile, TypeOK
<1> QED
  BY <1>1, <1>2, <1>3, <1>6, <1>7 DEF Changed

\* The removal of a directory says of each of its files that it is gone.
LEMMA DeleteDirReports ==
    ASSUME TypeOK, Ghosts, NEW d \in Dirs, UserDeletesDir(d)
    PROVE  \E reports : Changed(reports)
<1>1. PICK files \in SetToSeqs(FilesUnder(d)) :
         Change([i \in 1..Len(files) |-> Raw("RemoveFile", files[i])]
                \o <<Raw("RemoveFolder", d)>>)
  BY DEF UserDeletesDir
<1> DEFINE each == [i \in 1..Len(files) |-> Raw("RemoveFile", files[i])]
           last == Raw("RemoveFolder", d)
           reports == each \o <<last>>
<1>2. /\ raw' = raw \o reports
      /\ disk' = [p \in Paths |-> IF p[1] = d THEN Absent ELSE disk[p]]
      /\ unreported' = unreported \ FilesUnder(d) /\ carried' = carried \ Under(d)
  BY <1>1 DEF UserDeletesDir, Change
<1>3. FilesUnder(d) \subseteq Paths /\ IsFiniteSet(FilesUnder(d))
  BY PathFacts, FS_Subset DEF FilesUnder, Under
<1>4. /\ files \in Seq(Paths) /\ DOMAIN files = 1..Len(files)
      /\ \A i \in DOMAIN files : files[i] \in FilesUnder(d)
      /\ \A s \in FilesUnder(d) : \E i \in DOMAIN files : files[i] = s
  <2>1. /\ files \in Seq(FilesUnder(d)) /\ DOMAIN files = 1..Len(files)
        /\ \A s \in FilesUnder(d) : \E i \in DOMAIN files : files[i] = s
    BY <1>3, AllListed
  <2> QED
    BY <1>3, <2>1
<1>5. /\ each \in Seq(RawEvents) /\ DOMAIN each = DOMAIN files
      /\ \A i \in DOMAIN files : each[i] = Raw("RemoveFile", files[i])
  BY <1>4, RemovalsType
<1>6. \A i \in DOMAIN files : /\ each[i] \in RawEvents /\ each[i].kind = "RemoveFile"
                              /\ each[i].path = files[i] /\ each[i].from = files[i]
  BY <1>4, <1>5, RawMade DEF RawKinds
<1>7. last \in RawEvents /\ last.kind = "RemoveFolder" /\ last.path = d /\ last.from = d
  BY RawMade DEF RawKinds
<1> HIDE DEF each, last
<1>8. /\ reports \in Seq(RawEvents)
      /\ \A B : Free(reports, B) <=> Free(each, B) /\ last \notin B
      /\ \A G, B : last \in G => LastWord(reports, G, B)
  <2>1. /\ <<last>> \in Seq(RawEvents) /\ \A B : Free(<<last>>, B) <=> last \notin B
        /\ \A G, B : last \in G => LastWord(reports, G, B)
    BY <1>5, <1>7, QueueLast
  <2> QED
    BY <1>5, <2>1, QueueJoin
<1> HIDE DEF reports
<1>9. Free(reports, RawNever)
  <2>1. d \notin Paths
    BY PathFacts
  <2>2. last \notin RawNever
    BY <1>7, <2>1 DEF RawNever
  <2>3. \A i \in DOMAIN each : each[i] \notin RawNever
    BY <1>5, <1>6 DEF RawNever
  <2> QED
    BY <1>8, <2>2, <2>3 DEF Free
<1>10. /\ disk' \in [Paths -> Contents \cup {Absent}]
       /\ \A r \in Paths : r[1] = d => disk'[r] = Absent
       /\ \A r \in Paths : r[1] # d => disk'[r] = disk[r]
  BY <1>2 DEF TypeOK
<1>11. /\ \A r \in Paths : r \in FilesUnder(d) <=> r[1] = d /\ disk[r] # Absent
       /\ \A r \in Paths : r \in Under(d) <=> r[1] = d
  BY DEF FilesUnder, Under, IsFile
<1>12. ASSUME NEW r \in Paths PROVE Told(r, reports) /\ Listed(r, reports)
  <2>1. CASE r[1] # d
    <3>1. r # d
      BY PathFacts
    <3>2. last \notin Mentions(r)
      BY <1>7, <2>1, <3>1 DEF Mentions
    <3>3. ASSUME NEW i \in DOMAIN files PROVE each[i] \notin Mentions(r)
      <4>1. files[i] \in Paths /\ files[i][1] = d
        BY <1>4 DEF FilesUnder, Under
      <4>2. files[i] # r /\ files[i] # r[1]
        BY <2>1, <4>1, PathFacts
      <4> QED
        BY <1>6, <4>2 DEF Mentions
    <3>4. Free(reports, Mentions(r))
      BY <1>5, <1>8, <3>2, <3>3 DEF Free
    <3> QED
      BY <1>2, <1>10, <1>11, <2>1, <3>4, Bystander
  <2>2. CASE r[1] = d /\ disk[r] = Absent
    <3>1. Free(reports, TracksUnseen(r))
      BY <1>5, <1>6, <1>7, <1>8 DEF Free, TracksUnseen
    <3> QED
      BY <1>2, <1>10, <1>11, <2>2, <3>1, StillGone
  <2>3. CASE r[1] = d /\ disk[r] # Absent
    <3>1. PICK i \in DOMAIN files : files[i] = r
      BY <1>4, <1>11, <2>3
    <3>2. each[i] \in RawGone(r)
      BY <1>6, <3>1 DEF RawGone
    <3>3. ~Free(reports, RawGone(r))
      BY <1>5, <1>8, <3>1, <3>2 DEF Free
    <3>4. last \in Untracks(r)
      BY <1>7, <2>3 DEF Untracks, UntracksFile
    <3> QED
      BY <1>8, <1>10, <2>3, <3>3, <3>4 DEF Told, Listed
  <2> QED
    BY <2>1, <2>2, <2>3
<1>13. /\ unreported' \subseteq Paths /\ carried' \subseteq Paths
       /\ \A r \in Paths : r \in carried' => disk'[r] # Absent
       /\ \A r \in Paths : r \in unreported' /\ disk'[r] # Absent => r \in carried'
  BY <1>2, <1>10, <1>11 DEF Ghosts, IsFile, TypeOK
<1> QED
  BY <1>2, <1>8, <1>9, <1>10, <1>12, <1>13 DEF Changed

\* There are two kinds of notify backend.
LEMMA BackendType == TypeOK => backend \in {"paired", "single"}
BY VaultWatchAssumption DEF TypeOK, VaultWatchAssumption

\* Of the files that leave with their directory, those that are not left behind.
LEMMA NotLeftBehind ==
    ASSUME TypeOK, NEW d \in Dirs
    PROVE  /\ LeftBehind(d) \subseteq FilesUnder(d)
           /\ \A p \in FilesUnder(d) \ LeftBehind(d) :
                 backend = "single" /\ p \notin carried /\ (p \in known \/ NothingToUntell(p))
<1>1. LeftBehind(d) \subseteq FilesUnder(d)
  BY DEF LeftBehind
<1>2. ASSUME NEW p \in FilesUnder(d) \ LeftBehind(d)
      PROVE  backend = "single" /\ p \notin carried /\ (p \in known \/ NothingToUntell(p))
  <2>1. backend = "single"
    BY <1>2, BackendType DEF LeftBehind
  <2>2. /\ p \notin carried
        /\ \/ p \in known \/ echo[Kind[p]][p] \notin Contents
           \/ Event("Deleted", p) \in ToSet(events)
    BY <1>2, <2>1 DEF LeftBehind
  <2>3. Event("Deleted", p) \in ToSet(events) => ~Free(events, EventDeleted(p))
    BY DEF ToSet, Free, EventDeleted
  <2> QED
    BY <2>1, <2>2, <2>3 DEF NothingToUntell
<1> QED
  BY <1>1, <1>2

\* A file that leaves with its directory is told of, unless it is left behind.
LEMMA LeavesWithDir ==
    ASSUME TypeOK, NEW d \in Dirs, NEW p \in FilesUnder(d), NEW reports,
           disk'[p] = Absent, p \in LeftBehind(d) => p \in unreported',
           backend # "paired" => /\ ~Free(reports, RawDirGone(p))
                                 /\ LastWord(reports, Untracks(p), TracksUnseen(p))
    PROVE  Told(p, reports) /\ Listed(p, reports)
<1>1. CASE p \in LeftBehind(d)
  BY <1>1 DEF Told, Listed
<1>2. CASE p \notin LeftBehind(d)
  BY <1>2, NotLeftBehind DEF Told, Listed
<1> QED
  BY <1>1, <1>2

\* The rename of a directory leaves nothing unsaid that the ghosts do not hold.
LEMMA RenameDirReports ==
    ASSUME TypeOK, Ghosts, NEW d \in Dirs, NEW e \in Dirs, UserRenamesDir(d, e)
    PROVE  \E reports : Changed(reports)
<1> DEFINE reports == RenameReports(d, e)
<1>1. /\ raw' = raw \o reports /\ d # e /\ FilesUnder(e) = {}
      /\ disk' = [p \in Paths |-> CASE p[1] = d -> Absent
                                    [] p[1] = e -> disk[<<d, p[2]>>]
                                    [] OTHER -> disk[p]]
      /\ unreported' = (unreported \ FilesUnder(d)) \cup LeftBehind(d) \cup Places(d, e)
      /\ carried' = (carried \ Under(d)) \cup Places(d, e)
  BY DEF UserRenamesDir, Change
<1>2. /\ reports \in Seq(RawEvents) /\ Free(reports, RawNever)
      /\ \A p \in Paths : /\ p # d /\ p # e /\ p[1] # d /\ p[1] # e
                                => Free(reports, Mentions(p))
                          /\ p # e => Free(reports, TracksUnseen(p))
                          /\ p # e /\ p[1] = d /\ backend # "paired"
                                => LastWord(reports, Untracks(p), TracksUnseen(p))
                          /\ p[1] = d /\ backend # "paired"
                                => ~Free(reports, RawDirGone(p))
  BY <1>1, RenameSays
<1> HIDE DEF reports
<1>3. \A r \in Paths : r # d /\ r # e
  BY PathFacts
<1>4. \A r \in Paths : <<d, r[2]>> \in Paths /\ <<d, r[2]>>[1] = d /\ <<d, r[2]>>[2] = r[2]
  BY PathFacts DEF Paths
<1>5. /\ \A r \in Paths : r[1] = d => disk'[r] = Absent
      /\ \A r \in Paths : r[1] = e => disk'[r] = disk[<<d, r[2]>>]
      /\ \A r \in Paths : r[1] # d /\ r[1] # e => disk'[r] = disk[r]
  BY <1>1
<1>6. disk' \in [Paths -> Contents \cup {Absent}]
  <2>1. ASSUME NEW r \in Paths
        PROVE  (CASE r[1] = d -> Absent [] r[1] = e -> disk[<<d, r[2]>>]
                  [] OTHER -> disk[r]) \in Contents \cup {Absent}
    BY <1>4 DEF TypeOK
  <2> QED
    BY <1>1, <2>1
<1>7. \A r \in Paths : r \in FilesUnder(d) <=> r[1] = d /\ disk[r] # Absent
  BY DEF FilesUnder, Under, IsFile
<1>8. \A r \in Paths : r[1] = e => disk[r] = Absent
  BY <1>1 DEF FilesUnder, Under, IsFile
<1>9. \A r \in Paths : r \in Places(d, e) <=> r[1] = e /\ disk[<<d, r[2]>>] # Absent
  <2> SUFFICES ASSUME NEW r \in Paths
               PROVE  r \in Places(d, e) <=> r[1] = e /\ disk[<<d, r[2]>>] # Absent
    OBVIOUS
  <2>1. ASSUME r \in Places(d, e) PROVE r[1] = e /\ disk[<<d, r[2]>>] # Absent
    <3>1. PICK f \in FilesUnder(d) : r = <<e, f[2]>>
      BY <2>1 DEF Places
    <3>2. f \in Paths /\ f[1] = d /\ disk[f] # Absent
      BY DEF FilesUnder, Under, IsFile
    <3>3. r[1] = e /\ r[2] = f[2]
      BY <3>1
    <3>4. f = <<d, r[2]>>
      BY <3>2, <3>3, PathFacts
    <3> QED
      BY <3>2, <3>3, <3>4
  <2>2. ASSUME r[1] = e, disk[<<d, r[2]>>] # Absent PROVE r \in Places(d, e)
    <3>1. <<d, r[2]>> \in FilesUnder(d)
      BY <1>4, <1>7, <2>2
    <3>2. r = <<e, <<d, r[2]>>[2]>>
      BY <2>2, PathFacts
    <3> QED
      BY <3>1, <3>2 DEF Places
  <2> QED
    BY <2>1, <2>2
<1>10. /\ LeftBehind(d) \subseteq FilesUnder(d)
       /\ \A r \in Paths : r \in Under(d) <=> r[1] = d
  BY NotLeftBehind DEF Under
<1>11. Places(d, e) \subseteq Paths
  <2>1. \A f \in FilesUnder(d) : <<e, f[2]>> \in Paths
    BY PathFacts DEF FilesUnder, Under, Paths
  <2> QED
    BY <2>1 DEF Places
<1>12. ASSUME NEW r \in Paths PROVE Told(r, reports) /\ Listed(r, reports)
  <2>1. CASE r[1] # d /\ r[1] # e
    <3>1. Free(reports, Mentions(r))
      BY <1>2, <1>3, <2>1
    <3>2. /\ r \in unreported' <=> r \in unreported
          /\ r \in carried' <=> r \in carried
      BY <1>1, <1>7, <1>9, <1>10, <2>1
    <3> QED
      BY <1>5, <2>1, <3>1, <3>2, Bystander
  <2>2. CASE r[1] = d /\ disk[r] # Absent
    <3>1. r \in FilesUnder(d) /\ (r \in LeftBehind(d) => r \in unreported')
      BY <1>1, <1>7, <2>2
    <3> QED
      BY <1>2, <1>3, <1>5, <2>2, <3>1, LeavesWithDir
  <2>3. CASE r[1] = d /\ disk[r] = Absent
    <3>1. r \in unreported => r \in unreported'
      BY <1>1, <1>7, <2>3
    <3> QED
      BY <1>2, <1>3, <1>5, <2>3, <3>1, StillGone
  <2>4. CASE r[1] = e /\ r \in Places(d, e)
    BY <1>1, <2>4 DEF Told, Listed
  <2>5. CASE r[1] = e /\ r \notin Places(d, e)
    <3>1. disk[r] = Absent /\ disk'[r] = Absent
      BY <1>5, <1>8, <1>9, <2>5
    <3>2. r \in unreported => r \in unreported'
      BY <1>1, <1>7, <2>5
    <3> QED
      BY <1>2, <1>3, <3>1, <3>2, StillGone
  <2> QED
    BY <2>1, <2>2, <2>3, <2>4, <2>5
<1>13. unreported' \subseteq Paths /\ carried' \subseteq Paths
  <2>1. FilesUnder(d) \subseteq Paths
    BY DEF FilesUnder, Under
  <2> QED
    BY <1>1, <1>10, <1>11, <2>1 DEF TypeOK
<1>14. ASSUME NEW r \in Paths, r \in carried' PROVE disk'[r] # Absent
  <2>1. CASE r \in Places(d, e)
    BY <1>5, <1>9, <2>1
  <2>2. CASE r \in carried /\ r[1] # d
    BY <1>5, <1>8, <2>2 DEF Ghosts, IsFile
  <2> QED
    BY <1>1, <1>10, <1>14, <2>1, <2>2
<1>15. ASSUME NEW r \in Paths, r \in unreported', disk'[r] # Absent PROVE r \in carried'
  <2>1. r[1] # d
    BY <1>5, <1>15
  <2>2. CASE r \in Places(d, e)
    BY <1>1, <2>2
  <2>3. CASE r \notin Places(d, e)
    <3>1. r[1] # e
      BY <1>5, <1>9, <1>15, <2>3
    <3>2. r \in unreported
      BY <1>1, <1>7, <1>10, <1>15, <2>1, <2>3
    <3> QED
      BY <1>1, <1>5, <1>10, <1>15, <2>1, <3>1, <3>2 DEF Ghosts, IsFile
  <2> QED
    BY <2>2, <2>3
<1> QED
  BY <1>1, <1>2, <1>6, <1>12, <1>13, <1>14, <1>15 DEF Changed

\* Nor does a directory moved out of the vault,
LEMMA MoveDirOutReports ==
    ASSUME TypeOK, Ghosts, NEW d \in Dirs, UserMovesDirOut(d)
    PROVE  \E reports : Changed(reports)
<1> DEFINE m == IF backend = "paired" THEN Raw("From", d) ELSE Raw("Any", d)
           reports == <<m>>
<1>1. /\ raw' = raw \o reports
      /\ disk' = [p \in Paths |-> IF p[1] = d THEN Absent ELSE disk[p]]
      /\ unreported' = (unreported \ FilesUnder(d)) \cup LeftBehind(d)
      /\ carried' = carried \ Under(d)
  BY DEF UserMovesDirOut, Change
<1>2. /\ m \in RawEvents /\ m.path = d /\ m.from = d
      /\ m.kind = IF backend = "paired" THEN "From" ELSE "Any"
  BY RawMade DEF RawKinds
<1> HIDE DEF m
<1>3. /\ reports \in Seq(RawEvents) /\ \A B : Free(reports, B) <=> m \notin B
      /\ \A G, B : m \in G => LastWord(reports, G, B)
  BY <1>2, FewReports
<1> HIDE DEF reports
<1>4. Free(reports, RawNever)
  BY <1>2, <1>3 DEF RawNever
<1>5. /\ disk' \in [Paths -> Contents \cup {Absent}]
      /\ \A r \in Paths : r[1] = d => disk'[r] = Absent
      /\ \A r \in Paths : r[1] # d => disk'[r] = disk[r]
  BY <1>1 DEF TypeOK
<1>6. /\ \A r \in Paths : r \in FilesUnder(d) <=> r[1] = d /\ disk[r] # Absent
      /\ \A r \in Paths : r \in Under(d) <=> r[1] = d
      /\ LeftBehind(d) \subseteq FilesUnder(d) /\ FilesUnder(d) \subseteq Paths
  BY NotLeftBehind DEF FilesUnder, Under, IsFile
<1>7. ASSUME NEW r \in Paths PROVE Told(r, reports) /\ Listed(r, reports)
  <2>1. CASE r[1] # d
    <3>1. Free(reports, Mentions(r))
      BY <1>2, <1>3, <2>1, PathFacts DEF Mentions
    <3>2. /\ r \in unreported' <=> r \in unreported
          /\ r \in carried' <=> r \in carried
      BY <1>1, <1>6, <2>1
    <3> QED
      BY <1>5, <2>1, <3>1, <3>2, Bystander
  <2>2. CASE r[1] = d /\ disk[r] # Absent
    <3>1. r \in FilesUnder(d) /\ (r \in LeftBehind(d) => r \in unreported')
      BY <1>1, <1>6, <2>2
    <3>2. backend # "paired" => m \in RawDirGone(r) /\ m \in Untracks(r)
      BY <1>2, <2>2 DEF RawDirGone, Untracks, UntracksFile
    <3> QED
      BY <1>3, <1>5, <2>2, <3>1, <3>2, LeavesWithDir
  <2>3. CASE r[1] = d /\ disk[r] = Absent
    <3>1. r \in unreported => r \in unreported'
      BY <1>1, <1>6, <2>3
    <3>2. m \notin TracksUnseen(r)
      BY <1>2 DEF TracksUnseen
    <3> QED
      BY <1>3, <1>5, <2>3, <3>1, <3>2, StillGone
  <2> QED
    BY <2>1, <2>2, <2>3
<1>8. unreported' \subseteq Paths /\ carried' \subseteq Paths
  BY <1>1, <1>6 DEF TypeOK
<1>9. /\ \A r \in Paths : r \in carried' => disk'[r] # Absent
      /\ \A r \in Paths : r \in unreported' /\ disk'[r] # Absent => r \in carried'
  BY <1>1, <1>5, <1>6 DEF Ghosts, IsFile
<1> QED
  BY <1>1, <1>3, <1>4, <1>5, <1>7, <1>8, <1>9 DEF Changed

\* or into it.
LEMMA MoveDirInReports ==
    ASSUME TypeOK, Ghosts, NEW d \in Dirs, NEW c \in Contents, UserMovesDirIn(d, c)
    PROVE  \E reports : Changed(reports)
<1> DEFINE m == IF backend = "paired" THEN Raw("To", d) ELSE Raw("Any", d)
           reports == <<m>>
<1>1. /\ raw' = raw \o reports
      /\ disk' = [p \in Paths |-> IF p[1] = d THEN c ELSE disk[p]]
      /\ unreported' = unreported \cup Under(d) /\ carried' = carried \cup Under(d)
  BY DEF UserMovesDirIn, Change
<1>2. /\ m \in RawEvents /\ m.path = d /\ m.from = d
      /\ m.kind = IF backend = "paired" THEN "To" ELSE "Any"
  BY RawMade DEF RawKinds
<1> HIDE DEF m
<1>3. reports \in Seq(RawEvents) /\ \A B : Free(reports, B) <=> m \notin B
  BY <1>2, FewReports
<1> HIDE DEF reports
<1>4. Free(reports, RawNever)
  BY <1>2, <1>3 DEF RawNever
<1>5. /\ disk' \in [Paths -> Contents \cup {Absent}]
      /\ \A r \in Paths : r[1] = d => disk'[r] # Absent
      /\ \A r \in Paths : r[1] # d => disk'[r] = disk[r]
  BY <1>1, VaultWatchAssumption DEF TypeOK, VaultWatchAssumption
<1>6. \A r \in Paths : r \in Under(d) <=> r[1] = d
  BY DEF Under
<1>7. ASSUME NEW r \in Paths PROVE Told(r, reports) /\ Listed(r, reports)
  <2>1. CASE r[1] # d
    <3>1. Free(reports, Mentions(r))
      BY <1>2, <1>3, <2>1, PathFacts DEF Mentions
    <3> QED
      BY <1>1, <1>5, <1>6, <2>1, <3>1, Bystander
  <2>2. CASE r[1] = d
    BY <1>1, <1>6, <2>2 DEF Told, Listed
  <2> QED
    BY <2>1, <2>2
<1>8. /\ unreported' \subseteq Paths /\ carried' \subseteq Paths
      /\ \A r \in Paths : r \in carried' => disk'[r] # Absent
      /\ \A r \in Paths : r \in unreported' /\ disk'[r] # Absent => r \in carried'
  BY <1>1, <1>5, <1>6 DEF Ghosts, IsFile, TypeOK, Under
<1> QED
  BY <1>1, <1>3, <1>4, <1>5, <1>7, <1>8 DEF Changed

\* Every change of the user is told of, or noted in the ghosts.
LEMMA ChangeEffect ==
    ASSUME TypeOK, Ghosts, UserChanges
    PROVE  /\ changes' = changes + 1
           /\ UNCHANGED <<backend, known, events, echo, uploadVars, serverVars>>
           /\ \E reports : Changed(reports)
<1>1. \E reports : Change(reports)
  BY DEF UserChanges, UserWrites, UserDeletes, UserRenames, UserMovesOut, UserMovesIn,
         UserDeletesDir, UserRenamesDir, UserMovesDirOut, UserMovesDirIn
<1>2. \E reports : Changed(reports)
  BY WriteReports, DeleteReports, RenameFileReports, MoveOutReports, MoveInReports,
     DeleteDirReports, RenameDirReports, MoveDirOutReports, MoveDirInReports
     DEF UserChanges
<1> QED
  BY <1>1, <1>2 DEF Change

---------------------------------------------------------------------------
(* What the messages say of a path.                                        *)

\* Messages that make the server set p, those that set it to v, and others.
About(p) ==
    { m \in ClientMsgs : /\ m.path = p
                         /\ \/ m.type \in {"Modify", "Chunks"}
                            \/ m.type = "Delete" /\ m.engine = Kind[p] }
Sets(p, v) == { m \in About(p) : IF m.type = "Delete" THEN v = Absent ELSE v = m.content }
Unsets(p, v) == About(p) \ Sets(p, v)

\* With messages q on their way a server that has s will have v at p.
WillHold(q, s, p, v) ==
    \/ LastWord(q, Sets(p, v), Unsets(p, v))
    \/ s[p] = v /\ Free(q, Unsets(p, v))

\* The question whether the server has content v at p, and the answer.
Checks(p, v) == { m \in ClientMsgs : m.type = "FileUploadCheck" /\ m.path = p /\ m.content = v }
Requests(p) == { [type |-> "FileUpload", path |-> p] }

\* Only files are uploaded.
WrongUploads == { m \in ClientMsgs : /\ m.type \in {"FileUploadCheck", "Chunks"}
                                     /\ Kind[m.path] # "files" }
UploadsAreFiles ==
    /\ Free(toServer, WrongUploads)
    /\ Free(toClient, { m \in ServerMsgs : Kind[m.path] # "files" })
    /\ \A h \in hashed : Kind[h.path] = "files"

\* The engines send out, and remember: nothing that sets p, its content, its
\* content but an earlier hash of it, or that it is gone.
Silent(p, out) == Free(out, About(p)) /\ echo'[Kind[p]][p] = echo[Kind[p]][p]
Tells(p, out) ==
    /\ disk[p] # Absent /\ echo'[Kind[p]][p] = disk[p]
    /\ LastWord(out, Sets(p, disk[p]), Unsets(p, disk[p]))
Sends(p, out) ==
    /\ disk[p] # Absent /\ echo'[Kind[p]][p] \in Contents
    /\ p \in misread' \/ echo'[Kind[p]][p] = disk[p]
    /\ LastWord(out, Sets(p, disk[p]), Unsets(p, disk[p]))
Untells(p, out) ==
    echo'[Kind[p]][p] = DeletedMarker /\ LastWord(out, Sets(p, Absent), Unsets(p, Absent))

\* The server has the content of p, or is asked about it, or none is to be sent.
Asked(p, out) ==
    \/ echo[Kind[p]][p] = disk[p]
    \/ Kind[p] # "files" /\ disk[p] \in NonText
    \/ Kind[p] = "files" /\ LastWord(out, Checks(p, disk[p]), About(p))

\* What the engines answer to the next watch event, about p.
Answers(p, out) ==
    /\ Head(events) \in EventAbsent(p) => Untells(p, out)
    /\ Head(events) \notin EventAbsent(p) => Silent(p, out) \/ Tells(p, out)
    /\ Head(events) \in EventPresent(p) /\ Head(events) \notin EventAbsent(p)
          /\ disk[p] # Absent => Tells(p, out) \/ Asked(p, out)

\* One message.
LEMMA OneMessage ==
    ASSUME NEW m \in ClientMsgs
    PROVE  /\ <<m>> \in Seq(ClientMsgs) /\ <<>> \in Seq(ClientMsgs)
           /\ \A B : Free(<<m>>, B) <=> m \notin B
           /\ \A B : Free(<<>>, B)
           /\ \A G, B : m \in G => LastWord(<<m>>, G, B)
<1>1. <<>> \in Seq(ClientMsgs)
  OBVIOUS
<1> QED
  BY <1>1, QueueLast

\* push_modify and push_upload: what is sent of p, and what is remembered.
LEMMA PushSays ==
    ASSUME TypeOK, NEW x \in Paths \cup Dirs
    PROVE  /\ PushMsgs(x) \in Seq(ClientMsgs)
           /\ PushEcho(x) \in [Engines -> [Paths -> Contents \cup {DeletedMarker, NoEntry}]]
           /\ Free(PushMsgs(x), WrongUploads)
           /\ \A p \in Paths \ {x} : /\ Free(PushMsgs(x), About(p))
                                     /\ PushEcho(x)[Kind[p]][p] = echo[Kind[p]][p]
           /\ \A p \in Paths : p = x =>
                 \/ /\ disk[p] # Absent /\ PushEcho(x)[Kind[p]][p] = disk[p]
                    /\ LastWord(PushMsgs(x), Sets(p, disk[p]), Unsets(p, disk[p]))
                 \/ /\ Free(PushMsgs(x), About(p))
                    /\ PushEcho(x)[Kind[p]][p] = echo[Kind[p]][p]
                    /\ disk[p] # Absent => Asked(p, PushMsgs(x))
<1> DEFINE upload == [type |-> "FileUploadCheck", path |-> x, content |-> disk[x]]
           modify == [type |-> "Modify", engine |-> EngineOf(x), path |-> x, content |-> disk[x]]
<1>1. Kind \in [Paths -> Engines]
  BY VaultWatchAssumption DEF VaultWatchAssumption
<1>2. echo \in [Engines -> [Paths -> Contents \cup {DeletedMarker, NoEntry}]]
      /\ disk \in [Paths -> Contents \cup {Absent}]
  BY DEF TypeOK
<1>3. CASE ~IsFile(x) \/ echo[EngineOf(x)][x] = disk[x]
  <2>1. PushMsgs(x) = <<>> /\ PushEcho(x) = echo
    BY <1>3 DEF PushMsgs, PushEcho
  <2>2. PushMsgs(x) \in Seq(ClientMsgs) /\ \A B : Free(PushMsgs(x), B)
    BY <2>1 DEF Free
  <2>3. \A p \in Paths : p = x /\ disk[p] # Absent => echo[Kind[p]][p] = disk[p]
    BY <1>3 DEF IsFile, EngineOf
  <2> QED
    BY <1>2, <2>1, <2>2, <2>3 DEF Asked
<1>4. CASE IsFile(x) /\ echo[EngineOf(x)][x] # disk[x] /\ EngineOf(x) = "files"
  <2>1. PushMsgs(x) = <<upload>> /\ PushEcho(x) = echo
    BY <1>4 DEF PushMsgs, PushEcho
  <2>2. /\ x \in Paths /\ Kind[x] = "files" /\ disk[x] \in Contents /\ disk[x] # Absent
    BY <1>2, <1>4 DEF EngineOf, IsFile
  <2>3. upload \in ClientMsgs
    BY <2>2 DEF ClientMsgs
  <2>4. \A p \in Paths : upload \notin About(p)
    BY DEF About
  <2>5. upload \in Checks(x, disk[x]) /\ upload \notin WrongUploads
    BY <2>2, <2>3 DEF Checks, WrongUploads
  <2> HIDE DEF upload
  <2>6. /\ <<upload>> \in Seq(ClientMsgs) /\ Free(<<upload>>, WrongUploads)
        /\ \A p \in Paths : Free(<<upload>>, About(p))
        /\ LastWord(<<upload>>, Checks(x, disk[x]), About(x))
    BY <2>3, <2>4, <2>5, OneMessage
  <2>7. Free(PushMsgs(x), WrongUploads)
    BY <2>1, <2>6
  <2>8. Asked(x, PushMsgs(x))
    BY <2>1, <2>2, <2>6 DEF Asked
  <2> QED
    BY <1>2, <2>1, <2>6, <2>7, <2>8
<1>5. CASE /\ IsFile(x) /\ echo[EngineOf(x)][x] # disk[x] /\ EngineOf(x) # "files"
           /\ disk[x] \in NonText
  <2>1. PushMsgs(x) = <<>> /\ PushEcho(x) = echo
    BY <1>5 DEF PushMsgs, PushEcho
  <2>2. PushMsgs(x) \in Seq(ClientMsgs) /\ \A B : Free(PushMsgs(x), B)
    BY <2>1 DEF Free
  <2>3. x \in Paths /\ Kind[x] # "files"
    BY <1>5 DEF EngineOf, IsFile
  <2> QED
    BY <1>2, <1>5, <2>1, <2>2, <2>3 DEF Asked
<1>6. CASE /\ IsFile(x) /\ echo[EngineOf(x)][x] # disk[x] /\ EngineOf(x) # "files"
           /\ disk[x] \notin NonText
  <2>1. PushMsgs(x) = <<modify>>
    BY <1>6 DEF PushMsgs
  <2>2. <<modify>> # <<>>
    OBVIOUS
  <2>3. PushEcho(x) = [echo EXCEPT ![EngineOf(x)][x] = disk[x]]
    BY <1>6, <2>1, <2>2 DEF PushEcho
  <2>4. /\ x \in Paths /\ EngineOf(x) = Kind[x] /\ disk[x] \in Contents /\ disk[x] # Absent
    BY <1>2, <1>6 DEF EngineOf, IsFile
  <2>5. modify \in ClientMsgs
    BY <1>1, <2>4 DEF ClientMsgs
  <2>6. \A p \in Paths \ {x} : modify \notin About(p)
    BY DEF About
  <2>7. modify \in Sets(x, disk[x]) /\ modify \notin WrongUploads
    BY <2>4, <2>5 DEF Sets, About, WrongUploads
  <2> HIDE DEF modify
  <2>8. /\ <<modify>> \in Seq(ClientMsgs) /\ Free(<<modify>>, WrongUploads)
        /\ \A p \in Paths \ {x} : Free(<<modify>>, About(p))
        /\ LastWord(<<modify>>, Sets(x, disk[x]), Unsets(x, disk[x]))
    BY <2>5, <2>6, <2>7, OneMessage
  <2>9. Free(PushMsgs(x), WrongUploads)
    BY <2>1, <2>8
  <2>10. /\ PushEcho(x) \in [Engines -> [Paths -> Contents \cup {DeletedMarker, NoEntry}]]
         /\ PushEcho(x)[Kind[x]][x] = disk[x]
         /\ \A p \in Paths \ {x} : PushEcho(x)[Kind[p]][p] = echo[Kind[p]][p]
    BY <1>1, <1>2, <2>3, <2>4
  <2> QED
    BY <2>1, <2>4, <2>8, <2>9, <2>10
<1> QED
  BY <1>3, <1>4, <1>5, <1>6

\* push_delete of engine k, with the echo cache e.
LEMMA DeleteSays ==
    ASSUME NEW k \in Engines, NEW x \in Paths \cup Dirs,
           NEW e \in [Engines -> [Paths -> Contents \cup {DeletedMarker, NoEntry}]]
    PROVE  /\ DeleteMsgs(k, x) \in Seq(ClientMsgs)
           /\ DeleteEcho(e, k, x) \in [Engines -> [Paths -> Contents \cup {DeletedMarker, NoEntry}]]
           /\ Free(DeleteMsgs(k, x), WrongUploads)
           /\ \A p \in Paths : p # x \/ k # Kind[p] =>
                 Free(DeleteMsgs(k, x), About(p)) /\ DeleteEcho(e, k, x)[Kind[p]][p] = e[Kind[p]][p]
           /\ \A p \in Paths : p = x /\ k = Kind[p] =>
                 /\ DeleteEcho(e, k, x)[Kind[p]][p] = DeletedMarker
                 /\ LastWord(DeleteMsgs(k, x), Sets(p, Absent), Unsets(p, Absent))
<1> DEFINE m == [type |-> "Delete", engine |-> k, path |-> x]
<1>1. CASE x \in Paths
  <2>1. DeleteMsgs(k, x) = <<m>> /\ DeleteEcho(e, k, x) = [e EXCEPT ![k][x] = DeletedMarker]
    BY <1>1 DEF DeleteMsgs, DeleteEcho
  <2>2. m \in ClientMsgs
    BY <1>1 DEF ClientMsgs
  <2>3. \A p \in Paths : p # x \/ k # Kind[p] => m \notin About(p)
    BY DEF About
  <2>4. \A p \in Paths : p = x /\ k = Kind[p] => m \in Sets(p, Absent)
    BY <2>2 DEF Sets, About
  <2>5. m \notin WrongUploads
    BY DEF WrongUploads
  <2> HIDE DEF m
  <2>6. /\ <<m>> \in Seq(ClientMsgs) /\ \A B : Free(<<m>>, B) <=> m \notin B
        /\ \A G, B : m \in G => LastWord(<<m>>, G, B)
    BY <2>2, OneMessage
  <2>7. Kind \in [Paths -> Engines]
    BY VaultWatchAssumption DEF VaultWatchAssumption
  <2>8. /\ DeleteEcho(e, k, x) \in [Engines -> [Paths -> Contents \cup {DeletedMarker, NoEntry}]]
        /\ \A p \in Paths : p # x \/ k # Kind[p] =>
              DeleteEcho(e, k, x)[Kind[p]][p] = e[Kind[p]][p]
        /\ \A p \in Paths : p = x /\ k = Kind[p] =>
              DeleteEcho(e, k, x)[Kind[p]][p] = DeletedMarker
    BY <1>1, <2>1, <2>7
  <2>9. Free(DeleteMsgs(k, x), WrongUploads)
    BY <2>1, <2>5, <2>6
  <2> QED
    BY <2>1, <2>3, <2>4, <2>6, <2>8, <2>9
<1>2. CASE x \notin Paths
  <2>1. DeleteMsgs(k, x) = <<>> /\ DeleteEcho(e, k, x) = e
    BY <1>2 DEF DeleteMsgs, DeleteEcho
  <2>2. DeleteMsgs(k, x) \in Seq(ClientMsgs) /\ \A B : Free(DeleteMsgs(k, x), B)
    BY <2>1 DEF Free
  <2> QED
    BY <1>2, <2>1, <2>2
<1> QED
  BY <1>1, <1>2

\* handle_watch_event: what it sends and remembers of every path.
LEMMA HandleAnswers ==
    ASSUME TypeOK, Reports, HandleWatchEvent
    PROVE  \E out \in Seq(ClientMsgs) :
              /\ toServer' = toServer \o out
              /\ echo' \in [Engines -> [Paths -> Contents \cup {DeletedMarker, NoEntry}]]
              /\ \A p \in Paths : Answers(p, out)
              /\ Free(out, WrongUploads)
<1> DEFINE h == Head(events)
           x == h.from
           y == h.path
<1>1. h \in WatchEvents /\ h \notin EventNever /\ events # <<>>
  BY QueueTypes, QueueTail DEF Reports, HandleWatchEvent
<1>2. x \in Paths \cup Dirs /\ y \in Paths \cup Dirs
  BY <1>1 DEF WatchEvents
<1>3. Kind \in [Paths -> Engines]
  BY VaultWatchAssumption DEF VaultWatchAssumption
<1>4. EngineOf(y) \in Engines
  BY <1>2, <1>3 DEF EngineOf, Engines
<1>5. echo \in [Engines -> [Paths -> Contents \cup {DeletedMarker, NoEntry}]]
  BY DEF TypeOK
<1>6. CASE h.kind \in {"Created", "Modified"} /\ HandlePushed(y)
  <2> DEFINE out == PushMsgs(y)
  <2>1. toServer' = toServer \o out /\ echo' = PushEcho(y)
    BY <1>6 DEF HandlePushed
  <2>2. out \in Seq(ClientMsgs) /\ Free(out, WrongUploads)
        /\ echo' \in [Engines -> [Paths -> Contents \cup {DeletedMarker, NoEntry}]]
    BY <1>2, <2>1, PushSays
  <2>3. ASSUME NEW p \in Paths PROVE Answers(p, out)
    <3>1. h \notin EventAbsent(p)
      BY <1>6 DEF EventAbsent
    <3>2. h \in EventPresent(p) => p = y
      BY DEF EventPresent
    <3>3. p # y => Silent(p, out)
      BY <1>2, <2>1, PushSays DEF Silent
    <3>4. p = y => Tells(p, out) \/ (Silent(p, out) /\ (disk[p] # Absent => Asked(p, out)))
      BY <1>2, <2>1, PushSays DEF Silent, Tells
    <3> HIDE DEF out
    <3> QED
      BY <3>1, <3>2, <3>3, <3>4 DEF Answers
  <2> QED
    BY <2>1, <2>2, <2>3
<1>7. CASE h.kind = "Deleted" /\ HandleDeleted(y)
  <2> DEFINE k == EngineOf(y)
             out == DeleteMsgs(k, y)
  <2>1. toServer' = toServer \o out /\ echo' = DeleteEcho(echo, k, y)
    BY <1>7 DEF HandleDeleted
  <2>2. out \in Seq(ClientMsgs) /\ Free(out, WrongUploads)
        /\ echo' \in [Engines -> [Paths -> Contents \cup {DeletedMarker, NoEntry}]]
    BY <1>2, <1>4, <1>5, <2>1, DeleteSays
  <2>3. ASSUME NEW p \in Paths PROVE Answers(p, out)
    <3>1. h \in EventAbsent(p) <=> p = y
      BY <1>1, <1>7 DEF EventAbsent
    <3>2. h \notin EventPresent(p)
      BY <1>7 DEF EventPresent
    <3>3. p # y => Silent(p, out)
      BY <1>2, <1>4, <1>5, <2>1, DeleteSays DEF Silent
    <3>4. p = y => k = Kind[p]
      BY DEF EngineOf
    <3>5. p = y => Untells(p, out)
      BY <1>2, <1>4, <1>5, <2>1, <3>4, DeleteSays DEF Untells
    <3> HIDE DEF out
    <3> QED
      BY <3>1, <3>2, <3>3, <3>5 DEF Answers
  <2> QED
    BY <2>1, <2>2, <2>3
<1>8. CASE h.kind = "Moved" /\ HandleMoved(x, y)
  <2> DEFINE k == EngineOf(y)
             push == PushMsgs(y)
             del == DeleteMsgs(k, x)
             pushed == PushEcho(y)
             out == IF k = "files" THEN del \o push ELSE push \o del
  <2>1. toServer' = toServer \o out /\ echo' = DeleteEcho(pushed, k, x)
    BY <1>8 DEF HandleMoved
  <2>2. /\ push \in Seq(ClientMsgs) /\ Free(push, WrongUploads)
        /\ pushed \in [Engines -> [Paths -> Contents \cup {DeletedMarker, NoEntry}]]
        /\ \A p \in Paths \ {y} : /\ Free(push, About(p))
                                  /\ pushed[Kind[p]][p] = echo[Kind[p]][p]
        /\ \A p \in Paths : p = y =>
              \/ /\ disk[p] # Absent /\ pushed[Kind[p]][p] = disk[p]
                 /\ LastWord(push, Sets(p, disk[p]), Unsets(p, disk[p]))
              \/ /\ Free(push, About(p)) /\ pushed[Kind[p]][p] = echo[Kind[p]][p]
                 /\ disk[p] # Absent => Asked(p, push)
    BY <1>2, PushSays
  <2> HIDE DEF push, pushed
  <2>3. /\ del \in Seq(ClientMsgs) /\ Free(del, WrongUploads)
        /\ echo' \in [Engines -> [Paths -> Contents \cup {DeletedMarker, NoEntry}]]
        /\ \A p \in Paths : p # x \/ k # Kind[p] =>
              Free(del, About(p)) /\ echo'[Kind[p]][p] = pushed[Kind[p]][p]
        /\ \A p \in Paths : p = x /\ k = Kind[p] =>
              /\ echo'[Kind[p]][p] = DeletedMarker
              /\ LastWord(del, Sets(p, Absent), Unsets(p, Absent))
    BY <1>2, <1>4, <2>1, <2>2, DeleteSays
  <2> HIDE DEF del
  <2>4. /\ out \in Seq(ClientMsgs)
        /\ \A B : Free(push, B) /\ Free(del, B) => Free(out, B)
        /\ \A G, B : LastWord(push, G, B) /\ Free(del, B) => LastWord(out, G, B)
        /\ \A G, B : LastWord(del, G, B) /\ Free(push, B) => LastWord(out, G, B)
    BY <2>2, <2>3, QueueJoin
  <2> HIDE DEF out
  <2>5. \A p \in Paths : \A v, q : Free(q, About(p)) => Free(q, Unsets(p, v))
    BY DEF Free, Unsets
  <2>6. x # y
    BY <1>1, <1>8 DEF EventNever
  <2>7. ASSUME NEW p \in Paths PROVE Answers(p, out)
    <3>1. h \in EventAbsent(p) <=> p = x /\ k = Kind[p]
      BY <1>1, <1>8 DEF EventAbsent
    <3>2. h \in EventPresent(p) => p = y
      BY DEF EventPresent
    <3>3. p = x /\ k = Kind[p] => Untells(p, out)
      BY <2>2, <2>3, <2>4, <2>5, <2>6 DEF Untells
    <3>4. ~(p = x /\ k = Kind[p]) /\ p # y => Silent(p, out)
      BY <2>2, <2>3, <2>4 DEF Silent
    <3>5. p = y => Tells(p, out) \/ (Silent(p, out) /\ (disk[p] # Absent => Asked(p, out)))
      <4>1. SUFFICES ASSUME p = y
                     PROVE  Tells(p, out) \/ (Silent(p, out) /\ (disk[p] # Absent => Asked(p, out)))
        OBVIOUS
      <4>2. Free(del, About(p)) /\ echo'[Kind[p]][p] = pushed[Kind[p]][p]
        BY <2>3, <2>6, <4>1
      <4>3. CASE /\ disk[p] # Absent /\ pushed[Kind[p]][p] = disk[p]
                 /\ LastWord(push, Sets(p, disk[p]), Unsets(p, disk[p]))
        BY <2>4, <2>5, <4>2, <4>3 DEF Tells
      <4>4. CASE /\ Free(push, About(p)) /\ pushed[Kind[p]][p] = echo[Kind[p]][p]
                 /\ disk[p] # Absent => Asked(p, push)
        <5>1. Silent(p, out)
          BY <2>4, <4>2, <4>4 DEF Silent
        <5>2. Asked(p, push) => Asked(p, out)
          BY <2>4, <4>2 DEF Asked
        <5> QED
          BY <4>4, <5>1, <5>2
      <4> QED
        BY <2>2, <4>1, <4>3, <4>4
    <3> QED
      BY <2>6, <3>1, <3>2, <3>3, <3>4, <3>5 DEF Answers
  <2>8. Free(out, WrongUploads)
    BY <2>2, <2>3, <2>4
  <2> QED
    BY <2>1, <2>3, <2>4, <2>7, <2>8
<1> QED
  BY <1>6, <1>7, <1>8 DEF HandleWatchEvent

\* upload_file: what it sends and what is remembered of every path.
LEMMA UploadAnswers ==
    ASSUME TypeOK, UploadsAreFiles, UploadFile
    PROVE  \E out \in Seq(ClientMsgs) :
              /\ toServer' = toServer \o out
              /\ echo' \in [Engines -> [Paths -> Contents \cup {DeletedMarker, NoEntry}]]
              /\ hashed' \subseteq hashed /\ misread' \subseteq Paths
              /\ Free(out, WrongUploads)
              /\ \A p \in Paths : \/ Silent(p, out) /\ (p \in misread' <=> p \in misread)
                                  \/ Sends(p, out)
              /\ \A p \in Paths : \A h \in hashed :
                    h.path = p /\ disk[p] # Absent => h \in hashed' \/ Sends(p, out)
<1>1. PICK h \in hashed :
         /\ hashed' = hashed \ {h}
         /\ \/ /\ IsFile(h.path)
               /\ toServer' = Append(toServer, [type |-> "Chunks", path |-> h.path,
                                                content |-> disk[h.path]])
               /\ echo' = [echo EXCEPT !["files"][h.path] = h.content]
               /\ misread' = IF disk[h.path] = h.content THEN misread \ {h.path}
                                                         ELSE misread \cup {h.path}
            \/ ~IsFile(h.path) /\ UNCHANGED <<toServer, echo, misread>>
  BY DEF UploadFile
<1> DEFINE x == h.path
<1>2. x \in Paths /\ Kind[x] = "files" /\ h.content \in Contents
  BY DEF TypeOK, UploadsAreFiles
<1>3. /\ echo \in [Engines -> [Paths -> Contents \cup {DeletedMarker, NoEntry}]]
      /\ disk \in [Paths -> Contents \cup {Absent}] /\ Kind \in [Paths -> Engines]
      /\ misread \subseteq Paths
  BY VaultWatchAssumption DEF TypeOK, VaultWatchAssumption
<1>4. hashed' \subseteq hashed /\ \A g \in hashed : g.path # x => g \in hashed'
  BY <1>1
<1>5. CASE /\ IsFile(x)
           /\ toServer' = Append(toServer, [type |-> "Chunks", path |-> x, content |-> disk[x]])
           /\ echo' = [echo EXCEPT !["files"][x] = h.content]
           /\ misread' = IF disk[x] = h.content THEN misread \ {x} ELSE misread \cup {x}
  <2> DEFINE m == [type |-> "Chunks", path |-> x, content |-> disk[x]]
  <2>1. m \in ClientMsgs
    BY <1>2, <1>3, <1>5 DEF ClientMsgs, IsFile
  <2>2. m \notin WrongUploads /\ \A p \in Paths \ {x} : m \notin About(p)
    BY <1>2 DEF WrongUploads, About
  <2>3. m \in Sets(x, disk[x])
    BY <1>2, <2>1 DEF Sets, About
  <2>4. toServer' = Append(toServer, m)
    BY <1>5
  <2> HIDE DEF m
  <2>5. toServer' = toServer \o <<m>>
    BY <2>1, <2>4, QueueTypes
  <2>6. /\ <<m>> \in Seq(ClientMsgs) /\ Free(<<m>>, WrongUploads)
        /\ \A p \in Paths \ {x} : Free(<<m>>, About(p))
        /\ LastWord(<<m>>, Sets(x, disk[x]), Unsets(x, disk[x]))
    BY <2>1, <2>2, <2>3, OneMessage
  <2>7. /\ echo' \in [Engines -> [Paths -> Contents \cup {DeletedMarker, NoEntry}]]
        /\ echo'[Kind[x]][x] = h.content /\ disk[x] # Absent
        /\ \A p \in Paths \ {x} : echo'[Kind[p]][p] = echo[Kind[p]][p]
    BY <1>2, <1>3, <1>5 DEF IsFile, Engines
  <2>8. /\ misread' \subseteq Paths
        /\ x \in misread' \/ disk[x] = h.content
        /\ \A p \in Paths \ {x} : p \in misread' <=> p \in misread
    BY <1>2, <1>3, <1>5
  <2>9. Sends(x, <<m>>) /\ \A p \in Paths \ {x} : Silent(p, <<m>>)
    BY <1>2, <2>6, <2>7, <2>8 DEF Sends, Silent
  <2> QED
    BY <1>4, <2>5, <2>6, <2>7, <2>8, <2>9
<1>6. CASE ~IsFile(x) /\ UNCHANGED <<toServer, echo, misread>>
  <2>1. <<>> \in Seq(ClientMsgs) /\ (\A B : Free(<<>>, B)) /\ toServer' = toServer \o <<>>
    BY <1>6, QueueTypes DEF Free
  <2>2. \A p \in Paths : Silent(p, <<>>)
    BY <1>6, <2>1 DEF Silent
  <2>3. disk[x] = Absent
    BY <1>2, <1>6 DEF IsFile
  <2> QED
    BY <1>3, <1>4, <1>6, <2>1, <2>2, <2>3
<1> QED
  BY <1>1, <1>5, <1>6

\* What is sent does not take back what the server will hold, unless it says so.
LEMMA HoldSent ==
    ASSUME NEW q \in Seq(ClientMsgs), NEW out \in Seq(ClientMsgs), NEW s, NEW p, NEW v
    PROVE  /\ Free(out, About(p)) /\ WillHold(q, s, p, v) => WillHold(q \o out, s, p, v)
           /\ LastWord(out, Sets(p, v), Unsets(p, v)) => WillHold(q \o out, s, p, v)
<1>1. Free(out, About(p)) => Free(out, Unsets(p, v))
  BY DEF Free, Unsets
<1> QED
  BY <1>1, QueueJoin DEF WillHold

\* Nor does the server.
LEMMA HoldServed ==
    ASSUME TypeOK, ServerStep, NEW p \in Paths
    PROVE  /\ \A v : WillHold(toServer, srv, p, v) => WillHold(toServer', srv', p, v)
           /\ Head(toServer) \notin About(p) => srv'[p] = srv[p]
<1> DEFINE m == Head(toServer)
<1>1. toServer # <<>> /\ toServer' = Tail(toServer) /\ srv' = Stored(m)
  BY DEF ServerStep
<1>2. m \in ClientMsgs
  BY <1>1, QueueTypes, QueueTail
<1>3. srv \in [Paths -> Contents \cup {Absent}]
  BY DEF TypeOK
<1>4. m \notin About(p) => srv'[p] = srv[p]
  BY <1>1, <1>2, <1>3 DEF Stored, About, ClientMsgs
<1>5. ASSUME NEW v, m \in Sets(p, v) PROVE srv'[p] = v
  BY <1>1, <1>2, <1>3, <1>5 DEF Stored, About, Sets, ClientMsgs
<1>6. ASSUME NEW v, WillHold(toServer, srv, p, v) PROVE WillHold(toServer', srv', p, v)
  <2>1. CASE LastWord(toServer, Sets(p, v), Unsets(p, v))
    <3>1. \/ LastWord(toServer', Sets(p, v), Unsets(p, v))
          \/ m \in Sets(p, v) /\ Free(toServer', Unsets(p, v))
      BY <1>1, <2>1, QueueTypes, QueueTail
    <3> QED
      BY <1>5, <3>1 DEF WillHold
  <2>2. CASE srv[p] = v /\ Free(toServer, Unsets(p, v))
    <3>1. Free(toServer', Unsets(p, v)) /\ m \notin Unsets(p, v)
      BY <1>1, <2>2, QueueTypes, QueueTail
    <3>2. m \in Sets(p, v) \/ m \notin About(p)
      BY <3>1 DEF Unsets
    <3> QED
      BY <1>4, <1>5, <2>2, <3>1, <3>2 DEF WillHold
  <2> QED
    BY <1>6, <2>1, <2>2 DEF WillHold
<1> QED
  BY <1>4, <1>6

---------------------------------------------------------------------------
(* The inductive invariant.                                                *)

\* known_files is right about p, or will be: a raw event has the last word.
KnownPart(p) ==
    IF disk[p] # Absent
    THEN \/ LastWord(raw, Tracks(p), UntracksFile(p))
         \/ p \in known /\ Free(raw, UntracksFile(p))
    ELSE \/ LastWord(raw, Untracks(p), TracksUnseen(p))
         \/ p \notin known /\ Free(raw, TracksUnseen(p))
KnownInv == \A p \in Paths \ (unreported \cup carried) : KnownPart(p)

\* What an echo cache remembers of p, the server will hold, if that was sent.
EchoInv ==
    \A p \in Paths : echo[Kind[p]][p] \in Contents
                        => p \in misread \/ WillHold(toServer, srv, p, echo[Kind[p]][p])

\* Of a path that the watcher does not know the server was told that it is gone,
\* unless the engine has sent it before the watcher saw it.
UnknownInv ==
    backend = "single" =>
        \A p \in Paths : \/ p \in known
                         \/ echo[Kind[p]][p] \in Contents
                         \/ ~Free(events, EventDeleted(p))
                         \/ WillHold(toServer, srv, p, Absent)

\* The server will hold p as it is now, will ask for it or be sent it, or the
\* echo cache takes it for sent.
Right(p) ==
    \/ WillHold(toServer, srv, p, disk[p])
    \/ Kind[p] # "files" /\ disk[p] \in NonText
    \/ Kind[p] = "files" /\ ~Free(toClient, Requests(p))
    \/ Kind[p] = "files" /\ LastWord(toServer, Checks(p, disk[p]), About(p))
    \/ \E h \in hashed : h.path = p
    \/ TakenForSent(p)

\* A file that is there: the raw events end with one that shows it, or else the
\* watch events do, or else the messages are right.
PresentPart(p) ==
    \/ LastWord(raw, RawPresent(p), RawAbsent(p))
    \/ Free(raw, RawAbsent(p)) /\ LastWord(events, EventPresent(p), EventAbsent(p))
    \/ Free(raw, RawAbsent(p)) /\ Free(events, EventAbsent(p)) /\ Right(p)

\* A file that is not there: some event still says so, or the server will know.
AbsentPart(p) ==
    \/ ~Free(raw, RawGone(p))
    \/ ~Free(events, EventAbsent(p))
    \/ p \in known /\ ~Free(raw, RawDirGone(p))
    \/ WillHold(toServer, srv, p, Absent)

ReportPart(p) == IF disk[p] # Absent THEN PresentPart(p) ELSE AbsentPart(p)
ReportInv == \A p \in Paths \ unreported : ReportPart(p)

IInv == /\ TypeOK /\ Reports /\ Ghosts /\ UploadsAreFiles
        /\ KnownInv /\ EchoInv /\ UnknownInv /\ ReportInv

\* The events that delete p are among those that make its engine delete it.
LEMMA DeletedIsAbsent ==
    ASSUME NEW p \in Paths
    PROVE  \A q : ~Free(q, EventDeleted(p)) => ~Free(q, EventAbsent(p))
<1>1. EventDeleted(p) \subseteq EventAbsent(p)
  BY DEF EventDeleted, EventAbsent, Event, WatchEvents
<1> QED
  BY <1>1 DEF Free

\* What is never reported does not depend on the state.
LEMMA NeverKept ==
    UNCHANGED backend => RawNever' = RawNever /\ EventNever' = EventNever
BY DEF RawNever, EventNever

\* A step of the watcher keeps the invariant.
LEMMA ProcessInv == IInv /\ ProcessEvent => IInv'
<1> SUFFICES ASSUME IInv, ProcessEvent
             PROVE  IInv'
  OBVIOUS
<1>1. /\ raw # <<>> /\ raw' = Tail(raw)
      /\ UNCHANGED <<backend, disk, echo, uploadVars, serverVars, changes, unreported,
                         carried>>
  BY ProcessEffect DEF IInv
<1>2. PICK new : Effect(new)
  BY ProcessEffect DEF IInv
<1> DEFINE h == Head(raw)
<1>3. /\ new \in Seq(WatchEvents) /\ events' = events \o new /\ Free(new, EventNever)
      /\ known' \subseteq Paths \cup Dirs
      /\ \A p \in Paths : SaidOf(p, new) /\ KnownOf(p)
  BY <1>2 DEF Effect
<1>4. /\ raw \in Seq(RawEvents) /\ events \in Seq(WatchEvents)
  BY QueueTypes DEF IInv
<1>5. /\ raw' \in Seq(RawEvents)
      /\ \A B : Free(raw, B) => Free(raw', B) /\ h \notin B
      /\ \A B : ~Free(raw, B) => ~Free(raw', B) \/ h \in B
      /\ \A G, B : LastWord(raw, G, B) =>
            LastWord(raw', G, B) \/ (h \in G /\ Free(raw', B))
  BY <1>1, <1>4, QueueTail
<1>6. /\ events' \in Seq(WatchEvents)
      /\ \A B : Free(events', B) <=> Free(events, B) /\ Free(new, B)
      /\ \A G, B : LastWord(new, G, B) => LastWord(events', G, B)
      /\ \A G, B : LastWord(events, G, B) /\ Free(new, B) => LastWord(events', G, B)
  BY <1>3, <1>4, QueueJoin
<1> HIDE DEF h
<1>7. TypeOK'
  <2>1. TypeOK
    BY DEF IInv
  <2> QED
    BY <1>1, <1>3, <1>5, <1>6, <2>1 DEF TypeOK, RawEvents, WatchEvents, serverVars, uploadVars
<1>8. Reports'
  BY <1>1, <1>3, <1>5, <1>6, NeverKept DEF IInv, Reports
<1>9. Ghosts' /\ UploadsAreFiles' /\ EchoInv'
  BY <1>1 DEF IInv, Ghosts, IsFile, UploadsAreFiles, EchoInv, serverVars, uploadVars
<1>10. UnknownInv'
  BY <1>1, <1>3, <1>6 DEF IInv, UnknownInv, SaidOf, serverVars
<1>11. KnownInv'
  <2>1. ASSUME NEW p \in Paths, p \notin unreported \cup carried, disk[p] # Absent
        PROVE  \/ LastWord(raw', Tracks(p), UntracksFile(p))
               \/ p \in known' /\ Free(raw', UntracksFile(p))
    <3>1. \/ LastWord(raw, Tracks(p), UntracksFile(p))
          \/ p \in known /\ Free(raw, UntracksFile(p))
      BY <2>1 DEF IInv, KnownInv, KnownPart
    <3> QED
      BY <1>3, <1>5, <2>1, <3>1 DEF KnownOf, IsFile, h
  <2>2. ASSUME NEW p \in Paths, p \notin unreported \cup carried, disk[p] = Absent
        PROVE  \/ LastWord(raw', Untracks(p), TracksUnseen(p))
               \/ p \notin known' /\ Free(raw', TracksUnseen(p))
    <3>1. \/ LastWord(raw, Untracks(p), TracksUnseen(p))
          \/ p \notin known /\ Free(raw, TracksUnseen(p))
      BY <2>2 DEF IInv, KnownInv, KnownPart
    <3> QED
      BY <1>3, <1>5, <2>2, <3>1 DEF KnownOf, IsFile, h
  <2> QED
    BY <1>1, <2>1, <2>2 DEF KnownInv, KnownPart
<1>12. ReportInv'
  <2>1. ASSUME NEW p \in Paths, PresentPart(p), disk[p] # Absent PROVE PresentPart(p)'
    <3>1. Right(p)' <=> Right(p)
      BY <1>1 DEF Right, TakenForSent, serverVars, uploadVars
    <3>2. /\ h \in RawPresent(p) => LastWord(new, EventPresent(p), EventAbsent(p))
          /\ h \notin RawAbsent(p) => Free(new, EventAbsent(p))
      BY <1>3, <2>1 DEF SaidOf, IsFile, h
    <3>3. CASE LastWord(raw, RawPresent(p), RawAbsent(p))
      BY <1>5, <1>6, <3>2, <3>3 DEF PresentPart
    <3>4. CASE Free(raw, RawAbsent(p)) /\ LastWord(events, EventPresent(p), EventAbsent(p))
      BY <1>5, <1>6, <3>2, <3>4 DEF PresentPart
    <3>5. CASE Free(raw, RawAbsent(p)) /\ Free(events, EventAbsent(p)) /\ Right(p)
      BY <1>5, <1>6, <3>1, <3>2, <3>5 DEF PresentPart
    <3> QED
      BY <2>1, <3>3, <3>4, <3>5 DEF PresentPart
  <2>2. ASSUME NEW p \in Paths, AbsentPart(p), disk[p] = Absent PROVE AbsentPart(p)'
    <3>1. /\ h \in RawGone(p) => ~Free(new, EventAbsent(p))
          /\ backend = "single" /\ p \in known /\ p \notin known' => ~Free(new, EventDeleted(p))
          /\ p \in known /\ h \in RawDirGone(p) => ~Free(new, EventDeleted(p))
      BY <1>3, <2>2 DEF SaidOf, IsFile, h
    <3>2. CASE ~Free(raw, RawGone(p))
      BY <1>5, <1>6, <3>1, <3>2 DEF AbsentPart
    <3>3. CASE ~Free(events, EventAbsent(p))
      BY <1>6, <3>3 DEF AbsentPart
    <3>4. CASE p \in known /\ ~Free(raw, RawDirGone(p))
      <4>1. backend = "single"
        <5>1. backend \in {"paired", "single"}
          BY BackendType DEF IInv
        <5>2. backend = "paired" => RawDirGone(p) \subseteq RawNever
          BY DEF RawDirGone, RawNever
        <5>3. Free(raw, RawNever)
          BY DEF IInv, Reports
        <5> QED
          BY <3>4, <5>1, <5>2, <5>3 DEF Free
      <4> QED
        BY <1>5, <1>6, <3>1, <3>4, <4>1, DeletedIsAbsent DEF AbsentPart
    <3>5. CASE WillHold(toServer, srv, p, Absent)
      BY <1>1, <3>5 DEF AbsentPart, serverVars
    <3> QED
      BY <2>2, <3>2, <3>3, <3>4, <3>5 DEF AbsentPart
  <2> QED
    BY <1>1, <2>1, <2>2 DEF IInv, ReportInv, ReportPart
<1> QED
  BY <1>7, <1>8, <1>9, <1>10, <1>11, <1>12 DEF IInv

\* A change of the user keeps it.
LEMMA ChangeInv == IInv /\ UserChanges => IInv'
<1> SUFFICES ASSUME IInv, UserChanges
             PROVE  IInv'
  OBVIOUS
<1>1. /\ changes' = changes + 1
      /\ UNCHANGED <<backend, known, events, echo, uploadVars, serverVars>>
  BY ChangeEffect DEF IInv
<1>2. PICK reports : Changed(reports)
  BY ChangeEffect DEF IInv
<1>3. /\ reports \in Seq(RawEvents) /\ raw' = raw \o reports /\ Free(reports, RawNever)
      /\ disk' \in [Paths -> Contents \cup {Absent}]
      /\ unreported' \subseteq Paths /\ carried' \subseteq Paths
      /\ \A p \in Paths : p \in carried' => disk'[p] # Absent
      /\ \A p \in Paths : p \in unreported' /\ disk'[p] # Absent => p \in carried'
      /\ \A p \in Paths : Told(p, reports) /\ Listed(p, reports)
  BY <1>2 DEF Changed
<1>4. raw \in Seq(RawEvents)
  BY QueueTypes DEF IInv
<1>5. /\ raw' \in Seq(RawEvents)
      /\ \A B : Free(raw', B) <=> Free(raw, B) /\ Free(reports, B)
      /\ \A G, B : LastWord(reports, G, B) => LastWord(raw', G, B)
      /\ \A G, B : LastWord(raw, G, B) /\ Free(reports, B) => LastWord(raw', G, B)
  BY <1>3, <1>4, QueueJoin
<1>6. TypeOK'
  <2>1. TypeOK
    BY DEF IInv
  <2>2. changes' \in Nat
    BY <1>1, <2>1 DEF TypeOK
  <2>3. raw' \in Seq([kind : RawKinds, from : Paths \cup Dirs, path : Paths \cup Dirs])
    BY <1>5 DEF RawEvents
  <2> QED
    BY <1>1, <1>3, <2>1, <2>2, <2>3 DEF TypeOK, serverVars, uploadVars
<1>7. Reports'
  BY <1>1, <1>3, <1>5, NeverKept DEF IInv, Reports
<1>8. Ghosts'
  BY <1>3 DEF Ghosts, IsFile
<1>9. UploadsAreFiles' /\ EchoInv' /\ UnknownInv'
  BY <1>1 DEF IInv, UploadsAreFiles, EchoInv, UnknownInv, serverVars, uploadVars
<1>10. KnownInv'
  <2>1. ASSUME NEW p \in Paths, p \notin unreported' \cup carried', disk'[p] # Absent
        PROVE  \/ LastWord(raw', Tracks(p), UntracksFile(p))
               \/ p \in known' /\ Free(raw', UntracksFile(p))
    <3>1. CASE LastWord(reports, Tracks(p), UntracksFile(p))
      BY <1>5, <3>1
    <3>2. CASE /\ p \notin unreported \cup carried /\ disk[p] # Absent
               /\ Free(reports, UntracksFile(p))
      <4>1. \/ LastWord(raw, Tracks(p), UntracksFile(p))
            \/ p \in known /\ Free(raw, UntracksFile(p))
        BY <3>2 DEF IInv, KnownInv, KnownPart
      <4> QED
        BY <1>1, <1>5, <3>2, <4>1
    <3> QED
      BY <1>3, <2>1, <3>1, <3>2 DEF Listed
  <2>2. ASSUME NEW p \in Paths, p \notin unreported' \cup carried', disk'[p] = Absent
        PROVE  \/ LastWord(raw', Untracks(p), TracksUnseen(p))
               \/ p \notin known' /\ Free(raw', TracksUnseen(p))
    <3>1. CASE LastWord(reports, Untracks(p), TracksUnseen(p))
      BY <1>5, <3>1
    <3>2. CASE /\ p \notin unreported \cup carried /\ disk[p] = Absent
               /\ Free(reports, TracksUnseen(p))
      <4>1. \/ LastWord(raw, Untracks(p), TracksUnseen(p))
            \/ p \notin known /\ Free(raw, TracksUnseen(p))
        BY <3>2 DEF IInv, KnownInv, KnownPart
      <4> QED
        BY <1>1, <1>5, <3>2, <4>1
    <3> QED
      BY <1>3, <2>2, <3>1, <3>2 DEF Listed
  <2> QED
    BY <2>1, <2>2 DEF KnownInv, KnownPart
<1>11. ReportInv'
  <2>1. ASSUME NEW p \in Paths, p \notin unreported', disk'[p] # Absent
        PROVE  PresentPart(p)'
    <3>1. CASE LastWord(reports, RawPresent(p), RawAbsent(p))
      BY <1>5, <3>1 DEF PresentPart
    <3>2. CASE p \notin unreported /\ disk'[p] = disk[p] /\ Free(reports, RawAbsent(p))
      <4>1. PresentPart(p)
        BY <2>1, <3>2 DEF IInv, ReportInv, ReportPart
      <4>2. Right(p)' <=> Right(p)
        BY <1>1, <3>2 DEF Right, TakenForSent, serverVars, uploadVars
      <4> QED
        BY <1>1, <1>5, <3>2, <4>1, <4>2 DEF PresentPart
    <3> QED
      BY <1>3, <2>1, <3>1, <3>2 DEF Told
  <2>2. ASSUME NEW p \in Paths, p \notin unreported', disk'[p] = Absent
        PROVE  AbsentPart(p)'
    <3>1. CASE ~Free(reports, RawGone(p))
      BY <1>5, <3>1 DEF AbsentPart
    <3>2. CASE p \notin unreported /\ disk[p] = Absent
      <4>1. AbsentPart(p)
        BY <3>2 DEF IInv, ReportInv, ReportPart
      <4> QED
        BY <1>1, <1>5, <4>1 DEF AbsentPart, serverVars
    <3>3. CASE p \in known /\ ~Free(reports, RawDirGone(p))
      BY <1>1, <1>5, <3>3 DEF AbsentPart
    <3>4. CASE p \notin known /\ backend = "single" /\ NothingToUntell(p)
      <4>1. ~Free(events, EventDeleted(p)) \/ WillHold(toServer, srv, p, Absent)
        BY <3>4 DEF IInv, UnknownInv, NothingToUntell
      <4> QED
        BY <1>1, <4>1, DeletedIsAbsent DEF AbsentPart, serverVars
    <3> QED
      BY <1>3, <2>2, <3>1, <3>2, <3>3, <3>4 DEF Told
  <2> QED
    BY <2>1, <2>2 DEF ReportInv, ReportPart
<1> QED
  BY <1>6, <1>7, <1>8, <1>9, <1>10, <1>11 DEF IInv

\* What the engines send keeps the echo caches true, and what the server will
\* hold of a file, or of one that is gone.
LEMMA SendInv ==
    ASSUME IInv, UNCHANGED <<disk, srv>>, NEW out \in Seq(ClientMsgs),
           toServer' = toServer \o out, NEW p \in Paths,
           (p \in misread' <=> p \in misread) \/ Sends(p, out)
    PROVE  /\ Silent(p, out) \/ Tells(p, out) \/ Sends(p, out) \/ Untells(p, out) =>
                 (echo'[Kind[p]][p] \in Contents
                     => p \in misread' \/ WillHold(toServer', srv', p, echo'[Kind[p]][p]))
           /\ Silent(p, out) => \A v : WillHold(toServer, srv, p, v) => WillHold(toServer', srv', p, v)
           /\ Tells(p, out) \/ Sends(p, out) => WillHold(toServer', srv', p, disk'[p])
           /\ Untells(p, out) => WillHold(toServer', srv', p, Absent)
           /\ disk[p] # Absent /\ (Silent(p, out) \/ Tells(p, out)) /\ echo[Kind[p]][p] = disk[p]
                 => WillHold(toServer', srv', p, disk'[p]) \/ TakenForSent(p)'
           /\ disk[p] # Absent /\ (Silent(p, out) \/ Tells(p, out))
                 /\ WillHold(toServer, srv, p, disk[p]) => WillHold(toServer', srv', p, disk'[p])
<1>1. toServer \in Seq(ClientMsgs)
  BY QueueTypes DEF IInv
<1>2. /\ \A v : Free(out, About(p)) /\ WillHold(toServer, srv, p, v)
                  => WillHold(toServer', srv', p, v)
      /\ \A v : LastWord(out, Sets(p, v), Unsets(p, v)) => WillHold(toServer', srv', p, v)
  BY <1>1, HoldSent
<1>3. Silent(p, out) => \A v : WillHold(toServer, srv, p, v) => WillHold(toServer', srv', p, v)
  BY <1>2 DEF Silent
<1>4. Tells(p, out) \/ Sends(p, out) => WillHold(toServer', srv', p, disk'[p])
  BY <1>2 DEF Tells, Sends
<1>5. Untells(p, out) => WillHold(toServer', srv', p, Absent)
  BY <1>2 DEF Untells
<1>6. Sends(p, out) => p \in misread' \/ WillHold(toServer', srv', p, echo'[Kind[p]][p])
  BY <1>4 DEF Sends
<1>7. Silent(p, out) /\ echo'[Kind[p]][p] \in Contents
         => p \in misread' \/ WillHold(toServer', srv', p, echo'[Kind[p]][p])
  BY <1>3, <1>6 DEF Silent, IInv, EchoInv
<1>8. Tells(p, out) => WillHold(toServer', srv', p, echo'[Kind[p]][p])
  BY <1>4 DEF Tells
<1>9. Untells(p, out) => echo'[Kind[p]][p] \notin Contents
  BY VaultWatchAssumption DEF Untells, VaultWatchAssumption
<1>10. disk[p] # Absent => disk[p] \in Contents
  BY DEF IInv, TypeOK
<1>11. ASSUME disk[p] # Absent, Silent(p, out), echo[Kind[p]][p] = disk[p]
       PROVE  WillHold(toServer', srv', p, disk'[p]) \/ TakenForSent(p)'
  <2>1. p \in misread \/ WillHold(toServer, srv, p, disk[p])
    BY <1>10, <1>11 DEF IInv, EchoInv
  <2>2. p \in misread /\ ~Sends(p, out) => TakenForSent(p)'
    BY <1>11 DEF TakenForSent, Silent
  <2> QED
    BY <1>3, <1>4, <1>11, <2>1, <2>2
<1> QED
  BY <1>3, <1>4, <1>5, <1>6, <1>7, <1>8, <1>9, <1>10, <1>11

\* No event shows p and makes its engine delete it.
LEMMA PresentOrAbsent ==
    ASSUME NEW p \in Paths, NEW e \in WatchEvents, e \notin EventNever, e \in EventPresent(p)
    PROVE  e \notin EventAbsent(p)
BY DEF EventPresent, EventAbsent, EventNever

\* A watch event handled keeps the invariant.
LEMMA HandleInv == IInv /\ HandleWatchEvent => IInv'
<1> SUFFICES ASSUME IInv, HandleWatchEvent
             PROVE  IInv'
  OBVIOUS
<1>1. /\ events # <<>> /\ events' = Tail(events)
      /\ UNCHANGED <<backend, disk, known, raw, toClient, srv, changes, unreported, carried,
                      hashed, misread>>
  BY DEF HandleWatchEvent, uploadVars
<1>2. PICK out \in Seq(ClientMsgs) :
         /\ toServer' = toServer \o out
         /\ echo' \in [Engines -> [Paths -> Contents \cup {DeletedMarker, NoEntry}]]
         /\ \A p \in Paths : Answers(p, out)
         /\ Free(out, WrongUploads)
  BY HandleAnswers DEF IInv
<1> DEFINE h == Head(events)
<1>3. events \in Seq(WatchEvents) /\ toServer \in Seq(ClientMsgs)
  BY QueueTypes DEF IInv
<1>4. /\ events' \in Seq(WatchEvents) /\ h \in WatchEvents
      /\ \A B : Free(events, B) => Free(events', B) /\ h \notin B
      /\ \A B : ~Free(events, B) => ~Free(events', B) \/ h \in B
      /\ \A G, B : LastWord(events, G, B) =>
            LastWord(events', G, B) \/ (h \in G /\ Free(events', B))
  BY <1>1, <1>3, QueueTail
<1>5. /\ toServer' \in Seq(ClientMsgs)
      /\ \A B : Free(toServer', B) <=> Free(toServer, B) /\ Free(out, B)
      /\ \A G, B : LastWord(out, G, B) => LastWord(toServer', G, B)
      /\ \A G, B : LastWord(toServer, G, B) /\ Free(out, B) => LastWord(toServer', G, B)
  BY <1>2, <1>3, QueueJoin
<1> HIDE DEF h
<1>6. \A p \in Paths :
         /\ h \in EventAbsent(p) => Untells(p, out)
         /\ h \notin EventAbsent(p) => Silent(p, out) \/ Tells(p, out)
         /\ h \in EventPresent(p) /\ h \notin EventAbsent(p) /\ disk[p] # Absent
               => Tells(p, out) \/ Asked(p, out)
  BY <1>2 DEF Answers, h
<1>7. TypeOK'
  <2>1. TypeOK
    BY DEF IInv
  <2>2. events' \in Seq([kind : {"Created", "Modified", "Deleted", "Moved"},
                         from : Paths \cup Dirs, path : Paths \cup Dirs])
    BY <1>4 DEF WatchEvents
  <2> QED
    BY <1>1, <1>2, <1>5, <2>1, <2>2 DEF TypeOK
<1>8. Reports' /\ Ghosts' /\ UploadsAreFiles'
  <2>1. Reports'
    BY <1>1, <1>4, NeverKept DEF IInv, Reports
  <2>2. Ghosts'
    BY <1>1 DEF IInv, Ghosts, IsFile
  <2>3. UploadsAreFiles'
    BY <1>1, <1>2, <1>5 DEF IInv, UploadsAreFiles
  <2> QED
    BY <2>1, <2>2, <2>3
<1>9. KnownInv'
  BY <1>1 DEF IInv, KnownInv, KnownPart
<1>10. EchoInv'
  BY <1>1, <1>2, <1>6, SendInv DEF EchoInv
<1>11. UnknownInv'
  <2>1. ASSUME NEW p \in Paths,
               p \in known \/ echo[Kind[p]][p] \in Contents
                 \/ ~Free(events, EventDeleted(p)) \/ WillHold(toServer, srv, p, Absent)
        PROVE  p \in known' \/ echo'[Kind[p]][p] \in Contents
                 \/ ~Free(events', EventDeleted(p)) \/ WillHold(toServer', srv', p, Absent)
    <3>1. h \in EventDeleted(p) => h \in EventAbsent(p)
      BY <1>4 DEF EventDeleted, EventAbsent, Event
    <3>2. CASE Untells(p, out)
      BY <1>1, <1>2, <3>2, SendInv
    <3>3. CASE Silent(p, out) /\ h \notin EventAbsent(p)
      BY <1>1, <1>2, <1>4, <2>1, <3>1, <3>3, SendInv DEF Silent
    <3>4. CASE Tells(p, out)
      <4>1. disk[p] \in Contents
        BY <3>4 DEF Tells, IInv, TypeOK
      <4> QED
        BY <3>4, <4>1 DEF Tells
    <3> QED
      BY <1>6, <3>2, <3>3, <3>4
  <2> QED
    BY <1>1, <2>1 DEF IInv, UnknownInv
<1>12. ReportInv'
  <2>1. ASSUME NEW p \in Paths, PresentPart(p), disk[p] # Absent PROVE PresentPart(p)'
    <3>1. CASE LastWord(raw, RawPresent(p), RawAbsent(p))
      BY <1>1, <3>1 DEF PresentPart
    <3>2. CASE /\ Free(raw, RawAbsent(p)) /\ h \in EventPresent(p)
               /\ Free(events', EventAbsent(p))
      <4>1. h \notin EventNever
        BY <1>1, <1>3, QueueTail DEF IInv, Reports, h
      <4>2. h \notin EventAbsent(p)
        BY <1>4, <3>2, <4>1, PresentOrAbsent
      <4>3. (Silent(p, out) \/ Tells(p, out)) /\ (Tells(p, out) \/ Asked(p, out))
        BY <1>6, <2>1, <3>2, <4>2
      <4>4. Right(p)'
        <5>1. CASE Tells(p, out) \/ echo[Kind[p]][p] = disk[p]
          BY <1>1, <1>2, <2>1, <4>3, <5>1, SendInv DEF Right
        <5>2. CASE Kind[p] # "files" /\ disk[p] \in NonText
          BY <1>1, <5>2 DEF Right
        <5>3. CASE Kind[p] = "files" /\ LastWord(out, Checks(p, disk[p]), About(p))
          BY <1>1, <1>5, <5>3 DEF Right
        <5> QED
          BY <4>3, <5>1, <5>2, <5>3 DEF Asked
      <4> QED
        BY <1>1, <3>2, <4>4 DEF PresentPart
    <3>3. CASE Free(raw, RawAbsent(p)) /\ LastWord(events', EventPresent(p), EventAbsent(p))
      BY <1>1, <3>3 DEF PresentPart
    <3>4. CASE Free(raw, RawAbsent(p)) /\ Free(events, EventAbsent(p)) /\ Right(p)
      <4>1. Free(events', EventAbsent(p)) /\ (Silent(p, out) \/ Tells(p, out))
        BY <1>4, <1>6, <3>4
      <4>2. Right(p)'
        <5>1. CASE WillHold(toServer, srv, p, disk[p]) \/ Tells(p, out)
          BY <1>1, <1>2, <2>1, <4>1, <5>1, SendInv DEF Right
        <5>2. CASE (Kind[p] # "files" /\ disk[p] \in NonText) \/ \E g \in hashed : g.path = p
          BY <1>1, <5>2 DEF Right
        <5>3. CASE Kind[p] = "files" /\ ~Free(toClient, Requests(p))
          BY <1>1, <5>3 DEF Right
        <5>4. CASE /\ Kind[p] = "files" /\ LastWord(toServer, Checks(p, disk[p]), About(p))
                   /\ Silent(p, out)
          BY <1>1, <1>5, <5>4 DEF Right, Silent
        <5>5. CASE TakenForSent(p) /\ Silent(p, out)
          BY <1>1, <5>5 DEF Right, TakenForSent, Silent
        <5> QED
          BY <3>4, <4>1, <5>1, <5>2, <5>3, <5>4, <5>5 DEF Right
      <4> QED
        BY <1>1, <3>4, <4>1, <4>2 DEF PresentPart
    <3> QED
      BY <1>4, <2>1, <3>1, <3>2, <3>3, <3>4 DEF PresentPart
  <2>2. ASSUME NEW p \in Paths, AbsentPart(p), disk[p] = Absent PROVE AbsentPart(p)'
    <3>1. ~Tells(p, out)
      BY <2>2 DEF Tells
    <3>2. CASE Untells(p, out)
      BY <1>1, <1>2, <3>2, SendInv DEF AbsentPart
    <3>3. CASE Silent(p, out) /\ h \notin EventAbsent(p)
      <4>1. WillHold(toServer, srv, p, Absent) => WillHold(toServer', srv', p, Absent)
        BY <1>1, <1>2, <3>3, SendInv
      <4> QED
        BY <1>1, <1>4, <2>2, <3>3, <4>1 DEF AbsentPart
    <3> QED
      BY <1>6, <3>1, <3>2, <3>3
  <2> QED
    BY <1>1, <2>1, <2>2 DEF IInv, ReportInv, ReportPart
<1> QED
  BY <1>7, <1>8, <1>9, <1>10, <1>11, <1>12 DEF IInv

\* So does a file hashed for its upload.
LEMMA HashInv == IInv /\ HandleUploadSession => IInv'
<1> SUFFICES ASSUME IInv, HandleUploadSession
             PROVE  IInv'
  OBVIOUS
<1> DEFINE x == Head(toClient).path
<1>1. /\ toClient # <<>> /\ toClient' = Tail(toClient)
      /\ UNCHANGED <<backend, disk, known, raw, events, echo, toServer, srv, changes,
                     unreported, carried, misread>>
      /\ hashed = {}
      /\ \/ /\ IsFile(x) /\ echo["files"][x] # disk[x]
            /\ hashed' = {[path |-> x, content |-> disk[x]]}
         \/ (~IsFile(x) \/ echo["files"][x] = disk[x]) /\ hashed' = hashed
  BY DEF HandleUploadSession, watchVars
<1>2. toClient \in Seq(ServerMsgs) /\ disk \in [Paths -> Contents \cup {Absent}]
  BY QueueTypes DEF IInv, TypeOK
<1>3. /\ toClient' \in Seq(ServerMsgs) /\ Head(toClient) \in ServerMsgs
      /\ \A B : Free(toClient, B) => Free(toClient', B) /\ Head(toClient) \notin B
      /\ \A B : ~Free(toClient, B) => ~Free(toClient', B) \/ Head(toClient) \in B
  BY <1>1, <1>2, QueueTail
<1>4. x \in Paths /\ Kind[x] = "files"
  BY <1>3 DEF IInv, UploadsAreFiles, ServerMsgs
<1>5. \A p \in Paths : Head(toClient) \in Requests(p) => p = x
  BY DEF Requests
<1> HIDE DEF x
<1>6. hashed' \subseteq [path : Paths, content : Contents]
      /\ \A h \in hashed' : Kind[h.path] = "files"
  BY <1>1, <1>2, <1>4 DEF IsFile
<1>7. TypeOK'
  <2>1. TypeOK
    BY DEF IInv
  <2>2. toClient' \in Seq([type : {"FileUpload"}, path : Paths])
    BY <1>3 DEF ServerMsgs
  <2> QED
    BY <1>1, <1>6, <2>1, <2>2 DEF TypeOK
<1>8. Reports' /\ Ghosts' /\ UploadsAreFiles'
  <2>1. Reports'
    BY <1>1, NeverKept DEF IInv, Reports
  <2>2. Ghosts'
    BY <1>1 DEF IInv, Ghosts, IsFile
  <2>3. UploadsAreFiles'
    BY <1>1, <1>3, <1>6 DEF IInv, UploadsAreFiles
  <2> QED
    BY <2>1, <2>2, <2>3
<1>9. KnownInv' /\ EchoInv' /\ UnknownInv'
  BY <1>1 DEF IInv, KnownInv, KnownPart, EchoInv, UnknownInv
<1>10. ReportInv'
  <2>1. ASSUME NEW p \in Paths, Right(p), disk[p] # Absent PROVE Right(p)'
    <3>1. CASE Kind[p] = "files" /\ ~Free(toClient, Requests(p))
      <4>1. CASE ~Free(toClient', Requests(p))
        BY <3>1, <4>1 DEF Right
      <4>2. CASE p = x
        <5>1. CASE hashed' = {[path |-> x, content |-> disk[x]]}
          BY <4>2, <5>1 DEF Right
        <5>2. CASE echo["files"][x] = disk[x]
          <6>1. p \in misread \/ WillHold(toServer, srv, p, disk[p])
            BY <1>2, <1>4, <2>1, <4>2, <5>2 DEF IInv, EchoInv
          <6> QED
            BY <1>1, <1>4, <4>2, <5>2, <6>1 DEF Right, TakenForSent
        <5> QED
          BY <1>1, <1>4, <2>1, <4>2, <5>1, <5>2 DEF IsFile
      <4> QED
        BY <1>3, <1>5, <3>1, <4>1, <4>2
    <3>2. CASE ~(Kind[p] = "files" /\ ~Free(toClient, Requests(p)))
      BY <1>1, <2>1, <3>2 DEF Right, TakenForSent
    <3> QED
      BY <3>1, <3>2
  <2>2. ASSUME NEW p \in Paths, PresentPart(p), disk[p] # Absent PROVE PresentPart(p)'
    BY <1>1, <2>1, <2>2 DEF PresentPart
  <2>3. ASSUME NEW p \in Paths, AbsentPart(p), disk[p] = Absent PROVE AbsentPart(p)'
    BY <1>1, <2>3 DEF AbsentPart
  <2> QED
    BY <1>1, <2>2, <2>3 DEF IInv, ReportInv, ReportPart
<1> QED
  BY <1>7, <1>8, <1>9, <1>10 DEF IInv

\* A file sent keeps it, whatever the user has done since it was hashed.
LEMMA UploadInv == IInv /\ UploadFile => IInv'
<1> SUFFICES ASSUME IInv, UploadFile
             PROVE  IInv'
  OBVIOUS
<1>1. UNCHANGED <<backend, disk, known, raw, events, toClient, srv, changes, unreported,
                  carried>>
  BY DEF UploadFile, watchVars
<1>2. PICK out \in Seq(ClientMsgs) :
         /\ toServer' = toServer \o out
         /\ echo' \in [Engines -> [Paths -> Contents \cup {DeletedMarker, NoEntry}]]
         /\ hashed' \subseteq hashed /\ misread' \subseteq Paths
         /\ Free(out, WrongUploads)
         /\ \A p \in Paths : \/ Silent(p, out) /\ (p \in misread' <=> p \in misread)
                             \/ Sends(p, out)
         /\ \A p \in Paths : \A h \in hashed :
               h.path = p /\ disk[p] # Absent => h \in hashed' \/ Sends(p, out)
  BY UploadAnswers DEF IInv
<1>3. toServer \in Seq(ClientMsgs)
  BY QueueTypes DEF IInv
<1>4. /\ toServer' \in Seq(ClientMsgs)
      /\ \A B : Free(toServer', B) <=> Free(toServer, B) /\ Free(out, B)
      /\ \A G, B : LastWord(toServer, G, B) /\ Free(out, B) => LastWord(toServer', G, B)
  BY <1>2, <1>3, QueueJoin
<1>5. \A p \in Paths : Sends(p, out) \/ (Silent(p, out) /\ (p \in misread' <=> p \in misread))
  BY <1>2
<1>6. TypeOK'
  <2>1. TypeOK
    BY DEF IInv
  <2> QED
    BY <1>1, <1>2, <1>4, <2>1 DEF TypeOK
<1>7. Reports' /\ Ghosts' /\ UploadsAreFiles'
  <2>1. Reports'
    BY <1>1, NeverKept DEF IInv, Reports
  <2>2. Ghosts'
    BY <1>1 DEF IInv, Ghosts, IsFile
  <2>3. UploadsAreFiles'
    BY <1>1, <1>2, <1>4 DEF IInv, UploadsAreFiles
  <2> QED
    BY <2>1, <2>2, <2>3
<1>8. KnownInv'
  BY <1>1 DEF IInv, KnownInv, KnownPart
<1>9. EchoInv'
  BY <1>1, <1>2, <1>5, SendInv DEF EchoInv
<1>10. UnknownInv'
  <2>1. ASSUME NEW p \in Paths,
               p \in known \/ echo[Kind[p]][p] \in Contents
                 \/ ~Free(events, EventDeleted(p)) \/ WillHold(toServer, srv, p, Absent)
        PROVE  p \in known' \/ echo'[Kind[p]][p] \in Contents
                 \/ ~Free(events', EventDeleted(p)) \/ WillHold(toServer', srv', p, Absent)
    <3>1. CASE Silent(p, out) /\ (p \in misread' <=> p \in misread)
      BY <1>1, <1>2, <2>1, <3>1, SendInv DEF Silent
    <3>2. CASE Sends(p, out)
      BY <3>2 DEF Sends
    <3> QED
      BY <1>5, <3>1, <3>2
  <2> QED
    BY <1>1, <2>1 DEF IInv, UnknownInv
<1>11. ReportInv'
  <2>1. ASSUME NEW p \in Paths, Right(p), disk[p] # Absent PROVE Right(p)'
    <3>1. CASE Sends(p, out)
      BY <1>1, <1>2, <3>1, SendInv DEF Right
    <3>2. CASE Silent(p, out) /\ (p \in misread' <=> p \in misread) /\ ~Sends(p, out)
      <4>1. CASE WillHold(toServer, srv, p, disk[p])
        BY <1>1, <1>2, <2>1, <3>2, <4>1, SendInv DEF Right
      <4>2. CASE \/ Kind[p] # "files" /\ disk[p] \in NonText
                 \/ Kind[p] = "files" /\ ~Free(toClient, Requests(p))
        BY <1>1, <4>2 DEF Right
      <4>3. CASE Kind[p] = "files" /\ LastWord(toServer, Checks(p, disk[p]), About(p))
        BY <1>1, <1>4, <3>2, <4>3 DEF Right, Silent
      <4>4. CASE \E h \in hashed : h.path = p
        BY <1>2, <2>1, <3>2, <4>4 DEF Right
      <4>5. CASE TakenForSent(p)
        BY <1>1, <3>2, <4>5 DEF Right, TakenForSent, Silent
      <4> QED
        BY <2>1, <4>1, <4>2, <4>3, <4>4, <4>5 DEF Right
    <3> QED
      BY <1>5, <3>1, <3>2
  <2>2. ASSUME NEW p \in Paths, PresentPart(p), disk[p] # Absent PROVE PresentPart(p)'
    BY <1>1, <2>1, <2>2 DEF PresentPart
  <2>3. ASSUME NEW p \in Paths, AbsentPart(p), disk[p] = Absent PROVE AbsentPart(p)'
    <3>1. Silent(p, out) /\ (p \in misread' <=> p \in misread)
      BY <1>5, <2>3 DEF Sends
    <3>2. WillHold(toServer, srv, p, Absent) => WillHold(toServer', srv', p, Absent)
      BY <1>1, <1>2, <3>1, SendInv
    <3> QED
      BY <1>1, <2>3, <3>2 DEF AbsentPart
  <2> QED
    BY <1>1, <2>2, <2>3 DEF IInv, ReportInv, ReportPart
<1> QED
  BY <1>6, <1>7, <1>8, <1>9, <1>10, <1>11 DEF IInv

\* The server keeps the types, and answers about files only.
LEMMA ServerTypes ==
    ASSUME IInv, ServerStep
    PROVE  /\ srv' \in [Paths -> Contents \cup {Absent}]
           /\ toServer' \in Seq(ClientMsgs) /\ toClient' \in Seq(ServerMsgs)
           /\ UploadsAreFiles'
           /\ \A p \in Paths : /\ ~Free(toClient, Requests(p)) => ~Free(toClient', Requests(p))
                               /\ Head(toServer) \in Checks(p, disk[p]) /\ srv[p] # disk[p]
                                     => ~Free(toClient', Requests(p))
<1> DEFINE m == Head(toServer)
           e == [type |-> "FileUpload", path |-> m.path]
           asks == m.type = "FileUploadCheck" /\ srv[m.path] # m.content
<1>1. /\ toServer # <<>> /\ toServer' = Tail(toServer) /\ srv' = Stored(m)
      /\ asks => toClient' = Append(toClient, e)
      /\ ~asks => toClient' = toClient
      /\ hashed' = hashed
  BY DEF ServerStep, uploadVars
<1>2. toServer \in Seq(ClientMsgs) /\ toClient \in Seq(ServerMsgs)
      /\ srv \in [Paths -> Contents \cup {Absent}]
  BY QueueTypes DEF IInv, TypeOK
<1>3. /\ m \in ClientMsgs /\ toServer' \in Seq(ClientMsgs)
      /\ \A B : Free(toServer, B) => Free(toServer', B) /\ m \notin B
  BY <1>1, <1>2, QueueTail
<1>4. m.path \in Paths /\ e \in ServerMsgs
  BY <1>3 DEF ClientMsgs, ServerMsgs
<1>5. srv' \in [Paths -> Contents \cup {Absent}]
  BY <1>1, <1>2, <1>3 DEF Stored, ClientMsgs
<1> HIDE DEF m, e, asks
<1>6. PICK r \in Seq(ServerMsgs) : /\ toClient' = toClient \o r
                                   /\ asks => r = <<e>>
                                   /\ ~asks => r = <<>>
  <2>1. CASE asks
    <3>1. <<e>> \in Seq(ServerMsgs)
      BY <1>4
    <3>2. \A s \in Seq(ServerMsgs) : Append(s, e) = s \o <<e>>
      BY <1>4
    <3>3. toClient' = toClient \o <<e>>
      BY <1>1, <1>2, <2>1, <3>2
    <3> QED
      BY <2>1, <3>1, <3>3
  <2>2. CASE ~asks
    <3>1. <<>> \in Seq(ServerMsgs) /\ toClient' = toClient \o <<>>
      BY <1>1, <1>2, <2>2
    <3> QED
      BY <2>2, <3>1
  <2> QED
    BY <2>1, <2>2
<1>7. /\ toClient' \in Seq(ServerMsgs)
      /\ \A B : Free(toClient', B) <=> Free(toClient, B) /\ Free(r, B)
  BY <1>2, <1>6, QueueJoin
<1>8. UploadsAreFiles'
  <2> DEFINE W == { n \in ServerMsgs : Kind[n.path] # "files" }
  <2>1. m \notin WrongUploads /\ Free(toServer', WrongUploads) /\ Free(toClient, W)
    BY <1>3 DEF IInv, UploadsAreFiles
  <2>2. asks => e \notin W
    BY <1>3, <2>1 DEF WrongUploads, asks, e
  <2> HIDE DEF W
  <2>3. Free(r, W)
    <3>1. \A B : (Free(<<e>>, B) <=> e \notin B) /\ Free(<<>>, B)
      BY <1>4, <1>6, QueueLast
    <3> QED
      BY <1>6, <2>2, <3>1
  <2> QED
    BY <1>1, <1>7, <2>1, <2>3 DEF IInv, UploadsAreFiles, W
<1>9. ASSUME NEW p \in Paths, m \in Checks(p, disk[p]), srv[p] # disk[p]
      PROVE  ~Free(toClient', Requests(p))
  <2>1. asks /\ e \in Requests(p)
    BY <1>9 DEF Checks, Requests, asks, e
  <2>2. ~Free(r, Requests(p))
    BY <1>4, <1>6, <2>1, QueueLast
  <2> QED
    BY <1>7, <2>2
<1> QED
  BY <1>3, <1>5, <1>7, <1>8, <1>9 DEF m

\* A message handled by the server keeps the invariant.
LEMMA ServerInv == IInv /\ ServerStep => IInv'
<1> SUFFICES ASSUME IInv, ServerStep
             PROVE  IInv'
  OBVIOUS
<1>1. /\ toServer # <<>> /\ toServer' = Tail(toServer)
      /\ UNCHANGED <<backend, disk, known, raw, events, echo, changes, unreported, carried,
                      hashed, misread>>
  BY DEF ServerStep, watchVars, uploadVars
<1>2. TypeOK
  BY DEF IInv
<1>3. \A p \in Paths : \A v : WillHold(toServer, srv, p, v) => WillHold(toServer', srv', p, v)
  BY <1>2, HoldServed
<1>4. TypeOK'
  <2>1. toClient' \in Seq([type : {"FileUpload"}, path : Paths])
    BY ServerTypes DEF ServerMsgs
  <2>2. srv' \in [Paths -> Contents \cup {Absent}] /\ toServer' \in Seq(ClientMsgs)
    BY ServerTypes
  <2> QED
    BY <1>1, <1>2, <2>1, <2>2 DEF TypeOK
<1>5. Reports' /\ Ghosts' /\ UploadsAreFiles'
  <2>1. Reports'
    BY <1>1, NeverKept DEF IInv, Reports
  <2>2. Ghosts'
    BY <1>1 DEF IInv, Ghosts, IsFile
  <2> QED
    BY <2>1, <2>2, ServerTypes
<1>6. KnownInv'
  BY <1>1 DEF IInv, KnownInv, KnownPart
<1>7. EchoInv'
  BY <1>1, <1>3 DEF IInv, EchoInv
<1>8. UnknownInv'
  BY <1>1, <1>3 DEF IInv, UnknownInv
<1>9. ASSUME NEW p \in Paths, Right(p) PROVE Right(p)'
  <2>1. CASE WillHold(toServer, srv, p, disk[p])
    BY <1>1, <1>3, <2>1 DEF Right
  <2>2. CASE \/ Kind[p] # "files" /\ disk[p] \in NonText
             \/ \E h \in hashed : h.path = p
             \/ TakenForSent(p)
    BY <1>1, <2>2 DEF Right, TakenForSent
  <2>3. CASE Kind[p] = "files" /\ ~Free(toClient, Requests(p))
    BY <2>3, ServerTypes DEF Right
  <2>4. CASE Kind[p] = "files" /\ LastWord(toServer, Checks(p, disk[p]), About(p))
    <3>1. \/ LastWord(toServer', Checks(p, disk[p]), About(p))
          \/ Head(toServer) \in Checks(p, disk[p]) /\ Free(toServer', About(p))
      BY <1>1, <1>2, <2>4, QueueTypes, QueueTail
    <3>2. CASE Head(toServer) \in Checks(p, disk[p]) /\ Free(toServer', About(p))
      <4>1. CASE srv[p] # disk[p]
        BY <2>4, <3>2, <4>1, ServerTypes DEF Right
      <4>2. CASE srv[p] = disk[p]
        <5>1. Head(toServer) \notin About(p)
          BY <3>2 DEF Checks, About
        <5>2. srv'[p] = disk'[p]
          BY <1>1, <1>2, <4>2, <5>1, HoldServed
        <5>3. Free(toServer', Unsets(p, disk'[p]))
          BY <3>2 DEF Free, Unsets
        <5> QED
          BY <5>2, <5>3 DEF Right, WillHold
      <4> QED
        BY <4>1, <4>2
    <3> QED
      BY <1>1, <2>4, <3>1, <3>2 DEF Right
  <2> QED
    BY <1>9, <2>1, <2>2, <2>3, <2>4 DEF Right
<1>10. ReportInv'
  <2>1. ASSUME NEW p \in Paths, PresentPart(p) PROVE PresentPart(p)'
    BY <1>1, <1>9, <2>1 DEF PresentPart
  <2>2. ASSUME NEW p \in Paths, AbsentPart(p) PROVE AbsentPart(p)'
    BY <1>1, <1>3, <2>2 DEF AbsentPart
  <2> QED
    BY <1>1, <2>1, <2>2 DEF IInv, ReportInv, ReportPart
<1> QED
  BY <1>4, <1>5, <1>6, <1>7, <1>8, <1>10 DEF IInv

\* At the beginning all is the same, and nothing is on its way.
LEMMA InitInv == Init => IInv
<1> SUFFICES ASSUME Init
             PROVE  IInv
  OBVIOUS
<1>1. /\ raw = <<>> /\ events = <<>> /\ toServer = <<>> /\ toClient = <<>>
      /\ unreported = {} /\ carried = {} /\ hashed = {} /\ misread = {}
      /\ known = { p \in Paths : IsFile(p) }
      /\ srv = [p \in Paths |-> IF disk[p] \in NonText /\ Kind[p] # "files"
                                THEN Absent ELSE disk[p]]
      /\ echo = [k \in Engines |-> [p \in Paths |-> NoEntry]]
  BY DEF Init
<1>2. disk \in [Paths -> Contents \cup {Absent}]
  BY VaultWatchAssumption DEF Init, VaultWatchAssumption
<1>3. /\ \A B : Free(raw, B) /\ Free(events, B) /\ Free(toServer, B) /\ Free(toClient, B)
  BY <1>1, QueueLast, OneMessage DEF Free
<1>4. Absent \notin Contents /\ NoEntry \notin Contents /\ NonText \subseteq Contents
  BY VaultWatchAssumption DEF VaultWatchAssumption
<1>5. TypeOK
  <2>1. srv \in [Paths -> Contents \cup {Absent}]
    BY <1>1, <1>2
  <2>2. raw \in Seq([kind : RawKinds, from : Paths \cup Dirs, path : Paths \cup Dirs])
        /\ events \in Seq([kind : {"Created", "Modified", "Deleted", "Moved"},
                           from : Paths \cup Dirs, path : Paths \cup Dirs])
        /\ toServer \in Seq(ClientMsgs)
        /\ toClient \in Seq([type : {"FileUpload"}, path : Paths])
    BY <1>1
  <2>3. echo \in [Engines -> [Paths -> Contents \cup {DeletedMarker, NoEntry}]]
    BY <1>1
  <2>4. backend \in Backends /\ changes \in Nat
    BY DEF Init
  <2> QED
    BY <1>1, <1>2, <2>1, <2>2, <2>3, <2>4 DEF TypeOK
<1>6. Reports /\ UploadsAreFiles
  BY <1>1, <1>3 DEF Reports, UploadsAreFiles
<1>7. Ghosts
  BY <1>1 DEF Ghosts
<1>8. KnownInv
  BY <1>1, <1>3 DEF KnownInv, KnownPart, IsFile
<1>9. EchoInv
  <2>1. \A p \in Paths : echo[Kind[p]][p] = NoEntry
    BY <1>1, VaultWatchAssumption DEF VaultWatchAssumption
  <2> QED
    BY <1>4, <2>1 DEF EchoInv
<1>10. ASSUME NEW p \in Paths, disk[p] = Absent PROVE WillHold(toServer, srv, p, Absent)
  BY <1>1, <1>3, <1>10 DEF WillHold
<1>11. UnknownInv
  BY <1>1, <1>10 DEF UnknownInv, IsFile
<1>12. ReportInv
  <2>1. ASSUME NEW p \in Paths, disk[p] # Absent PROVE PresentPart(p)
    <3>1. srv[p] = disk[p] \/ (Kind[p] # "files" /\ disk[p] \in NonText)
      BY <1>1
    <3> QED
      BY <1>3, <3>1 DEF PresentPart, Right, WillHold
  <2> QED
    BY <1>10, <2>1 DEF ReportInv, ReportPart, AbsentPart
<1> QED
  BY <1>5, <1>6, <1>7, <1>8, <1>9, <1>11, <1>12 DEF IInv

\* A step that changes nothing keeps the invariant.
LEMMA StutterInv == IInv /\ UNCHANGED vars => IInv'
<1> SUFFICES ASSUME IInv, UNCHANGED vars
             PROVE  IInv'
  OBVIOUS
<1>1. UNCHANGED <<backend, disk, known, raw, events, echo, toServer, toClient, srv,
                  changes, unreported, carried, hashed, misread>>
  BY DEF vars, watchVars, serverVars, uploadVars
<1>2. TypeOK'
  BY <1>1 DEF IInv, TypeOK
<1>3. Reports' /\ UploadsAreFiles'
  BY <1>1, NeverKept DEF IInv, Reports, UploadsAreFiles
<1>4. Ghosts'
  BY <1>1 DEF IInv, Ghosts, IsFile
<1>5. KnownInv'
  BY <1>1 DEF IInv, KnownInv, KnownPart
<1>6. EchoInv' /\ UnknownInv'
  BY <1>1 DEF IInv, EchoInv, UnknownInv
<1>7. ReportInv'
  BY <1>1 DEF IInv, ReportInv, ReportPart, PresentPart, AbsentPart, Right,
     TakenForSent
<1> QED
  BY <1>2, <1>3, <1>4, <1>5, <1>6, <1>7 DEF IInv

---------------------------------------------------------------------------
(* The theorems.                                                           *)

\* The invariant holds in every reachable state.
THEOREM Invariance == Spec => []IInv
<1>1. IInv /\ [Next]_vars => IInv'
  BY ProcessInv, HandleInv, HashInv, UploadInv, ServerInv, ChangeInv, StutterInv DEF Next
<1> QED
  BY <1>1, InitInv, PTL DEF Spec

\* The variables keep their types, whatever the watcher, the engines, the server
\* and the user do.
THEOREM TypeCorrect == Spec => []TypeOK
<1>1. IInv => TypeOK
  BY DEF IInv
<1> QED
  BY <1>1, Invariance, PTL

\* track_file and untrack_file keep known_files true: when process_event has seen
\* all raw events it lists the files that are there, and no other, but for those
\* that came or went with a directory.
THEOREM KnownTrue == Spec => []KnownIsTrue
<1>1. IInv => KnownIsTrue
  <2> SUFFICES ASSUME IInv, raw = <<>>, NEW p \in Paths \ (unreported \cup carried)
               PROVE  p \in known <=> IsFile(p)
    BY DEF KnownIsTrue
  <2>1. KnownPart(p) /\ \A G, B : ~LastWord(raw, G, B)
    BY QueueLast DEF IInv, KnownInv, LastWord
  <2> QED
    BY <2>1 DEF KnownPart, IsFile
<1> QED
  BY <1>1, Invariance, PTL

\* Nothing is missed: when all events are handled and all messages answered the
\* server has every file as it is in the vault, and none that is gone, but for what
\* the program never reports or never sends, and for files changed between the two
\* reads of their upload that are again what was hashed.
THEOREM QuietReported == Spec => []QuietMeansReported
<1>1. IInv => QuietMeansReported
  <2> SUFFICES ASSUME IInv, Quiet, NEW p \in Paths \ unreported
               PROVE  srv[p] = disk[p] \/ (Kind[p] # "files" /\ disk[p] \in NonText)
                        \/ TakenForSent(p)
    BY DEF QuietMeansReported
  <2>1. \A q, G, B : q = <<>> => ~LastWord(q, G, B) /\ Free(q, B)
    BY DEF LastWord, Free
  <2>2. raw = <<>> /\ events = <<>> /\ toServer = <<>> /\ toClient = <<>> /\ hashed = {}
    BY DEF Quiet
  <2>3. \A v : WillHold(toServer, srv, p, v) => srv[p] = v
    BY <2>1, <2>2 DEF WillHold
  <2>4. ReportPart(p)
    BY DEF IInv, ReportInv
  <2>5. CASE disk[p] # Absent
    BY <2>1, <2>2, <2>3, <2>4, <2>5 DEF ReportPart, PresentPart, Right
  <2>6. CASE disk[p] = Absent
    BY <2>1, <2>2, <2>3, <2>4, <2>6 DEF ReportPart, AbsentPart
  <2> QED
    BY <2>5, <2>6
<1> QED
  BY <1>1, Invariance, PTL
=============================================================================
