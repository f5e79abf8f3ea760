------------------------- MODULE CoordinatorProofs -------------------------
(***************************************************************************)
(* Proofs about Coordinator, for every configuration and any number of     *)
(* changes, lost connections, failures and restarts: types, when the       *)
(* program gives up, and that the time of the note sync neither runs ahead *)
(* of the vault nor past a note that the server lacks, but for the notes   *)
(* that a sync has left over, one at most for each broadcast it counted.   *)
(***************************************************************************)
EXTENDS Coordinator, FiniteSetTheorems, TLAPS

\* Every change has been made by now.
InTime ==
    /\ \A x \in local \cup remote : x.time <= clock
    /\ \A k \in Kinds : last[k] <= clock /\ saved[k] <= clock
    /\ session.end <= clock

\* Between its answer and its completion a note sync is due every note that
\* its time would cover and that no earlier sync has left over.
DueUpToEnd ==
    phase = "notes" /\ session.stage = "answered" =>
        \A x \in remote \ overtaken : x.kind = "notes" /\ x.time <= session.end =>
            x.time > last["notes"] /\ x \in session.due

\* The retries are those since the last connection.
CountsRetries ==
    /\ retries = failedInARow
    /\ phase = "failed" => retries = MaxRetries + 1
    /\ phase # "failed" => retries <= MaxRetries

\* A session is in progress in the phase of its sync only.
SessionInPhase == phase \notin Kinds => session = NoSession

CoordInv ==
    TypeOK /\ InTime /\ SessionInPhase /\ DueUpToEnd /\ NotesUpToLast /\ CountsRetries
---------------------------------------------------------------------------
\* What a session is made of.
Sessions == [stage : {"none", "asked", "answered"}, end : Nat,
             listed : SUBSET Items, due : SUBSET Items, extra : Nat]

\* No session is a session.
LEMMA NoSessionType == NoSession \in Sessions
  BY DEF NoSession, Sessions

\* The invariant holds initially.
LEMMA InitInv == Init => CoordInv
<1> SUFFICES ASSUME Init PROVE CoordInv
  OBVIOUS
<1>1. TypeOK
  <2>1. session \in Sessions /\ events \in Seq(Items)
    BY NoSessionType DEF Init
  <2>2. last \in [Kinds -> Nat] /\ saved \in [Kinds -> Nat]
    BY DEF Init
  <2> QED  BY <2>1, <2>2 DEF Init, TypeOK, Sessions
<1>2. InTime
  BY DEF Init, InTime, NoSession
<1>3. SessionInPhase /\ DueUpToEnd /\ NotesUpToLast
  BY DEF Init, SessionInPhase, DueUpToEnd, NotesUpToLast
<1>4. CountsRetries
  BY CoordinatorAssumption DEF Init, CountsRetries
<1> QED  BY <1>1, <1>2, <1>3, <1>4 DEF CoordInv

\* What the end of a sync does to the times: those of the notes stay, or
\* become the committed one.
LEMMA OverTimes ==
  ASSUME NEW k \in Kinds, NEW times \in [Kinds -> Nat], TypeOK, Over(k, times)
  PROVE  /\ phase' = After(k) /\ phase' \in {"files", "settings", "live"}
         /\ last' = times /\ saved' \in [Kinds -> Nat]
         /\ saved' = times \/ saved' = saved
         /\ session' = NoSession
         /\ UNCHANGED <<retries, events>>
  BY DEF Over, After, TypeOK, Kinds

\* A committed time is a time.
LEMMA CommittedType ==
  ASSUME NEW k \in Kinds, TypeOK
  PROVE  Committed(k) \in [Kinds -> Nat]
  BY DEF Committed, TypeOK
---------------------------------------------------------------------------
\* A sync that ends, its times no later than now and true for the notes,
\* preserves the invariant, if the rest of the world only loses items.
LEMMA OverInv ==
  ASSUME CoordInv, NEW k \in Kinds, NEW times \in [Kinds -> Nat],
         phase = k, Over(k, times),
         \A j \in Kinds : times[j] <= clock,
         \A x \in remote \ overtaken' : x.kind = "notes" => x.time > times["notes"],
         UNCHANGED <<link, local, remote, clock, rushed, boundVars>>,
         pushed' \subseteq local, news' \subseteq Items, letGo' \subseteq Items,
         overtaken \subseteq overtaken', overtaken' \subseteq Items, counted' \in Nat
  PROVE  CoordInv'
<1>1. /\ phase' \in {"files", "settings", "live"} /\ last' = times
      /\ saved' \in [Kinds -> Nat] /\ (saved' = times \/ saved' = saved)
      /\ session' = NoSession /\ retries' = retries /\ events' = events
  BY OverTimes DEF CoordInv
<1>2. TypeOK'
  <2>1. session' \in Sessions /\ phase' \in Kinds \cup {"live"}
    BY <1>1, NoSessionType DEF Kinds
  <2>2. UNCHANGED <<failures, drops, restarts, failedInARow, link, local, remote,
                    clock, rushed, retries, events>>
    BY <1>1 DEF boundVars
  <2> QED  BY <1>1, <2>1, <2>2 DEF CoordInv, TypeOK, Sessions
<1>3. InTime'
  BY <1>1 DEF CoordInv, InTime, TypeOK, NoSession
<1>4. SessionInPhase' /\ DueUpToEnd'
  BY <1>1 DEF SessionInPhase, DueUpToEnd, NoSession
<1>5. NotesUpToLast'
  BY <1>1 DEF CoordInv, NotesUpToLast, TypeOK, Items, Kinds
<1>6. CountsRetries'
  <2>1. phase # "failed" /\ phase' # "failed"
    BY <1>1 DEF Kinds
  <2>2. failedInARow' = failedInARow
    BY DEF boundVars
  <2> QED  BY <1>1, <2>1, <2>2 DEF CoordInv, CountsRetries
<1> QED  BY <1>2, <1>3, <1>4, <1>5, <1>6 DEF CoordInv

\* What is on its way after a sync is what was, or was listed or due.
LEMMA LeaveType ==
  ASSUME TypeOK, NEW heard, Leave(heard)
  PROVE  news' \subseteq Items /\ pushed' \subseteq local
  BY DEF Leave, TypeOK

\* A sync that returns Ok, its times true, preserves the invariant.
LEMMA ReturnsInv ==
  ASSUME CoordInv, NEW k \in Kinds, phase = k, Returns(k),
         \A j \in Kinds : Committed(k)[j] <= clock,
         \A x \in remote \ overtaken' :
            x.kind = "notes" => x.time > Committed(k)["notes"],
         overtaken \subseteq overtaken', overtaken' \subseteq Items
  PROVE  CoordInv'
<1>1. news' \subseteq Items /\ pushed' \subseteq local
  BY LeaveType DEF CoordInv, Returns
<1>2. letGo' \subseteq Items /\ counted' \in Nat
  BY DEF Returns, CoordInv, TypeOK
<1>3. Committed(k) \in [Kinds -> Nat]
  BY CommittedType DEF CoordInv
<1>4. /\ Over(k, Committed(k))
      /\ UNCHANGED <<link, local, remote, clock, rushed, boundVars>>
  BY DEF Returns
<1> QED  BY <1>1, <1>2, <1>3, <1>4, OverInv

\* Every step preserves it.
LEMMA StepInv == CoordInv /\ [Next]_vars => CoordInv'
<1> SUFFICES ASSUME CoordInv, [Next]_vars PROVE CoordInv'
  OBVIOUS
<1> USE CoordinatorAssumption
<1>1. CASE ConnectFails
  BY <1>1 DEF ConnectFails, CoordInv, TypeOK, leftVars, InTime, SessionInPhase,
     DueUpToEnd, NotesUpToLast, CountsRetries, worldVars, Kinds
<1>2. CASE Wake
  BY <1>2 DEF Wake, CoordInv, TypeOK, leftVars, InTime, SessionInPhase, DueUpToEnd,
     NotesUpToLast, CountsRetries, worldVars, boundVars, Kinds
<1>3. CASE Connect
  <2>1. session = NoSession
    BY <1>3 DEF Connect, CoordInv, SessionInPhase, Kinds
  <2> QED
    BY <1>3, <2>1 DEF Connect, CoordInv, TypeOK, leftVars, InTime, SessionInPhase, DueUpToEnd,
       NotesUpToLast, CountsRetries, worldVars, NoSession, Kinds
<1>4. CASE LeaveLive
  BY <1>4 DEF LeaveLive, CoordInv, TypeOK, leftVars, InTime, SessionInPhase, DueUpToEnd,
     NotesUpToLast, CountsRetries, worldVars, boundVars, Kinds
<1>5. ASSUME NEW k \in Kinds, SyncStep(k) PROVE CoordInv'
  <2>1. CASE Skip(k)
    BY <2>1, OverInv DEF Skip, CoordInv, TypeOK, InTime, NotesUpToLast, worldVars,
       leftVars
  <2>2. CASE Ask(k)
    BY <2>2 DEF Ask, Listed, CoordInv, TypeOK, leftVars, InTime, SessionInPhase, DueUpToEnd,
       NotesUpToLast, CountsRetries, worldVars, boundVars, Items, Kinds
  <2>3. CASE Answer(k)
    <3>1. DueUpToEnd'
      BY <2>3 DEF Answer, Since, CoordInv, TypeOK, leftVars, NotesUpToLast, DueUpToEnd, worldVars
    <3>2. TypeOK'
      BY <2>3 DEF Answer, CoordInv, TypeOK, leftVars, worldVars, boundVars
    <3>3. InTime' /\ SessionInPhase' /\ NotesUpToLast' /\ CountsRetries'
      BY <2>3 DEF Answer, CoordInv, TypeOK, leftVars, InTime, SessionInPhase,
         NotesUpToLast, CountsRetries, worldVars, boundVars
    <3> QED
      BY <3>1, <3>2, <3>3 DEF CoordInv
  <2>4. CASE Serve(k)
    <3>1. DueUpToEnd'
      BY <2>4 DEF Serve, CoordInv, TypeOK, leftVars, DueUpToEnd
    <3>2. TypeOK'
      BY <2>4 DEF Serve, CoordInv, TypeOK, leftVars, boundVars
    <3>3. InTime' /\ SessionInPhase' /\ NotesUpToLast' /\ CountsRetries'
      BY <2>4 DEF Serve, CoordInv, TypeOK, leftVars, InTime, SessionInPhase,
         NotesUpToLast, CountsRetries, boundVars
    <3> QED
      BY <3>1, <3>2, <3>3 DEF CoordInv
  <2>5. CASE Complete(k)
    <3>1. \A j \in Kinds : Committed(k)[j] <= clock
      BY DEF Committed, CoordInv, TypeOK, InTime
    <3>2. \A x \in remote \ overtaken' : x.kind = "notes" => x.time > Committed(k)["notes"]
      BY <2>5 DEF Complete, LeftOver, Committed, CoordInv, TypeOK, InTime, DueUpToEnd,
         NotesUpToLast, Items, Kinds
    <3>3. overtaken \subseteq overtaken' /\ overtaken' \subseteq Items
      BY <2>5 DEF Complete, LeftOver, CoordInv, TypeOK
    <3> QED
      BY <2>5, <3>1, <3>2, <3>3, ReturnsInv DEF Complete
  <2>6. CASE TimeOut(k)
    <3>1. \A j \in Kinds : Committed(k)[j] <= clock
      BY DEF Committed, CoordInv, TypeOK, InTime
    <3>2. \A x \in remote \ overtaken' : x.kind = "notes" => x.time > Committed(k)["notes"]
      BY <2>6 DEF TimeOut, Committed, CoordInv, TypeOK, NotesUpToLast, Kinds
    <3>3. overtaken \subseteq overtaken' /\ overtaken' \subseteq Items
      BY <2>6 DEF TimeOut, CoordInv, TypeOK
    <3> QED
      BY <2>6, <3>1, <3>2, <3>3, ReturnsInv DEF TimeOut
  <2>7. CASE Fail(k)
    <3>1. PICK heard \in SUBSET news :
             /\ Leave(heard)
             /\ letGo' = IF link THEN letGo \cup heard \cup { x \in remote : x.kind = k }
                         ELSE letGo
      BY <2>7 DEF Fail, FailsOver
    <3>2. news' \subseteq Items /\ pushed' \subseteq local
      BY <3>1, LeaveType DEF CoordInv
    <3>3. letGo' \subseteq Items
      BY <3>1 DEF CoordInv, TypeOK
    <3>4. overtaken' = overtaken /\ counted' = counted
          /\ UNCHANGED <<link, local, remote, clock, rushed, boundVars>>
          /\ phase = k /\ Over(k, last)
      BY <2>7 DEF Fail, FailsOver, leftVars
    <3>5. last \in [Kinds -> Nat] /\ overtaken \subseteq Items /\ counted \in Nat
          /\ \A j \in Kinds : last[j] <= clock
      BY DEF CoordInv, TypeOK, InTime
    <3>6. \A x \in remote \ overtaken : x.kind = "notes" => x.time > last["notes"]
      BY DEF CoordInv, NotesUpToLast
    <3> HIDE DEF CoordInv
    <3> QED
      BY <3>2, <3>3, <3>4, <3>5, <3>6, OverInv
  <2> QED
    BY <1>5, <2>1, <2>2, <2>3, <2>4, <2>5, <2>6, <2>7 DEF SyncStep
<1>6. CASE HandleWatchEvent
  BY <1>6 DEF HandleWatchEvent, CoordInv, TypeOK, leftVars, InTime, SessionInPhase,
     DueUpToEnd, NotesUpToLast, CountsRetries, boundVars
<1>7. ASSUME NEW x \in pushed, ServerAccepts(x) PROVE CoordInv'
  BY <1>7 DEF ServerAccepts, CoordInv, TypeOK, leftVars, InTime, SessionInPhase,
     DueUpToEnd, NotesUpToLast, CountsRetries, boundVars, programVars
<1>8. ASSUME NEW x \in news, HearNews(x) PROVE CoordInv'
  <2>1. /\ phase \in Kinds \cup {"live"} /\ phase' = phase /\ remote' \subseteq remote
        /\ news' \subseteq news /\ x \in Items
        /\ UNCHANGED <<link, retries, last, saved, events, local, pushed, clock,
                       rushed, boundVars, overtaken>>
    BY <1>8 DEF HearNews, CoordInv, TypeOK
  <2>2. letGo' \subseteq Items
    BY <1>8, <2>1 DEF HearNews, CoordInv, TypeOK
  <2>3. \/ session' = session /\ counted' = counted
        \/ /\ phase \in Kinds
           /\ \E n \in {0, 1} : /\ session' = [session EXCEPT !.extra = @ + n]
                                /\ counted' = counted + n
    BY <1>8, <2>1 DEF HearNews, Counts, Items
  <2>4. /\ session' \in Sessions /\ counted' \in Nat
        /\ session'.stage = session.stage /\ session'.end = session.end
        /\ session'.due = session.due
        /\ phase \notin Kinds => session' = session
    <3>1. session \in Sessions /\ counted \in Nat
      BY DEF CoordInv, TypeOK, Sessions
    <3>2. CASE session' = session /\ counted' = counted
      BY <3>1, <3>2
    <3>3. ASSUME NEW n \in {0, 1}, phase \in Kinds,
                 session' = [session EXCEPT !.extra = @ + n], counted' = counted + n
          PROVE  /\ session' \in Sessions /\ counted' \in Nat
                 /\ session'.stage = session.stage /\ session'.end = session.end
                 /\ session'.due = session.due
      <4>1. n \in Nat
        OBVIOUS
      <4>2. session.extra + n \in Nat /\ counted + n \in Nat
        BY <3>1, <4>1 DEF Sessions
      <4> QED  BY <3>1, <3>3, <4>2 DEF Sessions
    <3> QED  BY <2>3, <3>2, <3>3
  <2>5. TypeOK'
    BY <2>1, <2>2, <2>4 DEF CoordInv, TypeOK, Sessions, boundVars
  <2>6. DueUpToEnd'
    BY <2>1, <2>4 DEF CoordInv, DueUpToEnd
  <2>7. SessionInPhase'
    BY <2>1, <2>4 DEF CoordInv, SessionInPhase
  <2>8. InTime' /\ NotesUpToLast' /\ CountsRetries'
    BY <2>1, <2>4 DEF CoordInv, InTime, NotesUpToLast, CountsRetries, boundVars
  <2> QED
    BY <2>5, <2>6, <2>7, <2>8 DEF CoordInv
<1>9. CASE LinkDrops
  <2>1. pushed' \subseteq local' /\ news' \subseteq Items /\ link' \in BOOLEAN
    BY <1>9 DEF LinkDrops
  <2>2. TypeOK'
    BY <1>9, <2>1 DEF LinkDrops, CoordInv, TypeOK, leftVars, programVars
  <2> QED
    BY <1>9, <2>2 DEF LinkDrops, CoordInv, InTime, leftVars, SessionInPhase, DueUpToEnd,
       NotesUpToLast, CountsRetries, programVars
<1>10. CASE Restart
  <2>1. session' \in Sessions /\ events' \in Seq(Items) /\ session'.end = 0
    BY <1>10, NoSessionType DEF Restart, NoSession
  <2>2. /\ pushed' \subseteq local' /\ news' \subseteq Items
        /\ link' \in BOOLEAN /\ retries' \in Nat /\ failedInARow' \in Nat
    BY <1>10 DEF Restart
  <2>3. TypeOK'
    BY <1>10, <2>1, <2>2 DEF Restart, CoordInv, TypeOK, leftVars, Sessions
  <2> QED
    BY <1>10, <2>1, <2>3 DEF Restart, CoordInv, TypeOK, leftVars, InTime, SessionInPhase,
       DueUpToEnd, NotesUpToLast, CountsRetries
<1>11. ASSUME NEW k \in Enabled, UserEdits(k) PROVE CoordInv'
  <2>1. Item(k) \in Items /\ Item(k).time = clock + 1 /\ clock' = clock + 1
    BY <1>11 DEF UserEdits, Item, Items, CoordInv, TypeOK, leftVars
  <2>2. TypeOK'
    BY <1>11, <2>1 DEF UserEdits, CoordInv, TypeOK, leftVars, boundVars
  <2>3. InTime'
    BY <1>11, <2>1 DEF UserEdits, CoordInv, TypeOK, leftVars, InTime, Items
  <2>4. SessionInPhase' /\ DueUpToEnd' /\ NotesUpToLast' /\ CountsRetries'
    BY <1>11, <2>1 DEF UserEdits, CoordInv, TypeOK, leftVars, InTime, SessionInPhase, DueUpToEnd,
       NotesUpToLast, CountsRetries, boundVars, Kinds
  <2> QED  BY <2>2, <2>3, <2>4 DEF CoordInv
<1>12. ASSUME NEW k \in Enabled, RemoteEdits(k) PROVE CoordInv'
  <2>1. Item(k) \in Items /\ Item(k).time = clock + 1 /\ clock' = clock + 1
    BY <1>12 DEF RemoteEdits, Item, Items, CoordInv, TypeOK, leftVars
  <2>2. TypeOK'
    BY <1>12, <2>1 DEF RemoteEdits, CoordInv, TypeOK, leftVars, boundVars, programVars
  <2>3. InTime'
    BY <1>12, <2>1 DEF RemoteEdits, CoordInv, TypeOK, leftVars, InTime, Items, programVars
  <2>4. SessionInPhase' /\ DueUpToEnd' /\ NotesUpToLast' /\ CountsRetries'
    BY <1>12, <2>1 DEF RemoteEdits, CoordInv, TypeOK, leftVars, InTime, SessionInPhase, DueUpToEnd,
       NotesUpToLast, CountsRetries, boundVars, Kinds, programVars
  <2> QED  BY <2>2, <2>3, <2>4 DEF CoordInv
<1>13. CASE UNCHANGED vars
  BY <1>13 DEF vars, programVars, worldVars, boundVars, CoordInv, TypeOK, leftVars, InTime,
     SessionInPhase, DueUpToEnd, NotesUpToLast, CountsRetries
<1> QED
  BY <1>1, <1>2, <1>3, <1>4, <1>5, <1>6, <1>7, <1>8, <1>9, <1>10, <1>11, <1>12, <1>13
  DEF Next, Progress
---------------------------------------------------------------------------
\* The inductive invariant of Coordinator.
THEOREM Invariance == Spec => []CoordInv
  BY InitInv, StepInv, PTL DEF Spec

\* The types of Coordinator's state.
THEOREM TypeCorrect == Spec => []TypeOK
  BY Invariance, PTL DEF CoordInv

\* run_continuous returns its error only after MaxRetries + 1 attempts in a
\* row have failed.
THEOREM GivesUpOnlyThen == Spec => []GivesUpRightly
<1>1. CoordInv => GivesUpRightly
  BY DEF CoordInv, CountsRetries, GivesUpRightly
<1> QED  BY <1>1, Invariance, PTL

\* The time of the note sync, in memory or saved, runs ahead of the vault by no
\* note but those whose detail was still to come when their sync returned.
THEOREM NeverAhead == Spec => []NotesUpToLast
  BY Invariance, PTL DEF CoordInv
---------------------------------------------------------------------------
(* Local notes.                                                            *)

\* A note sync has listed every note that its time would cover, but for those
\* edited while it waits for the answer and those left over by earlier syncs.
ListedUpToEnd ==
    /\ phase = "notes" /\ session.stage = "asked" =>
         \A x \in local \ (rushed \cup overtaken) : x.kind = "notes" => x \in session.listed
    /\ phase = "notes" /\ session.stage = "answered" =>
         \A x \in local \ (rushed \cup overtaken) :
            x.kind = "notes" /\ x.time <= session.end => x \in session.listed

LocalInv == ListedUpToEnd /\ ForgottenOnlyIfPassed

\* A sync that ends keeps it, if the times it leaves are true for the notes.
LEMMA OverLocal ==
  ASSUME CoordInv, LocalInv, NEW k \in Kinds, NEW times \in [Kinds -> Nat],
         phase = k, Over(k, times),
         \A x \in local \ (rushed \cup overtaken') :
            x.kind = "notes" => x.time > times["notes"],
         UNCHANGED <<local, rushed>>, overtaken \subseteq overtaken'
  PROVE  LocalInv'
<1>1. /\ phase' \in {"files", "settings", "live"} /\ last' = times
      /\ (saved' = times \/ saved' = saved)
  BY OverTimes DEF CoordInv
<1> QED  BY <1>1 DEF LocalInv, ListedUpToEnd, leftVars, ForgottenOnlyIfPassed

\* Every step preserves it.
LEMMA StepLocal == CoordInv /\ LocalInv /\ [Next]_vars => LocalInv'
<1> SUFFICES ASSUME CoordInv, LocalInv, [Next]_vars PROVE LocalInv'
  OBVIOUS
<1>1. CASE ConnectFails
  BY <1>1 DEF ConnectFails, LocalInv, ListedUpToEnd, leftVars, ForgottenOnlyIfPassed, worldVars
<1>2. CASE Wake \/ LeaveLive
  BY <1>2 DEF Wake, LeaveLive, LocalInv, ListedUpToEnd, leftVars, ForgottenOnlyIfPassed, worldVars
<1>3. CASE Connect
  <2>1. session' = NoSession
    BY <1>3 DEF Connect, CoordInv, SessionInPhase, Kinds
  <2> QED
    BY <1>3, <2>1 DEF Connect, LocalInv, ListedUpToEnd, leftVars, ForgottenOnlyIfPassed,
       worldVars, NoSession
<1>4. ASSUME NEW k \in Kinds, SyncStep(k) PROVE LocalInv'
  <2>1. CASE Skip(k)
    BY <2>1, OverLocal DEF Skip, leftVars, CoordInv, TypeOK, LocalInv, ForgottenOnlyIfPassed,
       worldVars
  <2>2. CASE Ask(k)
    <3>1. phase' = "notes" => \A x \in local \ (rushed \cup overtaken) : x.kind = "notes" => x \in Listed(k)
      BY <2>2 DEF Ask, Listed, LocalInv, ForgottenOnlyIfPassed
    <3> QED
      BY <2>2, <3>1 DEF Ask, LocalInv, ListedUpToEnd, leftVars, ForgottenOnlyIfPassed, worldVars
  <2>3. CASE Answer(k)
    BY <2>3 DEF Answer, leftVars, CoordInv, TypeOK, LocalInv, ListedUpToEnd,
       ForgottenOnlyIfPassed, worldVars
  <2>4. CASE Serve(k)
    BY <2>4 DEF Serve, CoordInv, TypeOK, LocalInv, ListedUpToEnd, leftVars, ForgottenOnlyIfPassed
  <2>5. CASE Complete(k)
    <3>1. \A x \in local \ (rushed \cup overtaken') :
             x.kind = "notes" => x.time > Committed(k)["notes"]
      BY <2>5 DEF Complete, LeftOver, Committed, CoordInv, TypeOK, LocalInv,
         ListedUpToEnd, ForgottenOnlyIfPassed, Items, Kinds
    <3>2. /\ Over(k, Committed(k)) /\ UNCHANGED <<local, rushed>> /\ phase = k
          /\ overtaken \subseteq overtaken'
      BY <2>5 DEF Complete, Returns
    <3> QED  BY <3>1, <3>2, CommittedType, OverLocal DEF CoordInv
  <2>6. CASE TimeOut(k)
    <3>1. \A x \in local \ (rushed \cup overtaken) :
             x.kind = "notes" => x.time > Committed(k)["notes"]
      BY <2>6 DEF TimeOut, Committed, CoordInv, TypeOK, LocalInv,
         ForgottenOnlyIfPassed, Kinds
    <3>2. /\ Over(k, Committed(k)) /\ UNCHANGED <<local, rushed, overtaken>> /\ phase = k
      BY <2>6 DEF TimeOut, Returns
    <3> QED  BY <3>1, <3>2, CommittedType, OverLocal DEF CoordInv
  <2>7. CASE Fail(k)
    BY <2>7, OverLocal DEF Fail, FailsOver, leftVars, CoordInv, TypeOK, LocalInv,
       ForgottenOnlyIfPassed
  <2> QED
    BY <1>4, <2>1, <2>2, <2>3, <2>4, <2>5, <2>6, <2>7 DEF SyncStep
<1>5. CASE HandleWatchEvent
  BY <1>5 DEF HandleWatchEvent, LocalInv, ListedUpToEnd, leftVars, ForgottenOnlyIfPassed
<1>6. ASSUME NEW x \in pushed, ServerAccepts(x) PROVE LocalInv'
  BY <1>6 DEF ServerAccepts, LocalInv, ListedUpToEnd, leftVars, ForgottenOnlyIfPassed, programVars
<1>7. ASSUME NEW x \in news, HearNews(x) PROVE LocalInv'
  <2>1. session'.stage = session.stage /\ session'.end = session.end
        /\ session'.listed = session.listed
    BY <1>7 DEF HearNews, Counts, CoordInv, TypeOK
  <2> QED
    BY <1>7, <2>1 DEF HearNews, LocalInv, ListedUpToEnd, leftVars, ForgottenOnlyIfPassed
<1>8. CASE LinkDrops
  BY <1>8 DEF LinkDrops, LocalInv, ListedUpToEnd, leftVars, ForgottenOnlyIfPassed, programVars
<1>9. CASE Restart
  BY <1>9 DEF Restart, LocalInv, ListedUpToEnd, leftVars, ForgottenOnlyIfPassed
<1>10. ASSUME NEW k \in Enabled, UserEdits(k) PROVE LocalInv'
  <2>1. /\ Item(k).time = clock + 1 /\ Item(k).kind = k /\ clock \in Nat
        /\ last["notes"] \in Nat /\ saved["notes"] \in Nat /\ session.end \in Nat
        /\ last["notes"] <= clock /\ saved["notes"] <= clock /\ session.end <= clock
    BY DEF Item, CoordInv, TypeOK, InTime, Kinds
  <2>2. ForgottenOnlyIfPassed'
    BY <1>10, <2>1 DEF UserEdits, leftVars, LocalInv, ForgottenOnlyIfPassed
  <2>3. ListedUpToEnd'
    BY <1>10, <2>1 DEF UserEdits, leftVars, LocalInv, ListedUpToEnd
  <2> QED  BY <2>2, <2>3 DEF LocalInv
<1>11. ASSUME NEW k \in Enabled, RemoteEdits(k) PROVE LocalInv'
  BY <1>11 DEF RemoteEdits, LocalInv, ListedUpToEnd, leftVars, ForgottenOnlyIfPassed, programVars
<1>12. CASE UNCHANGED vars
  BY <1>12 DEF vars, programVars, worldVars, LocalInv, ListedUpToEnd, leftVars, ForgottenOnlyIfPassed
<1> QED
  BY <1>1, <1>2, <1>3, <1>4, <1>5, <1>6, <1>7, <1>8, <1>9, <1>10, <1>11, <1>12
  DEF Next, Progress

\* A note that the server lacks is newer than the time of the last sync,
\* unless it was edited between a sync's request and its answer, or left over
\* by a sync that returned with a broadcast counted in its place.
THEOREM NeverForgotten == Spec => []ForgottenOnlyIfPassed
<1>1. Init => LocalInv
  BY DEF Init, LocalInv, ListedUpToEnd, ForgottenOnlyIfPassed, NoSession
<1>2. LocalInv => ForgottenOnlyIfPassed
  BY DEF LocalInv
<1> QED  BY <1>1, <1>2, StepLocal, Invariance, PTL DEF Spec
---------------------------------------------------------------------------
(* What the syncs leave over.                                              *)

\* Only finitely many items exist, and each broadcast counted stands for one
\* item, left over by a sync that has returned or by the one in progress.
LeftInv ==
    /\ IsFiniteSet(local) /\ IsFiniteSet(remote)
    /\ IsFiniteSet(session.listed) /\ IsFiniteSet(session.due)
    /\ IsFiniteSet(overtaken)
    /\ Cardinality(overtaken) + session.extra <= counted

\* A sync that ends without leaving items over keeps it.
LEMMA OverLeft ==
  ASSUME CoordInv, LeftInv, NEW k \in Kinds, NEW times, Over(k, times),
         UNCHANGED <<local, remote, overtaken, counted>>
  PROVE  LeftInv'
<1>1. session' = NoSession
  BY DEF Over
<1>2. session.extra \in Nat /\ counted \in Nat /\ Cardinality(overtaken) \in Nat
  BY FS_CardinalityType DEF CoordInv, TypeOK, LeftInv
<1> QED  BY <1>1, <1>2, FS_EmptySet DEF LeftInv, NoSession

\* Every step preserves it.
LEMMA StepLeft == CoordInv /\ LeftInv /\ [Next]_vars => LeftInv'
<1> SUFFICES ASSUME CoordInv, LeftInv, [Next]_vars PROVE LeftInv'
  OBVIOUS
<1>0. /\ session \in Sessions /\ session.extra \in Nat /\ counted \in Nat
      /\ Cardinality(overtaken) \in Nat
  BY FS_CardinalityType DEF CoordInv, TypeOK, LeftInv, Sessions
<1>1. CASE ConnectFails \/ Wake \/ LeaveLive \/ LinkDrops \/ HandleWatchEvent
  BY <1>1 DEF ConnectFails, Wake, LeaveLive, LinkDrops, HandleWatchEvent, LeftInv,
     worldVars, programVars, leftVars
<1>2. CASE Connect
  BY <1>2 DEF Connect, LeftInv, worldVars, leftVars
<1>3. ASSUME NEW k \in Kinds, SyncStep(k) PROVE LeftInv'
  <2>1. CASE Skip(k)
    BY <2>1, OverLeft DEF Skip, worldVars, leftVars
  <2>2. CASE Ask(k)
    <3>1. session' = [stage |-> "asked", end |-> 0, listed |-> Listed(k),
                      due |-> {}, extra |-> 0]
          /\ UNCHANGED <<local, remote, overtaken, counted>>
      BY <2>2 DEF Ask, worldVars, leftVars
    <3>2. IsFiniteSet(Listed(k))
      <4>1. Listed(k) \in SUBSET local
        BY DEF Listed
      <4> QED  BY <4>1, FS_Subset DEF LeftInv
    <3> QED  BY <1>0, <3>1, <3>2, FS_EmptySet DEF LeftInv
  <2>3. CASE Answer(k)
    <3>1. /\ session'.listed = session.listed /\ session'.extra = session.extra
          /\ session'.due = { x \in remote : x.kind = k /\ x.time > Since(k) }
          /\ UNCHANGED <<local, remote, overtaken, counted>>
      BY <1>0, <2>3 DEF Answer, Sessions, worldVars, leftVars
    <3>2. IsFiniteSet(session'.due)
      <4>1. session'.due \in SUBSET remote
        BY <3>1
      <4> QED  BY <4>1, FS_Subset DEF LeftInv
    <3> QED  BY <3>1, <3>2 DEF LeftInv
  <2>4. CASE Serve(k)
    <3>1. /\ session'.extra = session.extra /\ UNCHANGED <<overtaken, counted>>
          /\ session'.listed \in SUBSET session.listed
          /\ session'.due \in SUBSET session.due
          /\ local' \in SUBSET local /\ remote' \in SUBSET remote
      BY <1>0, <2>4 DEF Serve, Sessions, leftVars
    <3> QED  BY <3>1, FS_Subset DEF LeftInv
  <2>5. CASE Complete(k)
    <3>1. /\ Cardinality(LeftOver) <= session.extra
          /\ overtaken' = overtaken \cup LeftOver
          /\ session' = NoSession /\ UNCHANGED <<local, remote, counted>>
      BY <2>5 DEF Complete, Returns, Over
    <3>2. IsFiniteSet(LeftOver) /\ Cardinality(LeftOver) \in Nat
      BY FS_Union, FS_CardinalityType DEF LeftOver, LeftInv
    <3>3. /\ IsFiniteSet(overtaken \cup LeftOver)
          /\ Cardinality(overtaken \cup LeftOver)
               = Cardinality(overtaken) + Cardinality(LeftOver)
                   - Cardinality(overtaken \cap LeftOver)
      BY <3>2, FS_Union DEF LeftInv
    <3>4. Cardinality(overtaken \cap LeftOver) \in Nat
      <4>1. overtaken \cap LeftOver \in SUBSET overtaken
        OBVIOUS
      <4> QED  BY <4>1, FS_Subset, FS_CardinalityType DEF LeftInv
    <3>5. Cardinality(overtaken') + 0 <= counted
      BY <1>0, <3>1, <3>2, <3>3, <3>4 DEF LeftInv
    <3> QED  BY <3>1, <3>3, <3>5, FS_EmptySet DEF LeftInv, NoSession
  <2>6. CASE TimeOut(k)
    BY <2>6, OverLeft DEF TimeOut, Returns
  <2>7. CASE Fail(k)
    BY <2>7, OverLeft DEF Fail, FailsOver, leftVars
  <2> QED
    BY <1>3, <2>1, <2>2, <2>3, <2>4, <2>5, <2>6, <2>7 DEF SyncStep
<1>4. ASSUME NEW x \in pushed, ServerAccepts(x) PROVE LeftInv'
  <2>1. local' \in SUBSET local
        /\ UNCHANGED <<remote, session, overtaken, counted>>
    BY <1>4 DEF ServerAccepts, programVars, leftVars
  <2> QED  BY <2>1, FS_Subset DEF LeftInv
<1>5. ASSUME NEW x \in news, HearNews(x) PROVE LeftInv'
  <2>1. remote' \in SUBSET remote /\ UNCHANGED <<local, overtaken>>
    BY <1>5 DEF HearNews
  <2>2. \/ session' = session /\ counted' = counted
        \/ \E n \in {0, 1} : /\ session' = [session EXCEPT !.extra = @ + n]
                             /\ counted' = counted + n
    BY <1>5 DEF HearNews, Counts
  <2>3. /\ session'.listed = session.listed /\ session'.due = session.due
        /\ Cardinality(overtaken) + session'.extra <= counted'
    <3>1. CASE session' = session /\ counted' = counted
      BY <3>1 DEF LeftInv
    <3>2. ASSUME NEW n \in {0, 1}, session' = [session EXCEPT !.extra = @ + n],
                 counted' = counted + n
          PROVE  /\ session'.listed = session.listed /\ session'.due = session.due
                 /\ Cardinality(overtaken) + session'.extra <= counted'
      <4>1. /\ session'.listed = session.listed /\ session'.due = session.due
            /\ session'.extra = session.extra + n
        BY <1>0, <3>2 DEF Sessions
      <4> QED  BY <1>0, <3>2, <4>1 DEF LeftInv
    <3> QED  BY <2>2, <3>1, <3>2
  <2> QED  BY <2>1, <2>3, FS_Subset DEF LeftInv
<1>6. CASE Restart
  BY <1>0, <1>6, FS_EmptySet DEF Restart, LeftInv, NoSession, leftVars
<1>7. ASSUME NEW k \in Enabled, UserEdits(k) \/ RemoteEdits(k) PROVE LeftInv'
  <2>1. /\ UNCHANGED <<session, overtaken, counted>>
        /\ local' \in {local, local \cup {Item(k)}}
        /\ remote' \in {remote, remote \cup {Item(k)}}
    BY <1>7 DEF UserEdits, RemoteEdits, programVars, leftVars
  <2>2. IsFiniteSet(local \cup {Item(k)}) /\ IsFiniteSet(remote \cup {Item(k)})
    BY FS_AddElement DEF LeftInv
  <2> QED  BY <2>1, <2>2 DEF LeftInv
<1>8. CASE UNCHANGED vars
  BY <1>8 DEF vars, programVars, worldVars, leftVars, LeftInv
<1> QED
  BY <1>1, <1>2, <1>3, <1>4, <1>5, <1>6, <1>7, <1>8 DEF Next, Progress

\* However the syncs, their failures and the connections follow each other,
\* the items that syncs left over when they returned Ok are never more than the
\* broadcasts they counted.
THEOREM OneItemForEach == Spec => []OneForEachBroadcast
<1>1. Init => LeftInv
  BY FS_EmptySet DEF Init, LeftInv, NoSession
<1>2. CoordInv /\ LeftInv => OneForEachBroadcast
  BY FS_CardinalityType DEF CoordInv, TypeOK, LeftInv, OneForEachBroadcast
<1> QED  BY <1>1, <1>2, StepLeft, Invariance, PTL DEF Spec
=============================================================================
