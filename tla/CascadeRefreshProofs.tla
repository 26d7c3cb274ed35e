------------------------ MODULE CascadeRefreshProofs ------------------------
(***************************************************************************)
(* Proofs about CascadeRefresh for every set of datasets, every dependency *)
(* graph and every number of reloads and ticks: type correctness, and that *)
(* the cascade engine forgets no trigger (TriggerCovered), by way of the   *)
(* inductive invariant IndInv.                                             *)
(***************************************************************************)
EXTENDS CascadeRefresh, TLAPS, FiniteSetTheorems, SequenceTheorems

USE NamesAssumption, DagAssumption, ScheduledAssumption, BoundsAssumption

\* A record_refresh keeps a well-formed RefreshRecord well formed.
LEMMA RecordRefreshType ==
    ASSUME NEW rec \in RefreshRecord, NEW fails \in Nat, NEW error \in BOOLEAN,
           NEW source \in RefreshSource \cup {NoSource}
    PROVE  RecordRefresh(rec, fails, error, source) \in RefreshRecord
  BY DEF RecordRefresh, RefreshRecord, RefreshSource, NoSource

\* An order of F is a sequence of datasets that lists exactly F.
LEMMA OrdersType ==
    ASSUME NEW F \in SUBSET Names, NEW q \in Orders(F)
    PROVE  /\ q \in Seq(Names)
           /\ \A d \in F : \E i \in DOMAIN q : q[i] = d
  <1>1. Cardinality(F) \in Nat
    BY FS_Subset, FS_CardinalityType
  <1>2. q \in [1..Cardinality(F) -> Names]
    BY DEF Orders
  <1> QED
    BY <1>1, <1>2 DEF Orders

\* Starting a build, releasing the mutex and notifying the engine keep the
\* types of what they change.
LEMMA BeginBuildType ==
    ASSUME TypeOK, NEW n \in Names, NEW who \in Builder, BeginBuild(n, who)
    PROVE  build' \in [Names -> Build] /\ clock' \in Nat
  <1>1. clock \in Nat /\ build \in [Names -> Build]
    BY DEF TypeOK
  <1>2. [by |-> who, start |-> clock, phase |-> "run"] \in Build
    BY <1>1 DEF Build
  <1> QED
    BY <1>1, <1>2 DEF BeginBuild

LEMMA ReleaseType ==
    ASSUME TypeOK, NEW n \in Names, Release(n)
    PROVE  build' \in [Names -> Build]
  <1>1. build \in [Names -> Build]
    BY DEF TypeOK
  <1>2. NoBuild \in Build
    BY DEF Build, NoBuild
  <1> QED
    BY <1>1, <1>2 DEF Release

LEMMA NotifyType ==
    ASSUME TypeOK, NEW n \in Names, Notify(n)
    PROVE  publish_rx' \in Seq(Message)
  <1>1. publish_rx \in Seq(Message)
    BY DEF TypeOK
  <1>2. build[n].start \in Nat
    BY DEF TypeOK, Build
  <1>3. [name |-> n, start |-> build[n].start] \in Message
    BY <1>2 DEF Message
  <1> QED
    BY <1>1, <1>3, AppendProperties DEF Notify

\* Every step keeps the variables in their types.
LEMMA TypeInductive == TypeOK /\ [Next]_vars => TypeOK'
  <1> SUFFICES ASSUME TypeOK, [Next]_vars PROVE TypeOK'
    OBVIOUS
  <1> USE DEF TypeOK
  <1>1. ASSUME NEW n \in Names, ClientStart(n) PROVE TypeOK'
    <2>1. build' \in [Names -> Build] /\ clock' \in Nat
      BY <1>1, BeginBuildType DEF ClientStart, Builder
    <2> QED
      BY <1>1, <2>1 DEF ClientStart, engineVars, history
  <1>2. ASSUME NEW n \in Names, Publish(n) PROVE TypeOK'
    <2>1. record' \in [Names -> RefreshRecord]
      <3>1. RecordRefresh(record[n], 0, FALSE, "manual") \in RefreshRecord
        BY RecordRefreshType DEF RefreshSource
      <3> QED
        BY <1>2, <3>1 DEF Publish
    <2>2. build[n].start \in Nat /\ build[n].by \in Builder \cup {"none"}
      BY DEF Build
    <2>3. live' \in [Names -> Generation]
      BY <1>2, <2>2 DEF Publish, Generation
    <2>4. build' \in [Names -> Build]
      BY <1>2, <2>2 DEF Publish, Build
    <2> QED
      <3>1. clock' \in Nat
        BY <1>2 DEF Publish
      <3> QED
        BY <1>2, <2>1, <2>3, <2>4, <3>1 DEF Publish, engineVars, history, budget
  <1>3. ASSUME NEW n \in Names, ClientDone(n) PROVE TypeOK'
    <2>1. build' \in [Names -> Build]
      BY <1>3, ReleaseType DEF ClientDone
    <2>2. publish_rx' \in Seq(Message)
      BY <1>3, NotifyType DEF ClientDone
    <2> QED
      BY <1>3, <2>1, <2>2 DEF ClientDone, history, budget
  <1>4. ASSUME NEW n \in Names, ReloadFails(n) PROVE TypeOK'
    <2>1. build' \in [Names -> Build]
      BY <1>4, ReleaseType DEF ReloadFails
    <2> QED
      BY <1>4, <2>1 DEF ReloadFails, engineVars, history, budget
  <1>5. ASSUME NEW n \in Names, WaveFails(n) PROVE TypeOK'
    <2>1. record[n].consecutive_failures + 1 \in Nat
          /\ record[n].refresh_source \in RefreshSource
      BY DEF RefreshRecord
    <2>2. RecordRefresh(record[n], record[n].consecutive_failures + 1, TRUE,
                        record[n].refresh_source) \in RefreshRecord
      BY <2>1, RecordRefreshType
    <2>3. record' \in [Names -> RefreshRecord]
      BY <1>5, <2>2 DEF WaveFails
    <2>4. build' \in [Names -> Build]
      BY <1>5, ReleaseType DEF WaveFails
    <2> QED
      BY <1>5, <2>3, <2>4 DEF WaveFails, engineVars, history, budget
  <1>6. ASSUME EngineRecv PROVE TypeOK'
    <2>1. Head(publish_rx) \in Message
          /\ Tail(publish_rx) \in Seq(Message)
      BY <1>6, HeadTailProperties DEF EngineRecv
    <2>2. Cleared(Head(publish_rx)) \in [Names -> Nat]
      BY <2>1 DEF Cleared, Message
    <2>3. pending' \in [Names -> Nat]
      BY <1>6, <2>1, <2>2 DEF EngineRecv
    <2> QED
      BY <1>6, <2>1, <2>3 DEF EngineRecv, history, budget
  <1>7. ASSUME NEW F \in SUBSET Names, EngineFire(F) PROVE TypeOK'
    <2>1. PICK q \in Orders(F) : cascade_rx' = cascade_rx \o q
      BY <1>7 DEF EngineFire
    <2>2. cascade_rx' \in Seq(Names)
      BY <2>1, OrdersType, ConcatProperties
    <2> QED
      BY <1>7, <2>2 DEF EngineFire, history, budget
  <1>8. ASSUME EngineStop PROVE TypeOK'
    BY <1>8 DEF EngineStop, history, budget
  <1>9. ASSUME cascade_rx # <<>>
         PROVE  Head(cascade_rx) \in Names /\ Tail(cascade_rx) \in Seq(Names)
    BY <1>9, HeadTailProperties
  <1>10. ASSUME CascadeStart PROVE TypeOK'
    <2>1. Head(cascade_rx) \in Names /\ Tail(cascade_rx) \in Seq(Names)
      BY <1>9, <1>10 DEF CascadeStart
    <2>2. build' \in [Names -> Build] /\ clock' \in Nat
      BY <1>10, <2>1, BeginBuildType DEF CascadeStart, Builder
    <2> QED
      BY <1>10, <2>1, <2>2 DEF CascadeStart, engineVars, history, budget
  <1>11. ASSUME CascadeSkip PROVE TypeOK'
    <2>1. Head(cascade_rx) \in Names /\ Tail(cascade_rx) \in Seq(Names)
      BY <1>9, <1>11 DEF CascadeSkip
    <2> QED
      BY <1>11, <2>1 DEF CascadeSkip, engineVars, budget
  <1>12. ASSUME NEW n \in Names, NEW fails \in Nat, NEW error \in BOOLEAN,
                NEW source \in RefreshSource \cup {NoSource},
                TickRecord(n, fails, error, source)
         PROVE  record' \in [Names -> RefreshRecord]
    <2>1. RecordRefresh(record[n], fails, error, source) \in RefreshRecord
      BY RecordRefreshType
    <2>2. RecordRefresh(RecordRefresh(record[n], fails, error, source),
                        0, FALSE, NoSource) \in RefreshRecord
      BY <2>1, RecordRefreshType
    <2> QED
      BY <1>12, <2>2 DEF TickRecord
  <1>13. ASSUME NEW n \in Scheduled, TickStart(n) PROVE TypeOK'
    <2>1. build' \in [Names -> Build] /\ clock' \in Nat
      BY <1>13, BeginBuildType DEF TickStart, Builder
    <2> QED
      BY <1>13, <2>1 DEF TickStart, engineVars, history
  <1>14. ASSUME NEW n \in Scheduled, TickSkip(n) PROVE TypeOK'
    <2>1. record' \in [Names -> RefreshRecord]
      BY <1>12, <1>14 DEF TickSkip
    <2> QED
      <3>1. failures' \in [Names -> Nat] /\ ticks' \in Nat
        BY <1>14 DEF TickSkip
      <3> QED
        BY <1>14, <2>1, <3>1 DEF TickSkip, engineVars, history
  <1>15. ASSUME NEW n \in Names, CascadeDone(n) PROVE TypeOK'
    <2>1. RecordRefresh(record[n], 0, FALSE, "cascade") \in RefreshRecord
      BY RecordRefreshType DEF RefreshSource
    <2>2. record' \in [Names -> RefreshRecord]
      BY <1>15, <2>1 DEF CascadeDone
    <2>3. build' \in [Names -> Build]
      BY <1>15, ReleaseType DEF CascadeDone
    <2>4. publish_rx' \in Seq(Message)
      BY <1>15, NotifyType DEF CascadeDone
    <2> QED
      BY <1>15, <2>2, <2>3, <2>4 DEF CascadeDone, history, budget
  <1>16. ASSUME NEW n \in Names, TickDone(n) PROVE TypeOK'
    <2>1. record' \in [Names -> RefreshRecord]
      BY <1>12, <1>16 DEF TickDone, RefreshSource
    <2>2. build' \in [Names -> Build]
      BY <1>16, ReleaseType DEF TickDone
    <2>3. publish_rx' \in Seq(Message)
      BY <1>16, NotifyType DEF TickDone
    <2> QED
      BY <1>16, <2>1, <2>2, <2>3 DEF TickDone, history, budget
  <1>17. ASSUME NEW n \in Names, CascadeFails(n) PROVE TypeOK'
    <2>1. build' \in [Names -> Build]
      BY <1>17, ReleaseType DEF CascadeFails
    <2> QED
      <3>1. failedAt' \in [Names -> Nat] /\ clock' \in Nat
        BY <1>17 DEF CascadeFails
      <3> QED
        BY <1>17, <2>1, <3>1 DEF CascadeFails, engineVars, budget
  <1>18. ASSUME NEW n \in Names, TickFails(n) PROVE TypeOK'
    <2>1. failures[n] + 1 \in Nat /\ failures' \in [Names -> Nat]
      BY <1>18 DEF TickFails
    <2>2. TickRecord(n, failures[n] + 1, TRUE, NoSource)
      BY <1>18 DEF TickFails
    <2>3. record' \in [Names -> RefreshRecord]
      BY <1>12, <2>1, <2>2
    <2>4. build' \in [Names -> Build]
      BY <1>18, ReleaseType DEF TickFails
    <2> QED
      BY <1>18, <2>1, <2>3, <2>4 DEF TickFails, engineVars, history, budget
  <1>19. ASSUME LoopStop \/ Shutdown PROVE TypeOK'
    BY <1>19 DEF LoopStop, Shutdown, engineVars, history, budget
  <1>20. ASSUME UNCHANGED vars PROVE TypeOK'
    BY <1>20 DEF vars, engineVars, history, budget
  <1> QED
    BY <1>1, <1>2, <1>3, <1>4, <1>5, <1>6, <1>7, <1>8, <1>10, <1>11, <1>13,
       <1>14, <1>15, <1>16, <1>17, <1>18, <1>19, <1>20
    DEF Next, ClientStep, EngineStep, LoopStep, Finish

\* Type correctness of the scheduler and the cascade engine.
THEOREM TypeCorrect == Spec => []TypeOK
  <1>1. Init => TypeOK
    <2> SUFFICES ASSUME Init PROVE TypeOK
      OBVIOUS
    <2>1. NoBuild \in Build
      BY DEF NoBuild, Build
    <2>2. [consecutive_failures |-> 0, last_error |-> FALSE,
           refresh_source |-> "startup"] \in RefreshRecord
      BY DEF RefreshRecord, RefreshSource
    <2>3. [start |-> 0, at |-> 0] \in Generation
      BY DEF Generation
    <2>4. publish_rx \in Seq(Message) /\ cascade_rx \in Seq(Names)
      BY DEF Init
    <2> QED
      BY <2>1, <2>2, <2>3, <2>4 DEF Init, TypeOK
  <1> QED
    BY <1>1, TypeInductive, PTL DEF Spec

-----------------------------------------------------------------------------
(***************************************************************************)
(* Members of a queue after a receive and after a send.                    *)
(***************************************************************************)

\* Receiving the head leaves every other member in the queue, and adds none.
LEMMA TailMembers ==
    ASSUME NEW S, NEW s \in Seq(S), s # <<>>
    PROVE  /\ \A i \in DOMAIN s :
                 s[i] = Head(s) \/ \E j \in DOMAIN Tail(s) : Tail(s)[j] = s[i]
           /\ \A j \in DOMAIN Tail(s) : \E i \in DOMAIN s : s[i] = Tail(s)[j]
  <1>1. /\ Head(s) = s[1] /\ Tail(s) \in Seq(S) /\ Len(Tail(s)) = Len(s) - 1
        /\ \A i \in 1..Len(Tail(s)) : Tail(s)[i] = s[i + 1]
        /\ Len(s) \in Nat
    BY HeadTailProperties
  <1>2. DOMAIN s = 1..Len(s) /\ DOMAIN Tail(s) = 1..Len(Tail(s))
    BY <1>1
  <1>3. ASSUME NEW i \in DOMAIN s, i # 1
        PROVE  i - 1 \in DOMAIN Tail(s) /\ Tail(s)[i - 1] = s[i]
    BY <1>1, <1>2, <1>3
  <1>4. ASSUME NEW j \in DOMAIN Tail(s)
        PROVE  j + 1 \in DOMAIN s /\ s[j + 1] = Tail(s)[j]
    BY <1>1, <1>2, <1>4
  <1> QED
    BY <1>1, <1>3, <1>4

\* Sending e keeps every member and adds e alone.
LEMMA AppendMembers ==
    ASSUME NEW S, NEW s \in Seq(S), NEW e \in S
    PROVE  /\ \A i \in DOMAIN s :
                 i \in DOMAIN Append(s, e) /\ Append(s, e)[i] = s[i]
           /\ \E j \in DOMAIN Append(s, e) : Append(s, e)[j] = e
           /\ \A j \in DOMAIN Append(s, e) :
                 Append(s, e)[j] = e
                 \/ (j \in DOMAIN s /\ Append(s, e)[j] = s[j])
  <1>1. /\ Append(s, e) \in Seq(S) /\ Len(Append(s, e)) = Len(s) + 1
        /\ \A i \in 1..Len(s) : Append(s, e)[i] = s[i]
        /\ Append(s, e)[Len(s) + 1] = e
        /\ Len(s) \in Nat
    BY AppendProperties
  <1>2. DOMAIN s = 1..Len(s) /\ DOMAIN Append(s, e) = 1..(Len(s) + 1)
    BY <1>1
  <1> QED
    BY <1>1, <1>2

\* Sending all of t keeps every member of s and adds every member of t.
LEMMA ConcatMembers ==
    ASSUME NEW s \in Seq(Names), NEW t \in Seq(Names), NEW e \in Names,
           (\E i \in DOMAIN s : s[i] = e) \/ (\E i \in DOMAIN t : t[i] = e)
    PROVE  \E j \in DOMAIN (s \o t) : (s \o t)[j] = e
  <1>1. /\ s \o t \in Seq(Names) /\ Len(s \o t) = Len(s) + Len(t)
        /\ \A i \in 1..(Len(s) + Len(t)) :
             (s \o t)[i] = IF i <= Len(s) THEN s[i] ELSE t[i - Len(s)]
        /\ Len(s) \in Nat /\ Len(t) \in Nat
    BY ConcatProperties
  <1>2. DOMAIN s = 1..Len(s) /\ DOMAIN t = 1..Len(t)
        /\ DOMAIN (s \o t) = 1..(Len(s) + Len(t))
    BY <1>1
  <1>3. ASSUME NEW i \in DOMAIN s
        PROVE  i \in DOMAIN (s \o t) /\ (s \o t)[i] = s[i]
    BY <1>1, <1>2
  <1>4. ASSUME NEW i \in DOMAIN t
        PROVE  Len(s) + i \in DOMAIN (s \o t) /\ (s \o t)[Len(s) + i] = t[i]
    BY <1>1, <1>2
  <1> QED
    BY <1>3, <1>4

-----------------------------------------------------------------------------
(***************************************************************************)
(* IndInv, one lemma per kind of step.                                     *)
(***************************************************************************)

\* Starting a build under the mutex: its start is newer than every stamp.
LEMMA BeginKeepsOrder ==
    ASSUME TypeOK, IndInv, NEW n \in Names, NEW who \in Builder, ~Locked(n),
           BeginBuild(n, who), UNCHANGED <<live, engineVars, shutdown>>
    PROVE  /\ StampsInPast' /\ BuildOrder' /\ MessageOrder' /\ PendingOrder'
           /\ StoppedByShutdown'
           /\ \A u \in Names : Announced(u) => Announced(u)'
           /\ \A d \in Names : build[d].by = "cascade" => build'[d] = build[d]
  <1> USE DEF BeginBuild, engineVars, IndInv
  <1>1. clock \in Nat /\ live \in [Names -> Generation]
        /\ build \in [Names -> Build] /\ pending \in [Names -> Nat]
    BY DEF TypeOK
  <1>2. build' = [build EXCEPT ![n] =
                    [by |-> who, start |-> clock, phase |-> "run"]]
        /\ build[n].by = "none" /\ clock' = clock + 1
    BY DEF Locked
  <1>3. \A m \in Names : m # n => build'[m] = build[m]
    BY <1>1, <1>2
  <1>4. build'[n].start = clock /\ build'[n].phase = "run"
    BY <1>1, <1>2
  <1>5. \A m \in Names : live[m].start \in Nat /\ live[m].at \in Nat
                         /\ build[m].start \in Nat /\ pending[m] \in Nat
    BY <1>1 DEF Generation, Build
  <1>6. StampsInPast'
    BY <1>1, <1>2, <1>3, <1>4, <1>5 DEF StampsInPast
  <1>7. BuildOrder'
    BY <1>3, <1>4 DEF BuildOrder, StampsInPast
  <1>8. MessageOrder' /\ StoppedByShutdown'
    BY DEF MessageOrder, StoppedByShutdown
  <1>9. \A u \in Names : Announced(u) => Announced(u)'
    BY <1>2, <1>3 DEF Announced
  <1>10. PendingOrder'
    BY <1>9 DEF PendingOrder
  <1> QED
    BY <1>2, <1>3, <1>6, <1>7, <1>8, <1>9, <1>10

\* A client's reload or a tick starts.
LEMMA BeginKeepsInv ==
    ASSUME TypeOK, IndInv, NEW n \in Names, NEW who \in Builder, ~Locked(n),
           BeginBuild(n, who),
           UNCHANGED <<live, engineVars, cascade_rx, shutdown, history>>
    PROVE  IndInv'
  <1>1. /\ StampsInPast' /\ BuildOrder' /\ MessageOrder' /\ PendingOrder'
        /\ StoppedByShutdown'
        /\ \A u \in Names : Announced(u) => Announced(u)'
        /\ \A d \in Names : build[d].by = "cascade" => build'[d] = build[d]
    BY BeginKeepsOrder
  <1>2. ASSUME NEW u \in Names, NEW d \in Dag[u], Covered(u, d)
        PROVE  Covered(u, d)'
    <2>1. d \in Names
      OBVIOUS
    <2> QED
      BY <1>1, <1>2, <2>1 DEF Covered, engineVars
  <1>3. TriggerCovered'
    BY <1>2 DEF IndInv, TriggerCovered, Stale, history
  <1> QED
    BY <1>1, <1>3 DEF IndInv

\* A cascade request starts its build: the build replaces the request.
LEMMA CascadeStartKeepsInv ==
    ASSUME TypeOK, IndInv, CascadeStart
    PROVE  IndInv'
  <1> DEFINE h == Head(cascade_rx)
  <1>1. cascade_rx \in Seq(Names) /\ cascade_rx # <<>> /\ h \in Names
        /\ cascade_rx' = Tail(cascade_rx)
    BY HeadTailProperties DEF CascadeStart, TypeOK
  <1>2. ~Locked(h) /\ BeginBuild(h, "cascade")
        /\ UNCHANGED <<live, engineVars, shutdown, history>>
    BY DEF CascadeStart
  <1>3. /\ StampsInPast' /\ BuildOrder' /\ MessageOrder' /\ PendingOrder'
        /\ StoppedByShutdown'
        /\ \A u \in Names : Announced(u) => Announced(u)'
        /\ \A d \in Names : build[d].by = "cascade" => build'[d] = build[d]
    BY <1>1, <1>2, BeginKeepsOrder DEF Builder
  <1>4. build'[h].by = "cascade" /\ build'[h].start = clock
    BY <1>1, <1>2 DEF BeginBuild, TypeOK
  <1>5. ASSUME NEW u \in Names, NEW d \in Dag[u], Covered(u, d)
        PROVE  Covered(u, d)'
    <2>1. d \in Names
      OBVIOUS
    <2>2. CASE \E i \in DOMAIN cascade_rx : cascade_rx[i] = d
      <3>1. PICK i \in DOMAIN cascade_rx : cascade_rx[i] = d
        BY <2>2
      <3>2. CASE d = h
        <4>1. live[u].at < clock
          BY DEF IndInv, StampsInPast
        <4>2. build'[d].by = "cascade" /\ build'[d].start > live'[u].at
          BY <1>2, <1>4, <3>2, <4>1 DEF TypeOK, Generation
        <4> QED
          BY <4>2 DEF Covered
      <3>3. CASE d # h
        <4>1. \E j \in DOMAIN Tail(cascade_rx) : Tail(cascade_rx)[j] = d
          BY <1>1, <3>1, <3>3, TailMembers
        <4> QED
          BY <1>1, <4>1 DEF Covered
      <3> QED
        BY <3>2, <3>3
    <2>3. CASE ~\E i \in DOMAIN cascade_rx : cascade_rx[i] = d
      BY <1>2, <1>3, <1>5, <2>1, <2>3 DEF Covered, engineVars
    <2> QED
      BY <2>2, <2>3
  <1>6. TriggerCovered'
    BY <1>2, <1>5 DEF IndInv, TriggerCovered, Stale, history
  <1> QED
    BY <1>3, <1>6 DEF IndInv

\* Publishing: the dependents of n become stale, and n is announced.
LEMMA PublishKeepsInv ==
    ASSUME TypeOK, IndInv, NEW n \in Names, Publish(n)
    PROVE  IndInv'
  <1>1. clock \in Nat /\ live \in [Names -> Generation]
        /\ build \in [Names -> Build] /\ pending \in [Names -> Nat]
        /\ publish_rx \in Seq(Message)
    BY DEF TypeOK
  <1>2. \A m \in Names : live[m].start \in Nat /\ live[m].at \in Nat
                         /\ build[m].start \in Nat /\ pending[m] \in Nat
    BY <1>1 DEF Generation, Build
  <1>3. build[n].by # "none" /\ build[n].phase = "run" /\ clock' = clock + 1
        /\ live' = [live EXCEPT ![n] = [start |-> build[n].start, at |-> clock]]
        /\ build' = [build EXCEPT ![n].phase = "announce"]
        /\ UNCHANGED <<publish_rx, pending, engine, cascade_rx, shutdown,
                       skippedAt, failedAt>>
    BY DEF Publish, engineVars, history
  <1>4. \A m \in Names : m # n => live'[m] = live[m] /\ build'[m] = build[m]
    BY <1>1, <1>3
  <1>5. live'[n].start = build[n].start /\ live'[n].at = clock
    BY <1>1, <1>3
  <1>6. build'[n].by = build[n].by /\ build'[n].start = build[n].start
        /\ build'[n].phase = "announce"
    BY <1>1, <1>3 DEF Build
  <1>7. live[n].start < build[n].start
    BY <1>3 DEF IndInv, BuildOrder
  <1>8. StampsInPast'
    BY <1>1, <1>2, <1>3, <1>4, <1>5, <1>6 DEF IndInv, StampsInPast
  <1>9. BuildOrder'
    BY <1>4, <1>5, <1>6 DEF IndInv, BuildOrder
  <1>10. MessageOrder'
    <2> SUFFICES ASSUME NEW i \in DOMAIN publish_rx
                 PROVE  publish_rx[i].start <= live'[publish_rx[i].name].start
      BY <1>3 DEF MessageOrder
    <2>1. publish_rx[i] \in Message
      BY <1>1
    <2>2. publish_rx[i].name \in Names /\ publish_rx[i].start \in Nat
      BY <2>1 DEF Message
    <2>3. publish_rx[i].start <= live[publish_rx[i].name].start
      BY DEF IndInv, MessageOrder
    <2> QED
      BY <1>2, <1>4, <1>5, <1>7, <2>2, <2>3
  <1>11. StoppedByShutdown'
    BY <1>3 DEF IndInv, StoppedByShutdown
  <1>12. Announced(n)'
    BY <1>3, <1>6 DEF Announced
  <1>13. \A u \in Names : Announced(u) => Announced(u)'
    BY <1>3, <1>4, <1>12 DEF Announced
  <1>14. PendingOrder'
    BY <1>3, <1>4, <1>12, <1>13 DEF IndInv, PendingOrder
  <1>15. TriggerCovered'
    <2> SUFFICES ASSUME NEW u \in Names, NEW d \in Dag[u], Stale(u, d)'
                 PROVE  \/ Covered(u, d)'
                        \/ (failedAt[d] > live[u].at)'
                        \/ (skippedAt[d] > live[u].at)'
                        \/ shutdown'
      BY DEF TriggerCovered
    <2>1. d \in Names
      OBVIOUS
    <2>2. CASE u = n
      BY <1>12, <2>2 DEF Covered
    <2>3. CASE u # n
      <3>1. live'[u] = live[u] /\ live[d].start <= live'[d].start
        BY <1>2, <1>4, <1>5, <1>7, <2>1, <2>3
      <3>2. live'[u].at > live'[d].start
        BY DEF Stale
      <3>3. Stale(u, d)
        BY <1>2, <1>4, <1>5, <2>1, <3>1, <3>2 DEF Stale
      <3>4. \/ Covered(u, d) \/ failedAt[d] > live[u].at
            \/ skippedAt[d] > live[u].at \/ shutdown
        BY <3>3 DEF IndInv, TriggerCovered
      <3>5. build'[d].by = build[d].by /\ build'[d].start = build[d].start
        BY <1>4, <1>6, <2>1
      <3> QED
        BY <1>3, <1>13, <3>1, <3>4, <3>5 DEF Covered
    <2> QED
      BY <2>2, <2>3
  <1> QED
    BY <1>8, <1>9, <1>10, <1>11, <1>14, <1>15 DEF IndInv

\* Notifying the engine and releasing the mutex: the announcement moves from
\* the builder into the channel.
LEMMA DoneKeepsInv ==
    ASSUME TypeOK, IndInv, NEW n \in Names, build[n].by # "none",
           build[n].phase = "announce", Notify(n), Release(n),
           UNCHANGED <<clock, live, pending, engine, cascade_rx, shutdown,
                       history>>
    PROVE  IndInv'
  <1>1. build \in [Names -> Build] /\ publish_rx \in Seq(Message)
        /\ clock \in Nat
    BY DEF TypeOK
  <1>2. \A m \in Names : m # n => build'[m] = build[m]
    BY <1>1 DEF Release
  <1>3. build'[n] = NoBuild
    BY <1>1 DEF Release
  <1>4. StampsInPast'
    <2>1. \A m \in Names : build'[m].start < clock
      <3>1. build[n].start < clock /\ build[n].start \in Nat
        BY <1>1 DEF IndInv, StampsInPast, Build
      <3> QED
        BY <1>1, <1>2, <1>3, <3>1 DEF IndInv, StampsInPast, NoBuild
    <2> QED
      BY <2>1 DEF IndInv, StampsInPast
  <1>5. BuildOrder'
    BY <1>2, <1>3 DEF IndInv, BuildOrder, NoBuild
  <1>6. StoppedByShutdown'
    BY DEF IndInv, StoppedByShutdown
  <1> DEFINE msg == [name |-> n, start |-> build[n].start]
  <1>7. msg \in Message
    BY <1>1 DEF Message, Build
  <1>8. engine = "running" => publish_rx' = Append(publish_rx, msg)
    BY DEF Notify
  <1>9. engine # "running" => publish_rx' = publish_rx
    BY DEF Notify
  <1>10. engine # "running" => shutdown
    BY DEF IndInv, StoppedByShutdown, TypeOK
  <1>11. MessageOrder'
    <2>1. CASE engine = "running"
      <3> SUFFICES ASSUME NEW i \in DOMAIN publish_rx'
                   PROVE  publish_rx'[i].start <= live[publish_rx'[i].name].start
        BY DEF MessageOrder
      <3>1. \/ publish_rx'[i] = msg
            \/ i \in DOMAIN publish_rx /\ publish_rx'[i] = publish_rx[i]
        BY <1>1, <1>7, <1>8, <2>1, AppendMembers
      <3>2. msg.start <= live[msg.name].start
        <4>1. build[n].start = live[n].start /\ build[n].start \in Nat
          BY <1>1 DEF IndInv, BuildOrder, Build
        <4> QED
          BY <4>1
      <3> HIDE DEF msg
      <3> QED
        BY <3>1, <3>2 DEF IndInv, MessageOrder
    <2>2. CASE engine # "running"
      BY <1>9, <2>2 DEF IndInv, MessageOrder
    <2> QED
      BY <2>1, <2>2
  <1>12. \A u \in Names : Announced(u) => Announced(u)' \/ shutdown
    <2>1. SUFFICES ASSUME NEW u \in Names, Announced(u), engine = "running"
                   PROVE  Announced(u)'
      BY <1>10
    <2>2. CASE u = n
      <3>1. \E j \in DOMAIN publish_rx' : publish_rx'[j] = msg
        BY <1>1, <1>7, <1>8, <2>1, AppendMembers
      <3> QED
        BY <2>2, <3>1 DEF Announced
    <2>3. CASE u # n
      <3>1. CASE build[u].by # "none" /\ build[u].phase = "announce"
        BY <1>2, <2>3, <3>1 DEF Announced
      <3>2. CASE \E i \in DOMAIN publish_rx : publish_rx[i].name = u
        <4>1. PICK i \in DOMAIN publish_rx : publish_rx[i].name = u
          BY <3>2
        <4>2. i \in DOMAIN publish_rx' /\ publish_rx'[i] = publish_rx[i]
          BY <1>1, <1>7, <1>8, <2>1, AppendMembers
        <4> QED
          BY <4>1, <4>2 DEF Announced
      <3> QED
        BY <2>1, <3>1, <3>2 DEF Announced
    <2> QED
      BY <2>2, <2>3
  <1>13. PendingOrder'
    BY <1>12 DEF IndInv, PendingOrder
  <1>14. TriggerCovered'
    <2> SUFFICES ASSUME NEW u \in Names, NEW d \in Dag[u], Stale(u, d)
                 PROVE  \/ Covered(u, d)' \/ failedAt[d] > live[u].at
                        \/ skippedAt[d] > live[u].at \/ shutdown
      BY DEF TriggerCovered, Stale, history
    <2>1. d \in Names
      OBVIOUS
    <2>2. \/ Covered(u, d) \/ failedAt[d] > live[u].at
          \/ skippedAt[d] > live[u].at \/ shutdown
      BY DEF IndInv, TriggerCovered
    <2>3. CASE d = n
      <3>1. build[n].start = live[n].start
        BY DEF IndInv, BuildOrder
      <3>2. ~(build[d].start > live[u].at)
        BY <1>1, <2>1, <2>3, <3>1 DEF Stale, TypeOK, Generation, Build
      <3> QED
        BY <1>12, <2>2, <3>2 DEF Covered
    <2>4. CASE d # n
      BY <1>2, <1>12, <2>1, <2>2, <2>4 DEF Covered
    <2> QED
      BY <2>3, <2>4
  <1> QED
    BY <1>4, <1>5, <1>6, <1>11, <1>13, <1>14 DEF IndInv

\* A build that does not publish releases the mutex.  If it served a cascade
\* request, failedAt remembers that the request is gone.
LEMMA FailKeepsInv ==
    ASSUME TypeOK, IndInv, NEW n \in Names, build[n].by # "none",
           build[n].phase = "run", Release(n),
           UNCHANGED <<live, engineVars, cascade_rx, shutdown, skippedAt>>,
           \/ build[n].by # "cascade" /\ UNCHANGED <<clock, failedAt>>
           \/ /\ failedAt' = [failedAt EXCEPT ![n] = clock]
              /\ clock' = clock + 1
    PROVE  IndInv'
  <1>1. build \in [Names -> Build] /\ clock \in Nat
        /\ failedAt \in [Names -> Nat] /\ live \in [Names -> Generation]
        /\ pending \in [Names -> Nat]
    BY DEF TypeOK
  <1>2. \A m \in Names : m # n => build'[m] = build[m]
    BY <1>1 DEF Release
  <1>3. build'[n] = NoBuild
    BY <1>1 DEF Release
  <1>4. clock' \in Nat /\ clock <= clock'
    BY <1>1
  <1>5. StampsInPast'
    <2> SUFFICES ASSUME NEW m \in Names
                 PROVE  /\ live[m].start < clock' /\ live[m].at < clock'
                        /\ build'[m].start < clock' /\ pending[m] < clock'
      BY DEF StampsInPast, engineVars
    <2>1. live[m].start \in Nat /\ live[m].at \in Nat /\ pending[m] \in Nat
          /\ build[m].start \in Nat
      BY <1>1 DEF Generation, Build
    <2>2. live[m].start < clock /\ live[m].at < clock /\ pending[m] < clock
          /\ build[m].start < clock
      BY DEF IndInv, StampsInPast
    <2>3. build'[m].start = build[m].start \/ build'[m].start = 0
      BY <1>2, <1>3 DEF NoBuild
    <2> QED
      BY <1>1, <1>4, <2>1, <2>2, <2>3
  <1>6. BuildOrder'
    BY <1>2, <1>3 DEF IndInv, BuildOrder, NoBuild
  <1>7. MessageOrder' /\ StoppedByShutdown'
    BY DEF IndInv, MessageOrder, StoppedByShutdown, engineVars
  <1>8. \A u \in Names : Announced(u) => Announced(u)'
    BY <1>2 DEF Announced, engineVars
  <1>9. PendingOrder'
    BY <1>8 DEF IndInv, PendingOrder, engineVars
  <1>10. TriggerCovered'
    <2> SUFFICES ASSUME NEW u \in Names, NEW d \in Dag[u], Stale(u, d)
                 PROVE  \/ Covered(u, d)' \/ failedAt'[d] > live[u].at
                        \/ skippedAt[d] > live[u].at \/ shutdown
      BY DEF TriggerCovered, Stale
    <2>1. d \in Names
      OBVIOUS
    <2>2. \/ Covered(u, d) \/ failedAt[d] > live[u].at
          \/ skippedAt[d] > live[u].at \/ shutdown
      BY DEF IndInv, TriggerCovered
    <2>3. live[u].at < clock /\ live[u].at \in Nat
      BY <1>1 DEF IndInv, StampsInPast, Generation
    <2>4. failedAt'[d] = clock \/ failedAt'[d] = failedAt[d]
      BY <1>1, <2>1
    <2>5. CASE failedAt[d] > live[u].at
      BY <1>1, <2>1, <2>3, <2>4, <2>5
    <2>6. CASE d = n /\ build[d].by = "cascade"
      <3>1. failedAt'[d] = clock
        BY <1>1, <2>6
      <3> QED
        BY <1>1, <2>3, <3>1
    <2>7. CASE ~(d = n /\ build[d].by = "cascade") /\ Covered(u, d)
      BY <1>2, <1>8, <2>1, <2>7 DEF Covered, engineVars
    <2> QED
      BY <2>2, <2>5, <2>6, <2>7
  <1> QED
    BY <1>5, <1>6, <1>7, <1>9, <1>10 DEF IndInv

\* A cascade request skipped because the mutex is held is remembered in
\* skippedAt.
LEMMA CascadeSkipKeepsInv ==
    ASSUME TypeOK, IndInv, CascadeSkip
    PROVE  IndInv'
  <1> DEFINE h == Head(cascade_rx)
  <1>1. cascade_rx \in Seq(Names) /\ cascade_rx # <<>> /\ h \in Names
        /\ cascade_rx' = Tail(cascade_rx)
    BY HeadTailProperties DEF CascadeSkip, TypeOK
  <1>2. skippedAt' = [skippedAt EXCEPT ![h] = clock] /\ clock' = clock + 1
        /\ UNCHANGED <<live, publish_rx, pending, engine, build, shutdown,
                       failedAt>>
    BY DEF CascadeSkip, engineVars
  <1>3. clock \in Nat /\ live \in [Names -> Generation]
        /\ build \in [Names -> Build] /\ pending \in [Names -> Nat]
        /\ skippedAt \in [Names -> Nat]
    BY DEF TypeOK
  <1>4. \A m \in Names : live[m].start \in Nat /\ live[m].at \in Nat
                         /\ build[m].start \in Nat /\ pending[m] \in Nat
    BY <1>3 DEF Generation, Build
  <1>5. StampsInPast'
    BY <1>2, <1>3, <1>4 DEF IndInv, StampsInPast
  <1>6. BuildOrder' /\ MessageOrder' /\ StoppedByShutdown'
    BY <1>2 DEF IndInv, BuildOrder, MessageOrder, StoppedByShutdown
  <1>7. \A u \in Names : Announced(u)' <=> Announced(u)
    BY <1>2 DEF Announced
  <1>8. PendingOrder'
    BY <1>2, <1>7 DEF IndInv, PendingOrder
  <1>9. TriggerCovered'
    <2> SUFFICES ASSUME NEW u \in Names, NEW d \in Dag[u], Stale(u, d)
                 PROVE  \/ Covered(u, d)' \/ failedAt[d] > live[u].at
                        \/ skippedAt'[d] > live[u].at \/ shutdown
      BY <1>2 DEF TriggerCovered, Stale
    <2>1. d \in Names
      OBVIOUS
    <2>2. \/ Covered(u, d) \/ failedAt[d] > live[u].at
          \/ skippedAt[d] > live[u].at \/ shutdown
      BY DEF IndInv, TriggerCovered
    <2>3. live[u].at < clock
      BY DEF IndInv, StampsInPast
    <2>4. CASE d = h
      <3>1. skippedAt'[d] = clock
        BY <1>2, <1>3, <2>1, <2>4
      <3> QED
        BY <1>3, <1>4, <2>3, <3>1
    <2>5. CASE d # h
      <3>1. skippedAt'[d] = skippedAt[d]
        BY <1>2, <1>3, <2>1, <2>5
      <3>2. CASE \E i \in DOMAIN cascade_rx : cascade_rx[i] = d
        <4>1. \E j \in DOMAIN Tail(cascade_rx) : Tail(cascade_rx)[j] = d
          BY <1>1, <2>5, <3>2, TailMembers
        <4> QED
          BY <1>1, <4>1 DEF Covered
      <3>3. CASE ~\E i \in DOMAIN cascade_rx : cascade_rx[i] = d
        BY <1>2, <1>7, <2>2, <3>1, <3>3 DEF Covered
      <3> QED
        BY <3>2, <3>3
    <2> QED
      BY <2>4, <2>5
  <1> QED
    BY <1>5, <1>6, <1>8, <1>9 DEF IndInv

\* Fired timers become requests.
LEMMA EngineFireKeepsInv ==
    ASSUME TypeOK, IndInv, NEW F \in SUBSET Names, EngineFire(F)
    PROVE  IndInv'
  <1>1. PICK q \in Orders(F) : cascade_rx' = cascade_rx \o q
    BY DEF EngineFire
  <1>2. q \in Seq(Names) /\ \A d \in F : \E i \in DOMAIN q : q[i] = d
    BY OrdersType
  <1>3. pending' = [d \in Names |-> IF d \in F THEN 0 ELSE pending[d]]
        /\ UNCHANGED <<clock, live, publish_rx, engine, build, shutdown,
                       skippedAt, failedAt>>
    BY DEF EngineFire, history
  <1>4. cascade_rx \in Seq(Names) /\ clock \in Nat /\ pending \in [Names -> Nat]
    BY DEF TypeOK
  <1>5. StampsInPast'
    <2>1. \A m \in Names : pending'[m] = 0 \/ pending'[m] = pending[m]
      BY <1>3
    <2>2. \A m \in Names : pending[m] < clock /\ pending[m] \in Nat
      BY <1>4 DEF IndInv, StampsInPast
    <2>3. \A m \in Names : pending'[m] < clock
      BY <1>4, <2>1, <2>2
    <2> QED
      BY <1>3, <2>3 DEF IndInv, StampsInPast
  <1>6. BuildOrder' /\ MessageOrder' /\ StoppedByShutdown'
    BY <1>3 DEF IndInv, BuildOrder, MessageOrder, StoppedByShutdown
  <1>7. \A u \in Names : Announced(u)' <=> Announced(u)
    BY <1>3 DEF Announced
  <1>8. PendingOrder'
    BY <1>3, <1>7 DEF IndInv, PendingOrder
  <1>9. ASSUME NEW d \in Names,
               \/ \E i \in DOMAIN cascade_rx : cascade_rx[i] = d
               \/ \E i \in DOMAIN q : q[i] = d
        PROVE  \E j \in DOMAIN (cascade_rx \o q) : (cascade_rx \o q)[j] = d
    BY <1>2, <1>4, <1>9, ConcatMembers
  <1>10. ASSUME NEW u \in Names, NEW d \in Dag[u], Covered(u, d)
        PROVE  Covered(u, d)'
    <2>1. d \in Names
      OBVIOUS
    <2>2. CASE \E i \in DOMAIN cascade_rx : cascade_rx[i] = d
      <3>1. \E j \in DOMAIN cascade_rx' : cascade_rx'[j] = d
        BY <1>1, <1>9, <2>1, <2>2
      <3> QED
        BY <3>1 DEF Covered
    <2>3. CASE d \in F
      <3>1. \E j \in DOMAIN cascade_rx' : cascade_rx'[j] = d
        BY <1>1, <1>2, <1>9, <2>1, <2>3
      <3> QED
        BY <3>1 DEF Covered
    <2>4. CASE d \notin F /\ ~\E i \in DOMAIN cascade_rx : cascade_rx[i] = d
      BY <1>3, <1>7, <1>10, <2>1, <2>4 DEF Covered
    <2> QED
      BY <2>2, <2>3, <2>4
  <1>11. TriggerCovered'
    BY <1>3, <1>10 DEF IndInv, TriggerCovered, Stale
  <1> QED
    BY <1>5, <1>6, <1>8, <1>11 DEF IndInv

\* The engine processes a publish.  The heart of the argument: an entry is
\* cleared only when trigger_at <= build_start, every processed publish of an
\* upstream precedes trigger_at (PendingOrder), and build_start is no later
\* than the start of the live generation (MessageOrder).
LEMMA EngineRecvKeepsInv ==
    ASSUME TypeOK, IndInv, EngineRecv
    PROVE  IndInv'
  <1> DEFINE msg == Head(publish_rx)
  <1>1. publish_rx \in Seq(Message) /\ publish_rx # <<>> /\ clock \in Nat
        /\ pending \in [Names -> Nat] /\ live \in [Names -> Generation]
    BY DEF TypeOK, EngineRecv
  <1>2. msg \in Message /\ msg = publish_rx[1] /\ 1 \in DOMAIN publish_rx
    BY <1>1, HeadTailProperties
  <1>3. msg.name \in Names /\ msg.start \in Nat
    BY <1>2 DEF Message
  <1>4. pending' = [d \in Names |->
                      IF d \in Dag[msg.name] THEN clock ELSE Cleared(msg)[d]]
        /\ clock' = clock + 1 /\ publish_rx' = Tail(publish_rx)
        /\ UNCHANGED <<live, build, cascade_rx, engine, shutdown, skippedAt,
                       failedAt>>
    BY DEF EngineRecv, history
  <1>5. msg.start <= live[msg.name].start
    BY <1>2 DEF IndInv, MessageOrder
  <1> HIDE DEF msg
  <1>6. \A m \in Names : live[m].start \in Nat /\ live[m].at \in Nat
                         /\ build[m].start \in Nat /\ pending[m] \in Nat
    BY <1>1 DEF TypeOK, Generation, Build
  <1>7. \A m \in Names : live[m].start < clock /\ live[m].at < clock
                         /\ build[m].start < clock /\ pending[m] < clock
    BY DEF IndInv, StampsInPast
  <1>8. ASSUME NEW d \in Names
        PROVE  \/ d \in Dag[msg.name] /\ pending'[d] = clock
               \/ pending'[d] = pending[d] /\ d \notin Dag[msg.name]
               \/ d = msg.name /\ pending'[d] = 0 /\ pending[d] <= msg.start
    BY <1>1, <1>3, <1>4 DEF Cleared
  <1>9. StampsInPast'
    <2>1. \A m \in Names : pending'[m] < clock'
      BY <1>1, <1>4, <1>6, <1>7, <1>8
    <2> QED
      BY <1>1, <1>4, <1>6, <1>7, <2>1 DEF StampsInPast
  <1>10. BuildOrder' /\ StoppedByShutdown'
    BY <1>4 DEF IndInv, BuildOrder, StoppedByShutdown
  <1>11. \A j \in DOMAIN Tail(publish_rx) :
            \E i \in DOMAIN publish_rx : publish_rx[i] = Tail(publish_rx)[j]
    BY <1>1, TailMembers
  <1>12. MessageOrder'
    BY <1>4, <1>11 DEF IndInv, MessageOrder
  <1>13. \A u \in Names : Announced(u) => Announced(u)' \/ u = msg.name
    <2> SUFFICES ASSUME NEW u \in Names, Announced(u), u # msg.name
                 PROVE  Announced(u)'
      OBVIOUS
    <2>1. CASE build[u].by # "none" /\ build[u].phase = "announce"
      BY <1>4, <2>1 DEF Announced
    <2>2. CASE \E i \in DOMAIN publish_rx : publish_rx[i].name = u
      <3>1. PICK i \in DOMAIN publish_rx : publish_rx[i].name = u
        BY <2>2
      <3>2. publish_rx[i] # msg
        BY <3>1
      <3>3. \E j \in DOMAIN Tail(publish_rx) : Tail(publish_rx)[j] = publish_rx[i]
        BY <1>1, <3>2, TailMembers DEF msg
      <3> QED
        BY <1>4, <3>1, <3>3 DEF Announced
    <2> QED
      BY <2>1, <2>2 DEF Announced
  <1>14. PendingOrder'
    <2> SUFFICES ASSUME NEW u \in Names, NEW d \in Dag[u], pending'[d] # 0
                 PROVE  live[u].at < pending'[d] \/ Announced(u)' \/ shutdown
      BY <1>4 DEF PendingOrder
    <2>1. d \in Names
      OBVIOUS
    <2>2. CASE pending'[d] = clock
      BY <1>7, <2>2
    <2>3. CASE pending'[d] = pending[d] /\ d \notin Dag[msg.name]
      <3>1. u # msg.name
        BY <2>3
      <3> QED
        BY <1>13, <2>3, <3>1 DEF IndInv, PendingOrder
    <2> QED
      BY <1>8, <2>1, <2>2, <2>3
  <1>15. TriggerCovered'
    <2> SUFFICES ASSUME NEW u \in Names, NEW d \in Dag[u], Stale(u, d)
                 PROVE  \/ Covered(u, d)' \/ failedAt[d] > live[u].at
                        \/ skippedAt[d] > live[u].at \/ shutdown
      BY <1>4 DEF TriggerCovered, Stale
    <2>1. d \in Names
      OBVIOUS
    <2>2. \/ Covered(u, d) \/ failedAt[d] > live[u].at
          \/ skippedAt[d] > live[u].at \/ shutdown
      BY DEF IndInv, TriggerCovered
    <2>3. CASE d \in Dag[msg.name]
      <3>1. pending'[d] = clock /\ clock # 0
        BY <1>1, <1>4, <1>6, <1>7, <2>1, <2>3
      <3> QED
        BY <3>1 DEF Covered
    <2>4. CASE pending'[d] = pending[d] /\ d \notin Dag[msg.name]
      <3>1. u # msg.name
        BY <2>4
      <3> QED
        BY <1>4, <1>13, <2>2, <2>4, <3>1 DEF Covered
    <2>5. CASE d = msg.name /\ pending[d] <= msg.start /\ d \notin Dag[msg.name]
      <3>1. u # msg.name
        BY <2>5
      <3>2. CASE pending[d] = 0
        BY <1>4, <1>13, <2>2, <3>1, <3>2 DEF Covered
      <3>3. CASE pending[d] # 0
        <4>1. live[u].at < pending[d] \/ Announced(u) \/ shutdown
          BY <3>3 DEF IndInv, PendingOrder
        <4>2. ~(live[u].at < pending[d])
          BY <1>3, <1>5, <1>6, <2>1, <2>5 DEF Stale
        <4> QED
          BY <1>13, <3>1, <4>1, <4>2 DEF Covered
      <3> QED
        BY <3>2, <3>3
    <2> QED
      BY <1>8, <2>1, <2>3, <2>4, <2>5
  <1> QED
    BY <1>9, <1>10, <1>12, <1>14, <1>15 DEF IndInv

\* A step that leaves the cascade state alone, except perhaps for raising the
\* shutdown flag or stopping a task under it.
LEMMA QuietKeepsInv ==
    ASSUME IndInv, shutdown \in BOOLEAN,
           UNCHANGED <<clock, live, build, publish_rx, pending, cascade_rx,
                       skippedAt, failedAt>>,
           shutdown => shutdown', engine' = engine \/ shutdown'
    PROVE  IndInv'
  <1>1. StampsInPast' /\ BuildOrder' /\ MessageOrder'
    BY DEF IndInv, StampsInPast, BuildOrder, MessageOrder
  <1>2. \A u \in Names : Announced(u)' <=> Announced(u)
    BY DEF Announced
  <1>3. \A u \in Names : \A d \in Dag[u] : Covered(u, d)' <=> Covered(u, d)
    BY <1>2 DEF Covered
  <1>4. PendingOrder'
    BY <1>2 DEF IndInv, PendingOrder
  <1>5. StoppedByShutdown'
    BY DEF IndInv, StoppedByShutdown
  <1>6. TriggerCovered'
    BY <1>3 DEF IndInv, TriggerCovered, Stale
  <1> QED
    BY <1>1, <1>4, <1>5, <1>6 DEF IndInv

\* Every step preserves IndInv.
LEMMA InvInductive == TypeOK /\ IndInv /\ [Next]_vars => IndInv'
  <1> SUFFICES ASSUME TypeOK, IndInv, [Next]_vars PROVE IndInv'
    OBVIOUS
  <1>1. ASSUME NEW n \in Names, ClientStart(n) PROVE IndInv'
    BY <1>1, BeginKeepsInv DEF ClientStart, Builder, engineVars, history
  <1>2. ASSUME NEW n \in Names, Publish(n) PROVE IndInv'
    BY <1>2, PublishKeepsInv
  <1>3. ASSUME NEW n \in Names, ClientDone(n) PROVE IndInv'
    BY <1>3, DoneKeepsInv DEF ClientDone
  <1>4. ASSUME NEW n \in Names, ReloadFails(n) \/ WaveFails(n) PROVE IndInv'
    BY <1>4, FailKeepsInv DEF ReloadFails, WaveFails, history
  <1>5. ASSUME EngineRecv PROVE IndInv'
    BY <1>5, EngineRecvKeepsInv
  <1>6. ASSUME NEW F \in SUBSET Names, EngineFire(F) PROVE IndInv'
    BY <1>6, EngineFireKeepsInv
  <1>7. ASSUME CascadeStart PROVE IndInv'
    BY <1>7, CascadeStartKeepsInv
  <1>8. ASSUME CascadeSkip PROVE IndInv'
    BY <1>8, CascadeSkipKeepsInv
  <1>9. ASSUME NEW n \in Scheduled, TickStart(n) PROVE IndInv'
    BY <1>9, BeginKeepsInv DEF TickStart, Builder, engineVars, history
  <1>10. ASSUME NEW n \in Names, CascadeDone(n) \/ TickDone(n) PROVE IndInv'
    BY <1>10, DoneKeepsInv DEF CascadeDone, TickDone
  <1>11. ASSUME NEW n \in Names, CascadeFails(n) PROVE IndInv'
    BY <1>11, FailKeepsInv DEF CascadeFails
  <1>12. ASSUME NEW n \in Names, TickFails(n) PROVE IndInv'
    BY <1>12, FailKeepsInv DEF TickFails, history
  <1>13. shutdown \in BOOLEAN
    BY DEF TypeOK
  <1>14. ASSUME NEW n \in Scheduled, TickSkip(n) PROVE IndInv'
    BY <1>13, <1>14, QuietKeepsInv DEF TickSkip, engineVars, history
  <1>15. ASSUME EngineStop PROVE IndInv'
    BY <1>13, <1>15, QuietKeepsInv DEF EngineStop, history
  <1>16. ASSUME LoopStop PROVE IndInv'
    BY <1>13, <1>16, QuietKeepsInv DEF LoopStop, engineVars, history
  <1>17. ASSUME Shutdown PROVE IndInv'
    BY <1>13, <1>17, QuietKeepsInv DEF Shutdown, engineVars, history
  <1>18. ASSUME UNCHANGED vars PROVE IndInv'
    BY <1>13, <1>18, QuietKeepsInv DEF vars, engineVars, history
  <1> QED
    BY <1>1, <1>2, <1>3, <1>4, <1>5, <1>6, <1>7, <1>8, <1>9, <1>10, <1>11,
       <1>12, <1>14, <1>15, <1>16, <1>17, <1>18
    DEF Next, ClientStep, EngineStep, LoopStep, Finish

\* IndInv holds initially.
LEMMA InvInit == Init => IndInv
  <1> SUFFICES ASSUME Init PROVE IndInv
    OBVIOUS
  <1>1. StampsInPast /\ BuildOrder
    BY DEF Init, StampsInPast, BuildOrder, NoBuild
  <1>2. MessageOrder
    BY DEF Init, MessageOrder
  <1>3. PendingOrder /\ StoppedByShutdown
    BY DEF Init, PendingOrder, StoppedByShutdown
  <1>4. TriggerCovered
    BY DEF Init, TriggerCovered, Stale
  <1> QED
    BY <1>1, <1>2, <1>3, <1>4 DEF IndInv

\* The inductive invariant holds in every reachable state, for every
\* dependency graph and any number of reloads and ticks.
THEOREM InvariantHolds == Spec => []IndInv
  BY InvInit, InvInductive, TypeCorrect, PTL DEF Spec

\* The cascade engine forgets no trigger: a dependent older than its
\* upstream has a rebuild on its way unless a request consumed after that
\* publish failed or was skipped, or the server is shutting down.
THEOREM NoTriggerForgotten == Spec => []TriggerCovered
  <1>1. IndInv => TriggerCovered
    BY DEF IndInv
  <1> QED
    BY <1>1, InvariantHolds, PTL

=============================================================================
