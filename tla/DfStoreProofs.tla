--------------------------- MODULE DfStoreProofs ---------------------------
(***************************************************************************)
(* Proofs about DfStore for every set of datasets, tasks, threads and      *)
(* scenarios: type correctness, and that no reload, first touch or         *)
(* registration brings back an older generation (NewestWins), by way of    *)
(* the inductive invariant IndInv; from it, that the registry implements   *)
(* LiveGenerations.  Then what a registry of one dataset serves.           *)
(***************************************************************************)
EXTENDS DfStore, TLAPS

USE NamesAssumption, MainAssumption, ScenariosAssumption, BoundsAssumption

\* The values a task starts from.
LEMMA IdleType == Idle \in Task
  <1>1. (CHOOSE n \in Names : TRUE) \in Names
    OBVIOUS
  <1>2. NoMap \in [Names -> Nat] /\ NoEntries \in [Names -> Entry \cup {Absent}]
    BY DEF NoMap, NoEntries
  <1> QED
    BY <1>1, <1>2 DEF Idle, Task, Pc, Want, DatasetStatus

\* A task that moves on, or returns, is still a task.
LEMMA GotoType ==
    ASSUME TypeOK, NEW t \in Tasks, NEW pc \in Pc, Goto(t, pc)
    PROVE  task' \in [Tasks -> Task]
  <1>1. task \in [Tasks -> Task]
    BY DEF TypeOK
  <1> QED
    BY <1>1 DEF Goto, Task

LEMMA ReturnType ==
    ASSUME TypeOK, NEW t \in Tasks, Return(t)
    PROVE  task' \in [Tasks -> Task]
  <1>1. task \in [Tasks -> Task]
    BY DEF TypeOK
  <1> QED
    BY <1>1, IdleType DEF Return

LEMMA GiveUpType ==
    ASSUME TypeOK, NEW t \in Tasks, GiveUp(t)
    PROVE  task' \in [Tasks -> Task] /\ aborted' \in SUBSET Names
  <1>1. task \in [Tasks -> Task] /\ aborted \in SUBSET Names
    BY DEF TypeOK
  <1>2. task[t].name \in Names
    BY <1>1 DEF Task
  <1> QED
    BY <1>1, <1>2, ReturnType DEF GiveUp

\* The entry stored for a dataset is an entry.
LEMMA NewEntryType ==
    ASSUME TypeOK, NEW t \in Tasks
    PROVE  NewEntry(t) \in Entry \cup {Absent}
  <1>1. task[t] \in Task
    BY DEF TypeOK
  <1>2. task[t].ssnap[task[t].name] \in Entry \cup {Absent}
    BY <1>1 DEF Task
  <1>3. CASE task[t].op = "unregister"
    BY <1>3 DEF NewEntry
  <1>4. CASE task[t].op = "register"
    BY <1>4 DEF NewEntry, Entry, DatasetStatus, OnStart
  <1>5. CASE task[t].op \notin {"unregister", "register"}
    <2>1. task[t].want \in DatasetStatus
      BY <1>1, <1>5 DEF TypeOK, Task, Want
    <2> QED
      BY <1>2, <1>5, <2>1 DEF NewEntry, Entry
  <1> QED
    BY <1>3, <1>4, <1>5

\* Moving on, returning and giving up leave alone what other tasks do and,
\* when t moves on, what it wants.
LEMMA WantKept ==
    ASSUME TypeOK, NEW t \in Tasks,
           (\E pc \in Pc : Goto(t, pc)) \/ Return(t) \/ GiveUp(t)
    PROVE  \A u \in Tasks : task'[u].want = "remove" => task'[u].op = "unregister"
  <1>1. task \in [Tasks -> Task]
    BY DEF TypeOK
  <1>2. Idle.want # "remove"
    BY DEF Idle
  <1>3. ASSUME NEW pc \in Pc, Goto(t, pc)
        PROVE  \A u \in Tasks : task'[u].want = task[u].want /\ task'[u].op = task[u].op
    BY <1>1, <1>3 DEF Task, Goto
  <1>4. CASE Return(t)
    BY <1>1, <1>2, <1>4 DEF TypeOK, Return
  <1>5. CASE GiveUp(t)
    BY <1>4, <1>5 DEF GiveUp
  <1> QED
    BY <1>3, <1>4, <1>5 DEF TypeOK

\* Init and every action preserve the types.
LEMMA InitType == Init => TypeOK
  <1> SUFFICES ASSUME Init PROVE TypeOK
    OBVIOUS
  <1>1. statuses \in [Names -> Entry \cup {Absent}]
    BY DEF Init, Entry, DatasetStatus, Absent, OnStart
  <1>2. task \in [Tasks -> Task]
    BY IdleType DEF Init
  <1>3. \A t \in Tasks : task[t].want # "remove"
    BY DEF Init, Idle
  <1>4. datasets \in [Names -> Nat] /\ tables \in [Names -> Nat]
    BY DEF Init, NoMap
  <1>5. due \in [Names -> Kind \cup {"none"}]
    BY DEF Init
  <1> QED
    BY <1>1, <1>2, <1>3, <1>4, <1>5 DEF Init, TypeOK

LEMMA CallType ==
    ASSUME TypeOK, NEW t \in Tasks, NEW op \in Operations, NEW n \in Names,
           NEW cfg \in Kind \cup {"none"}, NEW pc \in Pc, NEW want \in Want,
           want = "remove" => op = "unregister",
           due' \in [Names -> Kind \cup {"none"}],
           Call(t, op, n, cfg, pc, want)
    PROVE  TypeOK'
  <1>1. [Idle EXCEPT !.op = op, !.name = n, !.cfg = cfg, !.pc = pc, !.want = want]
            \in Task
    BY IdleType DEF Task
  <1>2. task' \in [Tasks -> Task]
    BY <1>1 DEF Call, TypeOK
  <1>3. \A u \in Tasks : task'[u].want = "remove" => task'[u].op = "unregister"
    BY DEF Call, TypeOK, Idle
  <1> QED
    BY <1>2, <1>3 DEF Call, TypeOK, registry

LEMMA EnterType ==
    ASSUME TypeOK, NEW t \in Tasks, Enter(t)
    PROVE  TypeOK'
  <1> USE DEF Operations, Pc, Want, DatasetStatus
  <1>0. PICK n \in Names :
            \/ StartupCall(t, n)
            \/ \E op \in {"reload", "try_reload"} : ReloadCall(t, op, n)
            \/ TouchCall(t, n)
            \/ RegisterCall(t, n)
            \/ UnregisterCall(t, n)
    BY DEF Enter
  <1>1. CASE StartupCall(t, n)
    <2>1. due' \in [Names -> Kind \cup {"none"}] /\ due[n] \in Kind \cup {"none"}
      BY <1>1 DEF StartupCall, TypeOK
    <2>2. PICK want \in {"building", "failed"} :
              Call(t, "startup", n, due[n], "sload", want)
      BY <1>1 DEF StartupCall
    <2> QED
      BY <2>1, <2>2, CallType
  <1>2. ASSUME NEW op \in {"reload", "try_reload"}, ReloadCall(t, op, n)
        PROVE  TypeOK'
    <2>1. due' \in [Names -> Kind \cup {"none"}] /\ configs[n] \in Kind \cup {"none"}
      BY <1>2 DEF ReloadCall, TypeOK
    <2>2. Call(t, op, n, configs[n], "getlock", "building")
      BY <1>2 DEF ReloadCall
    <2> QED
      BY <2>1, <2>2, CallType
  <1>3. CASE TouchCall(t, n)
    <2>1. due' \in [Names -> Kind \cup {"none"}]
      BY <1>3 DEF TouchCall, TypeOK
    <2>2. Call(t, "touch", n, "none", "getlock", "building")
      BY <1>3 DEF TouchCall
    <2> QED
      BY <2>1, <2>2, CallType
  <1>4. CASE RegisterCall(t, n)
    <2>1. due' \in [Names -> Kind \cup {"none"}]
      BY <1>4 DEF RegisterCall, TypeOK
    <2>2. PICK k \in Kind : Call(t, "register", n, k, "getlock", "published")
      BY <1>4 DEF RegisterCall
    <2> QED
      BY <2>1, <2>2, CallType
  <1>5. CASE UnregisterCall(t, n)
    <2>1. due' \in [Names -> Kind \cup {"none"}]
      BY <1>5 DEF UnregisterCall, TypeOK
    <2>2. Call(t, "unregister", n, "none", "getlock", "remove")
      BY <1>5 DEF UnregisterCall
    <2> QED
      BY <2>1, <2>2, CallType
  <1> QED
    BY <1>0, <1>1, <1>2, <1>3, <1>4, <1>5

LEMMA StepType ==
    ASSUME TypeOK, NEW t \in Tasks, Step(t) \/ Cancel(t)
    PROVE  TypeOK'
  <1> USE DEF Pc
  <1>t. task[t] \in Task /\ task[t].name \in Names
    BY DEF TypeOK, Task
  <1>1. CASE GetLock(t)
    <2>1. [task[t] EXCEPT !.pc = "acquire", !.lock = locks[task[t].name]] \in Task
      BY <1>t DEF Task, TypeOK
    <2> QED
      BY <1>1, <2>1 DEF GetLock, TypeOK, registry, rest
  <1>2. CASE Acquire(t)
    <2>1. Locked(task[t].op) \in Pc
      BY DEF Locked
    <2> QED
      BY <1>2, <2>1, GotoType, WantKept DEF Acquire, TypeOK, registry, rest
  <1>3. CASE Coalesce(t)
    BY <1>3, ReturnType, WantKept DEF Coalesce, TypeOK, registry, rest
  <1>4. CASE TouchRecheck(t) \/ RegisterRecheck(t)
    <2>1. CASE Return(t) /\ UNCHANGED builds
      BY <1>4, <2>1, ReturnType, WantKept DEF TouchRecheck, RegisterRecheck, TypeOK, registry, rest
    <2>2. CASE Goto(t, "sload") /\ UNCHANGED builds
      BY <1>4, <2>2, GotoType, WantKept DEF TouchRecheck, RegisterRecheck, TypeOK, registry, rest
    <2>3. CASE builds' = builds + 1
               /\ task' = [task EXCEPT ![t].pc = "build", ![t].gen = builds + 1]
      <3>0. builds + 1 \in Nat
        BY DEF TypeOK
      <3>1. [task[t] EXCEPT !.pc = "build", !.gen = builds + 1] \in Task
        BY <1>t, <3>0 DEF Task
      <3> QED
        BY <1>4, <2>3, <3>1 DEF TouchRecheck, RegisterRecheck, TypeOK, registry, rest
    <2> QED
      BY <1>4, <2>1, <2>2, <2>3 DEF TouchRecheck, RegisterRecheck
  <1>5. CASE StatusLoad(t)
    <2>1. [task[t] EXCEPT !.pc = "sstore", !.ssnap = statuses] \in Task
      BY <1>t DEF Task, TypeOK
    <2> QED
      BY <1>5, <2>1 DEF StatusLoad, TypeOK, registry, rest
  <1>6. CASE StatusStore(t)
    <2>0. statuses' \in [Names -> Entry \cup {Absent}]
      BY <1>t, <1>6, NewEntryType DEF StatusStore, Task
    <2>1. CASE /\ builds' = builds + 1
               /\ task' = [task EXCEPT ![t].pc = "build", ![t].gen = builds + 1,
                                       ![t].ssnap = NoEntries]
      <3>0. builds + 1 \in Nat /\ NoEntries \in [Names -> Entry \cup {Absent}]
        BY DEF TypeOK, NoEntries
      <3>1. [task[t] EXCEPT !.pc = "build", !.gen = builds + 1, !.ssnap = NoEntries]
                \in Task
        BY <1>t, <3>0 DEF Task
      <3> QED
        BY <1>6, <2>0, <2>1, <3>1 DEF StatusStore, TypeOK, rest
    <2>2. CASE Goto(t, "unlock") /\ UNCHANGED builds
      BY <1>6, <2>0, <2>2, GotoType, WantKept DEF StatusStore, TypeOK, rest
    <2>3. CASE Return(t) /\ UNCHANGED builds
      BY <1>6, <2>0, <2>3, ReturnType, WantKept DEF StatusStore, TypeOK, rest
    <2> QED
      BY <1>6, <2>1, <2>2, <2>3 DEF StatusStore
  <1>7. CASE BuildOk(t)
    BY <1>7, GotoType, WantKept DEF BuildOk, TypeOK, registry, rest
  <1>8. CASE BuildErr(t)
    <2>1. ASSUME NEW w \in {"published", "failed"},
                 task' = [task EXCEPT ![t].pc = "sload", ![t].want = w]
          PROVE  TypeOK'
      <3>1. [task[t] EXCEPT !.pc = "sload", !.want = w] \in Task
        BY <1>t DEF Task, Want, DatasetStatus
      <3> QED
        BY <1>8, <2>1, <3>1 DEF BuildErr, TypeOK, registry, rest
    <2>2. CASE Return(t)
      BY <1>8, <2>2, ReturnType, WantKept DEF BuildErr, TypeOK, registry, rest
    <2> QED
      BY <1>8, <2>1, <2>2 DEF BuildErr
  <1>9. CASE Deregister(t)
    BY <1>t, <1>9, GotoType, WantKept DEF Deregister, TypeOK, rest
  <1>10. CASE RegisterTable(t)
    <2>1. tables' \in [Names -> Nat]
      BY <1>t, <1>10 DEF RegisterTable, TypeOK, Task
    <2>2. CASE Goto(t, IF task[t].op = "startup" THEN "conf" ELSE "dload")
               /\ UNCHANGED aborted
      BY <1>10, <2>1, <2>2, GotoType, WantKept DEF RegisterTable, TypeOK
    <2>3. CASE task' = [task EXCEPT ![t].pc = "sload", ![t].want = "failed"]
               /\ UNCHANGED aborted
      <3>1. [task[t] EXCEPT !.pc = "sload", !.want = "failed"] \in Task
        BY <1>t DEF Task, Want, DatasetStatus
      <3> QED
        BY <1>10, <2>1, <2>3, <3>1 DEF RegisterTable, TypeOK
    <2>4. CASE GiveUp(t)
      BY <1>10, <2>1, <2>4, GiveUpType, WantKept DEF RegisterTable, TypeOK
    <2> QED
      BY <1>10, <2>2, <2>3, <2>4 DEF RegisterTable
  <1>11. CASE DatasetsLoad(t)
    <2>1. [task[t] EXCEPT !.pc = "dstore", !.dsnap = datasets] \in Task
      BY <1>t DEF Task, TypeOK
    <2> QED
      BY <1>11, <2>1 DEF DatasetsLoad, TypeOK, registry, rest
  <1>12. CASE DatasetsStore(t)
    <2>1. datasets' \in [Names -> Nat]
      BY <1>t, <1>12 DEF DatasetsStore, Task
    <2>2. task' \in [Tasks -> Task]
      <3>1. ASSUME NEW pc \in Pc, NEW w \in Want
            PROVE  [task[t] EXCEPT !.pc = pc, !.dsnap = NoMap, !.want = w] \in Task
        BY <1>t DEF Task, NoMap
      <3>2. task[t].want \in Want /\ "published" \in Want
        BY <1>t DEF Task, Want, DatasetStatus
      <3> QED
        BY <1>12, <3>1, <3>2 DEF DatasetsStore, TypeOK
    <2>3. \A u \in Tasks : task'[u].want = "remove" => task'[u].op = "unregister"
      BY <1>t, <1>12 DEF DatasetsStore, TypeOK
    <2> QED
      BY <1>12, <2>1, <2>2, <2>3 DEF DatasetsStore, TypeOK, rest
  <1>13. CASE ConfigsWrite(t)
    <2>1. configs' \in [Names -> Kind \cup {"none"}]
      BY <1>t, <1>13 DEF ConfigsWrite, TypeOK, Task
    <2> QED
      BY <1>13, <2>1, GotoType, WantKept DEF ConfigsWrite, TypeOK, rest
  <1>14. CASE RemoveLock(t)
    BY <1>t, <1>14, ReturnType, WantKept DEF RemoveLock, TypeOK, rest
  <1>15. CASE Cancel(t)
    BY <1>15, ReturnType, GiveUpType, WantKept DEF Cancel, TypeOK, registry
  <1> QED
    BY <1>1, <1>2, <1>3, <1>4, <1>5, <1>6, <1>7, <1>8, <1>9, <1>10, <1>11,
       <1>12, <1>13, <1>14, <1>15 DEF Step

\* Type correctness: the registry's maps and every task stay well formed,
\* and only unregister ever removes a status entry.
THEOREM TypeCorrect == Spec => []TypeOK
  <1>1. TypeOK /\ [Next]_vars => TypeOK'
    <2> SUFFICES ASSUME TypeOK, [Next]_vars PROVE TypeOK'
      OBVIOUS
    <2>1. CASE Next
      BY <2>1, EnterType, StepType DEF Next
    <2>2. CASE UNCHANGED vars
      BY <2>2 DEF vars, registry, rest, TypeOK
    <2> QED
      BY <2>1, <2>2
  <1> QED
    BY <1>1, InitType, PTL DEF Spec

-----------------------------------------------------------------------------
(***************************************************************************)
(* IndInv.  Most steps only move a task along, or end it; the interesting  *)
(* ones fetch or take the mutex, start a build, or copy or store datasets. *)
(***************************************************************************)

\* The parts of the registry that IndInv speaks of.
IndVars == <<ops, datasets, locks, builds>>

\* A step that moves t along without a new generation, a new copy of datasets
\* or a new mutex.
QuietMove(t) ==
    /\ UNCHANGED IndVars
    /\ \A u \in Tasks \ {t} : task'[u] = task[u]
    /\ task'[t].op = task[t].op /\ task'[t].name = task[t].name
    /\ task'[t].lock = task[t].lock /\ task'[t].gen = task[t].gen
    /\ task'[t].dsnap = task[t].dsnap
    /\ task[t].pc \notin {"idle", "getlock", "acquire"}
    /\ task'[t].pc \notin {"idle", "getlock", "acquire"}
    /\ Publishing(t)' => Publishing(t)

LEMMA QuietMoveInv ==
    ASSUME TypeOK, IndInv, NEW t \in Tasks, QuietMove(t)
    PROVE  IndInv'
  <1> USE DEF QuietMove, IndVars
  <1>1. \A u \in Tasks :
            /\ task'[u].op = task[u].op /\ task'[u].name = task[u].name
            /\ task'[u].lock = task[u].lock /\ task'[u].gen = task[u].gen
            /\ task'[u].dsnap = task[u].dsnap
    OBVIOUS
  <1>2. \A u \in Tasks : Holds(u)' => Holds(u)
    BY DEF Holds
  <1>3. \A u \in Tasks : Publishing(u)' => Publishing(u)
    BY DEF Publishing
  <1>4. \A n \in Names : OneMutex(n)' => OneMutex(n)
    BY DEF OneMutex
  <1>n. \A u \in Tasks : task[u].name \in Names
    BY DEF TypeOK, Task
  <1>5. IdleHasNoOp'
    BY DEF IndInv, IdleHasNoOp
  <1>6. NoStartup'
    BY <1>1 DEF IndInv, NoStartup
  <1>7. MutexFetched'
    BY <1>1 DEF IndInv, MutexFetched
  <1>8. MutexExclusive'
    BY <1>1, <1>2 DEF IndInv, MutexExclusive
  <1>9. GenerationsStarted'
    BY <1>1 DEF IndInv, GenerationsStarted
  <1>10. CopiesOlder'
    BY <1>1, <1>3, <1>4, <1>n DEF IndInv, CopiesOlder
  <1>11. NewestWins'
    BY <1>1, <1>3, <1>4, <1>n DEF IndInv, NewestWins
  <1> QED
    BY <1>5, <1>6, <1>7, <1>8, <1>9, <1>10, <1>11 DEF IndInv

\* A task that begins or ends: it holds no mutex, builds nothing and has no
\* copy of datasets.  A removed mutex only ever makes room for a newer one.
FreshMove(t) ==
    /\ UNCHANGED <<ops, datasets, builds>>
    /\ \A n \in Names : locks'[n] >= locks[n] /\ (locks'[n] = 1 => locks[n] = 1)
    /\ \A u \in Tasks \ {t} : task'[u] = task[u]
    /\ task'[t].gen = 0 /\ task'[t].dsnap = NoMap
    /\ task'[t].op = "none" => task'[t].pc = "idle"
    /\ task'[t].op = "startup" => "startup" \in ops
    /\ \/ task'[t].pc \in {"idle", "getlock"}
       \/ task'[t].pc = "sload" /\ task'[t].op = "startup"

LEMMA FreshMoveInv ==
    ASSUME TypeOK, TypeOK', IndInv, NEW t \in Tasks, FreshMove(t)
    PROVE  IndInv'
  <1> USE DEF FreshMove
  <1>1. ~Holds(t)' /\ ~Publishing(t)'
    BY DEF Holds, Publishing
  <1>2. \A u \in Tasks \ {t} : (Holds(u)' <=> Holds(u)) /\ (Publishing(u)' <=> Publishing(u))
    BY DEF Holds, Publishing
  <1>4. \A n \in Names : OneMutex(n)' => OneMutex(n)
    BY DEF OneMutex
  <1>n. \A u \in Tasks : task[u].name \in Names /\ task[u].gen \in Nat /\ task[u].lock \in Nat
    BY DEF TypeOK, Task
  <1>l. locks \in [Names -> Nat] /\ locks' \in [Names -> Nat] /\ builds \in Nat
    BY DEF TypeOK
  <1>5. IdleHasNoOp'
    BY DEF IndInv, IdleHasNoOp
  <1>6. NoStartup'
    BY DEF IndInv, NoStartup
  <1>7. MutexFetched'
    <2> SUFFICES ASSUME NEW u \in Tasks,
                        task'[u].pc \notin {"idle", "getlock"} /\ task'[u].op # "startup"
                 PROVE  1 <= task'[u].lock /\ task'[u].lock <= locks'[task'[u].name]
      BY DEF MutexFetched
    <2>1. u # t /\ task'[u] = task[u]
      OBVIOUS
    <2>2. 1 <= task[u].lock /\ task[u].lock <= locks[task[u].name]
      BY <2>1 DEF IndInv, MutexFetched
    <2>3. locks'[task[u].name] >= locks[task[u].name]
      BY <1>n
    <2> QED
      BY <1>n, <1>l, <2>1, <2>2, <2>3
  <1>8. MutexExclusive'
    BY <1>1, <1>2 DEF IndInv, MutexExclusive
  <1>9. GenerationsStarted'
    <2>1. \A n \in Names : NoMap[n] <= builds
      BY <1>l DEF NoMap
    <2> QED
      BY <1>l, <2>1 DEF IndInv, GenerationsStarted
  <1>10. CopiesOlder'
    <2> SUFFICES ASSUME NEW v \in Tasks, NEW u \in Tasks, Publishing(v)',
                        OneMutex(task[v].name)', "startup" \notin ops, v # t,
                        task'[v] = task[v]
                 PROVE  task[v].gen > task'[u].dsnap[task[v].name]
      BY <1>1 DEF CopiesOlder
    <2>1. Publishing(v) /\ OneMutex(task[v].name)
      BY <1>2, <1>4, <1>n
    <2>2. \A w \in Tasks : task[v].gen > task[w].dsnap[task[v].name]
      BY <2>1 DEF IndInv, CopiesOlder
    <2>3. task[v].gen > 0
      BY <1>n, <2>1 DEF IndInv, NewestWins, TypeOK
    <2> QED
      BY <1>n, <2>2, <2>3 DEF NoMap
  <1>11. NewestWins'
    BY <1>1, <1>2, <1>4, <1>n DEF IndInv, NewestWins
  <1> QED
    BY <1>5, <1>6, <1>7, <1>8, <1>9, <1>10, <1>11 DEF IndInv

\* A new build is newer than everything live and every copy of datasets.
BuildMove(t) ==
    /\ UNCHANGED <<ops, datasets, locks>>
    /\ builds' = builds + 1
    /\ \A u \in Tasks \ {t} : task'[u] = task[u]
    /\ task'[t].op = task[t].op /\ task'[t].name = task[t].name
    /\ task'[t].lock = task[t].lock /\ task'[t].dsnap = task[t].dsnap
    /\ task'[t].gen = builds + 1
    /\ task[t].pc \notin {"idle", "getlock", "acquire"}
    /\ task'[t].pc = "build"

LEMMA BuildMoveInv ==
    ASSUME TypeOK, IndInv, NEW t \in Tasks, BuildMove(t)
    PROVE  IndInv'
  <1> USE DEF BuildMove
  <1>1. \A u \in Tasks :
            /\ task'[u].op = task[u].op /\ task'[u].name = task[u].name
            /\ task'[u].lock = task[u].lock /\ task'[u].dsnap = task[u].dsnap
    OBVIOUS
  <1>2. \A u \in Tasks : Holds(u)' => Holds(u)
    BY DEF Holds
  <1>3. \A u \in Tasks \ {t} : Publishing(u)' => Publishing(u)
    BY DEF Publishing
  <1>4. \A n \in Names : OneMutex(n)' => OneMutex(n)
    BY DEF OneMutex
  <1>n. /\ builds \in Nat /\ datasets \in [Names -> Nat]
        /\ \A u \in Tasks : /\ task[u].name \in Names /\ task[u].gen \in Nat
                            /\ task[u].dsnap \in [Names -> Nat]
    BY DEF TypeOK, Task
  <1>5. IdleHasNoOp'
    BY DEF IndInv, IdleHasNoOp
  <1>6. NoStartup'
    BY <1>1 DEF IndInv, NoStartup
  <1>7. MutexFetched'
    BY <1>1 DEF IndInv, MutexFetched
  <1>8. MutexExclusive'
    BY <1>1, <1>2 DEF IndInv, MutexExclusive
  <1>9. GenerationsStarted'
    BY <1>1, <1>n DEF IndInv, GenerationsStarted
  <1>10. CopiesOlder'
    BY <1>1, <1>3, <1>4, <1>n DEF IndInv, CopiesOlder, GenerationsStarted
  <1>11. NewestWins'
    BY <1>1, <1>3, <1>4, <1>n DEF IndInv, NewestWins, GenerationsStarted
  <1> QED
    BY <1>5, <1>6, <1>7, <1>8, <1>9, <1>10, <1>11 DEF IndInv

\* Fetching the mutex: its identity is the current one.
LEMMA GetLockInv ==
    ASSUME TypeOK, IndInv, NEW t \in Tasks, GetLock(t)
    PROVE  IndInv'
  <1>1. /\ UNCHANGED IndVars
        /\ \A u \in Tasks \ {t} : task'[u] = task[u]
        /\ task'[t].op = task[t].op /\ task'[t].name = task[t].name
        /\ task'[t].gen = task[t].gen /\ task'[t].dsnap = task[t].dsnap
        /\ task'[t].lock = locks[task[t].name] /\ task'[t].pc = "acquire"
        /\ task[t].pc = "getlock"
    BY DEF GetLock, At, IndVars, registry, rest, TypeOK, Task
  <1> USE DEF IndVars
  <1>2. \A u \in Tasks : Holds(u)' => Holds(u) /\ u # t
    BY <1>1 DEF Holds
  <1>3. \A u \in Tasks : Publishing(u)' => Publishing(u) /\ u # t
    BY <1>1 DEF Publishing
  <1>4. \A n \in Names : OneMutex(n)' => OneMutex(n)
    BY <1>1 DEF OneMutex
  <1>n. /\ \A u \in Tasks : task[u].name \in Names
        /\ locks \in [Names -> Nat \ {0}]
    BY DEF TypeOK, Task
  <1>5. IdleHasNoOp'
    BY <1>1 DEF IndInv, IdleHasNoOp
  <1>6. NoStartup'
    BY <1>1 DEF IndInv, NoStartup
  <1>7. MutexFetched'
    BY <1>1, <1>n DEF IndInv, MutexFetched
  <1>8. MutexExclusive'
    BY <1>1, <1>2 DEF IndInv, MutexExclusive
  <1>9. GenerationsStarted'
    BY <1>1 DEF IndInv, GenerationsStarted
  <1>10. CopiesOlder'
    BY <1>1, <1>3, <1>4, <1>n DEF IndInv, CopiesOlder
  <1>11. NewestWins'
    BY <1>1, <1>3, <1>4, <1>n DEF IndInv, NewestWins
  <1> QED
    BY <1>5, <1>6, <1>7, <1>8, <1>9, <1>10, <1>11 DEF IndInv

\* Taking the mutex: nobody else holds it, so it keeps one holder.
LEMMA AcquireInv ==
    ASSUME TypeOK, IndInv, NEW t \in Tasks, Acquire(t)
    PROVE  IndInv'
  <1>1. /\ UNCHANGED IndVars
        /\ \A u \in Tasks \ {t} : task'[u] = task[u]
        /\ task'[t].op = task[t].op /\ task'[t].name = task[t].name
        /\ task'[t].gen = task[t].gen /\ task'[t].dsnap = task[t].dsnap
        /\ task'[t].lock = task[t].lock
        /\ task'[t].pc = Locked(task[t].op)
        /\ task[t].pc = "acquire"
        /\ LockFree(task[t].name, task[t].lock)
    BY DEF Acquire, Goto, At, IndVars, registry, rest, TypeOK, Task
  <1> USE DEF IndVars
  <1>2. \A u \in Tasks : Holds(u)' => Holds(u) \/ u = t
    BY <1>1 DEF Holds
  <1>3. \A u \in Tasks : Publishing(u)' => Publishing(u) /\ u # t
    BY <1>1 DEF Publishing, Locked
  <1>4. \A n \in Names : OneMutex(n)' => OneMutex(n)
    BY <1>1 DEF OneMutex
  <1>n. \A u \in Tasks : task[u].name \in Names
    BY DEF TypeOK, Task
  <1>o. \A u \in Tasks : /\ task'[u].op = task[u].op /\ task'[u].name = task[u].name
                         /\ task'[u].lock = task[u].lock
    BY <1>1
  <1>5. IdleHasNoOp'
    BY <1>1 DEF IndInv, IdleHasNoOp
  <1>6. NoStartup'
    BY <1>1 DEF IndInv, NoStartup
  <1>7. MutexFetched'
    BY <1>1 DEF IndInv, MutexFetched
  <1>8. MutexExclusive'
    BY <1>1, <1>2, <1>o DEF IndInv, MutexExclusive, LockFree
  <1>9. GenerationsStarted'
    BY <1>1 DEF IndInv, GenerationsStarted
  <1>10. CopiesOlder'
    BY <1>1, <1>3, <1>4, <1>n DEF IndInv, CopiesOlder
  <1>11. NewestWins'
    BY <1>1, <1>3, <1>4, <1>n DEF IndInv, NewestWins
  <1> QED
    BY <1>5, <1>6, <1>7, <1>8, <1>9, <1>10, <1>11 DEF IndInv

\* datasets.load(): the copy is as old as what it copies.
LEMMA DatasetsLoadInv ==
    ASSUME TypeOK, IndInv, NEW t \in Tasks, DatasetsLoad(t)
    PROVE  IndInv'
  <1>1. /\ UNCHANGED IndVars
        /\ \A u \in Tasks \ {t} : task'[u] = task[u]
        /\ task'[t].op = task[t].op /\ task'[t].name = task[t].name
        /\ task'[t].gen = task[t].gen /\ task'[t].lock = task[t].lock
        /\ task'[t].dsnap = datasets
        /\ task'[t].pc = "dstore" /\ task[t].pc = "dload"
    BY DEF DatasetsLoad, At, IndVars, registry, rest, TypeOK, Task
  <1> USE DEF IndVars
  <1>2. \A u \in Tasks : Holds(u)' => Holds(u)
    BY <1>1 DEF Holds
  <1>3. \A u \in Tasks : Publishing(u)' => Publishing(u)
    BY <1>1 DEF Publishing
  <1>4. \A n \in Names : OneMutex(n)' => OneMutex(n)
    BY <1>1 DEF OneMutex
  <1>n. \A u \in Tasks : task[u].name \in Names
    BY DEF TypeOK, Task
  <1>o. \A u \in Tasks : /\ task'[u].op = task[u].op /\ task'[u].name = task[u].name
                         /\ task'[u].lock = task[u].lock /\ task'[u].gen = task[u].gen
    BY <1>1
  <1>5. IdleHasNoOp'
    BY <1>1 DEF IndInv, IdleHasNoOp
  <1>6. NoStartup'
    BY <1>1 DEF IndInv, NoStartup
  <1>7. MutexFetched'
    BY <1>1 DEF IndInv, MutexFetched
  <1>8. MutexExclusive'
    BY <1>2, <1>o DEF IndInv, MutexExclusive
  <1>9. GenerationsStarted'
    BY <1>1 DEF IndInv, GenerationsStarted
  <1>10. CopiesOlder'
    BY <1>1, <1>3, <1>4, <1>n, <1>o DEF IndInv, CopiesOlder, NewestWins
  <1>11. NewestWins'
    BY <1>1, <1>3, <1>4, <1>n, <1>o DEF IndInv, NewestWins
  <1> QED
    BY <1>5, <1>6, <1>7, <1>8, <1>9, <1>10, <1>11 DEF IndInv

\* The mutex of a name that was never unregistered has one holder.
LEMMA OneHolder ==
    ASSUME TypeOK, IndInv, NEW t \in Tasks, NEW u \in Tasks, Holds(t), Holds(u),
           task[t].name = task[u].name, OneMutex(task[t].name)
    PROVE  t = u
  <1>1. task[t].lock \in Nat /\ task[u].lock \in Nat
    BY DEF TypeOK, Task
  <1>2. task[t].lock = 1 /\ task[u].lock = 1
    BY <1>1 DEF IndInv, MutexFetched, Holds, OneMutex
  <1> QED
    BY <1>2 DEF IndInv, MutexExclusive

\* datasets.store(): no other task is about to publish the same dataset, and
\* what is about to be published elsewhere is newer than this task's copy.
LEMMA DatasetsStoreInv ==
    ASSUME TypeOK, TypeOK', IndInv, NEW t \in Tasks, DatasetsStore(t)
    PROVE  IndInv'
  <1>1. /\ UNCHANGED <<ops, locks, builds>>
        /\ datasets' = [task[t].dsnap EXCEPT ![task[t].name] = task[t].gen]
        /\ \A u \in Tasks \ {t} : task'[u] = task[u]
        /\ task'[t].op = task[t].op /\ task'[t].name = task[t].name
        /\ task'[t].gen = task[t].gen /\ task'[t].lock = task[t].lock
        /\ task'[t].dsnap = NoMap
        /\ task'[t].pc \in {"conf", "sload"} /\ task[t].pc = "dstore"
    BY DEF DatasetsStore, At, rest, TypeOK, Task
  <1>2. \A u \in Tasks : Holds(u)' => Holds(u)
    BY <1>1 DEF Holds
  <1>3. \A u \in Tasks : Publishing(u)' => Publishing(u) /\ u # t
    BY <1>1 DEF Publishing
  <1>4. \A n \in Names : OneMutex(n)' => OneMutex(n)
    BY <1>1 DEF OneMutex
  <1>n. /\ \A u \in Tasks : /\ task[u].name \in Names /\ task[u].gen \in Nat
                            /\ task[u].dsnap \in [Names -> Nat]
        /\ builds \in Nat /\ datasets \in [Names -> Nat]
    BY DEF TypeOK, Task
  <1>o. \A u \in Tasks : /\ task'[u].op = task[u].op /\ task'[u].name = task[u].name
                         /\ task'[u].lock = task[u].lock /\ task'[u].gen = task[u].gen
    BY <1>1
  <1>5. IdleHasNoOp'
    BY <1>1 DEF IndInv, IdleHasNoOp
  <1>6. NoStartup'
    BY <1>1 DEF IndInv, NoStartup
  <1>7. MutexFetched'
    BY <1>1 DEF IndInv, MutexFetched
  <1>8. MutexExclusive'
    BY <1>2, <1>o DEF IndInv, MutexExclusive
  <1>9. GenerationsStarted'
    <2>1. \A n \in Names : NoMap[n] <= builds
      BY <1>n DEF NoMap
    <2> QED
      BY <1>1, <1>n, <1>o, <2>1 DEF IndInv, GenerationsStarted
  <1>10. CopiesOlder'
    <2> SUFFICES ASSUME NEW v \in Tasks, NEW u \in Tasks, Publishing(v), v # t,
                        OneMutex(task[v].name), "startup" \notin ops
                 PROVE  task[v].gen > task'[u].dsnap[task[v].name]
      BY <1>1, <1>3, <1>4, <1>n, <1>o DEF CopiesOlder
    <2>1. \A w \in Tasks : task[v].gen > task[w].dsnap[task[v].name]
      BY DEF IndInv, CopiesOlder
    <2>2. task[v].gen > 0
      BY <1>n DEF IndInv, NewestWins
    <2>3. NoMap[task[v].name] = 0
      BY <1>n DEF NoMap
    <2> QED
      BY <1>1, <2>1, <2>2, <2>3
  <1>11. NewestWins'
    <2> SUFFICES ASSUME NEW v \in Tasks, Publishing(v), v # t,
                        OneMutex(task[v].name), "startup" \notin ops
                 PROVE  task[v].gen > datasets'[task[v].name]
      BY <1>1, <1>3, <1>4, <1>n, <1>o DEF NewestWins
    <2>1. task[v].name # task[t].name
      <3>1. Holds(v) /\ Holds(t)
        BY <1>1 DEF IndInv, NoStartup, IdleHasNoOp, Publishing, Holds
      <3> QED
        BY <3>1, OneHolder
    <2>2. task[v].gen > task[t].dsnap[task[v].name]
      BY DEF IndInv, CopiesOlder
    <2> QED
      BY <1>1, <1>n, <2>1, <2>2
  <1> QED
    BY <1>5, <1>6, <1>7, <1>8, <1>9, <1>10, <1>11 DEF IndInv

\* Returning and giving up end a task.
LEMMA ReturnInv ==
    ASSUME TypeOK, TypeOK', IndInv, NEW t \in Tasks, Return(t),
           UNCHANGED <<ops, datasets, builds>>,
           \A n \in Names : locks'[n] \in {locks[n], locks[n] + 1}
    PROVE  IndInv'
  <1>1. task'[t] = Idle /\ \A u \in Tasks \ {t} : task'[u] = task[u]
    BY DEF Return, TypeOK
  <1>2. \A n \in Names : locks[n] \in Nat \ {0}
    BY DEF TypeOK
  <1>3. FreshMove(t)
    BY <1>1, <1>2 DEF FreshMove, Idle
  <1> QED
    BY <1>3, FreshMoveInv

\* Every entry point begins a task.
LEMMA EnterInv ==
    ASSUME TypeOK, TypeOK', IndInv, NEW t \in Tasks, Enter(t)
    PROVE  IndInv'
  <1>1. ASSUME NEW op \in Operations, NEW n \in Names, NEW cfg, NEW want,
               NEW pc \in {"getlock", "sload"}, pc = "sload" => op = "startup",
               Call(t, op, n, cfg, pc, want)
        PROVE  FreshMove(t)
    <2>1. /\ UNCHANGED <<ops, datasets, locks, builds>> /\ op \in ops
          /\ task'[t] = [Idle EXCEPT !.op = op, !.name = n, !.cfg = cfg,
                                     !.pc = pc, !.want = want]
          /\ \A u \in Tasks \ {t} : task'[u] = task[u]
      BY <1>1 DEF Call, registry, TypeOK
    <2>2. /\ task'[t].op = op /\ task'[t].pc = pc
          /\ task'[t].gen = 0 /\ task'[t].dsnap = NoMap
      BY <2>1 DEF Idle
    <2>3. \A n1 \in Names : locks[n1] \in Nat
      BY DEF TypeOK
    <2>4. op # "none"
      BY DEF Operations
    <2> QED
      BY <1>1, <2>1, <2>2, <2>3, <2>4 DEF FreshMove
  <1>2. FreshMove(t)
    BY <1>1 DEF Enter, StartupCall, ReloadCall, TouchCall, RegisterCall,
                UnregisterCall, Operations
  <1> QED
    BY <1>2, FreshMoveInv

\* t moves to pc and changes at most its copy of statuses and what it wants.
LEMMA MoveQuietly ==
    ASSUME TypeOK, NEW t \in Tasks, NEW pc \in Pc, NEW want, NEW ssnap,
           UNCHANGED IndVars,
           \/ task' = [task EXCEPT ![t].pc = pc]
           \/ task' = [task EXCEPT ![t].pc = pc, ![t].want = want]
           \/ task' = [task EXCEPT ![t].pc = pc, ![t].ssnap = ssnap],
           task[t].pc \notin {"idle", "getlock", "acquire"},
           pc \notin {"idle", "getlock", "acquire"},
           pc \in {"build", "dereg", "reg", "dload", "dstore"} =>
               \/ task[t].pc \in {"build", "dereg", "reg", "dload", "dstore"}
               \/ task[t].op = "startup"
    PROVE  QuietMove(t)
  <1>1. task \in [Tasks -> Task]
    BY DEF TypeOK
  <1>2. \A u \in Tasks \ {t} : task'[u] = task[u]
    BY <1>1
  <1>3. /\ task'[t].op = task[t].op /\ task'[t].name = task[t].name
        /\ task'[t].lock = task[t].lock /\ task'[t].gen = task[t].gen
        /\ task'[t].dsnap = task[t].dsnap /\ task'[t].pc = pc
    BY <1>1 DEF Task
  <1> QED
    BY <1>2, <1>3 DEF QuietMove, Publishing

LEMMA StepInv ==
    ASSUME TypeOK, TypeOK', IndInv, NEW t \in Tasks, Step(t) \/ Cancel(t)
    PROVE  IndInv'
  <1> USE DEF Pc
  <1>t. task \in [Tasks -> Task] /\ task[t].name \in Names
    BY DEF TypeOK, Task
  <1>1. CASE GetLock(t)
    BY <1>1, GetLockInv
  <1>2. CASE Acquire(t)
    BY <1>2, AcquireInv
  <1>3. CASE Coalesce(t)
    BY <1>3, ReturnInv DEF Coalesce, registry, rest
  <1>4. CASE TouchRecheck(t) \/ RegisterRecheck(t)
    <2>1. CASE Return(t) /\ UNCHANGED builds
      BY <1>4, <2>1, ReturnInv DEF TouchRecheck, RegisterRecheck, registry, rest
    <2>2. CASE Goto(t, "sload") /\ UNCHANGED builds
      <3>1. QuietMove(t)
        BY <1>4, <2>2, MoveQuietly DEF TouchRecheck, RegisterRecheck, At, Goto, IndVars, registry, rest
      <3> QED
        BY <3>1, QuietMoveInv
    <2>3. CASE builds' = builds + 1
               /\ task' = [task EXCEPT ![t].pc = "build", ![t].gen = builds + 1]
      <3>1. BuildMove(t)
        BY <1>t, <1>4, <2>3 DEF TouchRecheck, RegisterRecheck, At, BuildMove, registry, rest, Task
      <3> QED
        BY <3>1, BuildMoveInv
    <2> QED
      BY <1>4, <2>1, <2>2, <2>3 DEF TouchRecheck, RegisterRecheck
  <1>5. CASE StatusLoad(t)
    <2>1. QuietMove(t)
      BY <1>5, MoveQuietly DEF StatusLoad, At, IndVars, registry, rest
    <2> QED
      BY <2>1, QuietMoveInv
  <1>6. CASE StatusStore(t)
    <2>1. CASE /\ builds' = builds + 1
               /\ task' = [task EXCEPT ![t].pc = "build", ![t].gen = builds + 1,
                                       ![t].ssnap = NoEntries]
      <3>1. BuildMove(t)
        BY <1>t, <1>6, <2>1 DEF StatusStore, At, BuildMove, rest, Task
      <3> QED
        BY <3>1, BuildMoveInv
    <2>2. CASE Goto(t, "unlock") /\ UNCHANGED builds
      <3>1. QuietMove(t)
        BY <1>6, <2>2, MoveQuietly DEF StatusStore, At, Goto, IndVars, rest
      <3> QED
        BY <3>1, QuietMoveInv
    <2>3. CASE Return(t) /\ UNCHANGED builds
      BY <1>6, <2>3, ReturnInv DEF StatusStore, rest
    <2> QED
      BY <1>6, <2>1, <2>2, <2>3 DEF StatusStore
  <1>7. CASE BuildOk(t)
    <2>1. QuietMove(t)
      BY <1>7, MoveQuietly DEF BuildOk, At, Goto, IndVars, registry, rest
    <2> QED
      BY <2>1, QuietMoveInv
  <1>8. CASE BuildErr(t)
    <2>1. CASE Return(t)
      BY <1>8, <2>1, ReturnInv DEF BuildErr, registry, rest
    <2>2. CASE \E w : task' = [task EXCEPT ![t].pc = "sload", ![t].want = w]
      <3>1. QuietMove(t)
        BY <1>8, <2>2, MoveQuietly DEF BuildErr, At, IndVars, registry, rest
      <3> QED
        BY <3>1, QuietMoveInv
    <2> QED
      BY <1>8, <2>1, <2>2 DEF BuildErr
  <1>9. CASE Deregister(t)
    <2>1. QuietMove(t)
      BY <1>9, MoveQuietly DEF Deregister, At, Goto, IndVars, rest
    <2> QED
      BY <2>1, QuietMoveInv
  <1>10. CASE RegisterTable(t)
    <2>1. CASE GiveUp(t)
      BY <1>10, <2>1, ReturnInv DEF RegisterTable, GiveUp
    <2>2. CASE \/ Goto(t, IF task[t].op = "startup" THEN "conf" ELSE "dload")
               \/ task' = [task EXCEPT ![t].pc = "sload", ![t].want = "failed"]
      <3>1. QuietMove(t)
        BY <1>10, <2>2, MoveQuietly DEF RegisterTable, At, Goto, IndVars
      <3> QED
        BY <3>1, QuietMoveInv
    <2> QED
      BY <1>10, <2>1, <2>2 DEF RegisterTable
  <1>11. CASE DatasetsLoad(t)
    BY <1>11, DatasetsLoadInv
  <1>12. CASE DatasetsStore(t)
    BY <1>12, DatasetsStoreInv
  <1>13. CASE ConfigsWrite(t)
    <2>1. QuietMove(t)
      BY <1>13, MoveQuietly DEF ConfigsWrite, At, Goto, IndVars, rest
    <2> QED
      BY <2>1, QuietMoveInv
  <1>14. CASE RemoveLock(t)
    <2>1. \A n \in Names : locks'[n] \in {locks[n], locks[n] + 1}
      BY <1>t, <1>14 DEF RemoveLock, TypeOK
    <2> QED
      BY <1>14, <2>1, ReturnInv DEF RemoveLock, rest
  <1>15. CASE Cancel(t)
    BY <1>15, ReturnInv DEF Cancel, GiveUp, registry
  <1> QED
    BY <1>1, <1>2, <1>3, <1>4, <1>5, <1>6, <1>7, <1>8, <1>9, <1>10, <1>11,
       <1>12, <1>13, <1>14, <1>15 DEF Step

\* The inductive invariant holds of every reachable state.
THEOREM InvariantHolds == Spec => []IndInv
  <1>1. Init => IndInv
    <2> SUFFICES ASSUME Init PROVE IndInv
      OBVIOUS
    <2>1. \A t \in Tasks : /\ task[t].op = "none" /\ task[t].pc = "idle"
                           /\ task[t].gen = 0 /\ task[t].dsnap = NoMap
      BY DEF Init, Idle
    <2>2. \A n \in Names : NoMap[n] = 0
      BY DEF NoMap
    <2>3. builds = 0 /\ datasets = NoMap
      BY DEF Init
    <2> QED
      BY <2>1, <2>2, <2>3 DEF IndInv, IdleHasNoOp, NoStartup, MutexFetched,
         MutexExclusive, GenerationsStarted, CopiesOlder, NewestWins, Holds,
         Publishing
  <1>2. TypeOK /\ TypeOK' /\ IndInv /\ [Next]_vars => IndInv'
    <2> SUFFICES ASSUME TypeOK, TypeOK', IndInv, [Next]_vars PROVE IndInv'
      OBVIOUS
    <2>1. CASE Next
      BY <2>1, EnterInv, StepInv DEF Next
    <2>2. CASE UNCHANGED vars
      BY <2>2 DEF vars, registry, rest, IndInv, IdleHasNoOp, NoStartup,
         MutexFetched, MutexExclusive, GenerationsStarted, CopiesOlder,
         NewestWins, Holds, Publishing, OneMutex
    <2> QED
      BY <2>1, <2>2
  <1> QED
    BY <1>1, <1>2, TypeCorrect, PTL DEF Spec

\* No operation that takes the reload mutex brings an older generation back:
\* for any number of datasets, requests and threads, and although updates of
\* datasets may be lost, what a reload is about to publish is newer than what
\* is live.
THEOREM NewestAlwaysWins == Spec => []NewestWins
  <1>1. IndInv => NewestWins
    BY DEF IndInv
  <1> QED
    BY <1>1, InvariantHolds, PTL

-----------------------------------------------------------------------------
(***************************************************************************)
(* DfStore implements LiveGenerations.  Only datasets.store() and the end  *)
(* of an unregister change what is live: the first brings a generation     *)
(* that is newer, by NewestWins, or, in an unregister, none at all.        *)
(***************************************************************************)

\* An unregister builds nothing: it has no generation to store.
RemovesOnly ==
    \A t \in Tasks :
        task[t].op = "unregister" => task[t].gen = 0 /\ task[t].want = "remove"

LEMMA RemovesOnlyStep ==
    ASSUME TypeOK, RemovesOnly, [Next]_vars
    PROVE  RemovesOnly'
  <1>t. task \in [Tasks -> Task]
    BY DEF TypeOK
  <1>i. Idle.op # "unregister"
    BY DEF Idle
  <1>1. CASE UNCHANGED vars
    BY <1>1 DEF vars, RemovesOnly
  <1>2. ASSUME NEW t \in Tasks,
               \A u \in Tasks \ {t} : task'[u] = task[u],
               task'[t].op = "unregister" =>
                   task'[t].gen = 0 /\ task'[t].want = "remove"
        PROVE  RemovesOnly'
    BY <1>2 DEF RemovesOnly
  <1>3. ASSUME NEW t \in Tasks, Return(t) PROVE RemovesOnly'
    BY <1>t, <1>i, <1>2, <1>3 DEF Return
  <1>4. ASSUME NEW t \in Tasks, NEW pc, Goto(t, pc) PROVE RemovesOnly'
    <2>1. /\ \A u \in Tasks \ {t} : task'[u] = task[u]
          /\ task'[t].op = task[t].op /\ task'[t].gen = task[t].gen
          /\ task'[t].want = task[t].want
      BY <1>t, <1>4 DEF Goto, Task
    <2> QED
      BY <1>2, <2>1 DEF RemovesOnly
  <1>5. ASSUME NEW t \in Tasks, Enter(t) PROVE RemovesOnly'
    <2>1. ASSUME NEW op, NEW n, NEW cfg, NEW pc, NEW want,
                 Call(t, op, n, cfg, pc, want), op = "unregister" => want = "remove"
          PROVE  RemovesOnly'
      <3>1. /\ \A u \in Tasks \ {t} : task'[u] = task[u]
            /\ task'[t].op = op /\ task'[t].gen = 0 /\ task'[t].want = want
        BY <1>t, <2>1 DEF Call, Idle
      <3> QED
        BY <1>2, <2>1, <3>1
    <2> QED
      BY <1>5, <2>1 DEF Enter, StartupCall, ReloadCall, TouchCall, RegisterCall,
                        UnregisterCall
  <1>6. ASSUME NEW t \in Tasks, Step(t) \/ Cancel(t) PROVE RemovesOnly'
    <2>1. CASE Acquire(t) \/ BuildOk(t) \/ Deregister(t) \/ ConfigsWrite(t)
      BY <1>4, <2>1 DEF Acquire, BuildOk, Deregister, ConfigsWrite
    <2>2. CASE Coalesce(t) \/ RemoveLock(t) \/ Cancel(t)
      BY <1>3, <2>2 DEF Coalesce, RemoveLock, Cancel, GiveUp
    <2>3. CASE TouchRecheck(t)
      BY <1>3, <1>4, <2>3 DEF TouchRecheck
    <2>4. CASE GetLock(t) \/ StatusLoad(t) \/ DatasetsLoad(t)
      <3>1. /\ \A u \in Tasks \ {t} : task'[u] = task[u]
            /\ task'[t].op = task[t].op /\ task'[t].gen = task[t].gen
            /\ task'[t].want = task[t].want
        BY <1>t, <2>4 DEF GetLock, StatusLoad, DatasetsLoad, Task
      <3> QED
        BY <1>2, <3>1 DEF RemovesOnly
    <2>5. CASE RegisterRecheck(t)
      <3>1. CASE task' = [task EXCEPT ![t].pc = "build", ![t].gen = builds + 1]
        <4>1. /\ \A u \in Tasks \ {t} : task'[u] = task[u]
              /\ task'[t].op = "register"
          BY <1>t, <2>5, <3>1 DEF RegisterRecheck, Task
        <4> QED
          BY <1>2, <4>1
      <3> QED
        BY <1>3, <2>5, <3>1 DEF RegisterRecheck
    <2>6. CASE StatusStore(t)
      <3>1. CASE /\ task[t].want = "building"
                 /\ task' = [task EXCEPT ![t].pc = "build", ![t].gen = builds + 1,
                                         ![t].ssnap = NoEntries]
        <4>1. /\ \A u \in Tasks \ {t} : task'[u] = task[u]
              /\ task'[t].op = task[t].op
          BY <1>t, <3>1 DEF Task
        <4>2. task[t].op # "unregister"
          BY <3>1 DEF RemovesOnly
        <4> QED
          BY <1>2, <4>1, <4>2
      <3> QED
        BY <1>3, <1>4, <2>6, <3>1 DEF StatusStore
    <2>7. ASSUME NEW w, task[t].op # "unregister",
                 task' = [task EXCEPT ![t].pc = "sload", ![t].want = w]
          PROVE  RemovesOnly'
      <3>1. /\ \A u \in Tasks \ {t} : task'[u] = task[u]
            /\ task'[t].op = task[t].op
        BY <1>t, <2>7 DEF Task
      <3> QED
        BY <1>2, <2>7, <3>1
    <2>8. CASE BuildErr(t)
      BY <1>3, <2>7, <2>8 DEF BuildErr
    <2>9. CASE RegisterTable(t)
      BY <1>3, <1>4, <2>7, <2>9 DEF RegisterTable, GiveUp
    <2>10. CASE DatasetsStore(t)
      <3>1. /\ \A u \in Tasks \ {t} : task'[u] = task[u]
            /\ task'[t].op = task[t].op /\ task'[t].gen = task[t].gen
            /\ task[t].want = "remove" => task'[t].want = "remove"
        BY <1>t, <2>10 DEF DatasetsStore, Task
      <3> QED
        BY <1>2, <3>1 DEF RemovesOnly
    <2> QED
      BY <1>6, <2>1, <2>2, <2>3, <2>4, <2>5, <2>6, <2>8, <2>9, <2>10 DEF Step
  <1> QED
    BY <1>1, <1>5, <1>6 DEF Next

\* A step leaves what is visible alone unless it stores datasets or drops a
\* mutex.
LEMMA VisibleKept ==
    ASSUME UNCHANGED <<ops, datasets, locks>>, NEW m \in Names
    PROVE  Visible[m]' = Visible[m]
  BY DEF Visible, OneMutex

LEMMA VisibleStep ==
    ASSUME TypeOK, IndInv, RemovesOnly, [Next]_vars, NEW n, Names = {n}
    PROVE  \/ Visible[n]' = Visible[n]
           \/ Visible[n]' > Visible[n]
           \/ Visible[n]' = 0
  <1>1. CASE UNCHANGED vars
    BY <1>1, VisibleKept DEF vars, registry, rest
  <1>2. ASSUME NEW t \in Tasks, Enter(t) PROVE Visible[n]' = Visible[n]
    <2>1. UNCHANGED <<ops, datasets, locks>>
      BY <1>2 DEF Enter, StartupCall, ReloadCall, TouchCall, RegisterCall,
                  UnregisterCall, Call, registry
    <2> QED
      BY <2>1, VisibleKept
  <1>3. ASSUME NEW t \in Tasks, DatasetsStore(t)
        PROVE  \/ Visible[n]' = Visible[n]
               \/ Visible[n]' > Visible[n]
               \/ Visible[n]' = 0
    <2>1. task[t] \in Task /\ task[t].name = n /\ task[t].dsnap \in [Names -> Nat]
      BY DEF TypeOK, Task
    <2>2. /\ UNCHANGED <<ops, locks>> /\ datasets'[n] = task[t].gen
          /\ task[t].pc = "dstore"
      BY <1>3, <2>1 DEF DatasetsStore, At, rest
    <2>3. CASE OneMutex(n) /\ "startup" \notin ops
      <3>1. task[t].op # "startup"
        BY <2>3 DEF IndInv, NoStartup
      <3>2. CASE task[t].op = "unregister"
        BY <2>2, <2>3, <3>2 DEF RemovesOnly, Visible, OneMutex
      <3>3. CASE task[t].op # "unregister"
        BY <2>1, <2>2, <2>3, <3>1, <3>3
           DEF IndInv, NewestWins, Publishing, Visible, OneMutex
      <3> QED
        BY <3>2, <3>3
    <2>4. CASE ~(OneMutex(n) /\ "startup" \notin ops)
      BY <2>2, <2>4 DEF Visible, OneMutex
    <2> QED
      BY <2>3, <2>4
  <1>4. ASSUME NEW t \in Tasks, RemoveLock(t) PROVE Visible[n]' = 0
    <2>1. task[t].name = n /\ n \in Names /\ locks \in [Names -> Nat \ {0}]
      BY DEF TypeOK, Task
    <2>2. locks'[n] = locks[n] + 1 /\ locks[n] \in Nat \ {0}
      BY <1>4, <2>1 DEF RemoveLock
    <2> QED
      BY <2>2 DEF Visible, OneMutex
  <1>5. ASSUME NEW t \in Tasks, Step(t) \/ Cancel(t),
               ~DatasetsStore(t), ~RemoveLock(t)
        PROVE  Visible[n]' = Visible[n]
    <2>1. UNCHANGED <<ops, datasets, locks>>
      BY <1>5 DEF Step, Cancel, GetLock, Acquire, Coalesce, TouchRecheck,
         RegisterRecheck, StatusLoad, StatusStore, BuildOk, BuildErr, Deregister,
         RegisterTable, DatasetsLoad, ConfigsWrite, registry, rest
    <2> QED
      BY <2>1, VisibleKept
  <1> QED
    BY <1>1, <1>2, <1>3, <1>4, <1>5 DEF Next

\* For one dataset, any number of requests and threads, and any scenario, the
\* registry implements LiveGenerations.  Over several datasets the updates
\* that one operation loses for another dataset stand in the way.
THEOREM ImplementsLiveGenerations ==
    ASSUME NEW n, Names = {n}
    PROVE  Spec => ImplementsLive
  <1>1. Init => Live!Init
    <2> SUFFICES ASSUME Init PROVE Live!Init
      OBVIOUS
    <2>1. \A m \in Names : datasets[m] = 0
      BY DEF Init, NoMap
    <2> QED
      BY <2>1 DEF Live!Init, Visible
  <1>2. TypeOK /\ IndInv /\ RemovesOnly /\ [Next]_vars
            => [Live!Next]_Visible
    <2> SUFFICES ASSUME TypeOK, IndInv, RemovesOnly, [Next]_vars
                 PROVE  [Live!Next]_Visible
      OBVIOUS
    <2>1. CASE Visible[n]' = Visible[n]
      BY <2>1 DEF Visible
    <2>2. CASE Visible[n]' > Visible[n]
      BY <2>2 DEF Visible, Live!Next, Live!Publish, Live!Only
    <2>3. CASE Visible[n]' = 0
      BY <2>3 DEF Visible, Live!Next, Live!Withdraw, Live!Only
    <2> QED
      BY <2>1, <2>2, <2>3, VisibleStep
  <1>3. Init => RemovesOnly
    BY DEF Init, RemovesOnly, Idle
  <1>4. TypeOK /\ RemovesOnly /\ [Next]_vars => RemovesOnly'
    BY RemovesOnlyStep
  <1> QED
    BY <1>1, <1>2, <1>3, <1>4, TypeCorrect, InvariantHolds, PTL
       DEF Spec, ImplementsLive, Live!Spec

-----------------------------------------------------------------------------
(***************************************************************************)
(* Proofs about what the DataFusion registry serves, for every number of   *)
(* tasks and calls and every scenario: the maps configs, datasets,         *)
(* statuses and the engine's tables stay consistent.                       *)
(*                                                                         *)
(* They are about a registry of one dataset.  With several, an update of   *)
(* datasets or statuses may carry back an old entry of another dataset     *)
(* (AtomicUpdate is violated), and none of these properties holds.         *)
(*                                                                         *)
(* The inductive invariant says, for the dataset n: which operation may be *)
(* at which step (Shape); that a Building has an owner (Owned); that       *)
(* what is Published, or about to be, is loaded, as long as nobody began   *)
(* to remove n (Loaded); that what is loaded has its configuration         *)
(* (Configured); and, where no startup build ignores the mutex, what the   *)
(* one task that holds it makes of the table (TablesOf) and of the status  *)
(* (StatusOf).                                                             *)
(***************************************************************************)
\* The operations that store Building before they build.
Announcing == {"startup", "reload", "try_reload", "touch"}

\* t has stored Building and will replace it.
Announced(t) ==
    /\ task[t].op \in Announcing
    /\ \/ task[t].pc \in {"build", "dereg", "reg", "dload", "dstore", "conf"}
       \/ task[t].pc \in {"sload", "sstore"} /\ task[t].want # "building"

\* A registration has published its generation, its status is still to come.
Registered(t) == task[t].op = "register" /\ task[t].pc \in {"conf", "sload", "sstore"}

\* t has seen or stored a live generation and is about to say so.
Promising(t) ==
    /\ task[t].op # "unregister"
    /\ \/ task[t].pc \in {"sload", "sstore"} /\ task[t].want = "published"
       \/ task[t].op = "register" /\ task[t].pc = "conf"

\* Nobody has begun to remove n.
Kept(n) ==
    /\ OneMutex(n)
    /\ \A t \in Tasks : Working(t, n) => task[t].op # "unregister"

\* Which operation may be where, and what it then carries.
ShapeOf(t) ==
    /\ task[t].pc = "idle" <=> task[t].op = "none"
    /\ task[t].op = "unregister" =>
         /\ task[t].gen = 0 /\ task[t].want = "remove" /\ task[t].cfg = "none"
         /\ task[t].pc \notin {"recheck", "build", "reg"}
    /\ task[t].op = "register" =>
         /\ task[t].want = "published" /\ task[t].cfg # "none"
         /\ task[t].pc \notin {"dereg", "unlock"}
    /\ task[t].op = "startup" =>
         /\ task[t].cfg # "none"
         /\ task[t].pc \notin {"getlock", "acquire", "recheck", "dereg", "unlock"}
    /\ task[t].op \in {"reload", "try_reload", "touch"} =>
         /\ task[t].pc \notin {"conf", "unlock"}
         /\ task[t].pc \in {"getlock", "acquire", "recheck"} => task[t].want = "building"
    /\ task[t].op \in {"reload", "try_reload"} => task[t].pc # "recheck"
    /\ task[t].pc \in {"build", "dereg", "reg", "dload", "dstore", "conf"} =>
         task[t].op = "unregister" \/ task[t].gen # 0

Shape == \A t \in Tasks : ShapeOf(t)

\* Building is somebody's.
Owned(n) ==
    statuses[n].st = "building" => n \in aborted \/ \E t \in Tasks : Announced(t)

\* Published, now or soon, is loaded.
Loaded(n) ==
    /\ statuses[n].st = "published" => datasets[n] # 0
    /\ \A t \in Tasks : Promising(t) => datasets[n] # 0

\* Loaded, now or soon, is configured.
Configured(n) ==
    /\ datasets[n] # 0 =>
         configs[n] # "none" \/ \E t \in Tasks : task[t].op = "register" /\ task[t].pc = "conf"
    /\ \A t \in Tasks : task[t].op \in {"reload", "try_reload"} => configs[n] # "none"
    /\ \A t \in Tasks :
         task[t].op = "touch" /\ task[t].pc \notin {"getlock", "acquire", "recheck"} =>
             configs[n] # "none"
    /\ \A t \in Tasks :
         task[t].op = "startup" /\ task[t].pc \in {"dload", "dstore"} => configs[n] # "none"

\* The table and the generation.
TablesOf(n) ==
    /\ \A t \in Tasks : Working(t, n) /\ task[t].pc = "reg" /\ task[t].op # "register" =>
         tables[n] = 0
    /\ \A t \in Tasks : Working(t, n) /\ task[t].pc \in {"dload", "dstore"} =>
         tables[n] = task[t].gen
    /\ \/ tables[n] = datasets[n]
       \/ \E t \in Tasks : Working(t, n) /\ task[t].pc \in {"reg", "dload", "dstore"}
    /\ \A t \in Tasks : Working(t, n) /\ task[t].op = "register" /\ task[t].pc = "reg" =>
         tables[n] = datasets[n]
    /\ \A t \in Tasks : Publishing(t) /\ task[t].op = "register" => datasets[n] = 0

\* The status and the generation.
StatusOf(n) ==
    /\ datasets[n] # 0 =>
         \/ statuses[n].st = "published" \/ n \in aborted
         \/ \E t \in Tasks : Announced(t) \/ Registered(t)
    /\ \A t \in Tasks :
         /\ Working(t, n)
         /\ \/ task[t].pc \in {"sload", "sstore"} /\ task[t].want = "failed"
            \/ /\ task[t].op = "touch" /\ task[t].pc # "recheck"
               /\ ~(task[t].pc \in {"sload", "sstore"} /\ task[t].want = "published")
         => datasets[n] = 0 \/ n \in aborted
    /\ configs[n] # "none" =>
         \/ statuses[n] # Absent
         \/ \E t \in Tasks : task[t].op = "register" /\ task[t].pc \in {"sload", "sstore"}
    /\ \A t \in Tasks : Working(t, n) /\ task[t].pc = "sstore" =>
         task[t].ssnap[n] = statuses[n]

ServedInv(n) ==
    /\ Shape
    /\ Owned(n)
    /\ Kept(n) => Loaded(n) /\ Configured(n)
    /\ OneMutex(n) /\ "startup" \notin ops => TablesOf(n)
    /\ Kept(n) /\ "startup" \notin ops => StatusOf(n)

-----------------------------------------------------------------------------
(***************************************************************************)
(* One task moves; the others, and what they know, stay.                   *)
(***************************************************************************)

LEMMA Fields ==
    ASSUME TypeOK, NEW n, Names = {n}, NEW t \in Tasks
    PROVE  /\ task[t] \in Task /\ task[t].name = n
           /\ task[t].op \in Operations \cup {"none"} /\ task[t].pc \in Pc
           /\ task[t].cfg \in Kind \cup {"none"} /\ task[t].want \in Want
           /\ task[t].gen \in Nat
           /\ task[t].ssnap \in [Names -> Entry \cup {Absent}]
<1>1. task[t] \in Task
    BY DEF TypeOK
<1>. QED
    BY <1>1 DEF Task

\* At most one task works on n where no startup build does.
LEMMA Sole ==
    ASSUME TypeOK, IndInv, NEW n, Names = {n}, OneMutex(n),
           NEW t \in Tasks, NEW u \in Tasks, Working(t, n), Working(u, n),
           task[t].op # "startup", task[u].op # "startup"
    PROVE  t = u
BY Fields, OneHolder DEF Working

LEMMA NoStartups ==
    ASSUME IndInv, "startup" \notin ops, NEW t \in Tasks
    PROVE  task[t].op # "startup"
BY DEF IndInv, NoStartup

\* What the steps of t have in common.
Only(t) == \A u \in Tasks : u # t => task'[u] = task[u]

\* A task begins.
Begun(t, op, cfg, pc, want) ==
    /\ Only(t)
    /\ task[t].pc = "idle"
    /\ task'[t].op = op /\ task'[t].pc = pc /\ task'[t].name \in Names
    /\ task'[t].cfg = cfg /\ task'[t].want = want /\ task'[t].gen = 0

LEMMA CallBegins ==
    ASSUME TypeOK, NEW t \in Tasks, NEW op, NEW m \in Names, NEW cfg, NEW pc, NEW want,
           Call(t, op, m, cfg, pc, want)
    PROVE  Begun(t, op, cfg, pc, want) /\ op \in ops
<1>1. task'[t] = [Idle EXCEPT !.op = op, !.name = m, !.cfg = cfg, !.pc = pc, !.want = want]
    BY DEF Call, TypeOK
<1>2. /\ task'[t].op = op /\ task'[t].pc = pc /\ task'[t].name = m
      /\ task'[t].cfg = cfg /\ task'[t].want = want /\ task'[t].gen = 0
    BY <1>1 DEF Idle
<1>3. Only(t)
    BY DEF Call, TypeOK, Only
<1>. QED
    BY <1>2, <1>3 DEF Begun, Call, At

LEMMA GetLockServed ==
    ASSUME TypeOK, TypeOK', IndInv, IndInv', NEW n, Names = {n}, ServedInv(n),
           NEW t \in Tasks, GetLock(t)
    PROVE  ServedInv(n)'
<1>t. /\ \A u \in Tasks : task[u].name = n /\ task'[u].name = n
    BY DEF TypeOK, Task
<1>u. /\ Only(t)
      /\ task[t].pc = "getlock" /\ task'[t].pc = "acquire" /\ task'[t].op = task[t].op
      /\ task'[t].want = task[t].want /\ task'[t].cfg = task[t].cfg
      /\ task'[t].gen = task[t].gen /\ task'[t].ssnap = task[t].ssnap
      /\ configs' = configs /\ datasets' = datasets /\ tables' = tables
      /\ statuses' = statuses /\ locks' = locks /\ aborted' = aborted /\ ops' = ops
    BY DEF GetLock, At, TypeOK, Task, Only, registry, rest
<1>w. \A u \in Tasks :
        /\ Working(u, n)' <=> Working(u, n)
        /\ Announced(u)' <=> Announced(u)
        /\ Registered(u)' <=> Registered(u)
        /\ Promising(u)' <=> Promising(u)
        /\ Publishing(u)' <=> Publishing(u)
    BY <1>t, <1>u DEF Only, Working, Holds, Announced, Registered, Promising, Publishing
<1>1. Shape'
    BY <1>t, <1>u DEF Only, Shape, ShapeOf, ServedInv
<1>2. Owned(n)'
    BY <1>t, <1>u, <1>w DEF Owned, ServedInv
<1>k. Kept(n)' => Kept(n)
    BY <1>t, <1>u, <1>w DEF Kept, OneMutex, Only
<1>3. ASSUME Kept(n)' PROVE Loaded(n)'
    BY <1>t, <1>u, <1>w, <1>k, <1>3 DEF Loaded, ServedInv
<1>4. ASSUME Kept(n)' PROVE Configured(n)'
    BY <1>t, <1>u, <1>w, <1>k, <1>4 DEF Configured, ServedInv, Only
<1>5. ASSUME OneMutex(n)', "startup" \notin ops' PROVE TablesOf(n)'
    BY <1>t, <1>u, <1>w, <1>5 DEF TablesOf, ServedInv, Only, OneMutex
<1>6. ASSUME Kept(n)', "startup" \notin ops' PROVE StatusOf(n)'
    BY <1>t, <1>u, <1>w, <1>k, <1>6 DEF StatusOf, ServedInv, Only
<1>. QED
    BY <1>1, <1>2, <1>3, <1>4, <1>5, <1>6 DEF ServedInv

\* Everybody fetched the one mutex.
LEMMA LockOne ==
    ASSUME TypeOK, IndInv, NEW n, Names = {n}, OneMutex(n), NEW t \in Tasks,
           task[t].pc \notin {"idle", "getlock"}, task[t].op # "startup"
    PROVE  task[t].lock = 1
<1>1. task[t].lock \in Nat /\ task[t].name = n
    BY DEF TypeOK, Task
<1>. QED
    BY <1>1 DEF IndInv, MutexFetched, OneMutex

\* Acquire: with one mutex, nobody else is at work.
LEMMA AcquireServed ==
    ASSUME TypeOK, TypeOK', IndInv, IndInv', NEW n, Names = {n}, ServedInv(n),
           NEW t \in Tasks, Acquire(t)
    PROVE  ServedInv(n)'
<1>t. \A u \in Tasks :
        task[u].name = n /\ task'[u].name = n /\ task[u].op \in Operations \cup {"none"}
    BY DEF TypeOK, Task
<1>u. /\ Only(t)
      /\ task[t].pc = "acquire" /\ task'[t].pc = Locked(task[t].op) /\ task'[t].op = task[t].op
      /\ task'[t].want = task[t].want /\ task'[t].cfg = task[t].cfg
      /\ task'[t].gen = task[t].gen /\ task'[t].ssnap = task[t].ssnap
      /\ LockFree(n, task[t].lock)
      /\ configs' = configs /\ datasets' = datasets /\ tables' = tables /\ statuses' = statuses
      /\ locks' = locks /\ aborted' = aborted /\ ops' = ops
    BY DEF Acquire, Goto, At, TypeOK, Task, Only, registry, rest
<1>s. ASSUME OneMutex(n), "startup" \notin ops
      PROVE  \A u \in Tasks : Working(t, n) /\ Working(u, n) => u = t
    BY <1>s, Sole, NoStartups
<1>n. "startup" \notin ops => \A u \in Tasks : task[u].op # "startup"
    BY NoStartups
<1>l. ASSUME OneMutex(n), "startup" \notin ops
      PROVE  \A u \in Tasks : ~Working(u, n) /\ (Working(u, n)' => u = t)
    <2>1. \A u \in Tasks : ~Holds(u)
        BY <1>t, <1>u, <1>l, LockOne, NoStartups DEF LockFree, Holds
    <2>. QED
        BY <2>1, <1>t, <1>u, <1>l, NoStartups DEF Working, Holds, Only
<1>1. Shape'
    BY <1>t, <1>u, <1>l DEF Only, Shape, ShapeOf, ServedInv, Operations, Locked
<1>2. Owned(n)'
    BY <1>t, <1>u, <1>l DEF Owned, ServedInv, Shape, ShapeOf, Announced, Announcing, Only,
         Operations, Locked
<1>k. Kept(n)' => Kept(n)
    BY <1>t, <1>u, <1>l DEF Kept, OneMutex, Only, Working, Holds, ServedInv, Shape,
         ShapeOf, Operations, Locked
<1>3. ASSUME Kept(n)' PROVE Loaded(n)'
    BY <1>t, <1>u, <1>l, <1>k, <1>3 DEF Loaded, ServedInv, Promising, Only, Shape,
         ShapeOf, Kept, Working, Holds, Operations, Locked
<1>4. ASSUME Kept(n)' PROVE Configured(n)'
    BY <1>t, <1>u, <1>l, <1>k, <1>4 DEF Configured, ServedInv, Only, Shape, ShapeOf, Kept,
         Working, Holds, Operations, Locked
<1>5. ASSUME OneMutex(n)', "startup" \notin ops' PROVE TablesOf(n)'
    BY <1>t, <1>u, <1>l, <1>s, <1>n, <1>5 DEF TablesOf, ServedInv, Only, OneMutex,
         Working, Holds, Publishing, Shape, ShapeOf, Operations, Locked
<1>6. ASSUME Kept(n)', "startup" \notin ops' PROVE StatusOf(n)'
    BY <1>t, <1>u, <1>l, <1>s, <1>n, <1>k, <1>6 DEF StatusOf, ServedInv, Shape, ShapeOf,
         Only, Working, Holds, Announced, Announcing, Registered, Promising, Publishing, Kept,
         Operations, Locked
<1>. QED
    BY <1>1, <1>2, <1>3, <1>4, <1>5, <1>6 DEF ServedInv

\* statuses.load().
LEMMA StatusLoadServed ==
    ASSUME TypeOK, TypeOK', IndInv, IndInv', NEW n, Names = {n}, ServedInv(n),
           NEW t \in Tasks, StatusLoad(t)
    PROVE  ServedInv(n)'
<1>t. \A u \in Tasks :
        task[u].name = n /\ task'[u].name = n /\ task[u].op \in Operations \cup {"none"}
    BY DEF TypeOK, Task
<1>u. /\ Only(t)
      /\ task[t].pc = "sload" /\ task'[t].pc = "sstore" /\ task'[t].op = task[t].op
      /\ task'[t].want = task[t].want /\ task'[t].cfg = task[t].cfg
      /\ task'[t].gen = task[t].gen /\ task'[t].ssnap = statuses
      /\ configs' = configs /\ datasets' = datasets /\ tables' = tables /\ statuses' = statuses
      /\ locks' = locks /\ aborted' = aborted /\ ops' = ops
    BY DEF StatusLoad, At, TypeOK, Task, Only, registry, rest
<1>s. ASSUME OneMutex(n), "startup" \notin ops
      PROVE  \A u \in Tasks : Working(t, n) /\ Working(u, n) => u = t
    BY <1>s, Sole, NoStartups
<1>n. "startup" \notin ops => \A u \in Tasks : task[u].op # "startup"
    BY NoStartups
<1>1. Shape'
    BY <1>t, <1>u DEF Only, Shape, ShapeOf, ServedInv, Operations
<1>2. Owned(n)'
    BY <1>t, <1>u DEF Owned, ServedInv, Shape, ShapeOf, Announced, Announcing, Only,
         Operations
<1>k. Kept(n)' => Kept(n)
    BY <1>t, <1>u DEF Kept, OneMutex, Only, Working, Holds, ServedInv, Shape, ShapeOf,
         Operations
<1>3. ASSUME Kept(n)' PROVE Loaded(n)'
    BY <1>t, <1>u, <1>k, <1>3 DEF Loaded, ServedInv, Promising, Only, Shape, ShapeOf,
         Kept, Working, Holds, Operations
<1>4. ASSUME Kept(n)' PROVE Configured(n)'
    BY <1>t, <1>u, <1>k, <1>4 DEF Configured, ServedInv, Only, Shape, ShapeOf, Kept,
         Working, Holds, Operations
<1>5. ASSUME OneMutex(n)', "startup" \notin ops' PROVE TablesOf(n)'
    BY <1>t, <1>u, <1>s, <1>n, <1>5 DEF TablesOf, ServedInv, Only, OneMutex, Working,
         Holds, Publishing, Shape, ShapeOf, Operations
<1>6. ASSUME Kept(n)', "startup" \notin ops' PROVE StatusOf(n)'
    BY <1>t, <1>u, <1>s, <1>n, <1>k, <1>6 DEF StatusOf, ServedInv, Shape, ShapeOf, Only,
         Working, Holds, Announced, Announcing, Registered, Promising, Publishing, Kept,
         Operations
<1>. QED
    BY <1>1, <1>2, <1>3, <1>4, <1>5, <1>6 DEF ServedInv

\* A build succeeds.
LEMMA BuildOkServed ==
    ASSUME TypeOK, TypeOK', IndInv, IndInv', NEW n, Names = {n}, ServedInv(n),
           NEW t \in Tasks, BuildOk(t)
    PROVE  ServedInv(n)'
<1>t. \A u \in Tasks :
        task[u].name = n /\ task'[u].name = n /\ task[u].op \in Operations \cup {"none"}
    BY DEF TypeOK, Task
<1>u. /\ Only(t)
      /\ task[t].pc = "build" /\ task'[t].op = task[t].op
      /\ task'[t].pc = IF task[t].op \in {"startup", "register"} THEN "reg" ELSE "dereg"
      /\ task'[t].want = task[t].want /\ task'[t].cfg = task[t].cfg
      /\ task'[t].gen = task[t].gen /\ task'[t].ssnap = task[t].ssnap
      /\ configs' = configs /\ datasets' = datasets /\ tables' = tables /\ statuses' = statuses
      /\ locks' = locks /\ aborted' = aborted /\ ops' = ops
    BY DEF BuildOk, Goto, At, TypeOK, Task, Only, registry, rest
<1>s. ASSUME OneMutex(n), "startup" \notin ops
      PROVE  \A u \in Tasks : Working(t, n) /\ Working(u, n) => u = t
    BY <1>s, Sole, NoStartups
<1>n. "startup" \notin ops => \A u \in Tasks : task[u].op # "startup"
    BY NoStartups
<1>1. Shape'
    BY <1>t, <1>u DEF Only, Shape, ShapeOf, ServedInv, Operations
<1>2. Owned(n)'
    BY <1>t, <1>u DEF Owned, ServedInv, Shape, ShapeOf, Announced, Announcing, Only,
         Operations
<1>k. Kept(n)' => Kept(n)
    BY <1>t, <1>u DEF Kept, OneMutex, Only, Working, Holds, ServedInv, Shape, ShapeOf,
         Operations
<1>3. ASSUME Kept(n)' PROVE Loaded(n)'
    BY <1>t, <1>u, <1>k, <1>3 DEF Loaded, ServedInv, Promising, Only, Shape, ShapeOf,
         Kept, Working, Holds, Operations
<1>4. ASSUME Kept(n)' PROVE Configured(n)'
    BY <1>t, <1>u, <1>k, <1>4 DEF Configured, ServedInv, Only, Shape, ShapeOf, Kept,
         Working, Holds, Operations
<1>5. ASSUME OneMutex(n)', "startup" \notin ops' PROVE TablesOf(n)'
    BY <1>t, <1>u, <1>s, <1>n, <1>5 DEF TablesOf, ServedInv, Only, OneMutex, Working,
         Holds, Publishing, Shape, ShapeOf, Operations
<1>6. ASSUME Kept(n)', "startup" \notin ops' PROVE StatusOf(n)'
    BY <1>t, <1>u, <1>s, <1>n, <1>k, <1>6 DEF StatusOf, ServedInv, Shape, ShapeOf, Only,
         Working, Holds, Announced, Announcing, Registered, Promising, Publishing, Kept,
         Operations
<1>. QED
    BY <1>1, <1>2, <1>3, <1>4, <1>5, <1>6 DEF ServedInv

\* A task returns without a change, or gives up.
LEMMA ReturnServed ==
    ASSUME TypeOK, TypeOK', IndInv, IndInv', NEW n, Names = {n}, ServedInv(n),
           NEW t \in Tasks, Return(t),
           UNCHANGED <<registry, ops>>, aborted \subseteq aborted',
           task[t].op # "startup", Announced(t) => n \in aborted', ~Registered(t),
           Working(t, n) => task[t].op # "unregister",
           task[t].pc \notin {"dload", "dstore"}, task[t].pc = "reg" => tables[n] # 0
    PROVE  ServedInv(n)'
<1>t. \A u \in Tasks :
        task[u].name = n /\ task'[u].name = n /\ task[u].op \in Operations \cup {"none"}
    BY DEF TypeOK, Task
<1>u. /\ Only(t)
      /\ task'[t].op = "none" /\ task'[t].pc = "idle"
      /\ task'[t].want = "building" /\ task'[t].gen = 0
      /\ configs' = configs /\ datasets' = datasets /\ tables' = tables /\ statuses' = statuses
      /\ locks' = locks /\ ops' = ops
    BY DEF Return, Idle, TypeOK, Task, Only, registry
<1>s. ASSUME OneMutex(n), "startup" \notin ops
      PROVE  \A u \in Tasks : Working(t, n) /\ Working(u, n) => u = t
    BY <1>s, Sole, NoStartups
<1>n. "startup" \notin ops => \A u \in Tasks : task[u].op # "startup"
    BY NoStartups
<1>1. Shape'
    BY <1>t, <1>u DEF Only, Shape, ShapeOf, ServedInv, Operations
<1>2. Owned(n)'
    BY <1>t, <1>u DEF Owned, ServedInv, Shape, ShapeOf, Announced, Only, Operations
<1>k. Kept(n)' => Kept(n)
    BY <1>t, <1>u DEF Kept, OneMutex, Only, Working, Holds, ServedInv, Shape, ShapeOf,
         Operations
<1>3. ASSUME Kept(n)' PROVE Loaded(n)'
    BY <1>t, <1>u, <1>k, <1>3 DEF Loaded, ServedInv, Promising, Only, Shape, ShapeOf,
         Kept, Working, Holds, Operations
<1>4. ASSUME Kept(n)' PROVE Configured(n)'
    BY <1>t, <1>u, <1>k, <1>4 DEF Registered, Configured, ServedInv, Only, Shape, ShapeOf,
         Kept, Working, Holds, Operations
<1>5. ASSUME OneMutex(n)', "startup" \notin ops' PROVE TablesOf(n)'
    BY <1>t, <1>u, <1>s, <1>n, <1>5 DEF TablesOf, ServedInv, Only, OneMutex, Working,
         Holds, Publishing, Shape, ShapeOf, Operations
<1>6. ASSUME Kept(n)', "startup" \notin ops' PROVE StatusOf(n)'
    BY <1>t, <1>u, <1>s, <1>n, <1>k, <1>6 DEF StatusOf, ServedInv, Shape, ShapeOf, Only,
         Working, Holds, Announced, Registered, Promising, Publishing, Kept, Operations
<1>. QED
    BY <1>1, <1>2, <1>3, <1>4, <1>5, <1>6 DEF ServedInv

\* A task begins.  A startup build works at once, the others take the mutex first.
LEMMA BegunServed ==
    ASSUME TypeOK, TypeOK', IndInv, IndInv', NEW n, Names = {n}, ServedInv(n),
           NEW t \in Tasks, NEW op \in Operations, NEW cfg, NEW pc \in {"getlock", "sload"}, NEW want,
           Begun(t, op, cfg, pc, want), op \in ops,
           UNCHANGED <<registry, ops, aborted>>,
           pc = "sload" <=> op = "startup",
           op = "startup" => cfg # "none" /\ want \in {"building", "failed"},
           op \in {"reload", "try_reload"} => configs[n] # "none",
           op \in {"reload", "try_reload", "touch"} => want = "building",
           op = "register" => cfg # "none" /\ want = "published",
           op = "unregister" => cfg = "none" /\ want = "remove"
    PROVE  ServedInv(n)'
<1>t. \A u \in Tasks :
        task[u].name = n /\ task'[u].name = n /\ task[u].op \in Operations \cup {"none"}
    BY DEF TypeOK, Task
<1>u. /\ Only(t)
      /\ task[t].pc = "idle" /\ task[t].op = "none"
      /\ task'[t].op = op /\ task'[t].pc = pc
      /\ task'[t].want = want /\ task'[t].cfg = cfg /\ task'[t].gen = 0
      /\ configs' = configs /\ datasets' = datasets /\ tables' = tables /\ statuses' = statuses
      /\ locks' = locks /\ aborted' = aborted /\ ops' = ops
    BY DEF Begun, ServedInv, Shape, ShapeOf, registry
<1>s. ASSUME OneMutex(n), "startup" \notin ops
      PROVE  \A u \in Tasks : Working(t, n) /\ Working(u, n) => u = t
    BY <1>s, Sole, NoStartups
<1>n. "startup" \notin ops => \A u \in Tasks : task[u].op # "startup"
    BY NoStartups
<1>1. Shape'
    BY <1>t, <1>u DEF Only, Shape, ShapeOf, ServedInv, Operations
<1>2. Owned(n)'
    BY <1>t, <1>u DEF Owned, ServedInv, Shape, ShapeOf, Announced, Announcing, Only,
         Operations
<1>k. Kept(n)' => Kept(n)
    BY <1>t, <1>u DEF Kept, OneMutex, Only, Working, Holds, ServedInv, Shape, ShapeOf,
         Operations
<1>3. ASSUME Kept(n)' PROVE Loaded(n)'
    BY <1>t, <1>u, <1>k, <1>3 DEF Loaded, ServedInv, Promising, Only, Shape, ShapeOf,
         Kept, Working, Holds, Operations
<1>4. ASSUME Kept(n)' PROVE Configured(n)'
    BY <1>t, <1>u, <1>k, <1>4 DEF Configured, ServedInv, Only, Shape, ShapeOf, Kept,
         Working, Holds, Operations
<1>5. ASSUME OneMutex(n)', "startup" \notin ops' PROVE TablesOf(n)'
    BY <1>t, <1>u, <1>s, <1>n, <1>5 DEF TablesOf, ServedInv, Only, OneMutex, Working,
         Holds, Publishing, Shape, ShapeOf, Operations
<1>6. ASSUME Kept(n)', "startup" \notin ops' PROVE StatusOf(n)'
    BY <1>t, <1>u, <1>s, <1>n, <1>k, <1>6 DEF StatusOf, ServedInv, Shape, ShapeOf, Only,
         Working, Holds, Announced, Announcing, Registered, Promising, Publishing, Kept,
         Operations
<1>. QED
    BY <1>1, <1>2, <1>3, <1>4, <1>5, <1>6 DEF ServedInv

\* A first touch finds the dataset still to be built.
LEMMA TouchGoesOn ==
    ASSUME TypeOK, TypeOK', IndInv, IndInv', NEW n, Names = {n}, ServedInv(n),
           NEW t \in Tasks, TouchRecheck(t), task'[t].pc # "idle"
    PROVE  ServedInv(n)'
<1>t. \A u \in Tasks :
        task[u].name = n /\ task'[u].name = n /\ task[u].op \in Operations \cup {"none"}
    BY DEF TypeOK, Task
<1>u. /\ Only(t)
      /\ task[t].pc = "recheck" /\ task'[t].pc = "sload" /\ task[t].op = "touch"
      /\ task'[t].op = task[t].op
      /\ task'[t].want = task[t].want /\ task'[t].cfg = task[t].cfg
      /\ task'[t].gen = task[t].gen /\ task'[t].ssnap = task[t].ssnap
      /\ statuses[n].st # "published" /\ configs[n] # "none"
      /\ configs' = configs /\ datasets' = datasets /\ tables' = tables /\ statuses' = statuses
      /\ locks' = locks /\ aborted' = aborted /\ ops' = ops
    BY <1>t DEF TouchRecheck, Goto, Return, Idle, At, TypeOK, Task, Only, registry, rest
<1>s. ASSUME OneMutex(n), "startup" \notin ops
      PROVE  \A u \in Tasks : Working(t, n) /\ Working(u, n) => u = t
    BY <1>s, Sole, NoStartups
<1>n. "startup" \notin ops => \A u \in Tasks : task[u].op # "startup"
    BY NoStartups
<1>1. Shape'
    BY <1>t, <1>u DEF Only, Shape, ShapeOf, ServedInv, Operations
<1>2. Owned(n)'
    BY <1>t, <1>u DEF Owned, ServedInv, Shape, ShapeOf, Announced, Announcing, Only,
         Operations
<1>k. Kept(n)' => Kept(n)
    BY <1>t, <1>u DEF Kept, OneMutex, Only, Working, Holds, ServedInv, Shape, ShapeOf,
         Operations
<1>3. ASSUME Kept(n)' PROVE Loaded(n)'
    BY <1>t, <1>u, <1>k, <1>3 DEF Loaded, ServedInv, Promising, Only, Shape, ShapeOf,
         Kept, Working, Holds, Operations
<1>4. ASSUME Kept(n)' PROVE Configured(n)'
    BY <1>t, <1>u, <1>k, <1>4 DEF Configured, ServedInv, Only, Shape, ShapeOf, Kept,
         Working, Holds, Operations
<1>5. ASSUME OneMutex(n)', "startup" \notin ops' PROVE TablesOf(n)'
    BY <1>t, <1>u, <1>s, <1>n, <1>5 DEF TablesOf, ServedInv, Only, OneMutex, Working,
         Holds, Publishing, Shape, ShapeOf, Operations
<1>6. ASSUME Kept(n)', "startup" \notin ops' PROVE StatusOf(n)'
    BY <1>t, <1>u, <1>s, <1>n, <1>k, <1>6 DEF StatusOf, ServedInv, Shape, ShapeOf, Only,
         Working, Holds, Announced, Announcing, Registered, Promising, Publishing, Kept,
         Operations
<1>. QED
    BY <1>1, <1>2, <1>3, <1>4, <1>5, <1>6 DEF ServedInv

\* A registration finds the name still free.
LEMMA RegisterGoesOn ==
    ASSUME TypeOK, TypeOK', IndInv, IndInv', NEW n, Names = {n}, ServedInv(n),
           NEW t \in Tasks, RegisterRecheck(t), task'[t].pc # "idle"
    PROVE  ServedInv(n)'
<1>t. \A u \in Tasks :
        task[u].name = n /\ task'[u].name = n /\ task[u].op \in Operations \cup {"none"}
    BY DEF TypeOK, Task
<1>u. /\ Only(t)
      /\ task[t].pc = "recheck" /\ task'[t].pc = "build" /\ task[t].op = "register"
      /\ task'[t].op = task[t].op
      /\ task'[t].want = task[t].want /\ task'[t].cfg = task[t].cfg
      /\ task'[t].gen = builds + 1 /\ task'[t].gen # 0
      /\ task'[t].ssnap = task[t].ssnap
      /\ datasets[n] = 0
      /\ configs' = configs /\ datasets' = datasets /\ tables' = tables /\ statuses' = statuses
      /\ locks' = locks /\ aborted' = aborted /\ ops' = ops
    BY <1>t DEF RegisterRecheck, Goto, Return, Idle, At, TypeOK, Task, Only, registry, rest
<1>s. ASSUME OneMutex(n), "startup" \notin ops
      PROVE  \A u \in Tasks : Working(t, n) /\ Working(u, n) => u = t
    BY <1>s, Sole, NoStartups
<1>n. "startup" \notin ops => \A u \in Tasks : task[u].op # "startup"
    BY NoStartups
<1>1. Shape'
    BY <1>t, <1>u DEF Only, Shape, ShapeOf, ServedInv, Operations
<1>2. Owned(n)'
    BY <1>t, <1>u DEF Owned, ServedInv, Shape, ShapeOf, Announced, Announcing, Only,
         Operations
<1>k. Kept(n)' => Kept(n)
    BY <1>t, <1>u DEF Kept, OneMutex, Only, Working, Holds, ServedInv, Shape, ShapeOf,
         Operations
<1>3. ASSUME Kept(n)' PROVE Loaded(n)'
    BY <1>t, <1>u, <1>k, <1>3 DEF Loaded, ServedInv, Promising, Only, Shape, ShapeOf,
         Kept, Working, Holds, Operations
<1>4. ASSUME Kept(n)' PROVE Configured(n)'
    BY <1>t, <1>u, <1>k, <1>4 DEF Configured, ServedInv, Only, Shape, ShapeOf, Kept,
         Working, Holds, Operations
<1>5. ASSUME OneMutex(n)', "startup" \notin ops' PROVE TablesOf(n)'
    BY <1>t, <1>u, <1>s, <1>n, <1>5 DEF TablesOf, ServedInv, Only, OneMutex, Working,
         Holds, Publishing, Shape, ShapeOf, Operations
<1>6. ASSUME Kept(n)', "startup" \notin ops' PROVE StatusOf(n)'
    BY <1>t, <1>u, <1>s, <1>n, <1>k, <1>6 DEF StatusOf, ServedInv, Shape, ShapeOf, Only,
         Working, Holds, Announced, Announcing, Registered, Promising, Publishing, Kept,
         Operations
<1>. QED
    BY <1>1, <1>2, <1>3, <1>4, <1>5, <1>6 DEF ServedInv

\* A build fails: a reload goes back to what is live.
LEMMA BuildErrReload ==
    ASSUME TypeOK, TypeOK', IndInv, IndInv', NEW n, Names = {n}, ServedInv(n),
           NEW t \in Tasks, BuildErr(t), task[t].op # "register"
    PROVE  ServedInv(n)'
<1>t. \A u \in Tasks :
        task[u].name = n /\ task'[u].name = n /\ task[u].op \in Operations \cup {"none"}
    BY DEF TypeOK, Task
<1>u. /\ Only(t)
      /\ task[t].pc = "build" /\ task'[t].pc = "sload" /\ task'[t].op = task[t].op
      /\ task[t].op \in {"reload", "try_reload", "startup", "touch"}
      /\ task'[t].want \in {"published", "failed"}
      /\ task'[t].want = "published" => datasets[n] # 0
      /\ task[t].op \in {"reload", "try_reload"} /\ task'[t].want = "failed" => datasets[n] = 0
      /\ task'[t].cfg = task[t].cfg
      /\ task'[t].gen = task[t].gen /\ task'[t].ssnap = task[t].ssnap
      /\ configs' = configs /\ datasets' = datasets /\ tables' = tables /\ statuses' = statuses
      /\ locks' = locks /\ aborted' = aborted /\ ops' = ops
    BY <1>t DEF BuildErr, Goto, Return, Idle, At, TypeOK, Task, Only, registry, rest
<1>s. ASSUME OneMutex(n), "startup" \notin ops
      PROVE  \A u \in Tasks : Working(t, n) /\ Working(u, n) => u = t
    BY <1>s, Sole, NoStartups
<1>n. "startup" \notin ops => \A u \in Tasks : task[u].op # "startup"
    BY NoStartups
<1>1. Shape'
    BY <1>t, <1>u DEF Only, Shape, ShapeOf, ServedInv, Operations
<1>2. Owned(n)'
    BY <1>t, <1>u DEF Owned, ServedInv, Shape, ShapeOf, Announced, Announcing, Only,
         Operations
<1>k. Kept(n)' => Kept(n)
    BY <1>t, <1>u DEF Kept, OneMutex, Only, Working, Holds, ServedInv, Shape, ShapeOf,
         Operations
<1>3. ASSUME Kept(n)' PROVE Loaded(n)'
    BY <1>t, <1>u, <1>k, <1>3 DEF Loaded, ServedInv, Promising, Only, Shape, ShapeOf,
         Kept, Working, Holds, Operations
<1>4. ASSUME Kept(n)' PROVE Configured(n)'
    BY <1>t, <1>u, <1>k, <1>4 DEF Configured, ServedInv, Only, Shape, ShapeOf, Kept,
         Working, Holds, Operations
<1>5. ASSUME OneMutex(n)', "startup" \notin ops' PROVE TablesOf(n)'
    BY <1>t, <1>u, <1>s, <1>n, <1>5 DEF TablesOf, ServedInv, Only, OneMutex, Working,
         Holds, Publishing, Shape, ShapeOf, Operations
<1>6. ASSUME Kept(n)', "startup" \notin ops' PROVE StatusOf(n)'
    BY <1>t, <1>u, <1>s, <1>n, <1>k, <1>6 DEF StatusOf, ServedInv, Shape, ShapeOf, Only,
         Working, Holds, Announced, Announcing, Registered, Promising, Publishing, Kept,
         Operations
<1>. QED
    BY <1>1, <1>2, <1>3, <1>4, <1>5, <1>6 DEF ServedInv

\* ctx.deregister_table().
LEMMA DeregisterServed ==
    ASSUME TypeOK, TypeOK', IndInv, IndInv', NEW n, Names = {n}, ServedInv(n),
           NEW t \in Tasks, Deregister(t)
    PROVE  ServedInv(n)'
<1>t. \A u \in Tasks :
        task[u].name = n /\ task'[u].name = n /\ task[u].op \in Operations \cup {"none"}
    BY DEF TypeOK, Task
<1>u. /\ Only(t)
      /\ task[t].pc = "dereg" /\ task'[t].op = task[t].op
      /\ task'[t].pc = IF task[t].op = "unregister" THEN "dload" ELSE "reg"
      /\ task'[t].want = task[t].want /\ task'[t].cfg = task[t].cfg
      /\ task'[t].gen = task[t].gen /\ task'[t].ssnap = task[t].ssnap
      /\ tables'[n] = 0
      /\ configs' = configs /\ datasets' = datasets /\ statuses' = statuses /\ locks' = locks
      /\ aborted' = aborted /\ ops' = ops
    BY <1>t DEF Deregister, Goto, At, TypeOK, Task, Only, registry, rest
<1>s. ASSUME OneMutex(n), "startup" \notin ops
      PROVE  \A u \in Tasks : Working(t, n) /\ Working(u, n) => u = t
    BY <1>s, Sole, NoStartups
<1>n. "startup" \notin ops => \A u \in Tasks : task[u].op # "startup"
    BY NoStartups
<1>1. Shape'
    BY <1>t, <1>u DEF Only, Shape, ShapeOf, ServedInv, Operations
<1>2. Owned(n)'
    BY <1>t, <1>u DEF Owned, ServedInv, Shape, ShapeOf, Announced, Announcing, Only,
         Operations
<1>k. Kept(n)' => Kept(n)
    BY <1>t, <1>u DEF Kept, OneMutex, Only, Working, Holds, ServedInv, Shape, ShapeOf,
         Operations
<1>3. ASSUME Kept(n)' PROVE Loaded(n)'
    BY <1>t, <1>u, <1>k, <1>3 DEF Loaded, ServedInv, Promising, Only, Shape, ShapeOf,
         Kept, Working, Holds, Operations
<1>4. ASSUME Kept(n)' PROVE Configured(n)'
    BY <1>t, <1>u, <1>k, <1>4 DEF Configured, ServedInv, Only, Shape, ShapeOf, Kept,
         Working, Holds, Operations
<1>5. ASSUME OneMutex(n)', "startup" \notin ops' PROVE TablesOf(n)'
    BY <1>t, <1>u, <1>s, <1>n, <1>5 DEF TablesOf, ServedInv, Only, OneMutex, Working,
         Holds, Publishing, Shape, ShapeOf, Operations
<1>6. ASSUME Kept(n)', "startup" \notin ops' PROVE StatusOf(n)'
    BY <1>t, <1>u, <1>s, <1>n, <1>k, <1>6 DEF StatusOf, ServedInv, Shape, ShapeOf, Only,
         Working, Holds, Announced, Announcing, Registered, Promising, Publishing, Kept,
         Operations
<1>. QED
    BY <1>1, <1>2, <1>3, <1>4, <1>5, <1>6 DEF ServedInv

\* datasets.load().
LEMMA DatasetsLoadServed ==
    ASSUME TypeOK, TypeOK', IndInv, IndInv', NEW n, Names = {n}, ServedInv(n),
           NEW t \in Tasks, DatasetsLoad(t)
    PROVE  ServedInv(n)'
<1>t. \A u \in Tasks :
        task[u].name = n /\ task'[u].name = n /\ task[u].op \in Operations \cup {"none"}
    BY DEF TypeOK, Task
<1>u. /\ Only(t)
      /\ task[t].pc = "dload" /\ task'[t].pc = "dstore" /\ task'[t].op = task[t].op
      /\ task'[t].want = task[t].want /\ task'[t].cfg = task[t].cfg
      /\ task'[t].gen = task[t].gen /\ task'[t].ssnap = task[t].ssnap
      /\ configs' = configs /\ datasets' = datasets /\ tables' = tables /\ statuses' = statuses
      /\ locks' = locks /\ aborted' = aborted /\ ops' = ops
    BY DEF DatasetsLoad, Goto, At, TypeOK, Task, Only, registry, rest
<1>s. ASSUME OneMutex(n), "startup" \notin ops
      PROVE  \A u \in Tasks : Working(t, n) /\ Working(u, n) => u = t
    BY <1>s, Sole, NoStartups
<1>n. "startup" \notin ops => \A u \in Tasks : task[u].op # "startup"
    BY NoStartups
<1>1. Shape'
    BY <1>t, <1>u DEF Only, Shape, ShapeOf, ServedInv, Operations
<1>2. Owned(n)'
    BY <1>t, <1>u DEF Owned, ServedInv, Shape, ShapeOf, Announced, Announcing, Only,
         Operations
<1>k. Kept(n)' => Kept(n)
    BY <1>t, <1>u DEF Kept, OneMutex, Only, Working, Holds, ServedInv, Shape, ShapeOf,
         Operations
<1>3. ASSUME Kept(n)' PROVE Loaded(n)'
    BY <1>t, <1>u, <1>k, <1>3 DEF Loaded, ServedInv, Promising, Only, Shape, ShapeOf,
         Kept, Working, Holds, Operations
<1>4. ASSUME Kept(n)' PROVE Configured(n)'
    BY <1>t, <1>u, <1>k, <1>4 DEF Configured, ServedInv, Only, Shape, ShapeOf, Kept,
         Working, Holds, Operations
<1>5. ASSUME OneMutex(n)', "startup" \notin ops' PROVE TablesOf(n)'
    BY <1>t, <1>u, <1>s, <1>n, <1>5 DEF TablesOf, ServedInv, Only, OneMutex, Working,
         Holds, Publishing, Shape, ShapeOf, Operations
<1>6. ASSUME Kept(n)', "startup" \notin ops' PROVE StatusOf(n)'
    BY <1>t, <1>u, <1>s, <1>n, <1>k, <1>6 DEF StatusOf, ServedInv, Shape, ShapeOf, Only,
         Working, Holds, Announced, Announcing, Registered, Promising, Publishing, Kept,
         Operations
<1>. QED
    BY <1>1, <1>2, <1>3, <1>4, <1>5, <1>6 DEF ServedInv

\* ctx.register_table() accepts the table.
LEMMA TableAccepted ==
    ASSUME TypeOK, TypeOK', IndInv, IndInv', NEW n, Names = {n}, ServedInv(n),
           NEW t \in Tasks, RegisterTable(t), tables[n] = 0
    PROVE  ServedInv(n)'
<1>t. \A u \in Tasks :
        task[u].name = n /\ task'[u].name = n /\ task[u].op \in Operations \cup {"none"}
    BY DEF TypeOK, Task
<1>u. /\ Only(t)
      /\ task[t].pc = "reg" /\ task'[t].op = task[t].op
      /\ task'[t].pc = IF task[t].op = "startup" THEN "conf" ELSE "dload"
      /\ task'[t].want = task[t].want /\ task'[t].cfg = task[t].cfg
      /\ task'[t].gen = task[t].gen /\ task'[t].ssnap = task[t].ssnap
      /\ tables'[n] = task[t].gen
      /\ configs' = configs /\ datasets' = datasets /\ statuses' = statuses /\ locks' = locks
      /\ aborted' = aborted /\ ops' = ops
    BY <1>t DEF RegisterTable, Goto, At, TypeOK, Task, Only, registry, rest
<1>s. ASSUME OneMutex(n), "startup" \notin ops
      PROVE  \A u \in Tasks : Working(t, n) /\ Working(u, n) => u = t
    BY <1>s, Sole, NoStartups
<1>n. "startup" \notin ops => \A u \in Tasks : task[u].op # "startup"
    BY NoStartups
<1>1. Shape'
    BY <1>t, <1>u DEF Only, Shape, ShapeOf, ServedInv, Operations
<1>2. Owned(n)'
    BY <1>t, <1>u DEF Owned, ServedInv, Shape, ShapeOf, Announced, Announcing, Only,
         Operations
<1>k. Kept(n)' => Kept(n)
    BY <1>t, <1>u DEF Kept, OneMutex, Only, Working, Holds, ServedInv, Shape, ShapeOf,
         Operations
<1>3. ASSUME Kept(n)' PROVE Loaded(n)'
    BY <1>t, <1>u, <1>k, <1>3 DEF Loaded, ServedInv, Promising, Only, Shape, ShapeOf,
         Kept, Working, Holds, Operations
<1>4. ASSUME Kept(n)' PROVE Configured(n)'
    BY <1>t, <1>u, <1>k, <1>4 DEF Configured, ServedInv, Only, Shape, ShapeOf, Kept,
         Working, Holds, Operations
<1>5. ASSUME OneMutex(n)', "startup" \notin ops' PROVE TablesOf(n)'
    BY <1>t, <1>u, <1>s, <1>n, <1>5 DEF TablesOf, ServedInv, Only, OneMutex, Working,
         Holds, Publishing, Shape, ShapeOf, Operations
<1>6. ASSUME Kept(n)', "startup" \notin ops' PROVE StatusOf(n)'
    BY <1>t, <1>u, <1>s, <1>n, <1>k, <1>6 DEF StatusOf, ServedInv, Shape, ShapeOf, Only,
         Working, Holds, Announced, Announcing, Registered, Promising, Publishing, Kept,
         Operations
<1>. QED
    BY <1>1, <1>2, <1>3, <1>4, <1>5, <1>6 DEF ServedInv

\* ctx.register_table() refuses the table of a startup build.
LEMMA StartupRefused ==
    ASSUME TypeOK, TypeOK', IndInv, IndInv', NEW n, Names = {n}, ServedInv(n),
           NEW t \in Tasks, RegisterTable(t), tables[n] # 0, task[t].op = "startup"
    PROVE  ServedInv(n)'
<1>t. \A u \in Tasks :
        task[u].name = n /\ task'[u].name = n /\ task[u].op \in Operations \cup {"none"}
    BY DEF TypeOK, Task
<1>u. /\ Only(t)
      /\ task[t].pc = "reg" /\ task'[t].op = task[t].op
      /\ task'[t].pc = "sload" /\ task'[t].want = "failed"
      /\ task'[t].cfg = task[t].cfg
      /\ task'[t].gen = task[t].gen /\ task'[t].ssnap = task[t].ssnap
      /\ configs' = configs /\ datasets' = datasets /\ tables' = tables /\ statuses' = statuses
      /\ locks' = locks /\ aborted' = aborted /\ ops' = ops
    BY <1>t DEF RegisterTable, GiveUp, Return, Goto, At, TypeOK, Task, Only, registry, rest
<1>s. ASSUME OneMutex(n), "startup" \notin ops
      PROVE  \A u \in Tasks : Working(t, n) /\ Working(u, n) => u = t
    BY <1>s, Sole, NoStartups
<1>n. "startup" \notin ops => \A u \in Tasks : task[u].op # "startup"
    BY NoStartups
<1>1. Shape'
    BY <1>t, <1>u DEF Only, Shape, ShapeOf, ServedInv, Operations
<1>2. Owned(n)'
    BY <1>t, <1>u DEF Owned, ServedInv, Shape, ShapeOf, Announced, Announcing, Only,
         Operations
<1>k. Kept(n)' => Kept(n)
    BY <1>t, <1>u DEF Kept, OneMutex, Only, Working, Holds, ServedInv, Shape, ShapeOf,
         Operations
<1>3. ASSUME Kept(n)' PROVE Loaded(n)'
    BY <1>t, <1>u, <1>k, <1>3 DEF Loaded, ServedInv, Promising, Only, Shape, ShapeOf,
         Kept, Working, Holds, Operations
<1>4. ASSUME Kept(n)' PROVE Configured(n)'
    BY <1>t, <1>u, <1>k, <1>4 DEF Configured, ServedInv, Only, Shape, ShapeOf, Kept,
         Working, Holds, Operations
<1>5. ASSUME OneMutex(n)', "startup" \notin ops' PROVE TablesOf(n)'
    BY <1>t, <1>u, <1>s, <1>n, <1>5 DEF TablesOf, ServedInv, Only, OneMutex, Working,
         Holds, Publishing, Shape, ShapeOf, Operations
<1>6. ASSUME Kept(n)', "startup" \notin ops' PROVE StatusOf(n)'
    BY <1>t, <1>u, <1>s, <1>n, <1>k, <1>6 DEF StatusOf, ServedInv, Shape, ShapeOf, Only,
         Working, Holds, Announced, Announcing, Registered, Promising, Publishing, Kept,
         Operations
<1>. QED
    BY <1>1, <1>2, <1>3, <1>4, <1>5, <1>6 DEF ServedInv

\* datasets.store().
LEMMA DatasetsStoreServed ==
    ASSUME TypeOK, TypeOK', IndInv, IndInv', NEW n, Names = {n}, ServedInv(n),
           NEW t \in Tasks, DatasetsStore(t)
    PROVE  ServedInv(n)'
<1>t. \A u \in Tasks :
        task[u].name = n /\ task'[u].name = n /\ task[u].op \in Operations \cup {"none"}
    BY DEF TypeOK, Task
<1>u. /\ Only(t)
      /\ task[t].pc = "dstore" /\ task'[t].op = task[t].op
      /\ task'[t].pc = IF task[t].op \in {"register", "unregister"} THEN "conf" ELSE "sload"
      /\ task'[t].want = IF task[t].want = "remove" THEN "remove" ELSE "published"
      /\ task[t].want = "remove" => task[t].op = "unregister"
      /\ task'[t].cfg = task[t].cfg
      /\ task'[t].gen = task[t].gen /\ task'[t].ssnap = task[t].ssnap
      /\ datasets'[n] = task[t].gen
      /\ configs' = configs /\ tables' = tables /\ statuses' = statuses /\ locks' = locks
      /\ aborted' = aborted /\ ops' = ops
    BY <1>t DEF DatasetsStore, Goto, At, TypeOK, Task, Only, registry, rest
<1>s. ASSUME OneMutex(n), "startup" \notin ops
      PROVE  \A u \in Tasks : Working(t, n) /\ Working(u, n) => u = t
    BY <1>s, Sole, NoStartups
<1>n. "startup" \notin ops => \A u \in Tasks : task[u].op # "startup"
    BY NoStartups
<1>1. Shape'
    BY <1>t, <1>u DEF Only, Shape, ShapeOf, ServedInv, Operations
<1>2. Owned(n)'
    BY <1>t, <1>u DEF Owned, ServedInv, Shape, ShapeOf, Announced, Announcing, Only,
         Operations
<1>k. Kept(n)' => Kept(n)
    BY <1>t, <1>u DEF Kept, OneMutex, Only, Working, Holds, ServedInv, Shape, ShapeOf,
         Operations
<1>3. ASSUME Kept(n)' PROVE Loaded(n)'
    BY <1>t, <1>u, <1>k, <1>3 DEF Loaded, ServedInv, Promising, Only, Shape, ShapeOf,
         Kept, Working, Holds, Operations
<1>4. ASSUME Kept(n)' PROVE Configured(n)'
    BY <1>t, <1>u, <1>k, <1>4 DEF Configured, ServedInv, Only, Shape, ShapeOf, Kept,
         Working, Holds, Operations
<1>5. ASSUME OneMutex(n)', "startup" \notin ops' PROVE TablesOf(n)'
    BY <1>t, <1>u, <1>s, <1>n, <1>5 DEF TablesOf, ServedInv, Only, OneMutex, Working,
         Holds, Publishing, Shape, ShapeOf, Operations
<1>6. ASSUME Kept(n)', "startup" \notin ops' PROVE StatusOf(n)'
    BY <1>t, <1>u, <1>s, <1>n, <1>k, <1>6 DEF StatusOf, ServedInv, Shape, ShapeOf, Only,
         Working, Holds, Announced, Announcing, Registered, Promising, Publishing, Kept,
         Operations
<1>. QED
    BY <1>1, <1>2, <1>3, <1>4, <1>5, <1>6 DEF ServedInv

\* configs.write().
LEMMA ConfigsWriteServed ==
    ASSUME TypeOK, TypeOK', IndInv, IndInv', NEW n, Names = {n}, ServedInv(n),
           NEW t \in Tasks, ConfigsWrite(t)
    PROVE  ServedInv(n)'
<1>t. \A u \in Tasks :
        task[u].name = n /\ task'[u].name = n /\ task[u].op \in Operations \cup {"none"}
    BY DEF TypeOK, Task
<1>u. /\ Only(t)
      /\ task[t].pc = "conf" /\ task'[t].op = task[t].op
      /\ task'[t].pc = IF task[t].op = "startup" THEN "dload" ELSE "sload"
      /\ task'[t].want = task[t].want /\ task'[t].cfg = task[t].cfg
      /\ task'[t].gen = task[t].gen /\ task'[t].ssnap = task[t].ssnap
      /\ configs'[n] = task[t].cfg
      /\ datasets' = datasets /\ tables' = tables /\ statuses' = statuses /\ locks' = locks
      /\ aborted' = aborted /\ ops' = ops
    BY <1>t DEF ConfigsWrite, Goto, At, TypeOK, Task, Only, registry, rest
<1>s. ASSUME OneMutex(n), "startup" \notin ops
      PROVE  \A u \in Tasks : Working(t, n) /\ Working(u, n) => u = t
    BY <1>s, Sole, NoStartups
<1>n. "startup" \notin ops => \A u \in Tasks : task[u].op # "startup"
    BY NoStartups
<1>1. Shape'
    BY <1>t, <1>u DEF Only, Shape, ShapeOf, ServedInv, Operations
<1>2. Owned(n)'
    BY <1>t, <1>u DEF Owned, ServedInv, Shape, ShapeOf, Announced, Announcing, Only,
         Operations
<1>k. Kept(n)' => Kept(n)
    BY <1>t, <1>u DEF Kept, OneMutex, Only, Working, Holds, ServedInv, Shape, ShapeOf,
         Operations
<1>3. ASSUME Kept(n)' PROVE Loaded(n)'
    BY <1>t, <1>u, <1>k, <1>3 DEF Loaded, ServedInv, Promising, Only, Shape, ShapeOf,
         Kept, Working, Holds, Operations
<1>4. ASSUME Kept(n)' PROVE Configured(n)'
    BY <1>t, <1>u, <1>k, <1>4 DEF Configured, ServedInv, Only, Shape, ShapeOf, Kept,
         Working, Holds, Operations
<1>5. ASSUME OneMutex(n)', "startup" \notin ops' PROVE TablesOf(n)'
    BY <1>t, <1>u, <1>s, <1>n, <1>5 DEF TablesOf, ServedInv, Only, OneMutex, Working,
         Holds, Publishing, Shape, ShapeOf, Operations
<1>6. ASSUME Kept(n)', "startup" \notin ops' PROVE StatusOf(n)'
    BY <1>t, <1>u, <1>s, <1>n, <1>k, <1>6 DEF StatusOf, ServedInv, Shape, ShapeOf, Only,
         Working, Holds, Announced, Announcing, Registered, Promising, Publishing, Kept,
         Operations
<1>. QED
    BY <1>1, <1>2, <1>3, <1>4, <1>5, <1>6 DEF ServedInv

\* What a status update stores.
LEMMA NewEntryIs ==
    ASSUME TypeOK, NEW n, Names = {n}, NEW t \in Tasks, task[t].op # "none", StatusStore(t)
    PROVE  /\ statuses'[n] # Absent => statuses'[n].st # "absent"
           /\ task[t].op = "unregister" => statuses'[n] = Absent
           /\ task[t].op = "register" => statuses'[n].st = "published"
           /\ task[t].op \notin {"unregister", "register"} =>
                \/ task[t].ssnap[n] = Absent /\ statuses'[n] = Absent
                \/ /\ task[t].ssnap[n] # Absent
                   /\ statuses'[n].st = task[t].want
<1>1. /\ task[t].name = n /\ task[t].ssnap \in [Names -> Entry \cup {Absent}]
      /\ task[t].want \in Want
      /\ task[t].want = "remove" => task[t].op = "unregister"
    BY DEF TypeOK, Task
<1>2. statuses'[n] = NewEntry(t)
    BY <1>1 DEF StatusStore
<1>3. task[t].ssnap[n] \in Entry \cup {Absent}
    BY <1>1
<1>4. CASE task[t].op = "unregister"
    BY <1>2, <1>4, <1>1 DEF NewEntry, Absent
<1>5. CASE task[t].op = "register"
    BY <1>2, <1>5, <1>1 DEF NewEntry, Absent
<1>6. CASE task[t].op \notin {"unregister", "register"} /\ task[t].ssnap[n] = Absent
    BY <1>2, <1>6, <1>1 DEF NewEntry, Absent
<1>7. CASE task[t].op \notin {"unregister", "register"} /\ task[t].ssnap[n] # Absent
    <2>1. statuses'[n] = [task[t].ssnap[n] EXCEPT !.st = task[t].want]
        BY <1>2, <1>7, <1>1 DEF NewEntry
    <2>2. statuses'[n].st = task[t].want
        BY <2>1, <1>3, <1>7 DEF Entry
    <2>. QED
        BY <2>2, <1>1, <1>7 DEF Want, DatasetStatus
<1>. QED
    BY <1>4, <1>5, <1>6, <1>7

\* Building is stored: the task will replace it.
LEMMA BuildingStored ==
    ASSUME TypeOK, TypeOK', IndInv, IndInv', NEW n, Names = {n}, ServedInv(n),
           NEW t \in Tasks, StatusStore(t), task[t].want = "building"
    PROVE  ServedInv(n)'
<1>t. \A u \in Tasks :
        task[u].name = n /\ task'[u].name = n /\ task[u].op \in Operations \cup {"none"}
    BY DEF TypeOK, Task
<1>u. /\ Only(t)
      /\ task[t].pc = "sstore" /\ task'[t].pc = "build" /\ task'[t].op = task[t].op
      /\ task'[t].want = task[t].want /\ task'[t].cfg = task[t].cfg
      /\ task'[t].gen = builds + 1 /\ task'[t].gen # 0
      /\ configs' = configs /\ datasets' = datasets /\ tables' = tables /\ locks' = locks
      /\ aborted' = aborted /\ ops' = ops
    BY <1>t DEF StatusStore, Goto, Return, At, TypeOK, Task, Only, registry, rest
<1>s. ASSUME OneMutex(n), "startup" \notin ops
      PROVE  \A u \in Tasks : Working(t, n) /\ Working(u, n) => u = t
    BY <1>s, Sole, NoStartups
<1>n. "startup" \notin ops => \A u \in Tasks : task[u].op # "startup"
    BY NoStartups
<1>e. /\ Absent.st = "absent" /\ (statuses'[n] # Absent => statuses'[n].st # "absent")
      /\ task[t].op = "unregister" => statuses'[n] = Absent
      /\ task[t].op = "register" => statuses'[n].st = "published"
      /\ task[t].op \notin {"unregister", "register"} =>
           \/ task[t].ssnap[n] = Absent /\ statuses'[n] = Absent
           \/ task[t].ssnap[n] # Absent /\ statuses'[n].st = task[t].want
    BY <1>t, <1>u, NewEntryIs DEF Absent, ServedInv, Shape, ShapeOf
<1>1. Shape'
    BY <1>t, <1>u, <1>e DEF Only, Shape, ShapeOf, ServedInv, Operations
<1>2. Owned(n)'
    BY <1>t, <1>u, <1>e DEF Owned, ServedInv, Shape, ShapeOf, Announced, Announcing, Only,
         Operations
<1>k. Kept(n)' => Kept(n)
    BY <1>t, <1>u, <1>e DEF Kept, OneMutex, Only, Working, Holds, ServedInv, Shape,
         ShapeOf, Operations
<1>3. ASSUME Kept(n)' PROVE Loaded(n)'
    BY <1>t, <1>u, <1>e, <1>k, <1>3 DEF Loaded, ServedInv, Promising, Only, Shape,
         ShapeOf, Kept, Working, Holds, Operations
<1>4. ASSUME Kept(n)' PROVE Configured(n)'
    BY <1>t, <1>u, <1>e, <1>k, <1>4 DEF Configured, ServedInv, Only, Shape, ShapeOf, Kept,
         Working, Holds, Operations
<1>5. ASSUME OneMutex(n)', "startup" \notin ops' PROVE TablesOf(n)'
    BY <1>t, <1>u, <1>e, <1>s, <1>n, <1>5 DEF TablesOf, ServedInv, Only, OneMutex,
         Working, Holds, Publishing, Shape, ShapeOf, Operations
<1>6. ASSUME Kept(n)', "startup" \notin ops' PROVE StatusOf(n)'
    BY <1>t, <1>u, <1>e, <1>s, <1>n, <1>k, <1>6 DEF StatusOf, ServedInv, Shape, ShapeOf,
         Only, Working, Holds, Announced, Announcing, Registered, Promising, Publishing, Kept,
         Operations
<1>. QED
    BY <1>1, <1>2, <1>3, <1>4, <1>5, <1>6 DEF ServedInv

\* The entry is removed.
LEMMA RemovalStored ==
    ASSUME TypeOK, TypeOK', IndInv, IndInv', NEW n, Names = {n}, ServedInv(n),
           NEW t \in Tasks, StatusStore(t), task[t].want = "remove"
    PROVE  ServedInv(n)'
<1>t. \A u \in Tasks :
        task[u].name = n /\ task'[u].name = n /\ task[u].op \in Operations \cup {"none"}
    BY DEF TypeOK, Task
<1>u. /\ Only(t)
      /\ task[t].pc = "sstore" /\ task'[t].pc = "unlock" /\ task'[t].op = task[t].op
      /\ task[t].op = "unregister"
      /\ task'[t].want = task[t].want /\ task'[t].cfg = task[t].cfg
      /\ task'[t].gen = task[t].gen /\ task'[t].ssnap = task[t].ssnap
      /\ configs' = configs /\ datasets' = datasets /\ tables' = tables /\ locks' = locks
      /\ aborted' = aborted /\ ops' = ops
    BY <1>t DEF StatusStore, Goto, Return, At, TypeOK, Task, Only, registry, rest
<1>s. ASSUME OneMutex(n), "startup" \notin ops
      PROVE  \A u \in Tasks : Working(t, n) /\ Working(u, n) => u = t
    BY <1>s, Sole, NoStartups
<1>n. "startup" \notin ops => \A u \in Tasks : task[u].op # "startup"
    BY NoStartups
<1>e. /\ Absent.st = "absent" /\ (statuses'[n] # Absent => statuses'[n].st # "absent")
      /\ task[t].op = "unregister" => statuses'[n] = Absent
      /\ task[t].op = "register" => statuses'[n].st = "published"
      /\ task[t].op \notin {"unregister", "register"} =>
           \/ task[t].ssnap[n] = Absent /\ statuses'[n] = Absent
           \/ task[t].ssnap[n] # Absent /\ statuses'[n].st = task[t].want
    BY <1>t, <1>u, NewEntryIs DEF Absent, ServedInv, Shape, ShapeOf
<1>1. Shape'
    BY <1>t, <1>u, <1>e DEF Only, Shape, ShapeOf, ServedInv, Operations
<1>2. Owned(n)'
    BY <1>t, <1>u, <1>e DEF Owned, ServedInv, Shape, ShapeOf, Announced, Announcing, Only,
         Operations
<1>k. Kept(n)' => Kept(n)
    BY <1>t, <1>u, <1>e DEF Kept, OneMutex, Only, Working, Holds, ServedInv, Shape,
         ShapeOf, Operations
<1>3. ASSUME Kept(n)' PROVE Loaded(n)'
    BY <1>t, <1>u, <1>e, <1>k, <1>3 DEF Loaded, ServedInv, Promising, Only, Shape,
         ShapeOf, Kept, Working, Holds, Operations
<1>4. ASSUME Kept(n)' PROVE Configured(n)'
    BY <1>t, <1>u, <1>e, <1>k, <1>4 DEF Configured, ServedInv, Only, Shape, ShapeOf, Kept,
         Working, Holds, Operations
<1>5. ASSUME OneMutex(n)', "startup" \notin ops' PROVE TablesOf(n)'
    BY <1>t, <1>u, <1>e, <1>s, <1>n, <1>5 DEF TablesOf, ServedInv, Only, OneMutex,
         Working, Holds, Publishing, Shape, ShapeOf, Operations
<1>6. ASSUME Kept(n)', "startup" \notin ops' PROVE StatusOf(n)'
    BY <1>t, <1>u, <1>e, <1>s, <1>n, <1>k, <1>6 DEF StatusOf, ServedInv, Shape, ShapeOf,
         Only, Working, Holds, Announced, Announcing, Registered, Promising, Publishing, Kept,
         Operations
<1>. QED
    BY <1>1, <1>2, <1>3, <1>4, <1>5, <1>6 DEF ServedInv

\* Published or Failed is stored: the operation is over.
LEMMA OutcomeStored ==
    ASSUME TypeOK, TypeOK', IndInv, IndInv', NEW n, Names = {n}, ServedInv(n),
           NEW t \in Tasks, StatusStore(t),
           task[t].want \in {"published", "failed"}
    PROVE  ServedInv(n)'
<1>t. \A u \in Tasks :
        task[u].name = n /\ task'[u].name = n /\ task[u].op \in Operations \cup {"none"}
    BY DEF TypeOK, Task
<1>u. /\ Only(t)
      /\ task[t].pc = "sstore" /\ task'[t].pc = "idle" /\ task'[t].op = "none"
      /\ task'[t].want = "building" /\ task'[t].gen = 0
      /\ configs' = configs /\ datasets' = datasets /\ tables' = tables /\ locks' = locks
      /\ aborted' = aborted /\ ops' = ops
    BY <1>t DEF StatusStore, Goto, Return, Idle, At, TypeOK, Task, Only, registry, rest
<1>s. ASSUME OneMutex(n), "startup" \notin ops
      PROVE  \A u \in Tasks : Working(t, n) /\ Working(u, n) => u = t
    BY <1>s, Sole, NoStartups
<1>n. "startup" \notin ops => \A u \in Tasks : task[u].op # "startup"
    BY NoStartups
<1>e. /\ Absent.st = "absent" /\ (statuses'[n] # Absent => statuses'[n].st # "absent")
      /\ task[t].op = "unregister" => statuses'[n] = Absent
      /\ task[t].op = "register" => statuses'[n].st = "published"
      /\ task[t].op \notin {"unregister", "register"} =>
           \/ task[t].ssnap[n] = Absent /\ statuses'[n] = Absent
           \/ task[t].ssnap[n] # Absent /\ statuses'[n].st = task[t].want
    BY <1>t, <1>u, NewEntryIs DEF Absent, ServedInv, Shape, ShapeOf
<1>1. Shape'
    BY <1>t, <1>u, <1>e DEF Only, Shape, ShapeOf, ServedInv, Operations
<1>2. Owned(n)'
    BY <1>t, <1>u, <1>e DEF Owned, ServedInv, Shape, ShapeOf, Announced, Announcing, Only,
         Operations
<1>k. Kept(n)' => Kept(n)
    BY <1>t, <1>u, <1>e DEF Kept, OneMutex, Only, Working, Holds, ServedInv, Shape,
         ShapeOf, Operations
<1>3. ASSUME Kept(n)' PROVE Loaded(n)'
    BY <1>t, <1>u, <1>e, <1>k, <1>3 DEF Loaded, ServedInv, Promising, Only, Shape,
         ShapeOf, Kept, Working, Holds, Operations
<1>4. ASSUME Kept(n)' PROVE Configured(n)'
    BY <1>t, <1>u, <1>e, <1>k, <1>4 DEF Configured, ServedInv, Only, Shape, ShapeOf, Kept,
         Working, Holds, Operations
<1>5. ASSUME OneMutex(n)', "startup" \notin ops' PROVE TablesOf(n)'
    BY <1>t, <1>u, <1>e, <1>s, <1>n, <1>5 DEF TablesOf, ServedInv, Only, OneMutex,
         Working, Holds, Publishing, Shape, ShapeOf, Operations
<1>6. ASSUME Kept(n)', "startup" \notin ops' PROVE StatusOf(n)'
    BY <1>t, <1>u, <1>e, <1>s, <1>n, <1>k, <1>6 DEF StatusOf, Configured, ServedInv,
         Shape, ShapeOf, Only, Working, Holds, Announced, Announcing, Registered, Promising,
         Publishing, Kept, Operations
<1>. QED
    BY <1>1, <1>2, <1>3, <1>4, <1>5, <1>6 DEF ServedInv

\* The mutex is dropped: from now on nothing is promised of n.
LEMMA RemoveLockServed ==
    ASSUME TypeOK, TypeOK', IndInv, IndInv', NEW n, Names = {n}, ServedInv(n),
           NEW t \in Tasks, RemoveLock(t)
    PROVE  ServedInv(n)'
<1>t. \A u \in Tasks :
        task[u].name = n /\ task'[u].name = n /\ task[u].op \in Operations \cup {"none"}
    BY DEF TypeOK, Task
<1>u. /\ Only(t)
      /\ task[t].pc = "unlock" /\ task'[t].pc = "idle" /\ task'[t].op = "none"
      /\ task'[t].want = "building" /\ task'[t].gen = 0
      /\ locks'[n] = locks[n] + 1 /\ locks[n] \in Nat \ {0}
      /\ configs' = configs /\ datasets' = datasets /\ tables' = tables /\ statuses' = statuses
      /\ aborted' = aborted /\ ops' = ops
    BY <1>t DEF RemoveLock, Goto, Return, Idle, At, TypeOK, Task, Only, registry, rest
<1>s. ASSUME OneMutex(n), "startup" \notin ops
      PROVE  \A u \in Tasks : Working(t, n) /\ Working(u, n) => u = t
    BY <1>s, Sole, NoStartups
<1>n. "startup" \notin ops => \A u \in Tasks : task[u].op # "startup"
    BY NoStartups
<1>1. Shape'
    BY <1>t, <1>u DEF Only, Shape, ShapeOf, ServedInv, Operations
<1>2. Owned(n)'
    BY <1>t, <1>u DEF Owned, ServedInv, Shape, ShapeOf, Announced, Announcing, Only,
         Operations
<1>k. Kept(n)' => Kept(n)
    BY <1>t, <1>u DEF Kept, OneMutex, Only, Working, Holds, ServedInv, Shape, ShapeOf,
         Operations
<1>3. ASSUME Kept(n)' PROVE Loaded(n)'
    BY <1>t, <1>u, <1>k, <1>3 DEF Loaded, ServedInv, Promising, Only, Shape, ShapeOf,
         Kept, Working, Holds, Operations
<1>4. ASSUME Kept(n)' PROVE Configured(n)'
    BY <1>t, <1>u, <1>k, <1>4 DEF Configured, ServedInv, Only, Shape, ShapeOf, Kept,
         Working, Holds, Operations
<1>5. ASSUME OneMutex(n)', "startup" \notin ops' PROVE TablesOf(n)'
    BY <1>t, <1>u, <1>s, <1>n, <1>5 DEF TablesOf, ServedInv, Only, OneMutex, Working,
         Holds, Publishing, Shape, ShapeOf, Operations
<1>6. ASSUME Kept(n)', "startup" \notin ops' PROVE StatusOf(n)'
    BY <1>t, <1>u, <1>s, <1>n, <1>k, <1>6 DEF StatusOf, ServedInv, Shape, ShapeOf, Only,
         Working, Holds, Announced, Announcing, Registered, Promising, Publishing, Kept,
         Operations
<1>. QED
    BY <1>1, <1>2, <1>3, <1>4, <1>5, <1>6 DEF ServedInv

-----------------------------------------------------------------------------
(***************************************************************************)
(* Every step preserves the invariant.                                     *)
(***************************************************************************)

LEMMA EnterServed ==
    ASSUME TypeOK, TypeOK', IndInv, IndInv', NEW n, Names = {n}, ServedInv(n),
           NEW t \in Tasks, Enter(t)
    PROVE  ServedInv(n)'
<1>1. \/ StartupCall(t, n)
      \/ \E op \in {"reload", "try_reload"} : ReloadCall(t, op, n)
      \/ TouchCall(t, n)
      \/ RegisterCall(t, n)
      \/ UnregisterCall(t, n)
    BY DEF Enter
<1>u. ASSUME NEW op, NEW cfg, NEW pc, NEW want, Call(t, op, n, cfg, pc, want)
      PROVE  Begun(t, op, cfg, pc, want) /\ op \in ops /\ UNCHANGED <<registry, ops, aborted>>
    <2>1. n \in Names
        OBVIOUS
    <2>. QED
        BY <2>1, <1>u, CallBegins DEF Call
<1>2. CASE StartupCall(t, n)
    <2>1. PICK want \in {"building", "failed"} : Call(t, "startup", n, due[n], "sload", want)
        BY <1>2 DEF StartupCall
    <2>2. due[n] # "none"
        BY <1>2 DEF StartupCall
    <2>. QED
        BY <2>1, <2>2, <1>u, BegunServed DEF Operations
<1>3. CASE \E op \in {"reload", "try_reload"} : ReloadCall(t, op, n)
    <2>1. PICK op \in {"reload", "try_reload"} : ReloadCall(t, op, n)
        BY <1>3
    <2>2. Call(t, op, n, configs[n], "getlock", "building") /\ configs[n] # "none"
        BY <2>1 DEF ReloadCall
    <2>. QED
        BY <2>2, <1>u, BegunServed DEF Operations
<1>4. CASE TouchCall(t, n)
    BY <1>4, <1>u, BegunServed DEF Operations, TouchCall
<1>5. CASE RegisterCall(t, n)
    <2>1. PICK k \in Kind : Call(t, "register", n, k, "getlock", "published")
        BY <1>5 DEF RegisterCall
    <2>. QED
        BY <2>1, <1>u, BegunServed DEF Operations, Kind
<1>6. CASE UnregisterCall(t, n)
    BY <1>6, <1>u, BegunServed DEF Operations, UnregisterCall
<1>. QED
    BY <1>1, <1>2, <1>3, <1>4, <1>5, <1>6

LEMMA StepServed ==
    ASSUME TypeOK, TypeOK', IndInv, IndInv', NEW n, Names = {n}, ServedInv(n),
           NEW t \in Tasks, Step(t)
    PROVE  ServedInv(n)'
<1>t. task[t].name = n /\ task \in [Tasks -> Task] /\ ShapeOf(t)
    BY DEF TypeOK, Task, ServedInv, Shape
<1>r. ASSUME task' = [task EXCEPT ![t].pc = "sload"]
      PROVE  task'[t].pc # "idle"
    BY <1>r, <1>t DEF Task
<1>1. CASE GetLock(t)
    BY <1>1, GetLockServed
<1>2. CASE Acquire(t)
    BY <1>2, AcquireServed
<1>3. CASE Coalesce(t)
    <2>1. task[t].pc = "acquire" /\ task[t].op = "try_reload"
        BY <1>3 DEF Coalesce, At
    <2>2. Return(t) /\ UNCHANGED <<registry, ops>> /\ aborted' = aborted
        BY <1>3 DEF Coalesce, registry, rest
    <2>. QED
        BY <2>1, <2>2, ReturnServed DEF Announced, Registered, Working, Holds
<1>4. CASE TouchRecheck(t)
    <2>1. /\ task[t].pc = "recheck" /\ task[t].op = "touch"
          /\ UNCHANGED <<registry, ops>> /\ aborted' = aborted
          /\ Return(t) \/ Goto(t, "sload")
        BY <1>4 DEF TouchRecheck, At, registry, rest
    <2>2. CASE Return(t)
        BY <2>1, <2>2, ReturnServed DEF Announced, Registered
    <2>3. CASE Goto(t, "sload")
        BY <2>3, <1>r, <1>4, TouchGoesOn DEF Goto
    <2>. QED
        BY <2>1, <2>2, <2>3
<1>5. CASE RegisterRecheck(t)
    <2>1. /\ task[t].pc = "recheck" /\ task[t].op = "register"
          /\ UNCHANGED <<registry, ops>> /\ aborted' = aborted
        BY <1>5 DEF RegisterRecheck, At, registry, rest
    <2>2. CASE Return(t)
        BY <2>1, <2>2, ReturnServed DEF Announced, Announcing, Registered
    <2>3. CASE task' = [task EXCEPT ![t].pc = "build", ![t].gen = builds + 1]
        <3>1. task'[t].pc # "idle"
            BY <2>3, <1>t DEF Task
        <3>. QED
            BY <3>1, <1>5, RegisterGoesOn
    <2>. QED
        BY <1>5, <2>2, <2>3 DEF RegisterRecheck
<1>6. CASE StatusLoad(t)
    BY <1>6, StatusLoadServed
<1>7. CASE StatusStore(t)
    <2>1. \/ task[t].want = "building" \/ task[t].want = "remove"
          \/ task[t].want \in {"published", "failed"}
        BY <1>7 DEF StatusStore
    <2>. QED
        BY <2>1, <1>7, BuildingStored, RemovalStored, OutcomeStored
<1>8. CASE BuildOk(t)
    BY <1>8, BuildOkServed
<1>9. CASE BuildErr(t)
    <2>1. CASE task[t].op # "register"
        BY <2>1, <1>9, BuildErrReload
    <2>2. CASE task[t].op = "register"
        <3>1. /\ task[t].pc = "build" /\ Return(t)
              /\ UNCHANGED <<registry, ops>> /\ aborted' = aborted
            BY <1>9, <2>2 DEF BuildErr, At, registry, rest
        <3>. QED
            BY <2>2, <3>1, ReturnServed DEF Announced, Announcing, Registered
    <2>. QED
        BY <2>1, <2>2
<1>10. CASE Deregister(t)
    BY <1>10, DeregisterServed
<1>11. CASE RegisterTable(t)
    <2>1. CASE tables[n] = 0
        BY <2>1, <1>11, TableAccepted
    <2>2. CASE tables[n] # 0 /\ task[t].op = "startup"
        BY <2>2, <1>11, StartupRefused
    <2>3. CASE tables[n] # 0 /\ task[t].op # "startup"
        <3>1. task[t].pc = "reg" /\ GiveUp(t) /\ UNCHANGED <<registry, ops>>
            BY <1>11, <2>3, <1>t DEF RegisterTable, At, registry
        <3>2. /\ aborted \subseteq aborted'
              /\ task[t].op \in Announcing => n \in aborted'
              /\ Return(t)
            BY <3>1, <1>t DEF GiveUp, Announcing
        <3>. QED
            BY <3>1, <3>2, <2>3, <1>t, ReturnServed DEF ShapeOf, Announced, Registered
    <2>. QED
        BY <2>1, <2>2, <2>3
<1>12. CASE DatasetsLoad(t)
    BY <1>12, DatasetsLoadServed
<1>13. CASE DatasetsStore(t)
    BY <1>13, DatasetsStoreServed
<1>14. CASE ConfigsWrite(t)
    BY <1>14, ConfigsWriteServed
<1>15. CASE RemoveLock(t)
    BY <1>15, RemoveLockServed
<1>. QED
    BY <1>1, <1>2, <1>3, <1>4, <1>5, <1>6, <1>7, <1>8, <1>9, <1>10, <1>11, <1>12, <1>13,
       <1>14, <1>15 DEF Step

LEMMA CancelServed ==
    ASSUME TypeOK, TypeOK', IndInv, IndInv', NEW n, Names = {n}, ServedInv(n),
           NEW t \in Tasks, Cancel(t)
    PROVE  ServedInv(n)'
<1>t. task[t].name = n /\ ShapeOf(t)
    BY DEF TypeOK, Task, ServedInv, Shape
<1>u. UNCHANGED <<registry, ops>>
    BY DEF Cancel
<1>1. CASE At(t, "acquire") /\ Return(t) /\ UNCHANGED aborted
    BY <1>1, <1>t, <1>u, ReturnServed DEF At, ShapeOf, Announced, Registered, Working, Holds
<1>2. CASE At(t, "build") /\ task[t].op # "startup" /\ GiveUp(t)
    <2>1. /\ aborted \subseteq aborted'
          /\ task[t].op \in Announcing => n \in aborted'
          /\ Return(t) /\ task[t].pc = "build"
        BY <1>2, <1>t DEF GiveUp, Announcing, At
    <2>. QED
        BY <2>1, <1>2, <1>t, <1>u, ReturnServed DEF ShapeOf, Announced, Registered
<1>. QED
    BY <1>1, <1>2 DEF Cancel

LEMMA InitServed ==
    ASSUME Init, TypeOK, NEW n, Names = {n}
    PROVE  ServedInv(n)
<1>1. \A t \in Tasks : /\ task[t].op = "none" /\ task[t].pc = "idle"
                       /\ task[t].want = "building" /\ task[t].gen = 0
    BY DEF Init, Idle
<1>2. /\ datasets[n] = 0 /\ tables[n] = 0
      /\ configs[n] = "none" <=> statuses[n] = Absent
      /\ statuses[n].st \in {"pending", "absent"}
    BY DEF Init, NoMap, Absent
<1>3. Shape
    BY <1>1 DEF Shape, ShapeOf
<1>4. Owned(n) /\ Loaded(n)
    BY <1>1, <1>2 DEF Owned, Loaded, Promising
<1>5. Configured(n)
    BY <1>1, <1>2 DEF Configured
<1>6. TablesOf(n)
    BY <1>1, <1>2 DEF TablesOf, Working, Holds, Publishing
<1>7. StatusOf(n)
    BY <1>1, <1>2 DEF StatusOf, Working, Holds
<1>. QED
    BY <1>3, <1>4, <1>5, <1>6, <1>7 DEF ServedInv

\* A step that changes no variable of the model.
LEMMA StutterServed ==
    ASSUME NEW n, ServedInv(n), UNCHANGED vars
    PROVE  ServedInv(n)'
<1>1. /\ configs' = configs /\ datasets' = datasets /\ tables' = tables
      /\ statuses' = statuses /\ locks' = locks /\ aborted' = aborted
      /\ ops' = ops /\ task' = task
    BY DEF vars, registry, rest
<1>. QED
    BY <1>1 DEF ServedInv, Shape, ShapeOf, Owned, Kept, Loaded, Configured, TablesOf,
         StatusOf,
         Announced, Registered, Promising, Publishing, Working, Holds, OneMutex

\* The consistency of the four maps is an inductive invariant of the registry
\* of one dataset.
THEOREM ServedInvariant ==
    ASSUME NEW n, Names = {n}
    PROVE  Spec => []ServedInv(n)
<1>1. Init /\ TypeOK => ServedInv(n)
    BY InitServed
<1>2. TypeOK /\ TypeOK' /\ IndInv /\ IndInv' /\ ServedInv(n) /\ [Next]_vars => ServedInv(n)'
    <2>. SUFFICES ASSUME TypeOK, TypeOK', IndInv, IndInv', ServedInv(n), [Next]_vars
                  PROVE  ServedInv(n)'
        OBVIOUS
    <2>1. CASE Next
        <3>1. PICK t \in Tasks : Enter(t) \/ Step(t) \/ Cancel(t)
            BY <2>1 DEF Next
        <3>. QED
            BY <3>1, EnterServed, StepServed, CancelServed
    <2>2. CASE UNCHANGED vars
        BY <2>2, StutterServed
    <2>. QED
        BY <2>1, <2>2
<1>. QED
    BY <1>1, <1>2, TypeCorrect, InvariantHolds, PTL DEF Spec

\* Published means loaded: ensure_ready (store.rs:622) lets a query through to
\* dataset() on the strength of the status alone.
THEOREM PublishedAlwaysLoaded ==
    ASSUME NEW n, Names = {n}
    PROVE  Spec => []PublishedIsLoaded
<1>1. ServedInv(n) => PublishedIsLoaded
    BY DEF ServedInv, PublishedIsLoaded, Kept, Loaded
<1>. QED
    BY <1>1, ServedInvariant, PTL

\* A Building that no task will replace is the trace of a build that was
\* cancelled or whose table was refused.
THEOREM BuildingAlwaysOwned ==
    ASSUME NEW n, Names = {n}
    PROVE  Spec => []BuildingIsOwned
<1>1. TypeOK /\ ServedInv(n) => BuildingIsOwned
    <2>. SUFFICES ASSUME TypeOK, ServedInv(n) PROVE BuildingIsOwned
        OBVIOUS
    <2>1. \A t \in Tasks : task[t].name = n
        BY DEF TypeOK, Task
    <2>. QED
        BY <2>1 DEF ServedInv, BuildingIsOwned, Owned, Announced, Announcing, Working, Holds
<1>. QED
    BY <1>1, TypeCorrect, ServedInvariant, PTL

\* Between operations the engine scans the table of the live generation.
THEOREM EngineAlwaysAgrees ==
    ASSUME NEW n, Names = {n}
    PROVE  Spec => []EngineAgrees
<1>1. ServedInv(n) => EngineAgrees
    BY DEF ServedInv, EngineAgrees, TablesOf
<1>. QED
    BY <1>1, ServedInvariant, PTL

\* Between operations a live generation has its configuration and, unless an
\* operation was given up, its Published status.
THEOREM LoadedAlwaysServed ==
    ASSUME NEW n, Names = {n}
    PROVE  Spec => []LoadedIsServed
<1>1. TypeOK /\ ServedInv(n) => LoadedIsServed
    <2>. SUFFICES ASSUME TypeOK, ServedInv(n) PROVE LoadedIsServed
        OBVIOUS
    <2>1. \A t \in Tasks : task[t].name = n
        BY DEF TypeOK, Task
    <2>. QED
        BY <2>1 DEF ServedInv, LoadedIsServed, Kept, Configured, StatusOf, Announced,
             Announcing,
             Registered, Working, Holds
<1>. QED
    BY <1>1, TypeCorrect, ServedInvariant, PTL

\* Of two registrations of a name the first wins: the other one finds it under
\* the mutex and returns.
THEOREM FirstAlwaysWins ==
    ASSUME NEW n, Names = {n}
    PROVE  Spec => []FirstRegistrationWins
<1>1. TypeOK /\ ServedInv(n) => FirstRegistrationWins
    <2>. SUFFICES ASSUME TypeOK, ServedInv(n) PROVE FirstRegistrationWins
        OBVIOUS
    <2>1. \A t \in Tasks : task[t].name = n
        BY DEF TypeOK, Task
    <2>. QED
        BY <2>1 DEF ServedInv, FirstRegistrationWins, TablesOf
<1>. QED
    BY <1>1, TypeCorrect, ServedInvariant, PTL

=============================================================================
