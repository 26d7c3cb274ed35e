------------------------ MODULE DuckRegistryProofs ------------------------
(***************************************************************************)
(* Proofs about DuckRegistry, for every set of datasets and tasks, every   *)
(* configuration, pool and bound.                                          *)
(*                                                                         *)
(* The invariants are proved from one inductive invariant.  Its first half *)
(* (Handed .. Exclusive) says who owns what: a closure runs in the phases  *)
(* of its operation, a waiting task has a closure of its own, a mutex has  *)
(* one holder.  Its second half (Owned .. QueryLive) says, of a dataset    *)
(* whose mutex was never replaced and whose closures all kept their        *)
(* callers, how far the one closure that changes it has come.              *)
(***************************************************************************)
EXTENDS DuckRegistry, FiniteSetTheorems, TLAPS

Changing == {"reload", "register", "unregister"}

\* Phases in which a build has left the relation alone, or replaced it.
Before == {"conn", "run", "tmp", "copied"}
After == {"viewed", "sealed", "made", "described"}

\* The closure runs, or waits for a connection.
Open(j) == job[j].phase \notin {"none", "ok", "err"}

\* The closure may still change n.
Changes(j, n) == Open(j) /\ job[j].op \in Changing /\ job[j].name = n

Blocked(t, n) == task[t].pc = "block" /\ task[t].name = n

\* The closures are those handed out, each in a phase of its operation.
Handed ==
    \A j \in Jobs :
        /\ j > jobs <=> job[j].phase = "none"
        /\ j > jobs <=> job[j].op = "none"
        /\ job[j].phase \in After \cup {"tmp", "copied", "dropped"} => Building(j)
        /\ job[j].phase = "streaming" => job[j].op = "stream"

\* The bounds hold.
Within ==
    /\ Cardinality({j \in 1 .. jobs : job[j].op \in Reading}) <= MaxReads
    /\ Cardinality({j \in 1 .. jobs : job[j].op \notin Reading}) <= MaxChanges

\* A task that awaits a closure awaits one of its own operation and dataset,
\* and nobody else awaits that one.
Awaits ==
    /\ \A t \in Tasks : task[t].pc # "idle" =>
         /\ task[t].op \in Changing
         /\ task[t].mutex <= mutex[task[t].name]
    /\ \A t \in Tasks : task[t].pc = "block" =>
         /\ task[t].job \in 1 .. jobs
         /\ job[task[t].job].op = task[t].op
         /\ Open(task[t].job) => job[task[t].job].name = task[t].name
    /\ \A t, u \in Tasks :
         task[t].pc = "block" /\ task[u].pc = "block" /\ task[t].job = task[u].job
           => t = u

\* One task holds a mutex.
Exclusive ==
    \A n \in Names : \A t, u \in Tasks :
        Blocked(t, n) /\ Blocked(u, n) /\ task[t].mutex = task[u].mutex => t = u

\* Generations are no newer than the closures handed out.
Past ==
    \A n \in Names :
        /\ relation[n] <= jobs + 1
        /\ \A g \in Gens : dirs[n][g] # "none" => g <= jobs + 1

\* Of a dataset n that is Serial: a closure that may change it has its caller;
Owned(n) ==
    \A j \in Jobs : Changes(j, n) =>
        \E t \in Tasks : Blocked(t, n) /\ task[t].job = j

\* that closure is the newest thing there is of n, and has done what its phase
\* says;
Progress(n) ==
    \A j \in Jobs : Changes(j, n) =>
        /\ \A g \in Gens : dirs[n][g] # "none" => g <= Gen(j)
        /\ job[j].phase \in Before \cup {"dropped"} => relation[n] <= j
        /\ job[j].phase \in {"copied", "viewed"} => dirs[n][Gen(j)] = "data"
        /\ job[j].phase \in {"viewed", "sealed"} => view[n] = Gen(j)
        /\ job[j].phase = "sealed" => dirs[n][Gen(j)] = "sealed"
        /\ job[j].phase \in After => relation[n] = Gen(j)
        /\ job[j].phase = "described" => job[j].schema = Gen(j)

\* The build that the task awaits has succeeded.
Built(t) == task[t].op # "unregister" /\ job[task[t].job].phase = "ok"

\* a build that succeeded describes the relation it left behind;
Result(n) ==
    \A t \in Tasks : Blocked(t, n) /\ Built(t) =>
        /\ job[task[t].job].schema = relation[n]
        /\ job[task[t].job].rows = relation[n]
        /\ relation[n] # 0

\* The closures that are awaited have left the relation alone.
Untouched(n) ==
    \A t \in Tasks : Blocked(t, n) =>
        job[task[t].job].phase \in Before \cup {"err"}

\* the maps agree with each other, and with the relation as long as no closure
\* has touched it;
MapsInStep(n) ==
    /\ row_counts[n] = datasets[n]
    /\ HasLive(n) /\ ~torn[n] /\ Untouched(n) => relation[n] = datasets[n]

\* the files of a view are there;
Readable(n) == view[n] # 0 => dirs[n][view[n]] \in {"data", "sealed"}

\* what is live has a relation, unless it is being removed or an auto build
\* has made room;
LiveHasRelation(n) ==
    ~vacated[n] /\ HasLive(n) => relation[n] # 0 \/ Removing(n)

\* a query that has not ended is one of a live dataset;
QueryLive(n) ==
    \A j \in Jobs : Open(j) /\ job[j].op = "query" /\ job[j].name = n => HasLive(n)

\* and none has missed its relation.
NotMissed(n) == ~vacated[n] => ~missed[n]

\* The half about closures, connections and callers ...
CallInv == Handed /\ Within /\ PoolAccounted /\ Awaits /\ Exclusive

\* ... and the half about the relations.
EngineOf(n) ==
    /\ Owned(n)
    /\ Progress(n)
    /\ Result(n)
    /\ MapsInStep(n)
    /\ Readable(n)
    /\ LiveHasRelation(n)

DataInv ==
    /\ Past
    /\ \A n \in Names : Serial(n) => EngineOf(n) /\ QueryLive(n) /\ NotMissed(n)

IndInv == CallInv /\ DataInv

-----------------------------------------------------------------------------
(***************************************************************************)
(* Constants, and the bounds.                                              *)
(***************************************************************************)

LEMMA Constants ==
    /\ MaxJobs \in Nat
    /\ MaxChanges \in Nat
    /\ MaxReads \in Nat
    /\ SomeName \in Names
    /\ NoJob \in Job
    /\ Idle \in Task
<1>1. MaxJobs \in Nat /\ MaxChanges \in Nat /\ MaxReads \in Nat
    BY BoundsAssumption DEF MaxJobs
<1>2. SomeName \in Names
    BY NamesAssumption DEF SomeName
<1>3. NoJob \in Job
    BY <1>1, <1>2 DEF NoJob, Job
<1>4. Idle \in Task
    BY <1>1, <1>2 DEF Idle, Task
<1>. QED
    BY <1>1, <1>2, <1>3, <1>4

\* A closure handed out within the bounds has a number.
LEMMA Room ==
    ASSUME TypeOK, Within, NEW op, InBounds(op)
    PROVE  jobs + 1 \in Jobs
<1>. DEFINE R == {j \in 1 .. jobs : job[j].op \in Reading}
            C == {j \in 1 .. jobs : job[j].op \notin Reading}
<1>1. jobs \in 0 .. MaxJobs /\ jobs \in Nat /\ MaxJobs \in Nat
    BY Constants DEF TypeOK
<1>2. IsFiniteSet(1 .. jobs) /\ Cardinality(1 .. jobs) = jobs
    BY <1>1, FS_Interval
<1>3. IsFiniteSet(R) /\ IsFiniteSet(C)
    BY <1>2, FS_Subset
<1>4. Cardinality(R) \in Nat /\ Cardinality(C) \in Nat
    BY <1>3, FS_CardinalityType
<1>5. R \cup C = 1 .. jobs /\ R \cap C = {}
    OBVIOUS
<1>6. Cardinality(R) + Cardinality(C) = jobs
  <2>1. Cardinality(R \cap C) = 0
      BY <1>5, FS_EmptySet
  <2>2. Cardinality(R \cup C) = Cardinality(R) + Cardinality(C) - Cardinality(R \cap C)
      BY <1>3, FS_Union
  <2>3. Cardinality(R \cup C) = jobs
      BY <1>2, <1>5
  <2>. HIDE DEF R, C
  <2>. QED
      BY <1>1, <1>4, <2>1, <2>2, <2>3
<1>7. Cardinality(R) <= MaxReads /\ Cardinality(C) <= MaxChanges
    BY DEF Within
<1>8. Cardinality(R) < MaxReads \/ Cardinality(C) < MaxChanges
  <2>1. CASE op \in Reading
    <3>1. {j \in 1 .. jobs : (job[j].op \in Reading) = (op \in Reading)} = R
        BY <2>1
    <3>. QED
        BY <2>1, <3>1 DEF InBounds
  <2>2. CASE op \notin Reading
    <3>1. {j \in 1 .. jobs : (job[j].op \in Reading) = (op \in Reading)} = C
        BY <2>2
    <3>. QED
        BY <2>2, <3>1 DEF InBounds
  <2>. QED
      BY <2>1, <2>2
<1>9. MaxJobs = MaxChanges + MaxReads /\ MaxChanges \in Nat /\ MaxReads \in Nat
    BY Constants DEF MaxJobs
<1>10. jobs < MaxJobs
    BY <1>1, <1>4, <1>6, <1>7, <1>8, <1>9
<1>. QED
    BY <1>1, <1>10 DEF Jobs

\* What Submit leaves behind.
LEMMA SubmitShape ==
    ASSUME TypeOK, Handed, Within, NEW op, NEW n \in Names,
           NEW cfg \in Config \cup {NoConfig},
           op \in Changing \cup Reading, Submit(op, n, cfg)
    PROVE  /\ jobs' = jobs + 1 /\ jobs + 1 \in Jobs
           /\ jobs' \in 0 .. MaxJobs
           /\ job' \in [Jobs -> Job]
           /\ job'[jobs + 1] = [op |-> op, name |-> n, cfg |-> cfg,
                                phase |-> "conn", schema |-> 0, rows |-> 0]
           /\ \A i \in Jobs : i # jobs + 1 => job'[i] = job[i]
           /\ Within'
           /\ Holding' = Holding
<1>1. jobs + 1 \in Jobs /\ jobs \in Nat /\ MaxJobs \in Nat
    BY Room, Constants DEF Submit, TypeOK
<1>2. jobs' = jobs + 1
    BY DEF Submit
<1>3. jobs' \in 0 .. MaxJobs
    BY <1>1, <1>2 DEF Jobs
<1>4. /\ job'[jobs + 1] = [op |-> op, name |-> n, cfg |-> cfg,
                           phase |-> "conn", schema |-> 0, rows |-> 0]
      /\ \A i \in Jobs : i # jobs + 1 => job'[i] = job[i]
      /\ DOMAIN job' = Jobs
      /\ job' = [i \in Jobs |-> job'[i]]
    BY <1>1 DEF Submit, TypeOK
<1>5. [op |-> op, name |-> n, cfg |-> cfg, phase |-> "conn", schema |-> 0,
       rows |-> 0] \in Job
    BY <1>1 DEF Job, Changing, Reading
<1>6. job' \in [Jobs -> Job]
  <2>1. \A i \in Jobs : job'[i] \in Job
      BY <1>4, <1>5 DEF TypeOK
  <2>. QED
      BY <1>4, <2>1
<1>7. Holding' = Holding
    BY <1>1, <1>4 DEF Holding, Handed
<1>8. Within'
  <2>. DEFINE R == {j \in 1 .. jobs : job[j].op \in Reading}
              C == {j \in 1 .. jobs : job[j].op \notin Reading}
              P == {j \in 1 .. jobs' : job'[j].op \in Reading}
              D == {j \in 1 .. jobs' : job'[j].op \notin Reading}
  <2>1. IsFiniteSet(R) /\ IsFiniteSet(C)
    <3>1. IsFiniteSet(1 .. jobs)
        BY <1>1, FS_Interval
    <3>. QED
        BY <3>1, FS_Subset
  <2>2. /\ Cardinality(R) \in Nat /\ Cardinality(C) \in Nat
        /\ MaxReads \in Nat /\ MaxChanges \in Nat
      BY <2>1, FS_CardinalityType, Constants
  <2>3. Cardinality(R) <= MaxReads /\ Cardinality(C) <= MaxChanges
      BY DEF Within
  <2>4. 1 .. jobs' = (1 .. jobs) \cup {jobs + 1} /\ jobs + 1 \notin 1 .. jobs
      BY <1>1, <1>2
  <2>5. \A i \in 1 .. jobs : job'[i].op = job[i].op
      BY <1>1, <1>4 DEF Jobs, TypeOK
  <2>6. job'[jobs + 1].op = op
      BY <1>4
  <2>7. CASE op \in Reading
    <3>1. P = R \cup {jobs + 1} /\ D = C /\ jobs + 1 \notin R
        BY <2>4, <2>5, <2>6, <2>7
    <3>2. Cardinality(P) = Cardinality(R) + 1
        BY <2>1, <3>1, FS_AddElement
    <3>3. {j \in 1 .. jobs : (job[j].op \in Reading) = (op \in Reading)} = R
        BY <2>7
    <3>4. Cardinality(R) < MaxReads
        BY <2>7, <3>3 DEF Submit, InBounds
    <3>5. Cardinality(P) <= MaxReads /\ Cardinality(D) <= MaxChanges
      <4>. HIDE DEF R, C, P, D
      <4>. QED
          BY <2>2, <2>3, <3>1, <3>2, <3>4
    <3>. QED
        BY <3>5 DEF Within
  <2>8. CASE op \notin Reading
    <3>1. D = C \cup {jobs + 1} /\ P = R /\ jobs + 1 \notin C
        BY <2>4, <2>5, <2>6, <2>8
    <3>2. Cardinality(D) = Cardinality(C) + 1
        BY <2>1, <3>1, FS_AddElement
    <3>3. {j \in 1 .. jobs : (job[j].op \in Reading) = (op \in Reading)} = C
        BY <2>8
    <3>4. Cardinality(C) < MaxChanges
        BY <2>8, <3>3 DEF Submit, InBounds
    <3>5. Cardinality(P) <= MaxReads /\ Cardinality(D) <= MaxChanges
      <4>. HIDE DEF R, C, P, D
      <4>. QED
          BY <2>2, <2>3, <3>1, <3>2, <3>4
    <3>. QED
        BY <3>5 DEF Within
  <2>. QED
      BY <2>7, <2>8
<1>. QED
    BY <1>1, <1>2, <1>3, <1>4, <1>6, <1>7, <1>8

-----------------------------------------------------------------------------
(***************************************************************************)
(* Steps of a closure.                                                     *)
(***************************************************************************)

\* What every step of closure j does: it moves j on, and nothing else but the
\* engine, the pool and the history.
JobMoved(j) ==
    /\ Open(j)
    /\ job' \in [Jobs -> Job]
    /\ job'[j].op = job[j].op
    /\ job'[j].phase \notin {"none", "conn"}
    /\ Open(j)' => job'[j].name = job[j].name
    /\ job'[j].phase \in After \cup {"tmp", "copied", "dropped"} => Building(j)
    /\ job'[j].phase = "streaming" => job[j].op = "stream"
    /\ \A i \in Jobs : i # j => job'[i] = job[i]
    /\ job[j].phase = "conn" => free > 0 /\ free' = free - 1 /\ Open(j)'
    /\ job[j].phase # "conn" => free' = IF Open(j)' THEN free ELSE free + 1
    /\ UNCHANGED <<maps, task, jobs, orphan>>

EngineTyped ==
    /\ relation \in [Names -> 0 .. MaxJobs + 1]
    /\ view \in [Names -> 0 .. MaxJobs + 1]
    /\ dirs \in [Names -> [Gens -> Dir]]
    /\ torn \in [Names -> BOOLEAN]
    /\ vacated \in [Names -> BOOLEAN]
    /\ missed \in [Names -> BOOLEAN]

LEMMA EngineTypes == TypeOK => EngineTyped
BY DEF TypeOK, EngineTyped

\* The fields of a closure, one by one.
LEMMA JobFields ==
    ASSUME TypeOK, NEW j \in Jobs
    PROVE  /\ job[j] \in Job
           /\ job[j].op \in {"none", "reload", "register", "unregister", "query", "stream"}
           /\ job[j].name \in Names
           /\ job[j].cfg \in Config \cup {NoConfig}
           /\ job[j].phase \in {"none", "conn", "run", "tmp", "dropped", "copied",
                  "viewed", "sealed", "made", "described", "streaming", "ok", "err"}
           /\ job[j].schema \in 0 .. MaxJobs + 1
           /\ job[j].rows \in 0 .. MaxJobs + 1
<1>1. job[j] \in Job
    BY DEF TypeOK
<1>. QED
    BY <1>1 DEF Job

LEMMA GenTyped ==
    ASSUME NEW j \in Jobs
    PROVE  /\ Gen(j) \in 0 .. MaxJobs + 1 /\ Gen(j) \in Gens
           /\ Gen(j) = j + 1 /\ j \in Nat /\ Gen(j) # 0
BY Constants DEF Gen, Gens, Jobs

\* Ended keeps the operation and is a closure again.
LEMMA EndedFields ==
    ASSUME TypeOK, NEW j \in Jobs, NEW outcome \in {"ok", "err"},
           NEW s \in 0 .. MaxJobs + 1, NEW r \in 0 .. MaxJobs + 1
    PROVE  /\ Ended(j, outcome, s, r) \in Job
           /\ Ended(j, outcome, s, r).op = job[j].op
           /\ Ended(j, outcome, s, r).phase = outcome
           /\ Ended(j, outcome, s, r).schema = s
           /\ Ended(j, outcome, s, r).rows = r
<1>1. NoJob \in Job
    BY Constants
<1>. QED
    BY <1>1, JobFields DEF Ended, Job

\* A step that only moves the phase on.
LEMMA PhaseMoves ==
    ASSUME TypeOK, NEW j \in Jobs,
           NEW p \in {"run", "tmp", "dropped", "copied", "viewed", "sealed", "made",
                      "streaming"},
           job' = [job EXCEPT ![j].phase = p]
    PROVE  /\ job' \in [Jobs -> Job]
           /\ job'[j].op = job[j].op
           /\ job'[j].name = job[j].name
           /\ job'[j].cfg = job[j].cfg
           /\ job'[j].phase = p
           /\ \A i \in Jobs : i # j => job'[i] = job[i]
<1>1. job'[j] = [job[j] EXCEPT !.phase = p]
    BY DEF TypeOK
<1>2. /\ job'[j] \in Job /\ job'[j].op = job[j].op /\ job'[j].name = job[j].name
      /\ job'[j].cfg = job[j].cfg /\ job'[j].phase = p
    BY <1>1, JobFields DEF Job
<1>3. \A i \in Jobs : i # j => job'[i] = job[i]
    BY DEF TypeOK
<1>4. job' \in [Jobs -> Job]
    BY <1>2, <1>3 DEF TypeOK
<1>. QED
    BY <1>2, <1>3, <1>4

\* A step that ends the closure.
LEMMA ReturnMoves ==
    ASSUME TypeOK, NEW j \in Jobs, NEW outcome \in {"ok", "err"},
           NEW s \in 0 .. MaxJobs + 1, NEW r \in 0 .. MaxJobs + 1,
           job' = [job EXCEPT ![j] = Ended(j, outcome, s, r)]
    PROVE  /\ job' \in [Jobs -> Job]
           /\ job'[j].op = job[j].op
           /\ job'[j].phase = outcome
           /\ job'[j].schema = s
           /\ job'[j].rows = r
           /\ ~Open(j)'
           /\ \A i \in Jobs : i # j => job'[i] = job[i]
<1>1. job'[j] = Ended(j, outcome, s, r)
    BY DEF TypeOK
<1>2. \A i \in Jobs : i # j => job'[i] = job[i]
    BY DEF TypeOK
<1>3. /\ job'[j] \in Job /\ job'[j].op = job[j].op /\ job'[j].phase = outcome
      /\ job'[j].schema = s /\ job'[j].rows = r
    BY <1>1, EndedFields
<1>4. job' \in [Jobs -> Job]
    BY <1>2, <1>3 DEF TypeOK
<1>. QED
    BY <1>2, <1>3, <1>4 DEF Open

LEMMA JobMoves ==
    ASSUME TypeOK, Handed, NEW j \in Jobs, JobStep(j)
    PROVE  JobMoved(j) /\ EngineTyped'
<1>. USE JobFields, GenTyped
<1>e. EngineTyped
    BY EngineTypes
<1>n. job[j].name \in Names /\ 0 \in 0 .. MaxJobs + 1
    BY Constants
<1>b. Building(j) => job[j].phase # "none"
    BY DEF Building, Handed
<1>r. job[j].op \in Reading => ~Building(j)
    BY DEF Reading, Building
<1>1. CASE GetConn(j)
  <2>1. /\ job' = [job EXCEPT ![j].phase = "run"] /\ job[j].phase = "conn"
        /\ free > 0 /\ free' = free - 1
        /\ UNCHANGED <<maps, engine, task, jobs, history>>
      BY <1>1 DEF GetConn
  <2>2. JobMoved(j)
      BY <2>1, PhaseMoves DEF JobMoved, Open, After, history
  <2>. QED
      BY <1>e, <2>1, <2>2 DEF EngineTyped, engine, history
<1>2. CASE Create(j)
  <2>1. /\ job' = [job EXCEPT ![j].phase = "made"] /\ job[j].phase = "run" /\ Building(j)
        /\ UNCHANGED <<maps, dirs, task, jobs, free, history>>
        /\ relation' = [relation EXCEPT ![job[j].name] = Gen(j)]
        /\ view' = [view EXCEPT ![job[j].name] = 0]
      BY <1>2 DEF Create
  <2>2. JobMoved(j)
      BY <2>1, PhaseMoves DEF JobMoved, Open, After, history
  <2>. QED
      BY <1>e, <1>n, <2>1, <2>2 DEF EngineTyped, history
<1>3. CASE CreateTmp(j)
  <2>1. /\ job' = [job EXCEPT ![j].phase = "tmp"] /\ job[j].phase = "run" /\ Building(j)
        /\ UNCHANGED <<maps, engine, task, jobs, free, history>>
      BY <1>3 DEF CreateTmp
  <2>2. JobMoved(j)
      BY <2>1, PhaseMoves DEF JobMoved, Open, After, history
  <2>. QED
      BY <1>e, <2>1, <2>2 DEF EngineTyped, engine, history
<1>4. CASE DropOld(j)
  <2>1. /\ job' = [job EXCEPT ![j].phase = "dropped"] /\ job[j].phase = "tmp"
        /\ UNCHANGED <<maps, dirs, task, jobs, free, orphan, torn, missed>>
        /\ vacated' = [vacated EXCEPT ![job[j].name] = TRUE]
        /\ \/ /\ relation' = [relation EXCEPT ![job[j].name] = 0]
              /\ view' = [view EXCEPT ![job[j].name] = 0]
           \/ UNCHANGED <<relation, view>>
      BY <1>4 DEF DropOld
  <2>2. Building(j)
      BY <2>1 DEF Handed
  <2>3. JobMoved(j)
      BY <2>1, <2>2, PhaseMoves DEF JobMoved, Open, After
  <2>4. vacated' \in [Names -> BOOLEAN]
      BY <1>e, <2>1 DEF EngineTyped
  <2>. QED
      BY <1>e, <1>n, <2>1, <2>3, <2>4 DEF EngineTyped
<1>5. CASE Rename(j)
  <2>1. /\ job' = [job EXCEPT ![j].phase = "made"] /\ job[j].phase = "dropped"
        /\ UNCHANGED <<maps, view, dirs, task, jobs, free, history>>
        /\ relation' = [relation EXCEPT ![job[j].name] = Gen(j)]
      BY <1>5 DEF Rename
  <2>2. Building(j)
      BY <2>1 DEF Handed
  <2>3. JobMoved(j)
      BY <2>1, <2>2, PhaseMoves DEF JobMoved, Open, After, history
  <2>. QED
      BY <1>e, <1>n, <2>1, <2>3 DEF EngineTyped, history
<1>6. CASE Copy(j)
  <2>1. /\ job' = [job EXCEPT ![j].phase = "copied"] /\ job[j].phase = "tmp"
        /\ UNCHANGED <<maps, relation, view, task, jobs, free, history>>
        /\ dirs' = [dirs EXCEPT ![job[j].name][Gen(j)] = "data"]
      BY <1>6 DEF Copy
  <2>2. Building(j)
      BY <2>1 DEF Handed
  <2>3. JobMoved(j)
      BY <2>1, <2>2, PhaseMoves DEF JobMoved, Open, After, history
  <2>4. dirs' \in [Names -> [Gens -> Dir]]
      BY <1>e, <1>n, <2>1 DEF EngineTyped, Dir
  <2>. QED
      BY <1>e, <2>1, <2>3, <2>4 DEF EngineTyped, history
<1>7. CASE CreateView(j)
  <2>1. /\ job' = [job EXCEPT ![j].phase = "viewed"] /\ job[j].phase = "copied"
        /\ UNCHANGED <<maps, dirs, task, jobs, free, history>>
        /\ relation' = [relation EXCEPT ![job[j].name] = Gen(j)]
        /\ view' = [view EXCEPT ![job[j].name] = Gen(j)]
      BY <1>7 DEF CreateView
  <2>2. Building(j)
      BY <2>1 DEF Handed
  <2>3. JobMoved(j)
      BY <2>1, <2>2, PhaseMoves DEF JobMoved, Open, After, history
  <2>. QED
      BY <1>e, <1>n, <2>1, <2>3 DEF EngineTyped, history
<1>8. CASE Seal(j)
  <2>1. /\ job' = [job EXCEPT ![j].phase = "sealed"] /\ job[j].phase = "viewed"
        /\ UNCHANGED <<maps, relation, view, task, jobs, free, history>>
        /\ dirs' = [dirs EXCEPT ![job[j].name][Gen(j)] =
                        IF @ = "data" THEN "sealed" ELSE "hollow"]
      BY <1>8 DEF Seal
  <2>2. Building(j)
      BY <2>1 DEF Handed, After
  <2>3. JobMoved(j)
      BY <2>1, <2>2, PhaseMoves DEF JobMoved, Open, After, history
  <2>4. dirs' \in [Names -> [Gens -> Dir]]
      BY <1>e, <1>n, <2>1 DEF EngineTyped, Dir
  <2>. QED
      BY <1>e, <2>1, <2>3, <2>4 DEF EngineTyped, history
<1>9. CASE Gc(j)
  <2>1. /\ job' = [job EXCEPT ![j].phase = "made"] /\ job[j].phase = "sealed"
        /\ UNCHANGED <<maps, relation, view, task, jobs, free, history>>
      BY <1>9 DEF Gc
  <2>2. Building(j)
      BY <2>1 DEF Handed, After
  <2>3. JobMoved(j)
      BY <2>1, <2>2, PhaseMoves DEF JobMoved, Open, After, history
  <2>4. dirs' \in [Names -> [Gens -> Dir]]
    <3>1. PICK K : dirs' = [dirs EXCEPT ![job[j].name] =
                    [g \in Gens |-> IF g \in K THEN @[g] ELSE "none"]]
        BY <1>9 DEF Gc
    <3>. QED
        BY <1>e, <1>n, <3>1 DEF EngineTyped, Dir
  <2>. QED
      BY <1>e, <2>1, <2>3, <2>4 DEF EngineTyped, history
<1>10. CASE Describe(j)
  <2>1. /\ job' = [job EXCEPT ![j].phase = "described", ![j].schema = relation[job[j].name]]
        /\ job[j].phase = "made"
        /\ UNCHANGED <<maps, engine, task, jobs, free, history>>
      BY <1>10 DEF Describe
  <2>2. Building(j)
      BY <2>1 DEF Handed, After
  <2>3. /\ job'[j] \in Job /\ job'[j].op = job[j].op /\ job'[j].name = job[j].name
        /\ job'[j].phase = "described"
    <3>1. relation[job[j].name] \in 0 .. MaxJobs + 1
        BY <1>e DEF EngineTyped
    <3>. QED
        BY <2>1, <3>1 DEF TypeOK, Job
  <2>4. job' \in [Jobs -> Job] /\ \A i \in Jobs : i # j => job'[i] = job[i]
      BY <2>1, <2>3 DEF TypeOK
  <2>5. JobMoved(j)
      BY <2>1, <2>2, <2>3, <2>4 DEF JobMoved, Open, After, history
  <2>. QED
      BY <1>e, <2>1, <2>5 DEF EngineTyped, engine, history
<1>11. CASE Count(j)
  <2>1. /\ job' = [job EXCEPT ![j] = Ended(j, "ok", job[j].schema, relation[job[j].name])]
        /\ job[j].phase = "described" /\ free' = free + 1
        /\ UNCHANGED <<maps, engine, task, jobs, history>>
      BY <1>11 DEF Count
  <2>2. relation[job[j].name] \in 0 .. MaxJobs + 1
      BY <1>e DEF EngineTyped
  <2>3. JobMoved(j)
      BY <2>1, <2>2, ReturnMoves DEF JobMoved, Open, After, history
  <2>. QED
      BY <1>e, <2>1, <2>3 DEF EngineTyped, engine, history
<1>12. CASE BuildFails(j)
  <2>1. /\ job' = [job EXCEPT ![j] = Ended(j, "err", 0, 0)] /\ free' = free + 1
        /\ Building(j) /\ job[j].phase \notin {"conn", "ok", "err"}
        /\ torn' = torn \/ torn' = [torn EXCEPT ![job[j].name] = TRUE]
        /\ UNCHANGED <<maps, engine, task, jobs, orphan, vacated, missed>>
      BY <1>12 DEF BuildFails, Return
  <2>2. JobMoved(j)
      BY <1>n, <1>b, <2>1, ReturnMoves DEF JobMoved, Open, After
  <2>3. torn' \in [Names -> BOOLEAN]
      BY <1>e, <2>1 DEF EngineTyped
  <2>. QED
      BY <1>e, <2>1, <2>2, <2>3 DEF EngineTyped, engine
<1>13. CASE DropRelation(j)
  <2>1. /\ job' = [job EXCEPT ![j] = Ended(j, "ok", 0, 0)] /\ free' = free + 1
        /\ job[j].phase = "run"
        /\ \/ /\ relation' = [relation EXCEPT ![job[j].name] = 0]
              /\ view' = [view EXCEPT ![job[j].name] = 0]
           \/ UNCHANGED <<relation, view>>
        /\ UNCHANGED <<maps, dirs, task, jobs, history>>
      BY <1>13 DEF DropRelation, Return
  <2>2. JobMoved(j)
      BY <1>n, <2>1, ReturnMoves DEF JobMoved, Open, After, history
  <2>3. relation' \in [Names -> 0 .. MaxJobs + 1]
    <3>1. relation' = relation \/ relation' = [relation EXCEPT ![job[j].name] = 0]
        BY <2>1
    <3>. QED
        BY <1>e, <1>n, <3>1 DEF EngineTyped
  <2>4. view' \in [Names -> 0 .. MaxJobs + 1]
    <3>1. view' = view \/ view' = [view EXCEPT ![job[j].name] = 0]
        BY <2>1
    <3>. QED
        BY <1>e, <1>n, <3>1 DEF EngineTyped
  <2>. QED
      BY <1>e, <2>1, <2>2, <2>3, <2>4 DEF EngineTyped, history
<1>14. CASE Read(j)
  <2>1. /\ job[j].op \in Reading /\ job[j].phase = "run"
        /\ missed' = missed \/ missed' = [missed EXCEPT ![job[j].name] = TRUE]
        /\ UNCHANGED <<maps, engine, task, jobs, orphan, torn, vacated>>
      BY <1>14 DEF Read
  <2>2. JobMoved(j)
    <3>1. \/ job' = [job EXCEPT ![j] = Ended(j, "err", 0, 0)] /\ free' = free + 1
          \/ job' = [job EXCEPT ![j] = Ended(j, "ok", 0, 0)] /\ free' = free + 1
          \/ /\ job' = [job EXCEPT ![j].phase = "streaming"] /\ free' = free
             /\ job[j].op # "query"
        BY <1>14 DEF Read, Return
    <3>2. CASE job' = [job EXCEPT ![j] = Ended(j, "err", 0, 0)] /\ free' = free + 1
        BY <1>n, <2>1, <3>2, ReturnMoves DEF JobMoved, Open, After
    <3>3. CASE job' = [job EXCEPT ![j] = Ended(j, "ok", 0, 0)] /\ free' = free + 1
        BY <1>n, <2>1, <3>3, ReturnMoves DEF JobMoved, Open, After
    <3>4. CASE /\ job' = [job EXCEPT ![j].phase = "streaming"] /\ free' = free
               /\ job[j].op # "query"
        BY <2>1, <3>4, PhaseMoves DEF JobMoved, Open, After, Reading
    <3>. QED
        BY <3>1, <3>2, <3>3, <3>4
  <2>3. missed' \in [Names -> BOOLEAN]
      BY <1>e, <2>1 DEF EngineTyped
  <2>. QED
      BY <1>e, <2>1, <2>2, <2>3 DEF EngineTyped, engine
<1>15. CASE StreamEnd(j)
  <2>1. /\ job' = [job EXCEPT ![j] = Ended(j, "ok", 0, 0)] /\ free' = free + 1
        /\ job[j].phase = "streaming"
        /\ UNCHANGED <<maps, engine, task, jobs, history>>
      BY <1>15 DEF StreamEnd, Return
  <2>2. JobMoved(j)
      BY <1>n, <2>1, ReturnMoves DEF JobMoved, Open, After, history
  <2>. QED
      BY <1>e, <2>1, <2>2 DEF EngineTyped, engine, history
<1>. QED
    BY <1>1, <1>2, <1>3, <1>4, <1>5, <1>6, <1>7, <1>8, <1>9, <1>10, <1>11, <1>12,
       <1>13, <1>14, <1>15 DEF JobStep

\* Its connection and its place among the callers.
LEMMA JobCall ==
    ASSUME TypeOK, CallInv, NEW j \in Jobs, JobMoved(j)
    PROVE  CallInv' /\ free' \in 0 .. PoolSize
<1>. USE JobFields
<1>1. /\ Handed /\ Within /\ PoolAccounted /\ Awaits /\ Exclusive
    BY DEF CallInv
<1>2. /\ jobs \in Nat /\ MaxJobs \in Nat /\ PoolSize \in Nat /\ free \in Nat
      /\ jobs <= MaxJobs
    BY Constants, PoolAssumption DEF TypeOK
<1>3. /\ Open(j) /\ job'[j].op = job[j].op
      /\ job'[j].phase \notin {"none", "conn"}
      /\ \A i \in Jobs : i # j => job'[i] = job[i]
      /\ jobs' = jobs /\ task' = task /\ mutex' = mutex
      /\ Open(j)' => job'[j].name = job[j].name
    BY DEF JobMoved, maps
<1>4. \A i \in Jobs : job'[i].op = job[i].op
    BY <1>3
<1>5. j <= jobs /\ j \in 1 .. jobs
    BY <1>1, <1>2, <1>3 DEF Open, Handed, Jobs
<1>6. Handed'
  <2>1. \A i \in Jobs : i # j => (Building(i)' <=> Building(i))
      BY <1>3 DEF Building
  <2>2. Building(j)' <=> Building(j)
      BY <1>3 DEF Building
  <2>. QED
      BY <1>1, <1>2, <1>3, <1>4, <1>5, <2>1, <2>2 DEF Handed, JobMoved, Open
<1>7. Within'
  <2>1. \A i \in 1 .. jobs : job'[i].op = job[i].op
      BY <1>2, <1>4 DEF Jobs
  <2>2. {i \in 1 .. jobs' : job'[i].op \in Reading} = {i \in 1 .. jobs : job[i].op \in Reading}
      BY <1>3, <2>1
  <2>3. {i \in 1 .. jobs' : job'[i].op \notin Reading} = {i \in 1 .. jobs : job[i].op \notin Reading}
      BY <1>3, <2>1
  <2>. QED
      BY <1>1, <2>2, <2>3 DEF Within
<1>8. PoolAccounted' /\ free' \in 0 .. PoolSize
  <2>1. IsFiniteSet(Holding)
    <3>1. IsFiniteSet(Jobs)
        BY <1>2, FS_Interval DEF Jobs
    <3>. QED
        BY <3>1, FS_Subset DEF Holding
  <2>2. Cardinality(Holding) \in Nat /\ free + Cardinality(Holding) = PoolSize
      BY <1>1, <2>1, FS_CardinalityType DEF PoolAccounted
  <2>3. CASE job[j].phase = "conn"
    <3>1. Holding' = Holding \cup {j} /\ j \notin Holding
        BY <1>3, <2>3 DEF Holding, JobMoved, Open
    <3>2. Cardinality(Holding') = Cardinality(Holding) + 1
        BY <2>1, <3>1, FS_AddElement
    <3>3. free > 0 /\ free' = free - 1
        BY <2>3 DEF JobMoved
    <3>. QED
        BY <1>2, <2>2, <3>2, <3>3 DEF PoolAccounted
  <2>4. CASE job[j].phase # "conn" /\ Open(j)'
    <3>1. Holding' = Holding
        BY <1>3, <2>4 DEF Holding, Open
    <3>2. free' = free
        BY <2>4 DEF JobMoved
    <3>. QED
        BY <1>2, <2>2, <3>1, <3>2 DEF PoolAccounted
  <2>5. CASE job[j].phase # "conn" /\ ~Open(j)'
    <3>1. Holding' = Holding \ {j} /\ j \in Holding
        BY <1>3, <2>5 DEF Holding, Open
    <3>2. Cardinality(Holding') = Cardinality(Holding) - 1
        BY <2>1, <3>1, FS_RemoveElement
    <3>3. free' = free + 1
        BY <2>5 DEF JobMoved
    <3>4. Cardinality(Holding') \in Nat
        BY <2>1, <3>1, FS_RemoveElement, FS_CardinalityType
    <3>. QED
        BY <1>2, <2>2, <3>2, <3>3, <3>4 DEF PoolAccounted
  <2>. QED
      BY <2>3, <2>4, <2>5
<1>9. Awaits'
  <2>1. \A t \in Tasks : task[t].pc = "block" => task[t].job \in Jobs
      BY <1>1, <1>2 DEF Awaits, Jobs
  <2>2. \A t \in Tasks : task[t].pc = "block" /\ Open(task[t].job)' =>
            job'[task[t].job].name = task[t].name
      BY <1>1, <1>3, <2>1 DEF Awaits, Open
  <2>. QED
      BY <1>1, <1>3, <1>4, <2>1, <2>2 DEF Awaits, Open
<1>10. Exclusive'
    BY <1>1, <1>3 DEF Exclusive, Blocked
<1>. QED
    BY <1>6, <1>7, <1>8, <1>9, <1>10 DEF CallInv

LEMMA JobTyped ==
    ASSUME TypeOK, CallInv, NEW j \in Jobs, JobStep(j)
    PROVE  TypeOK' /\ CallInv' /\ JobMoved(j)
<1>1. JobMoved(j) /\ EngineTyped'
    BY JobMoves DEF CallInv
<1>2. CallInv' /\ free' \in 0 .. PoolSize
    BY <1>1, JobCall
<1>3. /\ UNCHANGED <<configs, datasets, row_counts, statuses, mutex, task, jobs, orphan>>
      /\ job' \in [Jobs -> Job]
    BY <1>1 DEF JobMoved, maps
<1>. QED
    BY <1>1, <1>2, <1>3 DEF TypeOK, EngineTyped

-----------------------------------------------------------------------------
(***************************************************************************)
(* Steps of a task.                                                        *)
(***************************************************************************)

LEMMA TaskFields ==
    ASSUME TypeOK, NEW t \in Tasks
    PROVE  /\ task[t] \in Task
           /\ task[t].op \in {"none", "reload", "register", "unregister"}
           /\ task[t].name \in Names
           /\ task[t].cfg \in Config \cup {NoConfig}
           /\ task[t].pc \in {"idle", "lock", "block"}
           /\ task[t].mutex \in Nat
           /\ task[t].job \in 0 .. MaxJobs
<1>1. task[t] \in Task
    BY DEF TypeOK
<1>. QED
    BY <1>1 DEF Task

LEMMA StatusTyped ==
    ASSUME TypeOK, NEW n \in Names, NEW s \in DatasetStatus, SetStatus(n, s)
    PROVE  statuses' \in [Names -> DatasetStatus]
BY DEF TypeOK, SetStatus

\* A task that begins to wait for a mutex.
LEMMA AskShape ==
    ASSUME TypeOK, CallInv, NEW t \in Tasks, NEW n \in Names, NEW op \in Changing,
           NEW cfg \in Config \cup {NoConfig}, AskMutex(t, op, n, cfg),
           UNCHANGED <<mutex, job, jobs, free>>
    PROVE  /\ task' \in [Tasks -> Task]
           /\ task'[t].pc = "lock"
           /\ \A u \in Tasks : u # t => task'[u] = task[u]
           /\ CallInv'
<1>1. mutex[n] \in Nat
    BY DEF TypeOK
<1>2. task'[t] = [op |-> op, name |-> n, cfg |-> cfg, pc |-> "lock",
                  mutex |-> mutex[n], job |-> 0]
    BY DEF AskMutex, TypeOK
<1>3. \A u \in Tasks : u # t => task'[u] = task[u]
    BY DEF AskMutex, TypeOK
<1>4. task'[t] \in Task
    BY <1>1, <1>2, Constants DEF Task, Changing
<1>5. task' \in [Tasks -> Task]
    BY <1>3, <1>4 DEF AskMutex, TypeOK
<1>6. Handed' /\ Within' /\ PoolAccounted'
    BY DEF CallInv, Handed, Within, PoolAccounted, Holding, Building
<1>7. Awaits'
    BY <1>1, <1>2, <1>3 DEF CallInv, Awaits, Open
<1>8. Exclusive'
    BY <1>2, <1>3 DEF CallInv, Exclusive, Blocked
<1>. QED
    BY <1>2, <1>3, <1>5, <1>6, <1>7, <1>8 DEF CallInv

\* A task that becomes idle, its closure left as it is.
LEMMA IdleShape ==
    ASSUME TypeOK, CallInv, NEW t \in Tasks, task' = [task EXCEPT ![t] = Idle],
           UNCHANGED <<mutex, job, jobs, free>>
    PROVE  /\ task' \in [Tasks -> Task]
           /\ task'[t].pc = "idle"
           /\ \A u \in Tasks : u # t => task'[u] = task[u]
           /\ CallInv'
<1>1. task'[t] = Idle /\ task'[t].pc = "idle"
    BY DEF TypeOK, Idle
<1>2. \A u \in Tasks : u # t => task'[u] = task[u]
    BY DEF TypeOK
<1>3. task' \in [Tasks -> Task]
    BY <1>1, <1>2, Constants DEF TypeOK
<1>4. Handed' /\ Within' /\ PoolAccounted'
    BY DEF CallInv, Handed, Within, PoolAccounted, Holding, Building
<1>5. Awaits'
    BY <1>1, <1>2 DEF CallInv, Awaits, Open
<1>6. Exclusive'
    BY <1>1, <1>2 DEF CallInv, Exclusive, Blocked
<1>. QED
    BY <1>1, <1>2, <1>3, <1>4, <1>5, <1>6 DEF CallInv

\* A task that takes the mutex and submits its closure.
LEMMA SubmitCall ==
    ASSUME TypeOK, CallInv, NEW t \in Tasks, NEW n \in Names, NEW op \in Changing,
           NEW cfg \in Config \cup {NoConfig}, NEW m \in Nat, m <= mutex[n],
           ~Held(n, m), Submit(op, n, cfg), task[t].pc # "block",
           task'[t].op = op, task'[t].name = n, task'[t].pc = "block",
           task'[t].mutex = m, task'[t].job = jobs + 1,
           \A u \in Tasks : u # t => task'[u] = task[u],
           UNCHANGED <<mutex, free>>
    PROVE  CallInv'
<1>. USE JobFields
<1>s. /\ jobs' = jobs + 1 /\ jobs + 1 \in Jobs /\ jobs \in Nat /\ jobs <= MaxJobs
      /\ job'[jobs + 1] = [op |-> op, name |-> n, cfg |-> cfg, phase |-> "conn",
                           schema |-> 0, rows |-> 0]
      /\ \A i \in Jobs : i # jobs + 1 => job'[i] = job[i]
      /\ Within' /\ Holding' = Holding /\ MaxJobs \in Nat
    BY SubmitShape, Constants DEF CallInv, TypeOK
<1>1. Handed'
    BY <1>s DEF CallInv, Handed, Jobs, After, Building, Changing
<1>2. PoolAccounted'
    BY <1>s DEF CallInv, PoolAccounted
<1>3. Awaits'
  <2>1. \A u \in Tasks : u # t /\ task[u].pc = "block" =>
            task[u].job \in Jobs /\ task[u].job \in 1 .. jobs /\ task[u].job # jobs + 1
      BY <1>s DEF CallInv, Awaits, Jobs
  <2>. QED
      BY <1>s, <2>1 DEF CallInv, Awaits, Open, Changing
<1>4. Exclusive'
    BY DEF CallInv, Exclusive, Blocked, Held
<1>. QED
    BY <1>s, <1>1, <1>2, <1>3, <1>4 DEF CallInv

\* A closure that nobody awaits is submitted.
LEMMA ReadCall ==
    ASSUME TypeOK, CallInv, NEW n \in Names, NEW op \in Reading,
           NEW cfg \in Config \cup {NoConfig}, Submit(op, n, cfg),
           UNCHANGED <<mutex, task, free>>
    PROVE  CallInv'
<1>o. op \in Changing \cup Reading /\ Handed /\ Within
    BY DEF CallInv
<1>m. jobs \in Nat /\ jobs <= MaxJobs /\ MaxJobs \in Nat
    BY Constants DEF TypeOK
<1>s. /\ jobs' = jobs + 1 /\ jobs + 1 \in Jobs /\ jobs \in Nat /\ jobs <= MaxJobs
      /\ job'[jobs + 1] = [op |-> op, name |-> n, cfg |-> cfg, phase |-> "conn",
                           schema |-> 0, rows |-> 0]
      /\ \A i \in Jobs : i # jobs + 1 => job'[i] = job[i]
      /\ Within' /\ Holding' = Holding /\ MaxJobs \in Nat
    BY <1>o, <1>m, SubmitShape
<1>. USE JobFields
<1>1. Handed'
    BY <1>s DEF CallInv, Handed, Jobs, After, Building, Reading
<1>2. PoolAccounted'
    BY <1>s DEF CallInv, PoolAccounted
<1>3. Awaits'
  <2>1. \A u \in Tasks : task[u].pc = "block" =>
            task[u].job \in Jobs /\ task[u].job \in 1 .. jobs /\ task[u].job # jobs + 1
      BY <1>s DEF CallInv, Awaits, Jobs
  <2>. QED
      BY <1>s, <2>1 DEF CallInv, Awaits, Open
<1>4. Exclusive'
    BY DEF CallInv, Exclusive, Blocked
<1>. QED
    BY <1>s, <1>1, <1>2, <1>3, <1>4 DEF CallInv

\* A task that takes the result of its closure.
LEMMA ReturnedShape ==
    ASSUME TypeOK, CallInv, NEW t \in Tasks, NEW op, NEW outcome \in {"ok", "err"},
           Returned(t, op, outcome), UNCHANGED <<jobs, free>>,
           \A n \in Names : mutex'[n] \in Nat /\ mutex'[n] >= mutex[n]
    PROVE  /\ job' \in [Jobs -> Job] /\ task' \in [Tasks -> Task]
           /\ task[t].job \in Jobs
           /\ \A u \in Tasks : u # t /\ task[u].pc = "block" => task[u].job # task[t].job
           /\ ~Open(task[t].job) /\ job'[task[t].job].phase = outcome
           /\ \A i \in Jobs : i # task[t].job => job'[i] = job[i]
           /\ task'[t].pc = "idle"
           /\ \A u \in Tasks : u # t => task'[u] = task[u]
           /\ CallInv'
<1>. USE JobFields
<1>1. /\ task[t].pc = "block" /\ job[task[t].job].phase = outcome
      /\ job' = [job EXCEPT ![task[t].job] = Ended(task[t].job, outcome, 0, 0)]
      /\ task' = [task EXCEPT ![t] = Idle]
    BY DEF Returned
<1>2. PICK k \in Jobs : k = task[t].job /\ k \in 1 .. jobs
  <2>1. task[t].job \in 1 .. jobs /\ jobs \in 0 .. MaxJobs /\ MaxJobs \in Nat
      BY <1>1, Constants DEF CallInv, Awaits, TypeOK
  <2>. QED
      BY <2>1 DEF Jobs
<1>z. 0 \in 0 .. MaxJobs + 1
    BY Constants
<1>3. /\ job' \in [Jobs -> Job] /\ job'[k].op = job[k].op /\ job'[k].phase = outcome
      /\ \A i \in Jobs : i # k => job'[i] = job[i]
    BY <1>1, <1>2, <1>z, ReturnMoves
<1>4. task'[t] = Idle /\ task'[t].pc = "idle"
    BY <1>1 DEF TypeOK, Idle
<1>5. \A u \in Tasks : u # t => task'[u] = task[u]
    BY <1>1 DEF TypeOK
<1>6. task' \in [Tasks -> Task]
    BY <1>1, <1>4, <1>5, Constants DEF TypeOK
<1>7. \A u \in Tasks : u # t /\ task[u].pc = "block" => task[u].job # k
    BY <1>1, <1>2 DEF CallInv, Awaits
<1>8. \A i \in Jobs : job'[i].op = job[i].op /\ job'[i].phase = job[i].phase
    BY <1>1, <1>2, <1>3
<1>9. Handed'
    BY <1>8 DEF CallInv, Handed, Building
<1>10. Within'
  <2>0. jobs \in Nat /\ MaxJobs \in Nat /\ jobs <= MaxJobs
      BY Constants DEF TypeOK
  <2>1. \A i \in 1 .. jobs : job'[i].op = job[i].op
      BY <1>8, <2>0 DEF Jobs
  <2>2. {i \in 1 .. jobs' : job'[i].op \in Reading} = {i \in 1 .. jobs : job[i].op \in Reading}
      BY <2>1
  <2>3. {i \in 1 .. jobs' : job'[i].op \notin Reading} = {i \in 1 .. jobs : job[i].op \notin Reading}
      BY <2>1
  <2>. QED
      BY <2>2, <2>3 DEF CallInv, Within
<1>11. PoolAccounted'
  <2>1. Holding' = Holding
      BY <1>8 DEF Holding
  <2>. QED
      BY <2>1 DEF CallInv, PoolAccounted
<1>12. Awaits'
  <2>1. \A u \in Tasks : /\ mutex[task[u].name] \in Nat /\ task[u].mutex \in Nat
                         /\ mutex'[task[u].name] \in Nat
                         /\ mutex'[task[u].name] >= mutex[task[u].name]
      BY TaskFields DEF TypeOK
  <2>2. \A u \in Tasks : u # t /\ task[u].pc = "block" => task[u].job \in Jobs
    <3>0. jobs \in Nat /\ MaxJobs \in Nat /\ jobs <= MaxJobs
        BY Constants DEF TypeOK
    <3>. QED
        BY <3>0 DEF CallInv, Awaits, Jobs
  <2>. QED
      BY <1>3, <1>4, <1>5, <1>7, <1>8, <2>1, <2>2 DEF CallInv, Awaits, Open
<1>13. Exclusive'
    BY <1>4, <1>5 DEF CallInv, Exclusive, Blocked
<1>. QED
    BY <1>1, <1>2, <1>3, <1>4, <1>5, <1>6, <1>7, <1>9, <1>10, <1>11, <1>12, <1>13
    DEF CallInv, Open

LEMMA CallTyped ==
    ASSUME TypeOK, CallInv, NEW t \in Tasks, Call(t)
    PROVE  TypeOK' /\ CallInv'
<1>1. PICK n \in Names : \/ ReloadCall(t, n)
                         \/ TryReload(t, n)
                         \/ \E cfg \in Config : RegisterCall(t, n, cfg)
                         \/ UnregisterCall(t, n)
    BY DEF Call
<1>2. configs[n] \in Config \cup {NoConfig} /\ mutex[n] \in Nat
    BY DEF TypeOK
<1>3. CASE \E op \in Changing, cfg \in Config \cup {NoConfig} :
             /\ AskMutex(t, op, n, cfg)
             /\ UNCHANGED <<maps, engine, job, jobs, free, history>>
  <2>1. PICK op \in Changing, cfg \in Config \cup {NoConfig} :
             /\ AskMutex(t, op, n, cfg)
             /\ UNCHANGED <<maps, engine, job, jobs, free, history>>
      BY <1>3
  <2>2. task' \in [Tasks -> Task] /\ CallInv'
      BY <2>1, AskShape DEF maps
  <2>3. TypeOK'
      BY <2>1, <2>2 DEF TypeOK, maps, engine, history
  <2>. QED
      BY <2>2, <2>3
<1>4. CASE TryReload(t, n)
  <2>1. /\ task[t].pc = "idle" /\ ~Held(n, mutex[n]) /\ Submit("reload", n, configs[n])
        /\ task' = [task EXCEPT ![t] =
                      [op |-> "reload", name |-> n, cfg |-> configs[n],
                       pc |-> "block", mutex |-> mutex[n], job |-> jobs + 1]]
        /\ SetStatus(n, "building")
        /\ UNCHANGED <<configs, datasets, row_counts, mutex, engine, free, history>>
      BY <1>4 DEF TryReload
  <2>2. jobs + 1 \in Jobs /\ job' \in [Jobs -> Job] /\ jobs' \in 0 .. MaxJobs
      BY <1>2, <2>1, SubmitShape DEF CallInv, Changing
  <2>3. jobs + 1 \in 0 .. MaxJobs
      BY <2>2, Constants DEF Jobs
  <2>4. /\ task'[t] = [op |-> "reload", name |-> n, cfg |-> configs[n],
                       pc |-> "block", mutex |-> mutex[n], job |-> jobs + 1]
        /\ \A u \in Tasks : u # t => task'[u] = task[u]
      BY <2>1 DEF TypeOK
  <2>5. task'[t] \in Task
      BY <1>2, <2>3, <2>4 DEF Task
  <2>6. task' \in [Tasks -> Task]
      BY <2>1, <2>4, <2>5 DEF TypeOK
  <2>7. CallInv'
      BY <1>2, <2>1, <2>4, SubmitCall DEF Changing
  <2>8. statuses' \in [Names -> DatasetStatus]
      BY <2>1, StatusTyped DEF DatasetStatus
  <2>9. TypeOK'
      BY <2>1, <2>2, <2>6, <2>8 DEF TypeOK, engine, history
  <2>. QED
      BY <2>7, <2>9
<1>5. ReloadCall(t, n) => \E op \in Changing, cfg \in Config \cup {NoConfig} :
             /\ AskMutex(t, op, n, cfg)
             /\ UNCHANGED <<maps, engine, job, jobs, free, history>>
    BY <1>2 DEF ReloadCall, Changing
<1>6. UnregisterCall(t, n) => \E op \in Changing, cfg \in Config \cup {NoConfig} :
             /\ AskMutex(t, op, n, cfg)
             /\ UNCHANGED <<maps, engine, job, jobs, free, history>>
    BY <1>2 DEF UnregisterCall, Changing
<1>7. (\E cfg \in Config : RegisterCall(t, n, cfg)) =>
        \E op \in Changing, cfg \in Config \cup {NoConfig} :
             /\ AskMutex(t, op, n, cfg)
             /\ UNCHANGED <<maps, engine, job, jobs, free, history>>
    BY DEF RegisterCall, Changing
<1>. QED
    BY <1>1, <1>3, <1>4, <1>5, <1>6, <1>7

LEMMA AcquireTyped ==
    ASSUME TypeOK, CallInv, NEW t \in Tasks, Acquire(t)
    PROVE  TypeOK' /\ CallInv'
<1>. USE TaskFields
<1>. DEFINE n == task[t].name
<1>1. /\ task[t].pc = "lock" /\ ~Held(n, task[t].mutex)
      /\ Submit(task[t].op, n, task[t].cfg)
      /\ SetStatus(n, "building") \/ statuses' = statuses
      /\ task' = [task EXCEPT ![t].pc = "block", ![t].job = jobs + 1]
      /\ UNCHANGED <<configs, datasets, row_counts, mutex, engine, free, history>>
    BY DEF Acquire
<1>2. n \in Names /\ task[t].op \in Changing /\ task[t].mutex <= mutex[n]
    BY <1>1 DEF CallInv, Awaits
<1>3. jobs + 1 \in Jobs /\ job' \in [Jobs -> Job] /\ jobs' \in 0 .. MaxJobs
    BY <1>1, <1>2, SubmitShape DEF CallInv
<1>4. jobs + 1 \in 0 .. MaxJobs
    BY <1>3, Constants DEF Jobs
<1>5. /\ task'[t] \in Task /\ task'[t].op = task[t].op /\ task'[t].name = n
      /\ task'[t].pc = "block" /\ task'[t].mutex = task[t].mutex
      /\ task'[t].job = jobs + 1
    BY <1>1, <1>4 DEF TypeOK, Task
<1>6. \A u \in Tasks : u # t => task'[u] = task[u]
    BY <1>1 DEF TypeOK
<1>7. task' \in [Tasks -> Task]
    BY <1>1, <1>5, <1>6 DEF TypeOK
<1>8. CallInv'
    BY <1>1, <1>2, <1>5, <1>6, SubmitCall
<1>9. statuses' \in [Names -> DatasetStatus]
  <2>1. SetStatus(n, "building") => statuses' \in [Names -> DatasetStatus]
      BY <1>2, StatusTyped DEF DatasetStatus
  <2>. QED
      BY <1>1, <2>1 DEF TypeOK
<1>10. TypeOK'
    BY <1>1, <1>3, <1>7, <1>9 DEF TypeOK, engine, history
<1>. QED
    BY <1>8, <1>10

LEMMA ReadTyped ==
    ASSUME TypeOK, CallInv, NEW n \in Names, QueryCall(n) \/ StreamCall(n)
    PROVE  TypeOK' /\ CallInv'
<1>1. PICK op \in Reading : /\ Submit(op, n, NoConfig)
                            /\ UNCHANGED <<maps, engine, task, free, history>>
    BY DEF QueryCall, StreamCall, Reading
<1>2. PICK cfg \in Config \cup {NoConfig} : cfg = NoConfig
    OBVIOUS
<1>3. op \in Changing \cup Reading /\ Handed /\ Within /\ Submit(op, n, cfg)
    BY <1>1, <1>2 DEF CallInv
<1>4. job' \in [Jobs -> Job] /\ jobs' \in 0 .. MaxJobs
    BY <1>3, SubmitShape
<1>5. CallInv'
    BY <1>1, <1>3, ReadCall DEF maps
<1>6. TypeOK'
    BY <1>1, <1>4 DEF TypeOK, maps, engine, history
<1>. QED
    BY <1>5, <1>6

LEMMA IdleTyped ==
    ASSUME TypeOK, CallInv, NEW t \in Tasks, RegisterLost(t) \/ Cancel(t)
    PROVE  TypeOK' /\ CallInv'
<1>1. /\ task' = [task EXCEPT ![t] = Idle]
      /\ UNCHANGED <<maps, engine, job, jobs, free, torn, vacated, missed>>
      /\ orphan' = orphan \/ orphan' = [orphan EXCEPT ![task[t].name] = TRUE]
    BY DEF RegisterLost, Cancel, history
<1>2. task' \in [Tasks -> Task] /\ CallInv'
    BY <1>1, IdleShape DEF maps
<1>3. orphan' \in [Names -> BOOLEAN]
    BY <1>1 DEF TypeOK
<1>4. TypeOK'
    BY <1>1, <1>2, <1>3 DEF TypeOK, maps, engine
<1>. QED
    BY <1>2, <1>4

LEMMA ReturnedTyped ==
    ASSUME TypeOK, CallInv, NEW t \in Tasks,
           \/ ReloadDone(t) \/ ReloadFailed(t) \/ RegisterDone(t)
           \/ RegisterFailed(t) \/ UnregisterDone(t)
    PROVE  TypeOK' /\ CallInv'
<1>. USE TaskFields
<1>. DEFINE n == task[t].name
            k == task[t].job
<1>n. n \in Names /\ 0 \in 0 .. MaxJobs + 1 /\ NoConfig \in Config \cup {NoConfig}
    BY Constants
<1>m. \A m \in Names : mutex[m] \in Nat
    BY DEF TypeOK
<1>k. /\ \E op, outcome : outcome \in {"ok", "err"} /\ Returned(t, op, outcome)
      /\ UNCHANGED <<jobs, free>>
    BY DEF ReloadDone, ReloadFailed, RegisterDone, RegisterFailed, UnregisterDone
<1>s. task[t].pc = "block" /\ k \in Jobs
  <2>1. task[t].pc = "block"
      BY <1>k DEF Returned
  <2>2. k \in 1 .. jobs /\ jobs \in 0 .. MaxJobs /\ MaxJobs \in Nat
      BY <2>1, Constants DEF CallInv, Awaits, TypeOK
  <2>. QED
      BY <2>1, <2>2 DEF Jobs
<1>f. job[k].schema \in 0 .. MaxJobs + 1 /\ job[k].rows \in 0 .. MaxJobs + 1
    BY <1>s, JobFields
<1>1. \A m \in Names : mutex'[m] \in Nat /\ mutex'[m] >= mutex[m]
  <2>1. mutex' = mutex \/ mutex' = [mutex EXCEPT ![n] = @ + 1]
      BY DEF ReloadDone, ReloadFailed, RegisterDone, RegisterFailed, UnregisterDone, maps
  <2>. QED
      BY <1>m, <1>n, <2>1 DEF TypeOK
<1>2. job' \in [Jobs -> Job] /\ task' \in [Tasks -> Task] /\ CallInv'
    BY <1>k, <1>1, ReturnedShape
<1>3. CASE ReloadDone(t)
  <2>1. /\ datasets' = [datasets EXCEPT ![n] = job[k].schema]
        /\ row_counts' = [row_counts EXCEPT ![n] = job[k].rows]
        /\ SetStatus(n, "published")
        /\ UNCHANGED <<configs, mutex, engine, jobs, free, history>>
      BY <1>3 DEF ReloadDone
  <2>2. statuses' \in [Names -> DatasetStatus]
      BY <1>n, <2>1, StatusTyped DEF DatasetStatus
  <2>3. TypeOK'
      BY <1>n, <1>f, <1>2, <2>1, <2>2 DEF TypeOK, engine, history
  <2>. QED
      BY <1>2, <2>3
<1>4. CASE ReloadFailed(t)
  <2>1. /\ SetStatus(n, "published") \/ SetStatus(n, "failed")
        /\ UNCHANGED <<configs, datasets, row_counts, mutex, engine, jobs, free, history>>
      BY <1>4 DEF ReloadFailed
  <2>2. statuses' \in [Names -> DatasetStatus]
      BY <1>n, <2>1, StatusTyped DEF DatasetStatus
  <2>3. TypeOK'
      BY <1>2, <2>1, <2>2 DEF TypeOK, engine, history
  <2>. QED
      BY <1>2, <2>3
<1>5. CASE RegisterDone(t)
  <2>1. /\ datasets' = [datasets EXCEPT ![n] = job[k].schema]
        /\ row_counts' = [row_counts EXCEPT ![n] = job[k].rows]
        /\ configs' = [configs EXCEPT ![n] = task[t].cfg]
        /\ statuses' = [statuses EXCEPT ![n] = "published"]
        /\ UNCHANGED <<mutex, engine, jobs, free, history>>
      BY <1>5 DEF RegisterDone
  <2>2. statuses' \in [Names -> DatasetStatus]
      BY <2>1 DEF TypeOK, DatasetStatus
  <2>3. configs' \in [Names -> Config \cup {NoConfig}]
      BY <2>1 DEF TypeOK
  <2>4. TypeOK'
      BY <1>n, <1>f, <1>2, <2>1, <2>2, <2>3 DEF TypeOK, engine, history
  <2>. QED
      BY <1>2, <2>4
<1>6. CASE RegisterFailed(t)
  <2>1. UNCHANGED <<maps, engine, jobs, free, history>>
      BY <1>6 DEF RegisterFailed
  <2>2. TypeOK'
      BY <1>2, <2>1 DEF TypeOK, maps, engine, history
  <2>. QED
      BY <1>2, <2>2
<1>7. CASE UnregisterDone(t)
  <2>1. /\ datasets' = [datasets EXCEPT ![n] = 0]
        /\ row_counts' = [row_counts EXCEPT ![n] = 0]
        /\ configs' = [configs EXCEPT ![n] = NoConfig]
        /\ statuses' = [statuses EXCEPT ![n] = "absent"]
        /\ mutex' = [mutex EXCEPT ![n] = @ + 1]
        /\ dirs' = dirs \/ dirs' = [dirs EXCEPT ![n] = [g \in Gens |-> "none"]]
        /\ UNCHANGED <<relation, view, jobs, free, history>>
      BY <1>7 DEF UnregisterDone
  <2>2. statuses' \in [Names -> DatasetStatus]
      BY <2>1 DEF TypeOK, DatasetStatus
  <2>3. configs' \in [Names -> Config \cup {NoConfig}]
      BY <2>1, <1>n DEF TypeOK
  <2>4. dirs' \in [Names -> [Gens -> Dir]]
    <3>1. [g \in Gens |-> "none"] \in [Gens -> Dir]
        BY DEF Dir
    <3>2. dirs \in [Names -> [Gens -> Dir]]
        BY DEF TypeOK
    <3>. QED
        BY <1>n, <2>1, <3>1, <3>2
  <2>5. mutex' \in [Names -> Nat]
      BY <1>1, <2>1 DEF TypeOK
  <2>6. /\ datasets' \in [Names -> 0 .. MaxJobs + 1]
        /\ row_counts' \in [Names -> 0 .. MaxJobs + 1]
      BY <1>n, <2>1 DEF TypeOK
  <2>7. TypeOK'
      BY <1>2, <2>1, <2>2, <2>3, <2>4, <2>5, <2>6 DEF TypeOK, history
  <2>. QED
      BY <1>2, <2>7
<1>. QED
    BY <1>3, <1>4, <1>5, <1>6, <1>7

-----------------------------------------------------------------------------
(***************************************************************************)
(* Types and connections.                                                  *)
(***************************************************************************)

\* What a start-up build leaves behind.
LEMMA BootFields ==
    ASSUME NEW cfg, NEW b \in BootOutcome(cfg)
    PROVE  /\ b.live \in {0, 1} /\ b.relation \in {0, 1} /\ b.view \in {0, 1}
           /\ b.status \in DatasetStatus
           /\ b.live # 0 => b.relation = b.live
           /\ b.status = "published" => b.live # 0
<1>1. CASE cfg = NoConfig
    BY <1>1 DEF BootOutcome, DatasetStatus
<1>2. CASE cfg # NoConfig
  <2>1. \/ b \in {[live |-> 1, relation |-> 1, status |-> "published", view |-> v] :
                    v \in CASE cfg.form = "lazy" -> {1}
                            [] cfg.form = "auto" -> {0, 1}
                            [] OTHER -> {0}}
        \/ b \in {[live |-> 0, relation |-> r, view |-> 0, status |-> "failed"] :
                    r \in IF cfg.form = "memory" THEN {0, 1} ELSE {0}}
      BY <1>2 DEF BootOutcome
  <2>2. \/ \E v \in {0, 1} : b = [live |-> 1, relation |-> 1, status |-> "published",
                                  view |-> v]
        \/ \E r \in {0, 1} : b = [live |-> 0, relation |-> r, view |-> 0,
                                  status |-> "failed"]
      BY <2>1
  <2>. QED
      BY <2>2 DEF DatasetStatus
<1>. QED
    BY <1>1, <1>2

\* The state of the maps and the engine when the server is up.
LEMMA InitShape ==
    ASSUME Init
    PROVE  /\ datasets \in [Names -> {0, 1}] /\ row_counts = datasets
           /\ statuses \in [Names -> DatasetStatus]
           /\ relation \in [Names -> {0, 1}] /\ view \in [Names -> {0, 1}]
           /\ \A n \in Names : datasets[n] # 0 => relation[n] = datasets[n]
           /\ dirs = [n \in Names |-> [g \in Gens |->
                         IF g = 1 /\ view[n] = 1 THEN "sealed" ELSE "none"]]
<1>1. PICK boot \in [Names -> UNION {BootOutcome(configs[n]) : n \in Names}] :
         /\ \A n \in Names : boot[n] \in BootOutcome(configs[n])
         /\ datasets = [n \in Names |-> boot[n].live]
         /\ row_counts = [n \in Names |-> boot[n].live]
         /\ statuses = [n \in Names |-> boot[n].status]
         /\ relation = [n \in Names |-> boot[n].relation]
         /\ view = [n \in Names |-> boot[n].view]
         /\ dirs = [n \in Names |->
                     [g \in Gens |-> IF g = 1 /\ boot[n].view = 1
                                     THEN "sealed" ELSE "none"]]
    BY Zenon DEF Init
<1>2. \A n \in Names : /\ boot[n].live \in {0, 1} /\ boot[n].relation \in {0, 1}
                       /\ boot[n].view \in {0, 1} /\ boot[n].status \in DatasetStatus
                       /\ boot[n].live # 0 => boot[n].relation = boot[n].live
    BY <1>1, BootFields
<1>. QED
    BY <1>1, <1>2

LEMMA CallInit == Init => TypeOK /\ CallInv
<1>. SUFFICES ASSUME Init PROVE TypeOK /\ CallInv
    OBVIOUS
<1>1. /\ mutex = [n \in Names |-> 0] /\ task = [t \in Tasks |-> Idle]
      /\ job = [j \in Jobs |-> NoJob] /\ jobs = 0 /\ free = PoolSize
      /\ orphan = [n \in Names |-> FALSE] /\ torn = [n \in Names |-> FALSE]
      /\ vacated = [n \in Names |-> FALSE] /\ missed = [n \in Names |-> FALSE]
      /\ configs \in [Names -> Config \cup {NoConfig}]
    BY DEF Init
<1>2. PoolSize \in Nat /\ MaxJobs \in Nat /\ MaxReads \in Nat /\ MaxChanges \in Nat
    BY Constants, PoolAssumption
<1>3. TypeOK
  <2>1. 0 \in 0 .. MaxJobs + 1 /\ 1 \in 0 .. MaxJobs + 1
      BY <1>2
  <2>2. /\ datasets \in [Names -> 0 .. MaxJobs + 1]
        /\ row_counts \in [Names -> 0 .. MaxJobs + 1]
        /\ statuses \in [Names -> DatasetStatus]
        /\ relation \in [Names -> 0 .. MaxJobs + 1]
        /\ view \in [Names -> 0 .. MaxJobs + 1]
      BY <2>1, InitShape
  <2>3. dirs \in [Names -> [Gens -> Dir]]
      BY InitShape DEF Dir
  <2>4. /\ orphan \in [Names -> BOOLEAN] /\ torn \in [Names -> BOOLEAN]
        /\ vacated \in [Names -> BOOLEAN] /\ missed \in [Names -> BOOLEAN]
      BY <1>1
  <2>. QED
      BY <1>1, <1>2, <2>2, <2>3, <2>4, Constants DEF TypeOK
<1>4. \A j \in Jobs : job[j].phase = "none" /\ job[j].op = "none" /\ j > jobs
    BY <1>1, <1>2 DEF NoJob, Jobs
<1>5. Handed
    BY <1>4 DEF Handed, After
<1>6. Within
  <2>1. /\ {j \in 1 .. jobs : job[j].op \in Reading} = {}
        /\ {j \in 1 .. jobs : job[j].op \notin Reading} = {}
      BY <1>1
  <2>2. Cardinality({}) = 0
      BY FS_EmptySet
  <2>3. /\ Cardinality({j \in 1 .. jobs : job[j].op \in Reading}) = 0
        /\ Cardinality({j \in 1 .. jobs : job[j].op \notin Reading}) = 0
      BY <2>1, <2>2
  <2>. QED
      BY <1>2, <2>3 DEF Within
<1>7. PoolAccounted
  <2>1. Holding = {}
      BY <1>4 DEF Holding
  <2>. QED
      BY <1>1, <1>2, <2>1, FS_EmptySet DEF PoolAccounted
<1>8. \A t \in Tasks : task[t].pc = "idle"
    BY <1>1 DEF Idle
<1>9. Awaits /\ Exclusive
    BY <1>8 DEF Awaits, Exclusive, Blocked
<1>. QED
    BY <1>3, <1>5, <1>6, <1>7, <1>9 DEF CallInv

LEMMA CallStep == TypeOK /\ CallInv /\ [Next]_vars => TypeOK' /\ CallInv'
<1>. SUFFICES ASSUME TypeOK, CallInv, [Next]_vars PROVE TypeOK' /\ CallInv'
    OBVIOUS
<1>1. ASSUME NEW t \in Tasks, Call(t) PROVE TypeOK' /\ CallInv'
    BY <1>1, CallTyped
<1>2. ASSUME NEW t \in Tasks, Continue(t) PROVE TypeOK' /\ CallInv'
  <2>1. CASE Acquire(t)
      BY <2>1, AcquireTyped
  <2>2. CASE RegisterLost(t)
      BY <2>2, IdleTyped
  <2>3. CASE \/ ReloadDone(t) \/ ReloadFailed(t) \/ RegisterDone(t)
             \/ RegisterFailed(t) \/ UnregisterDone(t)
      BY <2>3, ReturnedTyped
  <2>. QED
      BY <1>2, <2>1, <2>2, <2>3 DEF Continue
<1>3. ASSUME NEW t \in Tasks, Cancel(t) PROVE TypeOK' /\ CallInv'
    BY <1>3, IdleTyped
<1>4. ASSUME NEW n \in Names, QueryCall(n) \/ StreamCall(n) PROVE TypeOK' /\ CallInv'
    BY <1>4, ReadTyped
<1>5. ASSUME NEW j \in Jobs, JobStep(j) PROVE TypeOK' /\ CallInv'
    BY <1>5, JobTyped
<1>6. CASE UNCHANGED vars
  <2>1. TypeOK'
      BY <1>6 DEF vars, maps, engine, history, TypeOK
  <2>2. CallInv'
      BY <1>6 DEF vars, maps, engine, history, CallInv, Handed, Building, Within,
                  PoolAccounted, Holding, Awaits, Open, Exclusive, Blocked
  <2>. QED
      BY <2>1, <2>2
<1>. QED
    BY <1>1, <1>2, <1>3, <1>4, <1>5, <1>6 DEF Next

LEMMA CallInvHolds == Spec => [](TypeOK /\ CallInv)
<1>1. Init => TypeOK /\ CallInv
    BY CallInit
<1>2. TypeOK /\ CallInv /\ [Next]_vars => (TypeOK /\ CallInv)'
    BY CallStep
<1>. QED
    BY <1>1, <1>2, PTL DEF Spec

\* Every step keeps the types: no closure gets a number outside the bounds,
\* and the pool holds at most its connections (db.rs, DbPool).
THEOREM TypeCorrect == Spec => []TypeOK
BY CallInvHolds, PTL

\* No connection is lost or used twice, whichever statement of a closure
\* fails and whoever drops its caller (DbPool::get, PooledConn::drop).
THEOREM PoolIsAccounted == Spec => []PoolAccounted
<1>1. TypeOK /\ CallInv => PoolAccounted
    BY DEF CallInv
<1>. QED
    BY <1>1, CallInvHolds, PTL

-----------------------------------------------------------------------------
(***************************************************************************)
(* The relations.                                                          *)
(***************************************************************************)

\* The steps that leave the relation, the closures and the callers of n alone.
Apart(n) ==
    /\ relation'[n] = relation[n] /\ view'[n] = view[n] /\ dirs'[n] = dirs[n]
    /\ datasets'[n] = datasets[n] /\ row_counts'[n] = row_counts[n]
    /\ torn'[n] = torn[n] /\ vacated'[n] = vacated[n]
    /\ \A i \in Jobs : Changes(i, n)' => Changes(i, n) /\ job'[i] = job[i]
    /\ \A t \in Tasks : Blocked(t, n)' <=> Blocked(t, n)
    /\ \A t \in Tasks : Blocked(t, n) =>
         /\ task'[t].op = task[t].op /\ task'[t].job = task[t].job
         /\ job'[task[t].job] = job[task[t].job]

LEMMA ApartKeeps ==
    ASSUME NEW n \in Names, EngineOf(n), Apart(n)
    PROVE  EngineOf(n)'
<1>1. Owned(n)'
    BY DEF Apart, EngineOf, Owned
<1>2. Progress(n)'
  <2>1. \A i \in Jobs : Changes(i, n)' => Changes(i, n) /\ job'[i] = job[i]
      BY DEF Apart
  <2>. QED
      BY <2>1 DEF Apart, EngineOf, Progress
<1>3. Result(n)'
    BY DEF Apart, EngineOf, Result, Built
<1>4. Untouched(n)' <=> Untouched(n)
    BY DEF Apart, Untouched
<1>5. MapsInStep(n)'
    BY <1>4 DEF Apart, EngineOf, MapsInStep, HasLive
<1>6. Readable(n)'
    BY DEF Apart, EngineOf, Readable
<1>7. LiveHasRelation(n)'
  <2>1. Removing(n) => Removing(n)'
      BY DEF Apart, Removing, Blocked
  <2>. QED
      BY <2>1 DEF Apart, EngineOf, LiveHasRelation, HasLive
<1>. QED
    BY <1>1, <1>2, <1>3, <1>5, <1>6, <1>7 DEF EngineOf

\* The closure that changes a Serial dataset is alone with its caller.
LEMMA Alone ==
    ASSUME TypeOK, CallInv, NEW n \in Names, Serial(n), Owned(n),
           NEW j \in Jobs, Changes(j, n)
    PROVE  /\ \A i \in Jobs : Changes(i, n) => i = j
           /\ \E t \in Tasks : /\ Blocked(t, n) /\ task[t].job = j
                               /\ \A u \in Tasks : Blocked(u, n) => u = t
<1>1. \A u \in Tasks : Blocked(u, n) => task[u].mutex = 0
  <2>1. mutex[n] = 0
      BY DEF Serial
  <2>. QED
      BY <2>1, TaskFields DEF CallInv, Awaits, Blocked
<1>2. \A t, u \in Tasks : Blocked(t, n) /\ Blocked(u, n) => t = u
    BY <1>1 DEF CallInv, Exclusive
<1>. QED
    BY <1>2 DEF Owned

\* Serial is never regained.
LEMMA SerialBefore ==
    ASSUME TypeOK, CallInv, [Next]_vars, NEW n \in Names, Serial(n)'
    PROVE  Serial(n)
<1>m. mutex[n] \in Nat /\ orphan[n] \in BOOLEAN
    BY DEF TypeOK
<1>1. CASE UNCHANGED <<mutex, orphan>>
    BY <1>1 DEF Serial
<1>2. ASSUME NEW t \in Tasks, UnregisterDone(t) PROVE Serial(n)
  <2>1. mutex' = [mutex EXCEPT ![task[t].name] = @ + 1] /\ orphan' = orphan
      BY <1>2 DEF UnregisterDone, history
  <2>. QED
      BY <1>m, <2>1 DEF Serial, TypeOK
<1>3. ASSUME NEW t \in Tasks, Cancel(t) PROVE Serial(n)
  <2>1. /\ orphan' = orphan \/ orphan' = [orphan EXCEPT ![task[t].name] = TRUE]
        /\ mutex' = mutex
      BY <1>3 DEF Cancel, maps
  <2>. QED
      BY <1>m, <2>1 DEF Serial, TypeOK
<1>4. ASSUME NEW t \in Tasks, Call(t) PROVE UNCHANGED <<mutex, orphan>>
    BY <1>4 DEF Call, ReloadCall, TryReload, RegisterCall, UnregisterCall, maps, history
<1>5. ASSUME NEW t \in Tasks, Continue(t), ~UnregisterDone(t)
      PROVE  UNCHANGED <<mutex, orphan>>
    BY <1>5 DEF Continue, Acquire, RegisterLost, ReloadDone, ReloadFailed, RegisterDone,
                RegisterFailed, maps, history
<1>6. ASSUME NEW m \in Names, QueryCall(m) \/ StreamCall(m) PROVE UNCHANGED <<mutex, orphan>>
    BY <1>6 DEF QueryCall, StreamCall, maps, history
<1>7. ASSUME NEW j \in Jobs, JobStep(j) PROVE UNCHANGED <<mutex, orphan>>
  <2>1. JobMoved(j)
      BY <1>7, JobTyped
  <2>. QED
      BY <2>1 DEF JobMoved, maps
<1>8. UNCHANGED vars => UNCHANGED <<mutex, orphan>>
    BY DEF vars, maps, history
<1>. QED
    BY <1>1, <1>2, <1>3, <1>4, <1>5, <1>6, <1>7, <1>8 DEF Next

\* A step of a closure that cannot change n, which leaves n's relation alone.
LEMMA JobApart ==
    ASSUME TypeOK, CallInv, NEW j \in Jobs, JobMoved(j), NEW n \in Names, ~Changes(j, n),
           relation'[n] = relation[n], view'[n] = view[n], dirs'[n] = dirs[n],
           torn'[n] = torn[n], vacated'[n] = vacated[n]
    PROVE  Apart(n)
<1>1. /\ Open(j) /\ job'[j].op = job[j].op /\ task' = task
      /\ \A i \in Jobs : i # j => job'[i] = job[i]
      /\ datasets' = datasets /\ row_counts' = row_counts
      /\ Open(j)' => job'[j].name = job[j].name
    BY DEF JobMoved, maps
<1>2. ~Changes(j, n)'
    BY <1>1 DEF Changes
<1>3. \A i \in Jobs : Changes(i, n)' => Changes(i, n) /\ job'[i] = job[i]
    BY <1>1, <1>2 DEF Changes, Open
<1>4. \A t \in Tasks : Blocked(t, n) => task[t].job \in Jobs /\ task[t].job # j
  <2>1. jobs \in Nat /\ MaxJobs \in Nat /\ jobs <= MaxJobs
      BY Constants DEF TypeOK
  <2>. QED
      BY <1>1, <2>1 DEF CallInv, Awaits, Blocked, Jobs, Changes
<1>. QED
    BY <1>1, <1>3, <1>4 DEF Apart, Blocked

\* A step of the closure that changes a Serial dataset: what stays.
LEMMA JobAlone ==
    ASSUME TypeOK, CallInv, NEW j \in Jobs, JobMoved(j), NEW n \in Names, Serial(n),
           Owned(n), Changes(j, n)
    PROVE  /\ Owned(n)'
           /\ \A i \in Jobs : Changes(i, n)' => i = j /\ Open(j)'
           /\ datasets' = datasets /\ row_counts' = row_counts /\ task' = task
           /\ \E t \in Tasks :
                /\ Blocked(t, n) /\ task[t].job = j /\ task[t].op = job[j].op
                /\ \A u \in Tasks : Blocked(u, n) => u = t
<1>1. /\ job'[j].op = job[j].op /\ task' = task
      /\ \A i \in Jobs : i # j => job'[i] = job[i]
      /\ datasets' = datasets /\ row_counts' = row_counts
      /\ Open(j)' => job'[j].name = job[j].name
    BY DEF JobMoved, maps
<1>2. \A i \in Jobs : Changes(i, n)' => Changes(i, n)
    BY <1>1 DEF Changes, Open
<1>3. \A i \in Jobs : Changes(i, n) => i = j
    BY Alone
<1>4. PICK t \in Tasks : /\ Blocked(t, n) /\ task[t].job = j
                         /\ \A u \in Tasks : Blocked(u, n) => u = t
    BY Alone
<1>5. task[t].op = job[j].op
    BY <1>4 DEF CallInv, Awaits, Blocked
<1>6. Owned(n)'
    BY <1>1, <1>2 DEF Owned, Blocked
<1>7. \A i \in Jobs : Changes(i, n)' => Open(i)'
    BY DEF Changes
<1>. QED
    BY <1>1, <1>2, <1>3, <1>4, <1>5, <1>6, <1>7

\* What Serial n, its engine and closure j say, in one place.
Mine(j, n) ==
    /\ TypeOK /\ CallInv /\ Past /\ Serial(n) /\ EngineOf(n)
    /\ JobMoved(j) /\ Changes(j, n)

LEMMA MineFields ==
    ASSUME NEW j \in Jobs, NEW n \in Names, Mine(j, n)
    PROVE  /\ relation[n] \in Nat /\ datasets[n] \in Nat /\ view[n] \in 0 .. MaxJobs + 1
           /\ MaxJobs \in Nat /\ j \in Nat /\ Gen(j) = j + 1 /\ Gen(j) \in Gens
           /\ jobs \in Nat /\ j <= jobs
           /\ n = job[j].name /\ n \in Names
<1>1. /\ relation[n] \in 0 .. MaxJobs + 1 /\ datasets[n] \in 0 .. MaxJobs + 1
      /\ view[n] \in 0 .. MaxJobs + 1 /\ jobs \in 0 .. MaxJobs /\ MaxJobs \in Nat
    BY Constants DEF Mine, TypeOK
<1>2. j <= jobs
    BY <1>1 DEF Mine, Changes, Open, CallInv, Handed, Jobs
<1>. QED
    BY <1>1, <1>2, GenTyped DEF Mine, Changes

\* The parts of EngineOf that a step of the closure j of n may disturb.
LEMMA MineKeeps ==
    ASSUME NEW j \in Jobs, NEW n \in Names, Mine(j, n),
           Open(j)' =>
             /\ \A g \in Gens : dirs'[n][g] # "none" => g <= Gen(j)
             /\ job'[j].phase \in Before \cup {"dropped"} => relation'[n] <= j
             /\ job'[j].phase \in {"copied", "viewed"} => dirs'[n][Gen(j)] = "data"
             /\ job'[j].phase \in {"viewed", "sealed"} => view'[n] = Gen(j)
             /\ job'[j].phase = "sealed" => dirs'[n][Gen(j)] = "sealed"
             /\ job'[j].phase \in After => relation'[n] = Gen(j)
             /\ job'[j].phase = "described" => job'[j].schema = Gen(j),
           job'[j].phase = "ok" /\ job[j].op # "unregister" =>
             /\ job'[j].schema = relation'[n] /\ job'[j].rows = relation'[n]
             /\ relation'[n] # 0,
           job'[j].phase \in Before \cup {"err"} /\ ~torn'[n] =>
             /\ job[j].phase \in Before /\ ~torn[n] /\ relation'[n] = relation[n],
           Readable(n)',
           ~vacated'[n] => ~vacated[n],
           ~vacated'[n] => \/ relation'[n] # 0
                           \/ relation'[n] = relation[n]
                           \/ job[j].op = "unregister"
    PROVE  EngineOf(n)'
<1>1. /\ Owned(n)' /\ datasets' = datasets /\ row_counts' = row_counts /\ task' = task
      /\ \A i \in Jobs : Changes(i, n)' => i = j /\ Open(j)'
    BY JobAlone DEF Mine, EngineOf
<1>2. PICK t \in Tasks : /\ Blocked(t, n) /\ task[t].job = j /\ task[t].op = job[j].op
                         /\ \A u \in Tasks : Blocked(u, n) => u = t
    BY JobAlone DEF Mine, EngineOf
<1>3. \A u \in Tasks : Blocked(u, n)' <=> Blocked(u, n)
    BY <1>1 DEF Blocked
<1>4. Progress(n)'
    BY <1>1 DEF Progress
<1>5. Result(n)'
    BY <1>1, <1>2, <1>3 DEF Result, Built
<1>6. MapsInStep(n)'
  <2>1. SUFFICES ASSUME HasLive(n)', ~torn'[n], Untouched(n)'
                 PROVE  relation'[n] = datasets'[n]
      BY <1>1 DEF MapsInStep, Mine, EngineOf
  <2>2. job'[j].phase \in Before \cup {"err"}
      BY <1>1, <1>2, <1>3, <2>1 DEF Untouched
  <2>3. job[j].phase \in Before /\ ~torn[n] /\ relation'[n] = relation[n]
      BY <2>1, <2>2
  <2>4. Untouched(n)
      BY <1>2, <2>3 DEF Untouched
  <2>. QED
      BY <1>1, <2>1, <2>3, <2>4 DEF Mine, EngineOf, MapsInStep, HasLive
<1>7. LiveHasRelation(n)'
  <2>1. job[j].op = "unregister" => Removing(n)'
      BY <1>1, <1>2 DEF Removing, Blocked
  <2>2. Removing(n)' <=> Removing(n)
      BY <1>1 DEF Removing
  <2>. QED
      BY <1>1, <2>1, <2>2 DEF Mine, EngineOf, LiveHasRelation, HasLive
<1>. QED
    BY <1>1, <1>4, <1>5, <1>6, <1>7 DEF EngineOf

\* The collection keeps the directory of the newest manifest.
LEMMA NewestKept ==
    ASSUME NEW n \in Names, NEW g \in Gens, dirs[n][g] = "sealed",
           \A h \in Gens : dirs[n][h] # "none" => h <= g
    PROVE  g \in Keep(n)
<1>1. \A h \in Gens : h \in Nat
    BY Constants DEF Gens
<1>2. g \in HasManifest(n)
    BY DEF HasManifest
<1>3. {h \in HasManifest(n) : h > g} = {}
    BY <1>1 DEF HasManifest
<1>4. Cardinality({h \in HasManifest(n) : h > g}) = 0
    BY <1>3, FS_EmptySet
<1>. QED
    BY <1>2, <1>4 DEF Keep

\* Every step of the closure that changes a Serial dataset keeps its engine.
LEMMA MineStep ==
    ASSUME NEW j \in Jobs, NEW n \in Names, Mine(j, n), JobStep(j)
    PROVE  EngineOf(n)'
<1>f. /\ relation[n] \in Nat /\ MaxJobs \in Nat /\ j \in Nat
      /\ Gen(j) = j + 1 /\ Gen(j) \in Gens /\ n = job[j].name
    BY MineFields
<1>t. /\ TypeOK /\ Handed /\ JobMoved(j)
      /\ relation \in [Names -> 0 .. MaxJobs + 1] /\ view \in [Names -> 0 .. MaxJobs + 1]
      /\ dirs \in [Names -> [Gens -> Dir]]
      /\ torn \in [Names -> BOOLEAN] /\ vacated \in [Names -> BOOLEAN]
    BY DEF Mine, CallInv, TypeOK
<1>p. /\ \A g \in Gens : dirs[n][g] # "none" => g <= Gen(j)
      /\ job[j].phase \in Before \cup {"dropped"} => relation[n] <= j
      /\ job[j].phase \in {"copied", "viewed"} => dirs[n][Gen(j)] = "data"
      /\ job[j].phase \in {"viewed", "sealed"} => view[n] = Gen(j)
      /\ job[j].phase = "sealed" => dirs[n][Gen(j)] = "sealed"
      /\ job[j].phase \in After => relation[n] = Gen(j)
      /\ job[j].phase = "described" => job[j].schema = Gen(j)
      /\ Readable(n)
    BY DEF Mine, EngineOf, Progress
<1>c. job[j].op \in Changing /\ Open(j)
    BY DEF Mine, Changes
<1>1. CASE GetConn(j)
  <2>1. /\ job[j].phase = "conn" /\ job'[j].phase = "run"
        /\ relation' = relation /\ view' = view /\ dirs' = dirs
        /\ torn' = torn /\ vacated' = vacated
      BY <1>1, <1>t DEF GetConn, TypeOK, engine, history
  <2>2. Readable(n)'
      BY <1>p, <2>1 DEF Readable
  <2>. QED
      BY <1>f, <1>p, <2>1, <2>2, MineKeeps DEF Before, After
<1>2. CASE Create(j)
  <2>1. /\ job[j].phase = "run" /\ job'[j].phase = "made"
        /\ relation'[n] = Gen(j) /\ view'[n] = 0 /\ dirs' = dirs
        /\ torn' = torn /\ vacated' = vacated
      BY <1>2, <1>f, <1>t DEF Create, TypeOK, history
  <2>2. Readable(n)'
      BY <2>1 DEF Readable
  <2>. QED
      BY <1>f, <1>p, <2>1, <2>2, MineKeeps DEF Before, After
<1>3. CASE CreateTmp(j)
  <2>1. /\ job[j].phase = "run" /\ job'[j].phase = "tmp"
        /\ relation' = relation /\ view' = view /\ dirs' = dirs
        /\ torn' = torn /\ vacated' = vacated
      BY <1>3, <1>t DEF CreateTmp, TypeOK, engine, history
  <2>2. Readable(n)'
      BY <1>p, <2>1 DEF Readable
  <2>. QED
      BY <1>f, <1>p, <2>1, <2>2, MineKeeps DEF Before, After
<1>4. CASE DropOld(j)
  <2>1. /\ job[j].phase = "tmp" /\ job'[j].phase = "dropped"
        /\ \/ relation'[n] = 0 /\ view'[n] = 0
           \/ relation'[n] = relation[n] /\ view'[n] = view[n]
        /\ dirs' = dirs /\ torn' = torn /\ vacated'[n]
      BY <1>4, <1>f, <1>t DEF DropOld, TypeOK
  <2>2. Readable(n)'
      BY <1>p, <2>1 DEF Readable
  <2>. QED
      BY <1>f, <1>p, <2>1, <2>2, MineKeeps DEF Before, After
<1>5. CASE Rename(j)
  <2>1. /\ job[j].phase = "dropped" /\ job'[j].phase = "made"
        /\ relation'[n] = Gen(j) /\ view' = view /\ dirs' = dirs
        /\ torn' = torn /\ vacated' = vacated
      BY <1>5, <1>f, <1>t DEF Rename, TypeOK, history
  <2>2. Readable(n)'
      BY <1>p, <2>1 DEF Readable
  <2>. QED
      BY <1>f, <1>p, <2>1, <2>2, MineKeeps DEF Before, After
<1>6. CASE Copy(j)
  <2>1. /\ job[j].phase = "tmp" /\ job'[j].phase = "copied"
        /\ relation' = relation /\ view' = view
        /\ dirs'[n][Gen(j)] = "data"
        /\ \A g \in Gens : g # Gen(j) => dirs'[n][g] = dirs[n][g]
        /\ torn' = torn /\ vacated' = vacated
      BY <1>6, <1>f, <1>t DEF Copy, TypeOK, history
  <2>2. Readable(n)'
    <3>1. view[n] # 0 => view[n] \in Gens
        BY <1>f, <1>t DEF Gens
    <3>. QED
        BY <1>p, <2>1, <3>1 DEF Readable
  <2>. QED
      BY <1>f, <1>p, <2>1, <2>2, MineKeeps DEF Before, After
<1>7. CASE CreateView(j)
  <2>1. /\ job[j].phase = "copied" /\ job'[j].phase = "viewed"
        /\ relation'[n] = Gen(j) /\ view'[n] = Gen(j) /\ dirs' = dirs
        /\ torn' = torn /\ vacated' = vacated
      BY <1>7, <1>f, <1>t DEF CreateView, TypeOK, history
  <2>2. Readable(n)'
      BY <1>p, <2>1 DEF Readable
  <2>. QED
      BY <1>f, <1>p, <2>1, <2>2, MineKeeps DEF Before, After
<1>8. CASE Seal(j)
  <2>1. /\ job[j].phase = "viewed" /\ job'[j].phase = "sealed"
        /\ relation' = relation /\ view' = view
        /\ dirs'[n][Gen(j)] = IF dirs[n][Gen(j)] = "data" THEN "sealed" ELSE "hollow"
        /\ \A g \in Gens : g # Gen(j) => dirs'[n][g] = dirs[n][g]
        /\ torn' = torn /\ vacated' = vacated
      BY <1>8, <1>f, <1>t DEF Seal, TypeOK, history
  <2>2. dirs'[n][Gen(j)] = "sealed" /\ view[n] = Gen(j) /\ relation[n] = Gen(j)
      BY <1>p, <2>1 DEF After
  <2>3. Readable(n)'
      BY <2>1, <2>2 DEF Readable
  <2>. QED
      BY <1>f, <1>p, <2>1, <2>2, <2>3, MineKeeps DEF Before, After
<1>9. CASE Gc(j)
  <2>1. /\ job[j].phase = "sealed" /\ job'[j].phase = "made"
        /\ relation' = relation /\ view' = view
        /\ torn' = torn /\ vacated' = vacated
      BY <1>9, <1>f, <1>t DEF Gc, TypeOK, history
  <2>2. dirs[n][Gen(j)] = "sealed" /\ view[n] = Gen(j) /\ relation[n] = Gen(j)
      BY <1>p, <2>1 DEF After
  <2>3. Gen(j) \in Keep(n)
      BY <1>f, <1>p, <2>2, NewestKept
  <2>4. PICK K \in {Keep(n), Gens} :
            dirs' = [dirs EXCEPT ![n] = [g \in Gens |-> IF g \in K THEN @[g] ELSE "none"]]
      BY <1>9, <1>f DEF Gc
  <2>5. Gen(j) \in K
      BY <1>f, <2>3
  <2>6. \A g \in Gens : dirs'[n][g] = IF g \in K THEN dirs[n][g] ELSE "none"
      BY <1>t, <2>4
  <2>7. Readable(n)'
      BY <1>f, <2>1, <2>2, <2>5, <2>6 DEF Readable
  <2>. QED
      BY <1>f, <1>p, <2>1, <2>2, <2>6, <2>7, MineKeeps DEF Before, After
<1>10. CASE Describe(j)
  <2>1. /\ job[j].phase = "made" /\ job'[j].phase = "described"
        /\ job'[j].schema = relation[n]
        /\ relation' = relation /\ view' = view /\ dirs' = dirs
        /\ torn' = torn /\ vacated' = vacated
    <3>1. job[j] \in Job
        BY <1>t DEF TypeOK
    <3>. QED
        BY <1>10, <1>f, <1>t, <3>1 DEF Describe, TypeOK, engine, history, Job
  <2>2. Readable(n)'
      BY <1>p, <2>1 DEF Readable
  <2>. QED
      BY <1>f, <1>p, <2>1, <2>2, MineKeeps DEF Before, After
<1>11. CASE Count(j)
  <2>1. /\ job[j].phase = "described" /\ relation[n] # 0
        /\ job' = [job EXCEPT ![j] = Ended(j, "ok", job[j].schema, relation[n])]
        /\ relation' = relation /\ view' = view /\ dirs' = dirs
        /\ torn' = torn /\ vacated' = vacated
      BY <1>11, <1>f DEF Count, engine, history
  <2>2. /\ job'[j].phase = "ok" /\ job'[j].schema = job[j].schema
        /\ job'[j].rows = relation[n] /\ ~Open(j)'
    <3>1. relation[n] \in 0 .. MaxJobs + 1 /\ job[j].schema \in 0 .. MaxJobs + 1
        BY <1>t, JobFields
    <3>. QED
        BY <1>t, <2>1, <3>1, ReturnMoves
  <2>3. Readable(n)'
      BY <1>p, <2>1 DEF Readable
  <2>. QED
      BY <1>f, <1>p, <2>1, <2>2, <2>3, MineKeeps DEF Before, After
<1>12. CASE BuildFails(j)
  <2>1. /\ job' = [job EXCEPT ![j] = Ended(j, "err", 0, 0)]
        /\ job[j].phase \notin {"conn", "ok", "err"}
        /\ job[j].phase \in {"run", "tmp", "copied"} => torn'[n] = torn[n]
        /\ job[j].phase \notin {"run", "tmp", "copied"} => torn'[n]
        /\ relation' = relation /\ view' = view /\ dirs' = dirs
        /\ vacated' = vacated
      BY <1>12, <1>f, <1>t DEF BuildFails, Return, engine
  <2>2. job'[j].phase = "err" /\ ~Open(j)'
    <3>1. 0 \in 0 .. MaxJobs + 1
        BY <1>f
    <3>. QED
        BY <1>t, <2>1, <3>1, ReturnMoves
  <2>3. Readable(n)'
      BY <1>p, <2>1 DEF Readable
  <2>. QED
      BY <1>f, <1>p, <2>1, <2>2, <2>3, MineKeeps DEF Before, After
<1>13. CASE DropRelation(j)
  <2>1. /\ job[j].op = "unregister"
        /\ job' = [job EXCEPT ![j] = Ended(j, "ok", 0, 0)]
        /\ \/ relation'[n] = 0 /\ view'[n] = 0
           \/ relation'[n] = relation[n] /\ view'[n] = view[n]
        /\ dirs' = dirs /\ torn' = torn /\ vacated' = vacated
      BY <1>13, <1>f, <1>t DEF DropRelation, Return, history
  <2>2. job'[j].phase = "ok" /\ ~Open(j)'
    <3>1. 0 \in 0 .. MaxJobs + 1
        BY <1>f
    <3>. QED
        BY <1>t, <2>1, <3>1, ReturnMoves
  <2>3. Readable(n)'
      BY <1>p, <2>1 DEF Readable
  <2>. QED
      BY <1>f, <1>p, <2>1, <2>2, <2>3, MineKeeps DEF Before, After
<1>14. ~Read(j) /\ ~StreamEnd(j)
    BY <1>c, <1>t DEF Read, StreamEnd, Reading, Changing, Handed
<1>. QED
    BY <1>1, <1>2, <1>3, <1>4, <1>5, <1>6, <1>7, <1>8, <1>9, <1>10, <1>11, <1>12,
       <1>13, <1>14 DEF JobStep

\* A step of a closure changes the relation of its own dataset only, and only
\* if it is one that may.
LEMMA JobElsewhere ==
    ASSUME TypeOK, CallInv, NEW j \in Jobs, JobStep(j), NEW n \in Names, ~Changes(j, n)
    PROVE  /\ relation'[n] = relation[n] /\ view'[n] = view[n] /\ dirs'[n] = dirs[n]
           /\ torn'[n] = torn[n] /\ vacated'[n] = vacated[n]
<1>. USE JobFields
<1>t. /\ relation \in [Names -> 0 .. MaxJobs + 1] /\ view \in [Names -> 0 .. MaxJobs + 1]
      /\ dirs \in [Names -> [Gens -> Dir]] /\ Handed
      /\ torn \in [Names -> BOOLEAN] /\ vacated \in [Names -> BOOLEAN]
    BY DEF TypeOK, CallInv
<1>o. Open(j)
    BY JobTyped DEF JobMoved
<1>1. CASE job[j].op \in Reading
  <2>1. ~Building(j) /\ job[j].op # "unregister"
        /\ job[j].phase \notin After \cup {"tmp", "copied", "dropped"}
      BY <1>1, <1>t DEF Building, Reading, Handed
  <2>2. GetConn(j) \/ Read(j) \/ StreamEnd(j)
      BY <2>1 DEF JobStep, Create, CreateTmp, DropOld, Rename, Copy, CreateView, Seal, Gc,
                  Describe, Count, BuildFails, DropRelation, After
  <2>. QED
      BY <2>2 DEF GetConn, Read, StreamEnd, engine, history
<1>2. CASE job[j].op \notin Reading
  <2>1. job[j].op \in Changing
      BY <1>2, <1>t, <1>o DEF Handed, Open, Reading, Changing
  <2>2. job[j].name # n
      BY <1>o, <2>1 DEF Changes
  <2>3. CASE Gc(j)
    <3>1. PICK K : dirs' = [dirs EXCEPT ![job[j].name] =
                    [g \in Gens |-> IF g \in K THEN @[g] ELSE "none"]]
        BY <2>3 DEF Gc
    <3>2. relation' = relation /\ view' = view /\ torn' = torn /\ vacated' = vacated
        BY <2>3 DEF Gc, history
    <3>. QED
        BY <1>t, <2>2, <3>1, <3>2
  <2>4. CASE GetConn(j) \/ CreateTmp(j) \/ Describe(j) \/ Count(j) \/ Read(j) \/ StreamEnd(j)
      BY <2>4 DEF GetConn, CreateTmp, Describe, Count, Read, StreamEnd, engine, history
  <2>5. CASE Create(j) \/ Rename(j) \/ CreateView(j)
      BY <1>t, <2>2, <2>5 DEF Create, Rename, CreateView, history
  <2>6. CASE DropOld(j) \/ DropRelation(j)
      BY <1>t, <2>2, <2>6 DEF DropOld, DropRelation, history
  <2>7. CASE Copy(j) \/ Seal(j)
      BY <1>t, <2>2, <2>7 DEF Copy, Seal, history
  <2>8. CASE BuildFails(j)
      BY <1>t, <2>2, <2>8 DEF BuildFails, engine
  <2>. QED
      BY <2>3, <2>4, <2>5, <2>6, <2>7, <2>8 DEF JobStep
<1>. QED
    BY <1>1, <1>2

LEMMA JobPast ==
    ASSUME TypeOK, CallInv, Past, NEW j \in Jobs, JobStep(j)
    PROVE  Past'
<1>. USE JobFields
<1>t. /\ relation \in [Names -> 0 .. MaxJobs + 1]
      /\ dirs \in [Names -> [Gens -> Dir]] /\ Handed
      /\ Gen(j) = j + 1 /\ j \in Nat /\ Gen(j) \in Gens
      /\ jobs \in Nat /\ MaxJobs \in Nat
    BY Constants, GenTyped DEF TypeOK, CallInv
<1>j. jobs' = jobs /\ j <= jobs
  <2>1. Open(j) /\ jobs' = jobs
      BY JobTyped DEF JobMoved
  <2>. QED
      BY <1>t, <2>1 DEF Open, Handed, Jobs
<1>d. \A n \in Names : relation[n] \in Nat
    BY <1>t
<1>1. \A n \in Names : relation'[n] \in {relation[n], 0, Gen(j)}
  <2>1. CASE relation' = relation
      BY <2>1
  <2>2. CASE \E m \in Names : \/ relation' = [relation EXCEPT ![m] = Gen(j)]
                              \/ relation' = [relation EXCEPT ![m] = 0]
      BY <1>t, <2>2
  <2>. QED
      BY <2>1, <2>2 DEF JobStep, GetConn, Create, CreateTmp, DropOld, Rename, Copy,
         CreateView, Seal, Gc, Describe, Count, BuildFails, DropRelation, Read, StreamEnd,
         engine
<1>2. \A n \in Names : \A g \in Gens :
          dirs'[n][g] # "none" => dirs[n][g] # "none" \/ g = Gen(j)
  <2>1. CASE dirs' = dirs
      BY <2>1
  <2>2. CASE Copy(j) \/ Seal(j)
    <3>1. PICK d : dirs' = [dirs EXCEPT ![job[j].name][Gen(j)] = d]
        BY <2>2 DEF Copy, Seal
    <3>. QED
        BY <1>t, <3>1
  <2>3. CASE Gc(j)
    <3>1. PICK K : dirs' = [dirs EXCEPT ![job[j].name] =
                    [g \in Gens |-> IF g \in K THEN @[g] ELSE "none"]]
        BY <2>3 DEF Gc
    <3>. QED
        BY <1>t, <3>1
  <2>4. dirs' = dirs \/ Copy(j) \/ Seal(j) \/ Gc(j)
      BY DEF JobStep, GetConn, Create, CreateTmp, DropOld, Rename, CreateView, Describe,
             Count, BuildFails, DropRelation, Read, StreamEnd, engine
  <2>. QED
      BY <2>1, <2>2, <2>3, <2>4
<1>. QED
    BY <1>t, <1>j, <1>d, <1>1, <1>2 DEF Past

\* The queries.
LEMMA JobQueries ==
    ASSUME TypeOK, CallInv, NEW j \in Jobs, JobStep(j), NEW n \in Names,
           EngineOf(n), QueryLive(n), NotMissed(n)
    PROVE  QueryLive(n)' /\ NotMissed(n)'
<1>. USE JobFields
<1>1. /\ job'[j].op = job[j].op /\ datasets' = datasets /\ Open(j)
      /\ \A i \in Jobs : i # j => job'[i] = job[i]
      /\ Open(j)' => job'[j].name = job[j].name
    BY JobTyped DEF JobMoved, maps
<1>2. QueryLive(n)'
    BY <1>1 DEF QueryLive, Open, HasLive
<1>t. vacated \in [Names -> BOOLEAN] /\ missed \in [Names -> BOOLEAN]
    BY DEF TypeOK
<1>3. vacated[n] => vacated'[n]
  <2>1. vacated' = vacated \/ vacated' = [vacated EXCEPT ![job[j].name] = TRUE]
      BY DEF JobStep, GetConn, Create, CreateTmp, DropOld, Rename, Copy, CreateView, Seal,
             Gc, Describe, Count, BuildFails, DropRelation, Read, StreamEnd, history
  <2>. QED
      BY <1>t, <2>1
<1>4. CASE missed' = missed
    BY <1>2, <1>3, <1>4 DEF NotMissed
<1>5. CASE missed' # missed
  <2>1. /\ job[j].op = "query" /\ relation[job[j].name] = 0 /\ ~Removing(job[j].name)
        /\ missed' = [missed EXCEPT ![job[j].name] = TRUE]
      BY <1>5 DEF JobStep, GetConn, Create, CreateTmp, DropOld, Rename, Copy, CreateView,
             Seal, Gc, Describe, Count, BuildFails, DropRelation, Read, StreamEnd, history
  <2>2. CASE job[j].name = n
    <3>1. HasLive(n)
        BY <1>1, <2>1, <2>2 DEF QueryLive
    <3>2. vacated[n]
        BY <2>1, <2>2, <3>1 DEF EngineOf, LiveHasRelation
    <3>. QED
        BY <1>2, <1>3, <3>2 DEF NotMissed
  <2>3. CASE job[j].name # n
      BY <1>2, <1>3, <1>t, <2>1, <2>3 DEF NotMissed
  <2>. QED
      BY <2>2, <2>3
<1>. QED
    BY <1>2, <1>4, <1>5

LEMMA JobData ==
    ASSUME TypeOK, IndInv, NEW j \in Jobs, JobStep(j)
    PROVE  DataInv'
<1>1. CallInv /\ Past /\ JobMoved(j)
    BY JobTyped DEF IndInv, DataInv
<1>2. Past'
    BY <1>1, JobPast
<1>3. ASSUME NEW n \in Names, Serial(n)'
      PROVE  EngineOf(n)' /\ QueryLive(n)' /\ NotMissed(n)'
  <2>1. Serial(n)
      BY <1>1, <1>3 DEF Serial, JobMoved, maps
  <2>2. EngineOf(n) /\ QueryLive(n) /\ NotMissed(n)
      BY <2>1 DEF IndInv, DataInv
  <2>3. EngineOf(n)'
    <3>1. CASE Changes(j, n)
        BY <1>1, <2>1, <2>2, <3>1, MineStep DEF Mine
    <3>2. CASE ~Changes(j, n)
        BY <1>1, <2>2, <3>2, JobElsewhere, JobApart, ApartKeeps
    <3>. QED
        BY <3>1, <3>2
  <2>. QED
      BY <1>1, <2>2, <2>3, JobQueries
<1>. QED
    BY <1>2, <1>3 DEF DataInv

\* A task that takes the mutex of n finds nobody else changing n.
LEMMA SubmitData ==
    ASSUME TypeOK, IndInv, NEW t \in Tasks, NEW n \in Names, NEW op \in Changing,
           NEW cfg \in Config \cup {NoConfig}, NEW m \in Nat, m <= mutex[n],
           ~Held(n, m), Submit(op, n, cfg), task[t].pc # "block",
           task'[t].op = op, task'[t].name = n, task'[t].pc = "block",
           task'[t].job = jobs + 1,
           \A u \in Tasks : u # t => task'[u] = task[u],
           UNCHANGED <<datasets, row_counts, mutex, engine, history>>
    PROVE  DataInv'
<1>s. /\ jobs' = jobs + 1 /\ jobs + 1 \in Jobs
      /\ job'[jobs + 1] = [op |-> op, name |-> n, cfg |-> cfg, phase |-> "conn",
                           schema |-> 0, rows |-> 0]
      /\ \A i \in Jobs : i # jobs + 1 => job'[i] = job[i]
    BY SubmitShape DEF IndInv, CallInv
<1>t. /\ jobs \in Nat /\ MaxJobs \in Nat /\ jobs <= MaxJobs
      /\ relation' = relation /\ view' = view /\ dirs' = dirs /\ orphan' = orphan
      /\ torn' = torn /\ vacated' = vacated /\ missed' = missed
      /\ \A x \in Names : relation[x] \in Nat /\ mutex[x] \in Nat
    BY Constants DEF TypeOK, engine, history
<1>o. ~Open(jobs + 1)
    BY <1>s, <1>t DEF IndInv, CallInv, Handed, Open
<1>b. \A u \in Tasks : task[u].pc = "block" =>
          u # t /\ task[u].job \in Jobs /\ task[u].job # jobs + 1
    BY <1>t DEF IndInv, CallInv, Awaits, Jobs
<1>1. Past'
  <2>1. \A g \in Gens : g \in Nat
      BY <1>t DEF Gens
  <2>. QED
      BY <1>s, <1>t, <2>1 DEF IndInv, DataInv, Past
<1>2. ASSUME NEW x \in Names, Serial(x)'
      PROVE  EngineOf(x)' /\ QueryLive(x)' /\ NotMissed(x)'
  <2>1. Serial(x)
      BY <1>2, <1>t DEF Serial
  <2>2. EngineOf(x) /\ QueryLive(x) /\ NotMissed(x)
      BY <2>1 DEF IndInv, DataInv
  <2>3. QueryLive(x)'
      BY <1>s, <2>2 DEF QueryLive, Open, HasLive, Changing
  <2>4. NotMissed(x)'
      BY <1>t, <2>2 DEF NotMissed
  <2>5. CASE x # n
    <3>1. \A i \in Jobs : Changes(i, x)' => Changes(i, x) /\ job'[i] = job[i]
        BY <1>s, <2>5 DEF Changes, Open
    <3>2. \A u \in Tasks : Blocked(u, x)' <=> Blocked(u, x)
        BY <2>5 DEF Blocked
    <3>3. \A u \in Tasks : Blocked(u, x) =>
            /\ task'[u].op = task[u].op /\ task'[u].job = task[u].job
            /\ job'[task[u].job] = job[task[u].job]
        BY <1>s, <1>b DEF Blocked
    <3>4. Apart(x)
        BY <1>t, <3>1, <3>2, <3>3 DEF Apart
    <3>. QED
        BY <2>2, <2>3, <2>4, <3>4, ApartKeeps
  <2>6. CASE x = n
    <3>1. \A u \in Tasks : ~Blocked(u, n)
      <4>1. m = 0 /\ mutex[n] = 0
          BY <2>1, <2>6 DEF Serial
      <4>2. \A u \in Tasks : Blocked(u, n) => task[u].mutex = 0
          BY <4>1, TaskFields DEF IndInv, CallInv, Awaits, Blocked
      <4>. QED
          BY <4>1, <4>2 DEF Held, Blocked
    <3>2. \A i \in Jobs : ~Changes(i, n)
        BY <2>2, <2>6, <3>1 DEF EngineOf, Owned
    <3>3. \A i \in Jobs : Changes(i, n)' => i = jobs + 1
        BY <1>s, <3>2 DEF Changes, Open
    <3>4. \A u \in Tasks : Blocked(u, n)' <=> u = t
        BY <3>1 DEF Blocked
    <3>5. Owned(n)'
        BY <3>3, <3>4 DEF Owned
    <3>6. Progress(n)'
      <4>1. Gen(jobs + 1) = jobs + 2 /\ \A g \in Gens : g \in Nat
          BY <1>t DEF Gen, Gens
      <4>2. /\ relation'[n] <= jobs + 1
            /\ \A g \in Gens : dirs'[n][g] # "none" => g <= Gen(jobs + 1)
          BY <1>t, <4>1 DEF IndInv, DataInv, Past
      <4>. QED
          BY <1>s, <3>3, <4>2 DEF Progress, Before, After
    <3>7. Result(n)'
        BY <1>s, <3>4 DEF Result, Built
    <3>8. MapsInStep(n)'
      <4>1. Untouched(n)
          BY <3>1 DEF Untouched
      <4>. QED
          BY <1>t, <2>2, <2>6, <4>1 DEF EngineOf, MapsInStep, HasLive
    <3>9. Readable(n)'
        BY <1>t, <2>2, <2>6 DEF EngineOf, Readable
    <3>10. LiveHasRelation(n)'
      <4>1. ~Removing(n)
          BY <3>1 DEF Removing, Blocked
      <4>. QED
          BY <1>t, <2>2, <2>6, <4>1 DEF EngineOf, LiveHasRelation, HasLive
    <3>. QED
        BY <2>3, <2>4, <2>6, <3>5, <3>6, <3>7, <3>8, <3>9, <3>10 DEF EngineOf
  <2>. QED
      BY <2>5, <2>6
<1>. QED
    BY <1>1, <1>2 DEF DataInv

\* A step that leaves the relations, the closures and whoever awaits one of a
\* Serial dataset alone.
LEMMA QuietData ==
    ASSUME TypeOK, IndInv, UNCHANGED <<datasets, row_counts, engine, job, jobs>>,
           UNCHANGED <<torn, vacated, missed>>,
           \A n \in Names : Serial(n)' =>
             /\ Serial(n)
             /\ \A u \in Tasks : Blocked(u, n)' <=> Blocked(u, n)
             /\ \A u \in Tasks : Blocked(u, n) => task'[u] = task[u]
    PROVE  DataInv'
<1>1. relation' = relation /\ view' = view /\ dirs' = dirs
    BY DEF engine
<1>2. Past'
    BY <1>1 DEF IndInv, DataInv, Past
<1>3. ASSUME NEW n \in Names, Serial(n)'
      PROVE  EngineOf(n)' /\ QueryLive(n)' /\ NotMissed(n)'
  <2>1. EngineOf(n) /\ QueryLive(n) /\ NotMissed(n)
      BY <1>3 DEF IndInv, DataInv
  <2>2. \A i \in Jobs : Changes(i, n)' <=> Changes(i, n)
      BY DEF Changes, Open
  <2>3. Apart(n)
      BY <1>1, <1>3, <2>2 DEF Apart
  <2>4. QueryLive(n)' /\ NotMissed(n)'
      BY <2>1 DEF QueryLive, NotMissed, Open, HasLive
  <2>. QED
      BY <2>1, <2>3, <2>4, ApartKeeps
<1>. QED
    BY <1>2, <1>3 DEF DataInv

LEMMA CallData ==
    ASSUME TypeOK, IndInv, NEW t \in Tasks, Call(t)
    PROVE  DataInv'
<1>1. PICK n \in Names : \/ ReloadCall(t, n)
                         \/ TryReload(t, n)
                         \/ \E cfg \in Config : RegisterCall(t, n, cfg)
                         \/ UnregisterCall(t, n)
    BY DEF Call
<1>2. configs[n] \in Config \cup {NoConfig} /\ mutex[n] \in Nat /\ mutex[n] <= mutex[n]
    BY DEF TypeOK
<1>3. CASE TryReload(t, n)
  <2>1. /\ task[t].pc = "idle" /\ ~Held(n, mutex[n]) /\ Submit("reload", n, configs[n])
        /\ task' = [task EXCEPT ![t] =
                      [op |-> "reload", name |-> n, cfg |-> configs[n],
                       pc |-> "block", mutex |-> mutex[n], job |-> jobs + 1]]
        /\ UNCHANGED <<datasets, row_counts, mutex, engine, history>>
      BY <1>3 DEF TryReload
  <2>2. /\ task'[t] = [op |-> "reload", name |-> n, cfg |-> configs[n],
                       pc |-> "block", mutex |-> mutex[n], job |-> jobs + 1]
        /\ \A u \in Tasks : u # t => task'[u] = task[u]
      BY <2>1 DEF TypeOK
  <2>. QED
      BY <1>2, <2>1, <2>2, SubmitData DEF Changing
<1>4. CASE ~TryReload(t, n)
  <2>1. PICK op, cfg : /\ AskMutex(t, op, n, cfg) /\ task[t].pc = "idle"
                       /\ UNCHANGED <<maps, engine, job, jobs, free, history>>
      BY <1>1, <1>4 DEF ReloadCall, RegisterCall, UnregisterCall
  <2>2. task'[t].pc = "lock" /\ \A u \in Tasks : u # t => task'[u] = task[u]
      BY <2>1 DEF AskMutex, TypeOK
  <2>3. \A x \in Names : Serial(x)' =>
             /\ Serial(x)
             /\ \A u \in Tasks : Blocked(u, x)' <=> Blocked(u, x)
             /\ \A u \in Tasks : Blocked(u, x) => task'[u] = task[u]
      BY <2>1, <2>2 DEF Serial, Blocked, maps, history
  <2>. QED
      BY <2>1, <2>3, QuietData DEF maps, history
<1>. QED
    BY <1>3, <1>4

LEMMA AcquireData ==
    ASSUME TypeOK, IndInv, NEW t \in Tasks, Acquire(t)
    PROVE  DataInv'
<1>. USE TaskFields
<1>. DEFINE n == task[t].name
<1>1. /\ task[t].pc = "lock" /\ ~Held(n, task[t].mutex)
      /\ Submit(task[t].op, n, task[t].cfg)
      /\ task' = [task EXCEPT ![t].pc = "block", ![t].job = jobs + 1]
      /\ UNCHANGED <<datasets, row_counts, mutex, engine, history>>
    BY DEF Acquire
<1>2. n \in Names /\ task[t].op \in Changing /\ task[t].mutex <= mutex[n]
    BY <1>1 DEF IndInv, CallInv, Awaits
<1>3. /\ task'[t].op = task[t].op /\ task'[t].name = n
      /\ task'[t].pc = "block" /\ task'[t].job = jobs + 1
    BY <1>1 DEF TypeOK, Task
<1>4. \A u \in Tasks : u # t => task'[u] = task[u]
    BY <1>1 DEF TypeOK
<1>. QED
    BY <1>1, <1>2, <1>3, <1>4, SubmitData

LEMMA IdleData ==
    ASSUME TypeOK, IndInv, NEW t \in Tasks, RegisterLost(t) \/ Cancel(t)
    PROVE  DataInv'
<1>1. /\ task' = [task EXCEPT ![t] = Idle]
      /\ UNCHANGED <<maps, engine, job, jobs, torn, vacated, missed>>
    BY DEF RegisterLost, Cancel, history
<1>2. task'[t].pc = "idle" /\ \A u \in Tasks : u # t => task'[u] = task[u]
    BY <1>1 DEF TypeOK, Idle
<1>3. \/ task[t].pc = "lock" /\ orphan' = orphan
      \/ orphan' = [orphan EXCEPT ![task[t].name] = TRUE]
    BY TaskFields DEF RegisterLost, Cancel, history
<1>4. task[t].name \in Names /\ orphan \in [Names -> BOOLEAN]
    BY TaskFields DEF TypeOK
<1>5. ASSUME NEW n \in Names, Serial(n)'
      PROVE  /\ Serial(n)
             /\ \A u \in Tasks : Blocked(u, n)' <=> Blocked(u, n)
             /\ \A u \in Tasks : Blocked(u, n) => task'[u] = task[u]
  <2>1. CASE task[t].pc = "lock" /\ orphan' = orphan
      BY <1>1, <1>2, <1>5, <2>1 DEF Serial, Blocked, maps
  <2>2. CASE orphan' = [orphan EXCEPT ![task[t].name] = TRUE]
    <3>1. task[t].name # n /\ Serial(n)
        BY <1>1, <1>4, <1>5, <2>2 DEF Serial, maps
    <3>. QED
        BY <1>2, <3>1 DEF Blocked
  <2>. QED
      BY <1>3, <2>1, <2>2
<1>. QED
    BY <1>1, <1>5, QuietData DEF maps

LEMMA ReadData ==
    ASSUME TypeOK, IndInv, NEW n \in Names, QueryCall(n) \/ StreamCall(n)
    PROVE  DataInv'
<1>1. PICK op \in Reading : /\ Submit(op, n, NoConfig) /\ HasLive(n)
                            /\ UNCHANGED <<maps, engine, task, free, history>>
    BY DEF QueryCall, StreamCall, Reading
<1>2. PICK cfg \in Config \cup {NoConfig} : cfg = NoConfig
    OBVIOUS
<1>3. op \in Changing \cup Reading /\ Handed /\ Within /\ Submit(op, n, cfg)
    BY <1>1, <1>2 DEF IndInv, CallInv
<1>s. /\ jobs' = jobs + 1 /\ jobs + 1 \in Jobs
      /\ job'[jobs + 1] = [op |-> op, name |-> n, cfg |-> cfg, phase |-> "conn",
                           schema |-> 0, rows |-> 0]
      /\ \A i \in Jobs : i # jobs + 1 => job'[i] = job[i]
    BY <1>3, SubmitShape
<1>t. /\ jobs \in Nat /\ MaxJobs \in Nat /\ jobs <= MaxJobs
      /\ relation' = relation /\ view' = view /\ dirs' = dirs /\ orphan' = orphan
      /\ torn' = torn /\ vacated' = vacated /\ missed' = missed /\ mutex' = mutex
      /\ datasets' = datasets /\ row_counts' = row_counts /\ task' = task
      /\ \A x \in Names : relation[x] \in Nat
    BY <1>1, Constants DEF TypeOK, engine, history, maps
<1>b. \A u \in Tasks : task[u].pc = "block" => task[u].job \in Jobs /\ task[u].job # jobs + 1
    BY <1>t DEF IndInv, CallInv, Awaits, Jobs
<1>4. Past'
  <2>1. \A g \in Gens : g \in Nat
      BY <1>t DEF Gens
  <2>. QED
      BY <1>s, <1>t, <2>1 DEF IndInv, DataInv, Past
<1>5. ASSUME NEW x \in Names, Serial(x)'
      PROVE  EngineOf(x)' /\ QueryLive(x)' /\ NotMissed(x)'
  <2>1. EngineOf(x) /\ QueryLive(x) /\ NotMissed(x)
      BY <1>5, <1>t DEF Serial, IndInv, DataInv
  <2>2. \A i \in Jobs : Changes(i, x)' => Changes(i, x) /\ job'[i] = job[i]
      BY <1>s DEF Changes, Open, Changing, Reading
  <2>3. Apart(x)
      BY <1>s, <1>t, <1>b, <2>2 DEF Apart, Blocked
  <2>4. QueryLive(x)' /\ NotMissed(x)'
      BY <1>1, <1>s, <1>t, <2>1 DEF QueryLive, NotMissed, Open, HasLive
  <2>. QED
      BY <2>1, <2>3, <2>4, ApartKeeps
<1>. QED
    BY <1>4, <1>5 DEF DataInv

\* A caller that takes the result of its closure.
LEMMA ReturnedData ==
    ASSUME TypeOK, IndInv, NEW t \in Tasks,
           \/ ReloadDone(t) \/ ReloadFailed(t) \/ RegisterDone(t)
           \/ RegisterFailed(t) \/ UnregisterDone(t)
    PROVE  DataInv'
<1>p. task[t].pc = "block"
    BY DEF ReloadDone, ReloadFailed, RegisterDone, RegisterFailed, UnregisterDone, Returned
<1>b. \A u \in Tasks : task[u].pc = "block" => task[u].job \in Jobs
  <2>1. jobs \in Nat /\ MaxJobs \in Nat /\ jobs <= MaxJobs
      BY Constants DEF TypeOK
  <2>. QED
      BY <2>1 DEF IndInv, CallInv, Awaits, Jobs
<1>n. PICK n \in Names, k \in Jobs : n = task[t].name /\ k = task[t].job
    BY <1>p, <1>b, TaskFields
<1>u. /\ \/ /\ task[t].op # "unregister" /\ job[k].phase = "ok" /\ mutex' = mutex
            /\ datasets' = [datasets EXCEPT ![n] = job[k].schema]
            /\ row_counts' = [row_counts EXCEPT ![n] = job[k].rows]
            /\ dirs' = dirs
         \/ /\ task[t].op # "unregister" /\ job[k].phase = "err" /\ mutex' = mutex
            /\ datasets' = datasets /\ row_counts' = row_counts
            /\ dirs' = dirs
         \/ /\ mutex' = [mutex EXCEPT ![n] = @ + 1]
            /\ datasets' = [datasets EXCEPT ![n] = 0]
            /\ row_counts' = [row_counts EXCEPT ![n] = 0]
            /\ dirs' \in {dirs, [dirs EXCEPT ![n] = [g \in Gens |-> "none"]]}
      /\ relation' = relation /\ view' = view /\ jobs' = jobs /\ free' = free
      /\ orphan' = orphan /\ torn' = torn /\ vacated' = vacated /\ missed' = missed
      /\ task[t].pc = "block"
      /\ \E op, outcome : outcome \in {"ok", "err"} /\ Returned(t, op, outcome)
    BY <1>n DEF ReloadDone, ReloadFailed, RegisterDone, RegisterFailed, UnregisterDone, Returned,
           engine, history, maps
<1>y. /\ datasets \in [Names -> 0 .. MaxJobs + 1] /\ row_counts \in [Names -> 0 .. MaxJobs + 1]
      /\ dirs \in [Names -> [Gens -> Dir]] /\ mutex \in [Names -> Nat]
      /\ \A x \in Names : mutex[x] \in Nat
    BY DEF TypeOK
<1>m. \A x \in Names : mutex'[x] \in Nat /\ mutex'[x] >= mutex[x]
    BY <1>n, <1>u, <1>y
<1>s. /\ k \in Jobs /\ ~Open(k) /\ ~Open(k)'
      /\ \A u \in Tasks : u # t /\ task[u].pc = "block" => task[u].job # k
      /\ \A i \in Jobs : i # k => job'[i] = job[i]
      /\ task'[t].pc = "idle"
      /\ \A u \in Tasks : u # t => task'[u] = task[u]
  <2>1. PICK op, outcome : outcome \in {"ok", "err"} /\ Returned(t, op, outcome)
      BY <1>u
  <2>2. UNCHANGED <<jobs, free>>
      BY <1>u
  <2>3. /\ k \in Jobs /\ ~Open(k) /\ job'[k].phase = outcome
        /\ \A u \in Tasks : u # t /\ task[u].pc = "block" => task[u].job # k
        /\ \A i \in Jobs : i # k => job'[i] = job[i]
        /\ task'[t].pc = "idle"
        /\ \A u \in Tasks : u # t => task'[u] = task[u]
      BY <1>m, <1>n, <2>1, <2>2, ReturnedShape DEF IndInv
  <2>. QED
      BY <2>1, <2>3 DEF Open
<1>c. \A x \in Names : \A i \in Jobs : Changes(i, x)' => Changes(i, x) /\ job'[i] = job[i]
    BY <1>s DEF Changes, Open
<1>1. Past'
  <2>1. \A x \in Names : \A g \in Gens : dirs'[x][g] # "none" => dirs[x][g] # "none"
      BY <1>n, <1>u, <1>y
  <2>. QED
      BY <1>u, <2>1 DEF IndInv, DataInv, Past
<1>2. ASSUME NEW x \in Names, Serial(x)'
      PROVE  EngineOf(x)' /\ QueryLive(x)' /\ NotMissed(x)'
  <2>1. Serial(x)
      BY <1>2, <1>m, <1>u, <1>y DEF Serial
  <2>2. EngineOf(x) /\ QueryLive(x) /\ NotMissed(x)
      BY <2>1 DEF IndInv, DataInv
  <2>3. NotMissed(x)'
      BY <1>u, <2>2 DEF NotMissed
  <2>4. CASE x # n
    <3>1. datasets'[x] = datasets[x] /\ row_counts'[x] = row_counts[x] /\ dirs'[x] = dirs[x]
        BY <1>u, <1>y, <2>4
    <3>2. \A u \in Tasks : Blocked(u, x)' <=> Blocked(u, x)
        BY <1>n, <1>s, <2>4 DEF Blocked
    <3>3. \A u \in Tasks : Blocked(u, x) =>
            /\ task'[u].op = task[u].op /\ task'[u].job = task[u].job
            /\ job'[task[u].job] = job[task[u].job]
        BY <1>n, <1>s, <1>b, <2>4 DEF Blocked
    <3>4. Apart(x)
        BY <1>c, <1>u, <3>1, <3>2, <3>3 DEF Apart
    <3>5. QueryLive(x)'
        BY <1>s, <2>2, <3>1 DEF QueryLive, Open, HasLive
    <3>. QED
        BY <2>2, <2>3, <3>4, <3>5, ApartKeeps
  <2>5. CASE x = n
    <3>1. /\ task[t].op # "unregister" /\ mutex' = mutex /\ dirs' = dirs
          /\ \/ /\ job[k].phase = "ok"
                /\ datasets'[n] = job[k].schema /\ row_counts'[n] = job[k].rows
             \/ /\ job[k].phase = "err"
                /\ datasets' = datasets /\ row_counts' = row_counts
      <4>1. mutex[n] = 0 /\ mutex'[n] = 0
          BY <1>2, <2>1, <2>5 DEF Serial
      <4>. QED
          BY <1>n, <1>u, <1>y, <4>1
    <3>2. \A u \in Tasks : Blocked(u, n) => u = t
      <4>1. mutex[n] = 0
          BY <2>1, <2>5 DEF Serial
      <4>2. \A u \in Tasks : Blocked(u, n) => task[u].mutex = 0
          BY <4>1, TaskFields DEF IndInv, CallInv, Awaits, Blocked
      <4>. QED
          BY <1>n, <1>u, <4>2 DEF IndInv, CallInv, Exclusive, Blocked
    <3>3. \A u \in Tasks : ~Blocked(u, n)'
        BY <1>s, <3>2 DEF Blocked
    <3>4. \A i \in Jobs : ~Changes(i, n)
        BY <1>n, <1>s, <2>2, <2>5, <3>2 DEF EngineOf, Owned, Changes
    <3>5. Owned(n)' /\ Progress(n)'
        BY <1>c, <3>4 DEF Owned, Progress
    <3>6. Result(n)'
        BY <3>3 DEF Result
    <3>7. Blocked(t, n)
        BY <1>n, <1>u DEF Blocked
    <3>8. job[k].phase = "ok" => /\ job[k].schema = relation[n] /\ job[k].rows = relation[n]
                                 /\ relation[n] # 0
        BY <1>n, <2>2, <2>5, <3>1, <3>7 DEF EngineOf, Result, Built
    <3>9. job[k].phase = "err" => Untouched(n)
        BY <1>n, <3>2 DEF Untouched
    <3>10. MapsInStep(n)'
        BY <1>u, <2>2, <2>5, <3>1, <3>8, <3>9 DEF EngineOf, MapsInStep, HasLive
    <3>11. Readable(n)'
        BY <1>u, <2>2, <2>5, <3>1 DEF EngineOf, Readable
    <3>12. ~Removing(n)
        BY <3>1, <3>2 DEF Removing, Blocked
    <3>13. LiveHasRelation(n)'
        BY <1>u, <2>2, <2>5, <3>1, <3>8, <3>12 DEF EngineOf, LiveHasRelation, HasLive
    <3>14. QueryLive(n)'
        BY <1>s, <2>2, <2>5, <3>1, <3>8 DEF QueryLive, Open, HasLive
    <3>. QED
        BY <2>3, <2>5, <3>5, <3>6, <3>10, <3>11, <3>13, <3>14 DEF EngineOf
  <2>. QED
      BY <2>4, <2>5
<1>. QED
    BY <1>1, <1>2 DEF DataInv

LEMMA DataInit == Init => DataInv
<1>. SUFFICES ASSUME Init PROVE DataInv
    OBVIOUS
<1>1. /\ task = [t \in Tasks |-> Idle] /\ job = [j \in Jobs |-> NoJob] /\ jobs = 0
      /\ missed = [n \in Names |-> FALSE]
    BY DEF Init
<1>2. \A t \in Tasks : task[t].pc = "idle"
    BY <1>1 DEF Idle
<1>3. \A j \in Jobs : ~Open(j)
    BY <1>1 DEF NoJob, Open
<1>4. \A n \in Names : /\ relation[n] \in {0, 1} /\ view[n] \in {0, 1}
                       /\ row_counts[n] = datasets[n]
                       /\ datasets[n] # 0 => relation[n] = datasets[n]
                       /\ \A g \in Gens : dirs[n][g] =
                            IF g = 1 /\ view[n] = 1 THEN "sealed" ELSE "none"
    BY InitShape
<1>5. Past
    BY <1>1, <1>4 DEF Past
<1>6. 1 \in Gens
    BY Constants DEF Gens
<1>7. ASSUME NEW n \in Names PROVE EngineOf(n) /\ QueryLive(n) /\ NotMissed(n)
  <2>1. Owned(n) /\ Progress(n) /\ QueryLive(n)
      BY <1>3 DEF Owned, Progress, QueryLive, Changes
  <2>2. Result(n)
      BY <1>2 DEF Result, Blocked
  <2>3. MapsInStep(n) /\ LiveHasRelation(n)
      BY <1>4 DEF MapsInStep, LiveHasRelation, HasLive
  <2>4. Readable(n)
      BY <1>4, <1>6 DEF Readable
  <2>5. NotMissed(n)
      BY <1>1 DEF NotMissed
  <2>. QED
      BY <2>1, <2>2, <2>3, <2>4, <2>5 DEF EngineOf
<1>. QED
    BY <1>5, <1>7 DEF DataInv

LEMMA DataStep == TypeOK /\ IndInv /\ [Next]_vars => DataInv'
<1>. SUFFICES ASSUME TypeOK, IndInv, [Next]_vars PROVE DataInv'
    OBVIOUS
<1>1. ASSUME NEW t \in Tasks, Call(t) PROVE DataInv'
    BY <1>1, CallData
<1>2. ASSUME NEW t \in Tasks, Continue(t) PROVE DataInv'
  <2>1. CASE Acquire(t)
      BY <2>1, AcquireData
  <2>2. CASE RegisterLost(t)
      BY <2>2, IdleData
  <2>3. CASE \/ ReloadDone(t) \/ ReloadFailed(t) \/ RegisterDone(t)
             \/ RegisterFailed(t) \/ UnregisterDone(t)
      BY <2>3, ReturnedData
  <2>. QED
      BY <1>2, <2>1, <2>2, <2>3 DEF Continue
<1>3. ASSUME NEW t \in Tasks, Cancel(t) PROVE DataInv'
    BY <1>3, IdleData
<1>4. ASSUME NEW n \in Names, QueryCall(n) \/ StreamCall(n) PROVE DataInv'
    BY <1>4, ReadData
<1>5. ASSUME NEW j \in Jobs, JobStep(j) PROVE DataInv'
    BY <1>5, JobData
<1>6. CASE UNCHANGED vars
    BY <1>6, QuietData DEF vars, maps, history, Serial, Blocked
<1>. QED
    BY <1>1, <1>2, <1>3, <1>4, <1>5, <1>6 DEF Next

-----------------------------------------------------------------------------
(***************************************************************************)
(* The theorems.                                                           *)
(***************************************************************************)

\* The inductive invariant: closures, callers, connections and relations.
THEOREM InvariantHolds == Spec => [](TypeOK /\ IndInv)
<1>1. Init => TypeOK /\ IndInv
    BY CallInit, DataInit DEF IndInv
<1>2. TypeOK /\ IndInv /\ [Next]_vars => (TypeOK /\ IndInv)'
    BY CallStep, DataStep DEF IndInv
<1>. QED
    BY <1>1, <1>2, PTL DEF Spec

\* Between reloads, row_counts, the schema and the relation of the engine are
\* those of one generation (DuckdbBackend::reload, db.rs), unless a build failed
\* after it had replaced the relation.
THEOREM MapsAgree == Spec => []EngineInStep
<1>1. TypeOK /\ IndInv => EngineInStep
  <2>. SUFFICES ASSUME IndInv, NEW n \in Names, Serial(n), ~Busy(n), HasLive(n)
                PROVE  /\ row_counts[n] = datasets[n]
                       /\ ~torn[n] => relation[n] = datasets[n]
      BY DEF EngineInStep
  <2>1. Untouched(n)
      BY DEF Untouched, Busy, Blocked
  <2>. QED
      BY <2>1 DEF IndInv, DataInv, EngineOf, MapsInStep
<1>. QED
    BY <1>1, InvariantHolds, PTL

\* The files of a view are on disk whatever collections run: CREATE OR REPLACE
\* VIEW precedes write_manifest, and gc_storage keeps the newest two.
THEOREM ViewsFindFiles == Spec => []ViewOnDisk
<1>1. TypeOK /\ IndInv => ViewOnDisk
    BY DEF IndInv, DataInv, EngineOf, Readable, ViewOnDisk
<1>. QED
    BY <1>1, InvariantHolds, PTL

\* A query that ensure_ready_sync let through finds a relation, whatever
\* reloads run beside it, for every form replaced by one statement.
THEOREM QueriesFindRelations == Spec => []QueryFindsRelation
<1>1. TypeOK /\ IndInv => QueryFindsRelation
    BY DEF IndInv, DataInv, NotMissed, QueryFindsRelation
<1>. QED
    BY <1>1, InvariantHolds, PTL

\* A step of a closure leaves a relation, drops it, or moves it to the newer
\* generation of the closure.
LEMMA RelationMoves ==
    ASSUME TypeOK, IndInv, NEW j \in Jobs, JobStep(j), NEW n \in Names, Serial(n)
    PROVE  \/ relation'[n] = relation[n]
           \/ relation'[n] = 0
           \/ relation'[n] > relation[n]
<1>t. /\ relation \in [Names -> 0 .. MaxJobs + 1] /\ relation[n] \in Nat
      /\ Gen(j) = j + 1 /\ j \in Nat /\ CallInv /\ Handed
      /\ job[j].name \in Names
    BY Constants, GenTyped, JobFields DEF TypeOK, IndInv, CallInv
<1>1. CASE ~Changes(j, n)
    BY <1>1, <1>t, JobElsewhere
<1>2. CASE Changes(j, n)
  <2>1. n = job[j].name
      BY <1>2 DEF Changes
  <2>2. job[j].phase \in Before \cup {"dropped"} => relation[n] <= j
      BY <1>2 DEF IndInv, DataInv, EngineOf, Progress
  <2>3. CASE relation' = relation
      BY <2>3
  <2>4. CASE /\ relation' = [relation EXCEPT ![job[j].name] = Gen(j)]
             /\ job[j].phase \in Before \cup {"dropped"}
      BY <1>t, <2>1, <2>2, <2>4
  <2>5. CASE relation' = [relation EXCEPT ![job[j].name] = 0]
      BY <1>t, <2>1, <2>5
  <2>6. \/ relation' = relation
        \/ /\ relation' = [relation EXCEPT ![job[j].name] = Gen(j)]
           /\ job[j].phase \in Before \cup {"dropped"}
        \/ relation' = [relation EXCEPT ![job[j].name] = 0]
      BY DEF JobStep, GetConn, Create, CreateTmp, DropOld, Rename, Copy, CreateView, Seal,
             Gc, Describe, Count, BuildFails, DropRelation, Read, StreamEnd, engine, Before
  <2>. QED
      BY <2>3, <2>4, <2>5, <2>6
<1>. QED
    BY <1>1, <1>2

\* A step changes what the queries of at most one dataset read.
LEMMA VisibleStep ==
    ASSUME TypeOK, IndInv, [Next]_vars
    PROVE  \/ Visible' = Visible
           \/ \E n \in Names :
                /\ \A m \in Names \ {n} : Visible'[m] = Visible[m]
                /\ Visible'[n] = Visible[n] \/ Visible'[n] = 0 \/ Visible'[n] > Visible[n]
<1>1. CASE UNCHANGED <<relation, mutex, orphan>>
    BY <1>1 DEF Visible, Serial
<1>2. ASSUME NEW j \in Jobs, JobStep(j)
      PROVE  \E n \in Names :
                /\ \A m \in Names \ {n} : Visible'[m] = Visible[m]
                /\ Visible'[n] = Visible[n] \/ Visible'[n] = 0 \/ Visible'[n] > Visible[n]
  <2>1. mutex' = mutex /\ orphan' = orphan
      BY <1>2, JobTyped DEF JobMoved, maps, IndInv
  <2>2. \A n \in Names : Serial(n)' <=> Serial(n)
      BY <2>1 DEF Serial
  <2>3. PICK n \in Names : n = job[j].name
      BY JobFields
  <2>4. \A m \in Names \ {n} : relation'[m] = relation[m]
      BY <1>2, <2>3, JobElsewhere DEF IndInv, Changes
  <2>5. \A m \in Names \ {n} : Visible'[m] = Visible[m]
      BY <2>2, <2>4 DEF Visible
  <2>6. Visible'[n] = Visible[n] \/ Visible'[n] = 0 \/ Visible'[n] > Visible[n]
      BY <1>2, <2>2, RelationMoves DEF Visible
  <2>. QED
      BY <2>5, <2>6
<1>3. ASSUME NEW t \in Tasks, Cancel(t) \/ UnregisterDone(t)
      PROVE  \E n \in Names :
                /\ \A m \in Names \ {n} : Visible'[m] = Visible[m]
                /\ Visible'[n] = Visible[n] \/ Visible'[n] = 0 \/ Visible'[n] > Visible[n]
  <2>1. PICK n \in Names : n = task[t].name
      BY TaskFields
  <2>2. /\ mutex \in [Names -> Nat] /\ orphan \in [Names -> BOOLEAN]
        /\ \A m \in Names : mutex[m] \in Nat
      BY DEF TypeOK
  <2>3. /\ relation' = relation
        /\ \A m \in Names \ {n} : mutex'[m] = mutex[m] /\ orphan'[m] = orphan[m]
        /\ Serial(n)' => Serial(n)
    <3>1. CASE Cancel(t)
        BY <2>1, <2>2, <3>1 DEF Cancel, maps, engine, Serial
    <3>2. CASE UnregisterDone(t)
        BY <2>1, <2>2, <3>2 DEF UnregisterDone, history, Serial
    <3>. QED
        BY <1>3, <3>1, <3>2
  <2>4. \A m \in Names \ {n} : Visible'[m] = Visible[m]
      BY <2>3 DEF Visible, Serial
  <2>5. Visible'[n] = Visible[n] \/ Visible'[n] = 0
      BY <2>3 DEF Visible
  <2>. QED
      BY <2>4, <2>5
<1>4. ASSUME NEW t \in Tasks, Call(t) PROVE UNCHANGED <<relation, mutex, orphan>>
    BY <1>4 DEF Call, ReloadCall, TryReload, RegisterCall, UnregisterCall, maps, engine,
                history
<1>5. ASSUME NEW t \in Tasks, Continue(t), ~UnregisterDone(t)
      PROVE  UNCHANGED <<relation, mutex, orphan>>
    BY <1>5 DEF Continue, Acquire, RegisterLost, ReloadDone, ReloadFailed, RegisterDone,
                RegisterFailed, maps, engine, history
<1>6. ASSUME NEW m \in Names, QueryCall(m) \/ StreamCall(m)
      PROVE  UNCHANGED <<relation, mutex, orphan>>
    BY <1>6 DEF QueryCall, StreamCall, maps, engine, history
<1>7. UNCHANGED vars => UNCHANGED <<relation, mutex, orphan>>
    BY DEF vars, maps, engine, history
<1>. QED
    BY <1>1, <1>2, <1>3, <1>4, <1>5, <1>6, <1>7 DEF Next

\* The relations of the engine implement LiveGenerations: as long as the mutex
\* of a dataset is the only one and no closure lost its caller, its relation is
\* replaced in one step by a newer one or taken away, never set back.
THEOREM ImplementsLiveGenerations == Spec => ImplementsLive
<1>1. Init => Live!Init
  <2>. SUFFICES ASSUME Init PROVE Live!Init
      OBVIOUS
  <2>1. \A n \in Names : relation[n] \in Nat
      BY InitShape
  <2>. QED
      BY <2>1 DEF Live!Init, Visible
<1>2. TypeOK /\ IndInv /\ [Next]_vars => [Live!Next]_Visible
  <2>. SUFFICES ASSUME TypeOK, IndInv, [Next]_vars PROVE [Live!Next]_Visible
      OBVIOUS
  <2>1. CASE Visible' = Visible
      BY <2>1
  <2>2. ASSUME NEW n \in Names, \A m \in Names \ {n} : Visible'[m] = Visible[m],
               Visible'[n] = Visible[n] \/ Visible'[n] = 0 \/ Visible'[n] > Visible[n]
        PROVE  [Live!Next]_Visible
    <3>1. CASE Visible'[n] = Visible[n]
      <4>1. \A m \in Names : Visible'[m] = Visible[m]
          BY <2>2, <3>1
      <4>2. Visible' = Visible
          BY <4>1 DEF Visible
      <4>. QED
          BY <4>2
    <3>2. CASE Visible'[n] = 0
        BY <2>2, <3>2 DEF Live!Next, Live!Withdraw, Live!Only
    <3>3. CASE Visible'[n] > Visible[n]
        BY <2>2, <3>3 DEF Live!Next, Live!Publish, Live!Only
    <3>. QED
        BY <2>2, <3>1, <3>2, <3>3
  <2>. QED
      BY <2>1, <2>2, VisibleStep
<1>. QED
    BY <1>1, <1>2, InvariantHolds, PTL DEF Spec, ImplementsLive, Live!Spec

=============================================================================
