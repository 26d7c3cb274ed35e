------------------------- MODULE GenerationsProofs -------------------------
(***************************************************************************)
(* Proofs about Generations for every set of SQL texts and residencies and *)
(* all bounds: type correctness; the newest sealed directory is whole; the *)
(* table that is served keeps its files; it comes from the configured SQL; *)
(* and without reuse_on_start no publish brings older data.                *)
(*                                                                         *)
(* They rest on the inductive invariant IndInv.  Its parts follow a build  *)
(* through its stages, and say how the directories on disk relate to the   *)
(* one builder at work, as long as startup build and reload never overlap. *)
(***************************************************************************)
EXTENDS Generations, FiniteSetTheorems, TLAPS

USE SqlsAssumption, ResidenciesAssumption, BoundsAssumption

Active(b) == job[b].pc # "idle"

\* g is as new as every sealed directory.
Latest(g) == \A h \in Complete : h <= g

\* A builder has drawn its ULID once it writes, seals, collects or opens.
Drawn ==
    \A b \in Builders :
        /\ job[b].gen # 0 => job[b].gen \in Gens /\ job[b].gen < nextGen
        /\ job[b].pc \in {"idle", "query"} => job[b].gen = 0 /\ ~job[b].reused
        /\ job[b].pc \in {"write", "seal", "gclist", "gc", "list"} => job[b].gen # 0

\* Every build under way runs or reuses the SQL of the configuration.
SameSql == \A b \in Builders : Active(b) => job[b].sql = config.sql

OneBuilder ==
    ~overlapped => \A b, c \in Builders : Active(b) /\ Active(c) => b = c

\* What the directory of the one build under way holds at each stage.
Stages ==
    ~overlapped => \A b \in Builders :
        /\ job[b].pc \in {"write", "seal", "gclist", "gc"} =>
             nextGen = job[b].gen + 1 /\ ~job[b].reused
        /\ job[b].pc = "write" => disk[job[b].gen].data = "some"
        /\ job[b].pc = "seal" => disk[job[b].gen].data = "all"
        /\ job[b].pc \in {"write", "seal"} => ~disk[job[b].gen].manifest
        /\ job[b].pc \in {"gclist", "gc"} => Whole(job[b].gen)
        /\ job[b].pc = "gc" => job[b].gen \in job[b].keep
        /\ job[b].pc \in {"list", "publish"} /\ job[b].gen # 0 =>
             Whole(job[b].gen) /\ Latest(job[b].gen)

\* b has sealed the directory h and has yet to publish it.
Unpublished(b, h) ==
    /\ job[b].gen = h /\ ~job[b].reused
    /\ job[b].pc \in {"gclist", "gc", "list", "publish"}

\* No sealed generation after the live one was given up.
NoneGivenUp == live.on = "disk" /\ \A r \in rejected : r < live.gen

\* Then the live directory is whole, what is newer is being published, and
\* the collection under way spares the live one.
LiveKept ==
    ~overlapped /\ NoneGivenUp =>
        /\ live.gen \in Gens /\ Whole(live.gen)
        /\ \A h \in Complete : h > live.gen => \E b \in Builders : Unpublished(b, h)
        /\ \A b \in Builders : job[b].pc = "gc" => live.gen \in job[b].keep

\* Without reuse, data is as new as when its build began.
DataOrdered ==
    ~config.reuse_on_start =>
        /\ live.src <= source
        /\ \A b \in Builders : job[b].src <= source
        /\ ~overlapped /\ live.on # "none" =>
             \A b \in Builders : Active(b) => live.src <= job[b].src

IndInv ==
    /\ Drawn
    /\ SameSql
    /\ LiveMatchesConfig
    /\ OneBuilder
    /\ Stages
    /\ NewestIsWhole
    /\ LiveKept
    /\ DataOrdered

-----------------------------------------------------------------------------
(***************************************************************************)
(* Newest.                                                                 *)
(***************************************************************************)

LEMMA GensFinite == \A S \in SUBSET Gens : IsFiniteSet(S) /\ Cardinality(S) \in Nat
  <1>1. IsFiniteSet(Gens)
    BY FS_Interval DEF Gens
  <1> QED
    BY <1>1, FS_Subset, FS_CardinalityType

\* Newest(1, S) is the maximum of S.
LEMMA NewestOne ==
    ASSUME NEW S \in SUBSET Gens, NEW g
    PROVE  g \in Newest(1, S) <=> g \in S /\ \A h \in S : h <= g
  <1> DEFINE Above == {h \in S : h > g}
  <1>1. Above \in SUBSET Gens
    OBVIOUS
  <1>2. Cardinality(Above) < 1 <=> Above = {}
    BY <1>1, GensFinite, FS_EmptySet
  <1>3. ASSUME g \in S PROVE Above = {} <=> \A h \in S : h <= g
    <2>1. \A h \in S : h \in Nat
      BY DEF Gens
    <2>2. \A h \in S : h \in Above <=> ~(h <= g)
      BY <1>3, <2>1
    <2> QED
      BY <2>2
  <1>4. g \in Newest(1, S) <=> g \in S /\ Cardinality(Above) < 1
    BY DEF Newest
  <1> QED
    BY <1>2, <1>3, <1>4

\* Newest(2, S) has every member of S above which there is at most one.
LEMMA NewestTwo ==
    ASSUME NEW S \in SUBSET Gens, NEW g \in S, NEW m,
           \A h \in S : h > g => h = m
    PROVE  g \in Newest(2, S)
  <1> DEFINE Above == {h \in S : h > g}
  <1>1. Above \in SUBSET {m} /\ IsFiniteSet({m}) /\ Cardinality({m}) = 1
    BY FS_Singleton
  <1>2. Cardinality(Above) <= 1 /\ Cardinality(Above) \in Nat
    BY <1>1, GensFinite, FS_Subset, FS_CardinalityType
  <1> QED
    BY <1>2 DEF Newest

LEMMA CompleteGens == Complete \in SUBSET Gens
  BY DEF Complete

-----------------------------------------------------------------------------
(***************************************************************************)
(* Types.                                                                  *)
(***************************************************************************)

LEMMA NoJobType == NoJob \in Job /\ NoLive \in Live /\ NoDir \in Dir
  BY DEF NoJob, Job, Pc, NoLive, Live, NoDir, Dir

LEMMA InitType == Init => TypeOK
  <1> SUFFICES ASSUME Init PROVE TypeOK
    OBVIOUS
  <1>1. disk \in [Gens -> Dir] /\ job \in [Builders -> Job]
    BY NoJobType DEF Init
  <1>2. \A g \in Gens : disk[g] = NoDir
    BY DEF Init
  <1>3. /\ config \in Config /\ source \in Nat /\ nextGen \in Nat \ {0}
        /\ live \in Live /\ boots \in Nat
    BY NoJobType DEF Init
  <1>4. due \in BOOLEAN /\ rejected \in SUBSET Gens /\ overlapped \in BOOLEAN
    BY Zenon DEF Init
  <1> QED
    BY <1>1, <1>2, <1>3, <1>4 DEF TypeOK

\* A sealed directory has its ULID drawn.
LEMMA SealedDrawn ==
    ASSUME TypeOK, NEW g \in Complete
    PROVE  g \in Gens /\ g < nextGen /\ disk[g] \in Dir
  BY DEF TypeOK, Complete, NoDir, Gens

LEMMA RemoveType ==
    ASSUME TypeOK, NEW V \in SUBSET Gens, Remove(V), \A g \in V : disk[g] # NoDir
    PROVE  /\ disk' \in [Gens -> Dir]
           /\ \A g \in Gens : g >= nextGen => disk'[g] = NoDir
  <1>1. PICK fate \in [V -> {"gone", "partly", "unreached"}] :
            disk' = [g \in Gens |->
                CASE g \in V /\ fate[g] = "gone" -> NoDir
                  [] g \in V /\ fate[g] = "partly" -> [disk[g] EXCEPT !.data = "some"]
                  [] OTHER -> disk[g]]
    BY DEF Remove
  <1>2. ASSUME NEW g \in Gens
        PROVE  disk'[g] \in {NoDir, disk[g], [disk[g] EXCEPT !.data = "some"]}
               /\ (g \notin V => disk'[g] = disk[g])
    BY <1>1, <1>2
  <1>3. \A g \in Gens : disk[g] \in Dir
    BY DEF TypeOK
  <1>4. \A g \in Gens : [disk[g] EXCEPT !.data = "some"] \in Dir
    BY <1>3 DEF Dir
  <1>5. \A g \in Gens : disk'[g] \in Dir
    BY <1>2, <1>3, <1>4, NoJobType
  <1>6. \A g \in Gens : g >= nextGen => g \notin V
    BY DEF TypeOK
  <1>7. \A g \in Gens : g >= nextGen => disk'[g] = NoDir
    BY <1>2, <1>6 DEF TypeOK
  <1>8. disk' = [g \in Gens |-> disk'[g]]
    BY <1>1
  <1> QED
    BY <1>5, <1>7, <1>8

\* A job that moves on, ends or runs the query anew is still a job.
LEMMA MovesType ==
    ASSUME TypeOK, NEW b \in Builders, NEW pc \in Pc, Moves(b, pc)
    PROVE  job' \in [Builders -> Job]
  BY DEF TypeOK, Moves, Job

LEMMA EndType ==
    ASSUME TypeOK, NEW b \in Builders, job' = [job EXCEPT ![b] = NoJob]
    PROVE  job' \in [Builders -> Job]
  BY NoJobType DEF TypeOK

LEMMA RunQueryType ==
    ASSUME TypeOK
    PROVE  RunQuery \in Job
  BY NoJobType DEF TypeOK, RunQuery, Job, Pc, Config

LEMMA VictimsThere ==
    ASSUME NEW keep
    PROVE  Victims(keep) \in SUBSET Gens /\ \A g \in Victims(keep) : disk[g] # NoDir
  BY DEF Victims

LEMMA BuildType ==
    ASSUME TypeOK, Drawn, NEW b \in Builders, Build(b)
    PROVE  TypeOK'
  <1> USE DEF Pc
  <1>t. /\ job[b] \in Job /\ job \in [Builders -> Job] /\ disk \in [Gens -> Dir]
        /\ nextGen \in Nat \ {0} /\ config \in Config
    BY DEF TypeOK
  <1>1. CASE Begin(b)
    <2>1. job' \in [Builders -> Job]
      <3>1. ASSUME NEW g \in Newest(1, Complete)
            PROVE  [NoJob EXCEPT !.pc = "list", !.gen = g, !.sql = disk[g].sql,
                                 !.src = disk[g].src, !.reused = TRUE] \in Job
        <4>0. g \in Complete
          BY DEF Newest
        <4>1. g \in Gens /\ disk[g] \in Dir /\ g \in Nat
          BY <4>0, SealedDrawn DEF Gens
        <4>2. disk[g].sql \in Sqls \cup {NoSql} /\ disk[g].src \in Nat
          BY <4>1 DEF Dir
        <4> QED
          BY <4>1, <4>2, NoJobType DEF Job
      <3> QED
        BY <1>1, <1>t, <3>1, RunQueryType DEF Begin
    <2>2. due' \in BOOLEAN /\ overlapped' \in BOOLEAN
      BY <1>1, Zenon DEF Begin
    <2> QED
      BY <1>1, <2>1, <2>2 DEF Begin, TypeOK
  <1>2. CASE Collect(b) \/ List(b)
    BY <1>2, MovesType DEF Collect, List, TypeOK, world
  <1>3. CASE Spill(b)
    <2> DEFINE d == [data |-> "some", manifest |-> FALSE, sql |-> job[b].sql,
                     src |-> job[b].src]
    <2>1. nextGen \in Gens /\ d \in Dir
      BY <1>3, <1>t DEF Spill, Gens, Dir, Job
    <2>2. disk' \in [Gens -> Dir] /\ nextGen' = nextGen + 1 /\ nextGen' \in Nat \ {0}
      BY <1>3, <1>t, <2>1 DEF Spill
    <2>3. \A g \in Gens : g >= nextGen' => g # nextGen /\ g >= nextGen
      BY <1>t, <2>2 DEF Gens
    <2>4. \A g \in Gens : g >= nextGen' => disk'[g] = NoDir
      BY <1>3, <1>t, <2>3 DEF Spill, TypeOK
    <2>5. [job[b] EXCEPT !.pc = "write", !.gen = nextGen] \in Job
      BY <1>t DEF Job
    <2>6. job' \in [Builders -> Job]
      BY <1>3, <1>t, <2>5 DEF Spill
    <2> QED
      BY <1>3, <2>2, <2>4, <2>6 DEF Spill, TypeOK, world
  <1>4. CASE Close(b) \/ Seal(b)
    <2>1. job[b].gen \in Gens /\ job[b].gen < nextGen
      BY <1>4 DEF Close, Seal, Drawn
    <2>2. disk[job[b].gen] \in Dir
      BY <1>t, <2>1
    <2>3. PICK d \in Dir : disk' = [disk EXCEPT ![job[b].gen] = d]
      <3>1. ASSUME NEW data \in {"some", "all"}
            PROVE  [disk[job[b].gen] EXCEPT !.data = data, !.src = job[b].src] \in Dir
        BY <1>t, <2>2 DEF Dir, Job
      <3>2. [data |-> disk[job[b].gen].data, manifest |-> TRUE, sql |-> job[b].sql,
             src |-> job[b].src] \in Dir
        BY <1>t, <2>2 DEF Dir, Job
      <3>3. CASE Close(b)
        <4>1. PICK data \in {"some", "all"} :
                 disk' = [disk EXCEPT ![job[b].gen].data = data,
                                      ![job[b].gen].src = job[b].src]
          BY <3>3 DEF Close
        <4>2. disk' = [disk EXCEPT ![job[b].gen] =
                  [disk[job[b].gen] EXCEPT !.data = data, !.src = job[b].src]]
          BY <4>1, <1>t
        <4> QED
          BY <3>1, <4>2
      <3> QED
        BY <1>4, <3>2, <3>3 DEF Seal
    <2>4. disk' \in [Gens -> Dir] /\ \A g \in Gens : g >= nextGen => disk'[g] = NoDir
      <3>1. \A g \in Gens : g >= nextGen => g # job[b].gen
        BY <1>t, <2>1 DEF Gens
      <3> QED
        BY <1>t, <2>3, <3>1 DEF TypeOK
    <2>5. job' \in [Builders -> Job] /\ UNCHANGED <<world, nextGen, live, rejected, overlapped>>
      BY <1>4, MovesType DEF Close, Seal
    <2> QED
      BY <2>4, <2>5 DEF TypeOK, world
  <1>5. CASE GcList(b)
    <2>1. job[b].gen \in Gens /\ Keep(job[b].gen) \in SUBSET Gens
      BY <1>5, CompleteGens DEF GcList, Drawn, Keep, Newest
    <2>2. [job[b] EXCEPT !.pc = "gc", !.keep = Keep(job[b].gen)] \in Job
      BY <1>t, <2>1 DEF Job
    <2> QED
      BY <1>5, <1>t, <2>2 DEF GcList, TypeOK, world
  <1>6. CASE GcDelete(b)
    <2>1. [job[b] EXCEPT !.pc = "list", !.keep = {}] \in Job
      BY <1>t DEF Job
    <2> QED
      BY <1>6, <1>t, <2>1, VictimsThere, RemoveType DEF GcDelete, TypeOK, world
  <1>7. CASE Publish(b)
    <2>1. live' \in Live
      BY <1>7, <1>t DEF Publish, Live, Job
    <2> QED
      BY <1>7, <2>1, EndType DEF Publish, TypeOK, world
  <1>8. CASE Fail(b)
    BY <1>8, EndType DEF Fail, TypeOK, world
  <1>9. CASE Reject(b)
    <2>1. job[b].gen \in Gens
      BY <1>9 DEF Reject, Drawn
    <2> QED
      BY <1>9, <2>1, EndType DEF Reject, TypeOK, world
  <1>10. CASE ReuseFails(b)
    BY <1>10, <1>t, RunQueryType DEF ReuseFails, TypeOK, world
  <1> QED
    BY <1>1, <1>2, <1>3, <1>4, <1>5, <1>6, <1>7, <1>8, <1>9, <1>10 DEF Build

LEMMA StepType ==
    ASSUME TypeOK, Drawn, [Next]_vars
    PROVE  TypeOK'
  <1>1. CASE UNCHANGED vars
    BY <1>1 DEF vars, TypeOK
  <1>2. CASE SourceChanges
    BY <1>2 DEF SourceChanges, TypeOK
  <1>3. CASE Restart
    <2>1. disk' \in [Gens -> Dir] /\ \A g \in Gens : g >= nextGen => disk'[g] = NoDir
      BY <1>3, VictimsThere, RemoveType DEF Restart, TypeOK
    <2>2. job' \in [Builders -> Job] /\ live' \in Live
      BY <1>3, NoJobType DEF Restart
    <2> QED
      BY <1>3, <2>1, <2>2 DEF Restart, TypeOK
  <1> QED
    BY <1>1, <1>2, <1>3, BuildType DEF Next

-----------------------------------------------------------------------------
(***************************************************************************)
(* IndInv, action by action.                                               *)
(***************************************************************************)

LEMMA InitInd == Init => IndInv
  <1> SUFFICES ASSUME Init PROVE IndInv
    OBVIOUS
  <1>1. /\ \A b \in Builders : job[b] = NoJob
        /\ live = NoLive /\ Complete = {} /\ source = 1
    BY DEF Init, Complete, NoDir
  <1>2. \A b \in Builders : /\ ~Active(b) /\ job[b].pc = "idle"
                            /\ job[b].gen = 0 /\ job[b].src = 0 /\ ~job[b].reused
    BY <1>1 DEF Active, NoJob
  <1>3. Drawn /\ SameSql /\ OneBuilder /\ Stages
    BY <1>2 DEF Drawn, SameSql, OneBuilder, Stages
  <1>4. LiveMatchesConfig /\ LiveKept
    BY <1>1 DEF LiveMatchesConfig, LiveKept, NoneGivenUp, NoLive
  <1>5. DataOrdered
    BY <1>1, <1>2 DEF DataOrdered, NoLive
  <1>6. NewestIsWhole
    BY <1>1 DEF NewestIsWhole, Newest
  <1> QED
    BY <1>3, <1>4, <1>5, <1>6 DEF IndInv

\* NewestIsWhole without Newest.
LEMMA NewestWhole ==
    NewestIsWhole <=> (overlapped \/ \A g \in Complete : Latest(g) => Whole(g))
  <1>1. \A g : g \in Newest(1, Complete) <=> g \in Complete /\ Latest(g)
    BY NewestOne, CompleteGens DEF Latest
  <1> QED
    BY <1>1 DEF NewestIsWhole

LEMMA NewestWholePrimed ==
    NewestIsWhole' <=> (overlapped' \/ \A g \in Complete' : Latest(g)' => Whole(g)')
  <1>0. Complete' \in SUBSET Gens
    BY DEF Complete
  <1>1. \A g : g \in Newest(1, Complete') <=> g \in Complete' /\ \A h \in Complete' : h <= g
    BY <1>0, NewestOne
  <1>2. NewestIsWhole' <=> \A g \in Newest(1, Complete') : Whole(g)' \/ overlapped'
    BY DEF NewestIsWhole, Newest
  <1> QED
    BY <1>1, <1>2 DEF Latest

\* A build that only moves on leaves the directories, and so what is known of
\* the newest of them, alone.
LEMMA DiskKept ==
    ASSUME UNCHANGED disk, NewestIsWhole, overlapped => overlapped'
    PROVE  /\ Complete' = Complete /\ NewestIsWhole'
           /\ \A g : Whole(g)' = Whole(g) /\ Latest(g)' = Latest(g)
  <1>1. Complete' = Complete /\ \A g : Whole(g)' = Whole(g)
    BY DEF Complete, Whole
  <1>2. \A g : Latest(g)' = Latest(g)
    BY <1>1 DEF Latest
  <1> QED
    BY <1>1, <1>2, NewestWhole, NewestWholePrimed

LEMMA BeginInd ==
    ASSUME TypeOK, IndInv, NEW b \in Builders, Begin(b)
    PROVE  IndInv'
  <1>t. /\ job \in [Builders -> Job] /\ source \in Nat /\ config \in Config
        /\ nextGen \in Nat /\ live \in Live /\ overlapped \in BOOLEAN
        /\ live.src \in Nat
    BY DEF TypeOK, Live
  <1>u. /\ UNCHANGED <<config, source, disk, nextGen, live, rejected>>
        /\ \A c \in Builders \ {b} : job'[c] = job[c]
        /\ job[b].pc = "idle" /\ (overlapped => overlapped')
    BY <1>t DEF Begin
  <1>o. ~overlapped' => ~overlapped /\ \A c \in Builders : ~Active(c)
    BY DEF Begin, Active
  <1>d. /\ Complete' = Complete /\ NewestIsWhole'
        /\ \A g : Whole(g)' = Whole(g) /\ Latest(g)' = Latest(g)
    BY <1>u, DiskKept DEF IndInv
  <1>j. \/ job'[b] = RunQuery
        \/ /\ config.reuse_on_start
           /\ \E g \in Complete :
                /\ Latest(g) /\ disk[g].sql = config.sql
                /\ job'[b] = [NoJob EXCEPT !.pc = "list", !.gen = g,
                        !.sql = disk[g].sql, !.src = disk[g].src, !.reused = TRUE]
    <2>1. \A g : g \in Newest(1, Complete) <=> g \in Complete /\ Latest(g)
      BY NewestOne, CompleteGens DEF Latest
    <2>2. ASSUME NEW g \in Newest(1, Complete), NEW h \in Newest(1, Complete) PROVE g = h
      <3>1. g \in Gens /\ h \in Gens /\ g <= h /\ h <= g
        BY <2>1, <2>2, CompleteGens DEF Latest
      <3> QED
        BY <3>1 DEF Gens
    <2>3. CASE ~Reusable
      BY <1>t, <2>3 DEF Begin
    <2>4. CASE Reusable
      <3>1. PICK g \in Newest(1, Complete) : disk[g].sql = config.sql
        BY <2>4 DEF Reusable
      <3>2. PICK h \in Newest(1, Complete) :
                job' = [job EXCEPT ![b] = [NoJob EXCEPT
                          !.pc = "list", !.gen = h, !.sql = disk[h].sql,
                          !.src = disk[h].src, !.reused = TRUE]]
        BY <2>4 DEF Begin
      <3>3. h = g /\ g \in Complete /\ Latest(g) /\ config.reuse_on_start
        BY <2>1, <2>2, <2>4 DEF Reusable
      <3> QED
        BY <1>t, <3>1, <3>2, <3>3
    <2> QED
      BY <2>3, <2>4
  <1>k. CASE job'[b] = RunQuery
    <2>1. /\ job'[b].pc = "query" /\ job'[b].gen = 0 /\ job'[b].sql = config.sql
          /\ job'[b].src = source /\ ~job'[b].reused
      BY <1>k DEF RunQuery, NoJob
    <2>2. Drawn'
      BY <1>u, <2>1 DEF IndInv, Drawn
    <2>3. SameSql' /\ LiveMatchesConfig'
      BY <1>u, <2>1 DEF IndInv, SameSql, Active, LiveMatchesConfig
    <2>4. OneBuilder'
      BY <1>u, <1>o, <2>1 DEF OneBuilder, Active
    <2>5. Stages'
      BY <1>u, <1>o, <2>1 DEF Stages, Active
    <2>6. LiveKept'
      BY <1>u, <1>o, <1>d, <2>1 DEF IndInv, LiveKept, NoneGivenUp, Unpublished, Active
    <2>7. DataOrdered'
      BY <1>t, <1>u, <1>o, <2>1 DEF IndInv, DataOrdered, Active
    <2> QED
      BY <1>d, <2>2, <2>3, <2>4, <2>5, <2>6, <2>7 DEF IndInv
  <1>l. CASE job'[b] # RunQuery
    <2>1. PICK g \in Complete :
              /\ Latest(g) /\ disk[g].sql = config.sql /\ config.reuse_on_start
              /\ job'[b] = [NoJob EXCEPT !.pc = "list", !.gen = g,
                        !.sql = disk[g].sql, !.src = disk[g].src, !.reused = TRUE]
      BY <1>j, <1>l
    <2>2. /\ job'[b].pc = "list" /\ job'[b].gen = g /\ job'[b].sql = config.sql
          /\ job'[b].reused
      BY <2>1 DEF NoJob
    <2>3. g \in Gens /\ g < nextGen /\ g # 0
      BY SealedDrawn DEF Gens
    <2>4. Drawn'
      BY <1>u, <2>2, <2>3 DEF IndInv, Drawn
    <2>5. SameSql' /\ LiveMatchesConfig'
      BY <1>u, <2>2 DEF IndInv, SameSql, Active, LiveMatchesConfig
    <2>6. OneBuilder'
      BY <1>u, <1>o, <2>2 DEF OneBuilder, Active
    <2>7. Stages'
      <3>1. ~overlapped => Whole(g)
        BY <2>1, NewestWhole DEF IndInv
      <3> QED
        BY <1>u, <1>o, <1>d, <2>1, <2>2, <3>1 DEF Stages, Active
    <2>8. LiveKept'
      BY <1>u, <1>o, <1>d, <2>2 DEF IndInv, LiveKept, NoneGivenUp, Unpublished, Active
    <2>9. DataOrdered'
      BY <1>u, <2>1 DEF DataOrdered
    <2> QED
      BY <1>d, <2>4, <2>5, <2>6, <2>7, <2>8, <2>9 DEF IndInv
  <1> QED
    BY <1>k, <1>l

\* Steps that leave the directories and what is served alone and only move
\* the build of b along, or end it.
LEMMA QuietInd ==
    ASSUME TypeOK, IndInv, NEW b \in Builders,
           Collect(b) \/ GcList(b) \/ List(b) \/ Fail(b) \/ Reject(b) \/ ReuseFails(b)
    PROVE  IndInv'
  <1>t. /\ job \in [Builders -> Job] /\ source \in Nat /\ config \in Config
        /\ nextGen \in Nat /\ live \in Live /\ live.src \in Nat /\ live.gen \in Nat
        /\ job[b] \in Job
    BY DEF TypeOK, Live
  <1>u. /\ UNCHANGED <<config, source, disk, nextGen, live, overlapped>>
        /\ \A c \in Builders \ {b} : job'[c] = job[c]
        /\ Active(b)
    BY <1>t DEF Collect, GcList, List, Fail, Reject, ReuseFails, Moves, world, Active
  <1>d. /\ Complete' = Complete /\ NewestIsWhole'
        /\ \A g : Whole(g)' = Whole(g) /\ Latest(g)' = Latest(g)
    BY <1>u, DiskKept DEF IndInv
  <1>1. CASE Collect(b)
    <2>1. /\ job[b].pc = "query" /\ job'[b].pc = "publish"
          /\ job'[b].gen = job[b].gen /\ job'[b].sql = job[b].sql
          /\ job'[b].src = job[b].src /\ rejected' = rejected
      BY <1>t, <1>1 DEF Collect, Moves, Job
    <2>2. job[b].gen = 0
      BY <2>1 DEF IndInv, Drawn
    <2>3. Drawn' /\ SameSql' /\ LiveMatchesConfig' /\ OneBuilder'
      BY <1>u, <2>1, <2>2 DEF IndInv, Drawn, SameSql, Active, LiveMatchesConfig, OneBuilder
    <2>4. Stages'
      BY <1>u, <1>d, <2>1, <2>2 DEF IndInv, Stages
    <2>5. LiveKept'
      BY <1>u, <1>d, <2>1, <2>2 DEF IndInv, LiveKept, NoneGivenUp, Unpublished
    <2>6. DataOrdered'
      BY <1>u, <2>1 DEF IndInv, DataOrdered, Active
    <2> QED
      BY <1>d, <2>3, <2>4, <2>5, <2>6 DEF IndInv
  <1>2. CASE GcList(b)
    <2>1. /\ job[b].pc = "gclist" /\ job'[b].pc = "gc" /\ rejected' = rejected
          /\ job'[b].gen = job[b].gen /\ job'[b].sql = job[b].sql
          /\ job'[b].src = job[b].src /\ job'[b].reused = job[b].reused
          /\ job'[b].keep = Keep(job[b].gen)
      BY <1>t, <1>2 DEF GcList, Job
    <2>3. Drawn' /\ SameSql' /\ LiveMatchesConfig' /\ OneBuilder'
      BY <1>u, <2>1 DEF IndInv, Drawn, SameSql, Active, LiveMatchesConfig, OneBuilder
    <2>4. Stages'
      BY <1>u, <1>d, <2>1 DEF IndInv, Stages, Keep
    <2>5. LiveKept'
      <3>1. ASSUME ~overlapped, NoneGivenUp PROVE live.gen \in job'[b].keep
        <4>1. live.gen \in Complete
          BY <3>1 DEF IndInv, LiveKept, Whole, Complete
        <4>2. \A h \in Complete : h > live.gen => h = job[b].gen
          BY <1>u, <3>1 DEF IndInv, LiveKept, Unpublished, OneBuilder, Active
        <4>3. live.gen \in Newest(2, Complete)
          BY <4>1, <4>2, NewestTwo, CompleteGens
        <4> QED
          BY <2>1, <4>3 DEF Keep
      <3> QED
        BY <1>u, <1>d, <2>1, <3>1 DEF IndInv, LiveKept, NoneGivenUp, Unpublished
    <2>6. DataOrdered'
      BY <1>u, <2>1 DEF IndInv, DataOrdered, Active
    <2> QED
      BY <1>d, <2>3, <2>4, <2>5, <2>6 DEF IndInv
  <1>3. CASE List(b)
    <2>1. /\ job[b].pc = "list" /\ job'[b].pc = "publish" /\ rejected' = rejected
          /\ job'[b].gen = job[b].gen /\ job'[b].sql = job[b].sql
          /\ job'[b].src = job[b].src /\ job'[b].reused = job[b].reused
      BY <1>t, <1>3 DEF List, Moves, Job
    <2>3. Drawn' /\ SameSql' /\ LiveMatchesConfig' /\ OneBuilder'
      BY <1>u, <2>1 DEF IndInv, Drawn, SameSql, Active, LiveMatchesConfig, OneBuilder
    <2>4. Stages'
      BY <1>u, <1>d, <2>1 DEF IndInv, Stages
    <2>5. LiveKept'
      BY <1>u, <1>d, <2>1 DEF IndInv, LiveKept, NoneGivenUp, Unpublished
    <2>6. DataOrdered'
      BY <1>u, <2>1 DEF IndInv, DataOrdered, Active
    <2> QED
      BY <1>d, <2>3, <2>4, <2>5, <2>6 DEF IndInv
  <1>4. CASE Fail(b) \/ Reject(b)
    <2>1. job'[b] = NoJob
      BY <1>t, <1>4 DEF Fail, Reject
    <2>2. /\ job'[b].pc = "idle" /\ job'[b].gen = 0 /\ job'[b].src = 0
          /\ ~job'[b].reused
      BY <2>1 DEF NoJob
    <2>3. Drawn' /\ SameSql' /\ LiveMatchesConfig' /\ OneBuilder'
      BY <1>u, <2>2 DEF IndInv, Drawn, SameSql, Active, LiveMatchesConfig, OneBuilder
    <2>4. Stages'
      BY <1>u, <1>d, <2>2 DEF IndInv, Stages
    <2>5. ASSUME Fail(b) PROVE LiveKept'
      <3>1. job[b].pc \in {"query", "write", "seal"} /\ rejected' = rejected
        BY <2>5 DEF Fail
      <3> QED
        BY <1>u, <1>d, <2>2, <3>1 DEF IndInv, LiveKept, NoneGivenUp, Unpublished
    <2>6. ASSUME Reject(b) PROVE LiveKept'
      <3>1. /\ job[b].pc = "list"
            /\ rejected' = IF job[b].reused THEN rejected ELSE rejected \cup {job[b].gen}
        BY <2>6 DEF Reject
      <3>2. CASE job[b].reused
        BY <1>u, <1>d, <2>2, <3>1, <3>2 DEF IndInv, LiveKept, NoneGivenUp, Unpublished
      <3>3. CASE ~job[b].reused
        <4>1. ASSUME ~overlapped, NoneGivenUp' PROVE FALSE
          <5>1. NoneGivenUp /\ job[b].gen < live.gen
            BY <1>u, <3>1, <3>3, <4>1 DEF NoneGivenUp
          <5>2. live.gen \in Complete
            BY <4>1, <5>1 DEF IndInv, LiveKept, Whole, Complete
          <5>3. Latest(job[b].gen) /\ job[b].gen \in Nat
            BY <1>t, <3>1, <4>1 DEF IndInv, Stages, Drawn, Job
          <5> QED
            BY <1>t, <5>1, <5>2, <5>3 DEF Latest
        <4> QED
          BY <1>u, <4>1 DEF LiveKept
      <3> QED
        BY <3>2, <3>3
    <2>7. DataOrdered'
      BY <1>t, <1>u, <2>2 DEF IndInv, DataOrdered, Active
    <2> QED
      BY <1>4, <1>d, <2>3, <2>4, <2>5, <2>6, <2>7 DEF IndInv
  <1>5. CASE ReuseFails(b)
    <2>1. /\ job[b].pc = "list" /\ job[b].reused /\ rejected' = rejected
          /\ job'[b] = RunQuery
      BY <1>t, <1>5 DEF ReuseFails
    <2>2. /\ job'[b].pc = "query" /\ job'[b].gen = 0 /\ job'[b].sql = config.sql
          /\ job'[b].src = source /\ ~job'[b].reused
      BY <2>1 DEF RunQuery, NoJob
    <2>3. Drawn' /\ SameSql' /\ LiveMatchesConfig' /\ OneBuilder'
      BY <1>u, <2>2 DEF IndInv, Drawn, SameSql, Active, LiveMatchesConfig, OneBuilder
    <2>4. Stages'
      BY <1>u, <1>d, <2>2 DEF IndInv, Stages
    <2>5. LiveKept'
      BY <1>u, <1>d, <2>1, <2>2 DEF IndInv, LiveKept, NoneGivenUp, Unpublished
    <2>6. DataOrdered'
      BY <1>t, <1>u, <2>2 DEF IndInv, DataOrdered, Active
    <2> QED
      BY <1>d, <2>3, <2>4, <2>5, <2>6 DEF IndInv
  <1> QED
    BY <1>1, <1>2, <1>3, <1>4, <1>5

\* The build of b is what is served from now on.
LEMMA PublishInd ==
    ASSUME TypeOK, IndInv, NEW b \in Builders, Publish(b)
    PROVE  IndInv'
  <1>t. /\ job \in [Builders -> Job] /\ source \in Nat /\ config \in Config
        /\ nextGen \in Nat /\ job[b] \in Job /\ job[b].src \in Nat /\ job[b].gen \in Nat
    BY DEF TypeOK, Job
  <1>u. /\ UNCHANGED <<config, source, disk, nextGen, overlapped, rejected>>
        /\ \A c \in Builders \ {b} : job'[c] = job[c]
        /\ job[b].pc = "publish" /\ job'[b] = NoJob
        /\ live'.on = IF job[b].gen = 0 THEN "memory" ELSE "disk"
        /\ live'.gen = job[b].gen /\ live'.sql = job[b].sql /\ live'.src = job[b].src
    BY <1>t DEF Publish, world
  <1>j. /\ job'[b].pc = "idle" /\ job'[b].gen = 0 /\ job'[b].src = 0
        /\ ~job'[b].reused
    BY <1>u DEF NoJob
  <1>d. /\ Complete' = Complete /\ NewestIsWhole'
        /\ \A g : Whole(g)' = Whole(g) /\ Latest(g)' = Latest(g)
    BY <1>u, DiskKept DEF IndInv
  <1>i. ~overlapped => \A c \in Builders : job'[c].pc = "idle"
    BY <1>u, <1>j DEF IndInv, OneBuilder, Active
  <1>1. Drawn' /\ SameSql' /\ OneBuilder'
    BY <1>u, <1>j DEF IndInv, Drawn, SameSql, Active, OneBuilder
  <1>2. LiveMatchesConfig'
    BY <1>u DEF IndInv, SameSql, Active, LiveMatchesConfig
  <1>3. Stages'
    BY <1>u, <1>i DEF Stages
  <1>4. LiveKept'
    <2> SUFFICES ASSUME ~overlapped, NoneGivenUp'
                 PROVE  /\ live'.gen \in Gens /\ Whole(live'.gen)
                        /\ Latest(live'.gen)
      BY <1>u, <1>d, <1>i, <1>t DEF LiveKept, Latest, Complete, Gens
    <2>1. job[b].gen # 0
      BY <1>u DEF NoneGivenUp
    <2> QED
      BY <1>u, <2>1 DEF IndInv, Stages, Drawn
  <1>5. DataOrdered'
    BY <1>t, <1>u, <1>j, <1>i DEF IndInv, DataOrdered, Active
  <1> QED
    BY <1>d, <1>1, <1>2, <1>3, <1>4, <1>5 DEF IndInv

\* A new directory: unsealed, so none of the sealed ones.
LEMMA SpillInd ==
    ASSUME TypeOK, IndInv, NEW b \in Builders, Spill(b)
    PROVE  IndInv'
  <1>t. /\ job \in [Builders -> Job] /\ disk \in [Gens -> Dir]
        /\ nextGen \in Nat \ {0} /\ job[b] \in Job /\ nextGen \in Gens
    BY DEF TypeOK, Spill, Gens
  <1>u. /\ UNCHANGED <<config, source, live, overlapped, rejected>>
        /\ nextGen' = nextGen + 1 /\ job[b].pc = "query"
        /\ \A c \in Builders \ {b} : job'[c] = job[c]
        /\ job'[b].pc = "write" /\ job'[b].gen = nextGen /\ job'[b].sql = job[b].sql
        /\ job'[b].src = job[b].src /\ job'[b].reused = job[b].reused
    BY <1>t DEF Spill, world, Job
  <1>r. ~job[b].reused
    BY <1>u DEF IndInv, Drawn
  <1>d. /\ \A g \in Gens \ {nextGen} : disk'[g] = disk[g]
        /\ disk'[nextGen].data = "some" /\ ~disk'[nextGen].manifest
        /\ ~disk[nextGen].manifest
    BY <1>t DEF Spill, TypeOK, NoDir
  <1>c. /\ Complete' = Complete /\ nextGen \notin Complete
        /\ \A g : Latest(g)' = Latest(g)
        /\ \A g \in Complete : Whole(g)' = Whole(g)
    BY <1>d DEF Complete, Whole, Latest
  <1>i. ~overlapped => \A c \in Builders \ {b} : job'[c].pc = "idle"
    BY <1>u DEF IndInv, OneBuilder, Active
  <1>1. Drawn'
    BY <1>t, <1>u DEF IndInv, Drawn, Gens
  <1>2. SameSql' /\ LiveMatchesConfig' /\ OneBuilder'
    BY <1>u DEF IndInv, SameSql, Active, LiveMatchesConfig, OneBuilder
  <1>3. Stages'
    BY <1>u, <1>r, <1>d, <1>i DEF Stages
  <1>4. NewestIsWhole'
    BY <1>u, <1>c, NewestWhole, NewestWholePrimed DEF IndInv
  <1>5. LiveKept'
    <2> SUFFICES ASSUME ~overlapped, NoneGivenUp PROVE LiveKept'
      BY <1>u DEF LiveKept, NoneGivenUp
    <2>1. live.gen \in Complete
      BY DEF IndInv, LiveKept, Whole, Complete
    <2> QED
      BY <1>u, <1>c, <1>i, <2>1 DEF IndInv, LiveKept, NoneGivenUp, Unpublished
  <1>6. DataOrdered'
    BY <1>u DEF IndInv, DataOrdered, Active
  <1> QED
    BY <1>1, <1>2, <1>3, <1>4, <1>5, <1>6 DEF IndInv

\* The files are written; the directory is still unsealed.
LEMMA CloseInd ==
    ASSUME TypeOK, IndInv, NEW b \in Builders, Close(b)
    PROVE  IndInv'
  <1>t. /\ job \in [Builders -> Job] /\ disk \in [Gens -> Dir] /\ job[b] \in Job
        /\ job[b].gen \in Gens
    BY DEF TypeOK, Close, IndInv, Drawn
  <1>u. /\ UNCHANGED <<config, source, live, overlapped, rejected, nextGen>>
        /\ job[b].pc = "write"
        /\ \A c \in Builders \ {b} : job'[c] = job[c]
        /\ job'[b].pc = "seal" /\ job'[b].gen = job[b].gen /\ job'[b].sql = job[b].sql
        /\ job'[b].src = job[b].src /\ job'[b].reused = job[b].reused
    BY <1>t DEF Close, Moves, world, Job
  <1>d. /\ \A g \in Gens \ {job[b].gen} : disk'[g] = disk[g]
        /\ disk[job[b].gen].data = "some" => disk'[job[b].gen].data = "all"
        /\ disk'[job[b].gen].manifest = disk[job[b].gen].manifest
    BY <1>t DEF Close, Dir
  <1>c. Complete' = Complete /\ \A g : Latest(g)' = Latest(g)
    BY <1>d DEF Complete, Latest
  <1>n. ~overlapped => /\ job[b].gen \notin Complete
                       /\ \A g \in Complete : Whole(g)' = Whole(g)
    BY <1>u, <1>d DEF IndInv, Stages, Complete, Whole
  <1>i. ~overlapped => \A c \in Builders \ {b} : job'[c].pc = "idle"
    BY <1>u DEF IndInv, OneBuilder, Active
  <1>1. Drawn' /\ SameSql' /\ LiveMatchesConfig' /\ OneBuilder'
    BY <1>u DEF IndInv, Drawn, SameSql, Active, LiveMatchesConfig, OneBuilder
  <1>3. Stages'
    BY <1>u, <1>d, <1>i DEF IndInv, Stages
  <1>4. NewestIsWhole'
    BY <1>u, <1>c, <1>n, NewestWhole, NewestWholePrimed DEF IndInv
  <1>5. LiveKept'
    <2> SUFFICES ASSUME ~overlapped, NoneGivenUp PROVE LiveKept'
      BY <1>u DEF LiveKept, NoneGivenUp
    <2>1. live.gen \in Complete
      BY DEF IndInv, LiveKept, Whole, Complete
    <2> QED
      BY <1>u, <1>c, <1>n, <1>i, <2>1 DEF IndInv, LiveKept, NoneGivenUp, Unpublished
  <1>6. DataOrdered'
    BY <1>u DEF IndInv, DataOrdered, Active
  <1> QED
    BY <1>1, <1>3, <1>4, <1>5, <1>6 DEF IndInv

\* The manifest: the directory becomes the newest of the sealed ones.
LEMMA SealInd ==
    ASSUME TypeOK, IndInv, NEW b \in Builders, Seal(b)
    PROVE  IndInv'
  <1>t. /\ job \in [Builders -> Job] /\ disk \in [Gens -> Dir] /\ job[b] \in Job
        /\ job[b].gen \in Gens /\ nextGen \in Nat /\ job[b].gen < nextGen
    BY DEF TypeOK, Seal, IndInv, Drawn
  <1>u. /\ UNCHANGED <<config, source, live, overlapped, rejected, nextGen>>
        /\ job[b].pc = "seal"
        /\ \A c \in Builders \ {b} : job'[c] = job[c]
        /\ job'[b].pc = "gclist" /\ job'[b].gen = job[b].gen /\ job'[b].sql = job[b].sql
        /\ job'[b].src = job[b].src /\ job'[b].reused = job[b].reused
    BY <1>t DEF Seal, Moves, world, Job
  <1>d. /\ \A g \in Gens \ {job[b].gen} : disk'[g] = disk[g]
        /\ disk'[job[b].gen].data = disk[job[b].gen].data
        /\ disk'[job[b].gen].manifest
    BY <1>t DEF Seal
  <1>c. Complete' = Complete \cup {job[b].gen}
    BY <1>t, <1>d DEF Complete
  <1>i. ~overlapped => \A c \in Builders \ {b} : job'[c].pc = "idle"
    BY <1>u DEF IndInv, OneBuilder, Active
  <1>n. ~overlapped => /\ job[b].gen \notin Complete /\ ~job[b].reused
                       /\ \A g \in Complete : Whole(g)' = Whole(g) /\ g <= job[b].gen
                       /\ Whole(job[b].gen)' /\ nextGen = job[b].gen + 1
    <2>1. \A g \in Complete : g \in Gens /\ g < nextGen
      BY SealedDrawn
    <2>2. ~overlapped => /\ job[b].gen \notin Complete /\ ~job[b].reused
                         /\ nextGen = job[b].gen + 1 /\ disk[job[b].gen].data = "all"
      BY <1>u DEF IndInv, Stages, Complete
    <2> QED
      BY <1>t, <1>u, <1>d, <2>1, <2>2 DEF Whole, Gens, Complete
  <1>1. Drawn' /\ SameSql' /\ LiveMatchesConfig' /\ OneBuilder'
    BY <1>u DEF IndInv, Drawn, SameSql, Active, LiveMatchesConfig, OneBuilder
  <1>3. Stages'
    BY <1>u, <1>n, <1>i DEF Stages
  <1>4. NewestIsWhole'
    <2>1. ASSUME ~overlapped, NEW g \in Complete', Latest(g)' PROVE Whole(g)'
      <3>1. job[b].gen <= g /\ g \in Gens
        BY <1>c, <2>1, CompleteGens, <1>t DEF Latest
      <3>2. g = job[b].gen
        BY <1>t, <1>c, <1>n, <2>1, <3>1 DEF Gens
      <3> QED
        BY <1>u, <1>n, <2>1, <3>2
    <2> QED
      BY <1>u, <2>1, NewestWholePrimed
  <1>5. LiveKept'
    <2> SUFFICES ASSUME ~overlapped, NoneGivenUp PROVE LiveKept'
      BY <1>u DEF LiveKept, NoneGivenUp
    <2>1. live.gen \in Complete
      BY DEF IndInv, LiveKept, Whole, Complete
    <2>2. Unpublished(b, job[b].gen)'
      BY <1>u, <1>n DEF Unpublished
    <2>3. \A h \in Complete : ~(h > live.gen)
      BY <1>u, <1>i DEF IndInv, LiveKept, Unpublished, OneBuilder, Active
    <2> QED
      BY <1>u, <1>c, <1>n, <1>i, <2>1, <2>2, <2>3 DEF IndInv, LiveKept, NoneGivenUp
  <1>6. DataOrdered'
    BY <1>u DEF IndInv, DataOrdered, Active
  <1> QED
    BY <1>1, <1>3, <1>4, <1>5, <1>6 DEF IndInv

\* A collection spares the sealed directories it keeps, and seals none.
LEMMA RemoveKeeps ==
    ASSUME TypeOK, NEW keep, Remove(Victims(keep))
    PROVE  /\ Complete' \subseteq Complete
           /\ \A g \in Complete : g \in keep => g \in Complete' /\ Whole(g)' = Whole(g)
  <1>1. PICK fate \in [Victims(keep) -> {"gone", "partly", "unreached"}] :
            disk' = [g \in Gens |->
                CASE g \in Victims(keep) /\ fate[g] = "gone" -> NoDir
                  [] g \in Victims(keep) /\ fate[g] = "partly" ->
                       [disk[g] EXCEPT !.data = "some"]
                  [] OTHER -> disk[g]]
    BY DEF Remove
  <1>2. ASSUME NEW g \in Gens
        PROVE  /\ disk'[g] \in {NoDir, disk[g], [disk[g] EXCEPT !.data = "some"]}
               /\ g \notin Victims(keep) => disk'[g] = disk[g]
    BY <1>1, <1>2
  <1>3. \A g \in Gens : [disk[g] EXCEPT !.data = "some"].manifest = disk[g].manifest
    BY DEF TypeOK, Dir
  <1>4. ASSUME NEW g \in Gens, disk'[g].manifest PROVE disk[g].manifest
    <2>1. ~NoDir.manifest
      BY DEF NoDir
    <2> QED
      BY <1>2, <1>3, <1>4, <2>1
  <1>5. \A g \in Complete : g \in keep => g \notin Victims(keep)
    BY DEF Victims, Complete
  <1> QED
    BY <1>2, <1>4, <1>5 DEF Complete, Whole

LEMMA GcDeleteInd ==
    ASSUME TypeOK, IndInv, NEW b \in Builders, GcDelete(b)
    PROVE  IndInv'
  <1>t. /\ job \in [Builders -> Job] /\ disk \in [Gens -> Dir] /\ job[b] \in Job
        /\ job[b].gen \in Gens /\ nextGen \in Nat
    BY DEF TypeOK, GcDelete, IndInv, Drawn
  <1>u. /\ UNCHANGED <<config, source, live, overlapped, rejected, nextGen>>
        /\ job[b].pc = "gc"
        /\ \A c \in Builders \ {b} : job'[c] = job[c]
        /\ job'[b].pc = "list" /\ job'[b].gen = job[b].gen /\ job'[b].sql = job[b].sql
        /\ job'[b].src = job[b].src /\ job'[b].reused = job[b].reused
    BY <1>t DEF GcDelete, world, Job
  <1>d. /\ Complete' \subseteq Complete
        /\ \A g \in Complete :
             g \in job[b].keep => g \in Complete' /\ Whole(g)' = Whole(g)
    BY RemoveKeeps DEF GcDelete
  <1>i. ~overlapped => \A c \in Builders \ {b} : job'[c].pc = "idle"
    BY <1>u DEF IndInv, OneBuilder, Active
  <1>n. ~overlapped => /\ job[b].gen \in Complete /\ Latest(job[b].gen)
                       /\ job[b].gen \in job[b].keep /\ Whole(job[b].gen)
    <2>1. \A g \in Complete : g \in Gens /\ g < nextGen
      BY SealedDrawn
    <2>2. ~overlapped => /\ nextGen = job[b].gen + 1 /\ Whole(job[b].gen)
                         /\ job[b].gen \in job[b].keep
      BY <1>u DEF IndInv, Stages
    <2> QED
      BY <1>t, <2>1, <2>2 DEF Whole, Gens, Complete, Latest
  <1>w. ~overlapped => Whole(job[b].gen)' /\ Latest(job[b].gen)' /\ job[b].gen \in Complete'
    BY <1>u, <1>d, <1>n DEF Latest
  <1>1. Drawn' /\ SameSql' /\ LiveMatchesConfig' /\ OneBuilder'
    BY <1>u DEF IndInv, Drawn, SameSql, Active, LiveMatchesConfig, OneBuilder
  <1>3. Stages'
    BY <1>u, <1>w, <1>i DEF Stages
  <1>4. NewestIsWhole'
    <2>1. ASSUME ~overlapped, NEW g \in Complete', Latest(g)' PROVE Whole(g)'
      <3>1. g <= job[b].gen /\ job[b].gen <= g /\ g \in Gens
        BY <1>u, <1>w, <2>1 DEF Latest, Complete
      <3> QED
        BY <1>t, <1>u, <1>w, <2>1, <3>1 DEF Gens
    <2> QED
      BY <1>u, <2>1, NewestWholePrimed
  <1>5. LiveKept'
    <2> SUFFICES ASSUME ~overlapped, NoneGivenUp PROVE LiveKept'
      BY <1>u DEF LiveKept, NoneGivenUp
    <2>1. live.gen \in Complete /\ live.gen \in job[b].keep /\ Whole(live.gen)
      BY <1>u DEF IndInv, LiveKept, Whole, Complete
    <2>2. \A h : Unpublished(b, h) => Unpublished(b, h)'
      BY <1>u DEF Unpublished
    <2>3. \A h \in Complete : h > live.gen => Unpublished(b, h)
      BY <1>u, <1>i DEF IndInv, LiveKept, Unpublished, OneBuilder, Active
    <2> QED
      BY <1>u, <1>d, <1>i, <2>1, <2>2, <2>3 DEF IndInv, LiveKept, NoneGivenUp
  <1>6. DataOrdered'
    BY <1>u DEF IndInv, DataOrdered, Active
  <1> QED
    BY <1>1, <1>3, <1>4, <1>5, <1>6 DEF IndInv

\* A restart keeps the directories only; a collection it cuts short leaves the
\* newest one whole.
LEMMA RestartInd ==
    ASSUME TypeOK, IndInv, Restart
    PROVE  IndInv'
  <1>u. /\ \A b \in Builders : job'[b] = NoJob
        /\ live' = NoLive /\ UNCHANGED <<source, nextGen, overlapped>>
    BY DEF Restart
  <1>1. \A b \in Builders : /\ ~Active(b)' /\ job'[b].pc = "idle" /\ ~job'[b].reused
                            /\ job'[b].gen = 0 /\ job'[b].src = 0
    BY <1>u DEF Active, NoJob
  <1>2. Drawn' /\ SameSql' /\ OneBuilder' /\ Stages'
    BY <1>1 DEF Drawn, SameSql, OneBuilder, Stages
  <1>3. LiveMatchesConfig' /\ LiveKept'
    BY <1>u DEF LiveMatchesConfig, LiveKept, NoneGivenUp, NoLive
  <1>4. DataOrdered'
    BY <1>u, <1>1 DEF DataOrdered, NoLive, TypeOK
  <1>5. CASE UNCHANGED disk
    BY <1>2, <1>3, <1>4, <1>5, <1>u, DiskKept DEF IndInv
  <1>6. ASSUME NEW b \in Builders, job[b].pc = "gc", Remove(Victims(job[b].keep))
        PROVE  NewestIsWhole'
    <2>1. /\ Complete' \subseteq Complete
          /\ \A g \in Complete :
               g \in job[b].keep => g \in Complete' /\ Whole(g)' = Whole(g)
      BY <1>6, RemoveKeeps
    <2>2. ASSUME ~overlapped, NEW g \in Complete', Latest(g)' PROVE Whole(g)'
      <3>1. \A h \in Complete : h \in Gens /\ h < nextGen
        BY SealedDrawn
      <3>2. PICK k \in Gens :
                nextGen = k + 1 /\ Whole(k) /\ k \in job[b].keep /\ k \in Complete
        BY <1>6, <2>2 DEF IndInv, Stages, Drawn, Complete, Whole
      <3>3. k \in Complete' /\ Whole(k)'
        BY <2>1, <3>2
      <3>4. g <= k /\ k <= g /\ g \in Gens
        BY <2>1, <2>2, <3>1, <3>2, <3>3 DEF Latest, Gens
      <3> QED
        BY <3>2, <3>3, <3>4 DEF Gens
    <2> QED
      BY <1>u, <2>2, NewestWholePrimed
  <1> QED
    BY <1>2, <1>3, <1>4, <1>5, <1>6 DEF IndInv, Restart

LEMMA StepInd ==
    ASSUME TypeOK, IndInv, [Next]_vars
    PROVE  IndInv'
  <1>1. CASE UNCHANGED vars
    BY <1>1 DEF vars, IndInv, Drawn, SameSql, LiveMatchesConfig, OneBuilder, Stages,
                NewestIsWhole, LiveKept, DataOrdered, Active, Whole, Complete, Latest,
                NoneGivenUp, Unpublished, Newest
  <1>2. CASE SourceChanges
    <2>1. UNCHANGED <<config, disk, nextGen, live, job, rejected, overlapped>>
          /\ source' = source + 1
      BY <1>2 DEF SourceChanges
    <2>2. /\ Complete' = Complete /\ NewestIsWhole'
          /\ \A g : Whole(g)' = Whole(g) /\ Latest(g)' = Latest(g)
      BY <2>1, DiskKept DEF IndInv
    <2>3. Drawn' /\ SameSql' /\ LiveMatchesConfig' /\ OneBuilder'
      BY <2>1 DEF IndInv, Drawn, SameSql, Active, LiveMatchesConfig, OneBuilder
    <2>4. Stages' /\ LiveKept'
      BY <2>1, <2>2 DEF IndInv, Stages, LiveKept, NoneGivenUp, Unpublished
    <2>5. DataOrdered'
      BY <2>1 DEF IndInv, DataOrdered, Active, TypeOK, Live, Job
    <2> QED
      BY <2>2, <2>3, <2>4, <2>5 DEF IndInv
  <1>3. ASSUME NEW b \in Builders, Build(b) PROVE IndInv'
    BY <1>3, BeginInd, QuietInd, PublishInd, SpillInd, CloseInd, SealInd, GcDeleteInd
       DEF Build
  <1> QED
    BY <1>1, <1>2, <1>3, RestartInd DEF Next

-----------------------------------------------------------------------------
(***************************************************************************)
(* Theorems.                                                               *)
(***************************************************************************)

\* The inductive invariant: what each stage of a build leaves on disk, what a
\* collection spares, and how the data of a build compares with what is live.
THEOREM InvariantHolds == Spec => [](TypeOK /\ IndInv)
  <1>1. Init => TypeOK /\ IndInv
    BY InitType, InitInd
  <1>2. TypeOK /\ IndInv /\ [Next]_vars => (TypeOK /\ IndInv)'
    <2>1. IndInv => Drawn
      BY DEF IndInv
    <2> QED
      BY <2>1, StepType, StepInd
  <1> QED
    BY <1>1, <1>2, PTL DEF Spec

\* Type correctness, with it that no directory is touched before its ULID is
\* drawn (build_query_dataset, storage.rs).
THEOREM TypeCorrect == Spec => []TypeOK
  BY InvariantHolds, PTL

\* Whatever crashes, fails or is collected, the newest directory with a
\* manifest has all its files, unless a startup build and a reload ran side by
\* side: what try_reuse_generation opens at the next boot can be read.
THEOREM ReuseIsSafe == Spec => []NewestIsWhole
  <1>1. IndInv => NewestIsWhole
    BY DEF IndInv
  <1> QED
    BY <1>1, InvariantHolds, PTL

\* The collection of a later build never takes the files of the table that is
\* served, unless a generation sealed after it was given up.
THEOREM ServedFilesStay == Spec => []LiveOnDisk
  <1>1. IndInv => LiveOnDisk
    BY DEF IndInv, LiveKept, NoneGivenUp, LiveOnDisk
  <1> QED
    BY <1>1, InvariantHolds, PTL

\* What is served was produced by the SQL of the current configuration.
THEOREM ServesConfiguredSql == Spec => []LiveMatchesConfig
  <1>1. IndInv => LiveMatchesConfig
    BY DEF IndInv
  <1> QED
    BY <1>1, InvariantHolds, PTL

\* Without reuse_on_start, and with one builder at a time, a publish never
\* replaces newer data by older.
THEOREM DataNeverOlder == Spec => NeverOlder
  <1>1. TypeOK /\ IndInv /\ [Next]_vars =>
            [(live.on # "none" /\ live'.on # "none"
                /\ ~config.reuse_on_start /\ ~overlapped) => live'.src >= live.src]_vars
    <2> SUFFICES ASSUME TypeOK, IndInv, Next, live.on # "none", live'.on # "none",
                        ~config.reuse_on_start, ~overlapped
                 PROVE  live'.src >= live.src
      OBVIOUS
    <2>t. live.src \in Nat
      BY DEF TypeOK, Live
    <2>1. CASE live' = live
      BY <2>1, <2>t
    <2>2. ASSUME NEW b \in Builders, Publish(b) PROVE live'.src >= live.src
      <3>1. job[b].src \in Nat /\ live'.src = job[b].src /\ Active(b)
        BY <2>2 DEF TypeOK, Job, Publish, Active
      <3>2. live.src <= job[b].src
        BY <3>1 DEF IndInv, DataOrdered
      <3> QED
        BY <2>t, <3>1, <3>2
    <2>3. ASSUME Restart PROVE FALSE
      BY <2>3 DEF Restart, NoLive
    <2> QED
      BY <2>1, <2>2, <2>3 DEF Next, Build, Begin, Collect, Spill, Close, Seal, GcList,
                              GcDelete, List, Fail, Reject, ReuseFails, SourceChanges
  <1> QED
    BY <1>1, InvariantHolds, PTL DEF Spec, NeverOlder

=============================================================================
