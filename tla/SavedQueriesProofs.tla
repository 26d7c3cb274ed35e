------------------------- MODULE SavedQueriesProofs -------------------------
(***************************************************************************)
(* Proofs about the saved queries, for every number of requests, restarts  *)
(* and datasets and every set of definitions.                              *)
(*                                                                         *)
(* What has to be added to the properties to make them inductive:          *)
(* - the types of all variables (Typed), which request may be at which     *)
(*   step (Shaped), and that nothing is in memory while the process is     *)
(*   down (Stopped);                                                       *)
(* - a name that is not in raced has one request at work (Alone), which    *)
(*   has taken the acknowledgement back before it touches the file, has    *)
(*   the file written before it registers (Written), and removes a managed *)
(*   dataset only (Removable);                                             *)
(* - a deletion that is past its check has no dependent in the registry or *)
(*   on its way, unless it is in undercut (NoReaders), and a dataset that  *)
(*   is about to be published has its dependencies (Prepared).             *)
(***************************************************************************)
EXTENDS SavedQueries, FiniteSetTheorems, TLAPS

Operation == {"none", "create", "async", "register", "config", "delete"}
Pc == {"idle", "persist", "write", "register", "publish", "unregister", "unlink"}
Entry == [at : Nat, def : Dataset]
Request == [op : Operation, def : Dataset, pc : Pc, todo : SUBSET Entry]
File == [state : {"none", "torn", "whole"}, def : Dataset]
Registered == [state : {"absent", "failed", "ready"}, def : Dataset, inc : Nat]

Typed ==
    /\ up \in {"up", "down", "refused"}
    /\ "datasets" \in DOMAIN main /\ main.datasets \in Seq(Dataset)
    /\ dir \in [Names -> File]
    /\ registry \in [Names -> Registered]
    /\ ttl \subseteq [name : Names, inc : Nat, due : BOOLEAN]
    /\ task \in [Tasks -> Request]
    /\ calls \in 0 .. MaxCalls /\ crashes \in 0 .. MaxCrashes /\ births \in Nat
    /\ acked \in [Names -> SUBSET Dataset]
    /\ raced \subseteq Names /\ undercut \subseteq Names

\* A name has at most one acknowledged definition.
OneAnswer == \A n \in Names : \A d, e \in acked[n] : d = e

\* Which request may be where.
Shaped ==
    \A t \in Tasks :
        /\ task[t].op = "none" <=> task[t].pc = "idle"
        /\ task[t].pc \in {"persist", "write"} => task[t].op \in {"create", "async"}
        /\ task[t].op = "delete" <=> task[t].pc \in {"unregister", "unlink"}
        /\ task[t].op # "config" => task[t].todo = {}

\* Nothing is in memory while the process is down.
Stopped ==
    up # "up" =>
        /\ \A n \in Names : registry[n].state = "absent"
        /\ \A t \in Tasks : task[t].pc = "idle"

\* A dataset is registered under its name.
Named == \A n \in Known : registry[n].def.name = n

\* t is at work on n.
At(t, n) == task[t].pc # "idle" /\ task[t].def.name = n

Alone ==
    \A n \in Names \ raced : \A t, u \in Tasks : At(t, n) /\ At(u, n) => t = u

\* While the file of n is in doubt nothing is acknowledged; a create that has
\* left the disk behind has its file there.
Written ==
    \A n \in Names \ raced : \A t \in Tasks : At(t, n) =>
        /\ task[t].pc \in {"persist", "write", "unregister", "unlink"} => acked[n] = {}
        /\ /\ task[t].op = "create" /\ ~task[t].def.temp
           /\ task[t].pc \in {"register", "publish"}
           => dir[n] = [state |-> "whole", def |-> to_managed_toml(task[t].def)]

\* What a deletion finds is managed.
Removable ==
    \A n \in Names \ raced : \A t \in Tasks :
        At(t, n) /\ task[t].pc = "unregister" /\ n \in Known => registry[n].def.managed

\* The dependency x is accounted for.
Covered(x) ==
    \/ x \in undercut
    \/ \E m \in Known : Lower[m] = Lower[x]
    \/ \E m \in Names : m # x /\ Lower[m] \in {x, Lower[x]}

Prepared ==
    \A t \in Tasks : task[t].pc = "publish" =>
        \A x \in Range(task[t].def.depends_on) : Covered(x)

\* t reads x, or is going to register something that does.
Reads(t, x) ==
    /\ task[t].pc # "idle"
    /\ \/ x \in Range(task[t].def.depends_on)
       \/ \E e \in task[t].todo : x \in Range(e.def.depends_on)

NoReaders ==
    \A n \in Names \ undercut : \A t \in Tasks :
        At(t, n) /\ task[t].pc = "unregister" =>
            /\ \A q \in Known : n \notin Range(registry[q].def.depends_on)
            /\ \A u \in Tasks : ~Reads(u, n)

DiskInv == OneAnswer /\ Shaped /\ Stopped /\ Named /\ Alone /\ Written /\ Removable /\ AckedOnDisk
ReadersInv == Prepared /\ NoReaders /\ DependencyPresent

IndInv == DiskInv /\ ReadersInv

-----------------------------------------------------------------------------
(***************************************************************************)
(* Sets as sequences, and the definitions of datasets.                     *)
(***************************************************************************)

\* SetToSeq lists a finite set.
LEMMA SetToSeqLists ==
    ASSUME NEW S, IsFiniteSet(S)
    PROVE  /\ SetToSeq(S) \in Seq(S)
           /\ Range(SetToSeq(S)) = S
<1>. DEFINE k == Cardinality(S)
<1>1. k \in Nat /\ ExistsBijection(1 .. k, S)
    BY FS_CardinalityType
<1>2. \E f \in [1 .. k -> S] : IsInjective(f)
    <2>1. PICK f \in Bijection(1 .. k, S) : TRUE
        BY <1>1 DEF ExistsBijection
    <2>. QED
        BY <2>1 DEF Bijection, Injection
<1>3. SetToSeq(S) \in [1 .. k -> S] /\ IsInjective(SetToSeq(S))
    BY <1>2 DEF SetToSeq
<1>4. SetToSeq(S) \in Injection(1 .. k, S)
    BY <1>3 DEF Injection
<1>5. IsFiniteSet(1 .. k) /\ Cardinality(1 .. k) = k
    <2>1. Cardinality(1 .. k) = IF 1 > k THEN 0 ELSE k - 1 + 1
        BY <1>1, FS_Interval
    <2>2. IsFiniteSet(1 .. k)
        BY <1>1, FS_Interval
    <2>. HIDE DEF k
    <2>. QED
        BY <1>1, <2>1, <2>2
<1>6. SetToSeq(S) \in Surjection(1 .. k, S)
    BY <1>4, <1>5, FS_Injection
<1>. QED
    BY <1>1, <1>3, <1>6 DEF Surjection, Range

\* The forms a definition takes on its way keep its name.
LEMMA Forms ==
    ASSUME NEW d \in Dataset
    PROVE  /\ to_toml_block(d) \in Dataset
           /\ to_managed_toml(d) \in Dataset
<1>. DEFINE a == to_toml_block(d)
            b == to_managed_toml(d)
<1>1. NoFilter \in ColumnFilter
    BY DEF NoFilter, ColumnFilter
<1>2. a \in Dataset
    <2>1. ASSUME NEW e \in Dataset
          PROVE  /\ [e EXCEPT !.refresh = "none"] \in Dataset
                 /\ [e EXCEPT !.materialize = "none"] \in Dataset
                 /\ [e EXCEPT !.on_start = "eager"] \in Dataset
        BY DEF Dataset
    <2>2. ASSUME NEW e \in Dataset
          PROVE  [e EXCEPT !.managed = FALSE] \in Dataset /\ [e EXCEPT !.temp = FALSE] \in Dataset
        BY DEF Dataset
    <2>. DEFINE a1 == [d EXCEPT !.refresh = "none"]
                a2 == [a1 EXCEPT !.materialize = "none"]
                a3 == [a2 EXCEPT !.on_start = "eager"]
                a4 == [a3 EXCEPT !.managed = FALSE]
    <2>3. a1 \in Dataset
        BY <2>1
    <2>4. a2 \in Dataset
        BY <2>1, <2>3
    <2>5. a3 \in Dataset
        BY <2>1, <2>4
    <2>6. a4 \in Dataset
        BY <2>2, <2>5
    <2>7. a = [a4 EXCEPT !.temp = FALSE]
        BY DEF to_toml_block
    <2>. QED
        BY <2>2, <2>6, <2>7
<1>3. b \in Dataset
    BY <1>1 DEF to_managed_toml, Dataset
<1>. QED
    BY <1>2, <1>3

LEMMA InferredForm ==
    ASSUME NEW d \in CreateDefs
    PROVE  /\ Inferred(d) \in Dataset
           /\ Inferred(d).name = d.name /\ d.name \in Names
           /\ Inferred(d).temp = d.temp
           /\ Range(Inferred(d).depends_on) = d.sql
<1>1. d \in Dataset /\ IsFiniteSet(d.sql)
    BY DefsAssumption
<1>2. SetToSeq(d.sql) \in Seq(d.sql) /\ Range(SetToSeq(d.sql)) = d.sql
    BY <1>1, SetToSeqLists
<1>3. SetToSeq(d.sql) \in Seq(STRING)
    BY <1>1, <1>2 DEF Dataset
<1>4. Inferred(d).depends_on = SetToSeq(d.sql)
    BY <1>1 DEF Inferred, Dataset
<1>5. Inferred(d) \in Dataset /\ Inferred(d).name = d.name /\ Inferred(d).temp = d.temp
    <2>. DEFINE a1 == [d EXCEPT !.depends_on = SetToSeq(d.sql)]
                a2 == [a1 EXCEPT !.managed = TRUE]
                r == IF d.temp THEN "none" ELSE d.refresh
    <2>1. a1 \in Dataset /\ a1.name = d.name /\ a1.temp = d.temp
        BY <1>1, <1>3 DEF Dataset
    <2>2. a2 \in Dataset /\ a2.name = d.name /\ a2.temp = d.temp
        BY <2>1 DEF Dataset
    <2>3. r \in {"none", "zero", "interval"}
        BY <1>1 DEF Dataset
    <2>4. Inferred(d) = [a2 EXCEPT !.refresh = r]
        BY <1>1 DEF Inferred, Dataset
    <2>. HIDE DEF a2, r
    <2>. QED
        BY <2>2, <2>3, <2>4 DEF Dataset
<1>. QED
    BY <1>1, <1>2, <1>4, <1>5 DEF Dataset

LEMMA AnyDefType == AnyDef \in Dataset
BY DefsAssumption DEF AnyDef

\* The files, in any order, are definitions.
LEMMA FilesType ==
    ASSUME Typed
    PROVE  FileSeq \in Seq(Dataset)
<1>1. IsFiniteSet(Files)
    <2>1. Files \in SUBSET Names
        BY DEF Files
    <2>. QED
        BY <2>1, NamesAssumption, FS_Subset
<1>2. SetToSeq(Files) \in Seq(Files)
    BY <1>1, SetToSeqLists
<1>3. \A n \in Files : dir[n].def \in Dataset
    BY DEF Files, Typed, File
<1>. DEFINE s == SetToSeq(Files)
<1>4. FileSeq = [i \in DOMAIN s |-> dir[s[i]].def]
    BY DEF FileSeq
<1>. HIDE DEF s
<1>5. s \in Seq(Files)
    BY <1>2 DEF s
<1>. QED
    BY <1>3, <1>4, <1>5

-----------------------------------------------------------------------------
(***************************************************************************)
(* Types.                                                                  *)
(***************************************************************************)

LEMMA ConstantsTyped ==
    /\ AnyDef \in Dataset
    /\ Idle \in Request /\ Absent \in Registered /\ NoFile \in File
    /\ Idle.pc = "idle" /\ Idle.op = "none" /\ Idle.todo = {}
    /\ Absent.state = "absent" /\ NoFile.state = "none"
<1>2. Idle \in Request
    BY AnyDefType DEF Idle, Request, Operation, Pc
<1>. QED
    BY <1>2, AnyDefType DEF Idle, Absent, Registered, NoFile, File

LEMMA FinishTyped ==
    ASSUME Typed, NEW t \in Tasks, Finish(t)
    PROVE  task' \in [Tasks -> Request]
BY ConstantsTyped DEF Typed, Finish

LEMMA GotoTyped ==
    ASSUME Typed, NEW t \in Tasks, NEW pc \in Pc, Goto(t, pc)
    PROVE  task' \in [Tasks -> Request]
BY DEF Typed, Goto, Request

LEMMA DeletedNames ==
    ASSUME Typed, NEW x, Deleting(x) # {}
    PROVE  x \in Names
BY DEF Typed, Deleting, Writing, Request, Dataset

LEMMA InitTyped == Init => Typed
<1>. SUFFICES ASSUME Init PROVE Typed
    OBVIOUS
<1>1. dir \in [Names -> File] /\ registry \in [Names -> Registered]
    BY ConstantsTyped DEF Init
<1>2. task \in [Tasks -> Request]
    BY ConstantsTyped DEF Init
<1>3. acked \in [Names -> SUBSET Dataset]
    BY DEF Init
<1>4. "datasets" \in DOMAIN main /\ main.datasets \in Seq(Dataset)
    BY MainAssumption DEF Init
<1>. QED
    BY <1>1, <1>2, <1>3, <1>4, BoundsAssumption DEF Init, Typed

LEMMA BootTyped ==
    ASSUME Typed, Boot
    PROVE  Typed'
<1>1. registry' \in [Names -> Registered]
    <2>1. CASE UNCHANGED registry
        BY <2>1 DEF Typed
    <2>2. CASE Booted(main.datasets \o FileSeq)
        <3>. DEFINE ds == main.datasets \o FileSeq
        <3>1. ds \in Seq(Dataset)
            BY FilesType DEF Typed
        <3>2. PICK r \in BootRegistry(ds) :
                registry' = [n \in Names |-> IF r[n] = "absent" THEN Absent
                               ELSE [state |-> r[n], def |-> DefOf(ds, n), inc |-> 0]]
            BY <2>2 DEF Booted
        <3>. HIDE DEF ds
        <3>3. r \in [Names -> {"absent", "failed", "ready"}]
            BY DEF BootRegistry
        <3>4. ASSUME NEW n \in Names, r[n] # "absent" PROVE DefOf(ds, n) \in Dataset
            <4>1. n \in NamesOf(ds)
                BY <3>4 DEF BootRegistry
            <4>2. \E d \in Range(ds) : d.name = n
                BY <4>1 DEF NamesOf
            <4>3. DefOf(ds, n) \in Range(ds)
                BY <4>2 DEF DefOf
            <4>. QED
                BY <4>3, <3>1 DEF Range
        <3>5. ASSUME NEW n \in Names
              PROVE  (IF r[n] = "absent" THEN Absent
                      ELSE [state |-> r[n], def |-> DefOf(ds, n), inc |-> 0]) \in Registered
            <4>1. CASE r[n] = "absent"
                BY <4>1, ConstantsTyped
            <4>2. CASE r[n] # "absent"
                BY <4>2, <3>3, <3>4 DEF Registered
            <4>. QED
                BY <4>1, <4>2
        <3>. QED
            BY <3>2, <3>5
    <2>. QED
        BY <2>1, <2>2 DEF Boot
<1>. QED
    BY <1>1 DEF Boot, Typed, disk, bounds, history

LEMMA CrashTyped ==
    ASSUME Typed, Crash
    PROVE  Typed'
<1>1. registry' \in [Names -> Registered] /\ task' \in [Tasks -> Request]
    BY ConstantsTyped DEF Crash
<1>2. crashes' \in 0 .. MaxCrashes
    BY BoundsAssumption DEF Crash, Typed
<1>. QED
    BY <1>1, <1>2 DEF Crash, Typed, disk, history

LEMMA CallsTyped ==
    ASSUME Typed, calls < MaxCalls, calls' = calls + 1
    PROVE  calls' \in 0 .. MaxCalls
BY BoundsAssumption DEF Typed

LEMMA CreateTyped ==
    ASSUME Typed, NEW t \in Tasks, NEW d \in CreateDefs, NEW op \in {"create", "async"},
           CreateCall(t, d, op)
    PROVE  Typed'
<1>1. Inferred(d) \in Dataset /\ d.name \in Names
    BY InferredForm
<1>2. task' \in [Tasks -> Request]
    <2>. DEFINE r == [op |-> op, def |-> Inferred(d), todo |-> {},
                      pc |-> IF d.temp THEN "register" ELSE "persist"]
    <2>1. r \in Request
        BY <1>1 DEF Request, Operation, Pc
    <2>2. task' = [task EXCEPT ![t] = r]
        BY DEF CreateCall
    <2>. HIDE DEF r
    <2>. QED
        BY <2>1, <2>2 DEF Typed
<1>3. raced' \subseteq Names /\ undercut' \subseteq Names
    BY <1>1, DeletedNames DEF CreateCall, Typed
<1>4. acked' \in [Names -> SUBSET Dataset]
    BY <1>1 DEF CreateCall, Typed
<1>5. calls' \in 0 .. MaxCalls
    BY CallsTyped DEF CreateCall, Call
<1>. QED
    BY <1>2, <1>3, <1>4, <1>5 DEF CreateCall, Typed, disk

LEMMA RegisterTyped ==
    ASSUME Typed, NEW t \in Tasks, NEW d \in ApiDefs, RegisterCall(t, d)
    PROVE  Typed'
<1>1. d \in Dataset /\ d.name \in Names
    BY DefsAssumption DEF Dataset
<1>2. task' \in [Tasks -> Request]
    <2>. DEFINE r == [op |-> "register", def |-> d, pc |-> "register", todo |-> {}]
    <2>1. r \in Request
        BY <1>1 DEF Request, Operation, Pc
    <2>2. task' = [task EXCEPT ![t] = r]
        BY DEF RegisterCall
    <2>. HIDE DEF r
    <2>. QED
        BY <2>1, <2>2 DEF Typed
<1>3. raced' \subseteq Names /\ undercut' \subseteq Names
    BY <1>1, DeletedNames DEF RegisterCall, Typed
<1>5. calls' \in 0 .. MaxCalls
    BY CallsTyped DEF RegisterCall, Call
<1>. QED
    BY <1>2, <1>3, <1>5 DEF RegisterCall, Typed, disk

LEMMA DeleteTyped ==
    ASSUME Typed, NEW t \in Tasks, NEW n \in Names, DeleteCall(t, n)
    PROVE  Typed'
<1>2. task' \in [Tasks -> Request]
    <2>. DEFINE r == [op |-> "delete", def |-> registry[n].def,
                      pc |-> "unregister", todo |-> {}]
    <2>1. r \in Request
        BY DEF Request, Operation, Pc, Typed, Registered
    <2>2. task' = [task EXCEPT ![t] = r]
        BY DEF DeleteCall
    <2>. HIDE DEF r
    <2>. QED
        BY <2>1, <2>2 DEF Typed
<1>3. raced' \subseteq Names /\ undercut' \subseteq Names
    BY DEF DeleteCall, Typed
<1>4. acked' \in [Names -> SUBSET Dataset]
    BY DEF DeleteCall, Typed
<1>5. calls' \in 0 .. MaxCalls
    BY CallsTyped DEF DeleteCall, Call
<1>. QED
    BY <1>2, <1>3, <1>4, <1>5 DEF DeleteCall, Typed, disk

LEMMA EntriesType ==
    ASSUME NEW ds \in Seq(Dataset)
    PROVE  Entries(ds) \subseteq Entry
BY DEF Entries, Entry

\* What reload_config is going to register.
Pending == {e \in Entries(main.datasets \o FileSeq) : e.def.name \notin Ready}

LEMMA PendingType ==
    ASSUME Typed
    PROVE  Pending \subseteq Entry
<1>1. main.datasets \o FileSeq \in Seq(Dataset)
    BY FilesType DEF Typed
<1>. QED
    BY <1>1, EntriesType DEF Pending

LEMMA ReloadIs ==
    ASSUME NEW t \in Tasks, ReloadConfig(t)
    PROVE  /\ \E e \in Pending :
                task' = [task EXCEPT ![t] = [op |-> "config", def |-> e.def,
                                             pc |-> "register", todo |-> Pending \ {e}]]
           /\ raced' = raced \cup
                {n \in Names : Writing(n) # {} /\ \E e \in Pending : e.def.name = n}
           /\ undercut' = undercut \cup
                {n \in Names : Deleting(n) # {} /\ \E e \in Pending : n \in Range(e.def.depends_on)}
           /\ UNCHANGED <<up, disk, registry, ttl, crashes, births, acked>>
BY DEF ReloadConfig, Pending, First

LEMMA ReloadTyped ==
    ASSUME Typed, NEW t \in Tasks, ReloadConfig(t)
    PROVE  Typed'
<1>1. Pending \subseteq Entry
    BY PendingType
<1>2. PICK e \in Pending :
        task' = [task EXCEPT ![t] = [op |-> "config", def |-> e.def,
                                     pc |-> "register", todo |-> Pending \ {e}]]
    BY ReloadIs
<1>3. task' \in [Tasks -> Request]
    <2>. DEFINE r == [op |-> "config", def |-> e.def, pc |-> "register", todo |-> Pending \ {e}]
    <2>1. r \in Request
        BY <1>1 DEF Request, Operation, Pc, Entry
    <2>. HIDE DEF r
    <2>. QED
        BY <2>1, <1>2 DEF Typed, r
<1>4. raced' \subseteq Names /\ undercut' \subseteq Names
    BY ReloadIs DEF Typed
<1>5. calls' \in 0 .. MaxCalls
    BY CallsTyped DEF ReloadConfig, Call
<1>. QED
    BY <1>3, <1>4, <1>5, ReloadIs DEF Typed, disk

LEMMA AfterTyped ==
    ASSUME Typed, NEW t \in Tasks, AfterRegister(t)
    PROVE  task' \in [Tasks -> Request] /\ raced' \subseteq Names
<1>1. CASE Finish(t) /\ UNCHANGED raced
    BY <1>1, FinishTyped DEF Typed
<1>2. CASE ~(Finish(t) /\ UNCHANGED raced)
    <2>1. task[t] \in Request /\ task[t].todo \in SUBSET Entry
        BY DEF Typed, Request
    <2>2. PICK e \in First(task[t].todo) : TakeNext(t, e)
        BY <1>2 DEF AfterRegister
    <2>3. e \in Entry /\ e.def \in Dataset /\ e.def.name \in Names
        BY <2>1 DEF First, Entry, Dataset
    <2>4. [task[t] EXCEPT !.def = e.def, !.pc = "register", !.todo = task[t].todo \ {e}]
            \in Request
        BY <2>1, <2>3 DEF Request, Pc
    <2>5. task' \in [Tasks -> Request]
        BY <2>2, <2>4 DEF Typed, TakeNext
    <2>. QED
        BY <2>2, <2>3, <2>5 DEF Typed, TakeNext
<1>. QED
    BY <1>1, <1>2

\* The steps of a request.
LEMMA ProgressTyped ==
    ASSUME Typed, NEW t \in Tasks, Progress(t) \/ Drop(t)
    PROVE  Typed'
<1>t. task[t] \in Request /\ task[t].def \in Dataset /\ task[t].def.name \in Names
    BY DEF Typed, Request, Dataset
<1>1. CASE PersistOpen(t)
    <2>1. dir' \in [Names -> File] /\ task' \in [Tasks -> Request]
        <3>1. task' \in [Tasks -> Request]
            BY <1>1, GotoTyped DEF PersistOpen, Pc
        <3>. QED
            BY <1>1, <1>t, <3>1 DEF PersistOpen, Typed, File
    <2>. QED
        BY <1>1, <2>1 DEF PersistOpen, Typed, disk, bounds, history
<1>2. CASE PersistWrite(t)
    <2>1. task' \in [Tasks -> Request]
        BY <1>2, GotoTyped DEF PersistWrite, Pc
    <2>2. dir' \in [Names -> File]
        <3>1. [state |-> "whole", def |-> to_managed_toml(task[t].def)] \in File
            BY <1>t, Forms DEF File
        <3>. QED
            BY <1>2, <1>t, <3>1 DEF PersistWrite, Typed
    <2>3. acked' \in [Names -> SUBSET Dataset]
        BY <1>2, <1>t DEF PersistWrite, Ack, Typed
    <2>. QED
        BY <1>2, <2>1, <2>2, <2>3 DEF PersistWrite, Typed, bounds
<1>3. CASE PersistError(t)
    BY <1>3, FinishTyped DEF PersistError, Typed, disk, bounds, history
<1>4. CASE Build(t)
    <2>1. task' \in [Tasks -> Request] /\ raced' \subseteq Names
        <3>1. CASE Goto(t, "publish") /\ UNCHANGED raced
            BY <3>1, GotoTyped DEF Pc, Typed
        <3>2. CASE AfterRegister(t)
            BY <3>2, AfterTyped
        <3>. QED
            BY <1>4, <3>1, <3>2 DEF Build
    <2>. QED
        BY <1>4, <2>1 DEF Build, Typed, disk, bounds
<1>5. CASE Publish(t)
    <2>1. task' \in [Tasks -> Request] /\ raced' \subseteq Names
        BY <1>5, AfterTyped DEF Publish
    <2>2. births \in Nat /\ births' = births + 1
        BY <1>5 DEF Publish, Typed
    <2>3. registry' \in [Names -> Registered]
        BY <1>5, <1>t, <2>2 DEF Publish, Typed, Registered
    <2>4. ttl' \subseteq [name : Names, inc : Nat, due : BOOLEAN]
        <3>1. [name |-> task[t].def.name, inc |-> births + 1, due |-> FALSE]
                \in [name : Names, inc : Nat, due : BOOLEAN]
            BY <1>t, <2>2
        <3>. QED
            BY <1>5, <3>1 DEF Publish, Typed
    <2>5. acked' \in [Names -> SUBSET Dataset]
        BY <1>5, <1>t DEF Publish, Typed
    <2>. QED
        BY <1>5, <2>1, <2>2, <2>3, <2>4, <2>5 DEF Publish, Typed, disk
<1>6. CASE Unregister(t)
    <2>1. task' \in [Tasks -> Request]
        BY <1>6, GotoTyped DEF Unregister, Pc
    <2>2. registry' \in [Names -> Registered]
        BY <1>6, <1>t, ConstantsTyped DEF Unregister, Typed
    <2>. QED
        BY <1>6, <2>1, <2>2 DEF Unregister, Typed, disk, bounds, history
<1>7. CASE Unlink(t)
    <2>1. task' \in [Tasks -> Request]
        BY <1>7, FinishTyped DEF Unlink
    <2>2. dir' \in [Names -> File]
        BY <1>7, <1>t, ConstantsTyped DEF Unlink, Typed
    <2>. QED
        BY <1>7, <2>1, <2>2 DEF Unlink, Typed, bounds, history
<1>8. CASE Drop(t)
    BY <1>8, FinishTyped DEF Drop, Typed, disk, bounds, history
<1>. QED
    BY <1>1, <1>2, <1>3, <1>4, <1>5, <1>6, <1>7, <1>8 DEF Progress

LEMMA PersistTyped ==
    ASSUME Typed, NEW n \in Names, PersistDataset(n)
    PROVE  Typed'
<1>1. to_toml_block(registry[n].def) \in Dataset
    BY Forms DEF Typed, Registered
<1>2. "datasets" \in DOMAIN main' /\ main'.datasets \in Seq(Dataset)
    BY <1>1 DEF PersistDataset, Typed
<1>3. calls' \in 0 .. MaxCalls
    BY CallsTyped DEF PersistDataset
<1>. QED
    BY <1>2, <1>3 DEF PersistDataset, Typed, history

LEMMA TtlTyped ==
    ASSUME Typed, NEW e \in ttl, TtlFire(e) \/ TtlUnregister(e)
    PROVE  Typed'
<1>e. e \in [name : Names, inc : Nat, due : BOOLEAN]
    BY DEF Typed
<1>1. CASE TtlFire(e)
    <2>1. [e EXCEPT !.due = TRUE] \in [name : Names, inc : Nat, due : BOOLEAN]
        BY <1>e
    <2>2. ttl' \subseteq [name : Names, inc : Nat, due : BOOLEAN]
        BY <1>1, <2>1 DEF TtlFire, Typed
    <2>. QED
        BY <1>1, <2>2 DEF TtlFire, Typed, disk, bounds, history
<1>2. CASE TtlUnregister(e)
    <2>1. registry' \in [Names -> Registered]
        BY <1>2, <1>e, ConstantsTyped DEF TtlUnregister, Typed
    <2>2. ttl' \subseteq [name : Names, inc : Nat, due : BOOLEAN] /\ undercut' \subseteq Names
        BY <1>2, <1>e DEF TtlUnregister, Typed
    <2>. QED
        BY <1>2, <2>1, <2>2 DEF TtlUnregister, Typed, disk, bounds
<1>. QED
    BY <1>1, <1>2

LEMMA NextTyped ==
    ASSUME Typed, [Next]_vars
    PROVE  Typed'
<1>1. CASE UNCHANGED vars
    BY <1>1 DEF vars, disk, bounds, history, Typed
<1>2. CASE Next
    BY <1>2, BootTyped, CrashTyped, CreateTyped, RegisterTyped, DeleteTyped, ReloadTyped,
       ProgressTyped, PersistTyped, TtlTyped DEF Next
<1>. QED
    BY <1>1, <1>2

-----------------------------------------------------------------------------
(***************************************************************************)
(* The invariant, step by step.                                            *)
(***************************************************************************)

\* Only t moves.
Only(t) == \A u \in Tasks : u # t => task'[u] = task[u]

\* The variables but task.
Still == /\ up' = up /\ dir' = dir /\ registry' = registry /\ acked' = acked
         /\ raced' = raced /\ undercut' = undercut

\* A request is over: an error, or it was dropped.
LEMMA FinishKeeps ==
    ASSUME Typed, Typed', IndInv, NEW t \in Tasks, Finish(t), Still
    PROVE  IndInv'
<1>. USE DEF IndInv, DiskInv, ReadersInv
<1>t. \A u \in Tasks : task[u].def.name \in Names /\ task'[u].def.name \in Names
    BY DEF Typed, Request, Dataset
<1>u. /\ Only(t)
      /\ task'[t].pc = "idle" /\ task'[t].op = "none" /\ task'[t].todo = {}
      /\ up' = up /\ dir' = dir /\ registry' = registry /\ acked' = acked
      /\ raced' = raced /\ undercut' = undercut
    BY <1>t, ConstantsTyped DEF Finish, Only, Typed, Still
<1>1. OneAnswer'
    BY <1>t, <1>u DEF OneAnswer
<1>2. Shaped'
    BY <1>t, <1>u DEF Shaped, Only
<1>3. Stopped'
    BY <1>t, <1>u DEF Stopped, Shaped, Only
<1>4. Named'
    BY <1>t, <1>u DEF Named, Known
<1>5. Alone'
    BY <1>t, <1>u DEF Alone, At, Only, Shaped
<1>6. Written'
    BY <1>t, <1>u DEF Written, Alone, At, Only, Shaped
<1>7. Removable'
    BY <1>t, <1>u DEF Removable, Alone, At, Only, Known, Shaped
<1>8. AckedOnDisk'
    BY <1>t, <1>u DEF AckedOnDisk, Written, At, Shaped
<1>9. Prepared'
    BY <1>t, <1>u DEF Prepared, Covered, Known, Only, Shaped
<1>10. NoReaders'
    BY <1>t, <1>u DEF NoReaders, Reads, At, Known, Only, Shaped
<1>11. DependencyPresent'
    BY <1>t, <1>u DEF DependencyPresent, Prepared, NoReaders, Covered, Known, Ready, At
<1>. QED
    BY <1>1, <1>2, <1>3, <1>4, <1>5, <1>6, <1>7, <1>8, <1>9, <1>10, <1>11

\* create_query up to its first write.
LEMMA CreateKeeps ==
    ASSUME Typed, Typed', IndInv, NEW t \in Tasks, NEW d \in CreateDefs,
           NEW op \in {"create", "async"}, CreateCall(t, d, op)
    PROVE  IndInv'
<1>. USE DEF IndInv, DiskInv, ReadersInv
<1>t. \A u \in Tasks : task[u].def.name \in Names /\ task'[u].def.name \in Names
    BY DEF Typed, Request, Dataset
<1>d. /\ Inferred(d).name = d.name /\ d.name \in Names
      /\ Inferred(d).temp = d.temp
      /\ Range(Inferred(d).depends_on) = d.sql
    BY InferredForm
<1>u. /\ Only(t)
      /\ up = "up" /\ task[t].pc = "idle"
      /\ task'[t].op = op /\ task'[t].todo = {}
      /\ task'[t].def = Inferred(d) /\ task'[t].pc = IF d.temp THEN "register" ELSE "persist"
      /\ up' = up /\ dir' = dir /\ registry' = registry
      /\ acked'[d.name] = {} /\ \A n \in Names : n # d.name => acked'[n] = acked[n]
      /\ raced \subseteq raced' /\ undercut \subseteq undercut'
      /\ d.name \notin raced' => \A u \in Tasks : ~At(u, d.name)
      /\ \A x \in d.sql \ undercut' : \A u \in Tasks : At(u, x) => task[u].op # "delete"
    BY <1>t, <1>d DEF CreateCall, Call, Only, Typed, disk, At, Writing, Deleting
<1>1. OneAnswer'
    BY <1>t, <1>u, <1>d DEF OneAnswer
<1>2. Shaped'
    BY <1>t, <1>u, <1>d DEF Shaped, Only
<1>3. Stopped'
    BY <1>t, <1>u, <1>d DEF Stopped, Shaped, Only
<1>4. Named'
    BY <1>t, <1>u, <1>d DEF Named, Known
<1>5. Alone'
    BY <1>t, <1>u, <1>d DEF Alone, At, Only, Shaped
<1>6. Written'
    BY SMTT(30), <1>t, <1>u, <1>d DEF Written, Alone, At, Only, Shaped
<1>7. Removable'
    BY <1>t, <1>u, <1>d DEF Removable, Alone, At, Only, Known, Shaped
<1>8. AckedOnDisk'
    BY <1>t, <1>u, <1>d DEF AckedOnDisk, Written, At, Shaped
<1>9. Prepared'
    BY <1>t, <1>u, <1>d DEF Prepared, Covered, Known, Only, Shaped
<1>10. NoReaders'
    BY <1>t, <1>u, <1>d DEF NoReaders, Reads, At, Known, Only, Shaped
<1>11. DependencyPresent'
    BY <1>t, <1>u, <1>d DEF DependencyPresent, Prepared, NoReaders, Covered, Known, Ready,
         At
<1>. QED
    BY <1>1, <1>2, <1>3, <1>4, <1>5, <1>6, <1>7, <1>8, <1>9, <1>10, <1>11

\* POST /datasets.
LEMMA RegisterKeeps ==
    ASSUME Typed, Typed', IndInv, NEW t \in Tasks, NEW d \in ApiDefs, RegisterCall(t, d)
    PROVE  IndInv'
<1>. USE DEF IndInv, DiskInv, ReadersInv
<1>t. \A u \in Tasks : task[u].def.name \in Names /\ task'[u].def.name \in Names
    BY DEF Typed, Request, Dataset
<1>u. /\ Only(t)
      /\ up = "up" /\ task[t].pc = "idle"
      /\ task'[t].op = "register" /\ task'[t].todo = {}
      /\ task'[t].def = d /\ task'[t].pc = "register"
      /\ up' = up /\ dir' = dir /\ registry' = registry /\ acked' = acked
      /\ raced \subseteq raced' /\ undercut \subseteq undercut'
      /\ d.name \notin raced' => \A u \in Tasks : ~At(u, d.name)
      /\ \A x \in Range(d.depends_on) \ undercut' : \A u \in Tasks : At(u, x) => task[u].op # "delete"
    BY <1>t DEF RegisterCall, Call, Only, Typed, disk, At, Writing, Deleting
<1>1. OneAnswer'
    BY <1>t, <1>u DEF OneAnswer
<1>2. Shaped'
    BY <1>t, <1>u DEF Shaped, Only
<1>3. Stopped'
    BY <1>t, <1>u DEF Stopped, Shaped, Only
<1>4. Named'
    BY <1>t, <1>u DEF Named, Known
<1>5. Alone'
    BY <1>t, <1>u DEF Alone, At, Only, Shaped
<1>6. Written'
    BY <1>t, <1>u DEF Written, Alone, At, Only, Shaped
<1>7. Removable'
    BY <1>t, <1>u DEF Removable, Alone, At, Only, Known, Shaped
<1>8. AckedOnDisk'
    BY <1>t, <1>u DEF AckedOnDisk, Written, At, Shaped
<1>9. Prepared'
    BY <1>t, <1>u DEF Prepared, Covered, Known, Only, Shaped
<1>10. NoReaders'
    BY <1>t, <1>u DEF NoReaders, Reads, At, Known, Only, Shaped
<1>11. DependencyPresent'
    BY <1>t, <1>u DEF DependencyPresent, Prepared, NoReaders, Covered, Known, Ready, At
<1>. QED
    BY <1>1, <1>2, <1>3, <1>4, <1>5, <1>6, <1>7, <1>8, <1>9, <1>10, <1>11

\* delete_query up to the removal.
LEMMA DeleteKeeps ==
    ASSUME Typed, Typed', IndInv, NEW t \in Tasks, NEW m \in Names, DeleteCall(t, m)
    PROVE  IndInv'
<1>. USE DEF IndInv, DiskInv, ReadersInv
<1>t. \A u \in Tasks : task[u].def.name \in Names /\ task'[u].def.name \in Names
    BY DEF Typed, Request, Dataset
<1>u. /\ Only(t)
      /\ up = "up" /\ task[t].pc = "idle"
      /\ task'[t].op = "delete" /\ task'[t].todo = {}
      /\ task'[t].def = registry[m].def /\ task'[t].def.name = m /\ task'[t].pc = "unregister"
      /\ m \in Known /\ registry[m].def.managed
      /\ \A q \in Known : m \notin Range(registry[q].def.depends_on)
      /\ up' = up /\ dir' = dir /\ registry' = registry
      /\ acked'[m] = {} /\ \A n \in Names : n # m => acked'[n] = acked[n]
      /\ raced \subseteq raced' /\ undercut \subseteq undercut'
      /\ m \notin raced' => \A u \in Tasks : ~At(u, m)
      /\ m \notin undercut' => \A u \in Tasks : ~Reads(u, m)
    BY <1>t DEF DeleteCall, Call, Only, Typed, disk, At, Writing, Dependents, ReaderComing, Reads, Named
<1>1. OneAnswer'
    BY <1>t, <1>u DEF OneAnswer
<1>2. Shaped'
    BY <1>t, <1>u DEF Shaped, Only
<1>3. Stopped'
    BY <1>t, <1>u DEF Stopped, Shaped, Only
<1>4. Named'
    BY <1>t, <1>u DEF Named, Known
<1>5. Alone'
    BY <1>t, <1>u DEF Alone, At, Only, Shaped
<1>6. Written'
    <2>. SUFFICES ASSUME NEW n \in Names \ raced', NEW v \in Tasks, At(v, n)'
                  PROVE  /\ task'[v].pc \in {"persist", "write", "unregister", "unlink"} =>
                              acked'[n] = {}
                         /\ /\ task'[v].op = "create" /\ ~task'[v].def.temp
                            /\ task'[v].pc \in {"register", "publish"}
                            => dir'[n] = [state |-> "whole",
                                          def |-> to_managed_toml(task'[v].def)]
        BY DEF Written
    <2>1. CASE v = t
        BY <2>1, <1>u DEF At
    <2>2. CASE v # t
        <3>1. At(v, n) /\ task'[v] = task[v] /\ n # m /\ n \in Names \ raced
            BY <2>2, <1>u DEF At, Only
        <3>. QED
            BY <3>1, <1>u DEF Written
    <2>. QED
        BY <2>1, <2>2
<1>7. Removable'
    BY <1>t, <1>u DEF Removable, Alone, At, Only, Known, Shaped
<1>8. AckedOnDisk'
    BY <1>t, <1>u DEF AckedOnDisk, Written, At, Shaped
<1>9. Prepared'
    BY <1>t, <1>u DEF Prepared, Covered, Known, Only, Shaped
<1>10. NoReaders'
    BY <1>t, <1>u DEF NoReaders, Reads, At, Known, Only, Shaped
<1>11. DependencyPresent'
    BY <1>t, <1>u DEF DependencyPresent, Prepared, NoReaders, Covered, Known, Ready, At
<1>. QED
    BY <1>1, <1>2, <1>3, <1>4, <1>5, <1>6, <1>7, <1>8, <1>9, <1>10, <1>11

\* reload_config: the list is made.
LEMMA ReloadKeeps ==
    ASSUME Typed, Typed', IndInv, NEW t \in Tasks, ReloadConfig(t)
    PROVE  IndInv'
<1>. USE DEF IndInv, DiskInv, ReadersInv
<1>t. \A u \in Tasks : task[u].def.name \in Names /\ task'[u].def.name \in Names
    BY DEF Typed, Request, Dataset
<1>e. PICK e \in Pending :
        task' = [task EXCEPT ![t] = [op |-> "config", def |-> e.def,
                                     pc |-> "register", todo |-> Pending \ {e}]]
    BY ReloadIs
<1>i. up = "up" /\ task[t].pc = "idle"
    BY DEF ReloadConfig, Call
<1>u. /\ Only(t)
      /\ task'[t].op = "config" /\ task'[t].todo = Pending \ {e}
      /\ task'[t].def = e.def /\ task'[t].pc = "register"
      /\ up' = up /\ dir' = dir /\ registry' = registry /\ acked' = acked
      /\ raced \subseteq raced' /\ undercut \subseteq undercut'
      /\ e.def.name \notin raced' => \A u \in Tasks : ~At(u, e.def.name)
      /\ \A x \in Names \ undercut' : \A f \in Pending : x \in Range(f.def.depends_on) =>
           \A u \in Tasks : At(u, x) => task[u].op # "delete"
    BY <1>t, <1>e, <1>i, ReloadIs DEF Only, Typed, disk, At, Writing, Deleting
<1>1. OneAnswer'
    BY <1>t, <1>u, <1>e, <1>i DEF OneAnswer
<1>2. Shaped'
    BY <1>t, <1>u, <1>e, <1>i DEF Shaped, Only
<1>3. Stopped'
    BY <1>t, <1>u, <1>e, <1>i DEF Stopped, Shaped, Only
<1>4. Named'
    BY <1>t, <1>u, <1>e, <1>i DEF Named, Known
<1>5. Alone'
    BY <1>t, <1>u, <1>e, <1>i DEF Alone, At, Only, Shaped
<1>6. Written'
    BY <1>t, <1>u, <1>e, <1>i DEF Written, Alone, At, Only, Shaped
<1>7. Removable'
    BY <1>t, <1>u, <1>e, <1>i DEF Removable, Alone, At, Only, Known, Shaped
<1>8. AckedOnDisk'
    BY <1>t, <1>u, <1>e, <1>i DEF AckedOnDisk, Written, At, Shaped
<1>9. Prepared'
    BY <1>t, <1>u, <1>e, <1>i DEF Prepared, Covered, Known, Only, Shaped
<1>10. NoReaders'
    BY <1>t, <1>u, <1>e, <1>i DEF NoReaders, Reads, At, Known, Only, Shaped
<1>11. DependencyPresent'
    BY <1>t, <1>u, <1>e, <1>i DEF DependencyPresent, Prepared, NoReaders, Covered, Known,
         Ready, At
<1>. QED
    BY <1>1, <1>2, <1>3, <1>4, <1>5, <1>6, <1>7, <1>8, <1>9, <1>10, <1>11

\* The file is truncated.
LEMMA PersistOpenKeeps ==
    ASSUME Typed, Typed', IndInv, NEW t \in Tasks, PersistOpen(t)
    PROVE  IndInv'
<1>. USE DEF IndInv, DiskInv, ReadersInv
<1>t. \A u \in Tasks : task[u].def.name \in Names /\ task'[u].def.name \in Names
    BY DEF Typed, Request, Dataset
<1>u. /\ Only(t)
      /\ task[t].pc = "persist" /\ task'[t].pc = "write"
      /\ task'[t].op = task[t].op /\ task'[t].def = task[t].def /\ task'[t].todo = task[t].todo
      /\ \A m \in Names : m # task[t].def.name => dir'[m] = dir[m]
      /\ up' = up /\ registry' = registry /\ acked' = acked
      /\ raced' = raced /\ undercut' = undercut
    BY <1>t DEF PersistOpen, Goto, Only, Typed, Request, history
<1>1. OneAnswer'
    BY <1>t, <1>u DEF OneAnswer
<1>2. Shaped'
    BY <1>t, <1>u DEF Shaped, Only
<1>3. Stopped'
    BY <1>t, <1>u DEF Stopped, Shaped, Only
<1>4. Named'
    BY <1>t, <1>u DEF Named, Known
<1>5. Alone'
    BY <1>t, <1>u DEF Alone, At, Only, Shaped
<1>6. Written'
    BY SMTT(30), <1>t, <1>u DEF Written, Alone, At, Only, Shaped
<1>7. Removable'
    BY <1>t, <1>u DEF Removable, Alone, At, Only, Known, Shaped
<1>8. AckedOnDisk'
    BY <1>t, <1>u DEF AckedOnDisk, Written, At, Shaped
<1>9. Prepared'
    BY <1>t, <1>u DEF Prepared, Covered, Known, Only, Shaped
<1>10. NoReaders'
    BY <1>t, <1>u DEF NoReaders, Reads, At, Known, Only, Shaped
<1>11. DependencyPresent'
    BY <1>t, <1>u DEF DependencyPresent, Prepared, NoReaders, Covered, Known, Ready, At
<1>. QED
    BY <1>1, <1>2, <1>3, <1>4, <1>5, <1>6, <1>7, <1>8, <1>9, <1>10, <1>11

\* The file is written.
LEMMA PersistWriteKeeps ==
    ASSUME Typed, Typed', IndInv, NEW t \in Tasks, PersistWrite(t)
    PROVE  IndInv'
<1>. USE DEF IndInv, DiskInv, ReadersInv
<1>t. \A u \in Tasks : task[u].def.name \in Names /\ task'[u].def.name \in Names
    BY DEF Typed, Request, Dataset
<1>u. /\ Only(t)
      /\ task[t].pc = "write" /\ task'[t].pc = "register"
      /\ task'[t].op = task[t].op /\ task'[t].def = task[t].def /\ task'[t].todo = task[t].todo
      /\ dir'[task[t].def.name] = [state |-> "whole", def |-> to_managed_toml(task[t].def)]
      /\ \A m \in Names : m # task[t].def.name => dir'[m] = dir[m] /\ acked'[m] = acked[m]
      /\ acked'[task[t].def.name] \in {acked[task[t].def.name], {task[t].def}}
      /\ up' = up /\ registry' = registry
      /\ raced' = raced /\ undercut' = undercut
    BY <1>t DEF PersistWrite, Ack, Goto, Only, Typed, Request
<1>1. OneAnswer'
    BY <1>t, <1>u DEF OneAnswer
<1>2. Shaped'
    BY <1>t, <1>u DEF Shaped, Only
<1>3. Stopped'
    BY <1>t, <1>u DEF Stopped, Shaped, Only
<1>4. Named'
    BY <1>t, <1>u DEF Named, Known
<1>5. Alone'
    BY <1>t, <1>u DEF Alone, At, Only, Shaped
<1>6. Written'
    BY <1>t, <1>u DEF Written, Alone, At, Only, Shaped
<1>7. Removable'
    BY <1>t, <1>u DEF Removable, Alone, At, Only, Known, Shaped
<1>8. AckedOnDisk'
    BY <1>t, <1>u DEF AckedOnDisk, Written, At, Shaped
<1>9. Prepared'
    BY <1>t, <1>u DEF Prepared, Covered, Known, Only, Shaped
<1>10. NoReaders'
    BY <1>t, <1>u DEF NoReaders, Reads, At, Known, Only, Shaped
<1>11. DependencyPresent'
    BY <1>t, <1>u DEF DependencyPresent, Prepared, NoReaders, Covered, Known, Ready, At
<1>. QED
    BY <1>1, <1>2, <1>3, <1>4, <1>5, <1>6, <1>7, <1>8, <1>9, <1>10, <1>11

\* The build of a dataset whose dependencies are there succeeds.
LEMMA BuildKeeps ==
    ASSUME Typed, Typed', IndInv, NEW t \in Tasks, Build(t), Goto(t, "publish"),
           UNCHANGED raced, DepsReady(task[t].def)
    PROVE  IndInv'
<1>. USE DEF IndInv, DiskInv, ReadersInv
<1>t. \A u \in Tasks : task[u].def.name \in Names /\ task'[u].def.name \in Names
    BY DEF Typed, Request, Dataset
<1>u. /\ Only(t)
      /\ task[t].pc = "register" /\ task'[t].pc = "publish"
      /\ task'[t].op = task[t].op /\ task'[t].def = task[t].def /\ task'[t].todo = task[t].todo
      /\ up' = up /\ dir' = dir /\ registry' = registry /\ acked' = acked
      /\ raced' = raced /\ undercut' = undercut
      /\ \A x \in Range(task[t].def.depends_on) : Covered(x)
    BY <1>t DEF Build, Goto, Only, Typed, Request, disk, DepsReady, Covered, Ready, Known
<1>1. OneAnswer'
    BY <1>t, <1>u DEF OneAnswer
<1>2. Shaped'
    BY <1>t, <1>u DEF Shaped, Only
<1>3. Stopped'
    BY <1>t, <1>u DEF Stopped, Shaped, Only
<1>4. Named'
    BY <1>t, <1>u DEF Named, Known
<1>5. Alone'
    BY <1>t, <1>u DEF Alone, At, Only, Shaped
<1>6. Written'
    BY <1>t, <1>u DEF Written, Alone, At, Only, Shaped
<1>7. Removable'
    BY <1>t, <1>u DEF Removable, Alone, At, Only, Known, Shaped
<1>8. AckedOnDisk'
    BY <1>t, <1>u DEF AckedOnDisk, Written, At, Shaped
<1>9. Prepared'
    BY <1>t, <1>u DEF Prepared, Covered, Known, Only, Shaped
<1>10. NoReaders'
    BY <1>t, <1>u DEF NoReaders, Reads, At, Known, Only, Shaped
<1>11. DependencyPresent'
    BY <1>t, <1>u DEF DependencyPresent, Prepared, NoReaders, Covered, Known, Ready, At
<1>. QED
    BY <1>1, <1>2, <1>3, <1>4, <1>5, <1>6, <1>7, <1>8, <1>9, <1>10, <1>11

\* Where a request goes from a registration: it ends, or takes the next
\* dataset of its list.
Continues(t) ==
    \/ /\ task'[t].pc = "idle" /\ task'[t].op = "none" /\ task'[t].todo = {}
       /\ raced' = raced
    \/ /\ task'[t].pc = "register" /\ task'[t].op = task[t].op /\ task[t].op = "config"
       /\ \E e \in task[t].todo : task'[t].def = e.def
       /\ task'[t].todo \subseteq task[t].todo
       /\ raced \subseteq raced'
       /\ task'[t].def.name \notin raced' =>
            \A u \in Tasks : u # t => ~At(u, task'[t].def.name)

LEMMA AfterContinues ==
    ASSUME Typed, Shaped, NEW t \in Tasks, AfterRegister(t)
    PROVE  Only(t) /\ Continues(t)
<1>1. CASE Finish(t) /\ UNCHANGED raced
    BY <1>1, ConstantsTyped DEF Finish, Only, Continues, Typed
<1>2. CASE ~(Finish(t) /\ UNCHANGED raced)
    <2>1. PICK e \in First(task[t].todo) : TakeNext(t, e)
        BY <1>2 DEF AfterRegister
    <2>2. /\ task'[t].def = e.def /\ task'[t].pc = "register" /\ task'[t].op = task[t].op
          /\ task'[t].todo = task[t].todo \ {e} /\ e \in task[t].todo /\ Only(t)
        BY <2>1 DEF Typed, Request, Only, First, TakeNext
    <2>3. task[t].op = "config"
        BY <2>2 DEF Shaped
    <2>4. raced \subseteq raced' /\ (e.def.name \notin raced' => Writing(e.def.name) \ {t} = {})
        BY <2>1 DEF TakeNext
    <2>. QED
        BY <2>2, <2>3, <2>4 DEF Continues, Writing, At
<1>. QED
    BY <1>1, <1>2

\* The name is live, or the build fails.
LEMMA SkipKeeps ==
    ASSUME Typed, Typed', IndInv, NEW t \in Tasks, Build(t), AfterRegister(t)
    PROVE  IndInv'
<1>. USE DEF IndInv, DiskInv, ReadersInv
<1>t. \A u \in Tasks : task[u].def.name \in Names /\ task'[u].def.name \in Names
    BY DEF Typed, Request, Dataset
<1>u. /\ Only(t)
      /\ Continues(t)
      /\ task[t].pc = "register"
      /\ up' = up /\ dir' = dir /\ registry' = registry /\ acked' = acked
      /\ undercut' = undercut
    BY <1>t, AfterContinues DEF Build, disk
<1>1. OneAnswer'
    BY <1>t, <1>u DEF OneAnswer, Continues
<1>2. Shaped'
    BY <1>t, <1>u DEF Shaped, Only, Continues
<1>3. Stopped'
    BY <1>t, <1>u DEF Stopped, Shaped, Only, Continues
<1>4. Named'
    BY <1>t, <1>u DEF Named, Known, Continues
<1>5. Alone'
    BY <1>t, <1>u DEF Alone, At, Only, Shaped, Continues
<1>6. Written'
    BY <1>t, <1>u DEF Written, Alone, At, Only, Shaped, Continues
<1>7. Removable'
    BY <1>t, <1>u DEF Removable, Alone, At, Only, Known, Shaped, Continues
<1>8. AckedOnDisk'
    BY <1>t, <1>u DEF AckedOnDisk, Written, At, Shaped, Continues
<1>9. Prepared'
    BY <1>t, <1>u DEF Prepared, Covered, Known, Only, Shaped, Continues
<1>10. NoReaders'
    BY <1>t, <1>u DEF NoReaders, Reads, At, Known, Only, Shaped, Continues
<1>11. DependencyPresent'
    BY <1>t, <1>u DEF DependencyPresent, Prepared, NoReaders, Covered, Known, Ready, At,
         Continues
<1>. QED
    BY <1>1, <1>2, <1>3, <1>4, <1>5, <1>6, <1>7, <1>8, <1>9, <1>10, <1>11

\* The dataset goes live.
LEMMA PublishKeeps ==
    ASSUME Typed, Typed', IndInv, NEW t \in Tasks, Publish(t)
    PROVE  IndInv'
<1>. USE DEF IndInv, DiskInv, ReadersInv
<1>t. \A u \in Tasks : task[u].def.name \in Names /\ task'[u].def.name \in Names
    BY DEF Typed, Request, Dataset
<1>u. /\ Only(t)
      /\ Continues(t)
      /\ task[t].pc = "publish"
      /\ registry'[task[t].def.name].state = "ready"
      /\ registry'[task[t].def.name].def = task[t].def
      /\ \A m \in Names : m # task[t].def.name => registry'[m] = registry[m] /\ acked'[m] = acked[m]
      /\ \/ acked'[task[t].def.name] = acked[task[t].def.name]
         \/ /\ acked'[task[t].def.name] = {task[t].def}
            /\ task[t].op = "create" /\ ~task[t].def.temp
      /\ up' = up /\ dir' = dir
      /\ undercut' = undercut
    BY <1>t, AfterContinues DEF Publish, disk, Typed
<1>1. OneAnswer'
    BY <1>t, <1>u DEF OneAnswer, Continues
<1>2. Shaped'
    BY <1>t, <1>u DEF Shaped, Only, Continues
<1>3. Stopped'
    BY <1>t, <1>u DEF Stopped, Shaped, Only, Continues
<1>4. Named'
    BY <1>t, <1>u DEF Named, Known, Continues
<1>5. Alone'
    BY <1>t, <1>u DEF Alone, At, Only, Shaped, Continues
<1>6. Written'
    BY <1>t, <1>u DEF Written, Alone, At, Only, Shaped, Continues
<1>7. Removable'
    BY <1>t, <1>u DEF Removable, Alone, At, Only, Known, Shaped, Continues
<1>8. AckedOnDisk'
    BY <1>t, <1>u DEF AckedOnDisk, Written, At, Shaped, Continues
<1>9. Prepared'
    BY <1>t, <1>u DEF Prepared, Covered, Known, Only, Shaped, Continues
<1>10. NoReaders'
    BY <1>t, <1>u DEF NoReaders, Reads, At, Known, Only, Shaped, Continues
<1>11. DependencyPresent'
    BY <1>t, <1>u DEF DependencyPresent, Prepared, NoReaders, Covered, Known, Ready, At,
         Continues
<1>. QED
    BY <1>1, <1>2, <1>3, <1>4, <1>5, <1>6, <1>7, <1>8, <1>9, <1>10, <1>11

\* The dataset is removed.
LEMMA UnregisterKeeps ==
    ASSUME Typed, Typed', IndInv, NEW t \in Tasks, Unregister(t)
    PROVE  IndInv'
<1>. USE DEF IndInv, DiskInv, ReadersInv
<1>t. \A u \in Tasks : task[u].def.name \in Names /\ task'[u].def.name \in Names
    BY DEF Typed, Request, Dataset
<1>u. /\ Only(t)
      /\ task[t].pc = "unregister" /\ task'[t].pc = "unlink"
      /\ task'[t].op = task[t].op /\ task'[t].def = task[t].def /\ task'[t].todo = task[t].todo
      /\ registry'[task[t].def.name].state = "absent"
      /\ \A m \in Names : m # task[t].def.name => registry'[m] = registry[m]
      /\ up' = up /\ dir' = dir /\ acked' = acked
      /\ raced' = raced /\ undercut' = undercut
    BY <1>t, ConstantsTyped DEF Unregister, Goto, Only, Typed, Request, disk, history
<1>1. OneAnswer'
    BY <1>t, <1>u DEF OneAnswer
<1>2. Shaped'
    BY <1>t, <1>u DEF Shaped, Only
<1>3. Stopped'
    BY <1>t, <1>u DEF Stopped, Shaped, Only
<1>4. Named'
    BY <1>t, <1>u DEF Named, Known
<1>5. Alone'
    BY <1>t, <1>u DEF Alone, At, Only, Shaped
<1>6. Written'
    BY <1>t, <1>u DEF Written, Alone, At, Only, Shaped
<1>7. Removable'
    BY <1>t, <1>u DEF Removable, Alone, At, Only, Known, Shaped
<1>8. AckedOnDisk'
    BY <1>t, <1>u DEF AckedOnDisk, Written, At, Shaped
<1>9. Prepared'
    BY <1>t, <1>u DEF Prepared, Covered, Known, Only, Shaped, NoReaders, Reads, At
<1>10. NoReaders'
    BY <1>t, <1>u DEF NoReaders, Reads, At, Known, Only, Shaped
<1>11. DependencyPresent'
    BY <1>t, <1>u DEF DependencyPresent, Prepared, NoReaders, Covered, Known, Ready, At
<1>. QED
    BY <1>1, <1>2, <1>3, <1>4, <1>5, <1>6, <1>7, <1>8, <1>9, <1>10, <1>11

\* Its file is removed, or stays.
LEMMA UnlinkKeeps ==
    ASSUME Typed, Typed', IndInv, NEW t \in Tasks, Unlink(t)
    PROVE  IndInv'
<1>. USE DEF IndInv, DiskInv, ReadersInv
<1>t. \A u \in Tasks : task[u].def.name \in Names /\ task'[u].def.name \in Names
    BY DEF Typed, Request, Dataset
<1>u. /\ Only(t)
      /\ task[t].pc = "unlink" /\ task'[t].pc = "idle" /\ task'[t].op = "none" /\ task'[t].todo = {}
      /\ \A m \in Names : m # task[t].def.name => dir'[m] = dir[m]
      /\ up' = up /\ registry' = registry /\ acked' = acked
      /\ raced' = raced /\ undercut' = undercut
    BY <1>t, ConstantsTyped DEF Unlink, Finish, Only, Typed, Request, history
<1>1. OneAnswer'
    BY <1>t, <1>u DEF OneAnswer
<1>2. Shaped'
    BY <1>t, <1>u DEF Shaped, Only
<1>3. Stopped'
    BY <1>t, <1>u DEF Stopped, Shaped, Only
<1>4. Named'
    BY <1>t, <1>u DEF Named, Known
<1>5. Alone'
    BY <1>t, <1>u DEF Alone, At, Only, Shaped
<1>6. Written'
    BY <1>t, <1>u DEF Written, Alone, At, Only, Shaped
<1>7. Removable'
    BY <1>t, <1>u DEF Removable, Alone, At, Only, Known, Shaped
<1>8. AckedOnDisk'
    BY <1>t, <1>u DEF AckedOnDisk, Written, At, Shaped
<1>9. Prepared'
    BY <1>t, <1>u DEF Prepared, Covered, Known, Only, Shaped
<1>10. NoReaders'
    BY <1>t, <1>u DEF NoReaders, Reads, At, Known, Only, Shaped
<1>11. DependencyPresent'
    BY <1>t, <1>u DEF DependencyPresent, Prepared, NoReaders, Covered, Known, Ready, At
<1>. QED
    BY <1>1, <1>2, <1>3, <1>4, <1>5, <1>6, <1>7, <1>8, <1>9, <1>10, <1>11

\* The time to live of a dataset ends.
LEMMA TtlKeeps ==
    ASSUME Typed, Typed', IndInv, NEW e \in ttl, TtlUnregister(e)
    PROVE  IndInv'
<1>. USE DEF IndInv, DiskInv, ReadersInv
<1>t. \A u \in Tasks : task[u].def.name \in Names /\ task'[u].def.name \in Names
    BY DEF Typed, Request, Dataset
<1>u. /\ e.name \in Names
      /\ task' = task
      /\ registry'[e.name].state = "absent"
      /\ \A m \in Names : m # e.name => registry'[m] = registry[m]
      /\ up' = up /\ dir' = dir /\ acked' = acked
      /\ raced' = raced /\ undercut' = undercut \cup {e.name}
    BY <1>t, ConstantsTyped DEF TtlUnregister, Typed, disk
<1>1. OneAnswer'
    BY <1>t, <1>u DEF OneAnswer
<1>2. Shaped'
    BY <1>t, <1>u DEF Shaped, Only
<1>3. Stopped'
    BY <1>t, <1>u DEF Stopped, Shaped, Only
<1>4. Named'
    BY <1>t, <1>u DEF Named, Known
<1>5. Alone'
    BY <1>t, <1>u DEF Alone, At, Only, Shaped
<1>6. Written'
    BY <1>t, <1>u DEF Written, Alone, At, Only, Shaped
<1>7. Removable'
    BY <1>t, <1>u DEF Removable, Alone, At, Only, Known, Shaped
<1>8. AckedOnDisk'
    BY <1>t, <1>u DEF AckedOnDisk, Written, At, Shaped
<1>9. Prepared'
    BY <1>t, <1>u DEF Prepared, Covered, Known, Only, Shaped
<1>10. NoReaders'
    BY <1>t, <1>u DEF NoReaders, Reads, At, Known, Only, Shaped
<1>11. DependencyPresent'
    BY <1>t, <1>u DEF DependencyPresent, Prepared, NoReaders, Covered, Known, Ready, At
<1>. QED
    BY <1>1, <1>2, <1>3, <1>4, <1>5, <1>6, <1>7, <1>8, <1>9, <1>10, <1>11

\* The process stops.
LEMMA CrashKeeps ==
    ASSUME Typed, Typed', IndInv, Crash
    PROVE  IndInv'
<1>. USE DEF IndInv, DiskInv, ReadersInv
<1>t. \A u \in Tasks : task[u].def.name \in Names /\ task'[u].def.name \in Names
    BY DEF Typed, Request, Dataset
<1>u. /\ \A u \in Tasks : task'[u].pc = "idle" /\ task'[u].op = "none" /\ task'[u].todo = {}
      /\ \A m \in Names : registry'[m].state = "absent"
      /\ up' = "down" /\ dir' = dir /\ acked' = acked
      /\ raced' = raced /\ undercut' = undercut
    BY <1>t, ConstantsTyped DEF Crash, disk, history
<1>1. OneAnswer'
    BY <1>t, <1>u DEF OneAnswer
<1>2. Shaped'
    BY <1>t, <1>u DEF Shaped, Only
<1>3. Stopped'
    BY <1>t, <1>u DEF Stopped, Shaped, Only
<1>4. Named'
    BY <1>t, <1>u DEF Named, Known
<1>5. Alone'
    BY <1>t, <1>u DEF Alone, At, Only, Shaped
<1>6. Written'
    BY <1>t, <1>u DEF Written, Alone, At, Only, Shaped
<1>7. Removable'
    BY <1>t, <1>u DEF Removable, Alone, At, Only, Known, Shaped
<1>8. AckedOnDisk'
    BY <1>t, <1>u DEF AckedOnDisk, Written, At, Shaped
<1>9. Prepared'
    BY <1>t, <1>u DEF Prepared, Covered, Known, Only, Shaped
<1>10. NoReaders'
    BY <1>t, <1>u DEF NoReaders, Reads, At, Known, Only, Shaped
<1>11. DependencyPresent'
    BY <1>t, <1>u DEF DependencyPresent, Prepared, NoReaders, Covered, Known, Ready, At
<1>. QED
    BY <1>1, <1>2, <1>3, <1>4, <1>5, <1>6, <1>7, <1>8, <1>9, <1>10, <1>11

\* Steps that change none of this.
LEMMA StillKeeps ==
    ASSUME Typed, Typed', IndInv, Still, task' = task
    PROVE  IndInv'
<1>. USE DEF IndInv, DiskInv, ReadersInv
<1>t. \A u \in Tasks : task[u].def.name \in Names /\ task'[u].def.name \in Names
    BY DEF Typed, Request, Dataset
<1>u. /\ task' = task
      /\ up' = up /\ dir' = dir /\ registry' = registry /\ acked' = acked
      /\ raced' = raced /\ undercut' = undercut
    BY <1>t DEF Still
<1>1. OneAnswer'
    BY <1>t, <1>u DEF OneAnswer, Only
<1>2. Shaped'
    BY <1>t, <1>u DEF Shaped, Only, Only
<1>3. Stopped'
    BY <1>t, <1>u DEF Stopped, Shaped, Only, Only
<1>4. Named'
    BY <1>t, <1>u DEF Named, Known, Only
<1>5. Alone'
    BY <1>t, <1>u DEF Alone, At, Only, Shaped, Only
<1>6. Written'
    BY <1>t, <1>u DEF Written, Alone, At, Only, Shaped, Only
<1>7. Removable'
    BY <1>t, <1>u DEF Removable, Alone, At, Only, Known, Shaped, Only
<1>8. AckedOnDisk'
    BY <1>t, <1>u DEF AckedOnDisk, Written, At, Shaped, Only
<1>9. Prepared'
    BY <1>t, <1>u DEF Prepared, Covered, Known, Only, Shaped, Only
<1>10. NoReaders'
    BY <1>t, <1>u DEF NoReaders, Reads, At, Known, Only, Shaped, Only
<1>11. DependencyPresent'
    BY <1>t, <1>u DEF DependencyPresent, Prepared, NoReaders, Covered, Known, Ready, At,
         Only
<1>. QED
    BY <1>1, <1>2, <1>3, <1>4, <1>5, <1>6, <1>7, <1>8, <1>9, <1>10, <1>11

\* A start that loads its files: every query has what it reads.
LEMMA BootedKeeps ==
    ASSUME Typed, Typed', IndInv, Boot, Booted(main.datasets \o FileSeq)
    PROVE  IndInv'
<1>. USE DEF IndInv, DiskInv, ReadersInv
<1>t. \A u \in Tasks : task[u].def.name \in Names /\ task'[u].def.name \in Names
    BY DEF Typed, Request, Dataset
<1>u. /\ \A u \in Tasks : task'[u] = task[u] /\ task[u].pc = "idle"
      /\ up = "down" /\ dir' = dir /\ acked' = acked
      /\ raced' = raced /\ undercut' = undercut
    BY <1>t DEF Boot, disk, history, Stopped
<1>b. up' = "up" \/ UNCHANGED registry
    BY DEF Boot
<1>. DEFINE ds == main.datasets \o FileSeq
<1>p. PICK r \in BootRegistry(ds) :
        registry' = [n \in Names |-> IF r[n] = "absent" THEN Absent
                       ELSE [state |-> r[n], def |-> DefOf(ds, n), inc |-> 0]]
    BY DEF Booted
<1>. HIDE DEF ds
<1>q. \A n \in Names :
        /\ registry'[n].state = r[n]
        /\ r[n] # "absent" => registry'[n].def \in Range(ds) /\ registry'[n].def.name = n
    <2>. SUFFICES ASSUME NEW n \in Names
                  PROVE  /\ registry'[n].state = r[n]
                         /\ r[n] # "absent" =>
                              registry'[n].def \in Range(ds) /\ registry'[n].def.name = n
        OBVIOUS
    <2>1. CASE r[n] = "absent"
        BY <2>1, <1>p, ConstantsTyped
    <2>2. CASE r[n] # "absent"
        <3>1. \E d \in Range(ds) : d.name = n
            BY <2>2 DEF BootRegistry, NamesOf
        <3>2. DefOf(ds, n) \in Range(ds) /\ DefOf(ds, n).name = n
            BY <3>1 DEF DefOf
        <3>3. registry'[n] = [state |-> r[n], def |-> DefOf(ds, n), inc |-> 0]
            BY <2>2, <1>p
        <3>. QED
            BY <3>2, <3>3
    <2>. QED
        BY <2>1, <2>2
<1>r. \A q \in Names : r[q] = "ready" =>
        \A x \in Range(registry'[q].def.depends_on) :
            \E m \in Names : Lower[m] = Lower[x] /\ r[m] = "ready"
    BY <1>q DEF BootRegistry
<1>1. OneAnswer'
    BY <1>t, <1>u, <1>b, <1>q, <1>r DEF OneAnswer
<1>2. Shaped'
    BY <1>t, <1>u, <1>b, <1>q, <1>r DEF Shaped, Only
<1>3. Stopped'
    BY <1>t, <1>u, <1>b, <1>q, <1>r DEF Stopped, Shaped, Only
<1>4. Named'
    BY <1>t, <1>u, <1>b, <1>q, <1>r DEF Named, Known
<1>5. Alone'
    BY <1>t, <1>u, <1>b, <1>q, <1>r DEF Alone, At, Only, Shaped
<1>6. Written'
    BY <1>t, <1>u, <1>b, <1>q, <1>r DEF Written, Alone, At, Only, Shaped
<1>7. Removable'
    BY <1>t, <1>u, <1>b, <1>q, <1>r DEF Removable, Alone, At, Only, Known,
         Shaped
<1>8. AckedOnDisk'
    BY <1>t, <1>u, <1>b, <1>q, <1>r DEF AckedOnDisk, Written, At, Shaped
<1>9. Prepared'
    BY <1>t, <1>u, <1>b, <1>q, <1>r DEF Prepared, Covered, Known, Only,
         Shaped
<1>10. NoReaders'
    BY <1>t, <1>u, <1>b, <1>q, <1>r DEF NoReaders, Reads, At, Known, Only,
         Shaped
<1>11. DependencyPresent'
    BY <1>t, <1>u, <1>b, <1>q, <1>r DEF DependencyPresent, Prepared,
         NoReaders, Covered, Known, Ready, At
<1>. QED
    BY <1>1, <1>2, <1>3, <1>4, <1>5, <1>6, <1>7, <1>8, <1>9, <1>10, <1>11

LEMMA BootKeeps ==
    ASSUME Typed, Typed', IndInv, Boot
    PROVE  IndInv'
<1>1. CASE Booted(main.datasets \o FileSeq)
    BY <1>1, BootedKeeps
<1>2. CASE up = "down" /\ up' = "refused" /\ UNCHANGED registry
    <2>1. /\ task' = task /\ dir' = dir /\ registry' = registry /\ acked' = acked
          /\ raced' = raced /\ undercut' = undercut
        BY <1>2 DEF Boot, disk, history
    <2>2. DiskInv'
        BY <2>1, <1>2 DEF IndInv, DiskInv, OneAnswer, Shaped, Stopped, Named, Alone, Written,
             Removable, AckedOnDisk, At, Known
    <2>3. ReadersInv'
        BY <2>1, <1>2 DEF IndInv, ReadersInv, Prepared, NoReaders, DependencyPresent, Covered, At,
             Reads, Known, Ready
    <2>. QED
        BY <2>2, <2>3 DEF IndInv
<1>. QED
    BY <1>1, <1>2 DEF Boot

LEMMA ProgressKeeps ==
    ASSUME Typed, Typed', IndInv, NEW t \in Tasks, Progress(t) \/ Drop(t)
    PROVE  IndInv'
<1>1. CASE PersistError(t) \/ Drop(t)
    <2>1. Finish(t) /\ Still
        BY <1>1 DEF PersistError, Drop, Still, disk, history
    <2>. QED
        BY <2>1, FinishKeeps
<1>2. CASE Build(t)
    <2>1. CASE AfterRegister(t)
        BY <1>2, <2>1, SkipKeeps
    <2>2. CASE ~AfterRegister(t)
        BY <1>2, <2>2, BuildKeeps DEF Build
    <2>. QED
        BY <2>1, <2>2
<1>. QED
    BY <1>1, <1>2, PersistOpenKeeps, PersistWriteKeeps, PublishKeeps, UnregisterKeeps,
       UnlinkKeeps DEF Progress

LEMMA NextKeeps ==
    ASSUME Typed, Typed', IndInv, [Next]_vars
    PROVE  IndInv'
<1>1. CASE UNCHANGED vars
    <2>1. Still /\ task' = task
        BY <1>1 DEF vars, disk, history, Still
    <2>. QED
        BY <2>1, StillKeeps
<1>2. CASE \E n \in Names : PersistDataset(n)
    <2>1. Still /\ task' = task
        BY <1>2 DEF PersistDataset, history, Still
    <2>. QED
        BY <2>1, StillKeeps
<1>3. CASE \E e \in ttl : TtlFire(e)
    <2>1. Still /\ task' = task
        BY <1>3 DEF TtlFire, disk, history, Still
    <2>. QED
        BY <2>1, StillKeeps
<1>4. CASE Next
    BY <1>2, <1>3, <1>4, BootKeeps, CrashKeeps, CreateKeeps, RegisterKeeps, DeleteKeeps,
       ReloadKeeps, ProgressKeeps, TtlKeeps DEF Next
<1>. QED
    BY <1>1, <1>4

LEMMA InitHolds == Init => IndInv
<1>. SUFFICES ASSUME Init PROVE IndInv
    OBVIOUS
<1>1. /\ up = "down"
      /\ \A t \in Tasks : task[t].pc = "idle" /\ task[t].op = "none" /\ task[t].todo = {}
      /\ \A n \in Names : registry[n].state = "absent" /\ acked[n] = {}
    BY ConstantsTyped DEF Init
<1>2. DiskInv
    BY <1>1 DEF DiskInv, OneAnswer, Shaped, Stopped, Named, Alone, Written, Removable,
         AckedOnDisk, At, Known
<1>3. ReadersInv
    BY <1>1 DEF ReadersInv, Prepared, NoReaders, DependencyPresent, At, Reads, Ready
<1>. QED
    BY <1>2, <1>3 DEF IndInv

\* The invariant of requests, files and registry holds in every behaviour,
\* restarts included.
THEOREM InvariantHolds == Spec => [](Typed /\ IndInv)
<1>1. Init => Typed /\ IndInv
    BY InitTyped, InitHolds
<1>2. Typed /\ IndInv /\ [Next]_vars => (Typed /\ IndInv)'
    BY NextTyped, NextKeeps
<1>. QED
    BY <1>1, <1>2, PTL DEF Spec

\* Every variable keeps its type; a name has at most one acknowledged
\* definition.
THEOREM TypeCorrect == Spec => []TypeOK
<1>1. Typed /\ IndInv => TypeOK
    <2>. SUFFICES ASSUME Typed, IndInv PROVE TypeOK
        OBVIOUS
    <2>1. ASSUME NEW n \in Names PROVE Cardinality(acked[n]) <= 1
        <3>1. CASE acked[n] = {}
            <4>1. Cardinality({}) = 0
                BY FS_EmptySet
            <4>. QED
                BY <3>1, <4>1
        <3>2. CASE acked[n] # {}
            <4>1. PICK d \in acked[n] : TRUE
                BY <3>2
            <4>2. acked[n] = {d}
                BY <4>1 DEF IndInv, DiskInv, OneAnswer
            <4>3. Cardinality({d}) = 1
                BY FS_Singleton
            <4>. QED
                BY <4>2, <4>3
        <3>. QED
            BY <3>1, <3>2
    <2>2. \A n \in Names : /\ dir[n].state \in {"none", "torn", "whole"}
                          /\ registry[n].state \in {"absent", "failed", "ready"}
        BY DEF Typed, File, Registered
    <2>3. \A t \in Tasks : task[t].pc \in Pc
        BY DEF Typed, Request
    <2>. QED
        BY <2>1, <2>2, <2>3 DEF Typed, TypeOK, Pc
<1>. QED
    BY <1>1, InvariantHolds, PTL

\* A saved query whose creation was answered is on the disk, whole and as it
\* was accepted, whatever other requests do and wherever the process stops:
\* create_query writes the file before it registers and answers.
THEOREM AnsweredIsDurable == Spec => []AckedOnDisk
<1>1. IndInv => AckedOnDisk
    BY DEF IndInv, DiskInv
<1>. QED
    BY <1>1, InvariantHolds, PTL

\* A dataset that others read stays in the registry, unless its deletion and
\* the dependent met, its time to live ended, or the dependent names it in
\* another case.
THEOREM DependenciesStay == Spec => []DependencyPresent
<1>1. IndInv => DependencyPresent
    BY DEF IndInv, ReadersInv
<1>. QED
    BY <1>1, InvariantHolds, PTL

\* Datasets of the main file are not removed at run time.
THEOREM ConfiguredNeverRemoved == Spec => ConfiguredStays
<1>. DEFINE Stays == \A n \in Names :
                        (n \in Known /\ ~registry[n].def.managed /\ up' = "up" /\ n \notin raced
                           /\ \A e \in ttl : ~(e.name = n /\ e.due))
                        => registry'[n].state # "absent"
<1>1. Typed /\ IndInv /\ [Next]_vars => Stays
    <2>. SUFFICES ASSUME Typed, IndInv, [Next]_vars,
                         NEW n \in Names, n \in Known, ~registry[n].def.managed, up' = "up",
                         n \notin raced, \A e \in ttl : ~(e.name = n /\ e.due)
                  PROVE  registry'[n].state # "absent"
        OBVIOUS
    <2>0. registry[n].state # "absent"
        BY DEF Known
    <2>1. CASE registry'[n] = registry[n]
        BY <2>0, <2>1
    <2>2. CASE Boot
        BY <2>2, <2>0 DEF Boot, IndInv, DiskInv, Stopped
    <2>3. CASE Crash
        BY <2>3 DEF Crash
    <2>4. ASSUME NEW t \in Tasks, Publish(t)
          PROVE  registry'[n].state # "absent"
        BY <2>4, <2>0 DEF Publish, Typed
    <2>5. ASSUME NEW t \in Tasks, Unregister(t)
          PROVE  registry'[n] = registry[n]
        <3>1. task[t].def.name # n
            BY <2>5 DEF Unregister, IndInv, DiskInv, Removable, At
        <3>. QED
            BY <3>1, <2>5 DEF Unregister, Typed
    <2>6. ASSUME NEW e \in ttl, TtlUnregister(e)
          PROVE  registry'[n] = registry[n]
        BY <2>6 DEF TtlUnregister, Typed
    <2>7. CASE UNCHANGED registry
        BY <2>7, <2>1
    <2>. QED
        BY <2>1, <2>2, <2>3, <2>4, <2>5, <2>6, <2>7
        DEF Next, vars, Progress, CreateCall, RegisterCall, DeleteCall, ReloadConfig, PersistOpen,
            PersistWrite, PersistError, Build, Unlink, Drop, PersistDataset, TtlFire
<1>. QED
    BY <1>1, InvariantHolds, PTL DEF Spec, ConfiguredStays

=============================================================================
