--------------------------- MODULE CascadeRefresh ---------------------------
(***************************************************************************)
(* The refresh scheduler and the cascade engine of                         *)
(* crates/core/src/refresh.rs, together with the part of a backend's       *)
(* reload that they depend on: the per-dataset reload mutex, the publish   *)
(* and the notification that follows it.                                   *)
(*                                                                         *)
(* Three kinds of task take steps:                                         *)
(*   - cascade_engine_loop turns publishes of an upstream dataset into     *)
(*     debounced requests to rebuild its dependents;                       *)
(*   - run_loop serves those requests and the scheduled ticks, one at a    *)
(*     time, each a try_reload under a timeout;                            *)
(*   - HTTP handlers reload datasets on their own threads at any moment    *)
(*     (POST .../reload and the reload-all wave).                          *)
(*                                                                         *)
(* Durations are abstracted: a debounce timer or a tick may be due at any  *)
(* moment.  What is kept of the clock is the order of its readings, since  *)
(* the engine compares trigger_at with build_start; every reading of       *)
(* Instant::now() that matters takes a fresh value of clock.               *)
(***************************************************************************)
EXTENDS Integers, Sequences, FiniteSets

CONSTANTS
    Names,        \* the configured datasets
    Dag,          \* Dag[u] = the datasets to refresh when u publishes
    Scheduled,    \* the datasets with a [dataset.refresh] interval
    MaxReloads,   \* bound: how many reloads HTTP clients start
    MaxTicks      \* bound: how many scheduled ticks fire

ASSUME NamesAssumption == IsFiniteSet(Names)
ASSUME DagAssumption == Dag \in [Names -> SUBSET Names]
ASSUME ScheduledAssumption == Scheduled \subseteq Names
ASSUME BoundsAssumption == MaxReloads \in Nat /\ MaxTicks \in Nat

VARIABLES
    clock,       \* the next value Instant::now() returns
    live,        \* live[n]: the published generation of n
    build,       \* build[n]: the build that holds n's reload mutex
    publish_rx,  \* channel backend -> engine: (name, build_start)
    pending,     \* engine: pending[n] = trigger_at, 0 when n has no entry
    cascade_rx,  \* channel engine -> run_loop
    engine,      \* "running" or "stopped"
    loop,        \* "select", "building" or "stopped"
    failures,    \* heap entry of n: consecutive_failures
    record,      \* the backend's RefreshRecord of n
    shutdown,    \* the CancellationToken
    skippedAt,   \* clock of the last cascade request dropped by coalescing
    failedAt,    \* clock of the last cascade request whose build failed
    reloads,     \* reloads started by clients so far
    ticks        \* scheduled ticks fired so far

engineVars == <<publish_rx, pending, engine>>
history == <<skippedAt, failedAt>>
budget == <<reloads, ticks>>
vars == <<clock, live, engineVars, build, cascade_rx, loop, failures, record,
          shutdown, history, budget>>

-----------------------------------------------------------------------------
(***************************************************************************)
(* Values.                                                                 *)
(***************************************************************************)

\* Who runs a build: an HTTP client (a reload or one step of the reload-all
\* wave), or run_loop for a cascade request or a tick.
Builder == {"client", "cascade", "tick"}
NoBuild == [by |-> "none", start |-> 0, phase |-> "run"]
Build == [by : Builder \cup {"none"}, start : Nat, phase : {"run", "announce"}]

\* A generation: when its build started and when it was published.
Generation == [start : Nat, at : Nat]

\* What a backend tells the engine after a publish.
Message == [name : Names, start : Nat]

\* RefreshRecord, reduced to the fields the scheduler writes.
RefreshSource == {"startup", "manual", "schedule", "cascade"}
RefreshRecord == [consecutive_failures : Nat, last_error : BOOLEAN,
                  refresh_source : RefreshSource]
NoSource == "none"

\* Mutation of RecordRefresh: an update without a source erases the source.
RecordRefreshErasing(rec, fails, error, source) ==
    [consecutive_failures |-> fails, last_error |-> error,
     refresh_source |-> source]

\* Backend::record_refresh: the failure fields are always overwritten, the
\* source only when the update carries one.
RecordRefresh(rec, fails, error, source) ==
    [consecutive_failures |-> fails,
     last_error |-> error,
     refresh_source |-> IF source = NoSource THEN rec.refresh_source
                                             ELSE source]

\* The reload mutex of n is held.
Locked(n) == build[n].by # "none"

\* Every order in which the engine's HashMap may yield the members of F.
Orders(F) ==
    {q \in [1..Cardinality(F) -> F] : \A d \in F : \E i \in DOMAIN q : q[i] = d}

-----------------------------------------------------------------------------
Init ==
    /\ clock = 1
    /\ live = [n \in Names |-> [start |-> 0, at |-> 0]]
    /\ build = [n \in Names |-> NoBuild]
    /\ publish_rx = <<>>
    /\ pending = [n \in Names |-> 0]
    /\ cascade_rx = <<>>
    /\ engine = "running"
    /\ loop = "select"
    /\ failures = [n \in Names |-> 0]
    /\ record = [n \in Names |-> [consecutive_failures |-> 0,
                                  last_error |-> FALSE,
                                  refresh_source |-> "startup"]]
    /\ shutdown = FALSE
    /\ skippedAt = [n \in Names |-> 0]
    /\ failedAt = [n \in Names |-> 0]
    /\ reloads = 0
    /\ ticks = 0

-----------------------------------------------------------------------------
(***************************************************************************)
(* Builds: reload_inner of the backend, the mutex held throughout.         *)
(***************************************************************************)

\* reload_inner begins: build_start is read before the dependencies are.
BeginBuild(n, who) ==
    /\ build' = [build EXCEPT ![n] =
                    [by |-> who, start |-> clock, phase |-> "run"]]
    /\ clock' = clock + 1

\* A client's reload or reload-all wave gets the mutex of n.  Requests that are
\* being drained and the detached wave go on after the token is cancelled.
ClientStart(n) ==
    /\ ~Locked(n)
    /\ reloads < MaxReloads
    /\ reloads' = reloads + 1
    /\ BeginBuild(n, "client")
    /\ UNCHANGED <<live, engineVars, cascade_rx, loop, failures, record,
                   shutdown, history, ticks>>

\* The generation is swapped in and the publish recorded; the cascade engine
\* has not been told yet.
Publish(n) ==
    /\ build[n].by # "none" /\ build[n].phase = "run"
    /\ live' = [live EXCEPT ![n] = [start |-> build[n].start, at |-> clock]]
    /\ clock' = clock + 1
    /\ build' = [build EXCEPT ![n].phase = "announce"]
    /\ record' = [record EXCEPT ![n] = RecordRefresh(@, 0, FALSE, "manual")]
    /\ UNCHANGED <<engineVars, cascade_rx, loop, failures, shutdown, history,
                   budget>>

\* Mutation of Notify: the time of the send instead of the build's start.
NotifyNow(n) ==
    publish_rx' = IF engine = "running"
                  THEN Append(publish_rx, [name |-> n, start |-> clock])
                  ELSE publish_rx

\* CascadeHandle::notify_published_at; the send fails silently once the
\* engine is gone.
Notify(n) ==
    publish_rx' = IF engine = "running"
                  THEN Append(publish_rx, [name |-> n, start |-> build[n].start])
                  ELSE publish_rx

Release(n) == build' = [build EXCEPT ![n] = NoBuild]

\* A client's reload notifies the engine and returns.
ClientDone(n) ==
    /\ build[n].by = "client" /\ build[n].phase = "announce"
    /\ Notify(n)
    /\ Release(n)
    /\ UNCHANGED <<clock, live, pending, engine, cascade_rx, loop, failures,
                   record, shutdown, history, budget>>

\* A client's reload fails, or the request timeout drops it.
ReloadFails(n) ==
    /\ build[n].by = "client" /\ build[n].phase = "run"
    /\ Release(n)
    /\ UNCHANGED <<clock, live, engineVars, cascade_rx, loop, failures,
                   record, shutdown, history, budget>>

\* A build of the reload-all wave fails: Backend::record_reload_failure.
WaveFails(n) ==
    /\ build[n].by = "client" /\ build[n].phase = "run"
    /\ Release(n)
    /\ record' = [record EXCEPT ![n] = RecordRefresh(@,
                        @.consecutive_failures + 1, TRUE, @.refresh_source)]
    /\ UNCHANGED <<clock, live, engineVars, cascade_rx, loop, failures,
                   shutdown, history, budget>>

-----------------------------------------------------------------------------
(***************************************************************************)
(* cascade_engine_loop.  Its select is biased: shutdown, then a publish,   *)
(* then the earliest timer.                                                *)
(***************************************************************************)

EngineSelect == engine = "running" /\ ~shutdown

\* Mutation of Cleared: every publish clears, whenever the trigger arrived.
ClearedAlways(msg) == [pending EXCEPT ![msg.name] = 0]

\* The pending entry of the published dataset is cleared when its trigger
\* arrived no later than the build started.
Cleared(msg) ==
    IF pending[msg.name] <= msg.start
    THEN [pending EXCEPT ![msg.name] = 0] ELSE pending

\* A publish: clear what the finished build covers, then (re)start the
\* debounce timer of every dependent.
EngineRecv ==
    /\ EngineSelect
    /\ publish_rx # <<>>
    /\ LET msg == Head(publish_rx) IN
         pending' = [d \in Names |->
                        IF d \in Dag[msg.name] THEN clock ELSE Cleared(msg)[d]]
    /\ clock' = clock + 1
    /\ publish_rx' = Tail(publish_rx)
    /\ UNCHANGED <<live, build, cascade_rx, engine, loop, failures, record,
                   shutdown, history, budget>>

\* Mutation of EngineFire: the request is dropped while the loop is busy.
EngineFireTrySend(F) ==
    /\ EngineSelect
    /\ publish_rx = <<>>
    /\ F # {}
    /\ \A d \in F : pending[d] # 0
    /\ pending' = [d \in Names |-> IF d \in F THEN 0 ELSE pending[d]]
    /\ \E q \in Orders(F) :
         cascade_rx' = IF loop = "select" THEN cascade_rx \o q ELSE cascade_rx
    /\ UNCHANGED <<clock, live, build, publish_rx, engine, loop, failures,
                   record, shutdown, history, budget>>

\* The debounce timers of F are due: each becomes a CascadeRequest.
EngineFire(F) ==
    /\ EngineSelect
    /\ publish_rx = <<>>
    /\ F # {}
    /\ \A d \in F : pending[d] # 0
    /\ pending' = [d \in Names |-> IF d \in F THEN 0 ELSE pending[d]]
    /\ \E q \in Orders(F) : cascade_rx' = cascade_rx \o q
    /\ UNCHANGED <<clock, live, build, publish_rx, engine, loop, failures,
                   record, shutdown, history, budget>>

EngineStop ==
    /\ engine = "running" /\ shutdown
    /\ engine' = "stopped"
    /\ UNCHANGED <<clock, live, build, publish_rx, pending, cascade_rx, loop,
                   failures, record, shutdown, history, budget>>

-----------------------------------------------------------------------------
(***************************************************************************)
(* run_loop.  Its select is biased: shutdown, then a cascade request, then *)
(* a tick.  A build is awaited inline, so the loop runs one at a time and  *)
(* the semaphore of max_concurrent permits is never contended.             *)
(***************************************************************************)

LoopSelect == loop = "select" /\ ~shutdown

\* A cascade request finds the mutex free: try_reload starts a build.
CascadeStart ==
    /\ LoopSelect
    /\ cascade_rx # <<>>
    /\ ~Locked(Head(cascade_rx))
    /\ cascade_rx' = Tail(cascade_rx)
    /\ BeginBuild(Head(cascade_rx), "cascade")
    /\ loop' = "building"
    /\ UNCHANGED <<live, engineVars, failures, record, shutdown, history,
                   budget>>

\* A cascade request finds the mutex held: outcome=skipped, nothing else.
CascadeSkip ==
    /\ LoopSelect
    /\ cascade_rx # <<>>
    /\ Locked(Head(cascade_rx))
    /\ cascade_rx' = Tail(cascade_rx)
    /\ skippedAt' = [skippedAt EXCEPT ![Head(cascade_rx)] = clock]
    /\ clock' = clock + 1
    /\ UNCHANGED <<live, engineVars, build, loop, failures, record, shutdown,
                   failedAt, budget>>

\* The end of every tick: the outcome is recorded, then the reschedule
\* records next_refresh_at with RefreshRecord's defaults in the other fields.
TickRecord(n, fails, error, source) ==
    record' = [record EXCEPT ![n] =
        RecordRefresh(RecordRefresh(@, fails, error, source),
                      0, FALSE, NoSource)]

\* A scheduled tick finds the mutex free.
TickStart(n) ==
    /\ LoopSelect
    /\ cascade_rx = <<>>
    /\ ticks < MaxTicks
    /\ ~Locked(n)
    /\ ticks' = ticks + 1
    /\ BeginBuild(n, "tick")
    /\ loop' = "building"
    /\ UNCHANGED <<live, engineVars, cascade_rx, failures, record, shutdown,
                   history, reloads>>

\* A scheduled tick finds the mutex held: coalesced, the failures reset.
TickSkip(n) ==
    /\ LoopSelect
    /\ cascade_rx = <<>>
    /\ ticks < MaxTicks
    /\ Locked(n)
    /\ ticks' = ticks + 1
    /\ failures' = [failures EXCEPT ![n] = 0]
    /\ TickRecord(n, 0, FALSE, NoSource)
    /\ UNCHANGED <<clock, live, engineVars, build, cascade_rx, loop, shutdown,
                   history, reloads>>

\* try_reload returned after publishing: the engine is notified, the mutex
\* released and the outcome recorded.
CascadeDone(n) ==
    /\ build[n].by = "cascade" /\ build[n].phase = "announce"
    /\ Notify(n)
    /\ Release(n)
    /\ loop' = "select"
    /\ record' = [record EXCEPT ![n] = RecordRefresh(@, 0, FALSE, "cascade")]
    /\ UNCHANGED <<clock, live, pending, engine, cascade_rx, failures,
                   shutdown, history, budget>>

TickDone(n) ==
    /\ build[n].by = "tick" /\ build[n].phase = "announce"
    /\ Notify(n)
    /\ Release(n)
    /\ loop' = "select"
    /\ failures' = [failures EXCEPT ![n] = 0]
    /\ TickRecord(n, 0, FALSE, "schedule")
    /\ UNCHANGED <<clock, live, pending, engine, cascade_rx, shutdown, history,
                   budget>>

\* try_reload fails or exceeds its timeout.  A cascade request is not retried.
CascadeFails(n) ==
    /\ build[n].by = "cascade" /\ build[n].phase = "run"
    /\ Release(n)
    /\ loop' = "select"
    /\ failedAt' = [failedAt EXCEPT ![n] = clock]
    /\ clock' = clock + 1
    /\ UNCHANGED <<live, engineVars, cascade_rx, failures, record, shutdown,
                   skippedAt, budget>>

TickFails(n) ==
    /\ build[n].by = "tick" /\ build[n].phase = "run"
    /\ Release(n)
    /\ loop' = "select"
    /\ failures' = [failures EXCEPT ![n] = @ + 1]
    /\ TickRecord(n, failures[n] + 1, TRUE, NoSource)
    /\ UNCHANGED <<clock, live, engineVars, cascade_rx, shutdown, history,
                   budget>>

\* Mutation of LoopStop: the loop waits for its queue to drain.
LoopStopDrained ==
    /\ loop = "select" /\ shutdown /\ cascade_rx = <<>>
    /\ loop' = "stopped"
    /\ UNCHANGED <<clock, live, engineVars, build, cascade_rx, failures,
                   record, shutdown, history, budget>>

LoopStop ==
    /\ loop = "select" /\ shutdown
    /\ loop' = "stopped"
    /\ UNCHANGED <<clock, live, engineVars, build, cascade_rx, failures,
                   record, shutdown, history, budget>>

\* The shutdown listener cancels the token.
Shutdown ==
    /\ ~shutdown
    /\ shutdown' = TRUE
    /\ UNCHANGED <<clock, live, engineVars, build, cascade_rx, loop, failures,
                   record, history, budget>>

-----------------------------------------------------------------------------
ClientStep ==
    \E n \in Names :
        \/ ClientStart(n)
        \/ ClientDone(n)
        \/ ReloadFails(n)
        \/ WaveFails(n)

Finish(n) ==
    \/ CascadeDone(n)
    \/ TickDone(n)
    \/ CascadeFails(n)
    \/ TickFails(n)

EngineStep ==
    \/ EngineRecv
    \/ \E F \in SUBSET Names : EngineFire(F)
    \/ EngineStop

LoopStep ==
    \/ CascadeStart
    \/ CascadeSkip
    \/ \E n \in Scheduled : TickStart(n)
    \/ \E n \in Scheduled : TickSkip(n)
    \/ \E n \in Names : Finish(n)
    \/ LoopStop

Next ==
    \/ ClientStep
    \/ \E n \in Names : Publish(n)
    \/ EngineStep
    \/ LoopStep
    \/ Shutdown

Spec == Init /\ [][Next]_vars

\* The engine and the loop are tasks of the runtime and are always polled
\* again; a build always ends (the loop's are under a timeout, a client's
\* under the request timeout or its source's end).  Nothing obliges a client
\* to reload, a tick to be due or an operator to shut down.
Fairness ==
    /\ WF_vars(EngineRecv)
    /\ WF_vars(EngineStop)
    /\ \A d \in Names : WF_vars(\E F \in SUBSET Names : d \in F /\ EngineFire(F))
    /\ WF_vars(CascadeStart \/ CascadeSkip)
    /\ WF_vars(LoopStop)
    /\ \A n \in Names : WF_vars(ClientDone(n) \/ ReloadFails(n) \/ Finish(n))

FairSpec == Spec /\ Fairness

-----------------------------------------------------------------------------
(***************************************************************************)
(* Properties.                                                             *)
(***************************************************************************)

\* Type invariant.
TypeOK ==
    /\ clock \in Nat
    /\ live \in [Names -> Generation]
    /\ build \in [Names -> Build]
    /\ publish_rx \in Seq(Message)
    /\ pending \in [Names -> Nat]
    /\ cascade_rx \in Seq(Names)
    /\ engine \in {"running", "stopped"}
    /\ loop \in {"select", "building", "stopped"}
    /\ failures \in [Names -> Nat]
    /\ record \in [Names -> RefreshRecord]
    /\ shutdown \in BOOLEAN
    /\ skippedAt \in [Names -> Nat]
    /\ failedAt \in [Names -> Nat]
    /\ reloads \in Nat
    /\ ticks \in Nat

\* The live generation of d was built before u last published.
Stale(u, d) == live[u].at > live[d].start

\* A publish of u that the engine has yet to process.
Announced(u) ==
    \/ build[u].by # "none" /\ build[u].phase = "announce"
    \/ \E i \in DOMAIN publish_rx : publish_rx[i].name = u

\* A rebuild of d that will see u's last publish is under way or on its way.
Covered(u, d) ==
    \/ Announced(u)
    \/ pending[d] # 0
    \/ \E i \in DOMAIN cascade_rx : cascade_rx[i] = d
    \/ build[d].by = "cascade" /\ build[d].start > live[u].at

\* No cascade trigger is forgotten: while the scheduler runs, a dependent
\* that is older than its upstream has a rebuild on its way, unless the
\* request was consumed after that publish by a build that failed or was
\* skipped because the mutex was held (refresh.rs, cascade-clearing).
TriggerCovered ==
    \A u \in Names : \A d \in Dag[u] :
        Stale(u, d) => \/ Covered(u, d)
                       \/ failedAt[d] > live[u].at
                       \/ skippedAt[d] > live[u].at
                       \/ shutdown

\* What makes TriggerCovered inductive.  Stamps lie in the past; the builds of
\* one dataset are ordered by the mutex; a queued publish is no newer than the
\* live generation; a pending entry is younger than every processed publish
\* of its upstreams, which is why clearing it on trigger_at <= build_start
\* (refresh.rs:335-346) forgets nothing.
StampsInPast ==
    \A n \in Names :
        /\ live[n].start < clock /\ live[n].at < clock
        /\ build[n].start < clock
        /\ pending[n] < clock

BuildOrder ==
    \A n \in Names : build[n].by # "none" =>
        \/ build[n].phase = "run" /\ build[n].start > live[n].start
        \/ build[n].phase = "announce" /\ build[n].start = live[n].start

MessageOrder ==
    \A i \in DOMAIN publish_rx :
        publish_rx[i].start <= live[publish_rx[i].name].start

PendingOrder ==
    \A u \in Names : \A d \in Dag[u] :
        pending[d] # 0 => live[u].at < pending[d] \/ Announced(u) \/ shutdown

StoppedByShutdown == engine = "stopped" => shutdown

IndInv ==
    /\ StampsInPast
    /\ BuildOrder
    /\ MessageOrder
    /\ PendingOrder
    /\ StoppedByShutdown
    /\ TriggerCovered

\* A dependent that falls behind its upstream is eventually rebuilt, unless
\* its cascade build failed or was skipped, or the server shuts down.
EventuallyFresh ==
    \A u \in Names : \A d \in Dag[u] :
        Stale(u, d) ~> \/ ~Stale(u, d)
                       \/ failedAt[d] > live[u].at
                       \/ skippedAt[d] > live[u].at
                       \/ shutdown

\* Once the token is cancelled both background tasks end, an in-flight build
\* being finished or timed out first (refresh.rs, R3.6).
ShutdownCompletes == shutdown ~> (engine = "stopped" /\ loop = "stopped")

\* refresh.rs:300-306, backend.rs:52-58: a trigger enqueued during a build
\* survives, so that a subsequent rebuild happens, whatever started the build.
TriggerSurvivesBuild ==
    \A u \in Names : \A d \in Dag[u] :
        Stale(u, d) => \/ Covered(u, d)
                       \/ failedAt[d] > live[u].at
                       \/ shutdown

=============================================================================
