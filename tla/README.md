# A TLA+ verification of Path-Planner

Path-Planner computes forwarding paths over a published snapshot of a network
fabric, tells its callers how far a result can still be trusted, and can spread
the planning over worker processes behind a coordinator that keeps a planning
history on disk. This directory models the parts of it where steps of several
actors interleave, where things fail half way, and where a stale answer could
pass for a current one, and the computation of a plan itself, from the evidence
put into a snapshot to the candidates and the cause of a failure.

## 1. The system

| Component | State it keeps | Operations | What makes it correct |
| --- | --- | --- | --- |
| Planner runtime (`planner.cpp`, `result.cpp`) | snapshot, publication sequence, epoch, retained plans and their marks, eviction order, reverse index, planning generations | `Plan`, `Retain`, `PublishSnapshot`, `ApplyInvalidation`, `AdvanceEpoch`, `CheckCurrentness`, `Replan` | a result is CURRENT only while its inputs are; a notice reaches every dependent plan |
| Currentness (`status.hpp`, `graph.cpp`) | none | `ClassifyEvidence`, `MoreSevere` | the most severe change wins |
| Coordinator (`dist.cpp`) | epoch, worker registry, fenced boots, pending requests, sessions | handshake, dispatch, publication, release, `AdvanceEpoch`, `PublishSnapshot`, `FenceWorker`, `Stop` | fenced workers publish nothing; every request is answered; `Stop` returns |
| Worker (`dist.cpp`) | its boot identity, the epoch it knows, a runtime | `Run`, `Stop` | answers under the epoch it was given |
| Client (`dist.cpp`) | one socket, the last epoch seen | `Submit`, `SnapshotInfo`, `QueryCurrentness` | an answer belongs to the question |
| Planning history (`store.cpp`, `dist.cpp`) | the store file, its temporary file, `retained_ids` | `RetainAccepted`, `SaveStore`, `RecoverStore` | the file is whole and readable; recovery trusts nothing |
| Planning view (`planning_view.cpp`) | none | `BuildPlanningView` | unknown evidence fails closed |
| Search (`search.cpp`, `path.cpp`) | work budgets | shortest path, K paths, required transit | the K best simple paths in canonical order, or a truthful limit |
| Snapshot builder (`graph.cpp`) | records under construction | `Add*`, `Build` | no dangling or duplicate record |
| Request validation (`request.cpp`) | none | `ValidateRequest` | no malformed request reaches the search |
| Path Authority (outside this repository) | | asked about candidates through a port | its answers are chosen freely |
| Wire protocol, sockets, sources, encodings, explanations, command line | | | byte formats, operating-system calls and text |

How they interact. `Plan` may run on any number of threads; it takes the
runtime's mutex three times (capture, compare, publish) and everything between
is unlocked. Between capture and compare it validates the request, resolves the
endpoints, builds a view of the captured snapshot, enumerates paths over it and
asks the authority, all on its own data. The coordinator runs one thread per connection; a client's thread
records a pending request, relays it on the socket of a worker's session and
waits on a condition variable that the worker's session thread signals. All of
them share one mutex, released between the steps of a handler. An accepted
publication is then retained and saved, without any lock around the save. A
client's threads share one socket and hold the client's mutex over a whole
exchange.

The hard behaviours: input changes during planning (also changes that put the
old snapshot back), retention racing invalidation, an index that hits its
ceiling, handshakes and publications racing fences and epoch advances, request
identities used twice, workers that die or answer late, shutdown with threads
waiting, file operations that fail, crashes between any two steps of a save,
concurrent saves; in the search, work budgets that run out half way, costs at the
numeric limit, parallel links, hop bounds that bind, stages of a required transit;
on the wire, reads that stop in the middle of a frame and answers that come late.
`PROJECT.json` lists each one, at its line, under
"hazards".

## 2. The modules

| Module | Models |
| --- | --- |
| `Currentness` | evidence classification and its severity order |
| `PlannerRuntime` | the runtime; extends `Currentness` |
| `Coordinator` | coordinator, its session threads, workers as it sees them |
| `AtomicStore` | what the planning history promises |
| `PlanStore` | how it is saved and recovered; implements `AtomicStore` |
| `FabricSnapshot` | the snapshot builder and the published snapshot |
| `PlanRequest` | requests and their validation |
| `PlanningView` | eligibility, provisional evidence, the rejection log, checked arithmetic |
| `PathSearch` | the two shortest-path searches, costs and ranks |
| `CandidateEnumeration` | Yen's K paths and required transit around the searches |
| `Planning` | one plan from builder calls to the answer; composes the five above |
| `PlannerClient` | the client, its stream, the coordinator's session for it; extends `Currentness` |
| `CurrentnessProofs` | the classification of evidence, for any generations |
| `PlannerRuntimeProofs` | theorems about `PlannerRuntime`: freshness, the index, invalidation, eviction, the entry counter, planning generations |
| `CoordinatorProofs` | theorems about `Coordinator` |
| `PlanStoreProofs` | theorems about `PlanStore`, the refinement of `AtomicStore` among them |
| `PlannerClientProofs` | theorems about `PlannerClient` |
| `SearchProofs` | the invariants of one search and of the enumeration around the searches |
| `PlanningProofs` | theorems about `Planning`: snapshots, the filter, candidates, budgets, termination; extends `SearchProofs` |
| `ListFacts` | lemmas about lists without repetition and about finite ordered sets, used by four of these |
| `MCPlannerRuntime`, `MCCoordinator`, `MCPlanStore`, `MCPlanning`, `MCPlannerClient` | instances for TLC |

**PlannerRuntime.** One action is one critical section. A call of `Plan` is
`BeginPlan` (capture snapshot, sequence and epoch), then `ReturnRefusal` or
`CompareBeforePublish` (the early returns, the authority port, the watermark
test), then `PublishPlan` (digest and planning generation). `RetainNew`,
`RetainAgain`, `PublishSnapshot`, `ApplyInvalidation` and `AdvanceEpoch` are the
public methods; `CheckCurrentness` reads only and is an operator. Endpoint
resolution, the planning view and the search are deterministic functions of
request and snapshot and enter as the constant `Outcome`; the authority port's
answers are chosen freely. A plan is its own identity: the fields that
`EncodeSemantic` digests, with the digest taken to be collision free. A subject
is a number in `SubjectKey` order, because `IndexPlan` stops at its ceiling in
that order. `issued`, `fresh_calls` and `fresh_plans` are history variables: what
was published, and what none of whose inputs changed since it was captured.
Left out: statistics, explanations, stage hooks, and the classification `Replan`
makes of two results.

**Coordinator.** `thread[s]` is where the thread of worker session `s` stands and
what it has read so far; `client[c]` likewise for a client session. The handshake
is three actions and a publication is three, because the code takes the mutex
three times; `Dispatch`, `Relay`, `WaitForSlot` and `Resolve` are the plan request.
`asleep` is the set of threads blocked on `pending_cv`: `wait_for` looks at the slot
first (`WaitForSlot` or `Resolve`), `notify_all` (`NotifyAll`) empties the set so that
each looks again, and a sleeper whose bound expires returns without a notice. Frames to a
worker are an ordered queue that is dropped when the connection closes. A worker
may answer, drop the request (its `PLAN_ERROR` is read and ignored by the session
loop), or vanish. A read may end at any time a message is not there, which stands
for `receive_bound_ms`. What a fulfilled publication does next, `RetainAccepted`,
touches none of this state and is in `PlanStore`; what `AdvanceEpoch` and
`PublishSnapshot` do to the local runtime is in `PlannerRuntime`. `revoked` and
`advanced` are history variables. Left out: the `max_sessions` refusal, read-only
requests, counters, and starting a stopped coordinator object again. A session handles
one HELLO: the loop would take a second one (`dist.cpp:688`), but `Worker::Run` sends
one. A publication is judged by its frame's `worker_boot`, here the session's own,
which is what `Worker::Run` puts there.

**PlanStore.** A thread accepts a plan (`RetainAccepted`, `RememberId`) or is asked
to save (`SaveStore`), copies the identities, looks each plan up, encodes, opens
and truncates the temporary file, writes it, renames it. Opening, writing and
renaming may fail; a failed rename removes whatever the temporary path names. A
file is an inode, so that a thread keeps writing to a file another has renamed.
A record is its plan's identity, since that is what the decoder's duplicate test
and the recovery look at; an image that is no image is `Torn`. `Crash` discards
memory; `RecoverStore` is what `Start` does. `AllowRepeats` says whether a plan
already listed may be accepted again; `accepted` and `synced` are history
variables. Files are written in one step: a partial write is `SaveFails` or a
crash before `Write`. What the operating system may lose after a rename on power
failure is not modelled; `Crash` is the end of the process.

**FabricSnapshot, PlanRequest, PlanningView.** `builder` holds the vectors of
`FabricSnapshotBuilder`; every `Add` and `Set` call is an action that accepts the
record or adds a diagnostic, and `Build` publishes a snapshot or an error, with the
order of the code's checks (`FirstFailure`). A `Build` whose checks pass empties the
builder, also when the encoding then exceeds its ceiling; the ceiling counts records
while a node's ports and a domain's members are encoded too, so the length of the
encoding is modelled (`EncodedBytes`) and the instance `ManyPorts` goes over it. Where the code leaves the choice
between two records of one subject to an unstable sort, both outcomes are
possible. Validation and the view are operators, as they are functions in the
code: `EdgeVerdict` goes through the code's filters in order and says why a link
is left out, and the log keeps counts and a bounded list of explicit entries.
Identifiers are numbers in their order, the names of diagnostic codes are the
code's. The identity of the snapshot built is 1; a request may expect that one,
another, none, or the nil identifier, which validation refuses. Left out: the texts of
diagnostics, `EvidenceSource`, and the bytes of the canonical encoding with its digest
(and so the refusal of an all-zero digest).

**PathSearch, CandidateEnumeration.** One step pops one queue entry and relaxes its
links, spending the state and push budgets, or is one turn of the loop around the
searches. `call` is the search in progress, with labels `<<cost, hops>>` per node
(`PlainSearch`) or per hop count and node (`ExpandedSearch`, when a hop bound can
bind); `enum` holds the locals of `EnumerateCandidatePaths`. `CostMax` stands for
the largest 64-bit cost, `InfiniteHops` for the hop count of an unreached label and
`MaxHopCount` for the longest path that has a cost. After a search the path is rebuilt
as the code does it: backward reachability over tight links, then the greedy walk,
which gives up where no link advances it.

**Planning.** A scenario gives the planner's limits, builder calls to choose from at
every step, requests to choose from, and whether an authority is configured.
`CallBuilder` and `CallBuild` build, `Plan` refuses or sets up the search,
`Enumerate` runs it, `Conclude` re-checks and ranks the paths, consults the
authority and explains an empty answer. The inputs do not change meanwhile: that
is `PlannerRuntime`'s subject, whose constant `Outcome` is what `Planning` computes.
`RightAnswers` is the reference: the links a request may use, stated without the
code's order of filters, all simple paths over them, and exact integer costs.

**PlannerClient.** `Connect`, `Close` and the calls `SnapshotInfo`, `Submit`,
`QueryCurrentness` of threads that share a client. A frame is two units of header
and one of payload, so that a read can stop anywhere in it and the next one start
in the middle; bytes that are not exactly one frame are rejected, after consuming
whatever length they seemed to declare. The coordinator's session answers frames in
order; the currentness query is two steps because it takes two locks. Snapshots are
published, the sequence raised, the process restarted, sessions ended with or
without a reset. What a plan request does inside the coordinator is `Coordinator`'s
subject; here it is answered with a result or an error, at any time or never.
Left out: the `PLAN_ERROR` to a malformed query (`dist.cpp:532`), which this client does
not send, and the answers of a coordinator that has no snapshot yet (`dist.cpp:542`).
Histories: `troubled` (a read on this connection failed), `consumed`, `returned`,
and what the coordinator went through during a query (`seen`).

## 3. The runs

Bounds are named in the modules: `MaxSequence` and `MaxGeneration` (how often
inputs change, how often a request is planned), `MaxEpoch`, `MaxQueue` (frames
under way on a session), `MaxListed` (length of `retained_ids`), `CostMax`,
`MaxHopCount`, `InfiniteHops`, `MaxCandidateRank` (the numeric limits of costs, hops and
ranks), and `Bounds` of the client (calls, connections, changes).

| Run | Shows | Why the bounds are enough |
| --- | --- | --- |
| `runtime_watermark` | `CurrentMeansFresh`, `NeverCurrentAgain`, `CompareCatchesEveryChange`, `GenerationNamesOnePlan` | two threads and two input changes: capture, change, change back, compare; one retained plan, so generations are evicted too |
| `runtime_retention` | `RetentionOrderExact`, `IndexCoversRetained`, `IndexAccounting`, `InvalidationPrecise`, `TypeOK` | plans with different dependencies, room for fewer plans and fewer entries than there are, so that eviction and an index cut off inside a plan both occur; every early return of `Plan` occurs for some request |
| `coordinator_fencing` | `NoOrphanedRequest`, `BusyWorkerHasWaiter`, `RegisteredHasSession`, `DispatchStateKept`, `RevokedNeverAccepted`, `NoMissedWakeup`, `TypeOK` | one boot on two sessions, one client, all operator calls: every race of one handshake, one publication and one fence, and of a notice with a wait |
| `coordinator_liveness` | `NoOrphanedRequest`, `BusyWorkerHasWaiter` with a shared identity, `RequestAnswered`, `StopCompletes` | two clients with one request identity, one worker session, a fence and Stop |
| `store_crash` | `AtomicReplacement` (the refinement), `HistoryReadable`, `StoreMatchesRuntime`, `RecoveryIsConservative`, `TypeOK` | three plans through a runtime that keeps two: eviction, failures and crashes at every step |
| `planning` | `SnapshotCoherent`, `KBestExact`, `CandidatesHonourRequest`, `CurrentIsProven`, `CauseNamed`, `NoPartialAnswer`, `SettledIsFinal`, `WorkShrinks`, `TypeOK` | graphs of four and five nodes with optional links and costs 0 to 3 or near `CostMax` = 15, so that ties, zero-cost links, overflow and both searches occur; all link and port states; each budget cut at several points; each limit and each malformed field once; stages with alternatives and hop bounds; every answer of the authority |
| `client` | `OwnAnswer`, `CurrentWasTrue`, `CallReturns`, `TypeOK` | three calls on one connection (losing and finding the frame boundary), two connections (answers that outlive one), three changes during one query |

`KBestExact` compares the answer with `RightAnswers` element by element; it covers the
empty answer too. It sets parallel links apart (next paragraphs), and one boundary:
a path that costs exactly `CostMax` is not found by a search, whose labels start
there, but may be accepted when it is put together from a prefix and a spur.
`WorkShrinks` is a variant: every step of an enumeration lowers a tuple of natural
numbers in lexicographic order, and deadlock is checked, so every plan returns
without any assumption of fairness beyond that the thread runs. Section 4 proves it
for every fabric. `OwnAnswer` states
what the client may rely on although no answer is matched with its question: the
order of one stream. After a failed read the socket is kept and it may indeed get
the late answer to an earlier call; what remains true then is that the answer is of
this connection, newer than any taken before, and not from the future.
`CurrentWasTrue` states the most a query can promise although evidence and sequence
are read one after the other; it is limited to plans whose sequence this process had
reached, since a restarted coordinator counts from the beginning.

Deadlock is not checked in the runtime and coordinator instances: a bound may
stop every input change, and a stopped coordinator stays stopped. It is checked
in `store_crash`, `planning` and `client`. Symmetry is used for the two threads of `runtime_watermark`,
whose instance treats them alike and checks no liveness.

Five runs end in a violation, each of a sentence of the documentation:

* `digest_sequence`: the README says the publication sequence is excluded from the
  plan digest; `EvidenceVector::Encode` includes it, so an unrelated notice gives
  the same plan a new identity and generation.
* `handshake_advance`: `AdvanceEpoch` is said to leave no prior live authority; a
  handshake that was decided before it registers its worker after it. The worker is
  then offered requests, takes the new epoch from the `PLAN_REQUEST` relayed to it
  (`dist.cpp:607`, `1124`), and its results are accepted. Its boot was never revoked, so
  `RevokedNeverAccepted` does not speak of it.
* `store_repeat`: the history is said to be recovered on restart; a plan accepted
  twice is written twice and the decoder refuses the whole file.
* `store_concurrent`: the destination is said to be observed complete only; two
  threads share one temporary path, and one renames what the other has truncated.
* `parallel_links`: parallel links are said to be enumerated as distinct candidates;
  with two links from 1 to 2 and two from 2 to 3, the bans of a spur search come from
  every accepted path with the same nodes, whatever its links, and the fourth path,
  over both dearer links, is never found.

Other differences met while modelling, described here and not by a run of their own:

* A path with required transit is returned before `max_members_per_failure_domain`
  is looked at (`search.cpp:774` against `880`), although the README calls the limit
  supported and failing closed. The instance `TransitLimit` has such requests;
  `CandidatesHonourRequest` asks for the limit only where there are no stages.
* When the limit filters out every path that was enumerated up to the ceiling, the
  answer is `NO_PATH` with the cause `NO_STRUCTURAL_PATH` (the member-limit code is
  never logged), where the README speaks of `TRUNCATED_BY_LIMIT`.
* `Build` looks for duplicate records of a view between neighbours in call order only
  (`graph.cpp:596`), so separated duplicates are published and one of them wins.
* `AddNode` and `AddEdge` compare a record's generation with the topology generation
  set so far; a later `SetGenerations` may publish records newer than the snapshot.
* Draining and maintenance ports. `README.md:159` says that they "are reported as
  non-current" and `request.hpp:161` that the flags that admit them "still yield
  REVALIDATION_REQUIRED results, never CURRENT"; `provisional` (`planning_view.cpp:250`)
  does not depend on them, and a candidate over such a port is called CURRENT when its
  flag is set. The instance `States` has the case. `CurrentIsProven` therefore allows
  the states that the policy's flags name and does not state the documented property.
* The comment above `retained_snapshot` (`dist.cpp:217`) says "deterministic order by
  plan id"; the function keeps the order of `retained_ids`, which is the order of
  acceptance and what `RecoverStore` depends on: `StoreMatchesRuntime` states that the
  file has the order in which the runtime evicts, which sorting by plan id would break.
* The log of explicit exclusions drops what comes after its limit
  (`planning_view.cpp:103`); a plan whose only cause was dropped reports
  `NO_STRUCTURAL_PATH`. `CauseNamed` is about logs that are not full.
* Generations are remembered for `max_retained_plans` requests; an older request starts
  again at 1 (`planner.cpp:314`), so a number is used again for another plan.
  `GenerationNamesOnePlan` takes the generations of a forgotten request out of its history.
* Two clients with one request identity share a slot. Dispatching over it or erasing it
  notifies nobody, and the client that lost its slot may sleep until its bound expires;
  `NoMissedWakeup` is about clients that alone use their identities.
* With authority validation required, a port that answers only `UNAVAILABLE` gives
  `NO_PATH`; a missing port gives `UNSUPPORTED`.
* `VALIDATE_CURRENTNESS` does not consult the marks of retained plans, and compares a
  sequence number with one that may belong to another process.
* The client keeps its socket after a failed read and does not compare the request an
  answer is for, so a late answer is taken for the next call's (`dist.cpp:1342`);
  `Connect` on a dead socket answers true. A caller must `Close` first.

**Fairness.** `coordinator_liveness` assumes weak fairness of each session thread's
step, each client thread's step and of `Stop`'s return, and strong fairness of
`Resolve`: a thread that is woken and finds its slot unready sleeps again, but the
bound of `wait_for` counts from its first sleep. With that bound `RequestAnswered` would
hold with no notice at all; that the notices are not missed is `NoMissedWakeup`. Threads are scheduled by
the operating system, no handler waits without a bound (`receive_bound_ms` bounds
both the read of a frame and the wait for a publication), and the mutex is held
only for the bounded sections the actions stand for. Nothing is assumed about
workers, clients or operators: they may stay silent forever. `client` assumes weak
fairness of the steps of a call that is reading: every `recv` of `RecvExact` returns
some bytes or fails within `receive_bound_ms` (`net.cpp:321`), and a frame is finite,
so a read always ends. Nothing is assumed of the network or of the coordinator.

## 4. The proofs

The theorems hold for every value of the constants that satisfies the named
assumptions: any number of threads, sessions, clients, plans and requests, any
limits, any fabric. Every inductive invariant below was first checked with TLC on
the instance of the component's run, as far as TLC can evaluate it (the types of a
published snapshot quantify over all identifiers).

| Module | Theorem | Statement |
| --- | --- | --- |
| `CurrentnessProofs` | `MostSevereWins` | `ClassifyEvidence` answers CURRENT exactly when nothing changed, and otherwise the most severe change |
| `PlannerRuntimeProofs` | `TypeCorrect` | `Spec => []TypeOK` |
| | `CurrentIsFresh` | `Spec => []CurrentMeansFresh` |
| | `NoRevival` | `Spec => NeverCurrentAgain` |
| | `CompareIsComplete` | `Spec => CompareCatchesEveryChange` |
| | `IndexIsExact` | `Spec => []IndexCoversRetained` |
| | `InvalidationReachesDependents` | `Spec => InvalidationPrecise` |
| | `RetentionIsBounded` | `Spec => []RetentionOrderExact` |
| | `IndexIsAccounted` | `Spec => []IndexAccounting` |
| | `GenerationIsUnique` | `Spec => []GenerationNamesOnePlan` |
| `CoordinatorProofs` | `TypeCorrect` | `Spec => []TypeOK` |
| | `NoRequestOrphaned` | `Spec => []NoOrphanedRequest` |
| | `BusyWorkerIsWaitedFor` | `Spec => []BusyWorkerHasWaiter` |
| | `RegistrationHasSession` | `Spec => []RegisteredHasSession` |
| | `LateResultRefused` | `Spec => RevokedNeverAccepted` |
| | `DispatchStateIsKept` | `Spec => DispatchStateKept` |
| | `NoWakeupMissed` | `Spec => []NoMissedWakeup` |
| `PlanStoreProofs` | `TypeCorrect` | `Spec => []TypeOK` |
| | `RecoveryNeverResumes` | `Spec => []RecoveryIsConservative` |
| | `SavesAreAtomic` | `OneSaver` gives `Spec => AtomicReplacement` |
| | `DestinationIsComplete` | `OneSaver` gives `Spec => []DestinationComplete` |
| | `HistoryIsReadable` | `OneSaver` and `NoRepeats` give `Spec => []HistoryReadable` |
| | `StoreMatches` | `OneSaver` and `NoRepeats` give `Spec => []StoreMatchesRuntime` |
| `PlannerClientProofs` | `TypeCorrect` | `Spec => []TypeOK` |
| | `AnswerIsOwn` | `Spec => []OwnAnswer` |
| | `CurrentIsEarned` | `Spec => []CurrentWasTrue` |
| `PlanningProofs` | `SnapshotIsCoherent` | `Spec => []SnapshotCoherent` |
| | `FilterIsExact` | a published link gets through `EdgeVerdict` exactly when `UsableLink` holds and its cost fits |
| | `PlanIsSound` | `Spec => []PlanInv`, the inductive invariant the next six use |
| | `TypesHold` | `Spec => []TypeOK` |
| | `SettledStays` | `Spec => SettledIsFinal` |
| | `NothingPartial` | `Spec => []NoPartialAnswer` |
| | `CurrentMeansProven` | `Spec => []CurrentIsProven` |
| | `RequestsAreHonoured` | `Spec => []CandidatesHonourRequest` |
| | `EveryPlanReturns` | `Spec => WorkShrinks` |

**The runtime.** Three inductive invariants carry the first six theorems.

* `TypeInv` is `TypeOK` with the finiteness of what is counted. `TypeOK` alone is
  not inductive: the counters are cardinalities, and the cardinality of a set
  that may be infinite has no type.
* `WatermarkInv` adds that the sequence a call captured is never ahead of the
  current one and that a call or plan with the current sequence is fresh
  (`CallsSeen`, `PlansSeen`), and that a retained mark is CURRENT only where it is
  justified (`MarksJustified`). The sequence never decreases and every input
  change raises it, so equality of sequences is proof that nothing changed; that
  is why putting an old snapshot back cannot revive a plan. `CurrentMeansFresh`
  and `NeverCurrentAgain` do not mention calls in flight and are not inductive
  without it.
* `IndexInv` splits the index property into soundness (every entry is a dependency
  of a retained plan) and completeness while the flag is set. The proof that a
  plan indexed in full leaves nothing out goes through the order of subjects in
  which `IndexPlan` walks.

The bookkeeping adds two. `OrderInv`: evicting the oldest entries of the order
removes as many plans only because no plan is listed twice. `GenerationInv`: every
generation still counted for a request is at most the request's counter, and equals
it only together with the counter's digest; two plans with one generation would need
a counter that went back. `IndexAccounting` is inductive beside `IndexInv`: what
removing a plan subtracts is what indexing it added, also where the ceiling cut it off.

**The coordinator.** `TypeInv` types what the session and client threads carry from
one critical section to the next, since it ends up in the registry and in the table
of pending requests. `NoOrphanedRequest` and `BusyWorkerHasWaiter` are inductive
beside it, one step per handler. `FenceInv` is the argument about late results: a
session is keyed only when its handshake registers it (`HelloUnkeyed`), so every
registration has a keyed session, so whoever takes one away (the end of the
session, a fence, an epoch) also fences the boot (`RevokedFenced`); a publication read
after that is read from a fenced boot and decided against, although reading and
deciding are different critical sections (`LateRefused`). `SlotInv` says that a client
waits under an identity of its own and its slot stays in the table while it does.
`SleepInv` adds that who sleeps waits, and that its slot is unready: it falls asleep only
so, and each of the two steps that make a slot ready wakes everyone.

**The store.** `SaverState` types a save by its program point. `FileInv` says that the
installed file is whole and is not the file a save has open; each save then maps to
one step of `AtomicStore` at its rename, and everything before it to a stutter.
`HistoryInv` connects three lists that are only equal at rest: the identities the
coordinator remembers, the order of the runtime, and what a save has collected so far
while the runtime moves on (`ListInv`, `ImageInv`, `InstalledInv`). The two hypotheses
are not conveniences: without `OneSaver` the run `store_concurrent` refutes the
statements about the file, and without `NoRepeats` the run `store_repeat` refutes those
about its contents. Types and the conservative recovery need neither.

**The client.** Nothing in a frame ties an answer to its question, so the invariant is
about the stream. `UnitOrder`: units arrive in the order in which they were sent, and
what a call has in hand comes before what is left. `NumberOrder` and `QueueOrder`:
answers arriving, requests unanswered and the number of the last answer taken are in
order. `OnlyThisCall`: while no read has failed, everything under way belongs to the
call under way. `OwnAnswer` speaks of the answer accepted only and is not inductive.
`CurrentWasTrue` needs `QueryInv` on top: which states the coordinator went through
since the question was written, when it compared, and what it then reported.

**Snapshots and the filter.** `BuilderInv` keeps, beside the coherence of the snapshot, what the `Add`
calls vetted and `Build` does not check again: no link joins a node to itself and every
relationship is of its layer. Everything else comes from the checks of a successful
`Build`; the lemma `NoFailure` says what the code's first-failure scan establishes.
`FilterIsExact` compares the filter of `BuildPlanningView`, a cascade of checks with
early exits and scans for the first failing requirement, with the reference that the
search is checked against, which is one conjunction: for every snapshot and request,
no usable link is lost and none that is not gets in, except that a link whose own cost
overflows is dropped.

**The search and the plan.** Relaxation, reachability, the greedy walk, cost sums and
the selections of paths are folds. What is needed of a fold is a fact that every turn
of the loop keeps, and that is proved without induction over data: a fold has a trace
of intermediate values (from the well-foundedness of the naturals), and the first place
of the trace where the fact fails would contradict the turn before it. Four invariants
build on one another.

* `RunInv` (one search): labels and queue entries have their types, the hops of an entry
  are no more than the nodes settled so far, and every settled label is at most every
  entry still queued. The last part makes labels final: a relaxation adds a non-negative,
  checked increment to an entry that no settled label exceeds. The bound on hops keeps
  them below `InfiniteHops`, which marks an unreached label; without it a label would
  have no type.
* `EnumInv` (the enumeration): every path held anywhere (accepted, pending, the best
  combination, the path of finished legs, the result) is a path over entries of the view,
  within the hop bound, and goes through the stages passed so far in order (`LegInv`,
  `FoundInv`). The bound needs `YenInv` and `LegInv` to say what each running search was
  given: the bound less the hops of the prefix that its answer will be joined to. `WorkInv`
  ties the budget to the phase: an exhausted budget is always on its way to, or has become,
  the failure `WORK_BUDGET_EXHAUSTED` with no paths.
* `PlanInv`: the types of the records on their way from a builder call into the snapshot
  (`RecordsInv`), and that request, view and options of a running enumeration belong
  together (`QuestionInv`). `CandidatesHonourRequest` follows with `FilterIsExact`: a hop
  is the entry of exactly one published link, and that link is usable. `CurrentIsProven`
  needs besides that a provisional view calls nothing CURRENT, and which states the
  filter lets into one that is not provisional.
* `ProgressInv` (the counters of the loops are within the bounds they run to) makes the
  measure of `WorkShrinks` natural. One settled label or one queue entry less is the least
  significant part; each turn of an outer loop lowers a more significant one.

The assumptions are on constants only. Runtime: subjects are finitely many numbers,
snapshots have generations and subjects, the search returns paths of the snapshot
it was given, `max_retained_plans` is positive. Planning: `CostMax` and `InfiniteHops` are
natural numbers; the limits on work are natural and `max_nodes` is at most `InfiniteHops`
(both are 32 bits wide, and `InfiniteHops` is the largest such number); what a caller
passes has the type of the parameter (`Call`, `Request`), since the numbers are unsigned
and the states are enumerations. The rest say what kind of values the parameters are. TLC
evaluates them in the runs.

Only model-checked:

* liveness (`RequestAnswered`, `StopCompletes`, `CallReturns`), which the proof system
  does not reach, nor ENABLED;
* `KBestExact` and `CauseNamed`. They say that nothing is missed: that a search finds a
  path when there is one and the cheapest in canonical order, that the enumeration leaves
  out no better path, and that a cause is named which explains why there is none. The
  reference for that is the set of all simple paths of a graph, and the argument is an
  induction over paths and over the partition of paths that Yen's algorithm keeps. What
  is proved is the other direction: whatever is returned is right for the request.

## 5. Not modelled, and what comes next

Not modelled: byte formats and hashing (digests are taken to be collision free), the
payload codecs of the wire protocol, operating-system calls below a stream and a
file, text sources and rendering, the command line. They are functions of their
input or system calls, and the repository's tests cover them case by case. Of
modelled parts: `Replan`'s comparison of two results, statistics, starting a stopped
coordinator object again, and the epoch a client mirrors in its frames.

What is left to prove is the completeness of the search. Labels are proved final; the
next step is that a label is the cost of the cheapest path to its node (a least
counterexample among the hop counts of paths), then that reachability and the greedy walk
return the canonical one of them, and last the partition of the remaining paths by their
deviation from the accepted ones, set apart where parallel links break it
(`parallel_links`).

## 6. Running it

    tlc -config MCStoreCrash.cfg MCPlanStore
    tlc -config MCPlanning.cfg MCPlanning
    tlapm PlannerRuntimeProofs.tla        (likewise the other proof modules)

`PROJECT.json` names, for every run, its module, configuration and properties, for
every definition the source lines it models, and for every property a mutation of
the model that breaks it.
