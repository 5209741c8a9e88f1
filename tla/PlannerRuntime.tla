--------------------------- MODULE PlannerRuntime ---------------------------
(***************************************************************************)
(* The planner runtime: one published snapshot, a publication sequence     *)
(* that is the invalidation watermark, retained plans with a reverse       *)
(* dependency index, and any number of threads inside Plan().  Every       *)
(* action is one critical section of the runtime's mutex, so planning      *)
(* takes three steps: capture, compare the watermark, publish.             *)
(***************************************************************************)
EXTENDS Currentness, FiniteSets, Sequences

CONSTANTS
    Thread,             \* callers of Plan
    Subject,            \* nodes, links and ports, numbered in SubjectKey order
    Snapshot,           \* identities of the snapshots that can be published
    NoSnapshot,         \* the null snapshot pointer
    Gens,               \* Gens[s]: the generation vector of snapshot s
    Present,            \* Present[s]: the subjects that exist in snapshot s
    InitialSnapshot,    \* PlannerConfig::initial_snapshot
    Request,            \* planning requests callers submit
    Unstated,           \* marks an expectation a request does not state
    Req,                \* Req[r]: the fields of request r that Plan branches on
    Outcome,            \* Outcome[r][s]: what resolution, view and search yield
    AuthorityPort,      \* is a Path Authority configured?
    Epoch,              \* epochs AdvanceEpoch is called with
    MaxRetainedPlans,   \* limits.max_retained_plans
    MaxReverseEntries,  \* limits.max_reverse_dependency_entries
    MaxSequence,        \* bound: how far the publication sequence runs
    MaxGeneration       \* bound: planning generations per request

PlanStatus == {"PLANNED", "NO_PATH", "SOURCE_UNKNOWN", "DESTINATION_UNKNOWN",
               "SOURCE_STALE", "DESTINATION_STALE", "TOPOLOGY_STALE",
               "EPOCH_STALE", "CONSTRAINT_UNSATISFIED", "RESOURCE_LIMIT",
               "REVALIDATION_REQUIRED", "MALFORMED_REQUEST", "UNAUTHORIZED",
               "UNSUPPORTED", "TRUNCATED_BY_LIMIT"}

ASSUME SubjectAssumption == Subject \subseteq Nat /\ IsFiniteSet(Subject)

ASSUME SnapshotAssumption ==
    /\ NoSnapshot \notin Snapshot
    /\ InitialSnapshot \in Snapshot \cup {NoSnapshot}
    /\ Gens \in [Snapshot -> [Dimension -> Nat]]
    /\ Present \in [Snapshot -> SUBSET Subject]

\* The search returns paths of the snapshot it was given, nothing else.
ASSUME OutcomeAssumption ==
    \A r \in Request, s \in Snapshot :
        /\ Outcome[r][s].cands \in SUBSET (SUBSET Present[s])
        /\ Outcome[r][s].endpoints \in PlanStatus \cup {"OK"}
        /\ Outcome[r][s].fatal \in BOOLEAN
        /\ Outcome[r][s].truncated \in BOOLEAN
        /\ Outcome[r][s].failure \in PlanStatus

ASSUME RequestAssumption ==
    \A r \in Request :
        /\ Req[r].diagnostic \in BOOLEAN
        /\ Req[r].operational_proof \in BOOLEAN

ASSUME LimitAssumption ==
    /\ MaxRetainedPlans \in Nat \ {0}
    /\ MaxReverseEntries \in Nat
    /\ Epoch \subseteq Nat

VARIABLES
    snapshot, publish_sequence, epoch,
    retained,               \* plan -> Currentness, for the retained plans
    retention_order,        \* the retained plans, oldest first
    subject_index,          \* pairs <<subject, plan>> of the reverse index
    reverse_entries, reverse_index_complete,
    request_generations,    \* request id -> [digest, generation]
    request_generation_order,
    calls,                  \* what each thread inside Plan holds
    issued,                 \* history: published plans with their generation
                            \* (0 once the request's counter was evicted)
    fresh_calls,            \* history: threads, and plans, none of whose
    fresh_plans             \* inputs changed since they were captured

inputs == <<snapshot, publish_sequence, epoch>>
store == <<retained, retention_order, subject_index, reverse_entries,
           reverse_index_complete>>
generations == <<request_generations, request_generation_order>>
history == <<issued, fresh_calls, fresh_plans>>
vars == <<inputs, store, generations, calls, history>>

----------------------------------------------------------------------------
(* Plans.  A plan is identified by the digest of its semantic encoding;    *)
(* the digest is taken to be collision free, so a plan is its own identity.*)

EncodeSemantic(r, c, status, cands) ==
    [request |-> r, status |-> status, snap |-> c.snap,
     seq |-> c.seq, cands |-> cands]

Plan == [request : Request, status : PlanStatus, snap : Snapshot,
         seq : Nat, cands : SUBSET (SUBSET Subject)]

Plans == {i.plan : i \in issued}

CollectPlanDependencies(p) == UNION p.cands

\* MakePathPlan proves currentness for everything but diagnostic plans.
CurrentnessProven(p) == ~Req[p.request].diagnostic

Provisional(r) == Req[r].diagnostic \/ ~Req[r].operational_proof

SubjectsStillPresent(p, s) == CollectPlanDependencies(p) \subseteq Present[s]
----------------------------------------------------------------------------
(* Plan(): the early returns, in the order the code tests them.  c is what *)
(* the call captured; "OK" means the call goes on to publish.              *)

Refusal(r, c) ==
    LET q == Req[r]
        unmet(expected, actual) == expected \notin {Unstated, actual}
    IN  IF ~q.valid                                THEN "MALFORMED_REQUEST"
        ELSE IF ~q.authorized                      THEN "UNAUTHORIZED"
        ELSE IF unmet(q.coordinator_epoch, c.epoch)
                                                   THEN "EPOCH_STALE"
        ELSE IF c.snap = NoSnapshot                THEN "REVALIDATION_REQUIRED"
        ELSE IF unmet(q.epoch, Gens[c.snap]["epoch"])
                                                   THEN "EPOCH_STALE"
        ELSE IF unmet(q.topology, Gens[c.snap]["topology"])
                                                   THEN "TOPOLOGY_STALE"
        ELSE IF unmet(q.snapshot, c.snap)          THEN "REVALIDATION_REQUIRED"
        ELSE IF Outcome[r][c.snap].endpoints # "OK"
                                                   THEN Outcome[r][c.snap].endpoints
        ELSE IF Outcome[r][c.snap].fatal           THEN "CONSTRAINT_UNSATISFIED"
        ELSE "OK"

(* Path Authority: the port answers once per candidate.                    *)

Verdicts(cands) == [cands -> {"VALIDATED", "REJECTED", "UNAVAILABLE"}]

Consulted(r, cands) == Req[r].validation # "NONE" /\ cands # {}

AuthorityFilter(r, cands, verdict) ==
    IF Consulted(r, cands) /\ AuthorityPort
    THEN {c \in cands : \/ verdict[c] = "VALIDATED"
                       \/ /\ verdict[c] = "UNAVAILABLE"
                          /\ Req[r].validation = "BEST_EFFORT"}
    ELSE cands

AuthorityRefuses(r, cands, verdict) ==
    /\ Consulted(r, cands)
    /\ IF AuthorityPort
       THEN /\ AuthorityFilter(r, cands, verdict) = {}
            /\ \E c \in cands : verdict[c] = "REJECTED"
       ELSE Req[r].validation = "REQUIRED"

\* The status of a result that reaches publication under an unchanged
\* watermark.
ResultStatus(r, o, cands) ==
    IF cands = {}          THEN o.failure
    ELSE IF o.truncated    THEN "TRUNCATED_BY_LIMIT"
    ELSE IF Provisional(r) THEN "REVALIDATION_REQUIRED"
    ELSE "PLANNED"

\* Mutant: only the snapshot identity is compared.
SnapshotChanged(c) == snapshot # NoSnapshot /\ snapshot # c.snap

\* The watermark test of compare-before-publish.
WatermarkChanged(c) ==
    \/ publish_sequence # c.seq
    \/ snapshot # NoSnapshot /\ snapshot # c.snap

----------------------------------------------------------------------------
(* Plan(): capture, compare, publish.                                      *)

Idle == [pc |-> "idle"]

\* MaxGeneration bounds how many calls start, not what a call does.
BeginPlan(t, r) ==
    /\ calls[t] = Idle
    /\ Req[r].id \in DOMAIN request_generations =>
           request_generations[Req[r].id].generation < MaxGeneration
    /\ calls' = [calls EXCEPT ![t] =
           [pc |-> "captured", request |-> r, snap |-> snapshot,
            seq |-> publish_sequence, epoch |-> epoch]]
    /\ fresh_calls' = fresh_calls \cup {t}
    /\ UNCHANGED <<inputs, store, generations, issued, fresh_plans>>

\* A structured failure is returned without a plan identity.
ReturnRefusal(t) ==
    /\ calls[t].pc = "captured"
    /\ LET c == calls[t] IN
       \/ Refusal(c.request, c) # "OK"
       \/ /\ Refusal(c.request, c) = "OK"
          /\ LET cands == Outcome[c.request][c.snap].cands IN
             \E verdict \in Verdicts(cands) :
                 AuthorityRefuses(c.request, cands, verdict)
    /\ calls' = [calls EXCEPT ![t] = Idle]
    /\ fresh_calls' = fresh_calls \ {t}
    /\ UNCHANGED <<inputs, store, generations, issued, fresh_plans>>

CompareBeforePublish(t) ==
    /\ calls[t].pc = "captured"
    /\ Refusal(calls[t].request, calls[t]) = "OK"
    /\ LET c     == calls[t]
           r     == c.request
           o     == Outcome[r][c.snap]
           moved == WatermarkChanged(c)
       IN  \E verdict \in Verdicts(o.cands) :
           LET kept   == AuthorityFilter(r, o.cands, verdict)
               status == IF moved THEN "REVALIDATION_REQUIRED"
                                  ELSE ResultStatus(r, o, kept)
           IN  /\ ~AuthorityRefuses(r, o.cands, verdict)
               /\ calls' = [calls EXCEPT ![t] =
                      [pc |-> "compared",
                       plan |-> EncodeSemantic(r, c, status, kept),
                       currentness |-> IF moved \/ Provisional(r)
                                       THEN "REVALIDATION_REQUIRED"
                                       ELSE "CURRENT"]]
    /\ UNCHANGED <<inputs, store, generations, history>>

\* Mutant: a changed digest keeps the generation.
NextGenerationUnchanged(id, digest) ==
    IF id \in DOMAIN request_generations
    THEN request_generations[id].generation ELSE 1

\* NextGeneration: an unchanged digest keeps its generation, a changed one
\* gets the next; a new request starts at 1 and may push out the oldest.
NextGeneration(id, digest) ==
    IF id \notin DOMAIN request_generations THEN 1
    ELSE IF request_generations[id].digest = digest
         THEN request_generations[id].generation
         ELSE request_generations[id].generation + 1

\* The order after appending id if it is new and dropping the oldest entries.
GenerationOrder(id) ==
    LET order == IF id \in DOMAIN request_generations
                 THEN request_generation_order
                 ELSE Append(request_generation_order, id)
        drop  == IF Len(order) > MaxRetainedPlans
                 THEN Len(order) - MaxRetainedPlans ELSE 0
    IN  SubSeq(order, drop + 1, Len(order))

\* History: an issued generation whose request lost its counter becomes 0.
Aged(i, keep) ==
    [plan       |-> i.plan,
     generation |-> IF Req[i.plan.request].id \in keep THEN i.generation ELSE 0]

PublishPlan(t) ==
    /\ calls[t].pc = "compared"
    /\ LET plan  == calls[t].plan
           id    == Req[plan.request].id
           next  == NextGeneration(id, plan)
           order == GenerationOrder(id)
           keep  == {order[i] : i \in 1..Len(order)}
       IN  /\ request_generations' =
                  [i \in keep |-> IF i = id
                                  THEN [digest |-> plan, generation |-> next]
                                  ELSE request_generations[i]]
           /\ request_generation_order' = order
           /\ issued' = {Aged(i, keep) : i \in issued}
                        \cup {[plan |-> plan, generation |-> next]}
           /\ fresh_plans' = IF t \in fresh_calls
                             THEN fresh_plans \cup {plan} ELSE fresh_plans
    /\ calls' = [calls EXCEPT ![t] = Idle]
    /\ fresh_calls' = fresh_calls \ {t}
    /\ UNCHANGED <<inputs, store>>

----------------------------------------------------------------------------
(* Retention and the reverse dependency index.                             *)

\* Mutant: the ceiling test admits one entry too many.
IndexedSubjectsOneOver(deps, entries) ==
    {s \in deps : entries + Cardinality({u \in deps : u < s}) <= MaxReverseEntries}

\* The subjects IndexPlan still finds room for: it walks the dependencies in
\* order and stops at the ceiling.
IndexedSubjects(deps, entries) ==
    {s \in deps : entries + Cardinality({u \in deps : u < s}) < MaxReverseEntries}

\* The entries UnindexPlan removes for evicted plans, and the counter after.
\* Mutant: eviction forgets the reverse index.
UnindexNothing(victims) == {}

UnindexPlan(victims) == {e \in subject_index : e[2] \in victims}

\* Mutant: subtract one per dependency, indexed or not.
EntriesLeftByDependencies(victims) ==
    reverse_entries
        - Cardinality(UNION {CollectPlanDependencies(p) : p \in victims})

EntriesLeft(victims) ==
    LET removed == Cardinality(UnindexPlan(victims))
    IN  IF removed > reverse_entries THEN 0 ELSE reverse_entries - removed

InitialCurrentness(p) ==
    IF CurrentnessProven(p) THEN "CURRENT" ELSE "REVALIDATION_REQUIRED"

\* Retaining a known identity replaces the entry and leaves the index alone.
RetainAgain(p) ==
    /\ p \in Plans \cap DOMAIN retained
    /\ retained' = [retained EXCEPT ![p] = InitialCurrentness(p)]
    /\ UNCHANGED <<inputs, retention_order, subject_index, reverse_entries,
                   reverse_index_complete, generations, calls, history>>

\* Mutant: the eviction loop stops one plan early.
EvictionsOneShort ==
    IF Cardinality(DOMAIN retained) > MaxRetainedPlans THEN 1 ELSE 0

\* How many of the oldest entries the eviction loop removes: each pass takes
\* one retained plan, because the order lists exactly those
\* (RetentionOrderExact), until there is room for one more.
Evictions ==
    LET over == Cardinality(DOMAIN retained) - MaxRetainedPlans + 1
    IN  IF over <= 0 THEN 0
        ELSE IF over > Len(retention_order) THEN Len(retention_order) ELSE over

RetainNew(p) ==
    /\ p \in Plans \ DOMAIN retained
    /\ LET k       == Evictions
           victims == {retention_order[i] : i \in 1..k}
           removed == UnindexPlan(victims)
           entries == EntriesLeft(victims)
           deps    == CollectPlanDependencies(p)
           added   == IndexedSubjects(deps, entries)
       IN  /\ retained' = [q \in (DOMAIN retained \ victims) \cup {p} |->
                              IF q = p THEN InitialCurrentness(p)
                                       ELSE retained[q]]
           /\ retention_order' =
                  Append(SubSeq(retention_order, k + 1, Len(retention_order)), p)
           /\ subject_index' = (subject_index \ removed) \cup (added \X {p})
           /\ reverse_entries' = entries + Cardinality(added)
           /\ reverse_index_complete' =
                  (reverse_index_complete /\ added = deps)
    /\ UNCHANGED <<inputs, generations, calls, history>>

----------------------------------------------------------------------------
(* Input changes.  Each one advances the watermark.                        *)

\* History: no call and no plan is fresh any longer.
InputsChanged == fresh_calls' = {} /\ fresh_plans' = {}

AdvanceWatermark ==
    /\ publish_sequence < MaxSequence
    /\ publish_sequence' = publish_sequence + 1

PublishSnapshot(s) ==
    /\ AdvanceWatermark
    /\ snapshot' = s
    /\ epoch' = IF s = NoSnapshot THEN epoch ELSE Gens[s]["epoch"]
    /\ InputsChanged
    /\ UNCHANGED <<store, generations, calls, issued>>

\* A notice names subjects; conservative stands for conservative_all and for
\* capability and failure-domain entries, which have no reverse index.
Notice == [subjects : SUBSET Subject, conservative : BOOLEAN]

\* Mutant: an incomplete index is trusted.
AffectedTrustingIndex(notice) ==
    IF notice.conservative
    THEN DOMAIN retained
    ELSE {p \in DOMAIN retained :
             \E s \in notice.subjects : <<s, p>> \in subject_index}

Affected(notice) ==
    IF notice.conservative \/ ~reverse_index_complete
    THEN DOMAIN retained
    ELSE {p \in DOMAIN retained :
             \E s \in notice.subjects : <<s, p>> \in subject_index}

Invalidated(p) ==
    IF snapshot # NoSnapshot /\ ~SubjectsStillPresent(p, snapshot)
    THEN "RETIRED" ELSE "REVALIDATION_REQUIRED"

ApplyInvalidation(notice) ==
    /\ AdvanceWatermark
    /\ retained' = [p \in DOMAIN retained |->
           IF p \in Affected(notice) THEN Invalidated(p) ELSE retained[p]]
    /\ InputsChanged
    /\ UNCHANGED <<snapshot, epoch, retention_order, subject_index,
                   reverse_entries, reverse_index_complete, generations,
                   calls, issued>>

\* Mutant: an epoch hand-off is not an input change.
AdvanceEpochSilently(e, conservative_recovery) ==
    /\ e > epoch
    /\ epoch' = e
    /\ retained' = IF conservative_recovery
                   THEN [p \in DOMAIN retained |-> "REVALIDATION_REQUIRED"]
                   ELSE retained
    /\ InputsChanged
    /\ UNCHANGED <<snapshot, publish_sequence, retention_order, subject_index,
                   reverse_entries, reverse_index_complete, generations, calls,
                   issued>>

AdvanceEpoch(e, conservative_recovery) ==
    /\ e > epoch
    /\ AdvanceWatermark
    /\ epoch' = e
    /\ retained' = IF conservative_recovery
                   THEN [p \in DOMAIN retained |-> "REVALIDATION_REQUIRED"]
                   ELSE retained
    /\ InputsChanged
    /\ UNCHANGED <<snapshot, retention_order, subject_index, reverse_entries,
                   reverse_index_complete, generations, calls, issued>>

----------------------------------------------------------------------------
(* CheckCurrentness: what the runtime answers about plan p in this state.  *)

\* Mutant: evidence generations alone decide, the watermark is not compared.
CheckGenerationsOnly(p) ==
    IF Req[p.request].diagnostic \/ snapshot = NoSnapshot
    THEN "REVALIDATION_REQUIRED"
    ELSE IF ~SubjectsStillPresent(p, snapshot) THEN "RETIRED"
    ELSE IF p \in DOMAIN retained /\ retained[p] # "CURRENT" THEN retained[p]
    ELSE ClassifyEvidence(Gens[p.snap], Gens[snapshot])

CheckCurrentness(p) ==
    LET base    == IF Req[p.request].diagnostic
                   THEN "REVALIDATION_REQUIRED" ELSE "CURRENT"
        held(c) == p \in DOMAIN retained /\ retained[p] = c
        marked  == IF held("REVALIDATION_REQUIRED")
                   THEN "REVALIDATION_REQUIRED" ELSE base
        class   == ClassifyEvidence(Gens[p.snap], Gens[snapshot])
    IN  IF snapshot = NoSnapshot             THEN "REVALIDATION_REQUIRED"
        ELSE IF ~SubjectsStillPresent(p, snapshot) THEN "RETIRED"
        ELSE IF held("RETIRED")              THEN "RETIRED"
        ELSE IF class # "CURRENT"            THEN MoreSevere(marked, class)
        ELSE IF p.seq # publish_sequence /\ marked = "CURRENT"
                                             THEN "REVALIDATION_REQUIRED"
        ELSE marked

----------------------------------------------------------------------------
Init ==
    /\ snapshot = InitialSnapshot
    /\ publish_sequence = 0
    /\ epoch = IF InitialSnapshot = NoSnapshot THEN 0
               ELSE Gens[InitialSnapshot]["epoch"]
    /\ retained = [p \in {} |-> "CURRENT"]
    /\ retention_order = <<>>
    /\ subject_index = {}
    /\ reverse_entries = 0
    /\ reverse_index_complete = TRUE
    /\ request_generations = [i \in {} |-> 0]
    /\ request_generation_order = <<>>
    /\ calls = [t \in Thread |-> Idle]
    /\ issued = {}
    /\ fresh_calls = {}
    /\ fresh_plans = {}

Next ==
    \/ \E t \in Thread, r \in Request : BeginPlan(t, r)
    \/ \E t \in Thread : ReturnRefusal(t)
    \/ \E t \in Thread : CompareBeforePublish(t)
    \/ \E t \in Thread : PublishPlan(t)
    \/ \E p \in Plans : RetainAgain(p)
    \/ \E p \in Plans : RetainNew(p)
    \/ \E s \in Snapshot \cup {NoSnapshot} : PublishSnapshot(s)
    \/ \E n \in Notice : ApplyInvalidation(n)
    \/ \E e \in Epoch, b \in BOOLEAN : AdvanceEpoch(e, b)

Spec == Init /\ [][Next]_vars

----------------------------------------------------------------------------
(* Properties.                                                             *)

CallState ==
    {Idle}
    \cup [pc : {"captured"}, request : Request,
          snap : Snapshot \cup {NoSnapshot}, seq : Nat, epoch : Nat]
    \cup [pc : {"compared"}, plan : Plan, currentness : CurrentnessValue]

\* Types of the runtime's fields (planner.cpp, PlannerRuntime::Impl).
TypeOK ==
    /\ snapshot \in Snapshot \cup {NoSnapshot}
    /\ publish_sequence \in Nat
    /\ epoch \in Nat
    /\ DOMAIN retained \subseteq Plans
    /\ retained \in [DOMAIN retained -> CurrentnessValue]
    /\ retention_order \in Seq(Plans)
    /\ subject_index \subseteq Subject \X Plans
    /\ reverse_entries \in Nat
    /\ reverse_index_complete \in BOOLEAN
    /\ request_generations \in
           [DOMAIN request_generations -> [digest : Plan, generation : Nat]]
    /\ request_generation_order \in Seq(DOMAIN request_generations)
    /\ calls \in [Thread -> CallState]
    /\ issued \subseteq [plan : Plan, generation : Nat]
    /\ fresh_calls \subseteq Thread
    /\ fresh_plans \subseteq Plans

\* CheckCurrentness answers CURRENT only for a plan none of whose inputs
\* changed since its capture: no snapshot publication, invalidation or epoch
\* advance in between, whatever was retained or re-retained meanwhile.
CurrentMeansFresh ==
    \A p \in Plans : CheckCurrentness(p) = "CURRENT" => p \in fresh_plans

\* A plan the runtime stopped reporting as CURRENT is never CURRENT again,
\* not when the snapshot it was computed from is published a second time and
\* not when it is retained again.
NeverCurrentAgain ==
    [][\A p \in Plans : CheckCurrentness(p) # "CURRENT" =>
                             CheckCurrentness(p)' # "CURRENT"]_vars

\* Compare-before-publish notices every change made between the capture and
\* the comparison, also one that put the captured snapshot back.
CompareCatchesEveryChange ==
    [][\A t \in Thread :
          /\ calls[t].pc = "captured" /\ calls'[t].pc = "compared"
          /\ calls'[t].currentness = "CURRENT"
          => t \in fresh_calls]_vars

\* The eviction order lists each retained plan once, and no more plans are
\* retained than limits.max_retained_plans allows.
RetentionOrderExact ==
    /\ {retention_order[i] : i \in DOMAIN retention_order} = DOMAIN retained
    /\ Len(retention_order) = Cardinality(DOMAIN retained)
    /\ Len(retention_order) <= MaxRetainedPlans

\* The reverse index holds only dependencies of retained plans, and while it
\* calls itself complete it holds all of them.
IndexCoversRetained ==
    LET wanted == {e \in Subject \X DOMAIN retained :
                      e[1] \in CollectPlanDependencies(e[2])}
    IN  /\ subject_index \subseteq wanted
        /\ reverse_index_complete => subject_index = wanted

\* The entry counter that decides when the index is full counts the entries.
IndexAccounting ==
    /\ reverse_entries = Cardinality(subject_index)
    /\ reverse_entries <= MaxReverseEntries

\* A targeted notice unmarks every retained plan that depends on a named
\* subject, and while the index is complete touches no other.
InvalidationPrecise ==
    [][\A n \in Notice : ApplyInvalidation(n) =>
          \A p \in DOMAIN retained :
             LET hit == CollectPlanDependencies(p) \cap n.subjects # {}
             IN  /\ hit => retained'[p] # "CURRENT"
                 /\ ~hit /\ ~n.conservative /\ reverse_index_complete
                        => retained'[p] = retained[p]]_vars

\* While a request's counter is kept, one planning generation of it names one
\* plan, however the publishing threads interleave.
GenerationNamesOnePlan ==
    \A a, b \in issued :
        /\ Req[a.plan.request].id = Req[b.plan.request].id
        /\ a.generation = b.generation /\ a.generation # 0
        => a.plan = b.plan

----------------------------------------------------------------------------
(* What the documentation says and the code does not do.                   *)

\* README 6 and result.hpp: the publication sequence is excluded from the
\* semantic digest, so a recomputation under unchanged evidence generations
\* has the same identity.
DigestIgnoresSequence ==
    \A a, b \in Plans :
        /\ a.request = b.request /\ a.snap = b.snap
        /\ a.status = b.status /\ a.cands = b.cands
        => a = b
============================================================================
