------------------------ MODULE PlannerRuntimeProofs ------------------------
(***************************************************************************)
(* Proofs about PlannerRuntime, for any number of threads, requests,       *)
(* snapshots and limits: first what a reader of the planner may rely on,   *)
(* then its bookkeeping (the eviction order, the entry counter of the      *)
(* reverse index and the planning generations), which rests on TypeInv and *)
(* IndexInv.                                                               *)
(***************************************************************************)
EXTENDS PlannerRuntime, CurrentnessProofs, ListFacts

----------------------------------------------------------------------------
(* Type correctness.                                                       *)

\* Publication adds the call's plan to the plans callers hold and loses none.
LEMMA PublishAddsPlan ==
    ASSUME TypeOK, NEW t \in Thread, PublishPlan(t)
    PROVE  Plans' = Plans \cup {calls[t].plan}
    <1> DEFINE plan == calls[t].plan
    <1>1. PICK keep, next :
              issued' = {Aged(i, keep) : i \in issued}
                            \cup {[plan |-> plan, generation |-> next]}
        BY DEF PublishPlan
    <1>2. \A i : Aged(i, keep).plan = i.plan
        BY DEF Aged
    <1>3. \A p : p \in Plans' <=> p \in Plans \/ p = plan
        <2>1. ASSUME NEW p \in Plans'  PROVE p \in Plans \/ p = plan
            BY <1>1, <1>2, <2>1 DEF Plans
        <2>2. ASSUME NEW p \in Plans  PROVE p \in Plans'
            <3>1. PICK i \in issued : p = i.plan
                BY DEF Plans
            <3>2. Aged(i, keep) \in issued'
                BY <1>1
            <3> QED
                BY <1>2, <3>1, <3>2 DEF Plans
        <2>3. plan \in Plans'
            <3>1. [plan |-> plan, generation |-> next] \in issued'
                BY <1>1
            <3>2. [plan |-> plan, generation |-> next].plan = plan
                OBVIOUS
            <3> QED
                BY <3>1, <3>2, Zenon DEF Plans
        <2> QED
            BY <2>1, <2>2, <2>3
    <1> QED
        BY <1>3

\* What the runtime retains and indexes is finite, so its counters are
\* numbers.
FiniteInv == IsFiniteSet(DOMAIN retained) /\ IsFiniteSet(subject_index)

TypeInv == TypeOK /\ FiniteInv

\* The two shapes a busy call has.
LEMMA CallShape ==
    ASSUME TypeOK, NEW t \in Thread
    PROVE  /\ calls[t].pc = "captured" =>
                  /\ calls[t].request \in Request
                  /\ calls[t].snap \in Snapshot \cup {NoSnapshot}
                  /\ calls[t].seq \in Nat
                  /\ calls[t].epoch \in Nat
           /\ calls[t].pc = "compared" =>
                  /\ calls[t].plan \in Plan
                  /\ calls[t].currentness \in CurrentnessValue
    BY DEF TypeOK, CallState, Idle

\* What the search may return for a request on a snapshot.
LEMMA OutcomeType ==
    ASSUME NEW r \in Request, NEW s \in Snapshot
    PROVE  /\ Outcome[r][s].cands \in SUBSET (SUBSET Present[s])
           /\ Outcome[r][s].failure \in PlanStatus
    BY OutcomeAssumption, Zenon

\* A call that is not refused captured a snapshot.
LEMMA AcceptedHasSnapshot ==
    ASSUME NEW r, NEW c, Refusal(r, c) = "OK"
    PROVE  c.snap # NoSnapshot
    BY DEF Refusal

\* The plan compared for publication is a plan of the captured snapshot.
LEMMA ComparedPlan ==
    ASSUME TypeOK, NEW t \in Thread, CompareBeforePublish(t)
    PROVE  /\ calls[t].pc = "captured"
           /\ calls[t].snap \in Snapshot
           /\ \E p \in Plan, c \in {"CURRENT", "REVALIDATION_REQUIRED"} :
                 /\ calls' = [calls EXCEPT ![t] =
                        [pc |-> "compared", plan |-> p, currentness |-> c]]
                 /\ p.request = calls[t].request
                 /\ p.snap = calls[t].snap
                 /\ p.seq = calls[t].seq
                 /\ p.cands \subseteq SUBSET Present[p.snap]
                 /\ c = "CURRENT" => ~WatermarkChanged(calls[t])
    <1> DEFINE c == calls[t]
               r == c.request
               o == Outcome[r][c.snap]
    <1>1. c.pc = "captured" /\ Refusal(r, c) = "OK"
        BY DEF CompareBeforePublish
    <1>2. c.snap \in Snapshot /\ r \in Request /\ c.seq \in Nat
        BY <1>1, CallShape, AcceptedHasSnapshot
    <1>3. o.cands \in SUBSET (SUBSET Present[c.snap]) /\ o.failure \in PlanStatus
        BY <1>2, OutcomeType, Zenon
    <1>4. Present[c.snap] \subseteq Subject
        BY <1>2, SnapshotAssumption
    <1>5. PICK verdict \in Verdicts(o.cands) :
              calls' = [calls EXCEPT ![t] =
                  [pc |-> "compared",
                   plan |-> EncodeSemantic(r, c,
                       IF WatermarkChanged(c) THEN "REVALIDATION_REQUIRED"
                       ELSE ResultStatus(r, o, AuthorityFilter(r, o.cands, verdict)),
                       AuthorityFilter(r, o.cands, verdict)),
                   currentness |-> IF WatermarkChanged(c) \/ Provisional(r)
                                   THEN "REVALIDATION_REQUIRED" ELSE "CURRENT"]]
        BY DEF CompareBeforePublish
    <1> DEFINE kept == AuthorityFilter(r, o.cands, verdict)
               status == IF WatermarkChanged(c) THEN "REVALIDATION_REQUIRED"
                         ELSE ResultStatus(r, o, kept)
               p == EncodeSemantic(r, c, status, kept)
               cur == IF WatermarkChanged(c) \/ Provisional(r)
                      THEN "REVALIDATION_REQUIRED" ELSE "CURRENT"
    <1>6. kept \subseteq o.cands
        BY DEF AuthorityFilter
    <1>7. status \in PlanStatus
        BY <1>3 DEF ResultStatus, PlanStatus
    <1>8. /\ p.request = r /\ p.snap = c.snap /\ p.seq = c.seq
          /\ p.cands = kept /\ p.status = status
          /\ p = [request |-> r, status |-> status, snap |-> c.snap,
                  seq |-> c.seq, cands |-> kept]
        BY DEF EncodeSemantic
    <1>9. p \in Plan
        <2> HIDE DEF kept, status, p, o
        <2> QED
            BY <1>2, <1>3, <1>4, <1>6, <1>7, <1>8 DEF Plan
    <1>10. cur \in {"CURRENT", "REVALIDATION_REQUIRED"}
           /\ (cur = "CURRENT" => ~WatermarkChanged(c))
        OBVIOUS
    <1>11. calls' = [calls EXCEPT ![t] =
               [pc |-> "compared", plan |-> p, currentness |-> cur]]
        BY <1>5
    <1> HIDE DEF kept, status, p, o, cur
    <1> QED
        BY <1>1, <1>2, <1>3, <1>6, <1>8, <1>9, <1>10, <1>11

\* Dependencies of a plan are subjects, and there are finitely many of them.
LEMMA DependenciesType ==
    ASSUME NEW p \in Plan
    PROVE  /\ CollectPlanDependencies(p) \subseteq Subject
           /\ IsFiniteSet(CollectPlanDependencies(p))
    <1>1. CollectPlanDependencies(p) \subseteq Subject
        BY DEF Plan, CollectPlanDependencies
    <1> QED
        BY <1>1, SubjectAssumption, FS_Subset

\* Every published plan is a well-formed plan.
LEMMA PlansType ==
    ASSUME TypeOK
    PROVE  Plans \subseteq Plan
    BY DEF TypeOK, Plans

\* Publication keeps the generation table well formed: the order lists its
\* keys, and a surviving key was there before or is the new one.
LEMMA PublishTypes ==
    ASSUME TypeInv, NEW t \in Thread, PublishPlan(t)
    PROVE  TypeInv'
    <1> DEFINE plan  == calls[t].plan
               id    == Req[plan.request].id
               next  == NextGeneration(id, plan)
               full  == IF id \in DOMAIN request_generations
                        THEN request_generation_order
                        ELSE Append(request_generation_order, id)
               drop  == IF Len(full) > MaxRetainedPlans
                        THEN Len(full) - MaxRetainedPlans ELSE 0
               order == GenerationOrder(id)
               keep  == {order[i] : i \in 1..Len(order)}
               keys  == DOMAIN request_generations \cup {id}
    <1>1. plan \in Plan
        BY CallShape DEF TypeInv, PublishPlan
    <1>2. next \in Nat
        BY DEF TypeInv, TypeOK, NextGeneration
    <1>3. full \in Seq(keys)
        BY DEF TypeInv, TypeOK
    <1>4. order = SubSeq(full, drop + 1, Len(full))
        BY DEF GenerationOrder
    <1>5. order \in Seq(keys)
        <2> HIDE DEF full
        <2>1. Len(full) \in Nat /\ drop \in Nat
            BY <1>3, LimitAssumption
        <2>2. \A i \in drop + 1 .. Len(full) : full[i] \in keys
            BY <1>3, <2>1
        <2> HIDE DEF drop, keys, order
        <2> QED
            BY <1>4, <2>1, <2>2, SubSeqProperties
    <1> HIDE DEF order, next
    <1>6. order \in Seq(keep) /\ keep \subseteq keys
        BY <1>5
    <1>7. /\ request_generations' =
                 [i \in keep |-> IF i = id
                                 THEN [digest |-> plan, generation |-> next]
                                 ELSE request_generations[i]]
          /\ request_generation_order' = order
          /\ issued' = {Aged(i, keep) : i \in issued}
                         \cup {[plan |-> plan, generation |-> next]}
          /\ fresh_plans' \subseteq fresh_plans \cup {plan}
        BY DEF PublishPlan, order, next
    <1>8. /\ request_generations' \in [keep -> [digest : Plan, generation : Nat]]
          /\ DOMAIN request_generations' = keep
        <2>1. \A i \in keep : i # id => i \in DOMAIN request_generations
            BY <1>6
        <2>2. [digest |-> plan, generation |-> next]
                  \in [digest : Plan, generation : Nat]
            BY <1>1, <1>2
        <2> HIDE DEF keep, plan, id
        <2> QED
            BY <1>7, <2>1, <2>2 DEF TypeInv, TypeOK
    <1>9. issued' \subseteq [plan : Plan, generation : Nat]
        <2>1. \A i \in issued : Aged(i, keep) \in [plan : Plan, generation : Nat]
            BY DEF TypeInv, TypeOK, Aged
        <2>2. [plan |-> plan, generation |-> next] \in [plan : Plan, generation : Nat]
            BY <1>1, <1>2
        <2> HIDE DEF plan, keep
        <2> QED
            BY <1>7, <2>1, <2>2, Zenon
    <1>10. Plans' = Plans \cup {plan}
        BY PublishAddsPlan DEF TypeInv
    <1>11. /\ calls' = [calls EXCEPT ![t] = Idle]
           /\ fresh_calls' = fresh_calls \ {t}
           /\ UNCHANGED <<inputs, store>>
        BY DEF PublishPlan
    <1>12. calls' \in [Thread -> CallState] /\ fresh_calls' \subseteq Thread
        BY <1>11 DEF TypeInv, TypeOK, CallState
    <1>13. retention_order \in Seq(Plans')
        BY <1>10 DEF TypeInv, TypeOK
    <1> QED
        BY <1>6, <1>7, <1>8, <1>9, <1>10, <1>11, <1>12, <1>13
        DEF TypeInv, TypeOK, FiniteInv, inputs, store

\* The eviction loop never runs past the end of the order.
LEMMA EvictionsType ==
    ASSUME TypeInv
    PROVE  Evictions \in 0..Len(retention_order)
    <1>1. Cardinality(DOMAIN retained) \in Nat
        BY FS_CardinalityType DEF TypeInv, FiniteInv
    <1>2. Len(retention_order) \in Nat
        BY DEF TypeInv, TypeOK
    <1> QED
        BY <1>1, <1>2, LimitAssumption DEF Evictions

\* Retaining a new plan, evicting the oldest ones and indexing it keep the
\* store well formed and finite.
LEMMA RetainNewTypes ==
    ASSUME TypeInv, NEW p \in Plans, RetainNew(p)
    PROVE  TypeInv'
    <1> DEFINE k       == Evictions
               victims == {retention_order[i] : i \in 1..k}
               removed == UnindexPlan(victims)
               entries == EntriesLeft(victims)
               deps    == CollectPlanDependencies(p)
               added   == IndexedSubjects(deps, entries)
               rest    == SubSeq(retention_order, k + 1, Len(retention_order))
    <1>1. /\ retained' = [q \in (DOMAIN retained \ victims) \cup {p} |->
                             IF q = p THEN InitialCurrentness(p) ELSE retained[q]]
          /\ retention_order' = Append(rest, p)
          /\ subject_index' = (subject_index \ removed) \cup (added \X {p})
          /\ reverse_entries' = entries + Cardinality(added)
          /\ reverse_index_complete' = (reverse_index_complete /\ added = deps)
          /\ UNCHANGED <<inputs, generations, calls, history>>
        BY DEF RetainNew
    <1>2. Plans' = Plans
        BY <1>1 DEF Plans, history
    <1>3. k \in 0..Len(retention_order) /\ Len(retention_order) \in Nat
        BY EvictionsType DEF TypeInv, TypeOK
    <1>4. rest \in Seq(Plans)
        <2>1. \A i \in k + 1 .. Len(retention_order) : retention_order[i] \in Plans
            BY <1>3 DEF TypeInv, TypeOK
        <2>2. retention_order \in Seq(Plans)
            BY DEF TypeInv, TypeOK
        <2> HIDE DEF k
        <2> QED
            BY <1>3, <2>1, <2>2, SubSeqProperties
    <1>5. added \subseteq Subject /\ IsFiniteSet(added)
        <2>1. added \subseteq deps
            BY DEF IndexedSubjects
        <2>2. deps \subseteq Subject /\ IsFiniteSet(deps)
            BY PlansType, DependenciesType DEF TypeInv
        <2> HIDE DEF added, deps
        <2> QED
            BY <2>1, <2>2, FS_Subset
    <1>6. entries \in Nat
        <2>1. removed \subseteq subject_index
            BY DEF UnindexPlan
        <2>2. Cardinality(removed) \in Nat
            BY <2>1, FS_Subset, FS_CardinalityType DEF TypeInv, FiniteInv
        <2>3. reverse_entries \in Nat
            BY DEF TypeInv, TypeOK
        <2> QED
            BY <2>2, <2>3 DEF EntriesLeft
    <1>7. InitialCurrentness(p) \in CurrentnessValue
        BY DEF InitialCurrentness, CurrentnessValue
    <1>8. /\ DOMAIN retained' \subseteq Plans
          /\ retained' \in [DOMAIN retained' -> CurrentnessValue]
        BY <1>1, <1>7 DEF TypeInv, TypeOK
    <1>9. IsFiniteSet(DOMAIN retained')
        <2>1. IsFiniteSet(DOMAIN retained \ victims)
            BY FS_Subset DEF TypeInv, FiniteInv
        <2>2. IsFiniteSet((DOMAIN retained \ victims) \cup {p})
            BY <2>1, FS_AddElement
        <2> QED
            BY <1>1, <2>2
    <1>10. subject_index' \subseteq Subject \X Plans
        <2>1. subject_index \ removed \subseteq Subject \X Plans
            BY DEF TypeInv, TypeOK
        <2>2. added \X {p} \subseteq Subject \X Plans
            BY <1>5
        <2> HIDE DEF removed, added
        <2> QED
            BY <1>1, <2>1, <2>2
    <1>11. IsFiniteSet(subject_index')
        <2>1. IsFiniteSet(subject_index \ removed)
            BY FS_Subset DEF TypeInv, FiniteInv
        <2>2. IsFiniteSet({p})
            BY FS_Singleton
        <2>3. IsFiniteSet(added \X {p})
            BY <1>5, <2>2, FS_Product
        <2> HIDE DEF removed, added
        <2> QED
            BY <1>1, <2>1, <2>3, FS_Union
    <1>12. reverse_entries' \in Nat
        BY <1>1, <1>5, <1>6, FS_CardinalityType
    <1>13. retention_order' \in Seq(Plans)
        BY <1>1, <1>4
    <1>14. reverse_index_complete' \in BOOLEAN
        BY <1>1
    <1> QED
        BY <1>1, <1>2, <1>8, <1>9, <1>10, <1>11, <1>12, <1>13, <1>14
        DEF TypeInv, TypeOK, FiniteInv, inputs, generations, history

\* The remaining actions keep the types.
LEMMA NextTypes ==
    ASSUME TypeInv, [Next]_vars
    PROVE  TypeInv'
    <1> USE DEF TypeInv, FiniteInv
    <1>1. ASSUME NEW t \in Thread, NEW r \in Request, BeginPlan(t, r)
          PROVE  TypeInv'
        <2> DEFINE c == [pc |-> "captured", request |-> r, snap |-> snapshot,
                         seq |-> publish_sequence, epoch |-> epoch]
        <2>1. c \in CallState
            BY DEF TypeOK, CallState
        <2>2. calls' = [calls EXCEPT ![t] = c]
            BY <1>1 DEF BeginPlan
        <2>3. calls' \in [Thread -> CallState]
            BY <2>1, <2>2 DEF TypeOK
        <2>4. Plans' = Plans
            BY <1>1 DEF BeginPlan, Plans
        <2> QED
            BY <1>1, <2>3, <2>4 DEF BeginPlan, TypeOK, inputs, store, generations
    <1>2. ASSUME NEW t \in Thread, ReturnRefusal(t)
          PROVE  TypeInv'
        <2>1. calls' \in [Thread -> CallState]
            BY <1>2 DEF ReturnRefusal, TypeOK, CallState
        <2>2. Plans' = Plans
            BY <1>2 DEF ReturnRefusal, Plans
        <2> QED
            BY <1>2, <2>1, <2>2 DEF ReturnRefusal, TypeOK, inputs, store, generations
    <1>3. ASSUME NEW t \in Thread, CompareBeforePublish(t)
          PROVE  TypeInv'
        <2>1. PICK p \in Plan, c \in {"CURRENT", "REVALIDATION_REQUIRED"} :
                  calls' = [calls EXCEPT ![t] =
                      [pc |-> "compared", plan |-> p, currentness |-> c]]
            BY <1>3, ComparedPlan
        <2>2. [pc |-> "compared", plan |-> p, currentness |-> c] \in CallState
            BY DEF CallState, CurrentnessValue
        <2>3. calls' \in [Thread -> CallState]
            BY <2>1, <2>2 DEF TypeOK
        <2>4. Plans' = Plans
            BY <1>3 DEF CompareBeforePublish, Plans, history
        <2>5. UNCHANGED <<inputs, store, generations, history>>
            BY <1>3 DEF CompareBeforePublish
        <2> QED
            BY <2>3, <2>4, <2>5 DEF TypeOK, inputs, store, generations, history
    <1>4. ASSUME NEW t \in Thread, PublishPlan(t)
          PROVE  TypeInv'
        BY <1>4, PublishTypes
    <1>5. ASSUME NEW p \in Plans, RetainAgain(p)
          PROVE  TypeInv'
        <2>1. InitialCurrentness(p) \in CurrentnessValue
            BY DEF InitialCurrentness, CurrentnessValue
        <2>2. Plans' = Plans
            BY <1>5 DEF RetainAgain, Plans, history
        <2>3. /\ DOMAIN retained' = DOMAIN retained
              /\ retained' \in [DOMAIN retained' -> CurrentnessValue]
            BY <1>5, <2>1 DEF RetainAgain, TypeOK
        <2> QED
            BY <1>5, <2>2, <2>3 DEF RetainAgain, TypeOK, inputs, generations, history
    <1>6. ASSUME NEW p \in Plans, RetainNew(p)
          PROVE  TypeInv'
        BY <1>6, RetainNewTypes
    <1>7. ASSUME NEW s \in Snapshot \cup {NoSnapshot}, PublishSnapshot(s)
          PROVE  TypeInv'
        <2>1. Plans' = Plans
            BY <1>7 DEF PublishSnapshot, Plans
        <2>2. s \in Snapshot => Gens[s]["epoch"] \in Nat
            BY SnapshotAssumption DEF Dimension
        <2>3. epoch' \in Nat /\ publish_sequence' \in Nat
            BY <1>7, <2>2 DEF PublishSnapshot, AdvanceWatermark, TypeOK
        <2> QED
            BY <1>7, <2>1, <2>3
            DEF PublishSnapshot, InputsChanged, TypeOK, store, generations
    <1>8. ASSUME NEW n \in Notice, ApplyInvalidation(n)
          PROVE  TypeInv'
        <2>1. Plans' = Plans
            BY <1>8 DEF ApplyInvalidation, Plans
        <2>2. publish_sequence' \in Nat
            BY <1>8 DEF ApplyInvalidation, AdvanceWatermark, TypeOK
        <2>3. \A p : Invalidated(p) \in CurrentnessValue
            BY DEF Invalidated, CurrentnessValue
        <2>4. /\ DOMAIN retained' = DOMAIN retained
              /\ retained' \in [DOMAIN retained' -> CurrentnessValue]
            BY <1>8, <2>3 DEF ApplyInvalidation, TypeOK
        <2> QED
            BY <1>8, <2>1, <2>2, <2>4
            DEF ApplyInvalidation, InputsChanged, TypeOK, generations
    <1>9. ASSUME NEW e \in Epoch, NEW b \in BOOLEAN, AdvanceEpoch(e, b)
          PROVE  TypeInv'
        <2>1. Plans' = Plans
            BY <1>9 DEF AdvanceEpoch, Plans
        <2>2. epoch' \in Nat /\ publish_sequence' \in Nat
            BY <1>9, LimitAssumption DEF AdvanceEpoch, AdvanceWatermark, TypeOK
        <2>3. /\ DOMAIN retained' = DOMAIN retained
              /\ retained' \in [DOMAIN retained' -> CurrentnessValue]
            BY <1>9 DEF AdvanceEpoch, TypeOK, CurrentnessValue
        <2> QED
            BY <1>9, <2>1, <2>2, <2>3
            DEF AdvanceEpoch, InputsChanged, TypeOK, generations
    <1>10. CASE UNCHANGED vars
        BY <1>10 DEF vars, inputs, store, generations, history, TypeOK, Plans
    <1> QED
        BY <1>1, <1>2, <1>3, <1>4, <1>5, <1>6, <1>7, <1>8, <1>9, <1>10 DEF Next

\* A new runtime is well typed.
LEMMA InitTypes ==
    ASSUME Init
    PROVE  TypeInv
    <1>1. InitialSnapshot # NoSnapshot => Gens[InitialSnapshot]["epoch"] \in Nat
        BY SnapshotAssumption DEF Dimension
    <1>2. epoch \in Nat /\ snapshot \in Snapshot \cup {NoSnapshot}
        BY <1>1, SnapshotAssumption DEF Init
    <1>3. DOMAIN retained = {} /\ DOMAIN request_generations = {} /\ Plans = {}
        BY DEF Init, Plans
    <1>4. FiniteInv
        BY <1>3, FS_EmptySet DEF FiniteInv, Init
    <1>5. /\ retained \in [DOMAIN retained -> CurrentnessValue]
          /\ request_generations \in
                 [DOMAIN request_generations -> [digest : Plan, generation : Nat]]
          /\ retention_order \in Seq(Plans)
          /\ request_generation_order \in Seq(DOMAIN request_generations)
        BY <1>3 DEF Init
    <1>6. calls \in [Thread -> CallState]
        BY DEF Init, CallState
    <1> QED
        BY <1>2, <1>3, <1>4, <1>5, <1>6 DEF Init, TypeInv, TypeOK

\* The runtime's fields keep their types in every reachable state: the
\* counters stay numbers, and the store and the index name published plans.
THEOREM TypeCorrect == Spec => []TypeOK
    <1>1. Init => TypeInv
        BY InitTypes
    <1>2. TypeInv /\ [Next]_vars => TypeInv'
        BY NextTypes
    <1>3. TypeInv => TypeOK
        BY DEF TypeInv
    <1> QED
        BY <1>1, <1>2, <1>3, PTL DEF Spec

----------------------------------------------------------------------------
(* The watermark.  CurrentMeansFresh is not inductive: it says nothing of  *)
(* calls still in flight.  What is, is that nothing carries a sequence of  *)
(* the future, and that whoever carries the present one saw the present    *)
(* inputs.                                                                 *)

Seen(seq, snap, fresh) ==
    /\ seq <= publish_sequence
    /\ seq = publish_sequence => fresh /\ snap = snapshot

CallsSeen ==
    \A t \in Thread :
        /\ calls[t].pc = "captured" =>
              Seen(calls[t].seq, calls[t].snap, t \in fresh_calls)
        /\ calls[t].pc = "compared" =>
              Seen(calls[t].plan.seq, calls[t].plan.snap, t \in fresh_calls)

PlansSeen == \A p \in Plans : Seen(p.seq, p.snap, p \in fresh_plans)

\* A mark other than CURRENT was either put at retention, on a diagnostic
\* plan, or by an input change after the plan's capture.
MarksJustified ==
    \A p \in DOMAIN retained :
        retained[p] # "CURRENT" =>
            Req[p.request].diagnostic \/ p.seq < publish_sequence

WatermarkInv == TypeInv /\ CallsSeen /\ PlansSeen /\ MarksJustified

\* An input change leaves every call and plan behind the watermark.
LEMMA AdvanceKeepsSeen ==
    ASSUME WatermarkInv, AdvanceWatermark, UNCHANGED <<calls, issued>>,
           DOMAIN retained' \subseteq DOMAIN retained
    PROVE  CallsSeen' /\ PlansSeen' /\ MarksJustified'
    <1>1. publish_sequence \in Nat /\ publish_sequence' = publish_sequence + 1
        BY DEF WatermarkInv, TypeInv, TypeOK, AdvanceWatermark
    <1>2. Plans' = Plans
        BY DEF Plans
    <1>3. \A p \in Plans : p.seq \in Nat /\ p.seq < publish_sequence'
        BY <1>1, PlansType DEF WatermarkInv, TypeInv, PlansSeen, Seen, Plan
    <1>4. PlansSeen'
        BY <1>1, <1>2, <1>3 DEF PlansSeen, Seen
    <1>5. CallsSeen'
        <2> SUFFICES ASSUME NEW t \in Thread  PROVE
                /\ calls[t].pc = "captured" => calls[t].seq < publish_sequence'
                                              /\ calls[t].seq \in Nat
                /\ calls[t].pc = "compared" => calls[t].plan.seq < publish_sequence'
                                              /\ calls[t].plan.seq \in Nat
            BY <1>1 DEF CallsSeen, Seen
        <2>1. CASE calls[t].pc = "captured"
            BY <1>1, <2>1, CallShape DEF WatermarkInv, TypeInv, CallsSeen, Seen
        <2>2. CASE calls[t].pc = "compared"
            BY <1>1, <2>2, CallShape DEF WatermarkInv, TypeInv, CallsSeen, Seen, Plan
        <2> QED
            BY <2>1, <2>2
    <1>6. MarksJustified'
        BY <1>3 DEF MarksJustified, WatermarkInv, TypeInv, TypeOK
    <1> QED
        BY <1>4, <1>5, <1>6

\* Retention, new or again, marks only diagnostic plans and no others.
LEMMA RetainKeepsMarks ==
    ASSUME WatermarkInv, NEW p \in Plans, RetainAgain(p) \/ RetainNew(p)
    PROVE  MarksJustified'
    <1>1. InitialCurrentness(p) # "CURRENT" => Req[p.request].diagnostic
        BY DEF InitialCurrentness, CurrentnessProven
    <1>2. publish_sequence' = publish_sequence
        BY DEF RetainAgain, RetainNew, inputs
    <1>3. \A q \in DOMAIN retained' :
              /\ q # p => q \in DOMAIN retained /\ retained'[q] = retained[q]
              /\ q = p => retained'[q] = InitialCurrentness(p)
        BY DEF RetainAgain, RetainNew, WatermarkInv, TypeInv, TypeOK
    <1> QED
        BY <1>1, <1>2, <1>3 DEF MarksJustified, WatermarkInv

\* Every step keeps the watermark invariant.
LEMMA NextWatermark ==
    ASSUME WatermarkInv, [Next]_vars
    PROVE  WatermarkInv'
    <1> USE DEF WatermarkInv, TypeInv
    <1>0. TypeInv'
        BY NextTypes
    <1>1. ASSUME NEW t \in Thread, NEW r \in Request, BeginPlan(t, r)
          PROVE  CallsSeen' /\ PlansSeen' /\ MarksJustified'
        <2>1. /\ UNCHANGED <<publish_sequence, snapshot, retained, issued, fresh_plans>>
              /\ fresh_calls' = fresh_calls \cup {t}
              /\ calls'[t].pc = "captured" /\ calls'[t].seq = publish_sequence
              /\ calls'[t].snap = snapshot
              /\ \A u \in Thread \ {t} : calls'[u] = calls[u]
            BY <1>1 DEF BeginPlan, inputs, store, TypeOK
        <2>2. CallsSeen'
            <3> SUFFICES ASSUME NEW u \in Thread
                         PROVE  /\ calls'[u].pc = "captured" =>
                                     Seen(calls[u].seq, calls[u].snap, u \in fresh_calls)'
                                /\ calls'[u].pc = "compared" =>
                                     Seen(calls[u].plan.seq, calls[u].plan.snap,
                                          u \in fresh_calls)'
                BY DEF CallsSeen
            <3>1. CASE u = t
                BY <2>1, <3>1 DEF Seen, TypeOK
            <3>2. CASE u # t
                BY <2>1, <3>2 DEF CallsSeen, Seen
            <3> QED
                BY <3>1, <3>2
        <2> QED
            BY <2>1, <2>2 DEF PlansSeen, MarksJustified, Plans, Seen
    <1>2. ASSUME NEW t \in Thread, ReturnRefusal(t)
          PROVE  CallsSeen' /\ PlansSeen' /\ MarksJustified'
        <2>1. /\ UNCHANGED <<publish_sequence, snapshot, retained, issued, fresh_plans>>
              /\ fresh_calls' = fresh_calls \ {t}
              /\ calls'[t].pc = "idle"
              /\ \A u \in Thread \ {t} : calls'[u] = calls[u]
            BY <1>2 DEF ReturnRefusal, inputs, store, TypeOK, Idle
        <2> QED
            BY <2>1 DEF CallsSeen, PlansSeen, MarksJustified, Plans, Seen
    <1>3. ASSUME NEW t \in Thread, CompareBeforePublish(t)
          PROVE  CallsSeen' /\ PlansSeen' /\ MarksJustified'
        <2>1. UNCHANGED <<publish_sequence, snapshot, retained, issued, fresh_calls,
                          fresh_plans>>
            BY <1>3 DEF CompareBeforePublish, inputs, store, history
        <2>2. /\ calls[t].pc = "captured"
              /\ calls'[t].pc = "compared"
              /\ calls'[t].plan.seq = calls[t].seq
              /\ calls'[t].plan.snap = calls[t].snap
              /\ \A u \in Thread \ {t} : calls'[u] = calls[u]
            BY <1>3, ComparedPlan DEF TypeOK
        <2> QED
            BY <2>1, <2>2 DEF CallsSeen, PlansSeen, MarksJustified, Plans, Seen
    <1>4. ASSUME NEW t \in Thread, PublishPlan(t)
          PROVE  CallsSeen' /\ PlansSeen' /\ MarksJustified'
        <2>1. /\ UNCHANGED <<publish_sequence, snapshot, retained>>
              /\ fresh_calls' = fresh_calls \ {t}
              /\ calls[t].pc = "compared" /\ calls'[t].pc = "idle"
              /\ \A u \in Thread \ {t} : calls'[u] = calls[u]
              /\ fresh_plans \subseteq fresh_plans'
              /\ t \in fresh_calls => calls[t].plan \in fresh_plans'
            BY <1>4 DEF PublishPlan, inputs, store, TypeOK, Idle
        <2>2. Plans' = Plans \cup {calls[t].plan}
            BY <1>4, PublishAddsPlan
        <2>3. CallsSeen' /\ MarksJustified'
            BY <2>1 DEF CallsSeen, MarksJustified, Seen
        <2>4. PlansSeen'
            BY <2>1, <2>2 DEF CallsSeen, PlansSeen, Seen
        <2> QED
            BY <2>3, <2>4
    <1>5. ASSUME NEW p \in Plans, RetainAgain(p) \/ RetainNew(p)
          PROVE  CallsSeen' /\ PlansSeen' /\ MarksJustified'
        <2>1. MarksJustified'
            BY <1>5, RetainKeepsMarks
        <2>2. UNCHANGED <<publish_sequence, snapshot, calls, issued, fresh_calls,
                          fresh_plans>>
            BY <1>5 DEF RetainAgain, RetainNew, inputs, history
        <2> QED
            BY <2>1, <2>2 DEF CallsSeen, PlansSeen, Plans, Seen
    <1>6. ASSUME NEW s \in Snapshot \cup {NoSnapshot}, PublishSnapshot(s)
          PROVE  CallsSeen' /\ PlansSeen' /\ MarksJustified'
        BY <1>6, AdvanceKeepsSeen DEF PublishSnapshot, store
    <1>7. ASSUME NEW n \in Notice, ApplyInvalidation(n)
          PROVE  CallsSeen' /\ PlansSeen' /\ MarksJustified'
        BY <1>7, AdvanceKeepsSeen DEF ApplyInvalidation
    <1>8. ASSUME NEW e \in Epoch, NEW b \in BOOLEAN, AdvanceEpoch(e, b)
          PROVE  CallsSeen' /\ PlansSeen' /\ MarksJustified'
        <2>1. DOMAIN retained' = DOMAIN retained
            BY <1>8 DEF AdvanceEpoch
        <2> QED
            BY <1>8, <2>1, AdvanceKeepsSeen DEF AdvanceEpoch
    <1>9. CASE UNCHANGED vars
        BY <1>0, <1>9 DEF vars, inputs, store, history, CallsSeen, PlansSeen,
                    MarksJustified, Plans, Seen
    <1> QED
        BY <1>0, <1>1, <1>2, <1>3, <1>4, <1>5, <1>6, <1>7, <1>8, <1>9 DEF Next

\* The watermark invariant holds in every reachable state.
LEMMA WatermarkInvariant == Spec => []WatermarkInv
    <1>1. Init => WatermarkInv
        <2> SUFFICES ASSUME Init  PROVE WatermarkInv
            OBVIOUS
        <2>1. \A t \in Thread : calls[t].pc = "idle"
            BY DEF Init, Idle
        <2> QED
            BY <2>1, InitTypes
            DEF Init, WatermarkInv, CallsSeen, PlansSeen, MarksJustified, Plans
    <1>2. WatermarkInv /\ [Next]_vars => WatermarkInv'
        BY NextWatermark
    <1> QED
        BY <1>1, <1>2, PTL DEF Spec

\* An answer of CURRENT means: the plan's sequence is the published one, it
\* is not diagnostic, and no mark says otherwise.
LEMMA CurrentAnswer ==
    ASSUME NEW p, CheckCurrentness(p) = "CURRENT"
    PROVE  /\ snapshot # NoSnapshot
           /\ SubjectsStillPresent(p, snapshot)
           /\ ~Req[p.request].diagnostic
           /\ p.seq = publish_sequence
    <1> DEFINE class == ClassifyEvidence(Gens[p.snap], Gens[snapshot])
               base == IF Req[p.request].diagnostic
                       THEN "REVALIDATION_REQUIRED" ELSE "CURRENT"
               marked == IF p \in DOMAIN retained /\ retained[p] = "REVALIDATION_REQUIRED"
                         THEN "REVALIDATION_REQUIRED" ELSE base
    <1>1. class \in CurrentnessValue
        BY ClassifyType
    <1>2. marked \in CurrentnessValue
        BY DEF CurrentnessValue
    <1>3. class # "CURRENT" => MoreSevere(marked, class) # "CURRENT"
        BY <1>1, <1>2, MoreSevereNotCurrent
    <1> QED
        BY <1>3 DEF CheckCurrentness

\* A plan reported CURRENT was computed from the inputs as they are now: no
\* publication, invalidation or epoch advance happened since its capture.
THEOREM CurrentIsFresh == Spec => []CurrentMeansFresh
    <1>1. WatermarkInv => CurrentMeansFresh
        BY CurrentAnswer DEF WatermarkInv, PlansSeen, Seen, CurrentMeansFresh
    <1> QED
        BY <1>1, WatermarkInvariant, PTL

\* The snapshot changes only together with the watermark.
LEMMA SnapshotNeedsWatermark ==
    ASSUME TypeOK, [Next]_vars
    PROVE  /\ publish_sequence' \in {publish_sequence, publish_sequence + 1}
           /\ publish_sequence' = publish_sequence => snapshot' = snapshot
    <1>1. publish_sequence \in Nat
        BY DEF TypeOK
    <1>2. CASE UNCHANGED inputs
        BY <1>2 DEF inputs
    <1>3. CASE AdvanceWatermark
        BY <1>1, <1>3 DEF AdvanceWatermark
    <1>4. UNCHANGED inputs \/ AdvanceWatermark
        BY DEF Next, vars, BeginPlan, ReturnRefusal, CompareBeforePublish,
               PublishPlan, RetainAgain, RetainNew, PublishSnapshot,
               ApplyInvalidation, AdvanceEpoch
    <1> QED
        BY <1>2, <1>3, <1>4

\* Published plans stay published.
LEMMA PlansGrow ==
    ASSUME TypeOK, [Next]_vars
    PROVE  Plans \subseteq Plans'
    <1>1. ASSUME NEW t \in Thread, PublishPlan(t)  PROVE Plans \subseteq Plans'
        BY <1>1, PublishAddsPlan
    <1>2. CASE issued' = issued
        BY <1>2 DEF Plans
    <1>3. issued' = issued \/ \E t \in Thread : PublishPlan(t)
        BY DEF Next, vars, history, BeginPlan, ReturnRefusal,
               CompareBeforePublish, RetainAgain, RetainNew,
               PublishSnapshot, ApplyInvalidation, AdvanceEpoch
    <1> QED
        BY <1>1, <1>2, <1>3

\* Under the watermark a plan's answer is CURRENT whenever its subjects are
\* present, it is not diagnostic and it carries the published sequence: no
\* mark and no generation can then say otherwise.
LEMMA PresentSequenceIsCurrent ==
    ASSUME WatermarkInv, NEW p \in Plans, p.seq = publish_sequence,
           ~Req[p.request].diagnostic, snapshot # NoSnapshot,
           SubjectsStillPresent(p, snapshot)
    PROVE  CheckCurrentness(p) = "CURRENT"
    <1>1. p.snap = snapshot
        BY DEF WatermarkInv, PlansSeen, Seen
    <1>2. ClassifyEvidence(Gens[p.snap], Gens[snapshot]) = "CURRENT"
        BY <1>1, ClassifySame
    <1>3. p.seq \in Nat /\ publish_sequence \in Nat
        BY PlansType DEF WatermarkInv, TypeInv, TypeOK, Plan
    <1>4. p \in DOMAIN retained => retained[p] = "CURRENT"
        BY <1>3 DEF WatermarkInv, MarksJustified
    <1> QED
        BY <1>2, <1>4 DEF CheckCurrentness

\* A plan that stopped being reported CURRENT is never CURRENT again: no
\* republication of its snapshot, re-retention or eviction revives it.
THEOREM NoRevival == Spec => NeverCurrentAgain
    <1> DEFINE answered == \A p : CheckCurrentness(p) = "CURRENT" =>
                               /\ snapshot # NoSnapshot
                               /\ SubjectsStillPresent(p, snapshot)
                               /\ ~Req[p.request].diagnostic
                               /\ p.seq = publish_sequence
    <1>a. answered
        BY CurrentAnswer
    <1>b. answered'
        BY <1>a, PTL
    <1>1. ASSUME WatermarkInv, WatermarkInv', [Next]_vars,
                 NEW p \in Plans, CheckCurrentness(p)' = "CURRENT"
          PROVE  CheckCurrentness(p) = "CURRENT"
        <2>1. /\ snapshot' # NoSnapshot
              /\ SubjectsStillPresent(p, snapshot)'
              /\ ~Req[p.request].diagnostic
              /\ p.seq = publish_sequence'
            BY <1>1, <1>b
        <2>2. p.seq \in Nat /\ publish_sequence \in Nat /\ p.seq <= publish_sequence
            BY <1>1, PlansType DEF WatermarkInv, TypeInv, TypeOK, PlansSeen, Seen, Plan
        <2>3. publish_sequence' = publish_sequence /\ snapshot' = snapshot
            BY <1>1, <2>1, <2>2, SnapshotNeedsWatermark DEF WatermarkInv, TypeInv
        <2>4. SubjectsStillPresent(p, snapshot)
            BY <2>1, <2>3 DEF SubjectsStillPresent, CollectPlanDependencies
        <2> QED
            BY <1>1, <2>1, <2>3, <2>4, PresentSequenceIsCurrent
    <1>2. WatermarkInv /\ WatermarkInv' /\ [Next]_vars =>
              [\A p \in Plans : CheckCurrentness(p) # "CURRENT" =>
                                     CheckCurrentness(p)' # "CURRENT"]_vars
        BY <1>1
    <1> QED
        BY <1>2, WatermarkInvariant, PTL DEF Spec, NeverCurrentAgain

\* Compare-before-publish lets a call keep CURRENT only if nothing changed
\* since its capture, the captured snapshot being put back included.
THEOREM CompareIsComplete == Spec => CompareCatchesEveryChange
    <1>1. ASSUME WatermarkInv, [Next]_vars, NEW t \in Thread,
                 calls[t].pc = "captured", calls'[t].pc = "compared",
                 calls'[t].currentness = "CURRENT"
          PROVE  t \in fresh_calls
        <2>1. calls \in [Thread -> CallState] /\ TypeOK
            BY <1>1 DEF WatermarkInv, TypeInv, TypeOK
        <2>2. ASSUME NEW u \in Thread, CompareBeforePublish(u)
              PROVE  u = t /\ ~WatermarkChanged(calls[t])
            <3>1. PICK p \in Plan, c \in {"CURRENT", "REVALIDATION_REQUIRED"} :
                      /\ calls' = [calls EXCEPT ![u] =
                             [pc |-> "compared", plan |-> p, currentness |-> c]]
                      /\ c = "CURRENT" => ~WatermarkChanged(calls[u])
                BY <2>1, <2>2, ComparedPlan
            <3>2. u = t
                BY <1>1, <2>1, <3>1
            <3>3. c = "CURRENT"
                BY <1>1, <2>1, <3>1, <3>2
            <3> QED
                BY <3>1, <3>2, <3>3
        <2>3. \E u \in Thread : CompareBeforePublish(u)
            <3>1. calls' # calls
                BY <1>1
            <3>2. ASSUME NEW u \in Thread, NEW r \in Request, BeginPlan(u, r)
                  PROVE  FALSE
                <4>1. calls'[t].pc \in {"captured", calls[t].pc}
                    BY <2>1, <3>2 DEF BeginPlan
                <4> QED
                    BY <1>1, <4>1
            <3>3. ASSUME NEW u \in Thread, ReturnRefusal(u) \/ PublishPlan(u)
                  PROVE  FALSE
                <4>1. calls' = [calls EXCEPT ![u] = Idle]
                    BY <3>3 DEF ReturnRefusal, PublishPlan
                <4>2. calls'[t].pc \in {"idle", calls[t].pc}
                    BY <2>1, <4>1 DEF Idle
                <4> QED
                    BY <1>1, <4>2
            <3> QED
                BY <1>1, <3>1, <3>2, <3>3
                DEF Next, vars, RetainAgain, RetainNew, PublishSnapshot,
                    ApplyInvalidation, AdvanceEpoch
        <2>4. calls[t].seq = publish_sequence
            BY <2>2, <2>3 DEF WatermarkChanged
        <2> QED
            BY <1>1, <2>4 DEF WatermarkInv, CallsSeen, Seen
    <1>2. WatermarkInv /\ [Next]_vars =>
              [\A t \in Thread :
                  /\ calls[t].pc = "captured" /\ calls'[t].pc = "compared"
                  /\ calls'[t].currentness = "CURRENT"
                  => t \in fresh_calls]_vars
        BY <1>1
    <1> QED
        BY <1>2, WatermarkInvariant, PTL DEF Spec, CompareCatchesEveryChange

----------------------------------------------------------------------------
(* The reverse index.                                                      *)

\* The index holds dependencies of retained plans only.
IndexSound ==
    \A e \in subject_index :
        e[2] \in DOMAIN retained /\ e[1] \in CollectPlanDependencies(e[2])

\* A complete index holds all of them.
IndexComplete ==
    reverse_index_complete =>
        \A p \in DOMAIN retained, s \in Subject :
            s \in CollectPlanDependencies(p) => <<s, p>> \in subject_index

IndexInv == TypeInv /\ IndexSound /\ IndexComplete

\* The two halves together are IndexCoversRetained.
LEMMA IndexHalves ==
    ASSUME TypeOK
    PROVE  IndexSound /\ IndexComplete <=> IndexCoversRetained
    <1> DEFINE wanted == {e \in Subject \X DOMAIN retained :
                             e[1] \in CollectPlanDependencies(e[2])}
    <1>1. subject_index \subseteq Subject \X Plans
        BY DEF TypeOK
    <1>2. IndexSound <=> subject_index \subseteq wanted
        BY <1>1 DEF IndexSound
    <1>3. ASSUME IndexSound  PROVE
              IndexComplete <=> (reverse_index_complete => subject_index = wanted)
        <2>1. ASSUME IndexComplete, reverse_index_complete, NEW e \in wanted
              PROVE  e \in subject_index
            <3>1. e = <<e[1], e[2]>> /\ e[1] \in Subject /\ e[2] \in DOMAIN retained
                  /\ e[1] \in CollectPlanDependencies(e[2])
                OBVIOUS
            <3> QED
                BY <2>1, <3>1 DEF IndexComplete
        <2>2. ASSUME subject_index = wanted  PROVE IndexComplete
            BY <2>2 DEF IndexComplete
        <2> QED
            BY <1>2, <1>3, <2>1, <2>2 DEF IndexComplete
    <1> QED
        BY <1>2, <1>3 DEF IndexCoversRetained

\* Evicting the oldest plans removes their entries and only theirs, and a
\* plan that does not fit clears the completeness flag.
LEMMA RetainNewIndex ==
    ASSUME IndexInv, NEW p \in Plans, RetainNew(p)
    PROVE  IndexSound' /\ IndexComplete'
    <1> DEFINE victims == {retention_order[i] : i \in 1..Evictions}
               removed == UnindexPlan(victims)
               entries == EntriesLeft(victims)
               deps    == CollectPlanDependencies(p)
               added   == IndexedSubjects(deps, entries)
    <1>1. /\ p \notin DOMAIN retained
          /\ DOMAIN retained' = (DOMAIN retained \ victims) \cup {p}
          /\ subject_index' = (subject_index \ removed) \cup (added \X {p})
          /\ reverse_index_complete' = (reverse_index_complete /\ added = deps)
        BY DEF RetainNew
    <1>2. added \subseteq deps
        BY DEF IndexedSubjects
    <1>3. \A e : e \in removed <=> e \in subject_index /\ e[2] \in victims
        BY DEF UnindexPlan
    <1> HIDE DEF victims, removed, added
    <1>4. IndexSound'
        <2> SUFFICES ASSUME NEW e \in subject_index'
                     PROVE  e[2] \in DOMAIN retained'
                            /\ e[1] \in CollectPlanDependencies(e[2])
            BY DEF IndexSound, CollectPlanDependencies
        <2>1. CASE e \in subject_index \ removed
            BY <1>1, <1>3, <2>1 DEF IndexInv, IndexSound
        <2>2. CASE e \in added \X {p}
            BY <1>1, <1>2, <2>2
        <2> QED
            BY <1>1, <2>1, <2>2
    <1>5. IndexComplete'
        <2> SUFFICES ASSUME reverse_index_complete', NEW q \in DOMAIN retained',
                            NEW s \in Subject, s \in CollectPlanDependencies(q)
                     PROVE  <<s, q>> \in subject_index'
            BY DEF IndexComplete, CollectPlanDependencies
        <2>1. CASE q = p
            BY <1>1, <2>1
        <2>2. CASE q # p
            <3>1. q \in DOMAIN retained /\ q \notin victims
                BY <1>1, <2>2
            <3>2. <<s, q>> \in subject_index
                BY <1>1, <3>1 DEF IndexInv, IndexComplete
            <3> QED
                BY <1>1, <1>3, <3>1, <3>2
        <2> QED
            BY <2>1, <2>2
    <1> QED
        BY <1>4, <1>5

\* Only RetainNew changes the index, its completeness flag or the set of
\* retained plans.
LEMMA NextIndex ==
    ASSUME IndexInv, [Next]_vars
    PROVE  IndexInv'
    <1>1. TypeInv'
        BY NextTypes DEF IndexInv
    <1>2. CASE /\ DOMAIN retained' = DOMAIN retained
               /\ UNCHANGED <<subject_index, reverse_index_complete>>
        BY <1>1, <1>2 DEF IndexInv, IndexSound, IndexComplete, CollectPlanDependencies
    <1>3. CASE \E p \in Plans : RetainNew(p)
        BY <1>1, <1>3, RetainNewIndex DEF IndexInv
    <1>4. CASE \E p \in Plans : RetainAgain(p)
        BY <1>2, <1>4 DEF RetainAgain
    <1>5. CASE \E e \in Epoch, b \in BOOLEAN : AdvanceEpoch(e, b)
        BY <1>2, <1>5 DEF AdvanceEpoch
    <1>6. CASE \E n \in Notice : ApplyInvalidation(n)
        BY <1>2, <1>6 DEF ApplyInvalidation
    <1>7. CASE UNCHANGED store
        BY <1>2, <1>7 DEF store
    <1>8. \/ UNCHANGED store
          \/ \E p \in Plans : RetainNew(p) \/ RetainAgain(p)
          \/ \E e \in Epoch, b \in BOOLEAN : AdvanceEpoch(e, b)
          \/ \E n \in Notice : ApplyInvalidation(n)
        BY DEF Next, vars, BeginPlan, ReturnRefusal, CompareBeforePublish,
               PublishPlan, PublishSnapshot
    <1> QED
        BY <1>1, <1>3, <1>4, <1>5, <1>6, <1>7, <1>8 DEF IndexInv

\* The index invariant holds in every reachable state.
LEMMA IndexInvariant == Spec => []IndexInv
    <1>1. Init => IndexInv
        BY InitTypes DEF Init, IndexInv, IndexSound, IndexComplete
    <1>2. IndexInv /\ [Next]_vars => IndexInv'
        BY NextIndex
    <1> QED
        BY <1>1, <1>2, PTL DEF Spec

\* The reverse index never names an evicted plan, and while it calls itself
\* complete it misses no dependency, at any ceiling and any retention limit.
THEOREM IndexIsExact == Spec => []IndexCoversRetained
    <1>1. IndexInv => IndexCoversRetained
        BY IndexHalves DEF IndexInv, TypeInv
    <1> QED
        BY <1>1, IndexInvariant, PTL

\* A targeted notice reaches every retained plan that depends on a named
\* subject, through the index or, when it overflowed, through the fallback;
\* with a complete index it reaches no other plan.
THEOREM InvalidationReachesDependents == Spec => InvalidationPrecise
    <1>1. ASSUME IndexInv, NEW n \in Notice, ApplyInvalidation(n),
                 NEW p \in DOMAIN retained
          PROVE  LET hit == CollectPlanDependencies(p) \cap n.subjects # {}
                 IN  /\ hit => retained'[p] # "CURRENT"
                     /\ ~hit /\ ~n.conservative /\ reverse_index_complete
                            => retained'[p] = retained[p]
        <2>1. retained'[p] = IF p \in Affected(n) THEN Invalidated(p) ELSE retained[p]
            BY <1>1 DEF ApplyInvalidation
        <2>2. n.subjects \subseteq Subject
            BY DEF Notice
        <2>3. Invalidated(p) # "CURRENT"
            BY DEF Invalidated
        <2>4. ASSUME CollectPlanDependencies(p) \cap n.subjects # {}
              PROVE  p \in Affected(n)
            BY <1>1, <2>2, <2>4 DEF Affected, IndexInv, IndexComplete
        <2>5. ASSUME CollectPlanDependencies(p) \cap n.subjects = {},
                     ~n.conservative, reverse_index_complete
              PROVE  p \notin Affected(n)
            <3>1. \A s \in n.subjects : <<s, p>> \notin subject_index
                BY <1>1, <2>5 DEF IndexInv, IndexSound
            <3> QED
                BY <2>5, <3>1 DEF Affected
        <2> QED
            BY <2>1, <2>3, <2>4, <2>5
    <1>2. IndexInv /\ [Next]_vars =>
              [\A n \in Notice : ApplyInvalidation(n) =>
                  \A p \in DOMAIN retained :
                     LET hit == CollectPlanDependencies(p) \cap n.subjects # {}
                     IN  /\ hit => retained'[p] # "CURRENT"
                         /\ ~hit /\ ~n.conservative /\ reverse_index_complete
                                => retained'[p] = retained[p]]_vars
        BY <1>1
    <1> QED
        BY <1>2, IndexInvariant, PTL DEF Spec, InvalidationPrecise


----------------------------------------------------------------------------
(* The eviction order.  RetentionOrderExact is not inductive by itself:    *)
(* evicting the oldest k entries removes k plans only because no plan is   *)
(* listed twice.                                                           *)

OrderInv ==
    /\ TypeInv
    /\ ListsOnce(retention_order)
    /\ Listed(retention_order) = DOMAIN retained
    /\ Len(retention_order) <= MaxRetainedPlans

\* Retaining a new plan evicts exactly enough of the oldest plans to stay
\* within the limit.
LEMMA RetainNewOrder ==
    ASSUME OrderInv, NEW p \in Plans, RetainNew(p)
    PROVE  OrderInv'
    <1> DEFINE k       == Evictions
               victims == {retention_order[i] : i \in 1..k}
               rest    == SubSeq(retention_order, k + 1, Len(retention_order))
    <1>1. /\ p \notin DOMAIN retained
          /\ DOMAIN retained' = (DOMAIN retained \ victims) \cup {p}
          /\ retention_order' = Append(rest, p)
        BY DEF RetainNew
    <1>2. retention_order \in Seq(Plans) /\ Len(retention_order) \in Nat
        BY DEF OrderInv, TypeInv, TypeOK
    <1>3. k \in 0..Len(retention_order)
        BY EvictionsType DEF OrderInv
    <1>4. Cardinality(DOMAIN retained) = Len(retention_order)
        BY <1>2, ListedCardinality DEF OrderInv
    <1>5. Len(retention_order) - k + 1 <= MaxRetainedPlans
        BY <1>2, <1>4, LimitAssumption DEF OrderInv, Evictions
    <1> HIDE DEF k
    <1>6. /\ Len(retention_order') = Len(retention_order) - k + 1
          /\ ListsOnce(retention_order')
          /\ Listed(retention_order') = (Listed(retention_order) \ victims) \cup {p}
        BY <1>1, <1>2, <1>3, DropAndAppend DEF OrderInv
    <1>7. TypeInv'
        BY RetainNewTypes DEF OrderInv
    <1> QED
        BY <1>1, <1>5, <1>6, <1>7 DEF OrderInv, ListsOnce, Listed

\* No other step changes the order or the set of retained plans.
LEMMA NextOrder ==
    ASSUME OrderInv, [Next]_vars
    PROVE  OrderInv'
    <1>1. TypeInv'
        BY NextTypes DEF OrderInv
    <1>2. CASE UNCHANGED retention_order /\ DOMAIN retained' = DOMAIN retained
        BY <1>1, <1>2 DEF OrderInv, ListsOnce, Listed
    <1>3. CASE \E p \in Plans : RetainNew(p)
        BY <1>3, RetainNewOrder
    <1>4. CASE \E p \in Plans : RetainAgain(p)
        BY <1>2, <1>4 DEF RetainAgain
    <1>5. CASE \E e \in Epoch, b \in BOOLEAN : AdvanceEpoch(e, b)
        BY <1>2, <1>5 DEF AdvanceEpoch
    <1>6. CASE \E n \in Notice : ApplyInvalidation(n)
        BY <1>2, <1>6 DEF ApplyInvalidation
    <1>7. CASE UNCHANGED store
        BY <1>2, <1>7 DEF store
    <1>8. \/ UNCHANGED store
          \/ \E p \in Plans : RetainNew(p) \/ RetainAgain(p)
          \/ \E e \in Epoch, b \in BOOLEAN : AdvanceEpoch(e, b)
          \/ \E n \in Notice : ApplyInvalidation(n)
        BY DEF Next, vars, BeginPlan, ReturnRefusal, CompareBeforePublish,
               PublishPlan, PublishSnapshot
    <1> QED
        BY <1>3, <1>4, <1>5, <1>6, <1>7, <1>8

\* The order invariant holds in every reachable state.
LEMMA OrderInvariant == Spec => []OrderInv
    <1>1. Init => OrderInv
        <2> SUFFICES ASSUME Init  PROVE OrderInv
            OBVIOUS
        <2>1. retention_order = <<>> /\ DOMAIN retained = {}
            BY DEF Init
        <2> QED
            BY <2>1, InitTypes, LimitAssumption DEF OrderInv, ListsOnce, Listed
    <1>2. OrderInv /\ [Next]_vars => OrderInv'
        BY NextOrder
    <1> QED
        BY <1>1, <1>2, PTL DEF Spec

\* The eviction order lists every retained plan exactly once and the runtime
\* never holds more plans than its limit, for every limit and every number of
\* publishing threads.
THEOREM RetentionIsBounded == Spec => []RetentionOrderExact
    <1>1. OrderInv => RetentionOrderExact
        <2> SUFFICES ASSUME OrderInv  PROVE RetentionOrderExact
            OBVIOUS
        <2>1. retention_order \in Seq(Plans)
            BY DEF OrderInv, TypeInv, TypeOK
        <2>2. DOMAIN retention_order = 1..Len(retention_order)
            BY <2>1
        <2>3. Cardinality(Listed(retention_order)) = Len(retention_order)
            BY <2>1, ListedCardinality DEF OrderInv
        <2> QED
            BY <2>2, <2>3 DEF OrderInv, Listed, RetentionOrderExact
    <1> QED
        BY <1>1, OrderInvariant, PTL

----------------------------------------------------------------------------
(* The entry counter of the reverse index.                                 *)

\* Walking the dependencies in order and stopping at the ceiling never adds
\* more entries than there is room for: a subject is ranked by the number of
\* smaller dependencies, and the ranks of the indexed ones are distinct and
\* below the room left.
LEMMA CeilingRespected ==
    ASSUME NEW deps \in SUBSET Subject, NEW entries \in Nat
    PROVE  LET added == IndexedSubjects(deps, entries)
           IN  /\ IsFiniteSet(added)
               /\ entries <= MaxReverseEntries =>
                      entries + Cardinality(added) <= MaxReverseEntries
    <1> DEFINE added == IndexedSubjects(deps, entries)
               below(s) == {u \in deps : u < s}
               rank == [s \in added |-> Cardinality(below(s))]
               room == MaxReverseEntries - entries
    <1>1. deps \subseteq Nat /\ IsFiniteSet(deps)
        BY SubjectAssumption, FS_Subset
    <1>2. added \subseteq deps
        BY DEF IndexedSubjects
    <1>3. IsFiniteSet(added)
        BY <1>1, <1>2, FS_Subset
    <1>4. \A s : IsFiniteSet(below(s)) /\ Cardinality(below(s)) \in Nat
        <2> SUFFICES ASSUME NEW s
                     PROVE  IsFiniteSet(below(s)) /\ Cardinality(below(s)) \in Nat
            OBVIOUS
        <2>1. below(s) \subseteq deps
            OBVIOUS
        <2> HIDE DEF below
        <2> QED
            BY <1>1, <2>1, FS_Subset, FS_CardinalityType
    <1>5. \A s \in added : entries + Cardinality(below(s)) < MaxReverseEntries
        BY DEF IndexedSubjects
    <1>6. ASSUME NEW s \in added, NEW u \in added, s < u
          PROVE  Cardinality(below(s)) < Cardinality(below(u))
        <2>a. s \in deps /\ u \in deps /\ s \in Nat /\ u \in Nat
            BY <1>1, <1>2
        <2> HIDE DEF added
        <2>b. s < u /\ ~(s < s) /\ \A v \in deps : v < s => v < u
            BY <1>1, <1>6, <2>a
        <2>1. below(s) \subseteq below(u) /\ s \in below(u) /\ s \notin below(s)
            BY <2>a, <2>b, Zenon
        <2> HIDE DEF below
        <2>2. Cardinality(below(s)) <= Cardinality(below(u))
              /\ Cardinality(below(s)) # Cardinality(below(u))
            BY <1>4, <2>1, FS_Subset
        <2> QED
            BY <1>4, <2>2
    <1> SUFFICES ASSUME entries <= MaxReverseEntries
                 PROVE  entries + Cardinality(added) <= MaxReverseEntries
        BY <1>3
    <1> HIDE DEF added, below
    <1>7. room \in Nat /\ \A s \in added : Cardinality(below(s)) \in 0 .. (room - 1)
        BY <1>4, <1>5, LimitAssumption
    <1> HIDE DEF room
    <1>8. rank \in [added -> 0 .. (room - 1)]
        BY <1>7
    <1>9. \A s, u \in added : rank[s] = rank[u] => s = u
        <2> SUFFICES ASSUME NEW s \in added, NEW u \in added, s # u
                     PROVE  Cardinality(below(s)) # Cardinality(below(u))
            OBVIOUS
        <2>1. s < u \/ u < s
            BY <1>1, <1>2
        <2> QED
            BY <1>4, <1>6, <2>1
    <1>10. rank \in Injection(added, 0 .. (room - 1))
        BY <1>8, <1>9 DEF Injection, IsInjective
    <1>11. IsFiniteSet(0 .. (room - 1)) /\ Cardinality(0 .. (room - 1)) = room
        <2>1. 0 \in Int /\ room - 1 \in Int
            BY <1>7
        <2>2. /\ IsFiniteSet(0 .. (room - 1))
              /\ Cardinality(0 .. (room - 1)) =
                     IF 0 > room - 1 THEN 0 ELSE room - 1 - 0 + 1
            BY <2>1, FS_Interval
        <2> QED
            BY <1>7, <2>2
    <1> HIDE DEF rank
    <1>12. Cardinality(added) <= room
        BY <1>10, <1>11, FS_Injection
    <1> QED
        BY <1>3, <1>12, FS_CardinalityType, LimitAssumption DEF room

\* IndexAccounting is preserved only while the index names retained plans:
\* then the plan being indexed has no entry yet, and every evicted plan's
\* entries are found and subtracted.
LEMMA RetainNewAccounting ==
    ASSUME IndexInv, IndexAccounting, NEW p \in Plans, RetainNew(p)
    PROVE  IndexAccounting'
    <1> DEFINE victims == {retention_order[i] : i \in 1..Evictions}
               removed == UnindexPlan(victims)
               left    == subject_index \ removed
               entries == EntriesLeft(victims)
               deps    == CollectPlanDependencies(p)
               added   == IndexedSubjects(deps, entries)
    <1>1. /\ p \notin DOMAIN retained
          /\ subject_index' = left \cup (added \X {p})
          /\ reverse_entries' = entries + Cardinality(added)
        BY DEF RetainNew
    <1>2. removed \subseteq subject_index /\ IsFiniteSet(subject_index)
        BY DEF UnindexPlan, IndexInv, TypeInv, FiniteInv
    <1>3. deps \subseteq Subject
        BY PlansType, DependenciesType DEF IndexInv, TypeInv
    <1>4. /\ IsFiniteSet(left) /\ entries \in Nat /\ entries = Cardinality(left)
          /\ entries <= MaxReverseEntries
        <2> HIDE DEF victims
        <2>1. subject_index \cap removed = removed
            BY <1>2
        <2>2. /\ IsFiniteSet(left)
              /\ Cardinality(left) = Cardinality(subject_index) - Cardinality(removed)
            BY <1>2, <2>1, FS_Difference
        <2>3. /\ Cardinality(subject_index) \in Nat /\ Cardinality(removed) \in Nat
              /\ Cardinality(removed) <= Cardinality(subject_index)
            BY <1>2, FS_Subset, FS_CardinalityType
        <2> HIDE DEF left
        <2> QED
            BY <2>2, <2>3, LimitAssumption DEF EntriesLeft, IndexAccounting
    <1>5. left \cap (added \X {p}) = {}
        BY <1>1 DEF IndexInv, IndexSound
    <1> HIDE DEF victims, left, entries, deps
    <1>6. IsFiniteSet(added) /\ entries + Cardinality(added) <= MaxReverseEntries
        BY <1>3, <1>4, CeilingRespected
    <1> HIDE DEF added
    <1>7. IsFiniteSet(added \X {p}) /\ Cardinality(added \X {p}) = Cardinality(added)
        <2>1. IsFiniteSet({p}) /\ Cardinality({p}) = 1
            BY FS_Singleton
        <2>2. /\ IsFiniteSet(added \X {p})
              /\ Cardinality(added \X {p}) = Cardinality(added) * Cardinality({p})
            BY <1>6, <2>1, FS_Product
        <2>3. Cardinality(added) \in Nat
            BY <1>6, FS_CardinalityType
        <2> QED
            BY <2>1, <2>2, <2>3
    <1>8. Cardinality(left \cup (added \X {p})) = entries + Cardinality(added)
        <2>1. Cardinality(left \cup (added \X {p})) =
                  Cardinality(left) + Cardinality(added \X {p})
                      - Cardinality(left \cap (added \X {p}))
            BY <1>4, <1>7, FS_Union
        <2>2. Cardinality(left \cap (added \X {p})) = 0
            BY <1>5, FS_EmptySet
        <2>3. Cardinality(added) \in Nat
            BY <1>6, FS_CardinalityType
        <2> QED
            BY <1>4, <1>7, <2>1, <2>2, <2>3
    <1> QED
        BY <1>1, <1>6, <1>8 DEF IndexAccounting

\* The entry counter equals the number of index entries and respects the
\* ceiling in every reachable state, for every ceiling.
THEOREM IndexIsAccounted == Spec => []IndexAccounting
    <1>1. Init => IndexAccounting
        BY FS_EmptySet, LimitAssumption DEF Init, IndexAccounting
    <1>2. IndexInv /\ IndexAccounting /\ [Next]_vars => IndexAccounting'
        <2> SUFFICES ASSUME IndexInv, IndexAccounting, [Next]_vars
                     PROVE  IndexAccounting'
            OBVIOUS
        <2>1. CASE UNCHANGED <<subject_index, reverse_entries>>
            BY <2>1 DEF IndexAccounting
        <2>2. CASE \E p \in Plans : RetainNew(p)
            BY <2>2, RetainNewAccounting
        <2>3. \/ UNCHANGED <<subject_index, reverse_entries>>
              \/ \E p \in Plans : RetainNew(p)
            BY DEF Next, vars, store, BeginPlan, ReturnRefusal,
                   CompareBeforePublish, PublishPlan, RetainAgain,
                   PublishSnapshot, ApplyInvalidation, AdvanceEpoch
        <2> QED
            BY <2>1, <2>2, <2>3
    <1> QED
        BY <1>1, <1>2, IndexInvariant, PTL DEF Spec

----------------------------------------------------------------------------
(* Planning generations.  GenerationNamesOnePlan needs to know what the    *)
(* counter of a request covers: every generation issued for it is at most  *)
(* the counter, and the counter's own generation belongs to its digest.    *)

RequestId(i) == Req[i.plan.request].id

\* Every generation still counted has its request's counter, is not above
\* it, and names the counter's digest if it equals it.
Counted(i) ==
    i.generation # 0 =>
        /\ RequestId(i) \in DOMAIN request_generations
        /\ i.generation <= request_generations[RequestId(i)].generation
        /\ i.generation = request_generations[RequestId(i)].generation =>
               i.plan = request_generations[RequestId(i)].digest

GenerationInv ==
    /\ TypeInv
    /\ Listed(request_generation_order) = DOMAIN request_generations
    /\ Len(request_generation_order) <= MaxRetainedPlans
    /\ \A i \in issued : Counted(i)
    /\ GenerationNamesOnePlan

\* The order after a publication lists the published request, only requests
\* that had a counter besides it, and all of those when it had one too.
LEMMA GenerationOrderKeeps ==
    ASSUME GenerationInv, NEW id
    PROVE  LET order == GenerationOrder(id)
           IN  /\ id \in Listed(order)
               /\ Listed(order) \subseteq DOMAIN request_generations \cup {id}
               /\ Len(order) <= MaxRetainedPlans
    <1> DEFINE keys == DOMAIN request_generations \cup {id}
               full == IF id \in DOMAIN request_generations
                       THEN request_generation_order
                       ELSE Append(request_generation_order, id)
               drop == IF Len(full) > MaxRetainedPlans
                       THEN Len(full) - MaxRetainedPlans ELSE 0
               order == SubSeq(full, drop + 1, Len(full))
    <1>1. GenerationOrder(id) = order
        BY DEF GenerationOrder
    <1>2. request_generation_order \in Seq(keys)
        BY DEF GenerationInv, TypeInv, TypeOK
    <1>3. full \in Seq(keys)
        BY <1>2
    <1>4. \E i \in 1..Len(full) : full[i] = id /\ drop < i
        <2>1. CASE id \in DOMAIN request_generations
            <3>1. full = request_generation_order
                BY <2>1
            <3>a. drop = 0
                BY <1>2, <3>1, LimitAssumption DEF GenerationInv
            <3>2. PICK i \in 1..Len(full) : full[i] = id
                BY <2>1, <3>1 DEF GenerationInv, Listed
            <3> QED
                BY <3>a, <3>2
        <2>2. CASE id \notin DOMAIN request_generations
            <3>1. full = Append(request_generation_order, id)
                BY <2>2
            <3>2. Len(full) \in Nat \ {0} /\ full[Len(full)] = id
                BY <1>2, <3>1, AppendProperties
            <3> HIDE DEF full
            <3>3. drop < Len(full)
                BY <3>2, LimitAssumption
            <3> QED
                BY <3>2, <3>3
        <2> QED
            BY <2>1, <2>2
    <1> HIDE DEF full
    <1>5. Len(full) \in Nat /\ drop \in Nat /\ drop <= Len(full)
          /\ Len(full) - drop <= MaxRetainedPlans
        BY <1>3, LimitAssumption
    <1> HIDE DEF drop
    <1>6. /\ order \in Seq(keys) /\ Len(order) = Len(full) - drop
          /\ \A i \in 1..(Len(full) - drop) : order[i] = full[drop + i]
        <2>1. \A i \in drop + 1 .. Len(full) : full[i] \in keys
            BY <1>3, <1>5
        <2> HIDE DEF order, keys
        <2>2. /\ order \in Seq(keys)
              /\ Len(order) = IF drop + 1 <= Len(full)
                              THEN Len(full) - (drop + 1) + 1 ELSE 0
              /\ \A i \in 1 .. Len(full) - (drop + 1) + 1 :
                     order[i] = full[(drop + 1) + i - 1]
            BY <1>5, <2>1, SubSeqProperties DEF order
        <2>3. /\ Len(full) - (drop + 1) + 1 = Len(full) - drop
              /\ drop + 1 <= Len(full) \/ Len(full) - drop = 0
              /\ \A i \in 1..(Len(full) - drop) : (drop + 1) + i - 1 = drop + i
            BY <1>5
        <2> QED
            BY <1>5, <2>2, <2>3
    <1> HIDE DEF order
    <1>7. id \in Listed(order)
        <2>1. PICK i \in 1..Len(full) : full[i] = id /\ drop < i
            BY <1>4
        <2>2. i - drop \in 1..(Len(full) - drop) /\ drop + (i - drop) = i
            BY <1>5, <2>1
        <2> QED
            BY <1>6, <2>1, <2>2 DEF Listed
    <1>8. Listed(order) \subseteq keys
        BY <1>6 DEF Listed
    <1> QED
        BY <1>1, <1>5, <1>6, <1>7, <1>8

\* Publication: the new generation of a request is above every older one
\* unless its digest is the last one's.
LEMMA PublishGeneration ==
    ASSUME GenerationInv, NEW t \in Thread, PublishPlan(t)
    PROVE  GenerationInv'
    <1> DEFINE plan  == calls[t].plan
               id    == Req[plan.request].id
               next  == NextGeneration(id, plan)
               order == GenerationOrder(id)
               keep  == Listed(order)
               new   == [plan |-> plan, generation |-> next]
    <1>1. /\ request_generations' =
                 [i \in keep |-> IF i = id
                                 THEN [digest |-> plan, generation |-> next]
                                 ELSE request_generations[i]]
          /\ request_generation_order' = order
          /\ issued' = {Aged(i, keep) : i \in issued} \cup {new}
        BY DEF PublishPlan, Listed
    <1>2. TypeInv'
        BY PublishTypes DEF GenerationInv
    <1>3. /\ id \in keep /\ keep \subseteq DOMAIN request_generations \cup {id}
          /\ Len(order) <= MaxRetainedPlans
        BY GenerationOrderKeeps
    <1>4. /\ next \in Nat
          /\ id \in DOMAIN request_generations =>
                 \/ /\ next = request_generations[id].generation
                    /\ plan = request_generations[id].digest
                 \/ next = request_generations[id].generation + 1
          /\ \A i \in DOMAIN request_generations : request_generations[i].generation \in Nat
        BY DEF NextGeneration, GenerationInv, TypeInv, TypeOK
    <1>5. new.plan = plan /\ new.generation = next /\ RequestId(new) = id
        BY DEF RequestId
    <1>6. ASSUME NEW i \in issued, Aged(i, keep).generation # 0
          PROVE  /\ Aged(i, keep).plan = i.plan
                 /\ Aged(i, keep).generation = i.generation
                 /\ RequestId(Aged(i, keep)) = RequestId(i)
                 /\ RequestId(i) \in keep
        BY <1>6 DEF Aged, RequestId
    <1>7. \A i \in issued : i.generation \in Nat
        BY DEF GenerationInv, TypeInv, TypeOK
    <1> HIDE DEF next, order, keep, new, id, plan
    <1>8. ASSUME NEW a \in issued', a.generation # 0
          PROVE  \/ a = new
                 \/ \E i \in issued : /\ i.generation = a.generation /\ i.plan = a.plan
                                       /\ RequestId(a) = RequestId(i)
                                       /\ RequestId(i) \in keep
                                       /\ Counted(i)
        BY <1>1, <1>6, <1>8 DEF GenerationInv
    <1>9. \A a \in issued' : Counted(a)'
        <2> SUFFICES ASSUME NEW a \in issued', a.generation # 0
                     PROVE  /\ RequestId(a) \in DOMAIN request_generations'
                            /\ a.generation <= request_generations'[RequestId(a)].generation
                            /\ a.generation = request_generations'[RequestId(a)].generation =>
                                   a.plan = request_generations'[RequestId(a)].digest
            BY DEF Counted, RequestId
        <2>1. CASE a = new
            BY <1>1, <1>3, <1>4, <1>5, <2>1
        <2>2. CASE \E i \in issued : /\ i.generation = a.generation /\ i.plan = a.plan
                                     /\ RequestId(a) = RequestId(i)
                                     /\ RequestId(i) \in keep
                                     /\ Counted(i)
            BY <1>1, <1>3, <1>4, <1>7, <2>2 DEF Counted
        <2> QED
            BY <1>8, <2>1, <2>2
    <1>10. GenerationNamesOnePlan'
        <2>1. ASSUME NEW i \in issued, Counted(i), RequestId(i) = id,
                     i.generation = next, next # 0
              PROVE  i.plan = plan
            BY <1>4, <1>7, <2>1 DEF Counted
        <2> SUFFICES ASSUME NEW a \in issued', NEW b \in issued',
                            RequestId(a) = RequestId(b),
                            a.generation = b.generation, a.generation # 0
                     PROVE  a.plan = b.plan
            BY DEF GenerationNamesOnePlan, RequestId
        <2> QED
            BY <1>5, <1>8, <2>1 DEF GenerationNamesOnePlan, GenerationInv, RequestId
    <1> QED
        BY <1>1, <1>2, <1>3, <1>9, <1>10 DEF GenerationInv, Listed, keep

\* However the publishing threads interleave, and however often counters are
\* evicted, a generation of a request that still has its counter names one
\* plan.
THEOREM GenerationIsUnique == Spec => []GenerationNamesOnePlan
    <1>1. Init => GenerationInv
        <2> SUFFICES ASSUME Init  PROVE GenerationInv
            OBVIOUS
        <2>1. /\ request_generation_order = <<>> /\ DOMAIN request_generations = {}
              /\ issued = {}
            BY DEF Init
        <2> QED
            BY <2>1, InitTypes, LimitAssumption
            DEF GenerationInv, GenerationNamesOnePlan, Listed
    <1>2. GenerationInv /\ [Next]_vars => GenerationInv'
        <2> SUFFICES ASSUME GenerationInv, [Next]_vars  PROVE GenerationInv'
            OBVIOUS
        <2>1. CASE UNCHANGED <<generations, issued>>
            <3>1. TypeInv'
                BY NextTypes DEF GenerationInv
            <3> QED
                BY <2>1, <3>1 DEF GenerationInv, GenerationNamesOnePlan, Counted,
                                  RequestId, Listed, generations
        <2>2. CASE \E t \in Thread : PublishPlan(t)
            BY <2>2, PublishGeneration
        <2>3. UNCHANGED <<generations, issued>> \/ \E t \in Thread : PublishPlan(t)
            BY DEF Next, vars, history, BeginPlan, ReturnRefusal,
                   CompareBeforePublish, RetainAgain, RetainNew,
                   PublishSnapshot, ApplyInvalidation, AdvanceEpoch
        <2> QED
            BY <2>1, <2>2, <2>3
    <1>3. GenerationInv => GenerationNamesOnePlan
        BY DEF GenerationInv
    <1> QED
        BY <1>1, <1>2, <1>3, PTL DEF Spec
============================================================================
