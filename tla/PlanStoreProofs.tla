-------------------------- MODULE PlanStoreProofs --------------------------
(***************************************************************************)
(* Proofs about PlanStore.                                                 *)
(*                                                                         *)
(* The types and the conservative recovery hold for any number of saving   *)
(* threads.  The promises about the file do not: two saves that share the  *)
(* temporary path can install a torn file, and a plan accepted twice makes *)
(* a file the next start refuses (the runs MCStoreConcurrent and           *)
(* MCStoreRepeat).  The theorems about the file therefore name what they   *)
(* need: OneSaver, and for the contents also NoRepeats.                    *)
(***************************************************************************)
EXTENDS PlanStore, ListFacts

\* Saves do not overlap.
OneSaver == \E s : Thread = {s}

\* No plan is accepted while it is still listed.
NoRepeats == ~AllowRepeats

----------------------------------------------------------------------------
(* Types.                                                                  *)

Marks == {"CURRENT", "REVALIDATION_REQUIRED"}

\* What a thread inside RetainAccepted or SaveStore holds, by program point.
SaverState ==
    {Idle} \cup [pc : {"retained"}, plan : Plan]
    \cup [pc : {"saving", "removing"}]
    \cup [pc : {"finding"}, ids : Image, found : Image]
    \cup [pc : {"encoded", "written"}, image : Image]
    \cup [pc : {"opened"}, image : Image, inode : Inode]

TypeInv == TypeOK /\ saver \in [Thread -> SaverState]

\* What a saver record of each program point holds.
LEMMA SaverFields ==
    ASSUME NEW r \in SaverState
    PROVE  /\ r.pc = "idle" => r = Idle
           /\ r.pc = "retained" => r.plan \in Plan
           /\ r.pc = "finding" => r.ids \in Image /\ r.found \in Image
           /\ r.pc \in {"encoded", "opened", "written"} => r.image \in Image
           /\ r.pc = "opened" => r.inode \in Inode
    BY DEF SaverState, Idle

\* The records that the steps of a save leave behind.
LEMMA SaverRecords ==
    /\ Idle \in SaverState
    /\ [pc |-> "saving"] \in SaverState /\ [pc |-> "removing"] \in SaverState
    /\ \A p \in Plan : [pc |-> "retained", plan |-> p] \in SaverState
    /\ \A ids, found \in Image :
           [pc |-> "finding", ids |-> ids, found |-> found] \in SaverState
    /\ \A image \in Image :
           /\ [pc |-> "encoded", image |-> image] \in SaverState
           /\ [pc |-> "written", image |-> image] \in SaverState
           /\ \A i \in Inode :
                  [pc |-> "opened", image |-> image, inode |-> i] \in SaverState
    BY DEF SaverState

\* Evict leaves the newest plans and room for one more.
LEMMA EvictNewest ==
    ASSUME NEW s \in Image, Len(s) <= MaxRetainedPlans
    PROVE  /\ Evict(s) \in Image
           /\ Len(Evict(s)) < MaxRetainedPlans
           /\ EndsWith(s, Evict(s))
    <1> DEFINE n == Len(s)
               k == n - MaxRetainedPlans + 1
    <1>1. n \in Nat /\ MaxRetainedPlans \in Nat \ {0}
        BY StoreAssumption DEF Image
    <1>2. CASE n < MaxRetainedPlans
        BY <1>2, EndsWithSelf DEF Evict, Image
    <1>3. CASE ~(n < MaxRetainedPlans)
        <2>1. n = MaxRetainedPlans /\ k = 1 /\ k \in 0..n
              /\ n - MaxRetainedPlans + 2 = k + 1
            BY <1>1, <1>3
        <2>2. Evict(s) = SubSeq(s, k + 1, Len(s))
            BY <1>3, <2>1 DEF Evict
        <2>3. EndsWith(s, s) /\ s \in Seq(Plan) /\ k \in 0..Len(s)
            BY <2>1, EndsWithSelf DEF Image
        <2> HIDE DEF k
        <2>4. /\ SubSeq(s, k + 1, Len(s)) \in Seq(Plan)
              /\ Len(SubSeq(s, k + 1, Len(s))) = Len(s) - k
              /\ EndsWith(s, SubSeq(s, k + 1, Len(s)))
            BY <2>3, EndsWithDrop
        <2> QED
            BY <1>1, <2>1, <2>2, <2>4 DEF Image
    <1> QED
        BY <1>2, <1>3

\* The order that Retain leaves: within the limit, and with no plan in it that
\* was not there before, but for the one that was accepted.
LEMMA RetainKeeps ==
    ASSUME NEW p \in Plan, order \in Image, Len(order) <= MaxRetainedPlans,
           NEW kept,
           kept = IF p \in Elements(order) THEN order ELSE Append(Evict(order), p)
    PROVE  /\ kept \in Image
           /\ Len(kept) <= MaxRetainedPlans
           /\ Elements(kept) \subseteq Elements(order) \cup {p}
    <1>1. CASE p \in Elements(order)
        BY <1>1
    <1>2. CASE p \notin Elements(order)
        <2> DEFINE e == Evict(order)
        <2>1. e \in Seq(Plan) /\ Len(e) < MaxRetainedPlans /\ EndsWith(order, e)
            BY EvictNewest DEF Image
        <2>2. Listed(e) \subseteq Listed(order)
            BY <2>1, EndsWithListed DEF Image
        <2>3. kept = Append(e, p)
            BY <1>2
        <2> HIDE DEF e
        <2>4. /\ kept \in Seq(Plan) /\ Len(kept) = Len(e) + 1
              /\ \A i \in 1..Len(e) : kept[i] = e[i]
              /\ kept[Len(e) + 1] = p
            <3>1. /\ Append(e, p) \in Seq(Plan) /\ Len(Append(e, p)) = Len(e) + 1
                  /\ \A i \in 1..Len(e) : Append(e, p)[i] = e[i]
                  /\ Append(e, p)[Len(e) + 1] = p
                BY <2>1, AppendProperties
            <3> QED
                BY <2>3, <3>1
        <2>5. Len(e) \in Nat /\ MaxRetainedPlans \in Nat
            BY <2>1, StoreAssumption
        <2>6. ASSUME NEW i \in 1..Len(kept)
              PROVE  kept[i] \in Elements(order) \cup {p}
            <3>1. i \in 1..Len(e) \/ i = Len(e) + 1
                BY <2>4, <2>5
            <3> QED
                BY <2>2, <2>4, <3>1 DEF Listed, Elements
        <2>7. Elements(kept) \subseteq Elements(order) \cup {p}
            BY <2>6 DEF Elements
        <2> QED
            BY <2>1, <2>4, <2>5, <2>7 DEF Image
    <1> QED
        BY <1>1, <1>2

\* The file that Loaded reads is an image.
LEMMA LoadedIsImage ==
    ASSUME TypeOK
    PROVE  Loaded \in Image
    <1>1. <<>> \in Image
        BY DEF Image
    <1>2. destination # NoFile => content[destination] \in Image \cup {Torn}
        BY DEF TypeOK
    <1> QED
        BY <1>1, <1>2 DEF Loaded, Decodes

\* RecoverStore keeps the newest of the loaded plans in the runtime.
LEMMA RecoverNewest ==
    ASSUME NEW s \in Image, NEW from,
           from = IF Len(s) > MaxRetainedPlans THEN Len(s) - MaxRetainedPlans + 1 ELSE 1
    PROVE  /\ SubSeq(s, from, Len(s)) \in Image
           /\ Len(SubSeq(s, from, Len(s))) <= MaxRetainedPlans
           /\ EndsWith(s, SubSeq(s, from, Len(s)))
    <1> DEFINE n == Len(s)
               k == from - 1
    <1>1. n \in Nat /\ MaxRetainedPlans \in Nat \ {0}
        BY StoreAssumption DEF Image
    <1>2. k \in 0..n /\ n - k <= MaxRetainedPlans /\ from = k + 1
        BY <1>1
    <1>3. EndsWith(s, s) /\ s \in Seq(Plan) /\ k \in 0..Len(s)
        BY <1>2, EndsWithSelf DEF Image
    <1> HIDE DEF k
    <1>4. /\ SubSeq(s, k + 1, Len(s)) \in Seq(Plan)
          /\ Len(SubSeq(s, k + 1, Len(s))) = Len(s) - k
          /\ EndsWith(s, SubSeq(s, k + 1, Len(s)))
        BY <1>3, EndsWithDrop
    <1> QED
        BY <1>2, <1>4 DEF Image

\* The parts of the type invariant: the process, its memory and the disk.
LEMMA TypeParts ==
    TypeOK <=> /\ up \in BOOLEAN /\ accepted \in SUBSET Plan /\ synced \in BOOLEAN
               /\ order \in Image /\ retained_ids \in Image
               /\ Len(order) <= MaxRetainedPlans
               /\ mark \in [Elements(order) -> Marks]
               /\ content \in [Inode -> Image \cup {Torn}]
               /\ temporary \in Inode \cup {NoFile}
               /\ destination \in Inode \cup {NoFile}
    BY DEF TypeOK, Marks

\* A step of a thread that leaves memory and disk alone keeps the types when
\* the record it leaves behind is one of a saver.
LEMMA SaverStepType ==
    ASSUME TypeInv, NEW t \in Thread, NEW r \in SaverState, Goto(t, r),
           UNCHANGED <<up, memory, disk, history>>
    PROVE  TypeInv'
    <1>1. saver' \in [Thread -> SaverState]
        BY DEF TypeInv, Goto
    <1> QED
        BY <1>1 DEF TypeInv, TypeOK, memory, disk, history

\* RetainAccepted keeps the types: the order within its limit and a mark for
\* exactly the plans in it.
LEMMA RetainAcceptedType ==
    ASSUME TypeInv, NEW t \in Thread, NEW p \in Plan, RetainAccepted(t, p)
    PROVE  TypeInv'
    <1> DEFINE kept == IF p \in Elements(order) THEN order ELSE Append(Evict(order), p)
               m == AcceptedMark(p)
    <1>1. /\ order' = kept
          /\ mark' = [q \in Elements(kept) |-> IF q = p THEN m ELSE mark[q]]
          /\ saver' = [saver EXCEPT ![t] = [pc |-> "retained", plan |-> p]]
          /\ accepted' = accepted \cup {p} /\ synced' = FALSE
          /\ up' = up /\ retained_ids' = retained_ids
          /\ content' = content /\ temporary' = temporary /\ destination' = destination
        BY DEF RetainAccepted, Retain, Goto, disk
    <1>2. order \in Image /\ Len(order) <= MaxRetainedPlans
          /\ mark \in [Elements(order) -> Marks]
        BY TypeParts DEF TypeInv
    <1>3. m \in Marks
        BY DEF AcceptedMark, Marks
    <1> HIDE DEF kept, m
    <1>4. /\ kept \in Image /\ Len(kept) <= MaxRetainedPlans
          /\ Elements(kept) \subseteq Elements(order) \cup {p}
        BY <1>2, RetainKeeps DEF kept
    <1>5. mark' \in [Elements(kept) -> Marks]
        BY <1>1, <1>2, <1>3, <1>4
    <1>6. saver' \in [Thread -> SaverState]
        BY <1>1, SaverRecords DEF TypeInv
    <1>7. TypeOK'
        BY <1>1, <1>4, <1>5 DEF TypeInv, TypeOK, Marks
    <1> QED
        BY <1>6, <1>7 DEF TypeInv

\* The steps of a save keep the types.
LEMMA SavingType ==
    ASSUME TypeInv, NEW t \in Thread, Saving(t)
    PROVE  TypeInv'
    <1> DEFINE r == saver[t]
    <1>1. r \in SaverState /\ saver \in [Thread -> SaverState]
        BY DEF TypeInv
    <1>2. /\ r.pc = "retained" => r.plan \in Plan
          /\ r.pc = "finding" => r.ids \in Image /\ r.found \in Image
          /\ r.pc \in {"encoded", "opened", "written"} => r.image \in Image
          /\ r.pc = "opened" => r.inode \in Inode
        BY <1>1, SaverFields
    <1>3. CASE RememberId(t)
        <2>1. /\ r.plan \in Plan /\ retained_ids' = Append(retained_ids, r.plan)
              /\ saver' = [saver EXCEPT ![t] = [pc |-> "saving"]]
              /\ UNCHANGED <<up, order, mark, disk, history>>
            BY <1>2, <1>3 DEF RememberId, PushBack, Goto
        <2>2. retained_ids' \in Image
            BY <2>1 DEF TypeInv, TypeOK, Image
        <2>3. saver' \in [Thread -> SaverState]
            BY <1>1, <2>1, SaverRecords
        <2> QED
            BY <2>1, <2>2, <2>3 DEF TypeInv, TypeOK, disk, history
    <1>4. CASE SaveStore(t)
        BY <1>4, SaverRecords, SaverStepType DEF SaveStore
    <1>5. CASE CopyIds(t)
        <2>1. retained_ids \in Image /\ <<>> \in Image
            BY DEF TypeInv, TypeOK, Image
        <2>2. [pc |-> "finding", ids |-> retained_ids, found |-> <<>>] \in SaverState
            BY <2>1, SaverRecords
        <2> QED
            BY <1>5, <2>2, SaverStepType DEF CopyIds
    <1>6. CASE FindPlan(t)
        <2> DEFINE id == Head(r.ids)
                   rest == Tail(r.ids)
                   more == IF id \in Elements(order) THEN Append(r.found, id) ELSE r.found
        <2>1. /\ r.ids # <<>> /\ r.ids \in Image /\ r.found \in Image
              /\ Goto(t, [pc |-> "finding", ids |-> rest, found |-> more])
              /\ UNCHANGED <<up, memory, disk, history>>
            BY <1>2, <1>6 DEF FindPlan
        <2>2. id \in Plan /\ rest \in Image
            BY <2>1 DEF Image
        <2>3. more \in Image
            BY <2>1, <2>2 DEF Image
        <2> HIDE DEF rest, more, id, r
        <2>4. [pc |-> "finding", ids |-> rest, found |-> more] \in SaverState
            BY <2>2, <2>3, SaverRecords
        <2> QED
            BY <2>1, <2>4, SaverStepType
    <1>7. CASE Encode(t)
        <2> DEFINE next == IF Len(r.found) > MaxPersistedPlans THEN Idle
                           ELSE [pc |-> "encoded", image |-> r.found]
        <2>1. r.found \in Image /\ Goto(t, next) /\ UNCHANGED <<up, memory, disk, history>>
            BY <1>2, <1>7 DEF Encode
        <2>2. next \in SaverState
            BY <2>1, SaverRecords
        <2> HIDE DEF next
        <2> QED
            BY <2>1, <2>2, SaverStepType
    <1>8. CASE Open(t)
        <2> DEFINE inode == IF temporary = NoFile THEN Fresh ELSE temporary
        <2>1. /\ r.image \in Image
              /\ temporary = NoFile => Unused # {}
              /\ temporary' = inode
              /\ content' = [content EXCEPT ![inode] = Torn]
              /\ saver' = [saver EXCEPT ![t] =
                              [pc |-> "opened", image |-> r.image, inode |-> inode]]
              /\ UNCHANGED <<up, memory, destination, history>>
            BY <1>2, <1>8 DEF Open, Truncate, Goto
        <2>2. inode \in Inode
            <3>1. temporary \in Inode \cup {NoFile}
                BY DEF TypeInv, TypeOK
            <3>2. CASE temporary = NoFile
                BY <2>1, <3>2 DEF Fresh, Unused
            <3> QED
                BY <3>1, <3>2
        <2> HIDE DEF inode
        <2>3. saver' \in [Thread -> SaverState]
            BY <1>1, <2>1, <2>2, SaverRecords
        <2>4. content' \in [Inode -> Image \cup {Torn}]
            BY <2>1, <2>2 DEF TypeInv, TypeOK
        <2> QED
            BY <2>1, <2>2, <2>3, <2>4 DEF TypeInv, TypeOK, memory, history
    <1>9. CASE Write(t)
        <2> DEFINE i == r.inode
        <2>1. /\ r.image \in Image /\ i \in Inode
              /\ content' = [content EXCEPT ![i] = Overwrite(content[i], r.image)]
              /\ saver' = [saver EXCEPT ![t] = [pc |-> "written", image |-> r.image]]
              /\ UNCHANGED <<up, memory, temporary, destination, history>>
            BY <1>2, <1>9 DEF Write, Goto
        <2>2. Overwrite(content[i], r.image) \in Image \cup {Torn}
            BY <2>1 DEF Overwrite
        <2>3. content' \in [Inode -> Image \cup {Torn}]
            BY <2>1, <2>2 DEF TypeInv, TypeOK
        <2>4. saver' \in [Thread -> SaverState]
            BY <1>1, <2>1, SaverRecords
        <2> QED
            BY <2>1, <2>3, <2>4 DEF TypeInv, TypeOK, memory, history
    <1>10. CASE SaveFails(t)
        <2>1. /\ content' = content \/ content' = [content EXCEPT ![r.inode] = Torn]
              /\ saver' = [saver EXCEPT ![t] = Idle]
              /\ UNCHANGED <<up, memory, temporary, destination, history>>
            BY <1>10 DEF SaveFails, Goto
        <2>2. content' \in [Inode -> Image \cup {Torn}]
            BY <2>1 DEF TypeInv, TypeOK
        <2>3. saver' \in [Thread -> SaverState]
            BY <1>1, <2>1, SaverRecords
        <2> QED
            BY <2>1, <2>2, <2>3 DEF TypeInv, TypeOK, memory, history
    <1>11. CASE Rename(t)
        <2>1. /\ destination' = temporary /\ temporary' = NoFile /\ synced' = TRUE
              /\ saver' = [saver EXCEPT ![t] = Idle]
              /\ UNCHANGED <<up, memory, content, accepted>>
            BY <1>11 DEF Rename, Goto
        <2>2. saver' \in [Thread -> SaverState]
            BY <1>1, <2>1, SaverRecords
        <2> QED
            BY <2>1, <2>2 DEF TypeInv, TypeOK, memory
    <1>12. CASE RenameFails(t)
        BY <1>12, SaverRecords, SaverStepType DEF RenameFails
    <1>13. CASE RemoveTemporary(t)
        <2>1. /\ temporary' = NoFile
              /\ saver' = [saver EXCEPT ![t] = Idle]
              /\ UNCHANGED <<up, memory, content, destination, history>>
            BY <1>13 DEF RemoveTemporary, Goto
        <2>2. saver' \in [Thread -> SaverState]
            BY <1>1, <2>1, SaverRecords
        <2> QED
            BY <2>1, <2>2 DEF TypeInv, TypeOK, memory, history
    <1> QED
        BY <1>3, <1>4, <1>5, <1>6, <1>7, <1>8, <1>9, <1>10, <1>11, <1>12, <1>13
        DEF Saving

\* Every step keeps the types.
LEMMA NextType ==
    ASSUME TypeInv, [Next]_vars
    PROVE  TypeInv'
    <1>1. CASE \E t \in Thread, p \in Plan : RetainAccepted(t, p)
        BY <1>1, RetainAcceptedType
    <1>2. CASE \E t \in Thread : Saving(t)
        BY <1>2, SavingType
    <1>3. CASE AdvanceEpoch
        <2>1. mark' = [p \in Elements(order) |-> "REVALIDATION_REQUIRED"]
              /\ UNCHANGED <<up, order, retained_ids, saver, disk, history>>
            BY <1>3 DEF AdvanceEpoch
        <2> QED
            BY <2>1 DEF TypeInv, TypeOK, disk, history
    <1>4. CASE Crash
        <2>1. /\ up' = FALSE /\ order' = <<>> /\ mark' = <<>> /\ retained_ids' = <<>>
              /\ saver' = [t \in Thread |-> Idle] /\ accepted' = {}
              /\ UNCHANGED <<disk, synced>>
            BY <1>4 DEF Crash
        <2>2. <<>> \in Image /\ Len(<<>>) = 0 /\ Elements(<<>>) = {} /\ 0 <= MaxRetainedPlans
            BY StoreAssumption DEF Image, Elements
        <2>3. mark' \in [Elements(order') -> Marks]
            BY <2>1, <2>2
        <2>4. saver' \in [Thread -> SaverState]
            BY <2>1, SaverRecords
        <2> QED
            BY <2>1, <2>2, <2>3, <2>4 DEF TypeInv, TypeOK, disk, Marks
    <1>5. CASE RecoverStore
        <2> DEFINE from == IF Len(Loaded) > MaxRetainedPlans
                           THEN Len(Loaded) - MaxRetainedPlans + 1 ELSE 1
                   kept == SubSeq(Loaded, from, Len(Loaded))
        <2>1. /\ up' = TRUE /\ order' = kept
              /\ mark' = [p \in Elements(kept) |-> "REVALIDATION_REQUIRED"]
              /\ retained_ids' = Loaded /\ synced' = TRUE
              /\ UNCHANGED <<saver, disk, accepted>>
            BY <1>5 DEF RecoverStore, RecoveredMark
        <2>2. Loaded \in Image
            BY LoadedIsImage DEF TypeInv
        <2>3. kept \in Image /\ Len(kept) <= MaxRetainedPlans
            BY <2>2, RecoverNewest
        <2> HIDE DEF kept
        <2>4. mark' \in [Elements(kept) -> Marks]
            BY <2>1 DEF Marks
        <2> QED
            BY <2>1, <2>2, <2>3, <2>4 DEF TypeInv, TypeOK, disk, Marks
    <1>6. CASE UNCHANGED vars
        BY <1>6 DEF vars, memory, disk, history, TypeInv, TypeOK
    <1> QED
        BY <1>1, <1>2, <1>3, <1>4, <1>5, <1>6 DEF Next

\* The initial state has the types.
LEMMA InitType ==
    ASSUME Init
    PROVE  TypeInv
    <1>1. <<>> \in Image /\ Len(<<>>) = 0 /\ Elements(<<>>) = {} /\ 0 <= MaxRetainedPlans
        BY StoreAssumption DEF Image, Elements
    <1>2. mark \in [Elements(order) -> Marks]
        BY <1>1 DEF Init
    <1>3. saver \in [Thread -> SaverState]
        BY SaverRecords DEF Init
    <1> QED
        BY <1>1, <1>2, <1>3 DEF Init, TypeInv, TypeOK, Marks

\* The planning history keeps its types for any number of saving threads: the
\* runtime never holds more than max_retained_plans, and has a currentness
\* mark for exactly the plans in its eviction order.
THEOREM TypeCorrect == Spec => []TypeOK
    <1>1. Init => TypeInv
        BY InitType
    <1>2. TypeInv /\ [Next]_vars => TypeInv'
        BY NextType
    <1>3. TypeInv => TypeOK
        BY DEF TypeInv
    <1> QED
        BY <1>1, <1>2, <1>3, PTL DEF Spec

----------------------------------------------------------------------------
(* Conservative recovery.                                                  *)

\* No step of a save touches the runtime's plans or the process.
LEMMA SavingKeeps ==
    ASSUME NEW t \in Thread, Saving(t)
    PROVE  UNCHANGED <<up, order, mark, accepted>>
    BY DEF Saving, RememberId, SaveStore, CopyIds, FindPlan, Encode, Open, Truncate,
           Write, SaveFails, Rename, RenameFails, RemoveTemporary,
           memory, disk, history

\* A recovered plan stays untrusted until it is accepted again.
LEMMA NextConservative ==
    ASSUME TypeInv, RecoveryIsConservative, [Next]_vars
    PROVE  RecoveryIsConservative'
    <1>1. CASE \E t \in Thread, p \in Plan : RetainAccepted(t, p)
        <2>1. PICK t \in Thread, p \in Plan : RetainAccepted(t, p)
            BY <1>1
        <2> DEFINE kept == IF p \in Elements(order) THEN order ELSE Append(Evict(order), p)
        <2>2. /\ order' = kept
              /\ mark' = [q \in Elements(kept) |-> IF q = p THEN AcceptedMark(p) ELSE mark[q]]
              /\ accepted' = accepted \cup {p}
            BY <2>1 DEF RetainAccepted, Retain
        <2>3. Elements(kept) \subseteq Elements(order) \cup {p}
            BY RetainKeeps DEF TypeInv, TypeOK
        <2> HIDE DEF kept
        <2> QED
            BY <2>2, <2>3 DEF RecoveryIsConservative
    <1>2. CASE \E t \in Thread : Saving(t)
        BY <1>2, SavingKeeps DEF RecoveryIsConservative
    <1>3. CASE AdvanceEpoch
        <2>1. order' = order /\ mark' = [p \in Elements(order) |-> "REVALIDATION_REQUIRED"]
            BY <1>3 DEF AdvanceEpoch
        <2> QED
            BY <2>1 DEF RecoveryIsConservative
    <1>4. CASE Crash
        <2>1. order' = <<>> /\ Elements(<<>>) = {}
            BY <1>4 DEF Crash, Elements
        <2> QED
            BY <2>1 DEF RecoveryIsConservative
    <1>5. CASE RecoverStore
        <2>1. mark' = [p \in Elements(order') |-> "REVALIDATION_REQUIRED"]
            BY <1>5 DEF RecoverStore, RecoveredMark
        <2> QED
            BY <2>1 DEF RecoveryIsConservative
    <1>6. CASE UNCHANGED vars
        BY <1>6 DEF vars, memory, history, RecoveryIsConservative
    <1> QED
        BY <1>1, <1>2, <1>3, <1>4, <1>5, <1>6 DEF Next

\* Whatever the interleaving of saves, crashes, restarts and epoch advances,
\* a plan is CURRENT in the runtime only if this process accepted it: nothing
\* that RecoverStore reads from the disk resumes as current.
THEOREM RecoveryNeverResumes == Spec => []RecoveryIsConservative
    <1>1. Init => TypeInv /\ RecoveryIsConservative
        <2>1. Elements(<<>>) = {}
            BY DEF Elements
        <2> QED
            BY <2>1, InitType DEF Init, RecoveryIsConservative
    <1>2. TypeInv /\ RecoveryIsConservative /\ [Next]_vars
          => TypeInv' /\ RecoveryIsConservative'
        BY NextType, NextConservative
    <1> QED
        BY <1>1, <1>2, PTL DEF Spec

----------------------------------------------------------------------------
(* The file, when saves do not overlap.                                    *)

\* The installed file is whole and no save has it open: the temporary path
\* names another file, which is torn from the moment a save opened it until
\* the whole image is in it.
FileInv ==
    /\ destination # NoFile => destination # temporary /\ content[destination] # Torn
    /\ \A t \in Thread : saver[t].pc = "opened" =>
           saver[t].inode = temporary /\ content[temporary] = Torn
    /\ \A t \in Thread : saver[t].pc = "written" =>
           temporary # NoFile /\ content[temporary] = saver[t].image

\* A step of the only saver that leaves the files alone, and does not reach
\* the program points at which the temporary file matters.
LEMMA SaverStepFile ==
    ASSUME FileInv, NEW t, Thread = {t}, NEW r, saver \in [Thread -> SaverState],
           saver' = [saver EXCEPT ![t] = r], r.pc \notin {"opened", "written"},
           UNCHANGED disk
    PROVE  FileInv'
    BY DEF FileInv, disk

\* The steps of a save that is alone keep the files apart.
LEMMA SavingFile ==
    ASSUME TypeInv, FileInv, NEW t, Thread = {t}, Saving(t)
    PROVE  FileInv'
    <1> DEFINE r == saver[t]
    <1>1. r \in SaverState /\ saver \in [Thread -> SaverState] /\ t \in Thread
        BY DEF TypeInv
    <1>2. /\ r.pc \in {"encoded", "opened", "written"} => r.image \in Image
          /\ r.pc = "opened" => r.inode \in Inode
        BY <1>1, SaverFields
    <1>3. /\ content \in [Inode -> Image \cup {Torn}]
          /\ temporary \in Inode \cup {NoFile} /\ destination \in Inode \cup {NoFile}
          /\ NoFile \notin Inode
        BY StoreAssumption DEF TypeInv, TypeOK
    <1>4. CASE RememberId(t)
        BY <1>1, <1>4, SaverStepFile DEF RememberId, Goto
    <1>5. CASE SaveStore(t)
        BY <1>1, <1>5, SaverStepFile DEF SaveStore, Goto
    <1>6. CASE CopyIds(t)
        BY <1>1, <1>6, SaverStepFile DEF CopyIds, Goto
    <1>7. CASE FindPlan(t)
        BY <1>1, <1>7, SaverStepFile DEF FindPlan, Goto
    <1>8. CASE Encode(t)
        <2> DEFINE next == IF Len(r.found) > MaxPersistedPlans THEN Idle
                           ELSE [pc |-> "encoded", image |-> r.found]
        <2>1. saver' = [saver EXCEPT ![t] = next] /\ UNCHANGED disk
            BY <1>8 DEF Encode, Goto
        <2>2. next.pc \notin {"opened", "written"}
            BY DEF Idle
        <2> HIDE DEF next
        <2> QED
            BY <1>1, <2>1, <2>2, SaverStepFile
    <1>9. CASE Open(t)
        <2> DEFINE inode == IF temporary = NoFile THEN Fresh ELSE temporary
        <2>1. /\ temporary = NoFile => Unused # {}
              /\ temporary' = inode /\ destination' = destination
              /\ content' = [content EXCEPT ![inode] = Torn]
              /\ saver' = [saver EXCEPT ![t] =
                              [pc |-> "opened", image |-> r.image, inode |-> inode]]
            BY <1>9 DEF Open, Truncate, Goto
        <2>2. inode \in Inode /\ inode # destination
            <3>1. CASE temporary = NoFile
                <4>1. Fresh \in Unused
                    BY <2>1, <3>1 DEF Fresh, Unused
                <4> QED
                    BY <3>1, <4>1 DEF Unused
            <3>2. CASE temporary # NoFile
                BY <1>3, <3>2 DEF FileInv
            <3> QED
                BY <3>1, <3>2
        <2> HIDE DEF inode
        <2>3. content'[inode] = Torn /\ \A i \in Inode \ {inode} : content'[i] = content[i]
            BY <1>3, <2>1, <2>2
        <2>4. saver'[t] = [pc |-> "opened", image |-> r.image, inode |-> inode]
            BY <1>1, <2>1
        <2> QED
            BY <1>3, <2>1, <2>2, <2>3, <2>4 DEF FileInv
    <1>10. CASE Write(t)
        <2> DEFINE i == r.inode
        <2>1. /\ r.pc = "opened" /\ r.image \in Image /\ i \in Inode
              /\ content' = [content EXCEPT ![i] = Overwrite(content[i], r.image)]
              /\ saver' = [saver EXCEPT ![t] = [pc |-> "written", image |-> r.image]]
              /\ temporary' = temporary /\ destination' = destination
            BY <1>2, <1>10 DEF Write, Goto
        <2>2. i = temporary /\ content[i] = Torn /\ i # destination
            BY <1>1, <1>3, <2>1 DEF FileInv
        <2>3. content'[i] = r.image /\ \A j \in Inode \ {i} : content'[j] = content[j]
            BY <1>3, <2>1, <2>2 DEF Overwrite
        <2>4. saver'[t] = [pc |-> "written", image |-> r.image]
            BY <1>1, <2>1
        <2> HIDE DEF i
        <2> QED
            BY <1>3, <2>1, <2>2, <2>3, <2>4 DEF FileInv
    <1>11. CASE SaveFails(t)
        <2>1. /\ \/ content' = content
                 \/ r.pc = "opened" /\ content' = [content EXCEPT ![r.inode] = Torn]
              /\ saver' = [saver EXCEPT ![t] = Idle]
              /\ temporary' = temporary /\ destination' = destination
            BY <1>11 DEF SaveFails, Goto
        <2>2. saver'[t] = Idle /\ Idle.pc = "idle"
            BY <1>1, <2>1 DEF Idle
        <2>3. destination # NoFile => content'[destination] = content[destination]
            BY <1>1, <1>2, <1>3, <2>1 DEF FileInv
        <2> QED
            BY <2>1, <2>2, <2>3 DEF FileInv
    <1>12. CASE Rename(t)
        <2>1. /\ r.pc = "written" /\ temporary # NoFile
              /\ destination' = temporary /\ temporary' = NoFile /\ content' = content
              /\ saver' = [saver EXCEPT ![t] = Idle]
            BY <1>12 DEF Rename, Goto
        <2>2. saver'[t] = Idle /\ Idle.pc = "idle"
            BY <1>1, <2>1 DEF Idle
        <2>3. content[temporary] = r.image /\ r.image \in Image /\ Torn \notin Image
            BY <1>1, <1>2, <2>1, StoreAssumption DEF FileInv, Image
        <2> QED
            BY <1>3, <2>1, <2>2, <2>3 DEF FileInv
    <1>13. CASE RenameFails(t)
        BY <1>1, <1>13, SaverStepFile DEF RenameFails, Goto
    <1>14. CASE RemoveTemporary(t)
        <2>1. /\ temporary' = NoFile /\ destination' = destination /\ content' = content
              /\ saver' = [saver EXCEPT ![t] = Idle]
            BY <1>14 DEF RemoveTemporary, Goto
        <2>2. saver'[t] = Idle /\ Idle.pc = "idle"
            BY <1>1, <2>1 DEF Idle
        <2> QED
            BY <2>1, <2>2 DEF FileInv
    <1> QED
        BY <1>4, <1>5, <1>6, <1>7, <1>8, <1>9, <1>10, <1>11, <1>12, <1>13, <1>14
        DEF Saving

\* Every step keeps the files apart when saves do not overlap.
LEMMA NextFile ==
    ASSUME OneSaver, TypeInv, FileInv, [Next]_vars
    PROVE  FileInv'
    <1>1. PICK s : Thread = {s}
        BY DEF OneSaver
    <1>2. CASE \E t \in Thread, p \in Plan : RetainAccepted(t, p)
        <2>1. PICK p \in Plan : RetainAccepted(s, p)
            BY <1>1, <1>2
        <2>2. saver' = [saver EXCEPT ![s] = [pc |-> "retained", plan |-> p]]
              /\ UNCHANGED disk
            BY <2>1 DEF RetainAccepted, Goto
        <2> QED
            BY <1>1, <2>2, SaverStepFile DEF TypeInv
    <1>3. CASE \E t \in Thread : Saving(t)
        BY <1>1, <1>3, SavingFile
    <1>4. CASE Crash
        <2>1. saver' = [t \in Thread |-> Idle] /\ Idle.pc = "idle" /\ UNCHANGED disk
            BY <1>4 DEF Crash, Idle
        <2> QED
            BY <2>1 DEF FileInv, disk
    <1>5. CASE AdvanceEpoch \/ RecoverStore \/ UNCHANGED vars
        <2>1. UNCHANGED <<saver, disk>>
            BY <1>5 DEF AdvanceEpoch, RecoverStore, vars
        <2> QED
            BY <2>1 DEF FileInv, disk
    <1> QED
        BY <1>2, <1>3, <1>4, <1>5 DEF Next

\* Initially there is no file and no save.
LEMMA InitFile ==
    ASSUME Init
    PROVE  FileInv
    BY DEF Init, FileInv, Idle

\* The image that a save in the state r was asked to write, if any.
Asked(r) == IF r.pc \in {"encoded", "opened", "written"} THEN {r.image} ELSE {}

\* With one saver it is all that is requested, before and after a step.
LEMMA OneRequested ==
    ASSUME NEW t, Thread = {t}
    PROVE  Requested = Asked(saver[t]) /\ Requested' = Asked(saver'[t])
    BY DEF Requested, Asked

\* A save that is alone changes the installed file only by renaming over it.
LEMMA InstalledKept ==
    ASSUME TypeInv, FileInv, NEW t, Thread = {t}, Saving(t), ~Rename(t)
    PROVE  /\ destination' = destination
           /\ destination # NoFile => content'[destination] = content[destination]
    <1> DEFINE r == saver[t]
    <1>1. /\ content \in [Inode -> Image \cup {Torn}]
          /\ destination \in Inode \cup {NoFile} /\ t \in Thread
        BY DEF TypeInv, TypeOK
    <1>2. CASE Open(t)
        <2> DEFINE inode == IF temporary = NoFile THEN Fresh ELSE temporary
        <2>1. /\ temporary = NoFile => Unused # {}
              /\ destination' = destination
              /\ content' = [content EXCEPT ![inode] = Torn]
            BY <1>2 DEF Open, Truncate
        <2>2. destination # NoFile => inode # destination
            <3>1. CASE temporary = NoFile
                <4>1. Fresh \in Unused
                    BY <2>1, <3>1 DEF Fresh, Unused
                <4> QED
                    BY <3>1, <4>1 DEF Unused
            <3>2. CASE temporary # NoFile
                BY <3>2 DEF FileInv
            <3> QED
                BY <3>1, <3>2
        <2> HIDE DEF inode
        <2> QED
            BY <1>1, <2>1, <2>2
    <1>3. CASE Write(t)
        <2>1. /\ r.pc = "opened" /\ destination' = destination
              /\ content' = [content EXCEPT ![r.inode] = Overwrite(content[r.inode], r.image)]
            BY <1>3 DEF Write
        <2>2. destination # NoFile => r.inode # destination
            BY <1>1, <2>1 DEF FileInv
        <2> QED
            BY <1>1, <2>1, <2>2
    <1>4. CASE SaveFails(t)
        <2>1. /\ \/ content' = content
                 \/ r.pc = "opened" /\ content' = [content EXCEPT ![r.inode] = Torn]
              /\ destination' = destination
            BY <1>4 DEF SaveFails
        <2> QED
            BY <1>1, <2>1 DEF FileInv
    <1>5. CASE \/ RememberId(t) \/ SaveStore(t) \/ CopyIds(t) \/ FindPlan(t) \/ Encode(t)
               \/ RenameFails(t) \/ RemoveTemporary(t)
        BY <1>5 DEF RememberId, SaveStore, CopyIds, FindPlan, Encode, RenameFails,
                    RemoveTemporary, disk
    <1> QED
        BY <1>2, <1>3, <1>4, <1>5 DEF Saving

\* A step that leaves the installed file alone leaves what it holds alone.
LEMMA DurableKept ==
    ASSUME destination' = destination,
           destination # NoFile => content'[destination] = content[destination]
    PROVE  Durable' = Durable
    BY DEF Durable

\* Each step of a save that is alone is a step of AtomicStore, or none.
LEMMA SavingImplements ==
    ASSUME TypeInv, FileInv, NEW t, Thread = {t}, Saving(t)
    PROVE  Promise!Next \/ UNCHANGED <<Durable, Requested>>
    <1> DEFINE r == saver[t]
               s == saver'[t]
    <1>1. r \in SaverState /\ saver \in [Thread -> SaverState] /\ t \in Thread
        BY DEF TypeInv
    <1>2. Requested = Asked(r) /\ Requested' = Asked(s)
        BY OneRequested
    <1>3. ASSUME ~Rename(t)
          PROVE  Durable' = Durable
        BY <1>3, InstalledKept, DurableKept
    <1>4. ASSUME NEW new, saver' = [saver EXCEPT ![t] = new]
          PROVE  s = new
        BY <1>1, <1>4
    <1>5. CASE Encode(t)
        <2>1. /\ r.pc = "finding" /\ r.found \in Image
              /\ s = IF Len(r.found) > MaxPersistedPlans THEN Idle
                     ELSE [pc |-> "encoded", image |-> r.found]
            BY <1>1, <1>4, <1>5, SaverFields DEF Encode, Goto
        <2>2. Durable' = Durable
            BY <1>3, <2>1 DEF Rename
        <2>3. CASE Len(r.found) > MaxPersistedPlans
            BY <1>2, <2>1, <2>2, <2>3 DEF Asked, Idle
        <2>4. CASE ~(Len(r.found) > MaxPersistedPlans)
            <3>1. Requested = {} /\ Requested' = {r.found}
                BY <1>2, <2>1, <2>4 DEF Asked
            <3>2. Promise!Request
                BY <2>1, <2>2, <3>1 DEF Promise!Request, Image
            <3> QED
                BY <3>2 DEF Promise!Next
        <2> QED
            BY <2>3, <2>4
    <1>6. CASE Rename(t)
        <2>1. /\ r.pc = "written" /\ temporary # NoFile
              /\ destination' = temporary /\ content' = content /\ s = Idle
            BY <1>4, <1>6 DEF Rename, Goto
        <2>2. content[temporary] = r.image
            BY <1>1, <2>1 DEF FileInv
        <2>3. Durable' = r.image
            BY <2>1, <2>2 DEF Durable
        <2>4. Requested = {r.image} /\ Requested' = {}
            BY <1>2, <2>1 DEF Asked, Idle
        <2>5. Promise!Replace
            BY <2>3, <2>4 DEF Promise!Replace
        <2> QED
            BY <2>5 DEF Promise!Next
    <1>7. CASE SaveFails(t) \/ RenameFails(t)
        <2>1. s.pc \in {"idle", "removing"}
            BY <1>4, <1>7 DEF SaveFails, RenameFails, Goto, Idle
        <2>2. Durable' = Durable \/ Rename(t)
            BY <1>3
        <2>3. Requested' = {}
            BY <1>2, <2>1 DEF Asked
        <2> QED
            BY <1>6, <2>2, <2>3 DEF Promise!Next, Promise!Abandon
    <1>8. CASE Open(t) \/ Write(t)
        <2>1. /\ r.pc \in {"encoded", "opened"} /\ s.pc \in {"opened", "written"}
              /\ s.image = r.image
            BY <1>4, <1>8 DEF Open, Truncate, Write, Goto
        <2>2. Durable' = Durable
            BY <1>3, <2>1 DEF Rename
        <2> QED
            BY <1>2, <2>1, <2>2 DEF Asked
    <1>9. CASE \/ RememberId(t) \/ SaveStore(t) \/ CopyIds(t) \/ FindPlan(t)
               \/ RemoveTemporary(t)
        <2>1. /\ r.pc \in {"idle", "retained", "saving", "finding", "removing"}
              /\ s.pc \in {"idle", "saving", "finding"}
            <3>1. CASE RememberId(t)
                BY <1>4, <3>1 DEF RememberId, Goto
            <3>2. CASE SaveStore(t)
                BY <1>4, <3>2 DEF SaveStore, Goto, Idle
            <3>3. CASE CopyIds(t)
                BY <1>4, <3>3 DEF CopyIds, Goto
            <3>4. CASE FindPlan(t)
                BY <1>4, <3>4 DEF FindPlan, Goto
            <3>5. CASE RemoveTemporary(t)
                BY <1>4, <3>5 DEF RemoveTemporary, Goto, Idle
            <3> QED
                BY <1>9, <3>1, <3>2, <3>3, <3>4, <3>5
        <2>2. Durable' = Durable
            BY <1>3, <2>1 DEF Rename
        <2> QED
            BY <1>2, <2>1, <2>2 DEF Asked
    <1> QED
        BY <1>5, <1>6, <1>7, <1>8, <1>9 DEF Saving

\* Each step of the program is a step of AtomicStore, or none.
LEMMA NextImplements ==
    ASSUME OneSaver, TypeInv, FileInv, [Next]_vars
    PROVE  [Promise!Next]_<<Durable, Requested>>
    <1>1. PICK s : Thread = {s}
        BY DEF OneSaver
    <1>2. Requested = Asked(saver[s]) /\ Requested' = Asked(saver'[s])
        BY <1>1, OneRequested
    <1>3. CASE \E t \in Thread, p \in Plan : RetainAccepted(t, p)
        <2>1. PICK p \in Plan : RetainAccepted(s, p)
            BY <1>1, <1>3
        <2>2. /\ saver[s] = Idle
              /\ saver' = [saver EXCEPT ![s] = [pc |-> "retained", plan |-> p]]
              /\ destination' = destination /\ content' = content
            BY <2>1 DEF RetainAccepted, Goto, disk
        <2>3. saver'[s] = [pc |-> "retained", plan |-> p]
            BY <1>1, <2>2 DEF TypeInv
        <2> QED
            BY <1>2, <2>2, <2>3, DurableKept DEF Asked, Idle
    <1>4. CASE \E t \in Thread : Saving(t)
        BY <1>1, <1>4, SavingImplements
    <1>5. CASE Crash
        <2>1. saver'[s] = Idle /\ destination' = destination /\ content' = content
            BY <1>1, <1>5 DEF Crash, disk
        <2>2. Requested' = {} /\ Durable' = Durable
            BY <1>2, <2>1, DurableKept DEF Asked, Idle
        <2> QED
            BY <2>2 DEF Promise!Next, Promise!Abandon
    <1>6. CASE AdvanceEpoch \/ RecoverStore \/ UNCHANGED vars
        <2>1. saver' = saver /\ destination' = destination /\ content' = content
            BY <1>6 DEF AdvanceEpoch, RecoverStore, vars, disk
        <2> QED
            BY <1>2, <2>1, DurableKept
    <1> QED
        BY <1>3, <1>4, <1>5, <1>6 DEF Next

\* SavePlanStore is an atomic replacement when saves do not overlap: whatever
\* step fails and wherever the process crashes, the store path names nothing
\* or a file that holds, whole, an image a save was asked to write.
THEOREM SavesAreAtomic ==
    ASSUME OneSaver
    PROVE  Spec => AtomicReplacement
    <1>1. Init => TypeInv /\ FileInv
        BY InitType, InitFile
    <1>2. TypeInv /\ FileInv /\ [Next]_vars => TypeInv' /\ FileInv'
        BY NextType, NextFile
    <1>3. Init => Promise!Init
        BY DEF Init, Promise!Init, Durable, Requested, Idle
    <1>4. TypeInv /\ FileInv /\ [Next]_vars => [Promise!Next]_<<Durable, Requested>>
        BY NextImplements
    <1> QED
        BY <1>1, <1>2, <1>3, <1>4, PTL DEF Spec, AtomicReplacement, Promise!Spec

\* The same without the abstract store: when saves do not overlap nobody ever
\* reads a torn file at the store path.  MCStoreConcurrent shows that the
\* hypothesis is needed.
THEOREM DestinationIsComplete ==
    ASSUME OneSaver
    PROVE  Spec => []DestinationComplete
    <1>1. Init => TypeInv /\ FileInv
        BY InitType, InitFile
    <1>2. TypeInv /\ FileInv /\ [Next]_vars => TypeInv' /\ FileInv'
        BY NextType, NextFile
    <1>3. FileInv => DestinationComplete
        BY StoreAssumption DEF FileInv, DestinationComplete, Durable
    <1> QED
        BY <1>1, <1>2, <1>3, PTL DEF Spec

----------------------------------------------------------------------------
(* The contents of the file, when also no listed plan is accepted again.   *)

\* retained_ids, with the identity that the runtime already holds and the
\* saver is about to append.
Remembered(r) == IF r.pc = "retained" THEN Append(retained_ids, r.plan) ELSE retained_ids

\* The runtime holds the newest of the remembered plans, in their order, and
\* no plan is remembered twice.
ListInv ==
    /\ ~up => order = <<>> /\ retained_ids = <<>> /\ \A t \in Thread : saver[t] = Idle
    /\ \A t \in Thread :
           ListsOnce(Remembered(saver[t])) /\ EndsWith(Remembered(saver[t]), order)

\* While ids is still to be searched, found is the part of o that is not in it.
Collected(o, ids, found) ==
    /\ Len(found) = IF Len(ids) < Len(o) THEN Len(o) - Len(ids) ELSE 0
    /\ \A i \in 1..Len(found) : found[i] = o[i]

\* What a save has collected is what the runtime still holds.
ImageInv ==
    \A t \in Thread :
        /\ saver[t].pc = "finding" =>
               /\ EndsWith(retained_ids, saver[t].ids)
               /\ Collected(order, saver[t].ids, saver[t].found)
        /\ saver[t].pc \in {"encoded", "opened", "written"} =>
               saver[t].image = order /\ Len(order) <= MaxPersistedPlans

\* The installed file is one the next start accepts and keeps whole.
InstalledInv ==
    destination # NoFile =>
        /\ content[destination] \in Image
        /\ ListsOnce(content[destination])
        /\ Len(content[destination]) <= MaxPersistedPlans
        /\ Len(content[destination]) <= MaxRetainedPlans

HistoryInv == ListInv /\ ImageInv /\ InstalledInv /\ StoreMatchesRuntime

\* One step of the search: whether the next identity is still in the runtime
\* decides, and either way found stays the part of the order already passed.
LEMMA CollectNext ==
    ASSUME NEW a \in Image, NEW o \in Image, NEW ids \in Image, NEW found \in Image,
           ListsOnce(a), EndsWith(a, o), EndsWith(a, ids), ids # <<>>,
           Collected(o, ids, found)
    PROVE  /\ EndsWith(a, Tail(ids))
           /\ Head(ids) \in Elements(o) => Collected(o, Tail(ids), Append(found, Head(ids)))
           /\ Head(ids) \notin Elements(o) => Collected(o, Tail(ids), found)
    <1> DEFINE l == Len(a)
               m == Len(o)
               c == Len(ids)
               id == Head(ids)
               f == Len(found)
    <1>1. /\ Tail(ids) \in Seq(Plan) /\ Len(Tail(ids)) = c - 1
          /\ EndsWith(a, Tail(ids))
          /\ c \in 1..l /\ id = a[l - c + 1]
        BY EndsWithTail DEF Image
    <1>2. /\ l \in Nat /\ m \in Nat /\ c \in Nat /\ f \in Nat /\ m <= l
          /\ \A i \in 1..m : o[i] = a[l - m + i]
          /\ \A i, j \in 1..l : a[i] = a[j] => i = j
          /\ f = IF c < m THEN m - c ELSE 0
          /\ \A i \in 1..f : found[i] = o[i]
        BY DEF EndsWith, ListsOnce, Collected, Image
    <1>3. id \in Plan
        BY HeadTailProperties DEF Image
    <1>4. Elements(o) = {o[i] : i \in 1..m}
        BY DEF Elements
    <1> DEFINE more == Append(found, id)
    <1>5. /\ Len(more) = f + 1 /\ \A i \in 1..f : more[i] = found[i]
          /\ more[f + 1] = id
        BY <1>3, AppendProperties DEF Image
    <1> HIDE DEF l, m, c, id, f, more
    <1>6. CASE c <= m
        <2>1. /\ m - c + 1 \in 1..m /\ l - m + (m - c + 1) = l - c + 1 /\ f = m - c
              /\ c - 1 < m /\ m - (c - 1) = f + 1 /\ f + 1 = m - c + 1
            BY <1>1, <1>2, <1>6
        <2>2. o[f + 1] = id /\ f + 1 \in 1..m
            BY <1>1, <1>2, <2>1
        <2>3. id \in Elements(o)
            BY <1>4, <2>2
        <2>4. ASSUME NEW i \in 1..(f + 1)
              PROVE  more[i] = o[i]
            <3>1. i \in 1..f \/ i = f + 1
                BY <1>2
            <3> QED
                BY <1>2, <1>5, <2>2, <3>1
        <2>5. Collected(o, Tail(ids), more)
            BY <1>1, <1>5, <2>1, <2>4 DEF Collected, m
        <2> QED
            BY <1>1, <2>3, <2>5 DEF more, id
    <1>7. CASE ~(c <= m)
        <2>1. f = 0 /\ ~(c - 1 < m) /\ l - c + 1 \in 1..l
            BY <1>1, <1>2, <1>7
        <2>2. ASSUME NEW i \in 1..m, o[i] = id
              PROVE  FALSE
            <3>1. l - m + i \in 1..l /\ l - m + i # l - c + 1
                BY <1>1, <1>2, <1>7
            <3> QED
                BY <1>1, <1>2, <2>1, <2>2, <3>1
        <2>3. id \notin Elements(o)
            BY <1>4, <2>2
        <2>4. Len(found) = 0 /\ 1..Len(found) = {}
            BY <2>1 DEF f
        <2>5. Collected(o, Tail(ids), found)
            BY <1>1, <2>1, <2>4 DEF Collected, m
        <2> QED
            BY <1>1, <2>3, <2>5 DEF id
    <1> QED
        BY <1>1, <1>2, <1>6, <1>7

\* When nothing is left to search, found is the order.
LEMMA CollectedAll ==
    ASSUME NEW o \in Image, NEW found \in Image, Collected(o, <<>>, found)
    PROVE  found = o
    <1>1. Len(o) \in Nat /\ Len(<<>>) = 0
        BY DEF Image
    <1>2. Len(found) = Len(o)
        BY <1>1 DEF Collected
    <1> QED
        BY <1>2, SeqEqual DEF Collected, Image

\* An image without repetitions within the limit decodes.
LEMMA OnceDecodes ==
    ASSUME NEW s \in Image, ListsOnce(s), Len(s) <= MaxPersistedPlans
    PROVE  Decodes(s)
    <1>1. Cardinality(Listed(s)) = Len(s)
        BY ListedCardinality DEF Image
    <1>2. Listed(s) = Elements(s)
        BY DEF Listed, Elements
    <1>3. s # Torn
        BY StoreAssumption DEF Image
    <1> QED
        BY <1>1, <1>2, <1>3 DEF Decodes

\* What a start loads repeats no plan.
LEMMA LoadedOnce ==
    ASSUME TypeOK
    PROVE  Loaded \in Image /\ ListsOnce(Loaded)
    <1>1. Loaded \in Image
        BY LoadedIsImage
    <1>2. CASE Loaded = <<>>
        BY <1>1, <1>2 DEF ListsOnce
    <1>3. CASE Loaded # <<>>
        <2>1. Cardinality(Elements(Loaded)) = Len(Loaded)
            BY <1>3 DEF Loaded, Decodes
        <2>2. Listed(Loaded) = Elements(Loaded)
            BY DEF Listed, Elements
        <2> QED
            BY <1>1, <2>1, <2>2, ListsOnceByCardinality DEF Image
    <1> QED
        BY <1>1, <1>2, <1>3

\* Accepting a new plan: the runtime evicts its oldest plans, which stay
\* remembered, and still holds the newest of what is remembered.
LEMMA RetainAcceptedList ==
    ASSUME NoRepeats, TypeInv, ListInv, NEW t, Thread = {t}, NEW p \in Plan,
           RetainAccepted(t, p)
    PROVE  ListInv'
    <1> DEFINE a == retained_ids
               e == Evict(order)
    <1>1. /\ up /\ up' = up /\ saver[t] = Idle /\ retained_ids' = a
          /\ p \notin Elements(a)
          /\ order' = IF p \in Elements(order) THEN order ELSE Append(e, p)
          /\ saver' = [saver EXCEPT ![t] = [pc |-> "retained", plan |-> p]]
        BY DEF RetainAccepted, Retain, Goto, NoRepeats
    <1>2. saver'[t] = [pc |-> "retained", plan |-> p]
        BY <1>1 DEF TypeInv
    <1>3. order \in Seq(Plan) /\ a \in Seq(Plan) /\ Len(order) <= MaxRetainedPlans
        BY DEF TypeInv, TypeOK, Image
    <1>4. ListsOnce(a) /\ EndsWith(a, order)
        BY <1>1 DEF ListInv, Remembered, Idle
    <1>5. e \in Seq(Plan) /\ EndsWith(order, e)
        BY <1>3, EvictNewest DEF Image
    <1>6. p \notin Listed(a) /\ Listed(a) = Elements(a) /\ Listed(order) = Elements(order)
        BY <1>1 DEF Listed, Elements
    <1> HIDE DEF a, e
    <1>7. Listed(order) \subseteq Listed(a)
        BY <1>3, <1>4, EndsWithListed
    <1>8. order' = Append(e, p)
        BY <1>1, <1>6, <1>7
    <1>9. ListsOnce(Append(a, p))
        BY <1>3, <1>4, <1>6, ListsOnceAppend
    <1>10. EndsWith(a, e)
        BY <1>3, <1>4, <1>5, EndsWithTransitive
    <1>11. EndsWith(Append(a, p), Append(e, p))
        BY <1>3, <1>5, <1>10, EndsWithAppend
    <1>12. Remembered(saver[t])' = Append(a, p)
        BY <1>1, <1>2 DEF Remembered
    <1> QED
        BY <1>1, <1>8, <1>9, <1>11, <1>12 DEF ListInv

\* A save only runs in a live process, and remembers no plan that it did not
\* already hold.
LEMMA SavingList ==
    ASSUME TypeInv, ListInv, NEW t, Thread = {t}, Saving(t)
    PROVE  ListInv' /\ up
    <1> DEFINE r == saver[t]
               s == saver'[t]
    <1>1. saver \in [Thread -> SaverState] /\ t \in Thread
        BY DEF TypeInv
    <1>2. ASSUME NEW new, saver' = [saver EXCEPT ![t] = new]
          PROVE  s = new
        BY <1>1, <1>2
    <1>3. up' = up /\ order' = order
        BY SavingKeeps
    <1>4. up
        <2>1. r.pc # "idle" \/ up
            BY DEF Saving, RememberId, SaveStore, CopyIds, FindPlan, Encode, Open, Write,
                   SaveFails, Rename, RenameFails, RemoveTemporary
        <2> QED
            BY <1>1, <2>1 DEF ListInv, Idle
    <1>5. Remembered(r)' = Remembered(r)
        <2>1. CASE RememberId(t)
            <3>1. /\ r.pc = "retained" /\ s = [pc |-> "saving"]
                  /\ retained_ids' = Append(retained_ids, r.plan)
                BY <1>2, <2>1 DEF RememberId, PushBack, Goto
            <3> QED
                BY <3>1 DEF Remembered
        <2>2. CASE ~RememberId(t)
            <3>1. retained_ids' = retained_ids /\ r.pc # "retained"
                BY <2>2 DEF Saving, SaveStore, CopyIds, FindPlan, Encode, Open, Truncate,
                    Write, SaveFails, Rename, RenameFails, RemoveTemporary, memory, Idle
            <3>2. s.pc # "retained"
                <4>1. CASE SaveStore(t) \/ CopyIds(t) \/ RenameFails(t)
                    BY <1>2, <4>1 DEF SaveStore, CopyIds, RenameFails, Goto
                <4>2. CASE FindPlan(t)
                    BY <1>2, <4>2 DEF FindPlan, Goto
                <4>3. CASE Encode(t)
                    BY <1>2, <4>3 DEF Encode, Goto, Idle
                <4>4. CASE Open(t) \/ Write(t)
                    BY <1>2, <4>4 DEF Open, Truncate, Write, Goto
                <4>5. CASE SaveFails(t) \/ Rename(t) \/ RemoveTemporary(t)
                    BY <1>2, <4>5 DEF SaveFails, Rename, RemoveTemporary, Goto, Idle
                <4> QED
                    BY <2>2, <4>1, <4>2, <4>3, <4>4, <4>5 DEF Saving
            <3> QED
                BY <3>1, <3>2 DEF Remembered
        <2> QED
            BY <2>1, <2>2
    <1> QED
        BY <1>1, <1>3, <1>4, <1>5 DEF ListInv

\* Every step keeps the runtime's order the newest end of what is remembered.
LEMMA NextList ==
    ASSUME OneSaver, NoRepeats, TypeInv, ListInv, [Next]_vars
    PROVE  ListInv'
    <1>1. PICK s : Thread = {s}
        BY DEF OneSaver
    <1>2. CASE \E t \in Thread, p \in Plan : RetainAccepted(t, p)
        BY <1>1, <1>2, RetainAcceptedList
    <1>3. CASE \E t \in Thread : Saving(t)
        BY <1>1, <1>3, SavingList
    <1>4. CASE Crash
        <2>1. /\ order' = <<>> /\ retained_ids' = <<>> /\ saver' = [t \in Thread |-> Idle]
            BY <1>4 DEF Crash
        <2>2. ListsOnce(<<>>) /\ EndsWith(<<>>, <<>>)
            BY DEF ListsOnce, EndsWith
        <2> QED
            BY <2>1, <2>2 DEF ListInv, Remembered, Idle
    <1>5. CASE RecoverStore
        <2> DEFINE from == IF Len(Loaded) > MaxRetainedPlans
                           THEN Len(Loaded) - MaxRetainedPlans + 1 ELSE 1
                   kept == SubSeq(Loaded, from, Len(Loaded))
        <2>1. /\ ~up /\ up' = TRUE /\ order' = kept /\ retained_ids' = Loaded /\ saver' = saver
            BY <1>5 DEF RecoverStore
        <2>2. Loaded \in Image /\ ListsOnce(Loaded)
            BY LoadedOnce DEF TypeInv
        <2>3. EndsWith(Loaded, kept)
            BY <2>2, RecoverNewest
        <2> HIDE DEF kept
        <2>4. \A t \in Thread : saver'[t] = Idle
            BY <2>1 DEF ListInv
        <2> QED
            BY <2>1, <2>2, <2>3, <2>4 DEF ListInv, Remembered, Idle
    <1>6. CASE AdvanceEpoch \/ UNCHANGED vars
        <2>1. UNCHANGED <<up, order, retained_ids, saver>>
            BY <1>6 DEF AdvanceEpoch, vars, memory
        <2> QED
            BY <2>1 DEF ListInv, Remembered
    <1> QED
        BY <1>2, <1>3, <1>4, <1>5, <1>6 DEF Next

\* The steps of a save that is alone collect the runtime's order.
LEMMA SavingImage ==
    ASSUME TypeInv, ListInv, ImageInv, NEW t, Thread = {t}, Saving(t)
    PROVE  ImageInv'
    <1> DEFINE r == saver[t]
               s == saver'[t]
               a == retained_ids
    <1>1. r \in SaverState /\ saver \in [Thread -> SaverState] /\ t \in Thread
        BY DEF TypeInv
    <1>2. /\ r.pc = "finding" => /\ r.ids \in Image /\ r.found \in Image
                                 /\ EndsWith(a, r.ids) /\ Collected(order, r.ids, r.found)
          /\ r.pc \in {"encoded", "opened", "written"} =>
                 r.image = order /\ Len(order) <= MaxPersistedPlans
        BY <1>1, SaverFields DEF ImageInv
    <1>3. order \in Image /\ a \in Image
        BY DEF TypeInv, TypeOK
    <1>4. ASSUME r.pc # "retained"
          PROVE  ListsOnce(a) /\ EndsWith(a, order)
        BY <1>1, <1>4 DEF ListInv, Remembered
    <1>5. ASSUME NEW new, saver' = [saver EXCEPT ![t] = new]
          PROVE  s = new
        BY <1>1, <1>5
    <1>6. order' = order
        BY SavingKeeps
    <1>7. SUFFICES
              /\ s.pc = "finding" =>
                     /\ EndsWith(retained_ids', s.ids) /\ Collected(order, s.ids, s.found)
              /\ s.pc \in {"encoded", "opened", "written"} =>
                     s.image = order /\ Len(order) <= MaxPersistedPlans
        BY <1>1, <1>6 DEF ImageInv
    <1>8. CASE CopyIds(t)
        <2>1. /\ r.pc = "saving" /\ retained_ids' = a
              /\ s = [pc |-> "finding", ids |-> a, found |-> <<>>]
            BY <1>5, <1>8 DEF CopyIds, Goto, memory
        <2>2. EndsWith(a, a) /\ Len(order) <= Len(a)
              /\ Len(a) \in Nat /\ Len(order) \in Nat
            BY <1>3, <1>4, <2>1, EndsWithSelf DEF EndsWith, Image
        <2>3. Collected(order, a, <<>>)
            BY <2>2 DEF Collected
        <2> QED
            BY <2>1, <2>2, <2>3
    <1>9. CASE FindPlan(t)
        <2> DEFINE more == IF Head(r.ids) \in Elements(order)
                           THEN Append(r.found, Head(r.ids)) ELSE r.found
        <2>1. /\ r.pc = "finding" /\ r.ids # <<>> /\ retained_ids' = a
              /\ s = [pc |-> "finding", ids |-> Tail(r.ids), found |-> more]
            BY <1>5, <1>9 DEF FindPlan, Goto, memory
        <2>2. /\ ListsOnce(a) /\ EndsWith(a, order) /\ EndsWith(a, r.ids)
              /\ r.ids \in Image /\ r.found \in Image /\ Collected(order, r.ids, r.found)
            BY <1>2, <1>4, <2>1
        <2> DEFINE ids == r.ids
                   found == r.found
        <2>3. /\ ids \in Image /\ found \in Image /\ EndsWith(a, ids) /\ ids # <<>>
              /\ Collected(order, ids, found)
              /\ more = IF Head(ids) \in Elements(order) THEN Append(found, Head(ids)) ELSE found
              /\ ListsOnce(a) /\ EndsWith(a, order)
            BY <2>1, <2>2
        <2> HIDE DEF a, r, s, more, ids, found
        <2>4. EndsWith(a, Tail(ids)) /\ Collected(order, Tail(ids), more)
            <3>1. /\ EndsWith(a, Tail(ids))
                  /\ Head(ids) \in Elements(order) =>
                         Collected(order, Tail(ids), Append(found, Head(ids)))
                  /\ Head(ids) \notin Elements(order) => Collected(order, Tail(ids), found)
                BY <1>3, <2>3, CollectNext
            <3> QED
                BY <2>3, <3>1
        <2> QED
            BY <2>1, <2>4 DEF ids
    <1>10. CASE Encode(t)
        <2>1. /\ r.pc = "finding" /\ r.ids = <<>> /\ retained_ids' = a
              /\ s = IF Len(r.found) > MaxPersistedPlans THEN Idle
                     ELSE [pc |-> "encoded", image |-> r.found]
            BY <1>5, <1>10 DEF Encode, Goto, memory
        <2>2. r.found = order
            BY <1>2, <1>3, <2>1, CollectedAll
        <2>3. Len(order) \in Nat /\ MaxPersistedPlans \in Nat
            BY <1>3, StoreAssumption DEF Image
        <2>4. CASE Len(r.found) > MaxPersistedPlans
            BY <2>1, <2>4 DEF Idle
        <2>5. CASE ~(Len(r.found) > MaxPersistedPlans)
            <3>1. s = [pc |-> "encoded", image |-> order] /\ Len(order) <= MaxPersistedPlans
                BY <2>1, <2>2, <2>3, <2>5
            <3> QED
                BY <3>1
        <2> QED
            BY <2>4, <2>5
    <1>11. CASE Open(t) \/ Write(t)
        <2>1. /\ r.pc \in {"encoded", "opened"} /\ s.pc \in {"opened", "written"}
              /\ s.image = r.image
            BY <1>5, <1>11 DEF Open, Truncate, Write, Goto
        <2> QED
            BY <1>2, <2>1
    <1>12. CASE \/ RememberId(t) \/ SaveStore(t) \/ SaveFails(t) \/ Rename(t)
                \/ RenameFails(t) \/ RemoveTemporary(t)
        <2>1. s.pc \in {"idle", "saving", "removing"}
            BY <1>5, <1>12 DEF RememberId, SaveStore, SaveFails, Rename, RenameFails,
                               RemoveTemporary, Goto, Idle
        <2> QED
            BY <2>1
    <1> QED
        BY <1>8, <1>9, <1>10, <1>11, <1>12 DEF Saving

\* Every step keeps what a save has collected equal to what the runtime holds.
LEMMA NextImage ==
    ASSUME OneSaver, TypeInv, ListInv, ImageInv, [Next]_vars
    PROVE  ImageInv'
    <1>1. PICK s : Thread = {s}
        BY DEF OneSaver
    <1>2. CASE \E t \in Thread, p \in Plan : RetainAccepted(t, p)
        <2>1. PICK p \in Plan : RetainAccepted(s, p)
            BY <1>1, <1>2
        <2>2. saver'[s] = [pc |-> "retained", plan |-> p]
            BY <1>1, <2>1 DEF RetainAccepted, Goto, TypeInv
        <2> QED
            BY <1>1, <2>2 DEF ImageInv
    <1>3. CASE \E t \in Thread : Saving(t)
        BY <1>1, <1>3, SavingImage
    <1>4. CASE Crash \/ RecoverStore
        <2>1. \A t \in Thread : saver'[t] = Idle
            BY <1>4 DEF Crash, RecoverStore, ListInv
        <2> QED
            BY <2>1 DEF ImageInv, Idle
    <1>5. CASE AdvanceEpoch \/ UNCHANGED vars
        <2>1. UNCHANGED <<order, retained_ids, saver>>
            BY <1>5 DEF AdvanceEpoch, vars, memory
        <2> QED
            BY <2>1 DEF ImageInv
    <1> QED
        BY <1>2, <1>3, <1>4, <1>5 DEF Next

\* Renaming installs the runtime's order; no other step of a save matters.
LEMMA SavingInstalled ==
    ASSUME TypeInv, FileInv, ListInv, ImageInv, InstalledInv, StoreMatchesRuntime,
           NEW t, Thread = {t}, Saving(t)
    PROVE  InstalledInv' /\ StoreMatchesRuntime'
    <1>1. up' = up /\ order' = order
        BY SavingKeeps
    <1>2. CASE Rename(t)
        <2> DEFINE r == saver[t]
        <2>1. /\ r.pc = "written" /\ temporary # NoFile
              /\ destination' = temporary /\ content' = content
            BY <1>2 DEF Rename
        <2>2. content[temporary] = r.image /\ r.image = order
              /\ Len(order) <= MaxPersistedPlans
            BY <2>1 DEF FileInv, ImageInv
        <2>3. order \in Image /\ retained_ids \in Image /\ Len(order) <= MaxRetainedPlans
            BY DEF TypeInv, TypeOK
        <2>4. ListsOnce(retained_ids) /\ EndsWith(retained_ids, order)
            BY <2>1 DEF ListInv, Remembered
        <2>5. ListsOnce(order)
            BY <2>3, <2>4, EndsWithListsOnce DEF Image
        <2>6. content'[destination'] = order /\ destination' # NoFile
            BY <2>1, <2>2
        <2> QED
            BY <1>1, <2>2, <2>3, <2>5, <2>6 DEF InstalledInv, StoreMatchesRuntime
    <1>3. CASE ~Rename(t)
        <2>1. /\ destination' = destination
              /\ destination # NoFile => content'[destination] = content[destination]
            BY <1>3, InstalledKept
        <2>2. synced' = synced
            BY <1>3 DEF Saving, RememberId, SaveStore, CopyIds, FindPlan, Encode, Open,
                        Write, SaveFails, RenameFails, RemoveTemporary, history
        <2> QED
            BY <1>1, <2>1, <2>2 DEF InstalledInv, StoreMatchesRuntime
    <1> QED
        BY <1>2, <1>3

\* A start accepts the installed file and keeps all of it.
LEMMA RecoverInstalled ==
    ASSUME InstalledInv, RecoverStore
    PROVE  order' = IF destination = NoFile THEN <<>> ELSE content[destination]
    <1> DEFINE n == Len(Loaded)
               from == IF n > MaxRetainedPlans THEN n - MaxRetainedPlans + 1 ELSE 1
    <1>1. order' = SubSeq(Loaded, from, n)
        BY DEF RecoverStore
    <1>2. Loaded = IF destination = NoFile THEN <<>> ELSE content[destination]
        BY OnceDecodes DEF Loaded, InstalledInv
    <1>3. Loaded \in Seq(Plan) /\ n <= MaxRetainedPlans
        <2>1. <<>> \in Seq(Plan) /\ Len(<<>>) <= MaxRetainedPlans
            BY StoreAssumption
        <2> QED
            BY <1>2, <2>1 DEF InstalledInv, Image
    <1>4. from = 1
        <2>1. n \in Nat /\ MaxRetainedPlans \in Nat
            BY <1>3, StoreAssumption
        <2> QED
            BY <1>3, <2>1
    <1>5. SubSeq(Loaded, 1, n) = Loaded
        BY <1>3, SubSeqFull
    <1> QED
        BY <1>1, <1>2, <1>4, <1>5

\* Every step keeps the installed file readable and in agreement.
LEMMA NextInstalled ==
    ASSUME OneSaver, TypeInv, FileInv, HistoryInv, [Next]_vars
    PROVE  InstalledInv' /\ StoreMatchesRuntime'
    <1>1. PICK s : Thread = {s}
        BY DEF OneSaver
    <1>2. InstalledInv /\ StoreMatchesRuntime /\ ListInv /\ ImageInv
        BY DEF HistoryInv
    <1>3. CASE \E t \in Thread : Saving(t)
        BY <1>1, <1>2, <1>3, SavingInstalled
    <1>4. ASSUME UNCHANGED disk
          PROVE  InstalledInv'
        BY <1>2, <1>4 DEF InstalledInv, disk
    <1>5. CASE \E t \in Thread, p \in Plan : RetainAccepted(t, p)
        <2>1. synced' = FALSE /\ UNCHANGED disk
            BY <1>5 DEF RetainAccepted
        <2> QED
            BY <1>4, <2>1 DEF StoreMatchesRuntime
    <1>6. CASE AdvanceEpoch \/ UNCHANGED vars
        <2>1. UNCHANGED <<up, order, synced, disk>>
            BY <1>6 DEF AdvanceEpoch, vars, memory, history
        <2> QED
            BY <1>2, <1>4, <2>1 DEF StoreMatchesRuntime, disk
    <1>7. CASE Crash
        <2>1. up' = FALSE /\ UNCHANGED disk
            BY <1>7 DEF Crash
        <2> QED
            BY <1>4, <2>1 DEF StoreMatchesRuntime
    <1>8. CASE RecoverStore
        <2>1. UNCHANGED disk
            BY <1>8 DEF RecoverStore
        <2>2. order' = IF destination = NoFile THEN <<>> ELSE content[destination]
            BY <1>2, <1>8, RecoverInstalled
        <2> QED
            BY <1>4, <2>1, <2>2 DEF StoreMatchesRuntime, disk
    <1> QED
        BY <1>3, <1>5, <1>6, <1>7, <1>8 DEF Next

\* The history invariant is inductive when saves do not overlap and no listed
\* plan is accepted again.
LEMMA HistoryInvariant ==
    ASSUME OneSaver, NoRepeats
    PROVE  Spec => [](TypeInv /\ FileInv /\ HistoryInv)
    <1> DEFINE Inv == TypeInv /\ FileInv /\ HistoryInv
    <1>1. Init => Inv
        <2> SUFFICES ASSUME Init PROVE Inv
            OBVIOUS
        <2>1. TypeInv /\ FileInv
            BY InitType, InitFile
        <2>2. ListsOnce(<<>>) /\ EndsWith(<<>>, <<>>)
            BY DEF ListsOnce, EndsWith
        <2>3. ListInv
            BY <2>2 DEF Init, ListInv, Remembered, Idle
        <2>4. ImageInv
            BY DEF Init, ImageInv, Idle
        <2>5. InstalledInv /\ StoreMatchesRuntime
            BY DEF Init, InstalledInv, StoreMatchesRuntime
        <2> QED
            BY <2>1, <2>3, <2>4, <2>5 DEF HistoryInv
    <1>2. Inv /\ [Next]_vars => Inv'
        <2> SUFFICES ASSUME TypeInv, FileInv, HistoryInv, [Next]_vars
                     PROVE  TypeInv' /\ FileInv' /\ HistoryInv'
            OBVIOUS
        <2>1. TypeInv' /\ FileInv'
            BY NextType, NextFile
        <2>2. ListInv' /\ ImageInv'
            BY NextList, NextImage DEF HistoryInv
        <2>3. InstalledInv' /\ StoreMatchesRuntime'
            BY NextInstalled
        <2> QED
            BY <2>1, <2>2, <2>3 DEF HistoryInv
    <1> QED
        BY <1>1, <1>2, PTL DEF Spec

\* A start never refuses the file the coordinator wrote: when saves do not
\* overlap and no listed plan is accepted again, what SavePlanStore installed
\* is within max_persisted_plans and free of duplicates, for every number of
\* plans, limits and crashes.
THEOREM HistoryIsReadable ==
    ASSUME OneSaver, NoRepeats
    PROVE  Spec => []HistoryReadable
    <1>1. HistoryInv => HistoryReadable
        BY OnceDecodes DEF HistoryInv, InstalledInv, HistoryReadable
    <1> QED
        BY <1>1, HistoryInvariant, PTL

\* A crash right after a save or a start loses nothing: the runtime and the
\* file then hold the same plans, in the same eviction order.
THEOREM StoreMatches ==
    ASSUME OneSaver, NoRepeats
    PROVE  Spec => []StoreMatchesRuntime
    <1>1. HistoryInv => StoreMatchesRuntime
        BY DEF HistoryInv
    <1> QED
        BY <1>1, HistoryInvariant, PTL

============================================================================
