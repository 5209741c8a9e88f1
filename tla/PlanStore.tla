----------------------------- MODULE PlanStore -----------------------------
(***************************************************************************)
(* The coordinator's planning history: accepted publications are retained  *)
(* in the runtime, their identities appended to retained_ids, and the      *)
(* whole history written to a store file through a temporary file and a    *)
(* rename.  Session threads do this concurrently (no lock covers a save),  *)
(* the file system may refuse any step, and the process may crash between  *)
(* any two.  Files are inodes, because a thread that has the temporary     *)
(* file open keeps writing to it after another thread renamed it.          *)
(***************************************************************************)
EXTENDS Integers, Sequences, FiniteSets

CONSTANTS
    Thread,            \* threads that save: sessions and the application
    Plan,              \* plan identities
    DiagnosticPlan,    \* the plans computed in diagnostic mode
    AllowRepeats,      \* may a plan already in retained_ids be accepted again?
    MaxRetainedPlans,  \* limits.max_retained_plans
    MaxPersistedPlans, \* limits.max_persisted_plans
    Inode,             \* files of the store's directory
    NoFile,            \* an absent file
    Torn,              \* bytes that are no image: empty, truncated, overlapped
    MaxListed          \* bound: length of retained_ids

ASSUME StoreAssumption ==
    /\ MaxRetainedPlans \in Nat \ {0}
    /\ MaxPersistedPlans \in Nat
    /\ DiagnosticPlan \subseteq Plan
    /\ NoFile \notin Inode
    /\ NoFile \notin Seq(Plan)
    /\ Torn \notin Seq(Plan)
    /\ Torn # NoFile

VARIABLES
    up,                \* is the coordinator process running?
    order,             \* retained plans in the runtime, oldest first
    mark,              \* plan -> retained currentness
    retained_ids,
    saver,             \* what each thread inside RetainAccepted or SaveStore holds
    content,           \* inode -> image, a sequence of plans, or Torn
    temporary,         \* the inode the path "<store>.tmp" names, or NoFile
    destination,       \* the inode the store path names, or NoFile
    accepted,          \* history: plans accepted since the process started
    synced             \* history: has nothing changed since a save or a recovery?

memory == <<order, mark, retained_ids>>
disk == <<content, temporary, destination>>
history == <<accepted, synced>>
vars == <<up, memory, saver, disk, history>>

Idle == [pc |-> "idle"]

Elements(s) == {s[i] : i \in 1..Len(s)}

Goto(t, state) == saver' = [saver EXCEPT ![t] = state]

----------------------------------------------------------------------------
(* RetainAccepted.                                                         *)

\* Mutant: a full runtime evicts nothing.
EvictNothing(s) == s

\* The oldest plans go until one place is free.
Evict(s) ==
    IF Len(s) < MaxRetainedPlans THEN s
    ELSE SubSeq(s, Len(s) - MaxRetainedPlans + 2, Len(s))

\* PlannerRuntime::Retain: a known plan is replaced in place, a new one goes
\* to the end of the order.
Retain(p, m) ==
    LET kept == IF p \in Elements(order) THEN order ELSE Append(Evict(order), p)
    IN  /\ order' = kept
        /\ mark' = [q \in Elements(kept) |-> IF q = p THEN m ELSE mark[q]]

\* MakePathPlan: only a diagnostic plan has no proven currentness.
AcceptedMark(p) ==
    IF p \in DiagnosticPlan THEN "REVALIDATION_REQUIRED" ELSE "CURRENT"

RetainAccepted(t, p) ==
    /\ up
    /\ saver[t] = Idle
    /\ Len(retained_ids) < MaxListed
    /\ AllowRepeats \/ p \notin Elements(retained_ids)
    /\ Retain(p, AcceptedMark(p))
    /\ Goto(t, [pc |-> "retained", plan |-> p])
    /\ accepted' = accepted \cup {p}
    /\ synced' = FALSE
    /\ UNCHANGED <<up, retained_ids, disk>>

\* Mutant: the newest identity replaces the list.
PushBackAlone(p) == <<p>>

PushBack(p) == Append(retained_ids, p)

RememberId(t) ==
    /\ saver[t].pc = "retained"
    /\ retained_ids' = PushBack(saver[t].plan)
    /\ Goto(t, [pc |-> "saving"])
    /\ UNCHANGED <<up, order, mark, disk, history>>

----------------------------------------------------------------------------
(* SaveStore: collect, encode, write the temporary file, rename it.        *)

\* Coordinator::SaveStore, called by the application.
SaveStore(t) ==
    /\ up
    /\ saver[t] = Idle
    /\ Goto(t, [pc |-> "saving"])
    /\ UNCHANGED <<up, memory, disk, history>>

\* retained_snapshot copies the identities under the coordinator's lock ...
CopyIds(t) ==
    /\ saver[t].pc = "saving"
    /\ Goto(t, [pc |-> "finding", ids |-> retained_ids, found |-> <<>>])
    /\ UNCHANGED <<up, memory, disk, history>>

\* ... and then asks the runtime for each plan in turn.
FindPlan(t) ==
    /\ saver[t].pc = "finding"
    /\ saver[t].ids # <<>>
    /\ LET id == Head(saver[t].ids)
       IN  Goto(t, [pc    |-> "finding",
                    ids   |-> Tail(saver[t].ids),
                    found |-> IF id \in Elements(order) THEN Append(saver[t].found, id)
                              ELSE saver[t].found])
    /\ UNCHANGED <<up, memory, disk, history>>

\* EncodePlanStore refuses too many records; the save then fails.
Encode(t) ==
    /\ saver[t].pc = "finding"
    /\ saver[t].ids = <<>>
    /\ Goto(t, IF Len(saver[t].found) > MaxPersistedPlans THEN Idle
               ELSE [pc |-> "encoded", image |-> saver[t].found])
    /\ UNCHANGED <<up, memory, disk, history>>

\* A file no path names and no thread has open.
Unused ==
    Inode \ ({temporary, destination} \cup
             {saver[t].inode : t \in {u \in Thread : saver[u].pc = "opened"}})

Fresh == CHOOSE i \in Inode : i \in Unused

\* Opening for writing truncates the file the path names, or creates it.
Truncate(t, named) ==
    LET inode == IF named = NoFile THEN Fresh ELSE named
    IN  /\ named = NoFile => Unused # {}
        /\ temporary' = inode
        /\ content' = [content EXCEPT ![inode] = Torn]
        /\ Goto(t, [pc |-> "opened", image |-> saver[t].image, inode |-> inode])

\* Mutant: the file of the last save is opened again.
OpenInPlace(t) ==
    /\ saver[t].pc = "encoded"
    /\ Truncate(t, destination)
    /\ UNCHANGED <<up, memory, destination, history>>

Open(t) ==
    /\ saver[t].pc = "encoded"
    /\ Truncate(t, temporary)
    /\ UNCHANGED <<up, memory, destination, history>>

\* The image is written from offset 0; longer leftovers stay behind it.
Overwrite(old, image) ==
    IF old # Torn /\ Len(old) > Len(image) THEN Torn ELSE image

Write(t) ==
    /\ saver[t].pc = "opened"
    /\ content' = [content EXCEPT ![saver[t].inode] = Overwrite(@, saver[t].image)]
    /\ Goto(t, [pc |-> "written", image |-> saver[t].image])
    /\ UNCHANGED <<up, memory, temporary, destination, history>>

\* Opening or writing fails: SavePlanStore returns and leaves what it wrote.
SaveFails(t) ==
    /\ \/ saver[t].pc = "encoded" /\ UNCHANGED content
       \/ saver[t].pc = "opened" /\ content' = [content EXCEPT ![saver[t].inode] = Torn]
    /\ Goto(t, Idle)
    /\ UNCHANGED <<up, memory, temporary, destination, history>>

\* Mutant: the stream is renamed before it is flushed.
RenameUnflushed(t) ==
    /\ saver[t].pc \in {"opened", "written"}
    /\ temporary # NoFile
    /\ destination' = temporary
    /\ temporary' = NoFile
    /\ Goto(t, Idle)
    /\ synced' = TRUE
    /\ UNCHANGED <<up, memory, content, accepted>>

\* ReplaceFile: the rename moves whatever file the temporary path names now,
\* and fails when there is none.
Rename(t) ==
    /\ saver[t].pc = "written"
    /\ temporary # NoFile
    /\ destination' = temporary
    /\ temporary' = NoFile
    /\ Goto(t, Idle)
    /\ synced' = TRUE
    /\ UNCHANGED <<up, memory, content, accepted>>

RenameFails(t) ==
    /\ saver[t].pc = "written"
    /\ Goto(t, [pc |-> "removing"])
    /\ UNCHANGED <<up, memory, disk, history>>

\* std::remove of the temporary path, whoever's file it names by now.
RemoveTemporary(t) ==
    /\ saver[t].pc = "removing"
    /\ temporary' = NoFile
    /\ Goto(t, Idle)
    /\ UNCHANGED <<up, memory, content, destination, history>>

----------------------------------------------------------------------------
(* Epoch advance, crash and restart.                                       *)

\* Coordinator::AdvanceEpoch recovers the runtime conservatively.
AdvanceEpoch ==
    /\ up
    /\ mark' = [p \in Elements(order) |-> "REVALIDATION_REQUIRED"]
    /\ UNCHANGED <<up, order, retained_ids, saver, disk, history>>

Crash ==
    /\ up
    /\ up' = FALSE
    /\ order' = <<>> /\ mark' = <<>> /\ retained_ids' = <<>>
    /\ saver' = [t \in Thread |-> Idle]
    /\ accepted' = {}
    /\ UNCHANGED <<disk, synced>>

\* The image DecodePlanStore accepts: whole, within limits, no duplicates.
Decodes(image) ==
    /\ image # Torn
    /\ Len(image) <= MaxPersistedPlans
    /\ Cardinality(Elements(image)) = Len(image)

Loaded ==
    IF destination = NoFile THEN <<>>
    ELSE IF Decodes(content[destination]) THEN content[destination] ELSE <<>>

\* Mutant: a recovered plan resumes as it was retained.
RecoveredMarkAsAccepted(p) == AcceptedMark(p)

RecoveredMark(p) == "REVALIDATION_REQUIRED"

\* Start runs RecoverStore, which retains the records in turn, so only the
\* newest max_retained_plans stay in the runtime while all stay listed.
RecoverStore ==
    /\ ~up
    /\ up' = TRUE
    /\ LET from == IF Len(Loaded) > MaxRetainedPlans
                   THEN Len(Loaded) - MaxRetainedPlans + 1 ELSE 1
           kept == SubSeq(Loaded, from, Len(Loaded))
       IN  /\ order' = kept
           /\ mark' = [p \in Elements(kept) |-> RecoveredMark(p)]
    /\ retained_ids' = Loaded
    /\ synced' = TRUE
    /\ UNCHANGED <<saver, disk, accepted>>

----------------------------------------------------------------------------
Init ==
    /\ up = TRUE
    /\ order = <<>> /\ mark = <<>> /\ retained_ids = <<>>
    /\ saver = [t \in Thread |-> Idle]
    /\ content = [i \in Inode |-> Torn]
    /\ temporary = NoFile
    /\ destination = NoFile
    /\ accepted = {}
    /\ synced = TRUE

Saving(t) ==
    \/ RememberId(t) \/ SaveStore(t) \/ CopyIds(t) \/ FindPlan(t) \/ Encode(t)
    \/ Open(t) \/ Write(t) \/ SaveFails(t)
    \/ Rename(t) \/ RenameFails(t) \/ RemoveTemporary(t)

Next ==
    \/ \E t \in Thread, p \in Plan : RetainAccepted(t, p)
    \/ \E t \in Thread : Saving(t)
    \/ AdvanceEpoch
    \/ Crash
    \/ RecoverStore

Spec == Init /\ [][Next]_vars

----------------------------------------------------------------------------
(* Properties.                                                             *)

Image == Seq(Plan)

Durable == IF destination = NoFile THEN NoFile ELSE content[destination]

\* The types, with the two facts the retention code keeps by hand: a mark for
\* exactly the plans in the order, and never more than max_retained_plans.
TypeOK ==
    /\ up \in BOOLEAN
    /\ order \in Image /\ retained_ids \in Image
    /\ Len(order) <= MaxRetainedPlans
    /\ mark \in [Elements(order) -> {"CURRENT", "REVALIDATION_REQUIRED"}]
    /\ content \in [Inode -> Image \cup {Torn}]
    /\ temporary \in Inode \cup {NoFile}
    /\ destination \in Inode \cup {NoFile}
    /\ accepted \in SUBSET Plan
    /\ synced \in BOOLEAN

\* The images of the saves that are past EncodePlanStore.
Requested ==
    {saver[t].image : t \in {u \in Thread : saver[u].pc \in {"encoded", "opened", "written"}}}

Promise == INSTANCE AtomicStore
               WITH Record <- Plan, durable <- Durable, requested <- Requested

\* SavePlanStore implements the abstract store: whatever fails or crashes,
\* the destination is absent or one whole image a save was asked to write.
AtomicReplacement == Promise!Spec

\* The history the coordinator wrote is one LoadPlanStore accepts: a restart
\* never refuses the file that a save reported as written.
HistoryReadable == destination # NoFile => Decodes(content[destination])

\* Between a save (or a recovery) and the next acceptance the file and the
\* runtime agree on the plans and on their age, so a crash then loses nothing
\* and the restarted runtime evicts in the same order. The order of the file is
\* that of retained_ids, the order of acceptance: retained_snapshot does not sort
\* by plan id, as the comment above it (dist.cpp:217) says it does.
StoreMatchesRuntime ==
    up /\ synced => order = (IF destination = NoFile THEN <<>> ELSE content[destination])

\* Conservative recovery: only a plan accepted since this process started is
\* CURRENT in the runtime, however the process went down and came back.
RecoveryIsConservative == \A p \in Elements(order) \ accepted : mark[p] # "CURRENT"

\* The destination is only ever observed complete.
DestinationComplete == Durable # Torn
============================================================================
