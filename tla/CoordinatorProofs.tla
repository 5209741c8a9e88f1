-------------------------- MODULE CoordinatorProofs --------------------------
(***************************************************************************)
(* Theorems about the coordinator, for any number of worker sessions,      *)
(* clients, boots and requests: its types, that no request and no worker   *)
(* is left behind, and that a fenced boot's late results are refused.      *)
(***************************************************************************)
EXTENDS Coordinator, SequenceTheorems, WellFoundedInduction, TLAPS

----------------------------------------------------------------------------
(* The type invariant, one part per group of fields.  TypeOK alone is not  *)
(* inductive: what the session and client threads carry from one critical  *)
(* section to the next ends up in the registry and in the pending table.   *)

ThreadState ==
    [pc : {"free", "open", "serving", "ended", "released"}]
    \cup [pc : {"hello_read"}, epoch : Nat, snapshot : Snapshot]
    \cup [pc : {"hello_ok"}, epoch : Nat]
    \cup [pc : {"arrived"}, request : Request, epoch : Nat,
          snapshot : Snapshot \cup {NoSnapshot}, late : BOOLEAN]
    \cup [pc : {"decided"}, request : Request, late : BOOLEAN, status : WireStatus]

ClientState ==
    [pc : {"reading", "ended"}]
    \cup [pc : {"relaying"}, request : Request, worker : Session, epoch : Nat]
    \cup [pc : {"waiting"}, request : Request]

WorkerMessage ==
    [type : {"refuse"}]
    \cup [type : {"registered"}, epoch : Nat]
    \cup [type : {"plan"}, request : Request, epoch : Nat]

Publication == [request : Request, epoch : Nat]

EvidenceType ==
    /\ epoch \in Nat
    /\ snapshot \in Snapshot
    /\ publishing \in Snapshot \cup {NoSnapshot}

RegistryType ==
    /\ DOMAIN workers \subseteq Boot
    /\ workers \in [DOMAIN workers -> Registration]
    /\ fenced_boots \subseteq Boot

PendingType ==
    /\ DOMAIN pending \subseteq Request
    /\ pending \in [DOMAIN pending -> Slot]

SessionType ==
    /\ thread \in [Session -> ThreadState]
    /\ peer \in [Session -> Boot \cup {NoBoot}]
    /\ \A s \in Session : thread[s].pc # "free" => peer[s] \in Boot
    /\ boot_key \in [Session -> Boot \cup {NoBoot}]
    /\ outstanding \in [Session -> Request \cup {NoRequest}]

ClientType == client \in [Client -> ClientState]

NetworkType ==
    /\ proc \in [Session -> [pc : {"greeting", "serving", "gone"}, epoch : Nat]]
    /\ to_worker \in [Session -> Seq(WorkerMessage)]
    /\ to_coordinator \in [Session -> Seq(Publication)]

TypeInv ==
    /\ EvidenceType /\ RegistryType /\ PendingType /\ SessionType
    /\ ClientType /\ NetworkType
    /\ asleep \subseteq Client
    /\ phase \in {"running", "stopping", "stopped"}

----------------------------------------------------------------------------
(* The helpers.                                                            *)

\* Put adds one key, Erase removes keys, and neither touches other entries.
LEMMA PutErase ==
    ASSUME NEW K, NEW V, NEW map \in [K -> V], NEW k, NEW v \in V, NEW gone
    PROVE  /\ Put(map, k, v) \in [K \cup {k} -> V]
           /\ Put(map, k, v)[k] = v
           /\ \A i \in K \ {k} : Put(map, k, v)[i] = map[i]
           /\ Erase(map, gone) \in [K \ gone -> V]
           /\ \A i \in K \ gone : Erase(map, gone)[i] = map[i]
    BY DEF Put, Erase

\* The plain thread states, and the messages, have their types.
LEMMA PlainTypes ==
    /\ \A pc \in {"free", "open", "serving", "ended", "released"} :
           At(pc) \in ThreadState /\ At(pc).pc = pc
    /\ \A pc \in {"reading", "ended"} : At(pc) \in ClientState /\ At(pc).pc = pc
    /\ Refuse \in WorkerMessage
    /\ LoopOrEnd \in ThreadState /\ LoopOrEnd.pc \in {"serving", "ended"}
    BY DEF At, ThreadState, ClientState, WorkerMessage, Refuse, LoopOrEnd

\* Sending keeps every queue a queue of messages.
LEMMA SendType ==
    ASSUME NetworkType, NEW S, NEW m \in WorkerMessage
    PROVE  SendAll(S, m) \in [Session -> Seq(WorkerMessage)]
    BY DEF NetworkType, SendAll

\* The fields a session thread carries in each of its states.
LEMMA ThreadShape ==
    ASSUME NEW t \in ThreadState
    PROVE  /\ t.pc = "hello_read" => t.epoch \in Nat /\ t.snapshot \in Snapshot
           /\ t.pc = "hello_ok" => t.epoch \in Nat
           /\ t.pc = "arrived" => /\ t.request \in Request /\ t.epoch \in Nat
                                  /\ t.late \in BOOLEAN
           /\ t.pc = "decided" => /\ t.request \in Request /\ t.status \in WireStatus
                                  /\ t.late \in BOOLEAN
    BY DEF ThreadState

\* The fields a client thread carries in each of its states.
LEMMA ClientShape ==
    ASSUME NEW c \in ClientState
    PROVE  /\ c.pc = "relaying" => /\ c.request \in Request /\ c.worker \in Session
                                   /\ c.epoch \in Nat
           /\ c.pc = "waiting" => c.request \in Request
    BY DEF ClientState

\* Some session is available: the scan finds the first one.
LEMMA FirstAvailableIs ==
    ASSUME \E s \in Session : Available(s)
    PROVE  FirstAvailable \in Session /\ Available(FirstAvailable)
    <1> DEFINE A == {s \in Session : Available(s)}
               R == OpToRel(<, Nat)
    <1>1. A \subseteq Nat /\ A # {}
        BY SessionAssumption
    <1>2. PICK s \in A : \A u \in A : ~(<<u, s>> \in R)
        <2> HIDE DEF A
        <2> QED
            BY <1>1, NatLessThanWellFounded, WFMin
    <1>3. \A u \in Nat : u < s => <<u, s>> \in R
        BY <1>1 DEF OpToRel
    <1>4. \A u \in A : s <= u
        <2> HIDE DEF A, R
        <2>1. \A u \in A : u \in Nat /\ ~(u < s)
            BY <1>1, <1>2, <1>3, Zenon
        <2> QED
            BY <1>1, <2>1
    <1>5. \E x \in Session : Available(x) /\ \A u \in Session : Available(u) => x <= u
        BY <1>4
    <1> QED
        BY <1>5, Zenon DEF FirstAvailable

----------------------------------------------------------------------------
(* Which step writes which fields.                                         *)

\* The steps of a session thread.
LEMMA ThreadWriters ==
    ASSUME [Next]_vars
    PROVE  \/ UNCHANGED <<thread, peer, boot_key>>
           \/ \E s \in Session, b \in Boot : Connect(s, b)
           \/ \E s \in Session : SessionStep(s)
    BY DEF Next, vars, session, WorkerRead, WorkerGone, Dispatch, Relay,
           WaitForSlot, Resolve, EndClient, AdvanceEpoch, PublishSnapshotEpoch, PublishSnapshotRuntime,
           FenceWorker, Stop, StopJoined

\* The steps that write the registry, the fenced boots or their history.
LEMMA RegistryWriters ==
    ASSUME [Next]_vars
    PROVE  \/ UNCHANGED <<workers, fenced_boots, revoked>>
           \/ \E s \in Session : HandshakeRegister(s) \/ ReleaseSession(s)
           \/ \E e \in 1..MaxEpoch : AdvanceEpoch(e)
           \/ \E b \in Boot : FenceWorker(b)
           \/ StopJoined
    BY DEF Next, vars, registry, history, SessionStep, Connect, HandshakeRead,
           HandshakeCheck, PublicationRead, PublicationValidate,
           PublicationFulfil, EndSession, WorkerRead, WorkerGone, Dispatch,
           Relay, WaitForSlot, Resolve, EndClient, PublishSnapshotEpoch,
           PublishSnapshotRuntime, Stop

\* The steps that write the pending table, the clients or what the sessions
\* carry.
LEMMA PendingWriters ==
    ASSUME [Next]_vars
    PROVE  \/ UNCHANGED <<pending, outstanding, client>>
           \/ \E s \in Session : PublicationFulfil(s) \/ ReleaseSession(s)
           \/ \E c \in Client, r \in Request : Dispatch(c, r)
           \/ \E c \in Client : Relay(c) \/ Resolve(c) \/ EndClient(c)
           \/ StopJoined
    BY DEF Next, vars, session, SessionStep, Connect, HandshakeRead, HandshakeCheck,
           HandshakeRegister, PublicationRead, PublicationValidate, EndSession,
           WorkerRead, WorkerGone, WaitForSlot, AdvanceEpoch,
           PublishSnapshotEpoch, PublishSnapshotRuntime, FenceWorker, Stop

\* The steps that reach the worker processes and their connections.
LEMMA NetworkWriters ==
    ASSUME [Next]_vars
    PROVE  \/ UNCHANGED network
           \/ \E s \in Session, b \in Boot : Connect(s, b)
           \/ \E s \in Session : \/ HandshakeCheck(s) \/ HandshakeRegister(s)
                                 \/ PublicationRead(s) \/ PublicationFulfil(s)
                                 \/ ReleaseSession(s)
                                 \/ WorkerRead(s) \/ WorkerGone(s)
           \/ \E c \in Client : Relay(c)
           \/ \E e \in 1..MaxEpoch : AdvanceEpoch(e)
           \/ \E b \in Boot : FenceWorker(b)
    BY DEF Next, vars, SessionStep, HandshakeRead, PublicationValidate,
           EndSession, Dispatch, WaitForSlot, Resolve, EndClient,
           PublishSnapshotEpoch, PublishSnapshotRuntime, Stop, StopJoined

\* The steps that put a client thread to sleep or wake it.
LEMMA AsleepWriters ==
    ASSUME [Next]_vars
    PROVE  \/ UNCHANGED asleep
           \/ asleep' = {}
           \/ \E c \in Client : WaitForSlot(c) \/ Resolve(c)
    BY DEF Next, vars, SessionStep, Connect, HandshakeRead, HandshakeCheck,
           HandshakeRegister, PublicationRead, PublicationValidate,
           PublicationFulfil, NotifyAll, EndSession, ReleaseSession, WorkerRead,
           WorkerGone, Dispatch, Relay, EndClient, AdvanceEpoch,
           PublishSnapshotEpoch, PublishSnapshotRuntime, FenceWorker, Stop,
           StopJoined

----------------------------------------------------------------------------
(* Types.                                                                  *)

\* Every step keeps the types of the snapshot, the epoch and the histories.
LEMMA NextEvidenceType ==
    ASSUME TypeInv, [Next]_vars
    PROVE  EvidenceType'
    <1>1. CASE UNCHANGED evidence
        BY <1>1 DEF TypeInv, EvidenceType, evidence
    <1>2. ASSUME NEW e \in 1..MaxEpoch, AdvanceEpoch(e)  PROVE EvidenceType'
        BY <1>2 DEF TypeInv, EvidenceType, AdvanceEpoch
    <1>3. ASSUME NEW s \in Snapshot, PublishSnapshotEpoch(s, SnapshotEpoch[s])
          PROVE  EvidenceType'
        BY <1>3, EvidenceAssumption
        DEF TypeInv, EvidenceType, PublishSnapshotEpoch, Later
    <1>4. CASE PublishSnapshotRuntime
        BY <1>4 DEF TypeInv, EvidenceType, PublishSnapshotRuntime
    <1>5. \/ UNCHANGED evidence
          \/ \E e \in 1..MaxEpoch : AdvanceEpoch(e)
          \/ \E s \in Snapshot : PublishSnapshotEpoch(s, SnapshotEpoch[s])
          \/ PublishSnapshotRuntime
        BY DEF Next, vars, SessionStep, Connect, HandshakeRead, HandshakeCheck,
               HandshakeRegister, PublicationRead, PublicationValidate,
               PublicationFulfil, EndSession, ReleaseSession, WorkerRead,
               WorkerGone, Dispatch, Relay, WaitForSlot, Resolve, EndClient,
               FenceWorker, Stop, StopJoined
    <1> QED
        BY <1>1, <1>2, <1>3, <1>4, <1>5

\* The registry holds registrations of boots.
LEMMA NextRegistryType ==
    ASSUME TypeInv, [Next]_vars
    PROVE  RegistryType'
    <1> USE DEF TypeInv, RegistryType
    <1>1. ASSUME NEW s \in Session, HandshakeRegister(s)  PROVE RegistryType'
        <2>1. peer[s] \in Boot /\ thread[s].epoch \in Nat
            BY <1>1, ThreadShape DEF SessionType, HandshakeRegister
        <2> DEFINE reg == [snapshot |-> WorkerSnapshot[peer[s]],
                           epoch |-> thread[s].epoch, fenced |-> FALSE]
        <2>2. reg \in Registration
            BY <2>1, EvidenceAssumption DEF Registration
        <2>3. workers' = Put(workers, peer[s], reg) /\ UNCHANGED fenced_boots
            BY <1>1 DEF HandshakeRegister
        <2> HIDE DEF reg
        <2> QED
            BY <2>1, <2>2, <2>3 DEF Put
    <1>2. ASSUME NEW s \in Session, ReleaseSession(s)  PROVE RegistryType'
        <2>1. Lost(s) \subseteq Boot
            BY DEF Lost, SessionType
        <2> QED
            BY <1>2, <2>1 DEF ReleaseSession, Unregister, Erase
    <1>3. ASSUME NEW e \in 1..MaxEpoch, AdvanceEpoch(e)  PROVE RegistryType'
        <2>1. {boot_key[s] : s \in {u \in Session : boot_key[u] # NoBoot}} \subseteq Boot
            BY DEF SessionType
        <2>2. workers' = Erase(workers, DOMAIN workers)
            BY <1>3 DEF AdvanceEpoch
        <2>3. fenced_boots' = fenced_boots \cup
                  {boot_key[s] : s \in {u \in Session : boot_key[u] # NoBoot}}
            BY <1>3 DEF AdvanceEpoch
        <2> QED
            BY <2>1, <2>2, <2>3 DEF Erase
    <1>4. ASSUME NEW b \in Boot, FenceWorker(b)  PROVE RegistryType'
        <2>1. /\ b \in DOMAIN workers
              /\ workers' = [workers EXCEPT ![b].fenced = TRUE]
              /\ fenced_boots' = fenced_boots \cup {b}
            BY <1>4 DEF FenceWorker
        <2>2. workers' \in [DOMAIN workers -> Registration]
            BY <2>1 DEF Registration
        <2> QED
            BY <2>1, <2>2
    <1>5. CASE StopJoined
        <2>1. workers' = <<>> /\ UNCHANGED fenced_boots
            BY <1>5 DEF StopJoined
        <2> QED
            BY <2>1
    <1> QED
        BY <1>1, <1>2, <1>3, <1>4, <1>5, RegistryWriters

\* The status a publication is decided with.
LEMMA ValidateType ==
    ASSUME NEW b, NEW p
    PROVE  ValidatePublication(b, p) \in WireStatus \ {"INTERNAL"}
    BY DEF ValidatePublication, WireStatus

\* The pending table holds slots of requests.
LEMMA NextPendingType ==
    ASSUME TypeInv, [Next]_vars
    PROVE  PendingType'
    <1> USE DEF TypeInv, PendingType
    <1>0. \A b \in BOOLEAN, w \in WireStatus : [ready |-> b, status |-> w] \in Slot
        BY DEF Slot
    <1>1. ASSUME NEW r, r \in DOMAIN pending, NEW w \in WireStatus
          PROVE  /\ [pending EXCEPT ![r].ready = TRUE, ![r].status = w]
                        \in [DOMAIN pending -> Slot]
        BY <1>1 DEF Slot
    <1>2. ASSUME NEW s \in Session, PublicationFulfil(s)  PROVE PendingType'
        <2>1. thread[s].status \in WireStatus
            BY <1>2, ThreadShape DEF SessionType, PublicationFulfil
        <2> QED
            BY <1>1, <1>2, <2>1 DEF PublicationFulfil, Unready
    <1>3. ASSUME NEW s \in Session, ReleaseSession(s)  PROVE PendingType'
        <2>1. "UNKNOWN_WORKER" \in WireStatus
            BY DEF WireStatus
        <2> QED
            BY <1>1, <1>3, <2>1 DEF ReleaseSession, FailOutstanding, Unready
    <1>4. ASSUME NEW c \in Client, NEW r \in Request, Dispatch(c, r)
          PROVE  PendingType'
        <2>1. PICK v \in Slot : pending' = Put(pending, r, v)
            BY <1>0, <1>4 DEF Dispatch, WireStatus
        <2> QED
            BY <2>1 DEF Put
    <1>5. ASSUME NEW c \in Client, Relay(c)  PROVE PendingType'
        <2>1. client[c].request \in Request
            BY <1>5, ClientShape DEF ClientType, Relay
        <2>2. \/ UNCHANGED pending
              \/ \E v \in Slot : pending' = Put(pending, client[c].request, v)
            BY <1>0, <1>5 DEF Relay, WireStatus
        <2> QED
            BY <2>1, <2>2 DEF Put
    <1>6. ASSUME NEW c \in Client, Resolve(c)  PROVE PendingType'
        BY <1>6 DEF Resolve, Erase
    <1>7. ASSUME NEW c \in Client, EndClient(c)  PROVE PendingType'
        BY <1>7 DEF EndClient
    <1>8. CASE StopJoined
        <2>1. pending' = <<>>
            BY <1>8 DEF StopJoined
        <2> QED
            BY <2>1
    <1> QED
        BY <1>2, <1>3, <1>4, <1>5, <1>6, <1>7, <1>8, PendingWriters

\* A session thread's step moves it to a state that is not free and is typed.
LEMMA SessionStepShape ==
    ASSUME TypeInv, NEW s \in Session, SessionStep(s)
    PROVE  /\ \E x \in ThreadState : /\ x.pc # "free"
                                      /\ thread' = [thread EXCEPT ![s] = x]
           /\ thread[s].pc # "free"
           /\ UNCHANGED <<peer, outstanding, client>>
           /\ UNCHANGED boot_key \/ HandshakeRegister(s)
    <1> DEFINE moves(x) == x \in ThreadState /\ x.pc # "free"
                           /\ thread' = [thread EXCEPT ![s] = x]
    <1> USE DEF TypeInv
    <1>1. CASE HandshakeRead(s)
        <2> DEFINE x == [pc |-> "hello_read", epoch |-> epoch, snapshot |-> snapshot]
        <2>1. moves(x)
            BY <1>1 DEF HandshakeRead, EvidenceType, ThreadState
        <2> QED
            BY <1>1, <2>1 DEF HandshakeRead
    <1>2. CASE HandshakeCheck(s)
        <2> DEFINE x == [pc |-> "hello_ok", epoch |-> thread[s].epoch]
        <2>1. thread[s].pc = "hello_read" /\ thread[s].epoch \in Nat
            BY <1>2, ThreadShape DEF HandshakeCheck, SessionType
        <2>2. x \in ThreadState /\ x.pc # "free"
            BY <2>1 DEF ThreadState
        <2>3. moves(x) \/ moves(At("ended"))
            BY <1>2, <2>2, PlainTypes DEF HandshakeCheck
        <2> QED
            BY <1>2, <2>1, <2>3 DEF HandshakeCheck
    <1>3. CASE HandshakeRegister(s)
        <2>1. moves(LoopOrEnd)
            BY <1>3, PlainTypes DEF HandshakeRegister
        <2> QED
            BY <1>3, <2>1 DEF HandshakeRegister
    <1>4. CASE PublicationRead(s)
        <2> DEFINE m == Head(to_coordinator[s])
                   x == [pc |-> "arrived", request |-> m.request, epoch |-> m.epoch,
                         snapshot |-> IF peer[s] \in DOMAIN workers
                                      THEN workers[peer[s]].snapshot ELSE NoSnapshot,
                         late |-> peer[s] \in revoked]
        <2>1. m \in Publication
            BY <1>4 DEF PublicationRead, NetworkType
        <2>2. peer[s] \in DOMAIN workers => workers[peer[s]].snapshot \in Snapshot
            BY DEF RegistryType, Registration
        <2>3. thread' = [thread EXCEPT ![s] = x]
            BY <1>4 DEF PublicationRead
        <2>4. x \in ThreadState /\ x.pc # "free"
            <3>1. m.request \in Request /\ m.epoch \in Nat
                BY <2>1 DEF Publication
            <3> HIDE DEF m
            <3> QED
                BY <2>2, <3>1 DEF ThreadState
        <2> HIDE DEF x, m
        <2> QED
            BY <1>4, <2>3, <2>4 DEF PublicationRead
    <1>5. CASE PublicationValidate(s)
        <2> DEFINE w == ValidatePublication(peer[s], thread[s])
                   x == [pc |-> "decided", request |-> thread[s].request,
                         late |-> thread[s].late, status |-> w]
        <2>1. thread' = [thread EXCEPT ![s] = x]
            BY <1>5 DEF PublicationValidate
        <2>2. w \in WireStatus
            BY ValidateType
        <2>3. thread[s].request \in Request /\ thread[s].late \in BOOLEAN
            BY <1>5, ThreadShape DEF PublicationValidate, SessionType
        <2> HIDE DEF w
        <2>4. x \in ThreadState /\ x.pc # "free"
            BY <2>2, <2>3 DEF ThreadState
        <2> HIDE DEF x
        <2> QED
            BY <1>5, <2>1, <2>4 DEF PublicationValidate
    <1>6. CASE PublicationFulfil(s)
        <2>1. moves(LoopOrEnd)
            BY <1>6, PlainTypes DEF PublicationFulfil
        <2> QED
            BY <1>6, <2>1 DEF PublicationFulfil
    <1>7. CASE EndSession(s)
        <2>1. moves(At("ended"))
            BY <1>7, PlainTypes DEF EndSession
        <2> QED
            BY <1>7, <2>1 DEF EndSession
    <1>8. CASE ReleaseSession(s)
        <2>1. moves(At("released"))
            BY <1>8, PlainTypes DEF ReleaseSession
        <2> QED
            BY <1>8, <2>1 DEF ReleaseSession
    <1> QED
        BY <1>1, <1>2, <1>3, <1>4, <1>5, <1>6, <1>7, <1>8 DEF SessionStep

\* The fields of the sessions keep their types.
LEMMA NextSessionType ==
    ASSUME TypeInv, [Next]_vars
    PROVE  SessionType'
    <1> USE DEF TypeInv, SessionType
    <1>1. outstanding' \in [Session -> Request \cup {NoRequest}]
        <2>1. ASSUME NEW c \in Client, NEW r \in Request, Dispatch(c, r)
              PROVE  outstanding' \in [Session -> Request \cup {NoRequest}]
            BY <2>1 DEF Dispatch
        <2>2. ASSUME NEW c \in Client, Resolve(c)
              PROVE  outstanding' \in [Session -> Request \cup {NoRequest}]
            BY <2>2 DEF Resolve, Freed
        <2>3. \/ UNCHANGED outstanding
              \/ \E c \in Client, r \in Request : Dispatch(c, r)
              \/ \E c \in Client : Resolve(c)
            BY PendingWriters DEF PublicationFulfil, ReleaseSession, Relay,
                                  EndClient, StopJoined, session
        <2> QED
            BY <2>1, <2>2, <2>3
    <1>2. CASE UNCHANGED <<thread, peer, boot_key>>
        BY <1>1, <1>2
    <1>3. ASSUME NEW s \in Session, NEW b \in Boot, Connect(s, b)
          PROVE  SessionType'
        BY <1>1, <1>3, PlainTypes DEF Connect
    <1>4. ASSUME NEW s \in Session, SessionStep(s)
          PROVE  SessionType'
        <2>1. PICK x \in ThreadState : x.pc # "free" /\ thread' = [thread EXCEPT ![s] = x]
            BY <1>4, SessionStepShape
        <2>2. thread[s].pc # "free" /\ UNCHANGED peer
            BY <1>4, SessionStepShape
        <2>3. boot_key' \in [Session -> Boot \cup {NoBoot}]
            BY <1>4, SessionStepShape DEF HandshakeRegister
        <2> QED
            BY <1>1, <2>1, <2>2, <2>3
    <1> QED
        BY <1>2, <1>3, <1>4, ThreadWriters

\* The client threads keep their types.
LEMMA NextClientType ==
    ASSUME TypeInv, [Next]_vars
    PROVE  ClientType'
    <1> USE DEF TypeInv, ClientType
    <1>1. ASSUME NEW c \in Client, NEW r \in Request, Dispatch(c, r)
          PROVE  ClientType'
        <2>1. ASSUME \E s \in Session : Available(s)  PROVE ClientType'
            <3>1. [pc |-> "relaying", request |-> r, worker |-> FirstAvailable,
                   epoch |-> epoch] \in ClientState
                BY <2>1, FirstAvailableIs DEF ClientState, EvidenceType
            <3> QED
                BY <1>1, <2>1, <3>1 DEF Dispatch
        <2>2. ASSUME ~\E s \in Session : Available(s)  PROVE ClientType'
            <3>1. [pc |-> "waiting", request |-> r] \in ClientState
                BY DEF ClientState
            <3> QED
                BY <1>1, <2>2, <3>1 DEF Dispatch
        <2> QED
            BY <2>1, <2>2
    <1>2. ASSUME NEW c \in Client, Relay(c)  PROVE ClientType'
        <2>1. client[c].request \in Request
            BY <1>2, ClientShape DEF Relay
        <2>2. [pc |-> "waiting", request |-> client[c].request] \in ClientState
            BY <2>1 DEF ClientState
        <2> QED
            BY <1>2, <2>2 DEF Relay
    <1>3. ASSUME NEW c \in Client, Resolve(c)  PROVE ClientType'
        BY <1>3, PlainTypes DEF Resolve
    <1>4. ASSUME NEW c \in Client, EndClient(c)  PROVE ClientType'
        BY <1>4, PlainTypes DEF EndClient
    <1>5. \/ UNCHANGED client
          \/ \E c \in Client, r \in Request : Dispatch(c, r)
          \/ \E c \in Client : Relay(c) \/ Resolve(c) \/ EndClient(c)
        BY PendingWriters DEF PublicationFulfil, ReleaseSession, StopJoined
    <1> QED
        BY <1>1, <1>2, <1>3, <1>4, <1>5

\* The worker processes and the frames under way keep their types.
LEMMA NextNetworkType ==
    ASSUME TypeInv, [Next]_vars
    PROVE  NetworkType'
    <1> USE DEF TypeInv, NetworkType
    <1> DEFINE Process == [pc : {"greeting", "serving", "gone"}, epoch : Nat]
    <1>0. [pc |-> "gone", epoch |-> 0] \in Process /\ [pc |-> "greeting", epoch |-> 0] \in Process
          /\ \A n \in Nat : [pc |-> "serving", epoch |-> n] \in Process
        OBVIOUS
    <1>1. ASSUME NEW s \in Session, NEW b \in Boot, Connect(s, b)  PROVE NetworkType'
        BY <1>0, <1>1 DEF Connect
    <1>2. ASSUME NEW s \in Session, HandshakeCheck(s)  PROVE NetworkType'
        BY <1>2, SendType, PlainTypes DEF HandshakeCheck
    <1>3. ASSUME NEW s \in Session, HandshakeRegister(s)  PROVE NetworkType'
        <2>1. thread[s].epoch \in Nat
            BY <1>3, ThreadShape DEF SessionType, HandshakeRegister
        <2>2. [type |-> "registered", epoch |-> thread[s].epoch] \in WorkerMessage
            BY <2>1 DEF WorkerMessage
        <2> QED
            BY <1>3, <2>2, SendType DEF HandshakeRegister
    <1>4. ASSUME NEW s \in Session, PublicationRead(s)  PROVE NetworkType'
        <2>1. /\ to_coordinator[s] \in Seq(Publication) /\ to_coordinator[s] # <<>>
              /\ to_coordinator' = [to_coordinator EXCEPT ![s] = Tail(to_coordinator[s])]
              /\ UNCHANGED <<proc, to_worker>>
            BY <1>4 DEF PublicationRead
        <2>2. Tail(to_coordinator[s]) \in Seq(Publication)
            BY <2>1, HeadTailProperties
        <2> QED
            BY <2>1, <2>2
    <1>5. ASSUME NEW s \in Session, PublicationFulfil(s)  PROVE NetworkType'
        BY <1>5, SendType, PlainTypes DEF PublicationFulfil
    <1>6. ASSUME NEW s \in Session, ReleaseSession(s)  PROVE NetworkType'
        BY <1>0, <1>6 DEF ReleaseSession, Disconnect
    <1>7. ASSUME NEW s \in Session, WorkerGone(s)  PROVE NetworkType'
        BY <1>0, <1>7 DEF WorkerGone
    <1>8. ASSUME NEW s \in Session, WorkerRead(s)  PROVE NetworkType'
        <2> DEFINE m == Head(to_worker[s])
                   known == Later(proc[s].epoch, m.epoch)
        <2>1. to_worker[s] \in Seq(WorkerMessage) /\ to_worker[s] # <<>>
            BY <1>8 DEF WorkerRead
        <2>2. m \in WorkerMessage /\ Tail(to_worker[s]) \in Seq(WorkerMessage)
            BY <2>1, HeadTailProperties
        <2>3. to_worker' \in [Session -> Seq(WorkerMessage)]
            <3>1. to_worker' = [to_worker EXCEPT ![s] =
                      IF Head(to_worker[s]) = Refuse THEN <<>> ELSE Tail(to_worker[s])]
                BY <1>8 DEF WorkerRead
            <3> QED
                BY <2>2, <3>1
        <2>4. \/ m.type = "refuse"
              \/ m.type = "registered" /\ m.epoch \in Nat
              \/ m.type = "plan" /\ m.request \in Request /\ m.epoch \in Nat
            BY <2>2 DEF WorkerMessage
        <2>5. CASE m.type = "refuse"
            <3>1. /\ proc' = [proc EXCEPT ![s] = [pc |-> "gone", epoch |-> 0]]
                  /\ UNCHANGED to_coordinator
                BY <1>8, <2>5 DEF WorkerRead
            <3> QED
                BY <1>0, <2>3, <3>1
        <2>6. CASE m.type = "registered" /\ m.epoch \in Nat
            <3>1. /\ proc' = [proc EXCEPT ![s] = [pc |-> "serving", epoch |-> m.epoch]]
                  /\ UNCHANGED to_coordinator
                BY <1>8, <2>6 DEF WorkerRead
            <3> HIDE DEF m
            <3> QED
                BY <1>0, <2>3, <2>6, <3>1
        <2>7. CASE m.type = "plan" /\ m.request \in Request /\ m.epoch \in Nat
            <3>1. proc[s] \in Process
                OBVIOUS
            <3>2. known \in Nat
                BY <2>7, <3>1 DEF Later
            <3>3. [request |-> m.request, epoch |-> known] \in Publication
                BY <2>7, <3>2 DEF Publication
            <3>4. /\ proc' = [proc EXCEPT ![s].epoch = known]
                  /\ \/ to_coordinator' = [to_coordinator EXCEPT ![s] =
                             Append(to_coordinator[s], [request |-> m.request, epoch |-> known])]
                     \/ UNCHANGED to_coordinator
                BY <1>8, <2>7 DEF WorkerRead
            <3> HIDE DEF m, known
            <3>5. proc' \in [Session -> Process]
                BY <3>1, <3>2, <3>4
            <3> DEFINE answer == [request |-> m.request, epoch |-> known]
            <3> HIDE DEF answer
            <3>6. to_coordinator' \in [Session -> Seq(Publication)]
                <4>1. answer \in Publication
                    BY <3>3 DEF answer
                <4>2. Append(to_coordinator[s], answer) \in Seq(Publication)
                    BY <4>1, AppendProperties
                <4>3. \/ to_coordinator' = [to_coordinator EXCEPT ![s] =
                              Append(to_coordinator[s], answer)]
                      \/ UNCHANGED to_coordinator
                    BY <3>4 DEF answer
                <4> QED
                    BY <4>2, <4>3
            <3> QED
                BY <2>3, <3>5, <3>6
        <2> QED
            BY <2>4, <2>5, <2>6, <2>7
    <1>9. ASSUME NEW c \in Client, Relay(c)  PROVE NetworkType'
        <2>1. client[c].request \in Request /\ client[c].epoch \in Nat
            BY <1>9, ClientShape DEF Relay, ClientType
        <2>2. [type |-> "plan", request |-> client[c].request, epoch |-> client[c].epoch]
                  \in WorkerMessage
            BY <2>1 DEF WorkerMessage
        <2> QED
            BY <1>9, <2>2, SendType DEF Relay
    <1>10. ASSUME NEW e \in 1..MaxEpoch, AdvanceEpoch(e)  PROVE NetworkType'
        BY <1>10, SendType, PlainTypes DEF AdvanceEpoch
    <1>11. ASSUME NEW b \in Boot, FenceWorker(b)  PROVE NetworkType'
        BY <1>11, SendType, PlainTypes DEF FenceWorker
    <1>12. CASE UNCHANGED network
        BY <1>12 DEF network
    <1> QED
        BY <1>1, <1>2, <1>3, <1>4, <1>5, <1>6, <1>7, <1>8, <1>9, <1>10, <1>11,
           <1>12, NetworkWriters

\* Every step keeps the type invariant.
LEMMA NextTypes ==
    ASSUME TypeInv, [Next]_vars
    PROVE  TypeInv'
    <1>1. phase' \in {"running", "stopping", "stopped"}
        BY DEF TypeInv, Next, vars, SessionStep, Connect, HandshakeRead,
               HandshakeCheck, HandshakeRegister, PublicationRead,
               PublicationValidate, PublicationFulfil, EndSession,
               ReleaseSession, WorkerRead, WorkerGone, Dispatch, Relay,
               WaitForSlot, Resolve, EndClient, AdvanceEpoch, PublishSnapshotEpoch,
               PublishSnapshotRuntime, FenceWorker, Stop, StopJoined
    <1>2. asleep' \subseteq Client
        BY AsleepWriters DEF TypeInv, WaitForSlot, Resolve
    <1> QED
        BY <1>1, <1>2, NextEvidenceType, NextRegistryType, NextPendingType,
           NextSessionType, NextClientType, NextNetworkType DEF TypeInv

\* The initial state has the types.
LEMMA InitTypes ==
    ASSUME Init
    PROVE  TypeInv
    <1>1. EvidenceType /\ phase = "running" /\ asleep = {}
        BY EvidenceAssumption DEF Init, EvidenceType
    <1>2. RegistryType /\ PendingType
        BY DEF Init, RegistryType, PendingType
    <1>3. SessionType /\ ClientType
        BY PlainTypes DEF Init, SessionType, ClientType
    <1>4. NetworkType
        BY DEF Init, NetworkType
    <1> QED
        BY <1>1, <1>2, <1>3, <1>4 DEF TypeInv

\* The coordinator's fields keep their types, whatever the clients, workers
\* and operators do.
THEOREM TypeCorrect == Spec => []TypeOK
    <1>1. Init => TypeInv
        BY InitTypes
    <1>2. TypeInv /\ [Next]_vars => TypeInv'
        BY NextTypes
    <1>3. TypeInv => TypeOK
        BY DEF TypeInv, TypeOK, EvidenceType, RegistryType, PendingType, SessionType
    <1> QED
        BY <1>1, <1>2, <1>3, PTL DEF Spec

----------------------------------------------------------------------------
(* Requests.  NoOrphanedRequest and BusyWorkerHasWaiter are each inductive *)
(* over the types; what a client is answered needs two facts more about    *)
(* the slots.                                                              *)

\* A session is released by ReleaseSession only, and by its own.
LEMMA ReleasedByRelease ==
    ASSUME TypeInv, [Next]_vars, NEW s \in Session,
           thread'[s].pc = "released", thread[s].pc # "released"
    PROVE  ReleaseSession(s)
    <1> USE DEF TypeInv, SessionType
    <1>1. ASSUME NEW u \in Session, NEW b \in Boot, Connect(u, b)  PROVE FALSE
        BY <1>1, PlainTypes DEF Connect
    <1>2. ASSUME NEW u \in Session, SessionStep(u), ~ReleaseSession(u)
          PROVE  u = s => thread'[u].pc # "released"
        <2>1. thread' = [thread EXCEPT ![u] = thread'[u]]
            BY <1>2, SessionStepShape
        <2> QED
            BY <1>2, PlainTypes
            DEF SessionStep, HandshakeRead, HandshakeCheck, HandshakeRegister,
                PublicationRead, PublicationValidate, PublicationFulfil, EndSession
    <1>3. ASSUME NEW u \in Session, SessionStep(u)  PROVE u = s
        BY <1>3, SessionStepShape
    <1>4. PICK u \in Session : SessionStep(u)
        BY <1>1, ThreadWriters
    <1> QED
        BY <1>2, <1>3, <1>4

\* Fulfilling a slot and failing the outstanding request of a lost worker
\* make one slot ready and leave the others alone.
LEMMA SlotsBecomeReady ==
    ASSUME TypeInv, NEW s \in Session, PublicationFulfil(s) \/ ReleaseSession(s)
    PROVE  /\ DOMAIN pending' = DOMAIN pending
           /\ UNCHANGED <<outstanding, client>>
           /\ \A r \in DOMAIN pending :
                  \/ pending'[r] = pending[r]
                  \/ /\ Unready(r) /\ pending'[r].ready
                     /\ \/ pending'[r].status = "UNKNOWN_WORKER"
                        \/ thread[s].pc = "decided" /\ pending'[r].status = thread[s].status
           /\ ReleaseSession(s) /\ outstanding[s] \in DOMAIN pending =>
                  pending'[outstanding[s]].ready
    <1> USE DEF TypeInv, PendingType
    <1>1. ASSUME NEW q, NEW w,
                 pending' = IF Unready(q)
                            THEN [pending EXCEPT ![q].ready = TRUE, ![q].status = w]
                            ELSE pending
          PROVE  /\ DOMAIN pending' = DOMAIN pending
                 /\ \A r \in DOMAIN pending :
                        \/ pending'[r] = pending[r]
                        \/ Unready(r) /\ pending'[r].ready /\ pending'[r].status = w
                 /\ q \in DOMAIN pending => pending'[q].ready
        <2>1. \A r \in DOMAIN pending : pending[r] \in Slot
            OBVIOUS
        <2>2. CASE ~Unready(q)
            BY <1>1, <2>1, <2>2 DEF Unready
        <2>3. CASE Unready(q)
            <3>1. q \in DOMAIN pending /\ pending[q] \in Slot
                BY <2>1, <2>3 DEF Unready
            <3>2. pending' = [pending EXCEPT ![q].ready = TRUE, ![q].status = w]
                BY <1>1, <2>3
            <3>3. pending'[q].ready = TRUE /\ pending'[q].status = w
                BY <3>1, <3>2 DEF Slot
            <3>4. /\ DOMAIN pending' = DOMAIN pending
                  /\ \A r \in DOMAIN pending \ {q} : pending'[r] = pending[r]
                BY <3>2
            <3> QED
                BY <2>3, <3>1, <3>3, <3>4
        <2> QED
            BY <2>2, <2>3
    <1>2. CASE PublicationFulfil(s)
        <2> DEFINE q == thread[s].request
                   w == thread[s].status
        <2>1. /\ thread[s].pc = "decided"
              /\ pending' = IF Unready(q)
                            THEN [pending EXCEPT ![q].ready = TRUE, ![q].status = w]
                            ELSE pending
              /\ UNCHANGED <<outstanding, client>>
            BY <1>2 DEF PublicationFulfil
        <2>2. ~ReleaseSession(s)
            BY <2>1 DEF ReleaseSession
        <2> HIDE DEF q, w
        <2>3. /\ DOMAIN pending' = DOMAIN pending
              /\ \A r \in DOMAIN pending :
                     \/ pending'[r] = pending[r]
                     \/ Unready(r) /\ pending'[r].ready /\ pending'[r].status = w
            BY <1>1, <2>1
        <2> QED
            BY <2>1, <2>2, <2>3 DEF w
    <1>3. CASE ReleaseSession(s)
        <2> DEFINE q == outstanding[s]
        <2>1. /\ pending' = IF Unready(q)
                            THEN [pending EXCEPT ![q].ready = TRUE,
                                                 ![q].status = "UNKNOWN_WORKER"]
                            ELSE pending
              /\ UNCHANGED <<outstanding, client>>
            BY <1>3 DEF ReleaseSession, FailOutstanding
        <2> HIDE DEF q
        <2>2. /\ DOMAIN pending' = DOMAIN pending
              /\ \A r \in DOMAIN pending :
                     \/ pending'[r] = pending[r]
                     \/ Unready(r) /\ pending'[r].ready
                        /\ pending'[r].status = "UNKNOWN_WORKER"
              /\ q \in DOMAIN pending => pending'[q].ready
            BY <1>1, <2>1
        <2> QED
            BY <2>1, <2>2 DEF q
    <1> QED
        BY <1>2, <1>3

\* The loss of a session fails the request it carries, so no step leaves a
\* waiting request without a live session.
LEMMA NextOrphan ==
    ASSUME TypeInv, NoOrphanedRequest, [Next]_vars
    PROVE  NoOrphanedRequest'
    <1> USE DEF TypeInv, SessionType, PendingType
    <1> SUFFICES ASSUME NEW r \in Request, r \in DOMAIN pending', ~pending'[r].ready
                 PROVE  \E s \in Session : outstanding'[s] = r /\ thread'[s].pc # "released"
        BY DEF NoOrphanedRequest, Unready
    <1>1. ASSUME Unready(r), \A s \in Session : outstanding[s] = r => outstanding'[s] = r
          PROVE  \E s \in Session : outstanding'[s] = r /\ thread'[s].pc # "released"
        <2>1. PICK s \in Session : outstanding[s] = r /\ thread[s].pc # "released"
            BY <1>1 DEF NoOrphanedRequest
        <2>2. ~ReleaseSession(s)
            BY <1>1, <2>1, SlotsBecomeReady DEF Unready
        <2> QED
            BY <1>1, <2>1, <2>2, ReleasedByRelease
    <1>2. CASE UNCHANGED <<pending, outstanding, client>>
        BY <1>1, <1>2 DEF Unready
    <1>3. ASSUME NEW s \in Session, PublicationFulfil(s) \/ ReleaseSession(s)
          PROVE  \E u \in Session : outstanding'[u] = r /\ thread'[u].pc # "released"
        BY <1>1, <1>3, SlotsBecomeReady DEF Unready
    <1>4. ASSUME NEW c \in Client, NEW q \in Request, Dispatch(c, q)
          PROVE  \E u \in Session : outstanding'[u] = r /\ thread'[u].pc # "released"
        <2>1. CASE \E s \in Session : Available(s)
            <3> DEFINE s == FirstAvailable
            <3>1. /\ pending' = Put(pending, q, [ready |-> FALSE, status |-> "INTERNAL"])
                  /\ outstanding' = [outstanding EXCEPT ![s] = q]
                  /\ UNCHANGED thread
                BY <1>4, <2>1 DEF Dispatch
            <3>2. s \in Session /\ thread[s].pc # "released" /\ outstanding[s] = NoRequest
                BY <2>1, FirstAvailableIs DEF Available
            <3> HIDE DEF s
            <3>3. CASE r = q
                BY <3>1, <3>2, <3>3
            <3>4. CASE r # q
                <4>1. Unready(r)
                    BY <3>1, <3>4 DEF Unready, Put
                <4>2. \A u \in Session : outstanding[u] = r => outstanding'[u] = r
                    BY <3>1, <3>2, BootAssumption
                <4> QED
                    BY <1>1, <4>1, <4>2
            <3> QED
                BY <3>3, <3>4
        <2>2. CASE ~\E s \in Session : Available(s)
            <3>1. /\ pending' = Put(pending, q, [ready |-> TRUE,
                                                 status |-> "NO_WORKER_AVAILABLE"])
                  /\ UNCHANGED outstanding
                BY <1>4, <2>2 DEF Dispatch
            <3>2. Unready(r)
                BY <3>1 DEF Unready, Put
            <3> QED
                BY <1>1, <3>1, <3>2
        <2> QED
            BY <2>1, <2>2
    <1>5. ASSUME NEW c \in Client, Relay(c)
          PROVE  \E u \in Session : outstanding'[u] = r /\ thread'[u].pc # "released"
        <2>1. /\ UNCHANGED outstanding
              /\ \/ UNCHANGED pending
                 \/ pending' = Put(pending, client[c].request,
                                   [ready |-> TRUE, status |-> "NO_WORKER_AVAILABLE"])
            BY <1>5 DEF Relay, session
        <2>2. Unready(r)
            BY <2>1 DEF Unready, Put
        <2> QED
            BY <1>1, <2>1, <2>2
    <1>6. ASSUME NEW c \in Client, Resolve(c)
          PROVE  \E u \in Session : outstanding'[u] = r /\ thread'[u].pc # "released"
        <2>1. /\ pending' = Erase(pending, {client[c].request})
              /\ outstanding' = Freed(client[c].request)
            BY <1>6 DEF Resolve
        <2>2. Unready(r) /\ r # client[c].request
            BY <2>1 DEF Unready, Erase
        <2> QED
            BY <1>1, <2>1, <2>2 DEF Freed
    <1>7. ASSUME NEW c \in Client, EndClient(c)
          PROVE  \E u \in Session : outstanding'[u] = r /\ thread'[u].pc # "released"
        BY <1>1, <1>7 DEF EndClient, session, Unready
    <1>8. CASE StopJoined
        BY <1>8 DEF StopJoined
    <1> QED
        BY <1>2, <1>3, <1>4, <1>5, <1>6, <1>7, <1>8, PendingWriters

\* A busy session's request is held by a client thread until that thread
\* frees every session that carries it.
LEMMA NextBusy ==
    ASSUME TypeInv, BusyWorkerHasWaiter, [Next]_vars
    PROVE  BusyWorkerHasWaiter'
    <1> USE DEF TypeInv, SessionType, ClientType
    <1> DEFINE waits(c, r) == client[c].pc \in {"relaying", "waiting"} /\ client[c].request = r
               waits1(c, r) == client'[c].pc \in {"relaying", "waiting"} /\ client'[c].request = r
    <1> SUFFICES ASSUME NEW s \in Session, outstanding'[s] # NoRequest
                 PROVE  \E c \in Client : waits1(c, outstanding'[s])
        BY DEF BusyWorkerHasWaiter
    <1>0. outstanding[s] # NoRequest => \E c \in Client : waits(c, outstanding[s])
        BY DEF BusyWorkerHasWaiter
    <1>1. CASE UNCHANGED <<outstanding, client>>
        BY <1>0, <1>1
    <1>2. ASSUME NEW c \in Client, NEW q \in Request, Dispatch(c, q)
          PROVE  \E d \in Client : waits1(d, outstanding'[s])
        <2>1. /\ client[c].pc = "reading" /\ waits1(c, q)
              /\ \A d \in Client \ {c} : client'[d] = client[d]
              /\ outstanding'[s] \in {outstanding[s], q}
            <3>1. CASE \E u \in Session : Available(u)
                <4>1. /\ client[c].pc = "reading"
                      /\ outstanding' = [outstanding EXCEPT ![FirstAvailable] = q]
                      /\ client' = [client EXCEPT ![c] =
                             [pc |-> "relaying", request |-> q,
                              worker |-> FirstAvailable, epoch |-> epoch]]
                    BY <1>2, <3>1 DEF Dispatch
                <4> QED
                    BY <4>1
            <3>2. CASE ~\E u \in Session : Available(u)
                BY <1>2, <3>2 DEF Dispatch
            <3> QED
                BY <3>1, <3>2
        <2>2. CASE outstanding'[s] = q
            BY <2>1, <2>2
        <2>3. CASE outstanding'[s] = outstanding[s]
            BY <1>0, <2>1, <2>3
        <2> QED
            BY <2>1, <2>2, <2>3
    <1>3. ASSUME NEW c \in Client, Relay(c)
          PROVE  \E d \in Client : waits1(d, outstanding'[s])
        <2>1. /\ UNCHANGED outstanding
              /\ waits1(c, client[c].request)
              /\ \A d \in Client \ {c} : client'[d] = client[d]
            BY <1>3 DEF Relay, session
        <2> QED
            BY <1>0, <2>1
    <1>4. ASSUME NEW c \in Client, Resolve(c)
          PROVE  \E d \in Client : waits1(d, outstanding'[s])
        <2>1. /\ outstanding' = Freed(client[c].request)
              /\ \A d \in Client \ {c} : client'[d] = client[d]
            BY <1>4 DEF Resolve
        <2>2. outstanding'[s] = outstanding[s] /\ outstanding[s] # client[c].request
            BY <2>1 DEF Freed
        <2> QED
            BY <1>0, <2>1, <2>2
    <1>5. ASSUME NEW c \in Client, EndClient(c)
          PROVE  \E d \in Client : waits1(d, outstanding'[s])
        <2>1. /\ UNCHANGED outstanding /\ client[c].pc = "reading"
              /\ \A d \in Client \ {c} : client'[d] = client[d]
            BY <1>5 DEF EndClient, session
        <2> QED
            BY <1>0, <2>1
    <1>6. \/ UNCHANGED <<outstanding, client>>
          \/ \E c \in Client, r \in Request : Dispatch(c, r)
          \/ \E c \in Client : Relay(c) \/ Resolve(c) \/ EndClient(c)
        BY PendingWriters DEF PublicationFulfil, ReleaseSession, StopJoined, session
    <1> QED
        BY <1>1, <1>2, <1>3, <1>4, <1>5, <1>6

\* With any number of sessions and clients, and also when clients share
\* request identities: a request that is still waiting is carried by a
\* session that is not released, so the end of that session will fail it.
THEOREM NoRequestOrphaned == Spec => []NoOrphanedRequest
    <1>1. Init => TypeInv /\ NoOrphanedRequest
        BY InitTypes DEF Init, NoOrphanedRequest, Unready
    <1>2. TypeInv /\ NoOrphanedRequest /\ [Next]_vars
              => TypeInv' /\ NoOrphanedRequest'
        BY NextTypes, NextOrphan
    <1> QED
        BY <1>1, <1>2, PTL DEF Spec

\* A worker counted busy has a client thread that will free it: no request
\* that timed out keeps a worker out of the schedule.
THEOREM BusyWorkerIsWaitedFor == Spec => []BusyWorkerHasWaiter
    <1>1. Init => TypeInv /\ BusyWorkerHasWaiter
        BY InitTypes DEF Init, BusyWorkerHasWaiter
    <1>2. TypeInv /\ BusyWorkerHasWaiter /\ [Next]_vars
              => TypeInv' /\ BusyWorkerHasWaiter'
        BY NextTypes, NextBusy
    <1> QED
        BY <1>1, <1>2, PTL DEF Spec

----------------------------------------------------------------------------
(* Fencing.  The three facts are proved together: a boot whose             *)
(* registration is taken away is fenced because every registration has a   *)
(* keyed session, which holds because only the end of a handshake keys one.*)

\* A session takes its boot key when its handshake registers it, not before.
HelloUnkeyed ==
    \A s \in Session :
        thread[s].pc \in {"free", "open", "hello_read", "hello_ok"} =>
            boot_key[s] = NoBoot

\* A boot that lost its registration is fenced.
RevokedFenced == revoked \subseteq fenced_boots

\* A publication read after that comes from a fenced boot and is decided
\* against.
LateRefused ==
    \A s \in Session :
        /\ thread[s].pc = "arrived" /\ thread[s].late => peer[s] \in fenced_boots
        /\ thread[s].pc = "decided" /\ thread[s].late => thread[s].status # "OK"

FenceInv ==
    TypeInv /\ HelloUnkeyed /\ RegisteredHasSession /\ RevokedFenced /\ LateRefused

\* Where the thread of a session is after its step.
LEMMA SessionStepMoves ==
    ASSUME TypeInv, NEW s \in Session, SessionStep(s)
    PROVE  /\ \A u \in Session \ {s} : thread'[u] = thread[u]
           /\ thread'[s].pc \in {"hello_read", "hello_ok"} =>
                  /\ thread[s].pc \in {"open", "hello_read"}
                  /\ UNCHANGED boot_key
           /\ thread'[s].pc \notin {"free", "open"}
           /\ thread'[s].pc = "arrived" => PublicationRead(s)
           /\ thread'[s].pc = "decided" => PublicationValidate(s)
    <1>1. thread \in [Session -> ThreadState]
        BY DEF TypeInv, SessionType
    <1>2. \A u \in Session \ {s} : thread'[u] = thread[u]
        BY <1>1, SessionStepShape
    <1>3. CASE HandshakeRead(s)
        BY <1>1, <1>2, <1>3 DEF HandshakeRead
    <1>4. CASE HandshakeCheck(s)
        BY <1>1, <1>2, <1>4 DEF HandshakeCheck, At
    <1>5. CASE HandshakeRegister(s)
        BY <1>1, <1>2, <1>5, PlainTypes DEF HandshakeRegister
    <1>6. CASE PublicationRead(s)
        BY <1>1, <1>2, <1>6 DEF PublicationRead
    <1>7. CASE PublicationValidate(s)
        BY <1>1, <1>2, <1>7 DEF PublicationValidate
    <1>8. CASE PublicationFulfil(s)
        BY <1>1, <1>2, <1>8, PlainTypes DEF PublicationFulfil
    <1>9. CASE EndSession(s)
        BY <1>1, <1>2, <1>9 DEF EndSession, At
    <1>10. CASE ReleaseSession(s)
        BY <1>1, <1>2, <1>10 DEF ReleaseSession, At
    <1> QED
        BY <1>3, <1>4, <1>5, <1>6, <1>7, <1>8, <1>9, <1>10 DEF SessionStep

\* A handshake registers a session that had no key, so no other registration
\* loses the session it counts on.
LEMMA NextUnkeyed ==
    ASSUME FenceInv, [Next]_vars
    PROVE  HelloUnkeyed'
    <1> USE DEF FenceInv, TypeInv, SessionType
    <1>1. CASE UNCHANGED <<thread, peer, boot_key>>
        BY <1>1 DEF HelloUnkeyed
    <1>2. ASSUME NEW s \in Session, NEW b \in Boot, Connect(s, b)  PROVE HelloUnkeyed'
        BY <1>2 DEF HelloUnkeyed, Connect
    <1>3. ASSUME NEW s \in Session, SessionStep(s)  PROVE HelloUnkeyed'
        <2>1. \A u \in Session \ {s} : thread'[u] = thread[u] /\ boot_key'[u] = boot_key[u]
            BY <1>3, SessionStepMoves, SessionStepShape DEF HandshakeRegister
        <2>2. thread'[s].pc \in {"free", "open", "hello_read", "hello_ok"} =>
                  boot_key'[s] = NoBoot
            BY <1>3, SessionStepMoves DEF HelloUnkeyed
        <2> QED
            BY <2>1, <2>2 DEF HelloUnkeyed
    <1> QED
        BY <1>1, <1>2, <1>3, ThreadWriters

\* Every step keeps each registration at an open session of its worker.
LEMMA NextRegistered ==
    ASSUME FenceInv, [Next]_vars
    PROVE  RegisteredHasSession'
    <1> USE DEF FenceInv, TypeInv, SessionType, RegistryType
    <1> SUFFICES ASSUME NEW b \in DOMAIN workers'
                 PROVE  \E s \in Session : boot_key'[s] = b /\ thread'[s].pc # "released"
        BY DEF RegisteredHasSession
    <1>1. ASSUME b \in DOMAIN workers,
                 \A s \in Session : ReleaseSession(s) => b # boot_key[s]
          PROVE  \E s \in Session : boot_key'[s] = b /\ thread'[s].pc # "released"
        <2>1. PICK s \in Session : boot_key[s] = b /\ thread[s].pc # "released"
            BY <1>1 DEF RegisteredHasSession
        <2>2. b # NoBoot
            BY <1>1, BootAssumption
        <2>3. boot_key'[s] = boot_key[s]
            <3>1. ASSUME NEW u \in Session, HandshakeRegister(u)  PROVE u # s
                BY <2>1, <2>2, <3>1 DEF HandshakeRegister, HelloUnkeyed
            <3>2. UNCHANGED boot_key \/ \E u \in Session : HandshakeRegister(u)
                BY ThreadWriters, SessionStepShape DEF Connect
            <3> QED
                BY <3>1, <3>2 DEF HandshakeRegister
        <2>4. thread'[s].pc # "released"
            BY <1>1, <2>1, ReleasedByRelease
        <2> QED
            BY <2>1, <2>3, <2>4
    <1>2. ASSUME NEW s \in Session, HandshakeRegister(s)
          PROVE  \E u \in Session : boot_key'[u] = b /\ thread'[u].pc # "released"
        <2>1. CASE b = peer[s]
            <3>1. boot_key'[s] = b /\ thread'[s] = LoopOrEnd
                BY <1>2, <2>1 DEF HandshakeRegister
            <3> QED
                BY <3>1, PlainTypes
        <2>2. CASE b # peer[s]
            <3>1. b \in DOMAIN workers
                BY <1>2, <2>2 DEF HandshakeRegister, Put
            <3>2. ASSUME NEW u \in Session, ReleaseSession(u)  PROVE FALSE
                <4>1. thread[u].pc = "ended" /\ thread'[u] = At("released")
                    BY <3>2 DEF ReleaseSession
                <4>2. thread[s].pc = "hello_ok" /\ \A v \in Session \ {s} : thread'[v] = thread[v]
                    BY <1>2 DEF HandshakeRegister
                <4> QED
                    BY <4>1, <4>2, PlainTypes
            <3> QED
                BY <1>1, <3>1, <3>2
        <2> QED
            BY <2>1, <2>2
    <1>3. CASE ~\E s \in Session : HandshakeRegister(s)
        <2>1. DOMAIN workers' \subseteq DOMAIN workers
            <3>1. ASSUME NEW s \in Session, ReleaseSession(s)
                  PROVE  DOMAIN workers' \subseteq DOMAIN workers
                BY <3>1 DEF ReleaseSession, Unregister, Erase
            <3>2. ASSUME NEW e \in 1..MaxEpoch, AdvanceEpoch(e)
                  PROVE  DOMAIN workers' \subseteq DOMAIN workers
                BY <3>2 DEF AdvanceEpoch, Erase
            <3>3. ASSUME NEW d \in Boot, FenceWorker(d)
                  PROVE  DOMAIN workers' \subseteq DOMAIN workers
                BY <3>3 DEF FenceWorker
            <3>4. CASE StopJoined
                <4>1. workers' = <<>>
                    BY <3>4 DEF StopJoined
                <4> QED
                    BY <4>1
            <3> QED
                BY <1>3, <3>1, <3>2, <3>3, <3>4, RegistryWriters
        <2>2. \A u \in Session : ReleaseSession(u) => b # boot_key[u]
            BY <2>1, BootAssumption DEF ReleaseSession, Unregister, Erase, Lost
        <2> QED
            BY <1>1, <2>1, <2>2
    <1> QED
        BY <1>2, <1>3

\* An epoch advance fences every registered boot because each has a session.
LEMMA NextRevoked ==
    ASSUME FenceInv, [Next]_vars
    PROVE  RevokedFenced' /\ fenced_boots \subseteq fenced_boots'
    <1> USE DEF FenceInv, RevokedFenced
    <1>1. CASE UNCHANGED <<workers, fenced_boots, revoked>>
        BY <1>1
    <1>2. ASSUME NEW s \in Session, HandshakeRegister(s)
          PROVE  RevokedFenced' /\ fenced_boots \subseteq fenced_boots'
        BY <1>2 DEF HandshakeRegister, history
    <1>3. ASSUME NEW s \in Session, ReleaseSession(s)
          PROVE  RevokedFenced' /\ fenced_boots \subseteq fenced_boots'
        BY <1>3 DEF ReleaseSession
    <1>4. ASSUME NEW e \in 1..MaxEpoch, AdvanceEpoch(e)
          PROVE  RevokedFenced' /\ fenced_boots \subseteq fenced_boots'
        <2> DEFINE roles == {s \in Session : boot_key[s] # NoBoot}
        <2>1. /\ fenced_boots' = fenced_boots \cup {boot_key[s] : s \in roles}
              /\ revoked' = revoked \cup DOMAIN workers
            BY <1>4 DEF AdvanceEpoch
        <2>2. DOMAIN workers \subseteq {boot_key[s] : s \in roles}
            BY BootAssumption DEF RegisteredHasSession, TypeInv, RegistryType
        <2> QED
            BY <2>1, <2>2
    <1>5. ASSUME NEW b \in Boot, FenceWorker(b)
          PROVE  RevokedFenced' /\ fenced_boots \subseteq fenced_boots'
        BY <1>5 DEF FenceWorker
    <1>6. CASE StopJoined
        BY <1>6 DEF StopJoined, history
    <1> QED
        BY <1>1, <1>2, <1>3, <1>4, <1>5, <1>6, RegistryWriters

\* Between the read of a publication and its decision the boot stays fenced.
LEMMA NextLate ==
    ASSUME FenceInv, [Next]_vars
    PROVE  LateRefused'
    <1> USE DEF FenceInv, TypeInv, SessionType, LateRefused
    <1>0. fenced_boots \subseteq fenced_boots'
        BY NextRevoked
    <1>1. CASE UNCHANGED <<thread, peer, boot_key>>
        BY <1>0, <1>1
    <1>2. ASSUME NEW s \in Session, NEW b \in Boot, Connect(s, b)  PROVE LateRefused'
        BY <1>0, <1>2 DEF Connect, At
    <1>3. ASSUME NEW s \in Session, SessionStep(s)  PROVE LateRefused'
        <2>1. /\ \A u \in Session \ {s} : thread'[u] = thread[u]
              /\ UNCHANGED peer
            BY <1>3, SessionStepMoves, SessionStepShape
        <2>2. ASSUME thread'[s].pc = "arrived", thread'[s].late
              PROVE  peer'[s] \in fenced_boots'
            <3>1. PublicationRead(s)
                BY <1>3, <2>2, SessionStepMoves
            <3>2. thread'[s].late = (peer[s] \in revoked)
                BY <3>1 DEF PublicationRead
            <3> QED
                BY <1>0, <2>1, <2>2, <3>2 DEF RevokedFenced
        <2>3. ASSUME thread'[s].pc = "decided", thread'[s].late
              PROVE  thread'[s].status # "OK"
            <3>1. PublicationValidate(s)
                BY <1>3, <2>3, SessionStepMoves
            <3>2. /\ thread[s].pc = "arrived"
                  /\ thread'[s].late = thread[s].late
                  /\ thread'[s].status = ValidatePublication(peer[s], thread[s])
                BY <3>1 DEF PublicationValidate
            <3> QED
                BY <2>3, <3>2 DEF ValidatePublication
        <2> QED
            BY <1>0, <2>1, <2>2, <2>3
    <1> QED
        BY <1>1, <1>2, <1>3, ThreadWriters

\* The fencing invariant holds in every reachable state.
LEMMA FenceInvariant == Spec => []FenceInv
    <1>1. Init => FenceInv
        <2> SUFFICES ASSUME Init  PROVE FenceInv
            OBVIOUS
        <2>1. HelloUnkeyed /\ RevokedFenced
            BY DEF Init, HelloUnkeyed, RevokedFenced
        <2>2. RegisteredHasSession
            BY DEF Init, RegisteredHasSession
        <2>3. LateRefused
            BY DEF Init, LateRefused, At
        <2> QED
            BY <2>1, <2>2, <2>3, InitTypes DEF FenceInv
    <1>2. FenceInv /\ [Next]_vars => FenceInv'
        BY NextTypes, NextUnkeyed, NextRegistered, NextRevoked, NextLate DEF FenceInv
    <1> QED
        BY <1>1, <1>2, PTL DEF Spec

\* Every registered boot has a session that is not released, so a fence finds
\* its socket and the end of the session removes the registration.
THEOREM RegistrationHasSession == Spec => []RegisteredHasSession
    <1>1. FenceInv => RegisteredHasSession
        BY DEF FenceInv
    <1> QED
        BY <1>1, FenceInvariant, PTL

\* A result read after its boot lost the registration is never handed to a
\* waiting client, also when the same boot registered again in between.
THEOREM LateResultRefused == Spec => RevokedNeverAccepted
    <1>1. FenceInv /\ [Next]_vars =>
              [\A s \in Session : Accepts(s) => ~thread[s].late]_vars
        BY DEF FenceInv, LateRefused, Accepts
    <1> QED
        BY <1>1, FenceInvariant, PTL DEF Spec, RevokedNeverAccepted

----------------------------------------------------------------------------
(* What a client is answered.                                              *)

Asking(c) == client[c].pc \in {"relaying", "waiting"}

\* A client asks under its own identities, its slot is there if nobody else
\* uses them, and no result is ever decided or recorded as INTERNAL.
SlotInv ==
    /\ TypeInv
    /\ \A c \in Client : Asking(c) => client[c].request \in ClientRequests[c]
    /\ \A c \in Client : Asking(c) /\ Exclusive(c) => client[c].request \in DOMAIN pending
    /\ \A r \in DOMAIN pending : pending[r].ready => pending[r].status # "INTERNAL"
    /\ \A s \in Session : thread[s].pc = "decided" => thread[s].status # "INTERNAL"

\* No decision is INTERNAL.
LEMMA NextDecided ==
    ASSUME SlotInv, [Next]_vars
    PROVE  \A s \in Session : thread'[s].pc = "decided" => thread'[s].status # "INTERNAL"
    <1> USE DEF SlotInv, TypeInv, SessionType
    <1> DEFINE goal == \A s \in Session :
                          thread'[s].pc = "decided" => thread'[s].status # "INTERNAL"
    <1>1. CASE UNCHANGED <<thread, peer, boot_key>>
        BY <1>1
    <1>2. ASSUME NEW s \in Session, NEW b \in Boot, Connect(s, b)  PROVE goal
        BY <1>2 DEF Connect, At
    <1>3. ASSUME NEW s \in Session, SessionStep(s)  PROVE goal
        <2>1. \A u \in Session \ {s} : thread'[u] = thread[u]
            BY <1>3, SessionStepMoves
        <2>2. ASSUME thread'[s].pc = "decided"  PROVE thread'[s].status # "INTERNAL"
            <3>1. PublicationValidate(s)
                BY <1>3, <2>2, SessionStepMoves
            <3>2. thread'[s].status = ValidatePublication(peer[s], thread[s])
                BY <3>1 DEF PublicationValidate
            <3> QED
                BY <3>2, ValidateType
        <2> QED
            BY <2>1, <2>2
    <1> QED
        BY <1>1, <1>2, <1>3, ThreadWriters

\* Only a client that shares an identity can erase another one's slot.
LEMMA NextSlots ==
    ASSUME SlotInv, [Next]_vars
    PROVE  SlotInv'
    <1> USE DEF SlotInv, TypeInv, PendingType, ClientType, Asking
    <1> DEFINE own   == \A c \in Client : Asking(c)' => client'[c].request \in ClientRequests[c]
               kept  == \A c \in Client : Asking(c)' /\ Exclusive(c) =>
                                             client'[c].request \in DOMAIN pending'
               ready == \A r \in DOMAIN pending' :
                            pending'[r].ready => pending'[r].status # "INTERNAL"
    <1>1. CASE UNCHANGED <<pending, outstanding, client>>
        <2>1. own /\ kept /\ ready
            BY <1>1
        <2> QED
            BY <2>1, NextTypes, NextDecided DEF Exclusive
    <1>2. ASSUME NEW s \in Session, PublicationFulfil(s) \/ ReleaseSession(s)
          PROVE  own /\ kept /\ ready
        BY <1>2, SlotsBecomeReady
    <1>3. ASSUME NEW c \in Client, NEW r \in Request, Dispatch(c, r)
          PROVE  own /\ kept /\ ready
        <2> DEFINE waiting == [ready |-> FALSE, status |-> "INTERNAL"]
                   refused == [ready |-> TRUE, status |-> "NO_WORKER_AVAILABLE"]
        <2>1. /\ r \in ClientRequests[c]
              /\ client'[c].request = r
              /\ \A d \in Client \ {c} : client'[d] = client[d]
              /\ \E v \in {waiting, refused} : pending' = Put(pending, r, v)
            <3>1. CASE \E u \in Session : Available(u)
                <4>1. /\ r \in ClientRequests[c]
                      /\ pending' = Put(pending, r, waiting)
                      /\ client' = [client EXCEPT ![c] =
                             [pc |-> "relaying", request |-> r,
                              worker |-> FirstAvailable, epoch |-> epoch]]
                    BY <1>3, <3>1 DEF Dispatch
                <4> HIDE DEF waiting, refused
                <4> QED
                    BY <4>1
            <3>2. CASE ~\E u \in Session : Available(u)
                BY <1>3, <3>2 DEF Dispatch
            <3> QED
                BY <3>1, <3>2
        <2>2. PICK v : /\ pending' = Put(pending, r, v)
                       /\ v.ready => v.status # "INTERNAL"
            <3>1. ~waiting.ready /\ refused.status # "INTERNAL"
                OBVIOUS
            <3> HIDE DEF waiting, refused
            <3> QED
                BY <2>1, <3>1
        <2>3. /\ DOMAIN pending' = DOMAIN pending \cup {r}
              /\ \A q \in DOMAIN pending' : pending'[q] = IF q = r THEN v ELSE pending[q]
            BY <2>2 DEF Put
        <2> QED
            BY <2>1, <2>2, <2>3
    <1>4. ASSUME NEW c \in Client, Relay(c)
          PROVE  own /\ kept /\ ready
        <2>1. /\ Asking(c) /\ client'[c].request = client[c].request
              /\ \A d \in Client \ {c} : client'[d] = client[d]
            BY <1>4 DEF Relay
        <2>2. \/ UNCHANGED pending
              \/ pending' = Put(pending, client[c].request,
                                [ready |-> TRUE, status |-> "NO_WORKER_AVAILABLE"])
            BY <1>4 DEF Relay
        <2>3. DOMAIN pending \subseteq DOMAIN pending' /\ ready
            BY <2>2 DEF Put
        <2> QED
            BY <2>1, <2>3
    <1>5. ASSUME NEW c \in Client, Resolve(c)
          PROVE  own /\ kept /\ ready
        <2>1. /\ Asking(c) /\ ~Asking(c)'
              /\ \A d \in Client \ {c} : client'[d] = client[d]
            BY <1>5 DEF Resolve, At
        <2>2. pending' = Erase(pending, {client[c].request})
            BY <1>5 DEF Resolve
        <2>3. /\ DOMAIN pending' = DOMAIN pending \ {client[c].request}
              /\ \A q \in DOMAIN pending' : pending'[q] = pending[q]
            BY <2>2 DEF Erase
        <2>4. \A d \in Client \ {c} : Exclusive(d) /\ Asking(d) =>
                                         client[d].request # client[c].request
            BY <2>1 DEF Exclusive
        <2> QED
            BY <2>1, <2>3, <2>4
    <1>6. ASSUME NEW c \in Client, EndClient(c)
          PROVE  own /\ kept /\ ready
        BY <1>6 DEF EndClient, At
    <1>7. CASE StopJoined
        <2>1. /\ \A c \in Client : client[c].pc = "ended"
              /\ UNCHANGED client /\ pending' = <<>>
            BY <1>7 DEF StopJoined, Joined
        <2> QED
            BY <2>1, NextTypes, NextDecided
    <1>8. ASSUME own, kept, ready  PROVE SlotInv'
        BY <1>8, NextTypes, NextDecided DEF Exclusive
    <1> QED
        BY <1>1, <1>2, <1>3, <1>4, <1>5, <1>6, <1>7, <1>8, PendingWriters

\* The slots' invariant holds in every reachable state.
LEMMA SlotInvariant == Spec => []SlotInv
    <1>1. Init => SlotInv
        <2> SUFFICES ASSUME Init  PROVE SlotInv
            OBVIOUS
        <2>1. /\ \A c \in Client : ~Asking(c)
              /\ \A s \in Session : thread[s].pc # "decided"
              /\ pending = <<>>
            BY DEF Init, Asking, At
        <2> QED
            BY <2>1, InitTypes DEF SlotInv
    <1>2. SlotInv /\ [Next]_vars => SlotInv'
        BY NextSlots
    <1> QED
        BY <1>1, <1>2, PTL DEF Spec

\* A client that alone uses its request identities is always told what became
\* of its request: its slot outlives every timeout, loss and stop.
THEOREM DispatchStateIsKept == Spec => DispatchStateKept
    <1>1. SlotInv =>
              [\A c \in Client :
                  /\ Exclusive(c)
                  /\ client[c].pc = "waiting" /\ client'[c].pc # "waiting"
                  => Answer(client[c].request) # "INTERNAL"]_vars
        BY DEF SlotInv, Asking, Answer
    <1> QED
        BY <1>1, SlotInvariant, PTL DEF DispatchStateKept

----------------------------------------------------------------------------
(* The condition variable.                                                 *)

\* A thread asleep is inside its wait, and sleeps only on an unready slot.
SleepInv ==
    /\ \A c \in asleep : client[c].pc = "waiting"
    /\ NoMissedWakeup

\* Only steps that notify make the slot of a sleeping client ready.
LEMMA NextSleep ==
    ASSUME SlotInv, SleepInv, [Next]_vars
    PROVE  SleepInv'
    <1> USE DEF SlotInv, TypeInv, ClientType, Asking, SleepInv, NoMissedWakeup
    <1>0. asleep \subseteq Client /\ asleep' \subseteq Client
        BY NextTypes
    <1>1. CASE asleep' = {}
        BY <1>1
    <1>2. ASSUME \A c \in asleep' :
                     /\ c \in asleep /\ client'[c] = client[c]
                     /\ Exclusive(c) /\ Unready(client[c].request) =>
                            /\ client[c].request \in DOMAIN pending'
                            /\ pending'[client[c].request] = pending[client[c].request]
          PROVE  SleepInv'
        BY <1>2 DEF Unready, Exclusive
    <1>3. CASE UNCHANGED <<pending, client, asleep>>
        BY <1>2, <1>3 DEF Unready
    <1>4. ASSUME NEW c \in Client, WaitForSlot(c)  PROVE SleepInv'
        <2>1. /\ client[c].pc = "waiting" /\ Unready(client[c].request)
              /\ asleep' = asleep \cup {c}
              /\ UNCHANGED <<pending, client>>
            BY <1>4 DEF WaitForSlot
        <2> QED
            BY <2>1 DEF Unready, Exclusive
    \* A step for the request of one client leaves the others' slots alone.
    <1>5. ASSUME NEW c \in Client, c \notin asleep', asleep' \subseteq asleep,
                 NEW r \in ClientRequests[c], NEW v,
                 \A d \in Client \ {c} : client'[d] = client[d],
                 \/ UNCHANGED pending
                 \/ pending' = Put(pending, r, v)
                 \/ pending' = Erase(pending, {r})
          PROVE  SleepInv'
        <2>1. \A q \in DOMAIN pending \ {r} : q \in DOMAIN pending' /\ pending'[q] = pending[q]
            BY <1>5 DEF Put, Erase
        <2>2. \A d \in asleep' : Exclusive(d) => client[d].request # r
            BY <1>0, <1>5 DEF Exclusive
        <2> QED
            BY <1>0, <1>2, <1>5, <2>1, <2>2 DEF Unready
    <1>6. ASSUME NEW c \in Client, NEW r \in Request, Dispatch(c, r)  PROVE SleepInv'
        <2>1. /\ client[c].pc = "reading" /\ r \in ClientRequests[c]
              /\ UNCHANGED asleep
              /\ \A d \in Client \ {c} : client'[d] = client[d]
              /\ \E v : pending' = Put(pending, r, v)
            <3>1. CASE \E s \in Session : Available(s)
                <4> DEFINE v == [ready |-> FALSE, status |-> "INTERNAL"]
                           x == [pc |-> "relaying", request |-> r,
                                 worker |-> FirstAvailable, epoch |-> epoch]
                <4>1. /\ client[c].pc = "reading" /\ r \in ClientRequests[c]
                      /\ UNCHANGED asleep
                      /\ client' = [client EXCEPT ![c] = x]
                      /\ pending' = Put(pending, r, v)
                    BY <1>6, <3>1 DEF Dispatch
                <4> HIDE DEF v, x
                <4> QED
                    BY <4>1
            <3>2. CASE ~\E s \in Session : Available(s)
                <4> DEFINE v == [ready |-> TRUE, status |-> "NO_WORKER_AVAILABLE"]
                           x == [pc |-> "waiting", request |-> r]
                <4>1. /\ client[c].pc = "reading" /\ r \in ClientRequests[c]
                      /\ UNCHANGED asleep
                      /\ client' = [client EXCEPT ![c] = x]
                      /\ pending' = Put(pending, r, v)
                    BY <1>6, <3>2 DEF Dispatch
                <4> HIDE DEF v, x
                <4> QED
                    BY <4>1
            <3> QED
                BY <3>1, <3>2
        <2>2. c \notin asleep'
            BY <2>1
        <2> QED
            BY <1>5, <2>1, <2>2
    <1>7. ASSUME NEW c \in Client, Relay(c)  PROVE SleepInv'
        <2> DEFINE v == [ready |-> TRUE, status |-> "NO_WORKER_AVAILABLE"]
        <2>1. /\ client[c].pc = "relaying" /\ UNCHANGED asleep
              /\ \A d \in Client \ {c} : client'[d] = client[d]
              /\ UNCHANGED pending \/ pending' = Put(pending, client[c].request, v)
            BY <1>7 DEF Relay
        <2>2. c \notin asleep' /\ client[c].request \in ClientRequests[c]
            BY <2>1
        <2> HIDE DEF v
        <2> QED
            BY <1>5, <2>1, <2>2
    <1>8. ASSUME NEW c \in Client, Resolve(c)  PROVE SleepInv'
        <2>1. /\ client[c].pc = "waiting" /\ asleep' = asleep \ {c}
              /\ \A d \in Client \ {c} : client'[d] = client[d]
              /\ pending' = Erase(pending, {client[c].request})
            BY <1>8 DEF Resolve
        <2>2. c \notin asleep' /\ client[c].request \in ClientRequests[c]
            BY <2>1
        <2> QED
            BY <1>5, <2>1, <2>2
    <1>9. ASSUME NEW c \in Client, EndClient(c)  PROVE SleepInv'
        <2>1. /\ client[c].pc = "reading" /\ UNCHANGED <<asleep, pending>>
              /\ \A d \in Client \ {c} : client'[d] = client[d]
            BY <1>9 DEF EndClient
        <2> QED
            BY <1>2, <2>1
    <1>10. CASE StopJoined
        <2>1. UNCHANGED asleep /\ \A c \in Client : client[c].pc = "ended"
            BY <1>10 DEF StopJoined, Joined
        <2> QED
            BY <1>0, <1>1, <2>1
    <1>11. \A s \in Session : PublicationFulfil(s) \/ ReleaseSession(s) => asleep' = {}
        BY DEF PublicationFulfil, ReleaseSession, NotifyAll
    <1> QED
        BY <1>1, <1>3, <1>4, <1>6, <1>7, <1>8, <1>9, <1>10, <1>11,
           PendingWriters, AsleepWriters

\* A client that alone uses its request identities is asleep only while its
\* slot is there and unready: the result or the loss of the worker that ends
\* the wait also wakes it, in whatever order it and the wait come.
THEOREM NoWakeupMissed == Spec => []NoMissedWakeup
    <1>1. Init => SleepInv
        BY DEF Init, SleepInv, NoMissedWakeup
    <1>2. SlotInv /\ SleepInv /\ [Next]_vars => SleepInv'
        BY NextSleep
    <1>3. SleepInv => NoMissedWakeup
        BY DEF SleepInv
    <1> QED
        BY <1>1, <1>2, <1>3, SlotInvariant, PTL DEF Spec
============================================================================
