---------------------------- MODULE Coordinator ----------------------------
(***************************************************************************)
(* The distributed runtime's coordinator: one thread per session, a worker *)
(* registry, fenced boot identities and a table of pending requests, all   *)
(* under one mutex that the handlers release between their steps.  An      *)
(* action is one critical section with the unlocked code that follows it.  *)
(* Worker processes and the ordered byte streams to them are modelled as   *)
(* far as the coordinator sees them.                                       *)
(***************************************************************************)
EXTENDS Integers, Sequences

CONSTANTS
    Session,         \* worker sessions, numbered in accept order
    Client,          \* client sessions
    Boot,            \* worker boot identities
    NoBoot,          \* the empty boot key of a session
    Request,         \* planning request identities
    ClientRequests,  \* ClientRequests[c]: the identities client c uses
    NoRequest,       \* the empty outstanding request
    Snapshot,        \* snapshots the coordinator can publish
    WorkerSnapshot,  \* WorkerSnapshot[b]: the evidence boot b plans with
    SnapshotEpoch,   \* SnapshotEpoch[s]: the epoch generation of snapshot s
    InitialSnapshot, InitialEpoch,
    Administrators,  \* operator calls that occur: subset of Administration
    MaxEpoch,        \* bound: how far the epoch runs
    MaxQueue         \* bound: frames under way on a session when a new
                     \* request or notice is issued

Administration == {"advance_epoch", "publish_snapshot", "fence_worker", "stop"}

NoSnapshot == "nil snapshot"

WireStatus == {"OK", "WORKER_FENCED", "UNKNOWN_WORKER", "EPOCH_STALE",
               "SNAPSHOT_MISMATCH", "NO_WORKER_AVAILABLE",
               "RECEIVE_BOUND_EXCEEDED", "INTERNAL"}

ASSUME SessionAssumption == Session \subseteq Nat

ASSUME BootAssumption == NoBoot \notin Boot /\ NoRequest \notin Request

ASSUME RequestAssumption == ClientRequests \in [Client -> SUBSET Request]

ASSUME EvidenceAssumption ==
    /\ InitialSnapshot \in Snapshot
    /\ InitialEpoch \in Nat
    /\ NoSnapshot \notin Snapshot
    /\ WorkerSnapshot \in [Boot -> Snapshot]
    /\ SnapshotEpoch \in [Snapshot -> Nat]

VARIABLES
    epoch, snapshot,
    publishing,       \* a snapshot whose epoch is set and that is not yet in
                      \* the runtime, or NoSnapshot
    workers,          \* boot -> registration
    fenced_boots,
    pending,          \* request -> slot
    thread,           \* what each worker-session thread holds
    peer, boot_key, outstanding,
    client,           \* what each client-session thread holds
    asleep,           \* the client threads blocked on pending_cv
    proc,             \* the worker process at the other end of a session
    to_worker, to_coordinator,
    phase,            \* the running and stopping flags
    revoked,          \* history: boots whose registration was taken away
    advanced          \* history: the last epoch given to AdvanceEpoch

evidence == <<epoch, snapshot, publishing>>
registry == <<workers, fenced_boots>>
session == <<thread, peer, boot_key, outstanding>>
network == <<proc, to_worker, to_coordinator>>
history == <<revoked, advanced>>
vars == <<evidence, registry, pending, session, client, asleep, network, phase,
          history>>

----------------------------------------------------------------------------
(* Partial maps.                                                           *)

Put(map, key, value) ==
    [k \in DOMAIN map \cup {key} |-> IF k = key THEN value ELSE map[k]]

Erase(map, keys) == [k \in DOMAIN map \ keys |-> map[k]]

At(pc) == [pc |-> pc]

\* Frames for the workers of the sessions in S; a closed connection drops them.
SendAll(S, message) ==
    [s \in Session |->
        IF s \in S /\ proc[s].pc # "gone"
        THEN Append(to_worker[s], message) ELSE to_worker[s]]

Refuse == [type |-> "refuse"]

\* A session thread leaves its loop once the coordinator is stopping.
LoopOrEnd == IF phase = "running" THEN At("serving") ELSE At("ended")

----------------------------------------------------------------------------
(* AcceptLoop and the registration handshake.  HandleHandshake reads the   *)
(* coordinator's evidence, decides and registers under three separate      *)
(* locks.                                                                  *)

Connect(s, b) ==
    /\ phase = "running"
    /\ thread[s].pc = "free"
    /\ \A u \in Session : u < s => thread[u].pc # "free"
    /\ thread' = [thread EXCEPT ![s] = At("open")]
    /\ peer' = [peer EXCEPT ![s] = b]
    /\ proc' = [proc EXCEPT ![s] = [pc |-> "greeting", epoch |-> 0]]
    /\ UNCHANGED <<evidence, registry, pending, boot_key, outstanding, client,
                   asleep, to_worker, to_coordinator, phase, history>>

HandshakeRead(s) ==
    /\ thread[s].pc = "open"
    /\ thread' = [thread EXCEPT ![s] =
           [pc |-> "hello_read", epoch |-> epoch, snapshot |-> snapshot]]
    /\ UNCHANGED <<evidence, registry, pending, peer, boot_key, outstanding,
                   client, asleep, network, phase, history>>

\* The acceptance decision for the hello of boot b.
Acceptance(b, h) ==
    IF b \in fenced_boots                                 THEN "WORKER_FENCED"
    ELSE IF SnapshotEpoch[WorkerSnapshot[b]] # h.epoch    THEN "EPOCH_STALE"
    ELSE IF WorkerSnapshot[b] # h.snapshot                THEN "SNAPSHOT_MISMATCH"
    ELSE "OK"

\* A refused session ends: its loop breaks when no role was assigned.
HandshakeCheck(s) ==
    /\ thread[s].pc = "hello_read"
    /\ IF Acceptance(peer[s], thread[s]) = "OK"
       THEN /\ thread' = [thread EXCEPT ![s] =
                   [pc |-> "hello_ok", epoch |-> thread[s].epoch]]
            /\ UNCHANGED to_worker
       ELSE /\ thread' = [thread EXCEPT ![s] = At("ended")]
            /\ to_worker' = SendAll({s}, Refuse)
    /\ UNCHANGED <<evidence, registry, pending, peer, boot_key, outstanding,
                   client, asleep, proc, to_coordinator, phase, history>>

HandshakeRegister(s) ==
    /\ thread[s].pc = "hello_ok"
    /\ workers' = Put(workers, peer[s],
                      [snapshot |-> WorkerSnapshot[peer[s]],
                       epoch |-> thread[s].epoch, fenced |-> FALSE])
    /\ boot_key' = [boot_key EXCEPT ![s] = peer[s]]
    /\ to_worker' = SendAll({s}, [type |-> "registered", epoch |-> thread[s].epoch])
    /\ thread' = [thread EXCEPT ![s] = LoopOrEnd]
    /\ UNCHANGED <<evidence, fenced_boots, pending, peer, outstanding, client,
                   asleep, proc, to_coordinator, phase, history>>

----------------------------------------------------------------------------
(* Worker::Run, as the coordinator sees it.                                *)

Later(a, b) == IF a >= b THEN a ELSE b

\* The worker reads one frame.  A plan request is answered with a result, or
\* with a PLAN_ERROR, which the coordinator's session loop reads and drops.
WorkerRead(s) ==
    /\ proc[s].pc \in {"greeting", "serving"}
    /\ to_worker[s] # <<>>
    /\ LET m     == Head(to_worker[s])
           known == Later(proc[s].epoch, m.epoch)
       IN  CASE m.type = "refuse" ->
                    /\ proc' = [proc EXCEPT ![s] = [pc |-> "gone", epoch |-> 0]]
                    /\ UNCHANGED to_coordinator
             [] m.type = "registered" ->
                    /\ proc' = [proc EXCEPT ![s] = [pc |-> "serving", epoch |-> m.epoch]]
                    /\ UNCHANGED to_coordinator
             [] m.type = "plan" ->
                    /\ proc' = [proc EXCEPT ![s].epoch = known]
                    /\ \/ to_coordinator' = [to_coordinator EXCEPT ![s] =
                              Append(@, [request |-> m.request, epoch |-> known])]
                       \/ UNCHANGED to_coordinator
    /\ to_worker' = [to_worker EXCEPT ![s] =
           IF Head(@) = Refuse THEN <<>> ELSE Tail(@)]
    /\ UNCHANGED <<evidence, registry, pending, session, client, asleep,
                   phase, history>>

\* The process is killed, stopped, or loses its connection.
WorkerGone(s) ==
    /\ proc[s].pc \in {"greeting", "serving"}
    /\ proc' = [proc EXCEPT ![s] = [pc |-> "gone", epoch |-> 0]]
    /\ to_worker' = [to_worker EXCEPT ![s] = <<>>]
    /\ UNCHANGED <<evidence, registry, pending, session, client, asleep,
                   to_coordinator, phase, history>>

----------------------------------------------------------------------------
(* HandleWorkerPublication: read the registration, validate, fulfil, each  *)
(* under a lock of its own.                                                *)

PublicationRead(s) ==
    /\ thread[s].pc = "serving"
    /\ to_coordinator[s] # <<>>
    /\ LET m == Head(to_coordinator[s])
           b == peer[s]
       IN  thread' = [thread EXCEPT ![s] =
               [pc |-> "arrived", request |-> m.request, epoch |-> m.epoch,
                snapshot |-> IF b \in DOMAIN workers
                             THEN workers[b].snapshot ELSE NoSnapshot,
                late |-> b \in revoked]]
    /\ to_coordinator' = [to_coordinator EXCEPT ![s] = Tail(@)]
    /\ UNCHANGED <<evidence, registry, pending, peer, boot_key, outstanding,
                   client, asleep, proc, to_worker, phase, history>>

\* Mutant: registration alone stands for the boot not being fenced.
ValidateRegistrationOnly(b, p) ==
    IF b \notin DOMAIN workers                            THEN "UNKNOWN_WORKER"
    ELSE IF workers[b].fenced                             THEN "UNKNOWN_WORKER"
    ELSE IF p.epoch # epoch                               THEN "EPOCH_STALE"
    ELSE IF p.snapshot # snapshot                         THEN "SNAPSHOT_MISMATCH"
    ELSE "OK"

ValidatePublication(b, p) ==
    IF b \in fenced_boots                                 THEN "WORKER_FENCED"
    ELSE IF b \notin DOMAIN workers                       THEN "UNKNOWN_WORKER"
    ELSE IF workers[b].fenced                             THEN "UNKNOWN_WORKER"
    ELSE IF p.epoch # epoch                               THEN "EPOCH_STALE"
    ELSE IF p.snapshot # snapshot                         THEN "SNAPSHOT_MISMATCH"
    ELSE "OK"

PublicationValidate(s) ==
    /\ thread[s].pc = "arrived"
    /\ thread' = [thread EXCEPT ![s] =
           [pc |-> "decided", request |-> thread[s].request, late |-> thread[s].late,
            status |-> ValidatePublication(peer[s], thread[s])]]
    /\ UNCHANGED <<evidence, registry, pending, peer, boot_key, outstanding,
                   client, asleep, network, phase, history>>

Unready(r) == r \in DOMAIN pending /\ ~pending[r].ready

\* Mutant: nobody is notified of a slot that became ready.
NotifyNobody == UNCHANGED asleep

\* pending_cv.notify_all: every thread blocked on it looks at its slot again.
NotifyAll == asleep' = {}

\* The slot is fulfilled if it still waits; a refused worker is told.
PublicationFulfil(s) ==
    /\ thread[s].pc = "decided"
    /\ LET p  == thread[s]
           ok == p.status = "OK"
       IN  /\ pending' = IF Unready(p.request)
                         THEN [pending EXCEPT ![p.request].ready = TRUE,
                                              ![p.request].status = p.status]
                         ELSE pending
           /\ to_worker' = IF ok THEN to_worker ELSE SendAll({s}, Refuse)
    /\ thread' = [thread EXCEPT ![s] = LoopOrEnd]
    /\ NotifyAll
    /\ UNCHANGED <<evidence, registry, peer, boot_key, outstanding, client,
                   proc, to_coordinator, phase, history>>

----------------------------------------------------------------------------
(* The end of a session: a failed or timed-out read, then ReleaseSession.  *)

EndSession(s) ==
    /\ \/ thread[s].pc = "open"
       \/ /\ thread[s].pc = "serving"
          /\ to_coordinator[s] = <<>> \/ proc[s].pc = "gone" \/ phase # "running"
    /\ thread' = [thread EXCEPT ![s] = At("ended")]
    /\ UNCHANGED <<evidence, registry, pending, peer, boot_key, outstanding,
                   client, asleep, network, phase, history>>

\* Mutant: a session that never registered fences its empty key.
LostKey(s) == {boot_key[s]}

\* The boot identity that ends with session s, if it took the worker role.
Lost(s) == {boot_key[s]} \ {NoBoot}

\* Mutant: the registration outlives its session.
KeepRegistration(s) == workers

Unregister(s) == Erase(workers, Lost(s))

\* Mutant: a lost worker's request is erased instead of failed.
EraseOutstanding(s) == Erase(pending, {outstanding[s]})

\* Mutant: the outstanding request of a lost worker is left to time out.
FailNothing(s) == pending

\* The pending table after the outstanding request of session s failed.
FailOutstanding(s) ==
    IF Unready(outstanding[s])
    THEN [pending EXCEPT ![outstanding[s]].ready = TRUE,
                         ![outstanding[s]].status = "UNKNOWN_WORKER"]
    ELSE pending

\* The socket is closed: what its worker still sends is lost.
Disconnect(s) ==
    /\ proc' = [proc EXCEPT ![s] = [pc |-> "gone", epoch |-> 0]]
    /\ to_worker' = [to_worker EXCEPT ![s] = <<>>]
    /\ to_coordinator' = [to_coordinator EXCEPT ![s] = <<>>]

ReleaseSession(s) ==
    /\ thread[s].pc = "ended"
    /\ thread' = [thread EXCEPT ![s] = At("released")]
    /\ Disconnect(s)
    /\ workers' = Unregister(s)
    /\ fenced_boots' = fenced_boots \cup Lost(s)
    /\ revoked' = revoked \cup Lost(s)
    /\ pending' = FailOutstanding(s)
    /\ NotifyAll
    /\ UNCHANGED <<evidence, peer, boot_key, outstanding, client, phase,
                   advanced>>

----------------------------------------------------------------------------
(* HandleClientFrame, PLAN_REQUEST: choose a worker and record the slot,   *)
(* relay the frame unlocked, wait at most receive_bound_ms, answer.        *)

Available(s) ==
    /\ boot_key[s] # NoBoot
    /\ thread[s].pc \notin {"ended", "released"}
    /\ outstanding[s] = NoRequest
    /\ boot_key[s] \in DOMAIN workers
    /\ ~workers[boot_key[s]].fenced

FirstAvailable == CHOOSE s \in Session :
    Available(s) /\ \A u \in Session : Available(u) => s <= u

Dispatch(c, r) ==
    /\ client[c].pc = "reading"
    /\ r \in ClientRequests[c]
    /\ IF \E s \in Session : Available(s)
       THEN LET s == FirstAvailable IN
            /\ Len(to_worker[s]) + Len(to_coordinator[s]) < MaxQueue
            /\ pending' = Put(pending, r, [ready |-> FALSE, status |-> "INTERNAL"])
            /\ outstanding' = [outstanding EXCEPT ![s] = r]
            /\ client' = [client EXCEPT ![c] =
                   [pc |-> "relaying", request |-> r, worker |-> s, epoch |-> epoch]]
       ELSE /\ pending' = Put(pending, r, [ready |-> TRUE,
                                           status |-> "NO_WORKER_AVAILABLE"])
            /\ client' = [client EXCEPT ![c] = [pc |-> "waiting", request |-> r]]
            /\ UNCHANGED outstanding
    /\ UNCHANGED <<evidence, registry, thread, peer, boot_key, asleep,
                   network, phase, history>>

\* The send succeeds while the socket is open, and can fail once the peer or
\* the session is gone.
Relay(c) ==
    /\ client[c].pc = "relaying"
    /\ LET r == client[c].request
           s == client[c].worker
       IN  \/ /\ thread[s].pc # "released"
              /\ to_worker' = SendAll({s}, [type |-> "plan", request |-> r,
                                       epoch |-> client[c].epoch])
              /\ UNCHANGED pending
           \/ /\ thread[s].pc \in {"ended", "released"} \/ proc[s].pc = "gone"
              /\ pending' = Put(pending, r, [ready |-> TRUE,
                                             status |-> "NO_WORKER_AVAILABLE"])
              /\ UNCHANGED to_worker
    /\ client' = [client EXCEPT ![c] =
           [pc |-> "waiting", request |-> client[c].request]]
    /\ UNCHANGED <<evidence, registry, session, asleep, proc, to_coordinator,
                   phase, history>>

\* wait_for tests its predicate before it blocks, and after each notice.
WaitForSlot(c) ==
    /\ client[c].pc = "waiting"
    /\ c \notin asleep
    /\ Unready(client[c].request)
    /\ asleep' = asleep \cup {c}
    /\ UNCHANGED <<evidence, registry, pending, session, client, network, phase,
                   history>>

\* Mutant: an untimed wait for a ready slot, which an erased one never is.
WakesWhenReady(c) ==
    LET r == client[c].request
    IN  c \notin asleep /\ r \in DOMAIN pending /\ pending[r].ready

\* A thread returns from wait_for when it finds its slot ready or missing,
\* and out of its sleep when the bound expires.
Wakes(c) == c \notin asleep => ~Unready(client[c].request)

\* Mutant: only a fulfilled request frees its worker.
FreedWhenReady(r) ==
    IF r \in DOMAIN pending /\ pending[r].ready
    THEN [s \in Session |-> IF outstanding[s] = r THEN NoRequest ELSE outstanding[s]]
    ELSE outstanding

\* Every session that carries the request is idle again.
Freed(r) ==
    [s \in Session |-> IF outstanding[s] = r THEN NoRequest ELSE outstanding[s]]

\* The status the client is answered with.
Answer(r) ==
    IF r \notin DOMAIN pending    THEN "INTERNAL"
    ELSE IF ~pending[r].ready     THEN "RECEIVE_BOUND_EXCEEDED"
    ELSE pending[r].status

\* The thread answers with Answer(r), then reads the next frame unless
\* stopping.
Resolve(c) ==
    /\ client[c].pc = "waiting"
    /\ LET r == client[c].request
       IN  /\ Wakes(c)
           /\ pending' = Erase(pending, {r})
           /\ outstanding' = Freed(r)
           /\ client' = [client EXCEPT ![c] =
                  At(IF phase = "running" THEN "reading" ELSE "ended")]
           /\ asleep' = asleep \ {c}
    /\ UNCHANGED <<evidence, registry, thread, peer, boot_key, network, phase,
                   history>>

\* The client disconnects, stays silent, or the coordinator stops.
EndClient(c) ==
    /\ client[c].pc = "reading"
    /\ client' = [client EXCEPT ![c] = At("ended")]
    /\ UNCHANGED <<evidence, registry, pending, session, asleep, network,
                   phase, history>>

----------------------------------------------------------------------------
(* Operator calls.  Fence notices are sent after the lock is released; a   *)
(* notice still travelling stands for one not yet sent.                    *)

AdvanceEpoch(e) ==
    LET roles == {s \in Session : boot_key[s] # NoBoot}
    IN  /\ "advance_epoch" \in Administrators
        /\ e > epoch
        /\ epoch' = e
        /\ workers' = Erase(workers, DOMAIN workers)
        /\ fenced_boots' = fenced_boots \cup {boot_key[s] : s \in roles}
        /\ to_worker' = SendAll(roles, Refuse)
        /\ revoked' = revoked \cup DOMAIN workers
        /\ advanced' = e
        /\ UNCHANGED <<snapshot, publishing, pending, session, client, asleep,
                       proc, to_coordinator, phase>>

\* PublishSnapshot raises the epoch first and publishes after the unlock.
PublishSnapshotEpoch(s, e) ==
    /\ "publish_snapshot" \in Administrators
    /\ publishing = NoSnapshot
    /\ epoch' = Later(e, epoch)
    /\ publishing' = s
    /\ UNCHANGED <<snapshot, registry, pending, session, client, asleep,
                   network, phase, history>>

PublishSnapshotRuntime ==
    /\ publishing # NoSnapshot
    /\ snapshot' = publishing
    /\ publishing' = NoSnapshot
    /\ UNCHANGED <<epoch, registry, pending, session, client, asleep, network,
                   phase, history>>

FenceWorker(b) ==
    LET held == {s \in Session : boot_key[s] = b}
        last == {s \in held : \A u \in held : u <= s}
    IN  /\ "fence_worker" \in Administrators
        /\ b \in DOMAIN workers
        /\ \A s \in last : Len(to_worker[s]) < MaxQueue
        /\ workers' = [workers EXCEPT ![b].fenced = TRUE]
        /\ fenced_boots' = fenced_boots \cup {b}
        /\ revoked' = revoked \cup {b}
        /\ to_worker' = SendAll(last, Refuse)
        /\ UNCHANGED <<evidence, pending, session, client, asleep, proc,
                       to_coordinator, phase, advanced>>

Stop ==
    /\ "stop" \in Administrators
    /\ phase = "running"
    /\ phase' = "stopping"
    /\ NotifyAll
    /\ UNCHANGED <<evidence, registry, pending, session, client, network,
                   history>>

\* Every session thread has returned, so Stop's joins return.
Joined ==
    /\ \A s \in Session : thread[s].pc \in {"free", "released"}
    /\ \A c \in Client : client[c].pc = "ended"

StopJoined ==
    /\ phase = "stopping" /\ Joined
    /\ phase' = "stopped"
    /\ workers' = <<>> /\ pending' = <<>>
    /\ UNCHANGED <<evidence, fenced_boots, session, client, asleep, network,
                   history>>

----------------------------------------------------------------------------
Init ==
    /\ epoch = InitialEpoch
    /\ snapshot = InitialSnapshot
    /\ publishing = NoSnapshot
    /\ workers = <<>>
    /\ fenced_boots = {}
    /\ pending = <<>>
    /\ thread = [s \in Session |-> At("free")]
    /\ peer = [s \in Session |-> NoBoot]
    /\ boot_key = [s \in Session |-> NoBoot]
    /\ outstanding = [s \in Session |-> NoRequest]
    /\ client = [c \in Client |-> At("reading")]
    /\ asleep = {}
    /\ proc = [s \in Session |-> [pc |-> "gone", epoch |-> 0]]
    /\ to_worker = [s \in Session |-> <<>>]
    /\ to_coordinator = [s \in Session |-> <<>>]
    /\ phase = "running"
    /\ revoked = {}
    /\ advanced = 0

SessionStep(s) ==
    \/ HandshakeRead(s) \/ HandshakeCheck(s) \/ HandshakeRegister(s)
    \/ PublicationRead(s) \/ PublicationValidate(s) \/ PublicationFulfil(s)
    \/ EndSession(s) \/ ReleaseSession(s)

ClientStep(c) ==
    Relay(c) \/ WaitForSlot(c) \/ (phase = "stopping" /\ EndClient(c))

Next ==
    \/ \E s \in Session, b \in Boot : Connect(s, b)
    \/ \E s \in Session : SessionStep(s) \/ WorkerRead(s) \/ WorkerGone(s)
    \/ \E c \in Client, r \in Request : Dispatch(c, r)
    \/ \E c \in Client : Relay(c) \/ WaitForSlot(c) \/ Resolve(c) \/ EndClient(c)
    \/ \E e \in 1..MaxEpoch : AdvanceEpoch(e)
    \/ \E s \in Snapshot : PublishSnapshotEpoch(s, SnapshotEpoch[s])
    \/ PublishSnapshotRuntime
    \/ \E b \in Boot : FenceWorker(b)
    \/ Stop
    \/ StopJoined

Spec == Init /\ [][Next]_vars

\* Threads are scheduled and their waits are bounded: a read returns or runs
\* into receive_bound_ms, and so does the wait for a publication.  Resolve is
\* strongly fair: the bound counts from the first wait, so the notices of
\* other requests that interrupt it again and again do not put it off.
FairSpec ==
    /\ Spec
    /\ \A s \in Session : WF_vars(SessionStep(s))
    /\ \A c \in Client : WF_vars(ClientStep(c)) /\ SF_vars(Resolve(c))
    /\ WF_vars(StopJoined)

----------------------------------------------------------------------------
(* Properties.                                                             *)

Slot == [ready : BOOLEAN, status : WireStatus]
Registration == [snapshot : Snapshot, epoch : Nat, fenced : BOOLEAN]

\* Session s hands its worker's result to a waiting request in this step.
Accepts(s) ==
    /\ thread[s].pc = "decided" /\ thread'[s].pc # "decided"
    /\ thread[s].status = "OK" /\ Unready(thread[s].request)

\* Types of the coordinator's fields (dist.cpp, Coordinator::Impl).
TypeOK ==
    /\ epoch \in Nat
    /\ snapshot \in Snapshot
    /\ publishing \in Snapshot \cup {NoSnapshot}
    /\ DOMAIN workers \subseteq Boot
    /\ workers \in [DOMAIN workers -> Registration]
    /\ fenced_boots \subseteq Boot
    /\ DOMAIN pending \subseteq Request
    /\ pending \in [DOMAIN pending -> Slot]
    /\ boot_key \in [Session -> Boot \cup {NoBoot}]
    /\ outstanding \in [Session -> Request \cup {NoRequest}]
    /\ asleep \subseteq Client
    /\ phase \in {"running", "stopping", "stopped"}

\* A request still waiting for its worker has one: a session that carries it
\* and has not been released, so its end will fail the request.  Holds also
\* when two clients use one request identity.
NoOrphanedRequest ==
    \A r \in Request :
        Unready(r) => \E s \in Session :
            outstanding[s] = r /\ thread[s].pc # "released"

\* A session counted busy has a client thread that will free it, so a worker
\* is never lost to a request that timed out.
BusyWorkerHasWaiter ==
    \A s \in Session :
        outstanding[s] # NoRequest =>
            \E c \in Client : /\ client[c].pc \in {"relaying", "waiting"}
                               /\ client[c].request = outstanding[s]

\* A registered boot has a session that is not released, so fencing it finds
\* a socket and its session's end removes it.
RegisteredHasSession ==
    \A b \in DOMAIN workers :
        \E s \in Session : boot_key[s] = b /\ thread[s].pc # "released"

\* Nobody else uses the request identities of client c.
Exclusive(c) ==
    \A d \in Client \ {c} : ClientRequests[c] \cap ClientRequests[d] = {}

\* A client that alone uses its request identities never sleeps on an answer:
\* while its thread is blocked its slot is there and not ready, so whatever
\* made it ready woke the thread, whichever of the result and the wait came
\* first.  A missed notice costs the client the whole receive_bound_ms.
NoMissedWakeup ==
    \A c \in asleep : Exclusive(c) => Unready(client[c].request)

\* A client that alone uses its request identities is never told that the
\* dispatch state was lost: nobody else erases its slot.
DispatchStateKept ==
    [][\A c \in Client :
          /\ Exclusive(c)
          /\ client[c].pc = "waiting" /\ client'[c].pc # "waiting"
          => Answer(client[c].request) # "INTERNAL"]_vars

\* README 11: a late completion from a fenced boot is refused.  What is read
\* after the boot lost its registration, to a fence, an epoch advance or the
\* loss of any of its sessions, is never accepted, even if the same boot
\* managed to register again.
RevokedNeverAccepted ==
    [][\A s \in Session : Accepts(s) => ~thread[s].late]_vars

\* Every request a client submits is answered.
RequestAnswered ==
    \A c \in Client :
        client[c].pc \in {"relaying", "waiting"} ~>
            client[c].pc \in {"reading", "ended"}

\* Stop returns: no session or client thread waits for another one forever.
StopCompletes == phase = "stopping" ~> phase = "stopped"

----------------------------------------------------------------------------
(* What the documentation says and the code does not do.                   *)

\* README 11: AdvanceEpoch fences every registered worker so no prior live
\* authority survives.  A handshake decided before the advance registers
\* after it.
NoAuthorityFromBefore == \A b \in DOMAIN workers : workers[b].epoch >= advanced
============================================================================
