--------------------------- MODULE PlannerClient ---------------------------
(***************************************************************************)
(* DistributedPlannerClient, the byte stream to the coordinator, and the   *)
(* coordinator's session for it (dist.cpp, net.cpp, proto.cpp).  Threads   *)
(* share one client; its mutex is held over a whole exchange, the blocking *)
(* read included.  The coordinator answers the frames of a session one by  *)
(* one, and an answer names the request but carries no number of its own   *)
(* that the client would compare: which answer belongs to which call       *)
(* follows from the order of the stream alone.                             *)
(*                                                                         *)
(* A frame is three units, two of header and one of payload, so that a     *)
(* read can stop anywhere in it.  The epoch that frames mirror is left     *)
(* out: the client stores the latest one and the coordinator does not read *)
(* the one a client sends back.                                            *)
(***************************************************************************)
EXTENDS Currentness, Sequences, FiniteSets

CONSTANTS
    Thread,          \* threads that share the client
    Plan,            \* plans asked about: [evidence, sequence]
    Bounds           \* bounds, one of which a behaviour keeps: the calls that
                     \* send a frame, the connections, the coordinator's changes

ASSUME ClientAssumption ==
    /\ Plan \subseteq [evidence : [Dimension -> Nat], sequence : Nat]
    /\ Bounds \subseteq [calls : Nat, connections : Nat, changes : Nat]

Op == {"SNAPSHOT_REQUEST", "PLAN_REQUEST", "VALIDATE_CURRENTNESS"}
AnswerType == {"SNAPSHOT_RESPONSE", "PLAN_RESULT", "PLAN_ERROR",
               "CURRENTNESS_RESULT"}

VARIABLES
    socket,        \* the connection in use, or 0 for kInvalidSocket
    sequence,      \* Impl::sequence, the number of the latest call
    calls,         \* what each thread is doing; seen, a history, is what the
                   \* coordinator went through during a currentness query
    conn,          \* connections made so far
    outbox,        \* frames on the way to the coordinator
    wire, inbox,   \* units on the way to the client, and those arrived
    eof,           \* the coordinator's end of the stream is closed
    session,       \* the coordinator's session thread for the connection
    coordinator,
    bound, changes,  \* the bound kept, and changes at the coordinator so far
    troubled,      \* history: a read on this connection has failed
    consumed,      \* history: the number of the latest answer accepted
    returned       \* history: the latest return of a call

client == <<socket, sequence, calls>>
stream == <<conn, outbox, wire, inbox, eof>>
remote == <<session, coordinator, changes, bound>>
history == <<troubled, consumed, returned>>
vars == <<client, stream, remote, history>>

Idle == [phase |-> "idle"]
NoReturn == [op |-> "none"]
NoSession == [phase |-> "closed"]
Reading == [phase |-> "reading"]

Init ==
    /\ socket = 0 /\ sequence = 0
    /\ calls = [t \in Thread |-> Idle]
    /\ conn = 0 /\ outbox = <<>> /\ wire = <<>> /\ inbox = <<>> /\ eof = FALSE
    /\ session = NoSession
    /\ coordinator = [incarnation |-> 1, sequence |-> 1,
                      evidence |-> [d \in Dimension |-> 1]]
    /\ changes = 0 /\ bound \in Bounds
    /\ troubled = FALSE /\ consumed = 0 /\ returned = NoReturn

\* Mutant: the mutex is released before the blocking read.
Lockable_NotAcrossRead == TRUE

\* The client's mutex is free.
Lockable == \A t \in Thread : calls[t] = Idle

----------------------------------------------------------------------------
(* Connect and Close.                                                      *)

\* Both ends of a new connection are empty; what an earlier one left is gone.
FreshStream ==
    /\ outbox' = <<>> /\ wire' = <<>> /\ inbox' = <<>>
    /\ troubled' = FALSE /\ consumed' = sequence /\ returned' = NoReturn

\* A session beyond max_sessions is accepted by the listener and closed at
\* once.  A refused connection leaves the socket invalid and changes nothing.
\* On an open socket, a dead one too, Connect answers true and changes nothing.
Connect ==
    /\ Lockable
    /\ socket = 0
    /\ conn < bound.connections
    /\ conn' = conn + 1
    /\ socket' = conn'
    /\ FreshStream
    /\ \E accepted \in BOOLEAN :
          /\ session' = IF accepted THEN Reading ELSE NoSession
          /\ eof' = ~accepted
    /\ UNCHANGED <<sequence, calls, coordinator, changes, bound>>

Disconnect ==
    /\ socket # 0
    /\ socket' = 0
    /\ FreshStream
    /\ session' = NoSession
    /\ eof' = FALSE
    /\ UNCHANGED <<sequence, calls, conn, coordinator, changes, bound>>

\* Mutant: Close does not take the mutex.
Close_Unlocked == Disconnect

Close == Lockable /\ Disconnect

----------------------------------------------------------------------------
(* The beginning of a call: SnapshotInfo, Submit and QueryCurrentness.     *)

Frame(op, plan) == [op |-> op, number |-> sequence + 1, plan |-> plan]
Torn == [op |-> "torn"]

Return(t, op, verdict) ==
    /\ calls' = [calls EXCEPT ![t] = Idle]
    /\ returned' = [op |-> op, verdict |-> verdict]

\* Nothing was sent: the client is not connected, or the encoded request is
\* larger than a frame may be.
CallRefused(t, op) ==
    /\ Lockable
    /\ calls[t] = Idle
    /\ socket = 0 \/ op = "PLAN_REQUEST"
    /\ Return(t, op, "not sent")
    /\ UNCHANGED <<socket, sequence, stream, remote, troubled, consumed>>

Call(t, op, plan) ==
    /\ Lockable
    /\ calls[t] = Idle
    /\ socket # 0
    /\ sequence < bound.calls
    /\ sequence' = sequence + 1
    /\ outbox' = Append(outbox, Frame(op, plan))
    /\ calls' = [calls EXCEPT ![t] =
           [phase |-> "header", op |-> op, number |-> sequence', plan |-> plan,
            seen |-> IF op = "VALIDATE_CURRENTNESS" THEN <<coordinator>> ELSE <<>>]]
    /\ returned' = NoReturn
    /\ UNCHANGED <<socket, conn, wire, inbox, eof, remote, troubled,
                   consumed>>

\* SendAll fails before the first byte or after some; the socket stays open.
CallUnsent(t, op) ==
    /\ Lockable
    /\ calls[t] = Idle
    /\ socket # 0
    /\ sequence < bound.calls
    /\ sequence' = sequence + 1
    /\ \/ outbox' = Append(outbox, Torn)
       \/ UNCHANGED outbox
    /\ Return(t, op, "send failed")
    /\ UNCHANGED <<socket, conn, wire, inbox, eof, remote, troubled,
                   consumed>>

----------------------------------------------------------------------------
(* ReadFrame: the header, then as much payload as it declares, each under  *)
(* the receive bound; DecodeFrame accepts only the bytes of one frame.     *)

HeaderUnits == 2

\* A header that does not start a frame declares any length or one that is
\* above the ceiling, and it is not accepted in the end.
MaxGarbage == 2
Starts(head) == head[1].part = 1 /\ head[2].part = 2 /\ head[1].of = head[2].of

ReadHeader(t) ==
    /\ calls[t].phase = "header"
    /\ Len(inbox) >= HeaderUnits
    /\ LET head == SubSeq(inbox, 1, HeaderUnits)
       IN  \E need \in IF Starts(head) THEN {1} ELSE 1..MaxGarbage :
              calls' = [calls EXCEPT ![t] =
                  [phase |-> "payload", head |-> head, need |-> need,
                   op |-> @.op, number |-> @.number, plan |-> @.plan,
                   seen |-> @.seen]]
    /\ inbox' = SubSeq(inbox, HeaderUnits + 1, Len(inbox))
    /\ UNCHANGED <<socket, sequence, conn, outbox, wire, eof, remote,
                   history>>

\* The read failed: the caller is told so, and the socket is kept.
Fails(t) ==
    /\ Return(t, calls[t].op, "read failed")
    /\ troubled' = TRUE
    /\ UNCHANGED <<socket, sequence, conn, outbox, wire, eof, remote,
                   consumed>>

\* A garbage length above the ceiling, or no payload at all: rejected at once.
ReadRejected(t) ==
    /\ calls[t].phase = "header"
    /\ Len(inbox) >= HeaderUnits
    /\ ~Starts(SubSeq(inbox, 1, HeaderUnits))
    /\ inbox' = SubSeq(inbox, HeaderUnits + 1, Len(inbox))
    /\ Fails(t)

Needed(t) == IF calls[t].phase = "header" THEN HeaderUnits ELSE calls[t].need

\* Mutant: the receive has no bound, only the end of the stream ends it.
RecvGivesUp_Unbounded(t) == eof /\ wire = <<>>

\* The receive bound elapsed, or the peer closed; either may happen while the
\* bytes asked for have not all arrived.
RecvGivesUp(t) == TRUE

\* RecvExact gives up.  The bytes it had taken are lost.
ReadFails(t) ==
    /\ calls[t].phase \in {"header", "payload"}
    /\ Len(inbox) < Needed(t)
    /\ RecvGivesUp(t)
    /\ inbox' = <<>>
    /\ Fails(t)

AnswerTo(op) ==
    CASE op = "SNAPSHOT_REQUEST"     -> "SNAPSHOT_RESPONSE"
      [] op = "PLAN_REQUEST"         -> "PLAN_RESULT"
      [] op = "VALIDATE_CURRENTNESS" -> "CURRENTNESS_RESULT"

\* What the three calls do with a frame.  No identity in it is compared with
\* the call; a frame of another type is an error the caller sees.
Accept(t, answer) ==
    LET c == calls[t]
    IN  /\ calls' = [calls EXCEPT ![t] = Idle]
        /\ returned' = [op |-> c.op,
                        verdict |-> IF answer.type = AnswerTo(c.op)
                                    THEN "ok" ELSE "error",
                        answer |-> answer, number |-> c.number, plan |-> c.plan,
                        seen |-> c.seen, after |-> consumed,
                        troubled |-> troubled]
        /\ consumed' = answer.number

ReadPayload(t) ==
    /\ calls[t].phase = "payload"
    /\ Len(inbox) >= calls[t].need
    /\ LET head  == calls[t].head
           whole == Starts(head) /\ inbox[1] = [part |-> 3, of |-> head[1].of]
       IN  /\ inbox' = SubSeq(inbox, calls[t].need + 1, Len(inbox))
           /\ \/ whole /\ Accept(t, head[1].of)
                 /\ UNCHANGED <<socket, sequence, conn, outbox, wire, eof, remote,
                                troubled>>
              \/ ~whole /\ Fails(t)

----------------------------------------------------------------------------
(* The coordinator's session thread: SessionLoop and HandleClientFrame.    *)
(* A plan takes as long as a worker needs, or ends in an error.            *)

SessionRead ==
    /\ session.phase = "reading"
    /\ outbox # <<>>
    /\ Head(outbox).op # "torn"
    /\ session' = [phase |-> "working", frame |-> Head(outbox)]
    /\ outbox' = Tail(outbox)
    /\ UNCHANGED <<client, conn, wire, inbox, eof, coordinator, changes, bound, history>>

\* SendFrame of an answer, whose failure the session ignores.
Answer(type, currentness) ==
    LET a == [type |-> type, number |-> session.frame.number, conn |-> conn,
              currentness |-> currentness]
    IN  /\ wire' = wire \o [i \in 1..3 |-> [part |-> i, of |-> a]]
        /\ session' = Reading
        /\ UNCHANGED <<client, conn, outbox, inbox, eof, coordinator, changes, bound,
                       history>>

HandleSnapshotRequest ==
    /\ session.phase = "working" /\ session.frame.op = "SNAPSHOT_REQUEST"
    /\ Answer("SNAPSHOT_RESPONSE", "none")

HandlePlanRequest ==
    /\ session.phase = "working" /\ session.frame.op = "PLAN_REQUEST"
    /\ \E type \in {"PLAN_RESULT", "PLAN_ERROR"} : Answer(type, "none")

\* The evidence of runtime.CurrentSnapshot() ...
CompareEvidence ==
    /\ session.phase = "working" /\ session.frame.op = "VALIDATE_CURRENTNESS"
    /\ session' = [phase |-> "compared", frame |-> session.frame,
                   currentness |-> ClassifyEvidence(session.frame.plan.evidence,
                                                    coordinator.evidence)]
    /\ UNCHANGED <<client, stream, coordinator, changes, bound, history>>

\* Mutant: the watermark is not compared.
SequenceVerdict_EvidenceOnly(currentness, plan) == currentness

\* ... and runtime.PublishSequence(), read under a lock of its own.
SequenceVerdict(currentness, plan) ==
    IF currentness = "CURRENT" /\ plan.sequence # coordinator.sequence
    THEN "REVALIDATION_REQUIRED" ELSE currentness

CompareSequence ==
    /\ session.phase = "compared"
    /\ Answer("CURRENTNESS_RESULT",
              SequenceVerdict(session.currentness, session.frame.plan))

\* A torn frame, the receive bound of an idle session, or the stop of the
\* coordinator ends the loop and closes the socket; what was sent stays
\* readable, unless the close resets the connection.
SessionEnds ==
    /\ session.phase = "reading"
    /\ session' = NoSession
    /\ eof' = TRUE
    /\ outbox' = <<>>
    /\ wire' \in {wire, <<>>}
    /\ UNCHANGED <<client, conn, inbox, coordinator, changes, bound, history>>

\* Some bytes arrive.
Deliver ==
    /\ wire # <<>>
    /\ inbox' = Append(inbox, Head(wire))
    /\ wire' = Tail(wire)
    /\ UNCHANGED <<client, conn, outbox, eof, remote, history>>

----------------------------------------------------------------------------
(* Changes at the coordinator, each one critical section of its runtime.   *)

\* The coordinator becomes c, and a query under way lives through it.
Becomes(c) ==
    /\ changes < bound.changes
    /\ changes' = changes + 1
    /\ coordinator' = c
    /\ calls' = [t \in Thread |->
           IF calls[t] = Idle \/ calls[t].seen = <<>> THEN calls[t]
           ELSE [calls[t] EXCEPT !.seen = Append(@, c)]]
    /\ UNCHANGED <<socket, sequence, bound, history>>

\* PublishSnapshot: of changed evidence or of the same again.
PublishSnapshot ==
    /\ \E changed \in {0, 1} :
          Becomes([coordinator EXCEPT !.evidence.topology = @ + changed,
                                      !.sequence = @ + 1])
    /\ UNCHANGED <<stream, session>>

\* An invalidation, or the runtime's part of AdvanceEpoch.
BumpSequence ==
    /\ Becomes([coordinator EXCEPT !.sequence = @ + 1])
    /\ UNCHANGED <<stream, session>>

\* A new process counts publications afresh; the fabric has changed or not.
Restart ==
    /\ \E changed \in {0, 1} :
          Becomes([coordinator EXCEPT !.incarnation = @ + 1, !.sequence = 1,
                                      !.evidence.topology = @ + changed])
    /\ session' = NoSession
    /\ eof' = (socket # 0)
    /\ outbox' = <<>>
    /\ wire' \in {wire, <<>>}
    /\ UNCHANGED <<conn, inbox>>

----------------------------------------------------------------------------
ClientReads(t) == ReadHeader(t) \/ ReadRejected(t) \/ ReadPayload(t) \/ ReadFails(t)

NoPlan == [evidence |-> [d \in Dimension |-> 0], sequence |-> 0]
PlansFor(op) == IF op = "VALIDATE_CURRENTNESS" THEN Plan ELSE {NoPlan}

Next ==
    \/ Connect
    \/ Close
    \/ \E t \in Thread :
          \/ \E op \in Op :
                \/ CallRefused(t, op)
                \/ CallUnsent(t, op)
                \/ \E plan \in PlansFor(op) : Call(t, op, plan)
          \/ ReadHeader(t)
          \/ ReadRejected(t)
          \/ ReadPayload(t)
          \/ ReadFails(t)
    \/ Deliver
    \/ SessionRead
    \/ HandleSnapshotRequest
    \/ HandlePlanRequest
    \/ CompareEvidence
    \/ CompareSequence
    \/ SessionEnds
    \/ PublishSnapshot
    \/ BumpSequence
    \/ Restart

\* A read runs under the receive bound, so it is over in the end; nothing is
\* assumed of the network, of the coordinator or of the next call.
Fairness == \A t \in Thread : WF_vars(ClientReads(t))
Spec == Init /\ [][Next]_vars /\ Fairness

----------------------------------------------------------------------------
(* Properties.                                                             *)

Unit == [part : 1..3,
         of : [type : AnswerType, number : 1..bound.calls, conn : 1..bound.connections,
               currentness : CurrentnessValue \cup {"none"}]]

\* The state of the client, the stream and the session is well formed, and at
\* most one thread is in an exchange.
TypeOK ==
    /\ socket \in {0, conn}
    /\ sequence \in 0..bound.calls /\ conn \in 0..bound.connections
    /\ \A t \in Thread : calls[t].phase \in {"idle", "header", "payload"}
    /\ Cardinality({t \in Thread : calls[t] # Idle}) <= 1
    /\ wire \in Seq(Unit) /\ inbox \in Seq(Unit)
    /\ session.phase \in {"closed", "reading", "working", "compared"}
    /\ socket = 0 => /\ session = NoSession /\ ~eof
                     /\ wire = <<>> /\ inbox = <<>>
                     /\ Lockable

Accepted == returned.op # "none" /\ returned.verdict \in {"ok", "error"}

\* The frame a call takes for its answer was sent over the connection in use,
\* is later than every frame taken before and not later than the call; and it
\* is the answer to this very call, unless an earlier read on the connection
\* had failed.  SnapshotInfo, Submit and QueryCurrentness check none of this.
OwnAnswer ==
    Accepted =>
        /\ returned.answer.conn = socket
        /\ returned.answer.number > returned.after
        /\ returned.answer.number <= returned.number
        /\ ~returned.troubled => returned.answer.number = returned.number

Matches(c, plan) == ClassifyEvidence(plan.evidence, c.evidence) = "CURRENT"

\* CURRENT reported over a connection that never failed a read was earned while
\* the call ran: the coordinator's evidence matched the plan's at some moment
\* and its publication sequence at some moment; and both at one moment when the
\* plan's sequence was one this coordinator had already reached, although
\* HandleClientFrame reads the two one after the other.
CurrentWasTrue ==
    (Accepted /\ returned.answer.currentness = "CURRENT" /\ ~returned.troubled) =>
        LET plan == returned.plan
            seen == {returned.seen[i] : i \in DOMAIN returned.seen}
        IN  /\ \E c \in seen : Matches(c, plan)
            /\ \E c \in seen : c.sequence = plan.sequence
            /\ plan.sequence <= returned.seen[1].sequence =>
                  \E c \in seen : Matches(c, plan) /\ c.sequence = plan.sequence

\* Every call returns, whatever the coordinator and the network do: the
\* receive bound ends the read and releases the mutex.
CallReturns == \A t \in Thread : calls[t] # Idle ~> calls[t] = Idle
============================================================================
